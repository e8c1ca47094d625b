----------------------- MODULE EntryAuthorization_proofs -----------------------
(***************************************************************************)
(* What is proved of the entry authorization for any set of accounts, any  *)
(* number of commands, switches and crashes, and every overlap of them.    *)
(***************************************************************************)
EXTENDS EntryAuthorization, TLAPS

USE AuthorizationAssumption

(***************************************************************************)
(* Type correctness.  start() indexes the records with the account it has  *)
(* read, so that account must be known wherever it is used.                *)
(***************************************************************************)
StartKnown == start.at \in {"loading", "restoring"} => start.acct \in Accounts

Typed == TypeOK /\ StartKnown

LEMMA TypedInit == Init => Typed
<1> SUFFICES ASSUME Init PROVE Typed
    OBVIOUS
<1> USE DEF Init, MaybeAccount
<1>1. FlagsTyped
  BY DEF FlagsTyped
<1>2. IdentitiesTyped
  BY DEF IdentitiesTyped
<1>3. CoroutinesTyped
  BY DEF CoroutinesTyped, StartState, ArmState, EnableState, OffState, HealthState, MainState,
         IdleStart, IdleArm, IdleEnable, IdleOff, IdleHealth, IdleMain
<1>4. CountersTyped
  BY DEF CountersTyped
<1>5. StartKnown
  BY DEF StartKnown, IdleStart
<1>6. QED
  BY <1>1, <1>2, <1>3, <1>4, <1>5 DEF Typed, TypeOK

(* Every flag stays a flag.                                                *)
LEMMA FlagsStep == TypeOK /\ Next => FlagsTyped'
<1> SUFFICES ASSUME TypeOK, Next PROVE FlagsTyped'
    OBVIOUS
<1> USE DEF TypeOK, FlagsTyped, ArmFor, Disarm, operator, engineTasks, authority, autonomy,
            ghosts, bounds
<1>1. CASE Lifecycle
  BY <1>1 DEF Lifecycle, StartBegin, StartRead, StartFails, StartLoad, StartRestore,
              CoreFails, Stop, Crash
<1>2. CASE OperatorStep
  <2>1. CASE ArmBegin \/ ArmFinish \/ ArmFails
    BY <2>1 DEF ArmBegin, ArmFinish, ArmFails
  <2>2. CASE EnableBegin \/ EnableArm \/ EnableProbed \/ EnableFails
    BY <2>2 DEF EnableBegin, EnableArm, EnableProbed, EnableFails
  <2>3. CASE EnablePersist \/ EnablePersistFails \/ EnableFinish
    BY <2>3 DEF EnablePersist, EnablePersistFails, EnableFinish
  <2>4. CASE OperatorDisarm \/ DisableBegin \/ DisableWrite \/ DisableFinish
    BY <2>4 DEF OperatorDisarm, DisableBegin, DisableWrite, DisableFinish
  <2>5. QED
    BY <1>2, <2>1, <2>2, <2>3, <2>4 DEF OperatorStep
<1>3. CASE EngineStep
  BY <1>3 DEF EngineStep, HealthNoProvider, HealthRead, HealthDecide, MainSame, MainSwitch,
              MainAdopt, MainPoll
<1>4. CASE \E a \in Accounts : SwitchAccount(a)
  BY <1>4 DEF SwitchAccount
<1>5. QED
  BY <1>1, <1>2, <1>3, <1>4 DEF Next

(* Every identity stays an account, or none where there may be none.       *)
LEMMA IdentitiesStep == TypeOK /\ Next => IdentitiesTyped'
<1> SUFFICES ASSUME TypeOK, Next PROVE IdentitiesTyped'
    OBVIOUS
<1> USE DEF TypeOK, IdentitiesTyped, CoroutinesTyped, MaybeAccount, StartState, ArmState,
            EnableState, OffState, HealthState, MainState, ArmFor, Disarm, operator,
            engineTasks, authority, autonomy, ghosts, bounds
<1>1. CASE Lifecycle
  BY <1>1 DEF Lifecycle, StartBegin, StartRead, StartFails, StartLoad, StartRestore,
              CoreFails, Stop, Crash
<1>2. CASE OperatorStep
  <2>1. CASE ArmBegin \/ ArmFinish \/ ArmFails
    BY <2>1 DEF ArmBegin, ArmFinish, ArmFails
  <2>2. CASE EnableBegin \/ EnableFails \/ EnablePersistFails
    BY <2>2 DEF EnableBegin, EnableFails, EnablePersistFails
  <2>3. CASE EnableArm
    BY <2>3 DEF EnableArm
  <2>4. CASE EnableProbed
    BY <2>4 DEF EnableProbed
  <2>5. CASE EnablePersist
    BY <2>5 DEF EnablePersist
  <2>6. CASE EnableFinish
    BY <2>6 DEF EnableFinish
  <2>7. CASE OperatorDisarm
    BY <2>7 DEF OperatorDisarm
  <2>8. CASE DisableBegin \/ DisableWrite \/ DisableFinish
    <3>1. CASE DisableBegin
      BY <3>1 DEF DisableBegin
    <3>2. CASE DisableWrite
      BY <3>2 DEF DisableWrite
    <3>3. CASE DisableFinish
      BY <3>3 DEF DisableFinish
    <3>4. QED
      BY <2>8, <3>1, <3>2, <3>3
  <2>9. QED
    BY <1>2, <2>1, <2>2, <2>3, <2>4, <2>5, <2>6, <2>7, <2>8 DEF OperatorStep
<1>3. CASE EngineStep
  BY <1>3 DEF EngineStep, HealthNoProvider, HealthRead, HealthDecide, MainSame, MainSwitch,
              MainAdopt, MainPoll
<1>4. CASE \E a \in Accounts : SwitchAccount(a)
  BY <1>4 DEF SwitchAccount
<1>5. QED
  BY <1>1, <1>2, <1>3, <1>4 DEF Next

(* The bounded counters stay within their bounds.                          *)
LEMMA CountersStep == TypeOK /\ Next => CountersTyped'
<1> SUFFICES ASSUME TypeOK, Next PROVE CountersTyped'
    OBVIOUS
<1> USE DEF TypeOK, CountersTyped, CoroutinesTyped, ArmState, EnableState, MayCommand,
            operator, engineTasks, authority, autonomy, ghosts, bounds
<1>1. CASE Lifecycle
  BY <1>1 DEF Lifecycle, StartBegin, StartRead, StartFails, StartLoad, StartRestore,
              CoreFails, Stop, Crash
<1>2. CASE OperatorStep
  BY <1>2 DEF OperatorStep, ArmBegin, ArmFinish, ArmFails, EnableBegin, EnableArm,
              EnableProbed, EnableFails, EnablePersist, EnablePersistFails, EnableFinish,
              OperatorDisarm, DisableBegin, DisableWrite, DisableFinish
<1>3. CASE EngineStep
  BY <1>3 DEF EngineStep, HealthNoProvider, HealthRead, HealthDecide, MainSame, MainSwitch,
              MainAdopt, MainPoll
<1>4. CASE \E a \in Accounts : SwitchAccount(a)
  BY <1>4 DEF SwitchAccount
<1>5. QED
  BY <1>1, <1>2, <1>3, <1>4 DEF Next

(* Every coroutine stays in one of its places, with what it may keep there. *)
LEMMA CoroutinesStep == Typed /\ Next => CoroutinesTyped'
<1> SUFFICES ASSUME Typed, Next PROVE CoroutinesTyped'
    OBVIOUS
<1> USE DEF Typed, TypeOK, CoroutinesTyped
<1>1. CASE Lifecycle
  <2>1. CASE StartBegin
    BY <2>1 DEF StartBegin, StartState, IdleStart, MaybeAccount, operator, engineTasks
  <2>2. CASE StartRead
    BY <2>2 DEF StartRead, StartState, MaybeAccount, IdentitiesTyped, operator, engineTasks
  <2>3. CASE StartFails
    BY <2>3 DEF StartFails, StartState, IdleStart, MaybeAccount, operator, engineTasks
  <2>4. CASE StartLoad
    BY <2>4 DEF StartLoad, StartState, StartKnown, MaybeAccount, IdentitiesTyped, operator,
                engineTasks
  <2>5. CASE StartRestore
    BY <2>5 DEF StartRestore, StartState, IdleStart, MaybeAccount, operator, engineTasks
  <2>6. CASE CoreFails
    BY <2>6 DEF CoreFails, HealthState, MainState, IdleHealth, IdleMain, MaybeAccount, operator
  <2>7. CASE Stop
    BY <2>7 DEF Stop, HealthState, MainState, IdleHealth, IdleMain, MaybeAccount, operator
  <2>8. CASE Crash
    BY <2>8 DEF Crash, StartState, ArmState, EnableState, OffState, HealthState, MainState,
                IdleStart, IdleArm, IdleEnable, IdleOff, IdleHealth, IdleMain, MaybeAccount
  <2>9. QED
    BY <1>1, <2>1, <2>2, <2>3, <2>4, <2>5, <2>6, <2>7, <2>8 DEF Lifecycle
<1>2. CASE OperatorStep
  <2> USE DEF MaybeAccount, engineTasks
  <2>1. CASE ArmBegin
    BY <2>1 DEF ArmBegin, ArmState, IdentitiesTyped, CountersTyped
  <2>2. CASE ArmFinish \/ ArmFails
    BY <2>2 DEF ArmFinish, ArmFails, ArmState, IdleArm
  <2>3. CASE EnableBegin
    BY <2>3 DEF EnableBegin, EnableState, IdentitiesTyped, CountersTyped
  <2>4. CASE EnableArm
    BY <2>4 DEF EnableArm, EnableState, IdentitiesTyped
  <2>5. CASE EnableProbed \/ EnablePersist
    BY <2>5 DEF EnableProbed, EnablePersist, EnableState
  <2>6. CASE EnableFails \/ EnablePersistFails \/ EnableFinish
    BY <2>6 DEF EnableFails, EnablePersistFails, EnableFinish, EnableState, IdleEnable
  <2>7. CASE OperatorDisarm
    BY <2>7 DEF OperatorDisarm, operator
  <2>8. CASE DisableBegin
    <3>1. PICK a \in {terminal, autoId} :
             IF a = NoAccount
             THEN off' = [at |-> "finishing", acct |-> a, ok |-> ~auto]
             ELSE off' = [at |-> "writing", acct |-> a, ok |-> FALSE]
      BY <2>8 DEF DisableBegin
    <3>2. a \in Accounts \cup {NoAccount} /\ auto \in BOOLEAN
      BY DEF IdentitiesTyped, FlagsTyped
    <3>3. off' \in OffState
      <4> HIDE DEF Typed, TypeOK, CoroutinesTyped
      <4>1. CASE a = NoAccount /\ auto
        <5>1. off' = [at |-> "finishing", acct |-> a, ok |-> FALSE]
          BY <3>1, <4>1
        <5>2. QED
          BY <3>2, <5>1 DEF OffState
      <4>2. CASE a = NoAccount /\ ~auto
        <5>1. off' = [at |-> "finishing", acct |-> a, ok |-> TRUE]
          BY <3>1, <4>2
        <5>2. QED
          BY <3>2, <5>1 DEF OffState
      <4>3. CASE a # NoAccount
        <5>1. off' = [at |-> "writing", acct |-> a, ok |-> FALSE]
          BY <3>1, <4>3
        <5>2. QED
          BY <3>2, <5>1 DEF OffState
      <4>4. QED
        BY <3>2, <4>1, <4>2, <4>3
    <3>4. QED
      BY <2>8, <3>3 DEF DisableBegin
  <2>9. CASE DisableWrite
    BY <2>9 DEF DisableWrite, OffState
  <2>10. CASE DisableFinish
    BY <2>10 DEF DisableFinish, OffState, IdleOff
  <2>11. QED
    BY <1>2, <2>1, <2>2, <2>3, <2>4, <2>5, <2>6, <2>7, <2>8, <2>9, <2>10 DEF OperatorStep
<1>3. CASE EngineStep
  <2> USE DEF MaybeAccount, operator
  <2>1. CASE HealthNoProvider
    BY <2>1 DEF HealthNoProvider, engineTasks
  <2>2. CASE HealthRead
    BY <2>2 DEF HealthRead, HealthState, IdentitiesTyped
  <2>3. CASE HealthDecide
    BY <2>3 DEF HealthDecide, HealthState, IdleHealth
  <2>4. CASE MainSame \/ MainSwitch
    BY <2>4 DEF MainSame, MainSwitch, MainState, IdentitiesTyped
  <2>5. CASE MainAdopt
    BY <2>5 DEF MainAdopt, MainState
  <2>6. CASE MainPoll
    BY <2>6 DEF MainPoll, MainState, IdleMain
  <2>7. QED
    BY <1>3, <2>1, <2>2, <2>3, <2>4, <2>5, <2>6 DEF EngineStep
<1>4. CASE \E a \in Accounts : SwitchAccount(a)
  BY <1>4 DEF SwitchAccount, operator, engineTasks
<1>5. QED
  BY <1>1, <1>2, <1>3, <1>4 DEF Next

(* start() reads an account before it goes on to load the account's record. *)
LEMMA StartKnownStep == Typed /\ Next => StartKnown'
<1> SUFFICES ASSUME Typed, Next PROVE StartKnown'
    OBVIOUS
<1>0. start \in StartState /\ terminal \in Accounts /\ StartKnown
  BY DEF Typed, TypeOK, CoroutinesTyped, IdentitiesTyped
<1> USE DEF StartKnown, StartState, operator
<1>1. CASE Lifecycle
  <2>1. CASE StartBegin \/ StartFails \/ StartRestore \/ Crash
    BY <2>1 DEF StartBegin, StartFails, StartRestore, Crash, IdleStart
  <2>2. CASE StartRead
    BY <1>0, <2>2 DEF StartRead
  <2>3. CASE StartLoad
    BY <1>0, <2>3 DEF StartLoad
  <2>4. CASE CoreFails \/ Stop
    BY <1>0, <2>4 DEF CoreFails, Stop
  <2>5. QED
    BY <1>1, <2>1, <2>2, <2>3, <2>4 DEF Lifecycle
<1>2. CASE OperatorStep
  BY <1>0, <1>2 DEF OperatorStep, ArmBegin, ArmFinish, ArmFails, EnableBegin, EnableArm,
              EnableProbed, EnableFails, EnablePersist, EnablePersistFails, EnableFinish,
              OperatorDisarm, DisableBegin, DisableWrite, DisableFinish
<1>3. CASE EngineStep
  BY <1>0, <1>3 DEF EngineStep, HealthNoProvider, HealthRead, HealthDecide, MainSame, MainSwitch,
              MainAdopt, MainPoll
<1>4. CASE \E a \in Accounts : SwitchAccount(a)
  BY <1>0, <1>4 DEF SwitchAccount
<1>5. QED
  BY <1>1, <1>2, <1>3, <1>4 DEF Next

LEMMA TypedStep == Typed /\ [Next]_vars => Typed'
<1> SUFFICES ASSUME Typed, [Next]_vars PROVE Typed'
    OBVIOUS
<1>1. CASE Next
  BY <1>1, FlagsStep, IdentitiesStep, CountersStep, CoroutinesStep, StartKnownStep
     DEF Typed, TypeOK
<1>2. CASE UNCHANGED vars
  BY <1>2 DEF Typed, TypeOK, FlagsTyped, IdentitiesTyped, CoroutinesTyped, CountersTyped,
              StartKnown, vars, operator, engineTasks, authority, autonomy, ghosts, bounds
<1>3. QED
  BY <1>1, <1>2

(* Type correctness of the entry authorization.                            *)
THEOREM TypeCorrect == Spec => []TypeOK
<1>1. Typed => TypeOK
  BY DEF Typed
<1>2. QED
  BY TypedInit, TypedStep, <1>1, PTL DEF Spec

(***************************************************************************)
(* Authority never moves to an account the operator did not confirm.       *)
(* NoTransfer alone is not inductive: a coroutine that waits for the       *)
(* terminal, the database or the provider still holds the account it has   *)
(* read, and arms, authorizes or persists it later.  All of these are      *)
(* confirmed accounts, too, but for what enable has read a second time.    *)
(***************************************************************************)
PendingAuthority ==
    /\ arm.at = "probing" => arm.acct \in granted
    /\ enable.at # "idle" => enable.acct \in granted
    /\ enable.at \in {"probing", "persisting"} => enable.arm \in granted \cup reread
    /\ start.rec => start.at = "restoring" /\ start.acct \in granted
    /\ autoId # NoAccount => autoId \in granted

Grounded == NoTransfer /\ PendingAuthority

LEMMA GroundedInit == Init => Grounded
BY DEF Init, Grounded, NoTransfer, PendingAuthority, IdleArm, IdleEnable, IdleStart

LEMMA GroundedStep == Typed /\ Grounded /\ Next => Grounded'
<1> SUFFICES ASSUME Typed, Grounded, Next PROVE Grounded'
    OBVIOUS
<1>0. /\ IdentitiesTyped
      /\ start \in StartState /\ arm \in ArmState /\ enable \in EnableState
  BY DEF Typed, TypeOK, CoroutinesTyped
<1> USE <1>0 DEF Grounded, NoTransfer, PendingAuthority, IdentitiesTyped, MaybeAccount,
                 ArmFor, Disarm
<1>1. CASE Lifecycle
  <2> USE DEF operator, autonomy, authority, ghosts
  <2>1. CASE StartBegin
    BY <2>1 DEF StartBegin, StartState, IdleStart
  <2>2. CASE StartRead
    BY <2>2 DEF StartRead, StartState
  <2>3. CASE StartFails
    BY <2>3 DEF StartFails, IdleStart
  <2>4. CASE StartLoad
    <3>1. PICK r \in {stored[start.acct], FALSE} :
             start' = [start EXCEPT !.at = "restoring", !.rec = r]
      BY <2>4 DEF StartLoad
    <3>2. /\ start.acct \in Accounts
          /\ start'.at = "restoring"
          /\ start'.acct = start.acct
          /\ start'.rec = r
      BY <2>4, <3>1 DEF StartLoad, StartState, StartKnown, Typed
    <3>3. stored[start.acct] => start.acct \in granted
      BY <3>2
    <3>4. r => start.acct \in granted
      BY <3>1, <3>3
    <3>5. UNCHANGED <<operator, authority, autonomy, granted, reread>>
      BY <2>4 DEF StartLoad
    <3>6. QED
      BY <3>2, <3>4, <3>5
  <2>5. CASE StartRestore
    BY <2>5 DEF StartRestore, StartState, IdleStart
  <2>6. CASE CoreFails \/ Stop
    BY <2>6 DEF CoreFails, Stop
  <2>7. CASE Crash
    BY <2>7 DEF Crash, IdleStart, IdleArm, IdleEnable
  <2>8. QED
    BY <1>1, <2>1, <2>2, <2>3, <2>4, <2>5, <2>6, <2>7 DEF Lifecycle
<1>2. CASE OperatorStep
  <2> USE DEF operator, autonomy, authority, ghosts
  <2>1. CASE ArmBegin
    BY <2>1 DEF ArmBegin, ArmState
  <2>2. CASE ArmFinish
    BY <2>2 DEF ArmFinish, ArmState, IdleArm
  <2>3. CASE ArmFails
    BY <2>3 DEF ArmFails, IdleArm
  <2>4. CASE EnableBegin
    BY <2>4 DEF EnableBegin, EnableState
  <2>5. CASE EnableArm
    <3>1. /\ enable.at = "arming" /\ granted' = granted
          /\ reread' = reread \cup ({terminal} \ granted)
          /\ UNCHANGED <<terminal, start, arm, stored, auto, autoId>>
      BY <2>5 DEF EnableArm
    <3>2. CASE ProbeSuspends
      <4>1. /\ enable'.at = "probing" /\ enable'.acct = enable.acct /\ enable'.arm = terminal
            /\ UNCHANGED <<armed, armedId>>
        BY <2>5, <3>2 DEF EnableArm, EnableState
      <4>2. QED
        BY <3>1, <4>1
    <3>3. CASE ~ProbeSuspends
      <4>1. /\ enable'.at = "persisting" /\ enable'.acct = enable.acct /\ enable'.arm = terminal
            /\ armed' = TRUE /\ armedId' = terminal
        BY <2>5, <3>3 DEF EnableArm, EnableState
      <4>2. QED
        BY <3>1, <4>1, AuthorizationAssumption
    <3>4. QED
      BY <3>2, <3>3
  <2>6. CASE EnableProbed
    BY <2>6 DEF EnableProbed, EnableState
  <2>7. CASE EnableFails \/ EnablePersistFails
    BY <2>7 DEF EnableFails, EnablePersistFails, IdleEnable
  <2>8. CASE EnablePersist
    BY <2>8 DEF EnablePersist, EnableState
  <2>9. CASE EnableFinish
    BY <2>9 DEF EnableFinish, EnableState, IdleEnable
  <2>10. CASE OperatorDisarm
    BY <2>10 DEF OperatorDisarm
  <2>11. CASE DisableBegin
    BY <2>11 DEF DisableBegin
  <2>12. CASE DisableWrite
    BY <2>12 DEF DisableWrite
  <2>13. CASE DisableFinish
    BY <2>13 DEF DisableFinish
  <2>14. QED
    BY <1>2, <2>1, <2>2, <2>3, <2>4, <2>5, <2>6, <2>7, <2>8, <2>9, <2>10, <2>11, <2>12,
       <2>13 DEF OperatorStep
<1>3. CASE EngineStep
  <2> USE DEF operator, autonomy, authority, ghosts
  <2>1. CASE HealthNoProvider \/ HealthRead
    BY <2>1 DEF HealthNoProvider, HealthRead
  <2>2. CASE HealthDecide
    BY <2>2 DEF HealthDecide, HealthAccountOk
  <2>3. CASE MainSame \/ MainSwitch
    BY <2>3 DEF MainSame, MainSwitch
  <2>4. CASE MainAdopt \/ MainPoll
    <3>1. UNCHANGED authority \/ Disarm
      BY <2>4 DEF MainAdopt, MainPoll
    <3>2. UNCHANGED <<start, operator, autonomy, ghosts>>
      BY <2>4 DEF MainAdopt, MainPoll
    <3>3. QED
      BY <3>1, <3>2
  <2>5. QED
    BY <1>3, <2>1, <2>2, <2>3, <2>4 DEF EngineStep
<1>4. CASE \E a \in Accounts : SwitchAccount(a)
  BY <1>4 DEF SwitchAccount, operator, autonomy, authority, ghosts
<1>5. QED
  BY <1>1, <1>2, <1>3, <1>4 DEF Next

(* Authority never moves to an account the operator did not confirm.       *)
THEOREM AuthorityDoesNotTransfer == Spec => []NoTransfer
<1>1. Typed /\ Grounded /\ [Next]_vars => Grounded'
  <2>1. Grounded /\ UNCHANGED vars => Grounded'
    BY DEF Grounded, NoTransfer, PendingAuthority, vars, operator, authority, autonomy, ghosts
  <2>2. QED
    BY <2>1, GroundedStep
<1>2. Grounded => NoTransfer
  BY DEF Grounded
<1>3. QED
  BY TypedInit, TypedStep, GroundedInit, <1>1, <1>2, PTL DEF Spec


(***************************************************************************)
(* Sessions.  A start disarms, and whoever arms for the engine, at start    *)
(* or in the supervisor, does so in the session at hand; a command's       *)
(* answer carries the session in which the command was given, which is an  *)
(* earlier one only if a stop and a start have overtaken it.               *)
(***************************************************************************)
KeepsSession ==
    armed' /\ armSession' # session' => UNCHANGED <<authority, armSession, session>> \/ LateAnswer

LEMMA SessionStep == TypeOK /\ [Next]_vars => KeepsSession
<1> SUFFICES ASSUME TypeOK, [Next]_vars, armed', armSession' # session'
             PROVE  UNCHANGED <<authority, armSession, session>> \/ LateAnswer
    BY DEF KeepsSession
<1> USE DEF authority, ghosts, Disarm
<1>1. CASE Lifecycle
  BY <1>1 DEF Lifecycle, StartBegin, StartRead, StartFails, StartLoad, StartRestore,
              CoreFails, Stop, Crash
<1>2. CASE OperatorStep
  <2>1. CASE ArmBegin
    BY <2>1 DEF ArmBegin
  <2>2. CASE ArmFinish
    BY <2>2 DEF ArmFinish, LateAnswer
  <2>3. CASE EnableArm
    BY <2>3 DEF EnableArm, LateAnswer
  <2>4. CASE EnableProbed
    BY <2>4 DEF EnableProbed, LateAnswer
  <2>5. CASE ArmFails \/ EnableBegin \/ EnableFails \/ EnablePersist \/ EnablePersistFails
             \/ EnableFinish \/ OperatorDisarm \/ DisableBegin \/ DisableWrite \/ DisableFinish
    BY <2>5 DEF ArmFails, EnableBegin, EnableFails, EnablePersist, EnablePersistFails,
                EnableFinish, OperatorDisarm, DisableBegin, DisableWrite, DisableFinish
  <2>6. QED
    BY <1>2, <2>1, <2>2, <2>3, <2>4, <2>5 DEF OperatorStep
<1>3. CASE EngineStep
  BY <1>3 DEF EngineStep, HealthNoProvider, HealthRead, HealthDecide, MainSame, MainSwitch,
              MainAdopt, MainPoll
<1>4. CASE \E a \in Accounts : SwitchAccount(a)
  BY <1>4 DEF SwitchAccount
<1>5. CASE UNCHANGED vars
  BY <1>5 DEF vars
<1>6. QED
  BY <1>1, <1>2, <1>3, <1>4, <1>5 DEF Next

(* Authority given in one session of the engine is not in force in a later *)
(* one, unless a command still waiting for its provider was overtaken by a *)
(* stop and a start: no other step of any command, restart, recovery or    *)
(* crash leaves it in force.  Commands, stops and starts may overlap.      *)
THEOREM ArmedInSession == Spec => ArmedInItsOwnSession
<1>1. TypeOK /\ [Next]_vars => [KeepsSession]_vars
  BY SessionStep
<1>2. QED
  BY TypeCorrect, <1>1, PTL DEF Spec, ArmedInItsOwnSession, KeepsSession

(***************************************************************************)
(* A disable that waits for an enable and a start, and is waited for: no    *)
(* enable, and no start, is under way while it runs.                       *)
(***************************************************************************)
Exclusive ==
    /\ start.at # "idle" => off.at = "idle"
    /\ enable.at # "idle" => off.at = "idle"

Separated == RevokesAlone => Exclusive

LEMMA SeparatedStep == Typed /\ Separated /\ Next => Separated'
<1> SUFFICES ASSUME Typed, Exclusive, RevokesAlone, Next PROVE Exclusive'
    BY DEF Separated
<1>0. start \in StartState /\ enable \in EnableState /\ off \in OffState
  BY DEF Typed, TypeOK, CoroutinesTyped
<1> USE <1>0 DEF Exclusive, operator
<1>1. CASE Lifecycle
  <2>1. CASE StartBegin
    BY <2>1 DEF StartBegin, GrantWaits
  <2>2. CASE StartRead \/ StartLoad
    BY <2>2 DEF StartRead, StartLoad
  <2>3. CASE StartFails \/ StartRestore
    BY <2>3 DEF StartFails, StartRestore, IdleStart
  <2>4. CASE CoreFails \/ Stop
    BY <2>4 DEF CoreFails, Stop
  <2>5. CASE Crash
    BY <2>5 DEF Crash, IdleStart, IdleEnable
  <2>6. QED
    BY <1>1, <2>1, <2>2, <2>3, <2>4, <2>5 DEF Lifecycle
<1>2. CASE OperatorStep
  <2>1. CASE ArmBegin \/ ArmFinish \/ ArmFails
    BY <2>1 DEF ArmBegin, ArmFinish, ArmFails
  <2>2. CASE EnableBegin
    BY <2>2 DEF EnableBegin, GrantWaits
  <2>3. CASE EnableArm \/ EnableProbed \/ EnablePersist
    BY <2>3 DEF EnableArm, EnableProbed, EnablePersist
  <2>4. CASE EnableFails \/ EnablePersistFails \/ EnableFinish
    BY <2>4 DEF EnableFails, EnablePersistFails, EnableFinish, IdleEnable
  <2>5. CASE OperatorDisarm
    BY <2>5 DEF OperatorDisarm
  <2>6. CASE DisableBegin
    BY <2>6 DEF DisableBegin, RevokeWaits
  <2>7. CASE DisableWrite \/ DisableFinish
    BY <2>7 DEF DisableWrite, DisableFinish, IdleOff
  <2>8. QED
    BY <1>2, <2>1, <2>2, <2>3, <2>4, <2>5, <2>6, <2>7 DEF OperatorStep
<1>3. CASE EngineStep
  BY <1>3 DEF EngineStep, HealthNoProvider, HealthRead, HealthDecide, MainSame, MainSwitch,
              MainAdopt, MainPoll
<1>4. CASE \E a \in Accounts : SwitchAccount(a)
  BY <1>4 DEF SwitchAccount
<1>5. QED
  BY <1>1, <1>2, <1>3, <1>4 DEF Next

LEMMA SeparatedKept == Typed /\ Separated /\ [Next]_vars => Separated'
<1>1. Separated /\ UNCHANGED vars => Separated'
  BY DEF Separated, Exclusive, vars, operator
<1>2. QED
  BY <1>1, SeparatedStep

LEMMA SeparatedInit == Init => Separated
BY DEF Init, Separated, Exclusive, IdleStart, IdleEnable

(***************************************************************************)
(* Autonomy that was disabled.  The record of a revoked account stays       *)
(* unwritten, and nobody who could restore it has read it before.          *)
(***************************************************************************)
Withdrawn ==
    \A a \in revoked :
        /\ ~stored[a] /\ autoId # a
        /\ ~(start.rec /\ start.acct = a)
        /\ enable.at # "idle" => enable.acct # a

Withdrawing ==
    /\ off.at = "writing" => ~off.ok
    /\ off.at = "finishing" /\ off.ok /\ off.acct # NoAccount => ~stored[off.acct]

Revocations == RevokesAlone => Withdrawn /\ Withdrawing

LEMMA RevocationsStep ==
    Typed /\ Grounded /\ Separated /\ Revocations /\ Next => Revocations'
<1> SUFFICES ASSUME Typed, Grounded, Exclusive, Withdrawn, Withdrawing, RevokesAlone, Next
             PROVE  Withdrawn' /\ Withdrawing'
    BY DEF Separated, Revocations
<1>0. /\ start \in StartState /\ arm \in ArmState /\ enable \in EnableState /\ off \in OffState
      /\ IdentitiesTyped /\ (start.rec => start.at = "restoring") /\ StartKnown
  BY DEF Typed, TypeOK, CoroutinesTyped, Grounded, PendingAuthority
<1>1. CASE Lifecycle
  <2> USE <1>0 DEF Withdrawn, Withdrawing, IdentitiesTyped, MaybeAccount, operator, autonomy, ghosts
  <2>1. CASE StartBegin
    BY <2>1 DEF StartBegin, IdleStart, StartState
  <2>2. CASE StartRead
    BY <2>2 DEF StartRead, StartState
  <2>3. CASE StartLoad
    <3>1. PICK r \in {stored[start.acct], FALSE} :
             start' = [start EXCEPT !.at = "restoring", !.rec = r]
      BY <2>3 DEF StartLoad
    <3>2. start'.acct = start.acct /\ start'.rec = r
      BY <3>1 DEF StartState
    <3>3. UNCHANGED <<operator, autonomy, revoked>>
      BY <2>3 DEF StartLoad
    <3>4. r => stored[start.acct]
      BY <3>1
    <3>5. QED
      BY <3>2, <3>3, <3>4
  <2>4. CASE StartFails
    BY <2>4 DEF StartFails, IdleStart
  <2>5. CASE StartRestore
    BY <2>5, AuthorizationAssumption DEF StartRestore, IdleStart
  <2>6. CASE CoreFails \/ Stop
    BY <2>6 DEF CoreFails, Stop
  <2>7. CASE Crash
    BY <2>7, AuthorizationAssumption DEF Crash, IdleStart, IdleEnable, IdleOff
  <2>8. QED
    BY <1>1, <2>1, <2>2, <2>3, <2>4, <2>5, <2>6, <2>7 DEF Lifecycle
<1>2. CASE OperatorStep
  <2> USE <1>0 DEF Withdrawn, Withdrawing, IdentitiesTyped, MaybeAccount, operator, autonomy, ghosts
  <2>1. CASE ArmBegin \/ ArmFinish \/ ArmFails \/ OperatorDisarm
    BY <2>1 DEF ArmBegin, ArmFinish, ArmFails, OperatorDisarm
  <2>2. CASE EnableBegin
    BY <2>2 DEF EnableBegin
  <2>3. CASE EnableArm \/ EnableProbed
    BY <2>3 DEF EnableArm, EnableProbed, EnableState
  <2>4. CASE EnableFails \/ EnablePersistFails
    BY <2>4 DEF EnableFails, EnablePersistFails, IdleEnable
  <2>5. CASE EnablePersist
    BY <2>5 DEF EnablePersist, EnableState, Exclusive
  <2>6. CASE EnableFinish
    BY <2>6 DEF EnableFinish, IdleEnable
  <2>7. CASE DisableBegin
    <3>1. UNCHANGED <<start, enable, autonomy, revoked>>
      BY <2>7 DEF DisableBegin
    <3>2. \/ off'.at = "finishing" /\ off'.acct = NoAccount
          \/ off'.at = "writing" /\ off'.ok = FALSE
      BY <2>7 DEF DisableBegin
    <3>3. QED
      BY <3>1, <3>2
  <2>8. CASE DisableWrite
    <3>1. UNCHANGED <<start, enable, autoId, revoked>> /\ off.at = "writing"
      BY <2>8 DEF DisableWrite
    <3>2. CASE /\ stored' = [stored EXCEPT ![off.acct] = FALSE]
               /\ off' = [off EXCEPT !.at = "finishing", !.ok = TRUE]
      <4>1. off'.at = "finishing" /\ off'.acct = off.acct /\ off.acct \in MaybeAccount
        BY <3>2 DEF OffState
      <4>2. \A a \in Accounts : stored'[a] => stored[a] /\ a # off.acct
        BY <3>2
      <4>3. QED
        BY <3>1, <4>1, <4>2
    <3>3. CASE off' = [off EXCEPT !.at = "finishing"] /\ UNCHANGED stored
      <4>1. off'.at = "finishing" /\ off'.ok = off.ok
        BY <3>3 DEF OffState
      <4>2. QED
        BY <3>1, <3>3, <4>1
    <3>4. QED
      BY <2>8, <3>2, <3>3 DEF DisableWrite
  <2>9. CASE DisableFinish
    <3>1. /\ off.at = "finishing" /\ off'.at = "idle" /\ autoId' = NoAccount
          /\ revoked' = IF off.ok THEN revoked \cup ({off.acct} \ {NoAccount}) ELSE revoked
          /\ UNCHANGED <<start, enable, stored>>
      BY <2>9 DEF DisableFinish, IdleOff
    <3>2. start.at = "idle" /\ ~start.rec /\ enable.at = "idle"
      BY <1>0, <3>1 DEF Exclusive
    <3>3. QED
      BY <3>1, <3>2, AuthorizationAssumption
  <2>10. QED
    BY <1>2, <2>1, <2>2, <2>3, <2>4, <2>5, <2>6, <2>7, <2>8, <2>9 DEF OperatorStep
<1>3. CASE EngineStep
  BY <1>0, <1>3, AuthorizationAssumption
     DEF EngineStep, HealthNoProvider, HealthRead, HealthDecide, MainSame, MainSwitch,
         MainAdopt, MainPoll, Withdrawn, Withdrawing, IdentitiesTyped, operator, autonomy, ghosts
<1>4. CASE \E a \in Accounts : SwitchAccount(a)
  BY <1>4 DEF SwitchAccount, Withdrawn, Withdrawing, operator, autonomy, ghosts
<1>5. QED
  BY <1>1, <1>2, <1>3, <1>4 DEF Next

LEMMA RevocationsKept ==
    Typed /\ Grounded /\ Separated /\ Revocations /\ [Next]_vars => Revocations'
<1>1. Revocations /\ UNCHANGED vars => Revocations'
  BY DEF Revocations, Withdrawn, Withdrawing, vars, operator, autonomy, ghosts
<1>2. QED
  BY <1>1, RevocationsStep

LEMMA GroundedKept == Typed /\ Grounded /\ [Next]_vars => Grounded'
<1>1. Grounded /\ UNCHANGED vars => Grounded'
  BY DEF Grounded, NoTransfer, PendingAuthority, vars, operator, authority, autonomy, ghosts
<1>2. QED
  BY <1>1, GroundedStep

LEMMA RevocationsInit == Init => Revocations
BY DEF Init, Revocations, Withdrawn, Withdrawing, IdleOff

(* Whoever arms without a command takes the account from its record or from *)
(* the autonomy in force, and neither names a revoked one.                 *)
LEMMA RevokedIsNotArmed ==
    ASSUME RevokesAlone
    PROVE  Typed /\ Revocations =>
             \A a \in revoked \cap revoked' :
                (StartRestore \/ HealthDecide) /\ ~armed => ~(armed' /\ armedId' = a)
<1> SUFFICES ASSUME Typed, Withdrawn, NEW a \in revoked, StartRestore \/ HealthDecide,
                    ~armed, armed', armedId' = a
             PROVE  FALSE
  BY DEF Revocations
<1>1. CASE StartRestore
  BY <1>1 DEF StartRestore, Withdrawn, ArmFor, Disarm, authority
<1>2. CASE HealthDecide
  BY <1>2 DEF HealthDecide, HealthAccountOk, Withdrawn, ArmFor, Disarm, authority
<1>3. QED
  BY <1>1, <1>2

(* When a disable overlaps no enable and no start, neither a restart nor    *)
(* the health supervisor arms an account whose autonomy was disabled and    *)
(* reported so, whatever crashed or failed in between.                     *)
THEOREM DisableIsHonoured ==
    ASSUME RevokesAlone
    PROVE  Spec => SupervisorHonoursDisable
<1> DEFINE Honoured == \A a \in revoked \cap revoked' :
              (StartRestore \/ HealthDecide) /\ ~armed => ~(armed' /\ armedId' = a)
<1>1. Typed /\ Revocations => Honoured
  BY RevokedIsNotArmed
<1>2. Spec => [](Typed /\ Revocations)
  BY TypedInit, TypedStep, GroundedInit, GroundedKept, SeparatedInit, SeparatedKept,
     RevocationsInit, RevocationsKept, PTL DEF Spec
<1>3. QED
  BY <1>1, <1>2, PTL DEF Spec, SupervisorHonoursDisable
=============================================================================
