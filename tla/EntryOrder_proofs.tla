-------------------------- MODULE EntryOrder_proofs --------------------------
(***************************************************************************)
(* What is proved of an order under an authorization, for any accounts and *)
(* any overlap of the pipeline with commands, switches, stops and crashes. *)
(***************************************************************************)
EXTENDS EntryOrder, EntryAuthorization_proofs

(***************************************************************************)
(* The authorization keeps its invariants when the pipeline disarms.       *)
(***************************************************************************)
LEMMA DisarmKeepsAuthority ==
    Typed /\ Grounded /\ EntryDisarms => Typed' /\ Grounded'
<1> SUFFICES ASSUME Typed, Grounded, EntryDisarms PROVE Typed' /\ Grounded'
    OBVIOUS
<1> USE DEF EntryDisarms, Disarm, operator, engineTasks, autonomy, ghosts, bounds
<1>1. Typed'
  BY DEF Typed, TypeOK, FlagsTyped, IdentitiesTyped, CoroutinesTyped, CountersTyped,
         StartKnown, MaybeAccount
<1>2. Grounded'
  BY DEF Grounded, NoTransfer, PendingAuthority
<1>3. QED
  BY <1>1, <1>2

LEMMA AuthoritySurvives ==
    Typed /\ Grounded /\ [OrderNext]_orderVars => Typed' /\ Grounded'
<1> SUFFICES ASSUME Typed, Grounded, [OrderNext]_orderVars PROVE Typed' /\ Grounded'
    OBVIOUS
<1>1. Next \/ UNCHANGED vars \/ EntryDisarms
  BY DEF OrderNext, orderVars, Next, Lifecycle, EntryStep, AuthorityKept, EntrySignal,
         EntryReadAccount, EntryPermit, EntryReject, EntrySubmit, EntryClear, EntryRefused,
         EntrySend, EntryFinish
<1>2. UNCHANGED vars /\ Grounded => Grounded'
  BY DEF Grounded, NoTransfer, PendingAuthority, vars, operator, authority, autonomy, ghosts
<1>3. QED
  BY <1>1, <1>2, TypedStep, GroundedStep, DisarmKeepsAuthority

(***************************************************************************)
(* What the pipeline and the authorization leave alone in each other: only  *)
(* the terminal's user changes its account, and a confirmation is for ever. *)
(***************************************************************************)
LEMMA GrantsAreKept ==
    /\ Lifecycle \/ OperatorStep \/ EngineStep =>
          granted \cup reread \subseteq granted' \cup reread' /\ terminal' = terminal
    /\ \A a \in Accounts : SwitchAccount(a) => granted' = granted /\ reread' = reread
<1> USE DEF operator, engineTasks, authority, autonomy, ghosts, bounds
<1>1. Lifecycle => granted' = granted /\ reread' = reread /\ terminal' = terminal
  BY DEF Lifecycle, StartBegin, StartRead, StartFails, StartLoad, StartRestore, CoreFails,
         Stop, Crash
<1>2. OperatorStep =>
        granted \cup reread \subseteq granted' \cup reread' /\ terminal' = terminal
  BY DEF OperatorStep, ArmBegin, ArmFinish, ArmFails, EnableBegin, EnableArm, EnableProbed,
         EnableFails, EnablePersist, EnablePersistFails, EnableFinish, OperatorDisarm,
         DisableBegin, DisableWrite, DisableFinish
<1>3. EngineStep => granted' = granted /\ reread' = reread /\ terminal' = terminal
  BY DEF EngineStep, HealthNoProvider, HealthRead, HealthDecide, MainSame, MainSwitch,
         MainAdopt, MainPoll
<1>4. \A a \in Accounts : SwitchAccount(a) => granted' = granted /\ reread' = reread
  BY DEF SwitchAccount
<1>5. QED
  BY <1>1, <1>2, <1>3, <1>4

LEMMA PipelineKeepsGrants ==
    EntryStep => granted' = granted /\ reread' = reread /\ terminal' = terminal
BY DEF EntryStep, AuthorityKept, EntryDisarms, EntrySignal, EntryReadAccount, EntryPermit,
       EntryReject, EntrySubmit, EntryClear, EntryRefused, EntrySend, EntryFinish, vars, ghosts

(***************************************************************************)
(* The pipeline's own invariant: past the permission the account it was    *)
(* planned on is one that NoTransfer allows; an identity handed to the      *)
(* executor was the armed one, which is such an account; and once the last  *)
(* check of the executor has passed the terminal shows that identity or a  *)
(* switch has come in between.                                             *)
(***************************************************************************)
Planned == entry.at \in {"planning", "submitted", "cleared"} => entry.acct \in granted \cup reread

Expected == entry.expected # NoAccount => entry.expected \in granted \cup reread

Cleared ==
    entry.at = "cleared" /\ entry.expected # NoAccount /\ ~entry.raced
        => terminal = entry.expected

OrderInv == EntryTypeOK /\ Planned /\ Expected /\ Cleared

LEMMA IdleIsFine == entry' = IdleEntry => OrderInv'
BY DEF IdleEntry, OrderInv, EntryTypeOK, Planned, Expected, Cleared, MaybeAccount

(* A step of the authorization leaves the pipeline alone or unwinds it.    *)
LEMMA AuthorityStepKeepsOrder ==
    ASSUME OrderInv, granted \cup reread \subseteq granted' \cup reread', terminal' = terminal,
           UNCHANGED entry \/ Unwind
    PROVE  OrderInv'
<1>1. CASE UNCHANGED entry
  BY <1>1 DEF OrderInv, EntryTypeOK, Planned, Expected, Cleared
<1>2. CASE entry' = IdleEntry
  BY <1>2, IdleIsFine
<1>3. CASE entry' = [entry EXCEPT !.orphan = TRUE]
  BY <1>3 DEF OrderInv, EntryTypeOK, Planned, Expected, Cleared
<1>4. QED
  BY <1>1, <1>2, <1>3 DEF Unwind

LEMMA SwitchKeepsOrder ==
    ASSUME OrderInv, granted' = granted, reread' = reread,
           entry' = [entry EXCEPT !.raced = @ \/ entry.at = "cleared"]
    PROVE  OrderInv'
<1> USE DEF OrderInv, EntryTypeOK
<1>1. CASE entry.at = "cleared"
  <2>1. entry' = [entry EXCEPT !.raced = TRUE]
    BY <1>1
  <2>2. QED
    BY <2>1 DEF Planned, Expected, Cleared
<1>2. CASE entry.at # "cleared"
  <2>1. entry' = [entry EXCEPT !.raced = entry.raced]
    BY <1>2
  <2>2. entry' = entry
    BY <2>1
  <2>3. QED
    BY <1>2, <2>2 DEF Planned, Expected, Cleared
<1>3. QED
  BY <1>1, <1>2

LEMMA PipelineStepKeepsOrder ==
    ASSUME Typed, Grounded, OrderInv, EntryStep
    PROVE  OrderInv'
<1>1. granted' = granted /\ reread' = reread /\ terminal' = terminal
  BY PipelineKeepsGrants
<1>2. /\ terminal \in Accounts
      /\ armedId \in MaybeAccount
      /\ armed => armedId \in granted \cup reread
      /\ armedId # NoAccount => armed
  BY DEF Typed, TypeOK, IdentitiesTyped, Grounded, NoTransfer
<1> USE <1>1, <1>2 DEF OrderInv, EntryTypeOK, Planned, Expected, Cleared
<1>3. CASE EntrySignal
  BY <1>3 DEF EntrySignal, IdleEntry, MaybeAccount
<1>4. CASE EntryReadAccount
  <2>1. PICK a \in MaybeAccount : entry' = [entry EXCEPT !.at = "verifying", !.acct = a]
    BY <1>4 DEF EntryReadAccount, MaybeAccount
  <2>2. EntryTypeOK'
    BY <2>1 DEF MaybeAccount
  <2>3. entry'.at = "verifying" /\ entry'.expected = entry.expected
    BY <2>1
  <2>4. QED
    BY <2>2, <2>3
<1>5. CASE EntryPermit
  <2>1. CASE EntryPermitted
    BY <1>5, <2>1 DEF EntryPermit, EntryPermitted
  <2>2. CASE ~EntryPermitted
    BY <1>5, <2>2, IdleIsFine DEF EntryPermit
  <2>3. QED
    BY <2>1, <2>2
<1>6. CASE EntrySubmit
  BY <1>6 DEF EntrySubmit
<1>7. CASE EntryClear
  BY <1>7 DEF EntryClear, ExpectedMatches
<1>8. CASE EntrySend
  BY <1>8 DEF EntrySend
<1>9. CASE EntryReject \/ EntryRefused \/ EntryFinish
  BY <1>9, IdleIsFine DEF EntryReject, EntryRefused, EntryFinish
<1>10. QED
  BY <1>3, <1>4, <1>5, <1>6, <1>7, <1>8, <1>9 DEF EntryStep

LEMMA OrderStep == Typed /\ Grounded /\ OrderInv /\ [OrderNext]_orderVars => OrderInv'
<1> SUFFICES ASSUME Typed, Grounded, OrderInv, [OrderNext]_orderVars PROVE OrderInv'
    OBVIOUS
<1>1. CASE Lifecycle /\ (UNCHANGED entry \/ Unwind)
  BY <1>1, GrantsAreKept, AuthorityStepKeepsOrder
<1>2. CASE (OperatorStep \/ EngineStep) /\ UNCHANGED entry
  BY <1>2, GrantsAreKept, AuthorityStepKeepsOrder
<1>3. CASE entry' = IdleEntry
  BY <1>3, IdleIsFine
<1>4. CASE \E a \in Accounts :
              /\ SwitchAccount(a)
              /\ entry' = [entry EXCEPT !.raced = @ \/ entry.at = "cleared"]
  BY <1>4, GrantsAreKept, SwitchKeepsOrder
<1>5. CASE EntryStep
  BY <1>5, PipelineStepKeepsOrder
<1>6. CASE UNCHANGED orderVars
  BY <1>6, AuthorityStepKeepsOrder DEF orderVars, vars, ghosts
<1>7. QED
  BY <1>1, <1>2, <1>3, <1>4, <1>5, <1>6 DEF OrderNext, Lifecycle

LEMMA OrderInitially == OrderInit => Typed /\ Grounded /\ OrderInv
<1>1. ASSUME entry = IdleEntry PROVE OrderInv
  BY <1>1 DEF IdleEntry, OrderInv, EntryTypeOK, Planned, Expected, Cleared, MaybeAccount
<1>2. QED
  BY <1>1, TypedInit, GroundedInit DEF OrderInit

LEMMA PipelineTypeCorrect == OrderSpec => []EntryTypeOK
<1>1. Typed /\ Grounded /\ OrderInv /\ [OrderNext]_orderVars
        => Typed' /\ Grounded' /\ OrderInv'
  BY AuthoritySurvives, OrderStep
<1>2. OrderInv => EntryTypeOK
  BY DEF OrderInv
<1>3. QED
  BY OrderInitially, <1>1, <1>2, PTL DEF OrderSpec

(* An order that reaches the broker was planned on an account the operator  *)
(* had confirmed, or that enable came upon, and one that names the account  *)
(* it expects lands on such an account, unless a switch comes after the    *)
(* last check.                                                             *)
THEOREM OrdersAreAuthorized == OrderSpec => OrdersWereAuthorized
<1>1. Typed /\ Grounded /\ OrderInv /\ [OrderNext]_orderVars
        => Typed' /\ Grounded' /\ OrderInv'
  BY AuthoritySurvives, OrderStep
<1>2. ASSUME OrderInv, EntrySend
      PROVE  /\ entry.acct \in granted \cup reread
             /\ entry.expected # NoAccount /\ ~entry.raced =>
                   terminal \in granted \cup reread
  BY <1>2 DEF EntrySend, OrderInv, Planned, Expected, Cleared
<1>3. OrderInv /\ [OrderNext]_orderVars =>
        [EntrySend =>
            /\ entry.acct \in granted \cup reread
            /\ entry.expected # NoAccount /\ ~entry.raced =>
                  terminal \in granted \cup reread]_orderVars
  BY <1>2
<1>4. QED
  BY OrderInitially, <1>1, <1>3, PTL DEF OrderSpec, OrdersWereAuthorized

(***************************************************************************)
(* The authorization's own theorems, with the pipeline at work.  A step of *)
(* the composition is a step of the authorization, leaves it alone, or is  *)
(* a disarm by the pipeline, and a disarm disturbs no coroutine and no      *)
(* revocation.                                                             *)
(***************************************************************************)
LEMMA StepOfComposition ==
    [OrderNext]_orderVars => Next \/ UNCHANGED vars \/ EntryDisarms
BY DEF OrderNext, orderVars, Next, Lifecycle, EntryStep, AuthorityKept, EntrySignal,
       EntryReadAccount, EntryPermit, EntryReject, EntrySubmit, EntryClear, EntryRefused,
       EntrySend, EntryFinish

LEMMA DisarmKeepsCommands ==
    EntryDisarms => (Separated => Separated') /\ (Revocations => Revocations')
<1> SUFFICES ASSUME EntryDisarms
             PROVE  (Separated => Separated') /\ (Revocations => Revocations')
    OBVIOUS
<1> USE DEF EntryDisarms, Disarm, operator, autonomy, ghosts
<1>1. Separated => Separated'
  BY DEF Separated, Exclusive
<1>2. Revocations => Revocations'
  BY DEF Revocations, Withdrawn, Withdrawing
<1>3. QED
  BY <1>1, <1>2

AuthorizationInv == Typed /\ Grounded /\ Separated /\ Revocations

LEMMA AuthorizationInvHolds == OrderSpec => []AuthorizationInv
<1>1. OrderInit => AuthorizationInv
  BY TypedInit, GroundedInit, SeparatedInit, RevocationsInit DEF OrderInit, AuthorizationInv
<1>2. AuthorizationInv /\ [OrderNext]_orderVars => AuthorizationInv'
  <2> SUFFICES ASSUME AuthorizationInv, [OrderNext]_orderVars PROVE AuthorizationInv'
      OBVIOUS
  <2>1. Typed' /\ Grounded'
    BY AuthoritySurvives DEF AuthorizationInv
  <2>2. CASE [Next]_vars
    BY <2>1, <2>2, SeparatedKept, RevocationsKept DEF AuthorizationInv
  <2>3. CASE EntryDisarms
    BY <2>1, <2>3, DisarmKeepsCommands DEF AuthorizationInv
  <2>4. QED
    BY <2>2, <2>3, StepOfComposition
<1>3. QED
  BY <1>1, <1>2, PTL DEF OrderSpec

(* Type correctness of the composition: of the pipeline's record, and of the *)
(* authorization under the pipeline's disarms.                             *)
THEOREM ComposedTypeCorrect == OrderSpec => []OrderTypeOK
<1>1. AuthorizationInv /\ EntryTypeOK => OrderTypeOK
  BY DEF AuthorizationInv, Typed, OrderTypeOK
<1>2. QED
  BY AuthorizationInvHolds, PipelineTypeCorrect, <1>1, PTL

(* No order in the making, and no disarm that it causes, moves authority to *)
(* an account the operator did not confirm.                                *)
THEOREM OrdersDoNotTransferAuthority == OrderSpec => []NoTransfer
<1>1. AuthorizationInv => NoTransfer
  BY DEF AuthorizationInv, Grounded
<1>2. QED
  BY AuthorizationInvHolds, <1>1, PTL

(* With the pipeline at work, too, authority given in one session of the    *)
(* engine is not in force in a later one unless a command's answer was     *)
(* overtaken by a stop and a start.                                        *)
THEOREM OrdersKeepTheSession == OrderSpec => ArmedInItsOwnSession
<1>1. EntryDisarms => KeepsSession
  BY DEF EntryDisarms, Disarm, KeepsSession
<1>2. TypeOK /\ [OrderNext]_orderVars => [KeepsSession]_vars
  BY <1>1, SessionStep, StepOfComposition
<1>3. AuthorizationInv => TypeOK
  BY DEF AuthorizationInv, Typed
<1>4. QED
  BY AuthorizationInvHolds, <1>2, <1>3, PTL DEF OrderSpec, ArmedInItsOwnSession, KeepsSession

(* Neither does a disarm by the pipeline lead the health supervisor, which *)
(* recovers from disarms, to arm an account whose autonomy was disabled.   *)
THEOREM OrdersHonourDisable ==
    ASSUME RevokesAlone
    PROVE  OrderSpec => SupervisorHonoursDisable
<1> DEFINE Honoured == \A a \in revoked \cap revoked' :
              (StartRestore \/ HealthDecide) /\ ~armed => ~(armed' /\ armedId' = a)
<1>1. AuthorizationInv => Honoured
  BY RevokedIsNotArmed DEF AuthorizationInv
<1>2. QED
  BY <1>1, AuthorizationInvHolds, PTL DEF SupervisorHonoursDisable

(***************************************************************************)
(* A pipeline needs the engine's tasks.                                    *)
(***************************************************************************)
LEMMA SupervisedStep ==
    EntryTypeOK /\ OnlyWorkersOutliveTheEngine /\ [OrderNext]_orderVars
        => OnlyWorkersOutliveTheEngine'
<1> SUFFICES ASSUME EntryTypeOK, OnlyWorkersOutliveTheEngine, [OrderNext]_orderVars
             PROVE  OnlyWorkersOutliveTheEngine'
    OBVIOUS
<1> USE DEF OnlyWorkersOutliveTheEngine, InWorker, EntryTypeOK
<1>1. CASE entry' = IdleEntry
  BY <1>1 DEF IdleEntry
<1>2. CASE UNCHANGED entry /\ (loops => loops')
  BY <1>2
<1>3. CASE Unwind
  BY <1>3, <1>1 DEF Unwind, InWorker
<1>4. CASE \E a \in Accounts :
              /\ SwitchAccount(a)
              /\ entry' = [entry EXCEPT !.raced = @ \/ entry.at = "cleared"]
  BY <1>4 DEF SwitchAccount
<1>5. CASE EntryStep
  <2>1. loops' = loops
    BY <1>5 DEF EntryStep, AuthorityKept, EntryDisarms, EntrySignal, EntryReadAccount,
                EntryPermit, EntryReject, EntrySubmit, EntryClear, EntryRefused, EntrySend,
                EntryFinish, vars
  <2>2. CASE EntrySignal
    <3>1. loops'
      BY <2>1, <2>2 DEF EntrySignal
    <3>2. QED
      BY <3>1
  <2>3. CASE EntryReadAccount
    BY <2>1, <2>3 DEF EntryReadAccount
  <2>4. CASE EntryPermit
    BY <1>1, <2>1, <2>4 DEF EntryPermit
  <2>5. CASE EntrySubmit \/ EntryClear \/ EntrySend
    BY <2>1, <2>5 DEF EntrySubmit, EntryClear, EntrySend
  <2>6. CASE EntryReject \/ EntryRefused \/ EntryFinish
    BY <1>1, <2>6 DEF EntryReject, EntryRefused, EntryFinish
  <2>7. QED
    BY <1>5, <2>2, <2>3, <2>4, <2>5, <2>6 DEF EntryStep
<1>6. CASE (StartBegin \/ StartRead \/ StartFails \/ StartLoad \/ StartRestore \/ OperatorStep
              \/ EngineStep) /\ UNCHANGED entry
  <2>1. loops => loops'
    BY <1>6 DEF StartBegin, StartRead, StartFails, StartLoad, StartRestore, OperatorStep,
         EngineStep, ArmBegin, ArmFinish, ArmFails, EnableBegin, EnableArm, EnableProbed,
         EnableFails, EnablePersist, EnablePersistFails, EnableFinish, OperatorDisarm,
         DisableBegin, DisableWrite, DisableFinish, HealthNoProvider, HealthRead,
         HealthDecide, MainSame, MainSwitch, MainAdopt, MainPoll
  <2>2. QED
    BY <1>2, <1>6, <2>1
<1>7. CASE UNCHANGED orderVars
  BY <1>2, <1>7 DEF orderVars, vars
<1>8. QED
  BY <1>1, <1>3, <1>4, <1>5, <1>6, <1>7 DEF OrderNext

(* While the engine is stopped, failed or not yet started, no order is read, *)
(* planned or handed to the executor: all that can be left of a pipeline is *)
(* a native worker that was at work when its task was cancelled.           *)
THEOREM NoOrderWithoutTheEngine == OrderSpec => []OnlyWorkersOutliveTheEngine
<1>1. OrderInit => OnlyWorkersOutliveTheEngine
  BY DEF OrderInit, OnlyWorkersOutliveTheEngine, IdleEntry
<1>2. QED
  BY PipelineTypeCorrect, SupervisedStep, <1>1, PTL DEF OrderSpec

(***************************************************************************)
(* The pipeline implements the guard of module OrderGuard, as the executor  *)
(* does (Executor_proofs): what the composition takes the executor to be    *)
(* is what the executor's own model is.  Outside the executor nothing is    *)
(* expected and nothing has raced.                                         *)
(***************************************************************************)
Fresh == ~InWorker => entry.expected = NoAccount /\ ~entry.raced

placeOf == [o \in {"entry"} |-> IF InWorker THEN entry.at ELSE "outside"]
expectedOf == [o \in {"entry"} |-> entry.expected]
racedOf == [o \in {"entry"} |-> entry.raced]
guardState == <<placeOf, expectedOf, racedOf, terminal>>

LEMMA FreshStep == EntryTypeOK /\ Fresh /\ [OrderNext]_orderVars => Fresh'
<1> SUFFICES ASSUME EntryTypeOK, Fresh, [OrderNext]_orderVars PROVE Fresh'
    OBVIOUS
<1> USE DEF Fresh, InWorker, EntryTypeOK
<1>1. CASE entry' = IdleEntry
  BY <1>1 DEF IdleEntry
<1>2. CASE UNCHANGED entry
  BY <1>2
<1>3. CASE Unwind
  BY <1>3, <1>1 DEF Unwind
<1>4. CASE \E a \in Accounts :
              /\ SwitchAccount(a)
              /\ entry' = [entry EXCEPT !.raced = @ \/ entry.at = "cleared"]
  BY <1>4
<1>5. CASE EntryStep
  <2>1. CASE EntrySignal
    BY <2>1 DEF EntrySignal, IdleEntry
  <2>2. CASE EntryReadAccount
    BY <2>2 DEF EntryReadAccount
  <2>3. CASE EntryPermit
    BY <1>1, <2>3 DEF EntryPermit
  <2>4. CASE EntrySubmit \/ EntryClear \/ EntrySend
    BY <2>4 DEF EntrySubmit, EntryClear, EntrySend
  <2>5. CASE EntryReject \/ EntryRefused \/ EntryFinish
    BY <1>1, <2>5 DEF EntryReject, EntryRefused, EntryFinish
  <2>6. QED
    BY <1>5, <2>1, <2>2, <2>3, <2>4, <2>5 DEF EntryStep
<1>6. QED
  BY <1>1, <1>2, <1>3, <1>4, <1>5 DEF OrderNext, orderVars

(* A pipeline that is gone has left the executor, if it was there.         *)
LEMMA GuardIdle ==
    ASSUME EntryTypeOK, Fresh, entry' = IdleEntry, terminal' = terminal
    PROVE  Guard!Leave("entry") \/ UNCHANGED guardState
<1>1. /\ placeOf' = [o \in {"entry"} |-> "outside"]
      /\ expectedOf' = [o \in {"entry"} |-> NoAccount]
      /\ racedOf' = [o \in {"entry"} |-> FALSE]
  BY DEF placeOf, expectedOf, racedOf, IdleEntry, InWorker
<1>2. CASE InWorker
  <2>1. placeOf["entry"] # "outside"
    BY <1>2 DEF placeOf, InWorker
  <2>2. /\ placeOf' = [placeOf EXCEPT !["entry"] = "outside"]
        /\ expectedOf' = [expectedOf EXCEPT !["entry"] = NoAccount]
        /\ racedOf' = [racedOf EXCEPT !["entry"] = FALSE]
    BY <1>1 DEF placeOf, expectedOf, racedOf
  <2>3. QED
    BY <2>1, <2>2 DEF Guard!Leave, placeOf, expectedOf, racedOf
<1>3. CASE ~InWorker
  BY <1>1, <1>3 DEF Fresh, EntryTypeOK, guardState, placeOf, expectedOf, racedOf
<1>4. QED
  BY <1>2, <1>3

LEMMA GuardSwitch ==
    ASSUME EntryTypeOK, NEW a \in Accounts, SwitchAccount(a),
           entry' = [entry EXCEPT !.raced = @ \/ entry.at = "cleared"]
    PROVE  Guard!Switch(a)
<1> DEFINE R == {o \in {"entry"} : entry.at = "cleared"}
<1>1. /\ entry'.at = entry.at /\ entry'.expected = entry.expected
      /\ entry'.raced = (entry.raced \/ entry.at = "cleared")
      /\ terminal' = a
  BY DEF EntryTypeOK, SwitchAccount
<1>2. placeOf' = placeOf /\ expectedOf' = expectedOf
  BY <1>1 DEF placeOf, expectedOf, InWorker
<1>3. racedOf' = [o \in {"entry"} |-> racedOf[o] \/ o \in R]
  BY <1>1 DEF racedOf
<1>4. /\ R \in SUBSET {o \in {"entry"} : placeOf[o] \in {"cleared", "sent"}}
      /\ {o \in {"entry"} : placeOf[o] = "cleared"} \subseteq R
  BY DEF placeOf, InWorker
<1>5. QED
  BY <1>1, <1>2, <1>3, <1>4 DEF Guard!Switch, placeOf, expectedOf, racedOf

LEMMA PipelineGuardStep ==
    ASSUME Typed, EntryTypeOK, Fresh, [OrderNext]_orderVars
    PROVE  Guard!Next \/ UNCHANGED guardState
<1>1. ASSUME UNCHANGED <<entry, terminal>> PROVE UNCHANGED guardState
  BY <1>1 DEF guardState, placeOf, expectedOf, racedOf, InWorker
<1>2. ASSUME entry' = IdleEntry, terminal' = terminal PROVE Guard!Next \/ UNCHANGED guardState
  BY <1>2, GuardIdle DEF Guard!Next
<1>3. ASSUME Unwind, terminal' = terminal PROVE Guard!Next \/ UNCHANGED guardState
  <2>1. CASE entry' = [entry EXCEPT !.orphan = TRUE]
    <3>1. entry'.at = entry.at /\ entry'.expected = entry.expected /\ entry'.raced = entry.raced
      BY <2>1 DEF EntryTypeOK
    <3>2. QED
      BY <1>3, <3>1 DEF guardState, placeOf, expectedOf, racedOf, InWorker
  <2>2. QED
    BY <1>2, <1>3, <2>1 DEF Unwind
<1>4. CASE Lifecycle /\ (UNCHANGED entry \/ Unwind \/ entry' = IdleEntry)
  BY <1>1, <1>2, <1>3, <1>4, GrantsAreKept
<1>5. CASE (OperatorStep \/ EngineStep) /\ UNCHANGED entry
  BY <1>1, <1>5, GrantsAreKept
<1>6. ASSUME NEW a \in Accounts, SwitchAccount(a),
             entry' = [entry EXCEPT !.raced = @ \/ entry.at = "cleared"]
      PROVE  Guard!Next
  BY <1>6, GuardSwitch DEF Guard!Next
<1>7. CASE EntryStep
  <2>1. terminal' = terminal
    BY <1>7, PipelineKeepsGrants
  <2>2. ASSUME ~InWorker, ~InWorker', entry'.expected = entry.expected,
               entry'.raced = entry.raced
        PROVE  UNCHANGED guardState
    BY <2>1, <2>2 DEF guardState, placeOf, expectedOf, racedOf
  <2>3. CASE EntrySignal
    BY <2>1, <2>2, <2>3 DEF EntrySignal, IdleEntry, Fresh, InWorker, EntryTypeOK
  <2>4. CASE EntryReadAccount
    BY <2>2, <2>4 DEF EntryReadAccount, InWorker, EntryTypeOK
  <2>5. CASE EntryPermit
    <3>1. CASE EntryPermitted
      BY <2>2, <2>5, <3>1 DEF EntryPermit, InWorker, EntryTypeOK
    <3>2. QED
      BY <1>2, <2>1, <2>5, <3>1 DEF EntryPermit
  <2>6. CASE EntrySubmit
    <3>1. /\ entry.at = "planning" /\ entry'.at = "submitted" /\ entry'.expected = armedId
          /\ entry'.raced = entry.raced
      BY <2>6 DEF EntrySubmit, EntryTypeOK
    <3>2. /\ placeOf["entry"] = "outside"
          /\ placeOf' = [placeOf EXCEPT !["entry"] = "submitted"]
          /\ expectedOf' = [expectedOf EXCEPT !["entry"] = armedId]
          /\ racedOf' = racedOf
      BY <3>1 DEF placeOf, expectedOf, racedOf, InWorker
    <3>3. Guard!Submit("entry", armedId)
      BY <2>1, <3>2 DEF Guard!Submit, placeOf, expectedOf, racedOf
    <3>4. armedId \in Accounts \cup {NoAccount}
      BY DEF Typed, TypeOK, IdentitiesTyped, MaybeAccount
    <3>5. QED
      BY <3>3, <3>4 DEF Guard!Next
  <2>7. CASE EntryClear
    <3>1. /\ entry.at = "submitted" /\ entry'.at = "cleared"
          /\ entry'.expected = entry.expected /\ entry'.raced = entry.raced
          /\ entry.expected = NoAccount \/ entry.expected = terminal
      BY <2>7 DEF EntryClear, ExpectedMatches, EntryTypeOK
    <3>2. /\ placeOf["entry"] = "submitted"
          /\ placeOf' = [placeOf EXCEPT !["entry"] = "cleared"]
          /\ expectedOf' = expectedOf
          /\ expectedOf["entry"] = entry.expected
          /\ racedOf' = racedOf
      BY <3>1 DEF placeOf, expectedOf, racedOf, InWorker
    <3>3. Guard!Clear("entry")
      BY <2>1, <3>1, <3>2 DEF Guard!Clear, Guard!Matches, placeOf, expectedOf, racedOf
    <3>4. QED
      BY <3>3 DEF Guard!Next
  <2>8. CASE EntrySend
    <3>1. /\ entry.at = "cleared" /\ entry'.at = "sent"
          /\ entry'.expected = entry.expected /\ entry'.raced = entry.raced
      BY <2>8 DEF EntrySend, EntryTypeOK
    <3>2. /\ placeOf["entry"] = "cleared"
          /\ placeOf' = [placeOf EXCEPT !["entry"] = "sent"]
          /\ expectedOf' = expectedOf
          /\ racedOf' = racedOf
      BY <3>1 DEF placeOf, expectedOf, racedOf, InWorker
    <3>3. Guard!Send("entry")
      BY <2>1, <3>2 DEF Guard!Send, placeOf, expectedOf, racedOf
    <3>4. QED
      BY <3>3 DEF Guard!Next
  <2>9. CASE EntryReject \/ EntryRefused \/ EntryFinish
    BY <1>2, <2>1, <2>9 DEF EntryReject, EntryRefused, EntryFinish
  <2>10. QED
    BY <1>7, <2>3, <2>4, <2>5, <2>6, <2>7, <2>8, <2>9 DEF EntryStep
<1>8. CASE UNCHANGED orderVars
  BY <1>1, <1>8 DEF orderVars, vars, ghosts
<1>9. QED
  BY <1>4, <1>5, <1>6, <1>7, <1>8 DEF OrderNext, Lifecycle

(* The pipeline's part of the executor is the guard that Executor has: an   *)
(* order is sent only after the identity that was armed when it was handed  *)
(* over, if there was one, has been compared with the terminal.            *)
THEOREM PipelineImplementsGuard == OrderSpec => OrderIsGuarded
<1>1. OrderInit => Fresh /\ Guard!Init
  BY DEF OrderInit, Init, Fresh, IdleEntry, InWorker, Guard!Init
<1>2. Typed /\ EntryTypeOK /\ Fresh /\ [OrderNext]_orderVars
        => Fresh' /\ [Guard!Next]_(Guard!vars)
  BY FreshStep, PipelineGuardStep DEF Guard!vars, guardState, placeOf, expectedOf, racedOf
<1>3. AuthorizationInv => Typed
  BY DEF AuthorizationInv
<1>4. QED
  BY AuthorizationInvHolds, PipelineTypeCorrect, <1>1, <1>2, <1>3, PTL
     DEF OrderSpec, OrderIsGuarded, Guard!Spec
=============================================================================
