------------------------- MODULE EntryAuthorization -------------------------
(***************************************************************************)
(* Who may open trades: the entry authorization of core/engine.py.         *)
(*                                                                         *)
(* Entries are armed for one account identity, by an operator's confirmed  *)
(* command or, when that operator has enabled autonomy for the account and *)
(* the record is persisted, by the engine itself: once at start and then   *)
(* by the health supervisor.  Everything runs as coroutines of one event   *)
(* loop; each coroutine is cut here where it awaits the terminal, the      *)
(* database or the decision provider, and keeps what it read before.       *)
(*                                                                         *)
(* The terminal, and with it the account it is logged in to, belongs to    *)
(* its user, who may change it at any time.                                *)
(***************************************************************************)
EXTENDS Naturals

CONSTANTS
    Accounts,       \* account identities the terminal can be logged in to
    NoAccount,
    ProbeSuspends,  \* a provider check awaits a real completion (local model)
    RevokesAlone,   \* bound: a disarm or disable overlaps no enable and no start
    MaxCommands,    \* bound: operator commands in a behaviour
    MaxFaults       \* bound: account switches and process crashes

ASSUME AuthorizationAssumption ==
    /\ NoAccount \notin Accounts
    /\ ProbeSuspends \in BOOLEAN
    /\ RevokesAlone \in BOOLEAN
    /\ MaxCommands \in Nat
    /\ MaxFaults \in Nat

VARIABLES
    terminal,      \* account selected in the MT5 terminal
    stored,        \* stored[a]: the persisted autonomy record of a is enabled
    running,       \* is_running
    loops,         \* the decision and health tasks exist
    armed,         \* entries_armed
    armedId,       \* _armed_account_identity
    active,        \* _active_account_identity
    auto,          \* autonomous_enabled
    autoId,        \* _autonomous_account_identity
    historyReady,  \* _history_ready
    start,         \* start(): its place and the account and record it has read
    arm,           \* arm_entries(), called by the operator
    enable,        \* enable_autonomous_mode() and the arm_entries() inside it
    off,           \* operator_disarm_entries() or disable_autonomous_mode()
    health,        \* _autonomy_health_loop
    main,          \* _main_loop
    commands, faults,  \* counted against MaxCommands and MaxFaults
    (* what the operator has said, for the properties *)
    granted,       \* accounts for which a confirmed command was given
    reread,        \* accounts that enable armed without that: read a second time
    session,       \* number of start()s so far
    armSession,    \* the session in which the command that armed was given
    revoked,       \* accounts whose autonomy was disabled and reported so
    paused         \* the last finished command was a successful disarm

operator == <<arm, enable, off>>
engineTasks == <<health, main>>
authority == <<armed, armedId>>
autonomy == <<auto, autoId, stored>>
ghosts == <<granted, reread, session, armSession, revoked, paused>>
bounds == <<commands, faults>>
vars == <<terminal, running, loops, active, historyReady, start, operator, engineTasks,
          authority, autonomy, ghosts, bounds>>

MaybeAccount == Accounts \cup {NoAccount}

(* Where a coroutine can be, and what it keeps across its awaits.          *)
StartState == [at : {"idle", "reading", "loading", "restoring"},
               acct : MaybeAccount, rec : BOOLEAN]
ArmState == [at : {"idle", "probing"}, acct : MaybeAccount, session : Nat]
EnableState == [at : {"idle", "arming", "probing", "persisting", "finishing"},
                acct : MaybeAccount, arm : MaybeAccount, session : Nat]
OffState == [at : {"idle", "writing", "finishing"}, acct : MaybeAccount, ok : BOOLEAN]
HealthState == [at : {"idle", "deciding"}, acct : MaybeAccount]
MainState == [at : {"idle", "switching", "polling"}, acct : MaybeAccount]

IdleStart == [at |-> "idle", acct |-> NoAccount, rec |-> FALSE]
IdleArm == [at |-> "idle", acct |-> NoAccount, session |-> 0]
IdleEnable == [at |-> "idle", acct |-> NoAccount, arm |-> NoAccount, session |-> 0]
IdleOff == [at |-> "idle", acct |-> NoAccount, ok |-> FALSE]
IdleHealth == [at |-> "idle", acct |-> NoAccount]
IdleMain == [at |-> "idle", acct |-> NoAccount]

MayCommand ==
    /\ commands < MaxCommands
    /\ commands' = commands + 1

(* Nothing in the code keeps commands apart.  Every overlap of an arm, of a *)
(* stop and a start, and of an enable with those is in the model; a disarm  *)
(* or disable waits for an enable and a start, and they for it, when        *)
(* RevokesAlone.                                                           *)
GrantWaits == RevokesAlone => off.at = "idle"
RevokeWaits == RevokesAlone => enable.at = "idle" /\ start.at = "idle"

-----------------------------------------------------------------------------
Init ==
    /\ terminal \in Accounts
    /\ stored = [a \in Accounts |-> FALSE]
    /\ running = FALSE
    /\ loops = FALSE
    /\ armed = FALSE
    /\ armedId = NoAccount
    /\ active = NoAccount
    /\ auto = FALSE
    /\ autoId = NoAccount
    /\ historyReady = FALSE
    /\ start = IdleStart
    /\ arm = IdleArm
    /\ enable = IdleEnable
    /\ off = IdleOff
    /\ health = IdleHealth
    /\ main = IdleMain
    /\ commands = 0
    /\ faults = 0
    /\ granted = {}
    /\ reread = {}
    /\ session = 0
    /\ armSession = 0
    /\ revoked = {}
    /\ paused = FALSE

(* Mutant of Disarm: the identity is forgotten, the flag stays.            *)
DisarmIdentityOnly ==
    /\ UNCHANGED armed
    /\ armedId' = NoAccount

(* disarm_entries: the flag and the bound identity always go together.     *)
Disarm ==
    /\ armed' = FALSE
    /\ armedId' = NoAccount

(* The two assignments with which every path arms entries for account a.   *)
ArmFor(a) ==
    /\ armed' = TRUE
    /\ armedId' = a

-----------------------------------------------------------------------------
(* start(), stop(), a failed core loop, and the death of the process.      *)

(* _start_locked up to the connection: a new session starts disarmed.      *)
StartBegin ==
    /\ ~running
    /\ start.at = "idle"
    /\ GrantWaits
    /\ MayCommand
    /\ Disarm
    /\ start' = [IdleStart EXCEPT !.at = "reading"]
    /\ session' = session + 1
    /\ UNCHANGED <<terminal, running, loops, active, historyReady, operator,
                   engineTasks, autonomy, granted, reread, armSession, revoked, paused, faults>>

(* The account is read and its history reconciled.                         *)
StartRead ==
    /\ start.at = "reading"
    /\ start' = [start EXCEPT !.at = "loading", !.acct = terminal]
    /\ active' = terminal
    /\ running' = TRUE
    /\ historyReady' \in BOOLEAN
    /\ UNCHANGED <<terminal, loops, operator, engineTasks, authority, autonomy,
                   ghosts, bounds>>

StartFails ==
    /\ start.at = "reading"
    /\ start' = IdleStart
    /\ UNCHANGED <<terminal, running, loops, active, historyReady, operator,
                   engineTasks, authority, autonomy, ghosts, bounds>>

(* _restore_autonomous_authorization reads the record of that account; a    *)
(* read that fails answers as a missing record does...                     *)
StartLoad ==
    /\ start.at = "loading"
    /\ \E r \in {stored[start.acct], FALSE} :
          start' = [start EXCEPT !.at = "restoring", !.rec = r]
    /\ UNCHANGED <<terminal, running, loops, active, historyReady, operator,
                   engineTasks, authority, autonomy, ghosts, bounds>>

(* ...and restores autonomy, arming at once if every service is healthy.   *)
StartRestore ==
    /\ start.at = "restoring"
    /\ IF start.rec
       THEN /\ auto' = TRUE
            /\ autoId' = start.acct
            /\ \/ historyReady /\ ArmFor(start.acct) /\ armSession' = session
               \/ Disarm /\ UNCHANGED armSession
       ELSE /\ auto' = FALSE
            /\ autoId' = NoAccount
            /\ UNCHANGED <<authority, armSession>>
    /\ loops' = TRUE
    /\ start' = IdleStart
    /\ UNCHANGED <<terminal, running, active, historyReady, operator, engineTasks,
                   stored, granted, reread, session, revoked, paused, bounds>>

(* _core_task_finished: disarm and cancel the tasks; stop() follows.       *)
CoreFails ==
    /\ running
    /\ loops
    /\ Disarm
    /\ loops' = FALSE
    /\ health' = IdleHealth
    /\ main' = IdleMain
    /\ faults < MaxFaults
    /\ faults' = faults + 1
    /\ UNCHANGED <<terminal, running, active, historyReady, start, operator,
                   autonomy, ghosts, commands>>

(* _stop_locked, by command or after a core failure; start() holds the     *)
(* lifecycle lock until it has created the loops.                          *)
Stop ==
    /\ running
    /\ start.at = "idle"
    /\ IF loops THEN MayCommand ELSE UNCHANGED commands
    /\ Disarm
    /\ running' = FALSE
    /\ loops' = FALSE
    /\ health' = IdleHealth
    /\ main' = IdleMain
    /\ UNCHANGED <<terminal, active, historyReady, start, operator, autonomy,
                   ghosts, faults>>

(* The process dies: only the persisted records survive.                   *)
Crash ==
    /\ faults < MaxFaults
    /\ faults' = faults + 1
    /\ Disarm
    /\ running' = FALSE
    /\ loops' = FALSE
    /\ active' = NoAccount
    /\ auto' = FALSE
    /\ autoId' = NoAccount
    /\ historyReady' = FALSE
    /\ start' = IdleStart
    /\ arm' = IdleArm
    /\ enable' = IdleEnable
    /\ off' = IdleOff
    /\ health' = IdleHealth
    /\ main' = IdleMain
    /\ UNCHANGED <<terminal, stored, ghosts, commands>>

SwitchAccount(a) ==
    /\ a # terminal
    /\ faults < MaxFaults
    /\ faults' = faults + 1
    /\ terminal' = a
    /\ UNCHANGED <<running, loops, active, historyReady, start, operator, engineTasks,
                   authority, autonomy, ghosts, commands>>

-----------------------------------------------------------------------------
(* arm_entries, called by the operator.                                    *)

(* The synchronous checks before the provider is asked.                    *)
ArmChecks == running /\ historyReady

ArmBegin ==
    /\ arm.at = "idle"
    /\ ArmChecks
    /\ MayCommand
    /\ paused' = FALSE
    /\ granted' = granted \cup {terminal}
    /\ IF ProbeSuspends
       THEN /\ arm' = [at |-> "probing", acct |-> terminal, session |-> session]
            /\ UNCHANGED <<authority, armSession>>
       ELSE /\ ArmFor(terminal)
            /\ armSession' = session
            /\ UNCHANGED arm
    /\ UNCHANGED <<terminal, running, loops, active, historyReady, start, enable, off,
                   engineTasks, autonomy, reread, session, revoked, faults>>

(* The provider is ready and the phrase matches: nothing is checked again. *)
ArmFinish ==
    /\ arm.at = "probing"
    /\ ArmFor(arm.acct)
    /\ armSession' = arm.session
    /\ arm' = IdleArm
    /\ UNCHANGED <<terminal, running, loops, active, historyReady, start, enable, off,
                   engineTasks, autonomy, granted, reread, session, revoked, paused,
                   bounds>>

ArmFails ==
    /\ arm.at = "probing"
    /\ arm' = IdleArm
    /\ UNCHANGED <<terminal, running, loops, active, historyReady, start, enable, off,
                   engineTasks, authority, autonomy, ghosts, bounds>>

-----------------------------------------------------------------------------
(* enable_autonomous_mode                                                  *)

(* The account is read and the phrase confirmed for it.                    *)
EnableBegin ==
    /\ enable.at = "idle"
    /\ running
    /\ GrantWaits
    /\ MayCommand
    /\ paused' = FALSE
    /\ granted' = granted \cup {terminal}
    /\ revoked' = revoked \ {terminal}
    /\ enable' = [at |-> "arming", acct |-> terminal, arm |-> NoAccount,
                  session |-> session]
    /\ UNCHANGED <<terminal, running, loops, active, historyReady, start, arm, off,
                   engineTasks, authority, autonomy, reread, session, armSession, faults>>

(* The inner arm_entries reads the account again, and arms that one: after  *)
(* a switch in between, an account the operator was never asked about.     *)
EnableArm ==
    /\ enable.at = "arming"
    /\ ArmChecks
    /\ reread' = reread \cup ({terminal} \ granted)
    /\ IF ProbeSuspends
       THEN /\ enable' = [enable EXCEPT !.at = "probing", !.arm = terminal]
            /\ UNCHANGED <<authority, armSession>>
       ELSE /\ ArmFor(terminal)
            /\ armSession' = enable.session
            /\ enable' = [enable EXCEPT !.at = "persisting", !.arm = terminal]
    /\ UNCHANGED <<terminal, running, loops, active, historyReady, start, arm, off,
                   engineTasks, autonomy, granted, session, revoked, paused, bounds>>

EnableProbed ==
    /\ enable.at = "probing"
    /\ ArmFor(enable.arm)
    /\ armSession' = enable.session
    /\ enable' = [enable EXCEPT !.at = "persisting"]
    /\ UNCHANGED <<terminal, running, loops, active, historyReady, start, arm, off,
                   engineTasks, autonomy, granted, reread, session, revoked, paused,
                   bounds>>

EnableFails ==
    /\ enable.at \in {"arming", "probing"}
    /\ enable' = IdleEnable
    /\ UNCHANGED <<terminal, running, loops, active, historyReady, start, arm, off,
                   engineTasks, authority, autonomy, ghosts, bounds>>

(* The record of the account read first is written...                      *)
EnablePersist ==
    /\ enable.at = "persisting"
    /\ stored' = [stored EXCEPT ![enable.acct] = TRUE]
    /\ enable' = [enable EXCEPT !.at = "finishing"]
    /\ UNCHANGED <<terminal, running, loops, active, historyReady, start, arm, off,
                   engineTasks, authority, auto, autoId, ghosts, bounds>>

(* ...or cannot be, and entries are locked again.                          *)
EnablePersistFails ==
    /\ enable.at = "persisting"
    /\ Disarm
    /\ enable' = IdleEnable
    /\ UNCHANGED <<terminal, running, loops, active, historyReady, start, arm, off,
                   engineTasks, autonomy, ghosts, bounds>>

EnableFinish ==
    /\ enable.at = "finishing"
    /\ auto' = TRUE
    /\ autoId' = enable.acct
    /\ enable' = IdleEnable
    /\ UNCHANGED <<terminal, running, loops, active, historyReady, start, arm, off,
                   engineTasks, authority, stored, ghosts, bounds>>

-----------------------------------------------------------------------------
(* operator_disarm_entries and disable_autonomous_mode                     *)

(* Manual disarm while autonomy is off: the process is disarmed, done.     *)
OperatorDisarm ==
    /\ off.at = "idle"
    /\ ~auto
    /\ RevokeWaits
    /\ MayCommand
    /\ Disarm
    /\ paused' = TRUE
    /\ UNCHANGED <<terminal, running, loops, active, historyReady, start, operator,
                   engineTasks, autonomy, granted, reread, session, armSession, revoked,
                   faults>>

(* Disable, or a manual disarm while autonomy is on: the active account is  *)
(* read; the authorized one stands in when there is no answer.             *)
DisableBegin ==
    /\ off.at = "idle"
    /\ RevokeWaits
    /\ MayCommand
    /\ \E a \in {terminal, autoId} :
          IF a = NoAccount
          THEN off' = [at |-> "finishing", acct |-> a, ok |-> ~auto]
          ELSE off' = [at |-> "writing", acct |-> a, ok |-> FALSE]
    /\ UNCHANGED <<terminal, running, loops, active, historyReady, start, arm, enable,
                   engineTasks, authority, autonomy, ghosts, faults>>

(* Mutant of DisableWrite: the record is reported written and is not.      *)
DisableUnwritten ==
    /\ off.at = "writing"
    /\ off' = [off EXCEPT !.at = "finishing", !.ok = TRUE]
    /\ UNCHANGED <<terminal, running, loops, active, historyReady, start, arm, enable,
                   engineTasks, authority, autonomy, ghosts, bounds>>

DisableWrite ==
    /\ off.at = "writing"
    /\ \/ /\ stored' = [stored EXCEPT ![off.acct] = FALSE]
          /\ off' = [off EXCEPT !.at = "finishing", !.ok = TRUE]
       \/ /\ off' = [off EXCEPT !.at = "finishing"]
          /\ UNCHANGED stored
    /\ UNCHANGED <<terminal, running, loops, active, historyReady, start, arm, enable,
                   engineTasks, authority, auto, autoId, ghosts, bounds>>

DisableFinish ==
    /\ off.at = "finishing"
    /\ auto' = FALSE
    /\ autoId' = NoAccount
    /\ Disarm
    /\ off' = IdleOff
    /\ paused' = (paused \/ off.ok)
    /\ revoked' = IF off.ok THEN revoked \cup ({off.acct} \ {NoAccount}) ELSE revoked
    /\ UNCHANGED <<terminal, running, loops, active, historyReady, start, arm, enable,
                   engineTasks, stored, granted, reread, session, armSession, bounds>>

-----------------------------------------------------------------------------
(* _autonomy_health_loop                                                   *)

(* The provider is not ready: entries are disarmed.                        *)
HealthNoProvider ==
    /\ loops
    /\ health.at = "idle"
    /\ armed
    /\ Disarm
    /\ UNCHANGED <<terminal, running, loops, active, historyReady, start, operator,
                   engineTasks, autonomy, ghosts, bounds>>

HealthRead ==
    /\ loops
    /\ health.at = "idle"
    /\ auto
    /\ \E a \in {terminal, NoAccount} : health' = [at |-> "deciding", acct |-> a]
    /\ UNCHANGED <<terminal, running, loops, active, historyReady, start, operator, main,
                   authority, autonomy, ghosts, bounds>>

(* Mutant of HealthAccountOk: whichever account is logged in is recovered.  *)
AnyHealthyAccount == health.acct # NoAccount

(* _same_account of the account just read and the authorized identity.     *)
HealthAccountOk == health.acct # NoAccount /\ health.acct = autoId

(* A failed check, or a service this model does not look into, disarms;    *)
(* otherwise entries are armed again if they were not.                     *)
HealthDecide ==
    /\ health.at = "deciding"
    /\ \/ /\ HealthAccountOk
          /\ historyReady
          /\ IF armed
             THEN UNCHANGED <<authority, armSession>>
             ELSE ArmFor(health.acct) /\ armSession' = session
       \/ Disarm /\ UNCHANGED armSession
    /\ health' = IdleHealth
    /\ UNCHANGED <<terminal, running, loops, active, historyReady, start, operator, main,
                   autonomy, granted, reread, session, revoked, paused, bounds>>

-----------------------------------------------------------------------------
(* _main_loop                                                              *)

(* The account is the one of the previous poll.                            *)
MainSame ==
    /\ loops
    /\ main.at = "idle"
    /\ terminal = active
    /\ main' = [at |-> "polling", acct |-> terminal]
    /\ UNCHANGED <<terminal, running, loops, active, historyReady, start, operator,
                   health, authority, autonomy, ghosts, bounds>>

(* Mutant of MainSwitch: a new account only drops autonomy.                *)
MainSwitchArmed ==
    /\ loops
    /\ main.at = "idle"
    /\ terminal # active
    /\ auto' = FALSE
    /\ autoId' = NoAccount
    /\ main' = [at |-> "switching", acct |-> terminal]
    /\ UNCHANGED <<terminal, running, loops, active, historyReady, start, operator,
                   health, authority, stored, ghosts, bounds>>

(* Another account: disarm, drop autonomy, clear the state kept of the old *)
(* account and restore the new one's from the database and the broker.     *)
MainSwitch ==
    /\ loops
    /\ main.at = "idle"
    /\ terminal # active
    /\ Disarm
    /\ auto' = FALSE
    /\ autoId' = NoAccount
    /\ main' = [at |-> "switching", acct |-> terminal]
    /\ UNCHANGED <<terminal, running, loops, active, historyReady, start, operator,
                   health, stored, ghosts, bounds>>

(* The reconciliation of the new account's history may fail; only then     *)
(* does the poll go on under the new identity.                             *)
MainAdopt ==
    /\ main.at = "switching"
    /\ \/ historyReady' = TRUE /\ UNCHANGED authority
       \/ historyReady' = FALSE /\ Disarm
    /\ active' = main.acct
    /\ main' = [main EXCEPT !.at = "polling"]
    /\ UNCHANGED <<terminal, running, loops, start, operator, health, autonomy, ghosts,
                   bounds>>

(* The rest of a poll: positions, stop risk, closures and, now and then,   *)
(* history.  A failed position, risk or history read disarms; deals that    *)
(* cannot be read only withdraw the history flag.                          *)
MainPoll ==
    /\ main.at = "polling"
    /\ \/ historyReady' = TRUE /\ UNCHANGED authority
       \/ UNCHANGED historyReady /\ UNCHANGED authority
       \/ historyReady' = FALSE /\ UNCHANGED authority
       \/ historyReady' \in {historyReady, FALSE} /\ Disarm
    /\ main' = IdleMain
    /\ UNCHANGED <<terminal, running, loops, active, start, operator, health, autonomy,
                   ghosts, bounds>>

-----------------------------------------------------------------------------
Lifecycle ==
    \/ StartBegin \/ StartRead \/ StartFails \/ StartLoad \/ StartRestore
    \/ CoreFails \/ Stop \/ Crash

OperatorStep ==
    \/ ArmBegin \/ ArmFinish \/ ArmFails
    \/ EnableBegin \/ EnableArm \/ EnableProbed \/ EnableFails
    \/ EnablePersist \/ EnablePersistFails \/ EnableFinish
    \/ OperatorDisarm \/ DisableBegin \/ DisableWrite \/ DisableFinish

EngineStep ==
    \/ HealthNoProvider \/ HealthRead \/ HealthDecide
    \/ MainSame \/ MainSwitch \/ MainAdopt \/ MainPoll

Next ==
    \/ Lifecycle
    \/ OperatorStep
    \/ EngineStep
    \/ \E a \in Accounts : SwitchAccount(a)

Spec == Init /\ [][Next]_vars

(* The main loop polls for ever; the operator, the terminal's user, the     *)
(* provider and the other coroutines owe nothing.                          *)
Fairness == WF_vars(MainSame \/ MainSwitch \/ MainAdopt \/ MainPoll)

LiveSpec == Spec /\ Fairness

-----------------------------------------------------------------------------
FlagsTyped ==
    /\ running \in BOOLEAN
    /\ loops \in BOOLEAN
    /\ armed \in BOOLEAN
    /\ auto \in BOOLEAN
    /\ historyReady \in BOOLEAN
    /\ paused \in BOOLEAN

IdentitiesTyped ==
    /\ terminal \in Accounts
    /\ stored \in [Accounts -> BOOLEAN]
    /\ armedId \in MaybeAccount
    /\ active \in MaybeAccount
    /\ autoId \in MaybeAccount
    /\ granted \in SUBSET Accounts
    /\ reread \in SUBSET Accounts
    /\ revoked \in SUBSET Accounts

CoroutinesTyped ==
    /\ start \in StartState
    /\ arm \in ArmState
    /\ enable \in EnableState
    /\ off \in OffState
    /\ health \in HealthState
    /\ main \in MainState

CountersTyped ==
    /\ commands \in 0..MaxCommands
    /\ faults \in 0..MaxFaults
    /\ session \in Nat
    /\ armSession \in Nat

TypeOK == FlagsTyped /\ IdentitiesTyped /\ CoroutinesTyped /\ CountersTyped

(* Authority never moves to an account the operator did not confirm: not   *)
(* through a restart, a recovery by the health supervisor, a persisted     *)
(* record or a change of the terminal's account in the middle of any of    *)
(* them; and entries are armed exactly when they are bound to an account.  *)
(* The one account besides is one that enable_autonomous_mode came upon    *)
(* when arm_entries read the account a second time; it can be armed, and   *)
(* is never the account of the autonomy or of a record.                    *)
NoTransfer ==
    /\ armed <=> armedId # NoAccount
    /\ armed => armedId \in granted \cup reread
    /\ auto => autoId \in granted
    /\ \A a \in Accounts : stored[a] => a \in granted

(* After autonomy was disabled for an account, and reported disabled, no    *)
(* restart and no recovery arms that account again by itself.              *)
SupervisorHonoursDisable ==
    [][\A a \in revoked \cap revoked' :
          (StartRestore \/ HealthDecide) /\ ~armed => ~(armed' /\ armedId' = a)]_vars

(* The answer to an arm_entries or enable_autonomous_mode that was given in *)
(* an earlier session of the engine: stop and start have come in between.  *)
LateAnswer ==
    \/ ArmFinish /\ arm.session # session
    \/ (EnableArm \/ EnableProbed) /\ enable.session # session

(* "Arm entries for this process session only" (arm_entries), "Entries must *)
(* be re-armed after every engine start" (start): authority given in one   *)
(* session of the engine is never in force in a later one, whatever stops, *)
(* failures, crashes and recoveries come in between -- except through the  *)
(* one gap that the code has, a command still waiting for its provider     *)
(* while the engine is stopped and started, which arms the new session.    *)
ArmedInItsOwnSession ==
    [][armed' /\ armSession' # session' =>
          \/ UNCHANGED <<authority, armSession, session>>
          \/ LateAnswer]_vars

(* A manual disarm that was reported as done lasts until the operator arms *)
(* or enables again.                                                       *)
DisarmIsLasting == armed => ~paused

(* Switching the account in the terminal disarms entries of a running       *)
(* engine, if the account that is armed is the one the main loop last       *)
(* adopted: the change is noticed whatever commands, restarts and          *)
(* recoveries come in between.  (Left out: an arm whose probe returns while *)
(* the main loop is already at work on that very change stays in force     *)
(* until an order is refused.)                                             *)
NoticedSwitchDisarms ==
    \A a \in Accounts :
        /\ loops /\ main.at # "switching"
        /\ armed /\ armedId = a /\ active = a /\ terminal # a
        ~> ~armed \/ armedId # a \/ terminal = a
=============================================================================
