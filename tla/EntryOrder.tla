----------------------------- MODULE EntryOrder -----------------------------
(***************************************************************************)
(* An order under an authorization: the execution section of               *)
(* _evaluate_symbol (core/engine.py), from the armed check to the executor *)
(* call and its outcome, composed with the entry authorization.            *)
(*                                                                         *)
(* _execution_lock lets one pipeline at a time through, so there is one    *)
(* record.  The pipeline reads the account once, plans and sizes the order *)
(* for it over several awaits, and hands the executor the identity that is *)
(* armed by then.  The executor (module Executor) compares that identity   *)
(* with the terminal twice, or not at all when there is none.              *)
(***************************************************************************)
EXTENDS EntryAuthorization

VARIABLE entry  \* the pipeline: its place, the account it read, the identity it
                \* handed on, whether its task is gone, whether a switch raced it

orderVars == <<vars, entry>>

IdleEntry == [at |-> "idle", acct |-> NoAccount, expected |-> NoAccount,
              orphan |-> FALSE, raced |-> FALSE]

InWorker == entry.at \in {"submitted", "cleared", "sent"}

OrderInit == Init /\ entry = IdleEntry

(* What the pipeline leaves alone when it does not disarm.                 *)
AuthorityKept == UNCHANGED vars

(* The pipeline disarms: the rest of the authorization stays.              *)
EntryDisarms ==
    /\ Disarm
    /\ UNCHANGED <<terminal, running, loops, active, historyReady, start, operator,
                   engineTasks, autonomy, ghosts, bounds>>

-----------------------------------------------------------------------------
(* A validated signal while entries are armed; the task queues for the lock. *)
EntrySignal ==
    /\ loops
    /\ entry.at = "idle"
    /\ armed
    /\ entry' = [IdleEntry EXCEPT !.at = "waiting"]
    /\ AuthorityKept

(* Under the lock the account is read; the read may fail.                  *)
EntryReadAccount ==
    /\ entry.at = "waiting"
    /\ \E a \in {terminal, NoAccount} :
          entry' = [entry EXCEPT !.at = "verifying", !.acct = a]
    /\ AuthorityKept

(* _same_account with the armed identity, and reconciled history.          *)
EntryPermitted == armed /\ entry.acct = armedId /\ historyReady

EntryPermit ==
    /\ entry.at = "verifying"
    /\ IF EntryPermitted
       THEN entry' = [entry EXCEPT !.at = "planning"] /\ AuthorityKept
       ELSE entry' = IdleEntry /\ EntryDisarms

(* Planning, risk validation and the freshness checks reject the order; no  *)
(* positions, or no protection heartbeat, disarms as well.                 *)
EntryReject ==
    /\ entry.at \in {"waiting", "planning"}
    /\ entry' = IdleEntry
    /\ AuthorityKept \/ EntryDisarms

(* Mutant of EntrySubmit: the armed flag is handed on for the identity.    *)
EntrySubmitFlag ==
    /\ entry.at = "planning"
    /\ entry' = [entry EXCEPT !.at = "submitted", !.expected = armed]
    /\ AuthorityKept

(* executor.open_trade(expected_account=self._armed_account_identity).      *)
EntrySubmit ==
    /\ entry.at = "planning"
    /\ entry' = [entry EXCEPT !.at = "submitted", !.expected = armedId]
    /\ AuthorityKept

(* Mutant of ExpectedMatches: the account is not compared.                 *)
NeverCompared == TRUE

(* _validate_account_identity: an expected account that is None is not     *)
(* compared with anything.                                                 *)
ExpectedMatches == entry.expected = NoAccount \/ entry.expected = terminal

EntryClear ==
    /\ entry.at = "submitted"
    /\ ExpectedMatches
    /\ entry' = [entry EXCEPT !.at = "cleared"]
    /\ AuthorityKept

(* The executor refuses the order before it reaches the broker.            *)
EntryRefused ==
    /\ entry.at = "submitted"
    /\ entry' = IdleEntry
    /\ AuthorityKept

EntrySend ==
    /\ entry.at = "cleared"
    /\ entry' = [entry EXCEPT !.at = "sent"]
    /\ AuthorityKept

(* An unverified change, or a baseline that could not be persisted, locks  *)
(* entries; the outcome of a cancelled task reaches nobody.                *)
EntryFinish ==
    /\ entry.at = "sent"
    /\ entry' = IdleEntry
    /\ AuthorityKept \/ (~entry.orphan /\ EntryDisarms)

-----------------------------------------------------------------------------
(* stop() and a failed core loop cancel the task; a native worker runs on.  *)
Unwind ==
    \/ entry.at # "cleared" /\ entry.at # "sent" /\ entry' = IdleEntry
    \/ InWorker /\ entry' = [entry EXCEPT !.orphan = TRUE]

EntryStep ==
    \/ EntrySignal \/ EntryReadAccount \/ EntryPermit \/ EntryReject \/ EntrySubmit
    \/ EntryClear \/ EntryRefused \/ EntrySend \/ EntryFinish

OrderNext ==
    \/ (StartBegin \/ StartRead \/ StartFails \/ StartLoad \/ StartRestore)
          /\ UNCHANGED entry
    \/ (Stop \/ CoreFails) /\ Unwind
    \/ Crash /\ entry' = IdleEntry
    \/ (OperatorStep \/ EngineStep) /\ UNCHANGED entry
    \/ \E a \in Accounts :
          /\ SwitchAccount(a)
          /\ entry' = [entry EXCEPT !.raced = @ \/ entry.at = "cleared"]
    \/ EntryStep

OrderSpec == OrderInit /\ [][OrderNext]_orderVars
(* With the fairness of EntryAuthorization: the pipeline itself may stop.   *)
LiveOrderSpec == OrderSpec /\ Fairness

-----------------------------------------------------------------------------
EntryTypeOK ==
    entry \in [at : {"idle", "waiting", "verifying", "planning", "submitted", "cleared",
                     "sent"},
               acct : MaybeAccount, expected : MaybeAccount,
               orphan : BOOLEAN, raced : BOOLEAN]

OrderTypeOK == TypeOK /\ EntryTypeOK

(* An order that reaches the broker was planned on an account the operator  *)
(* had confirmed, or that enable_autonomous_mode had come upon, and one    *)
(* that names the account it expects lands on such an account, unless the  *)
(* terminal changes account after the last check.                          *)
OrdersWereAuthorized ==
    [][EntrySend =>
          /\ entry.acct \in granted \cup reread
          /\ entry.expected # NoAccount /\ ~entry.raced =>
                terminal \in granted \cup reread]_orderVars

(* The same for every order: none is sent to any other account, unless the  *)
(* switch comes after the last check.                                      *)
OrdersOnConfirmedAccounts ==
    [][EntrySend /\ ~entry.raced => terminal \in granted \cup reread]_orderVars

(* The pipeline's part of the executor is the guard that Executor has.      *)
Guard == INSTANCE OrderGuard WITH
    Orders <- {"entry"},
    place <- [o \in {"entry"} |-> IF InWorker THEN entry.at ELSE "outside"],
    expected <- [o \in {"entry"} |-> entry.expected],
    raced <- [o \in {"entry"} |-> entry.raced]

OrderIsGuarded == Guard!Spec

(* While the engine is stopped, failed or not yet started, no order is read, *)
(* planned or handed to the executor: all that can be left of a pipeline is *)
(* a native worker that was at work when its task was cancelled.           *)
OnlyWorkersOutliveTheEngine ==
    entry.at # "idle" => loops \/ (entry.orphan /\ InWorker)
=============================================================================
