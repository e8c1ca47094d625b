------------------------------ MODULE Executor ------------------------------
(***************************************************************************)
(* The order executor (execution/executor.py) with the process-wide MT5    *)
(* gate (mt5/safe_api.py), the connection manager's reconnect              *)
(* (mt5/connection.py) and the part of the engine's stop and start that    *)
(* drives it (core/engine.py).                                             *)
(*                                                                         *)
(* Every call of open_trade, close_position, partial_close or modify_sl_tp *)
(* is an element of Calls.  A call runs on the asyncio loop; each of its   *)
(* attempts hands one worker to the thread pool, and the worker performs a *)
(* transaction with the terminal under the native gate.  The caller can be *)
(* cancelled while the worker keeps running (asyncio.shield).              *)
(*                                                                         *)
(* The broker is external.  An order is applied fully, in part or not at   *)
(* all; the reply may be lost (order_send returns None or a TIMEOUT or     *)
(* CONNECTION code) whatever the broker did.  The user may select another  *)
(* account in the terminal at any moment.                                  *)
(***************************************************************************)
EXTENDS Naturals, FiniteSets

CONSTANTS
    Calls,           \* invocations of the executor, each used once
    OperatorCalls,   \* those made by a REST handler, which stop() never cancels
    Keys,            \* dedup keys: "SYMBOL:ACTION", "CLOSE:ticket", "MODIFY:ticket"
    KeyOf,           \* the key each call computes from its arguments
    KindOf,          \* the method called: open_trade, close_position,
                     \*   partial_close ("trim") or modify_sl_tp
    Accounts,        \* accounts the terminal can be logged in to
    NoCall,          \* the native gate is free
    NoAccount,       \* the call expects no account in particular, or is not made yet
    MaxRetries,      \* MAX_RETRIES
    MaxFaults,       \* bound: account switches and link losses in a behaviour
    MaxStops,        \* bound: engine stops in a behaviour
    DrainMayTimeOut  \* whether wait_until_idle may give up on a running worker

Kinds == {"open", "close", "trim", "modify"}

ASSUME ExecutorAssumption ==
    /\ OperatorCalls \subseteq Calls
    /\ KeyOf \in [Calls -> Keys]
    /\ KindOf \in [Calls -> Kinds]
    /\ MaxRetries \in Nat \ {0}
    /\ MaxFaults \in Nat
    /\ MaxStops \in Nat
    /\ DrainMayTimeOut \in BOOLEAN
    /\ NoCall \notin Calls
    /\ NoAccount \notin Accounts

VARIABLES
    accepting,  \* _accepting_work
    inflight,   \* _inflight: the dedup keys
    tracked,    \* _workers: the calls whose worker task is registered
    pc,         \* pc[c]: where the caller's coroutine is
    attempt,    \* attempt[c]: the loop counter of _with_retry
    expected,   \* expected[c]: expected_account
    worker,     \* worker[c]: where the native thread of the call is
    reply,      \* reply[c]: what order_send returned to the last attempt
    result,     \* result[c]: the last ExecutionResult
    gate,       \* holder of _NATIVE_GATE
    session,    \* the MT5 session is initialised and connected
    terminal,   \* account the terminal is logged in to
    phase,      \* engine lifecycle, as stop() and start() drive it
    draining,   \* the snapshot wait_until_idle is waiting for
    dryRun,     \* settings.dry_run, fixed for the life of the process
    faults,     \* number of account switches and link losses so far
    stops,      \* number of engine stops so far
    (* what happened at the broker, which the program cannot see directly *)
    effects,    \* effects[c]: number of orders of the call the broker applied
    applied,    \* applied[c]: how much of the last one was applied
    landed,     \* landed[c]: the accounts on which they were applied
    raced,      \* raced[c]: the account changed after the last identity check
    vanished,   \* vanished[c]: the position was closed by its stop or its owner
    abandoned   \* a drain has timed out with a worker still running

callVars == <<pc, attempt, expected>>
workVars == <<worker, reply, result, gate>>
brokerVars == <<effects, applied, landed, raced, vanished>>
lifeVars == <<accepting, phase, draining, stops, abandoned>>
envVars == <<session, terminal, faults, dryRun>>
vars == <<inflight, tracked, callVars, workVars, brokerVars, lifeVars, envVars>>

Results == [success : BOOLEAN, changed : BOOLEAN, partial : BOOLEAN]

(* Mutant of Unneeded: a simulated order claims that it changed the broker. *)
SimulatedChange == [success |-> TRUE, changed |-> TRUE, partial |-> FALSE]

(* The ExecutionResult of a call that has not run a worker yet, of one that *)
(* failed before the broker was asked, and of a reply that is neither DONE  *)
(* nor DONE_PARTIAL; and of a request that needed no change at the broker.  *)
Failed == [success |-> FALSE, changed |-> FALSE, partial |-> FALSE]
Unneeded == [success |-> TRUE, changed |-> FALSE, partial |-> FALSE]

CallStates == {"new", "connecting", "awaiting", "backoff", "returned", "cancelled"}
Native == {"entered", "prepared", "cleared", "sent"}
WorkerStates == {"none", "queued", "finished"} \cup Native
Replies == {"none", "done", "partial", "requote", "refused", "lost"}

(* A native thread that is queued or inside the gate. *)
Live(c) == worker[c] \in {"queued"} \cup Native

Running(c) == pc[c] \in {"connecting", "awaiting", "backoff"}

(* Mutant of Retryable: an ambiguous outcome is tried again, too.          *)
RetryAmbiguous(r) == r \in {"requote", "lost"}

(* _RETRYABLE_CODES: only quote refresh failures are tried again. *)
Retryable(r) == r = "requote"

(* _completed_retcode: DONE or DONE_PARTIAL. *)
Completed(r) == r \in {"done", "partial"}

(* Mutant of IdentityMatches: any account of a connected terminal will do.  *)
AnyAccount(c) == session

(* _validate_account_identity: an expected account that is None is not     *)
(* compared with anything.                                                 *)
IdentityMatches(c) == session /\ expected[c] \in {NoAccount, terminal}

-----------------------------------------------------------------------------
Init ==
    /\ accepting = TRUE
    /\ inflight = {}
    /\ tracked = {}
    /\ pc = [c \in Calls |-> "new"]
    /\ attempt = [c \in Calls |-> 0]
    /\ expected = [c \in Calls |-> NoAccount]
    /\ worker = [c \in Calls |-> "none"]
    /\ reply = [c \in Calls |-> "none"]
    /\ result = [c \in Calls |-> Failed]
    /\ gate = NoCall
    /\ session = TRUE
    /\ terminal \in Accounts
    /\ phase = "running"
    /\ draining = {}
    /\ dryRun \in BOOLEAN
    /\ faults = 0
    /\ stops = 0
    /\ effects = [c \in Calls |-> 0]
    /\ applied = [c \in Calls |-> "none"]
    /\ landed = [c \in Calls |-> {}]
    /\ raced = [c \in Calls |-> FALSE]
    /\ vanished = [c \in Calls |-> FALSE]
    /\ abandoned = FALSE

-----------------------------------------------------------------------------
(* The caller: the public methods and _with_retry.                         *)

(* The dedup guard and the shutdown guard refuse without side effects.     *)
Refuse(c) ==
    /\ pc[c] = "new"
    /\ ~accepting \/ KeyOf[c] \in inflight
    /\ pc' = [pc EXCEPT ![c] = "returned"]
    /\ UNCHANGED <<inflight, tracked, attempt, expected, workVars, brokerVars,
                   lifeVars, envVars>>

(* Past both guards the key is taken and the call awaits is_connected.  The *)
(* engine passes the account identity it has just read, or, for an open,    *)
(* the one that is armed, which is none after a disarm.                     *)
Accept(c) ==
    /\ pc[c] = "new"
    /\ accepting
    /\ KeyOf[c] \notin inflight
    /\ c \in OperatorCalls \/ phase = "running"
    /\ inflight' = inflight \cup {KeyOf[c]}
    /\ pc' = [pc EXCEPT ![c] = "connecting"]
    /\ \E a \in {terminal} \cup (IF KindOf[c] = "open" THEN {NoAccount} ELSE {}) :
          expected' = [expected EXCEPT ![c] = a]
    /\ UNCHANGED <<tracked, attempt, workVars, brokerVars, lifeVars, envVars>>

(* One pass of the retry loop: create the worker and await its shield.     *)
Spawn(c) ==
    /\ pc' = [pc EXCEPT ![c] = "awaiting"]
    /\ attempt' = [attempt EXCEPT ![c] = @ + 1]
    /\ worker' = [worker EXCEPT ![c] = "queued"]
    /\ tracked' = tracked \cup {c}

(* Mutant of Return: the finally clause is missing.                        *)
ReturnHoldingKey(c) ==
    /\ pc' = [pc EXCEPT ![c] = "returned"]
    /\ UNCHANGED inflight

(* The method returns; its finally clause drops the dedup key.             *)
Return(c) ==
    /\ pc' = [pc EXCEPT ![c] = "returned"]
    /\ inflight' = inflight \ {KeyOf[c]}

FindConnected(c) ==
    /\ pc[c] = "connecting"
    /\ session
    /\ Spawn(c)
    /\ UNCHANGED <<inflight, expected, reply, result, gate, brokerVars, lifeVars,
                   envVars>>

(* is_connected was false: initialize() reconnects, then the loop starts.  *)
Reconnect(c) ==
    /\ pc[c] = "connecting"
    /\ ~session
    /\ gate = NoCall
    /\ session' = TRUE
    /\ Spawn(c)
    /\ UNCHANGED <<inflight, expected, reply, result, gate, brokerVars, lifeVars,
                   terminal, faults, dryRun>>

ReconnectFails(c) ==
    /\ pc[c] = "connecting"
    /\ ~session
    /\ gate = NoCall
    /\ Return(c)
    /\ UNCHANGED <<tracked, attempt, expected, workVars, brokerVars, lifeVars,
                   envVars>>

(* The awaited worker has finished: return its result, or sleep when the   *)
(* failure is a retryable one (the last attempt sleeps too).               *)
Resume(c) ==
    /\ pc[c] = "awaiting"
    /\ worker[c] = "finished"
    /\ IF ~result[c].success /\ Retryable(reply[c])
       THEN pc' = [pc EXCEPT ![c] = "backoff"] /\ UNCHANGED inflight
       ELSE Return(c)
    /\ UNCHANGED <<tracked, attempt, expected, workVars, brokerVars, lifeVars,
                   envVars>>

(* Mutant of Retry: one attempt too many.                                  *)
RetryPastLimit(c) ==
    /\ pc[c] = "backoff"
    /\ attempt[c] <= MaxRetries
    /\ Spawn(c)
    /\ UNCHANGED <<inflight, expected, reply, result, gate, brokerVars, lifeVars,
                   envVars>>

Retry(c) ==
    /\ pc[c] = "backoff"
    /\ attempt[c] < MaxRetries
    /\ Spawn(c)
    /\ UNCHANGED <<inflight, expected, reply, result, gate, brokerVars, lifeVars,
                   envVars>>

GiveUp(c) ==
    /\ pc[c] = "backoff"
    /\ attempt[c] = MaxRetries
    /\ Return(c)
    /\ UNCHANGED <<tracked, attempt, expected, workVars, brokerVars, lifeVars,
                   envVars>>

-----------------------------------------------------------------------------
(* The worker: _submit_open, _submit_close, _submit_partial_close and       *)
(* _submit_modify, a native transaction under the gate.                     *)

(* @serialized_mt5: the worker waits for the process-wide gate.             *)
Enter(c) ==
    /\ worker[c] = "queued"
    /\ gate = NoCall
    /\ gate' = c
    /\ worker' = [worker EXCEPT ![c] = "entered"]
    /\ UNCHANGED <<inflight, tracked, callVars, reply, result, brokerVars, lifeVars,
                   envVars>>

(* Mutant of Finish: no done callback, the finished worker stays tracked.   *)
FinishTracked(c, outcome) ==
    /\ worker' = [worker EXCEPT ![c] = "finished"]
    /\ result' = [result EXCEPT ![c] = outcome]
    /\ gate' = NoCall
    /\ UNCHANGED tracked

(* The worker leaves the gate; its task's done callback forgets it.         *)
Finish(c, outcome) ==
    /\ worker' = [worker EXCEPT ![c] = "finished"]
    /\ result' = [result EXCEPT ![c] = outcome]
    /\ gate' = NoCall
    /\ tracked' = tracked \ {c}

(* An early return: a validator, order_check or a snapshot query refuses,   *)
(* or dry run stops a close or a modification.                              *)
Reject(c) ==
    /\ worker[c] = "entered"
    /\ Finish(c, Failed)
    /\ reply' = [reply EXCEPT ![c] = "none"]
    /\ UNCHANGED <<inflight, callVars, brokerVars, lifeVars, envVars>>

(* A dry-run open succeeds without the broker; so does a modification to    *)
(* the levels the position already has.                                     *)
Skip(c) ==
    /\ worker[c] = "entered"
    /\ IdentityMatches(c)
    /\ IF dryRun THEN KindOf[c] = "open" ELSE KindOf[c] = "modify"
    /\ Finish(c, Unneeded)
    /\ reply' = [reply EXCEPT ![c] = "none"]
    /\ UNCHANGED <<inflight, callVars, brokerVars, lifeVars, envVars>>

(* Every validation and order_check pass; an open validates the account     *)
(* identity before them.                                                    *)
Prepare(c) ==
    /\ worker[c] = "entered"
    /\ session
    /\ KindOf[c] = "open" => IdentityMatches(c)
    /\ ~dryRun
    /\ worker' = [worker EXCEPT ![c] = "prepared"]
    /\ UNCHANGED <<inflight, tracked, callVars, reply, result, gate, brokerVars,
                   lifeVars, envVars>>

(* "Re-assert identity at the last possible point before sending a live     *)
(* mutation."                                                               *)
Recheck(c) ==
    /\ worker[c] = "prepared"
    /\ IF IdentityMatches(c)
       THEN /\ worker' = [worker EXCEPT ![c] = "cleared"]
            /\ UNCHANGED <<tracked, reply, result, gate>>
       ELSE /\ Finish(c, Failed)
            /\ reply' = [reply EXCEPT ![c] = "none"]
    /\ UNCHANGED <<inflight, callVars, brokerVars, lifeVars, envVars>>

(* What the broker may do with an order and what order_send may return.     *)
BrokerOutcomes ==
    {<<"done", "full">>, <<"done", "part">>, <<"partial", "part">>,
     <<"requote", "none">>, <<"refused", "none">>,
     <<"lost", "full">>, <<"lost", "part">>, <<"lost", "none">>}

Send(c) ==
    /\ worker[c] = "cleared"
    /\ \E o \in BrokerOutcomes :
          /\ ~session => o[1] = "lost"
          /\ reply' = [reply EXCEPT ![c] = o[1]]
          /\ IF o[2] = "none"
             THEN UNCHANGED <<effects, applied, landed>>
             ELSE /\ effects' = [effects EXCEPT ![c] = @ + 1]
                  /\ applied' = [applied EXCEPT ![c] = o[2]]
                  /\ landed' = [landed EXCEPT ![c] = @ \cup {terminal}]
    /\ worker' = [worker EXCEPT ![c] = "sent"]
    /\ UNCHANGED <<inflight, tracked, callVars, result, gate, raced, vanished,
                   lifeVars, envVars>>

(* The re-reads of the position after an accepted order: all of the change, *)
(* a part of it, no such position, no change yet, or no answer.  Another    *)
(* account's terminal shows no such position.                               *)
Observations(c) ==
    {"unreadable"} \cup
    (IF session THEN {"unseen"} ELSE {}) \cup
    (IF session /\ (vanished[c] \/ terminal \notin landed[c]) THEN {"gone"} ELSE {}) \cup
    (IF session /\ ~vanished[c] /\ terminal \in landed[c] THEN {applied[c]} ELSE {})

(* Mutant of Complete: any reduction of the volume completes a close.      *)
AnyReduction(kind, seen) == seen \in {"full", "part"} \/ (seen = "gone" /\ kind = "close")

(* _reconcile_open_result, _reconcile_close_result, _reconcile_modify_result *)
Complete(kind, seen) == seen = "full" \/ (seen = "gone" /\ kind = "close")

Verdict(kind, seen, r) ==
    [success |-> \/ Complete(kind, seen)
                 \/ seen = "part" /\ kind = "open",
     changed |-> ~(seen = "unseen" /\ kind \in {"close", "trim"}),
     partial |-> /\ kind # "modify"
                 /\ ~Complete(kind, seen)
                 /\ \/ seen = "part"
                    \/ seen = "gone" /\ kind = "trim"
                    \/ r = "partial"]

Reconcile(c) ==
    /\ worker[c] = "sent"
    /\ IF Completed(reply[c])
       THEN \E seen \in Observations(c) : Finish(c, Verdict(KindOf[c], seen, reply[c]))
       ELSE Finish(c, Failed)
    /\ UNCHANGED <<inflight, callVars, reply, brokerVars, lifeVars, envVars>>

-----------------------------------------------------------------------------
(* The engine: _stop_locked, wait_until_idle, conn.shutdown, _start_locked.  *)

(* Mutant of Cancellable: a call that sleeps or reconnects is overlooked.   *)
AwaitingWorkers == {c \in Calls \ OperatorCalls : pc[c] = "awaiting"}

(* begin_shutdown, then the engine's own tasks are cancelled: the callers   *)
(* unwind through their finally clauses while their workers run on.         *)
Cancellable == {c \in Calls \ OperatorCalls : Running(c)}

Cancel(S) ==
    /\ pc' = [c \in Calls |-> IF c \in S THEN "cancelled" ELSE pc[c]]
    /\ inflight' = inflight \ {KeyOf[c] : c \in S}

(* Mutant of Stop: begin_shutdown is missing.                              *)
StopStillAccepting ==
    /\ phase = "running"
    /\ stops < MaxStops
    /\ phase' = "stopping"
    /\ stops' = stops + 1
    /\ Cancel(Cancellable)
    /\ UNCHANGED <<accepting, tracked, attempt, expected, workVars, brokerVars, draining,
                   abandoned, envVars>>

Stop ==
    /\ phase = "running"
    /\ stops < MaxStops
    /\ accepting' = FALSE
    /\ phase' = "stopping"
    /\ stops' = stops + 1
    /\ Cancel(Cancellable)
    /\ UNCHANGED <<tracked, attempt, expected, workVars, brokerVars, draining,
                   abandoned, envVars>>

(* wait_until_idle waits for the workers that are registered right now.     *)
BeginDrain ==
    /\ phase = "stopping"
    /\ phase' = "draining"
    /\ draining' = tracked
    /\ UNCHANGED <<inflight, tracked, callVars, workVars, brokerVars, accepting,
                   stops, abandoned, envVars>>

Drained ==
    /\ phase = "draining"
    /\ draining \cap tracked = {}
    /\ phase' = "closing"
    /\ draining' = {}
    /\ UNCHANGED <<inflight, tracked, callVars, workVars, brokerVars, accepting,
                   stops, abandoned, envVars>>

(* wait_for cancels the gather and with it the worker tasks: their threads  *)
(* run on unregistered and their awaiting callers are cancelled.  The       *)
(* terminal connection is left intact.                                      *)
DrainTimesOut ==
    /\ DrainMayTimeOut
    /\ phase = "draining"
    /\ draining \cap tracked # {}
    /\ phase' = "stopped"
    /\ abandoned' = TRUE
    /\ tracked' = tracked \ draining
    /\ Cancel({c \in draining \cap tracked : pc[c] = "awaiting"})
    /\ draining' = {}
    /\ UNCHANGED <<attempt, expected, workVars, brokerVars, accepting, stops, envVars>>

(* conn.shutdown takes the gate for mt5.shutdown.                           *)
CloseSession ==
    /\ phase = "closing"
    /\ gate = NoCall
    /\ session' = FALSE
    /\ phase' = "stopped"
    /\ UNCHANGED <<inflight, tracked, callVars, workVars, brokerVars, accepting,
                   draining, stops, abandoned, terminal, faults, dryRun>>

(* start(): resume() comes first and stays in force if initialize fails.    *)
Start ==
    /\ phase = "stopped"
    /\ accepting' = TRUE
    /\ phase' = "starting"
    /\ UNCHANGED <<inflight, tracked, callVars, workVars, brokerVars, draining,
                   stops, abandoned, envVars>>

Initialize ==
    /\ phase = "starting"
    /\ gate = NoCall
    /\ phase' = "running"
    /\ session' = TRUE
    /\ UNCHANGED <<inflight, tracked, callVars, workVars, brokerVars, accepting,
                   draining, stops, abandoned, terminal, faults, dryRun>>

InitializeFails ==
    /\ phase = "starting"
    /\ gate = NoCall
    /\ phase' = "stopped"
    /\ session' = FALSE
    /\ UNCHANGED <<inflight, tracked, callVars, workVars, brokerVars, accepting,
                   draining, stops, abandoned, terminal, faults, dryRun>>

-----------------------------------------------------------------------------
(* The terminal and the broker.                                             *)

SwitchAccount(a) ==
    /\ faults < MaxFaults
    /\ terminal # a
    /\ terminal' = a
    /\ faults' = faults + 1
    /\ raced' = [c \in Calls |-> raced[c] \/ worker[c] \in {"cleared", "sent"}]
    /\ UNCHANGED <<inflight, tracked, callVars, workVars, effects, applied, landed,
                   vanished, lifeVars, session, dryRun>>

LoseLink ==
    /\ faults < MaxFaults
    /\ session
    /\ session' = FALSE
    /\ faults' = faults + 1
    /\ UNCHANGED <<inflight, tracked, callVars, workVars, brokerVars, lifeVars,
                   terminal, dryRun>>

(* The position an order touched is closed by its stop or in the terminal.  *)
Vanish(c) ==
    /\ faults < MaxFaults
    /\ worker[c] = "sent"
    /\ applied[c] # "none"
    /\ ~vanished[c]
    /\ vanished' = [vanished EXCEPT ![c] = TRUE]
    /\ faults' = faults + 1
    /\ UNCHANGED <<inflight, tracked, callVars, workVars, effects, applied, landed,
                   raced, lifeVars, session, terminal, dryRun>>

-----------------------------------------------------------------------------
CallerStep(c) ==
    \/ Refuse(c) \/ Accept(c) \/ FindConnected(c) \/ Reconnect(c)
    \/ ReconnectFails(c) \/ Resume(c) \/ Retry(c) \/ GiveUp(c)

WorkerStep(c) ==
    \/ Enter(c) \/ Reject(c) \/ Skip(c) \/ Prepare(c) \/ Recheck(c) \/ Send(c)
    \/ Reconcile(c)

EngineStep ==
    \/ Stop \/ BeginDrain \/ Drained \/ DrainTimesOut \/ CloseSession
    \/ Start \/ Initialize \/ InitializeFails

Environment ==
    \/ \E a \in Accounts : SwitchAccount(a)
    \/ LoseLink
    \/ \E c \in Calls : Vanish(c)

Next ==
    \/ \E c \in Calls : CallerStep(c) \/ WorkerStep(c)
    \/ EngineStep
    \/ Environment

Spec == Init /\ [][Next]_vars

(* The event loop resumes every coroutine whose await is over and the pool  *)
(* runs every worker; operators, faults and stop() owe nothing.             *)
Fairness ==
    /\ \A c \in Calls :
         /\ WF_vars(FindConnected(c) \/ Reconnect(c) \/ ReconnectFails(c)
                      \/ Resume(c) \/ Retry(c) \/ GiveUp(c))
         /\ WF_vars(WorkerStep(c))
    /\ WF_vars(BeginDrain \/ Drained \/ CloseSession)

LiveSpec == Spec /\ Fairness

-----------------------------------------------------------------------------
CallsTyped ==
    /\ inflight \in SUBSET Keys
    /\ tracked \in SUBSET Calls
    /\ pc \in [Calls -> CallStates]
    /\ attempt \in [Calls -> 0..MaxRetries]
    /\ expected \in [Calls -> Accounts \cup {NoAccount}]

WorkTyped ==
    /\ worker \in [Calls -> WorkerStates]
    /\ reply \in [Calls -> Replies]
    /\ result \in [Calls -> Results]
    /\ gate \in Calls \cup {NoCall}

BrokerTyped ==
    /\ effects \in [Calls -> Nat]
    /\ applied \in [Calls -> {"none", "part", "full"}]
    /\ landed \in [Calls -> SUBSET Accounts]
    /\ raced \in [Calls -> BOOLEAN]
    /\ vanished \in [Calls -> BOOLEAN]

EngineTyped ==
    /\ accepting \in BOOLEAN
    /\ phase \in {"running", "stopping", "draining", "closing", "stopped", "starting"}
    /\ draining \in SUBSET Calls
    /\ stops \in 0..MaxStops
    /\ abandoned \in BOOLEAN
    /\ session \in BOOLEAN
    /\ terminal \in Accounts
    /\ dryRun \in BOOLEAN
    /\ faults \in 0..MaxFaults

TypeOK == CallsTyped /\ WorkTyped /\ BrokerTyped /\ EngineTyped

(* Retries never repeat a request that reached the broker: whatever is     *)
(* lost, requoted, cancelled or reconnected, one call of the executor      *)
(* changes the broker at most once.                                        *)
AtMostOneEffect == \A c \in Calls : effects[c] <= 1

(* Identity is revalidated before every mutation: an order lands on the    *)
(* account its caller expected, if it named one, unless the terminal       *)
(* changed account in the window between the last check and the end of the *)
(* transaction.                                                            *)
LandsOnExpectedAccount ==
    \A c \in Calls :
        expected[c] # NoAccount /\ ~raced[c] => landed[c] \subseteq {expected[c]}

(* A success that reports a change is a change the broker made, exactly    *)
(* once and in full, or flagged as a partial fill, or overtaken by the     *)
(* position's own close (with the same exception for a racing switch).     *)
SuccessIsVerified ==
    \A c \in Calls :
        /\ worker[c] = "finished"
        /\ result[c].success
        /\ result[c].changed
        /\ ~raced[c]
        => /\ effects[c] = 1
           /\ \/ applied[c] = "full"
              \/ applied[c] = "part" /\ result[c].partial /\ KindOf[c] = "open"
              \/ vanished[c]

(* Two native transactions that could submit the same symbol and direction *)
(* or the same ticket are never alive together.                            *)
DistinctLiveKeys ==
    \A c, d \in Calls : c # d /\ Live(c) /\ Live(d) => KeyOf[c] # KeyOf[d]

(* The same while no drain has been abandoned: cancellation releases a key *)
(* early, but accepting stays false until the worker has drained.          *)
DedupUntilAbandoned == ~abandoned => DistinctLiveKeys

(* Every dedup key in the set is that of exactly one running call: none is  *)
(* leaked by a cancellation, and none is dropped that another call holds,  *)
(* although a cancelled call's key is released while its worker runs on.   *)
KeysHaveOneHolder ==
    \A k \in inflight : \E c \in Calls :
        /\ Running(c) /\ KeyOf[c] = k
        /\ \A d \in Calls : Running(d) /\ KeyOf[d] = k => d = c

(* The native gate admits one transaction with the terminal at a time,     *)
(* whoever cancelled, abandoned or restarted around it.                    *)
OneTransactionAtATime ==
    \A c, d \in Calls : worker[c] \in Native /\ worker[d] \in Native => c = d

(* Once stop() has drained the executor and closed the session, none of the *)
(* engine's own calls is left to mutate the broker until resume().  (A REST *)
(* handler's call that still awaits the connection or sleeps between two    *)
(* attempts is left: nothing cancels it.)                                   *)
QuietAfterStop ==
    phase = "stopped" /\ ~accepting /\ ~abandoned =>
        \A c \in Calls \ OperatorCalls : ~Live(c) /\ ~Running(c)

(* An order the broker applied is reported as a change of broker state by  *)
(* the attempt that sent it.                                               *)
ChangeIsReported ==
    \A c \in Calls :
        worker[c] = "finished" /\ effects[c] > 0 => result[c].changed

(* The executor implements the promise it makes to its callers.            *)
Stage(c) ==
    CASE pc[c] = "new" -> "idle"
      [] Running(c) -> "taken"
      [] pc[c] = "cancelled" -> "orphaned"
      [] OTHER -> "over"

Promise == INSTANCE MutationPromise WITH
    stage <- [c \in Calls |-> Stage(c)],
    made <- {c \in Calls : effects[c] > 0},
    told <- {c \in Calls : pc[c] = "returned" /\ result[c].success /\ result[c].changed}

KeepsPromise == Promise!Spec

(* Every call is an order under the guard: all of a call's attempts before  *)
(* the last check are one place, and what is outside expects nothing.      *)
GuardPlace(c) ==
    CASE worker[c] \in {"queued", "entered", "prepared"} -> "submitted"
      [] worker[c] \in {"cleared", "sent"} -> worker[c]
      [] OTHER -> "outside"

Guard == INSTANCE OrderGuard WITH
    Orders <- Calls,
    place <- [c \in Calls |-> GuardPlace(c)],
    expected <- [c \in Calls |-> IF GuardPlace(c) = "outside" THEN NoAccount ELSE expected[c]]

OrdersAreGuarded == Guard!Spec

(* No dedup key is held for ever: every accepted call returns or unwinds.  *)
KeysAreReleased == \A k \in Keys : k \in inflight ~> k \notin inflight

(* stop() finishes.                                                        *)
StopCompletes == phase = "stopping" ~> phase = "stopped"
=============================================================================
