--------------------------- MODULE Executor_proofs ---------------------------
(***************************************************************************)
(* What is proved of the executor for any set of calls, keys and accounts, *)
(* any number of retries, faults and stops, and every interleaving.        *)
(***************************************************************************)
EXTENDS Executor, TLAPS

USE ExecutorAssumption

(***************************************************************************)
(* Type correctness.  The retry counter is bounded because a call that has *)
(* not reached its first worker has not counted an attempt.                *)
(***************************************************************************)
FreshCalls == \A c \in Calls : pc[c] \in {"new", "connecting"} => attempt[c] = 0

Typed == TypeOK /\ FreshCalls

LEMMA TypedInit == Init => Typed
<1> SUFFICES ASSUME Init PROVE Typed
    OBVIOUS
<1> USE DEF Init
<1>1. CallsTyped
  BY DEF CallsTyped, CallStates
<1>2. WorkTyped
  BY DEF WorkTyped, WorkerStates, Native, Replies, Results, Failed
<1>3. BrokerTyped
  BY DEF BrokerTyped
<1>4. EngineTyped
  <2>1. 0 \in 0..MaxStops /\ 0 \in 0..MaxFaults
    OBVIOUS
  <2>2. QED
    BY <2>1 DEF EngineTyped
<1>5. FreshCalls
  BY DEF FreshCalls
<1>6. QED
  BY <1>1, <1>2, <1>3, <1>4, <1>5 DEF Typed, TypeOK

LEMMA CallsStep == Typed /\ Next => CallsTyped'
<1> SUFFICES ASSUME Typed, Next PROVE CallsTyped'
    OBVIOUS
<1>0. CallsTyped /\ FreshCalls /\ terminal \in Accounts /\ draining \in SUBSET Calls
  BY DEF Typed, TypeOK, EngineTyped
<1> USE <1>0 DEF CallsTyped, CallStates, callVars
<1>1. ASSUME NEW c \in Calls, CallerStep(c) PROVE CallsTyped'
  <2>1. CASE Refuse(c)
    BY <2>1 DEF Refuse
  <2>2. CASE Accept(c)
    BY <2>2 DEF Accept
  <2>3. CASE FindConnected(c) \/ Reconnect(c) \/ Retry(c)
    BY <2>3 DEF FindConnected, Reconnect, Retry, Spawn, FreshCalls
  <2>4. CASE ReconnectFails(c) \/ Resume(c) \/ GiveUp(c)
    BY <2>4 DEF ReconnectFails, Resume, GiveUp, Return
  <2>5. QED
    BY <1>1, <2>1, <2>2, <2>3, <2>4 DEF CallerStep
<1>2. ASSUME NEW c \in Calls, WorkerStep(c) PROVE CallsTyped'
  BY <1>2 DEF WorkerStep, Enter, Reject, Skip, Prepare, Recheck, Send, Reconcile, Finish
<1>3. CASE EngineStep
  BY <1>3 DEF EngineStep, Stop, BeginDrain, Drained, DrainTimesOut, CloseSession, Start,
              Initialize, InitializeFails, Cancel, Cancellable
<1>4. CASE Environment
  BY <1>4 DEF Environment, SwitchAccount, LoseLink, Vanish
<1>5. QED
  BY <1>1, <1>2, <1>3, <1>4 DEF Next

LEMMA WorkStep == Typed /\ Next => WorkTyped'
<1> SUFFICES ASSUME Typed, Next PROVE WorkTyped'
    OBVIOUS
<1>0. WorkTyped
  BY DEF Typed, TypeOK
<1> USE <1>0 DEF WorkTyped, WorkerStates, Native, workVars
<1>1. ASSUME NEW c \in Calls, CallerStep(c) PROVE WorkTyped'
  BY <1>1 DEF CallerStep, Refuse, Accept, FindConnected, Reconnect, ReconnectFails, Resume,
              Retry, GiveUp, Spawn
<1>2. ASSUME NEW c \in Calls, WorkerStep(c) PROVE WorkTyped'
  <2>1. CASE Enter(c) \/ Prepare(c)
    BY <2>1 DEF Enter, Prepare
  <2>2. CASE Reject(c)
    BY <2>2 DEF Reject, Finish, Failed, Replies, Results
  <2>3. CASE Skip(c)
    BY <2>3 DEF Skip, Finish, Unneeded, Replies, Results
  <2>4. CASE Recheck(c)
    <3>1. CASE IdentityMatches(c)
      BY <2>4, <3>1 DEF Recheck
    <3>2. CASE ~IdentityMatches(c)
      <4>1. Failed \in Results /\ "none" \in Replies /\ "finished" \in WorkerStates
        BY DEF Failed, Results, Replies
      <4>2. Finish(c, Failed) /\ reply' = [reply EXCEPT ![c] = "none"]
        BY <2>4, <3>2 DEF Recheck
      <4>3. QED
        BY <4>1, <4>2 DEF Finish
    <3>3. QED
      BY <3>1, <3>2
  <2>5. CASE Send(c)
    BY <2>5 DEF Send, BrokerOutcomes, Replies
  <2>6. CASE Reconcile(c)
    <3>1. PICK outcome \in Results : Finish(c, outcome)
      <4>1. CASE Completed(reply[c])
        <5>1. PICK seen \in Observations(c) : Finish(c, Verdict(KindOf[c], seen, reply[c]))
          BY <2>6, <4>1 DEF Reconcile
        <5>2. Verdict(KindOf[c], seen, reply[c]) \in Results
          BY DEF Verdict, Results
        <5>3. QED
          BY <5>1, <5>2
      <4>2. CASE ~Completed(reply[c])
        <5>1. Failed \in Results
          BY DEF Failed, Results
        <5>2. QED
          BY <2>6, <4>2, <5>1 DEF Reconcile
      <4>3. QED
        BY <4>1, <4>2
    <3>2. QED
      BY <2>6, <3>1 DEF Reconcile, Finish
  <2>7. QED
    BY <1>2, <2>1, <2>2, <2>3, <2>4, <2>5, <2>6 DEF WorkerStep
<1>3. CASE EngineStep
  BY <1>3 DEF EngineStep, Stop, BeginDrain, Drained, DrainTimesOut, CloseSession, Start,
              Initialize, InitializeFails
<1>4. CASE Environment
  BY <1>4 DEF Environment, SwitchAccount, LoseLink, Vanish
<1>5. QED
  BY <1>1, <1>2, <1>3, <1>4 DEF Next

LEMMA BrokerStep == Typed /\ Next => BrokerTyped'
<1> SUFFICES ASSUME Typed, Next PROVE BrokerTyped'
    OBVIOUS
<1>0. BrokerTyped /\ terminal \in Accounts
  BY DEF Typed, TypeOK, EngineTyped
<1> USE <1>0 DEF BrokerTyped, brokerVars
<1>1. ASSUME NEW c \in Calls, CallerStep(c) PROVE BrokerTyped'
  BY <1>1 DEF CallerStep, Refuse, Accept, FindConnected, Reconnect, ReconnectFails, Resume,
              Retry, GiveUp
<1>2. ASSUME NEW c \in Calls, WorkerStep(c) PROVE BrokerTyped'
  <2>1. CASE Send(c)
    BY <2>1 DEF Send, BrokerOutcomes
  <2>2. CASE ~Send(c)
    BY <1>2, <2>2 DEF WorkerStep, Enter, Reject, Skip, Prepare, Recheck, Reconcile
  <2>3. QED
    BY <2>1, <2>2
<1>3. CASE EngineStep
  BY <1>3 DEF EngineStep, Stop, BeginDrain, Drained, DrainTimesOut, CloseSession, Start,
              Initialize, InitializeFails
<1>4. CASE Environment
  BY <1>4 DEF Environment, SwitchAccount, LoseLink, Vanish
<1>5. QED
  BY <1>1, <1>2, <1>3, <1>4 DEF Next

LEMMA EngineTypedStep == Typed /\ Next => EngineTyped'
<1> SUFFICES ASSUME Typed, Next PROVE EngineTyped'
    OBVIOUS
<1>0. EngineTyped /\ tracked \in SUBSET Calls
  BY DEF Typed, TypeOK, CallsTyped
<1> USE <1>0 DEF EngineTyped, lifeVars, envVars
<1>1. ASSUME NEW c \in Calls, CallerStep(c) PROVE EngineTyped'
  BY <1>1 DEF CallerStep, Refuse, Accept, FindConnected, Reconnect, ReconnectFails, Resume,
              Retry, GiveUp
<1>2. ASSUME NEW c \in Calls, WorkerStep(c) PROVE EngineTyped'
  BY <1>2 DEF WorkerStep, Enter, Reject, Skip, Prepare, Recheck, Send, Reconcile
<1>3. CASE EngineStep
  <2>1. CASE Stop
    <3>1. stops' \in 0..MaxStops
      BY <2>1 DEF Stop
    <3>2. phase' = "stopping" /\ accepting' = FALSE /\ UNCHANGED <<draining, abandoned, envVars>>
      BY <2>1 DEF Stop
    <3>3. QED
      BY <3>1, <3>2
  <2>2. CASE BeginDrain \/ Drained
    BY <2>2 DEF BeginDrain, Drained
  <2>5. CASE DrainTimesOut
    BY <2>5 DEF DrainTimesOut
  <2>3. CASE CloseSession \/ Start \/ Initialize \/ InitializeFails
    BY <2>3 DEF CloseSession, Start, Initialize, InitializeFails
  <2>4. QED
    BY <1>3, <2>1, <2>2, <2>3, <2>5 DEF EngineStep
<1>4. CASE Environment
  <2>1. CASE \E a \in Accounts : SwitchAccount(a)
    <3>1. faults < MaxFaults /\ faults' = faults + 1 /\ terminal' \in Accounts
          /\ UNCHANGED <<lifeVars, session, dryRun>>
      BY <2>1 DEF SwitchAccount
    <3>2. QED
      BY <3>1
  <2>2. CASE LoseLink
    <3>1. faults' \in 0..MaxFaults
      BY <2>2 DEF LoseLink
    <3>2. session' = FALSE /\ UNCHANGED <<lifeVars, terminal, dryRun>>
      BY <2>2 DEF LoseLink
    <3>3. QED
      BY <3>1, <3>2
  <2>3. CASE \E c \in Calls : Vanish(c)
    <3>1. faults < MaxFaults /\ faults' = faults + 1 /\ UNCHANGED <<lifeVars, session, terminal, dryRun>>
      BY <2>3 DEF Vanish
    <3>2. QED
      BY <3>1
  <2>4. QED
    BY <1>4, <2>1, <2>2, <2>3 DEF Environment
<1>5. QED
  BY <1>1, <1>2, <1>3, <1>4 DEF Next

LEMMA FreshStep == Typed /\ Next => FreshCalls'
<1> SUFFICES ASSUME Typed, Next PROVE FreshCalls'
    OBVIOUS
<1>0. FreshCalls /\ pc \in [Calls -> CallStates] /\ attempt \in [Calls -> 0..MaxRetries]
  BY DEF Typed, TypeOK, CallsTyped
<1> USE <1>0 DEF FreshCalls, callVars
<1>1. ASSUME NEW c \in Calls, CallerStep(c) PROVE FreshCalls'
  BY <1>1 DEF CallerStep, Refuse, Accept, FindConnected, Reconnect, ReconnectFails, Resume,
              Retry, GiveUp, Spawn, Return
<1>2. ASSUME NEW c \in Calls, WorkerStep(c) PROVE FreshCalls'
  BY <1>2 DEF WorkerStep, Enter, Reject, Skip, Prepare, Recheck, Send, Reconcile
<1>3. CASE EngineStep
  BY <1>3 DEF EngineStep, Stop, BeginDrain, Drained, DrainTimesOut, CloseSession, Start,
              Initialize, InitializeFails, Cancel, Cancellable
<1>4. CASE Environment
  BY <1>4 DEF Environment, SwitchAccount, LoseLink, Vanish
<1>5. QED
  BY <1>1, <1>2, <1>3, <1>4 DEF Next

LEMMA TypedStep == Typed /\ [Next]_vars => Typed'
<1> SUFFICES ASSUME Typed, [Next]_vars PROVE Typed'
    OBVIOUS
<1>1. CASE Next
  BY <1>1, CallsStep, WorkStep, BrokerStep, EngineTypedStep, FreshStep DEF Typed, TypeOK
<1>2. CASE UNCHANGED vars
  BY <1>2 DEF Typed, TypeOK, CallsTyped, WorkTyped, BrokerTyped, EngineTyped, FreshCalls,
              vars, callVars, workVars, brokerVars, lifeVars, envVars
<1>3. QED
  BY <1>1, <1>2

(* Type correctness of the executor.                                       *)
THEOREM TypeCorrect == Spec => []TypeOK
<1>1. Typed => TypeOK
  BY DEF Typed
<1>2. QED
  BY TypedInit, TypedStep, <1>1, PTL DEF Spec

(***************************************************************************)
(* One call changes the broker at most once.  A request has had no effect  *)
(* as long as its worker has not sent it; the loop sleeps and sends again  *)
(* only after a reply that is retryable, and the broker applies nothing    *)
(* when it answers with such a reply.                                      *)
(***************************************************************************)
EffectOf(c) ==
    /\ pc[c] \in {"new", "connecting"} => worker[c] = "none"
    /\ pc[c] = "backoff" => worker[c] = "finished" /\ Retryable(reply[c])
    /\ worker[c] \in {"none", "queued", "entered", "prepared", "cleared"} => effects[c] = 0
    /\ worker[c] \in {"sent", "finished"} =>
          effects[c] \in {0, 1} /\ (Retryable(reply[c]) => effects[c] = 0)

EffectInv == \A c \in Calls : EffectOf(c)

LEMMA EffectInit == Init => EffectInv
BY DEF Init, EffectInv, EffectOf

LEMMA EffectStep == TypeOK /\ EffectInv /\ Next => EffectInv'
<1> SUFFICES ASSUME TypeOK, EffectInv, Next, NEW d \in Calls PROVE EffectOf(d)'
    BY DEF EffectInv
<1>0. /\ EffectOf(d)
      /\ pc \in [Calls -> CallStates]
      /\ worker \in [Calls -> WorkerStates]
      /\ reply \in [Calls -> Replies]
      /\ effects \in [Calls -> Nat]
  BY DEF TypeOK, CallsTyped, WorkTyped, BrokerTyped, EffectInv
<1> USE <1>0 DEF EffectOf, Retryable
<1>1. ASSUME NEW c \in Calls, CallerStep(c) PROVE EffectOf(d)'
  <2> USE DEF brokerVars
  <2>1. CASE Refuse(c) \/ Accept(c)
    BY <2>1 DEF Refuse, Accept, workVars
  <2>2. CASE FindConnected(c) \/ Reconnect(c) \/ Retry(c)
    BY <2>2 DEF FindConnected, Reconnect, Retry, Spawn
  <2>3. CASE ReconnectFails(c) \/ Resume(c) \/ GiveUp(c)
    BY <2>3 DEF ReconnectFails, Resume, GiveUp, Return, workVars
  <2>4. QED
    BY <1>1, <2>1, <2>2, <2>3 DEF CallerStep
<1>2. ASSUME NEW c \in Calls, WorkerStep(c) PROVE EffectOf(d)'
  <2> USE DEF callVars, brokerVars
  <2>1. CASE Enter(c)
    BY <2>1 DEF Enter
  <2>2. CASE Reject(c) \/ Skip(c)
    BY <2>2 DEF Reject, Skip, Finish
  <2>3. CASE Prepare(c)
    BY <2>3 DEF Prepare
  <2>4. CASE Recheck(c)
    BY <2>4 DEF Recheck, Finish
  <2>5. CASE Send(c)
    BY <2>5 DEF Send, BrokerOutcomes
  <2>6. CASE Reconcile(c)
    BY <2>6 DEF Reconcile, Finish
  <2>7. QED
    BY <1>2, <2>1, <2>2, <2>3, <2>4, <2>5, <2>6 DEF WorkerStep
<1>3. CASE EngineStep
  <2>1. UNCHANGED <<worker, reply, effects>> /\ pc'[d] \in {pc[d], "cancelled"}
    BY <1>3 DEF EngineStep, Stop, BeginDrain, Drained, DrainTimesOut, CloseSession, Start,
                Initialize, InitializeFails, Cancel, callVars, workVars, brokerVars
  <2>2. QED
    BY <2>1
<1>4. CASE Environment
  BY <1>4 DEF Environment, SwitchAccount, LoseLink, Vanish, callVars, workVars, brokerVars
<1>5. QED
  BY <1>1, <1>2, <1>3, <1>4 DEF Next

(* A call changes the broker at most once, whatever is retried, lost,      *)
(* cancelled or reconnected.                                               *)
THEOREM NoRepeatedEffect == Spec => []AtMostOneEffect
<1>1. TypeOK /\ EffectInv /\ [Next]_vars => EffectInv'
  <2>1. EffectInv /\ UNCHANGED vars => EffectInv'
    BY DEF EffectInv, EffectOf, vars, callVars, workVars, brokerVars
  <2>2. QED
    BY <2>1, EffectStep
<1>2. TypeOK /\ EffectInv => AtMostOneEffect
  BY DEF TypeOK, WorkTyped, WorkerStates, Native, EffectInv, EffectOf, AtMostOneEffect
<1>3. QED
  BY TypeCorrect, EffectInit, <1>1, <1>2, PTL DEF Spec

(***************************************************************************)
(* An order lands on the account its caller expects.  Between the last     *)
(* identity check and the end of the transaction only a switch of the      *)
(* terminal, which the ghost raced records, separates the two.             *)
(***************************************************************************)
AccountOf(c) ==
    /\ pc[c] = "new" => worker[c] = "none"
    /\ worker[c] = "none" => landed[c] = {}
    /\ expected[c] # NoAccount /\ worker[c] = "cleared" /\ ~raced[c] => terminal = expected[c]
    /\ expected[c] # NoAccount /\ ~raced[c] => landed[c] \subseteq {expected[c]}

AccountInv == \A c \in Calls : AccountOf(c)

LEMMA AccountInit == Init => AccountInv
BY DEF Init, AccountInv, AccountOf

LEMMA AccountStep == TypeOK /\ EffectInv /\ AccountInv /\ Next => AccountInv'
<1> SUFFICES ASSUME TypeOK, EffectInv, AccountInv, Next, NEW d \in Calls PROVE AccountOf(d)'
    BY DEF AccountInv
<1>0. /\ AccountOf(d)
      /\ pc \in [Calls -> CallStates]
      /\ expected \in [Calls -> Accounts \cup {NoAccount}]
      /\ worker \in [Calls -> WorkerStates]
      /\ landed \in [Calls -> SUBSET Accounts]
      /\ raced \in [Calls -> BOOLEAN]
      /\ pc[d] = "connecting" => worker[d] = "none"
  BY DEF TypeOK, CallsTyped, WorkTyped, BrokerTyped, AccountInv, EffectInv, EffectOf
<1> USE <1>0 DEF AccountOf
<1>1. ASSUME NEW c \in Calls, CallerStep(c) PROVE AccountOf(d)'
  <2> USE DEF brokerVars, envVars
  <2>1. CASE Refuse(c) \/ Accept(c)
    BY <2>1 DEF Refuse, Accept, workVars
  <2>2. CASE FindConnected(c) \/ Reconnect(c) \/ Retry(c)
    BY <2>2 DEF FindConnected, Reconnect, Retry, Spawn
  <2>3. CASE ReconnectFails(c) \/ Resume(c) \/ GiveUp(c)
    BY <2>3 DEF ReconnectFails, Resume, GiveUp, Return, workVars
  <2>4. QED
    BY <1>1, <2>1, <2>2, <2>3 DEF CallerStep
<1>2. ASSUME NEW c \in Calls, WorkerStep(c) PROVE AccountOf(d)'
  <2> USE DEF callVars, brokerVars, envVars
  <2>1. CASE Enter(c) \/ Prepare(c)
    BY <2>1 DEF Enter, Prepare
  <2>2. CASE Reject(c) \/ Skip(c) \/ Reconcile(c)
    BY <2>2 DEF Reject, Skip, Reconcile, Finish
  <2>3. CASE Recheck(c)
    BY <2>3 DEF Recheck, Finish, IdentityMatches
  <2>4. CASE Send(c)
    BY <2>4 DEF Send, BrokerOutcomes
  <2>5. QED
    BY <1>2, <2>1, <2>2, <2>3, <2>4 DEF WorkerStep
<1>3. CASE EngineStep
  <2>1. UNCHANGED <<worker, expected, landed, raced, terminal>> /\ pc'[d] \in {pc[d], "cancelled"}
    BY <1>3 DEF EngineStep, Stop, BeginDrain, Drained, DrainTimesOut, CloseSession, Start,
                Initialize, InitializeFails, Cancel, callVars, workVars, brokerVars, envVars
  <2>2. QED
    BY <2>1
<1>4. CASE Environment
  BY <1>4 DEF Environment, SwitchAccount, LoseLink, Vanish, callVars, workVars, brokerVars
<1>5. QED
  BY <1>1, <1>2, <1>3, <1>4 DEF Next

(* An order lands on the account its caller expected, unless the terminal  *)
(* changed account after the last identity check.                          *)
THEOREM OrdersKeepTheirAccount == Spec => []LandsOnExpectedAccount
<1>1. TypeOK /\ EffectInv /\ AccountInv /\ [Next]_vars => EffectInv' /\ AccountInv'
  <2>1. EffectInv /\ AccountInv /\ UNCHANGED vars => EffectInv' /\ AccountInv'
    BY DEF EffectInv, EffectOf, AccountInv, AccountOf, vars, callVars, workVars, brokerVars,
           envVars
  <2>2. QED
    BY <2>1, EffectStep, AccountStep
<1>2. AccountInv => LandsOnExpectedAccount
  BY DEF AccountInv, AccountOf, LandsOnExpectedAccount
<1>3. QED
  BY TypeCorrect, EffectInit, AccountInit, <1>1, <1>2, PTL DEF Spec

(***************************************************************************)
(* Two native transactions of one key are never alive together.            *)
(* Cancelling a caller releases its key while its worker runs on, but      *)
(* nothing is accepted until the drain has seen that worker end.           *)
(***************************************************************************)
Busy(c) == Running(c) \/ Live(c)

(* A running call holds its key; a worker that has lost its caller is      *)
(* tracked by a stop in progress.                                          *)
KeyOfCall(c) ==
    /\ pc[c] \in {"new", "connecting"} => worker[c] = "none"
    /\ pc[c] = "backoff" => worker[c] = "finished"
    /\ Running(c) => KeyOf[c] \in inflight
    /\ Live(c) /\ ~abandoned => c \in tracked
    /\ Live(c) /\ ~abandoned /\ ~Running(c) =>
          /\ ~accepting
          /\ phase \in {"stopping", "draining"}
          /\ phase = "draining" => c \in draining

KeysApart(c, d) ==
    /\ Running(c) /\ Running(d) => KeyOf[c] # KeyOf[d]
    /\ ~abandoned /\ Busy(c) /\ Busy(d) => KeyOf[c] # KeyOf[d]

KeyInv ==
    /\ \A c \in Calls : KeyOfCall(c)
    /\ \A c, d \in Calls : c # d => KeysApart(c, d)

LEMMA KeyInit == Init => KeyInv
BY DEF Init, KeyInv, KeyOfCall, KeysApart, Busy, Running, Live, Native

LEMMA KeyStep == TypeOK /\ KeyInv /\ Next => KeyInv'
<1> SUFFICES ASSUME TypeOK, KeyInv, Next PROVE KeyInv'
    OBVIOUS
<1>0. /\ pc \in [Calls -> CallStates]
      /\ worker \in [Calls -> WorkerStates]
      /\ accepting \in BOOLEAN
      /\ abandoned \in BOOLEAN
  BY DEF TypeOK, CallsTyped, WorkTyped, EngineTyped
<1> USE <1>0 DEF KeyInv, KeyOfCall, KeysApart, Busy, Running, Live, Native
<1>1. ASSUME NEW c \in Calls, CallerStep(c) PROVE KeyInv'
  <2> USE DEF lifeVars
  <2>1. CASE Refuse(c)
    BY <2>1 DEF Refuse, workVars
  <2>2. CASE Accept(c)
    BY <2>2 DEF Accept, workVars
  <2>3. CASE FindConnected(c) \/ Reconnect(c) \/ Retry(c)
    BY <2>3 DEF FindConnected, Reconnect, Retry, Spawn
  <2>4. CASE ReconnectFails(c) \/ GiveUp(c)
    BY <2>4 DEF ReconnectFails, GiveUp, Return, workVars
  <2>5. CASE Resume(c)
    BY <2>5 DEF Resume, Return, workVars
  <2>6. QED
    BY <1>1, <2>1, <2>2, <2>3, <2>4, <2>5 DEF CallerStep
<1>2. ASSUME NEW c \in Calls, WorkerStep(c) PROVE KeyInv'
  <2>1. UNCHANGED <<inflight, pc, accepting, phase, draining, abandoned>>
    BY <1>2 DEF WorkerStep, Enter, Reject, Skip, Prepare, Recheck, Send, Reconcile, callVars,
                lifeVars
  <2>2. \E w \in Native \cup {"finished"} :
           /\ worker' = [worker EXCEPT ![c] = w]
           /\ tracked' = IF w = "finished" THEN tracked \ {c} ELSE tracked
    BY <1>2 DEF WorkerStep, Enter, Reject, Skip, Prepare, Recheck, Send, Reconcile, Finish
  <2>3. Live(c)
    BY <1>2 DEF WorkerStep, Enter, Reject, Skip, Prepare, Recheck, Send, Reconcile
  <2>4. QED
    BY <2>1, <2>2, <2>3
<1>3. CASE EngineStep
  <2>1. CASE Stop
    BY <2>1 DEF Stop, Cancel, Cancellable, workVars
  <2>2. CASE BeginDrain
    BY <2>2 DEF BeginDrain, callVars, workVars
  <2>3. CASE Drained
    BY <2>3 DEF Drained, callVars, workVars
  <2>4. CASE DrainTimesOut
    <3> DEFINE lost == {c \in draining \cap tracked : pc[c] = "awaiting"}
    <3>1. /\ abandoned' = TRUE
          /\ UNCHANGED worker
          /\ pc' = [c \in Calls |-> IF c \in lost THEN "cancelled" ELSE pc[c]]
          /\ inflight' = inflight \ {KeyOf[c] : c \in lost}
      BY <2>4 DEF DrainTimesOut, Cancel, workVars
    <3>2. \A c \in lost : c \in Calls /\ Running(c)
      BY DEF TypeOK, EngineTyped
    <3> HIDE DEF lost
    <3>3. ASSUME NEW c \in Calls PROVE KeyOfCall(c)'
      <4>1. CASE c \in lost
        BY <3>1, <4>1
      <4>2. CASE c \notin lost
        BY <3>1, <3>2, <4>2
      <4>3. QED
        BY <4>1, <4>2
    <3>4. ASSUME NEW c \in Calls, NEW d \in Calls, c # d PROVE KeysApart(c, d)'
      BY <3>1, <3>4
    <3>5. QED
      BY <3>3, <3>4
  <2>5. CASE CloseSession
    BY <2>5 DEF CloseSession, callVars, workVars
  <2>6. CASE Start
    BY <2>6 DEF Start, callVars, workVars
  <2>7. CASE Initialize \/ InitializeFails
    BY <2>7 DEF Initialize, InitializeFails, callVars, workVars
  <2>8. QED
    BY <1>3, <2>1, <2>2, <2>3, <2>4, <2>5, <2>6, <2>7 DEF EngineStep
<1>4. CASE Environment
  BY <1>4 DEF Environment, SwitchAccount, LoseLink, Vanish, callVars, workVars, lifeVars
<1>5. QED
  BY <1>1, <1>2, <1>3, <1>4 DEF Next

(* As long as no drain was given up, no two native transactions of one key *)
(* are alive together.                                                     *)
THEOREM DedupHolds == Spec => []DedupUntilAbandoned
<1>1. TypeOK /\ KeyInv /\ [Next]_vars => KeyInv'
  <2>1. KeyInv /\ UNCHANGED vars => KeyInv'
    BY DEF KeyInv, KeyOfCall, KeysApart, Busy, Running, Live, vars, callVars, workVars,
           lifeVars
  <2>2. QED
    BY <2>1, KeyStep
<1>2. KeyInv => DedupUntilAbandoned
  BY DEF KeyInv, KeysApart, Busy, DedupUntilAbandoned, DistinctLiveKeys
<1>3. QED
  BY TypeCorrect, KeyInit, <1>1, <1>2, PTL DEF Spec

(* If wait_until_idle never gives up on a worker, there is no exception:   *)
(* whatever is cancelled, retried, stopped and started again, transactions *)
(* alive together have different keys.                                     *)
THEOREM DedupHoldsWithoutTimeouts ==
    ASSUME ~DrainMayTimeOut
    PROVE  Spec => []DistinctLiveKeys
<1>1. Init => ~abandoned
  BY DEF Init
<1>2. ~abandoned /\ [Next]_vars => ~abandoned'
  <2> SUFFICES ASSUME ~abandoned, [Next]_vars PROVE ~abandoned'
      OBVIOUS
  <2> USE DEF lifeVars
  <2>1. ASSUME NEW c \in Calls, CallerStep(c) \/ WorkerStep(c) PROVE UNCHANGED abandoned
    BY <2>1 DEF CallerStep, Refuse, Accept, FindConnected, Reconnect, ReconnectFails, Resume,
                Retry, GiveUp, WorkerStep, Enter, Reject, Skip, Prepare, Recheck, Send,
                Reconcile
  <2>2. CASE EngineStep
    BY <2>2 DEF EngineStep, Stop, BeginDrain, Drained, DrainTimesOut, CloseSession, Start,
                Initialize, InitializeFails
  <2>3. CASE Environment
    BY <2>3 DEF Environment, SwitchAccount, LoseLink, Vanish
  <2>4. QED
    BY <2>1, <2>2, <2>3 DEF Next, vars
<1>3. ~abandoned /\ DedupUntilAbandoned => DistinctLiveKeys
  BY DEF DedupUntilAbandoned
<1>4. QED
  BY DedupHolds, <1>1, <1>2, <1>3, PTL DEF Spec

(***************************************************************************)
(* The keys in the set are those of the running calls.  A call that leaves *)
(* drops its own key only, because running calls have different keys       *)
(* (KeyInv): stop() cancels many calls at once and drops all their keys.   *)
(***************************************************************************)
Held == \A k \in inflight : \E c \in Calls : Running(c) /\ KeyOf[c] = k

LEMMA HeldStep == TypeOK /\ KeyInv /\ Held /\ Next => Held'
<1> SUFFICES ASSUME TypeOK, KeyInv, Held, Next PROVE Held'
    OBVIOUS
<1>0. /\ pc \in [Calls -> CallStates]
      /\ \A c, d \in Calls : c # d /\ Running(c) /\ Running(d) => KeyOf[c] # KeyOf[d]
  BY DEF TypeOK, CallsTyped, KeyInv, KeysApart
<1> USE <1>0 DEF Held
<1>1. ASSUME UNCHANGED <<inflight, pc>> PROVE Held'
  BY <1>1 DEF Running
<1>2. ASSUME NEW c \in Calls, inflight' = inflight \ {KeyOf[c]},
             NEW s \in CallStates, pc' = [pc EXCEPT ![c] = s]
      PROVE  Held'
  <2>1. ASSUME NEW k \in inflight' PROVE \E d \in Calls : Running(d)' /\ KeyOf[d] = k
    <3>1. PICK d \in Calls : Running(d) /\ KeyOf[d] = k
      BY <1>2, <2>1
    <3>2. d # c
      BY <1>2, <2>1, <3>1
    <3>3. QED
      BY <1>2, <3>1, <3>2 DEF Running
  <2>2. QED
    BY <2>1
<1>3. ASSUME NEW c \in Calls, NEW s \in CallStates, pc' = [pc EXCEPT ![c] = s],
             inflight' = inflight, Running(c) => Running(c)'
      PROVE  Held'
  BY <1>3 DEF Running
<1>4. ASSUME NEW S, S \subseteq Calls, Cancel(S), \A c \in S : Running(c) PROVE Held'
  <2>1. ASSUME NEW k \in inflight' PROVE \E d \in Calls : Running(d)' /\ KeyOf[d] = k
    <3>1. k \in inflight /\ k \notin {KeyOf[c] : c \in S}
      BY <1>4, <2>1 DEF Cancel
    <3>2. PICK d \in Calls : Running(d) /\ KeyOf[d] = k
      BY <3>1
    <3>3. d \notin S
      BY <3>1, <3>2
    <3>4. pc'[d] = pc[d]
      BY <1>4, <3>3 DEF Cancel
    <3>5. QED
      BY <3>2, <3>4 DEF Running
  <2>2. QED
    BY <2>1
<1>5. ASSUME NEW c \in Calls, CallerStep(c) PROVE Held'
  <2>1. CASE Refuse(c)
    BY <1>3, <2>1 DEF Refuse, CallStates, Running
  <2>2. CASE Accept(c)
    BY <2>2 DEF Accept, Running
  <2>3. CASE FindConnected(c) \/ Reconnect(c) \/ Retry(c)
    BY <1>3, <2>3 DEF FindConnected, Reconnect, Retry, Spawn, CallStates, Running
  <2>4. CASE ReconnectFails(c) \/ GiveUp(c)
    BY <1>2, <2>4 DEF ReconnectFails, GiveUp, Return, CallStates
  <2>5. CASE Resume(c)
    BY <1>2, <1>3, <2>5 DEF Resume, Return, CallStates, Running
  <2>6. QED
    BY <1>5, <2>1, <2>2, <2>3, <2>4, <2>5 DEF CallerStep
<1>6. ASSUME NEW c \in Calls, WorkerStep(c) PROVE Held'
  BY <1>1, <1>6 DEF WorkerStep, Enter, Reject, Skip, Prepare, Recheck, Send, Reconcile, callVars
<1>7. CASE EngineStep
  <2>1. CASE Stop
    BY <1>4, <2>1 DEF Stop, Cancellable
  <2>2. CASE DrainTimesOut
    <3> DEFINE S == {c \in draining \cap tracked : pc[c] = "awaiting"}
    <3>1. S \subseteq Calls /\ \A c \in S : Running(c)
      BY DEF TypeOK, EngineTyped, Running
    <3>2. Cancel(S)
      BY <2>2 DEF DrainTimesOut
    <3>3. QED
      BY <1>4, <3>1, <3>2
  <2>3. CASE BeginDrain \/ Drained \/ CloseSession \/ Start \/ Initialize \/ InitializeFails
    BY <1>1, <2>3 DEF BeginDrain, Drained, CloseSession, Start, Initialize, InitializeFails,
                      callVars
  <2>4. QED
    BY <1>7, <2>1, <2>2, <2>3 DEF EngineStep
<1>8. CASE Environment
  BY <1>1, <1>8 DEF Environment, SwitchAccount, LoseLink, Vanish, callVars
<1>9. QED
  BY <1>5, <1>6, <1>7, <1>8 DEF Next

(* The safe half of KeysAreReleased: a key in the set is the key of a call  *)
(* that is running, and of one call only.                                  *)
THEOREM NoKeyIsLeaked == Spec => []KeysHaveOneHolder
<1>1. Init => Held
  BY DEF Init, Held
<1>2. TypeOK /\ KeyInv /\ Held /\ [Next]_vars => KeyInv' /\ Held'
  <2>1. KeyInv /\ Held /\ UNCHANGED vars => KeyInv' /\ Held'
    BY DEF KeyInv, KeyOfCall, KeysApart, Busy, Running, Live, Held, vars, callVars, workVars,
           lifeVars
  <2>2. QED
    BY <2>1, KeyStep, HeldStep
<1>3. KeyInv /\ Held => KeysHaveOneHolder
  BY DEF KeyInv, KeysApart, Held, KeysHaveOneHolder
<1>4. QED
  BY TypeCorrect, KeyInit, <1>1, <1>2, <1>3, PTL DEF Spec

(***************************************************************************)
(* The gate is held by the thread that is inside it.                       *)
(***************************************************************************)
GateInv == \A c \in Calls : worker[c] \in Native => gate = c

LEMMA GateStep == TypeOK /\ GateInv /\ Next => GateInv'
<1> SUFFICES ASSUME TypeOK, GateInv, Next, NEW d \in Calls, worker'[d] \in Native
             PROVE  gate' = d
    BY DEF GateInv
<1>0. worker \in [Calls -> WorkerStates] /\ NoCall \notin Calls
  BY ExecutorAssumption DEF TypeOK, WorkTyped
<1>1. worker[d] \in Native => gate = d
  BY DEF GateInv
<1> USE <1>0, <1>1
<1>2. ASSUME UNCHANGED <<worker, gate>> PROVE gate' = d
  BY <1>2
<1>3. ASSUME NEW c \in Calls, worker' = [worker EXCEPT ![c] = "queued"], gate' = gate
      PROVE  gate' = d
  BY <1>3 DEF Native
<1>4. ASSUME NEW c \in Calls, worker[c] \in Native, NEW w, w \in Native \cup {"finished"},
             worker' = [worker EXCEPT ![c] = w],
             gate' = IF w = "finished" THEN NoCall ELSE gate
      PROVE  gate' = d
  <2>1. gate = c
    BY <1>4 DEF GateInv
  <2>2. QED
    BY <1>4, <2>1 DEF Native
<1>5. ASSUME NEW c \in Calls, CallerStep(c) PROVE gate' = d
  BY <1>2, <1>3, <1>5 DEF CallerStep, Refuse, Accept, FindConnected, Reconnect, ReconnectFails,
                          Resume, Retry, GiveUp, Spawn, workVars
<1>6. ASSUME NEW c \in Calls, WorkerStep(c) PROVE gate' = d
  <2>1. CASE Enter(c)
    BY <2>1 DEF Enter, GateInv
  <2>2. CASE Prepare(c)
    BY <1>4, <2>2 DEF Prepare, Native
  <2>3. CASE Send(c)
    BY <1>4, <2>3 DEF Send, Native
  <2>4. CASE Reject(c) \/ Skip(c) \/ Reconcile(c)
    BY <1>4, <2>4 DEF Reject, Skip, Reconcile, Finish, Native
  <2>5. CASE Recheck(c)
    BY <1>4, <2>5 DEF Recheck, Finish, Native
  <2>6. QED
    BY <1>6, <2>1, <2>2, <2>3, <2>4, <2>5 DEF WorkerStep
<1>7. CASE EngineStep \/ Environment
  BY <1>2, <1>7 DEF EngineStep, Stop, BeginDrain, Drained, DrainTimesOut, CloseSession, Start,
                    Initialize, InitializeFails, Environment, SwitchAccount, LoseLink, Vanish,
                    workVars
<1>8. QED
  BY <1>5, <1>6, <1>7 DEF Next

(* One native transaction at a time, also across abandoned drains and      *)
(* restarts of the engine.                                                 *)
THEOREM TransactionsAreSerialized == Spec => []OneTransactionAtATime
<1>1. Init => GateInv
  BY DEF Init, GateInv, Native
<1>2. TypeOK /\ GateInv /\ [Next]_vars => GateInv'
  <2>1. GateInv /\ UNCHANGED vars => GateInv'
    BY DEF GateInv, vars, workVars
  <2>2. QED
    BY <2>1, GateStep
<1>3. GateInv => OneTransactionAtATime
  BY DEF GateInv, OneTransactionAtATime
<1>4. QED
  BY TypeCorrect, <1>1, <1>2, <1>3, PTL DEF Spec

(***************************************************************************)
(* After a stop that drained.  The workers are gone because each one that  *)
(* outlives its caller keeps the drain waiting (KeyInv); the callers are    *)
(* gone because stop() cancels every task of the engine and only a running  *)
(* engine makes new ones.                                                  *)
(***************************************************************************)
CallersGone == \A c \in Calls \ OperatorCalls : Running(c) => phase = "running"

LEMMA CallersStep == CallersGone /\ Next /\ TypeOK => CallersGone'
<1> SUFFICES ASSUME CallersGone, Next, TypeOK, NEW d \in Calls \ OperatorCalls, Running(d)'
             PROVE  phase' = "running"
    BY DEF CallersGone
<1>0. /\ Running(d) => phase = "running"
      /\ pc \in [Calls -> CallStates]
  BY DEF TypeOK, CallsTyped, CallersGone
<1> USE <1>0 DEF Running, callVars, lifeVars
<1>1. ASSUME NEW c \in Calls, CallerStep(c) PROVE phase' = "running"
  <2>1. CASE Accept(c)
    BY <2>1 DEF Accept
  <2>2. CASE ~Accept(c)
    BY <1>1, <2>2 DEF CallerStep, Refuse, FindConnected, Reconnect, ReconnectFails, Resume,
                      Retry, GiveUp, Spawn, Return
  <2>3. QED
    BY <2>1, <2>2
<1>2. ASSUME NEW c \in Calls, WorkerStep(c) PROVE phase' = "running"
  BY <1>2 DEF WorkerStep, Enter, Reject, Skip, Prepare, Recheck, Send, Reconcile
<1>3. CASE EngineStep
  <2>1. CASE Stop
    BY <2>1 DEF Stop, Cancel, Cancellable
  <2>2. CASE DrainTimesOut
    BY <2>2 DEF DrainTimesOut, Cancel
  <2>3. CASE BeginDrain \/ Drained \/ CloseSession \/ Start \/ Initialize \/ InitializeFails
    BY <2>3 DEF BeginDrain, Drained, CloseSession, Start, Initialize, InitializeFails
  <2>4. QED
    BY <1>3, <2>1, <2>2, <2>3 DEF EngineStep
<1>4. CASE Environment
  BY <1>4 DEF Environment, SwitchAccount, LoseLink, Vanish
<1>5. QED
  BY <1>1, <1>2, <1>3, <1>4 DEF Next

(* After a drained stop none of the engine's own calls is left.            *)
THEOREM StopIsQuiet == Spec => []QuietAfterStop
<1>1. TypeOK /\ KeyInv /\ [Next]_vars => KeyInv'
  <2>1. KeyInv /\ UNCHANGED vars => KeyInv'
    BY DEF KeyInv, KeyOfCall, KeysApart, Busy, Running, Live, vars, callVars, workVars,
           lifeVars
  <2>2. QED
    BY <2>1, KeyStep
<1>2. TypeOK /\ CallersGone /\ [Next]_vars => CallersGone'
  <2>1. CallersGone /\ UNCHANGED vars => CallersGone'
    BY DEF CallersGone, Running, vars, callVars, lifeVars
  <2>2. QED
    BY <2>1, CallersStep
<1>3. Init => CallersGone
  BY DEF Init, CallersGone, Running
<1>4. KeyInv /\ CallersGone => QuietAfterStop
  BY DEF KeyInv, KeyOfCall, CallersGone, QuietAfterStop
<1>5. QED
  BY TypeCorrect, KeyInit, <1>1, <1>2, <1>3, <1>4, PTL DEF Spec

(***************************************************************************)
(* The executor implements MutationPromise.  A worker is alive only on     *)
(* behalf of a call that was taken, and a result that reports a successful *)
(* change belongs to a change that was made.                               *)
(***************************************************************************)
ReportOf(c) ==
    /\ Live(c) => pc[c] \in {"awaiting", "cancelled"}
    /\ worker[c] = "sent" /\ Completed(reply[c]) => effects[c] = 1
    /\ result[c].success /\ result[c].changed => effects[c] > 0
    /\ pc[c] = "new" => ~result[c].success

ReportInv == \A c \in Calls : ReportOf(c)

LEMMA ReportInit == Init => ReportInv
BY DEF Init, ReportInv, ReportOf, Live, Native, Failed

LEMMA ReportStep == TypeOK /\ EffectInv /\ ReportInv /\ Next => ReportInv'
<1> SUFFICES ASSUME TypeOK, EffectInv, ReportInv, Next, NEW d \in Calls PROVE ReportOf(d)'
    BY DEF ReportInv
<1>0. /\ ReportOf(d) /\ EffectOf(d)
      /\ pc \in [Calls -> CallStates]
      /\ worker \in [Calls -> WorkerStates]
      /\ reply \in [Calls -> Replies]
      /\ result \in [Calls -> Results]
      /\ effects \in [Calls -> Nat]
  BY DEF TypeOK, CallsTyped, WorkTyped, BrokerTyped, ReportInv, EffectInv
<1> USE <1>0 DEF ReportOf, EffectOf, Live, Native, Completed
<1>1. ASSUME NEW c \in Calls, CallerStep(c) PROVE ReportOf(d)'
  <2> USE DEF brokerVars
  <2>1. CASE Refuse(c) \/ Accept(c)
    BY <2>1 DEF Refuse, Accept, workVars
  <2>2. CASE FindConnected(c) \/ Reconnect(c) \/ Retry(c)
    BY <2>2 DEF FindConnected, Reconnect, Retry, Spawn
  <2>3. CASE ReconnectFails(c) \/ Resume(c) \/ GiveUp(c)
    BY <2>3 DEF ReconnectFails, Resume, GiveUp, Return, workVars
  <2>4. QED
    BY <1>1, <2>1, <2>2, <2>3 DEF CallerStep
<1>2. ASSUME NEW c \in Calls, WorkerStep(c) PROVE ReportOf(d)'
  <2> USE DEF callVars, brokerVars
  <2>1. CASE Enter(c) \/ Prepare(c)
    BY <2>1 DEF Enter, Prepare
  <2>2. CASE Reject(c) \/ Skip(c)
    BY <2>2 DEF Reject, Skip, Finish, Failed, Unneeded
  <2>3. CASE Recheck(c)
    BY <2>3 DEF Recheck, Finish, Failed
  <2>4. CASE Send(c)
    BY <2>4 DEF Send, BrokerOutcomes
  <2>5. CASE Reconcile(c)
    <3>1. CASE Completed(reply[c])
      <4>1. PICK seen \in Observations(c) : Finish(c, Verdict(KindOf[c], seen, reply[c]))
        BY <2>5, <3>1 DEF Reconcile
      <4>2. worker' = [worker EXCEPT ![c] = "finished"] /\ UNCHANGED <<pc, reply, effects>>
            /\ \E outcome : result' = [result EXCEPT ![c] = outcome]
        BY <2>5, <4>1 DEF Reconcile, Finish
      <4>3. QED
        BY <2>5, <3>1, <4>2 DEF Reconcile
    <3>2. CASE ~Completed(reply[c])
      BY <2>5, <3>2 DEF Reconcile, Finish, Failed
    <3>3. QED
      BY <3>1, <3>2
  <2>6. QED
    BY <1>2, <2>1, <2>2, <2>3, <2>4, <2>5 DEF WorkerStep
<1>3. CASE EngineStep
  <2>1. UNCHANGED <<worker, reply, result, effects>>
        /\ (pc'[d] = pc[d] \/ (pc'[d] = "cancelled" /\ pc[d] # "new"))
    BY <1>3 DEF EngineStep, Stop, BeginDrain, Drained, DrainTimesOut, CloseSession, Start,
                Initialize, InitializeFails, Cancel, Cancellable, Running, callVars, workVars,
                brokerVars
  <2>2. QED
    BY <2>1
<1>4. CASE Environment
  BY <1>4 DEF Environment, SwitchAccount, LoseLink, Vanish, callVars, workVars, brokerVars
<1>5. QED
  BY <1>1, <1>2, <1>3, <1>4 DEF Next

(***************************************************************************)
(* A success is verified.  What the broker accepted is on the account of   *)
(* the terminal as long as no switch has raced the call; the re-read then  *)
(* shows what was applied, and the result that is built from it stays true *)
(* because nothing happens to the order of a finished worker.              *)
(***************************************************************************)
Made(c) ==
    /\ effects[c] = 1
    /\ \/ applied[c] = "full"
       \/ applied[c] = "part" /\ result[c].partial /\ KindOf[c] = "open"
       \/ vanished[c]

VerdictOf(c) ==
    /\ worker[c] = "sent" /\ Completed(reply[c]) /\ ~raced[c] => terminal \in landed[c]
    /\ /\ worker[c] = "finished"
       /\ result[c].success
       /\ result[c].changed
       /\ ~raced[c]
       => Made(c)

VerdictInv == \A c \in Calls : VerdictOf(c)

LEMMA VerdictInit == Init => VerdictInv
BY DEF Init, VerdictInv, VerdictOf

(* The verdict on a re-read of the right account.                          *)
LEMMA VerdictIsTrue ==
    ASSUME NEW c \in Calls, NEW seen \in Observations(c),
           applied[c] \in {"none", "part", "full"},
           ~raced[c] => terminal \in landed[c],
           Verdict(KindOf[c], seen, reply[c]).success, ~raced[c]
    PROVE  \/ applied[c] = "full"
           \/ /\ applied[c] = "part"
              /\ Verdict(KindOf[c], seen, reply[c]).partial
              /\ KindOf[c] = "open"
           \/ vanished[c]
<1>1. Complete(KindOf[c], seen) \/ (seen = "part" /\ KindOf[c] = "open")
  BY DEF Verdict
<1>2. CASE seen = "full"
  BY <1>2 DEF Observations
<1>3. CASE seen = "gone"
  BY <1>3 DEF Observations
<1>4. CASE seen = "part" /\ KindOf[c] = "open"
  <2>1. applied[c] = "part"
    BY <1>4 DEF Observations
  <2>2. Verdict(KindOf[c], seen, reply[c]).partial
    BY <1>4 DEF Verdict, Complete
  <2>3. QED
    BY <1>4, <2>1, <2>2
<1>5. QED
  BY <1>1, <1>2, <1>3, <1>4 DEF Complete

LEMMA VerdictStep == TypeOK /\ ReportInv /\ VerdictInv /\ Next => VerdictInv'
<1> SUFFICES ASSUME TypeOK, ReportInv, VerdictInv, Next, NEW d \in Calls PROVE VerdictOf(d)'
    BY DEF VerdictInv
<1>0. /\ VerdictOf(d) /\ ReportOf(d)
      /\ worker \in [Calls -> WorkerStates]
      /\ reply \in [Calls -> Replies]
      /\ result \in [Calls -> Results]
      /\ effects \in [Calls -> Nat]
      /\ applied \in [Calls -> {"none", "part", "full"}]
      /\ landed \in [Calls -> SUBSET Accounts]
      /\ raced \in [Calls -> BOOLEAN]
      /\ vanished \in [Calls -> BOOLEAN]
      /\ terminal \in Accounts
  BY DEF TypeOK, WorkTyped, BrokerTyped, EngineTyped, ReportInv, VerdictInv
<1> USE <1>0 DEF VerdictOf, Made
<1>1. ASSUME NEW c \in Calls, CallerStep(c) PROVE VerdictOf(d)'
  <2>1. CASE Refuse(c) \/ Accept(c) \/ ReconnectFails(c) \/ Resume(c) \/ GiveUp(c)
    <3>1. UNCHANGED <<workVars, brokerVars, envVars>>
      BY <2>1 DEF Refuse, Accept, ReconnectFails, Resume, GiveUp
    <3>2. QED
      BY <3>1 DEF workVars, brokerVars, envVars
  <2>2. CASE FindConnected(c) \/ Reconnect(c) \/ Retry(c)
    <3>1. /\ worker' = [worker EXCEPT ![c] = "queued"]
          /\ UNCHANGED <<reply, result, brokerVars, terminal>>
      BY <2>2 DEF FindConnected, Reconnect, Retry, Spawn, envVars
    <3>2. QED
      BY <3>1 DEF brokerVars
  <2>3. QED
    BY <1>1, <2>1, <2>2 DEF CallerStep
<1>2. ASSUME NEW c \in Calls, WorkerStep(c) PROVE VerdictOf(d)'
  <2>1. CASE Enter(c) \/ Prepare(c)
    BY <2>1 DEF Enter, Prepare, brokerVars, envVars
  <2>2. CASE Reject(c) \/ Skip(c)
    BY <2>2 DEF Reject, Skip, Finish, Failed, Unneeded, brokerVars, envVars
  <2>3. CASE Recheck(c)
    BY <2>3 DEF Recheck, Finish, Failed, brokerVars, envVars
  <2>4. CASE Send(c)
    BY <2>4 DEF Send, BrokerOutcomes, Completed, envVars
  <2>5. CASE Reconcile(c)
    <3>1. CASE Completed(reply[c])
      <4>1. PICK seen \in Observations(c) : Finish(c, Verdict(KindOf[c], seen, reply[c]))
        BY <2>5, <3>1 DEF Reconcile
      <4> DEFINE outcome == Verdict(KindOf[c], seen, reply[c])
      <4>2. /\ worker[c] = "sent"
            /\ worker' = [worker EXCEPT ![c] = "finished"]
            /\ result' = [result EXCEPT ![c] = outcome]
            /\ UNCHANGED <<reply, effects, applied, landed, raced, vanished, terminal>>
        BY <2>5, <4>1 DEF Reconcile, Finish, brokerVars, envVars
      <4>3. CASE d # c
        BY <4>2, <4>3
      <4>4. CASE d = c
        <5>1. effects[c] = 1 /\ (~raced[c] => terminal \in landed[c])
          BY <3>1, <4>2, <4>4 DEF ReportOf
        <5>2. outcome.success /\ ~raced[c] =>
                 \/ applied[c] = "full"
                 \/ applied[c] = "part" /\ outcome.partial /\ KindOf[c] = "open"
                 \/ vanished[c]
          BY <5>1, VerdictIsTrue, <1>0
        <5> HIDE DEF outcome
        <5>3. QED
          BY <4>2, <4>4, <5>1, <5>2
      <4>5. QED
        BY <4>3, <4>4
    <3>2. CASE ~Completed(reply[c])
      BY <2>5, <3>2 DEF Reconcile, Finish, Failed, brokerVars, envVars
    <3>3. QED
      BY <3>1, <3>2
  <2>6. QED
    BY <1>2, <2>1, <2>2, <2>3, <2>4, <2>5 DEF WorkerStep
<1>3. CASE EngineStep
  <2>1. UNCHANGED <<worker, reply, result, effects, applied, landed, raced, vanished,
                    terminal>>
    BY <1>3 DEF EngineStep, Stop, BeginDrain, Drained, DrainTimesOut, CloseSession, Start,
                Initialize, InitializeFails, workVars, brokerVars, envVars
  <2>2. QED
    BY <2>1
<1>4. CASE Environment
  <2>1. CASE LoseLink
    BY <2>1 DEF LoseLink, workVars, brokerVars
  <2>2. CASE \E a \in Accounts : SwitchAccount(a)
    <3>1. /\ raced'[d] <=> raced[d] \/ worker[d] \in {"cleared", "sent"}
          /\ UNCHANGED <<worker, reply, result, effects, applied, landed, vanished>>
      BY <2>2 DEF SwitchAccount, workVars
    <3>2. QED
      BY <3>1
  <2>3. CASE \E c \in Calls : Vanish(c)
    <3>1. /\ vanished[d] => vanished'[d]
          /\ UNCHANGED <<worker, reply, result, effects, applied, landed, raced, terminal>>
      BY <2>3 DEF Vanish, workVars
    <3>2. QED
      BY <3>1
  <2>4. QED
    BY <1>4, <2>1, <2>2, <2>3 DEF Environment
<1>5. QED
  BY <1>1, <1>2, <1>3, <1>4 DEF Next

(* A success that reports a change is one the broker made once, in full,   *)
(* flagged as partial, or overtaken by the position's own close; the       *)
(* reconciliation is never fooled, unless the account switched meanwhile.  *)
THEOREM SuccessesAreVerified == Spec => []SuccessIsVerified
<1>1. TypeOK /\ EffectInv /\ [Next]_vars => EffectInv'
  <2>1. EffectInv /\ UNCHANGED vars => EffectInv'
    BY DEF EffectInv, EffectOf, vars, callVars, workVars, brokerVars
  <2>2. QED
    BY <2>1, EffectStep
<1>2. TypeOK /\ EffectInv /\ ReportInv /\ [Next]_vars => ReportInv'
  <2>1. ReportInv /\ UNCHANGED vars => ReportInv'
    BY DEF ReportInv, ReportOf, Live, vars, callVars, workVars, brokerVars
  <2>2. QED
    BY <2>1, ReportStep
<1>3. TypeOK /\ ReportInv /\ VerdictInv /\ [Next]_vars => VerdictInv'
  <2>1. VerdictInv /\ UNCHANGED vars => VerdictInv'
    BY DEF VerdictInv, VerdictOf, Made, vars, workVars, brokerVars, envVars
  <2>2. QED
    BY <2>1, VerdictStep
<1>4. VerdictInv => SuccessIsVerified
  BY DEF VerdictInv, VerdictOf, Made, SuccessIsVerified
<1>5. QED
  BY TypeCorrect, EffectInit, ReportInit, VerdictInit, <1>1, <1>2, <1>3, <1>4, PTL DEF Spec

(* The three variables of MutationPromise, as the executor keeps them.     *)
stageOf == [c \in Calls |-> Stage(c)]
madeOf == {c \in Calls : effects[c] > 0}
toldOf == {c \in Calls : pc[c] = "returned" /\ result[c].success /\ result[c].changed}

(* What a step does to a call's place, given what it does to its caller.   *)
LEMMA PromiseStep == TypeOK /\ EffectInv /\ ReportInv /\ Next => [Promise!Next]_(Promise!vars)
<1> SUFFICES ASSUME TypeOK, EffectInv, ReportInv, Next
             PROVE  Promise!Next \/ UNCHANGED <<stageOf, madeOf, toldOf>>
    BY DEF Promise!vars, stageOf, madeOf, toldOf
<1>0. /\ pc \in [Calls -> CallStates]
      /\ worker \in [Calls -> WorkerStates]
      /\ result \in [Calls -> Results]
      /\ effects \in [Calls -> Nat]
      /\ \A c \in Calls : EffectOf(c) /\ ReportOf(c)
  BY DEF TypeOK, CallsTyped, WorkTyped, BrokerTyped, EffectInv, ReportInv
<1> USE <1>0
<1> USE DEF stageOf, madeOf, toldOf
<1>1. ASSUME NEW c \in Calls, CallerStep(c)
      PROVE  Promise!Next \/ UNCHANGED <<stageOf, madeOf, toldOf>>
  <2>0. UNCHANGED <<effects, result>>
    BY <1>1 DEF CallerStep, Refuse, Accept, FindConnected, Reconnect, ReconnectFails, Resume,
                Retry, GiveUp, Spawn, workVars, brokerVars
  <2>1. CASE Refuse(c)
    <3>1. pc[c] = "new" /\ pc' = [pc EXCEPT ![c] = "returned"] /\ ~result[c].success
      BY <2>1 DEF Refuse, ReportOf
    <3>2. Promise!Refuse(c)
      BY <2>0, <3>1 DEF Promise!Refuse, Stage, Running
    <3>3. QED
      BY <3>2 DEF Promise!Next
  <2>2. CASE Accept(c)
    <3>1. pc[c] = "new" /\ pc' = [pc EXCEPT ![c] = "connecting"]
      BY <2>2 DEF Accept
    <3>2. Promise!Take(c)
      BY <2>0, <3>1 DEF Promise!Take, Stage, Running
    <3>3. QED
      BY <3>2 DEF Promise!Next
  <2>3. CASE FindConnected(c) \/ Reconnect(c) \/ Retry(c)
    <3>1. Running(c) /\ pc' = [pc EXCEPT ![c] = "awaiting"]
      BY <2>3 DEF FindConnected, Reconnect, Retry, Spawn, Running
    <3>2. UNCHANGED <<stageOf, madeOf, toldOf>>
      BY <2>0, <3>1 DEF Stage, Running
    <3>3. QED
      BY <3>2
  <2>4. CASE Resume(c) /\ pc'[c] = "backoff"
    <3>1. Running(c) /\ pc' = [pc EXCEPT ![c] = "backoff"]
      BY <2>4 DEF Resume, Return, Running
    <3>2. UNCHANGED <<stageOf, madeOf, toldOf>>
      BY <2>0, <3>1 DEF Stage, Running
    <3>3. QED
      BY <3>2
  <2>5. CASE ReconnectFails(c) \/ GiveUp(c) \/ (Resume(c) /\ pc'[c] # "backoff")
    <3>1. Running(c) /\ pc' = [pc EXCEPT ![c] = "returned"]
      BY <2>5 DEF ReconnectFails, GiveUp, Resume, Return, Running
    <3>2. result[c].success /\ result[c].changed => c \in madeOf
      BY DEF ReportOf
    <3>3. /\ Stage(c) = "taken"
          /\ stageOf' = [stageOf EXCEPT ![c] = "over"]
      BY <3>1 DEF Stage, Running
    <3>4. \/ UNCHANGED toldOf
          \/ c \in madeOf /\ toldOf' = toldOf \cup {c}
      <4> DEFINE good == result[c].success /\ result[c].changed
      <4>1. \A d \in Calls \ {c} : pc'[d] = pc[d]
        BY <3>1
      <4>2. pc'[c] = "returned" /\ pc[c] # "returned"
        BY <3>1 DEF Running
      <4>3. CASE good
        <5>1. toldOf' = toldOf \cup {c}
          BY <2>0, <4>1, <4>2, <4>3
        <5>2. QED
          BY <3>2, <4>3, <5>1
      <4>4. CASE ~good
        <5>1. UNCHANGED toldOf
          BY <2>0, <4>1, <4>2, <4>4
        <5>2. QED
          BY <5>1
      <4>5. QED
        BY <4>3, <4>4
    <3>5. stageOf[c] = "taken" /\ UNCHANGED madeOf
      BY <2>0, <3>3
    <3> HIDE DEF stageOf, madeOf, toldOf
    <3>6. Promise!Report(c)
      BY <3>3, <3>4, <3>5 DEF Promise!Report, stageOf, madeOf, toldOf
    <3>7. QED
      BY <3>6 DEF Promise!Next
  <2>6. QED
    BY <1>1, <2>1, <2>2, <2>3, <2>4, <2>5 DEF CallerStep
<1>2. ASSUME NEW c \in Calls, WorkerStep(c)
      PROVE  Promise!Next \/ UNCHANGED <<stageOf, madeOf, toldOf>>
  <2>0. UNCHANGED pc /\ Live(c)
    BY <1>2 DEF WorkerStep, Enter, Reject, Skip, Prepare, Recheck, Send, Reconcile, callVars,
                Live, Native
  <2>1. pc[c] \in {"awaiting", "cancelled"}
    BY <2>0 DEF ReportOf
  <2>2. \A d \in Calls : d # c => result'[d] = result[d]
    BY <1>2 DEF WorkerStep, Enter, Reject, Skip, Prepare, Recheck, Send, Reconcile, Finish
  <2>3. UNCHANGED <<stageOf, toldOf>>
    BY <2>0, <2>1, <2>2 DEF Stage, Running
  <2>4. CASE Send(c)
    <3>1. effects[c] = 0
      BY <2>4 DEF Send, EffectOf
    <3>2. UNCHANGED effects \/ effects' = [effects EXCEPT ![c] = @ + 1]
      BY <2>4 DEF Send, brokerVars
    <3>3. CASE UNCHANGED effects
      BY <2>3, <3>3
    <3>4. CASE effects' = [effects EXCEPT ![c] = @ + 1]
      <4>1. madeOf' = madeOf \cup {c} /\ c \notin madeOf
        BY <3>1, <3>4
      <4>2. Promise!Make(c)
        BY <2>1, <2>3, <4>1 DEF Promise!Make, Stage, Running
      <4>3. QED
        BY <4>2 DEF Promise!Next
    <3>5. QED
      BY <3>2, <3>3, <3>4
  <2>5. CASE ~Send(c)
    <3>1. UNCHANGED effects
      BY <1>2, <2>5 DEF WorkerStep, Enter, Reject, Skip, Prepare, Recheck, Reconcile, brokerVars
    <3>2. QED
      BY <2>3, <3>1
  <2>6. QED
    BY <2>4, <2>5
<1>3. CASE EngineStep
  <2>0. UNCHANGED <<effects, result>>
    BY <1>3 DEF EngineStep, Stop, BeginDrain, Drained, DrainTimesOut, CloseSession, Start,
                Initialize, InitializeFails, workVars, brokerVars
  <2>1. CASE UNCHANGED pc
    BY <2>0, <2>1 DEF Stage, Running
  <2>2. ASSUME NEW S \in SUBSET Calls, Cancel(S), \A c \in S : Running(c)
        PROVE  Promise!Next
    <3>1. Promise!Orphan(S)
      BY <2>0, <2>2 DEF Promise!Orphan, Cancel, Stage, Running
    <3>2. QED
      BY <3>1 DEF Promise!Next
  <2>3. CASE Stop
    BY <2>2, <2>3 DEF Stop, Cancellable
  <2>4. CASE DrainTimesOut
    <3>1. {c \in draining \cap tracked : pc[c] = "awaiting"} \in SUBSET Calls
      BY DEF TypeOK, EngineTyped
    <3>2. QED
      BY <2>2, <2>4, <3>1 DEF DrainTimesOut, Running
  <2>5. CASE ~Stop /\ ~DrainTimesOut
    <3>1. UNCHANGED pc
      BY <1>3, <2>5 DEF EngineStep, BeginDrain, Drained, CloseSession, Start, Initialize,
                        InitializeFails, callVars
    <3>2. QED
      BY <2>1, <3>1
  <2>6. QED
    BY <2>3, <2>4, <2>5
<1>4. CASE Environment
  <2>1. UNCHANGED <<pc, effects, result>>
    BY <1>4 DEF Environment, SwitchAccount, LoseLink, Vanish, callVars, workVars, brokerVars
  <2>2. QED
    BY <2>1 DEF Stage, Running
<1>5. QED
  BY <1>1, <1>2, <1>3, <1>4 DEF Next

(* The executor implements the promise it makes to its callers.            *)
THEOREM ImplementsPromise == Spec => KeepsPromise
<1>1. Init => Promise!Init
  BY DEF Init, Promise!Init, Stage, Running
<1>2. TypeOK /\ EffectInv /\ ReportInv /\ [Next]_vars => EffectInv' /\ ReportInv'
  <2>1. EffectInv /\ ReportInv /\ UNCHANGED vars => EffectInv' /\ ReportInv'
    BY DEF EffectInv, EffectOf, ReportInv, ReportOf, Live, vars, callVars, workVars, brokerVars
  <2>2. QED
    BY <2>1, EffectStep, ReportStep
<1>3. TypeOK /\ EffectInv /\ ReportInv /\ [Next]_vars => [Promise!Next]_(Promise!vars)
  <2>1. UNCHANGED vars => UNCHANGED Promise!vars
    BY DEF Promise!vars, Stage, Running, vars, callVars, workVars, brokerVars
  <2>2. QED
    BY <2>1, PromiseStep
<1>4. QED
  BY TypeCorrect, EffectInit, ReportInit, <1>1, <1>2, <1>3, PTL
     DEF Spec, KeepsPromise, Promise!Spec

(***************************************************************************)
(* The executor implements the guard of module OrderGuard: each attempt of *)
(* a call is handed over, compared, sent and taken back once.              *)
(***************************************************************************)
placeOf == [c \in Calls |-> GuardPlace(c)]
expectedOf ==
    [c \in Calls |-> IF GuardPlace(c) = "outside" THEN NoAccount ELSE expected[c]]
guardState == <<placeOf, expectedOf, raced, terminal>>

(* Steps that leave the workers, the expectations and the terminal alone.   *)
LEMMA GuardAside ==
    UNCHANGED <<worker, expected, raced, terminal>> => UNCHANGED guardState
BY DEF guardState, placeOf, expectedOf, GuardPlace

(* A step of one call, whose worker moves to place p.                      *)
LEMMA GuardMove ==
    ASSUME NEW c \in Calls, NEW w \in WorkerStates, worker \in [Calls -> WorkerStates],
           worker' = [worker EXCEPT ![c] = w], UNCHANGED <<expected, raced, terminal>>
    PROVE  /\ placeOf' = [placeOf EXCEPT ![c] = GuardPlace(c)']
           /\ expectedOf' = [expectedOf EXCEPT ![c] =
                 IF GuardPlace(c)' = "outside" THEN NoAccount ELSE expected[c]]
<1>1. worker'[c] = w /\ \A d \in Calls \ {c} : worker'[d] = worker[d]
  OBVIOUS
<1>2. \A d \in Calls \ {c} : GuardPlace(d)' = GuardPlace(d)
  BY <1>1 DEF GuardPlace
<1>3. placeOf' = [placeOf EXCEPT ![c] = GuardPlace(c)']
  BY <1>2 DEF placeOf
<1>4. expectedOf' = [expectedOf EXCEPT ![c] =
                       IF GuardPlace(c)' = "outside" THEN NoAccount ELSE expected[c]]
  BY <1>2 DEF expectedOf
<1>5. QED
  BY <1>1, <1>3, <1>4 DEF GuardPlace

LEMMA OrderGuardStep == TypeOK /\ EffectInv /\ Next => [Guard!Next]_(Guard!vars)
<1> SUFFICES ASSUME TypeOK, EffectInv, Next PROVE Guard!Next \/ UNCHANGED guardState
    BY DEF Guard!vars, guardState, placeOf, expectedOf
<1>0. /\ worker \in [Calls -> WorkerStates]
      /\ expected \in [Calls -> Accounts \cup {NoAccount}]
      /\ raced \in [Calls -> BOOLEAN]
      /\ terminal \in Accounts
      /\ \A c \in Calls : EffectOf(c)
  BY DEF TypeOK, CallsTyped, WorkTyped, BrokerTyped, EngineTyped, EffectInv
<1> USE <1>0
<1>1. ASSUME NEW c \in Calls, Accept(c) PROVE UNCHANGED guardState
  <2>1. worker[c] = "none" /\ UNCHANGED <<worker, raced, terminal>>
    BY <1>1 DEF Accept, EffectOf, workVars, brokerVars, envVars
  <2>2. \A d \in Calls : d # c => expected'[d] = expected[d]
    BY <1>1 DEF Accept
  <2>3. UNCHANGED placeOf /\ GuardPlace(c) = "outside"
    BY <2>1 DEF placeOf, GuardPlace
  <2>4. UNCHANGED expectedOf
    BY <2>1, <2>2, <2>3 DEF expectedOf, GuardPlace
  <2>5. QED
    BY <2>1, <2>3, <2>4 DEF guardState
<1>2. ASSUME NEW c \in Calls, FindConnected(c) \/ Reconnect(c) \/ Retry(c) PROVE Guard!Next
  <2>1. worker[c] \in {"none", "finished"}
    BY <1>2 DEF FindConnected, Reconnect, Retry, EffectOf
  <2>2. worker' = [worker EXCEPT ![c] = "queued"] /\ UNCHANGED <<expected, raced, terminal>>
    BY <1>2 DEF FindConnected, Reconnect, Retry, Spawn, brokerVars, envVars
  <2>1a. GuardPlace(c)' = "submitted" /\ expected[c] \in Accounts \cup {NoAccount}
    BY <2>2 DEF GuardPlace
  <2>3. /\ placeOf' = [placeOf EXCEPT ![c] = "submitted"]
        /\ expectedOf' = [expectedOf EXCEPT ![c] = expected[c]]
    BY <2>2, <2>1a, GuardMove DEF WorkerStates
  <2>4. placeOf[c] = "outside"
    BY <2>1 DEF placeOf, GuardPlace
  <2>5. PICK a \in Accounts \cup {NoAccount} : a = expected[c]
    BY <2>1a
  <2>6. Guard!Submit(c, a)
    BY <2>2, <2>3, <2>4, <2>5 DEF Guard!Submit, placeOf, expectedOf
  <2>7. QED
    BY <2>6 DEF Guard!Next
<1>3. ASSUME NEW c \in Calls,
             Refuse(c) \/ ReconnectFails(c) \/ Resume(c) \/ GiveUp(c)
      PROVE  UNCHANGED guardState
  BY <1>3, GuardAside DEF Refuse, ReconnectFails, Resume, GiveUp, workVars, brokerVars, envVars
<1>4. ASSUME NEW c \in Calls, Enter(c) \/ Prepare(c) PROVE UNCHANGED guardState
  <2>1. PICK w \in {"entered", "prepared"} : worker' = [worker EXCEPT ![c] = w]
    BY <1>4 DEF Enter, Prepare
  <2>2. UNCHANGED <<expected, raced, terminal>> /\ GuardPlace(c) = "submitted"
    BY <1>4 DEF Enter, Prepare, callVars, brokerVars, envVars, GuardPlace
  <2>1a. GuardPlace(c)' = "submitted"
    BY <2>1, <2>2 DEF GuardPlace
  <2>3. /\ placeOf' = [placeOf EXCEPT ![c] = "submitted"]
        /\ expectedOf' = [expectedOf EXCEPT ![c] = expected[c]]
    BY <2>1, <2>2, <2>1a, GuardMove DEF WorkerStates, Native
  <2>4. placeOf[c] = "submitted" /\ expectedOf[c] = expected[c]
    BY <2>2 DEF placeOf, expectedOf
  <2>5. placeOf' = placeOf /\ expectedOf' = expectedOf
    BY <2>3, <2>4 DEF placeOf, expectedOf
  <2>6. QED
    BY <2>2, <2>5 DEF guardState
<1>5. ASSUME NEW c \in Calls, Recheck(c), worker'[c] = "cleared" PROVE Guard!Next
  <2>1. /\ worker[c] = "prepared" /\ expected[c] \in {NoAccount, terminal}
        /\ worker' = [worker EXCEPT ![c] = "cleared"]
        /\ UNCHANGED <<expected, raced, terminal>>
    BY <1>5 DEF Recheck, Finish, IdentityMatches, callVars, brokerVars, envVars
  <2>1a. GuardPlace(c)' = "cleared"
    BY <2>1 DEF GuardPlace
  <2>2. /\ placeOf' = [placeOf EXCEPT ![c] = "cleared"]
        /\ expectedOf' = [expectedOf EXCEPT ![c] = expected[c]]
    BY <2>1, <2>1a, GuardMove DEF WorkerStates, Native
  <2>3. placeOf[c] = "submitted" /\ expectedOf[c] = expected[c]
    BY <2>1 DEF placeOf, expectedOf, GuardPlace
  <2>4. expectedOf' = expectedOf
    BY <2>2, <2>3 DEF expectedOf
  <2>5. Guard!Clear(c)
    BY <2>1, <2>2, <2>3, <2>4 DEF Guard!Clear, Guard!Matches, placeOf, expectedOf
  <2>6. QED
    BY <2>5 DEF Guard!Next
<1>6. ASSUME NEW c \in Calls, Send(c) PROVE Guard!Next
  <2>1. /\ worker[c] = "cleared"
        /\ worker' = [worker EXCEPT ![c] = "sent"]
        /\ UNCHANGED <<expected, raced, terminal>>
    BY <1>6 DEF Send, callVars, envVars
  <2>1a. GuardPlace(c)' = "sent"
    BY <2>1 DEF GuardPlace
  <2>2. /\ placeOf' = [placeOf EXCEPT ![c] = "sent"]
        /\ expectedOf' = [expectedOf EXCEPT ![c] = expected[c]]
    BY <2>1, <2>1a, GuardMove DEF WorkerStates, Native
  <2>3. placeOf[c] = "cleared" /\ expectedOf[c] = expected[c]
    BY <2>1 DEF placeOf, expectedOf, GuardPlace
  <2>4. expectedOf' = expectedOf
    BY <2>2, <2>3 DEF expectedOf
  <2>5. Guard!Send(c)
    BY <2>1, <2>2, <2>3, <2>4 DEF Guard!Send, placeOf, expectedOf
  <2>6. QED
    BY <2>5 DEF Guard!Next
<1>7. ASSUME NEW c \in Calls,
             \/ Reject(c) \/ Skip(c) \/ Reconcile(c)
             \/ Recheck(c) /\ worker'[c] # "cleared"
      PROVE  Guard!Next
  <2>1. /\ worker[c] \in {"entered", "prepared", "sent"}
        /\ worker' = [worker EXCEPT ![c] = "finished"]
        /\ UNCHANGED <<expected, raced, terminal>>
    BY <1>7 DEF Reject, Skip, Reconcile, Recheck, Finish, callVars, brokerVars, envVars
  <2>1a. GuardPlace(c)' = "outside"
    BY <2>1 DEF GuardPlace
  <2>2. /\ placeOf' = [placeOf EXCEPT ![c] = "outside"]
        /\ expectedOf' = [expectedOf EXCEPT ![c] = NoAccount]
    BY <2>1, <2>1a, GuardMove DEF WorkerStates
  <2>3. placeOf[c] # "outside"
    BY <2>1 DEF placeOf, GuardPlace
  <2>4. Guard!Leave(c)
    BY <2>1, <2>2, <2>3 DEF Guard!Leave, placeOf, expectedOf
  <2>5. QED
    BY <2>4 DEF Guard!Next
<1>8. CASE EngineStep
  BY <1>8, GuardAside
     DEF EngineStep, Stop, BeginDrain, Drained, DrainTimesOut, CloseSession, Start, Initialize,
         InitializeFails, callVars, workVars, brokerVars, envVars, Cancel
<1>9. ASSUME NEW a \in Accounts, SwitchAccount(a) PROVE Guard!Next
  <2>1. /\ terminal' = a
        /\ raced' = [c \in Calls |-> raced[c] \/ worker[c] \in {"cleared", "sent"}]
        /\ UNCHANGED <<worker, expected>>
    BY <1>9 DEF SwitchAccount, callVars, workVars
  <2>2. UNCHANGED <<placeOf, expectedOf>>
    BY <2>1 DEF placeOf, expectedOf, GuardPlace
  <2> DEFINE R == {c \in Calls : placeOf[c] \in {"cleared", "sent"}}
  <2>3. \A c \in Calls : worker[c] \in {"cleared", "sent"} <=> c \in R
    BY DEF placeOf, GuardPlace
  <2>4. /\ R \in SUBSET R
        /\ {c \in Calls : placeOf[c] = "cleared"} \subseteq R
        /\ raced' = [c \in Calls |-> raced[c] \/ c \in R]
    BY <2>1, <2>3
  <2>5. Guard!Switch(a)
    BY <2>1, <2>2, <2>4 DEF Guard!Switch, placeOf, expectedOf
  <2>6. QED
    BY <2>5 DEF Guard!Next
<1>10. CASE LoseLink \/ \E c \in Calls : Vanish(c)
  BY <1>10, GuardAside DEF LoseLink, Vanish, callVars, workVars, brokerVars
<1>11. QED
  BY <1>1, <1>2, <1>3, <1>4, <1>5, <1>6, <1>7, <1>8, <1>9, <1>10
     DEF Next, CallerStep, WorkerStep, Environment

(* The executor implements the guard: whatever is retried, cancelled,      *)
(* reconnected or drained, each order is sent only after the identity it   *)
(* was handed over with has been compared with the terminal.               *)
THEOREM ImplementsGuard == Spec => OrdersAreGuarded
<1>1. Init => Guard!Init
  BY DEF Init, Guard!Init, GuardPlace
<1>2. TypeOK /\ EffectInv /\ [Next]_vars => EffectInv'
  <2>1. EffectInv /\ UNCHANGED vars => EffectInv'
    BY DEF EffectInv, EffectOf, vars, callVars, workVars, brokerVars
  <2>2. QED
    BY <2>1, EffectStep
<1>3. TypeOK /\ EffectInv /\ [Next]_vars => [Guard!Next]_(Guard!vars)
  <2>1. UNCHANGED vars => UNCHANGED Guard!vars
    BY DEF Guard!vars, GuardPlace, vars, callVars, workVars, brokerVars, envVars
  <2>2. QED
    BY <2>1, OrderGuardStep
<1>4. QED
  BY TypeCorrect, EffectInit, <1>1, <1>2, <1>3, PTL DEF Spec, OrdersAreGuarded, Guard!Spec
=============================================================================
