---------------------------- MODULE DecisionLane ----------------------------
(***************************************************************************)
(* From a completed M5 candle to an order: the decision lane of            *)
(* core/engine.py.                                                         *)
(*                                                                         *)
(* The main loop keeps one analysis task per symbol.  A task fetches the   *)
(* candle, screens it, takes one of the candle's few model slots, queues   *)
(* for the local model under a deadline, and carries a BUY or SELL through *)
(* the last gates under the execution lock.  Around it run the health      *)
(* supervisor, which probes the model and arms or disarms entries, the     *)
(* operator, who arms, disarms and may force a rejected trade open, the    *)
(* model, which may be down, and the terminal, whose user may change the   *)
(* account.  The tasks outlive a change of account.                        *)
(*                                                                         *)
(* Coroutines of one event loop: each is cut where it awaits and keeps     *)
(* what it has captured.  What a candle says, what the model answers and   *)
(* what risk validation finds are choices.  A symbol with a managed        *)
(* position is left to the exit reviews (FAST_EXIT_REVIEW_ENABLED, the     *)
(* default).  Positions stay open.                                         *)
(***************************************************************************)
EXTENDS Integers, FiniteSets

CONSTANTS
    Symbols, Accounts, NoAccount,
    Granted,    \* accounts whose autonomy record is persisted
    Limit,      \* llm_entry_candidates_per_bar
    MaxConc,    \* llm_max_concurrency
    Threshold,  \* decision_provider_failure_threshold
    MaxBar,     \* bound: completed candles, at most the eight whose slots are kept
    MaxEvents,  \* bound: operator commands, stops, account switches
    MaxOutages  \* bound: failures of the model's server

ASSUME LaneAssumption ==
    /\ IsFiniteSet(Symbols)
    /\ NoAccount \notin Accounts
    /\ Granted \subseteq Accounts
    /\ Limit \in Nat \ {0} /\ MaxConc \in Nat \ {0} /\ Threshold \in Nat \ {0}
    /\ MaxBar \in 1..8
    /\ MaxEvents \in Nat /\ MaxOutages \in Nat

VARIABLES
    bar, late,   \* the last completed M5 candle; older than max_entry_bar_age_seconds
    terminal,    \* account selected in the MT5 terminal
    held,        \* held[a][s]: positions of account a on s
    loop,        \* the main loop, and the account it is changing to
    active,      \* _active_account_identity
    armed,       \* _armed_account_identity, NoAccount when entries are disarmed
    auto,        \* _autonomous_account_identity while autonomy is enabled
    up,          \* the model completes requests
    ready,       \* _decision_provider_inference_ready
    failures,    \* _consecutive_decision_failures, counted up to Threshold
    lastBar,     \* last_bar_times
    admitted,    \* _entry_model_admissions
    deferred,    \* _signals_waiting_for_rearm
    task,        \* analysis_tasks
    cand,        \* _manual_trade_candidates
    prober,      \* the supervisor and the operator's arm_entries
    desk,        \* the operator's override of a rejected trade
    events,
    (* for the properties *)
    asked,       \* asked[s][b]: whether the model was asked about candle b of s
    blind        \* orders sent where the positions read did not show none

candle == <<bar, late>>
broker == <<terminal, held>>
engine == <<loop, active>>
gate == <<armed, auto>>
provider == <<up, ready, failures>>
lane == <<lastBar, admitted, deferred, task>>
ghosts == <<asked, blind>>
vars == <<candle, broker, engine, gate, provider, lane, cand, prober, desk, events, ghosts>>

Bars == 1..MaxBar
MaybeAccount == Accounts \cup {NoAccount}

(* seen: the account whose positions the task has read.  For the            *)
(* properties: stray, the slots were cleared while the task was queued;     *)
(* crossed, the operator has armed another account than the reviewed one.   *)
Places == {"idle", "confirm", "queued", "asking", "answered", "plan",
           "lock", "account", "positions", "gates", "send"}
TaskState == [at : Places, bar : 0..MaxBar, acct : MaybeAccount, seen : MaybeAccount,
              stray : BOOLEAN, crossed : BOOLEAN]
NoTask == [at |-> "idle", bar |-> 0, acct |-> NoAccount, seen |-> NoAccount,
           stray |-> FALSE, crossed |-> FALSE]

(* other: another order for the symbol was under way or done when it was    *)
(* offered, and may have been for the other side.                          *)
Candidate == [acct : Accounts, bar : Bars, other : BOOLEAN]
NoCandidate == [acct |-> NoAccount, bar |-> 0, other |-> FALSE]

Probers == {"supervisor", "operator"}
ProberState == [at : {"idle", "health", "lock", "slot", "probing", "account"},
                acct : MaybeAccount, llm : BOOLEAN]
IdleProber == [at |-> "idle", acct |-> NoAccount, llm |-> FALSE]

OverrideState == [at : {"idle", "account", "bar", "positions", "send", "finish"},
                  cand : Candidate \cup {NoCandidate}, seen : MaybeAccount]
NoOverride == [at |-> "idle", cand |-> NoCandidate, seen |-> NoAccount]

NoneAsked == [s \in Symbols |-> [b \in Bars |-> "no"]]
NoCandidates == [s \in Symbols |-> NoCandidate]

Init ==
    /\ bar = 1 /\ late \in BOOLEAN
    /\ terminal \in Accounts
    /\ held = [a \in Accounts |-> [s \in Symbols |-> 0]]
    /\ loop = [at |-> "off", acct |-> NoAccount] /\ active = NoAccount
    /\ armed = NoAccount /\ auto = NoAccount
    /\ up = TRUE /\ ready = FALSE /\ failures = 0
    /\ lastBar = [s \in Symbols |-> 0]
    /\ admitted = [b \in Bars |-> {}]
    /\ deferred = {}
    /\ task = [s \in Symbols |-> NoTask]
    /\ cand = NoCandidates
    /\ prober = [p \in Probers |-> IdleProber]
    /\ desk = [s \in Symbols |-> NoOverride]
    /\ events = [user |-> 0, model |-> 0]
    /\ asked = NoneAsked /\ blind = {}

Event == events.user < MaxEvents /\ events' = [events EXCEPT !.user = @ + 1]
Outage == events.model < MaxOutages /\ events' = [events EXCEPT !.model = @ + 1]
Quiet == UNCHANGED events

-----------------------------------------------------------------------------
(* What the actions share.                                                 *)

Disarm == armed' = NoAccount
StayOrDisarm == UNCHANGED armed \/ Disarm

(* _release_deferred_signals_for_rescan                                    *)
Release ==
    /\ lastBar' = [s \in Symbols |-> IF s \in deferred THEN 0 ELSE lastBar[s]]
    /\ deferred' = {}
    /\ asked' = [s \in Symbols |-> [b \in Bars |->
                    IF s \in deferred /\ asked[s][b] = "once" THEN "again" ELSE asked[s][b]]]

(* Mutant: one chained assignment gives the identity the flag. *)
ArmWithFlag(a) == armed' = TRUE /\ Release

(* The lines with which arm_entries and _activate_autonomous_entries arm.   *)
Arm(a) == armed' = a /\ Release

Running == loop.at # "off"

(* Holders of _decision_semaphore, _execution_lock, _provider_probe_lock.   *)
SlotFree ==
    Cardinality({s \in Symbols : task[s].at = "asking"})
       + Cardinality({p \in Probers : prober[p].at = "probing"}) < MaxConc
ExecutionLockFree ==
    \A s \in Symbols :
       /\ desk[s].at = "idle"
       /\ task[s].at \notin {"account", "positions", "gates", "send"}
ProbeLockFree == \A p \in Probers : prober[p].at \notin {"slot", "probing"}

Go(s, place) == task' = [task EXCEPT ![s].at = place]
End(s) == task' = [task EXCEPT ![s] = NoTask]
(* last_bar_times[symbol] = completed_bar: the candle is used up.           *)
Consume(s, b) == lastBar' = [lastBar EXCEPT ![s] = b]

(* _offer_manual_trade_candidate, _clear_manual_trade_candidate             *)
Offer(s) ==
    cand' = [cand EXCEPT ![s] =
       [acct |-> task[s].acct, bar |-> task[s].bar,
        other |-> desk[s].at # "idle" \/ held[task[s].acct][s] > 0]]
Clear(s) == cand' = [cand EXCEPT ![s] = NoCandidate]
MayClear(s) == Clear(s) \/ UNCHANGED cand
(* Without a valid plan, or for a live reversal, nothing is offered.        *)
MayOffer(s) == Offer(s) \/ UNCHANGED cand

(* _entry_bar_is_current, for a candle captured earlier.                    *)
Current(b) == b = bar /\ ~late

-----------------------------------------------------------------------------
(* An analysis, up to the model.                                           *)

(* The main loop starts a task for a symbol without one and without a       *)
(* position, and the task fetches its M5 candle.  A candle that is missing, *)
(* stale or used up changes nothing; one too old to enter on is used up     *)
(* (MISSED CANDLE); any other is analysed for the account of that moment.   *)
Scan(s) ==
    /\ loop.at = "polling"
    /\ task[s].at = "idle" /\ held[active][s] = 0
    /\ lastBar[s] # bar
    /\ \/ late /\ Consume(s, bar) /\ UNCHANGED <<task, cand>>
       \/ /\ ~late /\ Clear(s) /\ UNCHANGED lastBar
          /\ task' = [task EXCEPT ![s] =
                [NoTask EXCEPT !.at = "confirm", !.bar = bar, !.acct = active,
                               !.crossed = armed \notin {NoAccount, active}]]
    /\ UNCHANGED <<admitted, deferred, armed, held, ready, failures, ghosts>>

(* The review ends and its candle is used up.                              *)
Discard(s) ==
    /\ End(s) /\ Consume(s, task[s].bar)
    /\ UNCHANGED <<admitted, deferred, cand, armed, held, ready, failures, ghosts>>

(* M15, H1 or H4 missing or still warming up: the candle is not used up.    *)
Unconfirmed(s) ==
    /\ task[s].at = "confirm"
    /\ End(s)
    /\ UNCHANGED <<lastBar, admitted, deferred, cand, armed, held, ready, failures, ghosts>>

(* The account cannot afford the symbol.                                   *)
CapitalFiltered(s) == task[s].at = "confirm" /\ Discard(s)

(* Prefiltered, no entry evidence or no viable direction.                  *)
SetupFiltered(s) == task[s].at = "confirm" /\ Discard(s)

(* _deterministic_entry_fast_path: no slot, no model, no circuit.           *)
FastPath(s) ==
    /\ task[s].at = "confirm"
    /\ Go(s, "answered")
    /\ UNCHANGED <<lastBar, admitted, deferred, cand, armed, held, ready, failures, ghosts>>

(* Mutant: a candle is never full.                                         *)
AdmitsAny(s) == TRUE

(* _reserve_entry_model_slot: a symbol keeps the slot it has.               *)
Admits(s) ==
    \/ s \in admitted[task[s].bar]
    \/ Cardinality(admitted[task[s].bar]) < Limit

(* RANKED STANDBY, MODEL WARMING UP (the slot is kept, the candle not used  *)
(* up), no time left for the model, or the queue.                          *)
Admit(s) ==
    /\ task[s].at = "confirm"
    /\ IF Admits(s)
       THEN /\ admitted' = [admitted EXCEPT ![task[s].bar] = @ \cup {s}]
            /\ \/ ~ready /\ End(s) /\ UNCHANGED lastBar
               \/ ready /\ End(s) /\ Consume(s, task[s].bar)
               \/ ready /\ Go(s, "queued") /\ UNCHANGED lastBar
       ELSE End(s) /\ Consume(s, task[s].bar) /\ UNCHANGED admitted
    /\ UNCHANGED <<deferred, cand, armed, held, ready, failures, ghosts>>

(* The semaphore is taken and the request sent.                            *)
Ask(s) ==
    /\ task[s].at = "queued"
    /\ SlotFree
    /\ Go(s, "asking")
    /\ asked' = IF task[s].stray THEN asked ELSE [asked EXCEPT ![s][task[s].bar] = "once"]
    /\ UNCHANGED <<lastBar, admitted, deferred, cand, armed, held, ready, failures, blind>>

(* Mutant: a candle whose deadline passed is left for the next poll.        *)
ExpireForRetry(s) ==
    /\ task[s].at \in {"queued", "asking"}
    /\ End(s)
    /\ UNCHANGED <<lastBar, admitted, deferred, cand, armed, held, ready, failures, ghosts>>

(* Mutant: only a request that was sent has a deadline.                    *)
ExpireAsked(s) == task[s].at = "asking" /\ Discard(s)

(* asyncio.timeout around the semaphore and the request.                   *)
Expire(s) == task[s].at \in {"queued", "asking"} /\ Discard(s)

-----------------------------------------------------------------------------
(* The answer.                                                             *)

(* LocalDecisionProvider.request: all its attempts, down to a decision.     *)
Completes == up

(* _record_decision_provider_result                                        *)
RecordResult(success) ==
    IF success
    THEN ready' = TRUE /\ failures' = 0 /\ UNCHANGED armed
    ELSE IF failures + 1 < Threshold
    THEN failures' = failures + 1 /\ UNCHANGED <<ready, armed>>
    ELSE failures' = Threshold /\ ready' = FALSE /\ Disarm

(* A completion that fails has no decision in it, and ends the review.      *)
Answer(s) ==
    /\ task[s].at = "asking"
    /\ \/ Completes /\ RecordResult(TRUE) /\ Go(s, "answered") /\ UNCHANGED lastBar
       \/ RecordResult(FALSE) /\ End(s) /\ Consume(s, task[s].bar)
    /\ UNCHANGED <<admitted, deferred, cand, held, ghosts>>

(* DecisionValidator refuses it: one candle, one attempt.                  *)
Invalid(s) == task[s].at = "answered" /\ Discard(s)

(* HOLD, or CLOSE without a position, ends the review; BUY and SELL are     *)
(* planned.                                                                *)
Valid(s) ==
    /\ task[s].at = "answered"
    /\ Consume(s, task[s].bar)
    /\ End(s) \/ Go(s, "plan")
    /\ UNCHANGED <<admitted, deferred, cand, armed, held, ready, failures, ghosts>>

(* Shadow symbol, symbol out of the ranking, no valid plan, decision too    *)
(* old; confidence below the gate, which leaves the operator a candidate.   *)
Declined(s) ==
    /\ task[s].at = "plan"
    /\ End(s) /\ MayOffer(s)
    /\ UNCHANGED <<lastBar, admitted, deferred, armed, held, ready, failures, ghosts>>

(* SIGNAL - DISARMED: the signal waits for entries to be armed.             *)
Defer(s) ==
    /\ task[s].at = "plan"
    /\ armed = NoAccount
    /\ End(s) /\ MayOffer(s)
    /\ deferred' = deferred \cup {s}
    /\ UNCHANGED <<lastBar, admitted, armed, held, ready, failures, ghosts>>

Proceed(s) ==
    /\ task[s].at = "plan"
    /\ armed # NoAccount
    /\ Go(s, "lock")
    /\ UNCHANGED <<lastBar, admitted, deferred, cand, armed, held, ready, failures, ghosts>>

-----------------------------------------------------------------------------
(* The last gates, under the execution lock.                               *)

(* Mutant: the gates run without the lock. *)
AcquireAnyway(s) ==
    /\ task[s].at = "lock"
    /\ Go(s, "account")
    /\ UNCHANGED <<lastBar, admitted, deferred, cand, armed, held, ready, failures, ghosts>>

(* Once the lock is held, the protection and the ranking are looked at.     *)
Acquire(s) ==
    /\ task[s].at = "lock"
    /\ ExecutionLockFree
    /\ \/ End(s) /\ StayOrDisarm
       \/ Go(s, "account") /\ UNCHANGED armed
    /\ UNCHANGED <<lastBar, admitted, deferred, cand, held, ready, failures, ghosts>>

(* The account read now is the armed one, and its history is reconciled.    *)
CheckAccount(s) ==
    /\ task[s].at = "account"
    /\ \/ End(s) /\ Disarm
       \/ terminal = armed /\ Go(s, "positions") /\ UNCHANGED armed
    /\ UNCHANGED <<lastBar, admitted, deferred, cand, held, ready, failures, ghosts>>

(* Positions cannot be read; there is one on the symbol; there is none.     *)
CheckPositions(s) ==
    /\ task[s].at = "positions"
    /\ \/ End(s) /\ Disarm
       \/ held[terminal][s] > 0 /\ End(s) /\ UNCHANGED armed
       \/ /\ held[terminal][s] = 0
          /\ task' = [task EXCEPT ![s].at = "gates", ![s].seen = terminal]
          /\ UNCHANGED armed
    /\ UNCHANGED <<lastBar, admitted, deferred, cand, held, ready, failures, ghosts>>

(* No quote, or no valid plan at this quote.                               *)
Unpriced(s) ==
    /\ task[s].at = "gates"
    /\ End(s)
    /\ UNCHANGED <<lastBar, admitted, deferred, cand, armed, held, ready, failures, ghosts>>

(* risk.validate refuses, which leaves the operator a candidate; its result *)
(* has no usable volume or budget, which does not.                         *)
RiskRefuses(s) ==
    /\ task[s].at = "gates"
    /\ End(s) /\ MayOffer(s)
    /\ UNCHANGED <<lastBar, admitted, deferred, armed, held, ready, failures, ghosts>>

(* The candle is no longer the last, the decision is too old, or the live   *)
(* reversal is over: DECISION EXPIRED, however current the candle is.       *)
Expired(s) ==
    /\ task[s].at = "gates"
    /\ End(s)
    /\ UNCHANGED <<lastBar, admitted, deferred, cand, armed, held, ready, failures, ghosts>>

Approve(s) ==
    /\ task[s].at = "gates"
    /\ Current(task[s].bar)
    /\ Go(s, "send")
    /\ UNCHANGED <<lastBar, admitted, deferred, cand, armed, held, ready, failures, ghosts>>

(* Mutant: the executor is given no account to compare. *)
Matches(expected) == TRUE

(* The executor compares the terminal with the expected account; None is    *)
(* not compared with anything.                                             *)
AccountMatches(expected) == expected \in {terminal, NoAccount}

(* A position appears; blind if read, the account whose positions showed    *)
(* none on the symbol, is not this one.                                    *)
Open(s, read) ==
    /\ held' = [held EXCEPT ![terminal][s] = @ + 1]
    /\ blind' = IF read = terminal THEN blind ELSE blind \cup {<<terminal, s>>}

(* _persist_initial_risk: a risk that cannot be priced or stored locks      *)
(* entries.                                                                *)
StoreRisk == StayOrDisarm

(* executor.open_trade: opened; refused; or uncertain, which locks entries. *)
Send(s) ==
    /\ task[s].at = "send"
    /\ End(s)
    /\ \/ UNCHANGED <<held, blind, armed, cand>>
       \/ AccountMatches(armed) /\ Open(s, task[s].seen) /\ Clear(s) /\ StoreRisk
       \/ AccountMatches(armed) /\ Open(s, task[s].seen) /\ UNCHANGED cand /\ Disarm
       \/ UNCHANGED <<held, blind, cand>> /\ Disarm
    /\ UNCHANGED <<lastBar, admitted, deferred, ready, failures, asked>>

TaskStep(s) ==
    /\ \/ Unconfirmed(s) \/ CapitalFiltered(s) \/ SetupFiltered(s) \/ FastPath(s) \/ Admit(s)
       \/ Ask(s) \/ Expire(s) \/ Answer(s) \/ Invalid(s) \/ Valid(s)
       \/ Declined(s) \/ Defer(s) \/ Proceed(s)
       \/ Acquire(s) \/ CheckAccount(s) \/ CheckPositions(s)
       \/ Unpriced(s) \/ RiskRefuses(s) \/ Expired(s) \/ Approve(s) \/ Send(s)
    /\ UNCHANGED <<candle, terminal, engine, auto, up, prober, desk>> /\ Quiet

-----------------------------------------------------------------------------
(* The health of the model: _ensure_decision_provider_ready, run by the     *)
(* supervisor (_autonomy_health_loop) and by arm_entries.                  *)

ProberGo(p, place) == prober' = [prober EXCEPT ![p].at = place]

(* A confirmed command to arm account a; for the properties, the reviews    *)
(* of other accounts in flight are crossed.                                *)
OperatorArms(a) ==
    /\ Arm(a)
    /\ task' = [s \in Symbols |->
          IF task[s].at # "idle" /\ task[s].acct # a
          THEN [task[s] EXCEPT !.crossed = TRUE] ELSE task[s]]

(* Mutant: the supervisor leaves entries armed when the model is not ready. *)
SettleWithoutDisarm(p, llm) ==
    IF p = "supervisor"
    THEN /\ prober' = [prober EXCEPT ![p] =
               IF auto = NoAccount THEN IdleProber ELSE [@ EXCEPT !.at = "account", !.llm = llm]]
         /\ UNCHANGED <<armed, lastBar, deferred, task, asked>>
    ELSE /\ prober' = [prober EXCEPT ![p] = IdleProber]
         /\ IF llm THEN OperatorArms(prober[p].acct)
                   ELSE UNCHANGED <<armed, lastBar, deferred, task, asked>>

(* The answer is in: the supervisor disarms if the model is not ready and,  *)
(* with autonomy, goes on to the account; the operator's command arms the   *)
(* account it read at its start, or is refused.                            *)
Settle(p, llm) ==
    IF p = "supervisor"
    THEN /\ prober' = [prober EXCEPT ![p] =
               IF auto = NoAccount THEN IdleProber ELSE [@ EXCEPT !.at = "account", !.llm = llm]]
         /\ IF llm THEN UNCHANGED armed ELSE Disarm
         /\ UNCHANGED <<lastBar, deferred, task, asked>>
    ELSE /\ prober' = [prober EXCEPT ![p] = IdleProber]
         /\ IF llm THEN OperatorArms(prober[p].acct)
                   ELSE UNCHANGED <<armed, lastBar, deferred, task, asked>>

(* The supervisor's next round, while its loop exists; the operator's       *)
(* command has read the account before.                                    *)
HealthDue(p) ==
    \/ p = "supervisor" /\ Running /\ prober[p].at = "idle"
    \/ prober[p].at = "health"

(* health_check: the server does not answer, or not with the model, context *)
(* and quantization required.  That it does proves no completion.          *)
Unavailable == ~up

Health(p) ==
    /\ HealthDue(p)
    /\ \/ Unavailable /\ ready' = FALSE /\ Settle(p, FALSE)
       \/ ready /\ UNCHANGED ready /\ Settle(p, TRUE)
       \/ /\ ~ready
          /\ ProberGo(p, "lock")
          /\ UNCHANGED <<ready, armed, lastBar, deferred, task, asked>>
    /\ UNCHANGED failures

(* The probe lock is taken; another prober may have found it ready.         *)
TakeProbeLock(p) ==
    /\ prober[p].at = "lock"
    /\ ProbeLockFree
    /\ IF ready THEN Settle(p, TRUE)
       ELSE ProberGo(p, "slot") /\ UNCHANGED <<armed, lastBar, deferred, task, asked>>
    /\ UNCHANGED <<ready, failures>>

TakeSlot(p) ==
    /\ prober[p].at = "slot"
    /\ SlotFree
    /\ ProberGo(p, "probing")
    /\ UNCHANGED <<armed, lastBar, deferred, task, asked, ready, failures>>

(* Mutant: a probe that succeeds only clears the count. *)
ProbedCountOnly(p) ==
    /\ prober[p].at = "probing"
    /\ UNCHANGED ready
    /\ IF up THEN failures' = 0 ELSE UNCHANGED failures
    /\ Settle(p, ready)

(* readiness_probe: one completion.                                        *)
Probed(p) ==
    /\ prober[p].at = "probing"
    /\ ready' = Completes
    /\ IF Completes THEN failures' = 0 ELSE UNCHANGED failures
    /\ Settle(p, Completes)

(* The supervisor's decision, with the readiness it found before it read    *)
(* the account: fail closed, or restore the authorization of that account. *)
Decide(p) ==
    /\ p = "supervisor" /\ prober[p].at = "account"
    /\ prober' = [prober EXCEPT ![p] = IdleProber]
    /\ \/ Disarm /\ UNCHANGED <<lastBar, deferred, asked>>
       \/ /\ prober[p].llm /\ terminal = auto
          /\ IF armed = NoAccount THEN Arm(terminal)
             ELSE UNCHANGED <<armed, lastBar, deferred, asked>>
    /\ UNCHANGED <<task, ready, failures>>

ProbeStep(p) ==
    /\ Health(p) \/ TakeProbeLock(p) \/ TakeSlot(p) \/ Probed(p) \/ Decide(p)
    /\ UNCHANGED <<candle, broker, engine, auto, up, admitted, cand, desk, blind>> /\ Quiet

-----------------------------------------------------------------------------
(* The operator: arm, disarm, and force a rejected trade open.             *)

ArmBegin ==
    /\ Running /\ prober["operator"].at = "idle" /\ Event
    /\ prober' = [prober EXCEPT !["operator"] =
                     [at |-> "health", acct |-> terminal, llm |-> FALSE]]
    /\ UNCHANGED <<candle, broker, engine, gate, provider, lane, cand, desk, ghosts>>

(* operator_disarm_entries, which also ends autonomy.                      *)
OperatorDisarms ==
    /\ armed # NoAccount /\ Event
    /\ Disarm /\ auto' = NoAccount
    /\ UNCHANGED <<candle, broker, engine, provider, lane, cand, prober, desk, ghosts>>

(* _prepare_manual_trade_override, under the execution lock.               *)
OverrideBegin(s) ==
    /\ ExecutionLockFree /\ Running /\ cand[s] # NoCandidate /\ Event
    /\ desk' = [desk EXCEPT ![s] = [at |-> "account", cand |-> cand[s], seen |-> NoAccount]]
    /\ UNCHANGED <<candle, broker, engine, gate, provider, lane, cand, prober, ghosts>>

OverrideGo(s, place) == desk' = [desk EXCEPT ![s].at = place]
OverrideEnds(s) == desk' = [desk EXCEPT ![s] = NoOverride]

(* The account must be the candidate's; a candidate of another is dropped.  *)
OverrideAccount(s) ==
    /\ desk[s].at = "account"
    /\ \/ OverrideEnds(s) /\ UNCHANGED cand
       \/ terminal # desk[s].cand.acct /\ OverrideEnds(s) /\ Clear(s)
       \/ terminal = desk[s].cand.acct /\ OverrideGo(s, "bar") /\ UNCHANGED cand
    /\ UNCHANGED <<held, blind, armed>>

(* The candle must be the current one.                                     *)
OverrideBar(s) ==
    /\ desk[s].at = "bar"
    /\ IF Current(desk[s].cand.bar)
       THEN OverrideGo(s, "positions") /\ UNCHANGED cand
       ELSE OverrideEnds(s) /\ Clear(s)
    /\ UNCHANGED <<held, blind, armed>>

(* validate_manual_override: no second position on the side it is for; its  *)
(* other checks are choices.                                               *)
ManualRiskAllows(s) == held[terminal][s] = 0 \/ desk[s].cand.other

(* Positions, quote, risk, margin; a price beyond the plan drops the        *)
(* candidate.  A preview ends here.                                        *)
OverrideCheck(s) ==
    /\ desk[s].at = "positions"
    /\ \/ OverrideEnds(s) /\ MayClear(s)
       \/ /\ ManualRiskAllows(s)
          /\ desk' = [desk EXCEPT ![s].at = "send",
                         ![s].seen = IF held[terminal][s] = 0 THEN terminal ELSE NoAccount]
          /\ UNCHANGED cand
    /\ UNCHANGED <<held, blind, armed>>

(* open_rejected_trade sends it; a stopped engine's executor refuses.       *)
OverrideSend(s) ==
    /\ desk[s].at = "send"
    /\ \/ OverrideEnds(s) /\ StayOrDisarm /\ UNCHANGED <<held, blind>>
       \/ /\ Running /\ AccountMatches(desk[s].cand.acct)
          /\ Open(s, desk[s].seen)
          /\ \/ OverrideEnds(s) /\ Disarm
             \/ OverrideGo(s, "finish") /\ StoreRisk
    /\ UNCHANGED cand

OverrideFinish(s) ==
    /\ desk[s].at = "finish"
    /\ OverrideEnds(s) /\ Clear(s)
    /\ UNCHANGED <<held, blind, armed>>

DeskStep(s) ==
    /\ \/ OverrideAccount(s) \/ OverrideBar(s) \/ OverrideCheck(s)
       \/ OverrideSend(s) \/ OverrideFinish(s)
    /\ UNCHANGED <<candle, terminal, engine, auto, provider, lane, prober, asked>> /\ Quiet

-----------------------------------------------------------------------------
(* start(), stop() and the main loop's change of account.                  *)

ClearsSlots == admitted' = [b \in Bars |-> {}] /\ asked' = NoneAsked

(* EntryAuthorization takes start() apart; the record may fail to load.     *)
Start ==
    /\ ~Running
    /\ loop' = [at |-> "polling", acct |-> terminal] /\ active' = terminal
    /\ Disarm /\ auto' \in {NoAccount} \cup ({terminal} \cap Granted)
    /\ ready' = FALSE /\ failures' = 0
    /\ ClearsSlots
    /\ UNCHANGED <<candle, broker, up, lastBar, deferred, task, cand, prober, desk, blind>>
    /\ Quiet

(* The tasks are cancelled; an order a worker is sending may still open.    *)
Stop ==
    /\ Running /\ Event
    /\ loop' = [at |-> "off", acct |-> NoAccount]
    /\ Disarm /\ cand' = NoCandidates
    /\ task' = [s \in Symbols |-> NoTask]
    /\ prober' = [prober EXCEPT !["supervisor"] = IdleProber]
    /\ ClearsSlots
    /\ \/ UNCHANGED <<held, blind>>
       \/ \E s \in Symbols :
             task[s].at = "send" /\ AccountMatches(armed) /\ Open(s, task[s].seen)
    /\ UNCHANGED <<candle, terminal, active, auto, provider, lastBar, deferred, desk>>

(* Another account is found in the terminal.                               *)
SeeAccount ==
    /\ loop.at = "polling" /\ terminal # active
    /\ loop' = [at |-> "switching", acct |-> terminal]
    /\ Disarm /\ auto' = NoAccount /\ cand' = NoCandidates
    /\ lastBar' = [s \in Symbols |-> 0]
    /\ ClearsSlots
    /\ task' = [s \in Symbols |->
          IF task[s].at = "queued" THEN [task[s] EXCEPT !.stray = TRUE] ELSE task[s]]
    /\ UNCHANGED <<candle, broker, active, provider, deferred, prober, desk, blind>> /\ Quiet

(* Its markers are restored and its history reconciled.                    *)
Switched ==
    /\ loop.at = "switching"
    /\ loop' = [loop EXCEPT !.at = "polling"] /\ active' = loop.acct
    /\ UNCHANGED <<candle, broker, gate, provider, lane, cand, prober, desk, ghosts>> /\ Quiet

-----------------------------------------------------------------------------
(* The market, the terminal's user, the model.                             *)

NewCandle ==
    /\ bar < MaxBar
    /\ bar' = bar + 1 /\ late' = FALSE
    /\ UNCHANGED <<broker, engine, gate, provider, lane, cand, prober, desk, ghosts>> /\ Quiet

CandleAges ==
    /\ ~late /\ late' = TRUE
    /\ UNCHANGED <<bar, broker, engine, gate, provider, lane, cand, prober, desk, ghosts>>
    /\ Quiet

SwitchAccount(a) ==
    /\ a # terminal /\ Event
    /\ terminal' = a
    /\ UNCHANGED <<candle, held, engine, gate, provider, lane, cand, prober, desk, ghosts>>

ModelFails ==
    /\ up /\ Outage
    /\ up' = FALSE
    /\ UNCHANGED <<candle, broker, engine, gate, ready, failures, lane, cand, prober, desk,
                   ghosts>>

ModelReturns ==
    /\ ~up
    /\ up' = TRUE
    /\ UNCHANGED <<candle, broker, engine, gate, ready, failures, lane, cand, prober, desk,
                   ghosts>> /\ Quiet

ScanStep(s) ==
    /\ Scan(s)
    /\ UNCHANGED <<candle, terminal, engine, auto, up, prober, desk>> /\ Quiet

EngineStep == SeeAccount \/ Switched

Next ==
    \/ \E s \in Symbols : ScanStep(s) \/ TaskStep(s) \/ OverrideBegin(s) \/ DeskStep(s)
    \/ \E p \in Probers : ProbeStep(p)
    \/ ArmBegin \/ OperatorDisarms
    \/ Start \/ Stop \/ EngineStep
    \/ NewCandle \/ CandleAges \/ ModelFails \/ ModelReturns
    \/ \E a \in Accounts : SwitchAccount(a)

Spec == Init /\ [][Next]_vars

(* Coroutines that can run do.  Nothing is assumed of the operator, the     *)
(* terminal, the model (a request may hang: it has a deadline) or start(). *)
LiveSpec ==
    /\ Spec
    /\ \A s \in Symbols : WF_vars(TaskStep(s)) /\ WF_vars(DeskStep(s))
    /\ \A p \in Probers : WF_vars(ProbeStep(p))
    /\ WF_vars(EngineStep)

-----------------------------------------------------------------------------
TypeOK ==
    /\ bar \in Bars /\ late \in BOOLEAN
    /\ terminal \in Accounts
    /\ held \in [Accounts -> [Symbols -> Nat]]
    /\ loop \in [at : {"off", "polling", "switching"}, acct : MaybeAccount]
    /\ active \in MaybeAccount /\ (Running => active # NoAccount)
    /\ armed \in MaybeAccount /\ auto \in MaybeAccount
    /\ up \in BOOLEAN /\ ready \in BOOLEAN /\ failures \in 0..Threshold
    /\ lastBar \in [Symbols -> 0..MaxBar]
    /\ admitted \in [Bars -> SUBSET Symbols]
    /\ deferred \subseteq Symbols
    /\ task \in [Symbols -> TaskState]
    /\ cand \in [Symbols -> Candidate \cup {NoCandidate}]
    /\ prober \in [Probers -> ProberState]
    /\ desk \in [Symbols -> OverrideState]
    /\ events \in [user : 0..MaxEvents, model : 0..MaxOutages]
    /\ asked \in [Symbols -> [Bars -> {"no", "once", "again"}]]
    /\ blind \subseteq Accounts \X Symbols

(* The model is asked about at most Limit symbols for one candle, whatever  *)
(* happens to the tasks that hold the slots, until a stop or a change of    *)
(* account clears the slots (_reserve_entry_model_slot, README "bounded").  *)
AdmissionBound ==
    \A b \in Bars : Cardinality({s \in Symbols : asked[s][b] # "no"}) <= Limit

(* One completed candle receives one decision attempt (the comment in       *)
(* _evaluate_symbol, README "at most one decision"): a symbol is asked      *)
(* about again only after arming released its deferred signal, or after a   *)
(* stop or a change of account forgot the candle.                          *)
OneAttemptPerCandle ==
    [][\A s \in Symbols :
          task[s].at = "queued" /\ task'[s].at = "asking" => asked[s][task[s].bar] # "once"]_vars

(* The pipeline and the operator's override together never put a second     *)
(* position on a symbol of an account, unless an order went to an account   *)
(* other than the one whose positions had been read, or the operator forced *)
(* a trade of the other side open.                                         *)
OnePositionPerSymbol ==
    \A a \in Accounts, s \in Symbols : held[a][s] <= 1 \/ <<a, s>> \in blind

(* The places under the execution lock.                                    *)
Locked == {"account", "positions", "gates", "send"}

(* Reviews and overrides are alone between their account check and the      *)
(* reply to their order (_execution_lock), through stops, restarts and      *)
(* changes of account.                                                     *)
OneHolder ==
    \A s, u \in Symbols :
        /\ task[s].at \in Locked /\ task[u].at \in Locked => s = u
        /\ desk[s].at # "idle" /\ desk[u].at # "idle" => s = u
        /\ ~(task[s].at \in Locked /\ desk[u].at # "idle")

(* What an engine left alone may hold: one position on a symbol, and only   *)
(* on an account whose autonomy record is persisted, whatever the model and *)
(* the candles do and however often it locks and arms itself.              *)
HeldByRecord ==
    \A a \in Accounts, s \in Symbols : held[a][s] <= IF a \in Granted THEN 1 ELSE 0

(* A review opens a position on the account it was made for and no other,   *)
(* unless the operator has armed another meanwhile, or entries were         *)
(* disarmed with its order under way, which then names no account.         *)
OrderOnReviewedAccount ==
    [][\A s \in Symbols :
          /\ task[s].at = "send" /\ ~task[s].crossed /\ armed # NoAccount
          /\ held'[terminal][s] > held[terminal][s]
          => task[s].acct = terminal]_vars

(* Every review ends: no slot, lock or silent model holds one forever.      *)
ReviewEnds == \A s \in Symbols : task[s].at # "idle" ~> task[s].at = "idle"

(* Entries armed while the circuit is open, which the supervisor itself may *)
(* do with the readiness it read earlier, do not stay so.                  *)
CircuitFailsClosed ==
    (armed # NoAccount /\ ~ready /\ Running) ~> (armed = NoAccount \/ ready \/ ~Running)

(* A model that works again is found to: the probe gets its slot.           *)
CircuitRecovers == <>[](up /\ Running) => <>[]ready
=============================================================================
