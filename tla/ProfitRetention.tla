-------------------------- MODULE ProfitRetention --------------------------
(***************************************************************************)
(* The profit floor of an open position: desired, stored and at the broker.*)
(*                                                                         *)
(* core/profit_retention.py computes a floor under the net profit of a     *)
(* position that never falls while its size stays the same.  On every poll *)
(* the protection loop of core/engine.py advances it, keeps it in memory   *)
(* and in the database, closes the position once the profit is down to it, *)
(* and asks execution/executor.py for a broker stop that retains it.  The  *)
(* loop holds the execution lock throughout, and so do the dashboard's     *)
(* close and modify; a trader at the MT5 terminal waits for no lock.       *)
(*                                                                         *)
(* One position is followed, on one account (PositionPeaks has the account *)
(* switches).  Money is in whole cents.  quote and sl are the net profit   *)
(* per unit of volume at the market price and at the stop loss; a stop     *)
(* that is at a loss, or absent, is LossStop.                              *)
(***************************************************************************)
EXTENDS Integers

CONSTANTS
    Sizes,          \* volumes the position may have
    Quotes,         \* profits per unit of volume the market may show
    Risks,          \* initial_risk_usd values; 0 when it is not known
    Tiers,          \* floors _profit_lock_target may ask for; 0 for none
    Trigger,        \* profit_retention_trigger_usd
    TriggerR,       \* profit_retention_trigger_r
    MatureR,        \* profit_retention_mature_trigger_r
    Keep,           \* profit_retention_keep_fraction, in percent
    MatureKeep,     \* profit_retention_mature_keep_fraction, in percent
    CashFloor,      \* profit_lock_final_floor_usd
    Headroom,       \* profit_retention_min_headroom_usd
    Giveback,       \* profit_giveback_enabled
    MaxFaults,      \* bound: crashes, failed calls
    MaxTrades       \* bound: changes of size or stop by the operator

(* The conditions under which advance_retention accepts its policy.        *)
ASSUME RetentionAssumption ==
    /\ Sizes \subseteq Nat \ {0}
    /\ Quotes \subseteq Int
    /\ Risks \subseteq Nat
    /\ Tiers \subseteq Nat /\ 0 \in Tiers
    /\ {Trigger, TriggerR, Headroom} \subseteq Nat \ {0}
    /\ MatureR \in Nat /\ MatureR >= TriggerR
    /\ Keep \in 1..99 /\ MatureKeep \in Keep..99
    /\ CashFloor \in Nat /\ Trigger >= CashFloor + Headroom
    /\ Giveback \in BOOLEAN
    /\ MaxFaults \in Nat /\ MaxTrades \in Nat

VARIABLES
    open,       \* the position exists at the broker
    size,       \* its volume
    quote,      \* the market
    sl,         \* its stop loss
    stored,     \* the cached record; Empty when there is none
    state,      \* _profit_retention_states of the ticket
    loaded,     \* the ticket is in _profit_retention_loaded
    persisted,  \* _profit_retention_persisted of the ticket
    lockLevel,  \* _profit_lock_levels of the ticket
    loop,       \* where the loop is and what it keeps across its awaits
    faults, trades,
    (* for the properties *)
    kept,       \* the last record known to be stored; Empty after a resize
    lost,       \* a read of the record has failed
    torn,       \* size or stop changed while the loop held the lock
    eased       \* the operator has lowered the stop

memory == <<state, loaded, persisted, lockLevel>>
broker == <<open, size, quote, sl>>
ghosts == <<kept, lost, torn, eased>>
vars == <<broker, stored, memory, loop, faults, trades, ghosts>>

LossStop == -1

Records == [peak : Nat, floor : Nat, volume : Nat, reference : Nat]
Empty == [peak |-> 0, floor |-> 0, volume |-> 0, reference |-> 0]

(* from_dict takes these; it answers Empty for anything else.              *)
Readable(r) == r.floor <= r.peak /\ r.volume > 0 /\ r.reference >= r.volume

FromDict(r) == IF Readable(r) THEN r ELSE Empty

(* The rules that move the stop, in their order.                           *)
Rules == {"lock", "breakeven", "trailing"}
Places == {"idle", "refreshed", "fetching", "writing", "deciding", "planning", "modifying"}

(* net, vol and risk are the snapshot; next is a state that waits for the  *)
(* record; level is a planned stop and floor the floor it is planned for.  *)
LoopState == [at : Places, net : Int, vol : Nat, risk : Nat, next : Records,
              rule : Rules, level : Int, floor : Nat]

Idle == [at |-> "idle", net |-> 0, vol |-> 0, risk |-> 0, next |-> Empty,
         rule |-> "lock", level |-> 0, floor |-> 0]

Greater(m, n) == IF m > n THEN m ELSE n
Lesser(m, n) == IF m < n THEN m ELSE n

Fault == faults < MaxFaults /\ faults' = faults + 1

-----------------------------------------------------------------------------
(* advance_retention                                                       *)

(* The share of an amount for v of w units, rounded down or up.            *)
Scale(x, v, w) == (x * v) \div w
ScaleUp(x, v, w) == (x * v + w - 1) \div w

(* Mutant of Resized: a partial close scales the peak, but not the floor.  *)
PeakResized(r, v) ==
    IF v < r.volume
    THEN [r EXCEPT !.peak = Scale(@, v, r.volume), !.volume = v]
    ELSE IF v > r.volume
    THEN [peak |-> 0, floor |-> 0, volume |-> v, reference |-> v]
    ELSE r

(* A partial close scales the record to what remains; an addition, or the  *)
(* first observation, starts it anew.                                      *)
Resized(r, v) ==
    IF v < r.volume
    THEN [peak |-> Scale(r.peak, v, r.volume), floor |-> Scale(r.floor, v, r.volume),
          volume |-> v, reference |-> r.reference]
    ELSE IF v > r.volume
    THEN [peak |-> 0, floor |-> 0, volume |-> v, reference |-> v]
    ELSE r

(* Once there is a floor the trigger is not required again.  The peak is   *)
(* compared with multiples of the initial risk of what remains; an unknown *)
(* risk leaves the cash trigger alone.                                     *)
Eligible(r, risk) ==
    \/ r.floor > 0
    \/ r.peak >= Trigger /\ r.peak * r.reference >= TriggerR * risk * r.volume

Mature(r, risk) == risk > 0 /\ r.peak * r.reference >= MatureR * risk * r.volume

Candidate(r, risk) ==
    Lesser(Greater(Scale(CashFloor, r.volume, r.reference),
                   Scale(r.peak, IF Mature(r, risk) THEN MatureKeep ELSE Keep, 100)),
           r.peak - ScaleUp(Headroom, r.volume, r.reference))

(* Mutant of Raised: the floor follows the candidate down.                 *)
Following(r, risk) ==
    [r EXCEPT !.floor = IF Eligible(r, risk) THEN Greater(0, Candidate(r, risk)) ELSE @]

Raised(r, risk) ==
    [r EXCEPT !.floor = IF Eligible(r, risk) THEN Greater(@, Candidate(r, risk)) ELSE @]

Advance(r, net, v, risk) ==
    Raised([Resized(r, v) EXCEPT !.peak = Greater(@, net)], risk)

(* Observations made while the record could not be read are kept.          *)
Joined(r, s) ==
    [peak |-> Greater(r.peak, s.peak), floor |-> Greater(r.floor, s.floor),
     volume |-> r.volume, reference |-> Greater(r.reference, s.reference)]

-----------------------------------------------------------------------------
Init ==
    /\ open = TRUE
    /\ size \in Sizes
    /\ quote \in Quotes
    /\ sl = LossStop
    /\ stored = Empty
    /\ state = Empty /\ loaded = FALSE /\ persisted = Empty /\ lockLevel = 0
    /\ loop = Idle
    /\ faults = 0 /\ trades = 0
    /\ kept = Empty /\ lost = FALSE /\ torn = FALSE /\ eased = FALSE

(* Mutant of Forget: the sentinel of a lost stop goes into the lock level. *)
ForgetToLoss ==
    state' = Empty /\ loaded' = FALSE /\ persisted' = Empty /\ lockLevel' = LossStop

(* _forget_position_runtime_state                                          *)
Forget == state' = Empty /\ loaded' = FALSE /\ persisted' = Empty /\ lockLevel' = 0

Rest == loop' = Idle
Go(place) == loop' = [loop EXCEPT !.at = place]

(* The ticket is read again under the lock (_refresh_protection_snapshot). *)
Refresh ==
    /\ loop.at = "idle"
    /\ \/ Fault /\ Rest /\ UNCHANGED memory
       \/ /\ open
          /\ \E r \in Risks :
                loop' = [Idle EXCEPT !.at = "refreshed", !.net = quote * size, !.vol = size,
                                     !.risk = r]
          /\ UNCHANGED <<memory, faults>>
       \/ ~open /\ Forget /\ Rest /\ UNCHANGED faults
    /\ UNCHANGED <<broker, stored, trades, ghosts>>

(* A close by the executor.  A failure may still have closed the position, *)
(* when only the reply was lost.                                           *)
AttemptClose(place) ==
    \/ open /\ open' = FALSE /\ Forget /\ Rest /\ UNCHANGED faults
    \/ Fault /\ open' \in {open, FALSE} /\ Go(place) /\ UNCHANGED memory
    \/ ~open /\ Go(place) /\ UNCHANGED <<open, memory, faults>>

(* The state of memory is settled; a change is written to the database.    *)
(* The risk is not looked at again, except by the tiers.                   *)
Settle(r, known) ==
    /\ state' = r
    /\ loaded' = TRUE
    /\ persisted' = known
    /\ loop' = [loop EXCEPT !.at = IF r = known THEN "deciding" ELSE "writing",
                            !.next = Empty, !.risk = 0]

(* Mutant of RetiredLock: the level of the larger position is kept.        *)
LastingLock(r) == lockLevel

(* "The same broker SL now represents a different cash amount."            *)
RetiredLock(r) == IF state.volume > 0 /\ r.volume # state.volume THEN 0 ELSE lockLevel

(* The rules before retention have not fired, or one has and may close;    *)
(* then _update_profit_retention, up to its first await.                   *)
CloseEarly ==
    /\ loop.at = "refreshed"
    /\ open /\ open' = FALSE
    /\ Forget
    /\ Rest
    /\ UNCHANGED <<size, quote, sl, stored, faults, trades, ghosts>>

Retain ==
    /\ loop.at = "refreshed"
    /\ LET r == Advance(state, loop.net, loop.vol, loop.risk)
       IN  /\ lockLevel' = RetiredLock(r)
           /\ kept' = IF r.volume = kept.volume THEN kept ELSE Empty
           /\ IF loaded
              THEN Settle(r, persisted)
              ELSE /\ loop' = [loop EXCEPT !.at = "fetching", !.next = r]
                   /\ UNCHANGED <<state, loaded, persisted>>
    /\ UNCHANGED <<broker, stored, faults, trades, lost, torn, eased>>

Restored(r) == Advance(r, loop.net, loop.vol, loop.risk)

(* get_cache; a failed read answers as a missing record does.              *)
Fetch ==
    /\ loop.at = "fetching"
    /\ \/ /\ Settle(Joined(loop.next, Restored(FromDict(stored))), FromDict(stored))
          /\ UNCHANGED <<faults, lost>>
       \/ /\ Fault
          /\ Settle(Joined(loop.next, Restored(Empty)), Empty)
          /\ lost' = TRUE
    /\ UNCHANGED <<broker, stored, lockLevel, trades, kept, torn, eased>>

(* set_cache, which may fail.                                              *)
Write ==
    /\ loop.at = "writing"
    /\ \/ stored' = state /\ persisted' = state /\ kept' = state /\ UNCHANGED faults
       \/ Fault /\ UNCHANGED <<stored, persisted, kept>>
    /\ Go("deciding")
    /\ UNCHANGED <<broker, state, loaded, lockLevel, trades, lost, torn, eased>>

(* Mutant of Breached: a profit that is exactly at the floor is let go on. *)
BreachedBelow == state.floor > 0 /\ loop.net < state.floor

Breached == state.floor > 0 /\ loop.net <= state.floor

(* The software exit.  The giveback of the position's peak, a rule of the   *)
(* same switch that PositionPeaks has the state of, may close, too.        *)
Decide ==
    /\ loop.at = "deciding"
    /\ \/ Giveback /\ AttemptClose("planning")
       \/ ~(Giveback /\ Breached) /\ Go("planning") /\ UNCHANGED <<open, memory, faults>>
    /\ UNCHANGED <<size, quote, sl, stored, trades, ghosts>>

-----------------------------------------------------------------------------
(* The rules that move the broker stop.                                    *)

(* The rules take their turns, and then the poll is over.                  *)
NextRule ==
    IF loop.rule = "trailing"
    THEN Rest
    ELSE loop' = [loop EXCEPT !.at = "planning",
                              !.rule = IF @ = "lock" THEN "breakeven" ELSE "trailing",
                              !.level = 0, !.floor = 0]

(* Mutant of Worsens: a stop that would be lowered is lowered.             *)
NeverWorsens(level) == FALSE

(* "... would worsen the current stop"                                     *)
Worsens(level) == level <= sl

(* Read the position and the quote and plan a stop: the second thread call *)
(* of the executor, _submit_modify, does not look at the stop again.       *)
Propose(level, floor) ==
    IF Worsens(level) \/ level >= quote
    THEN NextRule
    ELSE loop' = [loop EXCEPT !.at = "modifying", !.level = level, !.floor = floor]

(* lock_minimum_net_profit, for the stronger of the tier and the desired   *)
(* floor, if it is more than what has been applied.  A stop that is better *)
(* already counts as applied.                                              *)
PlanLock(tier) ==
    LET floor == Greater(state.floor, tier)
        level == ScaleUp(floor, 1, size)
    IN  /\ loop.at = "planning" /\ loop.rule = "lock"
        /\ tier = 0 \/ tier < loop.net
        /\ IF open /\ floor > lockLevel
           THEN /\ Propose(level, floor)
                /\ lockLevel' = IF Worsens(level) THEN floor ELSE lockLevel
           ELSE NextRule /\ UNCHANGED lockLevel
        /\ UNCHANGED <<broker, stored, state, loaded, persisted, faults, trades, ghosts>>

(* move_to_breakeven and apply_trailing_stop; neither always applies.      *)
PlanOther(level) ==
    /\ loop.at = "planning" /\ loop.rule # "lock"
    /\ IF open THEN Propose(level, 0) ELSE NextRule
    /\ UNCHANGED <<broker, stored, memory, faults, trades, ghosts>>

(* A rule does not apply, or its read of the position fails.               *)
PlanNothing ==
    /\ loop.at = "planning"
    /\ IF loop.rule = "lock" THEN Fault ELSE UNCHANGED faults
    /\ NextRule
    /\ UNCHANGED <<broker, stored, memory, trades, ghosts>>

(* modify_sl_tp: an order that is refused, or one whose reply is lost,     *)
(* leaves the level of the ticket as it was.                               *)
Modify ==
    /\ loop.at = "modifying"
    /\ \/ /\ open /\ loop.level < quote
          /\ sl' = loop.level
          /\ lockLevel' = IF loop.rule = "lock" THEN loop.floor ELSE lockLevel
          /\ UNCHANGED faults
       \/ /\ open /\ loop.level < quote
          /\ Fault
          /\ sl' \in {sl, loop.level}
          /\ UNCHANGED lockLevel
       \/ /\ ~open \/ loop.level >= quote
          /\ UNCHANGED <<sl, lockLevel, faults>>
    /\ NextRule
    /\ UNCHANGED <<open, size, quote, stored, state, loaded, persisted, trades, ghosts>>

-----------------------------------------------------------------------------
(* The world.                                                              *)

Move(q) ==
    /\ open /\ q # quote
    /\ quote' = q
    /\ UNCHANGED <<open, size, sl, stored, memory, loop, faults, trades, ghosts>>

(* A stop loss, a take profit, or somebody else.                           *)
Close ==
    /\ open
    /\ open' = FALSE
    /\ UNCHANGED <<size, quote, sl, stored, memory, loop, faults, trades, ghosts>>

(* A partial close, an addition or a new stop: from the dashboard while    *)
(* the lock is free (close_position, modify_position), from the terminal   *)
(* at any time.                                                            *)
Trade(v, level) ==
    /\ open /\ trades < MaxTrades
    /\ <<v, level>> # <<size, sl>>
    /\ v = size \/ level = sl
    /\ level = sl \/ level < quote
    /\ size' = v
    /\ sl' = level
    /\ trades' = trades + 1
    /\ torn' = (torn \/ loop.at # "idle")
    /\ eased' = (eased \/ level < sl)
    /\ UNCHANGED <<open, quote, stored, memory, loop, faults, kept, lost>>

(* The process dies, perhaps after a write that it does not learn about.   *)
Restart ==
    /\ Fault
    /\ Forget
    /\ Rest
    /\ stored' \in IF loop.at = "writing" THEN {stored, state} ELSE {stored}
    /\ UNCHANGED <<broker, trades, ghosts>>

-----------------------------------------------------------------------------
Levels == {q \in Quotes : q > 0}

Poll ==
    \/ Refresh \/ CloseEarly \/ Retain \/ Fetch \/ Write \/ Decide
    \/ \E tier \in Tiers : PlanLock(tier)
    \/ \E level \in Levels : PlanOther(level)
    \/ PlanNothing \/ Modify

World ==
    \/ \E q \in Quotes : Move(q)
    \/ Close
    \/ \E v \in Sizes, level \in Levels \cup {sl, LossStop} : Trade(v, level)
    \/ Restart

Next == Poll \/ World

Spec == Init /\ [][Next]_vars

(* _protection_loop polls for ever; nothing else has to happen.            *)
LiveSpec == Spec /\ WF_vars(Poll)

-----------------------------------------------------------------------------
TypeOK ==
    /\ open \in BOOLEAN /\ size \in Sizes /\ quote \in Quotes /\ sl \in Int
    /\ stored \in Records
    /\ state \in Records /\ loaded \in BOOLEAN /\ persisted \in Records
    /\ lockLevel \in Nat
    /\ loop \in LoopState
    /\ faults \in 0..MaxFaults /\ trades \in 0..MaxTrades
    /\ kept \in Records /\ lost \in BOOLEAN /\ torn \in BOOLEAN /\ eased \in BOOLEAN

(* A record that is written is one that from_dict will accept: through any *)
(* sequence of peaks, partial closes, additions and merges the floor stays  *)
(* at or below the peak, and the reference at or above the volume.  One    *)
(* that is refused costs the position its floor.                           *)
RecordIsReadable == stored = Empty \/ Readable(stored)

(* "The desired floor never decreases at unchanged size and survives        *)
(* restarts": what has been stored bounds every floor used later, in this  *)
(* process or in the next one, unless a read of the record has failed.     *)
FloorIsKept ==
    open /\ loaded /\ ~lost /\ state.volume = kept.volume => state.floor >= kept.floor

(* The same of the floor in memory, with no exception at all: from one      *)
(* observation to the next it does not decrease at unchanged size, and a   *)
(* partial close takes no more than its share of it.                       *)
FloorFollowsSize ==
    [][loaded /\ loaded' =>
          /\ state'.volume = state.volume => state'.floor >= state.floor
          /\ state'.volume < state.volume =>
                state'.floor >= Scale(state.floor, state'.volume, state.volume)]_vars

(* "The method can only improve an existing stop": only the operator ever  *)
(* lowers a stop, as long as nobody trades around the execution lock.      *)
StopOnlyImproves == [][~torn /\ sl' < sl => trades' > trades]_vars

(* The floor the dashboard reports as accepted by the broker is one that   *)
(* the stop at the broker retains for the size of the position, until the  *)
(* operator lowers the stop.                                               *)
Backed == open /\ lockLevel > 0 /\ state.volume = size => sl * size >= lockLevel
FloorIsBacked == ~torn /\ ~eased => Backed

(* The former without exceptions, for a position its owner leaves alone.    *)
StopNeverFalls == [][sl' >= sl]_sl

(* A profit that is down to the desired floor does not stay there: the     *)
(* position closes or the profit recovers.                                 *)
AtFloor == open /\ state.floor > 0 /\ state.volume = size /\ quote * size <= state.floor
BreachEnds == AtFloor ~> ~AtFloor
=============================================================================
