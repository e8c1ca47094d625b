----------------------- MODULE ProfitRetention_proofs -----------------------
(***************************************************************************)
(* Proofs about ProfitRetention: a written record can be read again, a      *)
(* stored floor outlives restarts, only the operator lowers a stop, and the *)
(* reported floor is retained by the stop at the broker.                   *)
(***************************************************************************)
EXTENDS ProfitRetention, TLAPS

-----------------------------------------------------------------------------
(* Shares of an amount.                                                    *)

LEMMA ScaleIsNat ==
    ASSUME NEW x \in Nat, NEW v \in Nat, NEW w \in Nat \ {0}
    PROVE Scale(x, v, w) \in Nat
<1>1. x * v \in Nat
  OBVIOUS
<1>2. QED
  BY <1>1 DEF Scale

LEMMA ScaleIsMonotone ==
    ASSUME NEW x \in Nat, NEW y \in Nat, x <= y, NEW v \in Nat, NEW w \in Nat \ {0}
    PROVE Scale(x, v, w) <= Scale(y, v, w)
<1>1. /\ x * v \in Nat
      /\ y * v \in Nat
  OBVIOUS
<1>2. x * v <= y * v
  OBVIOUS
<1>3. QED
  BY <1>1, <1>2 DEF Scale

LEMMA ScaleUpIsNat ==
    ASSUME NEW x \in Nat, NEW v \in Nat, NEW w \in Nat \ {0}
    PROVE ScaleUp(x, v, w) \in Nat
<1>1. x * v \in Nat
  OBVIOUS
<1>2. x * v + w - 1 \in Nat
  BY <1>1
<1>3. QED
  BY <1>2 DEF ScaleUp

(* A stop that is planned for a floor retains it for the whole position.   *)
LEMMA PlannedStopRetains ==
    ASSUME NEW x \in Nat, NEW w \in Nat \ {0}
    PROVE ScaleUp(x, 1, w) * w >= x
<1>1. ((x + w - 1) \div w) * w >= x
  OBVIOUS
<1>2. ScaleUp(x, 1, w) = (x + w - 1) \div w
  BY DEF ScaleUp
<1>3. QED
  BY <1>1, <1>2

LEMMA HigherStopRetains ==
    ASSUME NEW l \in Int, NEW m \in Int, l <= m, NEW w \in Nat
    PROVE l * w <= m * w
  OBVIOUS

-----------------------------------------------------------------------------
(* What advance_retention makes of a record.                               *)

Sound(r) == r = Empty \/ Readable(r)

LEMMA ResizedIsReadable ==
    ASSUME NEW r \in Records, Sound(r), NEW v \in Nat \ {0}
    PROVE /\ Resized(r, v) \in Records
          /\ Readable(Resized(r, v))
          /\ Resized(r, v).volume = v
          /\ v = r.volume => Resized(r, v) = r
<1>1. CASE v < r.volume
  <2>1. Readable(r) /\ r.volume \in Nat \ {0}
    BY <1>1 DEF Sound, Empty, Readable, Records
  <2>2. /\ Scale(r.peak, v, r.volume) \in Nat
        /\ Scale(r.floor, v, r.volume) \in Nat
        /\ Scale(r.floor, v, r.volume) <= Scale(r.peak, v, r.volume)
    BY <2>1, ScaleIsNat, ScaleIsMonotone DEF Records, Readable
  <2>3. QED
    BY <1>1, <2>1, <2>2 DEF Resized, Readable, Records
<1>2. CASE v > r.volume
  BY <1>2 DEF Resized, Readable, Records
<1>3. CASE v = r.volume
  BY <1>3 DEF Resized, Readable, Records, Sound, Empty
<1>4. QED
  BY <1>1, <1>2, <1>3 DEF Records

LEMMA RaisedIsReadable ==
    ASSUME NEW r \in Records, Readable(r), NEW risk \in Nat
    PROVE /\ Raised(r, risk) \in Records
          /\ Readable(Raised(r, risk))
          /\ Raised(r, risk).volume = r.volume
          /\ Raised(r, risk).floor >= r.floor
<1> DEFINE candidate == Candidate(r, risk)
<1>1. r.reference \in Nat \ {0} /\ r.peak \in Nat /\ r.volume \in Nat
  BY DEF Records, Readable
<1>2. candidate \in Int /\ candidate <= r.peak
  <2>1. ScaleUp(Headroom, r.volume, r.reference) \in Nat
    BY <1>1, RetentionAssumption, ScaleUpIsNat
  <2>2. Scale(CashFloor, r.volume, r.reference) \in Nat
    BY <1>1, RetentionAssumption, ScaleIsNat
  <2> DEFINE keep == IF Mature(r, risk) THEN MatureKeep ELSE Keep
  <2>3. keep \in Nat
    BY RetentionAssumption
  <2> HIDE DEF keep
  <2>4. Scale(r.peak, keep, 100) \in Nat
    BY <1>1, <2>3, ScaleIsNat
  <2>5. candidate = Lesser(Greater(Scale(CashFloor, r.volume, r.reference),
                                   Scale(r.peak, keep, 100)),
                           r.peak - ScaleUp(Headroom, r.volume, r.reference))
    BY DEF Candidate, keep
  <2>6. QED
    BY <1>1, <2>1, <2>2, <2>4, <2>5 DEF Lesser, Greater
<1> HIDE DEF candidate
<1>3. Raised(r, risk) = [r EXCEPT !.floor = IF Eligible(r, risk)
                                            THEN Greater(@, candidate) ELSE @]
  BY DEF Raised, candidate
<1>4. QED
  BY <1>1, <1>2, <1>3 DEF Records, Readable, Greater

(* The record of a ticket after an observation is one from_dict accepts,   *)
(* and at an unchanged size its floor has not fallen.                      *)
LEMMA AdvanceIsSound ==
    ASSUME NEW r \in Records, Sound(r), NEW net \in Int, NEW v \in Nat \ {0},
           NEW risk \in Nat
    PROVE /\ Advance(r, net, v, risk) \in Records
          /\ Readable(Advance(r, net, v, risk))
          /\ Advance(r, net, v, risk).volume = v
          /\ v = r.volume => Advance(r, net, v, risk).floor >= r.floor
<1> DEFINE base == Resized(r, v)
           seen == [base EXCEPT !.peak = Greater(@, net)]
<1>1. /\ base \in Records /\ Readable(base) /\ base.volume = v
      /\ v = r.volume => base = r
  BY ResizedIsReadable
<1> HIDE DEF base
<1>2. /\ seen \in Records /\ Readable(seen) /\ seen.volume = v
      /\ seen.floor = base.floor
  BY <1>1 DEF Records, Readable, Greater
<1>3. Advance(r, net, v, risk) = Raised(seen, risk)
  BY DEF Advance, base
<1> HIDE DEF seen
<1>4. QED
  BY <1>1, <1>2, <1>3, RaisedIsReadable

LEMMA JoinedIsSound ==
    ASSUME NEW r \in Records, NEW s \in Records, Readable(r), Readable(s)
    PROVE /\ Joined(r, s) \in Records
          /\ Readable(Joined(r, s))
          /\ Joined(r, s).volume = r.volume
          /\ Joined(r, s).floor >= r.floor
          /\ Joined(r, s).floor >= s.floor
<1>1. ASSUME NEW m \in Nat, NEW n \in Nat
      PROVE Greater(m, n) \in Nat /\ Greater(m, n) >= m /\ Greater(m, n) >= n
                /\ (Greater(m, n) = m \/ Greater(m, n) = n)
  BY DEF Greater
<1>2. /\ r.peak \in Nat /\ r.floor \in Nat /\ r.volume \in Nat /\ r.reference \in Nat
      /\ s.peak \in Nat /\ s.floor \in Nat /\ s.reference \in Nat
  BY DEF Records
<1> DEFINE peak == Greater(r.peak, s.peak)
           floor == Greater(r.floor, s.floor)
           reference == Greater(r.reference, s.reference)
<1>3. Joined(r, s) = [peak |-> peak, floor |-> floor, volume |-> r.volume,
                      reference |-> reference]
  BY DEF Joined
<1>4. /\ peak \in Nat /\ floor \in Nat /\ reference \in Nat
      /\ peak >= r.peak /\ peak >= s.peak
      /\ floor >= r.floor /\ floor >= s.floor /\ (floor = r.floor \/ floor = s.floor)
      /\ reference >= r.reference
  BY <1>1, <1>2
<1> HIDE DEF peak, floor, reference
<1>5. QED
  BY <1>2, <1>3, <1>4 DEF Records, Readable

LEMMA EmptyIsSound == Empty \in Records /\ Sound(Empty)
  BY DEF Empty, Records, Sound

LEMMA FromDictIsSound ==
    ASSUME NEW r \in Records
    PROVE FromDict(r) \in Records /\ Sound(FromDict(r))
  BY EmptyIsSound DEF FromDict, Sound

-----------------------------------------------------------------------------
(* Every record in play is sound, and the loop works for the size of its   *)
(* snapshot: on a pending record first, on the state of memory after it.   *)

Settled == {"writing", "deciding", "planning", "modifying"}

RecordsSound == Sound(stored) /\ Sound(state) /\ Sound(persisted)

LoopSound ==
    /\ loop.at # "idle" => loop.vol \in Nat \ {0}
    /\ loop.at = "fetching" => Readable(loop.next) /\ loop.next.volume = loop.vol
    /\ loop.at \in Settled => loaded /\ Readable(state) /\ state.volume = loop.vol

SoundInv == TypeOK /\ RecordsSound /\ LoopSound

LEMMA IdleIsSound == Idle \in LoopState /\ Idle.at = "idle"
  BY EmptyIsSound DEF Idle, LoopState, Places, Rules

LEMMA GoIsTyped ==
    ASSUME loop \in LoopState, NEW place \in Places
    PROVE /\ [loop EXCEPT !.at = place] \in LoopState
          /\ [loop EXCEPT !.at = place].at = place
          /\ [loop EXCEPT !.at = place].vol = loop.vol
          /\ [loop EXCEPT !.at = place].next = loop.next
          /\ [loop EXCEPT !.at = place].rule = loop.rule
          /\ [loop EXCEPT !.at = place].level = loop.level
          /\ [loop EXCEPT !.at = place].floor = loop.floor
  BY DEF LoopState

LEMMA NextRuleIsTyped ==
    ASSUME loop \in LoopState, NextRule
    PROVE /\ loop' \in LoopState
          /\ \/ loop'.at = "idle"
             \/ loop'.at = "planning" /\ loop'.vol = loop.vol
<1>1. CASE loop.rule = "trailing"
  BY <1>1, IdleIsSound DEF NextRule, Rest
<1>2. CASE loop.rule # "trailing"
  <2> DEFINE rule == IF loop.rule = "lock" THEN "breakeven" ELSE "trailing"
  <2>1. rule \in Rules
    BY DEF Rules
  <2>2. loop' = [loop EXCEPT !.at = "planning", !.rule = rule, !.level = 0, !.floor = 0]
    BY <1>2 DEF NextRule
  <2> HIDE DEF rule
  <2>3. loop' \in LoopState
    <3>1. "planning" \in Places /\ 0 \in Int /\ 0 \in Nat
      BY DEF Places
    <3>2. QED
      BY <2>1, <2>2, <3>1 DEF LoopState
  <2>4. loop'.at = "planning" /\ loop'.vol = loop.vol
    BY <2>2 DEF LoopState
  <2>5. QED
    BY <2>3, <2>4
<1>3. QED
  BY <1>1, <1>2

LEMMA SettleIsTyped ==
    ASSUME loop \in LoopState, NEW r \in Records, NEW known \in Records, Settle(r, known)
    PROVE /\ state' = r /\ loaded' = TRUE /\ persisted' = known
          /\ loop' \in LoopState
          /\ loop'.at \in {"deciding", "writing"}
          /\ loop'.vol = loop.vol
  BY EmptyIsSound DEF Settle, LoopState, Places

LEMMA ProposeIsTyped ==
    ASSUME loop \in LoopState, NEW level \in Int, NEW floor \in Nat, Propose(level, floor)
    PROVE /\ loop' \in LoopState
          /\ \/ loop'.at = "idle"
             \/ loop'.at = "planning" /\ loop'.vol = loop.vol
             \/ /\ loop'.at = "modifying" /\ loop'.vol = loop.vol
                /\ loop'.level = level /\ loop'.floor = floor
                /\ loop'.rule = loop.rule
                /\ ~Worsens(level)
<1>1. CASE Worsens(level) \/ level >= quote
  BY <1>1, NextRuleIsTyped DEF Propose
<1>2. CASE ~(Worsens(level) \/ level >= quote)
  BY <1>2 DEF Propose, LoopState, Places
<1>3. QED
  BY <1>1, <1>2

LEMMA AtIsKnown == loop \in LoopState => loop.at \in Places
  BY DEF LoopState

-----------------------------------------------------------------------------
(* One step keeps types, records and the loop sound.                       *)

LEMMA LevelsTyped == Levels \subseteq Int /\ LossStop \in Int
<1>1. Quotes \subseteq Int
  BY RetentionAssumption
<1>2. Levels \subseteq Int
  BY <1>1 DEF Levels
<1>3. LossStop \in Int
  BY DEF LossStop
<1>4. QED
  BY <1>2, <1>3

LEMMA SoundInit == Init => SoundInv
<1> SUFFICES ASSUME Init PROVE SoundInv
  OBVIOUS
<1>1. 0 \in 0..MaxFaults /\ 0 \in 0..MaxTrades
  BY RetentionAssumption
<1>2. TypeOK
  BY <1>1, IdleIsSound, EmptyIsSound, LevelsTyped DEF Init, TypeOK
<1>3. RecordsSound /\ LoopSound
  BY IdleIsSound, EmptyIsSound DEF Init, RecordsSound, LoopSound, Settled
<1>4. QED
  BY <1>2, <1>3 DEF SoundInv

LEMMA ForgetIsSound ==
    ASSUME Forget
    PROVE /\ state' \in Records /\ Sound(state') /\ loaded' \in BOOLEAN
          /\ persisted' \in Records /\ Sound(persisted') /\ lockLevel' \in Nat
  BY EmptyIsSound DEF Forget

LEMMA FaultIsCounted == faults \in 0..MaxFaults /\ Fault => faults' \in 0..MaxFaults
  BY RetentionAssumption DEF Fault

LEMMA SoundStep == SoundInv /\ Next => SoundInv'
<1> SUFFICES ASSUME TypeOK, RecordsSound, LoopSound, Next
             PROVE TypeOK' /\ RecordsSound' /\ LoopSound'
    BY DEF SoundInv
<1>0. /\ loop \in LoopState
      /\ loop.net \in Int /\ loop.vol \in Nat /\ loop.risk \in Nat
      /\ loop.next \in Records /\ loop.level \in Int /\ loop.floor \in Nat
  BY DEF TypeOK, LoopState
<1> USE DEF TypeOK, RecordsSound, LoopSound, broker, memory, ghosts, Settled
<1>1. CASE Refresh
  <2>1. CASE loop' = Idle
    <3>1. /\ state' \in Records /\ Sound(state') /\ loaded' \in BOOLEAN
          /\ persisted' \in Records /\ Sound(persisted') /\ lockLevel' \in Nat
      BY <1>1, ForgetIsSound DEF Refresh
    <3>2. faults' \in 0..MaxFaults
      BY <1>1, FaultIsCounted DEF Refresh
    <3>3. QED
      BY <1>1, <2>1, <3>1, <3>2, IdleIsSound DEF Refresh
  <2>2. CASE loop' # Idle
    <3>1. PICK r \in Risks :
            loop' = [Idle EXCEPT !.at = "refreshed", !.net = quote * size, !.vol = size,
                                 !.risk = r]
      BY <1>1, <2>2 DEF Refresh, Rest
    <3>2. UNCHANGED <<broker, stored, memory, faults, trades, ghosts>>
      BY <1>1, <2>2 DEF Refresh, Rest
    <3>3. quote * size \in Int /\ size \in Nat \ {0} /\ r \in Nat /\ "refreshed" \in Places
      BY RetentionAssumption DEF Places
    <3> DEFINE net == quote * size
    <3>4. loop' = [Idle EXCEPT !.at = "refreshed", !.net = net, !.vol = size, !.risk = r]
          /\ net \in Int
      BY <3>1, <3>3
    <3> HIDE DEF net
    <3>5. loop' \in LoopState
      BY <3>3, <3>4, IdleIsSound DEF LoopState
    <3>6. loop'.at = "refreshed" /\ loop'.vol = size
      BY <3>4, IdleIsSound DEF LoopState
    <3>7. QED
      BY <3>2, <3>3, <3>5, <3>6
  <2>3. QED
    BY <2>1, <2>2
<1>2. CASE CloseEarly
  BY <1>2, ForgetIsSound, IdleIsSound DEF CloseEarly, Rest
<1>3. CASE Retain
  <2> DEFINE r == Advance(state, loop.net, loop.vol, loop.risk)
  <2>1. loop.vol \in Nat \ {0}
    BY <1>3 DEF Retain
  <2>2. r \in Records /\ Readable(r) /\ r.volume = loop.vol
    BY <1>0, <2>1, AdvanceIsSound
  <2>3. /\ loop.at = "refreshed"
        /\ lockLevel' = RetiredLock(r)
        /\ kept' = IF r.volume = kept.volume THEN kept ELSE Empty
        /\ IF loaded THEN Settle(r, persisted)
           ELSE /\ loop' = [loop EXCEPT !.at = "fetching", !.next = r]
                /\ UNCHANGED <<state, loaded, persisted>>
        /\ UNCHANGED <<broker, stored, faults, trades, lost, torn, eased>>
    BY <1>3 DEF Retain
  <2> HIDE DEF r
  <2>4. lockLevel' \in Nat /\ kept' \in Records
    BY <2>3, EmptyIsSound DEF RetiredLock
  <2>5. CASE loaded
    <3>1. /\ state' = r /\ loaded' = TRUE /\ persisted' = persisted
          /\ loop' \in LoopState
          /\ loop'.at \in {"deciding", "writing"}
          /\ loop'.vol = loop.vol
      BY <1>0, <2>2, <2>3, <2>5, SettleIsTyped
    <3>2. QED
      BY <2>1, <2>2, <2>3, <2>4, <3>1 DEF Sound
  <2>6. CASE ~loaded
    <3>1. loop' \in LoopState /\ loop'.at = "fetching" /\ loop'.vol = loop.vol /\ loop'.next = r
      BY <1>0, <2>2, <2>3, <2>6 DEF LoopState, Places
    <3>2. QED
      BY <2>1, <2>2, <2>3, <2>4, <2>6, <3>1
  <2>7. QED
    BY <2>5, <2>6
<1>4. CASE Fetch
  <2>1. PICK known \in Records :
          /\ Sound(known)
          /\ Settle(Joined(loop.next, Restored(known)), known)
    BY <1>4, EmptyIsSound, FromDictIsSound, FromDict(Empty) = Empty DEF Fetch, FromDict
  <2>2. loop.at = "fetching" /\ Readable(loop.next) /\ loop.vol \in Nat \ {0}
        /\ loop.next.volume = loop.vol
    BY <1>4 DEF Fetch
  <2>3. Restored(known) \in Records /\ Readable(Restored(known))
    BY <1>0, <2>1, <2>2, AdvanceIsSound DEF Restored
  <2> DEFINE r == Joined(loop.next, Restored(known))
  <2>4. r \in Records /\ Readable(r) /\ r.volume = loop.vol
    BY <1>0, <2>2, <2>3, JoinedIsSound
  <2>5. Settle(r, known)
    BY <2>1
  <2> HIDE DEF r
  <2>6. /\ state' = r /\ loaded' = TRUE /\ persisted' = known
        /\ loop' \in LoopState
        /\ loop'.at \in {"deciding", "writing"}
        /\ loop'.vol = loop.vol
    BY <1>0, <2>4, <2>5, SettleIsTyped
  <2>7. faults' \in 0..MaxFaults /\ lost' \in BOOLEAN
    BY <1>4, FaultIsCounted DEF Fetch
  <2>8. UNCHANGED <<broker, stored, lockLevel, trades, kept, torn, eased>>
    BY <1>4 DEF Fetch
  <2>9. QED
    BY <2>1, <2>2, <2>4, <2>6, <2>7, <2>8 DEF Sound
<1>5. CASE Write
  <2>1. /\ loop' \in LoopState /\ loop'.at = "deciding" /\ loop'.vol = loop.vol
        /\ loop.at = "writing"
    BY <1>0, <1>5, GoIsTyped DEF Write, Go, Places
  <2>2. faults' \in 0..MaxFaults
    BY <1>5, FaultIsCounted DEF Write
  <2>3. QED
    BY <1>5, <2>1, <2>2 DEF Write
<1>6. CASE Decide
  <2>1. loop.at = "deciding"
    BY <1>6 DEF Decide
  <2>2. CASE Go("planning") /\ UNCHANGED memory
    <3>1. loop' \in LoopState /\ loop'.at = "planning" /\ loop'.vol = loop.vol
      BY <1>0, <2>2, GoIsTyped DEF Go, Places
    <3>2. open' \in BOOLEAN /\ faults' \in 0..MaxFaults
      BY <1>6, FaultIsCounted DEF Decide, AttemptClose
    <3>3. QED
      BY <1>6, <2>1, <2>2, <3>1, <3>2 DEF Decide
  <2>3. CASE Forget /\ Rest /\ open' = FALSE /\ UNCHANGED faults
    BY <1>6, <2>3, ForgetIsSound, IdleIsSound DEF Decide, Rest
  <2>4. QED
    BY <1>6, <2>2, <2>3 DEF Decide, AttemptClose
<1>7. ASSUME NEW tier \in Tiers, PlanLock(tier) PROVE TypeOK' /\ RecordsSound' /\ LoopSound'
  <2> DEFINE floor == Greater(state.floor, tier)
             level == ScaleUp(floor, 1, size)
  <2>1. floor \in Nat
    BY RetentionAssumption DEF Greater, Records
  <2>2. level \in Int
    BY <2>1, RetentionAssumption, ScaleUpIsNat
  <2>3. /\ loop.at = "planning"
        /\ \/ Propose(level, floor) /\ lockLevel' \in {floor, lockLevel}
           \/ NextRule /\ UNCHANGED lockLevel
        /\ UNCHANGED <<broker, stored, state, loaded, persisted, faults, trades, ghosts>>
    BY <1>7 DEF PlanLock
  <2> HIDE DEF floor, level
  <2>4. /\ loop' \in LoopState
        /\ \/ loop'.at = "idle"
           \/ loop'.at \in {"planning", "modifying"} /\ loop'.vol = loop.vol
    BY <1>0, <2>1, <2>2, <2>3, ProposeIsTyped, NextRuleIsTyped
  <2>5. lockLevel' \in Nat
    BY <2>1, <2>3
  <2>6. QED
    BY <2>3, <2>4, <2>5
<1>8. ASSUME NEW level \in Levels, PlanOther(level)
      PROVE TypeOK' /\ RecordsSound' /\ LoopSound'
  <2>1. level \in Int /\ 0 \in Nat
    BY RetentionAssumption DEF Levels
  <2>2. /\ loop' \in LoopState
        /\ \/ loop'.at = "idle"
           \/ loop'.at \in {"planning", "modifying"} /\ loop'.vol = loop.vol
    BY <1>0, <1>8, <2>1, ProposeIsTyped, NextRuleIsTyped DEF PlanOther
  <2>3. QED
    BY <1>8, <2>2 DEF PlanOther
<1>9. CASE PlanNothing
  <2>1. /\ loop' \in LoopState
        /\ \/ loop'.at = "idle"
           \/ loop'.at = "planning" /\ loop'.vol = loop.vol
    BY <1>0, <1>9, NextRuleIsTyped DEF PlanNothing
  <2>2. faults' \in 0..MaxFaults
    BY <1>9, FaultIsCounted DEF PlanNothing
  <2>3. QED
    BY <1>9, <2>1, <2>2 DEF PlanNothing
<1>10. CASE Modify
  <2>1. /\ loop' \in LoopState
        /\ \/ loop'.at = "idle"
           \/ loop'.at = "planning" /\ loop'.vol = loop.vol
    BY <1>0, <1>10, NextRuleIsTyped DEF Modify
  <2>2. faults' \in 0..MaxFaults /\ sl' \in Int /\ lockLevel' \in Nat
    BY <1>0, <1>10, FaultIsCounted DEF Modify
  <2>3. QED
    BY <1>10, <2>1, <2>2 DEF Modify
<1>11. CASE World
  <2>1. CASE (\E q \in Quotes : Move(q)) \/ Close
    BY <2>1 DEF Move, Close
  <2>2. ASSUME NEW v \in Sizes, NEW level \in Levels \cup {sl, LossStop}, Trade(v, level)
        PROVE TypeOK' /\ RecordsSound' /\ LoopSound'
    <3>1. level \in Int
      BY LevelsTyped
    <3>2. trades' \in 0..MaxTrades
      BY <2>2, RetentionAssumption DEF Trade
    <3>3. torn' \in BOOLEAN /\ eased' \in BOOLEAN
      BY <2>2 DEF Trade
    <3>4. QED
      BY <2>2, <3>1, <3>2, <3>3 DEF Trade
  <2>3. CASE Restart
    BY <2>3, ForgetIsSound, FaultIsCounted, IdleIsSound DEF Restart, Rest
  <2>4. QED
    BY <1>11, <2>1, <2>2, <2>3 DEF World
<1>12. QED
  BY <1>1, <1>2, <1>3, <1>4, <1>5, <1>6, <1>7, <1>8, <1>9, <1>10, <1>11 DEF Next, Poll

-----------------------------------------------------------------------------
(* A floor that has been stored.  Unless a read has failed, the record     *)
(* covers what was confirmed; memory, once it has been loaded, covers it,   *)
(* too, and is about the size that was confirmed, or a resize was noticed.  *)

KeptSound == kept = Empty \/ kept.volume > 0
KeptStored == kept # Empty => stored.volume = kept.volume /\ stored.floor >= kept.floor
KeptLoaded == loaded => kept = Empty \/ kept.volume = state.volume
KeptCovered == loaded => state.floor >= kept.floor
KeptPending == loop.at = "fetching" => kept = Empty \/ kept.volume = loop.vol

KeptInv == KeptSound /\ (~lost => KeptStored /\ KeptLoaded /\ KeptCovered /\ KeptPending)

LEMMA KeptStep == SoundInv /\ KeptInv /\ Next => KeptInv'
<1> SUFFICES ASSUME TypeOK, RecordsSound, LoopSound, KeptInv, Next PROVE KeptInv'
    BY DEF SoundInv
<1>0. /\ loop \in LoopState /\ state \in Records /\ stored \in Records /\ kept \in Records
      /\ loop.net \in Int /\ loop.vol \in Nat /\ loop.risk \in Nat /\ loop.next \in Records
  BY DEF TypeOK, LoopState
<1>a. Empty.floor = 0 /\ Empty.volume = 0
  BY DEF Empty
<1>b. state.floor \in Nat /\ kept.floor \in Nat /\ stored.floor \in Nat
  BY <1>0 DEF Records
<1> USE <1>0, <1>a, <1>b DEF KeptInv, KeptSound, KeptStored, KeptLoaded, KeptCovered,
                       KeptPending, memory, broker, ghosts
<1>1. CASE UNCHANGED <<stored, state, loaded, kept, lost>> /\ loop'.at # "fetching"
  BY <1>1
<1>2. CASE Forget /\ UNCHANGED <<stored, kept, lost>> /\ loop'.at # "fetching"
  BY <1>2 DEF Forget
<1>3. CASE Retain
  <2> DEFINE r == Advance(state, loop.net, loop.vol, loop.risk)
  <2>1. loop.vol \in Nat \ {0}
    BY <1>3 DEF Retain, LoopSound
  <2>2. /\ r \in Records /\ r.volume = loop.vol
        /\ loop.vol = state.volume => r.floor >= state.floor
    BY <2>1, AdvanceIsSound DEF RecordsSound
  <2>3. /\ kept' = IF r.volume = kept.volume THEN kept ELSE Empty
        /\ IF loaded THEN Settle(r, persisted)
           ELSE /\ loop' = [loop EXCEPT !.at = "fetching", !.next = r]
                /\ UNCHANGED <<state, loaded, persisted>>
        /\ UNCHANGED <<stored, lost>>
    BY <1>3 DEF Retain
  <2> HIDE DEF r
  <2>4. CASE loaded
    <3>1. state' = r /\ loaded' = TRUE /\ loop'.at \in {"deciding", "writing"}
      BY <2>2, <2>3, <2>4, SettleIsTyped DEF TypeOK
    <3>2. r.floor \in Nat
      BY <2>2 DEF Records
    <3>3. QED
      BY <2>2, <2>3, <2>4, <3>1, <3>2
  <2>5. CASE ~loaded
    <3>1. loop'.vol = loop.vol
      BY <2>3, <2>5 DEF LoopState
    <3>2. QED
      BY <2>2, <2>3, <2>5, <3>1
  <2>6. QED
    BY <2>4, <2>5
<1>4. CASE Fetch
  <2>1. CASE lost'
    BY <1>4, <2>1 DEF Fetch
  <2>2. CASE ~lost'
    <3> DEFINE known == FromDict(stored)
               r == Joined(loop.next, Restored(known))
    <3>1. loop.at = "fetching" /\ Readable(loop.next) /\ loop.vol \in Nat \ {0}
          /\ loop.next.volume = loop.vol
      BY <1>4 DEF Fetch, LoopSound
    <3>2. known \in Records /\ Sound(known)
      BY FromDictIsSound
    <3>3. /\ Restored(known) \in Records /\ Readable(Restored(known))
          /\ loop.vol = known.volume => Restored(known).floor >= known.floor
      BY <3>1, <3>2, AdvanceIsSound DEF Restored
    <3>4. /\ r \in Records /\ r.volume = loop.vol /\ r.floor >= Restored(known).floor
      BY <3>1, <3>3, JoinedIsSound
    <3>5. Settle(r, known) /\ UNCHANGED <<stored, kept, lost>>
      BY <1>4, <2>2 DEF Fetch
    <3>6. kept # Empty => known = stored
      BY <1>4, <2>2, <3>5 DEF RecordsSound, Sound, FromDict
    <3> HIDE DEF r, known
    <3>7. state' = r /\ loaded' = TRUE /\ loop'.at \in {"deciding", "writing"}
      BY <3>2, <3>4, <3>5, SettleIsTyped
    <3>8. kept # Empty => r.floor >= kept.floor
      BY <2>2, <3>1, <3>3, <3>4, <3>5, <3>6 DEF Records
    <3>9. r.floor \in Nat
      BY <3>4 DEF Records
    <3>10. QED
      BY <2>2, <3>1, <3>4, <3>5, <3>7, <3>8, <3>9
  <2>3. QED
    BY <2>1, <2>2
<1>5. CASE Write
  <2>1. loop.at = "writing" /\ loop'.at = "deciding"
    BY <1>5, GoIsTyped DEF Write, Go, Places
  <2>2. CASE stored' = state /\ kept' = state
    <3>1. Readable(state) /\ loaded
      BY <2>1 DEF LoopSound, Settled
    <3>2. QED
      BY <1>5, <2>1, <2>2, <3>1 DEF Write, Readable
  <2>3. CASE UNCHANGED <<stored, kept>>
    BY <1>5, <2>1, <2>3, <1>1 DEF Write
  <2>4. QED
    BY <1>5, <2>2, <2>3 DEF Write
<1>6. CASE Restart
  <2>1. loop'.at # "fetching" /\ Forget /\ UNCHANGED <<kept, lost>>
    BY <1>6, IdleIsSound DEF Restart, Rest
  <2>2. CASE stored' = stored
    BY <1>2, <2>1, <2>2
  <2>3. CASE stored' = state /\ loop.at = "writing"
    <3>1. loaded
      BY <2>3 DEF LoopSound, Settled
    <3>2. QED
      BY <2>1, <2>3, <3>1 DEF Forget
  <2>4. QED
    BY <1>6, <2>2, <2>3 DEF Restart
<1>7. CASE Refresh
  <2>1. loop'.at # "fetching"
    BY <1>7, IdleIsSound DEF Refresh, Rest, LoopState
  <2>2. QED
    BY <1>7, <2>1, <1>1, <1>2 DEF Refresh
<1>8. CASE CloseEarly
  BY <1>8, <1>2, IdleIsSound DEF CloseEarly, Rest
<1>9. CASE Decide
  <2>1. loop'.at # "fetching"
    BY <1>9, IdleIsSound, GoIsTyped DEF Decide, AttemptClose, Rest, Go, Places
  <2>2. QED
    BY <1>9, <2>1, <1>1, <1>2 DEF Decide, AttemptClose
<1>10. CASE (\E tier \in Tiers : PlanLock(tier)) \/ (\E level \in Levels : PlanOther(level))
            \/ PlanNothing \/ Modify
  <2>1. UNCHANGED <<stored, state, loaded, kept, lost>>
    BY <1>10 DEF PlanLock, PlanOther, PlanNothing, Modify
  <2>2. ASSUME NEW level, NEW floor, Propose(level, floor)
        PROVE loop'.at # "fetching"
    BY <2>2, NextRuleIsTyped DEF Propose, LoopState
  <2>3. loop'.at # "fetching"
    <3>1. CASE \E tier \in Tiers : PlanLock(tier)
      BY <2>2, <3>1, NextRuleIsTyped DEF PlanLock
    <3>2. CASE \E level \in Levels : PlanOther(level)
      BY <2>2, <3>2, NextRuleIsTyped DEF PlanOther
    <3>3. CASE PlanNothing \/ Modify
      BY <3>3, NextRuleIsTyped DEF PlanNothing, Modify
    <3>4. QED
      BY <1>10, <3>1, <3>2, <3>3
  <2>4. QED
    BY <1>1, <2>1, <2>3
<1>11. CASE (\E q \in Quotes : Move(q)) \/ Close
            \/ \E v \in Sizes, level \in Levels \cup {sl, LossStop} : Trade(v, level)
  BY <1>11 DEF Move, Close, Trade
<1>12. QED
  BY <1>3, <1>4, <1>5, <1>6, <1>7, <1>8, <1>9, <1>10, <1>11 DEF Next, Poll, World

-----------------------------------------------------------------------------
(* The stop at the broker.  As long as nobody trades around the lock, the   *)
(* position keeps the size of the snapshot until the poll is over, and a   *)
(* planned stop is still an improvement when it is sent...                 *)

SizeHolds == loop.at # "idle" /\ open => size = loop.vol
PlanImproves == loop.at = "modifying" => loop.level > sl

(* ...and as long as the operator has not lowered the stop either, what is *)
(* recorded as locked is retained, and a planned lock will be.             *)
LockRetained == lockLevel > 0 => state.volume > 0 /\ sl * state.volume >= lockLevel
LockPending == loop.at = "fetching" /\ lockLevel > 0 => state.volume = loop.vol
PlanRetains ==
    loop.at = "modifying" /\ loop.rule = "lock" => loop.level * loop.vol >= loop.floor

StopInv ==
    ~torn => /\ SizeHolds
             /\ PlanImproves
             /\ PlanRetains
             /\ ~eased => LockRetained /\ LockPending

LEMMA StopStep == SoundInv /\ StopInv /\ Next => StopInv'
<1> SUFFICES ASSUME TypeOK, RecordsSound, LoopSound, StopInv, Next, ~torn' PROVE StopInv'
    BY DEF SoundInv, StopInv
<1>0. /\ loop \in LoopState /\ state \in Records /\ lockLevel \in Nat
      /\ loop.at \in Places /\ loop.net \in Int /\ loop.vol \in Nat /\ loop.risk \in Nat
      /\ loop.next \in Records /\ loop.level \in Int /\ loop.floor \in Nat
      /\ size \in Nat \ {0} /\ sl \in Int /\ quote \in Int
  BY RetentionAssumption DEF TypeOK, LoopState
<1>a. state.volume \in Nat
  BY <1>0 DEF Records
<1> USE <1>0, <1>a DEF StopInv, SizeHolds, PlanImproves, LockRetained, LockPending, PlanRetains,
                       memory, broker, ghosts
<1>1. CASE /\ UNCHANGED <<size, sl, torn, eased>>
           /\ open' => open
           /\ Forget \/ UNCHANGED <<state, lockLevel>>
           /\ loop'.at \notin {"fetching", "modifying"}
           /\ loop'.at = "idle" \/ (loop.at # "idle" /\ loop'.vol = loop.vol)
  BY <1>1 DEF Forget
<1>2. CASE Refresh
  <2>1. CASE loop' = Idle
    BY <1>1, <1>2, <2>1, IdleIsSound DEF Refresh
  <2>2. CASE loop' # Idle
    <3>1. loop'.at = "refreshed" /\ loop'.vol = size
      BY <1>2, <2>2, IdleIsSound DEF Refresh, Rest, LoopState
    <3>2. UNCHANGED <<broker, memory, ghosts>>
      BY <1>2, <2>2 DEF Refresh, Rest
    <3>3. QED
      BY <3>1, <3>2
  <2>3. QED
    BY <2>1, <2>2
<1>3. CASE CloseEarly
  BY <1>1, <1>3, IdleIsSound DEF CloseEarly, Rest
<1>4. CASE Retain
  <2> DEFINE r == Advance(state, loop.net, loop.vol, loop.risk)
  <2>1. loop.vol \in Nat \ {0}
    BY <1>4 DEF Retain, LoopSound
  <2>2. r \in Records /\ r.volume = loop.vol
    BY <2>1, AdvanceIsSound DEF RecordsSound
  <2>3. /\ loop.at = "refreshed"
        /\ lockLevel' = RetiredLock(r)
        /\ IF loaded THEN Settle(r, persisted)
           ELSE /\ loop' = [loop EXCEPT !.at = "fetching", !.next = r]
                /\ UNCHANGED state
        /\ UNCHANGED <<open, size, sl, torn, eased>>
    BY <1>4 DEF Retain
  <2> HIDE DEF r
  <2>4. /\ (state' = r /\ loop'.at \in {"deciding", "writing"}) \/ UNCHANGED state
        /\ loop'.at \in {"deciding", "writing", "fetching"}
        /\ loop'.vol = loop.vol
    <3>1. CASE loaded
      BY <2>2, <2>3, <3>1, SettleIsTyped DEF TypeOK
    <3>2. CASE ~loaded
      BY <2>3, <3>2 DEF LoopState
    <3>3. QED
      BY <3>1, <3>2
  <2>5. lockLevel' > 0 /\ ~eased =>
          /\ lockLevel' = lockLevel
          /\ loop.vol = state.volume
    BY <2>2, <2>3 DEF RetiredLock
  <2>6. QED
    BY <2>2, <2>3, <2>4, <2>5
<1>5. CASE Fetch
  <2>1. PICK known \in Records :
          /\ Sound(known)
          /\ Settle(Joined(loop.next, Restored(known)), known)
    BY <1>5, EmptyIsSound, FromDictIsSound DEF Fetch, TypeOK
  <2>2. /\ loop.at = "fetching" /\ Readable(loop.next) /\ loop.vol \in Nat \ {0}
        /\ loop.next.volume = loop.vol
    BY <1>5 DEF Fetch, LoopSound
  <2>3. Restored(known) \in Records /\ Readable(Restored(known))
    BY <2>1, <2>2, AdvanceIsSound DEF Restored
  <2> DEFINE r == Joined(loop.next, Restored(known))
  <2>4. r \in Records /\ r.volume = loop.vol
    BY <2>2, <2>3, JoinedIsSound
  <2>5. Settle(r, known)
    BY <2>1
  <2> HIDE DEF r
  <2>6. state' = r /\ loop'.at \in {"deciding", "writing"} /\ loop'.vol = loop.vol
    BY <2>1, <2>4, <2>5, SettleIsTyped
  <2>7. UNCHANGED <<open, size, sl, lockLevel, torn, eased>>
    BY <1>5 DEF Fetch
  <2>8. QED
    BY <2>2, <2>4, <2>6, <2>7
<1>6. CASE Write
  <2>1. loop.at = "writing" /\ loop'.at = "deciding" /\ loop'.vol = loop.vol
    BY <1>6, GoIsTyped DEF Write, Go, Places
  <2>2. QED
    BY <1>1, <1>6, <2>1 DEF Write
<1>7. CASE Decide
  <2>1. loop'.at = "idle" \/ (loop'.at = "planning" /\ loop'.vol = loop.vol)
    BY <1>7, IdleIsSound, GoIsTyped DEF Decide, AttemptClose, Rest, Go, Places
  <2>2. Forget \/ UNCHANGED <<state, lockLevel>>
    BY <1>7 DEF Decide, AttemptClose
  <2>3. open' => open
    BY <1>7 DEF Decide, AttemptClose, TypeOK
  <2>4. UNCHANGED <<size, sl, torn, eased>> /\ loop.at # "idle"
    BY <1>7 DEF Decide
  <2>5. QED
    BY <1>1, <2>1, <2>2, <2>3, <2>4
<1>8. ASSUME NEW tier \in Tiers, PlanLock(tier) PROVE StopInv'
  <2> DEFINE floor == Greater(state.floor, tier)
             level == ScaleUp(floor, 1, size)
  <2>1. floor \in Nat
    BY RetentionAssumption DEF Greater, Records
  <2>2. level \in Nat /\ level * size >= floor
    BY <2>1, ScaleUpIsNat, PlannedStopRetains
  <2>3. /\ loop.at = "planning" /\ loop.rule = "lock"
        /\ IF open /\ floor > lockLevel
           THEN /\ Propose(level, floor)
                /\ lockLevel' = IF Worsens(level) THEN floor ELSE lockLevel
           ELSE NextRule /\ UNCHANGED lockLevel
        /\ UNCHANGED <<broker, state, ghosts>>
    BY <1>8 DEF PlanLock
  <2> HIDE DEF floor, level
  <2>4. state.volume = loop.vol /\ state.volume > 0
    BY <2>3 DEF LoopSound, Settled
  <2>5. CASE ~(open /\ floor > lockLevel)
    <3>1. loop'.at = "idle" \/ (loop'.at = "planning" /\ loop'.vol = loop.vol)
      BY <2>3, <2>5, NextRuleIsTyped
    <3>2. QED
      BY <1>1, <2>3, <2>5, <3>1
  <2>6. CASE open /\ floor > lockLevel
    <3>1. Propose(level, floor) /\ size = loop.vol
      BY <2>3, <2>6
    <3>2. \/ loop'.at = "idle"
          \/ loop'.at = "planning" /\ loop'.vol = loop.vol
          \/ /\ loop'.at = "modifying" /\ loop'.vol = loop.vol
             /\ loop'.level = level /\ loop'.floor = floor
             /\ ~Worsens(level)
      BY <2>1, <2>2, <3>1, ProposeIsTyped
    <3>3. CASE Worsens(level)
      <4>1. lockLevel' = floor /\ level <= sl
        BY <2>3, <2>6, <3>3 DEF Worsens
      <4>2. level * size <= sl * size
        BY <2>2, <4>1, HigherStopRetains
      <4>3. sl * state.volume = sl * size /\ level * size \in Int /\ sl * size \in Int
        BY <2>2, <2>4, <3>1
      <4>4. sl * state.volume >= floor
        BY <2>1, <2>2, <4>2, <4>3
      <4>5. QED
        BY <2>3, <2>4, <3>1, <3>2, <3>3, <4>1, <4>4
    <3>4. CASE ~Worsens(level)
      <4>1. lockLevel' = lockLevel /\ level > sl
        BY <2>2, <2>3, <2>6, <3>4 DEF Worsens
      <4>2. level * loop.vol >= floor
        BY <2>2, <3>1
      <4>3. QED
        BY <2>3, <3>1, <3>2, <4>1, <4>2
    <3>5. QED
      BY <3>3, <3>4
  <2>7. QED
    BY <2>5, <2>6
<1>9. ASSUME NEW level \in Levels, PlanOther(level) PROVE StopInv'
  <2>1. level \in Int /\ 0 \in Nat
    BY LevelsTyped
  <2>2. /\ loop.at = "planning" /\ loop.rule # "lock"
        /\ IF open THEN Propose(level, 0) ELSE NextRule
        /\ UNCHANGED <<broker, memory, ghosts>>
    BY <1>9 DEF PlanOther
  <2>3. \/ loop'.at = "idle"
        \/ loop'.at = "planning" /\ loop'.vol = loop.vol
        \/ /\ loop'.at = "modifying" /\ loop'.vol = loop.vol
           /\ loop'.level = level /\ loop'.rule = loop.rule
           /\ ~Worsens(level)
    BY <2>1, <2>2, ProposeIsTyped, NextRuleIsTyped
  <2>4. ~Worsens(level) => level > sl
    BY <2>1 DEF Worsens
  <2>5. QED
    BY <2>2, <2>3, <2>4
<1>10. CASE PlanNothing
  <2>1. loop'.at = "idle" \/ (loop'.at = "planning" /\ loop'.vol = loop.vol)
    BY <1>10, NextRuleIsTyped DEF PlanNothing
  <2>2. QED
    BY <1>1, <1>10, <2>1 DEF PlanNothing
<1>11. CASE Modify
  <2>1. loop'.at = "idle" \/ (loop'.at = "planning" /\ loop'.vol = loop.vol)
    BY <1>11, NextRuleIsTyped DEF Modify
  <2>2. /\ loop.at = "modifying"
        /\ UNCHANGED <<open, size, state, torn, eased>>
    BY <1>11 DEF Modify
  <2>3. state.volume = loop.vol /\ state.volume > 0
    BY <2>2 DEF LoopSound, Settled
  <2>4. loop.level > sl
    BY <2>2
  <2>5. CASE UNCHANGED <<sl, lockLevel>>
    BY <2>1, <2>2, <2>5
  <2>6. CASE sl' = loop.level /\ lockLevel' = lockLevel
    <3>1. sl * state.volume <= loop.level * state.volume
      BY <2>4, HigherStopRetains
    <3>2. sl * state.volume \in Int /\ loop.level * state.volume \in Int
      OBVIOUS
    <3>3. ~eased => LockRetained'
      BY <2>2, <2>6, <3>1, <3>2
    <3>4. QED
      BY <2>1, <2>2, <3>3
  <2>7. CASE sl' = loop.level /\ loop.rule = "lock" /\ lockLevel' = loop.floor
    <3>1. sl' * state.volume >= loop.floor
      BY <2>2, <2>3, <2>7
    <3>2. QED
      BY <2>1, <2>2, <2>3, <2>7, <3>1
  <2>8. QED
    BY <1>11, <2>5, <2>6, <2>7 DEF Modify
<1>12. CASE \E q \in Quotes : Move(q)
  BY <1>12 DEF Move
<1>13. CASE Close
  BY <1>13 DEF Close, TypeOK
<1>14. ASSUME NEW v \in Sizes, NEW level \in Levels \cup {sl, LossStop}, Trade(v, level)
       PROVE StopInv'
  <2>1. /\ loop.at = "idle" /\ loop' = loop /\ ~torn
        /\ sl' = level /\ eased' = (eased \/ level < sl)
        /\ UNCHANGED <<state, lockLevel>>
    BY <1>14 DEF Trade
  <2>2. ~eased' => LockRetained'
    <3>1. SUFFICES ASSUME ~eased', lockLevel > 0 PROVE LockRetained'
      BY <2>1
    <3>2. level \in Int /\ sl <= level
      <4>1. level \in Int
        BY LevelsTyped
      <4>2. ~(level < sl)
        BY <2>1, <3>1
      <4>3. QED
        BY <4>1, <4>2
    <3>3. sl * state.volume <= level * state.volume
      BY <3>2, HigherStopRetains
    <3>4. sl * state.volume \in Int /\ level * state.volume \in Int
      BY <3>2
    <3>5. ~eased /\ state.volume > 0 /\ sl * state.volume >= lockLevel
      BY <2>1, <3>1
    <3>6. QED
      BY <2>1, <3>3, <3>4, <3>5
  <2>3. QED
    BY <2>1, <2>2
<1>15. CASE Restart
  BY <1>1, <1>15, IdleIsSound DEF Restart, Rest
<1>16. QED
  BY <1>2, <1>3, <1>4, <1>5, <1>6, <1>7, <1>8, <1>9, <1>10, <1>11, <1>12, <1>13, <1>14, <1>15
     DEF Next, Poll, World

-----------------------------------------------------------------------------
IInv == SoundInv /\ KeptInv /\ StopInv

LEMMA InitEstablishes == Init => IInv
<1> SUFFICES ASSUME Init PROVE IInv
  OBVIOUS
<1>1. SoundInv
  BY SoundInit
<1>2. KeptInv
  BY DEF Init, KeptInv, KeptSound, KeptStored, KeptLoaded, KeptCovered, KeptPending, Empty
<1>3. StopInv
  BY IdleIsSound DEF Init, StopInv, SizeHolds, PlanImproves, PlanRetains, LockRetained,
                     LockPending
<1>4. QED
  BY <1>1, <1>2, <1>3 DEF IInv

LEMMA StepKeeps == IInv /\ [Next]_vars => IInv'
<1> SUFFICES ASSUME IInv, [Next]_vars PROVE IInv'
  OBVIOUS
<1>1. CASE Next
  BY <1>1, SoundStep, KeptStep, StopStep DEF IInv
<1>2. CASE UNCHANGED vars
  <2>1. UNCHANGED <<broker, stored, memory, loop, faults, trades, ghosts>>
    BY <1>2 DEF vars
  <2>2. SoundInv'
    BY <2>1 DEF IInv, SoundInv, TypeOK, RecordsSound, LoopSound, broker, memory, ghosts
  <2>3. KeptInv'
    BY <2>1 DEF IInv, KeptInv, KeptSound, KeptStored, KeptLoaded, KeptCovered, KeptPending,
                memory, ghosts
  <2>4. StopInv'
    BY <2>1 DEF IInv, StopInv, SizeHolds, PlanImproves, PlanRetains, LockRetained,
                LockPending, broker, memory, ghosts
  <2>5. QED
    BY <2>2, <2>3, <2>4 DEF IInv
<1>3. QED
  BY <1>1, <1>2

LEMMA Invariance == Spec => []IInv
  BY InitEstablishes, StepKeeps, PTL DEF Spec

(* Every variable stays in its type, whatever the policy, the sizes and     *)
(* the market: no scaling or merging leaves the natural numbers.           *)
THEOREM RetentionTypeCorrect == Spec => []TypeOK
<1>1. IInv => TypeOK
  BY DEF IInv, SoundInv
<1>2. QED
  BY <1>1, Invariance, PTL

(* from_dict never refuses a record that the engine has written.           *)
THEOREM WrittenRecordsAreReadable == Spec => []RecordIsReadable
<1>1. IInv => RecordIsReadable
  BY DEF IInv, SoundInv, RecordsSound, Sound, RecordIsReadable
<1>2. QED
  BY <1>1, Invariance, PTL

(* "The desired floor never decreases at unchanged size and survives        *)
(* restarts", of every floor whose write was confirmed.                    *)
THEOREM StoredFloorOutlivesRestart == Spec => []FloorIsKept
<1>1. IInv => FloorIsKept
  BY DEF IInv, KeptInv, KeptCovered, FloorIsKept
<1>2. QED
  BY <1>1, Invariance, PTL

(* What the dashboard reports as the broker's floor, the broker's stop     *)
(* retains, until the operator lowers the stop.                            *)
THEOREM LockedFloorIsRetained == Spec => []FloorIsBacked
<1>1. IInv => FloorIsBacked
  BY DEF IInv, StopInv, LockRetained, FloorIsBacked, Backed
<1>2. QED
  BY <1>1, Invariance, PTL

(* Under the execution lock the check before a modification is still true  *)
(* when the modification is sent: no rule lowers a stop.                   *)
THEOREM OnlyTheOperatorLowersAStop == Spec => StopOnlyImproves
<1>1. IInv /\ [Next]_vars => [~torn /\ sl' < sl => trades' > trades]_vars
  <2> SUFFICES ASSUME IInv, Next, ~torn, sl' < sl PROVE trades' > trades
    OBVIOUS
  <2>1. sl \in Int /\ loop.level \in Int /\ trades \in Nat
    BY DEF IInv, SoundInv, TypeOK, LoopState
  <2>2. sl' # sl
    BY <2>1
  <2>3. CASE Modify
    <3>1. loop.at = "modifying" /\ (sl' = loop.level \/ sl' = sl)
      BY <2>3 DEF Modify
    <3>2. loop.level > sl
      BY <3>1 DEF IInv, StopInv, PlanImproves
    <3>3. QED
      BY <2>1, <2>2, <3>1, <3>2
  <2>4. ASSUME NEW v, NEW level, Trade(v, level) PROVE trades' > trades
    BY <2>1, <2>4 DEF Trade
  <2>5. CASE \/ Refresh \/ CloseEarly \/ Retain \/ Fetch \/ Write \/ Decide
             \/ (\E tier \in Tiers : PlanLock(tier))
             \/ (\E level \in Levels : PlanOther(level))
             \/ PlanNothing \/ (\E q \in Quotes : Move(q)) \/ Close \/ Restart
    <3>1. sl' = sl
      BY <2>5 DEF Refresh, CloseEarly, Retain, Fetch, Write, Decide, PlanLock, PlanOther,
                  PlanNothing, Move, Close, Restart, broker
    <3>2. QED
      BY <2>2, <3>1
  <2>6. QED
    BY <2>3, <2>4, <2>5 DEF Next, Poll, World
<1>2. QED
  BY <1>1, Invariance, PTL DEF Spec, StopOnlyImproves

-----------------------------------------------------------------------------
(* The desired floor from one observation to the next, in memory: what an   *)
(* observation makes of the record, and that a record is only fetched      *)
(* while there is none.                                                    *)

LEMMA AdvanceFollowsSize ==
    ASSUME NEW r \in Records, Readable(r), NEW net \in Int, NEW v \in Nat \ {0},
           NEW risk \in Nat, v < r.volume
    PROVE  Advance(r, net, v, risk).floor >= Scale(r.floor, v, r.volume)
<1> DEFINE base == Resized(r, v)
           seen == [base EXCEPT !.peak = Greater(@, net)]
<1>1. base \in Records /\ Readable(base)
  BY ResizedIsReadable DEF Sound
<1>2. base.floor = Scale(r.floor, v, r.volume)
  BY DEF Resized
<1> HIDE DEF base
<1>3. seen \in Records /\ Readable(seen) /\ seen.floor = base.floor
  BY <1>1 DEF Records, Readable, Greater
<1>4. Advance(r, net, v, risk) = Raised(seen, risk)
  BY DEF Advance, base
<1> HIDE DEF seen
<1>5. QED
  BY <1>2, <1>3, <1>4, RaisedIsReadable

FetchesWhatIsMissing == loop.at = "fetching" => ~loaded

LEMMA FetchStep ==
    SoundInv /\ FetchesWhatIsMissing /\ [Next]_vars => FetchesWhatIsMissing'
<1> SUFFICES ASSUME SoundInv, FetchesWhatIsMissing, [Next]_vars, loop'.at = "fetching"
             PROVE  ~loaded'
    BY DEF FetchesWhatIsMissing
<1>0. loop \in LoopState /\ Idle.at = "idle"
  BY IdleIsSound DEF SoundInv, TypeOK
<1>1. CASE Retain
  BY <1>0, <1>1 DEF Retain, Settle, LoopState
<1>2. CASE Fetch
  <2>1. loop'.at \in {"deciding", "writing"}
    BY <1>0, <1>2 DEF Fetch, Settle, LoopState
  <2>2. QED
    BY <2>1
<1>3. CASE UNCHANGED <<loop, loaded>>
  BY <1>3 DEF FetchesWhatIsMissing
<1>4. CASE Rest
  BY <1>0, <1>4 DEF Rest
<1>5. ASSUME NEW place \in {"planning", "deciding"}, Go(place) PROVE FALSE
  BY <1>0, <1>5 DEF Go, LoopState
<1>6. ASSUME NextRule PROVE FALSE
  BY <1>0, <1>6 DEF NextRule, Rest, LoopState
<1>7. ASSUME NEW level, NEW floor, Propose(level, floor) PROVE FALSE
  BY <1>0, <1>6, <1>7 DEF Propose, LoopState
<1>8. CASE Refresh
  <2>1. CASE Rest
    BY <1>4, <2>1
  <2>2. CASE ~Rest
    <3>1. loop'.at = "refreshed"
      BY <1>0, <1>8, <2>2 DEF Refresh, Idle
    <3>2. QED
      BY <3>1
  <2>3. QED
    BY <2>1, <2>2
<1>9. CASE Write \/ Decide
  BY <1>4, <1>5, <1>9 DEF Write, Decide, AttemptClose
<1>10. CASE PlanNothing \/ Modify
  BY <1>6, <1>10 DEF PlanNothing, Modify
<1>11. ASSUME NEW tier \in Tiers, PlanLock(tier) PROVE FALSE
  BY <1>6, <1>7, <1>11 DEF PlanLock
<1>12. ASSUME NEW level \in Levels, PlanOther(level) PROVE FALSE
  BY <1>6, <1>7, <1>12 DEF PlanOther
<1>13. CASE CloseEarly \/ Restart
  BY <1>4, <1>13 DEF CloseEarly, Restart
<1>14. CASE (\E q \in Quotes : Move(q)) \/ Close \/ \E v, level : Trade(v, level)
  BY <1>3, <1>14 DEF Move, Close, Trade, memory
<1>15. CASE UNCHANGED vars
  BY <1>3, <1>15 DEF vars, memory
<1>16. QED
  BY <1>1, <1>2, <1>8, <1>9, <1>10, <1>11, <1>12, <1>13, <1>14, <1>15 DEF Next, Poll, World

(* At unchanged size the desired floor never decreases, and a partial close *)
(* takes no more than its share of it: whatever fails, restarts or is      *)
(* traded around the lock, as long as the ticket is not forgotten.         *)
THEOREM DesiredFloorFollowsSize == Spec => FloorFollowsSize
<1> DEFINE Follows ==
        loaded /\ loaded' =>
            /\ state'.volume = state.volume => state'.floor >= state.floor
            /\ state'.volume < state.volume =>
                  state'.floor >= Scale(state.floor, state'.volume, state.volume)
<1>1. SoundInv /\ FetchesWhatIsMissing /\ Next => Follows
  <2> SUFFICES ASSUME SoundInv, FetchesWhatIsMissing, Next, loaded, loaded' PROVE Follows
      OBVIOUS
  <2>0. /\ state \in Records /\ Sound(state) /\ loop \in LoopState
        /\ state.floor \in Nat /\ state.volume \in Nat
        /\ loop.net \in Int /\ loop.risk \in Nat
    BY DEF SoundInv, TypeOK, RecordsSound, Records, LoopState
  <2>1. CASE UNCHANGED state
    BY <2>0, <2>1
  <2>2. CASE Forget
    BY <2>2 DEF Forget
  <2>3. CASE Retain
    <3> DEFINE r == Advance(state, loop.net, loop.vol, loop.risk)
    <3>1. loop.vol \in Nat \ {0}
      BY <2>3 DEF Retain, SoundInv, LoopSound
    <3>2. state' = r
      BY <2>3 DEF Retain, Settle
    <3>3. r.volume = loop.vol /\ (loop.vol = state.volume => r.floor >= state.floor)
      BY <2>0, <3>1, AdvanceIsSound
    <3>4. loop.vol < state.volume => r.floor >= Scale(state.floor, loop.vol, state.volume)
      <4>1. ASSUME loop.vol < state.volume PROVE Readable(state)
        BY <2>0, <3>1, <4>1 DEF Sound, Empty
      <4>2. QED
        BY <2>0, <3>1, <4>1, AdvanceFollowsSize
    <3> HIDE DEF r
    <3>5. QED
      BY <3>2, <3>3, <3>4
  <2>4. CASE Fetch
    BY <2>4 DEF Fetch, FetchesWhatIsMissing
  <2>5. CASE Refresh \/ CloseEarly \/ Write \/ Decide \/ PlanNothing \/ Modify
    BY <2>1, <2>2, <2>5 DEF Refresh, CloseEarly, Write, Decide, AttemptClose, PlanNothing,
                            Modify, memory
  <2>6. CASE (\E tier \in Tiers : PlanLock(tier)) \/ \E level \in Levels : PlanOther(level)
    BY <2>1, <2>6 DEF PlanLock, PlanOther, memory
  <2>7. CASE World
    BY <2>1, <2>2, <2>7 DEF World, Move, Close, Trade, Restart, memory
  <2>8. QED
    BY <2>3, <2>4, <2>5, <2>6, <2>7 DEF Next, Poll
<1>2. Init => FetchesWhatIsMissing
  BY IdleIsSound DEF Init, FetchesWhatIsMissing
<1>3. SoundInv /\ FetchesWhatIsMissing /\ [Next]_vars => [Follows]_vars
  BY <1>1
<1>4. IInv => SoundInv
  BY DEF IInv
<1>5. QED
  BY Invariance, FetchStep, <1>2, <1>3, <1>4, PTL DEF Spec, FloorFollowsSize

(***************************************************************************)
(* A position that its owner leaves alone: whatever fails or restarts, the *)
(* stop never falls and always retains what was reported as locked.        *)
(***************************************************************************)
LEMMA NobodyTrades ==
    ASSUME MaxTrades = 0
    PROVE  Spec => [](~torn /\ ~eased)
<1>1. Init => ~torn /\ ~eased
  BY DEF Init
<1>2. TypeOK /\ ~torn /\ ~eased /\ [Next]_vars => ~torn' /\ ~eased'
  <2> SUFFICES ASSUME TypeOK, ~torn, ~eased, [Next]_vars PROVE ~torn' /\ ~eased'
      OBVIOUS
  <2>1. ASSUME NEW v, NEW level PROVE ~Trade(v, level)
    BY RetentionAssumption DEF TypeOK, Trade
  <2>2. UNCHANGED <<torn, eased>>
    BY <2>1 DEF Next, Poll, World, Refresh, CloseEarly, Retain, Fetch, Write, Decide, PlanLock,
                PlanOther, PlanNothing, Modify, Move, Close, Restart, vars, ghosts
  <2>3. QED
    BY <2>2
<1>3. QED
  BY RetentionTypeCorrect, <1>1, <1>2, PTL DEF Spec

(* If nobody trades the position at the terminal or the dashboard, the      *)
(* broker's stop never falls, through failed calls and restarts.           *)
THEOREM UntouchedStopNeverFalls ==
    ASSUME MaxTrades = 0
    PROVE  Spec => StopNeverFalls
<1>1. TypeOK /\ TypeOK' /\ ~torn /\ [~torn /\ sl' < sl => trades' > trades]_vars
        => [sl' >= sl]_sl
  <2> SUFFICES ASSUME TypeOK, TypeOK', ~torn, [~torn /\ sl' < sl => trades' > trades]_vars
               PROVE  sl' >= sl
      OBVIOUS
  <2>1. sl \in Int /\ sl' \in Int /\ trades = 0 /\ trades' = 0
    BY DEF TypeOK
  <2>2. QED
    BY <2>1 DEF vars, broker
<1>2. QED
  BY <1>1, NobodyTrades, RetentionTypeCorrect, OnlyTheOperatorLowersAStop, PTL
     DEF StopOnlyImproves, StopNeverFalls

(* Under the same hypothesis the level reported as the accepted floor is    *)
(* always retained by the stop at the current size, without exceptions.    *)
THEOREM UntouchedLockIsBacked ==
    ASSUME MaxTrades = 0
    PROVE  Spec => []Backed
<1>1. FloorIsBacked /\ ~torn /\ ~eased => Backed
  BY DEF FloorIsBacked
<1>2. QED
  BY <1>1, NobodyTrades, LockedFloorIsRetained, PTL
=============================================================================
