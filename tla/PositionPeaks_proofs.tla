------------------------ MODULE PositionPeaks_proofs ------------------------
(***************************************************************************)
(* That a stored peak outlives restarts, for any accounts, any range of    *)
(* profits, any threshold and any number of switches, crashes and failed   *)
(* cache calls.                                                            *)
(***************************************************************************)
EXTENDS PositionPeaks, TLAPS

(* Memory is at least the record while it counts as loaded...              *)
MemoryCovers == loaded => peak >= stored[Home]

(* ...the record is at least what was confirmed to be in it...             *)
RecordCovers == stored[Home] >= confirmed

(* ...what a loop has fetched is the record until somebody loads it...     *)
FetchCurrent ==
    \A l \in Loops :
        loop[l].at = "fetched" /\ loop[l].acct = Home /\ ~loaded
            => loop[l].got = stored[Home]

(* ...one loop at a time writes, for the right account, a peak between the *)
(* record and memory...                                                    *)
OneWriter ==
    \A k, l \in Loops : loop[k].at = "writing" /\ loop[l].at = "writing" => k = l

WriterAdvances ==
    \A l \in Loops :
        loop[l].at = "writing" =>
            /\ loop[l].acct = Home
            /\ loaded
            /\ stored[Home] <= loop[l].val
            /\ loop[l].val <= peak

(* ...and what is about to be confirmed is in the record.                  *)
WrittenStays ==
    \A l \in Loops :
        loop[l].at = "written" /\ loop[l].acct = Home => loop[l].val <= stored[Home]

Covered ==
    open /\ ~exposed =>
        /\ MemoryCovers
        /\ RecordCovers
        /\ FetchCurrent
        /\ OneWriter
        /\ WriterAdvances
        /\ WrittenStays

IInv == TypeOK /\ Covered

-----------------------------------------------------------------------------
(* Records of the right type.                                              *)
LEMMA BoundsTyped ==
    /\ 0 \in Profits
    /\ NoRecord \in MaybeProfit
    /\ Profits \subseteq MaybeProfit
    /\ 0 \in 0..MaxFaults
BY PeaksAssumption DEF Profits, MaybeProfit

LEMMA IdleLoopTyped == IdleLoop \in LoopState
BY PeaksAssumption DEF IdleLoop, LoopState, Places, Profits, MaybeProfit, NoRecord

LEMMA GreaterTyped ==
    ASSUME NEW m \in MaybeProfit, NEW n \in Profits
    PROVE  /\ Greater(m, n) \in Profits
           /\ Greater(n, m) \in Profits
           /\ m <= Greater(m, n)
           /\ n <= Greater(m, n)
           /\ m <= Greater(n, m)
           /\ n <= Greater(n, m)
BY PeaksAssumption DEF Greater, MaybeProfit, Profits, NoRecord

(* What moving a loop does to the record of that loop.                     *)
LEMMA GoTyped ==
    ASSUME TypeOK, NEW l \in Loops, NEW place \in Places, Go(l, place)
    PROVE  loop' \in [Loops -> LoopState]
BY DEF TypeOK, Go, LoopState

LEMMA RestTyped ==
    ASSUME TypeOK, NEW l \in Loops, Rest(l)
    PROVE  loop' \in [Loops -> LoopState]
BY IdleLoopTyped DEF TypeOK, Rest

LEMMA GoOnTyped ==
    ASSUME TypeOK, NEW l \in Loops, GoOn(l)
    PROVE  /\ loop' \in [Loops -> LoopState]
           /\ loop'[l].at \notin Updating \cup {"written"}
           /\ \A k \in Loops \ {l} : loop'[k] = loop[k]
<1>1. AfterUpdate(l) \in {"closing", "acting", "refreshing"}
  BY DEF AfterUpdate
<1>2. loop[l] \in LoopState
  BY DEF TypeOK
<1> DEFINE next == [IdleLoop EXCEPT !.at = AfterUpdate(l), !.acct = loop[l].acct,
                                    !.refreshed = loop[l].refreshed]
<1>3. next \in LoopState /\ next.at = AfterUpdate(l)
  BY <1>1, <1>2, IdleLoopTyped DEF LoopState, IdleLoop, Places
<1>4. loop' = [loop EXCEPT ![l] = next]
  BY DEF GoOn
<1> HIDE DEF next
<1>5. QED
  BY <1>1, <1>3, <1>4 DEF TypeOK, Updating

(* The synchronous part of the update.                                     *)
LEMMA ObserveTyped ==
    ASSUME TypeOK, NEW l \in Loops, NEW base \in Profits, NEW known \in MaybeProfit,
           Observe(l, base, known)
    PROVE  /\ loop' \in [Loops -> LoopState]
           /\ peak' \in Profits
           /\ base <= peak'
           /\ persisted' = known
           /\ loaded' = TRUE
           /\ exposed' \in BOOLEAN
           /\ ~exposed' => ~exposed /\ loop[l].acct = Home
           /\ \A k \in Loops \ {l} : loop'[k] = loop[k]
           /\ \/ loop'[l].at \notin Updating \cup {"written"}
              \/ /\ loop'[l].at = "writing"
                 /\ loop'[l].val = peak'
                 /\ loop'[l].acct = loop[l].acct
                 /\ ~exposed' => \A k \in Loops \ {l} : loop[k].at # "writing"
<1> DEFINE new == Greater(base, loop[l].obs)
<1>1. loop[l] \in LoopState /\ exposed \in BOOLEAN
  BY DEF TypeOK
<1>2. base \in MaybeProfit /\ loop[l].obs \in Profits
  BY <1>1 DEF LoopState, MaybeProfit
<1>3. new \in Profits /\ base <= new
  BY <1>2, GreaterTyped
<1>4. peak' = new /\ persisted' = known /\ loaded' = TRUE
  BY DEF Observe
<1>5. CASE /\ GoOn(l)
           /\ exposed' = (exposed \/ loop[l].acct # Home)
  BY <1>1, <1>3, <1>4, <1>5, GoOnTyped
<1>6. CASE /\ loop' = [loop EXCEPT ![l] = [@ EXCEPT !.at = "writing", !.obs = 0,
                                           !.got = NoRecord, !.val = new]]
           /\ exposed' = \/ exposed
                         \/ loop[l].acct # Home
                         \/ \E k \in Loops \ {l} : loop[k].at = "writing"
  <2> DEFINE next == [loop[l] EXCEPT !.at = "writing", !.obs = 0, !.got = NoRecord,
                                     !.val = new]
  <2>0. 0 \in Profits /\ NoRecord \in MaybeProfit /\ "writing" \in Places
    BY PeaksAssumption DEF Profits, MaybeProfit, Places, Updating
  <2> HIDE DEF new
  <2>1. /\ next \in LoopState
        /\ next.at = "writing"
        /\ next.val = new
        /\ next.acct = loop[l].acct
    BY <1>1, <1>3, <2>0 DEF LoopState
  <2>2. loop' = [loop EXCEPT ![l] = next]
    BY <1>6
  <2> HIDE DEF next
  <2>3. QED
    BY <1>1, <1>3, <1>4, <1>6, <2>1, <2>2 DEF TypeOK
<1>7. QED
  BY <1>5, <1>6 DEF Observe
-----------------------------------------------------------------------------
(* Types, action by action.                                                *)
LEMMA FaultTyped ==
    ASSUME TypeOK, Fault \/ faults' = faults
    PROVE  faults' \in 0..MaxFaults
<1>1. CASE faults' = faults
  BY <1>1 DEF TypeOK
<1>2. CASE Fault
  BY <1>2, PeaksAssumption DEF TypeOK, Fault
<1>3. QED
  BY <1>1, <1>2

LEMMA UpdateTyped ==
    ASSUME TypeOK, NEW l \in Loops, UpdateStep(l)
    PROVE  TypeOK'
<1>0. /\ loop[l] \in LoopState
      /\ peak \in Profits
      /\ persisted \in MaybeProfit
  BY DEF TypeOK
<1>1. CASE Update(l)
  <2>1. CASE loaded /\ Observe(l, peak, persisted)
    BY <1>0, <1>1, <2>1, ObserveTyped DEF Update, TypeOK, MaybeProfit
  <2>2. CASE Go(l, "fetching") /\ UNCHANGED <<memory, exposed>>
    <3>1. "fetching" \in Places
      BY DEF Places, Updating
    <3>2. loop' \in [Loops -> LoopState]
      BY <2>2, <3>1, GoTyped
    <3>3. QED
      BY <1>1, <2>2, <3>2 DEF Update, TypeOK, memory
  <2>3. QED
    BY <1>1, <2>1, <2>2 DEF Update
<1>2. CASE Fetch(l)
  <2>1. stored[loop[l].acct] \in MaybeProfit /\ NoRecord \in MaybeProfit
    BY <1>0 DEF TypeOK, LoopState, MaybeProfit
  <2>2. loop' \in [Loops -> LoopState]
    <3>1. PICK g \in MaybeProfit : loop' = [loop EXCEPT ![l].at = "fetched", ![l].got = g]
      BY <1>2, <2>1 DEF Fetch
    <3>2. "fetched" \in Places
      BY DEF Places, Updating
    <3>3. [loop[l] EXCEPT !.at = "fetched", !.got = g] \in LoopState
      BY <1>0, <3>1, <3>2 DEF LoopState
    <3>4. QED
      BY <3>1, <3>3 DEF TypeOK
  <2>3. faults' \in 0..MaxFaults
    BY <1>2, FaultTyped DEF Fetch
  <2>4. exposed' \in BOOLEAN
    BY <1>2 DEF Fetch, TypeOK
  <2>5. QED
    BY <1>2, <2>2, <2>3, <2>4 DEF Fetch, TypeOK, memory
<1>3. CASE Merge(l)
  <2> DEFINE known == IF loop[l].got = NoRecord THEN persisted ELSE loop[l].got
  <2>1. known \in MaybeProfit /\ Merged(l) \in Profits
    BY <1>0, GreaterTyped DEF LoopState, Merged
  <2>2. Observe(l, Merged(l), known)
    BY <1>3 DEF Merge
  <2> HIDE DEF known
  <2>3. UNCHANGED <<terminal, active, open, stored, seenOpen, faults, confirmed>>
    BY <1>3 DEF Merge
  <2>4. /\ loop' \in [Loops -> LoopState] /\ peak' \in Profits /\ persisted' = known
        /\ loaded' = TRUE /\ exposed' \in BOOLEAN
    BY <2>1, <2>2, ObserveTyped
  <2>5. QED
    BY <2>1, <2>3, <2>4 DEF TypeOK
<1>4. CASE Write(l)
  <2>1. stored' \in [Accounts -> MaybeProfit]
    BY <1>0, <1>4 DEF Write, TypeOK, LoopState, MaybeProfit
  <2>2. loop' \in [Loops -> LoopState]
    <3>1. "written" \in Places
      BY DEF Places
    <3>2. QED
      BY <1>4, <3>1, GoTyped, GoOnTyped DEF Write
  <2>3. faults' \in 0..MaxFaults
    BY <1>4, FaultTyped DEF Write
  <2>4. QED
    BY <1>4, <2>1, <2>2, <2>3 DEF Write, TypeOK, memory, ghosts
<1>5. CASE Written(l)
  <2>1. loop' \in [Loops -> LoopState]
    BY <1>5, GoOnTyped DEF Written
  <2>2. loop[l].val \in Profits /\ confirmed \in MaybeProfit
    BY <1>0 DEF TypeOK, LoopState
  <2>3. confirmed' \in MaybeProfit /\ persisted' \in MaybeProfit
    BY <1>5, <2>2, GreaterTyped DEF Written, MaybeProfit
  <2>4. QED
    BY <1>5, <2>1, <2>3 DEF Written, TypeOK
<1>6. QED
  BY <1>1, <1>2, <1>3, <1>4, <1>5 DEF UpdateStep

LEMMA ForgetTyped ==
    ASSUME TypeOK, NEW l \in Loops, ForgetBy(l)
    PROVE  /\ loaded' \in BOOLEAN
           /\ peak' \in Profits
           /\ persisted' \in MaybeProfit
           /\ exposed' \in BOOLEAN
<1>1. loaded' \in BOOLEAN /\ peak' \in Profits /\ persisted' \in MaybeProfit
  BY BoundsTyped DEF ForgetBy, Forget
<1>2. CASE \E k \in Loops \ {l} : loop[k].at \in Updating
  <2>1. exposed' = TRUE
    BY <1>2 DEF ForgetBy
  <2>2. QED
    BY <1>1, <2>1
<1>3. CASE ~\E k \in Loops \ {l} : loop[k].at \in Updating
  <2>1. exposed' = exposed
    BY <1>3 DEF ForgetBy, TypeOK
  <2>2. QED
    BY <1>1, <2>1 DEF TypeOK
<1>4. QED
  BY <1>2, <1>3

LEMMA MainTyped == ASSUME TypeOK, MainStep PROVE TypeOK'
<1>0. "main" \in Loops /\ loop["main"] \in LoopState
  BY DEF MainStep, TypeOK
<1>1. CASE MainAccount
  <2>1. loop' \in [Loops -> LoopState]
    <3>1. PICK place \in {"listing", "adopting"} :
            loop' = [loop EXCEPT !["main"].at = place, !["main"].acct = terminal]
      BY <1>1 DEF MainAccount
    <3>2. [loop["main"] EXCEPT !.at = place, !.acct = terminal] \in LoopState
      BY <1>0, <3>1 DEF LoopState, Places, TypeOK
    <3>3. QED
      BY <1>0, <3>1, <3>2 DEF TypeOK
  <2>2. /\ loaded' \in BOOLEAN
        /\ peak' \in Profits
        /\ persisted' \in MaybeProfit
        /\ exposed' \in BOOLEAN
        /\ seenOpen' \in BOOLEAN
    BY <1>0, <1>1, ForgetTyped DEF MainAccount, TypeOK, memory
  <2>3. QED
    BY <1>1, <2>1, <2>2 DEF MainAccount, TypeOK
<1>2. CASE MainAdopt
  <2>1. loop' \in [Loops -> LoopState]
    BY <1>0, <1>2, GoTyped DEF MainAdopt, Places
  <2>2. active' \in Accounts
    BY <1>0, <1>2 DEF MainAdopt, LoopState
  <2>3. QED
    BY <1>2, <2>1, <2>2 DEF MainAdopt, TypeOK, memory, ghosts
<1>3. CASE MainList
  <2>1. loop' \in [Loops -> LoopState]
    <3>1. CASE Rest("main")
      BY <1>0, <3>1, RestTyped
    <3>2. CASE Go("main", "missing")
      BY <1>0, <3>2, GoTyped DEF Places
    <3>3. CASE \E o \in Profits :
                 loop' = [loop EXCEPT !["main"].at = "observed", !["main"].obs = o]
      <4>1. PICK o \in Profits :
              loop' = [loop EXCEPT !["main"].at = "observed", !["main"].obs = o]
        BY <3>3
      <4>2. [loop["main"] EXCEPT !.at = "observed", !.obs = o] \in LoopState
        BY <1>0 DEF LoopState, Places
      <4>3. QED
        BY <1>0, <4>1, <4>2 DEF TypeOK
    <3>4. QED
      BY <1>3, <3>1, <3>2, <3>3 DEF MainList
  <2>2. faults' \in 0..MaxFaults
    BY <1>3, FaultTyped DEF MainList
  <2>3. QED
    BY <1>3, <2>1, <2>2 DEF MainList, TypeOK, memory, ghosts
<1>4. CASE MainKnown
  BY <1>0, <1>4, RestTyped DEF MainKnown, TypeOK, memory, ghosts
<1>5. CASE MainClosure
  <2>1. loop' \in [Loops -> LoopState] /\ seenOpen' \in BOOLEAN
    BY <1>0, <1>5, RestTyped DEF MainClosure
  <2>2. /\ loaded' \in BOOLEAN
        /\ peak' \in Profits
        /\ persisted' \in MaybeProfit
        /\ exposed' \in BOOLEAN
    BY <1>0, <1>5, ForgetTyped DEF MainClosure, TypeOK, memory
  <2>3. QED
    BY <1>5, <2>1, <2>2 DEF MainClosure, TypeOK
<1>6. CASE UpdateStep("main")
  BY <1>0, <1>6, UpdateTyped
<1>7. QED
  BY <1>1, <1>2, <1>3, <1>4, <1>5, <1>6 DEF MainStep

LEMMA ProtectionTyped == ASSUME TypeOK, ProtectionStep PROVE TypeOK'
<1>0. "protection" \in Loops /\ loop["protection"] \in LoopState
  BY DEF ProtectionStep, TypeOK
<1>1. CASE ProtectBegin \/ ProtectRebind
  <2>1. ASSUME ProtectBegin PROVE loop' \in [Loops -> LoopState]
    <3>1. [loop["protection"] EXCEPT !.at = "listing", !.acct = active] \in LoopState
      BY <1>0 DEF LoopState, Places, TypeOK
    <3>2. loop' = [loop EXCEPT !["protection"] =
                     [loop["protection"] EXCEPT !.at = "listing", !.acct = active]]
      BY <2>1 DEF ProtectBegin
    <3>3. QED
      BY <1>0, <3>1, <3>2 DEF TypeOK
  <2>2. ASSUME ProtectRebind PROVE loop' \in [Loops -> LoopState]
    <3>1. [loop["protection"] EXCEPT !.at = "observed", !.acct = active,
                                     !.refreshed = TRUE] \in LoopState
      BY <1>0 DEF LoopState, Places, TypeOK
    <3>2. loop' = [loop EXCEPT !["protection"] =
                     [loop["protection"] EXCEPT !.at = "observed", !.acct = active,
                                                !.refreshed = TRUE]]
      BY <2>2 DEF ProtectRebind
    <3>3. QED
      BY <1>0, <3>1, <3>2 DEF TypeOK
  <2>3. loop' \in [Loops -> LoopState]
    BY <1>1, <2>1, <2>2
  <2>4. QED
    BY <1>1, <2>3 DEF ProtectBegin, ProtectRebind, TypeOK, memory, ghosts
<1>2. CASE ProtectList \/ ProtectReread
  <2>1. loop' \in [Loops -> LoopState]
    <3>1. CASE Rest("protection")
      BY <1>0, <3>1, RestTyped
    <3>2. CASE \E o \in Profits, place \in {"observed", "rebinding"} :
                 loop' = [loop EXCEPT !["protection"].at = place,
                                      !["protection"].obs = o]
      <4>1. PICK o \in Profits, place \in {"observed", "rebinding"} :
              loop' = [loop EXCEPT !["protection"].at = place, !["protection"].obs = o]
        BY <3>2
      <4>2. [loop["protection"] EXCEPT !.at = place, !.obs = o] \in LoopState
        BY <1>0, <4>1 DEF LoopState, Places
      <4>3. QED
        BY <1>0, <4>1, <4>2 DEF TypeOK
    <3>3. QED
      BY <1>2, <3>1, <3>2 DEF ProtectList, ProtectReread
  <2>2. /\ loaded' \in BOOLEAN
        /\ peak' \in Profits
        /\ persisted' \in MaybeProfit
        /\ exposed' \in BOOLEAN
    BY <1>0, <1>2, ForgetTyped DEF ProtectList, ProtectReread, TypeOK, memory, ghosts
  <2>3. faults' \in 0..MaxFaults
    BY <1>2, FaultTyped DEF ProtectList, ProtectReread
  <2>4. QED
    BY <1>2, <2>1, <2>2, <2>3 DEF ProtectList, ProtectReread, TypeOK, ghosts
<1>3. CASE ProtectVerify
  <2>1. loop' \in [Loops -> LoopState]
    BY <1>0, <1>3, RestTyped, GoTyped DEF ProtectVerify, Places
  <2>2. faults' \in 0..MaxFaults
    BY <1>3, FaultTyped DEF ProtectVerify
  <2>3. QED
    BY <1>3, <2>1, <2>2 DEF ProtectVerify, TypeOK, memory, ghosts
<1>4. CASE ProtectAct
  <2>1. loop' \in [Loops -> LoopState]
    BY <1>0, <1>4, RestTyped DEF ProtectAct
  <2>2. /\ open' \in BOOLEAN
        /\ loaded' \in BOOLEAN
        /\ peak' \in Profits
        /\ persisted' \in MaybeProfit
        /\ exposed' \in BOOLEAN
    BY <1>0, <1>4, ForgetTyped DEF ProtectAct, TypeOK, memory
  <2>3. QED
    BY <1>4, <2>1, <2>2 DEF ProtectAct, TypeOK
<1>5. CASE UpdateStep("protection")
  BY <1>0, <1>5, UpdateTyped
<1>6. QED
  BY <1>1, <1>2, <1>3, <1>4, <1>5 DEF ProtectionStep

LEMMA WorldTyped == ASSUME TypeOK, World PROVE TypeOK'
<1>1. CASE Close
  BY <1>1 DEF Close, TypeOK, memory, ghosts
<1>2. CASE Restart
  <2>1. faults' \in 0..MaxFaults
    BY <1>2, FaultTyped DEF Restart
  <2>2. QED
    BY <1>2, <2>1, IdleLoopTyped, BoundsTyped DEF Restart, Forget, TypeOK, ghosts
<1>3. ASSUME NEW a \in Accounts, SwitchAccount(a) PROVE TypeOK'
  <2>1. faults' \in 0..MaxFaults
    BY <1>3, FaultTyped DEF SwitchAccount
  <2>2. QED
    BY <1>3, <2>1 DEF SwitchAccount, TypeOK, memory, ghosts
<1>4. QED
  BY <1>1, <1>2, <1>3 DEF World

(* Types hold in every reachable state, for every value of the constants.  *)
THEOREM PeaksTypeCorrect == Spec => []TypeOK
<1>1. Init => TypeOK
  BY IdleLoopTyped, BoundsTyped, PeaksAssumption DEF Init, TypeOK
<1>2. TypeOK /\ [Next]_vars => TypeOK'
  <2>1. TypeOK /\ UNCHANGED vars => TypeOK'
    BY DEF vars, memory, ghosts, TypeOK
  <2>2. QED
    BY <2>1, MainTyped, ProtectionTyped, WorldTyped DEF Next
<1>3. QED
  BY <1>1, <1>2, PTL DEF Spec
-----------------------------------------------------------------------------
(* The peak is covered.                                                    *)

(* A step that leaves every update alone keeps what the updates rely on.   *)
LEMMA BystanderKeepsCovered ==
    ASSUME TypeOK, Covered, NEW l \in Loops,
           UNCHANGED <<stored, memory, ghosts>>,
           open' => open,
           \A k \in Loops \ {l} : loop'[k] = loop[k],
           loop'[l].at \notin {"fetched", "writing", "written"}
    PROVE  Covered'
BY DEF Covered, MemoryCovers, RecordCovers, FetchCurrent, OneWriter, WriterAdvances,
       WrittenStays, memory, ghosts

(* Forgetting is safe while no other loop is inside an update.             *)
LEMMA ForgettingKeepsCovered ==
    ASSUME TypeOK, Covered, NEW l \in Loops, ForgetBy(l),
           UNCHANGED <<stored, confirmed>>,
           open' => open,
           \A k \in Loops \ {l} : loop'[k] = loop[k],
           loop'[l].at \notin {"fetched", "writing", "written"}
    PROVE  Covered'
<1> SUFFICES ASSUME open', ~exposed' PROVE Covered'
  BY DEF Covered
<1>1. open /\ ~exposed
  BY DEF ForgetBy
<1>2. \A k \in Loops : loop'[k].at \notin {"fetched", "writing"}
  BY DEF ForgetBy, Updating
<1>3. WrittenStays'
  BY <1>1 DEF Covered, WrittenStays
<1>4. QED
  BY <1>1, <1>2, <1>3
  DEF Covered, MemoryCovers, RecordCovers, FetchCurrent, OneWriter, WriterAdvances,
      ForgetBy, Forget

(* The synchronous part of an update, from a base that covers the record.  *)
LEMMA ObservingKeepsCovered ==
    ASSUME TypeOK, Covered, NEW l \in Loops, NEW base \in Profits,
           NEW known \in MaybeProfit, Observe(l, base, known),
           open /\ ~exposed /\ loop[l].acct = Home =>
               base >= stored[Home] /\ (loaded => base >= peak),
           UNCHANGED <<open, stored, confirmed>>
    PROVE  Covered'
<1> SUFFICES ASSUME open', ~exposed' PROVE Covered'
  BY DEF Covered
<1>1. /\ peak' \in Profits
      /\ base <= peak'
      /\ loaded' = TRUE
      /\ ~exposed
      /\ loop[l].acct = Home
      /\ \A k \in Loops \ {l} : loop'[k] = loop[k]
  BY ObserveTyped
<1>2. /\ peak \in Profits
      /\ stored[Home] \in Int
      /\ peak' \in Int
      /\ base \in Int
      /\ peak \in Int
  BY <1>1, PeaksAssumption DEF TypeOK, Profits, MaybeProfit, NoRecord
<1>3. open /\ base >= stored[Home] /\ (loaded => base >= peak)
  BY <1>1
<1>4. peak' >= stored[Home] /\ (loaded => peak' >= peak)
  BY <1>1, <1>2, <1>3
<1>5. /\ MemoryCovers'
      /\ RecordCovers'
      /\ FetchCurrent'
  BY <1>1, <1>3, <1>4 DEF Covered, MemoryCovers, RecordCovers, FetchCurrent
<1>6. \/ loop'[l].at \notin Updating \cup {"written"}
      \/ /\ loop'[l].at = "writing"
         /\ loop'[l].val = peak'
         /\ loop'[l].acct = Home
         /\ \A k \in Loops \ {l} : loop[k].at # "writing"
  BY <1>1, ObserveTyped
<1>7. OneWriter'
  BY <1>1, <1>3, <1>6 DEF Covered, OneWriter, Updating
<1>8. WriterAdvances'
  <2> SUFFICES ASSUME NEW k \in Loops, loop'[k].at = "writing"
               PROVE  /\ loop'[k].acct = Home
                      /\ loaded'
                      /\ stored'[Home] <= loop'[k].val
                      /\ loop'[k].val <= peak'
    BY DEF WriterAdvances
  <2>1. CASE k = l
    BY <1>1, <1>2, <1>4, <1>6, <2>1 DEF Updating
  <2>2. CASE k # l
    <3>1. loop[k].at = "writing" /\ loop'[k] = loop[k]
      BY <1>1, <2>2
    <3>2. /\ loop[k].acct = Home
          /\ loaded
          /\ stored[Home] <= loop[k].val
          /\ loop[k].val <= peak
      BY <1>1, <1>3, <3>1 DEF Covered, WriterAdvances
    <3>3. loop[k].val \in Int
      BY PeaksAssumption DEF TypeOK, LoopState, Profits
    <3>4. QED
      BY <1>1, <1>2, <1>4, <3>1, <3>2, <3>3
  <2>3. QED
    BY <2>1, <2>2
<1>9. WrittenStays'
  BY <1>1, <1>3, <1>6 DEF Covered, WrittenStays, Updating
<1>10. QED
  BY <1>5, <1>7, <1>8, <1>9 DEF Covered

(* A cache read answers with the record, or the failed read is on file.    *)
LEMMA FetchingKeepsCovered ==
    ASSUME TypeOK, Covered, NEW l \in Loops, Fetch(l)
    PROVE  Covered'
<1> SUFFICES ASSUME open', ~exposed' PROVE Covered'
  BY DEF Covered
<1>1. loop' = [loop EXCEPT ![l].at = "fetched", ![l].got = stored[loop[l].acct]]
  BY DEF Fetch
<1>2. UNCHANGED <<open, stored, memory, ghosts>>
  BY DEF Fetch, ghosts
<1> DEFINE next == [loop[l] EXCEPT !.at = "fetched", !.got = stored[loop[l].acct]]
<1>3. loop' = [loop EXCEPT ![l] = next]
  BY <1>1
<1>4. /\ next.at = "fetched"
      /\ next.acct = loop[l].acct
      /\ next.got = stored[loop[l].acct]
  BY DEF TypeOK, LoopState
<1> HIDE DEF next
<1>5. /\ loop'[l] = next
      /\ \A k \in Loops \ {l} : loop'[k] = loop[k]
  BY <1>3 DEF TypeOK
<1>6. FetchCurrent'
  BY <1>2, <1>4, <1>5 DEF Covered, FetchCurrent, memory, ghosts
<1>7. OneWriter' /\ WriterAdvances' /\ WrittenStays'
  BY <1>2, <1>4, <1>5 DEF Covered, OneWriter, WriterAdvances, WrittenStays, memory, ghosts
<1>8. MemoryCovers' /\ RecordCovers'
  BY <1>2 DEF Covered, MemoryCovers, RecordCovers, memory, ghosts
<1>9. QED
  BY <1>6, <1>7, <1>8 DEF Covered

(* A write raises the record to a peak that memory covers.                 *)
LEMMA WritingKeepsCovered ==
    ASSUME TypeOK, Covered, NEW l \in Loops, Write(l)
    PROVE  Covered'
<1>0. loop[l].at = "writing" /\ UNCHANGED <<open, memory, ghosts>>
  BY DEF Write
<1>1. CASE GoOn(l) /\ UNCHANGED stored
  BY <1>0, <1>1, GoOnTyped, BystanderKeepsCovered DEF Updating
<1>2. CASE Go(l, "written") /\ stored' = [stored EXCEPT ![loop[l].acct] = loop[l].val]
  <2> SUFFICES ASSUME open', ~exposed' PROVE Covered'
    BY DEF Covered
  <2>1. open /\ ~exposed
    BY <1>0 DEF ghosts
  <2>2. /\ loop[l].acct = Home
        /\ loaded
        /\ stored[Home] <= loop[l].val
        /\ loop[l].val <= peak
        /\ stored[Home] >= confirmed
    BY <1>0, <2>1 DEF Covered, WriterAdvances, RecordCovers
  <2>3. stored'[Home] = loop[l].val
    BY <1>2, <2>2, PeaksAssumption DEF TypeOK
  <2>4. /\ stored[Home] \in Int
        /\ confirmed \in Int
        /\ peak \in Int
        /\ \A k \in Loops : loop[k].val \in Int
    BY PeaksAssumption DEF TypeOK, LoopState, Profits, MaybeProfit, NoRecord
  <2>5. /\ \A k \in Loops : loop'[k].val = loop[k].val /\ loop'[k].acct = loop[k].acct
        /\ loop'[l].at = "written"
        /\ \A k \in Loops \ {l} : loop'[k] = loop[k]
    BY <1>2 DEF Go, TypeOK, LoopState
  <2>6. \A k \in Loops : loop'[k].at # "writing"
    BY <1>0, <2>1, <2>5 DEF Covered, OneWriter
  <2>7. MemoryCovers' /\ RecordCovers'
    BY <1>0, <2>2, <2>3, <2>4 DEF MemoryCovers, RecordCovers, memory, ghosts
  <2>8. FetchCurrent' /\ OneWriter' /\ WriterAdvances'
    BY <1>0, <2>2, <2>6 DEF FetchCurrent, OneWriter, WriterAdvances, memory
  <2>9. WrittenStays'
    <3> SUFFICES ASSUME NEW k \in Loops, loop'[k].at = "written", loop'[k].acct = Home
                 PROVE  loop'[k].val <= stored'[Home]
      BY DEF WrittenStays
    <3>1. CASE k = l
      BY <2>3, <2>4, <2>5, <3>1
    <3>2. CASE k # l
      <4>1. loop'[k] = loop[k] /\ loop[k].val <= stored[Home]
        BY <2>1, <2>5, <3>2 DEF Covered, WrittenStays
      <4>2. QED
        BY <2>2, <2>3, <2>4, <4>1
    <3>3. QED
      BY <3>1, <3>2
  <2>10. QED
    BY <2>7, <2>8, <2>9 DEF Covered
<1>3. QED
  BY <1>1, <1>2 DEF Write

(* What is confirmed was written.                                          *)
LEMMA ConfirmingKeepsCovered ==
    ASSUME TypeOK, Covered, NEW l \in Loops, Written(l)
    PROVE  Covered'
<1> SUFFICES ASSUME open', ~exposed' PROVE Covered'
  BY DEF Covered
<1>1. /\ loop[l].at = "written"
      /\ open
      /\ ~exposed
      /\ UNCHANGED <<stored, loaded, peak>>
  BY DEF Written
<1>2. /\ loop'[l].at \notin Updating \cup {"written"}
      /\ \A k \in Loops \ {l} : loop'[k] = loop[k]
  BY GoOnTyped DEF Written
<1>3. RecordCovers'
  BY <1>1 DEF Covered, RecordCovers, WrittenStays, Written, Greater
<1>4. MemoryCovers' /\ FetchCurrent' /\ OneWriter' /\ WriterAdvances' /\ WrittenStays'
  BY <1>1, <1>2 DEF Covered, MemoryCovers, FetchCurrent, OneWriter, WriterAdvances,
                    WrittenStays, Updating
<1>5. QED
  BY <1>3, <1>4 DEF Covered

LEMMA UpdatingKeepsCovered ==
    ASSUME TypeOK, Covered, NEW l \in Loops, UpdateStep(l)
    PROVE  Covered'
<1>0. /\ peak \in Profits
      /\ persisted \in MaybeProfit
      /\ loop[l] \in LoopState
  BY DEF TypeOK
<1>1. CASE Update(l)
  <2>1. CASE loaded /\ Observe(l, peak, persisted)
    <3>1. UNCHANGED <<open, stored, confirmed>>
      BY <1>1 DEF Update
    <3>2. open /\ ~exposed => peak >= stored[Home]
      BY <2>1 DEF Covered, MemoryCovers
    <3>3. peak >= peak
      BY <1>0, PeaksAssumption DEF Profits
    <3>4. QED
      BY <1>0, <2>1, <3>1, <3>2, <3>3, ObservingKeepsCovered
  <2>2. CASE Go(l, "fetching") /\ UNCHANGED <<memory, exposed>>
    <3>1. /\ loop'[l].at = "fetching"
          /\ \A k \in Loops \ {l} : loop'[k] = loop[k]
      BY <2>2 DEF Go, TypeOK, LoopState
    <3>2. QED
      BY <1>1, <2>2, <3>1, BystanderKeepsCovered DEF Update, ghosts
  <2>3. QED
    BY <1>1, <2>1, <2>2 DEF Update
<1>2. CASE Merge(l)
  <2> DEFINE known == IF loop[l].got = NoRecord THEN persisted ELSE loop[l].got
  <2>1. /\ known \in MaybeProfit
        /\ Merged(l) \in Profits
        /\ loop[l].got <= Merged(l)
        /\ peak <= Merged(l)
    BY <1>0, GreaterTyped DEF LoopState, Merged
  <2>2. loop[l].at = "fetched" /\ Observe(l, Merged(l), known)
    BY <1>2 DEF Merge
  <2>3. UNCHANGED <<open, stored, confirmed>>
    BY <1>2 DEF Merge
  <2>4. /\ peak \in Int
        /\ loop[l].got \in Int
        /\ Merged(l) \in Int
        /\ stored[Home] \in Int
    BY <1>0, <2>1, PeaksAssumption DEF TypeOK, LoopState, Profits, MaybeProfit, NoRecord
  <2>5. ASSUME open, ~exposed, loop[l].acct = Home
        PROVE  Merged(l) >= stored[Home] /\ (loaded => Merged(l) >= peak)
    <3>1. loaded => peak >= stored[Home]
      BY <2>5 DEF Covered, MemoryCovers
    <3>2. ~loaded => loop[l].got = stored[Home]
      BY <2>2, <2>5 DEF Covered, FetchCurrent
    <3>3. QED
      BY <2>1, <2>4, <3>1, <3>2
  <2> HIDE DEF known
  <2>6. QED
    BY <2>1, <2>2, <2>3, <2>5, ObservingKeepsCovered
<1>3. QED
  BY <1>1, <1>2, FetchingKeepsCovered, WritingKeepsCovered, ConfirmingKeepsCovered
  DEF UpdateStep

(* A loop that moves outside an update does not matter to it.              *)
LEMMA MovingOn ==
    ASSUME TypeOK, NEW l \in Loops,
           \/ Rest(l)
           \/ \E place \in Places \ {"fetched", "writing", "written"} :
                 \/ Go(l, place)
                 \/ \E o \in Profits : loop' = [loop EXCEPT ![l].at = place, ![l].obs = o]
                 \/ \E a \in Accounts : loop' = [loop EXCEPT ![l].at = place, ![l].acct = a]
                 \/ \E a \in Accounts :
                       loop' = [loop EXCEPT ![l].at = place, ![l].acct = a,
                                            ![l].refreshed = TRUE]
    PROVE  /\ \A k \in Loops \ {l} : loop'[k] = loop[k]
           /\ loop'[l].at \notin {"fetched", "writing", "written"}
<1>1. CASE Rest(l)
  BY <1>1 DEF Rest, IdleLoop, TypeOK
<1>2. CASE ~Rest(l)
  <2>1. PICK place \in Places \ {"fetched", "writing", "written"} :
           \/ Go(l, place)
           \/ \E o \in Profits : loop' = [loop EXCEPT ![l].at = place, ![l].obs = o]
           \/ \E a \in Accounts : loop' = [loop EXCEPT ![l].at = place, ![l].acct = a]
           \/ \E a \in Accounts :
                 loop' = [loop EXCEPT ![l].at = place, ![l].acct = a,
                                      ![l].refreshed = TRUE]
    BY <1>2
  <2>2. loop'[l].at = place /\ \A k \in Loops \ {l} : loop'[k] = loop[k]
    <3>1. loop[l] \in LoopState /\ loop \in [Loops -> LoopState]
      BY DEF TypeOK
    <3>2. CASE Go(l, place)
      <4>1. loop' = [loop EXCEPT ![l].at = place]
        BY <3>2 DEF Go
      <4>2. QED
        BY <3>1, <4>1 DEF LoopState
    <3>3. CASE \E o \in Profits : loop' = [loop EXCEPT ![l].at = place, ![l].obs = o]
      <4>1. PICK o \in Profits : loop' = [loop EXCEPT ![l].at = place, ![l].obs = o]
        BY <3>3
      <4>2. QED
        BY <3>1, <4>1 DEF LoopState
    <3>4. CASE \E a \in Accounts : loop' = [loop EXCEPT ![l].at = place, ![l].acct = a]
      <4>1. PICK a \in Accounts : loop' = [loop EXCEPT ![l].at = place, ![l].acct = a]
        BY <3>4
      <4>2. QED
        BY <3>1, <4>1 DEF LoopState
    <3>5. CASE \E a \in Accounts :
                 loop' = [loop EXCEPT ![l].at = place, ![l].acct = a,
                                      ![l].refreshed = TRUE]
      <4>1. PICK a \in Accounts : loop' = [loop EXCEPT ![l].at = place, ![l].acct = a,
                                                           ![l].refreshed = TRUE]
        BY <3>5
      <4>2. QED
        BY <3>1, <4>1 DEF LoopState
    <3>6. QED
      BY <2>1, <3>2, <3>3, <3>4, <3>5
  <2>3. place \notin {"fetched", "writing", "written"}
    BY <2>1
  <2>4. QED
    BY <2>2, <2>3
<1>3. QED
  BY <1>1, <1>2

LEMMA MainKeepsCovered == ASSUME TypeOK, Covered, MainStep PROVE Covered'
<1>0. "main" \in Loops /\ terminal \in Accounts
  BY DEF MainStep, TypeOK
<1>1. CASE MainAccount
  <2>1. /\ \A k \in Loops \ {"main"} : loop'[k] = loop[k]
        /\ loop'["main"].at \notin {"fetched", "writing", "written"}
    <3>1. \E place \in {"listing", "adopting"} :
             loop' = [loop EXCEPT !["main"].at = place, !["main"].acct = terminal]
      BY <1>1 DEF MainAccount
    <3>2. {"listing", "adopting"} \subseteq Places \ {"fetched", "writing", "written"}
      BY DEF Places
    <3>3. QED
      BY <1>0, <3>1, <3>2, MovingOn
  <2>2. UNCHANGED <<open, stored, confirmed>>
    BY <1>1 DEF MainAccount
  <2>3. ForgetBy("main") \/ UNCHANGED <<memory, exposed>>
    BY <1>1 DEF MainAccount
  <2>4. QED
    BY <1>0, <2>1, <2>2, <2>3, BystanderKeepsCovered, ForgettingKeepsCovered DEF ghosts
<1>2. CASE MainAdopt \/ MainList \/ MainKnown
  <2>1. /\ \A k \in Loops \ {"main"} : loop'[k] = loop[k]
        /\ loop'["main"].at \notin {"fetched", "writing", "written"}
    <3>1. {"listing", "observed", "missing"} \subseteq
              Places \ {"fetched", "writing", "written"}
      BY DEF Places
    <3>2. CASE MainAdopt
      BY <1>0, <3>1, <3>2, MovingOn DEF MainAdopt
    <3>3. CASE MainList
      BY <1>0, <3>1, <3>3, MovingOn DEF MainList
    <3>4. CASE MainKnown
      BY <1>0, <3>4, MovingOn DEF MainKnown
    <3>5. QED
      BY <1>2, <3>2, <3>3, <3>4
  <2>2. UNCHANGED <<open, stored, memory, ghosts>>
    BY <1>2 DEF MainAdopt, MainList, MainKnown
  <2>3. QED
    BY <1>0, <2>1, <2>2, BystanderKeepsCovered
<1>3. CASE MainClosure
  <2>1. /\ \A k \in Loops \ {"main"} : loop'[k] = loop[k]
        /\ loop'["main"].at \notin {"fetched", "writing", "written"}
    BY <1>0, <1>3, MovingOn DEF MainClosure
  <2>2. UNCHANGED <<open, stored, confirmed>>
    BY <1>3 DEF MainClosure
  <2>3. QED
    BY <1>0, <1>3, <2>1, <2>2, BystanderKeepsCovered, ForgettingKeepsCovered
    DEF MainClosure, ghosts
<1>4. CASE UpdateStep("main")
  BY <1>0, <1>4, UpdatingKeepsCovered
<1>5. QED
  BY <1>1, <1>2, <1>3, <1>4 DEF MainStep

LEMMA ProtectionKeepsCovered == ASSUME TypeOK, Covered, ProtectionStep PROVE Covered'
<1>0. "protection" \in Loops /\ active \in Accounts
  BY DEF ProtectionStep, TypeOK
<1> DEFINE Outside == Places \ {"fetched", "writing", "written"}
<1>1. {"listing", "observed", "rereading", "rebinding"} \subseteq Outside
  BY DEF Places
<1>2. CASE ProtectBegin \/ ProtectList \/ ProtectVerify \/ ProtectRebind
  <2>1. /\ \A k \in Loops \ {"protection"} : loop'[k] = loop[k]
        /\ loop'["protection"].at \notin {"fetched", "writing", "written"}
    <3>1. CASE ProtectBegin
      BY <1>0, <1>1, <3>1, MovingOn DEF ProtectBegin
    <3>2. CASE ProtectList
      BY <1>0, <1>1, <3>2, MovingOn DEF ProtectList
    <3>3. CASE ProtectVerify
      BY <1>0, <1>1, <3>3, MovingOn DEF ProtectVerify
    <3>4. CASE ProtectRebind
      BY <1>0, <1>1, <3>4, MovingOn DEF ProtectRebind
    <3>5. QED
      BY <1>2, <3>1, <3>2, <3>3, <3>4
  <2>2. UNCHANGED <<open, stored, memory, ghosts>>
    BY <1>2 DEF ProtectBegin, ProtectList, ProtectVerify, ProtectRebind
  <2>3. QED
    BY <1>0, <2>1, <2>2, BystanderKeepsCovered
<1>3. CASE ProtectReread \/ ProtectAct
  <2>1. /\ \A k \in Loops \ {"protection"} : loop'[k] = loop[k]
        /\ loop'["protection"].at \notin {"fetched", "writing", "written"}
    BY <1>0, <1>1, <1>3, MovingOn DEF ProtectReread, ProtectAct
  <2>2. UNCHANGED <<stored, confirmed>> /\ (open' => open)
    BY <1>3 DEF ProtectReread, ProtectAct
  <2>3. \/ ForgetBy("protection")
        \/ UNCHANGED <<memory, exposed>>
    BY <1>3 DEF ProtectReread, ProtectAct
  <2>4. QED
    BY <1>0, <2>1, <2>2, <2>3, BystanderKeepsCovered, ForgettingKeepsCovered DEF ghosts
<1>4. CASE UpdateStep("protection")
  BY <1>0, <1>4, UpdatingKeepsCovered
<1>5. QED
  BY <1>2, <1>3, <1>4 DEF ProtectionStep

(* A restart leaves the record, and nothing to contradict it.              *)
LEMMA WorldKeepsCovered == ASSUME TypeOK, Covered, World PROVE Covered'
<1>1. CASE Close
  BY <1>1 DEF Close, Covered
<1>2. CASE Restart
  BY <1>2 DEF Restart, Forget, IdleLoop, Covered, MemoryCovers, RecordCovers, FetchCurrent,
              OneWriter, WriterAdvances, WrittenStays, ghosts
<1>3. ASSUME NEW a \in Accounts, SwitchAccount(a) PROVE Covered'
  BY <1>3 DEF SwitchAccount, Covered, MemoryCovers, RecordCovers, FetchCurrent, OneWriter,
              WriterAdvances, WrittenStays, memory, ghosts
<1>4. QED
  BY <1>1, <1>2, <1>3 DEF World

(* A peak that was confirmed in the database is never undercut while its   *)
(* position is open and none of the named windows was hit, whatever        *)
(* restarts, switches and failed writes come in between.                   *)
THEOREM StoredPeakOutlivesRestart == Spec => []PeakOutlivesRestart
<1>1. Init => IInv
  <2>1. Init => TypeOK
    BY IdleLoopTyped, BoundsTyped, PeaksAssumption DEF Init, TypeOK
  <2>2. Init => Covered
    BY PeaksAssumption
    DEF Init, IdleLoop, Covered, MemoryCovers, RecordCovers, FetchCurrent, OneWriter,
        WriterAdvances, WrittenStays, NoRecord
  <2>3. QED
    BY <2>1, <2>2 DEF IInv
<1>2. IInv /\ [Next]_vars => IInv'
  <2>1. IInv /\ Next => IInv'
    BY MainTyped, ProtectionTyped, WorldTyped, MainKeepsCovered, ProtectionKeepsCovered,
       WorldKeepsCovered
    DEF Next, IInv
  <2>2. IInv /\ UNCHANGED vars => TypeOK'
    BY DEF vars, memory, ghosts, TypeOK, IInv
  <2>3. IInv /\ UNCHANGED vars => Covered'
    BY DEF vars, memory, ghosts, IInv, Covered, MemoryCovers, RecordCovers, FetchCurrent,
           OneWriter, WriterAdvances, WrittenStays
  <2>4. QED
    BY <2>1, <2>2, <2>3 DEF IInv
<1>3. IInv => PeakOutlivesRestart
  <2> SUFFICES ASSUME TypeOK, Covered, open, loaded, ~exposed PROVE peak >= confirmed
    BY DEF IInv, PeakOutlivesRestart
  <2>1. peak >= stored[Home] /\ stored[Home] >= confirmed
    BY DEF Covered, MemoryCovers, RecordCovers
  <2>2. peak \in Int /\ stored[Home] \in Int /\ confirmed \in Int
    BY PeaksAssumption DEF TypeOK, Profits, MaybeProfit, NoRecord
  <2>3. QED
    BY <2>1, <2>2
<1>4. QED
  BY <1>1, <1>2, <1>3, PTL DEF Spec

-----------------------------------------------------------------------------
(* A peak is only ever raised from what memory holds, or forgotten.         *)
LEMMA ObservingRaises ==
    ASSUME TypeOK, NEW l \in Loops, UpdateStep(l)
    PROVE  peak' >= peak
<1>0. /\ loop[l] \in LoopState /\ peak \in Profits /\ persisted \in MaybeProfit
      /\ peak \in Int
  BY DEF TypeOK, Profits
<1>1. CASE Update(l)
  <2>1. CASE loaded /\ Observe(l, peak, persisted)
    <3>1. peak' \in Profits /\ peak <= peak'
      BY <1>0, <2>1, ObserveTyped
    <3>2. QED
      BY <1>0, <3>1 DEF Profits
  <2>2. CASE UNCHANGED <<memory, exposed>>
    BY <1>0, <2>2 DEF memory
  <2>3. QED
    BY <1>1, <2>1, <2>2 DEF Update
<1>2. CASE Merge(l)
  <2> DEFINE known == IF loop[l].got = NoRecord THEN persisted ELSE loop[l].got
  <2>1. loop[l].got \in MaybeProfit /\ known \in MaybeProfit
    BY <1>0 DEF LoopState
  <2>2. Observe(l, Merged(l), known)
    BY <1>2 DEF Merge
  <2> HIDE DEF known
  <2>3. Merged(l) \in Profits /\ peak <= Merged(l)
    BY <1>0, <2>1, GreaterTyped DEF Merged
  <2>4. peak' \in Profits /\ Merged(l) <= peak'
    BY <2>1, <2>2, <2>3, ObserveTyped
  <2>5. QED
    BY <1>0, <2>3, <2>4 DEF Profits
<1>3. CASE Fetch(l) \/ Write(l) \/ Written(l)
  BY <1>0, <1>3 DEF Fetch, Write, Written, memory
<1>4. QED
  BY <1>1, <1>2, <1>3 DEF UpdateStep

(* Once a position's peak has been loaded, it never falls until its state   *)
(* is forgotten: neither loop can lower what the other has observed, with   *)
(* whatever record, however old, its read comes back                       *)
(* (_restore_and_update_position_peak).                                    *)
THEOREM LoadedPeakNeverFalls == Spec => PeakNeverFalls
<1> DEFINE Keeps == loaded /\ loaded' => peak' >= peak
<1>1. TypeOK /\ [Next]_vars => Keeps
  <2> SUFFICES ASSUME TypeOK, [Next]_vars PROVE Keeps
    OBVIOUS
  <2>0. peak \in Int
    BY DEF TypeOK, Profits
  <2>1. CASE peak' = peak \/ loaded' = FALSE
    BY <2>0, <2>1
  <2>2. ASSUME NEW l \in Loops, UpdateStep(l) PROVE Keeps
    BY <2>2, ObservingRaises
  <2>3. CASE MainStep
    BY <2>1, <2>2, <2>3
       DEF MainStep, MainAccount, MainAdopt, MainList, MainKnown, MainClosure, ForgetBy, Forget,
           memory
  <2>4. CASE ProtectionStep
    BY <2>1, <2>2, <2>4
       DEF ProtectionStep, ProtectBegin, ProtectList, ProtectVerify, ProtectReread,
           ProtectRebind, ProtectAct, ForgetBy, Forget, memory
  <2>5. CASE World \/ UNCHANGED vars
    BY <2>1, <2>5 DEF World, Close, Restart, SwitchAccount, Forget, memory, vars
  <2>6. QED
    BY <2>3, <2>4, <2>5 DEF Next
<1>2. Spec => []TypeOK
  BY PeaksTypeCorrect
<1>3. QED
  BY <1>1, <1>2, PTL DEF Spec, PeakNeverFalls
=============================================================================
