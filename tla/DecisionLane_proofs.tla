------------------------ MODULE DecisionLane_proofs ------------------------
(***************************************************************************)
(* What is proved of the decision lane for any symbols, accounts, limits,  *)
(* number of candles, outages and operator commands.                       *)
(***************************************************************************)
EXTENDS DecisionLane, FiniteSetTheorems, TLAPS

(* A task has a candle and an account and needs a running engine; so has    *)
(* the candidate that is being forced open.                                *)
Sound ==
    /\ loop.at = "switching" => loop.acct \in Accounts
    /\ \A s \in Symbols :
        /\ task[s].at # "idle" => task[s].bar \in Bars /\ task[s].acct \in Accounts /\ Running
        /\ desk[s].at # "idle" => desk[s].cand \in Candidate
        /\ task[s].bar <= bar

TypeInv == TypeOK /\ Sound

-----------------------------------------------------------------------------
(* What the shared pieces do to the variables they write.                  *)
LEMMA RecordsTyped ==
    /\ Bars \subseteq Nat /\ 0 \notin Bars /\ 1 \in Bars
    /\ NoTask \in TaskState /\ NoTask.at = "idle" /\ NoTask.bar = 0
    /\ NoTask.stray = FALSE /\ NoTask.crossed = FALSE
    /\ IdleProber \in ProberState /\ NoOverride \in OverrideState /\ NoOverride.at = "idle"
    /\ NoneAsked \in [Symbols -> [Bars -> {"no", "once", "again"}]]
    /\ NoCandidates \in [Symbols -> Candidate \cup {NoCandidate}]
    /\ NoCandidate \notin Candidate
BY LaneAssumption
   DEF Bars, NoTask, TaskState, Places, MaybeAccount, IdleProber, ProberState, NoOverride,
       OverrideState, NoneAsked, NoCandidates, NoCandidate, Candidate

LEMMA EndTask ==
    ASSUME TypeOK, NEW s \in Symbols, End(s)
    PROVE  /\ task' \in [Symbols -> TaskState]
           /\ task'[s] = NoTask
           /\ \A u \in Symbols : u # s => task'[u] = task[u]
BY RecordsTyped DEF TypeOK, End

LEMMA GoTask ==
    ASSUME TypeOK, NEW s \in Symbols, NEW place \in Places, Go(s, place)
    PROVE  /\ task' \in [Symbols -> TaskState]
           /\ task'[s].at = place /\ task'[s].bar = task[s].bar /\ task'[s].acct = task[s].acct
           /\ task'[s].seen = task[s].seen /\ task'[s].stray = task[s].stray
           /\ task'[s].crossed = task[s].crossed
           /\ \A u \in Symbols : u # s => task'[u] = task[u]
<1>1. task \in [Symbols -> TaskState] /\ task[s] \in TaskState
  BY DEF TypeOK
<1> DEFINE t == [task[s] EXCEPT !.at = place]
<1>2. task' = [task EXCEPT ![s] = t]
  BY DEF Go
<1>3. /\ t \in TaskState
      /\ t.at = place /\ t.bar = task[s].bar /\ t.acct = task[s].acct /\ t.seen = task[s].seen
      /\ t.stray = task[s].stray /\ t.crossed = task[s].crossed
  BY <1>1 DEF TaskState
<1> HIDE DEF t
<1>4. QED
  BY <1>1, <1>2, <1>3

LEMMA ConsumeTyped ==
    ASSUME TypeOK, NEW s \in Symbols, NEW b \in Bars, Consume(s, b)
    PROVE  /\ lastBar' \in [Symbols -> 0..MaxBar]
           /\ lastBar'[s] = b
           /\ \A u \in Symbols : u # s => lastBar'[u] = lastBar[u]
BY LaneAssumption DEF TypeOK, Consume, Bars

LEMMA CandTyped ==
    ASSUME TypeOK, NEW s \in Symbols
    PROVE  /\ Clear(s) \/ MayClear(s) => cand' \in [Symbols -> Candidate \cup {NoCandidate}]
           /\ task[s].acct \in Accounts /\ task[s].bar \in Bars /\ MayOffer(s)
                => cand' \in [Symbols -> Candidate \cup {NoCandidate}]
<1>1. cand \in [Symbols -> Candidate \cup {NoCandidate}]
  BY DEF TypeOK
<1> DEFINE c == [acct |-> task[s].acct, bar |-> task[s].bar,
                 other |-> desk[s].at # "idle" \/ held[task[s].acct][s] > 0]
<1>2. task[s].acct \in Accounts /\ task[s].bar \in Bars => c \in Candidate
  BY DEF Candidate
<1>3. Offer(s) => cand' = [cand EXCEPT ![s] = c]
  BY DEF Offer
<1> HIDE DEF c
<1>4. QED
  BY <1>1, <1>2, <1>3 DEF Clear, MayClear, MayOffer

LEMMA OpenTyped ==
    ASSUME TypeOK, NEW s \in Symbols, NEW read, Open(s, read)
    PROVE  /\ held' \in [Accounts -> [Symbols -> Nat]]
           /\ held'[terminal][s] = held[terminal][s] + 1
           /\ \A a \in Accounts, u \in Symbols :
                 a # terminal \/ u # s => held'[a][u] = held[a][u]
           /\ blind' \subseteq Accounts \X Symbols /\ blind \subseteq blind'
           /\ read # terminal => <<terminal, s>> \in blind'
<1>1. /\ held \in [Accounts -> [Symbols -> Nat]] /\ terminal \in Accounts
      /\ blind \subseteq Accounts \X Symbols
  BY DEF TypeOK
<1> DEFINE h == [held[terminal] EXCEPT ![s] = @ + 1]
<1>2. held' = [held EXCEPT ![terminal] = h]
  BY DEF Open
<1>3. /\ h \in [Symbols -> Nat] /\ h[s] = held[terminal][s] + 1
      /\ \A u \in Symbols : u # s => h[u] = held[terminal][u]
  BY <1>1
<1> HIDE DEF h
<1>4. blind' = IF read = terminal THEN blind ELSE blind \cup {<<terminal, s>>}
  BY DEF Open
<1>5. QED
  BY <1>1, <1>2, <1>3, <1>4

LEMMA ReleaseTyped ==
    ASSUME TypeOK, Release
    PROVE  /\ lastBar' \in [Symbols -> 0..MaxBar] /\ deferred' \subseteq Symbols
           /\ asked' \in [Symbols -> [Bars -> {"no", "once", "again"}]]
           /\ \A s \in Symbols : \A b \in Bars :
                 /\ asked'[s][b] = "no" <=> asked[s][b] = "no"
                 /\ asked'[s][b] = "once" =>
                       asked[s][b] = "once" /\ s \notin deferred /\ lastBar'[s] = lastBar[s]
BY LaneAssumption DEF TypeOK, Release

LEMMA ResultTyped ==
    ASSUME TypeOK, NEW success \in BOOLEAN, RecordResult(success)
    PROVE  ready' \in BOOLEAN /\ failures' \in 0..Threshold /\ armed' \in {armed, NoAccount}
<1>1. ready \in BOOLEAN /\ failures \in 0..Threshold /\ Threshold \in Nat \ {0}
  BY LaneAssumption DEF TypeOK
<1>2. CASE success
  BY <1>1, <1>2 DEF RecordResult
<1>3. CASE ~success
  <2>1. CASE failures + 1 < Threshold
    BY <1>1, <1>3, <2>1 DEF RecordResult
  <2>2. CASE ~(failures + 1 < Threshold)
    <3>1. failures' = Threshold /\ ready' = FALSE /\ armed' = NoAccount
      BY <1>3, <2>2, Zenon DEF RecordResult, Disarm
    <3>2. failures' \in 0..Threshold
      BY <1>1, <3>1
    <3>3. ready' \in BOOLEAN
      BY <3>1
    <3>4. QED
      BY <3>1, <3>2, <3>3
  <2>3. QED
    BY <2>1, <2>2
<1>4. QED
  BY <1>2, <1>3

LEMMA Crossing ==
    ASSUME TypeOK, NEW a, OperatorArms(a)
    PROVE  /\ task' \in [Symbols -> TaskState]
           /\ \A s \in Symbols :
                 /\ task'[s].at = task[s].at /\ task'[s].bar = task[s].bar
                 /\ task'[s].acct = task[s].acct /\ task'[s].seen = task[s].seen
                 /\ task'[s].stray = task[s].stray
                 /\ task'[s].at # "idle" /\ ~task'[s].crossed =>
                       ~task[s].crossed /\ task[s].acct = a
<1> DEFINE f(t) == IF t.at # "idle" /\ t.acct # a THEN [t EXCEPT !.crossed = TRUE] ELSE t
<1>1. task \in [Symbols -> TaskState] /\ task' = [s \in Symbols |-> f(task[s])]
  BY DEF TypeOK, OperatorArms
<1>2. ASSUME NEW t \in TaskState
      PROVE  /\ f(t) \in TaskState
             /\ f(t).at = t.at /\ f(t).bar = t.bar /\ f(t).acct = t.acct /\ f(t).seen = t.seen
             /\ f(t).stray = t.stray
             /\ f(t).at # "idle" /\ ~f(t).crossed => ~t.crossed /\ t.acct = a
  BY <1>2 DEF TaskState
<1> HIDE DEF f
<1>3. QED
  BY <1>1, <1>2

-----------------------------------------------------------------------------
(* The steps of a review, by what they do to the task and to its candle.   *)
Used == UNCHANGED <<admitted, asked>>

(* The review ends with its candle used up...                              *)
Exhausts(s) ==
    /\ task[s].at \in {"confirm", "queued", "asking", "answered"}
    /\ End(s) /\ Consume(s, task[s].bar)
    /\ UNCHANGED <<deferred, cand, held, blind>> /\ Used

(* ...or without a word on the candle...                                   *)
Leaves(s) ==
    /\ task[s].at \in {"confirm", "plan", "lock", "account", "positions", "gates"}
    /\ End(s) /\ UNCHANGED <<lastBar, held, blind>> /\ Used
    /\ deferred' \in {deferred, deferred \cup {s}}
    /\ MayOffer(s)

(* ...or with the order...                                                 *)
Sends(s) ==
    /\ task[s].at = "send"
    /\ End(s) /\ UNCHANGED <<lastBar, deferred>> /\ Used
    /\ \/ UNCHANGED <<held, blind>>
       \/ AccountMatches(armed) /\ Open(s, task[s].seen)
    /\ MayClear(s)

(* ...or goes on, under the execution lock once it has it.                  *)
Path == {<<"confirm", "answered">>, <<"plan", "lock">>, <<"lock", "account">>,
         <<"account", "positions">>, <<"gates", "send">>}
Advances(s) ==
    /\ UNCHANGED <<lastBar, deferred, held, cand, blind>> /\ Used
    /\ \/ /\ \E place \in Places : <<task[s].at, place>> \in Path /\ Go(s, place)
          /\ task[s].at = "lock" => ExecutionLockFree
       \/ /\ task[s].at = "positions" /\ held[terminal][s] = 0
          /\ task' = [task EXCEPT ![s].at = "gates", ![s].seen = terminal]

Frame == UNCHANGED <<candle, terminal, engine, auto, up, prober, desk, events>>

LEMMA TaskKinds ==
    ASSUME TypeOK, NEW s \in Symbols, TaskStep(s)
    PROVE  /\ Frame
           /\ ready' \in BOOLEAN /\ failures' \in 0..Threshold /\ armed' \in {armed, NoAccount}
           /\ \/ Exhausts(s) \/ Leaves(s) \/ Sends(s) \/ Advances(s)
              \/ Admit(s) \/ Ask(s) \/ Answer(s) \/ Valid(s)
<1>0. ready \in BOOLEAN /\ failures \in 0..Threshold
  BY DEF TypeOK
<1> DEFINE Answers == ready' \in BOOLEAN /\ failures' \in 0..Threshold /\ armed' \in {armed, NoAccount}
<1>1. Frame
  BY DEF TaskStep, Frame, Quiet
<1>2. CASE CapitalFiltered(s) \/ SetupFiltered(s) \/ Expire(s) \/ Invalid(s)
  BY <1>0, <1>1, <1>2
     DEF CapitalFiltered, SetupFiltered, Expire, Invalid, Discard, Exhausts, Used, ghosts
<1>3. CASE Unconfirmed(s) \/ Unpriced(s) \/ Expired(s) \/ Declined(s) \/ RiskRefuses(s) \/ Defer(s)
  BY <1>0, <1>1, <1>3
     DEF Unconfirmed, Unpriced, Expired, Declined, RiskRefuses, Defer, Leaves, MayOffer, Used,
         ghosts
<1>4. CASE FastPath(s)
  <2>1. <<task[s].at, "answered">> \in Path /\ "answered" \in Places /\ Go(s, "answered")
        /\ task[s].at # "lock"
    BY <1>4 DEF FastPath, Path, Places
  <2>2. QED
    BY <1>0, <1>1, <1>4, <2>1 DEF FastPath, Advances, Used, ghosts
<1>5. CASE Proceed(s)
  <2>1. <<task[s].at, "lock">> \in Path /\ "lock" \in Places /\ Go(s, "lock") /\ task[s].at # "lock"
    BY <1>5 DEF Proceed, Path, Places
  <2>2. QED
    BY <1>0, <1>1, <1>5, <2>1 DEF Proceed, Advances, Used, ghosts
<1>6. CASE Approve(s)
  <2>1. <<task[s].at, "send">> \in Path /\ "send" \in Places /\ Go(s, "send") /\ task[s].at # "lock"
    BY <1>6 DEF Approve, Path, Places
  <2>2. QED
    BY <1>0, <1>1, <1>6, <2>1 DEF Approve, Advances, Used, ghosts
<1>7. CASE Acquire(s)
  <2>1. CASE End(s) /\ StayOrDisarm
    BY <1>0, <1>1, <1>7, <2>1 DEF Acquire, StayOrDisarm, Disarm, Leaves, MayOffer, Used, ghosts
  <2>2. CASE Go(s, "account") /\ UNCHANGED armed
    <3>1. <<task[s].at, "account">> \in Path /\ "account" \in Places /\ ExecutionLockFree
      BY <1>7 DEF Acquire, Path, Places
    <3>2. QED
      BY <1>0, <1>1, <1>7, <2>2, <3>1 DEF Acquire, Advances, Used, ghosts
  <2>3. QED
    BY <1>7, <2>1, <2>2 DEF Acquire
<1>8. CASE CheckAccount(s)
  <2>1. CASE End(s) /\ Disarm
    BY <1>0, <1>1, <1>8, <2>1 DEF CheckAccount, Disarm, Leaves, MayOffer, Used, ghosts
  <2>2. CASE Go(s, "positions") /\ UNCHANGED armed
    <3>1. <<task[s].at, "positions">> \in Path /\ "positions" \in Places /\ task[s].at # "lock"
      BY <1>8 DEF CheckAccount, Path, Places
    <3>2. QED
      BY <1>0, <1>1, <1>8, <2>2, <3>1 DEF CheckAccount, Advances, Used, ghosts
  <2>3. QED
    BY <1>8, <2>1, <2>2 DEF CheckAccount
<1>9. CASE CheckPositions(s)
  <2>1. CASE End(s) /\ armed' \in {armed, NoAccount}
    BY <1>0, <1>1, <1>9, <2>1 DEF CheckPositions, Leaves, MayOffer, Used, ghosts
  <2>2. CASE /\ held[terminal][s] = 0 /\ UNCHANGED armed
             /\ task' = [task EXCEPT ![s].at = "gates", ![s].seen = terminal]
    BY <1>0, <1>1, <1>9, <2>2 DEF CheckPositions, Advances, Used, ghosts
  <2>3. QED
    BY <1>9, <2>1, <2>2 DEF CheckPositions, Disarm
<1>10. CASE Send(s)
  BY <1>0, <1>1, <1>10
     DEF Send, Sends, StoreRisk, StayOrDisarm, Disarm, MayClear, Used
<1>11. CASE Admit(s) \/ Ask(s) \/ Valid(s)
  BY <1>0, <1>1, <1>11 DEF Admit, Ask, Valid
<1>12. CASE Answer(s)
  <2>1. RecordResult(TRUE) \/ RecordResult(FALSE)
    BY <1>12 DEF Answer
  <2>2. QED
    BY <1>1, <1>12, <2>1, ResultTyped
<1>13. QED
  BY <1>2, <1>3, <1>4, <1>5, <1>6, <1>7, <1>8, <1>9, <1>10, <1>11, <1>12 DEF TaskStep

(* The variables of the reviews stay what they are, and a task keeps its    *)
(* candle and its account to the end.                                      *)
TaskKept(s) ==
    /\ task' \in [Symbols -> TaskState]
    /\ \A u \in Symbols : u # s => task'[u] = task[u]
    /\ \/ task'[s] = NoTask
       \/ /\ task'[s].at # "idle" /\ task'[s].bar = task[s].bar /\ task'[s].acct = task[s].acct
          /\ task'[s].stray = task[s].stray /\ task'[s].crossed = task[s].crossed

LEMMA TaskTyped ==
    ASSUME TypeInv, NEW s \in Symbols, TaskStep(s)
    PROVE  /\ task[s].at # "idle" /\ TaskKept(s)
           /\ lastBar' \in [Symbols -> 0..MaxBar] /\ admitted' \in [Bars -> SUBSET Symbols]
           /\ deferred' \subseteq Symbols
           /\ cand' \in [Symbols -> Candidate \cup {NoCandidate}]
           /\ held' \in [Accounts -> [Symbols -> Nat]]
           /\ asked' \in [Symbols -> [Bars -> {"no", "once", "again"}]]
           /\ blind' \subseteq Accounts \X Symbols
<1>0. /\ TypeOK /\ task \in [Symbols -> TaskState] /\ lastBar \in [Symbols -> 0..MaxBar]
      /\ admitted \in [Bars -> SUBSET Symbols] /\ deferred \subseteq Symbols
      /\ cand \in [Symbols -> Candidate \cup {NoCandidate}]
      /\ held \in [Accounts -> [Symbols -> Nat]] /\ terminal \in Accounts
      /\ asked \in [Symbols -> [Bars -> {"no", "once", "again"}]]
      /\ blind \subseteq Accounts \X Symbols
  BY DEF TypeInv, TypeOK
<1>1. task[s].at # "idle" => task[s].bar \in Bars /\ task[s].acct \in Accounts
  BY DEF TypeInv, Sound
<1>a. End(s) => TaskKept(s)
  BY <1>0, EndTask DEF TaskKept
<1>b. ASSUME NEW place \in Places \ {"idle"}, Go(s, place) PROVE TaskKept(s)
  BY <1>0, <1>b, GoTask DEF TaskKept
<1>c. {"answered", "lock", "account", "positions", "send", "queued", "asking", "plan"}
         \subseteq Places \ {"idle"}
  BY DEF Places
<1> DEFINE Rest == /\ lastBar' \in [Symbols -> 0..MaxBar] /\ admitted' \in [Bars -> SUBSET Symbols]
                   /\ deferred' \subseteq Symbols
                   /\ cand' \in [Symbols -> Candidate \cup {NoCandidate}]
                   /\ held' \in [Accounts -> [Symbols -> Nat]]
                   /\ asked' \in [Symbols -> [Bars -> {"no", "once", "again"}]]
                   /\ blind' \subseteq Accounts \X Symbols
           Claim == task[s].at # "idle" /\ TaskKept(s) /\ Rest
<1>2. CASE Exhausts(s)
  <2>1. task[s].at # "idle" /\ TaskKept(s)
    BY <1>a, <1>2 DEF Exhausts
  <2>2. lastBar' \in [Symbols -> 0..MaxBar]
    BY <1>0, <1>1, <1>2, <2>1, ConsumeTyped DEF Exhausts
  <2>3. QED
    BY <1>0, <1>2, <2>1, <2>2 DEF Exhausts, Used
<1>3. CASE Leaves(s)
  <2>1. task[s].at # "idle" /\ TaskKept(s)
    BY <1>a, <1>3 DEF Leaves
  <2>2. cand' \in [Symbols -> Candidate \cup {NoCandidate}]
    BY <1>0, <1>1, <1>3, <2>1, CandTyped DEF Leaves
  <2>3. QED
    BY <1>0, <1>3, <2>1, <2>2 DEF Leaves, Used
<1>4. CASE Sends(s)
  <2>1. task[s].at # "idle" /\ TaskKept(s)
    BY <1>a, <1>4 DEF Sends
  <2>2. cand' \in [Symbols -> Candidate \cup {NoCandidate}]
    BY <1>0, <1>4, CandTyped DEF Sends
  <2>3. held' \in [Accounts -> [Symbols -> Nat]] /\ blind' \subseteq Accounts \X Symbols
    BY <1>0, <1>4, OpenTyped DEF Sends
  <2>4. QED
    BY <1>0, <1>4, <2>1, <2>2, <2>3 DEF Sends, Used
<1>5. CASE Advances(s)
  <2>1. CASE \E place \in Places : <<task[s].at, place>> \in Path /\ Go(s, place)
    <3>1. PICK place \in Places : <<task[s].at, place>> \in Path /\ Go(s, place)
      BY <2>1
    <3>2. task[s].at # "idle" /\ place # "idle"
      BY <3>1 DEF Path
    <3>3. TaskKept(s)
      BY <1>b, <3>1, <3>2
    <3>4. QED
      BY <1>0, <1>5, <3>2, <3>3 DEF Advances, Used
  <2>2. CASE /\ task[s].at = "positions"
             /\ task' = [task EXCEPT ![s].at = "gates", ![s].seen = terminal]
    <3> DEFINE t == [task[s] EXCEPT !.at = "gates", !.seen = terminal]
    <3>1. task' = [task EXCEPT ![s] = t]
      BY <1>0, <2>2
    <3>2. t \in TaskState /\ t.at = "gates" /\ t.bar = task[s].bar /\ t.acct = task[s].acct
          /\ t.stray = task[s].stray /\ t.crossed = task[s].crossed
      <4>1. task[s] \in TaskState /\ terminal \in MaybeAccount /\ "gates" \in Places
        BY <1>0 DEF MaybeAccount, Places
      <4>2. QED
        BY <4>1 DEF TaskState
    <3> HIDE DEF t
    <3>3. TaskKept(s)
      BY <1>0, <3>1, <3>2 DEF TaskKept
    <3>4. QED
      BY <1>0, <1>5, <2>2, <3>3 DEF Advances, Used
  <2>3. QED
    BY <1>5, <2>1, <2>2 DEF Advances
<1>6. CASE Admit(s)
  <2>1. task[s].at # "idle" /\ (End(s) \/ Go(s, "queued"))
    BY <1>6 DEF Admit
  <2>2. TaskKept(s)
    BY <1>a, <1>b, <1>c, <2>1
  <2>3. lastBar' \in [Symbols -> 0..MaxBar]
    BY <1>0, <1>1, <1>6, <2>1, ConsumeTyped DEF Admit
  <2>4. admitted' \in [Bars -> SUBSET Symbols]
    BY <1>0, <1>1, <1>6, <2>1 DEF Admit
  <2>5. QED
    BY <1>0, <1>6, <2>1, <2>2, <2>3, <2>4 DEF Admit, ghosts
<1>7. CASE Ask(s)
  <2>1. task[s].at # "idle" /\ Go(s, "asking")
    BY <1>7 DEF Ask
  <2>2. TaskKept(s)
    BY <1>b, <1>c, <2>1
  <2>3. asked' \in [Symbols -> [Bars -> {"no", "once", "again"}]]
    BY <1>0, <1>1, <1>7, <2>1 DEF Ask
  <2>4. QED
    BY <1>0, <1>7, <2>1, <2>2, <2>3 DEF Ask
<1>8. CASE Answer(s)
  <2>1. task[s].at # "idle" /\ (End(s) \/ Go(s, "answered"))
    BY <1>8 DEF Answer
  <2>2. TaskKept(s)
    BY <1>a, <1>b, <1>c, <2>1
  <2>3. lastBar' \in [Symbols -> 0..MaxBar]
    BY <1>0, <1>1, <1>8, <2>1, ConsumeTyped DEF Answer
  <2>4. QED
    BY <1>0, <1>8, <2>1, <2>2, <2>3 DEF Answer, ghosts
<1>9. CASE Valid(s)
  <2>1. task[s].at # "idle" /\ (End(s) \/ Go(s, "plan"))
    BY <1>9 DEF Valid
  <2>2. TaskKept(s)
    BY <1>a, <1>b, <1>c, <2>1
  <2>3. lastBar' \in [Symbols -> 0..MaxBar]
    BY <1>0, <1>1, <1>9, <2>1, ConsumeTyped DEF Valid
  <2>4. QED
    BY <1>0, <1>9, <2>1, <2>2, <2>3 DEF Valid, ghosts
<1>10. QED
  BY <1>0, <1>2, <1>3, <1>4, <1>5, <1>6, <1>7, <1>8, <1>9, TaskKinds

LEMMA ScanTyped ==
    ASSUME TypeInv, NEW s \in Symbols, ScanStep(s)
    PROVE  /\ Running /\ task[s].at = "idle" /\ active \in Accounts /\ lastBar[s] # bar
           /\ task' \in [Symbols -> TaskState]
           /\ \A u \in Symbols : u # s => task'[u] = task[u] /\ lastBar'[u] = lastBar[u]
           /\ \/ task'[s] = task[s] /\ lastBar'[s] = bar
              \/ /\ task'[s].at = "confirm" /\ task'[s].bar = bar /\ task'[s].acct = active
                 /\ task'[s].stray = FALSE
                 /\ task'[s].crossed = (armed \notin {NoAccount, active})
                 /\ lastBar'[s] = lastBar[s]
           /\ lastBar' \in [Symbols -> 0..MaxBar]
           /\ cand' \in [Symbols -> Candidate \cup {NoCandidate}]
           /\ UNCHANGED <<candle, broker, engine, gate, provider, admitted, deferred, prober, desk,
                          events, ghosts>>
<1>0. /\ TypeOK /\ task \in [Symbols -> TaskState] /\ bar \in Bars
      /\ lastBar \in [Symbols -> 0..MaxBar] /\ cand \in [Symbols -> Candidate \cup {NoCandidate}]
  BY DEF TypeInv, TypeOK
<1>1. /\ loop.at = "polling" /\ task[s].at = "idle" /\ lastBar[s] # bar
      /\ UNCHANGED <<candle, broker, engine, gate, provider, admitted, deferred, prober, desk,
                     events, ghosts>>
  BY DEF ScanStep, Scan, Quiet, broker, gate, provider
<1>2. Running /\ active \in Accounts
  BY <1>0, <1>1 DEF Running, TypeOK, MaybeAccount
<1>3. CASE Consume(s, bar) /\ UNCHANGED <<task, cand>>
  BY <1>0, <1>1, <1>2, <1>3, ConsumeTyped
<1>4. CASE /\ Clear(s) /\ UNCHANGED lastBar
           /\ task' = [task EXCEPT ![s] =
                [NoTask EXCEPT !.at = "confirm", !.bar = bar, !.acct = active,
                               !.crossed = armed \notin {NoAccount, active}]]
  <2> DEFINE c == armed \notin {NoAccount, active}
             t == [NoTask EXCEPT !.at = "confirm", !.bar = bar, !.acct = active, !.crossed = c]
  <2>1. /\ t \in TaskState /\ t.at = "confirm" /\ t.bar = bar /\ t.acct = active
        /\ t.stray = FALSE /\ t.crossed = c
    <3>1. c \in BOOLEAN /\ active \in MaybeAccount /\ bar \in 0..MaxBar /\ "confirm" \in Places
      BY <1>0, <1>2, LaneAssumption DEF MaybeAccount, Bars, Places
    <3> HIDE DEF c
    <3>2. QED
      BY <3>1, RecordsTyped DEF TaskState
  <2>2. task' = [task EXCEPT ![s] = t]
    BY <1>4
  <2> HIDE DEF t
  <2>3. cand' \in [Symbols -> Candidate \cup {NoCandidate}]
    BY <1>0, <1>4, CandTyped
  <2>4. QED
    BY <1>0, <1>1, <1>2, <1>4, <2>1, <2>2, <2>3
<1>5. QED
  BY <1>3, <1>4 DEF ScanStep, Scan

-----------------------------------------------------------------------------
(* The override and the probers.                                           *)
LEMMA DeskTyped ==
    ASSUME TypeInv, NEW s \in Symbols, DeskStep(s)
    PROVE  /\ desk[s].at # "idle" /\ desk' \in [Symbols -> OverrideState]
           /\ \A u \in Symbols : u # s => desk'[u] = desk[u]
           /\ desk'[s] = NoOverride \/ (desk'[s].at # "idle" /\ desk'[s].cand = desk[s].cand)
           /\ desk'[s].at = "send" =>
                 desk'[s].seen = NoAccount \/ held'[desk'[s].seen][s] = 0
           /\ cand' \in [Symbols -> Candidate \cup {NoCandidate}]
           /\ armed' \in {armed, NoAccount}
           /\ \/ UNCHANGED <<held, blind>>
              \/ desk[s].at = "send" /\ Open(s, desk[s].seen)
           /\ UNCHANGED <<candle, terminal, engine, auto, provider, lane, prober, asked, events>>
<1>0. /\ TypeOK /\ desk \in [Symbols -> OverrideState] /\ desk[s] \in OverrideState
      /\ cand \in [Symbols -> Candidate \cup {NoCandidate}] /\ terminal \in Accounts
  BY DEF TypeInv, TypeOK
<1>1. UNCHANGED <<candle, terminal, engine, auto, provider, lane, prober, asked, events>>
  BY DEF DeskStep, Quiet
<1>2. OverrideEnds(s) =>
         /\ desk' \in [Symbols -> OverrideState] /\ desk'[s] = NoOverride
         /\ \A u \in Symbols : u # s => desk'[u] = desk[u]
  BY <1>0, RecordsTyped DEF OverrideEnds
<1>3. ASSUME NEW place \in {"bar", "positions", "send", "finish"}, NEW seen \in MaybeAccount,
             desk' = [desk EXCEPT ![s] = [desk[s] EXCEPT !.at = place, !.seen = seen]]
      PROVE  /\ desk' \in [Symbols -> OverrideState]
             /\ desk'[s].at = place /\ desk'[s].cand = desk[s].cand /\ desk'[s].seen = seen
             /\ \A u \in Symbols : u # s => desk'[u] = desk[u]
  <2> DEFINE o == [desk[s] EXCEPT !.at = place, !.seen = seen]
  <2>1. o \in OverrideState /\ o.at = place /\ o.cand = desk[s].cand /\ o.seen = seen
    BY <1>0, <1>3 DEF OverrideState
  <2> HIDE DEF o
  <2>2. desk' = [desk EXCEPT ![s] = o]
    BY <1>3 DEF o
  <2>3. QED
    BY <1>0, <2>1, <2>2
<1>4. ASSUME NEW place \in {"bar", "positions", "finish"}, OverrideGo(s, place)
      PROVE  /\ desk' \in [Symbols -> OverrideState]
             /\ desk'[s].at = place /\ desk'[s].cand = desk[s].cand
             /\ \A u \in Symbols : u # s => desk'[u] = desk[u]
  <2>1. desk[s].seen \in MaybeAccount
    BY <1>0 DEF OverrideState
  <2>2. [desk[s] EXCEPT !.at = place] = [desk[s] EXCEPT !.at = place, !.seen = desk[s].seen]
    BY <1>0 DEF OverrideState
  <2>3. desk' = [desk EXCEPT ![s] = [desk[s] EXCEPT !.at = place]]
    BY <1>4 DEF OverrideGo
  <2>4. QED
    BY <1>3, <2>1, <2>2, <2>3
<1>5. NoOverride.at = "idle"
  BY RecordsTyped
<1>6. CASE OverrideAccount(s) \/ OverrideBar(s) \/ OverrideFinish(s)
  <2>1. /\ desk[s].at # "idle" /\ UNCHANGED <<held, blind, armed>>
        /\ Clear(s) \/ UNCHANGED cand
        /\ OverrideEnds(s) \/ \E place \in {"bar", "positions", "finish"} : OverrideGo(s, place)
    BY <1>6 DEF OverrideAccount, OverrideBar, OverrideFinish
  <2>2. cand' \in [Symbols -> Candidate \cup {NoCandidate}]
    BY <1>0, <2>1, CandTyped
  <2>3. QED
    BY <1>1, <1>2, <1>4, <1>5, <2>1, <2>2
<1>7. CASE OverrideCheck(s)
  <2>1. CASE OverrideEnds(s) /\ MayClear(s)
    <3>1. cand' \in [Symbols -> Candidate \cup {NoCandidate}]
      BY <1>0, <2>1, CandTyped
    <3>2. desk[s].at # "idle" /\ UNCHANGED <<held, blind, armed>>
      BY <1>7 DEF OverrideCheck
    <3>3. QED
      BY <1>1, <1>2, <1>5, <2>1, <3>1, <3>2
  <2>2. CASE /\ desk' = [desk EXCEPT ![s].at = "send",
                            ![s].seen = IF held[terminal][s] = 0 THEN terminal ELSE NoAccount]
             /\ UNCHANGED cand
    <3> DEFINE seen == IF held[terminal][s] = 0 THEN terminal ELSE NoAccount
    <3>1. desk' = [desk EXCEPT ![s] = [desk[s] EXCEPT !.at = "send", !.seen = seen]]
      BY <1>0, <2>2
    <3>2. seen \in MaybeAccount /\ (seen = NoAccount \/ held[seen][s] = 0)
      BY <1>0 DEF MaybeAccount
    <3> HIDE DEF seen
    <3>3. /\ desk' \in [Symbols -> OverrideState]
          /\ desk'[s].at = "send" /\ desk'[s].cand = desk[s].cand /\ desk'[s].seen = seen
          /\ \A u \in Symbols : u # s => desk'[u] = desk[u]
      BY <1>3, <3>1, <3>2
    <3>4. desk[s].at # "idle" /\ UNCHANGED <<held, blind, armed>>
      BY <1>7 DEF OverrideCheck
    <3>5. QED
      BY <1>0, <1>1, <2>2, <3>2, <3>3, <3>4
  <2>3. QED
    BY <1>7, <2>1, <2>2 DEF OverrideCheck
<1>8. CASE OverrideSend(s)
  <2>1. /\ desk[s].at = "send" /\ UNCHANGED cand
        /\ armed' \in {armed, NoAccount}
        /\ UNCHANGED <<held, blind>> \/ Open(s, desk[s].seen)
        /\ OverrideEnds(s) \/ OverrideGo(s, "finish")
    BY <1>8 DEF OverrideSend, StoreRisk, StayOrDisarm, Disarm
  <2>2. QED
    BY <1>0, <1>1, <1>2, <1>4, <1>5, <2>1
<1>9. QED
  BY <1>6, <1>7, <1>8 DEF DeskStep

(* Who arms: nobody, the operator for the account of the command, or the    *)
(* supervisor for the autonomous account.                                  *)
Authority(p) ==
    \/ armed' \in {armed, NoAccount} /\ UNCHANGED <<lastBar, deferred, task, asked>>
    \/ prober[p].acct \in MaybeAccount /\ OperatorArms(prober[p].acct)
    \/ auto # NoAccount /\ Arm(auto) /\ UNCHANGED task

LEMMA SettleTyped ==
    ASSUME TypeOK, NEW p \in Probers, NEW llm \in BOOLEAN, Settle(p, llm)
    PROVE  prober' \in [Probers -> ProberState] /\ Authority(p)
<1>0. prober \in [Probers -> ProberState] /\ prober[p] \in ProberState
  BY DEF TypeOK
<1>1. CASE p = "supervisor"
  <2> DEFINE r == IF auto = NoAccount THEN IdleProber
                  ELSE [prober[p] EXCEPT !.at = "account", !.llm = llm]
  <2>1. r \in ProberState
    BY <1>0, RecordsTyped DEF ProberState
  <2>2. prober' = [prober EXCEPT ![p] = r]
    BY <1>1 DEF Settle
  <2> HIDE DEF r
  <2>3. armed' \in {armed, NoAccount} /\ UNCHANGED <<lastBar, deferred, task, asked>>
    BY <1>1 DEF Settle, Disarm
  <2>4. QED
    BY <1>0, <2>1, <2>2, <2>3 DEF Authority
<1>2. CASE p # "supervisor"
  <2>1. prober' = [prober EXCEPT ![p] = IdleProber]
    BY <1>2 DEF Settle
  <2>2. \/ OperatorArms(prober[p].acct)
        \/ UNCHANGED <<armed, lastBar, deferred, task, asked>>
    BY <1>2 DEF Settle
  <2>3. prober[p].acct \in MaybeAccount
    BY <1>0 DEF ProberState
  <2>4. QED
    BY <1>0, <2>1, <2>2, <2>3, RecordsTyped DEF Authority
<1>3. QED
  BY <1>1, <1>2

LEMMA ProbeTyped ==
    ASSUME TypeOK, NEW p \in Probers, ProbeStep(p)
    PROVE  /\ prober' \in [Probers -> ProberState] /\ Authority(p)
           /\ ready' \in BOOLEAN /\ failures' \in 0..Threshold
           /\ UNCHANGED <<candle, broker, engine, auto, up, admitted, cand, desk, blind, events>>
<1>0. /\ prober \in [Probers -> ProberState] /\ prober[p] \in ProberState
      /\ ready \in BOOLEAN /\ failures \in 0..Threshold /\ up \in BOOLEAN
      /\ 0 \in 0..Threshold
  BY LaneAssumption DEF TypeOK
<1>1. UNCHANGED <<candle, broker, engine, auto, up, admitted, cand, desk, blind, events>>
  BY DEF ProbeStep, Quiet
<1>2. ASSUME NEW place \in {"lock", "slot", "probing"}, ProberGo(p, place),
             UNCHANGED <<armed, lastBar, deferred, task, asked>>
      PROVE  prober' \in [Probers -> ProberState] /\ Authority(p)
  <2> DEFINE r == [prober[p] EXCEPT !.at = place]
  <2>1. r \in ProberState
    BY <1>0, <1>2 DEF ProberState
  <2>2. prober' = [prober EXCEPT ![p] = r]
    BY <1>2 DEF ProberGo
  <2> HIDE DEF r
  <2>3. QED
    BY <1>0, <1>2, <2>1, <2>2 DEF Authority
<1>3. CASE Health(p)
  <2>1. ready' \in BOOLEAN /\ failures' \in 0..Threshold
    BY <1>0, <1>3 DEF Health
  <2>2. \/ \E llm \in BOOLEAN : Settle(p, llm)
        \/ ProberGo(p, "lock") /\ UNCHANGED <<armed, lastBar, deferred, task, asked>>
    BY <1>3 DEF Health
  <2>3. QED
    BY <1>1, <1>2, <2>1, <2>2, SettleTyped
<1>4. CASE TakeProbeLock(p)
  <2>1. \/ \E llm \in BOOLEAN : Settle(p, llm)
        \/ ProberGo(p, "slot") /\ UNCHANGED <<armed, lastBar, deferred, task, asked>>
    BY <1>4 DEF TakeProbeLock
  <2>2. ready' \in BOOLEAN /\ failures' \in 0..Threshold
    BY <1>0, <1>4 DEF TakeProbeLock
  <2>3. QED
    BY <1>1, <1>2, <2>1, <2>2, SettleTyped
<1>5. CASE TakeSlot(p)
  BY <1>0, <1>1, <1>2, <1>5 DEF TakeSlot
<1>6. CASE Probed(p)
  <2>1. ready' \in BOOLEAN /\ failures' \in 0..Threshold
    BY <1>0, <1>6 DEF Probed, Completes
  <2>2. Settle(p, up)
    BY <1>6 DEF Probed, Completes
  <2>3. QED
    BY <1>0, <1>1, <2>1, <2>2, SettleTyped
<1>7. CASE Decide(p)
  <2>1. prober' \in [Probers -> ProberState]
    BY <1>0, <1>7, RecordsTyped DEF Decide
  <2>2. ready' \in BOOLEAN /\ failures' \in 0..Threshold /\ UNCHANGED task
    BY <1>0, <1>7 DEF Decide
  <2>3. \/ armed' \in {armed, NoAccount} /\ UNCHANGED <<lastBar, deferred, asked>>
        \/ terminal = auto /\ Arm(terminal)
    BY <1>7 DEF Decide, Disarm
  <2>4. terminal # NoAccount
    BY LaneAssumption DEF TypeOK
  <2>5. QED
    BY <1>1, <2>1, <2>2, <2>3, <2>4 DEF Authority
<1>8. QED
  BY <1>3, <1>4, <1>5, <1>6, <1>7 DEF ProbeStep


-----------------------------------------------------------------------------
(* The variables keep their types, and the tasks their candle, whichever    *)
(* coroutine moves.                                                        *)
LEMMA TypeInit == Init => TypeInv
<1> SUFFICES ASSUME Init PROVE TypeInv
  OBVIOUS
<1>1. TypeOK
  <2>1. /\ bar \in Bars /\ late \in BOOLEAN /\ terminal \in Accounts
        /\ held \in [Accounts -> [Symbols -> Nat]]
        /\ loop \in [at : {"off", "polling", "switching"}, acct : MaybeAccount]
        /\ active \in MaybeAccount /\ ~Running
        /\ armed \in MaybeAccount /\ auto \in MaybeAccount
    BY RecordsTyped DEF Init, MaybeAccount, Running
  <2>a. up \in BOOLEAN /\ ready \in BOOLEAN
    BY DEF Init
  <2>b. /\ failures \in 0..Threshold /\ lastBar \in [Symbols -> 0..MaxBar]
        /\ events \in [user : 0..MaxEvents, model : 0..MaxOutages]
    BY LaneAssumption DEF Init
  <2>2. /\ admitted \in [Bars -> SUBSET Symbols]
        /\ deferred \subseteq Symbols /\ blind \subseteq Accounts \X Symbols
    BY DEF Init
  <2>3. /\ task \in [Symbols -> TaskState]
        /\ cand \in [Symbols -> Candidate \cup {NoCandidate}]
        /\ prober \in [Probers -> ProberState] /\ desk \in [Symbols -> OverrideState]
        /\ asked \in [Symbols -> [Bars -> {"no", "once", "again"}]]
    BY RecordsTyped DEF Init
  <2>4. QED
    BY <2>1, <2>a, <2>b, <2>2, <2>3 DEF TypeOK
<1>2. Sound
  BY RecordsTyped, LaneAssumption DEF Init, Sound
<1>3. QED
  BY <1>1, <1>2 DEF TypeInv

LEMMA TypeOfTasks ==
    ASSUME TypeInv, NEW s \in Symbols,
           ScanStep(s) \/ TaskStep(s) \/ OverrideBegin(s) \/ DeskStep(s)
    PROVE  TypeInv'
<1>0. TypeOK /\ Sound
  BY DEF TypeInv
<1>1. CASE ScanStep(s)
  <2>1. TypeOK'
    BY <1>0, <1>1, ScanTyped
       DEF TypeOK, candle, broker, engine, gate, provider, ghosts, Running
  <2>2. Sound'
    <3>1. loop' = loop /\ desk' = desk /\ bar' = bar /\ bar \in Bars
      BY <1>0, <1>1, ScanTyped DEF engine, candle, TypeOK
    <3>2. ASSUME NEW u \in Symbols
          PROVE  /\ task'[u].at # "idle" =>
                       task'[u].bar \in Bars /\ task'[u].acct \in Accounts /\ Running'
                 /\ task'[u].bar <= bar'
      <4>1. CASE task'[u] = task[u]
        BY <1>0, <3>1, <4>1 DEF Sound, Running
      <4>2. CASE u = s /\ task'[s].bar = bar /\ task'[s].acct = active
        <5>1. Running' /\ active \in Accounts
          BY <1>0, <1>1, <3>1, ScanTyped DEF Running
        <5>2. bar \in Nat /\ bar' \in Nat
          BY <3>1, RecordsTyped
        <5>3. QED
          BY <3>1, <4>2, <5>1, <5>2
      <4>3. QED
        BY <1>1, <4>1, <4>2, ScanTyped
    <3>3. QED
      BY <1>0, <3>1, <3>2 DEF Sound
  <2>3. QED
    BY <2>1, <2>2 DEF TypeInv
<1>2. CASE TaskStep(s)
  <2>0. /\ Frame /\ ready' \in BOOLEAN /\ failures' \in 0..Threshold
        /\ armed' \in {armed, NoAccount}
    BY <1>0, <1>2, TaskKinds
  <2>a. armed' \in MaybeAccount
    BY <1>0, <2>0 DEF TypeOK, MaybeAccount
  <2>1. TypeOK'
    BY <1>0, <1>2, <2>0, <2>a, TaskTyped
       DEF TypeOK, Frame, candle, engine, Running, TaskKept
  <2>2. Sound'
    <3>1. loop' = loop /\ desk' = desk /\ bar' = bar /\ bar \in Bars
      BY <1>0, <2>0 DEF Frame, engine, candle, TypeOK
    <3>2. ASSUME NEW u \in Symbols
          PROVE  /\ task'[u].at # "idle" =>
                       task'[u].bar \in Bars /\ task'[u].acct \in Accounts /\ Running'
                 /\ task'[u].bar <= bar'
      <4>1. CASE task'[u] = task[u]
        BY <1>0, <3>1, <4>1 DEF Sound, Running
      <4>2. CASE task'[u] = NoTask
        BY <3>1, <4>2, RecordsTyped, LaneAssumption DEF Bars
      <4>3. CASE u = s /\ task'[s].bar = task[s].bar /\ task'[s].acct = task[s].acct
        BY <1>0, <1>2, <3>1, <4>3, TaskTyped DEF Sound, Running
      <4>4. QED
        BY <1>2, <4>1, <4>2, <4>3, TaskTyped DEF TaskKept
    <3>3. QED
      BY <1>0, <3>1, <3>2 DEF Sound
  <2>3. QED
    BY <2>1, <2>2 DEF TypeInv
<1>3. CASE OverrideBegin(s)
  <2>1. /\ cand[s] \in Candidate /\ desk \in [Symbols -> OverrideState]
        /\ events \in [user : 0..MaxEvents, model : 0..MaxOutages]
    BY <1>0, <1>3 DEF OverrideBegin, TypeOK
  <2> DEFINE o == [at |-> "account", cand |-> cand[s], seen |-> NoAccount]
  <2>2. o \in OverrideState /\ o.at # "idle" /\ o.cand \in Candidate
    BY <2>1 DEF OverrideState, MaybeAccount
  <2>3. desk' = [desk EXCEPT ![s] = o]
    BY <1>3 DEF OverrideBegin
  <2> HIDE DEF o
  <2>4. desk' \in [Symbols -> OverrideState]
    BY <2>1, <2>2, <2>3
  <2>5. events' \in [user : 0..MaxEvents, model : 0..MaxOutages]
    BY <1>3, <2>1, LaneAssumption DEF OverrideBegin, Event
  <2>6. UNCHANGED <<candle, broker, engine, gate, provider, lane, cand, prober, ghosts>>
    BY <1>3 DEF OverrideBegin
  <2>7. TypeOK'
    BY <1>0, <2>4, <2>5, <2>6
       DEF TypeOK, candle, broker, engine, gate, provider, lane, ghosts, Running
  <2>8. Sound'
    BY <1>0, <2>1, <2>2, <2>3, <2>6 DEF Sound, candle, engine, lane, Running
  <2>9. QED
    BY <2>7, <2>8 DEF TypeInv
<1>4. CASE DeskStep(s)
  <2>1. armed' \in MaybeAccount
    BY <1>0, <1>4, DeskTyped DEF TypeOK, MaybeAccount
  <2>2. held' \in [Accounts -> [Symbols -> Nat]] /\ blind' \subseteq Accounts \X Symbols
    <3>1. CASE UNCHANGED <<held, blind>>
      BY <1>0, <3>1 DEF TypeOK
    <3>2. CASE Open(s, desk[s].seen)
      BY <1>0, <3>2, OpenTyped
    <3>3. QED
      BY <1>4, <3>1, <3>2, DeskTyped
  <2>3. TypeOK'
    BY <1>0, <1>4, <2>1, <2>2, DeskTyped
       DEF TypeOK, candle, engine, provider, lane, Running
  <2>4. Sound'
    BY <1>0, <1>4, DeskTyped, RecordsTyped DEF Sound, candle, engine, lane, Running
  <2>5. QED
    BY <2>3, <2>4 DEF TypeInv
<1>5. QED
  BY <1>1, <1>2, <1>3, <1>4

LEMMA TypeOfProbers ==
    ASSUME TypeInv, NEW p \in Probers, ProbeStep(p)
    PROVE  TypeInv'
<1>0. TypeOK /\ Sound
  BY DEF TypeInv
<1>1. /\ prober' \in [Probers -> ProberState] /\ Authority(p)
      /\ ready' \in BOOLEAN /\ failures' \in 0..Threshold
      /\ UNCHANGED <<candle, broker, engine, auto, up, admitted, cand, desk, blind, events>>
  BY <1>0, ProbeTyped
<1>2. /\ armed' \in MaybeAccount /\ lastBar' \in [Symbols -> 0..MaxBar]
      /\ deferred' \subseteq Symbols /\ task' \in [Symbols -> TaskState]
      /\ asked' \in [Symbols -> [Bars -> {"no", "once", "again"}]]
      /\ \A s \in Symbols :
            task'[s].at = task[s].at /\ task'[s].bar = task[s].bar /\ task'[s].acct = task[s].acct
  <2>1. CASE armed' \in {armed, NoAccount} /\ UNCHANGED <<lastBar, deferred, task, asked>>
    BY <1>0, <2>1 DEF TypeOK, MaybeAccount
  <2>2. CASE prober[p].acct \in MaybeAccount /\ OperatorArms(prober[p].acct)
    BY <1>0, <2>2, Crossing, ReleaseTyped DEF OperatorArms, Arm
  <2>3. CASE auto # NoAccount /\ Arm(auto) /\ UNCHANGED task
    BY <1>0, <2>3, ReleaseTyped DEF Arm, TypeOK
  <2>4. QED
    BY <1>1, <2>1, <2>2, <2>3 DEF Authority
<1>3. TypeOK'
  BY <1>0, <1>1, <1>2 DEF TypeOK, candle, broker, engine, Running
<1>4. Sound'
  BY <1>0, <1>1, <1>2 DEF Sound, candle, engine, Running
<1>5. QED
  BY <1>3, <1>4 DEF TypeInv


(* The actions of the engine, the operator and the surroundings.           *)
LEMMA StopTyped ==
    ASSUME TypeOK, Stop
    PROVE  /\ loop' = [at |-> "off", acct |-> NoAccount] /\ ~Running' /\ armed' = NoAccount
           /\ cand' = NoCandidates /\ task' = [s \in Symbols |-> NoTask]
           /\ \A s \in Symbols : task'[s] = NoTask
           /\ prober' \in [Probers -> ProberState]
           /\ events' \in [user : 0..MaxEvents, model : 0..MaxOutages]
           /\ admitted' = [b \in Bars |-> {}] /\ asked' = NoneAsked
           /\ held' \in [Accounts -> [Symbols -> Nat]] /\ blind' \subseteq Accounts \X Symbols
           /\ UNCHANGED <<candle, terminal, active, auto, provider, lastBar, deferred, desk>>
<1>0. /\ prober \in [Probers -> ProberState] /\ IdleProber \in ProberState
      /\ events \in [user : 0..MaxEvents, model : 0..MaxOutages]
      /\ held \in [Accounts -> [Symbols -> Nat]] /\ blind \subseteq Accounts \X Symbols
  BY RecordsTyped DEF TypeOK
<1>1. /\ loop' = [at |-> "off", acct |-> NoAccount] /\ armed' = NoAccount
      /\ cand' = NoCandidates /\ task' = [s \in Symbols |-> NoTask]
      /\ admitted' = [b \in Bars |-> {}] /\ asked' = NoneAsked
      /\ UNCHANGED <<candle, terminal, active, auto, provider, lastBar, deferred, desk>>
  BY DEF Stop, Disarm, ClearsSlots
<1>2. ~Running' /\ \A s \in Symbols : task'[s] = NoTask
  BY <1>1 DEF Running
<1>3. prober' \in [Probers -> ProberState]
  BY <1>0 DEF Stop
<1>4. events' \in [user : 0..MaxEvents, model : 0..MaxOutages]
  BY <1>0, LaneAssumption DEF Stop, Event
<1>5. held' \in [Accounts -> [Symbols -> Nat]] /\ blind' \subseteq Accounts \X Symbols
  <2>1. CASE UNCHANGED <<held, blind>>
    BY <1>0, <2>1
  <2>2. ASSUME NEW s \in Symbols, Open(s, task[s].seen)
        PROVE  held' \in [Accounts -> [Symbols -> Nat]] /\ blind' \subseteq Accounts \X Symbols
    BY <2>2, OpenTyped
  <2>3. QED
    BY <2>1, <2>2 DEF Stop
<1>6. QED
  BY <1>1, <1>2, <1>3, <1>4, <1>5

LEMMA SeeTyped ==
    ASSUME TypeOK, SeeAccount
    PROVE  /\ task' \in [Symbols -> TaskState]
           /\ \A s \in Symbols :
                 /\ task'[s].at = task[s].at /\ task'[s].bar = task[s].bar
                 /\ task'[s].acct = task[s].acct /\ task'[s].seen = task[s].seen
                 /\ task'[s].crossed = task[s].crossed
                 /\ task'[s].at = "queued" => task'[s].stray
           /\ lastBar' \in [Symbols -> 0..MaxBar]
           /\ loop' = [at |-> "switching", acct |-> terminal] /\ Running /\ Running'
           /\ armed' = NoAccount /\ auto' = NoAccount /\ cand' = NoCandidates
           /\ admitted' = [b \in Bars |-> {}] /\ asked' = NoneAsked
           /\ UNCHANGED <<candle, broker, active, provider, deferred, prober, desk, blind, events>>
<1> DEFINE f(t) == IF t.at = "queued" THEN [t EXCEPT !.stray = TRUE] ELSE t
<1>1. task \in [Symbols -> TaskState] /\ task' = [s \in Symbols |-> f(task[s])]
  BY DEF TypeOK, SeeAccount
<1>2. ASSUME NEW t \in TaskState
      PROVE  /\ f(t) \in TaskState
             /\ f(t).at = t.at /\ f(t).bar = t.bar /\ f(t).acct = t.acct /\ f(t).seen = t.seen
             /\ f(t).crossed = t.crossed /\ (f(t).at = "queued" => f(t).stray)
  BY <1>2 DEF TaskState
<1>3. /\ lastBar' = [s \in Symbols |-> 0] /\ loop.at = "polling"
      /\ loop' = [at |-> "switching", acct |-> terminal]
      /\ armed' = NoAccount /\ auto' = NoAccount /\ cand' = NoCandidates
      /\ admitted' = [b \in Bars |-> {}] /\ asked' = NoneAsked
      /\ UNCHANGED <<candle, broker, active, provider, deferred, prober, desk, blind, events>>
  BY DEF SeeAccount, Disarm, ClearsSlots, Quiet
<1>4. lastBar' \in [Symbols -> 0..MaxBar] /\ Running /\ Running'
  BY <1>3, LaneAssumption DEF Running
<1> HIDE DEF f
<1>5. QED
  BY <1>1, <1>2, <1>3, <1>4

LEMMA TypeOfEngine ==
    ASSUME TypeInv, Start \/ Stop \/ EngineStep
    PROVE  TypeInv'
<1>0. TypeOK /\ Sound /\ \A b \in Bars : {} \in SUBSET Symbols
  BY DEF TypeInv
<1>1. CASE Start
  <2>1. /\ loop' = [at |-> "polling", acct |-> terminal] /\ active' = terminal
        /\ armed' = NoAccount /\ auto' \in {NoAccount} \cup ({terminal} \cap Granted)
        /\ ready' = FALSE /\ failures' = 0
        /\ admitted' = [b \in Bars |-> {}] /\ asked' = NoneAsked /\ ~Running
        /\ UNCHANGED <<candle, broker, up, lastBar, deferred, task, cand, prober, desk, blind, events>>
    BY <1>1 DEF Start, Disarm, ClearsSlots, Quiet
  <2>2. /\ loop' \in [at : {"off", "polling", "switching"}, acct : MaybeAccount]
        /\ active' \in MaybeAccount /\ active' # NoAccount
        /\ armed' \in MaybeAccount /\ auto' \in MaybeAccount
    BY <1>0, <2>1, LaneAssumption DEF TypeOK, MaybeAccount
  <2>3. ready' \in BOOLEAN
    BY <2>1
  <2>4. /\ failures' \in 0..Threshold /\ admitted' \in [Bars -> SUBSET Symbols]
        /\ asked' \in [Symbols -> [Bars -> {"no", "once", "again"}]]
    BY <2>1, LaneAssumption, RecordsTyped
  <2>5. TypeOK'
    BY <1>0, <2>1, <2>2, <2>3, <2>4 DEF TypeOK, candle, broker
  <2>6. Sound'
    BY <1>0, <2>1 DEF Sound, candle
  <2>7. QED
    BY <2>5, <2>6 DEF TypeInv
<1>2. CASE Stop
  <2>1. /\ loop' \in [at : {"off", "polling", "switching"}, acct : MaybeAccount]
        /\ armed' \in MaybeAccount /\ admitted' \in [Bars -> SUBSET Symbols]
    BY <1>0, <1>2, StopTyped DEF MaybeAccount
  <2>2. /\ task' \in [Symbols -> TaskState]
        /\ asked' \in [Symbols -> [Bars -> {"no", "once", "again"}]]
        /\ cand' \in [Symbols -> Candidate \cup {NoCandidate}]
    BY <1>0, <1>2, StopTyped, RecordsTyped
  <2>3. TypeOK'
    BY <1>0, <1>2, <2>1, <2>2, StopTyped DEF TypeOK, candle, provider
  <2>4. Sound'
    <3>1. loop'.at = "off" /\ desk' = desk /\ bar' \in Nat /\ \A s \in Symbols : task'[s] = NoTask
      BY <1>0, <1>2, StopTyped, RecordsTyped DEF candle, TypeOK
    <3>2. QED
      BY <1>0, <3>1, RecordsTyped DEF Sound
  <2>5. QED
    BY <2>3, <2>4 DEF TypeInv
<1>3. CASE SeeAccount
  <2>1. /\ loop' \in [at : {"off", "polling", "switching"}, acct : MaybeAccount]
        /\ armed' \in MaybeAccount /\ auto' \in MaybeAccount
        /\ admitted' \in [Bars -> SUBSET Symbols] /\ loop'.acct \in Accounts
    BY <1>0, <1>3, SeeTyped DEF MaybeAccount, TypeOK
  <2>2. /\ asked' \in [Symbols -> [Bars -> {"no", "once", "again"}]]
        /\ cand' \in [Symbols -> Candidate \cup {NoCandidate}]
    BY <1>0, <1>3, SeeTyped, RecordsTyped
  <2>3. TypeOK'
    BY <1>0, <1>3, <2>1, <2>2, SeeTyped DEF TypeOK, candle, broker, provider
  <2>4. Sound'
    BY <1>0, <1>3, <2>1, SeeTyped DEF Sound, candle
  <2>5. QED
    BY <2>3, <2>4 DEF TypeInv
<1>4. CASE Switched
  <2>1. /\ loop.at = "switching" /\ loop' = [loop EXCEPT !.at = "polling"]
        /\ active' = loop.acct
        /\ UNCHANGED <<candle, broker, gate, provider, lane, cand, prober, desk, ghosts, events>>
    BY <1>4 DEF Switched, Quiet
  <2>2. /\ loop' \in [at : {"off", "polling", "switching"}, acct : MaybeAccount]
        /\ loop'.at = "polling" /\ active' \in Accounts /\ active' \in MaybeAccount
    BY <1>0, <2>1 DEF TypeOK, Sound, MaybeAccount
  <2>3. TypeOK'
    BY <1>0, <2>1, <2>2, LaneAssumption
       DEF TypeOK, candle, broker, gate, provider, lane, ghosts
  <2>4. Sound'
    BY <1>0, <2>1, <2>2 DEF Sound, candle, lane, Running
  <2>5. QED
    BY <2>3, <2>4 DEF TypeInv
<1>5. QED
  BY <1>1, <1>2, <1>3, <1>4 DEF EngineStep

(* What the operator's other commands, the market, the terminal's user and  *)
(* the model leave alone.                                                  *)
Outside ==
    \/ ArmBegin \/ OperatorDisarms \/ NewCandle \/ CandleAges \/ ModelFails \/ ModelReturns
    \/ \E a \in Accounts : SwitchAccount(a)

LEMMA OutsideTyped ==
    ASSUME TypeOK, Outside
    PROVE  /\ bar' \in Bars /\ late' \in BOOLEAN /\ bar <= bar' /\ terminal' \in Accounts
           /\ gate' = gate \/ (armed' = NoAccount /\ auto' = NoAccount)
           /\ up' \in BOOLEAN /\ prober' \in [Probers -> ProberState]
           /\ events' \in [user : 0..MaxEvents, model : 0..MaxOutages]
           /\ UNCHANGED <<held, engine, ready, failures, lane, cand, desk, ghosts>>
<1>0. /\ bar \in Bars /\ late \in BOOLEAN /\ terminal \in Accounts /\ up \in BOOLEAN
      /\ prober \in [Probers -> ProberState]
      /\ events \in [user : 0..MaxEvents, model : 0..MaxOutages]
      /\ MaxBar \in Nat /\ MaxEvents \in Nat /\ MaxOutages \in Nat
  BY LaneAssumption DEF TypeOK
<1>a. Event \/ Outage \/ Quiet => events' \in [user : 0..MaxEvents, model : 0..MaxOutages]
  BY <1>0 DEF Event, Outage, Quiet
<1>1. CASE ArmBegin
  <2> DEFINE r == [at |-> "health", acct |-> terminal, llm |-> FALSE]
  <2>1. r \in ProberState
    BY <1>0 DEF ProberState, MaybeAccount
  <2>2. prober' = [prober EXCEPT !["operator"] = r]
    BY <1>1 DEF ArmBegin
  <2> HIDE DEF r
  <2>3. prober' \in [Probers -> ProberState]
    BY <1>0, <2>1, <2>2
  <2>4. QED
    BY <1>0, <1>1, <1>a, <2>3 DEF ArmBegin, candle, broker, provider, Bars
<1>2. CASE OperatorDisarms
  BY <1>0, <1>2, <1>a DEF OperatorDisarms, Disarm, candle, broker, provider, Bars
<1>3. CASE NewCandle
  <2>1. bar' = bar + 1 /\ bar < MaxBar /\ late' = FALSE
    BY <1>3 DEF NewCandle
  <2>2. bar' \in Bars /\ bar <= bar'
    BY <1>0, <2>1 DEF Bars
  <2>3. late' \in BOOLEAN
    BY <2>1
  <2>4. QED
    BY <1>0, <1>3, <1>a, <2>2, <2>3 DEF NewCandle, broker, provider
<1>4. CASE CandleAges
  <2>1. late' \in BOOLEAN
    BY <1>4 DEF CandleAges
  <2>2. QED
    BY <1>0, <1>4, <1>a, <2>1 DEF CandleAges, broker, provider, Bars
<1>5. CASE ModelFails \/ ModelReturns
  <2>1. up' \in BOOLEAN
    BY <1>5 DEF ModelFails, ModelReturns
  <2>2. QED
    BY <1>0, <1>5, <1>a, <2>1 DEF ModelFails, ModelReturns, candle, broker, Bars
<1>6. CASE \E a \in Accounts : SwitchAccount(a)
  BY <1>0, <1>6, <1>a DEF SwitchAccount, candle, provider, Bars
<1>7. QED
  BY <1>1, <1>2, <1>3, <1>4, <1>5, <1>6 DEF Outside

LEMMA TypeStep == TypeInv /\ [Next]_vars => TypeInv'
<1> SUFFICES ASSUME TypeInv, [Next]_vars PROVE TypeInv'
  OBVIOUS
<1>0. TypeOK /\ Sound
  BY DEF TypeInv
<1>1. CASE Outside
  <2>1. armed' \in MaybeAccount /\ auto' \in MaybeAccount
    BY <1>0, <1>1, OutsideTyped DEF TypeOK, gate, MaybeAccount
  <2>2. TypeOK'
    BY <1>0, <1>1, <2>1, OutsideTyped DEF TypeOK, engine, lane, ghosts, Running
  <2>3. Sound'
    <3>1. /\ bar \in Int /\ bar' \in Int /\ bar <= bar' /\ loop' = loop /\ task' = task
          /\ desk' = desk
      BY <1>0, <1>1, OutsideTyped DEF TypeOK, Bars, engine, lane
    <3>2. ASSUME NEW s \in Symbols PROVE task[s].bar <= bar'
      <4>1. task[s].bar \in Int /\ task[s].bar <= bar
        BY <1>0 DEF TypeOK, TaskState, Sound
      <4>2. QED
        BY <3>1, <4>1
    <3>3. QED
      BY <1>0, <3>1, <3>2 DEF Sound, Running
  <2>4. QED
    BY <2>2, <2>3 DEF TypeInv
<1>2. CASE UNCHANGED vars
  <2>1. TypeOK'
    BY <1>0, <1>2
       DEF TypeOK, vars, candle, broker, engine, gate, provider, lane, ghosts, Running
  <2>2. Sound'
    BY <1>0, <1>2 DEF Sound, vars, candle, engine, lane, Running
  <2>3. QED
    BY <2>1, <2>2 DEF TypeInv
<1>3. QED
  BY <1>1, <1>2, TypeOfTasks, TypeOfProbers, TypeOfEngine DEF Next, Outside

(* Every variable of the decision lane keeps its type: a review always has  *)
(* a candle and an account, and the engine that runs one knows its account. *)
THEOREM TypeCorrect == Spec => []TypeOK
<1>1. Spec => []TypeInv
  BY TypeInit, TypeStep, PTL DEF Spec
<1>2. TypeInv => TypeOK
  BY DEF TypeInv
<1>3. QED
  BY <1>1, <1>2, PTL


-----------------------------------------------------------------------------
(* AdmissionBound.  The slots of a candle are never more than Limit, and    *)
(* the model is asked only about symbols that hold one: a queued task has   *)
(* its own, unless the slots were cleared under it.                        *)
SlotsHeld ==
    /\ \A b \in Bars : Cardinality(admitted[b]) <= Limit
    /\ \A s \in Symbols :
        /\ \A b \in Bars : asked[s][b] # "no" => s \in admitted[b]
        /\ task[s].at = "queued" /\ ~task[s].stray => s \in admitted[task[s].bar]

(* The slots are cleared, with what is known of the questions.              *)
LEMMA SlotsCleared ==
    ASSUME admitted' = [b \in Bars |-> {}], asked' = NoneAsked,
           \A s \in Symbols : ~(task'[s].at = "queued" /\ ~task'[s].stray)
    PROVE  SlotsHeld'
<1>1. Cardinality({}) = 0 /\ Limit \in Nat
  BY FS_EmptySet, LaneAssumption
<1>2. QED
  BY <1>1 DEF SlotsHeld, NoneAsked

(* The slots stay, and no question is new: every queued task was queued     *)
(* before.                                                                 *)
LEMMA SlotsKept ==
    ASSUME SlotsHeld, admitted' = admitted,
           \A s \in Symbols :
              /\ \A b \in Bars : asked'[s][b] # "no" => asked[s][b] # "no"
              /\ task'[s].at = "queued" /\ ~task'[s].stray =>
                    task[s].at = "queued" /\ ~task[s].stray /\ task'[s].bar = task[s].bar
    PROVE  SlotsHeld'
BY DEF SlotsHeld

LEMMA SlotsOfTasks ==
    ASSUME TypeInv, SlotsHeld, NEW s \in Symbols, TaskStep(s)
    PROVE  SlotsHeld'
<1>0. TypeOK /\ Sound /\ TaskKept(s) /\ admitted \in [Bars -> SUBSET Symbols]
      /\ asked \in [Symbols -> [Bars -> {"no", "once", "again"}]]
  BY TaskTyped DEF TypeInv, TypeOK
<1>1. CASE Exhausts(s) \/ Leaves(s) \/ Sends(s) \/ Advances(s) \/ Answer(s) \/ Valid(s)
  <2>1. admitted' = admitted /\ asked' = asked
    BY <1>1 DEF Exhausts, Leaves, Sends, Advances, Used, Answer, Valid, ghosts
  <2>2. task'[s].at # "queued"
    <3>1. CASE End(s)
      BY <1>0, <3>1, EndTask, RecordsTyped
    <3>2. ASSUME NEW place \in Places, place # "queued", Go(s, place) PROVE task'[s].at # "queued"
      BY <1>0, <3>2, GoTask
    <3>3. CASE /\ task[s].at = "positions"
               /\ task' = [task EXCEPT ![s].at = "gates", ![s].seen = terminal]
      <4>1. task[s] \in TaskState /\ task \in [Symbols -> TaskState]
        BY <1>0 DEF TypeOK
      <4>2. QED
        BY <3>3, <4>1 DEF TaskState
    <3>4. \/ End(s)
          \/ \E place \in Places : place # "queued" /\ Go(s, place)
          \/ /\ task[s].at = "positions"
             /\ task' = [task EXCEPT ![s].at = "gates", ![s].seen = terminal]
      BY <1>1 DEF Exhausts, Leaves, Sends, Advances, Path, Answer, Valid, Places
    <3>5. QED
      BY <3>1, <3>2, <3>3, <3>4
  <2>3. QED
    BY <1>0, <2>1, <2>2, SlotsKept DEF TaskKept
<1>2. CASE Admit(s)
  <2> DEFINE b == task[s].bar
             T == admitted[b] \cup {s}
  <2>1. b \in Bars /\ task[s].at = "confirm" /\ asked' = asked
    BY <1>0, <1>2 DEF Admit, Sound, ghosts
  <2>2. CASE ~Admits(s)
    <3>1. admitted' = admitted /\ End(s)
      BY <1>2, <2>2 DEF Admit
    <3>2. task'[s].at # "queued"
      BY <1>0, <3>1, EndTask, RecordsTyped
    <3>3. QED
      BY <1>0, <2>1, <3>1, <3>2, SlotsKept DEF TaskKept
  <2>3. CASE Admits(s)
    <3>1. admitted' = [admitted EXCEPT ![b] = T]
      BY <1>2, <2>3 DEF Admit
    <3>2. T \subseteq Symbols /\ IsFiniteSet(admitted[b]) /\ IsFiniteSet(T)
      BY <1>0, <2>1, LaneAssumption, FS_Subset
    <3>3. Cardinality(T) <= Limit
      <4>1. CASE s \in admitted[b]
        BY <2>1, <4>1 DEF SlotsHeld
      <4>2. CASE s \notin admitted[b]
        <5>1. Cardinality(admitted[b]) < Limit
          BY <2>3, <4>2 DEF Admits
        <5>2. Cardinality(T) = Cardinality(admitted[b]) + 1 /\ Cardinality(admitted[b]) \in Nat
          BY <3>2, <4>2, FS_AddElement, FS_CardinalityType
        <5>3. QED
          BY <5>1, <5>2, LaneAssumption
      <4>3. QED
        BY <4>1, <4>2
    <3> HIDE DEF b
    <3>4. \A c \in Bars : admitted[c] \subseteq admitted'[c] /\ Cardinality(admitted'[c]) <= Limit
      BY <1>0, <2>1, <3>1, <3>3 DEF SlotsHeld
    <3>5. s \in admitted'[b]
      BY <1>0, <2>1, <3>1
    <3>6. ASSUME NEW u \in Symbols
          PROVE  /\ \A c \in Bars : asked'[u][c] # "no" => u \in admitted'[c]
                 /\ task'[u].at = "queued" /\ ~task'[u].stray => u \in admitted'[task'[u].bar]
      <4>1. \A c \in Bars : asked'[u][c] # "no" => u \in admitted'[c]
        BY <2>1, <3>4 DEF SlotsHeld
      <4>2. CASE u # s
        <5>1. task'[u] = task[u] /\ (task[u].at = "queued" => task[u].bar \in Bars)
          BY <1>0, <4>2 DEF TaskKept, Sound
        <5>2. QED
          BY <3>4, <4>1, <5>1 DEF SlotsHeld
      <4>3. CASE u = s
        <5>1. task'[s].at = "queued" => task'[s].bar = b
          BY <1>0, RecordsTyped DEF TaskKept, b
        <5>2. QED
          BY <3>5, <4>1, <4>3, <5>1
      <4>4. QED
        BY <4>2, <4>3
    <3>7. QED
      BY <3>4, <3>6 DEF SlotsHeld
  <2>4. QED
    BY <2>2, <2>3
<1>3. CASE Ask(s)
  <2>1. /\ admitted' = admitted /\ task[s].at = "queued" /\ task[s].bar \in Bars
        /\ asked' = IF task[s].stray THEN asked ELSE [asked EXCEPT ![s][task[s].bar] = "once"]
        /\ Go(s, "asking") /\ "asking" \in Places
    BY <1>0, <1>3 DEF Ask, Sound, Places
  <2>2. task'[s].at # "queued"
    BY <1>0, <2>1, GoTask
  <2>3. ASSUME NEW u \in Symbols
        PROVE  /\ \A c \in Bars : asked'[u][c] # "no" => u \in admitted'[c]
               /\ task'[u].at = "queued" /\ ~task'[u].stray => u \in admitted'[task'[u].bar]
    <3>1. CASE u # s
      BY <1>0, <2>1, <3>1 DEF TaskKept, SlotsHeld
    <3>2. CASE u = s
      BY <1>0, <2>1, <2>2, <3>2 DEF SlotsHeld
    <3>3. QED
      BY <3>1, <3>2
  <2>4. QED
    BY <2>1, <2>3 DEF SlotsHeld
<1>4. QED
  BY <1>0, <1>1, <1>2, <1>3, TaskKinds

LEMMA SlotsStep == TypeInv /\ SlotsHeld /\ [Next]_vars => SlotsHeld'
<1> SUFFICES ASSUME TypeInv, SlotsHeld, [Next]_vars PROVE SlotsHeld'
  OBVIOUS
<1>0. TypeOK /\ Sound
  BY DEF TypeInv
<1>1. ASSUME NEW s \in Symbols, ScanStep(s) PROVE SlotsHeld'
  <2>1. admitted' = admitted /\ asked' = asked
    BY <1>1, ScanTyped DEF ghosts
  <2>2. QED
    BY <1>1, <2>1, ScanTyped, SlotsKept
<1>2. ASSUME NEW s \in Symbols, OverrideBegin(s) \/ DeskStep(s) PROVE SlotsHeld'
  <2>1. admitted' = admitted /\ asked' = asked /\ task' = task
    BY <1>2 DEF OverrideBegin, DeskStep, lane, ghosts
  <2>2. QED
    BY <2>1, SlotsKept
<1>3. ASSUME NEW p \in Probers, ProbeStep(p) PROVE SlotsHeld'
  <2>1. admitted' = admitted /\ Authority(p)
    BY <1>0, <1>3, ProbeTyped
  <2>2. CASE UNCHANGED <<task, asked>>
    BY <2>1, <2>2, SlotsKept
  <2>3. CASE OperatorArms(prober[p].acct)
    BY <1>0, <2>1, <2>3, Crossing, ReleaseTyped, SlotsKept DEF OperatorArms, Arm
  <2>4. CASE Arm(auto) /\ UNCHANGED task
    BY <1>0, <2>1, <2>4, ReleaseTyped, SlotsKept DEF Arm
  <2>5. QED
    BY <2>1, <2>2, <2>3, <2>4 DEF Authority
<1>4. CASE Start
  <2>1. ~Running /\ task' = task /\ admitted' = [b \in Bars |-> {}] /\ asked' = NoneAsked
    BY <1>4 DEF Start, ClearsSlots
  <2>2. \A s \in Symbols : task'[s].at # "queued"
    BY <1>0, <2>1 DEF Sound
  <2>3. QED
    BY <2>1, <2>2, SlotsCleared
<1>5. CASE Stop
  BY <1>0, <1>5, StopTyped, SlotsCleared, RecordsTyped
<1>6. CASE SeeAccount
  BY <1>0, <1>6, SeeTyped, SlotsCleared
<1>7. CASE Switched \/ Outside \/ UNCHANGED vars
  <2>1. admitted' = admitted /\ asked' = asked /\ task' = task
    <3>1. CASE Outside
      BY <1>0, <3>1, OutsideTyped DEF lane, ghosts
    <3>2. CASE Switched \/ UNCHANGED vars
      BY <3>2 DEF Switched, vars, lane, ghosts
    <3>3. QED
      BY <1>7, <3>1, <3>2
  <2>2. QED
    BY <2>1, SlotsKept
<1>8. QED
  BY <1>1, <1>2, <1>3, <1>4, <1>5, <1>6, <1>7, SlotsOfTasks DEF Next, Outside, EngineStep

(* However many candles are screened, models fail and tasks are abandoned,  *)
(* the model is asked about at most Limit symbols for one candle until the  *)
(* slots are cleared (_reserve_entry_model_slot).                          *)
THEOREM CandleBudget == Spec => []AdmissionBound
<1>1. Init => SlotsHeld
  <2>1. Cardinality({}) = 0 /\ Limit \in Nat
    BY FS_EmptySet, LaneAssumption
  <2>2. QED
    BY <2>1, RecordsTyped DEF Init, SlotsHeld, NoneAsked
<1>2. TypeInv /\ SlotsHeld => AdmissionBound
  <2> SUFFICES ASSUME TypeInv, SlotsHeld, NEW b \in Bars
               PROVE  Cardinality({s \in Symbols : asked[s][b] # "no"}) <= Limit
    BY DEF AdmissionBound
  <2> DEFINE A == {s \in Symbols : asked[s][b] # "no"}
  <2>1. A \subseteq admitted[b] /\ admitted[b] \subseteq Symbols
    BY DEF SlotsHeld, TypeInv, TypeOK
  <2>2. IsFiniteSet(admitted[b])
    BY <2>1, LaneAssumption, FS_Subset
  <2>3. Cardinality(A) <= Cardinality(admitted[b])
    BY <2>1, <2>2, FS_Subset
  <2>4. /\ Cardinality(A) \in Nat /\ Cardinality(admitted[b]) \in Nat
        /\ Cardinality(admitted[b]) <= Limit /\ Limit \in Nat
    BY <2>1, <2>2, FS_Subset, FS_CardinalityType, LaneAssumption DEF SlotsHeld
  <2>5. QED
    BY <2>3, <2>4
<1>3. Spec => [](TypeInv /\ SlotsHeld)
  BY <1>1, TypeInit, TypeStep, SlotsStep, PTL DEF Spec
<1>4. QED
  BY <1>2, <1>3, PTL


-----------------------------------------------------------------------------
(* OneAttemptPerCandle.  A candle the model has been asked about is not     *)
(* newer than the last one, nor than the one the symbol's task is at; it is *)
(* used up, no longer the last, or the task that asked still has it.  A     *)
(* task on its way to the model therefore has another.                     *)
TriedBy(s) ==
    /\ \A b \in Bars : asked[s][b] = "once" =>
          /\ b <= bar
          /\ task[s].at # "idle" => b <= task[s].bar
          /\ \/ lastBar[s] = b \/ b < bar
             \/ task[s].at \in {"asking", "answered"} /\ task[s].bar = b
    /\ task[s].at \in {"confirm", "queued"} => asked[s][task[s].bar] # "once"
Tried == \A s \in Symbols : TriedBy(s)

(* Where no question is new and the task is as far as it was, nothing      *)
(* changes but that candles grow older and signals are released.           *)
LEMMA TriedKept ==
    ASSUME TypeInv, TypeInv', bar <= bar', NEW s \in Symbols, TriedBy(s),
           task'[s].at = task[s].at, task'[s].bar = task[s].bar,
           \A b \in Bars : asked'[s][b] = "once" =>
              asked[s][b] = "once" /\ lastBar'[s] = lastBar[s]
    PROVE  TriedBy(s)'
<1>1. /\ bar \in Bars /\ bar' \in Bars /\ Bars \subseteq Nat
      /\ task[s].at # "idle" => task[s].bar \in Bars
  BY RecordsTyped DEF TypeInv, TypeOK, Sound
<1>2. ASSUME NEW b \in Bars, asked'[s][b] = "once"
      PROVE  /\ b <= bar'
             /\ task'[s].at # "idle" => b <= task'[s].bar
             /\ \/ lastBar'[s] = b \/ b < bar'
                \/ task'[s].at \in {"asking", "answered"} /\ task'[s].bar = b
  <2>1. /\ b <= bar /\ b \in Nat
        /\ task[s].at # "idle" => b <= task[s].bar
        /\ \/ lastBar[s] = b \/ b < bar
           \/ task[s].at \in {"asking", "answered"} /\ task[s].bar = b
    BY <1>1, <1>2 DEF TriedBy
  <2>2. b <= bar' /\ (b < bar => b < bar') /\ lastBar'[s] = lastBar[s]
    BY <1>1, <1>2, <2>1
  <2>3. QED
    BY <2>1, <2>2
<1>3. task'[s].at \in {"confirm", "queued"} => asked'[s][task'[s].bar] # "once"
  BY <1>1 DEF TriedBy
<1>4. QED
  BY <1>2, <1>3 DEF TriedBy

LEMMA TriedOfScan ==
    ASSUME TypeInv, Tried, NEW s \in Symbols, ScanStep(s)
    PROVE  TriedBy(s)'
<1>1. /\ TypeOK /\ bar \in Bars /\ Bars \subseteq Nat /\ bar' = bar /\ asked' = asked
      /\ task[s].at = "idle" /\ lastBar[s] # bar /\ TriedBy(s)
  BY ScanTyped, RecordsTyped DEF TypeInv, TypeOK, candle, ghosts, Tried
<1>2. ASSUME NEW b \in Bars, asked[s][b] = "once" PROVE b < bar /\ b <= bar
  BY <1>1, <1>2 DEF TriedBy
<1>3. CASE task'[s] = task[s]
  BY <1>1, <1>2, <1>3 DEF TriedBy
<1>4. CASE task'[s].at = "confirm" /\ task'[s].bar = bar
  <2>1. asked[s][bar] # "once"
    BY <1>1, <1>2
  <2>2. QED
    BY <1>1, <1>2, <1>4, <2>1 DEF TriedBy
<1>5. QED
  BY <1>3, <1>4, ScanTyped

LEMMA TriedOfTask ==
    ASSUME TypeInv, Tried, NEW s \in Symbols, TaskStep(s)
    PROVE  TriedBy(s)'
<1> DEFINE b == task[s].bar
<1>0. /\ TypeOK /\ TaskKept(s) /\ bar' = bar /\ bar \in Nat /\ Bars \subseteq Nat
      /\ task[s].at # "idle" /\ b \in Bars /\ b <= bar /\ TriedBy(s)
      /\ asked \in [Symbols -> [Bars -> {"no", "once", "again"}]]
  BY TaskTyped, TaskKinds, RecordsTyped DEF TypeInv, TypeOK, Sound, Frame, candle, Tried
<1>1. ASSUME NEW c \in Bars, asked[s][c] = "once"
      PROVE  /\ c \in Nat /\ c <= bar /\ c <= b
             /\ c # b => c < bar
             /\ \/ lastBar[s] = c \/ c < bar
                \/ task[s].at \in {"asking", "answered"} /\ b = c
  BY <1>0, <1>1 DEF TriedBy
<1>2. task'[s].at # "idle" => task'[s].bar = b
  BY <1>0, RecordsTyped DEF TaskKept
<1>3. NoTask.at = "idle"
  BY RecordsTyped
<1>4. ASSUME asked' = asked, Consume(s, b), task'[s].at \notin {"confirm", "queued"}
      PROVE  TriedBy(s)'
  <2>1. lastBar'[s] = b
    BY <1>0, <1>4, ConsumeTyped
  <2> HIDE DEF b
  <2>2. QED
    BY <1>0, <1>1, <1>2, <1>4, <2>1 DEF TriedBy
<1>5. ASSUME asked' = asked, lastBar' = lastBar,
             \/ task[s].at \notin {"asking", "answered"}
             \/ task'[s].at \in {"asking", "answered"},
             task'[s].at \in {"confirm", "queued"} => task[s].at \in {"confirm", "queued"}
      PROVE  TriedBy(s)'
  <2>1. task'[s].at \in {"confirm", "queued"} => asked[s][b] # "once"
    BY <1>0, <1>5 DEF TriedBy
  <2> HIDE DEF b
  <2>2. QED
    BY <1>0, <1>1, <1>2, <1>5, <2>1 DEF TriedBy
<1>6. End(s) => task'[s].at = "idle"
  BY <1>0, <1>3, EndTask
<1>7. ASSUME NEW place \in Places, Go(s, place) PROVE task'[s].at = place
  BY <1>0, <1>7, GoTask
<1>8. CASE Exhausts(s)
  <2>1. asked' = asked /\ Consume(s, b) /\ task'[s].at = "idle"
    BY <1>6, <1>8 DEF Exhausts, Used
  <2>2. QED
    BY <1>4, <2>1
<1>9. CASE Leaves(s) \/ Sends(s)
  <2>1. /\ asked' = asked /\ lastBar' = lastBar /\ task'[s].at = "idle"
        /\ task[s].at \notin {"asking", "answered"}
    BY <1>6, <1>9 DEF Leaves, Sends, Used
  <2>2. QED
    BY <1>5, <2>1
<1>10. CASE Advances(s)
  <2>1. /\ asked' = asked /\ lastBar' = lastBar
        /\ task[s].at \notin {"asking", "answered"} /\ task'[s].at \notin {"confirm", "queued"}
    <3>1. CASE \E place \in Places : <<task[s].at, place>> \in Path /\ Go(s, place)
      BY <1>7, <1>10, <3>1 DEF Advances, Used, Path
    <3>2. CASE /\ task[s].at = "positions"
               /\ task' = [task EXCEPT ![s].at = "gates", ![s].seen = terminal]
      <4>1. task \in [Symbols -> TaskState] /\ task[s] \in TaskState
        BY <1>0 DEF TypeOK
      <4>2. task'[s].at = "gates"
        BY <3>2, <4>1 DEF TaskState
      <4>3. QED
        BY <1>10, <3>2, <4>2 DEF Advances, Used
    <3>3. QED
      BY <1>10, <3>1, <3>2 DEF Advances
  <2>2. QED
    BY <1>5, <2>1
<1>11. CASE Admit(s)
  <2>1. asked' = asked /\ task[s].at = "confirm" /\ "queued" \in Places
    BY <1>11 DEF Admit, ghosts, Places
  <2>2. \/ UNCHANGED lastBar
        \/ End(s) /\ Consume(s, b)
    BY <1>11 DEF Admit
  <2>3. QED
    BY <1>4, <1>5, <1>6, <2>1, <2>2
<1>12. CASE Ask(s)
  <2>1. /\ task[s].at = "queued" /\ task'[s].at = "asking" /\ lastBar' = lastBar
        /\ asked' = IF task[s].stray THEN asked ELSE [asked EXCEPT ![s][b] = "once"]
    BY <1>7, <1>12 DEF Ask, Places
  <2> HIDE DEF b
  <2>2. ASSUME NEW c \in Bars, asked'[s][c] = "once" PROVE c = b \/ asked[s][c] = "once"
    BY <1>0, <2>1, <2>2
  <2>3. QED
    BY <1>0, <1>1, <1>2, <2>1, <2>2 DEF TriedBy
<1>13. CASE Answer(s)
  <2>1. asked' = asked /\ task[s].at = "asking" /\ "answered" \in Places
    BY <1>13 DEF Answer, ghosts, Places
  <2>2. \/ Go(s, "answered") /\ UNCHANGED lastBar
        \/ End(s) /\ Consume(s, b)
    BY <1>13 DEF Answer
  <2>3. QED
    BY <1>4, <1>5, <1>6, <1>7, <2>1, <2>2
<1>14. CASE Valid(s)
  <2>1. asked' = asked /\ Consume(s, b) /\ "plan" \in Places /\ (End(s) \/ Go(s, "plan"))
    BY <1>14 DEF Valid, ghosts, Places
  <2>2. QED
    BY <1>4, <1>6, <1>7, <2>1
<1>15. QED
  BY <1>0, <1>8, <1>9, <1>10, <1>11, <1>12, <1>13, <1>14, TaskKinds

LEMMA TriedStep == TypeInv /\ TypeInv' /\ Tried /\ [Next]_vars => Tried'
<1> SUFFICES ASSUME TypeInv, TypeInv', Tried, [Next]_vars, NEW u \in Symbols PROVE TriedBy(u)'
  BY DEF Tried
<1>0. TypeOK /\ Sound /\ TriedBy(u) /\ bar \in Nat
  BY RecordsTyped DEF TypeInv, Tried, TypeOK
<1>1. ASSUME NEW s \in Symbols, ScanStep(s) PROVE TriedBy(u)'
  <2>1. CASE u = s
    BY <1>1, <2>1, TriedOfScan
  <2>2. CASE u # s
    <3>1. bar' = bar /\ asked' = asked /\ task'[u] = task[u] /\ lastBar'[u] = lastBar[u]
      BY <1>1, <2>2, ScanTyped DEF candle, ghosts
    <3>2. QED
      BY <1>0, <3>1, TriedKept
  <2>3. QED
    BY <2>1, <2>2
<1>2. ASSUME NEW s \in Symbols, TaskStep(s) PROVE TriedBy(u)'
  <2>1. CASE u = s
    BY <1>2, <2>1, TriedOfTask
  <2>2. CASE u # s
    <3>1. task'[u] = task[u] /\ bar' = bar
      BY <1>0, <1>2, <2>2, TaskTyped, TaskKinds DEF TaskKept, Frame, candle
    <3>2. lastBar'[u] = lastBar[u]
      <4>1. task[s].bar \in Bars
        BY <1>0, <1>2, TaskTyped DEF Sound
      <4>2. UNCHANGED lastBar \/ Consume(s, task[s].bar)
        BY <1>0, <1>2, TaskKinds
           DEF Exhausts, Leaves, Sends, Advances, Admit, Ask, Answer, Valid
      <4>3. QED
        BY <1>0, <2>2, <4>1, <4>2, ConsumeTyped
    <3>3. asked'[u] = asked[u]
      <4>1. asked' = asked \/ asked' = [asked EXCEPT ![s][task[s].bar] = "once"]
        BY <1>0, <1>2, TaskKinds
           DEF Exhausts, Leaves, Sends, Advances, Used, Admit, Ask, Answer, Valid, ghosts
      <4>2. QED
        BY <1>0, <2>2, <4>1 DEF TypeOK
    <3>4. QED
      BY <1>0, <3>1, <3>2, <3>3, TriedKept
  <2>3. QED
    BY <2>1, <2>2
<1>3. ASSUME NEW s \in Symbols, OverrideBegin(s) \/ DeskStep(s) PROVE TriedBy(u)'
  <2>1. bar' = bar /\ asked' = asked /\ task' = task /\ lastBar' = lastBar
    BY <1>3 DEF OverrideBegin, DeskStep, candle, lane, ghosts
  <2>2. QED
    BY <1>0, <2>1, TriedKept
<1>4. ASSUME NEW p \in Probers, ProbeStep(p) PROVE TriedBy(u)'
  <2>1. bar' = bar /\ Authority(p)
    BY <1>0, <1>4, ProbeTyped DEF candle
  <2>2. CASE UNCHANGED <<lastBar, task, asked>>
    BY <1>0, <2>1, <2>2, TriedKept
  <2>3. CASE OperatorArms(prober[p].acct)
    BY <1>0, <2>1, <2>3, Crossing, ReleaseTyped, TriedKept DEF OperatorArms, Arm
  <2>4. CASE Arm(auto) /\ UNCHANGED task
    BY <1>0, <2>1, <2>4, ReleaseTyped, TriedKept DEF Arm
  <2>5. QED
    BY <2>1, <2>2, <2>3, <2>4 DEF Authority
<1>5. CASE Start \/ Stop \/ SeeAccount
  <2>1. asked' = NoneAsked
    BY <1>5 DEF Start, Stop, SeeAccount, ClearsSlots
  <2>2. task'[u].at \in {"confirm", "queued"} => task'[u].bar \in Bars
    BY DEF TypeInv, Sound
  <2>3. QED
    BY <2>1, <2>2 DEF TriedBy, NoneAsked
<1>6. CASE Switched \/ Outside \/ UNCHANGED vars
  <2>1. bar <= bar' /\ asked' = asked /\ task' = task /\ lastBar' = lastBar
    <3>1. CASE Outside
      BY <1>0, <3>1, OutsideTyped DEF lane, ghosts
    <3>2. CASE Switched \/ UNCHANGED vars
      BY <1>0, <3>2 DEF Switched, vars, candle, lane, ghosts
    <3>3. QED
      BY <1>6, <3>1, <3>2
  <2>2. QED
    BY <1>0, <2>1, TriedKept
<1>7. QED
  BY <1>1, <1>2, <1>3, <1>4, <1>5, <1>6 DEF Next, Outside, EngineStep

(* One completed candle receives one decision attempt, however tasks fail,  *)
(* expire or are released: the model is asked again about a candle only     *)
(* after arming released a deferred signal of the symbol (_evaluate_symbol, *)
(* _release_deferred_signals_for_rescan).                                  *)
THEOREM OneAttempt == Spec => OneAttemptPerCandle
<1>1. Init => Tried
  <2> SUFFICES ASSUME Init, NEW s \in Symbols PROVE TriedBy(s)
    BY DEF Tried
  <2>1. task[s].at = "idle" /\ \A b \in Bars : asked[s][b] = "no"
    BY RecordsTyped DEF Init, NoneAsked
  <2>2. QED
    BY <2>1 DEF TriedBy
<1>2. Spec => [](TypeInv /\ Tried)
  BY <1>1, TypeInit, TypeStep, TriedStep, PTL DEF Spec
<1>3. Tried => \A s \in Symbols :
         task[s].at = "queued" /\ task'[s].at = "asking" => asked[s][task[s].bar] # "once"
  BY DEF Tried, TriedBy
<1>4. QED
  BY <1>2, <1>3, PTL DEF Spec, OneAttemptPerCandle


-----------------------------------------------------------------------------
(* OnePositionPerSymbol.  One order at a time is past the execution lock,   *)
(* a review's or the operator's; the one that has read no position on its   *)
(* symbol can rely on it for as long as it holds the lock.                  *)
SeenEmpty ==
    \A s \in Symbols :
        /\ task[s].at \in {"gates", "send"} =>
              task[s].seen \in Accounts /\ held[task[s].seen][s] = 0
        /\ desk[s].at = "send" /\ desk[s].seen # NoAccount => held[desk[s].seen][s] = 0

OrderInv == OneHolder /\ SeenEmpty /\ OnePositionPerSymbol

(* A step in which nobody gets further under the lock and no position is    *)
(* opened.                                                                 *)
LEMMA OrderKept ==
    ASSUME OrderInv, UNCHANGED <<held, blind>>,
           \A s \in Symbols :
              /\ task'[s].at \in Locked => task'[s].at = task[s].at /\ task'[s].seen = task[s].seen
              /\ desk'[s].at # "idle" => desk[s].at # "idle"
              /\ desk'[s].at = "send" =>
                    \/ desk'[s].seen = NoAccount \/ held[desk'[s].seen][s] = 0
                    \/ desk'[s] = desk[s]
    PROVE  OrderInv'
<1>1. OneHolder'
  BY DEF OrderInv, OneHolder
<1>2. SeenEmpty'
  BY DEF OrderInv, SeenEmpty, Locked
<1>3. OnePositionPerSymbol'
  BY DEF OrderInv, OnePositionPerSymbol
<1>4. QED
  BY <1>1, <1>2, <1>3 DEF OrderInv

(* The order that was under way opens its position and leaves the lock to   *)
(* nobody, or to the same override on its last step.                       *)
LEMMA OrderOpened ==
    ASSUME TypeOK, OrderInv, NEW s \in Symbols, NEW seen, Open(s, seen),
           seen = terminal => held[terminal][s] = 0,
           \A u \in Symbols : task'[u].at \notin Locked,
           \A u \in Symbols : desk'[u].at # "idle" => u = s /\ desk'[u].at # "send"
    PROVE  OrderInv'
<1>1. OneHolder'
  BY DEF OneHolder
<1>2. SeenEmpty'
  BY DEF SeenEmpty, Locked
<1>3. ASSUME NEW a \in Accounts, NEW u \in Symbols
      PROVE  held'[a][u] <= 1 \/ <<a, u>> \in blind'
  <2>1. CASE a = terminal /\ u = s /\ seen = terminal
    BY <2>1, OpenTyped
  <2>2. CASE a = terminal /\ u = s /\ seen # terminal
    BY <2>2, OpenTyped
  <2>3. CASE a # terminal \/ u # s
    BY <2>3, OpenTyped DEF OrderInv, OnePositionPerSymbol
  <2>4. QED
    BY <2>1, <2>2, <2>3
<1>4. QED
  BY <1>1, <1>2, <1>3 DEF OrderInv, OnePositionPerSymbol

LEMMA OrderOfTask ==
    ASSUME TypeInv, OrderInv, NEW s \in Symbols, TaskStep(s)
    PROVE  OrderInv'
<1>0. /\ TypeOK /\ TaskKept(s) /\ desk' = desk /\ terminal' = terminal /\ terminal \in Accounts
      /\ NoTask.at = "idle"
  BY TaskTyped, TaskKinds, RecordsTyped DEF TypeInv, TypeOK, Frame
<1>1. ASSUME UNCHANGED <<held, blind>>,
             task'[s].at \in Locked => task'[s].at = task[s].at /\ task'[s].seen = task[s].seen
      PROVE  OrderInv'
  BY <1>0, <1>1, OrderKept DEF TaskKept
<1>2. End(s) => task'[s].at = "idle" /\ "idle" \notin Locked
  BY <1>0, EndTask DEF Locked
<1>3. ASSUME NEW place \in Places, Go(s, place)
      PROVE  task'[s].at = place /\ task'[s].seen = task[s].seen
  BY <1>0, <1>3, GoTask
<1>4. CASE Exhausts(s) \/ Leaves(s)
  BY <1>1, <1>2, <1>4 DEF Exhausts, Leaves
<1>5. CASE Admit(s) \/ Ask(s) \/ Answer(s) \/ Valid(s)
  <2>1. /\ UNCHANGED <<held, blind>>
        /\ End(s) \/ \E place \in {"queued", "asking", "answered", "plan"} : Go(s, place)
    BY <1>5 DEF Admit, Ask, Answer, Valid, ghosts
  <2>2. task'[s].at \notin Locked
    BY <1>2, <1>3, <2>1 DEF Locked, Places
  <2>3. QED
    BY <1>1, <2>1, <2>2
<1>6. CASE Sends(s)
  <2>1. task'[s].at \notin Locked /\ task[s].at \in Locked /\ task[s].at = "send"
    BY <1>2, <1>6 DEF Sends, Locked
  <2>2. CASE UNCHANGED <<held, blind>>
    BY <1>1, <2>1, <2>2
  <2>3. CASE Open(s, task[s].seen)
    <3>1. \A u \in Symbols : task'[u].at \notin Locked /\ desk'[u].at = "idle"
      BY <1>0, <2>1 DEF OrderInv, OneHolder, TaskKept
    <3>2. task[s].seen = terminal => held[terminal][s] = 0
      BY <2>1 DEF OrderInv, SeenEmpty
    <3>3. QED
      BY <1>0, <2>3, <3>1, <3>2, OrderOpened
  <2>4. QED
    BY <1>6, <2>2, <2>3 DEF Sends
<1>7. CASE Advances(s)
  <2>0. UNCHANGED <<held, blind>>
    BY <1>7 DEF Advances
  <2>1. ASSUME \A u \in Symbols : u # s => task[u].at \notin Locked,
               \A u \in Symbols : desk[u].at = "idle",
               task'[s].at \in {"gates", "send"} =>
                  task'[s].seen \in Accounts /\ held[task'[s].seen][s] = 0
        PROVE  OrderInv'
    <3>1. OneHolder'
      BY <1>0, <2>1 DEF OneHolder, TaskKept
    <3>2. SeenEmpty'
      BY <1>0, <2>0, <2>1 DEF SeenEmpty, TaskKept, Locked
    <3>3. OnePositionPerSymbol'
      BY <2>0 DEF OrderInv, OnePositionPerSymbol
    <3>4. QED
      BY <3>1, <3>2, <3>3 DEF OrderInv
  <2>2. CASE task[s].at \in Locked
    <3>1. /\ \A u \in Symbols : u # s => task[u].at \notin Locked
          /\ \A u \in Symbols : desk[u].at = "idle"
      BY <2>2 DEF OrderInv, OneHolder
    <3>2. CASE \E place \in Places : <<task[s].at, place>> \in Path /\ Go(s, place)
      <4>1. /\ task'[s].seen = task[s].seen
            /\ task'[s].at \in {"gates", "send"} => task[s].at \in {"gates", "send"}
        BY <1>3, <3>2 DEF Path
      <4>2. QED
        BY <2>1, <3>1, <4>1 DEF OrderInv, SeenEmpty
    <3>3. CASE /\ held[terminal][s] = 0
               /\ task' = [task EXCEPT ![s].at = "gates", ![s].seen = terminal]
      <4>1. task \in [Symbols -> TaskState] /\ task[s] \in TaskState
        BY <1>0 DEF TypeOK
      <4>2. task'[s].seen = terminal
        BY <3>3, <4>1 DEF TaskState
      <4>3. QED
        BY <1>0, <2>1, <3>1, <3>3, <4>2
    <3>4. QED
      BY <1>7, <3>2, <3>3 DEF Advances
  <2>3. CASE task[s].at = "lock"
    <3>1. /\ \A u \in Symbols : u # s => task[u].at \notin Locked
          /\ \A u \in Symbols : desk[u].at = "idle"
      BY <1>7, <2>3 DEF Advances, ExecutionLockFree, Locked
    <3>2. task'[s].at = "account"
      BY <1>3, <1>7, <2>3 DEF Advances, Path
    <3>3. QED
      BY <2>1, <3>1, <3>2
  <2>4. CASE task[s].at \notin Locked \cup {"lock"}
    <3>1. task'[s].at \notin Locked
      BY <1>3, <1>7, <2>4 DEF Advances, Path, Locked
    <3>2. QED
      BY <1>1, <2>0, <3>1
  <2>5. QED
    BY <2>2, <2>3, <2>4
<1>8. QED
  BY <1>0, <1>4, <1>5, <1>6, <1>7, TaskKinds

LEMMA OrderStep == TypeInv /\ OrderInv /\ [Next]_vars => OrderInv'
<1> SUFFICES ASSUME TypeInv, OrderInv, [Next]_vars PROVE OrderInv'
  OBVIOUS
<1>0. TypeOK /\ Sound /\ NoTask.at = "idle" /\ "idle" \notin Locked
  BY RecordsTyped DEF TypeInv, Locked
<1>1. ASSUME NEW s \in Symbols, ScanStep(s) PROVE OrderInv'
  <2>1. UNCHANGED <<held, blind, desk>>
    BY <1>1, ScanTyped DEF broker, ghosts
  <2>2. \A u \in Symbols : task'[u] = task[u] \/ task'[u].at \notin Locked
    BY <1>0, <1>1, ScanTyped DEF Locked
  <2>3. QED
    BY <2>1, <2>2, OrderKept
<1>2. ASSUME NEW s \in Symbols, OverrideBegin(s) PROVE OrderInv'
  <2>1. /\ UNCHANGED <<held, blind, task>> /\ desk \in [Symbols -> OverrideState]
        /\ \A u \in Symbols : desk[u].at = "idle" /\ task[u].at \notin Locked
        /\ desk' = [desk EXCEPT ![s] = [at |-> "account", cand |-> cand[s], seen |-> NoAccount]]
    BY <1>0, <1>2 DEF OverrideBegin, ExecutionLockFree, Locked, TypeOK, broker, lane, ghosts
  <2>2. desk'[s].at = "account" /\ \A u \in Symbols : u # s => desk'[u].at = "idle"
    BY <2>1
  <2>3. OneHolder'
    BY <2>1, <2>2 DEF OneHolder
  <2>4. SeenEmpty'
    BY <2>1, <2>2 DEF SeenEmpty, Locked
  <2>5. OnePositionPerSymbol'
    BY <2>1 DEF OrderInv, OnePositionPerSymbol
  <2>6. QED
    BY <2>3, <2>4, <2>5 DEF OrderInv
<1>3. ASSUME NEW s \in Symbols, DeskStep(s) PROVE OrderInv'
  <2>1. task' = task /\ NoOverride.at = "idle"
    BY <1>3, DeskTyped, RecordsTyped DEF lane
  <2>2. CASE UNCHANGED <<held, blind>>
    <3>1. ASSUME NEW u \in Symbols
          PROVE  /\ desk'[u].at # "idle" => desk[u].at # "idle"
                 /\ desk'[u].at = "send" =>
                       \/ desk'[u].seen = NoAccount \/ held[desk'[u].seen][u] = 0
                       \/ desk'[u] = desk[u]
      <4>1. CASE u = s
        BY <1>3, <2>1, <2>2, <4>1, DeskTyped
      <4>2. CASE u # s
        BY <1>3, <4>2, DeskTyped
      <4>3. QED
        BY <4>1, <4>2
    <3>2. QED
      BY <2>1, <2>2, <3>1, OrderKept
  <2>3. CASE desk[s].at = "send" /\ Open(s, desk[s].seen)
    <3>1. \A u \in Symbols : task'[u].at \notin Locked /\ (u # s => desk'[u].at = "idle")
      BY <1>3, <2>1, <2>3, DeskTyped DEF OrderInv, OneHolder
    <3>2. desk'[s].at # "send"
      <4>1. OverrideSend(s) /\ desk \in [Symbols -> OverrideState] /\ desk[s] \in OverrideState
        BY <1>0, <1>3, <2>3
           DEF DeskStep, TypeOK, OverrideAccount, OverrideBar, OverrideCheck, OverrideFinish
      <4>2. OverrideEnds(s) \/ OverrideGo(s, "finish")
        BY <4>1 DEF OverrideSend
      <4>3. QED
        BY <2>1, <4>1, <4>2 DEF OverrideEnds, OverrideGo, OverrideState
    <3>3. desk[s].seen = terminal => held[terminal][s] = 0
      <4>1. terminal # NoAccount
        BY <1>0, LaneAssumption DEF TypeOK
      <4>2. QED
        BY <2>3, <4>1 DEF OrderInv, SeenEmpty
    <3>4. QED
      BY <1>0, <2>3, <3>1, <3>2, <3>3, OrderOpened
  <2>4. QED
    BY <1>3, <2>2, <2>3, DeskTyped
<1>4. ASSUME NEW p \in Probers, ProbeStep(p) PROVE OrderInv'
  <2>1. UNCHANGED <<held, blind, desk>> /\ Authority(p)
    BY <1>0, <1>4, ProbeTyped DEF broker
  <2>2. \A s \in Symbols : task'[s].at = task[s].at /\ task'[s].seen = task[s].seen
    BY <1>0, <2>1, Crossing DEF Authority, OperatorArms, Arm
  <2>3. QED
    BY <2>1, <2>2, OrderKept
<1>5. CASE Stop
  <2>1. /\ \A u \in Symbols : task'[u].at \notin Locked
        /\ desk' = desk
    BY <1>0, <1>5, StopTyped
  <2>2. CASE UNCHANGED <<held, blind>>
    BY <2>1, <2>2, OrderKept
  <2>3. ASSUME NEW s \in Symbols, task[s].at = "send", Open(s, task[s].seen) PROVE OrderInv'
    <3>1. \A u \in Symbols : desk'[u].at = "idle"
      BY <2>1, <2>3 DEF OrderInv, OneHolder, Locked
    <3>2. task[s].seen = terminal => held[terminal][s] = 0
      BY <2>3 DEF OrderInv, SeenEmpty
    <3>3. QED
      BY <1>0, <2>1, <2>3, <3>1, <3>2, OrderOpened
  <2>4. QED
    BY <1>5, <2>2, <2>3 DEF Stop
<1>6. CASE Start \/ Switched \/ Outside \/ UNCHANGED vars
  <2>1. UNCHANGED <<held, blind, desk, task>>
    <3>1. CASE Outside
      BY <1>0, <3>1, OutsideTyped DEF lane, ghosts
    <3>2. CASE Start \/ Switched \/ UNCHANGED vars
      BY <3>2 DEF Start, Switched, vars, broker, lane, ghosts
    <3>3. QED
      BY <1>6, <3>1, <3>2
  <2>2. QED
    BY <2>1, OrderKept
<1>7. CASE SeeAccount
  <2>1. UNCHANGED <<held, blind, desk>>
    BY <1>0, <1>7, SeeTyped DEF broker
  <2>2. QED
    BY <1>0, <1>7, <2>1, SeeTyped, OrderKept
<1>8. QED
  BY <1>1, <1>2, <1>3, <1>4, <1>5, <1>6, <1>7, OrderOfTask DEF Next, Outside, EngineStep

LEMMA OrderInit == Init => OrderInv
<1> SUFFICES ASSUME Init PROVE OrderInv
  OBVIOUS
<1>1. \A s \in Symbols : task[s].at = "idle" /\ desk[s].at = "idle"
  BY RecordsTyped DEF Init
<1>2. \A a \in Accounts, s \in Symbols : held[a][s] = 0
  BY DEF Init
<1>3. QED
  BY <1>1, <1>2 DEF OrderInv, OneHolder, SeenEmpty, OnePositionPerSymbol, Locked

(* Reviews and overrides, however many and however they interleave, put     *)
(* one position on a symbol of an account, unless an order went where the   *)
(* positions read did not show none (the execution lock, held from the      *)
(* reading of the positions to the reply).                                 *)
THEOREM OnePosition == Spec => []OnePositionPerSymbol
<1>1. Spec => [](TypeInv /\ OrderInv)
  BY OrderInit, TypeInit, TypeStep, OrderStep, PTL DEF Spec
<1>2. OrderInv => OnePositionPerSymbol
  BY DEF OrderInv
<1>3. QED
  BY <1>1, <1>2, PTL


(* The execution lock does what it is there for: no two reviews, no two     *)
(* overrides, and no review and override are ever between their account     *)
(* check and the reply to their order (_execution_lock).                   *)
THEOREM LockExcludes == Spec => []OneHolder
<1>1. Spec => [](TypeInv /\ OrderInv)
  BY OrderInit, TypeInit, TypeStep, OrderStep, PTL DEF Spec
<1>2. OrderInv => OneHolder
  BY DEF OrderInv
<1>3. QED
  BY <1>1, <1>2, PTL


-----------------------------------------------------------------------------
(* HeldByRecord, when nobody touches the engine: no command, no change of   *)
(* account.  What is armed comes from the record, of the one account there  *)
(* is, and a review is past its account check only with it.                *)
LeftAlone ==
    /\ prober["operator"].at = "idle" /\ \A s \in Symbols : desk[s].at = "idle"
    /\ auto # NoAccount => auto = terminal /\ terminal \in Granted
    /\ armed # NoAccount => armed = terminal /\ terminal \in Granted

Holding ==
    \A s \in Symbols :
        /\ task[s].at \in {"positions", "gates", "send"} => terminal \in Granted
        /\ task[s].at \in {"gates", "send"} => task[s].seen = terminal
        /\ \A a \in Accounts : held[a][s] > 0 => a \in Granted

Unattended == LeftAlone /\ Holding /\ blind = {}

LEMMA NoEvent ==
    ASSUME MaxEvents = 0, TypeOK
    PROVE  ~Event
BY DEF TypeOK, Event

(* Only the supervisor probes, and arms what its autonomy says.             *)
LEMMA SupervisorArms ==
    ASSUME TypeOK, LeftAlone, NEW p \in Probers, ProbeStep(p)
    PROVE  /\ prober'["operator"].at = "idle" /\ UNCHANGED task
           /\ armed' \in {armed, NoAccount, auto}
<1>1. /\ p = "supervisor" /\ prober \in [Probers -> ProberState]
  <2>1. prober["operator"].at = "idle"
    BY DEF LeftAlone
  <2>2. CASE p = "operator"
    BY <2>1, <2>2 DEF ProbeStep, Health, HealthDue, TakeProbeLock, TakeSlot, Probed, Decide
  <2>3. QED
    BY <2>2 DEF Probers, TypeOK
<1>2. ASSUME NEW r, prober' = [prober EXCEPT ![p] = r] PROVE prober'["operator"].at = "idle"
  BY <1>1, <1>2 DEF LeftAlone, Probers
<1>3. ASSUME NEW llm \in BOOLEAN, Settle(p, llm)
      PROVE  prober'["operator"].at = "idle" /\ UNCHANGED task /\ armed' \in {armed, NoAccount}
  <2>1. /\ UNCHANGED task /\ armed' \in {armed, NoAccount}
    BY <1>1, <1>3 DEF Settle, Disarm
  <2>2. \E r : prober' = [prober EXCEPT ![p] = r]
    BY <1>1, <1>3 DEF Settle
  <2>3. QED
    BY <1>2, <2>1, <2>2
<1>4. ASSUME NEW place, ProberGo(p, place) PROVE prober'["operator"].at = "idle"
  <2>1. prober' = [prober EXCEPT ![p] = [prober[p] EXCEPT !.at = place]]
    BY <1>4 DEF ProberGo
  <2>2. QED
    BY <1>2, <2>1
<1>5. CASE Health(p)
  BY <1>3, <1>4, <1>5 DEF Health
<1>6. CASE TakeProbeLock(p)
  BY <1>3, <1>4, <1>6 DEF TakeProbeLock
<1>7. CASE TakeSlot(p)
  BY <1>4, <1>7 DEF TakeSlot
<1>8. CASE Probed(p)
  <2>1. Settle(p, up) /\ up \in BOOLEAN
    BY <1>8 DEF Probed, Completes, TypeOK
  <2>2. QED
    BY <1>3, <2>1
<1>9. CASE Decide(p)
  <2>1. prober' = [prober EXCEPT ![p] = IdleProber] /\ UNCHANGED task
    BY <1>9 DEF Decide
  <2>2. armed' \in {armed, NoAccount, auto}
    BY <1>9 DEF Decide, Disarm, Arm
  <2>3. QED
    BY <1>2, <2>1, <2>2
<1>10. QED
  BY <1>5, <1>6, <1>7, <1>8, <1>9 DEF ProbeStep

(* A review takes over what its account check and its reading of positions  *)
(* have found, and opens where it has read.                                *)
LEMMA UnattendedTask ==
    ASSUME TypeInv, Unattended, NEW s \in Symbols, TaskStep(s)
    PROVE  Unattended'
<1>0. /\ TypeOK /\ TaskKept(s) /\ desk' = desk /\ prober' = prober /\ auto' = auto
      /\ terminal' = terminal /\ terminal \in Accounts
      /\ armed' \in {armed, NoAccount} /\ NoTask.at = "idle"
  BY TaskTyped, TaskKinds, RecordsTyped DEF TypeInv, TypeOK, Frame
<1>1. LeftAlone'
  BY <1>0 DEF Unattended, LeftAlone
<1>2. ASSUME UNCHANGED <<held, blind>>,
             task'[s].at \in {"positions", "gates", "send"} => terminal \in Granted,
             task'[s].at \in {"gates", "send"} => task'[s].seen = terminal
      PROVE  Unattended'
  <2>1. Holding'
    BY <1>0, <1>2 DEF Unattended, Holding, TaskKept
  <2>2. QED
    BY <1>1, <1>2, <2>1 DEF Unattended
<1>3. End(s) => task'[s].at = "idle"
  BY <1>0, EndTask
<1>4. ASSUME NEW place \in Places, Go(s, place)
      PROVE  task'[s].at = place /\ task'[s].seen = task[s].seen
  BY <1>0, <1>4, GoTask
<1>5. CASE Exhausts(s) \/ Leaves(s)
  BY <1>2, <1>3, <1>5 DEF Exhausts, Leaves
<1>6. CASE Admit(s) \/ Ask(s) \/ Answer(s) \/ Valid(s)
  <2>1. /\ UNCHANGED <<held, blind>>
        /\ End(s) \/ \E place \in {"queued", "asking", "answered", "plan"} : Go(s, place)
    BY <1>6 DEF Admit, Ask, Answer, Valid, ghosts
  <2>2. task'[s].at \notin {"positions", "gates", "send"}
    BY <1>3, <1>4, <2>1 DEF Places
  <2>3. QED
    BY <1>2, <2>1, <2>2
<1>7. CASE Sends(s)
  <2>1. task'[s].at = "idle" /\ task[s].at = "send"
    BY <1>3, <1>7 DEF Sends
  <2>2. CASE UNCHANGED <<held, blind>>
    BY <1>2, <2>1, <2>2
  <2>3. CASE Open(s, task[s].seen)
    <3>1. terminal \in Granted /\ task[s].seen = terminal
      BY <2>1 DEF Unattended, Holding
    <3>2. blind' = {}
      BY <2>3, <3>1 DEF Open, Unattended
    <3>3. ASSUME NEW u \in Symbols, NEW a \in Accounts, held'[a][u] > 0 PROVE a \in Granted
      BY <1>0, <2>3, <3>1, <3>3, OpenTyped DEF Unattended, Holding
    <3>4. Holding'
      BY <1>0, <2>1, <3>3 DEF Unattended, Holding, TaskKept
    <3>5. QED
      BY <1>1, <3>2, <3>4 DEF Unattended
  <2>4. QED
    BY <1>7, <2>2, <2>3 DEF Sends
<1>8. CASE Advances(s)
  <2>0. UNCHANGED <<held, blind>>
    BY <1>8 DEF Advances
  <2>1. CASE CheckAccount(s)
    <3>1. task'[s].at = "idle" \/ (task'[s].at = "positions" /\ terminal = armed)
      BY <1>3, <1>4, <2>1 DEF CheckAccount, Places
    <3>2. terminal # NoAccount
      BY <1>0, LaneAssumption
    <3>3. QED
      BY <1>2, <2>0, <3>1, <3>2 DEF Unattended, LeftAlone
  <2>2. CASE \E place \in Places : <<task[s].at, place>> \in Path /\ Go(s, place)
    <3>1. PICK place \in Places : <<task[s].at, place>> \in Path /\ Go(s, place)
      BY <2>2
    <3>2. CASE task[s].at = "account"
      <4>1. CheckAccount(s)
        BY <3>2 DEF TaskStep, Unconfirmed, CapitalFiltered, SetupFiltered, FastPath, Admit, Ask,
               Expire, Answer, Invalid, Valid, Declined, Defer, Proceed, Acquire, CheckPositions,
               Unpriced, RiskRefuses, Expired, Approve, Send
      <4>2. QED
        BY <2>1, <4>1
    <3>3. CASE task[s].at # "account"
      BY <1>2, <1>4, <2>0, <3>1, <3>3 DEF Path, Unattended, Holding
    <3>4. QED
      BY <3>2, <3>3
  <2>3. CASE /\ task[s].at = "positions"
             /\ task' = [task EXCEPT ![s].at = "gates", ![s].seen = terminal]
    <3>1. task \in [Symbols -> TaskState] /\ task[s] \in TaskState
      BY <1>0 DEF TypeOK
    <3>2. task'[s].seen = terminal
      BY <2>3, <3>1 DEF TaskState
    <3>3. QED
      BY <1>2, <2>0, <2>3, <3>2 DEF Unattended, Holding
  <2>4. QED
    BY <1>8, <2>2, <2>3 DEF Advances
<1>9. QED
  BY <1>0, <1>5, <1>6, <1>7, <1>8, TaskKinds

LEMMA UnattendedStep ==
    ASSUME MaxEvents = 0, TypeInv, Unattended, [Next]_vars
    PROVE  Unattended'
<1>0. TypeOK /\ ~Event
  BY NoEvent DEF TypeInv
<1>1. ASSUME UNCHANGED <<held, blind, desk, terminal>>,
             \A s \in Symbols :
                task'[s].at \in {"positions", "gates", "send"} =>
                   task'[s].at = task[s].at /\ task'[s].seen = task[s].seen
      PROVE  Holding' /\ blind' = {}
  BY <1>1 DEF Unattended, Holding
<1>2. ASSUME NEW s \in Symbols, ScanStep(s) PROVE Unattended'
  <2>1. UNCHANGED <<held, blind, desk, terminal, gate, prober>>
    BY <1>2, ScanTyped DEF TypeInv, broker, ghosts
  <2>2. \A u \in Symbols : task'[u] = task[u] \/ task'[u].at = "confirm"
    BY <1>2, ScanTyped
  <2>3. LeftAlone'
    BY <2>1 DEF Unattended, LeftAlone, gate
  <2>4. QED
    BY <1>1, <2>1, <2>2, <2>3 DEF Unattended
<1>3. ASSUME NEW p \in Probers, ProbeStep(p) PROVE Unattended'
  <2>1. UNCHANGED <<held, blind, desk, terminal, auto>>
    BY <1>0, <1>3, ProbeTyped DEF broker
  <2>2. /\ prober'["operator"].at = "idle" /\ UNCHANGED task
        /\ armed' \in {armed, NoAccount, auto}
    BY <1>0, <1>3, SupervisorArms DEF Unattended
  <2>3. LeftAlone'
    BY <2>1, <2>2 DEF Unattended, LeftAlone
  <2>4. QED
    BY <1>1, <2>1, <2>2, <2>3 DEF Unattended
<1>4. CASE Start
  <2>1. /\ UNCHANGED <<held, blind, desk, terminal, task, prober>>
        /\ armed' = NoAccount /\ auto' \in {NoAccount} \cup ({terminal} \cap Granted)
    BY <1>4 DEF Start, Disarm, broker
  <2>2. LeftAlone'
    BY <2>1 DEF Unattended, LeftAlone
  <2>3. QED
    BY <1>1, <2>1, <2>2 DEF Unattended
<1>5. CASE SeeAccount
  <2>1. /\ UNCHANGED <<held, blind, desk, terminal, prober>>
        /\ armed' = NoAccount /\ auto' = NoAccount
    BY <1>0, <1>5, SeeTyped DEF broker
  <2>2. LeftAlone'
    BY <2>1 DEF Unattended, LeftAlone
  <2>3. QED
    BY <1>0, <1>1, <1>5, <2>1, <2>2, SeeTyped DEF Unattended
<1>6. CASE Switched \/ NewCandle \/ CandleAges \/ ModelFails \/ ModelReturns \/ UNCHANGED vars
  <2>1. UNCHANGED <<held, blind, desk, terminal, gate, prober, task>>
    BY <1>6 DEF Switched, NewCandle, CandleAges, ModelFails, ModelReturns, vars, broker, lane,
                ghosts
  <2>2. LeftAlone'
    BY <2>1 DEF Unattended, LeftAlone, gate
  <2>3. QED
    BY <1>1, <2>1, <2>2 DEF Unattended
<1>7. ASSUME NEW s \in Symbols, DeskStep(s) PROVE FALSE
  BY <1>7, DeskTyped DEF TypeInv, Unattended, LeftAlone
<1>8. /\ ~ArmBegin /\ ~OperatorDisarms /\ ~Stop
      /\ \A s \in Symbols : ~OverrideBegin(s)
      /\ \A a \in Accounts : ~SwitchAccount(a)
  BY <1>0 DEF ArmBegin, OperatorDisarms, Stop, OverrideBegin, SwitchAccount
<1>9. QED
  BY <1>2, <1>3, <1>4, <1>5, <1>6, <1>7, <1>8, UnattendedTask DEF Next, EngineStep

(* An engine nobody touches, from start() on, opens positions only on an    *)
(* account whose autonomy record is persisted, and one on a symbol: neither *)
(* the model, its failures and returns nor the supervisor's locking and     *)
(* arming can add another (_autonomy_health_loop,                          *)
(* _activate_autonomous_entries).                                          *)
THEOREM UnattendedEngine ==
    ASSUME MaxEvents = 0
    PROVE  Spec => []HeldByRecord
<1>1. Init => Unattended
  <2> SUFFICES ASSUME Init PROVE Unattended
    OBVIOUS
  <2>1. LeftAlone
    BY RecordsTyped DEF Init, LeftAlone, IdleProber, Probers
  <2>2. Holding /\ blind = {}
    BY RecordsTyped DEF Init, Holding
  <2>3. QED
    BY <2>1, <2>2 DEF Unattended
<1>2. TypeInv /\ Unattended /\ [Next]_vars => Unattended'
  BY UnattendedStep
<1>3. Spec => [](TypeInv /\ OrderInv /\ Unattended)
  BY <1>1, <1>2, OrderInit, TypeInit, TypeStep, OrderStep, PTL DEF Spec
<1>4. TypeInv /\ OrderInv /\ Unattended => HeldByRecord
  <2> SUFFICES ASSUME TypeInv, OrderInv, Unattended, NEW a \in Accounts, NEW s \in Symbols
               PROVE  held[a][s] <= IF a \in Granted THEN 1 ELSE 0
    BY DEF HeldByRecord
  <2>1. held[a][s] \in Nat
    BY DEF TypeInv, TypeOK
  <2>2. held[a][s] <= 1
    BY DEF OrderInv, OnePositionPerSymbol, Unattended
  <2>3. held[a][s] > 0 => a \in Granted
    BY DEF Unattended, Holding
  <2>4. QED
    BY <2>1, <2>2, <2>3
<1>5. QED
  BY <1>3, <1>4, PTL


-----------------------------------------------------------------------------
(* OrderOnReviewedAccount.  The running reviews are of one account, the     *)
(* active one when they started; autonomy, which may arm at any moment, is  *)
(* of that account or off, and so are the armed entries of every review     *)
(* the operator has not crossed.                                           *)
OwnAccountOf(s) ==
    task[s].at # "idle" =>
       /\ auto \in {NoAccount, task[s].acct}
       /\ ~task[s].crossed => armed \in {NoAccount, task[s].acct}
OwnAccount ==
    /\ auto # NoAccount => auto = active /\ loop.at # "switching"
    /\ \A s \in Symbols : OwnAccountOf(s)

LEMMA OwnStep == TypeInv /\ OwnAccount /\ [Next]_vars => OwnAccount'
<1> SUFFICES ASSUME TypeInv, OwnAccount, [Next]_vars PROVE OwnAccount'
  OBVIOUS
<1>0. TypeOK /\ Sound /\ NoTask.at = "idle"
  BY RecordsTyped DEF TypeInv
<1>1. ASSUME NEW s \in Symbols, ScanStep(s) PROVE OwnAccount'
  <2>1. /\ loop' = loop /\ active' = active /\ auto' = auto /\ armed' = armed
        /\ loop.at = "polling"
    BY <1>1, ScanTyped DEF engine, gate, ScanStep, Scan
  <2>2. ASSUME NEW u \in Symbols PROVE OwnAccountOf(u)'
    <3>1. CASE task'[u] = task[u]
      BY <2>1, <3>1 DEF OwnAccount, OwnAccountOf
    <3>2. CASE /\ task'[u].acct = active
               /\ task'[u].crossed = (armed \notin {NoAccount, active})
      BY <2>1, <3>2 DEF OwnAccount, OwnAccountOf
    <3>3. QED
      BY <1>1, <3>1, <3>2, ScanTyped
  <2>3. QED
    BY <2>1, <2>2 DEF OwnAccount
<1>2. ASSUME NEW s \in Symbols, TaskStep(s) PROVE OwnAccount'
  <2>1. /\ loop' = loop /\ active' = active /\ auto' = auto
        /\ armed' \in {armed, NoAccount} /\ TaskKept(s)
    BY <1>0, <1>2, TaskTyped, TaskKinds DEF Frame, engine
  <2>2. ASSUME NEW u \in Symbols PROVE OwnAccountOf(u)'
    <3>1. \/ task'[u] = task[u] \/ task'[u].at = "idle"
          \/ /\ u = s /\ task'[u].acct = task[u].acct /\ task'[u].crossed = task[u].crossed
      BY <1>0, <2>1 DEF TaskKept
    <3>2. u = s => task[u].at # "idle"
      BY <1>2, TaskTyped
    <3>3. QED
      BY <2>1, <3>1, <3>2 DEF OwnAccount, OwnAccountOf
  <2>3. QED
    BY <2>1, <2>2 DEF OwnAccount
<1>3. ASSUME NEW p \in Probers, ProbeStep(p) PROVE OwnAccount'
  <2>1. loop' = loop /\ active' = active /\ auto' = auto /\ Authority(p)
    BY <1>0, <1>3, ProbeTyped DEF engine
  <2>2. CASE armed' \in {armed, NoAccount} /\ UNCHANGED task
    BY <2>1, <2>2 DEF OwnAccount, OwnAccountOf
  <2>3. CASE OperatorArms(prober[p].acct)
    <3>1. armed' = prober[p].acct
      BY <2>3 DEF OperatorArms, Arm
    <3>2. QED
      BY <1>0, <2>1, <2>3, <3>1, Crossing DEF OwnAccount, OwnAccountOf
  <2>4. CASE auto # NoAccount /\ Arm(auto) /\ UNCHANGED task
    BY <2>1, <2>4 DEF Arm, OwnAccount, OwnAccountOf
  <2>5. QED
    BY <2>1, <2>2, <2>3, <2>4 DEF Authority
<1>4. CASE Start
  <2>1. /\ \A s \in Symbols : task'[s].at = "idle"
        /\ auto' # NoAccount => auto' = active' /\ loop'.at # "switching"
    BY <1>0, <1>4 DEF Start, Sound
  <2>2. QED
    BY <2>1 DEF OwnAccount, OwnAccountOf
<1>5. CASE Stop
  BY <1>0, <1>5, StopTyped DEF OwnAccount, OwnAccountOf
<1>6. CASE SeeAccount
  BY <1>0, <1>6, SeeTyped DEF OwnAccount, OwnAccountOf
<1>7. CASE Switched
  <2>1. /\ loop.at = "switching" /\ auto' = auto /\ armed' = armed /\ task' = task
    BY <1>7 DEF Switched, gate, lane
  <2>2. QED
    BY <2>1 DEF OwnAccount, OwnAccountOf
<1>8. CASE Outside \/ UNCHANGED vars \/ \E s \in Symbols : OverrideBegin(s) \/ DeskStep(s)
  <2>1. /\ loop' = loop /\ active' = active /\ task' = task
        /\ auto' \in {auto, NoAccount} /\ armed' \in {armed, NoAccount}
    <3>1. CASE Outside
      BY <1>0, <3>1, OutsideTyped DEF engine, gate, lane
    <3>2. CASE UNCHANGED vars \/ \E s \in Symbols : OverrideBegin(s)
      BY <3>2 DEF OverrideBegin, vars, engine, gate, lane
    <3>3. CASE \E s \in Symbols : DeskStep(s)
      BY <3>3, DeskTyped DEF engine, lane
    <3>4. QED
      BY <1>8, <3>1, <3>2, <3>3
  <2>2. QED
    BY <2>1 DEF OwnAccount, OwnAccountOf
<1>9. QED
  BY <1>1, <1>2, <1>3, <1>4, <1>5, <1>6, <1>7, <1>8 DEF Next, Outside, EngineStep

(* A review opens a position only on the account it was made for, however   *)
(* late it comes to its order and whatever the terminal and the operator    *)
(* did meanwhile (the expected account the executor is given).             *)
THEOREM OrderOnItsAccount == Spec => OrderOnReviewedAccount
<1>1. Init => OwnAccount
  BY RecordsTyped DEF Init, OwnAccount, OwnAccountOf
<1>2. Spec => [](TypeInv /\ OrderInv /\ OwnAccount)
  BY <1>1, TypeInit, TypeStep, OrderInit, OrderStep, OwnStep, PTL DEF Spec
<1> DEFINE Reviewed == \A s \in Symbols :
              /\ task[s].at = "send" /\ ~task[s].crossed /\ armed # NoAccount
              /\ held'[terminal][s] > held[terminal][s]
              => task[s].acct = terminal
<1>3. TypeInv /\ OrderInv /\ OwnAccount /\ [Next]_vars => Reviewed
  <2> SUFFICES ASSUME TypeInv, OrderInv, OwnAccount, [Next]_vars, NEW s \in Symbols,
                      task[s].at = "send", ~task[s].crossed, armed # NoAccount,
                      held'[terminal][s] > held[terminal][s]
               PROVE  task[s].acct = terminal
    OBVIOUS
  <2>0. /\ TypeOK /\ terminal \in Accounts /\ held[terminal][s] \in Nat
        /\ task[s].acct = armed \/ armed = NoAccount
    BY DEF TypeInv, TypeOK, OwnAccount, OwnAccountOf
  <2>1. held' # held
    BY <2>0
  <2>2. ASSUME NEW u \in Symbols, AccountMatches(armed), Open(u, task[u].seen)
        PROVE  task[s].acct = terminal
    BY <2>0, <2>2 DEF AccountMatches
  <2>3. ASSUME NEW u \in Symbols, TaskStep(u) PROVE task[s].acct = terminal
    <3>1. AccountMatches(armed) /\ Open(u, task[u].seen)
      BY <2>0, <2>1, <2>3, TaskKinds
         DEF Exhausts, Leaves, Sends, Advances, Admit, Ask, Answer, Valid, ghosts
    <3>2. QED
      BY <2>2, <3>1
  <2>4. ASSUME NEW u \in Symbols, DeskStep(u) PROVE FALSE
    BY <2>4, DeskTyped DEF OrderInv, OneHolder, Locked
  <2>5. CASE Stop
    BY <2>1, <2>2, <2>5 DEF Stop
  <2>6. ASSUME NEW u \in Symbols, ScanStep(u) \/ OverrideBegin(u) PROVE FALSE
    BY <2>1, <2>6, ScanTyped DEF OverrideBegin, broker
  <2>7. ASSUME NEW p \in Probers, ProbeStep(p) PROVE FALSE
    BY <2>1, <2>7 DEF ProbeStep, broker
  <2>8. CASE Start \/ EngineStep \/ Outside \/ UNCHANGED vars
    <3>1. ~Outside
      BY <2>0, <2>1, OutsideTyped
    <3>2. ~(Start \/ EngineStep \/ UNCHANGED vars)
      BY <2>1 DEF Start, EngineStep, SeeAccount, Switched, vars, broker
    <3>3. QED
      BY <2>8, <3>1, <3>2
  <2>9. QED
    BY <2>3, <2>4, <2>5, <2>6, <2>7, <2>8 DEF Next, Outside
<1>4. QED
  BY <1>2, <1>3, PTL DEF Spec, OrderOnReviewedAccount
=============================================================================
