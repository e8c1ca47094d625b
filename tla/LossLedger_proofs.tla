------------------------- MODULE LossLedger_proofs -------------------------
(***************************************************************************)
(* What the loss counter, its markers and the peak balance are worth       *)
(* outside the named windows, for any accounts, positions, losses, length  *)
(* of the day, and any number of switches, crashes, resets and failures.   *)
(***************************************************************************)
EXTENDS LossLedger, TLAPS

(* A running loop works for an account, and so does a reset under way; what *)
(* it reads of a marker is a time.                                         *)
WorksForAccount ==
    /\ loop.at # "off" => loop.acct \in Accounts /\ active \in Accounts
    /\ loop.item # "peak" => loop.got \in Times
    /\ \A k \in Kinds : cmd[k].at # "idle" => cmd[k].acct \in Accounts

(* Of a record, on a day: what it counts, and its markers, after midnight   *)
(* has been dealt with.                                                    *)
CountAt(r, d) == IF r.day = d THEN r.daily ELSE 0
MarkAt(r, k, d) == IF k = "streak" \/ r.day = d THEN r.mark[k] ELSE 0

Count == CountAt(risk, Day(now))
Mark(k) == MarkAt(risk, k, Day(now))
Today(m) == IF Day(m) = Day(now) THEN m ELSE 0

(* Nothing is known of later than now...                                   *)
NotAhead ==
    /\ \A t \in Tickets : closedAt[t] <= now
    /\ \A a \in Accounts : \A k \in Kinds : saved[a][k] <= now
    /\ \A k \in Kinds : cmd[k].marker <= now
    /\ risk.day <= Day(now)

(* ...what is stored or booked are closures of the strategy...             *)
Closures == {t \in Strategy : closedAt[t] # 0}
OnlyClosures ==
    /\ \A a \in Accounts : rows[a] \subseteq Closures
    /\ booked \subseteq Closures
    /\ loop.fetched \subseteq Closures

(* ...and the loop, where it stands, has the account it works for and as    *)
(* much in its counters as that place allows.                              *)
Placed ==
    /\ loop.at \notin AtAccount =>
          loop.back # "positions" /\ loop.item = "peak" /\ ~loop.synced
    /\ loop.at \in {"account", "positions", "closures"} => loop.back = "account"
    /\ loop.at # "off" /\ loop.back # "positions" => loop.acct = active
    /\ loop.item # "peak" =>
          loop.at \in {"read", "apply"} /\ loop.back # "account" /\ ~loop.synced
    /\ loop.item = "peak" /\ loop.at \in {"read", "apply", "write"} =>
          loop.synced \/ loop.back = "begin"
    /\ loop.at = "finish" => loop.synced
    /\ loop.at \in AtAccount /\ loop.back # "account" => loop.synced \/ low
    /\ (loop.back = "positions" /\ ~loop.synced) \/ active = NoAccount =>
          Count = 0 /\ risk.peak = 0

(* The losses of the day the counter is to hold.                           *)
Own == {t \in Strategy : OwnerOf[t] = RiskOwner}
Owed == LossesAfter(Own, Mark("daily"))

NothingMissing ==
    ~low => /\ Count >= Total(Owed \cap booked)
            /\ loop.at # "sync" => Count >= Total(Owed \cap rows[RiskOwner])

NothingTwice ==
    ~high => Count <= Total(Owed \cap (booked \cup rows[RiskOwner]))

PeakStored ==
    ~carried => /\ RiskOwner \in Accounts => risk.peak <= Highest(RiskOwner)
                /\ \A a \in Accounts : savedPeak[a] <= Highest(a)
                /\ loop.at = "apply" /\ loop.item = "peak" => loop.got <= Highest(loop.acct)

(* What a read of the cached peak returned, until it is written back.      *)
PeakRead ==
    /\ (loop.at = "apply" /\ loop.item = "peak") \/ loop.at = "write" =>
          loop.got \in {0, savedPeak[loop.acct]}
    /\ loop.at = "write" => risk.peak >= loop.got

DeferredKnown ==
    /\ loop.at = "store" => dropped \subseteq loop.fetched
    /\ loop.at = "sync" \/ loop.synced => dropped \subseteq rows[loop.acct]
    /\ ready /\ loop.at \in {"account", "positions", "closures"} => dropped \subseteq rows[active]

(* The markers of the owner, as cached: at a start, and after a crash, they  *)
(* may still have to be restored one after the other, and a reset may be    *)
(* about to change them.                                                    *)
Stored(k) == IF RiskOwner \in Accounts THEN saved[RiskOwner][k] ELSE 0
Applying(k) == cmd[k].at = "applying"
CachedFirst == \A k \in Kinds : Applying(k) => saved[cmd[k].acct][k] = cmd[k].marker
AllPending == loop.at = "off" \/ loop.item = "daily"
SomePending == loop.at = "off" \/ loop.item # "peak"
DailyIsStored ==
    \/ Mark("daily") = Today(Stored("daily"))
    \/ AllPending /\ Mark("daily") = 0
CooldownIsStored ==
    \/ Mark("cooldown") = Greater(Today(Stored("daily")), Today(Stored("cooldown")))
    \/ AllPending /\ Mark("cooldown") = 0
    \/ loop.item = "cooldown" /\ Mark("cooldown") = Today(Stored("daily"))
StreakIsStored ==
    \/ Mark("streak") = Stored("streak")
    \/ SomePending /\ Mark("streak") = 0
MarksStored ==
    ~strayed =>
        /\ ~Applying("daily") => DailyIsStored
        /\ ~Applying("daily") /\ ~Applying("cooldown") => CooldownIsStored
        /\ ~Applying("streak") => StreakIsStored
        /\ active = NoAccount => \A k \in Kinds : Mark(k) = 0

TypeInv == TypeOK /\ WorksForAccount
Base == TypeInv /\ NotAhead /\ OnlyClosures /\ Placed

-----------------------------------------------------------------------------
(* Days and records of the right type.                                     *)
LEMMA DayTyped ==
    ASSUME NEW t \in Nat
    PROVE  Day(t) \in Nat
BY LedgerAssumption DEF Day

LEMMA DayMonotonic ==
    ASSUME NEW t \in Nat, NEW u \in Nat, t <= u
    PROVE  Day(t) <= Day(u)
BY LedgerAssumption DEF Day

LEMMA TodayTyped ==
    ASSUME TypeOK
    PROVE  Day(now) \in Nat /\ now \in Times /\ now \in Nat
<1>1. now \in Nat /\ now \in Times
  BY LedgerAssumption DEF TypeOK, Times
<1>2. QED
  BY <1>1, DayTyped

LEMMA LossesTyped ==
    ASSUME NEW S \in SUBSET Tickets, NEW m
    PROVE  /\ LossesAfter(S, m) \in SUBSET S
           /\ Total(LossesAfter(S, m)) \in Nat
<1>1. LossesAfter(S, m) \in SUBSET S
  BY DEF LossesAfter
<1>2. QED
  BY <1>1, TotalAssumption

LEMMA BlankTyped ==
    /\ Blank \in RiskState /\ Blank.peak = 0 /\ Blank.daily = 0 /\ Blank.mark = NoMarks
    /\ \A d : CountAt(Blank, d) = 0
    /\ \A d : \A k \in Kinds : MarkAt(Blank, k, d) = 0
BY LedgerAssumption DEF Blank, RiskState, NoMarks, NoDay, Times, CountAt, MarkAt

LEMMA RolledTyped ==
    ASSUME NEW r \in RiskState, NEW d \in Nat
    PROVE  /\ Rolled(r, d) \in RiskState
           /\ Rolled(r, d).day = d
           /\ Rolled(r, d).peak = r.peak
           /\ Rolled(r, d).daily = CountAt(r, d)
           /\ \A k \in Kinds : Rolled(r, d).mark[k] = MarkAt(r, k, d)
<1>1. r.daily \in Nat /\ r.day \in Nat \cup {NoDay} /\ r.mark \in [Kinds -> Times] /\ r.peak \in Nat
  BY DEF RiskState
<1>2. CASE r.day = d
  BY <1>1, <1>2 DEF Rolled, CountAt, MarkAt
<1>3. CASE r.day # d
  <2> DEFINE m == [r.mark EXCEPT !["daily"] = 0, !["cooldown"] = 0]
  <2>1. /\ m \in [Kinds -> Times] /\ m["daily"] = 0 /\ m["cooldown"] = 0
        /\ m["streak"] = r.mark["streak"]
    BY <1>1, LedgerAssumption DEF Kinds, Times
  <2>2. Rolled(r, d) = [r EXCEPT !.daily = 0, !.day = d, !.mark = m]
    BY <1>3 DEF Rolled
  <2> HIDE DEF m
  <2> DEFINE q == Rolled(r, d)
  <2>3. q = [r EXCEPT !.daily = 0, !.day = d, !.mark = m]
    BY <2>2
  <2> HIDE DEF q
  <2>4. q \in RiskState /\ q.day = d /\ q.peak = r.peak /\ q.daily = 0 /\ q.mark = m
    BY <2>1, <2>3 DEF RiskState
  <2>5. \A k \in Kinds : m[k] = MarkAt(r, k, d)
    BY <1>3, <2>1 DEF MarkAt, Kinds
  <2>6. CountAt(r, d) = 0
    BY <1>3 DEF CountAt
  <2>7. QED
    BY <2>4, <2>5, <2>6 DEF q
<1>4. QED
  BY <1>2, <1>3

LEMMA RaisedTyped ==
    ASSUME NEW r \in RiskState, NEW b \in Nat
    PROVE  /\ Raised(r, b) \in RiskState
           /\ Raised(r, b).day = r.day
           /\ Raised(r, b).daily = r.daily
           /\ Raised(r, b).mark = r.mark
           /\ Raised(r, b).peak = Greater(r.peak, b)
           /\ Greater(r.peak, b) \in Nat
BY DEF Raised, RiskState, Greater

(* A restored record: the markers of today, where there are any.           *)
LEMMA RestoreDailyTyped ==
    ASSUME TypeOK, NEW r \in RiskState, NEW m \in Times
    PROVE  LET q == RestoreDaily(r, m)
               d == Day(now)
           IN  /\ q \in RiskState /\ q.peak = r.peak
               /\ q.day \in {r.day, d}
               /\ \/ CountAt(q, d) = 0
                  \/ CountAt(q, d) = CountAt(r, d) /\ MarkAt(q, "daily", d) = MarkAt(r, "daily", d)
               /\ Today(m) = 0 => CountAt(q, d) = CountAt(r, d)
               /\ MarkAt(q, "daily", d) = IF Today(m) # 0 THEN m ELSE MarkAt(r, "daily", d)
               /\ MarkAt(q, "cooldown", d) = IF Today(m) # 0 THEN m ELSE MarkAt(r, "cooldown", d)
               /\ MarkAt(q, "streak", d) = MarkAt(r, "streak", d)
<1> DEFINE d == Day(now)  q == RestoreDaily(r, m)  w == Rolled(r, d)
<1>1. d \in Nat
  BY TodayTyped
<1>2. /\ w \in RiskState /\ w.day = d /\ w.peak = r.peak /\ w.daily = CountAt(r, d)
      /\ \A k \in Kinds : w.mark[k] = MarkAt(r, k, d)
  BY <1>1, RolledTyped
<1> HIDE DEF w
<1>3. CASE m = 0
  BY <1>3 DEF RestoreDaily, Today
<1>4. CASE m # 0 /\ Day(m) # d
  <2>1. q = w
    BY <1>4 DEF RestoreDaily, RolledNow, w
  <2>2. QED
    BY <1>2, <1>4, <2>1 DEF Today, CountAt, MarkAt, Kinds
<1>5. CASE m # 0 /\ Day(m) = d
  <2> DEFINE n == [w.mark EXCEPT !["daily"] = m, !["cooldown"] = m]
  <2>1. w.mark \in [Kinds -> Times]
    BY <1>2 DEF RiskState
  <2>2. /\ n \in [Kinds -> Times] /\ n["daily"] = m /\ n["cooldown"] = m
        /\ n["streak"] = w.mark["streak"]
    BY <2>1 DEF Kinds
  <2>3. q = [w EXCEPT !.daily = 0, !.mark = n]
    BY <1>5 DEF RestoreDaily, RolledNow, w
  <2> HIDE DEF n, q
  <2>4. q \in RiskState /\ q.day = d /\ q.peak = r.peak /\ q.daily = 0 /\ q.mark = n
    BY <1>2, <2>2, <2>3 DEF RiskState
  <2>5. QED
    BY <1>2, <1>5, <2>2, <2>4 DEF q, Today, CountAt, MarkAt, Kinds
<1>6. QED
  BY <1>3, <1>4, <1>5

LEMMA RestoreCooldownTyped ==
    ASSUME TypeOK, NEW r \in RiskState, NEW m \in Times
    PROVE  LET q == RestoreCooldown(r, m)
               d == Day(now)
           IN  /\ q \in RiskState /\ q.peak = r.peak
               /\ q.day \in {r.day, d}
               /\ CountAt(q, d) = CountAt(r, d)
               /\ MarkAt(q, "daily", d) = MarkAt(r, "daily", d)
               /\ MarkAt(q, "cooldown", d) = Greater(Today(m), MarkAt(r, "cooldown", d))
               /\ MarkAt(q, "streak", d) = MarkAt(r, "streak", d)
<1> DEFINE d == Day(now)  q == RestoreCooldown(r, m)  w == Rolled(r, d)
<1>1. d \in Nat
  BY TodayTyped
<1>2. /\ w \in RiskState /\ w.day = d /\ w.peak = r.peak /\ w.daily = CountAt(r, d)
      /\ \A k \in Kinds : w.mark[k] = MarkAt(r, k, d)
  BY <1>1, RolledTyped
<1>3. /\ MarkAt(r, "cooldown", d) \in Nat
      /\ Greater(0, MarkAt(r, "cooldown", d)) = MarkAt(r, "cooldown", d)
      /\ Greater(m, MarkAt(r, "cooldown", d)) \in Times
      /\ w.mark["cooldown"] = MarkAt(r, "cooldown", d)
  <2>1. w.mark["cooldown"] \in Times /\ w.mark["cooldown"] = MarkAt(r, "cooldown", d)
    BY <1>2 DEF RiskState, Kinds
  <2> HIDE DEF w
  <2>2. QED
    BY <2>1 DEF Greater, Times
<1> HIDE DEF w
<1>4. CASE m = 0
  BY <1>3, <1>4 DEF RestoreCooldown, Today
<1>5. CASE m # 0 /\ Day(m) # d
  <2>1. q = w
    BY <1>5 DEF RestoreCooldown, RolledNow, w
  <2>2. QED
    BY <1>2, <1>3, <1>5, <2>1 DEF Today, CountAt, MarkAt, Kinds
<1>6. CASE m # 0 /\ Day(m) = d
  <2> DEFINE n == [w.mark EXCEPT !["cooldown"] = Greater(m, w.mark["cooldown"])]
  <2>1. w.mark \in [Kinds -> Times]
    BY <1>2 DEF RiskState
  <2>2. /\ n \in [Kinds -> Times] /\ n["daily"] = w.mark["daily"]
        /\ n["cooldown"] = Greater(m, MarkAt(r, "cooldown", d))
        /\ n["streak"] = w.mark["streak"]
    BY <2>1, <1>3 DEF Kinds
  <2>3. q = [w EXCEPT !.mark = n]
    BY <1>6 DEF RestoreCooldown, RolledNow, w
  <2> HIDE DEF n, q
  <2>4. q \in RiskState /\ q.day = d /\ q.peak = r.peak /\ q.daily = w.daily /\ q.mark = n
    BY <1>2, <2>2, <2>3 DEF RiskState
  <2>5. QED
    BY <1>2, <1>6, <2>2, <2>4 DEF q, Today, CountAt, MarkAt, Kinds
<1>7. QED
  BY <1>4, <1>5, <1>6

LEMMA RestoreStreakTyped ==
    ASSUME NEW r \in RiskState, NEW m \in Times, NEW d
    PROVE  LET q == RestoreStreak(r, m)
           IN  /\ q \in RiskState /\ q.peak = r.peak /\ q.day = r.day
               /\ CountAt(q, d) = CountAt(r, d)
               /\ MarkAt(q, "daily", d) = MarkAt(r, "daily", d)
               /\ MarkAt(q, "cooldown", d) = MarkAt(r, "cooldown", d)
               /\ MarkAt(q, "streak", d) = IF m # 0 THEN m ELSE MarkAt(r, "streak", d)
<1> DEFINE n == [r.mark EXCEPT !["streak"] = m]  q == RestoreStreak(r, m)
<1>1. r.mark \in [Kinds -> Times]
  BY DEF RiskState
<1>2. /\ n \in [Kinds -> Times] /\ n["daily"] = r.mark["daily"]
      /\ n["cooldown"] = r.mark["cooldown"] /\ n["streak"] = m
  BY <1>1 DEF Kinds
<1>3. CASE m = 0
  BY <1>3 DEF RestoreStreak
<1>4. CASE m # 0
  <2>1. q = [r EXCEPT !.mark = n]
    BY <1>4 DEF RestoreStreak
  <2> HIDE DEF n, q
  <2>2. q \in RiskState /\ q.day = r.day /\ q.peak = r.peak /\ q.daily = r.daily /\ q.mark = n
    BY <1>2, <2>1 DEF RiskState
  <2>3. QED
    BY <1>2, <1>4, <2>2 DEF q, CountAt, MarkAt
<1>5. QED
  BY <1>3, <1>4

LEMMA RestoredTyped ==
    ASSUME TypeOK, NEW r \in RiskState, NEW k \in Kinds, NEW m \in Times
    PROVE  LET q == RestoredMark(r, k, m)
               d == Day(now)
           IN  /\ q \in RiskState /\ q.peak = r.peak
               /\ q.day \in {r.day, d}
               /\ \/ CountAt(q, d) = 0
                  \/ CountAt(q, d) = CountAt(r, d) /\ MarkAt(q, "daily", d) = MarkAt(r, "daily", d)
               /\ k # "daily" \/ Today(m) = 0 => CountAt(q, d) = CountAt(r, d)
               /\ MarkAt(q, "daily", d)
                     = IF k = "daily" /\ Today(m) # 0 THEN m ELSE MarkAt(r, "daily", d)
               /\ MarkAt(q, "cooldown", d)
                     = IF k = "daily" /\ Today(m) # 0 THEN m
                       ELSE IF k = "cooldown" THEN Greater(Today(m), MarkAt(r, "cooldown", d))
                       ELSE MarkAt(r, "cooldown", d)
               /\ MarkAt(q, "streak", d)
                     = IF k = "streak" /\ m # 0 THEN m ELSE MarkAt(r, "streak", d)
<1>1. CASE k = "daily"
  <2>1. RestoredMark(r, k, m) = RestoreDaily(r, m)
    BY <1>1 DEF RestoredMark
  <2>2. QED
    BY <1>1, <2>1, RestoreDailyTyped
<1>2. CASE k = "cooldown"
  <2>1. RestoredMark(r, k, m) = RestoreCooldown(r, m)
    BY <1>2 DEF RestoredMark
  <2>2. QED
    BY <1>2, <2>1, RestoreCooldownTyped
<1>3. CASE k = "streak"
  <2>1. RestoredMark(r, k, m) = RestoreStreak(r, m)
    BY <1>3 DEF RestoredMark
  <2>2. QED
    BY <1>3, <2>1, RestoreStreakTyped
<1>4. QED
  BY <1>1, <1>2, <1>3 DEF Kinds

(* A record rolled to a day once more is what it was on that day.          *)
LEMMA RolledAgain ==
    ASSUME NEW r \in RiskState, NEW d \in Nat
    PROVE  LET q == Rolled(r, d)
           IN  /\ CountAt(q, d) = CountAt(r, d)
               /\ \A k \in Kinds : MarkAt(q, k, d) = MarkAt(r, k, d)
BY RolledTyped DEF CountAt, MarkAt

(* What an operator's reset leaves, once it has been looked at.            *)
LEMMA ResetTyped ==
    ASSUME TypeOK, NEW r \in RiskState, NEW m \in Times, NEW k \in Kinds
    PROVE  LET q == RolledNow(Reset(r, k, m))
               d == Day(now)
           IN  /\ q \in RiskState /\ q.peak = r.peak /\ q.day = d
               /\ k = "daily" => CountAt(q, d) = 0
               /\ CountAt(q, d) # 0 =>
                     CountAt(q, d) = CountAt(r, d) /\ MarkAt(q, "daily", d) = MarkAt(r, "daily", d)
               /\ k = "streak" \/ (k = "cooldown" /\ Day(m) = d) =>
                     CountAt(q, d) = CountAt(r, d) /\ MarkAt(q, "daily", d) = MarkAt(r, "daily", d)
               /\ k = "daily" /\ Day(m) = d => MarkAt(q, "daily", d) = m
               /\ k # "streak" /\ Day(m) = d => MarkAt(q, "cooldown", d) = m
               /\ k = "streak" => MarkAt(q, "cooldown", d) = MarkAt(r, "cooldown", d)
               /\ MarkAt(q, "streak", d) = IF k = "streak" THEN m ELSE MarkAt(r, "streak", d)
<1> DEFINE d == Day(now)  e == Day(m)  w == Rolled(r, e)  p == Reset(r, k, m)  q == RolledNow(p)
<1>1. d \in Nat /\ e \in Nat
  BY TodayTyped, DayTyped DEF Times
<1>2. /\ w \in RiskState /\ w.day = e /\ w.peak = r.peak /\ w.daily = CountAt(r, e)
      /\ \A j \in Kinds : w.mark[j] = MarkAt(r, j, e)
  BY <1>1, RolledTyped
<1>3. w.mark \in [Kinds -> Times] /\ r.mark \in [Kinds -> Times]
  BY <1>2 DEF RiskState
<1> HIDE DEF w
<1>4. CASE k = "daily"
  <2> DEFINE n == [w.mark EXCEPT !["daily"] = m, !["cooldown"] = m]
  <2>1. /\ n \in [Kinds -> Times] /\ n["daily"] = m /\ n["cooldown"] = m
        /\ n["streak"] = w.mark["streak"]
    BY <1>3 DEF Kinds
  <2>2. p = [w EXCEPT !.daily = 0, !.mark = n]
    BY <1>4 DEF Reset, w
  <2> HIDE DEF n, p
  <2>3. p \in RiskState /\ p.day = e /\ p.peak = r.peak /\ p.daily = 0 /\ p.mark = n
    BY <1>2, <2>1, <2>2 DEF RiskState
  <2>4. /\ q \in RiskState /\ q.day = d /\ q.peak = r.peak /\ q.daily = CountAt(p, d)
        /\ \A j \in Kinds : q.mark[j] = MarkAt(p, j, d)
    BY <1>1, <2>3, RolledTyped DEF RolledNow
  <2> HIDE DEF q
  <2>5. CountAt(q, d) = 0
    BY <2>3, <2>4 DEF CountAt
  <2>6. e = d => MarkAt(q, "daily", d) = m /\ MarkAt(q, "cooldown", d) = m
    BY <2>1, <2>3, <2>4 DEF MarkAt, Kinds
  <2>7. MarkAt(q, "streak", d) = MarkAt(r, "streak", d)
    BY <1>2, <2>1, <2>3, <2>4 DEF MarkAt, Kinds
  <2>8. QED
    BY <1>4, <2>4, <2>5, <2>6, <2>7 DEF q, p
<1>5. CASE k = "cooldown"
  <2> DEFINE n == [w.mark EXCEPT !["cooldown"] = m]
  <2>1. /\ n \in [Kinds -> Times] /\ n["daily"] = w.mark["daily"] /\ n["cooldown"] = m
        /\ n["streak"] = w.mark["streak"]
    BY <1>3 DEF Kinds
  <2>2. p = [w EXCEPT !.mark = n]
    BY <1>5 DEF Reset, w
  <2> HIDE DEF n, p
  <2>3. p \in RiskState /\ p.day = e /\ p.peak = r.peak /\ p.daily = CountAt(r, e) /\ p.mark = n
    BY <1>2, <2>1, <2>2 DEF RiskState
  <2>4. /\ q \in RiskState /\ q.day = d /\ q.peak = r.peak /\ q.daily = CountAt(p, d)
        /\ \A j \in Kinds : q.mark[j] = MarkAt(p, j, d)
    BY <1>1, <2>3, RolledTyped DEF RolledNow
  <2> HIDE DEF q
  <2>5. CASE e = d
    <3>1. CountAt(q, d) = CountAt(r, d)
      BY <2>3, <2>4, <2>5 DEF CountAt
    <3>2. MarkAt(q, "daily", d) = MarkAt(r, "daily", d)
      BY <1>2, <2>1, <2>3, <2>4, <2>5 DEF MarkAt, Kinds
    <3>3. MarkAt(q, "cooldown", d) = m /\ MarkAt(q, "streak", d) = MarkAt(r, "streak", d)
      BY <1>2, <2>1, <2>3, <2>4, <2>5 DEF MarkAt, Kinds
    <3>4. QED
      BY <1>5, <2>4, <2>5, <3>1, <3>2, <3>3 DEF q, p
  <2>6. CASE e # d
    <3>1. CountAt(q, d) = 0
      BY <2>3, <2>4, <2>6 DEF CountAt
    <3>2. MarkAt(q, "streak", d) = MarkAt(r, "streak", d)
      BY <1>2, <2>1, <2>3, <2>4, <2>6 DEF MarkAt, Kinds
    <3>3. QED
      BY <1>5, <2>4, <2>6, <3>1, <3>2 DEF q, p
  <2>7. QED
    BY <2>5, <2>6
<1>6. CASE k = "streak"
  <2> DEFINE n == [r.mark EXCEPT !["streak"] = m]
  <2>1. /\ n \in [Kinds -> Times] /\ n["daily"] = r.mark["daily"]
        /\ n["cooldown"] = r.mark["cooldown"] /\ n["streak"] = m
    BY <1>3 DEF Kinds
  <2>2. p = [r EXCEPT !.mark = n]
    BY <1>6 DEF Reset
  <2> HIDE DEF n, p
  <2>3. p \in RiskState /\ p.day = r.day /\ p.peak = r.peak /\ p.daily = r.daily /\ p.mark = n
    BY <2>1, <2>2 DEF RiskState
  <2>4. /\ q \in RiskState /\ q.day = d /\ q.peak = r.peak /\ q.daily = CountAt(p, d)
        /\ \A j \in Kinds : q.mark[j] = MarkAt(p, j, d)
    BY <1>1, <2>3, RolledTyped DEF RolledNow
  <2> HIDE DEF q
  <2>5. CountAt(q, d) = CountAt(r, d)
    BY <2>3, <2>4 DEF CountAt
  <2>6. /\ MarkAt(q, "daily", d) = MarkAt(r, "daily", d)
        /\ MarkAt(q, "cooldown", d) = MarkAt(r, "cooldown", d)
        /\ MarkAt(q, "streak", d) = m
    BY <2>1, <2>3, <2>4 DEF MarkAt, Kinds
  <2>7. QED
    BY <1>6, <2>4, <2>5, <2>6 DEF q, p
<1>7. QED
  BY <1>4, <1>5, <1>6 DEF Kinds

LEMMA RecordedTyped ==
    ASSUME NEW r \in RiskState, NEW loss \in Nat, NEW b \in Nat
    PROVE  LET q == Recorded(r, loss, b)
           IN  /\ q \in RiskState /\ q.day = r.day /\ q.mark = r.mark
               /\ q.daily = r.daily + loss
               /\ q.peak = Greater(r.peak, b)
<1> DEFINE p == [r EXCEPT !.daily = @ + loss]
<1>1. p \in RiskState /\ p.day = r.day /\ p.mark = r.mark /\ p.daily = r.daily + loss
      /\ p.peak = r.peak
  BY DEF RiskState
<1> HIDE DEF p
<1>2. Raised(p, b) = Recorded(r, loss, b)
  BY DEF Recorded, p
<1>3. QED
  BY <1>1, <1>2, RaisedTyped

(* What synchronize_closed_trades counts.                                  *)
LEMMA SynchronizedTyped ==
    ASSUME TypeOK, NEW r \in RiskState, NEW history \in SUBSET Tickets, NEW b \in Nat
    PROVE  LET q == Synchronized(r, history, b)
               d == Day(now)
           IN  /\ q \in RiskState /\ q.day = d
               /\ q.peak = Greater(r.peak, b)
               /\ \A k \in Kinds : q.mark[k] = MarkAt(r, k, d)
               /\ q.daily = Greater(CountAt(r, d),
                                    Total(LossesAfter(history, MarkAt(r, "daily", d))))
<1> DEFINE d == Day(now)  w == RolledNow(r)
           seen == Total(LossesAfter(history, w.mark["daily"]))
           p == [w EXCEPT !.daily = Greater(w.daily, seen)]
<1>1. /\ w \in RiskState /\ w.day = d /\ w.peak = r.peak /\ w.daily = CountAt(r, d)
      /\ \A k \in Kinds : w.mark[k] = MarkAt(r, k, d)
  BY TodayTyped, RolledTyped DEF RolledNow
<1>2. Raised(p, b) = Synchronized(r, history, b)
  BY DEF Synchronized
<1>3. seen \in Nat
  BY LossesTyped
<1>4. seen = Total(LossesAfter(history, MarkAt(r, "daily", d)))
  BY <1>1 DEF Kinds
<1> HIDE DEF seen, w
<1>5. Greater(w.daily, seen) \in Nat
  BY <1>1, <1>3 DEF Greater, RiskState
<1>6. p \in RiskState /\ p.day = d /\ p.peak = r.peak /\ p.mark = w.mark
      /\ p.daily = Greater(w.daily, seen)
  BY <1>1, <1>5 DEF RiskState
<1> HIDE DEF p
<1> DEFINE q == Raised(p, b)
<1>7. q \in RiskState /\ q.day = d /\ q.peak = Greater(r.peak, b) /\ q.mark = w.mark
      /\ q.daily = Greater(w.daily, seen)
  <2>1. /\ Raised(p, b) \in RiskState /\ Raised(p, b).day = p.day
        /\ Raised(p, b).daily = p.daily /\ Raised(p, b).mark = p.mark
        /\ Raised(p, b).peak = Greater(p.peak, b)
    BY <1>6, RaisedTyped
  <2> HIDE DEF q
  <2>2. QED
    BY <1>6, <2>1 DEF q
<1> HIDE DEF q
<1>8. q.daily = Greater(CountAt(r, d), Total(LossesAfter(history, MarkAt(r, "daily", d))))
  BY <1>1, <1>4, <1>7
<1>9. \A k \in Kinds : q.mark[k] = MarkAt(r, k, d)
  BY <1>1, <1>7
<1>10. q = Synchronized(r, history, b)
  BY <1>2 DEF q
<1>11. QED
  BY <1>7, <1>8, <1>9, <1>10

-----------------------------------------------------------------------------
(* Types.                                                                  *)
LEMMA GreaterTyped ==
    ASSUME NEW m \in Nat, NEW n \in Nat
    PROVE  Greater(m, n) \in Nat /\ m <= Greater(m, n) /\ n <= Greater(m, n)
BY DEF Greater

LEMMA RecordsTyped ==
    /\ Off \in LoopState /\ Off.at = "off" /\ Off.back = "begin"
    /\ Off.item = "peak" /\ Off.synced = FALSE
    /\ NoCommand \in Command /\ NoCommand.at = "idle" /\ NoCommand.marker = 0
BY LedgerAssumption
   DEF Off, LoopState, Places, Returns, Items, NoCommand, Command, Times

LEMMA ReadinessTyped ==
    ASSUME TypeOK, NEW r \in RiskState
    PROVE  /\ Readiness(r) \in RiskState
           /\ Readiness(r).peak = r.peak
           /\ Readiness(r).day = Day(now)
           /\ CountAt(Readiness(r), Day(now)) = CountAt(r, Day(now))
           /\ \A k \in Kinds : MarkAt(Readiness(r), k, Day(now)) = MarkAt(r, k, Day(now))
BY TodayTyped, RolledTyped, RolledAgain DEF Readiness, RolledNow

(* What the return of a reconciliation changes.                            *)
LEMMA ReturnTyped ==
    ASSUME TypeInv, loop.at # "off", NEW r \in RiskState, Return(r)
    PROVE  /\ loop' \in LoopState
           /\ loop'.at \in {"positions", "account"} /\ loop'.back = "account"
           /\ loop'.acct = loop.acct /\ active' = loop.acct
           /\ loop'.item = loop.item /\ loop'.got = loop.got /\ loop'.synced = FALSE
           /\ risk' \in RiskState
           /\ risk'.day \in {r.day, Day(now)}
           /\ risk'.peak \in {r.peak, Greater(r.peak, BalanceOf[loop.acct])}
           /\ CountAt(risk', Day(now)) = CountAt(r, Day(now))
           /\ \A k \in Kinds : MarkAt(risk', k, Day(now)) = MarkAt(r, k, Day(now))
<1>1. loop \in LoopState /\ loop.acct \in Accounts
  BY DEF TypeInv, TypeOK, WorksForAccount
<1>2. /\ loop' \in LoopState
      /\ loop'.at \in {"positions", "account"} /\ loop'.back = "account"
      /\ loop'.acct = loop.acct
      /\ loop'.item = loop.item /\ loop'.got = loop.got /\ loop'.synced = FALSE
  BY <1>1 DEF Return, LoopState, Places, Returns
<1>3. active' = loop.acct
  BY DEF Return
<1>4. CASE loop.back = "positions"
  <2>1. risk' = Raised(r, BalanceOf[loop.acct]) /\ BalanceOf[loop.acct] \in Nat
    BY <1>1, <1>4, LedgerAssumption DEF Return
  <2>2. /\ risk' \in RiskState /\ risk'.day = r.day /\ risk'.daily = r.daily
        /\ risk'.mark = r.mark /\ risk'.peak = Greater(r.peak, BalanceOf[loop.acct])
    BY <2>1, RaisedTyped
  <2>3. QED
    BY <1>2, <1>3, <2>2 DEF CountAt, MarkAt
<1>5. CASE loop.back # "positions"
  <2>1. risk' = Readiness(r)
    BY <1>5 DEF Return
  <2>2. QED
    BY <1>2, <1>3, <2>1, ReadinessTyped DEF TypeInv
<1>6. QED
  BY <1>4, <1>5

LEMMA TypeInit == Init => TypeInv
<1> SUFFICES ASSUME Init PROVE TypeInv
  OBVIOUS
<1>1. 1 \in 1..MaxTime /\ {0, 1} \subseteq Times
  BY LedgerAssumption DEF Times
<1>2. closedAt \in [Tickets -> Times] /\ saved \in [Accounts -> [Kinds -> Times]]
  BY <1>1 DEF Init, NoMarks
<1>3. cmd \in [Kinds -> Command] /\ loop \in LoopState /\ risk \in RiskState
  BY RecordsTyped, BlankTyped DEF Init
<1>4. /\ terminal \in Accounts /\ now \in 1..MaxTime /\ active \in Accounts \cup {NoAccount}
      /\ known \subseteq Tickets /\ events \in 0..MaxEvents
      /\ rows \in [Accounts -> SUBSET Tickets] /\ savedPeak \in [Accounts -> Nat]
  BY <1>1, LedgerAssumption DEF Init
<1>5. TypeOK
  BY <1>2, <1>3, <1>4 DEF Init, TypeOK
<1>6. WorksForAccount
  BY RecordsTyped DEF Init, WorksForAccount
<1>7. QED
  BY <1>5, <1>6 DEF TypeInv

LEMMA TypeStep == TypeInv /\ [Next]_vars => TypeInv'
<1> SUFFICES ASSUME TypeInv, [Next]_vars PROVE TypeInv'
  OBVIOUS
<1> USE DEF broker, database, ghosts
<1>0. /\ terminal \in Accounts /\ now \in 1..MaxTime /\ closedAt \in [Tickets -> Times]
      /\ rows \in [Accounts -> SUBSET Tickets] /\ saved \in [Accounts -> [Kinds -> Times]]
      /\ savedPeak \in [Accounts -> Nat] /\ active \in Accounts \cup {NoAccount}
      /\ known \subseteq Tickets /\ ready \in BOOLEAN /\ risk \in RiskState
      /\ loop \in LoopState /\ cmd \in [Kinds -> Command] /\ events \in 0..MaxEvents
      /\ booked \subseteq Tickets /\ dropped \subseteq Tickets
      /\ low \in BOOLEAN /\ high \in BOOLEAN /\ strayed \in BOOLEAN /\ carried \in BOOLEAN
      /\ TypeOK /\ WorksForAccount
  BY DEF TypeInv, TypeOK
<1>n. now \in Times /\ Day(now) \in Nat
  BY <1>0, TodayTyped
<1>e. Event => events' \in 0..MaxEvents
  BY <1>0, LedgerAssumption DEF Event
<1>1. CASE Tick
  <2>1. now' \in 1..MaxTime
    BY <1>0, <1>1, LedgerAssumption DEF Tick
  <2>2. QED
    BY <1>0, <1>1, <2>1 DEF Tick, TypeInv, TypeOK, WorksForAccount
<1>2. ASSUME NEW t \in Tickets, Close(t) PROVE TypeInv'
  <2>1. closedAt' \in [Tickets -> Times]
    BY <1>0, <1>2, <1>n DEF Close
  <2>2. QED
    BY <1>0, <1>2, <2>1 DEF Close, TypeInv, TypeOK, WorksForAccount
<1>3. CASE SwitchAccount
  BY <1>0, <1>3, <1>e DEF SwitchAccount, TypeInv, TypeOK, WorksForAccount
<1>4. CASE Start
  <2>1. loop' \in LoopState /\ loop'.got = 0 /\ 0 \in Times
    <3>1. loop' = [Off EXCEPT !.at = "read", !.item = "daily", !.acct = terminal]
      BY <1>4 DEF Start
    <3>2. 0 \in Times
      BY LedgerAssumption DEF Times
    <3>3. loop' \in LoopState
      BY <1>0, <3>1, RecordsTyped DEF LoopState, Places, Items, Kinds
    <3>4. loop'.got = 0
      BY <3>1 DEF Off
    <3>5. QED
      BY <3>2, <3>3, <3>4
  <2>2. high' \in BOOLEAN /\ strayed' \in BOOLEAN /\ carried' \in BOOLEAN /\ low' = TRUE
    BY <1>0, <1>4 DEF Start
  <2>3. active' \in Accounts /\ loop'.acct \in Accounts
    BY <1>0, <1>4, RecordsTyped DEF Start, LoopState
  <2>4. QED
    BY <1>0, <1>4, <2>1, <2>2, <2>3 DEF Start, TypeInv, TypeOK, WorksForAccount
<1>5. CASE Stop
  <2>1. low' \in BOOLEAN /\ strayed' \in BOOLEAN /\ high' \in BOOLEAN /\ carried' \in BOOLEAN
    BY <1>0, <1>5 DEF Stop, LoopState
  <2>2. QED
    BY <1>0, <1>5, <1>e, <2>1, RecordsTyped DEF Stop, TypeInv, TypeOK, WorksForAccount
<1>6. CASE Crash
  <2>1. cmd' \in [Kinds -> Command] /\ \A k \in Kinds : cmd'[k].at = "idle"
    BY <1>6, RecordsTyped DEF Crash
  <2>2. QED
    BY <1>0, <1>6, <1>e, <2>1, RecordsTyped, BlankTyped
       DEF Crash, BlankGhosts, TypeInv, TypeOK, WorksForAccount
<1>7. ASSUME NEW lost \in BOOLEAN, ReadCache(lost) PROVE TypeInv'
  <2> DEFINE a == loop.acct
             value == IF loop.item = "peak" THEN savedPeak[a] ELSE saved[a][loop.item]
  <2>1. a \in Accounts /\ loop.item \in Items /\ 0 \in Times /\ Times \subseteq Nat
    BY <1>0, <1>7, LedgerAssumption DEF ReadCache, WorksForAccount, LoopState, Times
  <2>2. value \in Nat /\ (loop.item # "peak" => value \in Times)
    BY <1>0, <2>1 DEF Items
  <2> HIDE DEF value
  <2>3. loop' = [loop EXCEPT !.at = "apply", !.got = IF lost THEN 0 ELSE value]
    BY <1>7 DEF ReadCache, value
  <2>4. /\ loop' \in LoopState /\ loop'.acct = a /\ loop'.item = loop.item
        /\ loop'.item # "peak" => loop'.got \in Times
    BY <1>0, <2>1, <2>2, <2>3 DEF LoopState, Places
  <2>5. events' \in 0..MaxEvents
    BY <1>0, <1>7, <1>e DEF ReadCache
  <2>6. QED
    BY <1>0, <1>7, <2>1, <2>4, <2>5 DEF ReadCache, TypeInv, TypeOK, WorksForAccount
<1>a. CASE ApplyMarker
  <2>1. loop.item \in Kinds /\ loop.got \in Times /\ 0 \in Times
    BY <1>0, <1>a, LedgerAssumption DEF ApplyMarker, WorksForAccount, LoopState, Items, Times
  <2>2. risk' \in RiskState
    BY <1>0, <1>a, <2>1, RestoredTyped DEF ApplyMarker
  <2>3. loop' \in LoopState /\ loop'.acct = loop.acct /\ loop'.got = 0
    BY <1>0, <1>a, <2>1 DEF ApplyMarker, LoopState, Places, Items, Kinds
  <2>4. strayed' \in BOOLEAN /\ low' = TRUE
    BY <1>0, <1>a DEF ApplyMarker
  <2>5. QED
    BY <1>0, <1>a, <2>1, <2>2, <2>3, <2>4 DEF ApplyMarker, TypeInv, TypeOK, WorksForAccount
<1>b. CASE ApplyPeak
  <2>1. loop.acct \in Accounts /\ loop.got \in Nat
    BY <1>0, <1>b DEF ApplyPeak, WorksForAccount, LoopState
  <2>2. Greater(BalanceOf[loop.acct], loop.got) \in Nat
    BY <2>1, LedgerAssumption, GreaterTyped
  <2>3. risk' \in RiskState
    BY <1>0, <1>b, <2>2, RaisedTyped DEF ApplyPeak
  <2>4. loop' \in LoopState /\ loop'.acct = loop.acct /\ loop'.item = "peak"
    BY <1>0, <1>b DEF ApplyPeak, LoopState, Places
  <2>5. QED
    BY <1>0, <1>b, <2>1, <2>3, <2>4 DEF ApplyPeak, TypeInv, TypeOK, WorksForAccount
<1>c. ASSUME NEW fails \in BOOLEAN, WritePeak(fails) PROVE TypeInv'
  <2>1. loop.acct \in Accounts /\ risk.peak \in Nat
    BY <1>0, <1>c DEF WritePeak, WorksForAccount, RiskState
  <2>2. savedPeak' \in [Accounts -> Nat] /\ events' \in 0..MaxEvents
    BY <1>0, <1>c, <1>e, <2>1 DEF WritePeak
  <2>3. /\ loop' \in LoopState /\ loop'.acct = loop.acct /\ loop'.got = 0
        /\ 0 \in Times
    <3>1. loop' = [loop EXCEPT !.at = IF loop.synced THEN "finish" ELSE "fetch", !.got = 0]
      BY <1>c DEF WritePeak
    <3>2. 0 \in Times
      BY LedgerAssumption DEF Times
    <3>3. QED
      BY <1>0, <3>1, <3>2 DEF LoopState, Places
  <2>4. QED
    BY <1>0, <1>c, <2>1, <2>2, <2>3 DEF WritePeak, TypeInv, TypeOK, WorksForAccount
<1>8. ASSUME NEW shown \in SUBSET ClosedOn(terminal), Fetch(shown) PROVE TypeInv'
  <2>1. shown \subseteq Tickets
    BY LedgerAssumption DEF ClosedOn
  <2>2. /\ loop' \in LoopState /\ loop'.acct = loop.acct /\ dropped' \subseteq Tickets
        /\ loop'.item = loop.item /\ loop'.got = loop.got
    BY <1>0, <1>8, <2>1 DEF Fetch, LoopState, Places
  <2>3. QED
    BY <1>0, <1>8, <2>2 DEF Fetch, TypeInv, TypeOK, WorksForAccount
<1>9. ASSUME Fail, loop.at # "off",
             UNCHANGED <<broker, database, known, cmd, booked, dropped, high, strayed, carried>>,
             low' \in BOOLEAN
      PROVE  TypeInv'
  <2>1. loop.acct \in Accounts
    BY <1>0, <1>9 DEF WorksForAccount
  <2>2. /\ loop' \in LoopState /\ loop'.acct = loop.acct /\ active' = loop.acct /\ risk' \in RiskState
        /\ loop'.item = loop.item /\ loop'.got = loop.got
    BY <1>0, <1>9, ReturnTyped DEF Fail, TypeInv
  <2>3. QED
    BY <1>0, <1>9, <1>e, <2>1, <2>2 DEF Fail, TypeInv, TypeOK, WorksForAccount
<1>10. CASE FetchFails
  BY <1>0, <1>9, <1>10 DEF FetchFails
<1>11. CASE Store
  <2>1. loop.acct \in Accounts /\ loop.fetched \subseteq Tickets
    BY <1>0, <1>11 DEF Store, WorksForAccount, LoopState
  <2>2. rows' \in [Accounts -> SUBSET Tickets]
    BY <1>0, <1>11, <2>1 DEF Store
  <2>3. /\ loop' \in LoopState /\ loop'.acct = loop.acct
        /\ loop'.item = loop.item /\ loop'.got = loop.got
    BY <1>0, <1>11 DEF Store, LoopState, Places
  <2>4. QED
    BY <1>0, <1>11, <2>2, <2>3 DEF Store, TypeInv, TypeOK, WorksForAccount
<1>12. CASE StoreFails
  BY <1>0, <1>9, <1>12 DEF StoreFails
<1>13. CASE Sync
  <2> DEFINE a == loop.acct
  <2>1. a \in Accounts /\ rows[a] \in SUBSET Tickets /\ BalanceOf[a] \in Nat
    BY <1>0, <1>13, LedgerAssumption DEF Sync, WorksForAccount
  <2>2. risk' \in RiskState
    BY <1>0, <1>13, <2>1, SynchronizedTyped DEF Sync
  <2>3. /\ loop' \in LoopState /\ loop'.acct = a
        /\ loop'.item = loop.item /\ loop'.got = loop.got
    BY <1>0, <1>13 DEF Sync, LoopState, Places
  <2>4. low' \in BOOLEAN /\ high' \in BOOLEAN
    BY <1>0, <1>13 DEF Sync
  <2>5. QED
    BY <1>0, <1>13, <2>1, <2>2, <2>3, <2>4 DEF Sync, TypeInv, TypeOK, WorksForAccount
<1>d. CASE Finish
  <2>1. loop.acct \in Accounts
    BY <1>0, <1>d DEF Finish, WorksForAccount
  <2>2. /\ loop' \in LoopState /\ loop'.acct = loop.acct /\ active' = loop.acct /\ risk' \in RiskState
        /\ loop'.item = loop.item /\ loop'.got = loop.got
    BY <1>0, <1>d, ReturnTyped DEF Finish, TypeInv
  <2>3. QED
    BY <1>0, <1>d, <2>1, <2>2 DEF Finish, TypeInv, TypeOK, WorksForAccount
<1>f. CASE FinishFails
  BY <1>0, <1>9, <1>f DEF FinishFails
<1>14. CASE SyncFails
  BY <1>0, <1>9, <1>14 DEF SyncFails
<1>15. CASE ReadAccount
  <2>1. BalanceOf[terminal] \in Nat
    BY <1>0, LedgerAssumption
  <2>2. risk' \in RiskState
    BY <1>0, <1>15, <2>1, RaisedTyped, BlankTyped DEF ReadAccount, Cleared
  <2>3. /\ loop' \in LoopState /\ loop'.acct = terminal
        /\ loop'.item # "peak" => loop'.got \in Times
    <3>1. CASE terminal = active
      <4>1. loop' = [loop EXCEPT !.at = "positions", !.acct = terminal]
        BY <1>15, <3>1 DEF ReadAccount
      <4>2. loop' \in LoopState /\ loop'.acct = terminal
        BY <1>0, <4>1 DEF LoopState, Places
      <4>3. loop'.item = loop.item /\ loop'.got = loop.got
        BY <1>0, <4>1 DEF LoopState
      <4>4. QED
        BY <1>0, <4>2, <4>3 DEF WorksForAccount
    <3>2. CASE terminal # active
      <4>1. 0 \in Times
        BY LedgerAssumption DEF Times
      <4>2. loop' = [loop EXCEPT !.at = "read", !.item = "daily", !.got = 0,
                                 !.acct = terminal, !.back = "positions"]
        BY <1>15, <3>2 DEF ReadAccount
      <4>3. loop' \in LoopState /\ loop'.acct = terminal
        BY <1>0, <4>2 DEF LoopState, Places, Returns, Items, Kinds
      <4>4. loop'.got = 0
        BY <1>0, <4>2 DEF LoopState
      <4>5. QED
        BY <4>1, <4>3, <4>4
    <3>3. QED
      BY <3>1, <3>2
  <2>4. /\ known' \subseteq Tickets /\ booked' \subseteq Tickets /\ low' \in BOOLEAN
        /\ high' \in BOOLEAN /\ strayed' \in BOOLEAN
    BY <1>0, <1>15 DEF ReadAccount, BlankGhosts
  <2>5. active \in Accounts
    BY <1>0, <1>15 DEF ReadAccount, WorksForAccount
  <2>6. QED
    BY <1>0, <1>15, <2>2, <2>3, <2>4, <2>5 DEF ReadAccount, TypeInv, TypeOK, WorksForAccount
<1>16. CASE ReadPositions
  <2>1. risk' \in RiskState
    BY <1>0, <1>16, ReadinessTyped DEF ReadPositions
  <2>2. /\ loop' \in LoopState /\ loop'.acct = loop.acct /\ loop.at # "off"
        /\ loop'.item = loop.item /\ loop'.got = loop.got
    <3> DEFINE listed == {t \in Tickets : closedAt[t] = 0 /\ OwnerOf[t] = terminal}
    <3>1. listed \subseteq Tickets /\ known \ listed \subseteq Tickets
      BY <1>0
    <3>2. \/ loop' = [loop EXCEPT !.at = "closures", !.current = listed, !.todo = known \ listed]
          \/ loop' = [loop EXCEPT !.at = "account"]
      BY <1>16 DEF ReadPositions
    <3> HIDE DEF listed
    <3>3. loop.at = "positions" /\ loop \in LoopState
      BY <1>0, <1>16 DEF ReadPositions
    <3>4. QED
      BY <3>1, <3>2, <3>3 DEF LoopState, Places
  <2>3. QED
    BY <1>0, <1>16, <1>e, <2>1, <2>2 DEF ReadPositions, TypeInv, TypeOK, WorksForAccount
<1>17. ASSUME NEW t \in Tickets, BookClosure(t) PROVE TypeInv'
  <2>1. /\ loop' \in LoopState /\ loop'.acct = loop.acct /\ loop.at # "off"
        /\ loop'.item = loop.item /\ loop'.got = loop.got
    BY <1>0, <1>17 DEF BookClosure, LoopState
  <2>2. LossOf[t] \in Nat /\ BalanceOf[loop.acct] \in Nat
    BY <1>0, <2>1, LedgerAssumption DEF WorksForAccount
  <2>3. risk' \in RiskState
    <3>1. \/ risk' = risk
          \/ \E loss \in {LossOf[t], 0} : risk' = Recorded(risk, loss, BalanceOf[loop.acct])
      BY <1>17 DEF BookClosure
    <3>2. \A loss \in {LossOf[t], 0} : Recorded(risk, loss, BalanceOf[loop.acct]) \in RiskState
      BY <1>0, <2>2, RecordedTyped
    <3>3. QED
      BY <1>0, <3>1, <3>2
  <2>4. booked' \subseteq Tickets
    BY <1>0, <1>17 DEF BookClosure
  <2>5. low' \in BOOLEAN /\ high' \in BOOLEAN
    BY <1>0, <1>17 DEF BookClosure
  <2>6. QED
    BY <1>0, <1>17, <2>1, <2>3, <2>4, <2>5 DEF BookClosure, TypeInv, TypeOK, WorksForAccount
<1>18. ASSUME NEW t \in Tickets, DeferClosure(t) PROVE TypeInv'
  <2>1. /\ loop' \in LoopState /\ loop'.acct = loop.acct /\ loop.at # "off"
        /\ loop'.item = loop.item /\ loop'.got = loop.got
    BY <1>0, <1>18 DEF DeferClosure, LoopState
  <2>2. dropped' \subseteq Tickets
    BY <1>0, <1>18 DEF DeferClosure
  <2>3. QED
    BY <1>0, <1>18, <1>e, <2>1, <2>2 DEF DeferClosure, TypeInv, TypeOK, WorksForAccount
<1>19. CASE Abort
  <2>1. /\ loop' \in LoopState /\ loop'.acct = loop.acct /\ loop.at # "off"
        /\ loop'.item = loop.item /\ loop'.got = loop.got
    BY <1>0, <1>19 DEF Abort, LoopState, Places
  <2>2. QED
    BY <1>0, <1>19, <1>e, <2>1 DEF Abort, TypeInv, TypeOK, WorksForAccount
<1>20. CASE Periodic
  <2>1. /\ loop' \in LoopState /\ loop'.acct = loop.acct /\ loop.at # "off" /\ known' \subseteq Tickets
        /\ loop'.item = loop.item /\ loop'.got = loop.got
    BY <1>0, <1>20 DEF Periodic, Finished, LoopState, Places, Returns
  <2>2. QED
    BY <1>0, <1>20, <2>1 DEF Periodic, TypeInv, TypeOK, WorksForAccount
<1>21. CASE NotYet
  <2>1. /\ loop' \in LoopState /\ loop'.acct = loop.acct /\ loop.at # "off" /\ known' \subseteq Tickets
        /\ loop'.item = loop.item /\ loop'.got = loop.got
    BY <1>0, <1>21 DEF NotYet, Finished, LoopState, Places
  <2>2. risk' \in RiskState
    BY <1>0, <1>21, ReadinessTyped DEF NotYet
  <2>3. QED
    BY <1>0, <1>21, <2>1, <2>2 DEF NotYet, TypeInv, TypeOK, WorksForAccount
<1>22. ASSUME NEW k \in Commands, AskReset(k) PROVE TypeInv'
  <2>1. k \in Kinds
    BY LedgerAssumption DEF Kinds
  <2>2. /\ cmd' \in [Kinds -> Command]
        /\ \A j \in Kinds : cmd'[j].at # "idle" => cmd'[j].acct \in Accounts
    BY <1>0, <1>22, <1>n, <2>1 DEF AskReset, Command, WorksForAccount
  <2>3. QED
    BY <1>0, <1>22, <1>e, <2>2 DEF AskReset, TypeInv, TypeOK, WorksForAccount
<1>23. ASSUME NEW k \in Commands, SaveReset(k) PROVE TypeInv'
  <2>1. k \in Kinds
    BY LedgerAssumption DEF Kinds
  <2>2. cmd[k] \in Command /\ cmd[k].acct \in Accounts /\ cmd[k].marker \in Times
    BY <1>0, <1>23, <2>1 DEF SaveReset, Command, WorksForAccount
  <2>3. /\ cmd' \in [Kinds -> Command]
        /\ \A j \in Kinds : cmd'[j].at # "idle" => cmd'[j].acct \in Accounts
    <3>1. CASE cmd' = [cmd EXCEPT ![k].at = "applying"]
      BY <1>0, <2>1, <2>2, <3>1 DEF Command, WorksForAccount
    <3>2. CASE cmd' = [cmd EXCEPT ![k] = NoCommand]
      BY <1>0, <2>1, <3>2, RecordsTyped DEF WorksForAccount
    <3>3. QED
      BY <1>23, <3>1, <3>2 DEF SaveReset
  <2>4. saved' \in [Accounts -> [Kinds -> Times]]
    <3>1. \/ saved' = saved
          \/ saved' = [saved EXCEPT ![cmd[k].acct] = [@ EXCEPT ![k] = cmd[k].marker]]
      BY <1>23 DEF SaveReset
    <3>2. [saved[cmd[k].acct] EXCEPT ![k] = cmd[k].marker] \in [Kinds -> Times]
      BY <1>0, <2>1, <2>2
    <3>3. QED
      BY <1>0, <2>2, <3>1, <3>2
  <2>5. events' \in 0..MaxEvents
    BY <1>0, <1>23, <1>e DEF SaveReset
  <2>6. QED
    BY <1>0, <1>23, <2>3, <2>4, <2>5 DEF SaveReset, TypeInv, TypeOK, WorksForAccount
<1>24. ASSUME NEW k \in Commands, ApplyReset(k) PROVE TypeInv'
  <2>1. k \in Kinds
    BY LedgerAssumption DEF Kinds
  <2>2. cmd[k].marker \in Times
    BY <1>0, <2>1 DEF Command
  <2>3. risk' \in RiskState
    BY <1>0, <1>24, <2>1, <2>2, ResetTyped DEF ApplyReset, Readiness
  <2>4. /\ cmd' \in [Kinds -> Command]
        /\ \A j \in Kinds : cmd'[j].at # "idle" => cmd'[j].acct \in Accounts
    BY <1>0, <1>24, <2>1, RecordsTyped DEF ApplyReset, WorksForAccount
  <2>5. low' \in BOOLEAN /\ strayed' \in BOOLEAN
    BY <1>0, <1>24 DEF ApplyReset
  <2>6. QED
    BY <1>0, <1>24, <2>3, <2>4, <2>5 DEF ApplyReset, TypeInv, TypeOK, WorksForAccount
<1>25. CASE UNCHANGED vars
  BY <1>0, <1>25 DEF vars, TypeInv, TypeOK, WorksForAccount
<1>26. QED
  BY <1>1, <1>2, <1>3, <1>4, <1>5, <1>6, <1>7, <1>a, <1>b, <1>c, <1>8, <1>10, <1>11, <1>12,
     <1>13, <1>d, <1>f, <1>14, <1>15, <1>16, <1>17, <1>18, <1>19, <1>20, <1>21, <1>22, <1>23,
     <1>24, <1>25
     DEF Next, Environment, Engine, Operator

(* Types of the counters, of the loop and of the resets under way.         *)
THEOREM TypeCorrect == Spec => []TypeOK
<1>1. Spec => []TypeInv
  BY TypeInit, TypeStep, PTL DEF Spec
<1>2. TypeInv => TypeOK
  BY DEF TypeInv
<1>3. QED
  BY <1>1, <1>2, PTL

-----------------------------------------------------------------------------
(* What a step does to the counters.                                       *)
RiskKept ==
    /\ risk' \in RiskState
    /\ CountAt(risk', Day(now)) = Count
    /\ \A k \in Kinds : MarkAt(risk', k, Day(now)) = Mark(k)
    /\ risk'.day \in {risk.day, Day(now)}
    /\ \/ risk'.peak = risk.peak
       \/ /\ loop'.at \in {"account", "positions"}
          /\ risk'.peak = Greater(risk.peak, BalanceOf[loop'.acct])
       \/ /\ loop.at = "apply" /\ loop.item = "peak" /\ loop'.at = "write"
          /\ risk'.peak = Greater(risk.peak, Greater(BalanceOf[loop.acct], loop.got))

(* The steps that at most roll the day over or raise the peak balance.     *)
Keeping ==
    \/ SwitchAccount \/ Start \/ Stop \/ ApplyPeak \/ Finish \/ FinishFails
    \/ FetchFails \/ Store \/ StoreFails \/ SyncFails
    \/ ReadAccount /\ terminal = active
    \/ ReadPositions \/ Abort \/ Periodic \/ NotYet \/ UNCHANGED vars
    \/ \E b \in BOOLEAN : ReadCache(b) \/ WritePeak(b)
    \/ \E t \in Tickets : Close(t) \/ DeferClosure(t)
    \/ \E shown \in SUBSET ClosedOn(terminal) : Fetch(shown)
    \/ \E k \in Commands : AskReset(k) \/ SaveReset(k)

LEMMA SameRisk ==
    ASSUME TypeInv, risk' = risk
    PROVE  RiskKept
BY DEF RiskKept, Count, Mark, TypeInv, TypeOK

LEMMA ReadyRisk ==
    ASSUME TypeInv, risk' = Readiness(risk)
    PROVE  RiskKept
<1>1. risk \in RiskState /\ TypeOK
  BY DEF TypeInv, TypeOK
<1>2. QED
  BY <1>1, ReadinessTyped DEF RiskKept, Count, Mark

LEMMA ReturnRisk ==
    ASSUME TypeInv, loop.at # "off", Return(risk)
    PROVE  RiskKept
<1>1. risk \in RiskState
  BY DEF TypeInv, TypeOK
<1>2. QED
  BY <1>1, ReturnTyped DEF RiskKept, Count, Mark

LEMMA KeepsRisk == TypeInv /\ Keeping => RiskKept
<1> SUFFICES ASSUME TypeInv, Keeping PROVE RiskKept
  OBVIOUS
<1>1. CASE FetchFails
  BY <1>1, ReturnRisk DEF FetchFails, Fail
<1>2. CASE StoreFails
  BY <1>2, ReturnRisk DEF StoreFails, Fail
<1>3. CASE SyncFails \/ FinishFails
  BY <1>3, ReturnRisk DEF SyncFails, FinishFails, Fail
<1>a. CASE Finish
  BY <1>a, ReturnRisk DEF Finish
<1>b. CASE ApplyPeak
  <2> DEFINE top == Greater(BalanceOf[loop.acct], loop.got)
  <2>1. /\ risk' = Raised(risk, top) /\ loop.at = "apply" /\ loop.item = "peak"
        /\ loop'.at = "write"
    BY <1>b DEF ApplyPeak, TypeInv, TypeOK, LoopState
  <2>2. risk \in RiskState /\ BalanceOf[loop.acct] \in Nat /\ loop.got \in Nat
    BY <2>1, LedgerAssumption DEF TypeInv, TypeOK, WorksForAccount, LoopState
  <2>3. top \in Nat
    BY <2>2, GreaterTyped
  <2>4. /\ risk' \in RiskState /\ risk'.day = risk.day /\ risk'.daily = risk.daily
        /\ risk'.mark = risk.mark /\ risk'.peak = Greater(risk.peak, top)
    BY <2>1, <2>2, <2>3, RaisedTyped
  <2>5. QED
    BY <2>1, <2>4 DEF RiskKept, Count, Mark, CountAt, MarkAt
<1>4. CASE NotYet
  BY <1>4, ReadyRisk DEF NotYet
<1>5. CASE ReadPositions
  BY <1>5, ReadyRisk, SameRisk DEF ReadPositions
<1>6. CASE ReadAccount /\ terminal = active
  <2>1. /\ risk' = Raised(risk, BalanceOf[terminal]) /\ loop'.acct = terminal
        /\ loop'.at = "positions"
    BY <1>6 DEF ReadAccount, TypeInv, TypeOK, LoopState
  <2>2. risk \in RiskState /\ BalanceOf[terminal] \in Nat
    BY LedgerAssumption DEF TypeInv, TypeOK
  <2>3. /\ risk' \in RiskState /\ risk'.day = risk.day /\ risk'.daily = risk.daily
        /\ risk'.mark = risk.mark /\ risk'.peak = Greater(risk.peak, BalanceOf[terminal])
    BY <2>1, <2>2, RaisedTyped
  <2>4. QED
    BY <2>1, <2>3 DEF RiskKept, Count, Mark, CountAt, MarkAt
<1>7. ASSUME risk' = risk PROVE RiskKept
  BY <1>7, SameRisk
<1>8. QED
  BY <1>1, <1>2, <1>3, <1>a, <1>b, <1>4, <1>5, <1>6, <1>7
     DEF Keeping, SwitchAccount, Start, Stop, ReadCache, WritePeak, Store, Abort, Periodic, vars,
         Close, DeferClosure, Fetch, AskReset, SaveReset

LEMMA MarkerRisk ==
    ASSUME TypeInv, ApplyMarker
    PROVE  LET k == loop.item
               m == loop.got
               d == Day(now)
           IN  /\ k \in Kinds /\ m \in Times
               /\ risk'.peak = risk.peak
               /\ risk'.day \in {risk.day, d}
               /\ \/ CountAt(risk', d) = 0
                  \/ CountAt(risk', d) = Count /\ MarkAt(risk', "daily", d) = Mark("daily")
               /\ k # "daily" \/ Today(m) = 0 => CountAt(risk', d) = Count
               /\ MarkAt(risk', "daily", d)
                     = IF k = "daily" /\ Today(m) # 0 THEN m ELSE Mark("daily")
               /\ MarkAt(risk', "cooldown", d)
                     = IF k = "daily" /\ Today(m) # 0 THEN m
                       ELSE IF k = "cooldown" THEN Greater(Today(m), Mark("cooldown"))
                       ELSE Mark("cooldown")
               /\ MarkAt(risk', "streak", d)
                     = IF k = "streak" /\ m # 0 THEN m ELSE Mark("streak")
<1>1. /\ loop.item \in Kinds /\ loop.got \in Times /\ risk \in RiskState /\ TypeOK
      /\ risk' = RestoredMark(risk, loop.item, loop.got)
  BY DEF ApplyMarker, TypeInv, TypeOK, WorksForAccount, LoopState, Items
<1>2. QED
  BY <1>1, RestoredTyped DEF Count, Mark

(* Where a marker's step leaves the loop.                                  *)
LEMMA MarkerLoop ==
    ASSUME TypeInv, ApplyMarker
    PROVE  /\ loop.at = "apply" /\ loop.item \in Kinds /\ loop.acct \in Accounts
           /\ active \in Accounts
           /\ loop'.at \in {"read", "fetch"} /\ loop'.back = loop.back
           /\ loop'.acct = loop.acct /\ loop'.synced = loop.synced
           /\ loop'.fetched = loop.fetched
           /\ loop.item = "daily" => loop'.item = "cooldown" /\ loop'.at = "read"
           /\ loop.item = "cooldown" => loop'.item = "streak" /\ loop'.at = "read"
           /\ loop.item = "streak" => loop'.item = "peak"
           /\ loop'.at = "read" /\ loop'.item = "peak" => loop.back = "begin"
<1>1. /\ loop.at = "apply" /\ loop.item \in Kinds /\ loop \in LoopState
      /\ loop.acct \in Accounts /\ active \in Accounts
  BY DEF ApplyMarker, TypeInv, TypeOK, WorksForAccount, LoopState, Items
<1>2. loop' = [loop EXCEPT
          !.at = IF loop.item = "streak" /\ loop.back # "begin" THEN "fetch" ELSE "read",
          !.item = CASE loop.item = "daily"    -> "cooldown"
                     [] loop.item = "cooldown" -> "streak"
                     [] loop.item = "streak"   -> "peak",
          !.got = 0]
  BY DEF ApplyMarker
<1>3. QED
  BY <1>1, <1>2 DEF LoopState, Kinds

LEMMA SyncRisk ==
    ASSUME TypeInv, Sync
    PROVE  LET a == loop.acct
               d == Day(now)
           IN  /\ a \in Accounts /\ active \in Accounts
               /\ risk'.day = d
               /\ CountAt(risk', d) = Greater(Count, Total(LossesAfter(rows[a], Mark("daily"))))
               /\ \A k \in Kinds : MarkAt(risk', k, d) = Mark(k)
               /\ risk'.peak = Greater(risk.peak, BalanceOf[a])
               /\ loop.at = "sync" /\ loop'.at = "read" /\ loop'.synced
               /\ loop'.acct = a /\ loop'.back = loop.back /\ loop'.item = loop.item
               /\ loop'.got = loop.got /\ loop'.fetched = loop.fetched
<1> DEFINE a == loop.acct
           d == Day(now)
<1>1. TypeOK /\ a \in Accounts /\ risk \in RiskState /\ rows[a] \in SUBSET Tickets
      /\ BalanceOf[a] \in Nat /\ loop \in LoopState /\ active \in Accounts
  BY LedgerAssumption DEF Sync, TypeInv, TypeOK, WorksForAccount
<1>2. risk' = Synchronized(risk, rows[a], BalanceOf[a])
  BY DEF Sync
<1>3. /\ risk'.day = d /\ risk'.peak = Greater(risk.peak, BalanceOf[a])
      /\ \A k \in Kinds : risk'.mark[k] = MarkAt(risk, k, d)
      /\ risk'.daily = Greater(CountAt(risk, d),
                               Total(LossesAfter(rows[a], MarkAt(risk, "daily", d))))
  BY <1>1, <1>2, SynchronizedTyped
<1>4. /\ CountAt(risk', d) = risk'.daily
      /\ \A k \in Kinds : MarkAt(risk', k, d) = risk'.mark[k]
  BY <1>3 DEF CountAt, MarkAt
<1>5. /\ loop.at = "sync" /\ loop'.at = "read" /\ loop'.synced
      /\ loop'.acct = a /\ loop'.back = loop.back /\ loop'.item = loop.item
      /\ loop'.got = loop.got /\ loop'.fetched = loop.fetched
  BY <1>1 DEF Sync, LoopState
<1>6. QED
  BY <1>1, <1>3, <1>4, <1>5 DEF Count, Mark

(* The loss that BookClosure adds.                                         *)
Real(t) == closedAt[t] # 0 /\ OwnerOf[t] = terminal /\ t \in Strategy
Loss(t) == IF Real(t) THEN LossOf[t] ELSE 0

LEMMA BookRisk ==
    ASSUME TypeInv, NEW t \in Tickets, BookClosure(t)
    PROVE  /\ loop.at = "closures" /\ loop'.at = "closures"
           /\ loop'.back = loop.back /\ loop'.acct = loop.acct /\ loop'.fetched = loop.fetched
           /\ Loss(t) \in Nat
           /\ risk'.day = risk.day
           /\ risk'.mark = risk.mark
           /\ risk'.daily = risk.daily + Loss(t)
           /\ risk'.peak \in {risk.peak, Greater(risk.peak, BalanceOf[loop.acct])}
<1>1. risk \in RiskState /\ loop \in LoopState /\ LossOf[t] \in Nat /\ Loss(t) \in Nat
  BY LedgerAssumption DEF TypeInv, TypeOK, Loss
<1>2. /\ loop.at = "closures" /\ loop'.at = "closures"
      /\ loop'.back = loop.back /\ loop'.acct = loop.acct /\ loop'.fetched = loop.fetched
  BY <1>1 DEF BookClosure, LoopState
<1>3. BalanceOf[loop.acct] \in Nat
  BY <1>2, LedgerAssumption DEF TypeInv, WorksForAccount
<1>4. CASE t \in Strategy
  <2>1. risk' = Recorded(risk, Loss(t), BalanceOf[loop.acct])
    BY <1>4 DEF BookClosure, Loss, Real
  <2>2. QED
    BY <1>1, <1>2, <1>3, <2>1, RecordedTyped
<1>5. CASE t \notin Strategy
  <2>1. risk' = risk /\ Loss(t) = 0 /\ risk.daily \in Nat
    BY <1>1, <1>5 DEF BookClosure, Loss, Real, RiskState
  <2>2. QED
    BY <1>1, <1>2, <2>1
<1>6. QED
  BY <1>4, <1>5

LEMMA ApplyRisk ==
    ASSUME TypeInv, NEW k \in Commands, ApplyReset(k)
    PROVE  LET m == cmd[k].marker
               d == Day(now)
           IN  /\ k \in Kinds /\ m \in Times
               /\ risk'.peak = risk.peak /\ risk'.day = d
               /\ k = "daily" => CountAt(risk', d) = 0
               /\ CountAt(risk', d) # 0 =>
                     CountAt(risk', d) = Count /\ MarkAt(risk', "daily", d) = Mark("daily")
               /\ k = "streak" \/ (k = "cooldown" /\ Day(m) = d) =>
                     CountAt(risk', d) = Count /\ MarkAt(risk', "daily", d) = Mark("daily")
               /\ k = "daily" /\ Day(m) = d => MarkAt(risk', "daily", d) = m
               /\ k # "streak" /\ Day(m) = d => MarkAt(risk', "cooldown", d) = m
               /\ k = "streak" => MarkAt(risk', "cooldown", d) = Mark("cooldown")
               /\ MarkAt(risk', "streak", d) = IF k = "streak" THEN m ELSE Mark("streak")
<1>1. k \in Kinds
  BY LedgerAssumption DEF Kinds
<1>2. TypeOK /\ risk \in RiskState /\ cmd[k].marker \in Times
  BY <1>1 DEF TypeInv, TypeOK, Command
<1>3. risk' = RolledNow(Reset(risk, k, cmd[k].marker))
  BY DEF ApplyReset, Readiness
<1>4. QED
  BY <1>1, <1>2, <1>3, ResetTyped DEF Count, Mark

-----------------------------------------------------------------------------
(* The common ground of the invariants.                                    *)
LEMMA StepKinds ==
    ASSUME [Next]_vars
    PROVE  \/ Keeping \/ Tick \/ Crash \/ Sync
           \/ ReadAccount /\ terminal # active
           \/ ApplyMarker
           \/ \E t \in Tickets : BookClosure(t)
           \/ \E k \in Commands : ApplyReset(k)
BY DEF Next, Environment, Engine, Operator, Keeping

LEMMA RiskDay ==
    ASSUME TypeInv, [Next]_vars
    PROVE  risk'.day \in {risk.day, Day(now), NoDay}
<1>1. CASE Keeping
  BY <1>1, KeepsRisk DEF RiskKept
<1>2. CASE Tick \/ Crash \/ (ReadAccount /\ terminal # active)
  BY <1>2 DEF Tick, Crash, ReadAccount, Cleared, Blank, database, ghosts
<1>3. CASE Sync
  BY <1>3, SyncRisk
<1>4. CASE ApplyMarker
  BY <1>4, MarkerRisk
<1>5. ASSUME NEW t \in Tickets, BookClosure(t) PROVE risk'.day = risk.day
  BY <1>5, BookRisk
<1>6. ASSUME NEW k \in Commands, ApplyReset(k) PROVE risk'.day = Day(now)
  BY <1>6, ApplyRisk
<1>7. \/ Keeping \/ Tick \/ Crash \/ Sync
      \/ ReadAccount /\ terminal # active
      \/ ApplyMarker
      \/ \E t \in Tickets : BookClosure(t)
      \/ \E k \in Commands : ApplyReset(k)
  BY StepKinds
<1>8. \/ risk'.day \in {risk.day, Day(now), NoDay} \/ risk'.day \in {risk.day, Day(now)}
      \/ risk'.day = risk.day \/ risk'.day = Day(now)
  BY <1>1, <1>2, <1>3, <1>4, <1>5, <1>6, <1>7
<1>9. QED
  BY <1>8

LEMMA Clock ==
    ASSUME [Next]_vars, TypeOK
    PROVE  now' = now \/ (now' = now + 1 /\ Tick)
<1> USE DEF broker, database, ghosts
<1>1. QED
  BY DEF Next, Environment, Engine, Operator, vars, Tick, Close, SwitchAccount, Start, Stop, Crash,
         ReadCache, ApplyMarker, ApplyPeak, WritePeak, Finish, FinishFails, Fetch, FetchFails,
         Fail, Store, StoreFails, Sync, SyncFails, ReadAccount, ReadPositions, Abort,
         BookClosure, DeferClosure, Periodic, NotYet, Finished, AskReset, SaveReset,
         ApplyReset

LEMMA ClosedChange ==
    ASSUME [Next]_vars
    PROVE  closedAt' = closedAt \/ \E t \in Tickets : Close(t)
<1> USE DEF broker, database, ghosts
<1>1. QED
  BY DEF Next, Environment, Engine, Operator, vars, Tick, Close, SwitchAccount, Start, Stop, Crash,
         ReadCache, ApplyMarker, ApplyPeak, WritePeak, Finish, FinishFails, Fetch, FetchFails,
         Fail, Store, StoreFails, Sync, SyncFails, ReadAccount, ReadPositions, Abort,
         BookClosure, DeferClosure, Periodic, NotYet, Finished, AskReset, SaveReset,
         ApplyReset

LEMMA ResetChange ==
    ASSUME [Next]_vars
    PROVE  \/ saved' = saved /\ cmd' = cmd
           \/ saved' = saved /\ cmd' = [k \in Kinds |-> NoCommand]
           \/ \E k \in Commands :
                 \/ AskReset(k) /\ saved' = saved
                 \/ SaveReset(k)
                 \/ saved' = saved /\ cmd' = [cmd EXCEPT ![k] = NoCommand]
<1> USE DEF broker, database, ghosts
<1>1. QED
  BY DEF Next, Environment, Engine, Operator, vars, Tick, Close, SwitchAccount, Start, Stop, Crash,
         ReadCache, ApplyMarker, ApplyPeak, WritePeak, Finish, FinishFails, Fetch, FetchFails,
         Fail, Store, StoreFails, Sync, SyncFails, ReadAccount, ReadPositions, Abort,
         BookClosure, DeferClosure, Periodic, NotYet, Finished, AskReset, ApplyReset

LEMMA NotAheadStep ==
    ASSUME TypeInv, TypeInv', NotAhead, [Next]_vars
    PROVE  NotAhead'
<1>0. /\ now \in Nat /\ now' \in Nat /\ now <= now' /\ Day(now) \in Nat
      /\ closedAt \in [Tickets -> Times] /\ saved \in [Accounts -> [Kinds -> Times]]
      /\ cmd \in [Kinds -> Command] /\ risk \in RiskState
  <2>1. TypeOK /\ TypeOK'
    BY DEF TypeInv
  <2>2. now \in Nat /\ now' \in Nat
    BY <2>1, LedgerAssumption DEF TypeOK
  <2>3. QED
    BY <2>1, <2>2, Clock, DayTyped DEF TypeOK
<1>1. \A t \in Tickets : closedAt'[t] <= now'
  <2>1. CASE closedAt' = closedAt
    BY <1>0, <2>1 DEF NotAhead, Times
  <2>2. ASSUME NEW t \in Tickets, Close(t) PROVE \A u \in Tickets : closedAt'[u] <= now'
    BY <1>0, <2>2 DEF NotAhead, Times, Close
  <2>3. QED
    BY <2>1, <2>2, ClosedChange
<1>2. \A k \in Kinds : cmd'[k].marker <= now'
  <2>1. CASE cmd' = cmd \/ cmd' = [k \in Kinds |-> NoCommand]
    BY <1>0, <2>1, RecordsTyped DEF NotAhead, Command, Times
  <2>2. ASSUME NEW j \in Commands, AskReset(j) \/ SaveReset(j) \/ cmd' = [cmd EXCEPT ![j] = NoCommand]
        PROVE  \A k \in Kinds : cmd'[k].marker <= now'
    <3>1. j \in Kinds
      BY LedgerAssumption DEF Kinds
    <3>2. CASE AskReset(j)
      BY <1>0, <3>1, <3>2 DEF AskReset, NotAhead, Command, Times
    <3>3. CASE cmd' = [cmd EXCEPT ![j].at = "applying"]
      BY <1>0, <3>1, <3>3 DEF NotAhead, Command, Times
    <3>4. CASE cmd' = [cmd EXCEPT ![j] = NoCommand]
      BY <1>0, <3>1, <3>4, RecordsTyped DEF NotAhead, Command, Times
    <3>5. QED
      BY <2>2, <3>2, <3>3, <3>4 DEF SaveReset
  <2>3. QED
    BY <2>1, <2>2, ResetChange
<1>3. \A a \in Accounts : \A k \in Kinds : saved'[a][k] <= now'
  <2>1. CASE saved' = saved
    BY <1>0, <2>1 DEF NotAhead, Times
  <2>2. ASSUME NEW j \in Commands, SaveReset(j), saved' # saved
        PROVE  \A a \in Accounts : \A k \in Kinds : saved'[a][k] <= now'
    <3>1. j \in Kinds
      BY LedgerAssumption DEF Kinds
    <3>2. cmd[j].acct \in Accounts /\ cmd[j].marker <= now' /\ cmd[j].marker \in Times
      BY <1>0, <2>2, <3>1 DEF SaveReset, TypeInv, WorksForAccount, NotAhead, Command, Times
    <3>3. saved' = [saved EXCEPT ![cmd[j].acct] = [@ EXCEPT ![j] = cmd[j].marker]]
      BY <2>2 DEF SaveReset
    <3>4. QED
      BY <1>0, <3>1, <3>2, <3>3 DEF NotAhead, Times
  <2>3. QED
    BY <2>1, <2>2, ResetChange
<1>4. risk'.day <= Day(now')
  <2>1. Day(now) <= Day(now') /\ Day(now') \in Nat
    BY <1>0, DayMonotonic, DayTyped
  <2>2. risk.day <= Day(now) /\ risk.day \in Nat \cup {NoDay} /\ NoDay = -1
    BY <1>0 DEF NotAhead, RiskState, NoDay
  <2>3. risk'.day \in {risk.day, Day(now), -1}
    BY <2>2, RiskDay
  <2>4. QED
    BY <1>0, <2>1, <2>2, <2>3
<1>5. Day(now)' = Day(now')
  BY DEF Day
<1>6. QED
  BY <1>1, <1>2, <1>3, <1>4, <1>5 DEF NotAhead

(* The tickets that are closed stay so.                                    *)
LEMMA ClosuresGrow ==
    ASSUME TypeInv, TypeInv', NotAhead, [Next]_vars
    PROVE  Closures \subseteq Closures' /\ \A t \in Closures : closedAt'[t] = closedAt[t]
<1>1. CASE closedAt' = closedAt
  BY <1>1 DEF Closures
<1>2. ASSUME NEW t \in Tickets, Close(t)
      PROVE  Closures \subseteq Closures' /\ \A u \in Closures : closedAt'[u] = closedAt[u]
  BY <1>2, LedgerAssumption DEF Close, Closures, TypeInv, TypeOK
<1>3. QED
  BY <1>1, <1>2, ClosedChange

LEMMA OnlyClosuresStep ==
    ASSUME TypeInv, TypeInv', NotAhead, OnlyClosures, [Next]_vars
    PROVE  OnlyClosures'
<1> USE DEF broker, database, ghosts
<1>0. /\ TypeOK /\ WorksForAccount /\ loop \in LoopState
      /\ rows \in [Accounts -> SUBSET Tickets]
  BY DEF TypeInv, TypeOK
<1>1. Closures \subseteq Closures'
  BY ClosuresGrow
<1>2. /\ Off.fetched = {}
      /\ \A a : ClosedOn(a) \subseteq Closures
  BY DEF Off, ClosedOn, Closures
<1>3. \A a \in Accounts : rows'[a] \subseteq Closures'
  <2>1. CASE rows' = rows
    BY <1>1, <2>1 DEF OnlyClosures
  <2>2. CASE Store
    <3>1. loop.acct \in Accounts /\ rows' = [rows EXCEPT ![loop.acct] = @ \cup loop.fetched]
      BY <1>0, <2>2 DEF Store, WorksForAccount
    <3>2. QED
      BY <1>0, <1>1, <3>1 DEF OnlyClosures
  <2>3. QED
    BY <2>1, <2>2
       DEF Next, Environment, Engine, Operator, vars, Tick, Close, SwitchAccount, Start, Stop,
           Crash, ReadCache, ApplyMarker, ApplyPeak, WritePeak, Finish, FinishFails, Fetch,
           FetchFails, Fail, StoreFails, Sync, SyncFails, ReadAccount,
           ReadPositions, Abort, BookClosure, DeferClosure, Periodic, NotYet, Finished, AskReset,
           SaveReset, ApplyReset
<1>4. booked' \subseteq Closures'
  <2>1. CASE booked' \subseteq booked
    BY <1>1, <2>1 DEF OnlyClosures
  <2>2. ASSUME NEW t \in Tickets, BookClosure(t) PROVE booked' \subseteq Closures
    BY <2>2 DEF BookClosure, OnlyClosures, Closures
  <2>3. QED
    BY <1>1, <2>1, <2>2
       DEF Next, Environment, Engine, Operator, vars, Tick, Close, SwitchAccount, Start, Stop,
           Crash, BlankGhosts, ReadCache, ApplyMarker, ApplyPeak, WritePeak, Finish, FinishFails,
           Fetch, FetchFails, Fail, Store, StoreFails, Sync,
           SyncFails, ReadAccount, ReadPositions, Abort, DeferClosure, Periodic, NotYet, Finished,
           AskReset, SaveReset, ApplyReset
<1>5. loop'.fetched \subseteq Closures'
  <2>1. CASE loop'.fetched \in {loop.fetched, {}}
    BY <1>1, <2>1 DEF OnlyClosures
  <2>2. ASSUME NEW shown \in SUBSET ClosedOn(terminal), Fetch(shown)
        PROVE  loop'.fetched \subseteq Closures
    BY <1>0, <1>2, <2>2 DEF Fetch, LoopState
  <2>3. CASE loop' = loop \/ loop' = Off
    BY <1>2, <2>1, <2>3
  <2>4. CASE Start \/ FetchFails \/ Store \/ StoreFails \/ Sync \/ SyncFails \/ Finish \/ FinishFails
    BY <1>0, <1>2, <2>1, <2>4
       DEF Start, FetchFails, Finish, FinishFails, Fail, Return, Store, StoreFails, Sync,
           SyncFails, LoopState, Off
  <2>5. CASE ReadAccount \/ ReadPositions \/ Abort \/ Periodic \/ NotYet
             \/ ApplyPeak \/ (\E b \in BOOLEAN : ReadCache(b) \/ WritePeak(b))
             \/ (\E t \in Tickets : BookClosure(t) \/ DeferClosure(t))
    BY <1>0, <2>1, <2>5
       DEF ReadAccount, ReadPositions, Abort, Periodic, NotYet, ReadCache, ApplyPeak, WritePeak,
           BookClosure, DeferClosure, LoopState
  <2>m. CASE ApplyMarker
    <3>1. TypeInv
      OBVIOUS
    <3>2. loop'.fetched = loop.fetched
      BY <2>m, <3>1, MarkerLoop
    <3>3. QED
      BY <2>1, <3>2
  <2>6. QED
    BY <1>1, <2>2, <2>3, <2>4, <2>5, <2>m
       DEF Next, Environment, Engine, Operator, vars, Tick, Close, SwitchAccount, Stop, Crash,
           AskReset, SaveReset, ApplyReset
<1>6. QED
  BY <1>3, <1>4, <1>5 DEF OnlyClosures

(* At midnight the counter is void.                                        *)
LEMMA TickRisk ==
    ASSUME TypeInv, NotAhead, Tick
    PROVE  /\ risk' = risk /\ Day(now) <= Day(now')
           /\ Day(now') = Day(now) =>
                 Count' = Count /\ \A k \in Kinds : Mark(k)' = Mark(k)
           /\ Day(now') # Day(now) => Count' = 0
<1>1. now \in Nat /\ now' = now + 1 /\ Day(now) \in Nat /\ risk' = risk /\ risk \in RiskState
  BY TodayTyped DEF Tick, TypeInv, TypeOK
<1>2. Day(now) <= Day(now') /\ Day(now') \in Nat
  BY <1>1, DayMonotonic, DayTyped
<1>3. /\ Count' = CountAt(risk, Day(now'))
      /\ \A k \in Kinds : Mark(k)' = MarkAt(risk, k, Day(now'))
  BY <1>1 DEF Count, Mark, CountAt, MarkAt, Day
<1>4. Day(now') # Day(now) => risk.day # Day(now')
  BY <1>1, <1>2 DEF NotAhead, RiskState, NoDay
<1>5. QED
  BY <1>1, <1>2, <1>3, <1>4 DEF Count, Mark, CountAt

(* Primed and unprimed times, while the clock stands.                      *)
LEMMA Still ==
    ASSUME now' = now
    PROVE  /\ Count' = CountAt(risk', Day(now))
           /\ \A k : Mark(k)' = MarkAt(risk', k, Day(now))
BY DEF Count, Mark, CountAt, MarkAt, Day

LEMMA OnlyTickTicks ==
    ASSUME [Next]_vars, ~Tick
    PROVE  now' = now
<1> USE DEF broker, database, ghosts
<1>1. QED
  BY DEF Next, Environment, Engine, Operator, vars, Close, SwitchAccount, Start, Stop, Crash,
         ReadCache, ApplyMarker, ApplyPeak, WritePeak, Finish, FinishFails, Fetch, FetchFails,
         Fail, Store, StoreFails, Sync, SyncFails, ReadAccount, ReadPositions, Abort,
         BookClosure, DeferClosure, Periodic, NotYet, Finished, AskReset, SaveReset,
         ApplyReset

(* Whose counters they are.                                                *)
LEMMA OwnerIs ==
    ASSUME TypeInv, Placed
    PROVE  /\ RiskOwner = IF loop.at = "off" THEN active ELSE loop.acct
           /\ RiskOwner \in Accounts \cup {NoAccount}
           /\ RiskOwner = NoAccount => active = NoAccount /\ loop.at = "off"
           /\ loop.at # "off" => RiskOwner \in Accounts
<1>1. RiskOwner = IF loop.at = "off" THEN active ELSE loop.acct
  BY DEF Placed, RiskOwner, AtAccount
<1>2. active \in Accounts \cup {NoAccount} /\ (loop.at # "off" => loop.acct \in Accounts)
  BY DEF TypeInv, TypeOK, WorksForAccount
<1>3. QED
  BY <1>1, <1>2, LedgerAssumption

(* Where the loop goes, in the steps that at most roll the day over.       *)
LEMMA PlacedKept ==
    ASSUME TypeInv, Placed, Keeping
    PROVE  /\ loop'.at \notin AtAccount =>
                 loop'.back # "positions" /\ loop'.item = "peak" /\ ~loop'.synced
           /\ loop'.at \in {"account", "positions", "closures"} => loop'.back = "account"
           /\ loop'.at # "off" /\ loop'.back # "positions" => loop'.acct = active'
           /\ loop'.item # "peak" =>
                 loop'.at \in {"read", "apply"} /\ loop'.back # "account" /\ ~loop'.synced
           /\ loop'.item = "peak" /\ loop'.at \in {"read", "apply", "write"} =>
                 loop'.synced \/ loop'.back = "begin"
           /\ loop'.at = "finish" => loop'.synced
           /\ loop'.at \in AtAccount /\ loop'.back # "account" => loop'.synced \/ low'
           /\ loop'.back = "positions" /\ ~loop'.synced =>
                 loop.back = "positions" /\ ~loop.synced
           /\ active' = NoAccount => active = NoAccount
<1> USE DEF broker, database, ghosts
<1>0. loop \in LoopState /\ loop.acct \in Accounts \cup {NoAccount}
      /\ (loop.at # "off" => loop.acct \in Accounts /\ active \in Accounts)
      /\ terminal \in Accounts
  BY DEF TypeInv, TypeOK, WorksForAccount, LoopState
<1>1. CASE loop' = loop /\ active' = active /\ low' = low
  BY <1>1 DEF Placed
<1>2. CASE Start
  <2>1. /\ loop'.at = "read" /\ loop'.back = "begin" /\ loop'.acct = terminal
        /\ loop'.item = "daily" /\ ~loop'.synced /\ active' = terminal /\ low'
    BY <1>2 DEF Start, Off
  <2>2. QED
    BY <1>0, <2>1, LedgerAssumption DEF AtAccount
<1>3. CASE Stop
  <2>1. /\ loop'.at = "off" /\ loop'.back = "begin" /\ loop'.item = "peak" /\ ~loop'.synced
        /\ active' = active
    BY <1>3 DEF Stop, Off
  <2>2. QED
    BY <2>1 DEF AtAccount
<1>4. ASSUME Return(risk), loop.at \in AtAccount \ {"read", "apply"}
      PROVE  /\ loop'.at \in {"positions", "account"} /\ loop'.back = "account"
             /\ loop'.acct = loop.acct /\ active' = loop.acct
             /\ ~loop'.synced /\ loop'.item = "peak"
  BY <1>0, <1>4 DEF Return, LoopState, AtAccount, Placed
<1>5. CASE FetchFails \/ StoreFails \/ SyncFails \/ Finish \/ FinishFails
  <2>1. Return(risk) /\ loop.at \in {"fetch", "store", "sync", "finish"}
    BY <1>5 DEF FetchFails, StoreFails, SyncFails, Finish, FinishFails, Fail
  <2>2. /\ loop'.at \in {"positions", "account"} /\ loop'.back = "account"
        /\ loop'.acct = loop.acct /\ active' = loop.acct
        /\ ~loop'.synced /\ loop'.item = "peak" /\ loop.acct \in Accounts
    BY <1>0, <1>4, <2>1 DEF AtAccount
  <2>3. QED
    BY <2>2, LedgerAssumption DEF AtAccount
<1>6. ASSUME Store \/ ApplyPeak \/ (\E b \in BOOLEAN : ReadCache(b))
             \/ \E shown \in SUBSET ClosedOn(terminal) : Fetch(shown)
      PROVE  /\ loop'.back = loop.back /\ loop'.acct = loop.acct /\ loop'.synced = loop.synced
             /\ loop'.item = loop.item /\ active' = active /\ low' = low
             /\ \/ loop.at = "fetch" /\ loop'.at = "store"
                \/ loop.at = "store" /\ loop'.at = "sync"
                \/ loop.at = "read" /\ loop'.at = "apply"
                \/ loop.at = "apply" /\ loop.item = "peak" /\ loop'.at = "write"
  <2>1. CASE Store
    BY <1>0, <2>1 DEF Store, LoopState
  <2>2. CASE ApplyPeak
    BY <1>0, <2>2 DEF ApplyPeak, LoopState
  <2>3. ASSUME NEW b \in BOOLEAN, ReadCache(b)
        PROVE  /\ loop'.back = loop.back /\ loop'.acct = loop.acct /\ loop'.synced = loop.synced
               /\ loop'.item = loop.item /\ active' = active /\ low' = low
               /\ loop.at = "read" /\ loop'.at = "apply"
    BY <1>0, <2>3 DEF ReadCache, LoopState
  <2>4. ASSUME NEW shown \in SUBSET ClosedOn(terminal), Fetch(shown)
        PROVE  /\ loop'.back = loop.back /\ loop'.acct = loop.acct /\ loop'.synced = loop.synced
               /\ loop'.item = loop.item /\ active' = active /\ low' = low
               /\ loop.at = "fetch" /\ loop'.at = "store"
    BY <1>0, <2>4 DEF Fetch, LoopState
  <2>5. QED
    BY <1>6, <2>1, <2>2, <2>3, <2>4
<1>7. CASE Store \/ ApplyPeak \/ (\E b \in BOOLEAN : ReadCache(b))
           \/ \E shown \in SUBSET ClosedOn(terminal) : Fetch(shown)
  BY <1>0, <1>6, <1>7, LedgerAssumption DEF AtAccount, Placed
<1>8. ASSUME NEW b \in BOOLEAN, WritePeak(b)
      PROVE  /\ loop.at = "write" /\ loop'.at = IF loop.synced THEN "finish" ELSE "fetch"
             /\ loop'.back = loop.back /\ loop'.acct = loop.acct /\ loop'.synced = loop.synced
             /\ loop'.item = loop.item /\ active' = active /\ low' = low
  BY <1>0, <1>8 DEF WritePeak, LoopState
<1>w. CASE \E b \in BOOLEAN : WritePeak(b)
  BY <1>0, <1>8, <1>w, LedgerAssumption DEF AtAccount, Placed
<1>9. CASE ReadAccount /\ terminal = active
  <2>1. /\ loop'.at = "positions" /\ loop'.back = loop.back /\ loop'.acct = active
        /\ active' = active /\ loop.at = "account" /\ loop'.item = loop.item
        /\ loop'.synced = loop.synced
    BY <1>0, <1>9 DEF ReadAccount, LoopState
  <2>2. QED
    BY <2>1 DEF AtAccount, Placed
<1>10. ASSUME ReadPositions \/ Abort \/ NotYet \/ \E t \in Tickets : DeferClosure(t)
       PROVE  /\ loop'.at \in {"account", "closures"} /\ loop'.back = loop.back
              /\ loop'.acct = loop.acct /\ active' = active
              /\ loop'.item = loop.item /\ loop'.synced = loop.synced
              /\ loop.at \in {"positions", "closures"}
  BY <1>0, <1>10 DEF ReadPositions, Abort, NotYet, Finished, DeferClosure, LoopState
<1>11. CASE ReadPositions \/ Abort \/ NotYet \/ \E t \in Tickets : DeferClosure(t)
  BY <1>10, <1>11 DEF AtAccount, Placed
<1>12. CASE Periodic
  <2>1. /\ loop'.at = "fetch" /\ loop'.back = "account" /\ loop'.acct = loop.acct
        /\ active' = active /\ loop.at = "closures" /\ loop'.item = loop.item
        /\ loop'.synced = loop.synced
    BY <1>0, <1>12 DEF Periodic, Finished, LoopState
  <2>2. QED
    BY <2>1 DEF AtAccount, Placed
<1>13. QED
  BY <1>1, <1>2, <1>3, <1>5, <1>7, <1>w, <1>9, <1>11, <1>12
     DEF Keeping, SwitchAccount, vars, Close, AskReset, SaveReset

(* While the account changes, until its history is synchronized, and before *)
(* there is one, nothing is counted.                                       *)
LEMMA PlacedStep ==
    ASSUME TypeInv, TypeInv', NotAhead, Placed, [Next]_vars
    PROVE  Placed'
<1> USE DEF broker, database, ghosts
<1>0. /\ loop \in LoopState /\ risk \in RiskState /\ terminal \in Accounts
      /\ (loop.at # "off" => loop.acct \in Accounts /\ active \in Accounts)
  BY DEF TypeInv, TypeOK, WorksForAccount
<1> DEFINE Void == (loop'.back = "positions" /\ ~loop'.synced) \/ active' = NoAccount =>
                      Count' = 0 /\ risk'.peak = 0
<1>1. CASE Keeping
  <2>1. RiskKept
    BY <1>1, KeepsRisk
  <2>2. /\ loop'.at \notin AtAccount =>
              loop'.back # "positions" /\ loop'.item = "peak" /\ ~loop'.synced
        /\ loop'.at \in {"account", "positions", "closures"} => loop'.back = "account"
        /\ loop'.at # "off" /\ loop'.back # "positions" => loop'.acct = active'
        /\ loop'.item # "peak" =>
              loop'.at \in {"read", "apply"} /\ loop'.back # "account" /\ ~loop'.synced
        /\ loop'.item = "peak" /\ loop'.at \in {"read", "apply", "write"} =>
              loop'.synced \/ loop'.back = "begin"
        /\ loop'.at = "finish" => loop'.synced
        /\ loop'.at \in AtAccount /\ loop'.back # "account" => loop'.synced \/ low'
        /\ loop'.back = "positions" /\ ~loop'.synced => loop.back = "positions" /\ ~loop.synced
        /\ active' = NoAccount => active = NoAccount
    BY <1>1, PlacedKept
  <2>3. now' = now
    BY <1>1 DEF Keeping, vars, Close, SwitchAccount, Start, Stop, ReadCache, ApplyPeak, WritePeak,
                Finish, FinishFails, Fetch, FetchFails, Fail, Store, StoreFails, SyncFails,
                ReadAccount, ReadPositions, Abort, DeferClosure, Periodic, NotYet, Finished,
                AskReset, SaveReset
  <2>4. Count' = Count
    BY <2>1, <2>3, Still DEF RiskKept
  <2>5. loop'.at \in {"account", "positions"} => loop'.back # "positions" /\ active' # NoAccount
    BY <2>2, LedgerAssumption DEF AtAccount, TypeInv, WorksForAccount
  <2>6. loop.at = "apply" /\ loop.item = "peak" =>
           active # NoAccount /\ (loop.synced \/ loop.back = "begin")
    BY <1>0, LedgerAssumption DEF Placed
  <2>7. Void
    <3>1. CASE risk'.peak = risk.peak
      BY <2>2, <2>4, <3>1 DEF Placed
    <3>2. CASE risk'.peak # risk.peak
      BY <2>1, <2>2, <2>5, <2>6, <3>2 DEF RiskKept
    <3>3. QED
      BY <3>1, <3>2
  <2>8. QED
    BY <2>2, <2>7 DEF Placed, AtAccount
<1>2. CASE Tick
  <2>1. Count' = 0 \/ Count' = Count
    BY <1>2, TickRisk
  <2>2. QED
    BY <1>2, <2>1 DEF Tick, Placed, AtAccount
<1>3. CASE Crash \/ (ReadAccount /\ terminal # active)
  <2>1. risk' = Blank /\ Count' = 0 /\ risk'.peak = 0
    BY <1>3, BlankTyped DEF Crash, ReadAccount, Cleared, Count, CountAt
  <2>2. CASE Crash
    BY <2>1, <2>2, RecordsTyped DEF Crash, Placed, AtAccount
  <2>3. CASE ReadAccount /\ terminal # active
    <3>1. /\ loop'.at = "read" /\ loop'.back = "positions" /\ low' = TRUE
          /\ loop'.item = "daily" /\ loop'.synced = loop.synced /\ loop.at = "account"
      BY <1>0, <2>3 DEF ReadAccount, LoopState, BlankGhosts
    <3>2. ~loop'.synced
      BY <3>1 DEF Placed, AtAccount
    <3>3. QED
      BY <2>1, <3>1, <3>2 DEF Placed, AtAccount
  <2>4. QED
    BY <1>3, <2>2, <2>3
<1>4. CASE ApplyMarker
  <2>1. active' = active /\ low' = TRUE /\ now' = now
    BY <1>4 DEF ApplyMarker
  <2>2. CountAt(risk', Day(now)) \in {0, Count} /\ risk'.peak = risk.peak
    BY <1>4, MarkerRisk
  <2>3. Count' \in {0, Count}
    BY <2>1, <2>2, Still
  <2>4. /\ loop.at = "apply" /\ loop.item \in Kinds /\ active \in Accounts
        /\ loop'.at \in {"read", "fetch"} /\ loop'.back = loop.back
        /\ loop'.acct = loop.acct /\ loop'.synced = loop.synced
        /\ loop.item = "daily" => loop'.item = "cooldown" /\ loop'.at = "read"
        /\ loop.item = "cooldown" => loop'.item = "streak" /\ loop'.at = "read"
        /\ loop.item = "streak" => loop'.item = "peak"
        /\ loop'.at = "read" /\ loop'.item = "peak" => loop.back = "begin"
    BY <1>4, MarkerLoop
  <2>5. loop.item # "peak" /\ loop'.item \in {"cooldown", "streak", "peak"}
        /\ (loop'.item # "peak" => loop'.at = "read")
    BY <2>4 DEF Kinds
  <2>6. Void
    BY <2>1, <2>2, <2>3, <2>4, LedgerAssumption DEF Placed
  <2>7. QED
    BY <2>1, <2>4, <2>5, <2>6, LedgerAssumption DEF Placed, AtAccount
<1>5. CASE Sync
  <2>1. /\ loop.at = "sync" /\ loop'.at = "read" /\ loop'.synced /\ loop'.acct = loop.acct
        /\ loop'.back = loop.back /\ loop'.item = loop.item /\ active \in Accounts
    BY <1>5, SyncRisk
  <2>2. active' = active
    BY <1>5 DEF Sync
  <2>3. QED
    BY <2>1, <2>2, LedgerAssumption DEF Placed, AtAccount
<1>6. ASSUME NEW t \in Tickets, BookClosure(t) PROVE Placed'
  <2>1. /\ loop.at = "closures" /\ loop'.at = "closures"
        /\ loop'.back = loop.back /\ loop'.acct = loop.acct
    BY <1>6, BookRisk
  <2>2. /\ active' = active /\ active # NoAccount
        /\ loop'.item = loop.item /\ loop'.synced = loop.synced
    BY <1>0, <1>6, <2>1, LedgerAssumption DEF BookClosure, LoopState
  <2>3. QED
    BY <2>1, <2>2 DEF Placed, AtAccount
<1>7. ASSUME NEW k \in Commands, ApplyReset(k) PROVE Placed'
  <2>1. loop' = loop /\ active' = active /\ (low => low') /\ now' = now
    BY <1>7 DEF ApplyReset
  <2>2. risk'.peak = risk.peak /\ CountAt(risk', Day(now)) \in {0, Count}
    BY <1>7, ApplyRisk
  <2>3. Count' \in {0, Count}
    BY <2>1, <2>2, Still
  <2>4. QED
    BY <2>1, <2>2, <2>3 DEF Placed, AtAccount
<1>8. QED
  BY <1>1, <1>2, <1>3, <1>4, <1>5, <1>6, <1>7, StepKinds

LEMMA BaseInit == Init => Base
<1> SUFFICES ASSUME Init PROVE Base
  OBVIOUS
<1>1. TypeInv
  BY TypeInit
<1>2. now = 1 /\ Day(now) \in Nat /\ risk = Blank /\ loop = Off
  BY <1>1, TodayTyped DEF Init, TypeInv
<1>3. NotAhead
  BY <1>2, RecordsTyped DEF Init, NotAhead, NoMarks, Blank, NoDay
<1>4. OnlyClosures
  BY <1>2 DEF Init, OnlyClosures, Off
<1>5. Placed
  BY <1>2, BlankTyped, RecordsTyped DEF Placed, AtAccount, Count
<1>6. QED
  BY <1>1, <1>3, <1>4, <1>5 DEF Base

LEMMA BaseStep == Base /\ [Next]_vars => Base'
BY TypeStep, NotAheadStep, OnlyClosuresStep, PlacedStep DEF Base

(* The counters change their owner empty, or the step says so.             *)
LEMMA OwnerStep ==
    ASSUME Base, Base', [Next]_vars
    PROVE  \/ RiskOwner' = RiskOwner
           \/ Count' = 0 /\ risk'.peak = 0 /\ low'
           \/ high' /\ carried' /\ low'
           \/ Count' = 0 /\ risk'.peak = 0 /\ loop'.at = "off"
<1> USE DEF broker, database, ghosts
<1>0. /\ TypeInv /\ Placed /\ TypeInv' /\ Placed' /\ loop \in LoopState
      /\ RiskOwner = IF loop.at = "off" THEN active ELSE loop.acct
      /\ RiskOwner' = IF loop'.at = "off" THEN active' ELSE loop'.acct
  <2>1. TypeInv /\ Placed /\ TypeInv' /\ Placed' /\ loop \in LoopState
    BY DEF Base, TypeInv, TypeOK
  <2>2. RiskOwner = IF loop.at = "off" THEN active ELSE loop.acct
    BY <2>1, OwnerIs
  <2>3. RiskOwner' = IF loop'.at = "off" THEN active' ELSE loop'.acct
    BY <2>1 DEF Placed, RiskOwner, AtAccount
  <2>4. QED
    BY <2>1, <2>2, <2>3
<1>1. CASE loop' = loop /\ active' = active
  BY <1>0, <1>1
<1>2. CASE loop'.at # "off" /\ loop'.acct = loop.acct /\ loop.at # "off"
  BY <1>0, <1>2
<1>3. CASE Start
  <2>1. loop'.at = "read" /\ loop'.acct = terminal /\ loop.at = "off" /\ low' /\ risk' = risk
        /\ now' = now
    BY <1>3 DEF Start, Off
  <2>2. CASE active \in {NoAccount, terminal}
    BY <1>0, <2>1, <2>2, Still DEF Placed, Count
  <2>3. CASE active \notin {NoAccount, terminal} /\ risk = Blank
    BY <1>0, <2>1, <2>3, Still, BlankTyped
  <2>4. CASE active \notin {NoAccount, terminal} /\ risk # Blank
    BY <1>3, <2>1, <2>4 DEF Start
  <2>5. QED
    BY <2>2, <2>3, <2>4
<1>4. CASE Stop
  <2>1. loop'.at = "off" /\ active' = active /\ loop.at # "off" /\ risk' = risk /\ now' = now
    BY <1>4, RecordsTyped DEF Stop
  <2>2. CASE loop.back = "positions" /\ ~loop.synced
    BY <1>0, <2>1, <2>2, Still DEF Placed, Count
  <2>3. CASE loop.back = "positions" /\ loop.synced
    BY <1>4, <2>3 DEF Stop
  <2>4. CASE loop.back # "positions"
    BY <1>0, <2>1, <2>4 DEF Placed
  <2>5. QED
    BY <2>2, <2>3, <2>4
<1>5. CASE Crash \/ (ReadAccount /\ terminal # active)
  <2>1. risk' = Blank /\ low'
    BY <1>5 DEF Crash, ReadAccount, Cleared, BlankGhosts
  <2>2. QED
    BY <2>1, BlankTyped DEF Count
<1>6. CASE ReadAccount /\ terminal = active
  <2>1. loop'.at = "positions" /\ loop'.acct = active /\ loop.at = "account"
    BY <1>0, <1>6 DEF ReadAccount, LoopState
  <2>2. QED
    BY <1>0, <2>1 DEF Placed, AtAccount
<1>7. CASE FetchFails \/ StoreFails \/ SyncFails \/ Finish \/ FinishFails
  <2>1. loop.at # "off" /\ Return(risk)
    BY <1>7 DEF FetchFails, StoreFails, SyncFails, Finish, FinishFails, Fail
  <2>2. loop'.at # "off" /\ loop'.acct = loop.acct
    BY <1>0, <2>1 DEF Return, LoopState
  <2>3. QED
    BY <1>2, <2>1, <2>2
<1>8. CASE \/ Store \/ ReadPositions \/ Abort \/ Periodic \/ NotYet
           \/ \E t \in Tickets : DeferClosure(t)
           \/ \E shown \in SUBSET ClosedOn(terminal) : Fetch(shown)
  BY <1>0, <1>2, <1>8
     DEF Store, ReadPositions, Abort, Periodic, NotYet, Finished, DeferClosure, Fetch, LoopState
<1>p. CASE ApplyMarker \/ Sync
  <2>1. loop.at # "off" /\ loop'.at # "off" /\ loop'.acct = loop.acct
    BY <1>0, <1>p, MarkerLoop, SyncRisk
  <2>2. QED
    BY <1>2, <2>1
<1>c. CASE ApplyPeak \/ \E b \in BOOLEAN : ReadCache(b) \/ WritePeak(b)
  <2>1. CASE ApplyPeak
    BY <1>0, <1>2, <2>1 DEF ApplyPeak, LoopState
  <2>2. ASSUME NEW b \in BOOLEAN, ReadCache(b) PROVE RiskOwner' = RiskOwner
    BY <1>0, <2>2 DEF ReadCache, LoopState
  <2>3. ASSUME NEW b \in BOOLEAN, WritePeak(b) PROVE RiskOwner' = RiskOwner
    <3>1. loop.at = "write" /\ loop'.at \in {"finish", "fetch"} /\ loop'.acct = loop.acct
      BY <1>0, <2>3 DEF WritePeak, LoopState
    <3>2. QED
      BY <1>0, <3>1
  <2>4. QED
    BY <1>c, <2>1, <2>2, <2>3
<1>9. ASSUME NEW t \in Tickets, BookClosure(t) PROVE RiskOwner' = RiskOwner
  BY <1>0, <1>2, <1>9, BookRisk
<1>10. QED
  BY <1>1, <1>3, <1>4, <1>5, <1>6, <1>7, <1>8, <1>p, <1>c, <1>9
     DEF Next, Environment, Engine, Operator, vars, Tick, Close, SwitchAccount, AskReset,
         SaveReset, ApplyReset

(* While owner, marker and day stay, what is owed can only grow.           *)
LEMMA OwedGrows ==
    ASSUME Base, Base', [Next]_vars, RiskOwner' = RiskOwner, Mark("daily")' = Mark("daily"),
           Day(now') = Day(now)
    PROVE  Owed \subseteq Owed' /\ Owed' \cap Closures \subseteq Owed
<1>1. Closures \subseteq Closures' /\ \A t \in Closures : closedAt'[t] = closedAt[t]
  BY ClosuresGrow DEF Base
<1>2. Own' = Own /\ Own \subseteq Strategy
  BY DEF Own
<1>3. Owed' = {t \in Own' : /\ closedAt'[t] # 0 /\ LossOf[t] > 0
                            /\ Day(closedAt'[t]) = Day(now') /\ closedAt'[t] > Mark("daily")'}
  BY DEF Owed, LossesAfter, Day
<1>4. Owed = {t \in Own : /\ closedAt[t] # 0 /\ LossOf[t] > 0
                          /\ Day(closedAt[t]) = Day(now) /\ closedAt[t] > Mark("daily")}
  BY DEF Owed, LossesAfter
<1>5. QED
  BY <1>1, <1>2, <1>3, <1>4 DEF Closures

LEMMA OwedTickets == Owed \in SUBSET Tickets /\ Owed' \in SUBSET Tickets
BY LedgerAssumption DEF Owed, Own, LossesAfter

LEMMA TotalGrows ==
    ASSUME NEW S \in SUBSET Tickets, NEW T \in SUBSET Tickets, S \subseteq T
    PROVE  Total(S) \in Nat /\ Total(T) \in Nat /\ Total(S) <= Total(T)
BY TotalAssumption

LEMMA CountTyped ==
    ASSUME TypeInv
    PROVE  Count \in Nat /\ Mark("daily") \in Times
BY LedgerAssumption DEF TypeInv, TypeOK, RiskState, Count, CountAt, Mark, MarkAt, Times, Kinds

-----------------------------------------------------------------------------
(* What the sweeps leave in the counter.                                   *)

(* The steps that leave what is counted, booked and stored where it is.    *)
LEMMA QuietMissing ==
    ASSUME Base, Base', [Next]_vars, NothingMissing,
           RiskOwner' = RiskOwner, now' = now \/ Tick,
           Day(now') = Day(now), Count' = Count, Mark("daily")' = Mark("daily"),
           booked' = booked,
           loop'.at = "sync" \/ (loop.at # "sync" /\ rows' = rows),
           low => low'
    PROVE  NothingMissing'
<1> SUFFICES ASSUME ~low'
             PROVE  /\ Count' >= Total(Owed' \cap booked')
                    /\ loop'.at # "sync" => Count' >= Total(Owed' \cap rows'[RiskOwner'])
  BY DEF NothingMissing
<1>1. /\ Owed \subseteq Owed' /\ Owed' \cap Closures \subseteq Owed
      /\ booked \subseteq Closures
  BY OwedGrows DEF Base, OnlyClosures
<1>2. Owed' \cap booked' = Owed \cap booked
  BY <1>1
<1>3. loop'.at # "sync" => Owed' \cap rows'[RiskOwner'] = Owed \cap rows[RiskOwner]
  <2>1. CASE RiskOwner \in Accounts
    BY <1>1, <2>1 DEF Base, OnlyClosures
  <2>2. CASE RiskOwner \notin Accounts
    <3>1. Own = {} /\ Own' = {}
      BY <2>2, LedgerAssumption DEF Own
    <3>2. Owed = {} /\ Owed' = {}
      BY <3>1 DEF Owed, LossesAfter
    <3>3. QED
      BY <3>2
  <2>3. QED
    BY <2>1, <2>2
<1>4. QED
  BY <1>2, <1>3 DEF NothingMissing

LEMMA KeepingStill ==
    ASSUME TypeInv, Keeping
    PROVE  /\ now' = now /\ Count' = Count /\ \A k \in Kinds : Mark(k)' = Mark(k)
           /\ booked' = booked /\ (low => low') /\ (high => high')
           /\ \/ loop'.at = "sync" \/ (loop.at # "sync" /\ rows' = rows) \/ low'
           /\ \A a \in Accounts : rows[a] \subseteq rows'[a]
<1> USE DEF broker, database, ghosts
<1>0. rows \in [Accounts -> SUBSET Tickets] /\ loop \in LoopState
  BY DEF TypeInv, TypeOK
<1>1. now' = now /\ booked' = booked
  BY DEF Keeping, vars, Close, SwitchAccount, Start, Stop, ReadCache, ApplyPeak, WritePeak, Finish,
         FinishFails, Fetch, FetchFails, Fail, Store, StoreFails, SyncFails, ReadAccount,
         ReadPositions, Abort, DeferClosure, Periodic, NotYet, Finished, AskReset, SaveReset
<1>h. (low => low') /\ (high => high')
  <2>1. CASE Start
    BY <2>1 DEF Start
  <2>2. CASE Stop
    BY <2>2 DEF Stop
  <2>3. CASE SyncFails
    BY <2>3 DEF SyncFails
  <2>4. ASSUME low' = low, high' = high PROVE (low => low') /\ (high => high')
    BY <2>4
  <2>5. QED
    BY <2>1, <2>2, <2>3, <2>4
       DEF Keeping, vars, Close, SwitchAccount, ReadCache, ApplyPeak, WritePeak, Finish,
           FinishFails, Fetch, FetchFails, Store, StoreFails, ReadAccount, ReadPositions,
           Abort, DeferClosure, Periodic, NotYet, AskReset, SaveReset
<1>2. RiskKept
  BY KeepsRisk
<1>3. Count' = Count /\ \A k \in Kinds : Mark(k)' = Mark(k)
  BY <1>1, <1>2, Still DEF RiskKept
<1>4. /\ rows' = rows \/ (Store /\ loop'.at = "sync")
      /\ loop.at # "sync" \/ loop'.at = "sync" \/ low'
  BY <1>0 DEF Keeping, vars, Close, SwitchAccount, Start, Stop, ReadCache, ApplyPeak, WritePeak,
         Finish, FinishFails, Fetch, FetchFails, Fail, Return, Store, StoreFails, SyncFails,
         ReadAccount, ReadPositions, Abort, DeferClosure, Periodic, NotYet, Finished,
         AskReset, SaveReset, LoopState
<1>5. \A a \in Accounts : rows[a] \subseteq rows'[a]
  BY <1>0, <1>4 DEF Store
<1>6. QED
  BY <1>1, <1>h, <1>3, <1>4, <1>5

LEMMA NothingMissingStep ==
    ASSUME Base, Base', NothingMissing, [Next]_vars
    PROVE  NothingMissing'
<1> USE DEF broker, database, ghosts
<1>0. /\ TypeInv /\ NotAhead /\ OnlyClosures /\ Placed /\ "daily" \in Kinds
      /\ Count \in Nat /\ Count' \in Nat
  <2>1. TypeInv /\ TypeInv' /\ NotAhead /\ OnlyClosures /\ Placed /\ "daily" \in Kinds
    BY DEF Base, Kinds
  <2>2. Count' \in Nat
    BY <2>1, LedgerAssumption DEF TypeInv, TypeOK, RiskState, Count, CountAt
  <2>3. QED
    BY <2>1, <2>2, CountTyped
<1>a. SUFFICES ASSUME ~low' PROVE NothingMissing'
  BY DEF NothingMissing
<1>b. \/ RiskOwner' = RiskOwner
      \/ Count' = 0 /\ loop'.at = "off"
  BY <1>a, OwnerStep
<1>1. CASE Keeping
  <2>1. /\ now' = now /\ Count' = Count /\ Mark("daily")' = Mark("daily")
        /\ booked' = booked /\ (low => low')
        /\ \/ loop'.at = "sync" \/ (loop.at # "sync" /\ rows' = rows)
    BY <1>0, <1>1, <1>a, KeepingStill
  <2>2. RiskOwner' = RiskOwner
    <3>1. CASE Stop
      <4>1. loop.at # "off" /\ loop'.at = "off" /\ active' = active
        BY <3>1, RecordsTyped DEF Stop
      <4>2. loop.back # "positions"
        BY <1>a, <3>1 DEF Stop
      <4>3. RiskOwner = active
        BY <1>0, <4>1, <4>2, OwnerIs DEF Placed
      <4>4. RiskOwner' = active'
        BY <4>1 DEF RiskOwner, AtAccount
      <4>5. QED
        BY <4>1, <4>3, <4>4
    <3>2. CASE ~Stop
      <4>1. loop \in LoopState
        BY <1>0 DEF TypeInv, TypeOK
      <4>2. \/ loop'.at # "off"
            \/ loop' = loop /\ active' = active
        <5>1. CASE ApplyPeak \/ \E b \in BOOLEAN : ReadCache(b) \/ WritePeak(b)
          <6>1. CASE ApplyPeak
            BY <4>1, <6>1 DEF ApplyPeak, LoopState
          <6>2. ASSUME NEW b \in BOOLEAN, ReadCache(b) PROVE loop'.at # "off"
            BY <4>1, <6>2 DEF ReadCache, LoopState
          <6>3. ASSUME NEW b \in BOOLEAN, WritePeak(b) PROVE loop'.at # "off"
            <7>1. loop' = [loop EXCEPT !.at = IF loop.synced THEN "finish" ELSE "fetch", !.got = 0]
              BY <6>3 DEF WritePeak
            <7>2. QED
              BY <4>1, <7>1 DEF LoopState
          <6>4. QED
            BY <5>1, <6>1, <6>2, <6>3
        <5>2. CASE Finish \/ FinishFails \/ FetchFails \/ StoreFails \/ SyncFails
          BY <4>1, <5>2
             DEF Finish, FinishFails, FetchFails, StoreFails, SyncFails, Fail, Return, LoopState
        <5>3. CASE Start
          BY <5>3 DEF Start, Off
        <5>4. CASE \/ SwitchAccount \/ UNCHANGED vars
                   \/ \E t \in Tickets : Close(t)
                   \/ \E k \in Commands : AskReset(k) \/ SaveReset(k)
          BY <5>4 DEF SwitchAccount, vars, Close, AskReset, SaveReset
        <5>5. CASE \/ Store \/ ReadPositions \/ Abort \/ Periodic \/ NotYet
                   \/ ReadAccount /\ terminal = active
                   \/ \E t \in Tickets : DeferClosure(t)
                   \/ \E shown \in SUBSET ClosedOn(terminal) : Fetch(shown)
          BY <4>1, <5>5
             DEF Store, ReadPositions, Abort, Periodic, NotYet, Finished, ReadAccount,
                 DeferClosure, Fetch, LoopState
        <5>6. QED
          BY <1>1, <3>2, <5>1, <5>2, <5>3, <5>4, <5>5 DEF Keeping
      <4>3. QED
        BY <1>b, <4>2 DEF RiskOwner, AtAccount
    <3>3. QED
      BY <3>1, <3>2
  <2>3. Day(now') = Day(now)
    BY <2>1
  <2>4. QED
    BY <1>a, <2>1, <2>2, <2>3, QuietMissing
<1>2. CASE Tick
  <2>1. /\ RiskOwner' = RiskOwner /\ booked' = booked /\ rows' = rows /\ loop' = loop /\ low' = low
    BY <1>2 DEF Tick, RiskOwner
  <2>2. CASE Day(now') = Day(now)
    <3>1. Count' = Count /\ Mark("daily")' = Mark("daily")
      BY <1>0, <1>2, <2>2, TickRisk
    <3>2. loop'.at = "sync" \/ (loop.at # "sync" /\ rows' = rows)
      BY <2>1
    <3>3. QED
      BY <1>2, <2>1, <2>2, <3>1, <3>2, QuietMissing
  <2>3. CASE Day(now') # Day(now)
    <3>1. \A t \in Tickets : closedAt[t] \in Nat /\ closedAt[t] <= now /\ now \in Nat
      BY <1>0, LedgerAssumption DEF TypeInv, TypeOK, NotAhead, Times
    <3>2. \A t \in Tickets : Day(closedAt[t]) <= Day(now)
      BY <3>1, DayMonotonic
    <3>3. /\ Day(now) \in Nat /\ Day(now') \in Nat /\ Day(now) <= Day(now')
          /\ \A t \in Tickets : Day(closedAt[t]) \in Nat
      <4>1. TypeOK /\ TypeOK'
        BY DEF Base, TypeInv
      <4>2. now \in Nat /\ now' \in Nat
        BY <4>1, LedgerAssumption DEF TypeOK
      <4>3. QED
        BY <1>0, <1>2, <3>1, <4>2, DayTyped, TickRisk
    <3>4. \A t \in Tickets : Day(closedAt[t]) # Day(now')
      BY <2>3, <3>2, <3>3
    <3>5. closedAt' = closedAt
      BY <1>2 DEF Tick
    <3>6. Owed' = {}
      BY <3>4, <3>5, LedgerAssumption DEF Owed, Own, LossesAfter, Day
    <3>7. \A S : Total(Owed' \cap S) = 0
      BY <3>6, TotalAssumption
    <3>8. QED
      BY <1>0, <3>7 DEF NothingMissing
  <2>4. QED
    BY <2>2, <2>3
<1>3. CASE Crash \/ (ReadAccount /\ terminal # active)
  BY <1>3, <1>a DEF Crash, ReadAccount, BlankGhosts
<1>4. CASE ApplyMarker
  BY <1>4, <1>a DEF ApplyMarker
<1>5. CASE Sync
  <2> DEFINE a == loop.acct
             L == LossesAfter(rows[a], Mark("daily"))
  <2>1. /\ a \in Accounts /\ CountAt(risk', Day(now)) = Greater(Count, Total(L))
        /\ MarkAt(risk', "daily", Day(now)) = Mark("daily")
        /\ loop'.at = "read" /\ loop'.acct = a
    BY <1>0, <1>5, SyncRisk
  <2>2. now' = now /\ booked' = booked /\ rows' = rows /\ (low => ~(~booked \subseteq rows[a]))
        /\ loop.at = "sync"
    BY <1>5, <1>a DEF Sync
  <2>3. Count' = Greater(Count, Total(L)) /\ Mark("daily")' = Mark("daily")
    BY <2>1, <2>2, Still
  <2>4. RiskOwner = a /\ RiskOwner' = a
    BY <2>1, <2>2 DEF RiskOwner, AtAccount
  <2>5. /\ Owed' \cap Closures \subseteq Owed
        /\ booked \subseteq Closures /\ rows[a] \subseteq Closures
    BY <1>0, <2>1, <2>2, <2>3, <2>4, OwedGrows DEF OnlyClosures
  <2>6. Owed \cap rows[a] \subseteq L
    BY DEF Owed, LossesAfter
  <2>7. L \in SUBSET Tickets /\ Owed \in SUBSET Tickets /\ Owed' \in SUBSET Tickets
    BY <1>0, <2>5, OwedTickets, LedgerAssumption DEF Closures, LossesAfter
  <2> HIDE DEF L
  <2>8. Total(L) \in Nat /\ Count' >= Count /\ Count' >= Total(L)
    BY <1>0, <2>3, <2>7, TotalAssumption, GreaterTyped
  <2>9. Owed' \cap rows[a] \subseteq L
    BY <2>5, <2>6
  <2>10. Count' >= Total(Owed' \cap rows[a])
    <3>1. /\ Total(Owed' \cap rows[a]) \in Nat
          /\ Total(Owed' \cap rows[a]) <= Total(L)
      BY <2>7, <2>9, TotalGrows
    <3>2. QED
      BY <1>0, <2>8, <3>1
  <2>11. Count' >= Total(Owed' \cap booked)
    <3>1. CASE low
      <4>1. Owed' \cap booked \subseteq L
        BY <2>2, <2>9, <3>1
      <4>2. /\ Total(Owed' \cap booked) \in Nat
            /\ Total(Owed' \cap booked) <= Total(L)
        BY <2>7, <4>1, TotalGrows
      <4>3. QED
        BY <1>0, <2>8, <4>2
    <3>2. CASE ~low
      <4>1. Count >= Total(Owed \cap booked)
        BY <3>2 DEF NothingMissing
      <4>2. Owed' \cap booked \subseteq Owed \cap booked
        BY <2>5
      <4>3. /\ Total(Owed' \cap booked) \in Nat /\ Total(Owed \cap booked) \in Nat
            /\ Total(Owed' \cap booked) <= Total(Owed \cap booked)
        BY <2>7, <4>2, TotalGrows
      <4>4. QED
        BY <1>0, <2>8, <4>1, <4>3
    <3>3. QED
      BY <3>1, <3>2
  <2>12. QED
    BY <2>2, <2>4, <2>10, <2>11 DEF NothingMissing
<1>6. ASSUME NEW t \in Tickets, BookClosure(t) PROVE NothingMissing'
  <2>1. /\ loop.at = "closures" /\ loop'.at = "closures" /\ loop'.acct = loop.acct
        /\ Loss(t) \in Nat /\ risk'.day = risk.day /\ risk'.mark = risk.mark
        /\ risk'.daily = risk.daily + Loss(t)
    BY <1>0, <1>6, BookRisk
  <2>2. /\ now' = now /\ rows' = rows /\ active' = active
        /\ booked' = IF Real(t) THEN booked \cup {t} ELSE booked
        /\ ~low /\ (Loss(t) > 0 => risk.day = Day(now))
    BY <1>6, <1>a DEF BookClosure, Real, Loss
  <2>3. Mark("daily")' = Mark("daily")
    BY <2>1, <2>2, Still DEF Mark, MarkAt
  <2>4. RiskOwner' = RiskOwner /\ RiskOwner \in Accounts
    <3>1. RiskOwner' = active' /\ RiskOwner = active
      BY <2>1 DEF RiskOwner, AtAccount
    <3>2. QED
      BY <1>0, <2>1, <2>2, <3>1 DEF TypeInv, WorksForAccount
  <2>5. /\ Owed' \cap Closures \subseteq Owed
        /\ booked \subseteq Closures /\ rows[RiskOwner] \subseteq Closures
    BY <1>0, <2>2, <2>3, <2>4, OwedGrows DEF OnlyClosures
  <2>6. Count' = Count + Loss(t)
    <3>1. Count' = CountAt(risk', Day(now)) /\ risk.daily \in Nat
      BY <1>0, <2>2, Still DEF TypeInv, TypeOK, RiskState
    <3>2. QED
      BY <2>1, <2>2, <3>1 DEF Count, CountAt
  <2>7. /\ Count >= Total(Owed \cap booked)
        /\ Count >= Total(Owed \cap rows[RiskOwner])
    BY <2>1, <2>2 DEF NothingMissing
  <2>8. Count' >= Total(Owed' \cap rows'[RiskOwner'])
    <3>1. Owed' \cap rows'[RiskOwner'] \subseteq Owed \cap rows[RiskOwner]
      BY <2>2, <2>4, <2>5
    <3>2. /\ Total(Owed' \cap rows'[RiskOwner']) \in Nat
          /\ Total(Owed \cap rows[RiskOwner]) \in Nat
          /\ Total(Owed' \cap rows'[RiskOwner']) <= Total(Owed \cap rows[RiskOwner])
      BY <3>1, OwedTickets, TotalGrows
    <3>3. QED
      BY <1>0, <2>1, <2>6, <2>7, <3>2
  <2>9. Count' >= Total(Owed' \cap booked')
    <3> DEFINE X == Owed \cap booked
    <3>1. X \in SUBSET Tickets /\ Owed' \cap booked' \in SUBSET Tickets
      BY OwedTickets
    <3>2. Owed' \cap booked' \subseteq X \cup {t}
      BY <2>2, <2>5
    <3>3. CASE t \notin Owed' \cap booked' \/ t \in X
      <4>1. Owed' \cap booked' \subseteq X
        BY <3>2, <3>3
      <4>2. /\ Total(Owed' \cap booked') \in Nat /\ Total(X) \in Nat
            /\ Total(Owed' \cap booked') <= Total(X)
        BY <3>1, <4>1, TotalGrows
      <4>3. QED
        BY <1>0, <2>1, <2>6, <2>7, <4>2
    <3>4. CASE t \in Owed' \cap booked' /\ t \notin X
      <4>1. t \notin booked
        BY <2>5, <3>4
      <4>2. Real(t)
        BY <2>2, <3>4, <4>1
      <4>3. Loss(t) = LossOf[t]
        BY <4>2 DEF Loss
      <4>4. Total(X \cup {t}) = Total(X) + LossOf[t] /\ Total(X) \in Nat
        BY <3>1, <3>4, TotalAssumption
      <4>5. X \cup {t} \in SUBSET Tickets
        BY <3>1
      <4>6. /\ Total(Owed' \cap booked') \in Nat
            /\ Total(Owed' \cap booked') <= Total(X \cup {t})
        BY <3>1, <3>2, <4>5, TotalGrows
      <4>7. QED
        BY <1>0, <2>1, <2>6, <2>7, <4>3, <4>4, <4>6
    <3>5. QED
      BY <3>3, <3>4
  <2>10. QED
    BY <2>8, <2>9 DEF NothingMissing
<1>7. ASSUME NEW k \in Commands, ApplyReset(k) PROVE NothingMissing'
  <2> DEFINE m == cmd[k].marker
  <2>1. /\ k \in Kinds /\ loop' = loop /\ rows' = rows /\ booked' = booked /\ now' = now
        /\ active' = active /\ ~low
        /\ k # "streak" => cmd[k].acct = RiskOwner /\ Day(m) = Day(now)
        /\ k = "daily" => LossesAfter(booked \cup rows[cmd[k].acct], m) = {}
    BY <1>0, <1>7, <1>a, ApplyRisk DEF ApplyReset
  <2>2. RiskOwner' = RiskOwner
    BY <2>1 DEF RiskOwner
  <2>3. CASE k # "daily"
    <3>1. k = "streak" \/ (k = "cooldown" /\ Day(m) = Day(now))
      BY <2>1, <2>3 DEF Kinds
    <3>2. CountAt(risk', Day(now)) = Count /\ MarkAt(risk', "daily", Day(now)) = Mark("daily")
      BY <1>0, <1>7, <3>1, ApplyRisk
    <3>3. Count' = Count /\ Mark("daily")' = Mark("daily") /\ Day(now') = Day(now)
      BY <2>1, <3>2, Still
    <3>4. loop'.at = "sync" \/ (loop.at # "sync" /\ rows' = rows)
      BY <2>1
    <3>5. QED
      BY <1>a, <2>1, <2>2, <3>3, <3>4, QuietMissing
  <2>4. CASE k = "daily"
    <3>1. Mark("daily")' = m
      <4>1. MarkAt(risk', "daily", Day(now)) = m
        BY <1>0, <1>7, <2>1, <2>4, ApplyRisk
      <4>2. QED
        BY <2>1, <4>1, Still
    <3>2. closedAt' = closedAt
      BY <1>7 DEF ApplyReset
    <3>3. Owed' = LossesAfter(Own, m)
      BY <2>1, <2>2, <3>1, <3>2 DEF Owed, Own, LossesAfter, Day
    <3>4. Owed' \cap booked = {} /\ Owed' \cap rows[RiskOwner] = {}
      BY <2>1, <2>4, <3>3 DEF LossesAfter
    <3>5. QED
      BY <1>0, <2>1, <2>2, <3>4, TotalAssumption DEF NothingMissing
  <2>5. QED
    BY <2>3, <2>4
<1>8. QED
  BY <1>1, <1>2, <1>3, <1>4, <1>5, <1>6, <1>7, StepKinds

(* The steps after which no more is counted, and no less is owed.          *)
LEMMA QuietTwice ==
    ASSUME Base, Base', [Next]_vars, NothingTwice, high => high',
           RiskOwner' = RiskOwner, Day(now') = Day(now), RiskOwner \in Accounts,
           Count' = Count, Mark("daily")' = Mark("daily"),
           booked \subseteq booked', \A a \in Accounts : rows[a] \subseteq rows'[a]
    PROVE  NothingTwice'
<1> SUFFICES ASSUME ~high'
             PROVE  Count' <= Total(Owed' \cap (booked' \cup rows'[RiskOwner']))
  BY DEF NothingTwice
<1> DEFINE X == Owed \cap (booked \cup rows[RiskOwner])
           Y == Owed' \cap (booked' \cup rows'[RiskOwner'])
<1>1. X \subseteq Y
  BY OwedGrows
<1>2. X \in SUBSET Tickets /\ Y \in SUBSET Tickets
  BY OwedTickets
<1>3. Count <= Total(X)
  BY DEF NothingTwice
<1>4. Count \in Nat
  BY CountTyped DEF Base
<1> HIDE DEF X, Y
<1>5. Total(X) \in Nat /\ Total(Y) \in Nat /\ Total(X) <= Total(Y)
  BY <1>1, <1>2, TotalGrows
<1>6. Count' <= Total(Y)
  BY <1>3, <1>4, <1>5
<1>7. QED
  BY <1>6 DEF Y

LEMMA EmptyTwice ==
    ASSUME Base', Count' = 0
    PROVE  NothingTwice'
<1>1. Owed' \cap (booked' \cup rows'[RiskOwner']) \in SUBSET Tickets
  BY OwedTickets
<1>2. Total(Owed' \cap (booked' \cup rows'[RiskOwner'])) \in Nat
  BY <1>1, TotalAssumption
<1>3. QED
  BY <1>2 DEF NothingTwice

LEMMA NothingTwiceStep ==
    ASSUME Base, Base', NothingTwice, [Next]_vars
    PROVE  NothingTwice'
<1> USE DEF broker, database, ghosts
<1>0. /\ TypeInv /\ NotAhead /\ OnlyClosures /\ Placed /\ "daily" \in Kinds
      /\ Count \in Nat
      /\ RiskOwner \in Accounts \/ (RiskOwner = NoAccount /\ Count = 0)
  <2>1. TypeInv /\ NotAhead /\ OnlyClosures /\ Placed /\ "daily" \in Kinds
    BY DEF Base, Kinds
  <2>2. RiskOwner = NoAccount => Count = 0
    BY <2>1, OwnerIs DEF Placed
  <2>3. QED
    BY <2>1, <2>2, CountTyped, OwnerIs
<1>a. SUFFICES ASSUME ~high', Count' # 0 PROVE NothingTwice'
  BY EmptyTwice DEF NothingTwice
<1>b. RiskOwner' = RiskOwner
  BY <1>a, OwnerStep
<1>c. ASSUME now' = now, CountAt(risk', Day(now)) \in {0, Count}, 
             CountAt(risk', Day(now)) # 0 => MarkAt(risk', "daily", Day(now)) = Mark("daily")
      PROVE  /\ Count' = Count /\ Mark("daily")' = Mark("daily") /\ RiskOwner \in Accounts
             /\ Day(now') = Day(now)
  BY <1>0, <1>a, <1>c, Still
<1>1. CASE Keeping
  <2>1. /\ now' = now /\ Count' = Count /\ Mark("daily")' = Mark("daily")
        /\ booked' = booked /\ (high => high') /\ \A a \in Accounts : rows[a] \subseteq rows'[a]
    BY <1>0, <1>1, KeepingStill
  <2>2. RiskOwner \in Accounts /\ Day(now') = Day(now)
    BY <1>0, <1>a, <2>1
  <2>3. QED
    BY <1>b, <2>1, <2>2, QuietTwice
<1>2. CASE Tick
  <2>1. Day(now') = Day(now) /\ Count' = Count /\ Mark("daily")' = Mark("daily")
    BY <1>0, <1>2, <1>a, TickRisk
  <2>2. RiskOwner \in Accounts /\ booked' = booked /\ rows' = rows /\ high' = high
    BY <1>0, <1>2, <1>a, <2>1 DEF Tick
  <2>3. QED
    BY <1>b, <2>1, <2>2, QuietTwice
<1>3. CASE Crash \/ (ReadAccount /\ terminal # active)
  <2>1. risk' = Blank
    BY <1>3 DEF Crash, ReadAccount, Cleared
  <2>2. QED
    BY <1>a, <2>1, BlankTyped DEF Count
<1>4. CASE ApplyMarker
  <2>1. now' = now /\ booked' = booked /\ rows' = rows /\ high' = high
    BY <1>4 DEF ApplyMarker
  <2>2. \/ CountAt(risk', Day(now)) = 0
        \/ CountAt(risk', Day(now)) = Count /\ MarkAt(risk', "daily", Day(now)) = Mark("daily")
    BY <1>0, <1>4, MarkerRisk
  <2>3. /\ Count' = Count /\ Mark("daily")' = Mark("daily") /\ RiskOwner \in Accounts
        /\ Day(now') = Day(now)
    BY <1>c, <2>1, <2>2
  <2>4. QED
    BY <1>b, <2>1, <2>3, QuietTwice
<1>5. CASE Sync
  <2> DEFINE a == loop.acct
             L == LossesAfter(rows[a], Mark("daily"))
             X == Owed \cap (booked \cup rows[a])
             Y == Owed' \cap (booked' \cup rows'[RiskOwner'])
  <2>1. /\ a \in Accounts /\ CountAt(risk', Day(now)) = Greater(Count, Total(L))
        /\ MarkAt(risk', "daily", Day(now)) = Mark("daily")
    BY <1>0, <1>5, SyncRisk
  <2>2. /\ now' = now /\ booked' = booked /\ rows' = rows /\ ~high
        /\ \A t \in rows[a] : OwnerOf[t] = a
    BY <1>5, <1>a DEF Sync
  <2>3. /\ Count' = Greater(Count, Total(L)) /\ Mark("daily")' = Mark("daily")
        /\ Day(now') = Day(now)
    BY <2>1, <2>2, Still
  <2>4. RiskOwner = a
    BY <1>5 DEF Sync, RiskOwner, AtAccount
  <2>5. Owed \subseteq Owed'
    BY <1>b, <2>3, OwedGrows
  <2>6. L \subseteq X
    <3>1. rows[a] \subseteq Strategy
      BY <1>0, <2>1 DEF OnlyClosures, Closures
    <3>2. QED
      BY <2>2, <2>4, <3>1 DEF LossesAfter, Owed, Own
  <2>7. X \subseteq Y
    BY <1>b, <2>2, <2>4, <2>5
  <2>8. L \in SUBSET Tickets /\ X \in SUBSET Tickets /\ Y \in SUBSET Tickets
    BY <2>6, OwedTickets
  <2>9. Count <= Total(X)
    BY <2>2, <2>4 DEF NothingTwice
  <2> HIDE DEF L, X, Y
  <2>10. /\ Total(L) \in Nat /\ Total(X) \in Nat /\ Total(Y) \in Nat
         /\ Total(L) <= Total(X) /\ Total(X) <= Total(Y)
    BY <2>6, <2>7, <2>8, TotalGrows
  <2>11. Count' <= Total(Y)
    BY <1>0, <2>3, <2>9, <2>10 DEF Greater
  <2>12. QED
    BY <2>11 DEF NothingTwice, Y
<1>6. ASSUME NEW t \in Tickets, BookClosure(t) PROVE NothingTwice'
  <2> DEFINE X == Owed \cap (booked \cup rows[RiskOwner])
             Y == Owed' \cap (booked' \cup rows'[RiskOwner'])
  <2>1. /\ Loss(t) \in Nat /\ risk'.day = risk.day /\ risk'.mark = risk.mark
        /\ risk'.daily = risk.daily + Loss(t)
    BY <1>0, <1>6, BookRisk
  <2>2. /\ now' = now /\ rows' = rows /\ ~high
        /\ booked' = IF Real(t) THEN booked \cup {t} ELSE booked
        /\ Loss(t) > 0 => /\ t \notin booked \cup rows[RiskOwner]
                          /\ OwnerOf[t] = RiskOwner
                          /\ Day(closedAt[t]) = Day(now)
                          /\ ~(closedAt[t] <= risk.mark["daily"])
    BY <1>6, <1>a DEF BookClosure, Real, Loss
  <2>3. Mark("daily")' = Mark("daily") /\ Day(now') = Day(now)
    BY <2>1, <2>2, Still DEF Mark, MarkAt
  <2>4. Owed \subseteq Owed'
    BY <1>b, <2>3, OwedGrows
  <2>5. risk.day = Day(now) /\ Count = risk.daily /\ Count' = risk.daily + Loss(t)
        /\ RiskOwner \in Accounts
    <3>1. Count' = CountAt(risk', Day(now))
      BY <2>2, Still
    <3>2. risk'.day = Day(now)
      BY <1>a, <3>1 DEF CountAt
    <3>3. /\ Count = risk.daily /\ Count' = risk'.daily
      BY <2>1, <3>1, <3>2 DEF Count, CountAt
    <3>4. RiskOwner \in Accounts
      BY <1>0, <1>6, OwnerIs DEF BookClosure
    <3>5. QED
      BY <2>1, <3>2, <3>3, <3>4
  <2>6. CASE Loss(t) = 0
    <3>1. Count' = Count
      BY <1>0, <2>1, <2>5, <2>6
    <3>2. booked \subseteq booked' /\ (high => high')
      BY <2>2
    <3>3. QED
      BY <1>b, <2>2, <2>3, <2>5, <3>1, <3>2, QuietTwice
  <2>7. CASE Loss(t) > 0
    <3>1. Real(t) /\ Loss(t) = LossOf[t] /\ t \in booked' /\ booked \subseteq booked'
      BY <2>2, <2>7 DEF Loss
    <3>2. t \in Owed
      <4>1. Mark("daily") = risk.mark["daily"]
        BY <2>5 DEF Mark, MarkAt
      <4>2. closedAt[t] > risk.mark["daily"]
        BY <1>0, <2>2, <2>7, LedgerAssumption
           DEF TypeInv, TypeOK, RiskState, Kinds, Times
      <4>3. QED
        BY <2>2, <2>7, <3>1, <4>1, <4>2 DEF Owed, Own, LossesAfter, Real
    <3>3. t \notin X /\ X \cup {t} \subseteq Y
      BY <1>b, <2>2, <2>4, <2>7, <3>1, <3>2
    <3>4. X \in SUBSET Tickets /\ X \cup {t} \in SUBSET Tickets /\ Y \in SUBSET Tickets
      BY OwedTickets
    <3>5. Count <= Total(X)
      BY <2>2 DEF NothingTwice
    <3> HIDE DEF X, Y
    <3>6. Total(X \cup {t}) = Total(X) + LossOf[t] /\ Total(X) \in Nat
      BY <3>3, <3>4, TotalAssumption
    <3>7. Total(X \cup {t}) \in Nat /\ Total(Y) \in Nat /\ Total(X \cup {t}) <= Total(Y)
      BY <3>3, <3>4, TotalGrows
    <3>8. Count' <= Total(Y)
      BY <1>0, <2>1, <2>5, <3>1, <3>5, <3>6, <3>7
    <3>9. QED
      BY <3>8 DEF NothingTwice, Y
  <2>8. QED
    BY <2>1, <2>6, <2>7
<1>7. ASSUME NEW k \in Commands, ApplyReset(k) PROVE NothingTwice'
  <2>1. now' = now /\ booked' = booked /\ rows' = rows /\ high' = high
    BY <1>7 DEF ApplyReset
  <2>2. CountAt(risk', Day(now)) # 0 =>
           CountAt(risk', Day(now)) = Count /\ MarkAt(risk', "daily", Day(now)) = Mark("daily")
    BY <1>0, <1>7, ApplyRisk
  <2>3. /\ Count' = Count /\ Mark("daily")' = Mark("daily") /\ RiskOwner \in Accounts
        /\ Day(now') = Day(now)
    BY <1>c, <2>1, <2>2
  <2>4. QED
    BY <1>b, <2>1, <2>3, QuietTwice
<1>8. QED
  BY <1>1, <1>2, <1>3, <1>4, <1>5, <1>6, <1>7, StepKinds

LEMMA CountedInit == Init => NothingMissing /\ NothingTwice
<1> SUFFICES ASSUME Init PROVE NothingMissing /\ NothingTwice
  OBVIOUS
<1>1. low = TRUE /\ Count = 0
  BY BlankTyped DEF Init, Count
<1>2. Owed \cap (booked \cup rows[RiskOwner]) \in SUBSET Tickets
  BY OwedTickets
<1>3. QED
  BY <1>1, <1>2, TotalAssumption DEF NothingMissing, NothingTwice

LEMMA DueIsOwed ==
    ASSUME UpToDate
    PROVE  Count = risk.daily /\ Due(RiskOwner) = Owed
BY DEF UpToDate, Count, CountAt, Due, Owed, Own, Mark, MarkAt

Counted == Base /\ NothingMissing /\ NothingTwice

LEMMA CountedAlways == Spec => []Counted
<1>1. Init => Counted
  BY BaseInit, CountedInit DEF Counted
<1>2. Counted /\ [Next]_vars => Counted'
  BY BaseStep, NothingMissingStep, NothingTwiceStep DEF Counted
<1>3. QED
  BY <1>1, <1>2, PTL DEF Spec

(* Outside low, the counter of the day holds every loss that was booked or  *)
(* is in the stored history, whatever reset, poll or failure came between   *)
(* (synchronize_closed_trades and record_trade_closed).                     *)
THEOREM CountsWhatIsKnown == Spec => []CountsWhatItKnows
<1>1. Counted => CountsWhatItKnows
  BY DueIsOwed DEF Counted, NothingMissing, CountsWhatItKnows
<1>2. QED
  BY <1>1, CountedAlways, PTL

(* Outside high, the counter never exceeds what the account has lost since  *)
(* midnight and the operator's reset.                                      *)
THEOREM NeverInflated == Spec => []NotInflated
<1>1. ASSUME Counted, ~high, UpToDate PROVE risk.daily <= Total(Due(RiskOwner))
  <2> DEFINE X == Owed \cap (booked \cup rows[RiskOwner])
  <2>1. Count <= Total(X) /\ Count \in Nat
    BY <1>1, CountTyped DEF Counted, NothingTwice, Base
  <2>2. X \in SUBSET Tickets /\ Owed \in SUBSET Tickets /\ X \subseteq Owed
    BY OwedTickets
  <2> HIDE DEF X
  <2>3. Total(X) \in Nat /\ Total(Owed) \in Nat /\ Total(X) <= Total(Owed)
    BY <2>2, TotalGrows
  <2>4. QED
    BY <1>1, <2>1, <2>3, DueIsOwed
<1>2. Counted => NotInflated
  BY <1>1 DEF NotInflated
<1>3. QED
  BY <1>2, CountedAlways, PTL

-----------------------------------------------------------------------------
(* The peak balance.                                                       *)
(* The cached peak changes in one place...                                 *)
LEMMA CacheChange ==
    ASSUME [Next]_vars
    PROVE  \/ savedPeak' = savedPeak
           \/ /\ loop.at = "write" /\ risk' = risk
              /\ savedPeak' = [savedPeak EXCEPT ![loop.acct] = risk.peak]
<1> USE DEF broker, database, ghosts
<1>1. CASE \E b \in BOOLEAN : WritePeak(b)
  BY <1>1 DEF WritePeak
<1>2. CASE ~ \E b \in BOOLEAN : WritePeak(b)
  BY <1>2
     DEF Next, Environment, Engine, Operator, vars, Tick, Close, SwitchAccount, Start, Stop, Crash,
         ReadCache, ApplyMarker, ApplyPeak, Finish, FinishFails, Fetch, FetchFails, Fail, Store,
         StoreFails, Sync, SyncFails, ReadAccount, ReadPositions, Abort, BookClosure, DeferClosure,
         Periodic, NotYet, Finished, AskReset, SaveReset, ApplyReset
<1>3. QED
  BY <1>1, <1>2

(* ...and what a read of it returned is looked at in two.                  *)
LEMMA ReadChange ==
    ASSUME TypeInv, [Next]_vars
    PROVE  \/ loop' = loop /\ savedPeak' = savedPeak /\ risk'.peak = risk.peak
           \/ loop' = loop /\ loop.at \notin {"apply", "write"}
           \/ /\ loop.at = "read" /\ loop'.at = "apply" /\ loop'.item = loop.item
              /\ loop'.acct = loop.acct /\ savedPeak' = savedPeak
              /\ loop.item = "peak" => loop'.got \in {0, savedPeak[loop.acct]}
           \/ /\ ApplyPeak /\ loop'.at = "write" /\ loop'.item = loop.item
              /\ loop'.acct = loop.acct /\ loop'.got = loop.got
              /\ savedPeak' = savedPeak
           \/ loop'.at \notin {"apply", "write"}
<1> USE DEF broker, database, ghosts
<1>0. loop \in LoopState
  BY DEF TypeInv, TypeOK
<1>1. ASSUME NEW b \in BOOLEAN, ReadCache(b)
      PROVE  /\ loop.at = "read" /\ loop'.at = "apply" /\ loop'.item = loop.item
             /\ loop'.acct = loop.acct /\ savedPeak' = savedPeak
             /\ loop.item = "peak" => loop'.got \in {0, savedPeak[loop.acct]}
  <2> DEFINE value == IF loop.item = "peak" THEN savedPeak[loop.acct]
                                            ELSE saved[loop.acct][loop.item]
  <2>1. loop' = [loop EXCEPT !.at = "apply", !.got = IF b THEN 0 ELSE value]
        /\ loop.at = "read" /\ savedPeak' = savedPeak
    BY <1>1 DEF ReadCache
  <2>2. loop.item = "peak" => value = savedPeak[loop.acct]
    OBVIOUS
  <2> HIDE DEF value
  <2>3. QED
    BY <1>0, <2>1, <2>2 DEF LoopState
<1>2. CASE ApplyPeak
  BY <1>0, <1>2 DEF ApplyPeak, LoopState
<1>3. ASSUME NEW b \in BOOLEAN, WritePeak(b) PROVE loop'.at \notin {"apply", "write"}
  <2>1. loop' = [loop EXCEPT !.at = IF loop.synced THEN "finish" ELSE "fetch", !.got = 0]
    BY <1>3 DEF WritePeak
  <2>2. QED
    BY <1>0, <2>1 DEF LoopState
<1>4. CASE ApplyMarker
  BY <1>4, MarkerLoop
<1>5. CASE Sync
  BY <1>5, SyncRisk
<1>6. CASE FetchFails \/ StoreFails \/ SyncFails \/ Finish \/ FinishFails
  <2>1. Return(risk)
    BY <1>6 DEF FetchFails, StoreFails, SyncFails, Finish, FinishFails, Fail
  <2>2. QED
    BY <1>0, <2>1 DEF Return, LoopState
<1>7. CASE Start \/ Stop \/ Crash
  <2>1. CASE Start
    BY <2>1 DEF Start, Off
  <2>2. CASE Stop \/ Crash
    BY <2>2, RecordsTyped DEF Stop, Crash
  <2>3. QED
    BY <1>7, <2>1, <2>2
<1>8. CASE Store \/ Periodic \/ ReadPositions \/ Abort \/ NotYet
           \/ \E shown \in SUBSET ClosedOn(terminal) : Fetch(shown)
  BY <1>0, <1>8 DEF Store, Periodic, ReadPositions, Abort, NotYet, Finished, Fetch, LoopState
<1>9. CASE ReadAccount
  BY <1>0, <1>9 DEF ReadAccount, LoopState
<1>10. CASE \E t \in Tickets : BookClosure(t) \/ DeferClosure(t)
  BY <1>0, <1>10 DEF BookClosure, DeferClosure, LoopState
<1>11. ASSUME NEW k \in Commands, ApplyReset(k)
       PROVE  loop' = loop /\ savedPeak' = savedPeak /\ risk'.peak = risk.peak
  BY <1>11, ApplyRisk DEF ApplyReset
<1>12. CASE \/ Tick \/ SwitchAccount \/ UNCHANGED vars
            \/ \E t \in Tickets : Close(t)
            \/ \E k \in Commands : AskReset(k) \/ SaveReset(k)
  BY <1>12 DEF Tick, SwitchAccount, vars, Close, AskReset, SaveReset
<1>13. QED
  BY <1>1, <1>2, <1>3, <1>4, <1>5, <1>6, <1>7, <1>8, <1>9, <1>10, <1>11, <1>12
     DEF Next, Environment, Engine, Operator

LEMMA HighestTyped ==
    ASSUME NEW a \in Accounts
    PROVE  Highest(a) \in Nat /\ BalanceOf[a] \in Nat /\ BalanceOf[a] <= Highest(a)
BY LedgerAssumption DEF Highest, Greater

(* Windows stay open.                                                      *)
LEMMA CarriedStays ==
    ASSUME [Next]_vars, carried
    PROVE  carried'
<1> USE DEF broker, database, ghosts
<1>1. QED
  BY DEF Next, Environment, Engine, Operator, vars, Tick, Close, SwitchAccount, Start, Stop,
         Crash, ReadCache, ApplyMarker, ApplyPeak, WritePeak, Finish, FinishFails, Fetch,
         FetchFails, Fail, Store, StoreFails, Sync, SyncFails, ReadAccount, ReadPositions, Abort,
         BookClosure, DeferClosure, Periodic, NotYet, Finished, AskReset, SaveReset, ApplyReset

LEMMA PeakStep ==
    ASSUME Base, Base', PeakStored, [Next]_vars
    PROVE  PeakStored'
<1> USE DEF broker, database, ghosts
<1>0. /\ TypeInv /\ Placed /\ TypeInv' /\ Placed' /\ loop \in LoopState
      /\ risk \in RiskState /\ risk.peak \in Nat /\ savedPeak \in [Accounts -> Nat]
      /\ RiskOwner = IF loop.at = "off" THEN active ELSE loop.acct
      /\ loop.at # "off" => loop.acct \in Accounts /\ active \in Accounts
      /\ RiskOwner \in Accounts \/ RiskOwner = NoAccount
      /\ loop.got \in Nat /\ BalanceOf \in [Accounts -> Nat]
  <2>1. TypeInv /\ Placed /\ TypeInv' /\ Placed'
    BY DEF Base
  <2>2. RiskOwner = (IF loop.at = "off" THEN active ELSE loop.acct)
        /\ RiskOwner \in Accounts \cup {NoAccount}
    BY <2>1, OwnerIs
  <2>3. QED
    BY <2>1, <2>2, LedgerAssumption DEF TypeInv, TypeOK, RiskState, WorksForAccount, LoopState
<1>a. SUFFICES ASSUME ~carried'
               PROVE  /\ RiskOwner' \in Accounts => risk'.peak <= Highest(RiskOwner')
                      /\ \A a \in Accounts : savedPeak'[a] <= Highest(a)
                      /\ loop'.at = "apply" /\ loop'.item = "peak" =>
                            loop'.got <= Highest(loop'.acct)
  BY DEF PeakStored, Highest
<1>b. /\ RiskOwner \in Accounts => risk.peak <= Highest(RiskOwner)
      /\ \A a \in Accounts : savedPeak[a] <= Highest(a)
      /\ loop.at = "apply" /\ loop.item = "peak" => loop.got <= Highest(loop.acct)
  BY <1>a, CarriedStays DEF PeakStored
<1>c. \A a \in Accounts : Highest(a) \in Nat /\ BalanceOf[a] \in Nat /\ BalanceOf[a] <= Highest(a)
  BY HighestTyped
<1>d. RiskOwner' = RiskOwner \/ risk'.peak = 0
  BY <1>a, OwnerStep
<1>w. \A a \in Accounts : savedPeak'[a] <= Highest(a)
  <2>1. CASE savedPeak' = savedPeak
    BY <1>b, <2>1
  <2>2. CASE loop.at = "write" /\ savedPeak' = [savedPeak EXCEPT ![loop.acct] = risk.peak]
    <3>1. RiskOwner = loop.acct /\ loop.acct \in Accounts
      BY <1>0, <2>2
    <3>2. QED
      BY <1>0, <1>b, <2>2, <3>1
  <2>3. QED
    BY <2>1, <2>2, CacheChange
<1>g. loop'.at = "apply" /\ loop'.item = "peak" => loop'.got <= Highest(loop'.acct)
  <2>1. SUFFICES ASSUME loop'.at = "apply", loop'.item = "peak"
                 PROVE  loop'.got <= Highest(loop'.acct)
    OBVIOUS
  <2>2. CASE loop' = loop
    BY <1>b, <2>1, <2>2
  <2>3. CASE /\ loop.at = "read" /\ loop'.acct = loop.acct /\ loop'.item = loop.item
             /\ loop.item = "peak" => loop'.got \in {0, savedPeak[loop.acct]}
    BY <1>0, <1>b, <1>c, <2>1, <2>3
  <2>4. QED
    BY <1>0, <2>1, <2>2, <2>3, ReadChange
<1>e. ASSUME risk'.peak = 0 PROVE RiskOwner' \in Accounts => risk'.peak <= Highest(RiskOwner')
  BY <1>c, <1>e
<1>f. ASSUME risk'.peak = risk.peak
      PROVE  RiskOwner' \in Accounts => risk'.peak <= Highest(RiskOwner')
  BY <1>b, <1>d, <1>e, <1>f
<1>h. ASSUME NEW a \in Accounts, RiskOwner = a, RiskOwner' = a, NEW b \in Nat, b <= Highest(a),
             risk'.peak = Greater(risk.peak, b)
      PROVE  RiskOwner' \in Accounts => risk'.peak <= Highest(RiskOwner')
  BY <1>0, <1>b, <1>c, <1>h DEF Greater
<1>s. SUFFICES RiskOwner' \in Accounts => risk'.peak <= Highest(RiskOwner')
  BY <1>w, <1>g
<1>1. CASE Keeping
  <2>1. RiskKept
    BY <1>0, <1>1, KeepsRisk
  <2>2. CASE /\ loop'.at \in {"account", "positions"}
             /\ risk'.peak = Greater(risk.peak, BalanceOf[loop'.acct])
    <3>1. RiskOwner' = loop'.acct /\ loop'.acct \in Accounts
      BY <1>0, <2>2 DEF Placed, AtAccount, RiskOwner, TypeInv, WorksForAccount
    <3>2. CASE RiskOwner' = RiskOwner
      BY <1>c, <1>h, <2>2, <3>1, <3>2
    <3>3. QED
      BY <1>d, <1>e, <3>2
  <2>3. CASE /\ loop.at = "apply" /\ loop.item = "peak" /\ loop'.at = "write"
             /\ risk'.peak = Greater(risk.peak, Greater(BalanceOf[loop.acct], loop.got))
    <3>1. RiskOwner = loop.acct /\ loop.acct \in Accounts
      BY <1>0, <2>3
    <3>2. /\ Greater(BalanceOf[loop.acct], loop.got) \in Nat
          /\ Greater(BalanceOf[loop.acct], loop.got) <= Highest(loop.acct)
      BY <1>0, <1>b, <1>c, <2>3, <3>1 DEF Greater
    <3>3. CASE RiskOwner' = RiskOwner
      BY <1>h, <2>3, <3>1, <3>2, <3>3
    <3>4. QED
      BY <1>d, <1>e, <3>3
  <2>4. QED
    BY <1>f, <2>1, <2>2, <2>3 DEF RiskKept
<1>2. CASE Tick
  BY <1>f, <1>2 DEF Tick
<1>3. CASE Crash \/ (ReadAccount /\ terminal # active)
  <2>1. risk' = Blank
    BY <1>3 DEF Crash, ReadAccount, Cleared
  <2>2. QED
    BY <1>e, <2>1, BlankTyped
<1>4. CASE ApplyMarker
  BY <1>0, <1>4, <1>f, MarkerRisk
<1>5. CASE Sync
  <2>1. /\ loop.acct \in Accounts /\ loop'.acct = loop.acct /\ loop.at = "sync"
        /\ loop'.at = "read" /\ risk'.peak = Greater(risk.peak, BalanceOf[loop.acct])
    BY <1>0, <1>5, SyncRisk
  <2>2. RiskOwner' = loop.acct /\ RiskOwner = loop.acct
    BY <2>1 DEF RiskOwner, AtAccount
  <2>3. QED
    BY <1>c, <1>h, <2>1, <2>2
<1>6. ASSUME NEW t \in Tickets, BookClosure(t)
      PROVE  RiskOwner' \in Accounts => risk'.peak <= Highest(RiskOwner')
  <2>1. /\ loop.at = "closures" /\ loop'.at = "closures" /\ loop'.acct = loop.acct
        /\ risk'.peak \in {risk.peak, Greater(risk.peak, BalanceOf[loop.acct])}
    BY <1>0, <1>6, BookRisk
  <2>2. RiskOwner = loop.acct /\ RiskOwner' = loop.acct /\ loop.acct \in Accounts
    BY <1>0, <1>6, <2>1 DEF BookClosure, RiskOwner, AtAccount
  <2>3. CASE risk'.peak = risk.peak
    BY <1>f, <2>3
  <2>4. CASE risk'.peak = Greater(risk.peak, BalanceOf[loop.acct])
    BY <1>c, <1>h, <2>2, <2>4
  <2>5. QED
    BY <2>1, <2>3, <2>4
<1>7. ASSUME NEW k \in Commands, ApplyReset(k)
      PROVE  risk'.peak = risk.peak
  BY <1>0, <1>7, ApplyRisk DEF ApplyReset
<1>8. QED
  BY <1>1, <1>2, <1>3, <1>4, <1>5, <1>6, <1>7, <1>f, StepKinds

LEMMA PeakInit == Init => PeakStored
<1> SUFFICES ASSUME Init PROVE PeakStored
  OBVIOUS
<1>1. /\ risk.peak = 0 /\ savedPeak = PeakBefore /\ loop.at = "off"
  BY BlankTyped, RecordsTyped DEF Init
<1>2. \A a \in Accounts : Highest(a) \in Nat /\ PeakBefore[a] <= Highest(a)
  BY LedgerAssumption DEF Highest, Greater
<1>3. QED
  BY <1>1, <1>2 DEF PeakStored

(* The drawdown is measured from a balance this account has had, in memory  *)
(* and in the cache, while the engine has not been started on another       *)
(* account with the counters of the last one, nor stopped between the       *)
(* synchronization of a new account and the return of its reconciliation    *)
(* (engine.py 3088 and 3496).                                              *)
THEOREM PeakIsTheAccounts == Spec => []PeakIsOwn
<1>1. Init => Base /\ PeakStored
  BY BaseInit, PeakInit
<1>2. (Base /\ PeakStored) /\ [Next]_vars => (Base /\ PeakStored)'
  BY BaseStep, PeakStep
<1>3. Base /\ PeakStored => PeakIsOwn
  <2>1. ASSUME Base, active # NoAccount PROVE RiskOwner \in Accounts
    BY <2>1, OwnerIs DEF Base
  <2>2. QED
    BY <2>1 DEF PeakStored, PeakIsOwn
<1>4. QED
  BY <1>1, <1>2, <1>3, PTL DEF Spec

-----------------------------------------------------------------------------
(* The deferred closures.                                                  *)
LEMMA DeferredStep ==
    ASSUME Base, Base', DeferredKnown, [Next]_vars
    PROVE  DeferredKnown'
<1> USE DEF broker, database, ghosts
<1>0. /\ TypeInv /\ Placed /\ loop \in LoopState /\ rows \in [Accounts -> SUBSET Tickets]
      /\ loop.at # "off" => loop.acct \in Accounts /\ active \in Accounts
      /\ terminal \in Accounts /\ ready \in BOOLEAN
  BY DEF Base, TypeInv, TypeOK, WorksForAccount
<1> DEFINE Polls(p) == p \in {"account", "positions", "closures"}
<1>1. CASE loop' = loop /\ dropped' = dropped /\ rows' = rows /\ ready' = ready /\ active' = active
  BY <1>1 DEF DeferredKnown
<1>2. CASE loop'.at \in {"off", "read", "fetch"} /\ ~loop'.synced
  BY <1>2 DEF DeferredKnown
<1>3. CASE Polls(loop'.at) /\ ~loop'.synced /\ ready' = FALSE
  BY <1>3 DEF DeferredKnown
<1>4. CASE /\ Polls(loop.at) /\ Polls(loop'.at) /\ ~loop'.synced
           /\ dropped' = dropped /\ rows' = rows /\ ready' = ready /\ active' = active
  BY <1>4 DEF DeferredKnown
<1>a. CASE /\ loop'.at \in {"read", "apply", "write", "fetch", "finish"}
           /\ loop'.synced = loop.synced /\ loop'.acct = loop.acct
           /\ dropped' = dropped /\ rows' = rows
  BY <1>a DEF DeferredKnown
<1>b. Polls(loop.at) => ~loop.synced
  BY <1>0 DEF Placed, AtAccount
<1>5. CASE Start \/ Stop \/ Crash
  BY <1>2, <1>5, RecordsTyped DEF Start, Stop, Crash, Off
<1>6. CASE ApplyMarker \/ ApplyPeak \/ \E b \in BOOLEAN : ReadCache(b) \/ WritePeak(b)
  <2>1. CASE ApplyMarker
    <3>1. dropped' = dropped /\ rows' = rows
      BY <2>1 DEF ApplyMarker
    <3>2. QED
      BY <1>0, <1>a, <2>1, <3>1, MarkerLoop
  <2>2. CASE ApplyPeak
    BY <1>0, <1>a, <2>2 DEF ApplyPeak, LoopState
  <2>3. ASSUME NEW b \in BOOLEAN, ReadCache(b) PROVE DeferredKnown'
    <3> DEFINE got == loop'.got
    <3>1. loop' = [loop EXCEPT !.at = "apply", !.got = got] /\ dropped' = dropped /\ rows' = rows
      BY <1>0, <2>3 DEF ReadCache, LoopState
    <3> HIDE DEF got
    <3>2. loop'.at = "apply" /\ loop'.synced = loop.synced /\ loop'.acct = loop.acct
      BY <1>0, <3>1 DEF LoopState
    <3>3. QED
      BY <1>a, <3>1, <3>2
  <2>4. ASSUME NEW b \in BOOLEAN, WritePeak(b) PROVE DeferredKnown'
    <3>1. loop' = [loop EXCEPT !.at = IF loop.synced THEN "finish" ELSE "fetch", !.got = 0]
          /\ dropped' = dropped /\ rows' = rows
      BY <2>4 DEF WritePeak
    <3>2. loop'.at \in {"finish", "fetch"} /\ loop'.synced = loop.synced /\ loop'.acct = loop.acct
      BY <1>0, <3>1 DEF LoopState
    <3>3. QED
      BY <1>a, <3>1, <3>2
  <2>5. QED
    BY <1>6, <2>1, <2>2, <2>3, <2>4
<1>7. ASSUME NEW shown \in SUBSET ClosedOn(terminal), Fetch(shown) PROVE DeferredKnown'
  <2>1. /\ loop'.at = "store" /\ loop'.fetched = shown /\ dropped' = dropped \cap shown
        /\ loop'.synced = loop.synced /\ loop'.acct = loop.acct /\ rows' = rows
    BY <1>0, <1>7 DEF Fetch, LoopState
  <2>2. QED
    BY <2>1 DEF DeferredKnown
<1>8. CASE FetchFails \/ StoreFails \/ SyncFails \/ FinishFails
  <2>1. Return(risk) /\ ready' = FALSE
    BY <1>8 DEF FetchFails, StoreFails, SyncFails, FinishFails, Fail
  <2>2. Polls(loop'.at) /\ ~loop'.synced
    BY <1>0, <2>1 DEF Return, LoopState
  <2>3. QED
    BY <1>3, <2>1, <2>2
<1>9. CASE Store
  <2>1. /\ loop.at = "store" /\ loop'.at = "sync" /\ loop'.acct = loop.acct
        /\ loop.acct \in Accounts
        /\ rows'[loop.acct] = rows[loop.acct] \cup loop.fetched /\ dropped' = dropped
    BY <1>0, <1>9 DEF Store, LoopState
  <2>2. QED
    BY <2>1 DEF DeferredKnown
<1>10. CASE Sync
  <2>1. loop.at = "sync" /\ loop'.at = "read" /\ loop'.acct = loop.acct
        /\ rows' = rows /\ dropped' = dropped
    BY <1>0, <1>10 DEF Sync, LoopState
  <2>2. QED
    BY <2>1 DEF DeferredKnown
<1>c. CASE Finish
  <2>1. loop.at = "finish" /\ Return(risk) /\ rows' = rows /\ dropped' = dropped
    BY <1>c DEF Finish
  <2>2. Polls(loop'.at) /\ ~loop'.synced /\ active' = loop.acct
    BY <1>0, <2>1 DEF Return, LoopState
  <2>3. dropped \subseteq rows[loop.acct]
    BY <1>0, <2>1 DEF Placed, DeferredKnown
  <2>4. QED
    BY <2>1, <2>2, <2>3 DEF DeferredKnown
<1>11. CASE ReadAccount
  <2>1. CASE terminal = active
    <3>1. /\ Polls(loop.at) /\ Polls(loop'.at) /\ loop'.synced = loop.synced
          /\ dropped' = dropped /\ rows' = rows /\ ready' = ready /\ active' = active
      BY <1>0, <1>11, <2>1 DEF ReadAccount, LoopState
    <3>2. QED
      BY <1>4, <1>b, <3>1
  <2>2. CASE terminal # active
    <3>1. loop.at = "account" /\ loop'.at = "read" /\ loop'.synced = loop.synced
      BY <1>0, <1>11, <2>2 DEF ReadAccount, LoopState
    <3>2. QED
      BY <1>2, <1>b, <3>1
  <2>3. QED
    BY <2>1, <2>2
<1>12. CASE ReadPositions \/ Abort \/ NotYet \/ \E t \in Tickets : BookClosure(t)
  <2>1. /\ Polls(loop.at) /\ Polls(loop'.at) /\ loop'.synced = loop.synced
        /\ dropped' = dropped /\ rows' = rows /\ ready' = ready /\ active' = active
    BY <1>0, <1>12 DEF ReadPositions, Abort, NotYet, Finished, BookClosure, LoopState
  <2>2. QED
    BY <1>4, <1>b, <2>1
<1>13. ASSUME NEW t \in Tickets, DeferClosure(t) PROVE DeferredKnown'
  <2>1. Polls(loop.at) /\ Polls(loop'.at) /\ loop'.synced = loop.synced /\ ready' = FALSE
    BY <1>0, <1>13 DEF DeferClosure, LoopState
  <2>2. QED
    BY <1>3, <1>b, <2>1
<1>14. CASE Periodic
  <2>1. loop'.at = "fetch" /\ loop.at = "closures" /\ loop'.synced = loop.synced
    BY <1>0, <1>14 DEF Periodic, Finished, LoopState
  <2>2. QED
    BY <1>2, <1>b, <2>1
<1>15. QED
  BY <1>1, <1>5, <1>6, <1>7, <1>8, <1>9, <1>10, <1>11, <1>12, <1>13, <1>14, <1>c
     DEF Next, Environment, Engine, Operator, vars, Tick, Close, SwitchAccount, AskReset,
         SaveReset, ApplyReset

(* While the history counts as reconciled, no closure whose deals could not *)
(* be read is forgotten (engine.py 3680-3700).                              *)
THEOREM ReadyForgetsNothing == Spec => []ReadyKnowsDropped
<1>1. Init => Base /\ DeferredKnown
  BY BaseInit, RecordsTyped DEF Init, DeferredKnown
<1>2. (Base /\ DeferredKnown) /\ [Next]_vars => (Base /\ DeferredKnown)'
  BY BaseStep, DeferredStep
<1>3. Base /\ DeferredKnown => ReadyKnowsDropped
  BY DEF DeferredKnown, ReadyKnowsDropped
<1>4. QED
  BY <1>1, <1>2, <1>3, PTL DEF Spec

-----------------------------------------------------------------------------
(* The reset markers.                                                      *)
LEMMA CachedFirstStep ==
    ASSUME Base, Base', CachedFirst, [Next]_vars
    PROVE  CachedFirst'
<1>0. /\ saved \in [Accounts -> [Kinds -> Times]] /\ cmd \in [Kinds -> Command]
      /\ \A k \in Kinds : cmd[k].at # "idle" => cmd[k].acct \in Accounts
  BY DEF Base, TypeInv, TypeOK, WorksForAccount
<1>1. CASE saved' = saved /\ cmd' = cmd
  BY <1>1 DEF CachedFirst, Applying
<1>2. CASE saved' = saved /\ cmd' = [k \in Kinds |-> NoCommand]
  BY <1>2, RecordsTyped DEF CachedFirst, Applying
<1>3. ASSUME NEW k \in Commands,
             \/ AskReset(k) /\ saved' = saved
             \/ SaveReset(k)
             \/ saved' = saved /\ cmd' = [cmd EXCEPT ![k] = NoCommand]
      PROVE  CachedFirst'
  <2>1. k \in Kinds
    BY LedgerAssumption DEF Kinds
  <2>2. CASE AskReset(k) /\ saved' = saved
    BY <1>0, <2>1, <2>2 DEF AskReset, CachedFirst, Applying
  <2>3. CASE saved' = saved /\ cmd' = [cmd EXCEPT ![k] = NoCommand]
    BY <1>0, <2>1, <2>3, RecordsTyped DEF CachedFirst, Applying
  <2>4. CASE SaveReset(k) /\ cmd' = [cmd EXCEPT ![k].at = "applying"]
             /\ saved' = [saved EXCEPT ![cmd[k].acct][k] = cmd[k].marker]
    <3> DEFINE a == cmd[k].acct
               f == [saved[a] EXCEPT ![k] = cmd[k].marker]
    <3>1. a \in Accounts
      BY <1>0, <2>1, <2>4 DEF SaveReset
    <3>2. saved' = [saved EXCEPT ![a] = f]
      BY <2>4
    <3>3. f[k] = cmd[k].marker /\ \A j \in Kinds \ {k} : f[j] = saved[a][j]
      BY <1>0, <2>1, <3>1
    <3>4. /\ cmd'[k].at = "applying" /\ cmd'[k].acct = a /\ cmd'[k].marker = cmd[k].marker
          /\ \A j \in Kinds \ {k} : cmd'[j] = cmd[j]
      BY <1>0, <2>1, <2>4 DEF Command
    <3> HIDE DEF f
    <3>5. saved'[a] = f /\ \A b \in Accounts \ {a} : saved'[b] = saved[b]
      BY <1>0, <3>1, <3>2
    <3>6. ASSUME NEW j \in Kinds, cmd'[j].at = "applying"
          PROVE  saved'[cmd'[j].acct][j] = cmd'[j].marker
      <4>1. CASE j = k
        BY <3>3, <3>4, <3>5, <4>1
      <4>2. CASE j # k
        <5>1. cmd'[j] = cmd[j] /\ cmd[j].acct \in Accounts
              /\ saved[cmd[j].acct][j] = cmd[j].marker
          BY <1>0, <3>4, <3>6, <4>2 DEF CachedFirst, Applying
        <5>2. saved'[cmd[j].acct][j] = saved[cmd[j].acct][j]
          BY <3>3, <3>5, <4>2, <5>1
        <5>3. QED
          BY <5>1, <5>2
      <4>3. QED
        BY <4>1, <4>2
    <3>7. QED
      BY <3>6 DEF CachedFirst, Applying
  <2>5. QED
    BY <1>3, <2>2, <2>3, <2>4 DEF SaveReset
<1>4. QED
  BY <1>1, <1>2, <1>3, ResetChange

(* The steps that leave the markers, the cache and the resets as they are.  *)
LEMMA QuietMarks ==
    ASSUME Base, Base', MarksStored, strayed => strayed', saved' = saved,
           \A k \in Kinds : Applying(k) => Applying(k)',
           RiskOwner' = RiskOwner, Day(now') = Day(now),
           \A k \in Kinds : Mark(k)' = Mark(k),
           AllPending => AllPending', SomePending => SomePending',
           loop.item = "cooldown" => loop'.item = "cooldown",
           active' = NoAccount => active = NoAccount
    PROVE  MarksStored'
<1>1. \A k \in Kinds : Stored(k)' = Stored(k)
  BY DEF Stored
<1>3. /\ "daily" \in Kinds /\ "cooldown" \in Kinds /\ "streak" \in Kinds
  BY DEF Kinds
<1>4. /\ Today(Stored("daily"))' = Today(Stored("daily"))
      /\ Today(Stored("cooldown"))' = Today(Stored("cooldown"))
  BY <1>1, <1>3 DEF Today, Day
<1>5. DailyIsStored => DailyIsStored'
  BY <1>3, <1>4 DEF DailyIsStored
<1>6. CooldownIsStored => CooldownIsStored'
  BY <1>3, <1>4 DEF CooldownIsStored, Greater
<1>7. StreakIsStored => StreakIsStored'
  BY <1>1, <1>3 DEF StreakIsStored
<1>8. QED
  BY <1>3, <1>5, <1>6, <1>7 DEF MarksStored

(* Counters without a marker wait for the restoration.                     *)
LEMMA BlankMarks ==
    ASSUME AllPending', SomePending', \A k \in Kinds : Mark(k)' = 0
    PROVE  MarksStored'
BY DEF MarksStored, DailyIsStored, CooldownIsStored, StreakIsStored, Kinds

LEMMA StoredTyped ==
    ASSUME Base
    PROVE  /\ \A k \in Kinds : /\ Stored(k) \in Times /\ Today(Stored(k)) \in {0, Stored(k)}
                               /\ Stored(k) <= now /\ Mark(k) \in Times
           /\ Times \subseteq Nat /\ 0 \in Times
<1>1. /\ saved \in [Accounts -> [Kinds -> Times]] /\ risk \in RiskState
      /\ Times \subseteq Nat /\ 0 \in Times /\ now \in Nat
  BY LedgerAssumption, TodayTyped DEF Base, TypeInv, TypeOK, Times
<1>2. \A k \in Kinds : Stored(k) \in Times /\ Stored(k) <= now
  BY <1>1 DEF Stored, Base, NotAhead
<1>3. \A k \in Kinds : Mark(k) \in Times
  BY <1>1 DEF Mark, MarkAt, RiskState
<1>4. QED
  BY <1>1, <1>2, <1>3 DEF Today

LEMMA MarksStep ==
    ASSUME Base, Base', CachedFirst, MarksStored, [Next]_vars
    PROVE  MarksStored'
<1> USE DEF broker, database, ghosts
<1>0. /\ TypeInv /\ Placed /\ NotAhead /\ loop \in LoopState
      /\ "daily" \in Kinds /\ "cooldown" \in Kinds /\ "streak" \in Kinds
      /\ cmd \in [Kinds -> Command] /\ saved \in [Accounts -> [Kinds -> Times]]
      /\ loop.at # "off" => loop.acct \in Accounts /\ active \in Accounts
      /\ Kinds = {"daily", "cooldown", "streak"}
  BY DEF Base, Kinds, TypeInv, TypeOK, WorksForAccount
<1>a. SUFFICES ASSUME ~strayed' PROVE MarksStored'
  BY DEF MarksStored
<1>1. CASE Start
  <2>1. /\ loop.at = "off" /\ loop'.at = "read" /\ loop'.acct = terminal /\ active' = terminal
        /\ loop'.item = "daily"
        /\ saved' = saved /\ cmd' = cmd /\ ~strayed /\ now' = now
        /\ active \in {NoAccount, terminal} \/ risk = Blank
    BY <1>1, <1>a DEF Start, Off
  <2>2. \A k \in Kinds : Mark(k)' = Mark(k)
    BY <1>0, <1>1, KeepingStill DEF Keeping
  <2>3. CASE active = terminal
    <3>1. RiskOwner' = RiskOwner
      BY <2>1, <2>3 DEF RiskOwner, AtAccount
    <3>2. /\ AllPending' /\ SomePending' /\ loop.item = "peak"
          /\ Day(now') = Day(now) /\ active' # NoAccount
      BY <1>0, <2>1, LedgerAssumption
         DEF AllPending, SomePending, Placed, AtAccount, TypeInv, TypeOK
    <3>3. QED
      BY <1>a, <2>1, <2>2, <3>1, <3>2, QuietMarks DEF Applying
  <2>4. CASE active = NoAccount \/ risk = Blank
    <3>1. \A k \in Kinds : Mark(k) = 0
      BY <2>1, <2>4, BlankTyped DEF MarksStored, Mark
    <3>2. AllPending' /\ SomePending'
      BY <2>1 DEF AllPending, SomePending
    <3>3. QED
      BY <2>2, <3>1, <3>2, BlankMarks
  <2>5. QED
    BY <2>1, <2>3, <2>4
<1>2. CASE Stop
  <2>1. /\ loop.at # "off" /\ loop'.at = "off" /\ active' = active /\ saved' = saved /\ cmd' = cmd
        /\ ~strayed /\ loop.back # "positions" /\ now' = now
    BY <1>2, <1>a, RecordsTyped DEF Stop
  <2>2. \A k \in Kinds : Mark(k)' = Mark(k)
    BY <1>0, <1>2, KeepingStill DEF Keeping
  <2>3. RiskOwner' = RiskOwner
    <3>1. RiskOwner = active
      BY <1>0, <2>1, OwnerIs DEF Placed
    <3>2. QED
      BY <2>1, <3>1 DEF RiskOwner, AtAccount
  <2>4. AllPending' /\ SomePending' /\ loop.item = "peak" /\ Day(now') = Day(now)
    <3>1. loop.back # "begin" /\ loop.back \in Returns /\ loop.item \in Items
      BY <1>0, <1>2 DEF Stop, LoopState
    <3>2. QED
      BY <1>0, <2>1, <3>1 DEF AllPending, SomePending, Placed, Returns
  <2>5. QED
    BY <2>1, <2>2, <2>3, <2>4, QuietMarks DEF Applying
<1>3. CASE Crash \/ (ReadAccount /\ terminal # active)
  <2>1. risk' = Blank
    BY <1>3 DEF Crash, ReadAccount, Cleared
  <2>2. AllPending' /\ SomePending'
    BY <1>0, <1>3, RecordsTyped DEF Crash, ReadAccount, AllPending, SomePending, LoopState
  <2>3. QED
    BY <2>1, <2>2, BlankMarks, BlankTyped DEF Mark
<1>4. CASE ApplyMarker
  <2> DEFINE k == loop.item
             D == Today(Stored("daily"))
             C == Today(Stored("cooldown"))
  <2>1. /\ loop.at = "apply" /\ k \in Kinds /\ loop'.acct = loop.acct /\ loop'.at # "off"
        /\ k = "daily" => loop'.item = "cooldown"
        /\ k = "cooldown" => loop'.item = "streak"
        /\ k = "streak" => loop'.item = "peak"
        /\ loop'.at \in {"read", "fetch"} /\ loop.acct \in Accounts
    BY <1>0, <1>4, MarkerLoop
  <2>2. /\ active' = active /\ saved' = saved /\ cmd' = cmd /\ ~strayed /\ now' = now
        /\ loop.got = saved[loop.acct][k]
    BY <1>4, <1>a DEF ApplyMarker
  <2>3. RiskOwner = loop.acct /\ RiskOwner' = loop.acct
    BY <2>1 DEF RiskOwner, AtAccount
  <2>4. \A j \in Kinds : Stored(j) = saved[loop.acct][j] /\ Stored(j)' = Stored(j)
    BY <2>1, <2>2, <2>3 DEF Stored
  <2>5. D' = D /\ C' = C /\ loop.got = Stored(k)
    BY <1>0, <2>1, <2>2, <2>4 DEF Today, Day
  <2>6. /\ Mark("daily")' = IF k = "daily" /\ Today(Stored(k)) # 0 THEN Stored(k) ELSE Mark("daily")
        /\ Mark("cooldown")' = IF k = "daily" /\ Today(Stored(k)) # 0 THEN Stored(k)
                               ELSE IF k = "cooldown" THEN Greater(Today(Stored(k)), Mark("cooldown"))
                               ELSE Mark("cooldown")
        /\ Mark("streak")' = IF k = "streak" /\ Stored(k) # 0 THEN Stored(k) ELSE Mark("streak")
    BY <1>0, <1>4, <2>2, <2>5, MarkerRisk, Still
  <2>7. /\ D \in {0, Stored("daily")} /\ D \in Nat /\ C \in Nat
        /\ Stored("streak") \in Nat
    BY <1>0, StoredTyped
  <2>8. /\ AllPending <=> k = "daily"
        /\ SomePending
        /\ k # "streak" => SomePending'
    BY <1>0, <2>1 DEF AllPending, SomePending
  <2>9. ~Applying("daily") => DailyIsStored'
    <3>1. ~Applying("daily") => Mark("daily") = D \/ (k = "daily" /\ Mark("daily") = 0)
      BY <2>2, <2>8 DEF MarksStored, DailyIsStored
    <3>2. ~Applying("daily") => Mark("daily")' = D
      BY <2>6, <2>7, <3>1
    <3>3. QED
      BY <2>5, <3>2 DEF DailyIsStored
  <2>10. ~Applying("daily") /\ ~Applying("cooldown") => CooldownIsStored'
    <3>1. ~Applying("daily") /\ ~Applying("cooldown") =>
             \/ Mark("cooldown") = Greater(D, C)
             \/ k = "daily" /\ Mark("cooldown") = 0
             \/ k = "cooldown" /\ Mark("cooldown") = D
      BY <2>2, <2>8 DEF MarksStored, CooldownIsStored
    <3>2. ~Applying("daily") /\ ~Applying("cooldown") =>
             \/ Mark("cooldown")' = Greater(D, C)
             \/ loop'.item = "cooldown" /\ Mark("cooldown")' = D
      <4>1. CASE k = "daily"
        BY <2>1, <2>6, <2>7, <3>1, <4>1
      <4>2. CASE k = "cooldown"
        BY <2>6, <2>7, <3>1, <4>2 DEF Greater
      <4>3. CASE k = "streak"
        BY <2>6, <3>1, <4>3
      <4>4. QED
        BY <1>0, <2>1, <4>1, <4>2, <4>3
    <3>3. Greater(D, C)' = Greater(D, C)
      BY <2>5 DEF Greater
    <3>4. QED
      BY <2>5, <3>2, <3>3 DEF CooldownIsStored
  <2>11. ~Applying("streak") => StreakIsStored'
    <3>1. ~Applying("streak") => Mark("streak") \in {0, Stored("streak")}
      BY <2>2 DEF MarksStored, StreakIsStored
    <3>2. CASE k = "streak"
      BY <1>0, <2>4, <2>6, <3>1, <3>2 DEF StreakIsStored
    <3>3. CASE k # "streak"
      BY <1>0, <2>4, <2>6, <2>8, <3>1, <3>3 DEF StreakIsStored
    <3>4. QED
      BY <3>2, <3>3
  <2>12. active' # NoAccount
    BY <1>0, <2>1, <2>2, LedgerAssumption
  <2>13. QED
    BY <2>2, <2>9, <2>10, <2>11, <2>12 DEF MarksStored, Applying
<1>5. CASE Tick
  <2>1. /\ loop' = loop /\ active' = active /\ saved' = saved /\ cmd' = cmd /\ ~strayed
        /\ risk' = risk
    BY <1>5, <1>a DEF Tick
  <2>2. /\ RiskOwner' = RiskOwner
        /\ AllPending' = AllPending /\ SomePending' = SomePending
    BY <2>1 DEF RiskOwner, AllPending, SomePending
  <2>3. CASE Day(now') = Day(now)
    BY <1>0, <1>5, <2>1, <2>2, <2>3, TickRisk, QuietMarks DEF Applying
  <2>4. CASE Day(now') # Day(now)
    <3>1. Day(now) \in Nat /\ Day(now') \in Nat /\ Day(now) <= Day(now') /\ now \in Nat
      <4>1. TypeOK /\ TypeOK'
        BY DEF Base, TypeInv
      <4>2. now \in Nat /\ now' \in Nat
        BY <4>1, LedgerAssumption DEF TypeOK
      <4>3. QED
        BY <1>0, <1>5, <4>2, DayTyped, TickRisk
    <3>2. risk.day # Day(now')
      <4>1. risk.day \in Nat \cup {-1} /\ risk.day <= Day(now)
        BY <1>0 DEF NotAhead, TypeInv, TypeOK, RiskState, NoDay
      <4>2. QED
        BY <2>4, <3>1, <4>1
    <3>3. Mark("daily")' = 0 /\ Mark("cooldown")' = 0 /\ Mark("streak")' = Mark("streak")
      BY <2>1, <3>2 DEF Mark, MarkAt, Day
    <3>4. \A k \in Kinds : /\ Stored(k)' = Stored(k) /\ Stored(k) \in Nat
                           /\ Day(Stored(k)) <= Day(now) /\ Day(Stored(k)) \in Nat
      <4>1. \A k \in Kinds : Stored(k) \in Nat /\ Stored(k) <= now
        BY StoredTyped
      <4>2. \A k \in Kinds : Day(Stored(k)) <= Day(now) /\ Day(Stored(k)) \in Nat
        BY <3>1, <4>1, DayMonotonic, DayTyped
      <4>3. QED
        BY <2>1, <2>2, <4>1, <4>2 DEF Stored
    <3>5. \A k \in Kinds : Today(Stored(k))' = 0
      <4>1. \A k \in Kinds : Day(Stored(k)) # Day(now')
        BY <2>4, <3>1, <3>4
      <4>2. QED
        BY <3>4, <4>1 DEF Today, Day
    <3>6. DailyIsStored' /\ CooldownIsStored'
      BY <1>0, <3>3, <3>5 DEF DailyIsStored, CooldownIsStored, Greater
    <3>7. StreakIsStored => StreakIsStored'
      BY <1>0, <2>2, <3>3, <3>4 DEF StreakIsStored
    <3>8. QED
      BY <1>0, <2>1, <3>3, <3>6, <3>7 DEF MarksStored, Applying
  <2>5. QED
    BY <2>3, <2>4
<1>6. ASSUME NEW k \in Commands, SaveReset(k), saved' # saved PROVE MarksStored'
  <2> DEFINE a == cmd[k].acct
  <2>1. /\ loop' = loop /\ active' = active /\ risk' = risk /\ strayed' = strayed /\ now' = now
        /\ cmd[k].at = "saving" /\ k \in Kinds
    BY <1>0, <1>6, LedgerAssumption DEF SaveReset
  <2>2. /\ Applying(k)' /\ \A j \in Kinds : Applying(j) => Applying(j)'
        /\ \A j \in Kinds \ {k} : Stored(j)' = Stored(j)
    <3>1. /\ saved' = [saved EXCEPT ![a] = [@ EXCEPT ![k] = cmd[k].marker]]
          /\ cmd' = [cmd EXCEPT ![k].at = "applying"]
      BY <1>6 DEF SaveReset
    <3>2. \A b \in Accounts : \A j \in Kinds \ {k} : saved'[b][j] = saved[b][j]
      BY <1>0, <2>1, <3>1
    <3>3. /\ cmd'[k].at = "applying"
          /\ \A j \in Kinds \ {k} : cmd'[j] = cmd[j]
      BY <1>0, <2>1, <3>1 DEF Command
    <3>4. RiskOwner' = RiskOwner
      BY <2>1 DEF RiskOwner
    <3>5. QED
      BY <2>1, <3>2, <3>3, <3>4 DEF Applying, Stored
  <2>3. \A j : Mark(j)' = Mark(j)
    BY <2>1, Still DEF Mark
  <2>4. AllPending' = AllPending /\ SomePending' = SomePending
    BY <2>1 DEF AllPending, SomePending
  <2>5. \A j \in Kinds \ {k} : Today(Stored(j))' = Today(Stored(j))
    BY <2>1, <2>2 DEF Today, Day
  <2>6. ~Applying("daily")' => (DailyIsStored => DailyIsStored')
    BY <1>0, <2>2, <2>3, <2>4, <2>5 DEF DailyIsStored
  <2>7. ~Applying("daily")' /\ ~Applying("cooldown")' => (CooldownIsStored => CooldownIsStored')
    <3>1. ~Applying("daily")' /\ ~Applying("cooldown")' =>
             /\ Today(Stored("daily"))' = Today(Stored("daily"))
             /\ Today(Stored("cooldown"))' = Today(Stored("cooldown"))
      BY <1>0, <2>2, <2>5
    <3>2. QED
      BY <1>0, <2>1, <2>3, <2>4, <3>1 DEF CooldownIsStored, Greater
  <2>8. ~Applying("streak")' => (StreakIsStored => StreakIsStored')
    BY <1>0, <2>2, <2>3, <2>4 DEF StreakIsStored
  <2>9. QED
    BY <1>0, <1>a, <2>1, <2>2, <2>3, <2>6, <2>7, <2>8 DEF MarksStored
<1>7. ASSUME NEW k \in Commands, ApplyReset(k) PROVE MarksStored'
  <2> DEFINE m == cmd[k].marker
  <2>1. /\ loop' = loop /\ active' = active /\ saved' = saved /\ now' = now /\ ~strayed
        /\ cmd[k].at = "applying" /\ k \in Kinds /\ cmd[k].acct \in Accounts
        /\ cmd' = [cmd EXCEPT ![k] = NoCommand]
        /\ cmd[k].acct = RiskOwner /\ (k # "streak" => Day(m) = Day(now)) /\ m \in Nat
        /\ k = "daily" => ~(saved[cmd[k].acct]["cooldown"] > m)
        /\ k = "cooldown" => ~(saved[cmd[k].acct]["daily"] > m)
    <3>1. k \in Kinds
      BY LedgerAssumption DEF Kinds
    <3>2. cmd[k].at = "applying" /\ cmd[k].acct \in Accounts /\ m \in Nat
      BY <1>0, <1>7, <3>1, LedgerAssumption
         DEF ApplyReset, TypeInv, WorksForAccount, Command, Times
    <3>3. QED
      BY <1>7, <1>a, <3>1, <3>2 DEF ApplyReset
  <2>2. /\ \A j \in Kinds \ {k} : Applying(j)' = Applying(j)
        /\ RiskOwner' = RiskOwner /\ AllPending' = AllPending /\ SomePending' = SomePending
        /\ \A j \in Kinds : Stored(j)' = Stored(j) /\ Today(Stored(j))' = Today(Stored(j))
        /\ Stored(k) = m
        /\ active # NoAccount
    <3>1. \A j \in Kinds \ {k} : cmd'[j] = cmd[j]
      BY <1>0, <2>1
    <3>2. RiskOwner' = RiskOwner /\ AllPending' = AllPending /\ SomePending' = SomePending
      BY <2>1 DEF RiskOwner, AllPending, SomePending
    <3>3. \A j \in Kinds : Stored(j)' = Stored(j)
      BY <2>1, <3>2 DEF Stored
    <3>4. \A j \in Kinds : Today(Stored(j))' = Today(Stored(j))
      BY <2>1, <3>3 DEF Today, Day
    <3>5. Stored(k) = m
      BY <2>1 DEF CachedFirst, Applying, Stored
    <3>6. active # NoAccount
      BY <1>0, <2>1, OwnerIs, LedgerAssumption
    <3>7. QED
      BY <3>1, <3>2, <3>3, <3>4, <3>5, <3>6 DEF Applying
  <2>3. /\ Mark("daily")' = IF k = "daily" THEN m ELSE Mark("daily")
        /\ Mark("cooldown")' = IF k # "streak" THEN m ELSE Mark("cooldown")
        /\ Mark("streak")' = IF k = "streak" THEN m ELSE Mark("streak")
    <3>1. /\ MarkAt(risk', "daily", Day(now)) = IF k = "daily" THEN m ELSE Mark("daily")
          /\ MarkAt(risk', "cooldown", Day(now)) = IF k # "streak" THEN m ELSE Mark("cooldown")
          /\ MarkAt(risk', "streak", Day(now)) = IF k = "streak" THEN m ELSE Mark("streak")
      BY <1>0, <1>7, <2>1, ApplyRisk
    <3>2. QED
      BY <2>1, <3>1, Still
  <2>4. k # "streak" => Today(Stored(k)) = m
    BY <2>1, <2>2 DEF Today
  <2>5. ~Applying("daily")' => DailyIsStored'
    <3>1. k # "daily" => ((~Applying("daily"))' => DailyIsStored)
      BY <1>0, <2>1, <2>2 DEF MarksStored
    <3>2. QED
      BY <1>0, <2>2, <2>3, <2>4, <3>1 DEF DailyIsStored
  <2>6. ~Applying("daily")' /\ ~Applying("cooldown")' => CooldownIsStored'
    <3>1. CASE k = "streak"
      <4>1. ~Applying("daily")' /\ ~Applying("cooldown")' => CooldownIsStored
        BY <1>0, <2>1, <2>2, <3>1 DEF MarksStored
      <4>2. QED
        BY <1>0, <2>1, <2>2, <2>3, <3>1, <4>1 DEF CooldownIsStored, Greater
    <3>2. CASE k # "streak"
      <4> DEFINE D == Today(Stored("daily"))
                 C == Today(Stored("cooldown"))
      <4>1. D \in Nat /\ C \in Nat
        BY <1>0, StoredTyped
      <4>2. D <= m /\ C <= m
        <5>1. /\ Stored("daily") = saved[cmd[k].acct]["daily"]
              /\ Stored("cooldown") = saved[cmd[k].acct]["cooldown"]
          BY <2>1 DEF Stored
        <5>2. Stored("daily") <= m /\ Stored("cooldown") <= m
              /\ Stored("daily") \in Nat /\ Stored("cooldown") \in Nat
          BY <1>0, <2>1, <2>2, <3>2, <5>1, StoredTyped
        <5>3. D \in {0, Stored("daily")} /\ C \in {0, Stored("cooldown")}
          BY <1>0, StoredTyped
        <5>4. QED
          BY <2>1, <5>2, <5>3
      <4>3. D = m \/ C = m
        BY <1>0, <2>1, <2>4, <3>2
      <4>4. Greater(D, C) = m
        BY <2>1, <4>1, <4>2, <4>3 DEF Greater
      <4>5. Mark("cooldown")' = Greater(D, C) /\ D' = D /\ C' = C
        BY <1>0, <2>2, <2>3, <3>2, <4>4
      <4>6. QED
        BY <4>5 DEF CooldownIsStored, Greater
    <3>3. QED
      BY <3>1, <3>2
  <2>7. ~Applying("streak")' => StreakIsStored'
    <3>1. k # "streak" => ((~Applying("streak"))' => StreakIsStored)
      BY <1>0, <2>1, <2>2 DEF MarksStored
    <3>2. QED
      BY <1>0, <2>2, <2>3, <3>1 DEF StreakIsStored
  <2>8. QED
    BY <2>1, <2>2, <2>5, <2>6, <2>7 DEF MarksStored
<1>8. CASE Sync \/ (\E t \in Tickets : BookClosure(t))
           \/ (Keeping /\ ~Start /\ ~Stop /\ saved' = saved)
  <2>1. \A k \in Kinds : Mark(k)' = Mark(k)
    <3>1. CASE Sync
      <4>1. \A k \in Kinds : MarkAt(risk', k, Day(now)) = Mark(k)
        BY <1>0, <3>1, SyncRisk
      <4>2. now' = now
        BY <3>1 DEF Sync
      <4>3. QED
        BY <4>1, <4>2, Still
    <3>2. ASSUME NEW t \in Tickets, BookClosure(t) PROVE \A k \in Kinds : Mark(k)' = Mark(k)
      <4>1. risk'.mark = risk.mark /\ risk'.day = risk.day
        BY <1>0, <3>2, BookRisk
      <4>2. now' = now
        BY <3>2 DEF BookClosure
      <4>3. QED
        BY <4>1, <4>2 DEF Mark, MarkAt, Day
    <3>3. CASE Keeping
      BY <1>0, <3>3, KeepingStill
    <3>4. QED
      BY <1>8, <3>1, <3>2, <3>3
  <2>2. now' = now /\ saved' = saved /\ (strayed => strayed')
    <3>1. CASE Sync \/ \E t \in Tickets : BookClosure(t)
      BY <3>1 DEF Sync, BookClosure
    <3>2. CASE Keeping /\ ~Start /\ ~Stop /\ saved' = saved
      <4>1. now' = now
        BY <1>0, <3>2, KeepingStill
      <4>2. strayed' = strayed
        BY <3>2 DEF Keeping, vars, Close, SwitchAccount, ReadCache, ApplyPeak, WritePeak, Fetch,
                    FetchFails, Store, StoreFails, SyncFails, Finish, FinishFails, ReadAccount,
                    ReadPositions, Abort, DeferClosure, Periodic, NotYet, AskReset, SaveReset
      <4>3. QED
        BY <3>2, <4>1, <4>2
    <3>3. QED
      BY <1>8, <3>1, <3>2
  <2>3. \A k \in Kinds : Applying(k) => Applying(k)'
    <3>1. CASE cmd' = cmd
      BY <3>1 DEF Applying
    <3>2. ASSUME NEW k \in Commands, AskReset(k) \/ SaveReset(k)
          PROVE  \A j \in Kinds : Applying(j) => Applying(j)'
      BY <1>0, <3>2, LedgerAssumption DEF AskReset, SaveReset, Applying, Command
    <3>3. QED
      BY <1>8, <3>1, <3>2
         DEF Sync, BookClosure, Keeping, vars, Close, SwitchAccount, ReadCache, ApplyPeak,
             WritePeak, Fetch, FetchFails, Fail, Store, StoreFails, SyncFails, Finish, FinishFails,
             ReadAccount, ReadPositions, Abort, DeferClosure, Periodic, NotYet, Finished
  <2>4. \/ loop' = loop /\ active' = active
        \/ /\ loop.at # "off" /\ loop'.at # "off" /\ loop'.acct = RiskOwner
           /\ loop'.item = loop.item /\ active' # NoAccount
    <3> DEFINE Goes == /\ loop.at # "off" /\ loop'.at # "off" /\ loop'.acct = RiskOwner
                       /\ loop'.item = loop.item /\ active' # NoAccount
    <3>0. loop.at # "off" => RiskOwner = loop.acct /\ loop.acct # NoAccount /\ active # NoAccount
      BY <1>0, OwnerIs, LedgerAssumption
    <3>1. CASE FetchFails \/ StoreFails \/ SyncFails \/ Finish \/ FinishFails
      <4>1. loop.at \in {"fetch", "store", "sync", "finish"} /\ Return(risk)
        BY <3>1 DEF FetchFails, StoreFails, SyncFails, Finish, FinishFails, Fail
      <4>2. /\ loop'.at # "off" /\ loop'.acct = loop.acct /\ loop'.item = loop.item
            /\ active' = loop.acct
        BY <1>0, <4>1 DEF Return, LoopState
      <4>3. Goes
        BY <3>0, <4>1, <4>2
      <4>4. QED
        BY <4>3
    <3>2. CASE \/ Sync \/ ApplyPeak
               \/ Store \/ ReadPositions \/ Abort \/ Periodic \/ NotYet
               \/ \E t \in Tickets : DeferClosure(t) \/ BookClosure(t)
               \/ \E shown \in SUBSET ClosedOn(terminal) : Fetch(shown)
      <4>1. /\ loop.at # "off" /\ loop'.at # "off" /\ loop'.acct = loop.acct
            /\ loop'.item = loop.item /\ active' = active
        BY <1>0, <3>2
           DEF Sync, ApplyPeak, Store, ReadPositions, Abort, Periodic, NotYet, Finished,
               DeferClosure, BookClosure, Fetch, LoopState
      <4>2. Goes
        BY <3>0, <4>1
      <4>3. QED
        BY <4>2
    <3>3. ASSUME NEW b \in BOOLEAN, ReadCache(b) \/ WritePeak(b) PROVE Goes
      <4> DEFINE at == loop'.at
                 got == loop'.got
      <4>1. /\ loop' = [loop EXCEPT !.at = at, !.got = got] /\ active' = active
            /\ loop.at # "off" /\ at # "off"
        BY <1>0, <3>3 DEF ReadCache, WritePeak, LoopState
      <4> HIDE DEF at, got
      <4>2. loop'.at = at /\ loop'.acct = loop.acct /\ loop'.item = loop.item
        BY <1>0, <4>1 DEF LoopState
      <4>3. QED
        BY <3>0, <4>1, <4>2
    <3>4. CASE ReadAccount /\ terminal = active
      <4>1. /\ loop.at = "account" /\ loop'.at = "positions" /\ loop'.acct = active
            /\ loop'.item = loop.item /\ active' = active
        BY <1>0, <3>4 DEF ReadAccount, LoopState
      <4>2. RiskOwner = active
        BY <4>1 DEF RiskOwner, AtAccount
      <4>3. Goes
        BY <3>0, <4>1, <4>2
      <4>4. QED
        BY <4>3
    <3> HIDE DEF Goes
    <3>5. CASE \/ UNCHANGED vars \/ SwitchAccount
               \/ \E t \in Tickets : Close(t)
               \/ \E k \in Commands : AskReset(k) \/ SaveReset(k)
      BY <3>5 DEF vars, SwitchAccount, Close, AskReset, SaveReset
    <3>6. Goes \/ (loop' = loop /\ active' = active)
      BY <1>8, <3>1, <3>2, <3>3, <3>4, <3>5 DEF Keeping, Goes
    <3>7. QED
      BY <3>6 DEF Goes
  <2>5. /\ RiskOwner' = RiskOwner
        /\ AllPending => AllPending'
        /\ SomePending => SomePending'
        /\ loop.item = "cooldown" => loop'.item = "cooldown"
        /\ active' = NoAccount => active = NoAccount
    <3>1. RiskOwner' = IF loop'.at = "off" THEN active' ELSE loop'.acct
      <4>1. TypeInv' /\ Placed'
        BY DEF Base
      <4>2. \/ loop'.at \in AtAccount /\ loop'.at # "off"
            \/ loop'.at \notin AtAccount /\ loop'.at # "off" /\ loop'.acct = active'
            \/ loop'.at = "off"
        BY <4>1 DEF Placed
      <4>3. QED
        BY <4>2 DEF RiskOwner, AtAccount
    <3>2. RiskOwner = IF loop.at = "off" THEN active ELSE loop.acct
      BY <1>0, OwnerIs
    <3>3. QED
      BY <2>4, <3>1, <3>2 DEF AllPending, SomePending
  <2>6. Day(now') = Day(now)
    BY <2>2
  <2>7. QED
    BY <2>1, <2>2, <2>3, <2>4, <2>5, <2>6, QuietMarks
<1>9. \/ saved' = saved
      \/ \E k \in Commands : SaveReset(k) /\ saved' # saved
  BY ResetChange
<1>10. QED
  BY <1>1, <1>2, <1>3, <1>4, <1>5, <1>6, <1>7, <1>8, <1>9, StepKinds

(* Outside strayed, the markers in memory are those the operator has stored *)
(* for this account and day: no restart, midnight or change of account      *)
(* loses one or brings another account's.                                  *)
THEOREM MarkersAreTheAccounts == Spec => []MarkIsOwn
<1>1. Init => Base /\ CachedFirst /\ MarksStored
  <2>1. Init => Base
    BY BaseInit
  <2>2. Init => CachedFirst
    BY RecordsTyped DEF Init, CachedFirst, Applying
  <2>3. ASSUME Init PROVE MarksStored
    <3>1. AllPending /\ SomePending /\ \A k \in Kinds : Mark(k) = 0
      BY <2>3, BlankTyped, RecordsTyped DEF Init, AllPending, SomePending, Mark
    <3>2. QED
      BY <3>1 DEF MarksStored, DailyIsStored, CooldownIsStored, StreakIsStored, Kinds
  <2>4. QED
    BY <2>1, <2>2, <2>3
<1>2. (Base /\ CachedFirst /\ MarksStored) /\ [Next]_vars => (Base /\ CachedFirst /\ MarksStored)'
  BY BaseStep, CachedFirstStep, MarksStep
<1>3. ASSUME Base, MarksStored PROVE MarkIsOwn
  <2>1. SUFFICES ASSUME ~strayed, UpToDate, loop.at # "off", loop.item = "peak",
                        \A k \in Kinds : cmd[k].at # "applying"
                 PROVE  LET a == RiskOwner
                        IN  /\ risk.mark["daily"] = StoredToday(a, "daily")
                            /\ risk.mark["cooldown"] = Greater(StoredToday(a, "daily"),
                                                               StoredToday(a, "cooldown"))
                            /\ risk.mark["streak"] = saved[a]["streak"]
    BY DEF MarkIsOwn
  <2>2. RiskOwner \in Accounts /\ ~AllPending /\ ~SomePending /\ \A k \in Kinds : ~Applying(k)
    BY <1>3, <2>1, OwnerIs DEF Base, AllPending, SomePending, Applying
  <2>3. /\ \A k : Stored(k) = saved[RiskOwner][k]
        /\ \A k : Today(Stored(k)) = StoredToday(RiskOwner, k)
        /\ \A k : Mark(k) = risk.mark[k]
    BY <2>1, <2>2 DEF Stored, Today, StoredToday, Mark, MarkAt, UpToDate
  <2>4. DailyIsStored /\ CooldownIsStored /\ StreakIsStored
    BY <1>3, <2>1, <2>2 DEF MarksStored, Kinds
  <2>5. QED
    BY <2>1, <2>2, <2>3, <2>4 DEF DailyIsStored, CooldownIsStored, StreakIsStored, Kinds
<1>4. Base /\ CachedFirst /\ MarksStored => MarkIsOwn
  BY <1>3
<1>5. QED
  BY <1>1, <1>2, <1>4, PTL DEF Spec

-----------------------------------------------------------------------------
(* The counter and the cached peak, step by step.                          *)
LEMMA CountFalls ==
    ASSUME TypeInv, [Next]_vars, UpToDate, risk'.daily < risk.daily
    PROVE  \/ Crash
           \/ ReadAccount /\ terminal # active
           \/ ApplyMarker /\ loop.item = "daily" /\ loop.got # 0 /\ Day(loop.got) = Day(now)
           \/ ApplyReset("daily")
           \/ ApplyReset("cooldown") /\ Day(cmd["cooldown"].marker) # Day(now)
<1> DEFINE d == Day(now)
<1>0. /\ TypeOK /\ risk.day = d /\ Count = risk.daily /\ risk.daily \in Nat
      /\ risk' \in RiskState /\ risk'.daily \in Nat
  <2>1. TypeInv'
    BY TypeStep
  <2>2. QED
    BY <2>1 DEF TypeInv, TypeOK, RiskState, UpToDate, Count, CountAt
<1>1. ASSUME risk'.day = d PROVE CountAt(risk', d) # Count
  BY <1>0, <1>1 DEF CountAt
<1>2. ~Tick /\ \A t \in Tickets : ~BookClosure(t)
  <2>1. ASSUME NEW t \in Tickets, BookClosure(t) PROVE FALSE
    <3>1. risk'.daily = risk.daily + Loss(t) /\ Loss(t) \in Nat
      BY <2>1, BookRisk
    <3>2. QED
      BY <1>0, <3>1
  <2>2. QED
    BY <1>0, <2>1 DEF Tick
<1>3. ~Keeping
  <2>1. SUFFICES ASSUME Keeping PROVE FALSE
    OBVIOUS
  <2>2. CountAt(risk', d) = Count /\ risk'.day = d
    BY <1>0, <2>1, KeepsRisk DEF RiskKept
  <2>3. QED
    BY <1>1, <2>2
<1>4. ~Sync
  <2>1. SUFFICES ASSUME Sync PROVE FALSE
    OBVIOUS
  <2> DEFINE lost == Total(LossesAfter(rows[loop.acct], Mark("daily")))
  <2>2. /\ loop.acct \in Accounts /\ risk'.day = d /\ CountAt(risk', d) = Greater(Count, lost)
    BY <2>1, SyncRisk
  <2>3. lost \in Nat
    BY <1>0, <2>2, LossesTyped DEF TypeOK
  <2> HIDE DEF lost
  <2>4. QED
    BY <1>0, <2>2, <2>3 DEF Greater, CountAt
<1>5. ASSUME ApplyMarker
      PROVE  loop.item = "daily" /\ loop.got # 0 /\ Day(loop.got) = d
  <2>1. /\ risk'.day \in {risk.day, d}
        /\ loop.item # "daily" \/ Today(loop.got) = 0 => CountAt(risk', d) = Count
    BY <1>5, MarkerRisk
  <2>2. loop.item = "daily" /\ Today(loop.got) # 0
    BY <1>0, <1>1, <2>1
  <2>3. QED
    BY <2>2 DEF Today
<1>6. ASSUME NEW k \in Commands, ApplyReset(k)
      PROVE  \/ ApplyReset("daily")
             \/ ApplyReset("cooldown") /\ Day(cmd["cooldown"].marker) # d
  <2>1. /\ k \in Kinds /\ risk'.day = d
        /\ k = "streak" \/ (k = "cooldown" /\ Day(cmd[k].marker) = d) => CountAt(risk', d) = Count
    BY <1>6, ApplyRisk
  <2>2. k = "daily" \/ (k = "cooldown" /\ Day(cmd[k].marker) # d)
    BY <1>1, <2>1 DEF Kinds
  <2>3. QED
    BY <1>6, <2>2
<1>7. QED
  BY <1>2, <1>3, <1>4, <1>5, <1>6, StepKinds

(* A loss of the day that is in the counter stays there: what takes it out  *)
(* is the end of the process, a change of account (the history of the new   *)
(* one is reconciled before its entries), a reset of the day, read back or  *)
(* applied, and a cooldown reset that crosses midnight                     *)
(* (risk/manager.py, _maybe_reset_daily on the marker's day).              *)
THEOREM CountedLossesAreKept == Spec => LossesAreKept
<1>1. Spec => []TypeInv
  BY TypeInit, TypeStep, PTL DEF Spec
<1>2. TypeInv /\ [Next]_vars =>
        (UpToDate /\ risk'.daily < risk.daily =>
          \/ Crash
          \/ ReadAccount /\ terminal # active
          \/ ApplyMarker /\ loop.item = "daily" /\ loop.got # 0 /\ Day(loop.got) = Day(now)
          \/ ApplyReset("daily")
          \/ ApplyReset("cooldown") /\ Day(cmd["cooldown"].marker) # Day(now))
  BY CountFalls
<1>3. QED
  BY <1>1, <1>2, PTL DEF Spec, LossesAreKept

(* The peak that is written is at least the record as its read returned it. *)
LEMMA PeakReadStep ==
    ASSUME TypeInv, TypeInv', PeakRead, [Next]_vars
    PROVE  PeakRead'
<1>0. /\ loop \in LoopState /\ risk.peak \in Nat /\ BalanceOf \in [Accounts -> Nat]
      /\ savedPeak \in [Accounts -> Nat]
      /\ loop.at # "off" => loop.acct \in Accounts
  BY LedgerAssumption DEF TypeInv, TypeOK, RiskState, WorksForAccount
<1>1. CASE loop' = loop /\ savedPeak' = savedPeak /\ risk'.peak = risk.peak
  BY <1>1 DEF PeakRead
<1>2. CASE \/ loop' = loop /\ loop.at \notin {"apply", "write"}
           \/ loop'.at \notin {"apply", "write"}
  BY <1>2 DEF PeakRead
<1>3. CASE /\ loop.at = "read" /\ loop'.at = "apply" /\ loop'.item = loop.item
           /\ loop'.acct = loop.acct /\ savedPeak' = savedPeak
           /\ loop.item = "peak" => loop'.got \in {0, savedPeak[loop.acct]}
  BY <1>3 DEF PeakRead
<1>4. CASE /\ ApplyPeak /\ loop'.at = "write" /\ loop'.item = loop.item
           /\ loop'.acct = loop.acct /\ loop'.got = loop.got
           /\ savedPeak' = savedPeak
  <2> DEFINE b == Greater(BalanceOf[loop.acct], loop.got)
  <2>1. /\ loop.at = "apply" /\ loop.item = "peak" /\ loop.acct \in Accounts
        /\ risk' = Raised(risk, b)
    BY <1>0, <1>4 DEF ApplyPeak
  <2>2. loop.got \in {0, savedPeak[loop.acct]}
    BY <2>1 DEF PeakRead
  <2>3. b \in Nat /\ loop.got <= b
    BY <1>0, <2>1, <2>2 DEF Greater
  <2>4. risk \in RiskState
    BY DEF TypeInv, TypeOK
  <2> HIDE DEF b
  <2>5. risk'.peak = Greater(risk.peak, b)
    BY <2>1, <2>3, <2>4, RaisedTyped
  <2>6. risk'.peak >= loop.got
    BY <1>0, <2>1, <2>2, <2>3, <2>5 DEF Greater
  <2>7. QED
    BY <1>4, <2>2, <2>6 DEF PeakRead
<1>5. QED
  BY <1>1, <1>2, <1>3, <1>4, ReadChange

LEMMA CacheFalls ==
    ASSUME TypeInv, PeakRead, [Next]_vars,
           NEW a \in Accounts, savedPeak'[a] < savedPeak[a]
    PROVE  loop.at = "write" /\ loop.acct = a /\ loop.got = 0
<1>0. /\ risk.peak \in Nat /\ savedPeak \in [Accounts -> Nat]
      /\ loop.at # "off" => loop.acct \in Accounts
  BY DEF TypeInv, TypeOK, RiskState, WorksForAccount
<1>1. /\ loop.at = "write" /\ loop.acct \in Accounts
      /\ savedPeak' = [savedPeak EXCEPT ![loop.acct] = risk.peak]
  BY <1>0, CacheChange
<1>2. loop.acct = a /\ risk.peak < savedPeak[a]
  BY <1>0, <1>1
<1>3. loop.got \in {0, savedPeak[a]} /\ risk.peak >= loop.got
  BY <1>1, <1>2 DEF PeakRead
<1>4. QED
  BY <1>0, <1>1, <1>2, <1>3

(* The peak balance in the cache of an account falls only at a write whose  *)
(* own read of the record failed (storage.py 678-680 answers a failed read  *)
(* like a missing one, engine.py 1935-1939 and 3093-3095 write what they    *)
(* then have), whoever starts, stops, switches or crashes in between.      *)
THEOREM CachedPeakIsKept == Spec => CachedPeakFallsUnread
<1>1. Init => TypeInv /\ PeakRead
  BY TypeInit, RecordsTyped DEF Init, PeakRead
<1>2. (TypeInv /\ PeakRead) /\ [Next]_vars => (TypeInv /\ PeakRead)'
  BY TypeStep, PeakReadStep
<1>3. (TypeInv /\ PeakRead) /\ [Next]_vars =>
        \A a \in Accounts : savedPeak'[a] < savedPeak[a] =>
           loop.at = "write" /\ loop.acct = a /\ loop.got = 0
  BY CacheFalls
<1>4. QED
  BY <1>1, <1>2, <1>3, PTL DEF Spec, CachedPeakFallsUnread
=============================================================================
