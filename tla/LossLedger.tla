----------------------------- MODULE LossLedger -----------------------------
(***************************************************************************)
(* The gross loss of the UTC day: who adds to it, who rebuilds it, who     *)
(* resets it.                                                              *)
(*                                                                         *)
(* The entry gates stop on RiskManager._daily_loss_usd (risk/manager.py).  *)
(* Two paths of the main loop (core/engine.py) write it: a position that   *)
(* has vanished from the terminal is booked from its deals, and the        *)
(* periodic reconciliation takes the greater of the counter and the losses *)
(* of the stored broker history.  Operator resets, restarts, the UTC       *)
(* midnight and a change of the terminal's account come in between.  With  *)
(* the counter go the reset markers and the peak balance of the account.   *)
(*                                                                         *)
(* Positions exist from the start; a ticket stands for one position of     *)
(* the strategy's own (others are excluded by their magic number, here     *)
(* Strategy).  Time is a logical clock of whole seconds, as in MT5 deals.  *)
(* Balances do not move while the process runs, but an earlier one may have *)
(* seen a higher one.  "Now" and the terminal are read afresh at every      *)
(* native call; a coroutine acts on what it has captured.                  *)
(***************************************************************************)
EXTENDS Integers, FiniteSets

CONSTANTS
    Accounts,     \* identities the terminal can be logged in to
    NoAccount,
    Tickets,      \* positions
    Strategy,     \* those with the strategy's magic number
    ClosedBefore, \* those closed before the engine is started for the first time
    OwnerOf,      \* [Tickets -> Accounts]
    LossOf,       \* [Tickets -> Nat]: net loss when closed, 0 for a gain
    BalanceOf,    \* [Accounts -> Nat]
    PeakBefore,   \* [Accounts -> Nat]: the peak an earlier process has cached, or 0
    Total(_),     \* the sum of LossOf over a set of tickets
    Commands,     \* the kinds of reset the operator uses
    DayLength,    \* ticks of a UTC day
    MaxTime,      \* bound: ticks of the clock
    MaxEvents     \* bound: account switches, crashes, failed calls, resets, stops

ASSUME LedgerAssumption ==
    /\ NoAccount \notin Accounts
    /\ Strategy \subseteq Tickets /\ ClosedBefore \subseteq Tickets
    /\ OwnerOf \in [Tickets -> Accounts]
    /\ LossOf \in [Tickets -> Nat]
    /\ BalanceOf \in [Accounts -> Nat] /\ PeakBefore \in [Accounts -> Nat]
    /\ Commands \subseteq {"daily", "cooldown", "streak"}
    /\ DayLength \in Nat \ {0} /\ MaxTime \in Nat \ {0}
    /\ MaxEvents \in Nat

(* Total is a sum: nothing more is assumed of it.                          *)
ASSUME TotalAssumption ==
    /\ Total({}) = 0
    /\ \A S \in SUBSET Tickets : Total(S) \in Nat
    /\ \A S, T \in SUBSET Tickets : S \subseteq T => Total(S) <= Total(T)
    /\ \A S \in SUBSET Tickets : \A t \in Tickets \ S :
          Total(S \cup {t}) = Total(S) + LossOf[t]

VARIABLES
    terminal,   \* account selected in the MT5 terminal
    now,        \* the clock
    closedAt,   \* closedAt[t]: when t was closed, 0 while it is open
    rows,       \* rows[a]: closed_positions of login a in the database
    saved,      \* saved[a][k]: reset marker cached under a's key, 0 for none
    savedPeak,  \* savedPeak[a]: peak_balance cached under a's key, 0 for none
    active,     \* _active_account_identity
    known,      \* _last_positions_tickets
    ready,      \* _history_ready
    risk,       \* the counters of the RiskManager
    loop,       \* the main loop: where it is and what it has captured
    cmd,        \* cmd[k]: an operator's reset of kind k and what it has captured
    events,
    (* for the properties *)
    booked,     \* closures booked into the counter since it was last blank
    dropped,    \* closures whose deals could not be read, without those that a
                \* later read of the history did not show
    low,        \* a booked loss may be missing until the next synchronization
    high,       \* a window was hit in which a loss counts twice or too late
    strayed,    \* a window was hit in which a marker is lost or not the account's
    carried     \* memory was kept for another account than its counters are of

broker == <<terminal, now, closedAt>>
database == <<rows, saved, savedPeak>>
ghosts == <<booked, dropped, low, high, strayed, carried>>
vars == <<broker, database, active, known, ready, risk, loop, cmd, events, ghosts>>

Kinds == {"daily", "cooldown", "streak"}
Times == 0..MaxTime
Day(t) == t \div DayLength
NoDay == -1
NoMarks == [k \in Kinds |-> 0]

(* RiskManager: _daily_loss_usd, _daily_reset_date, the three              *)
(* _reset_after_utc markers, _peak_balance.  _last_loss_time, which the    *)
(* cooldown gate uses only without a history, is left out.                 *)
RiskState == [daily : Nat, day : Nat \cup {NoDay}, mark : [Kinds -> Times], peak : Nat]
Blank == [daily |-> 0, day |-> NoDay, mark |-> NoMarks, peak |-> 0]

Items == Kinds \cup {"peak"}
Places == {"off", "account", "read", "apply", "write", "fetch", "store", "sync",
           "finish", "positions", "closures"}
(* Where a reconciliation returns to: the first iteration, the positions of *)
(* a new account, or the next iteration.  item is the cached record being   *)
(* read, a marker only while the markers are restored, and got its value;   *)
(* synced says that synchronize_closed_trades has run in this               *)
(* reconciliation.                                                          *)
Returns == {"begin", "positions", "account"}
LoopState == [at : Places, back : Returns, acct : Accounts \cup {NoAccount},
              item : Items, got : Nat, synced : BOOLEAN,
              current : SUBSET Tickets, todo : SUBSET Tickets, fetched : SUBSET Tickets]
Off == [at |-> "off", back |-> "begin", acct |-> NoAccount,
        item |-> "peak", got |-> 0, synced |-> FALSE,
        current |-> {}, todo |-> {}, fetched |-> {}]

Command == [at : {"idle", "saving", "applying"},
            acct : Accounts \cup {NoAccount}, marker : Times]
NoCommand == [at |-> "idle", acct |-> NoAccount, marker |-> 0]

Greater(x, y) == IF x >= y THEN x ELSE y
Raised(r, balance) == [r EXCEPT !.peak = Greater(@, balance)]

Init ==
    /\ terminal \in Accounts
    /\ now = 1
    /\ closedAt = [t \in Tickets |-> IF t \in ClosedBefore THEN 1 ELSE 0]
    /\ rows = [a \in Accounts |-> {}]
    /\ saved = [a \in Accounts |-> NoMarks]
    /\ savedPeak = PeakBefore
    /\ active = NoAccount /\ known = {} /\ ready = FALSE
    /\ risk = Blank /\ loop = Off /\ cmd = [k \in Kinds |-> NoCommand]
    /\ events = 0
    /\ booked = {} /\ dropped = {}
    /\ low = TRUE /\ high = FALSE /\ strayed = FALSE /\ carried = FALSE

Event == events < MaxEvents /\ events' = events + 1

-----------------------------------------------------------------------------
(* The risk manager.                                                       *)

(* Mutant: midnight clears the counter and forgets the markers. *)
RolledKeepingMarks(r, d) ==
    IF r.day = d THEN r ELSE [r EXCEPT !.daily = 0, !.day = d]

(* _maybe_reset_daily on a given UTC day. *)
Rolled(r, d) ==
    IF r.day = d THEN r
    ELSE [r EXCEPT !.daily = 0, !.day = d,
                   !.mark = [@ EXCEPT !["daily"] = 0, !["cooldown"] = 0]]
RolledNow(r) == Rolled(r, Day(now))

(* _update_execution_readiness asks for the daily loss, which rolls it over. *)
Readiness(r) == RolledNow(r)

(* restore_daily_loss_reset, _loss_cooldown_reset, _losing_streak_reset of  *)
(* a cached marker m; a missing one is not passed on.                       *)
RestoreDaily(r, m) ==
    IF m = 0 THEN r
    ELSE IF Day(m) # Day(now) THEN RolledNow(r)
    ELSE [RolledNow(r) EXCEPT !.daily = 0,
                              !.mark = [@ EXCEPT !["daily"] = m, !["cooldown"] = m]]
RestoreCooldown(r, m) ==
    IF m = 0 THEN r
    ELSE IF Day(m) # Day(now) THEN RolledNow(r)
    ELSE [RolledNow(r) EXCEPT !.mark["cooldown"] = Greater(m, @)]
RestoreStreak(r, m) == IF m = 0 THEN r ELSE [r EXCEPT !.mark["streak"] = m]

RestoredMark(r, k, m) ==
    CASE k = "daily"    -> RestoreDaily(r, m)
      [] k = "cooldown" -> RestoreCooldown(r, m)
      [] k = "streak"   -> RestoreStreak(r, m)

(* reset_daily_loss_for_today, reset_loss_cooldown, reset_losing_streak. *)
Reset(r, kind, marker) ==
    CASE kind = "daily" ->
           [Rolled(r, Day(marker)) EXCEPT !.daily = 0,
              !.mark = [@ EXCEPT !["daily"] = marker, !["cooldown"] = marker]]
      [] kind = "cooldown" ->
           [Rolled(r, Day(marker)) EXCEPT !.mark["cooldown"] = marker]
      [] kind = "streak" -> [r EXCEPT !.mark["streak"] = marker]

(* Mutant: the loss is added with its sign. *)
RecordedSigned(r, loss, balance) ==
    Raised([r EXCEPT !.daily = @ - loss], balance)

(* record_trade_closed of a strategy position with this loss. *)
Recorded(r, loss, balance) ==
    Raised([r EXCEPT !.daily = @ + loss], balance)

(* The losses of the day in a history, after a marker. *)
LossesAfter(history, marker) ==
    {t \in history : /\ closedAt[t] # 0 /\ LossOf[t] > 0
                     /\ Day(closedAt[t]) = Day(now) /\ closedAt[t] > marker}

(* Mutant: the history replaces the counter. *)
SynchronizedOver(r, history, balance) ==
    LET q == RolledNow(r)
    IN  Raised([q EXCEPT !.daily = Total(LossesAfter(history, q.mark["daily"]))], balance)

(* Mutant: the operator's reset is forgotten. *)
SynchronizedPastReset(r, history, balance) ==
    LET q == RolledNow(r)
    IN  Raised([q EXCEPT !.daily = Greater(@, Total(LossesAfter(history, 0)))], balance)

(* synchronize_closed_trades. *)
Synchronized(r, history, balance) ==
    LET q == RolledNow(r)
    IN  Raised([q EXCEPT
          !.daily = Greater(@, Total(LossesAfter(history, q.mark["daily"])))], balance)

(* Mutant: the peak balance survives. *)
ClearedButPeak(r) == [Blank EXCEPT !.peak = r.peak]

(* reset_for_account. *)
Cleared(r) == Blank

-----------------------------------------------------------------------------
(* The terminal, the broker and the clock.                                 *)

Tick ==
    /\ now < MaxTime
    /\ now' = now + 1
    /\ UNCHANGED <<terminal, closedAt, database, active, known, ready, risk, loop,
                   cmd, events, ghosts>>

(* A stop, a target, the engine or the user closes a position. *)
Close(t) ==
    /\ closedAt[t] = 0
    /\ closedAt' = [closedAt EXCEPT ![t] = now]
    /\ UNCHANGED <<terminal, now, database, active, known, ready, risk, loop, cmd,
                   events, ghosts>>

SwitchAccount ==
    /\ Event
    /\ terminal' \in Accounts \ {terminal}
    /\ UNCHANGED <<now, closedAt, database, active, known, ready, risk, loop, cmd,
                   ghosts>>

-----------------------------------------------------------------------------
(* The life of the engine.                                                 *)

BlankGhosts ==
    /\ booked' = {}
    /\ low' = TRUE /\ high' = FALSE /\ strayed' = FALSE

(* start: the account is read and becomes the active one; what an earlier   *)
(* session of the process has left in memory stays.                         *)
Start ==
    /\ loop.at = "off"
    /\ loop' = [Off EXCEPT !.at = "read", !.item = "daily", !.acct = terminal]
    /\ active' = terminal
    /\ LET kept == active \notin {NoAccount, terminal} /\ risk # Blank
       IN  /\ high' = (high \/ kept)
           /\ strayed' = (strayed \/ kept)
           /\ carried' = (carried \/ kept)
    /\ low' = TRUE
    /\ UNCHANGED <<broker, database, known, ready, risk, cmd, events, booked, dropped>>

(* stop cancels the loop wherever it waits; it waits itself for a start.    *)
(* Amid a change of account the markers may already be the new account's,   *)
(* and behind synchronize_closed_trades the loss and the peak are: the      *)
(* active identity is the old one until the reconciliation has returned.    *)
Stop ==
    /\ loop.at # "off" /\ loop.back # "begin"
    /\ Event
    /\ loop' = Off
    /\ LET amid == loop.back = "positions"
       IN  /\ low' = (low \/ amid \/ loop.at = "sync")
           /\ strayed' = (strayed \/ amid)
           /\ high' = (high \/ (amid /\ loop.synced))
           /\ carried' = (carried \/ (amid /\ loop.synced))
    /\ UNCHANGED <<broker, database, active, known, ready, risk, cmd, booked, dropped>>

(* The process dies: the database is all that is left. *)
Crash ==
    /\ Event
    /\ active # NoAccount
    /\ active' = NoAccount /\ known' = {} /\ ready' = FALSE
    /\ risk' = Blank /\ loop' = Off /\ cmd' = [k \in Kinds |-> NoCommand]
    /\ dropped' = {}
    /\ BlankGhosts
    /\ UNCHANGED <<broker, database, carried>>

-----------------------------------------------------------------------------
(* The cached records of an account: its markers, one after the other, and *)
(* its peak balance.                                                       *)

(* get_cache answers a failed read like a missing record. *)
ReadCache(lost) ==
    /\ loop.at = "read"
    /\ IF lost THEN Event ELSE UNCHANGED events
    /\ LET a == loop.acct
           value == IF loop.item = "peak" THEN savedPeak[a] ELSE saved[a][loop.item]
       IN  loop' = [loop EXCEPT !.at = "apply", !.got = IF lost THEN 0 ELSE value]
    /\ UNCHANGED <<broker, database, active, known, ready, risk, cmd, ghosts>>

(* The marker that was read is passed on, and the next record asked for.   *)
(* Between the two an operator's reset may have stored another one.        *)
ApplyMarker ==
    /\ loop.at = "apply" /\ loop.item # "peak"
    /\ risk' = RestoredMark(risk, loop.item, loop.got)
    /\ loop' = [loop EXCEPT
          !.at = IF loop.item = "streak" /\ loop.back # "begin" THEN "fetch" ELSE "read",
          !.item = CASE loop.item = "daily"    -> "cooldown"
                     [] loop.item = "cooldown" -> "streak"
                     [] loop.item = "streak"   -> "peak",
          !.got = 0]
    /\ low' = TRUE
    /\ strayed' = (strayed \/ loop.got # saved[loop.acct][loop.item])
    /\ UNCHANGED <<broker, database, active, known, ready, cmd, events, booked, dropped,
                   high, carried>>

(* update_peak_balance with the cached one.  A reconciliation has raised    *)
(* the peak to the balance before.                                         *)
ApplyPeak ==
    /\ loop.at = "apply" /\ loop.item = "peak"
    /\ risk' = Raised(risk, Greater(BalanceOf[loop.acct], loop.got))
    /\ loop' = [loop EXCEPT !.at = "write"]
    /\ UNCHANGED <<broker, database, active, known, ready, cmd, events, ghosts>>

(* set_cache of the peak; nobody looks whether it has succeeded. *)
WritePeak(fails) ==
    /\ loop.at = "write"
    /\ IF fails THEN Event /\ UNCHANGED savedPeak
                ELSE UNCHANGED events /\ savedPeak' = [savedPeak EXCEPT ![loop.acct] = risk.peak]
    /\ loop' = [loop EXCEPT !.at = IF loop.synced THEN "finish" ELSE "fetch", !.got = 0]
    /\ UNCHANGED <<broker, rows, saved, active, known, ready, risk, cmd, ghosts>>

-----------------------------------------------------------------------------
(* _reconcile_history.                                                     *)

(* What its caller does on its return, up to the next await. *)
Return(r) ==
    /\ loop' = [loop EXCEPT !.at = IF loop.back = "positions" THEN "positions" ELSE "account",
                            !.back = "account", !.synced = FALSE, !.fetched = {}]
    /\ active' = loop.acct
    /\ risk' = IF loop.back = "positions" THEN Raised(r, BalanceOf[loop.acct])
                ELSE Readiness(r)

Fail ==
    /\ Event
    /\ ready' = FALSE
    /\ Return(risk)

(* BrokerHistoryReconciler.fetch: the closed positions of the strategy on  *)
(* the account the terminal is logged in to at that moment, as far as the  *)
(* range query shows them already.                                         *)
ClosedOn(a) == {t \in Strategy : closedAt[t] # 0 /\ OwnerOf[t] = a}
Fetch(shown) ==
    /\ loop.at = "fetch"
    /\ loop' = [loop EXCEPT !.at = "store", !.fetched = shown]
    /\ dropped' = dropped \cap shown
    /\ UNCHANGED <<broker, database, active, known, ready, risk, cmd, events, booked, low, high,
                   strayed, carried>>

FetchFails ==
    /\ loop.at = "fetch"
    /\ Fail
    /\ UNCHANGED <<broker, database, known, cmd, ghosts>>

(* Mutant: the transaction is not committed. *)
StoreUncommitted ==
    /\ loop.at = "store"
    /\ loop' = [loop EXCEPT !.at = "sync", !.fetched = {}]
    /\ UNCHANGED <<broker, database, active, known, ready, risk, cmd, events, ghosts>>

(* upsert_closed_positions under the captured login. *)
Store ==
    /\ loop.at = "store"
    /\ rows' = [rows EXCEPT ![loop.acct] = @ \cup loop.fetched]
    /\ loop' = [loop EXCEPT !.at = "sync", !.fetched = {}]
    /\ UNCHANGED <<broker, saved, savedPeak, active, known, ready, risk, cmd, events, ghosts>>

(* The rows cannot be enriched (a baseline, a replay row or a symbol that   *)
(* cannot be read), or not be written: none of them is.                    *)
StoreFails ==
    /\ loop.at = "store"
    /\ Fail
    /\ UNCHANGED <<broker, database, known, cmd, ghosts>>

(* get_closed_positions and synchronize_closed_trades; the peak follows. *)
Sync ==
    /\ loop.at = "sync"
    /\ LET a == loop.acct
       IN  /\ risk' = Synchronized(risk, rows[a], BalanceOf[a])
           /\ low' = (low /\ ~ booked \subseteq rows[a])
           /\ high' = (high \/ \E t \in rows[a] : OwnerOf[t] # a)
    /\ loop' = [loop EXCEPT !.at = "read", !.synced = TRUE]
    /\ UNCHANGED <<broker, database, active, known, ready, cmd, events, booked, dropped,
                   strayed, carried>>

(* The replay outcomes and exit candidates are written, and the coroutine  *)
(* returns; only now does its caller take over the account.                *)
Finish ==
    /\ loop.at = "finish"
    /\ ready' = TRUE
    /\ Return(risk)
    /\ UNCHANGED <<broker, database, known, cmd, events, ghosts>>

FinishFails ==
    /\ loop.at = "finish"
    /\ Fail
    /\ UNCHANGED <<broker, database, known, cmd, ghosts>>

(* The history cannot be read back from the database. *)
SyncFails ==
    /\ loop.at = "sync"
    /\ Fail
    /\ low' = TRUE
    /\ UNCHANGED <<broker, database, known, cmd, booked, dropped, high, strayed, carried>>

-----------------------------------------------------------------------------
(* An iteration of _main_loop.                                             *)

(* A changed account is noticed here, and only here. *)
ReadAccount ==
    /\ loop.at = "account"
    /\ IF terminal = active
       THEN /\ loop' = [loop EXCEPT !.at = "positions", !.acct = terminal]
            /\ risk' = Raised(risk, BalanceOf[terminal])
            /\ UNCHANGED <<known, booked, low, high, strayed>>
       ELSE /\ loop' = [loop EXCEPT !.at = "read", !.item = "daily", !.got = 0,
                                    !.acct = terminal, !.back = "positions"]
            /\ known' = {}
            /\ risk' = Cleared(risk)
            /\ BlankGhosts
    /\ UNCHANGED <<broker, database, active, ready, cmd, events, dropped, carried>>

ReadPositions ==
    /\ loop.at = "positions"
    /\ \/ /\ LET listed == {t \in Tickets : closedAt[t] = 0 /\ OwnerOf[t] = terminal}
             IN  loop' = [loop EXCEPT !.at = "closures", !.current = listed,
                                      !.todo = known \ listed]
          /\ UNCHANGED <<risk, events>>
       \/ /\ Event
          /\ loop' = [loop EXCEPT !.at = "account"]
          /\ risk' = Readiness(risk)
    /\ UNCHANGED <<broker, database, active, known, ready, cmd, ghosts>>

(* The account whose losses the counters are meant to hold. *)
AtAccount == {"read", "apply", "write", "fetch", "store", "sync", "finish"}
RiskOwner == IF loop.at \in AtAccount THEN loop.acct ELSE active

(* A known position is gone.  Its deals are read from the account that is  *)
(* selected now: on another one there are none, and the profit is zero.    *)
BookClosure(t) ==
    /\ loop.at = "closures" /\ t \in loop.todo
    /\ loop' = [loop EXCEPT !.todo = @ \ {t}]
    /\ LET real == closedAt[t] # 0 /\ OwnerOf[t] = terminal /\ t \in Strategy
           loss == IF real THEN LossOf[t] ELSE 0
       IN  /\ risk' = IF t \in Strategy THEN Recorded(risk, loss, BalanceOf[loop.acct]) ELSE risk
           /\ booked' = IF real THEN booked \cup {t} ELSE booked
           /\ low' = (low \/ (loss > 0 /\ risk.day # Day(now)))
           /\ high' = (high \/ /\ loss > 0
                               /\ \/ t \in booked \cup rows[RiskOwner]
                                  \/ OwnerOf[t] # RiskOwner
                                  \/ Day(closedAt[t]) # Day(now)
                                  \/ closedAt[t] <= risk.mark["daily"])
    /\ UNCHANGED <<broker, database, active, known, ready, cmd, events, dropped, strayed, carried>>

(* Mutant: the history still counts as reconciled. *)
DeferClosureQuietly(t) ==
    /\ loop.at = "closures" /\ t \in loop.todo
    /\ Event
    /\ loop' = [loop EXCEPT !.todo = @ \ {t}]
    /\ dropped' = IF closedAt[t] # 0 THEN dropped \cup {t} ELSE dropped
    /\ UNCHANGED <<broker, database, active, known, ready, risk, cmd, booked, low, high, strayed,
                   carried>>

(* The deals cannot be read: the outcome is left to the reconciliation. *)
DeferClosure(t) ==
    /\ loop.at = "closures" /\ t \in loop.todo
    /\ Event
    /\ loop' = [loop EXCEPT !.todo = @ \ {t}]
    /\ ready' = FALSE
    /\ dropped' = IF closedAt[t] # 0 THEN dropped \cup {t} ELSE dropped
    /\ UNCHANGED <<broker, database, active, known, risk, cmd, booked, low, high, strayed, carried>>

(* An exception in the body: the closures of this poll are found again. *)
Abort ==
    /\ loop.at \in {"positions", "closures"}
    /\ Event
    /\ loop' = [loop EXCEPT !.at = "account", !.current = {}, !.todo = {}]
    /\ UNCHANGED <<broker, database, active, known, ready, risk, cmd, ghosts>>

Finished ==
    /\ loop.at = "closures" /\ loop.todo = {}
    /\ known' = loop.current

(* reconcile_interval_seconds have passed, or not yet. *)
Periodic ==
    /\ Finished
    /\ loop' = [loop EXCEPT !.at = "fetch", !.back = "account", !.current = {}]
    /\ UNCHANGED <<broker, database, active, ready, risk, cmd, events, ghosts>>

NotYet ==
    /\ Finished
    /\ loop' = [loop EXCEPT !.at = "account", !.current = {}]
    /\ risk' = Readiness(risk)
    /\ UNCHANGED <<broker, database, active, ready, cmd, events, ghosts>>

-----------------------------------------------------------------------------
(* reset_daily_loss_stop, reset_loss_cooldown, reset_losing_streak: read   *)
(* the account, cache the marker, then change the counters.                *)

AskReset(k) ==
    /\ cmd[k].at = "idle"
    /\ Event
    /\ active \in {NoAccount, terminal}
    /\ cmd' = [cmd EXCEPT ![k] = [at |-> "saving", acct |-> terminal, marker |-> now]]
    /\ UNCHANGED <<broker, database, active, known, ready, risk, loop, ghosts>>

SaveReset(k) ==
    /\ cmd[k].at = "saving"
    /\ \/ /\ saved' = [saved EXCEPT ![cmd[k].acct][k] = cmd[k].marker]
          /\ cmd' = [cmd EXCEPT ![k].at = "applying"]
          /\ UNCHANGED events
       \/ /\ Event
          /\ cmd' = [cmd EXCEPT ![k] = NoCommand]
          /\ UNCHANGED saved
    /\ UNCHANGED <<broker, rows, savedPeak, active, known, ready, risk, loop, ghosts>>

ApplyReset(k) ==
    /\ cmd[k].at = "applying"
    /\ LET m == cmd[k].marker
           astray == cmd[k].acct # RiskOwner \/ (k # "streak" /\ Day(m) # Day(now))
           other == IF k = "daily" THEN "cooldown" ELSE "daily"
       IN  /\ risk' = Readiness(Reset(risk, k, m))
           /\ low' = (low \/ (k # "streak" /\ astray)
                          \/ (k = "daily" /\ LossesAfter(booked \cup rows[cmd[k].acct], m) # {}))
           /\ strayed' = (strayed \/ astray \/ (k # "streak" /\ saved[cmd[k].acct][other] > m))
    /\ cmd' = [cmd EXCEPT ![k] = NoCommand]
    /\ UNCHANGED <<broker, database, active, known, ready, loop, events, booked,
                   dropped, high, carried>>

-----------------------------------------------------------------------------
Environment ==
    \/ Tick
    \/ \E t \in Tickets : Close(t)
    \/ SwitchAccount

Engine ==
    \/ Start \/ Stop \/ Crash
    \/ \E b \in BOOLEAN : ReadCache(b) \/ WritePeak(b)
    \/ ApplyMarker \/ ApplyPeak
    \/ \E shown \in SUBSET ClosedOn(terminal) : Fetch(shown)
    \/ FetchFails \/ Store \/ StoreFails \/ Sync \/ SyncFails
    \/ Finish \/ FinishFails
    \/ ReadAccount \/ ReadPositions \/ Abort
    \/ \E t \in Tickets : BookClosure(t) \/ DeferClosure(t)
    \/ Periodic \/ NotYet

Operator == \E k \in Commands : AskReset(k) \/ SaveReset(k) \/ ApplyReset(k)

Next == Environment \/ Engine \/ Operator

Spec == Init /\ [][Next]_vars

(* Coroutines are resumed, the loop polls for ever, the interval of the    *)
(* reconciliation passes, and the broker shows each closure some day.      *)
CompleteFetch == Fetch(ClosedOn(terminal))
Polling ==
    \/ ReadCache(FALSE) \/ ApplyMarker \/ ApplyPeak \/ WritePeak(FALSE)
    \/ Store \/ Sync \/ Finish
    \/ \E shown \in SUBSET ClosedOn(terminal) : Fetch(shown)
    \/ ReadAccount \/ ReadPositions
    \/ \E t \in Tickets : BookClosure(t)
    \/ NotYet

LiveSpec ==
    /\ Spec
    /\ WF_vars(Polling)
    /\ SF_vars(Periodic)
    /\ SF_vars(CompleteFetch)
    /\ \A k \in Commands : WF_vars(SaveReset(k) \/ ApplyReset(k))

-----------------------------------------------------------------------------
(* Every variable keeps to the values the code can give it. *)
TypeOK ==
    /\ terminal \in Accounts
    /\ now \in 1..MaxTime
    /\ closedAt \in [Tickets -> Times]
    /\ rows \in [Accounts -> SUBSET Tickets]
    /\ saved \in [Accounts -> [Kinds -> Times]]
    /\ savedPeak \in [Accounts -> Nat]
    /\ active \in Accounts \cup {NoAccount}
    /\ known \subseteq Tickets
    /\ ready \in BOOLEAN
    /\ risk \in RiskState
    /\ loop \in LoopState
    /\ cmd \in [Kinds -> Command]
    /\ events \in 0..MaxEvents
    /\ booked \subseteq Tickets /\ dropped \subseteq Tickets
    /\ low \in BOOLEAN /\ high \in BOOLEAN /\ strayed \in BOOLEAN /\ carried \in BOOLEAN

(* The strategy's losses of the day on an account, after the marker. *)
Due(a) == LossesAfter({t \in Strategy : OwnerOf[t] = a}, risk.mark["daily"])

UpToDate == risk.day = Day(now)

(* What the monitor has booked, and what the stored history says, is in    *)
(* the counter of its day: no lagging snapshot, failed read, repeated poll  *)
(* or reset of something else takes it out (risk/manager.py 2086-2089).  A  *)
(* loss booked before the day was rolled over, or zeroed by a reset that    *)
(* was asked for before it, is missing until a synchronization has it (low). *)
CountsWhatItKnows ==
    ~low /\ UpToDate =>
        /\ risk.daily >= Total(Due(RiskOwner) \cap booked)
        /\ loop.at # "sync" => risk.daily >= Total(Due(RiskOwner) \cap rows[RiskOwner])

(* The counter never holds more than the losses the account has had since  *)
(* midnight and since the operator's reset, unless a loss reached it twice  *)
(* or under the wrong day, marker or account (high).                        *)
NotInflated ==
    ~high /\ UpToDate => risk.daily <= Total(Due(RiskOwner))

(* The same without the exception: README.md 131 calls it the UTC gross    *)
(* daily loss.  Violated: a closure that the periodic reconciliation reads  *)
(* before the next poll misses the position is added again by that poll.    *)
CountsEachLossOnce ==
    UpToDate /\ ~carried => risk.daily <= Total(Due(RiskOwner))

(* The reset markers in memory are those the operator has stored for this  *)
(* account and day, through restarts, midnight and account changes.         *)
StoredToday(a, k) == IF Day(saved[a][k]) = Day(now) THEN saved[a][k] ELSE 0
MarkIsOwn ==
    /\ ~strayed /\ UpToDate
    /\ loop.at # "off" /\ loop.item = "peak"
    /\ \A k \in Kinds : cmd[k].at # "applying"
    => LET a == RiskOwner
       IN  /\ risk.mark["daily"] = StoredToday(a, "daily")
           /\ risk.mark["cooldown"] = Greater(StoredToday(a, "daily"), StoredToday(a, "cooldown"))
           /\ risk.mark["streak"] = saved[a]["streak"]

(* The drawdown is measured from a balance this account has had, and so is *)
(* the one of its cached record, unless memory was kept for another account *)
(* than its counters are of: by a start on another account than the one it  *)
(* was stopped on, or by a stop amid a change of account (carried).         *)
Highest(a) == Greater(BalanceOf[a], PeakBefore[a])
PeakIsOwn ==
    ~carried => /\ active # NoAccount => risk.peak <= Highest(RiskOwner)
                /\ \A a \in Accounts : savedPeak[a] <= Highest(a)

(* Today's losses leave the counter only with the process, with the account *)
(* the loop was on, at a marker of today read back from the cache (by then *)
(* perhaps an old one), and by the operator: the                            *)
(* reset of the day, or one of the cooldown that was asked for before       *)
(* midnight and reaches the counters after it.                             *)
LossesAreKept ==
    [][UpToDate /\ risk'.daily < risk.daily =>
          \/ Crash
          \/ ReadAccount /\ terminal # active
          \/ ApplyMarker /\ loop.item = "daily" /\ loop.got # 0 /\ Day(loop.got) = Day(now)
          \/ ApplyReset("daily")
          \/ ApplyReset("cooldown") /\ Day(cmd["cooldown"].marker) # Day(now)]_vars

(* The highest balance an account was seen with leaves the cache only at a *)
(* write whose own read of the record has failed: no restart, change of     *)
(* account, stop or failed write before or after it lowers the record       *)
(* (restore at start, _reconcile_history).                                  *)
CachedPeakFallsUnread ==
    [][\A a \in Accounts : savedPeak'[a] < savedPeak[a] =>
          loop.at = "write" /\ loop.acct = a /\ loop.got = 0]_vars

(* While the history counts as reconciled, every closure whose deals could *)
(* not be read is in the stored history, or the broker did not show it at   *)
(* the last read: the deferred outcome is not forgotten.                    *)
ReadyKnowsDropped ==
    /\ ready /\ loop.at \in {"account", "positions", "closures"}
    => \A t \in dropped \cap Strategy :
          OwnerOf[t] = active => t \in rows[active]

(* In the end every loss of the day is counted, whatever was lost on the   *)
(* way: each window above is closed by a later reconciliation.              *)
CounterCatchesUp ==
    <>[](loop.at \in {"account", "positions", "closures"} /\ UpToDate
         => risk.daily >= Total(Due(active)))
=============================================================================
