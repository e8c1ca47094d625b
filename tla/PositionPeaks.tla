--------------------------- MODULE PositionPeaks ---------------------------
(***************************************************************************)
(* The best profit a position has shown: memory and database.              *)
(*                                                                         *)
(* Every profit rule of the engine measures from a ticket's peak.  Two     *)
(* loops of core/engine.py, the main loop and the priority protection      *)
(* loop, keep it with one coroutine, _restore_and_update_position_peak,    *)
(* which awaits the database between its reads and its writes of the       *)
(* shared dictionaries.  A cache call (database/storage.py) runs in a      *)
(* thread and on a connection of its own; nothing orders two of them.      *)
(*                                                                         *)
(* One ticket is followed: tickets share neither dictionary entries nor    *)
(* cache keys.  Profit is counted in whole steps; a negative one counts as *)
(* zero (the trough is the peak's mirror image in the same record).        *)
(***************************************************************************)
EXTENDS Integers

CONSTANTS
    Accounts,   \* identities the terminal can be logged in to
    Home,       \* the account that holds the position
    Loops,      \* the polling loops at work, "main" and "protection"
    Top,        \* bound: the highest profit observed
    Delta,      \* profit_peak_persist_delta_usd
    MaxFaults   \* bound: account switches, crashes, failed cache calls

ASSUME PeaksAssumption ==
    /\ Home \in Accounts
    /\ Loops \subseteq {"main", "protection"}
    /\ Top \in Nat
    /\ Delta \in Nat \ {0}
    /\ MaxFaults \in Nat

VARIABLES
    terminal,   \* account selected in the MT5 terminal
    active,     \* _active_account_identity
    open,       \* the position exists at the broker
    stored,     \* stored[a]: the peak cached under a's key for the ticket
    loaded,     \* the ticket is in _peak_state_loaded
    peak,       \* _peak_profit_usd of the ticket
    persisted,  \* _peak_persisted_usd of the ticket
    seenOpen,   \* the ticket is in _last_positions_tickets
    loop,       \* loop[l]: where a loop is and what it keeps across its awaits
    faults,
    (* for the properties *)
    confirmed,  \* the highest peak whose write under Home's key was confirmed
    exposed     \* the window of a failed read, of two writers or of a switch was hit

memory == <<loaded, peak, persisted>>
ghosts == <<confirmed, exposed>>
vars == <<terminal, active, open, stored, memory, seenOpen, loop, faults, ghosts>>

NoRecord == -1
Profits == 0..Top
MaybeProfit == Profits \cup {NoRecord}

(* Where a loop is: inside the update while a cache call is under way, or   *)
(* elsewhere in its poll.                                                  *)
Updating == {"fetching", "fetched", "writing"}
Places == {"idle", "adopting", "listing", "observed", "written", "closing", "missing",
           "refreshing", "rereading", "rebinding", "acting"} \cup Updating

LoopState == [at : Places, acct : Accounts, obs : Profits, got : MaybeProfit,
              val : Profits, refreshed : BOOLEAN]

IdleLoop == [at |-> "idle", acct |-> Home, obs |-> 0, got |-> NoRecord, val |-> 0,
             refreshed |-> FALSE]

Go(l, place) == loop' = [loop EXCEPT ![l].at = place]
Rest(l) == loop' = [loop EXCEPT ![l] = IdleLoop]

Greater(m, n) == IF m > n THEN m ELSE n

(* The update has returned: the loop goes on.                              *)
AfterUpdate(l) ==
    IF l = "main" THEN "closing"
    ELSE IF loop[l].refreshed THEN "acting" ELSE "refreshing"

GoOn(l) == loop' = [loop EXCEPT ![l] = [IdleLoop EXCEPT !.at = AfterUpdate(l),
                                                        !.acct = loop[l].acct,
                                                        !.refreshed = loop[l].refreshed]]

(* positions_get returns the ticket.                                       *)
Visible == open /\ terminal = Home

Fault == faults < MaxFaults /\ faults' = faults + 1

-----------------------------------------------------------------------------
Init ==
    /\ terminal = Home
    /\ active = Home
    /\ open = TRUE
    /\ stored = [a \in Accounts |-> NoRecord]
    /\ loaded = FALSE
    /\ peak = 0
    /\ persisted = NoRecord
    /\ seenOpen = FALSE
    /\ loop = [l \in Loops |-> IdleLoop]
    /\ faults = 0
    /\ confirmed = NoRecord
    /\ exposed = FALSE

(* Mutant of Forget: the sentinel of the record goes into the peak.        *)
ForgetToRecord ==
    /\ loaded' = FALSE
    /\ peak' = NoRecord
    /\ persisted' = NoRecord

(* _forget_position_runtime_state, and the clearing of an account switch.  *)
Forget ==
    /\ loaded' = FALSE
    /\ peak' = 0
    /\ persisted' = NoRecord

(* The same while another loop is in the middle of an update.              *)
ForgetBy(l) ==
    /\ Forget
    /\ exposed' = (exposed \/ \E k \in Loops \ {l} : loop[k].at \in Updating)

-----------------------------------------------------------------------------
(* _restore_and_update_position_peak                                       *)

(* A first observation and a move by the configured delta are written.     *)
Persists(new, known) == known = NoRecord \/ new - known >= Delta

(* The part without an await, from base (the peak that is in memory, or     *)
(* merged with the record): raise the peak and decide on the write.  The    *)
(* trough, which is not modelled, may call for a write of the record, too.  *)
Observe(l, base, known) ==
    LET new == Greater(base, loop[l].obs)
    IN  /\ peak' = new
        /\ persisted' = known
        /\ loaded' = TRUE
        /\ \/ /\ loop' = [loop EXCEPT ![l] = [@ EXCEPT !.at = "writing", !.obs = 0,
                                              !.got = NoRecord, !.val = new]]
              /\ exposed' = \/ exposed
                            \/ loop[l].acct # Home
                            \/ \E k \in Loops \ {l} : loop[k].at = "writing"
           \/ /\ ~Persists(new, known)
              /\ GoOn(l)
              /\ exposed' = (exposed \/ loop[l].acct # Home)

Update(l) ==
    /\ loop[l].at = "observed"
    /\ IF loaded
       THEN Observe(l, peak, persisted)
       ELSE Go(l, "fetching") /\ UNCHANGED <<memory, exposed>>
    /\ UNCHANGED <<terminal, active, open, stored, seenOpen, faults, confirmed>>

(* get_cache in its thread: a failed read answers as a missing record does. *)
Fetch(l) ==
    /\ loop[l].at = "fetching"
    /\ \/ /\ loop' = [loop EXCEPT ![l].at = "fetched", ![l].got = stored[loop[l].acct]]
          /\ UNCHANGED <<faults, exposed>>
       \/ /\ Fault
          /\ loop' = [loop EXCEPT ![l].at = "fetched", ![l].got = NoRecord]
          /\ exposed' = TRUE
    /\ UNCHANGED <<terminal, active, open, stored, memory, seenOpen, confirmed>>

(* Mutant of Merged: the record replaces what memory holds by now.         *)
RecordOnly(l) == Greater(loop[l].got, 0)

(* Memory may have been raised by the other loop meanwhile.                *)
Merged(l) == Greater(peak, loop[l].got)

Merge(l) ==
    /\ loop[l].at = "fetched"
    /\ Observe(l, Merged(l), IF loop[l].got = NoRecord THEN persisted ELSE loop[l].got)
    /\ UNCHANGED <<terminal, active, open, stored, seenOpen, faults, confirmed>>

(* Mutant of Write: a write that failed counts as confirmed.               *)
WriteUnconfirmed(l) ==
    /\ loop[l].at = "writing"
    /\ Go(l, "written")
    /\ \/ /\ stored' = [stored EXCEPT ![loop[l].acct] = loop[l].val]
          /\ UNCHANGED faults
       \/ Fault /\ UNCHANGED stored
    /\ UNCHANGED <<terminal, active, open, memory, seenOpen, ghosts>>

(* set_cache in its thread, which may fail.                                *)
Write(l) ==
    /\ loop[l].at = "writing"
    /\ \/ /\ stored' = [stored EXCEPT ![loop[l].acct] = loop[l].val]
          /\ Go(l, "written")
          /\ UNCHANGED faults
       \/ /\ Fault
          /\ GoOn(l)
          /\ UNCHANGED stored
    /\ UNCHANGED <<terminal, active, open, memory, seenOpen, ghosts>>

(* A confirmed write is remembered as the persisted peak.                  *)
Written(l) ==
    /\ loop[l].at = "written"
    /\ persisted' = loop[l].val
    /\ confirmed' = IF loop[l].acct = Home THEN Greater(confirmed, loop[l].val)
                                           ELSE confirmed
    /\ GoOn(l)
    /\ UNCHANGED <<terminal, active, open, stored, loaded, peak, seenOpen, faults, exposed>>

-----------------------------------------------------------------------------
(* _main_loop                                                              *)

(* The account is read; a change of account clears what is in memory.      *)
MainAccount ==
    /\ loop["main"].at = "idle"
    /\ loop' = [loop EXCEPT !["main"].at = IF terminal = active THEN "listing" ELSE "adopting",
                            !["main"].acct = terminal]
    /\ IF terminal = active
       THEN UNCHANGED <<memory, seenOpen, exposed>>
       ELSE ForgetBy("main") /\ seenOpen' = FALSE
    /\ UNCHANGED <<terminal, active, open, stored, faults, confirmed>>

MainAdopt ==
    /\ loop["main"].at = "adopting"
    /\ active' = loop["main"].acct
    /\ Go("main", "listing")
    /\ UNCHANGED <<terminal, open, stored, memory, seenOpen, faults, ghosts>>

(* positions_get; without an answer the poll ends.                         *)
MainList ==
    /\ loop["main"].at = "listing"
    /\ \/ Fault /\ Rest("main")
       \/ /\ Visible
          /\ \E o \in Profits :
                loop' = [loop EXCEPT !["main"].at = "observed", !["main"].obs = o]
          /\ UNCHANGED faults
       \/ ~Visible /\ Go("main", "missing") /\ UNCHANGED faults
    /\ UNCHANGED <<terminal, active, open, stored, memory, seenOpen, ghosts>>

(* The ticket is there and will be looked for in the next poll.            *)
MainKnown ==
    /\ loop["main"].at = "closing"
    /\ seenOpen' = TRUE
    /\ Rest("main")
    /\ UNCHANGED <<terminal, active, open, stored, memory, faults, ghosts>>

(* A ticket of the last poll that is missing now has closed: its state goes *)
(* (or stays behind for ever, when its deals cannot be read).              *)
MainClosure ==
    /\ loop["main"].at = "missing"
    /\ \/ seenOpen /\ ForgetBy("main")
       \/ UNCHANGED <<memory, exposed>>
    /\ seenOpen' = FALSE
    /\ Rest("main")
    /\ UNCHANGED <<terminal, active, open, stored, faults, confirmed>>

-----------------------------------------------------------------------------
(* _protection_loop                                                        *)

(* The identity is copied before the positions are read.                   *)
ProtectBegin ==
    /\ loop["protection"].at = "idle"
    /\ loop' = [loop EXCEPT !["protection"].at = "listing", !["protection"].acct = active]
    /\ UNCHANGED <<terminal, active, open, stored, memory, seenOpen, faults, ghosts>>

(* As in the main loop, a failed call ends the poll.                       *)
ProtectList ==
    /\ loop["protection"].at = "listing"
    /\ \/ Fault /\ Rest("protection")
       \/ /\ IF Visible
             THEN \E o \in Profits :
                      loop' = [loop EXCEPT !["protection"].at = "observed",
                                           !["protection"].obs = o]
             ELSE Rest("protection")
          /\ UNCHANGED faults
    /\ UNCHANGED <<terminal, active, open, stored, memory, seenOpen, ghosts>>

(* _refresh_protection_snapshot: the snapshot's account against the active  *)
(* identity and the terminal...                                            *)
ProtectVerify ==
    /\ loop["protection"].at = "refreshing"
    /\ \/ Fault /\ Rest("protection")
       \/ /\ IF loop["protection"].acct = active /\ active = terminal
             THEN Go("protection", "rereading")
             ELSE Rest("protection")
          /\ UNCHANGED faults
    /\ UNCHANGED <<terminal, active, open, stored, memory, seenOpen, ghosts>>

(* ...then the ticket is read again; a ticket that is not there is          *)
(* forgotten.                                                              *)
ProtectReread ==
    /\ loop["protection"].at = "rereading"
    /\ \/ Fault /\ Rest("protection") /\ UNCHANGED <<memory, exposed>>
       \/ /\ Visible
          /\ \E o \in Profits : loop' = [loop EXCEPT !["protection"].at = "rebinding",
                                                     !["protection"].obs = o]
          /\ UNCHANGED <<memory, exposed, faults>>
       \/ /\ ~Visible
          /\ ForgetBy("protection")
          /\ Rest("protection")
          /\ UNCHANGED faults
    /\ UNCHANGED <<terminal, active, open, stored, seenOpen, confirmed>>

(* The second update takes the active identity of that moment.             *)
ProtectRebind ==
    /\ loop["protection"].at = "rebinding"
    /\ loop' = [loop EXCEPT !["protection"].at = "observed",
                            !["protection"].acct = active,
                            !["protection"].refreshed = TRUE]
    /\ UNCHANGED <<terminal, active, open, stored, memory, seenOpen, faults, ghosts>>

(* The profit rules: a close that succeeds forgets the ticket.             *)
ProtectAct ==
    /\ loop["protection"].at = "acting"
    /\ \/ UNCHANGED <<open, memory, exposed>>
       \/ Visible /\ active = Home /\ open' = FALSE /\ ForgetBy("protection")
    /\ Rest("protection")
    /\ UNCHANGED <<terminal, active, stored, seenOpen, faults, confirmed>>

-----------------------------------------------------------------------------
(* The world.                                                              *)

(* The broker closes the position.                                         *)
Close ==
    /\ open
    /\ open' = FALSE
    /\ UNCHANGED <<terminal, active, stored, memory, seenOpen, loop, faults, ghosts>>

SwitchAccount(a) ==
    /\ a # terminal
    /\ Fault
    /\ terminal' = a
    /\ UNCHANGED <<active, open, stored, memory, seenOpen, loop, ghosts>>

(* The process dies and start() of the next one adopts the account.        *)
Restart ==
    /\ Fault
    /\ Forget
    /\ seenOpen' = FALSE
    /\ loop' = [l \in Loops |-> IdleLoop]
    /\ active' = terminal
    /\ UNCHANGED <<terminal, open, stored, ghosts>>

-----------------------------------------------------------------------------
UpdateStep(l) == Update(l) \/ Fetch(l) \/ Merge(l) \/ Write(l) \/ Written(l)

MainStep ==
    /\ "main" \in Loops
    /\ \/ MainAccount \/ MainAdopt \/ MainList \/ MainKnown \/ MainClosure
       \/ UpdateStep("main")

ProtectionStep ==
    /\ "protection" \in Loops
    /\ \/ ProtectBegin \/ ProtectList \/ ProtectVerify \/ ProtectReread
       \/ ProtectRebind \/ ProtectAct \/ UpdateStep("protection")

World == Close \/ Restart \/ \E a \in Accounts : SwitchAccount(a)

Next == MainStep \/ ProtectionStep \/ World

Spec == Init /\ [][Next]_vars

(* Both loops poll for ever; nothing else has to happen.                   *)
LiveSpec == Spec /\ WF_vars(MainStep) /\ WF_vars(ProtectionStep)

-----------------------------------------------------------------------------
TypeOK ==
    /\ terminal \in Accounts
    /\ active \in Accounts
    /\ open \in BOOLEAN
    /\ stored \in [Accounts -> MaybeProfit]
    /\ loaded \in BOOLEAN
    /\ peak \in Profits
    /\ persisted \in MaybeProfit
    /\ seenOpen \in BOOLEAN
    /\ loop \in [Loops -> LoopState]
    /\ faults \in 0..MaxFaults
    /\ confirmed \in MaybeProfit
    /\ exposed \in BOOLEAN

(* "A restart cannot erase the fact that a still-open trade previously      *)
(* crossed the trigger": once the peak of an open position has been stored, *)
(* every peak the rules use after it, in this process or in a later one,    *)
(* is at least as high, unless one of the named windows was hit.           *)
PeakOutlivesRestart == open /\ loaded /\ ~exposed => peak >= confirmed

(* While a ticket is loaded its peak never falls, whichever loop observes a *)
(* lower profit or comes back from the database with an older record       *)
(* (_restore_and_update_position_peak merges, it does not overwrite).      *)
PeakNeverFalls == [][loaded /\ loaded' => peak' >= peak]_vars

(* A peak in memory that is ahead of the database by the configured delta   *)
(* gets there, failed writes notwithstanding, while the position is open   *)
(* and in sight and no window was hit.                                     *)
PeakReachesDatabase ==
    loaded /\ peak - stored[Home] >= Delta
        ~> \/ ~loaded
           \/ peak - stored[Home] < Delta
           \/ exposed
           \/ ~Visible
=============================================================================
