-------------------------- MODULE MutationPromise --------------------------
(***************************************************************************)
(* What the executor promises its callers, without dedup keys, workers,    *)
(* gates, retries or sessions: a request is taken or refused; a request    *)
(* that was taken changes the broker at most once, whether or not its      *)
(* caller is still there; and a change is reported as successful only      *)
(* after it was made.                                                      *)
(***************************************************************************)
CONSTANT Calls

VARIABLES
    stage,  \* stage[c]: "idle", "taken", "orphaned" (the caller has gone) or "over"
    made,   \* the calls for which the broker has been changed
    told    \* the calls whose caller was told that its change succeeded

vars == <<stage, made, told>>

Init ==
    /\ stage = [c \in Calls |-> "idle"]
    /\ made = {}
    /\ told = {}

Take(c) ==
    /\ stage[c] = "idle"
    /\ stage' = [stage EXCEPT ![c] = "taken"]
    /\ UNCHANGED <<made, told>>

Refuse(c) ==
    /\ stage[c] = "idle"
    /\ stage' = [stage EXCEPT ![c] = "over"]
    /\ UNCHANGED <<made, told>>

Make(c) ==
    /\ stage[c] \in {"taken", "orphaned"}
    /\ c \notin made
    /\ made' = made \cup {c}
    /\ UNCHANGED <<stage, told>>

Report(c) ==
    /\ stage[c] = "taken"
    /\ stage' = [stage EXCEPT ![c] = "over"]
    /\ \/ UNCHANGED told
       \/ c \in made /\ told' = told \cup {c}
    /\ UNCHANGED made

Orphan(S) ==
    /\ \A c \in S : stage[c] = "taken"
    /\ stage' = [c \in Calls |-> IF c \in S THEN "orphaned" ELSE stage[c]]
    /\ UNCHANGED <<made, told>>

Next ==
    \/ \E c \in Calls : Take(c) \/ Refuse(c) \/ Make(c) \/ Report(c)
    \/ \E S \in SUBSET Calls : Orphan(S)

Spec == Init /\ [][Next]_vars
=============================================================================
