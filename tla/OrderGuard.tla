----------------------------- MODULE OrderGuard -----------------------------
(***************************************************************************)
(* What the executor promises about the account of an order, without       *)
(* sessions, retries, gates or replies: the order is handed over with the  *)
(* identity its caller expects, or with none; it is sent only after that   *)
(* identity, if there is one, was compared with the terminal; and the      *)
(* terminal's user may come in between.                                    *)
(***************************************************************************)
CONSTANTS
    Orders,
    Accounts,
    NoAccount  \* the caller expects no account in particular

VARIABLES
    place,     \* place[o]: "outside" the executor, "submitted", "cleared" or "sent"
    expected,  \* expected[o]: the identity the order was handed over with
    raced,     \* raced[o]: the account was changed after a comparison
    terminal   \* account selected in the terminal

vars == <<place, expected, raced, terminal>>

Init ==
    /\ place = [o \in Orders |-> "outside"]
    /\ expected = [o \in Orders |-> NoAccount]
    /\ raced = [o \in Orders |-> FALSE]
    /\ terminal \in Accounts

Submit(o, a) ==
    /\ place[o] = "outside"
    /\ place' = [place EXCEPT ![o] = "submitted"]
    /\ expected' = [expected EXCEPT ![o] = a]
    /\ UNCHANGED <<raced, terminal>>

Matches(o) == expected[o] = NoAccount \/ expected[o] = terminal

Clear(o) ==
    /\ place[o] = "submitted"
    /\ Matches(o)
    /\ place' = [place EXCEPT ![o] = "cleared"]
    /\ UNCHANGED <<expected, raced, terminal>>

Send(o) ==
    /\ place[o] = "cleared"
    /\ place' = [place EXCEPT ![o] = "sent"]
    /\ UNCHANGED <<expected, raced, terminal>>

(* Refused, done, or its process is gone.  A later attempt is a new one,    *)
(* though it may still be remembered that a switch raced with the order.   *)
Leave(o) ==
    /\ place[o] # "outside"
    /\ place' = [place EXCEPT ![o] = "outside"]
    /\ expected' = [expected EXCEPT ![o] = NoAccount]
    /\ raced' \in {raced, [raced EXCEPT ![o] = FALSE]}
    /\ UNCHANGED terminal

(* Every order that was compared and is not sent yet is raced.             *)
Switch(a) ==
    /\ terminal' = a
    /\ \E R \in SUBSET {o \in Orders : place[o] \in {"cleared", "sent"}} :
          /\ {o \in Orders : place[o] = "cleared"} \subseteq R
          /\ raced' = [o \in Orders |-> raced[o] \/ o \in R]
    /\ UNCHANGED <<place, expected>>

Next ==
    \/ \E o \in Orders :
          \/ \E a \in Accounts \cup {NoAccount} : Submit(o, a)
          \/ Clear(o) \/ Send(o) \/ Leave(o)
    \/ \E a \in Accounts : Switch(a)

Spec == Init /\ [][Next]_vars

-----------------------------------------------------------------------------
(* An order that names the account it expects is sent to that account,     *)
(* unless the account was changed after the comparison.                    *)
SentAsExpected ==
    [][\A o \in Orders :
          Send(o) /\ expected[o] # NoAccount /\ ~raced[o] => terminal = expected[o]]_vars
=============================================================================
