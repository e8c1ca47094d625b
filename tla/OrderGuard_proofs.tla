-------------------------- MODULE OrderGuard_proofs --------------------------
(***************************************************************************)
(* What follows from the guard alone, and so for whatever implements it.   *)
(***************************************************************************)
EXTENDS OrderGuard, TLAPS

Places == {"outside", "submitted", "cleared", "sent"}

GuardTyped ==
    /\ place \in [Orders -> Places]
    /\ expected \in [Orders -> Accounts \cup {NoAccount}]
    /\ raced \in [Orders -> BOOLEAN]
    /\ terminal \in Accounts

(* Between the comparison and the order the terminal shows what was         *)
(* compared, or the order is known to be raced.                            *)
ClearedOf(o) ==
    place[o] = "cleared" /\ expected[o] # NoAccount /\ ~raced[o] => terminal = expected[o]

GuardInv == GuardTyped /\ \A o \in Orders : ClearedOf(o)

LEMMA GuardInit == Init => GuardInv
BY DEF Init, GuardInv, GuardTyped, ClearedOf, Places

LEMMA GuardTypedStep == GuardTyped /\ [Next]_vars => GuardTyped'
<1> SUFFICES ASSUME GuardTyped, [Next]_vars PROVE GuardTyped'
    OBVIOUS
<1> USE DEF GuardTyped, Places
<1>1. ASSUME NEW o \in Orders, NEW a \in Accounts \cup {NoAccount}, Submit(o, a)
      PROVE  GuardTyped'
  BY <1>1 DEF Submit
<1>2. ASSUME NEW o \in Orders, Clear(o) \/ Send(o) PROVE GuardTyped'
  BY <1>2 DEF Clear, Send
<1>3. ASSUME NEW o \in Orders, Leave(o) PROVE GuardTyped'
  BY <1>3 DEF Leave
<1>4. ASSUME NEW a \in Accounts, Switch(a) PROVE GuardTyped'
  BY <1>4 DEF Switch
<1>5. QED
  BY <1>1, <1>2, <1>3, <1>4 DEF Next, vars

LEMMA GuardStep == GuardInv /\ [Next]_vars => GuardInv'
<1> SUFFICES ASSUME GuardInv, [Next]_vars, NEW u \in Orders PROVE ClearedOf(u)'
    BY GuardTypedStep DEF GuardInv
<1> USE DEF GuardInv, GuardTyped, ClearedOf
<1>1. ASSUME NEW o \in Orders, NEW a \in Accounts \cup {NoAccount}, Submit(o, a)
      PROVE  ClearedOf(u)'
  BY <1>1 DEF Submit
<1>2. ASSUME NEW o \in Orders, Clear(o) PROVE ClearedOf(u)'
  BY <1>2 DEF Clear, Matches
<1>3. ASSUME NEW o \in Orders, Send(o) PROVE ClearedOf(u)'
  BY <1>3 DEF Send
<1>4. ASSUME NEW o \in Orders, Leave(o) PROVE ClearedOf(u)'
  <2>1. CASE u = o
    BY <1>4, <2>1 DEF Leave
  <2>2. CASE u # o
    BY <1>4, <2>2 DEF Leave
  <2>3. QED
    BY <2>1, <2>2
<1>5. ASSUME NEW a \in Accounts, Switch(a) PROVE ClearedOf(u)'
  <2>1. place[u] = "cleared" => raced'[u]
    BY <1>5 DEF Switch
  <2>2. QED
    BY <1>5, <2>1 DEF Switch
<1>6. CASE UNCHANGED vars
  BY <1>6 DEF vars
<1>7. QED
  BY <1>1, <1>2, <1>3, <1>4, <1>5, <1>6 DEF Next

(* An order that names the account it expects is sent to that account,     *)
(* unless the account was changed after the comparison.                    *)
THEOREM GuardedOrdersLandAsExpected == Spec => SentAsExpected
<1>1. GuardInv =>
        \A o \in Orders : Send(o) /\ expected[o] # NoAccount /\ ~raced[o] => terminal = expected[o]
  BY DEF GuardInv, ClearedOf, Send
<1>2. QED
  BY GuardInit, GuardStep, <1>1, PTL DEF Spec, SentAsExpected
=============================================================================
