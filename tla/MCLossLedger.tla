---------------------------- MODULE MCLossLedger ----------------------------
(* Small instances of the loss ledger for TLC.                             *)
EXTENDS LossLedger, FiniteSetsExt

CONSTANTS live, demo, t1, t2, t3

MCOwner == [t \in Tickets |-> IF t = t3 THEN demo ELSE live]
MCLoss == [t \in Tickets |-> IF t = t1 THEN 1 ELSE 2]
MCBalance == [a \in Accounts |-> IF a = live THEN 2 ELSE 1]
MCPeak == [a \in Accounts |-> IF a = live THEN 3 ELSE 0]
MCTotal(S) == MapThenSumSet(LAMBDA t : LossOf[t], S)
=============================================================================
