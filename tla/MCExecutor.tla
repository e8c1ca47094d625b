----------------------------- MODULE MCExecutor -----------------------------
(* Small instances of the executor for TLC.                                *)
EXTENDS Executor

CONSTANTS c1, c2, c3, buyGold, ticket7, ticket7Stops

(* Two opens of one symbol and direction and a full close, all made by the *)
(* engine's own tasks.                                                     *)
OpenKeys == [c \in Calls |-> IF c = c3 THEN ticket7 ELSE buyGold]
OpenKinds == [c \in Calls |-> IF c = c3 THEN "close" ELSE "open"]

(* A full close, a partial close of the same ticket and a stop change.     *)
CloseKeys == [c \in Calls |-> IF c = c3 THEN ticket7Stops ELSE ticket7]
CloseKinds == [c \in Calls |->
    IF c = c1 THEN "close" ELSE IF c = c2 THEN "trim" ELSE "modify"]
=============================================================================
