--------------------------- MODULE MCDecisionLane ---------------------------
(* Small instances of the decision lane for TLC.                           *)
EXTENDS DecisionLane

CONSTANTS live, demo, eurusd, xauusd
=============================================================================
