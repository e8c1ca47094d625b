------------------------- MODULE MCProfitRetention -------------------------
(* Small instances of the profit retention for TLC.                        *)
EXTENDS ProfitRetention
=============================================================================
