-------------------------- MODULE MCPositionPeaks --------------------------
(* Small instances of the position peaks for TLC.                          *)
EXTENDS PositionPeaks
=============================================================================
