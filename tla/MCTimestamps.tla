---------------------------- MODULE MCTimestamps ----------------------------
(***************************************************************************)
(* From 1970 through one whole era of 400 years, after which everything    *)
(* repeats.                                                                *)
(***************************************************************************)
EXTENDS Timestamps
=============================================================================
