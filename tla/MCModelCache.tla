---------------------------- MODULE MCModelCache ----------------------------
(***************************************************************************)
(* Two names, so that a directory can bear the name of another manifest;   *)
(* one of them in the built-in registry.                                   *)
(***************************************************************************)
EXTENDS ModelCache

CONSTANTS phi, qwen

MCModels == {phi, qwen}
MCKnown == {phi}
MCDriveRoots == {"local"}
=============================================================================
