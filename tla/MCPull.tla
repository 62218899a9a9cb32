------------------------------- MODULE MCPull -------------------------------
(* Pull for TLC. *)
EXTENDS Pull

\* Every release wraps its files in the same directory.
SameRoot == [r \in Releases |-> CHOOSE d \in Roots : TRUE]

=============================================================================
