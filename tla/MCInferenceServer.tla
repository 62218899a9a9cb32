------------------------- MODULE MCInferenceServer -------------------------
(* InferenceServer for TLC: the requests are interchangeable model values. *)
EXTENDS InferenceServer, TLC

RequestSymmetry == Permutations(Requests)

=============================================================================
