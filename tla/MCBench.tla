------------------------------ MODULE MCBench -------------------------------
(***************************************************************************)
(* A model directory that is absent, whole, or wrong in one way each, and  *)
(* a bundle of other tiers to replace it.                                  *)
(***************************************************************************)
EXTENDS Bench

Plain == <<"normal", "normal">>
Good(genie) == AManifest({}, None, genie)
Whole == Config({1, 2}, 2)

\* Paths that stay below the model directory and paths that leave it.
Paths ==
  {<<"cur", "normal">>, <<"normal", "parent", "parent">>, <<"root", "normal">>}

MCTiers == {1, 2}
MCDisks ==
  {Gone}
  \cup {Directory(Good(Plain), c) :
          c \in {Whole, Config({2}, 2), Config({1}, NoTier), NoConfig, NotJson}}
  \cup {Directory(m, Whole) :
          m \in {Garbled, AManifest({"qnn_sdk"}, None, Plain), AManifest({}, Plain, None)}}
  \cup {Directory(Good(p), Whole) : p \in Paths}
=============================================================================
