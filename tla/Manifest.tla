------------------------------ MODULE Manifest ------------------------------
(***************************************************************************)
(* npurun.json as Manifest::read accepts it (npurun-core manifest.rs).     *)
(* A path is the sequence of its components (std::path::Component); an     *)
(* empty string is the empty sequence.  The checks of single fields are    *)
(* the labels of what is wrong with them.                                  *)
(***************************************************************************)
EXTENDS Integers, Sequences

Components == {"normal", "cur", "parent", "root", "prefix"}
None == <<"none">>   \* an absent path

\* What the file holds: nothing that parses, or a manifest.
Garbled == [file |-> "garbled"]
AManifest(flaws, model, genie) ==
  [file |-> "manifest", flaws |-> flaws, model |-> model, genie_config |-> genie]

\* name, version, vocab, context, qnn_sdk, sha256, chat_template
FieldFlaws == {"name", "version", "vocab", "context", "qnn_sdk", "sha256", "chat_template"}

IsAbsolute(p) == Len(p) >= 2 /\ p[1] = "prefix" /\ p[2] = "root"

\* Mutant: only absolute paths are refused.
CheckSafeRelpath_Absolute(p) == p # <<>> /\ ~IsAbsolute(p)

CheckSafeRelpath(p) ==
  /\ p # <<>>
  /\ ~IsAbsolute(p)
  /\ \A i \in DOMAIN p : p[i] \notin {"parent", "root", "prefix"}

Validate(m) ==
  /\ m.flaws = {}
  /\ \A p \in {m.model, m.genie_config} \ {None} : CheckSafeRelpath(p)
  /\ {m.model, m.genie_config} # {None}

\* Manifest::read succeeds.
Readable(m) == m.file = "manifest" /\ Validate(m)

-----------------------------------------------------------------------------
\* Where a path leads, walked from the model directory: how deep below it, or
\* -1 once it has left it.
Below(p) ==
  LET depth[i \in 0 .. Len(p)] ==
        IF i = 0 THEN 0
        ELSE IF depth[i-1] < 0 \/ p[i] \in {"root", "prefix"} THEN -1
        ELSE CASE p[i] = "normal" -> depth[i-1] + 1
               [] p[i] = "parent" -> depth[i-1] - 1
               [] OTHER -> depth[i-1]
  IN depth[Len(p)]
=============================================================================
