----------------------------- MODULE ModelCache -----------------------------
(***************************************************************************)
(* The cache of model directories and everything that names one: `npurun   *)
(* pull`, `rm`, `list`, `show`, `run` and `serve` of the CLI (npurun-cli   *)
(* main.rs), the registry's cache directory (npurun-registry lib.rs), and  *)
(* the server's /api/tags, /v1/models, /api/show and /api/delete.          *)
(*                                                                         *)
(* A model goes by the name of its directory on disk and by the name in    *)
(* its npurun.json in memory; a client may add a tag to either, and the    *)
(* CLI takes a path.  Reading (resolve_model_dir) looks through the roots  *)
(* in the environment in order; writing and deleting (default_cache_dir)   *)
(* use one of them.                                                        *)
(*                                                                         *)
(* The processes share one environment.  One server.  What a pull does     *)
(* inside its directory is module Pull; here it ends well or not.          *)
(***************************************************************************)
EXTENDS Naturals

CONSTANTS
  Models,      \* names of directories and names in manifests
  Known,       \* the names `npurun pull` accepts
  DriveRoots   \* the roots whose absolute path starts with a drive letter

\* NPURUN_MODELS_DIR, LOCALAPPDATA\npurun\models, and ./models
Roots == {"env", "local", "cwd"}

ASSUME CacheAssumption ==
  /\ Known \subseteq Models
  /\ DriveRoots \subseteq Roots
  /\ {"none", "bad"} \cap Models = {}

VARIABLES
  set,     \* which of NPURUN_MODELS_DIR and LOCALAPPDATA are set
  dirs,    \* dirs[root][name]: a model directory
  pc,      \* the server process: down, resolved, read (its manifest), up
  at,      \* the directory it was given
  name     \* state.model_name; "none" for None

vars == <<set, dirs, pc, at, name>>

Dir == [there : BOOLEAN, manifest : Models \cup {"none", "bad"}, whole : BOOLEAN]
Absent == [there |-> FALSE, manifest |-> "none", whole |-> FALSE]
Present(m, w) == [there |-> TRUE, manifest |-> m, whole |-> w]
DirAt(d) == dirs[d[1]][d[2]]
NotFound == <<>>

TypeOK ==
  /\ set \subseteq {"env", "local"}
  /\ dirs \in [Roots -> [Models -> Dir]]
  /\ pc \in {"down", "resolved", "read", "up"}
  /\ at \in (Roots \X Models) \cup {NotFound}
  /\ name \in Models \cup {"none"}
  /\ \A r \in Roots, n \in Models : ~dirs[r][n].there => dirs[r][n] = Absent
  /\ pc = "down" => at = NotFound
  /\ pc \in {"resolved", "read"} => at # NotFound
  /\ pc \in {"read", "up"} => (at = NotFound <=> name = "none")
  /\ pc \in {"down", "resolved"} => name = "none"

-----------------------------------------------------------------------------
\* What a user types: a name, a name with a tag, the absolute path of a
\* directory.  A drive letter is what the tag stripper leaves of a path that
\* starts with one.
Bare(n)    == [kind |-> "bare", name |-> n]
Tagged(n)  == [kind |-> "tagged", name |-> n]
Path(d)    == [kind |-> "path", dir |-> d]
Drive      == [kind |-> "drive"]
Names      == {Bare(n) : n \in Models} \cup {Tagged(n) : n \in Models}
Paths      == {Path(d) : d \in Roots \X Models}

StripModelTag(ref) ==
  CASE ref.kind = "tagged" -> Bare(ref.name)
    [] ref.kind = "path" /\ ref.dir[1] \in DriveRoots -> Drive
    [] OTHER -> ref

\* Mutant: The two lookups of the cache directory disagree on the order.
CacheDir_LocalFirst ==
  IF "local" \in set THEN "local" ELSE IF "env" \in set THEN "env" ELSE "cwd"

CacheDir ==
  IF "env" \in set THEN "env" ELSE IF "local" \in set THEN "local" ELSE "cwd"

Resolve(ref) ==
  LET bare == StripModelTag(ref)
      Has(root) == bare.kind = "bare" /\ root \in set /\ dirs[root][bare.name].there
  IN CASE bare.kind = "path" /\ DirAt(bare.dir).there -> bare.dir
       [] Has("env")   -> <<"env", bare.name>>
       [] ~Has("env") /\ Has("local") -> <<"local", bare.name>>
       [] OTHER -> NotFound

\* What `npurun list` prints: the directories under the roots with a manifest
\* that can be read (under the names in them).
Listed ==
  {d \in set \X Models : DirAt(d).there /\ DirAt(d).manifest \in Models}

\* list_local: the directories of the cache that hold an npurun.json.
ListLocal ==
  {n \in Models : dirs[CacheDir][n].there /\ dirs[CacheDir][n].manifest # "none"}

\* `npurun show`: the manifest of the directory that `run` would use.
ShowModel(ref) ==
  IF Resolve(ref) # NotFound /\ DirAt(Resolve(ref)).manifest \in Models
  THEN DirAt(Resolve(ref)).manifest ELSE "error"

-----------------------------------------------------------------------------
\* The server's answers about models.
Loaded(n) == name = n

ApiTags  == IF name = "none" THEN {} ELSE {Tagged(name)}
V1Models == IF name = "none" THEN {} ELSE {Bare(name), Tagged(name)}
Advertised == ApiTags \cup V1Models

\* The name in the manifest shown, or 404.
ApiShow(ref) ==
  LET bare == StripModelTag(ref).name IN
  IF Loaded(bare) THEN name
  ELSE IF dirs[CacheDir][bare].manifest \in Models THEN dirs[CacheDir][bare].manifest
  ELSE "404"

RemoveStatus(n) ==
  IF ~dirs[CacheDir][n].there THEN "not_found"
  ELSE IF dirs[CacheDir][n].manifest = "none" THEN "invalid" ELSE "removed"

ApiDeleteStatus(ref) ==
  LET bare == StripModelTag(ref).name IN
  IF Loaded(bare) THEN "409"
  ELSE CASE RemoveStatus(bare) = "not_found" -> "404"
         [] RemoveStatus(bare) = "invalid" -> "500"
         [] OTHER -> "200"

-----------------------------------------------------------------------------
Init ==
  /\ set \in SUBSET {"env", "local"}
  /\ dirs = [r \in Roots |-> [n \in Models |-> Absent]]
  /\ pc = "down"
  /\ at = NotFound
  /\ name = "none"

Put(r, n, d) ==
  /\ dirs' = [dirs EXCEPT ![r] = [@ EXCEPT ![n] = d]]
  /\ UNCHANGED <<set, pc, at, name>>

\* A bundle brought in by hand or by npu-convert, under any directory name;
\* its manifest may be missing or invalid, its files incomplete.
Convert(r, n, m, w) ==
  /\ r \in set \cup {CacheDir}
  /\ Put(r, n, Present(m, w))

\* A pull goes to the cache directory, under its own name.
PullFinish(n) == Put(CacheDir, n, Present(n, TRUE))

\* A pull that was cut off: the manifest of before, or a torn one; the
\* files of the bundle may be complete already.
PullFails(n) ==
  \E m \in {dirs[CacheDir][n].manifest, "bad"}, w \in BOOLEAN :
    Put(CacheDir, n, Present(m, w))

Remove(n) ==
  /\ RemoveStatus(n) = "removed"
  /\ Put(CacheDir, n, Absent)

\* remove_dir_all fails midway: an open file, a killed process.
RemoveCut(n) ==
  /\ RemoveStatus(n) = "removed"
  /\ \E m \in {dirs[CacheDir][n].manifest, "none"} :
       Put(CacheDir, n, Present(m, FALSE))

RemoveLocal(n) == Remove(n) \/ RemoveCut(n)

\* `npurun rm` takes a directory name as it is, tag and all.
Rm(ref) ==
  /\ ref.kind = "bare"
  /\ RemoveLocal(ref.name)

ApiDelete(ref) ==
  /\ pc = "up"
  /\ ApiDeleteStatus(ref) = "200"
  /\ RemoveLocal(StripModelTag(ref).name)

-----------------------------------------------------------------------------
\* `npurun serve --model <ref>`, up to Engine::load's view of the directory.
Serve(ref) ==
  /\ pc = "down"
  /\ Resolve(ref) # NotFound
  /\ at' = Resolve(ref)
  /\ pc' = "resolved"
  /\ UNCHANGED <<set, dirs, name>>

ServeEmpty ==
  /\ pc = "down"
  /\ pc' = "up"
  /\ UNCHANGED <<set, dirs, at, name>>

\* Mutant: The server takes its name from a manifest that was not validated.
ReadManifest_Unchecked ==
  /\ pc = "resolved"
  /\ pc' = "read"
  /\ name' = DirAt(at).manifest
  /\ UNCHANGED <<set, dirs, at>>

ReadManifest ==
  /\ pc = "resolved"
  /\ DirAt(at).manifest \in Models
  /\ pc' = "read"
  /\ name' = DirAt(at).manifest
  /\ UNCHANGED <<set, dirs, at>>

CreateDialog ==
  /\ pc = "read"
  /\ DirAt(at).whole
  /\ pc' = "up"
  /\ UNCHANGED <<set, dirs, at, name>>

LoadFails ==
  /\ \/ pc = "resolved" /\ DirAt(at).manifest \notin Models
     \/ pc = "read" /\ ~DirAt(at).whole
  /\ pc' = "down"
  /\ at' = NotFound
  /\ name' = "none"
  /\ UNCHANGED <<set, dirs>>

Stop ==
  /\ pc = "up"
  /\ pc' = "down"
  /\ at' = NotFound
  /\ name' = "none"
  /\ UNCHANGED <<set, dirs>>

Cache ==
  \/ \E r \in Roots, n \in Models, m \in Models \cup {"none", "bad"}, w \in BOOLEAN :
       Convert(r, n, m, w)
  \/ \E n \in Known : PullFinish(n) \/ PullFails(n)
  \/ \E ref \in Names : ApiDelete(ref) \/ Rm(ref)

Server ==
  \/ \E ref \in Names \cup Paths : Serve(ref)
  \/ ServeEmpty \/ ReadManifest \/ CreateDialog \/ LoadFails \/ Stop

Next == Cache \/ Server
Spec == Init /\ [][Next]_vars

-----------------------------------------------------------------------------
\* What `rm` or /api/delete removes is the copy that `run` would have used,
\* and none else: afterwards `run` finds what lies in the other root, and
\* that has not changed.  Nor does the server then still show the model,
\* tagged or not, unless it is the one it has loaded; the names that it
\* advertises go on meaning that one.  (With no root in the environment,
\* `run` finds no model at all.)
RemovesWhatRunUses ==
  [][\A n \in Models : Remove(n) /\ set # {} =>
       /\ Resolve(Bare(n)) = <<CacheDir, n>>
       /\ Resolve(Tagged(n))' \in {NotFound, <<"local", n>>} \ {<<CacheDir, n>>}
       /\ \A d \in Roots \X Models : d # <<CacheDir, n>> => DirAt(d)' = DirAt(d)
       /\ \A ref \in {Bare(n), Tagged(n)} \cup Advertised :
            ApiShow(ref)' = IF ref \in Advertised THEN name ELSE "404"]_vars

\* A model that was pulled is the one that `run`, `show` and `serve` find
\* under its name, tagged or not, whatever other roots hold, and every
\* listing has it.
PulledIsFound ==
  [][\A n \in Known : PullFinish(n) /\ set # {} =>
       /\ \A ref \in {Bare(n), Tagged(n)} :
            Resolve(ref)' = <<CacheDir, n>> /\ ShowModel(ref)' = n
       /\ <<CacheDir, n>> \in Listed' /\ n \in ListLocal']_vars

\* "If the identifier is an absolute path that's an existing directory, use it
\* as-is" (resolve_model_dir): the tag stripper cuts the path at the colon of
\* its drive letter.
AbsolutePathUsed ==
  \A d \in Roots \X Models : DirAt(d).there => Resolve(Path(d)) = d

\* "Refuse to remove the model that's currently loaded in this server - the
\* live Engine holds open file handles" (api_delete, ollama.rs:199-202).  The
\* guard compares the name asked for with the one in the loaded manifest, the
\* removal goes by directories: a model whose directory has another name is
\* removed by that name from under the server, directory and all.
DeleteSparesLoaded ==
  [][\A ref \in Names : ApiDelete(ref) /\ at # NotFound => DirAt(at)'.there]_vars

=============================================================================
