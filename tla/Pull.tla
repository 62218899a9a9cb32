-------------------------------- MODULE Pull --------------------------------
(***************************************************************************)
(* `npurun pull` (crates/npurun-registry/src/pull.rs): one model directory *)
(* of the cache, filled by pulls that may fail or be killed between any    *)
(* two steps, and emptied by `npurun rm` (registry lib.rs, remove_local).  *)
(*                                                                         *)
(* An archive is a sequence of pieces: one per entry, and the zip's        *)
(* central directory last.  Entry 1 stands for genie_config.json, and with *)
(* NConfigs = 2 the next one for text-generator.json.  The asset behind    *)
(* the URL may be replaced, and the entries of a release lie under a       *)
(* directory of the release's choosing.  A sha256 is the sequence of       *)
(* pieces that was hashed.                                                 *)
(*                                                                         *)
(* One pull at a time: nothing in the code keeps two apart, and nothing    *)
(* below is claimed of two.                                                *)
(***************************************************************************)
EXTENDS Naturals, Sequences, SequencesExt

CONSTANTS
  Releases,   \* what is, or will be, published at the model's URL
  Roots,      \* the directories that archives wrap their entries in
  Root,       \* the one of each release
  NEntries,   \* files in an archive
  NConfigs,   \* how many of them are configurations that are patched
  Known,      \* the release that the built-in registry was written for
  MaxFaults   \* bounds what goes wrong: faults, replaced assets

ASSUME PullAssumption ==
  /\ Root \in [Releases -> Roots]
  /\ NEntries \in Nat \ {0}
  /\ NConfigs \in 1 .. NEntries
  /\ Known \in Releases
  /\ MaxFaults \in Nat
  /\ {"absent", "torn"} \cap Releases = {}

Entries == 1 .. NEntries
Size == NEntries + 1
Piece(r, n) == [release |-> r, n |-> n]
Pieces == [release : Releases, n : 1 .. Size]
Archive(r) == [n \in 1 .. Size |-> Piece(r, n)]

VARIABLES
  served,    \* the release behind the URL
  zip,       \* <model>/.pull.zip; empty stands for absent too
  bundle,    \* <model>/bundle/<root>/<entry>: its release, absent or torn
  manifest,  \* <model>/npurun.json
  pc,        \* where the pull is; "idle" when none runs
  have,      \* existing_size
  body,      \* the release whose bytes are in hand: of the response, or patched
  next,      \* the next piece of the response body
  hash,      \* what was fed to the hasher
  entry,     \* the entry being extracted, the configuration being patched
  root,      \* bundle_root
  faults

disk == <<zip, bundle, manifest>>
locals == <<have, body, next, hash, entry, root>>
vars == <<served, disk, pc, locals, faults>>

Steps == {"idle", "requested", "streaming", "creating", "reading", "locating",
          "patching", "patch_torn", "committing", "writing"}

Absent == [state |-> "absent"]
Torn   == [state |-> "torn"]
Written(d, s) == [state |-> "whole", root |-> d, sha |-> s]

TypeOK ==
  /\ served \in Releases
  /\ zip \in Seq(Pieces)
  /\ bundle \in [Roots -> [Entries -> Releases \cup {"absent", "torn"}]]
  /\ \/ manifest \in {Absent, Torn}
     \/ /\ manifest = Written(manifest.root, manifest.sha)
        /\ manifest.root \in Roots
        /\ manifest.sha \in Seq(Pieces)
  /\ pc \in Steps
  /\ have \in Nat
  /\ body \in Releases
  /\ next \in 1 .. Size + 1
  /\ hash \in Seq(Pieces)
  /\ entry \in Entries
  /\ root \in Roots
  /\ faults \in 0 .. MaxFaults

NoBundle == [d \in Roots |-> [e \in Entries |-> "absent"]]

Init ==
  /\ served = Known
  /\ zip = <<>>
  /\ bundle = NoBundle
  /\ manifest = Absent
  /\ pc = "idle"
  /\ have = 0 /\ body = Known /\ next = 1 /\ hash = <<>>
  /\ entry = 1 /\ root = Root[Known]
  /\ faults = 0

Fault == faults < MaxFaults /\ faults' = faults + 1

\* The pull returns, with success or an error, or its process is killed.
Ends ==
  /\ pc' = "idle"
  /\ have' = 0 /\ body' = Known /\ next' = 1 /\ hash' = <<>>
  /\ entry' = 1 /\ root' = Root[Known]

-----------------------------------------------------------------------------
(* download *)

\* pull_model up to the request: the size of .pull.zip is read here.
StartPull ==
  /\ pc = "idle"
  /\ pc' = "requested"
  /\ have' = Len(zip)
  /\ UNCHANGED <<served, disk, body, next, hash, entry, root, faults>>

PreFed_Nothing == <<>>  \* a mutant: the resumed part is not hashed
PreFed == zip

Created_Kept == zip  \* a mutant: the old file is kept
Created == <<>>

\* 206: hash what is there, then append.
ResumePartial ==
  /\ pc = "requested"
  /\ have > 0 /\ have < Size
  /\ pc' = "streaming"
  /\ hash' = PreFed
  /\ body' = served
  /\ next' = have + 1
  /\ UNCHANGED <<served, disk, have, entry, root, faults>>

\* 200, asked for a range or not: start over.
StartOver ==
  /\ pc = "requested"
  /\ pc' = "streaming"
  /\ zip' = Created
  /\ hash' = <<>>
  /\ body' = served
  /\ next' = 1
  /\ UNCHANGED <<served, bundle, manifest, have, entry, root, faults>>

\* 416: the file is created anew, then error_for_status ends the pull.
RangeRefused ==
  /\ pc = "requested"
  /\ have >= Size
  /\ zip' = Created
  /\ Ends
  /\ UNCHANGED <<served, bundle, manifest, faults>>

\* Any other error status: the same, to whatever part was there.
StatusError ==
  /\ pc = "requested"
  /\ Fault
  /\ zip' = Created
  /\ Ends
  /\ UNCHANGED <<served, bundle, manifest>>

MorePieces_OffByOne == next <= Size + 1  \* a mutant
MorePieces == next <= Size

ReceivePiece ==
  /\ pc = "streaming"
  /\ MorePieces
  /\ zip' = Append(zip, Piece(body, next))
  /\ hash' = Append(hash, Piece(body, next))
  /\ next' = next + 1
  /\ UNCHANGED <<served, bundle, manifest, pc, have, body, entry, root, faults>>

\* The stream is at its end and the file flushed; extract_zip opens it.
Downloaded ==
  /\ pc = "streaming"
  /\ ~MorePieces
  /\ pc' = "creating"
  /\ UNCHANGED <<served, disk, locals, faults>>

-----------------------------------------------------------------------------
(* extract_zip *)

\* The release whose central directory the archive has, and with it the names.
Directory == Last(zip).release

Put(d, e, content) == bundle' = [bundle EXCEPT ![d][e] = content]

\* File::create comes before the entry is read.
CreateFile ==
  /\ pc = "creating"
  /\ Put(Root[Directory], entry, "torn")
  /\ pc' = "reading"
  /\ UNCHANGED <<served, zip, manifest, locals, faults>>

EntryIntact_Unchecked == TRUE  \* a mutant: a failed read is passed over
EntryIntact == zip[entry] = Piece(Directory, entry)

\* The entry's CRC is right, and it is written out.
ExtractEntry ==
  /\ pc = "reading"
  /\ EntryIntact
  /\ Put(Root[Directory], entry, Directory)
  /\ IF entry < NEntries THEN pc' = "creating" /\ entry' = entry + 1
                         ELSE pc' = "locating" /\ UNCHANGED entry
  /\ UNCHANGED <<served, zip, manifest, have, body, next, hash, root, faults>>

\* It is not: the file on disk stays empty.
BadEntry ==
  /\ pc = "reading"
  /\ ~EntryIntact
  /\ Ends
  /\ UNCHANGED <<served, disk, faults>>

\* find_bundle_root takes the first directory that has a genie_config.json, in
\* the order of read_dir.  Then .pull.zip is removed; a failure is ignored.
LocateBundle ==
  /\ pc = "locating"
  /\ root' \in {d \in Roots : bundle[d][1] # "absent"}
  /\ \/ zip' = <<>> /\ UNCHANGED faults
     \/ UNCHANGED zip /\ Fault
  /\ pc' = "patching" /\ entry' = 1
  /\ UNCHANGED <<served, bundle, manifest, have, body, next, hash>>

-----------------------------------------------------------------------------
(* patch_genie_config_for_graph_switching, write_manifest *)

NextConfig ==
  IF entry < NConfigs THEN pc' = "patching" /\ entry' = entry + 1
                      ELSE pc' = "committing" /\ UNCHANGED entry

\* No such file, nothing that parses, or the flag is there.
SkipPatch ==
  /\ pc = "patching"
  /\ NextConfig
  /\ UNCHANGED <<served, disk, have, body, next, hash, root, faults>>

\* fs::write truncates the file before it writes it.
BeginPatch ==
  /\ pc = "patching"
  /\ bundle[root][entry] \in Releases
  /\ body' = bundle[root][entry]
  /\ Put(root, entry, "torn")
  /\ pc' = "patch_torn"
  /\ UNCHANGED <<served, zip, manifest, have, next, hash, entry, root, faults>>

EndPatch ==
  /\ pc = "patch_torn"
  /\ Put(root, entry, body)
  /\ NextConfig
  /\ UNCHANGED <<served, zip, manifest, have, body, next, hash, root, faults>>

\* An error of the patch ends it with a warning, and the pull goes on.
PatchFails ==
  /\ pc = "patch_torn"
  /\ Fault
  /\ pc' = "committing"
  /\ UNCHANGED <<served, disk, locals>>

\* write_manifest looks into genie_config.json first.
BeginManifest ==
  /\ pc = "committing"
  /\ IF bundle[root][1] = "torn"
     THEN Ends /\ UNCHANGED manifest
     ELSE pc' = "writing" /\ manifest' = Torn /\ UNCHANGED locals
  /\ UNCHANGED <<served, zip, bundle, faults>>

EndManifest ==
  /\ pc = "writing"
  /\ manifest' = Written(root, hash)
  /\ Ends
  /\ UNCHANGED <<served, zip, bundle, faults>>

-----------------------------------------------------------------------------
(* What goes wrong *)

\* A refused connection, a broken stream, a full disk, Ctrl+C or a power cut, at
\* any step; what BufWriter still holds of the last piece is lost.
Interrupted ==
  /\ pc # "idle"
  /\ Fault
  /\ \/ UNCHANGED zip
     \/ pc = "streaming" /\ Len(zip) > have /\ zip' = Front(zip)
  /\ Ends
  /\ UNCHANGED <<served, bundle, manifest>>

\* The asset behind the URL is replaced.
Republish ==
  /\ Fault
  /\ served' \in Releases \ {served}
  /\ UNCHANGED <<disk, pc, locals>>

\* remove_local: only of a directory with a npurun.json.
RemoveLocal ==
  /\ pc = "idle"
  /\ manifest # Absent
  /\ zip' = <<>> /\ bundle' = NoBundle /\ manifest' = Absent
  /\ UNCHANGED <<served, pc, locals, faults>>

\* remove_dir_all stops midway.
RemoveLocalInterrupted ==
  /\ pc = "idle"
  /\ manifest # Absent
  /\ Fault
  /\ zip' \in {zip, <<>>}
  /\ manifest' \in {manifest, Absent}
  /\ \E gone \in SUBSET (Roots \X Entries) :
       bundle' = [d \in Roots |-> [e \in Entries |->
                    IF <<d, e>> \in gone THEN "absent" ELSE bundle[d][e]]]
  /\ UNCHANGED <<served, pc, locals>>

-----------------------------------------------------------------------------
Download ==
  ResumePartial \/ StartOver \/ RangeRefused \/ ReceivePiece \/ Downloaded

Install ==
  \/ CreateFile \/ ExtractEntry \/ BadEntry \/ LocateBundle
  \/ SkipPatch \/ BeginPatch \/ EndPatch \/ BeginManifest \/ EndManifest

Environment ==
  \/ StatusError \/ PatchFails \/ Interrupted
  \/ Republish \/ RemoveLocal \/ RemoveLocalInterrupted

Next == StartPull \/ Download \/ Install \/ Environment

Spec == Init /\ [][Next]_vars

-----------------------------------------------------------------------------
(* Safety *)

\* However often a download was cut off, restarted and resumed, and whatever
\* was served meanwhile: every piece in .pull.zip is at its own place - nothing
\* is missing, and nothing is there twice.
PiecesInPlace ==
  \A n \in 1 .. Len(zip) : zip[n].n = n

\* download, "Returns the lowercase hex sha256 of the complete downloaded
\* file": what was hashed, before and after a resume, is what is on disk when
\* extraction begins.
ShaIsOfTheFile ==
  pc \in {"creating", "reading", "locating"} => hash = zip

\* The files that npurun.json does not need.
Companions == 2 .. NConfigs

WholeAt(d, r) ==
  \A e \in Entries :
    bundle[d][e] = r \/ (e \in Companions /\ bundle[d][e] = "torn")

\* npurun.json is the commit marker: list, serve and rm go by it.  It is only
\* ever completed over a bundle that has every file of one release, none of
\* them torn or left from an earlier pull of another release - but for a
\* text-generator.json that lost its content in a failed patch - and the sha256
\* in it is the one of that release's archive.  (When all releases wrap their
\* files in the same directory.)
CommitsWholeBundle ==
  [][manifest' # manifest /\ manifest'.state = "whole" =>
       \E r \in Releases :
         WholeAt(manifest'.root, r) /\ manifest'.sha = Archive(r)]_vars

-----------------------------------------------------------------------------
(* Why: the invariant behind the safety properties *)

\* The position in the response, the file and the hash go together.
DownloadInv ==
  /\ pc = "requested" => have = Len(zip)
  /\ pc = "streaming" => next = Len(zip) + 1 /\ hash = zip
  /\ pc \in {"creating", "reading", "locating"} => Len(zip) = Size /\ hash = zip

\* Nothing is ever extracted outside the directories of the releases.
RootsInv ==
  \A d \in Roots : (\A r \in Releases : Root[r] # d) =>
    \A e \in Entries : bundle[d][e] = "absent"

\* The entries behind the extraction are of the archive's own release.
ExtractInv ==
  /\ pc \in {"idle", "requested", "streaming"} => entry = 1
  /\ pc \in {"creating", "reading"} =>
       \A e \in 1 .. entry - 1 :
         zip[e] = Piece(Directory, e) /\ bundle[Root[Directory]][e] = Directory
  /\ pc = "locating" =>
       \A e \in Entries :
         zip[e] = Piece(Directory, e) /\ bundle[Root[Directory]][e] = Directory

\* Behind find_bundle_root: the bundle is of release r, but for a configuration
\* that is being patched, or was left torn.
OfRelease(r) ==
  /\ hash = Archive(r)
  /\ \A e \in Entries :
       \/ bundle[root][e] = r
       \/ /\ bundle[root][e] = "torn" /\ e = entry /\ e <= NConfigs
          /\ \/ pc \in {"patch_torn", "committing"}
             \/ pc = "writing" /\ e \in Companions
  /\ pc = "patch_torn" => body = r
  /\ pc \in {"patching", "patch_torn"} => entry <= NConfigs

InstallInv ==
  pc \in {"patching", "patch_torn", "committing", "writing"} =>
    \E r \in Releases : OfRelease(r)

OneRoot == \A r, s \in Releases : Root[r] = Root[s]

IInv ==
  /\ PiecesInPlace /\ DownloadInv /\ ExtractInv
  /\ OneRoot => RootsInv /\ InstallInv

-----------------------------------------------------------------------------
(* Liveness *)

\* The user pulls again until it works, the process runs, and the server
\* answers and sends.
FairSpec ==
  /\ Spec
  /\ WF_vars(StartPull) /\ WF_vars(Download) /\ WF_vars(Install)

Installed ==
  manifest.state = "whole" /\ \E r \in Releases : WholeAt(manifest.root, r)

\* No state that failures, kills and replaced assets can leave on disk keeps
\* later pulls from succeeding: not a part of one archive with the rest of
\* another, not a complete .pull.zip that the server has no range for.
PullsHeal == ~Installed ~> Installed

\* Why: how many pulls may still fail by themselves, and how many steps the one
\* under way has left.  A partial file may hold an old release: its completion
\* cannot be extracted, and fails.  The server has no range for a complete file,
\* which is emptied for that.  A torn genie_config.json ends one pull, which may
\* leave a complete file.
AllOf(r) == \A n \in 1 .. Len(zip) : zip[n].release = r

FailuresLeft ==
  CASE pc \in {"idle", "requested"} ->
         IF zip = <<>> THEN 0 ELSE IF Len(zip) = Size THEN 1 ELSE 2
    [] pc = "streaming" -> IF AllOf(body) THEN 0 ELSE 2
    [] pc \in {"creating", "reading"} -> IF AllOf(Directory) THEN 0 ELSE 2
    [] pc = "committing" -> IF bundle[root][1] = "torn" THEN 2 ELSE 0
    [] OTHER -> 0

StepsLeft ==
  LET Patches  == 2 * NConfigs
      Extracts == 2 * NEntries
  IN CASE pc = "writing"    -> 1
       [] pc = "committing" -> 2
       [] pc = "patch_torn" -> 3 + 2 * (NConfigs - entry)
       [] pc = "patching"   -> 4 + 2 * (NConfigs - entry)
       [] pc = "locating"   -> 4 + Patches
       [] pc = "reading"    -> 5 + Patches + 2 * (NEntries - entry)
       [] pc = "creating"   -> 6 + Patches + 2 * (NEntries - entry)
       [] pc = "streaming"  -> 6 + Patches + Extracts + (Size + 1 - next)
       [] pc = "requested"  -> 8 + Patches + Extracts + Size
       [] OTHER -> 9 + Patches + Extracts + Size + (IF manifest = Absent THEN 0 ELSE 1)

\* As long as nothing new goes wrong, every step towards an installed model
\* brings it closer: what a pull finds on disk makes at most two pulls fail,
\* each of which leaves less in the way of the next one, and each pull takes
\* a bounded number of steps.
StepsHeal ==
  [][~Installed /\ ~Installed' /\ faults' = faults =>
       \/ FailuresLeft' < FailuresLeft
       \/ FailuresLeft' = FailuresLeft /\ StepsLeft' < StepsLeft]_vars

=============================================================================
