----------------------------- MODULE Pull_proofs -----------------------------
(***************************************************************************)
(* Proofs about Pull, for any releases, any number of entries and any      *)
(* number of faults.                                                       *)
(***************************************************************************)
EXTENDS Pull, SequenceTheorems, TLAPS

-----------------------------------------------------------------------------
(* Typing *)

\* The size of an archive, and what is in it.
LEMMA Sizes ==
  /\ Size \in Nat /\ Size > 1
  /\ 1 \in Entries /\ Entries \subseteq Nat /\ NEntries \in Entries
  /\ \A e \in Entries : e # NEntries => e + 1 \in Entries /\ e < NEntries
  /\ NConfigs \in Entries /\ \A e \in Entries : e < NConfigs => e + 1 \in Entries
  /\ \A r \in Releases, n \in 1 .. Size : Piece(r, n) \in Pieces
  BY PullAssumption DEF Size, Entries, Piece, Pieces

\* Losing the end of a file keeps what is before.
LEMMA FrontKeeps ==
  ASSUME NEW s \in Seq(Pieces), Len(s) > 0
  PROVE  /\ Front(s) \in Seq(Pieces)
         /\ Len(Front(s)) = Len(s) - 1
         /\ \A n \in 1 .. Len(s) - 1 : Front(s)[n] = s[n]
  <1>1. Front(s) = [n \in 1 .. Len(s) - 1 |-> s[n]]
    BY DEF Front
  <1>2. Len(s) - 1 \in Nat /\ \A n \in 1 .. Len(s) - 1 : s[n] \in Pieces
    OBVIOUS
  <1> QED
    BY <1>1, <1>2

\* Writing one file of the bundle.
LEMMA PutTyped ==
  ASSUME bundle \in [Roots -> [Entries -> Releases \cup {"absent", "torn"}]],
         NEW d \in Roots, NEW e \in Entries,
         NEW c \in Releases \cup {"absent", "torn"}, Put(d, e, c)
  PROVE  bundle' \in [Roots -> [Entries -> Releases \cup {"absent", "torn"}]]
  BY DEF Put

\* The state after the end of a pull is well-typed.
LEMMA EndsTyped ==
  ASSUME Ends
  PROVE  /\ pc' \in Steps /\ have' \in Nat /\ body' \in Releases
         /\ next' \in 1 .. Size + 1 /\ hash' \in Seq(Pieces)
         /\ entry' \in Entries /\ root' \in Roots
  BY PullAssumption, Sizes DEF Ends, Steps

\* While it is extracted, an archive has a central directory.
LEMMA DirectoryTyped ==
  ASSUME TypeOK, DownloadInv, pc \in {"creating", "reading", "locating"}
  PROVE  Directory \in Releases /\ Root[Directory] \in Roots
  <1>1. Len(zip) = Size /\ zip \in Seq(Pieces) /\ Size \in 1 .. Len(zip)
    BY Sizes DEF TypeOK, DownloadInv
  <1>2. zip[Len(zip)] \in Pieces
    BY <1>1
  <1> QED
    BY <1>2, PullAssumption DEF Directory, Last, Pieces

\* Every step keeps the types.
LEMMA NextTypeOK == TypeOK /\ DownloadInv /\ [Next]_vars => TypeOK'
  <1> SUFFICES ASSUME TypeOK, DownloadInv, [Next]_vars
               PROVE  TypeOK'
    OBVIOUS
  <1> USE PullAssumption, Sizes
  <1>1. CASE StartPull
    BY <1>1 DEF TypeOK, StartPull, disk, Steps
  <1>2. CASE Download
    <2>1. CASE ResumePartial
      BY <2>1 DEF TypeOK, ResumePartial, PreFed, disk, Steps
    <2>2. CASE StartOver
      BY <2>2 DEF TypeOK, StartOver, Created, Steps
    <2>3. CASE RangeRefused
      BY <2>3, EndsTyped DEF TypeOK, RangeRefused, Created
    <2>4. CASE ReceivePiece
      <3>1. next \in 1 .. Size /\ Piece(body, next) \in Pieces
        BY <2>4 DEF TypeOK, ReceivePiece, MorePieces
      <3> QED
        BY <2>4, <3>1 DEF TypeOK, ReceivePiece
    <2>5. CASE Downloaded
      BY <2>5 DEF TypeOK, Downloaded, disk, locals, Steps
    <2> QED
      BY <1>2, <2>1, <2>2, <2>3, <2>4, <2>5 DEF Download
  <1>3. CASE Install
    <2>1. CASE CreateFile
      <3>1. Root[Directory] \in Roots
        BY <2>1, DirectoryTyped DEF CreateFile
      <3>2. bundle' \in [Roots -> [Entries -> Releases \cup {"absent", "torn"}]]
        BY <2>1, <3>1, PutTyped DEF TypeOK, CreateFile
      <3> QED
        BY <2>1, <3>2 DEF TypeOK, CreateFile, locals, Steps
    <2>2. CASE ExtractEntry
      <3>1. Directory \in Releases
        BY <2>2, DirectoryTyped DEF ExtractEntry
      <3>2. Root[Directory] \in Roots
        BY <3>1
      <3>3. bundle' \in [Roots -> [Entries -> Releases \cup {"absent", "torn"}]]
        BY <2>2, <3>1, <3>2, PutTyped DEF TypeOK, ExtractEntry
      <3> QED
        BY <2>2, <3>3 DEF TypeOK, ExtractEntry, Steps
    <2>3. CASE BadEntry
      BY <2>3, EndsTyped DEF TypeOK, BadEntry, disk
    <2>4. CASE LocateBundle
      <3>1. zip' \in Seq(Pieces)
        <4>1. <<>> \in Seq(Pieces)
          OBVIOUS
        <4>2. zip' = <<>> \/ zip' = zip
          BY <2>4 DEF LocateBundle
        <4> QED
          BY <4>1, <4>2 DEF TypeOK
      <3>2. faults' \in 0 .. MaxFaults
        BY <2>4 DEF TypeOK, LocateBundle, Fault
      <3> QED
        BY <2>4, <3>1, <3>2 DEF TypeOK, LocateBundle, Steps
    <2>5. CASE SkipPatch
      BY <2>5 DEF TypeOK, SkipPatch, NextConfig, disk, Steps
    <2>6. CASE BeginPatch
      <3>1. bundle' \in [Roots -> [Entries -> Releases \cup {"absent", "torn"}]]
        BY <2>6, PutTyped DEF TypeOK, BeginPatch
      <3> QED
        BY <2>6, <3>1 DEF TypeOK, BeginPatch, Steps
    <2>7. CASE EndPatch
      <3>1. bundle' \in [Roots -> [Entries -> Releases \cup {"absent", "torn"}]]
        BY <2>7, PutTyped DEF TypeOK, EndPatch
      <3>2. pc' \in Steps /\ entry' \in Entries
        BY <2>7 DEF TypeOK, EndPatch, NextConfig, Steps
      <3> QED
        BY <2>7, <3>1, <3>2 DEF TypeOK, EndPatch
    <2>8. CASE BeginManifest
      BY <2>8, EndsTyped DEF TypeOK, BeginManifest, locals, Steps
    <2>9. CASE EndManifest
      BY <2>9, EndsTyped DEF TypeOK, EndManifest, Written
    <2> QED
      BY <1>3, <2>1, <2>2, <2>3, <2>4, <2>5, <2>6, <2>7, <2>8, <2>9 DEF Install
  <1>4. CASE Environment
    <2>1. CASE StatusError
      BY <2>1, EndsTyped DEF TypeOK, StatusError, Created, Fault
    <2>2. CASE Interrupted
      <3>1. zip' \in Seq(Pieces)
        BY <2>2, FrontKeeps DEF TypeOK, Interrupted
      <3> QED
        BY <2>2, <3>1, EndsTyped DEF TypeOK, Interrupted, Fault
    <2>3. CASE Republish
      BY <2>3 DEF TypeOK, Republish, Fault, disk, locals
    <2>4. CASE RemoveLocal
      BY <2>4 DEF TypeOK, RemoveLocal, NoBundle, locals
    <2>5. CASE RemoveLocalInterrupted
      <3>1. bundle' \in [Roots -> [Entries -> Releases \cup {"absent", "torn"}]]
        BY <2>5 DEF TypeOK, RemoveLocalInterrupted
      <3>2. faults' \in 0 .. MaxFaults
        BY <2>5 DEF TypeOK, RemoveLocalInterrupted, Fault
      <3>3. <<>> \in Seq(Pieces)
        OBVIOUS
      <3>4. zip' \in Seq(Pieces)
        BY <2>5, <3>3 DEF TypeOK, RemoveLocalInterrupted
      <3> QED
        BY <2>5, <3>1, <3>2, <3>4 DEF TypeOK, RemoveLocalInterrupted, locals
    <2>6. CASE PatchFails
      BY <2>6 DEF TypeOK, PatchFails, Fault, disk, locals, Steps
    <2> QED
      BY <1>4, <2>1, <2>2, <2>3, <2>4, <2>5, <2>6 DEF Environment
  <1>5. CASE UNCHANGED vars
    BY <1>5 DEF TypeOK, vars, disk, locals
  <1> QED
    BY <1>1, <1>2, <1>3, <1>4, <1>5 DEF Next

\* The position in the response, the file and the hash keep in step: each is
\* set from the others when the response has arrived, and a piece goes to all.
LEMMA DownloadStep ==
  TypeOK /\ DownloadInv /\ PiecesInPlace /\ [Next]_vars
    => DownloadInv' /\ PiecesInPlace'
  <1> SUFFICES ASSUME TypeOK, DownloadInv, PiecesInPlace, [Next]_vars
               PROVE  DownloadInv' /\ PiecesInPlace'
    OBVIOUS
  <1> USE Sizes DEF DownloadInv, PiecesInPlace
  <1>1. CASE StartPull
    BY <1>1 DEF StartPull, disk
  <1>2. CASE Download
    <2>1. CASE ResumePartial
      BY <2>1 DEF ResumePartial, PreFed, disk
    <2>2. CASE StartOver
      BY <2>2 DEF StartOver, Created
    <2>3. CASE RangeRefused
      BY <2>3 DEF RangeRefused, Created, Ends
    <2>4. CASE ReceivePiece
      <3>1. /\ Len(zip') = Len(zip) + 1
            /\ zip'[Len(zip) + 1] = Piece(body, next)
            /\ \A n \in 1 .. Len(zip) : zip'[n] = zip[n]
        BY <2>4 DEF TypeOK, ReceivePiece
      <3>2. Piece(body, next).n = next
        BY DEF Piece
      <3> QED
        BY <2>4, <3>1, <3>2 DEF TypeOK, ReceivePiece
    <2>5. CASE Downloaded
      BY <2>5 DEF TypeOK, Downloaded, MorePieces, disk, locals
    <2> QED
      BY <1>2, <2>1, <2>2, <2>3, <2>4, <2>5 DEF Download
  <1>3. CASE Install
    BY <1>3 DEF Install, CreateFile, ExtractEntry, BadEntry, LocateBundle, SkipPatch,
                BeginPatch, EndPatch, NextConfig, BeginManifest, EndManifest, Ends,
                disk, locals
  <1>4. CASE Environment
    <2>1. CASE Interrupted
      <3>1. pc' = "idle" /\ Len(zip) \in Nat
        BY <2>1 DEF TypeOK, Interrupted, Ends
      <3>2. CASE zip' = zip
        BY <3>1, <3>2
      <3>3. CASE pc = "streaming" /\ Len(zip) > have /\ zip' = Front(zip)
        <4>1. Len(zip) > 0
          BY <3>1, <3>3 DEF TypeOK
        <4>2. Len(zip') = Len(zip) - 1 /\ \A n \in 1 .. Len(zip) - 1 : zip'[n] = zip[n]
          BY <3>3, <4>1, FrontKeeps DEF TypeOK
        <4> QED
          BY <3>1, <4>2
      <3> QED
        BY <2>1, <3>2, <3>3 DEF Interrupted
    <2>2. CASE \/ StatusError \/ PatchFails \/ Republish
               \/ RemoveLocal \/ RemoveLocalInterrupted
      BY <2>2 DEF StatusError, PatchFails, Created, Republish, RemoveLocal,
                  RemoveLocalInterrupted, Ends, disk, locals
    <2> QED
      BY <1>4, <2>1, <2>2 DEF Environment
  <1>5. CASE UNCHANGED vars
    BY <1>5 DEF vars, disk, locals
  <1> QED
    BY <1>1, <1>2, <1>3, <1>4, <1>5 DEF Next

\* Typing and the three invariants of the download, together.
LEMMA DownloadCorrect == Spec => [](TypeOK /\ DownloadInv /\ PiecesInPlace)
  <1>1. Init => TypeOK /\ DownloadInv /\ PiecesInPlace
    BY PullAssumption, Sizes DEF Init, TypeOK, NoBundle, Steps, DownloadInv, PiecesInPlace
  <1> QED
    BY <1>1, NextTypeOK, DownloadStep, PTL DEF Spec

\* What is on disk and what a pull knows keep their types.
THEOREM PullTypeCorrect == Spec => []TypeOK
  BY DownloadCorrect, PTL

\* For any number of pieces, faults and replaced assets, .pull.zip never misses
\* a piece and never has one twice.
THEOREM Resumes == Spec => []PiecesInPlace
  BY DownloadCorrect, PTL

\* The sha256 that download returns is that of the file it leaves on disk,
\* resumed or not.
THEOREM Hashes == Spec => []ShaIsOfTheFile
  <1>1. DownloadInv => ShaIsOfTheFile
    BY DEF DownloadInv, ShaIsOfTheFile
  <1> QED
    BY <1>1, DownloadCorrect, PTL

-----------------------------------------------------------------------------
(* The commit marker *)

\* While the entries are extracted, those already written are the archive's.
LEMMA ExtractStep ==
  TypeOK /\ DownloadInv /\ ExtractInv /\ [Next]_vars => ExtractInv'
  <1> SUFFICES ASSUME TypeOK, DownloadInv, ExtractInv, [Next]_vars
               PROVE  ExtractInv'
    OBVIOUS
  <1> USE Sizes
  <1>1. CASE StartPull
    BY <1>1 DEF ExtractInv, StartPull, disk
  <1>2. CASE Download
    <2>1. entry = 1 /\ entry' = 1
      BY <1>2 DEF ExtractInv, Download, ResumePartial, StartOver, RangeRefused, ReceivePiece,
                  Downloaded, Ends, disk, locals
    <2>2. pc' \in {"idle", "requested", "streaming", "creating"}
      BY <1>2 DEF Download, ResumePartial, StartOver, RangeRefused, ReceivePiece, Downloaded,
                  Ends
    <2> QED
      BY <2>1, <2>2 DEF ExtractInv
  <1>3. CASE Install
    <2>1. CASE CreateFile
      <3>1. Directory \in Releases /\ Root[Directory] \in Roots /\ Directory' = Directory
        BY <2>1, DirectoryTyped DEF CreateFile, Directory
      <3>2. \A e \in 1 .. entry - 1 :
              bundle'[Root[Directory]][e] = bundle[Root[Directory]][e]
        BY <2>1, <3>1 DEF CreateFile, Put, TypeOK, Entries
      <3> QED
        BY <2>1, <3>1, <3>2 DEF ExtractInv, CreateFile, locals
    <2>2. CASE ExtractEntry
      <3>1. Directory \in Releases /\ Root[Directory] \in Roots /\ Directory' = Directory
        BY <2>2, DirectoryTyped DEF ExtractEntry, Directory
      <3>2. \A e \in 1 .. entry :
              zip[e] = Piece(Directory, e) /\ bundle'[Root[Directory]][e] = Directory
        BY <2>2, <3>1 DEF ExtractEntry, EntryIntact, ExtractInv, Put, TypeOK, Entries
      <3>3. CASE entry < NEntries
        BY <2>2, <3>1, <3>2, <3>3 DEF ExtractInv, ExtractEntry, TypeOK, Entries
      <3>4. CASE ~(entry < NEntries)
        <4>1. Entries = 1 .. entry
          BY <3>4 DEF TypeOK, Entries
        <4> QED
          BY <2>2, <3>1, <3>2, <3>4, <4>1 DEF ExtractInv, ExtractEntry
      <3> QED
        BY <3>3, <3>4
    <2>3. CASE BadEntry \/ EndManifest
      BY <2>3 DEF ExtractInv, BadEntry, EndManifest, Ends
    <2>4. CASE LocateBundle \/ SkipPatch \/ BeginPatch \/ EndPatch
      BY <2>4 DEF ExtractInv, LocateBundle, SkipPatch, BeginPatch, EndPatch, NextConfig
    <2>5. CASE BeginManifest
      BY <2>5 DEF ExtractInv, BeginManifest, Ends
    <2> QED
      BY <1>3, <2>1, <2>2, <2>3, <2>4, <2>5 DEF Install
  <1>4. CASE Environment
    <2>1. CASE StatusError \/ Interrupted \/ RemoveLocal \/ RemoveLocalInterrupted
      BY <2>1 DEF ExtractInv, StatusError, Interrupted, RemoveLocal, RemoveLocalInterrupted,
                  Ends, locals
    <2>2. CASE Republish
      BY <2>2 DEF ExtractInv, Republish, Directory, disk, locals
    <2>3. CASE PatchFails
      BY <2>3 DEF ExtractInv, PatchFails
    <2> QED
      BY <1>4, <2>1, <2>2, <2>3 DEF Environment
  <1>5. CASE UNCHANGED vars
    BY <1>5 DEF ExtractInv, Directory, vars, disk, locals
  <1> QED
    BY <1>1, <1>2, <1>3, <1>4, <1>5 DEF Next

\* Nothing is written outside the roots of the releases.
LEMMA RootsStep ==
  TypeOK /\ DownloadInv /\ RootsInv /\ InstallInv /\ [Next]_vars => RootsInv'
  <1> SUFFICES ASSUME TypeOK, DownloadInv, RootsInv, InstallInv, [Next]_vars,
                      NEW d \in Roots, \A r \in Releases : Root[r] # d,
                      NEW e \in Entries
               PROVE  bundle'[d][e] = "absent"
    BY DEF RootsInv
  <1> USE Sizes
  <1>1. \A f \in Entries : bundle[d][f] = "absent"
    BY DEF RootsInv
  <1>2. CASE CreateFile \/ ExtractEntry
    <2>1. Directory \in Releases
      BY <1>2, DirectoryTyped DEF CreateFile, ExtractEntry
    <2>2. Root[Directory] # d
      BY <2>1
    <2> QED
      BY <1>1, <1>2, <2>2 DEF CreateFile, ExtractEntry, Put, TypeOK
  <1>3. CASE BeginPatch
    <2>1. root # d
      BY <1>1, <1>3, PullAssumption DEF BeginPatch, TypeOK
    <2> QED
      BY <1>1, <1>3, <2>1 DEF BeginPatch, Put, TypeOK
  <1>4. CASE EndPatch
    <2>1. PICK r \in Releases : OfRelease(r)
      BY <1>4 DEF EndPatch, InstallInv
    <2>2. root # d
      BY <1>1, <2>1, PullAssumption DEF OfRelease, TypeOK
    <2> QED
      BY <1>1, <1>4, <2>2 DEF EndPatch, Put, TypeOK
  <1>5. CASE RemoveLocal \/ RemoveLocalInterrupted
    <2>1. CASE RemoveLocal
      BY <2>1 DEF RemoveLocal, NoBundle
    <2>2. CASE RemoveLocalInterrupted
      <3>1. PICK gone \in SUBSET (Roots \X Entries) :
              bundle' = [c \in Roots |-> [f \in Entries |->
                          IF <<c, f>> \in gone THEN "absent" ELSE bundle[c][f]]]
        BY <2>2 DEF RemoveLocalInterrupted
      <3>2. bundle'[d][e] = IF <<d, e>> \in gone THEN "absent" ELSE bundle[d][e]
        BY <3>1
      <3> QED
        BY <1>1, <3>2
    <2> QED
      BY <1>5, <2>1, <2>2
  <1>6. CASE \/ StartPull \/ Download \/ UNCHANGED vars
             \/ BadEntry \/ LocateBundle \/ SkipPatch \/ BeginManifest \/ EndManifest
             \/ StatusError \/ PatchFails \/ Interrupted \/ Republish
    BY <1>1, <1>6 DEF StartPull, Download, ResumePartial, StartOver, RangeRefused,
       ReceivePiece, Downloaded, BadEntry, LocateBundle, SkipPatch, BeginManifest,
       EndManifest, StatusError, PatchFails, Interrupted, Republish, vars, disk
  <1> QED
    BY <1>2, <1>3, <1>4, <1>5, <1>6 DEF Next, Install, Environment

\* An archive that is extracted to its last entry is all of one release.
LEMMA ExtractedArchive ==
  ASSUME TypeOK, DownloadInv, PiecesInPlace, ExtractInv, pc = "locating"
  PROVE  hash = Archive(Directory)
  <1>1. zip \in Seq(Pieces) /\ Len(zip) = Size /\ hash = zip
    BY DEF TypeOK, DownloadInv
  <1>2. \A n \in 1 .. Size : zip[n] = Piece(Directory, n)
    <2> TAKE n \in 1 .. Size
    <2>1. CASE n = Size
      <3>1. zip[Size] \in Pieces /\ zip[Size].n = Size /\ zip[Size].release = Directory
        BY <1>1, Sizes DEF PiecesInPlace, Directory, Last
      <3> QED
        BY <2>1, <3>1 DEF Pieces, Piece
    <2>2. CASE n # Size
      <3>1. n \in Entries
        BY <2>2, PullAssumption DEF Entries, Size
      <3> QED
        BY <3>1 DEF ExtractInv
    <2> QED
      BY <2>1, <2>2
  <1>3. zip = [n \in 1 .. Size |-> zip[n]]
    BY <1>1
  <1> QED
    BY <1>1, <1>2, <1>3 DEF Archive

\* From find_bundle_root to npurun.json the bundle stays of one release.
LEMMA InstallStep ==
  ASSUME OneRoot
  PROVE  /\ TypeOK /\ DownloadInv /\ PiecesInPlace
         /\ ExtractInv /\ RootsInv /\ InstallInv /\ [Next]_vars
         => InstallInv'
  <1> SUFFICES ASSUME TypeOK, DownloadInv, PiecesInPlace, ExtractInv, RootsInv, InstallInv,
                      [Next]_vars,
                      pc' \in {"patching", "patch_torn", "committing", "writing"}
               PROVE  \E r \in Releases : OfRelease(r)'
    BY DEF InstallInv
  <1> USE Sizes
  <1>1. CASE LocateBundle
    <2>1. Directory \in Releases /\ hash = Archive(Directory)
      BY <1>1, DirectoryTyped, ExtractedArchive DEF LocateBundle
    <2>2. root' = Root[Directory]
      BY <1>1, <2>1 DEF LocateBundle, RootsInv, OneRoot
    <2>3. \A e \in Entries : bundle'[root'][e] = Directory
      BY <1>1, <2>2 DEF LocateBundle, ExtractInv
    <2>4. hash' = hash /\ pc' = "patching" /\ entry' = 1 /\ entry' <= NConfigs
      BY <1>1, PullAssumption DEF LocateBundle
    <2> QED
      BY <2>1, <2>3, <2>4 DEF OfRelease, Archive
  <1>2. CASE \/ SkipPatch \/ BeginPatch \/ EndPatch \/ PatchFails \/ BeginManifest
             \/ Republish \/ UNCHANGED vars
    <2>1. pc \in {"patching", "patch_torn", "committing", "writing"}
      BY <1>2 DEF SkipPatch, BeginPatch, EndPatch, PatchFails, BeginManifest, vars,
                  Republish, Ends
    <2>2. PICK r \in Releases : OfRelease(r)
      BY <2>1 DEF InstallInv
    <2>3. r # "torn" /\ Archive(r)' = Archive(r)
      BY PullAssumption DEF Archive
    <2>4. root \in Roots /\ entry \in Nat /\ entry \in Entries /\ NConfigs \in Nat
      BY DEF TypeOK
    <2>5. CASE Republish \/ UNCHANGED vars
      BY <2>2, <2>3, <2>5 DEF Republish, OfRelease, vars, disk, locals
    <2>6. CASE SkipPatch
      <3>1. \A e \in Entries : bundle'[root'][e] = r
        BY <2>2, <2>6 DEF SkipPatch, OfRelease, disk
      <3>2. hash' = Archive(r) /\ pc' # "patch_torn"
        BY <2>2, <2>6 DEF SkipPatch, NextConfig, OfRelease
      <3>3. pc' = "patching" => entry' <= NConfigs
        BY <2>4, <2>6 DEF SkipPatch, NextConfig
      <3> QED
        BY <2>2, <2>3, <3>1, <3>2, <3>3 DEF OfRelease
    <2>7. CASE BeginPatch
      BY <2>2, <2>3, <2>4, <2>7 DEF BeginPatch, OfRelease, Put, TypeOK
    <2>8. CASE EndPatch
      BY <2>2, <2>3, <2>4, <2>8 DEF EndPatch, NextConfig, OfRelease, Put, TypeOK
    <2>9. CASE PatchFails
      BY <2>2, <2>3, <2>9 DEF PatchFails, OfRelease, disk, locals
    <2>10. CASE BeginManifest
      <3>1. pc' = "writing" /\ bundle[root][1] # "torn" /\ bundle' = bundle
        BY <2>10 DEF BeginManifest, Ends
      <3>2. hash' = hash /\ root' = root /\ entry' = entry
        BY <2>10, <3>1 DEF BeginManifest, Ends, locals
      <3>3. ASSUME NEW e \in Entries, bundle[root][e] # r
            PROVE  bundle[root][e] = "torn" /\ e = entry /\ e \in Companions
        BY <2>2, <2>4, <2>10, <3>1, <3>3 DEF OfRelease, Companions, Entries, BeginManifest
      <3>4. \A e \in Entries : e \in Companions => e <= NConfigs
        BY <2>4 DEF Companions
      <3> QED
        BY <2>2, <2>3, <3>1, <3>2, <3>3, <3>4 DEF OfRelease
    <2> QED
      BY <1>2, <2>5, <2>6, <2>7, <2>8, <2>9, <2>10
  <1>3. ~(StartPull \/ Download \/ CreateFile \/ ExtractEntry \/ BadEntry \/ EndManifest)
    BY DEF StartPull, Download, ResumePartial, StartOver, RangeRefused, ReceivePiece,
           Downloaded, CreateFile, ExtractEntry, BadEntry, EndManifest, Ends
  <1>4. ~(StatusError \/ Interrupted \/ RemoveLocal \/ RemoveLocalInterrupted)
    BY DEF StatusError, Interrupted, RemoveLocal, RemoveLocalInterrupted, Ends, locals
  <1> QED
    BY <1>1, <1>2, <1>3, <1>4 DEF Next, Install, Environment

\* Only EndManifest completes npurun.json, and it does over a whole bundle.
LEMMA CommitStep ==
  TypeOK /\ InstallInv /\ [Next]_vars =>
    (manifest' # manifest /\ manifest'.state = "whole" =>
       \E r \in Releases : WholeAt(manifest'.root, r) /\ manifest'.sha = Archive(r))
  <1> SUFFICES ASSUME TypeOK, InstallInv, [Next]_vars,
                      manifest' # manifest, manifest'.state = "whole"
               PROVE  \E r \in Releases :
                        WholeAt(manifest'.root, r) /\ manifest'.sha = Archive(r)
    OBVIOUS
  <1>1. CASE EndManifest
    <2>1. PICK r \in Releases : OfRelease(r)
      BY <1>1 DEF EndManifest, InstallInv
    <2>2. manifest'.root = root /\ manifest'.sha = hash
      BY <1>1 DEF EndManifest, Written
    <2>3. WholeAt(root, r)
      BY <1>1, <2>1 DEF EndManifest, OfRelease, WholeAt
    <2> QED
      BY <2>1, <2>2, <2>3 DEF OfRelease
  <1>2. CASE BeginManifest \/ RemoveLocal \/ RemoveLocalInterrupted
    BY <1>2 DEF BeginManifest, RemoveLocal, RemoveLocalInterrupted, Absent, Torn
  <1>3. CASE \/ StartPull \/ Download \/ UNCHANGED vars
             \/ CreateFile \/ ExtractEntry \/ BadEntry \/ LocateBundle
             \/ SkipPatch \/ BeginPatch \/ EndPatch
             \/ StatusError \/ PatchFails \/ Interrupted \/ Republish
    BY <1>3 DEF StartPull, Download, ResumePartial, StartOver, RangeRefused, ReceivePiece,
       Downloaded, CreateFile, ExtractEntry, BadEntry, LocateBundle, SkipPatch, BeginPatch,
       EndPatch, StatusError, PatchFails, Interrupted, Republish, vars, disk
  <1> QED
    BY <1>1, <1>2, <1>3 DEF Next, Install, Environment

\* When the releases share their root directory, npurun.json is only completed
\* over a whole bundle of one release, with the sha256 of that release's archive:
\* whatever faults, kills, replaced assets and removals came before.
THEOREM CommitsWhole ==
  ASSUME OneRoot
  PROVE  Spec => CommitsWholeBundle
  <1> DEFINE Inv == TypeOK /\ DownloadInv /\ PiecesInPlace
  <1> DEFINE Inst == ExtractInv /\ RootsInv /\ InstallInv
  <1>1. Spec => []Inv
    BY DownloadCorrect
  <1>2. Init => Inst
    BY DEF Init, NoBundle, ExtractInv, RootsInv, InstallInv
  <1>3. Inv /\ Inst /\ [Next]_vars => Inst'
    BY OneRoot, ExtractStep, RootsStep, InstallStep
  <1>4. Inv /\ Inst /\ [Next]_vars =>
          [manifest' # manifest /\ manifest'.state = "whole" =>
             \E r \in Releases :
               WholeAt(manifest'.root, r) /\ manifest'.sha = Archive(r)]_vars
    BY CommitStep
  <1> HIDE DEF Inv, Inst
  <1> QED
    BY <1>1, <1>2, <1>3, <1>4, PTL DEF Spec, CommitsWholeBundle

-----------------------------------------------------------------------------
(* Pulls heal *)

\* What .pull.zip may hold between find_bundle_root and npurun.json: nothing, or
\* the complete archive that could not be removed.
LeftoverInv ==
  pc \in {"patching", "patch_torn", "committing", "writing"} =>
    zip = <<>> \/ Len(zip) = Size

LEMMA LeftoverStep ==
  DownloadInv /\ LeftoverInv /\ [Next]_vars => LeftoverInv'
  <1> SUFFICES ASSUME DownloadInv, LeftoverInv, [Next]_vars,
                      pc' \in {"patching", "patch_torn", "committing", "writing"}
               PROVE  zip' = <<>> \/ Len(zip') = Size
    BY DEF LeftoverInv, Size
  <1>1. CASE LocateBundle
    BY <1>1 DEF LocateBundle, DownloadInv
  <1>2. CASE \/ SkipPatch \/ BeginPatch \/ EndPatch \/ PatchFails \/ BeginManifest
             \/ Republish \/ UNCHANGED vars
    BY <1>2 DEF SkipPatch, BeginPatch, EndPatch, PatchFails, BeginManifest, Republish, Ends,
                LeftoverInv, vars, disk
  <1>3. ~(StartPull \/ Download \/ CreateFile \/ ExtractEntry \/ BadEntry \/ EndManifest)
    BY DEF StartPull, Download, ResumePartial, StartOver, RangeRefused, ReceivePiece,
           Downloaded, CreateFile, ExtractEntry, BadEntry, EndManifest, Ends
  <1>4. ~(StatusError \/ Interrupted \/ RemoveLocal \/ RemoveLocalInterrupted)
    BY DEF StatusError, Interrupted, RemoveLocal, RemoveLocalInterrupted, Ends, locals
  <1> QED
    BY <1>1, <1>2, <1>3, <1>4 DEF Next, Install, Environment

\* A file with every piece in its place is no longer than an archive.
LEMMA NoLongerThanArchive ==
  ASSUME TypeOK, PiecesInPlace
  PROVE  Len(zip) \in 0 .. Size /\ (Len(zip) = 0 <=> zip = <<>>)
  <1>1. zip \in Seq(Pieces) /\ Len(zip) \in Nat
    BY DEF TypeOK
  <1>2. CASE Len(zip) # 0
    <2>1. zip[Len(zip)] \in Pieces /\ zip[Len(zip)].n = Len(zip)
      BY <1>1, <1>2 DEF PiecesInPlace
    <2>2. Len(zip) \in 1 .. Size
      BY <2>1 DEF Pieces
    <2> QED
      BY <1>1, <1>2, <2>2, Sizes
  <1> QED
    BY <1>1, <1>2, Sizes

\* One step towards an installed model, as StepsHeal has it.
Nearer ==
  \/ FailuresLeft' < FailuresLeft
  \/ FailuresLeft' = FailuresLeft /\ StepsLeft' < StepsLeft

LEMMA FailuresTyped == FailuresLeft \in 0 .. 2
  BY DEF FailuresLeft

\* The steps that keep or lower the failures and lower the steps.
LEMMA NearerIf ==
  ASSUME FailuresLeft' <= FailuresLeft, StepsLeft' < StepsLeft
  PROVE  Nearer
  <1>1. FailuresLeft' \in 0 .. 2 /\ FailuresLeft \in 0 .. 2
    BY FailuresTyped DEF FailuresLeft
  <1> QED
    BY <1>1 DEF Nearer

\* The steps of a pull up to the complete file.
LEMMA DownloadNearer ==
  ASSUME TypeOK, DownloadInv, PiecesInPlace, ExtractInv, StartPull \/ Download
  PROVE  Nearer
  <1> USE Sizes, PullAssumption
  <1>1. Len(zip) \in 0 .. Size /\ (Len(zip) = 0 <=> zip = <<>>)
    BY NoLongerThanArchive
  <1>2. CASE StartPull
    <2>1. FailuresLeft' = FailuresLeft
      BY <1>2 DEF StartPull, disk, FailuresLeft
    <2>2. StepsLeft' < StepsLeft
      BY <1>2 DEF StartPull, disk, StepsLeft
    <2> QED
      BY <2>1, <2>2 DEF Nearer
  <1>3. CASE ResumePartial
    <2>1. have = Len(zip) /\ have \in 1 .. Size - 1
      BY <1>1, <1>3 DEF ResumePartial, DownloadInv
    <2>2. FailuresLeft = 2 /\ FailuresLeft' \in {0, 2}
      BY <1>1, <1>3, <2>1 DEF ResumePartial, FailuresLeft
    <2>3. StepsLeft' < StepsLeft
      <3>1. StepsLeft = 8 + 2 * NConfigs + 2 * NEntries + Size
        BY <1>3 DEF ResumePartial, StepsLeft
      <3>2. next' = have + 1
        BY <1>3 DEF ResumePartial
      <3>3. StepsLeft' = 6 + 2 * NConfigs + 2 * NEntries + (Size + 1 - next')
        BY <1>3 DEF ResumePartial, StepsLeft
      <3> QED
        BY <2>1, <3>1, <3>2, <3>3
    <2> QED
      BY <2>2, <2>3 DEF Nearer
  <1>4. CASE StartOver
    <2>1. zip' = <<>> /\ pc' = "streaming" /\ pc = "requested"
      BY <1>4 DEF StartOver, Created
    <2>2. FailuresLeft' = 0
      BY <2>1 DEF FailuresLeft, AllOf
    <2>3. StepsLeft' < StepsLeft
      BY <1>4 DEF StartOver, StepsLeft
    <2> QED
      BY <2>2, <2>3, FailuresTyped, NearerIf
  <1>5. CASE RangeRefused
    <2>1. Len(zip) = Size /\ zip # <<>> /\ pc = "requested"
      BY <1>1, <1>5 DEF RangeRefused, DownloadInv, TypeOK
    <2>2. zip' = <<>> /\ pc' = "idle"
      BY <1>5 DEF RangeRefused, Created, Ends
    <2>3. FailuresLeft = 1 /\ FailuresLeft' = 0
      BY <2>1, <2>2 DEF FailuresLeft
    <2> QED
      BY <2>3 DEF Nearer
  <1>6. CASE ReceivePiece
    <2>1. ASSUME AllOf(body) PROVE AllOf(body)'
      <3>1. /\ Len(zip') = Len(zip) + 1 /\ body' = body
            /\ zip'[Len(zip) + 1] = Piece(body, next)
            /\ \A n \in 1 .. Len(zip) : zip'[n] = zip[n]
        BY <1>6 DEF TypeOK, ReceivePiece
      <3>2. Piece(body, next).release = body
        BY DEF Piece
      <3> QED
        BY <1>1, <2>1, <3>1, <3>2 DEF AllOf
    <2>2. FailuresLeft' <= FailuresLeft
      BY <1>6, <2>1 DEF ReceivePiece, FailuresLeft
    <2>3. StepsLeft' < StepsLeft
      <3>1. next \in Nat /\ next' = next + 1
        BY <1>6 DEF ReceivePiece, TypeOK
      <3>2. StepsLeft = 6 + 2 * NConfigs + 2 * NEntries + (Size + 1 - next)
        BY <1>6 DEF ReceivePiece, StepsLeft
      <3>3. StepsLeft' = 6 + 2 * NConfigs + 2 * NEntries + (Size + 1 - next')
        BY <1>6 DEF ReceivePiece, StepsLeft
      <3> QED
        BY <3>1, <3>2, <3>3
    <2> QED
      BY <2>2, <2>3, NearerIf
  <1>7. CASE Downloaded
    <2>1. next = Size + 1 /\ Len(zip) = Size /\ zip' = zip /\ entry' = 1 /\ body' = body
      BY <1>7 DEF Downloaded, MorePieces, DownloadInv, ExtractInv, TypeOK, disk, locals
    <2>2. ASSUME AllOf(body) PROVE AllOf(Directory)'
      <3>1. Directory = body
        BY <2>1, <2>2 DEF AllOf, Directory, Last
      <3> QED
        BY <2>1, <2>2, <3>1 DEF AllOf, Directory
    <2>3. FailuresLeft' <= FailuresLeft
      BY <1>7, <2>2 DEF Downloaded, FailuresLeft
    <2>4. StepsLeft' < StepsLeft
      <3>1. StepsLeft = 6 + 2 * NConfigs + 2 * NEntries + (Size + 1 - next)
        BY <1>7 DEF Downloaded, StepsLeft
      <3>2. StepsLeft' = 6 + 2 * NConfigs + 2 * (NEntries - entry')
        BY <1>7 DEF Downloaded, StepsLeft
      <3> QED
        BY <2>1, <3>1, <3>2
    <2> QED
      BY <2>3, <2>4, NearerIf
  <1> QED
    BY <1>2, <1>3, <1>4, <1>5, <1>6, <1>7 DEF Download

\* The steps of the extraction.  An entry that cannot be read is of another
\* release than the directory: the complete file that stays behind is refused
\* its range, and emptied.
LEMMA ExtractNearer ==
  ASSUME TypeOK, DownloadInv, PiecesInPlace, CreateFile \/ ExtractEntry \/ BadEntry
  PROVE  Nearer
  <1> USE Sizes, PullAssumption
  <1>1. pc \in {"creating", "reading"} /\ Len(zip) = Size
    BY DEF DownloadInv, CreateFile, ExtractEntry, BadEntry
  <1>2. CASE CreateFile
    <2>1. zip' = zip /\ pc' = "reading" /\ pc = "creating" /\ entry' = entry
      BY <1>2 DEF CreateFile, locals
    <2>2. FailuresLeft' = FailuresLeft
      BY <2>1 DEF FailuresLeft, AllOf, Directory
    <2>3. StepsLeft' < StepsLeft
      <3>1. StepsLeft = 6 + 2 * NConfigs + 2 * (NEntries - entry)
        BY <2>1 DEF StepsLeft
      <3>2. StepsLeft' = 5 + 2 * NConfigs + 2 * (NEntries - entry)
        BY <2>1 DEF StepsLeft
      <3>3. entry \in Nat
        BY DEF TypeOK
      <3> QED
        BY <3>1, <3>2, <3>3
    <2> QED
      BY <2>2, <2>3 DEF Nearer
  <1>3. CASE ExtractEntry
    <2>1. zip' = zip /\ pc = "reading" /\ pc' \in {"creating", "locating"}
      BY <1>3 DEF ExtractEntry
    <2>2. AllOf(Directory)' <=> AllOf(Directory)
      BY <2>1 DEF AllOf, Directory
    <2>3. FailuresLeft' <= FailuresLeft
      BY <2>1, <2>2 DEF FailuresLeft
    <2>4. StepsLeft' < StepsLeft
      <3>1. StepsLeft = 5 + 2 * NConfigs + 2 * (NEntries - entry) /\ entry \in Nat
        BY <2>1 DEF StepsLeft, TypeOK
      <3>2. CASE entry < NEntries
        <4>1. pc' = "creating" /\ entry' = entry + 1
          BY <1>3, <3>2 DEF ExtractEntry
        <4>2. StepsLeft' = 6 + 2 * NConfigs + 2 * (NEntries - entry')
          BY <4>1 DEF StepsLeft
        <4> QED
          BY <3>1, <4>1, <4>2
      <3>3. CASE ~(entry < NEntries)
        <4>1. entry = NEntries /\ pc' = "locating"
          BY <1>3, <3>3 DEF ExtractEntry, TypeOK, Entries
        <4>2. StepsLeft' = 4 + 2 * NConfigs
          BY <4>1 DEF StepsLeft
        <4> QED
          BY <3>1, <4>1, <4>2
      <3> QED
        BY <3>2, <3>3
    <2> QED
      BY <2>3, <2>4, NearerIf
  <1>4. CASE BadEntry
    <2>1. ~AllOf(Directory)
      <3> SUFFICES ASSUME AllOf(Directory) PROVE FALSE
        OBVIOUS
      <3>1. entry \in 1 .. Len(zip)
        BY <1>1 DEF TypeOK, Entries, Size
      <3>2. zip[entry] \in Pieces /\ zip[entry].n = entry /\ zip[entry].release = Directory
        BY <3>1 DEF TypeOK, PiecesInPlace, AllOf
      <3>3. zip[entry] = Piece(Directory, entry)
        BY <3>2 DEF Pieces, Piece
      <3> QED
        BY <1>4, <3>3 DEF BadEntry, EntryIntact
    <2>2. FailuresLeft = 2
      BY <1>4, <2>1 DEF BadEntry, FailuresLeft
    <2>3. zip' = zip /\ pc' = "idle" /\ zip # <<>>
      BY <1>1, <1>4 DEF BadEntry, Ends, disk
    <2>4. FailuresLeft' = 1
      BY <1>1, <2>3 DEF FailuresLeft
    <2> QED
      BY <2>2, <2>4 DEF Nearer
  <1> QED
    BY <1>2, <1>3, <1>4

\* The steps behind find_bundle_root.  Only a torn genie_config.json can still
\* end the pull, and no step but a fault leaves one.
LEMMA InstallNearer ==
  ASSUME TypeOK, DownloadInv, PiecesInPlace, LeftoverInv, InstallInv,
         \/ LocateBundle /\ faults' = faults
         \/ SkipPatch \/ BeginPatch \/ EndPatch \/ BeginManifest
  PROVE  Nearer
  <1> USE Sizes, PullAssumption
  <1>1. entry \in Nat /\ NConfigs \in Nat /\ root \in Roots
    BY DEF TypeOK
  <1>2. CASE LocateBundle
    <2>1. pc = "locating" /\ pc' = "patching" /\ entry' = 1
      BY <1>2 DEF LocateBundle
    <2>2. FailuresLeft = 0 /\ FailuresLeft' = 0
      BY <2>1 DEF FailuresLeft
    <2>3. StepsLeft = 4 + 2 * NConfigs /\ StepsLeft' = 4 + 2 * (NConfigs - entry')
      BY <2>1 DEF StepsLeft
    <2> QED
      BY <1>1, <2>1, <2>2, <2>3 DEF Nearer
  <1>3. ASSUME SkipPatch \/ EndPatch
        PROVE  /\ entry <= NConfigs
               /\ \E r \in Releases : bundle'[root'][1] = r
    <2>1. PICK r \in Releases : OfRelease(r)
      BY <1>3 DEF SkipPatch, EndPatch, InstallInv
    <2>2. root' = root /\ 1 \in Entries
      BY <1>3 DEF SkipPatch, EndPatch
    <2>3. CASE SkipPatch
      BY <2>1, <2>2, <2>3 DEF SkipPatch, OfRelease, disk
    <2>4. CASE EndPatch
      <3>1. body = r /\ entry <= NConfigs /\ (entry # 1 => bundle[root][1] = r)
        BY <2>1, <2>2, <2>4 DEF EndPatch, OfRelease
      <3>2. bundle'[root][1] = IF entry = 1 THEN body ELSE bundle[root][1]
        BY <2>2, <2>4 DEF EndPatch, Put, TypeOK
      <3> QED
        BY <2>2, <3>1, <3>2
    <2> QED
      BY <1>3, <2>3, <2>4
  <1>4. CASE SkipPatch \/ EndPatch
    <2>1. FailuresLeft = 0
      BY <1>4 DEF SkipPatch, EndPatch, FailuresLeft
    <2>2. FailuresLeft' = 0
      <3>1. bundle'[root'][1] # "torn"
        BY <1>3, <1>4
      <3>2. pc' \in {"patching", "committing"}
        BY <1>4 DEF SkipPatch, EndPatch, NextConfig
      <3> QED
        BY <3>1, <3>2 DEF FailuresLeft
    <2>3. StepsLeft \in {3 + 2 * (NConfigs - entry), 4 + 2 * (NConfigs - entry)}
      BY <1>4 DEF SkipPatch, EndPatch, StepsLeft
    <2>4. CASE entry < NConfigs
      <3>1. pc' = "patching" /\ entry' = entry + 1
        BY <1>4, <2>4 DEF SkipPatch, EndPatch, NextConfig
      <3>2. StepsLeft' = 4 + 2 * (NConfigs - entry')
        BY <3>1 DEF StepsLeft
      <3> QED
        BY <1>1, <2>1, <2>2, <2>3, <3>1, <3>2 DEF Nearer
    <2>5. CASE ~(entry < NConfigs)
      <3>1. pc' = "committing" /\ entry = NConfigs
        BY <1>1, <1>3, <1>4, <2>5 DEF SkipPatch, EndPatch, NextConfig
      <3>2. StepsLeft' = 2
        BY <3>1 DEF StepsLeft
      <3> QED
        BY <1>1, <2>1, <2>2, <2>3, <3>1, <3>2 DEF Nearer
    <2> QED
      BY <2>4, <2>5
  <1>5. CASE BeginPatch
    <2>1. pc = "patching" /\ pc' = "patch_torn" /\ entry' = entry
      BY <1>5 DEF BeginPatch
    <2>2. FailuresLeft = 0 /\ FailuresLeft' = 0
      BY <2>1 DEF FailuresLeft
    <2>3. /\ StepsLeft = 4 + 2 * (NConfigs - entry)
          /\ StepsLeft' = 3 + 2 * (NConfigs - entry)
      BY <2>1 DEF StepsLeft
    <2> QED
      BY <1>1, <2>2, <2>3 DEF Nearer
  <1>6. CASE BeginManifest
    <2>1. pc = "committing" /\ zip' = zip
      BY <1>6 DEF BeginManifest
    <2>2. CASE bundle[root][1] = "torn"
      <3>1. pc' = "idle" /\ (zip = <<>> \/ Len(zip) = Size)
        BY <1>6, <2>1, <2>2 DEF BeginManifest, Ends, LeftoverInv
      <3>2. FailuresLeft = 2 /\ FailuresLeft' \in {0, 1}
        BY <2>1, <2>2, <3>1 DEF FailuresLeft
      <3> QED
        BY <3>2 DEF Nearer
    <2>3. CASE bundle[root][1] # "torn"
      <3>1. pc' = "writing"
        BY <1>6, <2>3 DEF BeginManifest
      <3>2. FailuresLeft = 0 /\ FailuresLeft' = 0 /\ StepsLeft = 2 /\ StepsLeft' = 1
        BY <2>1, <2>3, <3>1 DEF FailuresLeft, StepsLeft
      <3> QED
        BY <3>2 DEF Nearer
    <2> QED
      BY <2>2, <2>3
  <1> QED
    BY <1>2, <1>4, <1>5, <1>6

\* What `npurun rm` leaves is the empty start of a pull.
LEMMA RemovalNearer ==
  ASSUME RemoveLocal
  PROVE  Nearer
  <1> USE Sizes, PullAssumption
  <1>1. pc = "idle" /\ pc' = "idle" /\ zip' = <<>> /\ manifest # Absent /\ manifest' = Absent
    BY DEF RemoveLocal
  <1>2. FailuresLeft' = 0
    BY <1>1 DEF FailuresLeft
  <1>3. /\ StepsLeft = 9 + 2 * NConfigs + 2 * NEntries + Size + 1
        /\ StepsLeft' = 9 + 2 * NConfigs + 2 * NEntries + Size + 0
    BY <1>1 DEF StepsLeft
  <1>4. StepsLeft' < StepsLeft
    BY <1>3
  <1> QED
    BY <1>2, <1>4, FailuresTyped, NearerIf

\* The safety half of PullsHeal, for any archive and any release left behind: as
\* long as no new fault occurs, a model that is not installed comes nearer with
\* every step.  At most two pulls fail, each in a bounded number of steps.
THEOREM StepsHealModel ==
  ASSUME OneRoot
  PROVE  Spec => StepsHeal
  <1> DEFINE Inv == TypeOK /\ DownloadInv /\ PiecesInPlace
  <1> DEFINE Inst == ExtractInv /\ RootsInv /\ InstallInv /\ LeftoverInv
  <1>1. Spec => []Inv
    BY DownloadCorrect
  <1>2. Init => Inst
    BY DEF Init, NoBundle, ExtractInv, RootsInv, InstallInv, LeftoverInv
  <1>3. Inv /\ Inst /\ [Next]_vars => Inst'
    BY OneRoot, ExtractStep, RootsStep, InstallStep, LeftoverStep
  <1>4. ASSUME Inv, Inst, Next, ~Installed', faults' = faults
        PROVE  Nearer
    <2>1. ~EndManifest
      <3> SUFFICES ASSUME EndManifest PROVE Installed'
        BY <1>4
      <3>1. PICK r \in Releases : OfRelease(r)
        BY <1>4 DEF EndManifest, InstallInv
      <3>2. manifest'.state = "whole" /\ manifest'.root = root
        BY DEF EndManifest, Written
      <3>3. \A e \in Entries :
              bundle[root][e] = r \/ (e \in Companions /\ bundle[root][e] = "torn")
        BY <3>1 DEF EndManifest, OfRelease
      <3>4. WholeAt(manifest.root, r)'
        BY <3>2, <3>3 DEF EndManifest, WholeAt
      <3> QED
        BY <3>2, <3>4 DEF Installed
    <2>2. ~(StatusError \/ PatchFails \/ Interrupted \/ Republish \/ RemoveLocalInterrupted)
      BY <1>4, PullAssumption
         DEF StatusError, PatchFails, Interrupted, Republish, RemoveLocalInterrupted, Fault,
             TypeOK
    <2>3. CASE StartPull \/ Download
      BY <1>4, <2>3, DownloadNearer
    <2>4. CASE CreateFile \/ ExtractEntry \/ BadEntry
      BY <1>4, <2>4, ExtractNearer
    <2>5. CASE LocateBundle \/ SkipPatch \/ BeginPatch \/ EndPatch \/ BeginManifest
      BY <1>4, <2>5, InstallNearer
    <2>6. CASE RemoveLocal
      BY <2>6, RemovalNearer
    <2> QED
      BY <1>4, <2>1, <2>2, <2>3, <2>4, <2>5, <2>6 DEF Next, Install, Environment
  <1>5. Inv /\ Inst /\ [Next]_vars =>
          [~Installed /\ ~Installed' /\ faults' = faults =>
             \/ FailuresLeft' < FailuresLeft
             \/ FailuresLeft' = FailuresLeft /\ StepsLeft' < StepsLeft]_vars
    BY <1>4 DEF Nearer
  <1> HIDE DEF Inv, Inst
  <1> QED
    BY <1>1, <1>2, <1>3, <1>5, PTL DEF Spec, StepsHeal

=============================================================================
