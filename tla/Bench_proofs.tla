---------------------------- MODULE Bench_proofs -----------------------------
(***************************************************************************)
(* The load of a bundle, for any contents of the model directory, any      *)
(* tiers, and a directory that is replaced at every step.  LoadInv says    *)
(* what the process holds at each step of the load: the three properties   *)
(* are about its ends, and hold there because of the steps before.         *)
(***************************************************************************)
EXTENDS Bench, InductionLemmas, TLAPS

Before == {"idle", "failed", "precheck", "load", "manifest", "open", "chdir"}
After  == {"loaded", "next", "query", "reset", "row", "drop"}

\* The handles.
HandlesInv ==
  /\ pc \in Before \cup {"create_config"} => ~config /\ dialog = NoConfig
  /\ pc = "create_dialog" => config /\ dialog = NoConfig
  /\ pc = "restore" => (config <=> dialog # NoConfig)
  /\ pc \in After => config /\ dialog # NoConfig
  /\ pc = "free" => config /\ dialog = NoConfig

\* The working directory.
CwdInv ==
  /\ pc \in {"create_config", "create_dialog", "restore"} =>
       cwd = "bundle" /\ (~lost => prev = "home")
  /\ pc \notin {"create_config", "create_dialog", "restore"} /\ ~lost => cwd = "home"

\* The configuration in memory is the one that --ctx was pinned in.
IsPinned(c) == c \in Configs /\ c.size = ctx /\ ctx \in c.tiers
TierInv ==
  /\ pc \in {"chdir", "create_config", "create_dialog"} /\ ctx # NoTier => IsPinned(json)
  /\ pc = "create_dialog" => json \in Configs
  /\ dialog # NoConfig /\ ctx # NoTier => IsPinned(dialog)

LoadInv == LoadTypeOK(Steps) /\ HandlesInv /\ CwdInv /\ TierInv

-----------------------------------------------------------------------------
\* The kinds of configurations are apart.
LEMMA ConfigKinds ==
  /\ NoConfig \notin Configs /\ NotJson \notin Configs /\ NoConfig # NotJson
  /\ \A c \in Configs : c.file = "json"
  /\ NoConfig.file # "json" /\ NotJson.file # "json"
  BY DEF NoConfig, NotJson, Configs

\* What a directory holds.
LEMMA DiskTypes ==
  ASSUME disk \in Disks, disk.there
  PROVE  disk.config \in Configs \cup {NoConfig, NotJson}
  BY LoadAssumption DEF Gone

\* A configuration that a tier can be pinned in, once it is.
LEMMA PinnedTypes ==
  ASSUME NEW c \in Configs \cup {NoConfig, NotJson}, NEW t \in Tiers, Pinnable(c, t)
  PROVE  Pinned(c, t) \in Configs /\ Pinned(c, t).size = t /\ t \in Pinned(c, t).tiers
<1>1. c \in Configs BY ConfigKinds DEF Pinnable
<1> QED BY <1>1 DEF Pinned, Pinnable, Configs

\* Steps that leave the load alone keep what it has established.
LEMMA AfterLoad ==
  ASSUME LoadInv, AtLoad, pc \in After, pc' \in After
  PROVE  LoadInv'
  BY DEF LoadInv, AtLoad, LoadTypeOK, HandlesInv, CwdInv, TierInv, IsPinned, After, Before,
         Steps, LoadSteps, process, where, handles

\* Every step of the load keeps what the process holds: a handle freed on the
\* way out, the directory restored, and the tier still pinned.
LEMMA LoadKeepsInv == LoadInv /\ Load => LoadInv'
<1> SUFFICES ASSUME LoadInv, LoadNext("loaded") PROVE LoadInv'
  BY DEF Load
<1> USE DEF LoadInv, LoadTypeOK, HandlesInv, CwdInv, TierInv, IsPinned, After, Before,
            Steps, LoadSteps, process, where, handles, Goto, Fail, Proceed
<1>1. CASE Start BY <1>1 DEF Start
<1>2. CASE Precheck BY <1>2 DEF Precheck
<1>3. CASE CheckDir BY <1>3 DEF CheckDir
<1>4. CASE ReadManifest BY <1>4 DEF ReadManifest
<1>5. CASE ReadConfig BY <1>5, DiskTypes DEF ReadConfig
<1>6. CASE PinTier BY <1>6, DiskTypes, PinnedTypes DEF PinTier
<1>7. CASE Chdir BY <1>7 DEF Chdir
<1>8. CASE ChdirFails BY <1>8 DEF ChdirFails
<1>9. CASE CreateConfig BY <1>9, ConfigKinds DEF CreateConfig
<1>10. CASE CreateConfigFails BY <1>10 DEF CreateConfigFails
<1>11. CASE CreateDialog BY <1>11, ConfigKinds DEF CreateDialog
<1>12. CASE CreateDialogFails BY <1>12 DEF CreateDialogFails, AfterDialogFailure
<1>13. CASE Restore("loaded") BY <1>13 DEF Restore, RestoredCwd
<1>14. CASE Replace BY <1>14 DEF Replace
<1> QED BY <1>1, <1>2, <1>3, <1>4, <1>5, <1>6, <1>7, <1>8, <1>9, <1>10, <1>11, <1>12,
           <1>13, <1>14 DEF LoadNext

\* Measuring a prompt touches neither handles, directory nor configuration.
LEMMA MeasureKeepsInv == LoadInv /\ Measure => LoadInv'
<1> SUFFICES ASSUME LoadInv, Measure PROVE LoadInv'
  OBVIOUS
<1>1. AtLoad /\ pc \in After /\ pc' \in After
  BY DEF Measure, OpenCsv, NoCsv, OpenCsvFails, StartQuery, WindowOver, QueryReturns,
         QueryEnds, Reset, ResetFails, WriteRow, WriteFails, Leave, Goto, After
<1> QED BY <1>1, AfterLoad

\* Leaving, by an error or a kill, drops the dialog before its configuration.
LEMMA ExitKeepsInv == LoadInv /\ Exit => LoadInv'
<1> SUFFICES ASSUME LoadInv, Exit PROVE LoadInv'
  OBVIOUS
<1> USE DEF LoadInv, LoadTypeOK, HandlesInv, CwdInv, TierInv, IsPinned, After, Before,
            Steps, LoadSteps, process, where, handles, Goto, Fresh
<1>1. CASE FreeDialog BY <1>1 DEF FreeDialog
<1>2. CASE FreeConfig BY <1>2 DEF FreeConfig
<1>3. CASE ExitWithError BY <1>3 DEF ExitWithError
<1>4. CASE Killed BY <1>4 DEF Killed
<1> QED BY <1>1, <1>2, <1>3, <1>4 DEF Exit

\* Engine::load keeps handles, working directory and pinned tier in step at
\* every point of the load, for any model directories and any tiers.
THEOREM LoadInvariant == Spec => []LoadInv
<1>1. Init => LoadInv
  BY DEF Init, LoadInit, LoadInv, LoadTypeOK, HandlesInv, CwdInv, TierInv, After, Before, Steps,
         LoadSteps
<1>2. LoadInv /\ [Next]_vars => LoadInv'
  <2>1. CASE Next BY <2>1, LoadKeepsInv, MeasureKeepsInv, ExitKeepsInv DEF Next
  <2>2. LoadInv /\ UNCHANGED vars => LoadInv'
    BY DEF vars, loadVars, LoadInv, LoadTypeOK, HandlesInv, CwdInv, TierInv, IsPinned, process,
           where, handles
  <2> QED BY <2>1, <2>2, LoadKeepsInv, MeasureKeepsInv, ExitKeepsInv DEF Next
<1> QED BY <1>1, <1>2, PTL DEF Spec

-----------------------------------------------------------------------------
\* A dialog never outlives its configuration, and no exit leaks one.
THEOREM HandlesAreNested == Spec => []HandlesNest
<1>1. LoadInv => HandlesNest
  BY DEF LoadInv, LoadTypeOK, HandlesInv, HandlesNest, After, Before, Steps, LoadSteps
<1> QED BY <1>1, LoadInvariant, PTL

\* Every way out of the load restores the working directory that was there.
THEOREM CwdIsRestored == Spec => []CwdRestored
<1>1. LoadInv => CwdRestored
  BY DEF LoadInv, CwdInv, CwdRestored
<1> QED BY <1>1, LoadInvariant, PTL

\* With --ctx, Genie gets that tier, from a bundle that has it.
THEOREM TierIsTheOneAsked == Spec => []TierIsPinned
<1>1. LoadInv => TierIsPinned
  <2>1. \A t \in Tiers : PrecheckRefuses(disk, t) => ~Pinnable(disk.config, t)
    BY DEF PrecheckRefuses, AvailableCtxTiers, Pinnable
  <2> QED BY <2>1 DEF LoadInv, TierInv, IsPinned, TierIsPinned
<1> QED BY <1>1, LoadInvariant, PTL

-----------------------------------------------------------------------------
\* The loop and the files.  An open file exists.
LoopInv ==
  /\ stress \in BOOLEAN
  /\ prompt \in 1 .. NPrompts
  /\ repeat \in Nat \ {0}

OutputInv ==
  /\ csv \in [Places -> [exists : BOOLEAN, lines : Seq(Lines)]]
  /\ open \in Places \cup {"none"}
  /\ buffered \in {<<>>, <<Header>>}
  /\ base \in Nat
  /\ cut \in BOOLEAN
  /\ \A d \in Places : ~csv[d].exists => csv[d] = NoFile
  /\ open # "none" => csv[open].exists

\* What a flush leaves in the files: lines are added to the open one only.
LEMMA FlushedTypes ==
  ASSUME OutputInv, NEW extra \in Seq(Lines)
  PROVE  /\ Flushed(extra) \in [Places -> [exists : BOOLEAN, lines : Seq(Lines)]]
         /\ \A d \in Places : Flushed(extra)[d].exists = csv[d].exists
         /\ \A d \in Places : ~csv[d].exists => Flushed(extra)[d] = NoFile
<1>1. CASE open = "none"
  <2>1. Flushed(extra) = csv BY <1>1 DEF Flushed
  <2> QED BY <2>1 DEF OutputInv
<1>2. CASE open # "none"
  <2>1. buffered \in Seq(Lines)
    <3>1. Header \in Lines BY DEF Header, Lines
    <3>2. <<>> \in Seq(Lines) OBVIOUS
    <3>3. <<Header>> \in Seq(Lines) BY <3>1
    <3>4. buffered = <<>> \/ buffered = <<Header>> BY DEF OutputInv
    <3> QED BY <3>2, <3>3, <3>4
  <2>2. csv[open].lines \in Seq(Lines) BY <1>2 DEF OutputInv
  <2>3. csv[open].lines \o buffered \o extra \in Seq(Lines) BY <2>1, <2>2
  <2>4. Flushed(extra) = [csv EXCEPT ![open].lines = csv[open].lines \o buffered \o extra]
    BY <1>2 DEF Flushed, OutputInv
  <2> DEFINE lines == csv[open].lines \o buffered \o extra
             f == [csv EXCEPT ![open].lines = lines]
  <2> HIDE DEF lines
  <2>5. open \in Places /\ csv[open].exists BY <1>2 DEF OutputInv
  <2>6. f \in [Places -> [exists : BOOLEAN, lines : Seq(Lines)]]
    BY <2>3, <2>5 DEF OutputInv, lines
  <2>7. \A d \in Places : f[d].exists = csv[d].exists BY <2>5 DEF OutputInv
  <2>8. \A d \in Places : d # open => f[d] = csv[d] BY <2>5 DEF OutputInv
  <2>9. Flushed(extra) = f BY <2>4 DEF lines
  <2> HIDE DEF f
  <2> QED BY <2>5, <2>6, <2>7, <2>8, <2>9 DEF OutputInv
<1> QED BY <1>1, <1>2

\* The end of run_bench flushes the file and closes it.
LEMMA LeaveKeeps == OutputInv /\ Leave => OutputInv'
<1>1. ASSUME OutputInv PROVE
        /\ Flushed(<<>>) \in [Places -> [exists : BOOLEAN, lines : Seq(Lines)]]
        /\ \A d \in Places : Flushed(<<>>)[d].exists = csv[d].exists
        /\ \A d \in Places : ~csv[d].exists => Flushed(<<>>)[d] = NoFile
  <2>1. <<>> \in Seq(Lines) OBVIOUS
  <2> QED BY <1>1, <2>1, FlushedTypes
<1>2. ASSUME OutputInv, Leave PROVE OutputInv'
  <2>1. csv' = Flushed(<<>>) /\ open' = "none" /\ buffered' = <<>> /\ UNCHANGED <<base, cut>>
    BY <1>2 DEF Leave
  <2>2. csv' \in [Places -> [exists : BOOLEAN, lines : Seq(Lines)]] BY <1>1, <1>2, <2>1
  <2>3. \A d \in Places : ~csv'[d].exists => csv'[d] = NoFile BY <1>1, <1>2, <2>1
  <2> QED BY <1>2, <2>1, <2>2, <2>3 DEF OutputInv
<1> QED BY <1>2

\* Every step leaves files of well-formed lines, open only where they exist.
LEMMA OutputKeeps == LoadInv /\ OutputInv /\ LoopInv /\ [Next]_vars => OutputInv'
<1> SUFFICES ASSUME LoadInv, OutputInv, LoopInv, [Next]_vars PROVE OutputInv'
  OBVIOUS
<1>1. CASE UNCHANGED output BY <1>1 DEF output, OutputInv
<1>2. CASE Leave BY <1>2, LeaveKeeps
<1>3. CASE OpenCsv
  <2>1. cwd \in Places BY DEF LoadInv, LoadTypeOK, Places
  <2>2. csv[cwd].lines \in Seq(Lines) BY <2>1 DEF OutputInv
  <2>3. HeaderFor(cwd) \in {<<>>, <<Header>>} /\ Len(HeaderFor(cwd)) \in Nat
    BY DEF HeaderFor
  <2>4. base' \in Nat BY <1>3, <2>2, <2>3 DEF OpenCsv
  <2> QED BY <1>3, <2>1, <2>3, <2>4 DEF OpenCsv, OutputInv
<1>4. CASE WriteRow
  <2>1. <<Row(prompt, repeat)>> \in Seq(Lines)
    BY BenchAssumption DEF LoopInv, Row, Lines
  <2>2. /\ Flushed(<<Row(prompt, repeat)>>) \in [Places -> [exists : BOOLEAN, lines : Seq(Lines)]]
        /\ \A d \in Places : Flushed(<<Row(prompt, repeat)>>)[d].exists = csv[d].exists
        /\ \A d \in Places : ~csv[d].exists => Flushed(<<Row(prompt, repeat)>>)[d] = NoFile
    BY <2>1, FlushedTypes
  <2> QED BY <1>4, <2>2 DEF WriteRow, OutputInv
<1>5. CASE WriteFails
  BY <1>2, <1>5 DEF WriteFails, OutputInv
<1>6. CASE Exit
  <2>1. CASE FreeDialog BY <1>1, <2>1 DEF FreeDialog
  <2>2. CASE FreeConfig \/ ExitWithError \/ Killed
    <3>1. csv' = csv /\ base' = 0 /\ cut' \in BOOLEAN
          /\ \/ open' = open /\ buffered' = buffered
             \/ open' = "none" /\ buffered' = <<>>
      BY <2>2 DEF FreeConfig, ExitWithError, Killed, Fresh, OutputInv
    <3> QED BY <3>1 DEF OutputInv
  <2> QED BY <1>6, <2>1, <2>2 DEF Exit
<1>7. CASE UNCHANGED vars BY <1>1, <1>7 DEF vars
<1> QED BY <1>1, <1>2, <1>3, <1>4, <1>5, <1>6, <1>7
        DEF Next, Load, Measure, NoCsv, OpenCsvFails, StartQuery, WindowOver, QueryReturns,
            QueryEnds, Reset, ResetFails

\* The prompt and the repeat of the loop stay in their ranges.
LEMMA LoopKeeps == LoopInv /\ [Next]_vars => LoopInv'
<1> SUFFICES ASSUME LoopInv, [Next]_vars PROVE LoopInv'
  OBVIOUS
<1>1. CASE UNCHANGED loop BY <1>1 DEF loop, LoopInv
<1>2. CASE WriteRow
  <2>1. prompt \in 1 .. NPrompts /\ NPrompts \in Nat /\ NPrompts > 0
    BY BenchAssumption DEF LoopInv
  <2>2. prompt % NPrompts \in 0 .. NPrompts - 1 BY <2>1
  <2>3. (prompt % NPrompts) + 1 \in 1 .. NPrompts BY <2>1, <2>2
  <2> QED BY <1>2, <2>3 DEF WriteRow, Advance, NextRepeat, LoopInv
<1>3. CASE Exit
  <2>1. CASE FreeDialog BY <1>1, <2>1 DEF FreeDialog
  <2>2. CASE FreeConfig \/ ExitWithError \/ Killed
    <3>1. stress' \in BOOLEAN /\ prompt' = 1 /\ repeat' = 1
      BY <2>2 DEF FreeConfig, ExitWithError, Killed, Fresh
    <3> QED BY <3>1, BenchAssumption DEF LoopInv
  <2> QED BY <1>3, <2>1, <2>2 DEF Exit
<1>4. CASE UNCHANGED vars BY <1>1, <1>4 DEF vars
<1> QED BY <1>1, <1>2, <1>3, <1>4
        DEF Next, Load, Measure, OpenCsv, NoCsv, OpenCsvFails, StartQuery, WindowOver,
            QueryReturns, QueryEnds, Reset, ResetFails, WriteFails

\* What every later proof may assume of a state.
Typed == LoadInv /\ OutputInv /\ LoopInv

\* Every behaviour keeps its types.
LEMMA BenchTyped == Spec => []Typed
<1>1. Init => OutputInv /\ LoopInv
  <2>1. NoFile \in [exists : BOOLEAN, lines : Seq(Lines)] BY DEF NoFile
  <2>2. Init => LoopInv BY BenchAssumption DEF Init, LoopInv
  <2>3. ASSUME Init PROVE OutputInv
    <3>1. csv \in [Places -> [exists : BOOLEAN, lines : Seq(Lines)]] BY <2>1, <2>3 DEF Init
    <3>2. \A d \in Places : csv[d] = NoFile BY <2>3 DEF Init
    <3> QED BY <2>3, <3>1, <3>2 DEF Init, OutputInv
  <2> QED BY <2>2, <2>3
<1>2. LoadInv /\ OutputInv /\ LoopInv /\ [Next]_vars => OutputInv' /\ LoopInv'
  BY OutputKeeps, LoopKeeps
<1>3. LoadInv /\ OutputInv /\ LoopInv => Typed
  BY DEF Typed
<1> QED BY <1>1, <1>2, <1>3, LoadInvariant, PTL DEF Spec

\* The process, its loop and its files are well-formed.
THEOREM BenchTypeCorrect == Spec => []TypeOK
<1>1. Typed => TypeOK
  BY DEF Typed, LoadInv, OutputInv, LoopInv, TypeOK
<1> QED BY <1>1, BenchTyped, PTL

-----------------------------------------------------------------------------
\* Walking a path that the checks accept never leaves the model directory: the
\* depth is a recursive function, and every component goes down or stays.
LEMMA AcceptedStaysBelow ==
  ASSUME NEW p \in Seq(Components), CheckSafeRelpath(p)
  PROVE  Below(p) >= 0
<1> DEFINE n == Len(p)
           Depth(i, d) == IF d < 0 \/ p[i] \in {"root", "prefix"} THEN -1
                          ELSE CASE p[i] = "normal" -> d + 1
                                 [] p[i] = "parent" -> d - 1
                                 [] OTHER -> d
           Solves(f) == f = [i \in 0 .. n |-> IF i = 0 THEN 0 ELSE Depth(i, f[i - 1])]
           step == [i \in 1 .. n |-> [d \in Nat |-> Depth(i, d)]]
<1>1. n \in Nat OBVIOUS
<1>2. \A i \in 1 .. n, d \in Nat : Depth(i, d) \in Nat
  BY DEF CheckSafeRelpath
<1> HIDE DEF n, Depth
<1>3. MapsInto(step, n, Nat) BY <1>2 DEF MapsInto
<1>4. \A i \in 1 .. n, d \in Nat : step[i][d] = Depth(i, d) OBVIOUS
<1> HIDE DEF step
<1>5. PICK f : Iterates(f, 0, step, n, Nat)
  <2>1. 0 \in Nat OBVIOUS
  <2> QED BY ONLY <1>1, <1>3, <2>1, RecursionExists
<1>6. Solves(f)
  <2>1. \A i \in 1 .. n : i - 1 \in 0 .. n BY <1>1
  <2>2. \A i \in 1 .. n : f[i] = Depth(i, f[i - 1]) BY <1>4, <1>5, <2>1 DEF Iterates
  <2>3. \A i \in 0 .. n : f[i] = IF i = 0 THEN 0 ELSE Depth(i, f[i - 1])
    BY <1>1, <1>5, <2>2 DEF Iterates
  <2> QED BY <1>5, <2>3 DEF Iterates
<1> DEFINE depth == CHOOSE g : Solves(g)
<1>7. Solves(depth) BY <1>6
<1>8. Below(p) = depth[n] BY DEF Below, Depth, n
<1> HIDE DEF depth
<1>9. \A i \in 0 .. n : depth[i] \in Nat
  <2> DEFINE S == {i \in 0 .. n : depth[i] \in Nat}
  <2>1. 0 \in S BY <1>1, <1>7
  <2>2. ASSUME NEW i \in 0 .. n - 1, i \in S PROVE i + 1 \in S
    <3>1. i + 1 \in 1 .. n /\ (i + 1) - 1 = i BY <1>1
    <3>2. depth[i + 1] = Depth(i + 1, depth[i]) BY <1>1, <1>7, <3>1
    <3>3. depth[i + 1] \in Nat BY <1>2, <2>2, <3>1, <3>2
    <3> QED BY <1>1, <3>1, <3>3
  <2> HIDE DEF S
  <2>3. 0 .. n \subseteq S BY <1>1, <2>1, <2>2, UpTo
  <2> QED BY <2>3 DEF S
<1> QED BY <1>1, <1>8, <1>9

\* The path in memory is the one that the manifest was accepted with.
PathInv == path # None => path \in Seq(Components) /\ CheckSafeRelpath(path)

\* No file outside the model directory is opened, whatever its manifest says.
THEOREM PathStaysBelow == Spec => []StaysBelow
<1>1. Init => PathInv BY DEF Init, LoadInit, PathInv
<1>2. LoadInv /\ PathInv /\ [Next]_vars => PathInv'
  <2> SUFFICES ASSUME LoadInv, PathInv, [Next]_vars PROVE PathInv'
    OBVIOUS
  <2>1. CASE UNCHANGED path BY <2>1 DEF PathInv
  <2>2. CASE ReadManifest
    <3>1. CASE UNCHANGED path BY <2>1, <3>1
    <3>2. CASE /\ disk.there /\ Readable(disk.manifest) /\ disk.manifest.genie_config # None
               /\ path' = disk.manifest.genie_config
      <4>1. disk \in Disks \ {Gone} BY <3>2 DEF LoadInv, LoadTypeOK, Gone
      <4>2. disk.manifest.genie_config \in Seq(Components)
        BY <3>2, <4>1, LoadAssumption DEF Readable
      <4>3. CheckSafeRelpath(disk.manifest.genie_config)
        BY <3>2 DEF Readable, Validate
      <4> QED BY <3>2, <4>2, <4>3 DEF PathInv
    <3> QED BY <2>2, <3>1, <3>2 DEF ReadManifest, Fail, process
  <2>3. CASE path' = None BY <2>3 DEF PathInv
  <2> QED
    BY <2>1, <2>2, <2>3
    DEF Next, Load, LoadNext, Start, Precheck, CheckDir, ReadConfig, PinTier, Chdir, ChdirFails,
        CreateConfig, CreateConfigFails, CreateDialog, CreateDialogFails, Restore, Replace,
        Measure, OpenCsv, NoCsv, OpenCsvFails, StartQuery, WindowOver, QueryReturns, QueryEnds,
        Reset, ResetFails, WriteRow, WriteFails, AtLoad, Exit, FreeDialog, FreeConfig,
        ExitWithError, Killed, Fresh, Fail, process, vars, loadVars
<1>3. PathInv => StaysBelow BY AcceptedStaysBelow DEF PathInv, StaysBelow
<1> QED BY <1>1, <1>2, <1>3, LoadInvariant, PTL DEF Spec

-----------------------------------------------------------------------------
\* Division and remainder are unique.  The SMT solver needs the two facts
\* about products that say why.
LEMMA Distribute ==
  ASSUME NEW n \in Nat, NEW a \in Int, NEW b \in Int
  PROVE  (a - b) * n = a * n - b * n
  OBVIOUS

\* A multiple is no less than what is multiplied.
LEMMA Multiple ==
  ASSUME NEW n \in Nat, NEW a \in Nat, a > 0
  PROVE  a * n >= n
  OBVIOUS

\* A quotient and a remainder are those of the division.
LEMMA DivMod ==
  ASSUME NEW n \in Nat \ {0}, NEW q \in Nat, NEW r \in 0 .. n - 1
  PROVE  (q * n + r) % n = r /\ (q * n + r) \div n = q
<1> DEFINE x == q * n + r
           u == x \div n
           v == x % n
<1>1. x \in Nat /\ x = q * n + r OBVIOUS
<1> HIDE DEF x
<1>2. x = u * n + v /\ v \in 0 .. n - 1 /\ u \in Nat BY <1>1
<1> HIDE DEF u, v
<1>3. u * n + v = q * n + r BY <1>1, <1>2
<1>4. u = q
  <2>1. CASE u > q
    <3>1. (u - q) * n = u * n - q * n BY <1>2, Distribute
    <3>2. (u - q) * n >= n BY <1>2, <2>1, Multiple
    <3> QED BY <1>2, <1>3, <3>1, <3>2
  <2>2. CASE u < q
    <3>1. (q - u) * n = q * n - u * n BY <1>2, Distribute
    <3>2. (q - u) * n >= n BY <1>2, <2>2, Multiple
    <3> QED BY <1>2, <1>3, <3>1, <3>2
  <2> QED BY <1>2, <2>1, <2>2
<1> QED BY <1>2, <1>3, <1>4 DEF x, u, v

\* How many rows this process has written, in the order of the loop.
RowsDone == (repeat - 1) * NPrompts + (prompt - 1)
\* The row that comes after k others.
RowAfter(k) == Row((k % NPrompts) + 1, (k \div NPrompts) + 1)

\* What a file holds: a header, or one on its way, and then rows, of which
\* those of this process are the loop's.
FileInv(d) ==
  LET lines == csv[d].lines IN
  /\ csv[d].exists /\ ~cut => \/ lines # <<>> /\ lines[1] = Header
                              \/ open = d /\ buffered = <<Header>>
  /\ \A i \in 2 .. Len(lines) : lines[i] # Header
  /\ open = d => \A i \in base + 1 .. Len(lines) : lines[i] = RowAfter(i - base - 1)

OpenInv ==
  open # "none" => /\ pc \in {"next", "query", "reset", "row"}
                   /\ cwd = open
                   /\ Len(csv[open].lines) + Len(buffered) = base + RowsDone

CsvInv ==
  /\ pc \in LoadSteps \cup {"idle", "loaded"} => prompt = 1 /\ repeat = 1
  /\ OpenInv
  /\ buffered # <<>> => open # "none" /\ csv[open].lines = <<>> /\ base = 1
  /\ \A d \in Places : FileInv(d)

\* Advancing the loop counts one row.
LEMMA AdvanceCounts ==
  ASSUME LoopInv, Advance
  PROVE  RowsDone' = RowsDone + 1
<1> DEFINE n == NPrompts
<1>1. n \in Nat /\ n > 0 /\ prompt \in 1 .. n /\ repeat \in Nat
  BY BenchAssumption DEF LoopInv
<1>2. CASE prompt = n
  <2>1. prompt' = 1 /\ repeat' = repeat + 1
    <3>1. prompt = 1 * n + 0 BY <1>1, <1>2
    <3>2. 0 \in 0 .. n - 1 /\ 1 \in Nat /\ n \in Nat \ {0} BY <1>1
    <3>3. prompt % n = 0 BY <3>1, <3>2, DivMod
    <3> QED BY <3>3, <1>2 DEF Advance, NextRepeat
  <2>2. repeat * n = (repeat - 1) * n + n BY <1>1
  <2> QED BY <1>1, <1>2, <2>1, <2>2 DEF RowsDone
<1>3. CASE prompt # n
  <2>1. prompt \in 0 .. n - 1 BY <1>1, <1>3
  <2>2. prompt % n = prompt BY <1>1, <2>1
  <2>3. prompt' = prompt + 1 /\ repeat' = repeat BY <1>3, <2>2 DEF Advance, NextRepeat
  <2> QED BY <1>1, <2>3 DEF RowsDone
<1> QED BY <1>2, <1>3

\* The row to be written is the one that comes after RowsDone others.
LEMMA RowIsNext ==
  ASSUME LoopInv
  PROVE  /\ RowsDone \in Nat
         /\ RowAfter(RowsDone) = Row(prompt, repeat)
<1> DEFINE n == NPrompts
<1>1. n \in Nat \ {0} /\ prompt - 1 \in 0 .. n - 1 /\ repeat - 1 \in Nat
  BY BenchAssumption DEF LoopInv
<1>2. RowsDone % n = prompt - 1 /\ RowsDone \div n = repeat - 1
  BY <1>1, DivMod DEF RowsDone
<1>3. RowsDone \in Nat BY <1>1 DEF RowsDone
<1> QED BY <1>1, <1>2, <1>3 DEF LoopInv, RowAfter
\* Closing the file, whether its buffer reaches it or not, leaves well-formed
\* files.
LEMMA LeaveKeepsCsv ==
  ASSUME Typed, CsvInv, Leave
  PROVE  \A d \in Places : FileInv(d)'
<1> SUFFICES ASSUME NEW d \in Places PROVE FileInv(d)'
  OBVIOUS
<1>1. open' = "none" /\ buffered' = <<>> /\ cut' = cut /\ base' = base /\ csv' = Flushed(<<>>)
  BY DEF Leave
<1>2. CASE open # d
  <2>1. csv'[d] = csv[d]
    BY <1>1, <1>2 DEF Flushed, Typed, OutputInv
  <2> QED BY <1>1, <1>2, <2>1 DEF FileInv, CsvInv, Places
<1>3. CASE open = d
  <2> DEFINE lines == csv[d].lines
  <2>1. csv'[d].lines = lines \o buffered \o <<>> /\ csv'[d].exists
    BY <1>1, <1>3 DEF Flushed, Typed, OutputInv, Places
  <2>2. CASE buffered = <<>>
    <3>1. lines \in Seq(Lines) BY DEF Typed, OutputInv
    <3>2. csv'[d].lines = lines BY <2>1, <2>2, <3>1
    <3>3. csv[d].exists BY <1>3 DEF Typed, OutputInv, Places
    <3> QED BY <1>1, <1>3, <2>1, <2>2, <3>2, <3>3 DEF FileInv, CsvInv
  <2>3. CASE buffered # <<>>
    <3>1. buffered = <<Header>> /\ lines = <<>> BY <1>3, <2>3 DEF Typed, OutputInv, CsvInv
    <3>2. csv'[d].lines = <<Header>> BY <2>1, <3>1
    <3> QED BY <1>1, <1>3, <3>2 DEF FileInv, Places
  <2> QED BY <2>2, <2>3
<1> QED BY <1>2, <1>3

\* Writing a row keeps the files well-formed and the count.
LEMMA WriteRowKeepsCsv ==
  ASSUME Typed, CsvInv, WriteRow
  PROVE  CsvInv'
<1> DEFINE row == Row(prompt, repeat)
           lines == csv[open].lines
<1>1. /\ pc = "row" /\ csv' = Flushed(<<row>>) /\ buffered' = <<>> /\ base' = base /\ cut' = cut
      /\ open' \in {open, "none"} /\ pc' \in {"drop", "next"}
      /\ open' # "none" => pc' = "next" 
      /\ cwd' = cwd /\ Advance
  BY DEF WriteRow, Goto, AtLoad, where
<1>2. RowsDone' = RowsDone + 1 BY <1>1, AdvanceCounts DEF Typed
<1>3. row = RowAfter(RowsDone) /\ RowsDone \in Nat
  BY RowIsNext DEF Typed
<1>4. row \in Lines /\ row # Header
  BY BenchAssumption DEF Typed, LoopInv, Row, Lines, Header
<1>5. CASE open = "none"
  <2>1. csv' = csv /\ open' = "none" BY <1>1, <1>5 DEF Flushed
  <2> QED BY <1>1, <1>5, <2>1 DEF CsvInv, OpenInv, FileInv, LoadSteps, Typed, OutputInv, Places
<1>6. CASE open # "none"
  <2>1. open \in Places /\ lines \in Seq(Lines) /\ base \in Nat
    BY <1>6 DEF Typed, OutputInv
  <2>2. /\ csv'[open].lines = lines \o buffered \o <<row>>
        /\ \A d \in Places : d # open => csv'[d] = csv[d]
    BY <1>1, <1>6, <2>1 DEF Flushed, Typed, OutputInv
  <2>3. Len(lines) + Len(buffered) = base + RowsDone BY <1>6 DEF CsvInv, OpenInv
  <2> DEFINE now == lines \o buffered
             new == now \o <<row>>
  <2>4. /\ now \in Seq(Lines) /\ Len(now) = base + RowsDone
        /\ \A i \in 2 .. Len(now) : now[i] # Header
        /\ ~cut => now # <<>> /\ now[1] = Header
        /\ \A i \in base + 1 .. Len(now) :
             now[i] = RowAfter(i - base - 1)
    <3>1. CASE buffered = <<>>
      <4>1. now = lines BY <2>1, <3>1
      <4>2. Len(now) = base + RowsDone BY <2>3, <3>1, <4>1
      <4>3. csv[open].exists BY <1>6 DEF Typed, OutputInv
      <4> QED BY <2>1, <3>1, <4>1, <4>2, <4>3 DEF CsvInv, FileInv
    <3>2. CASE buffered # <<>>
      <4>1. buffered = <<Header>> /\ lines = <<>> BY <3>2 DEF Typed, OutputInv, CsvInv
      <4>2. now = <<Header>> BY <4>1
      <4>3. Header \in Lines BY DEF Header, Lines
      <4>4. base + RowsDone = 1 BY <2>3, <4>1
      <4>5. \A i \in base + 1 .. Len(now) : FALSE
        <5>1. base = 1 BY <3>2 DEF CsvInv
        <5> QED BY <4>2, <5>1
      <4> QED BY <4>2, <4>3, <4>4, <4>5
    <3> QED BY <3>1, <3>2
  <2> HIDE DEF now
  <2>5. /\ new \in Seq(Lines) /\ Len(new) = Len(now) + 1 /\ new[Len(now) + 1] = row
        /\ \A i \in 1 .. Len(now) : new[i] = now[i]
    BY <2>4, <1>4
  <2> HIDE DEF new
  <2>6. csv'[open].lines = new BY <2>2 DEF new, now
  <2>7. /\ \A i \in 2 .. Len(new) : new[i] # Header
        /\ ~cut => new # <<>> /\ new[1] = Header
    <3>1. \A i \in 2 .. Len(new) : i <= Len(now) \/ i = Len(now) + 1 BY <2>4, <2>5
    <3>2. now # <<>> => Len(now) >= 1 BY <2>4
    <3> QED BY <1>4, <2>4, <2>5, <3>1, <3>2
  <2>8. \A i \in base + 1 .. Len(new) : new[i] = RowAfter(i - base - 1)
    <3> SUFFICES ASSUME NEW i \in base + 1 .. Len(new) PROVE new[i] = RowAfter(i - base - 1)
      OBVIOUS
    <3>1. CASE i <= Len(now) BY <2>1, <2>4, <2>5, <3>1
    <3>2. CASE i = Len(now) + 1
      <4>1. i - base - 1 = RowsDone BY <2>1, <2>4, <1>3, <3>2
      <4> QED BY <1>3, <2>5, <3>2, <4>1
    <3> QED BY <2>1, <2>4, <2>5, <3>1, <3>2
  <2>9. ASSUME NEW d \in Places PROVE FileInv(d)'
    <3>1. CASE d = open BY <1>1, <2>6, <2>7, <2>8, <3>1 DEF FileInv
    <3>2. CASE d # open
      <4>1. csv'[d] = csv[d] /\ open' # d BY <1>1, <2>2, <3>2 DEF Places
      <4> QED BY <1>1, <4>1, <3>2 DEF FileInv, CsvInv
    <3> QED BY <3>1, <3>2
  <2>10. OpenInv'
    <3>1. cwd = open BY <1>6 DEF CsvInv, OpenInv
    <3>2. Len(new) + Len(<<>>) = base + RowsDone'
      BY <1>2, <1>3, <2>1, <2>4, <2>5
    <3> QED BY <1>1, <2>6, <3>1, <3>2 DEF OpenInv
  <2> QED BY <1>1, <2>9, <2>10 DEF CsvInv, LoadSteps
<1> QED BY <1>5, <1>6

\* Opening the file, where the load has left the process.
LEMMA OpenKeepsCsv ==
  ASSUME Typed, CsvInv, OpenCsv
  PROVE  CsvInv'
<1>1. cwd \in Places BY DEF Typed, LoadInv, LoadTypeOK, Places
<1>2. /\ pc = "loaded" /\ open = "none" /\ buffered = <<>> /\ prompt = 1 /\ repeat = 1
  BY DEF OpenCsv, CsvInv, OpenInv
<1>3. /\ csv' = [csv EXCEPT ![cwd].exists = TRUE] /\ open' = cwd /\ cwd' = cwd
      /\ buffered' = HeaderFor(cwd) /\ pc' = "next" /\ cut' = cut
      /\ base' = Len(csv[cwd].lines) + Len(HeaderFor(cwd))
      /\ prompt' = 1 /\ repeat' = 1
  BY <1>2 DEF OpenCsv, Goto, loop, AtLoad, where
<1>4. csv[cwd].lines \in Seq(Lines) /\ (~csv[cwd].exists => csv[cwd].lines = <<>>)
  BY <1>1 DEF Typed, OutputInv, NoFile
<1>5. /\ csv'[cwd].lines = csv[cwd].lines /\ csv'[cwd].exists
      /\ \A d \in Places : d # cwd => csv'[d] = csv[d]
  BY <1>1, <1>3 DEF Typed, OutputInv
<1>6. RowsDone' = 0
  <2>1. 0 * NPrompts = 0 BY BenchAssumption
  <2> QED BY <1>3, <2>1 DEF RowsDone
<1>7. OpenInv' BY <1>3, <1>4, <1>5, <1>6 DEF OpenInv, HeaderFor
<1>8. buffered' # <<>> => csv'[cwd].lines = <<>> /\ base' = 1
  <2>1. CASE csv[cwd].exists BY <1>3, <2>1 DEF HeaderFor
  <2>2. CASE ~csv[cwd].exists
    <3>1. HeaderFor(cwd) = <<Header>> BY <2>2 DEF HeaderFor
    <3>2. Len(<<Header>>) = 1 /\ Len(csv[cwd].lines) = 0 BY <1>4, <2>2
    <3> QED BY <1>3, <1>4, <1>5, <2>2, <3>1, <3>2
  <2> QED BY <2>1, <2>2
<1>9. ASSUME NEW d \in Places PROVE FileInv(d)'
  <2>1. CASE d = cwd
    <3>1. \A i \in base' + 1 .. Len(csv[cwd].lines) : FALSE
      <4>1. Len(HeaderFor(cwd)) \in Nat BY DEF HeaderFor
      <4> QED BY <1>3, <1>4, <4>1
    <3>2. ~csv[cwd].exists => buffered' = <<Header>> BY <1>3 DEF HeaderFor
    <3> QED BY <1>2, <1>3, <1>5, <2>1, <3>1, <3>2 DEF FileInv, CsvInv
  <2>2. CASE d # cwd BY <1>2, <1>3, <1>5, <2>2 DEF FileInv, CsvInv
  <2> QED BY <2>1, <2>2
<1> QED BY <1>1, <1>3, <1>7, <1>8, <1>9 DEF CsvInv, LoadSteps, Places

\* Steps that leave the files alone, with none open.
LEMMA ClosedKeepsCsv ==
  ASSUME CsvInv, open = "none", UNCHANGED <<csv, open, buffered>>,
         cut => cut', cut \in BOOLEAN, cut' \in BOOLEAN,
         pc' \in LoadSteps \cup {"idle", "loaded"} => prompt' = 1 /\ repeat' = 1
  PROVE  CsvInv'
<1>1. ASSUME NEW d \in Places PROVE FileInv(d)'
  <2>1. FileInv(d) BY DEF CsvInv
  <2> QED BY <2>1 DEF FileInv, Places
<1> QED BY <1>1 DEF CsvInv, OpenInv
\* Steps that leave files, loop and directory alone, with the file open or not.
LEMMA LoopStepKeepsCsv ==
  ASSUME CsvInv, UNCHANGED <<output, prompt, repeat, cwd>>,
         open # "none" => pc' \in {"next", "query", "reset", "row"},
         pc' \in LoadSteps \cup {"idle", "loaded"} => pc \in LoadSteps \cup {"idle", "loaded"}
  PROVE  CsvInv'
<1>1. ASSUME NEW d \in Places PROVE FileInv(d)'
  <2>1. FileInv(d) BY DEF CsvInv
  <2> QED BY <2>1 DEF FileInv, output
<1> QED BY <1>1 DEF CsvInv, OpenInv, RowsDone, output

\* Every step keeps what the files are.
LEMMA CsvKeeps == Typed /\ CsvInv /\ [Next]_vars => CsvInv'
<1> SUFFICES ASSUME Typed, CsvInv, [Next]_vars PROVE CsvInv'
  OBVIOUS
<1>1. CASE Load
  <2>1. open = "none" BY <1>1
    DEF CsvInv, OpenInv, Load, LoadNext, Start, Precheck, CheckDir, ReadManifest, ReadConfig,
        PinTier, Chdir, ChdirFails, CreateConfig, CreateConfigFails, CreateDialog,
        CreateDialogFails, Restore, Replace, LoadSteps
  <2>2. pc \in LoadSteps \cup {"idle", "loaded"} BY <1>1
    DEF Load, LoadNext, Start, Precheck, CheckDir, ReadManifest, ReadConfig,
        PinTier, Chdir, ChdirFails, CreateConfig, CreateConfigFails, CreateDialog,
        CreateDialogFails, Restore, Replace, LoadSteps
  <2>3. UNCHANGED <<loop, output>> BY <1>1 DEF Load
  <2> QED BY <2>1, <2>2, <2>3, ClosedKeepsCsv DEF loop, output, CsvInv, Typed, OutputInv
<1>2. CASE OpenCsv BY <1>2, OpenKeepsCsv
<1>3. CASE NoCsv \/ OpenCsvFails
  <2>1. open = "none" /\ UNCHANGED <<loop, output>> /\ pc' \in {"next", "drop"}
    BY <1>3 DEF NoCsv, OpenCsvFails, CsvInv, OpenInv, Goto
  <2> QED BY <2>1, ClosedKeepsCsv DEF loop, output, CsvInv, Typed, OutputInv, LoadSteps
<1>4. CASE StartQuery \/ QueryReturns \/ Reset
  <2>1. /\ UNCHANGED <<output, prompt, repeat, cwd>>
        /\ pc' \in {"query", "reset", "row"}
    BY <1>4 DEF StartQuery, QueryReturns, Reset, Goto, loop, AtLoad, where
  <2> QED BY <2>1, LoopStepKeepsCsv DEF LoadSteps
<1>5. CASE Leave
  <2>1. \A d \in Places : FileInv(d)' BY <1>5, LeaveKeepsCsv
  <2> QED BY <1>5, <2>1 DEF Leave, Goto, CsvInv, OpenInv, LoadSteps
<1>6. CASE WriteRow BY <1>6, WriteRowKeepsCsv
<1>7. CASE WriteFails
  <2>1. CASE ~Leave
    <3>1. /\ pc' = "drop" /\ open' = "none" /\ buffered' = <<>> /\ UNCHANGED <<csv, base>>
          /\ cut' = (cut \/ buffered # <<>>)
      BY <1>7, <2>1 DEF WriteFails, Goto
    <3>2. ASSUME NEW d \in Places PROVE FileInv(d)'
      <4>1. FileInv(d) BY DEF CsvInv
      <4>2. ~cut' => ~cut /\ buffered = <<>> BY <3>1, Zenon
      <4>3. csv' = csv /\ open' # d BY <3>1 DEF Places
      <4>4. buffered = <<>> => buffered # <<Header>> OBVIOUS
      <4> QED BY <4>1, <4>2, <4>3, <4>4 DEF FileInv
    <3> QED BY <3>1, <3>2 DEF CsvInv, OpenInv, LoadSteps
  <2> QED BY <1>5, <2>1
<1>8. CASE FreeDialog
  <2>1. open = "none" /\ UNCHANGED <<loop, output>> /\ pc' = "free"
    BY <1>8 DEF FreeDialog, CsvInv, OpenInv, Goto
  <2> QED BY <2>1, ClosedKeepsCsv DEF loop, output, CsvInv, Typed, OutputInv, LoadSteps
<1>9. CASE FreeConfig \/ ExitWithError
  <2>1. open = "none" /\ UNCHANGED <<csv, open, buffered, cut>> /\ prompt' = 1 /\ repeat' = 1
    BY <1>9 DEF FreeConfig, ExitWithError, Fresh, CsvInv, OpenInv
  <2> QED BY <2>1, ClosedKeepsCsv DEF Typed, OutputInv
<1>10. CASE Killed
  <2>1. /\ open' = "none" /\ buffered' = <<>> /\ csv' = csv /\ prompt' = 1 /\ repeat' = 1
        /\ cut' = (cut \/ buffered # <<>>)
    BY <1>10 DEF Killed, Fresh
  <2>2. ASSUME NEW d \in Places PROVE FileInv(d)'
    <3>1. FileInv(d) BY DEF CsvInv
    <3>2. ~cut' => ~cut /\ buffered = <<>> BY <2>1, Zenon
    <3> QED BY <2>1, <3>1, <3>2 DEF FileInv, Places
  <2> QED BY <2>1, <2>2 DEF CsvInv, OpenInv
<1>11. CASE UNCHANGED vars
  <2>1. UNCHANGED <<output, prompt, repeat, cwd>> /\ pc' = pc
    BY <1>11 DEF vars, loadVars, where, loop
  <2> QED BY <2>1, LoopStepKeepsCsv DEF CsvInv, OpenInv
<1> QED
  BY <1>1, <1>2, <1>3, <1>4, <1>5, <1>6, <1>7, <1>8, <1>9, <1>10, <1>11
  DEF Next, Measure, Exit, WindowOver, QueryEnds, ResetFails

\* The CSV file is where the user's path leads, has one header, in front, and
\* then the rows of the loop in their order, over any number of processes
\* that are killed or fail.
THEOREM CsvFollowsLoop == Spec => []CsvIsTheLoop
<1>1. Init => CsvInv
  <2> SUFFICES ASSUME Init PROVE CsvInv OBVIOUS
  <2>1. ASSUME NEW d \in Places PROVE FileInv(d)
    <3>1. csv[d] = NoFile BY DEF Init
    <3> QED BY <3>1 DEF FileInv, NoFile, Init, Places
  <2> QED BY <2>1 DEF Init, CsvInv, OpenInv
<1>2. Typed /\ CsvInv => CsvIsTheLoop
  <2> SUFFICES ASSUME Typed, CsvInv PROVE CsvIsTheLoop
    OBVIOUS
  <2>1. open # "none" /\ ~lost => open = "home"
    BY DEF Typed, LoadInv, CwdInv, CsvInv, OpenInv
  <2>2. ASSUME NEW d \in Places
        PROVE  /\ csv[d].lines # <<>> /\ ~cut => csv[d].lines[1] = Header
               /\ \A i \in 2 .. Len(csv[d].lines) : csv[d].lines[i] # Header
               /\ open = d => \A i \in base + 1 .. Len(csv[d].lines) :
                    csv[d].lines[i] = RowAfter(i - base - 1)
    <3>1. csv[d].lines # <<>> => csv[d].exists BY DEF Typed, OutputInv, NoFile
    <3>2. open = d /\ buffered = <<Header>> => csv[d].lines = <<>>
      BY DEF CsvInv, Places
    <3>3. FileInv(d) BY DEF CsvInv
    <3> QED BY <3>1, <3>2, <3>3 DEF FileInv
  <2> QED BY <2>1, <2>2 DEF CsvIsTheLoop, RowAfter
<1> QED BY <1>1, <1>2, BenchTyped, CsvKeeps, PTL DEF Spec
=============================================================================
