------------------------------- MODULE Bench --------------------------------
(***************************************************************************)
(* `npurun bench` and `npurun run` (npurun-cli main.rs) from Engine::load, *)
(* which is module EngineLoad, to the drop of the engine: the loop over    *)
(* prompts and repeats with a reset after every query, and the CSV file    *)
(* that runs append to.  A process may be killed at any step.  What is     *)
(* measured, and the summary printed, are left out.                        *)
(***************************************************************************)
EXTENDS EngineLoad

CONSTANTS
  NPrompts,   \* BENCH_PROMPTS, or the one of --prompt
  Repeats,    \* --repeats, at least 1
  MaxLines    \* bounds the CSV files

ASSUME BenchAssumption == NPrompts > 0 /\ Repeats > 0 /\ MaxLines \in Nat
                          /\ NPrompts \in Nat /\ Repeats \in Nat

VARIABLES
  stress,    \* --duration was given
  csv,       \* csv[dir]: the file, if the path is taken from dir
  open,      \* where csv_writer's file is, "none" when there is none
  buffered,  \* what csv_writer holds
  prompt,    \* the prompt whose turn it is
  repeat,    \* repeat_idx + 1
  base,      \* lines in the file when this process opened it
  cut        \* a process ended before its header reached the file

loop == <<stress, prompt, repeat>>
output == <<csv, open, buffered, base, cut>>
vars == <<loadVars, loop, output>>

Places == {"home", "bundle"}
Header == [prompt |-> 0, repeat |-> 0]
Row(p, r) == [prompt |-> p, repeat |-> r]
Lines == [prompt : Nat, repeat : Nat]
NoFile == [exists |-> FALSE, lines |-> <<>>]

Steps == LoadSteps \cup {"idle", "loaded", "next", "query", "reset", "row", "drop", "free"}

TypeOK ==
  /\ LoadTypeOK(Steps)
  /\ stress \in BOOLEAN
  /\ csv \in [Places -> [exists : BOOLEAN, lines : Seq(Lines)]]
  /\ open \in Places \cup {"none"}
  /\ buffered \in {<<>>, <<Header>>}
  /\ prompt \in 1 .. NPrompts
  /\ repeat \in Nat \ {0}
  /\ base \in Nat
  /\ cut \in BOOLEAN
  /\ \A d \in Places : ~csv[d].exists => csv[d] = NoFile

Init ==
  /\ LoadInit
  /\ stress \in BOOLEAN
  /\ csv = [d \in Places |-> NoFile]
  /\ open = "none"
  /\ buffered = <<>>
  /\ prompt = 1
  /\ repeat = 1
  /\ base = 0
  /\ cut = FALSE

Load == LoadNext("loaded") /\ UNCHANGED <<loop, output>>

AtLoad == UNCHANGED <<disk, process, where, handles>>

\* The engine goes out of scope, after csv_writer, whose drop flushes it.
Flushed(extra) ==
  IF open = "none" THEN csv
  ELSE [csv EXCEPT ![open].lines = @ \o buffered \o extra]

Leave ==
  /\ Goto("drop")
  /\ csv' = Flushed(<<>>)
  /\ open' = "none"
  /\ buffered' = <<>>
  /\ UNCHANGED <<base, cut>>

-----------------------------------------------------------------------------
\* Mutant: the header is written on every run.
HeaderFor_Always(d) == <<Header>>
HeaderFor(d) == IF csv[d].exists THEN <<>> ELSE <<Header>>

\* open_bench_csv, relative to the working directory that the load left.
OpenCsv ==
  /\ pc = "loaded" /\ cmd = "bench"
  /\ Goto("next")
  /\ csv' = [csv EXCEPT ![cwd].exists = TRUE]
  /\ open' = cwd
  /\ buffered' = HeaderFor(cwd)
  /\ base' = Len(csv[cwd].lines) + Len(HeaderFor(cwd))
  /\ UNCHANGED <<loop, cut>>
  /\ AtLoad

NoCsv ==
  /\ pc = "loaded"
  /\ Goto("next")
  /\ UNCHANGED <<loop, output>>
  /\ AtLoad

\* The parent of the CSV file is missing, or it cannot be opened.
OpenCsvFails ==
  /\ pc = "loaded" /\ cmd = "bench"
  /\ Goto("drop")
  /\ UNCHANGED <<loop, output>>
  /\ AtLoad

\* The budget of --duration is looked at before a query.
StartQuery ==
  /\ pc = "next"
  /\ Goto("query")
  /\ UNCHANGED <<loop, output>>
  /\ AtLoad

WindowOver ==
  /\ pc = "next" /\ cmd = "bench" /\ stress
  /\ Leave
  /\ UNCHANGED loop
  /\ AtLoad

\* generate_streaming; `run` is done after one query, and does not reset.
QueryReturns ==
  /\ pc = "query" /\ cmd = "bench"
  /\ Goto("reset")
  /\ UNCHANGED <<loop, output>>
  /\ AtLoad

QueryEnds ==
  /\ pc = "query"
  /\ Leave
  /\ UNCHANGED loop
  /\ AtLoad

Reset ==
  /\ pc = "reset"
  /\ Goto("row")
  /\ UNCHANGED <<loop, output>>
  /\ AtLoad

ResetFails ==
  /\ pc = "reset"
  /\ Leave
  /\ UNCHANGED loop
  /\ AtLoad

\* Mutant: the repeat is counted with every prompt.
NextRepeat_Each == repeat + 1
NextRepeat == IF prompt = NPrompts THEN repeat + 1 ELSE repeat

\* Mutant: the prompts are not cycled.
Advance_NoWrap ==
  /\ prompt' = prompt + 1
  /\ repeat' = NextRepeat
  /\ UNCHANGED stress

Advance ==
  /\ prompt' = (prompt % NPrompts) + 1
  /\ repeat' = NextRepeat
  /\ UNCHANGED stress

LastRow == ~stress /\ prompt = NPrompts /\ repeat >= Repeats

\* The bound on the files, and on a loop that writes none.
Full ==
  IF open = "none" THEN repeat > Repeats
  ELSE Len(csv["home"].lines \o csv["bundle"].lines) >= MaxLines

\* A row is flushed as it is written.
WriteRow ==
  /\ pc = "row"
  /\ ~Full
  /\ csv' = Flushed(<<Row(prompt, repeat)>>)
  /\ buffered' = <<>>
  /\ open' = IF LastRow THEN "none" ELSE open
  /\ Goto(IF LastRow THEN "drop" ELSE "next")
  /\ Advance
  /\ UNCHANGED <<base, cut>>
  /\ AtLoad

\* So may the flush of csv_writer's drop.  (What a write that failed midway
\* leaves of a row is left out.)
WriteFails ==
  /\ pc = "row" /\ open # "none"
  /\ \/ Leave
     \/ /\ Goto("drop")
        /\ open' = "none"
        /\ buffered' = <<>>
        /\ cut' = (cut \/ buffered # <<>>)
        /\ UNCHANGED <<csv, base>>
  /\ UNCHANGED loop
  /\ AtLoad

-----------------------------------------------------------------------------
\* Dialog's Drop, then that of its _config, then the process ends.
FreeDialog ==
  /\ pc = "drop"
  /\ dialog' = NoConfig
  /\ Goto("free")
  /\ UNCHANGED <<disk, process, where, config, loop, output>>

\* What the next process starts from.
Fresh ==
  /\ Goto("idle")
  /\ cmd' = "run"
  /\ ctx' = NoTier
  /\ path' = None
  /\ json' = NoConfig
  /\ cwd' = "home"
  /\ prev' = "none"
  /\ lost' = FALSE
  /\ base' = 0
  /\ stress' \in BOOLEAN
  /\ prompt' = 1
  /\ repeat' = 1
  /\ UNCHANGED disk

FreeConfig ==
  /\ pc = "free"
  /\ Fresh
  /\ config' = FALSE
  /\ UNCHANGED <<dialog, csv, open, buffered, cut>>

ExitWithError ==
  /\ pc = "failed"
  /\ Fresh
  /\ UNCHANGED <<handles, csv, open, buffered, cut>>

\* Ctrl+C: nothing is dropped, the system takes the handles back.
Killed ==
  /\ pc \notin {"idle", "failed"}
  /\ Fresh
  /\ config' = FALSE
  /\ dialog' = NoConfig
  /\ cut' = (cut \/ buffered # <<>>)
  /\ open' = "none"
  /\ buffered' = <<>>
  /\ UNCHANGED csv

Measure ==
  \/ OpenCsv \/ NoCsv \/ OpenCsvFails \/ StartQuery \/ WindowOver
  \/ QueryReturns \/ QueryEnds \/ Reset \/ ResetFails \/ WriteRow \/ WriteFails

Exit == FreeDialog \/ FreeConfig \/ ExitWithError \/ Killed

Next == Load \/ Measure \/ Exit
Spec == Init /\ [][Next]_vars

-----------------------------------------------------------------------------
\* The CSV lies where the user's path leads, and not in the bundle, unless the
\* working directory was lost; every row of this process is that of the next
\* prompt, in the order of the loop; and the header is the first line and no
\* other, unless a process was killed between creating the file and its first
\* row, or could not write there.
CsvIsTheLoop ==
  /\ open # "none" /\ ~lost => open = "home"
  /\ \A d \in Places :
    LET lines == csv[d].lines IN
    /\ lines # <<>> /\ ~cut => lines[1] = Header
    /\ \A i \in 2 .. Len(lines) : lines[i] # Header
    /\ open = d => \A i \in base + 1 .. Len(lines) :
         lines[i] = Row(((i - base - 1) % NPrompts) + 1, ((i - base - 1) \div NPrompts) + 1)
=============================================================================
