# Verification of npurun

TLA+ models of npurun (an LLM runtime and HTTP server for the Snapdragon NPU),
model-checked with TLC and partly proved with TLAPS. Paths below are relative
to the repository; line numbers are of the commit this directory belongs to.

## 1. The system

| Component | Source | State | Operations | Modules |
|---|---|---|---|---|
| Inference endpoints | `npurun-server/src/{lib,openai,ollama}.rs` | the single `inference_permit`, a bounded channel per stream, a watchdog task and its oneshot per `/v1` request | `POST /v1/chat/completions`, `/api/chat`, `/api/generate`, each streaming or blocking | `InferenceServer`, `InferenceGate` |
| Engine and dialog | `npurun-core/src/engine.rs`, `qnn/src/genie.rs` | `chat_started`; inside libGenie the KV cache, a sticky failure, an abort signal | generate, chat, reset, abort | `Engine` |
| Chat transcript | `openai.rs`, `ollama.rs`, `npurun-core/src/manifest.rs` | a request's messages | filter roles, add instructions, trim, wrap | `ChatTranscript` |
| Tool calls | `openai.rs` | cursor and calls of a scan | `parse_tool_calls`, the body of a blocking answer | `ToolCalls`, `ChatCompletion` |
| Pull and removal | `npurun-registry/src/{pull,lib,known}.rs` | `.pull.zip`, `bundle/`, `npurun.json` of a model directory | `pull_model`, `remove_local` | `Pull` |
| Model cache | `npurun-registry/src/lib.rs`, `npurun-cli/src/main.rs`, `ollama.rs`, `openai.rs` | directories and manifests under the roots of the environment; the loaded model's name | resolve, list, show, rm, serve; `/api/tags`, `/v1/models`, `/api/show`, `/api/delete` | `ModelCache` |
| Manifest validation | `manifest.rs` | none | `read`, `validate`, `check_safe_relpath` | `Manifest` |
| Engine loading | `engine.rs`, `genie.rs` | handles, working directory | `Engine::load`, tier selection, creation of the dialog | `EngineLoad` |
| Bench and run | `npurun-cli/src/main.rs` | the loop, a CSV file that outlives the process | `bench`, `run` | `Bench` |
| CLI client | `main.rs` | an SSE buffer | `run --addr` | `SseClient` |
| Timestamps | `ollama.rs` | none | `now_iso8601`, `epoch_days_to_ymd` | `Timestamps`, `Calendar` |
| Server life cycle, authentication | `lib.rs`, `main.rs` | listener, auth token | serve, shutdown, `require_auth` | none |
| Rest | sampler, QNN bindings, Python tools, installer | | | none |

How they interact. A handler takes the permit with `try_acquire_owned` (429 if it
is taken), a `/v1` handler resets the dialog and spawns a watchdog, and a closure
on tokio's blocking pool takes the permit along and calls the engine. Genie calls
back for every chunk, inside the query; a stream's callback sends the chunk over
the bounded channel with `blocking_send`, so that a client that does not read
blocks Genie. The closure then sends Done or Error, resets after an abort, drops
the permit, and last the sender, which ends the response. A lost connection
drops the receiver of a stream, or the handler of a blocking request at its
`.await`; the closure always runs on. What the query is asked is the transcript
that the handler trimmed and `wrap_chat` rendered; what a blocking request with
tools gets back is what `parse_tool_calls` finds. `pull`, `rm`, `bench` and the
server share nothing but files and the environment.

What is hard here: two requests over one dialog that is not thread-safe; a dialog
whose failures and aborts outlive the request that caused them; a sentence code
that must match a cache hidden in a library; back-pressure inside a callback; a
timer that races its own cancellation; downloads resumed over whatever an earlier
one left; model directories that go by several names and are replaced while they
are read; a working directory that belongs to the whole process; text from a model
or a network that is cut anywhere. `PROJECT.json` ("hazards") lists each of these
at its line with the properties that watch it.

## 2. The modules

| Module | What it is |
|---|---|
| `Engine` | the engine's calls, one operator each, over libGenie's visible state |
| `InferenceServer` | the handlers, closures, callbacks, watchdogs and clients; composes `Engine` |
| `InferenceGate` | the abstract specification: one admitted request at a time, others refused at once, whoever is admitted leaves |
| `ChatTranscript` | from a request's messages to the prompt |
| `ToolCalls` | the scan of a reply for tool calls |
| `ChatCompletion` | composes the two: a blocking completion from request to answer |
| `Pull` | one model directory under pulls, faults, replaced assets and removals |
| `ModelCache` | the model directories, and everything that names one |
| `Manifest` | `npurun.json` as `Manifest::read` accepts it |
| `EngineLoad` | `Engine::load` and the creation of a dialog, over `Manifest` |
| `Bench` | `bench` and `run` around `EngineLoad`, with the CSV file |
| `SseClient` | `run --addr` against the event stream of the server |
| `Calendar`, `Timestamps` | the Gregorian calendar a day at a time; the code's arithmetic, which implements it |
| `MC*` | what TLC needs: symmetry, finite sets of requests, disks, pieces |
| `*_proofs` | the theorems about `InferenceServer`, `ChatCompletion` (with `ChatTranscript` and `ToolCalls`), `Pull`, `ModelCache`, `Bench` (with `EngineLoad`), `SseClient`, `Timestamps` |
| `InductionLemmas` | induction and recursion on numbers, for the proofs |

### Engine

`chatStarted` is `Engine::chat_started`. The rest is libGenie, which is not in the
repository, taken from what `engine.rs`, `genie.rs` and `openai.rs` rely on: `kv`
(whose tokens the cache holds), `health` ("failed" is the sticky
`ERROR_QUERY_FAILED`; "bricked" is the state that `openai.rs` describes as one that
"even `GenieDialog_reset` doesn't recover"), `tainted` (a query was aborted and
nobody reset since), `lastReset`, `abort` (the pending signal; "final" while Genie
makes the one callback that carries the abort code). A reset may fail at any time.
Complete appends to the cache, as `reset_dialog`'s comment has it (`engine.rs`
414-422). The model starts after `Engine::load` and the optional warm-up.

### InferenceServer

`stage[r]` says how far a request's handler and closure have come; the comment at
`Stages` names each. Every access to shared state is a step of its own: taking the
permit, each engine call, each callback, each send, dropping the permit, dropping
the sender. A handler's part before `try_acquire_owned` touches nothing shared and
belongs to its first step.

Abstractions, and why nothing is lost for the properties:

- A model is loaded and has a chat template; the 503 paths touch no state.
- A token, a chunk, and a unit of the `max_tokens` budget are one thing (in the code
  4 characters per token, `openai.rs` 526).
- `CtxEnd` stands for the end of the context window; `Deadline` for the most tokens
  the NPU produces in the watchdog's 60 s. An armed watchdog whose deadline has come
  lets no further token by: timers run while Genie computes.
- A watchdog may fire at any time, except while its closure waits for a pool thread.
- A cancelled watchdog is one whose oneshot has resolved but whose task was not polled
  since; `select!` may take either branch then.
- A blocking query's callback is a `push_str` and needs no step.
- The contents of prompts and answers are those of `ChatCompletion`.

`InferenceGate` is implemented under the mapping `permit <- holder`,
`phase <- PhaseOf(r)`.

### ChatTranscript, ToolCalls, ChatCompletion

A message is its role, its length and its position in the request; the instructions
that the server appends to a system message are kept as a set. A prompt is the
sequence of template expansions it is concatenated from. `phase` is the last step
done: the filter of roles, the refusal of streamed tools, the instructions, the trim,
the check for a user message, `wrap_chat`. `Budget` is the token budget, estimated
with the code's own formula.

A reply is a sequence of atoms: tags, blanks, prose, JSON values. `cursor` is the byte
position of the code; each way an iteration of the loop can end is an action. The
properties compare with a definition that knows no cursor: a block is an opening tag, one
JSON value and the closing tag of that name (`BlockAt`), and stands by itself unless
another such tag covers it (`OuterTags`): it lies between that tag and the first one that
closes it, or a lone `<` takes it for the end of its own tag. The second of two blocks in
a row stands by itself, a block inside another pair does not: there the parser does less
than its comment's "scans every well-formed `<word>...</word>` pair" (`openai.rs` 858-859),
as it goes on behind the outer pair, whether that was a call or not. Left
out are angle brackets inside JSON strings, and the matching of tag names beyond
equality, save `<tool_call>` in any case.

### Pull

Each action is a stretch of `pull_model` between two points where a crash would leave
something else on disk. A file is "torn" between its creation and its last write. A
response is delivered piece by piece; an archive is one piece per entry and the
central directory. An entry's CRC is right when its piece belongs to the directory's
release. `Interrupted` may come at any step, and loses what `BufWriter` still held.

Abstractions: one pull at a time (nothing in the code keeps two apart, and nothing is
claimed of two); releases of equal size; `rm` only while no pull runs; the contents of
`npurun.json` reduced to the bundle root and the sha256; entries that the extraction
skips (`__MACOSX`, unsafe names) are not part of an archive.

### ModelCache

A model directory is a root, a name, the name in its manifest (or none, or one that
does not validate) and whether its files are complete. `set` is which of
`NPURUN_MODELS_DIR` and `LOCALAPPDATA` the processes have in their environment.
`Resolve` is `resolve_model_dir`, `CacheDir` is `default_cache_dir`. A server is
started with a name, a tagged name or a path, and takes its own name from the
manifest it read; loading is three steps, with the disk changing between them. What a
pull does inside its directory is `Pull`'s; here it ends well, or leaves a directory
without a whole bundle or with a torn manifest.

### Manifest, EngineLoad, Bench

A path is the sequence of its `std::path::Component`s. `EngineLoad` has one action
for each access to the disk, to the working directory and to libGenie; `Replace`
puts something else into the model directory between any two of them. `Bench`
EXTENDS it with the loop, the resets and the CSV file: `buffered` is what the
`BufWriter` holds (the header, before the first row), `csv` what lies on disk, over
any number of processes that end, fail or are killed. Measured values, the summary
and what a write that failed midway leaves of a row are left out.

### SseClient, Timestamps

The wire carries atoms: two halves of an event's text, and line ends, as `\n` or as
`\r\n`. `Receive(n)` hands on any prefix; `NextEvent` is one pass of the client's inner
loop, `PartialEvent` its end, `Terminator` is `find_event_terminator`. The server sends
at any moment. `Timestamps` is `epoch_days_to_ymd` line by
line over the day count of a clock that is not set back; `Calendar` is what the dates
have to follow.

## 3. The runs

| Run | Instance | Asks |
|---|---|---|
| `server_mixed` | two requests, four kinds of endpoint, budget 1, context 3, deadline 1 | dialog exclusion, Rewind against the cache, clean start of `/v1`, failures and own aborts not handed on, permit before end of stream, streams well formed and within budget, watched inferences capped |
| `server_live` | two requests, an Ollama stream and a blocking `/v1` request, under `ServerSpec` | the gate's safety and liveness, every step brings a request nearer to its end, a lost client frees the permit, every admitted request is answered |
| `chat` | every conversation of up to 4 messages in two lengths; every reply of up to 3 atoms, 5 of markup, 7 of blocks | the prompt is one recent stretch within the budget, longest that fits, ends with the question, extends the previous one; calls are blocks of the reply with their names and arguments, no block that stands by itself is missed, the scan ends |
| `pull` | two releases, two files, three faults, `FairSpec` | nothing lost or doubled, the sha256 of the file, npurun.json only over a whole bundle, every step of a pull brings the installation nearer, pulling again heals |
| `cache` | two names, three roots, every environment | a removal takes what `run` would use and leaves the advertised names alone, a pulled model is found |
| `load` | 12 model directories, tiers {1, 2}, two prompts, two repeats, four CSV lines | handles, working directory, tier, paths below the model directory, rows and header of the CSV |
| `sse` | two models, two pieces and the empty one, one comment | what is printed is what was sent, by the model asked for |
| `calendar` | 146101 days, one era of 400 years | the dates follow the calendar |

Runs that find a comment contradicted by the code (quoted in `PROJECT.json`,
"findings"):

| Run | What TLC shows |
|---|---|
| `doc_watchdog_cancel` | a watchdog of a finished inference aborts the next request's query |
| `doc_absolute_path` | `C:\...` is cut at its colon before it is looked at as a path, and never found |
| `doc_system_merged` | a second system message, which "is merged into the conversation as if user" (`manifest.rs` 134-135), reaches the prompt in no form; `wrap_chat`'s own comment (168-169) sides with the code |
| `doc_delete_loaded` | `DELETE /api/delete` with the name of the directory removes the loaded model, when that directory does not bear the name in its manifest: `ollama.rs` 203 compares with the latter, `remove_local` goes by the former |

Bounds, and why they are enough. Two requests: the permit is the only thing all
requests share besides the dialog, the dialog remembers only one predecessor's
failure, abort or prompt, and every hazard listed takes a request and one that
comes after or beside it. Each request is sent once; a retry is another request.
`Capacity = 1` makes the channel full after one chunk (64 in the code): blocking,
draining and a disconnect while blocked all occur. In `server_mixed` `CtxEnd` is
3 with `Deadline = 1` and `Limits = {1}`, so that tokens come before and after an abort
and budget, cap and context are told apart; `server_live` needs one token.

`chat`: of four messages some fit the budget of 50 and some do not (8 or 23 tokens
each), so that the trim stops at every place; a system message may be anywhere, twice,
or absent, and with instructions of `HintLength = 100` characters it may exceed the
budget alone. Five atoms of markup hold a block inside another, a block after an
unclosed tag, and a lone `<` before each; seven atoms of tags and values hold two
complete blocks and one more tag or value in any place. Replies are parsed for one short request, as
the scan does not look at the request.

`pull`: a file that was written and one that was not, a piece before and one after a
cut, an old and a new release; three faults are enough to cut a download, replace the
asset, cut the resumed one, and then go on. `cache`: two names, so that a directory
can bear the other's manifest; only the "local" root starts with a drive letter.
`load`: a directory that is absent, whole, or wrong in each one way; four lines are a
header, a whole run and the beginning of the next, or two cut runs. `sse`: two pieces
can be swapped, doubled or lost; longer answers repeat their interplay with the
terminators. `calendar`: the calendar repeats after 146097 days, and the theorem needs
no bound. In `server_mixed` and
`doc_watchdog_cancel` requests are interchangeable and symmetry is used; never with
liveness.

Fairness. `FairServer`: the tokio runtime polls a task that can run (`Handler`,
`Watchdog`), the blocking pool runs its closure (`Closure`; 512 threads, one
inference), and Genie goes on to the next token or out of the query (`Genie`) - it
is not assumed to finish by itself, only at the end of the context or when
signalled. No request is assumed to arrive, no connection to be lost.
`FairClients`: a connected client reads. Nothing in the code makes it, so this is no part
of `ServerSpec` but the premise of `EveryRequestEnds` and `ImplementsLiveGate`, which a
stalled reader refutes; `DisconnectReleases` does without. `Pull!FairSpec`: the user pulls
again until it works, the process runs, the server answers; faults are bounded by
`MaxFaults`, as a pull that fails forever installs nothing. `CompletionSpec`: the handler runs and a query
returns.

Every run checks for deadlock: the actions that stutter (`AllSettled`, `Finished`,
`Stay`) are enabled where the code has come to its end, and nowhere else.

`PullsHeal` and `CommitsWholeBundle` are about releases that share their root
directory: when they do not, `find_bundle_root` may return the torn directory of an
earlier release, and the pull then fails every time, or npurun.json names that
directory with the sha256 of the new archive.

Seen while modelling, and not made into runs of their own: after the watchdog's abort
nobody resets the dialog, so that the next Ollama query runs on the aborted one
(`openai.rs` 573; `/v1` resets first); Ollama inferences, and blocking `/v1` ones whose
client is gone, have no wall-clock cap; the abort signal does not free the permit while
the callback waits for a client that does not read; a 416 ends the pull after it
truncated the file (`pull.rs` 182); the sha256 of a pull is recorded and never compared;
with neither variable in the environment `pull` installs under `./models`, where `run`
does not look; `rm` takes its argument literally, tag and all; a bench killed before its
first row leaves an empty CSV that never gets a header; an error event makes `run --addr`
stop printing and succeed.

## 4. The proofs

For any set of requests, endpoints and limits, any capacity, context and deadline
(`ServerAssumption`, `WarmupAssumption`):

| Theorem | States | Rests on |
|---|---|---|
| `TypeCorrect` | `TypeOK` | itself |
| `PermitAccounted` | `HolderInv`: the permit is held by exactly the request between taking and dropping it | `TypeOK` |
| `Exclusion` | `ExclusiveDialog` | `HolderInv`: inside a query or reset means holding the permit |
| `EndReleased` | `EndMeansReleased` | `EndInv` and `HolderInv` |
| `RewindSafe` | `RewindFindsCache` | `CacheInv` |
| `CleanStart` | `OpenAIStartsClean` | `KindInv`, `CleanInv` |
| `FailureKept`, `AbortKept` | `FailureNotHandedOn`, `AbortNotHandedOn` | `HandOnInv`, and which steps drop the permit (`PermitDropped`) |
| `WatchdogCaps` | `WatchedAreCapped` | `CapInv` and `HolderInv` |
| `StreamsFollowOrder` | `StreamsWellFormed` | `StreamInv`: what a client has read and its channel still holds, taken as one sequence |
| `InductiveInvariant` | `IInv`, the conjunction of the invariants | all of them |
| `EveryStepBringsNearer` | `EveryStepCounts`: every step takes from one request's `StepsLeft` and adds to none | `TypeOK`, `EndInv`, `StreamInv`; a sum of parts, each with the steps that lower it (`StageLowers`, `TokensLeft`, `WatchLeft`, `GoneLeft`, `EndLeft`) |
| `RefinesGate` | `ImplementsGate`: every step of the server is one of the gate or a stutter | `HolderInv`, `EndInv` |

`RewindFindsCache` is not inductive: a query that has not begun could find the flag
set over an empty cache. `CacheInv` says when that is so - only while a first query is
under way, while its failure is being cleaned up, or after the clean-up failed - and
with `HolderInv` nobody else can begin a query in that time. `OpenAIStartsClean` needs
`CleanInv`: from its reset to the end of its query, nothing touches a `/v1` request's
dialog. The hand-on properties need `HandOnInv`: a closure comes to its last
statements after a success or after a reset, and only a stream's closure aborts. The
cap needs `CapInv`: a watched request begins with its watchdog armed, and while it
generates the watchdog is still there to fire, or its signal is on the way, or has
arrived; the signal is not lost to another request's query, as there is none. The
refinement needs `EndInv`, as a finished request's phase is read off its answer. `StreamsWellFormed` is about what
the client has read; `StreamInv` says of every stage of a closure what it has sent so
far (`Sent`), read or not, so that a full channel and a slow client change nothing.

For any requests whose messages have a role, a length and a place
(`RequestsAssumption`), any budget and any reply:

| Theorem | States | Rests on |
|---|---|---|
| `TranscriptTypeCorrect` | `TypeOK` | `TranscriptInv` |
| `TrimKeepsWhatFits` | `TrimKeepsLongestFit` | `Whole` (before the trim the conversation is complete and in order) and what the trim leaves of any sequence (`TrimForContextIs`) |
| `PromptIsOneStretch` | `PromptIsRecentStretch` | `Turns` (after it, its turns are in order and none is missing after the first one) and what the templates expand (`WrapTurnsIs`, `WrapLastIs`) |
| `LastUserIsAnswered` | `AnswersLastUser` | the same |
| `NextPromptExtends` | `PrefixReused` | the same, of a conversation and its beginning |
| `CallsComeFromBlocks` | `CallsAreBlocks` | `ScanInv`: the calls so far are blocks that stand by themselves before the cursor, in order, and the cursor is covered by none of the tags before it (`CursorIsFree`); there is a set as `OuterTags` chooses (`OutermostExists`, `OuterTagsAre`) |
| `EveryStepLeadsToAnswer` | `EveryStepAdvances`: of a complete reply, every iteration of the scan and every step of the handler leaves less to do | `ScanInv`, `TypeOK` |
| `BlocksAreFound` | `NoCallMissed` | `ScanInv`: every block before the cursor that stands by itself was found; the tag that the scan finds next stands by itself (`TagStandsAlone`) |

An earlier form of `TrimKeepsLongestFit` was false where TLC had not looked, and its
proof showed it: a system message that exceeds the budget alone, with no other message
beside it, leaves nothing to keep. The property now says so, and the run has such
messages.

For any releases, archive size, number of configurations and faults
(`PullAssumption`):

| Theorem | States | Rests on |
|---|---|---|
| `PullTypeCorrect` | `TypeOK` | `DownloadInv`: an archive under extraction is complete |
| `Resumes` | `PiecesInPlace` | `DownloadInv`: response position, file and hash go together |
| `Hashes` | `ShaIsOfTheFile` | `DownloadInv` |
| `CommitsWhole` | `CommitsWholeBundle`, if releases share their root directory (`OneRoot`) | `ExtractInv` (the entries behind the extraction are the archive's), `RootsInv` (nothing outside the releases' roots), `InstallInv` (the bundle stays whole until it is committed) |
| `StepsHealModel` | `StepsHeal`, if releases share their root directory | the invariants above, and `LeftoverInv`: behind the extraction `.pull.zip` is gone, or complete |

For any names, any of them known to the registry, and any roots with a drive letter
(`CacheAssumption`):

| Theorem | States | Rests on |
|---|---|---|
| `CacheTypeCorrect` | `TypeOK` | what a removal, a pull and a conversion put on disk (`PutTypeOK`, `RemoveLocalTypeOK`) |
| `RemovesTheOneUsed` | `RemovesWhatRunUses` | `CacheDir` and `Resolve` put the roots in the same order (`ResolveName`); `/api/show` answers from memory before the disk |
| `PulledFound` | `PulledIsFound` | the same |

For any disks, tiers, prompts, repeats and lines (`LoadAssumption`, `BenchAssumption`):

| Theorem | States | Rests on |
|---|---|---|
| `LoadInvariant` | `LoadInv`: at which steps the process holds which handles, stands where, and has pinned which tier | itself |
| `HandlesAreNested`, `CwdIsRestored`, `TierIsTheOneAsked` | `HandlesNest`, `CwdRestored`, `TierIsPinned` | `LoadInv`; the steps after the load leave all of it alone (`AfterLoad`) |
| `BenchTypeCorrect` | `TypeOK` | `LoadInv`, and that an open file exists (`OutputInv`) |
| `PathStaysBelow` | `StaysBelow` | `PathInv`: a path that is opened passed the checks; without a parent component its depth never falls below 0 |
| `CsvFollowsLoop` | `CsvIsTheLoop` | `CsvInv`: the lines of the open file and the buffer count the rows that the loop has done since `base` |

`TierIsPinned` alone says nothing of the configuration between the read and the
creation of the dialog; `LoadInv` carries it there. `LoadAssumption` gives a manifest's
path to the configuration the type that `Manifest::read` gives it.

For any pieces and models, answers of any length, either line end (`SseAssumption`):

| Theorem | States | Rests on |
|---|---|---|
| `ReaderPrints` | `PrintsWhatWasSent` | `StreamInv`: buffer and wire together are the encoded items after the first k, the printed pieces those of the first k, and outside the loop the buffer holds less than an event |

The proof comes down to where `find_event_terminator` looks: the first terminator of a
buffer is that of its first event as soon as the event is there to its last atom, and
there is none before (`TerminatorIs`), with `\r\n` as with `\n`. That [DONE] leaves the
loop loses nothing, as it is the last item (`AnswerInv`).

`TimestampsFollowCalendar`: for every bound on the clock, every step of the code's
dates is one of the calendar. An `\div` is given to the prover as a quotient with its
bounds (`Quotients`), so that the rest is linear. `YearStep` shows that the day count
within an era either stays in its March-based year or comes to the next one's first
day; `EraStep` and `EraEnds` do the same for eras; `MonthStep` for the twelve months
by cases; `LeapAgain` that a year is a leap year whenever the same year of the era is.

Induction over data - a reply, a conversation, a path, a CSV file - goes through
`InductionLemmas`: induction is stated of sets of numbers (`SmallestNat`, `UpTo`)
instead of predicates, and a recursive function, which TLA+ defines as a CHOOSE, is
shown to exist (`RecursionExists`) and to keep its range (`RecursionStays`) before its
equation is used. The models therefore write recursion as functions, and say of a filter
or a count what positions it picks.

Three theorems are what the proofs can say of progress, for every value of the
constants. `EveryStepBringsNearer`, `StepsHealModel` and `EveryStepLeadsToAnswer` give a
request, a model that is not installed and a reply a natural number (the pull a pair, the
failures it may still meet first) that every step lowers, in whatever order the steps
come. So no retry, no late watchdog, no slow client, no leftover of a pull and no
misspelt tag can keep the program busy for ever: after boundedly many steps it has
answered, or it stands still. The measure of a request falls unconditionally. That
of a pull is stated of steps without a new fault, as each fault may undo a pull, and only
under `OneRoot`: see section 3 for what happens without. That of a reply starts when the
reply is complete, as a model may write for as long as its context lasts.
`EveryStepAdvances` has no run of its own: `chat` checks `ReplyAnswered`, which fails as
soon as an iteration of the scan leaves the cursor where it was.

Only model-checked: that the program does not stand still, which is liveness under
fairness - the gate's (`ImplementsLiveGate`), `DisconnectReleases`, `EveryRequestEnds`,
`ReplyAnswered`, `PullsHeal` - as the prover does no `ENABLED`; and the four properties
that a run expects to be violated.

## 5. Not modelled

- The server's life cycle: what a graceful shutdown waits for is decided by axum and
  by tokio's blocking pool, of which the code holds one call (`lib.rs` 206). A closure
  whose client is gone may outlive the shutdown; a model of it would be one of tokio.
- `require_auth`: a comparison per request, with no state.
- Two pulls of one model at once: the code keeps nothing apart and claims nothing.
- `check_sdk_compat`, and the sampler: not called by any part of the program.
- Measurements of `bench`, `ps`, and what the CLI prints: arithmetic and wording.
- FFI and build scripts, the Python tools, the installer: no state shared with the
  program.
