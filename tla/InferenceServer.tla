-------------------------- MODULE InferenceServer --------------------------
(***************************************************************************)
(* The inference endpoints of npurun-server: POST /v1/chat/completions     *)
(* (openai.rs), POST /api/chat and POST /api/generate (ollama.rs), each    *)
(* streaming or blocking, in front of the one Engine.                      *)
(*                                                                         *)
(* Actors: one async handler and one blocking-pool closure per request,    *)
(* one watchdog task per /v1 request, and the clients.  They share the     *)
(* single inference permit, the dialog, a bounded channel per stream and   *)
(* the watchdog's oneshot.  A handler runs its synchronous part on one     *)
(* worker thread while other handlers run on others, so every access to    *)
(* shared state is a step of its own.                                      *)
(***************************************************************************)
EXTENDS Engine, Sequences, SequencesExt

CONSTANTS
  Kinds,     \* the endpoints the clients use, a subset of AllKinds
  Limits,    \* the max_tokens values clients send, in chunks
  Capacity,  \* of the mpsc channel between closure and response (64 in the code)
  CtxEnd,    \* the number of tokens after which the context window is full
  Deadline,  \* the most tokens the NPU produces within INFERENCE_WALL_CLOCK_MAX
  NoOne      \* nobody holds the inference permit

AllKinds == {"v1_stream", "v1_block", "chat_stream", "chat_block",
             "gen_stream", "gen_block"}

Streaming == {"v1_stream", "chat_stream", "gen_stream"}
OpenAI    == {"v1_stream", "v1_block"}
OllamaChat == {"chat_stream", "chat_block"}

\* The kinds that send a transcript through Engine::generate_chat_streaming.
Chat == OpenAI \cup OllamaChat

ASSUME ServerAssumption ==
  /\ Kinds \subseteq AllKinds
  /\ Limits \subseteq Nat
  /\ Capacity \in Nat \ {0}
  /\ CtxEnd \in Nat \ {0}
  /\ Deadline \in Nat
  /\ NoOne \notin Requests

VARIABLES
  holder,   \* who holds ServerState::inference_permit
  stage,    \* how far the handler and the closure of a request have come
  kind,     \* the endpoint of a request that took the permit
  limit,    \* its max_tokens; the context length stands for none
  code,     \* the sentence code of its query
  gen,      \* tokens generated for it so far
  aborted,  \* the closure's `aborted`
  result,   \* what the engine call returned to the closure
  chan,     \* the channel from the closure to the response body
  client,   \* "gone" once the server has dropped the response of a lost client
  answer,   \* the status and body of a response that is no stream
  view,     \* the stream items the client has read
  wd        \* the request's watchdog task

requestVars == <<kind, limit>>
localVars == <<code, gen, aborted, result>>
vars == <<engineVars, holder, stage, requestVars, localVars, chan, client,
          answer, view, wd>>

Stages ==
  {"new",         \* not handled yet
   "resetting",   \* v1: in reset_dialog, before the query
   "checking",    \* /api/chat: permit taken, messages not checked yet
   "queued",      \* the closure is waiting for a blocking-pool thread
   "genie",       \* in GenieDialog_query
   "callback",    \* in GenieDialog_query, inside the chunk callback
   "err_reset",   \* in reset_dialog, after the query failed
   "sending_last",\* about to send Done or Error
   "abort_reset", \* in reset_dialog, after the closure's own abort
   "leaving",     \* at the closure's last statements
   "unwinding",   \* the closure's locals (the permit) are dropped
   "over"}        \* the sender is dropped; a blocking handler has answered

Item(what, n) == [what |-> what, n |-> n]
StreamItems == [what : {"Role", "Content", "Done", "Error"}, n : 0 .. CtxEnd]
Items == StreamItems \cup [what : {"End"}, n : {0}]

\* "cancelled": its oneshot has resolved, but the task was not polled since.
Watchdogs == {"none", "armed", "cancelled"}

TypeOK ==
  /\ EngineTypeOK
  /\ holder \in Requests \cup {NoOne}
  /\ stage \in [Requests -> Stages]
  /\ kind \in [Requests -> AllKinds \cup {"none"}]
  /\ limit \in [Requests -> Nat]
  /\ code \in [Requests -> Codes]
  /\ gen \in [Requests -> 0 .. CtxEnd]
  /\ aborted \in [Requests -> BOOLEAN]
  /\ result \in [Requests -> {"none", "ok", "err"}]
  /\ chan \in [Requests -> Seq(StreamItems)]
  /\ client \in [Requests -> {"connected", "gone"}]
  /\ answer \in [Requests -> {"none", "busy", "bad_request", "ok", "failed"}]
  /\ view \in [Requests -> Seq(Items)]
  /\ wd \in [Requests -> Watchdogs]

Init ==
  /\ EngineInit
  /\ holder = NoOne
  /\ stage = [r \in Requests |-> "new"]
  /\ kind = [r \in Requests |-> "none"]
  /\ limit = [r \in Requests |-> CtxEnd]
  /\ code = [r \in Requests |-> "Complete"]
  /\ gen = [r \in Requests |-> 0]
  /\ aborted = [r \in Requests |-> FALSE]
  /\ result = [r \in Requests |-> "none"]
  /\ chan = [r \in Requests |-> <<>>]
  /\ client = [r \in Requests |-> "connected"]
  /\ answer = [r \in Requests |-> "none"]
  /\ view = [r \in Requests |-> <<>>]
  /\ wd = [r \in Requests |-> "none"]

-----------------------------------------------------------------------------
(* Derived state *)

InQuery(r) == stage[r] \in {"genie", "callback"}
InReset(r) == stage[r] \in {"resetting", "err_reset", "abort_reset"}
Working(r) == stage[r] \in
  {"queued", "genie", "callback", "err_reset", "sending_last", "abort_reset",
   "leaving", "unwinding"}

QueryInFlight == \E r \in Requests : InQuery(r)

Streams(r) == kind[r] \in Streaming

\* The receiver lives in the response body, which the server drops when the
\* client's connection is lost.
ReceiverDropped(r) == client[r] = "gone"
HasRoom(r) == Len(chan[r]) < Capacity

To(r, s) == stage' = [stage EXCEPT ![r] = s]
Send(r, item) == chan' = [chan EXCEPT ![r] = Append(@, item)]
Answer(r, a) == answer' = [answer EXCEPT ![r] = a]

\* The items before the first token: /v1 streams open with the Role.
Lead(r) == IF kind[r] = "v1_stream" THEN 1 ELSE 0

\* What a stream ends with.
LastWords == {"Done", "Error"}

-----------------------------------------------------------------------------
(* The handlers *)

\* What a handler does before try_acquire_owned touches nothing shared: it is
\* part of the first step.  Of a request that is refused nothing is kept.

\* /v1: a request without a user message gets 400 before it asks for the permit.
RejectInvalid(r) ==
  /\ stage[r] = "new"
  /\ Kinds \cap OpenAI # {}
  /\ To(r, "over")
  /\ Answer(r, "bad_request")
  /\ UNCHANGED <<engineVars, holder, requestVars, localVars, chan, client,
                 view, wd>>

PermitFree_Always == TRUE  \* a mutant: a permit for everybody
PermitFree == holder = NoOne

\* try_acquire_owned succeeds.  /v1 goes on to reset the dialog, /api/chat to
\* look at its messages, /api/generate straight to the blocking pool.  Only
\* /v1 streaming looks at max_tokens.
AcquirePermit(r) ==
  /\ stage[r] = "new"
  /\ PermitFree
  /\ holder' = r
  /\ \E k \in Kinds, l \in Limits \cup {CtxEnd} :
       /\ k # "v1_stream" => l = CtxEnd
       /\ kind' = [kind EXCEPT ![r] = k]
       /\ limit' = [limit EXCEPT ![r] = l]
       /\ To(r, IF k \in OpenAI THEN "resetting"
                ELSE IF k \in OllamaChat THEN "checking"
                ELSE "queued")
  /\ UNCHANGED <<engineVars, localVars, chan, client, answer, view, wd>>

\* try_acquire_owned fails: 429, Retry-After: 1.
RefuseBusy(r) ==
  /\ stage[r] = "new"
  /\ ~PermitFree
  /\ To(r, "over")
  /\ Answer(r, "busy")
  /\ UNCHANGED <<engineVars, holder, requestVars, localVars, chan, client,
                 view, wd>>

ResetThenDispatch_NoReset(r) ==  \* a mutant: no reset before the query
  /\ stage[r] = "resetting"
  /\ UNCHANGED engineVars
  /\ wd' = [wd EXCEPT ![r] = "armed"]
  /\ IF Streams(r) THEN Send(r, Item("Role", 0)) ELSE UNCHANGED chan
  /\ To(r, "queued")
  /\ UNCHANGED <<holder, requestVars, localVars, client, answer, view>>

\* /v1: the reset before the query; its failure is logged and passed over.
\* Then the watchdog is spawned, the stream's channel gets its Role item
\* (try_send into an empty channel), and the closure goes to the pool.
ResetThenDispatch(r) ==
  /\ stage[r] = "resetting"
  /\ ResetDialog
  /\ wd' = [wd EXCEPT ![r] = "armed"]
  /\ IF Streams(r) THEN Send(r, Item("Role", 0)) ELSE UNCHANGED chan
  /\ To(r, "queued")
  /\ UNCHANGED <<holder, requestVars, localVars, client, answer, view>>

\* /api/chat: the check for a user message comes after the permit was taken;
\* the early return drops it.
RejectHoldingPermit(r) ==
  /\ stage[r] = "checking"
  /\ holder' = NoOne
  /\ To(r, "over")
  /\ Answer(r, "bad_request")
  /\ UNCHANGED <<engineVars, requestVars, localVars, chan, client, view, wd>>

DispatchChat(r) ==
  /\ stage[r] = "checking"
  /\ To(r, "queued")
  /\ UNCHANGED <<engineVars, holder, requestVars, localVars, chan, client,
                 answer, view, wd>>

\* The closure's locals are gone with it.
Forget(r) ==
  /\ code' = [code EXCEPT ![r] = "Complete"]
  /\ gen' = [gen EXCEPT ![r] = 0]
  /\ aborted' = [aborted EXCEPT ![r] = FALSE]
  /\ result' = [result EXCEPT ![r] = "none"]

\* A blocking handler wakes from `.await` on its closure, lets the watchdog
\* go and answers.
Reply(r) ==
  /\ stage[r] = "unwinding"
  /\ ~Streams(r)
  /\ To(r, "over")
  /\ IF client[r] = "connected"
     THEN Answer(r, IF result[r] = "ok" THEN "ok" ELSE "failed")
     ELSE UNCHANGED answer
  /\ wd' = [wd EXCEPT ![r] = IF @ = "armed" THEN "cancelled" ELSE @]
  /\ Forget(r)
  /\ UNCHANGED <<engineVars, holder, requestVars, chan, client, view>>

-----------------------------------------------------------------------------
(* The closure: before and inside GenieDialog_query *)

AfterOk(r) == IF Streams(r) THEN "sending_last" ELSE "leaving"

\* The stage after the engine call returned `res`.
AfterCall_NoReset(r, res) == AfterOk(r)  \* a mutant: no reset after an error
AfterCall_Retries(r, res) ==  \* a mutant: a failed query is tried again
  IF res = "err" THEN "queued" ELSE AfterOk(r)
AfterCall(r, res) == IF res = "err" THEN "err_reset" ELSE AfterOk(r)

Return(r, res) ==
  /\ result' = [result EXCEPT ![r] = res]
  /\ To(r, AfterCall(r, res))

\* A blocking-pool thread runs the closure up to GenieDialog_query.
BeginQuery(r) ==
  /\ stage[r] = "queued"
  /\ SwapFlag(kind[r] \in Chat)
  /\ code' = [code EXCEPT ![r] = CodeFor(kind[r] \in Chat)]
  /\ To(r, "genie")
  /\ UNCHANGED <<kv, health, tainted, lastReset, abort, holder, requestVars,
                 gen, aborted, result, chan, client, answer, view, wd>>

\* A prompt with a NUL byte: CString::new fails after the flag was swapped
\* and before Genie is called.
BeginUnsendable(r) ==
  /\ stage[r] = "queued"
  /\ SwapFlag(kind[r] \in Chat)
  /\ Return(r, "err")
  /\ UNCHANGED <<kv, health, tainted, lastReset, abort, holder, requestVars,
                 code, gen, aborted, chan, client, answer, view, wd>>

ContextFull_OffByOne(r) == gen[r] > CtxEnd  \* a mutant
ContextFull(r) == gen[r] >= CtxEnd

\* Genie produces a token.  Only Deadline of them fit before an armed
\* watchdog's timer is due.  A blocking call's callback is push_str.
EmitToken(r) ==
  /\ stage[r] = "genie"
  /\ ~ContextFull(r)
  /\ wd[r] = "armed" => gen[r] < Deadline
  /\ NextToken(code[r])
  /\ gen' = [gen EXCEPT ![r] = @ + 1]
  /\ To(r, IF Streams(r) THEN "callback" ELSE "genie")
  /\ UNCHANGED <<holder, requestVars, code, aborted, result, chan, client,
                 answer, view, wd>>

\* The query ends by itself (success), by abort (success), or fails.
EndOfText(r) ==
  /\ stage[r] = "genie"
  /\ QuerySucceeds(code[r], r)
  /\ Return(r, "ok")
  /\ UNCHANGED <<holder, requestVars, code, gen, aborted, chan, client, answer,
                 view, wd>>

ReturnAborted(r) ==
  /\ stage[r] = "genie"
  /\ QueryAborted(code[r], r)
  /\ Return(r, "ok")
  /\ UNCHANGED <<holder, requestVars, code, gen, aborted, chan, client, answer,
                 view, wd>>

ReturnFailed(r) ==
  /\ stage[r] = "genie"
  /\ QueryFails(code[r], r)
  /\ Return(r, "err")
  /\ UNCHANGED <<holder, requestVars, code, gen, aborted, chan, client, answer,
                 view, wd>>

-----------------------------------------------------------------------------
(* The chunk callback of a stream *)

OverBudget_OffByOne(r) == gen[r] > limit[r] + 1  \* a mutant
OverBudget(r) == gen[r] > limit[r]

MustAbort(r) == OverBudget(r) \/ ReceiverDropped(r)

CallbackSkip(r) ==
  /\ stage[r] = "callback"
  /\ aborted[r]
  /\ To(r, "genie")
  /\ UNCHANGED <<engineVars, holder, requestVars, localVars, chan, client,
                 answer, view, wd>>

\* The budget is spent, or the receiver is gone: stop forwarding and tell Genie.
CallbackAbort(r) ==
  /\ stage[r] = "callback"
  /\ ~aborted[r]
  /\ MustAbort(r)
  /\ aborted' = [aborted EXCEPT ![r] = TRUE]
  /\ SignalAbort(QueryInFlight)
  /\ To(r, "genie")
  /\ UNCHANGED <<chatStarted, kv, health, tainted, lastReset, holder,
                 requestVars, code, gen, result, chan, client, answer, view,
                 wd>>

\* blocking_send: waits, inside Genie's callback, for room in the channel.
CallbackForward(r) ==
  /\ stage[r] = "callback"
  /\ ~aborted[r] /\ ~OverBudget(r) /\ ~ReceiverDropped(r)
  /\ HasRoom(r)
  /\ Send(r, Item("Content", gen[r]))
  /\ To(r, "genie")
  /\ UNCHANGED <<engineVars, holder, requestVars, localVars, client, answer,
                 view, wd>>

-----------------------------------------------------------------------------
(* The closure: after the engine call *)

ResetAfterError(r) ==
  /\ stage[r] = "err_reset"
  /\ ResetDialog
  /\ To(r, AfterOk(r))
  /\ UNCHANGED <<holder, requestVars, localVars, chan, client, answer, view,
                 wd>>

AfterLast_NoReset(r) == "leaving"  \* a mutant: no reset after an abort
AfterLast_Resends(r) ==  \* a mutant: the last item is sent until somebody takes it
  IF ReceiverDropped(r) THEN "sending_last" ELSE IF aborted[r] THEN "abort_reset" ELSE "leaving"
AfterLast(r) == IF aborted[r] THEN "abort_reset" ELSE "leaving"

\* Done or Error; blocking_send again, and a dropped receiver is ignored.
SendLast(r) ==
  /\ stage[r] = "sending_last"
  /\ \/ ReceiverDropped(r) /\ UNCHANGED chan
     \/ /\ ~ReceiverDropped(r) /\ HasRoom(r)
        /\ Send(r, Item(IF result[r] = "ok" THEN "Done" ELSE "Error", 0))
  /\ To(r, AfterLast(r))
  /\ UNCHANGED <<engineVars, holder, requestVars, localVars, client, answer,
                 view, wd>>

ResetAfterAbort(r) ==
  /\ stage[r] = "abort_reset"
  /\ ResetDialog
  /\ To(r, "leaving")
  /\ UNCHANGED <<holder, requestVars, localVars, chan, client, answer, view,
                 wd>>

Release_AfterSender(r) ==  \* a mutant: the sender goes first, the permit leaks
  /\ stage[r] = "leaving"
  /\ wd' = [wd EXCEPT ![r] =
              IF kind[r] = "v1_stream" /\ @ = "armed" THEN "cancelled" ELSE @]
  /\ To(r, IF Streams(r) THEN "over" ELSE "unwinding")
  /\ UNCHANGED <<engineVars, holder, requestVars, localVars, chan, client, answer,
                 view>>

\* The end of the closure: a /v1 stream lets its watchdog go, then the local
\* `_permit` is dropped.
Release(r) ==
  /\ stage[r] = "leaving"
  /\ wd' = [wd EXCEPT ![r] =
              IF kind[r] = "v1_stream" /\ @ = "armed" THEN "cancelled" ELSE @]
  /\ holder' = NoOne
  /\ To(r, "unwinding")
  /\ UNCHANGED <<engineVars, requestVars, localVars, chan, client, answer,
                 view>>

DropSender_Leaked(r) ==  \* a mutant: a clone of the sender stays alive
  /\ stage[r] = "unwinding"
  /\ Streams(r) /\ ReceiverDropped(r)
  /\ To(r, "over")
  /\ Forget(r)
  /\ UNCHANGED <<engineVars, holder, requestVars, chan, client, answer, view,
                 wd>>

\* The captured sender is dropped after the closure's locals.
DropSender(r) ==
  /\ stage[r] = "unwinding"
  /\ Streams(r)
  /\ To(r, "over")
  /\ Forget(r)
  /\ UNCHANGED <<engineVars, holder, requestVars, chan, client, answer, view,
                 wd>>

-----------------------------------------------------------------------------
(* The watchdog task *)

\* The sleep branch of select!: 60 s are over.  Also taken, at random, when
\* the oneshot resolved before the task was polled again.  A closure is not
\* kept waiting for a pool thread that long.
WatchdogFires(r) ==
  /\ wd[r] \in {"armed", "cancelled"}
  /\ stage[r] # "queued"
  /\ wd' = [wd EXCEPT ![r] = "none"]
  /\ SignalAbort(QueryInFlight)
  /\ UNCHANGED <<chatStarted, kv, health, tainted, lastReset, holder, stage,
                 requestVars, localVars, chan, client, answer, view>>

\* The other branch: the oneshot was sent to, or its sender was dropped.
WatchdogRetires(r) ==
  /\ wd[r] = "cancelled"
  /\ wd' = [wd EXCEPT ![r] = "none"]
  /\ UNCHANGED <<engineVars, holder, stage, requestVars, code, gen, aborted,
                 result, chan, client, answer, view>>

-----------------------------------------------------------------------------
(* The clients *)

\* The connection is lost.  A stream's receiver is dropped; a blocking
\* handler is dropped at its `.await`, and with it the watchdog's oneshot,
\* while the closure runs on.
Disconnect(r) ==
  /\ Working(r)
  /\ client[r] = "connected"
  /\ client' = [client EXCEPT ![r] = "gone"]
  /\ chan' = [chan EXCEPT ![r] = <<>>]
  /\ view' = [view EXCEPT ![r] = <<>>]
  /\ wd' = [wd EXCEPT ![r] =
              IF ~Streams(r) /\ @ = "armed" THEN "cancelled" ELSE @]
  /\ UNCHANGED <<engineVars, holder, stage, requestVars, localVars, answer>>

\* The client reads what the response stream yields next.
ClientReads(r) ==
  /\ client[r] = "connected"
  /\ chan[r] # <<>>
  /\ view' = [view EXCEPT ![r] = Append(@, Head(chan[r]))]
  /\ chan' = [chan EXCEPT ![r] = Tail(@)]
  /\ UNCHANGED <<engineVars, holder, stage, requestVars, code, gen, aborted,
                 result, client, answer, wd>>

StreamEnded(r) == view[r] # <<>> /\ Last(view[r]).what = "End"

\* The sender is dropped and the channel drained: [DONE], or end of body.
ClientSeesEnd(r) ==
  /\ client[r] = "connected"
  /\ Streams(r) /\ answer[r] = "none"
  /\ stage[r] = "over" /\ chan[r] = <<>>
  /\ ~StreamEnded(r)
  /\ view' = [view EXCEPT ![r] = Append(@, Item("End", 0))]
  /\ UNCHANGED <<engineVars, holder, stage, requestVars, code, gen, aborted,
                 result, chan, client, answer, wd>>

-----------------------------------------------------------------------------
Arrive(r) == RejectInvalid(r) \/ AcquirePermit(r) \/ RefuseBusy(r)

Handler(r) ==
  \/ ResetThenDispatch(r) \/ RejectHoldingPermit(r) \/ DispatchChat(r)
  \/ Reply(r)

Closure(r) ==
  \/ BeginQuery(r) \/ BeginUnsendable(r)
  \/ CallbackSkip(r) \/ CallbackAbort(r) \/ CallbackForward(r)
  \/ ResetAfterError(r) \/ SendLast(r) \/ ResetAfterAbort(r)
  \/ Release(r) \/ DropSender(r)

Genie(r) ==
  \/ EmitToken(r) \/ EndOfText(r) \/ ReturnAborted(r) \/ ReturnFailed(r)

Watchdog(r) == WatchdogFires(r) \/ WatchdogRetires(r)

Client(r) == Disconnect(r) \/ ClientReads(r) \/ ClientSeesEnd(r)

\* Every request was answered and every stream read to its end.
Settled(r) ==
  /\ stage[r] = "over"
  /\ wd[r] = "none"
  /\ client[r] = "connected" /\ Streams(r) /\ answer[r] = "none" => StreamEnded(r)

AllSettled == (\A r \in Requests : Settled(r)) /\ UNCHANGED vars

Step(r) == Arrive(r) \/ Handler(r) \/ Closure(r) \/ Genie(r) \/ Watchdog(r) \/ Client(r)

Next == (\E r \in Requests : Step(r)) \/ AllSettled

Spec == Init /\ [][Next]_vars

-----------------------------------------------------------------------------
(* Safety *)

\* Genie does not support two calls at once on one dialog (genie.rs, "Thread-
\* safety"): no request is inside a query or a reset while another one is,
\* although 429, 400 and disconnects let requests come and go in any order
\* and the last reset of a request happens after its client was told "done".
ExclusiveDialog ==
  \A r, s \in Requests :
    (InQuery(r) \/ InReset(r)) /\ (InQuery(s) \/ InReset(s)) => r = s

\* Genie rejects Rewind on an empty KV cache (engine.rs, chat_started).  The
\* flag is set before the query that fills the cache and cleared after the
\* reset that empties it; in between a prompt may be unsendable, a query may
\* fail or be aborted.  Only after a reset that itself failed can a Rewind
\* query find the cache empty.
RewindFindsCache ==
  \A r \in Requests :
    InQuery(r) /\ code[r] = "Rewind" => kv # {} \/ lastReset = "err"

\* A /v1 query never runs on what an earlier request, an abort, a failure or
\* the warm-up left in the dialog, unless its reset failed: it starts on an
\* empty cache of a dialog that has not failed, with Complete.
OpenAIStartsClean ==
  \A r \in Requests :
    InQuery(r) /\ kind[r] \in OpenAI /\ lastReset = "ok" =>
      /\ kv = {} /\ code[r] = "Complete"
      /\ ~tainted /\ health # "failed"

\* No request hands a failed dialog on to the next one: when the permit of a
\* request that queried the dialog is dropped, ERROR_QUERY_FAILED was cleared
\* by a reset, or the reset failed too.
FailureNotHandedOn ==
  [][\A r \in Requests :
       holder = r /\ holder' # r /\ result[r] # "none" =>
         health' # "failed" \/ lastReset' = "err"]_vars

\* Nor does a request whose own closure aborted the query hand on the aborted
\* dialog.
AbortNotHandedOn ==
  [][\A r \in Requests :
       holder = r /\ holder' # r /\ aborted[r] =>
         ~tainted' \/ lastReset' = "err"]_vars

\* A client that was told its request is over - by the end of the stream or by
\* the reply - will not be refused with 429 on account of that request: the
\* permit was dropped before.
EndMeansReleased ==
  \A r \in Requests :
    StreamEnded(r) \/ answer[r] # "none" => holder # r

\* What a stream's client reads, whatever it reads and whenever it is read: the
\* Role item first (/v1), then the tokens from the first on without a gap and
\* no more than max_tokens of them, then at most one Done or Error, then the
\* end.  A connected client never sees the end without a Done or an Error.
WellFormedView(r) ==
  LET items   == view[r]
      What(i) == items[i].what
  IN /\ \A i \in DOMAIN items :
          /\ What(i) = "Role" <=> i <= Lead(r)
          /\ What(i) = "Content" => items[i].n = i - Lead(r) /\ items[i].n <= limit[r]
     /\ \A i, j \in DOMAIN items :
          i < j => What(i) # "End" /\ (What(i) \in LastWords => What(j) = "End")
     /\ StreamEnded(r) => \E i \in DOMAIN items : What(i) \in LastWords

StreamsWellFormed == \A r \in Requests : WellFormedView(r)

\* INFERENCE_WALL_CLOCK_MAX: an inference that still has its watchdog produces
\* no more tokens than fit before the deadline, and the one that carries the
\* abort.  ("Has its watchdog": a /v1 request, except a blocking one whose
\* client is gone.)
CapHolds(r) == gen[r] <= Deadline + 1

Watched(r) == kind[r] = "v1_stream" \/ (kind[r] = "v1_block" /\ client[r] = "connected")

WatchedAreCapped == \A r \in Requests : Watched(r) => CapHolds(r)

-----------------------------------------------------------------------------
(* Why: the invariant behind the safety properties *)

\* Between taking the permit and dropping it.
Occupies(r) ==
  stage[r] \in {"resetting", "checking", "queued", "genie", "callback", "err_reset",
                "sending_last", "abort_reset", "leaving"}

\* The permit is held by exactly the request that is between the two.
HolderInv == \A r \in Requests : Occupies(r) <=> holder = r

\* r's query is to fill the cache, or failed to.
Priming(r) == stage[r] = "err_reset" \/ (InQuery(r) /\ code[r] = "Complete")

\* chat_started with an empty cache: only while a first query is under way or
\* its failure is being cleaned up, or after that clean-up failed.
CacheInv ==
  chatStarted /\ kv = {} =>
    lastReset = "err" \/ \E r \in Requests : Priming(r)

\* Only /api/chat looks at its messages while it holds the permit, and only /v1
\* resets the dialog first.
KindInv ==
  \A r \in Requests :
    /\ stage[r] = "checking" => kind[r] \in OllamaChat
    /\ stage[r] = "resetting" => kind[r] \in OpenAI

\* From the reset of a /v1 request to the end of its query.
CleanInv ==
  \A r \in Requests :
    kind[r] \in OpenAI /\ (stage[r] = "queued" \/ InQuery(r)) /\ lastReset = "ok" =>
      /\ kv = {} /\ ~tainted /\ health # "failed"
      /\ stage[r] = "queued" => ~chatStarted
      /\ InQuery(r) => code[r] = "Complete"

\* Nobody is told about an end before it.
EndInv ==
  \A r \in Requests : StreamEnded(r) \/ answer[r] # "none" => stage[r] = "over"

\* A request has no result before its query, only a stream's closure aborts, and
\* what a failed or an aborted query leaves behind is gone when the closure
\* comes to its last statements, or the reset failed.
HandOnInv ==
  \A r \in Requests :
    /\ stage[r] \in {"new", "resetting", "checking", "queued"} => ~aborted[r]
    /\ stage[r] \in {"new", "resetting", "checking", "queued"} \/ InQuery(r)
         => result[r] = "none"
    /\ stage[r] = "callback" \/ aborted[r] => Streams(r)
    /\ stage[r] \in {"sending_last", "abort_reset", "leaving"}
         => health # "failed" \/ lastReset = "err"
    /\ stage[r] = "leaving" /\ aborted[r] => ~tainted \/ lastReset = "err"

\* A request begins with nothing generated, and a watched one with its watchdog
\* armed.  While it generates, the watchdog is there to fire, or its signal is
\* on the way, or has arrived.
CapInv ==
  \A r \in Requests :
    /\ stage[r] \in {"new", "resetting", "checking", "queued"} => gen[r] = 0
    /\ Watched(r) => CapHolds(r)
    /\ Watched(r) /\ stage[r] = "queued" => wd[r] = "armed"
    /\ Watched(r) /\ InQuery(r) =>
         \/ abort = "final"
         \/ gen[r] <= Deadline /\ (wd[r] = "armed" \/ abort = "signalled")

\* What was sent to r's client, read already or not.
Sent(r) == view[r] \o chan[r]

\* The first k items of s are the Role and the first tokens.
Opens(r, s, k) ==
  /\ Lead(r) <= k /\ k <= Len(s)
  /\ \A i \in 1 .. k :
       IF i <= Lead(r) THEN s[i] = Item("Role", 0)
       ELSE s[i] = Item("Content", i - Lead(r)) /\ i - Lead(r) <= limit[r]

Starting(r) == stage[r] \in {"new", "resetting", "checking"}

\* Nothing is sent, or nothing of it is left.
Silent(r) == Starting(r) \/ ~Streams(r) \/ client[r] = "gone" \/ answer[r] # "none"

\* The closure has not sent its last item.
Open(r) == stage[r] \in {"queued", "genie", "callback", "err_reset", "sending_last"}

\* A stream is the Role, the tokens up to the one the closure has come to, then
\* Done or Error, then the end: reading moves items, and changes none.
StreamOf(r) ==
  /\ Starting(r) => client[r] = "connected"
  /\ stage[r] = "sending_last" => Streams(r)
  /\ Silent(r) => view[r] = <<>> /\ chan[r] = <<>>
  /\ ~Silent(r) /\ Open(r) =>
       /\ Opens(r, Sent(r), Len(Sent(r)))
       /\ ~aborted[r] /\ (stage[r] = "queued" \/ InQuery(r)) =>
            Len(Sent(r)) = Lead(r) + gen[r] - (IF stage[r] = "callback" THEN 1 ELSE 0)
  /\ ~Silent(r) /\ ~Open(r) =>
       LET k == Len(Sent(r)) - (IF StreamEnded(r) THEN 2 ELSE 1)
       IN /\ Opens(r, Sent(r), k)
          /\ Sent(r)[k + 1].what \in LastWords
          /\ StreamEnded(r) => chan[r] = <<>>

StreamInv == \A r \in Requests : StreamOf(r)

\* The inductive invariant: what the proofs show, in one formula.
IInv ==
  /\ HolderInv /\ EndInv /\ KindInv
  /\ CacheInv /\ RewindFindsCache /\ CleanInv
  /\ HandOnInv /\ CapInv /\ StreamInv

-----------------------------------------------------------------------------
(* What a comment in the code says, and the code does not keep *)

\* openai.rs, spawn_inference_watchdog: the watchdog "cancels itself instead of
\* firing against an idle dialog" once the inference is done.  It can still
\* fire, and then abort the next request's query.
WatchdogHitsOwnQuery ==
  [][\A r \in Requests :
       WatchdogFires(r) /\ wd'[r] # wd[r] => (QueryInFlight => InQuery(r))]_vars

-----------------------------------------------------------------------------
(* Liveness *)

\* What the runtime, Genie and the timers owe: every enabled step of a handler,
\* a closure or a watchdog task is taken in the end, and Genie goes on - to the
\* next token, or out of the query once it was signalled or the context is full.
FairServer ==
  \A r \in Requests :
    /\ WF_vars(Handler(r))
    /\ WF_vars(Closure(r))
    /\ WF_vars(Genie(r))
    /\ WF_vars(Watchdog(r))

\* Clients that read what they are sent, or go away.  Nothing makes them: this is
\* the premise of the properties that a stalled reader refutes.
FairClients ==
  \A r \in Requests : WF_vars(ClientReads(r) \/ ClientSeesEnd(r))

ServerSpec == Spec /\ FairServer

\* Every admitted request is answered if clients read: its reply comes, or its
\* stream ends, unless its client goes away.
EveryRequestEnds ==
  FairClients => \A r \in Requests :
    holder = r ~> answer[r] # "none" \/ StreamEnded(r) \/ client[r] = "gone"

\* A client that goes away leaves nothing behind that holds the permit, whether
\* the other clients read or not (openai.rs, "zombie inference").
DisconnectReleases ==
  \A r \in Requests : client[r] = "gone" ~> holder # r

\* Why nothing goes on for ever: the steps that a request has left at most, its
\* handler's, its closure's, Genie's, its watchdog's and its client's.
StagesLeft(r) ==
  LET Tokens == 2 * (CtxEnd - gen[r])
  IN CASE stage[r] = "over"         -> 0
       [] stage[r] = "unwinding"    -> 1
       [] stage[r] = "leaving"      -> 2
       [] stage[r] = "abort_reset"  -> 3
       [] stage[r] = "sending_last" -> 4
       [] stage[r] = "err_reset"    -> 5
       [] stage[r] = "genie"        -> 6 + Tokens
       [] stage[r] = "callback"     -> 7 + Tokens
       [] stage[r] = "queued"       -> 8 + 2 * CtxEnd
       [] stage[r] \in {"resetting", "checking"} -> 10 + 2 * CtxEnd
       [] stage[r] = "new"          -> 11 + 2 * CtxEnd

\* A step of the closure may send the client an item, the first one also arms
\* the watchdog.
StepsLeft(r) ==
  3 * StagesLeft(r) + Len(chan[r])
    + (CASE wd[r] = "armed" -> 2 [] wd[r] = "cancelled" -> 1 [] wd[r] = "none" -> 0)
    + (IF client[r] = "connected" THEN 1 ELSE 0)
    + (IF StreamEnded(r) THEN 0 ELSE 1)

\* Every step, of whomever and in whatever order, brings one request nearer to
\* its end and throws no other one back: a retry, a reset after an error, a
\* watchdog that fires late, a client that reads slowly or goes away never lets
\* a closure come again to where it was.  No fairness is needed for it: the
\* server cannot be busy with finitely many requests for ever, it can only
\* stand still.
EveryStepCounts ==
  [][\E r \in Requests :
       /\ StepsLeft(r)' < StepsLeft(r)
       /\ \A s \in Requests \ {r} : StepsLeft(s)' = StepsLeft(s)]_vars

-----------------------------------------------------------------------------
(* Refinement: the permit is the gate *)

PhaseOf(r) ==
  CASE stage[r] = "new" -> "new"
    [] stage[r] \in {"resetting", "checking", "queued"} -> "admitted"
    [] InQuery(r) -> "inferring"
    [] stage[r] \in {"err_reset", "sending_last", "abort_reset", "leaving"} -> "settling"
    [] stage[r] \in {"unwinding", "over"} ->
         IF answer[r] = "busy" THEN "refused"
         ELSE IF answer[r] = "bad_request" THEN "invalid" ELSE "done"

Gate == INSTANCE InferenceGate
          WITH permit <- holder, phase <- [r \in Requests |-> PhaseOf(r)]

\* The server implements the gate's safety part ...
ImplementsGate == Gate!GateSafety

\* ... and, if clients read or go away, all of it: whoever was admitted leaves.
ImplementsLiveGate == FairClients => Gate!GateLiveness

=============================================================================
