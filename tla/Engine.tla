------------------------------- MODULE Engine -------------------------------
(***************************************************************************)
(* The inference engine of npurun-core (crates/npurun-core/src/engine.rs)  *)
(* over one Genie dialog handle (crates/qnn/src/genie.rs).                 *)
(*                                                                         *)
(* The engine keeps a single flag, chat_started, that picks the sentence   *)
(* code of the next chat query.  Everything else here is the state of      *)
(* libGenie, which is not part of the repository: it is modelled from what *)
(* engine.rs, genie.rs and openai.rs rely on and say about it.             *)
(*                                                                         *)
(* Each operator below is one call into the engine.  Who may call, and     *)
(* when, is decided by the HTTP handlers: InferenceServer composes them.   *)
(***************************************************************************)
EXTENDS Naturals, FiniteSets

CONSTANTS
  Requests,   \* identities of the HTTP requests the server ever receives
  Warmup      \* stands for the warm-up query of `npurun serve`

ASSUME WarmupAssumption == Warmup \notin Requests

VARIABLES
  chatStarted,  \* Engine::chat_started
  kv,           \* whose tokens the dialog's KV cache holds
  health,       \* does the dialog still answer queries?
  tainted,      \* a query was aborted and the dialog not reset since
  lastReset,    \* what the last GenieDialog_reset returned
  abort         \* the abort signal of the query in flight

engineVars == <<chatStarted, kv, health, tainted, lastReset, abort>>

Owners == Requests \cup {Warmup}

\* "failed": a query returned ERROR_QUERY_FAILED, and so will every query
\* until a reset.  "bricked": not even a reset brings the dialog back.
Healths == {"ok", "failed", "bricked"}

\* "signalled": GenieDialog_signal was called; "final": Genie has noticed it
\* and is making the one callback that carries the abort code.
Aborts == {"none", "signalled", "final"}

Codes == {"Complete", "Rewind"}

EngineTypeOK ==
  /\ chatStarted \in BOOLEAN
  /\ kv \subseteq Owners
  /\ health \in Healths
  /\ tainted \in BOOLEAN
  /\ lastReset \in {"ok", "err"}
  /\ abort \in Aborts

(***************************************************************************)
(* Engine::load, then the warm-up `generate("Hi.")` of `npurun serve`:     *)
(* absent with --no-warmup, and its failure is printed and passed over.    *)
(* Neither path resets the dialog afterwards.                              *)
(***************************************************************************)
EngineInit ==
  /\ chatStarted = FALSE
  /\ tainted = FALSE
  /\ lastReset = "ok"
  /\ abort = "none"
  /\ \/ kv = {} /\ health \in {"ok", "failed"}
     \/ kv = {Warmup} /\ health \in {"ok", "failed"}

-----------------------------------------------------------------------------
FlagAfterReset_Kept == chatStarted  \* a mutant: the flag is never cleared
FlagAfterReset == FALSE

(***************************************************************************)
(* Engine::reset_dialog.  The flag is cleared only after GenieDialog_reset *)
(* returned success; an error leaves both the flag and the dialog alone.   *)
(***************************************************************************)
ResetDialog ==
  \/ /\ kv' = {}
     /\ tainted' = FALSE
     /\ health' = IF health = "bricked" THEN "bricked" ELSE "ok"
     /\ lastReset' = "ok"
     /\ chatStarted' = FlagAfterReset
     /\ UNCHANGED abort
  \/ /\ lastReset' = "err"
     /\ UNCHANGED <<chatStarted, kv, health, tainted, abort>>

SignalAbort_Lost(inFlight) == UNCHANGED abort  \* a mutant: no signal is sent

(***************************************************************************)
(* Engine::signal_abort.  With no query in flight it does nothing.         *)
(***************************************************************************)
SignalAbort(inFlight) ==
  abort' = IF inFlight /\ abort = "none" THEN "signalled" ELSE abort

(***************************************************************************)
(* The sentence code of a query.  Engine::generate and generate_streaming  *)
(* always send Complete and do not look at chat_started;                   *)
(* generate_chat_streaming compare-and-swaps it: whoever finds it unset    *)
(* sets it and sends Complete, everyone else sends Rewind.                 *)
(***************************************************************************)
CodeFor(chat) == IF chat /\ chatStarted THEN "Rewind" ELSE "Complete"

SwapFlag(chat) == chatStarted' = (chatStarted \/ chat)

-----------------------------------------------------------------------------
(***************************************************************************)
(* GenieDialog_query, from the outside.  Complete appends to whatever the  *)
(* KV cache holds; Rewind cuts the cache back to the common prefix first.  *)
(***************************************************************************)
CacheAfter(code, r) == IF code = "Complete" THEN kv \cup {r} ELSE {r}

\* ERROR_QUERY_FAILED is sticky, and Rewind on an empty cache provokes it.
CanAnswer(code) == health = "ok" /\ ~(code = "Rewind" /\ kv = {})

\* The model reached its end-of-text token, or the end of the context.
QuerySucceeds(code, r) ==
  /\ CanAnswer(code)
  /\ kv' = CacheAfter(code, r)
  /\ abort' = "none"
  /\ UNCHANGED <<chatStarted, health, tainted, lastReset>>

\* Genie noticed the abort signal between two tokens: the query returns
\* success, and the dialog still holds the aborted prompt.
QueryAborted(code, r) ==
  /\ CanAnswer(code)
  /\ abort # "none"
  /\ kv' = CacheAfter(code, r)
  /\ abort' = "none"
  /\ tainted' = TRUE
  /\ UNCHANGED <<chatStarted, health, lastReset>>

\* ERROR_QUERY_FAILED, before or after the prompt went into the cache.
QueryFails(code, r) ==
  /\ kv' \in {kv, CacheAfter(code, r)}
  /\ health' \in (IF health = "bricked" THEN {"bricked"} ELSE {"failed", "bricked"})
  /\ abort' = "none"
  /\ UNCHANGED <<chatStarted, tainted, lastReset>>

\* One more token.  Once Genie has seen the signal there is none after it.
NextToken(code) ==
  /\ CanAnswer(code)
  /\ abort # "final"
  /\ abort' = IF abort = "signalled" THEN "final" ELSE abort
  /\ UNCHANGED <<chatStarted, kv, health, tainted, lastReset>>

=============================================================================
