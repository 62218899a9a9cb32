--------------------------- MODULE ChatTranscript ---------------------------
(***************************************************************************)
(* From the messages of a chat request to the prompt Genie is given:       *)
(* chat_completions and its helpers (npurun-server openai.rs), api_chat    *)
(* (ollama.rs) and ChatTemplate (npurun-core manifest.rs).                 *)
(*                                                                         *)
(* A message is its role, the length of its text and its position in the   *)
(* request; the instructions the server appends to a text are kept as the  *)
(* set `hints'.  A prompt is the sequence of template expansions it is     *)
(* concatenated from.                                                      *)
(***************************************************************************)
EXTENDS Naturals, Sequences, SequencesExt

CONSTANTS
  Requests,   \* the requests that clients send
  Budget,     \* DEFAULT_INPUT_TOKEN_BUDGET, in estimated tokens
  HintLength  \* characters of an appended instruction

ASSUME TranscriptAssumption == Budget \in Nat /\ HintLength \in Nat
ASSUME RequestsAssumption ==
  \A r \in Requests :
    /\ r.endpoint \in {"v1", "api"} /\ r.template \in {"multi", "single", "none"}
    /\ r.messages \in Seq([role : STRING, len : Nat])
    /\ r.tools \in BOOLEAN /\ r.json \in BOOLEAN /\ r.stream \in BOOLEAN

VARIABLES
  request,    \* the endpoint, its messages, tools, json, stream; the template
  phase,      \* the last step done
  messages,   \* the messages as the handler holds them
  trimmed,    \* was_trimmed
  system,     \* the system prompt: the message it was taken from, its hints
  prompt,     \* the expansions the transcript is made of
  outcome     \* what came of the request

vars == <<request, phase, messages, trimmed, system, prompt, outcome>>

Roles == {"system", "user", "assistant"}
Hints == {"tools", "json"}
Forms == {"template", "assistant_turn", "next_user_turn"}
DefaultSystem == [id |-> 0, hints |-> {}]

IsSystem(m) == m.role = "system"
IsUser(m) == m.role = "user"

\* The messages that have one of these roles, in order.
WithRoles(ms, roles) ==
  LET kept[n \in 0 .. Len(ms)] ==
        IF n = 0 THEN <<>>
        ELSE IF ms[n].role \in roles THEN Append(kept[n - 1], ms[n]) ELSE kept[n - 1]
  IN  kept[Len(ms)]

\* Estimated tokens, of a message and of the last n of several.
EstimateTokens(m) == m.len \div 4 + 8
RecentTokens(ms) ==
  LET tokens[n \in 0 .. Len(ms)] ==
        IF n = 0 THEN 0 ELSE tokens[n - 1] + EstimateTokens(ms[Len(ms) - n + 1])
  IN  tokens
TotalTokens(ms) == RecentTokens(ms)[Len(ms)]
Monus(a, b) == IF a > b THEN a - b ELSE 0

-----------------------------------------------------------------------------
(* The handler. *)

Init ==
  /\ request \in Requests
  /\ phase = "received"
  /\ messages = <<>>
  /\ trimmed = FALSE
  /\ system = DefaultSystem
  /\ prompt = <<>>
  /\ outcome = "pending"

Answer(o) == outcome' = o /\ phase' = "done"

\* The filter_map over the request's messages.  Tool results become user
\* messages on /v1; the other roles that are not the engine's are dropped.
RoleOf(endpoint, role) == IF endpoint = "v1" /\ role = "tool" THEN "user" ELSE role

ConvertRoles_KeepAll ==  \* a mutant: no role is dropped
  /\ phase = "received"
  /\ messages' = [i \in DOMAIN request.messages |->
                    [role |-> RoleOf(request.endpoint, request.messages[i].role),
                     len |-> request.messages[i].len, id |-> i, hints |-> {}]]
  /\ phase' = "converted"
  /\ UNCHANGED <<request, trimmed, system, prompt, outcome>>
ConvertRoles ==
  LET all == [i \in DOMAIN request.messages |->
                [role |-> RoleOf(request.endpoint, request.messages[i].role),
                 len |-> request.messages[i].len, id |-> i, hints |-> {}]]
  IN  /\ phase = "received"
      /\ messages' = WithRoles(all, Roles)
      /\ phase' = "converted"
      /\ UNCHANGED <<request, trimmed, system, prompt, outcome>>

\* Streaming together with tools is refused.
RefuseStreamedTools ==
  /\ phase = "converted" /\ request.endpoint = "v1"
  /\ request.tools /\ request.stream
  /\ Answer("tools_need_blocking")
  /\ UNCHANGED <<request, messages, trimmed, system, prompt>>

\* augment_for_tools and augment_for_json_mode: the instruction goes to the
\* end of the first system message, or into a new one in front.
WithHint(ms, hint) ==
  LET s == SelectInSeq(ms, IsSystem)
  IN  IF s # 0
      THEN [ms EXCEPT ![s].len = @ + 2 + HintLength, ![s].hints = @ \cup {hint}]
      ELSE Cons([role |-> "system", len |-> HintLength, id |-> 0, hints |-> {hint}], ms)

Augment ==
  LET tooled == IF request.tools THEN WithHint(messages, "tools") ELSE messages
  IN  /\ phase = "converted" /\ request.endpoint = "v1"
      /\ ~(request.tools /\ request.stream)
      /\ messages' = IF request.json THEN WithHint(tooled, "json") ELSE tooled
      /\ phase' = "augmented"
      /\ UNCHANGED <<request, trimmed, system, prompt, outcome>>

\* The loop of trim_messages_for_context: from the back, until a message no
\* longer fits; the first one it looks at is kept whatever it costs.  `kept'
\* counts the messages taken, n the ones there were to look at.
KeepStep(m, n, acc) ==
  IF acc.kept + 1 # n \/ (EstimateTokens(m) > acc.budget /\ acc.kept # 0)
  THEN acc
  ELSE [budget |-> Monus(acc.budget, EstimateTokens(m)), kept |-> n]

KeepLoop(ms, budget) ==
  LET acc[n \in 0 .. Len(ms)] ==
        IF n = 0 THEN [budget |-> budget, kept |-> 0]
        ELSE KeepStep(ms[Len(ms) - n + 1], n, acc[n - 1])
  IN  acc
KeepRecent_Oldest(ms, budget) ==  \* a mutant: counted from the front
  SubSeq(ms, 1, KeepLoop(ms, budget)[Len(ms)].kept)
KeepRecent(ms, budget) ==
  SubSeq(ms, Len(ms) - KeepLoop(ms, budget)[Len(ms)].kept + 1, Len(ms))

TrimForContext_Unbudgeted(ms) ==  \* a mutant: the system message costs nothing
  LET s == SelectInSeq(ms, IsSystem)
  IN  IF s = 0 THEN KeepRecent(ms, Budget)
      ELSE Cons(ms[s], KeepRecent(RemoveAt(ms, s), Budget))
TrimForContext(ms) ==
  LET s == SelectInSeq(ms, IsSystem)
  IN  IF s = 0 THEN KeepRecent(ms, Budget)
      ELSE Cons(ms[s], KeepRecent(RemoveAt(ms, s), Monus(Budget, EstimateTokens(ms[s]))))

Trim ==
  /\ phase = "augmented"
  /\ trimmed' = (TotalTokens(messages) > Budget)
  /\ messages' = IF trimmed' THEN TrimForContext(messages) ELSE messages
  /\ phase' = "trimmed"
  /\ UNCHANGED <<request, system, prompt, outcome>>

\* Both endpoints refuse a request that has no user message left.
CheckUser ==
  /\ phase = IF request.endpoint = "v1" THEN "trimmed" ELSE "converted"
  /\ IF \E i \in DOMAIN messages : IsUser(messages[i])
     THEN phase' = "checked" /\ UNCHANGED outcome
     ELSE Answer("no_user")
  /\ UNCHANGED <<request, messages, trimmed, system, prompt>>

-----------------------------------------------------------------------------
(* ChatTemplate::wrap_chat. *)

SystemOf(ms) ==
  LET s == SelectInSeq(ms, IsSystem)
  IN  IF s = 0 THEN DefaultSystem ELSE [id |-> ms[s].id, hints |-> ms[s].hints]

\* Without the two follow-up templates, the last user message alone.
WrapLast_First(turns) ==  \* a mutant: the first user message
  LET u == SelectInSeq(turns, IsUser)
  IN  IF u = 0 THEN <<>> ELSE <<[form |-> "template", id |-> turns[u].id]>>
WrapLast(turns) ==
  LET u == SelectLastInSeq(turns, IsUser)
  IN  IF u = 0 THEN <<>> ELSE <<[form |-> "template", id |-> turns[u].id]>>

\* The first user turn opens; assistant turns before it are skipped.
WrapTurns_Latest(turns) ==  \* a mutant: the walk starts at the last user turn
  LET u == SelectLastInSeq(turns, IsUser)
      walked == IF u = 0 THEN <<>> ELSE SubSeq(turns, u, Len(turns))
  IN  [i \in DOMAIN walked |->
         [form |-> IF i = 1 THEN "template" ELSE "assistant_turn", id |-> walked[i].id]]
WrapTurns(turns) ==
  LET u == SelectInSeq(turns, IsUser)
      walked == IF u = 0 THEN <<>> ELSE SubSeq(turns, u, Len(turns))
      Form(i) == IF i = 1 THEN "template"
                 ELSE IF IsUser(walked[i]) THEN "next_user_turn" ELSE "assistant_turn"
  IN  [i \in DOMAIN walked |-> [form |-> Form(i), id |-> walked[i].id]]

WrapChat(ms) ==
  LET turns == WithRoles(ms, Roles \ {"system"})
  IN  IF request.template = "multi" THEN WrapTurns(turns) ELSE WrapLast(turns)

\* generate_chat and generate_chat_streaming, up to the query.
BuildPrompt ==
  /\ phase = "checked"
  /\ IF request.template = "none"
     THEN Answer("no_template") /\ UNCHANGED <<system, prompt>>
     ELSE /\ system' = SystemOf(messages)
          /\ prompt' = WrapChat(messages)
          /\ Answer(IF prompt' = <<>> THEN "no_user" ELSE "prompted")
  /\ UNCHANGED <<request, messages, trimmed>>

Done == phase = "done" /\ UNCHANGED vars

Next ==
  \/ ConvertRoles \/ RefuseStreamedTools \/ Augment \/ Trim
  \/ CheckUser \/ BuildPrompt \/ Done

Spec == Init /\ [][Next]_vars

-----------------------------------------------------------------------------
(* Properties. *)

\* The roles of the conversation as the engine sees them.
SentRole(i) == RoleOf(request.endpoint, request.messages[i].role)
SentUsers == {i \in DOMAIN request.messages : SentRole(i) = "user"}
SentTurns == {i \in DOMAIN request.messages : SentRole(i) \in {"user", "assistant"}}
Asked == {h \in Hints : IF h = "tools" THEN request.tools ELSE request.json}
PromptIds == {prompt[i].id : i \in DOMAIN prompt}

\* Every variable keeps its type; a prompt exists exactly if the request is prompted.
TypeOK ==
  /\ phase \in {"received", "converted", "augmented", "trimmed", "checked", "done"}
  /\ \A i \in DOMAIN messages :
        messages[i].role \in Roles /\ messages[i].hints \subseteq Hints
  /\ trimmed \in BOOLEAN
  /\ system.hints \subseteq Hints
  /\ \A i \in DOMAIN prompt : prompt[i].form \in Forms
  /\ outcome \in {"pending", "tools_need_blocking", "no_user", "no_template", "prompted"}
  /\ outcome = "prompted" <=> prompt # <<>>

\* However a request is trimmed and its roles are filtered, what Genie reads is
\* one recent stretch of the conversation: in order, opened once by `template'
\* with a user turn, and with no turn missing after that one.  Messages of the system are no turns.
PromptIsRecentStretch ==
  outcome = "prompted" =>
    /\ prompt[1].form = "template" /\ prompt[1].id \in SentUsers
    /\ \A i \in 2 .. Len(prompt) :
         /\ prompt[i].id > prompt[i - 1].id
         /\ prompt[i].form = IF prompt[i].id \in SentUsers THEN "next_user_turn"
                             ELSE "assistant_turn"
    /\ request.template = "multi" =>
         PromptIds = {t \in SentTurns : t >= prompt[1].id}

\* "Only the first such message is honoured; the rest are merged into the
\* conversation as if user" (ChatRole::System, manifest.rs:134-135): of a
\* conversation that is not trimmed every later system message is in the
\* prompt.  wrap_chat filters them all out, as its own comment says ("Other
\* system messages are ignored", manifest.rs:168-169).
LaterSystemMerged ==
  (outcome = "prompted" /\ ~trimmed /\ request.template = "multi") =>
    \A i \in DOMAIN request.messages :
      (/\ SentRole(i) = "system" /\ i > prompt[1].id
       /\ \E j \in 1 .. i - 1 : SentRole(j) = "system")
      => i \in PromptIds

\* A conversation that ends with the user is answered at that message: it is
\* in the prompt, last, whatever had to be dropped before it (openai.rs:733,
\* "that's the user's current question").
AnswersLastUser ==
  (/\ outcome = "prompted"
   /\ \A t \in SentTurns : \E u \in SentUsers : u >= t)
  => prompt[Len(prompt)].id \in SentUsers
       /\ \A u \in SentUsers : u <= prompt[Len(prompt)].id

\* The trim keeps the system message in front, with the instructions that were
\* appended to it, and beside it the longest run of recent messages that fits,
\* or the last message alone: never more than the budget for the sake of an
\* older message, never less than would fit.
TrimKeepsLongestFit ==
  (trimmed /\ phase = "trimmed") =>
    LET SystemIds == {0} \cup {i \in DOMAIN request.messages :
                        /\ SentRole(i) = "system"
                        /\ \A j \in 1 .. i - 1 : SentRole(j) # "system"}
        kept == {messages[i].id : i \in DOMAIN messages} \ SystemIds
        older == {i \in DOMAIN request.messages \ (kept \cup SystemIds) :
                    SentRole(i) \in Roles}
    IN  /\ \A s \in SystemIds \ {0} : messages[1].id = s
        /\ Asked # {} => messages[1].id \in SystemIds /\ messages[1].hints = Asked
        /\ kept = {} => older = {}
        /\ (\A k, l \in kept : k = l) \/ TotalTokens(messages) <= Budget
        /\ \A o \in older : \A k \in kept : o < k
        /\ older = {} \/ \E o \in older :
             /\ \A p \in older : p <= o
             /\ TotalTokens(messages) + EstimateTokens(request.messages[o]) > Budget

\* The next turn of an untrimmed conversation extends the previous prompt:
\* the transcript of all but the last two turns is a prefix of this one, which
\* is what lets Genie rewind to it (engine.rs:381-387, /api/chat).
PrefixReused ==
  LET n == Len(messages)
      earlier == SubSeq(messages, 1, n - 2)
  IN  (/\ outcome = "prompted" /\ ~trimmed /\ request.template = "multi" /\ n > 2
       /\ messages[n - 1].role = "assistant" /\ IsUser(messages[n]))
      => /\ IsPrefix(WrapChat(earlier), prompt)
         /\ SystemOf(earlier) = system

=============================================================================
