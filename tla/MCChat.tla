------------------------------- MODULE MCChat -------------------------------
(* ChatCompletion for TLC: every conversation of at most MaxTurns messages, *)
(* the longest with fewer roles; to one short request with tools every      *)
(* reply of at most MaxAtoms atoms, of MaxMarkup atoms of markup, and of    *)
(* MaxBlocks atoms that make up blocks, two complete ones and one more.     *)
EXTENDS ChatCompletion

CONSTANTS Lengths, MaxTurns, MaxAtoms, MaxMarkup, MaxBlocks

WireMessages(roles) == [role : roles, len : Lengths]
Conversations ==
  BoundedSeq(WireMessages({"system", "user", "assistant", "tool", "critic"}), MaxTurns - 1)
    \cup TupleOf(WireMessages({"system", "user", "assistant"}), MaxTurns)

AllRequests ==
  [endpoint : {"v1"}, messages : Conversations, tools : BOOLEAN, json : BOOLEAN,
   stream : BOOLEAN, template : {"multi", "single"}]
  \cup
  [endpoint : {"api"}, messages : Conversations, tools : {FALSE}, json : {FALSE},
   stream : {FALSE}, template : {"multi", "single", "none"}]
\* stream makes a difference beside tools only, length with the full template.
MCRequests ==
  {r \in AllRequests : /\ r.stream => r.tools
                       /\ Len(r.messages) = MaxTurns => r.template = "multi"}

Tags == {"tool_call", "clock"}
Values == {Json("clock", TRUE, TRUE), Json("clock", FALSE, TRUE),
           Json("", FALSE, TRUE), Json("", FALSE, FALSE)}
Markup == {Open(t) : t \in Tags} \cup {Close(t) : t \in Tags} \cup {Json("", FALSE, TRUE), LoneLt}
MCAtoms == Markup \cup Values \cup {Open("Tool_Call"), EmptyTag, Space, Prose}

Blocks == {Open("clock"), Close("clock"), Json("", FALSE, TRUE)}

\* Any MaxAtoms atoms, and fewer kinds of them beyond, to one short request.
Probe(r) ==
  /\ r.endpoint = "v1" /\ r.tools /\ ~r.json /\ r.template = "multi"
  /\ r.messages = <<[role |-> "user", len |-> 0]>>
MCMayFollow(r, text, a) ==
  /\ Probe(r)
  /\ \/ Len(text) < MaxAtoms
     \/ Len(text) < MaxMarkup /\ a \in Markup /\ Range(text) \subseteq Markup
     \/ Len(text) < MaxBlocks /\ a \in Blocks /\ Range(text) \subseteq Blocks

=============================================================================
