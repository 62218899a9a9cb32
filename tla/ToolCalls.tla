----------------------------- MODULE ToolCalls -----------------------------
(***************************************************************************)
(* parse_tool_calls (npurun-server openai.rs): the scan of a model's reply *)
(* for tool calls, one action per way an iteration of its loop can end.    *)
(*                                                                         *)
(* A reply is a sequence of atoms: an opening or closing tag, the empty    *)
(* tag "<>", a lone "<", white space, other prose, and JSON values, which  *)
(* are objects with or without a name and arguments, or no objects at all, *)
(* and whose strings hold no angle brackets.                               *)
(***************************************************************************)
EXTENDS Naturals, Sequences, SequencesExt

VARIABLES
  reply,   \* the model's text
  cursor,  \* the first atom not looked at
  calls,   \* what was extracted, with the place it was found at
  parse    \* "idle", "scanning", "none" (None), "some" (Some)

toolVars == <<reply, cursor, calls, parse>>

Atom(kind, tag) == [kind |-> kind, tag |-> tag, name |-> "", args |-> FALSE, object |-> FALSE]
Open(t) == Atom("open", t)
Close(t) == Atom("close", t)
EmptyTag == Atom("empty", "")
LoneLt == Atom("lt", "")
Space == Atom("space", "")
Prose == Atom("prose", "")
Json(n, a, o) == [kind |-> "json", tag |-> "", name |-> n, args |-> a, object |-> o]

IsCallTag(t) == t \in {"tool_call", "Tool_Call"}   \* eq_ignore_ascii_case

Bare(k) == k \in {"open", "close", "empty", "lt"}  \* holds a "<"
Ends(k) == k \in {"open", "close", "empty"}        \* holds a ">"

\* str::trim: white space at either end is not looked at.
Blank(a) == a.kind = "space"
Trimmed(s) ==
  LET first == SelectInSeq(s, LAMBDA a : ~Blank(a))
      last == SelectLastInSeq(s, LAMBDA a : ~Blank(a))
  IN  IF first = 0 THEN <<>> ELSE SubSeq(s, first, last)

\* serde_json::from_str of a piece of text succeeds on one JSON value.
IsJson(s) == Len(s) = 1 /\ s[1].kind = "json"

\* An explicit `arguments' field, else the object without its name, else {}.
Arguments(v) == IF v.args THEN "arguments" ELSE IF v.object THEN "rest" ELSE "empty"

ToolsInit ==
  /\ reply = <<>> /\ cursor = 1 /\ calls = <<>> /\ parse = "idle"

\* The shortcut for a reply that is one bare object with a name.
BareCall(text) ==
  LET t == Trimmed(text) IN IsJson(t) /\ t[1].object /\ t[1].name # ""

StartParse ==
  /\ parse = "idle"
  /\ cursor' = 1
  /\ IF BareCall(reply)
     THEN LET v == Trimmed(reply)[1]
          IN  /\ calls' = <<[name |-> v.name, at |-> 0,
                             args |-> IF v.args THEN "arguments" ELSE "empty"]>>
              /\ parse' = "some"
     ELSE calls' = <<>> /\ parse' = "scanning"
  /\ UNCHANGED reply

\* The next "<" and the ">" that follows it, 0 if there is none.  A lone "<"
\* takes the tag up to the next ">" for its own.
NextLt == SelectInSubSeq(reply, cursor, Len(reply), LAMBDA a : Bare(a.kind))
NextGt == SelectInSubSeq(reply, NextLt, Len(reply), LAMBDA a : Ends(a.kind))
ClosedAt_Any ==  \* a mutant: any closing tag ends the block
  SelectInSubSeq(reply, NextGt + 1, Len(reply), LAMBDA a : a.kind = "close")
ClosedAt ==
  SelectInSubSeq(reply, NextGt + 1, Len(reply), LAMBDA a : a = Close(reply[NextLt].tag))
Body == Trimmed(SubSeq(reply, NextGt + 1, ClosedAt - 1))

\* The tag's own name does when the object has none, but for <tool_call>.
CallName(tag, v) == IF v.object /\ v.name # "" THEN v.name
                    ELSE IF IsCallTag(tag) THEN "" ELSE tag
NamesTool(tag, v) == CallName(tag, v) # ""

HasTag == NextLt # 0 /\ NextGt # 0
FoundTag == parse = "scanning" /\ HasTag

\* No "<" is left, or no ">" after it.
EndOfText ==
  /\ parse = "scanning"
  /\ ~HasTag
  /\ parse' = IF calls = <<>> THEN "none" ELSE "some"
  /\ UNCHANGED <<reply, cursor, calls>>

\* A closing tag, an empty one, or one whose name is empty.
SkipTag ==
  /\ FoundTag
  /\ reply[NextLt].kind # "open"
  /\ cursor' = NextGt + 1
  /\ UNCHANGED <<reply, calls, parse>>

SkipUnclosed_Stay ==  \* a mutant: the cursor stays on the tag
  /\ FoundTag
  /\ reply[NextLt].kind = "open" /\ ClosedAt = 0
  /\ cursor' = NextLt
  /\ UNCHANGED <<reply, calls, parse>>
SkipUnclosed ==
  /\ FoundTag
  /\ reply[NextLt].kind = "open" /\ ClosedAt = 0
  /\ cursor' = NextGt + 1
  /\ UNCHANGED <<reply, calls, parse>>

Block == FoundTag /\ reply[NextLt].kind = "open" /\ ClosedAt # 0

Callable == IsJson(Body) /\ NamesTool(reply[NextLt].tag, Body[1])

\* A body that is no JSON, or that names no tool, is passed over whole.
SkipBody ==
  /\ Block
  /\ ~Callable
  /\ cursor' = ClosedAt + 1
  /\ UNCHANGED <<reply, calls, parse>>

TakeCall_Last ==  \* a mutant: the scan ends with the first call
  /\ Block /\ Callable
  /\ calls' = Append(calls, [name |-> CallName(reply[NextLt].tag, Body[1]),
                             at |-> NextLt, args |-> Arguments(Body[1])])
  /\ parse' = "some"
  /\ UNCHANGED <<reply, cursor>>
TakeCall ==
  /\ Block /\ Callable
  /\ calls' = Append(calls, [name |-> CallName(reply[NextLt].tag, Body[1]),
                             at |-> NextLt, args |-> Arguments(Body[1])])
  /\ cursor' = ClosedAt + 1
  /\ UNCHANGED <<reply, parse>>

Scan == EndOfText \/ SkipTag \/ SkipUnclosed \/ SkipBody \/ TakeCall

-----------------------------------------------------------------------------
(* Properties, over every reply that is parsed. *)

\* A complete block of a text: the tag at i, the one JSON value at k with
\* nothing but blanks around it, and the tag at j that closes it; it names a
\* tool.
BlockAt(text, i, k, j) ==
  /\ i < k /\ k < j
  /\ text[i].kind = "open" /\ text[j] = Close(text[i].tag)
  /\ text[k].kind = "json" /\ NamesTool(text[i].tag, text[k])
  /\ \A l \in (i + 1 .. j - 1) \ {k} : Blank(text[l])
CallSites(text) == {i \in DOMAIN text : \E k, j \in DOMAIN text : BlockAt(text, i, k, j)}

\* The place i is inside the pair that the tag at h opens, up to the first tag
\* that closes it, or a lone "<" at h takes it for a part of its tag.
Covers(text, h, i) ==
  /\ h < i
  /\ \/ /\ text[h].kind = "open"
        /\ \E j \in i .. Len(text) : text[j] = Close(text[h].tag)
        /\ \A j \in h + 1 .. i - 1 : text[j] # Close(text[h].tag)
     \/ /\ text[h].kind = "lt"
        /\ \A j \in h + 1 .. i - 1 : ~Ends(text[j].kind)

\* The tags that stand by themselves: no other one of them covers them.  There
\* is one such set: a tag is covered by earlier ones only.
TagSites(text) == {i \in DOMAIN text : Bare(text[i].kind)}
Outermost(text, R) == R = {i \in TagSites(text) : \A h \in R : ~Covers(text, h, i)}
OuterTags(text) == CHOOSE R \in SUBSET TagSites(text) : Outermost(text, R)

\* A call is one of those, with the name and the arguments of the block's own
\* tag and value.
IsBlock(text, call) ==
  /\ call.at \in DOMAIN text
  /\ \E k, j \in DOMAIN text :
       /\ BlockAt(text, call.at, k, j)
       /\ call.name = CallName(text[call.at].tag, text[k])
       /\ call.args = Arguments(text[k])
  /\ call.at \in OuterTags(text)

Parsed == parse \in {"none", "some"}

\* Every extracted call is a complete block of the reply, in the order of the
\* text and none twice: tags that are closed late, unclosed or unnamed never
\* make one up, and the scan reads no block again, nor a part of one that it
\* passed over.
CallsAreBlocks ==
  Parsed =>
    \A c \in DOMAIN calls :
      \/ calls[c].at = 0 /\ Len(calls) = 1 /\ BareCall(reply)
      \/ /\ IsBlock(reply, calls[c])
         /\ c > 1 => calls[c - 1].at < calls[c].at

\* Every complete block that stands by itself is extracted, however many there
\* are and whatever malformed tags and blocks stand between them ("Malformed
\* blocks are silently skipped", openai.rs:862).  "The parser scans every well-
\* formed <word>...</word> pair" (openai.rs:858-859) goes further than the code:
\* a pair inside another pair is passed over with it, whether the outer body is
\* JSON or not.
NoCallMissed ==
  Parsed /\ ~BareCall(reply) =>
    \A i \in CallSites(reply) :
      i \in OuterTags(reply) => \E c \in DOMAIN calls : calls[c].at = i

=============================================================================
