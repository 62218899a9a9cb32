----------------------------- MODULE SseClient ------------------------------
(***************************************************************************)
(* `npurun run --addr` (npurun-cli main.rs, run_remote): the check of the  *)
(* model behind /healthz, the POST, and the reader of the event stream     *)
(* that chat_completions_streaming (npurun-server openai.rs) sends.        *)
(*                                                                         *)
(* An event is a few atoms of text and two line ends; the network hands    *)
(* them on in chunks cut anywhere.  Line ends are \n as the server writes  *)
(* them, or \r\n as an intermediary may.  The server may be restarted with *)
(* another model at any time.                                              *)
(***************************************************************************)
EXTENDS Integers, FiniteSets, Sequences

CONSTANTS
  Pieces,      \* texts of content chunks
  Empty,       \* the empty one among them
  Models,      \* what a server may have loaded
  MaxPieces,   \* bounds the content chunks of an answer
  MaxIdle      \* bounds the keep-alive comments in it

ASSUME SseAssumption ==
  /\ Empty \in Pieces
  /\ "none" \notin Models
  /\ MaxPieces \in Nat /\ MaxIdle \in Nat

VARIABLES
  loaded,     \* the model of the server at the address, "none" for no model
  asked,      \* bare_model_name of the model on the command line
  restarted,  \* the server was restarted since the check
  eol,        \* how lines end on the wire
  sent,       \* the items of the answer, keep-alives among them
  model,      \* the model that answers
  wire,       \* atoms sent and not received
  buf,        \* atoms received and not consumed
  printed,    \* the pieces printed
  pc          \* where run_remote is

vars == <<loaded, asked, restarted, eol, sent, model, wire, buf, printed, pc>>

-----------------------------------------------------------------------------
\* Items of the stream: StreamItem, the final marker, KeepAlive's comment.
Content(s) == [kind |-> "content", text |-> s]
Mark(k)    == [kind |-> k, text |-> Empty]
Items == {Content(s) : s \in Pieces}
         \cup {Mark(k) : k \in {"role", "done", "error", "[DONE]", "comment"}}

LF == [eol |-> "lf"]
CR == [eol |-> "cr"]
IsText(a) == a \notin {LF, CR}

\* An event in two halves, so that a chunk may end in the middle of its data.
Halves(item) == <<[half |-> 1, item |-> item], [half |-> 2, item |-> item]>>
Encode(item) == Halves(item) \o eol \o eol

\* split, strip_prefix and join: a line that is the whole of an item, and no
\* other text in the event.
Holds(atoms, item) ==
  \E i \in 1 .. Len(atoms) - 1 :
    /\ <<atoms[i], atoms[i + 1]>> = Halves(item)
    /\ \A j \in DOMAIN atoms \ {i, i + 1} : ~IsText(atoms[j])

\* What an event says to print: the text of a content chunk, unless it is empty.
Shows(item) == item.kind = "content" /\ item.text # Empty
Shown(atoms, item) == Holds(atoms, item) /\ Shows(item)
PieceOf(atoms) ==
  IF \E item \in Items : Shown(atoms, item)
  THEN <<(CHOOSE item \in Items : Shown(atoms, item)).text>>
  ELSE <<>>
IsDone(atoms) == Holds(atoms, Mark("[DONE]"))

StartsAt(s, i, pat) == i + Len(pat) - 1 <= Len(s) /\ SubSeq(s, i, i + Len(pat) - 1) = pat
Positions(s, pat) == {i \in 1 .. Len(s) : StartsAt(s, i, pat)}
First(S) == CHOOSE i \in S : \A j \in S : i <= j

\* find_event_terminator: where it starts and its length, <<0, 0>> for None.
Terminator(s) ==
  LET lf   == Positions(s, <<LF, LF>>)
      crlf == Positions(s, <<CR, LF, CR, LF>>)
  IN CASE lf = {} /\ crlf = {} -> <<0, 0>>
       [] crlf = {} /\ lf # {} -> <<First(lf), 2>>
       [] lf = {} /\ crlf # {} -> <<First(crlf), 4>>
       [] OTHER -> IF First(lf) <= First(crlf) THEN <<First(lf), 2>> ELSE <<First(crlf), 4>>

-----------------------------------------------------------------------------
Init ==
  /\ loaded \in Models \cup {"none"}
  /\ asked \in Models
  /\ restarted = FALSE
  /\ eol \in {<<LF>>, <<CR, LF>>}
  /\ sent = <<>>
  /\ model = "none"
  /\ wire = <<>>
  /\ buf = <<>>
  /\ printed = <<>>
  /\ pc = "healthz"

Ends(outcome) ==
  /\ pc' = outcome
  /\ UNCHANGED <<loaded, asked, restarted, eol, sent, model, wire, buf, printed>>

\* GET /healthz fails, or names no model or another one.
Unhealthy == pc = "healthz" /\ Ends("error")

\* Mutant: any loaded model will do.
IsAsked_Any == loaded # "none"
IsAsked == loaded = asked

Healthy ==
  /\ pc = "healthz"
  /\ IF IsAsked THEN Ends("post") ELSE Ends("error")

\* POST /v1/chat/completions: refused (429 is not retried, 503, lost), or the
\* stream of whatever model is loaded by then opens with its role.
PostFails == pc = "post" /\ Ends("error")

PostAccepted ==
  /\ pc = "post"
  /\ loaded # "none"
  /\ model' = loaded
  /\ sent' = <<Mark("role")>>
  /\ wire' = Encode(Mark("role"))
  /\ pc' = "stream"
  /\ UNCHANGED <<loaded, asked, restarted, eol, buf, printed>>

-----------------------------------------------------------------------------
OfKind(kinds) == {i \in DOMAIN sent : sent[i].kind \in kinds}
Answered == OfKind({"done", "error"}) # {}
Closed == OfKind({"[DONE]"}) # {}

MaySend(item) ==
  CASE item.kind = "content" -> ~Answered /\ Cardinality(OfKind({"content"})) < MaxPieces
    [] item.kind \in {"done", "error"} -> ~Answered
    [] item.kind = "[DONE]" -> Answered /\ ~Closed
    [] item.kind = "comment" -> ~Closed /\ Cardinality(OfKind({"comment"})) < MaxIdle
    [] OTHER -> FALSE

\* The server sends whatever the client is at.
Send(item) ==
  /\ pc \in {"stream", "events"}
  /\ MaySend(item)
  /\ sent' = Append(sent, item)
  /\ wire' = wire \o Encode(item)
  /\ UNCHANGED <<loaded, asked, restarted, eol, model, buf, printed, pc>>

\* The next chunk.
Receive(n) ==
  /\ pc = "stream"
  /\ n \in 1 .. Len(wire)
  /\ buf' = buf \o SubSeq(wire, 1, n)
  /\ wire' = SubSeq(wire, n + 1, Len(wire))
  /\ pc' = "events"
  /\ UNCHANGED <<loaded, asked, restarted, eol, sent, model, printed>>

\* The inner loop: the next whole event is consumed and its piece printed;
\* [DONE] leaves the loop.
NextEvent ==
  /\ pc = "events"
  /\ LET t == Terminator(buf)
         event == SubSeq(buf, 1, t[1] - 1)
     IN /\ t[2] # 0
        /\ buf' = SubSeq(buf, t[1] + t[2], Len(buf))
        /\ printed' = printed \o PieceOf(event)
        /\ pc' = IF IsDone(event) THEN "stream" ELSE "events"
  /\ UNCHANGED <<loaded, asked, restarted, eol, sent, model, wire>>

\* Mutant: a partial event is dropped.
PartialEvent_Drop ==
  /\ pc = "events" /\ Terminator(buf)[2] = 0
  /\ pc' = "stream" /\ buf' = <<>>
  /\ UNCHANGED <<loaded, asked, restarted, eol, sent, model, wire, printed>>

\* It ends, and leaves a partial event for the next chunk.
PartialEvent ==
  /\ pc = "events" /\ Terminator(buf)[2] = 0
  /\ pc' = "stream"
  /\ UNCHANGED <<loaded, asked, restarted, eol, sent, model, wire, buf, printed>>

\* The response body ends.
StreamEnds ==
  /\ pc = "stream"
  /\ Closed /\ wire = <<>>
  /\ Ends("ok")

\* The connection breaks: the error of the next chunk.
StreamBreaks ==
  /\ pc = "stream"
  /\ Ends("error")

\* Another `npurun serve` takes the address.
Restart ==
  /\ pc = "post"
  /\ loaded' \in (Models \cup {"none"}) \ {loaded}
  /\ restarted' = TRUE
  /\ UNCHANGED <<asked, eol, sent, model, wire, buf, printed, pc>>

Finished == pc \in {"ok", "error"} /\ UNCHANGED vars

Next ==
  \/ Unhealthy \/ Healthy \/ PostFails \/ PostAccepted
  \/ \E item \in Items : Send(item)
  \/ \E n \in 1 .. Len(wire) : Receive(n)
  \/ NextEvent \/ PartialEvent
  \/ StreamEnds \/ StreamBreaks \/ Restart \/ Finished

Spec == Init /\ [][Next]_vars

-----------------------------------------------------------------------------
\* The items to be shown whose event has arrived to its last atom; and the place
\* of one of them among the pieces.
EventLength == 2 + 2 * Len(eol)
Due == {i \in DOMAIN sent :
          Shows(sent[i]) /\ i * EventLength + Len(wire) <= Len(sent) * EventLength}
Place(i) == Cardinality({j \in Due : j <= i})

\* What is printed is the content that was sent, in order, nothing twice and
\* nothing missing, wherever the chunks were cut and whatever comments lie
\* between: whenever the client waits for a chunk that of the events that have
\* arrived, so that all of it is printed when it leaves without an error.  And
\* it comes from the model that was asked for, unless the server was restarted
\* between the check and the request.
PrintsWhatWasSent ==
  /\ \A i \in Due : Place(i) <= Len(printed) => printed[Place(i)] = sent[i].text
  /\ IF pc = "events" THEN Len(printed) <= Cardinality(Due)
                        ELSE Len(printed) = Cardinality(Due)
  /\ printed # <<>> /\ ~restarted => model = asked
=============================================================================
