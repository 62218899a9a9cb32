-------------------------- MODULE ChatCompletion ---------------------------
(***************************************************************************)
(* A blocking chat completion from the request to its answer: the prompt   *)
(* of ChatTranscript, a reply of the model's, and the tool calls that      *)
(* chat_completions looks for in it (npurun-server openai.rs).             *)
(***************************************************************************)
EXTENDS ChatTranscript, ToolCalls

CONSTANTS
  Atoms,                \* what the model's replies are made of
  MayFollow(_, _, _)    \* what may come next in one, to bound them

VARIABLE answer      \* content and finish_reason of the response body

completionVars == <<vars, toolVars, answer>>

NoAnswer == [content |-> "pending", finish |-> "pending"]

CompletionInit == Init /\ ToolsInit /\ answer = NoAnswer

Prepare ==
  /\ ConvertRoles \/ RefuseStreamedTools \/ Augment \/ Trim \/ CheckUser \/ BuildPrompt
  /\ UNCHANGED <<toolVars, answer>>

Answerable == phase = "done" /\ outcome = "prompted" /\ ~request.stream

\* tools_enabled: the reply is parsed only if the request brought tools.
ToolsEnabled == request.endpoint = "v1" /\ request.tools

\* The chunks of a blocking reply are collected until the query returns.
Generate ==
  /\ Answerable /\ parse = "idle" /\ answer = NoAnswer
  /\ \E a \in Atoms : MayFollow(request, reply, a) /\ reply' = Append(reply, a)
  /\ UNCHANGED <<vars, cursor, calls, parse, answer>>

QueryReturns ==
  /\ Answerable /\ answer = NoAnswer
  /\ IF ToolsEnabled
     THEN StartParse /\ UNCHANGED answer
     ELSE /\ answer' = [content |-> "text", finish |-> "stop"]
          /\ UNCHANGED toolVars
  /\ UNCHANGED vars

ParseReply == Scan /\ UNCHANGED <<vars, answer>>

Respond ==
  /\ parse \in {"none", "some"} /\ answer = NoAnswer
  /\ answer' = IF parse = "some" THEN [content |-> "null", finish |-> "tool_calls"]
               ELSE [content |-> "text", finish |-> "stop"]
  /\ UNCHANGED <<vars, toolVars>>

Finished ==
  /\ phase = "done" /\ (Answerable => answer # NoAnswer)
  /\ UNCHANGED completionVars

CompletionNext == Prepare \/ Generate \/ QueryReturns \/ ParseReply \/ Respond \/ Finished

CompletionSpec == CompletionInit /\ [][CompletionNext]_completionVars
                    /\ WF_completionVars(Prepare \/ QueryReturns \/ ParseReply \/ Respond)

-----------------------------------------------------------------------------

\* The scan ends on every reply: a blocking request that reached the model is
\* answered.
ReplyAnswered == Answerable ~> answer # NoAnswer

\* Why: the steps that a request has left at most, once its reply is complete:
\* to its prompt, through the scan, and to its answer.
PhasesLeft ==
  CASE phase = "received"  -> 5
    [] phase = "converted" -> 4
    [] phase = "augmented" -> 3
    [] phase = "trimmed"   -> 2
    [] phase = "checked"   -> 1
    [] phase = "done"      -> 0

ScanLeft ==
  CASE parse = "idle"     -> Len(reply) + 3
    [] parse = "scanning" -> Len(reply) + 2 - cursor
    [] OTHER              -> 0

AnswerLeft == IF answer = NoAnswer THEN 1 ELSE 0

CompletionLeft == PhasesLeft + ScanLeft + AnswerLeft

\* Every step but a token of the model's brings the answer nearer, and the reply
\* does not grow behind the scan's back: whatever tags the model leaves open,
\* misspells or nests, no iteration of the loop leaves the cursor where it was.
EveryStepAdvances ==
  [][IF reply' = reply THEN CompletionLeft' < CompletionLeft
     ELSE parse = "idle" /\ parse' = "idle" /\ answer = NoAnswer]_completionVars

=============================================================================
