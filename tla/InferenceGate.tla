--------------------------- MODULE InferenceGate ---------------------------
(***************************************************************************)
(* What npurun-server promises its clients about the one NPU (docs/        *)
(* architecture.md, "Why one permit instead of N"; lib.rs, ServerState):   *)
(* at most one admitted request at a time, a request that finds the gate   *)
(* taken is refused at once instead of queued, and whoever was admitted    *)
(* leaves again.  InferenceServer implements it.                           *)
(***************************************************************************)
CONSTANTS
  Requests,
  NoOne      \* the gate is free; none of the Requests

VARIABLES
  permit,   \* the admitted request
  phase     \* what became of each request

gateVars == <<permit, phase>>

Phases == {"new", "refused", "invalid", "admitted", "inferring", "settling", "done"}

GateTypeOK ==
  /\ permit \in Requests \cup {NoOne}
  /\ phase \in [Requests -> Phases]

GateInit ==
  /\ permit = NoOne
  /\ phase = [r \in Requests |-> "new"]

Enter(r, p) == phase' = [phase EXCEPT ![r] = p]

\* 429, only while somebody else is admitted.
Refuse(r) ==
  /\ phase[r] = "new" /\ permit # NoOne
  /\ Enter(r, "refused") /\ UNCHANGED permit

\* 400, before or after admission.
Reject(r) ==
  /\ \/ phase[r] = "new" /\ UNCHANGED permit
     \/ phase[r] = "admitted" /\ permit' = NoOne
  /\ Enter(r, "invalid")

Admit(r) ==
  /\ phase[r] = "new" /\ permit = NoOne
  /\ permit' = r /\ Enter(r, "admitted")

\* The query on the dialog begins, and ends; or the prompt is unsendable.
Infer(r) ==
  /\ phase[r] = "admitted" /\ permit = r
  /\ phase' \in {[phase EXCEPT ![r] = "inferring"], [phase EXCEPT ![r] = "settling"]}
  /\ UNCHANGED permit

Settle(r) ==
  /\ phase[r] = "inferring" /\ permit = r
  /\ Enter(r, "settling") /\ UNCHANGED permit

Leave(r) ==
  /\ phase[r] = "settling" /\ permit = r
  /\ permit' = NoOne /\ Enter(r, "done")

Progress(r) == Reject(r) \/ Infer(r) \/ Settle(r) \/ Leave(r)

GateNext ==
  \E r \in Requests : Refuse(r) \/ Admit(r) \/ Progress(r)

GateSafety == GateInit /\ [][GateNext]_gateVars

\* Whoever was admitted makes progress, to the end.
GateLiveness == \A r \in Requests : WF_gateVars(permit = r /\ Progress(r))

GateSpec == GateSafety /\ GateLiveness

=============================================================================
