--------------------------- MODULE ProcedureService --------------------------
(****************************************************************************)
(* What a deployed procedure promises to its callers (the export `run` of   *)
(* src/zela.wit and the doc of CustomProcedure in src/lib.rs): a request is *)
(* either rejected before the procedure has done anything, or run once and  *)
(* answered once, with what it returned or with a failure that can only come *)
(* after its effects.                                                       *)
(****************************************************************************)
EXTENDS Naturals

CONSTANT Requests

VARIABLES
  status,      \* of each request: "waiting", "running", "answered"
  reply,       \* "none", "rejected", "returned" or "failed"
  effects      \* host calls made on behalf of the request

serviceVars == <<status, reply, effects>>

ServiceTypeOK ==
  /\ status \in [Requests -> {"waiting", "running", "answered"}]
  /\ reply \in [Requests -> {"none", "rejected", "returned", "failed"}]
  /\ effects \in [Requests -> Nat]

ServiceInit ==
  /\ status = [r \in Requests |-> "waiting"]
  /\ reply = [r \in Requests |-> "none"]
  /\ effects = [r \in Requests |-> 0]

Answer(r, kind) ==
  /\ status' = [status EXCEPT ![r] = "answered"]
  /\ reply' = [reply EXCEPT ![r] = kind]
  /\ UNCHANGED effects

\* The params are not what the procedure takes.
Reject(r) == status[r] = "waiting" /\ Answer(r, "rejected")

Start(r) ==
  /\ status[r] = "waiting"
  /\ status' = [status EXCEPT ![r] = "running"]
  /\ UNCHANGED <<reply, effects>>

Effect(r) ==
  /\ status[r] = "running"
  /\ effects' = [effects EXCEPT ![r] = @ + 1]
  /\ UNCHANGED <<status, reply>>

\* Its result is delivered, or lost because it does not serialize or because the
\* procedure panicked.
Finish(r) == status[r] = "running" /\ \E kind \in {"returned", "failed"} : Answer(r, kind)

ServiceNext == \E r \in Requests : Reject(r) \/ Start(r) \/ Effect(r) \/ Finish(r)

ServiceSpec == ServiceInit /\ [][ServiceNext]_serviceVars
==============================================================================
