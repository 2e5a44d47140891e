---------------------------- MODULE AbstractTask ----------------------------
(***************************************************************************)
(* What a client is promised of one task: each subtask of its plan resolves *)
(* at most once, only while the task is in flight, and the task's terminal  *)
(* status, once given, is the verdict of determine_final_status             *)
(* (src/src/core/status_fsm.py) on the outcomes there are, or `failed` when *)
(* the coordinator had to abandon it.                                       *)
(***************************************************************************)
CONSTANTS Plans, Operation

VARIABLES plan, outcome, status

Final   == {"completed", "partial_ready", "failed"}
Success == {op \in plan : outcome[op] = "inform"}

\* The three rules of the docstring, and the empty plan.
Verdict(verdict) ==
    \/ verdict = "completed" /\ Success = plan
    \/ verdict = "partial_ready" /\ Success # {} /\ Success # plan
    \/ verdict = "failed" /\ Success = {} /\ plan # {}

Init ==
    /\ plan \in Plans
    /\ outcome = [op \in Operation |-> "absent"]
    /\ status = "planning"

Begin ==
    /\ status = "planning"
    /\ status' = "running"
    /\ UNCHANGED <<plan, outcome>>

Resolve(op) ==
    /\ status = "running"
    /\ outcome[op] = "absent"
    /\ \E verdict \in {"failed", "inform"} : outcome' = [outcome EXCEPT ![op] = verdict]
    /\ UNCHANGED <<plan, status>>

Settle ==
    /\ status = "running"
    /\ status' \in Final
    /\ Verdict(status') \/ status' = "failed"
    /\ UNCHANGED <<plan, outcome>>

Next == Begin \/ Settle \/ \E op \in plan : Resolve(op)

Spec == Init /\ [][Next]_<<plan, outcome, status>>
=============================================================================
