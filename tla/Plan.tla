-------------------------------- MODULE Plan --------------------------------
(***************************************************************************)
(* How a task becomes a plan (src/src/plan.py): the operations, the DAG     *)
(* between them, and build_plan, which keeps the requested operations the   *)
(* attached documents make possible and wires each to its upstreams.        *)
(*                                                                          *)
(* A request is a sequence of operations, as the `ops` form field of the    *)
(* API hands it over: it may repeat one.  A task's documents are a sequence *)
(* of document types; file names and ids play no part in the plan.          *)
(***************************************************************************)
EXTENDS Naturals, Sequences

Operation == {"F1", "F2", "F3", "F4", "F5", "F6"}

DocumentType == {"audio", "pdf", "image"}

\* The upstreams of each operation.
DEPENDENCY_MAP ==
    [F1 |-> {}, F2 |-> {}, F3 |-> {"F1", "F2"}, F4 |-> {"F3"},
     F5 |-> {"F1", "F2"}, F6 |-> {"F3", "F5"}]

\* These run on whichever upstream succeeded; the others need all of them.
ANY_JOIN_OPERATIONS == {"F3", "F5", "F6"}

OPERATION_TO_AGENT ==
    [F1 |-> "transcriber", F2 |-> "ocr", F3 |-> "summarizer",
     F4 |-> "test_generator", F5 |-> "terminology", F6 |-> "recommender"]

REQUIRED_AGENTS == {"transcriber", "ocr"}

-----------------------------------------------------------------------------

\* The members of a sequence.
Members(s) == {s[i] : i \in DOMAIN s}

\* An ingestion operation needs a document it can ingest.
Possible(op, documents) ==
    /\ op = "F1" => "audio" \in Members(documents)
    /\ op = "F2" => Members(documents) \cap {"pdf", "image"} # {}

_eligible_operations(requested, documents) ==
    LET Keep(op) == Possible(op, documents)
    IN  SelectSeq(requested, Keep)

\* The upstreams of `op` that are in the plan.
_dependencies(op, eligible) == DEPENDENCY_MAP[op] \cap eligible

\* One subtask.  Its id is a function of the operation alone within a task
\* (subtask_id_for), so the operation stands for the id.
SubtaskFor(op, eligible) ==
    [id         |-> op,
     agent      |-> OPERATION_TO_AGENT[op],
     depends_on |-> _dependencies(op, eligible),
     required   |-> OPERATION_TO_AGENT[op] \in REQUIRED_AGENTS,
     join       |-> IF op \in ANY_JOIN_OPERATIONS THEN "any" ELSE "all"]

build_plan(requested, documents) ==
    LET eligible == _eligible_operations(requested, documents)
    IN  [i \in DOMAIN eligible |-> SubtaskFor(eligible[i], Members(eligible))]

\* The operations a plan holds: all that the dispatch loop tells plans apart by.
PlanOperations(plan) == {plan[i].id : i \in DOMAIN plan}
=============================================================================
