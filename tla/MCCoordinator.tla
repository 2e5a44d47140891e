---------------------------- MODULE MCCoordinator ----------------------------
(* Values for the constants of Coordinator, for model checking.             *)
EXTENDS Coordinator, TLC

CONSTANTS t1, t2, t3, a, b

TwoTasks    == {t1, t2}
ThreeTasks  == {t1, t2, t3}
OneSubtask  == {a}
TwoSubtasks == {a, b}
\* The request of t2 makes no operation possible: its plan is empty.
EmptyPlan   == (t1 :> {a, b}) @@ (t2 :> {})
\* Two tasks alike and an empty one.
MixedPlan   == (t1 :> {a}) @@ (t2 :> {a}) @@ (t3 :> {})
=============================================================================
