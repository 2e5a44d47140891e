--------------------------- MODULE MCTaskDispatch ---------------------------
(* Values for the constants of TaskDispatch, for model checking.            *)
EXTENDS TaskDispatch

ChainPlans   == {{"F1", "F3"}}
\* F4 asks for all its upstreams, F3 for any of them; F6 has no upstream here.
MixedPlans   == {{}, {"F6"}, {"F3", "F4"}, {"F1", "F2", "F3"}}

ShortTimeouts == [op \in Operation |-> 1]
NextTick == [op \in Operation |-> 0]
OneRetry      == <<1>>
TwoRetries    == <<1, 1>>
=============================================================================
