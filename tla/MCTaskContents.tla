--------------------------- MODULE MCTaskContents ---------------------------
(* Values for the constants of TaskContents, for model checking.            *)
EXTENDS TaskContents

\* Two recordings and a PDF.
Lectures == {0, 1, 2}
LectureKinds == [d \in Lectures |-> IF d = 2 THEN "pdf" ELSE "audio"]
FewChunks == [d \in Lectures |-> IF d = 0 THEN 2 ELSE 1]
\* Both kinds of source before a join, a chain, and each upstream of the citations.
FewPlans == {{"F1", "F2", "F5"}, {"F1", "F3", "F4"}, {"F1", "F5", "F6"}, {"F2", "F3", "F6"}}

\* One recording, long for the radix.
Lecture == {0}
LectureKind == [d \in Lecture |-> "audio"]
ManyChunks == [d \in Lecture |-> Radix + 1]
OnePlan == {{"F1", "F3"}}
=============================================================================
