------------------------------ MODULE MCCorpus ------------------------------
(* Values for the constants of Corpus, for model checking.                  *)
EXTENDS Corpus

CONSTANTS p, q, r, none

\* Papers that several queries find, in either order, and items that are not papers.
FewAnswers == {<<p>>, <<q, p>>, <<r, none>>, <<none>>}
=============================================================================
