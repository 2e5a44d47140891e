------------------------------ MODULE Ordering ------------------------------
(***************************************************************************)
(* Sorting by a key that no two members of a set have in common: ORDER BY   *)
(* in the queries, sort() in the agents.  The operator of the community     *)
(* modules goes through a sorting procedure; this one says what an order    *)
(* is, so that the proofs can use it.                                       *)
(***************************************************************************)
EXTENDS Integers, SequencesExt

\* The members of `S`, each before all that it precedes.
InOrder(S, Before(_, _)) ==
    CHOOSE s \in SetToSeqs(S) : \A i, j \in DOMAIN s : i < j => Before(s[i], s[j])
=============================================================================
