----------------------------- MODULE Terminology -----------------------------
(***************************************************************************)
(* How F5 counts terms and merges near-duplicates                           *)
(* (src/src/agents/terminology.py).  A candidate is a lemma, neither noise  *)
(* nor a stopword, and the chunk it was found in; a lemma is its last       *)
(* token, a sequence of letters (the tokens before it alike); a letter is   *)
(* a number.  A term's score is real arithmetic: of a term that is not more *)
(* frequent, nor in fewer chunks, it is known not to be the higher.         *)
(***************************************************************************)
EXTENDS Integers, SequencesExt

CONSTANTS
    InflectionEndings,      \* _RU_INFLECTION_ENDINGS
    MinSharedPrefix,        \* _MIN_SHARED_PREFIX
    MaxInflectionSuffix     \* _MAX_INFLECTION_SUFFIX

ASSUME TerminologyAssumption ==
    /\ InflectionEndings \subseteq Nat
    /\ MinSharedPrefix \in Nat \ {0} /\ MaxInflectionSuffix \in Nat

_rule1_same_length(a, b) ==
    /\ Front(a) = Front(b)
    /\ Len(a) - 1 >= MinSharedPrefix
    /\ {Last(a), Last(b)} \subseteq InflectionEndings

\* Mutant of _rule2_prefix_relationship: the first lemma is taken for the shorter.
MutFirstIsShorter(a, b) ==
    /\ Len(b) - Len(a) <= MaxInflectionSuffix
    /\ Len(a) >= MinSharedPrefix
    /\ IsPrefix(a, b)
    /\ Range(SubSeq(b, Len(a) + 1, Len(b))) \subseteq InflectionEndings

_rule2_prefix_relationship(a, b) ==
    LET shorter == IF Len(a) < Len(b) THEN a ELSE b
        longer  == IF Len(a) < Len(b) THEN b ELSE a
    IN  /\ Len(longer) - Len(shorter) <= MaxInflectionSuffix
        /\ Len(shorter) >= MinSharedPrefix
        /\ IsPrefix(shorter, longer)
        /\ Range(SubSeq(longer, Len(shorter) + 1, Len(longer))) \subseteq InflectionEndings

_are_near_duplicate_lemmas(a, b) ==
    \/ a = b
    \/ Len(a) = Len(b) /\ _rule1_same_length(a, b)
    \/ Len(a) # Len(b) /\ _rule2_prefix_relationship(a, b)

-----------------------------------------------------------------------------

Lemmas(candidates) == {candidates[i].lemma : i \in DOMAIN candidates}

Found(candidates, lemma) == {i \in DOMAIN candidates : candidates[i].lemma = lemma}

frequency(candidates, lemma) == Cardinality(Found(candidates, lemma))

\* Lemmas in the order they were found first, each with the ones it takes.
group_key(candidates) ==
    LET Claim(keys, c) ==
            LET new == {b \in Lemmas(candidates) : _are_near_duplicate_lemmas(c.lemma, b)}
            IN  IF c.lemma \in DOMAIN keys THEN keys
                ELSE [b \in DOMAIN keys \cup new |-> IF b \in DOMAIN keys THEN keys[b] ELSE c.lemma]
    IN  FoldLeft(Claim, [lemma \in {} |-> lemma], candidates)

\* Lexicographic order.
Smaller(a, b) ==
    \E n \in 0..Len(a) :
        /\ n < Len(b) /\ SubSeq(a, 1, n) = SubSeq(b, 1, n)
        /\ n = Len(a) \/ a[n + 1] < b[n + 1]

\* The most frequent member of a group, then the smallest.
representative(candidates, members) ==
    CHOOSE lemma \in members : \A m \in members \ {lemma} :
        \/ frequency(candidates, m) < frequency(candidates, lemma)
        \/ frequency(candidates, m) = frequency(candidates, lemma) /\ Smaller(lemma, m)

\* Mutant of merged_term: the occurrences of the representative only.
MutOwnFrequency(candidates, members) ==
    LET rep == representative(candidates, members)
    IN  [lemma     |-> rep,
         frequency |-> frequency(candidates, rep),
         chunks    |-> {candidates[i].chunk : i \in Found(candidates, rep)},
         source    |-> candidates[Min(Found(candidates, rep))].chunk]

merged_term(candidates, members) ==
    LET rep  == representative(candidates, members)
        seen == UNION {Found(candidates, m) : m \in members}
    IN  [lemma     |-> rep,
         frequency |-> Cardinality(seen),
         chunks    |-> {candidates[i].chunk : i \in seen},
         source    |-> candidates[Min(Found(candidates, rep))].chunk]

_merge_near_duplicates(candidates) ==
    LET keys   == group_key(candidates)
        groups == {{m \in DOMAIN keys : keys[m] = key} : key \in Range(keys)}
    IN  {merged_term(candidates, members) : members \in groups}

\* Whether `t` is ranked before `u` whatever the logarithm in their scores.
Outranks(t, u) ==
    LET rarer == Cardinality(u.chunks) - Cardinality(t.chunks)
    IN  /\ t.frequency >= u.frequency /\ rarer >= 0
        /\ t.frequency > u.frequency \/ rarer > 0 \/ Smaller(t.lemma, u.lemma)

\* The answers there may be: the top_n terms of the highest score.
_extract_terms(candidates, top_n) ==
    LET terms == _merge_near_duplicates(candidates)
    IN  {top \in kSubset(Min({top_n, Cardinality(terms)}), terms) :
            \A t \in terms \ top, u \in top : ~Outranks(t, u)}
=============================================================================
