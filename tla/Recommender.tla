----------------------------- MODULE Recommender -----------------------------
(***************************************************************************)
(* How F6 chooses its citations (src/src/agents/recommender.py).  An entry  *)
(* of the corpus is its title and year, the dimension of its embedding, and *)
(* the embedding's cosine with the query's; a title, and a score, is a      *)
(* number.  A text is its wording, "" where nothing is left of it.          *)
(***************************************************************************)
EXTENDS Ordering, FiniteSetsExt

CONSTANTS DEFAULT_N, TOP_TERMS      \* _DEFAULT_N, _TOP_TERMS

ASSUME RecommenderAssumption == DEFAULT_N \in Nat \ {0} /\ TOP_TERMS \in Nat

NoYear == 0     \* None

\* What the query is joined from: the introduction, and the first few terms.
_build_query(sections, terms) ==
    LET intro == SelectSeq(sections, LAMBDA section : section.type = "introduction")
        top   == SubSeq(terms, 1, Min({TOP_TERMS, Len(terms)}))
    IN  (Range(top) \cup {intro[i].text : i \in DOMAIN intro \cap {1}}) \ {""}

_year_ok(year, year_min, year_max) ==
    \/ year = NoYear
    \/ /\ year_min # NoYear => year >= year_min
       /\ year_max # NoYear => year <= year_max

\* The entries given, best first: by score, then by title; the sort is stable.
Ranking(corpus, entries) ==
    LET Before(i, j) ==
            \/ corpus[i].score > corpus[j].score
            \/ corpus[i].score = corpus[j].score /\ corpus[i].title < corpus[j].title
            \/ corpus[i].score = corpus[j].score /\ corpus[i].title = corpus[j].title /\ i < j
    IN  InOrder(entries, Before)

Top(ranking, n) == SubSeq(ranking, 1, Min({n, Len(ranking)}))

\* Mutant of citations: the years are looked at after the cut.
MutFilteredLast(corpus, n, year_min, year_max) ==
    SelectSeq(Top(Ranking(corpus, DOMAIN corpus), n),
              LAMBDA i : _year_ok(corpus[i].year, year_min, year_max))

citations(corpus, n, year_min, year_max) ==
    Top(Ranking(corpus, {i \in DOMAIN corpus : _year_ok(corpus[i].year, year_min, year_max)}), n)

\* F6's answer; anything but a positive number asks for the default.
recommend(corpus, query_dim, content) ==
    LET top_n == IF content.n > 0 THEN content.n ELSE DEFAULT_N
    IN  IF \/ corpus = <<>>
           \/ _build_query(content.sections, content.terms) = {}
           \/ query_dim # corpus[1].dim
        THEN [refused |-> TRUE, citations |-> <<>>]
        ELSE [refused |-> FALSE,
              citations |-> citations(corpus, top_n, content.year_min, content.year_max)]
=============================================================================
