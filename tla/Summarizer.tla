----------------------------- MODULE Summarizer -----------------------------
(***************************************************************************)
(* The map-reduce of F3 (src/src/agents/summarizer.py) over a model that    *)
(* may decline any call, with parse_with_retry (src/src/agents/             *)
(* _llm_json.py).  A text is its length, a block an interval of its         *)
(* characters.  `valid` says of the model's answers, in the order of the    *)
(* calls, which of them parse.                                              *)
(***************************************************************************)
EXTENDS Integers, SequencesExt

CONSTANTS
    block_chars, overlap,   \* the size of a block, and what two blocks share
    parse_retries           \* _MAX_PARSE_RETRIES

ASSUME SummarizerAssumption ==
    /\ block_chars \in Nat \ {0} /\ overlap \in Nat
    /\ parse_retries \in Nat

\* Mutant of Step: the blocks do not overlap.
MutNoOverlap == block_chars

Step == Max({1, block_chars - overlap})

_split(length) ==
    [k \in 1..((length + Step - 1) \div Step) |->
        [first |-> (k - 1) * Step + 1, last |-> Min({(k - 1) * Step + block_chars, length})]]

\* The prompt is put until an answer parses, or the retries are used up.
parse_with_retry(calls, prompt, valid) ==
    LET parsing == {k \in 1..(parse_retries + 1) : valid[Len(calls) + k]}
        tries   == IF parsing = {} THEN parse_retries + 1 ELSE Min(parsing)
    IN  calls \o [k \in 1..tries |-> [prompt |-> prompt, parsed |-> k \in parsing]]

Refused == {}

\* Mutant of reduce: without the last summary there is none.
MutAllOrNothing(partials, calls) == IF Last(calls).parsed THEN partials ELSE Refused

\* If the model declines to reduce, the first summary stands for all.
reduce(partials, calls) == IF Last(calls).parsed THEN partials ELSE {Min(partials)}

Reduction == 0

\* The calls made, and the blocks the summary rests on.
_summarize(length, valid) ==
    LET blocks      == IF length <= block_chars THEN 1 ELSE Len(_split(length))
        Ask(calls, prompt) == parse_with_retry(calls, prompt, valid)
        mapped      == FoldLeft(Ask, <<>>, [b \in 1..blocks |-> b])
        partials    == {b \in 1..blocks : [prompt |-> b, parsed |-> TRUE] \in Range(mapped)}
        all         == Ask(mapped, Reduction)
    IN  IF Cardinality(partials) <= 1
        THEN [calls |-> mapped, summary |-> partials]
        ELSE [calls |-> all, summary |-> reduce(partials, all)]

\* A lecture without a character is refused unread.
summarize(length, valid) ==
    IF length = 0 THEN [calls |-> <<>>, summary |-> Refused] ELSE _summarize(length, valid)
=============================================================================
