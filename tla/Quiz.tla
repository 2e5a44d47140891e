-------------------------------- MODULE Quiz --------------------------------
(***************************************************************************)
(* What F4 lets pass of the questions a model made up                       *)
(* (src/src/agents/test_generator.py).  The questions are those of the first*)
(* answer that parses (parse_with_retry), none if none does.  One is        *)
(*    id          its place in the model's answer                           *)
(*    type        "single_choice", "multi_choice" or "open_answer"          *)
(*    choices     a sequence of <<text, variant>>: the variants of a text   *)
(*                differ in case and in blanks around it only               *)
(*    answers     the indices marked right, from 0: answer_idx, if there is *)
(*                one, or answer_indices                                    *)
(*    stem        whether there is a question                               *)
(*    grounded    whether a word of it occurs in the summary                *)
(***************************************************************************)
EXTENDS Ordering

Key(choice) == choice[1]

\* The first of the choices with the text of choice `i`.
FirstAlike(choices, i) ==
    CHOOSE j \in 1..i : /\ Key(choices[j]) = Key(choices[i])
                        /\ \A k \in 1..(j - 1) : Key(choices[k]) # Key(choices[i])

Kept(choices) == {i \in DOMAIN choices : FirstAlike(choices, i) = i}

\* Mutant of remap: a duplicate's index is not moved to the choice it repeats.
MutOwnPlace(choices, i) == Cardinality({j \in Kept(choices) : j < i})

\* Where choice `i`, or the one it repeats, is after the duplicates are gone.
remap(choices, i) == Cardinality({j \in Kept(choices) : j < FirstAlike(choices, i)})

_dedup_choices(question) ==
    IF question.type = "open_answer" \/ question.choices = <<>> THEN question
    ELSE LET old == question.choices
             order == InOrder(Kept(old), <)
         IN  [question EXCEPT
                 !.choices = [n \in DOMAIN order |-> old[order[n]]],
                 !.answers = {remap(old, i + 1) : i \in {a \in @ : a + 1 \in DOMAIN old}}]

is_well_formed(question) ==
    /\ question.stem
    /\ question.type # "open_answer" =>
          /\ Len(question.choices) >= 2
          /\ question.answers # {}
          /\ \A a \in question.answers : a + 1 \in DOMAIN question.choices

_references_summary(question) == question.type = "open_answer" => question.grounded

\* The questions of the quiz, in the order of their ids; without any, the request is
\* refused.
generate_test(questions) ==
    {question \in {_dedup_choices(questions[i]) : i \in DOMAIN questions} :
        is_well_formed(question) /\ _references_summary(question)}
=============================================================================
