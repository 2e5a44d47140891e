------------------------------ MODULE MCAgents ------------------------------
(* Bounded requests for Agents, for model checking.                         *)
EXTENDS Agents

CONSTANTS
    MaxSegments, MaxPages, MaxLength, MaxCandidates, MaxTexts, MaxEntries,
    MaxYear, MaxUploads

ShortSeq(S, n) == UNION {[1..k -> S] : k \in 0..n}

Speech == [op : {"F1"}, segments : ShortSeq(0..(target_chars + 1), MaxSegments)]

Scans == [op : {"F2"}, pages : ShortSeq([layer : 0..(min_chars + 1), image : 0..1], MaxPages)]

\* As many answers of the model as there may be calls.
MaxCalls == (Len(_split(MaxLength)) + 1) * (parse_retries + 1)

Lectures == [op : {"F3"}, length : 0..MaxLength, valid : [1..MaxCalls -> BOOLEAN]]

\* Two spellings of one text, and another text.
Wordings == {<<"a", "lower">>, <<"a", "upper">>, <<"b", "lower">>}

\* Also with indices off the list.
Question(id) ==
    LET Of(types, choices, answers) ==
            [id : {id}, type : types, choices : choices, answers : answers,
             stem : {TRUE}, grounded : BOOLEAN]
    IN  Of({"multi_choice"}, ShortSeq(Wordings, 3), SUBSET (-1..3))
        \cup Of({"single_choice"}, ShortSeq(Wordings, 3), {{}} \cup {{a} : a \in -1..3})
        \cup Of({"open_answer"}, {<<>>}, {{}})
        \cup {[q EXCEPT !.stem = FALSE] : q \in Of({"open_answer"}, {<<>>}, {{}})}

Quizzes == {[op |-> "F4", questions |-> <<>>]}
    \cup {[op |-> "F4", questions |-> <<q>>] : q \in Question(1)}
    \cup {[op |-> "F4", questions |-> <<first, q>>] :
             first \in {p \in Question(1) : p.type = "open_answer"},
             q \in {p \in Question(2) : p.type # "multi_choice" /\ p.grounded}}

\* A stem with endings that are near it and near one another, and another stem.
Words == {<<9, 9>>, <<9, 9, 1>>, <<9, 9, 2>>, <<9, 9, 1, 2>>, <<8, 9>>}

Glossaries == [op : {"F5"}, top_n : 1..2,
               candidates : ShortSeq([lemma : Words, chunk : 1..2], MaxCandidates)]

\* English, Russian, and as many letters of either script.
Scripts == {[latin |-> 2, cyrillic |-> 1], [latin |-> 1, cyrillic |-> 2]}
Tie     == [latin |-> 1, cyrillic |-> 1]

Calls(texts) == [texts : texts, installed : SUBSET {RuModel, EnModel}]

\* Two calls, or three of one text each.
Sessions == [op : {"NER"},
             calls : ShortSeq(Calls(ShortSeq(Scripts, MaxTexts) \cup {<<Tie>>}), 2)
                     \cup [1..3 -> Calls([1..1 -> Scripts])]]

Library(size) == ShortSeq([title : 1..2, year : {NoYear} \cup 1..MaxYear, score : 0..1, dim : {2}], size)

Wish == [sections : {<<>>}, terms : {<<"term">>}, n : 0..2,
         year_min : {NoYear} \cup 1..MaxYear, year_max : {NoYear} \cup 1..MaxYear]

\* An introduction that is not there, is empty, or not the first section; terms likewise.
Section  == [type : {"introduction", "body"}, text : {"", "text"}]
Question6 == [sections : ShortSeq(Section, 2), terms : ShortSeq({"", "term"}, TOP_TERMS + 1),
              n : {1}, year_min : {NoYear}, year_max : {NoYear}]

Recommendations ==
    [op : {"F6"}, corpus : Library(MaxEntries), query_dim : {2}, content : Wish]
    \cup [op : {"F6"}, corpus : Library(1), query_dim : {2, 3}, content : Question6]

\* Uploads that the type, the size, the name or all of them tell apart.
Uploads == [mime : {"audio", "text"}, suffix : {"pdf"}, size : 0..(MAX_UPLOAD_BYTES + 1), name : {"a", ""}]
           \cup [mime : {"text", "image"}, suffix : {"text"}, size : {1}, name : {"a"}]

Posts == [op : {"POST"}, uploads : ShortSeq(Uploads, MaxUploads), ops_valid : BOOLEAN,
          stop : [at : 0..(MaxUploads + 2), bytes : 0..MAX_UPLOAD_BYTES]]

AllRequests ==
    Posts \cup Speech \cup Scans \cup Lectures \cup Quizzes \cup Glossaries \cup Sessions \cup Recommendations
=============================================================================
