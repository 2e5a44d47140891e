------------------------------- MODULE Agents -------------------------------
(***************************************************************************)
(* What the handlers compute between a request and its answer: one handling *)
(* of one request by each agent and by POST /api/tasks, and a session of    *)
(* calls to F5's adapter, which lives longer.  AgentLoop has the protocol   *)
(* around it, TaskContents the contents that go in and out, Corpus where    *)
(* F6's corpus comes from.                                                  *)
(***************************************************************************)
EXTENDS Chunking, Summarizer, Quiz, Terminology, SpacyNer, Recommender,
        RestApi

CONSTANT Requests   \* the requests to consider, records with a field op

NerCall == [texts : Seq([latin : Nat, cyrillic : Nat]), installed : SUBSET {RuModel, EnModel}]

Page == [layer : Nat, image : Nat]

QuizQuestion ==
    [id : Nat, type : {"single_choice", "multi_choice", "open_answer"},
     choices : Seq(STRING \X STRING), answers : SUBSET Int, stem : BOOLEAN, grounded : BOOLEAN]

Candidate == [lemma : Seq(Nat), chunk : Nat]

Entry == [title : Int, year : Nat, score : Int, dim : Nat]

Upload == [mime : STRING, suffix : STRING, size : Nat, name : STRING]

\* What the requests are made of; the id of a question is its place.
ASSUME AgentsAssumption ==
    \A r \in Requests :
        /\ r.op = "F1" => r.segments \in Seq(Nat)
        /\ r.op = "F2" => r.pages \in Seq(Page)
        /\ r.op = "F3" => r.length \in Nat
        /\ r.op = "F4" => /\ r.questions \in Seq(QuizQuestion)
                          /\ \A i \in DOMAIN r.questions : r.questions[i].id = i
        /\ r.op = "F5" => r.candidates \in Seq(Candidate) /\ r.top_n \in Nat
        /\ r.op = "NER" => r.calls \in Seq(NerCall)
        /\ r.op = "F6" => /\ r.corpus \in Seq(Entry)
                          /\ r.content.n \in Int
                          /\ r.content.year_min \in Nat /\ r.content.year_max \in Nat
        /\ r.op = "POST" => r.uploads \in Seq(Upload) /\ r.stop \in [at : Nat, bytes : Nat]

VARIABLES request, answered, answer

vars == <<request, answered, answer>>

\* The answer to the one request; an empty one of F3 or F4 is a refusal.
Answer(op, content) ==
    /\ ~answered
    /\ request.op = op
    /\ answered' = TRUE /\ answer' = content
    /\ UNCHANGED request

Transcribe   == Answer("F1", segments_to_chunks(request.segments))
ExtractPages == Answer("F2", pages_to_chunks(request.pages))
Summarize    == Answer("F3", summarize(request.length, request.valid))
GenerateTest == Answer("F4", generate_test(request.questions))
ExtractTerms ==
    /\ request.op = "F5"
    /\ \E terms \in _extract_terms(request.candidates, request.top_n) : Answer("F5", terms)
ExtractMany == Answer("NER", Session(request.calls))
Recommend   == Answer("F6", recommend(request.corpus, request.query_dim, request.content))
CreateTask  == Answer("POST", create_task(request.uploads, request.ops_valid, request.stop))

Init == request \in Requests /\ answered = FALSE /\ answer = <<>>

Next ==
    \/ Transcribe \/ ExtractPages \/ Summarize \/ GenerateTest
    \/ ExtractTerms \/ ExtractMany \/ Recommend \/ CreateTask

Spec == Init /\ [][Next]_vars

-----------------------------------------------------------------------------
(* Properties.                                                              *)

Answered(op) == answered /\ request.op = op

\* Speech and pages are chunked in order and whole, nothing twice.  A chunk of speech is
\* within the target unless it is a single segment ("TextChunks of at most
\* target_chars", whisper_transcriber.py:55), and would not be with the next segment.
ChunksFit ==
    LET Joined(chunk) == FoldLeft(LAMBDA sum, i : sum + request.segments[i] + 1, -1, chunk)
        NonBlank(texts) == InOrder({i \in DOMAIN texts : texts[i] > 0}, <)
    IN  /\ Answered("F1") =>
              /\ FlattenSeq(answer) = NonBlank(request.segments)
              /\ \A c \in DOMAIN answer : Joined(answer[c]) <= target_chars \/ Len(answer[c]) = 1
              /\ \A c \in DOMAIN answer \ {1} :
                    Joined(Append(answer[c - 1], answer[c][1])) > target_chars
        /\ Answered("F2") =>
              FlattenSeq(answer) = NonBlank([p \in DOMAIN request.pages |-> page_text(request.pages[p])])

\* Every character of a long text is in a block, and no passage a little longer than the
\* overlap is cut by all of them.
BlocksCover ==
    request.op = "F3" =>
        LET blocks == _split(request.length) IN
        /\ \A b \in DOMAIN blocks : blocks[b].first <= blocks[b].last
                                    /\ blocks[b].last < blocks[b].first + block_chars
        /\ \A i \in 1..request.length :
              \E b \in DOMAIN blocks :
                 blocks[b].first <= i /\ Min({i + overlap, request.length}) <= blocks[b].last

\* The summary rests on every block the model answered, on the first of them if it would
\* not reduce them, and is refused only if it answered none ("Only an all-blocks failure
\* refuses", summarizer.py:110); nothing it answered is asked again, nor anything more
\* often than the retries allow.
AnyAnswerCounts ==
    Answered("F3") =>
        LET calls    == answer.calls
            asked    == {call.prompt : call \in Range(calls)}
            parsed   == {call.prompt : call \in {c \in Range(calls) : c.parsed}}
            heard    == parsed \ {Reduction}
            first    == {b \in heard : \A h \in heard : b <= h}
        IN  /\ answer.summary = IF Reduction \in asked \ parsed THEN first ELSE heard
            /\ \A i, j \in DOMAIN calls : i < j /\ calls[i].prompt = calls[j].prompt =>
                  ~calls[i].parsed /\ j - i <= parse_retries

\* The texts of a question's right answers.
Marked(question) ==
    {Key(question.choices[a + 1]) : a \in {b \in question.answers : b + 1 \in DOMAIN question.choices}}

Texts(question) == {Key(choice) : choice \in Range(question.choices)}

\* A question that is let pass offers what the model offered, each text once, and marks
\* the texts the model marked ("remapped to the deduped positions so correctness is
\* preserved", test_generator.py:132).
MarksAsMeant ==
    Answered("F4") =>
        \A passed \in answer :
            LET raw == request.questions[passed.id]
            IN  passed.type # "open_answer" =>
                    /\ Texts(passed) = Texts(raw) /\ Cardinality(Texts(passed)) = Len(passed.choices)
                    /\ Marked(passed) = Marked(raw) /\ Marked(raw) # {}

\* Merging loses no occurrence and counts none twice: the terms account for all of them
\* unless some are cut off at top_n.  A term's chunk is one in which it occurs.
TermsAccountForAll ==
    Answered("F5") =>
        LET counted == MapThenSumSet(LAMBDA term : term.frequency, answer)
            chunks  == UNION {term.chunks : term \in answer}
            inAll   == {c.chunk : c \in Range(request.candidates)}
        IN  /\ counted <= Len(request.candidates) /\ chunks \subseteq inAll
            /\ Cardinality(answer) < request.top_n =>
                  counted = Len(request.candidates) /\ chunks = inAll
            /\ \A term \in answer :
                  [lemma |-> term.lemma, chunk |-> term.source] \in Range(request.candidates)

\* Where near-duplication is transitive, no two terms are near-duplicates.  Where it is
\* not, the grouping by the lemma found first may leave such a pair.
TermsAreDistinct ==
    Answered("F5") =>
        LET Near(a, b) == _are_near_duplicate_lemmas(a, b) \/ _are_near_duplicate_lemmas(b, a)
            lemmas     == Lemmas(request.candidates)
        IN  (\A a, b, c \in lemmas : Near(a, b) /\ Near(b, c) => Near(a, c))
            => \A t, u \in answer : Near(t.lemma, u.lemma) => t = u

\* However the texts of a call are grouped, each gets its own candidates back, from a
\* pipeline that could be loaded by then (the other language's only if its own could
\* not), and the same language the same pipeline as in every call before; F5 charges them
\* to the chunk in that place.  A call is refused only if "neither model can be loaded"
\* (spacy_ner.py:14), and no model is ever loaded twice: languages that come down to the
\* same one "share one loaded instance" (spacy_ner.py:89).
TextsKeepTheirPlaces ==
    Answered("NER") =>
        \A k \in DOMAIN answer :
            LET call == request.calls[k]
                seen == UNION {request.calls[j].installed : j \in 1..k}
                By(j, i) == answer[j].results[i].model
                Written(j, i) == _select_language(request.calls[j].texts[i])
                Own(i) == IF Written(k, i) = "en" THEN EnModel ELSE RuModel
            IN  /\ IsInjective(answer[k].ner.by_model)
                /\ answer[k].refused => call.installed \cap {RuModel, EnModel} = {}
                /\ ~answer[k].refused =>
                      \A i \in DOMAIN call.texts :
                         /\ answer[k].results[i].text = i
                         /\ By(k, i) \in seen
                         /\ By(k, i) = Own(i) \/ \E j \in 1..k : Own(i) \notin request.calls[j].installed
                         /\ \A j \in {h \in 1..k : ~answer[h].refused} :
                               \A h \in DOMAIN request.calls[j].texts :
                                  Written(j, h) = Written(k, i) => By(j, h) = By(k, i)

\* The citations are the best of what the year filter lets through, as many as were asked
\* for or as there are, the best first: the filter takes nothing off their number.
BestInRange ==
    (Answered("F6") /\ ~answer.refused) =>
        LET corpus == request.corpus
            first  == request.content.year_min
            last   == request.content.year_max
            fit    == {i \in DOMAIN corpus : corpus[i].year # NoYear =>
                          first <= corpus[i].year /\ (last = NoYear \/ corpus[i].year <= last)}
            cited  == Range(answer.citations)
            asked  == IF request.content.n > 0 THEN request.content.n ELSE DEFAULT_N
        IN  /\ cited \subseteq fit /\ IsInjective(answer.citations)
            /\ Cardinality(cited) = Min({asked, Cardinality(fit)})
            /\ \A i \in cited, j \in fit \ cited : corpus[i].score >= corpus[j].score
            /\ \A k \in 2..Len(answer.citations) :
                  corpus[answer.citations[k - 1]].score >= corpus[answer.citations[k]].score

\* A task exists with all its documents or not at all: not where the client was told of
\* an error of its own, always where it was told 202, and only then or where submit()
\* broke off is there one.  Each document has the upload of its own place behind it, whole
\* and within the limit, whatever the uploads are called: its agent opens that path.
\* Nothing is written before the request is found acceptable ("before any disk/DB write",
\* routes.py:89).
AllDocumentsOrNoTask ==
    Answered("POST") =>
        LET indices == {row.index : row \in answer.rows}
            Size(index) == request.uploads[index].size
        IN  /\ indices \in {{}, DOMAIN request.uploads}
            /\ answer.submitted => indices # {}
            /\ answer.code = 202 <=> answer.submitted
            /\ answer.code \in {400, 413} => indices = {}
            /\ answer.code = 400 => DOMAIN answer.disk = {}
            /\ \A row \in answer.rows :
                  /\ answer.disk[row.path] = [upload |-> row.index, bytes |-> Size(row.index)]
                  /\ Size(row.index) <= MAX_UPLOAD_BYTES
                  /\ row.type # "text"
=============================================================================
