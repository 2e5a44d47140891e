------------------------------- MODULE Corpus -------------------------------
(***************************************************************************)
(* Where F6's corpus comes from: a script, run by hand, that fetches papers *)
(* and writes two files (src/src/corpus_builder/build.py), and the          *)
(* application, which reads both when it starts (src/src/main.py,           *)
(* src/src/agents/recommender.py).  They are two processes and share no     *)
(* lock.                                                                    *)
(*                                                                          *)
(*   builder  "off"      not running: never run, failed, or killed          *)
(*            "fetching" asking OpenAlex, query after query                 *)
(*            "writing"  papers.jsonl is open                               *)
(*            "written"  papers.jsonl is closed, papers.npy as it was       *)
(*            "saving"   papers.npy is open                                 *)
(*            "done"     both are written                                   *)
(*   app      "down"                                                        *)
(*            "starting" the embedding adapter is chosen                    *)
(*            "loading"  papers.npy is read, papers.jsonl is not            *)
(*            "up"       the corpus is in memory                            *)
(*            "torn", "split"  lifespan raised: on a file that is cut off,  *)
(*                       on a title that is more than one line              *)
(*                                                                          *)
(* A paper is its title; a file lists papers, and may end in the middle of  *)
(* one.  What OpenAlex answers to a query may differ from run to run.       *)
(***************************************************************************)
EXTENDS Naturals, SequencesExt, FiniteSetsExt

CONSTANTS
    Title,
    NoAbstract,     \* an item without a title or an abstract
    Breaking,       \* the titles that splitlines() takes for several lines
    Answers,        \* what OpenAlex may answer to a query, sequences of items
    Queries,        \* how many queries there are
    MAX_RETRIES,
    BuildModel,     \* build()'s model
    QueryModel      \* settings.embedding_model

ASSUME CorpusAssumption ==
    /\ NoAbstract \notin Title /\ Breaking \subseteq Title
    /\ Answers \subseteq Seq(Title \cup {NoAbstract})
    /\ Queries \in Nat \ {0} /\ MAX_RETRIES \in Nat \ {0}

VARIABLES
    builder, results, attempt,  \* the script: the answers so far, tries of the next
    jsonl, npy,                 \* the two files
    app, embedding, rows, corpus,
    cut,    \* observed: whether the last build that wrote was cut off
    seen    \* observed: what the last start-up found, "whole", "cut", or "raced" when
            \* the files changed meanwhile

script == <<builder, results, attempt>>
files  == <<jsonl, npy>>
server == <<app, embedding, rows, corpus>>
vars   == <<script, files, server, cut, seen>>

Absent == [exists |-> FALSE, papers |-> <<>>, torn |-> FALSE]
Whole(papers) == [exists |-> TRUE, papers |-> papers, torn |-> FALSE]

BothExist == jsonl.exists /\ npy.exists

-----------------------------------------------------------------------------
(* The builder.                                                             *)

\* Mutant of fetch_papers: a title is kept as often as it is found.
MutKeepsRepeats(answers) == SelectSeq(FlattenSeq(answers), LAMBDA item : item # NoAbstract)

\* The papers with an abstract, each title once.
fetch_papers(answers) ==
    LET Keep(papers, item) ==
            IF item \in Range(papers) \cup {NoAbstract} THEN papers ELSE Append(papers, item)
    IN  FoldLeft(Keep, <<>>, FlattenSeq(answers))

papers == fetch_papers(results)

BeginBuild ==
    /\ builder \in {"off", "done"}
    /\ builder' = "fetching" /\ results' = <<>> /\ attempt' = 0
    /\ UNCHANGED <<files, server, cut, seen>>

\* Mutant of _search: one try too many.
MutOneMoreTry ==
    /\ builder = "fetching" /\ Len(results) < Queries
    /\ \/ /\ \E items \in Answers : results' = Append(results, items)
          /\ attempt' = 0
          /\ UNCHANGED builder
       \/ /\ attempt < MAX_RETRIES
          /\ attempt' = attempt + 1
          /\ UNCHANGED <<builder, results>>
       \/ /\ builder' = "off"
          /\ UNCHANGED <<results, attempt>>
    /\ UNCHANGED <<files, server, cut, seen>>

\* One request of _search: an answer, a status that is tried again (the last of them
\* raises), or any other error.
_search ==
    /\ builder = "fetching" /\ Len(results) < Queries
    /\ \/ /\ \E items \in Answers : results' = Append(results, items)
          /\ attempt' = 0
          /\ UNCHANGED builder
       \/ /\ attempt + 1 < MAX_RETRIES
          /\ attempt' = attempt + 1
          /\ UNCHANGED <<builder, results>>
       \/ /\ builder' = "off"
          /\ UNCHANGED <<results, attempt>>
    /\ UNCHANGED <<files, server, cut, seen>>

\* A file is written while the application may be starting.
Written(phase) ==
    /\ builder' = phase
    /\ seen' = IF app \in {"starting", "loading"} THEN "raced" ELSE seen
    /\ UNCHANGED <<results, attempt, server>>

NothingFetched ==
    /\ builder = "fetching" /\ Len(results) = Queries
    /\ papers = <<>>
    /\ builder' = "off"
    /\ UNCHANGED <<results, attempt, files, server, cut, seen>>

\* Mutant of OpenLines: the lines are added to those of the former build.
MutAppends ==
    /\ builder = "fetching" /\ Len(results) = Queries
    /\ papers # <<>>
    /\ Written("written")
    /\ jsonl' = Whole(jsonl.papers \o papers)
    /\ UNCHANGED <<npy, cut>>

\* The embeddings are computed; opening the file empties it.
OpenLines ==
    /\ builder = "fetching" /\ Len(results) = Queries
    /\ papers # <<>>
    /\ Written("writing")
    /\ jsonl' = Whole(<<>>)
    /\ UNCHANGED <<npy, cut>>

\* A buffer goes to the disk, wherever it ends.
WriteLines ==
    /\ builder = "writing"
    /\ \E k \in Len(jsonl.papers)..Len(papers), torn \in BOOLEAN :
          /\ torn => k < Len(papers)
          /\ jsonl' = [exists |-> TRUE, papers |-> SubSeq(papers, 1, k), torn |-> torn]
    /\ Written("writing")
    /\ UNCHANGED <<npy, cut>>

CloseLines ==
    /\ builder = "writing"
    /\ Written("written")
    /\ jsonl' = Whole(papers)
    /\ UNCHANGED <<npy, cut>>

OpenRows ==
    /\ builder = "written"
    /\ Written("saving")
    /\ npy' = [exists |-> TRUE, papers |-> <<>>, torn |-> TRUE]
    /\ UNCHANGED <<jsonl, cut>>

SaveRows ==
    /\ builder = "saving"
    /\ Written("done")
    /\ npy' = Whole(papers)
    /\ cut' = FALSE
    /\ UNCHANGED jsonl

\* The script is killed, or a write fails: the files stay as they are.
BuildStops ==
    /\ builder \in {"fetching", "writing", "written", "saving"}
    /\ builder' = "off"
    /\ cut' = (cut \/ builder # "fetching")
    /\ UNCHANGED <<results, attempt, files, server, seen>>

-----------------------------------------------------------------------------
(* The application.                                                         *)

_build_embedding ==
    /\ app \notin {"starting", "loading", "up"}
    /\ app' = "starting"
    /\ embedding' = IF BothExist THEN QueryModel ELSE "fake"
    /\ rows' = <<>> /\ corpus' = <<>>
    /\ seen' = IF cut \/ builder \in {"writing", "written", "saving"} THEN "cut" ELSE "whole"
    /\ UNCHANGED <<script, files, cut>>

\* Mutant of _demo_corpus: it comes with embeddings of its own.
MutFakeDemo == <<[title |-> "demo", vector |-> [of |-> "demo", by |-> "fake"]]>>

\* The built-in papers, embedded by the active adapter.
_demo_corpus == <<[title |-> "demo", vector |-> [of |-> "demo", by |-> embedding]]>>

\* The corpus as loaded, or the built-in one where there is none and demo_mode is on.
_build_recommender(loaded) ==
    /\ app' = "up"
    /\ IF loaded # <<>> THEN corpus' = loaded ELSE corpus' \in {<<>>, _demo_corpus}

Raises(how) == app' = how /\ UNCHANGED corpus

\* load_corpus up to numpy.load.
LoadRows ==
    /\ app = "starting"
    /\ IF ~BothExist THEN _build_recommender(<<>>) /\ UNCHANGED rows
       ELSE /\ rows' = npy.papers
            /\ IF npy.torn THEN Raises("torn") ELSE app' = "loading" /\ UNCHANGED corpus
    /\ UNCHANGED <<script, files, embedding, cut, seen>>

\* The rest of load_corpus: a line and a row at a time, until either has no more.  A file
\* that ends within a character is not read at all, one that ends within a line is if
\* there is no row for that line.
LoadLines ==
    LET lines   == jsonl.papers
        entries == [i \in 1..Min({Len(lines), Len(rows)}) |->
                       [title |-> lines[i], vector |-> [of |-> rows[i], by |-> BuildModel]]]
        split   == \E i \in DOMAIN entries : lines[i] \in Breaking
    IN  /\ app = "loading"
        /\ \/ jsonl.torn /\ Raises("torn")
           \/ split /\ Raises("split")
           \/ /\ ~split
              /\ jsonl.torn => Len(rows) <= Len(lines)
              /\ _build_recommender(entries)
        /\ UNCHANGED <<script, files, embedding, rows, cut, seen>>

\* The application is stopped, or dies.
Stop ==
    /\ app \in {"starting", "loading", "up"}
    /\ app' = "down" /\ embedding' = "fake" /\ rows' = <<>> /\ corpus' = <<>>
    /\ UNCHANGED <<script, files, cut, seen>>

-----------------------------------------------------------------------------

Init ==
    /\ builder = "off" /\ results = <<>> /\ attempt = 0
    /\ jsonl = Absent /\ npy = Absent
    /\ app = "down" /\ embedding = "fake" /\ rows = <<>> /\ corpus = <<>>
    /\ cut = FALSE /\ seen = "whole"

Build ==
    \/ BeginBuild \/ _search \/ NothingFetched
    \/ OpenLines \/ WriteLines \/ CloseLines \/ OpenRows \/ SaveRows
    \/ BuildStops

Next == Build \/ _build_embedding \/ LoadRows \/ LoadLines \/ Stop

Spec == Init /\ [][Next]_vars

-----------------------------------------------------------------------------
(* Properties.                                                              *)

File == [exists : BOOLEAN, papers : Seq(Title), torn : BOOLEAN]

Embedding == [of : Title \cup {"demo"}, by : {BuildModel, QueryModel, "fake"}]

\* The sets every variable ranges over.
TypeOK ==
    /\ builder \in {"off", "fetching", "writing", "written", "saving", "done"}
    /\ results \in Seq(Answers) /\ attempt \in 0..(MAX_RETRIES - 1)
    /\ jsonl \in File /\ npy \in File
    /\ app \in {"down", "starting", "loading", "up", "torn", "split"}
    /\ embedding \in {QueryModel, "fake"}
    /\ rows \in Seq(Title)
    /\ corpus \in Seq([title : Title \cup {"demo"}, vector : Embedding])
    /\ cut \in BOOLEAN /\ seen \in {"whole", "cut", "raced"}

\* What the script writes is every paper any of its queries found, each once, and the
\* embeddings are of the same papers in the same order.
CorpusIsComplete ==
    builder \in {"written", "saving", "done"} =>
        /\ Len(results) = Queries
        /\ IsInjective(jsonl.papers)
        /\ Range(jsonl.papers) = (UNION {Range(results[q]) : q \in DOMAIN results}) \ {NoAbstract}
        /\ builder = "done" => npy.papers = jsonl.papers

\* The query is embedded by the model the corpus was embedded by, so that F6 does not
\* refuse for ever for "embedding dimension mismatch" ("pairing the real adapter with the
\* corpus prevents a dimension mismatch", main.py:65): also where a rebuild was cut off.
\* Files that appear between the choice of the adapter and the load are excepted.
DimensionsAgree ==
    (app = "up" /\ QueryModel = BuildModel /\ seen # "raced") =>
        \A entry \in Range(corpus) : entry.vector.by = embedding

\* Only files that a build had not finished mislead a start-up: otherwise each entry
\* carries the embedding of its own paper (zip() of old rows and new lines goes
\* unnoticed), and no file keeps the application from starting as cut off.  A first build
\* may be cut off anywhere: no embeddings, no corpus ("[] if absent", recommender.py:44).
UncutMeansUsable ==
    /\ (app = "up" /\ seen = "whole") =>
          \A entry \in Range(corpus) : entry.vector.of = entry.title
    /\ app = "torn" => seen # "whole" /\ npy.exists
=============================================================================
