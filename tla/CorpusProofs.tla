---------------------------- MODULE CorpusProofs ----------------------------
(***************************************************************************)
(* Proofs about the corpus of F6, for any titles, any answers of OpenAlex   *)
(* and any number of queries: what the builder collects, what the two files *)
(* hold, and what the application makes of them.                            *)
(***************************************************************************)
EXTENDS Corpus, Induction

-----------------------------------------------------------------------------
(* What fetch_papers keeps.                                                 *)

\* What is kept once `item` has been looked at.
KeptWith(kept, item) ==
    IF item \in Range(kept) \cup {NoAbstract} THEN kept ELSE Append(kept, item)

\* The equation that the fold in fetch_papers solves: over the sets of places in
\* `items`, the last place first.
Folds(f, items, D) ==
    f = [s \in SUBSET D |->
            IF s = {} THEN <<>> ELSE KeptWith(f[s \ {Max(s)}], items[Max(s)])]

\* It has a solution, however many items there are.
LEMMA FoldsExists ==
    ASSUME NEW items, NEW n \in Nat
    PROVE  \E f : Folds(f, items, 1..n)
<1> DEFINE S == {k \in Nat : \E f : Folds(f, items, 1..k)}
<1>1. 0 \in S
  <2> DEFINE f == [s \in SUBSET (1..0) |-> <<>>]
  <2>1. \A s \in SUBSET (1..0) : s = {}
    OBVIOUS
  <2>2. Folds(f, items, 1..0)
    BY <2>1 DEF Folds
  <2> HIDE DEF f
  <2>3. QED BY <2>2
<1>2. ASSUME NEW k \in S PROVE k + 1 \in S
  <2>1. PICK f : Folds(f, items, 1..k)
    OBVIOUS
  <2> DEFINE Next1(s) == IF s = {} THEN <<>> ELSE KeptWith(f[s \ {Max(s)}], items[Max(s)])
             g == [s \in SUBSET (1..(k + 1)) |-> Next1(s)]
  <2>2. ASSUME NEW s \in SUBSET (1..k) PROVE g[s] = f[s]
    <3>1. s \in SUBSET (1..(k + 1))
      OBVIOUS
    <3>2. f[s] = Next1(s)
      BY <2>1, Zenon DEF Folds
    <3>3. QED BY <3>1, <3>2, Zenon
  <2>3. ASSUME NEW s \in SUBSET (1..(k + 1)), s # {} PROVE s \ {Max(s)} \in SUBSET (1..k)
    <3>1. CASE k + 1 \in s
      <4>1. \A y \in s : k + 1 >= y
        OBVIOUS
      <4>2. Max(s) \in s /\ Max(s) >= k + 1
        BY <3>1, <4>1 DEF Max
      <4>3. k \in Nat /\ Max(s) \in 1..(k + 1)
        BY <4>2
      <4>4. Max(s) = k + 1
        BY <4>2, <4>3
      <4>5. \A i \in 1..(k + 1) : i # k + 1 => i \in 1..k
        BY <4>3
      <4>6. QED BY <4>4, <4>5, Zenon
    <3>2. CASE k + 1 \notin s
      <4>1. \A i \in 1..(k + 1) : i # k + 1 => i \in 1..k
        OBVIOUS
      <4>2. QED BY <3>2, <4>1, Zenon
    <3>3. QED BY <3>1, <3>2
  <2>4. g = [s \in SUBSET (1..(k + 1)) |->
                IF s = {} THEN <<>> ELSE KeptWith(g[s \ {Max(s)}], items[Max(s)])]
    <3>1. ASSUME NEW s \in SUBSET (1..(k + 1)), s # {}
          PROVE  g[s \ {Max(s)}] = f[s \ {Max(s)}]
      BY <2>2, <2>3, <3>1, Zenon
    <3>2. QED BY <3>1, Zenon
  <2>5. Folds(g, items, 1..(k + 1))
    BY <2>4, Zenon DEF Folds
  <2> HIDE DEF g
  <2>6. QED BY <2>5
<1>3. S = Nat
  <2>1. S \in SUBSET Nat
    OBVIOUS
  <2> HIDE DEF S
  <2>2. QED BY <1>1, <1>2, <2>1, InductiveSet
<1>4. QED BY <1>3

\* fetch_papers looks at the items of all answers, one after the other.
LEMMA FetchIsFold ==
    ASSUME NEW answers, NEW items, items = FlattenSeq(answers)
    PROVE  fetch_papers(answers) = (CHOOSE f : Folds(f, items, DOMAIN items))[DOMAIN items]
BY Zenon DEF fetch_papers, FoldLeft, MapThenFoldSet, Folds, KeptWith

\* What has been collected from the first items of all answers: every title among
\* them, each once.
Collects(kept, items, n) ==
    /\ kept \in Seq(Title)
    /\ IsInjective(kept)
    /\ Range(kept) = {items[i] : i \in 1..n} \ {NoAbstract}

\* Looking at one more item keeps that.
LEMMA CollectsNext ==
    ASSUME NEW n \in Nat, NEW items, NEW kept, Collects(kept, items, n),
           items[n + 1] \in Title \cup {NoAbstract}
    PROVE  Collects(KeptWith(kept, items[n + 1]), items, n + 1)
<1> DEFINE item == items[n + 1]
<1>0. {items[i] : i \in 1..(n + 1)} = {items[i] : i \in 1..n} \cup {item}
  <2>1. 1..(n + 1) = 1..n \cup {n + 1}
    OBVIOUS
  <2>2. QED BY <2>1
<1>1. kept \in Seq(Title) /\ IsInjective(kept) /\ Range(kept) = {items[i] : i \in 1..n} \ {NoAbstract}
  BY DEF Collects
<1>2. CASE item \in Range(kept) \cup {NoAbstract}
  BY <1>0, <1>1, <1>2 DEF Collects, KeptWith
<1>3. CASE item \notin Range(kept) \cup {NoAbstract}
  <2>1. KeptWith(kept, item) = Append(kept, item) /\ item \in Title
    BY <1>3 DEF KeptWith
  <2>2. /\ Append(kept, item) \in Seq(Title)
        /\ Len(Append(kept, item)) = Len(kept) + 1
        /\ \A i \in 1..Len(kept) : Append(kept, item)[i] = kept[i]
        /\ Append(kept, item)[Len(kept) + 1] = item
    BY <1>1, <2>1, AppendProperties
  <2>3. Len(kept) \in Nat /\ DOMAIN kept = 1..Len(kept)
        /\ DOMAIN Append(kept, item) = 1..(Len(kept) + 1)
    BY <1>1, <2>2, LenProperties
  <2>4. \A i \in 1..Len(kept) : kept[i] # item
    BY <1>3, <2>3 DEF Range
  <2>5. IsInjective(Append(kept, item))
    <3> SUFFICES ASSUME NEW a \in 1..(Len(kept) + 1), NEW b \in 1..(Len(kept) + 1),
                        Append(kept, item)[a] = Append(kept, item)[b]
                 PROVE  a = b
      BY <2>3, Zenon DEF IsInjective
    <3>1. CASE a \in 1..Len(kept) /\ b \in 1..Len(kept)
      <4>1. kept[a] = kept[b]
        BY <2>2, <3>1
      <4>2. QED BY <1>1, <2>3, <3>1, <4>1, Zenon DEF IsInjective
    <3>2. CASE a = Len(kept) + 1 /\ b \in 1..Len(kept)
      BY <2>2, <2>4, <3>2
    <3>3. CASE a \in 1..Len(kept) /\ b = Len(kept) + 1
      BY <2>2, <2>4, <3>3
    <3>4. QED BY <2>3, <3>1, <3>2, <3>3
  <2>6. Range(Append(kept, item)) = Range(kept) \cup {item}
    <3>1. 1..(Len(kept) + 1) = 1..Len(kept) \cup {Len(kept) + 1}
      BY <2>3
    <3>2. QED BY <2>2, <2>3, <3>1 DEF Range
  <2>7. QED BY <1>0, <1>1, <1>3, <2>1, <2>2, <2>5, <2>6 DEF Collects
<1>4. QED BY <1>2, <1>3

\* fetch_papers returns the titles of all answers, each once.
LEMMA FetchCollects ==
    ASSUME NEW answers \in Seq(Answers)
    PROVE  /\ fetch_papers(answers) \in Seq(Title)
           /\ IsInjective(fetch_papers(answers))
           /\ Range(fetch_papers(answers))
                = (UNION {Range(answers[q]) : q \in DOMAIN answers}) \ {NoAbstract}
<1> DEFINE Item == Title \cup {NoAbstract}
           items == FlattenSeq(answers)
           n == Len(items)
           f == CHOOSE g : Folds(g, items, 1..n)
           S == {k \in Nat : k <= n => Collects(f[1..k], items, k)}
<1>1. answers \in Seq(Seq(Item))
  BY CorpusAssumption, SeqMonotonic
<1>2. /\ items \in Seq(Item)
      /\ Range(items) = UNION {Range(answers[q]) : q \in DOMAIN answers}
  BY <1>1, FlattenSeqMembers
<1> HIDE DEF items
<1>3. n \in Nat /\ DOMAIN items = 1..n /\ \A i \in 1..n : items[i] \in Item
  BY <1>2, LenProperties, ElementOfSeq
<1> HIDE DEF n
<1>4. Folds(f, items, 1..n)
  BY <1>3, FoldsExists, Zenon
<1>5. fetch_papers(answers) = f[1..n]
  BY <1>3, FetchIsFold, Zenon DEF items
<1>6. \A s \in SUBSET (1..n) :
         f[s] = IF s = {} THEN <<>> ELSE KeptWith(f[s \ {Max(s)}], items[Max(s)])
  BY <1>4, Zenon DEF Folds
<1> HIDE DEF f
<1>7. 0 \in S
  <2>1. 1..0 = {}
    OBVIOUS
  <2>2. f[1..0] = <<>>
    BY <1>6, <2>1
  <2>3. Collects(<<>>, items, 0)
    BY <2>1 DEF Collects, IsInjective, Range
  <2>4. QED BY <2>2, <2>3
<1>8. ASSUME NEW k \in S PROVE k + 1 \in S
  <2> SUFFICES ASSUME k + 1 <= n PROVE Collects(f[1..(k + 1)], items, k + 1)
    OBVIOUS
  <2>1. k \in Nat /\ k + 1 \in 1..n /\ 1..(k + 1) \in SUBSET (1..n) /\ 1..(k + 1) # {}
    <3>1. k \in Nat /\ k + 1 \in 1..n /\ 1 \in 1..(k + 1)
      BY <1>3
    <3>2. \A i \in 1..(k + 1) : i \in 1..n
      BY <1>3, <3>1
    <3>3. QED BY <3>1, <3>2
  <2>2. Collects(f[1..k], items, k)
    BY <1>3, <2>1
  <2>3. Max(1..(k + 1)) = k + 1 /\ 1..(k + 1) \ {k + 1} = 1..k
    <3>1. \A y \in 1..(k + 1) : k + 1 >= y
      BY <2>1
    <3>2. Max(1..(k + 1)) \in 1..(k + 1) /\ Max(1..(k + 1)) >= k + 1
      BY <2>1, <3>1 DEF Max
    <3>3. QED BY <2>1, <3>2
  <2>4. f[1..(k + 1)] = KeptWith(f[1..k], items[k + 1])
    BY <1>6, <2>1, <2>3, Zenon
  <2>5. items[k + 1] \in Title \cup {NoAbstract}
    BY <1>3, <2>1
  <2>6. QED BY <2>1, <2>2, <2>4, <2>5, CollectsNext
<1>9. S = Nat
  <2>1. S \in SUBSET Nat
    OBVIOUS
  <2> HIDE DEF S
  <2>2. QED BY <1>7, <1>8, <2>1, InductiveSet
<1>10. Collects(fetch_papers(answers), items, n)
  <2>1. n \in S
    <3> HIDE DEF S
    <3>1. QED BY <1>3, <1>9
  <2>2. n <= n
    BY <1>3
  <2>3. QED BY <1>5, <2>1, <2>2
<1>11. Range(items) = {items[i] : i \in 1..n}
  BY <1>3, Zenon DEF Range
<1>12. QED BY <1>2, <1>10, <1>11 DEF Collects

-----------------------------------------------------------------------------
(* The builder and its two files.                                           *)

\* The answers are collected before the first file is opened and not again before the
\* next build; each file is what they come to once it is closed.
ScriptInv ==
    /\ builder \in {"writing", "written", "saving", "done"} => Len(results) = Queries
    /\ builder \in {"written", "saving", "done"} => jsonl = Whole(papers)
    /\ builder = "done" => npy = Whole(papers)

\* What the script writes is papers, as many as were fetched or fewer.
LEMMA LinesType ==
    ASSUME results \in Seq(Answers), NEW k \in 0..Len(papers), NEW torn \in BOOLEAN
    PROVE  /\ Whole(papers) \in File
           /\ [exists |-> TRUE, papers |-> SubSeq(papers, 1, k), torn |-> torn] \in File
<1>1. papers \in Seq(Title)
  BY FetchCollects DEF papers
<1>2. Len(papers) \in Nat /\ \A i \in 1..Len(papers) : papers[i] \in Title
  BY <1>1, LenProperties, ElementOfSeq
<1>3. k \in Int /\ \A i \in 1..k : papers[i] \in Title
  BY <1>2
<1>4. SubSeq(papers, 1, k) \in Seq(Title)
  BY <1>3, SubSeqProperties
<1>5. QED BY <1>1, <1>4 DEF Whole, File

\* An emptied file, closed or not, is one.
LEMMA NoLinesType ==
    ASSUME NEW torn \in BOOLEAN
    PROVE  Whole(<<>>) \in File /\ [exists |-> TRUE, papers |-> <<>>, torn |-> torn] \in File
BY DEF Whole, File

\* One entry of the corpus.
Entry == [title : Title \cup {"demo"}, vector : Embedding]

\* Lines and rows, paired as far as both go, are entries.
LEMMA EntriesType ==
    ASSUME NEW lines \in Seq(Title), NEW vectors \in Seq(Title)
    PROVE  [i \in 1..Min({Len(lines), Len(vectors)}) |->
              [title |-> lines[i], vector |-> [of |-> vectors[i], by |-> BuildModel]]] \in Seq(Entry)
<1> DEFINE n == Min({Len(lines), Len(vectors)})
           e(i) == [title |-> lines[i], vector |-> [of |-> vectors[i], by |-> BuildModel]]
<1>1. Len(lines) \in Nat /\ Len(vectors) \in Nat
  BY LenProperties
<1>2. n \in Nat /\ n <= Len(lines) /\ n <= Len(vectors)
  <2>1. \E x \in {Len(lines), Len(vectors)} : \A y \in {Len(lines), Len(vectors)} : x <= y
    BY <1>1
  <2>2. n \in {Len(lines), Len(vectors)} /\ \A y \in {Len(lines), Len(vectors)} : n <= y
    BY <2>1 DEF Min
  <2>3. QED BY <1>1, <2>2
<1> HIDE DEF n
<1>3. ASSUME NEW i \in 1..n PROVE e(i) \in Entry
  <2>1. i \in 1..Len(lines) /\ i \in 1..Len(vectors)
    BY <1>1, <1>2
  <2>2. lines[i] \in Title /\ vectors[i] \in Title
    BY <2>1, ElementOfSeq
  <2>3. QED BY <2>2 DEF Entry, Embedding
<1> HIDE DEF e
<1>4. [i \in 1..n |-> e(i)] \in Seq(Entry)
  BY <1>2, <1>3
<1>5. QED BY <1>4 DEF n, e

\* What the application keeps is a corpus, whatever it has loaded.
LEMMA RecommenderType ==
    ASSUME embedding \in {QueryModel, "fake"}, NEW loaded \in Seq(Entry),
           _build_recommender(loaded)
    PROVE  corpus' \in Seq(Entry) /\ app' = "up"
<1>1. _demo_corpus \in Seq(Entry)
  BY DEF _demo_corpus, Entry, Embedding
<1>2. QED BY <1>1 DEF _build_recommender

\* Every step, of the script or the application, keeps the types.
LEMMA TypeStep ==
    ASSUME TypeOK, [Next]_vars
    PROVE  TypeOK'
<1> USE DEF TypeOK
<1>0. MAX_RETRIES \in Nat \ {0} /\ 0 \in 0..(MAX_RETRIES - 1)
  BY CorpusAssumption
<1>1. CASE BeginBuild
  BY <1>0, <1>1 DEF BeginBuild, files, server
<1>2. CASE _search
  <2>1. results' \in Seq(Answers) /\ attempt' \in 0..(MAX_RETRIES - 1)
    <3>1. CASE (\E items \in Answers : results' = Append(results, items)) /\ attempt' = 0
      BY <1>0, <3>1, AppendProperties
    <3>2. CASE attempt + 1 < MAX_RETRIES /\ attempt' = attempt + 1 /\ results' = results
      BY <1>0, <3>2
    <3>3. CASE UNCHANGED <<results, attempt>>
      BY <3>3
    <3>4. QED BY <1>2, <3>1, <3>2, <3>3 DEF _search
  <2>2. builder' \in {"fetching", "off"}
    BY <1>2 DEF _search
  <2>3. QED BY <1>2, <2>1, <2>2 DEF _search, files, server
<1>3. CASE NothingFetched
  BY <1>3 DEF NothingFetched, files, server
<1>4. ASSUME NEW phase \in {"writing", "written", "saving", "done"}, Written(phase),
             jsonl' \in File, npy' \in File, cut' \in BOOLEAN
      PROVE  TypeOK'
  BY <1>4 DEF Written, server
<1>5. CASE OpenLines
  BY <1>4, <1>5, NoLinesType DEF OpenLines
<1>6. CASE WriteLines
  <2>1. PICK k \in Len(jsonl.papers)..Len(papers), torn \in BOOLEAN :
          jsonl' = [exists |-> TRUE, papers |-> SubSeq(papers, 1, k), torn |-> torn]
    BY <1>6 DEF WriteLines
  <2>2. jsonl.papers \in Seq(Title) /\ papers \in Seq(Title)
    BY FetchCollects DEF File, papers
  <2>3. Len(jsonl.papers) \in Nat /\ Len(papers) \in Nat
    BY <2>2, LenProperties
  <2>4. k \in 0..Len(papers)
    BY <2>3
  <2>5. jsonl' \in File
    BY <2>1, <2>4, LinesType
  <2>6. QED BY <1>4, <1>6, <2>5 DEF WriteLines
<1>7. CASE CloseLines \/ SaveRows
  <2>1. Whole(papers) \in File
    <3>1. papers \in Seq(Title)
      BY FetchCollects DEF papers
    <3>2. QED BY <3>1 DEF Whole, File
  <2>2. QED BY <1>4, <1>7, <2>1 DEF CloseLines, SaveRows
<1>8. CASE OpenRows
  BY <1>4, <1>8, NoLinesType DEF OpenRows
<1>9. CASE BuildStops
  BY <1>9 DEF BuildStops, files, server
<1>10. CASE _build_embedding
  BY <1>10 DEF _build_embedding, script, files
<1>11. CASE LoadRows
  <2>1. npy.papers \in Seq(Title)
    BY DEF File
  <2>2. CASE ~BothExist /\ _build_recommender(<<>>) /\ UNCHANGED rows
    <3>1. corpus' \in Seq(Entry) /\ app' = "up"
      <4>1. <<>> \in Seq(Entry) /\ embedding \in {QueryModel, "fake"}
        OBVIOUS
      <4> HIDE DEF TypeOK
      <4>2. QED BY <2>2, <4>1, RecommenderType
    <3>2. QED BY <1>11, <2>2, <3>1 DEF LoadRows, Entry, script, files
  <2>3. CASE rows' = npy.papers /\ app' \in {"torn", "loading"} /\ UNCHANGED corpus
    BY <1>11, <2>1, <2>3 DEF LoadRows, script, files
  <2>4. QED BY <1>11, <2>2, <2>3 DEF LoadRows, Raises
<1>12. CASE LoadLines
  <2> DEFINE entries ==
               [i \in 1..Min({Len(jsonl.papers), Len(rows)}) |->
                  [title |-> jsonl.papers[i], vector |-> [of |-> rows[i], by |-> BuildModel]]]
  <2>1. jsonl.papers \in Seq(Title)
    BY DEF File
  <2>2. entries \in Seq(Entry)
    BY <2>1, EntriesType
  <2>3. \/ app' \in {"torn", "split"} /\ UNCHANGED corpus
        \/ _build_recommender(entries)
    BY <1>12 DEF LoadLines, Raises
  <2> HIDE DEF entries
  <2>4. app' \in {"torn", "split", "up"} /\ corpus' \in Seq(Entry)
    BY <2>2, <2>3, RecommenderType DEF Entry
  <2>5. QED BY <1>12, <2>4 DEF LoadLines, Entry, script, files
<1>13. CASE Stop
  BY <1>13 DEF Stop, script, files
<1>14. CASE UNCHANGED vars
  BY <1>14 DEF vars, script, files, server
<1>15. QED
  BY <1>1, <1>2, <1>3, <1>5, <1>6, <1>7, <1>8, <1>9, <1>10, <1>11, <1>12, <1>13, <1>14
  DEF Next, Build

\* Every variable keeps its type: all that is ever written, loaded or embedded is a
\* title that some answer held.
THEOREM CorpusTypes == Spec => []TypeOK
<1>1. Init => TypeOK
  <2>1. Absent \in File
    BY DEF Absent, File
  <2>2. 0 \in 0..(MAX_RETRIES - 1)
    BY CorpusAssumption
  <2>3. <<>> \in Seq([title : Title \cup {"demo"}, vector : Embedding])
    OBVIOUS
  <2>4. <<>> \in Seq(Answers) /\ <<>> \in Seq(Title)
    OBVIOUS
  <2>5. ASSUME Init
        PROVE  /\ results \in Seq(Answers) /\ attempt \in 0..(MAX_RETRIES - 1)
               /\ jsonl \in File /\ npy \in File
               /\ rows \in Seq(Title)
               /\ corpus \in Seq([title : Title \cup {"demo"}, vector : Embedding])
    BY <2>1, <2>2, <2>3, <2>4, <2>5, Zenon DEF Init
  <2>6. QED BY <2>5 DEF Init, TypeOK
<1>2. QED BY <1>1, TypeStep, PTL DEF Spec

\* The files are only written once every query has been answered, and hold what all
\* the answers come to from then on.
LEMMA ScriptStep ==
    ASSUME ScriptInv, [Next]_vars
    PROVE  ScriptInv'
<1> USE DEF ScriptInv
<1>1. CASE BeginBuild \/ NothingFetched \/ BuildStops
  BY <1>1 DEF BeginBuild, NothingFetched, BuildStops
<1>2. CASE _search
  <2>1. builder' \in {"fetching", "off"}
    BY <1>2 DEF _search
  <2>2. QED BY <2>1
<1>3. CASE OpenLines \/ WriteLines \/ CloseLines \/ OpenRows \/ SaveRows
  <2>1. results' = results /\ papers' = papers /\ Len(results) = Queries
    BY <1>3 DEF OpenLines, WriteLines, CloseLines, OpenRows, SaveRows, Written, papers
  <2>2. Whole(papers)' = Whole(papers)
    BY <2>1 DEF Whole
  <2>3. QED
    BY <1>3, <2>1, <2>2 DEF OpenLines, WriteLines, CloseLines, OpenRows, SaveRows, Written
<1>4. CASE _build_embedding \/ LoadRows \/ LoadLines \/ Stop \/ UNCHANGED vars
  <2>1. UNCHANGED <<builder, results, jsonl, npy>>
    BY <1>4 DEF _build_embedding, LoadRows, LoadLines, Stop, vars, script, files
  <2>2. Whole(papers)' = Whole(papers)
    BY <2>1 DEF Whole, papers
  <2>3. QED BY <2>1, <2>2
<1>5. QED BY <1>1, <1>2, <1>3, <1>4 DEF Next, Build

\* What a build that ran to its end has left is complete: no paper that a query found
\* is missing or doubled, whatever failures and repeats there were on the way.
THEOREM CorpusComplete == Spec => []CorpusIsComplete
<1>1. Init => ScriptInv
  BY DEF Init, ScriptInv
<1>2. TypeOK /\ ScriptInv => CorpusIsComplete
  <2> SUFFICES ASSUME TypeOK, ScriptInv, builder \in {"written", "saving", "done"}
               PROVE  /\ Len(results) = Queries
                      /\ IsInjective(jsonl.papers)
                      /\ Range(jsonl.papers)
                           = (UNION {Range(results[q]) : q \in DOMAIN results}) \ {NoAbstract}
                      /\ builder = "done" => npy.papers = jsonl.papers
    BY DEF CorpusIsComplete
  <2>1. jsonl.papers = papers /\ (builder = "done" => npy.papers = papers)
    BY DEF ScriptInv, Whole
  <2>2. results \in Seq(Answers)
    BY DEF TypeOK
  <2>3. /\ IsInjective(papers)
        /\ Range(papers) = (UNION {Range(results[q]) : q \in DOMAIN results}) \ {NoAbstract}
    BY <2>2, FetchCollects DEF papers
  <2>4. QED BY <2>1, <2>3 DEF ScriptInv
<1>3. QED BY <1>1, <1>2, ScriptStep, CorpusTypes, PTL DEF Spec

-----------------------------------------------------------------------------
(* What a start-up finds.                                                   *)

\* Files that nobody is writing, and whose last writer was not cut off, are alike.
FilesAgree ==
    ~cut /\ builder \notin {"writing", "written", "saving"} => jsonl = npy /\ ~npy.torn

\* Files that were whole and have not changed since a start-up began are still what it
\* took them for: alike, the adapter chosen for them, the rows those of the lines.
StartInv ==
    /\ app \in {"starting", "loading"} /\ seen = "whole" => jsonl = npy /\ ~npy.torn
    /\ app \in {"starting", "loading"} /\ seen # "raced"
         => embedding = IF BothExist THEN QueryModel ELSE "fake"
    /\ app = "loading" => BothExist
    /\ app = "loading" /\ seen = "whole" => rows = jsonl.papers

\* Between two builds, neither cut off, the files are alike.
LEMMA FilesStep ==
    ASSUME ScriptInv, FilesAgree, [Next]_vars
    PROVE  FilesAgree'
<1> USE DEF FilesAgree
<1>1. CASE BeginBuild \/ NothingFetched
  BY <1>1 DEF BeginBuild, NothingFetched, files
<1>2. CASE _search
  BY <1>2 DEF _search, files
<1>3. CASE BuildStops
  BY <1>3 DEF BuildStops, files
<1>4. CASE OpenLines \/ WriteLines \/ CloseLines \/ OpenRows
  BY <1>4 DEF OpenLines, WriteLines, CloseLines, OpenRows, Written
<1>5. CASE SaveRows
  <2>1. npy' = Whole(papers) /\ jsonl' = Whole(papers)
    BY <1>5 DEF SaveRows, ScriptInv
  <2>2. QED BY <2>1 DEF Whole
<1>6. CASE _build_embedding \/ LoadRows \/ LoadLines \/ Stop \/ UNCHANGED vars
  BY <1>6 DEF _build_embedding, LoadRows, LoadLines, Stop, vars, script, files
<1>7. QED BY <1>1, <1>2, <1>3, <1>4, <1>5, <1>6 DEF Next, Build

\* What the builder does to a start-up: it makes it a raced one, or leaves the files.
LEMMA BuildLeaves ==
    ASSUME Build
    PROVE  /\ UNCHANGED server
           /\ \/ UNCHANGED <<files, seen>>
              \/ /\ seen' = IF app \in {"starting", "loading"} THEN "raced" ELSE seen
                 /\ BothExist => BothExist'
                 /\ npy.exists => npy.exists'
<1>1. CASE BeginBuild \/ NothingFetched \/ BuildStops
  BY <1>1 DEF BeginBuild, NothingFetched, BuildStops
<1>2. CASE _search
  BY <1>2 DEF _search
<1>3. CASE OpenLines
  BY <1>3 DEF OpenLines, Written, BothExist, Whole
<1>4. CASE WriteLines
  BY <1>4 DEF WriteLines, Written, BothExist
<1>5. CASE CloseLines
  BY <1>5 DEF CloseLines, Written, BothExist, Whole
<1>6. CASE OpenRows
  BY <1>6 DEF OpenRows, Written, BothExist
<1>7. CASE SaveRows
  BY <1>7 DEF SaveRows, Written, BothExist, Whole
<1>8. QED BY <1>1, <1>2, <1>3, <1>4, <1>5, <1>6, <1>7 DEF Build

\* A start-up holds on to what it found, or knows that it was raced.
LEMMA StartStep ==
    ASSUME FilesAgree, StartInv, [Next]_vars
    PROVE  StartInv'
<1> USE DEF StartInv
<1>1. CASE Build
  BY <1>1, BuildLeaves DEF server, files, BothExist
<1>2. CASE _build_embedding
  <2>1. UNCHANGED <<jsonl, npy>> /\ app' = "starting"
        /\ embedding' = IF BothExist THEN QueryModel ELSE "fake"
    BY <1>2 DEF _build_embedding, files
  <2>2. seen' = "whole" => jsonl = npy /\ ~npy.torn
    BY <1>2 DEF _build_embedding, FilesAgree
  <2>3. QED BY <2>1, <2>2 DEF BothExist
<1>3. CASE LoadRows
  <2>1. UNCHANGED <<jsonl, npy, embedding, seen>> /\ app = "starting"
    BY <1>3 DEF LoadRows, files
  <2>2. \/ app' \in {"up", "torn"}
        \/ app' = "loading" /\ BothExist /\ rows' = npy.papers
    BY <1>3 DEF LoadRows, Raises, _build_recommender
  <2>3. QED BY <2>1, <2>2 DEF BothExist
<1>4. CASE LoadLines
  <2>1. app' \in {"torn", "split", "up"}
    BY <1>4 DEF LoadLines, Raises, _build_recommender
  <2>2. QED BY <2>1
<1>5. CASE Stop
  BY <1>5 DEF Stop
<1>6. CASE UNCHANGED vars
  BY <1>6 DEF vars, server, files, BothExist
<1>7. QED BY <1>1, <1>2, <1>3, <1>4, <1>5, <1>6 DEF Next

\* Everything the builder and a start-up keep between them.
FilesInv == ScriptInv /\ FilesAgree /\ StartInv

\* It holds always.
LEMMA FilesCorrect == Spec => []FilesInv
<1>1. Init => FilesInv
  BY DEF Init, FilesInv, ScriptInv, FilesAgree, StartInv, Absent
<1>2. FilesInv /\ [Next]_vars => FilesInv'
  BY ScriptStep, FilesStep, StartStep DEF FilesInv
<1>3. QED BY <1>1, <1>2, PTL DEF Spec

\* The corpus that comes up is the built-in one, or was loaded row by row.
LEMMA ComesUp ==
    ASSUME LoadRows \/ LoadLines, app' = "up", NEW entry \in Range(corpus')
    PROVE  /\ UNCHANGED <<embedding, seen>>
           /\ \/ entry.vector.of = entry.title /\ entry.vector.by = embedding
              \/ /\ app = "loading" /\ entry.vector.by = BuildModel
                 /\ \E i : entry.title = jsonl.papers[i] /\ entry.vector.of = rows[i]
<1> DEFINE entries == [i \in 1..Min({Len(jsonl.papers), Len(rows)}) |->
                          [title |-> jsonl.papers[i],
                           vector |-> [of |-> rows[i], by |-> BuildModel]]]
<1>0. ASSUME NEW loaded, _build_recommender(loaded)
      PROVE  corpus' \in {loaded, <<>>, _demo_corpus}
  BY <1>0 DEF _build_recommender
<1>1. CASE LoadRows
  <2>1. _build_recommender(<<>>) /\ UNCHANGED <<embedding, seen>>
    BY <1>1 DEF LoadRows, Raises
  <2>2. QED BY <1>0, <2>1 DEF _demo_corpus, Range
<1>2. CASE LoadLines
  <2>1. _build_recommender(entries) /\ app = "loading" /\ UNCHANGED <<embedding, seen>>
    BY <1>2 DEF LoadLines, Raises
  <2>2. CASE corpus' = entries
    BY <2>1, <2>2 DEF Range
  <2>3. CASE corpus' \in {<<>>, _demo_corpus}
    BY <2>1, <2>3 DEF _demo_corpus, Range
  <2> HIDE DEF entries
  <2>4. QED BY <1>0, <2>1, <2>2, <2>3
<1>3. QED BY <1>1, <1>2

\* Every step keeps the adapter that embeds the query the one of the corpus.
LEMMA DimensionsStep ==
    ASSUME StartInv, DimensionsAgree, [Next]_vars
    PROVE  DimensionsAgree'
<1> USE DEF DimensionsAgree
<1>1. CASE Build
  BY <1>1, BuildLeaves DEF server
<1>2. CASE _build_embedding \/ Stop
  BY <1>2 DEF _build_embedding, Stop
<1>3. CASE LoadRows \/ LoadLines
  <2> SUFFICES ASSUME app' = "up", QueryModel = BuildModel, seen' # "raced",
                      NEW entry \in Range(corpus')
               PROVE  entry.vector.by = embedding'
    OBVIOUS
  <2>1. UNCHANGED <<embedding, seen>>
    BY <1>3, ComesUp
  <2>2. entry.vector.by = embedding \/ (app = "loading" /\ entry.vector.by = BuildModel)
    BY <1>3, ComesUp
  <2>3. QED BY <2>1, <2>2 DEF StartInv
<1>4. CASE UNCHANGED vars
  BY <1>4 DEF vars, server
<1>5. QED BY <1>1, <1>2, <1>3, <1>4 DEF Next

\* A query is embedded by the model of the corpus, wherever a build was cut off.
THEOREM QueriesMatchCorpus == Spec => []DimensionsAgree
<1>1. Init => DimensionsAgree
  BY DEF Init, DimensionsAgree
<1>2. FilesInv => StartInv
  BY DEF FilesInv
<1>3. QED BY <1>1, <1>2, FilesCorrect, DimensionsStep, PTL DEF Spec

\* Every step keeps each entry with its own embedding.
LEMMA UsableStep ==
    ASSUME StartInv, UncutMeansUsable, [Next]_vars
    PROVE  UncutMeansUsable'
<1> USE DEF UncutMeansUsable
<1>1. CASE Build
  BY <1>1, BuildLeaves DEF server, files
<1>2. CASE _build_embedding \/ Stop
  BY <1>2 DEF _build_embedding, Stop
<1>3. CASE LoadRows \/ LoadLines
  <2>1. app' = "torn" => seen' # "whole" /\ npy'.exists
    <3>1. CASE LoadRows
      <4>1. UNCHANGED <<npy, seen>> /\ app = "starting"
        BY <3>1 DEF LoadRows, files
      <4>2. app' = "torn" => npy.torn /\ BothExist
        BY <3>1 DEF LoadRows, Raises, _build_recommender
      <4>3. QED BY <4>1, <4>2 DEF StartInv, BothExist
    <3>2. CASE LoadLines
      <4>1. UNCHANGED <<npy, seen>> /\ app = "loading"
        BY <3>2 DEF LoadLines, files
      <4>2. app' = "torn" => jsonl.torn
        BY <3>2 DEF LoadLines, Raises, _build_recommender
      <4>3. QED BY <4>1, <4>2 DEF StartInv, BothExist
    <3>3. QED BY <1>3, <3>1, <3>2
  <2>2. ASSUME app' = "up", seen' = "whole", NEW entry \in Range(corpus')
        PROVE  entry.vector.of = entry.title
    <3>1. seen = "whole"
      BY <1>3, <2>2, ComesUp
    <3>2. \/ entry.vector.of = entry.title
          \/ /\ app = "loading"
             /\ \E i : entry.title = jsonl.papers[i] /\ entry.vector.of = rows[i]
      BY <1>3, <2>2, ComesUp
    <3>3. app = "loading" => rows = jsonl.papers
      BY <3>1 DEF StartInv
    <3>4. QED BY <3>2, <3>3
  <2>3. QED BY <2>1, <2>2
<1>4. CASE UNCHANGED vars
  BY <1>4 DEF vars, server, files
<1>5. QED BY <1>1, <1>2, <1>3, <1>4 DEF Next

\* A start-up that found whole files and was not raced pairs each title with its own
\* embedding, and is never kept from coming up by a file that ends early.
THEOREM WholeFilesAreUsable == Spec => []UncutMeansUsable
<1>1. Init => UncutMeansUsable
  BY DEF Init, UncutMeansUsable
<1>2. FilesInv => StartInv
  BY DEF FilesInv
<1>3. QED BY <1>1, <1>2, FilesCorrect, UsableStep, PTL DEF Spec
=============================================================================
