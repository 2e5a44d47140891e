----------------------------- MODULE ResultRows -----------------------------
(***************************************************************************)
(* How the contents of agents' results become rows and contents again:      *)
(* DbTaskStore.save_result, ResultRepo and result_mapping on the way in,    *)
(* DbTaskRecovery on the way back; and which of them the next agent is      *)
(* sent (payloads.py).  Tables and contents are values, saving and loading  *)
(* operators on them; TaskContents runs them.                               *)
(*                                                                          *)
(* A document is its number in the upload, a chunk is named by its document *)
(* and its index (chunk-{document}-{index}), and text is left out: a chunk, *)
(* a term or a section is told apart by its place.  Contents, by operation: *)
(*    F1, F2   the sequence of chunks                                       *)
(*    F3       the sections, in order, and the ids of the chunks read       *)
(*    F5       the sequence of terms, each with the chunk it links to       *)
(*    F4       the quiz                                                     *)
(*    F6       the sequence of citations                                    *)
(***************************************************************************)
EXTENDS Plan, Ordering

CONSTANTS
    Document,   \* the numbers of the task's documents
    Kind,       \* their types
    Radix       \* ten: ids end in decimal numbers, and rows are ordered by id

ASSUME RowsAssumption ==
    /\ Document \subseteq Nat
    /\ Kind \in [Document -> DocumentType]
    /\ Radix \in Nat \ {0}

-----------------------------------------------------------------------------
(* Chunks.                                                                  *)

_SourceType == [audio |-> "audio", pdf |-> "pdf_extracted", image |-> "image"]

_SOURCE_TYPE_TO_OPERATION == [audio |-> "F1", pdf_extracted |-> "F2", image |-> "F2"]

\* The `n` chunks of a document, as its agent stamps them.
stamp_chunks(document, n) ==
    [i \in 1..n |-> [document |-> document, index |-> i - 1,
                     source |-> _SourceType[Kind[document]]]]

ChunkId(chunk) == <<chunk.document, chunk.index>>

NoChunk == <<>>

\* Where a number of at most two digits comes among numbers ordered as strings.
AsString(n) ==
    IF n < Radix THEN n * (Radix + 1) ELSE (n \div Radix) * (Radix + 1) + 1 + (n % Radix)

\* By id, of chunks and of rows numbered within their task.
ChunkBefore(r, s) ==
    \/ AsString(r.document) < AsString(s.document)
    \/ r.document = s.document /\ AsString(r.index) < AsString(s.index)

NumberBefore(r, s) == AsString(r.index) < AsString(s.index)

-----------------------------------------------------------------------------
(* Saving.  One transaction each.                                           *)

NoRows == [chunks |-> {}, summaries |-> {}, terms |-> {}, quizzes |-> {}, citations |-> {}]

\* A term keeps its place, not its link, when the chunk it links to is deleted
\* (ON DELETE SET NULL), even if a chunk of that id is inserted again.
Unlink(terms, gone) ==
    {[term EXCEPT !.link = IF @ \in gone THEN NoChunk ELSE @] : term \in terms}

\* Mutant of save_chunks: the chunks of the whole task make way for the new ones.
MutWholeTask(tables, content) ==
    [tables EXCEPT !.chunks = Members(content),
                   !.terms  = Unlink(@, {ChunkId(row) : row \in tables.chunks})]

\* The chunks of the documents at hand are replaced.
save_chunks(tables, content) ==
    LET rows == Members(content)
        old  == {row \in tables.chunks : \E new \in rows : row.document = new.document}
    IN  [tables EXCEPT !.chunks = (@ \ old) \cup rows,
                       !.terms  = Unlink(@, {ChunkId(row) : row \in old})]

_SECTION_TO_COLUMN ==
    [introduction |-> "introduction", thesis |-> "key_points", conclusion |-> "conclusions"]

\* A section missing from the content leaves its column NULL.
summary_row(content) ==
    [columns |-> {[column |-> _SECTION_TO_COLUMN[content.sections[i]], text |-> content.sections[i]] :
                     i \in DOMAIN content.sections},
     source_chunk_ids |-> content.source_chunk_ids]

save_summary(tables, content) == [tables EXCEPT !.summaries = {summary_row(content)}]

Numbered(content) == {[index |-> i - 1, value |-> content[i]] : i \in DOMAIN content}

term_rows(content) == {[index |-> row.index, link |-> row.value] : row \in Numbered(content)}

save_terms(tables, content) == [tables EXCEPT !.terms = term_rows(content)]

save_quiz(tables, content) == [tables EXCEPT !.quizzes = {content}]

save_citations(tables, content) == [tables EXCEPT !.citations = Numbered(content)]

save_result(tables, op, content) ==
    CASE op \in {"F1", "F2"} -> save_chunks(tables, content)
      [] op = "F3" -> save_summary(tables, content)
      [] op = "F4" -> save_quiz(tables, content)
      [] op = "F5" -> save_terms(tables, content)
      [] op = "F6" -> save_citations(tables, content)

\* The foreign key from terms to chunks: a transaction that breaks it is rolled back.
MaySave(tables, op, content) ==
    op = "F5" => Members(content) \subseteq {ChunkId(row) : row \in tables.chunks} \cup {NoChunk}

-----------------------------------------------------------------------------
(* Loading.                                                                 *)

bucket_chunks_by_operation(tables, op) ==
    {row \in tables.chunks : _SOURCE_TYPE_TO_OPERATION[row.source] = op}

content_from_chunk_rows(rows) == InOrder(rows, ChunkBefore)

\* The columns in the order of the table, those that are NULL left out.
content_from_summary_row(row) ==
    LET columns   == <<"introduction", "key_points", "conclusions">>
        filled    == InOrder({k \in DOMAIN columns :
                                 \E cell \in row.columns : cell.column = columns[k]}, <)
        Section(c) == CHOOSE section \in DOMAIN _SECTION_TO_COLUMN : _SECTION_TO_COLUMN[section] = c
    IN  [sections |-> [i \in DOMAIN filled |-> Section(columns[filled[i]])],
         source_chunk_ids |-> row.source_chunk_ids]

content_from_term_rows(rows) ==
    LET list == InOrder(rows, NumberBefore) IN [i \in DOMAIN list |-> list[i].link]

content_from_citation_rows(rows) ==
    LET list == InOrder(rows, NumberBefore) IN [i \in DOMAIN list |-> list[i].value]

\* The rows an operation's result is rebuilt from: without any, it has no result.
RowsOf(tables, op) ==
    CASE op \in {"F1", "F2"} -> bucket_chunks_by_operation(tables, op)
      [] op = "F3" -> tables.summaries
      [] op = "F4" -> tables.quizzes
      [] op = "F5" -> tables.terms
      [] op = "F6" -> tables.citations

ContentFrom(rows, op) ==
    CASE op \in {"F1", "F2"} -> content_from_chunk_rows(rows)
      [] op = "F3" -> content_from_summary_row(CHOOSE row \in rows : TRUE)
      [] op = "F4" -> CHOOSE row \in rows : TRUE
      [] op = "F5" -> content_from_term_rows(rows)
      [] op = "F6" -> content_from_citation_rows(rows)

_load_results(tables) ==
    [op \in {o \in Operation : RowsOf(tables, o) # {}} |-> ContentFrom(RowsOf(tables, op), op)]

-----------------------------------------------------------------------------
(* Payloads.  `results` has the operations that succeeded for its domain.   *)

\* The first document of one of these types, if there is one.
_first_document(documents, kinds) ==
    LET suitable == {i \in DOMAIN documents : Kind[documents[i]] \in kinds}
    IN  IF suitable = {} THEN <<>> ELSE <<documents[Min(suitable)]>>

\* The content of an operation that succeeded, or nothing.
_content(results, op) == IF op \in DOMAIN results THEN <<results[op]>> ELSE <<>>

_chunks(results) ==
    FlattenSeq(_content(results, "F1")) \o FlattenSeq(_content(results, "F2"))

build_payload(op, documents, results) ==
    CASE op = "F1" -> _first_document(documents, {"audio"})
      [] op = "F2" -> _first_document(documents, {"pdf", "image"})
      [] op \in {"F3", "F5"} -> _chunks(results)
      [] op = "F4" -> _content(results, "F3")
      [] op = "F6" -> <<_content(results, "F3"), FlattenSeq(_content(results, "F5"))>>
=============================================================================
