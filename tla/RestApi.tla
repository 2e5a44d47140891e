------------------------------- MODULE RestApi -------------------------------
(***************************************************************************)
(* POST /api/tasks (src/src/api/routes.py): the uploads go to files of the  *)
(* task's own directory and to rows of one transaction.  Nobody sees the    *)
(* rows before the commit, nor shares the directory, so the handling is one *)
(* step; `stop` is where it is cut short, by an error or with the process.  *)
(* An upload is the type its MIME type or its suffix tells ("text" for any  *)
(* other), its size and its name ("" for one of which nothing is left).     *)
(***************************************************************************)
EXTENDS Integers, SequencesExt, FiniteSetsExt

CONSTANTS MAX_UPLOAD_BYTES, UPLOAD_CHUNK_BYTES

ASSUME RestApiAssumption == MAX_UPLOAD_BYTES \in Nat /\ UPLOAD_CHUNK_BYTES \in Nat \ {0}

_detect_document_type(upload) ==
    LET is(type) == type \in {upload.mime, upload.suffix}
    IN  CASE is("audio")                                   -> "audio"
          [] ~is("audio") /\ is("pdf")                      -> "pdf"
          [] ~is("audio") /\ ~is("pdf") /\ is("image")       -> "image"
          [] OTHER                                         -> "text"

\* The file's name: its index, and what is left of the original name.
_safe_destination(upload, index) ==
    <<index, IF upload.name = "" THEN "file" ELSE upload.name>>

\* How much of an upload is written: chunk by chunk, none that goes over the limit.
_save_upload(size) ==
    IF size <= MAX_UPLOAD_BYTES THEN size
    ELSE MAX_UPLOAD_BYTES - (MAX_UPLOAD_BYTES % UPLOAD_CHUNK_BYTES)

\* The next upload: its file, then its row.  Cut short while saving it, some of the file
\* is there.
SaveNext(task, upload, index, stop) ==
    LET path  == _safe_destination(upload, index)
        whole == upload.size <= MAX_UPLOAD_BYTES /\ stop.at # index
        bytes == IF stop.at = index THEN Min({stop.bytes, _save_upload(upload.size)})
                 ELSE _save_upload(upload.size)
    IN  IF task.code # 202 THEN task
        ELSE [task EXCEPT
                !.disk = [p \in DOMAIN @ \cup {path} |->
                             IF p = path THEN [upload |-> index, bytes |-> bytes] ELSE @[p]],
                !.code = IF whole THEN 202 ELSE IF stop.at = index THEN 500 ELSE 413,
                !.rows = IF whole
                         THEN @ \cup {[index |-> index, path |-> path,
                                       type |-> _detect_document_type(upload)]}
                         ELSE @]

\* Mutant of Committed: each document is committed with its file.
MutCommitEach(task, stop, last) ==
    IF task.code = 202 /\ stop.at = last THEN [task EXCEPT !.code = 500] ELSE task

\* The rows are committed once every upload is saved; else they are rolled back.
Committed(task, stop, last) ==
    IF task.code = 202 /\ stop.at # last THEN task
    ELSE [task EXCEPT !.rows = {}, !.code = IF @ = 202 THEN 500 ELSE @]

\* What the handler answers, and leaves behind.  It may be cut short while saving any
\* upload, at the commit, in submit(), or (`stop.at` = 0) not at all.
create_task(uploads, ops_valid, stop) ==
    LET rejected == \/ uploads = <<>> \/ ~ops_valid
                    \/ \E i \in DOMAIN uploads : _detect_document_type(uploads[i]) = "text"
        new   == [code |-> IF rejected THEN 400 ELSE 202, disk |-> [path \in {} |-> path],
                  rows |-> {}, submitted |-> FALSE]
        saved == FoldLeft(LAMBDA task, i : SaveNext(task, uploads[i], i, stop), new,
                          [i \in DOMAIN uploads |-> i])
        task  == Committed(saved, stop, Len(uploads) + 1)
    IN  IF task.code # 202 THEN task
        ELSE [task EXCEPT !.submitted = stop.at # Len(uploads) + 2,
                          !.code = IF stop.at = Len(uploads) + 2 THEN 500 ELSE 202]
=============================================================================
