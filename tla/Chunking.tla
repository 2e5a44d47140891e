------------------------------ MODULE Chunking ------------------------------
(***************************************************************************)
(* How F1 and F2 cut a document into chunks: segments_to_chunks             *)
(* (src/src/adapters/whisper_transcriber.py) and pages_to_chunks            *)
(* (src/src/adapters/pymupdf_ocr.py).  A segment, and a page, is its        *)
(* length once stripped; a chunk, the numbers of those it joins.            *)
(***************************************************************************)
EXTENDS Ordering

CONSTANTS
    target_chars,   \* a chunk of speech is not to be longer
    min_chars       \* a page whose text layer is shorter is recognised from its image

ASSUME ChunkingAssumption == target_chars \in Nat /\ min_chars \in Nat

NothingRead == [chunks |-> <<>>, buffer |-> <<>>, buffer_len |-> 0]

flush(s) ==
    IF s.buffer = <<>> THEN s ELSE [NothingRead EXCEPT !.chunks = Append(s.chunks, s.buffer)]

\* Mutant of AddSegment: the blanks between segments are not counted.
MutNoBlanks(s, i, length) == [s EXCEPT !.buffer = Append(@, i), !.buffer_len = @ + length]

AddSegment(s, i, length) == [s EXCEPT !.buffer = Append(@, i), !.buffer_len = @ + length + 1]

\* Greedy: a segment that does not fit behind those in the buffer starts a chunk.
segments_to_chunks(lengths) ==
    LET Full(s, i) == s.buffer # <<>> /\ s.buffer_len + lengths[i] > target_chars
        Take(s, i) == IF lengths[i] = 0 THEN s
                      ELSE AddSegment(IF Full(s, i) THEN flush(s) ELSE s, i, lengths[i])
    IN  flush(FoldLeft(Take, NothingRead, [i \in DOMAIN lengths |-> i])).chunks

\* What is read of a page: its text layer, or what is recognised in its image.
page_text(page) == IF page.layer < min_chars THEN page.image ELSE page.layer

\* A chunk for each page that is not blank.
pages_to_chunks(pages) ==
    LET read == InOrder({p \in DOMAIN pages : page_text(pages[p]) > 0}, <)
    IN  [c \in DOMAIN read |-> <<read[c]>>]
=============================================================================
