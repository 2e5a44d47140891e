------------------------------ MODULE StreamBus ------------------------------
(***************************************************************************)
(* The transport: one Redis stream with its one consumer group, as          *)
(* RedisStreamBus (src/src/core/bus.py) uses it, and the LRU cache that     *)
(* each reader puts behind it (src/src/core/idempotency.py).                *)
(*                                                                          *)
(* A group is handed an entry once: the bus always reads ">", the entries   *)
(* never delivered, and has no XCLAIM.  What was delivered and not          *)
(* acknowledged stays in the pending list, also after a restart.            *)
(***************************************************************************)
EXTENDS Naturals, SequencesExt

CONSTANT CacheSize  \* message ids an IdempotentReceiver remembers

ASSUME CacheAssumption == CacheSize \in Nat \ {0}

EmptyStream == [entries |-> <<>>, last |-> 0, pending |-> {}]

publish(stream, message) == [stream EXCEPT !.entries = Append(@, message)]

\* The entries one XREADGROUP delivers.
Batch(stream, count) == {e \in DOMAIN stream.entries : stream.last < e /\ e <= stream.last + count}

read(stream, count) ==
    [entries |-> stream.entries,
     last    |-> stream.last + Cardinality(Batch(stream, count)),
     pending |-> stream.pending \cup Batch(stream, count)]

ack(stream, e) == [stream EXCEPT !.pending = @ \ {e}]

Acknowledged(stream) == (1..stream.last) \ stream.pending

-----------------------------------------------------------------------------

IsNew(seen, id) == \A i \in DOMAIN seen : seen[i] # id

\* `id` becomes the most recent one.
move_to_end(seen, id) ==
    LET i == CHOOSE i \in DOMAIN seen : seen[i] = id
    IN  Append(RemoveAt(seen, i), id)

\* Mutant of accept: a duplicate is not made the most recent one.
MutNoRefresh(seen, id) ==
    IF ~IsNew(seen, id) THEN seen
    ELSE Append(IF Len(seen) >= CacheSize THEN Tail(seen) ELSE seen, id)

\* Mutant of accept: the cache grows past its size.
MutNoEviction(seen, id) ==
    IF ~IsNew(seen, id) THEN move_to_end(seen, id) ELSE Append(seen, id)

\* The cache after `id` was offered to it, least recently used first: a new id may
\* evict the oldest, a duplicate becomes the most recent one.
accept(seen, id) ==
    IF ~IsNew(seen, id) THEN move_to_end(seen, id)
    ELSE Append(IF Len(seen) >= CacheSize THEN Tail(seen) ELSE seen, id)
=============================================================================
