------------------------------ MODULE AgentLoop ------------------------------
(***************************************************************************)
(* The path of a request: published by the coordinator, handled by the run  *)
(* loop of an agent (src/src/agents/base.py), and its reply read by the     *)
(* coordinator's tick (src/src/agents/coordinator.py).  Both readers share  *)
(* the process and the bus, and acknowledge differently: the agent after it *)
(* published its reply, the coordinator before it looks at the message.     *)
(*                                                                          *)
(*   pc   the agent:        "read", "handle", "reply" (handled, the reply   *)
(*                          not yet published), "ack", "down"               *)
(*   cpc  the coordinator:  "read", "take" (a batch is being yielded),      *)
(*                          "route" (the batch is read, the lock awaited),  *)
(*                          "down"                                          *)
(*                                                                          *)
(* A request is a number, its message id.  A reply is <<request, n>>, n the *)
(* how-manieth handling of the request it comes from: every handling makes  *)
(* a message with an id of its own.  No agent returns None from handle(),   *)
(* so a handled message always has a reply.                                 *)
(***************************************************************************)
EXTENDS StreamBus, Functions

CONSTANTS
    MaxRequests,    \* bound: requests the coordinator publishes
    MaxEntries,     \* bound: entries of each stream
    INBOX_BATCH,    \* entries the coordinator reads at once
    Faults,         \* the kinds of failure that may happen
    MaxFaults       \* bound: how many of them

ASSUME LoopAssumption ==
    /\ MaxRequests \in Nat /\ MaxEntries \in Nat /\ MaxFaults \in Nat
    /\ INBOX_BATCH \in Nat \ {0}
    /\ Faults \subseteq {"duplicate", "raise", "bus", "read", "crash"}

VARIABLES
    channel, inbox,     \* the agent's stream and the coordinator's
    requested,          \* requests published so far
    pc, entry, seen,    \* the agent: what it is handling, its IdempotentReceiver
    cpc, batch, replies, cseen,     \* the coordinator's tick, its IdempotentReceiver
    handled,            \* times each request was handled
    reads,              \* ids the agent read since it started, with accept()'s answer
    routed,             \* replies routed since the process started, in order
    faults

streams == <<channel, inbox>>
agent   == <<pc, entry, seen, reads, handled>>
ticking == <<cpc, batch, replies, cseen, routed>>
vars    == <<streams, requested, agent, ticking, faults>>

Request == 1..MaxRequests
NoEntry == 0

Message == channel.entries[entry]

Fault(kind) ==
    /\ kind \in Faults
    /\ faults < MaxFaults
    /\ faults' = faults + 1

-----------------------------------------------------------------------------
(* The coordinator publishes, and duplicates may appear in a stream.        *)

PublishRequest ==
    /\ cpc # "down"
    /\ requested < MaxRequests
    /\ Len(channel.entries) < MaxEntries
    /\ requested' = requested + 1
    /\ channel' = publish(channel, requested + 1)
    /\ UNCHANGED <<inbox, agent, ticking, faults>>

\* An XADD that reached Redis is sent again: the same message, a new entry.
Duplicate ==
    /\ Fault("duplicate")
    /\ \/ /\ Len(channel.entries) < MaxEntries
          /\ \E e \in DOMAIN channel.entries : channel' = publish(channel, channel.entries[e])
          /\ UNCHANGED inbox
       \/ /\ Len(inbox.entries) < MaxEntries
          /\ \E e \in DOMAIN inbox.entries : inbox' = publish(inbox, inbox.entries[e])
          /\ UNCHANGED channel
    /\ UNCHANGED <<requested, agent, ticking>>

-----------------------------------------------------------------------------
(* The agent: _read_once, one entry at a time.                              *)

\* The next entry is delivered and offered to the receiver; a duplicate goes
\* straight to its acknowledgement.
ReadOnce ==
    /\ pc = "read"
    /\ Batch(channel, 1) # {}
    /\ LET e == channel.last + 1
           m == channel.entries[e]
       IN  /\ channel' = read(channel, 1)
           /\ entry' = e
           /\ seen' = accept(seen, m)
           /\ reads' = Append(reads, [id |-> m, fresh |-> IsNew(seen, m)])
           /\ pc' = IF IsNew(seen, m) THEN "handle" ELSE "ack"
    /\ UNCHANGED <<inbox, requested, handled, ticking, faults>>

\* _safe_handle made an inform or a refuse.
Handle ==
    /\ pc = "handle"
    /\ handled' = [handled EXCEPT ![Message] = @ + 1]
    /\ pc' = "reply"
    /\ UNCHANGED <<streams, requested, entry, seen, reads, ticking, faults>>

\* Mutant of PublishReply: the entry is acknowledged first.
MutAckFirst ==
    /\ pc = "reply"
    /\ Len(inbox.entries) < MaxEntries
    /\ \/ channel' = ack(channel, entry) /\ UNCHANGED <<inbox, pc>>
       \/ /\ entry \notin channel.pending
          /\ inbox' = publish(inbox, <<Message, handled[Message]>>)
          /\ pc' = "ack"
          /\ UNCHANGED channel
    /\ UNCHANGED <<requested, entry, seen, reads, handled, ticking, faults>>

PublishReply ==
    /\ pc = "reply"
    /\ Len(inbox.entries) < MaxEntries
    /\ inbox' = publish(inbox, <<Message, handled[Message]>>)
    /\ pc' = "ack"
    /\ UNCHANGED <<channel, requested, entry, seen, reads, handled, ticking, faults>>

Ack ==
    /\ pc = "ack"
    /\ channel' = ack(channel, entry)
    /\ pc' = "read"
    /\ entry' = NoEntry
    /\ UNCHANGED <<inbox, requested, seen, reads, handled, ticking, faults>>

\* Mutant of LoopError: the exception ends the agent's task.
MutAgentDies ==
    /\ \/ pc = "handle" /\ Fault("raise")
       \/ pc \in {"reply", "ack"} /\ Fault("bus")
    /\ pc' = "dead"
    /\ entry' = NoEntry
    /\ UNCHANGED <<streams, requested, seen, reads, handled, ticking>>

\* The handler had a programming error, or the bus failed: run() logs and reads on.
LoopError ==
    /\ \/ pc = "handle" /\ Fault("raise")
       \/ pc \in {"reply", "ack"} /\ Fault("bus")
    /\ pc' = "read"
    /\ entry' = NoEntry
    /\ UNCHANGED <<streams, requested, seen, reads, handled, ticking>>

-----------------------------------------------------------------------------
(* The coordinator: the reading half of _tick.                              *)

ReadBatch ==
    /\ cpc = "read"
    /\ Batch(inbox, INBOX_BATCH) # {}
    /\ inbox' = read(inbox, INBOX_BATCH)
    /\ batch' = Batch(inbox, INBOX_BATCH)
    /\ cpc' = "take"
    /\ UNCHANGED <<channel, requested, agent, replies, cseen, routed, faults>>

\* Mutant of TakeReply: every entry of the batch is kept.
MutAllKept ==
    /\ cpc = "take"
    /\ batch # {}
    /\ LET e == CHOOSE e \in batch : \A other \in batch : e <= other
           reply == inbox.entries[e]
       IN  /\ inbox' = ack(inbox, e)
           /\ batch' = batch \ {e}
           /\ cseen' = accept(cseen, reply)
           /\ replies' = Append(replies, reply)
    /\ UNCHANGED <<channel, requested, agent, cpc, routed, faults>>

\* The next entry of the batch is acknowledged, then kept unless it is a duplicate.
TakeReply ==
    /\ cpc = "take"
    /\ batch # {}
    /\ LET e == CHOOSE e \in batch : \A other \in batch : e <= other
           reply == inbox.entries[e]
       IN  /\ inbox' = ack(inbox, e)
           /\ batch' = batch \ {e}
           /\ cseen' = accept(cseen, reply)
           /\ replies' = IF IsNew(cseen, reply) THEN Append(replies, reply) ELSE replies
    /\ UNCHANGED <<channel, requested, agent, cpc, routed, faults>>

\* The entry could not be parsed or acknowledged: the tick is over and what it took
\* is forgotten; run() logs and ticks again.
TakeError ==
    /\ cpc = "take"
    /\ batch # {}
    /\ Fault("read")
    /\ cpc' = "read"
    /\ batch' = {}
    /\ replies' = <<>>
    /\ UNCHANGED <<streams, requested, agent, cseen, routed>>

Taken ==
    /\ cpc = "take"
    /\ batch = {}
    /\ cpc' = "route"
    /\ UNCHANGED <<streams, requested, agent, batch, replies, cseen, routed, faults>>

Route ==
    /\ cpc = "route"
    /\ routed' = routed \o replies
    /\ replies' = <<>>
    /\ cpc' = "read"
    /\ UNCHANGED <<streams, requested, agent, batch, cseen, faults>>

-----------------------------------------------------------------------------
(* The process.                                                             *)

\* At any await; what both loops hold in memory is gone.
Crash ==
    /\ pc # "down"
    /\ Fault("crash")
    /\ pc' = "down" /\ cpc' = "down"
    /\ entry' = NoEntry /\ seen' = <<>> /\ reads' = <<>>
    /\ batch' = {} /\ replies' = <<>> /\ cseen' = <<>> /\ routed' = <<>>
    /\ UNCHANGED <<streams, requested, handled>>

\* Mutant of Restart: the pending entries are delivered again.
MutPendingAgain ==
    /\ pc = "down"
    /\ pc' = "read" /\ cpc' = "read"
    /\ channel' = IF channel.pending = {} THEN channel
                  ELSE [channel EXCEPT !.last = (CHOOSE e \in channel.pending : TRUE) - 1]
    /\ UNCHANGED <<inbox, requested, entry, seen, reads, handled, batch, replies, cseen,
                   routed, faults>>

\* ensure_group finds the group there and leaves it as it is.
Restart ==
    /\ pc = "down"
    /\ pc' = "read" /\ cpc' = "read"
    /\ UNCHANGED <<streams, requested, entry, seen, reads, handled, batch, replies, cseen,
                   routed, faults>>

-----------------------------------------------------------------------------

Init ==
    /\ channel = EmptyStream /\ inbox = EmptyStream
    /\ requested = 0
    /\ pc = "read" /\ entry = NoEntry /\ seen = <<>> /\ reads = <<>>
    /\ handled = [m \in Request |-> 0]
    /\ cpc = "read" /\ batch = {} /\ replies = <<>> /\ cseen = <<>> /\ routed = <<>>
    /\ faults = 0

Agent == ReadOnce \/ Handle \/ PublishReply \/ Ack
Tick  == ReadBatch \/ TakeReply \/ Taken \/ Route

Next ==
    \/ PublishRequest \/ Duplicate
    \/ Agent \/ LoopError
    \/ Tick \/ TakeError
    \/ Crash \/ Restart

Spec == Init /\ [][Next]_vars

\* The event loop runs both loops, and a handler returns in the end.
FairSpec == Spec /\ WF_vars(Agent) /\ WF_vars(Tick) /\ WF_vars(Restart)

-----------------------------------------------------------------------------
(* Properties.                                                              *)

StreamType(stream, messages) ==
    /\ stream.entries \in Seq(messages)
    /\ stream.last \in 0..Len(stream.entries)
    /\ stream.pending \subseteq 1..stream.last

\* The sets every variable ranges over; a receiver never outgrows its cache.
TypeOK ==
    /\ StreamType(channel, Request)
    /\ StreamType(inbox, Request \X Nat)
    /\ requested \in 0..MaxRequests
    /\ pc \in {"read", "handle", "reply", "ack", "down"}
    /\ cpc \in {"read", "take", "route", "down"}
    /\ entry \in 0..channel.last
    /\ seen \in Seq(Request) /\ Len(seen) <= CacheSize
    /\ cseen \in Seq(Request \X Nat) /\ Len(cseen) <= CacheSize
    /\ batch \subseteq inbox.pending
    /\ replies \in Seq(Request \X Nat) /\ routed \in Seq(Request \X Nat)
    /\ handled \in [Request -> Nat]
    /\ reads \in Seq([id : Request, fresh : BOOLEAN])

\* In one run of the agent a request is handled a second time only when CacheSize
\* other requests were read since it was read last: the receiver forgets the least
\* recently used id and no other.
RepeatMeansEvicted ==
    \A i, j \in DOMAIN reads :
        /\ i < j
        /\ reads[i].id = reads[j].id /\ reads[j].fresh
        /\ \A k \in (i + 1)..(j - 1) : reads[k].id # reads[i].id
        => Cardinality({reads[k].id : k \in (i + 1)..(j - 1)}) >= CacheSize

Answered(m) == \E e \in DOMAIN inbox.entries : inbox.entries[e][1] = m

\* No request is in the agent's stream twice.
Unduplicated == IsInjective(channel.entries)

\* Without duplicates, an entry is acknowledged only once the request it carries has been answered ("Call
\* only after the handler finished successfully", bus.py:83).
AckMeansAnswered ==
    Unduplicated => \A e \in Acknowledged(channel) : Answered(channel.entries[e])

\* Without duplicates, a request is handled at most once, crashes included: at the risk of losing it,
\* the bus never hands it over again.  The timers of the coordinator rely on it:
\* each request yields at most one reply.
HandledAtMostOnce == Unduplicated => \A m \in Request : handled[m] <= 1

\* A reply is routed twice by one process only if CacheSize others came in between: within the reach
\* of the receiver a repeated reply, in the same batch or a later one, counts once.
RoutedTwiceMeansEvicted ==
    \A i, j \in DOMAIN routed : i # j /\ routed[i] = routed[j] =>
        \E first, second \in DOMAIN inbox.entries :
            LET between == {inbox.entries[e] : e \in (first + 1)..(second - 1)}
            IN  /\ inbox.entries[first] = routed[i] /\ inbox.entries[second] = routed[i]
                /\ Cardinality(between \ {routed[i]}) >= CacheSize

\* Every delivered entry is acknowledged in the end ("XPENDING + XCLAIM handle a
\* stuck consumer", bus.py:7).
PendingIsHandled == \A e \in 1..MaxEntries : e \in channel.pending ~> e \notin channel.pending

\* A handler that raises, or a failing bus, costs the entry being handled and no
\* other: without duplicates, every entry published is answered, or was delivered and
\* given up.
OthersAreServed ==
    \A e \in 1..MaxEntries :
        LET Published == e \in DOMAIN channel.entries
            GivenUp   == e \in channel.pending /\ entry # e
        IN  Published ~>
                GivenUp \/ ~Unduplicated \/ (Published /\ Answered(channel.entries[e]))
=============================================================================
