--------------------------- MODULE AgentLoopProofs ---------------------------
(***************************************************************************)
(* What an agent and the two receivers of the bus hold to, for any number   *)
(* of requests, crashes and failures: at most one handling of a request,    *)
(* and none acknowledged without its answer, as long as no request is in    *)
(* the stream twice; and, duplicates or not, nothing passes a receiver      *)
(* twice unless its cache, whatever its size, has evicted it in between.    *)
(***************************************************************************)
EXTENDS AgentLoop, Induction

Stream(messages) == [entries : Seq(messages), last : Nat, pending : SUBSET Nat]

\* As much of the types as the proofs need, whatever the bounds.
Types ==
    /\ channel \in Stream(Request)
    /\ inbox \in Stream(Request \X Nat)
    /\ requested \in Nat
    /\ seen \in Seq(Request)
    /\ handled \in [Request -> Nat]
    /\ pc \in {"read", "handle", "reply", "ack", "down"}

\* Without duplicates the e-th entry of the stream is the e-th request.
InOrder ==
    /\ Len(channel.entries) = requested
    /\ \A e \in 1..requested : channel.entries[e] = e
    /\ channel.last <= requested

\* The receiver knows delivered requests only: it never drops the next one.
SeenDelivered == \A i \in DOMAIN seen : seen[i] <= channel.last

\* A request whose entry was not delivered was never handled.
Undelivered == \A m \in Request : channel.last < m => handled[m] = 0

\* What the agent has done so far for the entry it holds.
InHand ==
    /\ pc \in {"handle", "reply", "ack"} => entry \in 1..channel.last
    /\ pc = "handle" => handled[entry] = 0
    /\ pc = "reply" => handled[entry] = 1
    /\ pc = "ack" => Answered(entry)

\* Every delivered entry that is not pending has its answer.
SettledEntries == \A e \in 1..channel.last : e \notin channel.pending => Answered(e)

Once == \A m \in Request : handled[m] <= 1

\* Inductive without duplicates: handling in order is what makes a request new.
IInv == Types /\ InOrder /\ SeenDelivered /\ Undelivered /\ InHand /\ SettledEntries /\ Once

\* What holds of the agent's stream with duplicates as well.
ChannelType == channel \in Stream(Request) /\ requested \in Nat

\* Of the executions with a duplicate nothing else is claimed.
Inv == ChannelType /\ (Unduplicated => IInv)

\* A read leaves the entries as they are and keeps the stream well formed.
LEMMA BatchCount ==
    ASSUME NEW M, NEW s \in Stream(M), NEW n \in Nat
    PROVE  read(s, n) \in Stream(M) /\ read(s, n).entries = s.entries
<1>1. Batch(s, n) \subseteq 1..Len(s.entries)
  BY DEF Batch, Stream
<1>2. IsFiniteSet(1..Len(s.entries))
  BY FS_Interval DEF Stream
<1>3. Cardinality(Batch(s, n)) \in Nat
  BY <1>1, <1>2, FS_Subset, FS_CardinalityType
<1>4. Batch(s, n) \subseteq Nat
  BY <1>1 DEF Stream
<1> DEFINE t == read(s, n)
<1>5. s.last + Cardinality(Batch(s, n)) \in Nat /\ s.pending \cup Batch(s, n) \subseteq Nat
  BY <1>3, <1>4 DEF Stream
<1>6. t = [entries |-> s.entries, last |-> s.last + Cardinality(Batch(s, n)),
           pending |-> s.pending \cup Batch(s, n)]
  BY DEF read, Stream
<1>7. QED BY <1>5, <1>6 DEF Stream

\* What a read of one entry changes of a stream.
LEMMA OneDelivered ==
    ASSUME NEW M, NEW s \in Stream(M), s.last < Len(s.entries)
    PROVE  /\ read(s, 1).last = s.last + 1
           /\ read(s, 1).pending = s.pending \cup {s.last + 1}
<1>1. Batch(s, 1) = {s.last + 1}
  BY DEF Batch, Stream
<1>2. Cardinality(Batch(s, 1)) = 1
  BY <1>1, FS_Singleton
<1>3. QED BY <1>1, <1>2 DEF read, Stream

\* An acknowledgement changes the pending list alone.
LEMMA AckKeeps ==
    ASSUME NEW M, NEW s \in Stream(M), NEW e
    PROVE  /\ ack(s, e) \in Stream(M)
           /\ ack(s, e).entries = s.entries /\ ack(s, e).last = s.last
           /\ ack(s, e).pending = s.pending \ {e}
BY DEF ack, Stream

\* A publish adds one entry and changes nothing else.
LEMMA PublishAppends ==
    ASSUME NEW M, NEW s \in Stream(M), NEW m \in M
    PROVE  /\ publish(s, m) \in Stream(M)
           /\ publish(s, m).last = s.last /\ publish(s, m).pending = s.pending
           /\ Len(publish(s, m).entries) = Len(s.entries) + 1
           /\ publish(s, m).entries[Len(s.entries) + 1] = m
           /\ \A e \in 1..Len(s.entries) : publish(s, m).entries[e] = s.entries[e]
<1>1. publish(s, m).entries = Append(s.entries, m) /\ s.entries \in Seq(M)
  BY DEF publish, Stream
<1>2. /\ Append(s.entries, m) \in Seq(M)
      /\ Len(Append(s.entries, m)) = Len(s.entries) + 1
      /\ Append(s.entries, m)[Len(s.entries) + 1] = m
      /\ \A e \in 1..Len(s.entries) : Append(s.entries, m)[e] = s.entries[e]
  BY <1>1
<1>3. publish(s, m) \in Stream(M) /\ publish(s, m).last = s.last /\ publish(s, m).pending = s.pending
  BY <1>1, <1>2 DEF publish, Stream
<1>4. QED BY <1>1, <1>2, <1>3

\* A new id makes the receiver remember it beside ids it remembered before.
LEMMA AcceptNew ==
    ASSUME NEW M, NEW s \in Seq(M), NEW m \in M, IsNew(s, m)
    PROVE  /\ accept(s, m) \in Seq(M)
           /\ \A i \in DOMAIN accept(s, m) :
                 accept(s, m)[i] = m \/ \E j \in DOMAIN s : accept(s, m)[i] = s[j]
<1>1. CASE Len(s) >= CacheSize
  <2>1. s # <<>> /\ Tail(s) \in Seq(M)
    BY <1>1, CacheAssumption
  <2>2. \A i \in DOMAIN Tail(s) : i + 1 \in DOMAIN s /\ Tail(s)[i] = s[i + 1]
    BY <2>1
  <2>3. accept(s, m) = Append(Tail(s), m)
    BY <1>1 DEF accept
  <2>4. QED BY <2>1, <2>2, <2>3
<1>2. CASE ~(Len(s) >= CacheSize)
  BY <1>2 DEF accept
<1>3. QED BY <1>1, <1>2

\* Replies are only added.
LEMMA AnswersStay ==
    ASSUME Types,
           \/ inbox'.entries = inbox.entries
           \/ \E reply \in Request \X Nat : inbox' = publish(inbox, reply),
           NEW m, Answered(m)
    PROVE  Answered(m)'
<1>1. CASE inbox'.entries = inbox.entries
  BY <1>1 DEF Answered
<1>2. CASE \E reply \in Request \X Nat : inbox' = publish(inbox, reply)
  <2>1. PICK reply \in Request \X Nat : inbox' = publish(inbox, reply)
    BY <1>2
  <2>2. PICK e \in DOMAIN inbox.entries : inbox.entries[e][1] = m
    BY DEF Answered
  <2>3. inbox \in Stream(Request \X Nat)
    BY DEF Types
  <2>4. /\ publish(inbox, reply) \in Stream(Request \X Nat)
        /\ Len(publish(inbox, reply).entries) = Len(inbox.entries) + 1
        /\ \A i \in 1..Len(inbox.entries) : publish(inbox, reply).entries[i] = inbox.entries[i]
    BY <2>3, PublishAppends
  <2>5. inbox.entries \in Seq(Request \X Nat) /\ publish(inbox, reply).entries \in Seq(Request \X Nat)
    BY <2>3, <2>4 DEF Stream
  <2>6. e \in DOMAIN inbox'.entries /\ inbox'.entries[e] = inbox.entries[e]
    <3>1. e \in 1..Len(inbox.entries)
      BY <2>2, <2>5
    <3>2. inbox'.entries = publish(inbox, reply).entries
      BY <2>1
    <3> DEFINE after == publish(inbox, reply).entries
    <3>3. Len(after) = Len(inbox.entries) + 1 /\ after[e] = inbox.entries[e]
      BY <3>1, <2>4
    <3>4. e \in DOMAIN after
      <4>1. after \in Seq(Request \X Nat) /\ Len(inbox.entries) \in Nat BY <2>5
      <4>2. DOMAIN after = 1..Len(after) BY <4>1
      <4>3. QED BY <3>1, <3>3, <4>1, <4>2
    <3>5. QED BY <3>2, <3>3, <3>4
  <2>7. QED BY <2>2, <2>6 DEF Answered
<1>3. QED BY <1>1, <1>2

-----------------------------------------------------------------------------

\* A step of the coordinator's tick leaves the agent and the entries of the inbox.
TickOnly ==
    /\ UNCHANGED <<channel, requested, agent>>
    /\ inbox' \in Stream(Request \X Nat)
    /\ inbox'.entries = inbox.entries

\* The coordinator's steps leave the agent, its stream and the replies alone.
LEMMA TickSteps ==
    ASSUME Types, Tick \/ TakeError
    PROVE  TickOnly
<1> USE DEF TickOnly, Types
<1>1. CASE ReadBatch
  <2>1. INBOX_BATCH \in Nat
    BY LoopAssumption
  <2>2. /\ read(inbox, INBOX_BATCH) \in Stream(Request \X Nat)
        /\ read(inbox, INBOX_BATCH).entries = inbox.entries
    BY <2>1, BatchCount
  <2>3. QED BY <1>1, <2>2 DEF ReadBatch
<1>2. CASE TakeReply
  <2>1. PICK e : inbox' = ack(inbox, e)
    BY <1>2 DEF TakeReply
  <2>2. QED BY <1>2, <2>1, AckKeeps DEF TakeReply
<1>3. CASE Taken
  BY <1>3 DEF Taken, streams
<1>4. CASE Route
  BY <1>4 DEF Route, streams
<1>5. CASE TakeError
  BY <1>5 DEF TakeError, streams
<1>6. QED BY <1>1, <1>2, <1>3, <1>4, <1>5 DEF Tick

\* The agent's stream only grows, so a duplicate is there to stay.
LEMMA DuplicatesStay ==
    ASSUME ChannelType, [Next]_vars
    PROVE  ChannelType' /\ (Unduplicated' => Unduplicated)
<1> USE DEF ChannelType
<1>1. ASSUME NEW m \in Request, channel' = publish(channel, m), requested' \in Nat
      PROVE  ChannelType' /\ (Unduplicated' => Unduplicated)
  <2> DEFINE before == channel.entries
             after  == publish(channel, m).entries
  <2>1. /\ publish(channel, m) \in Stream(Request)
        /\ Len(after) = Len(before) + 1
        /\ \A e \in 1..Len(before) : after[e] = before[e]
    BY <1>1, PublishAppends
  <2>2. before \in Seq(Request) /\ after \in Seq(Request)
    BY <2>1 DEF Stream
  <2>3. DOMAIN before = 1..Len(before) /\ DOMAIN after = 1..Len(after) /\ Len(before) \in Nat
    BY <2>2
  <2>4. IsInjective(after) => IsInjective(before)
    BY <2>1, <2>3 DEF IsInjective
  <2>5. QED BY <1>1, <2>1, <2>4 DEF Unduplicated
<1>2. ASSUME channel' \in Stream(Request), channel'.entries = channel.entries, requested' = requested
      PROVE  ChannelType' /\ (Unduplicated' => Unduplicated)
  BY <1>2 DEF Unduplicated
<1>3. CASE PublishRequest
  <2>1. /\ requested + 1 \in Request /\ requested' \in Nat
        /\ channel' = publish(channel, requested + 1)
    BY <1>3, LoopAssumption DEF PublishRequest, Request
  <2>2. QED BY <1>1, <2>1
<1>4. CASE Duplicate
  <2>1. CASE \E e \in DOMAIN channel.entries : channel' = publish(channel, channel.entries[e])
    <3>1. PICK e \in DOMAIN channel.entries : channel' = publish(channel, channel.entries[e])
      BY <2>1
    <3>2. channel.entries[e] \in Request
      BY <3>1 DEF Stream
    <3>3. QED BY <1>1, <1>4, <3>1, <3>2 DEF Duplicate
  <2>2. CASE UNCHANGED channel
    BY <1>2, <1>4, <2>2 DEF Duplicate
  <2>3. QED BY <1>4, <2>1, <2>2 DEF Duplicate
<1>5. CASE ReadOnce
  <2>1. read(channel, 1) \in Stream(Request) /\ read(channel, 1).entries = channel.entries
    BY BatchCount
  <2>2. QED BY <1>2, <1>5, <2>1 DEF ReadOnce
<1>6. CASE Ack
  <2>1. ack(channel, entry) \in Stream(Request) /\ ack(channel, entry).entries = channel.entries
    BY AckKeeps
  <2>2. QED BY <1>2, <1>6, <2>1 DEF Ack
<1>7. CASE UNCHANGED <<channel, requested>>
  BY <1>2, <1>7
<1>8. QED
  BY <1>3, <1>4, <1>5, <1>6, <1>7
     DEF Next, Agent, Tick, vars, streams, Handle, PublishReply, LoopError, ReadBatch, TakeReply,
         Taken, Route, TakeError, Crash, Restart

\* Every step that duplicates no request keeps the invariant.
LEMMA AtMostOnceStep ==
    ASSUME IInv, [Next]_vars, Unduplicated'
    PROVE  IInv'
<1> USE DEF IInv, Once
<1>1. CASE PublishRequest
  <2>1. requested + 1 \in Request
    BY <1>1, LoopAssumption DEF PublishRequest, Request, Types
  <2>2. /\ channel' \in Stream(Request)
        /\ channel'.last = channel.last /\ channel'.pending = channel.pending
        /\ Len(channel'.entries) = Len(channel.entries) + 1
        /\ channel'.entries[Len(channel.entries) + 1] = requested + 1
        /\ \A e \in 1..Len(channel.entries) : channel'.entries[e] = channel.entries[e]
    <3>1. channel' = publish(channel, requested + 1) BY <1>1 DEF PublishRequest
    <3>2. channel \in Stream(Request) BY DEF Types
    <3>3. QED BY <2>1, <3>1, <3>2, PublishAppends
  <2>3. /\ requested' = requested + 1 /\ requested \in Nat
        /\ UNCHANGED <<inbox, pc, entry, seen, handled>>
    BY <1>1 DEF PublishRequest, agent, Types
  <2>4. Types' /\ InOrder'
    <3>1. Types'
      BY <2>2, <2>3 DEF Types
    <3>2. /\ Len(channel.entries) = requested /\ channel.last <= requested /\ channel.last \in Nat
          /\ \A e \in 1..requested : channel.entries[e] = e
      BY DEF InOrder, Types, Stream
    <3>3. ASSUME NEW e \in 1..(requested + 1) PROVE channel'.entries[e] = e
      <4>1. CASE e \in 1..requested BY <2>2, <3>2, <4>1
      <4>2. CASE e = requested + 1 BY <2>2, <3>2, <4>2
      <4>3. QED BY <2>3, <4>1, <4>2
    <3>4. Len(channel'.entries) = requested' /\ channel'.last <= requested'
      BY <2>2, <2>3, <3>2
    <3>5. QED BY <2>3, <3>1, <3>3, <3>4 DEF InOrder
  <2>5. (SeenDelivered /\ Undelivered)'
    BY <2>2, <2>3 DEF SeenDelivered, Undelivered
  <2>6. (InHand /\ SettledEntries)'
    BY <2>2, <2>3 DEF InHand, SettledEntries, Answered
  <2>7. QED BY <2>3, <2>4, <2>5, <2>6
<1>2. CASE Duplicate
  <2>1. channel \in Stream(Request) /\ inbox \in Stream(Request \X Nat)
    BY DEF Types
  <2>2. ASSUME NEW e \in DOMAIN channel.entries, channel' = publish(channel, channel.entries[e])
        PROVE  FALSE
    <3> DEFINE before == channel.entries
               m      == before[e]
               after  == publish(channel, m).entries
    <3>1. before \in Seq(Request)
      BY <2>1 DEF Stream
    <3>2. e \in 1..Len(before) /\ Len(before) \in Nat /\ m \in Request
      BY <2>2, <3>1
    <3>3. /\ publish(channel, m) \in Stream(Request) /\ Len(after) = Len(before) + 1
          /\ after[Len(before) + 1] = m /\ after[e] = m
      BY <2>1, <3>2, PublishAppends
    <3>4. after \in Seq(Request)
      BY <3>3 DEF Stream
    <3>5. DOMAIN after = 1..(Len(before) + 1)
      BY <3>3, <3>4
    <3>6. ~IsInjective(after)
      BY <3>2, <3>3, <3>5 DEF IsInjective
    <3>7. QED BY <2>2, <3>6 DEF Unduplicated
  <2>3. PICK e \in DOMAIN inbox.entries : inbox' = publish(inbox, inbox.entries[e])
    BY <1>2, <2>2 DEF Duplicate
  <2>4. inbox.entries[e] \in Request \X Nat
    BY <2>1, <2>3 DEF Stream
  <2>5. inbox' \in Stream(Request \X Nat)
    BY <2>1, <2>3, <2>4, PublishAppends
  <2>6. \A m : Answered(m) => Answered(m)'
    BY <2>3, <2>4, AnswersStay
  <2>7. UNCHANGED <<channel, requested, pc, entry, seen, handled>>
    BY <1>2, <2>2 DEF Duplicate, agent
  <2>8. Types' /\ InOrder' /\ SeenDelivered' /\ Undelivered'
    BY <2>5, <2>7 DEF Types, InOrder, SeenDelivered, Undelivered
  <2>9. InHand' /\ SettledEntries'
    BY <2>6, <2>7 DEF InHand, SettledEntries
  <2>10. QED BY <2>7, <2>8, <2>9
<1>3. CASE ReadOnce
  <2> DEFINE e == channel.last + 1
  <2>1. channel.last < Len(channel.entries) /\ channel.last \in Nat
    BY <1>3 DEF ReadOnce, Batch, Types, Stream
  <2>2. e \in 1..requested /\ channel.entries[e] = e /\ e \in Request
    <3>1. e \in 1..requested /\ channel.entries[e] = e
      BY <2>1 DEF InOrder, Types
    <3>2. channel.entries[e] \in Request
      BY <2>1 DEF Types, Stream
    <3>3. QED BY <3>1, <3>2
  <2>3. IsNew(seen, e)
    BY <2>1 DEF IsNew, SeenDelivered, Types, Request
  <2>4. /\ channel' = read(channel, 1) /\ entry' = e /\ seen' = accept(seen, e)
        /\ pc' = "handle"
        /\ UNCHANGED <<inbox, requested, handled>>
    BY <1>3, <2>2, <2>3 DEF ReadOnce
  <2>5. /\ channel' \in Stream(Request) /\ channel'.entries = channel.entries
        /\ channel'.last = e /\ channel'.pending = channel.pending \cup {e}
    <3>1. channel \in Stream(Request) /\ 1 \in Nat BY DEF Types
    <3>2. channel' = read(channel, 1) BY <2>4
    <3>3. QED BY <2>1, <3>1, <3>2, BatchCount, OneDelivered
  <2>6. seen' \in Seq(Request)
        /\ \A i \in DOMAIN seen' : seen'[i] = e \/ \E j \in DOMAIN seen : seen'[i] = seen[j]
    <3>1. seen \in Seq(Request) BY DEF Types
    <3>2. /\ accept(seen, e) \in Seq(Request)
          /\ \A i \in DOMAIN accept(seen, e) :
                accept(seen, e)[i] = e \/ \E j \in DOMAIN seen : accept(seen, e)[i] = seen[j]
      BY <2>2, <2>3, <3>1, AcceptNew
    <3>3. QED BY <2>4, <3>2
  <2>7. Types' /\ InOrder'
    BY <2>2, <2>4, <2>5, <2>6 DEF Types, InOrder
  <2>8. SeenDelivered'
    <3>1. SUFFICES ASSUME NEW i \in DOMAIN seen' PROVE seen'[i] <= channel'.last
      BY DEF SeenDelivered
    <3>2. CASE seen'[i] = e
      BY <2>1, <2>5, <3>2
    <3>3. CASE \E j \in DOMAIN seen : seen'[i] = seen[j]
      <4>1. PICK j \in DOMAIN seen : seen'[i] = seen[j] BY <3>3
      <4>2. seen[j] <= channel.last /\ seen[j] \in Nat
        <5>1. seen[j] <= channel.last BY DEF SeenDelivered
        <5>2. seen \in Seq(Request) BY DEF Types
        <5>3. seen[j] \in Request BY <5>2
        <5>4. QED BY <5>1, <5>3 DEF Request
      <4>3. QED BY <2>1, <2>5, <4>1, <4>2
    <3>4. QED BY <2>6, <3>2, <3>3
  <2>9. Undelivered' /\ handled[e] = 0
    BY <2>1, <2>2, <2>4, <2>5 DEF Undelivered, Request
  <2>10. InHand'
    BY <2>1, <2>4, <2>5, <2>9 DEF InHand
  <2>11. SettledEntries'
    BY <2>1, <2>4, <2>5 DEF SettledEntries, Answered
  <2>12. QED BY <2>4, <2>7, <2>8, <2>9, <2>10, <2>11 DEF SeenDelivered
<1>4. CASE Handle
  <2>1. entry \in 1..channel.last /\ handled[entry] = 0 /\ Message = entry /\ entry \in Request
    <3>1. entry \in 1..channel.last /\ handled[entry] = 0 /\ entry \in 1..requested
      BY <1>4 DEF Handle, InHand, InOrder, Types, Stream
    <3>2. Message = entry /\ Message \in Request
      BY <3>1 DEF Message, InOrder, Types, Stream
    <3>3. QED BY <3>1, <3>2
  <2>2. /\ handled' = [handled EXCEPT ![entry] = handled[entry] + 1] /\ pc' = "reply"
        /\ UNCHANGED <<channel, inbox, requested, entry, seen>>
    BY <1>4, <2>1 DEF Handle, streams
  <2>3. handled' \in [Request -> Nat] /\ handled'[entry] = 1
        /\ \A m \in Request : m # entry => handled'[m] = handled[m]
    BY <2>1, <2>2 DEF Types
  <2>4. Types' /\ InOrder' /\ SeenDelivered'
    BY <2>2, <2>3 DEF Types, InOrder, SeenDelivered
  <2>5. Undelivered'
    BY <2>1, <2>2, <2>3 DEF Undelivered, Types, Stream, Request
  <2>6. InHand' /\ SettledEntries'
    BY <2>1, <2>2, <2>3 DEF InHand, SettledEntries, Answered
  <2>7. Once'
    BY <2>3
  <2>8. QED BY <2>4, <2>5, <2>6, <2>7
<1>5. CASE PublishReply
  <2>1. entry \in 1..channel.last /\ entry \in Request /\ Message = entry
    <3>1. entry \in 1..channel.last /\ entry \in 1..requested
      BY <1>5 DEF PublishReply, InHand, InOrder, Types, Stream
    <3>2. Message = entry /\ Message \in Request
      BY <3>1 DEF Message, InOrder, Types, Stream
    <3>3. QED BY <3>1, <3>2
  <2> DEFINE reply == <<entry, handled[entry]>>
  <2>2. reply \in Request \X Nat
    BY <2>1 DEF Types
  <2>3. /\ inbox' = publish(inbox, reply) /\ pc' = "ack"
        /\ UNCHANGED <<channel, requested, entry, seen, handled>>
    BY <1>5, <2>1 DEF PublishReply
  <2>4. /\ inbox' \in Stream(Request \X Nat)
        /\ Len(inbox.entries) + 1 \in DOMAIN inbox'.entries
        /\ inbox'.entries[Len(inbox.entries) + 1] = reply
    <3>1. inbox \in Stream(Request \X Nat) BY DEF Types
    <3>2. /\ publish(inbox, reply) \in Stream(Request \X Nat)
          /\ Len(publish(inbox, reply).entries) = Len(inbox.entries) + 1
          /\ publish(inbox, reply).entries[Len(inbox.entries) + 1] = reply
      BY <2>2, <3>1, PublishAppends
    <3>3. publish(inbox, reply).entries \in Seq(Request \X Nat) /\ Len(inbox.entries) \in Nat
      BY <3>1, <3>2 DEF Stream
    <3> DEFINE after == publish(inbox, reply).entries
    <3>4. Len(inbox.entries) + 1 \in DOMAIN after
      BY <3>2, <3>3
    <3>5. QED BY <2>3, <3>2, <3>4
  <2>5. Answered(entry)'
    BY <2>3, <2>4 DEF Answered
  <2>6. \A m : Answered(m) => Answered(m)'
    BY <2>2, <2>3, AnswersStay
  <2>7. Types' /\ InOrder' /\ SeenDelivered' /\ Undelivered'
    BY <2>3, <2>4 DEF Types, InOrder, SeenDelivered, Undelivered
  <2>8. InHand' /\ SettledEntries'
    BY <2>1, <2>3, <2>5, <2>6 DEF InHand, SettledEntries
  <2>9. QED BY <2>3, <2>7, <2>8
<1>6. CASE Ack
  <2>1. /\ channel' \in Stream(Request) /\ channel'.entries = channel.entries
        /\ channel'.last = channel.last /\ channel'.pending = channel.pending \ {entry}
    <3>1. channel' = ack(channel, entry) /\ channel \in Stream(Request)
      BY <1>6 DEF Ack, Types
    <3>2. QED BY <3>1, AckKeeps
  <2>2. /\ pc' = "read" /\ UNCHANGED <<inbox, requested, seen, handled>> /\ Answered(entry)
    BY <1>6 DEF Ack, InHand
  <2>3. Types' /\ InOrder' /\ SeenDelivered' /\ Undelivered' /\ InHand'
    BY <2>1, <2>2 DEF Types, InOrder, SeenDelivered, Undelivered, InHand
  <2>4. SettledEntries'
    BY <2>1, <2>2 DEF SettledEntries, Answered
  <2>5. QED BY <2>2, <2>3, <2>4
<1>7. CASE LoopError
  BY <1>7 DEF LoopError, streams, Types, InOrder, SeenDelivered, Undelivered, InHand,
              SettledEntries, Answered
<1>8. CASE Tick \/ TakeError
  <2>1. TickOnly
    BY <1>8, TickSteps
  <2>2. \A m : Answered(m) => Answered(m)'
    BY <2>1, AnswersStay DEF TickOnly
  <2>3. Types' /\ InOrder' /\ SeenDelivered' /\ Undelivered'
    BY <2>1 DEF TickOnly, agent, Types, InOrder, SeenDelivered, Undelivered
  <2>4. InHand' /\ SettledEntries'
    BY <2>1, <2>2 DEF TickOnly, agent, InHand, SettledEntries
  <2>5. QED BY <2>1, <2>3, <2>4 DEF TickOnly, agent
<1>9. CASE Crash
  <2>1. /\ pc' = "down" /\ seen' = <<>> /\ UNCHANGED <<channel, inbox, requested, handled>>
    BY <1>9 DEF Crash, streams
  <2>2. Types' /\ InOrder' /\ Undelivered' /\ InHand'
    BY <2>1 DEF Types, InOrder, Undelivered, InHand
  <2>3. SeenDelivered' /\ SettledEntries'
    BY <2>1 DEF SeenDelivered, SettledEntries, Answered
  <2>4. QED BY <2>1, <2>2, <2>3
<1>10. CASE Restart
  BY <1>10 DEF Restart, streams, Types, InOrder, SeenDelivered, Undelivered, InHand,
               SettledEntries, Answered
<1>11. CASE UNCHANGED vars
  BY <1>11 DEF vars, streams, agent, Types, InOrder, SeenDelivered, Undelivered, InHand,
               SettledEntries, Answered
<1>12. QED BY <1>1, <1>2, <1>3, <1>4, <1>5, <1>6, <1>7, <1>8, <1>9, <1>10, <1>11
           DEF Next, Agent

\* The invariant holds at the start.
LEMMA AtMostOnceInit ==
    ASSUME Init
    PROVE  Inv
BY LoopAssumption DEF Init, Inv, ChannelType, IInv, Types, Stream, EmptyStream, InOrder,
                      SeenDelivered, Undelivered, InHand, SettledEntries, Once

\* The invariant of all executions.
THEOREM Invariance == Spec => []Inv
<1>1. Init => Inv
  BY AtMostOnceInit
<1>2. Inv /\ [Next]_vars => Inv'
  BY DuplicatesStay, AtMostOnceStep DEF Inv
<1>3. QED BY <1>1, <1>2, PTL DEF Spec

\* As long as no request is in its stream twice, an agent handles it at most once,
\* however often its process dies: each request the coordinator counts on yields at
\* most one reply.
THEOREM AtMostOnce == Spec => []HandledAtMostOnce
<1>1. Inv => HandledAtMostOnce
  BY DEF Inv, IInv, Once, HandledAtMostOnce
<1>2. QED BY <1>1, Invariance, PTL

\* As long as no request is in its stream twice, an agent acknowledges it only once its
\* reply is on its way, whatever fails in between.
THEOREM NoAckBeforeAnswer == Spec => []AckMeansAnswered
<1>1. Inv => AckMeansAnswered
  <2>1. SUFFICES ASSUME Types, InOrder, SettledEntries, NEW e \in Acknowledged(channel)
                 PROVE  Answered(channel.entries[e])
    BY DEF AckMeansAnswered, Inv, IInv
  <2>2. channel.last \in Nat /\ channel.last <= requested /\ requested \in Nat
    BY <2>1 DEF Types, Stream, InOrder
  <2>3. e \in 1..channel.last /\ e \notin channel.pending
    BY <2>1 DEF Acknowledged
  <2>4. channel.entries[e] = e
    BY <2>1, <2>2, <2>3 DEF InOrder
  <2>5. Answered(e)
    BY <2>1, <2>3 DEF SettledEntries
  <2>6. QED BY <2>4, <2>5
<1>2. QED BY <1>1, Invariance, PTL

-----------------------------------------------------------------------------
(* The cache.                                                               *)

Cache(M) == {c \in Seq(M) : IsInjective(c) /\ Len(c) <= CacheSize}

\* The cache `c` remembers `x`, and of the ids that came after it only those of `S`;
\* or it has forgotten `x`, and `S` has enough ids to have driven it out.
Tracked(c, x, S) ==
    \/ \E k \in DOMAIN c : c[k] = x /\ \A j \in DOMAIN c : k < j => c[j] \in S
    \/ IsNew(c, x) /\ Cardinality(S \ {x}) >= CacheSize

\* A cache with room takes a new id at its end.
LEMMA AcceptWithRoom ==
    ASSUME NEW M, NEW c \in Cache(M), NEW m \in M, IsNew(c, m), Len(c) < CacheSize
    PROVE  /\ accept(c, m) \in Cache(M) /\ Len(accept(c, m)) = Len(c) + 1
           /\ accept(c, m)[Len(c) + 1] = m
           /\ \A k \in 1..Len(c) : accept(c, m)[k] = c[k]
<1> DEFINE d == Append(c, m)
<1>1. c \in Seq(M) /\ Len(c) \in Nat /\ DOMAIN c = 1..Len(c) /\ IsInjective(c)
  BY DEF Cache
<1>2. accept(c, m) = d
  BY <1>1, CacheAssumption DEF accept
<1>3. /\ d \in Seq(M) /\ Len(d) = Len(c) + 1 /\ DOMAIN d = 1..(Len(c) + 1)
      /\ d[Len(c) + 1] = m /\ \A k \in 1..Len(c) : d[k] = c[k]
  BY <1>1
<1>4. IsInjective(d)
  BY <1>1, <1>3 DEF IsInjective, IsNew
<1>5. QED BY <1>1, <1>2, <1>3, <1>4, CacheAssumption DEF Cache

\* A full cache forgets its oldest id for a new one.
LEMMA AcceptWhenFull ==
    ASSUME NEW M, NEW c \in Cache(M), NEW m \in M, IsNew(c, m), ~(Len(c) < CacheSize)
    PROVE  /\ accept(c, m) \in Cache(M)
           /\ Len(c) = CacheSize /\ Len(accept(c, m)) = CacheSize
           /\ accept(c, m)[CacheSize] = m
           /\ \A k \in 1..(CacheSize - 1) : accept(c, m)[k] = c[k + 1]
<1> DEFINE d == Append(Tail(c), m)
<1>1. /\ c \in Seq(M) /\ Len(c) = CacheSize /\ CacheSize \in Nat \ {0} /\ c # <<>>
      /\ DOMAIN c = 1..CacheSize /\ IsInjective(c)
  BY CacheAssumption DEF Cache
<1>2. accept(c, m) = d
  BY <1>1 DEF accept
<1>3. /\ Tail(c) \in Seq(M) /\ Len(Tail(c)) = CacheSize - 1
      /\ \A k \in 1..(CacheSize - 1) : Tail(c)[k] = c[k + 1]
  BY <1>1
<1>4. /\ d \in Seq(M) /\ Len(d) = CacheSize /\ DOMAIN d = 1..CacheSize
      /\ d[CacheSize] = m /\ \A k \in 1..(CacheSize - 1) : d[k] = c[k + 1]
  BY <1>1, <1>3
<1>5. IsInjective(d)
  <2> SUFFICES ASSUME NEW a \in 1..CacheSize, NEW b \in 1..CacheSize, d[a] = d[b] PROVE a = b
    BY <1>4 DEF IsInjective
  <2>1. CASE a < CacheSize /\ b < CacheSize
    BY <1>1, <1>4, <2>1 DEF IsInjective
  <2>2. CASE a = CacheSize \/ b = CacheSize
    BY <1>1, <1>4, <2>2 DEF IsNew
  <2>3. QED BY <1>1, <2>1, <2>2
<1>6. QED BY <1>1, <1>2, <1>4, <1>5 DEF Cache

\* Taking a member out of a sequence moves those behind it one place up.
LEMMA Removed ==
    ASSUME NEW M, NEW c \in Seq(M), NEW i \in 1..Len(c)
    PROVE  /\ RemoveAt(c, i) \in Seq(M) /\ Len(RemoveAt(c, i)) = Len(c) - 1
           /\ \A k \in 1..(i - 1) : RemoveAt(c, i)[k] = c[k]
           /\ \A k \in i..(Len(c) - 1) : RemoveAt(c, i)[k] = c[k + 1]
<1> DEFINE before == SubSeq(c, 1, i - 1)
           after  == SubSeq(c, i + 1, Len(c))
           n == Len(c)
<1>1. n \in Nat /\ i \in Nat /\ 1 <= i /\ i <= n /\ \A k \in 1..n : c[k] \in M
  OBVIOUS
<1>2. before \in Seq(M) /\ Len(before) = i - 1 /\ \A k \in 1..(i - 1) : before[k] = c[k]
  BY <1>1
<1>3. /\ after \in Seq(M) /\ Len(after) = n - i
      /\ \A k \in 1..(n - i) : after[k] = c[k + i]
  <2>1. /\ after \in Seq(M) /\ Len(after) = IF i + 1 <= n THEN n - (i + 1) + 1 ELSE 0
        /\ \A k \in 1..(n - (i + 1) + 1) : after[k] = c[i + 1 + k - 1]
    <3>1. i + 1 \in Int /\ n \in Int /\ \A k \in (i + 1)..n : c[k] \in M
      BY <1>1
    <3>2. QED BY <3>1, SubSeqProperties
  <2> HIDE DEF after, n
  <2>2. n - (i + 1) + 1 = n - i /\ \A k \in 1..(n - i) : i + 1 + k - 1 = k + i
    BY <1>1
  <2>3. QED BY <1>1, <2>1, <2>2
<1> DEFINE r == before \o after
<1>4. /\ r \in Seq(M) /\ Len(r) = Len(before) + Len(after)
      /\ \A k \in 1..(Len(before) + Len(after)) :
            r[k] = IF k <= Len(before) THEN before[k] ELSE after[k - Len(before)]
  BY <1>2, <1>3, ConcatProperties
<1>5. RemoveAt(c, i) = r
  BY DEF RemoveAt
<1> HIDE DEF before, after, r, n
<1>6. \A k \in i..(n - 1) : after[k - (i - 1)] = c[k + 1]
  BY <1>1, <1>3
<1>7. /\ Len(r) = n - 1
      /\ \A k \in 1..(i - 1) : r[k] = c[k]
      /\ \A k \in i..(n - 1) : r[k] = c[k + 1]
  BY <1>1, <1>2, <1>3, <1>4, <1>6
<1>8. QED BY <1>4, <1>5, <1>7 DEF n

\* A duplicate goes to the end, the others keep their order.
LEMMA AcceptDuplicate ==
    ASSUME NEW M, NEW c \in Cache(M), NEW i \in DOMAIN c
    PROVE  /\ accept(c, c[i]) \in Cache(M) /\ Len(accept(c, c[i])) = Len(c)
           /\ accept(c, c[i])[Len(c)] = c[i]
           /\ \A k \in 1..(i - 1) : accept(c, c[i])[k] = c[k]
           /\ \A k \in i..(Len(c) - 1) : accept(c, c[i])[k] = c[k + 1]
<1> DEFINE m == c[i]
           r == RemoveAt(c, i)
           d == Append(r, m)
           n == Len(c)
<1>1. /\ c \in Seq(M) /\ n \in Nat /\ DOMAIN c = 1..n /\ IsInjective(c)
      /\ i \in 1..n /\ m \in M /\ n <= CacheSize
  BY DEF Cache
<1>2. (CHOOSE k \in DOMAIN c : c[k] = m) = i
  BY <1>1 DEF IsInjective
<1>3. accept(c, m) = d
  BY <1>1, <1>2 DEF accept, move_to_end, IsNew
<1>4. /\ r \in Seq(M) /\ Len(r) = n - 1
      /\ \A k \in 1..(i - 1) : r[k] = c[k]
      /\ \A k \in i..(n - 1) : r[k] = c[k + 1]
  BY <1>1, Removed
<1> HIDE DEF r, m
<1>5. /\ d \in Seq(M) /\ Len(d) = Len(r) + 1 /\ DOMAIN d = 1..(Len(r) + 1)
      /\ \A k \in 1..Len(r) : d[k] = r[k]
      /\ d[Len(r) + 1] = m
  <2>1. r \in Seq(M) /\ m \in M
    BY <1>1, <1>4
  <2>2. QED BY <2>1, AppendProperties, LenProperties
<1> HIDE DEF d, n
<1>6. /\ Len(d) = n /\ DOMAIN d = 1..n /\ d[n] = m
      /\ \A k \in 1..(i - 1) : d[k] = c[k]
      /\ \A k \in i..(n - 1) : d[k] = c[k + 1]
  BY <1>1, <1>4, <1>5
<1>7. IsInjective(d)
  <2> DEFINE From(k) == IF k = n THEN i ELSE IF k < i THEN k ELSE k + 1
  <2>1. \A k \in 1..n : From(k) \in 1..n /\ d[k] = c[From(k)]
    BY <1>1, <1>6 DEF m
  <2>2. \A k, l \in 1..n : From(k) = From(l) => k = l
    BY <1>1
  <2> HIDE DEF From
  <2>3. QED BY <1>1, <1>6, <2>1, <2>2 DEF IsInjective
<1>8. QED BY <1>1, <1>3, <1>5, <1>6, <1>7 DEF Cache, m, n

\* Whatever is offered to it, a cache stays one, with the id offered at its end.
LEMMA AcceptCaches ==
    ASSUME NEW M, NEW c \in Cache(M), NEW m \in M
    PROVE  /\ accept(c, m) \in Cache(M) /\ Len(accept(c, m)) \in Nat \ {0}
           /\ accept(c, m)[Len(accept(c, m))] = m
           /\ \A k \in DOMAIN accept(c, m) :
                 accept(c, m)[k] = m \/ \E j \in DOMAIN c : accept(c, m)[k] = c[j]
<1> DEFINE d == accept(c, m)
           n == Len(c)
<1>1. n \in Nat /\ DOMAIN c = 1..n /\ CacheSize \in Nat \ {0}
  BY CacheAssumption DEF Cache
<1>2. CASE ~IsNew(c, m)
  <2>1. PICK i \in DOMAIN c : c[i] = m
    BY <1>2 DEF IsNew
  <2>2. /\ d \in Cache(M) /\ Len(d) = n /\ d[n] = m
        /\ \A k \in 1..(i - 1) : d[k] = c[k]
        /\ \A k \in i..(n - 1) : d[k] = c[k + 1]
    BY <2>1, AcceptDuplicate
  <2> HIDE DEF d, n
  <2>3. DOMAIN d = 1..n
    BY <2>2 DEF Cache
  <2>4. QED BY <1>1, <2>1, <2>2, <2>3 DEF d
<1>3. CASE IsNew(c, m) /\ n < CacheSize
  <2>1. d \in Cache(M) /\ Len(d) = n + 1 /\ d[n + 1] = m /\ \A k \in 1..n : d[k] = c[k]
    BY <1>3, AcceptWithRoom
  <2> HIDE DEF d, n
  <2>2. DOMAIN d = 1..(n + 1)
    BY <2>1 DEF Cache
  <2>3. QED BY <1>1, <2>1, <2>2 DEF d
<1>4. CASE IsNew(c, m) /\ ~(n < CacheSize)
  <2>1. /\ d \in Cache(M) /\ n = CacheSize /\ Len(d) = CacheSize /\ d[CacheSize] = m
        /\ \A k \in 1..(CacheSize - 1) : d[k] = c[k + 1]
    BY <1>4, AcceptWhenFull
  <2> HIDE DEF d, n
  <2>2. DOMAIN d = 1..CacheSize
    BY <2>1 DEF Cache
  <2>3. QED BY <1>1, <2>1, <2>2 DEF d
<1>5. QED BY <1>2, <1>3, <1>4

\* The id just offered is the most recent: nothing came after it.
LEMMA TrackedNow ==
    ASSUME NEW M, NEW c \in Cache(M), NEW m \in M, NEW S
    PROVE  Tracked(accept(c, m), m, S)
<1> DEFINE d == accept(c, m)
<1>1. d \in Cache(M) /\ Len(d) \in Nat \ {0} /\ d[Len(d)] = m
  BY AcceptCaches
<1> HIDE DEF d
<1>2. DOMAIN d = 1..Len(d)
  BY <1>1 DEF Cache
<1>3. Len(d) \in DOMAIN d /\ \A j \in DOMAIN d : ~(Len(d) < j)
  BY <1>1, <1>2
<1>4. QED BY <1>1, <1>3 DEF Tracked, d

\* More ids may have come after it.
LEMMA TrackedGrows ==
    ASSUME NEW c, NEW x, NEW T, IsFiniteSet(T), NEW S \in SUBSET T, Tracked(c, x, S)
    PROVE  Tracked(c, x, T)
<1>1. CASE \E k \in DOMAIN c : c[k] = x /\ \A j \in DOMAIN c : k < j => c[j] \in S
  BY <1>1 DEF Tracked
<1>2. CASE IsNew(c, x) /\ Cardinality(S \ {x}) >= CacheSize
  <2>1. IsFiniteSet(T \ {x}) /\ S \ {x} \subseteq T \ {x}
    BY FS_RemoveElement
  <2>2. /\ IsFiniteSet(S \ {x}) /\ Cardinality(S \ {x}) <= Cardinality(T \ {x})
    BY <2>1, FS_Subset
  <2>3. Cardinality(S \ {x}) \in Nat /\ Cardinality(T \ {x}) \in Nat /\ CacheSize \in Nat
    BY <2>1, <2>2, FS_CardinalityType, CacheAssumption
  <2>4. QED BY <1>2, <2>2, <2>3 DEF Tracked
<1>3. QED BY <1>1, <1>2 DEF Tracked

\* The ids of a full cache are as many as it has places.
LEMMA FullCacheCount ==
    ASSUME NEW M, NEW c \in Cache(M), Len(c) = CacheSize,
           NEW S, IsFiniteSet(S), \A k \in DOMAIN c : c[k] \in S
    PROVE  Cardinality(S) >= CacheSize
<1>1. CacheSize \in Nat /\ DOMAIN c = 1..CacheSize /\ c \in [1..CacheSize -> S]
  BY CacheAssumption DEF Cache
<1>2. c \in Injection(1..CacheSize, S)
  BY <1>1 DEF Injection, IsInjective, Cache
<1>3. Cardinality(1..CacheSize) <= Cardinality(S)
  BY <1>2, FS_Injection
<1>4. Cardinality(1..CacheSize) = CacheSize
  BY <1>1, FS_Interval
<1>5. Cardinality(S) \in Nat
  BY FS_CardinalityType
<1>6. QED BY <1>1, <1>3, <1>4, <1>5

\* Offering one more id keeps track of every other.
LEMMA TrackedStep ==
    ASSUME NEW M, NEW c \in Cache(M), NEW m \in M, NEW x \in M, x # m,
           NEW S, IsFiniteSet(S), Tracked(c, x, S)
    PROVE  Tracked(accept(c, m), x, S \cup {m})
<1> DEFINE d == accept(c, m)
           n == Len(c)
           T == S \cup {m}
<1>1. n \in Nat /\ DOMAIN c = 1..n /\ CacheSize \in Nat \ {0} /\ IsInjective(c)
  BY CacheAssumption DEF Cache
<1>2. /\ d \in Cache(M) /\ Len(d) \in Nat \ {0} /\ d[Len(d)] = m
      /\ \A k \in DOMAIN d : d[k] = m \/ \E j \in DOMAIN c : d[k] = c[j]
  BY AcceptCaches
<1>3. DOMAIN d = 1..Len(d)
  BY <1>2 DEF Cache
<1>4. IsFiniteSet(T) /\ S \subseteq T
  BY FS_AddElement
<1>5. CASE IsNew(c, x) /\ Cardinality(S \ {x}) >= CacheSize
  <2>1. IsNew(d, x)
    BY <1>2, <1>5 DEF IsNew
  <2>2. Tracked(d, x, S)
    BY <1>5, <2>1 DEF Tracked
  <2> HIDE DEF d, T
  <2>3. QED BY <1>4, <2>2, TrackedGrows DEF d, T
<1>6. ASSUME NEW k \in DOMAIN c, c[k] = x, \A j \in DOMAIN c : k < j => c[j] \in S
      PROVE  Tracked(d, x, T)
  <2>1. CASE ~IsNew(c, m)
    <3>1. PICK i \in DOMAIN c : c[i] = m
      BY <2>1 DEF IsNew
    <3>2. /\ Len(d) = n /\ d[n] = m
          /\ \A l \in 1..(i - 1) : d[l] = c[l]
          /\ \A l \in i..(n - 1) : d[l] = c[l + 1]
      BY <3>1, AcceptDuplicate
    <3> DEFINE p == IF k < i THEN k ELSE k - 1
    <3> HIDE DEF d, n
    <3>3. k # i
      BY <1>6, <3>1
    <3>4. p \in 1..(n - 1) /\ d[p] = x
      BY <1>1, <1>6, <3>1, <3>2, <3>3
    <3>5. ASSUME NEW j \in 1..n, p < j PROVE d[j] \in T
      <4>1. CASE j = n
        BY <3>2, <4>1
      <4>2. CASE j < i
        BY <1>1, <1>6, <3>1, <3>2, <3>3, <3>5, <4>2
      <4>3. CASE i <= j /\ j < n
        BY <1>1, <1>6, <3>1, <3>2, <3>3, <3>5, <4>3
      <4>4. QED BY <1>1, <3>1, <4>1, <4>2, <4>3
    <3>6. QED BY <1>1, <1>3, <3>2, <3>4, <3>5 DEF Tracked
  <2>2. CASE IsNew(c, m) /\ n < CacheSize
    <3>1. Len(d) = n + 1 /\ d[n + 1] = m /\ \A l \in 1..n : d[l] = c[l]
      BY <2>2, AcceptWithRoom
    <3> HIDE DEF d, n
    <3>2. k \in 1..(n + 1) /\ d[k] = x
      BY <1>1, <1>6, <3>1
    <3>3. \A j \in 1..(n + 1) : k < j => d[j] \in T
      BY <1>1, <1>6, <3>1
    <3>4. QED BY <1>3, <3>1, <3>2, <3>3 DEF Tracked
  <2>3. CASE IsNew(c, m) /\ ~(n < CacheSize)
    <3>1. /\ n = CacheSize /\ Len(d) = CacheSize /\ d[CacheSize] = m
          /\ \A l \in 1..(CacheSize - 1) : d[l] = c[l + 1]
      BY <2>3, AcceptWhenFull
    <3> HIDE DEF d, n
    <3>2. CASE k > 1
      <4>1. k - 1 \in 1..CacheSize /\ d[k - 1] = x
        BY <1>1, <1>6, <3>1, <3>2
      <4>2. \A j \in 1..CacheSize : k - 1 < j => d[j] \in T
        BY <1>1, <1>6, <3>1, <3>2
      <4>3. QED BY <1>3, <3>1, <4>1, <4>2 DEF Tracked
    <3>3. CASE ~(k > 1)
      <4>1. k = 1
        BY <1>1, <3>3
      <4>2. \A j \in 1..CacheSize : d[j] # x /\ d[j] \in T
        BY <1>1, <1>6, <3>1, <4>1 DEF IsInjective
      <4>3. IsNew(d, x) /\ \A j \in DOMAIN d : d[j] \in T \ {x}
        BY <1>3, <3>1, <4>2 DEF IsNew
      <4>4. IsFiniteSet(T \ {x})
        BY <1>4, FS_RemoveElement
      <4>5. Cardinality(T \ {x}) >= CacheSize
        BY <1>2, <3>1, <4>3, <4>4, FullCacheCount
      <4>6. QED BY <4>3, <4>5 DEF Tracked
    <3>4. QED BY <3>2, <3>3
  <2>4. QED BY <2>1, <2>2, <2>3
<1>7. QED BY <1>5, <1>6 DEF Tracked

-----------------------------------------------------------------------------
(* Types.                                                                   *)

Reply == Request \X Nat

\* A stream of which no more was delivered than it has, and nothing else is pending.
Delivering(M) ==
    {s \in Stream(M) : s.last <= Len(s.entries) /\ s.pending \subseteq 1..s.last}

\* TypeOK, that the streams are records, caches without repetition, and that the agent
\* has an entry in hand.
LoopTypes ==
    /\ channel \in Delivering(Request) /\ inbox \in Delivering(Reply)
    /\ requested \in 0..MaxRequests
    /\ pc \in {"read", "handle", "reply", "ack", "down"}
    /\ cpc \in {"read", "take", "route", "down"}
    /\ entry \in 0..channel.last
    /\ pc \in {"handle", "reply", "ack"} => entry # NoEntry
    /\ seen \in Cache(Request) /\ cseen \in Cache(Reply)
    /\ batch \subseteq inbox.pending
    /\ replies \in Seq(Reply) /\ routed \in Seq(Reply)
    /\ handled \in [Request -> Nat]
    /\ reads \in Seq([id : Request, fresh : BOOLEAN])

\* A read delivers the next entries of a stream, as far as there are any.
LEMMA ReadDelivers ==
    ASSUME NEW M, NEW s \in Delivering(M), NEW n \in Nat
    PROVE  /\ read(s, n) \in Delivering(M)
           /\ read(s, n).entries = s.entries
           /\ read(s, n).last >= s.last
           /\ Batch(s, n) \subseteq (s.last + 1)..read(s, n).last
           /\ Batch(s, n) \subseteq read(s, n).pending
           /\ Batch(s, n) # {} => s.last + 1 \in 1..Len(s.entries)
<1> DEFINE len == Len(s.entries)
           top == IF s.last + n <= len THEN s.last + n ELSE len
           t == read(s, n)
<1>1. /\ s \in Stream(M) /\ len \in Nat /\ s.last \in Nat /\ s.last <= len
      /\ DOMAIN s.entries = 1..len /\ s.pending \subseteq 1..s.last
  BY DEF Delivering, Stream
<1>2. t \in Stream(M) /\ t.entries = s.entries
  BY <1>1, BatchCount
<1>3. t.last = s.last + Cardinality(Batch(s, n)) /\ t.pending = s.pending \cup Batch(s, n)
  BY DEF read
<1> HIDE DEF len, t
<1>4. Batch(s, n) = (s.last + 1)..top
  BY <1>1 DEF Batch
<1>5. top \in Nat /\ s.last <= top /\ top <= len
  BY <1>1
<1> HIDE DEF top
<1>6. Cardinality((s.last + 1)..top) = top - s.last
  BY <1>1, <1>5, FS_Interval
<1>7. t.last = top
  BY <1>1, <1>3, <1>4, <1>5, <1>6
<1>8. t.pending \subseteq 1..t.last
  BY <1>1, <1>3, <1>4, <1>5, <1>7
<1>9. t \in Delivering(M)
  BY <1>2, <1>5, <1>7, <1>8 DEF Delivering, len
<1>10. Batch(s, n) # {} => s.last + 1 \in 1..len
  BY <1>1, <1>4, <1>5
<1>11. QED BY <1>2, <1>3, <1>4, <1>5, <1>7, <1>9, <1>10 DEF t, len

LEMMA AckDelivers ==
    ASSUME NEW M, NEW s \in Delivering(M), NEW e
    PROVE  /\ ack(s, e) \in Delivering(M)
           /\ ack(s, e).entries = s.entries /\ ack(s, e).last = s.last
           /\ ack(s, e).pending = s.pending \ {e}
BY AckKeeps DEF Delivering

LEMMA PublishDelivers ==
    ASSUME NEW M, NEW s \in Delivering(M), NEW m \in M
    PROVE  /\ publish(s, m) \in Delivering(M)
           /\ publish(s, m).last = s.last /\ publish(s, m).pending = s.pending
           /\ Len(publish(s, m).entries) = Len(s.entries) + 1
           /\ \A e \in 1..Len(s.entries) : publish(s, m).entries[e] = s.entries[e]
<1>1. s \in Stream(M) /\ s.last \in Nat /\ Len(s.entries) \in Nat /\ s.last <= Len(s.entries)
  BY DEF Delivering, Stream
<1>2. QED BY <1>1, PublishAppends DEF Delivering

\* Nothing has been offered to it yet.
LEMMA EmptyCache == \A M : <<>> \in Cache(M)
BY CacheAssumption DEF Cache, IsInjective

LEMMA LoopTypesStep == ASSUME LoopTypes, [Next]_vars PROVE LoopTypes'
<1> USE DEF LoopTypes
<1>0. channel.last \in Nat /\ channel \in Stream(Request) /\ inbox \in Stream(Reply)
  BY DEF Delivering, Stream
<1>1. CASE PublishRequest
  <2>1. requested + 1 \in Request /\ requested' \in 0..MaxRequests
    BY <1>1, LoopAssumption DEF PublishRequest, Request
  <2>2. channel' \in Delivering(Request) /\ channel'.last = channel.last
    BY <1>1, <2>1, PublishDelivers DEF PublishRequest
  <2>3. QED BY <1>1, <2>1, <2>2 DEF PublishRequest, agent, ticking
<1>2. CASE Duplicate
  <2>1. /\ channel' \in Delivering(Request) /\ channel'.last = channel.last
        /\ inbox' \in Delivering(Reply) /\ inbox'.pending = inbox.pending
    <3>1. CASE \E e \in DOMAIN channel.entries : channel' = publish(channel, channel.entries[e])
      <4>1. PICK e \in DOMAIN channel.entries : channel' = publish(channel, channel.entries[e])
        BY <3>1
      <4>2. channel.entries[e] \in Request
        BY <1>0, <4>1 DEF Stream
      <4>3. channel' \in Delivering(Request) /\ channel'.last = channel.last
        BY <4>1, <4>2, PublishDelivers
      <4>4. CASE UNCHANGED inbox
        BY <4>3, <4>4
      <4>5. CASE \E f \in DOMAIN inbox.entries : inbox' = publish(inbox, inbox.entries[f])
        <5>1. PICK f \in DOMAIN inbox.entries : inbox' = publish(inbox, inbox.entries[f])
          BY <4>5
        <5>2. inbox.entries[f] \in Reply
          BY <1>0, <5>1 DEF Stream
        <5>3. QED BY <4>3, <5>1, <5>2, PublishDelivers
      <4>6. QED BY <1>2, <4>4, <4>5 DEF Duplicate
    <3>2. CASE UNCHANGED channel
      <4>1. CASE UNCHANGED inbox
        BY <3>2, <4>1
      <4>2. CASE \E f \in DOMAIN inbox.entries : inbox' = publish(inbox, inbox.entries[f])
        <5>1. PICK f \in DOMAIN inbox.entries : inbox' = publish(inbox, inbox.entries[f])
          BY <4>2
        <5>2. inbox.entries[f] \in Reply
          BY <1>0, <5>1 DEF Stream
        <5>3. QED BY <3>2, <5>1, <5>2, PublishDelivers
      <4>3. QED BY <1>2, <4>1, <4>2 DEF Duplicate
    <3>3. QED BY <1>2, <3>1, <3>2 DEF Duplicate
  <2>2. QED BY <1>2, <2>1 DEF Duplicate, agent, ticking
<1>3. CASE ReadOnce
  <2> DEFINE m == channel.entries[channel.last + 1]
  <2>1. /\ channel' = read(channel, 1) /\ entry' = channel.last + 1 /\ seen' = accept(seen, m)
        /\ reads' = Append(reads, [id |-> m, fresh |-> IsNew(seen, m)])
        /\ pc' \in {"handle", "ack"}
        /\ Batch(channel, 1) # {}
    BY <1>3 DEF ReadOnce
  <2>2. channel' \in Delivering(Request) /\ channel.last + 1 \in 1..Len(channel.entries)
    BY <2>1, ReadDelivers
  <2>3. m \in Request
    BY <1>0, <2>2 DEF Stream
  <2>4. channel'.last = channel.last + 1
    <3>1. Len(channel.entries) \in Nat
      BY <1>0 DEF Stream
    <3>2. channel.last < Len(channel.entries)
      BY <1>0, <2>2, <3>1
    <3>3. QED BY <1>0, <2>1, <3>2, OneDelivered
  <2>5. seen' \in Cache(Request)
    BY <2>1, <2>3, AcceptCaches
  <2> HIDE DEF m
  <2>6. IsNew(seen, m) \in BOOLEAN
    BY DEF IsNew
  <2>7. reads' \in Seq([id : Request, fresh : BOOLEAN])
    <3>1. [id |-> m, fresh |-> IsNew(seen, m)] \in [id : Request, fresh : BOOLEAN]
      BY <2>3, <2>6
    <3>2. QED BY <2>1, <3>1, AppendProperties
  <2>8. entry' \in 0..channel'.last /\ entry' # NoEntry
    BY <1>0, <2>1, <2>4 DEF NoEntry
  <2>9. UNCHANGED <<inbox, requested, handled, ticking, faults>>
    BY <1>3 DEF ReadOnce
  <2>10. QED BY <2>1, <2>2, <2>5, <2>7, <2>8, <2>9 DEF ticking
<1>4. CASE Handle
  <2>1. Message \in Request
    BY <1>0, <1>4 DEF Handle, Message, NoEntry, Delivering, Stream
  <2>2. handled' \in [Request -> Nat]
    BY <1>4, <2>1 DEF Handle
  <2>3. QED BY <1>4, <2>2 DEF Handle, streams, ticking
<1>5. CASE PublishReply
  <2>1. Message \in Request
    BY <1>0, <1>5 DEF PublishReply, Message, NoEntry, Delivering, Stream
  <2>2. <<Message, handled[Message]>> \in Reply
    BY <2>1 DEF Reply
  <2>3. inbox' \in Delivering(Reply) /\ inbox'.pending = inbox.pending
    BY <1>5, <2>2, PublishDelivers DEF PublishReply
  <2>4. QED BY <1>5, <2>3 DEF PublishReply, ticking
<1>6. CASE Ack
  <2>1. channel' \in Delivering(Request) /\ channel'.last = channel.last
    BY <1>6, AckDelivers DEF Ack
  <2>2. QED BY <1>0, <1>6, <2>1 DEF Ack, ticking, NoEntry
<1>7. CASE LoopError
  BY <1>0, <1>7 DEF LoopError, streams, ticking, NoEntry
<1>8. CASE ReadBatch
  <2>1. inbox' \in Delivering(Reply) /\ batch' \subseteq inbox'.pending
    BY <1>8, LoopAssumption, ReadDelivers DEF ReadBatch
  <2>2. QED BY <1>8, <2>1 DEF ReadBatch, agent
<1>9. CASE TakeReply
  <2> DEFINE e == CHOOSE e \in batch : \A other \in batch : e <= other
             reply == inbox.entries[e]
  <2>1. /\ inbox' = ack(inbox, e) /\ batch' = batch \ {e} /\ cseen' = accept(cseen, reply)
        /\ replies' = IF IsNew(cseen, reply) THEN Append(replies, reply) ELSE replies
        /\ batch # {}
    BY <1>9 DEF TakeReply
  <2>2. batch \in SUBSET Nat
    BY <1>0 DEF Delivering, Stream
  <2>3. e \in batch
    BY <2>1, <2>2, SmallestMember
  <2> HIDE DEF e
  <2>4. reply \in Reply
    BY <1>0, <2>3 DEF Delivering, Stream
  <2> HIDE DEF reply
  <2>5. inbox' \in Delivering(Reply) /\ batch' \subseteq inbox'.pending
    BY <2>1, AckDelivers
  <2>6. cseen' \in Cache(Reply) /\ replies' \in Seq(Reply)
    BY <2>1, <2>4, AcceptCaches
  <2>7. QED BY <1>9, <2>5, <2>6 DEF TakeReply, agent
<1>10. CASE TakeError
  BY <1>10 DEF TakeError, streams, agent
<1>11. CASE Taken
  BY <1>11 DEF Taken, streams, agent
<1>12. CASE Route
  BY <1>12 DEF Route, streams, agent
<1>13. CASE Crash
  BY <1>0, <1>13, EmptyCache DEF Crash, streams, NoEntry
<1>14. CASE Restart
  BY <1>14 DEF Restart, streams
<1>15. CASE UNCHANGED vars
  BY <1>15 DEF vars, streams, agent, ticking
<1>16. QED
  BY <1>1, <1>2, <1>3, <1>4, <1>5, <1>6, <1>7, <1>8, <1>9, <1>10, <1>11, <1>12, <1>13, <1>14,
     <1>15 DEF Next, Agent, Tick

LEMMA LoopTypesCorrect == Spec => []LoopTypes
<1>1. Init => LoopTypes
  BY EmptyCache, LoopAssumption
     DEF Init, LoopTypes, EmptyStream, Delivering, Stream, Reply, NoEntry
<1>2. LoopTypes /\ [Next]_vars => LoopTypes'
  BY LoopTypesStep
<1>3. QED BY <1>1, <1>2, PTL DEF Spec

\* The streams, the caches and the two loops keep to their types: no receiver outgrows
\* its cache, and the coordinator never has an entry in its batch that it acknowledged.
THEOREM LoopTypeCorrect == Spec => []TypeOK
<1>1. LoopTypes => TypeOK
  BY DEF LoopTypes, TypeOK, StreamType, Delivering, Stream, Cache, Reply
<1>2. QED BY <1>1, LoopTypesCorrect, PTL

-----------------------------------------------------------------------------
(* What the agent reads twice.                                              *)

\* The ids read after the i-th.
Since(i) == {reads[k].id : k \in (i + 1)..Len(reads)}

\* The agent's receiver remembers every id it was offered, or has forgotten it for
\* enough others.
ReadsTracked ==
    \A i \in DOMAIN reads : reads[i].id \notin Since(i) => Tracked(seen, reads[i].id, Since(i))

LEMMA FiniteImage ==
    ASSUME NEW f, NEW a \in Int, NEW b \in Int
    PROVE  IsFiniteSet({f[k] : k \in a..b})
<1> DEFINE g == [k \in a..b |-> f[k]]
           S == {f[k] : k \in a..b}
<1>1. IsFiniteSet(a..b)
  BY FS_Interval
<1>2. g \in Surjection(a..b, S)
  BY DEF Surjection
<1>3. QED BY <1>1, <1>2, FS_Surjection

\* Every step keeps the reads tracked, and reads an id anew only when it was forgotten.
LEMMA RepeatStep ==
    ASSUME LoopTypes, ReadsTracked, RepeatMeansEvicted, [Next]_vars
    PROVE  ReadsTracked' /\ RepeatMeansEvicted'
<1>1. CASE UNCHANGED <<reads, seen>>
  <2>1. ReadsTracked'
    <3>1. \A i : Since(i)' = Since(i)
      BY <1>1 DEF Since
    <3>2. QED BY <1>1, <3>1 DEF ReadsTracked
  <2>2. RepeatMeansEvicted'
    BY <1>1 DEF RepeatMeansEvicted
  <2>3. QED BY <2>1, <2>2
<1>2. CASE reads' = <<>>
  <2>1. DOMAIN reads' = {}
    BY <1>2
  <2>2. QED BY <2>1 DEF ReadsTracked, RepeatMeansEvicted
<1>3. CASE ReadOnce
  <2> DEFINE m == channel.entries[channel.last + 1]
             n == Len(reads)
             ReadType == [id : Request, fresh : BOOLEAN]
             r == [id |-> m, fresh |-> IsNew(seen, m)]
  <2>1. m \in Request
    <3>1. channel.last + 1 \in 1..Len(channel.entries)
      BY <1>3, ReadDelivers DEF ReadOnce, LoopTypes
    <3>2. QED BY <3>1 DEF LoopTypes, Delivering, Stream
  <2>2. seen' = accept(seen, m) /\ reads' = Append(reads, r)
    BY <1>3 DEF ReadOnce
  <2>3. reads \in Seq(ReadType) /\ r \in ReadType /\ seen \in Cache(Request)
    BY <2>1 DEF LoopTypes, IsNew
  <2> HIDE DEF m
  <2>4. /\ n \in Nat /\ Len(reads') = n + 1 /\ DOMAIN reads = 1..n /\ DOMAIN reads' = 1..(n + 1)
        /\ reads'[n + 1] = r /\ \A k \in 1..n : reads'[k] = reads[k] /\ reads[k] \in ReadType
    <3> HIDE DEF r, ReadType
    <3>1. n \in Nat /\ DOMAIN reads = 1..n /\ \A k \in 1..n : reads[k] \in ReadType
      BY <2>3, LenProperties, ElementOfSeq
    <3>2. /\ reads' \in Seq(ReadType) /\ Len(reads') = n + 1 /\ reads'[n + 1] = r
          /\ \A k \in 1..n : reads'[k] = reads[k]
      BY <2>2, <2>3, AppendProperties
    <3>3. QED BY <3>1, <3>2, LenProperties
  <2> HIDE DEF r
  <2>5. r.id = m /\ r.fresh = IsNew(seen, m)
    BY DEF r
  <2>6. \A i \in 1..n : Since(i)' = Since(i) \cup {m}
    <3> SUFFICES ASSUME NEW i \in 1..n PROVE Since(i)' = Since(i) \cup {m}
      OBVIOUS
    <3>1. (i + 1)..(n + 1) = (i + 1)..n \cup {n + 1}
      BY <2>4
    <3> HIDE DEF n, ReadType
    <3>2. Since(i)' = {reads'[k].id : k \in (i + 1)..(n + 1)}
      BY <2>4 DEF Since
    <3>3. Since(i) = {reads[k].id : k \in (i + 1)..n}
      BY DEF Since, n
    <3>4. \A k \in (i + 1)..n : reads'[k].id = reads[k].id
      BY <2>4
    <3>5. QED BY <2>4, <2>5, <3>1, <3>2, <3>3, <3>4
  <2>7. \A i \in 1..n : IsFiniteSet(Since(i))
    <3> SUFFICES ASSUME NEW i \in 1..n PROVE IsFiniteSet(Since(i))
      OBVIOUS
    <3> DEFINE ids == [k \in 1..n |-> reads[k].id]
    <3>1. i + 1 \in Int /\ n \in Int /\ \A k \in (i + 1)..n : ids[k] = reads[k].id
      BY <2>4
    <3> HIDE DEF ids
    <3>2. IsFiniteSet({ids[k] : k \in (i + 1)..n})
      BY <3>1, FiniteImage
    <3>3. Since(i) = {ids[k] : k \in (i + 1)..n}
      BY <3>1 DEF Since
    <3>4. QED BY <3>2, <3>3
  <2> HIDE DEF n, ReadType
  <2>8. ReadsTracked'
    <3> SUFFICES ASSUME NEW i \in 1..(n + 1), reads'[i].id \notin Since(i)'
                 PROVE  Tracked(seen', reads'[i].id, Since(i)')
      BY <2>4 DEF ReadsTracked
    <3>1. CASE i = n + 1
      BY <2>1, <2>2, <2>3, <2>4, <2>5, <3>1, TrackedNow
    <3>2. CASE i \in 1..n
      <4> DEFINE x == reads[i].id
      <4>1. reads'[i].id = x /\ x \in Request /\ x # m /\ x \notin Since(i)
        BY <2>4, <2>6, <3>2 DEF ReadType
      <4>2. Tracked(seen, x, Since(i))
        BY <2>4, <3>2, <4>1 DEF ReadsTracked
      <4>3. Tracked(accept(seen, m), x, Since(i) \cup {m})
        BY <2>1, <2>3, <2>7, <3>2, <4>1, <4>2, TrackedStep
      <4>4. QED BY <2>2, <2>6, <3>2, <4>1, <4>3
    <3>3. QED BY <2>4, <3>1, <3>2
  <2>9. RepeatMeansEvicted'
    <3> SUFFICES ASSUME NEW i \in 1..(n + 1), NEW j \in 1..(n + 1), i < j,
                        reads'[i].id = reads'[j].id, reads'[j].fresh,
                        \A k \in (i + 1)..(j - 1) : reads'[k].id # reads'[i].id
                 PROVE  Cardinality({reads'[k].id : k \in (i + 1)..(j - 1)}) >= CacheSize
      BY <2>4 DEF RepeatMeansEvicted
    <3>1. i \in 1..n /\ reads'[i] = reads[i]
      BY <2>4
    <3>2. {reads'[k].id : k \in (i + 1)..(j - 1)} = {reads[k].id : k \in (i + 1)..(j - 1)}
      <4>1. \A k \in (i + 1)..(j - 1) : reads'[k] = reads[k]
        BY <2>4
      <4>2. QED BY <4>1
    <3>3. CASE j \in 1..n
      <4>1. reads'[j] = reads[j] /\ \A k \in (i + 1)..(j - 1) : reads[k].id # reads[i].id
        BY <2>4, <3>1, <3>3
      <4>2. QED BY <2>4, <3>1, <3>2, <3>3, <4>1 DEF RepeatMeansEvicted
    <3>4. CASE j = n + 1
      <4>1. reads[i].id = m /\ IsNew(seen, m)
        BY <2>4, <2>5, <3>1, <3>4
      <4>2. Since(i) = {reads[k].id : k \in (i + 1)..(j - 1)}
        BY <2>4, <3>4 DEF Since, n
      <4>3. m \notin Since(i)
        BY <2>4, <3>1, <3>4, <4>1, <4>2
      <4>4. Tracked(seen, m, Since(i))
        BY <2>4, <3>1, <4>1, <4>3 DEF ReadsTracked
      <4>5. Cardinality(Since(i) \ {m}) >= CacheSize
        BY <4>1, <4>4 DEF Tracked, IsNew
      <4>6. Since(i) \ {m} = Since(i)
        BY <4>3
      <4>7. QED BY <3>2, <4>2, <4>5, <4>6
    <3>5. QED BY <2>4, <3>3, <3>4
  <2>10. QED BY <2>8, <2>9
<1>4. QED
  BY <1>1, <1>2, <1>3
     DEF Next, Agent, Tick, vars, agent, PublishRequest, Duplicate, Handle, PublishReply, Ack,
         LoopError, ReadBatch, TakeReply, Taken, Route, TakeError, Crash, Restart

\* One process of the agent handles a request a second time only after as many others
\* as its receiver has places: the receiver forgets the least recently used id and no
\* other, duplicates refresh the id they repeat.
THEOREM RepeatsAreEvicted == Spec => []RepeatMeansEvicted
<1>1. Init => ReadsTracked /\ RepeatMeansEvicted
  BY DEF Init, ReadsTracked, RepeatMeansEvicted
<1>2. LoopTypes /\ ReadsTracked /\ RepeatMeansEvicted /\ [Next]_vars
        => ReadsTracked' /\ RepeatMeansEvicted'
  BY RepeatStep
<1>3. QED BY <1>1, <1>2, LoopTypesCorrect, PTL DEF Spec

-----------------------------------------------------------------------------
(* What the coordinator routes twice.                                       *)

\* The replies this process has kept: routed, or about to be.
Kept == routed \o replies

\* The entries that are to be taken next: those of the batch, and the one after it.
Upcoming == batch \cup {inbox.last + 1}

Between(f, g) == {inbox.entries[e] : e \in (f + 1)..(g - 1)}

\* Two entries have the reply `r`, with enough others between them to drive it out.
Evicted(r) ==
    \E first, second \in DOMAIN inbox.entries :
        /\ inbox.entries[first] = r /\ inbox.entries[second] = r
        /\ Cardinality(Between(first, second) \ {r}) >= CacheSize

\* The reply `r` was last taken from the entry `f`: whichever entry is taken next, the
\* receiver has not lost track of it.
TakenFrom(r, f) ==
    /\ f \in 1..inbox.last
    /\ inbox.entries[f] = r
    /\ \A g \in Upcoming : f < g /\ Tracked(cseen, r, Between(f, g))

KeptAreTracked == \A i \in DOMAIN Kept : \E f \in Nat : TakenFrom(Kept[i], f)

RepeatsEvicted == \A i, j \in DOMAIN Kept : i # j /\ Kept[i] = Kept[j] => Evicted(Kept[i])

RouteInv == KeptAreTracked /\ RepeatsEvicted

\* The numbers of the entries of a stream.
LEMMA EntryNumbers ==
    ASSUME NEW M, NEW s \in Delivering(M)
    PROVE  /\ s.entries \in Seq(M) /\ Len(s.entries) \in Nat
           /\ DOMAIN s.entries = 1..Len(s.entries)
           /\ s.last \in Nat /\ s.last <= Len(s.entries)
           /\ s.pending \subseteq 1..s.last
BY DEF Delivering, Stream

LEMMA InboxNumbers ==
    ASSUME LoopTypes
    PROVE  /\ inbox.entries \in Seq(Reply) /\ Len(inbox.entries) \in Nat
           /\ DOMAIN inbox.entries = 1..Len(inbox.entries)
           /\ inbox.last \in Nat /\ inbox.last <= Len(inbox.entries)
           /\ batch \subseteq 1..inbox.last
BY EntryNumbers DEF LoopTypes

LEMMA KeptType ==
    ASSUME LoopTypes
    PROVE  /\ Kept \in Seq(Reply) /\ Len(Kept) \in Nat /\ DOMAIN Kept = 1..Len(Kept)
           /\ Len(routed) \in Nat /\ Len(routed) <= Len(Kept)
           /\ \A i \in 1..Len(routed) : Kept[i] = routed[i]
<1>1. routed \in Seq(Reply) /\ replies \in Seq(Reply) /\ Len(routed) \in Nat /\ Len(replies) \in Nat
  BY DEF LoopTypes
<1>2. /\ Kept \in Seq(Reply) /\ Len(Kept) = Len(routed) + Len(replies)
      /\ \A i \in 1..(Len(routed) + Len(replies)) :
            Kept[i] = IF i <= Len(routed) THEN routed[i] ELSE replies[i - Len(routed)]
  BY <1>1, ConcatProperties DEF Kept
<1> HIDE DEF Kept
<1>3. DOMAIN Kept = 1..Len(Kept)
  BY <1>2, LenProperties
<1>4. QED BY <1>1, <1>2, <1>3

\* A tick that takes no entry, and any growth of the inbox, leave what is kept as it is.
LEMMA RouteKeeps ==
    ASSUME LoopTypes, LoopTypes', RouteInv, UNCHANGED cseen,
           Len(inbox.entries) <= Len(inbox'.entries),
           \A e \in 1..Len(inbox.entries) : inbox'.entries[e] = inbox.entries[e],
           inbox.last <= inbox'.last,
           \A g \in Upcoming' : \E h \in Upcoming : h <= g,
           Len(Kept') <= Len(Kept),
           \A i \in 1..Len(Kept') : Kept'[i] = Kept[i]
    PROVE  RouteInv'
<1> DEFINE old == inbox.entries
           new == inbox'.entries
<1>1. /\ Len(old) \in Nat /\ DOMAIN old = 1..Len(old) /\ inbox.last \in Nat
      /\ inbox.last <= Len(old) /\ Upcoming \subseteq 1..(inbox.last + 1)
  BY InboxNumbers DEF Upcoming
<1>2. /\ Len(new) \in Nat /\ DOMAIN new = 1..Len(new) /\ inbox'.last \in Nat
      /\ inbox'.last <= Len(new) /\ Upcoming' \subseteq 1..(inbox'.last + 1)
  <2>1. /\ Len(new) \in Nat /\ DOMAIN new = 1..Len(new) /\ inbox'.last \in Nat
        /\ inbox'.last <= Len(new) /\ batch' \subseteq 1..inbox'.last
    <3>1. inbox' \in Delivering(Reply) /\ batch' \subseteq inbox'.pending
      BY DEF LoopTypes
    <3>2. QED BY <3>1, EntryNumbers
  <2>2. Upcoming' = batch' \cup {inbox'.last + 1}
    BY DEF Upcoming
  <2>3. inbox'.last + 1 \in 1..(inbox'.last + 1) /\ 1..inbox'.last \subseteq 1..(inbox'.last + 1)
    BY <2>1
  <2>4. Upcoming' \subseteq 1..(inbox'.last + 1)
    BY <2>1, <2>2, <2>3
  <2>5. QED BY <2>1, <2>4
<1>3. Len(Kept) \in Nat /\ DOMAIN Kept = 1..Len(Kept)
  BY KeptType
<1>4. Len(Kept') \in Nat /\ DOMAIN Kept' = 1..Len(Kept')
  <2>1. routed' \in Seq(Reply) /\ replies' \in Seq(Reply)
    BY DEF LoopTypes
  <2>2. Kept' \in Seq(Reply)
    BY <2>1, ConcatProperties DEF Kept
  <2>3. QED BY <2>2, LenProperties
<1>5. \A e \in 1..Len(old) : new[e] = old[e]
  OBVIOUS
<1>6. KeptAreTracked'
  <2> SUFFICES ASSUME NEW i \in 1..Len(Kept') PROVE \E f \in Nat : TakenFrom(Kept[i], f)'
    BY <1>4 DEF KeptAreTracked
  <2>1. i \in DOMAIN Kept /\ Kept'[i] = Kept[i]
    BY <1>3, <1>4
  <2> DEFINE r == Kept[i]
  <2>2. PICK f \in Nat : TakenFrom(r, f)
    BY <2>1 DEF RouteInv, KeptAreTracked
  <2>3. f \in 1..inbox.last /\ f \in 1..inbox'.last /\ new[f] = r
    BY <1>1, <1>2, <1>5, <2>2 DEF TakenFrom
  <2>4. ASSUME NEW g \in Upcoming' PROVE f < g /\ Tracked(cseen, r, Between(f, g)')
    <3>1. PICK h \in Upcoming : h <= g
      OBVIOUS
    <3>2. f < h /\ Tracked(cseen, r, Between(f, h))
      BY <2>2, <3>1 DEF TakenFrom
    <3>3. h \in Nat /\ g \in Nat /\ h <= inbox.last + 1
      BY <1>1, <1>2
    <3>4. Between(f, h) \subseteq Between(f, g)'
      <4> SUFFICES ASSUME NEW e \in (f + 1)..(h - 1) PROVE old[e] \in Between(f, g)'
        BY DEF Between
      <4>1. e \in 1..Len(old) /\ e \in (f + 1)..(g - 1)
        BY <1>1, <2>3, <3>1, <3>3
      <4>2. new[e] = old[e]
        BY <1>5, <4>1
      <4>3. QED BY <4>1, <4>2 DEF Between
    <3>5. IsFiniteSet(Between(f, g)')
      <4>1. f + 1 \in Int /\ g - 1 \in Int
        BY <3>3
      <4>2. IsFiniteSet({new[e] : e \in (f + 1)..(g - 1)})
        BY <4>1, FiniteImage
      <4>3. QED BY <4>2 DEF Between
    <3> HIDE DEF r
    <3>6. Tracked(cseen, r, Between(f, g)')
      BY <3>2, <3>4, <3>5, TrackedGrows
    <3>7. QED BY <1>1, <2>3, <3>1, <3>2, <3>3, <3>6
  <2> HIDE DEF r
  <2>5. TakenFrom(r, f)'
    BY <2>1, <2>3, <2>4 DEF TakenFrom, r
  <2>6. QED BY <2>1, <2>5 DEF r
<1>7. RepeatsEvicted'
  <2> SUFFICES ASSUME NEW i \in 1..Len(Kept'), NEW j \in 1..Len(Kept'), i # j, Kept'[i] = Kept'[j]
               PROVE  Evicted(Kept[i])'
    BY <1>4 DEF RepeatsEvicted
  <2>1. /\ i \in DOMAIN Kept /\ j \in DOMAIN Kept
        /\ Kept'[i] = Kept[i] /\ Kept'[j] = Kept[j]
    BY <1>3, <1>4
  <2> DEFINE r == Kept[i]
  <2>2. Evicted(r)
    BY <2>1 DEF RouteInv, RepeatsEvicted
  <2>3. PICK first \in 1..Len(old), second \in 1..Len(old) :
               /\ old[first] = r /\ old[second] = r
               /\ Cardinality(Between(first, second) \ {r}) >= CacheSize
    BY <1>1, <2>2 DEF Evicted
  <2>4. first \in 1..Len(new) /\ second \in 1..Len(new) /\ new[first] = r /\ new[second] = r
    BY <1>1, <1>2, <1>5, <2>3
  <2>5. Between(first, second)' = Between(first, second)
    <3>1. \A e \in (first + 1)..(second - 1) : new[e] = old[e]
      BY <1>1, <1>5
    <3>2. QED BY <3>1 DEF Between
  <2> HIDE DEF r
  <2>6. Evicted(r)'
    BY <1>2, <2>1, <2>3, <2>4, <2>5 DEF Evicted, r
  <2>7. QED BY <2>1, <2>6 DEF r
<1>8. QED BY <1>6, <1>7 DEF RouteInv

\* A reply that is taken is new to the receiver, or forgotten, or not kept.
LEMMA TakeKeeps ==
    ASSUME LoopTypes, RouteInv, TakeReply
    PROVE  RouteInv'
<1>1. /\ inbox.entries \in Seq(Reply) /\ Len(inbox.entries) \in Nat
      /\ DOMAIN inbox.entries = 1..Len(inbox.entries)
      /\ inbox.last \in Nat /\ inbox.last <= Len(inbox.entries) /\ batch \subseteq 1..inbox.last
  BY InboxNumbers
<1>2. PICK e \in batch :
          /\ \A other \in batch : e <= other
          /\ inbox' = ack(inbox, e) /\ batch' = batch \ {e}
          /\ cseen' = accept(cseen, inbox.entries[e])
          /\ replies' = IF IsNew(cseen, inbox.entries[e]) THEN Append(replies, inbox.entries[e])
                                                         ELSE replies
  <2>1. batch # {} /\ batch \in SUBSET Nat
    BY <1>1 DEF TakeReply
  <2>2. \E e \in batch : \A other \in batch : e <= other
    BY <2>1, SmallestMember
  <2>3. QED BY <2>2 DEF TakeReply
<1>3. e \in 1..inbox.last /\ e \in Nat /\ e \in Upcoming /\ inbox.entries[e] \in Reply
  BY <1>1, ElementOfSeq DEF Upcoming
<1>4. PICK r \in Reply : r = inbox.entries[e]
  BY <1>3
<1>5. inbox'.entries = inbox.entries /\ inbox'.last = inbox.last
  BY <1>2, AckDelivers DEF LoopTypes
<1>6. \A g \in Upcoming' : g \in Upcoming /\ g \in Nat /\ e < g
  <2>1. /\ Upcoming = batch \cup {inbox.last + 1}
        /\ Upcoming' = (batch \ {e}) \cup {inbox.last + 1}
    BY <1>2, <1>5 DEF Upcoming
  <2>2. QED BY <1>1, <1>2, <1>3, <2>1
<1>7. cseen \in Cache(Reply)
  BY DEF LoopTypes
<1> DEFINE d == accept(cseen, r)
<1>8. cseen' = d /\ \A S : Tracked(d, r, S)
  BY <1>2, <1>4, <1>7, TrackedNow
<1>9. /\ Kept \in Seq(Reply) /\ Len(Kept) \in Nat /\ DOMAIN Kept = 1..Len(Kept)
  BY KeptType
<1>10. \A f, g : Between(f, g)' = Between(f, g)
  BY <1>5 DEF Between
<1>11. TakenFrom(r, e)'
  <2> HIDE DEF d
  <2>1. \A g \in Upcoming' : e < g /\ Tracked(cseen', r, Between(e, g)')
    BY <1>6, <1>8
  <2>2. QED BY <1>3, <1>4, <1>5, <2>1 DEF TakenFrom
<1>12. ASSUME NEW x \in Reply, NEW f \in Nat, TakenFrom(x, f)
       PROVE  \E h \in Nat : TakenFrom(x, h)'
  <2>1. CASE x = r
    BY <1>3, <1>11, <2>1
  <2>2. CASE x # r
    <3>1. f \in 1..inbox.last /\ inbox.entries[f] = x /\ f < e /\ Tracked(cseen, x, Between(f, e))
      BY <1>3, <1>12 DEF TakenFrom
    <3>2. f + 1 \in Int /\ e - 1 \in Int
      BY <1>3
    <3>3. IsFiniteSet(Between(f, e))
      BY <3>2, FiniteImage DEF Between
    <3>4. Tracked(d, x, Between(f, e) \cup {r})
      BY <1>4, <1>7, <2>2, <3>1, <3>3, TrackedStep
    <3> HIDE DEF d
    <3>5. ASSUME NEW g \in Upcoming' PROVE f < g /\ Tracked(cseen', x, Between(f, g)')
      <4>1. g \in Nat /\ e < g /\ f < g
        BY <1>3, <1>6, <3>1
      <4>2. Between(f, e) \cup {r} \subseteq Between(f, g)
        <5>1. (f + 1)..(e - 1) \subseteq (f + 1)..(g - 1) /\ e \in (f + 1)..(g - 1)
          BY <1>3, <3>1, <4>1
        <5>2. QED BY <1>4, <5>1 DEF Between
      <4>3. g - 1 \in Int
        BY <4>1
      <4>4. IsFiniteSet(Between(f, g))
        BY <3>2, <4>3, FiniteImage DEF Between
      <4>5. Tracked(d, x, Between(f, g))
        BY <3>4, <4>2, <4>4, TrackedGrows
      <4>6. QED BY <1>8, <1>10, <4>1, <4>5
    <3>6. TakenFrom(x, f)'
      BY <1>5, <3>1, <3>5 DEF TakenFrom
    <3>7. QED BY <3>6
  <2>3. QED BY <2>1, <2>2
<1> HIDE DEF d
<1>13. \A x : Evicted(x) => Evicted(x)'
  BY <1>5, <1>10 DEF Evicted
<1>14. ASSUME NEW i \in 1..Len(Kept), NEW x, x = Kept[i]
       PROVE  x \in Reply /\ \E h \in Nat : TakenFrom(x, h)'
  <2>1. x \in Reply
    BY <1>9, <1>14, ElementOfSeq
  <2>2. \E f \in Nat : TakenFrom(x, f)
    BY <1>9, <1>14 DEF RouteInv, KeptAreTracked
  <2>3. QED BY <1>12, <2>1, <2>2
<1>15. ASSUME NEW i \in 1..Len(Kept), NEW j \in 1..Len(Kept), NEW x, i # j, x = Kept[i], x = Kept[j]
       PROVE  Evicted(x)'
  BY <1>9, <1>13, <1>15 DEF RouteInv, RepeatsEvicted
<1>16. CASE ~IsNew(cseen, r)
  <2>1. Kept' = Kept
    BY <1>2, <1>4, <1>16 DEF Kept, TakeReply
  <2>2. KeptAreTracked'
    BY <1>9, <1>14, <2>1 DEF KeptAreTracked
  <2>3. RepeatsEvicted'
    BY <1>9, <1>15, <2>1 DEF RepeatsEvicted
  <2>4. QED BY <2>2, <2>3 DEF RouteInv
<1>17. CASE IsNew(cseen, r)
  <2>1. PICK n \in Nat : n = Len(Kept)
    BY <1>9
  <2>2. /\ DOMAIN Kept' = 1..(n + 1) /\ Kept'[n + 1] = r
        /\ \A i \in 1..n : Kept'[i] = Kept[i]
    <3>1. routed \in Seq(Reply) /\ replies \in Seq(Reply)
      BY DEF LoopTypes
    <3>2. Kept' = routed \o Append(replies, r)
      BY <1>2, <1>4, <1>17 DEF Kept, TakeReply
    <3>3. Append(replies, r) = replies \o <<r>> /\ <<r>> \in Seq(Reply)
      BY <1>4, <3>1, AppendIsConcat
    <3>4. Kept' = Append(Kept, r)
      BY <1>4, <1>9, <3>1, <3>2, <3>3, ConcatAssociative, AppendIsConcat DEF Kept
    <3>5. QED BY <1>4, <1>9, <2>1, <3>4, AppendProperties, LenProperties
  <2>3. KeptAreTracked'
    <3> SUFFICES ASSUME NEW i \in 1..(n + 1) PROVE \E h \in Nat : TakenFrom(Kept[i], h)'
      BY <2>2 DEF KeptAreTracked
    <3>1. CASE i = n + 1
      BY <1>3, <1>11, <2>2, <3>1
    <3>2. CASE i \in 1..n
      BY <1>14, <2>1, <2>2, <3>2
    <3>3. QED BY <3>1, <3>2
  <2>4. ASSUME NEW i \in 1..n, r = Kept[i] PROVE Evicted(r)'
    <3>1. PICK f \in Nat : TakenFrom(r, f)
      BY <1>9, <2>1, <2>4 DEF RouteInv, KeptAreTracked
    <3>2. f \in 1..inbox.last /\ inbox.entries[f] = r /\ Tracked(cseen, r, Between(f, e))
      BY <1>3, <3>1 DEF TakenFrom
    <3>3. Cardinality(Between(f, e) \ {r}) >= CacheSize
      BY <1>17, <3>2 DEF Tracked, IsNew
    <3>4. f \in DOMAIN inbox.entries /\ e \in DOMAIN inbox.entries
      BY <1>1, <1>3, <3>2
    <3>5. Evicted(r)
      BY <1>4, <3>2, <3>3, <3>4 DEF Evicted
    <3>6. QED BY <1>13, <3>5
  <2>5. RepeatsEvicted'
    <3> SUFFICES ASSUME NEW i \in 1..(n + 1), NEW j \in 1..(n + 1), i # j, Kept'[i] = Kept'[j]
                 PROVE  Evicted(Kept[i])'
      BY <2>2 DEF RepeatsEvicted
    <3>1. CASE i \in 1..n /\ j \in 1..n
      BY <1>15, <2>1, <2>2, <3>1
    <3>2. CASE i = n + 1 /\ j \in 1..n
      BY <2>2, <2>4, <3>2
    <3>3. CASE i \in 1..n /\ j = n + 1
      BY <2>2, <2>4, <3>3
    <3>4. QED BY <3>1, <3>2, <3>3
  <2>6. QED BY <2>3, <2>5 DEF RouteInv
<1>18. QED BY <1>16, <1>17

LEMMA RouteStep == ASSUME LoopTypes, LoopTypes', RouteInv, [Next]_vars PROVE RouteInv'
<1> DEFINE n == Len(inbox.entries)
<1>1. /\ n \in Nat /\ inbox.last \in Nat /\ batch \subseteq 1..inbox.last
      /\ Len(Kept) \in Nat /\ DOMAIN inbox.entries = 1..n
      /\ inbox.entries \in Seq(Reply)
  BY InboxNumbers, KeptType
<1> DEFINE SameKept == Len(Kept') <= Len(Kept) /\ \A i \in 1..Len(Kept') : Kept'[i] = Kept[i]
           InboxGrows == /\ n <= Len(inbox'.entries) /\ \A e \in 1..n : inbox'.entries[e] = inbox.entries[e]
                         /\ inbox'.last = inbox.last
           SameTick == UNCHANGED <<batch, cseen, replies, routed>>
<1>2. Kept' = Kept => SameKept
  BY <1>1
<1>3. ASSUME InboxGrows, UNCHANGED batch PROVE \A g \in Upcoming' : \E h \in Upcoming : h <= g
  BY <1>1, <1>3 DEF Upcoming
<1>4. ASSUME InboxGrows, SameTick PROVE RouteInv'
  <2>1. Kept' = Kept
    BY <1>4 DEF Kept
  <2>2. QED BY <1>1, <1>2, <1>3, <1>4, <2>1, RouteKeeps
<1>5. UNCHANGED inbox => InboxGrows
  BY <1>1
<1>6. ASSUME NEW m \in Reply, inbox' = publish(inbox, m) PROVE InboxGrows
  <2>1. /\ inbox'.last = inbox.last /\ Len(inbox'.entries) = n + 1
        /\ \A e \in 1..n : inbox'.entries[e] = inbox.entries[e]
    BY <1>6, PublishDelivers DEF LoopTypes
  <2> HIDE DEF n
  <2>2. QED BY <1>1, <2>1
<1>7. CASE Duplicate
  <2>1. InboxGrows
    <3>1. CASE UNCHANGED inbox
      BY <1>5, <3>1
    <3>2. CASE \E e \in DOMAIN inbox.entries : inbox' = publish(inbox, inbox.entries[e])
      <4>1. PICK e \in 1..n : inbox' = publish(inbox, inbox.entries[e])
        BY <1>1, <3>2
      <4>2. inbox.entries[e] \in Reply
        BY <1>1
      <4>3. QED BY <1>6, <4>1, <4>2
    <3>3. QED BY <1>7, <3>1, <3>2 DEF Duplicate
  <2>2. SameTick
    BY <1>7 DEF Duplicate, ticking
  <2>3. QED BY <1>4, <2>1, <2>2
<1>8. CASE PublishReply
  <2>1. Message \in Request
    <3>1. entry \in 0..channel.last /\ entry # 0 /\ channel \in Delivering(Request)
      BY <1>8 DEF PublishReply, LoopTypes, NoEntry
    <3>2. entry \in 1..Len(channel.entries) /\ channel.entries \in Seq(Request)
      BY <3>1, EntryNumbers
    <3>3. QED BY <3>2, ElementOfSeq DEF Message
  <2>2. <<Message, handled[Message]>> \in Reply
    BY <2>1 DEF LoopTypes, Reply
  <2>3. InboxGrows
    BY <1>6, <1>8, <2>2 DEF PublishReply
  <2>4. SameTick
    BY <1>8 DEF PublishReply, ticking
  <2>5. QED BY <1>4, <2>3, <2>4
<1>9. CASE PublishRequest \/ ReadOnce \/ Handle \/ Ack \/ LoopError \/ Taken \/ Restart \/ UNCHANGED vars
  <2>1. UNCHANGED inbox /\ SameTick
    BY <1>9 DEF PublishRequest, ReadOnce, Handle, Ack, LoopError, Taken, Restart, vars, streams, ticking
  <2>2. QED BY <1>4, <1>5, <2>1
<1>10. CASE Route
  <2>1. UNCHANGED <<inbox, batch, cseen>> /\ routed' = Kept /\ replies' = <<>>
    BY <1>10 DEF Route, streams, Kept
  <2>2. Kept' = Kept
    BY <2>1, KeptType, ConcatEmptySeq DEF Kept
  <2>3. QED BY <1>1, <1>2, <1>3, <1>5, <2>1, <2>2, RouteKeeps
<1>11. CASE ReadBatch
  <2>1. /\ inbox' = read(inbox, INBOX_BATCH) /\ batch' = Batch(inbox, INBOX_BATCH)
        /\ UNCHANGED <<cseen, replies, routed>>
    BY <1>11 DEF ReadBatch
  <2>2. /\ inbox'.entries = inbox.entries /\ inbox'.last >= inbox.last /\ inbox'.last \in Nat
        /\ batch' \subseteq (inbox.last + 1)..inbox'.last
    BY <2>1, LoopAssumption, ReadDelivers, EntryNumbers DEF LoopTypes
  <2>3. inbox.last + 1 \in Upcoming /\ \A g \in Upcoming' : inbox.last + 1 <= g
    BY <1>1, <2>2 DEF Upcoming
  <2>4. Kept' = Kept
    BY <2>1 DEF Kept
  <2>5. QED BY <1>1, <1>2, <2>1, <2>2, <2>3, <2>4, RouteKeeps
<1>12. CASE TakeReply
  BY <1>12, TakeKeeps
<1>13. CASE TakeError
  <2>1. UNCHANGED <<inbox, cseen, routed>> /\ batch' = {} /\ replies' = <<>>
    BY <1>13 DEF TakeError, streams
  <2>2. Kept' = routed
    BY <2>1, ConcatEmptySeq DEF Kept, LoopTypes
  <2>3. SameKept
    BY <2>2, KeptType
  <2>4. \A g \in Upcoming' : \E h \in Upcoming : h <= g
    BY <1>1, <2>1 DEF Upcoming
  <2>5. QED BY <1>1, <1>5, <2>1, <2>3, <2>4, RouteKeeps
<1>14. CASE Crash
  <2>1. Kept' = <<>>
    BY <1>14 DEF Crash, Kept
  <2>2. DOMAIN Kept' = {}
    BY <2>1
  <2>3. QED BY <2>2 DEF RouteInv, KeptAreTracked, RepeatsEvicted
<1>15. QED
  BY <1>7, <1>8, <1>9, <1>10, <1>11, <1>12, <1>13, <1>14 DEF Next, Agent, Tick

\* One process of the coordinator routes a reply a second time only if as many others
\* as its receiver has places came in between, in whatever batches, and whatever ticks
\* failed half way: a repeated reply within that reach counts once.
THEOREM RoutedTwiceIsEvicted == Spec => []RoutedTwiceMeansEvicted
<1>1. Init => RouteInv
  <2> SUFFICES ASSUME Init PROVE RouteInv
    OBVIOUS
  <2>1. Kept = <<>>
    BY DEF Init, Kept
  <2>2. DOMAIN Kept = {}
    BY <2>1
  <2>3. QED BY <2>2 DEF RouteInv, KeptAreTracked, RepeatsEvicted
<1>2. LoopTypes /\ LoopTypes' /\ RouteInv /\ [Next]_vars => RouteInv'
  BY RouteStep
<1>3. LoopTypes /\ RouteInv => RoutedTwiceMeansEvicted
  <2> SUFFICES ASSUME LoopTypes, RouteInv,
                      NEW i \in DOMAIN routed, NEW j \in DOMAIN routed, i # j, routed[i] = routed[j]
               PROVE  Evicted(routed[i])
    BY DEF RoutedTwiceMeansEvicted, Evicted, Between
  <2>1. /\ DOMAIN routed = 1..Len(routed) /\ Len(routed) <= Len(Kept) /\ DOMAIN Kept = 1..Len(Kept)
        /\ Len(Kept) \in Nat /\ Len(routed) \in Nat
    BY KeptType, LenProperties DEF LoopTypes
  <2>2. /\ i \in DOMAIN Kept /\ j \in DOMAIN Kept /\ Kept[i] = routed[i] /\ Kept[j] = routed[j]
    BY <2>1, KeptType
  <2>3. QED BY <2>2 DEF RouteInv, RepeatsEvicted
<1>4. QED BY <1>1, <1>2, <1>3, LoopTypesCorrect, PTL DEF Spec
=============================================================================
