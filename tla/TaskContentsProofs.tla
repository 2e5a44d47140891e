------------------------- MODULE TaskContentsProofs -------------------------
(***************************************************************************)
(* Proofs about what the agents of a task are sent, answer and leave in the *)
(* database, for any documents, any plans, any number of crashes.           *)
(***************************************************************************)
EXTENDS TaskContents, Induction

-----------------------------------------------------------------------------
(* Queues of anything: sequences told by their members.                     *)

IsList(s) == s \in Seq(Range(s))

\* The empty queue has no members.
LEMMA EmptyList == IsList(<<>>) /\ Range(<<>>) = {}
BY DEF IsList, Range

\* What is appended is the one new member.
LEMMA ListAppend ==
    ASSUME NEW s, IsList(s), NEW e
    PROVE  IsList(Append(s, e)) /\ Range(Append(s, e)) = Range(s) \cup {e}
<1> DEFINE T == Range(s) \cup {e}
<1>1. s \in Seq(T) /\ <<e>> \in Seq(T) /\ e \in T
  BY SeqMonotonic DEF IsList
<1>2. Append(s, e) = s \o <<e>> /\ s \o <<e>> \in Seq(T)
  BY <1>1, AppendIsConcat, ConcatProperties
<1>3. Range(<<e>>) = {e}
  BY DEF Range
<1>4. Range(s \o <<e>>) = Range(s) \cup {e}
  <2> HIDE DEF T
  <2>1. Range(s \o <<e>>) = Range(s) \cup Range(<<e>>)
    BY <1>1, RangeConcatenation, Zenon
  <2>2. QED BY <1>3, <2>1
<1>5. s \o <<e>> \in Seq(Range(s \o <<e>>))
  BY <1>2, SeqOfRange
<1>6. QED BY <1>2, <1>4, <1>5 DEF IsList

\* A queue that lost its first members has only members it had.
LEMMA ListSuffix ==
    ASSUME NEW s, IsList(s), NEW k \in 0..Len(s)
    PROVE  /\ IsList(SubSeq(s, k + 1, Len(s)))
           /\ Range(SubSeq(s, k + 1, Len(s))) \subseteq Range(s)
<1>1. s \in Seq(Range(s)) /\ Len(s) \in Nat
  BY LenProperties DEF IsList
<1>2. \A i \in (k + 1)..Len(s) : s[i] \in Range(s)
  BY <1>1, ElementOfSeq
<1>3. SubSeq(s, k + 1, Len(s)) \in Seq(Range(s))
  BY <1>1, <1>2, SubSeqProperties
<1>4. QED BY <1>3, RangeOfSeq, SeqOfRange DEF IsList

\* So has one that lost its first member, which it had.
LEMMA ListTail ==
    ASSUME NEW s, IsList(s), s # <<>>
    PROVE  /\ Head(s) \in Range(s)
           /\ IsList(Tail(s))
           /\ Range(Tail(s)) \subseteq Range(s)
<1>1. s \in Seq(Range(s))
  BY DEF IsList
<1>2. Head(s) \in Range(s) /\ Tail(s) \in Seq(Range(s))
  BY <1>1, HeadTailProperties
<1>3. QED BY <1>2, RangeOfSeq, SeqOfRange DEF IsList

-----------------------------------------------------------------------------
(* Types.                                                                   *)

\* An agent answers its oldest request, or refuses it, or does neither.
LEMMA HandleStep ==
    ASSUME NEW op, Handle(op)
    PROVE  \/ UNCHANGED inbox
           \/ inbox' = Append(inbox, Refuse(op))
           \/ \E content \in Contents(op, Head(channels[op]).payload) :
                 inbox' = Append(inbox, Inform(op, content, Head(channels[op])))
BY Zenon DEF Handle

\* Of either reply its subtask, and which of the two it is.
LEMMA Replies ==
    ASSUME NEW op
    PROVE  /\ Refuse(op).op = op /\ Refuse(op).performative = "refuse"
           /\ \A content, request :
                 /\ Inform(op, content, request).op = op
                 /\ Inform(op, content, request).performative = "inform"
                 /\ Inform(op, content, request).content = content
                 /\ Inform(op, content, request).payload = request.payload
                 /\ Inform(op, content, request).incarnation = request.incarnation
BY DEF Refuse, Inform

\* The queues are lists of requests, replies and jobs, and a process that is gone
\* remembers no failures and no retries.
QueuesInv ==
    /\ plan \subseteq Operation
    /\ IsList(inbox) /\ IsList(jobs)
    /\ channels = [op \in plan |-> channels[op]] /\ \A op \in plan : IsList(channels[op])
    /\ loop = "down" => failed = {} /\ retry_at = {} /\ stray = {} /\ published = {}

TypeInv == TypeOK /\ QueuesInv

\* A refusal or a timeout of a pending subtask has it retried or failed.
LEMMA RetryStep ==
    ASSUME TypeInv, NEW op \in Pending, _schedule_retry_or_fail(op),
           UNCHANGED <<plan, results>>
    PROVE  /\ failed' \subseteq plan /\ published' \subseteq plan
           /\ DOMAIN results' \cap failed' = {}
           /\ retry_at' \subseteq Pending'
           /\ failed \subseteq failed' /\ published \subseteq published'
           /\ \A o \in plan : o \in published' => o \in published \/ o \in failed'
           /\ \A o \in plan : o \in retry_at' => o \in retry_at \/ o = op
BY DEF TypeInv, TypeOK, Pending, _schedule_retry_or_fail, _fail_subtask

\* Every step keeps the types and the queues in shape.
LEMMA TypeStep ==
    ASSUME TypeInv, [Next]_vars
    PROVE  TypeInv'
<1> USE DEF TypeInv, TypeOK, QueuesInv
<1>1. CASE Route
  <2> DEFINE reply == Head(inbox)
  <2>1. reply \in Range(inbox) /\ IsList(Tail(inbox)) /\ Range(Tail(inbox)) \subseteq Range(inbox)
    BY <1>1, ListTail DEF Route
  <2>2. CASE reply.op \in Pending /\ RouteInform(reply)
    <3> DEFINE op == reply.op
               job == [op |-> op, content |-> reply.content]
    <3>1. results' = Put(results, op, reply.content) /\ jobs' = Append(jobs, job)
          /\ retry_at' = retry_at \ {op} /\ UNCHANGED <<plan, failed, published, stray>>
      BY <1>1, <2>2 DEF Route, RouteInform
    <3>2. DOMAIN results' = DOMAIN results \cup {op} /\ op \in plan /\ op \notin failed
      BY <2>2, <3>1 DEF Put, Pending
    <3>3. IsList(jobs') /\ Range(jobs') = Range(jobs) \cup {job}
      BY <3>1, ListAppend
    <3>4. \A j \in Range(jobs') : j.op \in plan
      BY <3>2, <3>3
    <3>5. retry_at' \subseteq Pending'
      BY <3>1, <3>2 DEF Pending
    <3>6. QED BY <1>1, <2>1, <3>1, <3>2, <3>3, <3>4, <3>5 DEF Route
  <2>3. CASE reply.op \in Pending /\ RouteRefuse(reply)
    <3>1. /\ failed' \subseteq plan /\ published' \subseteq plan
          /\ DOMAIN results' \cap failed' = {} /\ retry_at' \subseteq Pending'
      BY <1>1, <2>3, RetryStep DEF Route, RouteRefuse
    <3>2. QED BY <1>1, <2>1, <2>3, <3>1 DEF Route, RouteRefuse
  <2>4. CASE reply.op \notin Pending
    BY <1>1, <2>1, <2>4 DEF Route, Pending
  <2>5. QED BY <1>1, <2>2, <2>3, <2>4 DEF Route
<1>2. CASE EndRouting
  BY <1>2 DEF EndRouting, state, bus, ghost, Pending
<1>3. ASSUME NEW op \in plan, PublishReady(op) \/ Republish(op) PROVE TypeInv'
  <2>1. PICK request : channels' = [channels EXCEPT ![op] = Append(@, request)]
    BY <1>3 DEF PublishReady, Republish, _publish
  <2>2. IsList(Append(channels[op], request))
    BY ListAppend
  <2>3. channels' = [o \in plan |-> channels'[o]] /\ \A o \in plan : IsList(channels'[o])
    BY <2>1, <2>2
  <2>4. DOMAIN channels' = plan
    BY <2>3
  <2>5. QED BY <1>3, <2>3, <2>4 DEF PublishReady, Republish, _publish, Pending, ghost
<1>4. ASSUME NEW op \in plan, SkipSubtask(op) PROVE TypeInv'
  BY <1>4 DEF SkipSubtask, _fail_subtask, Ready, Pending, bus, ghost
<1>5. ASSUME NEW op \in plan, Expire(op) PROVE TypeInv'
  <2>1. /\ failed' \subseteq plan /\ published' \subseteq plan
        /\ DOMAIN results' \cap failed' = {} /\ retry_at' \subseteq Pending'
    BY <1>5, RetryStep DEF Expire
  <2>2. QED BY <1>5, <2>1 DEF Expire, bus, ghost
<1>6. CASE EndAdvance
  BY <1>6 DEF EndAdvance, bus, ghost, Pending
<1>7. CASE Persist
  <2>1. Head(jobs) \in Range(jobs) /\ IsList(Tail(jobs)) /\ Range(Tail(jobs)) \subseteq Range(jobs)
    BY <1>7, ListTail DEF Persist
  <2>2. committed' = Put(committed, Head(jobs).op, Head(jobs).content)
        /\ jobs' \in {jobs, Tail(jobs)}
    BY <1>7 DEF Persist
  <2>3. DOMAIN committed' \subseteq plan
    BY <2>1, <2>2 DEF Put
  <2>4. QED BY <1>7, <2>1, <2>2, <2>3 DEF Persist, state, bus, ghost, Pending
<1>8. CASE PersistGivesUp
  <2>1. IsList(Tail(jobs)) /\ Range(Tail(jobs)) \subseteq Range(jobs)
    BY <1>8, ListTail DEF PersistGivesUp
  <2>2. QED BY <1>8, <2>1 DEF PersistGivesUp, state, bus, ghost, Pending
<1>9. CASE EndPersist
  BY <1>9 DEF EndPersist, state, bus, ghost, Pending
<1>10. ASSUME NEW op \in plan, Handle(op) PROVE TypeInv'
  <2>1. channels' = [channels EXCEPT ![op] = Tail(@)] /\ IsList(Tail(channels[op]))
    BY <1>10, ListTail DEF Handle
  <2>2. channels' = [o \in plan |-> channels'[o]] /\ \A o \in plan : IsList(channels'[o])
    BY <2>1
  <2>3. IsList(inbox') /\ \A reply \in Range(inbox') : reply.op \in plan
    <3>1. CASE UNCHANGED inbox
      BY <3>1
    <3>2. CASE ~UNCHANGED inbox
      <4>1. PICK reply : inbox' = Append(inbox, reply) /\ reply.op = op
        <5>1. CASE inbox' = Append(inbox, Refuse(op))
          BY <5>1, Replies
        <5>2. CASE \E content \in Contents(op, Head(channels[op]).payload) :
                      inbox' = Append(inbox, Inform(op, content, Head(channels[op])))
          <6>1. PICK content : inbox' = Append(inbox, Inform(op, content, Head(channels[op])))
            BY <5>2
          <6>2. Inform(op, content, Head(channels[op])).op = op
            BY DEF Inform
          <6>3. QED BY <6>1, <6>2, Zenon
        <5>3. QED BY <1>10, <3>2, <5>1, <5>2, HandleStep, Zenon
      <4>2. IsList(inbox') /\ Range(inbox') = Range(inbox) \cup {reply}
        BY <4>1, ListAppend
      <4>3. QED BY <4>1, <4>2
    <3>3. QED BY <3>1, <3>2
  <2>4. DOMAIN channels' = plan
    BY <2>2
  <2>5. QED BY <1>10, <2>2, <2>3, <2>4 DEF Handle, state, ghost, Pending
<1>11. CASE Crash
  <2>1. PICK read \in 0..(IF loop = "routing" THEN Len(inbox) ELSE 0) :
          inbox' = SubSeq(inbox, read + 1, Len(inbox))
    BY <1>11 DEF Crash
  <2>2. Len(inbox) \in Nat
    BY LenProperties DEF IsList
  <2>3. read \in 0..Len(inbox)
    BY <2>1, <2>2
  <2>4. IsList(inbox') /\ Range(inbox') \subseteq Range(inbox)
    BY <2>1, <2>3, ListSuffix
  <2>5. QED BY <1>11, <2>4, EmptyList DEF Crash
<1>12. CASE Restart
  <2>1. documents' \in SetToSeqs(Document) /\ DOMAIN results' \subseteq plan
        /\ published' = DOMAIN results' /\ failed = {}
    BY <1>12, Zenon DEF Restart, Restrict
  <2>2. QED BY <1>12, <2>1 DEF Restart, bus
<1>13. CASE UNCHANGED vars
  BY <1>13 DEF vars, state, bus, ghost, Pending
<1>14. QED
  BY <1>1, <1>2, <1>3, <1>4, <1>5, <1>6, <1>7, <1>8, <1>9, <1>10, <1>11, <1>12, <1>13 DEF Next

\* The types, and the queues, of every state.
LEMMA TypeInvCorrect == Spec => []TypeInv
<1>1. Init => TypeInv
  BY ContentsAssumption, EmptyList DEF Init, TypeInv, TypeOK, QueuesInv
<1>2. QED BY <1>1, TypeStep, PTL DEF Spec

\* The control state keeps its types: no result, failure, retry, request, reply, job or
\* committed content is of a subtask outside the plan, no subtask both succeeds and fails,
\* and a retry waits for a pending one only.
THEOREM ContentsTypes == Spec => []TypeOK
BY TypeInvCorrect, PTL DEF TypeInv

-----------------------------------------------------------------------------
(* What the answers were made from.                                         *)

\* The upstreams of `op` are resolved, and a payload is made from what they have.
Frozen(op) == DependsOn(op) \subseteq DOMAIN results \cup failed
Fresh(op, payload) == Frozen(op) /\ payload = build_payload(op, documents, results)

\* What a request or an answer is held to: one of this process was made from what the
\* upstreams still have, unless a refusal came before its subtask was published.
Held(op, item) ==
    /\ item.incarnation \in Nat /\ item.incarnation <= incarnation
    /\ loop # "down" /\ item.incarnation = incarnation /\ op \notin stray
       => Fresh(op, item.payload)

\* So it is with every request and every answer, whichever queue it is in, and with what
\* the results were made from.
MadeInv ==
    /\ incarnation \in Nat
    /\ \A op \in plan : \A request \in Range(channels[op]) : Held(op, request)
    /\ \A reply \in Range(inbox) : reply.performative = "inform" => Held(reply.op, reply)
    /\ loop # "down" => \A op \in DOMAIN basis : op \in plan /\ (op \notin stray => Fresh(op, basis[op]))
    /\ loop = "down" => DOMAIN basis = {}

\* What is published has its upstreams resolved, and what is to be republished was
\* published, but for the strays; and in the first process there are none, for all that
\* is in the queues is of subtasks it published.
StrayInv ==
    /\ \A op \in (published \cap Pending) \ stray : Frozen(op)
    /\ retry_at \ stray \subseteq published
    /\ incarnation \in Nat \ {0}
    /\ incarnation = 1 => stray = {}
    /\ loop # "down" /\ incarnation = 1 =>
          /\ \A op \in plan : Range(channels[op]) # {} => op \in published
          /\ \A reply \in Range(inbox) : reply.op \in published

\* A payload depends on the results of the operation's upstreams only.
LEMMA PayloadDepends ==
    ASSUME NEW P, NEW f, NEW g, NEW ds, NEW op \in Operation,
           DOMAIN f \subseteq P, DOMAIN g \subseteq P,
           \A dep \in DEPENDENCY_MAP[op] \cap P :
              /\ dep \in DOMAIN f <=> dep \in DOMAIN g
              /\ dep \in DOMAIN f => f[dep] = g[dep]
    PROVE  build_payload(op, ds, f) = build_payload(op, ds, g)
<1>1. ASSUME NEW dep \in DEPENDENCY_MAP[op] PROVE _content(f, dep) = _content(g, dep)
  <2>1. dep \in DOMAIN f <=> dep \in DOMAIN g
    BY <1>1
  <2>2. dep \in DOMAIN f => f[dep] = g[dep]
    BY <1>1
  <2>3. QED BY <2>1, <2>2 DEF _content
<1>2. CASE op \in {"F1", "F2"}
  BY <1>2 DEF build_payload
<1>3. CASE op \in {"F3", "F5"}
  <2>1. _content(f, "F1") = _content(g, "F1") /\ _content(f, "F2") = _content(g, "F2")
    BY <1>1, <1>3 DEF DEPENDENCY_MAP
  <2>2. _chunks(f) = _chunks(g)
    BY <2>1 DEF _chunks
  <2>3. QED BY <1>3, <2>2 DEF build_payload
<1>4. CASE op = "F4"
  <2>1. _content(f, "F3") = _content(g, "F3")
    BY <1>1, <1>4 DEF DEPENDENCY_MAP
  <2>2. QED BY <1>4, <2>1 DEF build_payload
<1>5. CASE op = "F6"
  <2>1. _content(f, "F3") = _content(g, "F3") /\ _content(f, "F5") = _content(g, "F5")
    BY <1>1, <1>5 DEF DEPENDENCY_MAP
  <2>2. QED BY <1>5, <2>1 DEF build_payload
<1>6. QED BY <1>2, <1>3, <1>4, <1>5 DEF Operation

\* While the process lives, the documents stay, failures, results and strays are only
\* added, the first two only to subtasks that are pending.
LEMMA ResultsGrow ==
    ASSUME TypeInv, [Next]_vars, loop # "down", loop' # "down"
    PROVE  /\ UNCHANGED <<plan, documents, incarnation>>
           /\ failed \subseteq failed' /\ published \subseteq published' /\ stray \subseteq stray'
           /\ \A op \in DOMAIN results : op \in DOMAIN results' /\ results'[op] = results[op]
           /\ \A op \in DOMAIN results' : op \in DOMAIN results \/ op \in Pending
<1>1. CASE Route
  <2> DEFINE reply == Head(inbox)
  <2>1. CASE reply.op \in Pending /\ RouteInform(reply)
    <3>1. results' = Put(results, reply.op, reply.content)
          /\ UNCHANGED <<plan, documents, incarnation, failed, published, stray>>
      BY <1>1, <2>1 DEF Route, RouteInform
    <3>2. QED BY <2>1, <3>1 DEF Put, Pending
  <2>2. CASE reply.op \in Pending /\ RouteRefuse(reply)
    <3>1. failed \subseteq failed' /\ published \subseteq published'
      BY <1>1, <2>2, RetryStep DEF Route, RouteRefuse
    <3>2. stray \subseteq stray' /\ UNCHANGED <<plan, documents, incarnation, results>>
      BY <1>1, <2>2 DEF Route, RouteRefuse
    <3>3. QED BY <3>1, <3>2
  <2>3. CASE reply.op \notin Pending
    BY <1>1, <2>3 DEF Route
  <2>4. QED BY <1>1, <2>1, <2>2, <2>3 DEF Route
<1>2. CASE \E op \in plan : SkipSubtask(op)
  BY <1>2 DEF SkipSubtask, _fail_subtask, ghost
<1>3. ASSUME NEW op \in plan, Expire(op)
      PROVE  failed \subseteq failed' /\ published \subseteq published'
             /\ UNCHANGED <<plan, documents, incarnation, results, stray>>
  <2>1. failed \subseteq failed' /\ published \subseteq published'
    BY <1>3, RetryStep DEF Expire
  <2>2. QED BY <1>3, <2>1 DEF Expire, ghost
<1>4. CASE \E op \in plan : PublishReady(op) \/ Republish(op)
  BY <1>4 DEF PublishReady, Republish, _publish, ghost
<1>5. CASE Crash \/ Restart
  BY <1>5 DEF Crash, Restart
<1>6. CASE UNCHANGED <<plan, documents, results, failed, published, incarnation, stray>>
  BY <1>6
<1>7. QED
  BY <1>1, <1>2, <1>3, <1>4, <1>5, <1>6
  DEF Next, EndRouting, EndAdvance, Persist, PersistGivesUp, EndPersist, Handle, vars, state, ghost

\* So what was made from resolved upstreams is still made from them.
LEMMA FreshKept ==
    ASSUME TypeInv, TypeInv', [Next]_vars, loop # "down", loop' # "down",
           NEW op \in plan, NEW payload, Fresh(op, payload)
    PROVE  Fresh(op, payload)'
<1>1. /\ plan' = plan /\ documents' = documents /\ failed \subseteq failed'
      /\ \A o \in DOMAIN results : o \in DOMAIN results' /\ results'[o] = results[o]
      /\ \A o \in DOMAIN results' : o \in DOMAIN results \/ o \in Pending
  BY ResultsGrow
<1>2. DependsOn(op)' = DependsOn(op) /\ DependsOn(op) \subseteq DOMAIN results \cup failed
  BY <1>1 DEF DependsOn, Fresh, Frozen
<1>3. DependsOn(op)' \subseteq DOMAIN results' \cup failed'
  BY <1>1, <1>2
<1>4. \A dep \in DEPENDENCY_MAP[op] \cap plan :
         /\ dep \in DOMAIN results <=> dep \in DOMAIN results'
         /\ dep \in DOMAIN results => results[dep] = results'[dep]
  BY <1>1, <1>2 DEF DependsOn, Pending
<1>5. op \in Operation /\ DOMAIN results \subseteq plan /\ DOMAIN results' \subseteq plan
  BY <1>1 DEF TypeInv, TypeOK, QueuesInv
<1>6. build_payload(op, documents, results) = build_payload(op, documents, results')
  BY <1>4, <1>5, PayloadDepends
<1>7. build_payload(op, documents, results)' = build_payload(op, documents, results')
  BY <1>1
<1>8. QED BY <1>3, <1>6, <1>7 DEF Fresh, Frozen

\* A step of the process leaves each queue its members, or some of them, but for the
\* request that is published and the reply of the agent that handles one.
LEMMA QueueSteps ==
    ASSUME TypeInv, [Next]_vars, loop # "down", loop' # "down"
    PROVE  /\ \A op \in plan : \A request \in Range(channels'[op]) :
                 \/ request \in Range(channels[op])
                 \/ /\ PublishReady(op) \/ Republish(op)
                    /\ request = [payload |-> build_payload(op, documents, results),
                                  incarnation |-> incarnation]
           /\ \A reply \in Range(inbox') :
                 \/ reply \in Range(inbox)
                 \/ \E op \in plan : \E request \in Range(channels[op]) :
                       \/ reply = Refuse(op)
                       \/ \E content \in Contents(op, request.payload) :
                             reply = Inform(op, content, request)
<1>0. /\ IsList(inbox) /\ channels = [o \in plan |-> channels[o]]
      /\ \A o \in plan : IsList(channels[o])
  BY DEF TypeInv, QueuesInv
<1>1. ASSUME NEW op \in plan, PublishReady(op) \/ Republish(op),
             NEW o \in plan, NEW rq \in Range(channels'[o])
      PROVE  \/ rq \in Range(channels[o])
             \/ /\ PublishReady(o) \/ Republish(o)
                /\ rq = [payload |-> build_payload(o, documents, results),
                         incarnation |-> incarnation]
  <2> DEFINE request == [payload |-> build_payload(op, documents, results),
                         incarnation |-> incarnation]
  <2>1. channels' = [channels EXCEPT ![op] = Append(@, request)]
    BY <1>1 DEF PublishReady, Republish, _publish
  <2>2. CASE o = op
    <3> HIDE DEF request
    <3>1. channels'[op] = Append(channels[op], request)
      BY <1>0, <2>1
    <3>2. Range(channels'[op]) = Range(channels[op]) \cup {request}
      BY <1>0, <3>1, ListAppend
    <3>3. rq \in Range(channels[o]) \/ rq = request
      BY <1>1, <2>2, <3>2
    <3>4. QED BY <1>1, <2>2, <3>3 DEF request
  <2>3. CASE o # op
    <3> HIDE DEF request
    <3>1. channels'[o] = channels[o]
      BY <1>0, <2>1, <2>3
    <3>2. QED BY <1>1, <3>1
  <2>4. QED BY <2>2, <2>3
<1>2. ASSUME NEW op \in plan, Handle(op)
      PROVE  /\ \A o \in plan : Range(channels'[o]) \subseteq Range(channels[o])
             /\ \A reply \in Range(inbox') :
                   \/ reply \in Range(inbox)
                   \/ \E request \in Range(channels[op]) :
                       \/ reply = Refuse(op)
                       \/ \E content \in Contents(op, request.payload) :
                             reply = Inform(op, content, request)
  <2> DEFINE request == Head(channels[op])
  <2>1. channels' = [channels EXCEPT ![op] = Tail(@)] /\ channels[op] # <<>>
    BY <1>2 DEF Handle
  <2>2. channels'[op] = Tail(channels[op]) /\ \A o \in plan : o # op => channels'[o] = channels[o]
    BY <1>0, <2>1
  <2>3. Range(channels'[op]) \subseteq Range(channels[op]) /\ request \in Range(channels[op])
    BY <1>0, <2>1, <2>2, ListTail
  <2>4. \A o \in plan : Range(channels'[o]) \subseteq Range(channels[o])
    BY <2>2, <2>3
  <2> HIDE DEF request
  <2>5. CASE UNCHANGED inbox
    BY <2>4, <2>5
  <2>6. CASE inbox' = Append(inbox, Refuse(op))
    <3>1. Range(inbox') = Range(inbox) \cup {Refuse(op)}
      BY <1>0, <2>6, ListAppend
    <3>2. QED BY <2>3, <2>4, <3>1
  <2>7. CASE \E content \in Contents(op, request.payload) :
                inbox' = Append(inbox, Inform(op, content, request))
    <3>1. PICK content \in Contents(op, request.payload) :
            inbox' = Append(inbox, Inform(op, content, request))
      BY <2>7
    <3>2. Range(inbox') = Range(inbox) \cup {Inform(op, content, request)}
      BY <1>0, <3>1, ListAppend
    <3>3. QED BY <2>3, <2>4, <3>1, <3>2
  <2>8. QED BY <1>2, <2>5, <2>6, <2>7, HandleStep, Zenon DEF request
<1>3. CASE Route
  <2>1. inbox # <<>> /\ inbox' = Tail(inbox) /\ UNCHANGED channels
    BY <1>3 DEF Route
  <2>2. Range(inbox') \subseteq Range(inbox)
    BY <1>0, <2>1, ListTail
  <2>3. QED BY <2>1, <2>2
<1>4. CASE \E op \in plan : PublishReady(op) \/ Republish(op)
  <2>1. UNCHANGED inbox
    BY <1>4 DEF PublishReady, Republish
  <2>2. QED BY <1>1, <1>4, <2>1
<1>5. CASE \E op \in plan : Handle(op)
  BY <1>2, <1>5
<1>6. CASE UNCHANGED bus
  BY <1>6 DEF bus
<1>7. QED
  BY <1>3, <1>4, <1>5, <1>6
  DEF Next, EndRouting, SkipSubtask, Expire, EndAdvance, Persist, PersistGivesUp, EndPersist,
      Crash, Restart, vars

\* A process that dies takes replies from the inbox with it, and adds nothing.
LEMMA CrashQueues ==
    ASSUME TypeInv, Crash
    PROVE  Range(inbox') \subseteq Range(inbox) /\ UNCHANGED channels
<1>1. PICK read \in 0..(IF loop = "routing" THEN Len(inbox) ELSE 0) :
        inbox' = SubSeq(inbox, read + 1, Len(inbox))
  BY DEF Crash
<1>2. Len(inbox) \in Nat /\ IsList(inbox)
  BY LenProperties DEF IsList, TypeInv, QueuesInv
<1>3. read \in 0..Len(inbox)
  BY <1>1, <1>2
<1>4. QED BY <1>1, <1>2, <1>3, ListSuffix DEF Crash

\* A process that is down only restarts, and one that lives stays up, but for a crash.
LEMMA Phases ==
    ASSUME [Next]_vars
    PROVE  \/ Crash
           \/ Restart
           \/ UNCHANGED vars
           \/ loop # "down" /\ loop' # "down"
BY DEF Next, Route, EndRouting, PublishReady, SkipSubtask, Expire, Republish, EndAdvance, Persist,
       PersistGivesUp, EndPersist, Handle, state

\* What a step of the process adds to the published and to the retries.
LEMMA PublishedSteps ==
    ASSUME TypeInv, [Next]_vars, loop # "down", loop' # "down", NEW op \in plan
    PROVE  /\ op \in published' => \/ op \in published \/ op \in failed'
                                  \/ PublishReady(op)
                                  \/ Republish(op)
           /\ op \in retry_at' => op \in retry_at \/ op \in published' \/ op \in stray'
           /\ op \in stray' => \/ op \in stray
                              \/ /\ op \notin published
                                 /\ \E reply \in Range(inbox) : reply.op = op
<1>1. CASE Route
  <2> DEFINE reply == Head(inbox)
  <2>1. CASE reply.op \in Pending /\ RouteRefuse(reply)
    <3>1. reply \in Range(inbox)
      BY <1>1, ListTail DEF Route, TypeInv, QueuesInv
    <3>2. /\ \A o \in plan : o \in published' => o \in published \/ o \in failed'
          /\ \A o \in plan : o \in retry_at' => o \in retry_at \/ o = reply.op
      BY <1>1, <2>1, RetryStep DEF Route, RouteRefuse
    <3>3. stray' = IF reply.op \in published THEN stray ELSE stray \cup {reply.op}
      BY <2>1 DEF RouteRefuse
    <3>4. published \subseteq published'
      BY <1>1, ResultsGrow
    <3> HIDE DEF reply
    <3>5. op \in retry_at' => op \in retry_at \/ op \in published' \/ op \in stray'
      BY <3>2, <3>3, <3>4
    <3>6. op \in stray' => op \in stray \/ (op \notin published /\ op = reply.op)
      BY <3>3
    <3>7. op \in published' => op \in published \/ op \in failed'
      BY <3>2, Zenon
    <3>8. QED BY <3>1, <3>5, <3>6, <3>7
  <2>2. CASE reply.op \in Pending /\ RouteInform(reply)
    BY <2>2 DEF RouteInform
  <2>3. CASE reply.op \notin Pending
    BY <1>1, <2>3 DEF Route
  <2>4. QED BY <1>1, <2>1, <2>2, <2>3 DEF Route
<1>2. ASSUME NEW o \in plan, SkipSubtask(o)
      PROVE  published' = published \cup {o} /\ failed' = failed \cup {o}
             /\ retry_at' \subseteq retry_at /\ UNCHANGED stray
  BY <1>2 DEF SkipSubtask, _fail_subtask, ghost
<1>3. ASSUME NEW o \in plan, Expire(o)
      PROVE  /\ op \in published' => op \in published \/ op \in failed'
             /\ op \in retry_at' => op \in retry_at \/ op \in published'
             /\ UNCHANGED stray
  <2>0. o \in Pending /\ _schedule_retry_or_fail(o) /\ UNCHANGED <<plan, results>>
    BY <1>3 DEF Expire
  <2>1. /\ op \in published' => op \in published \/ op \in failed'
        /\ op \in retry_at' => op \in retry_at \/ op = o
        /\ published \subseteq published'
    BY <2>0 DEF _schedule_retry_or_fail, _fail_subtask
  <2>2. o \in published /\ UNCHANGED stray
    BY <1>3 DEF Expire, ghost
  <2>3. QED BY <2>1, <2>2
<1>4. ASSUME NEW o \in plan, PublishReady(o) \/ Republish(o)
      PROVE  published' = published \cup {o} /\ retry_at' \subseteq retry_at /\ UNCHANGED stray
  BY <1>4 DEF PublishReady, Republish, _publish, ghost
<1>5. CASE Crash \/ Restart
  BY <1>5 DEF Crash, Restart
<1>6. CASE UNCHANGED <<published, retry_at, stray>>
  BY <1>6
<1>7. QED
  BY <1>1, <1>2, <1>3, <1>4, <1>5, <1>6
  DEF Next, EndRouting, EndAdvance, Persist, PersistGivesUp, EndPersist, Handle, vars, state, ghost

\* No subtask is published before its upstreams are resolved, but for the strays, and
\* there are none in the first process.
LEMMA StrayStep ==
    ASSUME TypeInv, TypeInv', StrayInv, [Next]_vars
    PROVE  StrayInv'
<1>1. CASE Crash
  BY <1>1 DEF Crash, StrayInv
<1>2. CASE Restart
  <2>1. /\ published' = DOMAIN results' /\ retry_at' = {} /\ stray' = {}
        /\ incarnation' = incarnation + 1
    BY <1>2 DEF Restart, TypeInv, QueuesInv
  <2>2. published' \cap Pending' = {}
    BY <2>1 DEF Pending
  <2>3. QED BY <2>1, <2>2 DEF StrayInv
<1>3. CASE UNCHANGED vars
  BY <1>3 DEF StrayInv, Pending, Frozen, DependsOn, vars, state, bus, ghost
<1>4. CASE loop # "down" /\ loop' # "down"
  <2>1. /\ plan' = plan /\ incarnation' = incarnation /\ failed \subseteq failed'
        /\ published \subseteq published' /\ stray \subseteq stray'
        /\ \A op \in DOMAIN results : op \in DOMAIN results'
    BY <1>4, ResultsGrow
  <2>2. published' \subseteq plan /\ retry_at' \subseteq plan /\ retry_at \subseteq Pending
        /\ stray' \subseteq stray \cup plan
    <3>1. stray' \subseteq stray \cup plan
      <4>1. CASE Route
        BY <1>4, <4>1 DEF Route, RouteInform, RouteRefuse, Pending
      <4>2. CASE UNCHANGED stray
        BY <4>2
      <4>3. QED
        BY <1>4, <4>1, <4>2
        DEF Next, EndRouting, PublishReady, SkipSubtask, Expire, Republish, EndAdvance, Persist,
            PersistGivesUp, EndPersist, Handle, Crash, Restart, vars, ghost
    <3>2. QED BY <2>1, <3>1 DEF TypeInv, TypeOK, Pending
  <2>3. ASSUME NEW op \in (published' \cap Pending') \ stray' PROVE Frozen(op)'
    <3>1. op \in Pending /\ op \notin stray /\ op \notin failed' /\ op \in plan
      BY <2>1, <2>2, <2>3 DEF Pending
    <3>2. Frozen(op)
      <4>1. CASE op \in published
        BY <3>1, <4>1 DEF StrayInv
      <4>2. CASE PublishReady(op)
        BY <4>2 DEF PublishReady, Ready, Frozen
      <4>3. CASE Republish(op)
        BY <3>1, <4>3 DEF Republish, StrayInv
      <4>4. QED BY <1>4, <2>3, <3>1, <4>1, <4>2, <4>3, PublishedSteps
    <3>3. QED BY <2>1, <3>2 DEF Frozen, DependsOn
  <2>4. retry_at' \ stray' \subseteq published'
    BY <1>4, <2>1, <2>2, PublishedSteps DEF StrayInv
  <2>5. ASSUME incarnation = 1
        PROVE  /\ stray' = {}
               /\ \A op \in plan : Range(channels'[op]) # {} => op \in published'
               /\ \A reply \in Range(inbox') : reply.op \in published'
    <3>1. /\ stray = {}
          /\ \A op \in plan : Range(channels[op]) # {} => op \in published
          /\ \A reply \in Range(inbox) : reply.op \in published
      BY <1>4, <2>5 DEF StrayInv
    <3>2. stray' = {}
      BY <1>4, <2>2, <3>1, PublishedSteps
    <3>3. ASSUME NEW op \in plan, NEW request \in Range(channels'[op])
          PROVE  op \in published'
      <4>1. CASE request \in Range(channels[op])
        BY <2>1, <3>1, <4>1
      <4>2. CASE PublishReady(op) \/ Republish(op)
        BY <4>2 DEF PublishReady, Republish, _publish
      <4>3. QED BY <1>4, <3>3, <4>1, <4>2, QueueSteps
    <3>4. ASSUME NEW reply \in Range(inbox') PROVE reply.op \in published'
      <4>1. CASE reply \in Range(inbox)
        BY <2>1, <3>1, <4>1
      <4>2. CASE \E op \in plan : \E request \in Range(channels[op]) : reply.op = op
        BY <2>1, <3>1, <4>2
      <4>3. ASSUME NEW op \in plan, NEW request \in Range(channels[op]),
                   \/ reply = Refuse(op)
                   \/ \E content \in Contents(op, request.payload) : reply = Inform(op, content, request)
            PROVE  reply.op = op
        BY <4>3 DEF Refuse, Inform
      <4>4. QED BY <1>4, <4>1, <4>2, <4>3, QueueSteps
    <3>5. QED BY <3>2, <3>3, <3>4
  <2>6. QED BY <2>1, <2>3, <2>4, <2>5 DEF StrayInv
<1>5. QED BY <1>1, <1>2, <1>3, <1>4, Phases

\* No step lets an answer be made from anything else than what its upstreams have.
LEMMA MadeStep ==
    ASSUME TypeInv, TypeInv', StrayInv, StrayInv', MadeInv, [Next]_vars
    PROVE  MadeInv'
<1>0. /\ \A op \in plan : \A request \in Range(channels[op]) : Held(op, request)
      /\ \A reply \in Range(inbox) : reply.op \in plan
                                  /\ (reply.performative = "inform" => Held(reply.op, reply))
      /\ incarnation \in Nat
  BY DEF MadeInv, TypeInv, TypeOK
<1>1. CASE Crash
  <2>1. incarnation' = incarnation /\ loop' = "down" /\ UNCHANGED plan /\ DOMAIN basis' = {}
    BY <1>1 DEF Crash
  <2>2. Range(inbox') \subseteq Range(inbox) /\ UNCHANGED channels
    BY <1>1, CrashQueues
  <2>3. QED BY <1>0, <2>1, <2>2 DEF MadeInv, Held
<1>2. CASE Restart
  <2>1. incarnation' = incarnation + 1 /\ loop' = "advancing"
        /\ UNCHANGED <<plan, channels, inbox, basis>> /\ loop = "down"
    BY <1>2 DEF Restart, bus
  <2>2. DOMAIN basis' = {}
    BY <2>1 DEF MadeInv
  <2>3. \A n \in Nat : n <= incarnation => n <= incarnation + 1 /\ n # incarnation + 1
    BY <1>0
  <2>4. incarnation + 1 \in Nat
    BY <1>0
  <2>5. QED BY <1>0, <2>1, <2>2, <2>3, <2>4 DEF MadeInv, Held
<1>3. CASE UNCHANGED vars
  <2>1. UNCHANGED <<plan, documents, results, failed, loop, channels, inbox, incarnation, basis, stray>>
    BY <1>3 DEF vars, state, bus, ghost
  <2>2. \A op, payload : Fresh(op, payload)' <=> Fresh(op, payload)
    BY <2>1 DEF Fresh, Frozen, DependsOn
  <2>3. QED BY <2>1, <2>2 DEF MadeInv, Held
<1>4. CASE loop # "down" /\ loop' # "down"
  <2>1. plan' = plan /\ incarnation' = incarnation /\ stray \subseteq stray'
    BY <1>4, ResultsGrow
  <2>2. ASSUME NEW op \in plan, NEW payload, Fresh(op, payload)
        PROVE  Fresh(op, payload)'
    BY <1>4, <2>2, FreshKept
  <2>3. ASSUME NEW op \in plan, NEW item, Held(op, item) PROVE Held(op, item)'
    BY <1>4, <2>1, <2>2, <2>3 DEF Held
  <2>4. ASSUME NEW op \in plan, NEW request \in Range(channels'[op])
        PROVE  Held(op, request)'
    <3>1. CASE request \in Range(channels[op])
      BY <1>0, <2>3, <3>1
    <3>2. CASE /\ PublishReady(op) \/ Republish(op)
               /\ request = [payload |-> build_payload(op, documents, results),
                             incarnation |-> incarnation]
      <4>1. request.payload = build_payload(op, documents, results)
            /\ request.incarnation = incarnation
        BY <3>2
      <4>2. op \notin stray => Frozen(op)
        <5>1. CASE PublishReady(op)
          BY <5>1 DEF PublishReady, Ready, Frozen
        <5>2. CASE Republish(op)
          BY <5>2 DEF Republish, StrayInv, TypeInv, TypeOK
        <5>3. QED BY <3>2, <5>1, <5>2
      <4>3. Held(op, request)
        BY <1>0, <4>1, <4>2 DEF Held, Fresh
      <4>4. QED BY <2>3, <4>3
    <3>3. QED BY <1>4, <2>4, <3>1, <3>2, QueueSteps
  <2>5. ASSUME NEW reply \in Range(inbox'), reply.performative = "inform"
        PROVE  Held(reply.op, reply)'
    <3>1. CASE reply \in Range(inbox)
      BY <1>0, <2>3, <2>5, <3>1
    <3>2. ASSUME NEW op \in plan, NEW request \in Range(channels[op]), reply = Refuse(op)
          PROVE  FALSE
      BY <2>5, <3>2 DEF Refuse
    <3>3. ASSUME NEW op \in plan, NEW request \in Range(channels[op]),
                 NEW content, reply = Inform(op, content, request)
          PROVE  Held(reply.op, reply)'
      <4>1. reply.op = op /\ reply.payload = request.payload
            /\ reply.incarnation = request.incarnation
        BY <3>3 DEF Inform
      <4>2. Held(op, request)
        BY <1>0
      <4>3. Held(op, reply)
        BY <4>1, <4>2 DEF Held
      <4>4. Held(op, reply)'
        BY <2>3, <4>3
      <4>5. QED BY <4>1, <4>4
    <3>4. QED BY <1>4, <2>5, <3>1, <3>2, <3>3, QueueSteps
  <2>6. ASSUME NEW op \in DOMAIN basis'
        PROVE  op \in plan /\ (op \notin stray' => Fresh(op, basis[op])')
    <3>1. \A o \in DOMAIN basis : o \in plan /\ (o \notin stray => Fresh(o, basis[o]))
      BY <1>4 DEF MadeInv
    <3>2. CASE UNCHANGED basis
      BY <2>1, <2>2, <2>6, <3>1, <3>2
    <3>3. CASE ~UNCHANGED basis
      <4>1. PICK reply \in Range(inbox) :
              /\ reply.performative = "inform" /\ reply.incarnation = incarnation
              /\ basis' = Put(basis, reply.op, reply.payload) /\ UNCHANGED stray
        <5>1. Route
          BY <1>4, <3>3
          DEF Next, EndRouting, PublishReady, SkipSubtask, Expire, Republish, EndAdvance, Persist,
              PersistGivesUp, EndPersist, Handle, Crash, Restart, ghost, vars
        <5>2. Head(inbox) \in Range(inbox)
          BY <5>1, ListTail DEF Route, TypeInv, QueuesInv
        <5>3. QED BY <3>3, <5>1, <5>2 DEF Route, RouteInform, RouteRefuse
      <4>2. reply.op \in plan /\ (reply.op \notin stray => Fresh(reply.op, reply.payload))
        BY <1>0, <1>4, <4>1 DEF Held
      <4>3. PICK payload : payload = basis'[op]
        OBVIOUS
      <4>4. op \in plan /\ (op \notin stray => Fresh(op, payload))
        BY <2>6, <3>1, <4>1, <4>2, <4>3 DEF Put
      <4>5. op \notin stray => Fresh(op, payload)'
        BY <2>2, <4>4
      <4>6. Fresh(op, basis[op])' <=> Fresh(op, payload)'
        BY <4>3 DEF Fresh
      <4>7. QED BY <2>1, <4>4, <4>5, <4>6
    <3>4. QED BY <3>2, <3>3
  <2>7. QED BY <1>0, <1>4, <2>1, <2>4, <2>5, <2>6 DEF MadeInv
<1>5. QED BY <1>1, <1>2, <1>3, <1>4, Phases

\* No answer that a task of this process counts was made from anything else than what
\* its upstreams have in the end: not over restarts that shuffle the documents, nor by
\* retries, nor by requests and answers that an earlier process left in the queues.  Only
\* a refusal can be such a leaving that lets a subtask be published too early, and only
\* after a restart.
THEOREM AnswersFromUpstreams == Spec => []MadeFromUpstreams
<1>1. Init => StrayInv /\ MadeInv
  BY EmptyList DEF Init, MadeInv, StrayInv, Held
<1>2. StrayInv /\ MadeInv => MadeFromUpstreams
  <2> SUFFICES ASSUME StrayInv, MadeInv PROVE MadeFromUpstreams
    OBVIOUS
  <2>1. \A op \in DOMAIN basis \ stray : basis[op] = build_payload(op, documents, results)
    BY DEF MadeInv, Fresh
  <2>2. stray # {} => incarnation > 1
    BY DEF StrayInv
  <2>3. QED BY <2>1, <2>2 DEF MadeFromUpstreams
<1>3. QED BY <1>1, <1>2, TypeInvCorrect, StrayStep, MadeStep, PTL DEF Spec

-----------------------------------------------------------------------------
(* Contents, rows, contents.                                                *)

\* Numbers of one digit are ordered as strings as they are as numbers.
LEMMA DigitsInOrder ==
    \A m, n \in Nat : m < n /\ n < Radix => AsString(m) < AsString(n)
<1> SUFFICES ASSUME NEW m \in Nat, NEW n \in Nat, m < n, n < Radix
             PROVE  AsString(m) < AsString(n)
  OBVIOUS
<1>1. Radix \in Nat /\ m < Radix
  BY RowsAssumption
<1>2. AsString(m) = m * (Radix + 1) /\ AsString(n) = n * (Radix + 1)
  BY <1>1 DEF AsString
<1>3. m * (Radix + 1) < n * (Radix + 1)
  BY <1>1
<1>4. QED BY <1>2, <1>3

\* As strings, too, a number does not precede itself, nor two each other.
LEMMA StringsOrdered == \A n \in Nat : AsString(n) \in Int
<1> SUFFICES ASSUME NEW n \in Nat PROVE AsString(n) \in Int
  OBVIOUS
<1>1. Radix \in Nat /\ Radix > 0
  BY RowsAssumption
<1>2. n \div Radix \in Int /\ n % Radix \in Int
  BY <1>1
<1> DEFINE a == n \div Radix
           b == n % Radix
<1>3. AsString(n) = IF n < Radix THEN n * (Radix + 1) ELSE a * (Radix + 1) + 1 + b
  BY DEF AsString
<1> HIDE DEF a, b
<1>4. a \in Int /\ b \in Int
  BY <1>2 DEF a, b
<1>5. QED BY <1>1, <1>3, <1>4

\* The chunks of a document come back as they were, as long as one digit numbers them.
THEOREM ChunksComeBack ==
    ASSUME NEW d \in Document, NEW n \in Nat, n <= Radix
    PROVE  content_from_chunk_rows(Members(stamp_chunks(d, n))) = stamp_chunks(d, n)
<1> DEFINE c == stamp_chunks(d, n)
           S == Range(c)
           q == content_from_chunk_rows(S)
           R == {p \in S \X S : ChunkBefore(p[1], p[2])}
<1>1. c = [i \in 1..n |-> c[i]] /\ DOMAIN c = 1..n
  BY DEF stamp_chunks
<1>2. \A i \in 1..n : c[i].document = d /\ c[i].index = i - 1
  BY DEF stamp_chunks
<1>3. d \in Nat /\ Radix \in Nat
  BY RowsAssumption
<1> HIDE DEF c
<1>4. \A r \in S : r.document \in Nat /\ r.index \in Nat
  BY <1>1, <1>2, <1>3 DEF Range
<1>5. Asymmetric(R)
  <2> SUFFICES ASSUME NEW r \in S, NEW t \in S, ChunkBefore(r, t), ChunkBefore(t, r) PROVE FALSE
    BY DEF Asymmetric
  <2>1. /\ AsString(r.document) \in Int /\ AsString(t.document) \in Int
        /\ AsString(r.index) \in Int /\ AsString(t.index) \in Int
    BY <1>4, StringsOrdered
  <2>2. QED BY <2>1 DEF ChunkBefore
<1>6. Ascends(c, R)
  <2> SUFFICES ASSUME NEW i \in 1..n, NEW j \in 1..n, i < j PROVE <<c[i], c[j]>> \in R
    BY <1>1 DEF Ascends
  <2>1. i - 1 \in Nat /\ j - 1 \in Nat /\ i - 1 < j - 1 /\ j - 1 < Radix
    BY <1>3
  <2>2. AsString(i - 1) < AsString(j - 1)
    BY <2>1, DigitsInOrder
  <2>3. ChunkBefore(c[i], c[j])
    BY <1>2, <2>2 DEF ChunkBefore
  <2>4. c[i] \in S /\ c[j] \in S
    BY <1>1 DEF Range
  <2>5. QED BY <2>3, <2>4
<1>7. c \in SetToSeqs(S) /\ IsFiniteSet(S) /\ Cardinality(S) = n
  BY <1>1, <1>5, <1>6, AscendingIsInjective, ListedOnce
<1>8. \A i, j \in DOMAIN c : i < j => ChunkBefore(c[i], c[j])
  BY <1>6 DEF Ascends
<1>9. q \in SetToSeqs(S) /\ \A i, j \in DOMAIN q : i < j => ChunkBefore(q[i], q[j])
  BY <1>7, <1>8 DEF content_from_chunk_rows, InOrder
<1> HIDE DEF q, S
<1>10. q \in [1..n -> S] /\ Range(q) = S
  BY <1>7, <1>9, ListsOf
<1>11. Ascends(q, R)
  BY <1>9, <1>10 DEF Ascends
<1>12. q = c
  <2>1. DOMAIN q = 1..n /\ q = [i \in 1..n |-> q[i]] /\ Range(c) = S
    BY <1>10 DEF S
  <2> HIDE DEF R
  <2>2. QED BY <1>1, <1>5, <1>6, <1>10, <1>11, <2>1, SortedOnce
<1>13. Members(c) = S
  BY DEF S, Members, Range
<1>14. QED BY <1>12, <1>13 DEF q, c

\* Rows numbered within their task are listed by their numbers.
LEMMA NumbersInOrder ==
    ASSUME NEW n \in Nat, n <= Radix, NEW s, s = [i \in 1..n |-> s[i]],
           \A i \in 1..n : s[i].index = i - 1
    PROVE  InOrder(Range(s), NumberBefore) = s
<1> DEFINE S == Range(s)
           q == InOrder(S, NumberBefore)
           R == {p \in S \X S : NumberBefore(p[1], p[2])}
<1>1. DOMAIN s = 1..n /\ Radix \in Nat
  BY RowsAssumption
<1>2. \A r \in S : r.index \in Nat
  BY <1>1 DEF Range
<1>3. Asymmetric(R)
  <2> SUFFICES ASSUME NEW r \in S, NEW t \in S, NumberBefore(r, t), NumberBefore(t, r) PROVE FALSE
    BY DEF Asymmetric
  <2>1. AsString(r.index) \in Int /\ AsString(t.index) \in Int
    BY <1>2, StringsOrdered
  <2>2. QED BY <2>1 DEF NumberBefore
<1>4. Ascends(s, R)
  <2> SUFFICES ASSUME NEW i \in 1..n, NEW j \in 1..n, i < j PROVE <<s[i], s[j]>> \in R
    BY <1>1 DEF Ascends
  <2>1. i - 1 \in Nat /\ j - 1 \in Nat /\ i - 1 < j - 1 /\ j - 1 < Radix
    BY <1>1
  <2>2. AsString(i - 1) < AsString(j - 1)
    BY <2>1, DigitsInOrder
  <2>3. NumberBefore(s[i], s[j])
    BY <2>2 DEF NumberBefore
  <2>4. s[i] \in S /\ s[j] \in S
    BY <1>1 DEF Range
  <2>5. QED BY <2>3, <2>4
<1>5. s \in SetToSeqs(S) /\ IsFiniteSet(S) /\ Cardinality(S) = n
  BY <1>1, <1>3, <1>4, AscendingIsInjective, ListedOnce
<1>6. \A i, j \in DOMAIN s : i < j => NumberBefore(s[i], s[j])
  BY <1>4 DEF Ascends
<1>7. q \in SetToSeqs(S) /\ \A i, j \in DOMAIN q : i < j => NumberBefore(q[i], q[j])
  BY <1>5, <1>6 DEF InOrder
<1> HIDE DEF q, S
<1>8. q \in [1..n -> S] /\ Range(q) = S
  BY <1>5, <1>7, ListsOf
<1>9. Ascends(q, R)
  BY <1>7, <1>8 DEF Ascends
<1>10. q = s
  <2>1. DOMAIN q = 1..n /\ q = [i \in 1..n |-> q[i]] /\ Range(s) = S
    BY <1>8 DEF S
  <2> HIDE DEF R
  <2>2. QED BY <1>1, <1>3, <1>4, <1>8, <1>9, <2>1, SortedOnce
<1>11. QED BY <1>10 DEF q, S

\* So lists whose places are numbered, terms and citations, come back as they were.
THEOREM NumberedComeBack ==
    ASSUME NEW n \in Nat, n <= Radix, NEW content, content = [i \in 1..n |-> content[i]]
    PROVE  /\ content_from_citation_rows(Numbered(content)) = content
           /\ content_from_term_rows(term_rows(content)) = content
<1> DEFINE rows == [i \in 1..n |-> [index |-> i - 1, value |-> content[i]]]
           terms == [i \in 1..n |-> [index |-> i - 1, link |-> content[i]]]
<1>1. DOMAIN content = 1..n
  OBVIOUS
<1>2. Range(rows) = Numbered(content)
  BY <1>1 DEF Range, Numbered
<1>3. Range(terms) = term_rows(content)
  <2>1. term_rows(content) = {[index |-> row.index, link |-> row.value] : row \in Range(rows)}
    BY <1>2 DEF term_rows
  <2>2. term_rows(content) = {[index |-> rows[i].index, link |-> rows[i].value] : i \in 1..n}
    <3>1. DOMAIN rows = 1..n
      OBVIOUS
    <3> HIDE DEF rows
    <3>2. Range(rows) = {rows[i] : i \in 1..n}
      BY <3>1 DEF Range
    <3>3. QED BY <2>1, <3>2
  <2>3. Range(terms) = {[index |-> i - 1, link |-> content[i]] : i \in 1..n}
    BY DEF Range
  <2>4. QED BY <2>2, <2>3
<1>4. InOrder(Numbered(content), NumberBefore) = rows
  <2>1. rows = [i \in 1..n |-> rows[i]] /\ \A i \in 1..n : rows[i].index = i - 1
    OBVIOUS
  <2> HIDE DEF rows
  <2>2. QED BY <1>2, <2>1, NumbersInOrder
<1>5. InOrder(term_rows(content), NumberBefore) = terms
  <2>1. terms = [i \in 1..n |-> terms[i]] /\ \A i \in 1..n : terms[i].index = i - 1
    OBVIOUS
  <2> HIDE DEF terms
  <2>2. QED BY <1>3, <2>1, NumbersInOrder
<1>6. content_from_citation_rows(Numbered(content)) = [i \in 1..n |-> content[i]]
  <2> DEFINE L == InOrder(Numbered(content), NumberBefore)
  <2>1. content_from_citation_rows(Numbered(content)) = [i \in DOMAIN L |-> L[i].value]
    BY Zenon DEF content_from_citation_rows
  <2>2. L = rows
    BY <1>4
  <2> HIDE DEF L
  <2>3. QED BY <2>1, <2>2
<1>7. content_from_term_rows(term_rows(content)) = [i \in 1..n |-> content[i]]
  <2> DEFINE L == InOrder(term_rows(content), NumberBefore)
  <2>1. content_from_term_rows(term_rows(content)) = [i \in DOMAIN L |-> L[i].link]
    BY Zenon DEF content_from_term_rows
  <2>2. L = terms
    BY <1>5
  <2> HIDE DEF L
  <2>3. QED BY <2>1, <2>2
<1>8. QED BY <1>6, <1>7

\* Numbers in their order are what ordering the set of them yields.
LEMMA AscendingNumbers ==
    ASSUME NEW n \in Nat, NEW s \in [1..n -> Nat], \A i, j \in 1..n : i < j => s[i] < s[j]
    PROVE  InOrder(Range(s), <) = s
<1> DEFINE S == Range(s)
           q == InOrder(S, <)
           R == {p \in S \X S : p[1] < p[2]}
<1>1. DOMAIN s = 1..n /\ s = [i \in 1..n |-> s[i]] /\ S \subseteq Nat
  BY DEF Range
<1>2. Asymmetric(R)
  <2> SUFFICES ASSUME NEW r \in S, NEW t \in S, r < t, t < r PROVE FALSE
    BY DEF Asymmetric
  <2>1. r \in Nat /\ t \in Nat
    BY <1>1
  <2>2. QED BY <2>1
<1>3. Ascends(s, R)
  <2> SUFFICES ASSUME NEW i \in 1..n, NEW j \in 1..n, i < j PROVE <<s[i], s[j]>> \in R
    BY <1>1 DEF Ascends
  <2>1. s[i] \in S /\ s[j] \in S
    BY <1>1 DEF Range
  <2>2. QED BY <2>1
<1>4. s \in SetToSeqs(S) /\ IsFiniteSet(S) /\ Cardinality(S) = n
  BY <1>1, <1>2, <1>3, AscendingIsInjective, ListedOnce
<1>5. \A i, j \in DOMAIN s : i < j => s[i] < s[j]
  BY <1>1
<1>6. q \in SetToSeqs(S) /\ \A i, j \in DOMAIN q : i < j => q[i] < q[j]
  BY <1>4, <1>5 DEF InOrder
<1> HIDE DEF q, S
<1>7. q \in [1..n -> S] /\ Range(q) = S
  BY <1>4, <1>6, ListsOf
<1>8. Ascends(q, R)
  BY <1>6, <1>7 DEF Ascends
<1>9. q = s
  <2>1. DOMAIN q = 1..n /\ q = [i \in 1..n |-> q[i]] /\ Range(s) = S
    BY <1>7 DEF S
  <2> HIDE DEF R
  <2>2. QED BY <1>1, <1>2, <1>3, <1>7, <1>8, <2>1, SortedOnce
<1>10. QED BY <1>9 DEF q, S

\* A summary comes back with its sections in their order, whichever of the three it has
\* (`places` tells which) and whatever chunks it is of.
THEOREM SummaryComesBack ==
    ASSUME NEW ids, NEW n \in Nat, NEW places \in [1..n -> 1..3],
           \A i, j \in 1..n : i < j => places[i] < places[j],
           NEW content,
           content = [sections |-> [i \in 1..n |-> AllSections[places[i]]],
                      source_chunk_ids |-> ids]
    PROVE  content_from_summary_row(summary_row(content)) = content
<1> DEFINE row == summary_row(content)
           columns == <<"introduction", "key_points", "conclusions">>
           has == {k \in DOMAIN columns : \E cell \in row.columns : cell.column = columns[k]}
           filled == InOrder(has, <)
           Section(c) == CHOOSE section \in DOMAIN _SECTION_TO_COLUMN :
                             _SECTION_TO_COLUMN[section] = c
<1>1. DOMAIN columns = 1..3 /\ 1..3 = {1, 2, 3}
  OBVIOUS
<1>2. \A k \in {1, 2, 3} : _SECTION_TO_COLUMN[AllSections[k]] = columns[k]
  BY DEF _SECTION_TO_COLUMN, AllSections
<1>3. \A k, m \in {1, 2, 3} : columns[k] = columns[m] => k = m
  OBVIOUS
<1>4. \A k \in {1, 2, 3} : Section(columns[k]) = AllSections[k]
  BY DEF _SECTION_TO_COLUMN, AllSections
<1>5. /\ DOMAIN content.sections = 1..n
      /\ \A i \in 1..n : content.sections[i] = AllSections[places[i]]
      /\ row.source_chunk_ids = ids
  BY DEF summary_row
<1> HIDE DEF columns, Section
<1>6. row.columns = {[column |-> _SECTION_TO_COLUMN[content.sections[i]],
                      text |-> content.sections[i]] : i \in 1..n}
  BY <1>5 DEF summary_row
<1>7. \A i \in 1..n : places[i] \in {1, 2, 3}
                    /\ _SECTION_TO_COLUMN[content.sections[i]] = columns[places[i]]
  BY <1>1, <1>2, <1>5
<1>8. has = Range(places)
  <2>1. ASSUME NEW k \in has PROVE k \in Range(places)
    <3>1. PICK i \in 1..n : _SECTION_TO_COLUMN[content.sections[i]] = columns[k]
      BY <1>6, <2>1
    <3>2. places[i] = k
      BY <1>1, <1>3, <1>7, <3>1
    <3>3. QED BY <3>2 DEF Range
  <2>2. ASSUME NEW k \in Range(places) PROVE k \in has
    <3>1. PICK i \in 1..n : k = places[i]
      BY <2>2 DEF Range
    <3> DEFINE cell == [column |-> _SECTION_TO_COLUMN[content.sections[i]],
                        text |-> content.sections[i]]
    <3>2. cell \in row.columns
      BY <1>6
    <3>3. cell.column = columns[k] /\ k \in DOMAIN columns
      BY <1>1, <1>7, <3>1
    <3>4. QED BY <3>2, <3>3
  <2>3. QED BY <2>1, <2>2
<1>9. filled = places
  <2>1. places \in [1..n -> Nat]
    OBVIOUS
  <2>2. InOrder(Range(places), <) = places
    BY <2>1, AscendingNumbers
  <2> HIDE DEF has
  <2>3. QED BY <1>8, <2>2
<1>10. content_from_summary_row(row) = [sections |-> [i \in DOMAIN filled |-> Section(columns[filled[i]])],
                                       source_chunk_ids |-> row.source_chunk_ids]
  BY Zenon DEF content_from_summary_row, Section, columns
<1> HIDE DEF filled, row
<1>11. [i \in DOMAIN filled |-> Section(columns[filled[i]])] = content.sections
  <2>1. DOMAIN filled = 1..n /\ \A i \in 1..n : Section(columns[filled[i]]) = AllSections[places[i]]
    BY <1>4, <1>7, <1>9
  <2>2. QED BY <1>5, <2>1
<1>12. QED BY <1>5, <1>10, <1>11 DEF row

-----------------------------------------------------------------------------
(* What the tables hold.                                                    *)

\* The documents that F1, and F2, ingest.
Sources(op) == {d \in Document : Kind[d] \in IF op = "F1" THEN {"audio"} ELSE {"pdf", "image"}}

\* What can be said of every answer.
Answer(op, content) ==
    /\ op \in {"F1", "F2"} => \E d \in Sources(op) : content = stamp_chunks(d, ChunkCount[d])
    /\ op = "F3" => content = [sections |-> AllSections, source_chunk_ids |-> content.source_chunk_ids]
    /\ op \in {"F5", "F6"} => \E n \in 0..MaxItems : content = [i \in 1..n |-> content[i]]

\* The rows that a content becomes.
ContentRows(op, content) ==
    CASE op \in {"F1", "F2"} -> Members(content)
      [] op = "F3" -> {summary_row(content)}
      [] op = "F4" -> {content}
      [] op = "F5" -> term_rows(content)
      [] op = "F6" -> Numbered(content)

\* Requests name documents to ingest, and only answers are received and written.
AnswersInv ==
    /\ \A op \in plan \cap {"F1", "F2"} : \A request \in Range(channels[op]) :
          \A i \in DOMAIN request.payload : request.payload[i] \in Sources(op)
    /\ \A reply \in Range(inbox) : reply.performative = "inform" => Answer(reply.op, reply.content)
    /\ \A job \in Range(jobs) : Answer(job.op, job.content)
    /\ \A op \in DOMAIN committed : Answer(op, committed[op])

\* The tables hold the rows of what was last committed, each chunk those of a document,
\* and terms link to chunks that are there.
RowsInv ==
    /\ tables = [chunks |-> tables.chunks, summaries |-> tables.summaries, terms |-> tables.terms,
                 quizzes |-> tables.quizzes, citations |-> tables.citations]
    /\ \A op \in Operation :
          RowsOf(tables, op) = IF op \in DOMAIN committed THEN ContentRows(op, committed[op]) ELSE {}
    /\ \A row \in tables.chunks : row.document \in Document /\ row.source = _SourceType[Kind[row.document]]
    /\ \A term \in tables.terms : term.link \in {ChunkId(row) : row \in tables.chunks} \cup {NoChunk}

\* Nothing was written of `op`, or nothing that left a row.
NoRowsOf(op) == op \in DOMAIN committed => committed[op] = <<>>

\* The first job of all, written and about to be written again: before any term could
\* link to its chunks.
Repeated(job) ==
    /\ job.op \in DOMAIN committed /\ committed[job.op] = job.content
    /\ \A term \in tables.terms, chunk \in Members(job.content) : term.link # ChunkId(chunk)

\* Chunks are written of one document only, by one job: a result is written once, and
\* again only while its commit was not reported.
OnceInv ==
    /\ \A job \in Range(jobs) : job.op \in DOMAIN results
    /\ \A i, j \in DOMAIN jobs : jobs[i].op = jobs[j].op => i = j
    /\ loop = "down" => jobs = <<>>
    /\ loop # "down" => \A op \in Pending \cap {"F1", "F2"} : NoRowsOf(op)
    /\ \A i \in DOMAIN jobs : jobs[i].op \in {"F1", "F2"} =>
          NoRowsOf(jobs[i].op) \/ (i = 1 /\ Repeated(jobs[1]))

StoredInv == AnswersInv /\ RowsInv /\ OnceInv

\* The request of an ingestion names a document it can ingest, or none.
LEMMA PayloadSuits ==
    ASSUME documents \in SetToSeqs(Document), NEW op \in {"F1", "F2"},
           NEW payload, payload = build_payload(op, documents, results)
    PROVE  \A i \in DOMAIN payload : payload[i] \in Sources(op)
<1> DEFINE kinds == IF op = "F1" THEN {"audio"} ELSE {"pdf", "image"}
           suitable == {i \in DOMAIN documents : Kind[documents[i]] \in kinds}
<1>1. payload = IF suitable = {} THEN <<>> ELSE <<documents[Min(suitable)]>>
  BY DEF build_payload, _first_document
<1>2. CASE suitable = {}
  BY <1>1, <1>2
<1>3. CASE suitable # {}
  <2>1. documents \in [1..Cardinality(Document) -> Document]
    BY DEF SetToSeqs
  <2>2. suitable \in SUBSET Nat
    BY <2>1
  <2>3. Min(suitable) \in suitable
    <3> HIDE DEF suitable
    <3>1. \E n \in suitable : \A m \in suitable : n <= m
      BY <1>3, <2>2, SmallestMember
    <3>2. QED BY <3>1 DEF Min
  <2>4. documents[Min(suitable)] \in Sources(op)
    BY <2>1, <2>3 DEF Sources
  <2> HIDE DEF suitable
  <2>5. QED BY <1>1, <1>3, <2>4
<1>4. QED BY <1>2, <1>3

\* What an agent answers is an answer.
LEMMA AnswerMade ==
    ASSUME NEW op \in Operation, NEW payload, NEW content \in Contents(op, payload),
           op \in {"F1", "F2"} => \A i \in DOMAIN payload : payload[i] \in Sources(op)
    PROVE  Answer(op, content)
<1>1. CASE op \in {"F1", "F2"}
  <2>1. PICK i \in DOMAIN payload : content = stamp_chunks(payload[i], ChunkCount[payload[i]])
    BY <1>1 DEF Contents
  <2>2. QED BY <1>1, <2>1 DEF Answer
<1>2. CASE op = "F3"
  <2>1. content = [sections |-> AllSections,
                   source_chunk_ids |-> [i \in DOMAIN payload |-> ChunkId(payload[i])]]
    BY <1>2 DEF Contents
  <2>2. QED BY <1>2, <2>1 DEF Answer
<1>3. CASE op = "F4"
  BY <1>3 DEF Answer
<1>4. CASE op = "F5"
  <2>1. content \in Lists({ChunkId(chunk) : chunk \in Members(payload)})
    BY <1>4 DEF Contents
  <2>2. QED BY <1>4, <2>1 DEF Answer, Lists
<1>5. CASE op = "F6"
  <2>1. content \in Lists({"paper"})
    BY <1>5 DEF Contents
  <2>2. QED BY <1>5, <2>1 DEF Answer, Lists
<1>6. QED BY <1>1, <1>2, <1>3, <1>4, <1>5 DEF Operation

\* Only answers to requests for what is there are received, kept and written.
LEMMA AnswersStep ==
    ASSUME TypeInv, AnswersInv, [Next]_vars
    PROVE  AnswersInv'
<1> USE DEF AnswersInv
<1>0. /\ plan \subseteq Operation /\ IsList(inbox) /\ IsList(jobs)
      /\ documents \in SetToSeqs(Document)
      /\ channels = [op \in plan |-> channels[op]] /\ \A op \in plan : IsList(channels[op])
  BY DEF TypeInv, QueuesInv, TypeOK
<1>1. CASE Route
  <2>1. Head(inbox) \in Range(inbox) /\ Range(Tail(inbox)) \subseteq Range(inbox)
    BY <1>0, <1>1, ListTail DEF Route
  <2>2. Head(inbox).performative = "inform" => Answer(Head(inbox).op, Head(inbox).content)
    BY <2>1
  <2>3. inbox' = Tail(inbox) /\ UNCHANGED <<plan, channels, committed>>
    BY <1>1 DEF Route
  <2>4. CASE UNCHANGED jobs
    BY <2>1, <2>3, <2>4
  <2>5. CASE ~UNCHANGED jobs
    <3> DEFINE job == [op |-> Head(inbox).op, content |-> Head(inbox).content]
    <3>1. jobs' = Append(jobs, job) /\ Head(inbox).performative = "inform"
      BY <1>1, <2>5 DEF Route, RouteInform, RouteRefuse
    <3>2. Answer(job.op, job.content)
      BY <2>2, <3>1
    <3> HIDE DEF job
    <3>3. Range(jobs') = Range(jobs) \cup {job}
      BY <1>0, <3>1, ListAppend
    <3>4. QED BY <2>1, <2>3, <3>2, <3>3
  <2>6. QED BY <2>4, <2>5
<1>2. ASSUME NEW op \in plan, PublishReady(op) \/ Republish(op) PROVE AnswersInv'
  <2>1. loop # "down" /\ loop' # "down" /\ UNCHANGED <<plan, inbox, jobs, committed>>
    BY <1>2 DEF PublishReady, Republish, ghost
  <2>2. ASSUME NEW o \in plan \cap {"F1", "F2"}, NEW request \in Range(channels'[o]),
               NEW i \in DOMAIN request.payload
        PROVE  request.payload[i] \in Sources(o)
    <3>1. CASE request \in Range(channels[o])
      BY <3>1
    <3>2. CASE request = [payload |-> build_payload(o, documents, results),
                          incarnation |-> incarnation]
      <4>1. request.payload = build_payload(o, documents, results)
        BY <3>2
      <4>2. QED BY <1>0, <2>2, <4>1, PayloadSuits
    <3>3. QED BY <2>1, <2>2, <3>1, <3>2, QueueSteps
  <2>3. QED BY <2>1, <2>2
<1>3. CASE Persist
  <2>1. Head(jobs) \in Range(jobs) /\ Range(Tail(jobs)) \subseteq Range(jobs)
    BY <1>0, <1>3, ListTail DEF Persist
  <2>2. jobs' \in {jobs, Tail(jobs)} /\ UNCHANGED <<plan, channels, inbox>>
        /\ committed' = Put(committed, Head(jobs).op, Head(jobs).content)
    BY <1>3 DEF Persist, state, bus
  <2>3. \A op \in DOMAIN committed' : Answer(op, committed'[op])
    BY <2>1, <2>2 DEF Put
  <2>4. QED BY <2>1, <2>2, <2>3
<1>4. CASE PersistGivesUp
  <2>1. Range(Tail(jobs)) \subseteq Range(jobs)
    BY <1>0, <1>4, ListTail DEF PersistGivesUp
  <2>2. jobs' = Tail(jobs) /\ UNCHANGED <<plan, channels, inbox, committed>>
    BY <1>4 DEF PersistGivesUp, state, bus
  <2>3. QED BY <2>1, <2>2
<1>5. ASSUME NEW op \in plan, Handle(op) PROVE AnswersInv'
  <2>1. channels' = [channels EXCEPT ![op] = Tail(@)] /\ channels[op] # <<>>
        /\ UNCHANGED <<plan, jobs, committed>> /\ loop # "down" /\ loop' # "down"
    BY <1>5 DEF Handle, state
  <2>2. Range(Tail(channels[op])) \subseteq Range(channels[op])
    BY <1>0, <2>1, ListTail
  <2>3. channels'[op] = Tail(channels[op]) /\ \A o \in plan : o # op => channels'[o] = channels[o]
    BY <1>0, <2>1
  <2>4. ASSUME NEW reply \in Range(inbox'), reply.performative = "inform"
        PROVE  Answer(reply.op, reply.content)
    <3>1. CASE reply \in Range(inbox)
      BY <2>4, <3>1
    <3>2. ASSUME NEW o \in plan, NEW request \in Range(channels[o]), reply = Refuse(o)
          PROVE  FALSE
      BY <2>4, <3>2 DEF Refuse
    <3>3. ASSUME NEW o \in plan, NEW request \in Range(channels[o]),
                 NEW content \in Contents(o, request.payload), reply = Inform(o, content, request)
          PROVE  Answer(reply.op, reply.content)
      <4>1. reply.op = o /\ reply.content = content
        BY <3>3 DEF Inform
      <4>2. o \in {"F1", "F2"} => \A i \in DOMAIN request.payload : request.payload[i] \in Sources(o)
        OBVIOUS
      <4>3. Answer(o, content)
        BY <1>0, <4>2, AnswerMade
      <4>4. QED BY <4>1, <4>3
    <3>4. QED BY <2>1, <2>4, <3>1, <3>2, <3>3, QueueSteps
  <2>5. QED BY <2>1, <2>2, <2>3, <2>4
<1>6. CASE Crash
  <2>1. Range(inbox') \subseteq Range(inbox) /\ UNCHANGED channels
    BY <1>6, CrashQueues
  <2>2. jobs' = <<>> /\ UNCHANGED <<plan, committed>>
    BY <1>6 DEF Crash
  <2>3. QED BY <2>1, <2>2, EmptyList
<1>7. CASE UNCHANGED <<plan, channels, inbox, jobs, committed>>
  BY <1>7
<1>8. QED
  BY <1>1, <1>2, <1>3, <1>4, <1>5, <1>6, <1>7
  DEF Next, EndRouting, SkipSubtask, Expire, EndAdvance, EndPersist, Restart, vars, state, bus,
      ghost

\* The chunks of a document are stored, and found again, as those of the operation that
\* ingests it.
LEMMA SourceFound ==
    ASSUME NEW d \in Document, NEW op \in {"F1", "F2"}
    PROVE  _SOURCE_TYPE_TO_OPERATION[_SourceType[Kind[d]]] = op <=> d \in Sources(op)
<1>1. Kind[d] \in {"audio", "pdf", "image"}
  BY RowsAssumption DEF DocumentType
<1>2. QED BY <1>1 DEF Sources, _SOURCE_TYPE_TO_OPERATION, _SourceType

\* Every stored chunk is one of a document, of its document's source.
ChunkRows(rows) ==
    \A row \in rows : row.document \in Document /\ row.source = _SourceType[Kind[row.document]]

\* The chunks of an answer are such rows.
LEMMA AnswerRows ==
    ASSUME NEW op \in {"F1", "F2"}, NEW content, Answer(op, content)
    PROVE  /\ ChunkRows(Members(content))
           /\ \E d \in Sources(op) : \A row \in Members(content) : row.document = d
<1>1. PICK d \in Sources(op) : content = stamp_chunks(d, ChunkCount[d])
  BY DEF Answer
<1>2. \A row \in Members(content) : row.document = d /\ row.source = _SourceType[Kind[d]]
  BY <1>1 DEF Members, stamp_chunks
<1>3. d \in Document
  BY DEF Sources
<1>4. QED BY <1>2, <1>3 DEF ChunkRows

\* Saving the chunks of an answer replaces no others and unlinks no term, if no others of
\* its operation are there and no term links to them.
LEMMA ChunksAdded ==
    ASSUME NEW T, NEW op \in {"F1", "F2"}, NEW content, Answer(op, content), ChunkRows(T.chunks),
           bucket_chunks_by_operation(T, op) \subseteq Members(content),
           \A term \in T.terms : /\ term = [index |-> term.index, link |-> term.link]
                                 /\ \A chunk \in Members(content) : term.link # ChunkId(chunk)
    PROVE  save_chunks(T, content) = [T EXCEPT !.chunks = @ \cup Members(content), !.terms = @]
<1> DEFINE old == {row \in T.chunks : \E new \in Members(content) : row.document = new.document}
           gone == {ChunkId(row) : row \in old}
<1>1. PICK d \in Sources(op) : \A row \in Members(content) : row.document = d
  BY AnswerRows
<1>2. old \subseteq Members(content)
  <2> SUFFICES ASSUME NEW row \in old PROVE row \in Members(content)
    OBVIOUS
  <2>1. row \in T.chunks /\ row.document = d
    BY <1>1
  <2>2. _SOURCE_TYPE_TO_OPERATION[row.source] = op
    BY <2>1, SourceFound DEF ChunkRows
  <2>3. QED BY <2>1, <2>2 DEF bucket_chunks_by_operation
<1>3. (T.chunks \ old) \cup Members(content) = T.chunks \cup Members(content)
  BY <1>2
<1>4. \A term \in T.terms : term.link \notin gone
  BY <1>2
<1>5. Unlink(T.terms, gone) = T.terms
  <2> HIDE DEF gone
  <2>1. \A term \in T.terms : [term EXCEPT !.link = IF @ \in gone THEN NoChunk ELSE @] = term
    BY <1>4
  <2>2. QED BY <2>1 DEF Unlink
<1>6. save_chunks(T, content) = [T EXCEPT !.chunks = (@ \ old) \cup Members(content),
                                           !.terms = Unlink(@, gone)]
  BY Zenon DEF save_chunks
<1> HIDE DEF old, gone
<1>7. QED BY <1>3, <1>5, <1>6

\* The first job of the queue is the one the invariant speaks of.
LEMMA FirstJob ==
    ASSUME IsList(jobs), jobs # <<>>
    PROVE  /\ Head(jobs) = jobs[1] /\ 1 \in DOMAIN jobs /\ jobs[1] \in Range(jobs)
           /\ DOMAIN Tail(jobs) = {i \in Nat : i + 1 \in DOMAIN jobs /\ i # 0}
           /\ \A i \in DOMAIN Tail(jobs) : Tail(jobs)[i] = jobs[i + 1]
<1>1. jobs \in Seq(Range(jobs))
  BY DEF IsList
<1>2. Len(jobs) \in Nat /\ DOMAIN jobs = 1..Len(jobs) /\ Len(jobs) # 0
  BY <1>1, LenProperties, EmptySeq
<1>3. Head(jobs) = jobs[1] /\ 1 \in DOMAIN jobs
  BY <1>1, <1>2, HeadTailProperties
<1>4. Len(Tail(jobs)) = Len(jobs) - 1 /\ \A i \in 1..Len(Tail(jobs)) : Tail(jobs)[i] = jobs[i + 1]
  BY <1>1, HeadTailProperties
<1>5. DOMAIN Tail(jobs) = 1..(Len(jobs) - 1)
  BY <1>1, <1>4, HeadTailProperties, LenProperties
<1>6. QED BY <1>2, <1>3, <1>4, <1>5 DEF Range

\* What the first job has to write of chunks has no others of its operation in its way,
\* and no term links to it.
LEMMA ChunksFree ==
    ASSUME TypeInv, StoredInv, NEW job, job = jobs[1], jobs # <<>>, job.op \in {"F1", "F2"}
    PROVE  /\ bucket_chunks_by_operation(tables, job.op) \subseteq Members(job.content)
           /\ \A term \in tables.terms : \A chunk \in Members(job.content) :
                 term.link # ChunkId(chunk)
<1>1. IsList(jobs) /\ job \in Range(jobs) /\ 1 \in DOMAIN jobs /\ job.op \in Operation
  BY FirstJob DEF TypeInv, QueuesInv, TypeOK
<1>2. Answer(job.op, job.content)
  BY <1>1 DEF StoredInv, AnswersInv
<1>3. bucket_chunks_by_operation(tables, job.op)
      = IF job.op \in DOMAIN committed THEN Members(committed[job.op]) ELSE {}
  BY <1>1 DEF StoredInv, RowsInv, RowsOf, ContentRows
<1>4. CASE NoRowsOf(job.op)
  <2>1. bucket_chunks_by_operation(tables, job.op) = {}
    BY <1>3, <1>4 DEF NoRowsOf, Members
  <2>2. PICK d \in Sources(job.op) : \A row \in Members(job.content) : row.document = d
    BY <1>2, AnswerRows
  <2>3. ASSUME NEW row \in tables.chunks, NEW chunk \in Members(job.content)
        PROVE  ChunkId(row) # ChunkId(chunk)
    <3>1. row.document \in Document /\ row.source = _SourceType[Kind[row.document]]
      BY DEF StoredInv, RowsInv
    <3>2. _SOURCE_TYPE_TO_OPERATION[row.source] # job.op
      BY <2>1 DEF bucket_chunks_by_operation
    <3>3. row.document \notin Sources(job.op)
      BY <3>1, <3>2, SourceFound
    <3>4. row.document # chunk.document
      BY <2>2, <3>3
    <3>5. QED BY <3>4 DEF ChunkId
  <2>4. \A chunk \in Members(job.content) : ChunkId(chunk) # NoChunk
    BY DEF ChunkId, NoChunk
  <2>5. \A term \in tables.terms : term.link \in {ChunkId(row) : row \in tables.chunks} \cup {NoChunk}
    BY DEF StoredInv, RowsInv
  <2>6. QED BY <2>1, <2>3, <2>4, <2>5
<1>5. CASE Repeated(job)
  BY <1>3, <1>5 DEF Repeated
<1>6. QED BY <1>1, <1>4, <1>5 DEF StoredInv, OnceInv

\* The terms are records of a place and a link.
LEMMA TermRows ==
    ASSUME RowsInv
    PROVE  \A term \in tables.terms : term = [index |-> term.index, link |-> term.link]
<1>1. tables.terms = RowsOf(tables, "F5") /\ "F5" \in Operation
  BY DEF RowsOf, Operation
<1>2. tables.terms = IF "F5" \in DOMAIN committed THEN term_rows(committed["F5"]) ELSE {}
  BY <1>1 DEF RowsInv, ContentRows
<1>3. QED BY <1>2 DEF term_rows

\* A transaction leaves the rows of the result it writes, and all others as they were.
LEMMA RowsStep ==
    ASSUME TypeInv, StoredInv, Persist
    PROVE  RowsInv'
<1> DEFINE job == jobs[1]
           op == job.op
           content == job.content
<1>1. /\ jobs # <<>> /\ Head(jobs) = job /\ job \in Range(jobs) /\ 1 \in DOMAIN jobs
      /\ op \in Operation
  BY FirstJob DEF Persist, TypeInv, QueuesInv, TypeOK
<1>2. /\ MaySave(tables, op, content)
      /\ tables' = save_result(tables, op, content)
      /\ committed' = Put(committed, op, content)
  BY <1>1 DEF Persist
<1>3. Answer(op, content) /\ RowsInv
  BY <1>1 DEF StoredInv, AnswersInv
<1>4. op \in {"F1", "F2"} =>
        /\ bucket_chunks_by_operation(tables, op) \subseteq Members(content)
        /\ \A term \in tables.terms : \A chunk \in Members(content) : term.link # ChunkId(chunk)
  BY <1>1, ChunksFree
<1> HIDE DEF job
<1> DEFINE Stored(o) == IF o \in DOMAIN committed THEN ContentRows(o, committed[o]) ELSE {}
<1>5. \A o \in Operation : RowsOf(tables, o) = Stored(o)
  BY <1>3 DEF RowsInv
<1>6. SUFFICES /\ tables' = [chunks |-> tables'.chunks, summaries |-> tables'.summaries,
                             terms |-> tables'.terms, quizzes |-> tables'.quizzes,
                             citations |-> tables'.citations]
               /\ \A o \in Operation :
                     RowsOf(tables', o) = IF o = op THEN ContentRows(op, content) ELSE RowsOf(tables, o)
               /\ ChunkRows(tables'.chunks)
               /\ \A term \in tables'.terms :
                     term.link \in {ChunkId(row) : row \in tables'.chunks} \cup {NoChunk}
  <2>1. \A o \in Operation : (IF o = op THEN ContentRows(op, content) ELSE RowsOf(tables, o))
           = IF o \in DOMAIN committed' THEN ContentRows(o, committed'[o]) ELSE {}
    BY <1>2, <1>5 DEF Put
  <2>2. QED BY <2>1 DEF RowsInv, ChunkRows
<1>7. CASE op \in {"F1", "F2"}
  <2>1. tables' = [tables EXCEPT !.chunks = @ \cup Members(content), !.terms = @]
    <3>1. \A term \in tables.terms : /\ term = [index |-> term.index, link |-> term.link]
                                     /\ \A chunk \in Members(content) : term.link # ChunkId(chunk)
      BY <1>3, <1>4, <1>7, TermRows
    <3>2. ChunkRows(tables.chunks)
      BY <1>3 DEF RowsInv, ChunkRows
    <3>3. save_chunks(tables, content) = [tables EXCEPT !.chunks = @ \cup Members(content), !.terms = @]
      BY <1>3, <1>4, <1>7, <3>1, <3>2, ChunksAdded
    <3>4. save_result(tables, op, content) = save_chunks(tables, content)
      BY <1>7 DEF save_result
    <3>5. QED BY <1>2, <3>3, <3>4
  <2>2. /\ tables' = [chunks |-> tables'.chunks, summaries |-> tables'.summaries,
                      terms |-> tables'.terms, quizzes |-> tables'.quizzes,
                      citations |-> tables'.citations]
        /\ tables'.chunks = tables.chunks \cup Members(content)
        /\ tables'.summaries = tables.summaries /\ tables'.terms = tables.terms
        /\ tables'.quizzes = tables.quizzes /\ tables'.citations = tables.citations
    BY <1>3, <2>1 DEF RowsInv
  <2>3. ChunkRows(Members(content)) /\ \E d \in Sources(op) : \A row \in Members(content) : row.document = d
    BY <1>3, <1>7, AnswerRows
  <2>4. ASSUME NEW o \in {"F1", "F2"}, NEW row \in Members(content)
        PROVE  _SOURCE_TYPE_TO_OPERATION[row.source] = o <=> o = op
    <3>1. row.document \in Document /\ row.source = _SourceType[Kind[row.document]]
          /\ row.document \in Sources(op)
      BY <2>3 DEF ChunkRows
    <3>2. _SOURCE_TYPE_TO_OPERATION[row.source] = op
      BY <1>7, <3>1, SourceFound
    <3>3. QED BY <3>2
  <2>5. bucket_chunks_by_operation(tables', op) = Members(content)
    BY <1>4, <1>7, <2>2, <2>4 DEF bucket_chunks_by_operation
  <2>6. \A o \in {"F1", "F2"} : o # op =>
           bucket_chunks_by_operation(tables', o) = bucket_chunks_by_operation(tables, o)
    BY <2>2, <2>4 DEF bucket_chunks_by_operation
  <2>7. \A o \in Operation :
           RowsOf(tables', o) = IF o = op THEN ContentRows(op, content) ELSE RowsOf(tables, o)
    BY <1>7, <2>2, <2>5, <2>6 DEF RowsOf, ContentRows, Operation
  <2>8. ChunkRows(tables'.chunks)
    BY <1>3, <2>2, <2>3 DEF RowsInv, ChunkRows
  <2>9. \A term \in tables'.terms :
           term.link \in {ChunkId(row) : row \in tables'.chunks} \cup {NoChunk}
    BY <1>3, <2>2 DEF RowsInv
  <2>10. QED BY <2>2, <2>7, <2>8, <2>9
<1>8. CASE op = "F5"
  <2>1. tables' = [tables EXCEPT !.terms = term_rows(content)]
    BY <1>2, <1>8 DEF save_result, save_terms
  <2>2. /\ tables' = [chunks |-> tables'.chunks, summaries |-> tables'.summaries,
                      terms |-> tables'.terms, quizzes |-> tables'.quizzes,
                      citations |-> tables'.citations]
        /\ tables'.chunks = tables.chunks
        /\ tables'.summaries = tables.summaries /\ tables'.terms = term_rows(content)
        /\ tables'.quizzes = tables.quizzes /\ tables'.citations = tables.citations
    BY <1>3, <2>1 DEF RowsInv
  <2>3. \A o \in {"F1", "F2"} : bucket_chunks_by_operation(tables', o) = bucket_chunks_by_operation(tables, o)
    BY <2>2 DEF bucket_chunks_by_operation
  <2>4. \A o \in Operation :
           RowsOf(tables', o) = IF o = op THEN ContentRows(op, content) ELSE RowsOf(tables, o)
    BY <1>8, <2>2, <2>3 DEF RowsOf, ContentRows, Operation
  <2>5. \A term \in tables'.terms : term.link \in Members(content)
    BY <2>2 DEF term_rows, Numbered, Members
  <2>6. Members(content) \subseteq {ChunkId(row) : row \in tables.chunks} \cup {NoChunk}
    BY <1>2, <1>8 DEF MaySave
  <2>7. ChunkRows(tables'.chunks)
    BY <1>3, <2>2 DEF RowsInv, ChunkRows
  <2>8. QED BY <2>2, <2>4, <2>5, <2>6, <2>7
<1>9. CASE op \in {"F3", "F4", "F6"}
  <2>1. /\ tables' = [chunks |-> tables'.chunks, summaries |-> tables'.summaries,
                      terms |-> tables'.terms, quizzes |-> tables'.quizzes,
                      citations |-> tables'.citations]
        /\ tables'.chunks = tables.chunks /\ tables'.terms = tables.terms
        /\ tables'.summaries = IF op = "F3" THEN {summary_row(content)} ELSE tables.summaries
        /\ tables'.quizzes = IF op = "F4" THEN {content} ELSE tables.quizzes
        /\ tables'.citations = IF op = "F6" THEN Numbered(content) ELSE tables.citations
    BY <1>2, <1>3, <1>9 DEF RowsInv, save_result, save_summary, save_quiz, save_citations
  <2>2. \A o \in {"F1", "F2"} : bucket_chunks_by_operation(tables', o) = bucket_chunks_by_operation(tables, o)
    BY <2>1 DEF bucket_chunks_by_operation
  <2>3. \A o \in Operation :
           RowsOf(tables', o) = IF o = op THEN ContentRows(op, content) ELSE RowsOf(tables, o)
    BY <1>9, <2>1, <2>2 DEF RowsOf, ContentRows, Operation
  <2>4. QED BY <1>3, <2>1, <2>3 DEF RowsInv, ChunkRows
<1>10. QED BY <1>1, <1>7, <1>8, <1>9 DEF Operation

\* An answer leaves no rows only if it is empty.
LEMMA RowsLeft ==
    ASSUME NEW op \in Operation, NEW content, Answer(op, content)
    PROVE  ContentRows(op, content) # {} <=> op \in {"F3", "F4"} \/ content # <<>>
<1>1. ASSUME NEW n \in Nat, content = [i \in 1..n |-> content[i]]
      PROVE  DOMAIN content = {} <=> content = <<>>
  <2>1. DOMAIN content = 1..n
    BY <1>1
  <2>2. CASE n = 0
    <3>1. content = [i \in 1..0 |-> content[i]]
      BY <1>1, <2>2
    <3>2. 1..0 = {} /\ [i \in {} |-> content[i]] = <<>>
      OBVIOUS
    <3>3. QED BY <2>1, <2>2, <3>1, <3>2
  <2>3. CASE n # 0
    BY <2>1, <2>3
  <2>4. QED BY <2>2, <2>3
<1>2. CASE op \in {"F1", "F2"}
  <2>1. PICK d \in Sources(op) : content = stamp_chunks(d, ChunkCount[d])
    BY <1>2 DEF Answer
  <2>2. ChunkCount[d] \in Nat
    BY ContentsAssumption DEF Sources
  <2>3. content = [i \in 1..ChunkCount[d] |-> content[i]]
    BY <2>1 DEF stamp_chunks
  <2>4. Members(content) # {} <=> content # <<>>
    BY <1>1, <2>2, <2>3 DEF Members
  <2>5. QED BY <1>2, <2>4 DEF ContentRows
<1>3. CASE op \in {"F5", "F6"}
  <2>1. PICK n \in 0..MaxItems : content = [i \in 1..n |-> content[i]]
    BY <1>3 DEF Answer
  <2>2. n \in Nat
    BY ContentsAssumption
  <2>3. DOMAIN content # {} <=> content # <<>>
    BY <1>1, <2>1, <2>2
  <2>4. Numbered(content) # {} <=> content # <<>>
    BY <2>3 DEF Numbered
  <2>5. term_rows(content) # {} <=> content # <<>>
    BY <2>4 DEF term_rows
  <2>6. QED BY <1>3, <2>4, <2>5 DEF ContentRows
<1>4. CASE op \in {"F3", "F4"}
  BY <1>4 DEF ContentRows
<1>5. QED BY <1>2, <1>3, <1>4 DEF Operation

\* The results that a restart finds are those that were committed, but for empty ones.
LEMMA ResultsFound ==
    ASSUME TypeInv, AnswersInv, RowsInv
    PROVE  DOMAIN _load_results(tables)
           = {op \in DOMAIN committed : op \in {"F3", "F4"} \/ committed[op] # <<>>}
<1>1. DOMAIN committed \subseteq Operation
  BY DEF TypeInv, TypeOK, QueuesInv
<1>2. DOMAIN _load_results(tables) = {op \in Operation : RowsOf(tables, op) # {}}
  BY DEF _load_results
<1>3. ASSUME NEW op \in DOMAIN committed
      PROVE  RowsOf(tables, op) # {} <=> op \in {"F3", "F4"} \/ committed[op] # <<>>
  <2>1. op \in Operation /\ Answer(op, committed[op])
    BY <1>1 DEF AnswersInv
  <2>2. RowsOf(tables, op) = ContentRows(op, committed[op])
    BY <2>1 DEF RowsInv
  <2>3. QED BY <2>1, <2>2, RowsLeft
<1>4. \A op \in Operation \ DOMAIN committed : RowsOf(tables, op) = {}
  BY DEF RowsInv
<1>5. QED BY <1>1, <1>2, <1>3, <1>4

\* Results are written once, over any crash and whatever is repeated.
LEMMA OnceStep ==
    ASSUME TypeInv, StoredInv, RowsInv', [Next]_vars
    PROVE  OnceInv'
<1> DEFINE Chunked == {"F1", "F2"}
           Empty(op) == op \in DOMAIN committed' => committed'[op] = <<>>
           Again(job) == /\ job.op \in DOMAIN committed' /\ committed'[job.op] = job.content
                         /\ \A term \in tables'.terms, chunk \in Members(job.content) :
                               term.link # ChunkId(chunk)
           Once == /\ \A job \in Range(jobs') : job.op \in DOMAIN results'
                   /\ \A i, j \in DOMAIN jobs' : jobs'[i].op = jobs'[j].op => i = j
                   /\ loop' = "down" => jobs' = <<>>
                   /\ loop' # "down" => \A op \in Pending' \cap Chunked : Empty(op)
                   /\ \A i \in DOMAIN jobs' : jobs'[i].op \in Chunked =>
                         Empty(jobs'[i].op) \/ (i = 1 /\ Again(jobs'[1]))
<1> SUFFICES Once
  BY DEF OnceInv, NoRowsOf, Repeated
<1>0. /\ IsList(jobs) /\ jobs \in Seq(Range(jobs)) /\ Len(jobs) \in Nat /\ DOMAIN jobs = 1..Len(jobs)
      /\ OnceInv
  BY LenProperties DEF TypeInv, QueuesInv, IsList, StoredInv
<1>1. CASE Route
  <2>1. loop # "down" /\ loop' = loop /\ failed \subseteq failed'
        /\ UNCHANGED <<plan, committed, tables>>
    BY <1>1, ResultsGrow DEF Route
  <2>2. CASE UNCHANGED <<results, jobs>>
    <3>1. Pending' \subseteq Pending
      BY <2>1, <2>2 DEF Pending
    <3>2. QED BY <1>0, <2>1, <2>2, <3>1 DEF OnceInv, NoRowsOf, Repeated
  <2>3. CASE Head(inbox).op \in Pending /\ RouteInform(Head(inbox))
    <3> DEFINE job == [op |-> Head(inbox).op, content |-> Head(inbox).content]
    <3>1. results' = Put(results, job.op, job.content) /\ jobs' = Append(jobs, job) /\ job.op \in Pending
      BY <1>1, <2>3 DEF Route, RouteInform
    <3> HIDE DEF job
    <3>2. DOMAIN results' = DOMAIN results \cup {job.op}
      BY <3>1 DEF Put
    <3>3. Pending' \subseteq Pending /\ job.op \notin DOMAIN results
      BY <2>1, <3>1, <3>2 DEF Pending
    <3>4. Range(jobs') = Range(jobs) \cup {job}
      BY <1>0, <3>1, ListAppend
    <3>5. /\ DOMAIN jobs' = DOMAIN jobs \cup {Len(jobs) + 1} /\ jobs'[Len(jobs) + 1] = job
          /\ \A i \in DOMAIN jobs : jobs'[i] = jobs[i]
      <4> DEFINE T == Range(jobs) \cup {job}
      <4>1. jobs \in Seq(T) /\ job \in T
        BY <1>0, SeqMonotonic
      <4> HIDE DEF T
      <4>2. /\ Append(jobs, job) \in Seq(T) /\ Len(Append(jobs, job)) = Len(jobs) + 1
            /\ \A i \in 1..Len(jobs) : Append(jobs, job)[i] = jobs[i]
            /\ Append(jobs, job)[Len(jobs) + 1] = job
        BY <4>1, AppendProperties
      <4>3. DOMAIN Append(jobs, job) = 1..(Len(jobs) + 1)
        BY <4>2, LenProperties
      <4>4. QED BY <1>0, <3>1, <4>2, <4>3
    <3>6. \A i \in DOMAIN jobs : jobs[i].op # job.op
      BY <1>0, <3>3 DEF OnceInv, Range
    <3>7. job.op \in Chunked => NoRowsOf(job.op)
      BY <1>0, <2>1, <3>1 DEF OnceInv
    <3>8. Len(jobs) + 1 \notin DOMAIN jobs
      BY <1>0
    <3>9. \A j \in Range(jobs') : j.op \in DOMAIN results'
      BY <1>0, <3>2, <3>4 DEF OnceInv
    <3>10. \A i, j \in DOMAIN jobs' : jobs'[i].op = jobs'[j].op => i = j
      BY <1>0, <3>5, <3>6 DEF OnceInv
    <3>11. \A i \in DOMAIN jobs' : jobs'[i].op \in Chunked =>
              Empty(jobs'[i].op) \/ (i = 1 /\ Again(jobs'[1]))
      <4>1. \A op : Empty(op) <=> NoRowsOf(op)
        BY <2>1 DEF NoRowsOf
      <4>2. \A j : Again(j) <=> Repeated(j)
        BY <2>1 DEF Repeated
      <4> HIDE DEF Empty, Again
      <4>3. ASSUME NEW i \in DOMAIN jobs, jobs[i].op \in Chunked
            PROVE  NoRowsOf(jobs[i].op) \/ (i = 1 /\ Repeated(jobs[1]))
        BY <1>0, <4>3 DEF OnceInv
      <4>4. QED BY <3>5, <3>7, <4>1, <4>2, <4>3
    <3>12. \A op \in Pending' \cap Chunked : Empty(op)
      BY <1>0, <2>1, <3>3 DEF OnceInv, NoRowsOf
    <3> HIDE DEF Empty, Again
    <3>13. QED BY <2>1, <3>9, <3>10, <3>11, <3>12
  <2>4. QED BY <1>1, <2>2, <2>3 DEF Route, RouteRefuse
<1>2. CASE Persist \/ PersistGivesUp
  <2> DEFINE job == jobs[1]
  <2>1. /\ jobs # <<>> /\ loop' = loop /\ loop # "down" /\ UNCHANGED <<plan, results, failed>>
        /\ \/ jobs' = Tail(jobs) /\ UNCHANGED <<tables, committed>>
           \/ Persist /\ jobs' \in {jobs, Tail(jobs)}
    BY <1>2 DEF Persist, PersistGivesUp, state
  <2>2. /\ Head(jobs) = job /\ 1 \in DOMAIN jobs /\ job \in Range(jobs)
        /\ DOMAIN Tail(jobs) = {i \in Nat : i + 1 \in DOMAIN jobs /\ i # 0}
        /\ \A i \in DOMAIN Tail(jobs) : Tail(jobs)[i] = jobs[i + 1]
    BY <1>0, <2>1, FirstJob
  <2>3. Persist => committed' = Put(committed, job.op, job.content)
    BY <2>2 DEF Persist
  <2> HIDE DEF job
  <2>4. \A op : op # job.op => (Empty(op) <=> NoRowsOf(op))
    BY <2>1, <2>3 DEF NoRowsOf, Put
  <2>5. job.op \in DOMAIN results /\ Pending' = Pending
    BY <1>0, <2>1, <2>2 DEF OnceInv, Pending
  <2> HIDE DEF Empty, Again
  <2>6. \A op \in Pending' \cap Chunked : Empty(op)
    BY <1>0, <2>1, <2>4, <2>5 DEF OnceInv, Pending
  <2>7. ASSUME NEW i \in DOMAIN jobs, i # 1, jobs[i].op \in Chunked
        PROVE  Empty(jobs[i].op)
    <3>1. jobs[i].op # job.op
      BY <1>0, <2>2, <2>7 DEF OnceInv, job
    <3>2. NoRowsOf(jobs[i].op)
      BY <1>0, <2>7 DEF OnceInv
    <3>3. QED BY <2>4, <3>1, <3>2
  <2>8. CASE jobs' = Tail(jobs)
    <3>1. Range(jobs') \subseteq Range(jobs)
      BY <1>0, <2>1, <2>8, ListTail
    <3>2. \A j \in Range(jobs') : j.op \in DOMAIN results'
      BY <1>0, <2>1, <3>1 DEF OnceInv
    <3>3. \A i \in DOMAIN jobs' : i + 1 \in DOMAIN jobs /\ i + 1 # 1 /\ jobs'[i] = jobs[i + 1]
      BY <2>2, <2>8
    <3>4. \A i, j \in DOMAIN jobs' : jobs'[i].op = jobs'[j].op => i = j
      <4>1. DOMAIN jobs' \subseteq Nat
        BY <2>2, <2>8
      <4>2. ASSUME NEW i \in DOMAIN jobs', NEW j \in DOMAIN jobs', jobs'[i].op = jobs'[j].op
            PROVE  i + 1 = j + 1
        BY <1>0, <3>3, <4>2 DEF OnceInv
      <4>3. QED BY <4>1, <4>2
    <3>5. \A i \in DOMAIN jobs' : jobs'[i].op \in Chunked => Empty(jobs'[i].op)
      BY <2>7, <3>3
    <3>6. QED BY <2>1, <2>6, <3>2, <3>4, <3>5
  <2>9. CASE Persist /\ jobs' = jobs
    <3>1. \A i \in DOMAIN jobs' : jobs'[i].op \in Chunked =>
             Empty(jobs'[i].op) \/ (i = 1 /\ Again(jobs'[1]))
      <4>1. ASSUME job.op \in Chunked PROVE Again(job)
        <5>1. job.op \in DOMAIN committed' /\ committed'[job.op] = job.content
              /\ ("F5" \in DOMAIN committed' <=> "F5" \in DOMAIN committed)
              /\ ("F5" \in DOMAIN committed => committed'["F5"] = committed["F5"])
          BY <2>3, <2>9, <4>1 DEF Put
        <5>2. RowsOf(tables', "F5") = RowsOf(tables, "F5")
          BY <5>1 DEF RowsInv, StoredInv, Operation
        <5>3. tables'.terms = tables.terms
          BY <5>2 DEF RowsOf
        <5>4. \A term \in tables.terms : \A chunk \in Members(job.content) : term.link # ChunkId(chunk)
          BY <2>1, <4>1, ChunksFree DEF job
        <5>5. QED BY <5>1, <5>3, <5>4 DEF Again
      <4>2. QED BY <2>7, <2>9, <4>1 DEF job
    <3>2. QED BY <1>0, <2>1, <2>6, <2>9, <3>1 DEF OnceInv
  <2>10. QED BY <2>1, <2>8, <2>9
<1>3. CASE Crash
  <2>1. jobs' = <<>> /\ loop' = "down"
    BY <1>3 DEF Crash
  <2>2. QED BY <2>1, EmptyList DEF OnceInv
<1>4. CASE Restart
  <2>1. /\ loop = "down" /\ jobs' = jobs /\ loop' = "advancing"
        /\ UNCHANGED <<plan, failed, committed>>
        /\ results' = Restrict(_load_results(tables), plan \cap DOMAIN _load_results(tables))
    BY <1>4 DEF Restart
  <2>2. jobs' = <<>>
    BY <1>0, <2>1 DEF OnceInv
  <2>3. DOMAIN results' = plan \cap DOMAIN _load_results(tables)
    BY <2>1, Zenon DEF Restrict
  <2>4. ASSUME NEW op \in Pending' \cap Chunked PROVE Empty(op)
    <3>1. op \notin DOMAIN _load_results(tables)
      BY <2>1, <2>3 DEF Pending
    <3>2. op \in DOMAIN committed => committed[op] = <<>>
      BY <3>1, ResultsFound DEF StoredInv
    <3>3. QED BY <2>1, <3>2
  <2>5. QED BY <2>1, <2>2, <2>4, EmptyList DEF OnceInv
<1>5. CASE \E op \in plan : SkipSubtask(op) \/ Expire(op)
  <2>1. /\ loop # "down" /\ loop' = loop
        /\ UNCHANGED <<plan, results, jobs, committed, tables>>
    BY <1>5 DEF SkipSubtask, Expire
  <2>2. failed \subseteq failed'
    BY <2>1, ResultsGrow
  <2>3. Pending' \subseteq Pending
    BY <2>1, <2>2 DEF Pending
  <2>4. QED BY <1>0, <2>1, <2>3 DEF OnceInv, NoRowsOf, Repeated
<1>6. CASE /\ UNCHANGED <<plan, results, failed, jobs, committed, tables>>
           /\ loop' = "down" <=> loop = "down"
  BY <1>0, <1>6 DEF OnceInv, Pending, NoRowsOf, Repeated
<1>7. QED
  BY <1>1, <1>2, <1>3, <1>4, <1>5, <1>6
  DEF Next, EndRouting, PublishReady, Republish, _publish, EndAdvance, EndPersist, Handle, vars,
      state, bus, ghost

\* In every state the tables hold what was committed, and nothing stands in the way of
\* what is yet to be written.
LEMMA StoredInvCorrect == Spec => []StoredInv
<1>1. Init => StoredInv
  <2> SUFFICES ASSUME Init PROVE StoredInv
    OBVIOUS
  <2> USE DEF Init
  <2>1. AnswersInv
    BY EmptyList DEF AnswersInv
  <2>2. RowsInv
    BY DEF RowsInv, NoRows, RowsOf, bucket_chunks_by_operation, Operation
  <2>3. OnceInv
    BY EmptyList DEF OnceInv, NoRowsOf
  <2>4. QED BY <2>1, <2>2, <2>3 DEF StoredInv
<1>2. ASSUME TypeInv, StoredInv, [Next]_vars PROVE StoredInv'
  <2>1. AnswersInv'
    BY <1>2, AnswersStep DEF StoredInv
  <2>2. RowsInv'
    <3>1. CASE Persist
      BY <1>2, <3>1, RowsStep
    <3>2. CASE UNCHANGED <<tables, committed>>
      BY <1>2, <3>2 DEF StoredInv, RowsInv
    <3>3. QED
      BY <1>2, <3>1, <3>2
      DEF Next, Route, EndRouting, PublishReady, SkipSubtask, Expire, Republish, EndAdvance,
          PersistGivesUp, EndPersist, Handle, Crash, Restart, vars
  <2>3. OnceInv'
    BY <1>2, <2>2, OnceStep
  <2>4. QED BY <2>1, <2>2, <2>3 DEF StoredInv
<1>3. QED BY <1>1, <1>2, TypeInvCorrect, PTL DEF Spec

\* A restart finds each result as it was last written, whatever was saved beside it,
\* before or after it, and however often: if no answer has more chunks, terms or citations
\* than one digit can number.  A longer lecture comes back in another order.
THEOREM LoadedAsCommitted ==
    ASSUME MaxItems <= Radix, \A d \in Document : ChunkCount[d] <= Radix
    PROVE  Spec => []LoadedIsCommitted
<1>1. ASSUME TypeInv, StoredInv PROVE LoadedIsCommitted
  <2> DEFINE loaded == _load_results(tables)
  <2>1. DOMAIN loaded = {op \in DOMAIN committed : op \in {"F3", "F4"} \/ committed[op] # <<>>}
    BY <1>1, ResultsFound DEF StoredInv
  <2>2. ASSUME NEW op \in DOMAIN loaded PROVE loaded[op] = committed[op]
    <3> DEFINE content == committed[op]
    <3>1. op \in DOMAIN committed /\ op \in Operation /\ Answer(op, content)
      BY <1>1, <2>1 DEF TypeInv, TypeOK, QueuesInv, StoredInv, AnswersInv
    <3>2. RowsOf(tables, op) = ContentRows(op, content)
      BY <1>1, <3>1 DEF StoredInv, RowsInv
    <3>3. loaded[op] = ContentFrom(ContentRows(op, content), op)
      BY <3>2 DEF _load_results
    <3> HIDE DEF content
    <3>4. CASE op \in {"F1", "F2"}
      <4>1. PICK d \in Sources(op) : content = stamp_chunks(d, ChunkCount[d])
        BY <3>1, <3>4 DEF Answer
      <4>2. d \in Document /\ ChunkCount[d] \in Nat /\ ChunkCount[d] <= Radix
        BY ContentsAssumption DEF Sources
      <4>3. content_from_chunk_rows(Members(content)) = content
        BY <4>1, <4>2, ChunksComeBack
      <4>4. ContentFrom(ContentRows(op, content), op) = content_from_chunk_rows(Members(content))
        BY <3>4 DEF ContentFrom, ContentRows
      <4>5. QED BY <3>3, <4>3, <4>4 DEF content
    <3>5. CASE op \in {"F5", "F6"}
      <4>1. PICK n \in 0..MaxItems : content = [i \in 1..n |-> content[i]]
        BY <3>1, <3>5 DEF Answer
      <4>2. n \in Nat /\ n <= Radix
        BY ContentsAssumption, RowsAssumption
      <4>3. /\ content_from_citation_rows(Numbered(content)) = content
            /\ content_from_term_rows(term_rows(content)) = content
        BY <4>1, <4>2, NumberedComeBack
      <4>4. QED BY <3>3, <3>5, <4>3 DEF content, ContentFrom, ContentRows
    <3>6. CASE op = "F3"
      <4>1. content = [sections |-> AllSections, source_chunk_ids |-> content.source_chunk_ids]
        BY <3>1, <3>6 DEF Answer
      <4>2. content_from_summary_row(summary_row(content)) = content
        <5> DEFINE places == [k \in 1..3 |-> k]
        <5>1. /\ places \in [1..3 -> 1..3] /\ 3 \in Nat
              /\ \A i, j \in 1..3 : i < j => places[i] < places[j]
          OBVIOUS
        <5>2. AllSections = [i \in 1..3 |-> AllSections[places[i]]]
          BY DEF AllSections
        <5> HIDE DEF places
        <5>3. content = [sections |-> [i \in 1..3 |-> AllSections[places[i]]],
                         source_chunk_ids |-> content.source_chunk_ids]
          BY <4>1, <5>2
        <5>4. QED BY <5>1, <5>3, SummaryComesBack
      <4>3. loaded[op] = content_from_summary_row(CHOOSE row \in {summary_row(content)} : TRUE)
        BY <3>3, <3>6 DEF ContentFrom, ContentRows
      <4>4. (CHOOSE row \in {summary_row(content)} : TRUE) = summary_row(content)
        OBVIOUS
      <4>5. QED BY <4>2, <4>3, <4>4 DEF content
    <3>7. CASE op = "F4"
      BY <3>3, <3>7 DEF content, ContentFrom, ContentRows
    <3>8. QED BY <3>1, <3>4, <3>5, <3>6, <3>7 DEF Operation
  <2>3. QED BY <2>1, <2>2 DEF LoadedIsCommitted
<1>2. QED BY <1>1, TypeInvCorrect, StoredInvCorrect, PTL
=============================================================================
