------------------------ MODULE TaskRefinementProofs ------------------------
(***************************************************************************)
(* What holds of the dispatch as long as the process does not restart and   *)
(* submit and recovery do not meet: no reply is ever received of a subtask  *)
(* that was not requested, so requests follow the DAG, failures have a      *)
(* cause, and the whole implements AbstractTask.  A restart breaks these (a *)
(* reply to the former incarnation may name a subtask that the new one has  *)
(* not requested yet), hence the hypothesis of every lemma.                 *)
(***************************************************************************)
EXTENDS TaskDispatchProofs, FiniteSetTheorems

-----------------------------------------------------------------------------
(* Counting the replies of one subtask in a sequence of them.               *)

\* The places of a sequence that hold a reply of `op`, and how many there are.
Places(s, op) == {i \in 1..Len(s) : s[i].op = op}
Count(s, op)  == Cardinality(Places(s, op))

LEMMA CountType ==
    ASSUME NEW s \in Seq(Reply), NEW op
    PROVE  IsFiniteSet(Places(s, op)) /\ Count(s, op) \in Nat
<1>1. IsFiniteSet(1..Len(s)) /\ Places(s, op) \in SUBSET (1..Len(s))
  BY FS_Interval DEF Places
<1>2. QED BY <1>1, FS_Subset, FS_CardinalityType DEF Count

\* Cutting a sequence in two splits the count.
LEMMA CountSplit ==
    ASSUME NEW s \in Seq(Reply), NEW k \in 0..Len(s), NEW op
    PROVE  Count(s, op) = Count(SubSeq(s, 1, k), op) + Count(SubSeq(s, k + 1, Len(s)), op)
<1> DEFINE front == SubSeq(s, 1, k)
           back  == SubSeq(s, k + 1, Len(s))
           later == {i \in (k + 1)..Len(s) : s[i].op = op}
<1>1. /\ front \in Seq(Reply) /\ Len(front) = k /\ \A i \in 1..k : front[i] = s[i]
      /\ back \in Seq(Reply) /\ Len(back) = Len(s) - k
      /\ \A i \in 1..(Len(s) - k) : back[i] = s[i + k]
  OBVIOUS
<1>2. Len(s) \in Nat /\ k \in Nat
  OBVIOUS
<1> HIDE DEF front, back
<1>3. Places(s, op) = Places(front, op) \cup later /\ Places(front, op) \cap later = {}
  BY <1>1, <1>2 DEF Places
<1>4. IsFiniteSet(Places(front, op)) /\ IsFiniteSet(Places(back, op))
  BY <1>1, CountType
<1>5. ExistsBijection(Places(back, op), later)
  <2> DEFINE shift == [i \in Places(back, op) |-> i + k]
  <2>1. shift \in [Places(back, op) -> later]
    BY <1>1, <1>2 DEF Places
  <2>2. \A i, j \in Places(back, op) : shift[i] = shift[j] => i = j
    BY <1>2 DEF Places
  <2>3. \A n \in later : \E i \in Places(back, op) : shift[i] = n
    <3> SUFFICES ASSUME NEW n \in later PROVE \E i \in Places(back, op) : shift[i] = n
      OBVIOUS
    <3>1. n - k \in 1..Len(back) /\ back[n - k] = s[n] /\ (n - k) + k = n
      BY <1>1, <1>2
    <3>2. n - k \in Places(back, op)
      BY <3>1 DEF Places
    <3>3. QED BY <3>1, <3>2
  <2>4. shift \in Bijection(Places(back, op), later)
    BY <2>1, <2>2, <2>3 DEF Bijection, Injection, Surjection, IsInjective
  <2>5. QED BY <2>4 DEF ExistsBijection
<1>6. IsFiniteSet(later) /\ Cardinality(later) = Count(back, op)
  BY <1>4, <1>5, FS_Bijection DEF Count
<1>7. Count(s, op) = Count(front, op) + Cardinality(later) - Cardinality(Places(front, op) \cap later)
  BY <1>3, <1>4, <1>6, FS_Union DEF Count
<1>8. Cardinality(Places(front, op) \cap later) = 0
  BY <1>3, FS_EmptySet
<1>9. Count(front, op) \in Nat /\ Count(back, op) \in Nat
  BY <1>1, CountType
<1>10. QED BY <1>6, <1>7, <1>8, <1>9 DEF front, back

LEMMA CountEmpty == \A op : Count(<<>>, op) = 0
<1>1. \A op : Places(<<>>, op) = {}
  BY DEF Places
<1>2. QED BY <1>1, FS_EmptySet DEF Count

\* A sequence of one reply.
LEMMA CountOne ==
    ASSUME NEW s \in Seq(Reply), Len(s) = 1, NEW op
    PROVE  Count(s, op) = IF s[1].op = op THEN 1 ELSE 0
<1>1. Places(s, op) = IF s[1].op = op THEN {1} ELSE {}
  BY DEF Places
<1>2. QED BY <1>1, FS_EmptySet, FS_Singleton DEF Count

\* Handing over the oldest reply takes it off the count of its subtask.
LEMMA CountTail ==
    ASSUME NEW s \in Seq(Reply), s # <<>>, NEW op
    PROVE  Count(s, op) = (IF Head(s).op = op THEN 1 ELSE 0) + Count(Tail(s), op)
<1>1. /\ 1 \in 0..Len(s) /\ Tail(s) \in Seq(Reply) /\ Len(Tail(s)) = Len(s) - 1
      /\ SubSeq(s, 1 + 1, Len(s)) = Tail(s)
  OBVIOUS
<1>2. /\ SubSeq(s, 1, 1) \in Seq(Reply) /\ Len(SubSeq(s, 1, 1)) = 1
      /\ SubSeq(s, 1, 1)[1] = Head(s)
  OBVIOUS
<1>3. Count(s, op) = Count(SubSeq(s, 1, 1), op) + Count(SubSeq(s, 1 + 1, Len(s)), op)
  BY <1>1, CountSplit
<1>4. Count(SubSeq(s, 1, 1), op) = IF Head(s).op = op THEN 1 ELSE 0
  BY <1>2, CountOne
<1>5. Count(SubSeq(s, 1 + 1, Len(s)), op) = Count(Tail(s), op)
  BY <1>1, Zenon
<1>6. QED BY <1>3, <1>4, <1>5, Zenon

\* A reply that arrives adds to it.
LEMMA CountAppend ==
    ASSUME NEW s \in Seq(Reply), NEW reply \in Reply, NEW op
    PROVE  Count(Append(s, reply), op) = Count(s, op) + (IF reply.op = op THEN 1 ELSE 0)
<1> DEFINE long == Append(s, reply)
<1>1. /\ long \in Seq(Reply) /\ Len(long) = Len(s) + 1 /\ Len(s) \in 0..Len(long)
      /\ SubSeq(long, 1, Len(s)) = s
      /\ SubSeq(long, Len(s) + 1, Len(long)) \in Seq(Reply)
      /\ Len(SubSeq(long, Len(s) + 1, Len(long))) = 1
      /\ SubSeq(long, Len(s) + 1, Len(long))[1] = reply
  OBVIOUS
<1> HIDE DEF long
<1>2. Count(long, op) = Count(SubSeq(long, 1, Len(s)), op)
                         + Count(SubSeq(long, Len(s) + 1, Len(long)), op)
  BY <1>1, CountSplit
<1>3. QED BY <1>1, <1>2, CountOne DEF long

-----------------------------------------------------------------------------
(* The inductive invariant.                                                 *)

\* Neither restarts nor a recovery: the task is started by its submit, once.
StartedOnce == Faults \cap {"crash", "overlap"} = {}

\* Until submit takes the lock there is nothing of the task but its row.
OnceInv ==
    /\ pc \notin {"down", "starting", "loaded"}
    /\ request # "done" =>
          /\ drives = 0 /\ published = {} /\ inbox = <<>>
          /\ results = [op \in Operation |-> "absent"]
          /\ retry_counts = [op \in Operation |-> 0]
          /\ \A op \in Operation : queued[op] = 0

\* Timers, requests and replies exist only of requested subtasks.
OnlyRequested ==
    /\ \A op \in plan : op \notin published =>
          ~Armed(deadlines, op) /\ ~Armed(retry_at, op) /\ queued[op] = 0
    /\ \A op \in plan : op \in published \cap pending => sent[op] > 0
    /\ \A i \in 1..Len(inbox) : inbox[i].op \in published
    /\ \A i \in 1..Len(replies) : replies[i].op \in published

\* What the hypothesis rules out.
LEMMA NoRecovery ==
    ASSUME StartedOnce, OnceInv
    PROVE  ~Crash /\ ~LoadInFlight /\ ~_resume
BY DEF StartedOnce, OnceInv, Crash, Fault, LoadInFlight, _resume

\* Before submit takes the lock nothing touches the task.
LEMMA OnceStep ==
    ASSUME StartedOnce, Hands, OnceInv, [Next]_vars
    PROVE  OnceInv'
<1> USE DEF OnceInv
<1>0. ControlInv /\ plan \subseteq Operation /\ plan' = plan
  BY StateSteps, DispatchAssumption DEF Hands, TypeOK
<1>1. CASE pc' = pc /\ UNCHANGED <<request, drives, state, queued, inbox>>
  BY <1>1 DEF state
<1>2. CASE SetRunning \/ SubmitFails
  BY <1>2 DEF SetRunning, SubmitFails, loop, state, bus
<1>3. CASE Register
  BY <1>3 DEF Register, Start
<1>4. CASE BeginTick \/ ReadFails
  <2>1. pc' \in {pc, "tick"} /\ inbox' = Rest /\ UNCHANGED <<request, drives, state, queued>>
    BY <1>4 DEF BeginTick, ReadFails, loop, http
  <2>2. inbox = <<>> => Rest = <<>>
    BY DEF Rest, BatchSize
  <2>3. QED BY <2>1, <2>2 DEF state
\* Whoever holds the lock works on a task that was started.
<1>5. ASSUME stage # "free", pc' \notin {"down", "starting", "loaded"}, request' = request
      PROVE  OnceInv'
  BY <1>0, <1>5 DEF ControlInv
<1>6. CASE \/ RouteUnexpected \/ RouteRefuse \/ RouteInform \/ EndPass \/ EndExpiry \/ NextPass
           \/ SaveArtifact
           \/ \E op \in plan : PublishReady(op) \/ SkipSubtask(op)
                               \/ ExpireTimeout(op) \/ RepublishDue(op)
  <2>1. stage # "free" /\ pc' = pc /\ request' = request
    BY <1>6 DEF RouteUnexpected, RouteRefuse, RouteInform, Routing, EndPass, EndExpiry, NextPass,
       LoopDone, Advancing, SaveArtifact, PublishReady, SkipSubtask, ExpireTimeout, RepublishDue,
       unchangedLoop, http
  <2>2. QED BY <1>5, <2>1
<1>7. CASE EndAdvance \/ SetStatus \/ _abandon \/ ProcessingFails
  <2>1. stage # "free" /\ pc' \in {pc, "persist", "idle", "dead"} /\ request' = request
    BY <1>7 DEF EndAdvance, MaybeFinalize, LoopDone, SetStatus, _abandon, LockReleased,
       ProcessingFails, Advancing, Raise, http
  <2>2. QED BY <1>5, <2>1
<1>8. CASE EndTick \/ \E op \in plan : PersistResult(op)
  BY <1>8 DEF EndTick, PersistResult, state, http, bus
<1>9. ASSUME NEW op \in plan,
             AgentSilent(op) \/ \E performative \in {"INFORM", "REFUSE"} : AgentReplies(op, performative)
      PROVE  OnceInv'
  <2>1. queued[op] > 0 /\ UNCHANGED <<pc, request>>
    BY <1>9 DEF AgentSilent, AgentReplies, loop, http
  <2>2. request = "done"
    BY <1>0, <2>1
  <2>3. QED BY <2>1, <2>2
<1>10. CASE TimePasses \/ UNCHANGED vars
  BY <1>1, <1>10 DEF TimePasses, vars, loop, http, bus
<1>11. QED
  BY <1>2, <1>3, <1>4, <1>6, <1>7, <1>8, <1>9, <1>10, NoRecovery
  DEF Next, Dispatch, Processing, RunLoop, Environment, Failure

\* _schedule_retry_or_fail arms a timer only of a subtask it finds requested.
LEMMA ScheduleKeepsRequested ==
    ASSUME TypeOK, StateInv, OnlyRequested, NEW op \in published \cap pending,
           _schedule_retry_or_fail(op), UNCHANGED <<plan, sent, queued>>
    PROVE  /\ \A other \in plan : other \notin published' =>
                 ~Armed(deadlines, other)' /\ ~Armed(retry_at, other)' /\ queued'[other] = 0
           /\ \A other \in plan : other \in published' \cap pending' => sent'[other] > 0
           /\ published' = published
<1>1. plan \subseteq Operation /\ op \in plan
  BY DispatchAssumption DEF TypeOK
<1>2. CASE _fail_subtask(op)
  BY <1>1, <1>2 DEF _fail_subtask, OnlyRequested, TypeOK, Armed
<1>3. CASE /\ \E at \in {now + BACKOFF_SECONDS[retry_counts[op] + 1]} :
                 retry_at' = [retry_at EXCEPT ![op] = at]
           /\ deadlines' = [deadlines EXCEPT ![op] = NoTimer]
           /\ UNCHANGED <<published, pending>>
  BY <1>1, <1>3 DEF OnlyRequested, TypeOK, Armed
<1>4. QED BY <1>2, <1>3 DEF _schedule_retry_or_fail

\* Only requested subtasks have timers, requests or replies.
LEMMA OnlyRequestedStep ==
    ASSUME StartedOnce, Hands, OnceInv, OnlyRequested, [Next]_vars
    PROVE  OnlyRequested'
<1>0. /\ TypeOK /\ StateInv
      /\ plan \subseteq Operation /\ pending \subseteq plan /\ plan' = plan
  BY StateSteps, DispatchAssumption DEF Hands, TypeOK
<1>1. CASE Register
  <2>1. Start("submit", {}) /\ published = {} /\ UNCHANGED <<queued, inbox, replies>>
    BY <1>1 DEF Register, OnceInv, Start, bus
  <2>2. published' = {} /\ \A op \in Operation : deadlines'[op] = NoTimer /\ retry_at'[op] = NoTimer
    BY <2>1 DEF Start, NewTaskState
  <2>3. QED BY <1>0, <2>1, <2>2 DEF OnlyRequested, Armed
<1>2. CASE BeginTick \/ ReadFails
  <2>1. UNCHANGED <<state, queued>> /\ inbox' = Rest /\ replies' \in {replies, Batch}
    BY <1>2 DEF BeginTick, ReadFails, loop
  <2>2. /\ \A i \in 1..Len(Rest) : \E j \in 1..Len(inbox) : Rest[i] = inbox[j]
        /\ \A i \in 1..Len(Batch) : \E j \in 1..Len(inbox) : Batch[i] = inbox[j]
    <3>1. BatchSize \in 0..Len(inbox) /\ Len(inbox) \in Nat
      BY <1>0, DispatchAssumption DEF BatchSize, TypeOK
    <3>2. /\ Len(Batch) = BatchSize
          /\ \A i \in 1..BatchSize : Batch[i] = inbox[i]
      BY <1>0, <3>1 DEF Batch, TypeOK
    <3>3. /\ Len(Rest) = Len(inbox) - BatchSize
          /\ \A i \in 1..(Len(inbox) - BatchSize) : Rest[i] = inbox[i + BatchSize]
      BY <1>0, <3>1 DEF Rest, TypeOK
    <3>4. QED BY <3>1, <3>2, <3>3
  <2>3. QED BY <1>0, <2>1, <2>2 DEF OnlyRequested, Armed, state
<1>3. CASE RouteUnexpected \/ RouteRefuse \/ RouteInform
  <2>1. /\ replies # <<>> /\ replies' = Tail(replies)
        /\ UNCHANGED <<sent, queued, inbox>>
    BY <1>3 DEF RouteUnexpected, RouteRefuse, RouteInform, Routing, bus, state
  <2>2. /\ Head(replies) = replies[1] /\ 1 \in 1..Len(replies)
        /\ \A i \in 1..Len(replies') : \E j \in 1..Len(replies) : replies'[i] = replies[j]
    BY <1>0, <2>1 DEF TypeOK
  <2>3. Head(replies).op \in published
    BY <2>2 DEF OnlyRequested
  <2>4. CASE RouteUnexpected
    BY <1>0, <2>1, <2>2, <2>4 DEF RouteUnexpected, OnlyRequested, Armed, state
  <2>5. CASE RouteRefuse
    <3>1. Head(replies).op \in published \cap pending /\ _schedule_retry_or_fail(Head(replies).op)
      BY <2>3, <2>5 DEF RouteRefuse
    <3>2. QED BY <1>0, <2>1, <2>2, <3>1, ScheduleKeepsRequested DEF OnlyRequested
  <2>6. CASE RouteInform
    <3>1. PICK op \in pending :
            /\ deadlines' = [deadlines EXCEPT ![op] = NoTimer]
            /\ retry_at' = [retry_at EXCEPT ![op] = NoTimer]
            /\ pending' = pending \ {op}
            /\ published' = published
      BY <2>6 DEF RouteInform
    <3>2. QED BY <1>0, <2>1, <2>2, <3>1 DEF OnlyRequested, Armed, TypeOK
  <2>7. QED BY <1>3, <2>4, <2>5, <2>6
<1>4. ASSUME NEW op \in plan, PublishReady(op) \/ RepublishDue(op) PROVE OnlyRequested'
  <2>1. /\ published' = published \cup {op}
        /\ queued' = [queued EXCEPT ![op] = @ + 1]
        /\ sent' = [sent EXCEPT ![op] = @ + 1]
        /\ deadlines' = [deadlines EXCEPT ![op] = now + AGENT_TIMEOUTS_SEC[op]]
        /\ retry_at' = retry_at \/ retry_at' = [retry_at EXCEPT ![op] = NoTimer]
        /\ UNCHANGED <<pending, inbox, replies>>
    BY <1>4 DEF PublishReady, RepublishDue, _publish, unchangedLoop
  <2>2. sent[op] \in Nat /\ sent'[op] > 0
    BY <1>0, <2>1 DEF TypeOK
  <2>3. \A q \in plan : q # op =>
            /\ sent'[q] = sent[q] /\ queued'[q] = queued[q]
            /\ deadlines'[q] = deadlines[q] /\ retry_at'[q] = retry_at[q]
    BY <1>0, <2>1 DEF TypeOK
  <2>4. QED BY <1>0, <2>1, <2>2, <2>3 DEF OnlyRequested, Armed
<1>5. ASSUME NEW op \in plan, SkipSubtask(op) PROVE OnlyRequested'
  <2>1. /\ published' = published \cup {op}
        /\ deadlines' = [deadlines EXCEPT ![op] = NoTimer]
        /\ retry_at' = [retry_at EXCEPT ![op] = NoTimer]
        /\ pending' = pending \ {op}
        /\ UNCHANGED <<sent, queued, inbox, replies>>
    BY <1>5 DEF SkipSubtask, _fail_subtask, unchangedLoop, bus
  <2>2. QED BY <1>0, <2>1 DEF OnlyRequested, Armed, TypeOK
<1>6. ASSUME NEW op \in plan, ExpireTimeout(op) PROVE OnlyRequested'
  <2>1. op \in published \cap pending
    BY <1>0, <1>6 DEF ExpireTimeout, Expired, StateInv, TimersCoverPending, OnlyRequested, Armed
  <2>2. _schedule_retry_or_fail(op) /\ UNCHANGED <<plan, sent, queued, inbox, replies>>
    BY <1>6 DEF ExpireTimeout, unchangedLoop, bus
  <2>3. QED BY <1>0, <2>1, <2>2, ScheduleKeepsRequested DEF OnlyRequested
<1>7. ASSUME NEW op \in plan, NEW performative \in {"INFORM", "REFUSE"},
             AgentReplies(op, performative)
      PROVE  OnlyRequested'
  <2>1. op \in published
    BY <1>7 DEF AgentReplies, OnlyRequested
  <2>2. /\ queued' = [queued EXCEPT ![op] = @ - 1]
        /\ inbox' = Append(inbox, [op |-> op, performative |-> performative])
        /\ UNCHANGED <<state, replies>>
    BY <1>7 DEF AgentReplies, loop
  <2>3. \A i \in 1..Len(inbox') : inbox'[i].op \in published
    BY <1>0, <2>1, <2>2 DEF OnlyRequested, TypeOK
  <2>4. QED BY <1>0, <2>1, <2>2, <2>3 DEF OnlyRequested, Armed, state, TypeOK
<1>8. ASSUME NEW op \in plan, AgentSilent(op) PROVE OnlyRequested'
  <2>1. /\ op \in published
        /\ queued' = [queued EXCEPT ![op] = @ - 1]
        /\ UNCHANGED <<state, inbox, replies>>
    BY <1>8 DEF AgentSilent, OnlyRequested, loop
  <2>2. QED BY <1>0, <2>1 DEF OnlyRequested, Armed, state, TypeOK
<1>9. CASE UNCHANGED <<state, queued, inbox, replies>>
  BY <1>0, <1>9 DEF OnlyRequested, Armed, state
<1>10. CASE \/ SetRunning \/ SubmitFails \/ EndPass \/ EndExpiry \/ NextPass \/ EndAdvance
            \/ SaveArtifact \/ SetStatus \/ ProcessingFails \/ _abandon \/ EndTick
            \/ TimePasses \/ \E op \in plan : PersistResult(op)
  BY <1>9, <1>10
  DEF SetRunning, SubmitFails, EndPass, EndExpiry, NextPass, EndAdvance, MaybeFinalize,
      SaveArtifact, SetStatus, ProcessingFails, Raise, _abandon, EndTick, TimePasses,
      PersistResult, loop, bus
<1>11. CASE UNCHANGED vars
  BY <1>9, <1>11 DEF vars, loop, bus
<1>12. QED
  BY <1>1, <1>2, <1>3, <1>4, <1>5, <1>6, <1>7, <1>8, <1>10, <1>11, NoRecovery
  DEF Next, Dispatch, Processing, RunLoop, Environment, Failure

NoRestart == Hands /\ OnceInv /\ OnlyRequested

\* What the theorems below rest on: the invariants of a task that is started once.
LEMMA NoRestartCorrect ==
    ASSUME StartedOnce
    PROVE  Spec => []NoRestart
<1>1. Init => OnceInv /\ OnlyRequested
  BY DispatchAssumption DEF StartedOnce, Init, OnceInv, OnlyRequested, Armed
<1>2. Hands /\ OnceInv /\ OnlyRequested /\ [Next]_vars => OnceInv' /\ OnlyRequested'
  BY OnceStep, OnlyRequestedStep
<1>3. QED BY <1>1, <1>2, HandsCorrect, PTL DEF Spec, NoRestart
-----------------------------------------------------------------------------
(* What a failure has cost.                                                 *)

\* The replies of a subtask that are still on their way to _route_reply.
Underway(op) == Count(inbox, op) + Count(replies, op)

\* The attempts a subtask may still lose without a further request: to the deadline
\* that runs, and to the answer to each request that has not been routed.
Losable(op) == (IF Armed(deadlines, op) THEN 1 ELSE 0) + queued[op] + Underway(op)

\* Every request pays for two lost attempts at most.
AttemptsInv ==
    /\ \A op \in plan : retry_counts[op] + Losable(op) <= 2 * sent[op]
    /\ TriedEnough

\* The counts are numbers.
LEMMA LosableType ==
    ASSUME TypeOK, NEW op \in plan
    PROVE  /\ retry_counts[op] \in Nat /\ sent[op] \in Nat /\ queued[op] \in Nat
           /\ Underway(op) \in Nat
           /\ op \in Operation /\ RETRY_MAX \in Nat
<1>1. Count(inbox, op) \in Nat /\ Count(replies, op) \in Nat
  BY CountType DEF TypeOK
<1>2. QED BY <1>1, DispatchAssumption DEF TypeOK, Underway

\* And so they are after a step.
LEMMA LosableTypeNext ==
    ASSUME TypeOK', NEW op \in Operation
    PROVE  queued'[op] \in Nat /\ Underway(op)' \in Nat
<1>1. inbox' \in Seq(Reply) /\ replies' \in Seq(Reply) /\ queued' \in [Operation -> Nat]
  BY DEF TypeOK
<1>2. Count(inbox', op) \in Nat /\ Count(replies', op) \in Nat
  BY <1>1, CountType
<1>3. QED BY <1>1, <1>2 DEF Underway

\* A step that leaves the results and the counts of a subtask alone, and adds nothing
\* it could lose, keeps what is said of it.
LEMMA AttemptsKept ==
    ASSUME TypeOK, AttemptsInv, NEW op \in plan, TypeOK', op \in plan',
           retry_counts'[op] = retry_counts[op], sent'[op] = sent[op],
           results'[op] = "failed" => results[op] = "failed",
           Armed(deadlines, op)' => Armed(deadlines, op),
           queued'[op] + Underway(op)' <= queued[op] + Underway(op)
    PROVE  /\ (retry_counts[op] + Losable(op) <= 2 * sent[op])'
           /\ (results[op] = "failed" /\ sent[op] > 0 => 2 * sent[op] >= RETRY_MAX + 1)'
<1>1. /\ retry_counts[op] \in Nat /\ sent[op] \in Nat /\ queued[op] \in Nat
      /\ Underway(op) \in Nat /\ op \in Operation
  BY LosableType
<1>2. queued'[op] \in Nat /\ Underway(op)' \in Nat
  BY <1>1, LosableTypeNext
<1>3. /\ retry_counts[op] + Losable(op) <= 2 * sent[op]
      /\ results[op] = "failed" /\ sent[op] > 0 => 2 * sent[op] >= RETRY_MAX + 1
  BY DEF AttemptsInv, TriedEnough
<1>4. QED BY <1>1, <1>2, <1>3 DEF Losable

\* A pending subtask loses an attempt: to its deadline, or to a refuse.
LEMMA AttemptLost ==
    ASSUME TypeOK, TypeOK', StateInv, AttemptsInv, NEW op \in pending, plan' = plan,
           _schedule_retry_or_fail(op), sent' = sent, queued' = queued,
           \A other \in plan : Underway(other)' <= Underway(other),
           \/ Armed(deadlines, op)
           \/ Underway(op)' + 1 <= Underway(op)
    PROVE  AttemptsInv'
<1>0. op \in plan /\ plan \subseteq Operation
  BY DispatchAssumption DEF TypeOK
<1>1. ASSUME NEW other \in plan, other # op
      PROVE  /\ (retry_counts[other] + Losable(other) <= 2 * sent[other])'
             /\ (results[other] = "failed" /\ sent[other] > 0
                   => 2 * sent[other] >= RETRY_MAX + 1)'
  <2>1. /\ retry_counts'[other] = retry_counts[other] /\ deadlines'[other] = deadlines[other]
        /\ results'[other] = results[other]
    BY <1>0, <1>1 DEF TypeOK, _schedule_retry_or_fail, _fail_subtask
  <2>2. queued'[other] + Underway(other)' <= queued[other] + Underway(other)
    <3>1. /\ queued'[other] = queued[other] /\ queued[other] \in Nat
          /\ Underway(other) \in Nat /\ Underway(other)' \in Nat
          /\ Underway(other)' <= Underway(other)
      BY <1>0, <1>1, LosableType, LosableTypeNext
    <3>2. QED BY <3>1
  <2>3. QED BY <1>1, <2>1, <2>2, AttemptsKept DEF Armed
<1>2. ~Armed(deadlines, op)'
  BY <1>0 DEF TypeOK, _schedule_retry_or_fail, _fail_subtask, Armed
<1>3. retry_counts[op] + Losable(op) <= 2 * sent[op]
  BY <1>0 DEF AttemptsInv
<1>4. /\ retry_counts[op] \in Nat /\ sent[op] \in Nat /\ queued[op] \in Nat
      /\ Underway(op) \in Nat /\ Underway(op)' \in Nat /\ RETRY_MAX \in Nat
  BY <1>0, LosableType, LosableTypeNext
<1>5. retry_counts[op] + 1 + Losable(op)' <= 2 * sent[op]
  <2>1. Losable(op)' = queued[op] + Underway(op)'
    BY <1>2, <1>4 DEF Losable
  <2>2. Losable(op) >= queued[op] + Underway(op)' + 1 /\ Losable(op) \in Nat
    <3>1. Underway(op)' <= Underway(op)
      BY <1>0
    <3>2. QED BY <1>4, <3>1 DEF Losable
  <2>3. QED BY <1>3, <1>4, <2>1, <2>2
<1>6. CASE retry_counts[op] >= RETRY_MAX /\ _fail_subtask(op)
  <2>1. retry_counts' = retry_counts /\ retry_counts[op] >= RETRY_MAX
    BY <1>6 DEF _fail_subtask
  <2>2. /\ (retry_counts[op] + Losable(op) <= 2 * sent[op])'
        /\ 2 * sent'[op] >= RETRY_MAX + 1
    <3>1. Losable(op)' \in Nat
      BY <1>2, <1>4 DEF Losable
    <3>2. QED BY <1>4, <1>5, <2>1, <3>1
  <2>3. QED BY <1>1, <2>2 DEF AttemptsInv, TriedEnough
<1>7. CASE /\ retry_counts' = [retry_counts EXCEPT ![op] = @ + 1]
           /\ results' = results
  <2>1. retry_counts'[op] = retry_counts[op] + 1 /\ results'[op] = "absent"
    BY <1>0, <1>7 DEF TypeOK, StateInv, PendingUnresolved
  <2>2. QED BY <1>1, <1>5, <2>1 DEF AttemptsInv, TriedEnough
<1>8. QED BY <1>6, <1>7 DEF _schedule_retry_or_fail

\* A request is published: what can be lost of it is paid for.
LEMMA AttemptGained ==
    ASSUME TypeOK, TypeOK', StateInv, AttemptsInv, NEW op \in pending, plan' = plan,
           _publish(op), UNCHANGED <<results, retry_counts, inbox, replies>>
    PROVE  AttemptsInv'
<1>0. op \in plan /\ plan \subseteq Operation
  BY DispatchAssumption DEF TypeOK
<1>1. ASSUME NEW other \in plan, other # op
      PROVE  /\ (retry_counts[other] + Losable(other) <= 2 * sent[other])'
             /\ (results[other] = "failed" /\ sent[other] > 0
                   => 2 * sent[other] >= RETRY_MAX + 1)'
  <2>1. /\ sent'[other] = sent[other] /\ queued'[other] = queued[other]
        /\ deadlines'[other] = deadlines[other]
    BY <1>0, <1>1 DEF TypeOK, _publish
  <2>2. retry_counts[other] + Losable(other) <= 2 * sent[other]
    BY DEF AttemptsInv
  <2>3. results[other] = "failed" /\ sent[other] > 0 => 2 * sent[other] >= RETRY_MAX + 1
    BY DEF AttemptsInv, TriedEnough
  <2>4. Losable(other)' = Losable(other)
    BY <2>1 DEF Losable, Underway, Armed
  <2>5. QED BY <2>1, <2>2, <2>3, <2>4
<1>2. /\ sent'[op] = sent[op] + 1 /\ queued'[op] = queued[op] + 1
      /\ Underway(op)' = Underway(op)
  BY <1>0 DEF TypeOK, _publish, Underway
<1>3. /\ retry_counts[op] \in Nat /\ sent[op] \in Nat /\ queued[op] \in Nat
      /\ Underway(op) \in Nat
  BY <1>0, LosableType
<1>4. retry_counts[op] + Losable(op) <= 2 * sent[op] /\ results[op] = "absent"
  BY <1>0 DEF AttemptsInv, StateInv, PendingUnresolved
<1>5. (retry_counts[op] + Losable(op) <= 2 * sent[op])'
  BY <1>2, <1>3, <1>4 DEF Losable
<1>6. QED BY <1>1, <1>4, <1>5 DEF AttemptsInv, TriedEnough
\* Handing over the oldest reply leaves fewer underway.
LEMMA RoutedUnderway ==
    ASSUME TypeOK, replies # <<>>, replies' = Tail(replies), inbox' = inbox, NEW op \in plan
    PROVE  /\ Underway(op)' <= Underway(op)
           /\ Head(replies).op = op => Underway(op)' + 1 <= Underway(op)
<1>0. replies \in Seq(Reply) /\ inbox \in Seq(Reply) /\ Tail(replies) \in Seq(Reply)
  BY DEF TypeOK
<1>1. /\ replies \in Seq(Reply)
      /\ Count(inbox, op) \in Nat /\ Count(Tail(replies), op) \in Nat
  BY <1>0, CountType
<1>2. Count(replies, op) = (IF Head(replies).op = op THEN 1 ELSE 0) + Count(Tail(replies), op)
  BY <1>1, CountTail
<1>3. QED BY <1>1, <1>2 DEF Underway

\* Every step keeps the attempts paid for.
LEMMA AttemptsStep ==
    ASSUME StartedOnce, NoRestart, AttemptsInv, [Next]_vars
    PROVE  AttemptsInv'
<1>0. /\ TypeOK /\ StateInv /\ ControlInv /\ TypeOK'
      /\ plan \subseteq Operation /\ pending \subseteq plan /\ plan' = plan
  BY StateSteps, TypeStep, DispatchAssumption DEF NoRestart, Hands, TypeOK
<1>1. ASSUME \A op \in plan :
               /\ retry_counts'[op] = retry_counts[op] /\ sent'[op] = sent[op]
               /\ results'[op] = "failed" => results[op] = "failed"
               /\ Armed(deadlines, op)' => Armed(deadlines, op)
               /\ queued'[op] + Underway(op)' <= queued[op] + Underway(op)
      PROVE  AttemptsInv'
  <2>1. \A op \in plan :
          /\ (retry_counts[op] + Losable(op) <= 2 * sent[op])'
          /\ (results[op] = "failed" /\ sent[op] > 0 => 2 * sent[op] >= RETRY_MAX + 1)'
    BY <1>0, <1>1, AttemptsKept
  <2>2. QED BY <1>0, <2>1 DEF AttemptsInv, TriedEnough
<1>2. ASSUME UNCHANGED state,
             \A op \in plan : queued'[op] + Underway(op)' <= queued[op] + Underway(op)
      PROVE  AttemptsInv'
  BY <1>1, <1>2 DEF state, Armed
<1>3. CASE UNCHANGED <<state, queued, inbox, replies>>
  <2>1. \A op \in plan : queued'[op] + Underway(op)' <= queued[op] + Underway(op)
    BY <1>0, <1>3, LosableType DEF Underway
  <2>2. QED BY <1>2, <1>3, <2>1
<1>4. CASE Register
  <2>1. /\ request = "waiting" /\ stage = "free" /\ NewTaskState({})
        /\ UNCHANGED <<replies, queued, inbox>>
    BY <1>4 DEF Register, Start, bus
  <2>2. inbox' = <<>> /\ replies' = <<>> /\ \A op \in plan : queued'[op] = 0
    BY <1>0, <2>1 DEF NoRestart, OnceInv, ControlInv
  <2>3. \A op \in plan : Losable(op)' = 0
    BY <1>0, <2>1, <2>2, CountEmpty DEF Losable, Underway, Armed, NewTaskState
  <2>4. QED BY <1>0, <2>1, <2>3 DEF AttemptsInv, TriedEnough, NewTaskState
<1>5. CASE BeginTick \/ ReadFails
  <2>1. /\ UNCHANGED <<state, queued>> /\ inbox' = Rest
        /\ replies' = replies \/ (replies = <<>> /\ replies' = Batch)
    BY <1>0, <1>5 DEF BeginTick, ReadFails, loop, ControlInv
  <2>2. \A op \in plan : Count(inbox, op) = Count(Batch, op) + Count(Rest, op)
    <3>1. BatchSize \in 0..Len(inbox) /\ inbox \in Seq(Reply)
      BY <1>0, DispatchAssumption DEF BatchSize, TypeOK
    <3>2. QED BY <3>1, CountSplit DEF Batch, Rest
  <2>3. \A op \in plan : Count(Batch, op) \in Nat /\ Count(Rest, op) \in Nat
    BY <1>0, CountType, BatchType DEF TypeOK
  <2>4. ASSUME NEW op \in plan
        PROVE  queued'[op] + Underway(op)' <= queued[op] + Underway(op)
    <3>1. queued[op] \in Nat /\ Count(replies, op) \in Nat
      BY <1>0, CountType, LosableType DEF TypeOK
    <3>2. Count(inbox', op) = Count(Rest, op)
      BY <2>1
    <3>3. CASE replies' = replies
      BY <2>1, <2>2, <2>3, <3>1, <3>2, <3>3 DEF Underway
    <3>4. CASE replies = <<>> /\ replies' = Batch
      BY <2>1, <2>2, <2>3, <3>1, <3>2, <3>4, CountEmpty DEF Underway
    <3>5. QED BY <2>1, <3>3, <3>4
  <2>5. QED BY <1>2, <2>1, <2>4
<1>6. ASSUME RouteUnexpected \/ RouteRefuse \/ RouteInform
      PROVE  /\ UNCHANGED <<queued, sent>>
             /\ \A op \in plan :
                   /\ queued[op] \in Nat /\ Underway(op) \in Nat /\ Underway(op)' \in Nat
                   /\ Underway(op)' <= Underway(op)
                   /\ Head(replies).op = op => Underway(op)' + 1 <= Underway(op)
  <2>1. /\ replies # <<>> /\ replies' = Tail(replies) /\ UNCHANGED <<inbox, queued, sent>>
    BY <1>6 DEF RouteUnexpected, RouteRefuse, RouteInform, Routing, bus, state
  <2>2. \A op \in plan : /\ Underway(op)' <= Underway(op)
                         /\ Head(replies).op = op => Underway(op)' + 1 <= Underway(op)
    BY <1>0, <2>1, RoutedUnderway
  <2>3. \A op \in plan : queued[op] \in Nat /\ Underway(op) \in Nat /\ Underway(op)' \in Nat
    BY <1>0, LosableType, LosableTypeNext
  <2>4. QED BY <2>1, <2>2, <2>3
<1>7. CASE RouteUnexpected
  BY <1>2, <1>6, <1>7 DEF RouteUnexpected
<1>8. CASE RouteRefuse
  <2>1. Head(replies).op \in pending /\ _schedule_retry_or_fail(Head(replies).op)
    BY <1>8 DEF RouteRefuse
  <2>2. QED BY <1>0, <1>6, <1>8, <2>1, AttemptLost
<1>9. CASE RouteInform
  <2>1. PICK op \in pending :
          /\ results' = [results EXCEPT ![op] = "inform"]
          /\ deadlines' = [deadlines EXCEPT ![op] = NoTimer]
    BY <1>9 DEF RouteInform
  <2>2. retry_counts' = retry_counts
    BY <1>9 DEF RouteInform
  <2>3. \A other \in plan :
          /\ results'[other] = "failed" => results[other] = "failed"
          /\ Armed(deadlines, other)' => Armed(deadlines, other)
    BY <1>0, <2>1 DEF TypeOK, Armed
  <2>4. QED BY <1>1, <1>6, <1>9, <2>2, <2>3
<1>10. ASSUME NEW op \in plan, PublishReady(op) \/ RepublishDue(op) PROVE AttemptsInv'
  <2>1. op \in pending
    BY <1>0, <1>10
    DEF PublishReady, Ready, RepublishDue, Due, StateInv, TimersCoverPending, Armed
  <2>2. _publish(op) /\ UNCHANGED <<results, retry_counts, inbox, replies>>
    BY <1>10 DEF PublishReady, RepublishDue, unchangedLoop
  <2>3. QED BY <1>0, <2>1, <2>2, AttemptGained
<1>11. ASSUME NEW op \in plan, SkipSubtask(op) PROVE AttemptsInv'
  <2>1. /\ results' = [results EXCEPT ![op] = "failed"]
        /\ deadlines' = [deadlines EXCEPT ![op] = NoTimer]
        /\ UNCHANGED <<retry_counts, sent, queued, inbox, replies>>
    BY <1>11 DEF SkipSubtask, _fail_subtask, unchangedLoop, bus
  <2>2. sent[op] = 0
    BY <1>0, <1>11 DEF SkipSubtask, Ready, StateInv, Budget
  <2>3. ASSUME NEW other \in plan
        PROVE  /\ (retry_counts[other] + Losable(other) <= 2 * sent[other])'
               /\ (results[other] = "failed" /\ sent[other] > 0
                     => 2 * sent[other] >= RETRY_MAX + 1)'
    <3>1. /\ Armed(deadlines, other)' => Armed(deadlines, other)
          /\ other # op => results'[other] = results[other]
      BY <1>0, <2>1 DEF TypeOK, Armed
    <3>2. /\ retry_counts[other] \in Nat /\ sent[other] \in Nat /\ queued[other] \in Nat
          /\ Underway(other) \in Nat /\ Underway(other)' = Underway(other)
      BY <1>0, <2>1, LosableType DEF Underway
    <3>3. /\ retry_counts[other] + Losable(other) <= 2 * sent[other]
          /\ results[other] = "failed" /\ sent[other] > 0 => 2 * sent[other] >= RETRY_MAX + 1
      BY DEF AttemptsInv, TriedEnough
    <3>4. (retry_counts[other] + Losable(other) <= 2 * sent[other])'
      BY <2>1, <3>1, <3>2, <3>3 DEF Losable
    <3>5. QED BY <2>1, <2>2, <3>1, <3>2, <3>3, <3>4
  <2>4. QED BY <1>0, <2>3 DEF AttemptsInv, TriedEnough
<1>12. ASSUME NEW op \in plan, ExpireTimeout(op) PROVE AttemptsInv'
  <2>1. op \in pending /\ Armed(deadlines, op)
    BY <1>0, <1>12 DEF ExpireTimeout, Expired, StateInv, TimersCoverPending, Armed
  <2>2. _schedule_retry_or_fail(op) /\ UNCHANGED <<sent, queued, inbox, replies>>
    BY <1>12 DEF ExpireTimeout, unchangedLoop, bus
  <2>3. \A other \in plan : Underway(other)' <= Underway(other)
    BY <1>0, <2>2, LosableType DEF Underway
  <2>4. QED BY <1>0, <2>1, <2>2, <2>3, AttemptLost
<1>13. ASSUME NEW op \in plan, NEW performative \in {"INFORM", "REFUSE"},
              AgentReplies(op, performative)
       PROVE  AttemptsInv'
  <2> DEFINE reply == [op |-> op, performative |-> performative]
  <2>1. /\ queued[op] > 0 /\ queued' = [queued EXCEPT ![op] = @ - 1]
        /\ inbox' = Append(inbox, reply) /\ UNCHANGED <<state, replies>>
    BY <1>13 DEF AgentReplies, loop
  <2>2. reply \in Reply /\ reply.op = op
    BY <1>0 DEF Reply
  <2> HIDE DEF reply
  <2>3. ASSUME NEW other \in plan
        PROVE  queued'[other] + Underway(other)' <= queued[other] + Underway(other)
    <3>1. Count(inbox', other) = Count(inbox, other) + (IF op = other THEN 1 ELSE 0)
      <4>1. inbox \in Seq(Reply)
        BY <1>0 DEF TypeOK
      <4>2. Count(Append(inbox, reply), other)
              = Count(inbox, other) + (IF reply.op = other THEN 1 ELSE 0)
        BY <2>2, <4>1, CountAppend
      <4>3. QED BY <2>1, <2>2, <4>2
    <3>2. Count(replies', other) = Count(replies, other)
      BY <2>1
    <3>3. /\ queued[other] \in Nat /\ Count(inbox, other) \in Nat /\ Count(replies, other) \in Nat
      BY <1>0, CountType, LosableType DEF TypeOK
    <3>4. queued'[other] = queued[other] - (IF op = other THEN 1 ELSE 0)
      <4>1. queued \in [Operation -> Nat]
        BY <1>0 DEF TypeOK
      <4>2. QED BY <1>0, <2>1, <4>1
    <3>5. QED BY <3>1, <3>2, <3>3, <3>4 DEF Underway
  <2>4. QED BY <1>2, <2>1, <2>3
<1>14. ASSUME NEW op \in plan, AgentSilent(op) PROVE AttemptsInv'
  <2>1. /\ queued' = [queued EXCEPT ![op] = @ - 1] /\ UNCHANGED <<state, inbox, replies>>
    BY <1>14 DEF AgentSilent, loop
  <2>2. ASSUME NEW other \in plan
        PROVE  queued'[other] + Underway(other)' <= queued[other] + Underway(other)
    <3>1. /\ queued[other] \in Nat /\ Underway(other) \in Nat
      BY <1>0, LosableType
    <3>2. queued'[other] <= queued[other] /\ queued'[other] \in Int
      <4>1. queued \in [Operation -> Nat]
        BY <1>0 DEF TypeOK
      <4>2. QED BY <1>0, <2>1, <4>1
    <3>3. Underway(other)' = Underway(other)
      BY <2>1 DEF Underway
    <3>4. QED BY <3>1, <3>2, <3>3
  <2>3. QED BY <1>2, <2>1, <2>2
<1>15. CASE \/ SetRunning \/ SubmitFails \/ EndPass \/ EndExpiry \/ NextPass \/ EndAdvance
            \/ SaveArtifact \/ SetStatus \/ ProcessingFails \/ _abandon \/ EndTick
            \/ TimePasses \/ \E op \in plan : PersistResult(op)
  BY <1>3, <1>15
  DEF SetRunning, SubmitFails, EndPass, EndExpiry, NextPass, EndAdvance, MaybeFinalize,
      SaveArtifact, SetStatus, ProcessingFails, Raise, _abandon, EndTick, TimePasses,
      PersistResult, loop, bus
<1>16. CASE UNCHANGED vars
  BY <1>3, <1>16 DEF vars, loop, bus
<1>17. QED
  BY <1>4, <1>5, <1>7, <1>8, <1>9, <1>10, <1>11, <1>12, <1>13, <1>14, <1>15, <1>16, NoRecovery
  DEF NoRestart, Next, Dispatch, Processing, RunLoop, Environment, Failure

\* A subtask that fails after it was requested was requested at least half as often as
\* it may be attempted: a request is lost twice at most, to its deadline and to its
\* late refuse, whatever is still queued, underway or scheduled.
THEOREM AlwaysTriedEnough ==
    ASSUME StartedOnce
    PROVE  Spec => []TriedEnough
<1>1. Init => AttemptsInv
  <2> SUFFICES ASSUME Init PROVE AttemptsInv
    OBVIOUS
  <2>1. \A op \in plan : Losable(op) = 0 /\ retry_counts[op] = 0 /\ sent[op] = 0
                         /\ results[op] # "failed"
    <3>1. /\ inbox = <<>> /\ replies = <<>> /\ plan \subseteq Operation
          /\ \A op \in Operation : /\ queued[op] = 0 /\ retry_counts[op] = 0 /\ sent[op] = 0
                                   /\ deadlines[op] = NoTimer /\ results[op] = "absent"
      BY DispatchAssumption DEF Init
    <3>2. \A op : Count(inbox, op) = 0 /\ Count(replies, op) = 0
      BY <3>1, CountEmpty
    <3>3. \A op : Underway(op) = 0
      BY <3>2 DEF Underway
    <3>4. \A op \in plan : (IF Armed(deadlines, op) THEN 1 ELSE 0) = 0
      BY <3>1 DEF Armed
    <3>5. ASSUME NEW op \in plan PROVE Losable(op) = 0
      <4>1. Losable(op) = 0 + 0 + 0
        BY <3>1, <3>3, <3>4, Zenon DEF Losable
      <4>2. QED BY <4>1
    <3>6. QED BY <3>1, <3>5
  <2>2. QED BY <2>1 DEF AttemptsInv, TriedEnough
<1>2. AttemptsInv => TriedEnough
  BY DEF AttemptsInv
<1>3. NoRestart /\ AttemptsInv /\ [Next]_vars => AttemptsInv'
  BY AttemptsStep
<1>4. QED BY <1>1, <1>2, <1>3, NoRestartCorrect, PTL DEF Spec
-----------------------------------------------------------------------------
(* Causes and order.                                                        *)

\* Starting the task changes no result: there is none yet.
LEMMA StartResults ==
    ASSUME StartedOnce, NoRestart, [Next]_vars, stage = "free"
    PROVE  \A op \in Operation : results'[op] = results[op]
<1>1. CASE Register
  BY <1>1 DEF Register, Start, NewTaskState, NoRestart, OnceInv
<1>2. ~_resume
  BY NoRecovery DEF NoRestart
<1>3. CASE ~Register
  BY <1>2, <1>3, StateSteps
  DEF Started, NoRestart, Hands, RouteRefuse, RouteInform, Routing, PublishReady, SkipSubtask,
      ExpireTimeout, RepublishDue, Advancing, state
<1>4. QED BY <1>1, <1>3

\* What is known of the upstreams of a subtask stays so.
LEMMA UpstreamKept ==
    ASSUME StartedOnce, NoRestart, [Next]_vars, NEW op \in plan, UpstreamResolved(op)
    PROVE  /\ UpstreamResolved(op)'
           /\ EnoughUpstream(op)' <=> EnoughUpstream(op)
<1>0. TypeOK /\ StateInv
  BY DEF NoRestart, Hands
<1>1. /\ plan' = plan /\ DependsOn(op)' = DependsOn(op) /\ DependsOn(op) \subseteq plan
      /\ plan \subseteq Operation
  BY <1>0, StateSteps, DispatchAssumption DEF DependsOn, _dependencies, TypeOK
<1>2. \A dep \in DependsOn(op) : results'[dep] = results[dep]
  BY <1>0, <1>1, ResultsKept, StartResults DEF UpstreamResolved
<1>3. QED BY <1>1, <1>2 DEF UpstreamResolved, EnoughUpstream

\* The test of _advance is the join policy.
LEMMA JoinIsEnough ==
    ASSUME NEW op \in plan
    PROVE  JoinHolds(op) <=> EnoughUpstream(op)
BY DEF JoinHolds, EnoughUpstream, Succeeded

\* A subtask is only ever requested with its upstreams resolved and its join met.
THEOREM DagRespected ==
    ASSUME StartedOnce
    PROVE  Spec => []DispatchedWhenReady
<1>1. Init => DispatchedWhenReady
  BY DispatchAssumption DEF Init, DispatchedWhenReady
<1>2. ASSUME NoRestart, DispatchedWhenReady, [Next]_vars PROVE DispatchedWhenReady'
  <2>0. plan \subseteq Operation /\ plan' = plan
    BY <1>2, StateSteps, DispatchAssumption DEF NoRestart, Hands, TypeOK
  <2>1. SUFFICES ASSUME NEW op \in plan, sent'[op] > 0
                 PROVE  UpstreamResolved(op)' /\ EnoughUpstream(op)'
    BY <2>0 DEF DispatchedWhenReady
  <2>2. SUFFICES UpstreamResolved(op) /\ EnoughUpstream(op)
    BY <1>2, UpstreamKept
  <2>3. CASE sent[op] > 0
    BY <1>2, <2>3 DEF DispatchedWhenReady
  <2>4. CASE PublishReady(op)
    BY <2>4, JoinIsEnough DEF PublishReady, Ready, UpstreamResolved
  <2>5. CASE RepublishDue(op)
    <3>1. op \in published \cap pending
      BY <1>2, <2>5
      DEF RepublishDue, Due, NoRestart, Hands, StateInv, TimersCoverPending, OnlyRequested, Armed
    <3>2. QED BY <1>2, <2>3, <3>1 DEF NoRestart, OnlyRequested
  <2>6. ASSUME ~PublishReady(op), ~RepublishDue(op) PROVE sent'[op] = sent[op] \/ sent'[op] = 0
    <3>1. CASE UNCHANGED sent
      BY <3>1
    <3>2. CASE Started
      BY <2>0, <3>2, StartedAnew DEF NewTaskState
    <3>3. ASSUME NEW other \in plan, PublishReady(other) \/ RepublishDue(other)
          PROVE  sent'[op] = sent[op]
      BY <1>2, <2>0, <2>6, <3>3 DEF PublishReady, RepublishDue, _publish, NoRestart, Hands, TypeOK
    <3>4. QED
      BY <1>2, <3>1, <3>2, <3>3, StateSteps
      DEF NoRestart, Hands, state, RouteRefuse, RouteInform, SkipSubtask, ExpireTimeout
  <2>7. QED BY <2>1, <2>3, <2>4, <2>5, <2>6
<1>3. QED BY <1>1, <1>2, NoRestartCorrect, PTL DEF Spec

\* A subtask fails because its upstreams do not meet its join policy, or because
\* every retry it has was used: nothing else makes it fail.
THEOREM FailuresHaveCause ==
    ASSUME StartedOnce
    PROVE  Spec => []FailureHasCause
<1>1. Init => FailureHasCause
  BY DispatchAssumption DEF Init, FailureHasCause
<1>2. ASSUME NoRestart, FailureHasCause, [Next]_vars PROVE FailureHasCause'
  <2>0. plan \subseteq Operation /\ pending \subseteq plan /\ plan' = plan
    BY <1>2, StateSteps, DispatchAssumption DEF NoRestart, Hands, TypeOK
  <2> DEFINE Cause(op) == \/ sent[op] = 0 /\ UpstreamResolved(op) /\ ~EnoughUpstream(op)
                          \/ sent[op] > 0 /\ retry_counts[op] = RETRY_MAX
  <2>1. SUFFICES ASSUME NEW op \in plan, results'[op] = "failed" PROVE Cause(op)'
    BY <2>0 DEF FailureHasCause
  \* A cause outlives every step that leaves the counts of the subtask alone.
  <2>2. ASSUME Cause(op), sent'[op] = sent[op], retry_counts'[op] = retry_counts[op]
        PROVE  Cause(op)'
    BY <1>2, <2>2, UpstreamKept
  <2>3. ASSUME NEW other \in published \cap pending, _schedule_retry_or_fail(other),
               UNCHANGED sent
        PROVE  Cause(op)'
    <3>1. CASE op = other
      <4>1. results[op] = "absent" /\ sent[op] > 0 /\ op \in Operation
        BY <1>2, <2>0, <2>3, <3>1
        DEF NoRestart, Hands, StateInv, PendingUnresolved, OnlyRequested
      <4>2. retry_counts[op] >= RETRY_MAX /\ _fail_subtask(op)
        BY <2>1, <2>3, <3>1, <4>1 DEF _schedule_retry_or_fail
      <4>3. retry_counts[op] = RETRY_MAX /\ retry_counts' = retry_counts
        BY <1>2, <4>1, <4>2, DispatchAssumption DEF _fail_subtask, NoRestart, Hands, TypeOK
      <4>4. QED BY <2>3, <4>1, <4>3
    <3>2. CASE op # other
      <4>1. results' = results \/ results' = [results EXCEPT ![other] = "failed"]
        BY <2>3 DEF _schedule_retry_or_fail, _fail_subtask
      <4>2. retry_counts'[op] = retry_counts[op]
        BY <1>2, <2>0, <2>3, <3>2 DEF _schedule_retry_or_fail, _fail_subtask, NoRestart, Hands, TypeOK
      <4>3. results[op] = "failed"
        BY <1>2, <2>0, <2>1, <3>2, <4>1 DEF NoRestart, Hands, TypeOK
      <4>4. QED BY <1>2, <2>2, <2>3, <4>2, <4>3 DEF FailureHasCause
    <3>3. QED BY <3>1, <3>2
  <2>4. CASE RouteRefuse
    <3>1. Head(replies).op \in published
      <4>1. Head(replies) = replies[1] /\ 1 \in 1..Len(replies)
        BY <1>2, <2>4 DEF RouteRefuse, Routing, NoRestart, Hands, TypeOK
      <4>2. QED BY <1>2, <4>1 DEF NoRestart, Hands, OnlyRequested
    <3>2. QED BY <2>3, <2>4, <3>1 DEF RouteRefuse
  <2>5. ASSUME NEW other \in plan, ExpireTimeout(other) PROVE Cause(op)'
    <3>1. other \in published \cap pending
      BY <1>2, <2>5
      DEF ExpireTimeout, Expired, NoRestart, Hands, StateInv, TimersCoverPending, OnlyRequested, Armed
    <3>2. QED BY <2>3, <2>5, <3>1 DEF ExpireTimeout
  <2>6. ASSUME NEW other \in plan, SkipSubtask(other) PROVE Cause(op)'
    <3>1. results' = [results EXCEPT ![other] = "failed"] /\ UNCHANGED <<sent, retry_counts>>
      BY <2>6 DEF SkipSubtask, _fail_subtask
    <3>2. CASE op = other
      <4>1. sent[op] = 0
        BY <1>2, <2>6, <3>2 DEF SkipSubtask, Ready, NoRestart, Hands, StateInv, Budget
      <4>2. UpstreamResolved(op) /\ ~EnoughUpstream(op)
        BY <2>6, <3>2, JoinIsEnough DEF SkipSubtask, Ready, UpstreamResolved
      <4>3. QED BY <2>2, <3>1, <4>1, <4>2
    <3>3. CASE op # other
      <4>1. results[op] = "failed"
        BY <1>2, <2>0, <2>1, <3>1, <3>3 DEF NoRestart, Hands, TypeOK
      <4>2. QED BY <1>2, <2>2, <3>1, <4>1 DEF FailureHasCause
    <3>4. QED BY <3>2, <3>3
  <2>7. ASSUME NEW other \in plan, PublishReady(other) \/ RepublishDue(other) PROVE Cause(op)'
    <3>1. results' = results /\ retry_counts' = retry_counts
          /\ sent' = [sent EXCEPT ![other] = @ + 1]
      BY <2>7 DEF PublishReady, RepublishDue, _publish
    <3>2. other \in pending
      BY <1>2, <2>7
      DEF PublishReady, Ready, RepublishDue, Due, NoRestart, Hands, StateInv, TimersCoverPending, Armed
    <3>3. results[op] = "failed" /\ op # other
      BY <1>2, <2>1, <3>1, <3>2 DEF NoRestart, Hands, StateInv, PendingUnresolved
    <3>4. sent'[op] = sent[op]
      BY <1>2, <2>0, <3>1, <3>3 DEF NoRestart, Hands, TypeOK
    <3>5. QED BY <1>2, <2>2, <3>1, <3>3, <3>4 DEF FailureHasCause
  <2>8. CASE RouteInform
    <3>1. PICK other \in pending : results' = [results EXCEPT ![other] = "inform"]
      BY <2>8 DEF RouteInform
    <3>2. results[op] = "failed"
      BY <1>2, <2>0, <2>1, <3>1 DEF NoRestart, Hands, TypeOK
    <3>3. UNCHANGED <<sent, retry_counts>>
      BY <2>8 DEF RouteInform
    <3>4. QED BY <1>2, <2>2, <3>2, <3>3 DEF FailureHasCause
  <2>9. CASE Started
    BY <2>0, <2>1, <2>9, StartedAnew DEF NewTaskState
  <2>10. CASE UNCHANGED state
    BY <1>2, <2>1, <2>2, <2>10 DEF state, FailureHasCause
  <2>11. QED
    BY <1>2, <2>4, <2>5, <2>6, <2>7, <2>8, <2>9, <2>10, StateSteps DEF NoRestart, Hands
<1>3. QED BY <1>1, <1>2, NoRestartCorrect, PTL DEF Spec
-----------------------------------------------------------------------------
(* The refinement.                                                          *)

\* Nor is the answer to a committed write ever lost.
Answered == StartedOnce /\ "lost" \notin Faults

\* The row says RUNNING from submit until the task is settled.
RunningInv ==
    /\ request = "new" => db_status = "planning"
    /\ request = "waiting" => db_status = "running"
    /\ registered \/ stage # "free" => db_status = "running"

\* Without a lost answer the row, the table and the control state agree at every step.
LEMMA RunningStep ==
    ASSUME Answered, NoRestart, RunningInv, [Next]_vars
    PROVE  RunningInv'
<1> USE DEF RunningInv
<1>0. StartedOnce /\ OnceInv /\ ControlInv /\ ("lost" \notin Faults)
  BY DEF Answered, NoRestart, Hands
<1>1. CASE UNCHANGED <<request, registered, stage, db_status>>
  BY <1>1
<1>2. CASE SetRunning
  BY <1>2 DEF SetRunning, loop
<1>3. CASE SubmitFails
  <2>1. request = "new" /\ request' = "done" /\ UNCHANGED <<registered, stage, db_status>>
    BY <1>0, <1>3 DEF SubmitFails, Fault, loop
  <2>2. ~registered /\ stage = "free"
    BY <1>0, <2>1 DEF OnceInv, ControlInv
  <2>3. QED BY <2>1, <2>2
<1>4. CASE Register
  BY <1>4 DEF Register, Start, db
<1>5. CASE BeginTick
  <2>1. /\ stage' = stage \/ registered
        /\ UNCHANGED <<request, registered, db_status>>
    BY <1>5 DEF BeginTick, http, db
  <2>2. QED BY <2>1
<1>6. CASE \/ RouteUnexpected \/ RouteRefuse \/ RouteInform \/ ReadFails
           \/ EndTick \/ \E op \in plan : PersistResult(op)
           \/ \E op \in plan : PublishReady(op) \/ SkipSubtask(op)
                               \/ ExpireTimeout(op) \/ RepublishDue(op)
  BY <1>1, <1>6
  DEF RouteUnexpected, RouteRefuse, RouteInform, ReadFails, EndTick, PersistResult, PublishReady,
      SkipSubtask, ExpireTimeout, RepublishDue, unchangedLoop, loop, http, db
<1>7. CASE EndPass \/ EndExpiry \/ NextPass \/ EndAdvance
  <2>1. stage # "free" /\ UNCHANGED <<request, registered, db_status>>
    BY <1>7 DEF EndPass, EndExpiry, NextPass, EndAdvance, LoopDone, Advancing, MaybeFinalize,
       http, db
  <2>2. request = "done"
    BY <1>0, <2>1 DEF OnceInv, ControlInv
  <2>3. QED BY <2>1, <2>2
<1>8. CASE SaveArtifact
  BY <1>8 DEF SaveArtifact, WriteArtifact, http
<1>9. CASE SetStatus \/ _abandon
  <2>1. stage # "free" /\ stage' = "free" /\ ~registered' /\ request' = request
    BY <1>0, <1>9 DEF SetStatus, _abandon, LockReleased, http, ControlInv
  <2>2. request = "done"
    BY <1>0, <2>1 DEF OnceInv, ControlInv
  <2>3. QED BY <2>1, <2>2
<1>10. CASE ProcessingFails
  <2>1. stage # "free" /\ UNCHANGED <<request, db_status>>
    BY <1>0, <1>10 DEF ProcessingFails, Fault, Advancing, Raise, http, db
  <2>2. request = "done"
    BY <1>0, <2>1 DEF OnceInv, ControlInv
  <2>3. QED BY <2>1, <2>2
<1>11. CASE AgentStep \/ TimePasses
  BY <1>1, <1>11 DEF AgentStep, AgentReplies, AgentSilent, TimePasses, loop, http, db
<1>12. CASE UNCHANGED vars
  BY <1>1, <1>12 DEF vars, loop, http, db
<1>13. QED
  BY <1>0, <1>2, <1>3, <1>4, <1>5, <1>6, <1>7, <1>8, <1>9, <1>10, <1>11, <1>12, NoRecovery
  DEF Next, Dispatch, Processing, RunLoop, Environment, Failure, AgentStep

\* What a step of the dispatch is to a client: nothing, or a step of the abstract task.
LEMMA StepRefines ==
    ASSUME Answered, NoRestart, RunningInv, [Next]_vars
    PROVE  [Abstract!Next]_<<plan, results, db_status>>
<1>0. /\ TypeOK /\ StateInv /\ plan \subseteq Operation /\ pending \subseteq plan /\ plan' = plan
      /\ StartedOnce /\ ("lost" \notin Faults)
  BY StateSteps, DispatchAssumption DEF Answered, NoRestart, Hands, TypeOK
<1>1. CASE SetRunning
  <2>1. Abstract!Begin
    BY <1>1 DEF SetRunning, Abstract!Begin, RunningInv, state
  <2>2. QED BY <2>1 DEF Abstract!Next
<1>2. ASSUME NEW op \in pending, NEW verdict \in {"failed", "inform"},
             results' = [results EXCEPT ![op] = verdict],
             stage # "free", UNCHANGED db_status
      PROVE  Abstract!Next
  <2>1. Abstract!Resolve(op)
    BY <1>0, <1>2 DEF Abstract!Resolve, RunningInv, StateInv, PendingUnresolved
  <2>2. QED BY <1>0, <2>1 DEF Abstract!Next
<1>3. ASSUME NEW op \in pending, _schedule_retry_or_fail(op),
             stage # "free", UNCHANGED db_status
      PROVE  [Abstract!Next]_<<plan, results, db_status>>
  <2>1. results' = results \/ results' = [results EXCEPT ![op] = "failed"]
    BY <1>3 DEF _schedule_retry_or_fail, _fail_subtask
  <2>2. QED BY <1>0, <1>2, <1>3, <2>1
<1>4. CASE RouteRefuse
  BY <1>3, <1>4 DEF RouteRefuse, Routing, db
<1>5. CASE RouteInform
  <2>1. PICK op \in pending : results' = [results EXCEPT ![op] = "inform"]
    BY <1>5 DEF RouteInform
  <2>2. stage # "free" /\ UNCHANGED db_status
    BY <1>5 DEF RouteInform, Routing, db
  <2>3. QED BY <1>2, <2>1, <2>2
<1>6. ASSUME NEW op \in plan, ExpireTimeout(op)
      PROVE  [Abstract!Next]_<<plan, results, db_status>>
  <2>1. op \in pending
    BY <1>0, <1>6 DEF ExpireTimeout, Expired, StateInv, TimersCoverPending, Armed
  <2>2. QED BY <1>3, <1>6, <2>1 DEF ExpireTimeout, db
<1>7. ASSUME NEW op \in plan, SkipSubtask(op)
      PROVE  [Abstract!Next]_<<plan, results, db_status>>
  <2>1. op \in pending /\ stage # "free" /\ UNCHANGED db_status
        /\ results' = [results EXCEPT ![op] = "failed"]
    BY <1>7 DEF SkipSubtask, Ready, Advancing, _fail_subtask, db
  <2>2. QED BY <1>2, <2>1
<1>8. CASE SetStatus
  <2>1. UNCHANGED <<plan, results>> /\ db_status = "running" /\ db_status' = determine_final_status
    BY <1>8 DEF SetStatus, WriteStatus, state, RunningInv
  <2>2. Abstract!Success = Completed
    BY DEF Abstract!Success, Completed
  <2>3. Abstract!Verdict(determine_final_status)
    BY <2>2 DEF Abstract!Verdict, determine_final_status, Completed
  <2>4. determine_final_status \in Abstract!Final
    BY DEF determine_final_status, Abstract!Final
  <2>5. Abstract!Settle
    BY <2>1, <2>3, <2>4 DEF Abstract!Settle
  <2>6. QED BY <2>5 DEF Abstract!Next
<1>9. CASE _abandon
  <2>1. UNCHANGED <<plan, results>> /\ db_status = "running" /\ db_status' \in {"failed", db_status}
    BY <1>9 DEF _abandon, state, RunningInv
  <2>2. CASE db_status' = db_status
    BY <2>1, <2>2
  <2>3. CASE db_status' = "failed"
    <3>1. Abstract!Settle
      BY <2>1, <2>3 DEF Abstract!Settle, Abstract!Final
    <3>2. QED BY <3>1 DEF Abstract!Next
  <2>4. QED BY <2>1, <2>2, <2>3
<1>10. CASE UNCHANGED <<plan, results, db_status>>
  BY <1>10
<1>11. CASE Register
  <2>1. results' = results /\ db_status' = db_status
    BY <1>11 DEF Register, Start, NewTaskState, NoRestart, OnceInv, db
  <2>2. QED BY <1>0, <1>10, <2>1
<1>12. CASE \/ SubmitFails \/ BeginTick \/ ReadFails \/ RouteUnexpected \/ EndPass \/ EndExpiry
            \/ NextPass \/ EndAdvance \/ SaveArtifact \/ EndTick
            \/ \E op \in plan : PublishReady(op) \/ RepublishDue(op) \/ PersistResult(op)
  <2>1. UNCHANGED <<results, db_status>>
    BY <1>0, <1>12
    DEF SubmitFails, Fault, BeginTick, ReadFails, RouteUnexpected, EndPass, EndExpiry, NextPass,
        EndAdvance, MaybeFinalize, SaveArtifact, WriteArtifact, EndTick, PublishReady,
        RepublishDue, PersistResult, state, db
  <2>2. QED BY <1>0, <1>10, <2>1
<1>13. CASE ProcessingFails
  <2>1. UNCHANGED <<results, db_status>>
    BY <1>0, <1>13 DEF ProcessingFails, Fault, Raise, state, db
  <2>2. QED BY <1>0, <1>10, <2>1
<1>14. CASE AgentStep \/ TimePasses \/ UNCHANGED vars
  BY <1>0, <1>10, <1>14 DEF AgentStep, AgentReplies, AgentSilent, TimePasses, vars, state, db
<1>15. ~Crash /\ ~LoadInFlight /\ ~_resume
  BY <1>0, NoRecovery DEF NoRestart
<1>16. QED
  BY <1>1, <1>4, <1>5, <1>6, <1>7, <1>8, <1>9, <1>11, <1>12, <1>13, <1>14, <1>15
  DEF Next, Dispatch, Processing, RunLoop, Environment, Failure, AgentStep

\* Apart from restarts, a recovery at the same time and lost answers, the dispatch of a
\* task implements the abstract task.
THEOREM Refinement ==
    ASSUME Answered
    PROVE  Spec => ImplementsTask
<1>0. StartedOnce
  BY DEF Answered
<1>1. Init => Abstract!Init
  BY DEF Init, Abstract!Init
<1>2. Init => RunningInv
  BY DEF Init, RunningInv
<1>3. NoRestart /\ RunningInv /\ [Next]_vars => RunningInv'
  BY RunningStep
<1>4. NoRestart /\ RunningInv /\ [Next]_vars => [Abstract!Next]_<<plan, results, db_status>>
  BY StepRefines
<1>5. Spec => []NoRestart
  BY <1>0, NoRestartCorrect
<1>6. QED BY <1>1, <1>2, <1>3, <1>4, <1>5, PTL DEF Spec, ImplementsTask, Abstract!Spec

=============================================================================
