------------------------- MODULE TaskDispatchProofs -------------------------
(***************************************************************************)
(* Proofs about the dispatch of a task, for any set of plans, any retry     *)
(* policy and any bound.                                                    *)
(***************************************************************************)
EXTENDS TaskDispatch, TLAPS

USE DEF NoTimer

\* What XREADGROUP hands over, and what it leaves, are replies.
LEMMA BatchType ==
    ASSUME inbox \in Seq(Reply)
    PROVE  Batch \in Seq(Reply) /\ Rest \in Seq(Reply)
BY DispatchAssumption DEF Batch, Rest, BatchSize

\* A scheduled retry or a failure keeps the types of what it touches.
LEMMA ScheduleType ==
    ASSUME TypeOK, NEW op \in plan, _schedule_retry_or_fail(op)
    PROVE  /\ pending' \subseteq plan
           /\ published' \subseteq plan
           /\ results' \in [Operation -> Results]
           /\ retry_counts' \in [Operation -> 0..RETRY_MAX]
           /\ deadlines' \in [Operation -> Nat \cup {NoTimer}]
           /\ retry_at' \in [Operation -> Nat \cup {NoTimer}]
<1>1. plan \subseteq Operation
  BY DispatchAssumption DEF TypeOK
<1>2. CASE retry_counts[op] >= RETRY_MAX /\ _fail_subtask(op)
  BY <1>1, <1>2 DEF TypeOK, _fail_subtask, Results
<1>3. CASE /\ retry_counts[op] < RETRY_MAX
           /\ retry_counts' = [retry_counts EXCEPT ![op] = @ + 1]
           /\ retry_at' = [retry_at EXCEPT ![op] = now + BACKOFF_SECONDS[retry_counts[op] + 1]]
           /\ deadlines' = [deadlines EXCEPT ![op] = NoTimer]
           /\ UNCHANGED <<results, published, pending>>
  <2>1. retry_counts[op] \in Nat /\ retry_counts[op] + 1 \in 1..RETRY_MAX
    BY <1>1, <1>3, DispatchAssumption DEF TypeOK
  <2>2. now + BACKOFF_SECONDS[retry_counts[op] + 1] \in Nat
    BY <2>1, DispatchAssumption DEF TypeOK
  <2>3. retry_counts' \in [Operation -> 0..RETRY_MAX]
    BY <1>3, <2>1, DispatchAssumption DEF TypeOK
  <2>4. QED BY <1>3, <2>2, <2>3 DEF TypeOK
<1>4. QED BY <1>2, <1>3 DEF _schedule_retry_or_fail

\* A publish keeps the types of what it touches.
LEMMA PublishType ==
    ASSUME TypeOK, NEW op \in plan, _publish(op)
    PROVE  /\ published' \subseteq plan
           /\ sent' \in [Operation -> Nat]
           /\ queued' \in [Operation -> Nat]
           /\ deadlines' \in [Operation -> Nat \cup {NoTimer}]
<1>1. op \in Operation
  BY DispatchAssumption DEF TypeOK
<1>2. now + AGENT_TIMEOUTS_SEC[op] \in Nat
  BY <1>1, DispatchAssumption DEF TypeOK
<1>3. QED BY <1>1, <1>2 DEF TypeOK, _publish

\* A fresh or a recovered TaskState is of the right type.
LEMMA StartType ==
    ASSUME TypeOK, NEW who \in {"submit", "resume"}, NEW loaded \in SUBSET plan, Start(who, loaded)
    PROVE  /\ pending' \subseteq plan
           /\ published' \subseteq plan
           /\ results' \in [Operation -> Results]
           /\ retry_counts' \in [Operation -> 0..RETRY_MAX]
           /\ deadlines' \in [Operation -> Nat \cup {NoTimer}]
           /\ retry_at' \in [Operation -> Nat \cup {NoTimer}]
           /\ sent' \in [Operation -> Nat]
           /\ now' \in Nat /\ started_at' \in Nat
           /\ caller' \in {"submit", "resume"}
           /\ registered' \in BOOLEAN
           /\ stage' \in {"save_artifact", "advance"}
           /\ todo' \subseteq plan /\ changed' \in BOOLEAN /\ drives' \in 0..2
           /\ UNCHANGED <<pc, replies, jobs>>
<1>1. /\ now' = clock /\ started_at' = clock /\ caller' = who
      /\ drives' \in {1, 2} /\ UNCHANGED <<pc, replies, jobs>>
  BY DEF Start
<1>2. /\ stage' \in {"save_artifact", "advance"}
      /\ todo' \subseteq plan /\ changed' \in BOOLEAN
  BY DEF Start, BeginPass, NoPass
<1>3. registered' \in BOOLEAN
  BY Zenon DEF Start
<1>4. QED
  BY <1>1, <1>2, <1>3, DispatchAssumption DEF TypeOK, Start, NewTaskState, Results

\* An assembled artifact is one, and its status is a terminal one.
LEMMA ArtifactType ==
    ASSUME TypeOK
    PROVE  /\ determine_final_status \in Terminal
           /\ assemble_artifact \in [status : {"none"} \cup Terminal,
                                     operations : SUBSET Operation, degraded : SUBSET Operation,
                                     retries : [Operation -> Nat]]
<1>1. determine_final_status \in Terminal
  BY DEF determine_final_status, Terminal
<1>2. Completed \subseteq Operation /\ plan \ Completed \subseteq Operation
  BY DispatchAssumption DEF TypeOK, Completed
<1>3. [op \in Operation |-> IF op \in plan \ Completed THEN retry_counts[op] ELSE 0]
        \in [Operation -> Nat]
  BY DispatchAssumption DEF TypeOK
<1>4. QED BY <1>1, <1>2, <1>3 DEF assemble_artifact

\* The lock is released by the run loop or by submit.
LEMMA ReleaseType ==
    ASSUME TypeOK, LockReleased
    PROVE  /\ pc' \in {"starting", "loaded", "idle", "tick", "persist", "dead", "down"}
           /\ stage' = "free"
BY DEF TypeOK, LockReleased

\* Every step, of the coroutines, the environment or a failure, keeps the types.
LEMMA TypeStep ==
    ASSUME TypeOK, [Next]_vars
    PROVE  TypeOK'
<1> USE DEF TypeOK, loop, pass, http, unchangedLoop
<1>0. plan \subseteq Operation
  BY DispatchAssumption
<1>1. CASE SetRunning \/ SubmitFails
  <2>1. /\ request' \in {"waiting", "done"} /\ db_status' \in {db_status, "running"}
        /\ faults' \in Nat
    BY <1>1 DEF SetRunning, SubmitFails, Fault, env
  <2>2. UNCHANGED <<plan, state, loop, drives, bus, artifact, saved, clock>>
    BY <1>1 DEF SetRunning, SubmitFails, env
  <2>3. QED BY <2>1, <2>2 DEF state, bus
<1>2. CASE Register
  <2>1. {} \in SUBSET plan OBVIOUS
  <2>2. Start("submit", {}) BY <1>2 DEF Register
  <2>3. QED BY <1>2, <2>1, <2>2, StartType DEF Register, bus, db, env
<1>3. CASE _resume
  <2>1. saved \cap plan \in SUBSET plan OBVIOUS
  <2>2. Start("resume", saved \cap plan) BY <1>3 DEF _resume
  <2>3. QED BY <1>3, <2>1, <2>2, StartType DEF _resume, bus, db, env
<1>4. CASE LoadInFlight
  BY <1>4 DEF LoadInFlight, state, bus, db, env
<1>5. CASE BeginTick
  <2>1. inbox' \in Seq(Reply) /\ replies' \in Seq(Reply)
    BY <1>5, BatchType DEF BeginTick
  <2>2. /\ now' \in Nat /\ caller' \in {"submit", "tick", "resume"}
        /\ pc' \in {pc, "tick"} /\ stage' \in {stage, "advance"}
    BY <1>5 DEF BeginTick
  <2>3. todo' \subseteq plan /\ changed' \in BOOLEAN
    BY <1>5 DEF BeginTick, BeginPass
  <2>4. QED BY <1>5, <2>1, <2>2, <2>3 DEF BeginTick, state, db, env
<1>6. CASE ReadFails
  BY <1>6, BatchType DEF ReadFails, Fault, state, db
<1>7. CASE RouteUnexpected
  BY <1>7 DEF RouteUnexpected, Routing, state, bus, db, env
<1>8. CASE RouteRefuse
  <2>1. Head(replies).op \in plan
    BY <1>8 DEF RouteRefuse
  <2>2. replies' \in Seq(Reply)
    BY <1>8 DEF RouteRefuse, Routing
  <2>3. QED BY <1>8, <2>1, <2>2, ScheduleType DEF RouteRefuse, bus, db, env
<1>9. CASE RouteInform
  <2>1. PICK op \in pending :
          /\ results' = [results EXCEPT ![op] = "inform"]
          /\ deadlines' = [deadlines EXCEPT ![op] = NoTimer]
          /\ retry_at' = [retry_at EXCEPT ![op] = NoTimer]
          /\ pending' = pending \ {op}
          /\ jobs' = jobs \cup {op}
    BY <1>9 DEF RouteInform
  <2>2. replies' \in Seq(Reply)
    BY <1>9 DEF RouteInform, Routing
  <2>3. op \in Operation /\ op \in plan
    BY <1>0
  <2>4. /\ results' \in [Operation -> Results] /\ pending' \subseteq plan /\ jobs' \subseteq plan
        /\ deadlines' \in [Operation -> Nat \cup {NoTimer}]
        /\ retry_at' \in [Operation -> Nat \cup {NoTimer}]
    BY <2>1, <2>3 DEF Results
  <2>5. UNCHANGED <<plan, published, retry_counts, sent, pc, stage, caller, registered, now,
                    started_at, pass, http, bus, db, env>>
    BY <1>9 DEF RouteInform
  <2>6. QED BY <2>2, <2>4, <2>5 DEF bus, db, env
<1>10. ASSUME NEW op \in plan, PublishReady(op) PROVE TypeOK'
  <2>1. todo' \subseteq plan /\ changed' = TRUE
    BY <1>10 DEF PublishReady, Visit
  <2>2. _publish(op)
    BY <1>10 DEF PublishReady
  <2>3. QED BY <1>10, <2>1, <2>2, PublishType DEF PublishReady, db, env
<1>11. ASSUME NEW op \in plan, SkipSubtask(op) PROVE TypeOK'
  <2>1. todo' \subseteq plan /\ changed' = TRUE
    BY <1>11 DEF SkipSubtask, Visit
  <2>2. QED BY <1>0, <1>11, <2>1 DEF SkipSubtask, _fail_subtask, Results, bus, db, env
<1>12. ASSUME NEW op \in plan, ExpireTimeout(op) PROVE TypeOK'
  BY <1>12, ScheduleType DEF ExpireTimeout, bus, db, env
<1>13. ASSUME NEW op \in plan, RepublishDue(op) PROVE TypeOK'
  <2>1. retry_at' \in [Operation -> Nat \cup {NoTimer}] /\ changed' = TRUE
    BY <1>13 DEF RepublishDue
  <2>2. _publish(op)
    BY <1>13 DEF RepublishDue
  <2>3. UNCHANGED <<plan, pending, results, retry_counts, unchangedLoop, todo, http, inbox, db, env>>
    BY <1>13 DEF RepublishDue
  <2>4. QED BY <2>1, <2>2, <2>3, PublishType DEF db, env
<1>14. CASE EndPass \/ EndExpiry \/ NextPass
  <2>1. /\ stage' \in {"advance", "expire", "republish"}
        /\ todo' \in {todo, {}, plan} /\ changed' \in {changed, FALSE}
    BY <1>14 DEF EndPass, EndExpiry, NextPass, BeginPass
  <2>2. UNCHANGED <<plan, state, pc, caller, registered, now, started_at, replies, jobs, http,
                    bus, db, env>>
    BY <1>14 DEF EndPass, EndExpiry, NextPass
  <2>3. changed' \in BOOLEAN
    BY <2>1
  <2>4. QED BY <2>1, <2>2, <2>3 DEF state, bus, db, env
<1>15. CASE EndAdvance
  <2>1. stage' \in {"free", "save_artifact"}
        /\ pc' \in {"starting", "loaded", "idle", "tick", "persist", "dead", "down"}
    BY <1>15, ReleaseType DEF EndAdvance, MaybeFinalize
  <2>2. todo' = {} /\ changed' = FALSE
    BY <1>15 DEF EndAdvance, NoPass
  <2>3. QED BY <1>15, <2>1, <2>2 DEF EndAdvance, MaybeFinalize, state, bus, db, env
<1>16. CASE SaveArtifact
  BY <1>16, ArtifactType DEF SaveArtifact, WriteArtifact, state, bus, env
<1>17. CASE SetStatus
  BY <1>17, ArtifactType, ReleaseType DEF SetStatus, WriteStatus, state, bus, env
<1>18. CASE ProcessingFails
  <2>1. stage' \in {"free", "abandon"} /\ pc' \in {pc, "dead"} /\ todo' = {} /\ changed' = FALSE
    BY <1>18 DEF ProcessingFails, Raise, NoPass
  <2>2. registered' \in BOOLEAN
    BY <1>18, Zenon DEF ProcessingFails, Raise
  <2>3. /\ faults' \in Nat
        /\ UNCHANGED db \/ WriteArtifact \/ WriteStatus
    BY <1>18 DEF ProcessingFails, Fault
  <2>4. UNCHANGED <<plan, state, caller, now, started_at, replies, jobs, http, bus, clock>>
    BY <1>18 DEF ProcessingFails, Raise
  <2>5. /\ db_status' \in {"planning", "running"} \cup Terminal
        /\ artifact' \in [status : {"none"} \cup Terminal,
                          operations : SUBSET Operation, degraded : SUBSET Operation,
                          retries : [Operation -> Nat]]
        /\ saved' = saved
    BY <2>3, ArtifactType DEF WriteArtifact, WriteStatus, db
  <2>6. QED BY <2>1, <2>2, <2>3, <2>4, <2>5 DEF state, bus
<1>19. CASE _abandon
  BY <1>19, ReleaseType DEF _abandon, Fault, state, bus, Terminal
<1>20. ASSUME NEW op \in plan, PersistResult(op) PROVE TypeOK'
  BY <1>20 DEF PersistResult, state, bus, env
<1>21. CASE EndTick
  BY <1>21 DEF EndTick, state, bus, db, env
<1>22. ASSUME NEW op \in plan, NEW performative \in {"INFORM", "REFUSE"},
              AgentReplies(op, performative)
       PROVE  TypeOK'
  <2>1. [op |-> op, performative |-> performative] \in Reply
    BY <1>0 DEF Reply
  <2>2. inbox' \in Seq(Reply) /\ queued' \in [Operation -> Nat]
    BY <1>0, <1>22, <2>1 DEF AgentReplies
  <2>3. UNCHANGED <<plan, state, loop, http, db, env>>
    BY <1>22 DEF AgentReplies
  <2>4. QED BY <2>2, <2>3 DEF state, db, env
<1>23. ASSUME NEW op \in plan, AgentSilent(op) PROVE TypeOK'
  BY <1>0, <1>23 DEF AgentSilent, state, db, env
<1>24. CASE TimePasses
  BY <1>24 DEF TimePasses, state, bus, db
<1>25. CASE Crash
  <2>1. PICK lost \in SUBSET {op \in Operation : queued[op] > 0} :
          queued' = [op \in Operation |-> IF op \in lost THEN queued[op] - 1 ELSE queued[op]]
    BY <1>25 DEF Crash
  <2>2. \A op \in Operation : queued'[op] \in Nat
    BY <2>1
  <2>3. queued' \in [Operation -> Nat]
    BY <2>1, <2>2
  <2>4. registered' \in BOOLEAN
    BY <1>25 DEF Crash
  <2>5. /\ replies' \in Seq(Reply) /\ jobs' \subseteq plan /\ todo' \subseteq plan
        /\ changed' \in BOOLEAN
    <3>1. replies' = <<>> /\ jobs' = {} /\ todo' = {} /\ changed' = FALSE
      BY <1>25 DEF Crash, NoPass
    <3>2. replies' \in Seq(Reply)
      BY <3>1
    <3>3. changed' \in BOOLEAN
      BY <3>1
    <3>4. QED BY <3>1, <3>2, <3>3
  <2>9. drives' \in 0..2
    <3>1. drives' = 2 \/ drives' = 0
      BY <1>25 DEF Crash
    <3>2. QED BY <3>1
  <2>6. faults' \in Nat
    BY <1>25 DEF Crash, Fault
  <2>7. /\ pc' = "down" /\ stage' = "free" /\ request' = "done"
        /\ clock' = 0
        /\ UNCHANGED <<plan, state, caller, now, started_at, inbox, db>>
    BY <1>25 DEF Crash
  <2>8. QED BY <2>3, <2>4, <2>5, <2>9, <2>6, <2>7 DEF state, db
<1>26. CASE UNCHANGED vars
  BY <1>26 DEF vars, state, bus, db, env
<1>27. QED
  BY <1>1, <1>2, <1>3, <1>4, <1>5, <1>6, <1>7, <1>8, <1>9, <1>10, <1>11, <1>12, <1>13,
     <1>14, <1>15, <1>16, <1>17, <1>18, <1>19, <1>20, <1>21, <1>22, <1>23, <1>24, <1>25, <1>26
  DEF Next, Dispatch, Processing, RunLoop, Environment, Failure

\* Every variable keeps its type.
THEOREM TypeCorrect == Spec => []TypeOK
<1>1. Init => TypeOK
  <2>1. NoArtifact \in [status : {"none"} \cup Terminal,
                        operations : SUBSET Operation, degraded : SUBSET Operation,
                        retries : [Operation -> Nat]]
    BY DEF NoArtifact
  <2>2. Init => replies \in Seq(Reply) /\ inbox \in Seq(Reply)
    BY DEF Init
  <2>3. Init => registered \in BOOLEAN /\ changed \in BOOLEAN
    BY DEF Init
  <2>4. ASSUME Init
        PROVE  /\ plan \in Plans
               /\ pending \subseteq plan /\ published \subseteq plan
               /\ results \in [Operation -> Results]
               /\ retry_counts \in [Operation -> 0..RETRY_MAX]
               /\ deadlines \in [Operation -> Nat \cup {NoTimer}]
               /\ retry_at \in [Operation -> Nat \cup {NoTimer}]
               /\ sent \in [Operation -> Nat]
               /\ queued \in [Operation -> Nat]
    BY <2>4, DispatchAssumption DEF Init, Results
  <2>5. ASSUME Init
        PROVE  /\ request = "new" /\ pc \in {"idle", "starting"} /\ stage = "free"
               /\ todo \subseteq plan /\ drives = 0 /\ caller = "submit"
               /\ now \in Nat /\ started_at \in Nat /\ clock \in Nat /\ faults \in Nat
               /\ jobs \subseteq plan /\ saved \subseteq plan
               /\ db_status \in {"planning", "running"} \cup Terminal
               /\ artifact \in [status : {"none"} \cup Terminal,
                                operations : SUBSET Operation, degraded : SUBSET Operation,
                                retries : [Operation -> Nat]]
    BY <2>1, <2>5 DEF Init
  <2>6. QED BY <2>2, <2>3, <2>4, <2>5 DEF TypeOK
<1>2. QED BY <1>1, TypeStep, PTL DEF Spec
-----------------------------------------------------------------------------
(* The steps that touch the TaskState, told apart from all the others.      *)

\* A task is started, afresh or with some results loaded.
Started == Register \/ _resume

\* What either does to the TaskState.
LEMMA StartedAnew ==
    ASSUME Started
    PROVE  stage = "free" /\ \E loaded \in SUBSET plan : NewTaskState(loaded)
<1>1. {} \in SUBSET plan /\ saved \cap plan \in SUBSET plan
  OBVIOUS
<1>2. QED BY <1>1 DEF Started, Register, _resume, Start

\* The only steps that touch the TaskState, and the building block each uses.
LEMMA StateSteps ==
    ASSUME TypeOK, [Next]_vars
    PROVE  /\ plan' = plan
           /\ \/ UNCHANGED state
              \/ Started
              \/ RouteRefuse \/ RouteInform
              \/ \E op \in plan : PublishReady(op) \/ SkipSubtask(op)
                                  \/ ExpireTimeout(op) \/ RepublishDue(op)
<1>1. CASE Register \/ _resume
  BY <1>1 DEF Register, _resume, Started
<1>2. CASE RouteRefuse \/ RouteInform
  BY <1>2 DEF RouteRefuse, RouteInform
<1>3. CASE \E op \in plan : PublishReady(op) \/ SkipSubtask(op)
                            \/ ExpireTimeout(op) \/ RepublishDue(op)
  BY <1>3 DEF PublishReady, SkipSubtask, ExpireTimeout, RepublishDue
<1>4. CASE SetRunning \/ SubmitFails \/ LoadInFlight \/ BeginTick \/ ReadFails
  BY <1>4 DEF SetRunning, SubmitFails, LoadInFlight, BeginTick, ReadFails
<1>5. CASE RouteUnexpected \/ EndPass \/ EndExpiry \/ NextPass \/ EndAdvance
  BY <1>5 DEF RouteUnexpected, EndPass, EndExpiry, NextPass, EndAdvance, MaybeFinalize
<1>6. CASE SaveArtifact \/ SetStatus \/ ProcessingFails
  BY <1>6 DEF SaveArtifact, SetStatus, ProcessingFails, Raise
<1>7. CASE _abandon \/ EndTick \/ \E op \in plan : PersistResult(op)
  BY <1>7 DEF _abandon, EndTick, PersistResult
<1>8. CASE Environment
  BY <1>8 DEF Environment, AgentReplies, AgentSilent, TimePasses, Crash
<1>9. CASE UNCHANGED vars
  BY <1>9 DEF vars
<1>10. QED
  BY <1>1, <1>2, <1>3, <1>4, <1>5, <1>6, <1>7, <1>8, <1>9
  DEF Next, Dispatch, Processing, RunLoop, Failure

-----------------------------------------------------------------------------
(* Timers, retries and results of one subtask: an invariant of every step,  *)
(* crashes and stale replies included.                                      *)

\* What a request costs: a scheduled retry has been paid for before it is published.
Budget ==
    \A op \in plan :
        /\ op \notin published => sent[op] = 0
        /\ sent[op] <= retry_counts[op] + 1
        /\ Armed(retry_at, op) => retry_counts[op] >= 1 /\ sent[op] <= retry_counts[op]

\* Only resolved subtasks have a result.
PendingUnresolved == \A op \in pending : results[op] = "absent"

StateInv == TimersCoverPending /\ Budget /\ PendingUnresolved

\* Retrying or failing a pending subtask leaves every other subtask covered.
LEMMA ScheduleKeeps ==
    ASSUME TypeOK, StateInv, NEW op \in pending, _schedule_retry_or_fail(op),
           UNCHANGED <<plan, sent>>
    PROVE  StateInv'
<1>1. plan \subseteq Operation /\ pending \subseteq plan
  BY DispatchAssumption DEF TypeOK
<1>2. CASE retry_counts[op] >= RETRY_MAX /\ _fail_subtask(op)
  BY <1>1, <1>2 DEF TypeOK, StateInv, TimersCoverPending, Budget, PendingUnresolved, Armed,
     _fail_subtask
<1>3. CASE /\ retry_counts[op] < RETRY_MAX
           /\ retry_counts' = [retry_counts EXCEPT ![op] = @ + 1]
           /\ retry_at' = [retry_at EXCEPT ![op] = now + BACKOFF_SECONDS[retry_counts[op] + 1]]
           /\ deadlines' = [deadlines EXCEPT ![op] = NoTimer]
           /\ UNCHANGED <<results, published, pending>>
  <2>1. retry_counts[op] \in Nat /\ retry_counts[op] + 1 \in 1..RETRY_MAX
    BY <1>1, <1>3, DispatchAssumption DEF TypeOK
  <2>2. now + BACKOFF_SECONDS[retry_counts[op] + 1] \in Nat
    BY <2>1, DispatchAssumption DEF TypeOK
  <2>3. TimersCoverPending'
    BY <1>1, <1>3, <2>2 DEF TypeOK, StateInv, TimersCoverPending, Armed
  <2>4. Budget'
    BY <1>1, <1>3, <2>1 DEF TypeOK, StateInv, Budget, Armed
  <2>5. PendingUnresolved'
    BY <1>3 DEF StateInv, PendingUnresolved
  <2>6. QED BY <2>3, <2>4, <2>5 DEF StateInv
<1>4. QED BY <1>2, <1>3 DEF _schedule_retry_or_fail

\* Every step keeps the timers, the budget and what is pending consistent.
LEMMA StateStep ==
    ASSUME TypeOK, StateInv, [Next]_vars
    PROVE  StateInv'
<1>0. plan \subseteq Operation /\ pending \subseteq plan /\ plan' = plan
  BY StateSteps, DispatchAssumption DEF TypeOK
<1>1. CASE UNCHANGED state
  BY <1>0, <1>1 DEF state, StateInv, TimersCoverPending, Budget, PendingUnresolved, Armed
<1>2. CASE Started
  <2>1. PICK loaded \in SUBSET plan :
          NewTaskState(loaded)
    BY <1>2, StartedAnew
  <2>2. QED
    BY <1>0, <2>1 DEF NewTaskState, StateInv, TimersCoverPending, Budget, PendingUnresolved, Armed
<1>3. CASE RouteRefuse
  BY <1>3, ScheduleKeeps DEF RouteRefuse, Routing
<1>4. CASE RouteInform
  <2>1. PICK op \in pending :
          /\ results' = [results EXCEPT ![op] = "inform"]
          /\ deadlines' = [deadlines EXCEPT ![op] = NoTimer]
          /\ retry_at' = [retry_at EXCEPT ![op] = NoTimer]
          /\ pending' = pending \ {op}
    BY <1>4 DEF RouteInform
  <2>2. UNCHANGED <<published, retry_counts, sent>>
    BY <1>4 DEF RouteInform
  <2>3. QED
    BY <1>0, <2>1, <2>2 DEF TypeOK, StateInv, TimersCoverPending, Budget, PendingUnresolved, Armed
<1>5. ASSUME NEW op \in plan, PublishReady(op) PROVE StateInv'
  <2>1. op \in pending \ published
    BY <1>5 DEF PublishReady, Ready
  <2>2. now + AGENT_TIMEOUTS_SEC[op] \in Nat
    BY <1>0, DispatchAssumption DEF TypeOK
  <2>3. /\ published' = published \cup {op}
        /\ sent' = [sent EXCEPT ![op] = @ + 1]
        /\ deadlines' = [deadlines EXCEPT ![op] = now + AGENT_TIMEOUTS_SEC[op]]
        /\ UNCHANGED <<pending, results, retry_counts, retry_at>>
    BY <1>5 DEF PublishReady, _publish
  <2>4. TimersCoverPending'
    BY <1>0, <2>1, <2>2, <2>3 DEF TypeOK, StateInv, TimersCoverPending, Armed
  <2>5. Budget'
    BY <1>0, <2>1, <2>3 DEF TypeOK, StateInv, Budget, Armed
  <2>6. PendingUnresolved'
    BY <2>1, <2>3 DEF StateInv, PendingUnresolved
  <2>7. QED BY <2>4, <2>5, <2>6 DEF StateInv
<1>6. ASSUME NEW op \in plan, SkipSubtask(op) PROVE StateInv'
  <2>1. op \in pending \ published
    BY <1>6 DEF SkipSubtask, Ready
  <2>2. QED
    BY <1>0, <1>6, <2>1
    DEF TypeOK, SkipSubtask, _fail_subtask, StateInv, TimersCoverPending, Budget,
        PendingUnresolved, Armed
<1>7. ASSUME NEW op \in plan, ExpireTimeout(op) PROVE StateInv'
  <2>1. op \in pending
    BY <1>7 DEF ExpireTimeout, Expired, StateInv, TimersCoverPending, Armed
  <2>2. QED
    BY <1>0, <1>7, <2>1, ScheduleKeeps DEF ExpireTimeout
<1>8. ASSUME NEW op \in plan, RepublishDue(op) PROVE StateInv'
  <2>1. op \in pending /\ Armed(retry_at, op)
    BY <1>8 DEF RepublishDue, Due, StateInv, TimersCoverPending, Armed
  <2>2. now + AGENT_TIMEOUTS_SEC[op] \in Nat
    BY <1>0, DispatchAssumption DEF TypeOK
  <2>3. /\ published' = published \cup {op}
        /\ sent' = [sent EXCEPT ![op] = @ + 1]
        /\ deadlines' = [deadlines EXCEPT ![op] = now + AGENT_TIMEOUTS_SEC[op]]
        /\ retry_at' = [retry_at EXCEPT ![op] = NoTimer]
        /\ UNCHANGED <<pending, results, retry_counts>>
    BY <1>8 DEF RepublishDue, _publish
  <2>4. TimersCoverPending'
    BY <1>0, <2>1, <2>2, <2>3 DEF TypeOK, StateInv, TimersCoverPending, Armed
  <2>5. Budget'
    <3>1. sent[op] <= retry_counts[op] /\ sent[op] \in Nat /\ retry_counts[op] \in Nat
      BY <1>0, <2>1 DEF TypeOK, StateInv, Budget
    <3>2. sent'[op] <= retry_counts'[op] + 1 /\ ~(retry_at'[op] # NoTimer)
      BY <1>0, <2>3, <3>1 DEF TypeOK
    <3>3. \A q \in plan : q # op => sent'[q] = sent[q] /\ retry_at'[q] = retry_at[q]
      BY <1>0, <2>3 DEF TypeOK
    <3>4. QED BY <1>0, <2>3, <3>2, <3>3 DEF StateInv, Budget, Armed
  <2>6. PendingUnresolved'
    BY <2>1, <2>3 DEF StateInv, PendingUnresolved
  <2>7. QED BY <2>4, <2>5, <2>6 DEF StateInv
<1>9. QED
  BY <1>1, <1>2, <1>3, <1>4, <1>5, <1>6, <1>7, <1>8, StateSteps

\* The invariant of the TaskState holds always.
LEMMA StateCorrect == Spec => [](TypeOK /\ StateInv)
<1>1. Init => StateInv
  BY DispatchAssumption
  DEF Init, StateInv, TimersCoverPending, Budget, PendingUnresolved, Armed
<1>2. QED BY <1>1, TypeCorrect, StateStep, PTL DEF Spec

\* A pending, requested subtask always has a timer to move it on, whatever failed.
THEOREM TimersAlwaysCover == Spec => []TimersCoverPending
BY StateCorrect, PTL DEF StateInv

\* No mix of timeouts, refuses, late replies and restarts makes one incarnation of
\* a task publish more than 1 + RETRY_MAX requests of a subtask.
THEOREM BudgetKept == Spec => []RequestBudget
<1>1. TypeOK /\ StateInv => RequestBudget
  BY DispatchAssumption DEF TypeOK, StateInv, Budget, RequestBudget
<1>2. QED BY <1>1, StateCorrect, PTL

\* Apart from a restart, a step decides only subtasks that have no result yet.
LEMMA ResultsKept ==
    ASSUME TypeOK, StateInv, [Next]_vars, stage # "free",
           NEW op \in plan, results[op] # "absent"
    PROVE  results'[op] = results[op]
<1>0. op \notin pending /\ plan \subseteq Operation
  BY DispatchAssumption DEF StateInv, PendingUnresolved, TypeOK
<1>1. CASE UNCHANGED state
  BY <1>1 DEF state
<1>2. CASE Started
  BY <1>2, StartedAnew
<1>3. ASSUME NEW other \in pending, _schedule_retry_or_fail(other)
      PROVE  results'[op] = results[op]
  <2>1. results' = results \/ results' = [results EXCEPT ![other] = "failed"]
    BY <1>3 DEF _schedule_retry_or_fail, _fail_subtask
  <2>2. QED BY <1>0, <2>1 DEF TypeOK
<1>4. CASE RouteRefuse
  BY <1>3, <1>4 DEF RouteRefuse
<1>5. CASE RouteInform
  BY <1>0, <1>5 DEF RouteInform, TypeOK
<1>6. ASSUME NEW other \in plan, SkipSubtask(other)
      PROVE  results'[op] = results[op]
  BY <1>0, <1>6 DEF SkipSubtask, Ready, _fail_subtask, TypeOK
<1>7. ASSUME NEW other \in plan, ExpireTimeout(other)
      PROVE  results'[op] = results[op]
  <2>1. other \in pending
    BY <1>7 DEF ExpireTimeout, Expired, StateInv, TimersCoverPending, Armed
  <2>2. QED BY <1>3, <1>7, <2>1 DEF ExpireTimeout
<1>8. CASE \E other \in plan : PublishReady(other) \/ RepublishDue(other)
  BY <1>8 DEF PublishReady, RepublishDue
<1>9. QED
  BY <1>1, <1>2, <1>4, <1>5, <1>6, <1>7, <1>8, StateSteps

\* In one incarnation of a task the result of a subtask is decided once.
THEOREM ResolvedOnce == Spec => ResolutionIsFinal
<1>1. TypeOK /\ StateInv /\ [Next]_vars
        => [stage # "free" => \A op \in plan : results[op] # "absent" => results'[op] = results[op]]_vars
  BY ResultsKept
<1>2. QED BY <1>1, StateCorrect, PTL DEF Spec, ResolutionIsFinal
-----------------------------------------------------------------------------
(* Who holds the task, and what a submit or a recovery finds of it.         *)

\* The handlers that still work on the task, as opposed to giving it up.
Handling == {"advance", "expire", "republish", "save_artifact", "set_status"}

\* Where the coroutines can be, and what they can have in hand there.
ControlInv ==
    /\ stage = "abandon" => ~registered
    /\ replies # <<>> => stage = "advance" /\ caller = "tick"
    /\ caller = "tick" /\ stage # "free" => pc = "tick"
    /\ drives = 0 => stage = "free" /\ ~registered /\ jobs = {}
    /\ pc \in {"down", "starting", "loaded"} => jobs = {}

\* An agent answers, or does not.
AgentStep ==
    \E op \in plan : \/ AgentSilent(op)
                    \/ \E performative \in {"INFORM", "REFUSE"} : AgentReplies(op, performative)

\* Every step keeps the coroutines in step with each other.
LEMMA ControlStep ==
    ASSUME TypeOK, ControlInv, [Next]_vars
    PROVE  ControlInv'
<1> USE DEF ControlInv
<1>1. CASE UNCHANGED <<stage, registered, replies, caller, pc, drives, jobs>>
  BY <1>1
<1>2. CASE SetRunning \/ SubmitFails \/ ReadFails \/ AgentStep
  BY <1>1, <1>2 DEF SetRunning, SubmitFails, ReadFails, AgentStep, AgentReplies, AgentSilent,
     loop, http
<1>3. CASE LoadInFlight
  <2>1. /\ pc \in {"down", "starting"} /\ pc' \in {"idle", "loaded"}
        /\ UNCHANGED <<stage, registered, replies, caller, drives, jobs>>
    BY <1>3 DEF LoadInFlight, http
  <2>2. QED BY <2>1
<1>4. CASE Register \/ _resume
  <2>1. /\ stage = "free" /\ stage' \in {"advance", "save_artifact"}
        /\ caller' \in {"submit", "resume"} /\ drives' # 0
        /\ UNCHANGED <<pc, replies, jobs>>
    BY <1>4 DEF Register, _resume, Start
  <2>2. QED BY <2>1
<1>5. CASE BeginTick
  <2>1. stage = "free" /\ pc = "idle" /\ UNCHANGED <<registered, jobs, drives>>
    BY <1>5 DEF BeginTick, http
  <2>2. \/ registered /\ caller' = "tick" /\ pc' = "tick" /\ stage' = "advance"
        \/ UNCHANGED <<replies, caller, pc, stage>>
    BY <1>5 DEF BeginTick
  <2>3. QED BY <2>1, <2>2
<1>6. CASE RouteUnexpected \/ RouteRefuse \/ RouteInform
  <2>1. /\ stage = "advance" /\ caller = "tick" /\ pc = "tick"
        /\ UNCHANGED <<stage, registered, caller, pc>>
    BY <1>6 DEF RouteUnexpected, RouteRefuse, RouteInform, Routing
  <2>2. drives' = drives /\ drives # 0
    BY <1>6, <2>1 DEF RouteUnexpected, RouteRefuse, RouteInform, http
  <2>3. QED BY <2>1, <2>2
<1>7. CASE \E op \in plan : PublishReady(op) \/ SkipSubtask(op)
                            \/ ExpireTimeout(op) \/ RepublishDue(op)
  BY <1>1, <1>7
  DEF PublishReady, SkipSubtask, ExpireTimeout, RepublishDue, unchangedLoop, http
<1>8. CASE EndPass \/ EndExpiry \/ NextPass
  <2>1. /\ stage \in Handling /\ replies = <<>> /\ stage' \in Handling
        /\ UNCHANGED <<registered, replies, caller, pc, drives, jobs>>
    BY <1>8 DEF EndPass, EndExpiry, NextPass, LoopDone, Advancing, Handling, http
  <2>2. QED BY <2>1 DEF Handling
<1>9. CASE EndAdvance
  <2>1. /\ stage = "republish" /\ stage' \in {"save_artifact", "free"}
        /\ UNCHANGED <<registered, replies, caller, drives, jobs>>
        /\ stage' = "save_artifact" => pc' = pc
        /\ pc' \in {pc, "persist", "idle"}
    BY <1>9 DEF EndAdvance, LoopDone, MaybeFinalize, LockReleased, http
  <2>2. QED BY <2>1
<1>10. CASE SaveArtifact
  BY <1>10 DEF SaveArtifact, http
<1>11. CASE SetStatus \/ _abandon
  <2>1. /\ stage \in {"set_status", "abandon"} /\ stage' = "free"
        /\ registered' = FALSE \/ registered' = registered
        /\ UNCHANGED <<replies, caller, drives, jobs>>
        /\ pc' \in {pc, "persist", "idle"}
    BY <1>11 DEF SetStatus, _abandon, LockReleased, http
  <2>2. QED BY <2>1
<1>12. CASE ProcessingFails
  <2>1. /\ stage \in Handling /\ replies = <<>>
        /\ UNCHANGED <<replies, caller, drives, jobs>>
    BY <1>12 DEF ProcessingFails, Raise, Advancing, Handling, http
  <2>2. /\ caller = "tick" => stage' = "abandon" /\ ~registered' /\ pc' = pc
        /\ caller # "tick" => stage' = "free" /\ pc' \in {pc, "dead"}
    <3>1. registered' = (registered /\ caller # "tick")
      BY <1>12 DEF ProcessingFails, Raise
    <3>2. caller = "tick" => ~registered'
      BY <3>1, Zenon
    <3>3. QED BY <1>12, <3>2 DEF ProcessingFails, Raise
  <2>3. QED BY <2>1, <2>2 DEF Handling
<1>13. ASSUME NEW op \in plan, PersistResult(op) PROVE ControlInv'
  BY <1>13 DEF PersistResult, http
<1>14. CASE EndTick
  BY <1>14 DEF EndTick, http
<1>15. CASE TimePasses
  BY <1>1, <1>15 DEF TimePasses, loop, http
<1>16. CASE Crash
  <2>1. pc' = "down" /\ stage' = "free" /\ registered' = FALSE /\ replies' = <<>> /\ jobs' = {}
    BY <1>16 DEF Crash
  <2>2. QED BY <2>1
<1>17. CASE UNCHANGED vars
  BY <1>1, <1>17 DEF vars, loop, http
<1>18. QED
  BY <1>2, <1>3, <1>4, <1>5, <1>6, <1>7, <1>8, <1>9, <1>10, <1>11, <1>12, <1>13,
     <1>14, <1>15, <1>16, <1>17
  DEF Next, Dispatch, Processing, RunLoop, Environment, Failure, AgentStep
\* What a submit or a recovery has in hand when it takes the lock: no reply to route,
\* no result but those it loaded, no deadline that could have passed.  It publishes
\* requests and nothing else, so it never settles a task that it registered.
FreshInv ==
    caller # "tick" =>
        /\ stage \in {"advance", "expire", "republish"} =>
              /\ pending # {}
              /\ \A op \in plan :
                    /\ results[op] # "failed"
                    /\ ~Armed(retry_at, op)
                    /\ Armed(deadlines, op) => deadlines[op] >= now
        /\ stage \in {"save_artifact", "set_status"} => ~registered

\* What _expire_timeouts and _republish_due find there: nothing.
LEMMA FreshQuiet ==
    ASSUME TypeOK, FreshInv, caller # "tick", stage \in {"advance", "expire", "republish"},
           NEW op \in plan
    PROVE  ~Expired(op) /\ ~Due(op) /\ (Ready(op) => JoinHolds(op))
<1>1. plan \subseteq Operation
  BY DispatchAssumption DEF TypeOK
<1>2. deadlines[op] \in Nat \cup {NoTimer} /\ now \in Nat
  BY <1>1 DEF TypeOK
<1>3. ~Expired(op) /\ ~Due(op)
  BY <1>2 DEF FreshInv, Armed, Expired, Due
<1>4. ASSUME Ready(op) PROVE JoinHolds(op)
  <2>1. DependsOn(op) \subseteq plan
    BY DEF DependsOn, _dependencies
  <2>2. \A dep \in DependsOn(op) : results[dep] = "inform"
    BY <1>1, <1>4, <2>1 DEF Ready, FreshInv, TypeOK, Results
  <2>3. QED BY <2>2 DEF JoinHolds, Succeeded
<1>5. QED BY <1>3, <1>4

\* Every step keeps it.
LEMMA FreshStep ==
    ASSUME TypeOK, ControlInv, FreshInv, [Next]_vars
    PROVE  FreshInv'
<1>0. plan \subseteq Operation /\ plan' = plan
  BY StateSteps, DispatchAssumption DEF TypeOK
<1>1. CASE UNCHANGED <<state, stage, registered, caller, now>>
  BY <1>0, <1>1 DEF FreshInv, Armed, state
<1>2. CASE caller' = "tick" \/ stage' \in {"free", "abandon"}
  BY <1>2 DEF FreshInv
<1>3. CASE SetRunning \/ SubmitFails \/ LoadInFlight \/ ReadFails \/ AgentStep \/ TimePasses
  BY <1>1, <1>3 DEF SetRunning, SubmitFails, LoadInFlight, ReadFails, AgentStep, AgentReplies,
     AgentSilent, TimePasses, loop
<1>4. ASSUME NEW who \in {"submit", "resume"}, NEW loaded \in SUBSET plan, Start(who, loaded)
      PROVE  FreshInv'
  <2>1. /\ NewTaskState(loaded) /\ stage' \in {"advance", "save_artifact"}
        /\ stage' = "advance" => plan \ loaded # {}
        /\ stage' = "save_artifact" => plan \ loaded = {}
    BY <1>4 DEF Start
  <2>2. registered' <=> plan \ loaded # {}
    BY <1>4 DEF Start
  <2>3. QED BY <1>0, <2>1, <2>2 DEF NewTaskState, FreshInv, Armed
<1>5. CASE Register \/ _resume
  <2>1. {} \in SUBSET plan /\ saved \cap plan \in SUBSET plan OBVIOUS
  <2>2. QED BY <1>4, <1>5, <2>1 DEF Register, _resume
<1>6. CASE BeginTick
  BY <1>1, <1>2, <1>6 DEF BeginTick
<1>7. CASE RouteUnexpected \/ RouteRefuse \/ RouteInform
  BY <1>2, <1>7 DEF RouteUnexpected, RouteRefuse, RouteInform, Routing, ControlInv
<1>8. ASSUME NEW op \in plan, PublishReady(op) PROVE FreshInv'
  <2>1. /\ deadlines' = [deadlines EXCEPT ![op] = now + AGENT_TIMEOUTS_SEC[op]]
        /\ UNCHANGED <<pending, results, retry_at, stage, registered, caller, now>>
    BY <1>8 DEF PublishReady, _publish, unchangedLoop
  <2>2. now + AGENT_TIMEOUTS_SEC[op] \in Nat /\ now + AGENT_TIMEOUTS_SEC[op] >= now
    BY <1>0, DispatchAssumption DEF TypeOK
  <2>3. QED BY <1>0, <2>1, <2>2 DEF FreshInv, Armed, TypeOK
<1>9. ASSUME NEW op \in plan, SkipSubtask(op) \/ ExpireTimeout(op) \/ RepublishDue(op)
      PROVE  FreshInv'
  <2>1. stage \in {"advance", "expire", "republish"} /\ caller' = caller
    BY <1>9 DEF SkipSubtask, ExpireTimeout, RepublishDue, Advancing, unchangedLoop
  <2>2. Expired(op) \/ Due(op) \/ (Ready(op) /\ ~JoinHolds(op))
    BY <1>9 DEF SkipSubtask, ExpireTimeout, RepublishDue
  <2>3. QED BY <1>2, <2>1, <2>2, FreshQuiet
<1>10. CASE EndPass \/ EndExpiry \/ NextPass
  <2>1. /\ stage \in {"advance", "expire", "republish"}
        /\ stage' \in {"advance", "expire", "republish"}
        /\ UNCHANGED <<state, registered, caller, now>>
    BY <1>10 DEF EndPass, EndExpiry, NextPass, LoopDone, Advancing
  <2>2. QED BY <1>0, <2>1 DEF FreshInv, Armed, state
<1>11. CASE EndAdvance
  <2>1. stage = "republish" /\ UNCHANGED <<state, registered, caller, now>>
    BY <1>11 DEF EndAdvance, LoopDone, MaybeFinalize
  <2>2. stage' = "free" \/ pending = {} \/ caller = "tick"
    BY <1>11 DEF EndAdvance, MaybeFinalize, LockReleased, Overrun
  <2>3. QED BY <1>2, <2>1, <2>2 DEF FreshInv
<1>12. CASE SaveArtifact
  <2>1. /\ stage = "save_artifact" /\ stage' = "set_status"
        /\ UNCHANGED <<registered, caller>>
    BY <1>12 DEF SaveArtifact
  <2>2. QED BY <2>1 DEF FreshInv
<1>13. CASE SetStatus \/ _abandon \/ ProcessingFails \/ Crash
  BY <1>2, <1>13 DEF SetStatus, _abandon, LockReleased, ProcessingFails, Raise, Crash
<1>14. CASE EndTick \/ \E op \in plan : PersistResult(op)
  BY <1>1, <1>14 DEF EndTick, PersistResult
<1>15. CASE UNCHANGED vars
  BY <1>1, <1>15 DEF vars, loop
<1>16. QED
  BY <1>3, <1>5, <1>6, <1>7, <1>8, <1>9, <1>10, <1>11, <1>12, <1>13, <1>14, <1>15
  DEF Next, Dispatch, Processing, RunLoop, Environment, Failure, AgentStep

\* A task that is submitted or recovered, but not both, is not settled while it is in
\* the table, in one of the handlers, or on its way to them.
OwnedInv ==
    ~DrivenTwice =>
        /\ request = "new" /\ drives = 0 => db_status = "planning"
        /\ request = "waiting" /\ drives = 0 => db_status = "running"
        /\ pc = "loaded" /\ drives = 0 => db_status \notin Terminal
        /\ registered => db_status \notin Terminal
        /\ stage \in Handling => db_status \notin Terminal

\* Every step keeps a task in flight as long as somebody has it in hand.
LEMMA OwnedStep ==
    ASSUME TypeOK, ControlInv, FreshInv, OwnedInv, [Next]_vars
    PROVE  OwnedInv'
<1> USE DEF OwnedInv, DrivenTwice, Handling
<1>1. CASE UNCHANGED <<request, drives, pc, stage, registered, db_status>>
  BY <1>1
<1>2. CASE ReadFails \/ AgentStep \/ TimePasses
  BY <1>1, <1>2 DEF ReadFails, AgentStep, AgentReplies, AgentSilent, TimePasses, loop, http, db
<1>3. CASE SetRunning \/ SubmitFails
  <2>1. /\ request = "new" /\ request' \in {"waiting", "done"}
        /\ db_status' = "running" \/ (db_status' = db_status /\ request' = "done")
        /\ UNCHANGED <<drives, pc, stage, registered>>
    BY <1>3 DEF SetRunning, SubmitFails, loop
  <2>2. QED BY <2>1 DEF Terminal
<1>4. CASE LoadInFlight
  <2>1. /\ pc' = "loaded" => db_status \notin Terminal
        /\ UNCHANGED <<request, drives, stage, registered, db_status>>
    BY <1>4 DEF LoadInFlight, http, db
  <2>2. QED BY <2>1
<1>5. CASE Register
  <2>1. /\ request = "waiting" /\ request' = "done" /\ drives' \in {1, 2} /\ db_status' = db_status
        /\ drives' = 1 => drives = 0
    BY <1>5 DEF Register, Start, db
  <2>2. QED BY <2>1 DEF Terminal
<1>6. CASE _resume
  <2>1. /\ pc = "loaded" /\ drives' \in {1, 2} /\ UNCHANGED <<db_status, request>>
        /\ drives' = 1 => drives = 0
    BY <1>6 DEF _resume, Start, db
  <2>2. QED BY <2>1
<1>7. CASE BeginTick
  <2>1. /\ stage' = stage \/ registered
        /\ pc' \in {pc, "tick"} /\ UNCHANGED <<request, drives, registered, db_status>>
    BY <1>7 DEF BeginTick, http, db
  <2>2. QED BY <2>1
<1>8. CASE RouteUnexpected \/ RouteRefuse \/ RouteInform
  BY <1>1, <1>8 DEF RouteUnexpected, RouteRefuse, RouteInform, http, db
<1>9. CASE \E op \in plan : PublishReady(op) \/ SkipSubtask(op)
                            \/ ExpireTimeout(op) \/ RepublishDue(op)
  BY <1>1, <1>9
  DEF PublishReady, SkipSubtask, ExpireTimeout, RepublishDue, unchangedLoop, http, db
<1>10. CASE EndPass \/ EndExpiry \/ NextPass \/ EndAdvance
  <2>1. /\ stage \in {"advance", "expire", "republish"}
        /\ pc' \in {pc, "persist", "idle"} /\ UNCHANGED <<request, drives, registered, db_status>>
    BY <1>10 DEF EndPass, EndExpiry, NextPass, EndAdvance, LoopDone, Advancing, MaybeFinalize,
       LockReleased, http, db
  <2>2. QED BY <2>1
<1>11. CASE SaveArtifact
  BY <1>11 DEF SaveArtifact, WriteArtifact, http
<1>12. CASE SetStatus \/ _abandon
  <2>1. /\ stage \in {"set_status", "abandon"} /\ stage' = "free" /\ ~registered'
        /\ pc' \in {pc, "persist", "idle"} /\ UNCHANGED <<request, drives>>
    BY <1>12 DEF SetStatus, _abandon, LockReleased, http, ControlInv
  <2>2. drives # 0 /\ (pc' = "loaded" => pc = "loaded")
    BY <2>1 DEF ControlInv
  <2>3. QED BY <2>1, <2>2
<1>13. CASE ProcessingFails
  <2>1. /\ stage \in Handling /\ stage' \in {"free", "abandon"}
        /\ UNCHANGED <<request, drives>> /\ pc' \in {pc, "dead"}
    BY <1>13 DEF ProcessingFails, Raise, Advancing, http
  <2>2. drives # 0
    BY <2>1 DEF ControlInv
  <2>3. db_status' = db_status \/ stage = "set_status"
    BY <1>13 DEF ProcessingFails, WriteArtifact, db
  <2>4. registered' = (registered /\ caller # "tick")
    BY <1>13 DEF ProcessingFails, Raise
  <2>5. registered' => registered /\ caller # "tick"
    BY <2>4, Zenon
  <2>6. registered' => db_status' = db_status
    BY <2>3, <2>5 DEF FreshInv
  <2>7. QED BY <2>1, <2>2, <2>5, <2>6
<1>14. CASE EndTick \/ \E op \in plan : PersistResult(op)
  BY <1>14 DEF EndTick, PersistResult, http, db
<1>15. CASE Crash
  <2>1. pc' = "down" /\ stage' = "free" /\ registered' = FALSE /\ request' = "done"
    BY <1>15 DEF Crash
  <2>2. QED BY <2>1
<1>16. CASE UNCHANGED vars
  BY <1>1, <1>16 DEF vars, loop, http, db
<1>17. QED
  BY <1>2, <1>3, <1>4, <1>5, <1>6, <1>7, <1>8, <1>9, <1>10, <1>11, <1>12, <1>13,
     <1>14, <1>15, <1>16
  DEF Next, Dispatch, Processing, RunLoop, Environment, Failure, AgentStep

Hands == TypeOK /\ StateInv /\ ControlInv /\ FreshInv /\ OwnedInv

\* Who has the task in hand, and that its row says so, is known at every step.
LEMMA HandsCorrect == Spec => []Hands
<1>1. Init => ControlInv
  BY DEF Init, ControlInv
<1>2. Init => FreshInv
  BY DEF Init, FreshInv
<1>3. Init => OwnedInv
  BY DEF Init, OwnedInv, Handling, Terminal
<1>4. QED
  BY <1>1, <1>2, <1>3, StateCorrect, ControlStep, FreshStep, OwnedStep, PTL DEF Spec, Hands
-----------------------------------------------------------------------------
(* The rows of the task.                                                    *)

\* Who writes the status and the artifact, and what of.
LEMMA RowSteps ==
    ASSUME TypeOK, [Next]_vars
    PROVE  \/ UNCHANGED <<db_status, artifact>> /\ stage' # "set_status"
           \/ UNCHANGED <<plan, state, db_status, artifact, stage, drives>>
           \/ /\ request = "new" /\ db_status' = "running"
              /\ UNCHANGED <<plan, state, artifact, stage, drives>>
           \/ /\ stage = "save_artifact" /\ artifact' = assemble_artifact
              /\ UNCHANGED <<plan, state, db_status>>
           \/ /\ stage = "set_status" /\ db_status' = determine_final_status
              /\ stage' # "set_status" /\ UNCHANGED <<plan, state, artifact>>
           \/ /\ stage = "abandon" /\ db_status' = "failed"
              /\ stage' = "free" /\ UNCHANGED <<plan, state, artifact>>
<1>1. CASE SetRunning \/ SubmitFails
  BY <1>1 DEF SetRunning, SubmitFails, loop, db, http
<1>2. CASE LoadInFlight \/ ReadFails \/ AgentStep \/ TimePasses
  BY <1>2 DEF LoadInFlight, ReadFails, AgentStep, AgentReplies, AgentSilent, TimePasses,
     loop, http, db
<1>3. CASE Register \/ _resume \/ BeginTick
  BY <1>3 DEF Register, _resume, Start, BeginTick, db, http
<1>4. CASE RouteUnexpected \/ RouteRefuse \/ RouteInform
  BY <1>4 DEF RouteUnexpected, RouteRefuse, RouteInform, Routing, db
<1>5. CASE \E op \in plan : PublishReady(op) \/ SkipSubtask(op)
                            \/ ExpireTimeout(op) \/ RepublishDue(op)
  BY <1>5
  DEF PublishReady, SkipSubtask, ExpireTimeout, RepublishDue, Advancing, unchangedLoop, db
<1>6. CASE EndPass \/ EndExpiry \/ NextPass \/ EndAdvance
  BY <1>6
  DEF EndPass, EndExpiry, NextPass, EndAdvance, MaybeFinalize, LockReleased, db
<1>7. CASE SaveArtifact
  BY <1>7 DEF SaveArtifact, WriteArtifact
<1>8. CASE SetStatus
  BY <1>8 DEF SetStatus, WriteStatus, LockReleased
<1>9. CASE ProcessingFails
  <2>1. stage' \in {"free", "abandon"} /\ UNCHANGED <<plan, state>>
    BY <1>9 DEF ProcessingFails, Raise
  <2>2. \/ UNCHANGED db
        \/ stage = "save_artifact" /\ WriteArtifact
        \/ stage = "set_status" /\ WriteStatus
    BY <1>9 DEF ProcessingFails
  <2>3. QED BY <2>1, <2>2 DEF WriteArtifact, WriteStatus, db
<1>10. CASE _abandon
  BY <1>10 DEF _abandon, LockReleased
<1>11. CASE EndTick \/ \E op \in plan : PersistResult(op)
  BY <1>11 DEF EndTick, PersistResult, db, http
<1>12. CASE Crash
  BY <1>12 DEF Crash, db
<1>13. CASE UNCHANGED vars
  BY <1>13 DEF vars, loop, db, http
<1>14. QED
  BY <1>1, <1>2, <1>3, <1>4, <1>5, <1>6, <1>7, <1>8, <1>9, <1>10, <1>11, <1>12, <1>13
  DEF Next, Dispatch, Processing, RunLoop, Environment, Failure, AgentStep

\* The rows of a settled task stay as they are, but for the RUNNING of a submit that
\* recovery overtook and the FAILED of _abandon after a lost answer.
THEOREM SettledRowsKept == Spec => SettledRowsStay
<1>1. Hands /\ [Next]_vars
        => [(db_status \in Terminal /\ ~DrivenTwice) =>
               /\ artifact' = artifact
               /\ \/ db_status' = db_status
                  \/ request = "new" /\ db_status' = "running"
                  \/ stage = "abandon" /\ db_status' = "failed"]_vars
  <2> SUFFICES ASSUME Hands, [Next]_vars, db_status \in Terminal, ~DrivenTwice
               PROVE  /\ artifact' = artifact
                      /\ \/ db_status' = db_status
                         \/ request = "new" /\ db_status' = "running"
                         \/ stage = "abandon" /\ db_status' = "failed"
    OBVIOUS
  <2>1. stage \notin Handling
    BY DEF Hands, OwnedInv
  <2>2. QED BY <2>1, RowSteps DEF Handling, Hands
<1>2. QED BY <1>1, HandsCorrect, PTL DEF Spec, SettledRowsStay

\* Between the two writes of _finalize nothing moves what the artifact was made of.
ArtifactInv ==
    /\ ~DrivenTwice /\ stage = "set_status" => artifact = assemble_artifact
    /\ ArtifactBacksStatus

\* A step that takes up a settled task takes it up for the second time; every other
\* step leaves the TaskState of a settled task alone.
LEMMA SettledState ==
    ASSUME Hands, [Next]_vars, db_status \in Terminal, ~DrivenTwice', ~DrivenTwice
    PROVE  UNCHANGED <<plan, state>>
<1>1. stage \notin Handling
  BY DEF Hands, OwnedInv
<1>2. ~RouteRefuse /\ ~RouteInform
  BY <1>1 DEF RouteRefuse, RouteInform, Routing, Handling
<1>3. \A op \in plan : /\ ~PublishReady(op) /\ ~SkipSubtask(op)
                       /\ ~ExpireTimeout(op) /\ ~RepublishDue(op)
  BY <1>1 DEF PublishReady, SkipSubtask, ExpireTimeout, RepublishDue, Advancing, Handling
<1>4. ~Started
  <2>1. ASSUME Started PROVE drives = 0 /\ (request = "waiting" \/ pc = "loaded")
    BY <2>1 DEF Started, Register, _resume, Start, DrivenTwice, Hands, TypeOK
  <2>2. QED BY <2>1 DEF Hands, OwnedInv, Terminal
<1>5. QED BY <1>2, <1>3, <1>4, StateSteps DEF Hands

\* Every step keeps the artifact, the status and the results in agreement.
LEMMA ArtifactStep ==
    ASSUME Hands, ArtifactInv, [Next]_vars
    PROVE  ArtifactInv'
<1>1. SUFFICES ASSUME ~DrivenTwice' PROVE ArtifactInv'
  BY DEF ArtifactInv, ArtifactBacksStatus
<1>2. ~DrivenTwice
  <2>1. CASE Start("submit", {}) \/ Start("resume", saved \cap plan)
    BY <1>1, <2>1 DEF Start, DrivenTwice
  <2>2. CASE Crash
    BY <1>1, <2>2 DEF Crash, DrivenTwice
  <2>3. CASE drives' = drives
    BY <1>1, <2>3 DEF DrivenTwice
  <2>4. QED
    BY <2>1, <2>2, <2>3
    DEF Next, Dispatch, Processing, RunLoop, Environment, Failure, vars, http,
        SetRunning, SubmitFails, Register, LoadInFlight, _resume, BeginTick, ReadFails,
        RouteUnexpected, RouteRefuse, RouteInform, PublishReady, SkipSubtask, EndPass,
        ExpireTimeout, EndExpiry, RepublishDue, NextPass, EndAdvance, MaybeFinalize,
        SaveArtifact, SetStatus, ProcessingFails, Raise, _abandon, PersistResult, EndTick,
        AgentReplies, AgentSilent, TimePasses
<1> DEFINE Backed == db_status \in {"completed", "partial_ready"} =>
                        /\ artifact.status = db_status
                        /\ artifact.operations = Completed
                        /\ artifact.degraded = plan \ Completed
                        /\ db_status = "completed" <=> Completed = plan
<1>3. SUFFICES Backed' /\ (stage' = "set_status" => artifact' = assemble_artifact')
  BY DEF ArtifactInv, ArtifactBacksStatus
<1>4. Backed /\ (stage = "set_status" => artifact = assemble_artifact)
  BY <1>2 DEF ArtifactInv, ArtifactBacksStatus
<1>5. ASSUME UNCHANGED <<plan, state>>
      PROVE  Completed' = Completed /\ plan' = plan /\ assemble_artifact' = assemble_artifact
             /\ determine_final_status' = determine_final_status
  BY <1>5 DEF Completed, assemble_artifact, determine_final_status, state
<1>6. CASE UNCHANGED <<db_status, artifact>> /\ stage' # "set_status"
  <2>1. CASE db_status \in Terminal
    <3>1. UNCHANGED <<plan, state>>
      BY <1>1, <1>2, <2>1, SettledState
    <3>2. Completed' = Completed /\ plan' = plan
      BY <1>5, <3>1
    <3>3. QED BY <1>4, <1>6, <3>2
  <2>2. QED BY <1>6, <2>1 DEF Terminal
<1>7. CASE UNCHANGED <<plan, state, db_status, artifact, stage, drives>>
  <2>1. Completed' = Completed /\ plan' = plan /\ assemble_artifact' = assemble_artifact
    BY <1>5, <1>7
  <2>2. QED BY <1>4, <1>7, <2>1
<1>8. CASE /\ db_status' = "running"
           /\ UNCHANGED <<plan, state, artifact, stage, drives>>
  <2>1. assemble_artifact' = assemble_artifact
    BY <1>5, <1>8
  <2>2. QED BY <1>4, <1>8, <2>1
<1>9. CASE /\ stage = "save_artifact" /\ artifact' = assemble_artifact
           /\ UNCHANGED <<plan, state, db_status>>
  <2>1. db_status' \notin {"completed", "partial_ready"}
    BY <1>2, <1>9 DEF Hands, OwnedInv, Handling, Terminal
  <2>2. assemble_artifact' = assemble_artifact
    BY <1>5, <1>9
  <2>3. QED BY <1>9, <2>1, <2>2
<1>10. CASE /\ stage = "set_status" /\ db_status' = determine_final_status
            /\ stage' # "set_status" /\ UNCHANGED <<plan, state, artifact>>
  <2>1. Completed' = Completed /\ plan' = plan /\ artifact' = assemble_artifact
    BY <1>4, <1>5, <1>10
  <2>2. /\ assemble_artifact.status = determine_final_status
        /\ assemble_artifact.operations = Completed
        /\ assemble_artifact.degraded = plan \ Completed
    BY DEF assemble_artifact
  <2>3. determine_final_status = "completed" <=> Completed = plan
    BY DEF determine_final_status
  <2>4. QED BY <1>10, <2>1, <2>2, <2>3
<1>11. CASE db_status' = "failed" /\ stage' = "free"
  BY <1>11
<1>12. QED
  BY <1>6, <1>7, <1>8, <1>9, <1>10, <1>11, RowSteps DEF Hands

\* A task stored as completed or partly ready has the artifact that says so, built
\* from the very results its status was determined from.
THEOREM ArtifactAlwaysBacks == Spec => []ArtifactBacksStatus
<1>1. Init => ArtifactInv
  BY DEF Init, ArtifactInv, ArtifactBacksStatus
<1>2. ArtifactInv => ArtifactBacksStatus
  BY DEF ArtifactInv
<1>3. QED BY <1>1, <1>2, HandsCorrect, ArtifactStep, PTL DEF Spec
-----------------------------------------------------------------------------
(* What a tick leaves behind.                                               *)

NothingReady   == \A op \in plan : ~Ready(op)
NothingExpired == \A op \in plan : ~Expired(op)

\* How far the loop of _advance has come: as long as `changed` is FALSE, what it has
\* passed it need not come back to.
PassInv ==
    /\ stage = "advance" /\ ~changed => todo = plan
    /\ stage = "expire" /\ ~changed => NothingReady
    /\ stage = "republish" => NothingExpired
    /\ stage = "republish" /\ ~changed => NothingReady
    /\ NothingReadyLeft

\* What is ready, expired or due is a matter of the plan, the TaskState and `now`.
LEMMA WorkKept ==
    ASSUME UNCHANGED <<plan, state, now>>
    PROVE  \A op \in plan : /\ Ready(op)' <=> Ready(op)
                            /\ Expired(op)' <=> Expired(op)
                            /\ Due(op)' <=> Due(op)
BY DEF Ready, DependsOn, Expired, Due, state

\* Every step of the loop keeps it, and every other one.
LEMMA PassStep ==
    ASSUME Hands, PassInv, [Next]_vars
    PROVE  PassInv'
<1>0. TypeOK /\ ControlInv /\ plan \subseteq Operation /\ plan' = plan
  BY StateSteps, DispatchAssumption DEF Hands, TypeOK
<1>1. CASE UNCHANGED <<plan, state, now, stage, registered, caller, todo, changed>>
  BY <1>1, WorkKept DEF PassInv, NothingReady, NothingExpired, NothingReadyLeft
<1>2. CASE stage' = "free" /\ (~registered' \/ caller' # "tick")
  BY <1>2 DEF PassInv, NothingReadyLeft
<1>3. CASE stage' \in {"save_artifact", "set_status", "abandon"}
  BY <1>3 DEF PassInv, NothingReadyLeft
<1>4. CASE stage' = "advance" /\ (changed' \/ todo' = plan')
  BY <1>4 DEF PassInv, NothingReadyLeft
<1>5. CASE stage' = "expire" /\ changed'
  BY <1>5 DEF PassInv, NothingReadyLeft
<1>6. CASE SetRunning \/ SubmitFails \/ LoadInFlight \/ ReadFails \/ AgentStep \/ TimePasses
  BY <1>1, <1>6 DEF SetRunning, SubmitFails, LoadInFlight, ReadFails, AgentStep, AgentReplies,
     AgentSilent, TimePasses, loop, pass
<1>7. CASE Register \/ _resume
  BY <1>0, <1>3, <1>4, <1>7 DEF Register, _resume, Start, BeginPass
<1>8. CASE BeginTick
  <2>1. CASE stage' = "advance" /\ BeginPass
    BY <1>0, <1>4, <2>1 DEF BeginPass
  <2>2. CASE UNCHANGED <<now, caller, stage, pass>>
    BY <1>1, <1>8, <2>2 DEF BeginTick, pass
  <2>3. QED BY <1>8, <2>1, <2>2 DEF BeginTick
<1>9. CASE RouteUnexpected \/ RouteRefuse \/ RouteInform
  <2>1. stage = "advance" /\ UNCHANGED <<stage, todo, changed>>
    BY <1>9 DEF RouteUnexpected, RouteRefuse, RouteInform, Routing, pass
  <2>2. changed \/ todo = plan
    BY <2>1 DEF PassInv
  <2>3. QED BY <1>0, <1>4, <2>1, <2>2
<1>10. ASSUME NEW op \in plan, PublishReady(op) \/ SkipSubtask(op) PROVE PassInv'
  BY <1>4, <1>10 DEF PublishReady, SkipSubtask, Advancing, Visit, unchangedLoop
<1>11. CASE EndPass
  <2>1. /\ stage' = "expire" /\ UNCHANGED <<plan, state, now, changed>>
        /\ ~changed => NothingReady
    BY <1>11 DEF EndPass, Advancing, PassInv, NothingReady
  <2>2. ~changed' => NothingReady'
    BY <2>1, WorkKept DEF NothingReady
  <2>3. QED BY <2>1, <2>2 DEF PassInv, NothingReadyLeft
<1>12. ASSUME NEW op \in plan, ExpireTimeout(op) PROVE PassInv'
  BY <1>5, <1>12 DEF ExpireTimeout, unchangedLoop
<1>13. CASE EndExpiry
  <2>1. /\ stage = "expire" /\ stage' = "republish" /\ UNCHANGED <<plan, state, now, changed>>
        /\ NothingExpired
    BY <1>13 DEF EndExpiry, NothingExpired, pass
  <2>2. NothingExpired' /\ (~changed' => NothingReady')
    BY <2>1, WorkKept DEF PassInv, NothingReady, NothingExpired
  <2>3. QED BY <2>1, <2>2 DEF PassInv, NothingReadyLeft
<1>14. ASSUME NEW op \in plan, RepublishDue(op) PROVE PassInv'
  <2>1. /\ stage = "republish" /\ stage' = "republish" /\ changed' = TRUE /\ now' = now
        /\ deadlines' = [deadlines EXCEPT ![op] = now + AGENT_TIMEOUTS_SEC[op]]
    BY <1>14 DEF RepublishDue, _publish, unchangedLoop
  <2>2. ~(now > now + AGENT_TIMEOUTS_SEC[op])
    BY <1>0, DispatchAssumption DEF TypeOK
  <2>3. ASSUME NEW other \in plan PROVE ~Expired(other)'
    <3>1. ~Expired(other)
      BY <2>1 DEF PassInv, NothingExpired
    <3>2. QED BY <1>0, <2>1, <2>2, <3>1 DEF Expired, TypeOK
  <2>4. QED BY <1>0, <2>1, <2>3 DEF PassInv, NothingExpired, NothingReadyLeft
<1>15. CASE NextPass
  BY <1>0, <1>4, <1>15 DEF NextPass, BeginPass
<1>16. CASE EndAdvance
  <2>1. /\ NothingReady /\ NothingExpired /\ \A op \in plan : ~Due(op)
        /\ UNCHANGED <<plan, state, now>>
    BY <1>16 DEF EndAdvance, LoopDone, PassInv, MaybeFinalize
  <2>2. \A op \in plan : ~Ready(op)' /\ ~Expired(op)' /\ ~Due(op)'
    BY <2>1, WorkKept DEF NothingReady, NothingExpired
  <2>3. stage' \in {"free", "save_artifact"}
    BY <1>16 DEF EndAdvance, MaybeFinalize, LockReleased
  <2>4. QED BY <1>0, <2>2, <2>3 DEF PassInv, NothingReadyLeft
<1>17. CASE SaveArtifact
  BY <1>3, <1>17 DEF SaveArtifact
<1>18. CASE SetStatus \/ _abandon
  <2>1. stage' = "free" /\ ~registered'
    BY <1>0, <1>18 DEF SetStatus, _abandon, LockReleased, ControlInv
  <2>2. QED BY <1>2, <2>1
<1>19. CASE ProcessingFails
  BY <1>2, <1>3, <1>19 DEF ProcessingFails, Raise
<1>20. CASE EndTick \/ \E op \in plan : PersistResult(op)
  BY <1>1, <1>20 DEF EndTick, PersistResult, pass
<1>21. CASE Crash
  BY <1>2, <1>21 DEF Crash
<1>22. CASE UNCHANGED vars
  BY <1>1, <1>22 DEF vars, loop, pass
<1>23. QED
  BY <1>6, <1>7, <1>8, <1>9, <1>10, <1>11, <1>12, <1>13, <1>14, <1>15, <1>16, <1>17,
     <1>18, <1>19, <1>20, <1>21, <1>22
  DEF Next, Dispatch, Processing, RunLoop, Environment, Failure, AgentStep

\* Whatever replies, timeouts and retries a tick met, the loop of _advance ends only
\* where nothing is left for it to do.
THEOREM TickLeavesNothingReady == Spec => []NothingReadyLeft
<1>1. Init => PassInv
  BY DEF Init, PassInv, NothingReadyLeft
<1>2. PassInv => NothingReadyLeft
  BY DEF PassInv
<1>3. QED BY <1>1, <1>2, HandsCorrect, PassStep, PTL DEF Spec

-----------------------------------------------------------------------------
(* What is in the database is not pending, in whichever process.            *)

\* Of a subtask the task still waits for no result was written, nor is one about to
\* be, and before the task is submitted none at all.
WrittenInv ==
    /\ ~DrivenTwice => (saved \cup jobs) \cap pending = {}
    /\ request # "done" /\ drives = 0 => saved = {}

\* Every step keeps what is written apart from what is pending.
LEMMA WrittenStep ==
    ASSUME Hands, WrittenInv, [Next]_vars
    PROVE  WrittenInv'
<1> USE DEF WrittenInv, DrivenTwice
<1>1. CASE UNCHANGED <<pending, saved, jobs, drives>> /\ (request' # "done" => request # "done")
  BY <1>1
<1>2. CASE SetRunning \/ SubmitFails \/ LoadInFlight \/ ReadFails \/ AgentStep \/ TimePasses
           \/ BeginTick \/ RouteUnexpected
  BY <1>1, <1>2 DEF SetRunning, SubmitFails, LoadInFlight, ReadFails, AgentStep, AgentReplies,
     AgentSilent, TimePasses, BeginTick, RouteUnexpected, state, loop, http, db
<1>3. CASE Register
  <2>1. /\ request = "waiting" /\ request' = "done" /\ pending' = plan
        /\ drives' = 1 => drives = 0
        /\ drives' \in {1, 2} /\ UNCHANGED <<saved, jobs>>
    BY <1>3 DEF Register, Start, NewTaskState, db
  <2>2. drives = 0 => jobs = {}
    BY DEF Hands, ControlInv
  <2>3. QED BY <2>1, <2>2
<1>4. CASE _resume
  <2>1. /\ pc = "loaded" /\ pending' = plan \ (saved \cap plan) /\ UNCHANGED <<saved, jobs>>
        /\ drives' \in {1, 2}
    BY <1>4 DEF _resume, Start, NewTaskState, db
  <2>2. jobs = {}
    BY <2>1 DEF Hands, ControlInv
  <2>3. QED BY <2>1, <2>2
<1>5. CASE RouteInform
  <2>1. PICK op \in pending : pending' = pending \ {op} /\ jobs' = jobs \cup {op}
    BY <1>5 DEF RouteInform
  <2>2. UNCHANGED <<saved, drives, request>>
    BY <1>5 DEF RouteInform, db, http
  <2>3. QED BY <2>1, <2>2
<1>6. ASSUME pending' \subseteq pending, UNCHANGED <<saved, jobs, drives, request>>
      PROVE  WrittenInv'
  BY <1>6
<1>7. CASE RouteRefuse
  BY <1>6, <1>7 DEF RouteRefuse, _schedule_retry_or_fail, _fail_subtask, db, http
<1>8. ASSUME NEW op \in plan,
             PublishReady(op) \/ SkipSubtask(op) \/ ExpireTimeout(op) \/ RepublishDue(op)
      PROVE  WrittenInv'
  BY <1>6, <1>8 DEF PublishReady, SkipSubtask, ExpireTimeout, RepublishDue, unchangedLoop,
     _schedule_retry_or_fail, _fail_subtask, db, http
<1>9. CASE EndPass \/ EndExpiry \/ NextPass \/ EndAdvance \/ SaveArtifact \/ SetStatus
           \/ _abandon \/ EndTick
  BY <1>6, <1>9 DEF EndPass, EndExpiry, NextPass, EndAdvance, MaybeFinalize, SaveArtifact,
     WriteArtifact, SetStatus, WriteStatus, _abandon, EndTick, state, db, http
<1>10. CASE ProcessingFails
  <2>1. UNCHANGED <<pending, jobs, drives, request>>
    BY <1>10 DEF ProcessingFails, Raise, state, http
  <2>2. saved' = saved
    BY <1>10 DEF ProcessingFails, WriteArtifact, WriteStatus, db
  <2>3. QED BY <1>1, <2>1, <2>2
<1>11. ASSUME NEW op \in plan, PersistResult(op) PROVE WrittenInv'
  <2>1. /\ op \in jobs /\ jobs' = jobs \ {op} /\ saved' \in {saved, saved \cup {op}}
        /\ UNCHANGED <<pending, drives, request>>
    BY <1>11 DEF PersistResult, state, http
  <2>2. drives # 0
    BY <2>1 DEF Hands, ControlInv
  <2>3. QED BY <2>1, <2>2
<1>12. CASE Crash
  <2>1. /\ request' = "done" /\ jobs' = {} /\ UNCHANGED <<pending, saved>>
        /\ drives' # 2 => drives # 2
    BY <1>12 DEF Crash, state, db
  <2>2. QED BY <2>1
<1>13. CASE UNCHANGED vars
  BY <1>1, <1>13 DEF vars, state, loop, http, db
<1>14. QED
  BY <1>2, <1>3, <1>4, <1>5, <1>7, <1>8, <1>9, <1>10, <1>11, <1>12, <1>13
  DEF Next, Dispatch, Processing, RunLoop, Environment, Failure, AgentStep

\* What one process has written no later one requests again: recovery and the late
\* answers to an earlier process included (recovery.py:7).
THEOREM DurableIsNotRedone == Spec => DurableNotRedone
<1>1. Init => WrittenInv
  BY DEF Init, WrittenInv
<1>2. Hands /\ WrittenInv /\ [Next]_vars
        => [\A op \in plan : sent'[op] > sent[op] /\ ~DrivenTwice => op \notin saved]_vars
  <2> SUFFICES ASSUME Hands, WrittenInv, [Next]_vars,
                      NEW op \in plan, sent'[op] > sent[op], ~DrivenTwice
               PROVE  op \notin saved
    OBVIOUS
  <2>0. TypeOK /\ StateInv /\ plan \subseteq Operation /\ sent[op] \in Nat
    BY DispatchAssumption DEF Hands, TypeOK
  <2>1. CASE UNCHANGED sent
    BY <2>0, <2>1
  <2>2. CASE Started
    <3>1. sent'[op] = 0
      BY <2>0, <2>2, StartedAnew DEF NewTaskState
    <3>2. QED BY <2>0, <3>1
  <2>3. ASSUME NEW other \in plan, PublishReady(other) \/ RepublishDue(other)
        PROVE  op \notin saved
    <3>1. sent' = [sent EXCEPT ![other] = @ + 1]
      BY <2>3 DEF PublishReady, RepublishDue, _publish
    <3>2. op = other
      BY <2>0, <3>1 DEF TypeOK
    <3>3. op \in pending
      BY <2>0, <2>3, <3>2
      DEF PublishReady, Ready, RepublishDue, Due, StateInv, TimersCoverPending, Armed
    <3>4. QED BY <3>3 DEF WrittenInv
  <2>4. CASE RouteRefuse \/ RouteInform \/ \E q \in plan : SkipSubtask(q) \/ ExpireTimeout(q)
    BY <2>1, <2>4 DEF RouteRefuse, RouteInform, SkipSubtask, ExpireTimeout
  <2>5. QED BY <2>0, <2>1, <2>2, <2>3, <2>4, StateSteps DEF state
<1>3. QED BY <1>1, <1>2, HandsCorrect, WrittenStep, PTL DEF Spec, DurableNotRedone

=============================================================================
