---------------------------- MODULE TaskDispatch ----------------------------
(***************************************************************************)
(* One task in the hands of the Coordinator (src/src/agents/coordinator.py):*)
(* its TaskState, the run loop that drives it, the bus that carries its     *)
(* requests and replies, and the rows the database keeps of it.             *)
(*                                                                          *)
(* The loop holds the coordinator's lock from the moment it captures `now`  *)
(* to the end of the task's processing, yet it awaits the bus and the       *)
(* database on the way, so agents and the clock move between its steps.     *)
(* Each action below ends at such an await.                                 *)
(*                                                                          *)
(* Two coroutines drive it.                                                 *)
(*                                                                          *)
(*   request           the HTTP request that submits the task               *)
(*     "new"           the row is committed, submit() has written nothing   *)
(*     "waiting"       RUNNING is written, the lock is not taken yet        *)
(*     "done"          it took the lock, failed, or died with its process   *)
(*   pc                the run loop                                         *)
(*     "starting"      run() has not read the tasks in flight yet           *)
(*     "loaded"        it found this one and waits for the lock             *)
(*     "idle"          between two ticks                                    *)
(*     "tick"          in a tick, lock held                                 *)
(*     "persist"       lock released: the tick's persist jobs               *)
(*     "dead"          the loop ended by an exception                       *)
(*     "down"          the process is gone; the database and the bus remain *)
(*   stage             what the holder of the lock does with the task       *)
(*     "free"          nobody holds it                                      *)
(*     "advance"       replies to route, then the pass over the subtasks    *)
(*     "expire"        _expire_timeouts                                     *)
(*     "republish"     _republish_due                                       *)
(*     "save_artifact" in _finalize, before the artifact is written         *)
(*     "set_status"    in _finalize, before the status is written           *)
(*     "abandon"       in _abandon, before the status is written            *)
(*   caller            who took the lock last: submit, tick or resume       *)
(*                                                                          *)
(* Agents are the environment: each serves one operation, in the order its  *)
(* requests were published, and answers, refuses or stays silent.           *)
(***************************************************************************)
EXTENDS Plan, Integers, FiniteSets

CONSTANTS
    Plans,              \* the plans to consider, each a set of operations
    RETRY_MAX,          \* retries of one subtask
    BACKOFF_SECONDS,    \* delay before each retry
    AGENT_TIMEOUTS_SEC, \* deadline of one request, per operation
    GLOBAL_DEADLINE,    \* global_deadline_sec
    INBOX_BATCH,        \* replies read in one tick
    Faults,             \* the kinds of failure that may happen
    MaxFaults,          \* bound: how many of them
    MaxTime,            \* bound: ticks of the clock after each (re)start
    MaxGap              \* bound: ticks of the clock between two of the run loop

\* "store": a write raised and nothing was written; "lost": it was written all the
\* same, only the answer was lost; "overlap": the task was submitted while run() was
\* still recovering.
FaultKind == {"publish", "read", "store", "lost", "persist", "silent", "crash", "overlap"}

ASSUME DispatchAssumption ==
    /\ Plans \subseteq SUBSET Operation
    /\ RETRY_MAX \in Nat
    /\ BACKOFF_SECONDS \in [1..RETRY_MAX -> Nat \ {0}]
    /\ AGENT_TIMEOUTS_SEC \in [Operation -> Nat]
    /\ GLOBAL_DEADLINE \in Nat
    /\ INBOX_BATCH \in Nat \ {0}
    /\ Faults \subseteq FaultKind
    /\ MaxFaults \in Nat
    /\ MaxTime \in Nat
    /\ MaxGap \in Nat

VARIABLES
    plan,           \* the operations of the task's plan
    \* the TaskState
    pending, published, results, retry_counts, deadlines, retry_at, started_at,
    sent,           \* requests published for each subtask since it was (re)started
    \* the coroutines
    request, pc, stage, caller, registered, now, replies, jobs,
    todo, changed,  \* the pass of _advance: subtasks not visited yet, and its flag
    drives,         \* times this process took the task up; 2 stays 2 for ever
    \* the bus and the agents
    queued,         \* requests waiting for each agent
    inbox,          \* replies not yet read by the coordinator
    \* the database
    db_status, artifact, saved,
    \* the environment
    clock, faults

state == <<pending, published, results, retry_counts, deadlines, retry_at, sent>>
pass  == <<todo, changed>>
loop  == <<pc, stage, caller, registered, now, started_at, replies, jobs, pass>>
http  == <<request, drives>>
bus   == <<queued, inbox>>
db    == <<db_status, artifact, saved>>
env   == <<clock, faults>>
vars  == <<plan, state, loop, http, bus, db, env>>

NoTimer  == -1
Terminal == {"completed", "partial_ready", "failed"}
Results  == {"absent", "failed", "inform"}
Reply    == [op : Operation, performative : {"INFORM", "REFUSE"}]

NoArtifact == [status |-> "none", operations |-> {}, degraded |-> {},
               retries |-> [op \in Operation |-> 0]]

-----------------------------------------------------------------------------
(* What the code computes from the plan and the results.                    *)

DependsOn(op) == _dependencies(op, plan)

Succeeded(op) == {dep \in DependsOn(op) : results[dep] = "inform"}

\* Mutant of JoinHolds: the two skip branches of _advance are lost.
MutJoinIgnored(op) == TRUE

\* Some upstream succeeded, and all of them where the join policy asks for all.
JoinHolds(op) ==
    \/ DependsOn(op) = {}
    \/ /\ Succeeded(op) # {}
       /\ op \in ANY_JOIN_OPERATIONS \/ Succeeded(op) = DependsOn(op)

\* Mutant of Ready: the upstreams are not waited for.
MutReadyAtOnce(op) == op \in pending \ published

Ready(op) ==
    /\ op \in pending \ published
    /\ \A dep \in DependsOn(op) : results[dep] # "absent"

Expired(op) == deadlines[op] # NoTimer /\ now > deadlines[op]

Due(op) == retry_at[op] # NoTimer /\ now >= retry_at[op]

Completed == {op \in plan : results[op] = "inform"}

\* Mutant of determine_final_status: only recorded failures make a result partial.
MutPendingForgiven ==
    CASE plan = {} \/ (Completed # {} /\ \A op \in plan : results[op] # "failed") -> "completed"
      [] plan # {} /\ Completed = {} -> "failed"
      [] OTHER -> "partial_ready"

\* Mutant of determine_final_status: a resolved subtask counts as a completed one.
MutResolvedCounts ==
    LET resolved == {op \in plan : results[op] # "absent"}
    IN  CASE resolved = plan -> "completed"
          [] resolved = {} /\ plan # {} -> "failed"
          [] OTHER -> "partial_ready"

determine_final_status ==
    CASE plan = {}        -> "completed"
      [] plan # {} /\ Completed = {}   -> "failed"
      [] Completed # {} /\ Completed # plan -> "partial_ready"
      [] OTHER            -> "completed"

assemble_artifact ==
    [status     |-> determine_final_status,
     operations |-> Completed,
     degraded   |-> plan \ Completed,
     retries    |-> [op \in Operation |->
                        IF op \in plan \ Completed THEN retry_counts[op] ELSE 0]]

-----------------------------------------------------------------------------
(* The building blocks of the handlers.                                     *)

\* A failure of the given kind, within the bound.
Fault(kind) ==
    /\ kind \in Faults
    /\ faults < MaxFaults
    /\ faults' = faults + 1

\* Mutant of NewTaskState: what was loaded is forgotten.
MutNothingLoaded(loaded) ==
    /\ pending' = plan
    /\ published' = {}
    /\ results' = [op \in Operation |-> "absent"]
    /\ retry_counts' = [op \in Operation |-> 0]
    /\ deadlines' = [op \in Operation |-> NoTimer]
    /\ retry_at' = [op \in Operation |-> NoTimer]
    /\ sent' = [op \in Operation |-> 0]

\* A fresh TaskState whose `loaded` subtasks already have their results.
NewTaskState(loaded) ==
    /\ pending' = plan \ loaded
    /\ published' = loaded
    /\ results' = [op \in Operation |-> IF op \in loaded THEN "inform" ELSE "absent"]
    /\ retry_counts' = [op \in Operation |-> 0]
    /\ deadlines' = [op \in Operation |-> NoTimer]
    /\ retry_at' = [op \in Operation |-> NoTimer]
    /\ sent' = [op \in Operation |-> 0]

\* _advance enters its loop: a pass over all subtasks.
BeginPass == todo' = plan /\ changed' = FALSE
NoPass    == todo' = {} /\ changed' = FALSE

\* Under the lock: _finalize at once when nothing is pending, else register and
\* _advance.
Start(who, loaded) ==
    /\ stage = "free"
    /\ NewTaskState(loaded)
    /\ now' = clock
    /\ started_at' = clock
    /\ caller' = who
    /\ registered' = (plan \ loaded # {})
    /\ \/ plan \ loaded = {} /\ stage' = "save_artifact" /\ NoPass
       \/ plan \ loaded # {} /\ stage' = "advance" /\ BeginPass
    /\ drives' = IF drives = 0 THEN 1 ELSE 2
    /\ UNCHANGED <<pc, replies, jobs>>

\* Mutant of _publish: the request gets no deadline.
MutNoDeadline(op) ==
    /\ queued' = [queued EXCEPT ![op] = @ + 1]
    /\ published' = published \cup {op}
    /\ sent' = [sent EXCEPT ![op] = @ + 1]
    /\ UNCHANGED deadlines

_publish(op) ==
    /\ queued' = [queued EXCEPT ![op] = @ + 1]
    /\ published' = published \cup {op}
    /\ sent' = [sent EXCEPT ![op] = @ + 1]
    /\ deadlines' = [deadlines EXCEPT ![op] = now + AGENT_TIMEOUTS_SEC[op]]

_fail_subtask(op) ==
    /\ results' = [results EXCEPT ![op] = "failed"]
    /\ deadlines' = [deadlines EXCEPT ![op] = NoTimer]
    /\ retry_at' = [retry_at EXCEPT ![op] = NoTimer]
    /\ published' = published \cup {op}
    /\ pending' = pending \ {op}
    /\ UNCHANGED retry_counts

\* Mutant of _schedule_retry_or_fail: the count is raised before it is compared.
MutCountedFirst(op) ==
    LET tries == retry_counts[op] + 1 IN
    /\ retry_counts' = [retry_counts EXCEPT ![op] = tries]
    /\ deadlines' = [deadlines EXCEPT ![op] = NoTimer]
    /\ \/ /\ tries > RETRY_MAX
          /\ results' = [results EXCEPT ![op] = "failed"]
          /\ retry_at' = [retry_at EXCEPT ![op] = NoTimer]
          /\ published' = published \cup {op}
          /\ pending' = pending \ {op}
       \/ /\ tries <= RETRY_MAX
          /\ retry_at' = [retry_at EXCEPT ![op] = now + BACKOFF_SECONDS[tries]]
          /\ UNCHANGED <<results, published, pending>>

\* Mutant of _schedule_retry_or_fail: the callers keep the deadline.
MutDeadlineKept(op) ==
    \/ /\ retry_counts[op] >= RETRY_MAX
       /\ _fail_subtask(op)
    \/ /\ retry_counts[op] < RETRY_MAX
       /\ retry_counts' = [retry_counts EXCEPT ![op] = @ + 1]
       /\ retry_at' = [retry_at EXCEPT ![op] = now + BACKOFF_SECONDS[retry_counts[op] + 1]]
       /\ UNCHANGED <<results, published, pending, deadlines>>

\* Mutant of _schedule_retry_or_fail: the retry is not counted.
MutRetryUncounted(op) ==
    \/ /\ retry_counts[op] >= RETRY_MAX
       /\ _fail_subtask(op)
    \/ /\ retry_counts[op] < RETRY_MAX
       /\ retry_at' = [retry_at EXCEPT ![op] = now + BACKOFF_SECONDS[retry_counts[op] + 1]]
       /\ deadlines' = [deadlines EXCEPT ![op] = NoTimer]
       /\ UNCHANGED <<results, published, pending, retry_counts>>

\* Both callers have dropped the deadline before the call.
_schedule_retry_or_fail(op) ==
    \/ /\ retry_counts[op] >= RETRY_MAX
       /\ _fail_subtask(op)
    \/ /\ retry_counts[op] < RETRY_MAX
       /\ retry_counts' = [retry_counts EXCEPT ![op] = @ + 1]
       /\ retry_at' = [retry_at EXCEPT ![op] = now + BACKOFF_SECONDS[retry_counts[op] + 1]]
       /\ deadlines' = [deadlines EXCEPT ![op] = NoTimer]
       /\ UNCHANGED <<results, published, pending>>

-----------------------------------------------------------------------------
(* submit, _recover and the start of a tick.                                *)

Up == pc # "down"

\* The first half of submit, before the lock: whatever the row says by now.
SetRunning ==
    /\ Up
    /\ request = "new"
    /\ db_status' = "running"
    /\ request' = "waiting"
    /\ UNCHANGED <<plan, state, loop, drives, bus, artifact, saved, env>>

\* It raised: the request fails, the task is not registered.
SubmitFails ==
    /\ Up
    /\ request = "new"
    /\ \/ Fault("store") /\ UNCHANGED db_status
       \/ Fault("lost") /\ db_status' = "running"
    /\ request' = "done"
    /\ UNCHANGED <<plan, state, loop, drives, bus, artifact, saved, clock>>

\* The second half, with the lock: a fresh TaskState, whatever recovery has done.
Register ==
    /\ Up
    /\ request = "waiting"
    /\ Start("submit", {})
    /\ request' = "done"
    /\ UNCHANGED <<plan, bus, db, env>>

\* Mutant of LoadInFlight: only RUNNING tasks are looked for.
MutPlanningForgotten ==
    /\ pc \in {"down", "starting"}
    /\ pc' = IF db_status = "running" THEN "loaded" ELSE "idle"
    /\ UNCHANGED <<plan, state, stage, caller, registered, now, started_at, replies, jobs,
                   pass, http, bus, db, env>>

\* A (re)started process looks for tasks in flight, before it takes the lock.
LoadInFlight ==
    /\ pc \in {"down", "starting"}
    /\ pc' = IF db_status \in Terminal THEN "idle" ELSE "loaded"
    /\ UNCHANGED <<plan, state, stage, caller, registered, now, started_at, replies, jobs,
                   pass, http, bus, db, env>>

\* The results whose rows exist are reloaded, as LoadInFlight read them: nothing
\* saves a result before the loop ticks.  The rest is driven from scratch.  The
\* status is not written: a task recovered from PLANNING stays there.
_resume ==
    /\ pc = "loaded"
    /\ Start("resume", saved \cap plan)
    /\ UNCHANGED <<plan, request, bus, db, env>>

\* The replies one XREADGROUP hands over, and what it leaves in the stream.
BatchSize == IF Len(inbox) < INBOX_BATCH THEN Len(inbox) ELSE INBOX_BATCH
Batch == SubSeq(inbox, 1, BatchSize)
Rest  == SubSeq(inbox, BatchSize + 1, Len(inbox))

\* Read a batch, acknowledging each entry, then take the lock.  Replies to a
\* task that is not registered are dropped.
BeginTick ==
    /\ pc = "idle"
    /\ stage = "free"
    /\ inbox' = Rest
    /\ \/ /\ registered
          /\ replies' = Batch
          /\ now' = clock
          /\ caller' = "tick"
          /\ pc' = "tick"
          /\ stage' = "advance"
          /\ BeginPass
       \/ /\ ~registered
          /\ UNCHANGED <<replies, now, caller, pc, stage, pass>>
    /\ UNCHANGED <<plan, state, registered, started_at, jobs, http, queued, db, env>>

\* An exception while the batch is read: its entries are delivered, some of them
\* acknowledged, none handled, and none is ever delivered again.
ReadFails ==
    /\ pc = "idle"
    /\ inbox # <<>>
    /\ Fault("read")
    /\ inbox' = Rest
    /\ UNCHANGED <<plan, state, loop, http, queued, db, clock>>

-----------------------------------------------------------------------------
(* One tick: route every reply, then _advance to its fixpoint.              *)

Routing == stage = "advance" /\ replies # <<>>

RouteUnexpected ==
    /\ Routing
    /\ Head(replies).op \notin pending
    /\ replies' = Tail(replies)
    /\ UNCHANGED <<plan, state, pc, stage, caller, registered, now, started_at, jobs, pass, http,
                   bus, db, env>>

RouteRefuse ==
    /\ Routing
    /\ Head(replies).op \in pending
    /\ Head(replies).performative = "REFUSE"
    /\ _schedule_retry_or_fail(Head(replies).op)
    /\ replies' = Tail(replies)
    /\ UNCHANGED <<plan, sent, pc, stage, caller, registered, now, started_at, jobs, pass, http,
                   bus, db, env>>

\* Mutant of RouteInform: a reply of a subtask that is no longer pending counts.
MutLateInform ==
    /\ Routing
    /\ Head(replies).performative = "INFORM"
    /\ LET op == Head(replies).op IN
        /\ results' = [results EXCEPT ![op] = "inform"]
        /\ deadlines' = [deadlines EXCEPT ![op] = NoTimer]
        /\ retry_at' = [retry_at EXCEPT ![op] = NoTimer]
        /\ pending' = pending \ {op}
        /\ jobs' = jobs \cup {op}
    /\ replies' = Tail(replies)
    /\ UNCHANGED <<plan, published, retry_counts, sent, pc, stage, caller, registered, now,
                   started_at, pass, http, bus, db, env>>

RouteInform ==
    /\ Routing
    /\ Head(replies).performative = "INFORM"
    /\ LET op == Head(replies).op IN
        /\ op \in pending
        /\ results' = [results EXCEPT ![op] = "inform"]
        /\ deadlines' = [deadlines EXCEPT ![op] = NoTimer]
        /\ retry_at' = [retry_at EXCEPT ![op] = NoTimer]
        /\ pending' = pending \ {op}
        /\ jobs' = jobs \cup {op}
    /\ replies' = Tail(replies)
    /\ UNCHANGED <<plan, published, retry_counts, sent, pc, stage, caller, registered, now,
                   started_at, pass, http, bus, db, env>>

Advancing == stage = "advance" /\ replies = <<>>

\* One subtask of the pass is treated.  The pass follows the plan, whose order is the
\* request's: any of the others may have been passed over before it.
Visit(op) ==
    /\ op \in todo
    /\ \E over \in SUBSET {other \in todo : ~Ready(other)} : todo' = todo \ ({op} \cup over)
    /\ changed' = TRUE

unchangedLoop == <<pc, stage, caller, registered, now, started_at, replies, jobs>>

PublishReady(op) ==
    /\ Advancing
    /\ Visit(op)
    /\ Ready(op)
    /\ JoinHolds(op)
    /\ _publish(op)
    /\ UNCHANGED <<plan, pending, results, retry_counts, retry_at, unchangedLoop, http, inbox,
                   db, env>>

SkipSubtask(op) ==
    /\ Advancing
    /\ Visit(op)
    /\ Ready(op)
    /\ ~JoinHolds(op)
    /\ _fail_subtask(op)
    /\ UNCHANGED <<plan, sent, unchangedLoop, http, bus, db, env>>

\* The pass is through: the deadlines are next.
EndPass ==
    /\ Advancing
    /\ \A op \in todo : ~Ready(op)
    /\ stage' = "expire"
    /\ todo' = {}
    /\ UNCHANGED <<plan, state, pc, caller, registered, now, started_at, replies, jobs, changed,
                   http, bus, db, env>>

ExpireTimeout(op) ==
    /\ stage = "expire"
    /\ Expired(op)
    /\ _schedule_retry_or_fail(op)
    /\ changed' = TRUE
    /\ UNCHANGED <<plan, sent, unchangedLoop, todo, http, bus, db, env>>

EndExpiry ==
    /\ stage = "expire"
    /\ \A op \in plan : ~Expired(op)
    /\ stage' = "republish"
    /\ UNCHANGED <<plan, state, pc, caller, registered, now, started_at, replies, jobs, pass,
                   http, bus, db, env>>

RepublishDue(op) ==
    /\ stage = "republish"
    /\ Due(op)
    /\ _publish(op)
    /\ retry_at' = [retry_at EXCEPT ![op] = NoTimer]
    /\ changed' = TRUE
    /\ UNCHANGED <<plan, pending, results, retry_counts, unchangedLoop, todo, http, inbox, db,
                   env>>

LoopDone == stage = "republish" /\ \A op \in plan : ~Due(op)

\* Something changed: once more round the loop.
NextPass ==
    /\ LoopDone
    /\ changed
    /\ stage' = "advance"
    /\ BeginPass
    /\ UNCHANGED <<plan, state, pc, caller, registered, now, started_at, replies, jobs,
                   http, bus, db, env>>

\* Where control goes when the task needs nothing more.
LockReleased ==
    /\ stage' = "free"
    /\ pc' = CASE caller = "tick"   -> "persist"
               [] caller = "resume" -> "idle"
               [] OTHER             -> pc

Overrun == caller = "tick" /\ now - started_at > GLOBAL_DEADLINE

\* _maybe_finalize, and the global deadline check of a tick.
MaybeFinalize ==
    /\ \/ /\ pending = {} \/ Overrun
          /\ stage' = "save_artifact"
          /\ UNCHANGED pc
       \/ /\ ~(pending = {} \/ Overrun)
          /\ LockReleased
    /\ UNCHANGED <<plan, state, caller, registered, now, started_at, replies, jobs, http,
                   bus, db, env>>

\* Mutant of EndAdvance: the loop ends after a single pass.
MutSinglePass ==
    /\ LoopDone
    /\ NoPass
    /\ MaybeFinalize

\* A pass in which nothing changed ends the loop.
EndAdvance ==
    /\ LoopDone
    /\ ~changed
    /\ NoPass
    /\ MaybeFinalize

-----------------------------------------------------------------------------
(* _finalize writes the artifact and the status in two transactions.        *)

WriteArtifact == artifact' = assemble_artifact /\ UNCHANGED <<db_status, saved>>
WriteStatus   == db_status' = determine_final_status /\ UNCHANGED <<artifact, saved>>

SaveArtifact ==
    /\ stage = "save_artifact"
    /\ WriteArtifact
    /\ stage' = "set_status"
    /\ UNCHANGED <<plan, state, pc, caller, registered, now, started_at, replies, jobs, pass,
                   http, bus, env>>

\* Mutant of SetStatus: the task is not removed from the coordinator's table.
MutStaysRegistered ==
    /\ stage = "set_status"
    /\ WriteStatus
    /\ LockReleased
    /\ UNCHANGED <<plan, state, caller, registered, now, started_at, replies, jobs, pass, http,
                   bus, env>>

SetStatus ==
    /\ stage = "set_status"
    /\ WriteStatus
    /\ registered' = FALSE
    /\ LockReleased
    /\ UNCHANGED <<plan, state, caller, now, started_at, replies, jobs, pass, http, bus, env>>

\* Where an exception leads: the tick abandons the task; submit leaves it to the next
\* tick and fails the HTTP request; in _recover the exception ends run().
Raise ==
    /\ stage' = IF caller = "tick" THEN "abandon" ELSE "free"
    /\ pc' = IF caller = "resume" THEN "dead" ELSE pc
    /\ registered' = (registered /\ caller # "tick")
    /\ NoPass
    /\ UNCHANGED <<plan, state, caller, now, started_at, replies, jobs, http, bus, clock>>

\* A publish, the assembly or a store write raised.  A write that raised may have been
\* committed all the same, with its answer lost.
ProcessingFails ==
    /\ \/ /\ \/ Advancing /\ \E op \in todo : Ready(op) /\ JoinHolds(op)
             \/ stage = "republish" /\ \E op \in plan : Due(op)
          /\ Fault("publish")
          /\ UNCHANGED db
       \/ /\ stage \in {"save_artifact", "set_status"}
          /\ Fault("store")
          /\ UNCHANGED db
       \/ stage = "save_artifact" /\ Fault("lost") /\ WriteArtifact
       \/ stage = "set_status" /\ Fault("lost") /\ WriteStatus
    /\ Raise

\* The row is written whatever it says.
_abandon ==
    /\ stage = "abandon"
    /\ \/ db_status' = "failed" /\ UNCHANGED faults
       \/ Fault("store") /\ UNCHANGED db_status
    /\ LockReleased
    /\ UNCHANGED <<plan, state, caller, registered, now, started_at, replies, jobs, pass, http,
                   bus, artifact, saved, clock>>

-----------------------------------------------------------------------------
(* After the lock is released: the persist jobs of the tick.                *)

\* Saved, or given up after _PERSIST_RETRIES tries: it never raises.
PersistResult(op) ==
    /\ pc = "persist"
    /\ op \in jobs
    /\ jobs' = jobs \ {op}
    /\ \/ saved' = saved \cup {op}
       \/ "persist" \in Faults /\ UNCHANGED saved
    /\ UNCHANGED <<plan, state, pc, stage, caller, registered, now, started_at, replies, pass,
                   http, bus, db_status, artifact, env>>

EndTick ==
    /\ pc = "persist"
    /\ jobs = {}
    /\ pc' = "idle"
    /\ UNCHANGED <<plan, state, stage, caller, registered, now, started_at, replies, jobs,
                   pass, http, bus, db, env>>

-----------------------------------------------------------------------------
(* The environment.                                                         *)

\* The agent of `op` handled its oldest request and published the reply.
AgentReplies(op, performative) ==
    /\ Up
    /\ queued[op] > 0
    /\ queued' = [queued EXCEPT ![op] = @ - 1]
    /\ inbox' = Append(inbox, [op |-> op, performative |-> performative])
    /\ UNCHANGED <<plan, state, loop, http, db, env>>

\* The agent hung or its handler raised: the entry is never delivered again.
AgentSilent(op) ==
    /\ Up
    /\ "silent" \in Faults
    /\ queued[op] > 0
    /\ queued' = [queued EXCEPT ![op] = @ - 1]
    /\ UNCHANGED <<plan, state, loop, http, inbox, db, env>>

\* The clock is read when a tick or a (re)start begins and nowhere else, and only
\* differences of times matter: time that passes while the lock is held, or nobody
\* has the task in hand, shows only at the next tick.  Each incarnation of the task gets
\* MaxTime ticks of the clock, and the run loop sleeps through at most MaxGap of them.
TimePasses ==
    /\ pc = "idle" /\ stage = "free" /\ registered
    /\ clock - started_at < MaxTime
    /\ clock - now < MaxGap
    /\ clock' = clock + 1
    /\ UNCHANGED <<plan, state, loop, http, bus, db, faults>>

\* Coordinator and agents share the process.  What an agent was handling is lost
\* with it; requests and replies not yet read stay in Redis.  A monotonic clock means
\* nothing to another process, so it may as well start anew.
Crash ==
    /\ Up
    /\ Fault("crash")
    /\ \E lost \in SUBSET {op \in Operation : queued[op] > 0} :
          queued' = [op \in Operation |-> IF op \in lost THEN queued[op] - 1 ELSE queued[op]]
    /\ pc' = "down"
    /\ stage' = "free"
    /\ request' = "done"
    /\ drives' = IF drives = 2 THEN 2 ELSE 0
    /\ registered' = FALSE
    /\ replies' = <<>>
    /\ jobs' = {}
    /\ NoPass
    /\ clock' = 0
    /\ UNCHANGED <<plan, state, caller, now, started_at, inbox, db>>

-----------------------------------------------------------------------------

\* The row is committed.  Usually the run loop has long been ticking by then.
Init ==
    /\ plan \in Plans
    /\ pending = {} /\ published = {}
    /\ results = [op \in Operation |-> "absent"]
    /\ retry_counts = [op \in Operation |-> 0]
    /\ deadlines = [op \in Operation |-> NoTimer]
    /\ retry_at = [op \in Operation |-> NoTimer]
    /\ sent = [op \in Operation |-> 0]
    /\ \/ pc = "idle" /\ faults = 0
       \/ pc = "starting" /\ "overlap" \in Faults /\ MaxFaults > 0 /\ faults = 1
    /\ request = "new" /\ drives = 0 /\ stage = "free" /\ todo = {} /\ changed = FALSE
    /\ caller = "submit" /\ registered = FALSE
    /\ now = 0 /\ started_at = 0 /\ clock = 0
    /\ replies = <<>> /\ jobs = {} /\ inbox = <<>>
    /\ queued = [op \in Operation |-> 0]
    /\ db_status = "planning" /\ artifact = NoArtifact /\ saved = {}

\* A step of the holder of the lock.
Processing ==
    \/ RouteUnexpected \/ RouteRefuse \/ RouteInform
    \/ \E op \in plan : PublishReady(op) \/ SkipSubtask(op)
                        \/ ExpireTimeout(op) \/ RepublishDue(op)
    \/ EndPass \/ EndExpiry \/ NextPass \/ EndAdvance
    \/ SaveArtifact \/ SetStatus
    \/ _abandon

\* A step of the run loop outside the lock.
RunLoop ==
    \/ LoadInFlight \/ _resume
    \/ BeginTick
    \/ \E op \in plan : PersistResult(op)
    \/ EndTick

Dispatch == SetRunning \/ Register \/ Processing \/ RunLoop

Environment ==
    \/ \E op \in plan, performative \in {"INFORM", "REFUSE"} : AgentReplies(op, performative)
    \/ \E op \in plan : AgentSilent(op)
    \/ TimePasses
    \/ Crash

Failure == SubmitFails \/ ReadFails \/ ProcessingFails

Next == Dispatch \/ Environment \/ Failure

Spec == Init /\ [][Next]_vars

\* The event loop keeps running both coroutines, the lock is handed over in the order
\* it was asked for, and time keeps passing (strongly fair where a step is enabled
\* between others only).  Nothing is assumed of the agents.
FairSpec ==
    /\ Spec
    /\ WF_vars(Processing \/ RunLoop) /\ WF_vars(SetRunning)
    /\ SF_vars(Register) /\ SF_vars(TimePasses)

-----------------------------------------------------------------------------
(* Properties.                                                              *)

\* The sets every variable ranges over.
TypeOK ==
    /\ plan \in Plans
    /\ pending \subseteq plan
    /\ published \subseteq plan
    /\ results \in [Operation -> Results]
    /\ retry_counts \in [Operation -> 0..RETRY_MAX]
    /\ deadlines \in [Operation -> Nat \cup {NoTimer}]
    /\ retry_at \in [Operation -> Nat \cup {NoTimer}]
    /\ sent \in [Operation -> Nat]
    /\ request \in {"new", "waiting", "done"}
    /\ pc \in {"starting", "loaded", "idle", "tick", "persist", "dead", "down"}
    /\ stage \in {"free", "advance", "expire", "republish", "save_artifact", "set_status",
                  "abandon"}
    /\ todo \subseteq plan /\ changed \in BOOLEAN /\ drives \in 0..2
    /\ caller \in {"submit", "tick", "resume"}
    /\ registered \in BOOLEAN
    /\ now \in Nat /\ started_at \in Nat /\ clock \in Nat /\ faults \in Nat
    /\ replies \in Seq(Reply) /\ inbox \in Seq(Reply)
    /\ jobs \subseteq plan /\ saved \subseteq plan
    /\ queued \in [Operation -> Nat]
    /\ db_status \in {"planning", "running"} \cup Terminal
    /\ artifact \in [status : {"none"} \cup Terminal,
                     operations : SUBSET Operation, degraded : SUBSET Operation,
                     retries : [Operation -> Nat]]

Armed(timer, op) == timer[op] # NoTimer

\* A subtask the task still waits for, and that was requested, always has a timer
\* that will move it on, its deadline or its retry; a resolved one has none.
\* Losing the last timer of a subtask (a late refuse, a timeout racing a reply)
\* would leave the task waiting for it until the global deadline.
TimersCoverPending ==
    \A op \in plan :
        /\ op \in pending \cap published => Armed(deadlines, op) \/ Armed(retry_at, op)
        /\ op \notin pending => ~Armed(deadlines, op) /\ ~Armed(retry_at, op)

\* A subtask that was requested and failed was requested often enough: a request may
\* use up two of its 1 + RETRY_MAX attempts, one when its deadline passes and one when
\* its refuse arrives late, and never a third.
TriedEnough ==
    \A op \in plan : results[op] = "failed" /\ sent[op] > 0 => 2 * sent[op] >= RETRY_MAX + 1

\* A tick leaves nothing undone: of every subtask the task still waits for, an
\* upstream is unresolved, or its deadline has not passed, or its retry is not due.
NothingReadyLeft ==
    stage = "free" /\ registered /\ caller = "tick" =>
        \A op \in plan : ~Ready(op) /\ ~Expired(op) /\ ~Due(op)

\* One incarnation of a task publishes at most 1 + RETRY_MAX requests of a subtask,
\* whatever mix of timeouts, refuses and late replies it meets.
RequestBudget == \A op \in plan : sent[op] <= RETRY_MAX + 1

UpstreamResolved(op) == \A dep \in DependsOn(op) : results[dep] # "absent"

\* Enough upstreams of `op` succeeded for its join policy.
EnoughUpstream(op) ==
    DependsOn(op) # {} =>
        /\ \E dep \in DependsOn(op) : results[dep] = "inform"
        /\ op \notin ANY_JOIN_OPERATIONS => \A dep \in DependsOn(op) : results[dep] = "inform"

\* A subtask was only ever requested with its upstreams resolved and its join
\* policy met ("Subtasks are dispatched by dependency readiness", coordinator.py:4).
DispatchedWhenReady ==
    \A op \in plan : sent[op] > 0 => UpstreamResolved(op) /\ EnoughUpstream(op)

\* A subtask fails for one of two reasons only: it was never requested because its
\* upstreams do not meet its join policy, or its retries are used up.
FailureHasCause ==
    \A op \in plan : results[op] = "failed" =>
        \/ sent[op] = 0 /\ UpstreamResolved(op) /\ ~EnoughUpstream(op)
        \/ sent[op] > 0 /\ retry_counts[op] = RETRY_MAX

\* submit and recovery both took the task up in one process: it was driven twice.
DrivenTwice == drives = 2

\* A task that is stored as completed or partly ready has an artifact of that very
\* status, which names exactly the subtasks that succeeded, all of them if the task
\* is completed: nothing resolved after the artifact was assembled, and no crash
\* left a status without its artifact.  A task driven twice is excepted: the second
\* drive works under the status of the first.
ArtifactBacksStatus ==
    db_status \in {"completed", "partial_ready"} /\ ~DrivenTwice =>
        /\ artifact.status = db_status
        /\ artifact.operations = Completed
        /\ artifact.degraded = plan \ Completed
        /\ db_status = "completed" <=> Completed = plan

\* As long as the task is not taken up anew a resolved subtask keeps its result: a late
\* or repeated reply never turns a failure into a success or the reverse.
ResolutionIsFinal ==
    [][stage # "free" =>
          \A op \in plan : results[op] # "absent" => results'[op] = results[op]]_vars

\* The rows of a settled task change in two ways only: the RUNNING of a submit that
\* the recovery overtook (coordinator.py:127), and the FAILED of _abandon when the
\* answer to the settling write was lost (coordinator.py:377).  Neither touches the
\* artifact.  Nothing that agents still send, no timer and no restart changes them.
\* (After the first of the two the task is driven a second time, and settled again.)
SettledRowsStay ==
    [][(db_status \in Terminal /\ ~DrivenTwice) =>
          /\ artifact' = artifact
          /\ \/ db_status' = db_status
             \/ request = "new" /\ db_status' = "running"
             \/ stage = "abandon" /\ db_status' = "failed"]_vars

\* A subtask whose result is in the database is never requested (again): recovery
\* resumes "only the subtasks that have no reloaded result" (recovery.py:7).  Only a
\* submit that comes after the recovery asks for everything once more.
DurableNotRedone ==
    [][\A op \in plan : sent'[op] > sent[op] /\ ~DrivenTwice => op \notin saved]_vars

\* Apart from crashes, a recovery that meets submit and lost answers of the store, the
\* dispatch of a task implements the abstract task: outcomes are only added while the
\* task is in flight, and its final status is theirs.
Abstract == INSTANCE AbstractTask WITH outcome <- results, status <- db_status

ImplementsTask == Abstract!Spec

\* Every task ends in a terminal status and stays there, even if no agent ever
\* answers, wherever the process crashes, and if recovery and submit both drive it.
EventuallySettled == <>[](db_status \in Terminal)
=============================================================================
