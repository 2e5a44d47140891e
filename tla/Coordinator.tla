----------------------------- MODULE Coordinator -----------------------------
(***************************************************************************)
(* The table of tasks of the Coordinator (src/src/agents/coordinator.py)    *)
(* and everyone who writes to it or to the tasks' rows: the HTTP handlers   *)
(* that create tasks (api/routes.py), the recovery at start-up              *)
(* (agents/recovery.py) and the run loop.  TaskDispatch says how one task   *)
(* is driven; here a task is the set of subtasks still pending, and what    *)
(* matters is who holds it, when.                                           *)
(*                                                                          *)
(*   loop   "loading"    in load_in_flight, or before it                    *)
(*          "loaded"     the rows are read, the lock is awaited             *)
(*          "resuming"   lock held: _resume of each row read                *)
(*          "idle"       between two ticks                                  *)
(*          "ticking"    lock held: each task of the table in turn          *)
(*          "persisting" lock released: the persist jobs of the tick        *)
(*          "dead"       run() ended by an exception in _recover            *)
(*          "down"       the process is gone                                *)
(*   handler, per task, "none", "created" (the row is committed), "started" *)
(*          (set_status(RUNNING) done, the lock is awaited), "done", "error"*)
(*                                                                          *)
(* The server accepts requests while run() is still recovering: lifespan    *)
(* does not wait for it.  submit() holds the lock for one step here: no     *)
(* holder of the lock can come in between, and its writes touch its own     *)
(* task only.                                                               *)
(***************************************************************************)
EXTENDS Integers, FiniteSets

CONSTANTS
    Task,
    Subtask,
    Plan,       \* the subtasks of each task
    Faults,     \* the kinds of failure that may happen
    MaxFaults,  \* bound: how many of them
    MaxTasks    \* bound: how many of the tasks are created

ASSUME CoordinatorAssumption ==
    /\ IsFiniteSet(Task)
    /\ Plan \in [Task -> SUBSET Subtask]
    /\ Faults \subseteq {"raise", "resume", "store", "read", "crash"}
    /\ MaxFaults \in Nat /\ MaxTasks \in Nat

VARIABLES
    status, saved,      \* the database: the row of each task, its result rows
    requests, answers,  \* the bus: requests not yet handled, replies not yet read
    handler,            \* the HTTP request of each task
    loop, todo, jobs,   \* the run loop, the tasks it has yet to treat, its persist jobs
    table, pending,     \* _tasks, and the pending subtasks of each TaskState
    gauge,              \* INFLIGHT_TASKS
    orphaned,           \* tasks a failing database left in flight, until a restart
    faults

vars == <<status, saved, requests, answers, handler, loop, todo, jobs, table, pending,
          gauge, orphaned, faults>>

InFlight == {"planning", "running"}
Terminal == {"finished", "failed"}

\* Nobody holds the coordinator's lock.
LockFree == loop \notin {"resuming", "ticking"}

Up == loop # "down"

Fault(kind) ==
    /\ kind \in Faults
    /\ faults < MaxFaults
    /\ faults' = faults + 1

-----------------------------------------------------------------------------
(* The HTTP handler of one task.                                            *)

\* The rows of the task and of its documents are committed.
CreateTask(t) ==
    /\ Up
    /\ handler[t] = "none" /\ Cardinality({u \in Task : handler[u] # "none"}) < MaxTasks
    /\ handler' = [handler EXCEPT ![t] = "created"]
    /\ status' = [status EXCEPT ![t] = "planning"]
    /\ UNCHANGED <<saved, requests, answers, loop, todo, jobs, table, pending, gauge,
                   orphaned, faults>>

\* submit(): the status is written before the lock is taken.
SetRunning(t) ==
    /\ handler[t] = "created"
    /\ \/ /\ status' = [status EXCEPT ![t] = "running"]
          /\ handler' = [handler EXCEPT ![t] = "started"]
          /\ UNCHANGED <<orphaned, faults>>
       \/ /\ Fault("store")
          /\ handler' = [handler EXCEPT ![t] = "error"]
          /\ orphaned' = orphaned \cup {t}
          /\ UNCHANGED status
    /\ UNCHANGED <<saved, requests, answers, loop, todo, jobs, table, pending, gauge>>

\* A new TaskState for `t`, whose `loaded` subtasks have their results: finalised
\* at once when nothing is pending, else put into the table, and its requests out.
Register(t, loaded) ==
    /\ pending' = [pending EXCEPT ![t] = Plan[t] \ loaded]
    /\ \/ /\ Plan[t] \ loaded = {}
          /\ status' = [status EXCEPT ![t] = "finished"]
          /\ UNCHANGED <<table, gauge, requests>>
       \/ /\ Plan[t] \ loaded # {}
          /\ table' = table \cup {t}
          /\ gauge' = gauge + 1
          /\ requests' = [requests EXCEPT ![t] =
                             [s \in Subtask |-> IF s \in Plan[t] \ loaded THEN @[s] + 1 ELSE @[s]]]
          /\ UNCHANGED status

Submit(t) ==
    /\ LockFree
    /\ handler[t] = "started"
    /\ handler' = [handler EXCEPT ![t] = "done"]
    /\ Register(t, {})
    /\ UNCHANGED <<saved, answers, loop, todo, jobs, orphaned, faults>>

\* A publish raised (the task stays in the table), or the empty plan could not be
\* finalised (it is in nobody's hands).
SubmitRaises(t) ==
    /\ LockFree
    /\ handler[t] = "started"
    /\ handler' = [handler EXCEPT ![t] = "error"]
    /\ \/ /\ Plan[t] # {}
          /\ Fault("raise")
          /\ pending' = [pending EXCEPT ![t] = Plan[t]]
          /\ table' = table \cup {t}
          /\ gauge' = gauge + 1
          /\ UNCHANGED orphaned
       \/ /\ Plan[t] = {}
          /\ Fault("store")
          /\ orphaned' = orphaned \cup {t}
          /\ UNCHANGED <<pending, table, gauge>>
    /\ UNCHANGED <<status, saved, requests, answers, loop, todo, jobs>>

-----------------------------------------------------------------------------
(* The recovery at start-up.                                                *)

\* load_in_flight, outside the lock.
LoadInFlight ==
    /\ loop = "loading"
    /\ \/ /\ loop' = "loaded"
          /\ todo' = {t \in Task : status[t] \in InFlight}
          /\ UNCHANGED faults
       \/ /\ Fault("store")
          /\ loop' = "dead"
          /\ UNCHANGED todo
    /\ UNCHANGED <<status, saved, requests, answers, handler, jobs, table, pending,
                   gauge, orphaned>>

BeginResume ==
    /\ loop = "loaded"
    /\ loop' = "resuming"
    /\ UNCHANGED <<status, saved, requests, answers, handler, todo, jobs, table, pending,
                   gauge, orphaned, faults>>

\* The results were read with the row: nothing has been saved since.
_resume(t) ==
    /\ loop = "resuming"
    /\ t \in todo
    /\ todo' = todo \ {t}
    /\ Register(t, saved[t])
    /\ UNCHANGED <<saved, answers, handler, loop, jobs, orphaned, faults>>

\* A publish or the finalisation raised: the exception leaves _recover and run().
ResumeRaises(t) ==
    /\ loop = "resuming"
    /\ t \in todo
    /\ Fault("resume")
    /\ loop' = "dead"
    /\ \/ /\ Plan[t] \ saved[t] # {}
          /\ pending' = [pending EXCEPT ![t] = Plan[t] \ saved[t]]
          /\ table' = table \cup {t}
          /\ gauge' = gauge + 1
       \/ /\ Plan[t] \ saved[t] = {}
          /\ UNCHANGED <<pending, table, gauge>>
    /\ UNCHANGED <<status, saved, requests, answers, handler, todo, jobs, orphaned>>

EndResume ==
    /\ loop = "resuming"
    /\ todo = {}
    /\ loop' = "idle"
    /\ UNCHANGED <<status, saved, requests, answers, handler, todo, jobs, table, pending,
                   gauge, orphaned, faults>>

-----------------------------------------------------------------------------
(* One tick.                                                                *)

\* The replies are read, routed to the tasks of the table and dropped otherwise.
BeginTick ==
    /\ loop = "idle"
    /\ loop' = "ticking"
    /\ pending' = [t \in Task |-> IF t \in table THEN pending[t] \ answers[t] ELSE pending[t]]
    /\ jobs' = {job \in table \X Subtask : job[2] \in pending[job[1]] \cap answers[job[1]]}
    /\ answers' = [t \in Task |-> {}]
    /\ todo' = table
    /\ UNCHANGED <<status, saved, requests, handler, table, gauge, orphaned, faults>>

\* The read raised: what was delivered is not delivered again.
ReadRaises ==
    /\ loop = "idle"
    /\ Fault("read")
    /\ \E lost \in SUBSET {t \in Task : answers[t] # {}} :
          answers' = [t \in Task |-> IF t \in lost THEN {} ELSE answers[t]]
    /\ UNCHANGED <<status, saved, requests, handler, loop, todo, jobs, table, pending,
                   gauge, orphaned>>

Drop(t) ==
    /\ table' = table \ {t}
    /\ gauge' = gauge - 1

\* Mutant of Finalize: the gauge is lowered, the table keeps the task.
MutKeptInTable(t) ==
    /\ loop = "ticking"
    /\ t \in todo
    /\ todo' = todo \ {t}
    /\ status' = [status EXCEPT ![t] = "finished"]
    /\ gauge' = gauge - 1
    /\ UNCHANGED <<saved, requests, answers, handler, loop, jobs, table, pending,
                   orphaned, faults>>

\* Nothing is pending any more, or the global deadline has passed.
Finalize(t) ==
    /\ loop = "ticking"
    /\ t \in todo
    /\ todo' = todo \ {t}
    /\ status' = [status EXCEPT ![t] = "finished"]
    /\ Drop(t)
    /\ UNCHANGED <<saved, requests, answers, handler, loop, jobs, pending, orphaned, faults>>

\* Advanced, and still waiting for replies.
KeepWaiting(t) ==
    /\ loop = "ticking"
    /\ t \in todo
    /\ pending[t] # {}
    /\ todo' = todo \ {t}
    /\ UNCHANGED <<status, saved, requests, answers, handler, loop, jobs, table, pending,
                   gauge, orphaned, faults>>

\* Mutant of _abandon: the exception of one task ends the run loop.
MutLoopEnds(t) ==
    /\ loop = "ticking"
    /\ t \in todo
    /\ Fault("raise")
    /\ loop' = "ended"
    /\ UNCHANGED <<status, saved, requests, answers, handler, todo, jobs, table,
                   pending, gauge, orphaned>>

\* Mutant of _abandon: the row is left as it is.
MutRowLeft(t) ==
    /\ loop = "ticking"
    /\ t \in todo
    /\ Fault("raise")
    /\ todo' = todo \ {t}
    /\ Drop(t)
    /\ UNCHANGED <<status, saved, requests, answers, handler, loop, jobs, pending, orphaned>>

\* Advancing or finalising the task raised.
_abandon(t) ==
    /\ loop = "ticking"
    /\ t \in todo
    /\ todo' = todo \ {t}
    /\ \/ /\ Fault("raise")
          /\ status' = [status EXCEPT ![t] = "failed"]
          /\ UNCHANGED orphaned
       \/ /\ Fault("store")
          /\ orphaned' = orphaned \cup {t}
          /\ UNCHANGED status
    /\ Drop(t)
    /\ UNCHANGED <<saved, requests, answers, handler, loop, jobs, pending>>

EndTick ==
    /\ loop = "ticking"
    /\ todo = {}
    /\ loop' = "persisting"
    /\ UNCHANGED <<status, saved, requests, answers, handler, todo, jobs, table, pending,
                   gauge, orphaned, faults>>

\* _persist_result: saved, or given up after _PERSIST_RETRIES tries.
PersistResult(t, s) ==
    /\ loop = "persisting"
    /\ <<t, s>> \in jobs
    /\ jobs' = jobs \ {<<t, s>>}
    /\ \/ saved' = [saved EXCEPT ![t] = @ \cup {s}]
       \/ "store" \in Faults /\ UNCHANGED saved
    /\ UNCHANGED <<status, requests, answers, handler, loop, todo, table, pending,
                   gauge, orphaned, faults>>

EndPersist ==
    /\ loop = "persisting"
    /\ jobs = {}
    /\ loop' = "idle"
    /\ UNCHANGED <<status, saved, requests, answers, handler, todo, jobs, table, pending,
                   gauge, orphaned, faults>>

-----------------------------------------------------------------------------
(* The agents and the process.                                              *)

\* Mutant of Answer: an agent is handed a request it has handled.
MutRedelivered(t, s) ==
    /\ Up
    /\ requests' = [requests EXCEPT ![t][s] = @ - 1]
    /\ answers' = [answers EXCEPT ![t] = @ \cup {s}]
    /\ UNCHANGED <<status, saved, handler, loop, todo, jobs, table, pending, gauge,
                   orphaned, faults>>

Answer(t, s) ==
    /\ Up
    /\ requests[t][s] > 0
    /\ requests' = [requests EXCEPT ![t][s] = @ - 1]
    /\ answers' = [answers EXCEPT ![t] = @ \cup {s}]
    /\ UNCHANGED <<status, saved, handler, loop, todo, jobs, table, pending, gauge,
                   orphaned, faults>>

\* The process dies or is shut down, at any await.
Crash ==
    /\ Up
    /\ Fault("crash")
    /\ loop' = "down"
    /\ table' = {} /\ gauge' = 0 /\ todo' = {} /\ jobs' = {}
    /\ handler' = [t \in Task |-> IF handler[t] \in {"created", "started"} THEN "error"
                                                                         ELSE handler[t]]
    /\ UNCHANGED <<status, saved, requests, answers, pending, orphaned>>

\* Mutant of Restart: run() goes straight to its loop.
MutNoRecovery ==
    /\ loop = "down"
    /\ loop' = "idle"
    /\ UNCHANGED <<status, saved, requests, answers, handler, todo, jobs, table, pending,
                   gauge, orphaned, faults>>

Restart ==
    /\ loop = "down"
    /\ loop' = "loading"
    /\ orphaned' = {}
    /\ UNCHANGED <<status, saved, requests, answers, handler, todo, jobs, table, pending,
                   gauge, faults>>

-----------------------------------------------------------------------------

Init ==
    /\ status = [t \in Task |-> "none"]
    /\ saved = [t \in Task |-> {}]
    /\ requests = [t \in Task |-> [s \in Subtask |-> 0]]
    /\ answers = [t \in Task |-> {}]
    /\ handler = [t \in Task |-> "none"]
    /\ loop = "loading"
    /\ todo = {} /\ jobs = {} /\ table = {}
    /\ pending = [t \in Task |-> {}]
    /\ gauge = 0 /\ orphaned = {} /\ faults = 0

Handler(t) == SetRunning(t) \/ Submit(t) \/ SubmitRaises(t)

RunLoop ==
    \/ LoadInFlight \/ BeginResume \/ EndResume
    \/ BeginTick \/ EndTick \/ EndPersist
    \/ \E t \in Task : _resume(t) \/ Finalize(t) \/ KeepWaiting(t)
    \/ \E t \in Task, s \in Subtask : PersistResult(t, s)

Raises == ReadRaises \/ \E t \in Task : ResumeRaises(t) \/ _abandon(t)

Next ==
    \/ \E t \in Task : CreateTask(t) \/ Handler(t)
    \/ RunLoop
    \/ Raises
    \/ \E t \in Task, s \in Subtask : Answer(t, s)
    \/ Crash \/ Restart

Spec == Init /\ [][Next]_vars

\* The event loop runs the coordinator and the handlers (asyncio.Lock is first come,
\* first served, so a handler that awaits it gets it: strong fairness); a tick past
\* the global deadline finalises the task, so it is not kept waiting for ever.  A
\* handler takes two steps, and a task is finalised once after each (re)start, so
\* fairness to all of them together is fairness to each.
FairSpec ==
    /\ Spec
    /\ WF_vars(RunLoop)
    /\ SF_vars(\E t \in Task : Handler(t))
    /\ SF_vars(\E t \in Task : Finalize(t))

-----------------------------------------------------------------------------
(* Properties.                                                              *)

\* The sets every variable ranges over.
TypeOK ==
    /\ status \in [Task -> {"none"} \cup InFlight \cup Terminal]
    /\ saved \in [Task -> SUBSET Subtask]
    /\ requests \in [Task -> [Subtask -> Nat]]
    /\ answers \in [Task -> SUBSET Subtask]
    /\ handler \in [Task -> {"none", "created", "started", "done", "error"}]
    /\ loop \in {"loading", "loaded", "resuming", "idle", "ticking", "persisting", "dead", "down"}
    /\ todo \subseteq Task
    /\ jobs \subseteq Task \X Subtask
    /\ table \subseteq Task
    /\ pending \in [Task -> SUBSET Subtask]
    /\ gauge \in Int
    /\ orphaned \subseteq Task
    /\ faults \in Nat

\* The in-flight gauge never reports less than the table holds.
GaugeCoversTable == gauge >= Cardinality(table)

\* A task in flight is in somebody's hands: its handler will submit it, the recovery
\* will find or resume it, or the run loop has it in its table.  Otherwise its client
\* would be told "not ready" until the next restart.  Two things the code leaves to
\* that restart are excepted: a database that fails at the very write of the status
\* (`orphaned`), and a loop that an exception in _recover has ended.
InFlightIsOwned ==
    \A t \in Task \ orphaned : status[t] \in InFlight =>
        \/ handler[t] \in {"created", "started"}
        \/ t \in table
        \/ loop \in {"loading", "dead", "down"}
        \/ loop \in {"loaded", "resuming"} /\ t \in todo

\* A task that leaves the table in a running process has got a terminal status, or
\* the database failed when it was to be marked as failed.
LeavesTableSettled ==
    [][Up /\ loop' # "down" =>
           \A t \in table \ table' : status'[t] \in Terminal \/ t \in orphaned']_vars

\* A settled task stays settled ("task status passes planning -> running -> completed",
\* tests/e2e/test_status_progression.py:1).
SettledStays ==
    [][\A t \in Task : status[t] \in Terminal => status'[t] \in Terminal]_vars

\* Again and again no task is in flight (so every task is settled in the end), whatever
\* their siblings raise and however many restarts it takes, but for those at the write of
\* whose status the database failed, and unless the process goes down and nobody restarts
\* it, or an exception has ended the recovery.
EveryTaskSettles ==
    []<>(loop \in {"dead", "down"} \/ \A t \in Task \ orphaned : status[t] \notin InFlight)
=============================================================================
