---------------------------- MODULE TaskContents ----------------------------
(***************************************************************************)
(* What one task's agents are sent, answer and leave in the database, over  *)
(* crashes of the process: the coordinator (src/src/agents/coordinator.py)  *)
(* with its requests and replies in Redis and its rows in PostgreSQL.       *)
(* TaskDispatch has the timers and the counted retries of the same loop and *)
(* no contents.  Here the contents matter: a refusal or a timeout schedules *)
(* a retry or fails the subtask, whichever, and a retry is due whenever.    *)
(*                                                                          *)
(*   loop   "routing"     reading and routing replies                       *)
(*          "advancing"   publishing what has become ready                  *)
(*          "persisting"  the lock released: the persist jobs of the tick   *)
(*          "down"        the process is gone                               *)
(*                                                                          *)
(* `results` has the operations that succeeded for its domain.              *)
(***************************************************************************)
EXTENDS ResultRows

CONSTANTS
    Plans,          \* the plans to consider: sets of operations
    ChunkCount,     \* chunks of each document
    MaxItems,       \* bound: terms, and citations, in an answer
    Faults,         \* the kinds of failure that may happen
    MaxFaults       \* bound: how many of them

ASSUME ContentsAssumption ==
    /\ Plans \subseteq SUBSET Operation
    /\ ChunkCount \in [Document -> Nat]
    /\ MaxItems \in Nat
    /\ Faults \subseteq {"crash", "store", "answer", "refuse", "timeout"}
    /\ MaxFaults \in Nat

VARIABLES
    plan,
    documents, results, failed, published, retry_at,  \* the TaskState
    loop, jobs,         \* the run loop and its persist jobs
    channels, inbox,    \* the bus: requests by agent, replies
    tables,             \* the result rows
    settled,            \* the task is finalised: no restart resumes it
    incarnation,        \* how often the process was started
    basis,              \* what each result that was requested since then was made from
    stray,              \* the subtasks a refusal came for before they were published
    committed,          \* the result of each operation last written by a transaction
    faults

state == <<plan, documents, results, failed, published, retry_at, settled>>
bus   == <<channels, inbox>>
ghost == <<incarnation, basis, stray>>
vars  == <<state, loop, jobs, bus, tables, ghost, committed, faults>>

\* Mutant of Pending: a subtask that failed is still waited for.
MutFailedForgotten == plan \ DOMAIN results

\* Neither failed nor done.
Pending == plan \ (DOMAIN results \cup failed)

DependsOn(op) == DEPENDENCY_MAP[op] \cap plan

Succeeded(op) == DependsOn(op) \cap DOMAIN results

\* `f` with `op` set to `value`.
Put(f, op, value) == [o \in DOMAIN f \cup {op} |-> IF o = op THEN value ELSE f[o]]

Fault(kind) ==
    /\ kind \in Faults
    /\ faults < MaxFaults
    /\ faults' = faults + 1

-----------------------------------------------------------------------------
(* The run loop.                                                            *)

_fail_subtask(op) ==
    /\ failed' = failed \cup {op}
    /\ published' = published \cup {op}
    /\ retry_at' = retry_at \ {op}

\* Which of the two, the count of the retries tells: TaskDispatch has it.
_schedule_retry_or_fail(op) ==
    \/ retry_at' = retry_at \cup {op} /\ UNCHANGED <<failed, published>>
    \/ _fail_subtask(op)

\* _route_reply, of an answer: it counts for a pending subtask, whichever request it
\* answers.
RouteInform(reply) ==
    /\ results' = Put(results, reply.op, reply.content)
    /\ retry_at' = retry_at \ {reply.op}
    /\ jobs' = Append(jobs, [op |-> reply.op, content |-> reply.content])
    /\ basis' = IF reply.incarnation = incarnation
                THEN Put(basis, reply.op, reply.payload) ELSE basis
    /\ UNCHANGED <<failed, published, stray>>

\* So does a refusal, even of a subtask that this process has not published yet.
RouteRefuse(reply) ==
    /\ _schedule_retry_or_fail(reply.op)
    /\ stray' = IF reply.op \in published THEN stray ELSE stray \cup {reply.op}
    /\ UNCHANGED <<results, jobs, basis>>

Route ==
    /\ loop = "routing"
    /\ inbox # <<>>
    /\ LET reply == Head(inbox) IN
        \/ reply.op \in Pending /\ reply.performative = "inform" /\ RouteInform(reply)
        \/ reply.op \in Pending /\ reply.performative = "refuse" /\ RouteRefuse(reply)
        \/ reply.op \notin Pending
           /\ UNCHANGED <<results, failed, published, retry_at, jobs, basis, stray>>
    /\ inbox' = Tail(inbox)
    /\ UNCHANGED <<plan, documents, settled, loop, channels, tables, incarnation, committed,
                   faults>>

EndRouting ==
    /\ loop = "routing"
    /\ loop' = "advancing"
    /\ UNCHANGED <<state, jobs, bus, tables, ghost, committed, faults>>

\* Mutant of Ready: any upstream that succeeded will do.
MutReadyAtFirst(op) ==
    /\ op \in Pending \ published
    /\ DependsOn(op) \subseteq DOMAIN results \cup failed \/ Succeeded(op) # {}

\* Unpublished, with every upstream resolved.
Ready(op) ==
    /\ op \in Pending \ published
    /\ DependsOn(op) \subseteq DOMAIN results \cup failed

JoinHolds(op) ==
    \/ DependsOn(op) = {}
    \/ op \in ANY_JOIN_OPERATIONS /\ Succeeded(op) # {}
    \/ Succeeded(op) = DependsOn(op)

\* The payload is built from the results there are at that moment.
_publish(op) ==
    /\ published' = published \cup {op}
    /\ channels' = [channels EXCEPT ![op] =
                       Append(@, [payload |-> build_payload(op, documents, results),
                                  incarnation |-> incarnation])]

PublishReady(op) ==
    /\ loop = "advancing"
    /\ Ready(op)
    /\ JoinHolds(op)
    /\ _publish(op)
    /\ UNCHANGED <<plan, documents, results, failed, retry_at, settled, loop, jobs, inbox,
                   tables, ghost, committed, faults>>

SkipSubtask(op) ==
    /\ loop = "advancing"
    /\ Ready(op)
    /\ ~JoinHolds(op)
    /\ _fail_subtask(op)
    /\ UNCHANGED <<plan, documents, results, settled, loop, jobs, bus, tables, ghost, committed,
                   faults>>

\* _expire_timeouts.  The deadline of a request runs while no retry is scheduled, or
\* beside one that was scheduled before the request.
Expire(op) ==
    /\ loop = "advancing"
    /\ op \in Pending \cap published
    /\ op \in retry_at => op \in stray
    /\ Fault("timeout")
    /\ _schedule_retry_or_fail(op)
    /\ UNCHANGED <<plan, documents, results, settled, loop, jobs, bus, tables, ghost, committed>>

\* _republish_due does not look at the upstreams.
Republish(op) ==
    /\ loop = "advancing"
    /\ op \in retry_at
    /\ retry_at' = retry_at \ {op}
    /\ _publish(op)
    /\ UNCHANGED <<plan, documents, results, failed, settled, loop, jobs, inbox, tables, ghost,
                   committed, faults>>

\* With nothing pending the task is finalised.
EndAdvance ==
    /\ loop = "advancing"
    /\ \A op \in plan : ~Ready(op)
    /\ loop' = "persisting"
    /\ settled' = (Pending = {})
    /\ UNCHANGED <<plan, documents, results, failed, published, retry_at, jobs, bus, tables,
                   ghost, committed, faults>>

-----------------------------------------------------------------------------
(* _persist_result, a job at a time.                                        *)

\* The transaction commits; with the fault "answer" the commit is not reported, and
\* the next try repeats it.
Persist ==
    /\ loop = "persisting"
    /\ jobs # <<>>
    /\ LET job == Head(jobs) IN
        /\ MaySave(tables, job.op, job.content)
        /\ tables' = save_result(tables, job.op, job.content)
        /\ committed' = Put(committed, job.op, job.content)
    /\ \/ jobs' = Tail(jobs) /\ UNCHANGED faults
       \/ Fault("answer") /\ UNCHANGED jobs
    /\ UNCHANGED <<state, loop, bus, ghost>>

\* Every try raised: the result stays in memory only.
PersistGivesUp ==
    /\ loop = "persisting"
    /\ jobs # <<>>
    /\ \/ ~MaySave(tables, Head(jobs).op, Head(jobs).content) /\ UNCHANGED faults
       \/ Fault("store")
    /\ jobs' = Tail(jobs)
    /\ UNCHANGED <<state, loop, bus, tables, ghost, committed>>

EndPersist ==
    /\ loop = "persisting"
    /\ jobs = <<>>
    /\ loop' = "routing"
    /\ UNCHANGED <<state, jobs, bus, tables, ghost, committed, faults>>

-----------------------------------------------------------------------------
(* The agents.                                                              *)

Lists(items) == UNION {[1..n -> items] : n \in 0..MaxItems}

AllSections == <<"introduction", "thesis", "conclusion">>

\* What an agent may answer to a payload; nothing if it refuses it.
Contents(op, payload) ==
    CASE op \in {"F1", "F2"} ->
            {stamp_chunks(payload[i], ChunkCount[payload[i]]) : i \in DOMAIN payload}
      [] op = "F3" ->
            IF payload = <<>> THEN {}
            ELSE {[sections |-> AllSections,
                   source_chunk_ids |-> [i \in DOMAIN payload |-> ChunkId(payload[i])]]}
      [] op = "F4" -> {"quiz" : i \in DOMAIN payload}
      [] op = "F5" -> IF payload = <<>> THEN {} ELSE Lists({ChunkId(chunk) : chunk \in Members(payload)})
      [] op = "F6" -> IF payload[1] = <<>> /\ payload[2] = <<>> THEN {} ELSE Lists({"paper"})

Inform(op, content, request) ==
    [op |-> op, performative |-> "inform", content |-> content, payload |-> request.payload,
     incarnation |-> request.incarnation]

Refuse(op) == [op |-> op, performative |-> "refuse"]

\* An agent answers, or refuses, or does neither: it raises, or dies with the process.
Handle(op) ==
    /\ loop # "down"
    /\ channels[op] # <<>>
    /\ channels' = [channels EXCEPT ![op] = Tail(@)]
    /\ \/ UNCHANGED <<inbox, faults>>
       \/ Fault("refuse") /\ inbox' = Append(inbox, Refuse(op))
       \/ /\ \E content \in Contents(op, Head(channels[op]).payload) :
                 inbox' = Append(inbox, Inform(op, content, Head(channels[op])))
          /\ UNCHANGED faults
    /\ UNCHANGED <<state, loop, jobs, tables, ghost, committed>>

-----------------------------------------------------------------------------
(* The process.                                                             *)

\* The process dies, while it reads also with replies it has acknowledged.
Crash ==
    /\ loop # "down"
    /\ ~settled
    /\ Fault("crash")
    /\ loop' = "down"
    /\ \E read \in 0..(IF loop = "routing" THEN Len(inbox) ELSE 0) :
          inbox' = SubSeq(inbox, read + 1, Len(inbox))
    /\ jobs' = <<>> /\ failed' = {} /\ published' = {} /\ retry_at' = {} /\ stray' = {}
    /\ results' = [op \in {} |-> {}] /\ basis' = [op \in {} |-> {}]
    /\ UNCHANGED <<plan, documents, settled, channels, tables, incarnation, committed>>

\* load_in_flight and _resume.  The documents are listed in no particular order.
Restart ==
    /\ loop = "down"
    /\ loop' = "advancing"
    /\ documents' \in SetToSeqs(Document)
    /\ results' = Restrict(_load_results(tables), plan \cap DOMAIN _load_results(tables))
    /\ published' = DOMAIN results'
    /\ incarnation' = incarnation + 1
    /\ UNCHANGED <<plan, failed, retry_at, settled, jobs, bus, tables, basis, stray, committed,
                   faults>>

-----------------------------------------------------------------------------

Init ==
    /\ plan \in Plans
    /\ documents \in SetToSeqs(Document)
    /\ \A i, j \in DOMAIN documents : i < j => documents[i] < documents[j]
    /\ results = [op \in {} |-> {}] /\ failed = {} /\ published = {} /\ retry_at = {}
    /\ settled = FALSE
    /\ loop = "advancing" /\ jobs = <<>>
    /\ channels = [op \in plan |-> <<>>] /\ inbox = <<>>
    /\ tables = NoRows
    /\ incarnation = 1 /\ basis = [op \in {} |-> {}] /\ stray = {}
    /\ committed = [op \in {} |-> {}] /\ faults = 0

Next ==
    \/ Route \/ EndRouting
    \/ \E op \in plan : PublishReady(op) \/ SkipSubtask(op) \/ Expire(op) \/ Republish(op)
    \/ EndAdvance
    \/ Persist \/ PersistGivesUp \/ EndPersist
    \/ \E op \in plan : Handle(op)
    \/ Crash \/ Restart

Spec == Init /\ [][Next]_vars

-----------------------------------------------------------------------------
(* Properties.                                                              *)

\* The sets the control state ranges over: results, failures, retries, requests, replies
\* and jobs are those of the plan's subtasks, and a retry waits for pending ones only.
TypeOK ==
    /\ plan \in Plans
    /\ documents \in SetToSeqs(Document)
    /\ DOMAIN results \subseteq plan /\ failed \subseteq plan /\ published \subseteq plan
    /\ DOMAIN results \cap failed = {}
    /\ retry_at \subseteq Pending
    /\ loop \in {"routing", "advancing", "persisting", "down"}
    /\ settled \in BOOLEAN
    /\ DOMAIN channels = plan
    /\ \A reply \in Range(inbox) : reply.op \in plan
    /\ \A job \in Range(jobs) : job.op \in plan
    /\ DOMAIN committed \subseteq plan

\* A restart finds each result as it was last written, in its order and with its
\* links, and none twice or from two documents: whatever was saved beside it, before or
\* after it, and however often.  An empty result leaves no rows and is forgotten.
LoadedIsCommitted ==
    LET loaded == _load_results(tables) IN
    /\ DOMAIN loaded = {op \in DOMAIN committed : op \in {"F3", "F4"} \/ committed[op] # <<>>}
    /\ \A op \in DOMAIN loaded : loaded[op] = committed[op]

\* An agent's answer to a request of this process was made from just what its
\* upstreams have, and still have: the first document, all the chunks, the summary.  The
\* exception is a subtask that a refusal came for before it was published, left by an
\* earlier process: it is republished on whatever there is.
MadeFromUpstreams ==
    /\ \A op \in DOMAIN basis \ stray : basis[op] = build_payload(op, documents, results)
    /\ stray # {} => incarnation > 1

\* Each document's chunks are handed on in the order of the lecture ("Return ordered
\* TextChunks for the audio file.", src/src/adapters/transcriber.py:19).
ChunksInOrder ==
    \A op \in {"F1", "F2"} \cap DOMAIN results :
        \A i, j \in DOMAIN results[op] : i < j => results[op][i].index < results[op][j].index
=============================================================================
