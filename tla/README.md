# A TLA+ model of mas-research

mas-research takes lecture recordings, PDFs and images over HTTP and runs a small
DAG of agents over them: F1 transcription and F2 recognition ingest the files, F3
summarises, F4 makes a quiz of the summary, F5 extracts terms, F6 recommends papers.
One `Coordinator` drives every task over Redis Streams and keeps it in PostgreSQL.

This directory specifies the part of the program where the difficulty lies: the
dispatch of tasks by the coordinator, the protocol between coordinator and agents, and
what survives a failure or a restart. TLC checks the specifications on small instances;
TLAPS proves the central theorems for every value of the constants.

Paths below are relative to the repository.

## 1. The system

### Components, their state and their operations

| Component | State | Operations | Modelled by |
|---|---|---|---|
| Plan builder, `src/plan.py` | none (tables) | `build_plan` | `Plan` |
| Coordinator, one task, `src/agents/coordinator.py` | a `TaskState`: pending, published, results, retry counts, deadlines, retry times | `submit`, `_tick` (`_route_reply`, `_advance`, `_expire_timeouts`, `_republish_due`, `_maybe_finalize`, `_deadline_finalize`, `_abandon`), `_persist_result`, `_recover`/`_resume` | `TaskDispatch` |
| Coordinator, table of tasks, same file | `_tasks`, the lock, the in-flight gauge | the same, seen from outside one task | `Coordinator` |
| Status FSM and artifact, `src/core/status_fsm.py`, `src/agents/assembly.py` | none | `determine_final_status`, `assemble_artifact` | `TaskDispatch` |
| Retry policy, `src/core/retry.py` | constants | `RETRY_MAX`, `BACKOFF_SECONDS`, timeouts | constants of `TaskDispatch` |
| Bus, `src/core/bus.py` | one stream and group per agent, one inbox; in Redis | `publish`, `read`, `ack` | `StreamBus` |
| Idempotent receiver, `src/core/idempotency.py` | LRU cache of message ids | `accept` | `StreamBus` |
| Agent loop, `src/agents/base.py` | the entry being handled | `run`, `_read_once`, `_safe_handle` | `AgentLoop` |
| Store and recovery, `src/agents/store.py`, `src/agents/recovery.py`, `src/db/` | rows: task, documents, results | `set_status`, `save_artifact`, `save_result`, `load_in_flight` | steps of `TaskDispatch` and `Coordinator`; contents and rows: `ResultRows`, run by `TaskContents` |
| Request payloads, `src/agents/payloads.py` | none | `build_payload` | `ResultRows`, run by `TaskContents` |
| REST API, `src/api/routes.py` | files of uploads | create, status, result | create: `RestApi`, its races: `Coordinator`; status and result read one row |
| Lifespan, `src/main.py` | tasks of the event loop, the embedding adapter, F6's corpus | start, teardown | `Corpus`; `Crash` and `Restart` actions |
| Ingestion F1 and F2, `src/agents/transcriber.py`, `ocr.py`, their adapters | none between messages | `handle`, chunking | `Chunking`; stamping by `ResultRows` |
| Summarizer F3, test generator F4, terminology F5, `src/agents/` | none between messages | `handle` | `Summarizer`, `Quiz`, `Terminology` |
| Recommender F6, `src/agents/recommender.py` | the corpus in memory | `handle`, `load_corpus` | `Recommender`, `Corpus` |
| spaCy adapter, `src/adapters/spacy_ner.py` | pipelines by language, models loaded | `extract_many` | `SpacyNer` |
| Corpus builder, `src/corpus_builder/build.py` | `papers.jsonl`, `papers.npy` | `fetch_papers`, `build` | `Corpus` |
| Other adapters, evaluation | models | library calls, offline scores | not modelled, see section 7 |

### How they interact

An HTTP handler commits a row (PLANNING) and calls `Coordinator.submit`, which writes
RUNNING, takes the coordinator's `asyncio.Lock`, registers a `TaskState` and publishes a
request to the stream of each ready subtask's agent. Each agent reads its stream one entry
at a time, handles it, publishes `inform` or `refuse` to the coordinator's inbox and
acknowledges the entry. The run loop of the coordinator ticks: it reads a batch of replies
(acknowledging each at once), takes the lock, routes the replies, advances every task to a
fixpoint (publishing, skipping, timing out, retrying), finalises those with nothing
pending or over the global deadline, releases the lock and writes the results that came in.
At start-up the loop first rebuilds the tasks in flight from the database. Everything runs
in one process and one event loop; what interleaves is what awaits.

Beside it, a script run by hand fetches papers and writes them and their embeddings to two
files, which the application reads once, when it starts: the only two processes that share
anything without Redis or PostgreSQL in between.

### What is hard

* *Interleaving at awaits.* `submit` writes the row before it has the lock; the recovery
  reads rows without it; the server accepts requests before the recovery is done; persist
  jobs run after the lock was released.
* *Time.* Deadlines run from the publication, agents are sequential, replies come late:
  after the timeout, while a retry waits, after the retries are used up, after the task
  was finalised.
* *Failure.* Publishing, reading, the database and handlers raise; agents hang; the
  exception goes to three different handlers (the tick, `submit`, `_recover`).
* *Crash and restart.* Redis keeps requests and replies of the old incarnation, its
  pending lists, and nobody claims them; the database keeps results saved in time; retry
  counts, failures and deadlines are gone.
* *Contents.* What an agent is sent was read from what others answered, perhaps in an
  earlier process, perhaps by way of the database, which orders, replaces and unlinks rows
  by rules of its own.
* *Files.* The builder overwrites F6's corpus in place, file after file; the application
  looks for the files, and reads them, at different moments. An HTTP request saves several
  files and rows and may end anywhere.
* *Finite memory.* The receiver's LRU cache forgets.
* *Answers of models.* A model declines calls, breaks the format, repeats itself; what is
  cut, dropped, merged or renumbered on the way must not change what was meant.

The list of hazards with their lines is in `PROJECT.json`; each names the properties
that would catch it going wrong.

### What correctness means, per component

* *Dispatch.* A subtask is requested only when the DAG and its join policy allow; never
  more than 1 + RETRY_MAX times; a subtask that waits for an answer always has a timer; a
  result is final; a status of success is backed by an artifact that says the same; the
  rows of a settled task change in no other way than the two of section 3; durable work
  is not redone; every task ends.
* *Table.* A task in flight is in somebody's hands; it leaves the table settled; one task's
  exception does not stop the others; the gauge never shows less than the table holds (it
  may show more: a task registered twice is counted twice).
* *Bus and agents.* A request is handled at most once, and acknowledged once answered; a
  reply is routed at most once; a failure costs one message.
* *Contents.* A restart finds each result as it was last written; each new result is made
  from just what its upstreams have (a stale refusal after a restart excepted); a lecture
  stays in its order.
* *Agents.* Chunks and blocks cover the lecture; a summary rests on all that was answered; a
  quiz marks what the model marked; merging terms counts every occurrence once; each text
  gets its own candidates back; the citations are the best of what the filter lets through.
* *Corpus.* It is complete and without repetitions; an entry carries its own embedding, and
  the query is embedded as the entries were.
* *REST.* A task exists with all its documents or not at all.

## 2. The modules

```
Plan <-- TaskDispatch <-- MCTaskDispatch
              |    \----> AbstractTask   (refinement, INSTANCE)
              |--- TaskDispatchProofs <-- TaskRefinementProofs
Coordinator <-- MCCoordinator
     |--- CoordinatorProofs
StreamBus <-- AgentLoop <-- AgentLoopProofs
Plan, Ordering <-- ResultRows <-- TaskContents <-- MCTaskContents
                                       |--- TaskContentsProofs
Ordering <-- Chunking, Quiz, SpacyNer, Recommender
Chunking, Summarizer, Quiz, Terminology,
    SpacyNer, Recommender, RestApi <-- Agents <-- MCAgents
                                         |--- AgentsProofs
Corpus <-- MCCorpus
   |--- CorpusProofs
Induction: lemmas used by AgentLoopProofs, TaskContentsProofs, AgentsProofs, CorpusProofs
```

**`Plan`** translates `plan.py`: which operations the attached documents make possible, and
each subtask's upstreams and join policy. Within a task a subtask id is a function of its
operation (`subtask_id_for`), so the operation stands for it everywhere. A document of
type `text` never reaches the planner: `create_task` rejects it.

**`TaskDispatch`** is one task and everything that happens to it. The state is the
`TaskState` (`pending`, `published`, `results`, `retry_counts`, `deadlines`, `retry_at`,
`started_at`; an absent dictionary entry is `"absent"`, 0 or `NoTimer`), the two coroutines
that drive it (`request`, the HTTP request in `submit`; `pc`, the run loop), what the holder
of the lock is doing with it (`stage`, with `caller` saying whose exception handler applies),
the pass of `_advance` (`todo`, the subtasks not visited yet, and the flag `changed`), the bus
(`queued` requests per agent, the `inbox`), the rows (`db_status`, `artifact`, `saved`) and
the clock. An action ends where the code awaits something another party can see:

* `SetRunning`, `SubmitFails`, `Register`: `submit`, whose status is written before and
  outside the lock, whatever the row says by then;
* `LoadInFlight`, `_resume`: `_recover`, the read of the rows and what follows with the lock;
* `BeginTick`, `ReadFails`: the read of the inbox, and `now`;
* `RouteUnexpected`, `RouteRefuse`, `RouteInform`: `_route_reply`, one reply each;
* `PublishReady`, `SkipSubtask` (each a `Visit`), `EndPass`; `ExpireTimeout`, `EndExpiry`;
  `RepublishDue`; `NextPass`, `EndAdvance`: the `while changed` loop of `_advance`, part by
  part. A pass visits subtasks in the order of the plan, which is the order of the request:
  any of the subtasks that are not ready may be passed over before a ready one and is then
  not looked at until the next pass;
* `MaybeFinalize`: `_maybe_finalize` and the deadline check after it, a step of `EndAdvance`;
* `SaveArtifact`, `SetStatus`: the two transactions of `_finalize`;
* `ProcessingFails`, `_abandon`: an exception, and where it leads (`Raise`). A store write
  that raised was not committed (`"store"`), or was, and only its answer was lost (`"lost"`).
  A publish that raised is taken to have left nothing in the stream;
* `PersistResult`, `EndTick`: the persist jobs;
* `AgentReplies`, `AgentSilent`, `TimePasses`, `Crash`: the environment.

The server accepts requests while `run()` recovers: with the fault `"overlap"` the task is
created at such a moment, and `submit` and `_resume` may both take it up, one after the
other. `drives` counts how often the process did; a task `DrivenTwice` is excepted from
`ArtifactBacksStatus`, `DurableNotRedone` and `SettledRowsStay`, which it really violates
(its second drive runs under the status of its first). Who owns what in between is the
subject of `Coordinator`. The history variable `sent` counts publications since the task
was (re)started.

**`AbstractTask`** is what a client is promised: subtasks resolve once, while the task runs,
and the terminal status is the verdict of the three rules in `status_fsm.py` on the
outcomes, or `failed`. `TaskDispatch` maps to it by `outcome <- results,
status <- db_status` (`ImplementsTask`), as long as the process does not crash, the recovery
does not meet `submit`, and no write is committed with its answer lost.

**`Coordinator`** forgets timers and dependencies and looks at ownership: several tasks, an
HTTP handler each, the recovery, the run loop, the lock, the table, the rows, the gauge. A
tick's processing of a task is one action (`Finalize`, `KeepWaiting` or `_abandon`), chosen
freely because timers may make any of them happen; the requests that `_advance` publishes
in a tick are left out, those of the start are kept, because what matters here is which
answers exist and who reads them. The history variable
`orphaned` holds the tasks whose status a failing database could not write: the code accepts
that they stay in flight until a restart, and the ownership properties except them.

**`StreamBus`** is a Redis stream with one group (entries, last delivered, pending) and the
LRU receiver, as operators. **`AgentLoop`** runs an agent and the coordinator's inbox reader
over two of them, with duplicated entries, raising handlers, a failing bus and crashes. It
is where the order of *accept, handle, publish, ack* matters, and shows what `TaskDispatch`
assumes of the bus: a request yields at most one reply, a reply is routed at most once, and
an entry that was delivered and lost is never delivered again (`AgentSilent`, `ReadFails`).

**`ResultRows`** has the contents: chunks named by document and index, sections, terms with
the chunk each links to, citations; text is left out. Tables are sets of rows, and
`save_result`, `_load_results` and `build_payload` operators on them. A bulk delete of chunks
sets the links of terms to NULL (`Unlink`), a term that links to no stored chunk rolls its
transaction back (`MaySave`), and rows are ordered by their ids, compared as strings
(`AsString`). **`TaskContents`** runs them for one task: the same loop as `TaskDispatch`
without its clock, but with what the requests, the replies and the tables hold. A refusal
(`RouteRefuse`) or a timeout (`Expire`) of a pending subtask schedules a retry or fails it,
either being possible since the count of the retries is `TaskDispatch`'s; a retry
(`Republish`) builds its payload afresh, without a look at the upstreams, as the code does.
`Persist` is a transaction that commits; its answer may be
lost, and then it runs again. A restart lists the documents in any order. History variables:
`incarnation` counts the starts of the process, `basis` has what each result requested by
the running process was made from, `stray` the subtasks for which a refusal came before the
running process had published them, `committed` what was last written of each operation.

**`Chunking`**, **`Summarizer`**, **`Quiz`** and **`Terminology`** hold what the agents
compute, as operators: `segments_to_chunks` and `pages_to_chunks`; the overlapping blocks,
the map-reduce and `parse_with_retry` over a model that may decline any call (what the summary
rests on is a set of blocks, empty if F3 refuses); the removal of repeated choices and the
filters of `QuizQuestion` (the quiz is a set of questions, whose ids are their order); the near-duplicates, their grouping, and
the cut at `top_n`. A text is a length, a choice a text and a spelling of it, a lemma a
sequence of letters.

**`SpacyNer`** is the adapter F5 calls: the language of a text, the model of a language or
the other one as a fallback, the models loaded so far, and the grouping of a call's texts by
language. Its state outlives a call, so it is checked on sessions of calls between which
models may be installed or removed. **`Recommender`** has what F6 takes from its request,
the year filter, the ranking and its refusals; a cosine is a given number. **`RestApi`** is
`POST /api/tasks` up to and including `submit`: what is on the disk, what is committed and
what the client is told, if the handling is cut short (an error, a closed connection) at
any point. It needs no interleaving: nobody sees its rows before the commit or writes to
its directory. **`Agents`** applies these operators, one action per handler: the one request
is answered, and the properties relate the answer to it.

**`Corpus`** has the script and the application as two processes over two files. `builder`
and `app` are how far each has got; a file lists papers and may end in the middle of one.
Opening a file empties it, a buffer goes to the disk wherever it ends, and either process may
stop anywhere (`BuildStops`, `Stop`). Start-up is three steps: `_build_embedding` looks
whether the files exist and chooses the adapter, `LoadRows` looks again and reads
`papers.npy`, `LoadLines` reads `papers.jsonl` and pairs lines with rows. The history
variables say which files a start-up found: `cut` whether the last build that wrote was cut
off, `seen` whether the files were whole, cut, or changed meanwhile.

**`Ordering`** has the one operator `InOrder`: the members of a set in the order of a key that
no two of them share. It stands for ORDER BY in the queries and for `sort()` in F4 and F6.

`Mut...` operators are plausible mistakes in the definition they stand before. They are
not part of any specification; substituted for it, they show that a property can fail.

## 3. The runs

All constants are in the `.cfg` files; the `MC...` modules hold the values
a `.cfg` cannot write.

| Run | Checks | Instance |
|---|---|---|
| `dispatch_dag` | `TypeOK`, `TriedEnough`, `FailureHasCause`, `DispatchedWhenReady`, `NothingReadyLeft`, `ResolutionIsFinal`, `ImplementsTask` | four plans: empty, one root, all-join, any-join of two; two retries, silent and late agents |
| `dispatch_faults` | `TimersCoverPending`, `RequestBudget`, `ArtifactBacksStatus`, `SettledRowsStay`, `DurableNotRedone` | F1 -> F3, one fault of any of eight kinds at any await, the overlap of `submit` and recovery among them |
| `dispatch_live` | `EventuallySettled` | F1 -> F3, agents that may never answer, a crash at any await, the global deadline out of reach: timers, retries and the recovery must do |
| `coordinator` | `TypeOK`, `GaugeCoversTable`, `InFlightIsOwned`, `LeavesTableSettled`, `EveryTaskSettles` | two tasks, of one plan or of two; two faults of five kinds |
| `agent_loop` | `TypeOK`, `HandledAtMostOnce`, `AckMeansAnswered`, `RepeatMeansEvicted`, `RoutedTwiceMeansEvicted`, `OthersAreServed` | three requests, receivers smaller than the traffic, two of: a duplicated entry, a raising handler, a failing bus or read, a crash |
| `agents` | `ChunksFit`, `BlocksCover`, `AnyAnswerCounts`, `MarksAsMeant`, `TermsAccountForAll`, `TermsAreDistinct`, `TextsKeepTheirPlaces`, `BestInRange`, `AllDocumentsOrNoTask` | all requests up to four segments, two pages, three blocks with every way of declining calls, quizzes of up to two questions, four candidates over five lemmas, sessions of two calls of up to three texts or three of one, corpora of up to three papers, two uploads with a cut at any point |
| `corpus_files` | `TypeOK`, `CorpusIsComplete`, `DimensionsAgree`, `UncutMeansUsable` | two queries, two tries each, three papers of which one breaks the file; any number of builds and start-ups, stopped anywhere |
| `contents_restart` | `TypeOK`, `LoadedIsCommitted`, `MadeFromUpstreams` | two recordings and a PDF, four plans of three subtasks, two failures: crash, failing store, lost answer of a commit, refusal, timeout |

Each of these must pass, and together they take every action and every disjunct of the
next-state relations. Four more runs show where the code disagrees with what the
repository says of it; TLC must find each property violated:

| Run | Property | What happens |
|---|---|---|
| `dispatch_stale_refuse` | `DispatchedWhenReady` | F3's refuse survives a crash in the inbox; F1's result does not. The resumed task takes the refuse for F3, which it has not dispatched, schedules a retry and publishes F3 before F1 answered. |
| `coordinator_status` | `SettledStays` | The recovery finalises a task before `submit` writes RUNNING over it. |
| `agent_stuck` | `PendingIsHandled` | A handler raises; its entry stays pending for ever, there is no XCLAIM. |
| `contents_order` | `ChunksInOrder` | Chunks are reloaded in the order of their ids as strings: after a restart the eleventh chunk of a lecture comes before its third. |

Other consequences of the code are in the models, one guard or one assignment each, and
have no run of their own:

* `_recover` is outside the `try` of `run()` (`coordinator.py:112-115`): one exception there
  ends the loop (`ResumeRaises`, `LoadInFlight`, `Raise`), although a single task "must
  never wedge the run loop" (`coordinator.py:370-372`).
* A task created while the recovery loads is registered by `submit` and again by `_resume`:
  the gauge counts it twice and never comes back (`Register`). Hence `GaugeCoversTable`
  says "at least".
* The rows of a settled task can change in two ways, and `SettledRowsStay` says that there is
  no third: `submit` writes RUNNING after the recovery settled the task (above), and when the
  commit of the terminal status took effect but its answer was lost, `_finalize` raises and
  `_abandon` writes FAILED over it (`coordinator.py:391`, `205-207`, `377`). The artifact
  still says what the task had come to.
* A refuse of an earlier attempt that comes after its timeout spends a retry of the current
  one (`RouteRefuse`), so the artifact may report a retry that was never published, and a
  request may cost two attempts. `TriedEnough` says that it never costs three: a subtask that
  failed after it was requested was requested `(1 + RETRY_MAX) / 2` times at least.
* After a restart a stale refusal may have a subtask republished before its upstreams are
  resolved (`dispatch_stale_refuse`), made of what there is by then: F5 of the chunks of one
  of two sources. `MadeFromUpstreams` excepts these subtasks (`stray`), and says that there
  are none before a restart.
* The tick acknowledges replies before it routes any (`TakeReply`); an exception on a later
  entry of the batch drops them.
* The receiver remembers an id before the message is handled: after a handler raised, a
  duplicate of the request is acknowledged unanswered. `HandledAtMostOnce` and
  `AckMeansAnswered` are therefore claimed as long as no request is in its stream twice
  (`Unduplicated`).
* Near-duplicate lemmas are grouped by the one found first (`group_key`), not by union-find
  as the comment there says: in a chain of near-duplicates the groups depend on the order
  and two of them may be near one another. `TermsAreDistinct` is claimed where the relation
  is transitive.
* An index off the list in a multiple choice's `answer_indices` is dropped by the remapping,
  before `is_well_formed` sees it: the question passes. In a single choice it is rejected.
* The last block of a lecture may lie inside the one before it (`_split`): one call of the
  model more than needed.
* A rebuild of the corpus that is killed between its two files leaves new titles beside old
  embeddings. `load_corpus` pairs them with `zip(strict=False)`: F6 recommends papers for
  what others say, and nothing is logged. `UncutMeansUsable` says that nothing else does this.
* If the builder finishes between `_build_embedding` and `load_corpus`, F6 has a real corpus
  and the fake adapter, and refuses every request until a restart, which is what the pairing
  at `main.py:65` is meant to prevent. `DimensionsAgree` excepts start-ups during which the
  files changed (`seen = "raced"`).
* The builder always embeds with its default model; the application with
  `settings.embedding_model`. `DimensionsAgree` is claimed where they are the same. Another
  model of the same dimension would not be noticed by F6's check.
* `json.dumps(ensure_ascii=False)` leaves U+2028 or U+0085 in a title as it is, and
  `splitlines()` splits there: one such paper, and the application does not start with that
  corpus (`"split"`).
* The files of a request answered 413 or 500 stay on the disk (`RestApi`); a request whose
  `submit` failed is answered 500, but its task is there, and is driven by the next tick or
  recovered by the next start.
* `extract_many` may refuse a call after the group of the other language went through: its
  candidates are lost, its pipeline stays.
* A text layer shorter than `min_chars` is replaced by what is recognised in the page's
  image, even if that is nothing: the page is lost (`page_text`).

### Bounds, and why they are enough

* *Subtasks.* A task's subtasks interact through upstreams only. Two chained ones show
  dispatch, retry, skip and cascade; two sources with one sink show the any-join;
  F3 -> F4 the all-join.
* *Retries* (`RETRY_MAX` 1 or 2, the code has 2), *timeouts* and *backoffs* of at most one
  tick of the clock: only their order relative to ticks of the loop matters, and `MaxGap` lets the
  loop sleep past several of them.
* *`MaxTime`* bounds the clock per incarnation: to where the global deadline has passed, before
  which retries are used up by timeouts, by refusals, which take no time, or by both. In
  `dispatch_live` it lies where the last retry of an F3 ends whose F1 answered at the last
  moment, and `GLOBAL_DEADLINE` is never overrun: the bound hides no task that would have
  settled, and the global deadline cannot settle it instead. The only fault there is a crash:
  that tasks settle with failing stores and with `submit` beside the recovery is
  `EveryTaskSettles` of `Coordinator`.
* *`MaxTasks`*: of three tasks in `Coordinator`, two with the same plan and one with another,
  two are created, either of one plan or of both.
* *Corpus.* Two queries make a paper be found twice, in either order, and a query fail after
  another was answered; what OpenAlex answers differs from run to run, so a rebuild is
  longer or shorter than what it overwrites.
* *`MaxFaults`* is 1 or 2: each failure is handled by itself, and the interesting cases are
  one failure at each point, or two in a row (an exception, then a failing `_abandon`).
* *`CacheSize`* 2 stands for 1000; with three requests and a duplicate eviction happens. *`INBOX_BATCH`* 2 lets a batch hold a reply and its duplicate, or not.
* *`MaxEntries`* bounds the streams; a full stream blocks publications in the model only.
* *`Radix`* 3 stands for ten: a lecture of four chunks is then as long as one of eleven.
  `MaxItems` 1 terms or citations; the code sends for at most ten and three, within the
  radix. Four plans: both sources before a join, a chain, the citations after each of their
  upstreams. Two recordings, since the first one listed is transcribed.
* In `agents`, limits are small numbers that every path passes: a chunk of five characters
  with segments of up to six, blocks of three with an overlap of one, one retry, a shared
  prefix of two letters and one more letter of ending. Four candidates make a chain of
  three near-duplicates and one that repeats; off-list indices are -1 and the length.
* Two tasks suffice for `Coordinator`, where tasks meet only in the table, the lock and the
  loop: one may settle, fail or wait while the other is created, recovered or abandoned.
* Two texts of one language and one of the other make groups that must be taken apart again;
  three calls let a model be missed, come and go. Three papers are one more than is asked
  for, with ties. Two uploads show every order of saving, failing and committing.

`CHECK_DEADLOCK FALSE` stands where the model may stop: all tasks settled and all bounds
used, the loop dead, (`TaskContents`) a request without an answer, or (`Agents`) the one
request answered. `TaskDispatch` stops only in `dispatch_faults`, where an exception in the
recovery ends the loop; in its other runs the loop ticks for ever, and deadlock is checked.

### Fairness

`TaskDispatch` assumes weak fairness of the steps of the run loop and of the lock's holder,
and of `SetRunning` (the event loop runs a ready coroutine, and the awaits it makes return or
raise); strong fairness of `Register` (`asyncio.Lock` is first come, first served, so a
`submit` that waits for it gets it although the loop takes it again and again) and of the
clock, which moves between ticks only. Nothing is assumed of agents: they may stay silent
for ever.
`Coordinator` assumes weak fairness of the run loop, strong fairness of the handlers (one
that awaits the lock gets it: `asyncio.Lock` is first come, first served) and of
finalisation (a task that stays in the table is finalised at some tick, which the global
deadline guarantees). Nobody is obliged to restart it: `EveryTaskSettles` is promised
while it is up. `AgentLoop` assumes that both loops run and a
handler returns or raises in the end. Crashes and faults are never fair. The restart after a
crash is, in `TaskDispatch` (`LoadInFlight`, `_resume`) and `AgentLoop`: what settles a task after a crash is
the restart, and nothing is promised of a process that stays down.

## 4. The proofs

TLC checks each property on the instances above; the theorems hold for every value of the
constants that the named assumptions of the modules admit (`DispatchAssumption`,
`CoordinatorAssumption`, `AgentsAssumption`, ...), which only say what kind of thing a constant
is: plans are sets of operations, retries a number, an upload has a size and a name. Where a theorem needs more, it says so in its ASSUME, and so does this section.

### Dispatch of one task

`TaskDispatchProofs`, for every set of plans, retry limit, backoff, timeout, batch size, clock
bound and mix of failures, crashes included:

* `TypeCorrect`: `TypeOK`, from `DispatchAssumption` alone.
* `TimersAlwaysCover`, `BudgetKept`: `TimersCoverPending` and `RequestBudget`. The budget is
  not inductive: that a retry is published once only follows from its having been paid for
  in `retry_counts` when it was scheduled. `Budget` says so (`sent <= retry_counts` while a
  retry waits, `sent <= retry_counts + 1` otherwise), and `StateInv` joins it with the
  timers and with pending subtasks having no result.
* `ResolvedOnce`: `ResolutionIsFinal`, from `StateInv`: only pending subtasks are routed,
  skipped or failed, and those have no result.
* `SettledRowsKept`: `SettledRowsStay`. It needs to know who may still write a row, which is
  the invariant `Hands`: `ControlInv` (which stages and coroutines go together), `FreshInv`
  (in the hands of `submit` or the recovery a task has no failure, no retry and no deadline
  that has passed) and `OwnedInv`: a registered task, and one in a handler, has a row in
  flight, unless it was driven twice. `RowSteps` lists the steps that write rows.
* `ArtifactAlwaysBacks`: `ArtifactBacksStatus`, from `Hands` and the fact that between
  the two transactions of `_finalize` the results stand still (`ArtifactInv`).
* `TickLeavesNothingReady`: `NothingReadyLeft`, from the loop itself. `PassInv` is its loop
  invariant: a pass in which nothing has changed so far began with every subtask and has
  found none ready; the retries are looked at when no deadline has passed, and after a
  change there is another pass. Until the next tick nothing moves then but the clock, the
  agents and the persist jobs, none of which touches the state of the task.
* `DurableIsNotRedone`: `DurableNotRedone`, an action property over all incarnations of the
  process. `WrittenInv`: no subtask that is pending has a row or a job about to write
  one; a restart keeps it because it takes what has a row out of `pending`, and `submit`
  because nothing is saved before a task is first driven.

`TaskRefinementProofs` assumes that the task is taken up once (`StartedOnce`: neither `"crash"`
nor `"overlap"` among the faults) and adds `OnceInv` (until `Register` there is nothing of the
task) and `OnlyRequested` (timers, requests and
replies exist only of requested subtasks; a restart breaks it, which is what
`dispatch_stale_refuse` shows). From these follow:

* `AlwaysTriedEnough`: `TriedEnough`. It is not inductive: `AttemptsInv` counts, for each
  subtask, the retries spent and the attempts it may still lose without another request (its
  deadline, its queued requests, its replies in the inbox and in the batch), which together
  are never more than twice the requests. The lemmas about `Count` say how the replies of a
  subtask in a sequence change with `Append` and `Tail`.
* `DagRespected`: `DispatchedWhenReady`; `FailuresHaveCause`: `FailureHasCause`.
* `Refinement`: each step of `TaskDispatch` is a step of `AbstractTask` or changes nothing of
  it, if besides no answer is lost (`Answered`); a row that is RUNNING for as long as the
  task is handled or registered (`RunningInv`) is what the FAILED of `_abandon` would break.

### The table of tasks

`CoordinatorProofs`, for any set of tasks, plans and bounds, under all five kinds of faults:

* `CoordinatorTypes`: `TypeOK`.
* `GaugeNeverShort`: `GaugeCoversTable`. Not inductive by itself: finalising a task that is not
  in the table would lower the gauge and not the table. `TodoInTable` (while a tick runs, the
  tasks it has still to look at are in the table) is what the code relies on.
* `NoTaskFallsThrough`: `InFlightIsOwned` is inductive given `TypeOK`; the proof goes through
  every hand-over between handler, recovery, table and loop (`StaysOwned`, `RegisterOwns`).
* `LeavesSettled`: the action property `LeavesTableSettled`.

### Agent and bus

`AgentLoopProofs`, for any number of requests, any cache size and all faults:

* `AtMostOnce` (`HandledAtMostOnce`) and `NoAckBeforeAnswer` (`AckMeansAnswered`). The invariant
  is `Inv`: `Unduplicated => IInv`, with `ChannelType`. `IInv` says that the stream holds the
  requests in order, that the receiver knows delivered requests only, that undelivered ones
  were never handled, and how far the agent has got with the entry it holds; a stream with a
  duplicate never loses it (`DuplicatesStay`), so a step that ends without duplicates started
  without any.
* `LoopTypeCorrect`: `TypeOK`, with `LoopTypes`: a receiver never holds an id twice nor more than
  `CacheSize` of them.
* `RepeatsAreEvicted`, `RoutedTwiceIsEvicted`: `RepeatMeansEvicted` and `RoutedTwiceMeansEvicted`,
  duplicates included. Both rest on one fact about `accept` (`Tracked`): a receiver either still
  has an id, and behind it only ids offered later, or the ids offered later are at least
  `CacheSize` in number. `ReadsTracked` says it of what the agent read; `RouteInv` says it of the
  replies the coordinator kept, for whichever entry of the stream it takes next, since a tick
  that raises drops the rest of its batch.

### Contents

`TaskContentsProofs`, for any documents, plans, chunk counts and crashes:

* `ContentsTypes`: `TypeOK`, the control state: which subtasks have results, requests,
  replies, jobs and retries. `QueuesInv` adds that queues are lists.
* `AnswersFromUpstreams`: `MadeFromUpstreams`. An inductive invariant about payloads must say
  why what was read when a request was published is still so when its reply is routed:
  `Frozen` (the upstreams are all resolved, and results are final within an incarnation).
  `MadeInv` carries it for requests, replies and `basis`, each held to its own incarnation
  (`Held`). A retry is built afresh, and is the same only because its subtask was published
  with its upstreams resolved: `StrayInv` says so of all published subtasks but the strays,
  and that the first process has none, since all that is in its queues is its own.
* `LoadedAsCommitted`: `LoadedIsCommitted`, assuming `MaxItems <= Radix` and
  `ChunkCount[d] <= Radix` for every document: the ids of a document's rows end in one digit.
  The hypothesis is needed: `contents_order` is the run where a longer lecture comes back in
  another order. `StoredInv` has three parts. `AnswersInv`: a content is one its agent can
  produce. `RowsInv`: the rows of an operation are those of its last committed content, whatever
  the others wrote. `OnceInv`: each operation is saved once per incarnation, and chunks that are
  written a second time (the first commit's answer was lost) are written before any term
  links to them; without it `Unlink` would take links away from saved terms.
* `ChunksComeBack`, `NumberedComeBack`, `SummaryComesBack`: saving and loading a list are inverse,
  under the same bound; of a summary, for any of its three sections, in their order
  (`AscendingNumbers`). A set of rows has one ascending order (`SortedOnce`), and the saved
  list is one.

### What the agents compute

`AgentsProofs`, for any requests of the types in `AgentsAssumption`. `OneRequest` is the
invariant: the answer is the operator of the request's operation. The rest is about the
operators:

* `ChunksAlwaysFit`: `ChunksFit`, for speech of any segments and any number of pages. `ReadSoFar`
  says what `k` segments have become: the chunks and the buffer behind them hold, in order,
  those of them that are not blank, and would all fit if the buffer were flushed now (`Fit`).
  The last conjunct, that no chunk had room for the next segment, is about two chunks of
  which the second is still growing: only its first segment matters, and that stays
  (`TakenDoes`). An ascending list of a set of numbers is its `InOrder` (`AscendingIsInOrder`).
* `BlocksCoverText`: `BlocksCover`, assuming `overlap < block_chars` (`summarizer.py:72` has
  500 and 6000). With a larger overlap no block could hold a passage of that length.
* `AnyAnswerCountsText`: `AnyAnswerCounts`, for any number of blocks, any retry limit and any
  choice of the calls that parse. `Puts` and `Mapped` say what `k` blocks have left behind.
* `MarkedAsMeant`: `MarksAsMeant`. A choice that is kept has as many kept before it as the new
  list has places before it (`NumbersInOrder`), so `remap` finds the text that was marked
  (`KeptChoices`, `DedupMeansTheSame`).
* `TermsNotAlike`, `TermsLoseNothing`: `TermsAreDistinct` and `TermsAccountForAll`. `KeyedSoFar`
  is what `k` candidates have made of `group_key`: their lemmas have a key, and, where
  near-duplication (`NearBothWays`: it is symmetric) is transitive, near-duplicates have the
  same. So each lemma is in one group in the end (`GroupsDivide`), which has a representative
  because the order of frequencies and letters is total (`SmallerTotal`,
  `RepresentativeOfGroup`); the occurrences of the groups divide the candidates
  (`OccurrencesDivide`), and the sum counts each once (`SumOfParts`).
* `TextsStayInPlace`: `TextsKeepTheirPlaces`, for any number of calls, of texts, and any models
  installed at each of them. `Sound` is the invariant of the adapter: what it has loaded was
  installed at some call, each model once, and a language has the other's model only if its
  own was missing then. `DoneSoFar` says what the groups of some languages have come to,
  `SessionSoFar` what `k` calls have; that a language keeps its pipeline (`Keeps`) is
  what relates a call to all those before it. `SpacyNerAssumption` says that no model is
  called what the specification calls the absence of one.
* `BestCitations`: `BestInRange`. The order by score, title and place is total, so there is a
  ranking, and it is the one the sort makes (`RankingRanks`); the cut takes its head
  (`TopIsBest`).
* `DocumentsOrNoTask`: `AllDocumentsOrNoTask`, for any uploads and any point at which the handling
  is cut short. `SavedSoFar` says what `k` uploads have left: a row for each of them, backed
  by its own file (`Backed`); paths of different uploads differ in their index, so a later file
  never overwrites an earlier one.

### The corpus

`CorpusProofs`, for any queries, titles, answers and number of tries:

* `CorpusTypes`: `TypeOK`; `CorpusComplete`: `CorpusIsComplete`, from `ScriptInv` (how much of the
  files the script has written at each of its steps) and from what `fetch_papers` keeps
  (`FetchCollects`, by induction over the answers).
* `QueriesMatchCorpus`, `WholeFilesAreUsable`: `DimensionsAgree` and `UncutMeansUsable`, from
  `FilesInv`: files that no build is writing and none was cut off in are alike (`FilesAgree`),
  and a start-up that found them so, and was not raced, holds what they still are (`StartInv`).

### Induction over data

The library's induction theorems take an operator as a parameter, which the provers cannot
instantiate. `Induction` states induction of *sets* of numbers instead (`InductiveSet`,
`InductiveUpTo`): a proof names the set of numbers that have the property. It also proves that
the recursive functions behind `FoldLeft` exist (`FoldExists`), so that the equation of a
fold may be used; that `FlattenSeq` and the ways of listing a finite set (`SetToSeqs`) are what
they should be; and that a finite set with a strict total order has an ascending list
(`OrderExists`), and only one (`SortedOnce`). That is why sorting is `InOrder` here.

### What is only model-checked

* Liveness (`EventuallySettled`, `EveryTaskSettles`, `OthersAreServed`): fairness and ENABLED
  are beyond the prover. Every invariant and action property of the passing runs is a theorem,
  some under the assumptions on `Faults` or bounds named above.
* The four violations, which are counterexamples of a small instance.


## 5. What is abstracted

* Payloads and contents: in `TaskDispatch` a result is "inform" or "failed". Results that fail validation in
  `assemble_artifact` appear as an exception of `_finalize`, a failing store.
* `required`, `first_attempt_at`, `resolved_at`, reasons, durations, message counts: they
  decide nothing. `retry_counts` is kept, also in the artifact.
* The 0.5 s pauses after an error, `block_ms`, and the retries of `_persist_result` (one
  step: saved, or given up).
* In `TaskContents` there is no clock: a timeout may come whenever a request is out, a retry
  is due whenever it is scheduled, and whether a failure is retried or final is left open.
  A crash while replies are routed may take any of them with it. All chunks have text. The choice of terms, and the
  text of summaries, quizzes and citations are the agents' own.
* In `Agents` only what is counted, ordered or compared of a text is there. Prompts, the
  pulling of JSON out of an answer, lemmatisation, the noise filter and stopwords are left
  out: the inputs are what comes out of them. Scores are not computed; the cut at `top_n`
  admits every order that agrees with frequency and rarity (`Outranks`), and the tokens
  of a lemma but the last are alike.
* In `SpacyNer` what a pipeline finds in a text is left out (an entity that is also an
  adjective with its noun is found twice, and counts twice); in `Recommender` the text of the
  query and the cosine are.
* In `Corpus` a paper is its title; the directory, the pauses between requests and the demo
  papers but one are left out. In `RestApi` names matter as far as nothing is left of one;
  that a path stays in its directory follows from taking the name's last part.
* In `TaskDispatch` duplicates of messages do not exist: `AgentLoop` checks what the
  receivers make of them. A task has one `TaskState` at a time: the one a second registration
  replaces is gone, with its timers, but for its requests and replies.

## 6. Plan

Done, in this order: `Plan`, `TaskDispatch` with `AbstractTask`, its proofs, `Coordinator`,
`StreamBus` with `AgentLoop`, its proofs, `ResultRows` with `TaskContents`, the agents'
algorithms, `SpacyNer`, `Recommender` and `RestApi` in `Agents`, and `Corpus`; then the proofs
about `Coordinator`, the receivers, `TaskContents`, `Corpus`, F1 to F6 and the uploads.
Next, most important first:

1. Several tasks that share an agent: deadlines against queueing.


## 7. Not modelled, and why

Speech and character recognition, language models, embeddings and NER are libraries: what
they can do to the protocol, answer, refuse, raise or hang, is a choice of the agent's
actions. Prompts, the cosine and the scores of `src/evaluation/` are text and real
arithmetic. The status and result endpoints read one row and change nothing; what the row
may hold is checked where it is written. A plan that names an operation twice (`plan.py:106`
lets it) has the same subtasks: their ids are equal, and so is the state the coordinator
keeps of them; only the artifact lists it twice. A chunk with an unknown `source_type`, which
would make a recovery raise (`recovery.py:62`), is produced by no agent. The order of
`_teardown` is left out: it ends the process, and nothing modelled outlives it otherwise
than after a crash. Settings, logging and the metrics other than the in-flight gauge are
only read or only written.

Three hazards of `PROJECT.json` have no property for these reasons: what the result endpoint
answers for a failed task (425 if there is no artifact, else the artifact, whose status need
not be the row's), the plan that names an operation twice, and the teardown after a
coordinator that died in its recovery. Five more are hazards that their property excepts, and
it says that nothing else leads there: a `submit` that raises (`orphaned`), the duplicate of a
request whose handler raised (`Unduplicated`), near-duplication that is not transitive, a
corpus built while the application starts (`"raced"`), and a build cut off between its files.
