-------------------------- MODULE CoordinatorProofs --------------------------
(***************************************************************************)
(* No task in flight is lost: for any number of tasks, plans, requests,     *)
(* restarts and failures of every kind Coordinator knows.                   *)
(***************************************************************************)
EXTENDS Coordinator, FiniteSetTheorems, TLAPS

USE DEF InFlight, Terminal

-----------------------------------------------------------------------------
(* Types.                                                                   *)

\* Registering a task keeps the sets its variables range over.
LEMMA RegisterType ==
    ASSUME TypeOK, NEW t \in Task, NEW loaded \in SUBSET Subtask, Register(t, loaded)
    PROVE  /\ status' \in [Task -> {"none"} \cup InFlight \cup Terminal]
           /\ requests' \in [Task -> [Subtask -> Nat]]
           /\ table' \subseteq Task
           /\ pending' \in [Task -> SUBSET Subtask]
           /\ gauge' \in Int
<1>1. Plan[t] \ loaded \in SUBSET Subtask
  BY CoordinatorAssumption
<1>2. pending' \in [Task -> SUBSET Subtask]
  BY <1>1 DEF TypeOK, Register
<1>3. CASE Plan[t] \ loaded = {}
  BY <1>2, <1>3 DEF TypeOK, Register
<1>4. CASE Plan[t] \ loaded # {}
  <2>1. [s \in Subtask |-> IF s \in Plan[t] \ loaded THEN requests[t][s] + 1 ELSE requests[t][s]]
          \in [Subtask -> Nat]
    BY DEF TypeOK
  <2>2. requests' \in [Task -> [Subtask -> Nat]]
    BY <1>4, <2>1 DEF TypeOK, Register
  <2>3. QED BY <1>2, <1>4, <2>2 DEF TypeOK, Register
<1>5. QED BY <1>3, <1>4

\* Every step keeps every variable in its set.
LEMMA TypeStep == ASSUME TypeOK, [Next]_vars PROVE TypeOK'
<1>1. ASSUME NEW t \in Task, CreateTask(t) PROVE TypeOK'
  BY <1>1 DEF TypeOK, CreateTask
<1>2. ASSUME NEW t \in Task, SetRunning(t) PROVE TypeOK'
  <2>1. UNCHANGED <<saved, requests, answers, loop, todo, jobs, table, pending, gauge>>
    BY <1>2 DEF SetRunning
  <2>2. /\ status' \in [Task -> {"none"} \cup InFlight \cup Terminal]
        /\ handler' \in [Task -> {"none", "created", "started", "done", "error"}]
    BY <1>2 DEF TypeOK, SetRunning
  <2>3. orphaned' \subseteq Task /\ faults' \in Nat
    BY <1>2 DEF TypeOK, SetRunning, Fault
  <2>4. QED BY <2>1, <2>2, <2>3 DEF TypeOK
<1>3. ASSUME NEW t \in Task, Submit(t) PROVE TypeOK'
  <2>1. /\ UNCHANGED <<saved, answers, loop, todo, jobs, orphaned, faults>>
        /\ handler' = [handler EXCEPT ![t] = "done"]
    BY <1>3 DEF Submit
  <2>2. Register(t, {})
    BY <1>3 DEF Submit
  <2>3. QED BY <2>1, <2>2, RegisterType DEF TypeOK
<1>4. ASSUME NEW t \in Task, SubmitRaises(t) PROVE TypeOK'
  <2>1. Plan[t] \in SUBSET Subtask
    BY CoordinatorAssumption
  <2>2. UNCHANGED <<status, saved, requests, answers, loop, todo, jobs>>
    BY <1>4 DEF SubmitRaises
  <2>3. /\ handler' \in [Task -> {"none", "created", "started", "done", "error"}]
        /\ pending' \in [Task -> SUBSET Subtask]
        /\ table' \subseteq Task /\ gauge' \in Int
    BY <1>4, <2>1 DEF TypeOK, SubmitRaises
  <2>4. orphaned' \subseteq Task /\ faults' \in Nat
    BY <1>4 DEF TypeOK, SubmitRaises, Fault
  <2>5. QED BY <2>2, <2>3, <2>4 DEF TypeOK
<1>5. CASE LoadInFlight
  BY <1>5 DEF TypeOK, LoadInFlight, Fault
<1>6. CASE BeginResume \/ EndResume \/ EndTick \/ EndPersist
  BY <1>6 DEF TypeOK, BeginResume, EndResume, EndTick, EndPersist
<1>7. CASE BeginTick
  <2>1. pending' \in [Task -> SUBSET Subtask]
    BY <1>7 DEF TypeOK, BeginTick
  <2>2. jobs' \subseteq Task \X Subtask
    BY <1>7 DEF TypeOK, BeginTick
  <2>3. QED BY <1>7, <2>1, <2>2 DEF TypeOK, BeginTick
<1>8. ASSUME NEW t \in Task, _resume(t) PROVE TypeOK'
  <2>1. UNCHANGED <<saved, answers, handler, loop, jobs, orphaned, faults>> /\ todo' = todo \ {t}
    BY <1>8 DEF _resume
  <2>2. Register(t, saved[t]) /\ saved[t] \in SUBSET Subtask
    BY <1>8 DEF _resume, TypeOK
  <2>3. QED BY <2>1, <2>2, RegisterType DEF TypeOK
<1>9. ASSUME NEW t \in Task, Finalize(t) \/ KeepWaiting(t) PROVE TypeOK'
  BY <1>9 DEF TypeOK, Finalize, KeepWaiting, Drop
<1>10. ASSUME NEW t \in Task, NEW s \in Subtask, PersistResult(t, s) PROVE TypeOK'
  BY <1>10 DEF TypeOK, PersistResult
<1>11. CASE ReadRaises
  BY <1>11 DEF TypeOK, ReadRaises, Fault
<1>12. ASSUME NEW t \in Task, ResumeRaises(t) PROVE TypeOK'
  <2>1. Plan[t] \ saved[t] \in SUBSET Subtask
    BY CoordinatorAssumption
  <2>2. QED BY <1>12, <2>1 DEF TypeOK, ResumeRaises, Fault
<1>13. ASSUME NEW t \in Task, _abandon(t) PROVE TypeOK'
  BY <1>13 DEF TypeOK, _abandon, Drop, Fault
<1>14. ASSUME NEW t \in Task, NEW s \in Subtask, Answer(t, s) PROVE TypeOK'
  <2>1. [requests[t] EXCEPT ![s] = requests[t][s] - 1] \in [Subtask -> Nat]
    BY <1>14 DEF TypeOK, Answer
  <2>2. requests' \in [Task -> [Subtask -> Nat]]
    BY <1>14, <2>1 DEF TypeOK, Answer
  <2>3. QED BY <1>14, <2>2 DEF TypeOK, Answer
<1>15. CASE Crash
  BY <1>15 DEF TypeOK, Crash, Fault
<1>16. CASE Restart
  BY <1>16 DEF TypeOK, Restart
<1>17. CASE UNCHANGED vars
  BY <1>17 DEF TypeOK, vars
<1>18. QED
  BY <1>1, <1>2, <1>3, <1>4, <1>5, <1>6, <1>7, <1>8, <1>9, <1>10, <1>11, <1>12, <1>13, <1>14,
     <1>15, <1>16, <1>17 DEF Next, Handler, RunLoop, Raises

\* Every variable stays in its set: a task is of no other status than the four the
\* code writes, and no request count goes below zero.
THEOREM CoordinatorTypes == Spec => []TypeOK
<1>1. Init => TypeOK
  BY DEF Init, TypeOK
<1>2. TypeOK /\ [Next]_vars => TypeOK'
  BY TypeStep
<1>3. QED BY <1>1, <1>2, PTL DEF Spec

-----------------------------------------------------------------------------
(* The gauge.                                                               *)

\* Inside a tick every task yet to be treated is in the table still.
TodoInTable == loop = "ticking" => todo \subseteq table

GaugeInv == TodoInTable /\ GaugeCoversTable

\* Putting one task into the table and adding one to the gauge goes together.
LEMMA GaugeRaised ==
    ASSUME TypeOK, GaugeCoversTable, NEW t \in Task, table' = table \cup {t}, gauge' = gauge + 1
    PROVE  GaugeCoversTable'
<1>1. IsFiniteSet(table)
  BY CoordinatorAssumption, FS_Subset DEF TypeOK
<1>2. Cardinality(table) \in Nat
  BY <1>1, FS_CardinalityType
<1>3. Cardinality(table \cup {t}) <= Cardinality(table) + 1
  BY <1>1, <1>2, FS_AddElement
<1>4. Cardinality(table \cup {t}) \in Nat
  BY <1>1, FS_AddElement, FS_CardinalityType
<1>5. QED BY <1>2, <1>3, <1>4 DEF GaugeCoversTable, TypeOK

\* Dropping a task that is in the table lowers both by one.
LEMMA GaugeLowered ==
    ASSUME TypeOK, GaugeCoversTable, NEW t \in table, Drop(t)
    PROVE  GaugeCoversTable'
<1>1. IsFiniteSet(table)
  BY CoordinatorAssumption, FS_Subset DEF TypeOK
<1>2. Cardinality(table) \in Nat
  BY <1>1, FS_CardinalityType
<1>3. Cardinality(table \ {t}) = Cardinality(table) - 1
  BY <1>1, FS_RemoveElement
<1>4. QED BY <1>2, <1>3 DEF GaugeCoversTable, TypeOK, Drop

LEMMA GaugeStep == ASSUME TypeOK, GaugeInv, [Next]_vars PROVE GaugeInv'
<1> USE DEF GaugeInv
<1>1. ASSUME NEW t \in Task, CreateTask(t) \/ SetRunning(t) PROVE GaugeInv'
  BY <1>1 DEF CreateTask, SetRunning, TodoInTable, GaugeCoversTable
<1>2. ASSUME NEW t \in Task, Submit(t) PROVE GaugeInv'
  <2>1. TodoInTable'
    BY <1>2 DEF Submit, LockFree, TodoInTable
  <2>2. UNCHANGED <<table, gauge>> \/ (table' = table \cup {t} /\ gauge' = gauge + 1)
    BY <1>2 DEF Submit, Register
  <2>3. GaugeCoversTable'
    BY <2>2, GaugeRaised DEF GaugeCoversTable
  <2>4. QED BY <2>1, <2>3
<1>3. ASSUME NEW t \in Task, SubmitRaises(t) PROVE GaugeInv'
  <2>1. TodoInTable'
    BY <1>3 DEF SubmitRaises, LockFree, TodoInTable
  <2>2. UNCHANGED <<table, gauge>> \/ (table' = table \cup {t} /\ gauge' = gauge + 1)
    BY <1>3 DEF SubmitRaises
  <2>3. GaugeCoversTable'
    BY <2>2, GaugeRaised DEF GaugeCoversTable
  <2>4. QED BY <2>1, <2>3
<1>4. CASE LoadInFlight \/ BeginResume \/ EndResume \/ EndTick \/ EndPersist \/ ReadRaises \/ Restart
  BY <1>4 DEF LoadInFlight, BeginResume, EndResume, EndTick, EndPersist, ReadRaises, Restart,
     TodoInTable, GaugeCoversTable
<1>5. ASSUME NEW t \in Task, _resume(t) PROVE GaugeInv'
  <2>1. TodoInTable'
    BY <1>5 DEF _resume, TodoInTable
  <2>2. UNCHANGED <<table, gauge>> \/ (table' = table \cup {t} /\ gauge' = gauge + 1)
    BY <1>5 DEF _resume, Register
  <2>3. GaugeCoversTable'
    BY <2>2, GaugeRaised DEF GaugeCoversTable
  <2>4. QED BY <2>1, <2>3
<1>6. ASSUME NEW t \in Task, ResumeRaises(t) PROVE GaugeInv'
  <2>1. TodoInTable'
    BY <1>6 DEF ResumeRaises, TodoInTable
  <2>2. UNCHANGED <<table, gauge>> \/ (table' = table \cup {t} /\ gauge' = gauge + 1)
    BY <1>6 DEF ResumeRaises
  <2>3. GaugeCoversTable'
    BY <2>2, GaugeRaised DEF GaugeCoversTable
  <2>4. QED BY <2>1, <2>3
<1>7. CASE BeginTick
  BY <1>7 DEF BeginTick, TodoInTable, GaugeCoversTable
<1>8. ASSUME NEW t \in Task, Finalize(t) \/ _abandon(t) PROVE GaugeInv'
  <2>1. t \in table /\ todo' = todo \ {t} /\ Drop(t)
    BY <1>8 DEF Finalize, _abandon, TodoInTable
  <2>2. TodoInTable'
    BY <1>8, <2>1 DEF Finalize, _abandon, Drop, TodoInTable
  <2>3. QED BY <2>1, <2>2, GaugeLowered
<1>9. ASSUME NEW t \in Task, KeepWaiting(t) PROVE GaugeInv'
  BY <1>9 DEF KeepWaiting, TodoInTable, GaugeCoversTable
<1>10. ASSUME NEW t \in Task, NEW s \in Subtask, PersistResult(t, s) \/ Answer(t, s)
       PROVE  GaugeInv'
  BY <1>10 DEF PersistResult, Answer, TodoInTable, GaugeCoversTable
<1>11. CASE Crash
  BY <1>11, FS_EmptySet DEF Crash, TodoInTable, GaugeCoversTable
<1>12. CASE UNCHANGED vars
  BY <1>12 DEF vars, TodoInTable, GaugeCoversTable
<1>13. QED
  BY <1>1, <1>2, <1>3, <1>4, <1>5, <1>6, <1>7, <1>8, <1>9, <1>10, <1>11, <1>12
     DEF Next, Handler, RunLoop, Raises

\* INFLIGHT_TASKS never reports less than the table holds, however submits, resumes,
\* finalisations and abandoned tasks interleave: what leaves the table in a tick was
\* in it when the tick began, and nothing else takes a task out.
THEOREM GaugeNeverShort == Spec => []GaugeCoversTable
<1>1. Init => GaugeInv
  BY FS_EmptySet DEF Init, GaugeInv, TodoInTable, GaugeCoversTable
<1>2. TypeOK /\ GaugeInv /\ [Next]_vars => GaugeInv'
  BY GaugeStep
<1>3. GaugeInv => GaugeCoversTable
  BY DEF GaugeInv
<1>4. QED BY <1>1, <1>2, <1>3, CoordinatorTypes, PTL DEF Spec

-----------------------------------------------------------------------------
(* Ownership.                                                               *)

\* Somebody has task `t` in hand, as InFlightIsOwned counts them.
Owned(t) ==
    \/ handler[t] \in {"created", "started"}
    \/ t \in table
    \/ loop \in {"loading", "dead", "down"}
    \/ loop \in {"loaded", "resuming"} /\ t \in todo

\* A step that leaves the status of a task alone, or ends it, keeps the task owned if
\* whoever has it does not let go.
LEMMA StaysOwned ==
    ASSUME InFlightIsOwned, NEW u \in Task, u \notin orphaned,
           status'[u] \in InFlight => status[u] \in InFlight,
           Owned(u) => Owned(u)'
    PROVE  status'[u] \in InFlight => Owned(u)'
BY DEF InFlightIsOwned, Owned

\* A task that is registered is in the table from then on, or finished.
LEMMA RegisterOwns ==
    ASSUME TypeOK, InFlightIsOwned, NEW t \in Task, NEW loaded, Register(t, loaded),
           UNCHANGED <<loop, orphaned>>,
           \A u \in Task \ {t} : handler'[u] = handler[u] /\ (u \in todo' <=> u \in todo)
    PROVE  InFlightIsOwned'
<1> SUFFICES ASSUME NEW u \in Task, u \notin orphaned PROVE status'[u] \in InFlight => Owned(u)'
  BY DEF InFlightIsOwned, Owned
<1>1. CASE u = t
  BY <1>1 DEF Register, Owned, TypeOK
<1>2. CASE u # t
  <2>1. status'[u] = status[u] /\ (u \in table => u \in table')
    BY <1>2 DEF Register, TypeOK
  <2>2. Owned(u) => Owned(u)'
    BY <1>2, <2>1 DEF Owned
  <2>3. QED BY <2>1, <2>2, StaysOwned
<1>3. QED BY <1>1, <1>2

\* Every step leaves every task in flight in somebody's hands.
LEMMA OwnedStep == ASSUME TypeOK, InFlightIsOwned, [Next]_vars PROVE InFlightIsOwned'
<1> DEFINE Goal == \A u \in Task \ orphaned' : status'[u] \in InFlight => Owned(u)'
<1> SUFFICES Goal
  BY DEF InFlightIsOwned, Owned
<1>1. ASSUME NEW t \in Task, CreateTask(t) PROVE Goal
  BY <1>1 DEF CreateTask, InFlightIsOwned, Owned, TypeOK
<1>2. ASSUME NEW t \in Task, SetRunning(t) PROVE Goal
  <2> SUFFICES ASSUME NEW u \in Task, u \notin orphaned' PROVE status'[u] \in InFlight => Owned(u)'
    OBVIOUS
  <2>1. UNCHANGED <<loop, todo, table>> /\ handler[t] = "created"
    BY <1>2 DEF SetRunning
  <2>2. CASE u = t
    <3>1. handler'[t] = "started"
      BY <1>2, <2>2 DEF SetRunning, TypeOK
    <3>2. QED BY <2>2, <3>1 DEF Owned
  <2>3. CASE u # t
    <3>1. status'[u] = status[u] /\ handler'[u] = handler[u] /\ u \notin orphaned
      BY <1>2, <2>3 DEF SetRunning, TypeOK
    <3>2. QED BY <2>1, <3>1, StaysOwned DEF Owned
  <2>4. QED BY <2>2, <2>3
<1>3. ASSUME NEW t \in Task, Submit(t) PROVE Goal
  <2>1. Register(t, {}) /\ UNCHANGED <<loop, todo, orphaned>>
    BY <1>3 DEF Submit
  <2>2. \A u \in Task \ {t} : handler'[u] = handler[u]
    BY <1>3 DEF Submit, TypeOK
  <2>3. InFlightIsOwned'
    BY <2>1, <2>2, RegisterOwns
  <2>4. QED BY <2>3 DEF InFlightIsOwned, Owned
<1>4. ASSUME NEW t \in Task, SubmitRaises(t) PROVE Goal
  <2> SUFFICES ASSUME NEW u \in Task, u \notin orphaned' PROVE status'[u] \in InFlight => Owned(u)'
    OBVIOUS
  <2>1. UNCHANGED <<loop, todo, status>>
    BY <1>4 DEF SubmitRaises
  <2>2. CASE u = t
    BY <1>4, <2>2 DEF SubmitRaises, Owned
  <2>3. CASE u # t
    <3>1. handler'[u] = handler[u] /\ u \notin orphaned /\ (u \in table => u \in table')
      BY <1>4, <2>3 DEF SubmitRaises, TypeOK
    <3>2. QED BY <2>1, <3>1, StaysOwned DEF Owned
  <2>4. QED BY <2>2, <2>3
<1>5. CASE LoadInFlight
  BY <1>5 DEF LoadInFlight, Owned
<1>6. CASE BeginResume \/ EndResume
  BY <1>6 DEF BeginResume, EndResume, InFlightIsOwned, Owned
<1>7. ASSUME NEW t \in Task, _resume(t) PROVE Goal
  <2>1. Register(t, saved[t]) /\ UNCHANGED <<handler, loop, orphaned>> /\ todo' = todo \ {t}
    BY <1>7 DEF _resume
  <2>2. InFlightIsOwned'
    BY <2>1, RegisterOwns
  <2>3. QED BY <2>2 DEF InFlightIsOwned, Owned
<1>8. ASSUME NEW t \in Task, ResumeRaises(t) PROVE Goal
  BY <1>8 DEF ResumeRaises, Owned
<1>9. CASE BeginTick \/ EndTick \/ EndPersist
  BY <1>9 DEF BeginTick, EndTick, EndPersist, InFlightIsOwned, Owned
<1>10. CASE ReadRaises
  BY <1>10 DEF ReadRaises, InFlightIsOwned, Owned
<1>11. ASSUME NEW t \in Task, Finalize(t) PROVE Goal
  <2> SUFFICES ASSUME NEW u \in Task, u \notin orphaned' PROVE status'[u] \in InFlight => Owned(u)'
    OBVIOUS
  <2>1. CASE u = t
    BY <1>11, <2>1 DEF Finalize, TypeOK
  <2>2. CASE u # t
    <3>1. /\ status'[u] = status[u] /\ u \notin orphaned
          /\ UNCHANGED <<handler, loop>> /\ loop = "ticking"
          /\ (u \in table => u \in table')
      BY <1>11, <2>2 DEF Finalize, Drop, TypeOK
    <3>2. QED BY <3>1, StaysOwned DEF Owned
  <2>3. QED BY <2>1, <2>2
<1>12. ASSUME NEW t \in Task, KeepWaiting(t) PROVE Goal
  BY <1>12 DEF KeepWaiting, InFlightIsOwned, Owned
<1>13. ASSUME NEW t \in Task, _abandon(t) PROVE Goal
  <2> SUFFICES ASSUME NEW u \in Task, u \notin orphaned' PROVE status'[u] \in InFlight => Owned(u)'
    OBVIOUS
  <2>1. CASE u = t
    BY <1>13, <2>1 DEF _abandon, TypeOK
  <2>2. CASE u # t
    <3>1. /\ status'[u] = status[u] /\ u \notin orphaned
          /\ UNCHANGED <<handler, loop>> /\ loop = "ticking"
          /\ (u \in table => u \in table')
      BY <1>13, <2>2 DEF _abandon, Drop, TypeOK
    <3>2. QED BY <3>1, StaysOwned DEF Owned
  <2>3. QED BY <2>1, <2>2
<1>14. ASSUME NEW t \in Task, NEW s \in Subtask, PersistResult(t, s) \/ Answer(t, s) PROVE Goal
  BY <1>14 DEF PersistResult, Answer, InFlightIsOwned, Owned
<1>15. CASE Crash \/ Restart
  BY <1>15 DEF Crash, Restart, Owned
<1>16. CASE UNCHANGED vars
  BY <1>16 DEF vars, InFlightIsOwned, Owned
<1>17. QED
  BY <1>1, <1>2, <1>3, <1>4, <1>5, <1>6, <1>7, <1>8, <1>9, <1>10, <1>11, <1>12, <1>13, <1>14,
     <1>15, <1>16 DEF Next, Handler, RunLoop, Raises

\* A task in flight is in somebody's hands at every moment: there is no point between
\* the HTTP handler, the start-up recovery and the run loop at which a task falls
\* through, whoever raises or crashes where.
THEOREM NoTaskFallsThrough == Spec => []InFlightIsOwned
<1>1. Init => InFlightIsOwned
  BY DEF Init, InFlightIsOwned
<1>2. TypeOK /\ InFlightIsOwned /\ [Next]_vars => InFlightIsOwned'
  BY OwnedStep
<1>3. QED BY <1>1, <1>2, CoordinatorTypes, PTL DEF Spec

\* A task leaves the table of a running process settled, or its last write failed:
\* only a tick takes tasks out, and it writes their status in the same step.
THEOREM LeavesSettled == Spec => LeavesTableSettled
<1> DEFINE Settled == Up /\ loop' # "down" =>
                         \A t \in table \ table' : status'[t] \in Terminal \/ t \in orphaned'
<1>1. ASSUME TypeOK, [Next]_vars PROVE [Settled]_vars
  <2> SUFFICES ASSUME Next, Up, loop' # "down", NEW u \in table, u \notin table'
               PROVE  status'[u] \in Terminal \/ u \in orphaned'
    BY <1>1
  <2>1. ASSUME NEW t \in Task, Finalize(t) \/ _abandon(t)
        PROVE  status'[u] \in Terminal \/ u \in orphaned'
    <3>1. u = t
      BY <2>1 DEF Finalize, _abandon, Drop
    <3>2. QED BY <1>1, <2>1, <3>1 DEF Finalize, _abandon, TypeOK
  <2>2. ASSUME NEW t \in Task, CreateTask(t) \/ Handler(t) \/ _resume(t) \/ ResumeRaises(t) \/ KeepWaiting(t)
        PROVE  FALSE
    BY <2>2 DEF CreateTask, Handler, SetRunning, Submit, SubmitRaises, _resume, ResumeRaises,
       KeepWaiting, Register
  <2>3. CASE \/ LoadInFlight \/ BeginResume \/ EndResume \/ BeginTick \/ EndTick \/ EndPersist
             \/ ReadRaises \/ Restart
             \/ \E t \in Task, s \in Subtask : PersistResult(t, s) \/ Answer(t, s)
    BY <2>3 DEF LoadInFlight, BeginResume, EndResume, BeginTick, EndTick, EndPersist, ReadRaises,
       Restart, PersistResult, Answer
  <2>4. CASE Crash
    BY <2>4 DEF Crash
  <2>5. QED BY <2>1, <2>2, <2>3, <2>4 DEF Next, RunLoop, Raises
<1>2. QED BY <1>1, CoordinatorTypes, PTL DEF Spec, LeavesTableSettled
=============================================================================
