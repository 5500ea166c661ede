------------------------ MODULE AgentManager_proofs ------------------------
(***************************************************************************)
(* Proofs about AgentManager, for any number of agents, runs, finalizers   *)
(* and slots: type correctness; the table of active runs; the capacity;    *)
(* the owner locks; what a stop settles; and the refinement of             *)
(* AgentLifecycle.                                                         *)
(***************************************************************************)
EXTENDS AgentManager, FiniteSetTheorems, TLAPS

(* The agent and the run of a worker.                                      *)
LEMMA WorkerParts ==
  ASSUME NEW w \in Worker
  PROVE  Ag(w) \in Agent /\ w[2] \in Run /\ w = <<Ag(w), w[2]>>
BY DEF Worker, Ag

(* Agents and runs are positive numbers.                                   *)
LEMMA Numbers ==
  /\ 0 \notin Agent /\ Agent \subseteq 0 .. NAgents
  /\ 0 \notin Run /\ Run \subseteq 0 .. MaxRuns
BY NAgentsAssumption, MaxRunsAssumption DEF Agent, Run

-----------------------------------------------------------------------------
(* Type correctness.                                                       *)

LEMMA InitType == Init => TypeOK
BY NAgentsAssumption, MaxRunsAssumption
DEF Init, TypeOK, Up, Down, Status, PC, Owning, NoFin, FinPC

LEMMA StartRunType ==
  ASSUME TypeOK, NEW a \in Agent, NEW r \in Run, StartRun(a, r)
  PROVE  /\ status' \in [Agent -> Status]
         /\ run' \in [Agent -> 0 .. MaxRuns]
         /\ active' \in [Agent -> 0 .. MaxRuns]
         /\ pc' \in [Worker -> PC]
BY Numbers DEF TypeOK, StartRun, Status, PC, Owning, Worker

LEMMA ResumeType ==
  ASSUME TypeOK, NEW a \in Agent, Resume(a)
  PROVE  run[a] + 1 \in Run /\ StartRun(a, run[a] + 1)
BY MaxRunsAssumption DEF TypeOK, Resume, Run

LEMMA RequestType == TypeOK /\ Request => TypeOK'
<1> SUFFICES ASSUME TypeOK, Request PROVE TypeOK'
  OBVIOUS
<1>1. ASSUME NEW a \in Agent, Spawn(a) PROVE TypeOK'
  <2>1. 1 \in Run
    BY MaxRunsAssumption DEF Run
  <2> QED
    BY <1>1, <2>1, StartRunType DEF Spawn, TypeOK, sched
<1>2. ASSUME NEW a \in Agent, Delete(a) PROVE TypeOK'
  BY <1>2 DEF Delete, TypeOK, manager, workers, sched, NonePending, Status
<1>3. ASSUME NEW a \in Agent, NEW i \in Intent, Enqueue(a, i) PROVE TypeOK'
  <2>1. CASE Wakes(a, i)
    BY <1>3, <2>1, ResumeType, StartRunType DEF Enqueue, TypeOK, sched
  <2>2. CASE ~ Wakes(a, i)
    BY <1>3, <2>2 DEF Enqueue, TypeOK, sched
  <2> QED
    BY <2>1, <2>2
<1>4. ASSUME NEW a \in Agent, NEW i \in Intent, CancelMessage(a, i) PROVE TypeOK'
  BY <1>4 DEF CancelMessage, TypeOK, manager, workers, sched
<1>5. ASSUME NEW a \in Agent, NEW f \in Fin, StopRequest(a, f) PROVE TypeOK'
  BY <1>5, Numbers DEF StopRequest, NewFin, TypeOK, Finalizer, FinPC, Run, store, workers, sched
<1>6. ASSUME NEW a \in Agent, NEW f \in Fin, InterruptRequest(a, f) PROVE TypeOK'
  BY <1>6, Numbers
  DEF InterruptRequest, NewFin, TypeOK, Finalizer, FinPC, Run, store, manager, workers, sched
<1> QED
  BY <1>1, <1>2, <1>3, <1>4, <1>5, <1>6 DEF Request

LEMMA FinType == TypeOK /\ (\E f \in Fin : FinStep(f)) => TypeOK'
<1> SUFFICES ASSUME TypeOK, NEW f \in Fin, FinStep(f) PROVE TypeOK'
  OBVIOUS
<1> USE DEF TypeOK, FinPC, Finalizer, NoFin
<1>1. CASE InterruptMark(f)
  BY <1>1 DEF InterruptMark, store, workers, sched
<1>2. CASE FinalReject(f)
  BY <1>2, Numbers DEF FinalReject, EndFin, NoFin, store, workers, sched
<1>3. CASE FinalSignal(f)
  <2>1. fin[f] \in Finalizer
    BY <1>3 DEF FinalSignal
  <2>2. stop' \in [Worker -> BOOLEAN]
    BY <1>3 DEF FinalSignal
  <2>3. fin' \in [Fin -> {NoFin} \cup Finalizer]
    BY <1>3, <2>1 DEF FinalSignal
  <2>4. pend' \in [Agent -> SUBSET Intent] /\ locked' \in SUBSET Agent
    BY <1>3, <2>1 DEF FinalSignal, NonePending
  <2> QED
    BY <1>3, <2>2, <2>3, <2>4 DEF FinalSignal, sched
<1>4. CASE FinalMark(f)
  BY <1>4, Numbers DEF FinalMark, Mark, Status, Terminal, workers, sched
<1>5. CASE FinalDone(f)
  BY <1>5, Numbers DEF FinalDone, EndFin, NoFin, store, workers, sched
<1> QED
  BY <1>1, <1>2, <1>3, <1>4, <1>5 DEF FinStep

LEMMA WorkerType == TypeOK /\ (\E w \in Worker : WorkerStep(w)) => TypeOK'
<1> SUFFICES ASSUME TypeOK, NEW w \in Worker, WorkerStep(w) PROVE TypeOK'
  OBVIOUS
<1> USE WorkerParts DEF TypeOK, Go, PC, Owning
<1>1. CASE Head(w)
  BY <1>1 DEF Head, Deliver, NonePending, manager, sched
<1>2. CASE Turn(w)
  BY <1>2
  DEF Turn, TurnTools, TurnText, TurnEmpty, TurnError, TurnStop, Deadline, ToolDone,
      Progress, WorkerOnly, store, manager, sched
<1>3. CASE FinalDeliver(w)
  BY <1>3 DEF FinalDeliver, Deliver, NonePending, manager, sched
<1>4. CASE EndRun(w)
  BY <1>4 DEF EndRun, Mark, Status, Terminal, manager, sched
<1>5. CASE AnswerTooLarge(w)
  BY <1>5 DEF AnswerTooLarge, WorkerOnly, store, manager, sched
<1>6. CASE Unregister(w)
  <2>1. active' \in [Agent -> 0 .. MaxRuns]
    BY <1>6, MaxRunsAssumption DEF Unregister
  <2>2. pc' \in [Worker -> PC] /\ stop' \in [Worker -> BOOLEAN]
    BY <1>6 DEF Unregister
  <2> QED
    BY <1>6, <2>1, <2>2 DEF Unregister, store, sched
<1>7. CASE RecordFailure(w)
  BY <1>7 DEF RecordFailure, Mark, Status, Terminal, manager, sched
<1>8. CASE Listing(w)
  BY <1>8 DEF Listing, Snapshot, Scheduler, store, manager, sched
<1> QED
  BY <1>1, <1>2, <1>3, <1>4, <1>5, <1>6, <1>7, <1>8 DEF WorkerStep, Ending

LEMMA PassType == TypeOK /\ (\E s \in Scheduler : PassStep(s)) => TypeOK'
<1> SUFFICES ASSUME TypeOK, NEW s \in Scheduler, PassStep(s) PROVE TypeOK'
  OBVIOUS
<1>1. CASE PassOver(s)
  <2>1. s = Boot \/ s \in Worker
    BY DEF Scheduler
  <2> QED
    BY <1>1, <2>1 DEF PassOver, EndPass, Go, TypeOK, PC, Up, store, manager
<1>2. ASSUME NEW a \in Agent, PassResume(s, a) PROVE TypeOK'
  BY <1>2, ResumeType, StartRunType DEF PassResume, Visit, TypeOK
<1>3. ASSUME NEW a \in Agent, PassSkip(s, a) PROVE TypeOK'
  BY <1>3 DEF PassSkip, Visit, TypeOK, store, manager, workers
<1> QED
  BY <1>1, <1>2, <1>3 DEF PassStep

LEMMA ExitType ==
  ASSUME TypeOK, NEW how \in Down, Exit(how)
  PROVE  TypeOK'
BY NAgentsAssumption, MaxRunsAssumption
DEF Exit, TypeOK, PC, NoFin, FinPC, store

LEMMA DaemonType == TypeOK /\ DaemonStep => TypeOK'
<1> SUFFICES ASSUME TypeOK, DaemonStep PROVE TypeOK'
  OBVIOUS
<1>1. CASE BeginShutdown \/ Drained
  BY <1>1 DEF BeginShutdown, Drained, TypeOK, Up, store, manager, workers, sched
<1>2. CASE StopAllList
  BY <1>2 DEF StopAllList, InUse, TypeOK, store, manager, workers, sched
<1>3. CASE StopAllFailed \/ ShutdownComplete \/ Crash
  BY <1>3, ExitType DEF StopAllFailed, ShutdownComplete, Crash, Down
<1>4. CASE Start
  BY <1>4 DEF Start, Recovered, TypeOK, Up, Status, Terminal, Scheduler, manager, workers
<1>5. ASSUME NEW a \in Agent, StopAllSkip(a) \/ StopAllError(a) PROVE TypeOK'
  BY <1>5 DEF StopAllSkip, StopAllError, StoppingAll, Up, TypeOK, store, manager, workers, sched
<1>6. ASSUME NEW a \in Agent, NEW f \in Fin, StopAllNext(a, f) PROVE TypeOK'
  BY <1>6, Numbers DEF StopAllNext, NewFin, TypeOK, Finalizer, FinPC, Run, store, workers, sched
<1> QED
  BY <1>1, <1>2, <1>3, <1>4, <1>5, <1>6 DEF DaemonStep

LEMMA NextType == TypeOK /\ [Next]_vars => TypeOK'
<1>1. TypeOK /\ UNCHANGED vars => TypeOK'
  BY DEF TypeOK, vars, store, manager, workers, sched
<1> QED
  BY <1>1, RequestType, FinType, WorkerType, PassType, DaemonType DEF Next

(* Every variable has its type in every reachable state.                   *)
THEOREM TypeCorrect == Spec => []TypeOK
BY InitType, NextType, PTL DEF Spec

-----------------------------------------------------------------------------
(* The table of active runs.                                               *)

(* The next run takes the entry of its agent.                              *)
LEMMA StartRunRegisters ==
  ASSUME TypeOK, Registered, NEW a \in Agent, NEW r \in Run, StartRun(a, r)
  PROVE  Registered'
<1> SUFFICES ASSUME NEW b \in Agent, NEW q \in Run
             PROVE  active'[b] = q <=> q = run'[b] /\ pc'[<<b, q>>] \in Owning
  BY DEF Registered
<1>1. <<a, r>> \in Worker /\ <<b, q>> \in Worker
  BY DEF Worker
<1>2. CASE b = a
  BY <1>1, <1>2 DEF StartRun, TypeOK, Owning
<1>3. CASE b # a
  BY <1>1, <1>3 DEF StartRun, TypeOK, Registered
<1> QED
  BY <1>2, <1>3

(* A worker that neither gains nor gives up its entry moves freely.        *)
LEMMA MoveRegistered ==
  ASSUME TypeOK, Registered, NEW w \in Worker, NEW where,
         pc[w] \in Owning <=> where \in Owning,
         Go(w, where), UNCHANGED <<run, active>>
  PROVE  Registered'
<1> SUFFICES ASSUME NEW b \in Agent, NEW q \in Run
             PROVE  pc'[<<b, q>>] \in Owning <=> pc[<<b, q>>] \in Owning
  BY DEF Registered
<1>1. <<b, q>> \in Worker
  BY DEF Worker
<1> QED
  BY <1>1 DEF Go, TypeOK

(* An older run that unregisters leaves the entry of the newest alone.     *)
LEMMA UnregisterRegistered ==
  ASSUME TypeOK, Registered, NEW w \in Worker, Unregister(w)
  PROVE  Registered'
<1> SUFFICES ASSUME NEW b \in Agent, NEW q \in Run
             PROVE  active'[b] = q <=> q = run'[b] /\ pc'[<<b, q>>] \in Owning
  BY DEF Registered
<1> <<b, q>> \in Worker
  BY DEF Worker
<1>1. CASE <<b, q>> = w
  BY <1>1, WorkerParts, Numbers DEF Unregister, Go, TypeOK, Registered, Owning, store, Ag
<1>2. CASE <<b, q>> # w
  <2>1. pc'[<<b, q>>] = pc[<<b, q>>] /\ run' = run
    BY <1>2 DEF Unregister, Go, TypeOK, store
  <2>2. active[b] = q => active'[b] = q
    BY <1>2, WorkerParts DEF Unregister, TypeOK, Ag
  <2>3. active'[b] = q => active[b] = q
    BY Numbers, WorkerParts DEF Unregister, TypeOK
  <2> QED
    BY <2>1, <2>2, <2>3 DEF Registered
<1> QED
  BY <1>1, <1>2

LEMMA ExitRegistered ==
  ASSUME TypeOK, NEW how \in Down, Exit(how)
  PROVE  Registered'
<1> SUFFICES ASSUME NEW b \in Agent, NEW q \in Run
             PROVE  active'[b] # q /\ pc'[<<b, q>>] \notin Owning
  BY DEF Registered
<1>1. <<b, q>> \in Worker
  BY DEF Worker
<1> QED
  BY <1>1, Numbers DEF Exit, Owning

LEMMA NextRegistered == TypeOK /\ Registered /\ [Next]_vars => Registered'
<1> SUFFICES ASSUME TypeOK, Registered, [Next]_vars PROVE Registered'
  OBVIOUS
<1>1. ASSUME UNCHANGED <<run, active, pc>> PROVE Registered'
  BY <1>1 DEF Registered
<1>2. CASE Request
  <2>1. ASSUME NEW a \in Agent, Spawn(a) PROVE Registered'
    <3>1. 1 \in Run
      BY MaxRunsAssumption DEF Run
    <3> QED
      BY <2>1, <3>1, StartRunRegisters DEF Spawn
  <2>2. ASSUME NEW a \in Agent, NEW i \in Intent, Enqueue(a, i) PROVE Registered'
    BY <1>1, <2>2, ResumeType, StartRunRegisters DEF Enqueue
  <2>3. ASSUME NEW a \in Agent, Delete(a) PROVE Registered'
    BY <1>1, <2>3 DEF Delete, manager, workers
  <2>4. ASSUME NEW a \in Agent, NEW i \in Intent, CancelMessage(a, i) PROVE Registered'
    BY <1>1, <2>4 DEF CancelMessage, manager, workers
  <2>5. ASSUME NEW a \in Agent, NEW f \in Fin, StopRequest(a, f) \/ InterruptRequest(a, f)
        PROVE  Registered'
    BY <1>1, <2>5 DEF StopRequest, InterruptRequest, store, manager, workers
  <2> QED
    BY <1>2, <2>1, <2>2, <2>3, <2>4, <2>5 DEF Request
<1>3. ASSUME NEW f \in Fin, FinStep(f) PROVE Registered'
  BY <1>1, <1>3
  DEF FinStep, InterruptMark, FinalReject, FinalSignal, FinalMark, FinalDone,
      store, manager, workers
<1>4. ASSUME NEW w \in Worker, WorkerStep(w) PROVE Registered'
  <2>1. CASE Head(w)
    BY <1>4, <2>1, MoveRegistered DEF Head, manager, Owning
  <2>2. CASE Turn(w)
    BY <1>4, <2>2, MoveRegistered
    DEF Turn, TurnTools, TurnText, TurnEmpty, TurnError, TurnStop, Deadline, ToolDone,
        Progress, WorkerOnly, store, manager, Owning
  <2>3. CASE FinalDeliver(w)
    BY <1>4, <2>3, MoveRegistered DEF FinalDeliver, manager, Owning
  <2>4. CASE EndRun(w) \/ AnswerTooLarge(w) \/ RecordFailure(w)
    BY <1>4, <2>4, MoveRegistered
    DEF EndRun, AnswerTooLarge, RecordFailure, WorkerOnly, store, manager, Owning
  <2>5. CASE Unregister(w)
    BY <1>4, <2>5, UnregisterRegistered
  <2>6. CASE Listing(w)
    BY <1>4, <2>6, MoveRegistered DEF Listing, store, manager, Owning
  <2> QED
    BY <1>4, <2>1, <2>2, <2>3, <2>4, <2>5, <2>6 DEF WorkerStep, Ending
<1>5. ASSUME NEW s \in Scheduler, PassStep(s) PROVE Registered'
  <2>1. CASE PassOver(s)
    <3>1. CASE s = Boot
      BY <1>1, <2>1, <3>1 DEF PassOver, EndPass, store, manager
    <3>2. CASE s # Boot
      BY <1>5, <2>1, <3>2, MoveRegistered
      DEF PassOver, EndPass, Visiting, Scheduler, store, manager, Owning
    <3> QED
      BY <3>1, <3>2
  <2>2. ASSUME NEW a \in Agent, PassResume(s, a) PROVE Registered'
    BY <2>2, ResumeType, StartRunRegisters DEF PassResume
  <2>3. ASSUME NEW a \in Agent, PassSkip(s, a) PROVE Registered'
    BY <1>1, <2>3 DEF PassSkip, store, manager, workers
  <2> QED
    BY <1>5, <2>1, <2>2, <2>3 DEF PassStep
<1>6. CASE DaemonStep
  <2>1. CASE StopAllFailed \/ ShutdownComplete \/ Crash
    BY <2>1, ExitRegistered DEF StopAllFailed, ShutdownComplete, Crash, Down
  <2>2. CASE BeginShutdown \/ Drained \/ StopAllList \/ Start
    BY <1>1, <2>2 DEF BeginShutdown, Drained, StopAllList, Start, store, manager, workers
  <2>3. ASSUME NEW a \in Agent, NEW f \in Fin, StopAllNext(a, f) PROVE Registered'
    BY <1>1, <2>3 DEF StopAllNext, store, workers
  <2>4. ASSUME NEW a \in Agent, StopAllSkip(a) \/ StopAllError(a) PROVE Registered'
    BY <1>1, <2>4 DEF StopAllSkip, StopAllError, StoppingAll, Up, store, manager, workers
  <2> QED
    BY <1>6, <2>1, <2>2, <2>3, <2>4 DEF DaemonStep
<1>7. CASE UNCHANGED vars
  BY <1>1, <1>7 DEF vars, store, manager, workers
<1> QED
  BY <1>2, <1>3, <1>4, <1>5, <1>6, <1>7 DEF Next

(* The entry in `active` is that of the newest run, exactly while its task *)
(* owns it, however runs overlap.                                          *)
THEOREM RegisteredAlways == Spec => []Registered
<1>1. Init => Registered
  BY Numbers DEF Init, Registered, Worker
<1> QED
  BY <1>1, TypeCorrect, NextRegistered, PTL DEF Spec

-----------------------------------------------------------------------------
(* The capacity.                                                           *)

LEMMA InUseFinite == IsFiniteSet(InUse) /\ Cardinality(InUse) \in Nat
<1>1. IsFiniteSet(Agent)
  BY NAgentsAssumption, FS_Interval DEF Agent
<1>2. InUse \in SUBSET Agent
  BY DEF InUse
<1> QED
  BY <1>1, <1>2, FS_Subset, FS_CardinalityType

(* A run that starts while a slot is free takes at most that slot.         *)
LEMMA StartRunFits ==
  ASSUME TypeOK, HasCapacity, NEW a \in Agent, NEW r \in Run, StartRun(a, r)
  PROVE  CapacityKept'
<1>1. InUse' = InUse \cup {a}
  BY Numbers DEF InUse, StartRun, TypeOK
<1>2. Cardinality(InUse') <= Cardinality(InUse) + 1
  BY <1>1, InUseFinite, FS_AddElement
<1>3. Cardinality(InUse') \in Nat
  BY <1>1, InUseFinite, FS_AddElement, FS_CardinalityType
<1> QED
  BY <1>2, <1>3, InUseFinite, MaxAgentsAssumption DEF CapacityKept, HasCapacity

(* Entries that only go away free slots.                                   *)
LEMMA ShrinkFits ==
  ASSUME CapacityKept, InUse' \subseteq InUse
  PROVE  CapacityKept'
<1>1. Cardinality(InUse') <= Cardinality(InUse) /\ Cardinality(InUse') \in Nat
  BY InUseFinite, FS_Subset, FS_CardinalityType
<1> QED
  BY <1>1, InUseFinite, MaxAgentsAssumption DEF CapacityKept

LEMMA NextCapacity == TypeOK /\ CapacityKept /\ [Next]_vars => CapacityKept'
<1> SUFFICES ASSUME TypeOK, CapacityKept, [Next]_vars PROVE CapacityKept'
  OBVIOUS
<1>1. ASSUME UNCHANGED active PROVE CapacityKept'
  BY <1>1 DEF CapacityKept, InUse
<1>2. CASE Request
  <2>1. ASSUME NEW a \in Agent, Spawn(a) PROVE CapacityKept'
    <3>1. 1 \in Run
      BY MaxRunsAssumption DEF Run
    <3> QED
      BY <2>1, <3>1, StartRunFits DEF Spawn
  <2>2. ASSUME NEW a \in Agent, NEW i \in Intent, Enqueue(a, i) PROVE CapacityKept'
    BY <1>1, <2>2, ResumeType, StartRunFits DEF Enqueue, Wakes
  <2>3. ASSUME NEW a \in Agent, Delete(a) PROVE CapacityKept'
    BY <1>1, <2>3 DEF Delete, manager
  <2>4. ASSUME NEW a \in Agent, NEW i \in Intent, CancelMessage(a, i) PROVE CapacityKept'
    BY <1>1, <2>4 DEF CancelMessage, manager
  <2>5. ASSUME NEW a \in Agent, NEW f \in Fin, StopRequest(a, f) \/ InterruptRequest(a, f)
        PROVE  CapacityKept'
    BY <1>1, <2>5 DEF StopRequest, InterruptRequest, manager
  <2> QED
    BY <1>2, <2>1, <2>2, <2>3, <2>4, <2>5 DEF Request
<1>3. ASSUME NEW f \in Fin, FinStep(f) PROVE CapacityKept'
  BY <1>1, <1>3
  DEF FinStep, InterruptMark, FinalReject, FinalSignal, FinalMark, FinalDone
<1>4. ASSUME NEW w \in Worker, WorkerStep(w) PROVE CapacityKept'
  <2>1. CASE Unregister(w)
    <3>1. InUse' \subseteq InUse
      BY <2>1, WorkerParts, Numbers DEF Unregister, InUse, TypeOK
    <3> QED
      BY <3>1, ShrinkFits
  <2>2. CASE ~ Unregister(w)
    BY <1>1, <1>4, <2>2
    DEF WorkerStep, Head, Turn, TurnTools, TurnText, TurnEmpty, TurnError, TurnStop,
        Deadline, ToolDone, FinalDeliver, Ending, EndRun, AnswerTooLarge, RecordFailure,
        Listing, WorkerOnly, manager
  <2> QED
    BY <2>1, <2>2
<1>5. ASSUME NEW s \in Scheduler, PassStep(s) PROVE CapacityKept'
  <2>1. ASSUME NEW a \in Agent, PassResume(s, a) PROVE CapacityKept'
    BY <2>1, ResumeType, StartRunFits DEF PassResume, Visit
  <2>2. ASSUME NEW a \in Agent, PassSkip(s, a) PROVE CapacityKept'
    BY <1>1, <2>2 DEF PassSkip, manager
  <2>3. ASSUME PassOver(s) PROVE CapacityKept'
    BY <1>1, <2>3 DEF PassOver, manager
  <2> QED
    BY <1>5, <2>1, <2>2, <2>3 DEF PassStep
<1>6. CASE DaemonStep
  <2>1. CASE StopAllFailed \/ ShutdownComplete \/ Crash
    <3>1. InUse' \subseteq InUse
      BY <2>1 DEF StopAllFailed, ShutdownComplete, Crash, Exit, InUse
    <3> QED
      BY <3>1, ShrinkFits
  <2>2. CASE BeginShutdown \/ Drained \/ StopAllList \/ Start
    BY <1>1, <2>2 DEF BeginShutdown, Drained, StopAllList, Start, manager
  <2>3. ASSUME NEW a \in Agent, NEW f \in Fin, StopAllNext(a, f) PROVE CapacityKept'
    BY <1>1, <2>3 DEF StopAllNext
  <2>4. ASSUME NEW a \in Agent, StopAllSkip(a) \/ StopAllError(a) PROVE CapacityKept'
    BY <1>1, <2>4 DEF StopAllSkip, StopAllError, StoppingAll, Up, manager
  <2> QED
    BY <1>6, <2>1, <2>2, <2>3, <2>4 DEF DaemonStep
<1>7. CASE UNCHANGED vars
  BY <1>1, <1>7 DEF vars, manager
<1> QED
  BY <1>2, <1>3, <1>4, <1>5, <1>6, <1>7 DEF Next

(* The daemon never runs more agents than max_agents allows.               *)
THEOREM CapacityAlways == Spec => []CapacityKept
<1>1. Init => CapacityKept
  <2>1. ASSUME Init PROVE InUse = {}
    BY <2>1 DEF Init, InUse
  <2> QED
    BY <2>1, FS_EmptySet, MaxAgentsAssumption DEF CapacityKept
<1> QED
  BY <1>1, TypeCorrect, NextCapacity, PTL DEF Spec

-----------------------------------------------------------------------------
(* Owner locks and stopping_agents.                                        *)

(* A finalizer at its terminals holds the lock of its agent; a stop among  *)
(* them has left no message pending.                                       *)
LocksHeld ==
  \A f \in Fin : fin[f].pc = "term" =>
    /\ fin[f].agent \in locked
    /\ fin[f].kind = "stop" => pend[fin[f].agent] = {}

Locks == LocksHeld /\ LockExclusive /\ NoLeak

(* Steps that leave finalizers and locks alone, and add no message to an   *)
(* agent that is locked.                                                   *)
LEMMA LocksFrame ==
  ASSUME TypeOK, Locks, UNCHANGED <<fin, locked, stopping>>,
         \A a \in locked : pend[a] = {} => pend'[a] = {}
  PROVE  Locks'
BY DEF Locks, LocksHeld, LockExclusive, NoLeak

(* A new finalizer takes the place of a free one.                          *)
LEMMA NewFinLocks ==
  ASSUME TypeOK, Locks, NEW a \in Agent, NEW f \in Fin, NEW k \in {"stop", "interrupt"},
         NEW where \in {"lock", "check"}, NewFin(f, a, k, where), UNCHANGED <<pend, locked>>,
         \/ stopping' = stopping
         \/ (where = "lock") /\ (stopping' = stopping \cup {a})
  PROVE  Locks'
<1> USE DEF Locks, TypeOK, Finalizer, FinPC, NoFin
<1>1. /\ \A g \in Fin : g # f => fin'[g] = fin[g]
      /\ fin[f].pc = "free" /\ fin'[f].pc = where /\ fin'[f].agent = a
  BY DEF NewFin, FreeFin
<1>2. LocksHeld' /\ LockExclusive'
  BY <1>1 DEF LocksHeld, LockExclusive
<1>3. \A b \in Agent, g \in Fin : fin[g].agent = b => g # f
  BY <1>1, Numbers
<1>4. NoLeak'
  <2>1. ASSUME NEW b \in locked'
        PROVE  \E g \in Fin : fin'[g].agent = b /\ fin'[g].pc = "term"
    BY <1>1, <2>1 DEF NoLeak
  <2>2. ASSUME NEW b \in stopping'
        PROVE  \E g \in Fin : fin'[g].agent = b /\ fin'[g].pc # "check"
    <3>1. CASE b \in stopping
      BY <1>1, <1>3, <3>1 DEF NoLeak
    <3>2. CASE b \notin stopping
      BY <1>1, <2>2, <3>2
    <3> QED
      BY <3>1, <3>2
  <2> QED
    BY <2>1, <2>2 DEF NoLeak
<1> QED
  BY <1>2, <1>4

(* A finalizer ends, and its agent is no longer marked as stopping.        *)
LEMMA EndFinLocks ==
  ASSUME TypeOK, Locks, NEW f \in Fin, fin[f].pc # "term", EndFin(f),
         UNCHANGED <<pend, locked>>
  PROVE  Locks'
<1> USE DEF Locks, TypeOK, NoFin
<1>1. /\ \A g \in Fin : g # f => fin'[g] = fin[g]
      /\ fin'[f] = NoFin
  BY DEF EndFin
<1>2. LocksHeld' /\ LockExclusive'
  BY <1>1 DEF LocksHeld, LockExclusive
<1>3. NoLeak'
  BY <1>1 DEF NoLeak, EndFin
<1> QED
  BY <1>2, <1>3

LEMMA FinLocks ==
  ASSUME TypeOK, Locks, NEW f \in Fin, FinStep(f)
  PROVE  Locks'
<1> USE DEF TypeOK, Finalizer, FinPC, NoFin
<1>1. CASE InterruptMark(f)
  <2>1. /\ \A g \in Fin : g # f => fin'[g] = fin[g]
        /\ fin[f].pc = "check" /\ fin'[f].pc = "lock" /\ fin'[f].agent = fin[f].agent
    BY <1>1 DEF InterruptMark
  <2> QED
    BY <1>1, <2>1 DEF InterruptMark, Locks, LocksHeld, LockExclusive, NoLeak, store
<1>2. CASE FinalReject(f)
  BY <1>2, EndFinLocks DEF FinalReject, store
<1>3. CASE FinalSignal(f)
  <2> DEFINE a == fin[f].agent
  <2>1. /\ \A g \in Fin : g # f => fin'[g] = fin[g]
        /\ fin[f].pc = "lock" /\ fin'[f].pc = "term"
        /\ fin'[f].agent = a /\ fin'[f].kind = fin[f].kind
        /\ a \in Agent
    BY <1>3 DEF FinalSignal
  <2>2. a \notin locked /\ locked' = locked \cup {a} /\ stopping' = stopping
    BY <1>3 DEF FinalSignal
  <2>3. \A b \in Agent : pend[b] = {} => pend'[b] = {}
    BY <1>3, <2>1 DEF FinalSignal, NonePending
  <2>4. fin[f].kind = "stop" => pend'[a] = {}
    BY <1>3, <2>1 DEF FinalSignal, NonePending
  <2>5. LocksHeld'
    BY <2>1, <2>2, <2>3, <2>4 DEF Locks, LocksHeld
  <2>6. LockExclusive'
    BY <2>1, <2>2 DEF Locks, LocksHeld, LockExclusive
  <2>7. NoLeak'
    BY <2>1, <2>2 DEF Locks, NoLeak
  <2> QED
    BY <2>5, <2>6, <2>7 DEF Locks
<1>4. CASE FinalMark(f)
  <2> DEFINE a == fin[f].agent
  <2>1. /\ \A g \in Fin : g # f => fin'[g] = fin[g]
        /\ fin[f].pc = "term" /\ fin'[f].pc = "wait" /\ fin'[f].agent = a
    BY <1>4 DEF FinalMark
  <2>2. locked' = locked \ {a} /\ stopping' = stopping /\ pend' = pend
    BY <1>4 DEF FinalMark
  <2>3. LocksHeld'
    BY <2>1, <2>2 DEF Locks, LocksHeld, LockExclusive
  <2>4. LockExclusive'
    BY <2>1 DEF Locks, LockExclusive
  <2>5. NoLeak'
    BY <2>1, <2>2 DEF Locks, NoLeak
  <2> QED
    BY <2>3, <2>4, <2>5 DEF Locks
<1>5. CASE FinalDone(f)
  BY <1>5, EndFinLocks DEF FinalDone, store
<1> QED
  BY <1>1, <1>2, <1>3, <1>4, <1>5 DEF FinStep

LEMMA NextLocks == TypeOK /\ Locks /\ [Next]_vars => Locks'
<1> SUFFICES ASSUME TypeOK, Locks, [Next]_vars PROVE Locks'
  OBVIOUS
<1>0. locked \subseteq Agent
  BY DEF TypeOK
<1>1. ASSUME UNCHANGED <<fin, locked, stopping, pend>> PROVE Locks'
  BY <1>1, LocksFrame
<1>2. CASE Request
  <2>1. ASSUME NEW a \in Agent, Spawn(a) PROVE Locks'
    BY <1>1, <2>1 DEF Spawn
  <2>2. ASSUME NEW a \in Agent, NEW i \in Intent, Enqueue(a, i) PROVE Locks'
    <3>1. \A b \in locked : pend'[b] = pend[b]
      BY <1>0, <2>2 DEF Enqueue, TypeOK
    <3> QED
      BY <2>2, <3>1, LocksFrame DEF Enqueue
  <2>3. ASSUME NEW a \in Agent, Delete(a) PROVE Locks'
    <3>1. \A b \in locked : pend'[b] = pend[b]
      BY <1>0, <2>3 DEF Delete, NonePending, TypeOK
    <3> QED
      BY <2>3, <3>1, LocksFrame DEF Delete, manager
  <2>4. ASSUME NEW a \in Agent, NEW i \in Intent, CancelMessage(a, i) PROVE Locks'
    <3>1. \A b \in locked : pend'[b] = pend[b]
      BY <1>0, <2>4 DEF CancelMessage, TypeOK
    <3> QED
      BY <2>4, <3>1, LocksFrame DEF CancelMessage, manager
  <2>5. ASSUME NEW a \in Agent, NEW f \in Fin, StopRequest(a, f) PROVE Locks'
    BY <2>5, NewFinLocks DEF StopRequest, store
  <2>6. ASSUME NEW a \in Agent, NEW f \in Fin, InterruptRequest(a, f) PROVE Locks'
    <3>1. NewFin(f, a, "interrupt", "check") /\ UNCHANGED <<pend, locked, stopping>>
      BY <2>6 DEF InterruptRequest, store, manager
    <3> QED
      BY <3>1, NewFinLocks
  <2> QED
    BY <1>2, <2>1, <2>2, <2>3, <2>4, <2>5, <2>6 DEF Request
<1>3. ASSUME NEW f \in Fin, FinStep(f) PROVE Locks'
  BY <1>3, FinLocks
<1>4. ASSUME NEW w \in Worker, WorkerStep(w) PROVE Locks'
  <2>1. UNCHANGED <<fin, locked, stopping>>
    BY <1>4
    DEF WorkerStep, Head, Turn, TurnTools, TurnText, TurnEmpty, TurnError, TurnStop,
        Deadline, ToolDone, FinalDeliver, Ending, EndRun, AnswerTooLarge, Unregister,
        RecordFailure, Listing, WorkerOnly, manager
  <2>2. \A b \in Agent : pend[b] = {} => pend'[b] = {}
    BY <1>4, WorkerParts
    DEF WorkerStep, Head, Turn, TurnTools, TurnText, TurnEmpty, TurnError, TurnStop,
        Deadline, ToolDone, FinalDeliver, Ending, EndRun, AnswerTooLarge, Unregister,
        RecordFailure, Listing, WorkerOnly, Deliver, NonePending, store, TypeOK
  <2> QED
    BY <1>0, <2>1, <2>2, LocksFrame
<1>5. ASSUME NEW s \in Scheduler, PassStep(s) PROVE Locks'
  BY <1>1, <1>5 DEF PassStep, PassOver, PassResume, PassSkip, store, manager
<1>6. CASE DaemonStep
  <2>1. CASE StopAllFailed \/ ShutdownComplete \/ Crash
    BY <2>1
    DEF StopAllFailed, ShutdownComplete, Crash, Exit, Locks, LocksHeld, LockExclusive,
        NoLeak, NoFin
  <2>2. CASE BeginShutdown \/ Drained \/ StopAllList \/ Start
    BY <1>1, <2>2 DEF BeginShutdown, Drained, StopAllList, Start, store, manager
  <2>3. ASSUME NEW a \in Agent, NEW f \in Fin, StopAllNext(a, f) PROVE Locks'
    BY <2>3, NewFinLocks DEF StopAllNext, store
  <2>4. ASSUME NEW a \in Agent, StopAllSkip(a) \/ StopAllError(a) PROVE Locks'
    BY <1>1, <2>4 DEF StopAllSkip, StopAllError, StoppingAll, Up, store, manager
  <2> QED
    BY <1>6, <2>1, <2>2, <2>3, <2>4 DEF DaemonStep
<1>7. CASE UNCHANGED vars
  BY <1>1, <1>7 DEF vars, store, manager
<1> QED
  BY <1>2, <1>3, <1>4, <1>5, <1>6, <1>7 DEF Next

LEMMA LocksAlways == Spec => []Locks
<1>1. Init => Locks
  BY DEF Init, Locks, LocksHeld, LockExclusive, NoLeak, NoFin
<1> QED
  BY <1>1, TypeCorrect, NextLocks, PTL DEF Spec

(* At most one finalizer at a time terminates the terminals of an agent.   *)
THEOREM LockExclusiveAlways == Spec => []LockExclusive
<1>1. Locks => LockExclusive
  BY DEF Locks
<1> QED
  BY <1>1, LocksAlways, PTL

(* No agent stays marked as stopping, or locked, without a finalizer.      *)
THEOREM NoLeakAlways == Spec => []NoLeak
<1>1. Locks => NoLeak
  BY DEF Locks
<1> QED
  BY <1>1, LocksAlways, PTL

-----------------------------------------------------------------------------
(* What a stop settles.                                                    *)

(* Only its own FinalMark takes a finalizer from its terminals to waiting. *)
LEMMA OnlyFinalMark ==
  ASSUME TypeOK, [Next]_vars, NEW f \in Fin, fin[f].pc = "term", fin'[f].pc = "wait"
  PROVE  FinalMark(f)
<1> USE DEF TypeOK, Finalizer, FinPC, NoFin
<1>1. fin' # fin
  OBVIOUS
<1>2. ~ Request
  BY <1>1
  DEF Request, Spawn, Delete, Enqueue, CancelMessage, StopRequest, InterruptRequest,
      NewFin, FreeFin
<1>3. ~ \E w \in Worker : WorkerStep(w)
  BY <1>1
  DEF WorkerStep, Head, Turn, TurnTools, TurnText, TurnEmpty, TurnError, TurnStop,
      Deadline, ToolDone, FinalDeliver, Ending, EndRun, AnswerTooLarge, Unregister,
      RecordFailure, Listing, WorkerOnly
<1>4. ~ \E s \in Scheduler : PassStep(s)
  BY <1>1 DEF PassStep, PassOver, PassResume, PassSkip
<1>5. ~ DaemonStep
  BY <1>1
  DEF DaemonStep, BeginShutdown, Drained, StopAllList, StopAllFailed, ShutdownComplete,
      Crash, Start, StopAllSkip, StopAllError, StopAllNext, Exit, NewFin, FreeFin
<1>6. PICK g \in Fin : FinStep(g)
  BY <1>1, <1>2, <1>3, <1>4, <1>5 DEF Next, vars
<1>7. g = f
  BY <1>6
  DEF FinStep, InterruptMark, FinalReject, FinalSignal, FinalMark, FinalDone, EndFin
<1> QED
  BY <1>6, <1>7
  DEF FinStep, InterruptMark, FinalReject, FinalSignal, FinalDone, EndFin

(* No message accepted before a stop survives it, and none is accepted     *)
(* while the stop terminates the terminals.                                *)
THEOREM StopSettlesAlways == Spec => StopSettles
<1>1. TypeOK /\ Locks /\ [Next]_vars
        => [\A f \in Fin : fin[f].pc = "term" /\ fin[f].kind = "stop" /\ fin'[f].pc = "wait"
              => pend'[fin[f].agent] = {}]_vars
  <2> SUFFICES ASSUME TypeOK, Locks, [Next]_vars, NEW f \in Fin,
                      fin[f].pc = "term", fin[f].kind = "stop", fin'[f].pc = "wait"
               PROVE  pend'[fin[f].agent] = {}
    OBVIOUS
  <2>1. pend' = pend
    BY OnlyFinalMark DEF FinalMark
  <2> QED
    BY <2>1 DEF Locks, LocksHeld
<1> QED
  BY <1>1, TypeCorrect, LocksAlways, PTL DEF Spec, StopSettles

-----------------------------------------------------------------------------
(* The lifecycle of the agents.                                            *)

(* A scheduling pass lists only agents that have been spawned.             *)
Listed == \A s \in Scheduler : \A a \in todo[s] : status[a] # "none"

(* mark_finished and its kin end a working agent or do nothing.            *)
LEMMA MarkLife ==
  ASSUME TypeOK, NEW a \in Agent, NEW s \in Terminal, Mark(a, s), run' = run
  PROVE  Life!Next
<1> SUFFICES ASSUME NEW b \in Agent PROVE Life!End(b) \/ Life!Stays(b)
  BY DEF Life!Next
<1> QED
  BY DEF Mark, TypeOK, Terminal, Life!End, Life!Stays, Life!Ended

(* A run starts on an agent that is neither unborn nor deleted.            *)
LEMMA ResumeLife ==
  ASSUME TypeOK, NEW a \in Agent, Known(a), Resume(a)
  PROVE  Life!Next
<1> SUFFICES ASSUME NEW b \in Agent PROVE Life!Resumed(b) \/ Life!Stays(b)
  BY DEF Life!Next
<1>1. CASE b = a
  BY <1>1
  DEF Resume, StartRun, TypeOK, Known, Status, Terminal, Life!Resumed, Life!Ended
<1>2. CASE b # a
  BY <1>2 DEF Resume, StartRun, TypeOK, Life!Stays
<1> QED
  BY <1>1, <1>2

(* What has been spawned stays so.                                         *)
LEMMA NextListed == TypeOK /\ Listed /\ [Next]_vars => Listed'
<1> SUFFICES ASSUME TypeOK, Listed, [Next]_vars PROVE Listed'
  OBVIOUS
<1>1. \A a \in Agent : status[a] # "none" => status'[a] # "none"
  <2> SUFFICES ASSUME NEW b \in Agent, status[b] # "none" PROVE status'[b] # "none"
    OBVIOUS
  <2> USE DEF TypeOK, StartRun, Resume, Mark, Terminal
  <2>1. CASE Request
    BY <2>1
    DEF Request, Spawn, Delete, Enqueue, CancelMessage, StopRequest, InterruptRequest, store
  <2>2. ASSUME NEW f \in Fin, FinStep(f) PROVE status'[b] # "none"
    BY <2>2
    DEF FinStep, InterruptMark, FinalReject, FinalSignal, FinalMark, FinalDone, store
  <2>3. ASSUME NEW w \in Worker, WorkerStep(w) PROVE status'[b] # "none"
    BY <2>3, WorkerParts
    DEF WorkerStep, Head, Turn, TurnTools, TurnText, TurnEmpty, TurnError, TurnStop,
        Deadline, ToolDone, FinalDeliver, Ending, EndRun, AnswerTooLarge, Unregister,
        RecordFailure, Listing, WorkerOnly, store
  <2>4. ASSUME NEW s \in Scheduler, PassStep(s) PROVE status'[b] # "none"
    BY <2>4 DEF PassStep, PassOver, PassResume, PassSkip, store
  <2>5. CASE DaemonStep
    BY <2>5
    DEF DaemonStep, BeginShutdown, Drained, StopAllList, StopAllFailed, ShutdownComplete,
        Crash, Start, StopAllSkip, StopAllError, StopAllNext, Exit, Recovered, store
  <2>6. CASE UNCHANGED vars
    BY <2>6 DEF vars, store
  <2> QED
    BY <2>1, <2>2, <2>3, <2>4, <2>5, <2>6 DEF Next
<1>2. \A s \in Scheduler : todo'[s] \subseteq todo[s] \cup {a \in Agent : Known(a)}
  <2>1. CASE Request \/ UNCHANGED vars
    BY <2>1
    DEF Request, Spawn, Delete, Enqueue, CancelMessage, StopRequest, InterruptRequest,
        vars, sched
  <2>2. ASSUME NEW f \in Fin, FinStep(f) PROVE todo' = todo
    BY <2>2
    DEF FinStep, InterruptMark, FinalReject, FinalSignal, FinalMark, FinalDone, sched
  <2>3. ASSUME NEW w \in Worker, WorkerStep(w)
        PROVE  todo' = todo \/ todo' = [todo EXCEPT ![w] = {a \in Agent : Known(a)}]
    BY <2>3
    DEF WorkerStep, Head, Turn, TurnTools, TurnText, TurnEmpty, TurnError, TurnStop,
        Deadline, ToolDone, FinalDeliver, Ending, EndRun, AnswerTooLarge, Unregister,
        RecordFailure, Listing, Snapshot, WorkerOnly, sched
  <2>4. ASSUME NEW s \in Scheduler, PassStep(s)
        PROVE  \/ todo' = [todo EXCEPT ![s] = {}]
               \/ \E a \in Agent : todo' = [todo EXCEPT ![s] = @ \ {a}]
    BY <2>4 DEF PassStep, PassOver, EndPass, PassResume, PassSkip, Visit
  <2>5. CASE DaemonStep
    BY <2>5
    DEF TypeOK, DaemonStep, BeginShutdown, Drained, StopAllList, StopAllFailed,
        ShutdownComplete, Crash, Start, StopAllSkip, StopAllError, StopAllNext, Exit, sched
  <2> QED
    BY <2>1, <2>2, <2>3, <2>4, <2>5 DEF Next, TypeOK
<1> QED
  BY <1>1, <1>2 DEF Listed, Known, TypeOK

LEMMA ListedAlways == Spec => []Listed
<1>1. Init => Listed
  BY DEF Init, Listed
<1> QED
  BY <1>1, TypeCorrect, NextListed, PTL DEF Spec

(* Every step moves each agent along its lifecycle or leaves it alone.     *)
LEMMA StepLife == TypeOK /\ Listed /\ [Next]_vars => [Life!Next]_<<status, run>>
<1> SUFFICES ASSUME TypeOK, Listed, [Next]_vars
             PROVE  Life!Next \/ UNCHANGED <<status, run>>
  OBVIOUS
<1>1. CASE Request
  <2>1. ASSUME NEW a \in Agent, Spawn(a) PROVE Life!Next
    <3> SUFFICES ASSUME NEW b \in Agent PROVE Life!Spawned(b) \/ Life!Stays(b)
      BY DEF Life!Next
    <3> QED
      BY <2>1 DEF Spawn, StartRun, TypeOK, Life!Spawned, Life!Stays
  <2>2. ASSUME NEW a \in Agent, Delete(a) PROVE Life!Next
    <3> SUFFICES ASSUME NEW b \in Agent PROVE Life!Removed(b) \/ Life!Stays(b)
      BY DEF Life!Next
    <3> QED
      BY <2>2 DEF Delete, Terminal, TypeOK, Life!Removed, Life!Ended, Life!Stays
  <2>3. ASSUME NEW a \in Agent, NEW i \in Intent, Enqueue(a, i)
        PROVE  Life!Next \/ UNCHANGED <<status, run>>
    BY <2>3, ResumeLife DEF Enqueue
  <2>4. ASSUME NEW a \in Agent, NEW i \in Intent, CancelMessage(a, i)
        PROVE  UNCHANGED <<status, run>>
    BY <2>4 DEF CancelMessage
  <2>5. ASSUME NEW a \in Agent, NEW f \in Fin, StopRequest(a, f) \/ InterruptRequest(a, f)
        PROVE  UNCHANGED <<status, run>>
    BY <2>5 DEF StopRequest, InterruptRequest, store
  <2> QED
    BY <1>1, <2>1, <2>2, <2>3, <2>4, <2>5 DEF Request
<1>2. ASSUME NEW f \in Fin, FinStep(f)
      PROVE  Life!Next \/ UNCHANGED <<status, run>>
  <2>1. CASE FinalMark(f)
    BY <1>2, <2>1, MarkLife DEF FinalMark, TypeOK, Finalizer, NoFin, Terminal
  <2>2. CASE ~ FinalMark(f)
    BY <1>2, <2>2
    DEF FinStep, InterruptMark, FinalReject, FinalSignal, FinalDone, store
  <2> QED
    BY <2>1, <2>2
<1>3. ASSUME NEW w \in Worker, WorkerStep(w)
      PROVE  Life!Next \/ UNCHANGED <<status, run>>
  <2>1. CASE EndRun(w)
    BY <2>1, WorkerParts, MarkLife DEF EndRun, Terminal
  <2>2. CASE RecordFailure(w)
    BY <2>2, WorkerParts, MarkLife DEF RecordFailure, Terminal
  <2>3. CASE ~ EndRun(w) /\ ~ RecordFailure(w)
    BY <1>3, <2>3
    DEF WorkerStep, Head, Turn, TurnTools, TurnText, TurnEmpty, TurnError, TurnStop,
        Deadline, ToolDone, FinalDeliver, Ending, AnswerTooLarge, Unregister, Listing,
        WorkerOnly, store
  <2> QED
    BY <2>1, <2>2, <2>3
<1>4. ASSUME NEW s \in Scheduler, PassStep(s)
      PROVE  Life!Next \/ UNCHANGED <<status, run>>
  <2>1. ASSUME NEW a \in Agent, PassResume(s, a) PROVE Life!Next
    <3>1. Known(a)
      BY <2>1 DEF PassResume, Visit, Oldest, Known, Listed
    <3> QED
      BY <2>1, <3>1, ResumeLife DEF PassResume
  <2>2. ASSUME NEW a \in Agent, PassSkip(s, a) PROVE UNCHANGED <<status, run>>
    BY <2>2 DEF PassSkip, store
  <2>3. ASSUME PassOver(s) PROVE UNCHANGED <<status, run>>
    BY <2>3 DEF PassOver, store
  <2> QED
    BY <1>4, <2>1, <2>2, <2>3 DEF PassStep
<1>5. CASE DaemonStep
  <2>1. CASE Start
    <3> SUFFICES ASSUME NEW b \in Agent PROVE Life!End(b) \/ Life!Stays(b)
      BY DEF Life!Next
    <3> QED
      BY <2>1 DEF Start, Recovered, TypeOK, Life!End, Life!Ended, Life!Stays
  <2>2. CASE ~ Start
    BY <1>5, <2>2
    DEF DaemonStep, BeginShutdown, Drained, StopAllList, StopAllFailed, ShutdownComplete,
        Crash, StopAllSkip, StopAllError, StopAllNext, Exit, store
  <2> QED
    BY <2>1, <2>2
<1>6. CASE UNCHANGED vars
  BY <1>6 DEF vars, store
<1> QED
  BY <1>1, <1>2, <1>3, <1>4, <1>5, <1>6 DEF Next

(* The manager implements AgentLifecycle: an outcome, once recorded, stays *)
(* until the next run; run numbers go up one by one; deletion is final.    *)
THEOREM Refinement == Spec => FollowsLifecycle
<1>1. Init => Life!Init
  BY DEF Init, Life!Init
<1> QED
  BY <1>1, StepLife, TypeCorrect, ListedAlways, PTL DEF Spec, FollowsLifecycle, Life!Spec

-----------------------------------------------------------------------------
(* No agent is left working without a task that will end its run.          *)

Finalizing(a) == \E f \in Fin : fin[f].pc = "term" /\ fin[f].agent = a

(* The run after the newest has no task yet.                               *)
Fresh ==
  \A a \in Agent :
    /\ status[a] = "none" => run[a] = 0
    /\ \A r \in Run : r > run[a] => pc[<<a, r>>] = "none"

(* The newest run is told to stop only while a finalizer is about to       *)
(* record that, or after it has: a worker that obeys leaves no zombie.     *)
Signalled ==
  \A a \in Agent, r \in Run : stop[<<a, r>>] =>
    /\ pc[<<a, r>>] # "none"
    /\ pc[<<a, r>>] \in Running /\ r = run[a] /\ status[a] = "working" => Finalizing(a)

Runners == Running \cup {"failing", "failmark"}

RunnerInv == NoZombie /\ Fresh /\ Signalled

(* Steps that touch neither tasks nor outcomes.                            *)
LEMMA KeepRunner ==
  ASSUME RunnerInv, UNCHANGED <<status, run, pc, stop>>, daemon' \in Up => daemon \in Up,
         \A a \in Agent : Finalizing(a) => Finalizing(a)'
  PROVE  RunnerInv'
<1>1. NoZombie'
  BY DEF RunnerInv, NoZombie, HasRunner, Finalizing
<1>2. Fresh' /\ Signalled'
  BY DEF RunnerInv, Fresh, Signalled
<1> QED
  BY <1>1, <1>2 DEF RunnerInv

(* A task moves on.  If it stops being a runner, its agent has stopped     *)
(* working or it obeys a signal.                                           *)
LEMMA MoveRunner ==
  ASSUME TypeOK, RunnerInv, NEW w \in Worker, NEW where \in PC, Go(w, where),
         pc[w] # "none", where # "none", UNCHANGED <<run, fin>>,
         daemon' \in Up => daemon \in Up,
         stop' = stop \/ stop' = [stop EXCEPT ![w] = FALSE],
         \A a \in Agent : status'[a] = "working" => status[a] = "working",
         \A a \in Agent : status'[a] = "none" => status[a] = "none",
         where \in Running => pc[w] \in Running,
         \/ where \in Runners
         \/ pc[w] \notin Runners
         \/ status'[Ag(w)] # "working"
         \/ stop[w] /\ pc[w] \in Running
  PROVE  RunnerInv'
<1> USE DEF TypeOK
<1>1. \A v \in Worker : pc'[v] = IF v = w THEN where ELSE pc[v]
  BY DEF Go
<1>2. \A v \in Worker : stop'[v] => stop[v]
  OBVIOUS
<1>3. \A a \in Agent : Finalizing(a)' <=> Finalizing(a)
  BY DEF Finalizing
<1>4. ASSUME NEW a \in Agent, status'[a] = "working", daemon' \in Up
      PROVE  HasRunner(a)'
  <2>1. status[a] = "working" /\ HasRunner(a)
    BY <1>4 DEF RunnerInv, NoZombie
  <2>2. CASE Finalizing(a)
    BY <1>3, <2>2 DEF Finalizing, HasRunner
  <2>3. CASE ~ Finalizing(a)
    <3>1. PICK r \in Run : r = run[a] /\ pc[<<a, r>>] \in Runners
      BY <2>1, <2>3 DEF HasRunner, Finalizing, Runners
    <3>2. <<a, r>> \in Worker
      BY DEF Worker
    <3>3. CASE <<a, r>> # w
      BY <1>1, <3>1, <3>2, <3>3 DEF HasRunner, Runners
    <3>4. CASE <<a, r>> = w
      <4>1. Ag(w) = a
        BY <3>4 DEF Ag
      <4>2. ~ (stop[w] /\ pc[w] \in Running)
        BY <2>1, <2>3, <3>1, <3>4 DEF RunnerInv, Signalled
      <4>3. where \in Runners
        BY <1>4, <3>1, <3>4, <4>1, <4>2
      <4> QED
        BY <1>1, <3>1, <3>2, <3>4, <4>3 DEF HasRunner, Runners
    <3> QED
      BY <3>3, <3>4
  <2> QED
    BY <2>2, <2>3
<1>5. NoZombie'
  BY <1>4 DEF NoZombie
<1>6. Fresh'
  <2>1. ASSUME NEW a \in Agent, NEW r \in Run, r > run[a] PROVE pc'[<<a, r>>] = "none"
    BY <1>1, <2>1 DEF RunnerInv, Fresh, Worker
  <2> QED
    BY <2>1 DEF RunnerInv, Fresh
<1>7. Signalled'
  <2> SUFFICES ASSUME NEW a \in Agent, NEW r \in Run, stop'[<<a, r>>]
               PROVE  /\ pc'[<<a, r>>] # "none"
                      /\ pc'[<<a, r>>] \in Running /\ r = run'[a] /\ status'[a] = "working"
                           => Finalizing(a)'
    BY DEF Signalled
  <2>1. <<a, r>> \in Worker
    BY DEF Worker
  <2> QED
    BY <1>1, <1>2, <1>3, <2>1 DEF RunnerInv, Signalled
<1> QED
  BY <1>5, <1>6, <1>7 DEF RunnerInv

(* A new run has a task of its own, which nobody has signalled.            *)
LEMMA StartRunner ==
  ASSUME TypeOK, RunnerInv, NEW a \in Agent, NEW r \in Run, r = run[a] + 1,
         StartRun(a, r), UNCHANGED <<daemon, stop, fin>>
  PROVE  RunnerInv'
<1> USE DEF TypeOK, StartRun
<1>1. \A b \in Agent : \A q \in Run : <<b, q>> \in Worker
  BY DEF Worker
<1>2. \A b \in Agent : Finalizing(b)' <=> Finalizing(b)
  BY DEF Finalizing
<1>3. pc[<<a, r>>] = "none"
  BY DEF RunnerInv, Fresh
<1>4. NoZombie'
  <2> SUFFICES ASSUME NEW b \in Agent, status'[b] = "working", daemon' \in Up
               PROVE  HasRunner(b)'
    BY DEF NoZombie
  <2>1. CASE b = a
    BY <1>1, <2>1 DEF HasRunner, Running, Owning
  <2>2. CASE b # a
    <3>1. HasRunner(b)
      BY <2>2 DEF RunnerInv, NoZombie
    <3>2. run'[b] = run[b] /\ \A q \in Run : pc'[<<b, q>>] = pc[<<b, q>>]
      BY <1>1, <2>2
    <3> QED
      BY <3>1, <3>2 DEF HasRunner
  <2> QED
    BY <2>1, <2>2
<1>5. Fresh'
  <2> SUFFICES ASSUME NEW b \in Agent
               PROVE  /\ status'[b] = "none" => run'[b] = 0
                      /\ \A q \in Run : q > run'[b] => pc'[<<b, q>>] = "none"
    BY DEF Fresh
  <2>1. CASE b = a
    BY <1>1, <2>1 DEF RunnerInv, Fresh, Run
  <2>2. CASE b # a
    BY <1>1, <2>2 DEF RunnerInv, Fresh
  <2> QED
    BY <2>1, <2>2
<1>6. Signalled'
  <2> SUFFICES ASSUME NEW b \in Agent, NEW q \in Run, stop[<<b, q>>]
               PROVE  /\ pc'[<<b, q>>] # "none"
                      /\ pc'[<<b, q>>] \in Running /\ q = run'[b] /\ status'[b] = "working"
                           => Finalizing(b)
    BY <1>2 DEF Signalled
  <2>1. pc[<<b, q>>] # "none" /\ <<b, q>> # <<a, r>>
    BY <1>3 DEF RunnerInv, Signalled
  <2>2. CASE b = a
    BY <1>1, <2>1, <2>2
  <2>3. CASE b # a
    BY <1>1, <2>1, <2>3 DEF RunnerInv, Signalled
  <2> QED
    BY <2>2, <2>3
<1> QED
  BY <1>4, <1>5, <1>6 DEF RunnerInv

(* The two steps of a finalizer that matter: the signal is given while the *)
(* agent is working and the finalizer has still to record the outcome,     *)
(* which it does before it goes away.                                      *)
LEMMA FinRunner ==
  ASSUME TypeOK, RunnerInv, NEW f \in Fin, FinStep(f)
  PROVE  RunnerInv'
<1> USE DEF TypeOK, Finalizer, FinPC, NoFin
<1>1. CASE InterruptMark(f) \/ FinalReject(f) \/ FinalDone(f)
  <2>1. \A a \in Agent : Finalizing(a) => Finalizing(a)'
    BY <1>1 DEF InterruptMark, FinalReject, FinalDone, EndFin, Finalizing
  <2>2. UNCHANGED <<status, run, pc, stop, daemon>>
    BY <1>1 DEF InterruptMark, FinalReject, FinalDone, store, workers
  <2> QED
    BY <2>1, <2>2, KeepRunner
<1>2. CASE FinalSignal(f)
  <2> DEFINE a == fin[f].agent
             w == <<a, fin[f].run>>
  <2>1. \A b \in Agent : Finalizing(b) => Finalizing(b)'
    BY <1>2 DEF FinalSignal, Finalizing
  <2>2. \A b \in Agent : b = a => Finalizing(b)'
    BY <1>2 DEF FinalSignal, Finalizing
  <2>3. UNCHANGED <<status, run, pc, daemon>>
    BY <1>2 DEF FinalSignal
  <2>4. w \in Worker
    BY <1>2 DEF FinalSignal, Worker
  <2>5. \A v \in Worker : stop'[v] => stop[v] \/ (v = w /\ pc[w] \in Running)
    <3>1. CASE pc[w] \in Running
      <4>1. stop' = [stop EXCEPT ![w] = TRUE]
        BY <1>2, <3>1 DEF FinalSignal
      <4> QED
        BY <2>4, <3>1, <4>1
    <3>2. CASE pc[w] \notin Running
      <4>1. stop' = stop
        BY <1>2, <3>2 DEF FinalSignal
      <4> QED
        BY <4>1
    <3> QED
      BY <3>1, <3>2
  <2>6. NoZombie' /\ Fresh'
    BY <2>1, <2>3 DEF RunnerInv, NoZombie, HasRunner, Finalizing, Fresh
  <2>7. Signalled'
    <3> SUFFICES ASSUME NEW b \in Agent, NEW r \in Run, stop'[<<b, r>>]
                 PROVE  /\ pc[<<b, r>>] # "none"
                        /\ pc[<<b, r>>] \in Running /\ r = run[b] /\ status[b] = "working"
                             => Finalizing(b)'
      BY <2>3 DEF Signalled
    <3>1. CASE stop[<<b, r>>]
      BY <2>1, <3>1 DEF RunnerInv, Signalled
    <3>2. CASE ~ stop[<<b, r>>]
      <4> HIDE DEF w
      <4>1. <<b, r>> = w /\ pc[w] \in Running
        BY <2>5, <3>2 DEF Worker
      <4>2. b = a
        BY <4>1 DEF w
      <4>3. pc[<<b, r>>] # "none"
        BY <4>1 DEF Running, Owning
      <4> QED
        BY <2>2, <4>2, <4>3
    <3> QED
      BY <3>1, <3>2
  <2> QED
    BY <2>6, <2>7 DEF RunnerInv
<1>3. CASE FinalMark(f)
  <2> DEFINE a == fin[f].agent
  <2>1. UNCHANGED <<run, pc, stop, daemon>>
    BY <1>3 DEF FinalMark, workers
  <2>2. a \in Agent /\ status'[a] # "working"
    BY <1>3 DEF FinalMark, Mark
  <2>3. \A b \in Agent : b # a => status'[b] = status[b]
    BY <1>3 DEF FinalMark, Mark
  <2>4. status'[a] = "none" => status[a] = "none"
    BY <1>3 DEF FinalMark, Mark
  <2>5. \A b \in Agent : b # a /\ Finalizing(b) => Finalizing(b)'
    BY <1>3 DEF FinalMark, Finalizing
  <2>6. NoZombie'
    BY <2>1, <2>2, <2>3, <2>5 DEF RunnerInv, NoZombie, HasRunner, Finalizing
  <2>7. Fresh'
    BY <2>1, <2>3, <2>4 DEF RunnerInv, Fresh
  <2>8. Signalled'
    BY <2>1, <2>2, <2>3, <2>5 DEF RunnerInv, Signalled
  <2> QED
    BY <2>6, <2>7, <2>8 DEF RunnerInv
<1> QED
  BY <1>1, <1>2, <1>3 DEF FinStep

LEMMA WorkerRunner ==
  ASSUME TypeOK, RunnerInv, NEW w \in Worker, WorkerStep(w)
  PROVE  RunnerInv'
<1> USE DEF PC, Owning, Running, Runners
<1>0. Ag(w) \in Agent
  BY WorkerParts
<1>1. CASE Head(w)
  BY <1>1, MoveRunner DEF Head
<1>2. CASE Turn(w)
  BY <1>2, MoveRunner
  DEF Turn, TurnTools, TurnText, TurnEmpty, TurnError, TurnStop, Deadline, ToolDone,
      Progress, WorkerOnly, store
<1>3. CASE FinalDeliver(w)
  BY <1>3, MoveRunner DEF FinalDeliver
<1>4. CASE EndRun(w)
  <2>1. /\ status'[Ag(w)] # "working"
        /\ \A a \in Agent : status'[a] = "working" => status[a] = "working"
        /\ \A a \in Agent : status'[a] = "none" => status[a] = "none"
    BY <1>0, <1>4 DEF EndRun, Mark, TypeOK
  <2> QED
    BY <1>4, <2>1, MoveRunner DEF EndRun
<1>5. CASE AnswerTooLarge(w)
  BY <1>5, MoveRunner DEF AnswerTooLarge, WorkerOnly, store
<1>6. CASE Unregister(w)
  BY <1>6, MoveRunner DEF Unregister, store
<1>7. CASE RecordFailure(w)
  <2>1. /\ status'[Ag(w)] # "working"
        /\ \A a \in Agent : status'[a] = "working" => status[a] = "working"
        /\ \A a \in Agent : status'[a] = "none" => status[a] = "none"
    BY <1>0, <1>7 DEF RecordFailure, Mark, TypeOK
  <2> QED
    BY <1>7, <2>1, MoveRunner DEF RecordFailure
<1>8. CASE Listing(w)
  BY <1>8, MoveRunner DEF Listing, store
<1> QED
  BY <1>1, <1>2, <1>3, <1>4, <1>5, <1>6, <1>7, <1>8 DEF WorkerStep, Ending

LEMMA DaemonRunner ==
  ASSUME TypeOK, RunnerInv, DaemonStep
  PROVE  RunnerInv'
<1>1. CASE StopAllFailed \/ ShutdownComplete \/ Crash
  <2>1. Exit("shutdown_failed") \/ Exit("stopped") \/ Exit("crashed")
    BY <1>1 DEF StopAllFailed, ShutdownComplete, Crash
  <2>2. \A a \in Agent, r \in Run : <<a, r>> \in Worker
    BY DEF Worker
  <2>3. NoZombie'
    BY <2>1 DEF Exit, NoZombie, Up
  <2>4. Fresh'
    BY <2>1, <2>2 DEF Exit, RunnerInv, Fresh, store
  <2>5. Signalled'
    BY <2>1, <2>2 DEF Exit, Signalled
  <2> QED
    BY <2>3, <2>4, <2>5 DEF RunnerInv
<1>2. CASE Start
  <2>1. \A a \in Agent : status'[a] # "working" /\ (status'[a] = "none" => status[a] = "none")
    BY <1>2 DEF Start, Recovered, TypeOK
  <2>2. NoZombie'
    BY <2>1 DEF NoZombie
  <2>3. Fresh'
    BY <1>2, <2>1 DEF Start, RunnerInv, Fresh, workers
  <2>4. Signalled'
    BY <1>2, <2>1 DEF Start, RunnerInv, Signalled, workers
  <2> QED
    BY <2>2, <2>3, <2>4 DEF RunnerInv
<1>3. CASE BeginShutdown \/ Drained \/ StopAllList
  BY <1>3, KeepRunner
  DEF BeginShutdown, Drained, StopAllList, Up, Finalizing, store, workers
<1>4. ASSUME NEW a \in Agent, StopAllSkip(a) \/ StopAllError(a) PROVE RunnerInv'
  BY <1>4, KeepRunner DEF StopAllSkip, StopAllError, StoppingAll, Up, Finalizing, store, workers
<1>5. ASSUME NEW a \in Agent, NEW f \in Fin, StopAllNext(a, f) PROVE RunnerInv'
  <2>1. \A b \in Agent : Finalizing(b) => Finalizing(b)'
    BY <1>5 DEF StopAllNext, NewFin, FreeFin, Finalizing, TypeOK
  <2> QED
    BY <1>5, <2>1, KeepRunner DEF StopAllNext, store, workers
<1> QED
  BY <1>1, <1>2, <1>3, <1>4, <1>5 DEF DaemonStep

LEMMA NextRunner == TypeOK /\ Listed /\ RunnerInv /\ [Next]_vars => RunnerInv'
<1> SUFFICES ASSUME TypeOK, Listed, RunnerInv, [Next]_vars PROVE RunnerInv'
  OBVIOUS
<1>1. CASE Request
  <2>1. ASSUME NEW a \in Agent, Spawn(a) PROVE RunnerInv'
    <3>1. 1 \in Run /\ 1 = run[a] + 1
      BY <2>1, MaxRunsAssumption DEF Run, Spawn, RunnerInv, Fresh
    <3> QED
      BY <2>1, <3>1, StartRunner DEF Spawn
  <2>2. ASSUME NEW a \in Agent, NEW i \in Intent, Enqueue(a, i) PROVE RunnerInv'
    <3>1. CASE Wakes(a, i)
      BY <2>2, <3>1, ResumeType, StartRunner DEF Enqueue
    <3>2. CASE ~ Wakes(a, i)
      BY <2>2, <3>2, KeepRunner DEF Enqueue, Finalizing
    <3> QED
      BY <3>1, <3>2
  <2>3. ASSUME NEW a \in Agent, Delete(a) PROVE RunnerInv'
    <3>1. UNCHANGED <<daemon, run, pc, stop, fin>>
      BY <2>3 DEF Delete, workers
    <3>2. \A b \in Agent : /\ status'[b] = "working" => status[b] = "working"
                           /\ status'[b] = "none" => status[b] = "none"
      BY <2>3 DEF Delete, TypeOK
    <3>3. NoZombie'
      BY <3>1, <3>2 DEF RunnerInv, NoZombie, HasRunner
    <3>4. Fresh' /\ Signalled'
      BY <3>1, <3>2 DEF RunnerInv, Fresh, Signalled, Finalizing
    <3> QED
      BY <3>3, <3>4 DEF RunnerInv
  <2>4. ASSUME NEW a \in Agent, NEW i \in Intent, CancelMessage(a, i) PROVE RunnerInv'
    BY <2>4, KeepRunner DEF CancelMessage, workers, Finalizing
  <2>5. ASSUME NEW a \in Agent, NEW f \in Fin, StopRequest(a, f) \/ InterruptRequest(a, f)
        PROVE  RunnerInv'
    <3>1. \A b \in Agent : Finalizing(b) => Finalizing(b)'
      BY <2>5 DEF StopRequest, InterruptRequest, NewFin, FreeFin, Finalizing, TypeOK
    <3> QED
      BY <2>5, <3>1, KeepRunner DEF StopRequest, InterruptRequest, store, workers
  <2> QED
    BY <1>1, <2>1, <2>2, <2>3, <2>4, <2>5 DEF Request
<1>2. ASSUME NEW f \in Fin, FinStep(f) PROVE RunnerInv'
  BY <1>2, FinRunner
<1>3. ASSUME NEW w \in Worker, WorkerStep(w) PROVE RunnerInv'
  BY <1>3, WorkerRunner
<1>4. ASSUME NEW s \in Scheduler, PassStep(s) PROVE RunnerInv'
  <2>1. CASE PassOver(s) /\ s = Boot
    BY <2>1, KeepRunner DEF PassOver, EndPass, Visiting, Up, Finalizing, store
  <2>2. CASE PassOver(s) /\ s # Boot
    <3>1. s \in Worker /\ pc[s] = "visit" /\ Go(s, "done")
      BY <1>4, <2>2 DEF PassOver, EndPass, Visiting, Scheduler
    <3> QED
      BY <2>2, <3>1, MoveRunner
      DEF PassOver, EndPass, PC, Runners, Running, Owning, store
  <2>3. ASSUME NEW a \in Agent, PassResume(s, a) PROVE RunnerInv'
    BY <2>3, ResumeType, StartRunner DEF PassResume
  <2>4. ASSUME NEW a \in Agent, PassSkip(s, a) PROVE RunnerInv'
    BY <2>4, KeepRunner DEF PassSkip, Finalizing, store, workers
  <2> QED
    BY <1>4, <2>1, <2>2, <2>3, <2>4 DEF PassStep
<1>5. CASE DaemonStep
  BY <1>5, DaemonRunner
<1>6. CASE UNCHANGED vars
  BY <1>6, KeepRunner DEF vars, Finalizing, store, workers
<1> QED
  BY <1>1, <1>2, <1>3, <1>4, <1>5, <1>6 DEF Next

(* An agent shown as working has a task or a finalizer that will end its   *)
(* run: no exit of a worker, no stop, interrupt, crash or recovery leaves  *)
(* a zombie, however many runs of the agent overlap.                       *)
THEOREM NoZombieAlways == Spec => []NoZombie
<1>1. Init => RunnerInv
  BY DEF Init, RunnerInv, NoZombie, Fresh, Signalled, Worker
<1>2. RunnerInv => NoZombie
  BY DEF RunnerInv
<1> QED
  BY <1>1, <1>2, TypeCorrect, ListedAlways, NextRunner, PTL DEF Spec

-----------------------------------------------------------------------------
(* Pending follow-ups.                                                     *)

(* The task of w has still to list the agents.                             *)
Lists(w) == pc[w] \in Owning \cup {"failmark", "list"}

(* A pass under way has listed the agent as inactive and will visit it.    *)
Visits(s, a) == Visiting(s) /\ a \in todo[s] /\ a \in idle[s]

Awaited(a) == \/ \E w \in Worker : Lists(w)
              \/ \E s \in Scheduler : Visits(s, a)

Waits(a) == status[a] \in Terminal \ {"interrupted"} /\ "followup" \in pend[a]

Undeleted == \A b \in Agent : status[b] # "deleted"

(* A follow-up that waits on an ended agent will be seen by a pass that is *)
(* under way or to come.                                                   *)
Promised == Accepting /\ Undeleted => \A a \in Agent : Waits(a) => Awaited(a)

(* If there is no free slot, a run is registered: it will make a pass.     *)
LEMMA NoSlotLists ==
  ASSUME TypeOK, Registered, ~HasCapacity
  PROVE  \E w \in Worker : Lists(w)
<1>1. InUse # {}
  <2>1. MaxAgents # 0 /\ ~ (Cardinality(InUse) < MaxAgents)
    BY DEF HasCapacity
  <2>2. ASSUME InUse = {} PROVE FALSE
    <3>1. Cardinality(InUse) = 0
      BY <2>2, FS_EmptySet
    <3> QED
      BY <2>1, <3>1, MaxAgentsAssumption
  <2> QED
    BY <2>2
<1>2. PICK a \in Agent : active[a] # 0
  BY <1>1 DEF InUse
<1>3. active[a] \in Run
  BY <1>2, MaxRunsAssumption DEF TypeOK, Run
<1>4. pc[<<a, active[a]>>] \in Owning /\ <<a, active[a]>> \in Worker
  BY <1>3 DEF Registered, Worker
<1> QED
  BY <1>4 DEF Lists

(* A run that starts will make a pass.                                     *)
LEMMA ResumeLists ==
  ASSUME TypeOK, NEW a \in Agent, NEW r \in Run, StartRun(a, r)
  PROVE  \E w \in Worker : Lists(w)'
<1>1. <<a, r>> \in Worker /\ pc'[<<a, r>>] = "head"
  BY DEF StartRun, Worker, TypeOK
<1> QED
  BY <1>1 DEF Lists, Owning

(* Steps that leave tasks and passes alone, and add no follow-up to an     *)
(* ended agent.                                                            *)
LEMMA PromiseFrame ==
  ASSUME Promised, UNCHANGED <<daemon, pc, todo, idle>>, Undeleted' => Undeleted,
         \A a \in Agent : Waits(a)' => Waits(a)
  PROVE  Promised'
<1> SUFFICES ASSUME Accepting', Undeleted', NEW a \in Agent, Waits(a)' PROVE Awaited(a)'
  BY DEF Promised
<1>1. Awaited(a)
  BY DEF Promised, Accepting
<1> QED
  BY <1>1 DEF Awaited, Lists, Visits, Visiting

LEMMA RequestPromise == TypeOK /\ Registered /\ Promised /\ Request => Promised'
<1> SUFFICES ASSUME TypeOK, Registered, Promised, Request PROVE Promised'
  OBVIOUS
<1>0. ASSUME \E w \in Worker : Lists(w)' PROVE Promised'
  BY <1>0 DEF Promised, Awaited
<1>1. ASSUME NEW a \in Agent, Spawn(a) PROVE Promised'
  <2>1. 1 \in Run
    BY MaxRunsAssumption DEF Run
  <2> QED
    BY <1>0, <1>1, <2>1, ResumeLists DEF Spawn
<1>2. ASSUME NEW a \in Agent, NEW i \in Intent, Enqueue(a, i) PROVE Promised'
  <2>1. CASE Wakes(a, i)
    BY <1>0, <1>2, <2>1, ResumeType, ResumeLists DEF Enqueue
  <2>2. CASE ~Wakes(a, i)
    <3>0. /\ UNCHANGED <<daemon, status, pc, todo, idle>>
          /\ pend' = [pend EXCEPT ![a] = @ \cup {i}]
      BY <1>2, <2>2 DEF Enqueue, sched
    <3>1. CASE HasCapacity
      <4>1. i # "followup" \/ status[a] = "working"
        BY <2>2, <3>1 DEF Wakes
      <4>2. \A b \in Agent : Waits(b)' => Waits(b)
        BY <3>0, <4>1 DEF Waits, Terminal, TypeOK
      <4> QED
        BY <3>0, <4>2, PromiseFrame DEF Undeleted
    <3>2. CASE ~HasCapacity
      <4>1. \E w \in Worker : Lists(w)'
        BY <3>0, <3>2, NoSlotLists DEF Lists
      <4> QED
        BY <1>0, <4>1
    <3> QED
      BY <3>1, <3>2
  <2> QED
    BY <2>1, <2>2
<1>3. ASSUME NEW a \in Agent, Delete(a) PROVE Promised'
  <2>1. status'[a] = "deleted"
    BY <1>3 DEF Delete, TypeOK
  <2> QED
    BY <2>1 DEF Promised, Undeleted
<1>4. ASSUME NEW a \in Agent, NEW i \in Intent, CancelMessage(a, i) PROVE Promised'
  <2>1. /\ UNCHANGED <<daemon, status, pc, todo, idle>>
        /\ pend' = [pend EXCEPT ![a] = @ \ {i}]
    BY <1>4 DEF CancelMessage, workers, sched
  <2>2. \A b \in Agent : Waits(b)' => Waits(b)
    BY <2>1 DEF Waits, TypeOK
  <2> QED
    BY <2>1, <2>2, PromiseFrame DEF Undeleted
<1>5. ASSUME NEW a \in Agent, NEW f \in Fin, StopRequest(a, f) \/ InterruptRequest(a, f)
      PROVE  Promised'
  <2>1. UNCHANGED <<daemon, status, pend, pc, todo, idle>>
    BY <1>5 DEF StopRequest, InterruptRequest, store, workers, sched
  <2> QED
    BY <2>1, PromiseFrame DEF Undeleted, Waits
<1> QED
  BY <1>1, <1>2, <1>3, <1>4, <1>5 DEF Request

(* What a stop ends has nothing pending, and what an interrupt ends is     *)
(* exempt.                                                                 *)
LEMMA FinPromise ==
  ASSUME TypeOK, Locks, Promised, NEW f \in Fin, FinStep(f)
  PROVE  Promised'
<1> USE DEF TypeOK, Finalizer, FinPC, NoFin
<1>1. CASE InterruptMark(f) \/ FinalReject(f) \/ FinalDone(f)
  <2>1. UNCHANGED <<daemon, status, pend, pc, todo, idle>>
    BY <1>1 DEF InterruptMark, FinalReject, FinalDone, store, workers, sched
  <2> QED
    BY <2>1, PromiseFrame DEF Undeleted, Waits
<1>2. CASE FinalSignal(f)
  <2>1. /\ UNCHANGED <<daemon, status, pc, todo, idle>>
        /\ \A b \in Agent : pend'[b] \in {pend[b], {}}
    BY <1>2 DEF FinalSignal, NonePending, sched
  <2>2. \A b \in Agent : Waits(b)' => Waits(b)
    BY <2>1 DEF Waits
  <2> QED
    BY <2>1, <2>2, PromiseFrame DEF Undeleted
<1>3. CASE FinalMark(f)
  <2> DEFINE a == fin[f].agent
             s == IF fin[f].kind = "stop" THEN "stopped" ELSE "interrupted"
  <2>1. /\ UNCHANGED <<daemon, pend, pc, todo, idle>>
        /\ Mark(a, s) /\ a \in Agent
        /\ fin[f].kind = "stop" => pend[a] = {}
    BY <1>3 DEF FinalMark, workers, sched, Locks, LocksHeld
  <2>2. \A b \in Agent : status'[b] = status[b] \/ (b = a /\ status[b] = "working" /\ status'[b] = s)
    BY <2>1 DEF Mark
  <2>3. \A b \in Agent : Waits(b)' => Waits(b)
    BY <2>1, <2>2 DEF Waits
  <2>4. Undeleted' => Undeleted
    BY <2>2 DEF Undeleted
  <2> QED
    BY <2>1, <2>3, <2>4, PromiseFrame
<1> QED
  BY <1>1, <1>2, <1>3 DEF FinStep

(* A task has still to list the agents until it does, and then it has all  *)
(* those that have ended.                                                  *)
LEMMA WorkerPromise ==
  ASSUME TypeOK, Promised, NEW w \in Worker, WorkerStep(w)
  PROVE  Promised'
<1>1. CASE Listing(w)
  <2> SUFFICES ASSUME Accepting', Undeleted', NEW a \in Agent, Waits(a)' PROVE Awaited(a)'
    BY DEF Promised
  <2>1. /\ UNCHANGED <<daemon, status, pend>>
        /\ pc' = [pc EXCEPT ![w] = "visit"] /\ Snapshot(w)
    BY <1>1 DEF Listing, Accepting, Go, store
  <2>2. w \in Scheduler /\ w # Boot
    BY WorkerParts, Numbers DEF Scheduler, Boot, Worker
  <2>3. pc'[w] = "visit" /\ a \in todo'[w] /\ a \in idle'[w]
    BY <2>1, <2>2 DEF TypeOK, Snapshot, Known, Waits, Terminal
  <2> QED
    BY <2>2, <2>3 DEF Awaited, Visits, Visiting
<1>2. CASE ~Listing(w)
  <2>1. pc'[w] \in Owning \cup {"failmark", "list"}
    BY <1>2
    DEF WorkerStep, Head, Turn, TurnTools, TurnText, TurnEmpty, TurnError, TurnStop,
        Deadline, ToolDone, FinalDeliver, Ending, EndRun, AnswerTooLarge, Unregister,
        RecordFailure, Progress, Go, Owning, TypeOK
  <2> QED
    BY <2>1 DEF Promised, Awaited, Lists
<1> QED
  BY <1>1, <1>2

(* A pass leaves an agent out only if a run is registered, which will make *)
(* another pass.                                                           *)
LEMMA PassPromise ==
  ASSUME TypeOK, Registered, Promised, NEW s \in Scheduler, PassStep(s)
  PROVE  Promised'
<1>1. ASSUME NEW b \in Agent, PassResume(s, b) PROVE Promised'
  <2>1. \E w \in Worker : Lists(w)'
    BY <1>1, ResumeType, ResumeLists DEF PassResume
  <2> QED
    BY <2>1 DEF Promised, Awaited
<1>2. ASSUME NEW b \in Agent, PassSkip(s, b) PROVE Promised'
  <2> SUFFICES ASSUME Accepting', Undeleted', NEW a \in Agent, Waits(a)' PROVE Awaited(a)'
    BY DEF Promised
  <2>1. /\ UNCHANGED <<daemon, status, pend, pc>>
        /\ todo' = [todo EXCEPT ![s] = @ \ {b}]
        /\ idle' = [idle EXCEPT ![s] = @ \ {b}]
        /\ b \in idle[s] => "followup" \notin pend[b]
    BY <1>2 DEF PassSkip, Visit, Eligible, store, workers
  <2>2. Waits(a) /\ Awaited(a)
    BY <2>1 DEF Promised, Accepting, Undeleted, Waits
  <2>3. CASE \E w \in Worker : Lists(w)
    BY <2>1, <2>3 DEF Awaited, Lists
  <2>4. ASSUME NEW t \in Scheduler, Visits(t, a) PROVE Awaited(a)'
    <3>1. a # b \/ t # s
      BY <2>1, <2>2, <2>4 DEF Visits, Waits
    <3>2. a \in todo'[t] /\ a \in idle'[t]
      BY <2>1, <2>4, <3>1 DEF Visits, TypeOK
    <3>3. Visiting(t)'
      BY <2>1, <2>4 DEF Visits, Visiting
    <3> QED
      BY <3>2, <3>3 DEF Awaited, Visits
  <2> QED
    BY <2>2, <2>3, <2>4 DEF Awaited
<1>3. ASSUME PassOver(s) PROVE Promised'
  <2> SUFFICES ASSUME Accepting', Undeleted', NEW a \in Agent, Waits(a)' PROVE Awaited(a)'
    BY DEF Promised
  <2>1. /\ UNCHANGED <<status, pend, active>> /\ Visiting(s)
        /\ EndPass(s)
    BY <1>3 DEF PassOver, store, manager
  <2>2. Accepting
    BY <2>1 DEF EndPass, Accepting, Visiting
  <2>3. Waits(a) /\ Undeleted /\ Awaited(a)
    BY <2>1, <2>2 DEF Promised, Undeleted, Waits
  <2>4. ASSUME NEW w \in Worker, Lists(w) PROVE Awaited(a)'
    <3>1. w # s
      BY <2>1, <2>4, WorkerParts, Numbers DEF Visiting, Boot, Lists, Owning
    <3>2. pc'[w] = pc[w]
      BY <2>1, <3>1 DEF EndPass, Go, TypeOK
    <3> QED
      BY <2>4, <3>2 DEF Awaited, Lists
  <2>5. ASSUME NEW t \in Scheduler, t # s, Visits(t, a) PROVE Awaited(a)'
    <3>1. a \in todo'[t] /\ a \in idle'[t]
      BY <2>1, <2>5 DEF EndPass, Visits, TypeOK
    <3>2. Visiting(t)'
      <4>1. CASE t = Boot
        BY <2>1, <2>5, <4>1 DEF EndPass, Visits, Visiting
      <4>2. CASE t # Boot
        <5>1. pc'[t] = pc[t]
          BY <2>1, <2>5, <4>2 DEF EndPass, Go, TypeOK, Scheduler
        <5> QED
          BY <2>5, <4>2, <5>1 DEF Visits, Visiting
      <4> QED
        BY <4>1, <4>2
    <3> QED
      BY <3>1, <3>2 DEF Awaited, Visits
  <2>6. CASE Visits(s, a)
    <3>1. ~HasCapacity
      BY <1>3, <2>2, <2>3, <2>6 DEF PassOver, Visits, Undeleted
    <3>2. \E w \in Worker : Lists(w)
      BY <3>1, NoSlotLists
    <3> QED
      BY <2>4, <3>2
  <2> QED
    BY <2>3, <2>4, <2>5, <2>6 DEF Awaited
<1> QED
  BY <1>1, <1>2, <1>3 DEF PassStep

(* The next process lists all agents when it has recovered them.           *)
LEMMA DaemonPromise == TypeOK /\ Promised /\ DaemonStep => Promised'
<1> SUFFICES ASSUME TypeOK, Promised, DaemonStep PROVE Promised'
  OBVIOUS
<1>1. CASE Start
  <2> SUFFICES ASSUME NEW a \in Agent, Waits(a)' PROVE Awaited(a)'
    BY DEF Promised
  <2>1. status'[a] = Recovered[a] /\ status'[a] \in Terminal
    BY <1>1 DEF Start, Waits
  <2>2. Known(a)
    BY <2>1 DEF Recovered, Known, Terminal
  <2>3. Boot \in Scheduler
    BY DEF Scheduler
  <2>4. a \in todo'[Boot] /\ a \in idle'[Boot] /\ daemon' = "booting"
    BY <1>1, <2>2, <2>3 DEF Start, TypeOK
  <2> QED
    BY <2>3, <2>4 DEF Awaited, Visits, Visiting
<1>2. CASE ~Start
  <2>1. ~Accepting'
    BY <1>2
    DEF DaemonStep, BeginShutdown, Drained, StopAllList, StopAllFailed, ShutdownComplete,
        Crash, Exit, StopAllSkip, StopAllError, StopAllNext, StoppingAll, Accepting
  <2> QED
    BY <2>1 DEF Promised
<1> QED
  BY <1>1, <1>2

LEMMA NextPromise ==
  TypeOK /\ Registered /\ Locks /\ Promised /\ [Next]_vars => Promised'
<1> SUFFICES ASSUME TypeOK, Registered, Locks, Promised, [Next]_vars PROVE Promised'
  OBVIOUS
<1>1. CASE UNCHANGED vars
  <2>1. UNCHANGED <<daemon, status, pend, pc, todo, idle>>
    BY <1>1 DEF vars, store, workers, sched
  <2> QED
    BY <2>1, PromiseFrame DEF Undeleted, Waits
<1> QED
  BY <1>1, RequestPromise, FinPromise, WorkerPromise, PassPromise, DaemonPromise DEF Next

(* When all is quiet, no agent that has ended is left behind with a        *)
(* follow-up: the passes of schedule_pending miss none that a message, an  *)
(* exit or a recovery has left, for any number of agents and any capacity. *)
THEOREM NothingForgottenAlways == Spec => []NothingForgotten
<1>1. Init => Promised
  BY DEF Init, Promised, Accepting
<1>2. Promised => NothingForgotten
  <2> SUFFICES ASSUME Promised, Quiet, Undeleted, NEW a \in Agent, Waits(a) PROVE FALSE
    BY DEF NothingForgotten, Undeleted, Waits
  <2>1. Awaited(a)
    BY DEF Promised, Quiet, Accepting
  <2>2. \A w \in Worker : pc[w] \in {"none", "done"}
    BY DEF Quiet
  <2>3. \A w \in Worker : ~Lists(w)
    BY <2>2 DEF Lists, Owning
  <2>4. \A s \in Scheduler : ~Visiting(s)
    BY <2>2 DEF Visiting, Quiet, Scheduler
  <2> QED
    BY <2>1, <2>3, <2>4 DEF Awaited, Visits
<1> QED
  BY <1>1, <1>2, TypeCorrect, RegisteredAlways, LocksAlways, NextPromise, PTL DEF Spec
=============================================================================
