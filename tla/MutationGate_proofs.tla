------------------------ MODULE MutationGate_proofs ------------------------
(***************************************************************************)
(* Proofs about MutationGate: the counter is exact, and the gate keeps the *)
(* promise of DrainingGate, for any finite sets of clients and finalizers. *)
(***************************************************************************)
EXTENDS MutationGate, FiniteSetTheorems, TLAPS

(* The set of the tasks that count is finite, so it has a cardinality.     *)
LEMMA TaskFinite == IsFiniteSet(Task) /\ IsFiniteSet(Counted)
<1>1. IsFiniteSet(Task)
  BY TasksAssumption, FS_Union DEF Task
<1>2. Counted \in SUBSET Task
  BY DEF Counted
<1> QED
  BY <1>1, <1>2, FS_Subset

(* A task that counts itself adds one to the number of those that count.   *)
LEMMA CountedIn ==
  ASSUME NEW p \in Task, NEW where \in Counts,
         pc[p] \notin Counts, pc \in [Task -> PC], Go(p, where)
  PROVE  Cardinality(Counted') = Cardinality(Counted) + 1
<1>1. Counted' = Counted \cup {p}
  BY DEF Counted, Counts, Go
<1>2. p \notin Counted
  BY DEF Counted
<1> QED
  BY <1>1, <1>2, TaskFinite, FS_AddElement

(* A task that counts itself out takes one away.                           *)
LEMMA CountedOut ==
  ASSUME NEW p \in Task, NEW where \in PC \ Counts,
         pc[p] \in Counts, pc \in [Task -> PC], Go(p, where)
  PROVE  Cardinality(Counted') = Cardinality(Counted) - 1
<1>1. Counted' = Counted \ {p}
  BY DEF Counted, Counts, Go, PC
<1>2. p \in Counted
  BY DEF Counted
<1> QED
  BY <1>1, <1>2, TaskFinite, FS_RemoveElement

(* A task that stays on the same side changes nothing.                     *)
LEMMA CountedSame ==
  ASSUME NEW p \in Task, NEW where \in PC,
         pc[p] \in Counts <=> where \in Counts, pc \in [Task -> PC], Go(p, where)
  PROVE  Counted' = Counted
BY DEF Counted, Go

-----------------------------------------------------------------------------

(* The inductive invariant.  The waiter starts only when the gate is       *)
(* closed, and from its return on no permit of a request is held.          *)
Safe ==
  /\ waiter # "away" => ~ accepting
  /\ waiter = "returned" => \A p \in Task : pc[p] # "held"

Inv == TypeOK /\ CounterExact /\ Safe

LEMMA InitInv == Init => Inv
<1> SUFFICES ASSUME Init PROVE Inv
  OBVIOUS
<1>1. TypeOK
  BY DEF Init, TypeOK, PC, Waiter
<1>2. Counted = {}
  BY DEF Init, Counted, Counts
<1>3. CounterExact
  BY <1>2, FS_EmptySet DEF CounterExact, Init
<1>4. Safe
  BY DEF Safe, Init
<1> QED
  BY <1>1, <1>3, <1>4 DEF Inv

(* Every step keeps the invariant, action by action.                       *)
LEMMA NextInv == Inv /\ [Next]_vars => Inv'
<1> SUFFICES ASSUME Inv, [Next]_vars PROVE Inv'
  OBVIOUS
<1> USE DEF Inv, TypeOK, CounterExact, Safe, Waiter
<1>0. Cardinality(Counted) \in Nat
  BY TaskFinite, FS_CardinalityType
<1>1. ASSUME NEW c \in Client, Load(c) PROVE Inv'
  <2>1. c \in Task
    BY DEF Task
  <2>2. Counted' = Counted
    BY <1>1, <2>1, CountedSame DEF Load, Counts, PC
  <2> QED
    BY <1>1, <2>1, <2>2 DEF Load, Go, PC
<1>2. ASSUME NEW c \in Client, Add(c) PROVE Inv'
  <2>1. c \in Task
    BY DEF Task
  <2>2. Cardinality(Counted') = Cardinality(Counted) + 1
    BY <1>2, <2>1, CountedIn DEF Add, Counts
  <2> QED
    BY <1>0, <1>2, <2>1, <2>2 DEF Add, Go, PC
<1>3. ASSUME NEW c \in Client, Recheck(c) PROVE Inv'
  <2>1. c \in Task
    BY DEF Task
  <2>2. Counted' = Counted
    BY <1>3, <2>1, CountedSame DEF Recheck, Counts, PC
  <2> QED
    BY <1>3, <2>1, <2>2 DEF Recheck, Go, PC
<1>4. ASSUME NEW c \in Client, NEW f \in Finalizer, Track(c, f) PROVE Inv'
  <2>1. c \in Task /\ f \in Task
    BY DEF Task
  <2>2. Cardinality(Counted') = Cardinality(Counted) + 1
    BY <1>4, <2>1, CountedIn DEF Track, Counts
  <2>3. waiter # "returned"
    BY <1>4, <2>1 DEF Track
  <2> QED
    BY <1>0, <1>4, <2>1, <2>2, <2>3 DEF Track, Go, PC
<1>5. ASSUME NEW f \in Finalizer, TrackClosing(f) PROVE Inv'
  <2>1. f \in Task
    BY DEF Task
  <2>2. Cardinality(Counted') = Cardinality(Counted) + 1
    BY <1>5, <2>1, CountedIn DEF TrackClosing, Counts
  <2> QED
    BY <1>0, <1>5, <2>1, <2>2 DEF TrackClosing, Go, PC
<1>6. ASSUME NEW p \in Task, Release(p) PROVE Inv'
  <2>1. pc[p] \in Counts
    BY <1>6 DEF Release, Counts
  <2>2. Cardinality(Counted') = Cardinality(Counted) - 1
    <3> DEFINE where == IF active = 1 THEN "notify" ELSE "idle"
    <3>1. where \in PC \ Counts
      BY DEF PC, Counts
    <3>2. Go(p, where)
      BY <1>6 DEF Release
    <3> QED
      BY <2>1, <3>1, <3>2, CountedOut
  <2>3. Cardinality(Counted) # 0
    BY <2>1, TaskFinite, FS_EmptySet DEF Counted
  <2> QED
    BY <1>0, <1>6, <2>2, <2>3 DEF Release, Go, PC
<1>7. ASSUME NEW p \in Task, Notify(p) PROVE Inv'
  <2>1. Counted' = Counted
    BY <1>7, CountedSame DEF Notify, Counts, PC
  <2> QED
    BY <1>7, <2>1 DEF Notify, Go, PC
<1>8. CASE BeginShutdown
  BY <1>8 DEF BeginShutdown, Counted
<1>9. CASE Arm
  BY <1>9 DEF Arm, Counted
<1>10. CASE Check
  <2>1. ASSUME active = 0 PROVE \A p \in Task : pc[p] # "held"
    <3>1. Counted = {}
      BY <2>1, TaskFinite, FS_EmptySet
    <3> QED
      BY <3>1 DEF Counted, Counts
  <2> QED
    BY <1>10, <2>1 DEF Check, Counted
<1>11. CASE UNCHANGED vars
  BY <1>11 DEF vars, Counted
<1> QED
  BY <1>1, <1>2, <1>3, <1>4, <1>5, <1>6, <1>7, <1>8, <1>9, <1>10, <1>11 DEF Next

(* In every reachable state the inductive invariant holds.                 *)
THEOREM Invariance == Spec => []Inv
BY InitInv, NextInv, PTL DEF Spec

(* The variables have their types.                                         *)
THEOREM TypeCorrect == Spec => []TypeOK
<1>1. Inv => TypeOK
  BY DEF Inv
<1> QED
  BY <1>1, Invariance, PTL

(* The counter is exact: neither the refused requests of begin_mutation    *)
(* nor the finalizers, whose permits outlive the request's, disturb it.    *)
THEOREM Exact == Spec => []CounterExact
<1>1. Inv => CounterExact
  BY DEF Inv
<1> QED
  BY <1>1, Invariance, PTL

-----------------------------------------------------------------------------

(* Initially the gate is open and empty.                                   *)
LEMMA InitMaps == Init => Gate!Init
BY DEF Init, Gate!Init, Task

(* Every step of the implementation is a step of DrainingGate or leaves    *)
(* its variables alone.                                                    *)
LEMMA StepMaps ==
  Inv /\ [Next]_vars
    => [Gate!Next]_<<accepting, {p \in Task : pc[p] = "held"}, waiter = "returned">>
<1> DEFINE inside == {p \in Task : pc[p] = "held"}
           drained == waiter = "returned"
<1> SUFFICES ASSUME Inv, [Next]_vars
             PROVE  Gate!Next \/ UNCHANGED <<accepting, inside, drained>>
  OBVIOUS
<1> USE DEF Inv, TypeOK, Gate!Next
<1>1. ASSUME NEW c \in Client, Load(c) \/ Add(c)
      PROVE  UNCHANGED <<accepting, inside, drained>>
  BY <1>1 DEF Load, Add, Go, Task
<1>2. ASSUME NEW c \in Client, Recheck(c)
      PROVE  Gate!Enter(c) \/ UNCHANGED <<accepting, inside, drained>>
  <2>1. CASE accepting
    <3>1. inside' = inside \cup {c}
      BY <1>2, <2>1 DEF Recheck, Go, Task
    <3> QED
      BY <1>2, <2>1, <3>1 DEF Recheck, Gate!Enter
  <2>2. CASE ~ accepting
    BY <1>2, <2>2 DEF Recheck, Go, Task
  <2> QED
    BY <2>1, <2>2
<1>3. ASSUME NEW c \in Client, NEW f \in Finalizer, Track(c, f)
      PROVE  Gate!LetIn(f)
  <2>1. inside' = inside \cup {f}
    BY <1>3 DEF Track, Go, Task
  <2>2. c \in inside
    BY <1>3 DEF Track, Task
  <2> QED
    BY <1>3, <2>1, <2>2 DEF Track, Gate!LetIn
<1>4. ASSUME NEW f \in Finalizer, TrackClosing(f)
      PROVE  UNCHANGED <<accepting, inside, drained>>
  BY <1>4 DEF TrackClosing, Go, Task
<1>5. ASSUME NEW p \in Task, Release(p)
      PROVE  Gate!Leave(p)
  <2>1. inside' = inside \ {p}
    BY <1>5 DEF Release, Go
  <2> QED
    BY <1>5, <2>1 DEF Release, Gate!Leave
<1>6. ASSUME NEW p \in Task, Notify(p)
      PROVE  UNCHANGED <<accepting, inside, drained>>
  BY <1>6 DEF Notify, Go
<1>7. ASSUME BeginShutdown PROVE Gate!Close
  BY <1>7 DEF BeginShutdown, Gate!Close
<1>8. ASSUME Arm PROVE UNCHANGED <<accepting, inside, drained>>
  BY <1>8 DEF Arm
<1>9. ASSUME Check PROVE Gate!Drain \/ UNCHANGED <<accepting, inside, drained>>
  <2>1. CASE active = 0
    <3>1. Counted = {}
      BY <2>1, TaskFinite, FS_EmptySet DEF CounterExact
    <3>2. inside = {}
      BY <3>1 DEF Counted, Counts
    <3>3. ~ accepting
      BY <1>9 DEF Check, Safe
    <3> QED
      BY <1>9, <2>1, <3>2, <3>3 DEF Check, Gate!Drain
  <2>2. CASE active # 0
    BY <1>9, <2>2 DEF Check
  <2> QED
    BY <2>1, <2>2
<1>10. CASE UNCHANGED vars
  BY <1>10 DEF vars
<1> QED
  BY <1>1, <1>2, <1>3, <1>4, <1>5, <1>6, <1>7, <1>8, <1>9, <1>10 DEF Next, Task

(* The gate implements DrainingGate: no request enters a closed gate, and  *)
(* the shutdown never overtakes a mutation that was accepted.              *)
THEOREM Refinement == Spec => KeepsPromise
<1>1. Inv /\ [Next]_vars
        => [Gate!Next]_<<accepting, {p \in Task : pc[p] = "held"}, waiter = "returned">>
  BY StepMaps
<1> QED
  BY <1>1, InitMaps, Invariance, PTL DEF Spec, KeepsPromise, Gate!Spec
=============================================================================
