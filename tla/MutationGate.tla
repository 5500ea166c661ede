---------------------------- MODULE MutationGate ----------------------------
(***************************************************************************)
(* The mutation gate of the daemon (MutationGate, begin_mutation, the drop *)
(* of a MutationPermit, track_internal_mutation, begin_shutdown and        *)
(* wait_for_mutations in src/src/agent.rs), one action per atomic access.  *)
(* Every client may send any number of requests, one after the other.      *)
(*                                                                         *)
(* The atomics are taken as sequentially consistent: begin_mutation counts *)
(* itself by a read-modify-write and then reads `accepting` again, and the *)
(* shutdown stores `accepting` long before its waiter reads the counter.   *)
(***************************************************************************)
EXTENDS Naturals, FiniteSets

CONSTANTS
  Client,     \* tasks that serve mutating requests
  Finalizer   \* tasks that requests leave behind (stop, interrupt, delete)

ASSUME TasksAssumption ==
  IsFiniteSet(Client) /\ IsFiniteSet(Finalizer) /\ Client \cap Finalizer = {}

Task == Client \cup Finalizer

VARIABLES
  accepting,  \* new requests are accepted
  active,     \* the number of permits, as counted
  pc,         \* where each task is
  waiter,     \* where wait_for_mutations is
  woken       \* notify_waiters has been called since the waiter's notified()

vars == <<accepting, active, pc, waiter, woken>>

(***************************************************************************)
(* A client has read `accepting` (loaded), has counted itself (counted)    *)
(* and holds a permit (held) or takes its count back (refused).  The       *)
(* finalizers that stop_all starts are closing.  A task that has brought   *)
(* the counter to zero still has to notify.                                *)
(***************************************************************************)
PC     == {"idle", "loaded", "counted", "refused", "held", "closing", "notify"}
Waiter == {"away", "armed", "asleep", "returned"}

Counts == {"counted", "refused", "held", "closing"}

TypeOK ==
  /\ accepting \in BOOLEAN
  /\ active \in Nat
  /\ pc \in [Task -> PC]
  /\ waiter \in Waiter
  /\ woken \in BOOLEAN

-----------------------------------------------------------------------------

Go(p, where) == pc' = [pc EXCEPT ![p] = where]

Load(c) ==
  /\ pc[c] = "idle"
  /\ accepting
  /\ Go(c, "loaded")
  /\ UNCHANGED <<accepting, active, waiter, woken>>

Add(c) ==
  /\ pc[c] = "loaded"
  /\ active' = active + 1
  /\ Go(c, "counted")
  /\ UNCHANGED <<accepting, waiter, woken>>

(* A mutant of Recheck: the second look at `accepting` is left out.        *)
RecheckNot(c) ==
  /\ pc[c] = "counted"
  /\ Go(c, "held")
  /\ UNCHANGED <<accepting, active, waiter, woken>>

Recheck(c) ==
  /\ pc[c] = "counted"
  /\ Go(c, IF accepting THEN "held" ELSE "refused")
  /\ UNCHANGED <<accepting, active, waiter, woken>>

(* A request in progress hands a permit of its own to a finalizer.         *)
Track(c, f) ==
  /\ pc[c] = "held"
  /\ pc[f] = "idle"
  /\ active' = active + 1
  /\ Go(f, "held")
  /\ UNCHANGED <<accepting, waiter, woken>>

(* stop_all, after the wait, stops what is still active.                   *)
TrackClosing(f) ==
  /\ waiter = "returned"
  /\ pc[f] = "idle"
  /\ active' = active + 1
  /\ Go(f, "closing")
  /\ UNCHANGED <<accepting, waiter, woken>>

(* Mutants of Release: a refused request counts itself out and drops its   *)
(* permit as well; it forgets to count itself out, or to notify.           *)
ReleaseTwice(p) ==
  /\ pc[p] \in {"refused", "held", "closing"}
  /\ active' = IF pc[p] = "refused" THEN active - 2 ELSE active - 1
  /\ Go(p, IF active' = 0 THEN "notify" ELSE "idle")
  /\ UNCHANGED <<accepting, waiter, woken>>

ReleasePermits(p) ==
  /\ pc[p] \in {"refused", "held", "closing"}
  /\ active' = IF pc[p] = "refused" THEN active ELSE active - 1
  /\ Go(p, IF active' = 0 THEN "notify" ELSE "idle")
  /\ UNCHANGED <<accepting, waiter, woken>>

ReleaseSilently(p) ==
  /\ pc[p] \in {"refused", "held", "closing"}
  /\ active' = active - 1
  /\ Go(p, IF active = 1 /\ pc[p] # "refused" THEN "notify" ELSE "idle")
  /\ UNCHANGED <<accepting, waiter, woken>>

(* fetch_sub, in the drop of a permit and in begin_mutation.               *)
Release(p) ==
  /\ pc[p] \in {"refused", "held", "closing"}
  /\ active' = active - 1
  /\ Go(p, IF active = 1 THEN "notify" ELSE "idle")
  /\ UNCHANGED <<accepting, waiter, woken>>

Notify(p) ==
  /\ pc[p] = "notify"
  /\ woken' = TRUE
  /\ Go(p, "idle")
  /\ UNCHANGED <<accepting, active, waiter>>

BeginShutdown ==
  /\ accepting' = FALSE
  /\ UNCHANGED <<active, pc, waiter, woken>>

(* The waiter makes its notified() future before it reads the counter.     *)
Arm ==
  /\ \/ waiter = "away" /\ ~ accepting
     \/ waiter = "asleep" /\ woken
  /\ waiter' = "armed"
  /\ woken' = FALSE
  /\ UNCHANGED <<accepting, active, pc>>

Check ==
  /\ waiter = "armed"
  /\ waiter' = IF active = 0 THEN "returned" ELSE "asleep"
  /\ UNCHANGED <<accepting, active, pc, woken>>

-----------------------------------------------------------------------------

Init ==
  /\ accepting = TRUE
  /\ active = 0
  /\ pc = [p \in Task |-> "idle"]
  /\ waiter = "away"
  /\ woken = FALSE

Next ==
  \/ \E c \in Client : Load(c) \/ Add(c) \/ Recheck(c)
  \/ \E c \in Client, f \in Finalizer : Track(c, f)
  \/ \E f \in Finalizer : TrackClosing(f)
  \/ \E p \in Task : Release(p) \/ Notify(p)
  \/ BeginShutdown
  \/ Arm
  \/ Check

Spec == Init /\ [][Next]_vars

(***************************************************************************)
(* Every task is polled, and every mutation ends: for the finalizers that  *)
(* is what FinalizersEnd of AgentManager says.                             *)
(***************************************************************************)
FairSpec ==
  /\ Spec
  /\ \A c \in Client : WF_vars(Add(c)) /\ WF_vars(Recheck(c))
  /\ \A p \in Task : WF_vars(Release(p)) /\ WF_vars(Notify(p))
  /\ WF_vars(Arm)
  /\ WF_vars(Check)

-----------------------------------------------------------------------------

Counted == {p \in Task : pc[p] \in Counts}

(* The counter is the number of tasks that have counted themselves: with   *)
(* it too low a shutdown cuts a mutation off, too high it never ends.      *)
CounterExact == active = Cardinality(Counted)

(* The gate keeps the promise of DrainingGate: what is inside is what      *)
(* holds a permit from before the shutdown.  In particular, a request that *)
(* read `accepting` just before the shutdown and counts itself after the   *)
(* waiter has returned is still refused.                                   *)
Gate == INSTANCE DrainingGate WITH
          open <- accepting,
          inside <- {p \in Task : pc[p] = "held"},
          drained <- waiter = "returned"
KeepsPromise == Gate!Spec

(* The wait ends: the notification of the last permit is not lost between  *)
(* the waiter's look at the counter and its sleep.                         *)
WaitEnds == waiter = "armed" ~> waiter = "returned"
=============================================================================
