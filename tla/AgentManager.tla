---------------------------- MODULE AgentManager ----------------------------
(***************************************************************************)
(* The agent manager of the daemon (src/src/agent.rs): the persisted       *)
(* lifecycle of every agent, the worker task of every run, the finalizer   *)
(* tasks of stop and interrupt, the pass over pending follow-ups that an   *)
(* exiting worker makes, graceful shutdown, crash and recovery.            *)
(*                                                                         *)
(* An action is a stretch of code between two awaits.  The `operations`    *)
(* mutex is a blocking mutex held only inside such a stretch, so it needs  *)
(* no variable; the owner lock of an agent is an async mutex that a        *)
(* finalizer keeps while it terminates the agent's terminals, so it does.  *)
(* A task waits for an owner lock in an action that is not enabled while   *)
(* the lock is held.  Tokio's lock is fair, but a task that is to be       *)
(* served later may simply not have reached the lock yet, so any order of  *)
(* grants is possible.                                                     *)
(*                                                                         *)
(* Abstractions.  What a turn of the model says is one of: tool calls,     *)
(* text, an empty completion, an error.  A deadline may expire at any      *)
(* check.  Terminals can always be terminated, and the disk does not fail. *)
(* The delivery of all pending messages of an agent is one step, and so is *)
(* their cancellation.  Compaction behaves like one more model request.    *)
(* Sides, names, deadlines and activity telemetry are left out.            *)
(***************************************************************************)
EXTENDS Naturals, FiniteSets

CONSTANTS
  NAgents,     \* agents ever spawned, numbered in the order of spawned_at
  MaxRuns,     \* runs of one agent: the bound on run_number
  MaxStarts,   \* runs of all agents: a bound on how often a run is started
  MaxAgents,   \* cfg.file.max_agents; 0 means unlimited
  Intent,      \* the intents of the messages that clients send
  NFinals,     \* stop and interrupt finalizers alive at once
  CanStop,     \* whether the daemon may be told to shut down
  CanCrash     \* whether the daemon process may be killed

ASSUME NAgentsAssumption   == NAgents \in Nat
ASSUME MaxRunsAssumption   == MaxRuns \in Nat \ {0}
ASSUME MaxStartsAssumption == MaxStarts \in Nat
ASSUME MaxAgentsAssumption == MaxAgents \in Nat
ASSUME IntentAssumption    == Intent \subseteq {"message", "followup"}
ASSUME NFinalsAssumption   == NFinals \in Nat
ASSUME CanStopAssumption   == CanStop \in BOOLEAN
ASSUME CanCrashAssumption  == CanCrash \in BOOLEAN

Agent  == 1 .. NAgents
Run    == 1 .. MaxRuns
Fin    == 1 .. NFinals
Worker == Agent \X Run

(***************************************************************************)
(* The pass over pending follow-ups runs at the end of every worker task,  *)
(* and once in the daemon's main task when it boots.                       *)
(***************************************************************************)
Boot      == <<0, 0>>
Scheduler == Worker \cup {Boot}

VARIABLES
  daemon,    \* phase of the process, and how the last one ended
  status,    \* metadata.status of each agent, on disk
  run,       \* metadata.run_number, on disk
  pend,      \* the intents of the pending messages of each agent, on disk
  active,    \* the run whose AgentControl is in `active`, 0 if none
  stopping,  \* stopping_agents
  locked,    \* agents whose owner lock a finalizer holds
  pc,        \* where the worker task of each run is
  stop,      \* the stop flag (watch channel) of each run
  todo,      \* agents a scheduling pass has listed and not yet visited
  idle,      \* those of them whose listed status was not working
  fin,       \* the stop and interrupt finalizers
  ids        \* what daemon shutdown has listed and not yet stopped

store   == <<status, run, pend>>
manager == <<active, stopping, locked>>
workers == <<pc, stop>>
sched   == <<todo, idle>>
vars    == <<daemon, store, manager, workers, sched, fin, ids>>

Terminal == {"interrupted", "finished", "stopped", "failed"}
Status   == {"none", "working", "deleted"} \cup Terminal

(***************************************************************************)
(* The worker task is in its loop (head .. timeup), has returned from      *)
(* run_worker (exit: Ok, failing: Err) and still owns its entry in         *)
(* `active`, or has given it up (failmark: about to record the error).     *)
(* From list on it has signalled `completed` and makes a scheduling pass.  *)
(***************************************************************************)
Owning == {"head", "model", "tool", "final", "ending", "timeup", "exit", "failing"}
Running == Owning \ {"exit", "failing"}
PC     == {"none", "failmark", "list", "visit", "done"} \cup Owning

FinPC  == {"check", "lock", "term", "wait"}
Up     == {"booting", "running", "draining", "stopall", "stopallerr"}
Down   == {"stopped", "shutdown_failed", "crashed"}

(* A finalizer serves one run of one agent; a free one has no task.        *)
NoFin  == [pc |-> "free", kind |-> "stop", agent |-> 0, run |-> 0]
Finalizer == [pc : FinPC, kind : {"stop", "interrupt"}, agent : Agent, run : Run]

TypeOK ==
  /\ daemon \in Up \cup Down
  /\ status \in [Agent -> Status]
  /\ run \in [Agent -> 0 .. MaxRuns]
  /\ pend \in [Agent -> SUBSET Intent]
  /\ active \in [Agent -> 0 .. MaxRuns]
  /\ stopping \in SUBSET Agent
  /\ locked \in SUBSET Agent
  /\ pc \in [Worker -> PC]
  /\ stop \in [Worker -> BOOLEAN]
  /\ todo \in [Scheduler -> SUBSET Agent]
  /\ idle \in [Scheduler -> SUBSET Agent]
  /\ fin \in [Fin -> {NoFin} \cup Finalizer]
  /\ ids \in SUBSET Agent

-----------------------------------------------------------------------------
(* Helpers.                                                                *)

(* The gate accepts new work until begin_shutdown.                         *)
Accepting == daemon \in {"booting", "running"}

(* A request in progress: accepted now, or before the shutdown began.      *)
Serving == daemon \in {"running", "draining"}

Known(a)   == status[a] \notin {"none", "deleted"}
InUse      == {a \in Agent : active[a] # 0}
(* A mutant of HasCapacity: one agent too many.                            *)
HasCapacityOffByOne == MaxAgents = 0 \/ Cardinality(InUse) <= MaxAgents

HasCapacity == MaxAgents = 0 \/ Cardinality(InUse) < MaxAgents

(* No pending message of the agent is left: all are delivered or cancelled. *)
NonePending(a) == [pend EXCEPT ![a] = {}]

(* The completed watch channel of a run.                                   *)
Completed(w) == pc[w] \in {"list", "visit", "done"}

Go(w, where) == pc' = [pc EXCEPT ![w] = where]

(* A mutant of Mark: the outcome is recorded whatever the status is.       *)
MarkAlways(a, s) == status' = [status EXCEPT ![a] = s]

(* mark_finished, mark_stopped, mark_interrupted and mark_failed: the      *)
(* transition happens only if the agent is working, whatever its run.      *)
Mark(a, s) ==
  status' = IF status[a] = "working" THEN [status EXCEPT ![a] = s] ELSE status

(* start_worker: register the control of the next run and start its task.  *)
(* MaxStarts bounds how often that happens.                                *)
StartRun(a, r) ==
  /\ Cardinality({w \in Worker : pc[w] # "none"}) < MaxStarts
  /\ status' = [status EXCEPT ![a] = "working"]
  /\ run' = [run EXCEPT ![a] = r]
  /\ active' = [active EXCEPT ![a] = r]
  /\ pc' = [pc EXCEPT ![<<a, r>>] = "head"]

(* resume_pending, for which MaxRuns bounds run_number.                    *)
Resume(a) ==
  /\ run[a] < MaxRuns
  /\ StartRun(a, run[a] + 1)

-----------------------------------------------------------------------------
(* Client requests.                                                        *)

Spawn(a) ==
  /\ Serving
  /\ HasCapacity
  /\ status[a] = "none"
  /\ \A b \in Agent : b < a => status[b] # "none"
  /\ StartRun(a, 1)
  /\ UNCHANGED <<daemon, pend, stopping, locked, stop, sched, fin, ids>>

(* enqueue_agent_input stores the message, then wakes the agent if the     *)
(* intent is followup, the agent is not working and there is a free slot.  *)
Wakes(a, i) == status[a] # "working" /\ i = "followup" /\ HasCapacity

Enqueue(a, i) ==
  /\ Serving
  /\ a \notin locked
  /\ a \notin stopping
  /\ Known(a)
  /\ pend' = [pend EXCEPT ![a] = @ \cup {i}]
  /\ IF Wakes(a, i) THEN Resume(a) ELSE UNCHANGED <<status, run, active, pc>>
  /\ UNCHANGED <<daemon, stopping, locked, stop, sched, fin, ids>>

(* One message is cancelled; here, the last pending one of its intent.     *)
CancelMessage(a, i) ==
  /\ Serving
  /\ a \notin locked
  /\ Known(a)
  /\ i \in pend[a]
  /\ pend' = [pend EXCEPT ![a] = @ \ {i}]
  /\ UNCHANGED <<daemon, status, run, manager, workers, sched, fin, ids>>

(* delete_agent removes the directory, the pending messages with it.       *)
Delete(a) ==
  /\ Serving
  /\ a \notin locked
  /\ status[a] \in Terminal
  /\ status' = [status EXCEPT ![a] = "deleted"]
  /\ pend' = NonePending(a)
  /\ UNCHANGED <<daemon, run, manager, workers, sched, fin, ids>>

-----------------------------------------------------------------------------
(* Stop and interrupt.  The request takes the control of the active run,   *)
(* marks the agent as stopping and leaves the rest to a finalizer task.    *)

FreeFin(f) == fin[f].pc = "free" /\ \A g \in Fin : g < f => fin[g].pc # "free"

NewFin(f, a, k, where) ==
  /\ FreeFin(f)
  /\ a \notin stopping
  /\ active[a] # 0
  /\ fin' = [fin EXCEPT ![f] = [pc |-> where, kind |-> k, agent |-> a, run |-> active[a]]]

(* stop checks and marks under the operations mutex.                       *)
StopRequest(a, f) ==
  /\ Serving
  /\ NewFin(f, a, "stop", "lock")
  /\ stopping' = stopping \cup {a}
  /\ UNCHANGED <<daemon, store, active, locked, workers, sched, ids>>

(* interrupt takes no operations mutex: another request may run between    *)
(* its check and its mark.                                                 *)
InterruptRequest(a, f) ==
  /\ Serving
  /\ NewFin(f, a, "interrupt", "check")
  /\ UNCHANGED <<daemon, store, manager, workers, sched, ids>>

InterruptMark(f) ==
  /\ fin[f].pc = "check"
  /\ stopping' = stopping \cup {fin[f].agent}
  /\ fin' = [fin EXCEPT ![f].pc = "lock"]
  /\ UNCHANGED <<daemon, store, active, locked, workers, sched, ids>>

EndFin(f) ==
  /\ stopping' = stopping \ {fin[f].agent}
  /\ fin' = [fin EXCEPT ![f] = NoFin]

(* A mutant of FinalReject: the early return forgets stopping_agents.      *)
FinalRejectLeaks(f) ==
  /\ fin[f].pc = "lock"
  /\ fin[f].agent \notin locked
  /\ status[fin[f].agent] # "working"
  /\ fin' = [fin EXCEPT ![f] = NoFin]
  /\ UNCHANGED <<daemon, store, manager, workers, sched, ids>>

(* The finalizer has the owner lock and finds the agent no longer working. *)
FinalReject(f) ==
  /\ fin[f].pc = "lock"
  /\ fin[f].agent \notin locked
  /\ status[fin[f].agent] # "working"
  /\ EndFin(f)
  /\ UNCHANGED <<daemon, store, active, locked, workers, sched, ids>>

(* Mutants of FinalSignal: it does not wait for the owner lock; it leaves  *)
(* the pending messages.                                                   *)
FinalSignalUnlocked(f) ==
  LET a == fin[f].agent  w == <<a, fin[f].run>> IN
  /\ fin[f].pc = "lock"
  /\ status[a] = "working"
  /\ locked' = locked \cup {a}
  /\ pend' = IF fin[f].kind = "stop" THEN NonePending(a) ELSE pend
  /\ stop' = IF pc[w] \in Running THEN [stop EXCEPT ![w] = TRUE] ELSE stop
  /\ fin' = [fin EXCEPT ![f].pc = "term"]
  /\ UNCHANGED <<daemon, status, run, active, stopping, pc, sched, ids>>

FinalSignalOnly(f) ==
  LET a == fin[f].agent  w == <<a, fin[f].run>> IN
  /\ fin[f].pc = "lock"
  /\ a \notin locked
  /\ status[a] = "working"
  /\ locked' = locked \cup {a}
  /\ stop' = IF pc[w] \in Running THEN [stop EXCEPT ![w] = TRUE] ELSE stop
  /\ fin' = [fin EXCEPT ![f].pc = "term"]
  /\ UNCHANGED <<daemon, store, active, stopping, pc, sched, ids>>

(* It cancels the pending messages (stop only), signals the worker and     *)
(* keeps the lock while the terminals are terminated.  The flag of a       *)
(* worker that has left its loop is never read again.                      *)
FinalSignal(f) ==
  LET a == fin[f].agent  w == <<a, fin[f].run>> IN
  /\ fin[f].pc = "lock"
  /\ a \notin locked
  /\ status[a] = "working"
  /\ locked' = locked \cup {a}
  /\ pend' = IF fin[f].kind = "stop" THEN NonePending(a) ELSE pend
  /\ stop' = IF pc[w] \in Running THEN [stop EXCEPT ![w] = TRUE] ELSE stop
  /\ fin' = [fin EXCEPT ![f].pc = "term"]
  /\ UNCHANGED <<daemon, status, run, active, stopping, pc, sched, ids>>

(* A mutant of FinalMark: the lock is kept while waiting for the worker.   *)
FinalMarkKeepsLock(f) ==
  /\ fin[f].pc = "term"
  /\ Mark(fin[f].agent, IF fin[f].kind = "stop" THEN "stopped" ELSE "interrupted")
  /\ fin' = [fin EXCEPT ![f].pc = "wait"]
  /\ UNCHANGED <<daemon, run, pend, manager, workers, sched, ids>>

(* mark_stopped or mark_interrupted, then the lock is dropped.  The agent  *)
(* is still working: whoever else ends it waits for its owner lock, so the *)
(* conflict that the code would report here cannot arise.                  *)
FinalMark(f) ==
  LET a == fin[f].agent IN
  /\ fin[f].pc = "term"
  /\ Mark(a, IF fin[f].kind = "stop" THEN "stopped" ELSE "interrupted")
  /\ locked' = locked \ {a}
  /\ fin' = [fin EXCEPT ![f].pc = "wait"]
  /\ UNCHANGED <<daemon, run, pend, active, stopping, workers, sched, ids>>

(* The worker of the stopped run has signalled `completed`.                *)
FinalDone(f) ==
  /\ fin[f].pc = "wait"
  /\ Completed(<<fin[f].agent, fin[f].run>>)
  /\ EndFin(f)
  /\ UNCHANGED <<daemon, store, active, locked, workers, sched, ids>>

-----------------------------------------------------------------------------
(* The run of a worker (run_worker).                                       *)

Ag(w) == w[1]

(* Progress of a worker is appended to the agent's events, which a         *)
(* non-working agent refuses: the worker then ends with an error.          *)
Progress(w, where) ==
  Go(w, IF status[Ag(w)] = "working" THEN where ELSE "failing")

(* deliver_pending_messages; it fails on a non-working agent that has      *)
(* pending messages and on a deleted one.                                  *)
DeliveryFails(a) == \/ status[a] = "deleted"
                    \/ status[a] # "working" /\ pend[a] # {}
Deliver(a) == pend' = NonePending(a)

Head(w) ==
  /\ pc[w] = "head"
  /\ IF DeliveryFails(Ag(w))
     THEN Go(w, "failing") /\ UNCHANGED pend
     ELSE Go(w, IF stop[w] THEN "exit" ELSE "model") /\ Deliver(Ag(w))
  /\ UNCHANGED <<daemon, status, run, manager, stop, sched, fin, ids>>

WorkerOnly == UNCHANGED <<daemon, store, manager, stop, sched, fin, ids>>

(* A turn of the model.  The select takes the turn or the stop signal in   *)
(* any order when both are there.                                          *)
TurnTools(w) == pc[w] = "model" /\ Progress(w, "tool")  /\ WorkerOnly
TurnText(w)  == pc[w] = "model" /\ Progress(w, "final") /\ WorkerOnly
TurnEmpty(w) ==
  pc[w] = "model" /\ status[Ag(w)] # "deleted" /\ Go(w, "head") /\ WorkerOnly
TurnError(w) == pc[w] = "model" /\ Go(w, "failing")     /\ WorkerOnly
TurnStop(w)  == pc[w] \in {"model", "tool"} /\ stop[w] /\ Go(w, "exit") /\ WorkerOnly
Deadline(w)  == pc[w] = "model" /\ Go(w, "timeup")      /\ WorkerOnly

ToolDone(w) == pc[w] = "tool" /\ Progress(w, "head") /\ WorkerOnly

(* After a text turn, messages that have arrived meanwhile are delivered   *)
(* and the run goes on; otherwise it ends.                                 *)
FinalDeliver(w) ==
  /\ pc[w] = "final"
  /\ IF DeliveryFails(Ag(w))
     THEN Go(w, "failing") /\ UNCHANGED pend
     ELSE Go(w, IF pend[Ag(w)] = {} THEN "ending" ELSE "head") /\ Deliver(Ag(w))
  /\ UNCHANGED <<daemon, status, run, manager, stop, sched, fin, ids>>

(* Under the owner lock: mark_finished, or mark_stopped("wall_time").  The *)
(* metadata of a deleted agent cannot be read.                             *)
EndRun(w) ==
  /\ pc[w] \in {"ending", "timeup"}
  /\ Ag(w) \notin locked
  /\ Mark(Ag(w), IF pc[w] = "ending" THEN "finished" ELSE "stopped")
  /\ Go(w, IF status[Ag(w)] = "deleted" THEN "failing" ELSE "exit")
  /\ UNCHANGED <<daemon, run, pend, manager, stop, sched, fin, ids>>

(* The final answer exceeds a mebibyte.                                    *)
AnswerTooLarge(w) ==
  /\ pc[w] = "ending"
  /\ Ag(w) \notin locked
  /\ Go(w, "failing")
  /\ WorkerOnly

(* A mutant of Unregister: it takes away the entry of a newer run, too.    *)
UnregisterAny(w) ==
  /\ pc[w] \in {"exit", "failing"}
  /\ active' = [active EXCEPT ![Ag(w)] = 0]
  /\ Go(w, IF pc[w] = "failing" THEN "failmark" ELSE "list")
  /\ stop' = [stop EXCEPT ![w] = FALSE]
  /\ UNCHANGED <<daemon, store, stopping, locked, sched, fin, ids>>

(* The task of start_worker after run_worker: the entry of `active` goes   *)
(* only if it is still this run's.                                         *)
Unregister(w) ==
  /\ pc[w] \in {"exit", "failing"}
  /\ active' = IF active[Ag(w)] = w[2] THEN [active EXCEPT ![Ag(w)] = 0] ELSE active
  /\ Go(w, IF pc[w] = "failing" THEN "failmark" ELSE "list")
  /\ stop' = [stop EXCEPT ![w] = FALSE]
  /\ UNCHANGED <<daemon, store, stopping, locked, sched, fin, ids>>

(* A mutant of RecordFailure: a failed worker makes no scheduling pass.    *)
RecordFailureQuits(w) ==
  /\ pc[w] = "failmark"
  /\ Ag(w) \notin locked
  /\ Mark(Ag(w), "failed")
  /\ Go(w, "done")
  /\ UNCHANGED <<daemon, run, pend, manager, stop, sched, fin, ids>>

RecordFailure(w) ==
  /\ pc[w] = "failmark"
  /\ Ag(w) \notin locked
  /\ Mark(Ag(w), "failed")
  /\ Go(w, "list")
  /\ UNCHANGED <<daemon, run, pend, manager, stop, sched, fin, ids>>

-----------------------------------------------------------------------------
(* schedule_pending: the agents and their statuses are listed once; each   *)
(* is then visited under its owner lock, oldest first.                     *)

Snapshot(s) ==
  /\ todo' = [todo EXCEPT ![s] = {a \in Agent : Known(a)}]
  /\ idle' = [idle EXCEPT ![s] = {a \in Agent : status[a] \in Terminal}]

Listing(w) ==
  /\ pc[w] = "list"
  /\ IF Accepting
     THEN Go(w, "visit") /\ Snapshot(w)
     ELSE Go(w, "done") /\ UNCHANGED sched
  /\ UNCHANGED <<daemon, store, manager, stop, fin, ids>>

Oldest(s, a) == a \in todo[s] /\ \A b \in todo[s] : a <= b

(* The pass ends: a worker's task is over, the daemon goes on to serve.    *)
EndPass(s) ==
  /\ todo' = [todo EXCEPT ![s] = {}]
  /\ idle' = [idle EXCEPT ![s] = {}]
  /\ IF s = Boot
     THEN daemon' = (IF daemon = "booting" THEN "running" ELSE daemon) /\ UNCHANGED pc
     ELSE Go(s, "done") /\ UNCHANGED daemon

Visiting(s) == IF s = Boot THEN daemon = "booting" ELSE pc[s] = "visit"

(* No agent is left, no work is accepted any more, there is no free slot,  *)
(* or the messages of an agent deleted since the listing cannot be read.   *)
PassOver(s) ==
  /\ Visiting(s)
  /\ \/ todo[s] = {}
     \/ \E a \in Agent :
          /\ Oldest(s, a)
          /\ a \notin locked
          /\ \/ ~ Accepting
             \/ ~ HasCapacity
             \/ a \in idle[s] /\ status[a] = "deleted"
  /\ EndPass(s)
  /\ UNCHANGED <<store, manager, stop, fin, ids>>

Visit(s, a) ==
  /\ Visiting(s)
  /\ Oldest(s, a)
  /\ a \notin locked
  /\ Accepting
  /\ HasCapacity
  /\ todo' = [todo EXCEPT ![s] = @ \ {a}]
  /\ idle' = [idle EXCEPT ![s] = @ \ {a}]

(* What decides whether the agent is inactive is its listed status.        *)
Eligible(s, a) == a \in idle[s] /\ "followup" \in pend[a]

PassResume(s, a) ==
  /\ Visit(s, a)
  /\ status[a] # "deleted"
  /\ Eligible(s, a)
  /\ Resume(a)
  /\ UNCHANGED <<daemon, pend, stopping, locked, stop, fin, ids>>

PassSkip(s, a) ==
  /\ Visit(s, a)
  /\ a \in idle[s] => status[a] # "deleted"
  /\ ~ Eligible(s, a)
  /\ UNCHANGED <<daemon, store, manager, workers, fin, ids>>

-----------------------------------------------------------------------------
(* The daemon process (serve and stop_all).                                *)

BeginShutdown ==
  /\ CanStop
  /\ daemon = "running"
  /\ daemon' = "draining"
  /\ UNCHANGED <<store, manager, workers, sched, fin, ids>>

(* The connections are joined and the gate has no permit left: no request  *)
(* and no finalizer is in progress.  stop_all lists the active agents.     *)
NoFinals == \A f \in Fin : fin[f].pc = "free"

Drained ==
  /\ daemon = "draining"
  /\ NoFinals
  /\ daemon' = "stopall"
  /\ UNCHANGED <<store, manager, workers, sched, fin, ids>>

StopAllList ==
  /\ daemon = "stopall"
  /\ NoFinals
  /\ ids = {}
  /\ InUse # {}
  /\ ids' = InUse
  /\ UNCHANGED <<daemon, store, manager, workers, sched, fin>>

(* stop_all stops the listed agents one after the other, no matter whether *)
(* an earlier one has failed (stopallerr).                                 *)
StoppingAll(a) ==
  /\ daemon \in {"stopall", "stopallerr"}
  /\ NoFinals
  /\ a \in ids

(* An agent that is not active any more should have ended by itself; one   *)
(* deleted while its task was still there cannot even be looked at.        *)
StopAllNext(a, f) ==
  /\ StoppingAll(a)
  /\ status[a] # "deleted"
  /\ NewFin(f, a, "stop", "lock")
  /\ stopping' = stopping \cup {a}
  /\ ids' = ids \ {a}
  /\ UNCHANGED <<daemon, store, active, locked, workers, sched>>

(* A mutant of StopAllSkip: only a finished agent has ended by itself.     *)
StopAllSkipFinished(a) ==
  /\ StoppingAll(a)
  /\ active[a] = 0
  /\ status[a] = "finished"
  /\ ids' = ids \ {a}
  /\ UNCHANGED <<daemon, store, manager, workers, sched, fin>>

StopAllSkip(a) ==
  /\ StoppingAll(a)
  /\ active[a] = 0
  /\ status[a] \in Terminal
  /\ ids' = ids \ {a}
  /\ UNCHANGED <<daemon, store, manager, workers, sched, fin>>

StopAllError(a) ==
  /\ StoppingAll(a)
  /\ status[a] = "deleted" \/ (active[a] = 0 /\ status[a] = "working")
  /\ daemon' = "stopallerr"
  /\ ids' = ids \ {a}
  /\ UNCHANGED <<store, manager, workers, sched, fin>>

(* The end of the process: the runtime drops every task and all memory.    *)
Exit(how) ==
  /\ daemon' = how
  /\ active' = [a \in Agent |-> 0]
  /\ stopping' = {}
  /\ locked' = {}
  /\ pc' = [w \in Worker |-> IF pc[w] = "none" THEN "none" ELSE "done"]
  /\ stop' = [w \in Worker |-> FALSE]
  /\ todo' = [s \in Scheduler |-> {}]
  /\ idle' = [s \in Scheduler |-> {}]
  /\ fin' = [f \in Fin |-> NoFin]
  /\ ids' = {}
  /\ UNCHANGED store

StopAllFailed ==
  /\ daemon = "stopallerr"
  /\ NoFinals
  /\ ids = {}
  /\ Exit("shutdown_failed")

ShutdownComplete ==
  /\ daemon = "stopall"
  /\ NoFinals
  /\ ids = {}
  /\ InUse = {}
  /\ Exit("stopped")

Crash ==
  /\ CanCrash
  /\ daemon \in Up
  /\ Exit("crashed")

(* Mutants of Recovered: the reason is recorded as the status; nothing is  *)
(* recovered.                                                              *)
RecoveredReason ==
  [a \in Agent |-> IF status[a] = "working" THEN "daemon_interrupted" ELSE status[a]]
RecoveredNothing == status

(* recover_interrupted stops what was persisted as working, then the       *)
(* pending follow-ups are scheduled before the daemon serves.              *)
Recovered == [a \in Agent |-> IF status[a] = "working" THEN "stopped" ELSE status[a]]

Start ==
  /\ daemon \in Down
  /\ daemon' = "booting"
  /\ status' = Recovered
  /\ todo' = [todo EXCEPT ![Boot] = {a \in Agent : Known(a)}]
  /\ idle' = [idle EXCEPT ![Boot] = {a \in Agent : Known(a)}]
  /\ UNCHANGED <<run, pend, manager, workers, fin, ids>>

-----------------------------------------------------------------------------

Init ==
  /\ daemon = "stopped"
  /\ status = [a \in Agent |-> "none"]
  /\ run = [a \in Agent |-> 0]
  /\ pend = [a \in Agent |-> {}]
  /\ active = [a \in Agent |-> 0]
  /\ stopping = {}
  /\ locked = {}
  /\ pc = [w \in Worker |-> "none"]
  /\ stop = [w \in Worker |-> FALSE]
  /\ todo = [s \in Scheduler |-> {}]
  /\ idle = [s \in Scheduler |-> {}]
  /\ fin = [f \in Fin |-> NoFin]
  /\ ids = {}

Request ==
  \/ \E a \in Agent : Spawn(a) \/ Delete(a)
  \/ \E a \in Agent, i \in Intent : Enqueue(a, i) \/ CancelMessage(a, i)
  \/ \E a \in Agent, f \in Fin : StopRequest(a, f) \/ InterruptRequest(a, f)

FinStep(f) ==
  InterruptMark(f) \/ FinalReject(f) \/ FinalSignal(f) \/ FinalMark(f) \/ FinalDone(f)

Turn(w) == \/ TurnTools(w) \/ TurnText(w) \/ TurnEmpty(w) \/ TurnError(w)
           \/ TurnStop(w) \/ Deadline(w) \/ ToolDone(w)

Ending(w) == \/ EndRun(w) \/ AnswerTooLarge(w) \/ Unregister(w) \/ RecordFailure(w)

WorkerStep(w) == Head(w) \/ Turn(w) \/ FinalDeliver(w) \/ Ending(w) \/ Listing(w)

PassStep(s) ==
  PassOver(s) \/ \E a \in Agent : PassResume(s, a) \/ PassSkip(s, a)

DaemonStep ==
  \/ BeginShutdown \/ Drained \/ StopAllList \/ StopAllFailed \/ ShutdownComplete
  \/ Crash \/ Start
  \/ \E a \in Agent : StopAllSkip(a) \/ StopAllError(a)
  \/ \E a \in Agent, f \in Fin : StopAllNext(a, f)

Next ==
  \/ Request
  \/ \E f \in Fin : FinStep(f)
  \/ \E w \in Worker : WorkerStep(w)
  \/ \E s \in Scheduler : PassStep(s)
  \/ DaemonStep

Spec == Init /\ [][Next]_vars

(***************************************************************************)
(* Fairness: the tasks of the daemon are polled by a multi-threaded        *)
(* runtime, so every step that waits for nothing outside the process is    *)
(* eventually taken.  A tool call returns, for its yield time is bounded.  *)
(* Nothing is assumed of clients and of the model server: a turn may never *)
(* come.  Drained needs strong fairness: of the requests accepted before a *)
(* shutdown only finitely many can start another finalizer.                *)
(***************************************************************************)
Prompt(w) ==
  \/ Head(w) \/ TurnStop(w) \/ ToolDone(w) \/ FinalDeliver(w) \/ Ending(w)
  \/ Listing(w) \/ PassStep(w)

StopAll ==
  \/ StopAllList \/ StopAllFailed \/ ShutdownComplete
  \/ \E a \in Agent : StopAllSkip(a) \/ StopAllError(a)
  \/ \E a \in Agent, f \in Fin : StopAllNext(a, f)

Fairness ==
  /\ \A f \in Fin : WF_vars(FinStep(f))
  /\ \A w \in Worker : WF_vars(Prompt(w))
  /\ SF_vars(Drained)
  /\ WF_vars(StopAll)

FairSpec == Spec /\ Fairness

-----------------------------------------------------------------------------
(* Invariants.                                                             *)

(* The entry of an agent in `active` is exactly the control of its newest  *)
(* run, for as long as that run's task has not unregistered: stop reaches  *)
(* the right task and the capacity counts it.  An older run's exit (the    *)
(* run_number check) must not take the entry of a newer one away.          *)
Registered ==
  \A a \in Agent, r \in Run :
    active[a] = r <=> r = run[a] /\ pc[<<a, r>>] \in Owning

(* An agent shown as working has a task that will end its run: its newest  *)
(* run is still in its loop or about to record an error, or a finalizer is *)
(* about to record the stop.                                               *)
HasRunner(a) ==
  \/ \E r \in Run : r = run[a] /\ pc[<<a, r>>] \in Running \cup {"failing", "failmark"}
  \/ \E f \in Fin : fin[f].pc = "term" /\ fin[f].agent = a

NoZombie == \A a \in Agent : status[a] = "working" /\ daemon \in Up => HasRunner(a)

(* The controls in `active` never exceed max_agents, whatever spawns,      *)
(* follow-ups and scheduling passes race for a slot.                       *)
CapacityKept == MaxAgents # 0 => Cardinality(InUse) <= MaxAgents

(* No early return of a finalizer leaves its agent marked as stopping, or  *)
(* its owner lock held: either would refuse or block every later input.    *)
NoLeak ==
  /\ \A a \in stopping : \E f \in Fin : fin[f].agent = a /\ fin[f].pc # "check"
  /\ \A a \in locked : \E f \in Fin : fin[f].agent = a /\ fin[f].pc = "term"

(* Two finalizers of one agent never terminate its terminals at once.      *)
LockExclusive ==
  \A f, g \in Fin :
    fin[f].pc = "term" /\ fin[g].pc = "term" /\ fin[f].agent = fin[g].agent => f = g

(* While nothing runs, an agent that has ended and has a follow-up waiting *)
(* is not left behind with free slots: the last exits have scheduled it.   *)
(* Interrupted agents are exempt (the listing of their worker's pass may   *)
(* be older than the interrupt), and so is a system from which an agent    *)
(* has been deleted (its disappearance aborts a pass).                     *)
Quiet ==
  /\ daemon = "running"
  /\ \A w \in Worker : pc[w] \in {"none", "done"}
  /\ \A f \in Fin : fin[f].pc = "free"

NothingForgotten ==
  Quiet /\ (\A b \in Agent : status[b] # "deleted")
    => \A a \in Agent : status[a] \in Terminal \ {"interrupted"} => "followup" \notin pend[a]

-----------------------------------------------------------------------------
(* Action properties.                                                      *)

(* When stop records the agent as stopped, no message is pending: none of  *)
(* those accepted before the stop survives it, and none slips in while the *)
(* terminals are being terminated.                                         *)
StopSettles ==
  [][\A f \in Fin : fin[f].pc = "term" /\ fin[f].kind = "stop" /\ fin'[f].pc = "wait"
       => pend'[fin[f].agent] = {}]_vars

(* A new run starts only on an agent that is not working.                  *)
ResumesInactive == [][\A a \in Agent : run'[a] # run[a] => status[a] # "working"]_vars

(* A run is recorded as finished, with its final answer, by its own task.  *)
FinishedByItself ==
  [][\A a \in Agent : \A r \in Run :
       status[a] = "working" /\ status'[a] = "finished" /\ r = run[a]
         => pc[<<a, r>>] = "ending" /\ pc'[<<a, r>>] = "exit"]_vars

(* When a stop has succeeded, the run it stopped does nothing more.  The    *)
(* run is the newest one: none can have started since the stop was marked. *)
StopEndsTheRun ==
  [][\A f \in Fin : fin[f].pc = "wait" /\ fin[f].kind = "stop" /\ fin'[f].pc = "free"
       => \A r \in Run : r = run[fin[f].agent] => pc[<<fin[f].agent, r>>] \notin Running]_vars

(* The agents follow the lifecycle that AgentLifecycle specifies.          *)
Life == INSTANCE AgentLifecycle WITH life <- status, runs <- run
FollowsLifecycle == Life!Spec

-----------------------------------------------------------------------------
(* Liveness, under FairSpec.                                               *)

(* Every stop and interrupt comes to an end, whatever the model server and *)
(* the tools do: the finalizer does not wait for the worker with the owner *)
(* lock that the worker needs to record its end.                           *)
FinalizersEnd == \A f \in Fin : fin[f].pc # "free" ~> fin[f].pc = "free"

(* A shutdown that has begun ends the process, if the model server answers *)
(* every request with something else than empty completions for ever (the  *)
(* second empty one in a row is an error).                                 *)
Answering == \A w \in Worker : SF_vars(TurnTools(w) \/ TurnText(w) \/ TurnError(w))
ShutdownEnds == Answering => (daemon = "draining" ~> daemon \in Down)
=============================================================================
