------------------------------ MODULE SideRuns ------------------------------
(***************************************************************************)
(* The Sides of one Agent, from creation to deletion (agent.rs 969-1307,   *)
(* run_side 1348-1538): their workers with their terminals, the finalizers *)
(* that stop them, the finalizer that deletes the parent, and the shutdown *)
(* of the daemon, which stops them all.                                    *)
(*                                                                         *)
(* A finalizer holds the Side's owner lock from its check to its record; a *)
(* worker takes it for each record.  A deletion holds the parent's owner   *)
(* lock throughout, a creation for its one step.  Nothing is held between  *)
(* stop_side's look at stopping_sides and its mark: several finalizers of  *)
(* one Side may be under way.                                              *)
(*                                                                         *)
(* Abstractions.  Contexts, events and notices are left out.  The parent   *)
(* itself does not work: a deletion is refused while it does.  Recovery is *)
(* one step: nothing runs beside it, and what it leaves undone when it is  *)
(* cut short it does at the next start.                                    *)
(***************************************************************************)
EXTENDS Terminals

CONSTANTS
  MaxSides,    \* Sides of one parent that may be working (2)
  Client,      \* the clients that stop Sides
  Stoppable    \* the Sides that clients stop: a bound

ASSUME SidesAssumption == {MaxSides, MaxTerminals, MaxStarted} \subseteq Nat
ASSUME ClientAssumption == Client \cap {"delete", "shutdown"} = {}

VARIABLES
  up,      \* the daemon process is running
  parent,  \* the parent's record is there (disk)
  status,  \* per Side: its record (disk), "none" before, "gone" after
  worker,  \* per Side: where its worker is
  failed,  \* the Sides whose run_side has returned an error, till they unregister
  stop,    \* the Sides whose stop channel has been signalled
  active,  \* active_sides
  stopping,\* stopping_sides
  fin,     \* per Side and caller of stop_side: where the stop is
  reply,   \* per Side: what stop_side has returned to deletion or shutdown
  del,     \* the finalizer that deletes the parent
  shut     \* the shutdown of the daemon

control == <<worker, failed, stop, active, stopping, fin, reply, del, shut>>
vars    == <<up, parent, status, control, terminals>>

Side    == Run
Stopper == Client \cup {"delete", "shutdown"}
Ended   == {"finished", "stopped", "failed"}
NoDel   == [pc |-> "none", todo |-> {}]
Open    == [pc |-> "open", todo |-> {}, errors |-> {}]

TypeOK ==
  /\ TerminalsTypeOK
  /\ up \in BOOLEAN
  /\ parent \in BOOLEAN
  /\ status \in [Side -> {"none", "working", "gone"} \cup Ended]
  /\ worker \in [Side -> {"loop", "model", "call", "tool", "yield", "terminate", "text",
                          "expire", "leave", "kill", "record", "done"}]
  /\ {failed, stop, active, stopping} \subseteq SUBSET Side
  /\ fin \in [Side -> [Stopper -> {"none", "mark", "lock", "kill", "wait"}]]
  /\ reply \in [Side -> {"none", "ok", "error"}]
  /\ del \in [pc : {"none", "next", "wait", "agent"}, todo : SUBSET Side]
  /\ shut \in [pc : {"open", "draining", "next", "wait", "stopped", "failed"},
               todo : SUBSET Side, errors : SUBSET Side]

-----------------------------------------------------------------------------
(* Locks and records.                                                      *)

ParentFree      == del.pc = "none"

(* A mutant of OwnerFree: a Side shares the owner lock of its parent.      *)
OwnerShared(s)  == (\A b \in Stopper : fin[s][b] # "kill") /\ del.pc = "none"

OwnerFree(s)    == \A b \in Stopper : fin[s][b] # "kill"
Working         == {s \in Side : status[s] = "working"}
NoStop(s)       == \A b \in Stopper : fin[s][b] = "none"
Serving         == up /\ shut.pc = "open"

At(s, pc) == worker[s] = pc
Go(s, pc) == worker' = [worker EXCEPT ![s] = pc]

Stop(s, b, pc) == fin' = [fin EXCEPT ![s][b] = pc]

(* A mutant of Record: the last one to record wins.                        *)
RecordAlways(s, outcome) ==
  status' = IF status[s] = "gone" THEN status ELSE [status EXCEPT ![s] = outcome]

(* mark_side_finished, mark_side_stopped, mark_side_failed: an outcome is  *)
(* recorded only while the Side is working.                                *)
Record(s, outcome) ==
  status' = IF status[s] = "working" THEN [status EXCEPT ![s] = outcome] ELSE status

-----------------------------------------------------------------------------
(* Requests of clients.                                                    *)

CreateSide(s) ==
  /\ Serving /\ ParentFree
  /\ parent /\ status[s] = "none"
  /\ Cardinality(Working) < MaxSides
  /\ status' = [status EXCEPT ![s] = "working"]
  /\ Go(s, "loop")
  /\ active' = active \cup {s}
  /\ UNCHANGED <<up, parent, failed, stop, stopping, fin, reply, del, shut, terminals>>

DeleteSide(s) ==
  /\ Serving /\ OwnerFree(s)
  /\ status[s] \in Ended
  /\ status' = [status EXCEPT ![s] = "gone"]
  /\ UNCHANGED <<up, parent, control, terminals>>

(* stop_side is called: the Side is not being stopped and is registered.   *)
(* The two looks can be one, for a Side is registered only once; the mark  *)
(* comes later.                                                            *)
CanStop(s) == s \notin stopping /\ s \in active

StopSide(s, c) ==
  /\ Serving /\ s \in Stoppable
  /\ fin[s][c] = "none" /\ CanStop(s)
  /\ Stop(s, c, "mark")
  /\ UNCHANGED <<up, parent, status, worker, failed, stop, active, stopping, reply, del, shut,
                 terminals>>

-----------------------------------------------------------------------------
(* The worker of a Side.                                                   *)

(* run_side returns an error.                                              *)
Fail(s) == Go(s, "leave") /\ failed' = failed \cup {s}

Move(s, pc) == Go(s, pc) /\ UNCHANGED failed

WorkerRest == <<up, parent, stop, stopping, fin, reply, del, shut>>

(* The head of the loop; compaction is part of the wait for the model.     *)
Loop(s) ==
  /\ At(s, "loop")
  /\ Move(s, IF s \in stop THEN "leave" ELSE "model")
  /\ UNCHANGED <<WorkerRest, status, active, terminals>>

(* append_side_event: progress of a Side that is not working is refused.   *)
Accepts(s) == status[s] = "working"

(* The model answers with calls, a final text, an empty completion, an     *)
(* error, or not before the deadline; or the stop channel changes.         *)
Model(s) ==
  /\ At(s, "model")
  /\ \/ Accepts(s) /\ \E pc \in {"call", "text"} : Move(s, pc)
     \/ Move(s, "loop")
     \/ Move(s, "expire")
     \/ s \in stop /\ Move(s, "leave")
     \/ Fail(s)
  /\ UNCHANGED <<WorkerRest, status, active, terminals>>

Text(s) ==
  /\ At(s, "text") /\ OwnerFree(s)
  /\ Record(s, "finished")
  /\ Move(s, "leave")
  /\ UNCHANGED <<WorkerRest, active, terminals>>

Expire(s) ==
  /\ At(s, "expire") /\ OwnerFree(s)
  /\ Record(s, "stopped")
  /\ Move(s, "leave")
  /\ UNCHANGED <<WorkerRest, active, terminals>>

(* The owner lock is taken to count the call, not to execute it.           *)
Call(s) ==
  /\ At(s, "call") /\ OwnerFree(s)
  /\ IF Accepts(s) THEN Move(s, "tool") ELSE Fail(s)
  /\ UNCHANGED <<WorkerRest, status, active, terminals>>

(* After the last call of a turn the loop goes on.  The result of a call   *)
(* is refused when the Side has been stopped meanwhile.                    *)
Return(s) == IF Accepts(s) THEN \E pc \in {"call", "loop"} : Move(s, pc) ELSE Fail(s)

(* exec_command starts a process and yields; the tools that terminate one  *)
(* or all sessions take as long as the KILL.                               *)
Tool(s) ==
  /\ At(s, "tool")
  /\ \/ Exec(s) /\ Move(s, "yield")
     \/ \E ps \in SUBSET sessions[s] :
          ps # {} /\ Terminate(s, "worker", ps) /\ Move(s, "terminate")
  /\ UNCHANGED <<WorkerRest, status, active>>

(* The end of a yield, a write_stdin, or any other tool.                   *)
Yield(s) ==
  /\ worker[s] \in {"tool", "yield"}
  /\ Reap(s)
  /\ Return(s)
  /\ UNCHANGED <<WorkerRest, status, active>>

TerminateDone(s) ==
  /\ At(s, "terminate")
  /\ Kill(s, "worker")
  /\ Return(s)
  /\ UNCHANGED <<WorkerRest, status, active>>

(* A stop drops the future of the tool; what it was doing stays undone.    *)
ToolDropped(s) ==
  /\ worker[s] \in {"tool", "yield", "terminate"} /\ s \in stop
  /\ Move(s, "leave")
  /\ UNCHANGED <<WorkerRest, status, active, terminals>>

(* terminate_all after run_side, whatever it returned.                     *)
Leave(s) ==
  /\ At(s, "leave")
  /\ Terminate(s, "worker", sessions[s])
  /\ Move(s, "kill")
  /\ UNCHANGED <<WorkerRest, status, active>>

(* A mutant of Unregister: a failure is not recorded.                      *)
UnregisterOnly(s) ==
  /\ At(s, "kill")
  /\ Kill(s, "worker")
  /\ active' = active \ {s}
  /\ Move(s, "done")
  /\ UNCHANGED <<WorkerRest, status>>

(* The worker unregisters before it records a failure.                     *)
Unregister(s) ==
  /\ At(s, "kill")
  /\ Kill(s, "worker")
  /\ active' = active \ {s}
  /\ Go(s, IF s \in failed THEN "record" ELSE "done")
  /\ failed' = failed \ {s}
  /\ UNCHANGED <<WorkerRest, status>>

RecordFailure(s) ==
  /\ At(s, "record") /\ OwnerFree(s)
  /\ Record(s, "failed")
  /\ Move(s, "done")
  /\ UNCHANGED <<WorkerRest, active, terminals>>

Worker(s) ==
  \/ Loop(s) \/ Text(s) \/ Expire(s) \/ Call(s)
  \/ TerminateDone(s) \/ ToolDropped(s)
  \/ Leave(s) \/ Unregister(s) \/ RecordFailure(s)

-----------------------------------------------------------------------------
(* The rest of stop_side: the mark, and the finalizer.                     *)

FinRest == <<up, parent, worker, failed, active, del, shut>>

FinMark(s, b) ==
  /\ fin[s][b] = "mark"
  /\ stopping' = stopping \cup {s}
  /\ Stop(s, b, "lock")
  /\ UNCHANGED <<FinRest, status, stop, reply, terminals>>

(* The finalizer ends: the mark goes, whoever has set it.                  *)
Answer(s, b, r) ==
  /\ Stop(s, b, "none")
  /\ stopping' = stopping \ {s}
  /\ reply' = IF b \in Client THEN reply ELSE [reply EXCEPT ![s] = r]

(* With the owner lock: a Side that has ended by itself is a conflict.     *)
FinCheck(s, b) ==
  /\ fin[s][b] = "lock" /\ OwnerFree(s)
  /\ \/ /\ status[s] # "working"
        /\ Answer(s, b, "error")
        /\ UNCHANGED <<stop, terminals>>
     \/ /\ status[s] = "working"
        /\ stop' = stop \cup {s}
        /\ Terminate(s, "finalizer", sessions[s])
        /\ Stop(s, b, "kill")
        /\ UNCHANGED <<stopping, reply>>
  /\ UNCHANGED <<FinRest, status>>

FinRecord(s, b) ==
  /\ fin[s][b] = "kill"
  /\ Kill(s, "finalizer")
  /\ Record(s, "stopped")
  /\ IF status[s] = "working"
     THEN Stop(s, b, "wait") /\ UNCHANGED <<stopping, reply>>
     ELSE Answer(s, b, "error")
  /\ UNCHANGED <<FinRest, stop>>

(* A mutant of Completed: the finalizer waits for the registration only.   *)
CompletedUnregistered(s) == s \notin active

Completed(s) == At(s, "done")

FinDone(s, b) ==
  /\ fin[s][b] = "wait" /\ Completed(s)
  /\ Answer(s, b, "ok")
  /\ UNCHANGED <<FinRest, status, stop, terminals>>

Finalizer(s, b) == FinMark(s, b) \/ FinCheck(s, b) \/ FinRecord(s, b) \/ FinDone(s, b)

-----------------------------------------------------------------------------
(* Deletion of the parent.                                                 *)

DeleteBegin ==
  /\ Serving /\ ParentFree /\ parent
  /\ del' = [pc |-> "next", todo |-> Working]
  /\ UNCHANGED <<up, parent, status, worker, failed, stop, active, stopping, fin, reply, shut, terminals>>

(* The first Side that cannot be stopped ends the deletion.                *)
DeleteNext(s) ==
  /\ del.pc = "next" /\ s \in del.todo
  /\ IF CanStop(s)
     THEN /\ Stop(s, "delete", "mark")
          /\ del' = [del EXCEPT !.pc = "wait"]
     ELSE del' = NoDel /\ UNCHANGED fin
  /\ UNCHANGED <<up, parent, status, worker, failed, stop, active, stopping, reply, shut, terminals>>

DeleteReply(s) ==
  /\ del.pc = "wait" /\ reply[s] # "none"
  /\ del' = IF reply[s] = "ok" THEN [pc |-> "next", todo |-> del.todo \ {s}] ELSE NoDel
  /\ reply' = [reply EXCEPT ![s] = "none"]
  /\ UNCHANGED <<up, parent, status, worker, failed, stop, active, stopping, fin, shut, terminals>>

(* delete_sides_for_agent, then delete.                                    *)
DeleteSides ==
  /\ del.pc = "next" /\ del.todo = {}
  /\ status' = [s \in Side |-> IF status[s] = "none" THEN "none" ELSE "gone"]
  /\ del' = [del EXCEPT !.pc = "agent"]
  /\ UNCHANGED <<up, parent, worker, failed, stop, active, stopping, fin, reply, shut, terminals>>

DeleteParent ==
  /\ del.pc = "agent"
  /\ parent' = FALSE
  /\ del' = NoDel
  /\ UNCHANGED <<up, status, worker, failed, stop, active, stopping, fin, reply, shut, terminals>>

Deletion ==
  \/ \E s \in Side : DeleteNext(s) \/ DeleteReply(s)
  \/ DeleteSides \/ DeleteParent

-----------------------------------------------------------------------------
(* Shutdown: wait_for_mutations, then stop_all.                            *)

ShutRest == <<up, parent, status, worker, failed, stop, active, stopping, del, terminals>>

ShutBegin ==
  /\ Serving
  /\ shut' = [Open EXCEPT !.pc = "draining"]
  /\ UNCHANGED <<ShutRest, fin, reply>>

(* No stop is under way; then the registered Sides are stopped, one after   *)
(* the other, and looked for again, until none is registered.              *)
ShutSnapshot ==
  /\ \/ shut.pc = "draining" /\ ParentFree /\ \A s \in Side : NoStop(s)
     \/ shut.pc = "next" /\ shut.todo = {}
  /\ shut' = CASE shut.errors # {} -> [shut EXCEPT !.pc = "failed"]
               [] shut.errors = {} /\ active = {} -> [shut EXCEPT !.pc = "stopped"]
               [] OTHER -> [shut EXCEPT !.pc = "next", !.todo = active]
  /\ UNCHANGED <<ShutRest, fin, reply>>

(* An error counts unless the Side's record can be read and says that it   *)
(* has ended by itself.                                                    *)
ShutError(s) ==
  [pc |-> "next", todo |-> shut.todo \ {s},
   errors |-> IF status[s] \in Ended THEN shut.errors ELSE shut.errors \cup {s}]

ShutNext(s) ==
  /\ shut.pc = "next" /\ s \in shut.todo
  /\ IF CanStop(s)
     THEN /\ Stop(s, "shutdown", "mark")
          /\ shut' = [shut EXCEPT !.pc = "wait"]
     ELSE shut' = ShutError(s) /\ UNCHANGED fin
  /\ UNCHANGED <<ShutRest, reply>>

ShutReply(s) ==
  /\ shut.pc = "wait" /\ reply[s] # "none"
  /\ shut' = IF reply[s] = "ok" THEN [shut EXCEPT !.pc = "next", !.todo = @ \ {s}]
                                ELSE ShutError(s)
  /\ reply' = [reply EXCEPT ![s] = "none"]
  /\ UNCHANGED <<ShutRest, fin>>

Shutdown == ShutSnapshot \/ \E s \in Side : ShutNext(s) \/ ShutReply(s)

-----------------------------------------------------------------------------
(* The end of the process, expected or not, and the next start.            *)

Down ==
  /\ up
  /\ up' = FALSE
  /\ worker' = [s \in Side |-> "done"]
  /\ failed' = {} /\ stop' = {}
  /\ active' = {} /\ stopping' = {}
  /\ fin' = [s \in Side |-> [b \in Stopper |-> "none"]]
  /\ reply' = [s \in Side |-> "none"]
  /\ del' = NoDel
  /\ shut' = Open
  /\ LoseTerminals
  /\ UNCHANGED <<parent, status>>

(* purge_corrupt_lifecycle_records removes a Side without its parent.      *)
Orphan(s) == status[s] # "none" /\ ~parent

(* Store::new purges; recover_interrupted_sides ends what was working.     *)
Boot ==
  /\ ~up
  /\ up' = TRUE
  /\ status' = [s \in Side |->
       IF Orphan(s) THEN "gone"
       ELSE IF status[s] = "working" THEN "stopped" ELSE status[s]]
  /\ UNCHANGED <<parent, control, terminals>>

-----------------------------------------------------------------------------
Init ==
  /\ TerminalsInit
  /\ up = TRUE /\ parent = TRUE
  /\ status = [s \in Side |-> "none"]
  /\ worker = [s \in Side |-> "done"]
  /\ failed = {} /\ stop = {}
  /\ active = {} /\ stopping = {}
  /\ fin = [s \in Side |-> [b \in Stopper |-> "none"]]
  /\ reply = [s \in Side |-> "none"]
  /\ del = NoDel /\ shut = Open

Request ==
  \/ DeleteBegin \/ ShutBegin
  \/ \E s \in Side : CreateSide(s) \/ DeleteSide(s) \/ \E c \in Client : StopSide(s, c)

Environment ==
  \/ \E s \in Side, p \in Process : LeaderExit(s, p) /\ UNCHANGED <<up, parent, status, control>>
  \/ Down \/ Boot

Next ==
  \/ Request \/ Deletion \/ Shutdown \/ Environment
  \/ \E s \in Side : Model(s) \/ Tool(s) \/ Yield(s) \/ Worker(s)
  \/ \E s \in Side, b \in Stopper : Finalizer(s, b)

(* Every task of the daemon goes on.  A model or a tool may take for ever, *)
(* but not when the stop channel of its run has changed.                   *)
Fairness ==
  /\ WF_vars(Deletion) /\ WF_vars(Shutdown)
  /\ \A s \in Side : WF_vars(Worker(s) \/ (s \in stop /\ Model(s)))
  /\ \A s \in Side, b \in Stopper : WF_vars(Finalizer(s, b))

Spec == Init /\ [][Next]_vars /\ Fairness

-----------------------------------------------------------------------------
(* Properties.                                                             *)

(* No Side is left working without someone who will end it: its worker, or *)
(* the finalizer that has signalled it.  And no Side's record is there     *)
(* without its parent's, whatever was cut short in a deletion, except      *)
(* between a loss of the process and the next start.                       *)
NoZombie ==
  /\ \A s \in Side : up /\ status[s] = "working" => ~At(s, "done") \/ ~OwnerFree(s)
  /\ up /\ ~parent => \A s \in Side : status[s] \in {"none", "gone"}

(* Of all who want to record the outcome of a Side (its worker finishing,  *)
(* failing or out of time, a stop, a recovery) only the first succeeds.    *)
OneOutcome ==
  [][\A s \in Side : status[s] \in Ended => status'[s] \in {status[s], "gone"}]_vars

StopSucceeds(s, b) == fin[s][b] = "wait" /\ fin'[s][b] = "none" /\ up'

(* When a stop reports success, whoever else was stopping the Side, it is  *)
(* stopped for good: its worker is gone, and of its bash processes only    *)
(* those still run whose termination by a tool the stop itself has         *)
(* dropped.  Nothing is claimed of the other members of their groups: see  *)
(* NeverSurvive.                                                           *)
StopIsComplete ==
  [][\A s \in Side, b \in Stopper : StopSucceeds(s, b) =>
       /\ status[s] \in {"stopped", "gone"}
       /\ At(s, "done") /\ s \notin active
       /\ alive[s] \subseteq dropped[s]]_vars

(* After a clean shutdown nothing is working and no bash process is        *)
(* running, except a Side that was just about to record that it has failed *)
(* (it has unregistered before it does).                                   *)
ShutdownIsClean ==
  shut.pc = "stopped" => \A s \in Side :
    /\ status[s] = "working" => At(s, "record")
    /\ alive[s] \subseteq dropped[s]

(* A deletion, which waits for finalizers and keeps the parent's owner     *)
(* lock meanwhile, ends, and so does the shutdown that waits for it.       *)
FinalizersEnd ==
  /\ (del.pc # "none") ~> (del.pc = "none")
  /\ (shut.pc = "draining") ~> (shut.pc \in {"stopped", "failed"} \/ ~up)

(* protocol.md:355: a stop "sends TERM, waits about 500 ms, then sends     *)
(* KILL for each owned group", so that its terminal sessions never survive *)
(* the run (protocol.md:688).                                              *)
NeverSurvive ==
  [][\A s \in Side, b \in Stopper : StopSucceeds(s, b) => alive[s] \cup orphans[s] = {}]_vars
=============================================================================
