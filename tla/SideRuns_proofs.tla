--------------------------- MODULE SideRuns_proofs ---------------------------
(***************************************************************************)
(* Proofs about SideRuns, for any set of Sides and any limits: no Side is  *)
(* left working without an end to come, each gets one outcome, a stop that *)
(* succeeds has ended its worker and its bash processes, and so has a      *)
(* clean shutdown of every Side.                                           *)
(***************************************************************************)
EXTENDS SideRuns, FiniteSetTheorems, TLAPS

(* Fewer sessions are running when some end.                               *)
LEMMA RunningFewer ==
  ASSUME NEW S \in SUBSET Process, NEW T \in SUBSET S
  PROVE  IsFiniteSet(S) /\ Cardinality(S) \in Nat /\ Cardinality(T) <= Cardinality(S)
<1>1. IsFiniteSet(Process)
  BY SidesAssumption, FS_Interval DEF Process
<1>2. IsFiniteSet(S)
  BY <1>1, FS_Subset
<1> QED
  BY <1>2, FS_Subset, FS_CardinalityType

(* The limit on the sessions that run is kept when their sets shrink.      *)
LEMMA LimitKept ==
  ASSUME TerminalsTypeOK, sessions' \in [Run -> SUBSET Process], alive' \in [Run -> SUBSET Process],
         \A r \in Run : sessions'[r] \subseteq sessions[r] /\ alive'[r] \subseteq alive[r]
  PROVE  \A r \in Run : RunningCount(r)' <= MaxTerminals
<1> SUFFICES ASSUME NEW r \in Run PROVE Cardinality(sessions'[r] \cap alive'[r]) <= MaxTerminals
  BY DEF RunningCount
<1> DEFINE S == sessions[r] \cap alive[r]
           T == sessions'[r] \cap alive'[r]
<1>1. S \in SUBSET Process /\ T \in SUBSET S
  BY DEF TerminalsTypeOK
<1>2. Cardinality(S) <= MaxTerminals
  BY DEF TerminalsTypeOK, RunningCount
<1>3. Cardinality(S) \in Nat /\ Cardinality(T) \in Nat /\ Cardinality(T) <= Cardinality(S)
  <2>1. T \in SUBSET Process
    BY <1>1
  <2> HIDE DEF S, T
  <2> QED
    BY <1>1, <2>1, RunningFewer
<1> HIDE DEF S, T
<1>4. MaxTerminals \in Nat
  BY SidesAssumption
<1>5. Cardinality(T) <= MaxTerminals
  BY <1>2, <1>3, <1>4
<1> QED
  BY <1>5 DEF T

(* The operations on the terminals of a run keep their type.               *)
LEMMA TerminalsType ==
  ASSUME TerminalsTypeOK, NEW s \in Side, NEW t \in Terminator
  PROVE  /\ Exec(s) => TerminalsTypeOK'
         /\ Reap(s) => TerminalsTypeOK'
         /\ \A ps : Terminate(s, t, ps) => TerminalsTypeOK'
         /\ Kill(s, t) => TerminalsTypeOK'
         /\ \A p \in Process : LeaderExit(s, p) => TerminalsTypeOK'
<1> USE SidesAssumption DEF TerminalsTypeOK, Side, Process
<1>1. ASSUME Exec(s) PROVE TerminalsTypeOK'
  <2> DEFINE S == sessions[s] \cap alive[s]
             p == started[s] + 1
  <2>1. /\ sessions'[s] \cap alive'[s] = S \cup {p}
        /\ \A r \in Run \ {s} : sessions'[r] = sessions[r] /\ alive'[r] = alive[r]
    BY <1>1 DEF Exec
  <2>2. Cardinality(S) < MaxTerminals
    BY <1>1 DEF Exec, Room, RunningCount
  <2>3. IsFiniteSet(S) /\ Cardinality(S) \in Nat
    <3>1. S \in SUBSET Process
      OBVIOUS
    <3> HIDE DEF S, Process
    <3> QED
      BY <3>1, RunningFewer
  <2>4. Cardinality(S \cup {p}) <= MaxTerminals
    <3> HIDE DEF S, p
    <3>1. Cardinality(S \cup {p}) = IF p \in S THEN Cardinality(S) ELSE Cardinality(S) + 1
      BY <2>3, FS_AddElement
    <3> QED
      BY <3>1, <2>2, <2>3
  <2>5. \A r \in Run : RunningCount(r)' <= MaxTerminals
    <3> SUFFICES ASSUME NEW r \in Run PROVE Cardinality(sessions'[r] \cap alive'[r]) <= MaxTerminals
      BY DEF RunningCount
    <3>1. CASE r = s
      BY <3>1, <2>1, <2>4
    <3>2. CASE r # s
      BY <3>2, <2>1 DEF RunningCount
    <3> QED
      BY <3>1, <3>2
  <2> QED
    BY <1>1, <2>5 DEF Exec
<1>2. ASSUME Reap(s) PROVE TerminalsTypeOK'
  <2>1. /\ sessions' \in [Run -> SUBSET Process] /\ alive' = alive
        /\ \A r \in Run : sessions'[r] \subseteq sessions[r]
    BY <1>2 DEF Reap
  <2> QED
    BY <1>2, <2>1, LimitKept DEF Reap
<1>3. ASSUME NEW ps, Terminate(s, t, ps) PROVE TerminalsTypeOK'
  <2>1. killing[s] \in [Terminator -> SUBSET Process]
    OBVIOUS
  <2>2. [killing[s] EXCEPT ![t] = ps \cap sessions[s] \cap alive[s]] \in [Terminator -> SUBSET Process]
    BY <2>1
  <2>3. killing' = [killing EXCEPT ![s] = [killing[s] EXCEPT ![t] = ps \cap sessions[s] \cap alive[s]]]
    BY <1>3 DEF Terminate
  <2>4. killing' \in [Run -> [Terminator -> SUBSET Process]]
    BY <2>2, <2>3
  <2>5. /\ sessions' \in [Run -> SUBSET Process] /\ alive' = alive
        /\ \A r \in Run : sessions'[r] \subseteq sessions[r]
    BY <1>3 DEF Terminate
  <2>6. dropped' \in [Run -> SUBSET Process]
    BY <1>3, <2>1 DEF Terminate
  <2> QED
    BY <1>3, <2>4, <2>5, <2>6, LimitKept DEF Terminate
<1>4. ASSUME Kill(s, t) PROVE TerminalsTypeOK'
  <2>1. killing[s] \in [Terminator -> SUBSET Process]
    OBVIOUS
  <2>2. [killing[s] EXCEPT ![t] = {}] \in [Terminator -> SUBSET Process]
    BY <2>1
  <2>3. /\ alive' \in [Run -> SUBSET Process] /\ sessions' = sessions
        /\ \A r \in Run : alive'[r] \subseteq alive[r]
    BY <1>4 DEF Kill
  <2> QED
    BY <1>4, <2>2, <2>3, LimitKept DEF Kill
<1>5. ASSUME NEW p \in Process, LeaderExit(s, p) PROVE TerminalsTypeOK'
  <2>1. killing[s] \in [Terminator -> SUBSET Process]
    OBVIOUS
  <2>2. [u \in Terminator |-> killing[s][u] \ {p}] \in [Terminator -> SUBSET Process]
    BY <2>1
  <2>3. killing' = [killing EXCEPT ![s] = [u \in Terminator |-> killing[s][u] \ {p}]]
    BY <1>5 DEF LeaderExit
  <2>4. killing' \in [Run -> [Terminator -> SUBSET Process]]
    BY <2>2, <2>3
  <2>5. /\ alive' \in [Run -> SUBSET Process] /\ sessions' = sessions
        /\ \A r \in Run : alive'[r] \subseteq alive[r]
    BY <1>5 DEF LeaderExit
  <2>6. orphans' \in [Run -> SUBSET Process] /\ dropped' \in [Run -> SUBSET Process]
    BY <1>5 DEF LeaderExit
  <2> QED
    BY <1>5, <2>4, <2>5, <2>6, LimitKept DEF LeaderExit
<1> QED
  BY <1>1, <1>2, <1>3, <1>4, <1>5

LEMMA TerminalsLost == TerminalsTypeOK /\ LoseTerminals => TerminalsTypeOK'
<1> SUFFICES ASSUME TerminalsTypeOK, LoseTerminals PROVE TerminalsTypeOK'
  OBVIOUS
<1>1. /\ sessions' \in [Run -> SUBSET Process] /\ alive' \in [Run -> SUBSET Process]
      /\ \A r \in Run : sessions'[r] \subseteq sessions[r] /\ alive'[r] \subseteq alive[r]
  BY DEF LoseTerminals
<1> QED
  BY <1>1, LimitKept DEF TerminalsTypeOK, LoseTerminals

LEMMA TerminalsSame == TerminalsTypeOK /\ UNCHANGED terminals => TerminalsTypeOK'
BY DEF TerminalsTypeOK, RunningCount, terminals

(* A stop moves, and no other.                                             *)
LEMMA StopEffect ==
  ASSUME TypeOK, NEW s \in Side, NEW b \in Stopper,
         NEW pc \in {"none", "mark", "lock", "kill", "wait"}, Stop(s, b, pc)
  PROVE  /\ fin' \in [Side -> [Stopper -> {"none", "mark", "lock", "kill", "wait"}]]
         /\ fin'[s][b] = pc
         /\ \A c \in Stopper \ {b} : fin'[s][c] = fin[s][c]
         /\ \A t \in Side \ {s} : fin'[t] = fin[t]
<1>1. fin \in [Side -> [Stopper -> {"none", "mark", "lock", "kill", "wait"}]]
  BY DEF TypeOK
<1>2. fin' = [fin EXCEPT ![s] = [fin[s] EXCEPT ![b] = pc]]
  BY DEF Stop
<1>3. [fin[s] EXCEPT ![b] = pc] \in [Stopper -> {"none", "mark", "lock", "kill", "wait"}]
  BY <1>1
<1>4. fin'[s] = [fin[s] EXCEPT ![b] = pc] /\ \A t \in Side \ {s} : fin'[t] = fin[t]
  BY <1>1, <1>2
<1> QED
  BY <1>1, <1>2, <1>3, <1>4

(* It takes and releases an owner lock only on its way to or from its KILL.*)
LEMMA StopKeeps ==
  ASSUME TypeOK, NEW s \in Side, NEW b \in Stopper,
         NEW pc \in {"none", "mark", "lock"}, Stop(s, b, pc), fin[s][b] # "kill",
         NEW t \in Side
  PROVE  OwnerFree(t)' <=> OwnerFree(t)
<1>1. /\ fin'[s][b] = pc
      /\ \A c \in Stopper \ {b} : fin'[s][c] = fin[s][c]
      /\ \A u \in Side \ {s} : fin'[u] = fin[u]
  BY StopEffect
<1>2. CASE t = s
  BY <1>1, <1>2 DEF OwnerFree
<1>3. CASE t # s
  BY <1>1, <1>3 DEF OwnerFree
<1> QED
  BY <1>2, <1>3

(* An answer ends the stop.                                                *)
LEMMA AnswerEffect ==
  ASSUME TypeOK, NEW s \in Side, NEW b \in Stopper, NEW r \in {"ok", "error"}, Answer(s, b, r)
  PROVE  /\ Stop(s, b, "none")
         /\ stopping' \subseteq Side
         /\ reply' \in [Side -> {"none", "ok", "error"}]
         /\ \A t \in Side : reply'[t] = reply[t] \/ (t = s /\ b \in {"delete", "shutdown"})
BY DEF TypeOK, Answer, Stopper

LEMMA InitType == Init => TypeOK
<1> SUFFICES ASSUME Init PROVE TypeOK
  OBVIOUS
<1>1. \A r \in Run : RunningCount(r) <= MaxTerminals
  <2>1. \A r \in Run : sessions[r] \cap alive[r] = {}
    BY DEF Init, TerminalsInit
  <2> QED
    BY <2>1, FS_EmptySet, SidesAssumption DEF RunningCount
<1>2. TerminalsTypeOK
  BY <1>1, SidesAssumption DEF Init, TerminalsInit, TerminalsTypeOK, Process, Terminator
<1> QED
  BY <1>2 DEF Init, TypeOK, NoDel, Open, Side, Ended

(* Every step keeps the type invariant.                                    *)
LEMMA NextType == TypeOK /\ [Next]_vars => TypeOK'
<1> SUFFICES ASSUME TypeOK, [Next]_vars PROVE TypeOK'
  OBVIOUS
<1> USE DEF TypeOK, Ended, Terminator
<1>1. ASSUME NEW s \in Side, CreateSide(s) PROVE TypeOK'
  BY <1>1, TerminalsSame DEF CreateSide, control, Go, ParentFree, Working, Serving
<1>2. ASSUME NEW s \in Side, DeleteSide(s) PROVE TypeOK'
  BY <1>2, TerminalsSame DEF DeleteSide, control, OwnerFree, Serving
<1>3. ASSUME NEW s \in Side, NEW c \in Client, StopSide(s, c) PROVE TypeOK'
  <2>1. Stop(s, c, "mark") /\ c \in Stopper
    BY <1>3 DEF StopSide, Stopper
  <2> QED
    BY <1>3, <2>1, StopEffect, TerminalsSame DEF StopSide
<1>4. ASSUME NEW s \in Side, Loop(s) PROVE TypeOK'
  BY <1>4, TerminalsSame DEF Loop, At, Go, Move, WorkerRest
<1>5. ASSUME NEW s \in Side, Model(s) PROVE TypeOK'
  BY <1>5, TerminalsSame DEF Model, Accepts, At, Go, Move, Fail, WorkerRest
<1>6. ASSUME NEW s \in Side, Text(s) PROVE TypeOK'
  BY <1>6, TerminalsSame DEF Text, At, Go, Move, Record, OwnerFree, WorkerRest
<1>7. ASSUME NEW s \in Side, Expire(s) PROVE TypeOK'
  BY <1>7, TerminalsSame DEF Expire, At, Go, Move, Record, OwnerFree, WorkerRest
<1>8. ASSUME NEW s \in Side, Call(s) PROVE TypeOK'
  BY <1>8, TerminalsSame DEF Call, Go, Move, Fail, WorkerRest
<1>9. ASSUME NEW s \in Side, Tool(s) PROVE TypeOK'
  BY <1>9, TerminalsType DEF Tool, At, Go, Move, WorkerRest
<1>10. ASSUME NEW s \in Side, Yield(s) PROVE TypeOK'
  <2>1. TerminalsTypeOK'
    BY <1>10, TerminalsType DEF Yield
  <2> QED
    BY <1>10, <2>1 DEF Yield, Go, Move, Return, Accepts, Fail, WorkerRest
<1>11. ASSUME NEW s \in Side, TerminateDone(s) PROVE TypeOK'
  <2>1. TerminalsTypeOK'
    BY <1>11, TerminalsType DEF TerminateDone
  <2> QED
    BY <1>11, <2>1 DEF TerminateDone, Go, Move, Return, Accepts, Fail, WorkerRest
<1>12. ASSUME NEW s \in Side, ToolDropped(s) PROVE TypeOK'
  BY <1>12, TerminalsSame DEF ToolDropped, Go, Move, WorkerRest
<1>13. ASSUME NEW s \in Side, Leave(s) PROVE TypeOK'
  BY <1>13, TerminalsType DEF Leave, At, Go, Move, WorkerRest
<1>14. ASSUME NEW s \in Side, Unregister(s) PROVE TypeOK'
  BY <1>14, TerminalsType DEF Unregister, At, Go, Move, WorkerRest
<1>15. ASSUME NEW s \in Side, RecordFailure(s) PROVE TypeOK'
  BY <1>15, TerminalsSame DEF RecordFailure, At, Go, Move, Record, OwnerFree, WorkerRest
<1>16. ASSUME NEW s \in Side, NEW b \in Stopper, FinMark(s, b) PROVE TypeOK'
  <2>1. Stop(s, b, "lock")
    BY <1>16 DEF FinMark
  <2> QED
    BY <1>16, <2>1, StopEffect, TerminalsSame DEF FinMark, FinRest
<1>17. ASSUME NEW s \in Side, NEW b \in Stopper, FinCheck(s, b) PROVE TypeOK'
  <2>1. CASE status[s] # "working"
    <3>1. Answer(s, b, "error")
      BY <1>17, <2>1 DEF FinCheck
    <3> QED
      BY <1>17, <2>1, <3>1, AnswerEffect, StopEffect, TerminalsSame DEF FinCheck, FinRest
  <2>2. CASE status[s] = "working"
    <3>1. TerminalsTypeOK'
      BY <1>17, <2>2, TerminalsType DEF FinCheck
    <3>2. Stop(s, b, "kill")
      BY <1>17, <2>2 DEF FinCheck
    <3> QED
      BY <1>17, <2>2, <3>1, <3>2, StopEffect DEF FinCheck, FinRest
  <2> QED
    BY <2>1, <2>2
<1>18. ASSUME NEW s \in Side, NEW b \in Stopper, FinRecord(s, b) PROVE TypeOK'
  <2>1. TerminalsTypeOK'
    BY <1>18, TerminalsType DEF FinRecord
  <2>2. status' \in [Side -> {"none", "working", "gone"} \cup Ended]
    BY <1>18 DEF FinRecord, Record
  <2>3. CASE status[s] # "working"
    <3>1. Answer(s, b, "error")
      BY <1>18, <2>3 DEF FinRecord
    <3> QED
      BY <1>18, <2>1, <2>2, <3>1, AnswerEffect, StopEffect DEF FinRecord, FinRest
  <2>4. CASE status[s] = "working"
    <3>1. Stop(s, b, "wait")
      BY <1>18, <2>4 DEF FinRecord
    <3> QED
      BY <1>18, <2>1, <2>2, <2>4, <3>1, StopEffect DEF FinRecord, FinRest
  <2> QED
    BY <2>3, <2>4
<1>19. ASSUME NEW s \in Side, NEW b \in Stopper, FinDone(s, b) PROVE TypeOK'
  <2>1. Answer(s, b, "ok")
    BY <1>19 DEF FinDone
  <2> QED
    BY <1>19, <2>1, AnswerEffect, StopEffect, TerminalsSame DEF FinDone, FinRest
<1>20. ASSUME NEW s \in Side, DeleteNext(s) PROVE TypeOK'
  <2>1. CASE CanStop(s)
    <3>1. Stop(s, "delete", "mark") /\ "delete" \in Stopper
      BY <1>20, <2>1 DEF DeleteNext, Stopper
    <3>2. del' = [del EXCEPT !.pc = "wait"]
      BY <1>20, <2>1 DEF DeleteNext
    <3>3. del' \in [pc : {"none", "next", "wait", "agent"}, todo : SUBSET Side]
      BY <3>2
    <3> QED
      BY <1>20, <3>1, <3>3, StopEffect, TerminalsSame DEF DeleteNext
  <2>2. CASE ~CanStop(s)
    BY <1>20, <2>2, TerminalsSame DEF DeleteNext, NoDel
  <2> QED
    BY <2>1, <2>2
<1>21. ASSUME NEW s \in Side, DeleteReply(s) PROVE TypeOK'
  BY <1>21, TerminalsSame DEF DeleteReply, NoDel
<1>22. ASSUME NEW s \in Side, ShutNext(s) PROVE TypeOK'
  <2>1. CASE CanStop(s)
    <3>1. /\ Stop(s, "shutdown", "mark") /\ "shutdown" \in Stopper
          /\ shut' = [shut EXCEPT !.pc = "wait"]
          /\ reply' = reply
          /\ UNCHANGED ShutRest
      BY <1>22, <2>1 DEF ShutNext, Stopper
    <3>2. shut' \in [pc : {"open", "draining", "next", "wait", "stopped", "failed"},
                     todo : SUBSET Side, errors : SUBSET Side]
      BY <3>1
    <3> QED
      BY <3>1, <3>2, StopEffect, TerminalsSame DEF ShutRest
  <2>2. CASE ~CanStop(s)
    BY <1>22, <2>2, TerminalsSame DEF ShutNext, ShutError, ShutRest
  <2> QED
    BY <2>1, <2>2
<1>23. ASSUME NEW s \in Side, ShutReply(s) PROVE TypeOK'
  BY <1>23, TerminalsSame DEF ShutReply, ShutError, Working, ShutRest
<1>24. ASSUME DeleteBegin PROVE TypeOK'
  BY <1>24, TerminalsSame DEF DeleteBegin, Serving, ParentFree, Working
<1>25. ASSUME DeleteSides PROVE TypeOK'
  BY <1>25, TerminalsSame DEF DeleteSides
<1>26. ASSUME DeleteParent PROVE TypeOK'
  BY <1>26, TerminalsSame DEF DeleteParent, NoDel
<1>27. ASSUME ShutBegin PROVE TypeOK'
  BY <1>27, TerminalsSame DEF ShutBegin, Serving, Open, ShutRest
<1>28. ASSUME ShutSnapshot PROVE TypeOK'
  BY <1>28, TerminalsSame DEF ShutSnapshot, ParentFree, NoStop, ShutRest
<1>29. ASSUME Down PROVE TypeOK'
  BY <1>29, TerminalsLost DEF Down, NoDel, Open
<1>30. ASSUME Boot PROVE TypeOK'
  BY <1>30, TerminalsSame DEF Boot, Orphan, control
<1>31. ASSUME NEW s \in Side, NEW p \in Process, LeaderExit(s, p),
            UNCHANGED <<up, parent, status, control>>
     PROVE  TypeOK'
  BY <1>31, TerminalsType DEF control
<1>32. CASE UNCHANGED vars
  BY <1>32, TerminalsSame DEF vars, control
<1> QED
  BY <1>1, <1>2, <1>3, <1>4, <1>5, <1>6, <1>7, <1>8, <1>9,
     <1>10, <1>11, <1>12, <1>13, <1>14, <1>15, <1>16, <1>17, <1>18,
     <1>19, <1>20, <1>21, <1>22, <1>23, <1>24, <1>25, <1>26, <1>27,
     <1>28, <1>29, <1>30, <1>31, <1>32
  DEF Next, Request, Deletion, Shutdown, Environment, Worker, Finalizer

(* The state has its type.                                                 *)
THEOREM TypeInvariant == Spec => []TypeOK
<1>1. TypeOK /\ [Next]_vars => TypeOK'
  BY NextType
<1> QED
  BY <1>1, InitType, PTL DEF Spec

-----------------------------------------------------------------------------

(* The inductive invariant, in three parts.  First the workers and their   *)
(* finalizers: a stop channel is signalled only by a finalizer that will   *)
(* record the stop; a worker that leaves without an error has recorded its *)
(* outcome, or leaves to such a finalizer.  Of the finalizers of one Side  *)
(* only one gets that far.                                                 *)
SideControl(s) ==
  /\ s \in stop /\ status[s] = "working" => ~OwnerFree(s)
  /\ worker[s] \in {"leave", "kill"} /\ s \notin failed /\ status[s] = "working"
       => ~OwnerFree(s)
  /\ up /\ worker[s] = "done" /\ status[s] = "working" => ~OwnerFree(s)
  /\ s \in active <=> worker[s] \notin {"record", "done"}
  /\ \A b \in Stopper : fin[s][b] = "wait" => status[s] \in {"stopped", "gone"}
  /\ \A b, c \in Stopper :
       fin[s][b] \in {"kill", "wait"} /\ fin[s][c] \in {"kill", "wait"} => b = c
  /\ status[s] = "none" =>
       worker[s] = "done" /\ s \notin stop /\ s \notin failed /\ NoStop(s)
  /\ ~up => worker[s] = "done" /\ NoStop(s) /\ s \notin stop /\ s \notin failed
  /\ del.pc = "agent" \/ ~parent => status[s] \in {"none", "gone"}

ControlInv ==
  /\ \A s \in Side : SideControl(s)
  /\ ~up => del.pc = "none" /\ shut.pc = "open"

(* Then the deletion and the shutdown: at most one Side has a stop of      *)
(* theirs, or an answer they have not read, and only while they wait; once *)
(* the drain is over no other stop is under way.                           *)
Owned(s) == fin[s]["delete"] # "none" \/ fin[s]["shutdown"] # "none" \/ reply[s] # "none"

ServiceInv ==
  /\ \A s, t \in Side : Owned(s) /\ Owned(t) => s = t
  /\ \A s \in Side :
       /\ fin[s]["delete"] # "none" => del.pc = "wait" /\ reply[s] = "none"
       /\ fin[s]["shutdown"] # "none" => shut.pc = "wait" /\ reply[s] = "none"
       /\ reply[s] # "none" => del.pc = "wait" \/ shut.pc = "wait"
       /\ shut.pc \in {"next", "wait", "stopped", "failed"} =>
            \A b \in Stopper \ {"shutdown"} : fin[s][b] = "none"
       /\ shut.pc = "stopped" => worker[s] \in {"record", "done"}
  /\ shut.pc \in {"next", "wait", "stopped", "failed"} => del.pc = "none"

(* The shutdown looks at a Side while nobody stops any.                    *)
LEMMA ShutNextAlone ==
  ASSUME TypeOK, ServiceInv, NEW s \in Side, ShutNext(s)
  PROVE  \A t \in Side : NoStop(t) /\ ~Owned(t)
BY DEF ServiceInv, Owned, ShutNext, NoStop, TypeOK, Stopper

(* A stop that comes neither to nor from its KILL.                         *)
LEMMA QuietMove ==
  ASSUME TypeOK, NEW s \in Side, NEW b \in Stopper,
         NEW pc \in {"none", "mark", "lock"}, Stop(s, b, pc), fin[s][b] # "kill",
         UNCHANGED <<up, parent, status, worker, failed, stop, active>>,
         del'.pc = "agent" => del.pc = "agent",
         up, status[s] # "none", NEW t \in Side, SideControl(t)
  PROVE  SideControl(t)'
<1>1. /\ fin'[s][b] = pc
      /\ \A c \in Stopper \ {b} : fin'[s][c] = fin[s][c]
      /\ \A u \in Side \ {s} : fin'[u] = fin[u]
  BY StopEffect
<1>2. OwnerFree(t)' <=> OwnerFree(t)
  BY StopKeeps
<1>3. \A c \in Stopper : fin'[t][c] \in {"kill", "wait"} => fin[t][c] = fin'[t][c]
  BY <1>1
<1>4. t # s => (NoStop(t)' <=> NoStop(t))
  BY <1>1 DEF NoStop
<1>5. (\A c \in Stopper : fin[t][c] = "wait" => status[t] \in {"stopped", "gone"})'
  BY <1>3 DEF SideControl
<1>6. (\A c, d \in Stopper :
         fin[t][c] \in {"kill", "wait"} /\ fin[t][d] \in {"kill", "wait"} => c = d)'
  BY <1>3 DEF SideControl
<1> QED
  BY <1>2, <1>4, <1>5, <1>6 DEF SideControl

LEMMA InitControl == Init => ControlInv
BY DEF Init, ControlInv, SideControl, OwnerFree, NoStop, NoDel, Open

LEMMA NextControl == TypeOK /\ ControlInv /\ ServiceInv /\ [Next]_vars => ControlInv'
<1> SUFFICES ASSUME TypeOK, ControlInv, ServiceInv, [Next]_vars PROVE ControlInv'
  OBVIOUS
<1> USE DEF TypeOK, ControlInv, SideControl, Ended
<1>1. ASSUME NEW s \in Side, CreateSide(s) PROVE ControlInv'
  BY <1>1 DEF CreateSide, control, Go, ParentFree, Working, Serving, OwnerFree, NoStop
<1>2. ASSUME NEW s \in Side, DeleteSide(s) PROVE ControlInv'
  BY <1>2 DEF DeleteSide, control, OwnerFree, Serving, NoStop
<1>3. ASSUME NEW s \in Side, NEW c \in Client, StopSide(s, c) PROVE ControlInv'
  <2>1. Stop(s, c, "mark") /\ c \in Stopper /\ fin[s][c] # "kill"
    BY <1>3 DEF StopSide, Stopper
  <2>2. up /\ s \in active
    BY <1>3 DEF StopSide, CanStop, Serving
  <2>3. status[s] # "none"
    BY <2>2
  <2>8. \A t \in Side : SideControl(t)'
    BY <1>3, <2>1, <2>2, <2>3, QuietMove DEF StopSide
  <2> QED
    BY <1>3, <2>8 DEF StopSide
<1>4. ASSUME NEW s \in Side, Loop(s) PROVE ControlInv'
  BY <1>4 DEF Loop, At, Go, Move, WorkerRest, OwnerFree, NoStop
<1>5. ASSUME NEW s \in Side, Model(s) PROVE ControlInv'
  BY <1>5 DEF Model, Accepts, At, Go, Move, Fail, WorkerRest, OwnerFree, NoStop
<1>6. ASSUME NEW s \in Side, Text(s) PROVE ControlInv'
  BY <1>6 DEF Text, At, Go, Move, Record, OwnerFree, WorkerRest, NoStop
<1>7. ASSUME NEW s \in Side, Expire(s) PROVE ControlInv'
  BY <1>7 DEF Expire, At, Go, Move, Record, OwnerFree, WorkerRest, NoStop
<1>8. ASSUME NEW s \in Side, Call(s) PROVE ControlInv'
  BY <1>8 DEF Call, Accepts, At, Go, Move, Fail, OwnerFree, WorkerRest, NoStop
<1>9. ASSUME NEW s \in Side, Tool(s) PROVE ControlInv'
  BY <1>9 DEF Tool, At, Go, Move, WorkerRest, OwnerFree, NoStop
<1>10. ASSUME NEW s \in Side, Yield(s) PROVE ControlInv'
  BY <1>10 DEF Yield, Go, Move, Return, Accepts, Fail, WorkerRest, OwnerFree, NoStop
<1>11. ASSUME NEW s \in Side, TerminateDone(s) PROVE ControlInv'
  BY <1>11 DEF TerminateDone, At, Go, Move, Return, Accepts, Fail, WorkerRest, OwnerFree, NoStop
<1>12. ASSUME NEW s \in Side, ToolDropped(s) PROVE ControlInv'
  BY <1>12 DEF ToolDropped, Go, Move, WorkerRest, OwnerFree, NoStop
<1>13. ASSUME NEW s \in Side, Leave(s) PROVE ControlInv'
  BY <1>13 DEF Leave, At, Go, Move, WorkerRest, OwnerFree, NoStop
<1>14. ASSUME NEW s \in Side, Unregister(s) PROVE ControlInv'
  BY <1>14 DEF Unregister, At, Go, Move, WorkerRest, OwnerFree, NoStop
<1>15. ASSUME NEW s \in Side, RecordFailure(s) PROVE ControlInv'
  BY <1>15 DEF RecordFailure, At, Go, Move, Record, OwnerFree, WorkerRest, NoStop
<1>16. ASSUME NEW s \in Side, NEW b \in Stopper, FinMark(s, b) PROVE ControlInv'
  <2>1. Stop(s, b, "lock") /\ fin[s][b] = "mark"
    BY <1>16 DEF FinMark
  <2>2. up /\ status[s] # "none"
    BY <2>1 DEF NoStop
  <2>8. \A t \in Side : SideControl(t)'
    BY <1>16, <2>1, <2>2, QuietMove DEF FinMark, FinRest
  <2> QED
    BY <1>16, <2>8 DEF FinMark, FinRest
<1>17. ASSUME NEW s \in Side, NEW b \in Stopper, FinCheck(s, b) PROVE ControlInv'
  <2>0. fin[s][b] = "lock" /\ up /\ status[s] # "none"
    BY <1>17 DEF FinCheck, NoStop
  <2>1. CASE status[s] # "working"
    <3>1. Stop(s, b, "none") /\ stop' = stop
      BY <1>17, <2>1 DEF FinCheck, Answer
    <3>2. \A t \in Side : SideControl(t)'
      BY <1>17, <2>0, <3>1, QuietMove DEF FinCheck, FinRest
    <3> QED
      BY <1>17, <3>2 DEF FinCheck, FinRest
  <2>2. CASE status[s] = "working"
    <3>1. Stop(s, b, "kill") /\ stop' = stop \cup {s} /\ OwnerFree(s)
      BY <1>17, <2>2 DEF FinCheck
    <3>2. /\ fin'[s][b] = "kill"
          /\ \A d \in Stopper \ {b} : fin'[s][d] = fin[s][d]
          /\ \A t \in Side \ {s} : fin'[t] = fin[t]
      BY <3>1, StopEffect
    <3>3. \A d \in Stopper \ {b} : fin'[s][d] \notin {"kill", "wait"}
      BY <2>2, <3>1, <3>2 DEF OwnerFree
    <3>4. SideControl(s)'
      BY <1>17, <2>0, <2>2, <3>1, <3>2, <3>3 DEF FinCheck, FinRest, OwnerFree
    <3>5. \A t \in Side \ {s} : SideControl(t)'
      BY <1>17, <3>1, <3>2 DEF FinCheck, FinRest, OwnerFree, NoStop
    <3> QED
      BY <1>17, <2>0, <3>4, <3>5 DEF FinCheck, FinRest
  <2> QED
    BY <2>1, <2>2
<1>18. ASSUME NEW s \in Side, NEW b \in Stopper, FinRecord(s, b) PROVE ControlInv'
  <2>0. fin[s][b] = "kill" /\ up /\ status[s] # "none"
    BY <1>18 DEF FinRecord, NoStop
  <2>1. PICK pc \in {"none", "wait"} : Stop(s, b, pc) /\ (pc = "wait" => status[s] = "working")
    BY <1>18 DEF FinRecord, Answer
  <2>2. /\ fin'[s][b] = pc
        /\ \A d \in Stopper \ {b} : fin'[s][d] = fin[s][d]
        /\ \A t \in Side \ {s} : fin'[t] = fin[t]
    BY <2>1, StopEffect
  <2>3. /\ status'[s] = (IF status[s] = "working" THEN "stopped" ELSE status[s])
        /\ \A t \in Side \ {s} : status'[t] = status[t]
    BY <1>18 DEF FinRecord, Record
  <2>4. \A d \in Stopper \ {b} : fin'[s][d] \notin {"kill", "wait"}
    BY <2>0, <2>2
  <2>5. SideControl(s)'
    <3>1. status'[s] \notin {"none", "working"} /\ (status[s] \in {"stopped", "gone"} => status'[s] = status[s])
      BY <2>0, <2>3
    <3>2. (\A d \in Stopper : fin[s][d] = "wait" => status[s] \in {"stopped", "gone"})'
      BY <2>1, <2>2, <2>3, <2>4
    <3>3. (\A c, d \in Stopper :
             fin[s][c] \in {"kill", "wait"} /\ fin[s][d] \in {"kill", "wait"} => c = d)'
      BY <2>4
    <3>4. UNCHANGED <<up, parent, worker, failed, stop, active, del>>
      BY <1>18 DEF FinRecord, FinRest
    <3>5. ~(del.pc = "agent" \/ ~parent) \/ status[s] = "gone"
      BY <2>0
    <3>6. (del.pc = "agent" \/ ~parent => status[s] \in {"none", "gone"})'
      BY <2>3, <3>4, <3>5
    <3> QED
      BY <2>0, <3>1, <3>2, <3>3, <3>4, <3>6
  <2>6. \A t \in Side \ {s} : SideControl(t)'
    BY <1>18, <2>2, <2>3 DEF FinRecord, FinRest, OwnerFree, NoStop
  <2> QED
    BY <1>18, <2>0, <2>5, <2>6 DEF FinRecord, FinRest
<1>19. ASSUME NEW s \in Side, NEW b \in Stopper, FinDone(s, b) PROVE ControlInv'
  <2>1. Stop(s, b, "none") /\ fin[s][b] = "wait"
    BY <1>19 DEF FinDone, Answer
  <2>2. up /\ status[s] # "none"
    BY <2>1 DEF NoStop
  <2>8. \A t \in Side : SideControl(t)'
    BY <1>19, <2>1, <2>2, QuietMove DEF FinDone, FinRest
  <2> QED
    BY <1>19, <2>8 DEF FinDone, FinRest
<1>20. ASSUME NEW s \in Side, DeleteNext(s) PROVE ControlInv'
  <2>1. CASE CanStop(s)
    <3>1. Stop(s, "delete", "mark") /\ "delete" \in Stopper /\ s \in active
      BY <1>20, <2>1 DEF DeleteNext, CanStop, Stopper
    <3>2. fin[s]["delete"] # "kill" /\ up /\ status[s] # "none"
      BY <1>20, <3>1 DEF DeleteNext, ServiceInv
    <3>3. del'.pc = "wait"
      BY <1>20, <2>1 DEF DeleteNext
    <3>4. \A t \in Side : SideControl(t)'
      BY <1>20, <3>1, <3>2, <3>3, QuietMove DEF DeleteNext
    <3> QED
      BY <1>20, <3>2, <3>4 DEF DeleteNext
  <2>2. CASE ~CanStop(s)
    BY <1>20, <2>2 DEF DeleteNext, NoDel, OwnerFree, NoStop
  <2> QED
    BY <2>1, <2>2
<1>21. ASSUME NEW s \in Side, DeleteReply(s) PROVE ControlInv'
  BY <1>21 DEF DeleteReply, NoDel, OwnerFree, NoStop
<1>22. ASSUME NEW s \in Side, ShutNext(s) PROVE ControlInv'
  <2>1. CASE CanStop(s)
    <3>1. Stop(s, "shutdown", "mark") /\ "shutdown" \in Stopper /\ s \in active
      BY <1>22, <2>1 DEF ShutNext, CanStop, Stopper
    <3>2. fin[s]["shutdown"] # "kill"
      BY <1>22, <3>1, ShutNextAlone DEF NoStop
    <3>3. up /\ status[s] # "none"
      BY <1>22, <3>1 DEF ShutNext
    <3>4. \A t \in Side : SideControl(t)'
      BY <1>22, <3>1, <3>2, <3>3, QuietMove DEF ShutNext, ShutRest
    <3> QED
      BY <1>22, <3>3, <3>4 DEF ShutNext, ShutRest
  <2>2. CASE ~CanStop(s)
    BY <1>22, <2>2 DEF ShutNext, ShutError, ShutRest, OwnerFree, NoStop
  <2> QED
    BY <2>1, <2>2
<1>23. ASSUME NEW s \in Side, ShutReply(s) PROVE ControlInv'
  BY <1>23 DEF ShutReply, ShutError, Working, ShutRest, OwnerFree, NoStop
<1>24. ASSUME DeleteBegin PROVE ControlInv'
  BY <1>24 DEF DeleteBegin, Serving, ParentFree, Working, OwnerFree, NoStop
<1>25. ASSUME DeleteSides PROVE ControlInv'
  BY <1>25 DEF DeleteSides, OwnerFree, NoStop
<1>26. ASSUME DeleteParent PROVE ControlInv'
  BY <1>26 DEF DeleteParent, NoDel, OwnerFree, NoStop
<1>27. ASSUME ShutBegin PROVE ControlInv'
  BY <1>27 DEF ShutBegin, Serving, Open, ShutRest, OwnerFree, NoStop
<1>28. ASSUME ShutSnapshot PROVE ControlInv'
  BY <1>28 DEF ShutSnapshot, ParentFree, NoStop, ShutRest, OwnerFree
<1>29. ASSUME Down PROVE ControlInv'
  BY <1>29 DEF Down, NoDel, Open, OwnerFree, NoStop
<1>30. ASSUME Boot PROVE ControlInv'
  BY <1>30 DEF Boot, Orphan, control, OwnerFree, NoStop
<1>31. ASSUME NEW s \in Side, NEW p \in Process, LeaderExit(s, p),
            UNCHANGED <<up, parent, status, control>>
     PROVE  ControlInv'
  BY <1>31 DEF control, OwnerFree, NoStop
<1>32. CASE UNCHANGED vars
  BY <1>32 DEF vars, control, OwnerFree, NoStop
<1> QED
  BY <1>1, <1>2, <1>3, <1>4, <1>5, <1>6, <1>7, <1>8, <1>9,
     <1>10, <1>11, <1>12, <1>13, <1>14, <1>15, <1>16, <1>17, <1>18,
     <1>19, <1>20, <1>21, <1>22, <1>23, <1>24, <1>25, <1>26, <1>27,
     <1>28, <1>29, <1>30, <1>31, <1>32
  DEF Next, Request, Deletion, Shutdown, Environment, Worker, Finalizer

(* Last the bash processes: one that runs has a session, or somebody will  *)
(* kill it, or its termination was dropped.                                *)
SideTerminals(s) ==
  /\ alive[s] \subseteq sessions[s] \cup killing[s]["worker"] \cup killing[s]["finalizer"]
                        \cup dropped[s]
  /\ worker[s] \in {"kill", "record", "done"} => sessions[s] = {}
  /\ worker[s] \in {"record", "done"} => killing[s]["worker"] = {}
  /\ OwnerFree(s) => killing[s]["finalizer"] = {}

TerminalInv == \A s \in Side : SideTerminals(s)

LEMMA InitTerminal == Init => TerminalInv
BY DEF Init, TerminalInv, SideTerminals, TerminalsInit, Side, Terminator

(* What a termination, and the KILL that ends it, change.                  *)
LEMMA TerminateEffect ==
  ASSUME TypeOK, NEW s \in Side, NEW t \in Terminator, NEW ps, Terminate(s, t, ps)
  PROVE  /\ sessions'[s] = sessions[s] \ ps
         /\ alive'[s] = alive[s]
         /\ killing'[s][t] = ps \cap sessions[s] \cap alive[s]
         /\ \A u \in Terminator \ {t} : killing'[s][u] = killing[s][u]
         /\ dropped'[s] = dropped[s] \cup killing[s][t]
         /\ \A r \in Side \ {s} : /\ sessions'[r] = sessions[r] /\ alive'[r] = alive[r]
                               /\ killing'[r] = killing[r] /\ dropped'[r] = dropped[r]
<1> USE DEF TypeOK, TerminalsTypeOK, Side
<1>1. killing' = [killing EXCEPT ![s] = [killing[s] EXCEPT ![t] = ps \cap sessions[s] \cap alive[s]]]
  BY DEF Terminate
<1>2. /\ killing'[s] = [killing[s] EXCEPT ![t] = ps \cap sessions[s] \cap alive[s]]
      /\ \A r \in Side \ {s} : killing'[r] = killing[r]
  BY <1>1
<1>3. killing[s] \in [Terminator -> SUBSET Process]
  OBVIOUS
<1> QED
  BY <1>2, <1>3 DEF Terminate

LEMMA KillEffect ==
  ASSUME TypeOK, NEW s \in Side, NEW t \in Terminator, Kill(s, t)
  PROVE  /\ alive'[s] = alive[s] \ killing[s][t]
         /\ killing'[s][t] = {}
         /\ \A u \in Terminator \ {t} : killing'[s][u] = killing[s][u]
         /\ sessions' = sessions /\ dropped' = dropped
         /\ \A r \in Side \ {s} : alive'[r] = alive[r] /\ killing'[r] = killing[r]
<1> USE DEF TypeOK, TerminalsTypeOK, Side
<1>1. killing' = [killing EXCEPT ![s] = [killing[s] EXCEPT ![t] = {}]]
  BY DEF Kill
<1>2. /\ killing'[s] = [killing[s] EXCEPT ![t] = {}]
      /\ \A r \in Side \ {s} : killing'[r] = killing[r]
  BY <1>1
<1>3. killing[s] \in [Terminator -> SUBSET Process]
  OBVIOUS
<1> QED
  BY <1>2, <1>3 DEF Kill

(* A Side whose terminals are left alone, while its worker does not go on  *)
(* to its end and its owner lock is not released.                          *)
LEMMA TerminalsIdle ==
  ASSUME NEW s \in Side, SideTerminals(s),
         sessions'[s] = sessions[s], alive'[s] = alive[s],
         killing'[s] = killing[s], dropped'[s] = dropped[s],
         worker'[s] \in {"kill", "record", "done"} => worker[s] \in {"kill", "record", "done"},
         worker'[s] \in {"record", "done"} => worker[s] \in {"record", "done"},
         OwnerFree(s)' => OwnerFree(s)
  PROVE  SideTerminals(s)'
BY DEF SideTerminals

LEMMA NextTerminal == TypeOK /\ ServiceInv /\ TerminalInv /\ [Next]_vars => TerminalInv'
<1> SUFFICES ASSUME TypeOK, ServiceInv, TerminalInv, [Next]_vars PROVE TerminalInv'
  OBVIOUS
<1>0. /\ sessions \in [Side -> SUBSET Process] /\ alive \in [Side -> SUBSET Process]
      /\ killing \in [Side -> [Terminator -> SUBSET Process]] /\ dropped \in [Side -> SUBSET Process]
  BY DEF TypeOK, TerminalsTypeOK, Side
<1> USE <1>0 DEF TypeOK, TerminalInv
<1>1. ASSUME NEW s \in Side, CreateSide(s) PROVE TerminalInv'
  BY <1>1, TerminalsIdle DEF CreateSide, control, Go, OwnerFree, terminals
<1>2. ASSUME NEW s \in Side, DeleteSide(s) PROVE TerminalInv'
  BY <1>2, TerminalsIdle DEF DeleteSide, control, OwnerFree, terminals
<1>3. ASSUME NEW s \in Side, NEW c \in Client, StopSide(s, c) PROVE TerminalInv'
  <2>1. Stop(s, c, "mark") /\ c \in Stopper /\ fin[s][c] # "kill"
    BY <1>3 DEF StopSide, Stopper
  <2>9. \A t \in Side : OwnerFree(t)' => OwnerFree(t)
    BY <2>1, StopKeeps
  <2> QED
    BY <1>3, <2>9, TerminalsIdle DEF StopSide, terminals
<1>4. ASSUME NEW s \in Side, Loop(s) PROVE TerminalInv'
  BY <1>4, TerminalsIdle DEF Loop, At, Go, Move, WorkerRest, OwnerFree, terminals
<1>5. ASSUME NEW s \in Side, Model(s) PROVE TerminalInv'
  BY <1>5, TerminalsIdle DEF Model, At, Go, Move, Fail, WorkerRest, OwnerFree, terminals
<1>6. ASSUME NEW s \in Side, Text(s) PROVE TerminalInv'
  BY <1>6, TerminalsIdle DEF Text, At, Go, Move, WorkerRest, OwnerFree, terminals
<1>7. ASSUME NEW s \in Side, Expire(s) PROVE TerminalInv'
  BY <1>7, TerminalsIdle DEF Expire, At, Go, Move, WorkerRest, OwnerFree, terminals
<1>8. ASSUME NEW s \in Side, Call(s) PROVE TerminalInv'
  BY <1>8, TerminalsIdle DEF Call, At, Go, Move, Fail, WorkerRest, OwnerFree, terminals
<1>9. ASSUME NEW s \in Side, Tool(s) PROVE TerminalInv'
  <2>1. ASSUME Exec(s), Move(s, "yield") PROVE TerminalInv'
    <3>1. \A t \in Side \ {s} : SideTerminals(t)'
      BY <1>9, <2>1, TerminalsIdle DEF Tool, Go, Move, Exec, OwnerFree, Side, WorkerRest
    <3>2. SideTerminals(s)'
      BY <1>9, <2>1 DEF Tool, At, Go, Move, Exec, SideTerminals, OwnerFree, Side, WorkerRest
    <3> QED
      BY <3>1, <3>2
  <2>2. ASSUME NEW ps, Terminate(s, "worker", ps), Move(s, "terminate") PROVE TerminalInv'
    <3>1. \A t \in Side \ {s} : SideTerminals(t)'
      BY <1>9, <2>2, TerminateEffect, TerminalsIdle DEF Tool, Go, Move, Terminator, OwnerFree, WorkerRest
    <3>2. /\ sessions'[s] = sessions[s] \ ps /\ alive'[s] = alive[s]
          /\ killing'[s]["worker"] = ps \cap sessions[s] \cap alive[s]
          /\ killing'[s]["finalizer"] = killing[s]["finalizer"]
          /\ dropped'[s] = dropped[s] \cup killing[s]["worker"]
      BY <2>2, TerminateEffect DEF Terminator
    <3>3. worker'[s] = "terminate" /\ (OwnerFree(s)' <=> OwnerFree(s))
      BY <1>9, <2>2 DEF Tool, Go, Move, OwnerFree, WorkerRest
    <3>4. SideTerminals(s)'
      BY <3>2, <3>3 DEF SideTerminals
    <3> QED
      BY <3>1, <3>4
  <2> QED
    BY <1>9, <2>1, <2>2 DEF Tool
<1>10. ASSUME NEW s \in Side, Yield(s) PROVE TerminalInv'
  <2>1. PICK pc \in {"call", "loop", "leave"} : Go(s, pc)
    BY <1>10 DEF Yield, Return, Move, Fail
  <2>2. UNCHANGED <<alive, killing, dropped, fin>>
    BY <1>10 DEF Yield, Reap, WorkerRest
  <2>3. /\ sessions[s] \cap alive[s] \subseteq sessions'[s]
        /\ \A t \in Side \ {s} : sessions'[t] = sessions[t]
    <3>1. CASE UNCHANGED sessions
      BY <3>1
    <3>2. ASSUME NEW p \in sessions[s] \ alive[s], sessions' = [sessions EXCEPT ![s] = @ \ {p}]
          PROVE  /\ sessions[s] \cap alive[s] \subseteq sessions'[s]
                 /\ \A t \in Side \ {s} : sessions'[t] = sessions[t]
      BY <3>2
    <3> QED
      BY <1>10, <3>1, <3>2 DEF Yield, Reap
  <2>4. \A t \in Side \ {s} : SideTerminals(t)'
    BY <2>1, <2>2, <2>3, TerminalsIdle DEF Go, OwnerFree
  <2>5. worker'[s] \notin {"kill", "record", "done"} /\ (OwnerFree(s)' <=> OwnerFree(s))
    BY <2>1, <2>2 DEF Go, OwnerFree
  <2>6. SideTerminals(s)'
    BY <2>2, <2>3, <2>5 DEF SideTerminals
  <2> QED
    BY <2>4, <2>6
<1>11. ASSUME NEW s \in Side, TerminateDone(s) PROVE TerminalInv'
  <2>1. PICK pc \in {"call", "loop", "leave"} : Go(s, pc)
    BY <1>11 DEF TerminateDone, Return, Move, Fail
  <2>5. Kill(s, "worker") /\ At(s, "terminate")
    BY <1>11 DEF TerminateDone
  <2>2. \A t \in Side \ {s} : SideTerminals(t)'
    BY <1>11, <2>1, <2>5, KillEffect, TerminalsIdle DEF TerminateDone, Terminator, OwnerFree, WorkerRest, FinRest, Go, At
  <2>3. SideTerminals(s)'
    BY <1>11, <2>1, <2>5, KillEffect DEF TerminateDone, SideTerminals, Terminator, OwnerFree, WorkerRest, FinRest, Go, At
  <2> QED
    BY <2>2, <2>3
<1>12. ASSUME NEW s \in Side, ToolDropped(s) PROVE TerminalInv'
  BY <1>12, TerminalsIdle DEF ToolDropped, Go, Move, WorkerRest, OwnerFree, terminals
<1>13. ASSUME NEW s \in Side, Leave(s) PROVE TerminalInv'
  <2>1. Terminate(s, "worker", sessions[s]) /\ worker' = [worker EXCEPT ![s] = "kill"]
    BY <1>13 DEF Leave, Move, Go
  <2>2. \A t \in Side \ {s} : SideTerminals(t)'
    BY <1>13, <2>1, TerminateEffect, TerminalsIdle DEF Leave, Move, Go, Terminator, OwnerFree, WorkerRest, FinRest
  <2>3. /\ sessions'[s] = {} /\ alive'[s] = alive[s]
        /\ killing'[s]["worker"] = sessions[s] \cap alive[s]
        /\ killing'[s]["finalizer"] = killing[s]["finalizer"]
        /\ dropped'[s] = dropped[s] \cup killing[s]["worker"]
    BY <2>1, TerminateEffect DEF Terminator
  <2>4. worker'[s] = "kill" /\ (OwnerFree(s)' <=> OwnerFree(s))
    BY <1>13, <2>1 DEF Leave, OwnerFree, WorkerRest
  <2>5. SideTerminals(s)'
    BY <2>3, <2>4 DEF SideTerminals
  <2> QED
    BY <2>2, <2>5
<1>14. ASSUME NEW s \in Side, Unregister(s) PROVE TerminalInv'
  <2>1. Kill(s, "worker") /\ worker[s] = "kill"
    BY <1>14 DEF Unregister, At
  <2>2. \A t \in Side \ {s} : SideTerminals(t)'
    BY <1>14, <2>1, KillEffect, TerminalsIdle DEF Unregister, At, Terminator, OwnerFree, WorkerRest, FinRest, Go
  <2>3. /\ sessions'[s] = sessions[s] /\ alive'[s] = alive[s] \ killing[s]["worker"]
        /\ killing'[s]["worker"] = {}
        /\ killing'[s]["finalizer"] = killing[s]["finalizer"]
        /\ dropped'[s] = dropped[s]
    BY <2>1, KillEffect DEF Terminator
  <2>4. OwnerFree(s)' <=> OwnerFree(s)
    BY <1>14 DEF Unregister, OwnerFree, WorkerRest
  <2>5. SideTerminals(s)'
    BY <2>1, <2>3, <2>4 DEF SideTerminals
  <2> QED
    BY <2>2, <2>5
<1>15. ASSUME NEW s \in Side, RecordFailure(s) PROVE TerminalInv'
  BY <1>15, TerminalsIdle DEF RecordFailure, At, Go, Move, WorkerRest, OwnerFree, terminals
<1>16. ASSUME NEW s \in Side, NEW b \in Stopper, FinMark(s, b) PROVE TerminalInv'
  <2>1. Stop(s, b, "lock") /\ fin[s][b] = "mark"
    BY <1>16 DEF FinMark
  <2>9. \A t \in Side : OwnerFree(t)' => OwnerFree(t)
    BY <2>1, StopKeeps
  <2> QED
    BY <1>16, <2>9, TerminalsIdle DEF FinMark, FinRest, terminals
<1>17. ASSUME NEW s \in Side, NEW b \in Stopper, FinCheck(s, b) PROVE TerminalInv'
  <2>1. CASE status[s] # "working"
    <3>1. Stop(s, b, "none") /\ fin[s][b] = "lock"
      BY <1>17, <2>1 DEF FinCheck, Answer
    <3>2. \A t \in Side : OwnerFree(t)' => OwnerFree(t)
      BY <3>1, StopKeeps
    <3> QED
      BY <1>17, <2>1, <3>2, TerminalsIdle DEF FinCheck, FinRest, terminals
  <2>2. CASE status[s] = "working"
    <3>1. Stop(s, b, "kill") /\ Terminate(s, "finalizer", sessions[s]) /\ OwnerFree(s)
      BY <1>17, <2>2 DEF FinCheck
    <3>2. ~OwnerFree(s)' /\ \A t \in Side \ {s} : fin'[t] = fin[t]
      BY <3>1, StopEffect DEF OwnerFree
    <3>3. \A t \in Side \ {s} : SideTerminals(t)'
      BY <1>17, <3>1, <3>2, TerminateEffect, TerminalsIdle DEF FinCheck, Terminator, OwnerFree, FinRest
    <3>4. SideTerminals(s)'
      BY <1>17, <3>1, <3>2, TerminateEffect DEF FinCheck, SideTerminals, Terminator, FinRest
    <3> QED
      BY <3>3, <3>4
  <2> QED
    BY <2>1, <2>2
<1>18. ASSUME NEW s \in Side, NEW b \in Stopper, FinRecord(s, b) PROVE TerminalInv'
  <2>1. PICK pc \in {"none", "wait"} : Stop(s, b, pc)
    BY <1>18 DEF FinRecord, Answer
  <2>2. Kill(s, "finalizer")
    BY <1>18 DEF FinRecord
  <2>3. \A t \in Side \ {s} : SideTerminals(t)'
    BY <1>18, <2>1, <2>2, StopEffect, KillEffect, TerminalsIdle DEF FinRecord, Terminator, OwnerFree, FinRest
  <2>4. SideTerminals(s)'
    BY <1>18, <2>2, KillEffect DEF FinRecord, SideTerminals, Terminator, FinRest
  <2> QED
    BY <2>3, <2>4
<1>19. ASSUME NEW s \in Side, NEW b \in Stopper, FinDone(s, b) PROVE TerminalInv'
  <2>1. Stop(s, b, "none") /\ fin[s][b] = "wait"
    BY <1>19 DEF FinDone, Answer
  <2>9. \A t \in Side : OwnerFree(t)' => OwnerFree(t)
    BY <2>1, StopKeeps
  <2> QED
    BY <1>19, <2>9, TerminalsIdle DEF FinDone, FinRest, terminals
<1>20. ASSUME NEW s \in Side, DeleteNext(s) PROVE TerminalInv'
  <2>1. \A t \in Side : OwnerFree(t)' => OwnerFree(t)
    <3>1. CASE CanStop(s)
      <4>1. Stop(s, "delete", "mark") /\ "delete" \in Stopper
        BY <1>20, <3>1 DEF DeleteNext, Stopper
      <4>2. fin[s]["delete"] = "none"
        BY <1>20 DEF DeleteNext, ServiceInv
      <4> QED
        BY <4>1, <4>2, StopKeeps
    <3>2. CASE ~CanStop(s)
      BY <1>20, <3>2 DEF DeleteNext, OwnerFree
    <3> QED
      BY <3>1, <3>2
  <2> QED
    BY <1>20, <2>1, TerminalsIdle DEF DeleteNext, terminals
<1>21. ASSUME NEW s \in Side, DeleteReply(s) PROVE TerminalInv'
  BY <1>21, TerminalsIdle DEF DeleteReply, OwnerFree, terminals
<1>22. ASSUME NEW s \in Side, ShutNext(s) PROVE TerminalInv'
  <2>1. \A t \in Side : OwnerFree(t)' => OwnerFree(t)
    <3>1. CASE CanStop(s)
      <4>1. Stop(s, "shutdown", "mark") /\ "shutdown" \in Stopper
        BY <1>22, <3>1 DEF ShutNext, Stopper
      <4>2. fin[s]["shutdown"] = "none"
        BY <1>22, <4>1, ShutNextAlone DEF NoStop
      <4> QED
        BY <4>1, <4>2, StopKeeps
    <3>2. CASE ~CanStop(s)
      BY <1>22, <3>2 DEF ShutNext, OwnerFree
    <3> QED
      BY <3>1, <3>2
  <2> QED
    BY <1>22, <2>1, TerminalsIdle DEF ShutNext, ShutRest, terminals
<1>23. ASSUME NEW s \in Side, ShutReply(s) PROVE TerminalInv'
  BY <1>23, TerminalsIdle DEF ShutReply, ShutRest, OwnerFree, terminals
<1>24. ASSUME DeleteBegin PROVE TerminalInv'
  BY <1>24, TerminalsIdle DEF DeleteBegin, OwnerFree, terminals
<1>25. ASSUME DeleteSides PROVE TerminalInv'
  BY <1>25, TerminalsIdle DEF DeleteSides, OwnerFree, terminals
<1>26. ASSUME DeleteParent PROVE TerminalInv'
  BY <1>26, TerminalsIdle DEF DeleteParent, OwnerFree, terminals
<1>27. ASSUME ShutBegin PROVE TerminalInv'
  BY <1>27, TerminalsIdle DEF ShutBegin, ShutRest, OwnerFree, terminals
<1>28. ASSUME ShutSnapshot PROVE TerminalInv'
  BY <1>28, TerminalsIdle DEF ShutSnapshot, ShutRest, OwnerFree, terminals
<1>29. ASSUME Down PROVE TerminalInv'
  BY <1>29 DEF Down, LoseTerminals, SideTerminals, Side, Terminator
<1>30. ASSUME Boot PROVE TerminalInv'
  BY <1>30, TerminalsIdle DEF Boot, control, OwnerFree, terminals
<1>31. ASSUME NEW s \in Side, NEW p \in Process, LeaderExit(s, p),
            UNCHANGED <<up, parent, status, control>>
     PROVE  TerminalInv'
  <2>1. killing'[s] = [t \in Terminator |-> killing[s][t] \ {p}] /\ \A t \in Side \ {s} : killing'[t] = killing[t]
    BY <1>31 DEF LeaderExit, Side
  <2>2. \A t \in Side \ {s} : SideTerminals(t)'
    BY <1>31, <2>1, TerminalsIdle DEF LeaderExit, control, OwnerFree, Side
  <2>3. /\ alive'[s] = alive[s] \ {p} /\ sessions' = sessions /\ dropped'[s] = dropped[s] \ {p}
        /\ killing'[s]["worker"] = killing[s]["worker"] \ {p}
        /\ killing'[s]["finalizer"] = killing[s]["finalizer"] \ {p}
    BY <1>31, <2>1 DEF LeaderExit, Side, Terminator
  <2>4. SideTerminals(s)'
    BY <1>31, <2>3 DEF SideTerminals, control, OwnerFree
  <2> QED
    BY <2>2, <2>4
<1>32. CASE UNCHANGED vars
  BY <1>32, TerminalsIdle DEF vars, control, OwnerFree, terminals
<1> QED
  BY <1>1, <1>2, <1>3, <1>4, <1>5, <1>6, <1>7, <1>8, <1>9,
     <1>10, <1>11, <1>12, <1>13, <1>14, <1>15, <1>16, <1>17, <1>18,
     <1>19, <1>20, <1>21, <1>22, <1>23, <1>24, <1>25, <1>26, <1>27,
     <1>28, <1>29, <1>30, <1>31, <1>32
  DEF Next, Request, Deletion, Shutdown, Environment, Worker, Finalizer

LEMMA InitService == Init => ServiceInv
BY DEF Init, ServiceInv, Owned, Stopper, NoDel, Open

(* An answer gives up what its stop owned, or hands it over as a reply.    *)
LEMMA AnswerService ==
  ASSUME TypeOK, ServiceInv, NEW s \in Side, NEW b \in Stopper, NEW r \in {"ok", "error"},
         Answer(s, b, r), fin[s][b] # "none", UNCHANGED <<worker, del, shut>>
  PROVE  ServiceInv'
<1>1. /\ fin'[s][b] = "none"
      /\ \A d \in Stopper \ {b} : fin'[s][d] = fin[s][d]
      /\ \A t \in Side \ {s} : fin'[t] = fin[t]
  BY StopEffect DEF Answer
<1>2. /\ \A t \in Side \ {s} : reply'[t] = reply[t]
      /\ reply'[s] # reply[s] => b \in {"delete", "shutdown"}
  BY AnswerEffect
<1>3. {"delete", "shutdown"} \subseteq Stopper
  BY DEF Stopper
<1>4. \A t \in Side : Owned(t)' => Owned(t)
  BY <1>1, <1>2, <1>3 DEF Owned
<1>5. \A t \in Side, d \in Stopper : fin'[t][d] # "none" => fin[t][d] = fin'[t][d]
  BY <1>1
<1>6. reply'[s] # reply[s] => /\ del.pc = "wait" \/ shut.pc = "wait"
                             /\ fin'[s]["delete"] = "none" /\ fin'[s]["shutdown"] = "none"
  <2>1. CASE b = "delete"
    <3>1. del.pc = "wait"
      BY <2>1 DEF ServiceInv
    <3>2. fin[s]["shutdown"] = "none"
      BY <3>1 DEF ServiceInv
    <3> QED
      BY <1>1, <1>3, <2>1, <3>1, <3>2
  <2>2. CASE b = "shutdown"
    <3>1. shut.pc = "wait"
      BY <2>2 DEF ServiceInv
    <3>2. fin[s]["delete"] = "none"
      BY <3>1, <1>3 DEF ServiceInv
    <3> QED
      BY <1>1, <1>3, <2>2, <3>1, <3>2
  <2> QED
    BY <1>2, <2>1, <2>2
<1>7. ASSUME NEW t \in Side
      PROVE  /\ fin'[t]["delete"] # "none" => del.pc = "wait" /\ reply'[t] = "none"
             /\ fin'[t]["shutdown"] # "none" => shut.pc = "wait" /\ reply'[t] = "none"
             /\ reply'[t] # "none" => del.pc = "wait" \/ shut.pc = "wait"
             /\ shut.pc \in {"next", "wait", "stopped", "failed"} =>
                  \A d \in Stopper \ {"shutdown"} : fin'[t][d] = "none"
  BY <1>2, <1>3, <1>5, <1>6 DEF ServiceInv
<1> QED
  BY <1>4, <1>7 DEF ServiceInv

LEMMA NextService == TypeOK /\ ControlInv /\ ServiceInv /\ [Next]_vars => ServiceInv'
<1> SUFFICES ASSUME TypeOK, ControlInv, ServiceInv, [Next]_vars PROVE ServiceInv'
  OBVIOUS
<1> USE DEF TypeOK, ServiceInv, Owned, Stopper
<1>1. ASSUME NEW s \in Side, CreateSide(s) PROVE ServiceInv'
  BY <1>1 DEF CreateSide, control, Go, ParentFree, Working, Serving
<1>2. ASSUME NEW s \in Side, DeleteSide(s) PROVE ServiceInv'
  BY <1>2 DEF DeleteSide, control, OwnerFree, Serving
<1>3. ASSUME NEW s \in Side, NEW c \in Client, StopSide(s, c) PROVE ServiceInv'
  <2>1. Stop(s, c, "mark") /\ c \in Stopper /\ c \notin {"delete", "shutdown"}
    BY <1>3, ClientAssumption DEF StopSide
  <2>2. shut.pc = "open"
    BY <1>3 DEF StopSide, Serving
  <2>8. /\ fin'[s][c] = "mark"
        /\ \A d \in Stopper \ {c} : fin'[s][d] = fin[s][d]
        /\ \A t \in Side \ {s} : fin'[t] = fin[t]
    BY <2>1, StopEffect
  <2> QED
    BY <1>3, <2>1, <2>2, <2>8 DEF StopSide
<1>4. ASSUME NEW s \in Side, Loop(s) PROVE ServiceInv'
  BY <1>4 DEF Loop, At, Go, Move, WorkerRest
<1>5. ASSUME NEW s \in Side, Model(s) PROVE ServiceInv'
  BY <1>5 DEF Model, Accepts, At, Go, Move, Fail, WorkerRest
<1>6. ASSUME NEW s \in Side, Text(s) PROVE ServiceInv'
  BY <1>6 DEF Text, At, Go, Move, Record, OwnerFree, WorkerRest
<1>7. ASSUME NEW s \in Side, Expire(s) PROVE ServiceInv'
  BY <1>7 DEF Expire, At, Go, Move, Record, OwnerFree, WorkerRest
<1>8. ASSUME NEW s \in Side, Call(s) PROVE ServiceInv'
  BY <1>8 DEF Call, Accepts, At, Go, Move, Fail, OwnerFree, WorkerRest
<1>9. ASSUME NEW s \in Side, Tool(s) PROVE ServiceInv'
  BY <1>9 DEF Tool, At, Go, Move, WorkerRest
<1>10. ASSUME NEW s \in Side, Yield(s) PROVE ServiceInv'
  BY <1>10 DEF Yield, Go, Move, Return, Accepts, Fail, WorkerRest
<1>11. ASSUME NEW s \in Side, TerminateDone(s) PROVE ServiceInv'
  BY <1>11 DEF TerminateDone, At, Go, Move, Return, Accepts, Fail, WorkerRest
<1>12. ASSUME NEW s \in Side, ToolDropped(s) PROVE ServiceInv'
  BY <1>12 DEF ToolDropped, Go, Move, WorkerRest
<1>13. ASSUME NEW s \in Side, Leave(s) PROVE ServiceInv'
  BY <1>13 DEF Leave, At, Go, Move, WorkerRest
<1>14. ASSUME NEW s \in Side, Unregister(s) PROVE ServiceInv'
  BY <1>14 DEF Unregister, At, Go, Move, WorkerRest
<1>15. ASSUME NEW s \in Side, RecordFailure(s) PROVE ServiceInv'
  BY <1>15 DEF RecordFailure, At, Go, Move, Record, OwnerFree, WorkerRest
<1>16. ASSUME NEW s \in Side, NEW b \in Stopper, FinMark(s, b) PROVE ServiceInv'
  <2>1. Stop(s, b, "lock") /\ fin[s][b] = "mark"
    BY <1>16 DEF FinMark
  <2>8. /\ fin'[s][b] = "lock"
        /\ \A d \in Stopper \ {b} : fin'[s][d] = fin[s][d]
        /\ \A t \in Side \ {s} : fin'[t] = fin[t]
    BY <2>1, StopEffect
  <2> QED
    BY <1>16, <2>1, <2>8 DEF FinMark, FinRest
<1>17. ASSUME NEW s \in Side, NEW b \in Stopper, FinCheck(s, b) PROVE ServiceInv'
  <2>1. CASE status[s] # "working"
    BY <1>17, <2>1, AnswerService DEF FinCheck, FinRest
  <2>2. CASE status[s] = "working"
    <3>1. Stop(s, b, "kill") /\ fin[s][b] = "lock" /\ reply' = reply
      BY <1>17, <2>2 DEF FinCheck
    <3>2. /\ fin'[s][b] = "kill"
          /\ \A d \in Stopper \ {b} : fin'[s][d] = fin[s][d]
          /\ \A t \in Side \ {s} : fin'[t] = fin[t]
      BY <3>1, StopEffect
    <3> QED
      BY <1>17, <3>1, <3>2 DEF FinCheck, FinRest
  <2> QED
    BY <2>1, <2>2
<1>18. ASSUME NEW s \in Side, NEW b \in Stopper, FinRecord(s, b) PROVE ServiceInv'
  <2>1. CASE status[s] # "working"
    BY <1>18, <2>1, AnswerService DEF FinRecord, FinRest
  <2>2. CASE status[s] = "working"
    <3>1. Stop(s, b, "wait") /\ fin[s][b] = "kill" /\ reply' = reply
      BY <1>18, <2>2 DEF FinRecord
    <3>2. /\ fin'[s][b] = "wait"
          /\ \A d \in Stopper \ {b} : fin'[s][d] = fin[s][d]
          /\ \A t \in Side \ {s} : fin'[t] = fin[t]
      BY <3>1, StopEffect
    <3>3. \A t \in Side, d \in Stopper : fin'[t][d] # "none" <=> fin[t][d] # "none"
      BY <3>1, <3>2
    <3>4. \A t \in Side : Owned(t)' <=> Owned(t)
      BY <3>1, <3>3
    <3> QED
      BY <1>18, <3>1, <3>3, <3>4 DEF FinRecord, FinRest
  <2> QED
    BY <2>1, <2>2
<1>19. ASSUME NEW s \in Side, NEW b \in Stopper, FinDone(s, b) PROVE ServiceInv'
  BY <1>19, AnswerService DEF FinDone, FinRest
<1>20. ASSUME NEW s \in Side, DeleteNext(s) PROVE ServiceInv'
  <2>1. \A t \in Side : ~Owned(t)
    BY <1>20 DEF DeleteNext
  <2>2. CASE CanStop(s)
    <3>1. Stop(s, "delete", "mark") /\ del'.pc = "wait"
      BY <1>20, <2>2 DEF DeleteNext
    <3>8. /\ fin'[s]["delete"] = "mark"
          /\ \A d \in Stopper \ {"delete"} : fin'[s][d] = fin[s][d]
          /\ \A t \in Side \ {s} : fin'[t] = fin[t]
      BY <3>1, StopEffect
    <3> QED
      BY <1>20, <2>1, <2>2, <3>1, <3>8 DEF DeleteNext
  <2>3. CASE ~CanStop(s)
    BY <1>20, <2>1, <2>3 DEF DeleteNext, NoDel
  <2> QED
    BY <2>2, <2>3
<1>21. ASSUME NEW s \in Side, DeleteReply(s) PROVE ServiceInv'
  BY <1>21 DEF DeleteReply, NoDel
<1>22. ASSUME NEW s \in Side, ShutNext(s) PROVE ServiceInv'
  <2>1. \A t \in Side : NoStop(t) /\ ~Owned(t)
    BY <1>22, ShutNextAlone
  <2>2. CASE CanStop(s)
    <3>1. Stop(s, "shutdown", "mark") /\ shut.pc = "next" /\ shut'.pc = "wait"
      BY <1>22, <2>2 DEF ShutNext
    <3>2. /\ \A d \in Stopper \ {"shutdown"} : fin'[s][d] = fin[s][d]
          /\ \A t \in Side \ {s} : fin'[t] = fin[t]
      BY <3>1, StopEffect
    <3>3. \A t \in Side, d \in Stopper \ {"shutdown"} : fin'[t][d] = "none"
      BY <2>1, <3>2 DEF NoStop
    <3>4. \A t \in Side \ {s} : ~Owned(t)'
      BY <1>22, <2>1, <3>2 DEF ShutNext
    <3>5. \A t \in Side : reply'[t] = "none"
      BY <1>22, <2>1 DEF ShutNext
    <3>6. fin'[s]["delete"] = "none" /\ \A t \in Side \ {s} : fin'[t]["shutdown"] = "none"
      BY <3>3, <3>4
    <3> QED
      BY <1>22, <3>1, <3>3, <3>4, <3>5, <3>6 DEF ShutNext, ShutRest
  <2>3. CASE ~CanStop(s)
    <3>1. shut' = ShutError(s) /\ shut.pc = "next" /\ UNCHANGED fin
      BY <1>22, <2>3 DEF ShutNext
    <3>2. shut'.pc = "next"
      BY <3>1 DEF ShutError
    <3> QED
      BY <1>22, <2>1, <3>1, <3>2 DEF ShutNext, ShutRest
  <2> QED
    BY <2>2, <2>3
<1>23. ASSUME NEW s \in Side, ShutReply(s) PROVE ServiceInv'
  BY <1>23 DEF ShutReply, ShutError, Working, ShutRest
<1>24. ASSUME DeleteBegin PROVE ServiceInv'
  BY <1>24 DEF DeleteBegin, Serving, ParentFree, Working
<1>25. ASSUME DeleteSides PROVE ServiceInv'
  BY <1>25 DEF DeleteSides
<1>26. ASSUME DeleteParent PROVE ServiceInv'
  BY <1>26 DEF DeleteParent, NoDel
<1>27. ASSUME ShutBegin PROVE ServiceInv'
  BY <1>27 DEF ShutBegin, Serving, Open, ShutRest
<1>28. ASSUME ShutSnapshot PROVE ServiceInv'
  <2>1. \A s \in Side : ~Owned(s) /\ \A b \in Stopper : fin[s][b] = "none"
    BY <1>28 DEF ShutSnapshot, ParentFree, NoStop
  <2>2. del.pc = "none" /\ shut'.pc \in {"failed", "stopped", "next"}
    BY <1>28 DEF ShutSnapshot, ParentFree
  <2>3. shut'.pc = "stopped" => active = {}
    BY <1>28 DEF ShutSnapshot
  <2>4. active = {} => \A s \in Side : worker[s] \in {"record", "done"}
    BY DEF ControlInv, SideControl
  <2>5. UNCHANGED <<fin, reply, del, worker>>
    BY <1>28 DEF ShutSnapshot, ShutRest
  <2> QED
    BY <2>1, <2>2, <2>3, <2>4, <2>5
<1>29. ASSUME Down PROVE ServiceInv'
  BY <1>29 DEF Down, NoDel, Open
<1>30. ASSUME Boot PROVE ServiceInv'
  BY <1>30 DEF Boot, Orphan, control
<1>31. ASSUME NEW s \in Side, NEW p \in Process, LeaderExit(s, p),
            UNCHANGED <<up, parent, status, control>>
     PROVE  ServiceInv'
  BY <1>31 DEF control
<1>32. CASE UNCHANGED vars
  BY <1>32 DEF vars, control
<1> QED
  BY <1>1, <1>2, <1>3, <1>4, <1>5, <1>6, <1>7, <1>8, <1>9,
     <1>10, <1>11, <1>12, <1>13, <1>14, <1>15, <1>16, <1>17, <1>18,
     <1>19, <1>20, <1>21, <1>22, <1>23, <1>24, <1>25, <1>26, <1>27,
     <1>28, <1>29, <1>30, <1>31, <1>32
  DEF Next, Request, Deletion, Shutdown, Environment, Worker, Finalizer

Inv == TypeOK /\ ControlInv /\ TerminalInv /\ ServiceInv

(* The inductive invariant: registrations, processes and the services that *)
(* stop the Sides fit together.                                            *)
THEOREM Invariance == Spec => []Inv
<1>1. Init => Inv
  BY InitType, InitControl, InitTerminal, InitService DEF Inv
<1>2. Inv /\ [Next]_vars => Inv'
  BY NextType, NextControl, NextTerminal, NextService DEF Inv
<1> QED
  BY <1>1, <1>2, PTL DEF Spec

-----------------------------------------------------------------------------

(* A Side that is working has a worker, or a finalizer that is about to    *)
(* end it, and it has a parent.                                            *)
THEOREM NeverZombie == Spec => []NoZombie
<1>1. Inv => NoZombie
  BY DEF Inv, ControlInv, SideControl, NoZombie, At
<1> QED
  BY <1>1, Invariance, PTL

(* No step takes back an outcome.                                          *)
LEMMA OutcomeKept ==
  ASSUME TypeOK, [Next]_vars, NEW r \in Side, status[r] \in Ended
  PROVE  status'[r] \in {status[r], "gone"}
<1> USE DEF TypeOK, Ended
<1>1. ASSUME NEW s \in Side, CreateSide(s) PROVE status'[r] \in {status[r], "gone"}
  BY <1>1 DEF CreateSide, control, Go, ParentFree, Working, Serving
<1>2. ASSUME NEW s \in Side, DeleteSide(s) PROVE status'[r] \in {status[r], "gone"}
  BY <1>2 DEF DeleteSide, control, OwnerFree, Serving
<1>3. ASSUME NEW s \in Side, NEW c \in Client, StopSide(s, c) PROVE status'[r] \in {status[r], "gone"}
  BY <1>3 DEF StopSide
<1>4. ASSUME NEW s \in Side, Loop(s) PROVE status'[r] \in {status[r], "gone"}
  BY <1>4 DEF Loop, At, Go, Move, WorkerRest
<1>5. ASSUME NEW s \in Side, Model(s) PROVE status'[r] \in {status[r], "gone"}
  BY <1>5 DEF Model, Accepts, At, Go, Move, Fail, WorkerRest
<1>6. ASSUME NEW s \in Side, Text(s) PROVE status'[r] \in {status[r], "gone"}
  BY <1>6 DEF Text, At, Go, Move, Record, OwnerFree, WorkerRest
<1>7. ASSUME NEW s \in Side, Expire(s) PROVE status'[r] \in {status[r], "gone"}
  BY <1>7 DEF Expire, At, Go, Move, Record, OwnerFree, WorkerRest
<1>8. ASSUME NEW s \in Side, Call(s) PROVE status'[r] \in {status[r], "gone"}
  BY <1>8 DEF Call, Accepts, At, Go, Move, Fail, OwnerFree, WorkerRest
<1>9. ASSUME NEW s \in Side, Tool(s) PROVE status'[r] \in {status[r], "gone"}
  BY <1>9 DEF Tool, At, Go, Move, WorkerRest
<1>10. ASSUME NEW s \in Side, Yield(s) PROVE status'[r] \in {status[r], "gone"}
  BY <1>10 DEF Yield, Go, Move, Return, Accepts, Fail, WorkerRest
<1>11. ASSUME NEW s \in Side, TerminateDone(s) PROVE status'[r] \in {status[r], "gone"}
  BY <1>11 DEF TerminateDone, At, Go, Move, Return, Accepts, Fail, WorkerRest
<1>12. ASSUME NEW s \in Side, ToolDropped(s) PROVE status'[r] \in {status[r], "gone"}
  BY <1>12 DEF ToolDropped, Go, Move, WorkerRest
<1>13. ASSUME NEW s \in Side, Leave(s) PROVE status'[r] \in {status[r], "gone"}
  BY <1>13 DEF Leave, At, Go, Move, WorkerRest
<1>14. ASSUME NEW s \in Side, Unregister(s) PROVE status'[r] \in {status[r], "gone"}
  BY <1>14 DEF Unregister, At, Go, Move, WorkerRest
<1>15. ASSUME NEW s \in Side, RecordFailure(s) PROVE status'[r] \in {status[r], "gone"}
  BY <1>15 DEF RecordFailure, At, Go, Move, Record, OwnerFree, WorkerRest
<1>16. ASSUME NEW s \in Side, NEW b \in Stopper, FinMark(s, b) PROVE status'[r] \in {status[r], "gone"}
  BY <1>16 DEF FinMark
<1>17. ASSUME NEW s \in Side, NEW b \in Stopper, FinCheck(s, b) PROVE status'[r] \in {status[r], "gone"}
  BY <1>17 DEF FinCheck
<1>18. ASSUME NEW s \in Side, NEW b \in Stopper, FinRecord(s, b) PROVE status'[r] \in {status[r], "gone"}
  BY <1>18 DEF FinRecord, Record
<1>19. ASSUME NEW s \in Side, NEW b \in Stopper, FinDone(s, b) PROVE status'[r] \in {status[r], "gone"}
  BY <1>19 DEF FinDone
<1>20. ASSUME NEW s \in Side, DeleteNext(s) PROVE status'[r] \in {status[r], "gone"}
  BY <1>20 DEF DeleteNext
<1>21. ASSUME NEW s \in Side, DeleteReply(s) PROVE status'[r] \in {status[r], "gone"}
  BY <1>21 DEF DeleteReply, NoDel
<1>22. ASSUME NEW s \in Side, ShutNext(s) PROVE status'[r] \in {status[r], "gone"}
  BY <1>22 DEF ShutNext, ShutRest
<1>23. ASSUME NEW s \in Side, ShutReply(s) PROVE status'[r] \in {status[r], "gone"}
  BY <1>23 DEF ShutReply, ShutError, Working, ShutRest
<1>24. ASSUME DeleteBegin PROVE status'[r] \in {status[r], "gone"}
  BY <1>24 DEF DeleteBegin, Serving, ParentFree, Working
<1>25. ASSUME DeleteSides PROVE status'[r] \in {status[r], "gone"}
  BY <1>25 DEF DeleteSides
<1>26. ASSUME DeleteParent PROVE status'[r] \in {status[r], "gone"}
  BY <1>26 DEF DeleteParent, NoDel
<1>27. ASSUME ShutBegin PROVE status'[r] \in {status[r], "gone"}
  BY <1>27 DEF ShutBegin, Serving, Open, ShutRest
<1>28. ASSUME ShutSnapshot PROVE status'[r] \in {status[r], "gone"}
  BY <1>28 DEF ShutSnapshot, ParentFree, NoStop, ShutRest
<1>29. ASSUME Down PROVE status'[r] \in {status[r], "gone"}
  BY <1>29 DEF Down, NoDel, Open
<1>30. ASSUME Boot PROVE status'[r] \in {status[r], "gone"}
  BY <1>30 DEF Boot, Orphan, control
<1>31. ASSUME NEW s \in Side, NEW p \in Process, LeaderExit(s, p),
            UNCHANGED <<up, parent, status, control>>
     PROVE  status'[r] \in {status[r], "gone"}
  BY <1>31 DEF control
<1>32. CASE UNCHANGED vars
  BY <1>32 DEF vars, control
<1> QED
  BY <1>1, <1>2, <1>3, <1>4, <1>5, <1>6, <1>7, <1>8, <1>9,
     <1>10, <1>11, <1>12, <1>13, <1>14, <1>15, <1>16, <1>17, <1>18,
     <1>19, <1>20, <1>21, <1>22, <1>23, <1>24, <1>25, <1>26, <1>27,
     <1>28, <1>29, <1>30, <1>31, <1>32
  DEF Next, Request, Deletion, Shutdown, Environment, Worker, Finalizer

(* Whoever is first records the outcome of a Side; nobody overwrites it.   *)
THEOREM FirstOutcomeStays == Spec => OneOutcome
<1>1. TypeOK /\ [Next]_vars => [\A s \in Side : status[s] \in Ended => status'[s] \in {status[s], "gone"}]_vars
  <2> SUFFICES ASSUME TypeOK, [Next]_vars, NEW s \in Side, status[s] \in Ended
               PROVE  status'[s] \in {status[s], "gone"}
    OBVIOUS
  <2> QED
    BY OutcomeKept
<1> QED
  BY <1>1, TypeInvariant, PTL DEF Spec, OneOutcome

(* The step in which a stop reports success is FinDone.                    *)
Complete(r) ==
  /\ status[r] \in {"stopped", "gone"}
  /\ At(r, "done") /\ r \notin active
  /\ alive[r] \subseteq dropped[r]

LEMMA StopDone ==
  ASSUME Inv, [Next]_vars, NEW r \in Side, NEW d \in Stopper, StopSucceeds(r, d)
  PROVE  Complete(r)
<1>0. worker[r] = "done" => Complete(r)
  <2>1. fin[r][d] = "wait"
    BY DEF StopSucceeds
  <2>2. OwnerFree(r) /\ status[r] \in {"stopped", "gone"}
    BY <2>1 DEF Inv, ControlInv, SideControl, OwnerFree
  <2> QED
    BY <2>2 DEF Inv, ControlInv, SideControl, TerminalInv, SideTerminals, Complete, At
<1>a. TypeOK
  BY DEF Inv
<1> USE <1>0, <1>a DEF TypeOK, StopSucceeds
<1>1. ASSUME NEW s \in Side, CreateSide(s) PROVE Complete(r)
  BY <1>1 DEF CreateSide, control, Go, ParentFree, Working, Serving
<1>2. ASSUME NEW s \in Side, DeleteSide(s) PROVE Complete(r)
  BY <1>2 DEF DeleteSide, control, OwnerFree, Serving
<1>3. ASSUME NEW s \in Side, NEW c \in Client, StopSide(s, c) PROVE Complete(r)
  <2>1. Stop(s, c, "mark") /\ c \in Stopper
    BY <1>3 DEF StopSide, Stopper
  <2>8. /\ fin'[s][c] = "mark"
        /\ \A x \in Stopper \ {c} : fin'[s][x] = fin[s][x]
        /\ \A t \in Side \ {s} : fin'[t] = fin[t]
    BY <2>1, StopEffect
  <2> QED
    BY <2>1, <2>8
<1>4. ASSUME NEW s \in Side, Loop(s) PROVE Complete(r)
  BY <1>4 DEF Loop, At, Go, Move, WorkerRest
<1>5. ASSUME NEW s \in Side, Model(s) PROVE Complete(r)
  BY <1>5 DEF Model, Accepts, At, Go, Move, Fail, WorkerRest
<1>6. ASSUME NEW s \in Side, Text(s) PROVE Complete(r)
  BY <1>6 DEF Text, At, Go, Move, Record, OwnerFree, WorkerRest
<1>7. ASSUME NEW s \in Side, Expire(s) PROVE Complete(r)
  BY <1>7 DEF Expire, At, Go, Move, Record, OwnerFree, WorkerRest
<1>8. ASSUME NEW s \in Side, Call(s) PROVE Complete(r)
  BY <1>8 DEF Call, Accepts, At, Go, Move, Fail, OwnerFree, WorkerRest
<1>9. ASSUME NEW s \in Side, Tool(s) PROVE Complete(r)
  BY <1>9 DEF Tool, At, Go, Move, WorkerRest
<1>10. ASSUME NEW s \in Side, Yield(s) PROVE Complete(r)
  BY <1>10 DEF Yield, Go, Move, Return, Accepts, Fail, WorkerRest
<1>11. ASSUME NEW s \in Side, TerminateDone(s) PROVE Complete(r)
  BY <1>11 DEF TerminateDone, At, Go, Move, Return, Accepts, Fail, WorkerRest
<1>12. ASSUME NEW s \in Side, ToolDropped(s) PROVE Complete(r)
  BY <1>12 DEF ToolDropped, Go, Move, WorkerRest
<1>13. ASSUME NEW s \in Side, Leave(s) PROVE Complete(r)
  BY <1>13 DEF Leave, At, Go, Move, WorkerRest
<1>14. ASSUME NEW s \in Side, Unregister(s) PROVE Complete(r)
  BY <1>14 DEF Unregister, At, Go, Move, WorkerRest
<1>15. ASSUME NEW s \in Side, RecordFailure(s) PROVE Complete(r)
  BY <1>15 DEF RecordFailure, At, Go, Move, Record, OwnerFree, WorkerRest
<1>16. ASSUME NEW s \in Side, NEW b \in Stopper, FinMark(s, b) PROVE Complete(r)
  <2>1. Stop(s, b, "lock")
    BY <1>16 DEF FinMark
  <2>8. /\ fin'[s][b] = "lock"
        /\ \A x \in Stopper \ {b} : fin'[s][x] = fin[s][x]
        /\ \A t \in Side \ {s} : fin'[t] = fin[t]
    BY <2>1, StopEffect
  <2> QED
    BY <2>1, <2>8
<1>17. ASSUME NEW s \in Side, NEW b \in Stopper, FinCheck(s, b) PROVE Complete(r)
  <2>1. PICK pc \in {"none", "kill"} : Stop(s, b, pc)
    BY <1>17 DEF FinCheck, Answer
  <2>2. fin[s][b] = "lock"
    BY <1>17 DEF FinCheck
  <2>8. /\ fin'[s][b] = pc
        /\ \A x \in Stopper \ {b} : fin'[s][x] = fin[s][x]
        /\ \A t \in Side \ {s} : fin'[t] = fin[t]
    BY <2>1, StopEffect
  <2> QED
    BY <2>1, <2>2, <2>8
<1>18. ASSUME NEW s \in Side, NEW b \in Stopper, FinRecord(s, b) PROVE Complete(r)
  <2>1. PICK pc \in {"none", "wait"} : Stop(s, b, pc)
    BY <1>18 DEF FinRecord, Answer
  <2>2. fin[s][b] = "kill"
    BY <1>18 DEF FinRecord
  <2>8. /\ fin'[s][b] = pc
        /\ \A x \in Stopper \ {b} : fin'[s][x] = fin[s][x]
        /\ \A t \in Side \ {s} : fin'[t] = fin[t]
    BY <2>1, StopEffect
  <2> QED
    BY <2>1, <2>2, <2>8
<1>19. ASSUME NEW s \in Side, NEW b \in Stopper, FinDone(s, b) PROVE Complete(r)
  <2>1. Stop(s, b, "none") /\ At(s, "done")
    BY <1>19 DEF FinDone, Answer, Completed
  <2>8. /\ fin'[s][b] = "none"
        /\ \A x \in Stopper \ {b} : fin'[s][x] = fin[s][x]
        /\ \A t \in Side \ {s} : fin'[t] = fin[t]
    BY <2>1, StopEffect
  <2> QED
    BY <2>1, <2>8 DEF At
<1>20. ASSUME NEW s \in Side, DeleteNext(s) PROVE Complete(r)
  <2>1. CASE CanStop(s)
    <3>1. Stop(s, "delete", "mark") /\ "delete" \in Stopper
      BY <1>20, <2>1 DEF DeleteNext, Stopper
    <3>8. /\ fin'[s]["delete"] = "mark"
          /\ \A x \in Stopper \ {"delete"} : fin'[s][x] = fin[s][x]
          /\ \A t \in Side \ {s} : fin'[t] = fin[t]
      BY <3>1, StopEffect
    <3> QED
      BY <3>1, <3>8
  <2>2. CASE ~CanStop(s)
    BY <1>20, <2>2 DEF DeleteNext
  <2> QED
    BY <2>1, <2>2
<1>21. ASSUME NEW s \in Side, DeleteReply(s) PROVE Complete(r)
  BY <1>21 DEF DeleteReply, NoDel
<1>22. ASSUME NEW s \in Side, ShutNext(s) PROVE Complete(r)
  <2>1. CASE CanStop(s)
    <3>1. Stop(s, "shutdown", "mark") /\ "shutdown" \in Stopper
      BY <1>22, <2>1 DEF ShutNext, Stopper
    <3>8. /\ fin'[s]["shutdown"] = "mark"
          /\ \A x \in Stopper \ {"shutdown"} : fin'[s][x] = fin[s][x]
          /\ \A t \in Side \ {s} : fin'[t] = fin[t]
      BY <3>1, StopEffect
    <3> QED
      BY <3>1, <3>8
  <2>2. CASE ~CanStop(s)
    BY <1>22, <2>2 DEF ShutNext
  <2> QED
    BY <2>1, <2>2
<1>23. ASSUME NEW s \in Side, ShutReply(s) PROVE Complete(r)
  BY <1>23 DEF ShutReply, ShutError, Working, ShutRest
<1>24. ASSUME DeleteBegin PROVE Complete(r)
  BY <1>24 DEF DeleteBegin, Serving, ParentFree, Working
<1>25. ASSUME DeleteSides PROVE Complete(r)
  BY <1>25 DEF DeleteSides
<1>26. ASSUME DeleteParent PROVE Complete(r)
  BY <1>26 DEF DeleteParent, NoDel
<1>27. ASSUME ShutBegin PROVE Complete(r)
  BY <1>27 DEF ShutBegin, Serving, Open, ShutRest
<1>28. ASSUME ShutSnapshot PROVE Complete(r)
  BY <1>28 DEF ShutSnapshot, ParentFree, NoStop, ShutRest
<1>29. ASSUME Down PROVE Complete(r)
  BY <1>29 DEF Down, NoDel, Open
<1>30. ASSUME Boot PROVE Complete(r)
  BY <1>30 DEF Boot, Orphan, control
<1>31. ASSUME NEW s \in Side, NEW p \in Process, LeaderExit(s, p),
            UNCHANGED <<up, parent, status, control>>
     PROVE  Complete(r)
  BY <1>31 DEF control
<1>32. CASE UNCHANGED vars
  BY <1>32 DEF vars, control
<1> QED
  BY <1>1, <1>2, <1>3, <1>4, <1>5, <1>6, <1>7, <1>8, <1>9,
     <1>10, <1>11, <1>12, <1>13, <1>14, <1>15, <1>16, <1>17, <1>18,
     <1>19, <1>20, <1>21, <1>22, <1>23, <1>24, <1>25, <1>26, <1>27,
     <1>28, <1>29, <1>30, <1>31, <1>32
  DEF Next, Request, Deletion, Shutdown, Environment, Worker, Finalizer

(* A stop that reports success, whoever else was stopping the Side, has    *)
(* left no worker, no registration and no bash process, except one whose   *)
(* termination it has dropped itself.                                      *)
THEOREM StopsCompletely == Spec => StopIsComplete
<1>1. Inv /\ [Next]_vars =>
        [\A s \in Side, b \in Stopper : StopSucceeds(s, b) =>
           /\ status[s] \in {"stopped", "gone"}
           /\ At(s, "done") /\ s \notin active
           /\ alive[s] \subseteq dropped[s]]_vars
  BY StopDone DEF Complete
<1> QED
  BY <1>1, Invariance, PTL DEF Spec, StopIsComplete

(* After a clean shutdown nothing works and nothing runs, but for a Side   *)
(* about to record its failure.                                            *)
THEOREM ShutsDownClean == Spec => []ShutdownIsClean
<1>1. ASSUME Inv, shut.pc = "stopped", NEW s \in Side
      PROVE  (status[s] = "working" => At(s, "record")) /\ alive[s] \subseteq dropped[s]
  <2>1. up /\ OwnerFree(s) /\ worker[s] \in {"record", "done"}
    BY <1>1 DEF Inv, TypeOK, ControlInv, SideControl, ServiceInv, OwnerFree
  <2>2. status[s] = "working" => At(s, "record")
    BY <1>1, <2>1 DEF Inv, ControlInv, SideControl, At
  <2>3. alive[s] \subseteq dropped[s]
    BY <1>1, <2>1 DEF Inv, TerminalInv, SideTerminals
  <2> QED
    BY <2>2, <2>3
<1>2. Inv => ShutdownIsClean
  BY <1>1 DEF ShutdownIsClean
<1> QED
  BY <1>2, Invariance, PTL
=============================================================================
