----------------------- MODULE DaemonLifecycle_proofs -----------------------
(***************************************************************************)
(* Proofs about DaemonLifecycle, for any set of processes, starting at any *)
(* time, and of connections: as long as no start has removed the lock file *)
(* of a living process, one daemon serves, it owns the lock file and the   *)
(* socket, and daemon_stopped is told only when the workers have been      *)
(* stopped.                                                                *)
(***************************************************************************)
EXTENDS DaemonLifecycle, TLAPS

LEMMA InitType == Init => TypeOK
<1> SUFFICES ASSUME Init PROVE TypeOK
  OBVIOUS
<1>1. stolen \in BOOLEAN
  BY DEF Init
<1> QED
  BY <1>1, ProcessAssumption DEF Init, TypeOK, NoFile, NoConn, Locking

(* Every step keeps the type invariant.                                    *)
LEMMA NextType == TypeOK /\ [Next]_vars => TypeOK'
<1> SUFFICES ASSUME TypeOK, [Next]_vars PROVE TypeOK'
  OBVIOUS
<1> USE ProcessAssumption DEF TypeOK, Locking, Holding, Booting, Serving, Ending
<1>1. ASSUME NEW p \in Process, Start(p) PROVE TypeOK'
  BY <1>1 DEF Start, Reachable, Go, disk
<1>2. ASSUME NEW p \in Process, WriteStarting(p) PROVE TypeOK'
  BY <1>2 DEF WriteStarting, Go
<1>3. ASSUME NEW p \in Process, CreateLock(p) PROVE TypeOK'
  BY <1>3 DEF CreateLock, NoFile, Go
<1>4. ASSUME NEW p \in Process, ReadLock(p) PROVE TypeOK'
  BY <1>4 DEF ReadLock, Go, disk
<1>5. ASSUME NEW p \in Process, RemoveLock(p) PROVE TypeOK'
  <2>1. stolen' \in BOOLEAN
    BY <1>5 DEF RemoveLock
  <2> QED
    BY <1>5, <2>1 DEF RemoveLock, NoFile, Go
<1>6. ASSUME NEW p \in Process, CreateAgain(p) PROVE TypeOK'
  BY <1>6 DEF CreateAgain, NoFile, Go
<1>7. ASSUME NEW p \in Process, WritePid(p) PROVE TypeOK'
  BY <1>7 DEF WritePid, Go
<1>8. ASSUME NEW p \in Process, Recover(p) PROVE TypeOK'
  BY <1>8 DEF Recover, Go, disk
<1>9. ASSUME NEW p \in Process, RemoveStaleSocket(p) PROVE TypeOK'
  BY <1>9 DEF RemoveStaleSocket, Go
<1>10. ASSUME NEW p \in Process, Bind(p) PROVE TypeOK'
  BY <1>10 DEF Bind, Go
<1>11. ASSUME NEW p \in Process, Announce(p) PROVE TypeOK'
  BY <1>11 DEF Announce, Go
<1>12. ASSUME NEW p \in Process, Accept(p) PROVE TypeOK'
  BY <1>12 DEF Accept, disk
<1>13. ASSUME NEW p \in Process, LeaveLoop(p) PROVE TypeOK'
  BY <1>13 DEF LeaveLoop, Go, disk
<1>14. ASSUME NEW p \in Process, Join(p) PROVE TypeOK'
  BY <1>14 DEF Join, Go, disk
<1>15. ASSUME NEW p \in Process, StopAll(p) PROVE TypeOK'
  BY <1>15 DEF StopAll, Go, disk
<1>16. ASSUME NEW p \in Process, RecordEnd(p) PROVE TypeOK'
  BY <1>16 DEF RecordEnd, Go
<1>17. ASSUME NEW p \in Process, RemoveSocket(p) PROVE TypeOK'
  BY <1>17 DEF RemoveSocket, Go
<1>18. ASSUME NEW p \in Process, RemoveDaemonLock(p) PROVE TypeOK'
  BY <1>18 DEF RemoveDaemonLock, NoFile, Go
<1>19. ASSUME NEW p \in Process, Exit(p) PROVE TypeOK'
  BY <1>19 DEF Exit, Closed, Go, disk
<1>20. ASSUME NEW p \in Process, Die(p) PROVE TypeOK'
  BY <1>20 DEF Die, Closed, Go, disk
<1>21. ASSUME NEW c \in Conn, Connect(c) PROVE TypeOK'
  BY <1>21 DEF Connect, Reachable, Listening, NoConn, disk
<1>22. ASSUME NEW c \in Conn, StopRequest(c) PROVE TypeOK'
  BY <1>22 DEF StopRequest, Step, disk
<1>23. ASSUME NEW c \in Conn, ShortRequest(c) PROVE TypeOK'
  BY <1>23 DEF ShortRequest, Step, disk
<1>24. ASSUME NEW c \in Conn, WaitRequest(c) PROVE TypeOK'
  BY <1>24 DEF WaitRequest, Step, disk
<1>25. ASSUME NEW c \in Conn, WaitOver(c) PROVE TypeOK'
  BY <1>25 DEF WaitOver, Step, disk
<1>26. ASSUME NEW c \in Conn, Hear(c) PROVE TypeOK'
  BY <1>26 DEF Hear, Step, disk
<1>27. CASE UNCHANGED vars
  BY <1>27 DEF vars, disk
<1> QED
  BY <1>1, <1>2, <1>3, <1>4, <1>5, <1>6, <1>7, <1>8, <1>9,
     <1>10, <1>11, <1>12, <1>13, <1>14, <1>15, <1>16, <1>17, <1>18,
     <1>19, <1>20, <1>21, <1>22, <1>23, <1>24, <1>25, <1>26, <1>27
  DEF Next, Boot, Shutdown, Request

(* The state has its type; the pid in the lock file is its creator's.      *)
THEOREM TypeInvariant == Spec => []TypeOK
<1>1. TypeOK /\ [Next]_vars => TypeOK'
  BY NextType
<1> QED
  BY <1>1, InitType, PTL DEF Spec

-----------------------------------------------------------------------------

(* The inductive invariant, which says nothing once a lock file has been   *)
(* stolen.  A process that has created the file owns it until it removes   *)
(* it, or dies.  From bind to the removal the socket belongs to the        *)
(* daemon; and "stopped" is on disk only when its writer, and whoever is   *)
(* on the way out, has stopped its workers.                                *)
LockOwned ==
  /\ \A p \in Process : pc[p] \in Holding => lock = [by |-> p, pid |-> p]
  /\ \A p \in Process : pc[p] = "write" => lock.by = p

SocketOwned ==
  \A p \in Process :
    pc[p] \in {"announce", "serve", "join", "stop_all", "record", "unlink"} => socket = p

EndRecorded ==
  lifecycle.status = "stopped" =>
    /\ lifecycle.pid \in cleaned
    /\ \A p \in Process : pc[p] \in {"unlink", "unlock"} => p \in cleaned

Inv == TypeOK /\ (~stolen => LockOwned /\ SocketOwned /\ EndRecorded)

LEMMA InitInv == Init => Inv
<1> SUFFICES ASSUME Init PROVE Inv
  OBVIOUS
<1>1. TypeOK
  BY InitType
<1> QED
  BY <1>1 DEF Init, Inv, LockOwned, SocketOwned, EndRecorded,
              Locking, Holding, Booting, Serving, Ending

(* Every step keeps the invariant, action by action.                       *)
LEMMA NextInv == Inv /\ [Next]_vars => Inv'
<1> SUFFICES ASSUME Inv, [Next]_vars PROVE Inv'
  OBVIOUS
<1>0. TypeOK'
  BY NextType DEF Inv
<1> USE <1>0, ProcessAssumption
<1> USE DEF Inv, TypeOK, LockOwned, SocketOwned, EndRecorded,
            Locking, Holding, Booting, Serving, Ending, Alive
<1>1. ASSUME NEW p \in Process, Start(p) PROVE Inv'
  BY <1>1 DEF Start, Reachable, Go, disk
<1>2. ASSUME NEW p \in Process, WriteStarting(p) PROVE Inv'
  BY <1>2 DEF WriteStarting, Go
<1>3. ASSUME NEW p \in Process, CreateLock(p) PROVE Inv'
  BY <1>3 DEF CreateLock, NoFile, Go
<1>4. ASSUME NEW p \in Process, ReadLock(p) PROVE Inv'
  BY <1>4 DEF ReadLock, Go, disk
<1>5. ASSUME NEW p \in Process, RemoveLock(p) PROVE Inv'
  <2>1. SUFFICES ASSUME ~stolen' PROVE Inv'
    OBVIOUS
  <2>2. ~stolen /\ ~Alive(lock.by)
    BY <1>5, <2>1 DEF RemoveLock
  <2> QED
    BY <1>5, <2>1, <2>2 DEF RemoveLock, NoFile, Go
<1>6. ASSUME NEW p \in Process, CreateAgain(p) PROVE Inv'
  BY <1>6 DEF CreateAgain, NoFile, Go
<1>7. ASSUME NEW p \in Process, WritePid(p) PROVE Inv'
  BY <1>7 DEF WritePid, Go
<1>8. ASSUME NEW p \in Process, Recover(p) PROVE Inv'
  BY <1>8 DEF Recover, Go, disk
<1>9. ASSUME NEW p \in Process, RemoveStaleSocket(p) PROVE Inv'
  BY <1>9 DEF RemoveStaleSocket, Go
<1>10. ASSUME NEW p \in Process, Bind(p) PROVE Inv'
  BY <1>10 DEF Bind, Go
<1>11. ASSUME NEW p \in Process, Announce(p) PROVE Inv'
  BY <1>11 DEF Announce, Go
<1>12. ASSUME NEW p \in Process, Accept(p) PROVE Inv'
  BY <1>12 DEF Accept, disk
<1>13. ASSUME NEW p \in Process, LeaveLoop(p) PROVE Inv'
  BY <1>13 DEF LeaveLoop, Go, disk
<1>14. ASSUME NEW p \in Process, Join(p) PROVE Inv'
  BY <1>14 DEF Join, Go, disk
<1>15. ASSUME NEW p \in Process, StopAll(p) PROVE Inv'
  BY <1>15 DEF StopAll, Go, disk
<1>16. ASSUME NEW p \in Process, RecordEnd(p) PROVE Inv'
  BY <1>16 DEF RecordEnd, Go
<1>17. ASSUME NEW p \in Process, RemoveSocket(p) PROVE Inv'
  BY <1>17 DEF RemoveSocket, Go
<1>18. ASSUME NEW p \in Process, RemoveDaemonLock(p) PROVE Inv'
  BY <1>18 DEF RemoveDaemonLock, NoFile, Go
<1>19. ASSUME NEW p \in Process, Exit(p) PROVE Inv'
  BY <1>19 DEF Exit, Closed, Go, disk
<1>20. ASSUME NEW p \in Process, Die(p) PROVE Inv'
  BY <1>20 DEF Die, Closed, Go, disk
<1>21. ASSUME NEW c \in Conn, Connect(c) PROVE Inv'
  BY <1>21 DEF Connect, Reachable, Listening, NoConn, disk
<1>22. ASSUME NEW c \in Conn, StopRequest(c) PROVE Inv'
  BY <1>22 DEF StopRequest, Step, disk
<1>23. ASSUME NEW c \in Conn, ShortRequest(c) PROVE Inv'
  BY <1>23 DEF ShortRequest, Step, disk
<1>24. ASSUME NEW c \in Conn, WaitRequest(c) PROVE Inv'
  BY <1>24 DEF WaitRequest, Step, disk
<1>25. ASSUME NEW c \in Conn, WaitOver(c) PROVE Inv'
  BY <1>25 DEF WaitOver, Step, disk
<1>26. ASSUME NEW c \in Conn, Hear(c) PROVE Inv'
  BY <1>26 DEF Hear, Step, disk
<1>27. CASE UNCHANGED vars
  BY <1>27 DEF vars, disk
<1> QED
  BY <1>1, <1>2, <1>3, <1>4, <1>5, <1>6, <1>7, <1>8, <1>9,
     <1>10, <1>11, <1>12, <1>13, <1>14, <1>15, <1>16, <1>17, <1>18,
     <1>19, <1>20, <1>21, <1>22, <1>23, <1>24, <1>25, <1>26, <1>27
  DEF Next, Boot, Shutdown, Request

(* The inductive invariant: who holds which file at each place of serve,   *)
(* as long as no lock file has been stolen.                                *)
THEOREM Invariance == Spec => []Inv
<1>1. Inv /\ [Next]_vars => Inv'
  BY NextInv
<1> QED
  BY <1>1, InitInv, PTL DEF Spec

(* However many starts overlap, the daemon that accepts requests is the    *)
(* only one, owns the lock file and is the one that clients reach, as long *)
(* as no start has removed the lock file of a living process.              *)
THEOREM ServesAlone == Spec => []Exclusive
<1>1. Inv => Exclusive
  BY DEF Inv, LockOwned, SocketOwned, Exclusive, Holding, Serving
<1> QED
  BY <1>1, Invariance, PTL

(* A client that is told daemon_stopped has observed the end of a daemon   *)
(* that stopped its workers, as long as no lock file has been stolen.      *)
THEOREM StoppedMeansStopped == Spec => []StoppedIsStopped
<1>1. ASSUME Inv, ~stolen, ~Reachable, Diagnosis = "daemon_stopped" PROVE StoppedIsStopped
  <2>1. lifecycle.status = "stopped"
    BY <1>1 DEF Diagnosis
  <2>2. \A p \in Process : pc[p] \notin {"serve", "join", "stop_all", "record"}
    BY <1>1, ProcessAssumption DEF Inv, SocketOwned, Reachable, Listening, Serving, Ending
  <2> QED
    BY <1>1, <2>1, <2>2 DEF Inv, EndRecorded, StoppedIsStopped, Serving, Ending
<1>2. Inv => StoppedIsStopped
  BY <1>1 DEF StoppedIsStopped
<1> QED
  BY <1>2, Invariance, PTL

=============================================================================
