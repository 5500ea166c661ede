--------------------------- MODULE DaemonLifecycle ---------------------------
(***************************************************************************)
(* The daemon as a process (daemon.rs 17-181, 1008-1037): starting, taking *)
(* the lock file, serving, shutting down and dying, with what it leaves on *)
(* disk; the command that starts it (cli.rs 899-964), the connections it   *)
(* serves, and what a client concludes from the disk when it cannot        *)
(* connect (cli.rs 1052-1109).                                             *)
(*                                                                         *)
(* Abstractions.  A process is its pid, and a pid is not used again.       *)
(* Recovery and the first scheduling pass are one step (AgentManager has   *)
(* their detail), the end of the wait for the mutations and of stop_all    *)
(* another, which may never come.  A killed process, an error while it     *)
(* boots and an error of accept leave the same disk: Die stands for all    *)
(* three.                                                                  *)
(***************************************************************************)
EXTENDS FiniteSets, Naturals

CONSTANTS
  Process,   \* the daemon processes that are ever started
  Conn,      \* the connections that are ever made
  None       \* no process

ASSUME ProcessAssumption == None \notin Process

VARIABLES
  pc,         \* per process: where serve is
  signalled,  \* the processes whose shutdown channel holds TRUE
  cleaned,    \* per process: stop_all has succeeded
  lock,       \* the lock file: who created it, and the pid in it (disk)
  socket,     \* the process whose listener the socket's name is bound to (disk)
  lifecycle,  \* daemon-state.json (disk)
  conn,       \* per connection: to whom, and how far
  stolen      \* history: a start has removed the lock file of a living process

disk == <<lock, socket, lifecycle>>
vars == <<pc, signalled, cleaned, disk, conn, stolen>>

NoFile    == [by |-> None, pid |-> None]
NoConn    == [to |-> None, at |-> "none"]
Locking   == {"starting", "create", "read", "remove", "again", "write"}
Booting   == {"recover", "unbind", "bind", "announce"}
Serving   == {"serve"}
Ending    == {"join", "stop_all", "record", "unlink", "unlock"}
Listening == {"announce"} \cup Serving \cup Ending \cup {"exit"}
Holding   == Booting \cup Serving \cup Ending

Alive(p) == p # None /\ pc[p] \notin {"none", "gone"}

TypeOK ==
  /\ pc \in [Process -> {"none", "exit", "gone"} \cup Locking \cup Holding]
  /\ signalled \subseteq Process
  /\ cleaned \subseteq Process
  /\ lock.by \in Process \cup {None}
  /\ lock \in {[by |-> lock.by, pid |-> None], [by |-> lock.by, pid |-> lock.by]}
  /\ socket \in Process \cup {None}
  /\ lifecycle \in [status : {"none", "starting", "running", "stopped", "shutdown_failed"},
                    pid : Process \cup {None}]
  /\ conn \in [Conn -> [to : Process \cup {None},
                        at : {"none", "backlog", "open", "waiting", "deaf", "done"}]]
  /\ \A c \in Conn : conn[c].at # "none" => conn[c].to # None
  /\ stolen \in BOOLEAN

-----------------------------------------------------------------------------
(* What a client sees.                                                     *)

(* connect succeeds while the process that bound the socket listens.       *)
Reachable == socket # None /\ pc[socket] \in Listening

(* daemon_connection_error                                                 *)
Diagnosis ==
  CASE lifecycle.status \in {"starting", "running"} /\ ~Alive(lifecycle.pid) -> "daemon_crashed"
    [] lifecycle.status = "stopped"         -> "daemon_stopped"
    [] lifecycle.status = "shutdown_failed" -> "shutdown_failed"
    [] OTHER                                -> "daemon_unavailable"

-----------------------------------------------------------------------------
(* daemon start.                                                           *)

Init ==
  /\ pc = [p \in Process |-> "none"]
  /\ signalled = {} /\ cleaned = {}
  /\ lock = NoFile /\ socket = None
  /\ lifecycle = [status |-> "none", pid |-> None]
  /\ conn = [c \in Conn |-> NoConn]
  /\ stolen = FALSE

Go(p, next) == pc' = [pc EXCEPT ![p] = next]

(* start_daemon spawns a process when it cannot connect.  Nothing keeps    *)
(* two of them from doing so at once.                                      *)
Start(p) ==
  /\ pc[p] = "none"
  /\ ~Reachable
  /\ Go(p, "starting")
  /\ UNCHANGED <<signalled, cleaned, stolen, disk, conn>>

(* A mutant of WriteStarting: the stale socket goes before the lock is     *)
(* tried.                                                                  *)
WriteStartingUnbinds(p) ==
  /\ pc[p] = "starting"
  /\ lifecycle' = [status |-> "starting", pid |-> p]
  /\ socket' = None
  /\ Go(p, "create")
  /\ UNCHANGED <<signalled, cleaned, stolen, lock, conn>>

(* The lifecycle is written before the lock is tried.                      *)
WriteStarting(p) ==
  /\ pc[p] = "starting"
  /\ lifecycle' = [status |-> "starting", pid |-> p]
  /\ Go(p, "create")
  /\ UNCHANGED <<signalled, cleaned, stolen, lock, socket, conn>>

(* A mutant of CreateLock: create instead of create_new.                   *)
CreateOrOpen(p) ==
  /\ pc[p] = "create"
  /\ lock' = [lock EXCEPT !.by = p]
  /\ Go(p, "write")
  /\ UNCHANGED <<signalled, cleaned, stolen, socket, lifecycle, conn>>

(* acquire_daemon_lock: create_new, with no pid in the file yet.           *)
CreateLock(p) ==
  /\ pc[p] = "create"
  /\ IF lock = NoFile
     THEN lock' = [by |-> p, pid |-> None] /\ Go(p, "write")
     ELSE Go(p, "read") /\ UNCHANGED lock
  /\ UNCHANGED <<signalled, cleaned, stolen, socket, lifecycle, conn>>

(* "daemon is already running" when the pid in the file is alive; a file   *)
(* without a pid, or one that is not there any more, counts as stale.      *)
ReadLock(p) ==
  /\ pc[p] = "read"
  /\ Go(p, IF Alive(lock.pid) THEN "gone" ELSE "remove")
  /\ UNCHANGED <<signalled, cleaned, stolen, disk, conn>>

(* The file may be another one than the one that was read.                 *)
RemoveLock(p) ==
  /\ pc[p] = "remove"
  /\ Go(p, IF lock = NoFile THEN "gone" ELSE "again")
  /\ lock' = NoFile
  /\ stolen' = (stolen \/ Alive(lock.by))
  /\ UNCHANGED <<signalled, cleaned, socket, lifecycle, conn>>

CreateAgain(p) ==
  /\ pc[p] = "again"
  /\ IF lock = NoFile
     THEN lock' = [by |-> p, pid |-> None] /\ Go(p, "write")
     ELSE Go(p, "gone") /\ UNCHANGED lock
  /\ UNCHANGED <<signalled, cleaned, stolen, socket, lifecycle, conn>>

(* The pid goes into the file p has opened, whatever has become of its     *)
(* name.                                                                   *)
WritePid(p) ==
  /\ pc[p] = "write"
  /\ lock' = IF lock.by = p THEN [lock EXCEPT !.pid = p] ELSE lock
  /\ Go(p, "recover")
  /\ UNCHANGED <<signalled, cleaned, stolen, socket, lifecycle, conn>>

-----------------------------------------------------------------------------
(* serve                                                                   *)

(* Store::new, recover_interrupted, schedule_pending, the web server.      *)
Recover(p) ==
  /\ pc[p] = "recover"
  /\ Go(p, "unbind")
  /\ UNCHANGED <<signalled, cleaned, stolen, disk, conn>>

RemoveStaleSocket(p) ==
  /\ pc[p] = "unbind"
  /\ socket' = None
  /\ Go(p, "bind")
  /\ UNCHANGED <<signalled, cleaned, stolen, lock, lifecycle, conn>>

Bind(p) ==
  /\ pc[p] = "bind"
  /\ IF socket = None
     THEN socket' = p /\ Go(p, "announce")
     ELSE Go(p, "gone") /\ UNCHANGED socket
  /\ UNCHANGED <<signalled, cleaned, stolen, lock, lifecycle, conn>>

Announce(p) ==
  /\ pc[p] = "announce"
  /\ lifecycle' = [status |-> "running", pid |-> p]
  /\ Go(p, "serve")
  /\ UNCHANGED <<signalled, cleaned, stolen, lock, socket, conn>>

Accept(p) ==
  /\ pc[p] = "serve"
  /\ \E c \in Conn :
       /\ conn[c] = [to |-> p, at |-> "backlog"]
       /\ conn' = [conn EXCEPT ![c].at = "open"]
  /\ UNCHANGED <<pc, signalled, cleaned, stolen, disk>>

LeaveLoop(p) ==
  /\ pc[p] = "serve" /\ p \in signalled
  /\ Go(p, "join")
  /\ UNCHANGED <<signalled, cleaned, stolen, disk, conn>>

Joined(p) == \A c \in Conn : conn[c].to = p => conn[c].at \notin {"open", "waiting", "deaf"}

(* All connections have been joined.                                       *)
Join(p) ==
  /\ pc[p] = "join" /\ Joined(p)
  /\ Go(p, "stop_all")
  /\ UNCHANGED <<signalled, cleaned, stolen, disk, conn>>

(* The ends of wait_for_mutations, which is MutationGate's, and of         *)
(* stop_all, which is AgentManager's and SideRuns'.                        *)
StopAll(p) ==
  /\ pc[p] = "stop_all"
  /\ cleaned' \in {cleaned, cleaned \cup {p}}
  /\ Go(p, "record")
  /\ UNCHANGED <<stolen, signalled, disk, conn>>

(* A mutant of RecordEnd: the error of stop_all is not looked at.          *)
RecordStopped(p) ==
  /\ pc[p] = "record"
  /\ lifecycle' = [status |-> "stopped", pid |-> p]
  /\ Go(p, "unlink")
  /\ UNCHANGED <<signalled, cleaned, stolen, lock, socket, conn>>

RecordEnd(p) ==
  /\ pc[p] = "record"
  /\ lifecycle' = [status |-> IF p \in cleaned THEN "stopped" ELSE "shutdown_failed", pid |-> p]
  /\ Go(p, "unlink")
  /\ UNCHANGED <<signalled, cleaned, stolen, lock, socket, conn>>

(* The names are removed, whoever's they are: first the socket's, then the *)
(* lock's.                                                                 *)
RemoveSocket(p) ==
  /\ pc[p] = "unlink"
  /\ socket' = None
  /\ Go(p, "unlock")
  /\ UNCHANGED <<signalled, cleaned, stolen, lock, lifecycle, conn>>

RemoveDaemonLock(p) ==
  /\ pc[p] = "unlock"
  /\ lock' = NoFile
  /\ Go(p, "exit")
  /\ UNCHANGED <<signalled, cleaned, stolen, socket, lifecycle, conn>>

(* The connections of a process that has gone are closed.                  *)
Closed(p) == [c \in Conn |-> IF conn[c].to = p THEN [conn[c] EXCEPT !.at = "done"] ELSE conn[c]]

Exit(p) ==
  /\ pc[p] = "exit"
  /\ Go(p, "gone")
  /\ conn' = Closed(p)
  /\ UNCHANGED <<signalled, cleaned, stolen, disk>>

Die(p) ==
  /\ Alive(p)
  /\ Go(p, "gone")
  /\ conn' = Closed(p)
  /\ UNCHANGED <<signalled, cleaned, stolen, disk>>

Boot(p) ==
  \/ WriteStarting(p) \/ CreateLock(p) \/ ReadLock(p) \/ RemoveLock(p) \/ CreateAgain(p)
  \/ WritePid(p) \/ Recover(p) \/ RemoveStaleSocket(p) \/ Bind(p) \/ Announce(p)

Shutdown(p) ==
  \/ LeaveLoop(p) \/ Join(p) \/ RecordEnd(p)
  \/ RemoveSocket(p) \/ RemoveDaemonLock(p) \/ Exit(p)

-----------------------------------------------------------------------------
(* handle_connection                                                       *)

Step(c, at) == conn' = [conn EXCEPT ![c].at = at]

(* A listener's queue takes connections while the process lives.           *)
Connect(c) ==
  /\ conn[c] = NoConn
  /\ Reachable
  /\ conn' = [conn EXCEPT ![c] = [to |-> socket, at |-> "backlog"]]
  /\ UNCHANGED <<pc, signalled, cleaned, stolen, disk>>

(* daemon stop                                                             *)
StopRequest(c) ==
  /\ conn[c].at = "open"
  /\ signalled' = signalled \cup {conn[c].to}
  /\ Step(c, "done")
  /\ UNCHANGED <<pc, cleaned, stolen, disk>>

(* Any request that is answered at once, or an unreadable one.             *)
ShortRequest(c) ==
  /\ conn[c].at = "open"
  /\ Step(c, "done")
  /\ UNCHANGED <<pc, signalled, cleaned, stolen, disk>>

(* agents wait, inbox wait, sides wait and the follows subscribe to the    *)
(* channel when the request is dispatched: a receiver sees only what is    *)
(* sent after it was made.                                                 *)
WaitRequest(c) ==
  /\ conn[c].at = "open"
  /\ Step(c, IF conn[c].to \in signalled THEN "deaf" ELSE "waiting")
  /\ UNCHANGED <<pc, signalled, cleaned, stolen, disk>>

(* What the request waits for has come, or its timeout has.                *)
WaitOver(c) ==
  /\ conn[c].at \in {"waiting", "deaf"}
  /\ Step(c, "done")
  /\ UNCHANGED <<pc, signalled, cleaned, stolen, disk>>

(* A mutant of Hear: a wait ends when the sender is gone, not when it has  *)
(* sent.                                                                   *)
HearClosed(c) ==
  /\ conn[c].at = "waiting" /\ ~Alive(conn[c].to)
  /\ Step(c, "done")
  /\ UNCHANGED <<pc, signalled, cleaned, stolen, disk>>

Hear(c) ==
  /\ conn[c].at = "waiting" /\ conn[c].to \in signalled
  /\ Step(c, "done")
  /\ UNCHANGED <<pc, signalled, cleaned, stolen, disk>>

Request(c) == StopRequest(c) \/ ShortRequest(c) \/ WaitRequest(c)

-----------------------------------------------------------------------------
Next ==
  \/ \E p \in Process : Start(p) \/ Boot(p) \/ Accept(p) \/ Shutdown(p) \/ StopAll(p) \/ Die(p)
  \/ \E c \in Conn : Connect(c) \/ Request(c) \/ WaitOver(c) \/ Hear(c)

(* The runtime schedules a daemon that is shutting down and wakes the      *)
(* tasks that wait for the channel.  A client need not send, what a wait   *)
(* waits for need not come, and stop_all need not end: a run that a stale  *)
(* stop has missed keeps it going until its model answers.                 *)
Fairness ==
  /\ \A p \in Process : WF_vars(Shutdown(p))
  /\ \A c \in Conn : WF_vars(Hear(c))

Spec == Init /\ [][Next]_vars /\ Fairness

-----------------------------------------------------------------------------
(* Properties.                                                             *)

(* One daemon is supported per user (protocol.md:790), and a second one is *)
(* told that the daemon is already running.  Two starts at once can both   *)
(* come to serve all the same: one removes as stale the lock file that the *)
(* other has just created.                                                 *)
OneDaemon ==
  \A p, q \in Process : {pc[p], pc[q]} \subseteq Serving => p = q

(* That is the only way: as long as no start has removed the lock file of  *)
(* a living process, a daemon that accepts requests holds the lock file    *)
(* and the name of the socket, however many starts are under way; it is    *)
(* the one that clients reach, and neither a start that is refused, a      *)
(* daemon that is ending, with success or not, nor one that dies takes its *)
(* files away.                                                             *)
Exclusive ==
  ~stolen => \A p \in Process :
    pc[p] \in Serving => socket = p /\ lock = [by |-> p, pid |-> p]

(* As long as that holds, a client that polls until it is told             *)
(* daemon_stopped (protocol.md:228) has observed the end: every process    *)
(* that serves or is on its way out has stopped its workers, and so had    *)
(* the one that recorded the end, whoever has written to the lifecycle     *)
(* file in between.                                                        *)
StoppedIsStopped ==
  ~stolen /\ ~Reachable /\ Diagnosis = "daemon_stopped" =>
    /\ lifecycle.pid \in cleaned
    /\ \A p \in Process : pc[p] \in Serving \cup Ending => p \in cleaned

(* A connection holds up a shutdown whose client sends no request, or that *)
(* asked for a wait after the signal.                                      *)
Held(p) == \E c \in Conn : conn[c].to = p /\ conn[c].at \in {"open", "deaf"}

(* A daemon that has been told to stop ends, unless it is held up by a     *)
(* connection or its stop_all does not end; no wait that was under way     *)
(* when the signal came holds it up.                                       *)
ShutdownEnds ==
  \A p \in Process : p \in signalled ~> (pc[p] \in {"stop_all", "gone"} \/ Held(p))

===============================================================================
