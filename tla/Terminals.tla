------------------------------ MODULE Terminals ------------------------------
(***************************************************************************)
(* The terminal sessions of the runs of a daemon (TerminalManager, tools.rs *)
(* 430-760): one manager per run, bash processes, each in a group of its   *)
(* own.  Termination takes the sessions out of the map, sends TERM, waits  *)
(* 500 ms and sends KILL; whoever asked for it may be gone by then.        *)
(*                                                                         *)
(* A group is named after its leader, the bash process, and may have other *)
(* members.  A signal goes to the whole group, but to none of it once the  *)
(* leader has been reaped (signal_if_running).                             *)
(*                                                                         *)
(* Abstractions.  A process may exit at any time or ignore everything but  *)
(* KILL.  The exit of a leader and its reaping, 10 ms later at most, are   *)
(* one step.  The other members are left out while their leader lives, and *)
(* when it exits of itself: its session has then completed, and nothing is *)
(* ever sent to them.  kill(2) and wait(2) do not fail.  Output files and  *)
(* the standard input are left out.                                        *)
(***************************************************************************)
EXTENDS Naturals, FiniteSets

CONSTANTS
  Run,           \* the runs that own a manager
  Starters,      \* those of them that start processes: a bound
  Grouped,       \* those of them whose groups have other members: a bound
  MaxTerminals,  \* live sessions of one manager (8)
  MaxStarted     \* processes a run starts: a bound

VARIABLES
  started,   \* per run: processes started so far, numbered from 1
  sessions,  \* per run: the map of sessions
  alive,     \* per run: leaders that have not been reaped
  orphans,   \* per run: groups that may have members left, without a leader
  killing,   \* per run and terminator: groups that have had a TERM,
             \* and whose leader has not been reaped
  dropped    \* per run: likewise, groups whose termination was dropped half-way

terminals == <<started, sessions, alive, orphans, killing, dropped>>

Process    == 1 .. MaxStarted
Terminator == {"worker", "finalizer"}

(* running_count: the sessions whose exit code is not known.               *)
RunningCount(r) == Cardinality(sessions[r] \cap alive[r])

TerminalsTypeOK ==
  /\ started \in [Run -> 0 .. MaxStarted]
  /\ sessions \in [Run -> SUBSET Process]
  /\ alive \in [Run -> SUBSET Process]
  /\ orphans \in [Run -> SUBSET Process]
  /\ killing \in [Run -> [Terminator -> SUBSET Process]]
  /\ dropped \in [Run -> SUBSET Process]
  /\ \A r \in Run : RunningCount(r) <= MaxTerminals

TerminalsInit ==
  /\ started = [r \in Run |-> 0]
  /\ sessions = [r \in Run |-> {}]
  /\ alive = [r \in Run |-> {}]
  /\ orphans = [r \in Run |-> {}]
  /\ killing = [r \in Run |-> [t \in Terminator |-> {}]]
  /\ dropped = [r \in Run |-> {}]

(* A mutant of Room: one session too many.                                 *)
RoomOffByOne(r) == RunningCount(r) <= MaxTerminals

Room(r) == RunningCount(r) < MaxTerminals

Exec(r) ==
  /\ r \in Starters /\ started[r] < MaxStarted
  /\ Room(r)
  /\ started' = [started EXCEPT ![r] = @ + 1]
  /\ sessions' = [sessions EXCEPT ![r] = @ \cup {started[r] + 1}]
  /\ alive' = [alive EXCEPT ![r] = @ \cup {started[r] + 1}]
  /\ UNCHANGED <<orphans, killing, dropped>>

(* exec at the end of its yield, write_stdin: the session is removed if    *)
(* its leader has exited.                                                  *)
Reap(r) ==
  /\ \/ UNCHANGED sessions
     \/ \E p \in sessions[r] \ alive[r] : sessions' = [sessions EXCEPT ![r] = @ \ {p}]
  /\ UNCHANGED <<started, alive, orphans, killing, dropped>>

Signalled(r, p) == p \in dropped[r] \/ \E t \in Terminator : p \in killing[r][t]

(* A leader exits and is reaped.  If that is because of a TERM, others of  *)
(* its group may ignore it; what a terminator sends later reaches nobody.  *)
LeaderExit(r, p) ==
  /\ p \in alive[r]
  /\ alive' = [alive EXCEPT ![r] = @ \ {p}]
  /\ orphans' = [orphans EXCEPT ![r] = @ \cup {q \in {p} : r \in Grouped /\ Signalled(r, q)}]
  /\ killing' = [killing EXCEPT ![r] = [t \in Terminator |-> @[t] \ {p}]]
  /\ dropped' = [dropped EXCEPT ![r] = @ \ {p}]
  /\ UNCHANGED <<started, sessions>>

(* terminate, terminate_all: TERM to what was taken out of the map.  What  *)
(* the terminator had begun before and not ended is dropped.               *)
Terminate(r, t, ps) ==
  /\ sessions' = [sessions EXCEPT ![r] = @ \ ps]
  /\ killing' = [killing EXCEPT ![r][t] = ps \cap sessions[r] \cap alive[r]]
  /\ dropped' = [dropped EXCEPT ![r] = @ \cup killing[r][t]]
  /\ UNCHANGED <<started, alive, orphans>>

(* A mutant of Kill: nobody waits for a process that ignores TERM.         *)
KillNone(r, t) ==
  /\ killing' = [killing EXCEPT ![r][t] = {}]
  /\ UNCHANGED <<started, sessions, alive, orphans, dropped>>

(* 500 ms later: KILL, and wait for the leader.  A group whose leader has  *)
(* died of the TERM is left alone, and so are its members that ignored it. *)
Kill(r, t) ==
  /\ alive' = [alive EXCEPT ![r] = @ \ killing[r][t]]
  /\ killing' = [killing EXCEPT ![r][t] = {}]
  /\ UNCHANGED <<started, sessions, orphans, dropped>>

(* Loss of the daemon: PR_SET_PDEATHSIG kills every leader, which is the   *)
(* daemon's child, and no other member.                                    *)
LoseTerminals ==
  /\ sessions' = [r \in Run |-> {}]
  /\ alive' = [r \in Run |-> {}]
  /\ orphans' = [r \in Run |-> IF r \in Grouped THEN orphans[r] \cup alive[r] ELSE orphans[r]]
  /\ killing' = [r \in Run |-> [t \in Terminator |-> {}]]
  /\ dropped' = [r \in Run |-> {}]
  /\ UNCHANGED started
=============================================================================
