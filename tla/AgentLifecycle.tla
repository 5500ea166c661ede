--------------------------- MODULE AgentLifecycle ---------------------------
(***************************************************************************)
(* What the daemon promises of its agents, seen through their metadata:    *)
(* the status, and the number of the current run.  AgentManager implements *)
(* it.  A step may move several agents at once, as recovery does.          *)
(***************************************************************************)
EXTENDS Naturals

CONSTANT Agent

VARIABLES
  life,   \* metadata.status; "none" before the spawn, "deleted" after delete
  runs    \* metadata.run_number

Ended == {"interrupted", "finished", "stopped", "failed"}

Init ==
  /\ life = [a \in Agent |-> "none"]
  /\ runs = [a \in Agent |-> 0]

Spawned(a) ==
  /\ life[a] = "none"
  /\ life'[a] = "working"
  /\ runs'[a] = 1

(* Only a working agent ends: an ended one keeps its outcome.              *)
End(a) ==
  /\ life[a] = "working"
  /\ life'[a] \in Ended
  /\ runs'[a] = runs[a]

(* The next run.  The agent has usually ended, but a scheduling pass with  *)
(* an old listing starts the next run on top of one that is still working. *)
Resumed(a) ==
  /\ life[a] \in Ended \cup {"working"}
  /\ life'[a] = "working"
  /\ runs'[a] = runs[a] + 1

(* Deletion is final, and only for an agent that is not working.           *)
Removed(a) ==
  /\ life[a] \in Ended
  /\ life'[a] = "deleted"
  /\ runs'[a] = runs[a]

Stays(a) == life'[a] = life[a] /\ runs'[a] = runs[a]

Next == \A a \in Agent : Spawned(a) \/ End(a) \/ Resumed(a) \/ Removed(a) \/ Stays(a)

Spec == Init /\ [][Next]_<<life, runs>>
=============================================================================
