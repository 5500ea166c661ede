---------------------------- MODULE DrainingGate ----------------------------
(***************************************************************************)
(* What the mutation gate promises, without its counter and its wake-ups.  *)
(* While the gate is open, clients enter.  Whoever is inside may let a     *)
(* finalizer in.  Once the gate is closed nobody enters from outside, and  *)
(* the shutdown goes on only when everyone has left: no mutation that was  *)
(* accepted is still in progress, and none begins.                         *)
(***************************************************************************)
CONSTANTS Client, Finalizer

VARIABLES
  open,     \* the gate accepts clients
  inside,   \* the mutations in progress
  drained   \* the shutdown has seen the gate empty

Init ==
  /\ open = TRUE
  /\ inside = {}
  /\ drained = FALSE

Enter(c) ==
  /\ open
  /\ inside' = inside \cup {c}
  /\ UNCHANGED <<open, drained>>

LetIn(f) ==
  /\ inside # {}
  /\ inside' = inside \cup {f}
  /\ UNCHANGED <<open, drained>>

Leave(p) ==
  /\ inside' = inside \ {p}
  /\ UNCHANGED <<open, drained>>

Close ==
  /\ open' = FALSE
  /\ UNCHANGED <<inside, drained>>

Drain ==
  /\ ~ open
  /\ inside = {}
  /\ drained' = TRUE
  /\ UNCHANGED <<open, inside>>

Next ==
  \/ \E c \in Client : Enter(c)
  \/ \E f \in Finalizer : LetIn(f)
  \/ \E p \in Client \cup Finalizer : Leave(p)
  \/ Close
  \/ Drain

Spec == Init /\ [][Next]_<<open, inside, drained>>
=============================================================================
