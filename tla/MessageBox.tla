----------------------------- MODULE MessageBox -----------------------------
(***************************************************************************)
(* What the messages of one agent promise, without worker, files and       *)
(* crashes (protocol.md 446-475).  A message is accepted, is shown to the  *)
(* model at most once, after every message shown before it was sent, and   *)
(* is settled once: as delivered only when it has been shown.              *)
(***************************************************************************)
EXTENDS Naturals, Sequences

CONSTANT MaxMessages    \* messages ever accepted: a bound

VARIABLES
  box,      \* the status of each accepted message, in the order of sending
  shown     \* the messages shown to the model, in that order

State == {"pending", "delivered", "cancelled"}

Init ==
  /\ box = <<>>
  /\ shown = <<>>

Accept ==
  /\ Len(box) < MaxMessages
  /\ box' = Append(box, "pending")
  /\ UNCHANGED shown

(* First in, first out: a message is shown after all those shown so far,   *)
(* which were sent before it.  One that a stop cancels while the worker is *)
(* about to show it may still be shown (store.rs:1111 cancels without the  *)
(* operations mutex); a delivered one is never shown again.                *)
Show(m) ==
  /\ box[m] # "delivered"
  /\ \A i \in 1 .. Len(shown) : shown[i] < m
  /\ shown' = Append(shown, m)
  /\ UNCHANGED box

Deliver(m) ==
  /\ box[m] = "pending"
  /\ \E i \in 1 .. Len(shown) : shown[i] = m
  /\ box' = [box EXCEPT ![m] = "delivered"]
  /\ UNCHANGED shown

Cancel(m) ==
  /\ box[m] = "pending"
  /\ box' = [box EXCEPT ![m] = "cancelled"]
  /\ UNCHANGED shown

Next ==
  \/ Accept
  \/ \E m \in 1 .. Len(box) : Show(m) \/ Deliver(m) \/ Cancel(m)

Spec == Init /\ [][Next]_<<box, shown>>
=============================================================================
