--------------------------- MODULE MessageDelivery ---------------------------
(***************************************************************************)
(* The records of one agent: metadata, context.json, messages.json and     *)
(* events.jsonl (store.rs), written by its worker (agent.rs 1598-1801)     *)
(* one after the other, against a client that sends and cancels, a stop or *)
(* interrupt finalizer, and a crash between any two writes.                *)
(*                                                                         *)
(* AgentManager takes a delivery as one step; here it is the three writes  *)
(* it consists of, and the context is more than a name: user messages,     *)
(* turns with tool calls, tool results and summaries, in memory and on     *)
(* disk.  The worker holds the `operations` mutex while it delivers.       *)
(*                                                                         *)
(* Abstractions.  One worker at a time: what an overlap of two does is the *)
(* subject of AgentManager.  One finalizer at a time.  The agent always    *)
(* finds capacity when a pass resumes it.  Serialized sizes are left open: *)
(* a context of three messages may need compaction, and any safe boundary  *)
(* may be the one nearest to 60 percent.                                   *)
(***************************************************************************)
EXTENDS Naturals, Sequences, FiniteSets

CONSTANTS
  MaxMessages,  \* messages sent to the agent: a bound
  MaxRuns,      \* runs of the agent: a bound
  MaxLog,       \* messages in the context: a bound on further turns
  MaxCalls      \* tool calls in one turn

ASSUME BoundsAssumption ==
  /\ MaxMessages \in Nat
  /\ MaxRuns \in Nat \ {0}
  /\ MaxLog \in Nat
  /\ MaxCalls \in Nat

VARIABLES
  up,        \* the daemon process is running
  working,   \* metadata.status is working (disk)
  run,       \* metadata.run_number (disk)
  messages,  \* messages.json: intent and status, in the order of sending
  context,   \* context.json: messages and delivered_message_ids
  events,    \* messages that have a user_message event in events.jsonl
  pc,        \* where the worker is
  mem,       \* the worker's copy of the context
  batch,     \* the pending messages it has listed and not yet delivered
  final,     \* it delivers after a final text, not at the loop's head
  turn,      \* tool calls of the turn, and the one being executed
  retried,   \* the last completion was empty (retried_empty_completion)
  signal,    \* the stop channel of the run
  fin        \* the finalizer: kind, place, and messages still to cancel

disk   == <<working, run, messages, context, events>>
worker == <<pc, mem, batch, final, turn, retried>>
vars   == <<up, disk, worker, signal, fin>>

(***************************************************************************)
(* A message of the context: the agent's system message, a user message    *)
(* (0 for the one given at spawn), an assistant turn with n calls, the     *)
(* result of the n-th call, a summary, the request to retry.               *)
(***************************************************************************)
Entry(role, n) == [role |-> role, n |-> n]
System    == Entry("system", 0)
Summary   == Entry("summary", 0)
Retry     == Entry("retry", 0)
User(m)   == Entry("user", m)
Asst(n)   == Entry("assistant", n)
Tool(n)   == Entry("tool", n)

Message    == 1 .. MaxMessages
Role       == {"system", "summary", "retry", "user", "assistant", "tool"}
Intent     == {"message", "followup"}
Context    == [log : Seq([role : Role, n : Nat]), ids : Seq(Message)]
Delivering == {"save", "event", "mark"}
PC         == {"none", "head", "ready", "compacted", "asking", "tool",
               "ending", "failing"} \cup Delivering
NoContext  == [log |-> <<>>, ids |-> <<>>]
NoTurn     == [calls |-> 0, at |-> 0]
NoFin      == [pc |-> "free", kind |-> "stop", ids |-> {}]

MessagesOK ==
  /\ messages \in Seq([intent : Intent, status : {"pending", "delivered", "cancelled"}])
  /\ Len(messages) <= MaxMessages

FilesOK == context \in Context /\ mem \in Context /\ events \in Seq(Message)

WorkerOK ==
  /\ up \in BOOLEAN /\ working \in BOOLEAN /\ final \in BOOLEAN
  /\ signal \in BOOLEAN /\ retried \in BOOLEAN
  /\ run \in 1 .. MaxRuns
  /\ pc \in PC
  /\ turn \in [calls : 0 .. MaxCalls, at : 0 .. MaxCalls]

BatchOK == batch \subseteq 1 .. Len(messages)

FinOK ==
  /\ fin.ids \subseteq 1 .. Len(messages)
  /\ fin \in [pc : {"free", "start", "cancel", "term", "wait"}, kind : {"stop", "interrupt"},
              ids : SUBSET Message]

TypeOK == MessagesOK /\ FilesOK /\ WorkerOK /\ BatchOK /\ FinOK

-----------------------------------------------------------------------------
(* Helpers.                                                                *)

Elements(s) == {s[i] : i \in DOMAIN s}

(* pending_messages: a list, taken from the front, oldest first.           *)
Pending == {m \in 1 .. Len(messages) : messages[m].status = "pending"}

Oldest(m, list) == m \in list /\ \A k \in list : m <= k

(* Owner lock: the finalizer keeps it from its check to its record.        *)
OwnerFree == fin.pc \notin {"cancel", "term"}

(* A message is settled by update_message: only a pending one.             *)
Settle(m, s) == messages' = [messages EXCEPT ![m].status = s]

(* A mutant of Unseen: the delivered marker is not looked up.              *)
UnseenAlways(m) == TRUE

Unseen(m) == m \notin Elements(mem.ids)

Push(c, entry) == [c EXCEPT !.log = Append(@, entry)]

(* A mutant of SafeCut: a boundary may separate a call from its result.    *)
SafeCutAnywhere(log, cut) == cut \in 3 .. Len(log)

(* safe_compaction_boundary: `cut` is the first message retained; the      *)
(* system message and at least one more precede it.                        *)
SafeCut(log, cut) == cut \in 3 .. Len(log) /\ log[cut].role # "tool"

(* compacted_messages.                                                     *)
Compacted(log, cut) == <<log[1], Summary>> \o SubSeq(log, cut, Len(log))

(* Turns with calls, and whether results for all calls of the last follow.  *)
Turns(log) == {i \in 1 .. Len(log) : log[i].role = "assistant" /\ log[i].n > 0}

HasResults(log, i) ==
  1 .. log[i].n \subseteq {log[k].n : k \in {j \in i + 1 .. Len(log) : log[j].role = "tool"}}

(* A mutant of Snapshot: the trailing turn is not looked at.               *)
SnapshotWhole(log) == log

(* make_side_snapshot_valid: of the saved context, a Side inherits all that *)
(* precedes the last turn with calls when that lacks a result.             *)
Snapshot(log) ==
  LET cut == {i \in Turns(log) : (\A k \in Turns(log) : k <= i) /\ ~HasResults(log, i)}
  IN  IF cut = {} THEN log ELSE SubSeq(log, 1, (CHOOSE i \in cut : TRUE) - 1)

(* start_worker: the run begins with the context as it is on disk.         *)
StartWorker ==
  /\ pc' = "head"
  /\ mem' = context
  /\ batch' = {}
  /\ final' = FALSE
  /\ turn' = NoTurn
  /\ retried' = FALSE
  /\ signal' = FALSE

Resume ==
  /\ run < MaxRuns
  /\ working' = TRUE
  /\ run' = run + 1
  /\ StartWorker

(* run_worker returns: what it had in memory is gone.                      *)
Leave(where) ==
  /\ pc' = where
  /\ mem' = NoContext
  /\ batch' = {}
  /\ final' = FALSE
  /\ turn' = NoTurn
  /\ retried' = FALSE

(* stopping_agents.                                                        *)
Stopping == fin.pc # "free"

-----------------------------------------------------------------------------
(* Requests.  They need the owner lock and the operations mutex.           *)

Unlocked == up /\ OwnerFree /\ pc \notin Delivering

(* enqueue_agent_input: an inactive agent is resumed by a follow-up, unless *)
(* there is no capacity; a working one will look at its messages itself.   *)
Send(intent) ==
  /\ Unlocked
  /\ ~Stopping
  /\ Len(messages) < MaxMessages
  /\ messages' = Append(messages, [intent |-> intent, status |-> "pending"])
  /\ \/ UNCHANGED <<working, run, worker, signal>>
     \/ ~working /\ intent = "followup" /\ Resume
  /\ UNCHANGED <<up, context, events, fin>>

CancelMessage(m) ==
  /\ Unlocked
  /\ messages[m].status = "pending"
  /\ Settle(m, "cancelled")
  /\ UNCHANGED <<up, working, run, context, events, worker, signal, fin>>

(* A scheduling pass, of another worker or at boot.                        *)
Schedule ==
  /\ Unlocked
  /\ ~working /\ pc = "none"
  /\ \E m \in Pending : messages[m].intent = "followup"
  /\ Resume
  /\ UNCHANGED <<up, messages, context, events, fin>>

-----------------------------------------------------------------------------
(* The finalizer of a stop or an interrupt.                                *)

(* A registered run is needed; stop also takes the operations mutex.       *)
FinBegin(kind) ==
  /\ up /\ ~Stopping /\ pc # "none"
  /\ kind = "stop" => pc \notin Delivering
  /\ fin' = [pc |-> "start", kind |-> kind, ids |-> {}]
  /\ UNCHANGED <<up, disk, worker, signal>>

(* With the owner lock: not working any more is a conflict; a stop lists    *)
(* the pending messages, an interrupt leaves them and signals at once.     *)
FinCheck ==
  /\ fin.pc = "start"
  /\ \/ ~working /\ fin' = NoFin /\ UNCHANGED signal
     \/ working /\ fin.kind = "stop" /\ fin' = [pc |-> "cancel", kind |-> "stop", ids |-> Pending]
        /\ UNCHANGED signal
     \/ working /\ fin.kind = "interrupt" /\ fin' = [fin EXCEPT !.pc = "term"]
        /\ signal' = TRUE
  /\ UNCHANGED <<up, disk, worker>>

(* cancel_pending_messages: one update per message, without the operations *)
(* mutex.  A message delivered since it was listed fails the stop.         *)
FinCancel ==
  /\ fin.pc = "cancel"
  /\ \E m \in fin.ids :
       /\ Oldest(m, fin.ids)
       /\ \/ /\ messages[m].status = "pending"
             /\ Settle(m, "cancelled")
             /\ fin' = [fin EXCEPT !.ids = @ \ {m}]
          \/ /\ messages[m].status # "pending"
             /\ fin' = NoFin
             /\ UNCHANGED messages
  /\ UNCHANGED <<up, working, run, context, events, worker, signal>>

(* A mutant of FinSignal: one message is left when the run is signalled.   *)
FinSignalEarly ==
  /\ fin.pc = "cancel" /\ Cardinality(fin.ids) <= 1
  /\ fin' = [fin EXCEPT !.pc = "term"]
  /\ signal' = TRUE
  /\ UNCHANGED <<up, disk, worker>>

FinSignal ==
  /\ fin.pc = "cancel" /\ fin.ids = {}
  /\ fin' = [fin EXCEPT !.pc = "term"]
  /\ signal' = TRUE
  /\ UNCHANGED <<up, disk, worker>>

(* mark_stopped or mark_interrupted, then the owner lock is dropped.       *)
FinMark ==
  /\ fin.pc = "term"
  /\ working' = FALSE
  /\ fin' = IF working THEN [fin EXCEPT !.pc = "wait"] ELSE NoFin
  /\ UNCHANGED <<up, run, messages, context, events, worker, signal>>

FinDone ==
  /\ fin.pc = "wait" /\ pc = "none"
  /\ fin' = NoFin
  /\ UNCHANGED <<up, disk, worker, signal>>

-----------------------------------------------------------------------------
(* The worker: delivery, in three writes per message.                      *)

(* What follows a delivery: after a final text the loop goes on.           *)
Delivered == IF final THEN "head" ELSE "ready"

ListPending ==
  /\ pc = "head"
  /\ batch' = Pending
  /\ final' = FALSE
  /\ pc' = IF Pending = {} THEN "ready" ELSE "save"
  /\ UNCHANGED <<up, disk, mem, turn, retried, signal, fin>>

SaveContext ==
  /\ pc = "save"
  /\ pc' = "event"
  /\ \E m \in batch :
       /\ Oldest(m, batch)
       /\ IF Unseen(m)
          THEN /\ mem' = [log |-> Append(mem.log, User(m)), ids |-> Append(mem.ids, m)]
               /\ context' = mem'
          ELSE UNCHANGED <<mem, context>>
  /\ UNCHANGED <<up, working, run, messages, events, batch, final, turn, retried, signal, fin>>

(* A mutant of NoEvent: the journal is not searched first.                 *)
NoEventAlways(m) == TRUE

(* has_message_event.                                                      *)
NoEvent(m) == m \notin Elements(events)

(* append_event refuses a user_message of an agent that is not working.    *)
AppendEvent ==
  /\ pc = "event"
  /\ \E m \in batch :
       /\ Oldest(m, batch)
       /\ \/ ~NoEvent(m) /\ pc' = "mark" /\ UNCHANGED <<events, mem, batch, final, turn, retried>>
          \/ /\ NoEvent(m) /\ working
             /\ events' = Append(events, m)
             /\ pc' = "mark"
             /\ UNCHANGED <<mem, batch, final, turn, retried>>
          \/ NoEvent(m) /\ ~working /\ Leave("failing") /\ UNCHANGED events
  /\ UNCHANGED <<up, working, run, messages, context, signal, fin>>

(* mark_message_delivered fails when a stop has cancelled the message.     *)
MarkDelivered ==
  /\ pc = "mark"
  /\ \E m \in batch :
       /\ Oldest(m, batch)
       /\ \/ /\ messages[m].status = "pending"
             /\ Settle(m, "delivered")
             /\ batch' = batch \ {m}
             /\ pc' = IF batch = {m} THEN Delivered ELSE "save"
             /\ UNCHANGED <<mem, final, turn, retried>>
          \/ messages[m].status # "pending" /\ Leave("failing") /\ UNCHANGED messages
  /\ UNCHANGED <<up, working, run, context, events, signal, fin>>

-----------------------------------------------------------------------------
(* The worker: compaction, turns of the model, tool calls, the end.        *)

Compact ==
  /\ pc = "ready"
  /\ \E cut \in 1 .. Len(mem.log) :
       /\ SafeCut(mem.log, cut)
       /\ mem' = [mem EXCEPT !.log = Compacted(@, cut)]
       /\ context' = mem'
  /\ pc' = "compacted"
  /\ UNCHANGED <<up, working, run, messages, events, batch, final, turn, retried, signal, fin>>

Ask ==
  /\ pc \in {"ready", "compacted"} /\ ~signal
  /\ pc' = "asking"
  /\ UNCHANGED <<up, disk, mem, batch, final, turn, retried, signal, fin>>

(* A compaction that fails, an error of the model, two empty completions.  *)
TurnError ==
  /\ pc \in {"ready", "asking"}
  /\ Leave("failing")
  /\ UNCHANGED <<up, disk, signal, fin>>

TurnTools(n) ==
  /\ pc = "asking"
  /\ Len(mem.log) + n < MaxLog
  /\ \/ /\ working
        /\ mem' = Push(mem, Asst(n))
        /\ turn' = [calls |-> n, at |-> 1]
        /\ pc' = "tool"
        /\ retried' = FALSE
        /\ UNCHANGED <<batch, final>>
     \/ ~working /\ Leave("failing")
  /\ UNCHANGED <<up, disk, signal, fin>>

(* A mutant of MoreCalls: one call too many.                               *)
MoreCallsOffByOne == turn.at <= turn.calls

MoreCalls == turn.at < turn.calls

(* The context is saved after every call, not after the turn.              *)
ToolDone ==
  /\ pc = "tool"
  /\ \/ /\ working
        /\ mem' = Push(mem, Tool(turn.at))
        /\ context' = mem'
        /\ IF MoreCalls
           THEN turn' = [turn EXCEPT !.at = @ + 1] /\ UNCHANGED pc
           ELSE turn' = NoTurn /\ pc' = "head"
        /\ UNCHANGED <<batch, final, retried>>
     \/ ~working /\ Leave("failing") /\ UNCHANGED context
  /\ UNCHANGED <<up, working, run, messages, events, signal, fin>>

(* A final text: pending messages are delivered first and the loop goes on; *)
(* without any the context is saved and the run is about to end.           *)
TurnText ==
  /\ pc = "asking"
  /\ Len(mem.log) < MaxLog
  /\ \/ /\ working
        /\ mem' = Push(mem, Asst(0))
        /\ batch' = Pending
        /\ final' = TRUE
        /\ retried' = FALSE
        /\ IF Pending = {}
           THEN pc' = "ending" /\ context' = mem'
           ELSE pc' = "save" /\ UNCHANGED context
        /\ UNCHANGED turn
     \/ ~working /\ Leave("failing") /\ UNCHANGED context
  /\ UNCHANGED <<up, working, run, messages, events, signal, fin>>

(* An empty completion is answered by a request to retry, once: the second *)
(* one in a row ends the run (TurnError).                                  *)
TurnEmpty ==
  /\ pc = "asking" /\ ~retried
  /\ Len(mem.log) < MaxLog
  /\ mem' = Push(mem, Retry)
  /\ context' = mem'
  /\ retried' = TRUE
  /\ pc' = "head"
  /\ UNCHANGED <<up, working, run, messages, events, batch, final, turn, signal, fin>>

Stopped ==
  /\ pc \in {"ready", "compacted", "asking", "tool"} /\ signal
  /\ Leave("none")
  /\ UNCHANGED <<up, disk, signal, fin>>

(* mark_finished, mark_stopped at the deadline, mark_failed: under the      *)
(* owner lock, and only when the agent is still working.                   *)
End ==
  /\ pc \in {"ready", "compacted", "asking", "ending", "failing"}
  /\ OwnerFree
  /\ working' = FALSE
  /\ Leave("none")
  /\ UNCHANGED <<up, run, messages, context, events, signal, fin>>

-----------------------------------------------------------------------------
(* Loss of the process, and the next start with recover_interrupted.       *)

Crash ==
  /\ up
  /\ up' = FALSE
  /\ Leave("none")
  /\ signal' = FALSE
  /\ fin' = NoFin
  /\ UNCHANGED disk

Start ==
  /\ ~up
  /\ up' = TRUE
  /\ working' = FALSE
  /\ UNCHANGED <<run, messages, context, events, worker, signal, fin>>

-----------------------------------------------------------------------------
Init ==
  /\ up = TRUE /\ working = TRUE /\ run = 1
  /\ messages = <<>> /\ events = <<>>
  /\ context = [log |-> <<System, User(0)>>, ids |-> <<>>]
  /\ pc = "head" /\ mem = context /\ batch = {} /\ final = FALSE /\ turn = NoTurn
  /\ retried = FALSE
  /\ signal = FALSE /\ fin = NoFin

Client ==
  \/ \E intent \in Intent : Send(intent)
  \/ \E m \in 1 .. Len(messages) : CancelMessage(m)
  \/ Schedule

Final ==
  \/ \E kind \in {"stop", "interrupt"} : FinBegin(kind)
  \/ FinCheck \/ FinCancel \/ FinSignal \/ FinMark \/ FinDone

Worker ==
  \/ ListPending \/ SaveContext \/ AppendEvent \/ MarkDelivered
  \/ Compact \/ Ask \/ TurnError \/ TurnText \/ TurnEmpty \/ ToolDone \/ Stopped \/ End
  \/ \E n \in 1 .. MaxCalls : TurnTools(n)

Next == Client \/ Final \/ Worker \/ Crash \/ Start

Spec == Init /\ [][Next]_vars

-----------------------------------------------------------------------------
(* Properties.                                                             *)

(* The four records agree in whatever order they were written: a message   *)
(* is marked delivered only after its event, an event is there only after  *)
(* the message is in the saved context, and no message has two events      *)
(* (deliver_pending_messages, after any crash, stop or failure).           *)
RecordsAgree ==
  /\ \A m \in 1 .. Len(messages) :
       messages[m].status = "delivered" => m \in Elements(events)
  /\ Elements(events) \subseteq Elements(context.ids)
  /\ \A i, j \in 1 .. Len(events) : events[i] = events[j] => i = j

Answers(log, i) == log[i].role = "tool" =>
  \/ log[i - 1] = Tool(log[i].n - 1) /\ log[i].n > 1
  \/ log[i].n = 1 /\ log[i - 1].role = "assistant" /\ log[i - 1].n > 0

Answered(log, i) == log[i].role = "assistant" =>
  /\ i + log[i].n <= Len(log)
  /\ \A j \in 1 .. log[i].n : log[i + j] = Tool(j)

(* A request to the model never contains a tool result without its call;   *)
(* in the first run every call has its result as well.  (A later run may   *)
(* inherit a turn that a stop has cut: run_worker does not repair it.)     *)
ResultsFollowCalls ==
  pc = "asking" =>
    /\ \A i \in 1 .. Len(mem.log) : Answers(mem.log, i)
    /\ run = 1 => \A i \in 1 .. Len(mem.log) : Answered(mem.log, i)

(* What a Side created during or after the first run inherits, whatever    *)
(* the worker is at and whatever has cut it off: results behind their      *)
(* calls, every call with its result, and every message that was shown     *)
(* (create_side reads context.json while the run may be inside a turn).    *)
(* A later run goes on behind a turn that was cut: as long as it has begun  *)
(* no other, all that follows that turn is dropped with it.                *)
SnapshotsComplete ==
  Unlocked =>
    LET log == Snapshot(context.log) IN
      /\ \A i \in 1 .. Len(log) : Answers(log, i)
      /\ run = 1 =>
           /\ \A i \in 1 .. Len(log) : Answered(log, i)
           /\ \A m \in 0 .. MaxMessages :
                User(m) \in Elements(context.log) => User(m) \in Elements(log)

(* A stop that succeeds leaves no message pending, although it cancels     *)
(* them one by one before it terminates the terminals.                     *)
StopLeavesNothing ==
  [][fin.kind = "stop" /\ fin.pc = "term" /\ fin'.pc = "wait" => Pending = {}]_vars

Box == INSTANCE MessageBox WITH
  box   <- [m \in 1 .. Len(messages) |-> messages[m].status],
  shown <- context.ids

(* Every message is shown to the model at most once and in order, and is   *)
(* settled once: the agent's records implement MessageBox.                 *)
KeepsOrder == Box!Spec
=============================================================================
