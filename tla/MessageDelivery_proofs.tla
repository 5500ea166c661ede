----------------------- MODULE MessageDelivery_proofs -----------------------
(***************************************************************************)
(* Proofs about MessageDelivery, for any number of messages, runs, calls   *)
(* and any length of the context: the records agree, a stop leaves no      *)
(* message pending, and the records implement MessageBox.                  *)
(***************************************************************************)
EXTENDS MessageDelivery, SequenceTheorems, TLAPS

Record == [intent : Intent, status : {"pending", "delivered", "cancelled"}]
LogEntry == [role : Role, n : Nat]

Bar == [m \in 1 .. Len(messages) |-> messages[m].status]

-----------------------------------------------------------------------------
(* Sequences.                                                              *)

LEMMA ElementsAppend ==
  ASSUME NEW S, NEW s \in Seq(S), NEW e \in S
  PROVE  Elements(Append(s, e)) = Elements(s) \cup {e}
<1>1. /\ Append(s, e) \in Seq(S)
      /\ Len(Append(s, e)) = Len(s) + 1
      /\ \A i \in 1 .. Len(s) : Append(s, e)[i] = s[i]
      /\ Append(s, e)[Len(s) + 1] = e
  BY AppendProperties
<1>2. DOMAIN s = 1 .. Len(s) /\ DOMAIN Append(s, e) = 1 .. Len(s) + 1 /\ Len(s) \in Nat
  BY <1>1
<1> QED
  BY <1>1, <1>2 DEF Elements

LEMMA OneMore ==
  \A s \in Seq(Message), m \in Message : Elements(Append(s, m)) = Elements(s) \cup {m}
BY ElementsAppend

(* Entries of the context.                                                 *)
LEMMA EntryType ==
  ASSUME NEW role \in Role, NEW n \in Nat
  PROVE  Entry(role, n) \in LogEntry
BY DEF Entry, LogEntry

LEMMA LogReplaced ==
  ASSUME NEW L, NEW I, NEW c \in [log : L, ids : I], NEW l \in L
  PROVE  /\ [c EXCEPT !.log = l] \in [log : L, ids : I]
         /\ [c EXCEPT !.log = l].ids = c.ids
OBVIOUS

(* One more entry keeps the type of a context and its list of messages.    *)
LEMMA PushType ==
  ASSUME NEW c \in Context, NEW role \in Role, NEW n \in Nat
  PROVE  /\ Push(c, Entry(role, n)) \in Context
         /\ Push(c, Entry(role, n)).ids = c.ids
<1>1. Append(c.log, Entry(role, n)) \in Seq(LogEntry)
  BY EntryType, AppendProperties DEF Context, LogEntry
<1>2. c \in [log : Seq(LogEntry), ids : Seq(Message)]
  BY DEF Context, LogEntry
<1>3. /\ Push(c, Entry(role, n)) \in [log : Seq(LogEntry), ids : Seq(Message)]
      /\ Push(c, Entry(role, n)).ids = c.ids
  BY <1>1, <1>2, LogReplaced DEF Push
<1> QED
  BY <1>3 DEF Context, LogEntry

(* So does a compaction.                                                   *)
LEMMA CompactedType ==
  ASSUME NEW log \in Seq(LogEntry), NEW cut \in 1 .. Len(log)
  PROVE  Compacted(log, cut) \in Seq(LogEntry)
<1>1. log[1] \in LogEntry /\ Summary \in LogEntry
  BY ElementOfSeq, EntryType DEF Summary, Role
<1>2. <<log[1], Summary>> \in Seq(LogEntry)
  BY <1>1
<1>3. SubSeq(log, cut, Len(log)) \in Seq(LogEntry)
  BY ElementOfSeq, SubSeqProperties
<1> QED
  BY <1>2, <1>3, ConcatProperties DEF Compacted

-----------------------------------------------------------------------------
(* The two ways the list of messages changes.                              *)

LEMMA MessagesLength ==
  ASSUME MessagesOK
  PROVE  /\ messages \in Seq(Record)
         /\ Len(messages) \in Nat /\ Len(messages) <= MaxMessages
         /\ 1 .. Len(messages) \subseteq Message
<1>1. messages \in Seq(Record) /\ Len(messages) <= MaxMessages
  BY DEF MessagesOK, Record
<1>2. Len(messages) \in Nat
  BY <1>1
<1> QED
  BY <1>1, <1>2, BoundsAssumption DEF Message

(* A message is accepted: it is the last one, and pending.                 *)
LEMMA Accepted ==
  ASSUME TypeOK, NEW intent \in Intent, Len(messages) < MaxMessages,
         messages' = Append(messages, [intent |-> intent, status |-> "pending"])
  PROVE  /\ messages' \in Seq(Record)
         /\ Len(messages') = Len(messages) + 1
         /\ \A k \in 1 .. Len(messages) : messages'[k] = messages[k]
         /\ messages'[Len(messages) + 1].status = "pending"
         /\ Pending' = Pending \cup {Len(messages) + 1}
         /\ Bar' = Append(Bar, "pending")
<1> DEFINE new == [intent |-> intent, status |-> "pending"]
<1>1. new \in Record
  BY DEF Record
<1>2. messages \in Seq(Record) /\ Len(messages) \in Nat
  BY DEF TypeOK, MessagesOK, Record
<1>3. /\ messages' \in Seq(Record)
      /\ Len(messages') = Len(messages) + 1
      /\ \A k \in 1 .. Len(messages) : messages'[k] = messages[k]
      /\ messages'[Len(messages) + 1] = new
  BY <1>1, <1>2, AppendProperties
<1>4. Pending' = Pending \cup {Len(messages) + 1}
  BY <1>2, <1>3 DEF Pending
<1>5. Bar \in Seq({"pending", "delivered", "cancelled"}) /\ Len(Bar) = Len(messages)
  <2>1. ASSUME NEW k \in 1 .. Len(messages)
        PROVE  messages[k].status \in {"pending", "delivered", "cancelled"}
    <3>1. messages[k] \in Record
      BY <1>2, ElementOfSeq
    <3> QED
      BY <3>1 DEF Record
  <2>2. Bar \in [1 .. Len(messages) -> {"pending", "delivered", "cancelled"}]
    BY <2>1 DEF Bar
  <2>3. Bar \in Seq({"pending", "delivered", "cancelled"})
    BY <1>2, <2>2, SeqDef
  <2> QED
    BY <1>2, <2>2, <2>3
<1>6. Bar' = Append(Bar, "pending")
  BY <1>2, <1>3, <1>5 DEF Bar
<1> QED
  BY <1>3, <1>4, <1>6

(* A message is settled: only its status changes.                          *)
LEMMA Settled ==
  ASSUME TypeOK, NEW m \in 1 .. Len(messages), NEW s \in {"delivered", "cancelled"},
         Settle(m, s)
  PROVE  /\ messages' \in Seq(Record)
         /\ Len(messages') = Len(messages)
         /\ \A k \in 1 .. Len(messages) :
              messages'[k].status = IF k = m THEN s ELSE messages[k].status
         /\ Pending' = Pending \ {m}
         /\ Bar' = [Bar EXCEPT ![m] = s]
<1>1. messages \in Seq(Record) /\ Len(messages) \in Nat
  BY DEF TypeOK, MessagesOK, Record
<1>2. messages[m] \in Record
  BY <1>1, ElementOfSeq
<1> DEFINE new == [messages[m] EXCEPT !.status = s]
<1>3. new \in Record /\ new.status = s
  BY <1>2 DEF Record
<1>4. messages' = [messages EXCEPT ![m] = new]
  BY DEF Settle
<1>5. /\ messages' \in Seq(Record)
      /\ Len(messages') = Len(messages)
      /\ \A k \in 1 .. Len(messages) : messages'[k] = IF k = m THEN new ELSE messages[k]
  <2> HIDE DEF new
  <2> QED
    BY <1>1, <1>3, <1>4, ExceptSeq
<1>6. \A k \in 1 .. Len(messages) :
        messages'[k].status = IF k = m THEN s ELSE messages[k].status
  BY <1>3, <1>5
<1>7. Pending' = Pending \ {m}
  BY <1>5, <1>6 DEF Pending
<1>8. Bar' = [Bar EXCEPT ![m] = s]
  BY <1>5, <1>6 DEF Bar
<1> QED
  BY <1>5, <1>6, <1>7, <1>8

-----------------------------------------------------------------------------
LEMMA NoContextType == NoContext \in Context /\ <<>> \in Seq(Message)
<1>1. <<>> \in Seq(LogEntry) /\ <<>> \in Seq(Message)
  OBVIOUS
<1> QED
  BY <1>1 DEF NoContext, Context, LogEntry

Turn == [calls : 0 .. MaxCalls, at : 0 .. MaxCalls]

LEMMA NoTurnType == NoTurn \in Turn
BY BoundsAssumption DEF NoTurn, Turn

LEMMA InitType == Init => TypeOK
<1> SUFFICES ASSUME Init PROVE TypeOK
  OBVIOUS
<1>1. System \in LogEntry /\ User(0) \in LogEntry
  BY EntryType DEF System, User, Role
<1>2. <<System, User(0)>> \in Seq(LogEntry) /\ <<>> \in Seq(Message)
  BY <1>1
<1>3. FilesOK
  BY <1>2 DEF Init, Context, LogEntry, FilesOK
<1>4. MessagesOK /\ BatchOK
  BY BoundsAssumption DEF Init, MessagesOK, BatchOK
<1>5. WorkerOK
  <2>1. run \in 1 .. MaxRuns
    BY BoundsAssumption DEF Init
  <2>2. turn \in Turn
    BY NoTurnType DEF Init
  <2> QED
    BY <2>1, <2>2 DEF Init, WorkerOK, Turn, PC
<1>6. FinOK
  BY DEF Init, FinOK, NoFin
<1> QED
  BY <1>3, <1>4, <1>5, <1>6 DEF TypeOK

(* A worker that returns.                                                  *)
LEMMA LeaveType ==
  ASSUME NEW where \in {"none", "failing"}, Leave(where)
  PROVE  /\ mem' \in Context /\ turn' \in Turn
         /\ pc' = where /\ pc' \in PC
         /\ final' = FALSE /\ retried' = FALSE /\ batch' = {}
BY NoContextType, NoTurnType DEF Leave, PC

(* A worker that begins.                                                   *)
LEMMA ResumeType ==
  ASSUME TypeOK, Resume
  PROVE  /\ mem' \in Context /\ turn' \in Turn
         /\ pc' = "head" /\ pc' \in PC
         /\ final' = FALSE /\ retried' = FALSE /\ batch' = {}
         /\ signal' = FALSE /\ working' = TRUE
         /\ run' \in 1 .. MaxRuns
<1>1. mem' = context /\ turn' = NoTurn /\ pc' = "head"
  BY DEF Resume, StartWorker
<1>2. run' \in 1 .. MaxRuns
  BY BoundsAssumption DEF TypeOK, WorkerOK, Resume
<1> QED
  BY <1>1, <1>2, NoTurnType DEF Resume, StartWorker, TypeOK, FilesOK, PC

(* Every step keeps the type of each part of the state.                    *)
LEMMA MessagesType == TypeOK /\ [Next]_vars => MessagesOK'
<1> SUFFICES ASSUME TypeOK, [Next]_vars PROVE MessagesOK'
  OBVIOUS
<1>a. ASSUME UNCHANGED messages PROVE MessagesOK'
  BY <1>a DEF TypeOK, MessagesOK
<1>b. ASSUME messages' \in Seq(Record), Len(messages') <= MaxMessages PROVE MessagesOK'
  BY <1>b DEF Record, MessagesOK
<1>1. ASSUME NEW intent \in Intent, Send(intent) PROVE MessagesOK'
  <2>1. Len(messages) \in Nat /\ Len(messages) < MaxMessages
    BY <1>1, MessagesLength DEF Send, TypeOK
  <2>2. messages' \in Seq(Record) /\ Len(messages') = Len(messages) + 1
    BY <1>1, Accepted DEF Send
  <2>3. Len(messages') <= MaxMessages
    BY <2>1, <2>2, BoundsAssumption
  <2> QED
    BY <2>2, <2>3, <1>b
<1>2. ASSUME NEW m \in 1 .. Len(messages), CancelMessage(m) PROVE MessagesOK'
  BY <1>2, <1>b, Settled DEF CancelMessage, TypeOK, MessagesOK
<1>3. ASSUME Schedule PROVE MessagesOK'
  BY <1>3, <1>a DEF Schedule, Unlocked, OwnerFree, Resume, StartWorker, NoTurn
<1>4. ASSUME NEW kind \in {"stop", "interrupt"}, FinBegin(kind) PROVE MessagesOK'
  BY <1>4, <1>a DEF FinBegin, Stopping, disk, worker
<1>5. ASSUME FinCheck PROVE MessagesOK'
  BY <1>5, <1>a DEF FinCheck, disk, worker, NoFin
<1>6. ASSUME FinCancel PROVE MessagesOK'
  <2>1. PICK m \in fin.ids : \/ messages[m].status = "pending" /\ Settle(m, "cancelled")
                            \/ UNCHANGED messages
    BY <1>6 DEF FinCancel
  <2>2. m \in 1 .. Len(messages)
    BY DEF TypeOK, FinOK
  <2> QED
    BY <2>1, <2>2, <1>a, <1>b, Settled DEF TypeOK, MessagesOK
<1>7. ASSUME FinSignal PROVE MessagesOK'
  BY <1>7, <1>a DEF FinSignal, disk, worker
<1>8. ASSUME FinMark PROVE MessagesOK'
  BY <1>8, <1>a DEF FinMark, worker, NoFin
<1>9. ASSUME FinDone PROVE MessagesOK'
  BY <1>9, <1>a DEF FinDone, disk, worker, NoFin
<1>10. ASSUME ListPending PROVE MessagesOK'
  BY <1>10, <1>a DEF ListPending, disk
<1>11. ASSUME SaveContext PROVE MessagesOK'
  BY <1>11, <1>a DEF SaveContext, Unseen
<1>12. ASSUME AppendEvent PROVE MessagesOK'
  BY <1>12, <1>a DEF AppendEvent, NoEvent, Leave, NoContext, NoTurn
<1>13. ASSUME MarkDelivered PROVE MessagesOK'
  <2>1. PICK m \in batch : \/ messages[m].status = "pending" /\ Settle(m, "delivered")
                           \/ UNCHANGED messages
    BY <1>13 DEF MarkDelivered
  <2>2. m \in 1 .. Len(messages)
    BY DEF TypeOK, BatchOK
  <2> QED
    BY <2>1, <2>2, <1>a, <1>b, Settled DEF TypeOK, MessagesOK
<1>14. ASSUME Compact PROVE MessagesOK'
  BY <1>14, <1>a DEF Compact
<1>15. ASSUME Ask PROVE MessagesOK'
  BY <1>15, <1>a DEF Ask, disk
<1>16. ASSUME TurnError PROVE MessagesOK'
  BY <1>16, <1>a DEF TurnError, Leave, NoContext, NoTurn, disk
<1>17. ASSUME TurnText PROVE MessagesOK'
  BY <1>17, <1>a DEF TurnText, Push, Leave, NoContext, NoTurn
<1>18. ASSUME TurnEmpty PROVE MessagesOK'
  BY <1>18, <1>a DEF TurnEmpty, Push
<1>19. ASSUME ToolDone PROVE MessagesOK'
  BY <1>19, <1>a DEF ToolDone, Push, Leave, NoContext, NoTurn, MoreCalls
<1>20. ASSUME Stopped PROVE MessagesOK'
  BY <1>20, <1>a DEF Stopped, Leave, NoContext, NoTurn, disk
<1>21. ASSUME End PROVE MessagesOK'
  BY <1>21, <1>a DEF End, OwnerFree, Leave, NoContext, NoTurn
<1>22. ASSUME NEW n \in 1 .. MaxCalls, TurnTools(n) PROVE MessagesOK'
  BY <1>22, <1>a DEF TurnTools, Push, Leave, NoContext, NoTurn, disk
<1>23. ASSUME Crash PROVE MessagesOK'
  BY <1>23, <1>a DEF Crash, Leave, NoContext, NoTurn, NoFin, disk
<1>24. ASSUME Start PROVE MessagesOK'
  BY <1>24, <1>a DEF Start, worker
<1>25. CASE UNCHANGED vars
  BY <1>25, <1>a DEF vars, disk, worker
<1> QED
  BY <1>1, <1>2, <1>3, <1>4, <1>5, <1>6, <1>7, <1>8, <1>9,
     <1>10, <1>11, <1>12, <1>13, <1>14, <1>15, <1>16, <1>17, <1>18,
     <1>19, <1>20, <1>21, <1>22, <1>23, <1>24, <1>25
  DEF Next, Client, Final, Worker

LEMMA FilesType == TypeOK /\ [Next]_vars => FilesOK'
<1> SUFFICES ASSUME TypeOK, [Next]_vars PROVE FilesOK'
  OBVIOUS
<1> USE DEF TypeOK, FilesOK
<1>1. ASSUME NEW intent \in Intent, Send(intent) PROVE FilesOK'
  BY <1>1, LeaveType, ResumeType DEF Send, Unlocked, OwnerFree, Stopping, worker
<1>2. ASSUME NEW m \in 1 .. Len(messages), CancelMessage(m) PROVE FilesOK'
  BY <1>2, LeaveType, ResumeType DEF CancelMessage, Unlocked, OwnerFree, worker
<1>3. ASSUME Schedule PROVE FilesOK'
  BY <1>3, LeaveType, ResumeType DEF Schedule, Unlocked, OwnerFree
<1>4. ASSUME NEW kind \in {"stop", "interrupt"}, FinBegin(kind) PROVE FilesOK'
  BY <1>4, LeaveType, ResumeType DEF FinBegin, Stopping, disk, worker
<1>5. ASSUME FinCheck PROVE FilesOK'
  BY <1>5, LeaveType, ResumeType DEF FinCheck, disk, worker, NoFin
<1>6. ASSUME FinCancel PROVE FilesOK'
  BY <1>6, LeaveType, ResumeType DEF FinCancel, worker, NoFin
<1>7. ASSUME FinSignal PROVE FilesOK'
  BY <1>7, LeaveType, ResumeType DEF FinSignal, disk, worker
<1>8. ASSUME FinMark PROVE FilesOK'
  BY <1>8, LeaveType, ResumeType DEF FinMark, worker, NoFin
<1>9. ASSUME FinDone PROVE FilesOK'
  BY <1>9, LeaveType, ResumeType DEF FinDone, disk, worker, NoFin
<1>10. ASSUME ListPending PROVE FilesOK'
  BY <1>10, LeaveType, ResumeType DEF ListPending, disk
<1>11. ASSUME SaveContext PROVE FilesOK'
  <2>1. PICK m \in batch :
           \/ /\ mem' = [log |-> Append(mem.log, User(m)), ids |-> Append(mem.ids, m)]
              /\ context' = mem'
           \/ UNCHANGED <<mem, context>>
    BY <1>11 DEF SaveContext
  <2>2. m \in Message /\ m \in Nat
    BY MessagesLength DEF BatchOK, Message
  <2>3. User(m) \in LogEntry
    BY <2>2, EntryType DEF User, Role
  <2>4. mem.log \in Seq(LogEntry) /\ mem.ids \in Seq(Message)
    BY DEF Context, LogEntry
  <2>5. Append(mem.log, User(m)) \in Seq(LogEntry) /\ Append(mem.ids, m) \in Seq(Message)
    BY <2>2, <2>3, <2>4, AppendProperties
  <2>6. [log |-> Append(mem.log, User(m)), ids |-> Append(mem.ids, m)] \in Context
    BY <2>5 DEF Context, LogEntry
  <2> QED
    BY <1>11, <2>1, <2>6 DEF SaveContext
<1>12. ASSUME AppendEvent PROVE FilesOK'
  <2>1. PICK m \in batch : UNCHANGED events \/ events' = Append(events, m)
    BY <1>12 DEF AppendEvent
  <2>2. m \in Message
    BY MessagesLength DEF BatchOK, Message
  <2>3. events' \in Seq(Message)
    BY <2>1, <2>2, AppendProperties
  <2>4. mem' \in Context
    BY <1>12, LeaveType DEF AppendEvent
  <2> QED
    BY <1>12, <2>3, <2>4 DEF AppendEvent
<1>13. ASSUME MarkDelivered PROVE FilesOK'
  BY <1>13, LeaveType, ResumeType DEF MarkDelivered, Delivered
<1>14. ASSUME Compact PROVE FilesOK'
  <2>1. PICK cut \in 1 .. Len(mem.log) : mem' = [mem EXCEPT !.log = Compacted(mem.log, cut)]
    BY <1>14 DEF Compact
  <2>2. mem \in [log : Seq(LogEntry), ids : Seq(Message)]
    BY DEF Context, LogEntry
  <2>3. Compacted(mem.log, cut) \in Seq(LogEntry)
    BY <2>2, CompactedType
  <2>4. mem' \in Context
    BY <2>1, <2>2, <2>3, LogReplaced DEF Context, LogEntry
  <2> QED
    BY <1>14, <2>4 DEF Compact
<1>15. ASSUME Ask PROVE FilesOK'
  BY <1>15, LeaveType, ResumeType DEF Ask, disk
<1>16. ASSUME TurnError PROVE FilesOK'
  BY <1>16, LeaveType, ResumeType DEF TurnError, disk
<1>17. ASSUME TurnText PROVE FilesOK'
  <2>1. mem' \in Context
    BY <1>17, PushType, LeaveType DEF TurnText, Asst, Role
  <2> QED
    BY <1>17, <2>1 DEF TurnText
<1>18. ASSUME TurnEmpty PROVE FilesOK'
  <2>1. mem' \in Context
    BY <1>18, PushType DEF TurnEmpty, Retry, Role
  <2> QED
    BY <1>18, <2>1 DEF TurnEmpty
<1>19. ASSUME ToolDone PROVE FilesOK'
  <2>1. turn.at \in Nat
    BY DEF WorkerOK
  <2>2. mem' \in Context
    BY <1>19, <2>1, PushType, LeaveType DEF ToolDone, Tool, Role
  <2> QED
    BY <1>19, <2>2 DEF ToolDone
<1>20. ASSUME Stopped PROVE FilesOK'
  BY <1>20, LeaveType, ResumeType DEF Stopped, disk
<1>21. ASSUME End PROVE FilesOK'
  BY <1>21, LeaveType, ResumeType DEF End, OwnerFree
<1>22. ASSUME NEW n \in 1 .. MaxCalls, TurnTools(n) PROVE FilesOK'
  <2>1. n \in Nat
    OBVIOUS
  <2>2. mem' \in Context
    BY <1>22, <2>1, PushType, LeaveType DEF TurnTools, Asst, Role
  <2> QED
    BY <1>22, <2>2 DEF TurnTools, disk
<1>23. ASSUME Crash PROVE FilesOK'
  BY <1>23, LeaveType, ResumeType DEF Crash, NoFin, disk
<1>24. ASSUME Start PROVE FilesOK'
  BY <1>24, LeaveType, ResumeType DEF Start, worker
<1>25. CASE UNCHANGED vars
  BY <1>25, LeaveType, ResumeType DEF vars, disk, worker
<1> QED
  BY <1>1, <1>2, <1>3, <1>4, <1>5, <1>6, <1>7, <1>8, <1>9,
     <1>10, <1>11, <1>12, <1>13, <1>14, <1>15, <1>16, <1>17, <1>18,
     <1>19, <1>20, <1>21, <1>22, <1>23, <1>24, <1>25
  DEF Next, Client, Final, Worker

LEMMA WorkerType == TypeOK /\ [Next]_vars => WorkerOK'
<1> SUFFICES ASSUME TypeOK, [Next]_vars PROVE WorkerOK'
  OBVIOUS
<1> USE BoundsAssumption DEF TypeOK, WorkerOK
<1>1. ASSUME NEW intent \in Intent, Send(intent) PROVE WorkerOK'
  BY <1>1, LeaveType, ResumeType, NoTurnType DEF Send, Unlocked, OwnerFree, Stopping, worker, PC, Delivering, Turn
<1>2. ASSUME NEW m \in 1 .. Len(messages), CancelMessage(m) PROVE WorkerOK'
  BY <1>2, LeaveType, ResumeType, NoTurnType DEF CancelMessage, Unlocked, OwnerFree, worker, PC, Delivering, Turn
<1>3. ASSUME Schedule PROVE WorkerOK'
  BY <1>3, LeaveType, ResumeType, NoTurnType DEF Schedule, Unlocked, OwnerFree, PC, Delivering, Turn
<1>4. ASSUME NEW kind \in {"stop", "interrupt"}, FinBegin(kind) PROVE WorkerOK'
  BY <1>4, LeaveType, ResumeType, NoTurnType DEF FinBegin, Stopping, disk, worker, PC, Delivering, Turn
<1>5. ASSUME FinCheck PROVE WorkerOK'
  BY <1>5, LeaveType, ResumeType, NoTurnType DEF FinCheck, disk, worker, NoFin, PC, Delivering, Turn
<1>6. ASSUME FinCancel PROVE WorkerOK'
  BY <1>6, LeaveType, ResumeType, NoTurnType DEF FinCancel, worker, NoFin, PC, Delivering, Turn
<1>7. ASSUME FinSignal PROVE WorkerOK'
  BY <1>7, LeaveType, ResumeType, NoTurnType DEF FinSignal, disk, worker, PC, Delivering, Turn
<1>8. ASSUME FinMark PROVE WorkerOK'
  BY <1>8, LeaveType, ResumeType, NoTurnType DEF FinMark, worker, NoFin, PC, Delivering, Turn
<1>9. ASSUME FinDone PROVE WorkerOK'
  BY <1>9, LeaveType, ResumeType, NoTurnType DEF FinDone, disk, worker, NoFin, PC, Delivering, Turn
<1>10. ASSUME ListPending PROVE WorkerOK'
  BY <1>10, LeaveType, ResumeType, NoTurnType DEF ListPending, disk, PC, Delivering, Turn
<1>11. ASSUME SaveContext PROVE WorkerOK'
  BY <1>11, LeaveType, ResumeType, NoTurnType DEF SaveContext, Unseen, PC, Delivering, Turn
<1>12. ASSUME AppendEvent PROVE WorkerOK'
  BY <1>12, LeaveType, ResumeType, NoTurnType DEF AppendEvent, NoEvent, PC, Delivering, Turn
<1>13. ASSUME MarkDelivered PROVE WorkerOK'
  BY <1>13, LeaveType, ResumeType, NoTurnType DEF MarkDelivered, Delivered, PC, Delivering, Turn
<1>14. ASSUME Compact PROVE WorkerOK'
  BY <1>14, LeaveType, ResumeType, NoTurnType DEF Compact, PC, Delivering, Turn
<1>15. ASSUME Ask PROVE WorkerOK'
  BY <1>15, LeaveType, ResumeType, NoTurnType DEF Ask, disk, PC, Delivering, Turn
<1>16. ASSUME TurnError PROVE WorkerOK'
  BY <1>16, LeaveType, ResumeType, NoTurnType DEF TurnError, disk, PC, Delivering, Turn
<1>17. ASSUME TurnText PROVE WorkerOK'
  BY <1>17, LeaveType, ResumeType, NoTurnType DEF TurnText, Push, PC, Delivering, Turn
<1>18. ASSUME TurnEmpty PROVE WorkerOK'
  BY <1>18, LeaveType, ResumeType, NoTurnType DEF TurnEmpty, Push, PC, Delivering, Turn
<1>19. ASSUME ToolDone PROVE WorkerOK'
  <2>1. CASE working
    <3>1. \/ turn' = NoTurn /\ pc' = "head"
          \/ MoreCalls /\ turn' = [turn EXCEPT !.at = @ + 1] /\ UNCHANGED pc
      BY <1>19, <2>1 DEF ToolDone
    <3>2. [turn EXCEPT !.at = @ + 1] \in Turn \/ ~ MoreCalls
      BY DEF Turn, MoreCalls
    <3>3. turn' \in Turn
      BY <3>1, <3>2, NoTurnType
    <3> QED
      BY <1>19, <2>1, <3>1, <3>3 DEF ToolDone, Turn, PC
  <2>2. CASE ~ working
    BY <1>19, <2>2, LeaveType DEF ToolDone, Turn
  <2> QED
    BY <2>1, <2>2
<1>20. ASSUME Stopped PROVE WorkerOK'
  BY <1>20, LeaveType, ResumeType, NoTurnType DEF Stopped, disk, PC, Delivering, Turn
<1>21. ASSUME End PROVE WorkerOK'
  BY <1>21, LeaveType, ResumeType, NoTurnType DEF End, OwnerFree, PC, Delivering, Turn
<1>22. ASSUME NEW n \in 1 .. MaxCalls, TurnTools(n) PROVE WorkerOK'
  <2>1. [calls |-> n, at |-> 1] \in Turn
    BY DEF Turn
  <2>2. turn' \in Turn /\ pc' \in PC /\ final' \in BOOLEAN /\ retried' \in BOOLEAN
    BY <1>22, <2>1, LeaveType DEF TurnTools, PC
  <2> QED
    BY <1>22, <2>2 DEF TurnTools, Turn, disk
<1>23. ASSUME Crash PROVE WorkerOK'
  BY <1>23, LeaveType, ResumeType, NoTurnType DEF Crash, NoFin, disk, PC, Delivering, Turn
<1>24. ASSUME Start PROVE WorkerOK'
  BY <1>24, LeaveType, ResumeType, NoTurnType DEF Start, worker, PC, Delivering, Turn
<1>25. CASE UNCHANGED vars
  BY <1>25, LeaveType, ResumeType, NoTurnType DEF vars, disk, worker, PC, Delivering, Turn
<1> QED
  BY <1>1, <1>2, <1>3, <1>4, <1>5, <1>6, <1>7, <1>8, <1>9,
     <1>10, <1>11, <1>12, <1>13, <1>14, <1>15, <1>16, <1>17, <1>18,
     <1>19, <1>20, <1>21, <1>22, <1>23, <1>24, <1>25
  DEF Next, Client, Final, Worker

LEMMA BatchType == TypeOK /\ [Next]_vars => BatchOK'
<1> SUFFICES ASSUME TypeOK, [Next]_vars PROVE BatchOK'
  OBVIOUS
<1> USE DEF TypeOK, BatchOK
<1>1. ASSUME NEW intent \in Intent, Send(intent) PROVE BatchOK'
  <2>1. batch' = batch \/ batch' = {}
    BY <1>1 DEF Send, Resume, StartWorker, worker
  <2>2. Len(messages') = Len(messages) + 1 /\ Len(messages) \in Nat
    BY <1>1, Accepted, MessagesLength DEF Send
  <2>3. 1 .. Len(messages) \subseteq 1 .. Len(messages')
    BY <2>2
  <2> QED
    BY <2>1, <2>3
<1>2. ASSUME NEW m \in 1 .. Len(messages), CancelMessage(m) PROVE BatchOK'
  BY <1>2, Settled DEF CancelMessage, worker
<1>3. ASSUME Schedule PROVE BatchOK'
  BY <1>3 DEF Schedule, Unlocked, OwnerFree, Resume, StartWorker, Pending
<1>4. ASSUME NEW kind \in {"stop", "interrupt"}, FinBegin(kind) PROVE BatchOK'
  BY <1>4 DEF FinBegin, Stopping, disk, worker, Pending
<1>5. ASSUME FinCheck PROVE BatchOK'
  BY <1>5 DEF FinCheck, disk, worker, NoFin, Pending
<1>6. ASSUME FinCancel PROVE BatchOK'
  <2>1. PICK m \in fin.ids : \/ messages[m].status = "pending" /\ Settle(m, "cancelled")
                            \/ UNCHANGED messages
    BY <1>6 DEF FinCancel
  <2>2. m \in 1 .. Len(messages)
    BY DEF TypeOK, FinOK
  <2>3. Len(messages') = Len(messages)
    BY <2>1, <2>2, Settled
  <2> QED
    BY <1>6, <2>3 DEF FinCancel, worker
<1>7. ASSUME FinSignal PROVE BatchOK'
  BY <1>7 DEF FinSignal, disk, worker, Pending
<1>8. ASSUME FinMark PROVE BatchOK'
  BY <1>8 DEF FinMark, worker, NoFin, Pending
<1>9. ASSUME FinDone PROVE BatchOK'
  BY <1>9 DEF FinDone, disk, worker, NoFin, Pending
<1>10. ASSUME ListPending PROVE BatchOK'
  BY <1>10 DEF ListPending, disk, Pending
<1>11. ASSUME SaveContext PROVE BatchOK'
  BY <1>11 DEF SaveContext, Unseen, Pending
<1>12. ASSUME AppendEvent PROVE BatchOK'
  BY <1>12 DEF AppendEvent, NoEvent, Leave, Pending
<1>13. ASSUME MarkDelivered PROVE BatchOK'
  <2>1. PICK m \in batch : \/ messages[m].status = "pending" /\ Settle(m, "delivered")
                           \/ UNCHANGED messages
    BY <1>13 DEF MarkDelivered
  <2>2. m \in 1 .. Len(messages)
    BY DEF TypeOK, BatchOK
  <2>3. Len(messages') = Len(messages)
    BY <2>1, <2>2, Settled
  <2>4. batch' \subseteq batch
    BY <1>13 DEF MarkDelivered, Leave
  <2> QED
    BY <2>3, <2>4
<1>14. ASSUME Compact PROVE BatchOK'
  BY <1>14 DEF Compact, Pending
<1>15. ASSUME Ask PROVE BatchOK'
  BY <1>15 DEF Ask, disk, Pending
<1>16. ASSUME TurnError PROVE BatchOK'
  BY <1>16 DEF TurnError, Leave, disk, Pending
<1>17. ASSUME TurnText PROVE BatchOK'
  BY <1>17 DEF TurnText, Push, Leave, Pending
<1>18. ASSUME TurnEmpty PROVE BatchOK'
  BY <1>18 DEF TurnEmpty, Push, Pending
<1>19. ASSUME ToolDone PROVE BatchOK'
  BY <1>19 DEF ToolDone, Push, Leave, MoreCalls, Pending
<1>20. ASSUME Stopped PROVE BatchOK'
  BY <1>20 DEF Stopped, Leave, disk, Pending
<1>21. ASSUME End PROVE BatchOK'
  BY <1>21 DEF End, OwnerFree, Leave, Pending
<1>22. ASSUME NEW n \in 1 .. MaxCalls, TurnTools(n) PROVE BatchOK'
  BY <1>22 DEF TurnTools, Push, Leave, disk, Pending
<1>23. ASSUME Crash PROVE BatchOK'
  BY <1>23 DEF Crash, Leave, NoFin, disk, Pending
<1>24. ASSUME Start PROVE BatchOK'
  BY <1>24 DEF Start, worker, Pending
<1>25. CASE UNCHANGED vars
  BY <1>25 DEF vars, disk, worker, Pending
<1> QED
  BY <1>1, <1>2, <1>3, <1>4, <1>5, <1>6, <1>7, <1>8, <1>9,
     <1>10, <1>11, <1>12, <1>13, <1>14, <1>15, <1>16, <1>17, <1>18,
     <1>19, <1>20, <1>21, <1>22, <1>23, <1>24, <1>25
  DEF Next, Client, Final, Worker

LEMMA FinType == TypeOK /\ [Next]_vars => FinOK'
<1> SUFFICES ASSUME TypeOK, [Next]_vars PROVE FinOK'
  OBVIOUS
<1> USE DEF TypeOK, FinOK
<1>1. ASSUME NEW intent \in Intent, Send(intent) PROVE FinOK'
  <2>1. Len(messages') = Len(messages) + 1 /\ Len(messages) \in Nat
    BY <1>1, Accepted, MessagesLength DEF Send
  <2> QED
    BY <1>1, <2>1 DEF Send
<1>2. ASSUME NEW m \in 1 .. Len(messages), CancelMessage(m) PROVE FinOK'
  BY <1>2, Settled DEF CancelMessage
<1>3. ASSUME Schedule PROVE FinOK'
  BY <1>3 DEF Schedule, Unlocked, OwnerFree, Resume, StartWorker, Pending
<1>4. ASSUME NEW kind \in {"stop", "interrupt"}, FinBegin(kind) PROVE FinOK'
  BY <1>4 DEF FinBegin, Stopping, disk, worker, Pending
<1>5. ASSUME FinCheck PROVE FinOK'
  <2>1. Pending \subseteq Message /\ Pending \subseteq 1 .. Len(messages)
    BY MessagesLength DEF Pending
  <2>2. fin' \in {NoFin, [pc |-> "cancel", kind |-> "stop", ids |-> Pending], [fin EXCEPT !.pc = "term"]}
    BY <1>5 DEF FinCheck
  <2>3. CASE fin' = NoFin
    BY <1>5, <2>3 DEF FinCheck, NoFin, disk
  <2>4. CASE fin' = [pc |-> "cancel", kind |-> "stop", ids |-> Pending]
    BY <1>5, <2>1, <2>4 DEF FinCheck, disk
  <2>5. CASE fin' = [fin EXCEPT !.pc = "term"]
    BY <1>5, <2>5 DEF FinCheck, disk
  <2> QED
    BY <2>2, <2>3, <2>4, <2>5
<1>6. ASSUME FinCancel PROVE FinOK'
  <2>1. PICK m \in fin.ids : \/ messages[m].status = "pending" /\ Settle(m, "cancelled")
                            \/ UNCHANGED messages
    BY <1>6 DEF FinCancel
  <2>2. m \in 1 .. Len(messages)
    BY DEF TypeOK, FinOK
  <2>3. Len(messages') = Len(messages)
    BY <2>1, <2>2, Settled
  <2>4. CASE fin' = NoFin
    BY <2>3, <2>4 DEF NoFin
  <2>5. CASE \E k \in fin.ids : fin' = [fin EXCEPT !.ids = @ \ {k}]
    BY <2>3, <2>5
  <2> QED
    BY <1>6, <2>4, <2>5 DEF FinCancel
<1>7. ASSUME FinSignal PROVE FinOK'
  BY <1>7 DEF FinSignal, disk, worker, Pending
<1>8. ASSUME FinMark PROVE FinOK'
  BY <1>8 DEF FinMark, worker, NoFin, Pending
<1>9. ASSUME FinDone PROVE FinOK'
  BY <1>9 DEF FinDone, disk, worker, NoFin, Pending
<1>10. ASSUME ListPending PROVE FinOK'
  BY <1>10 DEF ListPending, disk, Pending
<1>11. ASSUME SaveContext PROVE FinOK'
  BY <1>11 DEF SaveContext, Unseen, Pending
<1>12. ASSUME AppendEvent PROVE FinOK'
  BY <1>12 DEF AppendEvent, NoEvent, Leave, Pending
<1>13. ASSUME MarkDelivered PROVE FinOK'
  <2>1. PICK m \in batch : \/ messages[m].status = "pending" /\ Settle(m, "delivered")
                           \/ UNCHANGED messages
    BY <1>13 DEF MarkDelivered
  <2>2. m \in 1 .. Len(messages)
    BY DEF TypeOK, BatchOK
  <2>3. Len(messages') = Len(messages)
    BY <2>1, <2>2, Settled
  <2> QED
    BY <1>13, <2>3 DEF MarkDelivered
<1>14. ASSUME Compact PROVE FinOK'
  BY <1>14 DEF Compact, Pending
<1>15. ASSUME Ask PROVE FinOK'
  BY <1>15 DEF Ask, disk, Pending
<1>16. ASSUME TurnError PROVE FinOK'
  BY <1>16 DEF TurnError, Leave, disk, Pending
<1>17. ASSUME TurnText PROVE FinOK'
  BY <1>17 DEF TurnText, Push, Leave, Pending
<1>18. ASSUME TurnEmpty PROVE FinOK'
  BY <1>18 DEF TurnEmpty, Push, Pending
<1>19. ASSUME ToolDone PROVE FinOK'
  BY <1>19 DEF ToolDone, Push, Leave, MoreCalls, Pending
<1>20. ASSUME Stopped PROVE FinOK'
  BY <1>20 DEF Stopped, Leave, disk, Pending
<1>21. ASSUME End PROVE FinOK'
  BY <1>21 DEF End, OwnerFree, Leave, Pending
<1>22. ASSUME NEW n \in 1 .. MaxCalls, TurnTools(n) PROVE FinOK'
  BY <1>22 DEF TurnTools, Push, Leave, disk, Pending
<1>23. ASSUME Crash PROVE FinOK'
  BY <1>23 DEF Crash, Leave, NoFin, disk, Pending
<1>24. ASSUME Start PROVE FinOK'
  BY <1>24 DEF Start, worker, Pending
<1>25. CASE UNCHANGED vars
  BY <1>25 DEF vars, disk, worker, Pending
<1> QED
  BY <1>1, <1>2, <1>3, <1>4, <1>5, <1>6, <1>7, <1>8, <1>9,
     <1>10, <1>11, <1>12, <1>13, <1>14, <1>15, <1>16, <1>17, <1>18,
     <1>19, <1>20, <1>21, <1>22, <1>23, <1>24, <1>25
  DEF Next, Client, Final, Worker

(* The records of the agent, the worker's memory and the finalizer have    *)
(* their types.                                                            *)
THEOREM TypeInvariant == Spec => []TypeOK
<1>1. TypeOK /\ [Next]_vars => TypeOK'
  BY MessagesType, FilesType, WorkerType, BatchType, FinType DEF TypeOK
<1> QED
  BY <1>1, InitType, PTL DEF Spec

-----------------------------------------------------------------------------
(* The inductive invariant: the records agree, and for that                *)
(*   Copied   what the worker holds is what it has saved,                  *)
(*   Saved    the message whose event is due is in the saved context,      *)
(*   Noted    the message to be marked has its event,                      *)
(*   Known    the context names accepted messages only.                    *)
(* For the order of delivery                                               *)
(*   BatchFirst  the worker has listed the oldest of the pending messages, *)
(*   Ordered     a message not yet shown is later than all those shown.    *)
(* For a stop                                                              *)
(*   Swept    nothing is pending but what the stop has listed.             *)
Shown == Elements(context.ids)
Noticed == Elements(events)

Copied == pc \notin {"none", "failing"} => mem.ids = context.ids
Saved == pc = "event" => \A m \in batch : Oldest(m, batch) => m \in Shown
Noted == pc = "mark" => \A m \in batch : Oldest(m, batch) => m \in Noticed
Known == Shown \subseteq 1 .. Len(messages)
BatchFirst == \A b \in batch, k \in Pending \ batch : b < k
Ordered == \A k \in Pending \cup batch : k \in Shown \/ \A j \in Shown : j < k
Swept ==
  /\ fin.pc = "cancel" => Pending \subseteq fin.ids
  /\ fin.kind = "stop" /\ fin.pc = "term" => Pending = {}

Inv == /\ TypeOK /\ RecordsAgree /\ Copied /\ Saved /\ Noted
       /\ Known /\ BatchFirst /\ Ordered /\ Swept

(* Which step writes which record.                                         *)

Accepts == 
  /\ Unlocked /\ Len(messages) < MaxMessages
  /\ UNCHANGED fin
  /\ \E intent \in Intent :
       messages' = Append(messages, [intent |-> intent, status |-> "pending"])

Cancels(m) == messages[m].status = "pending" /\ Settle(m, "cancelled")

Delivers(m) ==
  /\ pc = "mark" /\ m \in batch /\ Oldest(m, batch)
  /\ messages[m].status = "pending" /\ Settle(m, "delivered")
  /\ batch' = batch \ {m}

LEMMA WhoWritesMessages ==
  ASSUME TypeOK, [Next]_vars
  PROVE  \/ UNCHANGED messages
         \/ Accepts
         \/ \E m \in 1 .. Len(messages) : Cancels(m) /\ (batch' = batch \/ batch' = {})
         \/ \E m \in 1 .. Len(messages) : Delivers(m)
BY DEF vars, disk, worker, Next, Client, Final, Worker, TypeOK, BatchOK, FinOK, Accepts, Cancels, Delivers,
       Send, CancelMessage, Schedule, FinBegin, FinCheck, FinCancel,
       FinSignal, FinMark, FinDone, ListPending, SaveContext,
       AppendEvent, MarkDelivered, Compact, Ask, TurnError, TurnText,
       TurnEmpty, ToolDone, Stopped, End, TurnTools, Crash, Start

LEMMA WhoWritesEvents ==
  ASSUME TypeOK, [Next]_vars
  PROVE  \/ UNCHANGED events
         \/ \E m \in batch : /\ pc = "event" /\ pc' = "mark" /\ Oldest(m, batch) /\ m \notin Noticed
                             /\ events' = Append(events, m)
                             /\ UNCHANGED <<batch, context, messages>>
BY DEF vars, disk, worker, Next, Client, Final, Worker, NoEvent, Noticed, Send, CancelMessage, Schedule, FinBegin, FinCheck, FinCancel,
       FinSignal, FinMark, FinDone, ListPending, SaveContext,
       AppendEvent, MarkDelivered, Compact, Ask, TurnError, TurnText,
       TurnEmpty, ToolDone, Stopped, End, TurnTools, Crash, Start

LEMMA WhoWritesBatch ==
  ASSUME [Next]_vars
  PROVE  \/ batch' \in {batch, {}}
         \/ batch' = Pending /\ UNCHANGED messages
         \/ \E m \in batch : Delivers(m)
BY DEF vars, disk, worker, Next, Client, Final, Worker, Leave, Resume, StartWorker, Delivers, Send, CancelMessage, Schedule, FinBegin, FinCheck, FinCancel,
       FinSignal, FinMark, FinDone, ListPending, SaveContext,
       AppendEvent, MarkDelivered, Compact, Ask, TurnError, TurnText,
       TurnEmpty, ToolDone, Stopped, End, TurnTools, Crash, Start

LEMMA IdsSame ==
  ASSUME NEW c \in Context
  PROVE  /\ \A l : [c EXCEPT !.log = l].ids = c.ids
         /\ \A entry : Push(c, entry).ids = c.ids
BY DEF Context, Push

LEMMA WhoWritesContext ==
  ASSUME TypeOK, Copied, [Next]_vars
  PROVE  \/ context'.ids = context.ids
         \/ \E m \in batch : /\ pc = "save" /\ pc' = "event" /\ Oldest(m, batch) /\ m \notin Shown
                             /\ context'.ids = Append(context.ids, m)
                             /\ UNCHANGED <<batch, messages, events>>
<1>1. mem \in Context
  BY DEF TypeOK, FilesOK
<1>2. CASE SaveContext
  BY <1>2 DEF SaveContext, Copied, Unseen, Shown
<1>3. CASE Compact
  BY <1>1, <1>3, IdsSame DEF Compact, Copied
<1>4. CASE TurnText \/ TurnEmpty \/ ToolDone
  BY <1>1, <1>4, IdsSame DEF TurnText, TurnEmpty, ToolDone, Copied
<1>5. CASE ~ (SaveContext \/ Compact \/ TurnText \/ TurnEmpty \/ ToolDone)
  BY <1>5 DEF vars, disk, worker, Next, Client, Final, Worker, Send, CancelMessage, Schedule, FinBegin, FinCheck, FinCancel,
       FinSignal, FinMark, FinDone, ListPending, SaveContext,
       AppendEvent, MarkDelivered, Compact, Ask, TurnError, TurnText,
       TurnEmpty, ToolDone, Stopped, End, TurnTools, Crash, Start
<1> QED
  BY <1>2, <1>3, <1>4, <1>5

LEMMA CopiedKept ==
  ASSUME TypeOK, Copied, [Next]_vars
  PROVE  Copied'
<1>1. mem \in Context
  BY DEF TypeOK, FilesOK
<1>2. CASE SaveContext
  BY <1>2 DEF SaveContext, Copied
<1>3. CASE Compact
  BY <1>1, <1>3, IdsSame DEF Compact, Copied
<1>4. CASE TurnText \/ TurnEmpty \/ ToolDone
  BY <1>1, <1>4, IdsSame DEF TurnText, TurnEmpty, ToolDone, Copied, Leave
<1>5. ASSUME NEW n \in 1 .. MaxCalls, TurnTools(n) PROVE Copied'
  BY <1>1, <1>5, IdsSame DEF TurnTools, Copied, Leave, disk
<1>6. CASE AppendEvent \/ MarkDelivered
  BY <1>6 DEF AppendEvent, MarkDelivered, Copied, Leave
<1>7. CASE ~ (SaveContext \/ Compact \/ TurnText \/ TurnEmpty \/ ToolDone \/ AppendEvent
              \/ MarkDelivered \/ \E n \in 1 .. MaxCalls : TurnTools(n))
  BY <1>7 DEF vars, disk, worker, Next, Client, Final, Worker, Copied, Leave, Resume, StartWorker, Send, CancelMessage, Schedule, FinBegin, FinCheck, FinCancel,
       FinSignal, FinMark, FinDone, ListPending, SaveContext,
       AppendEvent, MarkDelivered, Compact, Ask, TurnError, TurnText,
       TurnEmpty, ToolDone, Stopped, End, TurnTools, Crash, Start
<1> QED
  BY <1>2, <1>3, <1>4, <1>5, <1>6, <1>7

(* The place of the worker between two writes.                             *)
LEMMA WhoDelivers ==
  ASSUME [Next]_vars
  PROVE  /\ pc' = "event" => SaveContext \/ (pc = "event" /\ UNCHANGED <<batch, context>>)
         /\ pc' = "mark" => AppendEvent \/ (pc = "mark" /\ UNCHANGED <<batch, events>>)
BY DEF vars, disk, worker, Next, Client, Final, Worker, Delivered, Delivering, Unlocked, Leave, Resume, StartWorker, Send, CancelMessage, Schedule, FinBegin, FinCheck, FinCancel,
       FinSignal, FinMark, FinDone, ListPending, SaveContext,
       AppendEvent, MarkDelivered, Compact, Ask, TurnError, TurnText,
       TurnEmpty, ToolDone, Stopped, End, TurnTools, Crash, Start

LEMMA WhoMovesFin ==
  ASSUME TypeOK, [Next]_vars
  PROVE  /\ fin'.pc = "cancel" =>
              \/ fin'.ids = Pending /\ UNCHANGED messages
              \/ UNCHANGED fin
              \/ \E m \in fin.ids : /\ fin.pc = "cancel" /\ Cancels(m)
                                    /\ fin'.ids = fin.ids \ {m}
         /\ fin'.kind = "stop" /\ fin'.pc = "term" =>
              \/ fin.pc = "cancel" /\ fin.ids = {} /\ UNCHANGED messages
              \/ UNCHANGED fin
<1> USE DEF TypeOK, FinOK
<1>1. CASE FinCheck
  BY <1>1 DEF FinCheck, NoFin, disk
<1>2. CASE FinCancel
  BY <1>2 DEF FinCancel, NoFin, Cancels
<1>3. CASE FinSignal
  BY <1>3 DEF FinSignal, disk
<1>4. CASE FinMark
  BY <1>4 DEF FinMark, NoFin
<1>5. CASE FinDone \/ Crash
  BY <1>5 DEF FinDone, Crash, NoFin
<1>6. ASSUME NEW kind \in {"stop", "interrupt"}, FinBegin(kind)
      PROVE  fin'.pc \notin {"cancel", "term"}
  BY <1>6 DEF FinBegin
<1>7. CASE ~ (FinCheck \/ FinCancel \/ FinSignal \/ FinMark \/ FinDone \/ Crash
              \/ \E kind \in {"stop", "interrupt"} : FinBegin(kind))
  <2>1. UNCHANGED fin
    BY <1>7 DEF vars, disk, worker, Next, Client, Final, Worker, Send, CancelMessage, Schedule, FinBegin, FinCheck, FinCancel,
       FinSignal, FinMark, FinDone, ListPending, SaveContext,
       AppendEvent, MarkDelivered, Compact, Ask, TurnError, TurnText,
       TurnEmpty, ToolDone, Stopped, End, TurnTools, Crash, Start
  <2> QED
    BY <2>1
<1> QED
  BY <1>1, <1>2, <1>3, <1>4, <1>5, <1>6, <1>7

-----------------------------------------------------------------------------
(* Every step keeps the inductive invariant.                               *)

LEMMA InitInv == Init => Inv
<1> SUFFICES ASSUME Init PROVE Inv
  OBVIOUS
<1>1. Shown = {} /\ Noticed = {} /\ Pending = {}
  BY DEF Init, Shown, Noticed, Pending, Elements
<1>2. RecordsAgree
  BY <1>1 DEF Init, RecordsAgree, Shown, Noticed
<1> QED
  BY <1>1, <1>2, InitType
  DEF Init, Inv, Copied, Saved, Noted, Known, BatchFirst, Ordered, Swept, NoFin

(* How the sets of pending, shown and noticed messages move.               *)
LEMMA PendingSteps ==
  ASSUME TypeOK, [Next]_vars
  PROVE  /\ Len(messages) \in Nat /\ Len(messages') \in Nat
         /\ Len(messages) <= Len(messages')
         /\ \/ UNCHANGED messages /\ Pending' = Pending
            \/ /\ Accepts
               /\ Len(messages') = Len(messages) + 1
               /\ Pending' = Pending \cup {Len(messages) + 1}
            \/ \E m \in 1 .. Len(messages) :
                 /\ Pending' = Pending \ {m} /\ Len(messages') = Len(messages)
                 /\ \/ Cancels(m) /\ batch' \in {batch, {}}
                    \/ Delivers(m)
<1>1. Len(messages) \in Nat
  BY MessagesLength DEF TypeOK
<1>2. CASE UNCHANGED messages
  BY <1>1, <1>2 DEF Pending
<1>3. CASE Accepts
  BY <1>1, <1>3, Accepted DEF Accepts
<1>4. ASSUME NEW m \in 1 .. Len(messages), Cancels(m), batch' \in {batch, {}}
      PROVE  Pending' = Pending \ {m} /\ Len(messages') = Len(messages)
  BY <1>4, Settled DEF Cancels
<1>5. ASSUME NEW m \in 1 .. Len(messages), Delivers(m)
      PROVE  Pending' = Pending \ {m} /\ Len(messages') = Len(messages)
  BY <1>5, Settled DEF Delivers
<1> QED
  BY <1>1, <1>2, <1>3, <1>4, <1>5, WhoWritesMessages

LEMMA ShownSteps ==
  ASSUME TypeOK, Copied, [Next]_vars
  PROVE  \/ Shown' = Shown
         \/ \E m \in batch : /\ pc = "save" /\ pc' = "event" /\ Oldest(m, batch) /\ m \notin Shown
                             /\ Shown' = Shown \cup {m}
                             /\ UNCHANGED <<batch, messages, events>>
<1>1. context.ids \in Seq(Message) /\ batch \subseteq Message
  BY MessagesLength DEF TypeOK, FilesOK, Context, BatchOK
<1> QED
  BY <1>1, WhoWritesContext, OneMore DEF Shown

LEMMA NoticedSteps ==
  ASSUME TypeOK, [Next]_vars
  PROVE  \/ UNCHANGED events /\ Noticed' = Noticed
         \/ \E m \in batch : /\ pc = "event" /\ pc' = "mark" /\ Oldest(m, batch) /\ m \notin Noticed
                             /\ events' = Append(events, m)
                             /\ Noticed' = Noticed \cup {m}
                             /\ UNCHANGED <<batch, context, messages>>
<1>1. events \in Seq(Message) /\ batch \subseteq Message
  BY MessagesLength DEF TypeOK, FilesOK, BatchOK
<1> QED
  BY <1>1, WhoWritesEvents, OneMore DEF Noticed

LEMMA OldestUnique ==
  ASSUME TypeOK, NEW m \in batch, NEW k \in batch, Oldest(m, batch), Oldest(k, batch)
  PROVE  m = k
<1>1. m \in Nat /\ k \in Nat
  BY DEF TypeOK, BatchOK
<1> QED
  BY <1>1 DEF Oldest

LEMMA AgreeKept == Inv /\ [Next]_vars => RecordsAgree'
<1> SUFFICES ASSUME Inv, [Next]_vars PROVE RecordsAgree'
  OBVIOUS
<1> USE DEF Inv
<1>1. \A m \in 1 .. Len(messages') : messages'[m].status = "delivered" => m \in Noticed'
  <2>1. Noticed \subseteq Noticed'
    BY NoticedSteps
  <2>2. CASE UNCHANGED messages
    BY <2>1, <2>2 DEF RecordsAgree, Noticed
  <2>3. CASE Accepts
    <3>1. Len(messages) \in Nat /\ Len(messages') = Len(messages) + 1
      BY <2>3, Accepted, MessagesLength DEF Accepts, TypeOK
    <3>2. /\ \A k \in 1 .. Len(messages) : messages'[k] = messages[k]
          /\ messages'[Len(messages) + 1].status = "pending"
      BY <2>3, Accepted DEF Accepts
    <3> QED
      BY <2>1, <3>1, <3>2 DEF RecordsAgree, Noticed
  <2>4. ASSUME NEW m \in 1 .. Len(messages), Cancels(m)
        PROVE  \A k \in 1 .. Len(messages') : messages'[k].status = "delivered" => k \in Noticed'
    BY <2>1, <2>4, Settled DEF Cancels, RecordsAgree, Noticed
  <2>5. ASSUME NEW m \in 1 .. Len(messages), Delivers(m)
        PROVE  \A k \in 1 .. Len(messages') : messages'[k].status = "delivered" => k \in Noticed'
    <3>1. m \in Noticed
      BY <2>5 DEF Delivers, Noted
    <3> QED
      BY <2>1, <2>5, <3>1, Settled DEF Delivers, RecordsAgree, Noticed
  <2> QED
    BY <2>2, <2>3, <2>4, <2>5, WhoWritesMessages
<1>2. Noticed' \subseteq Shown'
  <2>1. Shown \subseteq Shown'
    BY ShownSteps
  <2>2. ASSUME NEW m \in batch, pc = "event", Oldest(m, batch) PROVE m \in Shown
    BY <2>2 DEF Saved
  <2> QED
    BY <2>1, <2>2, NoticedSteps DEF RecordsAgree, Noticed, Shown
<1>3. \A i, j \in 1 .. Len(events') : events'[i] = events'[j] => i = j
  <2>1. CASE UNCHANGED events
    BY <2>1 DEF RecordsAgree
  <2>2. ASSUME NEW m \in batch, m \notin Noticed, events' = Append(events, m)
        PROVE  \A i, j \in 1 .. Len(events') : events'[i] = events'[j] => i = j
    <3>1. events \in Seq(Message) /\ m \in Message
      BY MessagesLength DEF TypeOK, FilesOK, BatchOK
    <3>2. /\ Len(events') = Len(events) + 1 /\ Len(events) \in Nat
          /\ \A i \in 1 .. Len(events) : events'[i] = events[i]
          /\ events'[Len(events) + 1] = m
      BY <2>2, <3>1, AppendProperties
    <3>3. \A i \in 1 .. Len(events) : events[i] # m
      BY <2>2, <3>1 DEF Noticed, Elements
    <3> QED
      BY <3>2, <3>3 DEF RecordsAgree
  <2> QED
    BY <2>1, <2>2, NoticedSteps
<1> QED
  BY <1>1, <1>2, <1>3 DEF RecordsAgree, Noticed, Shown

LEMMA SavedKept == Inv /\ [Next]_vars => Saved'
<1> SUFFICES ASSUME Inv, [Next]_vars, pc' = "event", NEW m \in batch', Oldest(m, batch')
             PROVE  m \in Shown'
  BY DEF Saved
<1> USE DEF Inv
<1>1. CASE SaveContext
  <2>1. UNCHANGED batch /\ pc = "save"
    BY <1>1 DEF SaveContext
  <2>2. PICK k \in batch :
          /\ Oldest(k, batch)
          /\ \/ context'.ids = Append(mem.ids, k)
             \/ k \in Elements(mem.ids) /\ UNCHANGED context
    BY <1>1 DEF SaveContext, Unseen
  <2>3. k = m
    BY <2>1, <2>2, OldestUnique
  <2>4. mem.ids = context.ids
    BY <2>1 DEF Copied
  <2>5. context.ids \in Seq(Message) /\ k \in Message
    BY MessagesLength DEF TypeOK, FilesOK, Context, BatchOK
  <2>6. CASE UNCHANGED context /\ k \in Elements(mem.ids)
    BY <2>3, <2>4, <2>6 DEF Shown
  <2>7. CASE context'.ids = Append(mem.ids, k)
    <3>1. Elements(Append(context.ids, k)) = Elements(context.ids) \cup {k}
      BY <2>5, OneMore
    <3>2. context'.ids = Append(context.ids, k)
      BY <2>4, <2>7
    <3> QED
      BY <2>3, <3>1, <3>2 DEF Shown
  <2> QED
    BY <2>2, <2>6, <2>7
<1>2. CASE pc = "event" /\ UNCHANGED <<batch, context>>
  BY <1>2 DEF Saved, Shown
<1> QED
  BY <1>1, <1>2, WhoDelivers

LEMMA NotedKept == Inv /\ [Next]_vars => Noted'
<1> SUFFICES ASSUME Inv, [Next]_vars, pc' = "mark", NEW m \in batch', Oldest(m, batch')
             PROVE  m \in Noticed'
  BY DEF Noted
<1> USE DEF Inv
<1>1. CASE AppendEvent
  <2>1. PICK k \in batch :
          /\ Oldest(k, batch)
          /\ \/ events' = Append(events, k)
             \/ k \in Elements(events) /\ UNCHANGED events
    BY <1>1 DEF AppendEvent, NoEvent, Leave
  <2>2. UNCHANGED batch
    BY <1>1 DEF AppendEvent, Leave
  <2>3. k = m
    BY <2>1, <2>2, OldestUnique
  <2>4. events \in Seq(Message) /\ k \in Message
    BY MessagesLength DEF TypeOK, FilesOK, BatchOK
  <2> QED
    BY <2>1, <2>3, <2>4, OneMore DEF Noticed
<1>2. CASE pc = "mark" /\ UNCHANGED <<batch, events>>
  BY <1>2 DEF Noted, Noticed
<1> QED
  BY <1>1, <1>2, WhoDelivers

LEMMA KnownKept == Inv /\ [Next]_vars => Known'
<1> SUFFICES ASSUME Inv, [Next]_vars PROVE Shown' \subseteq 1 .. Len(messages')
  BY DEF Known
<1>1. 1 .. Len(messages) \subseteq 1 .. Len(messages')
  BY PendingSteps DEF Inv
<1> QED
  BY <1>1, ShownSteps DEF Inv, Known, TypeOK, BatchOK

LEMMA BatchFirstKept == Inv /\ [Next]_vars => BatchFirst'
<1> SUFFICES ASSUME Inv, [Next]_vars, NEW b \in batch', NEW k \in Pending', k \notin batch'
             PROVE  b < k
  BY DEF BatchFirst
<1> USE DEF Inv
<1>1. batch \subseteq 1 .. Len(messages) /\ Len(messages) \in Nat
  BY MessagesLength DEF TypeOK, BatchOK
<1>2. CASE batch' = Pending /\ UNCHANGED messages
  BY <1>2 DEF Pending
<1>3. ASSUME NEW m \in batch, Delivers(m) PROVE b < k
  <2>1. Pending' = Pending \ {m} /\ batch' = batch \ {m}
    BY <1>1, <1>3, Settled DEF Delivers
  <2> QED
    BY <2>1 DEF BatchFirst
<1>4. CASE batch' \in {batch, {}}
  <2>1. Pending' \subseteq Pending \cup {Len(messages) + 1}
    BY PendingSteps
  <2> QED
    BY <1>1, <1>4, <2>1 DEF BatchFirst
<1> QED
  BY <1>2, <1>3, <1>4, WhoWritesBatch

LEMMA OrderedKept == Inv /\ [Next]_vars => Ordered'
<1> SUFFICES ASSUME Inv, [Next]_vars, NEW k \in Pending' \cup batch', k \notin Shown', NEW j \in Shown'
             PROVE  j < k
  BY DEF Ordered
<1> USE DEF Inv
<1>1. /\ batch \subseteq 1 .. Len(messages) /\ Len(messages) \in Nat
      /\ Shown \subseteq 1 .. Len(messages)
      /\ Pending \subseteq 1 .. Len(messages)
  BY MessagesLength DEF TypeOK, BatchOK, Known, Pending
<1>2. batch' \subseteq Pending \cup batch
  BY WhoWritesBatch DEF Delivers
<1>3. CASE Shown' = Shown
  <2>1. Pending' \subseteq Pending \cup {Len(messages) + 1}
    BY PendingSteps
  <2> QED
    BY <1>1, <1>2, <1>3, <2>1 DEF Ordered
<1>4. ASSUME NEW m \in batch, Oldest(m, batch), m \notin Shown, Shown' = Shown \cup {m},
             UNCHANGED <<batch, messages>>
      PROVE  j < k
  <2>1. k \in Pending \cup batch
    BY <1>4 DEF Pending
  <2>2. k # m /\ k \notin Shown
    BY <1>4
  <2>3. CASE j \in Shown
    BY <2>1, <2>2, <2>3 DEF Ordered
  <2>4. CASE j = m /\ k \in batch
    BY <1>1, <1>4, <2>2, <2>4 DEF Oldest
  <2>5. CASE j = m /\ k \notin batch
    BY <1>4, <2>1, <2>5 DEF BatchFirst
  <2> QED
    BY <1>4, <2>3, <2>4, <2>5
<1> QED
  BY <1>3, <1>4, ShownSteps

LEMMA SweptKept == Inv /\ [Next]_vars => Swept'
<1> SUFFICES ASSUME Inv, [Next]_vars PROVE Swept'
  OBVIOUS
<1> USE DEF Inv
<1>1. ASSUME ~ OwnerFree \/ fin' # fin PROVE Pending' \subseteq Pending
  BY <1>1, PendingSteps DEF Accepts, Unlocked
<1>2. ASSUME fin'.pc = "cancel" PROVE Pending' \subseteq fin'.ids
  <2>1. CASE fin'.ids = Pending /\ UNCHANGED messages
    BY <2>1 DEF Pending
  <2>2. CASE UNCHANGED fin
    BY <1>1, <1>2, <2>2 DEF OwnerFree, Swept
  <2>3. ASSUME NEW m \in fin.ids, fin.pc = "cancel", Cancels(m), fin'.ids = fin.ids \ {m}
        PROVE  Pending' \subseteq fin'.ids
    <3>1. m \in 1 .. Len(messages)
      BY DEF TypeOK, FinOK
    <3>2. Pending' = Pending \ {m}
      BY <2>3, <3>1, Settled DEF Cancels
    <3> QED
      BY <2>3, <3>2 DEF Swept
  <2> QED
    BY <1>2, <2>1, <2>2, <2>3, WhoMovesFin
<1>3. ASSUME fin'.kind = "stop", fin'.pc = "term" PROVE Pending' = {}
  <2>1. CASE fin.pc = "cancel" /\ fin.ids = {} /\ UNCHANGED messages
    BY <2>1 DEF Swept, Pending
  <2>2. CASE UNCHANGED fin
    BY <1>1, <1>3, <2>2 DEF OwnerFree, Swept
  <2> QED
    BY <1>3, <2>1, <2>2, WhoMovesFin
<1> QED
  BY <1>2, <1>3 DEF Swept

LEMMA NextInv == Inv /\ [Next]_vars => Inv'
<1> SUFFICES ASSUME Inv, [Next]_vars PROVE Inv'
  OBVIOUS
<1>1. TypeOK'
  BY MessagesType, FilesType, WorkerType, BatchType, FinType DEF TypeOK, Inv
<1>2. Copied'
  BY CopiedKept DEF Inv
<1> QED
  BY <1>1, <1>2, AgreeKept, SavedKept, NotedKept, KnownKept, BatchFirstKept, OrderedKept, SweptKept
  DEF Inv

(* What the worker has in memory, what it has listed and what is on disk fit*)
(* together at every place the worker can be at.                           *)
THEOREM Invariance == Spec => []Inv
BY InitInv, NextInv, PTL DEF Spec

(* Whatever crash, stop or failure comes between two writes of a delivery, *)
(* the messages, the journal and the context do not contradict each other. *)
THEOREM RecordsAlwaysAgree == Spec => []RecordsAgree
<1>1. Inv => RecordsAgree
  BY DEF Inv
<1> QED
  BY <1>1, Invariance, PTL

(* A stop that is recorded has left no message pending.                    *)
THEOREM StopSweeps == Spec => StopLeavesNothing
<1>1. ASSUME Inv, [Next]_vars
      PROVE  [fin.kind = "stop" /\ fin.pc = "term" /\ fin'.pc = "wait" => Pending = {}]_vars
  BY <1>1 DEF Inv, Swept
<1> QED
  BY <1>1, Invariance, PTL DEF Spec, StopLeavesNothing

-----------------------------------------------------------------------------
(* The records implement MessageBox.                                       *)

LEMMA InitMaps == Init => Box!Init
BY DEF Init, Box!Init

LEMMA StepMaps == Inv /\ [Next]_vars => [Box!Next]_<<Bar, context.ids>>
<1> SUFFICES ASSUME Inv, [Next]_vars PROVE Box!Next \/ UNCHANGED <<Bar, context.ids>>
  BY DEF Bar
<1> USE DEF Inv
<1>1. Len(messages) \in Nat /\ 1 .. Len(messages) \subseteq Message
  BY MessagesLength DEF TypeOK
<1>2. Len(Bar) = Len(messages) /\ \A m \in 1 .. Len(messages) : Bar[m] = messages[m].status
  BY <1>1 DEF Bar
<1>3. ASSUME NEW m \in batch, pc = "save", Oldest(m, batch), m \notin Shown,
             context'.ids = Append(context.ids, m), UNCHANGED messages
      PROVE  Box!Next
  <2>1. m \in 1 .. Len(messages)
    BY DEF TypeOK, BatchOK
  <2>2. Bar[m] # "delivered"
    BY <1>2, <1>3, <2>1 DEF RecordsAgree, Shown, Noticed
  <2>3. \A i \in 1 .. Len(context.ids) : context.ids[i] < m
    <3>1. \A j \in Shown : j < m
      BY <1>3 DEF Ordered
    <3>2. context.ids \in Seq(Message)
      BY DEF TypeOK, FilesOK, Context
    <3> QED
      BY <3>1, <3>2 DEF Shown, Elements
  <2>4. UNCHANGED Bar
    BY <1>3 DEF Bar
  <2>5. Box!Show(m)
    BY <1>3, <2>2, <2>3, <2>4 DEF Box!Show, Bar
  <2> QED
    BY <1>2, <2>1, <2>5 DEF Box!Next, Bar
<1>4. CASE context'.ids = context.ids
  <2>1. CASE UNCHANGED messages
    BY <1>4, <2>1 DEF Bar
  <2>2. CASE Accepts
    <3>1. Bar' = Append(Bar, "pending")
      BY <2>2, Accepted DEF Accepts
    <3>2. Box!Accept
      BY <1>2, <1>4, <2>2, <3>1 DEF Box!Accept, Bar, Accepts
    <3> QED
      BY <3>2 DEF Box!Next
  <2>3. ASSUME NEW m \in 1 .. Len(messages), Cancels(m) PROVE Box!Next
    <3>1. Bar' = [Bar EXCEPT ![m] = "cancelled"]
      BY <2>3, Settled DEF Cancels
    <3>2. Box!Cancel(m)
      BY <1>2, <1>4, <2>3, <3>1 DEF Box!Cancel, Bar, Cancels
    <3> QED
      BY <1>2, <3>2 DEF Box!Next, Bar
  <2>4. ASSUME NEW m \in 1 .. Len(messages), Delivers(m) PROVE Box!Next
    <3>1. Bar' = [Bar EXCEPT ![m] = "delivered"]
      BY <2>4, Settled DEF Delivers
    <3>2. m \in Shown
      BY <2>4 DEF Delivers, Noted, RecordsAgree, Noticed, Shown
    <3>3. \E i \in 1 .. Len(context.ids) : context.ids[i] = m
      <4>1. context.ids \in Seq(Message)
        BY DEF TypeOK, FilesOK, Context
      <4> QED
        BY <3>2, <4>1 DEF Shown, Elements
    <3>4. Box!Deliver(m)
      BY <1>2, <1>4, <2>4, <3>1, <3>3 DEF Box!Deliver, Bar, Delivers
    <3> QED
      BY <1>2, <3>4 DEF Box!Next, Bar
  <2> QED
    BY <2>1, <2>2, <2>3, <2>4, WhoWritesMessages
<1> QED
  BY <1>3, <1>4, WhoWritesContext

(* Every message is shown at most once, in order, and settled once.        *)
THEOREM Implements == Spec => KeepsOrder
<1>1. Inv /\ [Next]_vars
        => [Box!Next]_<<[m \in 1 .. Len(messages) |-> messages[m].status], context.ids>>
  BY StepMaps DEF Bar
<1> QED
  BY <1>1, InitMaps, Invariance, PTL DEF Spec, KeepsOrder, Box!Spec
=============================================================================
