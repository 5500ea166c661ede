-------------------------- MODULE ToolCalls_proofs --------------------------
(***************************************************************************)
(* Proofs about the context that MessageDelivery sends to the model, for   *)
(* any number of messages, runs and calls and any length of the context:   *)
(* no tool result is ever separated from its call, by a delivery, by a     *)
(* stop, by a crash or by a compaction.                                    *)
(***************************************************************************)
EXTENDS MessageDelivery_proofs

(* Every call has its result behind it.                                    *)
Complete(log) == \A i \in 1 .. Len(log) : Answered(log, i)

CompleteBut(log, turnAt) == \A i \in 1 .. Len(log) : i = turnAt \/ Answered(log, i)

WellFormed(log) ==
  /\ Len(log) >= 1
  /\ log[1] = System
  /\ \A i \in 1 .. Len(log) : Answers(log, i)

(* The context ends with a turn of c calls, at position p, and the results *)
(* of the first k.                                                         *)
EndsWithTurn(log, p, c, k) ==
  /\ p \in 1 .. Len(log) /\ k \in 0 .. c
  /\ Len(log) = p + k
  /\ log[p] = Asst(c)
  /\ \A j \in 1 .. k : log[p + j] = Tool(j)

(* The context lacks results of the turn it ends with, or of none.         *)
CutLast(log) ==
  \/ Complete(log)
  \/ \E p, c, k : EndsWithTurn(log, p, c, k) /\ k < c /\ CompleteBut(log, p)

(* Where the turn of the call being executed begins.                       *)
TurnAt == Len(mem.log) + 1 - turn.at

SavedFormed == WellFormed(context.log)

MemoryFormed == pc \notin {"none", "failing"} => WellFormed(mem.log)

InTurn == pc = "tool" =>
  /\ turn.at \in 1 .. turn.calls
  /\ EndsWithTurn(mem.log, TurnAt, turn.calls, turn.at - 1)

FirstRunComplete == run = 1 =>
  /\ pc \notin {"none", "failing", "tool"} => Complete(mem.log)
  /\ pc = "tool" => CompleteBut(mem.log, TurnAt)

(* What a first run leaves behind, whenever it is cut off.                 *)
FirstRunSaved == run = 1 => CutLast(context.log)

LogInv == SavedFormed /\ MemoryFormed /\ InTurn /\ FirstRunComplete /\ FirstRunSaved

-----------------------------------------------------------------------------
(* Contexts.                                                               *)

LEMMA EntryFields == \A role, n : Entry(role, n).role = role /\ Entry(role, n).n = n
BY DEF Entry

LEMMA SystemRole == System.role = "system" /\ System.n = 0
BY EntryFields DEF System

LEMMA LogEntryFields ==
  ASSUME NEW log \in Seq(LogEntry), NEW i \in 1 .. Len(log)
  PROVE  log[i] \in LogEntry /\ log[i].role \in Role /\ log[i].n \in Nat
<1>1. log[i] \in LogEntry
  BY ElementOfSeq
<1> QED
  BY <1>1 DEF LogEntry

(* A message that is no tool result may follow anything.                   *)
LEMMA PushFormed ==
  ASSUME NEW log \in Seq(LogEntry), NEW e \in LogEntry, e.role # "tool", WellFormed(log)
  PROVE  WellFormed(Append(log, e))
<1> DEFINE more == Append(log, e)
<1>1. /\ Len(more) = Len(log) + 1 /\ Len(log) \in Nat
      /\ \A i \in 1 .. Len(log) : more[i] = log[i]
      /\ more[Len(log) + 1] = e
  BY AppendProperties, LenProperties
<1> HIDE DEF more
<1>2. more[1] = System /\ Len(more) >= 1
  BY <1>1 DEF WellFormed
<1>3. ASSUME NEW i \in 1 .. Len(more) PROVE Answers(more, i)
  <2>1. CASE i = Len(log) + 1
    BY <1>1, <2>1 DEF Answers
  <2>2. CASE i \in 2 .. Len(log)
    <3>1. i - 1 \in 1 .. Len(log) /\ i \in 1 .. Len(log)
      BY <2>2, <1>1
    <3>2. more[i] = log[i] /\ more[i - 1] = log[i - 1]
      BY <3>1, <1>1
    <3> QED
      BY <3>1, <3>2 DEF WellFormed, Answers
  <2>3. CASE i = 1
    BY <2>3, <1>2, SystemRole DEF Answers
  <2> QED
    BY <1>1, <2>1, <2>2, <2>3
<1>4. WellFormed(more)
  BY <1>2, <1>3 DEF WellFormed
<1> QED
  BY <1>4 DEF more

(* The turns that were answered stay so.                                   *)
LEMMA PushAnswered ==
  ASSUME NEW log \in Seq(LogEntry), NEW e \in LogEntry,
         NEW i \in 1 .. Len(log), Answered(log, i)
  PROVE  Answered(Append(log, e), i)
<1> DEFINE more == Append(log, e)
<1>1. /\ Len(more) = Len(log) + 1 /\ Len(log) \in Nat
      /\ \A k \in 1 .. Len(log) : more[k] = log[k]
  BY AppendProperties, LenProperties
<1>2. log[i].n \in Nat
  BY LogEntryFields
<1> HIDE DEF more
<1>3. ASSUME more[i].role = "assistant"
      PROVE  /\ i + more[i].n <= Len(more)
             /\ \A j \in 1 .. more[i].n : more[i + j] = Tool(j)
  <2>1. more[i] = log[i]
    BY <1>1
  <2>2. i + log[i].n <= Len(log) /\ \A j \in 1 .. log[i].n : log[i + j] = Tool(j)
    BY <1>3, <2>1 DEF Answered
  <2>3. ASSUME NEW j \in 1 .. log[i].n PROVE more[i + j] = Tool(j)
    <3>1. i + j \in 1 .. Len(log)
      BY <1>1, <1>2, <2>2
    <3> QED
      BY <1>1, <2>2, <3>1
  <2>4. i + log[i].n <= Len(more)
    BY <1>1, <1>2, <2>2
  <2> QED
    BY <2>1, <2>3, <2>4
<1>4. Answered(more, i)
  BY <1>3 DEF Answered
<1> QED
  BY <1>4 DEF more

LEMMA PushComplete ==
  ASSUME NEW log \in Seq(LogEntry), NEW e \in LogEntry,
         e.role = "assistant" => e.n = 0, Complete(log)
  PROVE  Complete(Append(log, e))
<1> DEFINE more == Append(log, e)
<1>1. /\ Len(more) = Len(log) + 1 /\ Len(log) \in Nat
      /\ more[Len(log) + 1] = e
  BY AppendProperties, LenProperties
<1>2. ASSUME NEW i \in 1 .. Len(log) PROVE Answered(more, i)
  BY PushAnswered DEF Complete
<1> HIDE DEF more
<1>3. Answered(more, Len(log) + 1)
  BY <1>1 DEF Answered
<1>4. Complete(more)
  BY <1>1, <1>2, <1>3 DEF Complete
<1> QED
  BY <1>4 DEF more

(* A turn with calls: it is the only one that waits for results.           *)
LEMMA PushTurn ==
  ASSUME NEW log \in Seq(LogEntry), NEW c \in Nat \ {0}
  PROVE  /\ EndsWithTurn(Append(log, Asst(c)), Len(log) + 1, c, 0)
         /\ Complete(log) => CompleteBut(Append(log, Asst(c)), Len(log) + 1)
<1> DEFINE more == Append(log, Asst(c))
<1>1. Asst(c) \in LogEntry
  BY EntryType DEF Asst, Role
<1>2. /\ Len(more) = Len(log) + 1 /\ Len(log) \in Nat
      /\ more[Len(log) + 1] = Asst(c)
  BY <1>1, AppendProperties, LenProperties
<1>3. ASSUME Complete(log), NEW i \in 1 .. Len(log) PROVE Answered(more, i)
  BY <1>1, <1>3, PushAnswered DEF Complete
<1> HIDE DEF more
<1>4. EndsWithTurn(more, Len(log) + 1, c, 0)
  BY <1>2 DEF EndsWithTurn
<1>5. Complete(log) => CompleteBut(more, Len(log) + 1)
  BY <1>2, <1>3 DEF CompleteBut
<1> QED
  BY <1>4, <1>5 DEF more

(* The next result of the turn the context ends with.                      *)
LEMMA PushResult ==
  ASSUME NEW log \in Seq(LogEntry), NEW c \in Nat, NEW k \in Nat, NEW p, k < c,
         WellFormed(log), EndsWithTurn(log, p, c, k)
  PROVE  /\ WellFormed(Append(log, Tool(k + 1)))
         /\ EndsWithTurn(Append(log, Tool(k + 1)), p, c, k + 1)
         /\ CompleteBut(log, p) => CompleteBut(Append(log, Tool(k + 1)), p)
         /\ CompleteBut(log, p) /\ k + 1 = c => Complete(Append(log, Tool(k + 1)))
<1> DEFINE e == Tool(k + 1)
<1> DEFINE more == Append(log, e)
<1>1. e \in LogEntry /\ e.role = "tool" /\ e.n = k + 1
  BY EntryType, EntryFields DEF Tool, Role
<1>2. /\ Len(more) = Len(log) + 1 /\ Len(log) \in Nat
      /\ \A i \in 1 .. Len(log) : more[i] = log[i]
      /\ more[Len(log) + 1] = e
  BY <1>1, AppendProperties, LenProperties
<1>3. p \in 1 .. Len(log) /\ Len(log) = p + k /\ log[p] = Asst(c)
      /\ \A j \in 1 .. k : log[p + j] = Tool(j)
  BY DEF EndsWithTurn
<1>4. ASSUME NEW i \in 1 .. Len(log), Answered(log, i) PROVE Answered(more, i)
  BY <1>1, <1>4, PushAnswered
<1> HIDE DEF more
<1>5. EndsWithTurn(more, p, c, k + 1)
  <2>1. ASSUME NEW j \in 1 .. k + 1 PROVE more[p + j] = Tool(j)
    <3>1. CASE j = k + 1
      BY <1>2, <1>3, <3>1
    <3>2. CASE j \in 1 .. k
      <4>1. p + j \in 1 .. Len(log)
        BY <1>2, <1>3, <3>2
      <4> QED
        BY <1>2, <1>3, <3>2, <4>1
    <3> QED
      BY <3>1, <3>2
  <2>2. more[p] = Asst(c) /\ Len(more) = p + k + 1 /\ p \in 1 .. Len(more)
    BY <1>2, <1>3
  <2> QED
    BY <2>1, <2>2, k < c DEF EndsWithTurn
<1>6. WellFormed(more)
  <2>1. ASSUME NEW i \in 1 .. Len(more) PROVE Answers(more, i)
    <3>1. CASE i = Len(log) + 1
      <4>1. more[i - 1] = log[Len(log)]
        BY <1>2, <1>3, <3>1
      <4>2. CASE k = 0
        <5>1. more[i - 1] = Asst(c)
          BY <1>3, <4>1, <4>2
        <5>2. more[i - 1].role = "assistant" /\ more[i - 1].n > 0
          BY <5>1, EntryFields, k < c DEF Asst
        <5> QED
          BY <1>1, <1>2, <3>1, <4>2, <5>2 DEF Answers
      <4>3. CASE k > 0
        <5>1. log[p + k] = Tool(k)
          BY <1>3, <4>3
        <5>2. more[i - 1] = Tool(k)
          BY <1>3, <4>1, <5>1
        <5> QED
          BY <1>1, <1>2, <3>1, <4>3, <5>2 DEF Answers
      <4> QED
        BY <4>2, <4>3
    <3>2. CASE i \in 2 .. Len(log)
      <4>1. i - 1 \in 1 .. Len(log) /\ i \in 1 .. Len(log)
        BY <1>2, <3>2
      <4>2. more[i] = log[i] /\ more[i - 1] = log[i - 1]
        BY <1>2, <4>1
      <4> QED
        BY <4>1, <4>2 DEF WellFormed, Answers
    <3>3. CASE i = 1
      BY <1>2, <1>3, <3>3, SystemRole DEF Answers, WellFormed
    <3> QED
      BY <1>2, <3>1, <3>2, <3>3
  <2>2. Len(more) >= 1 /\ more[1] = System
    BY <1>2, <1>3 DEF WellFormed
  <2> QED
    BY <2>1, <2>2 DEF WellFormed
<1>7. ~(more[Len(log) + 1].role = "assistant")
  BY <1>1, <1>2
<1>8. Answered(more, Len(log) + 1)
  BY <1>7 DEF Answered
<1>9. CompleteBut(log, p) => CompleteBut(more, p)
  BY <1>2, <1>4, <1>8 DEF CompleteBut
<1>10. k + 1 = c => Answered(more, p)
  <2>1. more[p].n = c
    BY <1>5, EntryFields DEF EndsWithTurn, Asst
  <2> QED
    BY <1>5, <2>1 DEF EndsWithTurn, Answered
<1>11. CompleteBut(log, p) /\ k + 1 = c => Complete(more)
  BY <1>2, <1>9, <1>10 DEF CompleteBut, Complete
<1> QED
  BY <1>5, <1>6, <1>9, <1>11 DEF more

(* A compaction at a safe boundary.                                        *)
LEMMA CompactedEntries ==
  ASSUME NEW log \in Seq(LogEntry), NEW cut \in 3 .. Len(log)
  PROVE  /\ Compacted(log, cut) \in Seq(LogEntry)
         /\ Len(Compacted(log, cut)) = Len(log) + 3 - cut
         /\ Compacted(log, cut)[1] = log[1]
         /\ Compacted(log, cut)[2] = Summary
         /\ \A i \in 3 .. Len(log) + 3 - cut :
              Compacted(log, cut)[i] = log[i + cut - 3]
<1>1. Len(log) \in Nat
  BY LenProperties
<1>2. log[1] \in LogEntry /\ Summary \in LogEntry
  BY <1>1, ElementOfSeq, EntryType DEF Summary, Role
<1> DEFINE front == <<log[1], Summary>>
           back  == SubSeq(log, cut, Len(log))
<1>3. front \in Seq(LogEntry) /\ Len(front) = 2 /\ front[1] = log[1] /\ front[2] = Summary
  BY <1>2
<1>4. \A i \in cut .. Len(log) : log[i] \in LogEntry
  BY <1>1, ElementOfSeq
<1>5. /\ back \in Seq(LogEntry)
      /\ Len(back) = Len(log) - cut + 1
      /\ \A i \in 1 .. Len(log) - cut + 1 : back[i] = log[cut + i - 1]
  BY <1>1, <1>4, SubSeqProperties
<1> HIDE DEF front, back
<1>6. /\ front \o back \in Seq(LogEntry)
      /\ Len(front \o back) = Len(front) + Len(back)
      /\ \A i \in 1 .. Len(front) + Len(back) :
           (front \o back)[i] = IF i <= Len(front) THEN front[i] ELSE back[i - Len(front)]
  BY <1>3, <1>5, ConcatProperties
<1>7. Compacted(log, cut) = front \o back
  BY DEF Compacted, front, back
<1>8. ASSUME NEW i \in 3 .. Len(log) + 3 - cut
      PROVE  (front \o back)[i] = log[i + cut - 3]
  <2>1. (front \o back)[i] = back[i - 2]
    BY <1>1, <1>3, <1>5, <1>6
  <2>2. i - 2 \in 1 .. Len(log) - cut + 1
    BY <1>1
  <2>3. back[i - 2] = log[cut + (i - 2) - 1]
    BY <1>5, <2>2
  <2>4. cut + (i - 2) - 1 = i + cut - 3
    OBVIOUS
  <2> QED
    BY <2>1, <2>3, <2>4
<1> QED
  BY <1>1, <1>3, <1>5, <1>6, <1>7, <1>8

LEMMA CompactedFormed ==
  ASSUME NEW log \in Seq(LogEntry), NEW cut, SafeCut(log, cut), WellFormed(log)
  PROVE  WellFormed(Compacted(log, cut))
<1>1. cut \in 3 .. Len(log) /\ log[cut].role # "tool" /\ Len(log) \in Nat
  BY LenProperties DEF SafeCut
<1> DEFINE short == Compacted(log, cut)
<1>2. /\ Len(short) = Len(log) + 3 - cut
      /\ short[1] = log[1] /\ short[2] = Summary
      /\ \A i \in 3 .. Len(log) + 3 - cut : short[i] = log[i + cut - 3]
  BY <1>1, CompactedEntries
<1> HIDE DEF short
<1>3. ASSUME NEW i \in 1 .. Len(short) PROVE Answers(short, i)
  <2>1. CASE i = 1
    BY <1>2, <2>1, SystemRole DEF Answers, WellFormed
  <2>2. CASE i = 2
    BY <1>2, <2>2, EntryFields DEF Answers, Summary
  <2>3. CASE i = 3
    <3>1. short[i] = log[i + cut - 3] /\ i + cut - 3 = cut
      BY <1>1, <1>2, <2>3
    <3> QED
      BY <1>1, <3>1 DEF Answers
  <2>4. CASE i > 3
    <3>1. /\ i \in 3 .. Len(log) + 3 - cut
          /\ i - 1 \in 3 .. Len(log) + 3 - cut
      BY <1>1, <1>2, <2>4
    <3>2. short[i] = log[i + cut - 3] /\ short[i - 1] = log[(i - 1) + cut - 3]
      BY <1>2, <3>1
    <3>3. (i - 1) + cut - 3 = (i + cut - 3) - 1 /\ i + cut - 3 \in 1 .. Len(log)
      BY <1>1, <3>1
    <3>4. short[i - 1] = log[(i + cut - 3) - 1]
      BY <3>2, <3>3
    <3>5. Answers(log, i + cut - 3)
      BY <3>3 DEF WellFormed
    <3> QED
      BY <3>2, <3>4, <3>5 DEF Answers
  <2> QED
    BY <1>1, <1>2, <2>1, <2>2, <2>3, <2>4
<1>4. Len(short) >= 1 /\ short[1] = System
  BY <1>1, <1>2 DEF WellFormed
<1>5. WellFormed(short)
  BY <1>3, <1>4 DEF WellFormed
<1> QED
  BY <1>5 DEF short

LEMMA CompactedComplete ==
  ASSUME NEW log \in Seq(LogEntry), NEW cut \in 3 .. Len(log), Complete(log),
         log[1] = System
  PROVE  Complete(Compacted(log, cut))
<1> DEFINE short == Compacted(log, cut)
<1>1. /\ Len(short) = Len(log) + 3 - cut
      /\ short[1] = log[1] /\ short[2] = Summary
      /\ \A i \in 3 .. Len(log) + 3 - cut : short[i] = log[i + cut - 3]
      /\ Len(log) \in Nat
  BY CompactedEntries, LenProperties
<1> HIDE DEF short
<1>2. ASSUME NEW i \in 1 .. Len(short) PROVE Answered(short, i)
  <2>1. CASE i = 1
    BY <1>1, <2>1, SystemRole DEF Answered
  <2>2. CASE i = 2
    BY <1>1, <2>2, EntryFields DEF Answered, Summary
  <2>3. CASE i >= 3
    <3> DEFINE k == i + cut - 3
    <3>1. i \in 3 .. Len(log) + 3 - cut /\ k \in 1 .. Len(log)
      BY <1>1, <2>3
    <3>2. short[i] = log[k] /\ log[k].n \in Nat
      BY <1>1, <3>1, LogEntryFields
    <3>3. ASSUME short[i].role = "assistant"
          PROVE  /\ i + short[i].n <= Len(short)
                 /\ \A j \in 1 .. short[i].n : short[i + j] = Tool(j)
      <4>1. k + log[k].n <= Len(log) /\ \A j \in 1 .. log[k].n : log[k + j] = Tool(j)
        BY <3>1, <3>2, <3>3 DEF Complete, Answered
      <4>2. ASSUME NEW j \in 1 .. log[k].n PROVE short[i + j] = Tool(j)
        <5>1. i + j \in 3 .. Len(log) + 3 - cut
          BY <1>1, <3>1, <3>2, <4>1
        <5>2. short[i + j] = log[(i + j) + cut - 3] /\ (i + j) + cut - 3 = k + j
          BY <1>1, <5>1
        <5> QED
          BY <4>1, <5>2
      <4> QED
        BY <1>1, <3>1, <3>2, <4>1, <4>2
    <3> QED
      BY <3>3 DEF Answered
  <2> QED
    BY <1>1, <2>1, <2>2, <2>3
<1>3. Complete(short)
  BY <1>2 DEF Complete
<1> QED
  BY <1>3 DEF short

-----------------------------------------------------------------------------
(* What a Side inherits.                                                   *)

LEMMA PrefixEntries ==
  ASSUME NEW log \in Seq(LogEntry), NEW p \in 1 .. Len(log)
  PROVE  /\ SubSeq(log, 1, p - 1) \in Seq(LogEntry)
         /\ Len(SubSeq(log, 1, p - 1)) = p - 1
         /\ \A i \in 1 .. p - 1 : SubSeq(log, 1, p - 1)[i] = log[i]
<1>1. Len(log) \in Nat /\ p - 1 \in 0 .. Len(log)
  BY LenProperties
<1>2. \A i \in 1 .. p - 1 : log[i] \in LogEntry
  BY <1>1, ElementOfSeq
<1>3. CASE p = 1
  BY <1>1, <1>3, SubSeqProperties
<1>4. CASE p > 1
  BY <1>1, <1>2, <1>4, SubSeqProperties
<1> QED
  BY <1>1, <1>3, <1>4

LEMMA PrefixFormed ==
  ASSUME NEW log \in Seq(LogEntry), NEW p \in 2 .. Len(log), WellFormed(log)
  PROVE  WellFormed(SubSeq(log, 1, p - 1))
<1> DEFINE front == SubSeq(log, 1, p - 1)
<1>1. Len(log) \in Nat
  BY LenProperties
<1>2. Len(front) = p - 1 /\ \A i \in 1 .. p - 1 : front[i] = log[i]
  BY <1>1, PrefixEntries
<1> HIDE DEF front
<1>3. ASSUME NEW i \in 1 .. Len(front) PROVE Answers(front, i)
  <2>1. CASE i = 1
    BY <1>1, <1>2, <2>1, SystemRole DEF Answers, WellFormed
  <2>2. CASE i > 1
    <3>1. i \in 1 .. p - 1 /\ i - 1 \in 1 .. p - 1 /\ i \in 1 .. Len(log)
      BY <1>1, <1>2, <2>2
    <3> QED
      BY <1>2, <3>1 DEF Answers, WellFormed
  <2> QED
    BY <1>2, <2>1, <2>2
<1>4. WellFormed(front)
  BY <1>1, <1>2, <1>3 DEF WellFormed
<1> QED
  BY <1>4 DEF front

(* The results of a turn before p do not reach across it.                  *)
LEMMA PrefixComplete ==
  ASSUME NEW log \in Seq(LogEntry), NEW p \in 1 .. Len(log),
         log[p].role # "tool", CompleteBut(log, p)
  PROVE  Complete(SubSeq(log, 1, p - 1))
<1> DEFINE front == SubSeq(log, 1, p - 1)
<1>1. Len(log) \in Nat
  BY LenProperties
<1>2. Len(front) = p - 1 /\ \A i \in 1 .. p - 1 : front[i] = log[i]
  BY PrefixEntries
<1> HIDE DEF front
<1>3. ASSUME NEW i \in 1 .. p - 1, log[i].role = "assistant"
      PROVE  /\ i + log[i].n <= p - 1
             /\ \A j \in 1 .. log[i].n : front[i + j] = Tool(j)
  <2>1. i \in 1 .. Len(log) /\ log[i].n \in Nat
    BY <1>1, LogEntryFields
  <2>2. i + log[i].n <= Len(log) /\ \A j \in 1 .. log[i].n : log[i + j] = Tool(j)
    BY <1>3, <2>1 DEF CompleteBut, Answered
  <2>3. ~(i + log[i].n >= p)
    <3> SUFFICES ASSUME i + log[i].n >= p PROVE FALSE
      OBVIOUS
    <3>1. p - i \in 1 .. log[i].n /\ i + (p - i) = p
      BY <2>1
    <3>2. log[p] = Tool(p - i)
      BY <2>2, <3>1
    <3> QED
      BY <3>2, EntryFields DEF Tool
  <2>4. i + log[i].n <= p - 1
    BY <2>1, <2>3
  <2>5. ASSUME NEW j \in 1 .. log[i].n PROVE front[i + j] = Tool(j)
    <3>1. i + j \in 1 .. p - 1
      BY <2>1, <2>4
    <3> QED
      BY <1>2, <2>2, <3>1
  <2> QED
    BY <2>4, <2>5
<1>4. ASSUME NEW i \in 1 .. Len(front) PROVE Answered(front, i)
  BY <1>2, <1>3 DEF Answered
<1>5. Complete(front)
  BY <1>4 DEF Complete
<1> QED
  BY <1>5 DEF front

(* A Side inherits everything, or what precedes a turn with calls.         *)
LEMMA SnapshotCases ==
  ASSUME NEW log
  PROVE  \/ Snapshot(log) = log
         \/ \E p \in Turns(log) : Snapshot(log) = SubSeq(log, 1, p - 1)
<1> DEFINE cut == {i \in Turns(log) : (\A k \in Turns(log) : k <= i) /\ ~HasResults(log, i)}
<1>1. CASE cut = {}
  BY <1>1 DEF Snapshot
<1>2. CASE cut # {}
  <2>1. (CHOOSE i \in cut : TRUE) \in cut
    BY <1>2
  <2>2. (CHOOSE i \in cut : TRUE) \in Turns(log)
    BY <2>1
  <2>3. Snapshot(log) = SubSeq(log, 1, (CHOOSE i \in cut : TRUE) - 1)
    BY <1>2 DEF Snapshot
  <2> QED
    BY <2>2, <2>3
<1> QED
  BY <1>1, <1>2

LEMMA SnapshotFormed ==
  ASSUME NEW log \in Seq(LogEntry), WellFormed(log)
  PROVE  WellFormed(Snapshot(log))
<1>1. CASE Snapshot(log) = log
  BY <1>1
<1>2. ASSUME NEW p \in Turns(log), Snapshot(log) = SubSeq(log, 1, p - 1)
      PROVE  WellFormed(Snapshot(log))
  <2>1. p \in 1 .. Len(log) /\ log[p].role = "assistant" /\ Len(log) \in Nat
    BY LenProperties DEF Turns
  <2>2. p # 1
    BY <2>1, SystemRole DEF WellFormed
  <2>3. p \in 2 .. Len(log)
    BY <2>1, <2>2
  <2> QED
    BY <1>2, <2>3, PrefixFormed
<1> QED
  BY <1>1, <1>2, SnapshotCases

LEMMA SnapshotOfComplete ==
  ASSUME NEW log \in Seq(LogEntry), Complete(log)
  PROVE  Snapshot(log) = log
<1>1. ASSUME NEW i \in Turns(log), NEW j \in 1 .. log[i].n
      PROVE  j \in {log[k].n : k \in {q \in i + 1 .. Len(log) : log[q].role = "tool"}}
  <2>1. i \in 1 .. Len(log) /\ log[i].role = "assistant" /\ log[i].n \in Nat
        /\ Len(log) \in Nat
    BY LogEntryFields, LenProperties DEF Turns
  <2>2. i + log[i].n <= Len(log) /\ log[i + j] = Tool(j)
    BY <2>1 DEF Complete, Answered
  <2>3. i + j \in i + 1 .. Len(log)
    BY <2>1, <2>2
  <2>4. log[i + j].role = "tool" /\ log[i + j].n = j
    BY <2>2, EntryFields DEF Tool
  <2> QED
    BY <2>3, <2>4
<1>2. \A i \in Turns(log) : HasResults(log, i)
  BY <1>1 DEF HasResults
<1> QED
  BY <1>2 DEF Snapshot

LEMMA SnapshotOfCut ==
  ASSUME NEW log \in Seq(LogEntry), NEW p, NEW c, NEW k,
         EndsWithTurn(log, p, c, k), k < c
  PROVE  Snapshot(log) = SubSeq(log, 1, p - 1)
<1>1. /\ p \in 1 .. Len(log) /\ k \in 0 .. c /\ Len(log) = p + k /\ log[p] = Asst(c)
      /\ \A j \in 1 .. k : log[p + j] = Tool(j)
      /\ Len(log) \in Nat
  BY LenProperties DEF EndsWithTurn
<1>2. log[p].role = "assistant" /\ log[p].n = c
  BY <1>1, EntryFields DEF Asst
<1>3. c \in Nat /\ k \in Nat
  BY <1>1, <1>2, LogEntryFields
<1>4. p \in Turns(log)
  BY <1>1, <1>2, <1>3, k < c DEF Turns
<1>5. ASSUME NEW q \in p + 1 .. Len(log) PROVE log[q] = Tool(q - p)
  <2>1. q - p \in 1 .. k /\ p + (q - p) = q
    BY <1>1, <1>3
  <2> QED
    BY <1>1, <2>1
<1>6. ASSUME NEW i \in Turns(log) PROVE i <= p
  <2> SUFFICES ASSUME i > p PROVE FALSE
    BY <1>1 DEF Turns
  <2>1. i \in p + 1 .. Len(log) /\ log[i].role = "assistant"
    BY <1>1 DEF Turns
  <2> QED
    BY <1>5, <2>1, EntryFields DEF Tool
<1>7. ~HasResults(log, p)
  <2> SUFFICES ASSUME HasResults(log, p) PROVE FALSE
    OBVIOUS
  <2>1. c \in 1 .. log[p].n
    BY <1>2, <1>3, k < c
  <2>2. PICK q \in p + 1 .. Len(log) : log[q].n = c
    BY <2>1 DEF HasResults
  <2>3. log[q].n = q - p
    BY <1>5, EntryFields DEF Tool
  <2> QED
    BY <1>1, <1>3, <2>2, <2>3, k < c
<1> DEFINE cut == {i \in Turns(log) : (\A j \in Turns(log) : j <= i) /\ ~HasResults(log, i)}
<1>8. p \in cut
  BY <1>4, <1>6, <1>7
<1>9. ASSUME NEW i \in cut PROVE i = p
  <2>1. i <= p /\ p <= i /\ i \in 1 .. Len(log)
    BY <1>4, <1>6 DEF Turns
  <2> QED
    BY <1>1, <2>1
<1>10. (CHOOSE i \in cut : TRUE) = p
  BY <1>8, <1>9
<1> QED
  BY <1>8, <1>10 DEF Snapshot

(* A turn that the context ends with is all that a cut takes away.         *)
LEMMA SnapshotOfCutLast ==
  ASSUME NEW log \in Seq(LogEntry), CutLast(log)
  PROVE  /\ Complete(Snapshot(log))
         /\ \A m : User(m) \in Elements(log) => User(m) \in Elements(Snapshot(log))
<1>1. CASE Complete(log)
  BY <1>1, SnapshotOfComplete
<1>2. ASSUME NEW p, NEW c, NEW k,
             EndsWithTurn(log, p, c, k), k < c, CompleteBut(log, p)
      PROVE  /\ Complete(Snapshot(log))
             /\ \A m : User(m) \in Elements(log) => User(m) \in Elements(Snapshot(log))
  <2>1. /\ p \in 1 .. Len(log) /\ Len(log) = p + k /\ log[p] = Asst(c)
        /\ \A j \in 1 .. k : log[p + j] = Tool(j)
        /\ k \in 0 .. c
        /\ Len(log) \in Nat
    BY <1>2, LenProperties DEF EndsWithTurn
  <2>2. Snapshot(log) = SubSeq(log, 1, p - 1)
    BY <1>2, SnapshotOfCut
  <2>3. log[p].role = "assistant"
    BY <2>1, EntryFields DEF Asst
  <2>4. Complete(Snapshot(log))
    BY <1>2, <2>1, <2>2, <2>3, PrefixComplete
  <2>5. ASSUME NEW m, User(m) \in Elements(log)
        PROVE  User(m) \in Elements(Snapshot(log))
    <3>1. PICK i \in DOMAIN log : log[i] = User(m)
      BY <2>5 DEF Elements
    <3>2. i \in 1 .. Len(log)
      BY LenProperties
    <3>3. log[i].role = "user"
      BY <3>1, EntryFields DEF User
    <3>4. ~(i > p)
      <4> SUFFICES ASSUME i > p PROVE FALSE
        OBVIOUS
      <4>1. i - p \in 1 .. k /\ p + (i - p) = i
        BY <2>1, <3>2
      <4>2. log[i] = Tool(i - p)
        BY <2>1, <4>1
      <4> QED
        BY <3>3, <4>2, EntryFields DEF Tool
    <3>5. i \in 1 .. p - 1
      BY <2>1, <2>3, <3>2, <3>3, <3>4
    <3>6. Len(Snapshot(log)) = p - 1 /\ Snapshot(log)[i] = User(m)
      BY <2>1, <2>2, <3>1, <3>5, PrefixEntries
    <3>7. DOMAIN Snapshot(log) = 1 .. p - 1
      BY <2>1, <2>2, <3>6, PrefixEntries, LenProperties
    <3> QED
      BY <3>5, <3>6, <3>7 DEF Elements
  <2> QED
    BY <2>4, <2>5
<1> QED
  BY <1>1, <1>2 DEF CutLast

-----------------------------------------------------------------------------
(* What a step does to the two contexts and to the turn.                   *)

Between == {"head", "ready", "compacted", "asking", "ending"} \cup Delivering

Nothing ==
  /\ UNCHANGED <<context, mem, turn, run>>
  /\ \/ pc' = pc
     \/ pc \in Between /\ pc' \in Between

Left == pc' \in {"none", "failing"} /\ UNCHANGED <<context, run>>

Resumed ==
  /\ pc' = "head" /\ mem' = context /\ run' = run + 1
  /\ UNCHANGED context

(* A user message, a request to retry, a final text.                       *)
Pushed ==
  /\ pc \in Between /\ pc' \in Between
  /\ \E e \in LogEntry :
       /\ e.role # "tool"
       /\ e.role = "assistant" => e.n = 0
       /\ mem'.log = Append(mem.log, e)
  /\ context' \in {context, mem'}
  /\ UNCHANGED run

Shortened ==
  /\ pc \in Between /\ pc' \in Between
  /\ \E cut \in 1 .. Len(mem.log) :
       SafeCut(mem.log, cut) /\ mem'.log = Compacted(mem.log, cut)
  /\ context' = mem'
  /\ UNCHANGED run

Called ==
  /\ pc = "asking" /\ pc' = "tool"
  /\ turn'.at = 1
  /\ turn'.calls \in Nat \ {0}
  /\ mem'.log = Append(mem.log, Asst(turn'.calls))
  /\ UNCHANGED <<context, run>>

Answer ==
  /\ pc = "tool"
  /\ mem'.log = Append(mem.log, Tool(turn.at))
  /\ context' = mem'
  /\ \/ turn.at < turn.calls /\ pc' = "tool"
        /\ turn'.calls = turn.calls /\ turn'.at = turn.at + 1
     \/ turn.at >= turn.calls /\ pc' = "head"
  /\ UNCHANGED run

LogStep == Nothing \/ Left \/ Resumed \/ Pushed \/ Shortened \/ Called \/ Answer

LEMMA MemRecord ==
  ASSUME TypeOK
  PROVE  /\ mem.log \in Seq(LogEntry) /\ context.log \in Seq(LogEntry)
         /\ \A l : [mem EXCEPT !.log = l].log = l
BY DEF TypeOK, FilesOK, Context, LogEntry

LEMMA EveryLogStep == TypeOK /\ [Next]_vars => LogStep
<1> SUFFICES ASSUME TypeOK, [Next]_vars PROVE LogStep
  OBVIOUS
<1> USE DEF LogStep
<1>1. ASSUME NEW intent \in Intent, Send(intent) PROVE LogStep
  BY <1>1 DEF Send, Unlocked, OwnerFree, Stopping, worker, Resume, StartWorker, Resumed, Nothing
<1>2. ASSUME NEW m \in 1 .. Len(messages), CancelMessage(m) PROVE LogStep
  BY <1>2 DEF CancelMessage, worker, Nothing
<1>3. ASSUME Schedule PROVE LogStep
  BY <1>3 DEF Schedule, Resume, StartWorker, Resumed
<1>4. ASSUME NEW kind \in {"stop", "interrupt"}, FinBegin(kind) PROVE LogStep
  BY <1>4 DEF FinBegin, disk, worker, Nothing
<1>5. ASSUME FinCheck PROVE LogStep
  BY <1>5 DEF FinCheck, disk, worker, Nothing
<1>6. ASSUME FinCancel PROVE LogStep
  BY <1>6 DEF FinCancel, worker, Nothing
<1>7. ASSUME FinSignal PROVE LogStep
  BY <1>7 DEF FinSignal, disk, worker, Nothing
<1>8. ASSUME FinMark PROVE LogStep
  BY <1>8 DEF FinMark, worker, Nothing
<1>9. ASSUME FinDone PROVE LogStep
  BY <1>9 DEF FinDone, disk, worker, Nothing
<1>10. ASSUME ListPending PROVE LogStep
  BY <1>10 DEF ListPending, disk, Nothing, Between, Delivering
<1>11. ASSUME SaveContext PROVE LogStep
  <2>1. PICK m \in batch :
           \/ /\ mem' = [log |-> Append(mem.log, User(m)), ids |-> Append(mem.ids, m)]
              /\ context' = mem'
           \/ UNCHANGED <<mem, context>>
    BY <1>11 DEF SaveContext
  <2>2. pc = "save" /\ pc' = "event" /\ UNCHANGED <<run, turn>>
    BY <1>11 DEF SaveContext
  <2>3. CASE UNCHANGED <<mem, context>>
    BY <2>2, <2>3 DEF Nothing, Between, Delivering
  <2>4. CASE mem'.log = Append(mem.log, User(m)) /\ context' = mem'
    <3>1. m \in Nat
      BY MessagesLength DEF TypeOK, BatchOK, Message
    <3>2. User(m) \in LogEntry /\ User(m).role = "user"
      BY <3>1, EntryType, EntryFields DEF User, Role
    <3> QED
      BY <2>2, <2>4, <3>2 DEF Pushed, Between, Delivering
  <2> QED
    BY <2>1, <2>3, <2>4
<1>12. ASSUME AppendEvent PROVE LogStep
  BY <1>12 DEF AppendEvent, Leave, Left, Nothing, Between, Delivering
<1>13. ASSUME MarkDelivered PROVE LogStep
  BY <1>13 DEF MarkDelivered, Leave, Left, Nothing, Between, Delivering, Delivered
<1>14. ASSUME Compact PROVE LogStep
  <2>1. PICK cut \in 1 .. Len(mem.log) :
           SafeCut(mem.log, cut) /\ mem' = [mem EXCEPT !.log = Compacted(mem.log, cut)]
    BY <1>14 DEF Compact
  <2>2. mem'.log = Compacted(mem.log, cut)
    BY <2>1, MemRecord
  <2> QED
    BY <1>14, <2>1, <2>2 DEF Compact, Shortened, Between
<1>15. ASSUME Ask PROVE LogStep
  BY <1>15 DEF Ask, disk, Nothing, Between
<1>16. ASSUME TurnError PROVE LogStep
  BY <1>16 DEF TurnError, Leave, disk, Left
<1>17. ASSUME TurnText PROVE LogStep
  <2>1. CASE working /\ mem' = Push(mem, Asst(0))
    <3>1. Asst(0) \in LogEntry /\ Asst(0).n = 0 /\ Asst(0).role # "tool"
      BY EntryType, EntryFields DEF Asst, Role
    <3>2. mem'.log = Append(mem.log, Asst(0))
      BY <2>1, MemRecord DEF Push
    <3>3. pc \in Between /\ pc' \in Between /\ context' \in {context, mem'} /\ UNCHANGED run
      BY <1>17, <2>1 DEF TurnText, Leave, Between, Delivering
    <3> QED
      BY <3>1, <3>2, <3>3 DEF Pushed
  <2>2. CASE Leave("failing") /\ UNCHANGED context
    BY <1>17, <2>2 DEF TurnText, Leave, Left
  <2> QED
    BY <1>17, <2>1, <2>2 DEF TurnText
<1>18. ASSUME TurnEmpty PROVE LogStep
  <2>1. Retry \in LogEntry /\ Retry.role = "retry"
    BY EntryType, EntryFields DEF Retry, Role
  <2>2. mem'.log = Append(mem.log, Retry)
    BY <1>18, MemRecord DEF TurnEmpty, Push
  <2> QED
    BY <1>18, <2>1, <2>2 DEF TurnEmpty, Pushed, Between
<1>19. ASSUME ToolDone PROVE LogStep
  <2>1. CASE working /\ mem' = Push(mem, Tool(turn.at)) /\ context' = mem'
    <3>1. mem'.log = Append(mem.log, Tool(turn.at))
      BY <2>1, MemRecord DEF Push
    <3>2. turn \in [calls : 0 .. MaxCalls, at : 0 .. MaxCalls]
      BY DEF TypeOK, WorkerOK
    <3>3. CASE MoreCalls /\ turn' = [turn EXCEPT !.at = @ + 1] /\ UNCHANGED pc
      <4>1. turn'.calls = turn.calls /\ turn'.at = turn.at + 1
        BY <3>2, <3>3
      <4> QED
        BY <1>19, <2>1, <3>1, <3>3, <4>1 DEF ToolDone, MoreCalls, Answer
    <3>4. CASE ~MoreCalls /\ pc' = "head"
      <4>1. turn.at >= turn.calls
        BY <3>2, <3>4, BoundsAssumption DEF MoreCalls
      <4> QED
        BY <1>19, <2>1, <3>1, <3>4, <4>1 DEF ToolDone, Answer
    <3>5. CASE Leave("failing")
      BY <1>19, <3>5, <2>1 DEF ToolDone, Leave
    <3> QED
      BY <1>19, <2>1, <3>3, <3>4, <3>5 DEF ToolDone
  <2>2. CASE Leave("failing") /\ UNCHANGED context
    BY <1>19, <2>2 DEF ToolDone, Leave, Left
  <2> QED
    BY <1>19, <2>1, <2>2 DEF ToolDone
<1>20. ASSUME Stopped PROVE LogStep
  BY <1>20 DEF Stopped, Leave, disk, Left
<1>21. ASSUME End PROVE LogStep
  BY <1>21 DEF End, Leave, Left
<1>22. ASSUME NEW n \in 1 .. MaxCalls, TurnTools(n) PROVE LogStep
  <2>1. CASE mem' = Push(mem, Asst(n)) /\ turn' = [calls |-> n, at |-> 1] /\ pc' = "tool"
    <3>1. mem'.log = Append(mem.log, Asst(n))
      BY <2>1, MemRecord DEF Push
    <3>2. turn'.calls = n /\ turn'.at = 1 /\ n \in Nat \ {0}
      BY <2>1, BoundsAssumption
    <3> QED
      BY <1>22, <2>1, <3>1, <3>2 DEF TurnTools, disk, Called
  <2>2. CASE Leave("failing")
    BY <1>22, <2>2 DEF TurnTools, disk, Leave, Left
  <2> QED
    BY <1>22, <2>1, <2>2 DEF TurnTools
<1>23. ASSUME Crash PROVE LogStep
  BY <1>23 DEF Crash, Leave, disk, Left
<1>24. ASSUME Start PROVE LogStep
  BY <1>24 DEF Start, worker, Nothing
<1>25. CASE UNCHANGED vars
  BY <1>25 DEF vars, disk, worker, Nothing
<1> QED
  BY <1>1, <1>2, <1>3, <1>4, <1>5, <1>6, <1>7, <1>8, <1>9,
     <1>10, <1>11, <1>12, <1>13, <1>14, <1>15, <1>16, <1>17, <1>18,
     <1>19, <1>20, <1>21, <1>22, <1>23, <1>24, <1>25
  DEF Next, Client, Final, Worker

-----------------------------------------------------------------------------
(* The invariant, kept by each of these.                                   *)

LEMMA InitLog == Init => LogInv
<1> SUFFICES ASSUME Init PROVE LogInv
  OBVIOUS
<1>1. mem = context /\ context.log = <<System, User(0)>> /\ pc = "head" /\ run = 1
  BY DEF Init
<1> DEFINE log == <<System, User(0)>>
<1>2. Len(log) = 2 /\ log[1] = System /\ log[2] = User(0)
  OBVIOUS
<1>3. System.role = "system" /\ User(0).role = "user"
  BY EntryFields DEF System, User
<1> HIDE DEF log
<1>4. \A i \in 1 .. Len(log) : log[i].role \notin {"tool", "assistant"}
  BY <1>2, <1>3
<1>5. WellFormed(log)
  BY <1>2, <1>4 DEF WellFormed, Answers
<1>6. Complete(log)
  BY <1>4 DEF Complete, Answered
<1> QED
  BY <1>1, <1>5, <1>6
  DEF log, LogInv, SavedFormed, MemoryFormed, InTurn, FirstRunComplete, FirstRunSaved, CutLast

LEMMA LogKept == TypeOK /\ LogInv /\ LogStep => LogInv'
<1> SUFFICES ASSUME TypeOK, LogInv, LogStep PROVE LogInv'
  OBVIOUS
<1> USE DEF LogInv, SavedFormed, MemoryFormed, InTurn, FirstRunComplete, FirstRunSaved, TurnAt
<1>m. mem.log \in Seq(LogEntry) /\ context.log \in Seq(LogEntry)
  BY MemRecord
<1>1. CASE Nothing
  BY <1>1 DEF Nothing, Between, Delivering
<1>2. CASE Left
  BY <1>2 DEF Left
<1>3. CASE Resumed
  <2>1. run' # 1
    BY <1>3, BoundsAssumption DEF Resumed, TypeOK, WorkerOK
  <2> QED
    BY <1>3, <2>1 DEF Resumed
<1>4. CASE Pushed
  <2>1. PICK e \in LogEntry : /\ e.role # "tool"
                              /\ e.role = "assistant" => e.n = 0
                              /\ mem'.log = Append(mem.log, e)
    BY <1>4 DEF Pushed
  <2>2. WellFormed(mem.log)
    BY <1>4 DEF Pushed, Between, Delivering
  <2>3. WellFormed(mem'.log)
    BY <1>m, <2>1, <2>2, PushFormed
  <2>4. run = 1 => Complete(mem.log)
    BY <1>4 DEF Pushed, Between, Delivering
  <2>5. run = 1 => Complete(mem'.log)
    BY <1>m, <2>1, <2>4, PushComplete
  <2>6. run' = 1 => CutLast(context'.log)
    BY <1>4, <2>5 DEF Pushed, CutLast
  <2> QED
    BY <1>4, <2>3, <2>5, <2>6 DEF Pushed, Between, Delivering
<1>5. CASE Shortened
  <2>1. PICK cut \in 1 .. Len(mem.log) :
           SafeCut(mem.log, cut) /\ mem'.log = Compacted(mem.log, cut)
    BY <1>5 DEF Shortened
  <2>2. WellFormed(mem.log)
    BY <1>5 DEF Shortened, Between, Delivering
  <2>3. WellFormed(mem'.log)
    BY <1>m, <2>1, <2>2, CompactedFormed
  <2>4. run = 1 => Complete(mem.log)
    BY <1>5 DEF Shortened, Between, Delivering
  <2>5. cut \in 3 .. Len(mem.log) /\ mem.log[1] = System
    BY <2>1, <2>2 DEF SafeCut, WellFormed
  <2>6. run = 1 => Complete(mem'.log)
    BY <1>m, <2>1, <2>4, <2>5, CompactedComplete
  <2>7. run' = 1 => CutLast(context'.log)
    BY <1>5, <2>6 DEF Shortened, CutLast
  <2> QED
    BY <1>5, <2>3, <2>6, <2>7 DEF Shortened, Between, Delivering
<1>6. CASE Called
  <2> DEFINE c == turn'.calls
  <2>1. c \in Nat \ {0} /\ turn'.at = 1 /\ mem'.log = Append(mem.log, Asst(c))
    BY <1>6 DEF Called
  <2>2. Asst(c) \in LogEntry /\ Asst(c).role # "tool"
    BY <2>1, EntryType, EntryFields DEF Asst, Role
  <2> HIDE DEF c
  <2>3. Len(mem'.log) = Len(mem.log) + 1 /\ Len(mem.log) \in Nat
    BY <1>m, <2>1, <2>2, AppendProperties, LenProperties
  <2>4. WellFormed(mem'.log)
    BY <1>6, <1>m, <2>1, <2>2, PushFormed DEF Called
  <2>5. /\ EndsWithTurn(mem'.log, Len(mem.log) + 1, c, 0)
        /\ Complete(mem.log) => CompleteBut(mem'.log, Len(mem.log) + 1)
    BY <1>m, <2>1, PushTurn
  <2>6. TurnAt' = Len(mem.log) + 1 /\ turn'.at - 1 = 0 /\ turn'.at \in 1 .. c
    BY <2>1, <2>3
  <2>7. EndsWithTurn(mem'.log, TurnAt', c, turn'.at - 1)
    BY <2>5, <2>6
  <2>8. run = 1 => CompleteBut(mem'.log, TurnAt')
    BY <1>6, <2>5, <2>6 DEF Called
  <2> QED
    BY <1>6, <2>4, <2>6, <2>7, <2>8 DEF Called, c
<1>7. CASE Answer
  <2> DEFINE p == TurnAt
             k == turn.at - 1
             c == turn.calls
  <2>1. turn \in [calls : 0 .. MaxCalls, at : 0 .. MaxCalls]
    BY DEF TypeOK, WorkerOK
  <2>2. WellFormed(mem.log) /\ EndsWithTurn(mem.log, p, c, k) /\ turn.at \in 1 .. c
    BY <1>7 DEF Answer
  <2>3. c \in Nat /\ k \in Nat /\ k < c /\ k + 1 = turn.at
    BY <2>1, <2>2, BoundsAssumption
  <2>4. mem'.log = Append(mem.log, Tool(k + 1))
    BY <1>7, <2>3 DEF Answer
  <2>5. Len(mem'.log) = Len(mem.log) + 1 /\ Len(mem.log) \in Nat
    <3>1. Tool(k + 1) \in LogEntry
      BY <2>3, EntryType DEF Tool, Role
    <3> QED
      BY <1>m, <2>4, <3>1, AppendProperties, LenProperties
  <2>6. run = 1 => CompleteBut(mem.log, p)
    BY <1>7 DEF Answer
  <2>p. p = Len(mem.log) + 1 - turn.at
    OBVIOUS
  <2> HIDE DEF p, k, c
  <2>7. /\ WellFormed(mem'.log)
        /\ EndsWithTurn(mem'.log, p, c, k + 1)
        /\ run = 1 => CompleteBut(mem'.log, p)
        /\ run = 1 /\ k + 1 = c => Complete(mem'.log)
    BY <1>m, <2>2, <2>3, <2>4, <2>6, PushResult
  <2>8. CASE pc' = "tool"
    <3>1. turn.at < c /\ turn'.calls = c /\ turn'.at = turn.at + 1
      BY <1>7, <2>8 DEF Answer, c
    <3>2. TurnAt' = p /\ turn'.at - 1 = k + 1 /\ turn'.at \in 1 .. c
      BY <2>1, <2>2, <2>3, <2>5, <2>p, <3>1
    <3>3. EndsWithTurn(mem'.log, TurnAt', turn'.calls, turn'.at - 1)
      BY <2>7, <3>1, <3>2
    <3>4. run = 1 => CompleteBut(mem'.log, TurnAt')
      BY <2>7, <3>2
    <3>5. k + 1 < c
      BY <2>3, <3>1
    <3>6. run' = 1 => CutLast(context'.log)
      BY <1>7, <2>7, <3>5 DEF Answer, CutLast
    <3> QED
      BY <1>7, <2>7, <2>8, <3>1, <3>2, <3>3, <3>4, <3>6 DEF Answer
  <2>9. CASE pc' = "head"
    <3>1. k + 1 = c
      BY <1>7, <2>1, <2>2, <2>3, <2>9, BoundsAssumption DEF Answer, c
    <3>2. run' = 1 => CutLast(context'.log)
      BY <1>7, <2>7, <3>1 DEF Answer, CutLast
    <3> QED
      BY <1>7, <2>7, <2>9, <3>1, <3>2 DEF Answer
  <2> QED
    BY <1>7, <2>8, <2>9 DEF Answer
<1> QED
  BY <1>1, <1>2, <1>3, <1>4, <1>5, <1>6, <1>7 DEF LogStep

-----------------------------------------------------------------------------
(* The context in memory and the one on disk are well formed at every      *)
(* moment, the one being extended by a turn's results included: the saves  *)
(* of run_worker, a stop, a crash and compacted_messages keep each tool    *)
(* result behind its call, after the agent's own system message.           *)
THEOREM ContextsWellFormed == Spec => []LogInv
<1>1. TypeOK /\ LogInv /\ [Next]_vars => LogInv'
  BY EveryLogStep, LogKept
<1> QED
  BY <1>1, InitLog, TypeInvariant, PTL DEF Spec

(* A request to the model has no tool result without its call, and in the  *)
(* first run no call without its result (run_worker, compacted_messages).  *)
THEOREM ResultsAlwaysFollowCalls == Spec => []ResultsFollowCalls
<1>1. TypeOK /\ LogInv => ResultsFollowCalls
  <2> SUFFICES ASSUME LogInv, pc = "asking" PROVE ResultsFollowCalls
    BY DEF ResultsFollowCalls
  <2>1. WellFormed(mem.log) /\ (run = 1 => Complete(mem.log))
    BY DEF LogInv, MemoryFormed, FirstRunComplete
  <2> QED
    BY <2>1 DEF ResultsFollowCalls, WellFormed, Complete
<1> QED
  BY <1>1, TypeInvariant, ContextsWellFormed, PTL

(* What a Side inherits has no result without its call; of a first run it  *)
(* has every message that was shown, and every call it has is answered     *)
(* (create_side, make_side_snapshot_valid).                                *)
THEOREM SnapshotsAreComplete == Spec => []SnapshotsComplete
<1>1. TypeOK /\ LogInv => SnapshotsComplete
  <2> SUFFICES ASSUME TypeOK, LogInv PROVE SnapshotsComplete
    OBVIOUS
  <2>1. context.log \in Seq(LogEntry)
    BY MemRecord
  <2>2. WellFormed(Snapshot(context.log))
    BY <2>1, SnapshotFormed DEF LogInv, SavedFormed
  <2>3. run = 1 => /\ Complete(Snapshot(context.log))
                   /\ \A m : User(m) \in Elements(context.log) =>
                              User(m) \in Elements(Snapshot(context.log))
    BY <2>1, SnapshotOfCutLast DEF LogInv, FirstRunSaved
  <2> QED
    BY <2>2, <2>3 DEF SnapshotsComplete, WellFormed, Complete
<1> QED
  BY <1>1, TypeInvariant, ContextsWellFormed, PTL
=============================================================================
