---------------------------- MODULE Inbox_proofs ----------------------------
(***************************************************************************)
(* The end of a run, and a stall, are published once, for any number of    *)
(* Agents, runs and notices, any size of the journal and any crashes.      *)
(***************************************************************************)
EXTENDS Inbox, SequenceTheorems, TLAPS

Holding == {"line", "torn", "bare", "whole"}
Before  == {"event", "want"}
Some    == Record \cup {<<>>}
Pub     == [pc : {"idle"} \cup Before \cup Holding, seq : Nat, record : Some]

(* The types that the invariant needs; the readers have no part in it.     *)
PubOK     == pub \in [Writers -> Pub]
JournalOK == /\ counter \in Nat /\ history \in Seq(Record) /\ Len(history) = counter
             /\ journal \in Seq(Nat)
AgentsOK  == /\ status \in [Agents -> {"working", "ended"}]
             /\ progress \in [Agents -> Nat]
             /\ idle \in [Agents -> BOOLEAN]
             /\ notified \in [Agents -> Nat]

(* Who writes a line holds the lock and has the last number.               *)
LockHeld == \A w \in Writers : pub[w].pc \in Holding =>
              lock = w /\ pub[w].seq = counter /\ counter > 0

(* An Agent tells of itself; the lifecycle event takes it beyond the end   *)
(* it is about to tell of.                                                 *)
OwnNotices ==
  \A a \in Agents : pub[a].pc # "idle" =>
    /\ pub[a].record \in Record /\ pub[a].record.id = a
    /\ \/ pub[a].record.kind = "note" /\ pub[a].pc # "event"
       \/ /\ pub[a].record.kind = "end"
          /\ pub[a].record.mark <= progress[a]
          /\ pub[a].pc # "event" => pub[a].record.mark < progress[a]

(* The watchdog tells of a stall at a mark at which the Agent is idle, or  *)
(* which it has left behind, and not of one it has told of a later mark.   *)
OwnStalls ==
  pub[Watchdog].pc # "idle" =>
    /\ pub[Watchdog].record \in Record
    /\ pub[Watchdog].record.kind = "stall" /\ pub[Watchdog].pc # "event"
    /\ pub[Watchdog].record.mark <= progress[pub[Watchdog].record.id]
    /\ pub[Watchdog].record.mark = progress[pub[Watchdog].record.id]
         => idle[pub[Watchdog].record.id]
    /\ \A n \in 1 .. counter :
         history[n].kind = "stall" /\ history[n].id = pub[Watchdog].record.id
           => history[n].mark <= pub[Watchdog].record.mark

(* What was published is behind: an end strictly, a stall at most level.   *)
Reached == \A n \in 1 .. counter :
  /\ history[n].kind = "end" => history[n].mark < progress[history[n].id]
  /\ history[n].kind = "stall" => history[n].mark <= progress[history[n].id]

(* Every line that cannot be parsed is being written.  Once that is false  *)
(* it is false for good: who writes after a torn line spoils it, and a     *)
(* journal that cannot be read is not compacted.                           *)
Sound == \A i \in 1 .. Len(journal) : journal[i] = 0 =>
           i = Len(journal) /\ \E w \in Writers : pub[w].pc = "torn"

(* What is about to get a number does not have one yet.                    *)
NotYet ==
  \A w \in Writers :
    /\ pub[w].pc \in Before /\ pub[w].record.kind # "note"
    /\ pub[w].record.kind = "stall" => Sound
    => \A n \in 1 .. counter : history[n] # pub[w].record

(* A stall published at the present mark of an active Agent is remembered, *)
(* or will be when the watchdog is through with it.                        *)
Active(a) == status[a] = "working" \/ pub[a].pc # "idle"

Remembered ==
  up = "running" /\ Sound =>
    \A n \in 1 .. counter :
      /\ history[n].kind = "stall" /\ history[n].mark = progress[history[n].id]
      /\ Active(history[n].id)
      => /\ idle[history[n].id]
         /\ \/ notified[history[n].id] = progress[history[n].id]
            \/ pub[Watchdog].pc \in Holding /\ pub[Watchdog].record = history[n]

Once ==
  \A i, j \in 1 .. counter :
    /\ history[i] = history[j]
    /\ history[i].kind # "note" /\ (history[i].kind = "stall" => Sound)
    => i = j

Types == PubOK /\ JournalOK /\ AgentsOK

Inv == /\ Types /\ LockHeld /\ OwnNotices /\ OwnStalls /\ Reached /\ NotYet
       /\ Remembered /\ Once

-----------------------------------------------------------------------------
(* The watchdog is none of the runs.                                       *)
LEMMA WriterApart ==
  /\ Watchdog \in Writers /\ Nobody \notin Writers
  /\ \A a \in Agents : a \in Writers /\ a # Watchdog
  /\ \A w \in Writers : w \in Agents \/ w = Watchdog
BY InboxAssumption DEF Writers, Nobody

(* A notice of an Agent, and none, can be what a writer publishes.            *)
LEMMA SomeRecords ==
  /\ <<>> \in Some
  /\ \A kind \in Kind, a \in Agents, n \in Nat : [kind |-> kind, id |-> a, mark |-> n] \in Some
  /\ \A kind \in Kind, a \in Agents, n \in Nat : [kind |-> kind, id |-> a, mark |-> n] \in Record
BY DEF Some, Record

(* The next number is given to the record, and the others keep theirs.     *)
LEMMA Numbered ==
  ASSUME JournalOK, NEW e, history' = Append(history, e), counter' = counter + 1
  PROVE  /\ history'[counter'] = e
         /\ \A n \in 1 .. counter' : n # counter' => n \in 1 .. counter /\ history'[n] = history[n]
BY DEF JournalOK

LEMMA HistoryType == ASSUME JournalOK, NEW n \in 1 .. counter
                     PROVE  history[n] \in Record /\ history[n].id \in Agents
                            /\ history[n].mark \in Nat /\ history[n].kind \in Kind
<1>1. history[n] \in Record
  BY ElementOfSeq DEF JournalOK
<1> QED
  BY <1>1 DEF Record

(* The last line rewritten, and the journal compacted.                      *)
LEMMA LastLine ==
  ASSUME NEW s \in Seq(Nat), NEW n \in Nat
  PROVE  /\ [s EXCEPT ![Len(s)] = n] \in Seq(Nat)
         /\ Len([s EXCEPT ![Len(s)] = n]) = Len(s)
         /\ \A i \in 1 .. Len(s) : [s EXCEPT ![Len(s)] = n][i] = IF i = Len(s) THEN n ELSE s[i]
<1> DEFINE t == [i \in 1 .. Len(s) |-> IF i = Len(s) THEN n ELSE s[i]]
<1>1. s = [i \in 1 .. Len(s) |-> s[i]] /\ Len(s) \in Nat
      /\ \A i \in 1 .. Len(s) : s[i] \in Nat
  BY LenProperties, ElementOfSeq
<1>2. [s EXCEPT ![Len(s)] = n] = t
  BY <1>1
<1>3. t \in Seq(Nat) /\ Len(t) = Len(s)
  BY <1>1, IsASeq
<1> QED
  BY <1>2, <1>3

LEMMA CompactedLines ==
  ASSUME JournalOK
  PROVE  /\ Compacted \in Seq(Nat)
         /\ Readable => \A i \in 1 .. Len(Compacted) : Compacted[i] # 0
<1> DEFINE from == IF Len(journal) > Keep THEN Len(journal) - Keep + 1 ELSE 1
           kept == SubSeq(journal, from, Len(journal))
<1>1. journal \in Seq(Nat) /\ Keep \in Nat \ {0} /\ from \in 1 .. Len(journal) + 1
  BY InboxAssumption DEF JournalOK
<1>2. kept \in Seq(Nat) /\ Len(kept) \in 0 .. Len(journal)
      /\ \A i \in 1 .. Len(kept) : from + i - 1 \in 1 .. Len(journal)
                                  /\ kept[i] = journal[from + i - 1]
  BY <1>1
<1>3. Visible = Reverse(kept)
  BY DEF Visible, Newest
<1> HIDE DEF kept
<1>4. Compacted = kept
  <2> DEFINE n == Len(kept)
             back == [i \in 1 .. n |-> kept[n - i + 1]]
  <2>1. n \in Nat /\ kept = [i \in 1 .. n |-> kept[i]] /\ \A i \in 1 .. n : kept[i] \in Nat
    BY <1>2, LenProperties, ElementOfSeq
  <2>2. Visible = back
    BY <1>3 DEF Reverse
  <2>3. \A i \in 1 .. n : n - i + 1 \in 1 .. n
    BY <2>1
  <2>4. back \in Seq(Nat) /\ Len(back) = n
    BY <2>1, <2>3, IsASeq
  <2>5. Compacted = [i \in 1 .. n |-> back[n - i + 1]]
    BY <2>2, <2>4 DEF Compacted, Reverse
  <2>6. \A i \in 1 .. n : back[n - i + 1] = kept[i]
    BY <2>1, <2>3
  <2> QED
    BY <2>1, <2>5, <2>6
<1> QED
  BY <1>1, <1>2, <1>4 DEF Readable

-----------------------------------------------------------------------------
(* One lemma per action.                                                   *)

LEMMA CountInv == ASSUME Inv, NEW w \in Writers, Count(w) PROVE Inv'
<1> USE DEF Inv, Types
<1>s. /\ pub[w].pc = "want" /\ lock = Nobody /\ lock' = w /\ counter' = counter + 1
      /\ history' = Append(history, pub[w].record)
      /\ pub'[w].pc = "line" /\ pub'[w].seq = counter + 1 /\ pub'[w].record = pub[w].record
      /\ \A u \in Writers : u # w => pub'[u] = pub[u]
      /\ UNCHANGED <<up, journal, status, progress, idle, notified>>
  BY DEF Count, LockFree, PubOK, Pub, agents
<1>r. pub[w].record \in Record
  BY <1>s, WriterApart DEF OwnNotices, OwnStalls
<1>n. /\ history'[counter'] = pub[w].record
      /\ \A n \in 1 .. counter' : n # counter' => n \in 1 .. counter /\ history'[n] = history[n]
  BY <1>s, Numbered
<1>d. Sound' => Sound
  BY <1>s, WriterApart DEF Sound
<1>1. PubOK'
  <2>1. pub' = [pub EXCEPT ![w] = [pc |-> "line", seq |-> counter + 1, record |-> pub[w].record]]
    BY DEF Count, PubOK, Pub
  <2>2. [pc |-> "line", seq |-> counter + 1, record |-> pub[w].record] \in Pub
    BY <1>r DEF Pub, Holding, Some, JournalOK
  <2> QED
    BY <2>1, <2>2 DEF PubOK
<1>2. JournalOK'
  BY <1>s, <1>r DEF JournalOK
<1>3. AgentsOK'
  BY <1>s DEF AgentsOK
<1>4. LockHeld'
  BY <1>s, WriterApart DEF LockHeld, Holding, JournalOK
<1>5. OwnNotices'
  BY <1>s, WriterApart DEF OwnNotices
<1>6. OwnStalls'
  <2>1. CASE w = Watchdog
    BY <1>s, <1>n, <2>1, HistoryType DEF OwnStalls, JournalOK, Record
  <2>2. CASE w # Watchdog
    <3>1. pub[w].record.kind # "stall"
      BY <1>s, <2>2, WriterApart DEF OwnNotices
    <3>2. pub'[Watchdog] = pub[Watchdog]
      BY <1>s, <2>2, WriterApart
    <3> QED
      BY <1>s, <1>n, <3>1, <3>2 DEF OwnStalls
  <2> QED
    BY <2>1, <2>2
<1>7. Reached'
  <2>1. /\ pub[w].record.kind = "end" => pub[w].record.mark < progress[pub[w].record.id]
        /\ pub[w].record.kind = "stall" => pub[w].record.mark <= progress[pub[w].record.id]
    BY <1>s, WriterApart DEF OwnNotices, OwnStalls
  <2> QED
    BY <1>s, <1>n, <2>1 DEF Reached
<1>8. NotYet'
  <2> SUFFICES ASSUME NEW u \in Writers, pub'[u].pc \in Before, pub'[u].record.kind # "note",
                      pub'[u].record.kind = "stall" => Sound', NEW n \in 1 .. counter'
               PROVE  history'[n] # pub'[u].record
    BY DEF NotYet
  <2>1. u # w /\ pub'[u] = pub[u]
    BY <1>s DEF Before
  <2>2. pub[u].record # pub[w].record
    BY <1>s, <2>1, WriterApart DEF OwnNotices, OwnStalls, Before
  <2> QED
    BY <1>n, <1>d, <2>1, <2>2 DEF NotYet
<1>9. Remembered'
  <2> SUFFICES ASSUME up = "running", Sound, NEW n \in 1 .. counter', history'[n].kind = "stall",
                      history'[n].mark = progress[history'[n].id], Active(history[n].id)'
               PROVE  /\ idle[history'[n].id]
                      /\ \/ notified[history'[n].id] = progress[history'[n].id]
                         \/ pub'[Watchdog].pc \in Holding /\ pub'[Watchdog].record = history'[n]
    BY <1>s, <1>d DEF Remembered
  <2>1. CASE n = counter'
    <3>1. w = Watchdog
      BY <1>s, <1>n, <2>1, WriterApart DEF OwnNotices
    <3> QED
      BY <1>s, <1>n, <2>1, <3>1 DEF OwnStalls, Holding
  <2>2. CASE n # counter'
    <3>1. n \in 1 .. counter /\ history'[n] = history[n] /\ history[n].id \in Agents
      BY <1>n, <2>2, HistoryType
    <3>2. Active(history[n].id)
      BY <1>s, <3>1, WriterApart DEF Active
    <3>3. /\ idle[history[n].id]
          /\ \/ notified[history[n].id] = progress[history[n].id]
             \/ pub[Watchdog].pc \in Holding /\ pub[Watchdog].record = history[n]
      BY <3>1, <3>2 DEF Remembered
    <3> QED
      BY <1>s, <3>1, <3>3, WriterApart DEF Holding
  <2> QED
    BY <2>1, <2>2
<1>10. Once'
  <2>1. pub[w].record.kind # "note" /\ (pub[w].record.kind = "stall" => Sound)
           => \A n \in 1 .. counter : history[n] # pub[w].record
    BY <1>s DEF NotYet, Before
  <2> QED
    BY <1>n, <1>d, <2>1 DEF Once
<1> QED
  BY <1>1, <1>2, <1>3, <1>4, <1>5, <1>6, <1>7, <1>8, <1>9, <1>10

LEMMA WriteSomeInv == ASSUME Inv, NEW w \in Writers, WriteSome(w) PROVE Inv'
<1> USE DEF Inv, Types
<1>s. /\ pub[w].pc = "line"
      /\ pub'[w].pc = (IF tail = "whole" THEN "torn" ELSE "bare")
      /\ pub'[w].seq = pub[w].seq /\ pub'[w].record = pub[w].record
      /\ \A u \in Writers : u # w => pub'[u] = pub[u]
      /\ journal' = IF tail = "whole" THEN Append(journal, 0)
                                    ELSE [journal EXCEPT ![Len(journal)] = 0]
      /\ UNCHANGED <<up, lock, counter, history, status, progress, idle, notified>>
  BY DEF WriteSome, Goto, PubOK, Pub, agents
<1>d. Sound' => Sound
  <2>1. CASE tail = "whole"
    BY <1>s, <2>1, AppendProperties DEF Sound, JournalOK
  <2>2. CASE tail # "whole"
    <3>1. \A u \in Writers : pub'[u].pc # "torn"
      BY <1>s, <2>2 DEF LockHeld, Holding
    <3>2. journal = <<>> \/ ~Sound'
      BY <1>s, <2>2, <3>1, LastLine DEF Sound, JournalOK
    <3> QED
      BY <3>2 DEF Sound
  <2> QED
    BY <2>1, <2>2
<1>1. PubOK'
  BY DEF WriteSome, Goto, PubOK, Pub, Holding, Before
<1>2. JournalOK'
  <2>1. CASE tail = "whole"
    BY <1>s, <2>1, AppendProperties DEF JournalOK
  <2>2. CASE tail # "whole"
    BY <1>s, <2>2, LastLine DEF JournalOK
  <2> QED
    BY <2>1, <2>2
<1>3. AgentsOK'
  BY <1>s DEF AgentsOK
<1>4. LockHeld'
  BY <1>s DEF LockHeld, Holding
<1>5. OwnNotices'
  BY <1>s, WriterApart DEF OwnNotices, Record
<1>6. OwnStalls'
  BY <1>s, WriterApart DEF OwnStalls, Record
<1>7. Reached'
  BY <1>s DEF Reached
<1>8. NotYet'
  BY <1>s, <1>d, WriterApart DEF NotYet, Before, OwnNotices, OwnStalls
<1>9. Remembered'
  BY <1>s, <1>d, WriterApart, HistoryType DEF Remembered, Active, Holding
<1>10. Once'
  BY <1>s, <1>d DEF Once
<1> QED
  BY <1>1, <1>2, <1>3, <1>4, <1>5, <1>6, <1>7, <1>8, <1>9, <1>10

LEMMA WriteRestInv == ASSUME Inv, NEW w \in Writers, WriteRest(w) PROVE Inv'
<1> USE DEF Inv, Types
<1>s. /\ pub[w].pc = "torn"
      /\ pub'[w].pc = "bare" /\ pub'[w].seq = pub[w].seq /\ pub'[w].record = pub[w].record
      /\ \A u \in Writers : u # w => pub'[u] = pub[u]
      /\ journal' = [journal EXCEPT ![Len(journal)] = pub[w].seq]
      /\ UNCHANGED <<up, lock, counter, history, status, progress, idle, notified>>
  BY DEF WriteRest, Goto, PubOK, Pub, agents
<1>d. Sound' => Sound
  <2>1. pub[w].seq \in Nat
    BY DEF PubOK, Pub
  <2> QED
    BY <1>s, <2>1, LastLine DEF Sound, JournalOK
<1>1. PubOK'
  BY DEF WriteRest, Goto, PubOK, Pub, Holding, Before
<1>2. JournalOK'
  <2>1. pub[w].seq \in Nat
    BY DEF PubOK, Pub
  <2> QED
    BY <1>s, <2>1, LastLine DEF JournalOK
<1>3. AgentsOK'
  BY <1>s DEF AgentsOK
<1>4. LockHeld'
  BY <1>s DEF LockHeld, Holding
<1>5. OwnNotices'
  BY <1>s, WriterApart DEF OwnNotices, Record
<1>6. OwnStalls'
  BY <1>s, WriterApart DEF OwnStalls, Record
<1>7. Reached'
  BY <1>s DEF Reached
<1>8. NotYet'
  BY <1>s, <1>d, WriterApart DEF NotYet, Before, OwnNotices, OwnStalls
<1>9. Remembered'
  BY <1>s, <1>d, WriterApart, HistoryType DEF Remembered, Active, Holding
<1>10. Once'
  BY <1>s, <1>d DEF Once
<1> QED
  BY <1>1, <1>2, <1>3, <1>4, <1>5, <1>6, <1>7, <1>8, <1>9, <1>10

LEMMA WriteNewlineInv == ASSUME Inv, NEW w \in Writers, WriteNewline(w) PROVE Inv'
<1> USE DEF Inv, Types
<1>s. /\ pub[w].pc = "bare"
      /\ pub'[w].pc = "whole" /\ pub'[w].seq = pub[w].seq /\ pub'[w].record = pub[w].record
      /\ \A u \in Writers : u # w => pub'[u] = pub[u]
      /\ journal' = journal
      /\ UNCHANGED <<up, lock, counter, history, status, progress, idle, notified>>
  BY DEF WriteNewline, Goto, PubOK, Pub, agents
<1>d. Sound' => Sound
  BY <1>s, WriterApart DEF Sound
<1>1. PubOK'
  BY DEF WriteNewline, Goto, PubOK, Pub, Holding, Before
<1>2. JournalOK'
  BY <1>s DEF JournalOK
<1>3. AgentsOK'
  BY <1>s DEF AgentsOK
<1>4. LockHeld'
  BY <1>s DEF LockHeld, Holding
<1>5. OwnNotices'
  BY <1>s, WriterApart DEF OwnNotices, Record
<1>6. OwnStalls'
  BY <1>s, WriterApart DEF OwnStalls, Record
<1>7. Reached'
  BY <1>s DEF Reached
<1>8. NotYet'
  BY <1>s, <1>d, WriterApart DEF NotYet, Before, OwnNotices, OwnStalls
<1>9. Remembered'
  BY <1>s, <1>d, WriterApart, HistoryType DEF Remembered, Active, Holding
<1>10. Once'
  BY <1>s, <1>d DEF Once
<1> QED
  BY <1>1, <1>2, <1>3, <1>4, <1>5, <1>6, <1>7, <1>8, <1>9, <1>10

LEMMA FinishInv == ASSUME Inv, NEW w \in Writers, Finish(w) PROVE Inv'
<1> USE DEF Inv, Types
<1>s. /\ pub[w].pc = "whole" /\ lock' = Nobody
      /\ pub'[w].pc = "idle" /\ \A u \in Writers : u # w => pub'[u] = pub[u]
      /\ journal' = journal \/ (Readable /\ journal' = Compacted)
      /\ UNCHANGED <<up, counter, history, status, progress, idle>>
  BY DEF Finish, PubOK, NoPub
<1>c. Sound => Readable
  BY <1>s DEF Sound, Readable, LockHeld, Holding
<1>d. Sound' => Sound
  <2>1. CASE journal' = journal
    BY <1>s, <2>1 DEF Sound
  <2>2. CASE Readable
    BY <2>2 DEF Sound, Readable
  <2> QED
    BY <1>s, <2>1, <2>2
<1>1. PubOK'
  BY SomeRecords DEF Finish, NoPub, PubOK, Pub, Holding, Before
<1>2. JournalOK'
  BY <1>s, CompactedLines DEF JournalOK
<1>3. AgentsOK'
  <2>1. w = Watchdog => pub[w].record.mark \in Nat
    BY <1>s DEF OwnStalls, Record
  <2> QED
    BY <1>s, <2>1 DEF AgentsOK, Finish, Remember
<1>4. LockHeld'
  BY <1>s DEF LockHeld, Holding
<1>5. OwnNotices'
  BY <1>s, WriterApart DEF OwnNotices, Record
<1>6. OwnStalls'
  BY <1>s, WriterApart DEF OwnStalls, Record
<1>7. Reached'
  BY <1>s DEF Reached
<1>8. NotYet'
  BY <1>s, <1>d, WriterApart DEF NotYet, Before, OwnNotices, OwnStalls
<1>9. Remembered'
  <2> SUFFICES ASSUME up = "running", Sound, NEW n \in 1 .. counter, history[n].kind = "stall",
                      history[n].mark = progress[history[n].id], Active(history[n].id)'
               PROVE  /\ idle[history[n].id]
                      /\ \/ notified'[history[n].id] = progress[history[n].id]
                         \/ pub'[Watchdog].pc \in Holding /\ pub'[Watchdog].record = history[n]
    BY <1>s, <1>d DEF Remembered
  <2>1. history[n].id \in Agents /\ history[n].mark \in Nat
    BY HistoryType
  <2>2. Active(history[n].id)
    BY <1>s, <2>1, WriterApart DEF Active
  <2>3. /\ idle[history[n].id]
        /\ \/ notified[history[n].id] = progress[history[n].id]
           \/ pub[Watchdog].pc \in Holding /\ pub[Watchdog].record = history[n]
    BY <2>2 DEF Remembered
  <2>4. CASE w # Watchdog
    BY <1>s, <2>3, <2>4, WriterApart DEF Finish, Remember
  <2>5. CASE w = Watchdog
    <3> DEFINE told == pub[w].record
    <3>1. told \in Record /\ told.mark <= progress[told.id]
          /\ (history[n].id = told.id => history[n].mark <= told.mark)
      BY <1>s, <2>5 DEF OwnStalls
    <3>2. told.id \in Agents /\ told.mark \in Nat /\ progress[told.id] \in Nat
      BY <3>1 DEF Record, AgentsOK
    <3>3. notified' = [notified EXCEPT ![told.id] = told.mark]
      BY <1>c, <2>5 DEF Finish, Remember
    <3>4. history[n].id = told.id => notified'[told.id] = progress[told.id]
      BY <2>1, <3>1, <3>2, <3>3 DEF AgentsOK
    <3>5. history[n].id # told.id => notified'[history[n].id] = notified[history[n].id]
      BY <2>1, <3>2, <3>3 DEF AgentsOK
    <3> QED
      BY <2>3, <2>5, <3>4, <3>5
  <2> QED
    BY <2>4, <2>5
<1>10. Once'
  BY <1>s, <1>d DEF Once
<1> QED
  BY <1>1, <1>2, <1>3, <1>4, <1>5, <1>6, <1>7, <1>8, <1>9, <1>10

LEMMA ResumeInv == ASSUME Inv, NEW a \in Agents, Resume(a) PROVE Inv'
<1> USE DEF Inv, Types
<1>s. /\ status' = [status EXCEPT ![a] = "working"]
      /\ progress' = [progress EXCEPT ![a] = @ + 1] /\ idle' = [idle EXCEPT ![a] = FALSE]
      /\ UNCHANGED <<pub, up, lock, counter, journal, history, notified>>
  BY DEF Resume, disk
<1>p. /\ progress[a] \in Nat /\ progress'[a] = progress[a] + 1 /\ idle'[a] = FALSE
      /\ \A q \in Agents : q # a => progress'[q] = progress[q] /\ idle'[q] = idle[q]
      /\ \A q \in Agents : progress[q] \in Nat
  BY <1>s DEF AgentsOK
<1>d. Sound' => Sound
  BY <1>s, WriterApart DEF Sound
<1>1. PubOK'
  BY <1>s DEF PubOK
<1>2. JournalOK'
  BY <1>s DEF JournalOK
<1>3. AgentsOK'
  BY <1>s DEF AgentsOK
<1>4. LockHeld'
  BY <1>s DEF LockHeld, Holding
<1>5. OwnNotices'
  BY <1>s, WriterApart, <1>p, HistoryType DEF OwnNotices, Record
<1>6. OwnStalls'
  BY <1>s, WriterApart, <1>p, HistoryType DEF OwnStalls, Record
<1>7. Reached'
  BY <1>s, <1>p, HistoryType DEF Reached
<1>8. NotYet'
  BY <1>s, <1>d, WriterApart DEF NotYet, Before, OwnNotices, OwnStalls
<1>9. Remembered'
  <2> SUFFICES ASSUME up = "running", Sound, NEW n \in 1 .. counter, history[n].kind = "stall",
                      history[n].mark = progress'[history[n].id], Active(history[n].id)'
               PROVE  /\ idle'[history[n].id]
                      /\ \/ notified[history[n].id] = progress'[history[n].id]
                         \/ pub'[Watchdog].pc \in Holding /\ pub'[Watchdog].record = history[n]
    BY <1>s, <1>d DEF Remembered
  <2>1. history[n].id \in Agents \ {a}
    BY <1>p, HistoryType DEF Reached
  <2>2. Active(history[n].id) /\ pub'[Watchdog] = pub[Watchdog]
    BY <1>s, <2>1, WriterApart DEF Active
  <2> QED
    BY <1>p, <2>1, <2>2 DEF Remembered
<1>10. Once'
  BY <1>s, <1>d DEF Once
<1> QED
  BY <1>1, <1>2, <1>3, <1>4, <1>5, <1>6, <1>7, <1>8, <1>9, <1>10

LEMMA AdvanceInv == ASSUME Inv, NEW a \in Agents, Advance(a) PROVE Inv'
<1> USE DEF Inv, Types
<1>s. /\ status[a] = "working" /\ status' = status
      /\ progress' = [progress EXCEPT ![a] = @ + 1] /\ idle' = [idle EXCEPT ![a] = FALSE]
      /\ UNCHANGED <<pub, up, lock, counter, journal, history, notified>>
  BY DEF Advance, disk
<1>p. /\ progress[a] \in Nat /\ progress'[a] = progress[a] + 1 /\ idle'[a] = FALSE
      /\ \A q \in Agents : q # a => progress'[q] = progress[q] /\ idle'[q] = idle[q]
      /\ \A q \in Agents : progress[q] \in Nat
  BY <1>s DEF AgentsOK
<1>d. Sound' => Sound
  BY <1>s, WriterApart DEF Sound
<1>1. PubOK'
  BY <1>s DEF PubOK
<1>2. JournalOK'
  BY <1>s DEF JournalOK
<1>3. AgentsOK'
  BY <1>s DEF AgentsOK
<1>4. LockHeld'
  BY <1>s DEF LockHeld, Holding
<1>5. OwnNotices'
  BY <1>s, WriterApart, <1>p, HistoryType DEF OwnNotices, Record
<1>6. OwnStalls'
  BY <1>s, WriterApart, <1>p, HistoryType DEF OwnStalls, Record
<1>7. Reached'
  BY <1>s, <1>p, HistoryType DEF Reached
<1>8. NotYet'
  BY <1>s, <1>d, WriterApart DEF NotYet, Before, OwnNotices, OwnStalls
<1>9. Remembered'
  <2> SUFFICES ASSUME up = "running", Sound, NEW n \in 1 .. counter, history[n].kind = "stall",
                      history[n].mark = progress'[history[n].id], Active(history[n].id)'
               PROVE  /\ idle'[history[n].id]
                      /\ \/ notified[history[n].id] = progress'[history[n].id]
                         \/ pub'[Watchdog].pc \in Holding /\ pub'[Watchdog].record = history[n]
    BY <1>s, <1>d DEF Remembered
  <2>1. history[n].id \in Agents \ {a}
    BY <1>p, HistoryType DEF Reached
  <2>2. Active(history[n].id) /\ pub'[Watchdog] = pub[Watchdog]
    BY <1>s, <2>1, WriterApart DEF Active
  <2> QED
    BY <1>p, <2>1, <2>2 DEF Remembered
<1>10. Once'
  BY <1>s, <1>d DEF Once
<1> QED
  BY <1>1, <1>2, <1>3, <1>4, <1>5, <1>6, <1>7, <1>8, <1>9, <1>10

LEMMA LifecycleInv == ASSUME Inv, NEW a \in Agents, Lifecycle(a) PROVE Inv'
<1> USE DEF Inv, Types
<1>s. /\ pub[a].pc = "event"
      /\ progress' = [progress EXCEPT ![a] = @ + 1] /\ idle' = [idle EXCEPT ![a] = FALSE]
      /\ pub'[a].pc = "want" /\ pub'[a].seq = pub[a].seq /\ pub'[a].record = pub[a].record
      /\ \A u \in Writers : u # a => pub'[u] = pub[u]
      /\ UNCHANGED <<up, lock, counter, journal, history, status, notified>>
  BY WriterApart DEF Lifecycle, Goto, PubOK, Pub, disk
<1>p. /\ progress[a] \in Nat /\ progress'[a] = progress[a] + 1 /\ idle'[a] = FALSE
      /\ \A q \in Agents : q # a => progress'[q] = progress[q] /\ idle'[q] = idle[q]
      /\ \A q \in Agents : progress[q] \in Nat
  BY <1>s DEF AgentsOK
<1>d. Sound' => Sound
  BY <1>s, WriterApart DEF Sound
<1>1. PubOK'
  BY WriterApart DEF Lifecycle, Goto, PubOK, Pub, Holding, Before
<1>2. JournalOK'
  BY <1>s DEF JournalOK
<1>3. AgentsOK'
  BY <1>s DEF AgentsOK
<1>4. LockHeld'
  BY <1>s DEF LockHeld, Holding
<1>5. OwnNotices'
  BY <1>s, WriterApart, <1>p, HistoryType DEF OwnNotices, Record
<1>6. OwnStalls'
  BY <1>s, WriterApart, <1>p, HistoryType DEF OwnStalls, Record
<1>7. Reached'
  BY <1>s, <1>p, HistoryType DEF Reached
<1>8. NotYet'
  BY <1>s, <1>d, WriterApart DEF NotYet, Before, OwnNotices, OwnStalls
<1>9. Remembered'
  <2> SUFFICES ASSUME up = "running", Sound, NEW n \in 1 .. counter, history[n].kind = "stall",
                      history[n].mark = progress'[history[n].id], Active(history[n].id)'
               PROVE  /\ idle'[history[n].id]
                      /\ \/ notified[history[n].id] = progress'[history[n].id]
                         \/ pub'[Watchdog].pc \in Holding /\ pub'[Watchdog].record = history[n]
    BY <1>s, <1>d DEF Remembered
  <2>1. history[n].id \in Agents \ {a}
    BY <1>p, HistoryType DEF Reached
  <2>2. Active(history[n].id) /\ pub'[Watchdog] = pub[Watchdog]
    BY <1>s, <2>1, WriterApart DEF Active
  <2> QED
    BY <1>p, <2>1, <2>2 DEF Remembered
<1>10. Once'
  BY <1>s, <1>d DEF Once
<1> QED
  BY <1>1, <1>2, <1>3, <1>4, <1>5, <1>6, <1>7, <1>8, <1>9, <1>10

LEMMA NotifyInv == ASSUME Inv, NEW a \in Agents, Notify(a) PROVE Inv'
<1> USE DEF Inv, Types
<1>s. /\ pub[a].pc = "idle" /\ status[a] = "working"
      /\ pub'[a].pc = "want" /\ pub'[a].record = [kind |-> "note", id |-> a, mark |-> progress[a]]
      /\ \A u \in Writers : u # a => pub'[u] = pub[u]
      /\ UNCHANGED <<up, lock, counter, journal, history, status, progress, idle, notified>>
  BY WriterApart DEF Notify, Begin, Idle, PubOK, disk, agents
<1>m. [kind |-> "note", id |-> a, mark |-> progress[a]] \in Record
  BY SomeRecords DEF AgentsOK, Kind
<1>d. Sound' => Sound
  BY <1>s, WriterApart DEF Sound
<1>1. PubOK'
  BY SomeRecords, WriterApart DEF Notify, Begin, PubOK, Pub, Holding, Before, AgentsOK, Kind
<1>2. JournalOK'
  BY <1>s DEF JournalOK
<1>3. AgentsOK'
  BY <1>s DEF AgentsOK
<1>4. LockHeld'
  BY <1>s DEF LockHeld, Holding
<1>5. OwnNotices'
  BY <1>s, WriterApart, <1>m DEF OwnNotices, Record
<1>6. OwnStalls'
  BY <1>s, WriterApart, <1>m DEF OwnStalls, Record
<1>7. Reached'
  BY <1>s, <1>m DEF Reached
<1>8. NotYet'
  BY <1>s, <1>d, WriterApart DEF NotYet, Before, OwnNotices, OwnStalls
<1>9. Remembered'
  BY <1>s, <1>d, WriterApart, HistoryType, <1>m DEF Remembered, Active, Holding
<1>10. Once'
  BY <1>s, <1>d DEF Once
<1> QED
  BY <1>1, <1>2, <1>3, <1>4, <1>5, <1>6, <1>7, <1>8, <1>9, <1>10

LEMMA EndInv == ASSUME Inv, NEW a \in Agents, End(a) PROVE Inv'
<1> USE DEF Inv, Types
<1>s. /\ pub[a].pc = "idle" /\ status[a] = "working" /\ status' = [status EXCEPT ![a] = "ended"]
      /\ pub'[a].pc = "event" /\ pub'[a].record = [kind |-> "end", id |-> a, mark |-> progress[a]]
      /\ \A u \in Writers : u # a => pub'[u] = pub[u]
      /\ UNCHANGED <<up, lock, counter, journal, history, progress, idle, notified>>
  BY WriterApart DEF End, Begin, Idle, PubOK, disk
<1>m. [kind |-> "end", id |-> a, mark |-> progress[a]] \in Record
  BY SomeRecords DEF AgentsOK, Kind
<1>d. Sound' => Sound
  BY <1>s, WriterApart DEF Sound
<1>1. PubOK'
  BY SomeRecords, WriterApart DEF End, Begin, PubOK, Pub, Holding, Before, AgentsOK, Kind
<1>2. JournalOK'
  BY <1>s DEF JournalOK
<1>3. AgentsOK'
  BY <1>s DEF AgentsOK
<1>4. LockHeld'
  BY <1>s DEF LockHeld, Holding
<1>5. OwnNotices'
  BY <1>s, <1>m, WriterApart DEF OwnNotices, AgentsOK
<1>6. OwnStalls'
  BY <1>s, WriterApart DEF OwnStalls, Record
<1>7. Reached'
  BY <1>s DEF Reached
<1>8. NotYet'
  <2>1. \A n \in 1 .. counter : history[n] # [kind |-> "end", id |-> a, mark |-> progress[a]]
    BY DEF Reached, AgentsOK
  <2> QED
    BY <1>s, <1>d, <2>1, WriterApart DEF NotYet
<1>9. Remembered'
  BY <1>s, <1>d, WriterApart, HistoryType DEF Remembered, Active, Holding
<1>10. Once'
  BY <1>s, <1>d DEF Once
<1> QED
  BY <1>1, <1>2, <1>3, <1>4, <1>5, <1>6, <1>7, <1>8, <1>9, <1>10

LEMMA TimePassesInv == ASSUME Inv, NEW a \in Agents, TimePasses(a) PROVE Inv'
<1> USE DEF Inv, Types
<1>s. /\ idle' = [idle EXCEPT ![a] = TRUE]
      /\ UNCHANGED <<pub, up, lock, counter, journal, history, status, progress, notified>>
  BY DEF TimePasses, disk
<1>d. Sound' => Sound
  BY <1>s, WriterApart DEF Sound
<1>1. PubOK'
  BY <1>s DEF PubOK
<1>2. JournalOK'
  BY <1>s DEF JournalOK
<1>3. AgentsOK'
  BY <1>s DEF AgentsOK
<1>4. LockHeld'
  BY <1>s DEF LockHeld, Holding
<1>5. OwnNotices'
  BY <1>s, WriterApart DEF OwnNotices, Record
<1>6. OwnStalls'
  BY <1>s, WriterApart DEF OwnStalls, Record
<1>7. Reached'
  BY <1>s DEF Reached
<1>8. NotYet'
  BY <1>s, <1>d, WriterApart DEF NotYet, Before, OwnNotices, OwnStalls
<1>9. Remembered'
  BY <1>s, <1>d, WriterApart, HistoryType DEF Remembered, Active, Holding
<1>10. Once'
  BY <1>s, <1>d DEF Once
<1> QED
  BY <1>1, <1>2, <1>3, <1>4, <1>5, <1>6, <1>7, <1>8, <1>9, <1>10

LEMMA CheckStallInv == ASSUME Inv, NEW a \in Agents, CheckStall(a) PROVE Inv'
<1> USE DEF Inv, Types
<1>s. /\ up = "running" /\ Active(a) /\ pub[Watchdog].pc = "idle"
      /\ \/ /\ idle[a] /\ notified[a] # progress[a]
            /\ pub'[Watchdog].pc = "want"
            /\ pub'[Watchdog].record = [kind |-> "stall", id |-> a, mark |-> progress[a]]
            /\ \A u \in Writers : u # Watchdog => pub'[u] = pub[u]
            /\ notified' = notified
         \/ ~idle[a] /\ notified' = [notified EXCEPT ![a] = Never] /\ pub' = pub
      /\ UNCHANGED <<up, lock, counter, journal, history, status, progress, idle>>
  BY WriterApart DEF CheckStall, Idle, Active, Begin, Untold, PubOK, disk
<1>m. [kind |-> "stall", id |-> a, mark |-> progress[a]] \in Record
  BY SomeRecords DEF AgentsOK, Kind
<1>d. Sound' => Sound
  BY <1>s, WriterApart DEF Sound
<1>1. PubOK'
  <2>1. CASE pub' = pub
    BY <2>1 DEF PubOK
  <2>2. CASE Begin(Watchdog, "want", "stall", a, progress[a])
    BY <2>2, SomeRecords, WriterApart DEF Begin, PubOK, Pub, Before, AgentsOK, Kind
  <2> QED
    BY <2>1, <2>2 DEF CheckStall
<1>2. JournalOK'
  BY <1>s DEF JournalOK
<1>3. AgentsOK'
  BY <1>s, InboxAssumption DEF AgentsOK, Never
<1>4. LockHeld'
  BY <1>s DEF LockHeld, Holding
<1>5. OwnNotices'
  BY <1>s, WriterApart, <1>m DEF OwnNotices, Record
<1>6. OwnStalls'
  BY <1>s, <1>m, HistoryType DEF OwnStalls, Reached, AgentsOK, Record
<1>7. Reached'
  BY <1>s, <1>m DEF Reached
<1>8. NotYet'
  <2>1. CASE pub' = pub
    BY <1>s, <1>d, <2>1 DEF NotYet
  <2>2. CASE pub' # pub
    <3>1. Sound => \A n \in 1 .. counter : history[n] # [kind |-> "stall", id |-> a, mark |-> progress[a]]
      BY <1>s, <2>2 DEF Remembered, Holding
    <3> QED
      BY <1>s, <1>d, <2>2, <3>1 DEF NotYet
  <2> QED
    BY <2>1, <2>2
<1>9. Remembered'
  <2> SUFFICES ASSUME Sound, NEW n \in 1 .. counter, history[n].kind = "stall",
                      history[n].mark = progress[history[n].id], Active(history[n].id)'
               PROVE  idle[history[n].id] /\ notified'[history[n].id] = progress[history[n].id]
    BY <1>s, <1>d DEF Remembered
  <2>1. history[n].id \in Agents
    BY HistoryType
  <2>2. Active(history[n].id)
    BY <1>s, <2>1, WriterApart DEF Active
  <2>3. idle[history[n].id] /\ notified[history[n].id] = progress[history[n].id]
    BY <1>s, <2>2 DEF Remembered, Holding
  <2> QED
    BY <1>s, <2>1, <2>3 DEF AgentsOK
<1>10. Once'
  BY <1>s, <1>d DEF Once
<1> QED
  BY <1>1, <1>2, <1>3, <1>4, <1>5, <1>6, <1>7, <1>8, <1>9, <1>10

LEMMA CrashInv == ASSUME Inv, Crash PROVE Inv'
<1> USE DEF Inv, Types
<1>s. /\ up' = "down" /\ \A w \in Writers : pub'[w].pc = "idle"
      /\ UNCHANGED <<counter, journal, history, status, progress>>
  BY DEF Crash, NoPub, disk
<1>d. Sound' => Sound
  BY <1>s, WriterApart DEF Sound
<1>1. PubOK'
  BY SomeRecords DEF Crash, NoPub, PubOK, Pub
<1>2. JournalOK'
  BY <1>s DEF JournalOK
<1>3. AgentsOK'
  BY <1>s, InboxAssumption DEF AgentsOK, Never, Crash
<1>4. LockHeld'
  BY <1>s DEF LockHeld, Holding
<1>5. OwnNotices'
  BY <1>s, WriterApart DEF OwnNotices, Record
<1>6. OwnStalls'
  BY <1>s, WriterApart DEF OwnStalls, Record
<1>7. Reached'
  BY <1>s DEF Reached
<1>8. NotYet'
  BY <1>s, <1>d, WriterApart DEF NotYet, Before, OwnNotices, OwnStalls
<1>9. Remembered'
  BY <1>s DEF Remembered
<1>10. Once'
  BY <1>s, <1>d DEF Once
<1> QED
  BY <1>1, <1>2, <1>3, <1>4, <1>5, <1>6, <1>7, <1>8, <1>9, <1>10

LEMMA BootInv == ASSUME Inv, Boot PROVE Inv'
<1> USE DEF Inv, Types
<1>s. /\ up' = "booting"
      /\ UNCHANGED <<lock, pub, counter, journal, history, status, progress, idle, notified>>
  BY DEF Boot, disk, agents
<1>d. Sound' => Sound
  BY <1>s, WriterApart DEF Sound
<1>1. PubOK'
  BY <1>s DEF PubOK
<1>2. JournalOK'
  BY <1>s DEF JournalOK
<1>3. AgentsOK'
  BY <1>s DEF AgentsOK
<1>4. LockHeld'
  BY <1>s DEF LockHeld, Holding
<1>5. OwnNotices'
  BY <1>s, WriterApart DEF OwnNotices, Record
<1>6. OwnStalls'
  BY <1>s, WriterApart DEF OwnStalls, Record
<1>7. Reached'
  BY <1>s DEF Reached
<1>8. NotYet'
  BY <1>s, <1>d, WriterApart DEF NotYet, Before, OwnNotices, OwnStalls
<1>9. Remembered'
  BY <1>s, <1>d, WriterApart, HistoryType DEF Remembered, Active, Holding
<1>10. Once'
  BY <1>s, <1>d DEF Once
<1> QED
  BY <1>1, <1>2, <1>3, <1>4, <1>5, <1>6, <1>7, <1>8, <1>9, <1>10

LEMMA ServeInv == ASSUME Inv, Serve PROVE Inv'
<1> USE DEF Inv, Types
<1>s. /\ up' = "running"
      /\ \A a \in Agents : ~Active(a)
      /\ UNCHANGED <<lock, pub, counter, journal, history, status, progress, idle, notified>>
  BY DEF Serve, Idle, Active, disk, agents
<1>d. Sound' => Sound
  BY <1>s, WriterApart DEF Sound
<1>1. PubOK'
  BY <1>s DEF PubOK
<1>2. JournalOK'
  BY <1>s DEF JournalOK
<1>3. AgentsOK'
  BY <1>s DEF AgentsOK
<1>4. LockHeld'
  BY <1>s DEF LockHeld, Holding
<1>5. OwnNotices'
  BY <1>s, WriterApart DEF OwnNotices, Record
<1>6. OwnStalls'
  BY <1>s, WriterApart DEF OwnStalls, Record
<1>7. Reached'
  BY <1>s DEF Reached
<1>8. NotYet'
  BY <1>s, <1>d, WriterApart DEF NotYet, Before, OwnNotices, OwnStalls
<1>9. Remembered'
  BY <1>s, HistoryType DEF Remembered, Active
<1>10. Once'
  BY <1>s, <1>d DEF Once
<1> QED
  BY <1>1, <1>2, <1>3, <1>4, <1>5, <1>6, <1>7, <1>8, <1>9, <1>10

-----------------------------------------------------------------------------
(* The readers leave all of this alone.                                    *)
LEMMA ReadersInv ==
  ASSUME Inv, UNCHANGED <<up, lock, pub, counter, journal, tail, history, agents>>
  PROVE  Inv'
<1> USE DEF Inv, Types
<1>s. UNCHANGED <<up, lock, pub, counter, journal, tail, history, status, progress, idle, notified>>
  BY DEF agents
<1>1. PubOK' /\ JournalOK' /\ AgentsOK'
  BY <1>s DEF PubOK, JournalOK, AgentsOK
<1>2. Sound' <=> Sound
  BY <1>s DEF Sound
<1>3. LockHeld' /\ OwnNotices' /\ OwnStalls' /\ Reached'
  BY <1>s DEF LockHeld, OwnNotices, OwnStalls, Reached
<1>4. NotYet' /\ Remembered' /\ Once'
  BY <1>s, <1>2 DEF NotYet, Remembered, Active, Once
<1> QED
  BY <1>1, <1>3, <1>4

LEMMA InitInv == Init => Inv
<1> SUFFICES ASSUME Init PROVE Inv
  OBVIOUS
<1> USE DEF Init
<1>1. PubOK /\ JournalOK
  BY SomeRecords DEF PubOK, Pub, NoPub, JournalOK
<1>2. AgentsOK
  BY InboxAssumption DEF AgentsOK, Never
<1>3. LockHeld /\ OwnNotices /\ OwnStalls /\ NotYet
  BY WriterApart DEF LockHeld, OwnNotices, OwnStalls, NotYet, NoPub, Holding, Before
<1>4. Reached /\ Remembered /\ Once
  BY DEF Reached, Remembered, Once
<1> QED
  BY <1>1, <1>2, <1>3, <1>4 DEF Inv, Types

LEMMA NextInv == Inv /\ [Next]_vars => Inv'
<1> SUFFICES ASSUME Inv, [Next]_vars PROVE Inv'
  OBVIOUS
<1>1. ASSUME NEW w \in Writers, Publish(w) PROVE Inv'
  BY <1>1, CountInv, WriteSomeInv, WriteRestInv, WriteNewlineInv, FinishInv DEF Publish
<1>2. ASSUME NEW a \in Agents, Work(a) PROVE Inv'
  BY <1>2, ResumeInv, NotifyInv, EndInv, LifecycleInv, AdvanceInv, TimePassesInv, CheckStallInv
     DEF Work
<1>3. CASE Client
  <2>1. UNCHANGED <<up, lock, pub, counter, journal, tail, history, agents>>
    BY <1>3 DEF Client, Acknowledge, FollowBegin, FollowAck, FollowRead, PageRead, disk
  <2> QED
    BY <2>1, ReadersInv
<1>4. CASE Crash \/ Boot \/ Serve
  BY <1>4, CrashInv, BootInv, ServeInv
<1>5. CASE UNCHANGED vars
  BY <1>5, ReadersInv DEF vars, disk
<1> QED
  BY <1>1, <1>2, <1>3, <1>4, <1>5 DEF Next

(* The end of a run has one notice, whatever is lost and recovered, and so *)
(* has a stall for the progress made, as long as the journal can be read:  *)
(* mark_finished, mark_failed, recover_interrupted, maybe_publish_stall.   *)
THEOREM PublishesOnce == Spec => []PublishedOnce
<1>1. Inv => PublishedOnce
  BY DEF Inv, Once, PublishedOnce, Sound, Readable
<1> QED
  BY <1>1, InitInv, NextInv, PTL DEF Spec
=============================================================================
