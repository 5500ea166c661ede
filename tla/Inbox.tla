-------------------------------- MODULE Inbox --------------------------------
(***************************************************************************)
(* The notification journal of an installation (store.rs 1258-1620, daemon *)
(* follow and list) and those who write to it: Agents and Sides whose runs *)
(* notify and end, and the stall watchdog (agent.rs 145-219).              *)
(*                                                                         *)
(* Writers hold the store's write lock; readers hold nothing.  A record is *)
(* published in several writes: the sequence counter, atomically, then the *)
(* line, in pieces, then its newline, then sometimes a compaction; a       *)
(* reader, or a crash, comes between any two.                              *)
(*                                                                         *)
(* Abstractions.  A Side is an Agent that is not resumed; the notices of a *)
(* spawn and a resume are left out; an Agent's notices come one after the  *)
(* other, though its next run may start before the end of the last is told *)
(* (Overlap).  A line is its sequence number, 0 when it cannot be parsed;  *)
(* `history` remembers what was published under a number, and how far the  *)
(* Agent had come, its `mark`.  Time is the flag `idle`: the Agent has     *)
(* made no progress for stall_notification_seconds.  Readers change        *)
(* nothing, so one client at a time is enough.                             *)
(***************************************************************************)
EXTENDS Naturals, SequencesExt

CONSTANTS
  Agents,       \* Agents and Sides, which publish
  Watchdog,     \* the daemon's stall tick
  Keep,         \* records a compaction keeps (10 000)
  Batch,        \* records between two compactions (1 000)
  Limit,        \* records on a page of the inbox
  MaxNotes,     \* notices of the notify tool: a bound
  MaxProgress,  \* advances of an Agent's progress: a bound
  Overlap,      \* a run may start before the end of the last is told; FALSE: a bound
  MaxAck        \* the largest number acknowledged: a bound

ASSUME InboxAssumption ==
  /\ Watchdog \notin Agents
  /\ "nobody" \notin Agents \cup {Watchdog}
  /\ {Keep, Batch, Limit} \subseteq Nat \ {0}
  /\ {MaxNotes, MaxProgress, MaxAck} \subseteq Nat
  /\ Overlap \in BOOLEAN

VARIABLES
  up,         \* the daemon: down, booting (recovery) or running
  lock,       \* who holds the store's write lock
  pub,        \* per writer: what it publishes, and how far it got
  counter,    \* notification-sequence (disk)
  journal,    \* notifications.jsonl (disk), one number per line
  tail,       \* its last line: whole, torn, or bare of its newline
  ack,        \* notification-acknowledged-through (disk)
  history,    \* what each sequence number was given to
  status,     \* per Agent: metadata.status (disk)
  progress,   \* per Agent: advances of activity.last_progress_at
  idle,       \* per Agent: the threshold has passed since
  notified,   \* stall_notified: the progress a stall was published for
  follow,     \* a client that follows the inbox
  page        \* a client that pages through it

disk    == <<counter, journal, tail, ack, history>>
agents  == <<status, progress, idle, notified>>
readers == <<follow, page>>
vars    == <<up, lock, pub, disk, agents, readers>>

Writers  == Agents \cup {Watchdog}
Nobody   == "nobody"
Kind     == {"note", "stall", "end"}
Record   == [kind : Kind, id : Agents, mark : Nat]
NoPub    == [pc |-> "idle", seq |-> 0, record |-> <<>>]
NoFollow == [on |-> FALSE, start |-> 0, after |-> 0, min |-> 1, pc |-> "poll", ack |-> 0,
             seen |-> <<>>]
NoPage   == [on |-> FALSE, all |-> FALSE, top |-> 0, items |-> <<>>]
Never    == MaxProgress + 3

TypeOK ==
  /\ up \in {"down", "booting", "running"}
  /\ lock \in Writers \cup {Nobody}
  /\ \A w \in Writers : /\ pub[w].pc \in {"idle", "event", "want", "line", "torn", "bare", "whole"}
                        /\ pub[w].seq \in 0 .. counter
                        /\ pub[w].pc # "idle" => pub[w].record \in Record
  /\ counter \in Nat /\ ack \in 0 .. counter
  /\ journal \in Seq(0 .. counter)
  /\ tail \in {"whole", "torn", "bare"}
  /\ history \in Seq(Record) /\ Len(history) = counter
  /\ status \in [Agents -> {"working", "ended"}]
  /\ progress \in [Agents -> 0 .. MaxProgress + 2]
  /\ idle \in [Agents -> BOOLEAN]
  /\ notified \in [Agents -> 0 .. Never]
  /\ follow.on \in BOOLEAN /\ follow.seen \in Seq(1 .. counter)
  /\ page.on \in BOOLEAN /\ page.items \in Seq(1 .. counter)

-----------------------------------------------------------------------------
(* Reading.  One line that cannot be parsed fails the whole request.       *)

Readable == \A i \in 1 .. Len(journal) : journal[i] # 0

Priority(n) == CASE history[n].kind = "note"  -> 1
                 [] history[n].kind = "end"   -> 2
                 [] history[n].kind = "stall" -> 3

Elements(s) == {s[i] : i \in DOMAIN s}

(* The members of a sequence that belong to S, in their order.             *)
Selected(s, S) ==
  LET upTo[i \in 0 .. Len(s)] ==
        IF i = 0 THEN <<>>
        ELSE IF s[i] \in S THEN Append(upTo[i - 1], s[i]) ELSE upTo[i - 1]
  IN  upTo[Len(s)]

Newest(n, s) == SubSeq(s, IF Len(s) > n THEN Len(s) - n + 1 ELSE 1, Len(s))

(* list_notifications_page: the newest Keep lines, newest first.           *)
Visible == Reverse(Newest(Keep, journal))

(* A mutant of Compacted: the page is written back as it is.               *)
CompactedNewestFirst == Visible

(* compact_notifications_locked turns the page round again.                *)
Compacted == Reverse(Visible)

-----------------------------------------------------------------------------
(* Publishing: append_notification_payload, under the write lock.          *)

Begin(w, pc, kind, id, mark) ==
  pub' = [pub EXCEPT ![w] = [pc |-> pc, seq |-> 0,
                             record |-> [kind |-> kind, id |-> id, mark |-> mark]]]

Goto(w, pc) == pub' = [pub EXCEPT ![w].pc = pc]

(* A mutant of LockFree: a writer does not wait for the others.            *)
LockIgnored == TRUE

LockFree == lock = Nobody

(* next_sequence: the counter is replaced before the line is written.      *)
Count(w) ==
  /\ pub[w].pc = "want" /\ LockFree
  /\ lock' = w
  /\ counter' = counter + 1
  /\ history' = Append(history, pub[w].record)
  /\ pub' = [pub EXCEPT ![w] = [pc |-> "line", seq |-> counter + 1, record |-> @.record]]
  /\ UNCHANGED <<up, journal, tail, ack, agents, readers>>

(* The first piece: a new line, or more of one that a crash has cut.       *)
WriteSome(w) ==
  /\ pub[w].pc = "line"
  /\ journal' = IF tail = "whole" THEN Append(journal, 0)
                                  ELSE [journal EXCEPT ![Len(journal)] = 0]
  /\ tail' = "torn"
  /\ Goto(w, IF tail = "whole" THEN "torn" ELSE "bare")
  /\ UNCHANGED <<up, lock, counter, ack, history, agents, readers>>

(* The last piece makes a line that can be parsed.                         *)
WriteRest(w) ==
  /\ pub[w].pc = "torn"
  /\ journal' = [journal EXCEPT ![Len(journal)] = pub[w].seq]
  /\ tail' = "bare"
  /\ Goto(w, "bare")
  /\ UNCHANGED <<up, lock, counter, ack, history, agents, readers>>

WriteNewline(w) ==
  /\ pub[w].pc = "bare"
  /\ tail' = "whole"
  /\ Goto(w, "whole")
  /\ UNCHANGED <<up, lock, counter, journal, ack, history, agents, readers>>

(* The watchdog remembers what it has told; an error keeps it from that.   *)
Remember(w, ok) ==
  notified' = IF w = Watchdog /\ ok
              THEN [notified EXCEPT ![pub[w].record.id] = pub[w].record.mark]
              ELSE notified

CompactionDue(n) == n > Keep /\ n % Batch = 0

Finish(w) ==
  /\ pub[w].pc = "whole"
  /\ LET due == CompactionDue(pub[w].seq) IN
       /\ journal' = IF due /\ Readable THEN Compacted ELSE journal
       /\ Remember(w, due => Readable)
  /\ lock' = Nobody
  /\ pub' = [pub EXCEPT ![w] = NoPub]
  /\ UNCHANGED <<up, counter, tail, ack, history, status, progress, idle, readers>>

-----------------------------------------------------------------------------
(* Agents and the watchdog.                                                *)

Idle(w) == pub[w].pc = "idle"

Notes == Cardinality({n \in 1 .. counter : history[n].kind = "note"})

(* resume_pending: a follow-up starts the next run.                        *)
Resume(a) ==
  /\ up = "running" /\ status[a] = "ended" /\ progress[a] < MaxProgress
  /\ Overlap \/ Idle(a)
  /\ status' = [status EXCEPT ![a] = "working"]
  /\ progress' = [progress EXCEPT ![a] = @ + 1]
  /\ idle' = [idle EXCEPT ![a] = FALSE]
  /\ UNCHANGED <<up, lock, pub, disk, notified, readers>>

(* The notify tool.                                                        *)
Notify(a) ==
  /\ up = "running" /\ status[a] = "working" /\ Idle(a)
  /\ Notes < MaxNotes
  /\ Begin(a, "want", "note", a, progress[a])
  /\ UNCHANGED <<up, lock, disk, agents, readers>>

(* mark_finished, mark_stopped, mark_failed, recover_interrupted: first    *)
(* the transition, then the lifecycle event, which counts as progress,     *)
(* then the notice, each with the write lock taken anew.                   *)
End(a) ==
  /\ status[a] = "working" /\ Idle(a)
  /\ \/ up = "running"
     \/ up = "booting" /\ \A w \in Writers : Idle(w)
  /\ status' = [status EXCEPT ![a] = "ended"]
  /\ Begin(a, "event", "end", a, progress[a])
  /\ UNCHANGED <<up, lock, disk, progress, idle, notified, readers>>

(* A mutant of Lifecycle: nothing is published after the event.            *)
LifecycleOnly(a) ==
  /\ pub[a].pc = "event" /\ LockFree
  /\ progress' = [progress EXCEPT ![a] = @ + 1]
  /\ idle' = [idle EXCEPT ![a] = FALSE]
  /\ Goto(a, "idle")
  /\ UNCHANGED <<up, lock, disk, status, notified, readers>>

Lifecycle(a) ==
  /\ pub[a].pc = "event" /\ LockFree
  /\ progress' = [progress EXCEPT ![a] = @ + 1]
  /\ idle' = [idle EXCEPT ![a] = FALSE]
  /\ Goto(a, "want")
  /\ UNCHANGED <<up, lock, disk, status, notified, readers>>

Advance(a) ==
  /\ up = "running" /\ status[a] = "working" /\ progress[a] < MaxProgress
  /\ progress' = [progress EXCEPT ![a] = @ + 1]
  /\ idle' = [idle EXCEPT ![a] = FALSE]
  /\ UNCHANGED <<up, lock, pub, disk, status, notified, readers>>

TimePasses(a) ==
  /\ up = "running" /\ status[a] = "working" /\ ~idle[a]
  /\ idle' = [idle EXCEPT ![a] = TRUE]
  /\ UNCHANGED <<up, lock, pub, disk, status, progress, notified, readers>>

(* A mutant of Untold: what has been told is not looked up.                *)
UntoldAlways(a) == TRUE

Untold(a) == notified[a] # progress[a]

(* check_stalls, for one active Agent: it may go on, or end, before the    *)
(* notice has its line.  One that has gone on may be told of again.        *)
CheckStall(a) ==
  /\ up = "running" /\ Idle(Watchdog)
  /\ status[a] = "working" \/ ~Idle(a)
  /\ \/ /\ idle[a] /\ Untold(a)
        /\ Begin(Watchdog, "want", "stall", a, progress[a])
        /\ UNCHANGED notified
     \/ /\ ~idle[a] /\ notified[a] # Never
        /\ notified' = [notified EXCEPT ![a] = Never]
        /\ UNCHANGED pub
  /\ UNCHANGED <<up, lock, disk, status, progress, idle, readers>>

-----------------------------------------------------------------------------
(* Clients.                                                                *)

(* A mutant of InJournal: the number to come can be acknowledged.          *)
InJournalOrNext(n) == n <= counter + 1

InJournal(n) == n <= counter

Acknowledge(n) ==
  /\ up = "running" /\ lock = Nobody
  /\ InJournal(n) /\ n > ack
  /\ ack' = n
  /\ UNCHANGED <<up, lock, pub, counter, journal, tail, history, agents, readers>>

(* InboxFollow: after a given number, or after the watermark.              *)
FollowBegin(start, min) ==
  /\ up = "running" /\ follow = NoFollow /\ ~page.on
  /\ follow' = [NoFollow EXCEPT !.on = TRUE, !.start = start, !.after = start, !.min = min]
  /\ UNCHANGED <<up, lock, pub, disk, agents, page>>

(* notifications_after reads the watermark, and then the journal.          *)
FollowAck ==
  /\ follow.on /\ follow.pc = "poll"
  /\ follow' = [follow EXCEPT !.pc = "read", !.ack = ack]
  /\ UNCHANGED <<up, lock, pub, disk, agents, page>>

(* A mutant of Fresh: the next number is taken for one already seen.       *)
FreshButNext == Selected(journal, {n \in Elements(journal) :
  n > follow.after + 1 /\ n > follow.ack /\ Priority(n) >= follow.min})

Fresh == Selected(journal, {n \in Elements(journal) :
           n > follow.after /\ n > follow.ack /\ Priority(n) >= follow.min})

FollowRead ==
  /\ follow.on /\ follow.pc = "read"
  /\ follow' = IF Readable
               THEN [follow EXCEPT !.pc = "poll", !.ack = 0, !.seen = @ \o Fresh,
                                   !.after = IF Fresh = <<>> THEN @ ELSE Last(Fresh)]
               ELSE [follow EXCEPT !.on = FALSE]
  /\ UNCHANGED <<up, lock, pub, disk, agents, page>>

(* A mutant of Older: the record of the cursor comes again.                *)
OlderOrSame(n, cursor) == n <= cursor

Older(n, cursor) == n < cursor

(* list_notifications_page, from the newest or from a cursor.  The client  *)
(* asks again with the cursor of the page's last record.                   *)
OnPage(all, items) == Selected(Visible, {n \in Elements(Visible) :
  /\ all \/ n > ack
  /\ items # <<>> => Older(n, Last(items))})

PageRead(all) ==
  /\ up = "running" /\ ~follow.on
  /\ page.on => page.all = all
  /\ LET rest == OnPage(all, page.items) IN
       IF Readable /\ rest # <<>>
       THEN page' = [on |-> TRUE, all |-> all,
                     top |-> IF page.on THEN page.top ELSE Last(journal),
                     items |-> page.items \o SubSeq(rest, 1, IF Len(rest) < Limit
                                                             THEN Len(rest) ELSE Limit)]
       ELSE page' = NoPage
  /\ page' # page
  /\ UNCHANGED <<up, lock, pub, disk, agents, follow>>

-----------------------------------------------------------------------------
(* Loss of the process and recovery.                                       *)

Crash ==
  /\ up # "down"
  /\ up' = "down"
  /\ lock' = Nobody
  /\ pub' = [w \in Writers |-> NoPub]
  /\ idle' = [a \in Agents |-> FALSE]
  /\ notified' = [a \in Agents |-> Never]
  /\ follow' = NoFollow /\ page' = NoPage
  /\ UNCHANGED <<disk, status, progress>>

Boot ==
  /\ up = "down"
  /\ up' = "booting"
  /\ UNCHANGED <<lock, pub, disk, agents, readers>>

(* recover_interrupted has ended every run that was in progress.           *)
Serve ==
  /\ up = "booting"
  /\ \A a \in Agents : status[a] = "ended" /\ Idle(a)
  /\ up' = "running"
  /\ UNCHANGED <<lock, pub, disk, agents, readers>>

-----------------------------------------------------------------------------
Init ==
  /\ up = "running" /\ lock = Nobody
  /\ pub = [w \in Writers |-> NoPub]
  /\ counter = 0 /\ journal = <<>> /\ tail = "whole" /\ ack = 0 /\ history = <<>>
  /\ status = [a \in Agents |-> "working"]
  /\ progress = [a \in Agents |-> 0]
  /\ idle = [a \in Agents |-> FALSE]
  /\ notified = [a \in Agents |-> Never]
  /\ follow = NoFollow /\ page = NoPage

Publish(w) == Count(w) \/ WriteSome(w) \/ WriteRest(w) \/ WriteNewline(w) \/ Finish(w)

Work(a) == \/ Resume(a) \/ Notify(a) \/ End(a) \/ Lifecycle(a)
           \/ Advance(a) \/ TimePasses(a) \/ CheckStall(a)

Client ==
  \/ \E n \in 1 .. MaxAck : Acknowledge(n)
  \/ \E start \in {0, ack}, min \in {1, 2} : FollowBegin(start, min)
  \/ FollowAck \/ FollowRead
  \/ \E all \in BOOLEAN : PageRead(all)

Next ==
  \/ \E w \in Writers : Publish(w)
  \/ \E a \in Agents : Work(a)
  \/ Client
  \/ Crash \/ Boot \/ Serve

(* A writer that holds or waits for the write lock goes on, and a follower *)
(* polls four times a second.                                              *)
Fairness == /\ \A w \in Writers : WF_vars(Publish(w))
            /\ \A a \in Agents : WF_vars(Lifecycle(a))
            /\ WF_vars(FollowAck) /\ WF_vars(FollowRead)

Spec == Init /\ [][Next]_vars /\ Fairness

-----------------------------------------------------------------------------
(* Properties.                                                             *)

(* A follower sees each notice once and in the order of the numbers, and   *)
(* what lies between its first and its last one it has seen too, unless it *)
(* was acknowledged meanwhile: no notice gets a line after a later one,    *)
(* and no compaction turns the journal round.                              *)
FollowsAll ==
  follow.on =>
    /\ \A i, j \in 1 .. Len(follow.seen) : i < j => follow.seen[i] < follow.seen[j]
    /\ \A n \in Elements(journal) \ {0} :
         follow.start < n /\ n <= follow.after /\ Priority(n) >= follow.min
           => n \in Elements(follow.seen) \/ n <= ack

(* Pages read while notices are published, acknowledged and compacted show *)
(* each record once, newest first, and none is left out between the first  *)
(* and the last one shown, unless it was acknowledged meanwhile.           *)
PagesAgree ==
  page.on =>
    /\ \A i, j \in 1 .. Len(page.items) : i < j => page.items[i] > page.items[j]
    /\ \A n \in Elements(Visible) \ {0} :
         Last(page.items) <= n /\ n <= page.top
           => n \in Elements(page.items) \/ (~page.all /\ n <= ack)

(* The end of a run is published at most once, whether it ended by itself  *)
(* or in a recovery; a stall is published at most once for the progress    *)
(* made (maybe_publish_stall), as long as the journal can be read.         *)
PublishedOnce ==
  \A i, j \in 1 .. counter :
    /\ history[i] = history[j]
    /\ history[i].kind # "note" /\ (history[i].kind = "stall" => Readable)
    => i = j

Told(a, mark) == \E n \in 1 .. counter :
                   history[n] = [kind |-> "end", id |-> a, mark |-> mark]

(* A run that has ended is told of, unless the process is lost between the *)
(* transition and the notice: recovery looks at working Agents only.       *)
EndIsPublished ==
  \A a \in Agents, mark \in 0 .. MaxProgress + 1 :
    (pub[a].pc = "event" /\ pub[a].record.mark = mark) ~> (Told(a, mark) \/ up = "down")

(* A follower gets what is in the journal, unless the record is            *)
(* acknowledged or compacted first or a torn line ends the follower.       *)
FollowerCatchesUp ==
  \A n \in 1 .. 2 :
    (follow.on /\ n \in Elements(journal) /\ n > follow.start /\ Priority(n) >= follow.min)
      ~> (~follow.on \/ n \in Elements(follow.seen) \/ n <= ack \/ n \notin Elements(journal))
=============================================================================
