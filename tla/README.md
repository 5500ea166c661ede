# Verification of subagent

subagent is a local daemon that runs language-model agents. A client (the CLI over a
Unix socket, or the web UI) spawns agents, sends them messages, stops, interrupts and
deletes them; each agent is driven by a worker task that talks to a model server and
executes tools. This directory holds a TLA+ model of the daemon's core, the TLC runs that
check it on small instances, and proofs, checked by TLAPS, that hold for every instance.

Paths such as `agent.rs` mean `src/src/agent.rs`; `protocol.md` is
`src/references/protocol.md`.

## 1. The system

| Component | State | Operations | Modelled by |
| --- | --- | --- | --- |
| Agent manager (`agent.rs`) | `active` (controls of registered runs), `stopping_agents`, owner locks, the `operations` mutex; per agent on disk: status, run number, pending messages | spawn, send/followup/message, cancel, stop, interrupt, delete, time, rename; worker task, finalizer task, scheduling pass, `stop_all` | `AgentManager` (time and rename left out) |
| Mutation gate (`agent.rs` 38-128) | `accepting`, the permit counter, a `Notify` | begin/track/drop a permit, begin shutdown, wait | `MutationGate` |
| Daemon process (`daemon.rs`, `config.rs`, `cli.rs`) | lock file, lifecycle file, socket, connections, shutdown channel | start, boot and recovery, accept loop, dispatch, drain, exit; a client's diagnosis | `DaemonLifecycle`; its phases also in `AgentManager` |
| Store: agents, messages (`store.rs`, `agent.rs`) | metadata, context, events and messages of each agent, one write lock | create, mutate, append, enqueue, deliver, cancel, delete, recover | `MessageDelivery` |
| Context compaction (`agent.rs`) | the context in memory and on disk | choose a boundary, replace the head by a summary | part of `MessageDelivery` |
| Notification journal, stall watchdog (`store.rs`, `agent.rs`) | sequence counter, journal, acknowledgement, `stall_notified` | append, page, follow, acknowledge, compact, check for stalls | `Inbox` |
| Side runs (`agent.rs`, `store.rs`) | `active_sides`, `stopping_sides`, side metadata | create, run, stop, delete (with or before the parent), shutdown, recover | `SideRuns` |
| Terminals (`tools.rs`) | the map of sessions of a run, processes | exec, write, terminate one or all | `Terminals`, composed into `SideRuns` |
| Model client (`model.rs`) | attempt counter | request, stream, retry | its outcomes only |
| File tools, web front end, request types, prompts | none shared, or read-only | | not modelled |

How they interact. A request takes a permit of the mutation gate, then calls the manager.
The manager changes an agent's record under the agent's *owner lock* (an async mutex, held
across awaits) and, where several agents are concerned, the *operations* mutex (blocking,
never held across an await). A run is a spawned task: it delivers pending messages, asks
the model, executes tools, and ends by itself, by a deadline, by an error or by the stop
signal; at its exit it unregisters, signals `completed`, and makes a *scheduling pass*
that resumes agents with pending follow-ups as capacity permits. Stop and interrupt are
finalizer tasks that outlive the request; each holds a permit of its own.

What is hard, component by component, and what makes it correct:

* **Manager.** Requests, workers, finalizers and passes interleave at every await; a
  status, a control or a listing read before an await may be stale after it. Correct when
  the registry matches the tasks, the capacity is kept, no agent is shown as working
  without someone to end it, a stop leaves nothing pending and nothing running, and no
  follow-up is forgotten.
* **Gate.** Correct when no request is cut off by the shutdown, none starts after it, and
  the waiter is always woken.
* **Daemon.** A crash may come anywhere, and so may a second start; correct when the next
  process finds only states it can continue from, when the one that serves keeps its files,
  and when a shutdown ends.
* **Messages.** Four files are written one after the other, against a stop that does not
  take the same mutex. Correct when every accepted message is shown to the model at most
  once and in order, is settled once, and the files agree after any crash.
* **Notifications.** Readers take no lock and see half-written lines and compactions.
  Correct when a follower or a client that pages sees each record once and skips none,
  and when the end of a run is published exactly once.
* **Sides.** A Side has its own worker and owner lock, finalizers of which several may be
  under way, and a parent whose deletion waits for all of them. Correct when none works with nobody to end it, none
  survives its parent, the first outcome stays, and deletion and shutdown end.
* **Terminals.** Termination takes half a second; whoever asked for it may be dropped
  meanwhile, and the leader of a group may be gone before the others. Correct when no
  process outlives its run, and no run has more live sessions than allowed.

`PROJECT.json` lists the hazards one by one, each at the line where it bites.

## 2. Modules

### AgentManager

One module for manager, workers, finalizers and the phases of the process, because their
interplay is what can go wrong. An action is a stretch of code between two awaits:
everything the code does under the blocking `operations` mutex, or between two `.await`s,
is one step. That granularity is where the interleavings of the program are.

| Variable | In the code |
| --- | --- |
| `daemon` | where `serve` is: booting, running, draining (connections, gate), stopall and stopallerr (`stop_all`, without and with an error so far), or how the last process ended |
| `status`, `run`, `pend` | `metadata.json` (status, run_number) and the pending records of `messages.json`; they survive a crash |
| `active`, `stopping` | `active` (the run number of each control) and `stopping_agents` |
| `locked` | owner locks held across an await; only finalizers do that |
| `pc`, `stop` | where the task of each run is, and its stop channel |
| `todo`, `idle` | what a scheduling pass has listed: the agents it has still to visit, and which of them were not working *when listed* |
| `fin` | finalizer tasks: kind, agent and the run whose control they took |
| `ids` | what `stop_all` has listed |

| Actions | Code |
| --- | --- |
| `Spawn`, `Enqueue`, `CancelMessage`, `Delete` | `agent.rs` 226-308, 310-430, 919-924, 1190-1236 |
| `StopRequest`; `InterruptRequest`, `InterruptMark` | 771-804; 850-879: interrupt checks and marks in two steps, because it does so without the mutex |
| `FinalReject`, `FinalSignal`, `FinalMark`, `FinalDone` | the finalizer, 805-838: not working any more; cancel and signal; record and unlock; worker completed |
| `Head`, `TurnTools` ... `EndRun`, `AnswerTooLarge` | the loop of `run_worker`, 1598-1773 |
| `Unregister`, `RecordFailure` | the end of the task, 745-763 |
| `Listing`, `PassOver`, `PassResume`, `PassSkip` | `schedule_pending`, 676-707, by an exiting worker or at boot |
| `BeginShutdown`, `Drained`, `StopAll...`, `ShutdownComplete` | `daemon.rs` 218-224 and 93-109, `stop_all` 1251-1307 |
| `Crash`, `Start` | loss of the process; `daemon.rs` 17-36 with `recover_interrupted` |

Abstractions, all of them of data: a message is its intent; a turn of the model is tool
calls, text, an empty completion or an error; all tool calls of a turn are one step; a
deadline may expire at any check; the flag that turns a second empty completion in a row
into an error is left to the choice between `TurnEmpty` and `TurnError`; compaction is
one more model request. (`MessageDelivery` has the calls, the flag and the compaction.)
Delivery of all pending messages of an agent is one step, and so
is their cancellation. Terminals can always be terminated and the disk does not fail.
Sides, names, `update_time`, telemetry and notifications are left out.

### AgentLifecycle

The abstract specification: what a client may rely on about status and run number. Only a
working agent ends, an ended one keeps its outcome until it is resumed or deleted, run
numbers go up by one per run, deletion is final. It permits a resume of a working agent,
because the code does that (section 4); everything else the table in `protocol.md` 156-168
says, it demands. `AgentManager` implements it under `life <- status, runs <- run`.

### MutationGate and DrainingGate

`MutationGate` has one action per atomic access of `begin_mutation`, the drop of a permit,
`track_internal_mutation` and `wait_for_mutations`. The waiter's `notified()` future
exists before it reads the counter and is woken by any later `notify_waiters`, hence
`woken`. `DrainingGate` is the promise without counter and wake-ups: clients enter only
while it is open, insiders may let finalizers in, and the shutdown goes on only when the
inside is empty. In `AgentManager` the gate appears as that promise: `Serving` while open
or draining, and `Drained` only when no request and no finalizer is in progress.

### MessageDelivery and MessageBox

The records of one agent and the worker that writes them. Where `AgentManager` has one
step, this module has the three writes of `deliver_pending_messages` (context, event,
message record), for each listed message, and the cancellations of a stop one by one.

| Variable | In the code |
| --- | --- |
| `working`, `run` | `metadata.json` |
| `messages`, `context`, `events` | `messages.json`, `context.json` (messages and `delivered_message_ids`), the `user_message` events of `events.jsonl` |
| `pc`, `mem`, `batch`, `turn`, `retried` | the worker: place, its copy of the context, the pending messages it has listed, the tool call it is at, `retried_empty_completion` |
| `signal`, `fin` | stop channel; the finalizer of a stop or interrupt, with the messages it has still to cancel |

`ListPending`, `SaveContext`, `AppendEvent`, `MarkDelivered` are `agent.rs` 1598-1603 and
1776-1801; `Compact` is 2042-2162; `Ask` to `TurnEmpty`, `ToolDone`, `Stopped` and `End`
are the loop 1604-1774; `FinBegin` to `FinDone` are `stop` and `interrupt`; `Send`,
`CancelMessage`, `Schedule` are the requests and the pass. There is one run at a time (the
overlap of two is `AgentManager`'s subject), sizes are left open (any safe boundary may be
the one nearest to 60 percent), and an answer of the model is its tool calls or a text.
`Snapshot` is `make_side_snapshot_valid` (1540-1563): what a Side that is created in a state
(`Unlocked`: `create_side` takes the owner lock and `operations`) inherits of the context.

`MessageBox` is the promise: a message is accepted, shown at most once and after all shown
before it, and settled once. Its comment on `Show` tells the one thing that surprises:
a message that a stop cancels while the worker is about to show it may be shown although
it ends as cancelled.

### Inbox

The journal of an installation. `pub` is where each writer is in
`append_notification_payload` (`store.rs` 1295-1369): counter (`Count`), the line in two
pieces and its newline (`WriteSome`, `WriteRest`, `WriteNewline`), the compaction
(`Finish`); `lock` is the store's write lock, which readers do not take. `Notify`, `End`,
`Lifecycle`, `Advance` are what a run does, and `Resume` starts the next; `CheckStall` is the watchdog with
`stall_notified`; `Acknowledge`, `FollowBegin`/`FollowAck`/`FollowRead` and `PageRead` are
the clients; `Crash`, `Boot`, `Serve` lose the process and recover. A line is its number,
0 when it cannot be parsed, which fails whoever reads it. `history` is a history variable:
what each number was given to. Left out: filters by agent and event type, offsets, and the
polling of `inbox wait` (its connection is in `DaemonLifecycle`).

### Terminals and SideRuns

`Terminals` has the operators of `TerminalManager` for a set of runs: `Exec` with the
limit, `Reap`, `LeaderExit`, `Terminate` (out of the map, TERM), `Kill` (500 ms later) and
`LoseTerminals` (`PR_SET_PDEATHSIG`). It declares variables and no `Next`: `SideRuns`
extends it and makes each operator part of an action. A process group is named after its
leader, the bash process (`alive`). A signal goes to the whole group, but to none of it once
the leader has been reaped (`signal_if_running`, 724-729): a leader that exits between TERM
and KILL leaves `killing`, and the other members of its group may run on as `orphans`. They
exist in the runs named by `Grouped` only. `dropped` is a history variable: the groups whose
termination was given up between TERM and KILL.

`SideRuns` has the worker of a Side (`run_side` 1348-1538 and the end of its task
1067-1090), `stop_side` (1113-1188), the deletion of the parent (1190-1236), the part of
`stop_all` for Sides (1251-1307) and recovery. A stop is the look at `stopping_sides` and
`active_sides` (`CanStop`), the mark (`FinMark`), and the finalizer (`FinCheck`, `FinRecord`,
`FinDone`). Nothing is held between look and mark, so `fin` has a place for each Side and
each caller (clients, the deletion, the shutdown), and `stopping` is the one mark they
share, which the first to end removes. `ShutError` decides like the code which error of a
stop counts: one of a Side that has ended by itself does not, one of a Side that was
deleted while it was still registered does. The parent does not work itself; contexts
and events of a Side are left out (what it inherits is `MessageDelivery`'s `Snapshot`).

### DaemonLifecycle

Processes that run `serve` (`daemon.rs` 17-110), one action per change of the disk; the
lock file with its creator and the pid in it (1008-1037); connections (112-181) by what
their requests mean for a shutdown: answered at once, `daemon stop`, waiting, or *deaf*,
which is a wait that subscribed after the signal; `Start` and `Diagnosis` are the command
line's (`cli.rs` 899-964, 1052-1109). `Die` may strike anywhere. A pid is never reused.
Any number of starts may be under way, before and after a daemon serves. `stolen` is a
history variable: a start has removed the lock file of a living process. `StopAll` is the
end of the wait for the gate and of `stop_all`, with or without an error, if it comes.

Model-checking modules (`MC...`) only extend the specification; the configurations give
the constants their values. `*_proofs` hold the theorems: those about `MessageDelivery` are
in `MessageDelivery_proofs` (the records) and `ToolCalls_proofs` (the context), those about
`Inbox` in `Inbox_proofs` (the writers) and `InboxReaders_proofs` (the readers).

## 3. What the runs check

| Run | Instance | Shows |
| --- | --- | --- |
| `manager_interleavings` | 2 agents, 2 runs each, 3 in all, 1 slot, 1 finalizer, follow-ups, shutdown, crash and restart | `TypeOK`, `NoZombie`, `CapacityKept`, `NothingForgotten`, `FollowsLifecycle` (3.2 million states) |
| `manager_finalizers` | 1 agent, 2 runs, 2 finalizers, messages and follow-ups, shutdown; with fairness | `Registered`, `NoLeak`, `LockExclusive`, `StopSettles`, `FinalizersEnd`, `ShutdownEnds` (280 thousand states) |
| `mutation_gate` | 3 clients, 1 finalizer; with fairness | `TypeOK`, `CounterExact`, `KeepsPromise`, `WaitEnds` |
| `message_delivery` | 2 messages, 3 runs, up to 2 tool calls per turn, contexts of up to 6 messages | `TypeOK`, `RecordsAgree`, `ResultsFollowCalls`, `SnapshotsComplete`, `StopLeavesNothing`, `KeepsOrder` (750 thousand states) |
| `inbox` | 1 Agent and the watchdog, a journal that keeps 2 records and is compacted at every second, pages of 1; with fairness | `TypeOK`, `FollowsAll`, `PagesAgree`, `PublishedOnce`, `EndIsPublished`, `FollowerCatchesUp` (345 thousand states) |
| `side_runs` | 2 Sides, one of them with a limit of 1 live session, 2 processes, and a client that stops it; deletion, shutdown, loss of the process; with fairness | `TypeOK`, `NoZombie`, `ShutdownIsClean`, `OneOutcome`, `StopIsComplete`, `FinalizersEnd` (580 thousand states) |
| `daemon_lifecycle` | 3 processes, started at any time, 2 connections; with fairness | `TypeOK`, `Exclusive`, `StoppedIsStopped`, `ShutdownEnds` (1.1 million states) |
| `double_resume`, `foreign_finish`, `stale_stop` | 1 or 2 agents, up to 3 runs | three disagreements of section 4 |
| `survivor` | 1 Side, 1 process with others in its group | the fourth |
| `overlapping_starts` | 2 processes, 1 connection | the fifth |

Bounds and why they are enough:

* `NAgents` = 2: one agent's exit schedules another; a third adds only more of the same.
  `MaxAgents` = 1 makes the two compete for the last slot, and has passes give up for want
  of one. In `manager_finalizers` `MaxAgents` = 2 leaves a slot for the run that follows one
  which has not unregistered yet.
* `MaxRuns` = 2 (3 for `double_resume`) and `MaxStarts`: a stale listing, control or exit
  needs an old run and a newer one; the double resume needs a run resumed twice. Both only
  disable starting a further run; a pass that cannot go on is not counted as quiet.
* `NFinals`: two finalizers of one agent exist only by the race in `interrupt`.
* `Intent`: a set per agent suffices, since nothing but "is some follow-up pending" and
  "is anything pending" is ever asked.
* `CanStop`, `CanCrash` switch shutdown and crash off where the question does not need
  them. Deadlock is not checked for the manager: a stopped instance whose bounds are
  used up, or with nobody sending requests, really rests. It is checked for the gate,
  where the shutdown may always be begun once more.

* `MaxMessages` = 2: order is a relation of two. `MaxRuns` = 3: a message may be cut off
  in two runs and delivered in the third. `MaxCalls` = 2 and `MaxLog` = 6 are the smallest
  with a turn of two calls behind a boundary and a message after it; they only disable
  further turns.
* `Keep` = `Batch` = 2 stand for 10 000 and 1 000: a compaction needs more records than it
  keeps and a number at which it is due; `MaxNotes` = 1 with a stall and the end give
  numbers up to 4 and so a compaction that drops records, and gaps after crashes.
  `MaxAck` = 2 reaches into the dropped ones. `Overlap` = FALSE keeps the next run of the
  Agent waiting until the end of the last is told; the theorems about `Inbox` need neither
  that nor the single Agent.
* Two Sides: one that ends by itself while the other is being stopped. `MaxTerminals` = 1
  below `MaxStarted` = 2 makes the limit bite, and lets a process be started while an
  earlier one is dropped. `Starters` and `Stoppable` keep the second Side without processes
  and clients; deletion and shutdown stop both. One client, with those two, makes
  three stops of one Side. `Grouped` is empty where no property speaks of the other members
  of a group.
* Three processes: one that holds or has left the files, and two that start over them. Two
  connections: one that stops the daemon and one in its way. The disagreement needs two
  processes and no connection.
* Deadlock is not checked for these modules either: a client need not ask for anything.

Every property has a mutant: a definition of the model changed as a plausible slip in the
code would change it (the run-number comparison of the exit dropped, the owner lock kept
while waiting for the worker, an early return that forgets `stopping_agents`, the capacity
off by one, no second look at `accepting`, ...), under which the same run fails.

Fairness (`FairSpec`). Tasks are polled by a multi-threaded runtime, so steps that wait
for nothing outside the process are weakly fair: finalizer steps, worker steps other than
the model's answers, passes, `stop_all`. A tool call returns, because its yield time is
bounded (`tools.rs` 331-361). Nothing is assumed of clients or of the model server.
`Drained` is strongly fair: permits held at the shutdown are finitely many, and each can
start only one more finalizer; this takes it that connections end (`daemon.rs` 93).
`ShutdownEnds` is conditional on a model server that keeps answering (`Answering`): a run
that a stale stop has missed (`stale_stop`) stays registered although its agent is no
longer working, `stop_all` refuses to signal it and lists it again until it ends by itself.
`FinalizersEnd` needs no such
condition. In the gate every held permit is eventually released; for finalizers that is
`FinalizersEnd`.

`Inbox`: a writer that waits for the write lock or holds it goes on (a mutex, no await
under it), and a follower polls four times a second. `EndIsPublished` therefore excludes
the loss of the process: recovery looks at working runs only. `FollowerCatchesUp` excludes
a follower that a torn line has ended. `SideRuns`: every task of the daemon goes on, but a
model or a tool may take for ever, unless the stop channel of its run has changed. That is
enough for `FinalizersEnd`, because whoever waits for a Side has signalled it first.
`DaemonLifecycle`: a daemon that shuts down goes on and a subscribed wait hears the
signal; a client need not send its request, and `stop_all` need not end (`StopAll` has no
fairness: whether it ends is `AgentManager`'s question, and the answer depends on
`Answering`). `ShutdownEnds` says that nothing but such a client, a deaf wait or `stop_all`
holds the shutdown up.

## 4. Disagreements found

* **`double_resume`.** `schedule_pending` decides by the status it listed before waiting
  for the owner lock (`agent.rs` 686-696). An agent resumed in between is resumed again
  while working; two workers then run on one context. `protocol.md` 168 resumes
  non-working agents only.
* **`foreign_finish`.** `mark_finished` compares no run numbers (`agent.rs` 2184): the late
  end of an interrupted run finishes the run that followed it. `protocol.md` 160.
* **`stale_stop`.** The finalizer of a stop uses the control it took before it waited for
  the owner lock (`agent.rs` 782, 809); a pass may have resumed the agent since. The stop
  then answers successfully although the current run was not signalled and goes on.
  `protocol.md` 352-354.
* **`survivor`.** A stop "sends TERM, waits about 500 ms, then sends KILL for each owned
  group" (`protocol.md` 355-356), and sessions "never survive" the agent (687-688). Before each
  signal `signal_if_running` looks whether the leader has been reaped (`tools.rs` 724-729) and
  sends nothing if so. When bash dies of the TERM, a member of its group that ignores TERM is
  never killed, and the stop reports success. There is a second way: a tool that terminates a
  session has taken it out of the map and waits 500 ms before it sends KILL (741-760); a stop
  drops it there, and `terminate_all` does not find the session any more. `NeverSurvive` says
  what the document says and excludes both; the run stops at the first, which needs
  one actor less. `StopIsComplete` and `ShutdownIsClean` say what is true all the same:
  no bash process runs on but one that was dropped.
* **`overlapping_starts`.** One daemon is supported per user (`protocol.md` 790), but nothing
  keeps two starts apart: `start_daemon` spawns a process whenever it cannot connect (`cli.rs`
  899-938), and `acquire_daemon_lock` creates the lock file before it writes its pid
  (`daemon.rs` 1008-1037). The other start reads no pid, takes the file for stale, removes it
  by name, creates its own, and both come to serve (the same happens when both find the
  stale file of a process that died). `Exclusive` and `StoppedIsStopped` hold as long as no
  start has removed the lock file of a living process.

What the models show besides, short of a contradiction that a run could be written for:

* A wait or follow that is dispatched after `daemon stop` was signalled is deaf
  (`daemon.rs` 125), and an idle connection is joined (93): each holds the shutdown up.
* The lifecycle file is written as starting before the lock is tried (`daemon.rs` 20). A
  start that is refused leaves its own pid in the record of the daemon that serves: a client
  that cannot connect just then is told `daemon_crashed` although nothing has crashed.
* Socket and lock are removed after a failed shutdown too (`daemon.rs` 102-108), where
  `protocol.md` 227-228 has them removed after success.
* A torn line, seen by a lock-free reader at the wrong moment, ends a follow with an error,
  and one left by a crash makes every later read and compaction of the journal fail. The
  watchdog takes a failed compaction for a failed notice and tells of the stall again;
  therefore `PublishedOnce` speaks of stalls only while the journal can be read.
* A crash between a transition and its notice loses the notice for good. A stall may be
  published for a run that has ended meanwhile.
* A number that a crash has skipped, when it is a multiple of 1 000, skips a compaction:
  follows and waits then see up to 10 999 records, pages the last 10 000.
* A Side that is about to record its failure has unregistered already: a shutdown that
  reports success may leave it working until the next start (`ShutdownIsClean` names it).
* An agent or a Side that is deleted while its task is still registered cannot be loaded when
  `stop_all` looks why its stop was refused (`agent.rs` 1276, 1284-1289): the shutdown is
  reported as failed although nothing is left to stop.
* Two stops of one Side may both pass the look at `stopping_sides`; the first to end removes
  the mark of the other. It does no harm: the owner lock lets one of them record the
  outcome, and the other reports a conflict.
* A stop cuts a turn: the next run inherits calls without results (`ResultsFollowCalls`
  says all of a first run and less of a later one). So may a Side, of any turn but the last.
* A Side that is created when the next run has gone on behind a cut turn loses more than that
  turn: `make_side_snapshot_valid` truncates at the last turn with calls (`agent.rs` 1541,
  1561), and the messages and answers behind it, which are no part of it, go as well, where
  `protocol.md` 526-527 drops a *trailing* turn. With the premise `run = 1` dropped,
  `SnapshotsComplete` is violated after one interrupt or crash and one follow-up. In a first
  run the cut turn is always trailing.

## 5. What is proved

All theorems hold for every value of the constants within their named assumptions: any
number of agents, runs, finalizers and clients, any limit. The assumptions are `NAgents`,
`MaxStarts`, `MaxAgents`, `NFinals` natural, `MaxRuns` positive, `Intent` a set of the two
intents, two Booleans; for the gate finitely many tasks, clients and finalizers apart; for
`SideRuns` natural limits and clients that are neither the deletion nor the shutdown; for
`DaemonLifecycle` that no process is called none.

`AgentManager_proofs`:

* `TypeCorrect`. `TypeOK` is inductive; finalizer records are typed exactly.
* `RegisteredAlways`. `Registered` is inductive given `TypeOK`: an entry of `active` is
  replaced only together with a new run number and removed only by its own run.
* `CapacityAlways`. Each step that registers a run has just seen a free slot; the
  cardinality argument is about `InUse` growing by at most the one agent.
* `LockExclusiveAlways`, `NoLeakAlways`. The invariant is `Locks`: the owner lock of an
  agent is held exactly while a finalizer of it is terminating its terminals
  (`LocksHeld`), one at most (`LockExclusive`), and marks and locks have an owner
  (`NoLeak`). None of the three is inductive alone.
* `StopSettlesAlways`, an action property, from `TypeOK` and `Locks`: every input needs
  the lock, which the finalizer holds from the cancellation to the record.
* `NoZombieAlways`. The strengthening `RunnerInv` adds `Fresh` (a run beyond the current
  number has no task) and `Signalled` (a stop flag is raised only on a run that started,
  and a signalled current run of a working agent has a finalizer that will record its
  end): without the last, a worker that obeys the signal would leave a working agent
  behind.
* `NothingForgottenAlways`. The invariant is `Promised`: while the daemon accepts requests and
  a follow-up waits on an agent that has ended and was not interrupted, some task has still to
  list the agents (`Lists`: a worker that will exit, or one at the start of its pass), or a
  pass under way has listed this one as not working and has still to visit it (`Visits`). It
  is kept because whoever brings such a state about provides the task: a run that ends makes
  a pass itself; an input that finds no free slot, and a pass that gives up for want of one,
  leave a registered run behind, which has its exit and a pass before it (`NoSlotLists`, from
  `Registered`); a stop leaves nothing pending on its agent (`Locks`).
* `Refinement`: initial states map to initial states; every step maps each agent to one of
  the lifecycle's transitions or leaves it alone. It needs `Listed` (a pass lists only
  spawned agents).

`MutationGate_proofs`: `TypeCorrect`, `Exact` and `Refinement` from the invariant `Inv`,
which adds `Safe`: the waiter starts only on a closed gate, and after its return no
request holds a permit. Here the counter is related to the cardinality of a set, by the
library's theorems on finite sets.

`MessageDelivery_proofs`, for any number of messages, runs, calls and any length of the
context. The invariant `Inv` adds to `TypeOK` and `RecordsAgree`:

* `Copied` (what is in memory and on disk name the same delivered messages),
  `Saved` and `Noted` (at the place of the second and third write, the first
  and second have been done for the oldest listed message),
* `Known` (only sent messages are shown), `BatchFirst` (what is pending and not listed is
  younger than what is listed) and `Ordered` (what is pending or listed has been shown, or
  is younger than all that has): without them a delivery repeated after a crash would not
  be seen to show nothing out of order,
* `Swept` (from its list on, a stop's finalizer has everything pending in hand).

`RecordsAlwaysAgree`, `StopSweeps` and `Implements` (the refinement of `MessageBox`)
follow.

`ToolCalls_proofs`, about the same instances: `ContextsWellFormed`, and from it
`ResultsAlwaysFollowCalls` and `SnapshotsAreComplete`. The invariant `LogInv` says of the
context in memory and of the saved one that each begins with the agent's system message and
has every result directly behind its call or behind the result before it (`WellFormed`); at
a tool call, that the context ends with a turn of as many calls and the results so far
(`InTurn`); and of a first run, that all calls are answered but those of the turn
under way (`FirstRunComplete`), on disk but those of a turn the context ends with
(`FirstRunSaved`). Every step does one of seven things to the contexts (`LogStep`: nothing,
leave, resume, push, shorten, begin a turn, answer a call); lemmas about pushing, cutting at a
safe boundary and taking a snapshot do the rest.

`SideRuns_proofs`, for any number of Sides, clients and processes, in three layers that are
inductive together (`Invariance`): `ControlInv` (registration, worker and finalizers fit
together: however many have been let in, one at most has found the Side working, by the
owner lock and by the record it makes before it gives the lock back),
`TerminalInv` (every bash process that runs is in the map, or being killed, or dropped) and
`ServiceInv` (the deletion or shutdown that waits for a Side has a finalizer or an answer
coming). From them `NeverZombie`, `FirstOutcomeStays`, `StopsCompletely` and
`ShutsDownClean`. The limit of live sessions is a part of `TypeInvariant`: a set that is below
it gains one element, or shrinks, by the library's theorems on finite sets.

`Inbox_proofs`, for any number of Agents and runs and any size of the journal:
`PublishesOnce`. The invariant says what each writer may be about to publish
(`OwnNotices`, `OwnStalls`), that it has no number yet (`NotYet`), and that what was
published lies behind: an end strictly, because its lifecycle event came first, a stall at
most level with the progress made (`Reached`). The hard part is the stall, which
`stall_notified` keeps from being told again only if the append reported no error
(`Remembered`). `Sound` says that every line that cannot be parsed is just being written.
While it holds no compaction fails; and once it fails, after a crash in the middle of a
line, it fails for good, so that a journal that can be read always was sound.

`InboxReaders_proofs`: `JournalInOrder`, and from it `InboxTypes`, `FollowersSeeAll` and
`PagesShowAll`. `ReaderInv` has a part about the journal (`Shared`: the lines that can be
parsed ascend, and neither a line nor the acknowledgement is above `Top`, the largest number
a line can have by now) and one for each kind of reader: what a follower has seen is in
order, above where it started and up to where it goes on, with nothing between left out that
is not acknowledged (`InOrder`, `NoneMissed`), and likewise for what the turned pages show
(`ItemsInOrder`, `NoneSkipped`). Readers hold no lock, so each part is shown to survive every
step of the writers (`Grown`: neither `Top` nor the acknowledgement goes back). A page is a
selection from the journal (`Selected`, a recursive function); what it selects and in which
order is proved by induction stated with a set of numbers (`NatInduct`, from the library's
`WFMin`), as the library's own induction rules take an operator.

`DaemonLifecycle_proofs`, for any number of processes that start at any time: `TypeInvariant`,
and `Invariance`, from which `ServesAlone` and `StoppedMeansStopped` follow. The invariant
speaks of the time before a lock file is stolen and says of each place of `serve` which files the
process owns: `LockOwned` (so that one process at most is past the lock), `SocketOwned`, and
`EndRecorded`, whom the lifecycle file can name as stopped. A start that finds the lock of a
living process with its pid in it is refused; one that removes it makes `stolen` true.

Only model-checked: liveness (`FinalizersEnd` and `ShutdownEnds` in two modules each,
`WaitEnds`, `EndIsPublished`, `FollowerCatchesUp`), which needs ENABLED and fairness and is out
of the proof system's reach. Every other property of the passing runs is stated by a
theorem.

The atomics of the gate are taken as sequentially consistent. The code's acquire and
release orderings on two variables are weaker on paper (each side writes one and then
reads the other); but `begin_mutation` writes by a read-modify-write, and between the
shutdown's store and the waiter's load lie channel and mutex operations, all of them full
fences on the x86-64 target the project ships.

## 6. Not modelled, and what is left

* The model client: one request is a sequential loop over attempts with nothing shared.
  What the others see of it are the outcomes of a turn, all of which the models have. That
  a stream without its end marker counts as a complete turn is a matter of that loop.
* File tools, request types, prompts, the browser code: no protocol state. The web server
  is a second front end to the same manager and gate.
* Of the store: local references, one-time conversions, list filters; sequential. The
  rewriting of the journal when corrupt records are purged.
* Of the agent manager: `update_time` and `rename`. Failing system calls (disk, kill,
  wait) are not modelled anywhere; a failure of `terminate_all` in a finalizer would leave
  a working agent without a task until the next start.
