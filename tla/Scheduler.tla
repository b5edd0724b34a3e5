------------------------------ MODULE Scheduler ------------------------------
(***************************************************************************)
(* The scheduler actor of a session: its commands, the tasks it fires and  *)
(* expires, the two durability barriers of a removal (the resources file,  *)
(* then the acknowledged tombstone), the versions it stamps on transitions *)
(* and the writer that owns the resources file.  The process may crash at  *)
(* any step and start again from that file.                                *)
(*                                                                         *)
(* The actor is sequential: `at' is the await it is suspended in, and only *)
(* the writer, tool calls that save, the consumer and the clock run in     *)
(* between.                                                                *)
(*                                                                         *)
(* Abstractions: a task that is not past its TTL may be due at any time;   *)
(* a deadline or a failed write may hit whenever the code would notice it; *)
(* an acknowledged removal is appended to the session's history when it is *)
(* sent or never.  What a background fire does while it is suspended is    *)
(* module SchedulerLoop.  Created, announced and listed tasks only carry   *)
(* the current version and are left out, as are the one-shot receipts of   *)
(* the occurrence journal, which no caller uses yet, and sessions without  *)
(* a state path.                                                           *)
(***************************************************************************)
EXTENDS Naturals, Sequences, FiniteSets

CONSTANTS
    None,           \* Option::None
    Tasks,          \* task ids
    Recurring,      \* the recurring tasks; the others are one-shots
    Durable,        \* the durable tasks
    MaxTasks,       \* MAX_SCHEDULED_TASKS
    MaxRevision,    \* u64::MAX
    MaxGenerations, \* bound: generations started by a crash or a rollover
    MaxQueued       \* bound: snapshots on their way to the writer when one is added

ASSUME TasksAssumption ==
    IsFiniteSet(Tasks) /\ None \notin Tasks /\ Recurring \subseteq Tasks /\ Durable \subseteq Tasks
ASSUME BoundsAssumption ==
    /\ MaxTasks \in Nat \ {0} /\ MaxRevision \in Nat \ {0, 1} /\ MaxRevision >= MaxTasks
    /\ MaxGenerations \in Nat \ {0} /\ MaxQueued \in Nat \ {0}

VARIABLES
    at,          \* "loop", the await the actor is suspended in, "stopped" or "down"
    busy,        \* the task an expiry or a fire is about, with its place in the list
    created,     \* ids handed out so far
    tasks,       \* SchedulerState.tasks
    expired,     \* created tasks whose expires_at has come
    blocked,     \* blocked_expiries
    pending,     \* pending_removal: its task
    reserved,    \* the reservation of pending_removal or of the suspended handler
    clock,       \* SchedulerClock.version
    generations, \* generations started so far
    targets,     \* an acknowledging notification target is open
    cancelled,   \* cancel_token
    queue,       \* ResourcesPersistence: commands on their way to the writer
    unsaved,     \* the writer's pending snapshot
    disk,        \* the resources file
    ack,         \* the acknowledgement the actor awaits
    tombstones   \* acknowledged removals appended to the session's history

taskVars  == <<created, tasks, expired, blocked>>
clockVars == <<reserved, clock, generations>>
fileVars  == <<queue, unsaved, disk, ack>>
hostVars  == <<targets, cancelled, tombstones>>
vars      == <<at, busy, created, tasks, expired, blocked, pending, reserved, clock, generations,
               targets, cancelled, queue, unsaved, disk, ack, tombstones>>

Versions  == [generation : 1..MaxGenerations, revision : 0..MaxRevision]
Snapshots == Seq(Tasks)      \* of the resources only the scheduler's tasks matter
Listed(s) == {s[i] : i \in DOMAIN s}
Idle      == [task |-> None, index |-> 0]

TypeOK ==
    /\ at \in {"loop", "complete", "delete_persist", "delete_publish", "expiry_persist",
               "expiry_publish", "plain_expiry", "firing", "stopped", "down"}
    /\ busy \in [task : Tasks \cup {None}, index : 0..MaxTasks]
    /\ created \subseteq Tasks
    /\ tasks \in Seq(Tasks) /\ Len(tasks) <= MaxTasks
    /\ expired \subseteq created \cap Recurring
    /\ blocked \subseteq Recurring \cap Durable
    /\ pending \in Tasks \cup {None}
    /\ reserved \in [source : Versions, version : Versions] \cup {None}
    /\ clock \in Versions /\ generations \in 1..MaxGenerations
    /\ targets \in BOOLEAN /\ cancelled \in BOOLEAN
    /\ queue \in Seq([snapshot : Snapshots, durable : BOOLEAN, heard : BOOLEAN])
    /\ unsaved \in Snapshots \cup {None} /\ disk \in Snapshots
    /\ ack \in {None, "waiting", "ok", "failed"}
    /\ tombstones \subseteq Tasks

Init ==
    /\ at = "loop" /\ busy = Idle /\ created = {}
    /\ tasks = <<>> /\ expired = {} /\ blocked = {}
    /\ pending = None /\ reserved = None
    /\ clock = [generation |-> 1, revision |-> 0] /\ generations = 1
    /\ targets = TRUE /\ cancelled = FALSE
    /\ queue = <<>> /\ unsaved = None /\ disk = <<>> /\ ack = None
    /\ tombstones = {}

----------------------------------------------------------------------------
\* SchedulerClock

\* prepare_transition: n versions, all of them in a fresh generation when the
\* revision would overflow.  The bound on generations guards its callers.
Overflows(n) == clock.revision + n > MaxRevision
MayReserve(n) == Overflows(n) => generations < MaxGenerations
Reservation(n) ==
    [source  |-> clock,
     version |-> IF Overflows(n) THEN [generation |-> generations + 1, revision |-> 1]
                 ELSE [clock EXCEPT !.revision = @ + 1]]
Started(n) == IF Overflows(n) THEN generations + 1 ELSE generations

\* prepare_transition(n), kept by the handler or by pending_removal
Reserve(n) ==
    /\ MayReserve(n)
    /\ reserved' = Reservation(n) /\ generations' = Started(n) /\ UNCHANGED clock

\* prepare_transition(n) and n times commit_next, with no await in between
Advance(n) ==
    /\ MayReserve(n)
    /\ clock' = [Reservation(n).version EXCEPT !.revision = @ + n - 1]
    /\ generations' = Started(n) /\ reserved' = None

\* commit_next of the kept reservation
Commit == clock' = reserved.version /\ reserved' = None /\ UNCHANGED generations
\* The kept reservation is dropped.
Forget == reserved' = None /\ UNCHANGED <<clock, generations>>

----------------------------------------------------------------------------
\* The list of tasks

\* Vec::remove and Vec::insert
Removed(i) == [j \in 1..(Len(tasks) - 1) |-> IF j < i THEN tasks[j] ELSE tasks[j + 1]]
Inserted(i, t) ==
    [j \in 1..(Len(tasks) + 1) |-> IF j < i THEN tasks[j] ELSE IF j = i THEN t ELSE tasks[j - 1]]

Remove(i) == tasks' = Removed(i) /\ UNCHANGED <<created, expired, blocked>>

Room == Len(queue) < MaxQueued      \* the bound; the channel itself has none

\* enqueue_save_and_flush of the list as it is after this step
Enqueue ==
    /\ queue' = Append(queue, [snapshot |-> tasks', durable |-> TRUE, heard |-> TRUE])
    /\ ack' = "waiting" /\ UNCHANGED <<unsaved, disk>>
\* The await ends without the acknowledgement: whoever still writes is not heard.
Abandon ==
    /\ queue' = [i \in DOMAIN queue |-> [queue[i] EXCEPT !.heard = FALSE]]
    /\ ack' = None /\ UNCHANGED <<unsaved, disk>>
Heard == ack' = None /\ UNCHANGED <<queue, unsaved, disk>>

\* await_bounded: the deadline passes or the token is cancelled.  Cancelling is
\* noticed while waiting; so is the deadline, which needs no state of its own.
GivesUp == ack = "waiting"

Resume == at' = "loop" /\ busy' = Idle
Serving == at = "loop" /\ ~cancelled      \* the select is biased towards cancellation

----------------------------------------------------------------------------
\* Commands

MutCreate(t) ==
    /\ Serving
    /\ t \notin created /\ Len(tasks) < MaxTasks
    /\ MayReserve(1) /\ clock' = Reservation(1).version /\ generations' = Started(1)
    /\ tasks' = Append(tasks, t) /\ created' = created \cup {t}
    /\ UNCHANGED <<at, busy, expired, blocked, pending, reserved, fileVars, hostVars>>
MutCreateUnbounded(t) ==
    /\ Serving /\ pending = None
    /\ t \notin created
    /\ Advance(1)
    /\ tasks' = Append(tasks, t) /\ created' = created \cup {t}
    /\ UNCHANGED <<at, busy, expired, blocked, pending, fileVars, hostVars>>
\* SchedulerCommand::Create
Create(t) ==
    /\ Serving /\ pending = None
    /\ t \notin created /\ Len(tasks) < MaxTasks
    /\ Advance(1)
    /\ tasks' = Append(tasks, t) /\ created' = created \cup {t}
    /\ UNCHANGED <<at, busy, expired, blocked, pending, fileVars, hostVars>>

\* SchedulerCommand::Update: what it patches is left out, or module SchedulerLoop's
Update(t) ==
    /\ Serving /\ pending = None
    /\ t \in Listed(tasks)
    /\ Advance(1)
    /\ UNCHANGED <<at, busy, taskVars, pending, fileVars, hostVars>>

\* SchedulerCommand::Delete of a listed task
Delete(i) ==
    /\ Serving /\ pending = None
    /\ i \in DOMAIN tasks /\ targets /\ Room
    /\ Remove(i)
    /\ pending' = tasks[i] /\ Reserve(1)
    /\ at' = "complete"
    /\ UNCHANGED <<busy, fileVars, hostVars>>

\* SchedulerCommand::Delete of the task whose removal is pending
RetryDelete ==
    /\ Serving /\ pending # None /\ Room
    /\ at' = "complete"
    /\ UNCHANGED <<busy, taskVars, pending, clockVars, fileVars, hostVars>>

\* complete_pending_removal: no target is left to acknowledge the tombstone
RemovalUnavailable ==
    /\ at = "complete" /\ ~targets
    /\ pending' = None /\ Forget /\ Resume
    /\ UNCHANGED <<taskVars, fileVars, hostVars>>

\* complete_pending_removal: persist_resources
PersistRemoval ==
    /\ at = "complete" /\ targets
    /\ UNCHANGED <<busy, taskVars, pending, clockVars, hostVars>>
    /\ Enqueue
    /\ at' = "delete_persist"

MutRemovalNotPersisted ==
    /\ at = "delete_persist" /\ ack = "failed"
    /\ Heard
    /\ Resume
    /\ UNCHANGED <<taskVars, pending, clockVars, hostVars>>
\* ... fails, or its outcome is not known in time
RemovalNotPersisted ==
    /\ at = "delete_persist"
    /\ (ack = "failed" /\ Heard) \/ (GivesUp /\ Abandon)
    /\ Resume
    /\ UNCHANGED <<taskVars, pending, clockVars, hostVars>>

RemovalPersisted ==
    /\ at = "delete_persist" /\ ack = "ok"
    /\ Heard
    /\ at' = "delete_publish"
    /\ UNCHANGED <<busy, taskVars, pending, clockVars, hostVars>>

\* publish_durable_removal: the tombstone lands in the history or does not,
\* and the acknowledgement that it did arrives or does not.
Publish(t, landed) == tombstones' = IF landed THEN tombstones \cup {t} ELSE tombstones

RemovalAcknowledged ==
    /\ at = "delete_publish" /\ targets
    /\ Publish(pending, TRUE)
    /\ pending' = None /\ Commit /\ Resume
    /\ UNCHANGED <<taskVars, fileVars, targets, cancelled>>

RemovalNotAcknowledged(landed) ==
    /\ at = "delete_publish" /\ (landed => targets)
    /\ Publish(pending, landed)
    /\ Resume
    /\ UNCHANGED <<taskVars, pending, clockVars, fileVars, targets, cancelled>>

----------------------------------------------------------------------------
\* fire_next_task: the first listed task that wakes the actor, blocked ones apart.
\* Any task may, and those past their TTL always do.

Wakes(t) == t \in expired \ blocked
MayFire(i) ==
    /\ Serving /\ pending = None
    /\ i \in DOMAIN tasks /\ tasks[i] \notin blocked
    /\ \A j \in 1..(i - 1) : ~Wakes(tasks[j])

\* A durable task past its TTL with nobody to acknowledge its tombstone
BlockExpiry(i) ==
    /\ MayFire(i) /\ tasks[i] \in expired \cap Durable /\ ~targets
    /\ blocked' = blocked \cup {tasks[i]}
    /\ UNCHANGED <<at, busy, created, tasks, expired, pending, clockVars, fileVars, hostVars>>

ExpireDurable(i) ==
    /\ MayFire(i) /\ tasks[i] \in expired \cap Durable /\ targets /\ Room
    /\ Reserve(1)
    /\ Remove(i) /\ Enqueue
    /\ at' = "expiry_persist" /\ busy' = [task |-> tasks[i], index |-> i]
    /\ UNCHANGED <<pending, hostVars>>

ExpiryPersisted ==
    /\ at = "expiry_persist" /\ ack = "ok"
    /\ Heard
    /\ at' = "expiry_publish"
    /\ UNCHANGED <<busy, taskVars, pending, clockVars, hostVars>>

\* NotCommitted: the task goes back to its place, its expiry blocked.
ExpiryNotPersisted ==
    /\ at = "expiry_persist" /\ ack = "failed"
    /\ Heard
    /\ tasks' = Inserted(busy.index, busy.task)
    /\ blocked' = blocked \cup {busy.task}
    /\ Forget /\ Resume
    /\ UNCHANGED <<created, expired, pending, hostVars>>

\* Unknown: the task stays absent and nothing is published.
ExpiryUnknown ==
    /\ at = "expiry_persist" /\ GivesUp
    /\ Abandon /\ Forget /\ Resume
    /\ UNCHANGED <<taskVars, pending, hostVars>>

ExpiryAcknowledged ==
    /\ at = "expiry_publish" /\ targets
    /\ Publish(busy.task, TRUE)
    /\ Commit /\ Resume
    /\ UNCHANGED <<taskVars, pending, fileVars, targets, cancelled>>

ExpiryNotAcknowledged(landed) ==
    /\ at = "expiry_publish" /\ (landed => targets)
    /\ Publish(busy.task, landed)
    /\ Forget /\ Resume
    /\ UNCHANGED <<taskVars, pending, fileVars, targets, cancelled>>

\* A non-durable task past its TTL: its absence is persisted if that works out,
\* and the removal is announced either way.
ExpirePlain(i) ==
    /\ MayFire(i) /\ tasks[i] \in expired \ Durable /\ Room
    /\ Reserve(1)
    /\ Remove(i) /\ Enqueue
    /\ at' = "plain_expiry" /\ busy' = [task |-> tasks[i], index |-> i]
    /\ UNCHANGED <<pending, hostVars>>

PlainExpiryDone ==
    /\ at = "plain_expiry"
    /\ (ack # "waiting" /\ Heard) \/ (GivesUp /\ Abandon)
    /\ Commit /\ Resume
    /\ UNCHANGED <<taskVars, pending, hostVars>>

\* A one-shot fires and is removed, two transitions of one reservation.
FireOneShot(i) ==
    /\ MayFire(i) /\ tasks[i] \notin Recurring
    /\ Advance(2)
    /\ Remove(i)
    /\ UNCHANGED <<at, busy, pending, fileVars, hostVars>>

\* A recurring task fires: the cadence advances before the fire's own awaits.
FireRecurring(i) ==
    /\ MayFire(i) /\ tasks[i] \in Recurring \ expired
    /\ Reserve(1)
    /\ at' = "firing" /\ busy' = [task |-> tasks[i], index |-> i]
    /\ UNCHANGED <<taskVars, pending, fileVars, hostVars>>

Fired   == at = "firing" /\ Commit /\ Resume /\ UNCHANGED <<taskVars, pending, fileVars, hostVars>>
Skipped == at = "firing" /\ Forget /\ Resume /\ UNCHANGED <<taskVars, pending, fileVars, hostVars>>

\* run: the loop is left; the remaining tasks are announced as removed by shutdown.
Shutdown ==
    /\ at = "loop" /\ cancelled
    /\ IF tasks = <<>> THEN UNCHANGED clockVars ELSE Advance(Len(tasks))
    /\ at' = "stopped"
    /\ UNCHANGED <<busy, taskVars, pending, fileVars, hostVars>>

----------------------------------------------------------------------------
\* ResourcesPersistence: tool calls save, the writer loop writes

Up == at # "down"
ActorVars == <<at, busy, taskVars, pending, clockVars, hostVars>>

\* save(), at the end of every tool call
Save ==
    /\ Up /\ Room
    /\ queue' = Append(queue, [snapshot |-> tasks, durable |-> FALSE, heard |-> FALSE])
    /\ UNCHANGED <<unsaved, disk, ack, ActorVars>>

\* Command Save: the snapshot waits for the debounce tick.
WriterKeeps ==
    /\ Up /\ queue # <<>> /\ ~Head(queue).durable
    /\ unsaved' = Head(queue).snapshot
    /\ queue' = Tail(queue)
    /\ UNCHANGED <<disk, ack, ActorVars>>

MutWriterFlushes(written, reported) ==
    /\ Up /\ queue # <<>> /\ Head(queue).durable
    /\ reported => written
    /\ disk' = IF written THEN Head(queue).snapshot ELSE disk
    /\ ack' = IF Head(queue).heard THEN (IF reported THEN "ok" ELSE "failed") ELSE ack
    /\ queue' = Tail(queue)
    /\ UNCHANGED <<unsaved, ActorVars>>
\* Command SaveAndFlush: it replaces the waiting snapshot.  A write that fails
\* after the rename (syncing the directory) has replaced the file all the same.
WriterFlushes(written, reported) ==
    /\ Up /\ queue # <<>> /\ Head(queue).durable
    /\ reported => written
    /\ unsaved' = None
    /\ disk' = IF written THEN Head(queue).snapshot ELSE disk
    /\ ack' = IF Head(queue).heard THEN (IF reported THEN "ok" ELSE "failed") ELSE ack
    /\ queue' = Tail(queue)
    /\ UNCHANGED ActorVars

\* The debounce tick, Flush, and the last write once every handle is dropped
WriterSaves(written) ==
    /\ Up /\ unsaved # None
    /\ disk' = IF written THEN unsaved ELSE disk
    /\ unsaved' = None
    /\ UNCHANGED <<queue, ack, ActorVars>>

----------------------------------------------------------------------------
\* The clock on the wall, the consumer and the process

Expires(t) ==
    /\ t \in (created \cap Recurring) \ expired
    /\ expired' = expired \cup {t}
    /\ UNCHANGED <<at, busy, created, tasks, blocked, pending, clockVars, fileVars, hostVars>>

CloseTargets ==
    /\ Up /\ targets
    /\ targets' = FALSE
    /\ UNCHANGED <<at, busy, taskVars, pending, clockVars, fileVars, cancelled, tombstones>>

Cancel ==
    /\ Up /\ ~cancelled
    /\ cancelled' = TRUE
    /\ UNCHANGED <<at, busy, taskVars, pending, clockVars, fileVars, targets, tombstones>>

\* The process dies, or the stopped session is dropped: what is not in the file is lost.
Crash ==
    /\ Up /\ generations < MaxGenerations
    /\ at' = "down" /\ busy' = Idle
    /\ tasks' = <<>> /\ blocked' = {}
    /\ pending' = None /\ reserved' = None
    /\ queue' = <<>> /\ unsaved' = None /\ ack' = None
    /\ UNCHANGED <<created, expired, clock, generations, disk, hostVars>>

\* load() and a new actor
Restart ==
    /\ at = "down" /\ generations < MaxGenerations
    /\ at' = "loop" /\ tasks' = disk
    /\ generations' = generations + 1
    /\ clock' = [generation |-> generations + 1, revision |-> 0]
    /\ targets' = TRUE /\ cancelled' = FALSE
    /\ UNCHANGED <<busy, created, expired, blocked, pending, reserved, fileVars, tombstones>>

----------------------------------------------------------------------------
\* The rest of a handler the actor is suspended in
Continue ==
    \/ RemovalUnavailable \/ PersistRemoval \/ RemovalNotPersisted \/ RemovalPersisted
    \/ RemovalAcknowledged \/ ExpiryPersisted \/ ExpiryNotPersisted \/ ExpiryUnknown
    \/ ExpiryAcknowledged \/ PlainExpiryDone \/ Fired \/ Skipped
    \/ \E landed \in BOOLEAN : RemovalNotAcknowledged(landed) \/ ExpiryNotAcknowledged(landed)

Command ==
    \/ \E t \in Tasks : Create(t) \/ Update(t)
    \/ \E i \in DOMAIN tasks : Delete(i)
    \/ RetryDelete

Fire ==
    \E i \in DOMAIN tasks : \/ BlockExpiry(i) \/ ExpireDurable(i) \/ ExpirePlain(i)
                            \/ FireOneShot(i) \/ FireRecurring(i)

Writer ==
    \/ WriterKeeps
    \/ \E written, reported \in BOOLEAN : WriterFlushes(written, reported)
    \/ \E written \in BOOLEAN : WriterSaves(written)

Environment ==
    \/ Save \/ CloseTargets \/ Cancel \/ Crash \/ Restart
    \/ \E t \in Tasks : Expires(t)

Next == Continue \/ Command \/ Fire \/ Shutdown \/ Writer \/ Environment

Spec == Init /\ [][Next]_vars

\* The executor runs the actor; every await of it has a deadline, but for the mutex of
\* the session's resources, which its other users are taken to give back.
FairSpec == Spec /\ WF_vars(Continue)

----------------------------------------------------------------------------
\* Properties

\* A tombstone is published only behind the durability barrier, so a removal the
\* history records can never be undone: not by a snapshot that was still waiting
\* for the writer when the file was replaced, and not by a restart from the file.
TombstoneIsFinal ==
    \A t \in tombstones :
        t \notin Listed(tasks) \cup Listed(disk)

\* commit_next asserts that the clock has not moved since the reservation was
\* made: no handler commits a transition while a removal waits to be retried.
\* And a version is stamped on one committed transition only, generations that
\* were exhausted or lost with the process included.
ClockIsSound ==
    /\ [](reserved # None => reserved.source = clock)
    /\ [][clock' # clock =>
            \/ clock'.generation > clock.generation
            \/ clock'.generation = clock.generation /\ clock'.revision > clock.revision]_vars

\* However the writer and the consumer behave, the actor returns to its loop: a
\* removal that cannot be made durable does not wedge the scheduler.
ActorReturns == at \notin {"loop", "stopped", "down"} ~> at \in {"loop", "down"}
=============================================================================
