# Verification of Polycode's concurrent core

Polycode is a terminal coding agent: a TUI ("pager") talks over ACP to a shell
process that hosts sessions; a session samples a model, runs tools, and starts
subagents. This directory holds TLA+ models of the parts of that program whose
correctness depends on the order in which independent actors move, the TLC runs
that check them on small instances, and TLAPS proofs that hold for every instance.

Paths below are relative to `src/crates/`. `task/` stands for
`codegen/xai-grok-tools/src/implementations/grok_build/task/`, `session/` for
`codegen/xai-grok-shell/src/session/` and `acp/` for `session/acp_session_impl/`.
`scheduler/` is next to `task/`, and `leader/` and `agent/` are in
`codegen/xai-grok-shell/src/`. `PROJECT.json` maps every definition to the lines it stands for.

## 1. Inventory

### Parts that are modelled

| Part | State | Operations | Talks to | What is hard | What makes it correct |
|---|---|---|---|---|---|
| Active-message admission (`task/active_message.rs`, `task/coordinator/active_message.rs`) | ingress semaphore, parked messages, futures in flight, a lease per message, a lifecycle per child | send, admit, park, promote, poll, settle, finalize, drop | the child's host thread, through the lease; the runner's `finalizing()` | deadline and cancellation race a late answer; the host is between claim, insert and commit | a definite answer is true; counters are exact; a clean finalization is final |
| Subagent coordinator (`task/coordinator.rs`, `coordinator/spawn.rs`, `queue.rs`, `query.rs`, `coordinator_state.rs`, `task/admission.rs`) | queued, pending, active and completed children; waiters of five kinds; blocked sessions; the completion buffer | spawn, start, finish, five cancels, teardown, queries, deadlines, reaping, exit, drop | tool callers, child futures, sessions, workflow runs | everything that ends a child may also end a wait, free a slot and start another child in the same handler | limit and order of the queue, each completion delivered, no waiter left behind |
| Circuit breaker (`common/xai-circuit-breaker/src/breaker.rs`, `window.rs`, `state.rs`) | five atomics and a window behind a mutex | `check`, `record` | every thread that makes a request | each call is a sequence of separate atomic accesses | cool-down, probe slots and their lease, recovery |
| Turn-bound delivery (`common/xai-message-delivery-core/src/lifecycle.rs`) | slots in three phases, bound to a turn | admit, begin, finish, terminal transition | the session loop and the turn task | a settlement may land while a drain awaits its barrier | each slot is settled once and in order |
| Parent messages and turn finalization of a session (`acp/parent_message.rs`, `cancel.rs`, `turn_end.rs`, `turn_task.rs`) | pending rows, running turn, rewind window, the chat actor's prompt index and conversation | prompt, queue, steer, complete, soft and hard cancel, rewind, shutdown, drop, drain | chat-state and persistence mailboxes; completion channel of turn tasks | five causes end a turn through four paths, and completions of aborted turns arrive late | an accepted input is in one place, answered once, and pushed at most once before its answer |
| Prompt-turn receipts of a child (`agent/subagent/prompt_turn_receipt.rs`) | a bounded channel, the receipts awaited, the last one taken, a grace deadline | reserve, send, receive, take a result, finalize, notice a cancel, time out | the child's session loop; the runner that settles the child | the session loop that ends turns also waits for a place in the channel; receipts keep coming after the channel is closed | the settlement accounts for every admitted message; neither side is stuck |
| Scheduler and its persistence (`scheduler/actor.rs`, `scheduler/types.rs`, `codegen/xai-grok-tools/src/persistence.rs`) | the tasks, a pending removal, a version clock, the writer's queue and snapshot, the file | create, update, delete, fire, expire, shut down, save, flush, restart | notification consumers, tool calls that save, the subagent coordinator | a removal awaits two barriers, each of which may fail, time out or have succeeded unnoticed; the process may die in between | a published removal is final, versions are never reused, no barrier wedges the actor |
| Leader process (`leader/lock.rs`, `leader/mod.rs`, `leader/transport.rs`) | the lock file and its inode, its flock, the pid in it, the socket file | open, lock, bind, drop; connect, spawn, wait, evict | other processes, through the file system only | open and lock, unlink and close, unlock and the child's lock are separate steps | one leader at a time; a client's call ends |

### Parts that are not modelled

| Part | Why |
|---|---|
| Shell host of subagents | the admission it makes is in `ActiveMessage` and `ReceiptDrain`; building the child's session is data |
| Session command loop, prompt queue, interjections | only the arms that accept, promote and end a turn appear; the rest is a module of its own in the plan |
| Interactive-login single flight, upload queue, computer-hub connection | planned, see section 2 |
| Leader server and client, workflow engine, sampler actor | large; routing, scripts and retry tables around remote services |
| Chat-state actor, session persistence, hunk tracker | sequential actors over data; their mailboxes appear in `MessageDelivery` |
| Envelope authorization, breaker registry and retry policies, permissions | stateless tables and type-level checks |
| Worktrees, SQLite journal mode, terminal UI, markdown, telemetry, configuration | file-system calls, rendering, formatting |

`PROJECT.json` lists the hazards of the code with the line where each bites.
Those of parts that are still to come have a note instead of a property.

## 2. Plan

Done: `ActiveMessage`, `SubagentCoordinator`, `ReceiptDrain`, `Scheduler`, `SchedulerLoop`,
`CircuitBreaker`, `LeaderLock` and `MessageDelivery` with the abstract `MessageContract`, each
with its proofs.

Next, in this order:

1. `PromptQueue` (`acp/prompt_queue.rs`, `queue_mutation.rs`, `interjection.rs`):
   send-now, edit holds, merged rows, wakes. Question: is a row that the user can
   see always either runnable or held by somebody who will release it?
2. `AuthSingleFlight` (`auth/single_flight.rs`): generations keep a superseded
   attempt from clearing its successor.
3. `UploadQueue` and the hub connection, if they turn out to be small.
4. The occurrence journal of the scheduler, once something outside its tests calls it.
   Abstract specification: a one-shot fires at most once, and one that never fired is
   not dropped.

## 3. The models

### ActiveMessage

Two kinds of actor. The coordinator task handles one event at a time, so an
action is a whole handler. The child's host runs on its own thread; it moves
through `HostClaim`, `HostInsert`, `HostCommit`, `HostAdmitted`, one atomic
operation of `ActiveMessageAdmissionLease` per step, or refuses or dies at any of
them. The coordinator's poll of a future (`PollReady`, `PollCancelled`,
`PollDeadline`) and the settlement that follows (`FinishActiveMessage`) are two
steps, because the host can move between them.

`stage` is where the coordinator holds a message, `lease` the shared atomic,
`host` the thread's progress, `row` whether the message is in the child's queue,
`reply` what the sender was told. `lifecycle` is `ActiveMessageLifecycle` of the
child, `finalizing` the runner's call and its answer, `output` the run.

The two channels and the vector of parked messages are sets, so they may be
served in any order, which includes the order the code uses. Timers fire at any
time. Message text and the Queue/Steer operation do not matter here.

### SubagentCoordinator

The actor's `run` loop is a biased `select!`. Each action is one turn of it,
with all that the handler calls: `Finish` is `finish_child` with the delivery to
caller, waiter or buffer, the resolution of workflow cancels and teardowns,
and the sweep of the queue that starts the next spawns (`Sweep` gives the sets
that may start); `Settle` is the `resolve_drain_waiters` every turn ends with.
A command or a timer is handled after `reap_abandoned_callers`, and `turn` remembers
which of the two the reap was made for. Callers that drop their receiver, tokens
cancelled elsewhere and queries whose asker leaves interleave with all of this.

`place` says which map holds a child. `ahead` is the queue as a relation: the ids
that were queued before this one. `request` holds what `reparent_nested_spawn`
rewrites: session, owner, surface flag. A run gives a set of `Setups`: the requests
that are made, who may drop a receiver or query, and the configured limit. `Init` chooses
one, it never changes, and TLC explores its schedules.

Not modelled: usage flags, progress and list replies, the eviction of completed
records. Active messages appear as a run whose output is buffered
(`BufferOutput`) until they are settled.

### CircuitBreaker

`pc` of a thread names its next atomic access. `check` is `Check`, `LoadOpened`,
`CasHalfOpen`, `MirrorHalfOpen`, `Reload`, then the probe slot: `ReadClock`, `Claim`,
`Stamp` or `Release`, `LoadClaimed`, `Takeover`. `record` is `Record`, `Count`
(the critical section of the window), then `TripState` ... `TripMirror` (four stores, and
between the first two the reading of the clock) or `CloseState` ... `CloseMirror`. Calls
always interleave, one access at a time.

Timestamps are ages in ticks, saturating at `AgeCap = OpenDuration + MaxDelay`. A clock
reading that a thread still holds is at most `MaxDelay` old, so no comparison can
tell a saturated age from a larger one. The age of window samples is not kept: any
number of the oldest may have expired when the window is used. `half_open_probes`
counts modulo `Words`, as `usize` does, because `fetch_sub` can take it below zero.

Five history variables say what the interleaving has done, so that the properties can be
stated for all of it. `stale`: threads that act on a state which has moved since they
loaded it, or was moving when they did. `torn`: the last transition began inside another.
`raced`: since the probe count was last zeroed, a stale thread changed it or half-opened.
`claims`: probes the count has let through in this state. `admitted_at`: the age of the
latest admission. None of them is read by a guard.

### MessageDelivery and MessageContract

The session loop runs one handler at a time. Every handler that may leave a row
at the front ends with `Promote` (`maybe_start_running_task`). The turn task runs
beside it: it reads its prompt index, awaits the prompt-submit hook (which may block:
`HookBlocks` holds the queue, `EndBlocked` closes the rewind window), takes the index,
pushes its prompt, produces output (which closes the window too), drains, and reports its
result on a channel. Reports of
turns that were aborted in the meantime stay on that channel; `Claims` is the
test that tells them apart, `Completion` and `StaleCompletion` the two outcomes.

A rewind is three steps. `RewindClaim` holds the lock: it takes the cut (`target`), pops the
row and aborts the turn. `RewindSnapshot` and `RewindRestore` come after awaits without it:
the first cuts a copy of the chat state, the second replaces the chat state by that
copy. The loop takes no other event in between, but two tasks beside it promote rows: the
one that waits for MCP (`McpPromote`) and a resumed plan (`ResumePlan`), so the turn task of
a newer turn may move between any two of the three. A legacy rewind, which names no prompt,
takes the cut again at the snapshot. `overtaken` records that a rewind ended after another
turn was promoted.

A drain is `BeginDrain` (pending slots become projecting), a persistence barrier
awaited without the lock, and then `CommitDelivery`, `CommitNothing` if the slots
were settled meanwhile, or a failure when a mailbox has closed. `receipt` is what the
sender knows; `pushes`, `written` and `undelivered` record history for the properties.

`MessageContract` is the promise to a sender in three actions: an input is
accepted, its text is pushed at most once and only while an answer is owed, and it
is answered once. `MessageDelivery` maps `receipt` to the contract's `status` and
keeps `pushes`; `KeepsContract` is that refinement.

Send-now, edit holds, merged rows, notifications and wakes other than the plan's are left out.

### ReceiptDrain

It connects the two message models: `MessageDelivery` runs the turns of admitted
parent messages, `ActiveMessage` says when admission is settled, and the drain tells the
parent which turn was the last. `session` is where the child's session loop is in
`admit_parent_agent_message`: it takes a permit of the bounded channel first
(`Reserve`), then admits or rejects, then sends the receipt. The drain's `select!` is
biased, so each branch has the negation of the earlier ones in its guard, and the
deadline is two steps (`Expire`, `ForceTimeout`): the session may send between the poll
that found nothing else and the handler. A turn ends only while the session loop is
idle, since the same loop handles its completion. A clean settlement closes admission
before the drain hears of it, an uncertain one does not.

### Scheduler

The actor is sequential; `at` names the await it is suspended in. Writer, tool calls,
consumer, cancellation and crashes run in between. A removal is reserved
(`prepare_transition`), persisted (`SaveAndFlush` behind whatever is in the queue),
published with an acknowledgement and committed; `Delete` keeps it pending for a retry
when a barrier fails, an expiry puts the task back, leaves it absent or gives up.
A write succeeds, fails, or replaces the file and then reports failure. `tombstones` is
the history the consumer keeps. Versions are a generation and a bounded revision, so
that a reservation overflows within the bounds.

When tasks are due is left open: any task may fire at any time. The list is ordered,
because a failed expiry puts a task back at its index.

### SchedulerLoop

What happens between `FireRecurring` and `Fired` or `Skipped` of one background loop:
two questions to the coordinator (is the previous iteration running, is any descendant
of the loop), then the spawn, with the chain (anchor, iterations since fresh, reset
flag) read before and written after them. A watcher per failed iteration clears the
anchor later, if it is still its own.

### LeaderLock

Files as Unix has them: the path names an inode or none, a flock belongs to an inode,
and an inode that was unlinked lives on for whoever has it open. `client` and `leader`
are program counters of `connect_or_spawn` and `run_leader`. Each system call is a step: the
flock and the write of the pid, the two removals of a socket file that is in the way, the
bind. Two pairs are merged: truncation and write in `write_pid`, and the removal of the
socket and the close of the lock file at the end of a `Drop`. Every `?` on the way to
serving, and a bind that fails or times out, goes to that `Drop` (`StartFails`, `Bind`).
Whether a client has an earlier error to return when its wait is over is not kept:
`SpawnTimesOut` may return one at any time.
`ConfirmsHolder` says that `/proc/locks` exists. `exited` records that some holder of
the lock ended in its `Drop`, which unlinks the path.

## 4. Runs

| Run | Instance | What it shows |
|---|---|---|
| `am` | one child, two messages, one permit, one admission per child | a sender told Accepted has its row and one told anything definite else never gets one (`AnswersAreTrue`); `in_flight` and the permits are exact through parking, promotion and drop (`CountersExact`); an unreplaced result agrees with every sender; after a clean `finalizing()` no row changes; every message and `finalizing()` are answered although the host may stay silent |
| `co_safety` | three ids in two setups: two children and one nested under the first, limit 0 (clamped to 1), queueing; a workflow child and two nested under it, limit 1, refusing | the limit holds for direct, queued and re-keyed spawns and a queued spawn has a full session before it (`LimitIsUsed`); workflow cancels, queries, drains and blocked sessions all have a reason to wait (`NobodyWaitsForNothing`); a completion reaches its caller or its session, a torn-down child stays silent (`CompletionsReported`); nobody overtakes; the loop exits with nothing left |
| `co_live` | two children, limit 1 | queued spawns leave and drains are released if runs end; a teardown gives admission back even if they do not |
| `cb` | two threads, one probe slot, one lost probe | however calls interleave: the mirror is exact once every transition has ended, unless the last began inside another (`MirrorExact`); a thread that is not stale half-opens after the full cool-down, with no probe counted unless a stale thread moved the count (`HalfOpensCleanly`); a half-open period lets through what it has slots for, and one more per lease after the latest stamped probe (`OneExtraProbe`); HalfOpen is left |
| `md_safety` | two prompts, two messages, two slots, persistence may close | nothing is lost, kept twice, reordered or left for a turn that is over (`InputsAreOwned`), answered ok without delivery, or written after its answer; the contract is kept |
| `md_live` | a prompt, a message and a resumed plan, MCP pending, chat state may close | a rewind keeps all that precedes its prompt and leaves nothing of its turn, although another turn may be promoted before it cuts (`RewindIsExact`); every accepted input is answered unless a hook block holds the queue |
| `md_rewind` (violated) | two prompts | finding 1 |
| `receipt` | five messages, a channel of two | a settlement accounts for every admitted message; a timed-out one names the last receipt sent; `settle()` returns and the session loop gets its permit |
| `scheduler` | a durable and a plain recurring task and a one-shot, two listed at a time, one crash or rollover | a published removal stays removed through late snapshots and restarts; nothing moves the clock under a reservation and no version is stamped twice; the actor returns from every barrier |
| `loop` | two prompts, four iterations, a fresh chain every two | iterations and the descendants of completed ones do not overlap; a transcript is continued only for the same prompt, after a completed iteration, and not too often |
| `leader` | two clients, two leaders | as long as no holder's `Drop` has run there is one leader, recorded in the file once it wrote its pid, and reachable; every call of `connect_or_spawn` ends |
| `leader_two` (violated) | two clients, three leaders | finding 2 |

### Bounds

*ActiveMessage.* Two messages with one admission give a future in flight and one that is
parked, saturated or waiting for its permit. The safety properties are also proved for
all bounds, several children and workflow children included, which the run leaves out.

*SubagentCoordinator.* Three ids are the least with a running child and two
queued ones, and with a nested child beside a sibling. A limit of zero exercises the clamp. One
session, one prompt and one workflow run suffice because handlers only compare
them for equality and each property speaks about one of them. The setups
restrict who may drop a receiver or query; the actions are the same for each id. The
safety properties are also proved for every set of ids and every setup.

*CircuitBreaker.* Every race found needs two threads. `OpenDuration = 2` and `MaxDelay = 1`: a
reading may be stale, and a lease that nobody can take for expired is still one tick long.
`Words = 5` is the least that exceeds what two threads can add to a full slot, so a wrap is
distinguishable. A window of one sample trips on one failure: the window's own
arithmetic is not what the properties depend on, and the theorems hold for every
configuration. At most one request is lost: more would only repeat the takeover.

*MessageDelivery.* Two prompts give a running turn, a queued row and a stale report
of the earlier one. Two messages give order, and a slot that is delivered while another is
pending. The promotions beside the loop are in `md_live`: with one prompt, one message and
one resumed plan a rewind is overtaken at each of its two gaps, by a queued message or the
plan. The safety theorems hold with both. Epochs and indices grow only
with promoted turns, so the state space is finite.

*ReceiptDrain.* A channel of two with five messages is full with a third waiting while two have
been received; the theorems hold for every capacity.

*Scheduler* (safety is also proved for all bounds). Two listed tasks, so that order and index matter, with a third that is
created later. `MaxRevision = 2` makes a reservation of two overflow; `MaxGenerations = 2` allows a
crash or a rollover. `MaxQueued = 2` lets a stale snapshot stand before or behind a durable
one; the channel itself is unbounded, and more entries of the same two kinds only repeat
this.

*SchedulerLoop.* Four iterations with `FreshEvery = 2`: a chain is used up and a second one begun.

*LeaderLock.* Two clients and two leaders give every race between two spawners, between a
spawner and its subprocess, and between an eviction and a successor. An inode for each process
and one at the path is the most that can exist at once. The counterexample needs a third leader.

### Fairness

*ActiveMessage*: weak fairness of each message's coordinator steps; the loop polls
its futures and its deadlines are timers. Nothing is assumed of the host thread.

*SubagentCoordinator* (`TimelySpec`): what a reap was made for is handled; the reap interval
and the timers of `next_deadline` are strongly fair. The `select!` is biased towards
commands, so this assumes that commands do not arrive without a pause for ever.
`RunsEnd` (every child's future completes) is an assumption of `QueuedLeaves` and of the
drains in `HoldsAreReleased` only, and is written in those properties.

*CircuitBreaker*: each thread that is in a call continues, calls `check` again and
records what it was granted unless the request is one of the lost ones; time advances.

*MessageDelivery*: the turn task is scheduled, its reports are handled, a rewind that was
claimed goes on, and an actor whose loop has returned is dropped. That a turn ends is an assumption about sampling
and tools, made here and nowhere else. Prompts, cancels and closes are never forced.

*ReceiptDrain*: the session loop's and the drain's steps. That turns end is not assumed:
`NobodyIsStuck` allows `settle()` to wait for ever only for a child that was neither
cancelled nor uncertain and whose turn runs on. *Scheduler*: the rest of a suspended
handler. Its awaits of writer and consumer have deadlines; the one of the resources mutex
(`actor.rs:132`, `375`, `492`, `686`, `732`) has none and is fair because holders of that
mutex release it. Nothing is assumed of the writer, the consumer or
the clock. *LeaderLock*: every process that can take a step takes one; nobody is
told to stop, and deaths, signals and abandoned calls are never forced.

Deadlock is checked in the runs of the first four models, whose final states are
explicit (`Done`, `Terminated`, a dropped session), and in `loop`. The other systems
really stop: a drain that returned with all messages used, a scheduler that is down
when its generations are used up, clients that are connected or failed and leaders that are dead.
Those cfgs say `CHECK_DEADLOCK FALSE`.

## 5. Proofs

`ActiveMessageProofs` holds for any set of children, any finite set
of messages and any positive limits (`ChildrenAssumption`, `MessagesAssumption`,
`LimitsAssumption`): type correctness, and every safety property of the module's
run (`AnswersCorrect`, `CountersCorrect`, `ResultsAgree`, `CleanIsFinal`), the action
property `CleanFinalizingIsFinal` included.

None of the properties is inductive. `AnswersAreTrue` speaks of a reply and a
row, while the step that could break it looks at the lease; so `IInv` adds

- `StageInv`: what each stage says about reply and host;
- `HostInv`: how far the host can be for each state of the lease, and whether the
  row is in. This is the protocol of the lease: a row implies Claimed or Committed,
  and a revoked lease implies that there is none;
- `ReplyInv`: a definite reply was given only on a settled lease;
- `CountInv` and `PermitInv`: counters equal cardinalities. Each action moves at
  most the messages of one set between stages, and the lemmas on adding to and
  removing from `InFlight` and `Holders` rest on `FiniteSetTheorems`;
- `CleanInv`: a clean disposition means that nobody was told AdmissionUncertain,
  and a child that finished ok or clean has no future left.

`NextIInv` has one step per action, and under it one per conjunct the action can
disturb. `ResultsAgree` and `CleanIsFinal` then follow from `CleanInv` with `HostInv`.

`SubagentCoordinatorProofs` holds for any finite set of children and any requests and limits
(`IdsAssumption`, `SetupsAssumption`; sessions, prompts and workflow runs may be any sets):
type correctness, `LimitCorrect`, `WaitsCorrect` and the action properties `OrderCorrect`,
`ReportsCorrect` and `ExitCorrect`. The two invariants are almost inductive together:
`Full` (a spawn is queued only behind a full session) needs `Limit` and the sweep's
arithmetic, and that a closed session has nothing queued (`Unblocked`) needs that
everything queued is a task child, since that is all Stop removes. `IInv` adds the types and
`Callers` (a caller that was not answered has a live child), which only the exit uses.

The handlers differ in whom they finish, and agree in how, so the argument is made once for
finishing any set `R` of live children and starting any `S` that the sweep may choose:
`FinishMoves` (which maps the children are in), `SweepFills` (the started ones and the ones
that stayed fill the slots exactly, or the queue is empty, by `FiniteSetTheorems`),
`FinishAnswers` and `TeardownsStand` (each waiter is answered with its last child),
`ResolveIInv`. Reap, run end and the cancels cite it; Stop and teardown add the session
they close. `QuietIInv` does the same for the steps that move no child. `AdmitSpawnIInv` is
where a direct start meets the queue: a session with a free slot has no queue by `Full`,
which is also why a new spawn cannot overtake (`InOrder`). An exit is clean because an
empty session has a free slot, `Slots` being clamped to at least one (`NothingLeft`).

`ReceiptDrainProofs` holds for every capacity and every number of messages
(`ReceiptAssumption`): type correctness, `SettlementCorrect` and, for the action
property, `TimeoutCorrect`. That a settlement is complete says nothing about what is still
in the channel, so `IInv` splits the admitted messages, which are numbered in order,
into committed but not sent, in the channel, awaited and taken:

- `SessionInv`: a message that is being admitted is within the bound, and the permit in
  its hand keeps a place free (`Len(stream) + Permits <= Capacity`);
- `CloseInv`: a disposition implies a closed channel, and its end is seen only when
  it is empty with no permit out;
- `StreamInv`: the channel holds exactly the receipts that follow the received ones,
  in their order, and `identity` is the last received one;
- `ResultInv`: a received receipt is awaited, or taken with its turn ended, and
  `final` is the greatest taken one.

Each action has a lemma, and `ReturnIInv` is where the four give completeness: with the
channel at its end and nothing awaited, the taken receipts are `1..admitted`.

`SchedulerProofs` holds for any finite set of tasks, any limit of the list and any bounds of
revisions, generations and the writer's queue (`TasksAssumption`, `BoundsAssumption`; that
`MAX_SCHEDULED_TASKS` versions fit in one generation is part of the latter): type
correctness, `TombstonesCorrect`, and `ClockCorrect` with the invariant and the action part of
`ClockIsSound`. The history records a removal long after the list and the file lost the
task, so `IInv` follows the task on its way out:

- `SnapInv`: every snapshot, wherever it is, lists distinct tasks that were created;
- `LeaveInv`: the task a suspended handler removes is off the list, an expiry still has
  a valid index for it, and was not published before;
- `WriterInv`: the acknowledgement the actor awaits belongs to one durable snapshot, and
  neither it nor a later one in the queue lists that task. Snapshots before it may;
- `GoneInv`: once the writer has acknowledged, the task is in no snapshot at all (list, queue,
  debounce, file), and this holds of every published one for ever. `WriterFlushesIInv` is
  where the writer dropping the waiting snapshot is needed;
- `ClockInv`: a reservation is held exactly by a pending removal or a suspended handler,
  its source is the clock, and its version follows it in a generation already started.

Each action has a lemma; what `Remove`, `Reserve`, `Advance`, `Enqueue` and the end of an await
leave behind is stated once (`AfterRemove` ... `AfterTake`) and cited there.

`SchedulerLoopProofs` holds for any number of iterations, any prompts and any
`FreshEvery > 0` (`LoopAssumption`): type correctness, `UnitCorrect` and `ChainCorrect`. The
fire decides on answers it got before its last await, so `IInv` says what of them stands:

- `Fire`, `Asked`, `Anchors`: a suspended fire holds a chain of the prompt the task still has,
  and the anchor it asked about was started;
- `Anchored`: what the next iteration must not overlap is the anchor's. A prompt update
  therefore may not clear the anchor, and a watcher may clear only one whose iteration
  failed (`Failures`);
- `Quiet`: at the spawn nothing is busy any more, since only the spawn makes it so;
- `Resumed` and `Counted`: what was resumed, and that each of the three copies of the chain
  (the task's, the saved one, the one the fire holds) counts at least the length of its
  transcript. `TranscriptLengths` states these lengths as the functions that satisfy the
  recursion, so no recursive definition is needed: the proof extends such a
  function by the new iteration.

`CircuitBreakerProofs` holds for any finite set of threads and any configuration
(`BreakerAssumption`), with calls interleaved: type correctness, `MirrorCorrect`,
`HalfOpenCorrect` and `ProbesCorrect`. `IInv` adds to the types

- `Current`: for a thread that is not stale, the state it relies on still is the state,
  nobody else is in a transition, and the time it compares is not newer than `opened_at`;
- `Mirrored`: a transition that began alone stays alone, and leaves the mirror exact;
- `Zeroed`: while Open no probe is counted, but for what `trip` has yet to zero or
  a stale thread added;
- `Counted`: in a half-open period without a race the count is the probes let through and the
  threads that have yet to give theirs back, so `fetch_sub` does not wrap;
- `Stamped`: the stamp is at most `MaxDelay` older than the latest admission, which is why
  a takeover comes a lease after it.

`StoresIInv` and `LoadsIInv` are stated once for every access to the state.

`LeaderLockProofs` holds for any finite sets of clients and leaders (`LeaderAssumption`): type
correctness, which includes that a flock belongs to an open file, and `HandoffCorrect`. `IInv`
relates the program counters to the file system: `Files` and `Flocks` (who has a file
open, who holds its flock), `Pids` (a leader's pid is in the file it holds, once it wrote it), `OneFile` and
`Drops` (until the first `Drop` every open lock file is the one at the path, which is what the
violated run `leader_two` loses), `Sockets`, `Attempts`. That `open_lock_file` finds an
inode nobody uses is the pigeonhole principle of `FiniteSetTheorems`.

`MessageDeliveryProofs` holds for any finite sets of prompts and messages, any number of
steer slots and any mailboxes that may close (`DeliveryAssumption`): type correctness,
`OwnershipCorrect`, `OkCorrect`, the action properties `SilenceCorrect` and `RewindCorrect` and
the refinement `ContractCorrect`. `IInv` consists of

- `Once`, `Waiting` and `Apart`: rows, slots and the claim of a rewind hold different inputs,
  each once, and exactly those whose receipt is open;
- `Bound` and `Sorted`: slots belong to the running turn and their phases never increase
  along the list. The slots of one phase are therefore a range of indices, which is what gives
  `InOrder` its meaning (`InOrderFacts`, by the cardinality of intervals) without
  induction over sequences;
- `FrontRow`: the running turn is that of the front row and of the current epoch, so a
  rewind names the turn that runs, and no older report can claim it;
- `Pushes`, `Drained`, `Reports`: how often each row and slot was pushed, that a slot left
  projecting has its failure on record, and that a report of the running turn comes from an
  ended task whose prompt was pushed if the report is ok.

`Turnover` and `EndsTurn` say once what every handler that ends a turn leaves behind;
completion, soft cancel and rewind cite them, the teardowns cite `Turnover` with an empty queue. For
the refinement `NextSeen` sorts the steps by what a sender sees: nothing, an acceptance, a
push of texts whose receipts are open, or an answer to open receipts. Each is a step or a
stutter of `MessageContract`.

`RewindCorrect` needs a second invariant, `Talk`, which relates the conversation to the turn
while the loop and the chat state are open and no rewind was overtaken. The running turn's
rows are a tail of the conversation (`Ends`, by `OwnTail`), headed by its prompt under the marker
`prompt_index - 1` with every earlier marker below that, or empty as long as the prompt was not
pushed. A turn that was just promoted has the empty tail, because `IInv` says that nothing of
a queued row was pushed (`Known` and `FreshTurn`); `TakeIndex` opens the gap between the markers
and the index that `PushPrompt` fills. The claim turns that tail into one of its own (`Taken`, by
`ClaimedTail`): the claimed prompt, if it is in, is the first row with a marker not below
the captured cut. Whatever is promoted then, this stands: it only appends rows, and
none that was claimed, and the cut stays at or below the index (`Idle`). So the snapshot keeps all that
precedes the prompt and nothing that was claimed (`Snapped`, by `KeptRows`), and the restore
puts that in place. A legacy rewind takes its cut after the promotion, whose index may have
moved: it still keeps all that precedes, but may keep the rewound rows, so the second half of the
property has its condition. An overtaken restore leaves the newer turn running with an index
that is not its own; from then on neither half holds, which is why `overtaken` is in both.
Before the prompt is in, the cut falls on the prompt of an earlier turn: `md_rewind`.

Only model-checked: liveness under fairness, which the prover does not reach, like
`ENABLED`. Every safety property of the passing runs is also a theorem.

## 6. Findings

1. *A rewind does not own only its turn.* The rewind window opens at promotion, and the
   turn takes its prompt index only after its prompt-submit hook. A rewind in between
   uses the previous turn's index and cuts that turn (`md_rewind`). The cut is also late:
   it is made after the lock was given up, by replacing the whole chat state, so what a
   turn promoted in the meantime has pushed is lost as well, its prompt index is set
   back, and a legacy rewind, which takes the cut late, may leave the rewound prompt in. With
   `McpPending = TRUE` the same run gives such a trace.
2. *Two leaders.* A process opens the lock file and has not locked it yet; the old
   leader's `Drop` unlinks the path and closes. The process then locks the unlinked
   inode, and the next one creates and locks a new file. Nothing compares the locked inode with the
   path. (`leader_two`; `HandoffIsClean` shows that no other interleaving of spawners, deaths
   and evictions gives two leaders.)

Observations without a run of their own:

- *A nested spawn outruns Stop.* `reparent_nested_spawn` finds its spawner only
  while that child is active. If the child has completed, the late spawn keeps the
  child's session id, is not matched with the blocked root session, and starts, although
  the comment at `task/coordinator.rs:82` says that a late spawn cannot outrun Stop. Needs a
  depth limit above the default of 1. The second setup of `co_safety` has such spawns.
- *Two probes in one slot.* A thread claims the slot (`breaker.rs:279`) and stamps it later
  (`:281`). A second thread that finds the slot full in between reads the stamp of the
  previous probe, finds it expired and takes over a slot that is alive, while the test at
  `half_open.rs:168` says that exactly one thread claims it. `OneExtraProbe` therefore counts a
  probe as admitted when it is stamped; from then on its lease is kept.
- *The probe count is not always 0 when the breaker half-opens*, against the comment at
  `breaker.rs:211`. A thread that saw HalfOpen may add to or subtract from the count after
  another thread's trip zeroed it (`raced`). Recovery then waits for the lease; it is not lost
  (`HalfOpenLeaves`). A thread that loaded Open before a trip may half-open on the time of
  the trip before (`stale`), without the cool-down.
- The last store of a trip can land after another thread has moved on, and then `is_open()`
  stays wrong with no call in progress until the next transition (`torn`).
- The cap on Steer slots is compared with all slots of the turn, delivered ones
  included, although the comment on it speaks of slots that wait.
- A slot whose drain failed is answered with the result of its turn, ok included.
  `OkMeansDelivered` therefore excepts the inputs in `undelivered`.
- Iterations of a loop can overlap the subagents of an earlier iteration that failed: its watcher
  clears the anchor, and without an anchor nothing is asked. `UnitIsAlone` therefore speaks of
  completed iterations; `codegen/xai-grok-shell/CHANGELOG.md:748` does not make the difference.
- An expiry whose acknowledgement failed has used no version: a later transition
  gets the version that the lost tombstone carried. `ClockIsSound` is about committed ones.
- A removal that is pending stops all firing until its Delete is retried; a failed
  `SaveAndFlush` drops the snapshot that was waiting for the debounce.
- A one-shot that fired is removed from the file only by a later save, so a crash in
  between fires it again. The receipts that would prevent this are in
  `scheduler/occurrence_journal.rs`, which only its tests call.
- An exiting leader's `Drop` removes the socket path after its successor may have bound
  it. Clients recover by evicting the successor, which needs `/proc/locks`;
  where that does not exist (`ConfirmsHolder = FALSE`), `ClientsSettle` does not hold.
