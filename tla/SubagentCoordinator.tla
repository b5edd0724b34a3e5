------------------------- MODULE SubagentCoordinator -------------------------
(***************************************************************************)
(* The subagent lifecycle actor: spawn admission and its queue, the life   *)
(* of a child from pending to completed, cancellation by id, prompt,       *)
(* session and workflow run, session teardown, and everyone who waits for  *)
(* a child (its caller, blocking queries, prompt drains, workflow cancels, *)
(* teardown responders).                                                   *)
(*                                                                         *)
(* The actor handles one event at a time, so an action is a whole handler: *)
(* finish_child with its waiters, its drain resolutions and its sweep of   *)
(* the queue, and the resolve_drain_waiters that closes every turn of the  *)
(* loop.  A command and a timer are preceded by reap_abandoned_callers;    *)
(* `turn' remembers what the reap was for.  Callers dropping a receiver    *)
(* and tokens cancelled from other tasks interleave with all of it.        *)
(*                                                                         *)
(* Abstractions: a child id is spawned once (ids are UUIDs; a duplicate is *)
(* refused without a state change) and is also its child session's id; a   *)
(* child has at most one blocking query; timers fire at any time; active   *)
(* messages (module ActiveMessage) appear only as a run whose output is    *)
(* buffered; progress replies, usage flags and the eviction of old         *)
(* completed records are left out.                                         *)
(***************************************************************************)
EXTENDS Naturals, FiniteSets

CONSTANTS
    Sessions,       \* top-level sessions
    Ids,            \* subagent ids, which are also the ids of their sessions
    Prompts,        \* prompt ids
    WorkflowRuns,   \* workflow run ids
    Setups          \* the limits and requests to consider, one of which is chosen

Owners   == WorkflowRuns \cup {"task"}
Parents  == Sessions \cup Ids
Requests == [parent : Parents, prompt : Prompts, owner : Owners, run_in_background : BOOLEAN,
             await_to_completion : BOOLEAN, definition_background : BOOLEAN,
             surface_completion : BOOLEAN]     \* SubagentRequest

ASSUME IdsAssumption   == IsFiniteSet(Ids)
ASSUME SetupsAssumption ==
    Setups \subseteq [asked : [Ids -> Requests], leaving : SUBSET Ids, queried : SUBSET Ids,
                      max_concurrent : Nat, queue : BOOLEAN]

VARIABLES
    setup,       \* fixed by Init
    turn,        \* "loop", what a reap was made for ("command", "timer"), or "stopped"
    commands_open,
    place,       \* which of the actor's maps holds the child
    ahead,       \* the queue: the ids that were queued when this one was
    request,     \* effective session, owner and surface_completion of the child
    token,       \* the cancellation token of a live child
    killed,      \* explicitly_killed
    handle_only, \* nobody blocks on the child: background, or handed off
    caller,      \* spawn_reply: none, its receiver still awaiting, or gone
    run,         \* the child's future: none, running, or its output buffered
    waiter,      \* a blocking query on the child
    disposition, \* how the child's completion was delivered
    pending_completions,
    drain_waiters, workflow_cancel_waiters, teardown_drains, spawn_blocked

childVars == <<place, ahead, request, token, killed, handle_only, caller, run, waiter, disposition>>
waitVars  == <<pending_completions, drain_waiters, workflow_cancel_waiters, teardown_drains,
               spawn_blocked>>
vars      == <<setup, turn, commands_open, place, ahead, request, token, killed, handle_only, caller,
               run, waiter, disposition, pending_completions, drain_waiters,
               workflow_cancel_waiters, teardown_drains, spawn_blocked>>

\* What the setup fixes
Asked         == setup.asked           \* the SubagentRequest made for each id
MayLeave      == setup.leaving         \* the ids whose caller may drop its receiver
MayQuery      == setup.queried         \* the ids that may have a blocking query
MaxConcurrent == setup.max_concurrent  \* SubagentLimits.max_concurrent
QueueAtLimit  == setup.queue           \* LimitBehavior: TRUE for Queue, FALSE for Fail

Scopes == [session : Parents, prompt : Prompts]     \* PromptScope

\* How a completion was delivered; told: to the awaiting caller or to a waiter.
Dispositions  == [started : BOOLEAN, cancelled : BOOLEAN, told : BOOLEAN, surfaced : BOOLEAN]
NoDisposition == [started |-> FALSE, cancelled |-> FALSE, told |-> FALSE, surfaced |-> FALSE]

TypeOK ==
    /\ setup \in Setups
    /\ turn \in {"loop", "command", "timer", "stopped"}
    /\ commands_open \in BOOLEAN
    /\ place \in [Ids -> {"unborn", "queued", "pending", "active", "completed", "refused",
                         "dropped"}]
    /\ ahead \in [Ids -> SUBSET Ids]
    /\ request \in [Ids -> [session : Parents, owner : Owners, surface_completion : BOOLEAN]]
    /\ token \in [Ids -> BOOLEAN]
    /\ killed \in [Ids -> BOOLEAN]
    /\ handle_only \in [Ids -> BOOLEAN]
    /\ caller \in [Ids -> {"none", "awaiting", "gone"}]
    /\ run \in [Ids -> {"none", "running", "buffered"}]
    /\ \A i \in Ids : run[i] # "none" <=> place[i] \in {"pending", "active"}
    /\ waiter \in [Ids -> {"none", "waiting", "abandoned"}]
    /\ disposition \in [Ids -> Dispositions]
    /\ pending_completions \in SUBSET Ids
    /\ drain_waiters \in SUBSET Scopes
    /\ workflow_cancel_waiters \in SUBSET WorkflowRuns
    /\ teardown_drains \in SUBSET Parents
    /\ spawn_blocked \in SUBSET Parents

Init ==
    /\ setup \in Setups
    /\ turn = "loop"
    /\ commands_open = TRUE
    /\ place = [i \in Ids |-> "unborn"]
    /\ ahead = [i \in Ids |-> {}]
    /\ request = [i \in Ids |-> [session |-> Asked[i].parent, owner |-> Asked[i].owner,
                                 surface_completion |-> Asked[i].surface_completion]]
    /\ token = [i \in Ids |-> FALSE]
    /\ killed = [i \in Ids |-> FALSE]
    /\ handle_only = [i \in Ids |-> Asked[i].run_in_background]
    /\ caller = [i \in Ids |-> "none"]
    /\ run = [i \in Ids |-> "none"]
    /\ waiter = [i \in Ids |-> "none"]
    /\ disposition = [i \in Ids |-> NoDisposition]
    /\ pending_completions = {}
    /\ drain_waiters = {}
    /\ workflow_cancel_waiters = {}
    /\ teardown_drains = {}
    /\ spawn_blocked = {}

----------------------------------------------------------------------------
\* What the actor reads

Queued     == {i \in Ids : place[i] = "queued"}
Running    == {i \in Ids : place[i] \in {"pending", "active"}}      \* pending and active maps
Live       == Queued \cup Running
Task(i)    == request[i].owner = "task"
Of(s)      == {i \in Ids : request[i].session = s}
InScope(d) == {i \in Of(d.session) : Asked[i].prompt = d.prompt /\ Task(i)}  \* request_in_scope

\* session_running_count: workflow agents draw from their run's own pool.
Counted(s) == {i \in Running \cap Of(s) : Task(i)}

\* Admission::new clamps the limit to at least one slot.
MutSlots == MaxConcurrent
Slots == IF MaxConcurrent = 0 THEN 1 ELSE MaxConcurrent

HasCapacity(s) == Cardinality(Counted(s)) < Slots

\* live_turn_blocking_ids
TurnBlocking(d) ==
    {i \in Live \cap InScope(d) :
        ~handle_only[i] /\ (place[i] = "active" => ~Asked[i].definition_background)}

WorkflowOutstanding(r) == {i \in Running : request[i].owner = r}
SessionHasChildren(s)  == Live \cap Of(s) # {}

----------------------------------------------------------------------------
\* finish_child and the sweep of the queue it ends with

CancelledQueued == {i \in Queued : token[i]}

\* remove_queued(S): the sweep of the first finished entry also finishes every
\* queued spawn whose token is cancelled.
WithCancelled(S) == IF S = {} THEN {} ELSE S \cup CancelledQueued

\* start_queued_within_capacity once R is finished: per session the oldest
\* queued spawns that fit in the free slots.
MutSweep(R) == {{}}
MutSweepYoungest(R) == {S \in SUBSET (Queued \ R) :
    IF R = {} THEN S = {} ELSE S = {i \in Queued \ R : \A j \in Queued \ R : j # i => j \in ahead[i]}}
Sweep(R) ==
    IF R = {} THEN {{}} ELSE
    {S \in SUBSET (Queued \ R) :
        \A s \in Parents :
            LET waiting == (Queued \ R) \cap Of(s)
                taken   == Cardinality(Counted(s) \ R)
                free    == IF taken < Slots THEN Slots - taken ELSE 0
            IN
            /\ Cardinality(S \cap Of(s)) =
                 IF free < Cardinality(waiting) THEN free ELSE Cardinality(waiting)
            /\ \A i \in S \cap Of(s), j \in waiting \ S : i \in ahead[j]}

MutDeliver(i, cancelled) ==
    LET foreground == caller[i] = "awaiting" /\ ~handle_only[i]
        waited     == waiter[i] = "waiting"
    IN
    [started |-> place[i] = "active", cancelled |-> cancelled, told |-> foreground \/ waited,
     surfaced |-> /\ request[i].surface_completion
                  /\ handle_only[i]
                  /\ ~cancelled /\ ~waited /\ ~killed[i]]

\* CompletionDisposition: a foreground caller that is gone turns the child into
\* a background one, whose completion is surfaced unless a waiter has it.
Deliver(i, cancelled) ==
    LET foreground == caller[i] = "awaiting" /\ ~handle_only[i]
        waited     == waiter[i] = "waiting"
    IN
    [started |-> place[i] = "active", cancelled |-> cancelled, told |-> foreground \/ waited,
     surfaced |-> /\ request[i].surface_completion
                  /\ ~foreground
                  /\ ~cancelled /\ ~waited /\ ~killed[i]]

MutRunAfter(R, S) == [i \in Ids |-> IF i \in R THEN "none" ELSE run[i]]
\* start_child pushes a run for every record it makes; a finished one has none.
RunAfter(R, S) ==
    [i \in Ids |-> IF i \in R THEN "none" ELSE IF i \in S THEN "running" ELSE run[i]]

\* The children of R finish, those of bad with a cancelled result, the queued
\* spawns of S start, the callers of gone are known to have left, and the tokens
\* of T are cancelled.  A finished child keeps only its disposition.
Finish(R, bad, S, gone, T) ==
    /\ place' = [i \in Ids |-> IF i \in R THEN "completed"
                               ELSE IF i \in S THEN "pending" ELSE place[i]]
    /\ run' = RunAfter(R, S)
    /\ disposition' = [i \in Ids |-> IF i \in R THEN Deliver(i, i \in bad) ELSE disposition[i]]
    /\ handle_only' = [i \in Ids |-> IF i \in R THEN Asked[i].run_in_background
                                     ELSE handle_only[i] \/ (i \in gone /\ Task(i))]
    /\ caller' = [i \in Ids |-> IF i \in R \cup gone THEN "none" ELSE caller[i]]
    /\ waiter' = [i \in Ids |-> IF i \in R THEN "none" ELSE waiter[i]]
    /\ token' = [i \in Ids |-> i \notin R /\ (token[i] \/ i \in T)]
    /\ ahead' = [i \in Ids |-> IF i \in R \cup S THEN {} ELSE ahead[i]]

\* buffer_completions: the reminder buffer takes every surfacing task child.
Buffered(R) == {i \in R : request[i].surface_completion /\ Task(i)}

\* resolve_workflow_cancel_waiters and resolve_teardown_drain_waiters look only
\* at the runs and sessions of the children that finished.
MutWorkflowWaitersAfter(R) == workflow_cancel_waiters
WorkflowWaitersAfter(R) ==
    {r \in workflow_cancel_waiters :
        (\E i \in R : request[i].owner = r) => WorkflowOutstanding(r) \ R # {}}

TeardownsAfter(R) ==
    {s \in teardown_drains :
        (\E i \in R : request[i].session = s) => (Live \ R) \cap Of(s) # {}}

\* clear_teardown_drain also reopens the session's spawn admission.
Reopened(R) == spawn_blocked \ (teardown_drains \ TeardownsAfter(R))

Resolve(R) ==
    /\ workflow_cancel_waiters' = WorkflowWaitersAfter(R)
    /\ teardown_drains' = TeardownsAfter(R)
    /\ spawn_blocked' = Reopened(R)

\* resolve_drain_waiters closes every turn of the loop.
MutSettle ==
    /\ turn' = "loop"
    /\ drain_waiters' = drain_waiters
Settle ==
    /\ turn' = "loop"
    /\ drain_waiters' = {d \in drain_waiters : TurnBlocking(d)' # {}}

Cancelling(T) == token' = [i \in Ids |-> token[i] \/ i \in T]

----------------------------------------------------------------------------
\* Events from other tasks

\* The caller of a spawn drops its receiver; a workflow's backend cancels too.
CallerLeaves(i) ==
    /\ turn # "stopped"
    /\ i \in MayLeave
    /\ caller[i] = "awaiting"
    /\ caller' = [caller EXCEPT ![i] = "gone"]
    /\ Cancelling(IF Asked[i].owner # "task" THEN {i} ELSE {})
    /\ UNCHANGED <<setup, turn, commands_open, place, ahead, request, killed, handle_only, run, waiter,
                   disposition, waitVars>>

\* The token of a foreground or workflow spawn is cancelled with its tool call.
TokenCancelled(i) ==
    /\ turn # "stopped"
    /\ i \in Live
    /\ ~token[i]
    /\ Asked[i].run_in_background => Asked[i].owner # "task"
    /\ Cancelling({i})
    /\ UNCHANGED <<setup, turn, commands_open, place, ahead, request, killed, handle_only, caller, run,
                   waiter, disposition, waitVars>>

WaiterLeaves(i) ==
    /\ turn # "stopped"
    /\ waiter[i] = "waiting"
    /\ waiter' = [waiter EXCEPT ![i] = "abandoned"]
    /\ UNCHANGED <<setup, turn, commands_open, place, ahead, request, token, killed, handle_only, caller,
                   run, disposition, waitVars>>

\* Every sender of commands is dropped.
CommandsClose ==
    /\ turn = "loop"
    /\ commands_open
    /\ commands_open' = FALSE
    /\ UNCHANGED <<setup, turn, childVars, waitVars>>

----------------------------------------------------------------------------
\* reap_abandoned_callers: before a command, before the timers, or by itself

Abandoned == {i \in Live : caller[i] = "gone" /\ (place[i] = "queued" \/ ~handle_only[i])}

\* Task children are backgrounded, workflow children cancelled; then the queued
\* spawns with a cancelled token are removed.
ReapFor(next) ==
    LET R == CancelledQueued IN
    /\ turn = "loop"
    /\ \E S \in Sweep(R) : Finish(R, R, S, Abandoned, {i \in Abandoned : ~Task(i)})
    /\ Resolve(R)
    /\ pending_completions' = pending_completions \cup Buffered(R)
    /\ UNCHANGED <<setup, commands_open, request, killed>>
    /\ IF next = "loop" THEN Settle ELSE turn' = next /\ UNCHANGED drain_waiters

Budgeted == {i \in Live : ~handle_only[i] /\ ~Asked[i].await_to_completion}

\* next_deadline is Some: a parked spawn, a foreground budget, a waiter or a
\* teardown drain.
HasDeadline ==
    \/ Queued # {} \/ Budgeted # {} \/ teardown_drains # {}
    \/ \E i \in Ids : waiter[i] # "none"

\* The three arms of the loop that reap; the first is poll_caller_abandoned.
Reap        == Abandoned \cap Running # {} /\ ReapFor("loop")
CommandWake == commands_open /\ ReapFor("command")
TimerWake   == HasDeadline /\ ReapFor("timer")

----------------------------------------------------------------------------
\* Commands

Command == turn = "command"

\* reparent_nested_spawn: only a spawner that is still active is found.
Spawner(i) == {p \in Ids : p = Asked[i].parent /\ place[p] = "active"}
TornDown(i) == \E p \in Spawner(i) : token[p]

Reparented(i) ==
    IF Spawner(i) = {} THEN request[i]
    ELSE LET spawner == Asked[i].parent IN
         [session            |-> request[spawner].session,
          owner              |-> IF Task(i) THEN request[spawner].owner ELSE request[i].owner,
          surface_completion |-> FALSE]

Refused(i) ==
    \/ TornDown(i)
    \/ Reparented(i).owner = "task" /\ Reparented(i).session \in spawn_blocked

MutAdmittedUnrooted(i) == Reparented(i).owner # "task" \/ HasCapacity(Asked[i].parent)
Admitted(i) == Reparented(i).owner # "task" \/ HasCapacity(Reparented(i).session)

\* A child's own session spawns only once the child has been active.
CanSpawn(i) ==
    /\ place[i] = "unborn"
    /\ \A p \in Ids : Asked[i].parent = p =>
          place[p] = "active" \/ disposition[p].started

RefuseSpawn(i) ==
    /\ Command
    /\ CanSpawn(i)
    /\ Refused(i)
    /\ place' = [place EXCEPT ![i] = "refused"]
    /\ UNCHANGED <<setup, commands_open, ahead, request, token, killed, handle_only, caller, run, waiter,
                   disposition, pending_completions, workflow_cancel_waiters, teardown_drains,
                   spawn_blocked>>
    /\ Settle

\* AdmissionDecision::Start and Enqueue.
AdmitSpawn(i) ==
    /\ Command
    /\ CanSpawn(i)
    /\ ~Refused(i)
    /\ Admitted(i) \/ QueueAtLimit
    /\ request' = [request EXCEPT ![i] = Reparented(i)]
    /\ caller' = [caller EXCEPT ![i] = "awaiting"]
    /\ IF Admitted(i)
       THEN /\ place' = [place EXCEPT ![i] = "pending"]
            /\ run' = [run EXCEPT ![i] = "running"]
            /\ UNCHANGED ahead
       ELSE /\ place' = [place EXCEPT ![i] = "queued"]
            /\ ahead' = [ahead EXCEPT ![i] = Queued]
            /\ UNCHANGED run
    /\ UNCHANGED <<setup, commands_open, token, killed, handle_only, waiter, disposition,
                   pending_completions, workflow_cancel_waiters, teardown_drains, spawn_blocked>>
    /\ Settle

\* finish_never_started goes through finish_child with the caller still there.
RejectedDisposition(i) ==
    [NoDisposition EXCEPT !.told = ~handle_only[i],
                          !.surfaced = Reparented(i).surface_completion /\ handle_only[i]]

\* AdmissionDecision::Reject: the spawn finishes with a failure, never started.
RejectSpawn(i) ==
    /\ Command
    /\ CanSpawn(i)
    /\ ~Refused(i)
    /\ ~Admitted(i) /\ ~QueueAtLimit
    /\ request' = [request EXCEPT ![i] = Reparented(i)]
    /\ place' = [place EXCEPT ![i] = "completed"]
    /\ disposition' = [disposition EXCEPT ![i] = RejectedDisposition(i)]
    /\ pending_completions' = pending_completions
          \cup {j \in {i} : Reparented(i).surface_completion /\ Reparented(i).owner = "task"}
    /\ UNCHANGED <<setup, commands_open, ahead, token, killed, handle_only, caller, run, waiter,
                   workflow_cancel_waiters, teardown_drains, spawn_blocked>>
    /\ Settle

\* Cancel: T are the tokens it cancels, Q the queued spawns it removes.
CancelChildren(T, Q) ==
    LET R == WithCancelled(Q) IN
    /\ \E S \in Sweep(R) : Finish(R, R, S, {}, T)
    /\ pending_completions' = pending_completions \cup Buffered(R)

\* SubagentCancelTarget::SubagentId
CancelOne(i) ==
    /\ Command
    /\ i \in Live
    /\ CancelChildren({i} \cap Running, {i} \cap Queued)
    /\ killed' = [killed EXCEPT ![i] = @ \/ i \in Running]
    /\ Resolve(WithCancelled({i} \cap Queued))
    /\ UNCHANGED <<setup, commands_open, request>>
    /\ Settle

\* SubagentCancelTarget::ParentPromptId
CancelPrompt(d) ==
    LET hit == {i \in Of(d.session) : Asked[i].prompt = d.prompt}
        R   == WithCancelled(hit \cap Queued)
    IN
    /\ Command
    /\ CancelChildren(hit \cap Running, hit \cap Queued)
    /\ Resolve(R)
    /\ UNCHANGED <<setup, commands_open, request, killed>>
    /\ Settle

Stopped(s) == {i \in Live \cap Of(s) : Task(i)}

\* SubagentCancelTarget::ParentSession, the user's Stop.
CancelSession(s) ==
    LET R == WithCancelled(Stopped(s) \cap Queued) IN
    /\ Command
    /\ CancelChildren(Stopped(s) \cap Running, Stopped(s) \cap Queued)
    /\ workflow_cancel_waiters' = WorkflowWaitersAfter(R)
    /\ teardown_drains' = TeardownsAfter(R)
    /\ spawn_blocked' = (spawn_blocked \cup {s}) \ (teardown_drains \ TeardownsAfter(R))
    /\ UNCHANGED <<setup, commands_open, request, killed>>
    /\ Settle

\* SubagentCancelTarget::WorkflowRunId: answered now, or by the last child.
CancelWorkflow(r) ==
    /\ Command
    /\ Cancelling(WorkflowOutstanding(r))
    /\ workflow_cancel_waiters' =
         workflow_cancel_waiters \cup {w \in {r} : WorkflowOutstanding(r) # {}}
    /\ UNCHANGED <<setup, commands_open, place, ahead, request, killed, handle_only, caller, run, waiter,
                   disposition, pending_completions, teardown_drains, spawn_blocked>>
    /\ Settle

Silenced(s) == Live \cap Of(s)

\* TeardownSession; with a responder (the delete path) spawn admission is held
\* closed until the last child has drained.
TeardownSession(s, responder) ==
    LET R    == WithCancelled(Queued \cap Of(s))
        held == responder /\ (Live \ R) \cap Of(s) # {}
    IN
    /\ Command
    /\ \E S \in Sweep(R) : Finish(R, R, S, {}, Live \cap Of(s))
    /\ request' = [i \in Ids |-> IF i \in Silenced(s)
                                 THEN [request[i] EXCEPT !.surface_completion = FALSE]
                                 ELSE request[i]]
    /\ pending_completions' =
         (pending_completions \ Of(s)) \cup {i \in Buffered(R) : request'[i].surface_completion}
    /\ workflow_cancel_waiters' = WorkflowWaitersAfter(R)
    /\ teardown_drains' = TeardownsAfter(R) \cup {t \in {s} : held}
    /\ spawn_blocked' = Reopened(R) \cup {t \in {s} : held}
    /\ UNCHANGED <<setup, commands_open, killed>>
    /\ Settle

\* The next turn reopens admission, but not while a teardown is draining.
OpenSpawnAdmission(s) ==
    /\ Command
    /\ spawn_blocked' = spawn_blocked \ ({s} \ teardown_drains)
    /\ UNCHANGED <<setup, commands_open, childVars, pending_completions, workflow_cancel_waiters,
                   teardown_drains>>
    /\ Settle

\* WaitPromptDrained parks only when something still blocks the turn.
WaitPromptDrained(d) ==
    /\ Command
    /\ turn' = "loop"
    /\ drain_waiters' = {e \in drain_waiters \cup {d} : TurnBlocking(e) # {}}
    /\ UNCHANGED <<setup, commands_open, childVars, pending_completions, workflow_cancel_waiters,
                   teardown_drains, spawn_blocked>>

\* A blocking query of a live task child.
Query(i) ==
    /\ Command
    /\ i \in Live \cap MayQuery
    /\ Task(i)
    /\ waiter[i] = "none"
    /\ waiter' = [waiter EXCEPT ![i] = "waiting"]
    /\ UNCHANGED <<setup, commands_open, place, ahead, request, token, killed, handle_only, caller, run,
                   disposition, pending_completions, workflow_cancel_waiters, teardown_drains,
                   spawn_blocked>>
    /\ Settle

\* Completions hands the session its buffered completions.
Completions(s) ==
    /\ Command
    /\ pending_completions' = pending_completions \ Of(s)
    /\ UNCHANGED <<setup, commands_open, childVars, workflow_cancel_waiters, teardown_drains,
                   spawn_blocked>>
    /\ Settle

----------------------------------------------------------------------------
\* Runner events

\* Promotion; a cancelled token keeps the child pending (nothing changes here).
Started(i) ==
    /\ turn = "loop"
    /\ place[i] = "pending"
    /\ run[i] = "running"
    /\ ~token[i]
    /\ place' = [place EXCEPT ![i] = "active"]
    /\ UNCHANGED <<setup, commands_open, ahead, request, token, killed, handle_only, caller, run, waiter,
                   disposition, pending_completions, workflow_cancel_waiters, teardown_drains,
                   spawn_blocked>>
    /\ Settle

\* finish_child: the run ended (or panicked), or its last admission settled.
RunEnds(i) ==
    /\ turn = "loop"
    /\ run[i] \in {"running", "buffered"}
    /\ LET R == {i} \cup CancelledQueued IN
       /\ \E S \in Sweep(R), cancelled \in BOOLEAN :
             Finish(R, IF cancelled THEN R ELSE R \ {i}, S, {}, {})
       /\ killed' = [killed EXCEPT ![i] = FALSE]
       /\ pending_completions' = pending_completions \cup Buffered(R)
       /\ Resolve(R)
    /\ UNCHANGED <<setup, commands_open, request>>
    /\ Settle

\* begin_terminalization of a child with admissions in flight keeps the output.
BufferOutput(i) ==
    /\ turn = "loop"
    /\ place[i] = "active"
    /\ run[i] = "running"
    /\ run' = [run EXCEPT ![i] = "buffered"]
    /\ UNCHANGED <<setup, commands_open, place, ahead, request, token, killed, handle_only, caller,
                   waiter, disposition, pending_completions, workflow_cancel_waiters,
                   teardown_drains, spawn_blocked>>
    /\ Settle

----------------------------------------------------------------------------
\* process_deadlines after its reap: the foreground budgets of F, the waiters of
\* W and the teardown drains of D are due.

\* clear_teardown_drain at TEARDOWN_DRAIN_MAX: a child that never ends cannot
\* hold spawn admission for ever.
ReopenedAt(D) == spawn_blocked \ D

ProcessDeadlines(F, W, D) ==
    /\ turn = "timer"
    /\ handle_only' = [i \in Ids |-> handle_only[i] \/ i \in F]
    /\ caller' = [i \in Ids |-> IF i \in F THEN "none" ELSE caller[i]]
    /\ waiter' = [i \in Ids |-> IF i \in W THEN "none" ELSE waiter[i]]
    /\ teardown_drains' = teardown_drains \ D
    /\ spawn_blocked' = ReopenedAt(D)
    /\ UNCHANGED <<setup, commands_open, place, ahead, request, token, killed, run, disposition,
                   pending_completions, workflow_cancel_waiters>>
    /\ Settle

----------------------------------------------------------------------------
\* The loop ends by itself once nothing can happen, or its future is dropped.
Exit ==
    /\ turn = "loop"
    /\ ~commands_open
    /\ \A i \in Ids : run[i] = "none"
    /\ turn' = "stopped"
    /\ UNCHANGED <<setup, commands_open, childVars, waitVars>>

Drop ==
    /\ turn = "loop"
    /\ turn' = "stopped"
    /\ Cancelling(Live)
    /\ caller' = [i \in Ids |-> "none"]
    /\ place' = [i \in Ids |-> IF i \in Live THEN "dropped" ELSE place[i]]
    /\ run' = [i \in Ids |-> "none"]
    /\ waiter' = [i \in Ids |-> "none"]
    /\ drain_waiters' = {} /\ workflow_cancel_waiters' = {} /\ teardown_drains' = {}
    /\ pending_completions' = {} /\ spawn_blocked' = {}
    /\ UNCHANGED <<setup, commands_open, ahead, request, killed, handle_only, disposition>>

Terminated == turn = "stopped" /\ UNCHANGED vars

\* The child's own timer or run; the actor's own work.
Child(i) == Started(i) \/ RunEnds(i) \/ BufferOutput(i)

Commands ==
    \/ \E i \in Ids : RefuseSpawn(i) \/ AdmitSpawn(i) \/ RejectSpawn(i) \/ CancelOne(i) \/ Query(i)
    \/ \E d \in Scopes : CancelPrompt(d) \/ WaitPromptDrained(d)
    \/ \E s \in Sessions : \/ CancelSession(s)
                           \/ \E responder \in BOOLEAN : TeardownSession(s, responder)
                           \/ OpenSpawnAdmission(s)
                           \/ Completions(s)
    \/ \E r \in WorkflowRuns : CancelWorkflow(r)

Timers ==
    \E F \in SUBSET Budgeted, W \in SUBSET {i \in Ids : waiter[i] # "none"},
       D \in SUBSET teardown_drains : ProcessDeadlines(F, W, D)

Next ==
    \/ \E i \in Ids : CallerLeaves(i) \/ TokenCancelled(i) \/ WaiterLeaves(i) \/ Child(i)
    \/ Reap \/ CommandWake \/ TimerWake \/ CommandsClose
    \/ Commands
    \/ Timers
    \/ Exit \/ Drop \/ Terminated

Spec == Init /\ [][Next]_vars

\* The actor keeps turning: what a reap was made for is handled, an abandoned
\* caller wakes the loop, and the timers of next_deadline are not starved by an
\* endless stream of commands.
ActorFairness ==
    /\ WF_vars(Commands)
    /\ WF_vars(Timers)
    /\ SF_vars(Reap)
    /\ SF_vars(TimerWake)
    /\ \A i \in Ids : SF_vars(Timers /\ i \in Budgeted /\ handle_only'[i])
    /\ \A s \in Parents : SF_vars(Timers /\ s \in teardown_drains \ teardown_drains')

TimelySpec == Spec /\ ActorFairness

\* An assumption on the host, made only where a property needs it: every run
\* ends, because ChildRunner's futures complete or panic.
RunsEnd == \A i \in Ids : SF_vars(RunEnds(i))

----------------------------------------------------------------------------
\* Properties

\* The session's concurrency limit holds whatever mix of direct starts, dequeues
\* and reparented spawns fills it; and a queued spawn always has a full session in
\* front of it, so a run is in flight whose end will sweep the queue
\* (coordinator.rs, exit check of run).
LimitIsUsed ==
    /\ \A s \in Parents : Cardinality(Counted(s)) <= Slots
    /\ \A i \in Queued : Task(i) /\ Cardinality(Counted(request[i].session)) = Slots

\* Nobody waits for something that is over: a blocking query has a live child, a
\* parked workflow cancel an outstanding agent, a held teardown keeps admission
\* closed and still has a child to wait for, and, between two turns of the loop, a
\* parked prompt drain has a child that blocks its turn.  A stopped session has
\* nothing queued that a later sweep could start.
NobodyWaitsForNothing ==
    /\ \A i \in Ids : waiter[i] # "none" => i \in Live
    /\ \A r \in workflow_cancel_waiters : WorkflowOutstanding(r) # {}
    /\ \A s \in teardown_drains : s \in spawn_blocked /\ SessionHasChildren(s)
    /\ turn = "loop" => \A d \in drain_waiters : TurnBlocking(d) # {}
    /\ \A i \in Queued : request[i].session \notin spawn_blocked

\* A completion the parent should learn of reaches it: through the awaiting caller,
\* a waiter or the surfaced flag of its completion event, which excludes the first two.
\* (The buffer of completions also takes the told ones, and the host leaves those out.)
\* But a child that was alive when its session was torn down never shows up in the
\* session's buffer afterwards.
CompletionsReported ==
    /\ [][\A i \in Ids : place[i] # "completed" /\ place'[i] = "completed" =>
            LET d == disposition'[i] IN
            /\ ~(d.told /\ d.surfaced)
            /\ request'[i].surface_completion /\ ~d.cancelled /\ ~killed[i] =>
                  d.told \/ d.surfaced]_vars
    /\ [][\A s \in Sessions : (\E r \in BOOLEAN : TeardownSession(s, r)) =>
            \A i \in Of(s) \cap Live :
                ~request'[i].surface_completion /\ i \notin pending_completions']_vars

\* A spawn never overtakes an older one queued in its session: when a task
\* child starts, everything queued before it in the session has left the queue.
NoOvertaking ==
    [][\A i, j \in Ids :
         /\ place[j] \in {"unborn", "queued"} /\ place'[j] = "pending"
         /\ place[i] = "queued" /\ place'[i] = "queued"
         /\ request'[j].owner = "task" /\ request'[j].session = request[i].session
         => place[j] = "queued" /\ j \in ahead[i]]_vars

\* When the loop exits by itself every spawn has been answered and no queue,
\* query, drain, workflow cancel or teardown is left behind.
ExitIsClean ==
    [][Exit => /\ Live = {}
               /\ drain_waiters = {} /\ workflow_cancel_waiters = {} /\ teardown_drains = {}
               /\ \A i \in Ids : waiter[i] = "none" /\ caller[i] = "none"]_vars

\* If runs end, a queued spawn starts or is finished.
QueuedLeaves ==
    RunsEnd => \A i \in Ids : place[i] = "queued" ~> place[i] # "queued"

\* What is held is released: if runs end, a parked prompt drain, whether its children
\* finish, are handed off at their deadline or lose their callers; and a teardown's
\* hold on spawn admission even if its child never ends.
HoldsAreReleased ==
    /\ RunsEnd => \A d \in Scopes : d \in drain_waiters ~> d \notin drain_waiters \/ turn = "stopped"
    /\ \A s \in Sessions : s \in teardown_drains ~> s \notin spawn_blocked \/ turn = "stopped"
==============================================================================
