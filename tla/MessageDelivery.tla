---------------------------- MODULE MessageDelivery ----------------------------
(***************************************************************************)
(* How a session takes in user prompts and messages of a parent agent, and *)
(* what becomes of them: a prompt or a Queue message is a row of           *)
(* pending_inputs and runs as a turn of its own; a Steer message occupies  *)
(* a slot bound to the running turn and is drained into the conversation   *)
(* at that turn's next safe point.                                         *)
(*                                                                         *)
(* Three actors share the state lock.  The session loop runs one handler   *)
(* at a time, so a handler is one action, the promotion it ends with       *)
(* included; a rewind is three, because it gives the lock up before it     *)
(* cuts the conversation and nothing stops a promotion meanwhile.  The     *)
(* turn task runs beside the loop: its drain reads the slots, awaits a     *)
(* persistence barrier without the lock, and commits.  Two tasks that the  *)
(* loop spawned promote rows on their own.                                 *)
(*                                                                         *)
(* Send-now, edit holds, merged rows, notifications and synthetic wakes    *)
(* other than the plan's are left out.                                     *)
(***************************************************************************)
EXTENDS Integers, Sequences, SequencesExt, FiniteSets

CONSTANTS
    Prompts,    \* user prompts that may arrive
    Messages,   \* parent messages that may arrive
    Resumes,    \* plan-resume rows that may be queued
    MaxSteer,   \* MAX_PARENT_STEER_SLOTS
    McpPending, \* MCP is still being initialized when the session starts
    MayClose    \* mailboxes that may close: "persistence", "chat"

Inputs == Prompts \cup Messages \cup Resumes

ASSUME DeliveryAssumption ==
    /\ IsFiniteSet(Inputs) /\ Inputs \cap {"none", "all"} = {}
    /\ Prompts \cap Messages = {} /\ Resumes \cap (Prompts \cup Messages) = {}
    /\ MaxSteer \in Nat /\ McpPending \in BOOLEAN /\ MayClose \subseteq {"persistence", "chat"}

VARIABLES
    loop,           \* of the session: "open", "closed" (it returned), "gone" (dropped)
    pending_inputs, \* the front row is the running turn's
    running_task,   \* its binding: prompt_id and epoch
    epoch,          \* TurnReportSlot
    task,           \* where the turn task is
    turn_index,     \* current_prompt_index, a local of the turn task
    rewindable, held,
    mcp_waits,      \* the task that promotes once MCP is initialized has not done so
    rewinding,      \* what a rewind in progress has claimed
    slots,          \* MessageDeliveryLifecycle
    prompt_index, conversation,     \* of the chat-state actor
    mailboxes,      \* the open ones
    reports,        \* the completion channel: results of turns, stale ones too
    receipt,        \* what the sender of an input has been told
    pushes,         \* history: times an input's text was pushed to the conversation
    written,        \* history: messages whose text was sent to updates.jsonl
    undelivered,    \* history: inputs whose push could not be made
    overtaken       \* history: a rewind ended after another turn was promoted

session  == <<loop, pending_inputs, running_task, epoch, task, turn_index,
              rewindable, held, mcp_waits, rewinding>>
chat     == <<prompt_index, conversation>>
channels == <<mailboxes, reports>>
history  == <<pushes, written, undelivered, overtaken>>
vars     == <<session, slots, chat, channels, receipt, history>>

NoTurn  == [input |-> "none", epoch |-> 0]
Results == {"ok", "error", "cancelled"}
Stages  == {"starting", "hook", "blocked", "indexed", "working", "barrier", "ended"}
Phases  == <<"delivered", "projecting", "pending">>

\* A claimed rewind: the popped row, the epoch and the cut taken under the lock
\* (a legacy rewind takes it again later), the messages that end with the turn,
\* and from the snapshot on what will be restored.
Rewinds == [stage : {"claimed", "snapshot"}, input : Prompts, epoch : Nat, legacy : BOOLEAN,
            target : Nat, messages : SUBSET Messages,
            kept : Seq([input : Inputs, marker : Int])]
NoRewind == [stage |-> "none", input |-> "none", epoch |-> 0, legacy |-> FALSE,
             target |-> 0, messages |-> {}, kept |-> <<>>]

TypeOK ==
    /\ loop \in {"open", "closed", "gone"}
    /\ pending_inputs \in Seq(Inputs)
    /\ running_task \in [input : Inputs, epoch : Nat] \cup {NoTurn}
    /\ epoch \in Nat /\ prompt_index \in Nat /\ turn_index \in Nat
    /\ task \in Stages \cup {"none"}
    /\ reports \in Seq([turn : [input : Inputs, epoch : Nat], result : Results])
    /\ rewindable \in BOOLEAN /\ held \in BOOLEAN /\ mcp_waits \in BOOLEAN
    /\ rewinding \in Rewinds \cup {NoRewind} /\ overtaken \in BOOLEAN
    /\ slots \in Seq([id : Messages, turn : [input : Inputs, epoch : Nat],
                      phase : {Phases[1], Phases[2], Phases[3]}])
    /\ conversation \in Seq([input : Inputs, marker : Int])
    /\ mailboxes \subseteq {"persistence", "chat"}
    /\ receipt \in [Inputs -> {"none", "waiting", "rewound"} \cup Results]
    /\ pushes \in [Inputs -> Nat]
    /\ written \subseteq Messages /\ undelivered \subseteq Inputs

Init ==
    /\ loop = "open" /\ pending_inputs = <<>> /\ running_task = NoTurn
    /\ epoch = 0 /\ task = "none" /\ turn_index = 0 /\ rewindable = FALSE /\ held = FALSE
    /\ mcp_waits = McpPending /\ rewinding = NoRewind /\ overtaken = FALSE
    /\ slots = <<>> /\ prompt_index = 0 /\ conversation = <<>>
    /\ mailboxes = {"persistence", "chat"} /\ reports = <<>>
    /\ receipt = [i \in Inputs |-> "none"]
    /\ pushes = [i \in Inputs |-> 0] /\ written = {} /\ undelivered = {}

--------------------------------------------------------------------------------
(* The lifecycle of slots.                                                  *)

Ids(s) == {s[k].id : k \in DOMAIN s}
\* The slots at the indices T, in their order
InOrder(T) ==
    LET at == CHOOSE at \in [1..Cardinality(T) -> T] :
                  Range(at) = T /\ \A j, k \in DOMAIN at : j < k => at[j] < at[k]
    IN  [k \in 1..Cardinality(T) |-> slots[at[k]]]
InPhase(p, turn) == InOrder({k \in DOMAIN slots : slots[k].phase = p /\ slots[k].turn = turn})
MutAdvance(from, to, turn) ==     \* finish_delivery leaves its slots projecting
    [k \in DOMAIN slots |->
        IF slots[k].phase = from /\ slots[k].turn = turn /\ to # "delivered"
        THEN [slots[k] EXCEPT !.phase = to] ELSE slots[k]]
Advance(from, to, turn) ==
    [k \in DOMAIN slots |->
        IF slots[k].phase = from /\ slots[k].turn = turn THEN [slots[k] EXCEPT !.phase = to]
                                                         ELSE slots[k]]

\* TerminalTarget::All, or the slots bound to one turn.
All == [input |-> "all", epoch |-> 0]
MutTargeted(s, target) ==         \* forgets the slots that were delivered
    target = All \/ (s.turn = target /\ s.phase # "delivered")
Targeted(s, target) == target = All \/ s.turn = target
FallsBack(cause) == cause \in {"Completion", "SoftCancel", "Rewind"}

Kept(target) == InOrder({k \in DOMAIN slots : ~Targeted(slots[k], target)})
Returned(k, cause) == slots[k].phase = "pending" /\ FallsBack(cause)
Fallbacks(target, cause) ==
    InOrder({k \in DOMAIN slots : Targeted(slots[k], target) /\ Returned(k, cause)})
Completions(target, cause) ==
    {slots[k].id : k \in {j \in DOMAIN slots : Targeted(slots[j], target) /\ ~Returned(j, cause)}}
FallbackRows(target, cause) ==
    [k \in DOMAIN Fallbacks(target, cause) |-> Fallbacks(target, cause)[k].id]

Told(S, result) == [i \in Inputs |-> IF i \in S THEN result ELSE receipt[i]]

--------------------------------------------------------------------------------
(* The session loop.                                                        *)

\* The loop awaits one handler at a time, a rewind to its end.
Free == loop = "open" /\ rewinding = NoRewind

\* maybe_start_running_task, at the end of a handler that leaves `rows` queued
\* and `turn` running: the front row is promoted if nothing runs and no hook
\* block holds the queue.
Promote(rows, turn, stage) ==
    /\ pending_inputs' = rows
    /\ IF turn = NoTurn /\ rows # <<>> /\ ~held'
       THEN /\ epoch' = epoch + 1
            /\ running_task' = [input |-> Head(rows), epoch |-> epoch + 1]
            /\ task' = "starting" /\ rewindable' = TRUE
       ELSE /\ running_task' = turn /\ task' = stage
            /\ UNCHANGED <<epoch, rewindable>>

Enqueue(i) ==
    /\ receipt' = Told({i}, "waiting")
    /\ Promote(Append(pending_inputs, i), running_task, task)
    /\ UNCHANGED <<loop, turn_index, mcp_waits, rewinding, slots, chat, channels, history>>

\* A user prompt also releases the hook-block hold.
Prompt(p) ==
    /\ Free /\ receipt[p] = "none"
    /\ held' = FALSE
    /\ Enqueue(p)

\* The identity check.  A message id is minted per send, so only an id that is
\* still live can come back; it is rejected and nothing changes.
Live(m) == m \in Ids(slots) \/ m \in Range(pending_inputs)
Admissible(m) == receipt[m] \in {"none", "waiting"} /\ ~Live(m)

\* A Queue message, or a Steer while no turn runs.
AdmitQueue(m) ==
    /\ Free /\ Admissible(m)
    /\ held' = held
    /\ Enqueue(m)

HasSlot == Len(slots) < MaxSteer

AdmitSteer(m) ==
    /\ Free /\ Admissible(m) /\ HasSlot
    /\ running_task # NoTurn
    /\ slots' = Append(slots, [id |-> m, turn |-> running_task, phase |-> "pending"])
    /\ receipt' = Told({m}, "waiting")
    /\ UNCHANGED <<session, chat, channels, history>>

\* The claim of a completion: the reported turn still runs and is the front row.
MutClaims(turn) ==                \* the front is popped whatever turn was reported
    running_task # NoTurn /\ pending_inputs # <<>>
Claims(turn) ==
    running_task = turn /\ pending_inputs # <<>> /\ Head(pending_inputs) = turn.input

MutCompletion ==                  \* does not promote the next row
    /\ Free /\ reports # <<>> /\ reports' = Tail(reports)
    /\ LET turn == Head(reports).turn IN
        /\ Claims(turn)
        /\ receipt' = Told({Head(pending_inputs)} \cup Completions(turn, "Completion"),
                           Head(reports).result)
        /\ slots' = Kept(turn)
        /\ pending_inputs' = Tail(pending_inputs) \o FallbackRows(turn, "Completion")
    /\ running_task' = NoTurn /\ task' = "none"
    /\ UNCHANGED <<loop, epoch, turn_index, rewindable, held, mcp_waits, rewinding, chat, mailboxes, history>>
\* handle_completion of the turn the task reported.
Completion ==
    /\ Free /\ reports # <<>> /\ reports' = Tail(reports)
    /\ LET turn == Head(reports).turn IN
        /\ Claims(turn)
        /\ receipt' = Told({Head(pending_inputs)} \cup Completions(turn, "Completion"),
                           Head(reports).result)
        /\ slots' = Kept(turn)
        /\ UNCHANGED <<loop, turn_index, held, mcp_waits, rewinding, chat, mailboxes, history>>
        /\ Promote(Tail(pending_inputs) \o FallbackRows(turn, "Completion"), NoTurn, "none")

\* The report of a turn that a cancel or a rewind ended first.
StaleCompletion ==
    /\ Free /\ reports # <<>> /\ reports' = Tail(reports)
    /\ ~Claims(Head(reports).turn)
    /\ UNCHANGED <<session, slots, chat, mailboxes, receipt, history>>

\* A cancel that keeps the history: the turn is aborted and its row removed.
FrontRuns == running_task # NoTurn => pending_inputs # <<>> /\ Head(pending_inputs) = running_task.input
CancelTarget == IF running_task = NoTurn THEN All ELSE running_task

SoftCancel ==
    /\ Free /\ FrontRuns
    /\ LET rows == pending_inputs \o FallbackRows(CancelTarget, "SoftCancel")
           cancelled == IF rows = <<>> THEN {} ELSE {Head(rows)}
       IN  /\ receipt' = Told(cancelled \cup Completions(CancelTarget, "SoftCancel"), "cancelled")
           /\ slots' = Kept(CancelTarget)
           /\ UNCHANGED <<loop, turn_index, held, mcp_waits, rewinding, chat, channels, history>>
           /\ Promote(IF rows = <<>> THEN rows ELSE Tail(rows), NoTurn, "none")

\* kill_background_tasks: everything queued or slotted is cancelled.
HardCancelled ==
    /\ receipt' = Told(Range(pending_inputs) \cup Completions(All, "HardTeardown"), "cancelled")
    /\ slots' = Kept(All)
    /\ pending_inputs' = <<>> /\ running_task' = NoTurn /\ task' = "none"
    /\ UNCHANGED <<epoch, turn_index, rewindable, held, mcp_waits, rewinding, chat, mailboxes, history>>

HardCancel ==
    /\ Free /\ FrontRuns
    /\ HardCancelled
    /\ UNCHANGED <<loop, reports>>

\* conversation_truncate_for_prompt: everything from the first prompt whose
\* marker is not below the target is cut.
CutAt(target) ==
    LET first == SelectInSeq(conversation, LAMBDA c : c.marker >= target)
    IN  IF first = 0 THEN conversation ELSE SubSeq(conversation, 1, first - 1)
MutRewindIndex == prompt_index - 1         \* does not saturate
RewindIndex == IF prompt_index = 0 THEN 0 ELSE prompt_index - 1

\* A cancel that rewinds: the no-output window is open and the front is the
\* user's.  Named by id the slots of its turn end; a legacy client names no id
\* and all of them do.  The row is popped and the turn aborted under the lock.
RewindClaim(legacy) ==
    /\ Free /\ rewindable
    /\ pending_inputs # <<>> /\ Head(pending_inputs) \in Prompts
    /\ LET front  == Head(pending_inputs)
           target == IF legacy THEN All ELSE [input |-> front, epoch |-> epoch]
           aborts == legacy \/ running_task.input = front
       IN  /\ rewinding' = [stage |-> "claimed", input |-> front, epoch |-> epoch, legacy |-> legacy,
                            target |-> RewindIndex, messages |-> Completions(target, "Rewind"),
                            kept |-> <<>>]
           /\ slots' = Kept(target)
           /\ pending_inputs' = Tail(pending_inputs) \o FallbackRows(target, "Rewind")
           /\ running_task' = IF aborts THEN NoTurn ELSE running_task
           /\ task' = IF aborts THEN "none" ELSE task
    /\ rewindable' = FALSE
    /\ UNCHANGED <<loop, epoch, turn_index, held, mcp_waits, chat, channels, receipt, history>>

MutRewindSnapshot ==              \* takes the cut anew whoever asked
    /\ rewinding.stage = "claimed"
    /\ receipt' = Told(rewinding.messages, "rewound")
    /\ rewinding' = [rewinding EXCEPT !.stage = "snapshot", !.target = RewindIndex,
                                      !.kept = CutAt(RewindIndex)]
    /\ UNCHANGED <<loop, pending_inputs, running_task, epoch, task, turn_index, rewindable, held,
                   mcp_waits, slots, chat, channels, history>>
\* After the awaits that follow, the messages are told and finish_rewound_cancel
\* takes a snapshot of the chat state, which it cuts.
RewindSnapshot ==
    /\ rewinding.stage = "claimed"
    /\ receipt' = Told(rewinding.messages, "rewound")
    /\ LET target == IF rewinding.legacy THEN RewindIndex ELSE rewinding.target
       IN  rewinding' = [rewinding EXCEPT !.stage = "snapshot", !.target = target, !.kept = CutAt(target)]
    /\ UNCHANGED <<loop, pending_inputs, running_task, epoch, task, turn_index, rewindable, held,
                   mcp_waits, slots, chat, channels, history>>

\* The cut snapshot replaces the chat state, the user is answered, and the
\* handler ends with a promotion.
RewindRestore ==
    /\ rewinding.stage = "snapshot" /\ rewinding' = NoRewind
    /\ IF "chat" \in mailboxes
       THEN conversation' = rewinding.kept /\ prompt_index' = rewinding.target
       ELSE UNCHANGED chat
    /\ receipt' = Told({rewinding.input}, "rewound")
    /\ overtaken' = (overtaken \/ epoch # rewinding.epoch)
    /\ UNCHANGED <<loop, turn_index, held, mcp_waits, slots, channels, pushes, written, undelivered>>
    /\ Promote(pending_inputs, running_task, task)

\* The loop returns: settle_all_parent_messages answers every slot, the turn
\* task is left running, and rows that are still queued keep their senders.
Settled ==
    /\ receipt' = Told(Completions(All, "HardTeardown"), "error")
    /\ slots' = Kept(All)

Close ==
    /\ Free /\ loop' = "closed"
    /\ Settled /\ reports' = <<>>
    /\ UNCHANGED <<pending_inputs, running_task, epoch, task, turn_index, rewindable, held, mcp_waits,
                   rewinding, chat, mailboxes, history>>

ShutdownCancelling ==
    /\ Free /\ loop' = "closed" /\ FrontRuns
    /\ HardCancelled /\ reports' = <<>>

\* What a rewind in progress has taken and not answered yet.
Claimed == {rewinding.input} \cup (IF rewinding.stage = "claimed" THEN rewinding.messages ELSE {})

\* The actor is dropped.  MessageDeliveryState's Drop answers the slots; a
\* sender that is queued or claimed is dropped, which its receiver sees as an
\* error.
DropActor ==
    /\ loop # "gone" /\ loop' = "gone"
    /\ receipt' = Told(Range(pending_inputs) \cup Claimed \cup Completions(All, "ActorDrop"), "error")
    /\ slots' = Kept(All)
    /\ pending_inputs' = <<>> /\ running_task' = NoTurn /\ task' = "none"
    /\ reports' = <<>> /\ rewinding' = NoRewind
    /\ UNCHANGED <<epoch, turn_index, rewindable, held, mcp_waits, chat, mailboxes, history>>

--------------------------------------------------------------------------------
(* The tasks that promote beside the loop.                                  *)

\* The loop's start-up task, once MCP is initialized, and only if it finds a row
\* to promote; it is aborted with the loop.
McpPromote ==
    /\ loop = "open" /\ mcp_waits /\ mcp_waits' = FALSE
    /\ running_task = NoTurn /\ pending_inputs # <<>> /\ ~held
    /\ UNCHANGED <<loop, turn_index, held, rewinding, slots, chat, channels, receipt, history>>
    /\ Promote(pending_inputs, running_task, task)

\* resume_plan_approval queues a synthetic row once the user has decided.
ResumePlan(i) ==
    /\ loop # "gone" /\ receipt[i] = "none"
    /\ held' = held
    /\ Enqueue(i)

--------------------------------------------------------------------------------
(* The turn task.                                                           *)

Beside == <<loop, pending_inputs, running_task, epoch, mcp_waits, rewinding, overtaken>>
Reaches(stage) == task' = stage /\ UNCHANGED <<Beside, turn_index, held>>

\* The report goes nowhere once the loop has returned.
Reported(result) ==
    reports' = IF loop = "open" THEN Append(reports, [turn |-> running_task, result |-> result])
                                ELSE reports

\* The turn reads the prompt index before it awaits the prompt-submit hook, and
\* takes it after the hook; the push of its prompt follows later.
ReadIndex ==
    /\ task = "starting" /\ task' = "hook"
    /\ turn_index' = prompt_index
    /\ UNCHANGED <<Beside, rewindable, held, slots, chat, channels, receipt, pushes, written, undelivered>>

TakeIndex ==
    /\ task = "hook" /\ Reaches("indexed")
    /\ prompt_index' = IF "chat" \in mailboxes THEN prompt_index + 1 ELSE prompt_index
    /\ UNCHANGED <<rewindable, slots, conversation, channels, receipt, pushes, written, undelivered>>

Pushed(S) == [i \in Inputs |-> IF i \in S THEN pushes[i] + 1 ELSE pushes[i]]

PushPrompt ==
    /\ task = "indexed" /\ Reaches("working")
    /\ IF "chat" \in mailboxes
       THEN /\ conversation' = Append(conversation,
                   [input |-> running_task.input, marker |-> turn_index])
            /\ pushes' = Pushed({running_task.input})
            /\ UNCHANGED undelivered
       ELSE /\ undelivered' = undelivered \cup {running_task.input}
            /\ UNCHANGED <<conversation, pushes>>
    /\ UNCHANGED <<rewindable, slots, prompt_index, channels, receipt, written>>

\* A turn that ends before its prompt is in the conversation: the disk is not
\* writable or the prompt is a host command, and, with an index already taken,
\* the prompt does not parse or its images cannot be prepared.
EndEarly(result) ==
    /\ task \in {"starting", "indexed"} /\ Reaches("ended") /\ Reported(result)
    /\ \/ result = "error" /\ UNCHANGED rewindable
       \/ result = "ok" /\ task = "starting" /\ running_task.input \in Prompts /\ rewindable' = FALSE
    /\ UNCHANGED <<slots, chat, mailboxes, receipt, pushes, written, undelivered>>

\* The hook blocks the user's prompt: the queue is held first, and the
\* annotation that says so closes the window.
HookBlocks ==
    /\ task = "hook" /\ task' = "blocked" /\ running_task.input \in Prompts
    /\ held' = TRUE
    /\ UNCHANGED <<Beside, turn_index, rewindable, slots, chat, channels, receipt, pushes, written, undelivered>>

EndBlocked ==
    /\ task = "blocked" /\ Reaches("ended") /\ Reported("cancelled")
    /\ rewindable' = FALSE
    /\ UNCHANGED <<slots, chat, mailboxes, receipt, pushes, written, undelivered>>

\* The first outbound event closes the rewind window; a block that does not
\* count because the row is not the user's is one.
Output ==
    /\ task = "working" \/ (task = "hook" /\ running_task.input \in Resumes)
    /\ rewindable /\ rewindable' = FALSE
    /\ Reaches(task)
    /\ UNCHANGED <<slots, chat, channels, receipt, pushes, written, undelivered>>

BeginDrain ==
    /\ task = "working" /\ Reaches("barrier")
    /\ InPhase("pending", running_task) # <<>>
    /\ slots' = Advance("pending", "projecting", running_task)
    /\ UNCHANGED <<rewindable, chat, channels, receipt, pushes, written, undelivered>>

Batch == InPhase("projecting", running_task)

\* FlushAndAck failed or its reply was dropped: the slots stay projecting.
BarrierFails ==
    /\ task = "barrier" /\ "persistence" \in MayClose /\ Reaches("working")
    /\ undelivered' = undelivered \cup Ids(Batch)
    /\ UNCHANGED <<rewindable, slots, chat, channels, receipt, pushes, written>>

MutCommitNothing ==               \* persists what it had read before the barrier
    /\ task = "barrier" /\ Batch = <<>> /\ Reaches("working")
    /\ written' = written \cup {m \in Messages : receipt[m] = "error" /\ pushes[m] = 0}
    /\ UNCHANGED <<rewindable, slots, chat, channels, receipt, pushes, undelivered>>

\* The slots were settled while the barrier was awaited.
CommitNothing ==
    /\ task = "barrier" /\ Batch = <<>> /\ Reaches("working")
    /\ UNCHANGED <<rewindable, slots, chat, channels, receipt, pushes, written, undelivered>>

CommitDelivery ==
    /\ task = "barrier" /\ Batch # <<>> /\ Reaches("working")
    /\ mailboxes = {"persistence", "chat"}
    /\ slots' = Advance("projecting", "delivered", running_task)
    /\ written' = written \cup Ids(Batch)
    /\ conversation' = conversation \o [k \in DOMAIN Batch |-> [input |-> Batch[k].id, marker |-> -1]]
    /\ pushes' = Pushed(Ids(Batch))
    /\ undelivered' = undelivered \ Ids(Batch)
    /\ UNCHANGED <<rewindable, prompt_index, channels, receipt>>

\* Persistence may close between two sends; chat state only refuses the batch
\* after all of it was sent to persistence.
CommitFails ==
    /\ task = "barrier" /\ Batch # <<>> /\ Reaches("working")
    /\ \E sent \in 0..Len(Batch) :
        /\ sent < Len(Batch) => "persistence" \notin mailboxes
        /\ sent = Len(Batch) => "chat" \notin mailboxes
        /\ written' = written \cup Ids(SubSeq(Batch, 1, sent))
    /\ undelivered' = undelivered \cup Ids(Batch)
    /\ UNCHANGED <<rewindable, slots, chat, channels, receipt, pushes>>

\* The task reports its result to the loop; a turn that went well had output.
EndTurn(result) ==
    /\ task = "working" /\ Reaches("ended") /\ Reported(result)
    /\ rewindable' = (rewindable /\ result # "ok")
    /\ UNCHANGED <<slots, chat, mailboxes, receipt, pushes, written, undelivered>>

CloseMailbox(b) ==
    /\ b \in mailboxes \cap MayClose
    /\ mailboxes' = mailboxes \ {b}
    /\ UNCHANGED <<session, slots, chat, reports, receipt, history>>

--------------------------------------------------------------------------------
TurnTask ==
    \/ ReadIndex \/ HookBlocks \/ EndBlocked \/ TakeIndex \/ PushPrompt \/ Output \/ BeginDrain
    \/ BarrierFails \/ CommitNothing \/ CommitDelivery \/ CommitFails
    \/ \E r \in Results : EndEarly(r) \/ EndTurn(r)

Next ==
    \/ \E p \in Prompts : Prompt(p)
    \/ \E m \in Messages : AdmitQueue(m) \/ AdmitSteer(m)
    \/ Completion \/ StaleCompletion \/ SoftCancel \/ HardCancel
    \/ (\E legacy \in BOOLEAN : RewindClaim(legacy)) \/ RewindSnapshot \/ RewindRestore
    \/ Close \/ ShutdownCancelling \/ DropActor
    \/ McpPromote \/ \E i \in Resumes : ResumePlan(i)
    \/ TurnTask
    \/ \E b \in MayClose : CloseMailbox(b)
    \/ loop = "gone" /\ UNCHANGED vars

Spec == Init /\ [][Next]_vars

\* The turn task, the completion arm and a rewind in progress are scheduled, a
\* turn ends, and once the loop has returned and the turn ended the last
\* reference to the actor goes away.
FairSpec ==
    /\ Spec
    /\ WF_vars(TurnTask) /\ WF_vars(Completion \/ StaleCompletion)
    /\ WF_vars(RewindSnapshot \/ RewindRestore)
    /\ WF_vars(loop = "closed" /\ task \in {"ended", "none"} /\ DropActor)

--------------------------------------------------------------------------------
(* Properties.                                                              *)

Answered(i) == receipt[i] \notin {"none", "waiting"}
Places(i) == {k \in DOMAIN slots : slots[k].id = i} \cup
             {-k : k \in {j \in DOMAIN pending_inputs : pending_inputs[j] = i}} \cup
             {0 : c \in Claimed \cap {i}}

\* An input whose sender still waits sits in exactly one place, a slot, a row or
\* the claim of a rewind, and one that was answered or never came sits in none: no transition loses an
\* input, keeps it twice, or moves one it has settled.  A slot is bound to the turn
\* that runs now, because whatever ends a turn (a completion, each kind of cancel, a
\* rewind, a teardown) also ends its slots; and it never overtakes an earlier one,
\* failed drains included.
InputsAreOwned ==
    /\ \A i \in Inputs : Cardinality(Places(i)) = IF receipt[i] = "waiting" THEN 1 ELSE 0
    /\ \A k \in DOMAIN slots : slots[k].turn = running_task
    /\ \A j, k \in DOMAIN slots : j < k =>
          ~(\E a, b \in 1..3 : a > b /\ slots[j].phase = Phases[a] /\ slots[k].phase = Phases[b])

\* A message whose receipt reports a turn that went well is in the
\* conversation, unless its drain failed downstream.
OkMeansDelivered ==
    \A m \in Messages : receipt[m] = "ok" => pushes[m] = 1 \/ m \in undelivered

\* Text never reaches updates.jsonl after its sender was told the outcome,
\* even if a teardown settles the slot while the drain awaits its barrier.
SettledIsSilent == [][\A m \in Messages : Answered(m) /\ m \in written' => m \in written]_vars

InConversation == {conversation[k].input : k \in DOMAIN conversation}
RewoundRows == {rewinding.input} \cup rewinding.messages
Restored == rewinding.stage = "snapshot" /\ rewinding' = NoRewind
            /\ loop' # "gone" /\ "chat" \in mailboxes

\* What a rewind may cut although it gives the lock up before it cuts and another
\* turn may run by then: if the prompt it rewinds is in the conversation, nothing
\* that precedes the prompt is lost; and nothing of the rewound turn stays, because
\* the cut was captured under the lock.  A legacy rewind takes the cut later, so that
\* this is true of it only if no turn came between.  An earlier rewind that another
\* turn came between leaves that turn's index and rows behind, and then both can fail.
RewindIsExact ==
    /\ [][\A k \in DOMAIN conversation :
              conversation[k].input = rewinding.input /\ ~overtaken =>
                  IsPrefix(SubSeq(conversation, 1, k - 1), conversation')]_vars
    /\ [][Restored /\ ~overtaken /\ (rewinding.legacy => epoch = rewinding.epoch) =>
              InConversation' \cap RewoundRows = {}]_vars

\* A rewind owns only the turn it rewinds (cancel.rs: "A claimed rewind owns
\* only the old turn"), also before that turn has its prompt index.
RewindOwnsOneTurn == [][InConversation \ InConversation' \subseteq RewoundRows]_vars

Contract == INSTANCE MessageContract WITH
    status <- [i \in Inputs |-> CASE receipt[i] = "none" -> "new"
                                  [] receipt[i] = "waiting" -> "owed"
                                  [] OTHER -> "answered"]

\* The session keeps the sender's contract: at most one push, only while the
\* receipt is open, and at most one answer.
KeepsContract == Contract!Spec

\* Every accepted input is answered, unless a hook block holds the queue until
\* the user acts.
AcceptedIsAnswered ==
    \A i \in Inputs : receipt[i] = "waiting" ~> (receipt[i] # "waiting" \/ held)
================================================================================
