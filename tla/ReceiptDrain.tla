----------------------------- MODULE ReceiptDrain -----------------------------
(***************************************************************************)
(* The receipts of a child's follow-up turns.  The child's session loop    *)
(* reserves a place in a bounded channel before it admits a parent message *)
(* and then sends the receipt of the turn the message will run in; a drain *)
(* task of the parent collects the receipts, awaits their results and,     *)
(* when the child is finalized, settles on the last admitted turn, on the  *)
(* child's cancellation, or on a timeout.                                  *)
(*                                                                         *)
(* A clean finalization closes admission first (ActiveMessage), an         *)
(* uncertain one does not.  Messages are numbered as they are admitted.    *)
(* The drain's select is biased: a branch is taken only if no earlier one  *)
(* is ready, and the session may still act between the poll that finds     *)
(* nothing but the deadline and the deadline's handler.                    *)
(*                                                                         *)
(* Left out: what a result contains and how the settlement is reported,    *)
(* the commands sent to the child (a turn may end at any time), and a      *)
(* drain that is dropped with the parent.                                  *)
(***************************************************************************)
EXTENDS Naturals, Sequences, FiniteSets

CONSTANTS
    None,         \* Option::None
    Capacity,     \* ACTIVE_MESSAGE_RECEIPT_CAPACITY
    MaxMessages   \* bound: messages ever admitted

ASSUME ReceiptAssumption ==
    /\ Capacity \in Nat \ {0} /\ MaxMessages \in Nat \ {0}
    /\ None \notin Nat \cup {"completed", "cancelled", "uncertain", "timed_out"}

VARIABLES
    session,      \* where the session loop is in admit_parent_agent_message
    admitted,     \* messages admitted so far
    running,      \* admitted messages whose turn has not reported its result
    stream,       \* receipts in the channel
    open,         \* the receiver has not closed the channel
    finalization, \* what settle() was called with
    cancelled,    \* cancel_token
    drain,        \* "selecting", "expired" in the deadline's branch, "done"
    isStreamOpen, \* is_stream_open
    disposition,
    deadline,     \* the grace deadline is armed
    pending,      \* received receipts whose result has not been taken
    identity,     \* final_identity
    final         \* final_receipt, which carries latest_settlement

sessionVars == <<session, admitted, running>>
drainVars   == <<drain, isStreamOpen, disposition, deadline, pending, identity, final>>
vars        == <<session, admitted, running, stream, open, finalization, cancelled, drain,
                 isStreamOpen, disposition, deadline, pending, identity, final>>

Messages == 1..MaxMessages

TypeOK ==
    /\ session \in {"idle", "reserving", "reserved", "committed"}
    /\ admitted \in 0..MaxMessages /\ running \subseteq 1..admitted
    /\ stream \in Seq(Messages) /\ Len(stream) <= Capacity
    /\ open \in BOOLEAN /\ cancelled \in BOOLEAN
    /\ finalization \in {None, "settled", "uncertain"}
    /\ drain \in {"selecting", "expired", "done"} /\ isStreamOpen \in BOOLEAN
    /\ disposition \in {None, "completed", "cancelled", "uncertain", "timed_out"}
    /\ deadline \in BOOLEAN
    /\ pending \subseteq 1..admitted
    /\ identity \in Messages \cup {None} /\ final \in Messages \cup {None}

Init ==
    /\ session = "idle" /\ admitted = 0 /\ running = {}
    /\ stream = <<>> /\ open = TRUE
    /\ finalization = None /\ cancelled = FALSE
    /\ drain = "selecting" /\ isStreamOpen = TRUE
    /\ disposition = None /\ deadline = FALSE
    /\ pending = {} /\ identity = None /\ final = None

----------------------------------------------------------------------------
\* The child's session loop

Permits == IF session \in {"reserved", "committed"} THEN 1 ELSE 0

\* A delivery arrives; none does once admission is settled.
Deliver ==
    /\ session = "idle" /\ admitted < MaxMessages /\ finalization # "settled"
    /\ session' = "reserving"
    /\ UNCHANGED <<admitted, running, stream, open, finalization, cancelled, drainVars>>

MutReserve ==
    /\ session = "reserving"
    /\ IF open THEN session' = "reserved" ELSE session' = "idle"
    /\ UNCHANGED <<admitted, running, stream, open, finalization, cancelled, drainVars>>
\* reserve_owned
Reserve ==
    /\ session = "reserving"
    /\ IF open THEN Len(stream) < Capacity /\ session' = "reserved" ELSE session' = "idle"
    /\ UNCHANGED <<admitted, running, stream, open, finalization, cancelled, drainVars>>

\* The message is rejected, and the permit dropped, or it is committed.
Reject ==
    /\ session = "reserved"
    /\ session' = "idle"
    /\ UNCHANGED <<admitted, running, stream, open, finalization, cancelled, drainVars>>
Commit ==
    /\ session = "reserved"
    /\ session' = "committed"
    /\ admitted' = admitted + 1 /\ running' = running \cup {admitted + 1}
    /\ UNCHANGED <<stream, open, finalization, cancelled, drainVars>>

\* The permit is used, even if the channel was closed meanwhile.
SendReceipt ==
    /\ session = "committed"
    /\ session' = "idle"
    /\ stream' = IF drain = "done" THEN stream ELSE Append(stream, admitted)
    /\ UNCHANGED <<admitted, running, open, finalization, cancelled, drainVars>>

\* The loop finishes turns too, so none ends while it waits for a permit.  A steered
\* message ends with its turn and may overtake a queued one.
TurnEnds(i) ==
    /\ session = "idle" /\ i \in running
    /\ running' = running \ {i}
    /\ UNCHANGED <<session, admitted, stream, open, finalization, cancelled, drainVars>>

----------------------------------------------------------------------------
\* The parent

\* settle(): Settled if the coordinator confirmed that no admission is in flight
Settle(kind) ==
    /\ finalization = None
    /\ kind = "settled" => session = "idle"
    /\ finalization' = kind
    /\ UNCHANGED <<sessionVars, stream, open, cancelled, drainVars>>

CancelChild ==
    /\ ~cancelled
    /\ cancelled' = TRUE
    /\ UNCHANGED <<sessionVars, stream, open, finalization, drainVars>>

----------------------------------------------------------------------------
\* drain_prompt_turn_receipts

Returns == disposition # None /\ ~isStreamOpen /\ pending = {}

FinalizationReady == finalization # None /\ disposition = None
CancelReady       == cancelled /\ disposition = "completed"
\* recv() is None once the channel is closed, empty and no permit is out
RecvReady         == isStreamOpen /\ (stream # <<>> \/ (~open /\ Permits = 0))
ResultReady       == pending \ running # {}

Selecting == drain = "selecting" /\ ~Returns

Return ==
    /\ drain = "selecting" /\ Returns
    /\ drain' = "done"
    /\ UNCHANGED <<sessionVars, stream, open, finalization, cancelled, isStreamOpen, disposition,
                   deadline, pending, identity, final>>

Finalize ==
    /\ Selecting /\ FinalizationReady
    /\ open' = FALSE
    /\ disposition' = CASE finalization = "uncertain" -> "uncertain"
                        [] cancelled                  -> "cancelled"
                        [] OTHER                      -> "completed"
    /\ deadline' = (disposition' # "completed")
    /\ UNCHANGED <<sessionVars, stream, finalization, cancelled, drain, isStreamOpen, pending,
                   identity, final>>

NoticeCancel ==
    /\ Selecting /\ CancelReady
    /\ disposition' = "cancelled" /\ deadline' = TRUE
    /\ UNCHANGED <<sessionVars, stream, open, finalization, cancelled, drain, isStreamOpen,
                   pending, identity, final>>

MutReceive ==
    /\ Selecting /\ disposition # None /\ ~CancelReady /\ RecvReady
    /\ IF stream = <<>> THEN isStreamOpen' = FALSE /\ UNCHANGED <<stream, pending, identity>>
       ELSE /\ stream' = Tail(stream) /\ pending' = pending \cup {Head(stream)}
            /\ identity' = Head(stream) /\ UNCHANGED isStreamOpen
    /\ UNCHANGED <<sessionVars, open, finalization, cancelled, drain, disposition, deadline, final>>
Receive ==
    /\ Selecting /\ ~FinalizationReady /\ ~CancelReady /\ RecvReady
    /\ IF stream = <<>> THEN isStreamOpen' = FALSE /\ UNCHANGED <<stream, pending, identity>>
       ELSE /\ stream' = Tail(stream) /\ pending' = pending \cup {Head(stream)}
            /\ identity' = Head(stream) /\ UNCHANGED isStreamOpen
    /\ UNCHANGED <<sessionVars, open, finalization, cancelled, drain, disposition, deadline, final>>

MutLatest(i) == i
\* Results come in any order; the one admitted last is kept.
Latest(i) == IF final = None \/ i > final THEN i ELSE final

TakeResult(i) ==
    /\ Selecting /\ ~FinalizationReady /\ ~CancelReady /\ ~RecvReady
    /\ i \in pending \ running
    /\ pending' = pending \ {i} /\ final' = Latest(i)
    /\ UNCHANGED <<sessionVars, stream, open, finalization, cancelled, drain, isStreamOpen,
                   disposition, deadline, identity>>

\* The grace has passed when the select is polled.
Expire ==
    /\ Selecting /\ deadline
    /\ ~FinalizationReady /\ ~CancelReady /\ ~RecvReady /\ ~ResultReady
    /\ drain' = "expired"
    /\ UNCHANGED <<sessionVars, stream, open, finalization, cancelled, isStreamOpen, disposition,
                   deadline, pending, identity, final>>

MutForceTimeout ==
    /\ drain = "expired"
    /\ final' = identity
    /\ disposition' = "timed_out" /\ drain' = "done"
    /\ UNCHANGED <<sessionVars, stream, open, finalization, cancelled, isStreamOpen, deadline,
                   pending, identity>>
\* What is in the channel is received after all; force_receipt_settlement_timeout
ForceTimeout ==
    /\ drain = "expired"
    /\ identity' = IF stream = <<>> THEN identity ELSE stream[Len(stream)]
    /\ final' = identity' /\ stream' = <<>> /\ pending' = {}
    /\ disposition' = "timed_out" /\ drain' = "done"
    /\ UNCHANGED <<sessionVars, open, finalization, cancelled, isStreamOpen, deadline>>

----------------------------------------------------------------------------
SessionLoop == Reserve \/ Reject \/ Commit \/ SendReceipt

Drain ==
    \/ Return \/ Finalize \/ NoticeCancel \/ Receive \/ Expire \/ ForceTimeout
    \/ \E i \in pending : TakeResult(i)

Next ==
    \/ SessionLoop \/ Deliver
    \/ \E i \in running : TurnEnds(i)
    \/ \E kind \in {"settled", "uncertain"} : Settle(kind)
    \/ CancelChild
    \/ Drain

Spec == Init /\ [][Next]_vars

\* Both tasks run.  That turns end is not assumed.
FairSpec == Spec /\ WF_vars(SessionLoop) /\ WF_vars(Drain)

----------------------------------------------------------------------------
\* Properties

\* A settlement that did not time out has accounted for every admitted message: the
\* turn of each has ended, the last admitted one is the one it names, and no message
\* is admitted any more, not even with a permit from before the channel was closed.
SettlementIsComplete ==
    drain = "done" /\ disposition # "timed_out" =>
        /\ running = {} /\ session \in {"idle", "reserving"}
        /\ final = IF admitted = 0 THEN None ELSE admitted

\* The receipts the session loop has sent
Sent == IF session = "committed" THEN admitted - 1 ELSE admitted

\* A settlement that timed out names the last message whose receipt was sent, also
\* when that arrives after the deadline was seen.
TimeoutNamesLatest ==
    [][drain # "done" /\ disposition' = "timed_out" =>
         final' = IF Sent = 0 THEN None ELSE Sent]_vars

\* settle() returns, whether or not turns end, unless the child completed cleanly and
\* one of its turns runs forever; and the session loop is never stuck on a full
\* channel, whatever the parent does: it would never finish the turns that the drain
\* waits for.
NobodyIsStuck ==
    /\ finalization # None ~>
         (drain = "done" \/ [](disposition = "completed" /\ running # {}))
    /\ session = "reserving" ~> session # "reserving"
=============================================================================
