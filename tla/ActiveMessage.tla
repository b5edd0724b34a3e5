---------------------------- MODULE ActiveMessage ----------------------------
(***************************************************************************)
(* Messages sent to a running subagent: admission, the lease shared with   *)
(* the child's host thread, and the finalization of the child.             *)
(*                                                                         *)
(* Two kinds of actor interleave.  The coordinator task handles one event  *)
(* at a time (coordinator/active_message.rs, coordinator.rs).  The child's *)
(* host runs on its own thread and decides, through the atomic lease of    *)
(* active_message.rs, whether the message row is inserted.  The lease is   *)
(* modelled one atomic operation per step, and the coordinator's poll of   *)
(* the host's answer is a step before the step that settles the lease, so  *)
(* that the host can move in between.                                      *)
(*                                                                         *)
(* Abstractions: message text, ids and the Queue/Steer operation are left  *)
(* out; timers (deadlines) fire at any time; the two FIFO channels and the *)
(* Vec of parked messages are sets, i.e. they may be served in any order;  *)
(* a child id is used once, so the generation tag of a future is its child.*)
(* Definitions named Mut... are mutated forms of the definition that       *)
(* follows; no specification uses them, they show that a property can fail.*)
(***************************************************************************)
EXTENDS Naturals, FiniteSets

CONSTANTS
    Children,           \* subagent ids
    WorkflowChildren,   \* those owned by a workflow run
    Messages,           \* messages callers may send
    MaxPerChild,        \* MAX_ACTIVE_MESSAGE_ADMISSIONS_PER_CHILD
    Capacity            \* MAX_ACTIVE_MESSAGE_ADMISSIONS: the ingress semaphore

ASSUME ChildrenAssumption == WorkflowChildren \subseteq Children
ASSUME MessagesAssumption == IsFiniteSet(Messages)
ASSUME LimitsAssumption   == MaxPerChild \in Nat \ {0} /\ Capacity \in Nat \ {0}

VARIABLES
    alive,      \* the coordinator future has not been dropped
    child,      \* where each child is: spawning (queued or pending), active, gone
    cancelled,  \* the child's cancellation token
    lifecycle,  \* ActiveMessageLifecycle of each child
    finalizing, \* the runner's finalizing() call and its answer
    output,     \* the run: running, its output buffered, or finished with a result
    to,         \* the child a message is for, and whether the sender owns it
    stage,      \* where the message is in the coordinator
    lease,      \* ActiveMessageAdmissionLease
    host,       \* the host thread's progress on the message, then its answer
    row,        \* whether the host has inserted the message row
    reply,      \* the outcome sent to the caller
    permits     \* free permits of the ingress semaphore

coordVars == <<alive, child, cancelled, lifecycle, finalizing, output>>
msgVars   == <<to, stage, lease, host, row, reply, permits>>
vars      == <<alive, child, cancelled, lifecycle, finalizing, output,
               to, stage, lease, host, row, reply, permits>>

----------------------------------------------------------------------------
Refusals   == {"Unsupported", "ChannelClosed", "Rejected"}
Admissions == {"Admitted"} \cup Refusals            \* ActiveMessageAdmission

LeaseStates == {"None", "Open", "Claimed", "Committed", "Revoked"}

Outcomes == {"Accepted", "NotFoundOrNotOwned", "NotActiveOrFinalizing", "Saturated",
             "AdmissionUncertain", "NotAcceptedBeforeDeadline", "Unsupported", "ChannelClosed"}

\* The outcomes a caller may read as "the child will never see this message".
DefiniteRefusals == Outcomes \ {"Accepted", "AdmissionUncertain"}

\* stages: a polled future carries the outcome its poll observed.
Polled == {"Ready", "Cancelled", "DeadlineElapsed"}
Stages == {"unsent", "ingress", "parked", "future", "done"} \cup Polled

Envelopes == [child : Children, owned : BOOLEAN]

TypeOK ==
    /\ alive \in BOOLEAN
    /\ child \in [Children -> {"spawning", "active", "gone"}]
    /\ cancelled \in [Children -> BOOLEAN]
    /\ lifecycle \in [Children -> [phase       : {"Open", "Finalizing"},
                                   in_flight   : Nat,
                                   disposition : {"Clean", "Uncertain"}]]
    /\ finalizing \in [Children -> {"none", "waiting", "clean", "unclean"}]
    /\ output \in [Children -> {"running", "buffered", "ok", "cancelled"}]
    /\ to \in [Messages -> Envelopes]
    /\ stage \in [Messages -> Stages]
    /\ lease \in [Messages -> LeaseStates]
    /\ host \in [Messages -> {"none", "offered", "claimed", "inserted", "committed"} \cup Admissions]
    /\ row \in [Messages -> BOOLEAN]
    /\ reply \in [Messages -> Outcomes \cup {"none"}]
    /\ permits \in 0 .. Capacity

Init ==
    /\ alive = TRUE
    /\ child = [c \in Children |-> "spawning"]
    /\ cancelled = [c \in Children |-> FALSE]
    /\ lifecycle = [c \in Children |-> [phase |-> "Open", in_flight |-> 0, disposition |-> "Clean"]]
    /\ finalizing = [c \in Children |-> "none"]
    /\ output = [c \in Children |-> "running"]
    /\ to \in [Messages -> Envelopes]
    /\ stage = [m \in Messages |-> "unsent"]
    /\ lease = [m \in Messages |-> "None"]
    /\ host = [m \in Messages |-> "none"]
    /\ row = [m \in Messages |-> FALSE]
    /\ reply = [m \in Messages |-> "none"]
    /\ permits = Capacity

----------------------------------------------------------------------------
\* Helpers

InFlight(c)     == {m \in Messages : to[m].child = c /\ stage[m] \in {"future"} \cup Polled}
HoldsPermit(m)  == stage[m] \in {"ingress", "future"} \cup Polled
ParkedFor(c)    == {m \in Messages : to[m].child = c /\ stage[m] = "parked"}

\* The coordinator is between two events: no poll is half done.
Idle == alive /\ \A m \in Messages : stage[m] \notin Polled

\* Every message of S is answered with outcome o and leaves the coordinator.
Answer(S, o) ==
    /\ reply' = [m \in Messages |-> IF m \in S THEN o ELSE reply[m]]
    /\ stage' = [m \in Messages |-> IF m \in S THEN "done" ELSE stage[m]]

MutReleasePermit == UNCHANGED permits
ReleasePermit == permits' = permits + 1

\* Lifecycle transitions: begin_admission, start_terminalizing, finish_admission.
BeginAdmission(lc, n) == [lc EXCEPT !.in_flight = @ + n]
Terminalize(lc)       == [lc EXCEPT !.phase = "Finalizing"]

MutFinishAdmission(lc, settled) ==
    [lc EXCEPT !.in_flight = @ - 2,
               !.disposition = IF settled THEN @ ELSE "Uncertain"]
FinishAdmission(lc, settled) ==
    [lc EXCEPT !.in_flight = @ - 1,
               !.disposition = IF settled THEN @ ELSE "Uncertain"]

LastAdmission(lc) == lc.in_flight = 0 /\ lc.phase = "Finalizing"

MutDisposition(lc) == IF lc.phase = "Finalizing" THEN "clean" ELSE "unclean"
Disposition(lc) == IF lc.disposition = "Clean" THEN "clean" ELSE "unclean"

\* An admission that could not be proven settled makes the result a cancelled one.
MutResult(lc, result) == result
Result(lc, result) == IF lc.disposition = "Clean" THEN result ELSE "cancelled"

----------------------------------------------------------------------------
\* Caller

\* A caller takes an ingress permit and enqueues, or is told Saturated at once.
Send(m) ==
    /\ stage[m] = "unsent"
    /\ IF ~alive
       THEN Answer({m}, "ChannelClosed") /\ UNCHANGED permits
       ELSE IF permits = 0
       THEN Answer({m}, "Saturated") /\ UNCHANGED permits
       ELSE /\ stage' = [stage EXCEPT ![m] = "ingress"]
            /\ permits' = permits - 1
            /\ UNCHANGED reply
    /\ UNCHANGED <<coordVars, to, lease, host, row>>

----------------------------------------------------------------------------
\* Coordinator: messages

\* The guards of admit_active_message once the child is active.
Admissible(m) ==
    LET c == to[m].child IN
    /\ to[m].owned
    /\ c \notin WorkflowChildren
    /\ ~cancelled[c]
    /\ lifecycle[c].phase = "Open"
    /\ lifecycle[c].in_flight < MaxPerChild

AdmitRefusal(m) ==
    LET c == to[m].child IN
    IF ~to[m].owned THEN "NotFoundOrNotOwned"
    ELSE IF c \in WorkflowChildren \/ cancelled[c] \/ lifecycle[c].phase # "Open"
    THEN "NotActiveOrFinalizing"
    ELSE "Saturated"

\* Hand the messages of S to the host, each under a fresh open lease.
Offer(S) ==
    /\ lease' = [m \in Messages |-> IF m \in S THEN "Open" ELSE lease[m]]
    /\ host' = [m \in Messages |-> IF m \in S THEN "offered" ELSE host[m]]

AdmitActive(m) ==
    /\ Idle
    /\ stage[m] = "ingress"
    /\ child[to[m].child] = "active"
    /\ Admissible(m)
    /\ stage' = [stage EXCEPT ![m] = "future"]
    /\ Offer({m})
    /\ lifecycle' = [lifecycle EXCEPT ![to[m].child] = BeginAdmission(@, 1)]
    /\ UNCHANGED <<alive, child, cancelled, finalizing, output, to, row, reply, permits>>

RefuseActive(m) ==
    /\ Idle
    /\ stage[m] = "ingress"
    /\ child[to[m].child] = "active"
    /\ ~Admissible(m)
    /\ Answer({m}, AdmitRefusal(m))
    /\ ReleasePermit
    /\ UNCHANGED <<coordVars, to, lease, host, row>>

\* A message for a child still starting waits for it without its permit.
Park(m) ==
    /\ Idle
    /\ stage[m] = "ingress"
    /\ to[m].owned
    /\ child[to[m].child] = "spawning"
    /\ to[m].child \notin WorkflowChildren
    /\ ~cancelled[to[m].child]
    /\ stage' = [stage EXCEPT ![m] = "parked"]
    /\ ReleasePermit
    /\ UNCHANGED <<coordVars, to, lease, host, row, reply>>

RefuseInactive(m) ==
    LET c == to[m].child IN
    /\ Idle
    /\ stage[m] = "ingress"
    /\ child[c] # "active"
    /\ child[c] = "spawning" /\ to[m].owned => c \in WorkflowChildren \/ cancelled[c]
    /\ Answer({m}, IF to[m].owned THEN "NotActiveOrFinalizing" ELSE "NotFoundOrNotOwned")
    /\ ReleasePermit
    /\ UNCHANGED <<coordVars, to, lease, host, row>>

\* process_deadlines releases a message parked for too long.
ExpireParked(m) ==
    /\ Idle
    /\ stage[m] = "parked"
    /\ Answer({m}, "NotAcceptedBeforeDeadline")
    /\ UNCHANGED <<coordVars, to, lease, host, row, permits>>

\* ActiveMessageFuture::poll looks at the host's answer, then at the
\* cancellation, then at the deadline.
Polls(m, observed) ==
    /\ Idle
    /\ stage[m] = "future"
    /\ stage' = [stage EXCEPT ![m] = observed]
    /\ UNCHANGED <<coordVars, to, lease, host, row, reply, permits>>

PollReady(m)     == host[m] \in Admissions /\ Polls(m, "Ready")
PollCancelled(m) == host[m] \notin Admissions /\ cancelled[to[m].child] /\ Polls(m, "Cancelled")

MutPollDeadline(m) == host[m] = "offered" /\ ~cancelled[to[m].child] /\ Polls(m, "DeadlineElapsed")
PollDeadline(m) ==
    host[m] \notin Admissions /\ ~cancelled[to[m].child] /\ Polls(m, "DeadlineElapsed")

\* lease.settle(admission) and lease.revoke(): what they return ...
IsSettled(m) ==
    IF stage[m] = "Ready" /\ host[m] = "Admitted"
    THEN lease[m] = "Committed"
    ELSE lease[m] \in {"Open", "Revoked"}

\* ... and what they leave in the lease.
MutSettledLease(m) == lease[m]
SettledLease(m) == IF lease[m] = "Open" THEN "Revoked" ELSE lease[m]

\* protocol_outcome_from_completion
CompletionOutcome(m) ==
    CASE ~IsSettled(m)                                 -> "AdmissionUncertain"
      [] IsSettled(m) /\ stage[m] # "Ready"            -> "NotAcceptedBeforeDeadline"
      [] IsSettled(m) /\ stage[m] = "Ready" /\ host[m] = "Admitted" -> "Accepted"
      [] IsSettled(m) /\ stage[m] = "Ready" /\ host[m] = "Rejected" -> "NotActiveOrFinalizing"
      [] OTHER                                         -> host[m]

\* The poll's second half: settle the lease, answer the caller, and let the
\* last admission of a finalizing child release its waiters and its output.
FinishActiveMessage(m) ==
    LET c  == to[m].child
        lc == FinishAdmission(lifecycle[c], IsSettled(m))
        last == LastAdmission(lc)
    IN
    /\ alive
    /\ stage[m] \in Polled
    /\ lease' = [lease EXCEPT ![m] = SettledLease(m)]
    /\ ReleasePermit
    /\ IF child[c] # "active"
       THEN \* no such child any more: lost_completion_outcome
            /\ Answer({m}, IF CompletionOutcome(m) = "Accepted" THEN "AdmissionUncertain"
                           ELSE CompletionOutcome(m))
            /\ UNCHANGED <<child, lifecycle, finalizing, output>>
       ELSE /\ Answer({m}, CompletionOutcome(m))
            /\ lifecycle' = [lifecycle EXCEPT ![c] = lc]
            /\ finalizing' = [finalizing EXCEPT ![c] =
                                IF last /\ @ = "waiting" THEN Disposition(lc) ELSE @]
            /\ IF last /\ output[c] = "buffered"
               THEN /\ child' = [child EXCEPT ![c] = "gone"]
                    /\ \E r \in {"ok", "cancelled"} :
                          output' = [output EXCEPT ![c] = Result(lc, r)]
               ELSE UNCHANGED <<child, output>>
    /\ UNCHANGED <<alive, cancelled, to, host, row>>

----------------------------------------------------------------------------
\* Coordinator: children

\* The runner reports its runtime is up.  Parked messages take their permits
\* back; the ones that find none, or find the child full, are refused.
Started(c) ==
    /\ Idle
    /\ child[c] = "spawning"
    /\ output[c] = "running"
    /\ ~cancelled[c]
    /\ child' = [child EXCEPT ![c] = "active"]
    /\ \E S \in SUBSET ParkedFor(c) :
        LET started == IF Cardinality(ParkedFor(c)) <= permits
                       THEN Cardinality(ParkedFor(c)) ELSE permits
        IN
        /\ Cardinality(S) = IF started <= MaxPerChild THEN started ELSE MaxPerChild
        /\ Offer(S)
        /\ lifecycle' = [lifecycle EXCEPT ![c] = BeginAdmission(@, Cardinality(S))]
        /\ permits' = permits - Cardinality(S)
        /\ stage' = [m \in Messages |-> IF m \in S THEN "future"
                                        ELSE IF m \in ParkedFor(c) THEN "done" ELSE stage[m]]
        /\ reply' = [m \in Messages |-> IF m \in ParkedFor(c) \ S THEN "Saturated" ELSE reply[m]]
    /\ UNCHANGED <<alive, cancelled, finalizing, output, to, row>>

\* A promotion that a cancellation overtook: the child stays pending.
StartedTooLate(c) ==
    /\ Idle
    /\ child[c] = "spawning"
    /\ output[c] = "running"
    /\ cancelled[c]
    /\ Answer(ParkedFor(c), "NotActiveOrFinalizing")
    /\ UNCHANGED <<coordVars, to, lease, host, row, permits>>

\* A cancel command; a pending child's parked messages are refused with it.
Cancel(c) ==
    /\ Idle
    /\ child[c] # "gone"
    /\ ~cancelled[c]
    /\ cancelled' = [cancelled EXCEPT ![c] = TRUE]
    /\ Answer(IF child[c] = "spawning" THEN ParkedFor(c) ELSE {}, "NotActiveOrFinalizing")
    /\ UNCHANGED <<alive, child, lifecycle, finalizing, output, to, lease, host, row, permits>>

\* The token is shared with the caller's tool and may be cancelled anywhere.
CancelToken(c) ==
    /\ child[c] # "gone"
    /\ ~cancelled[c]
    /\ cancelled' = [cancelled EXCEPT ![c] = TRUE]
    /\ UNCHANGED <<alive, child, lifecycle, finalizing, output, msgVars>>

\* reporter.finalizing(): close admission; answered now, or by the last admission.
BeginFinalizing(c) ==
    /\ Idle
    /\ child[c] = "active"
    /\ output[c] = "running"
    /\ finalizing[c] = "none"
    /\ lifecycle' = [lifecycle EXCEPT ![c] = Terminalize(@)]
    /\ finalizing' = [finalizing EXCEPT ![c] =
                        IF lifecycle[c].in_flight = 0 THEN Disposition(lifecycle[c]) ELSE "waiting"]
    /\ UNCHANGED <<alive, child, cancelled, output, msgVars>>

\* ACTIVE_MESSAGE_FINALIZATION_TIMEOUT elapses in the runner.
FinalizingTimeout(c) ==
    /\ finalizing[c] = "waiting"
    /\ finalizing' = [finalizing EXCEPT ![c] = "unclean"]
    /\ UNCHANGED <<alive, child, cancelled, lifecycle, output, msgVars>>

\* The run future completes (or panics) before promotion.
RunEndsPending(c) ==
    /\ Idle
    /\ child[c] = "spawning"
    /\ child' = [child EXCEPT ![c] = "gone"]
    /\ \E r \in {"ok", "cancelled"} : output' = [output EXCEPT ![c] = r]
    /\ Answer(ParkedFor(c), "NotActiveOrFinalizing")
    /\ UNCHANGED <<alive, cancelled, lifecycle, finalizing, to, lease, host, row, permits>>

\* begin_terminalization: finish now, or keep the output until the admissions
\* in flight have settled.  A runner still waiting in finalizing() has not ended.
RunEndsActive(c) ==
    /\ Idle
    /\ child[c] = "active"
    /\ output[c] = "running"
    /\ finalizing[c] # "waiting"
    /\ lifecycle' = [lifecycle EXCEPT ![c] = Terminalize(@)]
    /\ IF lifecycle[c].in_flight = 0
       THEN /\ child' = [child EXCEPT ![c] = "gone"]
            /\ \E r \in {"ok", "cancelled"} :
                  output' = [output EXCEPT ![c] = Result(lifecycle[c], r)]
       ELSE /\ output' = [output EXCEPT ![c] = "buffered"]
            /\ UNCHANGED child
    /\ UNCHANGED <<alive, cancelled, finalizing, msgVars>>

\* The coordinator future is dropped (the host process is shutting down, or the
\* loop has ended): futures revoke their leases, everyone waiting is answered.
DropCoordinator ==
    /\ Idle
    /\ alive' = FALSE
    /\ lease' = [m \in Messages |-> IF stage[m] = "future" THEN SettledLease(m) ELSE lease[m]]
    /\ reply' = [m \in Messages |->
                   IF stage[m] \in {"ingress", "parked"} THEN "ChannelClosed"
                   ELSE IF stage[m] # "future" THEN reply[m]
                   ELSE IF lease[m] \in {"Open", "Revoked"} THEN "ChannelClosed"
                   ELSE "AdmissionUncertain"]
    /\ stage' = [m \in Messages |-> IF stage[m] = "unsent" THEN "unsent" ELSE "done"]
    /\ permits' = Capacity
    /\ finalizing' = [c \in Children |-> IF finalizing[c] = "waiting" THEN "unclean" ELSE finalizing[c]]
    /\ UNCHANGED <<child, cancelled, lifecycle, output, to, host, row>>

----------------------------------------------------------------------------
\* Host thread of the child (external to the coordinator's crate)

HostStep(m, from, next) ==
    /\ host[m] = from
    /\ host' = [host EXCEPT ![m] = next]
    /\ UNCHANGED <<coordVars, to, stage, reply, permits>>

\* commit_admission: the compare-exchange Open -> Claimed ...
HostClaim(m) ==
    /\ lease[m] = "Open"
    /\ HostStep(m, "offered", "claimed")
    /\ lease' = [lease EXCEPT ![m] = "Claimed"]
    /\ UNCHANGED row

\* ... which fails on a lease the coordinator has revoked: the host answers Rejected
HostClaimFails(m) ==
    /\ lease[m] # "Open"
    /\ HostStep(m, "offered", "Rejected")
    /\ UNCHANGED <<lease, row>>

\* ... then the insertion closure ...
HostInsert(m) ==
    /\ HostStep(m, "claimed", "inserted")
    /\ row' = [row EXCEPT ![m] = TRUE]
    /\ UNCHANGED lease

\* ... then the store of Committed.
HostCommit(m) ==
    /\ HostStep(m, "inserted", "committed")
    /\ lease' = [lease EXCEPT ![m] = "Committed"]
    /\ UNCHANGED row

HostAdmitted(m) == HostStep(m, "committed", "Admitted") /\ UNCHANGED <<lease, row>>

\* The host declines without touching the lease.
HostRefuse(m) ==
    /\ \E a \in Refusals : HostStep(m, "offered", a)
    /\ UNCHANGED <<lease, row>>

\* The host dies inside or after the insertion: its reply channel closes.
HostDies(m) ==
    /\ \E from \in {"claimed", "inserted", "committed"} : HostStep(m, from, "ChannelClosed")
    /\ UNCHANGED <<lease, row>>

----------------------------------------------------------------------------
\* The coordinator has exited or been dropped, and the host owes nothing.
Done ==
    /\ ~alive
    /\ \A m \in Messages : stage[m] = "done" /\ host[m] \in {"none"} \cup Admissions
    /\ UNCHANGED vars

CoordinatorMessage(m) ==
    AdmitActive(m) \/ RefuseActive(m) \/ Park(m) \/ RefuseInactive(m) \/ ExpireParked(m)
        \/ PollReady(m) \/ PollCancelled(m) \/ PollDeadline(m) \/ FinishActiveMessage(m)

CoordinatorChild(c) ==
    Started(c) \/ StartedTooLate(c) \/ Cancel(c) \/ CancelToken(c) \/ BeginFinalizing(c)
        \/ FinalizingTimeout(c) \/ RunEndsPending(c) \/ RunEndsActive(c)

Host(m) ==
    HostClaim(m) \/ HostClaimFails(m) \/ HostInsert(m) \/ HostCommit(m)
        \/ HostAdmitted(m) \/ HostRefuse(m) \/ HostDies(m)

Next ==
    \/ \E m \in Messages : Send(m) \/ CoordinatorMessage(m) \/ Host(m)
    \/ \E c \in Children : CoordinatorChild(c)
    \/ DropCoordinator
    \/ Done

Spec == Init /\ [][Next]_vars

\* The coordinator keeps serving its messages: its select! loop polls every
\* source, and each future carries a deadline timer that fires.
Fairness == \A m \in Messages : WF_vars(CoordinatorMessage(m))

FairSpec == Spec /\ Fairness

----------------------------------------------------------------------------
\* Properties

\* A caller told Accepted has its row inserted in the child (settle answers
\* true for Admitted only on a committed lease).
AcceptedIsInserted == \A m \in Messages : reply[m] = "Accepted" => row[m]

\* A caller told that its message was refused, saturated, expired or that the
\* channel closed will never see the row appear, whatever the host thread was
\* doing when the coordinator gave up, was cancelled or was dropped.
RefusedIsNeverInserted ==
    \A m \in Messages : reply[m] \in DefiniteRefusals => ~row[m] /\ host[m] \notin {"claimed", "inserted"}

\* What a sender is told is what happened to its message.
AnswersAreTrue == AcceptedIsInserted /\ RefusedIsNeverInserted

\* in_flight counts exactly the futures of the child, never above the limit,
\* and a child leaves the active map only when it has none: the branch of
\* finish_active_message for a vanished child is never taken.
InFlightExact ==
    \A c \in Children :
        /\ lifecycle[c].in_flight <= MaxPerChild
        /\ alive => lifecycle[c].in_flight = Cardinality(InFlight(c))
        /\ child[c] # "active" => InFlight(c) = {}

\* Permits are neither lost nor duplicated by parking, re-acquisition,
\* refusal, completion or drop.
PermitsConserved == permits + Cardinality({m \in Messages : HoldsPermit(m)}) = Capacity

\* The two counters that bound admission, per child and per coordinator, are exact.
CountersExact == InFlightExact /\ PermitsConserved

\* A child that finished with a result not forced to cancelled has told every
\* sender the truth: its rows are exactly the accepted messages.
OkResultMeansAgreement ==
    \A c \in Children : output[c] = "ok" =>
        \A m \in Messages : to[m].child = c => (row[m] <=> reply[m] = "Accepted")

\* Once finalizing() answered true, the set of rows of the child is final: no
\* step inserts one (the receipts the runner then drains are all there are).
CleanFinalizingIsFinal ==
    [][\A c \in Children : finalizing[c] = "clean" =>
         \A m \in Messages : to[m].child = c => row'[m] = row[m]]_vars

\* Every message handed to the coordinator is answered: parking, a silent host
\* and a drop all end in a reply.
SentIsAnswered == \A m \in Messages : stage[m] # "unsent" ~> reply[m] # "none"

\* The runner's finalizing() call is answered by the coordinator itself (the
\* runner's own timeout is not assumed to fire), and a buffered output is released.
FinalizingIsAnswered ==
    \A c \in Children : /\ finalizing[c] = "waiting" ~> finalizing[c] # "waiting"
                        /\ output[c] = "buffered" ~> output[c] # "buffered" \/ ~alive

\* Neither a sender nor the runner waits for ever.
EverybodyIsAnswered == SentIsAnswered /\ FinalizingIsAnswered
==============================================================================
