---------------------- MODULE SubagentCoordinatorProofs ----------------------
(***************************************************************************)
(* Proofs about the subagent coordinator, for every finite set of children *)
(* and every setup of requests and limits: type correctness, the use of    *)
(* the concurrency limit, that every wait has a reason, the order of the   *)
(* queue, the delivery of completions, and an exit that leaves nothing     *)
(* behind.                                                                 *)
(***************************************************************************)
EXTENDS SubagentCoordinator, FiniteSetTheorems, TLAPS

----------------------------------------------------------------------------
\* The inductive invariant

\* The two halves of the type invariant: what finish_child rewrites, and the rest
ChildTypes ==
    /\ setup \in Setups
    /\ place \in [Ids -> {"unborn", "queued", "pending", "active", "completed", "refused",
                         "dropped"}]
    /\ ahead \in [Ids -> SUBSET Ids]
    /\ token \in [Ids -> BOOLEAN]
    /\ handle_only \in [Ids -> BOOLEAN]
    /\ caller \in [Ids -> {"none", "awaiting", "gone"}]
    /\ run \in [Ids -> {"none", "running", "buffered"}]
    /\ \A i \in Ids : run[i] # "none" <=> place[i] \in {"pending", "active"}
    /\ waiter \in [Ids -> {"none", "waiting", "abandoned"}]
    /\ disposition \in [Ids -> Dispositions]
OtherTypes ==
    /\ turn \in {"loop", "command", "timer", "stopped"}
    /\ commands_open \in BOOLEAN
    /\ request \in [Ids -> [session : Parents, owner : Owners, surface_completion : BOOLEAN]]
    /\ killed \in [Ids -> BOOLEAN]
    /\ pending_completions \in SUBSET Ids
    /\ drain_waiters \in SUBSET Scopes
    /\ workflow_cancel_waiters \in SUBSET WorkflowRuns
    /\ teardown_drains \in SUBSET Parents
    /\ spawn_blocked \in SUBSET Parents

\* The limit of each session, and who may be queued
Limit == \A s \in Parents : Cardinality(Counted(s)) <= Slots
Full  == \A i \in Queued : Task(i) /\ Cardinality(Counted(request[i].session)) = Slots

\* The reasons to wait, one by one
Queries   == \A i \in Ids : waiter[i] # "none" => i \in Live
Cancels   == \A r \in workflow_cancel_waiters : WorkflowOutstanding(r) # {}
Teardowns == \A s \in teardown_drains : s \in spawn_blocked /\ SessionHasChildren(s)
Drains    == turn = "loop" => \A d \in drain_waiters : TurnBlocking(d) # {}
Unblocked == \A i \in Queued : request[i].session \notin spawn_blocked

\* A caller that was not answered has a live child.
Callers == \A i \in Ids : caller[i] # "none" => i \in Live

IInv ==
    /\ ChildTypes /\ OtherTypes
    /\ Limit /\ Full
    /\ Queries /\ Cancels /\ Teardowns /\ Drains /\ Unblocked /\ Callers

\* The properties are conjunctions of the invariant's parts.
LEMMA Parts ==
    /\ TypeOK <=> ChildTypes /\ OtherTypes
    /\ LimitIsUsed <=> Limit /\ Full
    /\ NobodyWaitsForNothing <=> Queries /\ Cancels /\ Teardowns /\ Drains /\ Unblocked
  <1>1. TypeOK <=> ChildTypes /\ OtherTypes
    BY DEF TypeOK, ChildTypes, OtherTypes
  <1>2. LimitIsUsed <=> Limit /\ Full
    BY DEF LimitIsUsed, Limit, Full
  <1>3. NobodyWaitsForNothing <=> Queries /\ Cancels /\ Teardowns /\ Drains /\ Unblocked
    BY DEF NobodyWaitsForNothing, Queries, Cancels, Teardowns, Drains, Unblocked
  <1> QED
    BY <1>1, <1>2, <1>3

----------------------------------------------------------------------------
\* Lemmas about the setup and about counting

\* What every setup gives: at least one slot, and well-formed requests.
LEMMA SetupFacts ==
    ASSUME setup \in Setups
    PROVE  /\ Slots \in Nat \ {0}
           /\ \A i \in Ids : /\ Asked[i].parent \in Parents /\ Asked[i].prompt \in Prompts
                             /\ Asked[i].owner \in Owners
                             /\ Asked[i].run_in_background \in BOOLEAN
                             /\ Asked[i].surface_completion \in BOOLEAN
  <1>1. MaxConcurrent \in Nat /\ Asked \in [Ids -> Requests]
    BY SetupsAssumption DEF MaxConcurrent, Asked
  <1>2. Slots \in Nat \ {0}
    BY <1>1 DEF Slots
  <1>3. \A i \in Ids : Asked[i] \in Requests
    BY <1>1
  <1> HIDE DEF Asked
  <1>4. \A i \in Ids : /\ Asked[i].parent \in Parents /\ Asked[i].prompt \in Prompts
                       /\ Asked[i].owner \in Owners
    BY <1>3 DEF Requests
  <1>5. \A i \in Ids : Asked[i].run_in_background \in BOOLEAN
    BY <1>3 DEF Requests
  <1>6. \A i \in Ids : Asked[i].surface_completion \in BOOLEAN
    BY <1>3 DEF Requests
  <1> QED
    BY <1>2, <1>4, <1>5, <1>6

\* Sets of children are counted.
LEMMA CountType ==
    ASSUME NEW X \in SUBSET Ids PROVE IsFiniteSet(X) /\ Cardinality(X) \in Nat
  BY IdsAssumption, FS_Subset, FS_CardinalityType

\* Disjoint sets of children add up.
LEMMA CountDisjoint ==
    ASSUME NEW X \in SUBSET Ids, NEW Y \in SUBSET Ids, X \cap Y = {}
    PROVE  Cardinality(X \cup Y) = Cardinality(X) + Cardinality(Y)
  <1>1. Cardinality(X \cap Y) = 0
    BY FS_EmptySet
  <1> QED
    BY <1>1, CountType, FS_Union

\* A smaller set of children counts less.
LEMMA CountSubset ==
    ASSUME NEW Y \in SUBSET Ids, NEW X \in SUBSET Y
    PROVE  Cardinality(X) <= Cardinality(Y) /\ (X # Y => Cardinality(X) < Cardinality(Y))
  BY CountType, FS_Subset

----------------------------------------------------------------------------
\* Lemmas about finish_child and its sweep

\* Which children are where after R has finished and S was started; sessions and
\* owners of the children do not change.
SameRequests ==
    /\ setup' = setup
    /\ \A i \in Ids : request'[i].session = request[i].session
                      /\ request'[i].owner = request[i].owner
Moved(R, S) ==
    /\ Queued' = Queued \ (R \cup S)
    /\ Running' = (Running \ R) \cup S
    /\ Live' = Live \ R
    /\ \A s : Of(s)' = Of(s)
    /\ \A i \in Ids : Task(i)' <=> Task(i)

\* finish_child moves R out of the maps and S from the queue to the pending ones.
LEMMA FinishMoves ==
    ASSUME NEW R \in SUBSET Live, NEW S \in SUBSET (Queued \ R), SameRequests,
           place' = [i \in Ids |-> IF i \in R THEN "completed"
                                   ELSE IF i \in S THEN "pending" ELSE place[i]]
    PROVE  Moved(R, S)
  <1>1. \A i \in Ids : /\ i \in Queued' <=> i \in Queued /\ i \notin R \cup S
                       /\ i \in Running' <=> (i \in Running /\ i \notin R) \/ i \in S
    BY DEF Queued, Running
  <1>2. Queued' = Queued \ (R \cup S) /\ Running' = (Running \ R) \cup S
    BY <1>1 DEF Queued, Running
  <1>3. Live' = Live \ R
    BY <1>2 DEF Live, Queued, Running
  <1>4. \A s : Of(s)' = Of(s)
    BY DEF Of, SameRequests
  <1>5. \A i \in Ids : Task(i)' <=> Task(i)
    BY DEF Task, SameRequests
  <1> QED
    BY <1>2, <1>3, <1>4, <1>5 DEF Moved

\* What a sweep starts: nothing if nothing finished, else the oldest that fit.
Takes(R, S, s) ==
    LET waiting == (Queued \ R) \cap Of(s)
        taken   == Cardinality(Counted(s) \ R)
        free    == IF taken < Slots THEN Slots - taken ELSE 0
    IN  /\ Cardinality(S \cap Of(s)) =
             IF free < Cardinality(waiting) THEN free ELSE Cardinality(waiting)
        /\ \A i \in S \cap Of(s), j \in waiting \ S : i \in ahead[j]
\* What start_queued_within_capacity may choose.
LEMMA SweepFacts ==
    ASSUME NEW R, NEW S \in Sweep(R)
    PROVE  /\ S \in SUBSET (Queued \ R)
           /\ R = {} => S = {}
           /\ R # {} => \A s \in Parents : Takes(R, S, s)
  <1>1. CASE R = {}
    BY <1>1 DEF Sweep
  <1>2. CASE R # {}
    BY <1>2 DEF Sweep, Takes
  <1> QED
    BY <1>1, <1>2

\* The sweep fills the slots that came free and stops at the limit: a spawn stays
\* queued only behind a full session.
LEMMA SweepFills ==
    ASSUME IInv, NEW R \in SUBSET Live, NEW S \in Sweep(R), SameRequests, Moved(R, S)
    PROVE  Limit' /\ Full'
  <1>0. setup \in Setups /\ Slots' = Slots /\ Slots \in Nat \ {0}
    <2>1. setup \in Setups
      BY DEF IInv, ChildTypes
    <2>2. Slots' = Slots
      BY DEF SameRequests, Slots, MaxConcurrent
    <2> QED
      BY <2>1, <2>2, SetupFacts
  <1>1. S \in SUBSET (Queued \ R) /\ \A i \in S : Task(i)
    BY SweepFacts DEF IInv, Full
  <1>2. \A s : Counted(s)' = (Counted(s) \ R) \cup (S \cap Of(s))
    <2> TAKE s
    <2>1. \A i \in Ids : i \in Counted(s)' <=> i \in Running' /\ i \in Of(s) /\ Task(i)
      BY DEF Counted, Moved
    <2>2. \A i \in Ids : i \in Counted(s) <=> i \in Running /\ i \in Of(s) /\ Task(i)
      BY DEF Counted
    <2>3. Counted(s)' \subseteq Ids /\ Counted(s) \subseteq Ids /\ S \subseteq Ids
      BY <1>1 DEF Counted, Running, Queued
    <2> QED
      BY <1>1, <2>1, <2>2, <2>3 DEF Moved
  <1>3. \A i \in Queued' : i \in Queued /\ i \notin R /\ i \notin S /\ i \in Ids
    BY DEF Moved, Queued
  <1>4. \A i \in Queued' : Task(i)' /\ request'[i].session = request[i].session
                           /\ request[i].session \in Parents
    BY <1>3 DEF IInv, Full, OtherTypes, SameRequests, Moved
  <1>5. CASE R = {}
    <2>1. S = {}
      BY <1>5, SweepFacts
    <2>2. \A s : Counted(s)' = Counted(s)
      BY <1>2, <1>5, <2>1
    <2> QED
      BY <1>0, <1>3, <1>4, <2>2 DEF IInv, Limit, Full
  <1>6. CASE R # {}
    <2>1. ASSUME NEW s \in Parents
          PROVE  /\ Cardinality(Counted(s)') <= Slots
                 /\ \A i \in Queued' : i \in Of(s) => Cardinality(Counted(s)') = Slots
      <3> DEFINE waiting == (Queued \ R) \cap Of(s)
                 taken   == Cardinality(Counted(s) \ R)
                 free    == IF taken < Slots THEN Slots - taken ELSE 0
                 started == S \cap Of(s)
      <3>1. Cardinality(started) = IF free < Cardinality(waiting) THEN free ELSE Cardinality(waiting)
        <4>1. Takes(R, S, s)
          BY <1>6, SweepFacts
        <4> QED
          BY <4>1 DEF Takes
      <3>2. waiting \in SUBSET Ids /\ started \in SUBSET waiting /\ started \in SUBSET Ids
            /\ Counted(s) \in SUBSET Ids /\ (Counted(s) \ R) \in SUBSET Ids
        BY <1>1 DEF Queued, Counted, Running
      <3>3. (Counted(s) \ R) \cap started = {}
        BY <1>1 DEF Counted, Running, Queued
      <3>4. Cardinality(Counted(s)') = taken + Cardinality(started)
        <4>1. Counted(s)' = (Counted(s) \ R) \cup started
          BY <1>2
        <4> HIDE DEF started
        <4> QED
          BY <3>2, <3>3, <4>1, CountDisjoint
      <3>5. taken \in Nat /\ Cardinality(waiting) \in Nat /\ taken <= Slots
        <4>1. taken \in Nat /\ Cardinality(waiting) \in Nat /\ Cardinality(Counted(s)) \in Nat
          BY <3>2, CountType
        <4>2. taken <= Cardinality(Counted(s))
          BY <3>2, CountSubset
        <4>3. Cardinality(Counted(s)) <= Slots
          BY DEF IInv, Limit
        <4> HIDE DEF taken, waiting
        <4> QED
          BY <1>0, <4>1, <4>2, <4>3
      <3>6. ASSUME NEW i \in Queued', i \in Of(s) PROVE Cardinality(started) < Cardinality(waiting)
        <4>1. i \in waiting /\ i \notin started
          BY <1>3, <3>6
        <4>2. started # waiting
          BY <4>1
        <4> HIDE DEF started, waiting
        <4> QED
          BY <3>2, <4>2, CountSubset
      <3> HIDE DEF taken, waiting, started
      <3> QED
        BY <1>0, <3>1, <3>4, <3>5, <3>6
    <2>2. \A i \in Queued' : i \in Of(request[i].session)
      BY <1>3 DEF Of
    <2> QED
      BY <1>0, <1>4, <2>1, <2>2 DEF Limit, Full
  <1> QED
    BY <1>5, <1>6

\* finish_child keeps the types of what it rewrites.
LEMMA FinishTypes ==
    ASSUME IInv, NEW R \in SUBSET Live, NEW S \in SUBSET (Queued \ R), NEW bad, NEW gone, NEW T,
           setup' = setup, Finish(R, bad, S, gone, T)
    PROVE  ChildTypes'
  <1> USE DEF Finish
  <1>0. ChildTypes /\ OtherTypes
    BY DEF IInv
  <1>1. /\ place' \in [Ids -> {"unborn", "queued", "pending", "active", "completed", "refused",
                              "dropped"}]
        /\ ahead' \in [Ids -> SUBSET Ids]
        /\ caller' \in [Ids -> {"none", "awaiting", "gone"}]
        /\ waiter' \in [Ids -> {"none", "waiting", "abandoned"}]
    BY <1>0 DEF ChildTypes
  <1>2. /\ run' \in [Ids -> {"none", "running", "buffered"}]
        /\ \A i \in Ids : run'[i] # "none" <=> place'[i] \in {"pending", "active"}
    <2>1. run' = [i \in Ids |-> IF i \in R THEN "none" ELSE IF i \in S THEN "running" ELSE run[i]]
      BY DEF RunAfter
    <2> QED
      BY <1>0, <2>1 DEF ChildTypes
  <1>3. token' \in [Ids -> BOOLEAN]
    OBVIOUS
  <1>4. handle_only' \in [Ids -> BOOLEAN]
    <2>1. \A i \in Ids : Asked[i].run_in_background \in BOOLEAN
      BY <1>0, SetupFacts DEF ChildTypes
    <2> QED
      BY <2>1
  <1>5. disposition' \in [Ids -> Dispositions]
    <2>2. \A i \in Ids : Deliver(i, i \in bad) \in Dispositions
      BY <1>0 DEF Deliver, Dispositions, OtherTypes
    <2>3. \A i \in Ids : disposition[i] \in Dispositions
      BY <1>0 DEF ChildTypes
    <2> QED
      BY <2>2, <2>3
  <1>6. setup' \in Setups
    BY <1>0 DEF ChildTypes
  <1> QED
    BY <1>1, <1>2, <1>3, <1>4, <1>5, <1>6 DEF ChildTypes

\* The answers that finish_child gives: a query or a caller left waiting has a live
\* child, and a workflow cancel an outstanding agent.
LEMMA FinishAnswers ==
    ASSUME IInv, NEW R \in SUBSET Live, NEW S \in SUBSET (Queued \ R), NEW bad, NEW gone, NEW T,
           SameRequests, Finish(R, bad, S, gone, T), Moved(R, S),
           workflow_cancel_waiters' = WorkflowWaitersAfter(R)
    PROVE  Queries' /\ Callers' /\ Cancels'
  <1>1. Queries'
    <2>1. \A i \in Ids : waiter'[i] # "none" => i \notin R /\ waiter[i] # "none"
      BY DEF Finish
    <2> QED
      BY <2>1 DEF IInv, Queries, Moved
  <1>2. Callers'
    <2>1. \A i \in Ids : caller'[i] # "none" => i \notin R /\ caller[i] # "none"
      BY DEF Finish
    <2> QED
      BY <2>1 DEF IInv, Callers, Moved
  <1>3. ASSUME NEW r \in workflow_cancel_waiters' PROVE WorkflowOutstanding(r)' # {}
    <2>1. /\ r \in workflow_cancel_waiters
          /\ (\E i \in R : request[i].owner = r) => WorkflowOutstanding(r) \ R # {}
      BY <1>3 DEF WorkflowWaitersAfter
    <2>2. WorkflowOutstanding(r) # {}
      BY <2>1 DEF IInv, Cancels
    <2>3. WorkflowOutstanding(r) \ R # {}
      BY <2>1, <2>2 DEF WorkflowOutstanding
    <2>4. \A i \in Ids : i \in Running /\ i \notin R => i \in Running'
      BY DEF Moved
    <2>5. WorkflowOutstanding(r) \ R \subseteq WorkflowOutstanding(r)'
      BY <2>4 DEF WorkflowOutstanding, SameRequests, Running
    <2> QED
      BY <2>3, <2>5
  <1> QED
    BY <1>1, <1>2, <1>3 DEF Cancels

\* A held teardown keeps the session closed until its last child has finished.
LEMMA TeardownsStand ==
    ASSUME IInv, NEW R \in SUBSET Live, NEW S, SameRequests, Moved(R, S)
    PROVE  \A s \in TeardownsAfter(R) : s \in teardown_drains /\ s \in Reopened(R) /\ SessionHasChildren(s)'
  <1> TAKE s \in TeardownsAfter(R)
  <1>1. /\ s \in teardown_drains
        /\ (\E i \in R : request[i].session = s) => (Live \ R) \cap Of(s) # {}
    BY DEF TeardownsAfter
  <1>2. s \in spawn_blocked /\ Live \cap Of(s) # {}
    BY <1>1 DEF IInv, Teardowns, SessionHasChildren
  <1>3. s \in Reopened(R)
    BY <1>2 DEF Reopened
  <1>4. (Live \ R) \cap Of(s) # {}
    <2>1. CASE \E i \in R : request[i].session = s
      BY <1>1, <2>1
    <2>2. CASE ~\E i \in R : request[i].session = s
      BY <1>2, <2>2 DEF Of
    <2> QED
      BY <2>1, <2>2
  <1>5. SessionHasChildren(s)' <=> (Live \ R) \cap Of(s) # {}
    BY DEF SessionHasChildren, Moved
  <1> QED
    BY <1>1, <1>3, <1>4, <1>5

\* A sweep does not queue anything, so what is queued stays unblocked while no
\* session is closed.
LEMMA StillUnblocked ==
    ASSUME IInv, NEW R, NEW S, SameRequests, Moved(R, S),
           \A i \in Queued' : request[i].session \in spawn_blocked' => request[i].session \in spawn_blocked
    PROVE  Unblocked'
  <1>1. \A i \in Queued' : i \in Queued /\ i \in Ids
    BY DEF Moved, Queued
  <1> QED
    BY <1>1 DEF IInv, Unblocked, SameRequests

\* After Settle a drain has a reason.
LEMMA SettleDrains ==
    ASSUME Settle PROVE Drains' /\ drain_waiters' \subseteq drain_waiters /\ turn' = "loop"
  BY DEF Settle, Drains

\* A handler that finishes R, sweeps and resolves: everything but the types of what
\* it writes besides, the drains, and the sessions it opens or closes.
Swept == ChildTypes /\ Limit /\ Full /\ Queries /\ Callers /\ Cancels
\* Finishing and sweeping keeps all of that.
LEMMA FinishSweeps ==
    ASSUME IInv, NEW R \in SUBSET Live, NEW S \in Sweep(R), NEW bad, NEW gone, NEW T,
           SameRequests, Finish(R, bad, S, gone, T),
           workflow_cancel_waiters' = WorkflowWaitersAfter(R)
    PROVE  Swept' /\ Moved(R, S)
  <1>1. S \in SUBSET (Queued \ R)
    BY SweepFacts
  <1>2. Moved(R, S)
    BY <1>1, FinishMoves DEF Finish
  <1>3. Limit' /\ Full'
    BY <1>2, SweepFills
  <1>4. ChildTypes'
    BY <1>1, FinishTypes DEF SameRequests
  <1>5. Queries' /\ Callers' /\ Cancels'
    BY <1>1, <1>2, FinishAnswers
  <1> QED
    BY <1>2, <1>3, <1>4, <1>5 DEF Swept

\* The common case: Resolve, and the reminder buffer grows.
LEMMA ResolveIInv ==
    ASSUME IInv, NEW R \in SUBSET Live, NEW S \in Sweep(R), NEW bad, NEW gone, NEW T,
           Finish(R, bad, S, gone, T), Resolve(R),
           setup' = setup, request' = request, commands_open' = commands_open,
           killed' \in [Ids -> BOOLEAN], pending_completions' = pending_completions \cup Buffered(R),
           turn' \in {"loop", "command", "timer", "stopped"}, Drains',
           drain_waiters' \subseteq drain_waiters
    PROVE  IInv'
  <1>1. SameRequests
    BY DEF SameRequests
  <1>2. Swept' /\ Moved(R, S)
    BY <1>1, FinishSweeps DEF Resolve
  <1>3. Teardowns'
    BY <1>1, <1>2, TeardownsStand DEF Resolve, Teardowns
  <1>4. Unblocked'
    <2>1. spawn_blocked' \subseteq spawn_blocked
      BY DEF Resolve, Reopened
    <2> QED
      BY <1>1, <1>2, <2>1, StillUnblocked
  <1>5. OtherTypes'
    <2>1. pending_completions' \in SUBSET Ids
      BY DEF IInv, OtherTypes, Buffered, Live, Queued, Running
    <2>2. /\ workflow_cancel_waiters' \in SUBSET WorkflowRuns
          /\ teardown_drains' \in SUBSET Parents /\ spawn_blocked' \in SUBSET Parents
      BY DEF IInv, OtherTypes, Resolve, WorkflowWaitersAfter, TeardownsAfter, Reopened
    <2> QED
      BY <2>1, <2>2 DEF IInv, OtherTypes
  <1> QED
    BY <1>2, <1>3, <1>4, <1>5 DEF IInv, Swept

----------------------------------------------------------------------------
\* The handlers that finish children

\* remove_queued takes only what is queued, so only live children finish.
LEMMA WithCancelledLive ==
    ASSUME NEW Q \in SUBSET Queued
    PROVE  /\ WithCancelled(Q) \in SUBSET Live /\ CancelledQueued \in SUBSET Live
           /\ Q \in SUBSET WithCancelled(Q)
  BY DEF WithCancelled, CancelledQueued, Live

\* A reap removes the queued spawns whose token is cancelled.
LEMMA ReapForIInv ==
    ASSUME IInv, NEW next \in {"loop", "command", "timer"}, ReapFor(next) PROVE IInv'
  <1> DEFINE R == CancelledQueued
  <1>1. PICK S \in Sweep(R) : Finish(R, R, S, Abandoned, {i \in Abandoned : ~Task(i)})
    BY DEF ReapFor
  <1>2. /\ Resolve(R) /\ pending_completions' = pending_completions \cup Buffered(R)
        /\ setup' = setup /\ commands_open' = commands_open /\ request' = request /\ killed' = killed
    BY DEF ReapFor
  <1>3. R \in SUBSET Live
    BY DEF CancelledQueued, Live
  <1>4. Drains' /\ drain_waiters' \subseteq drain_waiters /\ turn' \in {"loop", "command", "timer"}
    <2>1. CASE next = "loop"
      BY <2>1, SettleDrains DEF ReapFor
    <2>2. CASE next # "loop"
      BY <2>2 DEF ReapFor, Drains
    <2> QED
      BY <2>1, <2>2
  <1>5. killed' \in [Ids -> BOOLEAN]
    BY <1>2 DEF IInv, OtherTypes
  <1> HIDE DEF R
  <1> QED
    BY <1>1, <1>2, <1>3, <1>4, <1>5, ResolveIInv

\* The end of a run finishes its child.
LEMMA RunEndsIInv ==
    ASSUME IInv, NEW i \in Ids, RunEnds(i) PROVE IInv'
  <1> DEFINE R == {i} \cup CancelledQueued
  <1>1. PICK S \in Sweep(R), c \in BOOLEAN : Finish(R, IF c THEN R ELSE R \ {i}, S, {}, {})
    BY DEF RunEnds
  <1>2. /\ Resolve(R) /\ pending_completions' = pending_completions \cup Buffered(R)
        /\ killed' = [killed EXCEPT ![i] = FALSE]
        /\ setup' = setup /\ commands_open' = commands_open /\ request' = request
        /\ Settle /\ run[i] # "none"
    BY DEF RunEnds
  <1>3. R \in SUBSET Live
    BY <1>2 DEF CancelledQueued, Live, Running, IInv, ChildTypes
  <1>4. Drains' /\ drain_waiters' \subseteq drain_waiters /\ turn' = "loop"
    BY <1>2, SettleDrains
  <1>5. killed' \in [Ids -> BOOLEAN]
    BY <1>2 DEF IInv, OtherTypes
  <1> HIDE DEF R
  <1> QED
    BY <1>1, <1>2, <1>3, <1>4, <1>5, ResolveIInv

\* A cancel of one kind or another: the queued spawns Q are removed.
LEMMA CancelChildrenIInv ==
    ASSUME IInv, NEW T, NEW Q \in SUBSET Queued, CancelChildren(T, Q), Resolve(WithCancelled(Q)),
           setup' = setup, request' = request, commands_open' = commands_open,
           killed' \in [Ids -> BOOLEAN], Settle
    PROVE  IInv'
  <1> DEFINE R == WithCancelled(Q)
  <1>1. PICK S \in Sweep(R) : Finish(R, R, S, {}, T)
    BY DEF CancelChildren
  <1>2. pending_completions' = pending_completions \cup Buffered(R)
    BY DEF CancelChildren
  <1>3. R \in SUBSET Live
    BY WithCancelledLive
  <1>4. Drains' /\ drain_waiters' \subseteq drain_waiters /\ turn' = "loop"
    BY SettleDrains
  <1>5. Resolve(R)
    OBVIOUS
  <1> HIDE DEF R
  <1> QED
    BY <1>1, <1>2, <1>3, <1>4, <1>5, ResolveIInv

\* Cancel by id: a queued child is removed, a running one only gets its token cancelled.
LEMMA CancelOneIInv ==
    ASSUME IInv, NEW i \in Ids, CancelOne(i) PROVE IInv'
  <1>1. {i} \cap Queued \in SUBSET Queued
    OBVIOUS
  <1>2. killed' \in [Ids -> BOOLEAN]
    BY DEF CancelOne, IInv, OtherTypes
  <1> QED
    BY <1>1, <1>2, CancelChildrenIInv DEF CancelOne

\* Cancel by prompt.
LEMMA CancelPromptIInv ==
    ASSUME IInv, NEW d \in Scopes, CancelPrompt(d) PROVE IInv'
  <1> DEFINE hit == {i \in Of(d.session) : Asked[i].prompt = d.prompt}
  <1>1. /\ CancelChildren(hit \cap Running, hit \cap Queued) /\ Resolve(WithCancelled(hit \cap Queued))
        /\ setup' = setup /\ request' = request /\ commands_open' = commands_open /\ Settle
    BY DEF CancelPrompt
  <1>2. killed' \in [Ids -> BOOLEAN]
    BY DEF CancelPrompt, IInv, OtherTypes
  <1>3. hit \cap Queued \in SUBSET Queued
    OBVIOUS
  <1> HIDE DEF hit
  <1> QED
    BY <1>1, <1>2, <1>3, CancelChildrenIInv

\* Stop removes everything queued in the session it closes, which are task
\* children all.
LEMMA CancelSessionIInv ==
    ASSUME IInv, NEW s \in Sessions, CancelSession(s) PROVE IInv'
  <1> DEFINE Q == Stopped(s) \cap Queued
             R == WithCancelled(Q)
  <1>1. /\ CancelChildren(Stopped(s) \cap Running, Q)
        /\ workflow_cancel_waiters' = WorkflowWaitersAfter(R)
        /\ teardown_drains' = TeardownsAfter(R)
        /\ spawn_blocked' = (spawn_blocked \cup {s}) \ (teardown_drains \ TeardownsAfter(R))
        /\ setup' = setup /\ commands_open' = commands_open /\ request' = request /\ killed' = killed
        /\ Settle
    BY DEF CancelSession
  <1>2. /\ R \in SUBSET Live /\ Q \in SUBSET R
        /\ \A i \in Queued : request[i].session = s => i \in R
    <2>1. \A i \in Queued : request[i].session = s => i \in Q
      BY DEF IInv, Full, Stopped, Live, Of, Queued
    <2>2. Q \in SUBSET Queued
      OBVIOUS
    <2> HIDE DEF Q
    <2> QED
      BY <2>1, <2>2, WithCancelledLive
  <1>3. PICK S \in Sweep(R) : Finish(R, R, S, {}, Stopped(s) \cap Running)
    BY <1>1 DEF CancelChildren
  <1>4. pending_completions' = pending_completions \cup Buffered(R)
    BY <1>1 DEF CancelChildren
  <1> HIDE DEF R
  <1>5. SameRequests
    BY <1>1 DEF SameRequests
  <1>6. Swept' /\ Moved(R, S)
    BY <1>1, <1>2, <1>3, <1>5, FinishSweeps
  <1>7. Teardowns'
    BY <1>1, <1>2, <1>5, <1>6, TeardownsStand DEF Teardowns, Reopened
  <1>8. Unblocked'
    <2>1. \A i \in Queued' : request[i].session # s
      BY <1>2, <1>6 DEF Moved
    <2>2. \A i \in Queued' : request[i].session \in spawn_blocked' => request[i].session \in spawn_blocked
      BY <1>1, <2>1
    <2> QED
      BY <1>5, <1>6, <2>2, StillUnblocked
  <1>9. OtherTypes'
    <2>1. pending_completions' \in SUBSET Ids
      BY <1>2, <1>4 DEF IInv, OtherTypes, Buffered, Live, Queued, Running
    <2>2. /\ workflow_cancel_waiters' \in SUBSET WorkflowRuns
          /\ teardown_drains' \in SUBSET Parents /\ spawn_blocked' \in SUBSET Parents
      BY <1>1 DEF IInv, OtherTypes, WorkflowWaitersAfter, TeardownsAfter, Parents
    <2>3. drain_waiters' \in SUBSET Scopes /\ turn' = "loop"
      BY <1>1, SettleDrains DEF IInv, OtherTypes
    <2> QED
      BY <1>1, <2>1, <2>2, <2>3 DEF IInv, OtherTypes
  <1>10. Drains'
    BY <1>1, SettleDrains
  <1> QED
    BY <1>6, <1>7, <1>8, <1>9, <1>10 DEF IInv, Swept

\* Teardown empties the session's queue, so admission may be closed; it is held only
\* while a child is left to drain.
LEMMA TeardownSessionIInv ==
    ASSUME IInv, NEW s \in Sessions, NEW responder \in BOOLEAN, TeardownSession(s, responder)
    PROVE  IInv'
  <1> DEFINE Q == Queued \cap Of(s)
             R == WithCancelled(Q)
             held == responder /\ (Live \ R) \cap Of(s) # {}
  <1>1. /\ request' = [i \in Ids |-> IF i \in Silenced(s)
                                     THEN [request[i] EXCEPT !.surface_completion = FALSE]
                                     ELSE request[i]]
        /\ pending_completions' =
             (pending_completions \ Of(s)) \cup {i \in Buffered(R) : request'[i].surface_completion}
        /\ workflow_cancel_waiters' = WorkflowWaitersAfter(R)
        /\ teardown_drains' = TeardownsAfter(R) \cup {t \in {s} : held}
        /\ spawn_blocked' = Reopened(R) \cup {t \in {s} : held}
        /\ setup' = setup /\ commands_open' = commands_open /\ killed' = killed
        /\ Settle
    BY DEF TeardownSession
  <1>2. /\ R \in SUBSET Live
        /\ \A i \in Queued : request[i].session = s => i \in R
    <2>1. \A i \in Queued : request[i].session = s => i \in Q
      BY DEF Of, Queued
    <2>2. Q \in SUBSET Queued
      OBVIOUS
    <2> HIDE DEF Q
    <2> QED
      BY <2>1, <2>2, WithCancelledLive
  <1>3. PICK S \in Sweep(R) : Finish(R, R, S, {}, Live \cap Of(s))
    BY DEF TeardownSession
  <1> HIDE DEF R
  <1>4. /\ SameRequests
        /\ request' \in [Ids -> [session : Parents, owner : Owners, surface_completion : BOOLEAN]]
    <2>1. \A i \in Ids : request[i] \in [session : Parents, owner : Owners, surface_completion : BOOLEAN]
      BY DEF IInv, OtherTypes
    <2>2. \A i \in Ids : /\ request'[i].session = request[i].session
                         /\ request'[i].owner = request[i].owner
                         /\ request'[i] \in [session : Parents, owner : Owners, surface_completion : BOOLEAN]
      BY <1>1, <2>1
    <2> QED
      BY <1>1, <2>2 DEF SameRequests
  <1>5. Swept' /\ Moved(R, S)
    BY <1>1, <1>2, <1>3, <1>4, FinishSweeps
  <1>6. Teardowns'
    <2>1. held => SessionHasChildren(s)'
      BY <1>5 DEF SessionHasChildren, Moved
    <2> HIDE DEF held
    <2>2. \A t \in TeardownsAfter(R) : t \in Reopened(R) /\ SessionHasChildren(t)'
      BY <1>2, <1>4, <1>5, TeardownsStand
    <2> QED
      BY <1>1, <2>1, <2>2 DEF Teardowns
  <1>7. Unblocked'
    <2>1. \A i \in Queued' : request[i].session # s
      BY <1>2, <1>5 DEF Moved
    <2>2. \A i \in Queued' : request[i].session \in spawn_blocked' => request[i].session \in spawn_blocked
      BY <1>1, <2>1 DEF Reopened
    <2> QED
      BY <1>4, <1>5, <2>2, StillUnblocked
  <1>8. OtherTypes'
    <2>1. pending_completions' \in SUBSET Ids
      BY <1>1, <1>2 DEF IInv, OtherTypes, Buffered, Live, Queued, Running
    <2>2. /\ workflow_cancel_waiters' \in SUBSET WorkflowRuns
          /\ teardown_drains' \in SUBSET Parents /\ spawn_blocked' \in SUBSET Parents
      BY <1>1 DEF IInv, OtherTypes, WorkflowWaitersAfter, TeardownsAfter, Reopened, Parents
    <2>3. drain_waiters' \in SUBSET Scopes /\ turn' = "loop"
      BY <1>1, SettleDrains DEF IInv, OtherTypes
    <2> QED
      BY <1>1, <1>4, <2>1, <2>2, <2>3 DEF IInv, OtherTypes
  <1>9. Drains'
    BY <1>1, SettleDrains
  <1> QED
    BY <1>5, <1>6, <1>7, <1>8, <1>9 DEF IInv, Swept

----------------------------------------------------------------------------
\* The handlers and events that finish no child

\* Nothing enters or leaves the queue or the running children, so the limit and
\* the reasons to wait stand, for the waits that were there and for new ones.
SameChildren ==
    /\ setup' = setup
    /\ Queued' = Queued /\ Running' = Running
    /\ \A i \in Live : request'[i].session = request[i].session /\ request'[i].owner = request[i].owner

\* What the waits are about is as it was.
LEMMA SameChildrenFacts ==
    ASSUME ChildTypes, SameChildren
    PROVE  /\ Live' = Live /\ Slots' = Slots
           /\ \A s : Counted(s)' = Counted(s)
           /\ \A r : WorkflowOutstanding(r)' = WorkflowOutstanding(r)
           /\ \A s : SessionHasChildren(s)' <=> SessionHasChildren(s)
           /\ \A i \in Queued : (Task(i)' <=> Task(i)) /\ request'[i].session = request[i].session
  <1>1. Live' = Live
    BY DEF Live, SameChildren
  <1>2. Slots' = Slots
    BY DEF Slots, MaxConcurrent, SameChildren
  <1>3. \A i \in Live : i \in Ids /\ request'[i].session = request[i].session
                        /\ request'[i].owner = request[i].owner
    BY DEF SameChildren, Live, Queued, Running
  <1>4. Running \subseteq Live /\ Queued \subseteq Live /\ Running \subseteq Ids
    BY DEF Live, Running
  <1>5. ASSUME NEW s PROVE Counted(s)' = Counted(s)
    <2>1. \A i : i \in Counted(s) <=> i \in Running /\ request[i].session = s /\ request[i].owner = "task"
      BY <1>4 DEF Counted, Of, Task
    <2>2. \A i : i \in Counted(s)' <=> i \in Running' /\ i \in Ids /\ request'[i].session = s
                                       /\ request'[i].owner = "task"
      BY DEF Counted, Of, Task
    <2> QED
      BY <1>3, <1>4, <2>1, <2>2 DEF SameChildren
  <1>6. ASSUME NEW r PROVE WorkflowOutstanding(r)' = WorkflowOutstanding(r)
    <2>1. \A i : i \in WorkflowOutstanding(r) <=> i \in Running /\ request[i].owner = r
      BY DEF WorkflowOutstanding
    <2>2. \A i : i \in WorkflowOutstanding(r)' <=> i \in Running' /\ request'[i].owner = r
      BY DEF WorkflowOutstanding
    <2> QED
      BY <1>3, <1>4, <2>1, <2>2 DEF SameChildren
  <1>7. ASSUME NEW s PROVE SessionHasChildren(s)' <=> SessionHasChildren(s)
    <2>1. SessionHasChildren(s) <=> \E i \in Live : request[i].session = s
      BY <1>3 DEF SessionHasChildren, Of
    <2>2. SessionHasChildren(s)' <=> \E i \in Live' : i \in Ids /\ request'[i].session = s
      BY DEF SessionHasChildren, Of
    <2> QED
      BY <1>1, <1>3, <2>1, <2>2
  <1>8. \A i \in Queued : (Task(i)' <=> Task(i)) /\ request'[i].session = request[i].session
    BY <1>3, <1>4 DEF Task
  <1> QED
    BY <1>1, <1>2, <1>5, <1>6, <1>7, <1>8

\* The invariant of a step that moves no child: every new wait needs its reason.
LEMMA QuietIInv ==
    ASSUME IInv, SameChildren, ChildTypes', OtherTypes', Drains',
           \A i \in Ids : waiter'[i] # "none" => waiter[i] # "none" \/ i \in Live,
           \A i \in Ids : caller'[i] # "none" => caller[i] # "none",
           \A r \in workflow_cancel_waiters' : r \in workflow_cancel_waiters \/ WorkflowOutstanding(r) # {},
           \A s \in teardown_drains' : s \in teardown_drains /\ (s \in spawn_blocked => s \in spawn_blocked'),
           spawn_blocked' \subseteq spawn_blocked
    PROVE  IInv'
  <1>0. /\ Live' = Live /\ Slots' = Slots /\ Queued' = Queued
        /\ \A s : Counted(s)' = Counted(s)
        /\ \A r : WorkflowOutstanding(r)' = WorkflowOutstanding(r)
        /\ \A s : SessionHasChildren(s)' <=> SessionHasChildren(s)
        /\ \A i \in Queued : (Task(i)' <=> Task(i)) /\ request'[i].session = request[i].session
    BY SameChildrenFacts DEF IInv, SameChildren
  <1>1. Limit' /\ Full'
    <2>1. Limit /\ Full
      BY DEF IInv
    <2>2. Limit'
      BY <1>0, <2>1 DEF Limit
    <2>3. Full'
      BY <1>0, <2>1 DEF Full
    <2> QED
      BY <2>2, <2>3
  <1>2. Queries' /\ Callers'
    BY <1>0 DEF IInv, Queries, Callers
  <1>3. Cancels'
    BY <1>0 DEF IInv, Cancels
  <1>4. Teardowns'
    BY <1>0 DEF IInv, Teardowns
  <1>5. Unblocked'
    BY <1>0 DEF IInv, Unblocked
  <1> QED
    BY <1>1, <1>2, <1>3, <1>4, <1>5 DEF IInv

\* Most of them move no child at all.
LEMMA Unmoved ==
    ASSUME place' = place, request' = request, setup' = setup
    PROVE  /\ SameChildren
           /\ handle_only' = handle_only => \A d : TurnBlocking(d)' = TurnBlocking(d)
  <1>1. SameChildren
    BY DEF SameChildren, Queued, Running
  <1>2. handle_only' = handle_only => \A d : TurnBlocking(d)' = TurnBlocking(d)
    BY DEF TurnBlocking, Live, Queued, Running, InScope, Of, Task, Asked
  <1> QED
    BY <1>1, <1>2

\* Cancelling keeps the tokens Boolean.
LEMMA CancellingType ==
    ASSUME NEW T, Cancelling(T) PROVE token' \in [Ids -> BOOLEAN]
  BY DEF Cancelling

\* The caller that leaves had a live child, and still counts as unanswered.
LEMMA CallerLeavesIInv ==
    ASSUME IInv, NEW i \in Ids, CallerLeaves(i) PROVE IInv'
  <1>1. SameChildren /\ \A d : TurnBlocking(d)' = TurnBlocking(d)
    BY Unmoved DEF CallerLeaves
  <1>2. ChildTypes'
    <2>1. token' \in [Ids -> BOOLEAN]
      BY CancellingType DEF CallerLeaves
    <2>2. caller' \in [Ids -> {"none", "awaiting", "gone"}]
      BY DEF CallerLeaves, IInv, ChildTypes
    <2> QED
      BY <2>1, <2>2 DEF CallerLeaves, IInv, ChildTypes
  <1>3. OtherTypes'
    BY DEF CallerLeaves, IInv, OtherTypes, waitVars
  <1>4. Drains'
    BY <1>1 DEF CallerLeaves, IInv, Drains, waitVars
  <1>5. \A j \in Ids : caller'[j] # "none" => caller[j] # "none"
    BY DEF CallerLeaves, IInv, ChildTypes
  <1> QED
    BY <1>1, <1>2, <1>3, <1>4, <1>5, QuietIInv DEF CallerLeaves, waitVars

\* A cancelled token alone changes no wait.
LEMMA TokenCancelledIInv ==
    ASSUME IInv, NEW i \in Ids, TokenCancelled(i) PROVE IInv'
  <1>1. SameChildren /\ \A d : TurnBlocking(d)' = TurnBlocking(d)
    BY Unmoved DEF TokenCancelled
  <1>2. ChildTypes'
    <2>1. token' \in [Ids -> BOOLEAN]
      BY CancellingType DEF TokenCancelled
    <2> QED
      BY <2>1 DEF TokenCancelled, IInv, ChildTypes
  <1>3. OtherTypes'
    BY DEF TokenCancelled, IInv, OtherTypes, waitVars
  <1>4. Drains'
    BY <1>1 DEF TokenCancelled, IInv, Drains, waitVars
  <1> QED
    BY <1>1, <1>2, <1>3, <1>4, QuietIInv DEF TokenCancelled, waitVars

\* An abandoned query is still on its live child.
LEMMA WaiterLeavesIInv ==
    ASSUME IInv, NEW i \in Ids, WaiterLeaves(i) PROVE IInv'
  <1>1. SameChildren /\ \A d : TurnBlocking(d)' = TurnBlocking(d)
    BY Unmoved DEF WaiterLeaves
  <1>2. ChildTypes'
    BY DEF WaiterLeaves, IInv, ChildTypes
  <1>3. OtherTypes'
    BY DEF WaiterLeaves, IInv, OtherTypes, waitVars
  <1>4. Drains'
    BY <1>1 DEF WaiterLeaves, IInv, Drains, waitVars
  <1>5. \A j \in Ids : waiter'[j] # "none" => waiter[j] # "none"
    BY DEF WaiterLeaves, IInv, ChildTypes
  <1> QED
    BY <1>1, <1>2, <1>3, <1>4, <1>5, QuietIInv DEF WaiterLeaves, waitVars

\* Closing the commands, leaving the loop and stuttering touch no child.
LEMMA IdleIInv ==
    ASSUME IInv, UNCHANGED <<setup, childVars, waitVars>>, commands_open' \in BOOLEAN,
           turn' \in {turn, "stopped"}
    PROVE  IInv'
  <1>1. SameChildren /\ \A d : TurnBlocking(d)' = TurnBlocking(d)
    BY Unmoved DEF childVars
  <1>2. ChildTypes'
    BY DEF IInv, ChildTypes, childVars
  <1>3. OtherTypes'
    BY DEF IInv, OtherTypes, childVars, waitVars
  <1>4. Drains'
    BY <1>1 DEF IInv, Drains, waitVars
  <1> QED
    BY <1>1, <1>2, <1>3, <1>4, QuietIInv DEF childVars, waitVars

\* The cancel of a run is parked only while an agent of it is outstanding.
LEMMA CancelWorkflowIInv ==
    ASSUME IInv, NEW r \in WorkflowRuns, CancelWorkflow(r) PROVE IInv'
  <1>1. SameChildren
    BY Unmoved DEF CancelWorkflow
  <1>2. ChildTypes'
    <2>1. token' \in [Ids -> BOOLEAN]
      BY CancellingType DEF CancelWorkflow
    <2> QED
      BY <2>1 DEF CancelWorkflow, IInv, ChildTypes
  <1>3. Drains' /\ drain_waiters' \subseteq drain_waiters /\ turn' = "loop"
    BY SettleDrains DEF CancelWorkflow
  <1>4. OtherTypes'
    BY <1>3 DEF CancelWorkflow, IInv, OtherTypes
  <1> QED
    BY <1>1, <1>2, <1>3, <1>4, QuietIInv DEF CancelWorkflow

\* Admission is not reopened under a held teardown.
LEMMA OpenSpawnAdmissionIInv ==
    ASSUME IInv, NEW s \in Sessions, OpenSpawnAdmission(s) PROVE IInv'
  <1>1. SameChildren
    BY Unmoved DEF OpenSpawnAdmission, childVars
  <1>2. ChildTypes'
    BY DEF OpenSpawnAdmission, IInv, ChildTypes, childVars
  <1>3. Drains' /\ drain_waiters' \subseteq drain_waiters /\ turn' = "loop"
    BY SettleDrains DEF OpenSpawnAdmission
  <1>4. OtherTypes'
    BY <1>3 DEF OpenSpawnAdmission, IInv, OtherTypes, childVars
  <1> QED
    BY <1>1, <1>2, <1>3, <1>4, QuietIInv DEF OpenSpawnAdmission, childVars

\* Handing over the reminder buffer changes no wait.
LEMMA CompletionsIInv ==
    ASSUME IInv, NEW s \in Sessions, Completions(s) PROVE IInv'
  <1>1. SameChildren
    BY Unmoved DEF Completions, childVars
  <1>2. ChildTypes'
    BY DEF Completions, IInv, ChildTypes, childVars
  <1>3. Drains' /\ drain_waiters' \subseteq drain_waiters /\ turn' = "loop"
    BY SettleDrains DEF Completions
  <1>4. OtherTypes'
    BY <1>3 DEF Completions, IInv, OtherTypes, childVars
  <1> QED
    BY <1>1, <1>2, <1>3, <1>4, QuietIInv DEF Completions, childVars

\* A drain that is parked has a reason, and the ones that have none leave.
LEMMA WaitPromptDrainedIInv ==
    ASSUME IInv, NEW d \in Scopes, WaitPromptDrained(d) PROVE IInv'
  <1>1. SameChildren /\ \A e : TurnBlocking(e)' = TurnBlocking(e)
    BY Unmoved DEF WaitPromptDrained, childVars
  <1>2. ChildTypes'
    BY DEF WaitPromptDrained, IInv, ChildTypes, childVars
  <1>3. Drains'
    BY <1>1 DEF WaitPromptDrained, Drains
  <1>4. OtherTypes'
    BY DEF WaitPromptDrained, IInv, OtherTypes, childVars
  <1> QED
    BY <1>1, <1>2, <1>3, <1>4, QuietIInv DEF WaitPromptDrained, childVars

\* A blocking query is taken only for a live child.
LEMMA QueryIInv ==
    ASSUME IInv, NEW i \in Ids, Query(i) PROVE IInv'
  <1>1. SameChildren
    BY Unmoved DEF Query
  <1>2. ChildTypes'
    BY DEF Query, IInv, ChildTypes
  <1>3. Drains' /\ drain_waiters' \subseteq drain_waiters /\ turn' = "loop"
    BY SettleDrains DEF Query
  <1>4. OtherTypes'
    BY <1>3 DEF Query, IInv, OtherTypes
  <1>5. \A j \in Ids : waiter'[j] # "none" => waiter[j] # "none" \/ j \in Live
    BY DEF Query, IInv, ChildTypes
  <1> QED
    BY <1>1, <1>2, <1>3, <1>4, <1>5, QuietIInv DEF Query

\* Promotion moves a child within the running ones.
LEMMA StartedIInv ==
    ASSUME IInv, NEW i \in Ids, Started(i) PROVE IInv'
  <1>1. SameChildren
    <2>1. \A j \in Ids : /\ place'[j] = "queued" <=> place[j] = "queued"
                         /\ place'[j] \in {"pending", "active"} <=> place[j] \in {"pending", "active"}
      BY DEF Started, IInv, ChildTypes
    <2> QED
      BY <2>1 DEF Started, SameChildren, Queued, Running
  <1>2. ChildTypes'
    BY DEF Started, IInv, ChildTypes
  <1>3. Drains' /\ drain_waiters' \subseteq drain_waiters /\ turn' = "loop"
    BY SettleDrains DEF Started
  <1>4. OtherTypes'
    BY <1>3 DEF Started, IInv, OtherTypes
  <1> QED
    BY <1>1, <1>2, <1>3, <1>4, QuietIInv DEF Started

\* Keeping the output of a run leaves the child active.
LEMMA BufferOutputIInv ==
    ASSUME IInv, NEW i \in Ids, BufferOutput(i) PROVE IInv'
  <1>1. SameChildren
    BY Unmoved DEF BufferOutput
  <1>2. ChildTypes'
    BY DEF BufferOutput, IInv, ChildTypes
  <1>3. Drains' /\ drain_waiters' \subseteq drain_waiters /\ turn' = "loop"
    BY SettleDrains DEF BufferOutput
  <1>4. OtherTypes'
    BY <1>3 DEF BufferOutput, IInv, OtherTypes
  <1> QED
    BY <1>1, <1>2, <1>3, <1>4, QuietIInv DEF BufferOutput

\* A teardown drain that is due reopens exactly its own session.
LEMMA ProcessDeadlinesIInv ==
    ASSUME IInv, NEW F \in SUBSET Ids, NEW W \in SUBSET Ids, NEW D \in SUBSET teardown_drains,
           ProcessDeadlines(F, W, D)
    PROVE  IInv'
  <1>1. SameChildren
    BY Unmoved DEF ProcessDeadlines
  <1>2. ChildTypes'
    <2>1. handle_only' \in [Ids -> BOOLEAN]
      BY DEF ProcessDeadlines
    <2>2. /\ caller' \in [Ids -> {"none", "awaiting", "gone"}]
          /\ waiter' \in [Ids -> {"none", "waiting", "abandoned"}]
      BY DEF ProcessDeadlines, IInv, ChildTypes
    <2> QED
      BY <2>1, <2>2 DEF ProcessDeadlines, IInv, ChildTypes
  <1>3. Drains' /\ drain_waiters' \subseteq drain_waiters /\ turn' = "loop"
    BY SettleDrains DEF ProcessDeadlines
  <1>4. OtherTypes'
    BY <1>3 DEF ProcessDeadlines, IInv, OtherTypes, ReopenedAt
  <1>5. \A j \in Ids : /\ waiter'[j] # "none" => waiter[j] # "none"
                       /\ caller'[j] # "none" => caller[j] # "none"
    BY DEF ProcessDeadlines
  <1>6. /\ \A s \in teardown_drains' : s \in teardown_drains /\ (s \in spawn_blocked => s \in spawn_blocked')
        /\ spawn_blocked' \subseteq spawn_blocked
    BY DEF ProcessDeadlines, ReopenedAt
  <1> QED
    BY <1>1, <1>2, <1>3, <1>4, <1>5, <1>6, QuietIInv DEF ProcessDeadlines

----------------------------------------------------------------------------
\* Spawning

\* An unborn child is nowhere yet, and its effective request is a request.
LEMMA SpawnFacts ==
    ASSUME IInv, NEW i \in Ids, CanSpawn(i)
    PROVE  /\ i \notin Live /\ run[i] = "none"
           /\ Reparented(i) \in [session : Parents, owner : Owners, surface_completion : BOOLEAN]
  <1>1. i \notin Live /\ run[i] = "none"
    BY DEF CanSpawn, Live, Queued, Running, IInv, ChildTypes
  <1>2. \A j \in Ids : request[j] \in [session : Parents, owner : Owners, surface_completion : BOOLEAN]
    BY DEF IInv, OtherTypes
  <1>3. CASE Spawner(i) = {}
    <2>1. Reparented(i) = request[i]
      BY <1>3 DEF Reparented
    <2> QED
      BY <1>1, <1>2, <2>1
  <1>4. CASE Spawner(i) # {}
    <2> DEFINE p == Asked[i].parent
    <2>1. p \in Ids
      BY <1>4 DEF Spawner
    <2>2. Reparented(i) = [session            |-> request[p].session,
                           owner              |-> IF Task(i) THEN request[p].owner ELSE request[i].owner,
                           surface_completion |-> FALSE]
      BY <1>4 DEF Reparented
    <2>3. request[p].session \in Parents /\ request[p].owner \in Owners /\ request[i].owner \in Owners
      BY <1>2, <2>1
    <2> HIDE DEF p
    <2> QED
      BY <1>1, <2>2, <2>3
  <1> QED
    BY <1>1, <1>3, <1>4

\* A refused spawn never enters a map.
LEMMA RefuseSpawnIInv ==
    ASSUME IInv, NEW i \in Ids, RefuseSpawn(i) PROVE IInv'
  <1>0. place[i] = "unborn"
    BY DEF RefuseSpawn, CanSpawn
  <1>1. SameChildren
    <2>1. \A j \in Ids : /\ place'[j] = "queued" <=> place[j] = "queued"
                         /\ place'[j] \in {"pending", "active"} <=> place[j] \in {"pending", "active"}
      BY <1>0 DEF RefuseSpawn, IInv, ChildTypes
    <2> QED
      BY <2>1 DEF RefuseSpawn, SameChildren, Queued, Running
  <1>2. ChildTypes'
    BY <1>0 DEF RefuseSpawn, IInv, ChildTypes
  <1>3. Drains' /\ drain_waiters' \subseteq drain_waiters /\ turn' = "loop"
    BY SettleDrains DEF RefuseSpawn
  <1>4. OtherTypes'
    BY <1>3 DEF RefuseSpawn, IInv, OtherTypes
  <1> QED
    BY <1>1, <1>2, <1>3, <1>4, QuietIInv DEF RefuseSpawn

\* A rejected spawn completes without having been live.
LEMMA RejectSpawnIInv ==
    ASSUME IInv, NEW i \in Ids, RejectSpawn(i) PROVE IInv'
  <1>0. /\ place[i] = "unborn" /\ i \notin Live
        /\ Reparented(i) \in [session : Parents, owner : Owners, surface_completion : BOOLEAN]
    BY SpawnFacts DEF RejectSpawn, CanSpawn
  <1>1. SameChildren
    <2>1. \A j \in Ids : /\ place'[j] = "queued" <=> place[j] = "queued"
                         /\ place'[j] \in {"pending", "active"} <=> place[j] \in {"pending", "active"}
      BY <1>0 DEF RejectSpawn, IInv, ChildTypes
    <2>2. \A j \in Live : request'[j] = request[j]
      BY <1>0 DEF RejectSpawn, IInv, OtherTypes, Live, Queued, Running
    <2> QED
      BY <2>1, <2>2 DEF RejectSpawn, SameChildren, Queued, Running
  <1>2. ChildTypes'
    <2>1. RejectedDisposition(i) \in Dispositions
      <3>1. handle_only[i] \in BOOLEAN /\ Reparented(i).surface_completion \in BOOLEAN
        BY <1>0 DEF IInv, ChildTypes
      <3> QED
        BY <3>1 DEF RejectedDisposition, NoDisposition, Dispositions
    <2>2. disposition' \in [Ids -> Dispositions]
      BY <2>1 DEF RejectSpawn, IInv, ChildTypes
    <2> QED
      BY <1>0, <2>2 DEF RejectSpawn, IInv, ChildTypes
  <1>3. Drains' /\ drain_waiters' \subseteq drain_waiters /\ turn' = "loop"
    BY SettleDrains DEF RejectSpawn
  <1>4. OtherTypes'
    <2>1. request' \in [Ids -> [session : Parents, owner : Owners, surface_completion : BOOLEAN]]
      BY <1>0 DEF RejectSpawn, IInv, OtherTypes
    <2>2. pending_completions' \in SUBSET Ids
      BY DEF RejectSpawn, IInv, OtherTypes
    <2> QED
      BY <1>3, <2>1, <2>2 DEF RejectSpawn, IInv, OtherTypes
  <1> QED
    BY <1>1, <1>2, <1>3, <1>4, QuietIInv DEF RejectSpawn

\* Admission keeps the limit: a task child starts where a slot is free, and then
\* nothing is queued in its session; it is queued where none is, in a session that
\* is not closed.
LEMMA AdmitSpawnIInv ==
    ASSUME IInv, NEW i \in Ids, AdmitSpawn(i) PROVE IInv'
  <1> DEFINE q == Reparented(i)
             inline == q.owner = "task"
  <1>0. /\ place[i] = "unborn" /\ i \notin Live /\ run[i] = "none" /\ setup \in Setups
        /\ q \in [session : Parents, owner : Owners, surface_completion : BOOLEAN]
        /\ setup' = setup /\ Slots' = Slots /\ Slots \in Nat \ {0}
    <2>1. CanSpawn(i) /\ setup' = setup
      BY DEF AdmitSpawn
    <2>2. setup \in Setups
      BY DEF IInv, ChildTypes
    <2>3. Slots' = Slots
      BY <2>1 DEF Slots, MaxConcurrent
    <2> QED
      BY <2>1, <2>2, <2>3, SpawnFacts, SetupFacts DEF CanSpawn
  <1>1. /\ request' = [request EXCEPT ![i] = q] /\ ~Refused(i) /\ Settle
        /\ caller' = [caller EXCEPT ![i] = "awaiting"]
        /\ UNCHANGED <<commands_open, token, killed, handle_only, waiter, disposition,
                       pending_completions, workflow_cancel_waiters, teardown_drains, spawn_blocked>>
        /\ \/ /\ Admitted(i) /\ ahead' = ahead
              /\ place' = [place EXCEPT ![i] = "pending"] /\ run' = [run EXCEPT ![i] = "running"]
           \/ /\ ~Admitted(i) /\ run' = run
              /\ place' = [place EXCEPT ![i] = "queued"] /\ ahead' = [ahead EXCEPT ![i] = Queued]
    BY DEF AdmitSpawn
  <1> HIDE DEF q
  <1>2. /\ \A j \in Live : j \in Ids /\ j # i /\ request'[j] = request[j]
        /\ request'[i] = q /\ Queued \subseteq Live /\ Running \subseteq Live
    <2>1. \A j \in Live : j \in Ids /\ j # i
      BY <1>0 DEF Live, Queued, Running
    <2>2. request'[i] = q /\ \A j \in Ids \ {i} : request'[j] = request[j]
      BY <1>1 DEF IInv, OtherTypes
    <2> QED
      BY <2>1, <2>2 DEF Live
  <1>3. \/ Admitted(i) /\ Queued' = Queued /\ Running' = Running \cup {i}
        \/ ~Admitted(i) /\ Queued' = Queued \cup {i} /\ Running' = Running
    <2>1. place[i] = "unborn" /\ place \in [Ids -> {"unborn", "queued", "pending", "active", "completed",
                                                    "refused", "dropped"}]
      BY <1>0 DEF IInv, ChildTypes
    <2>2. CASE place' = [place EXCEPT ![i] = "pending"]
      <3>1. Queued' = Queued
        BY <2>1, <2>2 DEF Queued
      <3>2. Running' = Running \cup {i}
        BY <2>1, <2>2 DEF Running
      <3> QED
        BY <1>1, <2>1, <2>2, <3>1, <3>2
    <2>3. CASE place' = [place EXCEPT ![i] = "queued"]
      <3>1. Queued' = Queued \cup {i}
        BY <2>1, <2>3 DEF Queued
      <3>2. Running' = Running
        BY <2>1, <2>3 DEF Running
      <3> QED
        BY <1>1, <2>1, <2>3, <3>1, <3>2
    <2> QED
      BY <1>1, <2>2, <2>3
  <1>4. Live' = Live \cup {i}
    BY <1>3 DEF Live
  <1>5. \A j \in Live : Task(j)' <=> Task(j)
    BY <1>2 DEF Task
  <1>6. Task(i)' <=> inline
    BY <1>2 DEF Task
  <1>7. ASSUME NEW s
        PROVE  Counted(s)' = IF Admitted(i) /\ inline /\ q.session = s
                             THEN Counted(s) \cup {i} ELSE Counted(s)
    <2>1. \A j : j \in Counted(s) <=> j \in Running /\ request[j].session = s /\ request[j].owner = "task"
      BY DEF Counted, Of, Task, Running
    <2>2. \A j : j \in Counted(s)' <=> j \in Running' /\ j \in Ids /\ request'[j].session = s
                                       /\ request'[j].owner = "task"
      BY DEF Counted, Of, Task
    <2>3. \A j \in Running : j \in Ids /\ j # i /\ request'[j] = request[j]
      BY <1>2
    <2>4. CASE Admitted(i)
      <3>1. \A j : j \in Counted(s)' <=> j \in Counted(s) \/ (j = i /\ inline /\ q.session = s)
        BY <1>2, <1>3, <2>1, <2>2, <2>3, <2>4
      <3> QED
        BY <2>4, <3>1
    <2>5. CASE ~Admitted(i)
      <3>1. \A j : j \in Counted(s)' <=> j \in Counted(s)
        BY <1>3, <2>1, <2>2, <2>3, <2>5
      <3> QED
        BY <2>5, <3>1
    <2> QED
      BY <2>4, <2>5
  <1>8. \A s \in Parents : /\ Counted(s) \in SUBSET Ids /\ Cardinality(Counted(s)) \in Nat
                           /\ Cardinality(Counted(s)) <= Slots /\ i \notin Counted(s)
    <2> TAKE s \in Parents
    <2>1. Counted(s) \in SUBSET Ids /\ i \notin Counted(s)
      BY <1>2 DEF Counted, Running
    <2> QED
      BY <2>1, CountType DEF IInv, Limit
  <1>9. Admitted(i) <=> ~inline \/ Cardinality(Counted(q.session)) < Slots
    BY DEF Admitted, HasCapacity, q
  <1>10. Limit'
    <2>1. ASSUME NEW s \in Parents, Admitted(i), inline, q.session = s
          PROVE  Cardinality(Counted(s) \cup {i}) <= Slots
      <3>1. Cardinality(Counted(s) \cup {i}) = Cardinality(Counted(s)) + 1
        BY <1>8, CountType, FS_AddElement
      <3> QED
        BY <1>0, <1>8, <1>9, <2>1, <3>1
    <2> QED
      BY <1>0, <1>7, <1>8, <2>1 DEF Limit
  <1>11. Full'
    <2>1. \A j \in Queued : Task(j) /\ Cardinality(Counted(request[j].session)) = Slots
      BY DEF IInv, Full
    <2>2. CASE Admitted(i)
      <3>1. \A j \in Queued : ~(inline /\ q.session = request[j].session)
        BY <1>0, <1>9, <2>1, <2>2
      <3> QED
        BY <1>0, <1>2, <1>3, <1>5, <1>7, <2>1, <2>2, <3>1 DEF Full
    <2>3. CASE ~Admitted(i)
      <3>1. inline /\ Cardinality(Counted(q.session)) = Slots
        BY <1>0, <1>8, <1>9, <2>3
      <3>2. \A j \in Queued' : j = i \/ j \in Queued
        BY <1>3, <2>3
      <3> QED
        BY <1>0, <1>2, <1>5, <1>6, <1>7, <2>1, <2>3, <3>1, <3>2 DEF Full
    <2> QED
      BY <2>2, <2>3
  <1>12. Queries' /\ Callers'
    <2>1. Queries'
      BY <1>1, <1>4 DEF IInv, Queries
    <2>2. \A j \in Ids : caller'[j] # "none" => j = i \/ caller[j] # "none"
      BY <1>1 DEF IInv, ChildTypes
    <2> QED
      BY <1>4, <2>1, <2>2 DEF IInv, Callers
  <1>13. Cancels'
    <2>1. \A r : WorkflowOutstanding(r) \subseteq WorkflowOutstanding(r)'
      BY <1>2, <1>3 DEF WorkflowOutstanding
    <2> QED
      BY <1>1, <2>1 DEF IInv, Cancels
  <1>14. Teardowns'
    <2>1. \A s : Live \cap Of(s) \subseteq Live' \cap Of(s)'
      BY <1>2, <1>4 DEF Of
    <2> QED
      BY <1>1, <2>1 DEF IInv, Teardowns, SessionHasChildren
  <1>15. Unblocked'
    <2>1. CASE Admitted(i)
      BY <1>1, <1>2, <1>3, <2>1 DEF IInv, Unblocked
    <2>2. CASE ~Admitted(i)
      <3>1. q.session \notin spawn_blocked
        BY <1>1, <1>9, <2>2 DEF Refused, q
      <3> QED
        BY <1>1, <1>2, <1>3, <2>2, <3>1 DEF IInv, Unblocked
    <2> QED
      BY <2>1, <2>2
  <1>16. Drains' /\ drain_waiters' \subseteq drain_waiters /\ turn' = "loop"
    BY <1>1, SettleDrains
  <1>17. ChildTypes'
    <2>1. CASE Admitted(i)
      BY <1>0, <1>1, <2>1 DEF IInv, ChildTypes
    <2>2. CASE ~Admitted(i)
      <3>1. Queued \subseteq Ids
        BY DEF Queued
      <3> QED
        BY <1>0, <1>1, <2>2, <3>1 DEF IInv, ChildTypes
    <2> QED
      BY <2>1, <2>2
  <1>18. OtherTypes'
    <2>1. request' \in [Ids -> [session : Parents, owner : Owners, surface_completion : BOOLEAN]]
      BY <1>0, <1>1 DEF IInv, OtherTypes
    <2> QED
      BY <1>1, <1>16, <2>1 DEF IInv, OtherTypes
  <1> QED
    BY <1>10, <1>11, <1>12, <1>13, <1>14, <1>15, <1>16, <1>17, <1>18 DEF IInv

----------------------------------------------------------------------------
\* The invariant

\* Nothing lives: nothing counts and nobody is queued.
LEMMA EmptyCounts ==
    ASSUME setup \in Setups, Queued = {}, Running = {} PROVE Limit /\ Full
  <1>1. Slots \in Nat \ {0}
    BY SetupFacts
  <1>2. \A s : Counted(s) = {}
    BY DEF Counted
  <1>3. Limit
    BY <1>1, <1>2, FS_EmptySet DEF Limit
  <1> QED
    BY <1>3 DEF Full

\* Dropping the actor's future drops every record and every responder.
LEMMA DropIInv ==
    ASSUME IInv, Drop PROVE IInv'
  <1>1. Queued' = {} /\ Running' = {} /\ setup' = setup
    <2>1. \A j \in Ids : place'[j] \notin {"queued", "pending", "active"}
      BY DEF Drop, Live, Queued, Running
    <2> QED
      BY <2>1 DEF Drop, Queued, Running
  <1>2. ChildTypes'
    <2>1. token' \in [Ids -> BOOLEAN]
      BY CancellingType DEF Drop
    <2>2. /\ place' \in [Ids -> {"unborn", "queued", "pending", "active", "completed", "refused",
                                 "dropped"}]
          /\ run' \in [Ids -> {"none", "running", "buffered"}]
          /\ \A j \in Ids : run'[j] = "none" /\ place'[j] \notin {"pending", "active"}
          /\ caller' \in [Ids -> {"none", "awaiting", "gone"}]
          /\ waiter' \in [Ids -> {"none", "waiting", "abandoned"}]
      BY DEF Drop, IInv, ChildTypes, Live, Running
    <2> QED
      BY <2>1, <2>2 DEF Drop, IInv, ChildTypes
  <1>3. OtherTypes'
    BY DEF Drop, IInv, OtherTypes
  <1>4. Limit' /\ Full'
    <2>1. (setup \in Setups)'
      BY <1>2 DEF ChildTypes
    <2>2. Slots' \in Nat \ {0}
      BY <1>1, SetupFacts DEF IInv, ChildTypes, Slots, MaxConcurrent
    <2>3. \A s : Counted(s)' = {}
      BY <1>1 DEF Counted
    <2> QED
      BY <1>1, <2>2, <2>3, FS_EmptySet DEF Limit, Full
  <1>5. Queries' /\ Callers' /\ Cancels' /\ Teardowns' /\ Drains'
    BY DEF Drop, Queries, Callers, Cancels, Teardowns, Drains
  <1>6. Unblocked'
    BY <1>1 DEF Unblocked
  <1> QED
    BY <1>2, <1>3, <1>4, <1>5, <1>6 DEF IInv

\* The actor starts with empty maps.
LEMMA InitIInv == Init => IInv
  <1> SUFFICES ASSUME Init PROVE IInv
    OBVIOUS
  <1>0. setup \in Setups
    BY DEF Init
  <1>1. \A i \in Ids : /\ Asked[i].parent \in Parents /\ Asked[i].owner \in Owners
                       /\ Asked[i].run_in_background \in BOOLEAN
                       /\ Asked[i].surface_completion \in BOOLEAN
    BY <1>0, SetupFacts
  <1>2. ChildTypes
    <2>1. handle_only \in [Ids -> BOOLEAN]
      BY <1>1 DEF Init
    <2>2. disposition \in [Ids -> Dispositions]
      BY DEF Init, NoDisposition, Dispositions
    <2>3. token \in [Ids -> BOOLEAN]
      BY DEF Init
    <2> QED
      BY <2>1, <2>2, <2>3 DEF Init, ChildTypes
  <1>3. OtherTypes
    <2>1. request \in [Ids -> [session : Parents, owner : Owners, surface_completion : BOOLEAN]]
      BY <1>1 DEF Init
    <2>2. killed \in [Ids -> BOOLEAN]
      BY DEF Init
    <2> QED
      BY <2>1, <2>2 DEF Init, OtherTypes
  <1>4. Queued = {} /\ Running = {}
    BY DEF Init, Queued, Running
  <1>5. Limit /\ Full
    BY <1>0, <1>4, EmptyCounts
  <1>6. Queries /\ Callers /\ Cancels /\ Teardowns /\ Drains
    BY DEF Init, Queries, Callers, Cancels, Teardowns, Drains
  <1>7. Unblocked
    BY <1>4 DEF Unblocked
  <1> QED
    BY <1>2, <1>3, <1>5, <1>6, <1>7 DEF IInv

\* Every handler and every event preserves the invariant.
LEMMA NextIInv == IInv /\ [Next]_vars => IInv'
  <1> SUFFICES ASSUME IInv, [Next]_vars PROVE IInv'
    OBVIOUS
  <1>o. commands_open \in BOOLEAN /\ turn \in {turn, "stopped"}
    BY DEF IInv, OtherTypes
  <1>1. ASSUME NEW i \in Ids, CallerLeaves(i) \/ TokenCancelled(i) \/ WaiterLeaves(i) PROVE IInv'
    BY <1>1, CallerLeavesIInv, TokenCancelledIInv, WaiterLeavesIInv
  <1>2. ASSUME NEW i \in Ids, Child(i) PROVE IInv'
    BY <1>2, StartedIInv, RunEndsIInv, BufferOutputIInv DEF Child
  <1>3. CASE Reap \/ CommandWake \/ TimerWake
    BY <1>3, ReapForIInv DEF Reap, CommandWake, TimerWake
  <1>4. CASE CommandsClose
    BY <1>4, IdleIInv DEF CommandsClose
  <1>5. CASE Commands
    <2>1. ASSUME NEW i \in Ids, RefuseSpawn(i) \/ AdmitSpawn(i) \/ RejectSpawn(i) PROVE IInv'
      BY <2>1, RefuseSpawnIInv, AdmitSpawnIInv, RejectSpawnIInv
    <2>2. ASSUME NEW i \in Ids, CancelOne(i) \/ Query(i) PROVE IInv'
      BY <2>2, CancelOneIInv, QueryIInv
    <2>3. ASSUME NEW d \in Scopes, CancelPrompt(d) \/ WaitPromptDrained(d) PROVE IInv'
      BY <2>3, CancelPromptIInv, WaitPromptDrainedIInv
    <2>4. ASSUME NEW s \in Sessions, CancelSession(s) \/ OpenSpawnAdmission(s) \/ Completions(s)
          PROVE  IInv'
      BY <2>4, CancelSessionIInv, OpenSpawnAdmissionIInv, CompletionsIInv
    <2>5. ASSUME NEW s \in Sessions, NEW responder \in BOOLEAN, TeardownSession(s, responder)
          PROVE  IInv'
      BY <2>5, TeardownSessionIInv
    <2>6. ASSUME NEW r \in WorkflowRuns, CancelWorkflow(r) PROVE IInv'
      BY <2>6, CancelWorkflowIInv
    <2> QED
      BY <1>5, <2>1, <2>2, <2>3, <2>4, <2>5, <2>6 DEF Commands
  <1>6. CASE Timers
    <2>1. PICK F \in SUBSET Budgeted, W \in SUBSET {i \in Ids : waiter[i] # "none"},
               D \in SUBSET teardown_drains : ProcessDeadlines(F, W, D)
      BY <1>6 DEF Timers
    <2>2. F \in SUBSET Ids /\ W \in SUBSET Ids
      BY DEF Budgeted, Live, Queued, Running
    <2> QED
      BY <2>1, <2>2, ProcessDeadlinesIInv
  <1>7. CASE Exit
    BY <1>7, <1>o, IdleIInv DEF Exit
  <1>8. CASE Drop
    BY <1>8, DropIInv
  <1>9. CASE Terminated \/ UNCHANGED vars
    BY <1>9, <1>o, IdleIInv DEF Terminated, vars, childVars, waitVars
  <1> QED
    BY <1>1, <1>2, <1>3, <1>4, <1>5, <1>6, <1>7, <1>8, <1>9 DEF Next

\* The invariant holds in every reachable state, whatever the children, their
\* requests and the limits.
THEOREM Invariance == Spec => []IInv
  BY InitIInv, NextIInv, PTL DEF Spec

\* Every variable keeps its type, and a child has a run exactly while its record is
\* in the pending or the active map (pending and active of the coordinator).
THEOREM TypeCorrect == Spec => []TypeOK
  <1>1. IInv => TypeOK
    BY Parts DEF IInv
  <1> QED
    BY <1>1, Invariance, PTL

\* The concurrency limit is kept and used: no session runs more task children than
\* it has slots, and a spawn stays queued only while its session is full
\* (start_queued_within_capacity).
THEOREM LimitCorrect == Spec => []LimitIsUsed
  <1>1. IInv => LimitIsUsed
    BY Parts DEF IInv
  <1> QED
    BY <1>1, Invariance, PTL

\* Whoever waits has something to wait for: queries, prompt drains, workflow cancels
\* and held teardowns (resolve_drain_waiters, resolve_workflow_cancel_waiters,
\* resolve_teardown_drain_waiters).
THEOREM WaitsCorrect == Spec => []NobodyWaitsForNothing
  <1>1. IInv => NobodyWaitsForNothing
    BY Parts DEF IInv
  <1> QED
    BY <1>1, Invariance, PTL

----------------------------------------------------------------------------
\* What a step may never do

\* The handlers that finish children all go through finish_child and its sweep, and
\* none of them asks for a completion that was not asked for before.
Finishes ==
    \E R \in SUBSET Live : \E S \in Sweep(R) : \E bad, gone, T :
        /\ SameRequests /\ Finish(R, bad, S, gone, T)
        /\ \A i \in Ids : request'[i].surface_completion => request[i].surface_completion

\* Nothing starts and nothing completes.
Stays == \A j \in Ids : place'[j] \in {"pending", "completed"} => place[j] = place'[j]

\* A handler that leaves the requests alone.
LEMMA FinishesIntro ==
    ASSUME NEW R \in SUBSET Live, NEW S \in Sweep(R), NEW bad, NEW gone, NEW T,
           Finish(R, bad, S, gone, T), setup' = setup, request' = request
    PROVE  Finishes
  <1>1. SameRequests
    BY DEF SameRequests
  <1> QED
    BY <1>1 DEF Finishes

\* The cancels go through finish_child.
LEMMA CancelFinishes ==
    ASSUME NEW T, NEW Q \in SUBSET Queued, CancelChildren(T, Q), setup' = setup, request' = request
    PROVE  Finishes
  <1>1. PICK S \in Sweep(WithCancelled(Q)) : Finish(WithCancelled(Q), WithCancelled(Q), S, {}, T)
    BY DEF CancelChildren
  <1>2. WithCancelled(Q) \in SUBSET Live
    BY WithCancelledLive
  <1> QED
    BY <1>1, <1>2, FinishesIntro

\* So does a reap.
LEMMA ReapFinishes ==
    ASSUME NEW next, ReapFor(next) PROVE Finishes
  <1> DEFINE R == CancelledQueued
  <1>1. PICK S \in Sweep(R) : Finish(R, R, S, Abandoned, {i \in Abandoned : ~Task(i)})
    BY DEF ReapFor
  <1>2. R \in SUBSET Live /\ setup' = setup /\ request' = request
    BY DEF ReapFor, CancelledQueued, Live
  <1> HIDE DEF R
  <1> QED
    BY <1>1, <1>2, FinishesIntro

\* So does the end of a run.
LEMMA RunEndFinishes ==
    ASSUME IInv, NEW i \in Ids, RunEnds(i) PROVE Finishes
  <1> DEFINE R == {i} \cup CancelledQueued
  <1>1. PICK S \in Sweep(R), c \in BOOLEAN : Finish(R, IF c THEN R ELSE R \ {i}, S, {}, {})
    BY DEF RunEnds
  <1>2. setup' = setup /\ request' = request /\ run[i] # "none"
    BY DEF RunEnds
  <1>3. R \in SUBSET Live
    BY <1>2 DEF CancelledQueued, Live, Running, IInv, ChildTypes
  <1> HIDE DEF R
  <1> QED
    BY <1>1, <1>2, <1>3, FinishesIntro

\* So does a teardown, which only takes back what surfaces.
LEMMA TeardownFinishes ==
    ASSUME IInv, NEW s \in Sessions, NEW responder \in BOOLEAN, TeardownSession(s, responder)
    PROVE  Finishes
  <1> DEFINE Q == Queued \cap Of(s)
             R == WithCancelled(Q)
  <1>1. PICK S \in Sweep(R) : Finish(R, R, S, {}, Live \cap Of(s))
    BY DEF TeardownSession
  <1>2. R \in SUBSET Live
    <2>1. Q \in SUBSET Queued
      OBVIOUS
    <2> HIDE DEF Q
    <2> QED
      BY <2>1, WithCancelledLive
  <1>3. /\ setup' = setup
        /\ request' = [i \in Ids |-> IF i \in Silenced(s)
                                     THEN [request[i] EXCEPT !.surface_completion = FALSE]
                                     ELSE request[i]]
    BY DEF TeardownSession
  <1>4. \A i \in Ids : request[i] \in [session : Parents, owner : Owners, surface_completion : BOOLEAN]
    BY DEF IInv, OtherTypes
  <1>5. \A i \in Ids : /\ request'[i].session = request[i].session
                       /\ request'[i].owner = request[i].owner
                       /\ request'[i].surface_completion => request[i].surface_completion
    BY <1>3, <1>4
  <1>6. SameRequests
    BY <1>3, <1>5 DEF SameRequests
  <1> HIDE DEF R
  <1> QED
    BY <1>1, <1>2, <1>5, <1>6 DEF Finishes

\* Every step finishes children, admits or rejects a spawn, or leaves them be.
LEMMA Kinds ==
    ASSUME IInv, [Next]_vars
    PROVE  Finishes \/ (\E i \in Ids : AdmitSpawn(i) \/ RejectSpawn(i)) \/ Stays
  <1>0. place \in [Ids -> {"unborn", "queued", "pending", "active", "completed", "refused", "dropped"}]
    BY DEF IInv, ChildTypes
  <1>1. ASSUME NEW i \in Ids, CallerLeaves(i) \/ TokenCancelled(i) \/ WaiterLeaves(i) PROVE Stays
    BY <1>1 DEF CallerLeaves, TokenCancelled, WaiterLeaves, Stays
  <1>2. ASSUME NEW i \in Ids, Child(i) PROVE Finishes \/ Stays
    <2>1. CASE RunEnds(i)
      BY <2>1, RunEndFinishes
    <2>2. CASE Started(i) \/ BufferOutput(i)
      BY <1>0, <2>2 DEF Started, BufferOutput, Stays
    <2> QED
      BY <1>2, <2>1, <2>2 DEF Child
  <1>3. CASE Reap \/ CommandWake \/ TimerWake
    BY <1>3, ReapFinishes DEF Reap, CommandWake, TimerWake
  <1>4. CASE CommandsClose \/ Exit \/ Terminated \/ UNCHANGED vars
    BY <1>4 DEF CommandsClose, Exit, Terminated, childVars, vars, Stays
  <1>5. CASE Commands
    <2>1. ASSUME NEW i \in Ids, RefuseSpawn(i) \/ Query(i) PROVE Stays
      BY <1>0, <2>1 DEF RefuseSpawn, Query, Stays
    <2>2. ASSUME NEW i \in Ids, CancelOne(i) PROVE Finishes
      <3>1. {i} \cap Queued \in SUBSET Queued
        OBVIOUS
      <3> QED
        BY <2>2, <3>1, CancelFinishes DEF CancelOne
    <2>3. ASSUME NEW d \in Scopes, CancelPrompt(d) PROVE Finishes
      <3> DEFINE hit == {i \in Of(d.session) : Asked[i].prompt = d.prompt}
      <3>1. CancelChildren(hit \cap Running, hit \cap Queued) /\ setup' = setup /\ request' = request
        BY <2>3 DEF CancelPrompt
      <3>2. hit \cap Queued \in SUBSET Queued
        OBVIOUS
      <3> HIDE DEF hit
      <3> QED
        BY <3>1, <3>2, CancelFinishes
    <2>4. ASSUME NEW d \in Scopes, WaitPromptDrained(d) PROVE Stays
      BY <2>4 DEF WaitPromptDrained, childVars, Stays
    <2>5. ASSUME NEW s \in Sessions, CancelSession(s) PROVE Finishes
      <3>1. Stopped(s) \cap Queued \in SUBSET Queued
        OBVIOUS
      <3> QED
        BY <2>5, <3>1, CancelFinishes DEF CancelSession
    <2>6. ASSUME NEW s \in Sessions, OpenSpawnAdmission(s) \/ Completions(s) PROVE Stays
      BY <2>6 DEF OpenSpawnAdmission, Completions, childVars, Stays
    <2>7. ASSUME NEW r \in WorkflowRuns, CancelWorkflow(r) PROVE Stays
      BY <2>7 DEF CancelWorkflow, Stays
    <2> QED
      BY <1>5, <2>1, <2>2, <2>3, <2>4, <2>5, <2>6, <2>7, TeardownFinishes DEF Commands
  <1>6. CASE Timers
    BY <1>6 DEF Timers, ProcessDeadlines, Stays
  <1>7. CASE Drop
    BY <1>0, <1>7 DEF Drop, Stays
  <1> QED
    BY <1>1, <1>2, <1>3, <1>4, <1>5, <1>6, <1>7 DEF Next

\* The task child j starts while i stays queued in its session.
Passes(j, i) ==
    /\ place[j] \in {"unborn", "queued"} /\ place'[j] = "pending"
    /\ place[i] = "queued" /\ place'[i] = "queued"
    /\ request'[j].owner = "task" /\ request'[j].session = request[i].session

\* The sweep takes the oldest of a session, and a spawn is admitted past the queue
\* only where the session is not full, so that its queue is empty.
LEMMA InOrder ==
    ASSUME IInv, [Next]_vars, NEW i \in Ids, NEW j \in Ids, Passes(j, i)
    PROVE  place[j] = "queued" /\ j \in ahead[i]
  <1>0. /\ place[j] \in {"unborn", "queued"} /\ place'[j] = "pending"
        /\ place[i] = "queued" /\ place'[i] = "queued"
        /\ request'[j].owner = "task" /\ request'[j].session = request[i].session
    BY DEF Passes
  <1>1. request[i].session \in Parents /\ i \in Queued
    BY <1>0 DEF IInv, OtherTypes, Queued
  <1>2. CASE Finishes
    <2>1. PICK R \in SUBSET Live : \E S \in Sweep(R) : \E bad, gone, T :
                SameRequests /\ Finish(R, bad, S, gone, T)
      BY <1>2 DEF Finishes
    <2>2. PICK S \in Sweep(R) : \E bad, gone, T : SameRequests /\ Finish(R, bad, S, gone, T)
      BY <2>1
    <2>3. /\ SameRequests
          /\ place' = [k \in Ids |-> IF k \in R THEN "completed"
                                     ELSE IF k \in S THEN "pending" ELSE place[k]]
      BY <2>2 DEF Finish
    <2>4. j \in S /\ i \notin R /\ i \notin S
      BY <1>0, <2>3
    <2>5. S \in SUBSET (Queued \ R) /\ Takes(R, S, request[i].session)
      BY <1>1, <2>4, SweepFacts
    <2>6. j \in Queued /\ j \in Of(request[i].session) /\ i \in (Queued \ R) \cap Of(request[i].session)
      BY <1>0, <1>1, <2>3, <2>4, <2>5 DEF SameRequests, Of
    <2>7. j \in ahead[i]
      BY <2>4, <2>5, <2>6 DEF Takes
    <2> QED
      BY <2>6, <2>7 DEF Queued
  <1>3. ASSUME NEW k \in Ids, AdmitSpawn(k) PROVE FALSE
    <2>1. /\ place[k] = "unborn" /\ request' = [request EXCEPT ![k] = Reparented(k)]
          /\ \/ Admitted(k) /\ place' = [place EXCEPT ![k] = "pending"]
             \/ place' = [place EXCEPT ![k] = "queued"]
      BY <1>3 DEF AdmitSpawn, CanSpawn
    <2>2. j = k /\ Admitted(k)
      BY <1>0, <2>1 DEF IInv, ChildTypes
    <2>3. request'[j] = Reparented(k)
      BY <2>1, <2>2 DEF IInv, OtherTypes
    <2>4. HasCapacity(request[i].session)
      BY <1>0, <2>2, <2>3 DEF Admitted
    <2>5. Cardinality(Counted(request[i].session)) = Slots /\ Slots \in Nat
      BY <1>1, SetupFacts DEF IInv, Full, ChildTypes
    <2> QED
      BY <2>4, <2>5 DEF HasCapacity
  <1>4. ASSUME NEW k \in Ids, RejectSpawn(k) PROVE FALSE
    BY <1>0, <1>4 DEF RejectSpawn, CanSpawn, IInv, ChildTypes
  <1>5. CASE Stays
    BY <1>0, <1>5 DEF Stays
  <1> QED
    BY <1>2, <1>3, <1>4, <1>5, Kinds

\* A spawn never overtakes an older one of its session
\* (start_queued_within_capacity, handle_spawn).
THEOREM OrderCorrect == Spec => NoOvertaking
  <1>1. IInv /\ [Next]_vars =>
          [\A i, j \in Ids :
             /\ place[j] \in {"unborn", "queued"} /\ place'[j] = "pending"
             /\ place[i] = "queued" /\ place'[i] = "queued"
             /\ request'[j].owner = "task" /\ request'[j].session = request[i].session
             => place[j] = "queued" /\ j \in ahead[i]]_vars
    BY InOrder DEF Passes
  <1> QED
    BY <1>1, Invariance, PTL DEF Spec, NoOvertaking

\* The disposition of a completed child: the surfaced flag only if nobody was told, and
\* one of them where the completion is wanted.
LEMMA Reported ==
    ASSUME IInv, [Next]_vars, NEW i \in Ids, place[i] # "completed", place'[i] = "completed"
    PROVE  /\ ~(disposition'[i].told /\ disposition'[i].surfaced)
           /\ request'[i].surface_completion /\ ~disposition'[i].cancelled /\ ~killed[i] =>
                 disposition'[i].told \/ disposition'[i].surfaced
  <1>1. CASE Finishes
    <2>1. PICK R \in SUBSET Live : \E S \in Sweep(R) : \E bad, gone, T :
                /\ Finish(R, bad, S, gone, T)
                /\ request'[i].surface_completion => request[i].surface_completion
      BY <1>1 DEF Finishes
    <2>2. PICK S \in Sweep(R) : \E bad, gone, T :
                /\ Finish(R, bad, S, gone, T)
                /\ request'[i].surface_completion => request[i].surface_completion
      BY <2>1
    <2>3. PICK bad, gone, T :
                /\ Finish(R, bad, S, gone, T)
                /\ request'[i].surface_completion => request[i].surface_completion
      BY <2>2
    <2>4. i \in R
      BY <2>3 DEF Finish
    <2>5. disposition'[i] = Deliver(i, i \in bad)
      BY <2>3, <2>4 DEF Finish
    <2> DEFINE foreground == caller[i] = "awaiting" /\ ~handle_only[i]
               waited     == waiter[i] = "waiting"
    <2>6. /\ disposition'[i].told <=> foreground \/ waited
          /\ disposition'[i].cancelled <=> i \in bad
          /\ disposition'[i].surfaced <=> /\ request[i].surface_completion /\ ~foreground
                                          /\ i \notin bad /\ ~waited /\ ~killed[i]
      <3> DEFINE surfaced == /\ request[i].surface_completion /\ ~foreground
                             /\ i \notin bad /\ ~waited /\ ~killed[i]
      <3>1. Deliver(i, i \in bad) = [started |-> place[i] = "active", cancelled |-> i \in bad,
                                     told |-> foreground \/ waited, surfaced |-> surfaced]
        BY DEF Deliver
      <3> HIDE DEF foreground, waited, surfaced
      <3>2. /\ disposition'[i].told = (foreground \/ waited) /\ disposition'[i].cancelled = (i \in bad)
            /\ disposition'[i].surfaced = surfaced
        BY <2>5, <3>1
      <3> QED
        BY <3>2 DEF surfaced
    <2> HIDE DEF foreground, waited
    <2> QED
      BY <2>3, <2>6
  <1>2. ASSUME NEW k \in Ids, AdmitSpawn(k) PROVE FALSE
    BY <1>2 DEF AdmitSpawn, CanSpawn, IInv, ChildTypes
  <1>3. ASSUME NEW k \in Ids, RejectSpawn(k)
        PROVE  /\ ~(disposition'[i].told /\ disposition'[i].surfaced)
               /\ request'[i].surface_completion =>
                     disposition'[i].told \/ disposition'[i].surfaced
    <2>1. i = k
      BY <1>3 DEF RejectSpawn, IInv, ChildTypes
    <2>2. disposition'[i] = RejectedDisposition(i) /\ request'[i] = Reparented(i)
      BY <1>3, <2>1 DEF RejectSpawn, IInv, ChildTypes, OtherTypes
    <2>3. handle_only[i] \in BOOLEAN
      BY DEF IInv, ChildTypes
    <2>4. /\ disposition'[i].told = ~handle_only[i]
          /\ disposition'[i].surfaced = (Reparented(i).surface_completion /\ handle_only[i])
      BY <2>2 DEF RejectedDisposition, NoDisposition
    <2> QED
      BY <2>2, <2>3, <2>4
  <1>4. CASE Stays
    BY <1>4 DEF Stays
  <1> QED
    BY <1>1, <1>2, <1>3, <1>4, Kinds

\* A teardown silences every live child of the session and empties its part of the
\* reminder buffer.
LEMMA TeardownSilences ==
    ASSUME IInv, NEW s \in Sessions, NEW responder \in BOOLEAN, TeardownSession(s, responder),
           NEW i \in Of(s) \cap Live
    PROVE  ~request'[i].surface_completion /\ i \notin pending_completions'
  <1>1. i \in Ids /\ i \in Silenced(s)
    BY DEF Of, Silenced
  <1>2. request'[i] = [request[i] EXCEPT !.surface_completion = FALSE]
    BY <1>1 DEF TeardownSession
  <1>3. ~request'[i].surface_completion
    BY <1>1, <1>2 DEF IInv, OtherTypes
  <1>4. i \notin pending_completions'
    BY <1>3 DEF TeardownSession
  <1> QED
    BY <1>3, <1>4

\* Whoever should learn of a completion does; and a torn-down session hears
\* nothing of the children it had (finish_child's CompletionDisposition,
\* teardown_session_children).
THEOREM ReportsCorrect == Spec => CompletionsReported
  <1>1. IInv /\ [Next]_vars =>
          [\A i \in Ids : place[i] # "completed" /\ place'[i] = "completed" =>
              LET d == disposition'[i] IN
              /\ ~(d.told /\ d.surfaced)
              /\ request'[i].surface_completion /\ ~d.cancelled /\ ~killed[i] =>
                    d.told \/ d.surfaced]_vars
    BY Reported
  <1>2. IInv /\ [Next]_vars =>
          [\A s \in Sessions : (\E r \in BOOLEAN : TeardownSession(s, r)) =>
              \A i \in Of(s) \cap Live :
                  ~request'[i].surface_completion /\ i \notin pending_completions']_vars
    BY TeardownSilences
  <1> QED
    BY <1>1, <1>2, Invariance, PTL DEF Spec, CompletionsReported

\* Without a run nothing lives: an empty session has a free slot, so nothing can be
\* queued behind it.
LEMMA NothingLeft ==
    ASSUME IInv, \A i \in Ids : run[i] = "none" PROVE Live = {}
  <1>1. Running = {}
    BY DEF IInv, ChildTypes, Running
  <1>2. \A s : Cardinality(Counted(s)) = 0
    BY <1>1, FS_EmptySet DEF Counted
  <1>3. Slots # 0
    BY SetupFacts DEF IInv, ChildTypes
  <1>4. Queued = {}
    BY <1>2, <1>3 DEF IInv, Full
  <1> QED
    BY <1>1, <1>4 DEF Live

\* The loop's own exit (the break at the end of run) loses nobody: everything was
\* answered before.
THEOREM ExitCorrect == Spec => ExitIsClean
  <1>1. ASSUME IInv, Exit
        PROVE  /\ Live = {}
               /\ drain_waiters = {} /\ workflow_cancel_waiters = {} /\ teardown_drains = {}
               /\ \A i \in Ids : waiter[i] = "none" /\ caller[i] = "none"
    <2>1. Live = {} /\ turn = "loop"
      BY <1>1, NothingLeft DEF Exit
    <2>2. drain_waiters = {}
      BY <1>1, <2>1 DEF IInv, Drains, TurnBlocking
    <2>3. workflow_cancel_waiters = {}
      BY <1>1, <2>1 DEF IInv, Cancels, WorkflowOutstanding, Live
    <2>4. teardown_drains = {}
      BY <1>1, <2>1 DEF IInv, Teardowns, SessionHasChildren
    <2>5. \A i \in Ids : waiter[i] = "none" /\ caller[i] = "none"
      BY <1>1, <2>1 DEF IInv, Queries, Callers
    <2> QED
      BY <2>1, <2>2, <2>3, <2>4, <2>5
  <1>2. IInv /\ [Next]_vars =>
          [Exit => /\ Live = {}
                   /\ drain_waiters = {} /\ workflow_cancel_waiters = {} /\ teardown_drains = {}
                   /\ \A i \in Ids : waiter[i] = "none" /\ caller[i] = "none"]_vars
    BY <1>1
  <1> QED
    BY <1>2, Invariance, PTL DEF Spec, ExitIsClean

==============================================================================
