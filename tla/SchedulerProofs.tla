--------------------------- MODULE SchedulerProofs ---------------------------
(***************************************************************************)
(* Proofs about Scheduler for any set of tasks and any bounds.             *)
(*                                                                         *)
(* A removal is published when the file no longer lists its task.  That it *)
(* stays so depends on what else can still reach the file: the snapshot    *)
(* that waits for the debounce and the ones on their way to the writer.    *)
(* The invariant follows the task that is being removed from the list, to  *)
(* the durable snapshot, past the writer, to the tombstone.                *)
(***************************************************************************)
EXTENDS Scheduler, TLAPS

\* Commands of the writer
Entries == [snapshot : Snapshots, durable : BOOLEAN, heard : BOOLEAN]

Distinct(s) == \A i, j \in DOMAIN s : s[i] = s[j] => i = j

\* What a snapshot of the list can be
Sound(s) == s \in Seq(Tasks) /\ Len(s) <= MaxTasks /\ Distinct(s) /\ Listed(s) \subseteq created

SnapInv ==
    /\ Sound(tasks) /\ Sound(disk)
    /\ unsaved # None => Sound(unsaved)
    /\ \A i \in DOMAIN queue : Sound(queue[i].snapshot)

Deleting == {"complete", "delete_persist", "delete_publish"}
Expiring == {"expiry_persist", "expiry_publish", "plain_expiry"}

\* The task a suspended handler removes is off the list, and an expiry still knows
\* where it was.
LeaveInv ==
    /\ at \in Deleting => pending # None
    /\ pending # None => /\ at \in Deleting \cup {"loop", "stopped"}
                         /\ pending \in created \ Listed(tasks)
    /\ at \in Expiring => busy.task \in (created \cap Recurring) \ Listed(tasks)
    /\ at = "expiry_persist" => /\ busy.task \in Durable \ tombstones
                                /\ busy.index \in 1..(Len(tasks) + 1) /\ Len(tasks) < MaxTasks
    /\ at = "firing" => busy.task \in Tasks

\* A task that nothing can bring back
Gone(t) ==
    /\ t \in created /\ t \notin Listed(tasks) /\ t \notin Listed(disk)
    /\ unsaved # None => t \notin Listed(unsaved)
    /\ \A i \in DOMAIN queue : t \notin Listed(queue[i].snapshot)

\* The acknowledgement the actor waits for belongs to one durable snapshot, and
\* neither it nor a later one lists the task that is being removed.
WriterInv ==
    \A i \in DOMAIN queue : queue[i].heard =>
        /\ at \in {"delete_persist", "expiry_persist", "plain_expiry"} /\ ack = "waiting"
        /\ queue[i].durable
        /\ \A j \in DOMAIN queue :
              /\ queue[j].heard => j = i
              /\ j >= i /\ at = "delete_persist" => pending \notin Listed(queue[j].snapshot)
              /\ j >= i /\ at = "expiry_persist" => busy.task \notin Listed(queue[j].snapshot)

\* Published removals are gone, and so is what is about to be published.
GoneInv ==
    /\ \A t \in tombstones : Gone(t)
    /\ at = "delete_publish" \/ (at = "delete_persist" /\ ack = "ok") => Gone(pending)
    /\ at = "expiry_publish" \/ (at = "expiry_persist" /\ ack = "ok") => Gone(busy.task)

\* v follows w: it was never stamped while w was the last version.
Follows(v, w) ==
    \/ v.generation > w.generation
    \/ v.generation = w.generation /\ v.revision > w.revision

\* A reservation is kept exactly by a pending removal and a suspended handler.
Holding == pending # None \/ at \in Expiring \cup {"firing"}
ClockInv ==
    /\ clock.generation <= generations
    /\ reserved # None => reserved.source = clock
    /\ at # "stopped" =>
        IF Holding
        THEN /\ reserved \in [source : Versions, version : Versions]
             /\ reserved.source = clock /\ Follows(reserved.version, clock)
             /\ reserved.version.generation <= generations
        ELSE reserved = None

IInv == TypeOK /\ SnapInv /\ LeaveInv /\ WriterInv /\ GoneInv /\ ClockInv

----------------------------------------------------------------------------
\* What Remove leaves: a sound list without the task
AfterRemove(i) ==
    /\ Sound(tasks)' /\ Len(tasks') = Len(tasks) - 1
    /\ Listed(tasks') \subseteq Listed(tasks)
    /\ tasks[i] \in Tasks /\ tasks[i] \in Listed(tasks) \ Listed(tasks')
    /\ Len(tasks) \in Nat \ {0} /\ i \in 1..Len(tasks) /\ Len(tasks) <= MaxTasks
    /\ created' = created /\ expired' = expired /\ blocked' = blocked

\* What prepare_transition leaves: a version that follows the clock's
AfterReserve ==
    /\ reserved' \in [source : Versions, version : Versions]
    /\ reserved'.source = clock /\ clock' = clock /\ Follows(reserved'.version, clock)
    /\ generations' \in 1..MaxGenerations /\ generations <= generations'
    /\ reserved'.version.generation <= generations'

\* What a prepared and committed transition leaves
AfterAdvance ==
    /\ clock' \in Versions /\ reserved' = None /\ Follows(clock', clock)
    /\ generations' \in 1..MaxGenerations /\ clock'.generation <= generations'

\* What enqueue_save_and_flush leaves: one more durable snapshot, the last
AfterEnqueue ==
    /\ queue' \in Seq(Entries) /\ Len(queue) \in Nat /\ Len(queue') = Len(queue) + 1
    /\ DOMAIN queue = 1..Len(queue) /\ DOMAIN queue' = 1..(Len(queue) + 1)
    /\ \A j \in 1..Len(queue) : queue'[j] = queue[j]
    /\ queue'[Len(queue) + 1] = [snapshot |-> tasks', durable |-> TRUE, heard |-> TRUE]
    /\ ack' = "waiting" /\ unsaved' = unsaved /\ disk' = disk

\* What the end of an await leaves: nothing on its way to the writer is heard
AfterSettle ==
    /\ queue' \in Seq(Entries) /\ DOMAIN queue' = DOMAIN queue
    /\ \A j \in DOMAIN queue : queue'[j].snapshot = queue[j].snapshot /\ ~queue'[j].heard
    /\ ack' = None /\ unsaved' = unsaved /\ disk' = disk

\* What the writer leaves when it takes the head of its queue
AfterTake ==
    /\ Len(queue) \in Nat \ {0} /\ DOMAIN queue = 1..Len(queue)
    /\ Head(queue) = queue[1] /\ queue[1] \in Entries
    /\ queue' \in Seq(Entries) /\ DOMAIN queue' = 1..(Len(queue) - 1)
    /\ \A j \in 1..(Len(queue) - 1) : queue'[j] = queue[j + 1]

\* The list without its i-th task
LEMMA RemovedFacts ==
    ASSUME tasks \in Seq(Tasks), Distinct(tasks), NEW i \in DOMAIN tasks
    PROVE  /\ Removed(i) \in Seq(Tasks) /\ Len(Removed(i)) = Len(tasks) - 1
           /\ Distinct(Removed(i)) /\ Listed(Removed(i)) \subseteq Listed(tasks)
           /\ tasks[i] \notin Listed(Removed(i))
           /\ Len(tasks) \in Nat \ {0} /\ i \in 1..Len(tasks)
  <1> DEFINE s == Removed(i)
  <1>1. Len(tasks) \in Nat \ {0} /\ i \in 1..Len(tasks) /\ DOMAIN tasks = 1..Len(tasks)
    OBVIOUS
  <1>2. /\ s \in Seq(Tasks) /\ Len(s) = Len(tasks) - 1 /\ DOMAIN s = 1..(Len(tasks) - 1)
        /\ \A j \in DOMAIN s : s[j] = IF j < i THEN tasks[j] ELSE tasks[j + 1]
    BY <1>1 DEF Removed
  <1> HIDE DEF s
  <1> DEFINE old(j) == IF j < i THEN j ELSE j + 1
  <1>a. \A j \in DOMAIN s : /\ j \in Nat /\ old(j) \in Nat /\ old(j) \in DOMAIN tasks /\ old(j) # i
                           /\ s[j] = tasks[old(j)]
    BY <1>1, <1>2
  <1>b. \A j, k \in Nat : old(j) = old(k) => j = k
    BY <1>1
  <1> HIDE DEF old
  <1>3. Distinct(s)
    BY <1>a, <1>b DEF Distinct
  <1>4. Listed(s) \subseteq Listed(tasks) /\ tasks[i] \notin Listed(s)
    BY <1>a DEF Distinct, Listed
  <1> QED
    BY <1>1, <1>2, <1>3, <1>4 DEF s

\* The list with a task put back
LEMMA InsertedFacts ==
    ASSUME tasks \in Seq(Tasks), Distinct(tasks), NEW i \in 1..(Len(tasks) + 1),
           NEW t \in Tasks \ Listed(tasks)
    PROVE  /\ Inserted(i, t) \in Seq(Tasks) /\ Len(Inserted(i, t)) = Len(tasks) + 1
           /\ Distinct(Inserted(i, t)) /\ Listed(Inserted(i, t)) \subseteq Listed(tasks) \cup {t}
           /\ Len(tasks) \in Nat
  <1> DEFINE s == Inserted(i, t)
  <1>1. /\ Len(tasks) \in Nat /\ DOMAIN tasks = 1..Len(tasks)
        /\ \A j \in 1..Len(tasks) : tasks[j] # t
    BY DEF Listed
  <1>2. /\ s \in Seq(Tasks) /\ Len(s) = Len(tasks) + 1 /\ DOMAIN s = 1..(Len(tasks) + 1)
        /\ \A j \in DOMAIN s :
              s[j] = IF j < i THEN tasks[j] ELSE IF j = i THEN t ELSE tasks[j - 1]
    BY <1>1 DEF Inserted
  <1> HIDE DEF s
  <1> DEFINE old(j) == IF j < i THEN j ELSE j - 1
  <1>a. \A j \in DOMAIN s : j # i => old(j) \in DOMAIN tasks /\ s[j] = tasks[old(j)] /\ s[j] # t
    BY <1>1, <1>2
  <1>b. \A j, k \in DOMAIN s : j # i /\ k # i /\ old(j) = old(k) => j = k
    BY <1>1, <1>2
  <1>c. i \in DOMAIN s /\ s[i] = t
    BY <1>1, <1>2
  <1> HIDE DEF old
  <1>3. Distinct(s)
    BY <1>a, <1>b, <1>c DEF Distinct
  <1>4. Listed(s) \subseteq Listed(tasks) \cup {t}
    BY <1>1, <1>2 DEF Listed
  <1> QED
    BY <1>1, <1>2, <1>3, <1>4 DEF s

\* Remove: the list stays sound and no longer has the task.
LEMMA RemoveFacts ==
    ASSUME SnapInv, NEW i \in DOMAIN tasks, Remove(i)
    PROVE  AfterRemove(i)
  <1>1. /\ tasks \in Seq(Tasks) /\ Distinct(tasks) /\ Len(tasks) <= MaxTasks
        /\ Listed(tasks) \subseteq created
    BY DEF SnapInv, Sound
  <1>2. tasks[i] \in Tasks /\ tasks[i] \in Listed(tasks)
    BY <1>1 DEF Listed
  <1>3. tasks' = Removed(i) /\ created' = created /\ expired' = expired /\ blocked' = blocked
    BY DEF Remove
  <1>4. /\ tasks' \in Seq(Tasks) /\ Len(tasks') = Len(tasks) - 1
        /\ Distinct(tasks') /\ Listed(tasks') \subseteq Listed(tasks)
        /\ tasks[i] \notin Listed(tasks') /\ Len(tasks) \in Nat \ {0} /\ i \in 1..Len(tasks)
    BY <1>1, <1>3, RemovedFacts
  <1>5. Len(tasks') <= MaxTasks /\ Listed(tasks') \subseteq created'
    BY <1>1, <1>3, <1>4, BoundsAssumption
  <1> QED
    BY <1>1, <1>2, <1>3, <1>4, <1>5 DEF Sound, Distinct, Listed, AfterRemove

\* prepare_transition: the reserved version follows the clock's.
LEMMA ReserveFacts ==
    ASSUME TypeOK, ClockInv, Reserve(1)
    PROVE  AfterReserve
  <1>0. /\ clock \in Versions /\ clock.generation \in 1..MaxGenerations
        /\ clock.revision \in 0..MaxRevision /\ generations \in 1..MaxGenerations
        /\ clock.generation <= generations /\ clock' = clock
        /\ MaxRevision \in Nat \ {0} /\ MaxGenerations \in Nat \ {0}
    BY BoundsAssumption DEF TypeOK, Versions, ClockInv, Reserve
  <1>1. CASE Overflows(1)
    <2> DEFINE v == [generation |-> generations + 1, revision |-> 1]
    <2>1. reserved' = [source |-> clock, version |-> v]
      BY <1>1 DEF Reserve, Reservation
    <2>2. generations' = generations + 1 /\ generations < MaxGenerations
      BY <1>1 DEF Reserve, MayReserve, Started
    <2>3. v \in Versions /\ v.generation = generations + 1
      BY <1>0, <2>2 DEF Versions
    <2> HIDE DEF v
    <2>4. Follows(v, clock)
      BY <1>0, <2>3 DEF Follows
    <2> QED
      BY <1>0, <2>1, <2>2, <2>3, <2>4 DEF AfterReserve
  <1>2. CASE ~Overflows(1)
    <2> DEFINE v == [clock EXCEPT !.revision = @ + 1]
    <2>1. reserved' = [source |-> clock, version |-> v] /\ generations' = generations
      BY <1>2 DEF Reserve, Reservation, Started
    <2>2. clock.revision + 1 <= MaxRevision
      BY <1>0, <1>2 DEF Overflows
    <2>3. v \in Versions /\ v.generation = clock.generation /\ v.revision = clock.revision + 1
      BY <1>0, <2>2 DEF Versions
    <2> HIDE DEF v
    <2>4. Follows(v, clock)
      BY <1>0, <2>3 DEF Follows
    <2> QED
      BY <1>0, <2>1, <2>3, <2>4 DEF AfterReserve
  <1> QED
    BY <1>1, <1>2

\* prepare_transition and commit_next of all of it: the clock moves on.
LEMMA AdvanceFacts ==
    ASSUME TypeOK, ClockInv, NEW n \in 1..MaxRevision, Advance(n)
    PROVE  AfterAdvance
  <1>1. /\ clock.generation \in 1..MaxGenerations /\ clock.revision \in 0..MaxRevision
        /\ generations \in 1..MaxGenerations /\ clock.generation <= generations /\ n \in Nat
        /\ clock = [generation |-> clock.generation, revision |-> clock.revision]
    BY BoundsAssumption DEF TypeOK, Versions, ClockInv
  <1>2. CASE Overflows(n)
    <2>1. /\ generations < MaxGenerations /\ generations' = generations + 1 /\ reserved' = None
          /\ clock' = [generation |-> generations + 1, revision |-> 1 + n - 1]
      BY <1>1, <1>2 DEF Advance, MayReserve, Reservation, Started
    <2>2. clock'.generation = generations + 1 /\ clock'.revision = n
      BY <1>1, <2>1
    <2> QED
      BY <1>1, <2>1, <2>2, BoundsAssumption DEF Versions, Follows, AfterAdvance
  <1>3. CASE ~Overflows(n)
    <2>1. /\ generations' = generations /\ reserved' = None
          /\ clock' = [generation |-> clock.generation, revision |-> clock.revision + 1 + n - 1]
      BY <1>1, <1>3 DEF Advance, Reservation, Started
    <2>2. clock'.generation = clock.generation /\ clock'.revision = clock.revision + n
      BY <1>1, <2>1
    <2>3. clock.revision + n <= MaxRevision
      BY <1>1, <1>3, BoundsAssumption DEF Overflows
    <2> QED
      BY <1>1, <2>1, <2>2, <2>3, BoundsAssumption DEF Versions, Follows, AfterAdvance
  <1> QED
    BY <1>2, <1>3

\* enqueue_save_and_flush adds one durable snapshot at the end.
LEMMA EnqueueFacts ==
    ASSUME TypeOK, tasks' \in Seq(Tasks), Enqueue
    PROVE  AfterEnqueue
  <1> DEFINE e == [snapshot |-> tasks', durable |-> TRUE, heard |-> TRUE]
  <1>1. queue \in Seq(Entries) /\ e \in Entries
    BY DEF TypeOK, Entries, Snapshots
  <1>2. queue' = Append(queue, e) /\ ack' = "waiting" /\ unsaved' = unsaved /\ disk' = disk
    BY DEF Enqueue
  <1> HIDE DEF e
  <1> QED
    BY <1>1, <1>2 DEF e, AfterEnqueue

\* The await is over: whatever is still on its way to the writer is not heard.
LEMMA SettledFacts ==
    ASSUME TypeOK, WriterInv, (ack # "waiting" /\ Heard) \/ Abandon
    PROVE  AfterSettle
  <1>1. queue \in Seq(Entries)
    BY DEF TypeOK, Entries
  <1>2. CASE ack # "waiting" /\ Heard
    BY <1>1, <1>2 DEF WriterInv, Heard, AfterSettle
  <1>3. CASE Abandon
    <2>1. queue' = [j \in DOMAIN queue |-> [queue[j] EXCEPT !.heard = FALSE]]
      BY <1>3 DEF Abandon
    <2>2. ASSUME NEW j \in DOMAIN queue
          PROVE  /\ queue'[j] \in Entries /\ queue'[j].snapshot = queue[j].snapshot
                 /\ ~queue'[j].heard
      <3>1. queue[j] \in Entries /\ queue'[j] = [queue[j] EXCEPT !.heard = FALSE]
        BY <1>1, <2>1
      <3> QED
        BY <3>1 DEF Entries
    <2>3. queue' \in Seq(Entries) /\ DOMAIN queue' = DOMAIN queue
      BY <1>1, <2>1, <2>2
    <2> QED
      BY <1>3, <2>2, <2>3 DEF Abandon, AfterSettle
  <1> QED
    BY <1>2, <1>3

\* The writer takes the head of its queue.
LEMMA TakeFacts ==
    ASSUME TypeOK, queue # <<>>, queue' = Tail(queue)
    PROVE  AfterTake
  <1>1. queue \in Seq(Entries)
    BY DEF TypeOK, Entries
  <1> QED
    BY <1>1 DEF AfterTake


----------------------------------------------------------------------------
\* A created task is new, so no published removal is undone by listing it.
LEMMA CreateIInv ==
    ASSUME IInv, NEW t \in Tasks, Create(t) PROVE IInv'
  <1> USE DEF IInv, Create, Serving, fileVars, hostVars, AfterAdvance
  <1>a. AfterAdvance
    BY BoundsAssumption, AdvanceFacts
  <1>b. /\ tasks' \in Seq(Tasks) /\ Len(tasks') = Len(tasks) + 1 /\ Len(tasks) \in Nat
        /\ DOMAIN tasks' = 1..(Len(tasks) + 1) /\ DOMAIN tasks = 1..Len(tasks)
        /\ \A j \in 1..Len(tasks) : tasks'[j] = tasks[j]
        /\ tasks'[Len(tasks) + 1] = t
    BY DEF TypeOK
  <1>1. SnapInv'
    BY <1>a, <1>b, BoundsAssumption DEF SnapInv, Sound, Distinct, Listed
  <1>2. GoneInv'
    BY <1>a, <1>b DEF GoneInv, Listed, Gone
  <1>3. TypeOK' /\ LeaveInv' /\ WriterInv' /\ ClockInv'
    BY <1>a, <1>b, BoundsAssumption DEF TypeOK, LeaveInv, WriterInv, ClockInv, Holding, Deleting,
       Expiring
  <1> QED
    BY <1>1, <1>2, <1>3

\* An update only moves the clock.
LEMMA UpdateIInv ==
    ASSUME IInv, NEW t \in Tasks, Update(t) PROVE IInv'
  <1> USE DEF IInv, Update, Serving, taskVars, fileVars, hostVars, AfterAdvance
  <1>a. AfterAdvance
    BY BoundsAssumption, AdvanceFacts
  <1>1. TypeOK' /\ SnapInv' /\ LeaveInv' /\ WriterInv' /\ GoneInv' /\ ClockInv'
    BY <1>a DEF TypeOK, SnapInv, LeaveInv, WriterInv, GoneInv, ClockInv, Sound, Gone, Holding,
       Deleting, Expiring
  <1> QED
    BY <1>1

\* A delete takes the task off the list and holds a reservation from here on.
LEMMA DeleteIInv ==
    ASSUME IInv, NEW i \in DOMAIN tasks, Delete(i) PROVE IInv'
  <1> USE DEF IInv, Delete, Serving, fileVars, hostVars, AfterRemove, AfterReserve
  <1>a. AfterRemove(i)
    BY RemoveFacts
  <1>b. AfterReserve
    BY ReserveFacts
  <1>1. TypeOK'
    BY <1>a, <1>b DEF TypeOK, Sound
  <1>2. LeaveInv'
    BY <1>a, <1>b, BoundsAssumption, TasksAssumption DEF SnapInv, LeaveInv, Sound, Deleting,
       Expiring
  <1>3. ClockInv'
    BY <1>a, <1>b, BoundsAssumption, TasksAssumption DEF TypeOK, ClockInv, Holding, Versions
  <1>4. SnapInv' /\ WriterInv' /\ GoneInv'
    BY <1>a, <1>b DEF SnapInv, WriterInv, GoneInv, Sound, Gone
  <1> QED
    BY <1>1, <1>2, <1>3, <1>4

\* A retry resumes the pending removal with the reservation it has.
LEMMA RetryDeleteIInv ==
    ASSUME IInv, RetryDelete PROVE IInv'
  <1> USE DEF IInv, RetryDelete, Serving, taskVars, clockVars, fileVars, hostVars
  <1>1. TypeOK' /\ SnapInv' /\ LeaveInv' /\ WriterInv' /\ GoneInv' /\ ClockInv'
    BY DEF TypeOK, SnapInv, LeaveInv, WriterInv, GoneInv, ClockInv, Sound, Gone, Holding,
       Deleting, Expiring
  <1> QED
    BY <1>1

\* Giving a removal up ends its reservation.
LEMMA RemovalUnavailableIInv ==
    ASSUME IInv, RemovalUnavailable PROVE IInv'
  <1> USE DEF IInv, RemovalUnavailable, Forget, Resume, Idle, taskVars, fileVars, hostVars
  <1>1. TypeOK' /\ SnapInv' /\ LeaveInv' /\ WriterInv' /\ GoneInv' /\ ClockInv'
    BY BoundsAssumption DEF TypeOK, SnapInv, LeaveInv, WriterInv, GoneInv, ClockInv, Sound, Gone,
       Holding, Deleting, Expiring
  <1> QED
    BY <1>1

\* The durable snapshot of a removal is the last on its way to the writer.
LEMMA PersistRemovalIInv ==
    ASSUME IInv, PersistRemoval PROVE IInv'
  <1> USE DEF IInv, PersistRemoval, Enqueue, taskVars, clockVars, hostVars
  <1>1. TypeOK'
    BY DEF TypeOK, Snapshots
  <1>2. WriterInv'
    BY DEF LeaveInv, WriterInv, Deleting
  <1>3. SnapInv' /\ LeaveInv' /\ GoneInv' /\ ClockInv'
    BY DEF SnapInv, LeaveInv, GoneInv, ClockInv, Sound, Gone, Holding, Deleting, Expiring
  <1> QED
    BY <1>1, <1>2, <1>3

\* A removal that is not known to be durable stays pending.
LEMMA RemovalNotPersistedIInv ==
    ASSUME IInv, RemovalNotPersisted PROVE IInv'
  <1> USE DEF IInv, RemovalNotPersisted, GivesUp, Resume, Idle, taskVars, clockVars, hostVars,
          AfterSettle
  <1>a. AfterSettle
    BY SettledFacts
  <1>1. TypeOK'
    BY <1>a, BoundsAssumption DEF TypeOK, Entries
  <1>2. SnapInv' /\ LeaveInv' /\ WriterInv' /\ GoneInv' /\ ClockInv'
    BY <1>a DEF SnapInv, LeaveInv, WriterInv, GoneInv, ClockInv, Sound, Gone, Holding, Deleting,
       Expiring
  <1> QED
    BY <1>1, <1>2

\* An acknowledged snapshot of a removal means its task is gone.
LEMMA RemovalPersistedIInv ==
    ASSUME IInv, RemovalPersisted PROVE IInv'
  <1> USE DEF IInv, RemovalPersisted, Heard, taskVars, clockVars, hostVars
  <1>1. TypeOK' /\ SnapInv' /\ LeaveInv' /\ WriterInv' /\ GoneInv' /\ ClockInv'
    BY DEF TypeOK, SnapInv, LeaveInv, WriterInv, GoneInv, ClockInv, Sound, Gone, Holding,
       Deleting, Expiring
  <1> QED
    BY <1>1

\* The tombstone of a removal is published for a task that is gone.
LEMMA RemovalAcknowledgedIInv ==
    ASSUME IInv, RemovalAcknowledged PROVE IInv'
  <1> USE DEF IInv, RemovalAcknowledged, Publish, Commit, Resume, Idle, taskVars, fileVars
  <1>1. TypeOK'
    BY BoundsAssumption DEF TypeOK, LeaveInv, ClockInv, Holding, Deleting
  <1>2. ClockInv'
    BY DEF LeaveInv, ClockInv, Holding, Deleting, Expiring
  <1>3. SnapInv' /\ LeaveInv' /\ WriterInv' /\ GoneInv'
    BY DEF SnapInv, LeaveInv, WriterInv, GoneInv, Sound, Gone, Deleting, Expiring
  <1> QED
    BY <1>1, <1>2, <1>3

\* So is one whose acknowledgement is lost.
LEMMA RemovalNotAcknowledgedIInv ==
    ASSUME IInv, NEW landed \in BOOLEAN, RemovalNotAcknowledged(landed) PROVE IInv'
  <1> USE DEF IInv, RemovalNotAcknowledged, Publish, Resume, Idle, taskVars, clockVars, fileVars
  <1>1. TypeOK'
    BY BoundsAssumption DEF TypeOK, LeaveInv, Deleting
  <1>2. SnapInv' /\ LeaveInv' /\ WriterInv' /\ GoneInv' /\ ClockInv'
    BY DEF SnapInv, LeaveInv, WriterInv, GoneInv, ClockInv, Sound, Gone, Holding, Deleting,
       Expiring
  <1> QED
    BY <1>1, <1>2

\* A blocked expiry leaves the list alone.
LEMMA BlockExpiryIInv ==
    ASSUME IInv, NEW i \in DOMAIN tasks, BlockExpiry(i) PROVE IInv'
  <1> USE DEF IInv, BlockExpiry, MayFire, Serving, clockVars, fileVars, hostVars
  <1>1. TypeOK' /\ SnapInv' /\ LeaveInv' /\ WriterInv' /\ GoneInv' /\ ClockInv'
    BY DEF TypeOK, SnapInv, LeaveInv, WriterInv, GoneInv, ClockInv, Sound, Gone, Holding,
       Deleting, Expiring
  <1> QED
    BY <1>1

\* An expiry takes the task off the list and sends the snapshot in one step.
LEMMA ExpireDurableIInv ==
    ASSUME IInv, NEW i \in DOMAIN tasks, ExpireDurable(i) PROVE IInv'
  <1> USE DEF IInv, ExpireDurable, MayFire, Serving, hostVars, AfterRemove, AfterReserve,
          AfterEnqueue
  <1>a. AfterRemove(i)
    BY RemoveFacts
  <1>b. AfterReserve
    BY ReserveFacts
  <1>c. AfterEnqueue
    BY <1>a, EnqueueFacts DEF Sound
  <1>1. TypeOK'
    <2>1. Len(tasks') <= MaxTasks /\ tasks' \in Seq(Tasks) /\ created' \subseteq Tasks
      BY <1>a DEF TypeOK, Sound
    <2>2. busy' \in [task : Tasks \cup {None}, index : 0..MaxTasks]
      BY <1>a, BoundsAssumption
    <2> QED
      BY <1>a, <1>b, <1>c, <2>1, <2>2 DEF TypeOK, Entries
  <1>2. SnapInv'
    <2>1. ASSUME NEW j \in DOMAIN queue' PROVE Sound(queue[j].snapshot)'
      <3>1. CASE j \in 1..Len(queue)
        BY <1>a, <1>c, <3>1 DEF SnapInv, Sound
      <3>2. CASE j = Len(queue) + 1
        BY <1>a, <1>c, <3>2 DEF Sound
      <3> QED
        BY <1>c, <3>1, <3>2
    <2> QED
      BY <1>a, <1>c, <2>1 DEF SnapInv, Sound
  <1>3. LeaveInv'
    BY <1>a, <1>b, <1>c, BoundsAssumption DEF TypeOK, LeaveInv, GoneInv, Gone, Deleting
  <1>4. WriterInv'
    <2>1. \A j \in 1..Len(queue) : ~queue[j].heard
      BY <1>c DEF WriterInv
    <2>2. /\ queue'[Len(queue) + 1].heard /\ queue'[Len(queue) + 1].durable
          /\ queue'[Len(queue) + 1].snapshot = tasks'
      BY <1>c
    <2>3. \A j \in DOMAIN queue' : queue'[j].heard => j = Len(queue) + 1
      BY <1>c, <2>1
    <2>4. busy'.task = tasks[i] /\ busy'.task \notin Listed(tasks')
      BY <1>a
    <2> QED
      BY <1>c, <2>2, <2>3, <2>4 DEF WriterInv
  <1>5. GoneInv'
    <2>1. ASSUME NEW t \in tombstones PROVE Gone(t)'
      <3>1. /\ t \in created /\ t \notin Listed(tasks') /\ t \notin Listed(disk)
            /\ unsaved # None => t \notin Listed(unsaved)
            /\ \A j \in DOMAIN queue : t \notin Listed(queue[j].snapshot)
        BY <1>a DEF GoneInv, Gone
      <3>2. \A j \in DOMAIN queue' : t \notin Listed(queue'[j].snapshot)
        BY <1>c, <3>1
      <3> QED
        BY <1>a, <1>c, <3>1, <3>2 DEF Gone
    <2> QED
      BY <1>c, <2>1 DEF GoneInv
  <1>6. ClockInv'
    BY <1>a, <1>b, <1>c DEF TypeOK, ClockInv, Holding, Expiring, Versions
  <1> QED
    BY <1>1, <1>2, <1>3, <1>4, <1>5, <1>6

\* An acknowledged snapshot of an expiry means its task is gone.
LEMMA ExpiryPersistedIInv ==
    ASSUME IInv, ExpiryPersisted PROVE IInv'
  <1> USE DEF IInv, ExpiryPersisted, Heard, taskVars, clockVars, hostVars
  <1>1. TypeOK' /\ SnapInv' /\ LeaveInv' /\ WriterInv' /\ GoneInv' /\ ClockInv'
    BY DEF TypeOK, SnapInv, LeaveInv, WriterInv, GoneInv, ClockInv, Sound, Gone, Holding,
       Deleting, Expiring
  <1> QED
    BY <1>1

\* A task that is put back was never published as removed.
LEMMA ExpiryNotPersistedIInv ==
    ASSUME IInv, ExpiryNotPersisted PROVE IInv'
  <1> USE DEF IInv, ExpiryNotPersisted, Heard, Forget, Resume, Idle, hostVars
  <1>a. /\ tasks' \in Seq(Tasks) /\ Len(tasks') = Len(tasks) + 1 /\ Len(tasks) < MaxTasks
        /\ Distinct(tasks') /\ Listed(tasks') \subseteq Listed(tasks) \cup {busy.task}
        /\ Len(tasks) \in Nat /\ busy.task \in created \ tombstones
    BY InsertedFacts DEF TypeOK, SnapInv, Sound, LeaveInv, Deleting, Expiring
  <1>1. TypeOK'
    BY <1>a, BoundsAssumption DEF TypeOK, LeaveInv, Expiring
  <1>2. ClockInv'
    BY <1>a DEF LeaveInv, ClockInv, Holding, Deleting, Expiring
  <1>3. SnapInv' /\ LeaveInv' /\ WriterInv' /\ GoneInv'
    BY <1>a, BoundsAssumption DEF SnapInv, LeaveInv, WriterInv, GoneInv, Sound, Gone, Deleting,
       Expiring
  <1> QED
    BY <1>1, <1>2, <1>3

\* An expiry with an unknown outcome publishes nothing.
LEMMA ExpiryUnknownIInv ==
    ASSUME IInv, ExpiryUnknown PROVE IInv'
  <1> USE DEF IInv, ExpiryUnknown, GivesUp, Forget, Resume, Idle, taskVars, hostVars, AfterSettle
  <1>a. AfterSettle
    BY SettledFacts
  <1>1. TypeOK'
    BY <1>a, BoundsAssumption DEF TypeOK, Entries
  <1>2. ClockInv'
    BY <1>a DEF LeaveInv, ClockInv, Holding, Deleting, Expiring
  <1>3. SnapInv' /\ LeaveInv' /\ WriterInv' /\ GoneInv'
    BY <1>a DEF SnapInv, LeaveInv, WriterInv, GoneInv, Sound, Gone, Deleting, Expiring
  <1> QED
    BY <1>1, <1>2, <1>3

\* The tombstone of an expiry is published for a task that is gone.
LEMMA ExpiryAcknowledgedIInv ==
    ASSUME IInv, ExpiryAcknowledged PROVE IInv'
  <1> USE DEF IInv, ExpiryAcknowledged, Publish, Commit, Resume, Idle, taskVars, fileVars
  <1>1. TypeOK'
    BY BoundsAssumption DEF TypeOK, LeaveInv, ClockInv, Holding, Expiring
  <1>2. ClockInv'
    BY DEF LeaveInv, ClockInv, Holding, Deleting, Expiring
  <1>3. SnapInv' /\ LeaveInv' /\ WriterInv' /\ GoneInv'
    BY DEF SnapInv, LeaveInv, WriterInv, GoneInv, Sound, Gone, Deleting, Expiring
  <1> QED
    BY <1>1, <1>2, <1>3

\* So is one whose acknowledgement is lost.
LEMMA ExpiryNotAcknowledgedIInv ==
    ASSUME IInv, NEW landed \in BOOLEAN, ExpiryNotAcknowledged(landed) PROVE IInv'
  <1> USE DEF IInv, ExpiryNotAcknowledged, Publish, Forget, Resume, Idle, taskVars, fileVars
  <1>1. TypeOK'
    BY BoundsAssumption DEF TypeOK, LeaveInv, Expiring
  <1>2. ClockInv'
    BY DEF LeaveInv, ClockInv, Holding, Deleting, Expiring
  <1>3. SnapInv' /\ LeaveInv' /\ WriterInv' /\ GoneInv'
    BY DEF SnapInv, LeaveInv, WriterInv, GoneInv, Sound, Gone, Deleting, Expiring
  <1> QED
    BY <1>1, <1>2, <1>3

\* The expiry of a non-durable task publishes no tombstone.
LEMMA ExpirePlainIInv ==
    ASSUME IInv, NEW i \in DOMAIN tasks, ExpirePlain(i) PROVE IInv'
  <1> USE DEF IInv, ExpirePlain, MayFire, Serving, hostVars, AfterRemove, AfterReserve,
          AfterEnqueue
  <1>a. AfterRemove(i)
    BY RemoveFacts
  <1>b. AfterReserve
    BY ReserveFacts
  <1>c. AfterEnqueue
    BY <1>a, EnqueueFacts DEF Sound
  <1>1. TypeOK'
    <2>1. Len(tasks') <= MaxTasks /\ tasks' \in Seq(Tasks) /\ created' \subseteq Tasks
      BY <1>a DEF TypeOK, Sound
    <2>2. busy' \in [task : Tasks \cup {None}, index : 0..MaxTasks]
      BY <1>a, BoundsAssumption
    <2> QED
      BY <1>a, <1>b, <1>c, <2>1, <2>2 DEF TypeOK, Entries
  <1>2. SnapInv'
    <2>1. ASSUME NEW j \in DOMAIN queue' PROVE Sound(queue[j].snapshot)'
      <3>1. CASE j \in 1..Len(queue)
        BY <1>a, <1>c, <3>1 DEF SnapInv, Sound
      <3>2. CASE j = Len(queue) + 1
        BY <1>a, <1>c, <3>2 DEF Sound
      <3> QED
        BY <1>c, <3>1, <3>2
    <2> QED
      BY <1>a, <1>c, <2>1 DEF SnapInv, Sound
  <1>3. LeaveInv'
    BY <1>a, <1>b, <1>c DEF TypeOK, LeaveInv, Deleting
  <1>4. WriterInv'
    <2>1. \A j \in 1..Len(queue) : ~queue[j].heard
      BY <1>c DEF WriterInv
    <2>2. /\ queue'[Len(queue) + 1].heard /\ queue'[Len(queue) + 1].durable
          /\ queue'[Len(queue) + 1].snapshot = tasks'
      BY <1>c
    <2>3. \A j \in DOMAIN queue' : queue'[j].heard => j = Len(queue) + 1
      BY <1>c, <2>1
    <2>4. busy'.task = tasks[i] /\ busy'.task \notin Listed(tasks')
      BY <1>a
    <2> QED
      BY <1>c, <2>2, <2>3, <2>4 DEF WriterInv
  <1>5. GoneInv'
    <2>1. ASSUME NEW t \in tombstones PROVE Gone(t)'
      <3>1. /\ t \in created /\ t \notin Listed(tasks') /\ t \notin Listed(disk)
            /\ unsaved # None => t \notin Listed(unsaved)
            /\ \A j \in DOMAIN queue : t \notin Listed(queue[j].snapshot)
        BY <1>a DEF GoneInv, Gone
      <3>2. \A j \in DOMAIN queue' : t \notin Listed(queue'[j].snapshot)
        BY <1>c, <3>1
      <3> QED
        BY <1>a, <1>c, <3>1, <3>2 DEF Gone
    <2> QED
      BY <1>c, <2>1 DEF GoneInv
  <1>6. ClockInv'
    BY <1>a, <1>b, <1>c DEF TypeOK, ClockInv, Holding, Expiring, Versions
  <1> QED
    BY <1>1, <1>2, <1>3, <1>4, <1>5, <1>6

\* It commits the version it reserved.
LEMMA PlainExpiryDoneIInv ==
    ASSUME IInv, PlainExpiryDone PROVE IInv'
  <1> USE DEF IInv, PlainExpiryDone, GivesUp, Commit, Resume, Idle, taskVars, hostVars,
          AfterSettle
  <1>a. AfterSettle
    BY SettledFacts
  <1>1. TypeOK'
    BY <1>a, BoundsAssumption DEF TypeOK, ClockInv, Holding, Expiring, Entries
  <1>2. ClockInv'
    BY <1>a DEF LeaveInv, ClockInv, Holding, Deleting, Expiring
  <1>3. SnapInv' /\ LeaveInv' /\ WriterInv' /\ GoneInv'
    BY <1>a DEF SnapInv, LeaveInv, WriterInv, GoneInv, Sound, Gone, Deleting, Expiring
  <1> QED
    BY <1>1, <1>2, <1>3

\* A one-shot leaves the list with two versions at once.
LEMMA FireOneShotIInv ==
    ASSUME IInv, NEW i \in DOMAIN tasks, FireOneShot(i) PROVE IInv'
  <1> USE DEF IInv, FireOneShot, MayFire, Serving, fileVars, hostVars, AfterRemove, AfterAdvance
  <1>a. AfterRemove(i)
    BY RemoveFacts
  <1>b. AfterAdvance
    BY BoundsAssumption, AdvanceFacts
  <1>1. TypeOK'
    BY <1>a, <1>b DEF TypeOK, Sound
  <1>2. SnapInv' /\ LeaveInv' /\ WriterInv' /\ GoneInv' /\ ClockInv'
    BY <1>a, <1>b DEF SnapInv, LeaveInv, WriterInv, GoneInv, ClockInv, Sound, Gone, Holding,
       Deleting, Expiring
  <1> QED
    BY <1>1, <1>2

\* A fire reserves its version before it is suspended.
LEMMA FireRecurringIInv ==
    ASSUME IInv, NEW i \in DOMAIN tasks, FireRecurring(i) PROVE IInv'
  <1> USE DEF IInv, FireRecurring, MayFire, Serving, taskVars, fileVars, hostVars, AfterReserve
  <1>a. AfterReserve
    BY ReserveFacts
  <1>b. tasks[i] \in Tasks /\ i \in 0..MaxTasks
    BY BoundsAssumption DEF TypeOK
  <1>1. ClockInv'
    BY <1>a, <1>b DEF TypeOK, ClockInv, Holding, Versions
  <1>2. TypeOK' /\ SnapInv' /\ LeaveInv' /\ WriterInv' /\ GoneInv'
    BY <1>a, <1>b DEF TypeOK, SnapInv, LeaveInv, WriterInv, GoneInv, Sound, Gone, Deleting,
       Expiring
  <1> QED
    BY <1>1, <1>2

\* A fire that was delivered commits its version.
LEMMA FiredIInv ==
    ASSUME IInv, Fired PROVE IInv'
  <1> USE DEF IInv, Fired, Commit, Resume, Idle, taskVars, fileVars, hostVars
  <1>1. TypeOK'
    BY BoundsAssumption DEF TypeOK, ClockInv, Holding
  <1>2. ClockInv'
    BY DEF LeaveInv, ClockInv, Holding, Deleting, Expiring
  <1>3. SnapInv' /\ LeaveInv' /\ WriterInv' /\ GoneInv'
    BY DEF SnapInv, LeaveInv, WriterInv, GoneInv, Sound, Gone, Deleting, Expiring
  <1> QED
    BY <1>1, <1>2, <1>3

\* A fire that was not forgets it.
LEMMA SkippedIInv ==
    ASSUME IInv, Skipped PROVE IInv'
  <1> USE DEF IInv, Skipped, Forget, Resume, Idle, taskVars, fileVars, hostVars
  <1>1. ClockInv'
    BY DEF LeaveInv, ClockInv, Holding, Deleting, Expiring
  <1>2. TypeOK' /\ SnapInv' /\ LeaveInv' /\ WriterInv' /\ GoneInv'
    BY BoundsAssumption DEF TypeOK, SnapInv, LeaveInv, WriterInv, GoneInv, Sound, Gone, Deleting,
       Expiring
  <1> QED
    BY <1>1, <1>2

\* A shutdown stamps a version on each remaining task.
LEMMA ShutdownIInv ==
    ASSUME IInv, Shutdown PROVE IInv'
  <1> USE DEF IInv, Shutdown, taskVars, clockVars, fileVars, hostVars
  <1>1. TypeOK'
    <2>1. CASE tasks = <<>>
      BY <2>1 DEF TypeOK
    <2>2. CASE tasks # <<>>
      <3>1. Len(tasks) \in 1..MaxRevision
        BY <2>2, BoundsAssumption DEF TypeOK
      <3>2. AfterAdvance
        BY <2>2, <3>1, AdvanceFacts
      <3> QED
        BY <3>2 DEF AfterAdvance, TypeOK
    <2> QED
      BY <2>1, <2>2
  <1>2. ClockInv'
    <2>1. CASE tasks = <<>>
      BY <2>1 DEF ClockInv
    <2>2. CASE tasks # <<>>
      <3>1. Len(tasks) \in 1..MaxRevision
        BY <2>2, BoundsAssumption DEF TypeOK
      <3>2. AfterAdvance
        BY <2>2, <3>1, AdvanceFacts
      <3> QED
        BY <3>2 DEF AfterAdvance, ClockInv
    <2> QED
      BY <2>1, <2>2
  <1>3. SnapInv' /\ LeaveInv' /\ WriterInv' /\ GoneInv'
    BY DEF SnapInv, LeaveInv, WriterInv, GoneInv, Sound, Gone, Deleting, Expiring
  <1> QED
    BY <1>1, <1>2, <1>3

\* A save adds a snapshot of the list, which has no published task.
LEMMA SaveIInv ==
    ASSUME IInv, Save PROVE IInv'
  <1> USE DEF IInv, Save, Up, ActorVars, taskVars, clockVars, hostVars
  <1>1. TypeOK'
    BY DEF TypeOK, Snapshots
  <1>2. WriterInv'
    BY DEF LeaveInv, WriterInv, Listed, Deleting, Expiring
  <1>3. SnapInv' /\ LeaveInv' /\ GoneInv' /\ ClockInv'
    BY DEF SnapInv, LeaveInv, GoneInv, ClockInv, Sound, Gone, Holding, Deleting, Expiring
  <1> QED
    BY <1>1, <1>2, <1>3

\* The snapshot that waits for the debounce was on its way before.
LEMMA WriterKeepsIInv ==
    ASSUME IInv, WriterKeeps PROVE IInv'
  <1> USE DEF IInv, WriterKeeps, Up, ActorVars, taskVars, clockVars, hostVars, AfterTake
  <1>a. AfterTake
    BY TakeFacts
  <1>1. TypeOK'
    BY <1>a DEF TypeOK, Entries
  <1>2. SnapInv'
    <2>1. \A j \in DOMAIN queue' : j + 1 \in DOMAIN queue /\ queue'[j] = queue[j + 1]
      BY <1>a
    <2> QED
      BY <1>a, <2>1 DEF SnapInv, Sound
  <1>3. WriterInv'
    <2>1. \A j \in DOMAIN queue' : j + 1 \in DOMAIN queue /\ queue'[j] = queue[j + 1] /\ j \in Nat
      BY <1>a
    <2> SUFFICES ASSUME NEW j \in DOMAIN queue', queue'[j].heard
                 PROVE  /\ at \in {"delete_persist", "expiry_persist", "plain_expiry"}
                        /\ ack = "waiting" /\ queue'[j].durable
                        /\ \A k \in DOMAIN queue' :
                              /\ queue'[k].heard => k = j
                              /\ k >= j /\ at = "delete_persist" =>
                                    pending \notin Listed(queue'[k].snapshot)
                              /\ k >= j /\ at = "expiry_persist" =>
                                    busy.task \notin Listed(queue'[k].snapshot)
      BY DEF WriterInv
    <2>2. queue[j + 1].heard
      BY <2>1
    <2> QED
      BY <2>1, <2>2 DEF WriterInv
  <1>4. GoneInv'
    <2>1. \A j \in DOMAIN queue' : j + 1 \in DOMAIN queue /\ queue'[j] = queue[j + 1]
      BY <1>a
    <2>2. \A t : Gone(t) => Gone(t)'
      BY <1>a, <2>1 DEF Gone
    <2> QED
      BY <2>2 DEF GoneInv
  <1>5. LeaveInv' /\ ClockInv'
    BY <1>a DEF LeaveInv, ClockInv, Holding, Deleting, Expiring
  <1> QED
    BY <1>1, <1>2, <1>3, <1>4, <1>5

\* The writer acknowledges a durable snapshot: it replaced the file and the waiting one.
LEMMA WriterFlushesIInv ==
    ASSUME IInv, NEW written \in BOOLEAN, NEW reported \in BOOLEAN, WriterFlushes(written, reported)
    PROVE  IInv'
  <1> USE DEF IInv, WriterFlushes, Up, ActorVars, taskVars, clockVars, hostVars, AfterTake
  <1>a. AfterTake
    BY TakeFacts
  <1>1. TypeOK'
    BY <1>a DEF TypeOK, Entries
  <1>2. SnapInv'
    <2>1. \A j \in DOMAIN queue' : j + 1 \in DOMAIN queue /\ queue'[j] = queue[j + 1]
      BY <1>a
    <2>2. Sound(queue[1].snapshot)
      BY <1>a DEF SnapInv
    <2> QED
      BY <1>a, <2>1, <2>2 DEF SnapInv, Sound
  <1>3. WriterInv'
    <2>1. \A j \in DOMAIN queue' : /\ j + 1 \in DOMAIN queue /\ queue'[j] = queue[j + 1]
                                 /\ j \in Nat \ {0}
      BY <1>a
    <2> SUFFICES ASSUME NEW j \in DOMAIN queue', queue'[j].heard
                 PROVE  /\ at \in {"delete_persist", "expiry_persist", "plain_expiry"}
                        /\ ack' = "waiting" /\ queue'[j].durable
                        /\ \A k \in DOMAIN queue' :
                              /\ queue'[k].heard => k = j
                              /\ k >= j /\ at = "delete_persist" =>
                                    pending \notin Listed(queue'[k].snapshot)
                              /\ k >= j /\ at = "expiry_persist" =>
                                    busy.task \notin Listed(queue'[k].snapshot)
      BY DEF WriterInv
    <2>2. queue[j + 1].heard /\ ~Head(queue).heard
      <3>1. queue[j + 1].heard /\ 1 \in DOMAIN queue /\ j + 1 # 1
        BY <1>a, <2>1
      <3> QED
        BY <1>a, <2>1, <3>1 DEF WriterInv
    <2>3. ack' = ack
      BY <2>2
    <2> QED
      BY <2>1, <2>2, <2>3 DEF WriterInv
  <1>4. GoneInv'
    <2>1. \A j \in DOMAIN queue' : /\ j + 1 \in DOMAIN queue /\ queue'[j] = queue[j + 1]
                                 /\ j + 1 >= 1
      BY <1>a
    <2>2. \A t : Gone(t) => Gone(t)'
      BY <1>a, <2>1 DEF Gone
    <2>3. CASE ack' # "ok" \/ ack = "ok"
      BY <2>2, <2>3 DEF GoneInv
    <2>4. CASE ack' = "ok" /\ ack # "ok"
      <3>1. queue[1].heard /\ 1 \in DOMAIN queue /\ disk' = queue[1].snapshot
        BY <1>a, <2>4
      <3>2. /\ at = "delete_persist" =>
                \A j \in DOMAIN queue : j >= 1 => pending \notin Listed(queue[j].snapshot)
            /\ at = "expiry_persist" =>
                \A j \in DOMAIN queue : j >= 1 => busy.task \notin Listed(queue[j].snapshot)
        BY <3>1 DEF WriterInv
      <3>3. at = "delete_persist" => Gone(pending)'
        BY <2>1, <3>1, <3>2 DEF Gone, LeaveInv, Deleting
      <3>4. at = "expiry_persist" => Gone(busy.task)'
        BY <2>1, <3>1, <3>2 DEF Gone, LeaveInv, Expiring
      <3> QED
        BY <2>2, <2>4, <3>3, <3>4 DEF GoneInv
    <2> QED
      BY <2>3, <2>4
  <1>5. LeaveInv' /\ ClockInv'
    BY <1>a DEF LeaveInv, ClockInv, Holding, Deleting, Expiring
  <1> QED
    BY <1>1, <1>2, <1>3, <1>4, <1>5

\* The waiting snapshot lists no published task.
LEMMA WriterSavesIInv ==
    ASSUME IInv, NEW written \in BOOLEAN, WriterSaves(written) PROVE IInv'
  <1> USE DEF IInv, WriterSaves, Up, ActorVars, taskVars, clockVars, hostVars
  <1>1. TypeOK' /\ SnapInv' /\ LeaveInv' /\ WriterInv' /\ GoneInv' /\ ClockInv'
    BY DEF TypeOK, SnapInv, LeaveInv, WriterInv, GoneInv, ClockInv, Sound, Gone, Holding,
       Deleting, Expiring
  <1> QED
    BY <1>1

\* The clock on the wall changes nothing that is listed.
LEMMA ExpiresIInv ==
    ASSUME IInv, NEW t \in Tasks, Expires(t) PROVE IInv'
  <1> USE DEF IInv, Expires, clockVars, fileVars, hostVars
  <1>1. TypeOK' /\ SnapInv' /\ LeaveInv' /\ WriterInv' /\ GoneInv' /\ ClockInv'
    BY DEF TypeOK, SnapInv, LeaveInv, WriterInv, GoneInv, ClockInv, Sound, Gone, Holding,
       Deleting, Expiring
  <1> QED
    BY <1>1

\* Closing the targets changes nothing that is listed.
LEMMA CloseTargetsIInv ==
    ASSUME IInv, CloseTargets PROVE IInv'
  <1> USE DEF IInv, CloseTargets, Up, taskVars, clockVars, fileVars
  <1>1. TypeOK'
    BY ZenonT(60) DEF TypeOK
  <1>2. SnapInv'
    BY DEF SnapInv, Sound
  <1>3. LeaveInv'
    BY DEF LeaveInv, Deleting, Expiring
  <1>4. WriterInv'
    BY DEF WriterInv
  <1>5. GoneInv'
    BY DEF GoneInv, Gone
  <1>6. ClockInv'
    BY DEF ClockInv, Holding, Deleting, Expiring
  <1> QED
    BY <1>1, <1>2, <1>3, <1>4, <1>5, <1>6

\* Cancelling changes nothing that is listed.
LEMMA CancelIInv ==
    ASSUME IInv, Cancel PROVE IInv'
  <1> USE DEF IInv, Cancel, Up, taskVars, clockVars, fileVars
  <1>1. TypeOK' /\ SnapInv' /\ LeaveInv' /\ WriterInv' /\ GoneInv' /\ ClockInv'
    BY DEF TypeOK, SnapInv, LeaveInv, WriterInv, GoneInv, ClockInv, Sound, Gone, Holding,
       Deleting, Expiring
  <1> QED
    BY <1>1

\* A crash keeps the file only.
LEMMA CrashIInv ==
    ASSUME IInv, Crash PROVE IInv'
  <1> USE DEF IInv, Crash, Up, Idle, hostVars
  <1>1. SnapInv'
    BY BoundsAssumption DEF SnapInv, Sound, Distinct, Listed
  <1>2. GoneInv'
    BY DEF GoneInv, Listed, Gone
  <1>3. TypeOK' /\ LeaveInv' /\ WriterInv' /\ ClockInv'
    BY BoundsAssumption DEF TypeOK, LeaveInv, WriterInv, ClockInv, Holding, Deleting, Expiring
  <1> QED
    BY <1>1, <1>2, <1>3

\* A restart lists what the file lists, in a fresh generation.
LEMMA RestartIInv ==
    ASSUME IInv, Restart PROVE IInv'
  <1> USE DEF IInv, Restart, fileVars
  <1>1. TypeOK'
    <2>1. tasks' \in Seq(Tasks) /\ Len(tasks') <= MaxTasks
      BY DEF SnapInv, Sound
    <2>2. clock' \in Versions /\ generations' \in 1..MaxGenerations
      BY BoundsAssumption DEF TypeOK, Versions
    <2> QED
      BY <2>1, <2>2 DEF TypeOK
  <1>2. ClockInv'
    BY BoundsAssumption DEF LeaveInv, ClockInv, Holding, Deleting, Expiring
  <1>3. SnapInv' /\ LeaveInv' /\ WriterInv' /\ GoneInv'
    BY DEF SnapInv, LeaveInv, WriterInv, GoneInv, Sound, Gone, Deleting, Expiring
  <1> QED
    BY <1>1, <1>2, <1>3

----------------------------------------------------------------------------
\* A new session has nothing listed and nothing published.
LEMMA InitIInv == ASSUME Init PROVE IInv
  <1> USE DEF Init
  <1>1. TypeOK
    <2>1. clock \in Versions /\ generations \in 1..MaxGenerations
      BY BoundsAssumption DEF Versions
    <2>2. busy \in [task : Tasks \cup {None}, index : 0..MaxTasks]
      BY BoundsAssumption DEF Idle
    <2>3. tasks \in Seq(Tasks) /\ Len(tasks) <= MaxTasks /\ disk \in Snapshots
      BY BoundsAssumption DEF Snapshots
    <2>4. queue \in Seq([snapshot : Snapshots, durable : BOOLEAN, heard : BOOLEAN])
      OBVIOUS
    <2> QED
      BY <2>1, <2>2, <2>3, <2>4 DEF TypeOK
  <1>2. Sound(<<>>)
    BY BoundsAssumption DEF Sound, Distinct, Listed
  <1>3. SnapInv /\ LeaveInv /\ WriterInv /\ GoneInv
    BY <1>2 DEF SnapInv, LeaveInv, WriterInv, GoneInv, Deleting, Expiring
  <1>4. ClockInv
    BY DEF ClockInv, Holding, Expiring
  <1> QED
    BY <1>1, <1>3, <1>4 DEF IInv

\* The invariant is about the variables only.
LEMMA StutterIInv == ASSUME IInv, UNCHANGED vars PROVE IInv'
  BY DEF vars, IInv, TypeOK, SnapInv, Sound, LeaveInv, WriterInv, GoneInv, Gone, ClockInv, Holding

\* Every step preserves the invariant.
LEMMA NextIInv == ASSUME IInv, [Next]_vars PROVE IInv'
  <1>1. CASE Continue
    BY <1>1, RemovalUnavailableIInv, PersistRemovalIInv, RemovalNotPersistedIInv, RemovalPersistedIInv,
       RemovalAcknowledgedIInv, RemovalNotAcknowledgedIInv, ExpiryPersistedIInv, ExpiryNotPersistedIInv,
       ExpiryUnknownIInv, ExpiryAcknowledgedIInv, ExpiryNotAcknowledgedIInv, PlainExpiryDoneIInv,
       FiredIInv, SkippedIInv DEF Continue
  <1>2. CASE Command
    BY <1>2, CreateIInv, UpdateIInv, DeleteIInv, RetryDeleteIInv DEF Command
  <1>3. CASE Fire
    BY <1>3, BlockExpiryIInv, ExpireDurableIInv, ExpirePlainIInv, FireOneShotIInv, FireRecurringIInv
       DEF Fire
  <1>4. CASE Shutdown
    BY <1>4, ShutdownIInv
  <1>5. CASE Writer
    BY <1>5, WriterKeepsIInv, WriterFlushesIInv, WriterSavesIInv DEF Writer
  <1>6. CASE Environment
    BY <1>6, SaveIInv, CloseTargetsIInv, CancelIInv, CrashIInv, RestartIInv, ExpiresIInv DEF Environment
  <1>7. CASE UNCHANGED vars
    BY <1>7, StutterIInv
  <1> QED
    BY <1>1, <1>2, <1>3, <1>4, <1>5, <1>6, <1>7 DEF Next

----------------------------------------------------------------------------
\* The inductive invariant holds of every reachable state of the scheduler,
\* crashes and restarts included.
THEOREM Invariance == Spec => []IInv
  <1>1. Init => IInv
    BY InitIInv
  <1>2. IInv /\ [Next]_vars => IInv'
    BY NextIInv
  <1> QED
    BY <1>1, <1>2, PTL DEF Spec

\* Type correctness of the scheduler actor, its clock and the writer.
THEOREM TypeCorrect == Spec => []TypeOK
  <1>1. IInv => TypeOK
    BY DEF IInv
  <1> QED
    BY <1>1, Invariance, PTL

\* A removal whose tombstone publish_durable_removal recorded is never undone by
\* a late snapshot of the writer or by a restart.
THEOREM TombstonesCorrect == Spec => []TombstoneIsFinal
  <1>1. IInv => TombstoneIsFinal
    BY DEF IInv, GoneInv, Gone, TombstoneIsFinal
  <1> QED
    BY <1>1, Invariance, PTL

\* A step that moves the clock moves it forward: every version is new.
LEMMA ClockStep == ASSUME IInv, [Next]_vars, clock' # clock PROVE Follows(clock', clock)
  <1> USE DEF IInv
  <1>1. CASE Continue
    <2>1. Commit /\ at # "stopped" /\ Holding
      BY <1>1 DEF Continue, RemovalUnavailable, PersistRemoval, RemovalNotPersisted, RemovalPersisted,
         RemovalAcknowledged, RemovalNotAcknowledged, ExpiryPersisted, ExpiryNotPersisted,
         ExpiryUnknown, ExpiryAcknowledged, ExpiryNotAcknowledged, PlainExpiryDone, Fired, Skipped,
         Forget, LeaveInv, Holding, Deleting, Expiring, clockVars
    <2> QED
      BY <2>1 DEF Commit, ClockInv
  <1>2. CASE Command
    <2>1. Advance(1)
      BY <1>2 DEF Command, Create, Update, Delete, RetryDelete, Reserve, clockVars
    <2> QED
      BY <2>1, AdvanceFacts, BoundsAssumption DEF AfterAdvance
  <1>3. CASE Fire
    <2>1. Advance(2)
      BY <1>3 DEF Fire, BlockExpiry, ExpireDurable, ExpirePlain, FireOneShot, FireRecurring, Reserve,
         clockVars
    <2> QED
      BY <2>1, AdvanceFacts, BoundsAssumption DEF AfterAdvance
  <1>4. CASE Shutdown
    <2>1. Advance(Len(tasks)) /\ tasks # <<>>
      BY <1>4 DEF Shutdown, clockVars
    <2>2. Len(tasks) \in 1..MaxRevision
      BY <2>1, BoundsAssumption DEF TypeOK
    <2> QED
      BY <2>1, <2>2, AdvanceFacts DEF AfterAdvance
  <1>5. CASE Writer
    BY <1>5 DEF Writer, WriterKeeps, WriterFlushes, WriterSaves, ActorVars, clockVars
  <1>6. CASE Environment
    <2>1. Restart
      BY <1>6 DEF Environment, Save, CloseTargets, Cancel, Crash, Expires, ActorVars, clockVars
    <2> QED
      BY <2>1 DEF Restart, Follows, TypeOK, Versions, ClockInv
  <1>7. CASE UNCHANGED vars
    BY <1>7 DEF vars
  <1> QED
    BY <1>1, <1>2, <1>3, <1>4, <1>5, <1>6, <1>7 DEF Next

\* commit_next finds the clock as its reservation left it, and every version it
\* stamps is a later one, across rollovers and restarts.
THEOREM ClockCorrect == Spec => ClockIsSound
  <1>1. IInv => (reserved # None => reserved.source = clock)
    BY DEF IInv, ClockInv
  <1>2. IInv /\ [Next]_vars =>
            [clock' # clock =>
                \/ clock'.generation > clock.generation
                \/ clock'.generation = clock.generation /\ clock'.revision > clock.revision]_vars
    BY ClockStep DEF Follows
  <1> QED
    BY <1>1, <1>2, Invariance, PTL DEF Spec, ClockIsSound

=============================================================================
