------------------------- MODULE MessageDeliveryProofs -------------------------
(***************************************************************************)
(* Proofs about the delivery of prompts and parent messages, for every set *)
(* of inputs and every number of steer slots: type correctness, that each  *)
(* waiting input is owned exactly once, that an ok receipt means delivery, *)
(* that nothing is written after an answer, that a rewind loses nothing    *)
(* that precedes its prompt and keeps nothing of its turn, whatever turns  *)
(* are promoted before it cuts, and that the session implements the        *)
(* contract of MessageContract.                                            *)
(***************************************************************************)
EXTENDS MessageDelivery, FiniteSetTheorems, WellFoundedInduction, TLAPS

Turn == [input : Inputs, epoch : Nat]
Slot == [id : Messages, turn : Turn, phase : {"delivered", "projecting", "pending"}]

----------------------------------------------------------------------------
\* The inductive invariant
Report == [turn : Turn, result : Results]

\* Rows and slots hold different inputs, each once; with what a rewind has claimed
\* they are exactly the ones whose senders wait.
Once ==
    /\ \A j, k \in DOMAIN pending_inputs : pending_inputs[j] = pending_inputs[k] => j = k
    /\ \A j, k \in DOMAIN slots : slots[j].id = slots[k].id => j = k
    /\ \A j \in DOMAIN slots, k \in DOMAIN pending_inputs : slots[j].id # pending_inputs[k]
Waiting ==
    \A i \in Inputs :
        receipt[i] = "waiting" <=> i \in Ids(slots) \/ i \in Range(pending_inputs) \/ i \in Claimed
Apart == \A i \in Claimed : i \notin Ids(slots) /\ i \notin Range(pending_inputs)

\* Slots belong to the running turn, and no slot is ahead of an earlier one.
Bound == \A k \in DOMAIN slots : slots[k].turn = running_task
Sorted ==
    \A j, k \in DOMAIN slots : j < k =>
        /\ slots[k].phase = "delivered" => slots[j].phase = "delivered"
        /\ slots[j].phase = "pending" => slots[k].phase = "pending"

\* The running turn is that of the front row and of the current epoch.
FrontRow ==
    /\ task = "none" <=> running_task = NoTurn
    /\ running_task # NoTurn => /\ pending_inputs # <<>> /\ pending_inputs[1] = running_task.input
                                /\ running_task.epoch = epoch

\* What was pushed: nothing of an input that waits for its turn or its drain.
Before == {"none", "starting", "hook", "blocked", "indexed"}
Pushes ==
    /\ \A i \in Inputs : pushes[i] \in {0, 1} /\ (receipt[i] = "none" => pushes[i] = 0)
    /\ \A k \in DOMAIN pending_inputs :
          k > 1 \/ task \in Before => pushes[pending_inputs[k]] = 0
    /\ \A k \in DOMAIN slots : pushes[slots[k].id] = IF slots[k].phase = "delivered" THEN 1 ELSE 0

\* A failed drain is on record, and so is a prompt that could not be pushed.
Reached(i) == pushes[i] = 1 \/ i \in undelivered
Drained ==
    /\ \A k \in DOMAIN slots :
          slots[k].phase = "projecting" /\ task # "barrier" => slots[k].id \in undelivered
    /\ task \in {"working", "barrier"} => Reached(running_task.input)

\* A report of the running turn is only there once its task has ended; reports of
\* other turns are of earlier epochs.
Reports ==
    \A k \in DOMAIN reports :
        /\ reports[k].turn.epoch <= epoch
        /\ reports[k].turn = running_task =>
             /\ task = "ended"
             /\ reports[k].result = "ok" /\ running_task.input \in Messages
                  => Reached(running_task.input)

IInv ==
    TypeOK /\ Once /\ Waiting /\ Apart /\ Bound /\ Sorted /\ FrontRow /\ Pushes /\ Drained
    /\ Reports /\ OkMeansDelivered

----------------------------------------------------------------------------
\* Lemmas about sequences and selections

\* The running turn and the slots, with the names of their types
LEMMA Types ==
    ASSUME TypeOK
    PROVE  /\ slots \in Seq(Slot) /\ Len(slots) \in Nat /\ DOMAIN slots = 1..Len(slots)
           /\ \A k \in DOMAIN slots : slots[k] \in Slot
           /\ pending_inputs \in Seq(Inputs) /\ Len(pending_inputs) \in Nat
           /\ DOMAIN pending_inputs = 1..Len(pending_inputs)
           /\ \A k \in DOMAIN pending_inputs : pending_inputs[k] \in Inputs
           /\ running_task = NoTurn \/ running_task \in Turn
           /\ reports \in Seq(Report)
           /\ \A k \in DOMAIN reports : reports[k] \in Report
  <1>1. slots \in Seq(Slot) /\ pending_inputs \in Seq(Inputs)
    BY DEF TypeOK, Slot, Turn, Phases
  <1>2. running_task = NoTurn \/ running_task \in Turn
    BY DEF TypeOK, Turn
  <1>3. reports \in Seq(Report)
    BY DEF TypeOK, Turn, Report
  <1> QED
    BY <1>1, <1>2, <1>3

\* A nonempty set of numbers has a least element.
LEMMA LeastElement ==
    ASSUME NEW T \in SUBSET Nat, T # {}
    PROVE  \E a \in T : \A b \in T : a <= b
  <1> DEFINE R == {ss \in Nat \X Nat : ss[1] < ss[2]}
  <1>1. IsWellFoundedOn(R, Nat)
    BY NatLessThanWellFounded DEF OpToRel
  <1>2. PICK a \in T : \A b \in T : ~(<<b, a>> \in R)
    BY <1>1, WFMin
  <1>3. \A b \in T : ~(b < a)
    BY <1>2
  <1> QED
    BY <1>3

\* The numbers 1..n enumerate the indices T in their order, and InOrder follows them.
Enumerates(at, n, T) ==
    /\ at \in [1..n -> T]
    /\ InOrder(T) = [k \in 1..n |-> slots[at[k]]]
    /\ \A j \in T : \E k \in 1..n : at[k] = j
    /\ \A j, k \in 1..n : j < k => at[j] < at[k]

\* Index sets without gaps are enumerated.
LEMMA InOrderFacts ==
    ASSUME TypeOK, NEW a \in Nat \ {0}, NEW b \in 0..Len(slots), NEW T, T = a..b
    PROVE  \E n \in Nat : \E at : Enumerates(at, n, T)
  <1> DEFINE n == Cardinality(T)
             Good(at) == Range(at) = T /\ \A j, k \in DOMAIN at : j < k => at[j] < at[k]
  <1>1. n \in Nat /\ n = IF a > b THEN 0 ELSE b - a + 1
    <2>1. a \in Int /\ b \in Int
      BY Types
    <2>2. Cardinality(a..b) = IF a > b THEN 0 ELSE b - a + 1
      BY <2>1, FS_Interval
    <2> QED
      BY <2>1, <2>2
  <1>2. \E at \in [1..n -> T] : Good(at)
    <2> DEFINE up == [k \in 1..n |-> a + k - 1]
    <2>1. up \in [1..n -> T]
      BY <1>1, Types
    <2>2. Range(up) = T
      <3>1. \A j \in T : j - a + 1 \in 1..n /\ up[j - a + 1] = j
        BY <1>1, Types
      <3> HIDE DEF up
      <3>2. \A j \in T : j \in Range(up)
        BY <2>1, <3>1 DEF Range
      <3>3. \A j \in Range(up) : j \in T
        BY <2>1 DEF Range
      <3> QED
        BY <3>2, <3>3
    <2>3. \A j, k \in DOMAIN up : j < k => up[j] < up[k]
      BY <1>1
    <2> QED
      BY <2>1, <2>2, <2>3
  <1> DEFINE at == CHOOSE at \in [1..n -> T] : Good(at)
  <1>3. at \in [1..n -> T] /\ Good(at)
    BY <1>2
  <1>4. InOrder(T) = [k \in 1..n |-> slots[at[k]]]
    BY DEF InOrder
  <1>5. \A j \in T : \E k \in 1..n : at[k] = j
    BY <1>3 DEF Range
  <1>6. \A j, k \in 1..n : j < k => at[j] < at[k]
    BY <1>3
  <1> HIDE DEF at, n
  <1> QED
    BY <1>1, <1>3, <1>4, <1>5, <1>6 DEF Enumerates

\* In a sorted list of slots a phase occupies indices without gaps.
LEMMA PendingSuffix ==
    ASSUME TypeOK, Sorted
    PROVE  \E a \in 1..(Len(slots) + 1) : {k \in DOMAIN slots : slots[k].phase = "pending"} = a..Len(slots)
  <1> DEFINE P == {k \in DOMAIN slots : slots[k].phase = "pending"}
  <1>1. CASE P = {}
    <2>1. P = (Len(slots) + 1)..Len(slots)
      BY <1>1, Types
    <2>2. Len(slots) + 1 \in 1..(Len(slots) + 1)
      BY Types
    <2> QED
      BY <2>1, <2>2
  <1>2. CASE P # {}
    <2>0. P \in SUBSET Nat
      BY Types
    <2>1. PICK a \in P : \A b \in P : a <= b
      <3> HIDE DEF P
      <3> QED
        BY <1>2, <2>0, LeastElement
    <2>2. \A k \in DOMAIN slots : k \in P <=> a <= k
      BY <2>1, Types DEF Sorted
    <2>3. P = a..Len(slots)
      BY <2>1, <2>2, Types
    <2> QED
      BY <2>1, <2>3, Types
  <1> QED
    BY <1>1, <1>2

\* The slots that project are a range of indices: delivered ones precede them, pending
\* ones follow.
LEMMA ProjectingRun ==
    ASSUME TypeOK, Sorted
    PROVE  \E a \in Nat \ {0} : \E b \in 0..Len(slots) :
              {k \in DOMAIN slots : slots[k].phase = "projecting"} = a..b
  <1> DEFINE P == {k \in DOMAIN slots : slots[k].phase = "projecting"}
  <1>1. PICK c \in 1..(Len(slots) + 1) :
          {k \in DOMAIN slots : slots[k].phase = "pending"} = c..Len(slots)
    BY PendingSuffix
  <1>2. CASE P = {}
    <2>1. P = 1..0
      BY <1>2
    <2> QED
      BY <2>1, Types
  <1>3. CASE P # {}
    <2>0. P \in SUBSET Nat
      BY Types
    <2>1. PICK a \in P : \A b \in P : a <= b
      <3> HIDE DEF P
      <3> QED
        BY <1>3, <2>0, LeastElement
    <2>2. \A k \in DOMAIN slots : k \in P <=> a <= k /\ k < c
      <3>1. \A k \in DOMAIN slots : slots[k].phase = "pending" <=> c <= k
        BY <1>1, Types
      <3>2. \A k \in DOMAIN slots : slots[k].phase \in {"delivered", "projecting", "pending"}
        BY Types DEF Slot
      <3> QED
        BY <2>1, <3>1, <3>2, Types DEF Sorted
    <2>3. P = a..(c - 1)
      BY <1>1, <2>1, <2>2, Types
    <2>4. a \in Nat \ {0} /\ c - 1 \in 0..Len(slots)
      BY <1>1, <2>1, Types
    <2> QED
      BY <2>3, <2>4
  <1> QED
    BY <1>2, <1>3

\* What a selection without gaps holds: the selected slots, each once.
Selects(s, T) ==
    /\ s \in Seq(Slot) /\ Len(s) \in Nat /\ DOMAIN s = 1..Len(s)
    /\ \A k \in DOMAIN s : \E j \in T : s[k] = slots[j]
    /\ \A j \in T : \E k \in DOMAIN s : s[k] = slots[j]
    /\ \A j, k \in DOMAIN s : s[j].id = s[k].id => j = k

\* The slots at a range of indices: each of them, and each once.
LEMMA InOrderSelects ==
    ASSUME TypeOK, Once, NEW a \in Nat \ {0}, NEW b \in 0..Len(slots), NEW T, T = a..b
    PROVE  Selects(InOrder(T), T)
  <1>0. \E n \in Nat : \E at : Enumerates(at, n, T)
    BY InOrderFacts
  <1>a. PICK n \in Nat : \E at : Enumerates(at, n, T)
    BY <1>0
  <1>1. PICK at : Enumerates(at, n, T)
    BY <1>a
  <1> DEFINE s == InOrder(T)
  <1>2. T \subseteq DOMAIN slots /\ T \subseteq Nat
    BY Types
  <1>3. s \in [1..n -> Slot]
    BY <1>1, <1>2, Types DEF Enumerates
  <1>4. s \in Seq(Slot) /\ Len(s) = n /\ DOMAIN s = 1..n
    BY <1>3
  <1>b. \A k \in 1..n : at[k] \in T /\ s[k] = slots[at[k]]
    BY <1>1 DEF Enumerates
  <1>c. \A j \in T : \E k \in 1..n : at[k] = j
    BY <1>1 DEF Enumerates
  <1> HIDE DEF s
  <1>5. \A k \in 1..n : \E j \in T : s[k] = slots[j]
    BY <1>b
  <1>d. \A j \in T : \E k \in 1..n : s[k] = slots[j]
    BY <1>b, <1>c
  <1>6. ASSUME NEW j \in 1..n, NEW k \in 1..n, s[j].id = s[k].id PROVE j = k
    <2>1. at[j] = at[k]
      BY <1>b, <1>2, <1>6 DEF Once
    <2>2. at[j] \in Nat /\ at[k] \in Nat
      BY <1>1, <1>2 DEF Enumerates
    <2>3. (j < k => at[j] < at[k]) /\ (k < j => at[k] < at[j])
      BY <1>1 DEF Enumerates
    <2> QED
      BY <2>1, <2>2, <2>3
  <1>7. Selects(s, T)
    BY <1>4, <1>5, <1>d, <1>6 DEF Selects
  <1> QED
    BY <1>7 DEF s

\* Selecting nothing gives the empty list.
LEMMA InOrderNothing ==
    ASSUME TypeOK, Once PROVE InOrder({}) = <<>>
  <1>1. Selects(InOrder({}), {})
    <2>1. {} = 1..0 /\ 1 \in Nat \ {0} /\ 0 \in 0..Len(slots)
      BY Types
    <2> QED
      BY <2>1, InOrderSelects
  <1>2. DOMAIN InOrder({}) = {}
    BY <1>1 DEF Selects
  <1> QED
    BY <1>1, <1>2 DEF Selects

\* The batch of a drain: the projecting slots, each once.
LEMMA BatchFacts ==
    ASSUME TypeOK, Once, Bound, Sorted
    PROVE  /\ Selects(Batch, {k \in DOMAIN slots : slots[k].phase = "projecting"})
           /\ Selects(InPhase("pending", running_task),
                      {k \in DOMAIN slots : slots[k].phase = "pending"})
  <1>1. /\ {k \in DOMAIN slots : slots[k].phase = "projecting" /\ slots[k].turn = running_task}
            = {k \in DOMAIN slots : slots[k].phase = "projecting"}
        /\ {k \in DOMAIN slots : slots[k].phase = "pending" /\ slots[k].turn = running_task}
            = {k \in DOMAIN slots : slots[k].phase = "pending"}
    BY DEF Bound
  <1>2. Selects(Batch, {k \in DOMAIN slots : slots[k].phase = "projecting"})
    BY <1>1, ProjectingRun, InOrderSelects DEF Batch, InPhase
  <1>3. Selects(InPhase("pending", running_task),
                {k \in DOMAIN slots : slots[k].phase = "pending"})
    <2>1. PICK a \in 1..(Len(slots) + 1) :
            {k \in DOMAIN slots : slots[k].phase = "pending"} = a..Len(slots)
      BY PendingSuffix
    <2>2. a \in Nat \ {0} /\ Len(slots) \in 0..Len(slots)
      BY Types
    <2> QED
      BY <1>1, <2>1, <2>2, InOrderSelects DEF InPhase
  <1> QED
    BY <1>2, <1>3

\* The rows that the pending slots of an ended turn become: each once.
FallsTo(rows, cause) ==
    /\ rows \in Seq(Inputs) /\ Len(rows) \in Nat /\ DOMAIN rows = 1..Len(rows)
    /\ \A k \in DOMAIN rows : \E j \in DOMAIN slots : Returned(j, cause) /\ rows[k] = slots[j].id
    /\ \A j \in DOMAIN slots : Returned(j, cause) => \E k \in DOMAIN rows : rows[k] = slots[j].id
    /\ \A j, k \in DOMAIN rows : rows[j] = rows[k] => j = k

\* Ending the running turn, or all of them, leaves no slot: each is answered or
\* becomes a row.
LEMMA TerminalFacts ==
    ASSUME TypeOK, Once, Bound, Sorted, NEW target, NEW cause,
           target \in {All, running_task} \/ DOMAIN slots = {}
    PROVE  /\ Kept(target) = <<>>
           /\ \A i : i \in Completions(target, cause)
                       <=> \E k \in DOMAIN slots : slots[k].id = i /\ ~Returned(k, cause)
           /\ FallsTo(FallbackRows(target, cause), cause)
  <1>1. \A k \in DOMAIN slots : Targeted(slots[k], target)
    BY DEF Bound, Targeted
  <1>2. Kept(target) = <<>>
    <2>1. {k \in DOMAIN slots : ~Targeted(slots[k], target)} = {}
      BY <1>1
    <2> QED
      BY <2>1, InOrderNothing DEF Kept
  <1>3. \A i : i \in Completions(target, cause)
                 <=> \E k \in DOMAIN slots : slots[k].id = i /\ ~Returned(k, cause)
    BY <1>1 DEF Completions
  <1> DEFINE T == {k \in DOMAIN slots : Returned(k, cause)}
             F == Fallbacks(target, cause)
  <1>4. Selects(F, T)
    <2>1. {k \in DOMAIN slots : Targeted(slots[k], target) /\ Returned(k, cause)} = T
      BY <1>1
    <2>2. \E a \in Nat \ {0} : \E b \in 0..Len(slots) : T = a..b
      <3>1. CASE FallsBack(cause)
        <4>1. T = {k \in DOMAIN slots : slots[k].phase = "pending"}
          BY <3>1 DEF Returned
        <4>2. PICK a \in 1..(Len(slots) + 1) :
                {k \in DOMAIN slots : slots[k].phase = "pending"} = a..Len(slots)
          BY PendingSuffix
        <4>3. a \in Nat \ {0} /\ Len(slots) \in 0..Len(slots)
          BY Types
        <4> QED
          BY <4>1, <4>2, <4>3
      <3>2. CASE ~FallsBack(cause)
        <4>1. T = 1..0
          BY <3>2 DEF Returned
        <4> QED
          BY <4>1, Types
      <3> QED
        BY <3>1, <3>2
    <2> HIDE DEF T
    <2>3. Selects(InOrder(T), T)
      BY <2>2, InOrderSelects
    <2> QED
      BY <2>1, <2>3 DEF Fallbacks
  <1> DEFINE rows == FallbackRows(target, cause)
  <1>5. rows = [k \in 1..Len(F) |-> F[k].id] /\ Len(F) \in Nat
    BY <1>4 DEF FallbackRows, Selects
  <1> HIDE DEF F
  <1>a. \A k \in 1..Len(F) : F[k].id \in Inputs
    <2>1. \A k \in 1..Len(F) : F[k] \in Slot
      BY <1>4 DEF Selects
    <2> QED
      BY <2>1 DEF Slot, Inputs
  <1>6. rows \in [1..Len(F) -> Inputs]
    BY <1>a, <1>5
  <1>7. rows \in Seq(Inputs) /\ Len(rows) = Len(F) /\ DOMAIN rows = 1..Len(rows)
    BY <1>5, <1>6
  <1>8. \A k \in 1..Len(F) : rows[k] = F[k].id
    BY <1>5
  <1> HIDE DEF rows
  <1>9. FallsTo(rows, cause)
    BY <1>4, <1>5, <1>7, <1>8 DEF Selects, FallsTo
  <1> QED
    BY <1>2, <1>3, <1>9 DEF rows

\* The queue without its front row and with rows appended
LEMMA TailConcat ==
    ASSUME NEW s \in Seq(Inputs), s # <<>>, NEW t \in Seq(Inputs)
    PROVE  /\ Tail(s) \o t \in Seq(Inputs) /\ Len(s) \in Nat \ {0} /\ Len(t) \in Nat
           /\ Head(s) = s[1]
           /\ Len(Tail(s) \o t) = Len(s) - 1 + Len(t)
           /\ \A k \in 1..(Len(s) - 1) : (Tail(s) \o t)[k] = s[k + 1]
           /\ \A k \in 1..Len(t) : (Tail(s) \o t)[Len(s) - 1 + k] = t[k]
  <1>1. Len(s) \in Nat \ {0} /\ Len(t) \in Nat /\ Tail(s) \in Seq(Inputs) /\ Len(Tail(s)) = Len(s) - 1
    OBVIOUS
  <1>2. \A k \in 1..(Len(s) - 1) : Tail(s)[k] = s[k + 1]
    OBVIOUS
  <1>3. Tail(s) \o t \in Seq(Inputs) /\ Len(Tail(s) \o t) = Len(s) - 1 + Len(t)
    BY <1>1
  <1>4. \A k \in 1..(Len(s) - 1) : (Tail(s) \o t)[k] = s[k + 1]
    BY <1>1, <1>2
  <1>5. \A k \in 1..Len(t) : (Tail(s) \o t)[Len(s) - 1 + k] = t[k]
    BY <1>1
  <1> QED
    BY <1>1, <1>3, <1>4, <1>5

\* What the queue holds once the front row is gone and the pending slots have
\* become rows: each input once, none of them pushed.
LEMMA RowsAfter ==
    ASSUME IInv, pending_inputs # <<>>, NEW cause, NEW fall, FallsTo(fall, cause),
           NEW rows, rows = Tail(pending_inputs) \o fall
    PROVE  /\ rows \in Seq(Inputs)
           /\ \A j, k \in DOMAIN rows : rows[j] = rows[k] => j = k
           /\ \A i \in Inputs : i \in Range(rows) <=>
                 \/ i \in Range(pending_inputs) /\ i # pending_inputs[1]
                 \/ \E k \in DOMAIN slots : slots[k].id = i /\ Returned(k, cause)
           /\ \A k \in DOMAIN rows : pushes[rows[k]] = 0
  <1> DEFINE n == Len(pending_inputs)
             m == Len(fall)
  <1>1. /\ pending_inputs \in Seq(Inputs) /\ fall \in Seq(Inputs) /\ n \in Nat \ {0} /\ m \in Nat
        /\ rows \in Seq(Inputs) /\ Len(rows) = n - 1 + m /\ DOMAIN rows = 1..(n - 1 + m)
        /\ \A k \in 1..(n - 1) : rows[k] = pending_inputs[k + 1]
        /\ \A k \in 1..m : rows[n - 1 + k] = fall[k]
        /\ DOMAIN pending_inputs = 1..n /\ DOMAIN fall = 1..m
    BY Types, TailConcat DEF IInv, FallsTo
  <1>2. \A k \in DOMAIN rows : \/ k \in 1..(n - 1) /\ k + 1 \in DOMAIN pending_inputs /\ k + 1 # 1
                               \/ k - n + 1 \in 1..m /\ rows[k] = fall[k - n + 1]
    <2>1. \A k \in DOMAIN rows : k \in 1..(n - 1) \/ (k - n + 1 \in 1..m /\ k = n - 1 + (k - n + 1))
      BY <1>1
    <2> QED
      BY <1>1, <2>1
  <1>3. \A k \in 1..m : \E j \in DOMAIN slots : Returned(j, cause) /\ fall[k] = slots[j].id
    BY <1>1 DEF FallsTo
  <1>a. \A k \in 1..(n - 1) : k + 1 \in DOMAIN pending_inputs /\ rows[k] = pending_inputs[k + 1]
    BY <1>1
  <1>b. \A j, k \in 1..m : fall[j] = fall[k] => j = k
    BY <1>1 DEF FallsTo
  <1> HIDE DEF n, m
  <1>4. ASSUME NEW j \in DOMAIN rows, NEW k \in DOMAIN rows, rows[j] = rows[k] PROVE j = k
    <2>1. CASE j \in 1..(n - 1) /\ k \in 1..(n - 1)
      <3>1. j + 1 = k + 1
        BY <1>1, <1>2, <1>4, <2>1 DEF IInv, Once
      <3> QED
        BY <1>1, <3>1
    <2>2. CASE j \in 1..(n - 1) /\ k - n + 1 \in 1..m /\ rows[k] = fall[k - n + 1]
      <3>1. PICK x \in DOMAIN slots : fall[k - n + 1] = slots[x].id
        BY <1>3, <2>2
      <3>2. j + 1 \in DOMAIN pending_inputs /\ rows[j] = pending_inputs[j + 1]
        BY <1>a, <2>2
      <3> QED
        BY <1>4, <2>2, <3>1, <3>2 DEF IInv, Once
    <2>3. CASE k \in 1..(n - 1) /\ j - n + 1 \in 1..m /\ rows[j] = fall[j - n + 1]
      <3>1. PICK x \in DOMAIN slots : fall[j - n + 1] = slots[x].id
        BY <1>3, <2>3
      <3>2. k + 1 \in DOMAIN pending_inputs /\ rows[k] = pending_inputs[k + 1]
        BY <1>a, <2>3
      <3> QED
        BY <1>4, <2>3, <3>1, <3>2 DEF IInv, Once
    <2>4. CASE /\ j - n + 1 \in 1..m /\ rows[j] = fall[j - n + 1]
               /\ k - n + 1 \in 1..m /\ rows[k] = fall[k - n + 1]
      <3>1. j - n + 1 = k - n + 1
        BY <1>4, <1>b, <2>4
      <3> QED
        BY <1>1, <3>1
    <2> QED
      BY <1>2, <2>1, <2>2, <2>3, <2>4
  <1>5. ASSUME NEW i \in Range(rows)
        PROVE  \/ i \in Range(pending_inputs) /\ i # pending_inputs[1]
               \/ \E k \in DOMAIN slots : slots[k].id = i /\ Returned(k, cause)
    <2>1. PICK k \in DOMAIN rows : rows[k] = i
      BY <1>5 DEF Range
    <2>2. CASE k \in 1..(n - 1)
      <3>1. i = pending_inputs[k + 1] /\ k + 1 \in DOMAIN pending_inputs /\ k + 1 # 1
            /\ 1 \in DOMAIN pending_inputs
        BY <1>1, <2>1, <2>2
      <3> QED
        BY <3>1 DEF IInv, Once, Range
    <2>3. CASE k - n + 1 \in 1..m /\ rows[k] = fall[k - n + 1]
      BY <1>3, <2>1, <2>3
    <2> QED
      BY <1>2, <2>2, <2>3
  <1>6. ASSUME NEW i \in Inputs, i \in Range(pending_inputs), i # pending_inputs[1]
        PROVE  i \in Range(rows)
    <2>1. PICK k \in 1..n : i = pending_inputs[k] /\ k # 1
      BY <1>1, <1>6 DEF Range
    <2>2. k - 1 \in 1..(n - 1) /\ k - 1 \in DOMAIN rows /\ (k - 1) + 1 = k
      BY <1>1, <2>1
    <2>3. rows[k - 1] = i
      BY <1>1, <2>1, <2>2
    <2> QED
      BY <2>2, <2>3 DEF Range
  <1>7. ASSUME NEW j \in DOMAIN slots, Returned(j, cause) PROVE slots[j].id \in Range(rows)
    <2>1. PICK k \in 1..m : fall[k] = slots[j].id
      BY <1>1, <1>7 DEF FallsTo
    <2>2. n - 1 + k \in DOMAIN rows /\ rows[n - 1 + k] = slots[j].id
      BY <1>1, <2>1
    <2> QED
      BY <2>2 DEF Range
  <1>8. ASSUME NEW k \in DOMAIN rows PROVE pushes[rows[k]] = 0
    <2>1. CASE k \in 1..(n - 1)
      <3>1. k + 1 \in DOMAIN pending_inputs /\ k + 1 > 1 /\ rows[k] = pending_inputs[k + 1]
        BY <1>1, <2>1
      <3> QED
        BY <3>1 DEF IInv, Pushes
    <2>2. CASE k - n + 1 \in 1..m /\ rows[k] = fall[k - n + 1]
      <3>1. PICK x \in DOMAIN slots : Returned(x, cause) /\ fall[k - n + 1] = slots[x].id
        BY <1>3, <2>2
      <3>2. slots[x].phase = "pending"
        BY <3>1 DEF Returned
      <3> QED
        BY <2>2, <3>1, <3>2 DEF IInv, Pushes
    <2> QED
      BY <1>2, <2>1, <2>2
  <1> QED
    BY <1>1, <1>4, <1>5, <1>6, <1>7, <1>8

----------------------------------------------------------------------------
\* The handlers that end a turn

Answers == {"rewound", "ok", "error", "cancelled"}

\* Answering a set of senders
LEMMA ToldFacts ==
    ASSUME TypeOK, NEW S, NEW result \in Answers \cup {"waiting"}
    PROVE  /\ Told(S, result) \in [Inputs -> {"none", "waiting", "rewound"} \cup Results]
           /\ \A i \in Inputs : Told(S, result)[i] = IF i \in S THEN result ELSE receipt[i]
  BY DEF Told, TypeOK, Answers, Results

\* The queue and the turn are well formed and agree.
Settles ==
    /\ pending_inputs \in Seq(Inputs) /\ epoch \in Nat /\ rewindable \in BOOLEAN
    /\ running_task \in Turn \cup {NoTurn} /\ task \in Stages \cup {"none"}
    /\ slots \in Seq(Slot)
    /\ Once /\ Waiting /\ Apart /\ Bound /\ Sorted /\ FrontRow /\ Pushes /\ Drained /\ Reports

\* The queue becomes `rows`, of which the first may be promoted.
Requeues(rows) ==
    /\ pending_inputs' = rows
    /\ \/ /\ rows # <<>> /\ task' = "starting" /\ rewindable' = TRUE
          /\ epoch' = epoch + 1 /\ running_task' = [input |-> rows[1], epoch |-> epoch + 1]
       \/ /\ running_task' = NoTurn /\ task' = "none" /\ epoch' = epoch
          /\ rewindable' \in {rewindable, FALSE}

\* What maybe_start_running_task does once no turn runs
LEMMA Promoted ==
    ASSUME NEW rows \in Seq(Inputs), Promote(rows, NoTurn, "none")
    PROVE  Requeues(rows)
  <1>1. rows # <<>> => Head(rows) = rows[1]
    OBVIOUS
  <1> QED
    BY <1>1 DEF Promote, Requeues

\* A turn ends with its slots, and the first of the rows that are left may be promoted.
LEMMA Turnover ==
    ASSUME IInv, NEW rows \in Seq(Inputs), Requeues(rows), slots' = <<>>,
           \A j, k \in DOMAIN rows : rows[j] = rows[k] => j = k,
           \A k \in DOMAIN rows : pushes[rows[k]] = 0,
           \A i \in Inputs : receipt'[i] = "waiting" <=> i \in Range(rows) \/ i \in Claimed',
           \A i \in Claimed' : i \notin Range(rows),
           \A i \in Inputs : receipt'[i] = "none" => receipt[i] = "none",
           \A k \in DOMAIN reports' : \E j \in DOMAIN reports : reports'[k] = reports[j],
           pushes' = pushes, undelivered' = undelivered
    PROVE  Settles'
  <1> DEFINE starts == task' = "starting"
  <1>1. /\ pending_inputs' = rows /\ (starts => rows # <<>>)
        /\ IF starts
           THEN /\ epoch' = epoch + 1 /\ running_task' = [input |-> rows[1], epoch |-> epoch + 1]
                /\ task' = "starting"
           ELSE running_task' = NoTurn /\ task' = "none" /\ epoch' = epoch
    BY DEF Requeues
  <1>2. epoch \in Nat /\ pushes' = pushes /\ undelivered' = undelivered
    BY DEF IInv, TypeOK
  <1>3. slots' \in Seq(Slot) /\ DOMAIN slots' = {} /\ Ids(slots)' = {}
    BY DEF Ids
  <1>4. /\ epoch' \in Nat /\ epoch <= epoch' /\ rewindable' \in BOOLEAN
        /\ running_task' \in Turn \cup {NoTurn} /\ task' \in Stages \cup {"none"}
    <2>1. rows # <<>> => rows[1] \in Inputs
      OBVIOUS
    <2>2. rows # <<>> => [input |-> rows[1], epoch |-> epoch + 1] \in Turn
      BY <1>2, <2>1 DEF Turn
    <2>3. epoch' \in Nat /\ epoch <= epoch' /\ task' \in Stages \cup {"none"}
      BY <1>1, <1>2 DEF Stages
    <2>4. running_task' \in Turn \cup {NoTurn}
      BY <1>1, <2>2
    <2>5. rewindable' \in BOOLEAN
      BY DEF Requeues, IInv, TypeOK
    <2> QED
      BY <2>3, <2>4, <2>5
  <1>5. Once' /\ Bound' /\ Sorted'
    BY <1>1, <1>3 DEF Once, Bound, Sorted
  <1>6. Waiting' /\ Apart'
    <2>1. Range(pending_inputs)' = Range(rows)
      BY <1>1 DEF Range
    <2>2. Waiting'
      BY <1>3, <2>1 DEF Waiting
    <2>3. Apart'
      BY <1>3, <2>1 DEF Apart
    <2> QED
      BY <2>2, <2>3
  <1>7. FrontRow'
    <2>1. rows # <<>> => [input |-> rows[1], epoch |-> epoch + 1] # NoTurn
      <3>1. rows # <<>> => rows[1] \in Inputs
        OBVIOUS
      <3> QED
        BY <3>1, DeliveryAssumption DEF NoTurn
    <2> QED
      BY <1>1, <1>2, <2>1 DEF FrontRow
  <1>8. Pushes'
    BY <1>1, <1>2, <1>3 DEF Pushes, Before, IInv
  <1>9. Drained'
    BY <1>1, <1>3 DEF Drained
  <1>10. Reports'
    <2> SUFFICES ASSUME NEW k \in DOMAIN reports'
                 PROVE  reports'[k].turn.epoch <= epoch' /\ reports'[k].turn # running_task'
      BY DEF Reports
    <2>1. PICK j \in DOMAIN reports : reports'[k] = reports[j]
      OBVIOUS
    <2>2. reports[j].turn.epoch <= epoch
      BY DEF IInv, Reports
    <2>3. reports[j].turn.epoch \in Nat /\ reports[j].turn.input \in Inputs
      <3>1. reports[j] \in Report
        BY Types DEF IInv
      <3> QED
        BY <3>1 DEF Report, Turn
    <2>4. reports[j].turn # NoTurn
      BY <2>3, DeliveryAssumption DEF NoTurn
    <2>5. starts => reports[j].turn.epoch # epoch + 1
      BY <1>2, <2>2, <2>3
    <2> QED
      BY <1>1, <1>2, <1>4, <2>1, <2>2, <2>3, <2>4, <2>5
  <1> QED
    BY <1>1, <1>3, <1>4, <1>5, <1>6, <1>7, <1>8, <1>9, <1>10 DEF Settles

\* While no rewind is in progress nothing is claimed.
LEMMA NoClaim ==
    /\ rewinding = NoRewind => \A i \in Inputs : i \notin Claimed
    /\ rewinding' = NoRewind => \A i \in Inputs : i \notin Claimed'
  BY DeliveryAssumption DEF Claimed, NoRewind

\* The senders that are answered when a turn ends: that of the front row and
\* those of the slots that do not become rows.
LEMMA EndsTurn ==
    ASSUME IInv, pending_inputs # <<>>, NEW target \in {All, running_task}, NEW cause,
           NEW result \in Answers,
           receipt' = Told({Head(pending_inputs)} \cup Completions(target, cause), result),
           slots' = Kept(target),
           Promote(Tail(pending_inputs) \o FallbackRows(target, cause), NoTurn, "none"),
           \A k \in DOMAIN reports' : \E j \in DOMAIN reports : reports'[k] = reports[j],
           rewinding = NoRewind, UNCHANGED <<rewinding, history>>
    PROVE  /\ Settles'
           /\ receipt' \in [Inputs -> {"none", "waiting", "rewound"} \cup Results]
           /\ \A i \in Inputs : receipt'[i] \in {result, receipt[i]}
           /\ \A i \in Inputs : receipt'[i] # receipt[i] =>
                 \/ i = pending_inputs[1]
                 \/ \E k \in DOMAIN slots : slots[k].id = i /\ ~Returned(k, cause)
  <1> DEFINE rows == Tail(pending_inputs) \o FallbackRows(target, cause)
             ended == {Head(pending_inputs)} \cup Completions(target, cause)
  <1>1. TypeOK /\ Once /\ Bound /\ Sorted /\ Waiting
    BY DEF IInv
  <1>2. /\ slots' = <<>> /\ FallsTo(FallbackRows(target, cause), cause)
        /\ \A i : i \in Completions(target, cause)
                    <=> \E k \in DOMAIN slots : slots[k].id = i /\ ~Returned(k, cause)
    BY <1>1, TerminalFacts
  <1>3. /\ rows \in Seq(Inputs)
        /\ \A j, k \in DOMAIN rows : rows[j] = rows[k] => j = k
        /\ \A i \in Inputs : i \in Range(rows) <=>
              \/ i \in Range(pending_inputs) /\ i # pending_inputs[1]
              \/ \E k \in DOMAIN slots : slots[k].id = i /\ Returned(k, cause)
        /\ \A k \in DOMAIN rows : pushes[rows[k]] = 0
    BY <1>2, RowsAfter
  <1>4. /\ receipt' \in [Inputs -> {"none", "waiting", "rewound"} \cup Results]
        /\ \A i \in Inputs : receipt'[i] = IF i \in ended THEN result ELSE receipt[i]
    BY <1>1, ToldFacts
  <1>5. Head(pending_inputs) = pending_inputs[1] /\ 1 \in DOMAIN pending_inputs
        /\ pending_inputs[1] \in Inputs
    BY <1>1, Types
  <1> HIDE DEF rows
  <1>a. \A i \in Inputs : i \notin Claimed /\ i \notin Claimed'
    BY NoClaim
  <1>6. ASSUME NEW i \in Inputs PROVE receipt'[i] = "waiting" <=> i \in Range(rows)
    <2>1. receipt'[i] = "waiting" <=> receipt[i] = "waiting" /\ i \notin ended
      BY <1>4 DEF Answers
    <2>2. i \in ended <=> \/ i = pending_inputs[1]
                          \/ \E k \in DOMAIN slots : slots[k].id = i /\ ~Returned(k, cause)
      BY <1>2, <1>5
    <2> HIDE DEF ended
    <2>3. receipt[i] = "waiting" <=> \/ i \in Range(pending_inputs)
                                     \/ \E k \in DOMAIN slots : slots[k].id = i
      BY <1>1, <1>a DEF Waiting, Ids
    <2>4. \A j, k \in DOMAIN slots : slots[j].id = i /\ slots[k].id = i => j = k
      BY <1>1 DEF Once
    <2>5. \A k \in DOMAIN slots : slots[k].id = i => i \notin Range(pending_inputs)
      BY <1>1 DEF Once, Range
    <2>6. pending_inputs[1] \in Range(pending_inputs)
      BY <1>5 DEF Range
    <2> QED
      BY <1>3, <2>1, <2>2, <2>3, <2>4, <2>5, <2>6
  <1>7. \A i \in Inputs : receipt'[i] = "none" => receipt[i] = "none"
    BY <1>4 DEF Answers
  <1>8. Requeues(rows)
    BY <1>3, Promoted DEF rows
  <1>9. Settles'
    <2>1. \A i \in Inputs : receipt'[i] = "waiting" <=> i \in Range(rows) \/ i \in Claimed'
      BY <1>6, <1>a
    <2>2. \A i \in Claimed' : i \notin Range(rows)
      <3>1. \A i \in Range(rows) : i \in Inputs
        BY <1>3 DEF Range
      <3> QED
        BY <1>a, <3>1
    <2>3. pushes' = pushes /\ undelivered' = undelivered
      BY DEF history
    <2> QED
      BY <1>2, <1>3, <1>7, <1>8, <2>1, <2>2, <2>3, Turnover
  <1>10. \A i \in Inputs : /\ receipt'[i] \in {result, receipt[i]}
                           /\ receipt'[i] # receipt[i] =>
                                \/ i = pending_inputs[1]
                                \/ \E k \in DOMAIN slots : slots[k].id = i /\ ~Returned(k, cause)
    BY <1>2, <1>4, <1>5
  <1> QED
    BY <1>4, <1>9, <1>10

\* A rewind leaves a prefix of the conversation, up to the first marker that is not
\* below its target.
LEMMA CutFacts ==
    ASSUME TypeOK, NEW target \in Int
    PROVE  /\ CutAt(target) \in Seq([input : Inputs, marker : Int])
           /\ \E n \in 0..Len(conversation) :
                 /\ Len(CutAt(target)) = n
                 /\ \A k \in 1..n : /\ CutAt(target)[k] = conversation[k]
                                    /\ conversation[k].marker < target
                 /\ n < Len(conversation) => conversation[n + 1].marker >= target
  <1> DEFINE C == [input : Inputs, marker : Int]
             I == {i \in 1..Len(conversation) : conversation[i].marker >= target}
             first == SelectInSeq(conversation, LAMBDA c : c.marker >= target)
  <1>1. first = IF I # {} THEN Min(I) ELSE 0
    BY DEF SelectInSeq
  <1>2. /\ conversation \in Seq(C) /\ Len(conversation) \in Nat
        /\ \A k \in 1..Len(conversation) : conversation[k].marker \in Int
    <2>1. conversation \in Seq(C)
      BY DEF TypeOK
    <2>2. \A k \in 1..Len(conversation) : conversation[k] \in C
      <3> HIDE DEF C
      <3> QED
        BY <2>1
    <2> QED
      BY <2>1, <2>2
  <1>3. I \in SUBSET Nat
    BY <1>2
  <1>4. CutAt(target) = IF first = 0 THEN conversation ELSE SubSeq(conversation, 1, first - 1)
    BY DEF CutAt
  <1>5. CASE I = {}
    <2>1. CutAt(target) = conversation
      BY <1>1, <1>4, <1>5
    <2>2. \A k \in 1..Len(conversation) : conversation[k].marker < target
      BY <1>2, <1>5
    <2>3. Len(conversation) \in 0..Len(conversation) /\ ~(Len(conversation) < Len(conversation))
      BY <1>2
    <2> QED
      BY <1>2, <2>1, <2>2, <2>3
  <1>6. CASE I # {}
    <2>1. PICK a \in I : \A b \in I : a <= b
      <3> HIDE DEF I
      <3> QED
        BY <1>3, <1>6, LeastElement
    <2>2. Min(I) \in I /\ \A b \in I : Min(I) <= b
      BY <2>1 DEF Min
    <2>3. first \in 1..Len(conversation) /\ conversation[first].marker >= target
      BY <1>1, <1>6, <2>2
    <2>4. \A k \in 1..(first - 1) : conversation[k].marker < target
      <3> SUFFICES ASSUME NEW k \in 1..(first - 1) PROVE conversation[k].marker < target
        OBVIOUS
      <3>1. first = Min(I)
        BY <1>1, <1>6
      <3> HIDE DEF first
      <3>2. k \in 1..Len(conversation) /\ ~(first <= k)
        BY <1>2, <2>3
      <3>3. k \notin I
        BY <2>2, <3>1, <3>2
      <3> QED
        BY <1>2, <3>2, <3>3
    <2> HIDE DEF first, C
    <2>5. CutAt(target) = SubSeq(conversation, 1, first - 1) /\ first - 1 \in 0..Len(conversation)
      BY <1>2, <1>4, <2>3
    <2>6. /\ CutAt(target) \in Seq(C) /\ Len(CutAt(target)) = first - 1
          /\ \A k \in 1..(first - 1) : CutAt(target)[k] = conversation[k]
      BY <1>2, <2>3, <2>5
    <2>7. conversation[(first - 1) + 1].marker >= target
      BY <1>2, <2>3
    <2>8. \E n \in 0..Len(conversation) :
             /\ Len(CutAt(target)) = n
             /\ \A k \in 1..n : CutAt(target)[k] = conversation[k] /\ conversation[k].marker < target
             /\ n < Len(conversation) => conversation[n + 1].marker >= target
      BY <2>4, <2>5, <2>6, <2>7
    <2> QED
      BY <2>6, <2>8 DEF C
  <1> QED
    BY <1>5, <1>6

\* A completion answers the turn's row and drained slots with the reported result; the
\* claim and Reports make an ok result mean that its prompt was pushed.
LEMMA CompletionIInv ==
    ASSUME IInv, Completion PROVE IInv'
  <1> DEFINE turn == Head(reports).turn
  <1>1. /\ reports # <<>> /\ reports' = Tail(reports) /\ Claims(turn)
        /\ receipt' = Told({Head(pending_inputs)} \cup Completions(turn, "Completion"),
                           Head(reports).result)
        /\ slots' = Kept(turn)
        /\ loop' = loop /\ held' = held /\ mailboxes' = mailboxes
        /\ turn_index' = turn_index /\ mcp_waits' = mcp_waits
        /\ rewinding = NoRewind /\ rewinding' = rewinding
        /\ prompt_index' = prompt_index /\ conversation' = conversation
        /\ UNCHANGED history
        /\ Promote(Tail(pending_inputs) \o FallbackRows(turn, "Completion"), NoTurn, "none")
    BY DEF Completion, Free, chat
  <1>2. turn = running_task /\ pending_inputs # <<>>
    BY <1>1 DEF Claims
  <1>3. TypeOK /\ reports \in Seq(Report)
    BY Types DEF IInv
  <1>4. reports[1] \in Report /\ Head(reports) = reports[1] /\ 1 \in DOMAIN reports
    BY <1>1, <1>3
  <1>5. Head(reports).result \in Answers
    BY <1>4 DEF Report, Results, Answers
  <1>6. /\ reports' \in Seq(Report)
        /\ \A k \in DOMAIN reports' : \E j \in DOMAIN reports : reports'[k] = reports[j]
    <2>1. \A k \in DOMAIN reports' : k + 1 \in DOMAIN reports /\ reports'[k] = reports[k + 1]
      BY <1>1, <1>3
    <2> QED
      BY <1>1, <1>3, <2>1
  <1>7. /\ Settles'
        /\ receipt' \in [Inputs -> {"none", "waiting", "rewound"} \cup Results]
        /\ \A i \in Inputs : receipt'[i] # receipt[i] =>
              \/ i = pending_inputs[1]
              \/ \E k \in DOMAIN slots : slots[k].id = i /\ ~Returned(k, "Completion")
    <2> HIDE DEF turn
    <2> QED
      BY <1>1, <1>2, <1>5, <1>6, EndsTurn
  <1>8. TypeOK'
    BY <1>1, <1>3, <1>6, <1>7 DEF TypeOK, Settles, Slot, Turn, Report, Phases, history
  <1>9. ASSUME NEW m \in Messages, receipt'[m] = "ok" PROVE pushes'[m] = 1 \/ m \in undelivered'
    <2>0. m \in Inputs /\ pushes' = pushes /\ undelivered' = undelivered
      BY <1>1 DEF Inputs, history
    <2>1. CASE receipt[m] = "ok"
      BY <2>0, <2>1 DEF IInv, OkMeansDelivered
    <2>a. CASE receipt[m] # "ok"
      <3>1. Head(reports).result = "ok"
        <4>1. receipt'[m] \in {Head(reports).result, receipt[m]}
          BY <1>1, <1>3, <1>5, <2>0, ToldFacts
        <4> QED
          BY <1>9, <2>a, <4>1
      <3>2. task = "ended" /\ running_task # NoTurn
        <4>1. task = "ended"
          BY <1>2, <1>4 DEF IInv, Reports
        <4> QED
          BY <4>1 DEF IInv, FrontRow
      <3>3. CASE m = pending_inputs[1]
        <4>1. running_task.input = m
          BY <3>2, <3>3 DEF IInv, FrontRow
        <4> QED
          BY <1>2, <1>4, <2>0, <3>1, <4>1 DEF IInv, Reports, Reached
      <3>4. CASE \E k \in DOMAIN slots : slots[k].id = m /\ ~Returned(k, "Completion")
        <4>1. PICK k \in DOMAIN slots : slots[k].id = m /\ slots[k].phase # "pending"
          BY <3>4 DEF Returned, FallsBack
        <4>2. slots[k].phase \in {"delivered", "projecting"}
          BY <1>3, <4>1, Types DEF Slot
        <4>3. slots[k].phase = "projecting" => m \in undelivered
          BY <3>2, <4>1 DEF IInv, Drained
        <4>4. slots[k].phase = "delivered" => pushes[m] = 1
          BY <4>1 DEF IInv, Pushes
        <4> QED
          BY <2>0, <4>2, <4>3, <4>4
      <3> QED
        BY <1>7, <1>9, <2>0, <2>a, <3>3, <3>4
    <2> QED
      BY <2>1, <2>a
  <1> QED
    BY <1>7, <1>8, <1>9 DEF IInv, Settles, OkMeansDelivered

\* An answer other than ok adds no obligation.
LEMMA NotOk ==
    ASSUME OkMeansDelivered, pushes' = pushes, undelivered' = undelivered, NEW result \in {"rewound", "cancelled", "error", "waiting"},
           \A i \in Inputs : receipt'[i] \in {result, receipt[i]}
    PROVE  OkMeansDelivered'
  BY DEF OkMeansDelivered, Inputs

\* Slots are there only while a turn runs.
LEMMA NoTurnNoSlots ==
    ASSUME TypeOK, Bound, running_task = NoTurn PROVE DOMAIN slots = {}
  <1> SUFFICES ASSUME NEW k \in DOMAIN slots PROVE FALSE
    OBVIOUS
  <1>1. slots[k].turn \in Turn
    BY Types DEF Slot
  <1> QED
    BY <1>1, DeliveryAssumption DEF Bound, Turn, NoTurn

\* A soft cancel ends the running turn, or with none running finds no slots to end.
LEMMA SoftCancelIInv ==
    ASSUME IInv, SoftCancel PROVE IInv'
  <1> DEFINE fall == FallbackRows(CancelTarget, "SoftCancel")
             rows == pending_inputs \o fall
             ended == Completions(CancelTarget, "SoftCancel")
  <1>1. /\ receipt' = Told((IF rows = <<>> THEN {} ELSE {Head(rows)}) \cup ended, "cancelled")
        /\ slots' = Kept(CancelTarget)
        /\ loop' = loop /\ held' = held /\ mailboxes' = mailboxes /\ reports' = reports
        /\ turn_index' = turn_index /\ mcp_waits' = mcp_waits
        /\ rewinding = NoRewind /\ rewinding' = rewinding
        /\ prompt_index' = prompt_index /\ conversation' = conversation
        /\ UNCHANGED history
        /\ Promote(IF rows = <<>> THEN rows ELSE Tail(rows), NoTurn, "none")
    BY DEF SoftCancel, Free, chat, channels
  <1>2. TypeOK /\ Once /\ Bound /\ Sorted /\ OkMeansDelivered
    BY DEF IInv
  <1>3. CancelTarget \in {All, running_task} /\ "cancelled" \in Answers
    BY DEF CancelTarget, Answers
  <1>4. /\ slots' = <<>> /\ FallsTo(fall, "SoftCancel")
        /\ \A i : i \in ended
                    <=> \E k \in DOMAIN slots : slots[k].id = i /\ ~Returned(k, "SoftCancel")
    BY <1>1, <1>2, <1>3, TerminalFacts
  <1>5. pending_inputs \in Seq(Inputs) /\ fall \in Seq(Inputs)
    BY <1>2, <1>4, Types DEF FallsTo
  <1>6. \A k \in DOMAIN reports' : \E j \in DOMAIN reports : reports'[k] = reports[j]
    BY <1>1
  <1> HIDE DEF fall
  <1>7. /\ Settles'
        /\ receipt' \in [Inputs -> {"none", "waiting", "rewound"} \cup Results]
        /\ \A i \in Inputs : receipt'[i] \in {"cancelled", receipt[i]}
    <2>1. CASE pending_inputs # <<>>
      <3>1. rows # <<>> /\ Head(rows) = Head(pending_inputs) /\ Tail(rows) = Tail(pending_inputs) \o fall
        BY <1>5, <2>1
      <3>2. /\ receipt' = Told({Head(pending_inputs)} \cup ended, "cancelled")
            /\ Promote(Tail(pending_inputs) \o fall, NoTurn, "none")
        BY <1>1, <3>1
      <3> QED
        BY <1>1, <1>3, <1>6, <2>1, <3>2, EndsTurn DEF fall
    <2>2. CASE pending_inputs = <<>>
      <3>1. running_task = NoTurn
        BY <2>2 DEF IInv, FrontRow
      <3>2. DOMAIN slots = {}
        BY <1>2, <3>1, NoTurnNoSlots
      <3>3. fall = <<>> /\ ended = {}
        <4>1. DOMAIN fall = {}
          BY <1>4, <3>2 DEF FallsTo
        <4> QED
          BY <1>4, <1>5, <3>2, <4>1
      <3>4. rows = <<>>
        BY <1>5, <2>2, <3>3
      <3>5. /\ receipt' \in [Inputs -> {"none", "waiting", "rewound"} \cup Results]
            /\ \A i \in Inputs : receipt'[i] = receipt[i]
        BY <1>1, <1>2, <1>3, <3>3, <3>4, ToldFacts
      <3>a. \A i \in Inputs : i \notin Claimed /\ i \notin Claimed'
        BY <1>1, NoClaim
      <3>6. \A i \in Inputs : receipt[i] # "waiting"
        BY <2>2, <3>2, <3>a DEF IInv, Waiting, Ids, Range
      <3> DEFINE none == <<>>
      <3>7. Requeues(none)
        <4>1. none \in Seq(Inputs) /\ Promote(none, NoTurn, "none")
          BY <1>1, <3>4
        <4> HIDE DEF none
        <4> QED
          BY <4>1, Promoted
      <3>8. none \in Seq(Inputs) /\ DOMAIN none = {} /\ Range(none) = {}
        BY DEF Range
      <3> HIDE DEF none
      <3>9. Settles'
        <4>1. /\ \A i \in Inputs : receipt'[i] = "waiting" <=> i \in Range(none) \/ i \in Claimed'
              /\ \A i \in Claimed' : i \notin Range(none)
              /\ \A i \in Inputs : receipt'[i] = "none" => receipt[i] = "none"
              /\ pushes' = pushes /\ undelivered' = undelivered
          BY <1>1, <3>5, <3>6, <3>8, <3>a DEF history
        <4>2. /\ \A j, k \in DOMAIN none : none[j] = none[k] => j = k
              /\ \A k \in DOMAIN none : pushes[none[k]] = 0
          BY <3>8
        <4> QED
          BY <1>1, <1>4, <1>6, <3>7, <3>8, <4>1, <4>2, Turnover
      <3> QED
        BY <3>5, <3>9
    <2> QED
      BY <2>1, <2>2
  <1>8. TypeOK'
    BY <1>1, <1>2, <1>7 DEF TypeOK, Settles, Slot, Turn, Phases, history
  <1>9. OkMeansDelivered'
    BY <1>1, <1>2, <1>7, NotOk DEF history
  <1> QED
    BY <1>7, <1>8, <1>9 DEF IInv, Settles

\* Everything queued, slotted or claimed is answered at once.
LEMMA Teardown ==
    ASSUME IInv, NEW cause \in {"HardTeardown", "ActorDrop"}, NEW result \in {"cancelled", "error"},
           NEW X, \A i \in Inputs : i \in X <=> i \in Claimed,
           receipt' = Told(Range(pending_inputs) \cup X \cup Completions(All, cause), result),
           slots' = Kept(All), pending_inputs' = <<>>, running_task' = NoTurn, task' = "none",
           reports' \in {reports, <<>>}, loop' \in {"open", "closed", "gone"}, rewinding' = NoRewind,
           UNCHANGED <<epoch, turn_index, rewindable, held, mcp_waits, chat, mailboxes, history>>
    PROVE  IInv'
  <1>1. TypeOK /\ Once /\ Bound /\ Sorted /\ OkMeansDelivered /\ Waiting
    BY DEF IInv
  <1>2. /\ slots' = <<>>
        /\ \A i : i \in Completions(All, cause)
                    <=> \E k \in DOMAIN slots : slots[k].id = i /\ ~Returned(k, cause)
    BY <1>1, TerminalFacts
  <1>3. \A i : i \in Completions(All, cause) <=> i \in Ids(slots)
    BY <1>2 DEF Returned, FallsBack, Ids
  <1>4. /\ receipt' \in [Inputs -> {"none", "waiting", "rewound"} \cup Results]
        /\ \A i \in Inputs : receipt'[i] = IF i \in Range(pending_inputs) \cup Ids(slots) \cup Claimed
                                           THEN result ELSE receipt[i]
    <2> DEFINE T == Range(pending_inputs) \cup X \cup Completions(All, cause)
    <2>1. result \in Answers
      BY DEF Answers
    <2>2. \A i \in Inputs : i \in T <=> i \in Range(pending_inputs) \cup Ids(slots) \cup Claimed
      BY <1>3
    <2>3. receipt' = Told(T, result)
      OBVIOUS
    <2> HIDE DEF T
    <2>4. /\ Told(T, result) \in [Inputs -> {"none", "waiting", "rewound"} \cup Results]
          /\ \A i \in Inputs : Told(T, result)[i] = IF i \in T THEN result ELSE receipt[i]
      BY <1>1, <2>1, ToldFacts
    <2> QED
      BY <2>2, <2>3, <2>4
  <1>5. /\ \A i \in Inputs : receipt'[i] # "waiting"
        /\ \A i \in Inputs : receipt'[i] = "none" => receipt[i] = "none"
        /\ \A i \in Inputs : receipt'[i] \in {result, receipt[i]}
    BY <1>1, <1>4 DEF Waiting
  <1> DEFINE none == <<>>
  <1>6. Requeues(none)
    BY DEF Requeues
  <1>7. none \in Seq(Inputs) /\ DOMAIN none = {} /\ Range(none) = {}
    BY DEF Range
  <1>8. \A k \in DOMAIN reports' : \E j \in DOMAIN reports : reports'[k] = reports[j]
    <2>1. CASE reports' = reports
      BY <2>1
    <2>2. CASE reports' = <<>>
      BY <2>2
    <2> QED
      BY <2>1, <2>2
  <1> HIDE DEF none
  <1>9. Settles'
    <2>1. /\ \A i \in Inputs : receipt'[i] = "waiting" <=> i \in Range(none) \/ i \in Claimed'
          /\ \A i \in Claimed' : i \notin Range(none)
          /\ pushes' = pushes /\ undelivered' = undelivered
      BY <1>5, <1>7, NoClaim DEF history
    <2>2. /\ \A j, k \in DOMAIN none : none[j] = none[k] => j = k
          /\ \A k \in DOMAIN none : pushes[none[k]] = 0
      BY <1>7
    <2> QED
      BY <1>2, <1>5, <1>6, <1>7, <1>8, <2>1, <2>2, Turnover
  <1>10. TypeOK'
    <2>1. reports' \in Seq(Report)
      <3>1. reports \in Seq(Report) /\ <<>> \in Seq(Report)
        BY <1>1, Types
      <3> QED
        BY <3>1
    <2>2. loop' \in {"open", "closed", "gone"}
      OBVIOUS
    <2> QED
      BY <1>1, <1>4, <1>9, <2>1, <2>2
         DEF TypeOK, Settles, Slot, Turn, Report, Phases, history, chat
  <1>11. OkMeansDelivered'
    BY <1>1, <1>5, NotOk DEF history
  <1> QED
    BY <1>9, <1>10, <1>11 DEF IInv, Settles

\* kill_background_tasks answers every row and slot; no rewind is in progress.
LEMMA HardCancelledIInv ==
    ASSUME IInv, HardCancelled, rewinding = NoRewind, reports' \in {reports, <<>>},
           loop' \in {"open", "closed", "gone"}
    PROVE  IInv'
  <1>1. \A i \in Inputs : i \in {} <=> i \in Claimed
    BY NoClaim
  <1>2. receipt' = Told(Range(pending_inputs) \cup {} \cup Completions(All, "HardTeardown"), "cancelled")
    <2>1. Range(pending_inputs) \cup {} = Range(pending_inputs)
      OBVIOUS
    <2> QED
      BY <2>1 DEF HardCancelled
  <1> QED
    BY <1>1, <1>2, Teardown DEF HardCancelled

\* A hard cancel keeps the reports.
LEMMA HardCancelIInv ==
    ASSUME IInv, HardCancel PROVE IInv'
  <1>1. loop' \in {"open", "closed", "gone"}
    BY DEF HardCancel, IInv, TypeOK
  <1> QED
    BY <1>1, HardCancelledIInv DEF HardCancel, Free

\* The cancelling shutdown drops them.
LEMMA ShutdownCancellingIInv ==
    ASSUME IInv, ShutdownCancelling PROVE IInv'
  BY HardCancelledIInv DEF ShutdownCancelling, Free

\* The drop of the actor also answers what a rewind has claimed.
LEMMA DropActorIInv ==
    ASSUME IInv, DropActor PROVE IInv'
  BY Teardown DEF DropActor

\* When the loop returns only the slots are answered: the rows, and the turn of the front
\* one, stay.
LEMMA CloseIInv ==
    ASSUME IInv, Close PROVE IInv'
  <1>1. TypeOK /\ Once /\ Bound /\ Sorted /\ OkMeansDelivered /\ Waiting
    BY DEF IInv
  <1>2. /\ slots' = <<>>
        /\ \A i : i \in Completions(All, "HardTeardown")
              <=> \E k \in DOMAIN slots : slots[k].id = i /\ ~Returned(k, "HardTeardown")
    BY <1>1, TerminalFacts DEF Close, Settled
  <1>3. Completions(All, "HardTeardown") = Ids(slots)
    BY <1>2 DEF Returned, FallsBack, Ids
  <1>4. /\ receipt' \in [Inputs -> {"none", "waiting", "rewound"} \cup Results]
        /\ \A i \in Inputs : receipt'[i] = IF i \in Ids(slots) THEN "error" ELSE receipt[i]
    <2>1. "error" \in Answers
      BY DEF Answers
    <2> QED
      BY <1>1, <1>3, <2>1, ToldFacts DEF Close, Settled
  <1>5. /\ loop' = "closed" /\ reports' = <<>> /\ pending_inputs' = pending_inputs
        /\ running_task' = running_task /\ epoch' = epoch /\ task' = task
        /\ rewindable' = rewindable /\ held' = held /\ mailboxes' = mailboxes
        /\ turn_index' = turn_index /\ mcp_waits' = mcp_waits
        /\ rewinding = NoRewind /\ rewinding' = rewinding
        /\ prompt_index' = prompt_index /\ conversation' = conversation
        /\ pushes' = pushes /\ written' = written /\ undelivered' = undelivered
        /\ overtaken' = overtaken
    BY DEF Close, Free, chat, history
  <1>6. DOMAIN slots' = {} /\ Ids(slots)' = {} /\ slots' \in Seq(Slot) /\ DOMAIN reports' = {}
    BY <1>2, <1>5 DEF Ids
  <1>7. Once' /\ Bound' /\ Sorted' /\ FrontRow' /\ Reports'
    BY <1>1, <1>5, <1>6 DEF IInv, Once, Bound, Sorted, FrontRow, Reports
  <1>8. Pushes' /\ Drained'
    BY <1>4, <1>5, <1>6 DEF IInv, Pushes, Drained, Reached
  <1>9. ASSUME NEW i \in Inputs
        PROVE  /\ receipt'[i] = "waiting" <=> i \in Ids(slots)' \/ i \in Range(pending_inputs)' \/ i \in Claimed'
               /\ i \notin Claimed'
    <2>1. \A k \in DOMAIN slots : slots[k].id \notin Range(pending_inputs)
      BY <1>1 DEF Once, Range
    <2>2. i \in Ids(slots) => i \notin Range(pending_inputs)
      BY <2>1 DEF Ids
    <2>3. Range(pending_inputs)' = Range(pending_inputs)
      BY <1>5 DEF Range
    <2>4. i \notin Claimed /\ i \notin Claimed'
      BY <1>5, NoClaim
    <2> QED
      BY <1>1, <1>4, <1>6, <2>2, <2>3, <2>4 DEF Waiting
  <1>10. OkMeansDelivered'
    BY <1>1, <1>4, <1>5, NotOk
  <1>11. TypeOK'
    BY <1>1, <1>4, <1>5, <1>6 DEF TypeOK, Slot, Turn, Phases
  <1>12. Apart'
    <2>1. \A i \in Range(pending_inputs)' : i \in Inputs
      BY <1>11 DEF TypeOK, Range
    <2> QED
      BY <1>6, <1>9, <2>1 DEF Apart
  <1> QED
    BY <1>7, <1>8, <1>9, <1>10, <1>11, <1>12 DEF IInv, Waiting

----------------------------------------------------------------------------
\* A rewind, in its three steps, and the promotions beside the loop

Row == [input : Inputs, marker : Int]

\* The front row runs, or no turn does: either way the claim leaves neither a turn nor
\* a slot.  What it does not put back it takes.
Takes(legacy, target) ==
    /\ target \in {All, running_task} \/ DOMAIN slots = {}
    /\ rewindable /\ pending_inputs # <<>> /\ Head(pending_inputs) \in Prompts
    /\ rewinding = NoRewind /\ loop = "open"
    /\ rewinding' = [stage |-> "claimed", input |-> Head(pending_inputs), epoch |-> epoch,
                     legacy |-> legacy, target |-> RewindIndex,
                     messages |-> Completions(target, "Rewind"), kept |-> <<>>]
    /\ slots' = Kept(target)
    /\ pending_inputs' = Tail(pending_inputs) \o FallbackRows(target, "Rewind")
    /\ running_task' = NoTurn /\ task' = "none" /\ rewindable' = FALSE
    /\ UNCHANGED <<loop, epoch, turn_index, held, mcp_waits, chat, channels, receipt, history>>

\* The claim names the running turn's slots or all of them.
LEMMA ClaimTakes ==
    ASSUME IInv, NEW legacy \in BOOLEAN, RewindClaim(legacy) PROVE \E target : Takes(legacy, target)
  <1> DEFINE front  == Head(pending_inputs)
             target == IF legacy THEN All ELSE [input |-> front, epoch |-> epoch]
             aborts == legacy \/ running_task.input = front
  <1>1. /\ pending_inputs # <<>> /\ front \in Prompts
        /\ running_task' = IF aborts THEN NoTurn ELSE running_task
        /\ task' = IF aborts THEN "none" ELSE task
    BY DEF RewindClaim
  <1>2. TypeOK /\ Bound /\ FrontRow
    BY DEF IInv
  <1>3. front = pending_inputs[1]
    BY <1>1, <1>2, Types
  <1>4. CASE running_task = NoTurn
    <2>1. DOMAIN slots = {} /\ task = "none"
      BY <1>2, <1>4, NoTurnNoSlots DEF FrontRow
    <2>2. Takes(legacy, target)
      BY <1>1, <1>4, <2>1 DEF RewindClaim, Free, Takes
    <2> QED
      BY <2>2
  <1>5. CASE running_task # NoTurn
    <2>1. running_task \in Turn /\ running_task.input = front /\ running_task.epoch = epoch
      BY <1>2, <1>3, <1>5, Types DEF FrontRow
    <2>2. target \in {All, running_task} /\ aborts
      BY <2>1 DEF Turn
    <2>3. Takes(legacy, target)
      BY <1>1, <2>2 DEF RewindClaim, Free, Takes
    <2> QED
      BY <2>3
  <1> QED
    BY <1>4, <1>5

\* The claim moves senders from the queue and the slots to the rewind.
LEMMA RewindClaimIInv ==
    ASSUME IInv, NEW legacy \in BOOLEAN, RewindClaim(legacy) PROVE IInv'
  <1>1. PICK target : Takes(legacy, target)
    BY ClaimTakes
  <1> DEFINE fall == FallbackRows(target, "Rewind")
             rows == Tail(pending_inputs) \o fall
             ended == Completions(target, "Rewind")
             front == Head(pending_inputs)
  <1>2. TypeOK /\ Once /\ Bound /\ Sorted /\ OkMeansDelivered /\ Waiting
    BY DEF IInv
  <1>3. /\ slots' = <<>> /\ FallsTo(fall, "Rewind")
        /\ \A i : i \in ended <=> \E k \in DOMAIN slots : slots[k].id = i /\ ~Returned(k, "Rewind")
    BY <1>1, <1>2, TerminalFacts DEF Takes
  <1>4. /\ rows \in Seq(Inputs)
        /\ \A j, k \in DOMAIN rows : rows[j] = rows[k] => j = k
        /\ \A i \in Inputs : i \in Range(rows) <=>
              \/ i \in Range(pending_inputs) /\ i # pending_inputs[1]
              \/ \E k \in DOMAIN slots : slots[k].id = i /\ Returned(k, "Rewind")
        /\ \A k \in DOMAIN rows : pushes[rows[k]] = 0
    BY <1>1, <1>3, RowsAfter DEF Takes
  <1>5. front = pending_inputs[1] /\ 1 \in DOMAIN pending_inputs /\ front \in Inputs
    BY <1>1, <1>2, Types DEF Takes
  <1>6. Claimed' = {front} \cup ended
    BY <1>1 DEF Takes, Claimed
  <1>7. /\ rewinding = NoRewind /\ receipt' = receipt /\ reports' = reports
        /\ pushes' = pushes /\ undelivered' = undelivered /\ Requeues(rows)
    BY <1>1 DEF Takes, Requeues, channels, history
  <1>8. \A i \in Inputs : i \notin Claimed
    BY <1>7, NoClaim
  <1>9. ended \subseteq Messages
    <2>1. \A k \in DOMAIN slots : slots[k].id \in Messages
      BY <1>2, Types DEF Slot
    <2> QED
      BY <1>3, <2>1
  <1> HIDE DEF rows, ended, front
  <1>10. ASSUME NEW i \in Inputs
         PROVE  /\ receipt'[i] = "waiting" <=> i \in Range(rows) \/ i \in Claimed'
                /\ ~(i \in Range(rows) /\ i \in Claimed')
    <2>1. receipt[i] = "waiting" <=> \/ i \in Range(pending_inputs)
                                     \/ \E k \in DOMAIN slots : slots[k].id = i
      BY <1>2, <1>8 DEF Waiting, Ids
    <2>2. \A j, k \in DOMAIN slots : slots[j].id = i /\ slots[k].id = i => j = k
      BY <1>2 DEF Once
    <2>3. \A k \in DOMAIN slots : slots[k].id = i => i \notin Range(pending_inputs)
      BY <1>2 DEF Once, Range
    <2>4. pending_inputs[1] \in Range(pending_inputs)
      BY <1>5 DEF Range
    <2> QED
      BY <1>3, <1>4, <1>5, <1>6, <1>7, <2>1, <2>2, <2>3, <2>4
  <1>11. \A i \in Claimed' : i \notin Range(rows)
    <2>1. \A i \in Range(rows) : i \in Inputs
      BY <1>4 DEF Range
    <2> QED
      BY <1>10, <2>1
  <1>12. Settles'
    BY <1>3, <1>4, <1>7, <1>10, <1>11, Turnover
  <1>13. rewinding' \in Rewinds
    <2>1. RewindIndex \in Nat /\ epoch \in Nat /\ <<>> \in Seq(Row)
      BY <1>2 DEF TypeOK, RewindIndex
    <2>2. front \in Prompts /\ rewinding' = [stage |-> "claimed", input |-> front, epoch |-> epoch,
              legacy |-> legacy, target |-> RewindIndex, messages |-> ended, kept |-> <<>>]
      BY <1>1 DEF Takes, front, ended
    <2> QED
      BY <1>9, <2>1, <2>2 DEF Rewinds, Row
  <1>14. TypeOK'
    <2>1. /\ loop' = loop /\ turn_index' = turn_index /\ held' = held /\ mcp_waits' = mcp_waits
          /\ prompt_index' = prompt_index /\ conversation' = conversation /\ mailboxes' = mailboxes
          /\ written' = written /\ overtaken' = overtaken
      BY <1>1 DEF Takes, chat, channels, history
    <2> QED
      BY <1>2, <1>7, <1>12, <1>13, <2>1 DEF TypeOK, Settles, Slot, Turn, Phases
  <1>15. OkMeansDelivered'
    BY <1>2, <1>7 DEF OkMeansDelivered
  <1> QED
    BY <1>12, <1>14, <1>15 DEF IInv, Settles

\* A rewind in progress has the type of one.
LEMMA RewindTypes ==
    ASSUME TypeOK, rewinding.stage # "none"
    PROVE  /\ rewinding \in Rewinds /\ rewinding.stage \in {"claimed", "snapshot"}
           /\ rewinding.input \in Prompts /\ rewinding.epoch \in Nat /\ rewinding.legacy \in BOOLEAN
           /\ rewinding.target \in Nat /\ rewinding.messages \subseteq Messages
           /\ rewinding.kept \in Seq(Row) /\ rewinding.input \notin rewinding.messages
           /\ rewinding.input \in Inputs
  <1>1. rewinding \in Rewinds
    BY DEF TypeOK, NoRewind
  <1>2. /\ rewinding.stage \in {"claimed", "snapshot"}
        /\ rewinding.input \in Prompts /\ rewinding.epoch \in Nat /\ rewinding.legacy \in BOOLEAN
        /\ rewinding.target \in Nat /\ rewinding.messages \subseteq Messages
        /\ rewinding.kept \in Seq(Row)
    BY <1>1 DEF Rewinds, Row
  <1> QED
    BY <1>1, <1>2, DeliveryAssumption DEF Inputs

\* The cut of the snapshot
Target == IF rewinding.legacy THEN RewindIndex ELSE rewinding.target

\* What the snapshot changes of the claim
LEMMA SnapshotFacts ==
    ASSUME IInv, RewindSnapshot
    PROVE  /\ rewinding.stage = "claimed" /\ rewinding'.stage = "snapshot"
           /\ rewinding'.input = rewinding.input /\ rewinding'.epoch = rewinding.epoch
           /\ rewinding'.legacy = rewinding.legacy /\ rewinding'.messages = rewinding.messages
           /\ rewinding'.target = Target /\ rewinding'.kept = CutAt(Target)
           /\ Target \in Nat /\ rewinding' \in Rewinds
           /\ receipt' = Told(rewinding.messages, "rewound")
           /\ UNCHANGED <<loop, pending_inputs, running_task, epoch, task, turn_index, rewindable, held,
                          mcp_waits, slots, chat, channels, history>>
  <1>1. TypeOK /\ rewinding.stage = "claimed"
    BY DEF IInv, RewindSnapshot
  <1>2. /\ rewinding \in Rewinds /\ rewinding.target \in Nat
    BY <1>1, RewindTypes
  <1>3. Target \in Nat /\ Target \in Int
    BY <1>1, <1>2 DEF Target, RewindIndex, TypeOK
  <1>4. CutAt(Target) \in Seq(Row)
    BY <1>1, <1>3, CutFacts DEF Row
  <1>5. rewinding' = [rewinding EXCEPT !.stage = "snapshot", !.target = Target, !.kept = CutAt(Target)]
    BY DEF RewindSnapshot, Target
  <1>6. rewinding' \in Rewinds
    BY <1>2, <1>3, <1>4, <1>5 DEF Rewinds, Row
  <1>7. /\ rewinding'.stage = "snapshot" /\ rewinding'.input = rewinding.input
        /\ rewinding'.epoch = rewinding.epoch
        /\ rewinding'.legacy = rewinding.legacy /\ rewinding'.messages = rewinding.messages
        /\ rewinding'.target = Target /\ rewinding'.kept = CutAt(Target)
    BY <1>2, <1>5 DEF Rewinds
  <1> QED
    BY <1>1, <1>3, <1>6, <1>7 DEF RewindSnapshot

\* The snapshot answers the messages that were claimed.
LEMMA RewindSnapshotIInv ==
    ASSUME IInv, RewindSnapshot PROVE IInv'
  <1>1. TypeOK /\ Once /\ Waiting /\ Apart /\ OkMeansDelivered
    BY DEF IInv
  <1>2. /\ rewinding.stage = "claimed" /\ rewinding'.stage = "snapshot"
        /\ rewinding'.input = rewinding.input /\ rewinding' \in Rewinds
        /\ receipt' = Told(rewinding.messages, "rewound")
        /\ UNCHANGED <<loop, pending_inputs, running_task, epoch, task, turn_index, rewindable, held,
                       mcp_waits, slots, prompt_index, conversation, mailboxes, reports,
                       pushes, written, undelivered, overtaken>>
    BY SnapshotFacts DEF chat, channels, history
  <1>3. /\ receipt' \in [Inputs -> {"none", "waiting", "rewound"} \cup Results]
        /\ \A i \in Inputs : receipt'[i] = IF i \in rewinding.messages THEN "rewound" ELSE receipt[i]
    BY <1>1, <1>2, ToldFacts DEF Answers
  <1>4. Claimed = {rewinding.input} \cup rewinding.messages /\ Claimed' = {rewinding.input}
    BY <1>2 DEF Claimed
  <1>5. rewinding.input \notin rewinding.messages
    BY <1>1, <1>2, RewindTypes
  <1>6. Ids(slots)' = Ids(slots) /\ Range(pending_inputs)' = Range(pending_inputs)
    BY <1>2 DEF Ids, Range
  <1>7. Waiting' /\ Apart'
    <2>1. Waiting'
      BY <1>1, <1>3, <1>4, <1>5, <1>6 DEF Waiting, Apart
    <2>2. Apart'
      BY <1>1, <1>4, <1>6 DEF Apart
    <2> QED
      BY <2>1, <2>2
  <1>8. Once' /\ Bound' /\ Sorted' /\ FrontRow'
    BY <1>2 DEF IInv, Once, Bound, Sorted, FrontRow
  <1>9. Pushes' /\ Drained' /\ Reports'
    BY <1>2, <1>3 DEF IInv, Pushes, Drained, Reports, Reached
  <1>10. TypeOK'
    BY <1>1, <1>2, <1>3 DEF TypeOK
  <1>11. OkMeansDelivered'
    BY <1>1, <1>2, <1>3, NotOk
  <1> QED
    BY <1>7, <1>8, <1>9, <1>10, <1>11 DEF IInv

\* A promotion that finds the queue as it is: nothing changes, or a turn starts.
LEMMA PromotesSettled ==
    ASSUME IInv, Promote(pending_inputs, running_task, task), slots' = slots,
           \A i \in Inputs : receipt'[i] = "waiting"
                <=> i \in Ids(slots) \/ i \in Range(pending_inputs) \/ i \in Claimed',
           \A i \in Claimed' : i \notin Ids(slots) /\ i \notin Range(pending_inputs),
           \A i \in Inputs : receipt'[i] = "none" => receipt[i] = "none",
           reports' = reports, pushes' = pushes, undelivered' = undelivered
    PROVE  Settles'
  <1>1. TypeOK /\ Once /\ Waiting /\ Apart /\ Bound /\ Sorted /\ FrontRow /\ Pushes /\ Drained /\ Reports
    BY DEF IInv
  <1>2. pending_inputs \in Seq(Inputs) /\ slots \in Seq(Slot)
    BY <1>1, Types
  <1>3. CASE running_task = NoTurn
    <2>1. task = "none" /\ DOMAIN slots = {}
      BY <1>1, <1>3, NoTurnNoSlots DEF FrontRow
    <2>2. slots' = <<>> /\ Ids(slots) = {}
      BY <1>2, <2>1 DEF Ids
    <2>3. Promote(pending_inputs, NoTurn, "none")
      BY <1>3, <2>1
    <2>4. Requeues(pending_inputs)
      BY <1>2, <2>3, Promoted
    <2>5. \A k \in DOMAIN pending_inputs : pushes[pending_inputs[k]] = 0
      BY <1>1, <2>1 DEF Pushes, Before
    <2>6. \A j, k \in DOMAIN pending_inputs : pending_inputs[j] = pending_inputs[k] => j = k
      BY <1>1 DEF Once
    <2>7. \A k \in DOMAIN reports' : \E j \in DOMAIN reports : reports'[k] = reports[j]
      OBVIOUS
    <2>8. \A i \in Inputs : receipt'[i] = "waiting" <=> i \in Range(pending_inputs) \/ i \in Claimed'
      BY <2>2
    <2> QED
      BY <1>2, <2>2, <2>4, <2>5, <2>6, <2>7, <2>8, Turnover
  <1>4. CASE running_task # NoTurn
    <2>1. UNCHANGED <<pending_inputs, running_task, task, epoch, rewindable>>
      BY <1>4 DEF Promote
    <2>2. Ids(slots)' = Ids(slots) /\ Range(pending_inputs)' = Range(pending_inputs)
      BY <2>1 DEF Ids, Range
    <2>3. Waiting' /\ Apart'
      BY <2>2 DEF Waiting, Apart
    <2>4. Once' /\ Bound' /\ Sorted' /\ FrontRow'
      BY <1>1, <2>1 DEF Once, Bound, Sorted, FrontRow
    <2>5. Pushes' /\ Drained' /\ Reports'
      BY <1>1, <2>1 DEF Pushes, Drained, Reports, Reached
    <2>6. /\ pending_inputs' \in Seq(Inputs) /\ epoch' \in Nat /\ rewindable' \in BOOLEAN
          /\ running_task' \in Turn \cup {NoTurn} /\ task' \in Stages \cup {"none"}
          /\ slots' \in Seq(Slot)
      BY <1>1, <1>2, <2>1 DEF TypeOK, Turn
    <2> QED
      BY <2>3, <2>4, <2>5, <2>6 DEF Settles
  <1> QED
    BY <1>3, <1>4

\* The restore answers the rewound prompt, the last one claimed.
LEMMA RewindRestoreIInv ==
    ASSUME IInv, RewindRestore PROVE IInv'
  <1>1. TypeOK /\ Once /\ Waiting /\ Apart /\ OkMeansDelivered
    BY DEF IInv
  <1>2. /\ rewinding.stage = "snapshot" /\ rewinding' = NoRewind
        /\ receipt' = Told({rewinding.input}, "rewound")
        /\ overtaken' = (overtaken \/ epoch # rewinding.epoch)
        /\ UNCHANGED <<loop, turn_index, held, mcp_waits, slots, mailboxes, reports,
                       pushes, written, undelivered>>
        /\ Promote(pending_inputs, running_task, task)
    BY DEF RewindRestore, channels
  <1>3. /\ receipt' \in [Inputs -> {"none", "waiting", "rewound"} \cup Results]
        /\ \A i \in Inputs : receipt'[i] = IF i = rewinding.input THEN "rewound" ELSE receipt[i]
    BY <1>1, <1>2, ToldFacts DEF Answers
  <1>4. Claimed = {rewinding.input} /\ \A i \in Inputs : i \notin Claimed'
    BY <1>2, NoClaim DEF Claimed
  <1>5. /\ rewinding.target \in Nat /\ rewinding.kept \in Seq(Row) /\ rewinding.input \in Inputs
    BY <1>1, <1>2, RewindTypes
  <1>6. Settles'
    <2>1. \A i \in Inputs : receipt'[i] = "waiting"
             <=> i \in Ids(slots) \/ i \in Range(pending_inputs) \/ i \in Claimed'
      BY <1>1, <1>3, <1>4 DEF Waiting, Apart
    <2>2. \A i \in Claimed' : i \notin Ids(slots) /\ i \notin Range(pending_inputs)
      <3>1. \A i \in Range(pending_inputs) : i \in Inputs
        BY <1>1 DEF TypeOK, Range
      <3>2. \A i \in Ids(slots) : i \in Inputs
        BY <1>1, Types DEF Slot, Ids, Inputs
      <3> QED
        BY <1>4, <3>1, <3>2
    <2>3. \A i \in Inputs : receipt'[i] = "none" => receipt[i] = "none"
      BY <1>3
    <2> QED
      BY <1>2, <2>1, <2>2, <2>3, PromotesSettled
  <1>7. prompt_index' \in Nat /\ conversation' \in Seq(Row)
    BY <1>1, <1>5 DEF RewindRestore, TypeOK, Row, chat
  <1>8. overtaken' \in BOOLEAN
    BY <1>2
  <1>9. TypeOK'
    BY <1>1, <1>2, <1>3, <1>6, <1>7, <1>8 DEF TypeOK, Settles, Slot, Turn, Phases, Row
  <1>10. OkMeansDelivered'
    <2>1. \A i \in Inputs : receipt'[i] \in {"rewound", receipt[i]}
      BY <1>3
    <2> QED
      BY <1>1, <1>2, <2>1, NotOk
  <1> QED
    BY <1>6, <1>9, <1>10 DEF IInv, Settles

\* The start-up task promotes the front row.
LEMMA McpPromoteIInv ==
    ASSUME IInv, McpPromote PROVE IInv'
  <1>1. TypeOK /\ Waiting /\ Apart /\ OkMeansDelivered
    BY DEF IInv
  <1>2. /\ mcp_waits' = FALSE /\ Promote(pending_inputs, running_task, task)
        /\ UNCHANGED <<loop, turn_index, held, rewinding, slots, prompt_index, conversation, mailboxes,
                       reports, receipt, pushes, written, undelivered, overtaken>>
    BY DEF McpPromote, chat, channels, history
  <1>3. Claimed' = Claimed
    BY <1>2 DEF Claimed
  <1>4. Settles'
    <2>1. \A i \in Inputs : receipt'[i] = "waiting"
             <=> i \in Ids(slots) \/ i \in Range(pending_inputs) \/ i \in Claimed'
      BY <1>1, <1>2, <1>3 DEF Waiting
    <2>2. \A i \in Claimed' : i \notin Ids(slots) /\ i \notin Range(pending_inputs)
      BY <1>1, <1>3 DEF Apart
    <2> QED
      BY <1>2, <2>1, <2>2, PromotesSettled
  <1>5. TypeOK'
    BY <1>1, <1>2, <1>4 DEF TypeOK, Settles, Slot, Turn, Phases
  <1>6. OkMeansDelivered'
    BY <1>1, <1>2 DEF OkMeansDelivered
  <1> QED
    BY <1>4, <1>5, <1>6 DEF IInv, Settles

----------------------------------------------------------------------------
\* Admission

\* An input that is admitted was never seen before.
LEMMA EnqueueIInv ==
    ASSUME IInv, NEW i \in Inputs, receipt[i] = "none", held' \in BOOLEAN, Enqueue(i)
    PROVE  IInv'
  <1> DEFINE n == Len(pending_inputs)
             starts == running_task = NoTurn /\ ~held'
  <1>0. TypeOK /\ Once /\ Waiting /\ Apart /\ Bound /\ Sorted /\ FrontRow /\ Pushes /\ Drained
        /\ Reports /\ OkMeansDelivered
    BY DEF IInv
  <1>1. /\ pending_inputs' = Append(pending_inputs, i)
        /\ receipt' = Told({i}, "waiting")
        /\ loop' = loop /\ slots' = slots /\ prompt_index' = prompt_index
        /\ conversation' = conversation /\ mailboxes' = mailboxes /\ reports' = reports
        /\ pushes' = pushes /\ written' = written /\ undelivered' = undelivered
        /\ turn_index' = turn_index /\ mcp_waits' = mcp_waits /\ rewinding' = rewinding
        /\ overtaken' = overtaken
    BY DEF Enqueue, Promote, chat, channels, history
  <1>2. /\ pending_inputs \in Seq(Inputs) /\ n \in Nat /\ DOMAIN pending_inputs = 1..n
        /\ pending_inputs' \in Seq(Inputs) /\ pending_inputs' # <<>>
        /\ DOMAIN pending_inputs' = 1..(n + 1) /\ Len(pending_inputs') = n + 1
        /\ \A k \in 1..n : pending_inputs'[k] = pending_inputs[k]
        /\ pending_inputs'[n + 1] = i
    <2>1. pending_inputs \in Seq(Inputs) /\ n \in Nat /\ DOMAIN pending_inputs = 1..n
      BY <1>0, Types
    <2> QED
      BY <1>1, <2>1
  <1>3. IF starts
        THEN /\ epoch' = epoch + 1 /\ running_task' = [input |-> pending_inputs'[1], epoch |-> epoch + 1]
             /\ task' = "starting" /\ rewindable' = TRUE
        ELSE /\ running_task' = running_task /\ task' = task /\ rewindable' = rewindable
             /\ epoch' = epoch
    <2>1. Head(pending_inputs') = pending_inputs'[1]
      BY <1>2
    <2> QED
      BY <1>1, <1>2, <2>1 DEF Enqueue, Promote
  <1> HIDE DEF n
  <1>4. i \notin Ids(slots) /\ i \notin Range(pending_inputs) /\ i \notin Claimed
    BY <1>0 DEF Waiting
  <1>5. /\ \A k \in DOMAIN slots : slots[k].id # i
        /\ \A k \in 1..n : pending_inputs[k] # i
    BY <1>2, <1>4 DEF Ids, Range
  <1>6. starts => DOMAIN slots = {} /\ task = "none"
    BY <1>0, NoTurnNoSlots DEF FrontRow
  <1>7. /\ receipt' \in [Inputs -> {"none", "waiting", "rewound"} \cup Results]
        /\ \A j \in Inputs : receipt'[j] = IF j = i THEN "waiting" ELSE receipt[j]
    BY <1>0, <1>1, ToldFacts
  <1>8. \A k \in DOMAIN pending_inputs' :
          \/ k \in 1..n /\ pending_inputs'[k] = pending_inputs[k]
          \/ k = n + 1 /\ pending_inputs'[k] = i
    BY <1>2
  <1>9. epoch \in Nat /\ epoch' \in Nat /\ epoch <= epoch'
    BY <1>0, <1>3 DEF TypeOK
  <1>10. Once'
    BY <1>0, <1>1, <1>2, <1>5, <1>8 DEF Once
  <1>11. Waiting' /\ Apart'
    <2>1. \A j : j \in Range(pending_inputs)' <=> j = i \/ j \in Range(pending_inputs)
      BY <1>2, <1>8 DEF Range
    <2>2. Ids(slots)' = Ids(slots) /\ Claimed' = Claimed
      BY <1>1 DEF Ids, Claimed
    <2>3. Waiting'
      BY <1>0, <1>7, <2>1, <2>2 DEF Waiting
    <2>4. Apart'
      BY <1>0, <1>4, <2>1, <2>2 DEF Apart
    <2> QED
      BY <2>3, <2>4
  <1>12. Bound'
    BY <1>0, <1>1, <1>3, <1>6 DEF Bound
  <1>13. Sorted'
    BY <1>0, <1>1 DEF Sorted
  <1>14. pending_inputs'[1] \in Inputs
    BY <1>2
  <1>15. FrontRow'
    <2>1. CASE starts
      <3>1. [input |-> pending_inputs'[1], epoch |-> epoch + 1] # NoTurn
        BY <1>14, DeliveryAssumption DEF NoTurn
      <3> QED
        BY <1>2, <1>3, <2>1, <3>1 DEF FrontRow
    <2>2. CASE ~starts
      <3>1. pending_inputs # <<>> => pending_inputs'[1] = pending_inputs[1]
        BY <1>2 DEF n
      <3> QED
        BY <1>0, <1>2, <1>3, <2>2, <3>1 DEF FrontRow
    <2> QED
      BY <2>1, <2>2
  <1>16. Pushes'
    <2>1. pushes[i] = 0
      BY <1>0 DEF Pushes
    <2>2. ASSUME NEW k \in DOMAIN pending_inputs', k > 1 \/ task' \in Before
          PROVE  pushes[pending_inputs'[k]] = 0
      <3>1. k > 1 \/ task \in Before
        BY <1>3, <1>6, <2>2 DEF Before
      <3> QED
        BY <1>0, <1>2, <1>8, <2>1, <3>1 DEF Pushes
    <2> QED
      BY <1>0, <1>1, <1>7, <2>1, <2>2 DEF Pushes
  <1>17. Drained'
    <2>1. CASE starts
      BY <1>1, <1>3, <1>6, <2>1 DEF Drained
    <2>2. CASE ~starts
      BY <1>0, <1>1, <1>3, <2>2 DEF Drained, Reached
    <2> QED
      BY <2>1, <2>2
  <1>18. Reports'
    <2>1. CASE starts
      <3> SUFFICES ASSUME NEW k \in DOMAIN reports
                   PROVE  reports[k].turn.epoch <= epoch' /\ reports[k].turn # running_task'
        BY <1>1 DEF Reports
      <3>1. reports[k].turn.epoch \in Nat
        <4>1. reports[k] \in Report
          BY <1>0, Types
        <4> QED
          BY <4>1 DEF Report, Turn
      <3>2. reports[k].turn.epoch <= epoch
        BY <1>0 DEF Reports
      <3>3. running_task'.epoch = epoch + 1
        BY <1>3, <2>1
      <3> QED
        BY <1>9, <3>1, <3>2, <3>3
    <2>2. CASE ~starts
      BY <1>0, <1>1, <1>3, <2>2 DEF Reports, Reached
    <2> QED
      BY <2>1, <2>2
  <1>19. TypeOK'
    <2>1. running_task' \in Turn \cup {NoTurn}
      <3>1. [input |-> pending_inputs'[1], epoch |-> epoch + 1] \in Turn
        BY <1>9, <1>14 DEF Turn
      <3> QED
        BY <1>0, <1>3, <3>1, Types
    <2>2. task' \in Stages \cup {"none"} /\ rewindable' \in BOOLEAN
      <3>1. task' \in Stages \cup {"none"}
        BY <1>0, <1>3 DEF TypeOK, Stages
      <3>2. rewindable' \in BOOLEAN
        BY <1>0, <1>3 DEF TypeOK
      <3> QED
        BY <3>1, <3>2
    <2> QED
      BY <1>0, <1>1, <1>2, <1>7, <1>9, <2>1, <2>2 DEF TypeOK, Turn
  <1>20. OkMeansDelivered'
    BY <1>0, <1>1, <1>7 DEF OkMeansDelivered, Inputs
  <1> QED
    BY <1>10, <1>11, <1>12, <1>13, <1>15, <1>16, <1>17, <1>18, <1>19, <1>20 DEF IInv

\* A user prompt joins the queue and releases the hold.
LEMMA PromptIInv ==
    ASSUME IInv, NEW p \in Prompts, Prompt(p) PROVE IInv'
  BY EnqueueIInv DEF Prompt, Inputs

\* A plan-resume row joins the queue too, whatever the loop does.
LEMMA ResumePlanIInv ==
    ASSUME IInv, NEW i \in Resumes, ResumePlan(i) PROVE IInv'
  <1>1. held' \in BOOLEAN /\ i \in Inputs
    BY DEF ResumePlan, IInv, TypeOK, Inputs
  <1> QED
    BY <1>1, EnqueueIInv DEF ResumePlan

\* The identity check lets in only what is not live.
LEMMA AdmissibleIsNew ==
    ASSUME IInv, NEW m \in Messages, Free, Admissible(m)
    PROVE  m \in Inputs /\ receipt[m] = "none"
  <1>1. m \in Inputs /\ m \notin Claimed
    BY NoClaim DEF Inputs, Free
  <1> QED
    BY <1>1 DEF IInv, Admissible, Live, Waiting

\* A queued message joins the queue.
LEMMA AdmitQueueIInv ==
    ASSUME IInv, NEW m \in Messages, AdmitQueue(m) PROVE IInv'
  <1>1. m \in Inputs /\ receipt[m] = "none" /\ Enqueue(m)
    BY AdmissibleIsNew DEF AdmitQueue
  <1>2. held' \in BOOLEAN
    BY DEF AdmitQueue, IInv, TypeOK
  <1> QED
    BY <1>1, <1>2, EnqueueIInv

\* A steer message joins the slots of the running turn, behind all others, as pending.
LEMMA AdmitSteerIInv ==
    ASSUME IInv, NEW m \in Messages, AdmitSteer(m) PROVE IInv'
  <1> DEFINE n == Len(slots)
             new == [id |-> m, turn |-> running_task, phase |-> "pending"]
  <1>0. TypeOK /\ Once /\ Waiting /\ Apart /\ Bound /\ Sorted /\ FrontRow /\ Pushes /\ Drained
        /\ Reports /\ OkMeansDelivered
    BY DEF IInv
  <1>1. /\ running_task # NoTurn /\ slots' = Append(slots, new) /\ receipt' = Told({m}, "waiting")
        /\ loop' = loop /\ pending_inputs' = pending_inputs /\ running_task' = running_task
        /\ epoch' = epoch /\ task' = task /\ rewindable' = rewindable /\ held' = held
        /\ prompt_index' = prompt_index /\ conversation' = conversation /\ mailboxes' = mailboxes
        /\ reports' = reports
        /\ pushes' = pushes /\ written' = written /\ undelivered' = undelivered
        /\ turn_index' = turn_index /\ mcp_waits' = mcp_waits /\ rewinding' = rewinding
        /\ overtaken' = overtaken /\ rewinding = NoRewind
    BY DEF AdmitSteer, Free, session, chat, channels, history
  <1>2. m \in Inputs /\ receipt[m] = "none"
    BY AdmissibleIsNew DEF AdmitSteer
  <1>3. new \in Slot
    BY <1>0, <1>1, Types DEF Slot
  <1>4. /\ slots \in Seq(Slot) /\ n \in Nat /\ DOMAIN slots = 1..n
        /\ slots' \in Seq(Slot) /\ DOMAIN slots' = 1..(n + 1)
        /\ \A k \in 1..n : slots'[k] = slots[k]
        /\ slots'[n + 1] = new
    <2>1. slots \in Seq(Slot) /\ n \in Nat /\ DOMAIN slots = 1..n
      BY <1>0, Types
    <2> HIDE DEF new
    <2> QED
      BY <1>1, <1>3, <2>1
  <1> HIDE DEF n
  <1>5. \A k \in DOMAIN slots' :
          \/ k \in 1..n /\ k < n + 1 /\ slots'[k] = slots[k]
          \/ k = n + 1 /\ slots'[k].id = m /\ slots'[k].turn = running_task
             /\ slots'[k].phase = "pending"
    BY <1>4
  <1> HIDE DEF new
  <1>6. /\ \A k \in 1..n : slots[k].id # m
        /\ \A k \in DOMAIN pending_inputs : pending_inputs[k] # m
    BY <1>0, <1>2, <1>4 DEF Waiting, Ids, Range
  <1>7. /\ receipt' \in [Inputs -> {"none", "waiting", "rewound"} \cup Results]
        /\ \A j \in Inputs : receipt'[j] = IF j = m THEN "waiting" ELSE receipt[j]
    BY <1>0, <1>1, ToldFacts
  <1>8. Once'
    <2>1. \A j, k \in DOMAIN slots' : slots'[j].id = slots'[k].id => j = k
      BY <1>0, <1>4, <1>5, <1>6 DEF Once
    <2>2. \A j \in DOMAIN slots', k \in DOMAIN pending_inputs : slots'[j].id # pending_inputs[k]
      BY <1>0, <1>4, <1>5, <1>6 DEF Once
    <2> QED
      BY <1>0, <1>1, <2>1, <2>2 DEF Once
  <1>9. Waiting' /\ Apart'
    <2>1. \A j : j \in Ids(slots)' <=> j = m \/ j \in Ids(slots)
      <3>1. slots'[n + 1].id = m /\ n + 1 \in DOMAIN slots'
        BY <1>4 DEF new
      <3> QED
        BY <1>4, <1>5, <3>1 DEF Ids
    <2>2. Range(pending_inputs)' = Range(pending_inputs) /\ Claimed' = Claimed
      BY <1>1 DEF Range, Claimed
    <2>3. m \notin Claimed
      BY <1>1, <1>2, NoClaim
    <2>4. Waiting'
      BY <1>0, <1>7, <2>1, <2>2 DEF Waiting
    <2>5. Apart'
      BY <1>0, <2>1, <2>2, <2>3 DEF Apart
    <2> QED
      BY <2>4, <2>5
  <1>10. Bound'
    BY <1>0, <1>1, <1>4, <1>5 DEF Bound
  <1>11. Sorted'
    BY <1>0, <1>4, <1>5 DEF Sorted
  <1>12. FrontRow'
    BY <1>0, <1>1 DEF FrontRow
  <1>13. Pushes'
    <2>1. pushes[m] = 0
      BY <1>0, <1>2 DEF Pushes
    <2>2. \A k \in DOMAIN slots' :
            pushes[slots'[k].id] = IF slots'[k].phase = "delivered" THEN 1 ELSE 0
      BY <1>0, <1>4, <1>5, <2>1 DEF Pushes
    <2> QED
      BY <1>0, <1>1, <1>7, <2>2 DEF Pushes
  <1>14. Drained'
    BY <1>0, <1>1, <1>4, <1>5 DEF Drained, Reached
  <1>15. Reports'
    BY <1>0, <1>1 DEF Reports, Reached
  <1>16. TypeOK'
    BY <1>0, <1>1, <1>4, <1>7 DEF TypeOK, Slot, Turn, Phases
  <1>17. OkMeansDelivered'
    BY <1>0, <1>1, <1>7 DEF OkMeansDelivered, Inputs
  <1> QED
    BY <1>8, <1>9, <1>10, <1>11, <1>12, <1>13, <1>14, <1>15, <1>16, <1>17 DEF IInv

----------------------------------------------------------------------------
\* The turn task

\* What a step keeps that leaves the queue, the slots and the receipts alone
LEMMA Stands ==
    ASSUME IInv, UNCHANGED <<pending_inputs, running_task, epoch, rewinding, slots, receipt>>
    PROVE  Once' /\ Waiting' /\ Apart' /\ Bound' /\ Sorted'
  <1>1. /\ Ids(slots)' = Ids(slots) /\ Range(pending_inputs)' = Range(pending_inputs)
        /\ Claimed' = Claimed
    BY DEF Ids, Range, Claimed
  <1> QED
    BY <1>1 DEF IInv, Once, Waiting, Apart, Bound, Sorted

\* While the task is somewhere, a turn runs, and its row is the front.
LEMMA TaskHasTurn ==
    ASSUME IInv, task # "none"
    PROVE  /\ running_task # NoTurn /\ running_task \in Turn /\ running_task.input \in Inputs
           /\ 1 \in DOMAIN pending_inputs /\ pending_inputs[1] = running_task.input
           /\ receipt[running_task.input] = "waiting"
           /\ \A k \in DOMAIN slots : slots[k].id # running_task.input
  <1>1. TypeOK /\ Once /\ Waiting /\ FrontRow
    BY DEF IInv
  <1>2. running_task # NoTurn /\ running_task \in Turn
    BY <1>1, Types DEF FrontRow
  <1>3. pending_inputs # <<>> /\ pending_inputs[1] = running_task.input
    BY <1>1, <1>2 DEF FrontRow
  <1>4. 1 \in DOMAIN pending_inputs /\ running_task.input \in Inputs
    BY <1>1, <1>2, <1>3, Types DEF Turn
  <1>5. receipt[running_task.input] = "waiting"
    BY <1>1, <1>3, <1>4 DEF Waiting, Range
  <1> QED
    BY <1>1, <1>2, <1>3, <1>4, <1>5 DEF Once

\* Reading the prompt index, and a hook that blocks, move the task only.
LEMMA HookIInv ==
    ASSUME IInv, ReadIndex \/ HookBlocks PROVE IInv'
  <1> USE DEF ReadIndex, HookBlocks, Beside, channels, chat
  <1>1. Once' /\ Waiting' /\ Apart' /\ Bound' /\ Sorted'
    BY Stands
  <1>2. TypeOK'
    BY DEF IInv, TypeOK, Stages
  <1>3. FrontRow' /\ Pushes' /\ OkMeansDelivered'
    BY DEF IInv, FrontRow, Pushes, Before, OkMeansDelivered
  <1>4. Drained' /\ Reports'
    BY DEF IInv, Drained, Reports, Reached
  <1> QED
    BY <1>1, <1>2, <1>3, <1>4 DEF IInv

\* Taking the prompt index moves the task only.
LEMMA TakeIndexIInv ==
    ASSUME IInv, TakeIndex PROVE IInv'
  <1> USE DEF TakeIndex, Reaches, Beside, channels, history
  <1>1. Once' /\ Waiting' /\ Apart' /\ Bound' /\ Sorted'
    BY Stands
  <1>2. TypeOK'
    BY DEF IInv, TypeOK, Stages
  <1>3. FrontRow' /\ Pushes' /\ OkMeansDelivered'
    BY DEF IInv, FrontRow, Pushes, Before, OkMeansDelivered
  <1>4. Drained' /\ Reports'
    BY DEF IInv, Drained, Reports, Reached
  <1> QED
    BY <1>1, <1>2, <1>3, <1>4 DEF IInv

\* The prompt of the running turn is pushed for the first time, or is on record as
\* undelivered.
LEMMA PushPromptIInv ==
    ASSUME IInv, PushPrompt PROVE IInv'
  <1> USE DEF PushPrompt, Reaches, Beside, channels
  <1> DEFINE i == running_task.input
  <1>0. TypeOK /\ Once /\ FrontRow /\ Pushes /\ Drained /\ Reports /\ OkMeansDelivered
    BY DEF IInv
  <1>1. Once' /\ Waiting' /\ Apart' /\ Bound' /\ Sorted'
    BY Stands
  <1>2. /\ task # "none" /\ i \in Inputs /\ receipt[i] = "waiting"
        /\ 1 \in DOMAIN pending_inputs /\ pending_inputs[1] = i
        /\ \A k \in DOMAIN slots : slots[k].id # i
    BY TaskHasTurn
  <1>3. pushes[i] = 0 /\ \A k \in DOMAIN pending_inputs : k > 1 => pending_inputs[k] # i
    BY <1>0, <1>2, Types DEF Pushes, Before, Once
  <1>4. /\ \A j \in Inputs : pushes'[j] = pushes[j] \/ (j = i /\ pushes'[j] = 1)
        /\ pushes' \in [Inputs -> Nat] /\ undelivered \subseteq undelivered'
        /\ undelivered' \subseteq Inputs
    <2>1. CASE "chat" \in mailboxes
      <3>1. pushes' = [j \in Inputs |-> IF j \in {i} THEN pushes[j] + 1 ELSE pushes[j]]
        BY <2>1 DEF Pushed
      <3> QED
        BY <1>0, <1>3, <2>1, <3>1 DEF TypeOK
    <2>2. CASE "chat" \notin mailboxes
      BY <1>0, <1>2, <2>2 DEF TypeOK
    <2> QED
      BY <2>1, <2>2
  <1>5. Reached(i)'
    <2>1. CASE "chat" \in mailboxes
      <3>1. pushes'[i] = pushes[i] + 1
        BY <1>2, <2>1 DEF Pushed
      <3> QED
        BY <1>3, <3>1 DEF Reached
    <2>2. CASE "chat" \notin mailboxes
      BY <2>2 DEF Reached
    <2> QED
      BY <2>1, <2>2
  <1>6. conversation' \in Seq([input : Inputs, marker : Int])
    <2>1. [input |-> i, marker |-> turn_index] \in [input : Inputs, marker : Int]
      BY <1>0, <1>2 DEF TypeOK
    <2>2. conversation \in Seq([input : Inputs, marker : Int])
      BY <1>0 DEF TypeOK
    <2>3. \/ conversation' = conversation
          \/ conversation' = Append(conversation, [input |-> i, marker |-> turn_index])
      OBVIOUS
    <2> DEFINE C == [input : Inputs, marker : Int]
               new == [input |-> i, marker |-> turn_index]
    <2> HIDE DEF C, new
    <2>4. conversation \in Seq(C) /\ new \in C
      BY <2>1, <2>2 DEF C, new
    <2>5. conversation' = conversation \/ conversation' = Append(conversation, new)
      BY <2>3 DEF new
    <2>6. conversation' \in Seq(C)
      BY <2>4, <2>5
    <2> QED
      BY <2>6 DEF C
  <1> HIDE DEF i
  <1>7. TypeOK'
    BY <1>0, <1>4, <1>6 DEF TypeOK, Stages
  <1>8. FrontRow'
    BY <1>0 DEF FrontRow
  <1>9. Pushes'
    <2>1. \A j \in Inputs : pushes'[j] \in {0, 1} /\ (receipt'[j] = "none" => pushes'[j] = 0)
      BY <1>0, <1>2, <1>4 DEF Pushes
    <2>2. \A k \in DOMAIN pending_inputs : k > 1 => pushes'[pending_inputs[k]] = 0
      BY <1>0, <1>3, <1>4, Types DEF Pushes
    <2>3. \A k \in DOMAIN slots : slots[k].id \in Inputs
      BY <1>0, Types DEF Slot, Inputs
    <2>4. \A k \in DOMAIN slots : pushes'[slots[k].id] = IF slots[k].phase = "delivered" THEN 1 ELSE 0
      BY <1>0, <1>2, <1>4, <2>3 DEF Pushes
    <2> QED
      BY <2>1, <2>2, <2>4 DEF Pushes, Before
  <1>10. Drained'
    BY <1>0, <1>4, <1>5 DEF Drained, i
  <1>11. Reports'
    BY <1>0 DEF Reports
  <1>12. OkMeansDelivered'
    BY <1>0, <1>2, <1>4 DEF OkMeansDelivered, Inputs
  <1> QED
    BY <1>1, <1>7, <1>8, <1>9, <1>10, <1>11, <1>12 DEF IInv

\* A turn that ends reports its result, once.
LEMMA ReportedFacts ==
    ASSUME IInv, task \notin {"none", "ended"}, NEW result \in Results, Reported(result),
           result = "ok" /\ running_task.input \in Messages => Reached(running_task.input),
           UNCHANGED <<running_task, epoch, pushes, undelivered>>, task' = "ended"
    PROVE  Reports' /\ reports' \in Seq(Report)
  <1> DEFINE new == [turn |-> running_task, result |-> result]
  <1>0. TypeOK /\ FrontRow /\ Reports
    BY DEF IInv
  <1>1. running_task \in Turn /\ running_task # NoTurn
    BY TaskHasTurn
  <1>2. new \in Report
    BY <1>1 DEF Report
  <1>3. reports \in Seq(Report)
    BY <1>0, Types
  <1>4. running_task.epoch = epoch /\ epoch \in Nat
    BY <1>0, <1>1 DEF FrontRow, TypeOK
  <1>5. reports' = reports \/ reports' = Append(reports, new)
    BY DEF Reported
  <1>6. new.turn = running_task /\ new.result = result
    OBVIOUS
  <1> HIDE DEF new
  <1>7. reports' \in Seq(Report)
    BY <1>2, <1>3, <1>5
  <1>8. \A k \in DOMAIN reports' :
          (k \in DOMAIN reports /\ reports'[k] = reports[k]) \/ reports'[k] = new
    BY <1>2, <1>3, <1>5
  <1>9. Reached(running_task.input)' <=> Reached(running_task.input)
    BY DEF Reached
  <1> QED
    BY <1>0, <1>4, <1>6, <1>7, <1>8, <1>9 DEF Reports

\* A turn that ends before its push reports ok only for a user's prompt.
LEMMA EndEarlyIInv ==
    ASSUME IInv, NEW result \in Results, EndEarly(result) PROVE IInv'
  <1> USE DEF EndEarly, Reaches, Beside, history, chat
  <1>1. Once' /\ Waiting' /\ Apart' /\ Bound' /\ Sorted'
    BY Stands
  <1>2. Reports' /\ reports' \in Seq(Report)
    <2>1. result = "ok" => running_task.input \notin Messages
      BY DeliveryAssumption
    <2> QED
      BY <2>1, ReportedFacts
  <1>3. TypeOK'
    <2>1. held' \in BOOLEAN /\ rewindable' \in BOOLEAN
      BY DEF IInv, TypeOK
    <2> QED
      BY <1>2, <2>1 DEF IInv, TypeOK, Stages, Report, Turn
  <1>4. FrontRow' /\ Pushes' /\ Drained' /\ OkMeansDelivered'
    BY DEF IInv, FrontRow, Pushes, Before, Drained, Reached, OkMeansDelivered
  <1> QED
    BY <1>1, <1>2, <1>3, <1>4 DEF IInv

\* A blocked turn reports that it was cancelled.
LEMMA EndBlockedIInv ==
    ASSUME IInv, EndBlocked PROVE IInv'
  <1> USE DEF EndBlocked, Reaches, Beside, history, chat
  <1>1. Once' /\ Waiting' /\ Apart' /\ Bound' /\ Sorted'
    BY Stands
  <1>2. Reports' /\ reports' \in Seq(Report)
    BY ReportedFacts DEF Results
  <1>3. TypeOK'
    <2>1. rewindable' \in BOOLEAN
      OBVIOUS
    <2> QED
      BY <1>2, <2>1 DEF IInv, TypeOK, Stages, Report, Turn
  <1>4. FrontRow' /\ Pushes' /\ Drained' /\ OkMeansDelivered'
    BY DEF IInv, FrontRow, Pushes, Before, Drained, Reached, OkMeansDelivered
  <1> QED
    BY <1>1, <1>2, <1>3, <1>4 DEF IInv

\* A turn that worked has its prompt pushed or on record, so that it may report ok.
LEMMA EndTurnIInv ==
    ASSUME IInv, NEW result \in Results, EndTurn(result) PROVE IInv'
  <1> USE DEF EndTurn, Reaches, Beside, history, chat
  <1>1. Once' /\ Waiting' /\ Apart' /\ Bound' /\ Sorted'
    BY Stands
  <1>2. Reports' /\ reports' \in Seq(Report)
    <2>1. Reached(running_task.input)
      BY DEF IInv, Drained
    <2> QED
      BY <2>1, ReportedFacts
  <1>3. TypeOK'
    <2>1. rewindable' \in BOOLEAN
      BY DEF IInv, TypeOK
    <2> QED
      BY <1>2, <2>1 DEF IInv, TypeOK, Stages, Report, Turn
  <1>4. FrontRow' /\ Pushes' /\ Drained' /\ OkMeansDelivered'
    BY DEF IInv, FrontRow, Pushes, Before, Drained, Reached, OkMeansDelivered
  <1> QED
    BY <1>1, <1>2, <1>3, <1>4 DEF IInv

\* Output closes the rewind window.
LEMMA OutputIInv ==
    ASSUME IInv, Output PROVE IInv'
  <1> USE DEF Output, Reaches, Beside, channels, history, chat
  <1>1. Once' /\ Waiting' /\ Apart' /\ Bound' /\ Sorted'
    BY Stands
  <1>2. TypeOK'
    BY DEF IInv, TypeOK
  <1>3. FrontRow' /\ Pushes' /\ OkMeansDelivered'
    BY DEF IInv, FrontRow, Pushes, Before, OkMeansDelivered
  <1>4. Drained' /\ Reports'
    BY DEF IInv, Drained, Reports, Reached
  <1> QED
    BY <1>1, <1>2, <1>3, <1>4 DEF IInv

\* Dropping a stale report leaves the others.
LEMMA StaleCompletionIInv ==
    ASSUME IInv, StaleCompletion PROVE IInv'
  <1> USE DEF StaleCompletion, session, history, chat
  <1>1. Once' /\ Waiting' /\ Apart' /\ Bound' /\ Sorted'
    BY Stands
  <1>2. reports \in Seq(Report) /\ TypeOK
    BY Types DEF IInv
  <1>3. /\ reports' \in Seq(Report)
        /\ \A k \in DOMAIN reports' : k + 1 \in DOMAIN reports /\ reports'[k] = reports[k + 1]
    BY <1>2
  <1>4. TypeOK'
    BY <1>2, <1>3 DEF TypeOK, Report, Turn
  <1>5. FrontRow' /\ Pushes' /\ Drained' /\ OkMeansDelivered'
    BY DEF IInv, FrontRow, Pushes, Before, Drained, Reached, OkMeansDelivered
  <1>6. Reports'
    BY <1>3 DEF IInv, Reports, Reached
  <1> QED
    BY <1>1, <1>4, <1>5, <1>6 DEF IInv

\* No part of the invariant is about the mailboxes.
LEMMA CloseMailboxIInv ==
    ASSUME IInv, NEW b \in MayClose, CloseMailbox(b) PROVE IInv'
  <1> USE DEF CloseMailbox, session, history, chat
  <1>1. Once' /\ Waiting' /\ Apart' /\ Bound' /\ Sorted'
    BY Stands
  <1>2. TypeOK'
    BY DEF IInv, TypeOK
  <1>3. FrontRow' /\ Pushes' /\ OkMeansDelivered'
    BY DEF IInv, FrontRow, Pushes, Before, OkMeansDelivered
  <1>4. Drained' /\ Reports'
    BY DEF IInv, Drained, Reports, Reached
  <1> QED
    BY <1>1, <1>2, <1>3, <1>4 DEF IInv

----------------------------------------------------------------------------
\* The drain

\* Moving the slots of one phase to another keeps their senders and their turn.
LEMMA AdvanceFacts ==
    ASSUME TypeOK, Bound, NEW from, NEW to \in {"delivered", "projecting", "pending"},
           slots' = Advance(from, to, running_task)
    PROVE  /\ slots' \in Seq(Slot) /\ DOMAIN slots' = DOMAIN slots
           /\ \A k \in DOMAIN slots :
                 /\ slots'[k].id = slots[k].id /\ slots'[k].turn = slots[k].turn
                 /\ slots'[k].phase = IF slots[k].phase = from THEN to ELSE slots[k].phase
           /\ Ids(slots)' = Ids(slots)
  <1> DEFINE n == Len(slots)
  <1>1. slots \in Seq(Slot) /\ n \in Nat /\ DOMAIN slots = 1..n
        /\ \A k \in 1..n : slots[k] \in Slot
    BY Types
  <1>2. slots' = [k \in 1..n |-> IF slots[k].phase = from THEN [slots[k] EXCEPT !.phase = to]
                                                           ELSE slots[k]]
    BY <1>1 DEF Advance, Bound
  <1> HIDE DEF n
  <1>3. \A k \in 1..n :
          /\ slots'[k] \in Slot
          /\ slots'[k].id = slots[k].id /\ slots'[k].turn = slots[k].turn
          /\ slots'[k].phase = IF slots[k].phase = from THEN to ELSE slots[k].phase
    BY <1>1, <1>2 DEF Slot
  <1>4. slots' \in [1..n -> Slot] /\ DOMAIN slots' = 1..n
    BY <1>2, <1>3
  <1>5. slots' \in Seq(Slot)
    BY <1>1, <1>4
  <1>6. Ids(slots)' = Ids(slots)
    BY <1>1, <1>3, <1>4 DEF Ids
  <1> QED
    BY <1>1, <1>3, <1>4, <1>5, <1>6

\* The drain starts: pending slots project, and the task is at the barrier.
LEMMA BeginDrainIInv ==
    ASSUME IInv, BeginDrain PROVE IInv'
  <1> USE DEF BeginDrain, Reaches, Beside, channels, history, chat
  <1>0. TypeOK /\ Once /\ Waiting /\ Apart /\ Bound /\ Sorted /\ FrontRow /\ Pushes /\ Drained
        /\ Reports /\ OkMeansDelivered
    BY DEF IInv
  <1>1. /\ slots' \in Seq(Slot) /\ DOMAIN slots' = DOMAIN slots
        /\ \A k \in DOMAIN slots :
              /\ slots'[k].id = slots[k].id /\ slots'[k].turn = slots[k].turn
              /\ slots'[k].phase = IF slots[k].phase = "pending" THEN "projecting" ELSE slots[k].phase
        /\ Ids(slots)' = Ids(slots)
    BY <1>0, AdvanceFacts
  <1>2. Once' /\ Bound'
    BY <1>0, <1>1 DEF Once, Bound
  <1>3. Waiting' /\ Apart'
    <2>1. Range(pending_inputs)' = Range(pending_inputs) /\ Claimed' = Claimed
      BY DEF Range, Claimed
    <2>2. Waiting'
      BY <1>0, <1>1, <2>1 DEF Waiting
    <2>3. Apart'
      BY <1>0, <1>1, <2>1 DEF Apart
    <2> QED
      BY <2>2, <2>3
  <1>4. Sorted'
    BY <1>0, <1>1 DEF Sorted
  <1>5. FrontRow' /\ OkMeansDelivered' /\ Reports'
    BY <1>0 DEF FrontRow, OkMeansDelivered, Reports
  <1>6. Pushes'
    BY <1>0, <1>1 DEF Pushes, Before
  <1>7. Drained'
    BY <1>0, <1>1 DEF Drained, Reached
  <1>8. TypeOK'
    BY <1>0, <1>1 DEF TypeOK, Slot, Turn, Phases, Stages
  <1> QED
    BY <1>2, <1>3, <1>4, <1>5, <1>6, <1>7, <1>8 DEF IInv

\* The senders of the batch: those of the projecting slots.
LEMMA BatchIds ==
    ASSUME IInv
    PROVE  /\ \A i : i \in Ids(Batch)
                       <=> \E k \in DOMAIN slots : slots[k].phase = "projecting" /\ slots[k].id = i
           /\ Ids(Batch) \subseteq Messages
           /\ Batch \in Seq(Slot) /\ Len(Batch) \in Nat /\ DOMAIN Batch = 1..Len(Batch)
           /\ \A i \in Inputs : i \in Ids(Batch) => receipt[i] = "waiting"
  <1> DEFINE P == {k \in DOMAIN slots : slots[k].phase = "projecting"}
  <1>1. Selects(Batch, P) /\ TypeOK /\ Waiting
    BY BatchFacts DEF IInv
  <1>2. \A i : i \in Ids(Batch) <=> \E k \in P : slots[k].id = i
    BY <1>1 DEF Selects, Ids
  <1>3. \A k \in DOMAIN slots : slots[k].id \in Messages
    BY <1>1, Types DEF Slot
  <1>4. \A k \in P : slots[k].id \in Ids(slots)
    BY DEF Ids
  <1> QED
    BY <1>1, <1>2, <1>3, <1>4 DEF Selects, Waiting

\* A failed barrier puts the batch on record.
LEMMA BarrierFailsIInv ==
    ASSUME IInv, BarrierFails PROVE IInv'
  <1> USE DEF BarrierFails, Reaches, Beside, channels, chat
  <1>1. Once' /\ Waiting' /\ Apart' /\ Bound' /\ Sorted'
    BY Stands
  <1>2. TypeOK'
    BY BatchIds DEF IInv, TypeOK, Stages, Inputs
  <1>3. FrontRow' /\ Pushes' /\ OkMeansDelivered'
    BY DEF IInv, FrontRow, Pushes, Before, OkMeansDelivered
  <1>4. Drained' /\ Reports'
    BY BatchIds DEF IInv, Drained, Reports, Reached
  <1> QED
    BY <1>1, <1>2, <1>3, <1>4 DEF IInv

\* An empty batch means that no slot projects, so leaving the barrier owes no record.
LEMMA CommitNothingIInv ==
    ASSUME IInv, CommitNothing PROVE IInv'
  <1> USE DEF CommitNothing, Reaches, Beside, channels, chat, history
  <1>1. Once' /\ Waiting' /\ Apart' /\ Bound' /\ Sorted'
    BY Stands
  <1>2. TypeOK'
    BY DEF IInv, TypeOK, Stages
  <1>3. FrontRow' /\ Pushes' /\ OkMeansDelivered'
    BY DEF IInv, FrontRow, Pushes, Before, OkMeansDelivered
  <1>4. \A k \in DOMAIN slots : slots[k].phase # "projecting"
    <2>1. Ids(Batch) = {}
      BY DEF Ids
    <2> QED
      BY <2>1, BatchIds
  <1>5. Drained' /\ Reports'
    BY <1>4 DEF IInv, Drained, Reports, Reached
  <1> QED
    BY <1>1, <1>2, <1>3, <1>5 DEF IInv

\* What was sent of a batch is of the batch.
LEMMA PrefixIds ==
    ASSUME NEW s \in Seq(Slot), NEW n \in 0..Len(s)
    PROVE  Ids(SubSeq(s, 1, n)) \subseteq Ids(s)
  <1>1. /\ DOMAIN SubSeq(s, 1, n) = 1..n
        /\ \A k \in 1..n : SubSeq(s, 1, n)[k] = s[k] /\ k \in DOMAIN s
    OBVIOUS
  <1> QED
    BY <1>1 DEF Ids

\* A failed commit puts the batch on record, however much of it was sent.
LEMMA CommitFailsIInv ==
    ASSUME IInv, CommitFails PROVE IInv'
  <1> USE DEF CommitFails, Reaches, Beside, channels, chat
  <1>1. Once' /\ Waiting' /\ Apart' /\ Bound' /\ Sorted'
    BY Stands
  <1>2. PICK sent \in 0..Len(Batch) : written' = written \cup Ids(SubSeq(Batch, 1, sent))
    OBVIOUS
  <1>3. Ids(SubSeq(Batch, 1, sent)) \subseteq Ids(Batch)
    BY BatchIds, PrefixIds
  <1>4. TypeOK'
    BY <1>2, <1>3, BatchIds DEF IInv, TypeOK, Stages, Inputs
  <1>5. FrontRow' /\ Pushes' /\ OkMeansDelivered'
    BY DEF IInv, FrontRow, Pushes, Before, OkMeansDelivered
  <1>6. Drained' /\ Reports'
    BY BatchIds DEF IInv, Drained, Reports, Reached
  <1> QED
    BY <1>1, <1>4, <1>5, <1>6 DEF IInv

\* Concatenation keeps the type.
LEMMA Concatenated ==
    ASSUME NEW C, NEW s \in Seq(C), NEW t \in Seq(C) PROVE s \o t \in Seq(C)
  OBVIOUS

\* The batch is pushed for the first time, and its slots are delivered.
LEMMA CommitDeliveryIInv ==
    ASSUME IInv, CommitDelivery PROVE IInv'
  <1>0. TypeOK /\ Once /\ Waiting /\ Apart /\ Bound /\ Sorted /\ FrontRow /\ Pushes /\ Drained
        /\ Reports /\ OkMeansDelivered
    BY DEF IInv
  <1>a. /\ task = "barrier" /\ task' = "working" /\ loop' = loop
        /\ slots' = Advance("projecting", "delivered", running_task)
        /\ written' = written \cup Ids(Batch) /\ undelivered' = undelivered \ Ids(Batch)
        /\ conversation' = conversation
              \o [k \in DOMAIN Batch |-> [input |-> Batch[k].id, marker |-> -1]]
        /\ pushes' = Pushed(Ids(Batch))
        /\ pending_inputs' = pending_inputs /\ running_task' = running_task /\ epoch' = epoch
        /\ held' = held /\ rewindable' = rewindable /\ prompt_index' = prompt_index
        /\ mailboxes' = mailboxes /\ reports' = reports /\ receipt' = receipt
        /\ turn_index' = turn_index /\ mcp_waits' = mcp_waits /\ rewinding' = rewinding
        /\ overtaken' = overtaken
    BY DEF CommitDelivery, Reaches, Beside, channels
  <1>1. /\ slots' \in Seq(Slot) /\ DOMAIN slots' = DOMAIN slots
        /\ \A k \in DOMAIN slots :
              /\ slots'[k].id = slots[k].id /\ slots'[k].turn = slots[k].turn
              /\ slots'[k].phase = IF slots[k].phase = "projecting" THEN "delivered" ELSE slots[k].phase
        /\ Ids(slots)' = Ids(slots)
    BY <1>0, <1>a, AdvanceFacts
  <1> DEFINE B == Ids(Batch)
  <1>2. /\ \A i : i \in B <=> \E k \in DOMAIN slots : slots[k].phase = "projecting" /\ slots[k].id = i
        /\ B \subseteq Messages /\ \A i \in Inputs : i \in B => receipt[i] = "waiting"
        /\ Batch \in Seq(Slot) /\ Len(Batch) \in Nat /\ DOMAIN Batch = 1..Len(Batch)
    BY BatchIds
  <1>3. /\ \A i \in Inputs : pushes'[i] = IF i \in B THEN pushes[i] + 1 ELSE pushes[i]
        /\ pushes' \in [Inputs -> Nat]
    BY <1>0, <1>a DEF Pushed, TypeOK
  <1>4. undelivered' = undelivered \ B /\ written' = written \cup B
    BY <1>a
  <1>5. conversation' \in Seq([input : Inputs, marker : Int])
    <2> DEFINE C == [input : Inputs, marker : Int]
               add == [k \in 1..Len(Batch) |-> [input |-> Batch[k].id, marker |-> -1]]
    <2>1. \A k \in 1..Len(Batch) : Batch[k].id \in Inputs
      <3>1. \A k \in 1..Len(Batch) : Batch[k] \in Slot
        BY <1>2
      <3> QED
        BY <3>1 DEF Slot, Inputs
    <2>2. add \in [1..Len(Batch) -> C]
      BY <2>1
    <2>3. conversation' = conversation \o add /\ conversation \in Seq(C)
      BY <1>0, <1>2, <1>a DEF TypeOK
    <2> HIDE DEF add, C
    <2>4. add \in Seq(C)
      BY <1>2, <2>2
    <2>5. conversation' \in Seq(C)
      BY <2>3, <2>4, Concatenated
    <2> QED
      BY <2>5 DEF C
  <1> HIDE DEF B
  <1>b. pending_inputs' = pending_inputs /\ running_task' = running_task
    BY <1>a
  <1>6. Once' /\ Bound'
    <2>1. Once'
      BY <1>0, <1>1, <1>b DEF Once
    <2>2. Bound'
      BY <1>0, <1>1, <1>b DEF Bound
    <2> QED
      BY <2>1, <2>2
  <1>7. Waiting' /\ Apart'
    <2>1. Range(pending_inputs)' = Range(pending_inputs) /\ Claimed' = Claimed
      BY <1>a DEF Range, Claimed
    <2>2. Waiting'
      BY <1>0, <1>1, <1>a, <2>1 DEF Waiting
    <2>3. Apart'
      BY <1>0, <1>1, <2>1 DEF Apart
    <2> QED
      BY <2>2, <2>3
  <1>8. Sorted'
    <2>1. \A k \in DOMAIN slots : slots[k].phase \in {"delivered", "projecting", "pending"}
      BY <1>0, Types DEF Slot
    <2> QED
      BY <1>0, <1>1, <2>1 DEF Sorted
  <1>9. FrontRow'
    BY <1>0, <1>a DEF FrontRow
  <1>10. Pushes'
    <2>1. \A i \in B : pushes[i] = 0 /\ i \in Inputs
      BY <1>0, <1>2 DEF Pushes, Inputs
    <2>2. \A i \in Inputs : pushes'[i] \in {0, 1} /\ (receipt'[i] = "none" => pushes'[i] = 0)
      BY <1>0, <1>2, <1>3, <1>a, <2>1 DEF Pushes
    <2>3. \A k \in DOMAIN pending_inputs : pending_inputs[k] \in Inputs /\ pending_inputs[k] \notin B
      BY <1>0, <1>2, Types DEF Once
    <2>4. \A k \in DOMAIN pending_inputs : k > 1 => pushes'[pending_inputs[k]] = 0
      BY <1>0, <1>3, <2>3 DEF Pushes
    <2>5. ASSUME NEW k \in DOMAIN slots
          PROVE  pushes'[slots'[k].id] = IF slots'[k].phase = "delivered" THEN 1 ELSE 0
      <3>1. slots[k].id \in Inputs
        BY <1>0, Types DEF Slot, Inputs
      <3>2. slots[k].id \in B <=> slots[k].phase = "projecting"
        BY <1>0, <1>2 DEF Once
      <3>3. pushes[slots[k].id] = IF slots[k].phase = "delivered" THEN 1 ELSE 0
        BY <1>0 DEF Pushes
      <3>4. slots[k].phase \in {"delivered", "projecting", "pending"}
        BY <1>0, Types DEF Slot
      <3> QED
        BY <1>1, <1>3, <3>1, <3>2, <3>3, <3>4
    <2> QED
      BY <1>1, <1>a, <2>2, <2>4, <2>5 DEF Pushes, Before
  <1>11. running_task.input \in Inputs /\ running_task.input \notin B
    BY <1>2, <1>a, TaskHasTurn
  <1>12. Drained'
    BY <1>0, <1>1, <1>3, <1>4, <1>11, <1>a DEF Drained, Reached
  <1>13. Reports'
    BY <1>0, <1>a DEF Reports
  <1>14. TypeOK'
    BY <1>0, <1>1, <1>2, <1>3, <1>4, <1>5, <1>a DEF TypeOK, Slot, Turn, Phases, Stages
  <1>15. OkMeansDelivered'
    BY <1>0, <1>2, <1>3, <1>4, <1>a DEF OkMeansDelivered, Inputs
  <1> QED
    BY <1>6, <1>7, <1>8, <1>9, <1>10, <1>12, <1>13, <1>14, <1>15 DEF IInv

----------------------------------------------------------------------------
\* The theorems

\* Nothing is queued, slotted or told at the start.
LEMMA InitIInv == Init => IInv
  <1> SUFFICES ASSUME Init PROVE IInv
    OBVIOUS
  <1>1. TypeOK
    <2>1. /\ pending_inputs \in Seq(Inputs) /\ reports \in Seq(Report) /\ slots \in Seq(Slot)
          /\ conversation \in Seq([input : Inputs, marker : Int])
      BY DEF Init
    <2>2. receipt \in [Inputs -> {"none", "waiting", "rewound"} \cup Results]
      BY DEF Init
    <2>3. rewindable \in BOOLEAN /\ held \in BOOLEAN /\ mcp_waits \in BOOLEAN /\ overtaken \in BOOLEAN
      BY DeliveryAssumption DEF Init
    <2> QED
      BY <2>1, <2>2, <2>3 DEF Init, TypeOK, Slot, Turn, Report, Phases
  <1>2. Once /\ Bound /\ Sorted /\ Drained /\ Reports
    BY DEF Init, Once, Bound, Sorted, Drained, Reports
  <1>3. Waiting /\ Apart
    <2>1. \A i \in Inputs : i \notin Claimed
      BY NoClaim DEF Init
    <2>2. Ids(slots) = {} /\ Range(pending_inputs) = {}
      BY DEF Init, Ids, Range
    <2>3. Waiting
      BY <2>1, <2>2 DEF Init, Waiting
    <2>4. Apart
      BY <2>2 DEF Apart
    <2> QED
      BY <2>3, <2>4
  <1>4. FrontRow /\ Pushes /\ OkMeansDelivered
    BY DEF Init, FrontRow, Pushes, OkMeansDelivered, Inputs
  <1> QED
    BY <1>1, <1>2, <1>3, <1>4 DEF IInv

\* A stuttering step changes nothing.
LEMMA StutterIInv ==
    ASSUME IInv, UNCHANGED vars PROVE IInv'
  <1> USE DEF vars, session, chat, channels, history
  <1>1. Once' /\ Waiting' /\ Apart' /\ Bound' /\ Sorted'
    BY Stands
  <1>2. TypeOK'
    BY DEF IInv, TypeOK
  <1>3. FrontRow' /\ Pushes' /\ OkMeansDelivered'
    BY DEF IInv, FrontRow, Pushes, Before, OkMeansDelivered
  <1>4. Drained' /\ Reports'
    BY DEF IInv, Drained, Reports, Reached
  <1> QED
    BY <1>1, <1>2, <1>3, <1>4 DEF IInv

\* Every step keeps the invariant.
LEMMA NextIInv ==
    ASSUME IInv, [Next]_vars PROVE IInv'
  <1>1. CASE \E p \in Prompts : Prompt(p)
    BY <1>1, PromptIInv
  <1>2. CASE \E m \in Messages : AdmitQueue(m) \/ AdmitSteer(m)
    BY <1>2, AdmitQueueIInv, AdmitSteerIInv
  <1>3. CASE Completion \/ StaleCompletion \/ SoftCancel \/ HardCancel
    BY <1>3, CompletionIInv, StaleCompletionIInv, SoftCancelIInv, HardCancelIInv
  <1>4. CASE (\E legacy \in BOOLEAN : RewindClaim(legacy)) \/ RewindSnapshot \/ RewindRestore
    BY <1>4, RewindClaimIInv, RewindSnapshotIInv, RewindRestoreIInv
  <1>a. CASE McpPromote \/ \E i \in Resumes : ResumePlan(i)
    BY <1>a, McpPromoteIInv, ResumePlanIInv
  <1>5. CASE Close \/ ShutdownCancelling \/ DropActor
    BY <1>5, CloseIInv, ShutdownCancellingIInv, DropActorIInv
  <1>6. CASE TurnTask
    <2>1. CASE TakeIndex \/ PushPrompt \/ Output \/ BeginDrain
      BY <2>1, TakeIndexIInv, PushPromptIInv, OutputIInv, BeginDrainIInv
    <2>2. CASE BarrierFails \/ CommitNothing \/ CommitDelivery \/ CommitFails
      BY <2>2, BarrierFailsIInv, CommitNothingIInv, CommitDeliveryIInv, CommitFailsIInv
    <2>3. CASE \E r \in Results : EndEarly(r) \/ EndTurn(r)
      BY <2>3, EndEarlyIInv, EndTurnIInv
    <2>4. CASE ReadIndex \/ HookBlocks \/ EndBlocked
      BY <2>4, HookIInv, EndBlockedIInv
    <2> QED
      BY <1>6, <2>1, <2>2, <2>3, <2>4 DEF TurnTask
  <1>7. CASE \E b \in MayClose : CloseMailbox(b)
    BY <1>7, CloseMailboxIInv
  <1>8. CASE UNCHANGED vars
    BY <1>8, StutterIInv
  <1> QED
    BY <1>1, <1>2, <1>3, <1>4, <1>5, <1>6, <1>7, <1>8, <1>a DEF Next

\* The parts of the inductive invariant hold in every reachable state.
THEOREM Invariance == Spec => []IInv
  <1>1. IInv /\ [Next]_vars => IInv'
    BY NextIInv
  <1> QED
    BY InitIInv, <1>1, PTL DEF Spec

\* Every variable keeps its type: rows, slots and reports are sequences of inputs,
\* slots and results of turns, whatever order admissions, turns and cancels take.
THEOREM TypeCorrect == Spec => []TypeOK
  <1>1. IInv => TypeOK
    BY DEF IInv
  <1> QED
    BY <1>1, Invariance, PTL

\* A receipt that reports a turn that went well means that the text is in the
\* conversation, or that its drain failed downstream and is on record.
THEOREM OkCorrect == Spec => []OkMeansDelivered
  <1>1. IInv => OkMeansDelivered
    BY DEF IInv
  <1> QED
    BY <1>1, Invariance, PTL

\* Where a waiting input sits
LEMMA OnePlace ==
    ASSUME IInv, NEW i \in Inputs
    PROVE  Cardinality(Places(i)) = IF receipt[i] = "waiting" THEN 1 ELSE 0
  <1> DEFINE S == {k \in DOMAIN slots : slots[k].id = i}
             R == {j \in DOMAIN pending_inputs : pending_inputs[j] = i}
             C == {0 : c \in Claimed \cap {i}}
  <1>0. TypeOK /\ Once /\ Waiting /\ Apart
    BY DEF IInv
  <1>1. Places(i) = S \cup {-k : k \in R} \cup C
    BY DEF Places
  <1>a. C = IF i \in Claimed THEN {0} ELSE {}
    OBVIOUS
  <1>b. (i \notin Ids(slots) => S = {}) /\ (i \notin Range(pending_inputs) => R = {})
    BY DEF Ids, Range
  <1> HIDE DEF C
  <1>2. CASE receipt[i] # "waiting"
    <2>1. S = {} /\ R = {} /\ C = {}
      BY <1>0, <1>2, <1>a, <1>b DEF Waiting
    <2>2. Places(i) = {}
      BY <1>1, <2>1
    <2> QED
      BY <1>2, <2>2, FS_EmptySet
  <1>3. CASE i \in Ids(slots)
    <2>1. PICK k \in DOMAIN slots : slots[k].id = i
      BY <1>3 DEF Ids
    <2>2. S = {k} /\ R = {}
      BY <1>0, <2>1 DEF Once
    <2>3. C = {}
      BY <1>0, <1>3, <1>a DEF Apart
    <2>4. Places(i) = {k}
      BY <1>1, <2>2, <2>3
    <2> QED
      BY <1>0, <1>3, <2>4, FS_Singleton DEF Waiting
  <1>4. CASE i \in Range(pending_inputs)
    <2>1. PICK k \in DOMAIN pending_inputs : pending_inputs[k] = i
      BY <1>4 DEF Range
    <2>2. R = {k} /\ S = {}
      BY <1>0, <2>1 DEF Once
    <2>3. C = {}
      BY <1>0, <1>4, <1>a DEF Apart
    <2>4. Places(i) = {-k}
      BY <1>1, <2>2, <2>3
    <2> QED
      BY <1>0, <1>4, <2>4, FS_Singleton DEF Waiting
  <1>5. CASE i \in Claimed
    <2>1. S = {} /\ R = {}
      BY <1>0, <1>5, <1>b DEF Apart
    <2>2. Places(i) = {0}
      BY <1>1, <1>5, <1>a, <2>1
    <2> QED
      BY <1>0, <1>5, <2>2, FS_Singleton DEF Waiting
  <1> QED
    BY <1>0, <1>2, <1>3, <1>4, <1>5 DEF Waiting

\* Whatever is admitted, steered, drained, cancelled, rewound or torn down, a
\* waiting input sits in exactly one slot, row or rewind and no other input sits in any;
\* slots belong to the turn that runs and never overtake one another.
THEOREM OwnershipCorrect == Spec => []InputsAreOwned
  <1>1. ASSUME IInv PROVE InputsAreOwned
    <2>1. \A i \in Inputs : Cardinality(Places(i)) = IF receipt[i] = "waiting" THEN 1 ELSE 0
      BY <1>1, OnePlace
    <2>2. \A k \in DOMAIN slots : slots[k].turn = running_task
      BY <1>1 DEF IInv, Bound
    <2>3. ASSUME NEW j \in DOMAIN slots, NEW k \in DOMAIN slots, j < k,
                 NEW a \in 1..3, NEW b \in 1..3, a > b,
                 slots[j].phase = Phases[a], slots[k].phase = Phases[b]
          PROVE  FALSE
      <3>1. Phases[1] = "delivered" /\ Phases[2] = "projecting" /\ Phases[3] = "pending"
        BY DEF Phases
      <3>2. \/ a = 2 /\ b = 1
            \/ a = 3 /\ b = 1
            \/ a = 3 /\ b = 2
        BY <2>3
      <3> QED
        BY <1>1, <2>3, <3>1, <3>2 DEF IInv, Sorted
    <2> QED
      BY <2>1, <2>2, <2>3 DEF InputsAreOwned
  <1> QED
    BY <1>1, Invariance, PTL

\* What the sender sees of a step: nothing, that the input was accepted, that
\* texts were pushed, or that open receipts were answered.
Open == {i \in Inputs : receipt[i] = "waiting"}
SeesNothing == receipt' = receipt /\ pushes' = pushes
SeesAccept == \E i \in Inputs :
    /\ receipt[i] = "none" /\ pushes' = pushes
    /\ \A j \in Inputs : receipt'[j] = IF j = i THEN "waiting" ELSE receipt[j]
SeesPush == \E S \in SUBSET Open :
    /\ receipt' = receipt
    /\ \A i \in S : pushes[i] = 0
    /\ pushes' = [i \in Inputs |-> IF i \in S THEN 1 ELSE pushes[i]]
SeesAnswer == \E S \in SUBSET Open :
    /\ pushes' = pushes
    /\ \A i \in Inputs : IF i \in S THEN receipt'[i] \in Answers ELSE receipt'[i] = receipt[i]
Seen == SeesNothing \/ SeesAccept \/ SeesPush \/ SeesAnswer

\* A handler that ends turns or tears down answers only open receipts.
LEMMA AnswersOpen ==
    ASSUME IInv, NEW X,
           X \subseteq Range(pending_inputs) \cup Ids(slots) \cup Claimed, NEW result \in Answers,
           receipt' = Told(X, result), pushes' = pushes
    PROVE  SeesAnswer
  <1>1. TypeOK /\ Waiting
    BY DEF IInv
  <1> DEFINE S == X \cap Inputs
  <1>2. S \in SUBSET Open
    BY <1>1 DEF Waiting, Open
  <1>3. \A i \in Inputs : IF i \in S THEN receipt'[i] \in Answers ELSE receipt'[i] = receipt[i]
    BY <1>1, ToldFacts
  <1> HIDE DEF S
  <1> QED
    BY <1>2, <1>3 DEF SeesAnswer

\* Who is answered by the end of a turn had a slot.
LEMMA CompletedSlots ==
    ASSUME NEW target, NEW cause PROVE Completions(target, cause) \subseteq Ids(slots)
  BY DEF Completions, Ids

\* The front row is a row.
LEMMA FrontIsQueued ==
    ASSUME IInv, pending_inputs # <<>> PROVE Head(pending_inputs) \in Range(pending_inputs)
  <1>1. 1 \in DOMAIN pending_inputs /\ Head(pending_inputs) = pending_inputs[1]
    BY Types DEF IInv
  <1> QED
    BY <1>1 DEF Range

\* A soft cancel answers the front row and slots of the turn, whose receipts are open.
LEMMA SoftCancelSeen ==
    ASSUME IInv, SoftCancel PROVE SeesAnswer
  <1> DEFINE fall == FallbackRows(CancelTarget, "SoftCancel")
             rows == pending_inputs \o fall
             X == (IF rows = <<>> THEN {} ELSE {Head(rows)}) \cup Completions(CancelTarget, "SoftCancel")
  <1>1. receipt' = Told(X, "cancelled") /\ pushes' = pushes
    BY DEF SoftCancel, history
  <1>2. pending_inputs \in Seq(Inputs) /\ FallsTo(fall, "SoftCancel")
    <2>1. CancelTarget \in {All, running_task}
      BY DEF CancelTarget
    <2> QED
      BY <2>1, Types, TerminalFacts DEF IInv
  <1> HIDE DEF fall
  <1>3. rows # <<>> => Head(rows) \in Range(pending_inputs) \cup Ids(slots)
    <2>1. CASE pending_inputs # <<>>
      <3>1. Head(rows) = Head(pending_inputs)
        BY <1>2, <2>1 DEF FallsTo
      <3> QED
        BY <2>1, <3>1, FrontIsQueued
    <2>2. CASE pending_inputs = <<>> /\ rows # <<>>
      <3>1. Head(rows) = fall[1] /\ 1 \in DOMAIN fall
        BY <1>2, <2>2 DEF FallsTo
      <3> QED
        BY <1>2, <3>1 DEF FallsTo, Ids
    <2> QED
      BY <2>1, <2>2
  <1> HIDE DEF rows
  <1>4. X \subseteq Range(pending_inputs) \cup Ids(slots)
    BY <1>3, CompletedSlots
  <1> HIDE DEF X
  <1> QED
    BY <1>1, <1>4, AnswersOpen DEF Answers

\* A push of open texts that were not pushed is the contract's push.
LEMMA PushesSeen ==
    ASSUME IInv, NEW S, S \subseteq Open, \A i \in S : pushes[i] = 0,
           pushes' = Pushed(S), receipt' = receipt
    PROVE  SeesPush
  <1>1. pushes' = [i \in Inputs |-> IF i \in S THEN 1 ELSE pushes[i]]
    BY DEF Pushed
  <1> QED
    BY <1>1 DEF SeesPush

\* Every step is one of the four for the senders.
LEMMA NextSeen ==
    ASSUME IInv, [Next]_vars PROVE Seen
  <1>1. CASE \E p \in Prompts : Prompt(p)
    <2>1. PICK p \in Prompts : Prompt(p)
      BY <1>1
    <2>2. p \in Inputs /\ receipt[p] = "none" /\ pushes' = pushes /\ receipt' = Told({p}, "waiting")
      BY <2>1 DEF Prompt, Enqueue, history, Inputs
    <2> QED
      BY <2>2, ToldFacts DEF Seen, SeesAccept, IInv
  <1>2. CASE \E m \in Messages : AdmitQueue(m) \/ AdmitSteer(m)
    <2>1. PICK m \in Messages : AdmitQueue(m) \/ AdmitSteer(m)
      BY <1>2
    <2>2. m \in Inputs /\ receipt[m] = "none"
      BY <2>1, AdmissibleIsNew DEF AdmitQueue, AdmitSteer
    <2>3. pushes' = pushes /\ receipt' = Told({m}, "waiting")
      BY <2>1 DEF AdmitQueue, AdmitSteer, Enqueue, history
    <2> QED
      BY <2>2, <2>3, ToldFacts DEF Seen, SeesAccept, IInv
  <1>3. CASE Completion
    <2> DEFINE X == {Head(pending_inputs)} \cup Completions(Head(reports).turn, "Completion")
    <2>1. /\ receipt' = Told(X, Head(reports).result) /\ pushes' = pushes
          /\ pending_inputs # <<>> /\ reports # <<>>
      BY <1>3 DEF Completion, Claims, history
    <2>2. Head(reports).result \in Answers
      <3>1. reports \in Seq(Report)
        BY Types DEF IInv
      <3>2. Head(reports) \in Report
        BY <2>1, <3>1
      <3> QED
        BY <3>2 DEF Report, Results, Answers
    <2>3. X \subseteq Range(pending_inputs) \cup Ids(slots)
      BY <2>1, FrontIsQueued, CompletedSlots
    <2> HIDE DEF X
    <2> QED
      BY <2>1, <2>2, <2>3, AnswersOpen DEF Seen
  <1>4. CASE SoftCancel
    BY <1>4, SoftCancelSeen DEF Seen
  <1>5. CASE RewindSnapshot \/ RewindRestore
    <2>1. CASE RewindSnapshot
      <3>1. receipt' = Told(rewinding.messages, "rewound") /\ pushes' = pushes
            /\ rewinding.messages \subseteq Claimed
        BY <2>1 DEF RewindSnapshot, Claimed, history
      <3> QED
        BY <3>1, AnswersOpen DEF Seen, Answers
    <2>2. CASE RewindRestore
      <3>1. receipt' = Told({rewinding.input}, "rewound") /\ pushes' = pushes
            /\ {rewinding.input} \subseteq Claimed
        BY <2>2 DEF RewindRestore, Claimed
      <3> QED
        BY <3>1, AnswersOpen DEF Seen, Answers
    <2> QED
      BY <1>5, <2>1, <2>2
  <1>a. CASE \E i \in Resumes : ResumePlan(i)
    <2>1. PICK i \in Resumes : ResumePlan(i)
      BY <1>a
    <2>2. i \in Inputs /\ receipt[i] = "none" /\ pushes' = pushes /\ receipt' = Told({i}, "waiting")
      BY <2>1 DEF ResumePlan, Enqueue, history, Inputs
    <2> QED
      BY <2>2, ToldFacts DEF Seen, SeesAccept, IInv
  <1>6. CASE HardCancel \/ ShutdownCancelling \/ DropActor \/ Close
    <2>1. pushes' = pushes
      BY <1>6 DEF HardCancel, ShutdownCancelling, HardCancelled, DropActor, Close, history
    <2>2. CASE HardCancel \/ ShutdownCancelling
      <3>1. receipt' = Told(Range(pending_inputs) \cup Completions(All, "HardTeardown"), "cancelled")
        BY <2>2 DEF HardCancel, ShutdownCancelling, HardCancelled
      <3> QED
        BY <2>1, <3>1, CompletedSlots, AnswersOpen DEF Seen, Answers
    <2>3. CASE DropActor
      <3>1. receipt' = Told(Range(pending_inputs) \cup Claimed \cup Completions(All, "ActorDrop"), "error")
        BY <2>3 DEF DropActor
      <3> QED
        BY <2>1, <3>1, CompletedSlots, AnswersOpen DEF Seen, Answers
    <2>4. CASE Close
      <3>1. receipt' = Told(Completions(All, "HardTeardown"), "error")
        BY <2>4 DEF Close, Settled
      <3> QED
        BY <2>1, <3>1, CompletedSlots, AnswersOpen DEF Seen, Answers
    <2> QED
      BY <1>6, <2>2, <2>3, <2>4
  <1>7. CASE PushPrompt
    <2>1. /\ running_task.input \in Inputs /\ receipt[running_task.input] = "waiting"
          /\ 1 \in DOMAIN pending_inputs /\ pending_inputs[1] = running_task.input
      BY <1>7, TaskHasTurn DEF PushPrompt
    <2>2. pushes[running_task.input] = 0
      BY <1>7, <2>1 DEF PushPrompt, IInv, Pushes, Before
    <2>3. receipt' = receipt /\ (pushes' = pushes \/ pushes' = Pushed({running_task.input}))
      BY <1>7 DEF PushPrompt
    <2> QED
      BY <2>1, <2>2, <2>3, PushesSeen DEF Seen, SeesNothing, Open
  <1>8. CASE CommitDelivery
    <2>1. pushes' = Pushed(Ids(Batch)) /\ receipt' = receipt
      BY <1>8 DEF CommitDelivery
    <2>2. Ids(Batch) \subseteq Open
      BY BatchIds DEF Open, Inputs
    <2>3. \A i \in Ids(Batch) : pushes[i] = 0
      BY BatchIds DEF IInv, Pushes
    <2> QED
      BY <2>1, <2>2, <2>3, PushesSeen DEF Seen
  <1>9. CASE \/ StaleCompletion \/ UNCHANGED vars \/ McpPromote
             \/ \E legacy \in BOOLEAN : RewindClaim(legacy)
             \/ \E b \in MayClose : CloseMailbox(b)
             \/ ReadIndex \/ HookBlocks \/ EndBlocked
             \/ TakeIndex \/ Output \/ BeginDrain \/ BarrierFails \/ CommitNothing \/ CommitFails
             \/ \E r \in Results : EndEarly(r) \/ EndTurn(r)
    <2>1. receipt' = receipt /\ pushes' = pushes
      BY <1>9 DEF StaleCompletion, McpPromote, RewindClaim, CloseMailbox, ReadIndex, HookBlocks,
         EndBlocked, TakeIndex, Output, BeginDrain, BarrierFails,
         CommitNothing, CommitFails, EndEarly, EndTurn, vars, history
    <2> QED
      BY <2>1 DEF Seen, SeesNothing
  <1> QED
    BY <1>1, <1>2, <1>3, <1>4, <1>5, <1>6, <1>7, <1>8, <1>9, <1>a DEF Next, TurnTask

\* The session implements the contract of MessageContract: whatever teardowns,
\* rewinds and failed drains do, a text is pushed at most once and only while its
\* receipt is open, and a receipt is answered at most once.
THEOREM ContractCorrect == Spec => KeepsContract
  <1>1. Init => Contract!Init
    BY DEF Init, Contract!Init
  <1>2. ASSUME IInv, [Next]_vars PROVE [Contract!Next]_(Contract!vars)
    <2> DEFINE st(i) == CASE receipt[i] = "none" -> "new" [] receipt[i] = "waiting" -> "owed"
                          [] OTHER -> "answered"
               status == [i \in Inputs |-> st(i)]
    <2>1. CASE SeesNothing
      BY <2>1 DEF SeesNothing, Contract!vars
    <2>2. CASE SeesAccept
      <3>1. PICK i \in Inputs : /\ receipt[i] = "none" /\ pushes' = pushes
                                /\ \A j \in Inputs : receipt'[j] = IF j = i THEN "waiting" ELSE receipt[j]
        BY <2>2 DEF SeesAccept
      <3>2. status[i] = "new" /\ status' = [status EXCEPT ![i] = "owed"]
        BY <3>1
      <3>3. Contract!Accept(i)
        BY <3>1, <3>2 DEF Contract!Accept
      <3> QED
        BY <3>3 DEF Contract!Next
    <2>3. CASE SeesPush
      <3>1. PICK S \in SUBSET Open :
              /\ receipt' = receipt /\ \A i \in S : pushes[i] = 0
              /\ pushes' = [i \in Inputs |-> IF i \in S THEN 1 ELSE pushes[i]]
        BY <2>3 DEF SeesPush
      <3>2. S \in SUBSET Contract!Owed
        BY DEF Open, Contract!Owed
      <3>3. Contract!Push(S)
        BY <3>1 DEF Contract!Push
      <3> QED
        BY <3>2, <3>3 DEF Contract!Next
    <2>4. CASE SeesAnswer
      <3>1. PICK S \in SUBSET Open :
              /\ pushes' = pushes
              /\ \A i \in Inputs : IF i \in S THEN receipt'[i] \in Answers ELSE receipt'[i] = receipt[i]
        BY <2>4 DEF SeesAnswer
      <3>2. S \in SUBSET Contract!Owed
        BY DEF Open, Contract!Owed
      <3>3. status' = [i \in Inputs |-> IF i \in S THEN "answered" ELSE status[i]]
        BY <3>1 DEF Answers
      <3>4. Contract!Answer(S)
        BY <3>1, <3>3 DEF Contract!Answer
      <3> QED
        BY <3>2, <3>4 DEF Contract!Next
    <2> QED
      BY <1>2, <2>1, <2>2, <2>3, <2>4, NextSeen DEF Seen
  <1> QED
    BY <1>1, <1>2, Invariance, PTL DEF Spec, KeepsContract, Contract!Spec

\* No text is written to updates.jsonl after its sender was told the outcome, even
\* when a teardown settles the slot while the drain awaits its barrier.
THEOREM SilenceCorrect == Spec => SettledIsSilent
  <1>1. ASSUME IInv, [Next]_vars
        PROVE  [\A m \in Messages : Answered(m) /\ m \in written' => m \in written]_vars
    <2>1. CASE CommitDelivery \/ CommitFails
      <3>1. written' \subseteq written \cup Ids(Batch)
        <4>1. CASE CommitDelivery
          BY <4>1 DEF CommitDelivery
        <4>2. CASE CommitFails
          BY <1>1, <4>2, BatchIds, PrefixIds DEF CommitFails
        <4> QED
          BY <2>1, <4>1, <4>2
      <3> QED
        BY <1>1, <3>1, BatchIds DEF Answered, Inputs
    <2>2. CASE \/ TakeIndex \/ PushPrompt \/ Output \/ BeginDrain \/ BarrierFails \/ CommitNothing
               \/ ReadIndex \/ HookBlocks \/ EndBlocked
               \/ \E r \in Results : EndEarly(r) \/ EndTurn(r)
      BY <2>2 DEF ReadIndex, HookBlocks, EndBlocked, TakeIndex, PushPrompt, Output, BeginDrain, BarrierFails, CommitNothing,
         EndEarly, EndTurn, history
    <2>3. CASE \/ \E p \in Prompts : Prompt(p)
               \/ \E m \in Messages : AdmitQueue(m) \/ AdmitSteer(m)
               \/ McpPromote \/ \E i \in Resumes : ResumePlan(i)
               \/ \E b \in MayClose : CloseMailbox(b)
               \/ UNCHANGED vars
      BY <2>3 DEF Prompt, AdmitQueue, AdmitSteer, McpPromote, ResumePlan, Enqueue, CloseMailbox, history, vars
    <2>4. CASE \/ Completion \/ StaleCompletion \/ SoftCancel \/ HardCancel
               \/ (\E legacy \in BOOLEAN : RewindClaim(legacy)) \/ RewindSnapshot \/ RewindRestore
               \/ Close \/ ShutdownCancelling \/ DropActor
      BY <2>4 DEF Completion, StaleCompletion, SoftCancel, HardCancel, HardCancelled, RewindClaim,
         RewindSnapshot, RewindRestore,
         Close, ShutdownCancelling, DropActor, history
    <2> QED
      BY <1>1, <2>1, <2>2, <2>3, <2>4 DEF Next, TurnTask
  <1> QED
    BY <1>1, Invariance, PTL DEF Spec, SettledIsSilent

----------------------------------------------------------------------------
\* What a rewind cuts

\* The conversation from its row f on is what the running turn put there: its prompt,
\* under the last prompt index, and messages of its slots.  Where the prompt is not in,
\* f is one past the end.
OwnTail(f, talk, stage, p, t, own, ids) ==
    /\ \A k \in 1..(f - 1) : talk[k].input # own /\ talk[k].input \notin ids
    /\ \A k \in (f + 1)..Len(talk) : talk[k].input \in ids
    /\ f <= Len(talk) =>
         /\ talk[f].input = own /\ talk[f].marker = p - 1
         /\ stage \in {"working", "barrier", "ended"}
         /\ p > 0 /\ \A k \in 1..(f - 1) : talk[k].marker < p - 1
    /\ stage \in {"working", "barrier"} => f <= Len(talk)
    /\ stage = "hook" => t = p
    /\ stage = "indexed" => p > 0 /\ t = p - 1 /\ \A k \in 1..Len(talk) : talk[k].marker < p - 1

\* The row f of the conversation is the prompt that a rewind has claimed, the first row
\* that its cut takes; what else it has claimed comes later.  Where the prompt is not in,
\* f is one past the end and nothing that was claimed is in.
ClaimedTail(f, talk, rewind) ==
    /\ \A k \in 1..Len(talk) : k # f => talk[k].input # rewind.input
    /\ \A k \in 1..(f - 1) : talk[k].input \notin rewind.messages
    /\ f <= Len(talk) => /\ talk[f].marker >= rewind.target
                         /\ \A k \in 1..(f - 1) : talk[k].marker < rewind.target

\* What a snapshot keeps: all that precedes the prompt, and unless the cut was taken
\* after another turn had come nothing of the rewound turn.
KeptRows(talk, rewind, e) ==
    /\ \A k \in 1..Len(talk) : talk[k].input = rewind.input =>
          k - 1 <= Len(rewind.kept) /\ \A j \in 1..(k - 1) : rewind.kept[j] = talk[j]
    /\ \A j \in 1..Len(rewind.kept) : rewind.kept[j].marker < rewind.target
    /\ (rewind.legacy => e = rewind.epoch) =>
          \A j \in 1..Len(rewind.kept) :
              rewind.kept[j].input # rewind.input /\ rewind.kept[j].input \notin rewind.messages

\* The conversation, and what a rewind keeps of it, were pushed.
Known ==
    /\ \A k \in DOMAIN conversation : pushes[conversation[k].input] = 1
    /\ \A k \in DOMAIN rewinding.kept : pushes[rewinding.kept[k].input] = 1

\* The loop waits for a rewind; no turn runs until one is promoted beside it, and until
\* then the prompt index stands.
Idle ==
    rewinding # NoRewind =>
        /\ loop = "open" /\ rewinding.epoch <= epoch /\ rewinding.target <= RewindIndex
        /\ epoch = rewinding.epoch => running_task = NoTurn /\ rewinding.target = RewindIndex

\* While rewinds cut, and none was overtaken: no marker has reached the prompt index, and
\* the tails are as above.
Cuts == loop = "open" /\ "chat" \in mailboxes /\ ~overtaken
Below == Cuts => \A k \in DOMAIN conversation : conversation[k].marker < prompt_index
Ends ==
    Cuts => \E f \in 1..(Len(conversation) + 1) :
               OwnTail(f, conversation, task, prompt_index, turn_index, running_task.input, Ids(slots))
Taken ==
    Cuts /\ rewinding.stage = "claimed" =>
        \E f \in 1..(Len(conversation) + 1) : ClaimedTail(f, conversation, rewinding)
Snapped ==
    Cuts /\ rewinding.stage = "snapshot" => KeptRows(conversation, rewinding, epoch)
Talk == Known /\ Idle /\ Below /\ Ends /\ Taken /\ Snapped

\* The conversation, with the name of its type
LEMMA TalkTypes ==
    ASSUME TypeOK
    PROVE  /\ conversation \in Seq(Row) /\ Len(conversation) \in Nat /\ prompt_index \in Nat
           /\ DOMAIN conversation = 1..Len(conversation)
           /\ \A k \in DOMAIN conversation :
                 /\ conversation[k] \in Row
                 /\ conversation[k].input \in Inputs /\ conversation[k].marker \in Int
  <1>1. conversation \in Seq(Row) /\ prompt_index \in Nat
    BY DEF TypeOK, Row
  <1>2. \A k \in DOMAIN conversation : conversation[k] \in Row
    BY <1>1
  <1> QED
    BY <1>1, <1>2 DEF Row

\* A rewind is in progress in the stages that name one.
LEMMA Rewinding ==
    ASSUME TypeOK PROVE rewinding # NoRewind <=> rewinding.stage # "none"
  BY DEF TypeOK, Rewinds, NoRewind

\* A step that leaves the conversation and the claim alone.
LEMMA TalkStands ==
    ASSUME IInv, Talk, UNCHANGED <<conversation, pushes, prompt_index, rewinding, overtaken>>,
           mailboxes' \subseteq mailboxes, loop' \in {loop, "closed", "gone"},
           epoch' \in {epoch, epoch + 1},
           rewinding # NoRewind => loop' = loop /\ (epoch' = epoch => running_task' = running_task)
    PROVE  Known' /\ Idle' /\ Below' /\ Taken' /\ Snapped' /\ (Cuts' => Cuts)
  <1>1. Known'
    BY DEF Talk, Known
  <1>2. Cuts' => Cuts
    BY DEF Cuts
  <1>3. Below' /\ Taken'
    BY <1>2 DEF Talk, Below, Taken
  <1>4. ASSUME rewinding # NoRewind
        PROVE  /\ rewinding.epoch \in Nat /\ epoch \in Nat /\ rewinding.epoch <= epoch
               /\ rewinding.epoch <= epoch' /\ (epoch' = rewinding.epoch => epoch' = epoch)
    <2>1. rewinding.epoch \in Nat /\ epoch \in Nat
      BY <1>4, Rewinding, RewindTypes DEF IInv, TypeOK
    <2>2. rewinding.epoch <= epoch
      BY <1>4 DEF Talk, Idle
    <2> QED
      BY <2>1, <2>2
  <1>5. RewindIndex' = RewindIndex
    BY DEF RewindIndex
  <1>6. Idle'
    BY <1>4, <1>5 DEF Talk, Idle
  <1>7. Snapped'
    <2> SUFFICES ASSUME Cuts', rewinding.stage = "snapshot"
                 PROVE  KeptRows(conversation, rewinding, epoch')
      BY DEF Snapped
    <2>1. KeptRows(conversation, rewinding, epoch)
      BY <1>2 DEF Talk, Snapped
    <2>2. epoch' = rewinding.epoch => epoch = rewinding.epoch
      BY <1>4, Rewinding DEF IInv
    <2> QED
      BY <2>1, <2>2 DEF KeptRows
  <1> QED
    BY <1>1, <1>2, <1>3, <1>6, <1>7

\* A turn that has not pushed its prompt, and has no slots, has nothing in the
\* conversation.
LEMMA FreshTurn ==
    ASSUME IInv', Known', slots' = <<>>, task' \in {"none", "starting"}
    PROVE  Ends'
  <1>1. /\ conversation' \in Seq(Row) /\ Len(conversation') \in Nat
        /\ DOMAIN conversation' = 1..Len(conversation')
        /\ \A k \in DOMAIN conversation' : conversation'[k].input \in Inputs
    <2>1. conversation' \in Seq(Row)
      BY DEF IInv, TypeOK, Row
    <2>2. \A k \in DOMAIN conversation' : conversation'[k] \in Row
      BY <2>1
    <2> QED
      BY <2>1, <2>2 DEF Row
  <1>2. Ids(slots)' = {}
    BY DEF Ids
  <1>3. \A k \in DOMAIN conversation' : conversation'[k].input # running_task'.input
    <2>1. CASE running_task' = NoTurn
      BY <1>1, <2>1, DeliveryAssumption DEF NoTurn
    <2>2. CASE running_task' # NoTurn
      <3>1. pending_inputs' # <<>> /\ pending_inputs'[1] = running_task'.input
        BY <2>2 DEF IInv, FrontRow
      <3>2. 1 \in DOMAIN pending_inputs'
        BY <3>1 DEF IInv, TypeOK
      <3>3. pushes'[running_task'.input] = 0
        BY <3>1, <3>2 DEF IInv, Pushes, Before
      <3> QED
        BY <3>3 DEF Known
    <2> QED
      BY <2>1, <2>2
  <1> DEFINE n == Len(conversation')
  <1>4. OwnTail(n + 1, conversation', task', prompt_index', turn_index', running_task'.input, Ids(slots)')
    BY <1>1, <1>2, <1>3 DEF OwnTail
  <1> QED
    BY <1>1, <1>4 DEF Ends

\* How the task of a turn moves without a push or a new prompt index
Moves ==
    \/ task' = task /\ turn_index' = turn_index
    \/ task = "starting" /\ task' = "hook" /\ turn_index' = prompt_index
    \/ task \in {"starting", "hook", "blocked", "indexed"} /\ task' \in {"blocked", "ended"}
    \/ task \in {"working", "barrier"} /\ task' \in {"working", "barrier", "ended"}

\* A step of the running turn that pushes nothing; new slots hold new messages.
LEMMA SameTurn ==
    ASSUME IInv, Talk, conversation' = conversation, prompt_index' = prompt_index,
           running_task' = running_task, Cuts' => Cuts, Moves,
           Ids(slots) \subseteq Ids(slots)', \A i \in Ids(slots)' : i \in Ids(slots) \/ pushes[i] = 0
    PROVE  Ends'
  <1> SUFFICES ASSUME Cuts'
               PROVE  \E f \in 1..(Len(conversation) + 1) :
                         OwnTail(f, conversation, task', prompt_index, turn_index', running_task.input, Ids(slots)')
    BY DEF Ends
  <1>1. PICK f \in 1..(Len(conversation) + 1) :
               OwnTail(f, conversation, task, prompt_index, turn_index, running_task.input, Ids(slots))
    BY DEF Talk, Ends
  <1>2. f \in Nat /\ Len(conversation) \in Nat /\ DOMAIN conversation = 1..Len(conversation)
    BY TalkTypes DEF IInv
  <1> DEFINE J == Ids(slots)'
             I == Ids(slots)
  <1>3. I \subseteq J /\ \A i \in J : i \in I \/ pushes[i] = 0
    OBVIOUS
  <1> HIDE DEF I, J
  <1>4. \A k \in 1..(f - 1) : conversation[k].input # running_task.input /\ conversation[k].input \notin J
    <2> SUFFICES ASSUME NEW k \in 1..(f - 1)
                 PROVE  conversation[k].input # running_task.input /\ conversation[k].input \notin J
      OBVIOUS
    <2>1. conversation[k].input # running_task.input /\ conversation[k].input \notin I
      BY <1>1 DEF OwnTail, I
    <2>2. pushes[conversation[k].input] = 1
      BY <1>2 DEF Talk, Known
    <2> QED
      BY <1>3, <2>1, <2>2
  <1>5. \A k \in (f + 1)..Len(conversation) : conversation[k].input \in J
    BY <1>1, <1>3 DEF OwnTail, I
  <1>6. /\ f <= Len(conversation) =>
             /\ conversation[f].input = running_task.input
             /\ conversation[f].marker = prompt_index - 1
             /\ task' \in {"working", "barrier", "ended"}
             /\ prompt_index > 0 /\ \A k \in 1..(f - 1) : conversation[k].marker < prompt_index - 1
        /\ task' \in {"working", "barrier"} => f <= Len(conversation)
        /\ task' = "hook" => turn_index' = prompt_index
        /\ task' = "indexed" =>
             /\ prompt_index > 0 /\ turn_index' = prompt_index - 1
             /\ \A k \in 1..Len(conversation) : conversation[k].marker < prompt_index - 1
    BY <1>1 DEF OwnTail, Moves
  <1>7. OwnTail(f, conversation, task', prompt_index, turn_index', running_task.input, J)
    BY <1>4, <1>5, <1>6 DEF OwnTail
  <1> QED
    BY <1>7 DEF J

\* A handler that ends the turn: whatever is promoted next has nothing in the
\* conversation.
LEMMA EndedTalk ==
    ASSUME IInv, Talk, IInv', NEW target \in {All, running_task}, slots' = Kept(target),
           rewinding = NoRewind, task' \in {"none", "starting"},
           UNCHANGED <<conversation, pushes, prompt_index, rewinding, overtaken, mailboxes>>,
           loop' \in {loop, "closed", "gone"}, epoch' \in {epoch, epoch + 1}
    PROVE  Talk'
  <1>1. Known' /\ Idle' /\ Below' /\ Taken' /\ Snapped'
    BY TalkStands
  <1>2. slots' = <<>>
    BY TerminalFacts DEF IInv
  <1>3. Ends'
    BY <1>1, <1>2, FreshTurn
  <1> QED
    BY <1>1, <1>3 DEF Talk

\* So do a completion, the cancels and the cancelling shutdown, which no rewind overlaps.
LEMMA EndsTalk ==
    ASSUME IInv, Talk, IInv', Completion \/ SoftCancel \/ HardCancel \/ ShutdownCancelling PROVE Talk'
  <1>1. CASE Completion
    <2>1. /\ Claims(Head(reports).turn) /\ slots' = Kept(Head(reports).turn) /\ rewinding = NoRewind
          /\ UNCHANGED <<conversation, pushes, prompt_index, rewinding, overtaken, mailboxes, loop>>
          /\ \E rows : Promote(rows, NoTurn, "none")
      BY <1>1 DEF Completion, Free, chat, history
    <2>2. Head(reports).turn \in {All, running_task}
      BY <2>1 DEF Claims
    <2>3. task' \in {"none", "starting"} /\ epoch' \in {epoch, epoch + 1}
      BY <2>1 DEF Promote
    <2> QED
      BY <2>1, <2>2, <2>3, EndedTalk
  <1>2. CASE SoftCancel
    <2>1. /\ slots' = Kept(CancelTarget) /\ rewinding = NoRewind
          /\ UNCHANGED <<conversation, pushes, prompt_index, rewinding, overtaken, mailboxes, loop>>
          /\ \E rows : Promote(rows, NoTurn, "none")
      BY <1>2 DEF SoftCancel, Free, chat, channels, history
    <2>2. CancelTarget \in {All, running_task}
      BY DEF CancelTarget
    <2>3. task' \in {"none", "starting"} /\ epoch' \in {epoch, epoch + 1}
      BY <2>1 DEF Promote
    <2> QED
      BY <2>1, <2>2, <2>3, EndedTalk
  <1>3. CASE HardCancel \/ ShutdownCancelling
    <2>1. /\ slots' = Kept(All) /\ rewinding = NoRewind /\ task' = "none" /\ epoch' = epoch
          /\ UNCHANGED <<conversation, pushes, prompt_index, rewinding, overtaken, mailboxes>>
          /\ loop' \in {loop, "closed", "gone"}
      BY <1>3 DEF HardCancel, ShutdownCancelling, HardCancelled, Free, chat, history
    <2> QED
      BY <2>1, EndedTalk
  <1> QED
    BY <1>1, <1>2, <1>3

\* Once the loop has returned, or the actor is gone, nothing is rewound.
LEMMA OverTalk ==
    ASSUME IInv, Talk, Close \/ DropActor PROVE Talk'
  <1>1. CASE Close
    <2>1. /\ loop' = "closed" /\ rewinding = NoRewind /\ epoch' = epoch
          /\ UNCHANGED <<conversation, pushes, prompt_index, rewinding, overtaken, mailboxes>>
      BY <1>1 DEF Close, Free, chat, history
    <2>2. Known' /\ Idle' /\ Below' /\ Taken' /\ Snapped'
      BY <2>1, TalkStands
    <2>3. Ends'
      BY <2>1 DEF Ends, Cuts
    <2> QED
      BY <2>2, <2>3 DEF Talk
  <1>2. CASE DropActor
    <2>1. loop' = "gone" /\ rewinding' = NoRewind /\ UNCHANGED <<conversation, pushes>>
      BY <1>2 DEF DropActor, chat, history
    <2>2. Known'
      BY <2>1 DEF Talk, Known, NoRewind
    <2>3. Idle' /\ Below' /\ Ends' /\ Taken' /\ Snapped'
      BY <2>1 DEF Idle, Below, Ends, Taken, Snapped, Cuts
    <2> QED
      BY <2>2, <2>3 DEF Talk
  <1> QED
    BY <1>1, <1>2

\* The queue may grow and its front may be promoted, also while a rewind is in progress.
LEMMA PromoteTalk ==
    ASSUME IInv, Talk, IInv', NEW rows, Promote(rows, running_task, task),
           UNCHANGED <<loop, mailboxes, conversation, pushes, prompt_index, turn_index, rewinding,
                       overtaken, slots>>
    PROVE  Talk'
  <1>1. \/ task' = "starting" /\ running_task = NoTurn /\ epoch' = epoch + 1
        \/ task' = task /\ running_task' = running_task /\ epoch' = epoch
    BY DEF Promote
  <1>2. epoch \in Nat
    BY DEF IInv, TypeOK
  <1>3. Known' /\ Idle' /\ Below' /\ Taken' /\ Snapped' /\ (Cuts' => Cuts)
    BY <1>1, <1>2, TalkStands
  <1>4. CASE running_task' = running_task /\ task' = task
    <2>1. Ids(slots)' = Ids(slots)
      BY DEF Ids
    <2>2. Moves
      BY <1>4 DEF Moves
    <2>3. Ends'
      BY <1>3, <1>4, <2>1, <2>2, SameTurn
    <2> QED
      BY <1>3, <2>3 DEF Talk
  <1>5. CASE running_task = NoTurn /\ task' = "starting"
    <2>1. DOMAIN slots = {} /\ slots \in Seq(Slot)
      BY <1>5, NoTurnNoSlots, Types DEF IInv
    <2>2. slots' = <<>>
      BY <2>1
    <2>3. Ends'
      BY <1>3, <1>5, <2>2, FreshTurn
    <2> QED
      BY <1>3, <2>3 DEF Talk
  <1> QED
    BY <1>1, <1>4, <1>5

\* An input that joins the queue
LEMMA EnqueueTalk ==
    ASSUME IInv, Talk, IInv', NEW i, Enqueue(i) PROVE Talk'
  <1>1. /\ Promote(Append(pending_inputs, i), running_task, task)
        /\ UNCHANGED <<loop, mailboxes, conversation, pushes, prompt_index, turn_index, rewinding,
                       overtaken, slots>>
    BY DEF Enqueue, chat, channels, history
  <1> QED
    BY <1>1, PromoteTalk

\* The promotion of the start-up task
LEMMA McpPromoteTalk ==
    ASSUME IInv, Talk, IInv', McpPromote PROVE Talk'
  <1>1. /\ Promote(pending_inputs, running_task, task)
        /\ UNCHANGED <<loop, mailboxes, conversation, pushes, prompt_index, turn_index, rewinding,
                       overtaken, slots>>
    BY DEF McpPromote, chat, channels, history
  <1> QED
    BY <1>1, PromoteTalk

\* Steps that leave the conversation, the queue and the claim alone
LEMMA TaskTalk ==
    ASSUME IInv, Talk, Moves, mailboxes' \subseteq mailboxes,
           UNCHANGED <<loop, running_task, epoch, conversation, pushes, prompt_index, rewinding, overtaken>>,
           Ids(slots) \subseteq Ids(slots)', \A i \in Ids(slots)' : i \in Ids(slots) \/ pushes[i] = 0
    PROVE  Talk'
  <1>1. Known' /\ Idle' /\ Below' /\ Taken' /\ Snapped' /\ (Cuts' => Cuts)
    BY TalkStands
  <1>2. Ends'
    BY <1>1, SameTurn
  <1> QED
    BY <1>1, <1>2 DEF Talk

\* A message that gets a slot is new, so it is not in the conversation yet.
LEMMA AdmitSteerTalk ==
    ASSUME IInv, Talk, NEW m \in Messages, AdmitSteer(m) PROVE Talk'
  <1>1. /\ Free /\ Admissible(m) /\ task' = task /\ turn_index' = turn_index /\ mailboxes' = mailboxes
        /\ UNCHANGED <<loop, running_task, epoch, conversation, pushes, prompt_index, rewinding, overtaken>>
        /\ slots' = Append(slots, [id |-> m, turn |-> running_task, phase |-> "pending"])
    BY DEF AdmitSteer, session, chat, channels, history
  <1>2. pushes[m] = 0
    BY <1>1, AdmissibleIsNew DEF IInv, Pushes
  <1>3. Ids(slots)' = Ids(slots) \cup {m}
    <2>1. slots \in Seq(Slot) /\ Len(slots) \in Nat /\ DOMAIN slots = 1..Len(slots)
      BY Types DEF IInv
    <2>2. /\ DOMAIN slots' = 1..(Len(slots) + 1) /\ slots'[Len(slots) + 1].id = m
          /\ \A k \in 1..Len(slots) : slots'[k] = slots[k]
      BY <1>1, <2>1
    <2> QED
      BY <2>1, <2>2 DEF Ids
  <1>4. Moves
    BY <1>1 DEF Moves
  <1> QED
    BY <1>1, <1>2, <1>3, <1>4, TaskTalk

\* The turn takes its index: every marker is now below it by more than one.
LEMMA TakeIndexTalk ==
    ASSUME IInv, Talk, TakeIndex PROVE Talk'
  <1>1. /\ task = "hook" /\ task' = "indexed"
        /\ UNCHANGED <<loop, mailboxes, conversation, pushes, epoch, running_task, slots, turn_index,
                       rewinding, overtaken>>
        /\ prompt_index' = IF "chat" \in mailboxes THEN prompt_index + 1 ELSE prompt_index
    BY DEF TakeIndex, Reaches, Beside, channels
  <1>2. Known'
    BY <1>1 DEF Talk, Known
  <1>3. Cuts' = Cuts
    BY <1>1 DEF Cuts
  <1>4. ASSUME Cuts
        PROVE  /\ prompt_index' = prompt_index + 1 /\ prompt_index \in Nat
               /\ DOMAIN conversation = 1..Len(conversation)
               /\ \A k \in DOMAIN conversation :
                     conversation[k].marker \in Int /\ conversation[k].marker < prompt_index
    BY <1>1, <1>4, TalkTypes DEF Cuts, Talk, Below, IInv
  <1>5. Below'
    BY <1>1, <1>3, <1>4 DEF Below
  <1>6. ASSUME Cuts
        PROVE  \E f \in 1..(Len(conversation) + 1) :
                  OwnTail(f, conversation, "indexed", prompt_index + 1, turn_index, running_task.input, Ids(slots))
    <2>1. PICK f \in 1..(Len(conversation) + 1) :
                 OwnTail(f, conversation, "hook", prompt_index, turn_index, running_task.input, Ids(slots))
      BY <1>1, <1>6 DEF Talk, Ends
    <2>2. ~(f <= Len(conversation)) /\ turn_index = prompt_index
      BY <2>1 DEF OwnTail
    <2>3. prompt_index + 1 > 0 /\ turn_index = (prompt_index + 1) - 1
          /\ \A k \in 1..Len(conversation) : conversation[k].marker < (prompt_index + 1) - 1
      BY <1>4, <1>6, <2>2
    <2>4. OwnTail(f, conversation, "indexed", prompt_index + 1, turn_index, running_task.input, Ids(slots))
      BY <2>1, <2>2, <2>3 DEF OwnTail
    <2> QED
      BY <2>4
  <1>7. Ids(slots)' = Ids(slots)
    BY <1>1 DEF Ids
  <1>8. Ends'
    BY <1>1, <1>3, <1>4, <1>6, <1>7 DEF Ends
  <1>9. Taken' /\ Snapped'
    BY <1>1, <1>3 DEF Talk, Taken, Snapped
  <1>10. Idle'
    <2> SUFFICES ASSUME rewinding # NoRewind
                 PROVE  /\ loop = "open" /\ rewinding.epoch <= epoch /\ rewinding.target <= RewindIndex'
                        /\ epoch # rewinding.epoch
      BY <1>1 DEF Idle
    <2>1. running_task # NoTurn
      BY <1>1 DEF IInv, FrontRow
    <2>2. /\ loop = "open" /\ rewinding.epoch <= epoch /\ rewinding.target <= RewindIndex
          /\ epoch # rewinding.epoch
      BY <2>1 DEF Talk, Idle
    <2>3. rewinding.target \in Nat /\ prompt_index \in Nat
      BY Rewinding, RewindTypes DEF IInv, TypeOK
    <2>4. RewindIndex \in Nat /\ RewindIndex' \in Nat /\ RewindIndex <= RewindIndex'
      BY <1>1, <2>3 DEF RewindIndex
    <2> QED
      BY <2>2, <2>3, <2>4
  <1> QED
    BY <1>2, <1>5, <1>8, <1>9, <1>10 DEF Talk


\* Rows that are pushed at the end: none is of an input that a rewind has claimed.
LEMMA AppendedTalk ==
    ASSUME IInv, Talk, NEW m \in Nat, NEW n, n = Len(conversation),
           Len(conversation') = n + m, DOMAIN conversation' = 1..(n + m),
           \A k \in 1..n : conversation'[k] = conversation[k],
           \A k \in (n + 1)..(n + m) : conversation'[k].input \notin Claimed
                                       /\ pushes'[conversation'[k].input] = 1,
           \A i \in Inputs : pushes[i] = 1 => pushes'[i] = 1,
           UNCHANGED <<loop, mailboxes, running_task, epoch, prompt_index, rewinding, overtaken>>
    PROVE  Known' /\ Idle' /\ Taken' /\ Snapped'
  <1>1. /\ n \in Nat /\ DOMAIN conversation = 1..n
        /\ \A k \in 1..n : conversation[k].input \in Inputs
    BY TalkTypes DEF IInv
  <1>2. \A k \in 1..(n + m) : k \in 1..n \/ k \in (n + 1)..(n + m)
    BY <1>1
  <1>3. Known'
    <2>1. \A k \in 1..(n + m) : pushes'[conversation'[k].input] = 1
      BY <1>1, <1>2 DEF Talk, Known
    <2>2. \A k \in DOMAIN rewinding.kept : pushes'[rewinding.kept[k].input] = 1
      <3>1. CASE rewinding = NoRewind
        BY <3>1 DEF NoRewind
      <3>2. CASE rewinding # NoRewind
        <4>1. rewinding.kept \in Seq(Row)
          BY <3>2, Rewinding, RewindTypes DEF IInv
        <4>2. \A k \in DOMAIN rewinding.kept : rewinding.kept[k] \in Row
          BY <4>1
        <4> QED
          BY <4>2 DEF Row, Talk, Known
      <3> QED
        BY <3>1, <3>2
    <2> QED
      BY <2>1, <2>2 DEF Known
  <1>4. Idle'
    BY DEF Talk, Idle, RewindIndex
  <1>5. Cuts' = Cuts
    BY DEF Cuts
  <1>6. Taken'
    <2> SUFFICES ASSUME Cuts, rewinding.stage = "claimed"
                 PROVE  \E f \in 1..(n + m + 1) : ClaimedTail(f, conversation', rewinding)
      BY <1>5 DEF Taken
    <2>1. PICK f \in 1..(n + 1) : ClaimedTail(f, conversation, rewinding)
      BY DEF Talk, Taken
    <2>2. \A k \in (n + 1)..(n + m) : /\ conversation'[k].input # rewinding.input
                                      /\ conversation'[k].input \notin rewinding.messages
      BY DEF Claimed
    <2>3. CASE f <= n
      <3>1. f \in 1..(n + m + 1) /\ f \in 1..n /\ \A k \in 1..(f - 1) : k \in 1..n
        BY <1>1, <2>3
      <3>2. \A k \in 1..(n + m) : k # f => conversation'[k].input # rewinding.input
        BY <1>2, <2>1, <2>2 DEF ClaimedTail
      <3>3. /\ \A k \in 1..(f - 1) : conversation'[k].input \notin rewinding.messages
            /\ conversation'[f].marker >= rewinding.target
            /\ \A k \in 1..(f - 1) : conversation'[k].marker < rewinding.target
        BY <2>1, <2>3, <3>1 DEF ClaimedTail
      <3>4. ClaimedTail(f, conversation', rewinding)
        BY <3>2, <3>3 DEF ClaimedTail
      <3> QED
        BY <3>1, <3>4
    <2>4. CASE f = n + 1
      <3>1. \A k \in 1..n : /\ conversation'[k].input # rewinding.input
                            /\ conversation'[k].input \notin rewinding.messages
        BY <1>1, <2>1, <2>4 DEF ClaimedTail
      <3>2. n + m + 1 \in 1..(n + m + 1) /\ ~(n + m + 1 <= n + m) /\ (n + m + 1) - 1 = n + m
        BY <1>1
      <3>3. ClaimedTail(n + m + 1, conversation', rewinding)
        BY <1>2, <2>2, <3>1, <3>2 DEF ClaimedTail
      <3> QED
        BY <3>2, <3>3
    <2> QED
      BY <1>1, <2>3, <2>4
  <1>7. Snapped'
    <2> SUFFICES ASSUME Cuts, rewinding.stage = "snapshot"
                 PROVE  KeptRows(conversation', rewinding, epoch)
      BY <1>5 DEF Snapped
    <2>1. KeptRows(conversation, rewinding, epoch)
      BY DEF Talk, Snapped
    <2>2. \A k \in 1..(n + m) : conversation'[k].input = rewinding.input => k \in 1..n
      BY <1>2 DEF Claimed
    <2>3. \A k \in 1..n : \A j \in 1..(k - 1) : conversation'[j] = conversation[j]
      BY <1>1
    <2>4. \A k \in 1..(n + m) : conversation'[k].input = rewinding.input =>
             k - 1 <= Len(rewinding.kept) /\ \A j \in 1..(k - 1) : rewinding.kept[j] = conversation'[j]
      BY <2>1, <2>2, <2>3 DEF KeptRows
    <2> QED
      BY <2>1, <2>4 DEF KeptRows
  <1> QED
    BY <1>3, <1>4, <1>6, <1>7

\* The prompt of the running turn goes in at the end.
LEMMA PushPromptTalk ==
    ASSUME IInv, Talk, PushPrompt PROVE Talk'
  <1> DEFINE own == running_task.input
             n == Len(conversation)
             row == [input |-> own, marker |-> turn_index]
  <1>1. /\ task = "indexed" /\ task' = "working" /\ slots' = slots /\ turn_index' = turn_index
        /\ UNCHANGED <<loop, mailboxes, running_task, epoch, prompt_index, rewinding, overtaken>>
    BY DEF PushPrompt, Reaches, Beside, channels
  <1>2. CASE "chat" \notin mailboxes
    <2>1. conversation' = conversation /\ pushes' = pushes
      BY <1>2 DEF PushPrompt
    <2>2. Known' /\ Idle' /\ Below' /\ Taken' /\ Snapped'
      BY <1>1, <2>1, TalkStands
    <2> QED
      BY <1>1, <1>2, <2>2 DEF Talk, Ends, Cuts
  <1>3. CASE "chat" \in mailboxes
    <2>1. conversation' = Append(conversation, row) /\ pushes' = Pushed({own})
      BY <1>3 DEF PushPrompt
    <2>2. own \in Inputs /\ pushes[own] = 0 /\ own \notin Claimed
      <3>1. own \in Inputs /\ 1 \in DOMAIN pending_inputs /\ pending_inputs[1] = own
        BY <1>1, TaskHasTurn
      <3>2. own \in Range(pending_inputs)
        BY <3>1 DEF Range
      <3> QED
        BY <1>1, <3>1, <3>2 DEF IInv, Pushes, Before, Apart
    <2>3. /\ n \in Nat /\ conversation \in Seq(Row) /\ DOMAIN conversation = 1..n /\ prompt_index \in Nat
          /\ \A k \in 1..n : conversation[k].input \in Inputs /\ conversation[k].marker \in Int
      BY TalkTypes DEF IInv
    <2>4. /\ Len(conversation') = n + 1 /\ DOMAIN conversation' = 1..(n + 1)
          /\ conversation'[n + 1] = row
          /\ \A k \in 1..n : conversation'[k] = conversation[k]
      <3> HIDE DEF row
      <3> QED
        BY <2>1, <2>3
    <2>5. \A i \in Inputs : pushes'[i] = IF i = own THEN 1 ELSE pushes[i]
      BY <2>1, <2>2 DEF Pushed
    <2>6. conversation'[n + 1].input = own /\ conversation'[n + 1].marker = turn_index
      BY <2>4
    <2> HIDE DEF own, n, row
    <2>7. Known' /\ Idle' /\ Taken' /\ Snapped'
      <3>1. \A k \in (n + 1)..(n + 1) : conversation'[k].input \notin Claimed
                                         /\ pushes'[conversation'[k].input] = 1
        BY <2>2, <2>3, <2>5, <2>6
      <3> QED
        BY <1>1, <2>2, <2>3, <2>4, <2>5, <3>1, AppendedTalk DEF n
    <2>8. ASSUME Cuts
          PROVE  /\ OwnTail(n + 1, conversation', "working", prompt_index, turn_index, own, Ids(slots))
                 /\ turn_index = prompt_index - 1
      <3>1. PICK f \in 1..(n + 1) :
                   OwnTail(f, conversation, "indexed", prompt_index, turn_index, own, Ids(slots))
        BY <1>1, <2>8 DEF Talk, Ends, own, n
      <3>2. f = n + 1
        BY <2>3, <3>1 DEF OwnTail, n
      <3>3. /\ prompt_index > 0 /\ turn_index = prompt_index - 1
            /\ \A k \in 1..n : /\ conversation[k].marker < prompt_index - 1
                               /\ conversation[k].input # own /\ conversation[k].input \notin Ids(slots)
        BY <2>3, <3>1, <3>2 DEF OwnTail, n
      <3> QED
        BY <2>3, <2>4, <2>6, <3>3 DEF OwnTail
    <2>9. Cuts' = Cuts
      BY <1>1 DEF Cuts
    <2>10. Below'
      <3> SUFFICES ASSUME Cuts, NEW k \in 1..(n + 1) PROVE conversation'[k].marker < prompt_index
        BY <1>1, <2>4, <2>9 DEF Below
      <3>1. CASE k \in 1..n
        BY <2>3, <2>4, <3>1 DEF Talk, Below
      <3>2. CASE k = n + 1
        BY <2>3, <2>6, <2>8, <3>2
      <3> QED
        BY <2>3, <3>1, <3>2
    <2>11. Ids(slots)' = Ids(slots)
      BY <1>1 DEF Ids
    <2>12. Ends'
      BY <1>1, <2>3, <2>4, <2>8, <2>9, <2>11 DEF Ends, own
    <2> QED
      BY <2>7, <2>10, <2>12 DEF Talk
  <1> QED
    BY <1>2, <1>3

\* Drained messages go in behind the prompt of their turn.
LEMMA CommitDeliveryTalk ==
    ASSUME IInv, Talk, CommitDelivery PROVE Talk'
  <1> DEFINE n == Len(conversation)
             m == Len(Batch)
             B == Ids(Batch)
             own == running_task.input
             add == [k \in 1..m |-> [input |-> Batch[k].id, marker |-> -1]]
  <1>1. /\ \A i : i \in B <=> \E k \in DOMAIN slots : slots[k].phase = "projecting" /\ slots[k].id = i
        /\ m \in Nat /\ DOMAIN Batch = 1..m
        /\ B \subseteq Inputs /\ B \subseteq Ids(slots)
        /\ \A i \in B : i \notin Claimed
    <2>1. /\ \A i : i \in B <=> \E k \in DOMAIN slots : slots[k].phase = "projecting" /\ slots[k].id = i
          /\ m \in Nat /\ DOMAIN Batch = 1..m /\ B \subseteq Messages
      BY BatchIds
    <2> HIDE DEF B
    <2> QED
      BY <2>1 DEF Inputs, Ids, IInv, Apart
  <1>2. /\ task = "barrier" /\ task' = "working"
        /\ UNCHANGED <<loop, mailboxes, running_task, epoch, prompt_index, turn_index, rewinding, overtaken>>
        /\ slots' = Advance("projecting", "delivered", running_task)
        /\ conversation' = conversation \o add /\ pushes' = Pushed(B)
    BY <1>1 DEF CommitDelivery, Reaches, Beside, channels
  <1>3. Ids(slots)' = Ids(slots)
    BY <1>2, AdvanceFacts DEF IInv
  <1>4. /\ n \in Nat /\ conversation \in Seq(Row) /\ DOMAIN conversation = 1..n /\ prompt_index \in Nat
        /\ \A k \in 1..n : conversation[k].input \in Inputs /\ conversation[k].marker \in Int
    BY TalkTypes DEF IInv
  <1>5. \A k \in 1..m : Batch[k].id \in B
    BY <1>1 DEF Ids
  <1>6. /\ Len(conversation') = n + m /\ DOMAIN conversation' = 1..(n + m)
        /\ \A k \in 1..n : conversation'[k] = conversation[k]
        /\ \A k \in (n + 1)..(n + m) : conversation'[k].input \in B /\ conversation'[k].marker = -1
    <2>1. add \in [1..m -> Row]
      BY <1>1, <1>5 DEF Row
    <2>2. \A k \in 1..m : add[k].input \in B /\ add[k].marker = -1
      BY <1>5
    <2> HIDE DEF add, B
    <2>3. add \in Seq(Row) /\ Len(add) = m
      BY <1>1, <2>1
    <2>4. /\ Len(conversation') = n + m /\ DOMAIN conversation' = 1..(n + m)
          /\ \A k \in 1..n : conversation'[k] = conversation[k]
      BY <1>2, <1>4, <2>3
    <2>5. \A k \in (n + 1)..(n + m) : conversation'[k] = add[k - n] /\ k - n \in 1..m
      BY <1>1, <1>2, <1>4, <2>3
    <2> QED
      BY <2>2, <2>4, <2>5
  <1>7. \A i \in B : pushes[i] = 0
    BY <1>1 DEF IInv, Pushes
  <1>8. \A i \in Inputs : pushes'[i] = IF i \in B THEN 1 ELSE pushes[i]
    BY <1>2, <1>7 DEF Pushed
  <1> HIDE DEF B, n, m, own, add
  <1>9. Known' /\ Idle' /\ Taken' /\ Snapped'
    <2>1. \A k \in (n + 1)..(n + m) : conversation'[k].input \notin Claimed
                                       /\ pushes'[conversation'[k].input] = 1
      BY <1>1, <1>6, <1>8
    <2> QED
      BY <1>1, <1>2, <1>4, <1>6, <1>8, <2>1, AppendedTalk DEF n
  <1>10. Cuts' = Cuts
    BY <1>2 DEF Cuts
  <1>11. Below'
    <2> SUFFICES ASSUME Cuts, NEW k \in 1..(n + m) PROVE conversation'[k].marker < prompt_index
      BY <1>2, <1>6, <1>10 DEF Below
    <2>1. CASE k \in 1..n
      BY <1>4, <1>6, <2>1 DEF Talk, Below
    <2>2. CASE k \in (n + 1)..(n + m)
      BY <1>4, <1>6, <2>2
    <2> QED
      BY <1>1, <1>4, <2>1, <2>2
  <1>12. ASSUME Cuts
         PROVE  \E f \in 1..(n + m + 1) :
                   OwnTail(f, conversation', "working", prompt_index, turn_index, own, Ids(slots))
    <2>1. PICK f \in 1..(n + 1) :
                 OwnTail(f, conversation, "barrier", prompt_index, turn_index, own, Ids(slots))
      BY <1>2, <1>12 DEF Talk, Ends, own, n
    <2>2. f <= n /\ f \in 1..n /\ f \in 1..(n + m + 1)
      BY <1>1, <1>4, <2>1 DEF OwnTail, n
    <2>3. \A k \in 1..(f - 1) : k \in 1..n /\ conversation'[k] = conversation[k]
      BY <1>4, <1>6, <2>2
    <2>4. \A k \in (f + 1)..(n + m) : conversation'[k].input \in Ids(slots)
      <3> SUFFICES ASSUME NEW k \in (f + 1)..(n + m) PROVE conversation'[k].input \in Ids(slots)
        OBVIOUS
      <3>1. CASE k \in (f + 1)..n
        <4>1. k \in 1..n
          BY <1>4, <2>2, <3>1
        <4> QED
          BY <1>6, <2>1, <3>1, <4>1 DEF OwnTail, n
      <3>2. CASE k \in (n + 1)..(n + m)
        BY <1>1, <1>6, <3>2
      <3> QED
        BY <1>1, <1>4, <2>2, <3>1, <3>2
    <2>5. /\ conversation'[f].input = own /\ conversation'[f].marker = prompt_index - 1
          /\ prompt_index > 0
          /\ \A k \in 1..(f - 1) : /\ conversation[k].marker < prompt_index - 1
                                   /\ conversation[k].input # own /\ conversation[k].input \notin Ids(slots)
      BY <1>6, <2>1, <2>2 DEF OwnTail, n
    <2>6. f <= n + m
      BY <1>1, <1>4, <2>2
    <2>7. OwnTail(f, conversation', "working", prompt_index, turn_index, own, Ids(slots))
      BY <1>6, <2>3, <2>4, <2>5, <2>6 DEF OwnTail
    <2> QED
      BY <2>2, <2>7
  <1>13. Ends'
    BY <1>2, <1>3, <1>6, <1>10, <1>12 DEF Ends, own
  <1> QED
    BY <1>9, <1>11, <1>13 DEF Talk

\* The claim captures the index of the turn it aborts: its prompt, if it is in, is the
\* first row that has reached that index.
LEMMA RewindClaimTalk ==
    ASSUME IInv, Talk, IInv', NEW legacy \in BOOLEAN, RewindClaim(legacy) PROVE Talk'
  <1>1. PICK target : Takes(legacy, target)
    BY ClaimTakes
  <1> DEFINE n == Len(conversation)
             front == Head(pending_inputs)
             taken == Completions(target, "Rewind")
  <1>2. /\ loop = "open" /\ running_task' = NoTurn /\ task' = "none"
        /\ rewinding'.stage = "claimed" /\ rewinding'.input = front /\ rewinding'.epoch = epoch
        /\ rewinding'.target = RewindIndex /\ rewinding'.messages = taken
        /\ rewinding'.kept = <<>>
        /\ UNCHANGED <<loop, epoch, conversation, prompt_index, mailboxes, pushes, overtaken>>
    BY <1>1 DEF Takes, chat, channels, history
  <1>3. slots' = <<>>
    BY <1>1, TerminalFacts DEF Takes, IInv
  <1>4. Known'
    BY <1>2 DEF Talk, Known
  <1>5. epoch \in Nat /\ RewindIndex' = RewindIndex /\ RewindIndex \in Nat /\ prompt_index \in Nat
    BY <1>2 DEF IInv, TypeOK, RewindIndex
  <1>6. Idle'
    BY <1>2, <1>5 DEF Idle
  <1>7. Cuts' = Cuts
    BY <1>2 DEF Cuts
  <1>8. Below' /\ Snapped'
    BY <1>2, <1>7 DEF Talk, Below, Snapped
  <1>9. Ends'
    BY <1>2, <1>3, <1>4, FreshTurn
  <1>10. /\ n \in Nat /\ DOMAIN conversation = 1..n
    BY TalkTypes DEF IInv
  <1>11. front = pending_inputs[1] /\ 1 \in DOMAIN pending_inputs /\ taken \subseteq Ids(slots)
    <2>1. taken \subseteq Ids(slots)
      BY CompletedSlots
    <2>2. pending_inputs # <<>>
      BY <1>1 DEF Takes
    <2> QED
      BY <2>1, <2>2, Types DEF IInv
  <1> HIDE DEF n, front, taken
  <1>12. ASSUME Cuts PROVE \E f \in 1..(n + 1) : ClaimedTail(f, conversation, rewinding')
    <2>1. CASE running_task = NoTurn
      <3>1. DOMAIN slots = {} /\ task = "none"
        BY <2>1, NoTurnNoSlots DEF IInv, FrontRow
      <3>2. taken = {}
        BY <1>11, <3>1 DEF Ids
      <3>3. pushes[front] = 0
        BY <1>11, <3>1 DEF IInv, Pushes, Before
      <3>4. \A k \in 1..n : conversation[k].input # front
        BY <1>10, <3>3 DEF Talk, Known
      <3>5. ClaimedTail(n + 1, conversation, rewinding')
        BY <1>2, <1>10, <3>2, <3>4 DEF ClaimedTail, n
      <3> QED
        BY <1>10, <3>5
    <2>2. CASE running_task # NoTurn
      <3>1. task # "none"
        BY <2>2 DEF IInv, FrontRow
      <3>2. front = running_task.input /\ front \notin Ids(slots)
        BY <1>11, <3>1, TaskHasTurn DEF Ids
      <3>3. PICK f \in 1..(n + 1) :
                   OwnTail(f, conversation, task, prompt_index, turn_index, front, Ids(slots))
        BY <1>12, <3>2 DEF Talk, Ends, n
      <3>4. /\ \A k \in 1..(f - 1) : conversation[k].input # front /\ conversation[k].input \notin taken
            /\ \A k \in (f + 1)..n : conversation[k].input # front
        BY <1>11, <3>2, <3>3 DEF OwnTail, n
      <3>5. \A k \in 1..n : k # f => k \in 1..(f - 1) \/ k \in (f + 1)..n
        BY <1>10
      <3>6. f <= n => /\ prompt_index > 0 /\ conversation[f].marker = prompt_index - 1
                      /\ \A k \in 1..(f - 1) : conversation[k].marker < prompt_index - 1
        BY <3>3 DEF OwnTail, n
      <3>7. prompt_index > 0 => RewindIndex = prompt_index - 1
        BY <1>5 DEF RewindIndex
      <3>8. f <= n => /\ conversation[f].marker >= RewindIndex
                      /\ \A k \in 1..(f - 1) : conversation[k].marker < RewindIndex
        BY <1>5, <3>6, <3>7
      <3>9. ClaimedTail(f, conversation, rewinding')
        BY <1>2, <3>4, <3>5, <3>8 DEF ClaimedTail, n
      <3> QED
        BY <3>9
    <2> QED
      BY <2>1, <2>2
  <1>13. Taken'
    BY <1>2, <1>7, <1>12 DEF Taken, n
  <1> QED
    BY <1>4, <1>6, <1>8, <1>9, <1>13 DEF Talk

\* The snapshot keeps all that precedes the claimed prompt; with the index that the claim
\* captured, or one that has not moved since, it keeps no row from that prompt on.
LEMMA RewindSnapshotTalk ==
    ASSUME IInv, Talk, IInv', RewindSnapshot PROVE Talk'
  <1> DEFINE n == Len(conversation)
  <1>1. /\ rewinding.stage = "claimed" /\ rewinding'.stage = "snapshot"
        /\ rewinding'.input = rewinding.input /\ rewinding'.epoch = rewinding.epoch
        /\ rewinding'.legacy = rewinding.legacy /\ rewinding'.messages = rewinding.messages
        /\ rewinding'.target = Target /\ rewinding'.kept = CutAt(Target) /\ Target \in Nat
        /\ UNCHANGED <<loop, running_task, epoch, task, turn_index, slots, conversation, prompt_index,
                       mailboxes, pushes, overtaken>>
    BY SnapshotFacts DEF chat, channels, history
  <1>2. rewinding # NoRewind /\ rewinding.target \in Nat /\ rewinding.legacy \in BOOLEAN
    BY <1>1, Rewinding, RewindTypes DEF IInv
  <1>3. /\ loop = "open" /\ rewinding.epoch <= epoch /\ rewinding.target <= RewindIndex
        /\ epoch = rewinding.epoch => running_task = NoTurn /\ rewinding.target = RewindIndex
    BY <1>2 DEF Talk, Idle
  <1>4. /\ rewinding.target <= Target /\ Target <= RewindIndex
        /\ epoch = rewinding.epoch \/ ~rewinding.legacy => Target = rewinding.target
        /\ epoch = rewinding.epoch => Target = RewindIndex
    <2>1. RewindIndex \in Nat
      BY DEF IInv, TypeOK, RewindIndex
    <2> QED
      BY <1>2, <1>3, <2>1 DEF Target
  <1>5. RewindIndex' = RewindIndex
    BY <1>1 DEF RewindIndex
  <1>6. Idle'
    BY <1>1, <1>3, <1>4, <1>5 DEF Idle
  <1>7. Cuts' = Cuts
    BY <1>1 DEF Cuts
  <1>8. Below' /\ Taken'
    BY <1>1, <1>7 DEF Talk, Below, Taken
  <1>9. Ends'
    <2>1. Ids(slots)' = Ids(slots)
      BY <1>1 DEF Ids
    <2>2. Moves
      BY <1>1 DEF Moves
    <2> QED
      BY <1>1, <1>7, <2>1, <2>2, SameTurn
  <1>10. /\ n \in Nat /\ DOMAIN conversation = 1..n
         /\ \A k \in 1..n : conversation[k].marker \in Int
    BY TalkTypes DEF IInv
  <1>11. PICK c \in 0..n :
               /\ Len(rewinding'.kept) = c
               /\ \A k \in 1..c : /\ rewinding'.kept[k] = conversation[k]
                                  /\ conversation[k].marker < Target
               /\ c < n => conversation[c + 1].marker >= Target
    <2>1. Target \in Int /\ TypeOK
      BY <1>1 DEF IInv
    <2>2. \E c \in 0..n :
             /\ Len(CutAt(Target)) = c
             /\ \A k \in 1..c : CutAt(Target)[k] = conversation[k] /\ conversation[k].marker < Target
             /\ c < n => conversation[c + 1].marker >= Target
      BY <2>1, CutFacts
    <2> QED
      BY <1>1, <2>2
  <1>12. DOMAIN rewinding'.kept = 1..c
    <2>1. Target \in Int /\ TypeOK
      BY <1>1 DEF IInv
    <2>2. CutAt(Target) \in Seq(Row)
      BY <2>1, CutFacts DEF Row
    <2> QED
      BY <1>1, <1>11, <2>2
  <1> HIDE DEF n
  <1>13. Known'
    <2>1. \A k \in 1..c : pushes[rewinding'.kept[k].input] = 1
      BY <1>10, <1>11 DEF Talk, Known
    <2> QED
      BY <1>1, <1>12, <2>1 DEF Talk, Known
  <1>14. Snapped'
    <2> SUFFICES ASSUME Cuts PROVE KeptRows(conversation, rewinding', epoch)
      BY <1>1, <1>7 DEF Snapped
    <2>1. PICK f \in 1..(n + 1) : ClaimedTail(f, conversation, rewinding)
      BY <1>1 DEF Talk, Taken, n
    <2>2. ASSUME f <= n PROVE f - 1 <= c
      <3>1. /\ \A k \in 1..(f - 1) : conversation[k].marker < rewinding.target
        BY <2>1, <2>2 DEF ClaimedTail, n
      <3> SUFFICES ASSUME c < f - 1 PROVE FALSE
        BY <1>10
      <3>2. c + 1 \in 1..(f - 1) /\ c < n /\ c + 1 \in 1..n
        BY <1>10, <2>2
      <3>3. conversation[c + 1].marker >= Target /\ conversation[c + 1].marker < rewinding.target
        BY <1>11, <3>1, <3>2
      <3> QED
        BY <1>1, <1>2, <1>4, <1>10, <3>2, <3>3
    <2>3. \A k \in 1..n : conversation[k].input = rewinding'.input =>
             /\ k - 1 <= Len(rewinding'.kept)
             /\ \A j \in 1..(k - 1) : rewinding'.kept[j] = conversation[j]
      <3> SUFFICES ASSUME NEW k \in 1..n, conversation[k].input = rewinding.input
                   PROVE  k - 1 <= c /\ \A j \in 1..(k - 1) : rewinding'.kept[j] = conversation[j]
        BY <1>1, <1>11
      <3>1. k = f
        BY <2>1 DEF ClaimedTail, n
      <3>2. k - 1 <= c
        BY <1>10, <2>2, <3>1
      <3> QED
        BY <1>10, <1>11, <3>2
    <2>4. ASSUME rewinding.legacy => epoch = rewinding.epoch, NEW j \in 1..c
          PROVE  /\ rewinding'.kept[j].input # rewinding.input
                 /\ rewinding'.kept[j].input \notin rewinding.messages
      <3>1. Target = rewinding.target
        BY <1>2, <1>4, <2>4
      <3>2. j < f /\ j \in 1..n
        <4>1. CASE f = n + 1
          BY <1>10, <4>1
        <4>2. CASE f <= n
          <5>1. conversation[f].marker >= rewinding.target
            BY <2>1, <4>2 DEF ClaimedTail, n
          <5>2. \A k \in 1..c : k # f
            BY <1>1, <1>10, <1>11, <3>1, <4>2, <5>1
          <5>3. c < f
            BY <1>10, <4>2, <5>2
          <5> QED
            BY <1>10, <4>2, <5>3
        <4> QED
          BY <1>10, <4>1, <4>2
      <3>3. j \in 1..(f - 1) /\ j # f
        BY <1>10, <3>2
      <3> QED
        BY <1>11, <2>1, <3>2, <3>3 DEF ClaimedTail, n
    <2>5. \A j \in 1..Len(rewinding'.kept) : rewinding'.kept[j].marker < rewinding'.target
      BY <1>1, <1>11
    <2> QED
      BY <1>1, <1>11, <2>3, <2>4, <2>5 DEF KeptRows, n
  <1> QED
    BY <1>6, <1>8, <1>9, <1>13, <1>14 DEF Talk

\* The restore puts the kept rows and the index back; unless a turn came between, no turn
\* runs, and no marker has reached the index.
LEMMA RewindRestoreTalk ==
    ASSUME IInv, Talk, IInv', RewindRestore PROVE Talk'
  <1>1. /\ rewinding.stage = "snapshot" /\ rewinding' = NoRewind
        /\ IF "chat" \in mailboxes
           THEN conversation' = rewinding.kept /\ prompt_index' = rewinding.target
           ELSE conversation' = conversation /\ prompt_index' = prompt_index
        /\ overtaken' = (overtaken \/ epoch # rewinding.epoch)
        /\ UNCHANGED <<loop, slots, mailboxes, pushes>>
        /\ Promote(pending_inputs, running_task, task)
    BY DEF RewindRestore, chat, channels
  <1>2. rewinding'.kept = <<>> /\ rewinding'.stage = "none"
    BY <1>1 DEF NoRewind
  <1>3. Known'
    BY <1>1, <1>2 DEF Talk, Known
  <1>4. Idle' /\ Taken' /\ Snapped'
    BY <1>1, <1>2 DEF Idle, Taken, Snapped
  <1>5. ASSUME Cuts'
        PROVE  /\ Cuts /\ running_task = NoTurn /\ conversation' = rewinding.kept
               /\ prompt_index' = rewinding.target
    <2>1. loop = "open" /\ "chat" \in mailboxes /\ ~overtaken /\ epoch = rewinding.epoch
      BY <1>1, <1>5 DEF Cuts
    <2>2. rewinding # NoRewind
      BY <1>1 DEF NoRewind
    <2> QED
      BY <1>1, <2>1, <2>2 DEF Cuts, Talk, Idle
  <1>6. rewinding.kept \in Seq(Row)
    BY <1>1, RewindTypes DEF IInv
  <1>7. Below'
    <2> SUFFICES ASSUME Cuts'
                 PROVE  \A k \in DOMAIN rewinding.kept : rewinding.kept[k].marker < rewinding.target
      BY <1>5 DEF Below
    <2> QED
      BY <1>1, <1>5, <1>6 DEF Talk, Snapped, KeptRows
  <1>8. Ends'
    <2> SUFFICES ASSUME Cuts' PROVE Ends'
      BY DEF Ends
    <2>1. DOMAIN slots = {} /\ slots \in Seq(Slot) /\ task = "none"
      BY <1>5, NoTurnNoSlots, Types DEF IInv, FrontRow
    <2>2. slots' = <<>>
      BY <1>1, <2>1
    <2>3. task' \in {"none", "starting"}
      BY <1>1, <2>1 DEF Promote
    <2> QED
      BY <1>3, <2>2, <2>3, FreshTurn
  <1> QED
    BY <1>3, <1>4, <1>7, <1>8 DEF Talk

LEMMA InitTalk == Init => Talk
  <1> SUFFICES ASSUME Init PROVE Talk
    OBVIOUS
  <1>1. /\ conversation = <<>> /\ rewinding = NoRewind /\ task = "none" /\ slots = <<>>
        /\ rewinding.kept = <<>> /\ rewinding.stage = "none"
    BY DEF Init, NoRewind
  <1>2. Known /\ Idle /\ Below /\ Taken /\ Snapped
    BY <1>1 DEF Known, Idle, Below, Taken, Snapped
  <1>3. OwnTail(1, conversation, task, prompt_index, turn_index, running_task.input, Ids(slots))
    BY <1>1 DEF OwnTail
  <1>4. 1 \in 1..(Len(conversation) + 1)
    BY <1>1
  <1> QED
    BY <1>2, <1>3, <1>4 DEF Talk, Ends

LEMMA NextTalk ==
    ASSUME IInv, Talk, [Next]_vars PROVE Talk'
  <1>0. IInv'
    BY NextIInv
  <1>1. CASE \/ \E p \in Prompts : Prompt(p)
             \/ \E m \in Messages : AdmitQueue(m)
             \/ \E i \in Resumes : ResumePlan(i)
    BY <1>0, <1>1, EnqueueTalk DEF Prompt, AdmitQueue, ResumePlan
  <1>2. CASE \E m \in Messages : AdmitSteer(m)
    BY <1>2, AdmitSteerTalk
  <1>3. CASE Completion \/ SoftCancel \/ HardCancel \/ ShutdownCancelling
    BY <1>0, <1>3, EndsTalk
  <1>4. CASE Close \/ DropActor
    BY <1>4, OverTalk
  <1>5. CASE (\E legacy \in BOOLEAN : RewindClaim(legacy)) \/ RewindSnapshot \/ RewindRestore
    BY <1>0, <1>5, RewindClaimTalk, RewindSnapshotTalk, RewindRestoreTalk
  <1>6. CASE McpPromote
    BY <1>0, <1>6, McpPromoteTalk
  <1>7. CASE TakeIndex \/ PushPrompt \/ CommitDelivery
    BY <1>7, TakeIndexTalk, PushPromptTalk, CommitDeliveryTalk
  <1>8. CASE StaleCompletion \/ (\E b \in MayClose : CloseMailbox(b)) \/ UNCHANGED vars
    <2>1. /\ mailboxes' \subseteq mailboxes /\ task' = task /\ turn_index' = turn_index /\ slots' = slots
          /\ UNCHANGED <<loop, running_task, epoch, conversation, pushes, prompt_index, rewinding, overtaken>>
      BY <1>8 DEF StaleCompletion, CloseMailbox, vars, session, chat, channels, history
    <2>2. Ids(slots)' = Ids(slots)
      BY <2>1 DEF Ids
    <2>3. Moves
      BY <2>1 DEF Moves
    <2> QED
      BY <2>1, <2>2, <2>3, TaskTalk
  <1>9. CASE \/ ReadIndex \/ HookBlocks \/ EndBlocked \/ Output
             \/ BarrierFails \/ CommitNothing \/ CommitFails
             \/ \E r \in Results : EndEarly(r) \/ EndTurn(r)
    <2>1. /\ mailboxes' = mailboxes /\ slots' = slots
          /\ UNCHANGED <<loop, running_task, epoch, conversation, pushes, prompt_index, rewinding, overtaken>>
      BY <1>9 DEF ReadIndex, HookBlocks, EndBlocked, Output, BarrierFails, CommitNothing, CommitFails,
         EndEarly, EndTurn, Reaches, Beside, chat, channels
    <2>2. Ids(slots)' = Ids(slots)
      BY <2>1 DEF Ids
    <2>3. Moves
      BY <1>9 DEF ReadIndex, HookBlocks, EndBlocked, Output, BarrierFails, CommitNothing, CommitFails,
         EndEarly, EndTurn, Reaches, Moves
    <2> QED
      BY <2>1, <2>2, <2>3, TaskTalk
  <1>10. CASE BeginDrain
    <2>1. /\ task = "working" /\ task' = "barrier" /\ mailboxes' = mailboxes
          /\ UNCHANGED <<loop, running_task, epoch, conversation, pushes, prompt_index, rewinding, overtaken>>
          /\ slots' = Advance("pending", "projecting", running_task)
      BY <1>10 DEF BeginDrain, Reaches, Beside, chat, channels
    <2>2. Ids(slots)' = Ids(slots)
      BY <2>1, AdvanceFacts DEF IInv
    <2>3. Moves
      BY <2>1 DEF Moves
    <2> QED
      BY <2>1, <2>2, <2>3, TaskTalk
  <1> QED
    BY <1>1, <1>2, <1>3, <1>4, <1>5, <1>6, <1>7, <1>8, <1>9, <1>10 DEF Next, TurnTask

\* How a step may change the conversation: not at all, at its end, or by a restore.  A
\* rewind ends in its restore, or with the actor.
LEMMA OnlyRestoresCut ==
    ASSUME IInv, [Next]_vars
    PROVE  /\ \/ conversation' = conversation
              \/ \E t \in Seq(Row) : conversation' = conversation \o t
              \/ RewindRestore /\ "chat" \in mailboxes /\ conversation' = rewinding.kept
           /\ rewinding # NoRewind /\ rewinding' = NoRewind => RewindRestore \/ loop' = "gone"
  <1>1. CASE \/ \E p \in Prompts : Prompt(p)
             \/ \E m \in Messages : AdmitQueue(m) \/ AdmitSteer(m)
             \/ \E i \in Resumes : ResumePlan(i)
             \/ \E b \in MayClose : CloseMailbox(b)
             \/ McpPromote \/ UNCHANGED vars
    BY <1>1 DEF Prompt, AdmitQueue, AdmitSteer, ResumePlan, Enqueue, McpPromote, CloseMailbox, chat,
       session, vars
  <1>2. CASE \/ Completion \/ StaleCompletion \/ SoftCancel \/ HardCancel
             \/ Close \/ ShutdownCancelling \/ DropActor
    BY <1>2 DEF Completion, StaleCompletion, SoftCancel, HardCancel, HardCancelled,
       Close, ShutdownCancelling, DropActor, chat, session
  <1>3. CASE \/ ReadIndex \/ HookBlocks \/ EndBlocked \/ TakeIndex \/ Output \/ BeginDrain
             \/ BarrierFails \/ CommitNothing \/ CommitFails
             \/ \E r \in Results : EndEarly(r) \/ EndTurn(r)
    BY <1>3 DEF ReadIndex, HookBlocks, EndBlocked, TakeIndex, Output, BeginDrain, BarrierFails,
       CommitNothing, CommitFails, EndEarly, EndTurn, Reaches, Beside, chat
  <1>4. CASE \E legacy \in BOOLEAN : RewindClaim(legacy)
    BY <1>4 DEF RewindClaim, Free, chat
  <1>5. CASE RewindSnapshot
    BY <1>5, SnapshotFacts DEF NoRewind, chat
  <1>6. CASE RewindRestore
    BY <1>6 DEF RewindRestore, chat
  <1>7. CASE PushPrompt
    <2>1. rewinding' = rewinding
      BY <1>7 DEF PushPrompt, Reaches, Beside
    <2>2. running_task.input \in Inputs /\ turn_index \in Nat
      BY <1>7, TaskHasTurn DEF PushPrompt, IInv, TypeOK
    <2> DEFINE row == [input |-> running_task.input, marker |-> turn_index]
    <2>3. row \in Row
      BY <2>2 DEF Row
    <2>4. conversation' = conversation \/ conversation' = Append(conversation, row)
      BY <1>7 DEF PushPrompt
    <2> HIDE DEF row
    <2>5. <<row>> \in Seq(Row) /\ Append(conversation, row) = conversation \o <<row>>
      BY <2>3, TalkTypes DEF IInv
    <2> QED
      BY <2>1, <2>4, <2>5
  <1>8. CASE CommitDelivery
    <2> DEFINE add == [k \in 1..Len(Batch) |-> [input |-> Batch[k].id, marker |-> -1]]
    <2>1. Batch \in Seq(Slot) /\ Len(Batch) \in Nat /\ DOMAIN Batch = 1..Len(Batch)
      BY BatchIds
    <2>2. \A k \in 1..Len(Batch) : Batch[k].id \in Inputs
      <3>1. \A k \in 1..Len(Batch) : Batch[k] \in Slot
        BY <2>1
      <3> QED
        BY <3>1 DEF Slot, Inputs
    <2>3. add \in [1..Len(Batch) -> Row]
      BY <2>2 DEF Row
    <2>4. conversation' = conversation \o add /\ rewinding' = rewinding
      BY <1>8, <2>1 DEF CommitDelivery, Reaches, Beside
    <2> HIDE DEF add
    <2>5. add \in Seq(Row)
      BY <2>1, <2>3
    <2> QED
      BY <2>4, <2>5
  <1> QED
    BY <1>1, <1>2, <1>3, <1>4, <1>5, <1>6, <1>7, <1>8 DEF Next, TurnTask

\* Sequences that agree up to n
LEMMA SamePrefix ==
    ASSUME NEW s \in Seq(Row), NEW t \in Seq(Row), NEW n \in Nat, n <= Len(s), n <= Len(t),
           \A k \in 1..n : t[k] = s[k]
    PROVE  IsPrefix(SubSeq(s, 1, n), t)
  <1> DEFINE p == SubSeq(s, 1, n)
  <1>1. p \in Seq(Row) /\ Len(p) = n /\ \A k \in 1..n : p[k] = s[k]
    OBVIOUS
  <1> HIDE DEF p
  <1>2. /\ SubSeq(p, 1, n) \in Seq(Row) /\ Len(SubSeq(p, 1, n)) = n
        /\ \A k \in 1..n : SubSeq(p, 1, n)[k] = p[k]
    BY <1>1
  <1>3. /\ SubSeq(t, 1, n) \in Seq(Row) /\ Len(SubSeq(t, 1, n)) = n
        /\ \A k \in 1..n : SubSeq(t, 1, n)[k] = t[k]
    OBVIOUS
  <1>4. SubSeq(p, 1, n) = SubSeq(t, 1, n)
    BY <1>1, <1>2, <1>3
  <1> QED
    BY <1>1, <1>4 DEF IsPrefix, p

\* Whatever turns are promoted while a rewind has given the lock up, what it restores holds
\* all that preceded the prompt it rewinds; and nothing of the rewound turn, unless a legacy
\* rewind took its cut after another turn had come.
THEOREM RewindCorrect == Spec => RewindIsExact
  <1>1. IInv /\ Talk /\ [Next]_vars => Talk'
    BY NextTalk
  <1>2. Spec => []Talk
    BY <1>1, InitTalk, Invariance, PTL DEF Spec
  <1> DEFINE Keeps == \A k \in DOMAIN conversation :
                          conversation[k].input = rewinding.input /\ ~overtaken =>
                              IsPrefix(SubSeq(conversation, 1, k - 1), conversation')
             Removes == Restored /\ ~overtaken /\ (rewinding.legacy => epoch = rewinding.epoch) =>
                            InConversation' \cap RewoundRows = {}
  <1>3. ASSUME IInv, Talk, RewindRestore, "chat" \in mailboxes, ~overtaken
        PROVE  /\ KeptRows(conversation, rewinding, epoch) /\ conversation' = rewinding.kept
               /\ rewinding.kept \in Seq(Row)
    <2>1. rewinding.stage = "snapshot" /\ conversation' = rewinding.kept
      BY <1>3 DEF RewindRestore
    <2>2. rewinding # NoRewind /\ rewinding.kept \in Seq(Row)
      BY <1>3, <2>1, Rewinding, RewindTypes DEF IInv
    <2>3. Cuts
      BY <1>3, <2>2 DEF Cuts, Talk, Idle
    <2> QED
      BY <1>3, <2>1, <2>2, <2>3 DEF Talk, Snapped
  <1>4. ASSUME IInv, Talk, [Next]_vars PROVE Keeps
    <2> SUFFICES ASSUME NEW k \in DOMAIN conversation,
                        conversation[k].input = rewinding.input, ~overtaken
                 PROVE  IsPrefix(SubSeq(conversation, 1, k - 1), conversation')
      OBVIOUS
    <2>1. /\ conversation \in Seq(Row) /\ k \in Nat /\ k - 1 \in Nat /\ k <= Len(conversation)
          /\ Len(conversation) \in Nat /\ DOMAIN conversation = 1..Len(conversation)
      BY <1>4, TalkTypes DEF IInv
    <2>2. CASE conversation' = conversation
      BY <2>1, <2>2, SamePrefix
    <2>3. CASE \E t \in Seq(Row) : conversation' = conversation \o t
      <3>1. PICK t \in Seq(Row) : conversation' = conversation \o t
        BY <2>3
      <3>2. /\ conversation' \in Seq(Row) /\ k - 1 <= Len(conversation')
            /\ k - 1 <= Len(conversation)
            /\ \A j \in 1..(k - 1) : conversation'[j] = conversation[j]
        BY <2>1, <3>1
      <3> QED
        BY <2>1, <3>2, SamePrefix
    <2>4. CASE RewindRestore /\ "chat" \in mailboxes /\ conversation' = rewinding.kept
      <3>1. KeptRows(conversation, rewinding, epoch) /\ rewinding.kept \in Seq(Row)
        BY <1>3, <1>4, <2>4
      <3>2. /\ k - 1 <= Len(rewinding.kept) /\ k - 1 <= Len(conversation)
            /\ \A j \in 1..(k - 1) : rewinding.kept[j] = conversation[j]
        BY <2>1, <3>1 DEF KeptRows
      <3>3. IsPrefix(SubSeq(conversation, 1, k - 1), rewinding.kept)
        BY <2>1, <3>1, <3>2, SamePrefix
      <3> QED
        BY <2>4, <3>3
    <2> QED
      BY <1>4, <2>2, <2>3, <2>4, OnlyRestoresCut
  <1>5. ASSUME IInv, Talk, [Next]_vars PROVE Removes
    <2> SUFFICES ASSUME Restored, ~overtaken, rewinding.legacy => epoch = rewinding.epoch
                 PROVE  InConversation' \cap RewoundRows = {}
      OBVIOUS
    <2>1. RewindRestore /\ "chat" \in mailboxes
      <3>1. rewinding # NoRewind /\ rewinding' = NoRewind /\ loop' # "gone" /\ "chat" \in mailboxes
        BY DEF Restored, NoRewind
      <3> QED
        BY <1>5, <3>1, OnlyRestoresCut
    <2>2. /\ KeptRows(conversation, rewinding, epoch) /\ conversation' = rewinding.kept
          /\ rewinding.kept \in Seq(Row)
      BY <1>3, <1>5, <2>1
    <2>3. \A j \in DOMAIN rewinding.kept :
             rewinding.kept[j].input # rewinding.input /\ rewinding.kept[j].input \notin rewinding.messages
      BY <2>2 DEF KeptRows
    <2> QED
      BY <2>2, <2>3 DEF InConversation, RewoundRows
  <1>6. IInv /\ Talk /\ [Next]_vars => [Keeps]_vars /\ [Removes]_vars
    BY <1>4, <1>5
  <1> HIDE DEF Keeps, Removes
  <1>7. Spec => [][Keeps]_vars /\ [][Removes]_vars
    BY <1>2, <1>6, Invariance, PTL DEF Spec
  <1> QED
    BY <1>7 DEF RewindIsExact, Keeps, Removes
================================================================================
