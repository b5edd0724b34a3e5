-------------------------- MODULE SchedulerLoopProofs --------------------------
(***************************************************************************)
(* Proofs about the background fires of a loop, for every number of        *)
(* iterations, every set of prompts and every LOOP_FRESH_CHAIN_EVERY: type *)
(* correctness, iterations that do not overlap, and transcripts that are   *)
(* continued only where they may be and never for too long.                *)
(***************************************************************************)
EXTENDS SchedulerLoop, TLAPS

Iteration == [prompt : Prompts, resume : Ids \cup {None},
              status : {"running", "completed", "failed", "lost"}]

----------------------------------------------------------------------------
\* The inductive invariant

\* What the fire and the file remember as the anchor is an iteration that was started.
Anchors ==
    /\ saved.anchor # None => saved.anchor \in DOMAIN iterations
    /\ at # "loop" /\ held.anchor # None => held.anchor \in DOMAIN iterations

\* A fire holds the chain of the prompt the task still has, and what the query
\* reported stands until the fire is over.
Fire ==
    /\ at # "loop" => held \in Chains /\ held.prompt = chain.prompt
    /\ completed => at # "loop" /\ held.anchor # None /\ Is(held.anchor, "completed")

\* The query is about an anchor.
Asked == at = "query" => held.anchor # None

\* A watcher that has not run watches a failed iteration.
Failures == \A i \in watched : Is(i, "failed")

\* What the next iteration must not overlap
Busy(i) == Is(i, "running") \/ (i \in descendants /\ Is(i, "completed"))

\* It belongs to the anchor, so a task without an anchor need not ask.
Anchored == \A i \in DOMAIN iterations : Busy(i) => chain.anchor = i

\* The answers stand until the spawn: what is not active stays inactive.
Quiet == at = "spawn" => \A i \in DOMAIN iterations : ~Busy(i)

\* An iteration resumes an earlier one of the same prompt that has completed.
Continues(i, r) ==
    /\ r \in DOMAIN iterations /\ r < i /\ iterations[r].prompt = iterations[i].prompt
    /\ iterations[r].status \in {"completed", "lost"}
Resumed ==
    \A i \in DOMAIN iterations :
        iterations[i].resume # None => Continues(i, iterations[i].resume)

\* A chain that may be resumed counts at least the iterations of its transcript.
Counts(len, ch) ==
    ch.anchor = None \/ ch.reset
        \/ (iterations[ch.anchor].prompt = ch.prompt /\ len[ch.anchor] <= ch.fresh)

\* The chain of the task, the saved one and the one a fire holds all do.
Counted ==
    \E len \in TranscriptLengths :
        Counts(len, chain) /\ Counts(len, saved) /\ (at # "loop" => Counts(len, held))

IInv ==
    TypeOK /\ Anchors /\ Fire /\ Asked /\ Failures /\ Anchored /\ Quiet /\ Resumed /\ Counted

----------------------------------------------------------------------------
\* Lemmas about the iterations

\* The sequence of iterations is a function on its indices, and the ids are numbers.
LEMMA IterationFacts ==
    ASSUME TypeOK
    PROVE  /\ iterations \in Seq(Iteration)
           /\ Len(iterations) \in Nat /\ DOMAIN iterations = 1..Len(iterations)
           /\ \A i \in DOMAIN iterations : iterations[i] \in Iteration
           /\ \A i \in DOMAIN iterations : i \in Ids /\ i # None
           /\ MaxIterations \in Nat /\ FreshEvery \in Nat \ {0}
  <1>1. iterations \in Seq(Iteration) /\ Len(iterations) <= MaxIterations
    BY DEF TypeOK, Iteration
  <1>2. Len(iterations) \in Nat /\ DOMAIN iterations = 1..Len(iterations)
    BY <1>1
  <1>3. MaxIterations \in Nat /\ FreshEvery \in Nat \ {0} /\ None \notin 1..MaxIterations
    BY LoopAssumption
  <1>4. \A i \in DOMAIN iterations : i \in Ids /\ i # None
    BY <1>1, <1>2, <1>3 DEF Ids
  <1>5. \A i \in DOMAIN iterations : iterations[i] \in Iteration
    BY <1>1
  <1> QED
    BY <1>1, <1>2, <1>3, <1>4, <1>5

\* A sequence whose elements are replaced by others of the same kind
LEMMA MappedSequence ==
    ASSUME NEW S, NEW n \in Nat, NEW s \in [1..n -> S]
    PROVE  s \in Seq(S) /\ Len(s) = n
  OBVIOUS

\* Only the statuses of the iterations change: what they were asked and what they
\* resumed stays, and so do the lengths of the transcripts.
SameTranscripts ==
    /\ DOMAIN iterations' = DOMAIN iterations
    /\ \A i \in DOMAIN iterations : /\ iterations'[i].prompt = iterations[i].prompt
                                    /\ iterations'[i].resume = iterations[i].resume

\* The lengths are a function of what was resumed.
LEMMA LengthsStand ==
    ASSUME SameTranscripts PROVE TranscriptLengths' = TranscriptLengths
  BY DEF SameTranscripts, TranscriptLengths

----------------------------------------------------------------------------
\* Every action preserves the invariant

\* The lengths of the transcripts are about the iterations alone: a step that starts
\* none and keeps the chains keeps the count.
LEMMA CountedStands ==
    ASSUME Counted, UNCHANGED <<iterations, chain, saved>>,
           at' # "loop" => at # "loop" /\ held' = held
    PROVE  Counted'
  <1>1. PICK len \in TranscriptLengths :
          Counts(len, chain) /\ Counts(len, saved) /\ (at # "loop" => Counts(len, held))
    BY DEF Counted
  <1>2. len \in TranscriptLengths'
    BY DEF TranscriptLengths
  <1>3. Counts(len, chain)' /\ Counts(len, saved)' /\ (at' # "loop" => Counts(len, held)')
    BY <1>1 DEF Counts
  <1> QED
    BY <1>2, <1>3 DEF Counted

\* The anchor stays, so what runs is still found; the transcript is given up.
LEMMA UpdatePromptIInv ==
    ASSUME IInv, NEW p \in Prompts, UpdatePrompt(p) PROVE IInv'
  <1> USE DEF IInv, UpdatePrompt, fireVars, childVars
  <1>1. TypeOK'
    <2>1. chain \in Chains /\ 0 \in 0..FreshEvery
      BY IterationFacts DEF TypeOK
    <2>2. chain' \in Chains /\ chain'.anchor = chain.anchor
      BY <2>1 DEF Chains
    <2> QED
      BY <2>2 DEF TypeOK
  <1>2. Anchors'
    BY DEF Anchors, TypeOK
  <1>3. Fire'
    BY DEF Fire, TypeOK, Is
  <1>4. Asked'
    BY DEF Asked
  <1>5. Failures'
    BY DEF Failures, TypeOK, Is
  <1>6. Anchored'
    BY DEF Anchored, TypeOK, Busy, Is
  <1>7. Quiet'
    BY DEF Quiet, TypeOK, Busy, Is
  <1>8. Resumed'
    BY DEF Resumed, TypeOK, Continues, Is
  <1>9. Counted'
    BY DEF Counted, TypeOK, Counts, TranscriptLengths
  <1> QED
    BY <1>1, <1>2, <1>3, <1>4, <1>5, <1>6, <1>7, <1>8, <1>9

\* Without an anchor nothing is busy, and nothing is asked.
LEMMA FireBeginIInv ==
    ASSUME IInv, FireBegin PROVE IInv'
  <1> USE DEF IInv, FireBegin, childVars
  <1>1. TypeOK'
    BY DEF TypeOK, Chains
  <1>2. Anchors'
    BY DEF Anchors, TypeOK
  <1>3. Fire'
    BY DEF Fire, TypeOK, Is
  <1>4. Asked'
    BY DEF Asked
  <1>5. Failures'
    BY DEF Failures, TypeOK, Is
  <1>6. Anchored'
    BY DEF Anchored, TypeOK, Busy, Is
  <1>7. Quiet'
    <2>1. at' = "spawn" => chain.anchor = None
      OBVIOUS
    <2> QED
      BY <2>1, IterationFacts DEF Quiet, Anchored, Busy, Is
  <1>8. Resumed'
    BY DEF Resumed, TypeOK, Continues, Is
  <1>9. Counted'
    BY DEF Counted, TypeOK, Counts, TranscriptLengths
  <1> QED
    BY <1>1, <1>2, <1>3, <1>4, <1>5, <1>6, <1>7, <1>8, <1>9

\* The chain is left alone.
LEMMA FireSkippedIInv ==
    ASSUME IInv, FireSkipped PROVE IInv'
  <1> USE DEF IInv, FireSkipped, Return, childVars
  <1>1. TypeOK'
    BY DEF TypeOK, Chains
  <1>2. Anchors'
    BY DEF Anchors, TypeOK
  <1>3. Fire'
    BY DEF Fire, TypeOK, Is
  <1>4. Asked'
    BY DEF Asked
  <1>5. Failures'
    BY DEF Failures, TypeOK, Is
  <1>6. Anchored'
    BY DEF Anchored, TypeOK, Busy, Is
  <1>7. Quiet'
    BY DEF Quiet, TypeOK, Busy, Is
  <1>8. Resumed'
    BY DEF Resumed, TypeOK, Continues, Is
  <1>9. Counted'
    BY DEF Counted, TypeOK, Counts, TranscriptLengths
  <1> QED
    BY <1>1, <1>2, <1>3, <1>4, <1>5, <1>6, <1>7, <1>8, <1>9

\* The previous iteration completed, or the next one starts fresh.
LEMMA QueryAnsweredIInv ==
    ASSUME IInv, QueryAnswered PROVE IInv'
  <1> USE DEF IInv, QueryAnswered, Return, childVars
  <1>1. TypeOK'
    BY DEF TypeOK, Is
  <1>2. Anchors'
    BY DEF Anchors, TypeOK
  <1>3. Fire'
    <2>1. held \in Chains /\ held.prompt = chain.prompt /\ held.anchor # None
      BY DEF Fire, Asked
    <2> QED
      BY <2>1 DEF Fire, Is
  <1>4. Asked'
    BY DEF Asked
  <1>5. Failures'
    BY DEF Failures, TypeOK, Is
  <1>6. Anchored'
    BY DEF Anchored, TypeOK, Busy, Is
  <1>7. Quiet'
    BY DEF Quiet, TypeOK, Busy, Is
  <1>8. Resumed'
    BY DEF Resumed, TypeOK, Continues, Is
  <1>9. Counted'
    BY CountedStands
  <1> QED
    BY <1>1, <1>2, <1>3, <1>4, <1>5, <1>6, <1>7, <1>8, <1>9

\* Nothing is active: the spawn may follow.
LEMMA UnitAnsweredIInv ==
    ASSUME IInv, UnitAnswered PROVE IInv'
  <1> USE DEF IInv, UnitAnswered, UnitActive, Return, childVars
  <1>1. TypeOK'
    BY DEF TypeOK, Chains
  <1>2. Anchors'
    BY DEF Anchors, TypeOK
  <1>3. Fire'
    BY DEF Fire, TypeOK, Is
  <1>4. Asked'
    BY DEF Asked
  <1>5. Failures'
    BY DEF Failures, TypeOK, Is
  <1>6. Anchored'
    BY DEF Anchored, TypeOK, Busy, Is
  <1>7. Quiet'
    BY DEF Quiet, TypeOK, Busy, Is
  <1>8. Resumed'
    BY DEF Resumed, TypeOK, Continues, Is
  <1>9. Counted'
    BY DEF Counted, TypeOK, Counts, TranscriptLengths
  <1> QED
    BY <1>1, <1>2, <1>3, <1>4, <1>5, <1>6, <1>7, <1>8, <1>9

\* The new iteration is the only busy one, and its transcript is counted.
LEMMA SpawnIInv ==
    ASSUME IInv, Spawn PROVE IInv'
  <1> USE DEF IInv, Spawn, Return
  <1>h. held \in Chains /\ held.prompt = chain.prompt /\ Len(iterations) + 1 \in Ids
    BY IterationFacts DEF Fire, Ids
  <1>r. Resumes => /\ held.anchor \in DOMAIN iterations /\ Is(held.anchor, "completed")
                   /\ ~held.reset /\ held.fresh < FreshEvery
    BY DEF Resumes, Fire, Is
  <1>n. [prompt |-> held.prompt, resume |-> IF Resumes THEN held.anchor ELSE None,
         status |-> "running"] \in Iteration
    BY <1>h, <1>r, IterationFacts DEF Iteration, Chains
  <1>a. /\ iterations' \in Seq(Iteration) /\ Len(iterations') = Len(iterations) + 1
        /\ DOMAIN iterations' = 1..(Len(iterations) + 1)
        /\ \A j \in DOMAIN iterations : j \in DOMAIN iterations' /\ iterations'[j] = iterations[j]
        /\ iterations'[Len(iterations) + 1] =
              [prompt |-> held.prompt, resume |-> IF Resumes THEN held.anchor ELSE None,
               status |-> "running"]
    BY <1>n, IterationFacts
  <1>f. NextFresh \in 1..FreshEvery
    BY <1>h, <1>r, IterationFacts DEF NextFresh, Chains
  <1>c. /\ chain' \in Chains /\ chain'.anchor = Len(iterations) + 1 /\ chain'.fresh = NextFresh
        /\ chain'.prompt = held.prompt
    <2>1. chain' = [chain EXCEPT !.anchor = Len(iterations) + 1, !.fresh = NextFresh,
                             !.reset = FALSE]
      BY <1>a
    <2>2. NextFresh \in 0..FreshEvery /\ chain \in Chains
      BY <1>f, IterationFacts DEF TypeOK
    <2> QED
      BY ONLY <1>h, <2>1, <2>2 DEF Chains
  <1>1. TypeOK'
    <2>1. Len(iterations') <= MaxIterations
      BY <1>a, IterationFacts
    <2>2. descendants' \subseteq DOMAIN iterations' /\ watched' \subseteq DOMAIN iterations'
      BY <1>a DEF TypeOK
    <2>3. chain'.anchor \in DOMAIN iterations'
      BY <1>a, <1>c, IterationFacts
    <2>4. /\ saved' \in Chains /\ held' = None /\ at' = "loop"
          /\ completed' \in BOOLEAN /\ open' \in BOOLEAN
      BY DEF TypeOK
    <2>5. iterations' \in Seq([prompt : Prompts, resume : Ids \cup {None},
                              status : {"running", "completed", "failed", "lost"}])
      BY <1>a DEF Iteration
    <2> QED
      BY <1>c, <2>1, <2>2, <2>3, <2>4, <2>5 DEF TypeOK
  <1>2. Anchored'
    BY <1>h, <1>r, <1>n, <1>a, <1>f, <1>c DEF Anchored, Quiet, Is, Busy
  <1>3. Resumed'
    <2>1. ASSUME NEW i \in DOMAIN iterations', NEW r, r = iterations'[i].resume, r # None
          PROVE  Continues(i, r)'
      <3>1. CASE i \in DOMAIN iterations
        <4>1. Continues(i, r)
          BY <1>a, <2>1, <3>1 DEF Resumed
        <4> QED
          BY <1>a, <3>1, <4>1 DEF Continues
      <3>2. CASE i = Len(iterations) + 1
        <4>1. Resumes /\ r = held.anchor /\ iterations'[i].prompt = held.prompt
          BY <1>a, <2>1, <3>2
        <4>2. r \in DOMAIN iterations /\ r < i /\ iterations[r].status = "completed"
          BY <1>r, <3>2, <4>1, IterationFacts DEF Is
        <4>3. PICK len : Counts(len, held)
          BY DEF Counted
        <4>4. iterations[r].prompt = held.prompt
          BY <1>r, <4>1, <4>2, <4>3, IterationFacts DEF Counts
        <4> QED
          BY <1>a, <4>1, <4>2, <4>4 DEF Continues
      <3> QED
        BY <1>a, <3>1, <3>2, IterationFacts
    <2> QED
      BY <2>1 DEF Resumed
  <1>4. Counted'
    <2>1. PICK len \in TranscriptLengths :
            Counts(len, chain) /\ Counts(len, saved) /\ (at # "loop" => Counts(len, held))
      BY DEF Counted
    <2> DEFINE n    == Len(iterations) + 1
               last == IF Resumes THEN len[held.anchor] + 1 ELSE 1
    <2>2. len \in [DOMAIN iterations -> 1..FreshEvery]
      BY DEF TranscriptLengths
    <2>3. Resumes => len[held.anchor] <= held.fresh
      BY <1>r, <2>1, IterationFacts DEF Counts
    <2>4. last \in 1..FreshEvery /\ last <= NextFresh
      BY <1>h, <1>r, <2>2, <2>3, IterationFacts DEF NextFresh, Chains
    <2>5. n \notin DOMAIN iterations /\ n \in DOMAIN iterations'
          /\ \A j \in DOMAIN iterations' : j = n \/ j \in DOMAIN iterations
      BY <1>a, IterationFacts
    <2> HIDE DEF n, last
    <2>6. PICK len2 \in [DOMAIN iterations' -> 1..FreshEvery] :
            len2 = [j \in DOMAIN iterations' |-> IF j = n THEN last ELSE len[j]]
      BY <2>2, <2>4, <2>5
    <2>7. \A j \in DOMAIN iterations : len2[j] = len[j]
      BY <1>a, <2>5, <2>6
    <2>8. len2[n] = last
      BY <2>5, <2>6
    <2>9. ASSUME NEW i \in DOMAIN iterations'
          PROVE  LET r == iterations'[i].resume IN len2[i] = IF r = None THEN 1 ELSE len2[r] + 1
      <3>1. CASE i \in DOMAIN iterations
        <4>1. iterations'[i] = iterations[i]
              /\ (iterations[i].resume # None => iterations[i].resume \in DOMAIN iterations)
          BY <1>a, <3>1 DEF Resumed, Continues, Is
        <4> QED
          BY <3>1, <4>1, <2>7 DEF TranscriptLengths
      <3>2. CASE i = n
        <4>1. iterations'[i].resume = IF Resumes THEN held.anchor ELSE None
          BY <1>a, <3>2 DEF n
        <4>2. Resumes => held.anchor \in DOMAIN iterations /\ held.anchor # None
          BY <1>r, IterationFacts
        <4> QED
          BY <3>2, <4>1, <4>2, <2>7, <2>8 DEF last
      <3> QED
        BY <2>5, <3>1, <3>2
    <2>10. len2 \in TranscriptLengths'
      BY <2>6, <2>9 DEF TranscriptLengths
    <2>11. Counts(len2, chain)'
      BY <1>a, <1>c, <2>4, <2>8 DEF Counts, n
    <2>12. Counts(len2, saved)'
      BY <1>a, <2>1, <2>7 DEF Counts, Anchors
    <2> QED
      BY <2>10, <2>11, <2>12 DEF Counted
  <1>5. Anchors' /\ Fire' /\ Asked' /\ Failures' /\ Quiet'
    BY <1>a, <1>c, <1>f, <1>h, <1>n, <1>r DEF Anchors, TypeOK, Fire, Is, Asked, Failures, Quiet,
       Busy
  <1> QED
    BY <1>1, <1>2, <1>3, <1>4, <1>5

\* The chain the fire found is put back while nothing is busy.
LEMMA SpawnRefusedIInv ==
    ASSUME IInv, SpawnRefused PROVE IInv'
  <1> USE DEF IInv, SpawnRefused, Return, childVars
  <1>1. TypeOK'
    BY DEF TypeOK, Fire, Anchors
  <1>2. Anchored'
    BY DEF Anchored, Quiet, Is, Busy
  <1>3. Anchors' /\ Fire' /\ Asked' /\ Failures' /\ Quiet' /\ Resumed' /\ Counted'
    BY DEF Anchors, TypeOK, Fire, Is, Asked, Failures, Quiet, Busy, Resumed, Continues, Counted,
       Counts, TranscriptLengths
  <1> QED
    BY <1>1, <1>2, <1>3

\* A status changes; the transcripts stand.
LEMMA EndsIInv ==
    ASSUME IInv, NEW i \in DOMAIN iterations, NEW status \in {"completed", "failed"}, Ends(i, status)
    PROVE  IInv'
  <1> USE DEF IInv, Ends, fireVars
  <1>a. /\ iterations' \in Seq(Iteration) /\ Len(iterations') = Len(iterations)
        /\ DOMAIN iterations' = DOMAIN iterations
        /\ \A j \in DOMAIN iterations :
              iterations'[j] = [iterations[j] EXCEPT !.status = IF j = i THEN status ELSE @]
    <2>1. \A j \in DOMAIN iterations : iterations'[j] \in Iteration
                /\ iterations'[j] = [iterations[j] EXCEPT !.status = IF j = i THEN status ELSE @]
      BY IterationFacts DEF Iteration
    <2>2. DOMAIN iterations' = 1..Len(iterations)
      BY IterationFacts
    <2>3. iterations' = [j \in 1..Len(iterations) |-> iterations'[j]]
      BY <2>2
    <2>4. iterations' \in [1..Len(iterations) -> Iteration]
      BY <2>1, <2>3, IterationFacts
    <2> QED
      BY <2>1, <2>2, <2>4, IterationFacts, MappedSequence
  <1>b. SameTranscripts
    BY <1>a, IterationFacts DEF SameTranscripts, Iteration
  <1>1. TypeOK'
    BY <1>a, <1>b DEF TypeOK, Iteration
  <1>2. Counted'
    <2>1. PICK len \in TranscriptLengths :
            Counts(len, chain) /\ Counts(len, saved) /\ (at # "loop" => Counts(len, held))
      BY DEF Counted
    <2>2. len \in TranscriptLengths'
      BY <1>b, LengthsStand
    <2>3. Counts(len, chain)' /\ Counts(len, saved)' /\ (at' # "loop" => Counts(len, held)')
      BY <1>b, <2>1 DEF SameTranscripts, Counts, TypeOK, Anchors
    <2> QED
      BY <2>2, <2>3 DEF Counted
  <1>3. Anchors' /\ Fire' /\ Asked' /\ Failures' /\ Anchored' /\ Quiet' /\ Resumed'
    BY <1>a, <1>b DEF Anchors, TypeOK, Fire, Is, Asked, Failures, Anchored, Busy, Quiet,
       Resumed, Continues
  <1> QED
    BY <1>1, <1>2, <1>3

\* A subagent starts under something that is busy already, or under a failed iteration.
LEMMA DescendantStartsIInv ==
    ASSUME IInv, NEW i \in DOMAIN iterations, DescendantStarts(i) PROVE IInv'
  <1> USE DEF IInv, DescendantStarts, fireVars
  <1>1. TypeOK'
    BY DEF TypeOK, Chains
  <1>2. Anchors'
    BY DEF Anchors, TypeOK
  <1>3. Fire'
    BY DEF Fire, TypeOK, Is
  <1>4. Asked'
    BY DEF Asked
  <1>5. Failures'
    BY DEF Failures, TypeOK, Is
  <1>6. Anchored'
    BY DEF Anchored, TypeOK, Busy, Is
  <1>7. Quiet'
    BY DEF Quiet, TypeOK, Busy, Is
  <1>8. Resumed'
    BY DEF Resumed, TypeOK, Continues, Is
  <1>9. Counted'
    BY CountedStands
  <1> QED
    BY <1>1, <1>2, <1>3, <1>4, <1>5, <1>6, <1>7, <1>8, <1>9

\* Fewer are busy.
LEMMA DescendantsEndIInv ==
    ASSUME IInv, NEW i \in DOMAIN iterations, DescendantsEnd(i) PROVE IInv'
  <1> USE DEF IInv, DescendantsEnd, fireVars
  <1>1. TypeOK'
    BY DEF TypeOK, Chains
  <1>2. Anchors'
    BY DEF Anchors, TypeOK
  <1>3. Fire'
    BY DEF Fire, TypeOK, Is
  <1>4. Asked'
    BY DEF Asked
  <1>5. Failures'
    BY DEF Failures, TypeOK, Is
  <1>6. Anchored'
    BY DEF Anchored, TypeOK, Busy, Is
  <1>7. Quiet'
    BY DEF Quiet, TypeOK, Busy, Is
  <1>8. Resumed'
    BY DEF Resumed, TypeOK, Continues, Is
  <1>9. Counted'
    BY DEF Counted, TypeOK, Counts, TranscriptLengths
  <1> QED
    BY <1>1, <1>2, <1>3, <1>4, <1>5, <1>6, <1>7, <1>8, <1>9

\* Only the anchor's own failure clears it, and a failed iteration is not busy.
LEMMA WatcherIInv ==
    ASSUME IInv, NEW i \in DOMAIN iterations, Watcher(i) PROVE IInv'
  <1> USE DEF IInv, Watcher, fireVars
  <1>b. SameTranscripts
    BY DEF SameTranscripts
  <1>1. TypeOK'
    <2>1. chain \in Chains /\ 0 \in 0..FreshEvery
      BY IterationFacts DEF TypeOK
    <2>2. chain' \in Chains /\ chain'.anchor \in {chain.anchor, None}
      BY <2>1 DEF Chains
    <2>3. watched' \subseteq DOMAIN iterations
      BY DEF TypeOK
    <2> QED
      BY <2>2, <2>3 DEF TypeOK
  <1>2. Anchored'
    BY <1>b DEF Anchored, Failures, Is, Busy
  <1>3. Counted'
    <2>1. PICK len \in TranscriptLengths :
            Counts(len, chain) /\ Counts(len, saved) /\ (at # "loop" => Counts(len, held))
      BY DEF Counted
    <2>2. len \in TranscriptLengths'
      BY <1>b, LengthsStand
    <2>3. Counts(len, chain)' /\ Counts(len, saved)' /\ (at' # "loop" => Counts(len, held)')
      <3>1. Counts(len, saved)' /\ (at' # "loop" => Counts(len, held)')
        BY <2>1 DEF Counts
      <3>2. Counts(len, chain)'
        BY <2>1 DEF Counts, TypeOK, Chains
      <3> QED
        BY <3>1, <3>2
    <2> QED
      BY <2>2, <2>3 DEF Counted
  <1>4. Anchors' /\ Fire' /\ Asked' /\ Failures' /\ Quiet' /\ Resumed'
    BY <1>b DEF Anchors, TypeOK, Fire, Is, Asked, Failures, Quiet, Busy, Resumed, Continues
  <1> QED
    BY <1>1, <1>2, <1>3, <1>4

\* The channel closes.
LEMMA CloseChannelIInv ==
    ASSUME IInv, CloseChannel PROVE IInv'
  <1> USE DEF IInv, CloseChannel, fireVars, childVars
  <1>1. TypeOK'
    BY DEF TypeOK, Chains
  <1>2. Anchors'
    BY DEF Anchors, TypeOK
  <1>3. Fire'
    BY DEF Fire, TypeOK, Is
  <1>4. Asked'
    BY DEF Asked
  <1>5. Failures'
    BY DEF Failures, TypeOK, Is
  <1>6. Anchored'
    BY DEF Anchored, TypeOK, Busy, Is
  <1>7. Quiet'
    BY DEF Quiet, TypeOK, Busy, Is
  <1>8. Resumed'
    BY DEF Resumed, TypeOK, Continues, Is
  <1>9. Counted'
    BY DEF Counted, TypeOK, Counts, TranscriptLengths
  <1> QED
    BY <1>1, <1>2, <1>3, <1>4, <1>5, <1>6, <1>7, <1>8, <1>9

\* The file takes the chain.
LEMMA SaveIInv ==
    ASSUME IInv, Save PROVE IInv'
  <1> USE DEF IInv, Save, fireVars, childVars
  <1>1. TypeOK'
    BY DEF TypeOK, Chains
  <1>2. Anchors'
    BY DEF Anchors, TypeOK
  <1>3. Fire'
    BY DEF Fire, TypeOK, Is
  <1>4. Asked'
    BY DEF Asked
  <1>5. Failures'
    BY DEF Failures, TypeOK, Is
  <1>6. Anchored'
    BY DEF Anchored, TypeOK, Busy, Is
  <1>7. Quiet'
    BY DEF Quiet, TypeOK, Busy, Is
  <1>8. Resumed'
    BY DEF Resumed, TypeOK, Continues, Is
  <1>9. Counted'
    BY DEF Counted, TypeOK, Counts, TranscriptLengths
  <1> QED
    BY <1>1, <1>2, <1>3, <1>4, <1>5, <1>6, <1>7, <1>8, <1>9

\* No iteration is left to overlap; the saved chain counts what it counted.
LEMMA RestartIInv ==
    ASSUME IInv, Restart PROVE IInv'
  <1> USE DEF IInv, Restart, Return
  <1>a. /\ iterations' \in Seq(Iteration) /\ Len(iterations') = Len(iterations)
        /\ DOMAIN iterations' = DOMAIN iterations
        /\ \A j \in DOMAIN iterations : iterations'[j] = [iterations[j] EXCEPT !.status = "lost"]
    <2>1. \A j \in DOMAIN iterations : iterations'[j] \in Iteration
                /\ iterations'[j] = [iterations[j] EXCEPT !.status = "lost"]
      BY IterationFacts DEF Iteration
    <2>2. iterations' \in [1..Len(iterations) -> Iteration]
      BY <2>1, IterationFacts
    <2> QED
      BY <2>1, <2>2, IterationFacts, MappedSequence
  <1>b. SameTranscripts
    BY <1>a, IterationFacts DEF SameTranscripts, Iteration
  <1>1. TypeOK'
    <2>1. chain' \in Chains /\ held' = None /\ saved' \in Chains
      BY DEF TypeOK
    <2>2. chain'.anchor # None => chain'.anchor \in DOMAIN iterations'
      BY <1>a DEF Anchors
    <2>3. completed' \in BOOLEAN /\ open' \in BOOLEAN
      OBVIOUS
    <2> QED
      BY <1>a, <2>1, <2>2, <2>3 DEF TypeOK, Iteration
  <1>2. Anchored'
    BY <1>a, <1>b, IterationFacts DEF Anchored, Iteration, Is, Busy
  <1>3. Resumed'
    <2>1. ASSUME NEW i \in DOMAIN iterations', NEW r, r = iterations'[i].resume, r # None
          PROVE  Continues(i, r)'
      <3>1. i \in DOMAIN iterations /\ r = iterations[i].resume
        BY <1>a, <1>b, <2>1 DEF SameTranscripts
      <3>2. Continues(i, r)
        BY <2>1, <3>1 DEF Resumed
      <3>3. iterations'[r].status = "lost"
        BY <1>a, <3>2, IterationFacts DEF Continues, Iteration
      <3> QED
        BY <1>a, <1>b, <3>1, <3>2, <3>3 DEF Continues, SameTranscripts
    <2> QED
      BY <2>1 DEF Resumed
  <1>4. Counted'
    <2>1. PICK len \in TranscriptLengths :
            Counts(len, chain) /\ Counts(len, saved) /\ (at # "loop" => Counts(len, held))
      BY DEF Counted
    <2>2. len \in TranscriptLengths'
      BY <1>b, LengthsStand
    <2>3. Counts(len, chain)' /\ Counts(len, saved)' /\ (at' # "loop" => Counts(len, held)')
      BY <1>b, <2>1 DEF SameTranscripts, Counts, TypeOK, Anchors
    <2> QED
      BY <2>2, <2>3 DEF Counted
  <1>5. Anchors' /\ Fire' /\ Asked' /\ Failures' /\ Quiet'
    BY <1>a, <1>b DEF Anchors, TypeOK, Fire, Is, Asked, Failures, Quiet, Busy
  <1> QED
    BY <1>1, <1>2, <1>3, <1>4, <1>5

\* No iteration was started.
LEMMA InitIInv == Init => IInv
  <1> SUFFICES ASSUME Init PROVE IInv
    OBVIOUS
  <1>1. TypeOK
    <2>1. iterations \in Seq(Iteration) /\ Len(iterations) = 0
      BY DEF Init
    <2>2. FreshEvery \in Nat /\ 0 \in 0..FreshEvery
      BY LoopAssumption
    <2>3. chain \in Chains /\ chain.anchor = None
      BY <2>2 DEF Init, Chains
    <2>4. Len(iterations) <= MaxIterations
      BY <2>1, LoopAssumption
    <2>5. completed \in BOOLEAN /\ open \in BOOLEAN
      BY DEF Init
    <2> QED
      BY <2>1, <2>3, <2>4, <2>5 DEF Init, TypeOK, Iteration
  <1>2. Anchors /\ Fire /\ Asked /\ Failures /\ Anchored /\ Quiet /\ Resumed
    BY DEF Init, Anchors, Fire, Asked, Failures, Anchored, Quiet, Resumed, Busy, Is
  <1>3. Counted
    <2> DEFINE len == [i \in DOMAIN iterations |-> 1]
    <2>1. len \in TranscriptLengths
      BY DEF Init, TranscriptLengths
    <2>2. chain.anchor = None /\ saved.anchor = None /\ at = "loop"
      BY DEF Init
    <2> QED
      BY <2>1, <2>2 DEF Counted, Counts
  <1> QED
    BY <1>1, <1>2, <1>3 DEF IInv

\* Nothing changes.
LEMMA StutterIInv == IInv /\ UNCHANGED vars => IInv'
  <1> SUFFICES ASSUME IInv, UNCHANGED vars PROVE IInv'
    OBVIOUS
  <1>1. TypeOK' /\ Anchors' /\ Fire' /\ Asked' /\ Failures' /\ Anchored' /\ Quiet'
    BY DEF vars, IInv, TypeOK, Anchors, Fire, Asked, Failures, Anchored, Quiet, Busy, Is
  <1>2. Resumed' /\ Counted'
    BY DEF vars, IInv, Resumed, Continues, Counted, Counts, TranscriptLengths
  <1> QED
    BY <1>1, <1>2 DEF IInv

\* Every step preserves the invariant.
LEMMA NextIInv == IInv /\ [Next]_vars => IInv'
  BY UpdatePromptIInv, FireBeginIInv, FireSkippedIInv, QueryAnsweredIInv, UnitAnsweredIInv,
     SpawnIInv, SpawnRefusedIInv, EndsIInv, DescendantStartsIInv, DescendantsEndIInv, WatcherIInv,
     CloseChannelIInv, SaveIInv, RestartIInv, StutterIInv DEF Next

\* The inductive invariant holds of the loop, for every number of iterations.
THEOREM Invariance == Spec => []IInv
  BY InitIInv, NextIInv, PTL DEF Spec

\* Type correctness: the anchor is an iteration that was started, and the counter of
\* the chain stays within LOOP_FRESH_CHAIN_EVERY.
THEOREM TypeCorrect == Spec => []TypeOK
  <1>1. IInv => TypeOK
    BY DEF IInv
  <1> QED
    BY <1>1, Invariance, PTL

\* Iterations of a loop do not overlap: not each other, and not the subagents that a
\* completed one left behind.
THEOREM UnitCorrect == Spec => []UnitIsAlone
  <1>1. IInv => UnitIsAlone
    <2>1. ASSUME IInv, NEW i \in DOMAIN iterations, NEW j \in DOMAIN iterations,
                 Is(i, "running"), j < i, Busy(j)
          PROVE  FALSE
      <3>1. i = j
        BY <2>1 DEF IInv, Anchored, Busy
      <3> QED
        BY <2>1, <3>1, IterationFacts DEF IInv
    <2> QED
      BY <2>1 DEF UnitIsAlone, Busy
  <1> QED
    BY <1>1, Invariance, PTL

\* Transcripts are continued only under the same prompt and after a completed
\* iteration, and none is shared by more than LOOP_FRESH_CHAIN_EVERY iterations.
THEOREM ChainCorrect == Spec => []ChainIsSound
  <1>1. IInv => ChainIsSound
    BY DEF IInv, Resumed, Continues, Counted, ChainIsSound, Is
  <1> QED
    BY <1>1, Invariance, PTL
===============================================================================
