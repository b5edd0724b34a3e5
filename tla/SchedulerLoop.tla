----------------------------- MODULE SchedulerLoop -----------------------------
(***************************************************************************)
(* The background fires of one recurring task: what the scheduler actor    *)
(* does between Scheduler!FireRecurring and Fired or Skipped.  Each fire   *)
(* runs the task's prompt in a subagent, an iteration, that may resume the *)
(* transcript of the one before.  The actor asks the subagent coordinator  *)
(* twice whether it may start, and the coordinator, the iterations, their  *)
(* own subagents and one watcher per iteration run while it waits.         *)
(*                                                                         *)
(* Abstractions: an iteration that is queued counts as running; the        *)
(* descendants of an iteration are one token; a fire that falls back to    *)
(* the foreground only leaves the actor; the chain written for a spawn     *)
(* that is then refused is put back before anyone saves it; cadence and    *)
(* texts are left out.                                                     *)
(***************************************************************************)
EXTENDS Naturals, Sequences, FiniteSets

CONSTANTS
    None,           \* Option::None
    Prompts,        \* what the task may be asked to do
    FreshEvery,     \* LOOP_FRESH_CHAIN_EVERY
    MaxIterations   \* bound: iterations ever started

ASSUME LoopAssumption ==
    /\ Prompts # {} /\ FreshEvery \in Nat \ {0}
    /\ MaxIterations \in Nat \ {0} /\ None \notin 1..MaxIterations

VARIABLES
    at,          \* "loop", or where a fire is: "query", "unit", "spawn"
    chain,       \* the task's prompt and its chain, in the resources
    held,        \* the chain as the fire read it, None without a fire
    completed,   \* the query found the previous iteration completed
    iterations,  \* the subagents started for the task, in order
    descendants, \* iterations that have a live subagent of their own
    watched,     \* failed iterations whose watcher has not run
    open,        \* the coordinator's channel
    saved        \* the chain in the resources file

fireVars  == <<at, held, completed>>
childVars == <<iterations, descendants, watched>>
vars      == <<at, chain, held, completed, iterations, descendants, watched, open, saved>>

Ids    == 1..MaxIterations
Chains == [prompt : Prompts, anchor : Ids \cup {None}, fresh : 0..FreshEvery, reset : BOOLEAN]
Is(i, status) == i \in DOMAIN iterations /\ iterations[i].status = status

TypeOK ==
    /\ at \in {"loop", "query", "unit", "spawn"}
    /\ chain \in Chains /\ held \in Chains \cup {None} /\ saved \in Chains
    /\ chain.anchor # None => chain.anchor \in DOMAIN iterations
    /\ completed \in BOOLEAN /\ open \in BOOLEAN
    /\ iterations \in Seq([prompt : Prompts, resume : Ids \cup {None},
                           status : {"running", "completed", "failed", "lost"}])
    /\ Len(iterations) <= MaxIterations
    /\ descendants \subseteq DOMAIN iterations /\ watched \subseteq DOMAIN iterations

Init ==
    /\ at = "loop" /\ completed = FALSE
    /\ chain \in [prompt : Prompts, anchor : {None}, fresh : {0}, reset : {FALSE}]
    /\ held = None /\ saved = chain
    /\ iterations = <<>> /\ descendants = {} /\ watched = {}
    /\ open = TRUE

----------------------------------------------------------------------------
\* The actor

Return == at' = "loop" /\ held' = None /\ completed' = FALSE

MutUpdatePrompt(p) ==
    /\ at = "loop"
    /\ chain' = IF p = chain.prompt THEN chain
                ELSE [prompt |-> p, anchor |-> None, fresh |-> 0, reset |-> TRUE]
    /\ UNCHANGED <<fireVars, childVars, open, saved>>
\* SchedulerCommand::Update with a prompt
UpdatePrompt(p) ==
    /\ at = "loop"
    /\ chain' = IF p = chain.prompt THEN chain
                ELSE [chain EXCEPT !.prompt = p, !.fresh = 0, !.reset = TRUE]
    /\ UNCHANGED <<fireVars, childVars, open, saved>>

\* fire_as_loop_subagent: without an anchor nothing is asked.
FireBegin ==
    /\ at = "loop"
    /\ held' = chain /\ completed' = FALSE
    /\ at' = IF chain.anchor = None THEN "spawn" ELSE "query"
    /\ UNCHANGED <<chain, childVars, open, saved>>

\* The question cannot be asked or is not answered in time; or the actor is cancelled.
FireSkipped ==
    /\ at \in {"query", "unit"}
    /\ Return
    /\ UNCHANGED <<chain, childVars, open, saved>>

\* The previous iteration's snapshot; there is none once its record is gone.
QueryAnswered ==
    /\ at = "query" /\ open
    /\ IF Is(held.anchor, "running") THEN Return
       ELSE at' = "unit" /\ completed' \in {FALSE, Is(held.anchor, "completed")} /\ UNCHANGED held
    /\ UNCHANGED <<chain, childVars, open, saved>>

\* LoopUnitActive: whether anything runs that carries the task's loop_task_id
UnitActive == descendants # {} \/ \E i \in DOMAIN iterations : Is(i, "running")
UnitAnswered ==
    /\ at = "unit" /\ open
    /\ IF UnitActive THEN Return ELSE at' = "spawn" /\ UNCHANGED <<held, completed>>
    /\ UNCHANGED <<chain, childVars, open, saved>>

MutResumes == held.fresh < FreshEvery /\ completed
MutResumesLate == ~held.reset /\ held.fresh <= FreshEvery /\ completed
\* Whether the next iteration continues the transcript of the previous one
Resumes == ~held.reset /\ held.fresh < FreshEvery /\ completed

NextFresh == IF Resumes THEN held.fresh + 1 ELSE 1

Spawn ==
    /\ at = "spawn" /\ open /\ Len(iterations) < MaxIterations
    /\ iterations' = Append(iterations, [prompt |-> held.prompt,
                                         resume |-> IF Resumes THEN held.anchor ELSE None,
                                         status |-> "running"])
    /\ chain' = [chain EXCEPT !.anchor = Len(iterations'), !.fresh = NextFresh, !.reset = FALSE]
    /\ Return
    /\ UNCHANGED <<descendants, watched, open, saved>>

\* The channel is closed: the chain is put back as the fire found it.
SpawnRefused ==
    /\ at = "spawn" /\ ~open
    /\ chain' = held
    /\ Return
    /\ UNCHANGED <<childVars, open, saved>>

----------------------------------------------------------------------------
\* The coordinator and its subagents

Ends(i, status) ==
    /\ Is(i, "running")
    /\ iterations' = [iterations EXCEPT ![i].status = status]
    /\ watched' = IF status = "failed" THEN watched \cup {i} ELSE watched
    /\ UNCHANGED <<fireVars, chain, descendants, open, saved>>

\* A nested spawn is re-keyed to the loop only while its spawner runs.
DescendantStarts(i) ==
    /\ Is(i, "running") \/ i \in descendants
    /\ descendants' = descendants \cup {i}
    /\ UNCHANGED <<fireVars, chain, iterations, watched, open, saved>>

DescendantsEnd(i) ==
    /\ i \in descendants
    /\ descendants' = descendants \ {i}
    /\ UNCHANGED <<fireVars, chain, iterations, watched, open, saved>>

\* The watcher of an iteration whose result is an error
Watcher(i) ==
    /\ i \in watched
    /\ watched' = watched \ {i}
    /\ chain' = IF chain.anchor = i THEN [chain EXCEPT !.anchor = None, !.fresh = 0] ELSE chain
    /\ UNCHANGED <<fireVars, iterations, descendants, open, saved>>

CloseChannel == open /\ open' = FALSE /\ UNCHANGED <<fireVars, chain, childVars, saved>>

\* A save of the resources; what is on its way to the file is as good as written
\* or lost with the process.
Save == saved' = chain /\ UNCHANGED <<fireVars, chain, childVars, open>>

\* The process ends and the session is loaded again: no record of a subagent is left.
Restart ==
    /\ Return /\ chain' = saved
    /\ iterations' = [i \in DOMAIN iterations |-> [iterations[i] EXCEPT !.status = "lost"]]
    /\ descendants' = {} /\ watched' = {} /\ open' = TRUE
    /\ UNCHANGED saved

----------------------------------------------------------------------------
Next ==
    \/ \E p \in Prompts : UpdatePrompt(p)
    \/ FireBegin \/ FireSkipped \/ QueryAnswered \/ UnitAnswered \/ Spawn \/ SpawnRefused
    \/ \E i \in DOMAIN iterations :
          \/ \E status \in {"completed", "failed"} : Ends(i, status)
          \/ DescendantStarts(i) \/ DescendantsEnd(i) \/ Watcher(i)
    \/ CloseChannel \/ Save \/ Restart

Spec == Init /\ [][Next]_vars

----------------------------------------------------------------------------
\* Properties

\* Iterations of a loop do not overlap: while one runs no earlier one does, and no
\* subagent of an earlier one that completed.  The anchor a prompt update keeps,
\* and that only the watcher of its own iteration clears, is what the in-flight
\* questions depend on.
UnitIsAlone ==
    \A i, j \in DOMAIN iterations :
        Is(i, "running") /\ j < i =>
            ~Is(j, "running") /\ ~(j \in descendants /\ Is(j, "completed"))

\* How many iterations share the transcript that each iteration ends: one if it
\* started fresh, one more than the iteration it resumed otherwise.  There is no
\* such function if some transcript is longer than FreshEvery.
TranscriptLengths ==
    {len \in [DOMAIN iterations -> 1..FreshEvery] :
        \A i \in DOMAIN iterations :
            LET r == iterations[i].resume IN len[i] = IF r = None THEN 1 ELSE len[r] + 1}

\* A new prompt never continues an old transcript, only the transcript of an
\* iteration that completed is continued, and a transcript is abandoned after
\* FreshEvery iterations, whatever watchers, failed spawns and restarts did to the
\* chain in between: the counter kept in the task never lags behind the real length.
ChainIsSound ==
    /\ \A i \in DOMAIN iterations :
          LET r == iterations[i].resume
          IN  r # None => /\ r < i /\ iterations[r].prompt = iterations[i].prompt
                          /\ Is(r, "completed") \/ Is(r, "lost")
    /\ TranscriptLengths # {}
=============================================================================
