------------------------ MODULE MCSubagentCoordinator ------------------------
EXTENDS SubagentCoordinator, TLC

CONSTANTS s1, a, b, c, q, r

Ask(parent, owner, background, to_completion, definition, surface) ==
    [parent |-> parent, prompt |-> q, owner |-> owner, run_in_background |-> background,
     await_to_completion |-> to_completion, definition_background |-> definition,
     surface_completion |-> surface]

\* Two foreground task children of one session and a background one nested under the
\* first compete for the slot a limit of zero is clamped to.
Queueing ==
    [asked |-> (a :> Ask(s1, "task", FALSE, FALSE, FALSE, TRUE))
            @@ (b :> Ask(s1, "task", FALSE, TRUE, FALSE, FALSE))
            @@ (c :> Ask(a, "task", TRUE, FALSE, FALSE, TRUE)),
     leaving |-> {a}, queried |-> {b}, max_concurrent |-> 0, queue |-> TRUE]

\* A workflow child and two task children nested under it: they inherit its run
\* while it is active and share a session of their own once it is not.  The first
\* is a background agent by definition.
Failing ==
    [asked |-> (a :> Ask(s1, r, FALSE, TRUE, FALSE, TRUE))
            @@ (b :> Ask(a, "task", FALSE, FALSE, TRUE, TRUE))
            @@ (c :> Ask(a, "task", TRUE, FALSE, FALSE, TRUE)),
     leaving |-> {b}, queried |-> {}, max_concurrent |-> 1, queue |-> FALSE]

\* A foreground child with a budget and one awaited to completion.
Pair ==
    [asked |-> (a :> Ask(s1, "task", FALSE, FALSE, FALSE, FALSE))
            @@ (b :> Ask(s1, "task", FALSE, TRUE, FALSE, FALSE)),
     leaving |-> {a}, queried |-> {}, max_concurrent |-> 1, queue |-> TRUE]

SafetySetups == {Queueing, Failing}
LiveSetups   == {Pair}
==============================================================================
