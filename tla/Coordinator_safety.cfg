SPECIFICATION Spec
CONSTANTS
    s1 = s1  a = a  b = b  c = c  q = q  r = r
    Sessions = {s1}
    Ids = {a, b, c}
    Prompts = {q}
    WorkflowRuns = {r}
    Setups <- SafetySetups
INVARIANTS
    TypeOK
    LimitIsUsed
    NobodyWaitsForNothing
PROPERTIES
    CompletionsReported
    NoOvertaking
    ExitIsClean
