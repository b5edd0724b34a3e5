SPECIFICATION TimelySpec
CONSTANTS
    s1 = s1  a = a  b = b  c = c  q = q  r = r
    Sessions = {s1}
    Ids = {a, b}
    Prompts = {q}
    WorkflowRuns = {}
    Setups <- LiveSetups
PROPERTIES
    QueuedLeaves
    HoldsAreReleased
