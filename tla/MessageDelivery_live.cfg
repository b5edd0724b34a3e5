SPECIFICATION FairSpec
CONSTANTS
    Prompts = {p1}
    Messages = {m1}
    Resumes = {r1}
    McpPending = TRUE
    MaxSteer = 2
    MayClose = {"chat"}
PROPERTIES
    RewindIsExact
    AcceptedIsAnswered
