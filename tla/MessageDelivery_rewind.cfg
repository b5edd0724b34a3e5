SPECIFICATION Spec
CONSTANTS
    Prompts = {p1, p2}
    Messages = {}
    Resumes = {}
    McpPending = FALSE
    MaxSteer = 1
    MayClose = {}
PROPERTIES
    RewindOwnsOneTurn
