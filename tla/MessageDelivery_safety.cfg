SPECIFICATION Spec
CONSTANTS
    Prompts = {p1, p2}
    Messages = {m1, m2}
    Resumes = {}
    McpPending = FALSE
    MaxSteer = 2
    MayClose = {"persistence"}
SYMMETRY Symmetry
INVARIANTS
    TypeOK
    InputsAreOwned
    OkMeansDelivered
PROPERTIES
    SettledIsSilent
    KeepsContract
