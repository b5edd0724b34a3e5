SPECIFICATION Spec
CONSTANTS
    None = None
    p = p  q = q
    Prompts = {p, q}
    FreshEvery = 2
    MaxIterations = 4
SYMMETRY PromptSymmetry
INVARIANTS
    TypeOK
    UnitIsAlone
    ChainIsSound
