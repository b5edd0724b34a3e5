SPECIFICATION FairSpec
CONSTANTS
    c1 = c1
    m1 = m1
    m2 = m2
    Children = {c1}
    WorkflowChildren = {}
    Messages = {m1, m2}
    MaxPerChild = 1
    Capacity = 1
INVARIANTS
    TypeOK
    AnswersAreTrue
    CountersExact
    OkResultMeansAgreement
PROPERTIES
    CleanFinalizingIsFinal
    EverybodyIsAnswered
