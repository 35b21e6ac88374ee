SPECIFICATION Spec
CONSTANTS
    t1 = t1
    t2 = t2
    Memories <- Ids
    NoMemory = NoMemory
    NoValue = NoValue
    Values = {v1, v2, v3}
    Sleepers = {t1}
    Servers = {t2}
    Layers = 2
    LayerOf <- TwoLayers
    AuthorOf <- OneAuthor
    AuthorityOf <- Authorities
    TimeOf <- Times
    NoTime = NoTime
    LanguageOf <- Alike
    Trusted <- Ids
    Varying <- Second
    MaxRevision = 1
SYMMETRY Symmetry
INVARIANTS
    ServedWasLive
    HotIsFaithful
PROPERTIES
    PlanStillHolds
    AnswerSurvives
