CONSTANTS
    d1 = d1
    c1 = c1
    Session = {A}
    OldSession = {}
    Send = {k1, k2}
    Load = {}
    NoSession = NoSession
    Doc = {d1, d2}
    NoDoc = NoDoc
    Stage = {"PARSING"}
    PollLimit = 1
    AttachDoc = {}
    MaxPolls = 1
    Slot = {c1, c2}
    MaxCalls = 2
    Outline <- MCOutlines
    Import = {k1}
    MaxReads = 1
    Generation = {g1}
    NoGeneration = NoGeneration
    GeneratePage = {p1}
    Run = {r1}
    NoRun = NoRun
    DatasetFetch = {c1}
SPECIFICATION FairSpec
PROPERTIES
    PagesComeToRest
    WorkIsFollowed
CHECK_DEADLOCK FALSE
