CONSTANTS
    d1 = d1
    d2 = d2
    c1 = c1
    c2 = c2
    f1 = f1
    f2 = f2
    f3 = f3
    Doc = {d1, d2}
    NoDoc = NoDoc
    Stage = {"PARSING"}
    MaxPolls = 1
    Space = {s1, s2}
    Default = s1
    File = {f1, f2}
    NoFile = NoFile
    Slot = {c1, c2}
    MaxCalls = 2
    Outline <- MCOutlines
    Import = {k1, k2}
    MaxReads = 1
    TextFile = {f1, f2, f3}
    NoTextFile = NoTextFile
    Line = {"a", "b", "  b", ""}
    Word = {"x", "y"}
    TextOf <- MCText
    WordsIn <- MCWords
    MaxPicks = 2
    AclSpace = {s1, s2, s3}
    Leaf = {s1, s2}
    Permission = {"READ"}
    Unbound = Unbound
SPECIFICATION Spec
INVARIANTS
    DocumentPagesTypeOK
    UploadIsTold
    RequestIsOfTheChoice
    ListIsTrue
    ViewsFollowTheirDocument
    ImportMakesTheOutline
    SavedMatrixIsStored
    ComparisonIsOfTheFiles
SYMMETRY Names
CHECK_DEADLOCK FALSE
