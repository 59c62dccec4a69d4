CONSTANTS
    A = A
    B = B
    k1 = k1
    k2 = k2
    MaxEvents = 3
    Session = {A, B}
    OldSession = {A}
    Send = {k1, k2}
    Load = {l1}
    NoSession = NoSession
    Message = {m1, m2}
    FeedbackCall = {c1, c2}
    NoMessage = NoMessage
    ChatSkill = {sk1}
    NoChatSkill = NoChatSkill
    Question = {q1, q2}
    Recognition = {r1, r2}
    Doc = {d1, d2}
    NoDoc = NoDoc
    Stage = {"PARSING"}
    PollLimit = 2
    AttachDoc = {d1, d2}
    SkillCommand = {n1, n2}
    BareSkill = {b1}
    IntentCommand = {i1}
    UnknownCommand = {u1}
    Blank = Blank
    CalledNote = CalledNote
    NoResult = NoResult
    Submission = {s1, s2}
    Ask = {r1, r2}
    OldTurn = r0
    NoAsk = NoAsk
    MaxTurns = 2
    RedisFaults = 1
SPECIFICATION Spec
INVARIANTS
    ChatPagesTypeOK
    EventsArriveWhole
    LockMeansWork
    ScreenMatchesSession
    ShownFeedbackWasStored
    InputAreaIsTrue
    ReadyPhaseIsTrue
    BarShowsItsCommand
    HistoryIsTrue
PROPERTIES
    ImplementsFeed
SYMMETRY Questions
CHECK_DEADLOCK FALSE
