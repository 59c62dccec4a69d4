CONSTANTS
    i1 = i1
    m1 = m1
    f1 = f1
    p1 = p1
    p2 = p2
    g1 = g1
    g2 = g2
    Skill = {i1, i2}
    Shipped = {i1}
    Source = {"prompt", "external", "custom", "mcp", "toolbox"}
    NoSkill = NoSkill
    Agent = {a1, a2}
    DefaultAgents = {a1}
    Tab = {b1, b2}
    Model = {m1, m2}
    NoModel = NoModel
    Filter = {f1, f2}
    MaxFetches = 3
    Trace = {t1, t2}
    NoTrace = NoTrace
    Lookup = {l1, l2}
    Badcase = {c1, c2}
    Column = {"OPEN", "REVIEWED", "RESOLVED"}
    NoBadcase = NoBadcase
    Drop = {p1, p2}
    Generation = {g1, g2}
    NoGeneration = NoGeneration
    GeneratePage = {e1}
    Run = {r1, r2}
    NoRun = NoRun
    DatasetFetch = {n1}
    KnowledgeSpace = {s1, s2}
    ExistingSpace = {s1}
    FormTab = {t1}
    MaxLeft = 0
    Node = {n0, n2, n3}
    RootNode = n0
    SpaceDoc = {d1}
    Role = {R1, R2}
    User = {U1}
    AclRequest = {u1, u2}
    MaxDepth = 3
SPECIFICATION Spec
INVARIANTS
    CreatedIsAsFilled
SYMMETRY Names
CHECK_DEADLOCK FALSE
