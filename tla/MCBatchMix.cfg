CONSTANTS
    d1 = d1
    d2 = d2
    r1 = r1
    r2 = r2
    NoDoc = NoDoc
    Listener = Listener
    Doc = {d1, d2}
    Request = {r1}
    MaxChunks = 1
    MinChunks = 1
    BatchSize = 2
    SmartParse = {d1, d2}
    Uploads = {"declared"}
    MaxFault <- NoFault
SPECIFICATION Spec
INVARIANTS
    AllDoneIsReady
