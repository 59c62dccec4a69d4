CONSTANTS
    d1 = d1
    d2 = d2
    r1 = r1
    r2 = r2
    NoDoc = NoDoc
    Listener = Listener
    Doc = {d1}
    Request = {r1, r2}
    MaxChunks = 1
    MinChunks = 0
    BatchSize = 1
    SmartParse = {d1}
    Uploads = {"declared"}
    MaxFault <- Front
SPECIFICATION Spec
INVARIANTS
    InFlightIsCarried
    QueuedIsStored
PROPERTIES
    CommittedOnce
SYMMETRY Threads
