CONSTANTS
    d1 = d1
    d2 = d2
    r1 = r1
    r2 = r2
    NoDoc = NoDoc
    Listener = Listener
    Doc = {d1, d2}
    Request = {r1}
    MaxChunks = 2
    MinChunks = 0
    BatchSize = 2
    SmartParse = {d1}
    Uploads = {"declared"}
    MaxFault <- Steady
SPECIFICATION Spec
PROPERTIES
    ImplementsLedger
