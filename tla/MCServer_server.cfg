\* Each component of the server on its own.
SPECIFICATION ServerSpec

CONSTANTS
    Addresses = {a1, a2}
    Calls = {r1, r2}
    Keys = {k1}
    NoKey = nokey
    MaxHits = 2
    HitWindow = 2
    KnownAddresses = 1
    KeyTTL = 2
    Chunks = 2
    ToolNames = {tool, missing}
    Handled = {tool}
    Dangerous = {tool}
    Tokens = {k1}
    Callers = {u1, u2}
    ApprovalTTL = 1
    MaxCalls = 2
    Sources = {p1, p2}
    Gets = {g1}
    ModelTTL = 1
    ResponseTTL = 1
    Clients = {c1}
    Families = {"claude", "gpt", "mimo", "ac", "gemini", "other"}
    MaxPieces = 2
    Events = {e1, e2}
    Sockets = {s1, s2}
    Slow = {s2}
    TaskNames = {backup, job}
    AutoBackup = backup
    Servers = {n1, n2}
    Conns = {x1, x2}
    NoConn = noconn
    Users = {u1}
    Openers = {o1, o2}
    Versions = {1, 2}
    Halves = 2

INVARIANTS
    ServerTypeOK
    AtMostMaxHits
    StoredBodyIsWhole
    ApprovedOnce
    ConfirmationsExpire
    FinishedMeansWhole
    AtMostOnce
    ShutdownIsComplete
    ClientsAreClosed
    VersionMeansApplied
    OpenMeansComplete

PROPERTIES
    NoRunAfterAnswer
    EveryoneIsServed
    TasksFire
    ServesWithItsTasks

\* The process exits, and the event bus and the bridge run out of ids.
CHECK_DEADLOCK FALSE
