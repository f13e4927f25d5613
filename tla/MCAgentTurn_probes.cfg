SPECIFICATION Spec
CONSTANTS
    FailureThreshold = 2
    ResetTimeout = 2
    Turns = {t1, t2}
    p = p
    q = q
    u = u
    Providers = {p, q, u}
    Registered = {p, q}
    FallbackChain <- ShortChain
    ModelFallbacks = 1
    NoProvider = NoProvider
INVARIANT ProbesAreLimited
