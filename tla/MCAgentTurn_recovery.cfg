SPECIFICATION Spec
CONSTANTS
    FailureThreshold = 2
    ResetTimeout = 2
    Turns = {t1, t2, t3}
    p = p
    q = q
    u = u
    Providers = {p}
    Registered = {p}
    FallbackChain <- NoChain
    ModelFallbacks = 1
    NoProvider = NoProvider
PROPERTY RecoveredProviderCloses
