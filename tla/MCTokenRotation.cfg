\* More callers than tokens, and a server that asks for a longer wait than the
\* longest backoff.
SPECIFICATION Spec
CONSTANTS
    c1 = c1
    c2 = c2
    c3 = c3
    Callers = {c1, c2, c3}
    N = 2
    DefaultBackoff = 1
    MaxBackoff = 2
    MaxRetryAfter = 3
INVARIANTS
    TypeOK
    TurnComes
    MandatedWaitHonored
PROPERTIES
    LimitedTokenRests
    OncePerCooldown
SYMMETRY Symmetry
