\* One request a second, counted in the database, which keeps what it has set two.
SPECIFICATION RateSpec
CONSTANTS
    Callers = {q1, q2}
    Caches = {"database"}
    Limit = 1
    Window = 1
    DefaultTimeout = 2
    MaxClock = 3
    MaxRequests = 3
INVARIANTS
    FreeAfterWindow
CHECK_DEADLOCK FALSE
