\* A user and an application with two scopes, two codes, two exchanges and a
\* revocation; two replacements and two settings of two preferences; two
\* registrations of two names; seven requests of one client, two at once, counted by
\* either cache, which keeps a window's counter one second and one it has set two.
SPECIFICATION PartSpec
CONSTANTS
    Users = {user1}
    Applications = {app1}
    Scopes = {"read_prefs", "write_api"}
    DefaultScopes = {"read_prefs"}
    Exchanges = {x1, x2}
    Revokers = {rev1}
    CodeSeconds = 1
    TokenSeconds = 1
    MaxTime = 1
    MaxCodes = 2
    MaxTokens = 2
    MaxChanges = 1
    Changed <- SmallChanged
    Nobody = Nobody
    Keys = {k1, k2}
    Values = {v1}
    Replacers = {put1, put2}
    Setters = {set1, set2}
    MaxRows = 3
    NoValue = NoValue
    Names = {n1, n2}
    Registrars = {reg1, reg2}
    MaxUsers = 3
    MaxFailures = 1
    None = None
    Callers = {q1, q2}
    Caches = {"local", "database"}
    Limit = 2
    Window = 1
    DefaultTimeout = 2
    MaxClock = 3
    MaxRequests = 7
INVARIANTS
    TypesOK
    OneTokenPerCode
    GrantedAsAgreed
    OneRowPerKey
    LimitHolds
PROPERTIES
    RevokedCodesGiveNothing
    UsersKept
\* Each ends when its bounds are reached.
CHECK_DEADLOCK FALSE
