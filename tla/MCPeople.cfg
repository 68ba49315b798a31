\* One behaviour is of one of six components, each at the bounds below.
SPECIFICATION PeopleSpec
CONSTANTS
    \* Accounts
    Visitors = {v1, v2}
    Tokens = {t1, t2}
    Sessions = {s1, s2}
    SessionLimit = 1
    MaxChanges = 1
    MaxFailures = 1
    Nothing = Nothing
    \* LoginLockout
    Guessers = {g1, g2}
    MaxAttempts = 2
    LockFor = 2
    Horizon = 5
    MaxTried = 6
    MaxFaults = 1
    \* MagicLinks
    Requests = {r1, r2}
    Links = {l1, l2, l3, l4}
    LinkLimit = 2
    MaxLost = 1
    \* Memberships
    Users = {u1, u2}
    Founder = u1
    Gyms = {g1}
    MaxRows = 2
    MaxAsked = 2
    \* Access
    Org = Org
    Gym = Gym
    Branch = Branch
    Grants = {0, 2, 5}
    MaxRoleChanges = 2
    MaxLookupFaults = 1
    \* RateLimiter
    Keys = {k1, k2, k3}
    Limit = 2
    Window = 2
    MaxClients = 2
    SweepEvery = 3
INVARIANTS
    CredentialsHold
    LimitsHold
    RolesHold
\* Every component stops at its bound.
CHECK_DEADLOCK FALSE
