\* Two workers with one connection each, two requests in flight, one person new, one with a second identity.
CONSTANTS
    ann = ann
    bob = bob
    cat = cat
    dan = dan
    w1 = w1
    w2 = w2
    c1 = c1
    c2 = c2
    Identities = {ann, bob, cat, dan}
    Registered = {ann, bob}
    EmailOf <- MCEmailOf
    Workers = {w1, w2}
    Conns = {c1, c2}
    PoolOf <- MCPoolOf
    Requests = {1, 2}
    DevMode = FALSE
    Free = Free
    Unset = Unset
    Public = Public
    MaxRequests = 2
    MaxFaults = 1
SPECIFICATION FairSpec
INVARIANTS TypeOK NeverAnotherTenant BoundWritesAtHome TokenNamesAccount
PROPERTIES EveryRequestEnds
CHECK_DEADLOCK FALSE
