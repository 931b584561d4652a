SPECIFICATION FairSpec
CONSTANTS
    vera = vera
    chief = chief
    m1 = m1
    d1 = d1
    NoOne = NoOne
    NoDistrict = NoDistrict
    User <- MCUser
    Media <- MCMedia
    MediaOwner <- MCMediaOwner
    Reporters <- MCReporters
    Verifiers <- MCVerifiers
    Publishers <- MCPublishers
    Resolvers <- MCPublishers
    District = {d1}
    FanoutLimit = 1
    Volatile <- MCVolatile
    MaxPush = 2
    MaxStarted = 6
    Issue = {i1}
    Req = {q1}
    Crashes = FALSE
INVARIANTS
    NobodyIsPushedTwice
PROPERTIES
    FollowsLifecycle MovesAreFollowedUp
