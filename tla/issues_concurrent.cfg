SPECIFICATION Spec
CONSTANTS
    vera = vera
    chief = chief
    m1 = m1
    d1 = d1
    NoOne = NoOne
    NoDistrict = NoDistrict
    User <- MCUser
    Media <- MCMedia
    MediaOwner <- MCMediaOwner
    Reporters <- MCReporters
    Verifiers <- MCVerifiers
    Publishers <- MCPublishers
    Resolvers <- MCPublishers
    District = {d1}
    FanoutLimit = 1
    Volatile <- MCVolatile
    MaxPush = 2
    MaxStarted = 4
    Issue = {i1}
    Req = {q1, q2}
    Crashes = TRUE
SYMMETRY ReqSymmetry
INVARIANTS
    TypeOK
    PublicWasChecked
    AlertsAreInOrder
    AnonymousFilingLeavesNoTrail
    
PROPERTIES
    DeletedStaysDeleted
