SPECIFICATION IdentitySpec
CONSTANTS
    u1 = u1  u2 = u2  l1 = l1  l2 = l2  ada = ada  bo = bo
    x = x  y = y  z = z  g1 = g1
    Device = {u1, u2}
    Lane = {l1, l2}
    CallBound <- MCCallBound
    RecoverySlots = {1, 2}
    MAX_ATTEMPTS_BEFORE_LOCK = 2
    MAX_ATTEMPTS = 2
    FirstAccounts <- MCFirstAccounts
    Nowhere = Nowhere
    Person = {ada, bo}
    Address = {x, y, z}
    FirstAddress <- MCFirstAddress
    LinkLane = {l1, l2}
    LinkBound <- MCLinkBound
    NoAddress = NoAddress
    Account = {u1, u2}
    Identity = {g1}
    Browser = {l1, l2}
    Mailbox = {x, y}
    GoogleMail <- MCGoogleMail
    FlowBound = 2
    VersionBound = 1
    NoOne = NoOne
    Caller = {u1, u2}
    Number = {y, z}
    PhoneLane = {l1, l2}
    PHONE_CODE_MAX_ATTEMPTS = 2
    PhoneBound <- MCPhoneBound
    NoNumber = NoNumber
    HopBound = 3
    PressBound = 3
    AskBound = 2
SYMMETRY Symmetry
CHECK_DEADLOCK FALSE
INVARIANTS
    IdentityTypeOK  CodesHold  
PROPERTIES
    LinksAreOneTime NoWayAround
