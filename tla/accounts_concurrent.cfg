SPECIFICATION Spec
CONSTANTS
    chief = chief
    dana = dana
    rita = rita
    nora = nora
    admin = admin
    desk = desk
    reader = reader
    fresh = fresh
    NoRole = NoRole
    User = {chief, dana, nora}
    Role <- MCRole
    FirstRoles <- MCFirstRoles
    FirstUsers <- MCFirstUsers
    Writers = {dana}
    MinTier <- MCMinTier
    Req = {q1, q2}
    Ops = {"assign", "create user", "update role", "delete role", "status", "suspend", "erase"}
    MaxStarted = 3
    Crashes = TRUE
SYMMETRY ReqSymmetry
INVARIANTS
    TypeOK
    RolesKeepTheirShape
    ErasedStaysOut
PROPERTIES
    ChangedIsSignedOut
CHECK_DEADLOCK FALSE
