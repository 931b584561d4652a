SPECIFICATION Spec
CONSTANTS
    chief = chief
    dana = dana
    rita = rita
    nora = nora
    admin = admin
    desk = desk
    reader = reader
    fresh = fresh
    NoRole = NoRole
    User = {chief, dana, rita}
    Role <- MCRole
    FirstRoles <- MCFirstRoles
    FirstUsers <- MCFirstUsers
    Writers = {rita}
    MinTier <- MCMinTier
    Req = {q1, q2}
    Ops = {"assign"}
    MaxStarted = 4
    Crashes = FALSE
SYMMETRY ReqSymmetry
INVARIANTS
    SomebodyManagesPeople
