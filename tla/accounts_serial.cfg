SPECIFICATION Spec
CONSTANTS
    chief = chief
    dana = dana
    rita = rita
    nora = nora
    admin = admin
    desk = desk
    reader = reader
    fresh = fresh
    NoRole = NoRole
    User = {chief, dana, nora}
    Role <- MCRoleAndFresh
    FirstRoles <- MCTwoManagers
    FirstUsers <- MCFirstUsers
    Writers = {}
    MinTier <- MCMinTier
    Req = {q1}
    Ops = {"assign", "create user", "update role", "delete role", "create role", "status", "suspend", "erase"}
    MaxStarted = 3
    Crashes = FALSE
INVARIANTS
    EveryoneHoldsTheirRole
PROPERTIES
    MovingKeepsAManager
CHECK_DEADLOCK FALSE
