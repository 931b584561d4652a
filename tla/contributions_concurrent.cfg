SPECIFICATION Spec
CONSTANTS
    tara = tara
    dev = dev
    Null = Null
    User = {tara}
    Treasurers <- MCTreasurers
    Contribution = {c1}
    Tier = {gold}
    Amount = {1, 2}
    Months = {3}
    Req = {q1, q2}
    MaxTime = 1
    MaxStarted = 3
    Crashes = TRUE
SYMMETRY ReqSymmetry
INVARIANTS
    TypeOK
    CountedMoneyArrived
    MembershipsAreWhole
PROPERTIES
    HistoryIsNotRewritten
