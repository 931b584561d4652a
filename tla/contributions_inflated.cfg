SPECIFICATION Spec
CONSTANTS
    tara = tara
    dev = dev
    Null = Null
    User <- MCUser
    Treasurers <- MCTreasurers
    Contribution = {c1}
    Tier = {gold}
    Amount = {1}
    Months = {3}
    Req = {q1, q2}
    MaxTime = 0
    MaxStarted = 3
    Crashes = FALSE
SYMMETRY ReqSymmetry
INVARIANTS
    RefundedMoneyIsNotCounted
