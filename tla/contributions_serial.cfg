SPECIFICATION FairSpec
CONSTANTS
    tara = tara
    dev = dev
    Null = Null
    User <- MCUser
    Treasurers <- MCTreasurers
    Contribution = {c1, c2}
    Tier = {gold}
    Amount = {1}
    Months = {3}
    Req = {q1}
    MaxTime = 0
    MaxStarted = 3
    Crashes = FALSE
INVARIANTS
    BooksAreComplete
PROPERTIES
    KeepsTheLedger
    MemberLearnsReference
