SPECIFICATION SiteSpec
CONSTANTS
    Reader = {ada, bo}
    FirstReader = ada
    CommentLanes = 2
    CommentBound = 3
    TalkBound = 3
    TRUSTED_AFTER = 1
    Post = {1, 2, 3, 4}
    MaxReplyDepth = 2
    InitialRoots = 2
    WordBound = 3
    CallBound = 2
    Endpoint = {1, 2}
    Tab = {1, 2}
    Fanout = {1}
    PushBound = 5
    Page = {1, 2}
    PressBound = 4
    Sheet = {1}
    Shortest = 2
    ReadingBound = 4
    Limited = {"login", "mfa-check"}
    Caller = {"ip"}
    Limit = 2
    WindowLength = 3
    ClockBound = 6
    AttemptBound = 5
    Worker = {1, 2}
    CacheLife = 2
    MailClock = 3
    SaveBoundary = 1
    LetterBound = 2
    Migrations = 2
    Statements = 2
    Runner = {1, 2}
    RunBound = 3
    Version = 3
    CrashBound = 1
    TreeBound = 2
    CommandBound = 3
    Watches = {{"db", "disk"}, {"mfa"}, {"migrations"}, {"tls"}, {"dns"}, {"headers"}, {"audit"}, {"signins"}, {"config"}}
    Migration = {1, 2}
    NameServer = {1, 2}
    Required = {"secret", "origin"}
    Optional = {"storage"}
CHECK_DEADLOCK FALSE
INVARIANT
    EveryAnswerIsAnnounced
