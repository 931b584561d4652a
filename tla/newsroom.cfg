SPECIFICATION NewsroomSpec
CONSTANTS
    s1 = s1  f1 = f1  d1 = d1  d2 = d2  c1 = c1  c2 = c2  ada = ada  bo = bo
    Story = {s1}
    MediaFile = {f1}
    Desk = {d1, d2}
    ArticleInputs <- MCInputs
    EventBound = 3
    Author = {1, 2}
    MaxSources = 2
    MaxRedirects = 2
    SourceBound = 4
    TextBound = 2
    SaveBound = 3
    Upload = {1}
    Viewer = {1, 2}
    ViewBound = 3
    Piece = {1, 2}
    Writer = {ada, bo}
    TopLength = 1
    Tale = {1, 2, 3}
    Lang = {"en", "ne"}
    TypeBound = 2
    CallBound = 2
    Clip = {c1, c2}
    Used = {"OWN_WORK", "PERMISSION"}
    TermsBound = 2
    Nothing = Nothing
    PhotoLimit = 2
    PhotoBound = 3
    ReportBound = 2
    Case = {1, 2}
    PressedBound = 2
    ChangeBound = 2
CHECK_DEADLOCK FALSE
INVARIANTS
    NewsroomTypeOK  
PROPERTIES
    DueIsPublished
