\* Names, settings and times.
SPECIFICATION Spec
CONSTANTS
    Names = {"n1", "n2"}
    Ids = {i1, i2, i3}
    Handles = {h1, h2}
    NoId = NoId
    Files = {"main", "sub"}
    Main = "main"
    Params = {"p", "q"}
    Values = {"u"}
    HereContents <- Short
    DefaultContents <- Tiny
    Unset = Unset
    NoFile = NoFile
    Directory = Directory
    MaxOpen = 3
    MaxEdits = 1
    Trackers = {t1, t2}
    MaxClock = 2
INVARIANTS OneIdPerName AcceptedWhileNamed ReadsInPlace
PROPERTIES ElapsedSinceReset
SYMMETRY Symmetry
CHECK_DEADLOCK FALSE
