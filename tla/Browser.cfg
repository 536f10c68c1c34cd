SPECIFICATION BrowserSpec
CONSTANTS
    ta = ta  tb = tb  tc = tc
    Parts = {"refresh", "favourites", "notifications", "shortcuts", "forms", "clock", "graph"}
    MaxChains = 3
    Team = {ta, tb, tc}  ScoreboardTab = {t1, t2}  Boards <- MCBoards  MaxFavourites = 3
    JuryTab = {t1, t2}  Alert <- MCHostAlerts
    ShortcutType = {"s", "t"}  Digit = {"1", "2"}  MaxDigits = 2  MaxBoxes = 3
    Theme = {"a", "b", "c"}  ExternalTheme = {"b", "c"}  DefaultTheme = "a"
    Message = {"", "m", "n"}
    ActivateTime = 0  StartTime = 90000  EndTime = 100800  ClockMax = 104401
    ClockSteps = {600, 3599, 3601}
    MinBuckets = 30  MaxBuckets = 301
    GraphUnits <- MCGraphUnits  GraphDurations <- MCGraphDurations
CHECK_DEADLOCK FALSE
INVARIANTS
    BrowserTypeOK
    OneRefreshChain QuietWhenDisabled RefreshGoesOn
    NotifiedOnce
    ShortcutsInOrder
    FormsSettle
    ClockIsRight
    SubmissionsInBuckets TicksMatchBuckets
PROPERTIES TogglesClickedTeam
