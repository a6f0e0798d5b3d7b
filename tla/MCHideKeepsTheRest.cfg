CONSTANTS
    Kids <- MCKids
    Optional = {"extra"}
    Sizable = {"table"}
    Declared <- MCDeclared
    Need <- MCNeed
    TrackCounts = {2, 6}
    Doings <- MCLayoutDoings
    MaxSaves = 2
    MaxArrows = 1
    Combos <- MCCombos
    BuiltIns = {"p", "q"}
    Replaceable = {"p"}
    ChartDoings = {"menus", "saving", "replacing"}
    Questions = {1, 2}
    MaxCharts = 2
    MaxTasks = 2
    Cols <- MCCols
    Tables <- MCTables
    RowCap = 1
    BoxWidths = {19, 26, 30, 33, 34, 35, 36, 38, 41, 45, 52}
    ShrinkFloor = 7
    MeasureBuffer = 3
    Cap = 2
    MaxLog = 4
    MaxTroubles = 1
    MaxPolls = 2
    Queries = {"q", "p"}
    NoQuery = "none"
    MaxSearches = 3
    Users = {"u", "v"}
    DayLength = 1
    RowCap500 = 3
    MinHistory = 1
    Skews <- MCSkews
    MaxTime = 2
    MaxEvents = 4
SPECIFICATION PagesSpec
PROPERTY HideKeepsTheRest
CHECK_DEADLOCK FALSE
