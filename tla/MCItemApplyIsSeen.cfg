CONSTANTS
    None = None
    v1 = v1
    v2 = v2
    s1 = s1
    s2 = s2
    r1 = r1
    Typed = {v1, v2}
    Subnets = {s1, s2}
    Drivers = {"stream", "write", "desk", "changes", "role"}
    MaxCalls <- MCMaxCalls
    MaxForms = 2
    MaxTokens = 4
    NoRow = NoRow
    NoVal = NoVal
    Views = {"edit", "list"}
    Rows = {r1}
    Vals = {v1, v2}
    Listed = 1
    PageSize = 1
    MaxWrites = 1
    MaxDeletes = 2
    MaxExtra = 0
    MaxAsked = 2
    Kinds = {"zone", "block", "tags"}
    Updatable = {"zone"}
    Deletable = {"zone", "block"}
    ItemIds = {"i1", "i2"}
    NoItem = "none"
    Fields = {"name", "comment"}
    Required = {"name"}
    Fixed = {"name"}
    Texts = {"t"}
    Blank = ""
    Searches = {"q"}
    NoSearch = "none"
    MaxSends = 3
    DemoRuns = {"d1", "d2"}
    NoRun = "none"
    MaxSaves = 3
    MaxStreams = 4
SPECIFICATION WritesSpec
PROPERTY ItemApplyIsSeen
CHECK_DEADLOCK FALSE
