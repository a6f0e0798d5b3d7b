CONSTANTS
    conn = conn
    ov = ov
    daily = daily
    pick = pick
    data = data
    blocksA = blocksA
    blocksB = blocksB
    NoUrl = NoUrl
    Urls = {data, blocksA, blocksB}
    Sites = {conn, ov, daily, pick}
    Pages <- MCPages
    SiteUrls <- MCSiteUrls
    Polls = {conn, ov, daily}
    Adopters = {conn, ov}
    Header = {conn}
    MaxPrompts = 4
    h1 = h1
    h2 = h2
    n1 = n1
    a1 = a1
    Askings = {"chat", "lookup", "dossier"}
    Hosts = {h1, h2}
    NoHost = NoHost
    Names = {n1, a1}
    Addresses = {a1}
    NoName = NoName
    Sources = {"assets", "ipam", "threat", "changes"}
    MaxPresses = 2
    MaxMoves = 2
    t1 = t1
    t2 = t2
    Tenants = {t1, t2}
    NoTenant = NoTenant
    Doings <- MCDoings
    MaxReads = 2
    MaxChecks = 3
    Tabs = {"a", "b"}
    Landing = "a"
SPECIFICATION BrowserSpec
INVARIANTS
    FeedIsTrue
    QuestionsGoWhereMeant
    AnswersAreTheirOwn
    GateTellsTheTruth
    NewerAnswerStays
PROPERTIES
    FocusFollowsTheDialog
    ReadsSettle
    ShellSettles
CHECK_DEADLOCK FALSE
