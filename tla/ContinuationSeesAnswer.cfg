SPECIFICATION BrowserSpec
CONSTANTS
    Conversations = {k1, k2}
    NoneActive = NoneActive
    MaxTurns = 2
    MaxShown = 2
    MaxPages = 1
    Cases = {a, b}
    NoCase = NoCase
    Fetches = {f1, f2}
    PageLimit = 2
    MaxCaseMessages = 2
    MaxReloads = 2
    Operations = {o1, o2}
    Searches = {o1}
    MaxCalls = 3
    StoredRows = 2
    MaxPieces = 2
    BrowserLimit = 3
    HistoryLimit = 2
    TokenBudget = 3
    Sizes = {1, 3}
    MaxQuestions = 3
    MaxRows = 5
    MaxDials = 2
    MaxSpoken = 2
    MaxSaid = 2
    Pictures <- MCPictures
    Weight <- MCWeight
    MaxWeight = 3
    MaxCount = 2
    MaxSends = 2
    MaxFiles = 3
    Tabs = {1, 2}
    MaxForms = 2
    MaxSubmissions = 2
INVARIANT ContinuationSeesItsAnswer
CHECK_DEADLOCK FALSE
