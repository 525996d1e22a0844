SPECIFICATION TurnSpec
CONSTANTS
    Categories <- MCCategories
    NoCategory = 0
    Queries <- MCQueries
    NoQuery = ""
    Searches <- MCAllSearches
    ResultSetRequest <- MCResultSetRequest
    MaxExecutions = 2
    MaxCategoryCalls = 1
    Adapters = {"openai", "anthropic", "gemini"}
    MaxRounds = 1
    MaxControls <- MCOne
    MaxEmpties <- MCEmpties
    MaxAnchors = 1
    MaxRejections = 1
INVARIANTS
    PricesComparedInScope
    AnswerShowsFlowsCards
    IdentityKeepsItsCard
PROPERTIES
    OwedReadIsMade
CHECK_DEADLOCK FALSE
