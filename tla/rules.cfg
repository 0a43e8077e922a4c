SPECIFICATION Spec
CONSTANTS
    Agents <- MCAgents
    Catalog <- MCCatalog
    Words <- MCWords
    Remapped <- MCRemapped
    Plans <- MCPlans
    RuleLists <- MCRuleLists
    Arrivals <- MCArrivals
    Posts <- MCPosts
    Windows = {2, 3}
    Limits = {1, 2, 3}
    Summaries <- MCSummaries
    Answers <- MCAnswers
    Reactions <- MCReactions
    Hooks <- MCHooks
    Pages <- MCPages
    Lists <- MCLists
    Files <- MCFiles
    Hosts <- MCHosts
    Launches <- MCLaunches
    Starts <- MCStarts
    Owners <- MCOwners
    Resumed <- MCResumed
    Reviewed <- MCReviewed
    AgentSettings <- MCAgentSettings
    Budgets <- MCBudgets
    Stacks <- MCStacks
    Logs <- MCLogs
    Talks <- MCTalks
    Turns <- MCTurns
    Streams <- MCStreams
    Outputs <- MCOutputs
    Outside <- MCOutside
    Clients = {"detail", "list", "v3"}
    Backends = {"file", "redis", "db"}
    Written <- MCWritten
    MaxAsks = 2
    MaxQueue = 1
    MaxFaults = 1
    MaxSwitches = 1
CHECK_DEADLOCK FALSE
INVARIANTS
    PlansSound
    RequestsKept
    ReviewsSound
    RunsWereAsked
    PagesTrue
    LaunchesSound
    RunsSound
    ActivitiesSound
    ShowsSelected
PROPERTIES
    CatchesUp
