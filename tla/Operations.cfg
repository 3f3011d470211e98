SPECIFICATION Spec
CONSTANTS
    r1 = r1
    r2 = r2
    h1 = h1
    h2 = h2
    t1 = t1
    t2 = t2
    agent = agent
    f1 = f1
    MaxEntries = 2
    Writers <- MCWriters
    Findings = {f1}
    MaxMisreads = 1
    Runs <- MCRuns
    Posts <- MCPosts
    MaxAttrs = 1
    MaxPosts = 2
    MaxCrashes = 1
    Retention = 1
    MaxAge = 2
    Cmds <- MCCmds
    Phrases <- MCPhrases
    Builtins <- MCBuiltins
    Echoes = {"echo"}
    Allowlist = {"ls"}
    DenyPatterns = {">"}
    Patterns <- MCPatterns
    Covers <- MCCovers
    Promotion = 2
    MaxCounts = 2
    Tasks <- MCTasks
    MaxProposals = 4
    MaxPolicies = 2
    MaxSlips = 1
    Items <- MCItems
    Skills = {"drives"}
    Requests = {"q1", "q2"}
    MaxChanges = 2
    MaxLapses = 1
CHECK_DEADLOCK FALSE
INVARIANTS
    CardsAccountedFor
    ToldWhatWasSubmitted
    
    CountsHonest
PROPERTIES
    DescriptionCatchesUp
