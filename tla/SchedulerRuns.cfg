SPECIFICATION FairSpec
CONSTANTS
    check = check
    insights = insights
    df = df
    ps = ps
    Frequency <- MCFrequency
    TimeOfDay <- MCTimeOfDay
    Runs <- MCRuns
    Tools <- MCTools
    WhenToNotify <- MCWhenToNotify
    Calls = {df, ps}
    PreChecked = {check}
    Goroutines = {1, 2}
    DayLength = 3
    MaxJitter = 1
    MaxIter = 2
    MaxCalls = 2
    MaxFaults = 1
INVARIANTS
    NoOverlap
    OncePerDateAndBoot
    ToolExecutedOnce
    EveryCallAnswered
PROPERTIES
    EveryoneRunsAgain
