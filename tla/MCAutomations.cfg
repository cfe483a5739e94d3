\* Two automations of four steps, two runs by hand or for one event.
CONSTANTS
    await = await
    check = check
    send = send
    sleep = sleep
    NoKey = NoKey
    MaxAutomations = 2
    MaxEvents = 1
    Keys = {await, check, send, sleep}
    First = await
    Kind <- KindOf
    Then <- ThenOf
    Otherwise <- OtherwiseOf
    PageSize = 1
    Patience = 1
    MaxTime = 1
    MaxRuns = 2
    MaxMoves = 1

SPECIFICATION FairSpec
CHECK_DEADLOCK FALSE

INVARIANTS
    TypeOK
    WaitsAnswered

PROPERTIES
    EffectsOnceAndFenced
    EndedStaysEnded
    RunsEnd
