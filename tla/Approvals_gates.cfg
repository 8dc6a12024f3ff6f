\* A request and a plan, two reactions to each, told to two clients.  Gates that are over may be
\* all there is.
SPECIFICATION FairSpec
CONSTANTS
    r = r
    p = p
    A = A
    B = B
    Requests <- OneRequest
    Commands <- SomeCommands
    Plans <- OnePlan
    Feeds <- BothBots
    Window = 2
    Margin = 2
    MaxPosting = 1
    MaxClicks = 2
    MaxOpen = 1
    MayCrash = TRUE
INVARIANTS TypeOK NothingWithoutConsent HumanIsHeard NoLateAnswer
PROPERTIES EveryGateEnds
CHECK_DEADLOCK FALSE
