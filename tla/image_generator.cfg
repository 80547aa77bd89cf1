CONSTANTS
    MaxCalls = 2
    MaxToken = 3
    MaxCancels = 2
    Outcomes = {"success", "failed"}
    None = None
CONSTRAINT Bounded
SPECIFICATION FairSpec
INVARIANTS AnnouncedIsReal Watched
PROPERTIES WaitEnds
CHECK_DEADLOCK FALSE
