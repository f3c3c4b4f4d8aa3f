SPECIFICATION Spec
CONSTANTS
    MaxMusic = 4
    MaxClicks = 2
    MaxFaults = 1
    MaxChanges = 5
    Mailbox = 1
    Channel = 1
INVARIANTS
    TallyFollows
    SkipIsSafe
PROPERTIES
    PageShows
    ListenerHears
    SoundGoesLive
CHECK_DEADLOCK FALSE
