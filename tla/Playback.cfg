SPECIFICATION FairSpec
CONSTANTS
    t1 = t1
    t2 = t2
    h1 = h1
    h2 = h2
    a1 = a1
    w1 = w1
    Track <- MCTrack
    Prep <- MCPrep
    Push <- MCPush
    Admin <- MCAdmin
    Monitor = Monitor
    Page = Page
    Nothing = Nothing
    Casts <- MCCasts
INVARIANTS
    TypeOK
    InStepAlone
    TokenMatchesSlot
PROPERTIES
    MutedPushEnds
    SilenceEnds
    GenerationIsTold
