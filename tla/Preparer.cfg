SPECIFICATION FairSpec
CONSTANTS
    Caller = {p1, p2, p3}
    Track = {t1, t2}
    NoCaller = NoCaller
    NoTrack = NoTrack
    NoLibrespot = FALSE
INVARIANTS
    InFlightHasOneLeader
    NoWastedFetch
PROPERTIES
    ImplementsPolicy
    EveryCallReturns
