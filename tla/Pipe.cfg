SPECIFICATION FairSpec
CONSTANTS
    Listener = {l1, l2}
    MaxListeners = 1
    Backlog = 2
    Nothing = Nothing
    MaxPages = 3
    MaxSwaps = 2
INVARIANTS
    ListenersCounted
PROPERTIES
    RetiredBodiesEnd
    ImplementsDelivery
