SPECIFICATION FairSpec
CONSTANTS
    Request = {r1}
    Admin = {a1}
    Nobody = Nobody
    None = None
    MaxGrants = 1
    MaxRotations = 1
INVARIANTS
    OwnTokensHonoured
    DiskFollows
PROPERTY
    EveryRequestEnds
