SPECIFICATION Spec
CONSTANTS
    Request = {r1}
    Admin = {a1}
    Nobody = Nobody
    None = None
    MaxGrants = 1
    MaxRotations = 1
INVARIANT DisconnectHolds
