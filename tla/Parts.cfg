SPECIFICATION Spec
CONSTANTS
    Account = {s1, s2}
    NoAccount = NoAccount
    Admin = {a1, a2}
    MaxRemovals = 1
    Task = {p1, p2}
    File = {f1, f2}
    NoFile = NoFile
    Above = {f1}
    MaxCopies = 1
    Request = {r1, r2}
    Address = {x1, x2}
    Password = {w1, w2}
    NoPassword = NoPassword
    MaxAttempts = 2
SYMMETRY Symmetry
INVARIANTS
    TypeOK
    SessionForgotten
    ExitExcused
    RefusalsAreOwn
    AttemptsBounded
    WholeCopies
    MemoryBounded
    PrewarmingMatches
    GuessesBounded
    EnteredTwice
CHECK_DEADLOCK FALSE
