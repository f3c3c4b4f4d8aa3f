SPECIFICATION Spec
CONSTANTS
    t1 = t1
    t2 = t2
    h1 = h1
    h2 = h2
    a1 = a1
    w1 = w1
    Track = {t1, t2}
    Prep = {w1}
    Push = {}
    Admin = {}
    Monitor = Monitor
    Page = Page
    Nothing = Nothing
    Casts <- FullCast
INVARIANT InStep
