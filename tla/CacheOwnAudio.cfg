SPECIFICATION Spec
CONSTANTS
    a = a
    b = b
    Track <- MCTrack
    Stem <- MCSameStem
    NoTrack = NoTrack
    NoDownload = NoDownload
    Sizes <- MCSizes
    Limits = {2, 4}
    Gate = 2
    MaxIndex = 1
    MaxNow = 2
    MaxRequests = 1
    MaxRestarts = 1
INVARIANT OwnAudio
