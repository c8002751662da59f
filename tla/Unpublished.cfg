\* Expiry inside a refused call.
SPECIFICATION FairSpec
CONSTANTS
    left = left
    right = right
    desk = desk
    speaker = speaker
    notice = notice
    NoSurface = NoSurface
    KindOf <- KindsOfSources
    FreshFor <- ShortFreshness
    HoldsFor <- ShortHold
    MaxDepth = 9
    MaxPending = 2
    Surfaces = {left}
    Sources = {speaker}
    Tasks = {}
    MaxAdmission = 1
    MaxSourceRevision = 1
    MaxRevision = 1
    MaxEpoch = 2
    MaxFlow = 0
PROPERTIES
    ChangesArePublished
