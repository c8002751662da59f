\* The hover that comes back under a finished task.
SPECIFICATION Spec
CONSTANTS
    left = left
    right = right
    desk = desk
    speaker = speaker
    notice = notice
    NoSurface = NoSurface
    KindOf <- KindsOfSources
    FreshFor <- ShortFreshness
    HoldsFor <- ShortHold
    MaxDepth = 9
    MaxPending = 2
    Surfaces = {left}
    Sources = {}
    Tasks = {"launcher"}
    MaxAdmission = 0
    MaxSourceRevision = 1
    MaxRevision = 1
    MaxEpoch = 3
    MaxFlow = 0
VIEW Essence
INVARIANTS
    HoverNeverWantsFocus
