\* Feedback renewed while other feedback covers it.
SPECIFICATION Spec
CONSTANTS
    left = left
    right = right
    desk = desk
    speaker = speaker
    notice = notice
    NoSurface = NoSurface
    KindOf <- KindsOfSources
    FreshFor <- ShortFreshness
    HoldsFor <- ShortHold
    MaxDepth = 9
    MaxPending = 2
    Surfaces = {left}
    Sources = {speaker, notice}
    Tasks = {}
    MaxAdmission = 2
    MaxSourceRevision = 2
    MaxRevision = 1
    MaxEpoch = 3
    MaxFlow = 0
VIEW Essence
INVARIANTS
    ProjectionsShowLatest
