\* Liveness: a mailbox of one, a task, two sources, one surface.
SPECIFICATION FairSpec
CONSTANTS
    left = left
    right = right
    desk = desk
    speaker = speaker
    notice = notice
    NoSurface = NoSurface
    KindOf <- KindsOfSources
    FreshFor <- ShortFreshness
    HoldsFor <- ShortHold
    MaxDepth = 9
    MaxPending = 1
    Surfaces = {left}
    Sources = {desk, notice}
    Tasks = {"launcher"}
    MaxAdmission = 2
    MaxSourceRevision = 1
    MaxRevision = 1
    MaxEpoch = 3
    MaxFlow = 0
PROPERTIES
    FeedbackEnds
