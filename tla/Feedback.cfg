\* Routed and broadcast feedback on two surfaces, and the baseline intents.
SPECIFICATION Spec
CONSTANTS
    left = left
    right = right
    desk = desk
    speaker = speaker
    notice = notice
    NoSurface = NoSurface
    KindOf <- KindsOfSources
    FreshFor <- ShortFreshness
    HoldsFor <- ShortHold
    MaxDepth = 9
    MaxPending = 2
    Surfaces = {left, right}
    Sources = {desk, speaker}
    Tasks = {}
    MaxAdmission = 2
    MaxSourceRevision = 1
    MaxRevision = 1
    MaxEpoch = 3
    MaxFlow = 0
SYMMETRY Screens
VIEW Essence
INVARIANTS
    FeedbackIsPending
    TimerArmed
PROPERTIES
    NoStaleReplay
