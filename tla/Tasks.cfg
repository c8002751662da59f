\* Two kinds of task, the modal and the baseline intents on two surfaces.
SPECIFICATION Spec
CONSTANTS
    left = left
    right = right
    desk = desk
    speaker = speaker
    notice = notice
    NoSurface = NoSurface
    KindOf <- KindsOfSources
    FreshFor <- ShortFreshness
    HoldsFor <- ShortHold
    MaxDepth = 9
    MaxPending = 2
    Surfaces = {left, right}
    Sources = {}
    Tasks = {"launcher", "session"}
    MaxAdmission = 0
    MaxSourceRevision = 1
    MaxRevision = 2
    MaxEpoch = 3
    MaxFlow = 2
SYMMETRY Screens
VIEW Essence
INVARIANTS
    ExclusiveTask
    ModalHosted
    EpochsUnique
PROPERTIES
    TaskReturnsAfterModal
    FocusOnlyWhenVisible
