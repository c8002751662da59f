\* Three kinds of feedback, a mailbox of two, a task and the modal on one surface.
SPECIFICATION Spec
CONSTANTS
    left = left
    right = right
    desk = desk
    speaker = speaker
    notice = notice
    NoSurface = NoSurface
    KindOf <- KindsOfSources
    FreshFor <- ShortFreshness
    HoldsFor <- ShortHold
    MaxDepth = 9
    MaxPending = 2
    Surfaces = {left}
    Sources = {desk, speaker, notice}
    Tasks = {"launcher"}
    MaxAdmission = 3
    MaxSourceRevision = 1
    MaxRevision = 1
    MaxEpoch = 3
    MaxFlow = 1
VIEW Essence
INVARIANTS
    TypeOK
    StackOrdered
    BaselineHonored
    MailboxBounded
PROPERTIES
    LossJustified
    FeedbackSparesTasks
