\* What must happen in the end, under changing popup settings.
SPECIFICATION Spec
CONSTANTS
    Offers <- TwoOffers
    Policies <- DoNotDisturbs
    DefaultTimeout <- ShortDefaults
    HistoryLifetime = 2
    MaxLive = 1
    MaxHistory = 1
    MaxNotifications = 2
    MaxUpdates = 1
    MaxReloads = 1
    MaxOwnerChanges = 1
INVARIANTS
    PopupsCurrent
    QueuedIsPosted
PROPERTIES
    ReloadEnds
    DeadlinesEnd
    RecordsAgeOut
