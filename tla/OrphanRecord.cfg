\* A replacement is queued when a reload begins.
SPECIFICATION Spec
CONSTANTS
    Offers <- ThreeOffers
    Policies <- AllShown
    DefaultTimeout <- ShortDefaults
    HistoryLifetime = 2
    MaxLive = 1
    MaxHistory = 2
    MaxNotifications = 1
    MaxUpdates = 2
    MaxReloads = 1
    MaxOwnerChanges = 0
INVARIANT ClosedRecordsRemoved
