\* Three notifications for two places and one record, a reload, a lost bus name.
SPECIFICATION Spec
CONSTANTS
    Offers <- ThreeOffers
    Policies <- AllShown
    DefaultTimeout <- ShortDefaults
    HistoryLifetime = 2
    MaxLive = 2
    MaxHistory = 1
    MaxNotifications = 3
    MaxUpdates = 1
    MaxReloads = 1
    MaxOwnerChanges = 1
INVARIANTS
    TypeOK
    HistorySound
    LiveRecordsOwned
    LiveMatchesServer
    ExpiryArmed
PROPERTIES
    RoomFromLowestClass
    NothingReturns
