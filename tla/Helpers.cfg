\* One display and audio node, two networks, devices, adapters, outputs and desktops, five kinds of file.
SPECIFICATION Spec
CONSTANTS
    Networks = {"home", "work"}
    MaxWifiEvents = 2
    Adapters = {"hci0", "hci1"}
    Devices = {"phone", "mouse"}
    MaxScans = 1
    MaxBluetoothEvents = 2
    Displays = {"d1"}
    Maxima = {1, 2}
    MaximumDisplays = 1
    MaxWrites = 2
    MaxOwners = 2
    MaxServiceSteps = 1
    Roles = {"output"}
    AudioNodes = {"speaker"}
    Levels = {0, 1}
    MaxAudioCommands = 4
    MaxAudioChanges = 1
    MaxActions = 3
    MaxSettingsEvents = 2
    Outputs = {"o1", "o2"}
    Desktops = {1, 2}
    MaximumSourceVersion = 1
    MaxDesktopEvents = 2
INVARIANTS
    TimersArmed
    TokensNameOne
    SearchesStayOnPage
    PromptIsPairing
    AnswersAreReal
    SwitchFeedback
    ShownIsCurrent
    NewestWins
    SettingsRecoverable
PROPERTIES
    SuccessIsReal
    KeepsPromise
    EditsKept
    AllSettle
\* Nothing moves in a helper whose service is absent once the bounds are used up.
CHECK_DEADLOCK FALSE
