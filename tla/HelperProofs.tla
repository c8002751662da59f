---------------------------- MODULE HelperProofs ----------------------------
(***************************************************************************)
(* What the helper processes keep together, for any networks, devices,     *)
(* displays, nodes, outputs, bounds and interleaving: the invariants that  *)
(* the run of MCHelpers checks.  The helpers share no variable, so a       *)
(* behaviour of them all is one of each, in which it moves or rests; what  *)
(* is proved of each alone is then true of them together.                  *)
(***************************************************************************)
EXTENDS MCHelpers, TLAPS

AllVars == <<active, wifiHalf, bluetoothHalf, brightness, audio, session, settings, desktops>>

LEMMA WifiRuns == Spec => Connectivity!WifiSpec
  <1>1. Init => Connectivity!WifiInit  BY DEF Init
  <1>2. [Next]_AllVars => [Connectivity!WifiNext]_(Connectivity!wifiVars)
    BY DEF AllVars, Next, WifiSteps, BluetoothSteps, BrightnessSteps, AudioSteps, SessionSteps,
           SettingsSteps, DesktopSteps, wifiHalf, Connectivity!wifiVars, Connectivity!wifiShown,
           Connectivity!wifiHidden, Connectivity!wifiEnvironment, Connectivity!networkNames
  <1> QED  BY <1>1, <1>2, PTL DEF Spec, AllVars, Connectivity!WifiSpec

LEMMA BluetoothRuns == Spec => Connectivity!BluetoothSpec
  <1>1. Init => Connectivity!BluetoothInit  BY DEF Init
  <1>2. [Next]_AllVars => [Connectivity!BluetoothNext]_(Connectivity!bluetoothVars)
    BY DEF AllVars, Next, WifiSteps, BluetoothSteps, BrightnessSteps, AudioSteps, SessionSteps,
           SettingsSteps, DesktopSteps, bluetoothHalf, Connectivity!bluetoothVars,
           Connectivity!bluetoothList, Connectivity!bluetoothSession, Connectivity!bluezOutside,
           Connectivity!deviceNames, Connectivity!search
  <1> QED  BY <1>1, <1>2, PTL DEF Spec, AllVars, Connectivity!BluetoothSpec

LEMMA BrightnessRuns == Spec => Requests!BrightnessSpec
  <1>1. Init => Requests!BrightnessInit  BY DEF Init
  <1>2. [Next]_AllVars => [Requests!BrightnessNext]_(Requests!vars)
    BY DEF AllVars, Next, WifiSteps, BluetoothSteps, BrightnessSteps, AudioSteps, SessionSteps,
           SettingsSteps, DesktopSteps, brightness, Requests!vars, Requests!brightnessHelper,
           Requests!powerDevil
  <1> QED  BY <1>1, <1>2, PTL DEF Spec, AllVars, Requests!BrightnessSpec

LEMMA AudioRuns == Spec => Audio!AudioSpec
  <1>1. Init => Audio!AudioInit  BY DEF Init
  <1>2. [Next]_AllVars => [Audio!AudioNext]_(Audio!audioVars)
    BY DEF AllVars, Next, WifiSteps, BluetoothSteps, BrightnessSteps, AudioSteps, SessionSteps,
           SettingsSteps, DesktopSteps, audio, Audio!audioVars, Audio!requests, Audio!audioServer
  <1> QED  BY <1>1, <1>2, PTL DEF Spec, AllVars, Audio!AudioSpec

LEMMA SessionRuns == Spec => Requests!SessionSpec
  <1>1. Init => Requests!SessionInit  BY DEF Init
  <1>2. [Next]_AllVars => [Requests!SessionNext]_(Requests!sessionVars)
    BY DEF AllVars, Next, WifiSteps, BluetoothSteps, BrightnessSteps, AudioSteps, SessionSteps,
           SettingsSteps, DesktopSteps, session, Requests!sessionVars
  <1> QED  BY <1>1, <1>2, PTL DEF Spec, AllVars, Requests!SessionSpec

LEMMA SettingsRun == Spec => Requests!SettingsSpec
  <1>1. Init => Requests!SettingsInit  BY DEF Init
  <1>2. [Next]_AllVars => [Requests!SettingsNext]_(Requests!settingsVars)
    BY DEF AllVars, Next, WifiSteps, BluetoothSteps, BrightnessSteps, AudioSteps, SessionSteps,
           SettingsSteps, DesktopSteps, settings, Requests!settingsVars
  <1> QED  BY <1>1, <1>2, PTL DEF Spec, AllVars, Requests!SettingsSpec

LEMMA DesktopsRun == Spec => Desktop!DesktopSpec
  <1>1. Init => Desktop!DesktopInit  BY DEF Init
  <1>2. [Next]_AllVars => [Desktop!DesktopNext]_(Desktop!desktopVars)
    BY DEF AllVars, Next, WifiSteps, BluetoothSteps, BrightnessSteps, AudioSteps, SessionSteps,
           SettingsSteps, DesktopSteps, desktops, Desktop!desktopVars
  <1> QED  BY <1>1, <1>2, PTL DEF Spec, AllVars, Desktop!DesktopSpec

-----------------------------------------------------------------------------
(* Each helper, always.                                                     *)

LEMMA WifiHolds ==
    Spec => [](Connectivity!WifiTimersArmed /\ Connectivity!TokensNameOne /\ Connectivity!ScanNeedsPage)
  <1>1. Connectivity!WifiSpec =>
           [](Connectivity!WifiTimersArmed /\ Connectivity!TokensNameOne /\ Connectivity!ScanNeedsPage)
    BY HelperBounds, Connectivity!WifiIsSound
  <1> QED  BY <1>1, WifiRuns, PTL

LEMMA BluetoothHolds ==
    Spec => [](Connectivity!BluetoothTimersArmed /\ Connectivity!DeviceTokensNameOne
               /\ Connectivity!DiscoveryNeedsPage /\ Connectivity!PromptIsPairing)
  <1>1. Connectivity!BluetoothSpec =>
           [](Connectivity!BluetoothTimersArmed /\ Connectivity!DeviceTokensNameOne
              /\ Connectivity!DiscoveryNeedsPage /\ Connectivity!PromptIsPairing)
    BY HelperBounds, Connectivity!BluetoothIsSound
  <1> QED  BY <1>1, BluetoothRuns, PTL

LEMMA BrightnessHolds ==
    Spec => [](Requests!ConfirmedIsApplied /\ Requests!WritesReachTheirService
               /\ Requests!TimerArmed /\ Requests!ShellIsCurrent)
  <1>1. Requests!BrightnessSpec =>
           [](Requests!ConfirmedIsApplied /\ Requests!WritesReachTheirService
              /\ Requests!TimerArmed /\ Requests!ShellIsCurrent)
    BY HelperBounds, Requests!BrightnessIsSound
  <1> QED  BY <1>1, BrightnessRuns, PTL

LEMMA SessionHolds == Spec => [](Requests!SessionIsReal /\ Requests!SessionTimerArmed)
  <1>1. Requests!SessionSpec => [](Requests!SessionIsReal /\ Requests!SessionTimerArmed)
    BY HelperBounds, Requests!AcceptedIsReal
  <1> QED  BY <1>1, SessionRuns, PTL

LEMMA AudioHolds == Spec => [](Audio!AudioCarried /\ Audio!AudioIsCurrent /\ Audio!NewestWins)
  <1>1. Audio!AudioSpec => [](Audio!AudioCarried /\ Audio!AudioIsCurrent /\ Audio!NewestWins)
    BY HelperBounds, Audio!AudioIsSound
  <1> QED  BY <1>1, AudioRuns, PTL

LEMMA DesktopsHold ==
    Spec => [](Desktop!SwitchIsReal /\ Desktop!FeedbackResolves /\ Desktop!HelperWatched
               /\ Desktop!DesktopsAreCurrent)
  <1>1. Desktop!DesktopSpec =>
           [](Desktop!SwitchIsReal /\ Desktop!FeedbackResolves /\ Desktop!HelperWatched
              /\ Desktop!DesktopsAreCurrent)
    BY HelperBounds, Desktop!DesktopsAreSound
  <1> QED  BY <1>1, DesktopsRun, PTL

-----------------------------------------------------------------------------
(* What waits in a helper has a timer or a request on its way that will end *)
(* it, whichever service stops answering; an operation on a Bluetooth       *)
(* device is not among it (see TimersArmed).                                *)
THEOREM HelperTimersArmed == Spec => []TimersArmed
  <1>1. /\ Connectivity!WifiTimersArmed /\ Connectivity!BluetoothTimersArmed
        /\ Requests!TimerArmed /\ Requests!SessionTimerArmed /\ Audio!AudioCarried
        /\ Desktop!HelperWatched
        => TimersArmed
    BY DEF TimersArmed
  <1> QED
    BY <1>1, WifiHolds, BluetoothHolds, BrightnessHolds, SessionHolds, AudioHolds, DesktopsHold, PTL

(* From one time the tokens are taken back to the next, a token or key the  *)
(* shell was given never comes to stand for something else, for any number  *)
(* of networks and devices and however their lists shrink, grow and are     *)
(* rebuilt.                                                                 *)
THEOREM HelperTokensNameOne == Spec => []TokensNameOne
  <1>1. Connectivity!TokensNameOne /\ Connectivity!DeviceTokensNameOne
        /\ Requests!WritesReachTheirService => TokensNameOne
    BY DEF TokensNameOne
  <1> QED  BY <1>1, WifiHolds, BluetoothHolds, BrightnessHolds, PTL

(* The helper searches only for the page that asked, and BlueZ searches for *)
(* it only on the adapters of that discovery and on those whose search went *)
(* astray.                                                                  *)
THEOREM HelperSearchesStay == Spec => []SearchesStayOnPage
  <1>1. Connectivity!ScanNeedsPage /\ Connectivity!DiscoveryNeedsPage => SearchesStayOnPage
    BY DEF SearchesStayOnPage
  <1> QED  BY <1>1, WifiHolds, BluetoothHolds, PTL

(* A prompt that waits for the user belongs to the pairing that runs, and   *)
(* to the device that pairing named.                                        *)
THEOREM HelperPromptIsPairing == Spec => []PromptIsPairing
  <1>1. Connectivity!PromptIsPairing => PromptIsPairing
    BY DEF PromptIsPairing
  <1> QED  BY <1>1, BluetoothHolds, PTL

(* Success is said of what the service has or did, and by a reply about the *)
(* network or device the command named, whatever answers late or restarts;  *)
(* with the exceptions that SuccessIsReal names.                            *)
THEOREM HelperSuccessIsReal == Spec => SuccessIsReal
  <1>1. Connectivity!WifiSpec => Connectivity!WifiIsReal
    BY HelperBounds, Connectivity!WifiSuccessIsReal
  <1>2. Connectivity!BluetoothSpec => Connectivity!BluetoothIsReal
    BY HelperBounds, Connectivity!BluetoothSuccessIsReal
  <1> QED  BY <1>1, <1>2, WifiRuns, BluetoothRuns, PTL DEF SuccessIsReal

(* A change of the settings that waits is what is written next, unless a    *)
(* write fails, the file stops being writable or the shell restarts.        *)
THEOREM HelperEditsKept == Spec => EditsKept
  <1>1. Requests!SettingsSpec => Requests!EditsKept
    BY HelperBounds, Requests!EditsAreKept
  <1> QED  BY <1>1, SettingsRun, PTL DEF EditsKept

(* A brightness write is called confirmed only after PowerDevil did it, and *)
(* a session action accepted only if the service accepted that very one,    *)
(* for any number of each and however late the replies come in.             *)
THEOREM HelperAnswersAreReal == Spec => []AnswersAreReal
  <1>1. Requests!ConfirmedIsApplied /\ Requests!SessionIsReal => AnswersAreReal
    BY DEF AnswersAreReal
  <1> QED  BY <1>1, BrightnessHolds, SessionHolds, PTL

(* PipeWire never carries out an older volume after a newer one, whatever  *)
(* roles are bound to whatever nodes and however late they answer.         *)
THEOREM HelperNewestWins == Spec => []NewestWins
  <1>1. Audio!NewestWins => NewestWins
    BY DEF NewestWins
  <1> QED  BY <1>1, AudioHolds, PTL

(* Feedback of a desktop switch is for a switch somebody made on that       *)
(* output, is announced once under its identity, and resolves until the     *)
(* adapter takes it back, through any restarts of KWin and of the helper;   *)
(* the other outputs may show other desktops meanwhile.                     *)
THEOREM HelperSwitchFeedback == Spec => []SwitchFeedback
  <1>1. Desktop!SwitchIsReal /\ Desktop!FeedbackResolves => SwitchFeedback
    BY DEF SwitchFeedback
  <1> QED  BY <1>1, DesktopsHold, PTL

(* When nothing is on its way, the shell holds the brightness, the volume   *)
(* and the desktops that the services have, and nothing of a PowerDevil     *)
(* whose going was heard of; but for a snapshot of PowerDevil that failed.  *)
THEOREM HelperShownIsCurrent == Spec => []ShownIsCurrent
  <1>1. Requests!ShellIsCurrent /\ Audio!AudioIsCurrent /\ Desktop!DesktopsAreCurrent
           => ShownIsCurrent
    BY DEF ShownIsCurrent
  <1> QED  BY <1>1, BrightnessHolds, AudioHolds, DesktopsHold, PTL

(* Each brightness write and session action is a request of RequestPromise, *)
(* for any number of displays, owners and requests.                         *)
THEOREM HelpersKeepPromise == Spec => KeepsPromise
  <1>1. Requests!BrightnessSpec => Requests!Promise!Spec
    BY HelperBounds, Requests!BrightnessImplementsPromise
  <1>2. Requests!SessionSpec => Requests!SessionPromise!Spec
    BY HelperBounds, Requests!SessionImplementsPromise
  <1> QED  BY <1>1, <1>2, BrightnessRuns, SessionRuns, PTL DEF KeepsPromise

(* The last good copy of the settings survives any failing step and any     *)
(* moment the machine stops, but for a helper that could not read it; and   *)
(* what was read and is replaced was saved.                                 *)
THEOREM HelperSettingsRecover == Spec => []SettingsRecoverable
  <1>1. Requests!SettingsSpec => [](Requests!SettingsRecoverable /\ Requests!OriginalsKept)
    BY Requests!LastGoodSurvives
  <1>2. Requests!SettingsRecoverable /\ Requests!OriginalsKept => SettingsRecoverable
    BY DEF SettingsRecoverable
  <1> QED  BY <1>1, <1>2, SettingsRun, PTL
=============================================================================
