------------------------------ MODULE MCHelpers ------------------------------
(***************************************************************************)
(* The helper processes on small instances.  They share no state and never *)
(* call each other; nor do the two halves of the connectivity helper.  So  *)
(* each is explored with the others at rest: active says which one the     *)
(* behaviour is about.                                                     *)
(***************************************************************************)
EXTENDS Integers

CONSTANTS
    Networks, MaxWifiEvents,
    Adapters, Devices, MaxScans, MaxBluetoothEvents,
    Displays, Maxima, MaximumDisplays, MaxWrites, MaxOwners, MaxServiceSteps,
    Roles, AudioNodes, Levels, MaxAudioCommands, MaxAudioChanges,
    MaxActions,
    MaxSettingsEvents,
    Outputs, Desktops, MaximumSourceVersion, MaxDesktopEvents

VARIABLES
    active,   \* the helper this behaviour is about
    networkOwner, networkRefreshScheduled, wifi, wifiOperation, wifiNetworks, networkTokens,
    nextNetworkToken, networkNumbering, named, scan, wifiInterest, nextOperationGeneration,
    wifiCalls, nm, nmOwner, wifiEvents,
    bluezOwner, bluezRefreshScheduled, agentRegistered, bluetooth, adapters, devices,
    nextDeviceToken, discovery, expiryTimer, bluetoothInterest, bluetoothOperation,
    pendingAgentReply, bluetoothCalls, deviceNumbering, deviceNamed, everPaired, bluez, busName,
    searching, astray, bluetoothScans, bluetoothEvents,
    activeOwner, ownerGeneration, displays, pendingRequests, displayFailures, observedChanges,
    snapshotScheduled, missed, requestTimer, shown, results, busOwner, screens, wire, writes,
    applied, serviceSteps,
    helperReady, knownNodes, roles, bindings, syncRequests, readbackRequests, roleShown,
    nodeProps, audioEvents, connected, newest, overtaken, audioCommands, audioChanges,
    pendingRequestId, sessionTimer, sessionResults, sessionCalls, carriedOut,
    config, view, helper, disk, settingsGood, settingsEvents,
    kwin, scripts, kwinWire, observer, lines, adapter, feedback, desktopEvents

(* The modules with the proofs about the helpers extend their models.       *)
Connectivity == INSTANCE ConnectivityProofs
Requests == INSTANCE RequestProofs
Audio == INSTANCE AudioProofs
Desktop == INSTANCE DesktopProofs

(* What the proofs assume of the bounds.                                    *)
ASSUME HelperBounds ==
    /\ Connectivity!WifiBounds /\ Connectivity!BluetoothBounds /\ Requests!BrightnessBounds
    /\ Audio!AudioBounds /\ Desktop!DesktopBounds /\ MaxActions \in Nat

wifiHalf == <<networkOwner, networkRefreshScheduled, wifi, wifiOperation, wifiNetworks,
              networkTokens, nextNetworkToken, networkNumbering, named, scan, wifiInterest,
              nextOperationGeneration, wifiCalls, nm, nmOwner, wifiEvents>>
bluetoothHalf == <<bluezOwner, bluezRefreshScheduled, agentRegistered, bluetooth, adapters,
                   devices, nextDeviceToken, discovery, expiryTimer, bluetoothInterest,
                   bluetoothOperation, pendingAgentReply, bluetoothCalls, deviceNumbering,
                   deviceNamed, everPaired, bluez, busName, searching, astray, bluetoothScans, bluetoothEvents>>
brightness == <<activeOwner, ownerGeneration, displays, pendingRequests, displayFailures,
                observedChanges, snapshotScheduled, missed, requestTimer, shown, results, busOwner,
                screens, wire, writes, applied, serviceSteps>>
audio == <<helperReady, knownNodes, roles, bindings, syncRequests, readbackRequests, roleShown,
           nodeProps, audioEvents, connected, newest, overtaken, audioCommands, audioChanges>>
session == <<pendingRequestId, sessionTimer, sessionResults, sessionCalls, carriedOut>>
settings == <<config, view, helper, disk, settingsGood, settingsEvents>>
desktops == <<kwin, scripts, kwinWire, observer, lines, adapter, feedback, desktopEvents>>

(* The helpers at rest: no service, no node, no file.                       *)
Init ==
    /\ active \in {"wifi", "bluetooth", "brightness", "audio", "session", "settings",
                "desktops"}
    /\ Connectivity!WifiInit /\ Connectivity!BluetoothInit /\ Requests!BrightnessInit
    /\ Audio!AudioInit /\ Requests!SessionInit /\ Requests!SettingsInit /\ Desktop!DesktopInit
    /\ active # "wifi" => nmOwner = 0
    /\ active # "bluetooth" => bluez.powered = <<>>
    /\ active # "brightness" => busOwner = 0
    /\ active # "audio" => nodeProps = <<>>
    /\ active # "settings" => disk.settings = "missing" /\ disk.legacy = "missing"
    /\ active # "desktops" => kwin.owner = 0 /\ ~adapter.helperPath

WifiSteps ==
    /\ active = "wifi" /\ Connectivity!WifiNext
    /\ UNCHANGED <<active, bluetoothHalf, brightness, audio, session, settings, desktops>>
BluetoothSteps ==
    /\ active = "bluetooth" /\ Connectivity!BluetoothNext
    /\ UNCHANGED <<active, wifiHalf, brightness, audio, session, settings, desktops>>
BrightnessSteps ==
    /\ active = "brightness" /\ Requests!BrightnessNext
    /\ UNCHANGED <<active, wifiHalf, bluetoothHalf, audio, session, settings, desktops>>
AudioSteps ==
    /\ active = "audio" /\ Audio!AudioNext
    /\ UNCHANGED <<active, wifiHalf, bluetoothHalf, brightness, session, settings, desktops>>
SessionSteps ==
    /\ active = "session" /\ Requests!SessionNext
    /\ UNCHANGED <<active, wifiHalf, bluetoothHalf, brightness, audio, settings, desktops>>
SettingsSteps ==
    /\ active = "settings" /\ Requests!SettingsNext
    /\ UNCHANGED <<active, wifiHalf, bluetoothHalf, brightness, audio, session, desktops>>
DesktopSteps ==
    /\ active = "desktops" /\ Desktop!DesktopNext
    /\ UNCHANGED <<active, wifiHalf, bluetoothHalf, brightness, audio, session, settings>>
Next ==
    \/ WifiSteps \/ BluetoothSteps \/ BrightnessSteps \/ AudioSteps
    \/ SessionSteps \/ SettingsSteps \/ DesktopSteps

(* At rest nothing fair is enabled, but for PipeWire's first event.         *)
Spec ==
    /\ Init
    /\ [][Next]_<<active, wifiHalf, bluetoothHalf, brightness, audio, session, settings, desktops>>
    /\ Connectivity!WifiFairness /\ Connectivity!BluetoothFairness /\ Requests!BrightnessFairness
    /\ Requests!SessionFairness /\ Requests!SettingsFairness /\ Desktop!DesktopFairness
    /\ WF_audio(active = "audio" /\ Audio!OnAudioEvent)

-----------------------------------------------------------------------------
(* What waits in a helper has a timer, or a request on its way, that will   *)
(* end it: a radio that is being switched, an operation on Wi-Fi, a         *)
(* discovery, a brightness or session request, a volume that was sent, a    *)
(* desktop helper that does not get ready or has gone. One thing has        *)
(* neither: a device that is being connected, paired or unpaired waits for  *)
(* BlueZ and for the user, and after a good reply for a snapshot that may   *)
(* never say so (src/connectivity/main.cpp:1515, 2163).                     *)
TimersArmed ==
    /\ Connectivity!WifiTimersArmed /\ Connectivity!BluetoothTimersArmed
    /\ Requests!TimerArmed /\ Requests!SessionTimerArmed /\ Audio!AudioCarried
    /\ Desktop!HelperWatched

(* From one time the helper takes its tokens back to the next, a token      *)
(* never comes to stand for something else, however lists shrink, grow and  *)
(* are rebuilt, and the list shows tokens of now; a brightness key only     *)
(* reaches the PowerDevil that published it. The tokens are taken back, and *)
(* numbered from 1 again, when the owner of the service changes and also    *)
(* when a snapshot fails under the same owner                               *)
(* (src/connectivity/main.cpp:1018, 1861), so a command that was sent       *)
(* before and arrives after the next list may then name another network or  *)
(* device: this the property does not exclude.                              *)
TokensNameOne ==
    Connectivity!TokensNameOne /\ Connectivity!DeviceTokensNameOne /\ Requests!WritesReachTheirService

(* README.md:114, "Bluetooth discovery runs only after explicit Scan and    *)
(* stops after 30 seconds or page close": the helper scans and discovers    *)
(* only for an open page and beside no other operation, and BlueZ searches  *)
(* for it on no adapter but those of that discovery; except on an adapter   *)
(* whose search went astray. A search goes astray when a failed snapshot    *)
(* forgets it, when a start or stop of it was carried out or not without    *)
(* the helper hearing so, and when a start over a running discovery fails   *)
(* (src/connectivity/main.cpp:1853, 1890, 1936): BlueZ then goes on behind  *)
(* a closed page.                                                           *)
SearchesStayOnPage == Connectivity!ScanNeedsPage /\ Connectivity!DiscoveryNeedsPage

(* A prompt that waits for the user belongs to the pairing that runs, and   *)
(* to the device that pairing named.                                        *)
PromptIsPairing == Connectivity!PromptIsPairing

(* README.md:255, "Pending and failure states do not report success":       *)
(* success is said of what the service has or did. Connected: the network   *)
(* or device the command named is in use. Disconnected: nothing is, except  *)
(* that a snapshot which could not read the access points or the one in use *)
(* says so too (src/connectivity/main.cpp:883, 892, 1286); of a device that *)
(* has left the list "disconnected" and "unpaired" say nothing. Forgotten,  *)
(* updated, paired: the service did it. A reply that ends an operation,     *)
(* however late, is about the network or device of that operation.          *)
SuccessIsReal == Connectivity!WifiIsReal /\ Connectivity!BluetoothIsReal

(* A brightness write is called confirmed only after PowerDevil did it, and *)
(* a session action accepted only if the service accepted that very one,    *)
(* however late the replies come in.                                        *)
AnswersAreReal == Requests!ConfirmedIsApplied /\ Requests!SessionIsReal

(* When nothing is on its way, the shell holds the brightness, the volume   *)
(* and the desktops that the services have, and nothing of a PowerDevil     *)
(* whose going the helper has heard of. But after a snapshot of PowerDevil  *)
(* that failed, the brightness stays as it was read before until the next   *)
(* signal (src/brightness/main.cpp:336).                                    *)
ShownIsCurrent == Requests!ShellIsCurrent /\ Audio!AudioIsCurrent /\ Desktop!DesktopsAreCurrent

(* Feedback of a desktop switch is for a switch somebody made on that       *)
(* output, is announced once under its identity, and resolves until the     *)
(* adapter takes it back, through restarts of KWin and of the helper. It is *)
(* announced for that output alone, also while the others show other        *)
(* desktops: README.md:285, "only while every output confirms the same      *)
(* current desktop", is not what the code does.                             *)
SwitchFeedback == Desktop!SwitchIsReal /\ Desktop!FeedbackResolves

(* PipeWire never carries out an older volume after a newer one.            *)
NewestWins == Audio!NewestWins

(* Each brightness write and session action is a request that waits or is   *)
(* refused, and ends once (RequestPromise).                                 *)
KeepsPromise == Requests!Promise!Spec /\ Requests!SessionPromise!Spec

(* Once a write of the settings has succeeded, settings.conf.last-good is   *)
(* whole and valid whichever step fails and at any moment the machine       *)
(* stops, except that a helper which could not read the good copy when it   *)
(* began unlinks it when its write fails (src/settings/main.cpp:206-215).   *)
(* And what a migration, an upgrade or a recovery read and replaces was     *)
(* saved; an edit made after that read is overwritten unsaved.              *)
SettingsRecoverable == Requests!SettingsRecoverable /\ Requests!OriginalsKept

(* A change of the settings that waits goes on waiting until it is written: *)
(* only a failing write, a file that stops being writable and a restart of  *)
(* the shell keep it from being.                                            *)
EditsKept == Requests!EditsKept

(* Whatever the services do, nothing stays pending: radios, Wi-Fi           *)
(* operations, discoveries, brightness and session requests, volumes,       *)
(* writes of the settings, the start and the end of the desktop helper. Not *)
(* so an operation on a Bluetooth device, which may wait for ever (see      *)
(* TimersArmed), nor a write of the settings whose helper fails to start:   *)
(* the shell is not told (qml/UserConfig.qml:1185).                         *)
AllSettle ==
    []<>(/\ Connectivity!WifiSettled /\ Connectivity!BluetoothSettled /\ Requests!BrightnessSettled
         /\ Audio!AudioSettled /\ Requests!SessionSettled /\ Requests!SettingsSettled
         /\ Desktop!DesktopsSettled)
=============================================================================
