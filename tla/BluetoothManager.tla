-------------------------- MODULE BluetoothManager --------------------------
(***************************************************************************)
(* src/connectivity/main.cpp, the Bluetooth half: the helper's view of     *)
(* BlueZ, the power request that goes to every adapter, discovery, the     *)
(* pairing agent, and the one operation that may run at a time.  The shell *)
(* names a device by a token it was shown.                                 *)
(*                                                                         *)
(* One event loop: a handler is an action, blocking calls included.  BlueZ *)
(* is external (bluez), with the moments at which it signals, asks the     *)
(* agent or answers.  Timers fire at any moment.  Every device belongs to  *)
(* one adapter; an answer to a prompt is well formed or not sent; lists    *)
(* stay below MaximumBluetoothDevices.  A blocking call that fails may have*)
(* been carried out all the same.                                          *)
(***************************************************************************)
EXTENDS Integers, FiniteSets, Functions, SequencesExt, KeyedTables

CONSTANTS
    Adapters, Devices,  \* of BlueZ
    MaxScans,           \* bound: scans the user starts
    MaxBluetoothEvents  \* bound: other commands, restarts and changes of BlueZ, failed
                        \* snapshots that take tokens back; one less for each adapter

VARIABLES
    bluezOwner,              \* bluezOwner, 0 when detached
    bluezRefreshScheduled,
    agentRegistered,
    bluetooth,               \* AdapterState, its timer, calls due and their failure
    adapters,                \* bluetoothAdapters: adapter -> powered
    devices,                 \* bluetoothDevices: device -> [token, paired, connected, seen]
    nextDeviceToken,
    discovery,               \* bluetoothDiscoveryActive, its adapters and its timer
    expiryTimer,
    bluetoothInterest,
    bluetoothOperation,
    pendingAgentReply,       \* the device whose prompt waits for the user
    bluetoothCalls,          \* asynchronous calls whose reply is due
    deviceNumbering,         \* history: how often tokens were taken back
    deviceNamed,             \* history: <<deviceNumbering, token, device>>
    everPaired,              \* history: devices BlueZ paired for this helper
    bluez, busName,          \* external: BlueZ and the owner of its name
    searching,               \* external: adapters BlueZ searches on for this helper
    astray,                  \* history: those the helper believes it does not search on
    bluetoothScans, bluetoothEvents    \* counters of the bounds

deviceNames == <<nextDeviceToken, deviceNumbering, deviceNamed>>
bluetoothList == <<adapters, devices, deviceNames>>
search == <<discovery, expiryTimer, searching, astray>>
bluetoothSession == <<search, bluetoothOperation, pendingAgentReply>>
bluezOutside == <<bluez, busName, everPaired>>
bluetoothVars == <<bluezOwner, bluezRefreshScheduled, agentRegistered, bluetooth, bluetoothList,
                   bluetoothSession, bluetoothInterest, bluetoothCalls, bluezOutside,
                   bluetoothScans, bluetoothEvents>>

NoDevice == "no device"
NoPower == [available |-> FALSE, enabled |-> FALSE, pending |-> FALSE, target |-> FALSE,
            requestId |-> 0, failure |-> "none", timer |-> FALSE, calls |-> 0, failed |-> FALSE]
Resting == [kind |-> "idle", generation |-> 0, target |-> 0, failure |-> "none",
            result |-> "none", prompt |-> "none"]
NoDiscovery == [active |-> FALSE, adapters |-> {}, timer |-> FALSE]

BluetoothEvent ==
    /\ bluetoothEvents < MaxBluetoothEvents /\ bluetoothEvents' = bluetoothEvents + 1
    /\ UNCHANGED bluetoothScans

BluetoothInit ==
    /\ busName = 1 /\ bluezOwner = 1 /\ bluezRefreshScheduled = TRUE
    /\ agentRegistered = TRUE /\ bluetooth = NoPower /\ adapters = <<>> /\ devices = <<>> /\ nextDeviceToken = 1
    /\ discovery = NoDiscovery /\ expiryTimer = FALSE /\ bluetoothInterest = FALSE
    /\ bluetoothOperation = Resting /\ pendingAgentReply = NoDevice
    /\ bluetoothCalls = {} /\ deviceNumbering = 0 /\ deviceNamed = {} /\ everPaired = {}
    /\ searching = {} /\ astray = {} /\ bluetoothScans = 0
    /\ \E plugged \in Prefixes(SetToSeq(Adapters)) :
         LET known == CHOOSE d \in Devices : TRUE IN
         /\ bluez = [powered |-> [a \in ToSet(plugged) |-> TRUE],
                     devices |-> [d \in {known} |-> [paired |-> TRUE, connected |-> FALSE]],
                     pairing |-> NoDevice, asked |-> FALSE, cancels |-> FALSE]
         /\ bluetoothEvents = Len(plugged)

-----------------------------------------------------------------------------
(* The state-changing helpers, on the values they change.                   *)

(* Mutant: the prompt outlives the operation that raised it.                *)
KeepPrompt == UNCHANGED pendingAgentReply
ClearPairingReply == pendingAgentReply' = NoDevice

Finished(op, failure, result) ==
    [op EXCEPT !.kind = "idle", !.failure = failure, !.result = result, !.target = 0,
               !.prompt = "none"]

FinishBluetoothOperation(failure, result) ==
    /\ bluetoothOperation' = Finished(bluetoothOperation, failure, result)
    /\ ClearPairingReply

FailBluetoothRequest(failure) ==
    [bluetooth EXCEPT !.pending = FALSE, !.failure = failure, !.timer = FALSE, !.calls = 0,
                      !.failed = FALSE]

(* The request timer is stopped with the owner, not with the state.         *)
ResetBluetooth(failure, timer) == [NoPower EXCEPT !.failure = failure, !.timer = timer]

(* What BlueZ searches on after a step, and which of it nobody will end.    *)
Powered == {a \in DOMAIN bluez.powered : bluez.powered[a]}
BluezSearches(now, lost) == searching' = now /\ astray' = (astray \cup lost) \cap now

ForgetDeviceTokens ==
    /\ nextDeviceToken' = 1
    /\ deviceNumbering' = IF nextDeviceToken = 1 THEN deviceNumbering ELSE deviceNumbering + 1
    /\ UNCHANGED deviceNamed

(* Nothing is said to BlueZ of a discovery that it still runs for us.       *)
ClearBluetoothManagerState(failure) ==
    /\ discovery' = NoDiscovery /\ expiryTimer' = FALSE
    /\ adapters' = <<>> /\ devices' = <<>> /\ ForgetDeviceTokens
    /\ ClearPairingReply
    /\ bluetoothOperation' = [Resting EXCEPT !.failure = failure]

Call(kind, generation, d, on) ==
    [kind |-> kind, generation |-> generation, device |-> d, on |-> on, owner |-> bluezOwner,
     phase |-> "sent"]

ScheduleBluez == bluezRefreshScheduled' = (bluezRefreshScheduled \/ bluezOwner # 0)

-----------------------------------------------------------------------------
(* refreshBluez.                                                            *)

BluezSnapshotFails ==
    /\ bluezRefreshScheduled
    /\ bluezRefreshScheduled' = FALSE
    /\ ClearBluetoothManagerState("backend")
    /\ BluezSearches(searching, searching)
    /\ bluetooth' = ResetBluetooth("backend", bluetooth.timer)
    /\ IF nextDeviceToken = 1 THEN UNCHANGED <<bluetoothScans, bluetoothEvents>> ELSE BluetoothEvent
    /\ UNCHANGED <<bluezOwner, agentRegistered, bluetoothInterest, bluetoothCalls, bluezOutside>>

BluezSnapshotDropped ==
    /\ bluezRefreshScheduled /\ busName # bluezOwner
    /\ bluezRefreshScheduled' = FALSE
    /\ UNCHANGED <<bluezOwner, agentRegistered, bluetooth, bluetoothList, bluetoothSession,
                   bluetoothInterest, bluetoothCalls, bluezOutside, bluetoothScans, bluetoothEvents>>

SeenLately(d) == discovery.active \/ (d \in DOMAIN devices /\ devices[d].seen)

TokenForDevice(fresh, d) ==
    IF d \in DOMAIN devices THEN devices[d].token
    ELSE nextDeviceToken - 1 + CHOOSE i \in DOMAIN fresh : fresh[i] = d

RebuildDevices(old) ==
    LET kept == {d \in DOMAIN bluez.devices :
                   \/ bluez.devices[d].paired \/ bluez.devices[d].connected \/ discovery.active
                   \/ SeenLately(d) /\ d \notin old}
        fresh == SetToSeq(kept \ DOMAIN devices)
    IN
    /\ devices' = [d \in kept |-> [token |-> TokenForDevice(fresh, d),
                                   paired |-> bluez.devices[d].paired,
                                   connected |-> bluez.devices[d].connected,
                                   seen |-> SeenLately(d)]]
    /\ nextDeviceToken' = nextDeviceToken + Len(fresh)
    /\ deviceNamed' = deviceNamed \cup {<<deviceNumbering, devices'[d].token, d>> : d \in kept}
    /\ UNCHANGED deviceNumbering

Target(list) == {d \in DOMAIN list : list[d].token = bluetoothOperation.target}

DeviceConnected(list) == \E d \in Target(list) : list[d].connected

(* How the running operation ends in this snapshot: "none" when it does not.*)
BluetoothConclusion(list) ==
    CASE bluetoothOperation.kind = "connecting" /\ DeviceConnected(list) -> "connected"
      [] bluetoothOperation.kind = "disconnecting" /\ ~DeviceConnected(list) -> "disconnected"
      [] bluetoothOperation.kind = "unpairing" /\ Target(list) = {} -> "unpaired"
      [] OTHER -> "none"

RefreshBluez(old) ==
    LET on == {a \in DOMAIN bluez.powered : bluez.powered[a]}
        observed == [bluetooth EXCEPT !.available = bluez.powered # <<>>, !.enabled = on # {}]
        confirmed == IF bluetooth.target THEN on = DOMAIN bluez.powered ELSE on = {}
    IN
    /\ bluezRefreshScheduled /\ busName = bluezOwner
    /\ bluezRefreshScheduled' = FALSE
    /\ adapters' = bluez.powered
    /\ RebuildDevices(old)
    /\ bluetooth' =
         CASE bluetooth.pending /\ bluez.powered # <<>> /\ confirmed ->
                [observed EXCEPT !.pending = FALSE, !.failure = "none", !.timer = FALSE]
           [] bluetooth.pending /\ bluez.powered = <<>> ->
                [observed EXCEPT !.pending = FALSE, !.failure = "unavailable", !.timer = FALSE,
                                 !.calls = 0, !.failed = FALSE]
           [] OTHER -> observed
    /\ IF BluetoothConclusion(devices') # "none" /\ ~(bluetooth.pending /\ bluez.powered = <<>>)
       THEN FinishBluetoothOperation("none", BluetoothConclusion(devices'))
       ELSE UNCHANGED <<bluetoothOperation, pendingAgentReply>>
    /\ UNCHANGED <<bluezOwner, agentRegistered, search, bluetoothInterest, bluetoothCalls,
                   bluezOutside, bluetoothScans, bluetoothEvents>>

OnBluezSignal ==
    /\ bluezOwner # 0 /\ ~bluezRefreshScheduled
    /\ bluezRefreshScheduled' = TRUE
    /\ UNCHANGED <<bluezOwner, agentRegistered, bluetooth, bluetoothList, bluetoothSession,
                   bluetoothInterest, bluetoothCalls, bluezOutside, bluetoothScans, bluetoothEvents>>

(* Detaching unregisters the agent and attaching registers it, or fails to. *)
OnBluezOwnerChanged ==
    /\ busName # bluezOwner
    /\ bluezOwner' = busName
    /\ bluezRefreshScheduled' = (busName # 0)
    /\ agentRegistered' \in {FALSE, busName # 0}
    /\ ClearBluetoothManagerState(IF busName = 0 THEN "unavailable" ELSE "none")
    /\ UNCHANGED <<searching, astray>>
    /\ bluetooth' = ResetBluetooth("none", FALSE)
    /\ UNCHANGED <<bluetoothInterest, bluetoothCalls, bluezOutside, bluetoothScans, bluetoothEvents>>

ExpireBluetoothDevices(old) ==
    /\ expiryTimer /\ expiryTimer' = FALSE
    /\ devices' = Restrict(devices, {d \in DOMAIN devices :
           devices[d].paired \/ devices[d].connected \/ (devices[d].seen /\ d \notin old)})
    /\ UNCHANGED <<bluezOwner, bluezRefreshScheduled, agentRegistered, bluetooth, adapters,
                   deviceNames, discovery, searching, astray, bluetoothOperation, pendingAgentReply,
                   bluetoothInterest, bluetoothCalls, bluezOutside, bluetoothScans, bluetoothEvents>>

OnBluetoothRequestTimeout ==
    /\ bluetooth.timer
    /\ bluetooth' = FailBluetoothRequest("timeout")
    /\ UNCHANGED <<bluezOwner, bluezRefreshScheduled, agentRegistered, bluetoothList,
                   bluetoothSession, bluetoothInterest, bluetoothCalls, bluezOutside,
                   bluetoothScans, bluetoothEvents>>

-----------------------------------------------------------------------------
(* Discovery: blocking calls to every adapter that is on.                   *)

(* stopBluetoothDiscovery leaves the target and the prompt as they are.     *)
Stopped(op, id, result) ==
    [op EXCEPT !.kind = "idle", !.generation = id, !.result = result,
               !.failure = IF result = "backend" THEN "backend" ELSE "none"]

(* Mutant: the adapters are forgotten before they are told to stop.         *)
TellNobody == BluezSearches(searching, {})
(* StopDiscovery goes to each adapter; its answer is not looked at.         *)
EndSearch ==
    \E unheard \in SUBSET discovery.adapters :
        BluezSearches(searching \ (discovery.adapters \ unheard), unheard)

StopWhenActive(id, result) ==
    IF discovery.active
    THEN /\ EndSearch
         /\ discovery' = NoDiscovery /\ expiryTimer' = TRUE
         /\ ScheduleBluez
    ELSE UNCHANGED <<search, bluezRefreshScheduled>>
AfterStop(op, id, result) == IF discovery.active THEN Stopped(op, id, result) ELSE op

(* Every adapter that is on searches, or the first that fails ends it all:  *)
(* those that were told to are told to stop, and those of a discovery that  *)
(* was active already are forgotten.                                        *)
DiscoveryStarts(id, on) ==
    /\ on # {} /\ on \subseteq Powered /\ busName = bluezOwner
    /\ searching' = searching \cup on /\ astray' = astray \ on
    /\ discovery' = [active |-> TRUE, adapters |-> on, timer |-> TRUE]
    /\ bluetoothOperation' =
         [bluetoothOperation EXCEPT !.kind = "discovering", !.generation = id,
              !.failure = "none", !.result = "none", !.target = 0]
    /\ UNCHANGED expiryTimer

DiscoveryDoesNotStart(id, on) ==
    /\ \E told, unheard \in SUBSET on :
         /\ unheard # {} => unheard \subseteq Powered /\ busName = bluezOwner
         /\ BluezSearches((searching \ told) \cup unheard, unheard \cup discovery.adapters)
    /\ discovery' = NoDiscovery /\ expiryTimer' = TRUE
    /\ bluetoothOperation' = Stopped(bluetoothOperation, id, "backend")

StartDiscovery(id) ==
    /\ UNCHANGED <<bluetooth, pendingAgentReply, bluetoothInterest, bluetoothCalls>>
    /\ IF bluetoothInterest /\ bluetooth.available /\ bluetooth.enabled
          /\ bluetoothOperation.kind = "idle"
       THEN LET on == {a \in DOMAIN adapters : adapters[a]} IN
            /\ ScheduleBluez
            /\ DiscoveryStarts(id, on) \/ DiscoveryDoesNotStart(id, on)
       ELSE UNCHANGED <<search, bluetoothOperation, bluezRefreshScheduled>>

StopDiscovery(id, result) ==
    /\ StopWhenActive(id, result)
    /\ bluetoothOperation' = AfterStop(bluetoothOperation, id, result)
    /\ UNCHANGED <<bluetooth, pendingAgentReply, bluetoothInterest, bluetoothCalls>>

DiscoveryExpires ==
    /\ discovery.timer
    /\ StopDiscovery(0, "expired")
    /\ UNCHANGED <<bluezOwner, agentRegistered, bluetoothList, bluezOutside, bluetoothScans, bluetoothEvents>>

-----------------------------------------------------------------------------
(* Commands.                                                                *)

(* CancelPairing is sent without waiting for an answer.                     *)
AfterCancel(op, id) ==
    IF op.kind = "pairing"
    THEN [Finished(op, "cancelled", "cancelled") EXCEPT !.generation = id] ELSE op
CancelPairing ==
    IF bluetoothOperation.kind = "pairing" THEN {Call("cancel", 0, d, TRUE) : d \in Target(devices)}
    ELSE {}
DropPrompt ==
    pendingAgentReply' = IF bluetoothOperation.kind = "pairing" THEN NoDevice ELSE pendingAgentReply

CancelBluetoothPairing(id) ==
    /\ bluetoothOperation' = AfterCancel(bluetoothOperation, id)
    /\ DropPrompt
    /\ bluetoothCalls' = bluetoothCalls \cup CancelPairing
    /\ UNCHANGED <<bluetooth, search, bluetoothInterest, bluezRefreshScheduled>>

CloseSearch(id) ==
    /\ StopWhenActive(id, "cancelled")
    /\ bluetoothOperation' = AfterStop(AfterCancel(bluetoothOperation, id), id, "cancelled")
    /\ DropPrompt

CloseBluetoothPage(id) ==
    /\ bluetoothInterest' = FALSE
    /\ CloseSearch(id)
    /\ bluetoothCalls' = bluetoothCalls \cup CancelPairing
    /\ UNCHANGED bluetooth

AnswerPower(id, enabled) ==
    /\ bluetooth' = CASE ~bluetooth.available ->
                           [bluetooth EXCEPT !.pending = FALSE, !.requestId = id,
                                             !.failure = "unavailable"]
                      [] bluetooth.available /\ ~bluetooth.pending ->
                           [bluetooth EXCEPT !.requestId = id, !.failure = "none"]
                      [] OTHER -> bluetooth
    /\ UNCHANGED <<bluetoothSession, bluetoothCalls, bluezRefreshScheduled>>

SwitchPower(id, enabled) ==
    LET idle == IF enabled THEN bluetoothOperation.kind = "idle"
                ELSE AfterStop(AfterCancel(bluetoothOperation, id), id, "cancelled").kind = "idle"
        power == IF idle THEN {[Call("power", id, NoDevice, enabled) EXCEPT !.device = a] :
                                 a \in DOMAIN adapters} ELSE {}
    IN
    /\ IF enabled THEN UNCHANGED <<bluetoothSession, bluezRefreshScheduled>> ELSE CloseSearch(id)
    /\ bluetoothCalls' = bluetoothCalls \cup power \cup (IF enabled THEN {} ELSE CancelPairing)
    /\ bluetooth' = IF idle THEN [bluetooth EXCEPT !.pending = TRUE, !.target = enabled,
                                    !.requestId = id, !.failure = "none", !.timer = TRUE,
                                    !.calls = Cardinality(power), !.failed = FALSE]
                    ELSE bluetooth

RequestBluetooth(id, enabled) ==
    /\ IF ~bluetooth.available \/ bluetooth.pending \/ bluetooth.enabled = enabled
       THEN AnswerPower(id, enabled) ELSE SwitchPower(id, enabled)
    /\ UNCHANGED bluetoothInterest

Begun(kind, id, token) ==
    [Resting EXCEPT !.kind = kind, !.generation = id, !.target = token]
Named(token) == {d \in DOMAIN devices : devices[d].token = token}

(* Mutant: a discovery goes on beside the operation.                        *)
GoOnSearching(id) == UNCHANGED <<search, bluezRefreshScheduled>>
ReplaceDiscovery(id) == StopWhenActive(id, "replaced")

Operate(id, token, kind, ready, able) ==
    /\ UNCHANGED <<bluetooth, pendingAgentReply, bluetoothInterest>>
    /\ IF ready /\ bluetoothInterest /\ bluetooth.enabled
       THEN LET op == AfterStop(bluetoothOperation, id, "replaced")
                ds == IF op.kind = "idle" THEN Named(token) \cap able ELSE {}
            IN
            /\ ReplaceDiscovery(id)
            /\ bluetoothOperation' = IF ds # {} THEN Begun(kind, id, token) ELSE op
            /\ bluetoothCalls' = bluetoothCalls \cup {Call(kind, id, d, TRUE) : d \in ds}
       ELSE UNCHANGED <<search, bluetoothOperation, bluetoothCalls, bluezRefreshScheduled>>

Unpaired == {d \in DOMAIN devices : ~devices[d].paired}
RequestBluetoothPair(id, token) == Operate(id, token, "pairing", agentRegistered, Unpaired)

RequestBluetoothDeviceAction(id, token) ==
    LET disconnects == {d \in DOMAIN devices : devices[d].connected}
        unpairs == {d \in DOMAIN devices : devices[d].paired}
        connects == unpairs \ disconnects
    IN
    \/ Operate(id, token, "connecting", TRUE, connects)
    \/ Operate(id, token, "disconnecting", TRUE, disconnects)
    \/ Operate(id, token, "unpairing", TRUE, unpairs)

HandleBluetoothCommand ==
    /\ BluetoothEvent
    /\ LET id == bluetoothEvents' IN
       \/ \E on \in BOOLEAN : RequestBluetooth(id, on)
       \/ CloseBluetoothPage(id)
       \/ StopDiscovery(id, "stopped")
       \/ CancelBluetoothPairing(id)
       \/ \E token \in 1..Cardinality(Devices) :
             RequestBluetoothPair(id, token) \/ RequestBluetoothDeviceAction(id, token)
    /\ UNCHANGED <<bluezOwner, agentRegistered, bluetoothList, bluezOutside>>

(* Opening the page does not count against the bounds.                      *)
OpenBluetoothPage ==
    /\ ~bluetoothInterest /\ bluetoothInterest' = TRUE
    /\ UNCHANGED <<bluezOwner, bluezRefreshScheduled, agentRegistered, bluetooth, bluetoothList,
                   bluetoothSession, bluetoothCalls, bluezOutside, bluetoothScans, bluetoothEvents>>

HandleBluetoothScan ==
    /\ bluetoothScans < MaxScans /\ bluetoothScans' = bluetoothScans + 1
    /\ StartDiscovery(bluetoothScans' + MaxBluetoothEvents)
    /\ UNCHANGED <<bluezOwner, agentRegistered, bluetoothList, bluezOutside, bluetoothEvents>>

-----------------------------------------------------------------------------
(* The agent: BlueZ asks, the user answers.                                 *)

HelperUntouched == UNCHANGED <<bluezOwner, bluezRefreshScheduled, agentRegistered, bluetooth,
                               bluetoothList, bluetoothInterest>>

(* A prompt for anything else is rejected and changes nothing.              *)
HandleAgentPrompt ==
    /\ bluez.pairing # NoDevice /\ agentRegistered /\ busName = bluezOwner
    /\ bluetoothOperation.kind = "pairing" /\ bluez.pairing \in Target(devices)
    /\ pendingAgentReply = NoDevice
    /\ pendingAgentReply' = bluez.pairing
    /\ bluetoothOperation' = [bluetoothOperation EXCEPT !.prompt = "ask"]
    /\ bluez' = [bluez EXCEPT !.asked = TRUE]
    /\ HelperUntouched
    /\ UNCHANGED <<search, bluetoothCalls, busName, everPaired, bluetoothScans, bluetoothEvents>>

HandleAgentDisplay ==
    /\ bluez.pairing # NoDevice /\ agentRegistered /\ busName = bluezOwner
    /\ bluetoothOperation.kind = "pairing" /\ bluez.pairing \in Target(devices)
    /\ bluetoothOperation' = [bluetoothOperation EXCEPT !.prompt = "display"]
    /\ HelperUntouched
    /\ UNCHANGED <<search, pendingAgentReply, bluetoothCalls, bluezOutside,
                   bluetoothScans, bluetoothEvents>>

(* A display that came meanwhile leaves only a refusal.                     *)
RespondToBluetoothPrompt(accepted) ==
    /\ bluetoothOperation.kind = "pairing" /\ pendingAgentReply # NoDevice
    /\ accepted => bluetoothOperation.prompt = "ask"
    /\ pendingAgentReply' = NoDevice
    /\ bluetoothOperation' = [bluetoothOperation EXCEPT !.prompt = "none"]
    /\ bluez' = [bluez EXCEPT !.asked = FALSE]
    /\ HelperUntouched
    /\ UNCHANGED <<search, bluetoothCalls, busName, everPaired, bluetoothScans, bluetoothEvents>>

(* Cancel names no device: it ends whatever runs by then, and leaves a      *)
(* discovery active.                                                        *)
AgentCancels ==
    /\ bluez.cancels /\ agentRegistered
    /\ bluez' = [bluez EXCEPT !.cancels = FALSE]
    /\ FinishBluetoothOperation("cancelled", "cancelled")
    /\ HelperUntouched
    /\ UNCHANGED <<search, bluetoothCalls, busName, everPaired, bluetoothScans, bluetoothEvents>>

AgentReleased ==
    /\ agentRegistered /\ BluetoothEvent
    /\ agentRegistered' = FALSE
    /\ FinishBluetoothOperation("backend", "none")
    /\ UNCHANGED <<bluezOwner, bluezRefreshScheduled, bluetooth, bluetoothList, search,
                   bluetoothInterest, bluetoothCalls, bluezOutside>>

-----------------------------------------------------------------------------
(* Replies.                                                                 *)

IsAwaited(c) ==
    /\ bluezOwner = c.owner
    /\ IF c.kind = "power"
       THEN bluetooth.pending /\ bluetooth.requestId = c.generation
       ELSE /\ bluetoothOperation.generation = c.generation
            /\ bluetoothOperation.kind = IF c.kind = "pair-connect" THEN "pairing" ELSE c.kind

(* The last of the power calls decides, and one failure is enough.          *)
PowerReply(failed) ==
    LET failing == bluetooth.failed \/ failed IN
    /\ bluetooth' = IF bluetooth.calls = 1 /\ failing THEN FailBluetoothRequest("backend")
                    ELSE [bluetooth EXCEPT !.calls = @ - 1, !.failed = failing]
    /\ bluezRefreshScheduled' = (bluezRefreshScheduled \/ (bluetooth.calls = 1 /\ ~failing))
    /\ UNCHANGED <<bluetoothOperation, pendingAgentReply>>

BluetoothCallFails(c) ==
    /\ c.kind # "cancel"
    /\ c.kind = "pairing" => c.phase = "failed" \/ c.owner # busName
    /\ bluetoothCalls' = bluetoothCalls \ {c}
    /\ CASE IsAwaited(c) /\ c.kind = "power" -> PowerReply(TRUE)
         [] IsAwaited(c) /\ c.kind # "power" ->
              /\ IF c.kind = "pair-connect" THEN FinishBluetoothOperation("connection-failed", "paired")
                 ELSE FinishBluetoothOperation("rejected", "none")
              /\ bluezRefreshScheduled' = (bluezRefreshScheduled \/ c.kind \in {"pairing", "pair-connect"})
              /\ UNCHANGED bluetooth
         [] OTHER -> UNCHANGED <<bluetooth, bluezRefreshScheduled, bluetoothOperation, pendingAgentReply>>
    /\ UNCHANGED <<bluezOwner, agentRegistered, bluetoothList, search,
                   bluetoothInterest, bluezOutside, bluetoothScans, bluetoothEvents>>

(* The reply to Pair: the device is trusted, which may fail, and connected. *)
ConnectAfterPairing(c) ==
    \/ /\ FinishBluetoothOperation("trust-failed", "paired")
       /\ ScheduleBluez
       /\ bluetoothCalls' = bluetoothCalls \ {c}
    \/ /\ bluetoothOperation' = [bluetoothOperation EXCEPT !.prompt = "none"]
       /\ ClearPairingReply
       /\ bluetoothCalls' = (bluetoothCalls \ {c}) \cup
              {Call("pair-connect", c.generation, c.device, TRUE)}
       /\ UNCHANGED bluezRefreshScheduled

BluetoothCallSucceeds(c) ==
    /\ c.phase = "done"
    /\ CASE IsAwaited(c) /\ c.kind = "pairing" -> ConnectAfterPairing(c) /\ UNCHANGED bluetooth
         [] IsAwaited(c) /\ c.kind = "power" ->
              PowerReply(FALSE) /\ bluetoothCalls' = bluetoothCalls \ {c}
         [] IsAwaited(c) /\ c.kind \notin {"pairing", "power"} ->
              /\ IF c.kind = "pair-connect" THEN FinishBluetoothOperation("none", "paired-connected")
                 ELSE UNCHANGED <<bluetoothOperation, pendingAgentReply>>
              /\ ScheduleBluez
              /\ bluetoothCalls' = bluetoothCalls \ {c}
              /\ UNCHANGED bluetooth
         [] OTHER ->
              /\ bluetoothCalls' = bluetoothCalls \ {c}
              /\ UNCHANGED <<bluetooth, bluezRefreshScheduled, bluetoothOperation, pendingAgentReply>>
    /\ UNCHANGED <<bluezOwner, agentRegistered, bluetoothList, search,
                   bluetoothInterest, bluezOutside, bluetoothScans, bluetoothEvents>>

-----------------------------------------------------------------------------
(* BlueZ.                                                                   *)

NothingHandled == UNCHANGED <<bluezOwner, bluezRefreshScheduled, agentRegistered, bluetooth,
                              bluetoothList, discovery, expiryTimer, bluetoothOperation,
                              pendingAgentReply, bluetoothInterest>>
(* An adapter that is switched off or goes stops searching.                 *)
SearchesWhilePowered == BluezSearches({a \in searching : a \in Powered'}, {})
Phased(c, phase) == bluetoothCalls' = (bluetoothCalls \ {c}) \cup {[c EXCEPT !.phase = phase]}
Known(d) == d \in DOMAIN bluez.devices

PairingOver(ok) ==
    [bluez EXCEPT !.pairing = NoDevice, !.asked = FALSE, !.cancels = @ \/ (bluez.asked /\ ~ok)]

BluezPerforms(c) ==
    /\ c.phase = "sent" /\ c.owner = busName
    /\ NothingHandled /\ UNCHANGED <<busName, everPaired, bluetoothScans, bluetoothEvents>>
    /\ \/ /\ c.kind = "power" /\ c.device \in DOMAIN bluez.powered
          /\ bluez' = [bluez EXCEPT !.powered[c.device] = c.on]
          /\ Phased(c, "done")
       \/ /\ c.kind = "pairing" /\ Known(c.device) /\ bluez.pairing = NoDevice
          /\ bluez' = [bluez EXCEPT !.pairing = c.device]
          /\ Phased(c, "running")
       \/ /\ c.kind = "pairing" /\ (bluez.pairing # NoDevice \/ ~Known(c.device))
          /\ Phased(c, "failed") /\ UNCHANGED bluez
       \/ /\ c.kind = "cancel" /\ bluez.pairing = c.device
          /\ bluez' = PairingOver(FALSE)
          /\ bluetoothCalls' = {IF d.phase = "running" THEN [d EXCEPT !.phase = "failed"] ELSE d :
                                   d \in bluetoothCalls \ {c}}
       \/ /\ c.kind = "cancel" /\ bluez.pairing # c.device
          /\ bluetoothCalls' = bluetoothCalls \ {c} /\ UNCHANGED bluez
       \/ /\ c.kind \in {"connecting", "pair-connect", "disconnecting"} /\ Known(c.device)
          /\ bluez' = [bluez EXCEPT !.devices[c.device].connected = c.kind # "disconnecting"]
          /\ Phased(c, "done")
       \/ /\ c.kind = "unpairing" /\ Known(c.device)
          /\ bluez' = [bluez EXCEPT !.devices = Restrict(@, DOMAIN @ \ {c.device})]
          /\ Phased(c, "done")
    /\ SearchesWhilePowered

BluezPairingEnds(ok) ==
    /\ bluez.pairing # NoDevice
    /\ bluez' = IF ok /\ Known(bluez.pairing)
                THEN [PairingOver(TRUE) EXCEPT !.devices[bluez.pairing].paired = TRUE]
                ELSE PairingOver(FALSE)
    /\ everPaired' = everPaired \cup (IF ok /\ Known(bluez.pairing) THEN {bluez.pairing} ELSE {})
    /\ bluetoothCalls' = {IF c.phase = "running"
                          THEN [c EXCEPT !.phase = IF ok /\ Known(bluez.pairing) THEN "done" ELSE "failed"]
                          ELSE c : c \in bluetoothCalls}
    /\ NothingHandled /\ UNCHANGED <<searching, astray, busName, bluetoothScans, bluetoothEvents>>

New == [paired |-> FALSE, connected |-> FALSE]
BluezFinds(d) ==
    /\ searching # {} /\ ~Known(d)
    /\ bluez' = [bluez EXCEPT !.devices = Put(@, d, New)]
    /\ NothingHandled
    /\ UNCHANGED <<searching, astray, bluetoothCalls, busName, everPaired, bluetoothScans,
                   bluetoothEvents>>

BluezChanges ==
    /\ BluetoothEvent
    /\ \/ \E d \in DOMAIN bluez.devices :
             \/ bluez' = [bluez EXCEPT !.devices[d].connected = ~@]
             \/ bluez' = [bluez EXCEPT !.devices = Restrict(@, DOMAIN @ \ {d})]
       \/ \E a \in DOMAIN bluez.powered :
             \/ bluez' = [bluez EXCEPT !.powered[a] = ~@]
             \/ bluez' = [bluez EXCEPT !.powered = Restrict(@, DOMAIN @ \ {a})]
    /\ SearchesWhilePowered
    /\ NothingHandled /\ UNCHANGED <<bluetoothCalls, busName, everPaired>>

BluezOwnerChanges ==
    /\ busName = bluezOwner /\ BluetoothEvent
    /\ busName' \in {0, bluetoothEvents' + 1} \ {busName}
    /\ bluez' = [bluez EXCEPT !.pairing = NoDevice, !.asked = FALSE, !.cancels = FALSE]
    /\ BluezSearches({}, {})
    /\ NothingHandled /\ UNCHANGED <<bluetoothCalls, everPaired>>

BluetoothNext ==
    \/ HandleBluetoothCommand \/ OpenBluetoothPage \/ HandleBluetoothScan
    \/ OnBluezSignal \/ OnBluezOwnerChanged
    \/ BluezSnapshotFails \/ BluezSnapshotDropped
    \/ \E old \in SUBSET Devices : RefreshBluez(old) \/ ExpireBluetoothDevices(old)
    \/ OnBluetoothRequestTimeout \/ DiscoveryExpires
    \/ HandleAgentPrompt \/ HandleAgentDisplay
    \/ \E answer \in BOOLEAN : RespondToBluetoothPrompt(answer) \/ BluezPairingEnds(answer)
    \/ AgentCancels \/ AgentReleased
    \/ \E c \in bluetoothCalls :
          BluetoothCallFails(c) \/ BluetoothCallSucceeds(c) \/ BluezPerforms(c)
    \/ \E d \in Devices : BluezFinds(d)
    \/ BluezChanges \/ BluezOwnerChanges

BluetoothSpec == BluetoothInit /\ [][BluetoothNext]_bluetoothVars
BluetoothFairness == WF_bluetoothVars(OnBluetoothRequestTimeout) /\ WF_bluetoothVars(DiscoveryExpires)

-----------------------------------------------------------------------------
BluetoothTimersArmed ==
    /\ bluetooth.pending => bluetooth.timer
    /\ discovery.active => discovery.timer

(* As TokensNameOne: from one taking back of the tokens to the next.        *)
DeviceTokensNameOne ==
    /\ \A s, t \in deviceNamed : s[1] = t[1] /\ s[2] = t[2] => s = t
    /\ \A d \in DOMAIN devices : <<deviceNumbering, devices[d].token, d>> \in deviceNamed

(* The helper's discovery is for an open page and beside no operation, and  *)
(* BlueZ searches on no adapter but those of that discovery and those that  *)
(* went astray.                                                             *)
DiscoveryNeedsPage ==
    /\ discovery.active => bluetoothInterest /\ bluetoothOperation.kind \in {"discovering", "idle"}
    /\ searching \subseteq discovery.adapters \cup astray
    /\ discovery.adapters # {} => discovery.active

PromptIsPairing ==
    pendingAgentReply # NoDevice =>
        /\ bluetoothOperation.kind = "pairing"
        /\ <<deviceNumbering, bluetoothOperation.target, pendingAgentReply>> \in deviceNamed

(* Success is said of what BlueZ has or did: the device of the command is   *)
(* connected, or none that the list has under its token is still connected  *)
(* or paired; it was paired; it was connected after that.  And a reply that *)
(* ends an operation is about the device the operation names.               *)
BluetoothEnds == bluetoothOperation.kind # "idle" /\ bluetoothOperation'.kind = "idle"
BluetoothAnswered == bluetoothCalls \ bluetoothCalls'
OfTarget(d) == <<deviceNumbering, bluetoothOperation.target, d>> \in deviceNamed
IsConnected(d) == Known(d) /\ bluez.devices[d].connected
IsPaired(d) == Known(d) /\ bluez.devices[d].paired
BluetoothIsReal ==
    [][BluetoothEnds =>
        /\ bluetoothOperation'.result = "connected" => \E d \in Devices : OfTarget(d) /\ IsConnected(d)
        /\ bluetoothOperation'.result = "disconnected" => \A d \in Target(devices) : ~IsConnected(d)
        /\ bluetoothOperation'.result = "unpaired" => \A d \in Target(devices) : ~IsPaired(d)
        /\ bluetoothOperation'.result \in {"paired", "paired-connected"} =>
              \E d \in everPaired : OfTarget(d)
        /\ bluetoothOperation'.result = "paired-connected" =>
              \E c \in BluetoothAnswered : c.kind = "pair-connect" /\ c.phase = "done"
        /\ \A c \in BluetoothAnswered :
              c.kind \in {"pairing", "pair-connect", "connecting", "disconnecting", "unpairing"} =>
                OfTarget(c.device)]_bluetoothVars

BluetoothSettled == ~bluetooth.pending /\ ~discovery.active
=============================================================================
