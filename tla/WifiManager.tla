---------------------------- MODULE WifiManager ----------------------------
(***************************************************************************)
(* src/connectivity/main.cpp, the Wi-Fi half: the helper's view of         *)
(* NetworkManager, the radio request and the one operation (scan, connect, *)
(* disconnect, forget) that may run at a time.  The shell names a network  *)
(* by a token it was shown.                                                *)
(*                                                                         *)
(* One event loop: a handler is an action, blocking reads included.  What  *)
(* NetworkManager does (nm) is external, and so are the moments at which   *)
(* it signals, answers a call or lets it time out.  A running timer fires, *)
(* scan results age and the cooldown of manual scans passes at any moment. *)
(* A network is identified by its SSID and security together; that a       *)
(* secret fits it is part of the command.  An access point and the saved   *)
(* profiles are read whole.  Lists stay below MaximumNetworks.             *)
(***************************************************************************)
EXTENDS Integers, FiniteSets, Functions, SequencesExt

CONSTANTS
    Networks,          \* the networks in range, by SSID and security
    MaxWifiEvents      \* bound: commands, scans the helper starts by itself, restarts
                       \* of NetworkManager, changes nobody asked this helper for, and
                       \* failed snapshots that take tokens back

VARIABLES
    networkOwner,             \* networkOwner, 0 when detached
    networkRefreshScheduled,
    wifi,                     \* AdapterState and wifiRequestTimer
    wifiOperation,            \* WifiOperation and wifiOperationTimer
    wifiNetworks,             \* network -> [token, connected, saved]
    networkTokens,            \* network -> token
    nextNetworkToken,
    scan,                     \* lastScanValue, scanStartValue, manualScanAge
    wifiInterest,
    nextOperationGeneration,
    wifiCalls,                \* asynchronous calls whose reply is due
    networkNumbering,         \* history: how often tokens were taken back
    named,                    \* history: <<networkNumbering, token, network>>
    nm,                       \* external: NetworkManager
    nmOwner,                  \* external: owner of the bus name
    wifiEvents                \* events so far

wifiShown == <<wifi, wifiOperation, wifiNetworks>>
networkNames == <<networkTokens, nextNetworkToken, networkNumbering, named>>
wifiHidden == <<networkNames, scan, wifiInterest, nextOperationGeneration>>
wifiEnvironment == <<nm, nmOwner>>
wifiVars == <<networkOwner, networkRefreshScheduled, wifiShown, wifiHidden, wifiCalls,
              wifiEnvironment, wifiEvents>>

NoOwner == 0
NoToken == 0
NoNetwork == "no network"

NoAdapter == [available |-> FALSE, hardware |-> FALSE, enabled |-> FALSE, pending |-> FALSE,
              target |-> FALSE, requestId |-> 0, failure |-> "none", timer |-> FALSE]
NoOperation == [kind |-> "idle", generation |-> 0, target |-> NoToken,
                failure |-> "none", result |-> "none", timer |-> FALSE]
NoScan == [last |-> -1, start |-> -1, manual |-> FALSE]

Counted == wifiEvents < MaxWifiEvents /\ wifiEvents' = wifiEvents + 1
Current == {n \in DOMAIN wifiNetworks : wifiNetworks[n].connected}
Idle == wifiOperation.kind = "idle"

WifiInit ==
    /\ nmOwner \in {NoOwner, 1}
    /\ networkOwner = nmOwner
    /\ networkRefreshScheduled = (nmOwner # NoOwner)
    /\ wifi = NoAdapter /\ wifiOperation = NoOperation /\ wifiNetworks = <<>>
    /\ networkTokens = <<>> /\ nextNetworkToken = 1 /\ networkNumbering = 0 /\ named = {}
    /\ scan = NoScan
    /\ wifiInterest = FALSE /\ nextOperationGeneration = 1
    /\ wifiCalls = {} /\ wifiEvents = 0
    /\ LET n == CHOOSE n \in Networks : TRUE IN
         nm = [wireless |-> TRUE, hardware |-> TRUE, device |-> TRUE, saved |-> {n}, active |-> n,
               wanted |-> NoNetwork, state |-> "activated", scan |-> -1]

-----------------------------------------------------------------------------
(* The state-changing helpers, on the values they change.                   *)

FinishWifiOperation(op, failure, result) ==
    [op EXCEPT !.kind = "idle", !.failure = failure, !.result = result,
               !.target = NoToken, !.timer = FALSE]

BeginWifiOperation(op, kind, generation) ==
    [op EXCEPT !.kind = kind, !.generation = generation, !.failure = "none",
               !.result = "none", !.target = NoToken, !.timer = TRUE]

RejectRequest(request, id, failure) ==
    [request EXCEPT !.pending = FALSE, !.requestId = id, !.failure = failure]

ResetUnavailable(failure) == [NoAdapter EXCEPT !.failure = failure, !.timer = wifi.timer]

FailRequest(failure) ==
    /\ wifi' = [wifi EXCEPT !.pending = FALSE, !.failure = failure, !.timer = FALSE]
    /\ wifiOperation' = IF wifiOperation.kind = "radio"
                        THEN FinishWifiOperation(wifiOperation, failure, "none")
                        ELSE wifiOperation

(* Mutant: the numbering restarts while the old names are kept.             *)
RestartTokens == UNCHANGED <<networkTokens, networkNumbering, named>> /\ nextNetworkToken' = 1
ForgetTokens ==
    /\ networkTokens' = <<>> /\ nextNetworkToken' = 1
    /\ networkNumbering' = IF networkTokens = <<>> THEN networkNumbering ELSE networkNumbering + 1
    /\ UNCHANGED named

ClearWifiManagerState(failure) ==
    /\ wifiNetworks' = <<>>
    /\ ForgetTokens
    /\ scan' = NoScan
    /\ wifiOperation' = [NoOperation EXCEPT !.failure = failure]
    /\ UNCHANGED <<wifiInterest, nextOperationGeneration>>

Calls(kind, generation, what) ==
    {[kind |-> kind, generation |-> generation, what |-> what,
      owner |-> networkOwner, phase |-> "sent"]}

(* tokenForNetwork for each of these networks.                              *)
TokensFor(ns) ==
    LET new == SetToSeq(ns \ DOMAIN networkTokens) IN
    [n \in DOMAIN networkTokens \cup ns |->
        IF n \in DOMAIN networkTokens THEN networkTokens[n]
        ELSE nextNetworkToken - 1 + CHOOSE i \in DOMAIN new : new[i] = n]

TakeTokens(ns) ==
    /\ networkTokens' = TokensFor(ns)
    /\ nextNetworkToken' = nextNetworkToken + Cardinality(ns \ DOMAIN networkTokens)
    /\ named' = named \cup {<<networkNumbering, networkTokens'[n], n>> : n \in ns}
    /\ UNCHANGED networkNumbering

-----------------------------------------------------------------------------
(* refreshNetwork.                                                          *)

NetworkSnapshotFails ==
    /\ networkRefreshScheduled
    /\ networkRefreshScheduled' = FALSE
    /\ wifi' = ResetUnavailable("backend")
    /\ ClearWifiManagerState("backend")
    /\ IF networkTokens = <<>> THEN UNCHANGED wifiEvents ELSE Counted
    /\ UNCHANGED <<networkOwner, wifiCalls, wifiEnvironment>>

(* The name has another owner by the time everything has been read.         *)
NetworkSnapshotDropped ==
    /\ networkRefreshScheduled /\ nmOwner # networkOwner
    /\ networkRefreshScheduled' = FALSE
    /\ UNCHANGED <<networkOwner, wifiShown, wifiHidden, wifiCalls, wifiEnvironment, wifiEvents>>

Reads == networkRefreshScheduled /\ nmOwner = networkOwner /\ networkRefreshScheduled' = FALSE
Observed == [wifi EXCEPT !.available = nm.device, !.hardware = nm.device /\ nm.hardware,
                         !.enabled = nm.device /\ nm.wireless]

RefreshWithoutDevice ==
    /\ Reads /\ ~nm.device
    /\ wifiNetworks' = <<>>
    /\ IF wifi.pending
       THEN /\ wifi' = [Observed EXCEPT !.pending = FALSE, !.failure = "unavailable", !.timer = FALSE]
            /\ wifiOperation' = IF wifiOperation.kind = "radio"
                                THEN FinishWifiOperation(wifiOperation, "unavailable", "none")
                                ELSE wifiOperation
       ELSE /\ wifi' = Observed
            /\ wifiOperation' = IF Idle THEN wifiOperation
                                ELSE FinishWifiOperation(wifiOperation, "unavailable", "none")
    /\ UNCHANGED <<networkOwner, wifiHidden, wifiCalls, wifiEnvironment, wifiEvents>>

Confirmed == wifi.pending /\ Observed.enabled = wifi.target
Settled == IF Confirmed THEN [Observed EXCEPT !.pending = FALSE, !.failure = "none", !.timer = FALSE]
           ELSE Observed
SettledOperation == IF Confirmed /\ wifiOperation.kind = "radio"
                    THEN FinishWifiOperation(wifiOperation, "none", "radio-updated")
                    ELSE wifiOperation

RefreshRadioOff ==
    /\ Reads /\ nm.device /\ ~nm.wireless
    /\ wifi' = Settled
    /\ wifiNetworks' = <<>>
    /\ scan' = [scan EXCEPT !.last = -1]
    /\ wifiOperation' = IF SettledOperation.kind = "scanning"
                        THEN FinishWifiOperation(SettledOperation, "none", "cancelled")
                        ELSE SettledOperation
    /\ UNCHANGED <<networkOwner, networkNames, wifiInterest, nextOperationGeneration, wifiCalls,
                   wifiEnvironment, wifiEvents>>

(* What a snapshot reads piece by piece: what NetworkManager has, or what a *)
(* call that fails leaves.                                                  *)
Readings == [listed : BOOLEAN, active : {nm.active, NoNetwork}, scan : {nm.scan, scan.last},
             state : {nm.state, "unknown"}]

RebuildNetworks(read) ==
    IF read.listed
    THEN /\ TakeTokens(Networks)
         /\ wifiNetworks' = [n \in Networks |->
                [token |-> networkTokens'[n], connected |-> n = read.active, saved |-> n \in nm.saved]]
    ELSE wifiNetworks' = <<>> /\ UNCHANGED networkNames

(* Mutant: an activated device is enough, whatever it is connected to.      *)
ActivatedDevice == \E n \in DOMAIN wifiNetworks' : wifiNetworks'[n].connected
TargetConnected == \E n \in DOMAIN wifiNetworks' :
    wifiNetworks'[n].connected /\ wifiNetworks'[n].token = wifiOperation.target

(* How the running operation ends in this snapshot: <<>> when it does not.  *)
Conclusion(read) ==
    CASE wifiOperation.kind = "scanning" /\ read.scan >= 0 /\ read.scan # scan.start
           -> <<"none", "scan-complete">>
      [] wifiOperation.kind = "connecting" /\ read.state = "activated" /\ TargetConnected
           -> <<"none", "connected">>
      [] wifiOperation.kind = "connecting" /\ read.state = "failed" -> <<"backend", "none">>
      [] wifiOperation.kind = "disconnecting" /\ \A n \in DOMAIN wifiNetworks' : ~wifiNetworks'[n].connected
           -> <<"none", "disconnected">>
      [] OTHER -> <<>>

RefreshNetwork(read, aged) ==
    /\ Reads /\ nm.device /\ nm.wireless
    /\ wifi' = Settled
    /\ RebuildNetworks(read)
    /\ LET seen == [scan EXCEPT !.last = read.scan]
           ending == Conclusion(read)
           stale == wifiNetworks' = <<>> \/ read.scan < 0 \/ (aged /\ read.scan = scan.last)
           automatic == /\ wifiInterest /\ SettledOperation.kind = "idle" /\ stale
                        /\ wifiEvents < MaxWifiEvents
       IN CASE ending # <<>> ->
                 /\ wifiOperation' = FinishWifiOperation(wifiOperation, ending[1], ending[2])
                 /\ scan' = seen
                 /\ UNCHANGED <<wifiCalls, nextOperationGeneration, wifiEvents>>
            [] ending = <<>> /\ ~automatic ->
                 /\ wifiOperation' = SettledOperation
                 /\ scan' = seen
                 /\ UNCHANGED <<wifiCalls, nextOperationGeneration, wifiEvents>>
            [] ending = <<>> /\ automatic ->
                 /\ wifiOperation' =
                      BeginWifiOperation(SettledOperation, "scanning", nextOperationGeneration)
                 /\ scan' = [seen EXCEPT !.start = seen.last]
                 /\ nextOperationGeneration' = nextOperationGeneration + 1
                 /\ Counted
                 /\ wifiCalls' = wifiCalls \cup Calls("scanning", nextOperationGeneration, NoNetwork)
    /\ UNCHANGED <<networkOwner, wifiInterest, wifiEnvironment>>

OnNetworkSignal ==
    /\ networkOwner # NoOwner /\ ~networkRefreshScheduled
    /\ networkRefreshScheduled' = TRUE
    /\ UNCHANGED <<networkOwner, wifiShown, wifiHidden, wifiCalls, wifiEnvironment, wifiEvents>>

OnNetworkOwnerChanged ==
    /\ nmOwner # networkOwner
    /\ networkOwner' = nmOwner
    /\ networkRefreshScheduled' = (nmOwner # NoOwner)
    /\ wifi' = NoAdapter
    /\ ClearWifiManagerState(IF nmOwner = NoOwner THEN "unavailable" ELSE "none")
    /\ UNCHANGED <<wifiCalls, wifiEnvironment, wifiEvents>>


OnWifiRequestTimeout ==
    /\ wifi.timer
    /\ FailRequest("timeout")
    /\ UNCHANGED <<networkOwner, networkRefreshScheduled, wifiNetworks, wifiHidden, wifiCalls,
                   wifiEnvironment, wifiEvents>>

OnWifiOperationTimeout ==
    /\ wifiOperation.timer
    /\ wifiOperation' = FinishWifiOperation(wifiOperation, "timeout", "none")
    /\ UNCHANGED <<networkOwner, networkRefreshScheduled, wifi, wifiNetworks, wifiHidden, wifiCalls,
                   wifiEnvironment, wifiEvents>>

-----------------------------------------------------------------------------
(* Commands.  A handler that returns without a word leaves the state alone. *)
(* Opening the page does not count against the bound.                       *)

Operable == wifi.available /\ wifi.enabled
Replaced(op) == IF op.kind = "scanning"
                THEN [op EXCEPT !.kind = "idle", !.failure = "none", !.result = "replaced",
                                !.timer = FALSE]
                ELSE op

Reject(id, failure) ==
    /\ wifi' = RejectRequest(wifi, id, failure)
    /\ UNCHANGED <<wifiOperation, wifiNetworks, scan, wifiCalls>>

SwitchRadio(id, enabled) ==
    /\ wifiOperation' = BeginWifiOperation(Replaced(wifiOperation), "radio", id)
    /\ wifi' = [wifi EXCEPT !.pending = TRUE, !.target = enabled, !.requestId = id,
                            !.failure = "none", !.timer = TRUE]
    /\ wifiNetworks' = IF enabled THEN wifiNetworks ELSE <<>>
    /\ UNCHANGED scan
    /\ wifiCalls' = wifiCalls \cup Calls("radio", id, enabled)

RequestWifi(id, enabled) ==
    /\ CASE ~wifi.available -> Reject(id, "unavailable")
         [] wifi.available /\ ~wifi.hardware -> Reject(id, "hardware")
         [] wifi.available /\ wifi.hardware /\ ~wifi.pending /\ wifi.enabled = enabled ->
              /\ wifi' = [wifi EXCEPT !.requestId = id, !.failure = "none"]
              /\ UNCHANGED <<wifiOperation, wifiNetworks, scan, wifiCalls>>
         [] /\ wifi.available /\ wifi.hardware /\ ~wifi.pending /\ wifi.enabled # enabled
            /\ wifiOperation.kind \in {"idle", "scanning"} -> SwitchRadio(id, enabled)
         [] OTHER -> UNCHANGED <<wifi, wifiOperation, wifiNetworks, scan, wifiCalls>>
    /\ UNCHANGED <<networkNames, wifiInterest, networkRefreshScheduled>>

SetWifiInterest(id, interested) ==
    /\ wifiInterest' = interested
    /\ networkRefreshScheduled' = (networkRefreshScheduled \/ (interested /\ networkOwner # NoOwner))
    /\ wifiOperation' =
         IF ~interested /\ wifiOperation.kind = "scanning"
         THEN [FinishWifiOperation(wifiOperation, "none", "cancelled") EXCEPT !.generation = id]
         ELSE wifiOperation
    /\ UNCHANGED <<wifi, wifiNetworks, networkNames, scan, wifiCalls>>

(* A command that cannot run takes over the number of the one that does.    *)
Overwritten(id, failure) ==
    wifiOperation' = [wifiOperation EXCEPT !.generation = id, !.failure = failure, !.result = "none"]

RequestScan(id) ==
    /\ UNCHANGED <<wifi, wifiNetworks, networkNames, wifiInterest, networkRefreshScheduled>>
    /\ \/ /\ wifiInterest /\ Operable /\ scan.manual
          /\ Overwritten(id, "cooldown") /\ UNCHANGED <<scan, wifiCalls>>
       \/ /\ wifiInterest /\ Operable /\ Idle
          /\ wifiOperation' = BeginWifiOperation(wifiOperation, "scanning", id)
          /\ scan' = [scan EXCEPT !.start = scan.last, !.manual = TRUE]
          /\ wifiCalls' = wifiCalls \cup Calls("scanning", id, NoNetwork)
       \/ /\ ~(wifiInterest /\ Operable /\ Idle)
          /\ UNCHANGED <<wifiOperation, scan, wifiCalls>>

PrepareConnection == wifiInterest /\ Operable /\ ~wifi.pending /\ Replaced(wifiOperation).kind = "idle"

DispatchConnection(id, n, token) ==
    IF PrepareConnection
    THEN /\ wifiOperation' = [BeginWifiOperation(Replaced(wifiOperation), "connecting", id)
                                EXCEPT !.target = token]
         /\ wifiCalls' = wifiCalls \cup Calls("connecting", id, n)
    ELSE UNCHANGED <<wifiOperation, wifiCalls>>

Shown(token) == {n \in DOMAIN wifiNetworks : wifiNetworks[n].token = token}

RequestVisibleConnection(id, token) ==
    /\ UNCHANGED <<wifi, wifiNetworks, networkNames, scan, wifiInterest, networkRefreshScheduled>>
    /\ \/ \E n \in Shown(token) : DispatchConnection(id, n, token)
       \/ /\ \A n \in Shown(token) : ~wifiNetworks[n].saved
          /\ Overwritten(id, "invalid") /\ UNCHANGED wifiCalls

RequestHiddenConnection(id, n) ==
    /\ UNCHANGED <<wifi, wifiNetworks, scan, wifiInterest, networkRefreshScheduled>>
    /\ \/ TakeTokens({n}) /\ DispatchConnection(id, n, TokensFor({n})[n])
       \/ Overwritten(id, "invalid")
          /\ UNCHANGED <<networkNames, wifiCalls>>

RequestDisconnect(id) ==
    /\ IF Operable /\ Current # {} /\ Idle /\ ~wifi.pending
       THEN /\ wifiOperation' = BeginWifiOperation(wifiOperation, "disconnecting", id)
            /\ wifiCalls' = wifiCalls \cup Calls("disconnecting", id, NoNetwork)
       ELSE UNCHANGED <<wifiOperation, wifiCalls>>
    /\ UNCHANGED <<wifi, wifiNetworks, networkNames, scan, wifiInterest, networkRefreshScheduled>>

RequestForget(id, token) ==
    /\ IF Idle /\ ~wifi.pending /\ \E n \in Shown(token) : wifiNetworks[n].saved
       THEN \E n \in Shown(token) :
              /\ wifiOperation' = [BeginWifiOperation(wifiOperation, "forgetting", id)
                                     EXCEPT !.target = token]
              /\ wifiCalls' = wifiCalls \cup Calls("forgetting", id, n)
       ELSE UNCHANGED <<wifiOperation, wifiCalls>>
    /\ UNCHANGED <<wifi, wifiNetworks, networkNames, scan, wifiInterest, networkRefreshScheduled>>

HandleWifiCommand ==
    /\ Counted
    /\ UNCHANGED <<networkOwner, nextOperationGeneration, wifiEnvironment>>
    /\ LET id == wifiEvents' IN
       \/ \E on \in BOOLEAN : RequestWifi(id, on)
       \/ SetWifiInterest(id, FALSE)
       \/ RequestScan(id)
       \/ RequestDisconnect(id)
       \/ \E token \in 1..Cardinality(Networks) :
             RequestVisibleConnection(id, token) \/ RequestForget(id, token)
       \/ \E n \in Networks : RequestHiddenConnection(id, n)

OpenWifiPage ==
    /\ ~wifiInterest /\ SetWifiInterest(wifiEvents, TRUE)
    /\ UNCHANGED <<networkOwner, nextOperationGeneration, wifiEnvironment, wifiEvents>>

-----------------------------------------------------------------------------
(* Replies.  Only the call of the operation that still runs is listened to. *)

Awaits(c) ==
    /\ networkOwner = c.owner
    /\ IF c.kind = "radio"
       THEN wifi.pending /\ wifi.requestId = c.generation
       ELSE wifiOperation.kind = c.kind /\ wifiOperation.generation = c.generation

CallFails(c, failure) ==
    /\ wifiCalls' = wifiCalls \ {c}
    /\ CASE Awaits(c) /\ c.kind = "radio" -> FailRequest(failure)
         [] Awaits(c) /\ c.kind # "radio" ->
              wifiOperation' = FinishWifiOperation(wifiOperation, failure, "none") /\ UNCHANGED wifi
         [] OTHER -> UNCHANGED <<wifi, wifiOperation>>
    /\ UNCHANGED <<networkOwner, networkRefreshScheduled, wifiNetworks, wifiHidden, wifiEnvironment,
                   wifiEvents>>

CallSucceeds(c) ==
    /\ c.phase = "done"
    /\ wifiCalls' = wifiCalls \ {c}
    /\ IF Awaits(c) /\ c.kind = "forgetting"
       THEN /\ wifiNetworks' = [n \in DOMAIN wifiNetworks |->
                    [wifiNetworks[n] EXCEPT !.saved = @ /\ n \notin Shown(wifiOperation.target)]]
            /\ wifiOperation' = FinishWifiOperation(wifiOperation, "none", "forgotten")
       ELSE UNCHANGED <<wifiNetworks, wifiOperation>>
    /\ networkRefreshScheduled' = (networkRefreshScheduled \/ (Awaits(c) /\ c.kind # "scanning"))
    /\ UNCHANGED <<networkOwner, wifi, wifiHidden, wifiEnvironment, wifiEvents>>

-----------------------------------------------------------------------------
(* NetworkManager.                                                          *)

NetworkPerforms(c) ==
    /\ c.phase = "sent" /\ c.owner = nmOwner /\ nm.device
    /\ wifiCalls' = (wifiCalls \ {c}) \cup {[c EXCEPT !.phase = "done"]}
    /\ nm' = CASE c.kind = "radio" /\ c.what -> [nm EXCEPT !.wireless = TRUE]
              [] (c.kind = "radio" /\ ~c.what) \/ c.kind = "disconnecting" ->
                   [nm EXCEPT !.wireless = (c.kind = "disconnecting") /\ @, !.active = NoNetwork,
                              !.wanted = NoNetwork, !.state = "idle"]
              [] c.kind = "scanning" -> [nm EXCEPT !.scan = @ + 1]
              [] c.kind = "connecting" -> [nm EXCEPT !.wanted = c.what, !.active = NoNetwork,
                                                     !.state = "preparing"]
              [] c.kind = "forgetting" -> [nm EXCEPT !.saved = @ \ {c.what}]
    /\ UNCHANGED <<networkOwner, networkRefreshScheduled, wifiShown, wifiHidden, nmOwner,
                   wifiEvents>>

NetworkConnects ==
    /\ nm.wanted # NoNetwork /\ nm.device
    /\ nm' \in {[nm EXCEPT !.active = nm.wanted, !.wanted = NoNetwork, !.state = "activated", !.saved = @ \cup {nm.wanted}],
                [nm EXCEPT !.wanted = NoNetwork, !.state = "failed"]}
    /\ UNCHANGED <<networkOwner, networkRefreshScheduled, wifiShown, wifiHidden, wifiCalls, nmOwner,
                   wifiEvents>>

(* Roaming, a switch, a removed device, an access point out of range.       *)
NetworkChanges ==
    /\ Counted
    /\ nm' \in {[nm EXCEPT !.active = n, !.wanted = NoNetwork, !.state = "activated"] : n \in Networks}
            \cup {[nm EXCEPT !.hardware = ~@, !.wireless = FALSE, !.active = NoNetwork,
                           !.wanted = NoNetwork, !.state = "idle"],
                  [nm EXCEPT !.device = ~@, !.active = NoNetwork, !.wanted = NoNetwork,
                           !.state = "idle"]}
    /\ UNCHANGED <<networkOwner, networkRefreshScheduled, wifiShown, wifiHidden, wifiCalls, nmOwner>>

NetworkOwnerChanges ==
    /\ nmOwner = networkOwner
    /\ Counted
    /\ nmOwner' \in {NoOwner, wifiEvents' + 1} \ {nmOwner}
    /\ nm' = [nm EXCEPT !.wanted = NoNetwork]
    /\ UNCHANGED <<networkOwner, networkRefreshScheduled, wifiShown, wifiHidden, wifiCalls>>

WifiNext ==
    \/ HandleWifiCommand \/ OpenWifiPage
    \/ OnNetworkSignal \/ OnNetworkOwnerChanged
    \/ NetworkSnapshotFails \/ NetworkSnapshotDropped
    \/ RefreshWithoutDevice \/ RefreshRadioOff
    \/ \E read \in Readings, aged \in BOOLEAN : RefreshNetwork(read, aged)
    \/ OnWifiRequestTimeout \/ OnWifiOperationTimeout
    \/ \E c \in wifiCalls :
          CallFails(c, "backend") \/ CallSucceeds(c) \/ NetworkPerforms(c)
    \/ NetworkConnects \/ NetworkChanges \/ NetworkOwnerChanges

WifiSpec == WifiInit /\ [][WifiNext]_wifiVars

-----------------------------------------------------------------------------
(* Whatever is asked of NetworkManager, something will end it.              *)
WifiTimersArmed ==
    /\ wifi.pending => wifi.timer
    /\ ~Idle => wifiOperation.timer

(* From one taking back of the tokens to the next, a token never stands for *)
(* two networks, and the list shows tokens given since the last one only:   *)
(* the shell may act on a list it was shown earlier.                        *)
TokensNameOne ==
    /\ \A s, t \in named : s[1] = t[1] /\ s[2] = t[2] => s = t
    /\ \A n \in DOMAIN wifiNetworks : <<networkNumbering, wifiNetworks[n].token, n>> \in named

(* A snapshot that could not read the access points, or which one is in use.*)
Misread ==
    \E read \in Readings, aged \in BOOLEAN :
        (read.listed => read.active # nm.active) /\ RefreshNetwork(read, aged)

(* Success is said of what NetworkManager has: the network the command named*)
(* is in use, nothing is in use (unless that could not be read), the profile*)
(* was deleted, the radio is as asked.  And a reply that ends an operation  *)
(* is about the network the operation names.                                *)
WifiEnds == wifiOperation.kind # "idle" /\ wifiOperation'.kind = "idle"
Answered == wifiCalls \ wifiCalls'
Names(token, n) == <<networkNumbering, token, n>> \in named'
WifiIsReal ==
    [][WifiEnds =>
        /\ wifiOperation'.result = "connected" => Names(wifiOperation.target, nm.active)
        /\ wifiOperation'.result = "disconnected" => nm.active = NoNetwork \/ Misread
        /\ wifiOperation'.result = "forgotten" =>
              \E c \in Answered : c.kind = "forgetting" /\ c.phase = "done"
        /\ wifiOperation'.result = "radio-updated" => nm.device /\ nm.wireless = wifi.target
        /\ \A c \in Answered :
              c.kind \in {"connecting", "forgetting"} => Names(wifiOperation.target, c.what)]_wifiVars

(* The radio scans for the page only while it is open.                      *)
ScanNeedsPage == wifiOperation.kind = "scanning" => wifiInterest

WifiSettled == Idle /\ ~wifi.pending
WifiFairness == WF_wifiVars(OnWifiRequestTimeout) /\ WF_wifiVars(OnWifiOperationTimeout)
=============================================================================
