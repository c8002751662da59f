-------------------------- MODULE ConnectivityProofs --------------------------
(***************************************************************************)
(* The two halves of the connectivity helper, for any networks, adapters,  *)
(* devices and bounds, and for any order of the shell's commands, the      *)
(* services' answers, signals and restarts, timers and agent calls.        *)
(*                                                                         *)
(* Wi-Fi (RadioSound, TokensSound): a request or operation has its timer,  *)
(* a scan its page, and a network one token in each numbering that no      *)
(* other network has in it.  A success that is reported follows from what  *)
(* the values hold that the reply was compared with (WifiMeaning).         *)
(*                                                                         *)
(* Bluetooth.  A device in the list has a token that was given, in this    *)
(* numbering, to it and to nothing else (DevicesSound); the operation is   *)
(* on a token that was given (TargetNamed) and beside no discovery         *)
(* (SearchSound).  What a reply may say of a device rests on owners and    *)
(* numbers (CallSound): a call belongs to an instance of BlueZ that has    *)
(* run; only the present one can be pairing for us, and the device it      *)
(* pairs is that of the call that runs, so a Pair that was answered well   *)
(* has paired its device; and numbers are not used twice, so a reply that  *)
(* is listened to is about the device that the operation named.  What      *)
(* BlueZ searches on is a state of its own: it is on the discovery of the  *)
(* helper, or it went astray in a step that the model names                *)
(* (SearchMeaning).                                                        *)
(***************************************************************************)
EXTENDS WifiManager, BluetoothManager, Foundations

WifiBounds == IsFiniteSet(Networks) /\ Networks # {} /\ NoNetwork \notin Networks

WifiFailures ==
    {"none", "backend", "unavailable", "hardware", "timeout", "cooldown", "invalid"}
WifiResults ==
    {"none", "radio-updated", "cancelled", "scan-complete", "connected", "disconnected",
     "forgotten", "replaced"}
Claims == {"radio-updated", "connected", "disconnected", "forgotten"}
Radios ==
    [available : BOOLEAN, hardware : BOOLEAN, enabled : BOOLEAN, pending : BOOLEAN,
     target : BOOLEAN, requestId : Nat, failure : WifiFailures, timer : BOOLEAN]
WifiOperations ==
    [kind : {"idle", "radio", "scanning", "connecting", "disconnecting", "forgetting"},
     generation : Nat, target : Nat, failure : WifiFailures, result : WifiResults,
     timer : BOOLEAN]
Listings == [token : Nat, connected : BOOLEAN, saved : BOOLEAN]
Scans == [last : Int, start : Int, manual : BOOLEAN]
Phases == {"sent", "running", "done", "failed"}
WifiCallsOf(kinds, what) ==
    [kind : kinds, generation : Nat, what : what, owner : Nat, phase : Phases]
WifiCallKinds ==
    WifiCallsOf({"radio"}, BOOLEAN) \cup WifiCallsOf({"connecting", "forgetting"}, Networks)
    \cup WifiCallsOf({"scanning", "disconnecting"}, {NoNetwork})
Managers ==
    [wireless : BOOLEAN, hardware : BOOLEAN, device : BOOLEAN, saved : SUBSET Networks,
     active : Networks \cup {NoNetwork}, wanted : Networks \cup {NoNetwork},
     state : {"idle", "preparing", "activated", "failed"}, scan : Int]

(* The radio and the operation.                                             *)
RadioSound ==
    /\ wifi \in Radios /\ wifiOperation \in WifiOperations /\ wifiInterest \in BOOLEAN
    /\ WifiTimersArmed /\ ScanNeedsPage

TokensSound ==
    /\ nextNetworkToken \in Nat \ {0} /\ networkNumbering \in Nat
    /\ networkTokens \in Partial(Networks, 1..(nextNetworkToken - 1))
    /\ \A m, n \in DOMAIN networkTokens : networkTokens[m] = networkTokens[n] => m = n
    /\ \A s, t \in named : s[1] = t[1] /\ s[2] = t[2] => s = t
    /\ \A s \in named :
          /\ s[1] \in Nat /\ s[1] <= networkNumbering
          /\ s[1] = networkNumbering =>
                \E n \in DOMAIN networkTokens : s = <<networkNumbering, networkTokens[n], n>>

ListSound == wifiNetworks \in Partial(Networks, Listings)
ServiceSound == nm \in Managers /\ wifiCalls \subseteq WifiCallKinds
CountsSound ==
    /\ networkOwner \in Nat /\ nmOwner \in Nat /\ wifiEvents \in Nat
    /\ nextOperationGeneration \in Nat /\ scan \in Scans /\ networkRefreshScheduled \in BOOLEAN

WifiInv == RadioSound /\ TokensSound /\ ListSound /\ ServiceSound /\ CountsSound

-----------------------------------------------------------------------------
BluetoothBounds ==
    /\ IsFiniteSet(Devices) /\ Devices # {} /\ NoDevice \notin Devices
    /\ IsFiniteSet(Adapters) /\ MaxBluetoothEvents \in Nat

PowerFailures == {"none", "backend", "unavailable", "timeout"}
Powers ==
    [available : BOOLEAN, enabled : BOOLEAN, pending : BOOLEAN, target : BOOLEAN,
     requestId : Nat, failure : PowerFailures, timer : BOOLEAN, calls : Int, failed : BOOLEAN]
OnDevice == {"pairing", "connecting", "disconnecting", "unpairing"}
Outcomes ==
    {"none", "cancelled", "stopped", "expired", "replaced", "backend", "connected",
     "disconnected", "unpaired", "paired", "paired-connected"}
BluetoothOperations ==
    [kind : OnDevice \cup {"idle", "discovering"}, generation : Nat, target : Nat,
     failure : {"none", "unavailable", "backend", "cancelled", "rejected", "connection-failed",
                "trust-failed"},
     result : Outcomes, prompt : {"none", "ask", "display"}]
Discoveries == [active : BOOLEAN, adapters : SUBSET Adapters, timer : BOOLEAN]
Remotes == [token : Nat, paired : BOOLEAN, connected : BOOLEAN, seen : BOOLEAN]
Pairs == [paired : BOOLEAN, connected : BOOLEAN]
Daemons ==
    [powered : Partial(Adapters, BOOLEAN), devices : Partial(Devices, Pairs),
     pairing : Devices \cup {NoDevice}, asked : BOOLEAN, cancels : BOOLEAN]
BluetoothCallsOf(kinds, targets) ==
    [kind : kinds, generation : Nat, device : targets, on : BOOLEAN, owner : Nat, phase : Phases]
DeviceCalls == BluetoothCallsOf(OnDevice \cup {"pair-connect", "cancel"}, Devices)
BluetoothCallKinds == DeviceCalls \cup BluetoothCallsOf({"power"}, Adapters)

PowerSound == bluetooth \in Powers /\ (bluetooth.pending => bluetooth.timer)

SearchSound ==
    /\ discovery \in Discoveries /\ (discovery.active => discovery.timer)
    /\ bluetoothOperation \in BluetoothOperations
    /\ discovery.active => bluetoothInterest /\ bluetoothOperation.kind \in {"discovering", "idle"}
    /\ pendingAgentReply \in Devices \cup {NoDevice}
    /\ PromptIsPairing
TargetNamed ==
    bluetoothOperation.kind \in OnDevice =>
        \E d \in Devices : <<deviceNumbering, bluetoothOperation.target, d>> \in deviceNamed

DevicesSound ==
    /\ nextDeviceToken \in Nat \ {0} /\ deviceNumbering \in Nat
    /\ devices \in Partial(Devices, Remotes)
    /\ deviceNamed \subseteq (0..deviceNumbering) \X Nat \X Devices
    /\ \A s \in deviceNamed : s[1] = deviceNumbering => s[2] \in 1..(nextDeviceToken - 1)
    /\ DeviceTokensNameOne

BluezSound ==
    /\ bluez \in Daemons /\ everPaired \subseteq Devices
    /\ adapters \in Partial(Adapters, BOOLEAN)

(* Without a service nothing is on, runs, or is asked of it.                *)
Dormant ==
    bluezOwner = 0 =>
        /\ ~bluetooth.available /\ ~bluetooth.enabled /\ ~bluezRefreshScheduled
        /\ bluetoothOperation.kind = "idle"

OwnersSound ==
    /\ bluetoothEvents \in Nat /\ bluetoothScans \in Nat
    /\ bluezOwner \in 0..(bluetoothEvents + 1) /\ busName \in 0..(bluetoothEvents + 1)
    /\ bluez.pairing # NoDevice => busName = bluezOwner

Awaiting(c) == IF c.kind = "pair-connect" THEN "pairing" ELSE c.kind
CallSound(c) ==
    /\ c.owner \in 1..(bluetoothEvents + 1) /\ c.generation <= bluetoothEvents
    /\ c.owner = busName => bluezOwner = busName
    /\ c.phase = "running" /\ c.owner = busName => bluez.pairing = c.device
    /\ c.phase = "running" => c.kind = "pairing"
    /\ c.kind = "pairing" /\ c.phase = "done" /\ c.owner = bluezOwner => c.device \in everPaired
    /\ c.kind = "pair-connect" => c.device \in everPaired
    /\ /\ c.kind \in OnDevice \cup {"pair-connect"} /\ c.owner = bluezOwner
       /\ bluetoothOperation.kind = Awaiting(c) /\ bluetoothOperation.generation = c.generation
       => <<deviceNumbering, bluetoothOperation.target, c.device>> \in deviceNamed
CallsSound == \A c \in bluetoothCalls : c \in BluetoothCallKinds /\ CallSound(c)

FlagsSound ==
    {bluezRefreshScheduled, agentRegistered, expiryTimer, bluetoothInterest} \subseteq BOOLEAN

BluetoothInv ==
    /\ PowerSound /\ SearchSound /\ TargetNamed /\ DevicesSound /\ BluezSound /\ Dormant
    /\ OwnersSound /\ CallsSound /\ FlagsSound
-----------------------------------------------------------------------------
(* Wi-Fi: the values that the helpers return.                               *)

Radio(w) == w \in Radios /\ (w.pending => w.timer)

(* What may follow the operation of this moment, unless a snapshot ends it. *)
Follows(op, interest) ==
    /\ op \in WifiOperations
    /\ op.kind # "idle" => op.timer
    /\ op.kind = "scanning" => interest
    /\ wifiOperation.kind # "idle" /\ op.kind = "idle" /\ op.result \in Claims =>
          op.result = "radio-updated" /\ nm.device /\ nm.wireless = wifi.target

(* What WifiIsReal asks of the result.                                      *)
SuccessStep ==
    WifiEnds =>
        /\ wifiOperation'.result = "connected" => Names(wifiOperation.target, nm.active)
        /\ wifiOperation'.result = "disconnected" => nm.active = NoNetwork \/ Misread
        /\ wifiOperation'.result = "forgotten" =>
              \E c \in Answered : c.kind = "forgetting" /\ c.phase = "done"
        /\ wifiOperation'.result = "radio-updated" => nm.device /\ nm.wireless = wifi.target

LEMMA RadioIs ==
    ASSUME RadioSound
    PROVE  /\ wifi \in Radios /\ wifiOperation \in WifiOperations /\ wifiInterest \in BOOLEAN
           /\ Radio(wifi) /\ Follows(wifiOperation, wifiInterest)
  BY DEF RadioSound, Radio, Follows, WifiTimersArmed, ScanNeedsPage, Idle

LEMMA WifiFinished ==
    ASSUME NEW op \in WifiOperations, NEW failure \in WifiFailures, NEW result \in WifiResults
    PROVE  /\ FinishWifiOperation(op, failure, result) \in WifiOperations
           /\ FinishWifiOperation(op, failure, result).kind = "idle"
           /\ FinishWifiOperation(op, failure, result).result = result
  BY DEF FinishWifiOperation, WifiOperations, NoToken

LEMMA FinishedFollows ==
    ASSUME NEW op \in WifiOperations, NEW failure \in WifiFailures,
           NEW result \in WifiResults \ Claims, NEW interest
    PROVE  Follows(FinishWifiOperation(op, failure, result), interest)
  BY WifiFinished DEF Follows

LEMMA WifiBegun ==
    ASSUME NEW op \in WifiOperations, NEW generation \in Nat,
           NEW kind \in {"radio", "scanning", "connecting", "disconnecting", "forgetting"},
           NEW interest, kind = "scanning" => interest
    PROVE  /\ BeginWifiOperation(op, kind, generation) \in WifiOperations
           /\ Follows(BeginWifiOperation(op, kind, generation), interest)
           /\ \A token \in Nat :
                 Follows([BeginWifiOperation(op, kind, generation) EXCEPT !.target = token], interest)
  <1>1. /\ BeginWifiOperation(op, kind, generation) \in WifiOperations
        /\ BeginWifiOperation(op, kind, generation).kind = kind
        /\ BeginWifiOperation(op, kind, generation).timer = TRUE
    BY DEF BeginWifiOperation, WifiOperations, NoToken, WifiFailures, WifiResults
  <1>2. PICK b \in WifiOperations : b = BeginWifiOperation(op, kind, generation)
    BY <1>1
  <1>3. \A token \in Nat : /\ [b EXCEPT !.target = token] \in WifiOperations
                           /\ [b EXCEPT !.target = token].kind = b.kind
                           /\ [b EXCEPT !.target = token].timer = b.timer
    BY DEF WifiOperations
  <1> QED  BY <1>1, <1>2, <1>3 DEF Follows

LEMMA ReplacedIs ==
    ASSUME NEW op \in WifiOperations
    PROVE  Replaced(op) \in WifiOperations
  BY DEF Replaced, WifiOperations, WifiFailures, WifiResults

LEMMA OverwrittenFollows ==
    ASSUME RadioSound, NEW id \in Nat, NEW failure \in WifiFailures, Overwritten(id, failure)
    PROVE  Follows(wifiOperation', wifiInterest)
  <1>1. wifiOperation \in WifiOperations /\ Follows(wifiOperation, wifiInterest)
    BY RadioIs
  <1>2. /\ wifiOperation' \in WifiOperations /\ wifiOperation'.kind = wifiOperation.kind
        /\ wifiOperation'.timer = wifiOperation.timer
    BY <1>1 DEF Overwritten, WifiOperations, WifiResults
  <1> QED  BY <1>1, <1>2 DEF Follows

LEMMA FailedRequest ==
    ASSUME RadioSound, NEW failure \in WifiFailures, FailRequest(failure)
    PROVE  Radio(wifi') /\ Follows(wifiOperation', wifiInterest)
  <1>1. wifi \in Radios /\ wifiOperation \in WifiOperations /\ Follows(wifiOperation, wifiInterest)
    BY RadioIs
  <1>2. Radio(wifi')
    BY <1>1 DEF FailRequest, Radio, Radios
  <1>3. Follows(FinishWifiOperation(wifiOperation, failure, "none"), wifiInterest)
    BY <1>1, FinishedFollows DEF WifiResults, Claims
  <1> QED  BY <1>1, <1>2, <1>3 DEF FailRequest

LEMMA ResetRadio ==
    ASSUME RadioSound, NEW failure \in WifiFailures
    PROVE  Radio(ResetUnavailable(failure)) /\ Radio(NoAdapter)
  <1>1. wifi \in Radios
    BY RadioIs
  <1> QED  BY <1>1 DEF ResetUnavailable, NoAdapter, Radio, Radios, WifiFailures

LEMMA NewCalls ==
    ASSUME CountsSound, NEW generation \in Nat
    PROVE  /\ \A on \in BOOLEAN : Calls("radio", generation, on) \subseteq WifiCallKinds
           /\ \A kind \in {"connecting", "forgetting"}, n \in Networks :
                 Calls(kind, generation, n) \subseteq WifiCallKinds
           /\ \A kind \in {"scanning", "disconnecting"} :
                 Calls(kind, generation, NoNetwork) \subseteq WifiCallKinds
  BY DEF Calls, WifiCallKinds, WifiCallsOf, Phases, CountsSound

-----------------------------------------------------------------------------
(* Tokens.                                                                  *)

LEMMA SameTokens ==
    ASSUME TokensSound, UNCHANGED networkNames
    PROVE  TokensSound'
  BY DEF TokensSound, networkNames

LEMMA NoTokens ==
    ASSUME TokensSound, ForgetTokens
    PROVE  TokensSound'
  <1>1. networkTokens' = <<>> /\ nextNetworkToken' = 1 /\ named' = named
    BY DEF ForgetTokens
  <1>2. networkTokens' \in Partial(Networks, 1..(nextNetworkToken' - 1)) /\ DOMAIN networkTokens' = {}
    BY <1>1, EmptyPartial
  <1>3. networkNumbering \in Nat
        /\ \A s \in named :
              /\ s[1] \in Nat /\ s[1] <= networkNumbering
              /\ s[1] = networkNumbering => \E n \in DOMAIN networkTokens : TRUE
    BY DEF TokensSound
  <1>4. networkNumbering' \in Nat
        /\ \A s \in named : s[1] <= networkNumbering' /\ s[1] # networkNumbering'
    <2>1. CASE networkTokens = <<>>
      <3>1. DOMAIN networkTokens = {}
        BY <2>1, EmptyPartial
      <3>2. networkNumbering' = networkNumbering
        BY <2>1 DEF ForgetTokens
      <3> QED  BY <1>3, <3>1, <3>2
    <2>2. CASE networkTokens # <<>>
      BY <1>3, <2>2 DEF ForgetTokens
    <2> QED  BY <2>1, <2>2
  <1>5. \A s, t \in named' : s[1] = t[1] /\ s[2] = t[2] => s = t
    BY <1>1 DEF TokensSound
  <1> QED  BY <1>1, <1>2, <1>3, <1>4, <1>5 DEF TokensSound

LEMMA FreshTokens ==
    ASSUME WifiBounds, TokensSound, NEW ns \in SUBSET Networks
    PROVE  LET k == Cardinality(ns \ DOMAIN networkTokens) IN
           /\ k \in Nat
           /\ DOMAIN TokensFor(ns) = DOMAIN networkTokens \cup ns
           /\ \A n \in DOMAIN networkTokens : TokensFor(ns)[n] = networkTokens[n]
           /\ \A n \in ns \ DOMAIN networkTokens :
                 TokensFor(ns)[n] \in nextNetworkToken..(nextNetworkToken + k - 1)
           /\ \A m, n \in ns \ DOMAIN networkTokens : TokensFor(ns)[m] = TokensFor(ns)[n] => m = n
  <1> DEFINE S == ns \ DOMAIN networkTokens
             k == Cardinality(S)
             new == SetToSeq(S)
  <1>1. IsFiniteSet(S)
    BY FS_Subset DEF WifiBounds
  <1>2. new \in [1..k -> S] /\ IsInjective(new)
    <2>1. \E f \in [1..k -> S] : IsInjective(f)
      BY <1>1, Enumerable
    <2> QED  BY <2>1 DEF SetToSeq
  <1> HIDE DEF new, S
  <1>3. /\ k \in Nat /\ \A x \in S : \E i \in DOMAIN new : new[i] = x
        /\ DOMAIN new = 1..k
    BY <1>1, <1>2, EnumeratesAll
  <1>4. nextNetworkToken \in Nat \ {0}
    BY DEF TokensSound
  <1> DEFINE at(n) == CHOOSE i \in DOMAIN new : new[i] = n
  <1>5. \A n \in S : at(n) \in 1..k /\ new[at(n)] = n
    BY <1>3
  <1>6. TokensFor(ns) = [n \in DOMAIN networkTokens \cup ns |->
                           IF n \in DOMAIN networkTokens THEN networkTokens[n]
                           ELSE nextNetworkToken - 1 + at(n)]
    BY DEF TokensFor, new, S
  <1> HIDE DEF at
  <1>7. \A n \in S : n \in ns /\ n \notin DOMAIN networkTokens
    BY DEF S
  <1>8. \A n \in S : TokensFor(ns)[n] = nextNetworkToken - 1 + at(n)
    BY <1>6, <1>7
  <1>9. \A n \in S : TokensFor(ns)[n] \in nextNetworkToken..(nextNetworkToken + k - 1)
    BY <1>3, <1>4, <1>5, <1>8
  <1>10. \A m, n \in S : TokensFor(ns)[m] = TokensFor(ns)[n] => m = n
    <2> TAKE m \in S, n \in S
    <2>1. at(m) \in Nat /\ at(n) \in Nat
      BY <1>3, <1>5
    <2>2. TokensFor(ns)[m] = TokensFor(ns)[n] => at(m) = at(n)
      BY <1>4, <1>8, <2>1
    <2> QED  BY <1>5, <2>2
  <1> HIDE DEF k
  <1>11. /\ DOMAIN TokensFor(ns) = DOMAIN networkTokens \cup ns
         /\ \A n \in DOMAIN networkTokens : TokensFor(ns)[n] = networkTokens[n]
    BY <1>6
  <1> QED  BY <1>3, <1>9, <1>10, <1>11 DEF S, k

LEMMA TakenTokens ==
    ASSUME WifiBounds, TokensSound, NEW ns \in SUBSET Networks, TakeTokens(ns)
    PROVE  /\ TokensSound'
           /\ \A n \in ns : networkTokens'[n] \in Nat /\ Names(networkTokens'[n], n)
           /\ named \subseteq named' /\ networkNumbering' = networkNumbering
  <1> DEFINE k == Cardinality(ns \ DOMAIN networkTokens)
             old == DOMAIN networkTokens
             t == networkTokens'
  <1>1. /\ k \in Nat /\ DOMAIN t = old \cup ns
        /\ \A n \in old : t[n] = networkTokens[n]
        /\ \A n \in ns \ old : t[n] \in nextNetworkToken..(nextNetworkToken + k - 1)
        /\ \A m, n \in ns \ old : t[m] = t[n] => m = n
    BY FreshTokens DEF TakeTokens
  <1>2. nextNetworkToken \in Nat \ {0} /\ nextNetworkToken' = nextNetworkToken + k
    BY DEF TokensSound, TakeTokens
  <1>3. /\ old \in SUBSET Networks /\ \A n \in old : networkTokens[n] \in 1..(nextNetworkToken - 1)
    BY PartialParts DEF TokensSound
  <1>4. /\ named' = named \cup {<<networkNumbering, t[n], n>> : n \in ns}
        /\ networkNumbering' = networkNumbering /\ networkNumbering \in Nat
    BY DEF TakeTokens, TokensSound
  <1>5. t = TokensFor(ns)
    BY DEF TakeTokens
  <1>6. t = [n \in DOMAIN t |-> t[n]]
    BY <1>5 DEF TokensFor
  <1> HIDE DEF k, t
  <1>7. \A n \in DOMAIN t : t[n] \in 1..(nextNetworkToken' - 1)
    <2> TAKE n \in DOMAIN t
    <2>1. CASE n \in old
      BY <1>1, <1>2, <1>3, <2>1
    <2>2. CASE n \in ns \ old
      BY <1>1, <1>2, <2>2
    <2> QED  BY <1>1, <2>1, <2>2
  <1>8. DOMAIN t \in SUBSET Networks
    BY <1>1, <1>3
  <1>9. t \in Partial(Networks, 1..(nextNetworkToken' - 1))
    <2>1. t \in [DOMAIN t -> 1..(nextNetworkToken' - 1)]
      BY <1>6, <1>7
    <2> QED  BY <1>8, <2>1, IsPartial
  <1>10. \A m, n \in DOMAIN t : t[m] = t[n] => m = n
    <2> TAKE m \in DOMAIN t, n \in DOMAIN t
    <2>1. CASE m \in old /\ n \in old
      BY <1>1, <2>1 DEF TokensSound
    <2>2. CASE m \in old /\ n \in ns \ old
      BY <1>1, <1>2, <1>3, <2>2
    <2>3. CASE m \in ns \ old /\ n \in old
      BY <1>1, <1>2, <1>3, <2>3
    <2>4. CASE m \in ns \ old /\ n \in ns \ old
      BY <1>1, <2>4
    <2> QED  BY <1>1, <2>1, <2>2, <2>3, <2>4
  <1>11. \A s \in named' :
            /\ s[1] \in Nat /\ s[1] <= networkNumbering
            /\ s[1] = networkNumbering => \E n \in DOMAIN t : s = <<networkNumbering, t[n], n>>
    <2> TAKE s \in named'
    <2>1. CASE s \in named
      <3>1. /\ s[1] \in Nat /\ s[1] <= networkNumbering
            /\ s[1] = networkNumbering => \E n \in old : s = <<networkNumbering, networkTokens[n], n>>
        BY <2>1 DEF TokensSound
      <3> QED  BY <1>1, <3>1
    <2>2. CASE s \in {<<networkNumbering, t[n], n>> : n \in ns}
      BY <1>1, <1>4, <2>2
    <2> QED  BY <1>4, <2>1, <2>2
  <1>12. \A s, u \in named' : s[1] = u[1] /\ s[2] = u[2] => s = u
    <2> SUFFICES ASSUME NEW s \in named', NEW u \in named', s[1] = u[1], s[2] = u[2]
                 PROVE  s = u
      OBVIOUS
    <2>1. CASE s[1] = networkNumbering
      <3>1. PICK m \in DOMAIN t : s = <<networkNumbering, t[m], m>>
        BY <1>11, <2>1
      <3>2. PICK n \in DOMAIN t : u = <<networkNumbering, t[n], n>>
        BY <1>11, <2>1
      <3> QED  BY <1>10, <3>1, <3>2
    <2>2. CASE s[1] # networkNumbering
      <3>1. \A v \in {<<networkNumbering, t[n], n>> : n \in ns} : v[1] = networkNumbering
        OBVIOUS
      <3>2. s \in named /\ u \in named
        BY <1>4, <2>2, <3>1
      <3> QED  BY <3>2 DEF TokensSound
    <2> QED  BY <2>1, <2>2
  <1>13. nextNetworkToken' \in Nat \ {0}
    BY <1>1, <1>2
  <1>14. TokensSound'
    BY <1>4, <1>9, <1>10, <1>11, <1>12, <1>13 DEF TokensSound, t
  <1>15. \A n \in ns : t[n] \in Nat /\ <<networkNumbering, t[n], n>> \in named'
    BY <1>1, <1>4, <1>7, <1>13
  <1> QED  BY <1>4, <1>14, <1>15 DEF t, Names

-----------------------------------------------------------------------------
(* Wi-Fi: what the steps leave alone.                                       *)

LEMMA SameList == ASSUME ListSound, UNCHANGED wifiNetworks PROVE ListSound'
  BY DEF ListSound

LEMMA NoList == ASSUME wifiNetworks' = <<>> PROVE ListSound'
  BY EmptyPartial DEF ListSound

LEMMA SameRadio ==
    ASSUME RadioSound, UNCHANGED <<wifi, wifiOperation, wifiInterest>>
    PROVE  RadioSound' /\ SuccessStep
  BY DEF RadioSound, WifiTimersArmed, ScanNeedsPage, Idle, SuccessStep, WifiEnds

LEMMA RadioMoves ==
    ASSUME Radio(wifi'), Follows(wifiOperation', wifiInterest'), wifiInterest' \in BOOLEAN
    PROVE  RadioSound' /\ SuccessStep
  BY DEF RadioSound, Radio, Follows, WifiTimersArmed, ScanNeedsPage, Idle, SuccessStep, WifiEnds,
         Claims

LEMMA SameCounts ==
    ASSUME CountsSound,
           UNCHANGED <<networkOwner, nmOwner, wifiEvents, nextOperationGeneration, scan>>,
           networkRefreshScheduled' \in BOOLEAN
    PROVE  CountsSound'
  BY DEF CountsSound

LEMMA ClearedState ==
    ASSUME RadioSound, TokensSound, NEW failure \in WifiFailures, ClearWifiManagerState(failure)
    PROVE  /\ TokensSound' /\ ListSound' /\ scan' \in Scans
           /\ Follows(wifiOperation', wifiInterest') /\ wifiInterest' \in BOOLEAN
  <1>1. TokensSound'
    BY NoTokens DEF ClearWifiManagerState
  <1>2. ListSound'
    BY NoList DEF ClearWifiManagerState
  <1>3. scan' \in Scans
    BY DEF ClearWifiManagerState, NoScan, Scans
  <1>4. wifiOperation' \in WifiOperations /\ wifiOperation'.kind = "idle"
        /\ wifiOperation'.result = "none"
    BY DEF ClearWifiManagerState, NoOperation, WifiOperations, WifiResults, NoToken
  <1>5. wifiInterest' \in BOOLEAN
    BY DEF ClearWifiManagerState, RadioSound
  <1> QED  BY <1>1, <1>2, <1>3, <1>4, <1>5 DEF Follows, Claims

LEMMA WifiInvSplit == ASSUME WifiInv
    PROVE RadioSound /\ TokensSound /\ ListSound /\ ServiceSound /\ CountsSound
  BY DEF WifiInv

-----------------------------------------------------------------------------
(* Wi-Fi: NetworkManager's snapshots and signals, and the timers.           *)

LEMMA SnapshotFailsKeeps ==
    ASSUME WifiInv, NetworkSnapshotFails
    PROVE  WifiInv' /\ SuccessStep
  <1>0. RadioSound /\ TokensSound /\ ServiceSound /\ CountsSound
    BY WifiInvSplit
  <1>1. "backend" \in WifiFailures
    BY DEF WifiFailures
  <1>2. wifi' = ResetUnavailable("backend") /\ ClearWifiManagerState("backend")
    BY DEF NetworkSnapshotFails
  <1>3. /\ TokensSound' /\ ListSound' /\ scan' \in Scans
        /\ Follows(wifiOperation', wifiInterest') /\ wifiInterest' \in BOOLEAN
    BY <1>0, <1>1, <1>2, ClearedState
  <1>4. Radio(wifi')
    BY <1>0, <1>1, <1>2, ResetRadio
  <1>5. RadioSound' /\ SuccessStep
    BY <1>3, <1>4, RadioMoves
  <1>6. ServiceSound'
    BY <1>0 DEF ServiceSound, NetworkSnapshotFails, wifiEnvironment
  <1>7. CountsSound'
    <2>1. wifiEvents' = wifiEvents \/ wifiEvents' = wifiEvents + 1
      BY DEF NetworkSnapshotFails, Counted
    <2>2. /\ UNCHANGED <<networkOwner, nmOwner, nextOperationGeneration>>
          /\ networkRefreshScheduled' = FALSE
      BY DEF NetworkSnapshotFails, wifiEnvironment, ClearWifiManagerState
    <2>3. wifiEvents' \in Nat
      BY <1>0, <2>1 DEF CountsSound
    <2>4. /\ networkOwner' \in Nat /\ nmOwner' \in Nat /\ nextOperationGeneration' \in Nat
          /\ networkRefreshScheduled' \in BOOLEAN
      BY <1>0, <2>2 DEF CountsSound
    <2> QED  BY <1>3, <2>3, <2>4 DEF CountsSound
  <1> QED  BY <1>3, <1>5, <1>6, <1>7 DEF WifiInv

LEMMA OwnerChangedKeeps ==
    ASSUME WifiInv, OnNetworkOwnerChanged
    PROVE  WifiInv' /\ SuccessStep
  <1>0. RadioSound /\ TokensSound /\ ServiceSound /\ CountsSound
    BY WifiInvSplit
  <1> DEFINE failure == IF nmOwner = NoOwner THEN "unavailable" ELSE "none"
  <1>1. failure \in WifiFailures
    BY DEF WifiFailures
  <1>2. wifi' = NoAdapter /\ ClearWifiManagerState(failure)
    BY DEF OnNetworkOwnerChanged
  <1> HIDE DEF failure
  <1>3. /\ TokensSound' /\ ListSound' /\ scan' \in Scans
        /\ Follows(wifiOperation', wifiInterest') /\ wifiInterest' \in BOOLEAN
    BY <1>0, <1>1, <1>2, ClearedState
  <1>4. Radio(wifi')
    BY <1>0, <1>1, <1>2, ResetRadio
  <1>5. RadioSound' /\ SuccessStep
    BY <1>3, <1>4, RadioMoves
  <1>6. ServiceSound'
    BY <1>0 DEF ServiceSound, OnNetworkOwnerChanged, wifiEnvironment
  <1>7. CountsSound'
    BY <1>0, <1>3 DEF CountsSound, OnNetworkOwnerChanged, wifiEnvironment, ClearWifiManagerState
  <1> QED  BY <1>3, <1>5, <1>6, <1>7 DEF WifiInv

LEMMA QuietNetworkKeeps ==
    ASSUME WifiInv,
           NetworkSnapshotDropped \/ OnNetworkSignal \/ UNCHANGED wifiVars
    PROVE  WifiInv' /\ SuccessStep
  <1>0. RadioSound /\ TokensSound /\ ListSound /\ ServiceSound /\ CountsSound
    BY WifiInvSplit
  <1>1. /\ UNCHANGED <<wifi, wifiOperation, wifiInterest, networkNames,
                       wifiNetworks, wifiCalls, nm, networkOwner, nmOwner, wifiEvents,
                       nextOperationGeneration, scan>>
        /\ networkRefreshScheduled' \in BOOLEAN
    BY <1>0 DEF NetworkSnapshotDropped, OnNetworkSignal, wifiVars, wifiShown, wifiHidden,
                wifiEnvironment, CountsSound
  <1>2. ServiceSound'
    BY <1>0, <1>1 DEF ServiceSound
  <1> QED
    BY <1>0, <1>1, <1>2, SameRadio, SameTokens, SameList, SameCounts DEF WifiInv

LEMMA WifiTimeoutsKeep ==
    ASSUME WifiInv, OnWifiRequestTimeout \/ OnWifiOperationTimeout
    PROVE  WifiInv' /\ SuccessStep
  <1>0. RadioSound /\ TokensSound /\ ListSound /\ ServiceSound /\ CountsSound
    BY WifiInvSplit
  <1>1. /\ UNCHANGED <<wifiInterest, networkNames,
                       wifiNetworks, wifiCalls, nm, networkOwner, nmOwner, wifiEvents,
                       nextOperationGeneration, scan, networkRefreshScheduled>>
    BY DEF OnWifiRequestTimeout, OnWifiOperationTimeout, wifiHidden, wifiEnvironment
  <1>2. Radio(wifi') /\ Follows(wifiOperation', wifiInterest)
    <2>1. "timeout" \in WifiFailures /\ "none" \in WifiResults \ Claims
      BY DEF WifiFailures, WifiResults, Claims
    <2>2. CASE OnWifiRequestTimeout
      BY <1>0, <2>1, <2>2, FailedRequest DEF OnWifiRequestTimeout
    <2>3. CASE OnWifiOperationTimeout
      <3>1. wifi' = wifi /\ wifiOperation' = FinishWifiOperation(wifiOperation, "timeout", "none")
        BY <2>3 DEF OnWifiOperationTimeout
      <3> QED  BY <1>0, <2>1, <3>1, RadioIs, FinishedFollows
    <2> QED  BY <2>2, <2>3
  <1>3. RadioSound' /\ SuccessStep
    BY <1>0, <1>1, <1>2, RadioMoves, RadioIs
  <1>4. ServiceSound'
    BY <1>0, <1>1 DEF ServiceSound
  <1>5. CountsSound'
    BY <1>0, <1>1 DEF CountsSound
  <1> QED
    BY <1>0, <1>1, <1>3, <1>4, <1>5, SameTokens, SameList DEF WifiInv

LEMMA ObservedIs ==
    ASSUME RadioSound, ServiceSound
    PROVE  /\ Radio(Observed) /\ Radio(Settled)
           /\ Radio([Observed EXCEPT !.pending = FALSE, !.failure = "unavailable", !.timer = FALSE])
           /\ nm.device => Follows(SettledOperation, wifiInterest)
           /\ SettledOperation \in WifiOperations
  <1>1. /\ wifi \in Radios /\ Radio(wifi) /\ wifiOperation \in WifiOperations
        /\ Follows(wifiOperation, wifiInterest)
    BY RadioIs
  <1>2. nm.device \in BOOLEAN /\ nm.hardware \in BOOLEAN /\ nm.wireless \in BOOLEAN
    BY DEF ServiceSound, Managers
  <1> DEFINE a == nm.device
             b == nm.device /\ nm.hardware
             c == nm.device /\ nm.wireless
  <1>3. a \in BOOLEAN /\ b \in BOOLEAN /\ c \in BOOLEAN
    BY <1>2
  <1>4. Observed = [wifi EXCEPT !.available = a, !.hardware = b, !.enabled = c]
    BY DEF Observed
  <1> HIDE DEF a, b, c
  <1>5. Observed \in Radios /\ Observed.pending = wifi.pending /\ Observed.timer = wifi.timer
    BY <1>1, <1>3, <1>4 DEF Radios
  <1>6. Radio(Observed)
    BY <1>1, <1>5 DEF Radio
  <1>7. PICK o \in Radios : o = Observed
    BY <1>5
  <1>8. \A failure \in WifiFailures :
           Radio([o EXCEPT !.pending = FALSE, !.failure = failure, !.timer = FALSE])
    BY DEF Radio, Radios
  <1>9. "none" \in WifiFailures /\ "unavailable" \in WifiFailures
        /\ "radio-updated" \in WifiResults
    BY DEF WifiFailures, WifiResults, Claims
  <1>10. Radio(Settled)
    BY <1>6, <1>7, <1>8, <1>9 DEF Settled
  <1>11. PICK f \in WifiOperations :
            /\ f = FinishWifiOperation(wifiOperation, "none", "radio-updated")
            /\ f.kind = "idle" /\ f.result = "radio-updated"
    BY <1>1, <1>9, WifiFinished
  <1>12. Observed.enabled = (nm.device /\ nm.wireless)
    BY <1>1, <1>3, <1>4 DEF Radios, c
  <1>13. nm.device /\ Confirmed => nm.wireless = wifi.target
    BY <1>2, <1>12 DEF Confirmed
  <1>14. nm.device /\ Confirmed => Follows(f, wifiInterest)
    BY <1>11, <1>13 DEF Follows
  <1>15. nm.device => Follows(SettledOperation, wifiInterest)
    BY <1>1, <1>11, <1>14 DEF SettledOperation
  <1>16. SettledOperation \in WifiOperations
    BY <1>1, <1>11 DEF SettledOperation
  <1> QED  BY <1>6, <1>7, <1>8, <1>9, <1>10, <1>15, <1>16

LEMMA WithoutDeviceKeeps ==
    ASSUME WifiInv, RefreshWithoutDevice
    PROVE  WifiInv' /\ SuccessStep
  <1>0. RadioSound /\ TokensSound /\ ListSound /\ ServiceSound /\ CountsSound
    BY WifiInvSplit
  <1>1. /\ UNCHANGED <<wifiInterest, networkNames,
                       wifiCalls, nm, networkOwner, nmOwner, wifiEvents,
                       nextOperationGeneration, scan>>
        /\ wifiNetworks' = <<>> /\ networkRefreshScheduled' = FALSE
    BY DEF RefreshWithoutDevice, wifiHidden, wifiEnvironment, Reads
  <1>2. Radio(wifi') /\ Follows(wifiOperation', wifiInterest)
    <2>1. /\ wifi' \in {Observed,
                        [Observed EXCEPT !.pending = FALSE, !.failure = "unavailable", !.timer = FALSE]}
          /\ wifiOperation' \in {wifiOperation, FinishWifiOperation(wifiOperation, "unavailable", "none")}
      BY DEF RefreshWithoutDevice
    <2>2. "unavailable" \in WifiFailures /\ "none" \in WifiResults \ Claims
      BY DEF WifiFailures, WifiResults, Claims
    <2>3. Follows(FinishWifiOperation(wifiOperation, "unavailable", "none"), wifiInterest)
      BY <1>0, <2>2, RadioIs, FinishedFollows
    <2> QED  BY <1>0, <2>1, <2>3, RadioIs, ObservedIs
  <1>3. RadioSound' /\ SuccessStep
    BY <1>0, <1>1, <1>2, RadioMoves, RadioIs
  <1>4. ServiceSound'
    BY <1>0, <1>1 DEF ServiceSound
  <1>5. CountsSound'
    BY <1>0, <1>1 DEF CountsSound
  <1> QED
    BY <1>0, <1>1, <1>3, <1>4, <1>5, SameTokens, NoList DEF WifiInv

LEMMA RadioOffKeeps ==
    ASSUME WifiInv, RefreshRadioOff
    PROVE  WifiInv' /\ SuccessStep
  <1>0. RadioSound /\ TokensSound /\ ListSound /\ ServiceSound /\ CountsSound
    BY WifiInvSplit
  <1>1. /\ UNCHANGED <<wifiInterest, networkNames,
                       wifiCalls, nm, networkOwner, nmOwner, wifiEvents, nextOperationGeneration>>
        /\ wifiNetworks' = <<>> /\ networkRefreshScheduled' = FALSE
        /\ scan' = [scan EXCEPT !.last = -1]
    BY DEF RefreshRadioOff, wifiEnvironment, Reads
  <1>2. Radio(wifi') /\ Follows(wifiOperation', wifiInterest)
    <2>1. /\ wifi' = Settled
          /\ wifiOperation' \in {SettledOperation,
                                 FinishWifiOperation(SettledOperation, "none", "cancelled")}
      BY DEF RefreshRadioOff
    <2>2. nm.device /\ "none" \in WifiFailures /\ "cancelled" \in WifiResults \ Claims
      BY DEF WifiFailures, WifiResults, Claims, RefreshRadioOff
    <2>3. Follows(FinishWifiOperation(SettledOperation, "none", "cancelled"), wifiInterest)
      BY <1>0, <2>2, ObservedIs, FinishedFollows
    <2> QED  BY <1>0, <2>1, <2>2, <2>3, ObservedIs
  <1>3. RadioSound' /\ SuccessStep
    BY <1>0, <1>1, <1>2, RadioMoves, RadioIs
  <1>4. ServiceSound'
    BY <1>0, <1>1 DEF ServiceSound
  <1>5. CountsSound'
    <2>1. scan' \in Scans
      BY <1>0, <1>1 DEF CountsSound, Scans
    <2> QED  BY <1>0, <1>1, <2>1 DEF CountsSound
  <1> QED
    BY <1>0, <1>1, <1>3, <1>4, <1>5, SameTokens, NoList DEF WifiInv

LEMMA ReadIs ==
    ASSUME ServiceSound, CountsSound, NEW read \in Readings
    PROVE  /\ read.listed \in BOOLEAN /\ read.scan \in Int /\ scan \in Scans
           /\ read.active = nm.active \/ read.active = NoNetwork
           /\ nm.active \in Networks \cup {NoNetwork}
  <1>1. scan.last \in Int /\ nm.scan \in Int /\ nm.active \in Networks \cup {NoNetwork}
        /\ scan \in Scans
    BY DEF ServiceSound, CountsSound, Managers, Scans
  <1> QED  BY <1>1 DEF Readings

(* What a snapshot says of the operation; "connected", only of its target,  *)
(* and "disconnected", only when nothing in the list is in use.             *)
LEMMA ConclusionIs ==
    ASSUME NEW read
    PROVE  \/ Conclusion(read) = <<>>
           \/ \E failure \in WifiFailures, result \in WifiResults \ {"forgotten", "radio-updated"} :
                 /\ Conclusion(read) = <<failure, result>>
                 /\ result = "connected" => TargetConnected
                 /\ result = "disconnected" =>
                       \A n \in DOMAIN wifiNetworks' : ~wifiNetworks'[n].connected
  <1> DEFINE scanned == wifiOperation.kind = "scanning" /\ read.scan >= 0 /\ read.scan # scan.start
             reached == wifiOperation.kind = "connecting" /\ read.state = "activated" /\ TargetConnected
             failed == wifiOperation.kind = "connecting" /\ read.state = "failed"
             nothing == \A n \in DOMAIN wifiNetworks' : ~wifiNetworks'[n].connected
             left == wifiOperation.kind = "disconnecting" /\ nothing
  <1>1. Conclusion(read) = CASE scanned -> <<"none", "scan-complete">>
                             [] reached -> <<"none", "connected">>
                             [] failed -> <<"backend", "none">>
                             [] left -> <<"none", "disconnected">>
                             [] OTHER -> <<>>
    BY DEF Conclusion
  <1>2. /\ ~(scanned /\ reached) /\ ~(scanned /\ failed) /\ ~(scanned /\ left)
        /\ ~(reached /\ left) /\ ~(failed /\ left)
    OBVIOUS
  <1>3. (reached => TargetConnected) /\ (left => nothing)
    OBVIOUS
  <1> HIDE DEF scanned, reached, failed, left, nothing
  <1>4. /\ scanned => Conclusion(read) = <<"none", "scan-complete">>
        /\ reached /\ ~failed => Conclusion(read) = <<"none", "connected">>
        /\ failed /\ ~reached => Conclusion(read) = <<"backend", "none">>
        /\ reached /\ failed => Conclusion(read) \in {<<"none", "connected">>, <<"backend", "none">>}
        /\ left => Conclusion(read) = <<"none", "disconnected">>
        /\ ~(scanned \/ reached \/ failed \/ left) => Conclusion(read) = <<>>
    BY <1>1, <1>2
  <1>5. \/ Conclusion(read) = <<>> \/ Conclusion(read) = <<"none", "scan-complete">>
        \/ reached /\ Conclusion(read) = <<"none", "connected">>
        \/ Conclusion(read) = <<"backend", "none">>
        \/ left /\ Conclusion(read) = <<"none", "disconnected">>
    BY <1>4
  <1>6. /\ {"none", "backend"} \subseteq WifiFailures
        /\ {"none", "scan-complete", "connected", "disconnected"}
              \subseteq WifiResults \ {"forgotten", "radio-updated"}
    BY DEF WifiFailures, WifiResults
  <1> QED  BY <1>3, <1>5, <1>6 DEF nothing

(* The list of a snapshot: the token of the network in use stands for it,   *)
(* and when the access points and the active one could be read and nothing  *)
(* in the list is in use, nothing is.                                       *)
LEMMA RebuiltList ==
    ASSUME WifiBounds, WifiInv, NEW read \in Readings, RebuildNetworks(read)
    PROVE  /\ TokensSound' /\ ListSound'
           /\ TargetConnected => Names(wifiOperation.target, nm.active)
           /\ /\ read.listed /\ read.active = nm.active
              /\ \A n \in DOMAIN wifiNetworks' : ~wifiNetworks'[n].connected
              => nm.active = NoNetwork
  <1>0. TokensSound /\ ServiceSound /\ CountsSound
    BY WifiInvSplit
  <1>1. CASE ~read.listed
    <2>1. wifiNetworks' = <<>> /\ UNCHANGED networkNames
      BY <1>1 DEF RebuildNetworks
    <2>2. DOMAIN wifiNetworks' = {}
      BY <2>1
    <2>3. ~TargetConnected
      BY <2>2 DEF TargetConnected
    <2> QED  BY <1>0, <1>1, <2>1, <2>3, SameTokens, NoList
  <1>2. CASE read.listed
    <2> DEFINE entry(n) == [token |-> networkTokens'[n], connected |-> n = read.active,
                            saved |-> n \in nm.saved]
    <2>1. TakeTokens(Networks) /\ wifiNetworks' = [n \in Networks |-> entry(n)]
      BY <1>2 DEF RebuildNetworks
    <2>2. Networks \in SUBSET Networks
      OBVIOUS
    <2>3. TokensSound'
      BY <1>0, <2>1, <2>2, TakenTokens
    <2>4. \A n \in Networks : networkTokens'[n] \in Nat /\ Names(networkTokens'[n], n)
      BY <1>0, <2>1, <2>2, TakenTokens
    <2>5. \A n \in Networks : entry(n) \in Listings
      <3> TAKE n \in Networks
      <3> DEFINE t == networkTokens'[n]
                 a == n = read.active
                 b == n \in nm.saved
      <3>1. networkTokens'[n] \in Nat
        BY <2>4
      <3>2. entry(n) = [token |-> t, connected |-> a, saved |-> b]
        OBVIOUS
      <3>3. a \in BOOLEAN /\ b \in BOOLEAN
        OBVIOUS
      <3>4. t \in Nat
        BY <3>1
      <3> HIDE DEF t, a, b, entry
      <3> QED  BY <3>2, <3>3, <3>4 DEF Listings
    <2>6. \A n \in Networks : /\ entry(n).token = networkTokens'[n]
                              /\ entry(n).connected <=> n = read.active
      OBVIOUS
    <2> HIDE DEF entry
    <2>7. wifiNetworks' \in [Networks -> Listings]
      BY <2>1, <2>5
    <2>8. ListSound'
      BY <2>2, <2>7, IsPartial DEF ListSound
    <2>9. ASSUME TargetConnected PROVE Names(wifiOperation.target, nm.active)
      <3>1. PICK n \in Networks : entry(n).connected /\ entry(n).token = wifiOperation.target
        BY <2>1, <2>9 DEF TargetConnected
      <3>2. n = nm.active
        BY <1>0, <2>6, <3>1, ReadIs DEF WifiBounds
      <3> QED  BY <2>4, <2>6, <3>1, <3>2
    <2>10. ASSUME read.active = nm.active, \A n \in DOMAIN wifiNetworks' : ~wifiNetworks'[n].connected
           PROVE  nm.active = NoNetwork
      <3>1. \A n \in Networks : ~entry(n).connected
        BY <2>1, <2>10
      <3> QED  BY <1>0, <2>6, <2>10, <3>1, ReadIs
    <2> QED  BY <2>3, <2>8, <2>9, <2>10
  <1>3. read.listed \in BOOLEAN
    BY <1>0, ReadIs
  <1> QED  BY <1>1, <1>2, <1>3

LEMMA RefreshKeeps ==
    ASSUME WifiBounds, WifiInv, NEW read \in Readings, NEW aged \in BOOLEAN,
           RefreshNetwork(read, aged)
    PROVE  WifiInv' /\ SuccessStep
  <1>0. RadioSound /\ TokensSound /\ ListSound /\ ServiceSound /\ CountsSound
    BY WifiInvSplit
  <1> DEFINE seen == [scan EXCEPT !.last = read.scan]
             ending == Conclusion(read)
             stale == wifiNetworks' = <<>> \/ read.scan < 0 \/ (aged /\ read.scan = scan.last)
             automatic == /\ wifiInterest /\ SettledOperation.kind = "idle" /\ stale
                          /\ wifiEvents < MaxWifiEvents
  <1>1. /\ UNCHANGED <<networkOwner, wifiInterest, nm, nmOwner>> /\ nm.device
        /\ wifi' = Settled /\ RebuildNetworks(read) /\ networkRefreshScheduled' = FALSE
    BY DEF RefreshNetwork, Reads, wifiEnvironment
  <1>2. \/ /\ ending # <<>>
           /\ wifiOperation' = FinishWifiOperation(wifiOperation, ending[1], ending[2])
           /\ scan' = seen
           /\ UNCHANGED <<wifiCalls, nextOperationGeneration, wifiEvents>>
        \/ /\ wifiOperation' = SettledOperation
           /\ scan' = seen
           /\ UNCHANGED <<wifiCalls, nextOperationGeneration, wifiEvents>>
        \/ /\ automatic
           /\ wifiOperation' =
                BeginWifiOperation(SettledOperation, "scanning", nextOperationGeneration)
           /\ scan' = [seen EXCEPT !.start = seen.last]
           /\ nextOperationGeneration' = nextOperationGeneration + 1
           /\ Counted
           /\ wifiCalls' = wifiCalls \cup Calls("scanning", nextOperationGeneration, NoNetwork)
    BY DEF RefreshNetwork
  <1>3. automatic => wifiInterest
    OBVIOUS
  <1>4. /\ TokensSound' /\ ListSound'
        /\ TargetConnected => Names(wifiOperation.target, nm.active)
        /\ /\ read.listed /\ read.active = nm.active
           /\ \A n \in DOMAIN wifiNetworks' : ~wifiNetworks'[n].connected
           => nm.active = NoNetwork
    BY <1>1, RebuiltList
  <1>5. Radio(wifi') /\ Follows(SettledOperation, wifiInterest) /\ SettledOperation \in WifiOperations
    BY <1>0, <1>1, ObservedIs
  <1>6. seen \in Scans /\ [seen EXCEPT !.start = seen.last] \in Scans
    <2>1. read.scan \in Int /\ scan \in Scans
      BY <1>0, ReadIs
    <2>2. PICK at \in Int : at = read.scan
      BY <2>1
    <2>3. seen = [scan EXCEPT !.last = at]
      BY <2>2
    <2> HIDE DEF seen
    <2>4. seen \in Scans
      BY <2>1, <2>3 DEF Scans
    <2>5. seen.last \in Int
      BY <2>4 DEF Scans
    <2>6. PICK last \in Int : last = seen.last
      BY <2>5
    <2>7. [seen EXCEPT !.start = last] \in Scans
      BY <2>4 DEF Scans
    <2> QED  BY <2>4, <2>6, <2>7
  <1>7. nextOperationGeneration \in Nat /\ wifiEvents \in Nat
    BY <1>0 DEF CountsSound
  <1> HIDE DEF seen, ending, automatic
  <1>8. CASE /\ ending # <<>>
             /\ wifiOperation' = FinishWifiOperation(wifiOperation, ending[1], ending[2])
             /\ scan' = seen
             /\ UNCHANGED <<wifiCalls, nextOperationGeneration, wifiEvents>>
    <2>1. PICK failure \in WifiFailures, result \in WifiResults \ {"forgotten", "radio-updated"} :
             /\ ending = <<failure, result>>
             /\ result = "connected" => TargetConnected
             /\ result = "disconnected" =>
                   \A n \in DOMAIN wifiNetworks' : ~wifiNetworks'[n].connected
      BY <1>8, ConclusionIs DEF ending
    <2>2. wifiOperation' = FinishWifiOperation(wifiOperation, failure, result)
      BY <1>8, <2>1
    <2>3. /\ wifiOperation' \in WifiOperations /\ wifiOperation'.kind = "idle"
          /\ wifiOperation'.result = result
      BY <1>0, <2>2, RadioIs, WifiFinished
    <2>4. RadioSound'
      BY <1>0, <1>1, <1>5, <2>3, RadioIs
         DEF RadioSound, Radio, WifiTimersArmed, ScanNeedsPage, Idle
    <2>5. result = "disconnected" => nm.active = NoNetwork \/ Misread
      <3>1. CASE read.listed /\ read.active = nm.active
        BY <1>4, <2>1, <3>1
      <3>2. CASE ~(read.listed /\ read.active = nm.active)
        BY <3>2 DEF Misread
      <3> QED  BY <3>1, <3>2
    <2>6. SuccessStep
      BY <1>4, <2>1, <2>3, <2>5 DEF SuccessStep
    <2>7. ServiceSound' /\ CountsSound'
      BY <1>0, <1>1, <1>6, <1>8 DEF ServiceSound, CountsSound
    <2> QED  BY <1>4, <2>4, <2>6, <2>7 DEF WifiInv
  <1>9. CASE /\ wifiOperation' = SettledOperation
             /\ scan' = seen
             /\ UNCHANGED <<wifiCalls, nextOperationGeneration, wifiEvents>>
    <2>1. RadioSound' /\ SuccessStep
      BY <1>0, <1>1, <1>5, <1>9, RadioMoves, RadioIs
    <2>2. ServiceSound' /\ CountsSound'
      BY <1>0, <1>1, <1>6, <1>9 DEF ServiceSound, CountsSound
    <2> QED  BY <1>4, <2>1, <2>2 DEF WifiInv
  <1>10. CASE /\ automatic
              /\ wifiOperation' =
                   BeginWifiOperation(SettledOperation, "scanning", nextOperationGeneration)
              /\ scan' = [seen EXCEPT !.start = seen.last]
              /\ nextOperationGeneration' = nextOperationGeneration + 1
              /\ Counted
              /\ wifiCalls' = wifiCalls \cup Calls("scanning", nextOperationGeneration, NoNetwork)
    <2>1. Follows(wifiOperation', wifiInterest)
      BY <1>3, <1>5, <1>7, <1>10, WifiBegun
    <2>2. RadioSound' /\ SuccessStep
      BY <1>0, <1>1, <1>5, <2>1, RadioMoves, RadioIs
    <2>3. Calls("scanning", nextOperationGeneration, NoNetwork) \subseteq WifiCallKinds
      BY <1>0, <1>7, NewCalls
    <2>4. ServiceSound'
      BY <1>0, <1>1, <1>10, <2>3 DEF ServiceSound
    <2>5. CountsSound'
      <3>1. nextOperationGeneration' \in Nat /\ wifiEvents' \in Nat
        BY <1>7, <1>10 DEF Counted
      <3>2. scan' \in Scans
        BY <1>6, <1>10
      <3>3. networkRefreshScheduled' \in BOOLEAN
        BY <1>1
      <3>4. networkOwner' \in Nat /\ nmOwner' \in Nat
        BY <1>0, <1>1 DEF CountsSound
      <3> QED  BY <3>1, <3>2, <3>3, <3>4 DEF CountsSound
    <2> QED  BY <1>4, <2>2, <2>4, <2>5 DEF WifiInv
  <1> QED  BY <1>2, <1>8, <1>9, <1>10

-----------------------------------------------------------------------------
(* Wi-Fi: the commands.                                                     *)

Commanded ==
    /\ Radio(wifi') /\ Follows(wifiOperation', wifiInterest') /\ wifiInterest' \in BOOLEAN
    /\ TokensSound' /\ ListSound' /\ wifiCalls' \subseteq WifiCallKinds
    /\ scan' \in Scans /\ networkRefreshScheduled' \in BOOLEAN

LEMMA StateIs ==
    ASSUME WifiInv
    PROVE  /\ wifi \in Radios /\ wifiOperation \in WifiOperations /\ wifiInterest \in BOOLEAN
           /\ Radio(wifi) /\ Follows(wifiOperation, wifiInterest)
           /\ RadioSound /\ TokensSound /\ ListSound /\ CountsSound
           /\ wifiCalls \subseteq WifiCallKinds /\ scan \in Scans
           /\ networkRefreshScheduled \in BOOLEAN
  BY WifiInvSplit, RadioIs DEF ServiceSound, CountsSound

LEMMA RequestWifiKeeps ==
    ASSUME WifiInv, NEW id \in Nat, NEW on \in BOOLEAN, RequestWifi(id, on)
    PROVE  Commanded
  <1>0. /\ wifi \in Radios /\ wifiOperation \in WifiOperations /\ wifiInterest \in BOOLEAN
        /\ Radio(wifi) /\ Follows(wifiOperation, wifiInterest)
        /\ RadioSound /\ TokensSound /\ ListSound /\ CountsSound
        /\ wifiCalls \subseteq WifiCallKinds /\ scan \in Scans
        /\ networkRefreshScheduled \in BOOLEAN
    BY StateIs
  <1>1. UNCHANGED <<networkNames, wifiInterest, networkRefreshScheduled>>
    BY DEF RequestWifi
  <1>2. \/ Reject(id, "unavailable") \/ Reject(id, "hardware")
        \/ /\ wifi' = [wifi EXCEPT !.requestId = id, !.failure = "none"]
           /\ UNCHANGED <<wifiOperation, wifiNetworks, scan, wifiCalls>>
        \/ SwitchRadio(id, on)
        \/ UNCHANGED <<wifi, wifiOperation, wifiNetworks, scan, wifiCalls>>
    BY Zenon DEF RequestWifi
  <1>3. CASE Reject(id, "unavailable") \/ Reject(id, "hardware")
    <2>1. Radio(wifi')
      BY <1>0, <1>3 DEF Reject, RejectRequest, Radio, Radios, WifiFailures
    <2> QED
      BY <1>0, <1>1, <1>3, <2>1, SameTokens, SameList DEF Reject, Commanded
  <1>4. CASE /\ wifi' = [wifi EXCEPT !.requestId = id, !.failure = "none"]
             /\ UNCHANGED <<wifiOperation, wifiNetworks, scan, wifiCalls>>
    <2>1. Radio(wifi')
      BY <1>0, <1>4 DEF Radio, Radios, WifiFailures
    <2> QED  BY <1>0, <1>1, <1>4, <2>1, SameTokens, SameList DEF Commanded
  <1>5. CASE SwitchRadio(id, on)
    <2>1. Radio(wifi')
      BY <1>0, <1>5 DEF SwitchRadio, Radio, Radios, WifiFailures
    <2>2. Replaced(wifiOperation) \in WifiOperations
      BY <1>0, ReplacedIs
    <2>3. Follows(BeginWifiOperation(Replaced(wifiOperation), "radio", id), wifiInterest)
      BY <2>2, WifiBegun
    <2>4. wifiOperation' = BeginWifiOperation(Replaced(wifiOperation), "radio", id)
      BY <1>5 DEF SwitchRadio
    <2>5. wifiNetworks' = wifiNetworks \/ wifiNetworks' = <<>>
      BY <1>5 DEF SwitchRadio
    <2>6. ListSound'
      BY <1>0, <2>5, SameList, NoList
    <2>7. wifiCalls' \subseteq WifiCallKinds
      BY <1>0, <1>5, NewCalls DEF SwitchRadio
    <2>8. scan' = scan
      BY <1>5 DEF SwitchRadio
    <2> QED
      BY <1>0, <1>1, <2>1, <2>3, <2>4, <2>6, <2>7, <2>8, SameTokens DEF Commanded
  <1>6. CASE UNCHANGED <<wifi, wifiOperation, wifiNetworks, scan, wifiCalls>>
    BY <1>0, <1>1, <1>6, SameTokens, SameList DEF Commanded
  <1> QED  BY <1>2, <1>3, <1>4, <1>5, <1>6

LEMMA InterestKeeps ==
    ASSUME WifiInv, NEW id \in Nat, NEW interested \in BOOLEAN, SetWifiInterest(id, interested)
    PROVE  Commanded
  <1>0. /\ wifi \in Radios /\ wifiOperation \in WifiOperations /\ wifiInterest \in BOOLEAN
        /\ Radio(wifi) /\ Follows(wifiOperation, wifiInterest)
        /\ RadioSound /\ TokensSound /\ ListSound /\ CountsSound
        /\ wifiCalls \subseteq WifiCallKinds /\ scan \in Scans
        /\ networkRefreshScheduled \in BOOLEAN
    BY StateIs
  <1>1. /\ UNCHANGED <<wifi, wifiNetworks, networkNames, scan, wifiCalls>>
        /\ wifiInterest' = interested
        /\ networkRefreshScheduled' \in BOOLEAN
    BY <1>0 DEF SetWifiInterest
  <1>2. CASE ~interested /\ wifiOperation.kind = "scanning"
    <2>1. PICK f \in WifiOperations :
             f = FinishWifiOperation(wifiOperation, "none", "cancelled")
             /\ f.kind = "idle" /\ f.result = "cancelled"
      BY <1>0, WifiFinished DEF WifiFailures, WifiResults
    <2>2. wifiOperation' = [f EXCEPT !.generation = id]
      BY <1>2, <2>1 DEF SetWifiInterest
    <2>3. wifiOperation' \in WifiOperations /\ wifiOperation'.kind = "idle"
          /\ wifiOperation'.result = "cancelled"
      BY <2>1, <2>2 DEF WifiOperations
    <2>4. Follows(wifiOperation', wifiInterest')
      BY <2>3 DEF Follows, Claims
    <2> QED  BY <1>0, <1>1, <2>4, SameTokens, SameList DEF Commanded
  <1>3. CASE ~(~interested /\ wifiOperation.kind = "scanning")
    <2>1. wifiOperation' = wifiOperation
      BY <1>3 DEF SetWifiInterest
    <2>2. Follows(wifiOperation', wifiInterest')
      BY <1>0, <1>1, <1>3, <2>1 DEF Follows
    <2> QED  BY <1>0, <1>1, <2>2, SameTokens, SameList DEF Commanded
  <1> QED  BY <1>2, <1>3
LEMMA OverwrittenKeeps ==
    ASSUME WifiInv, NEW id \in Nat, NEW failure \in WifiFailures, Overwritten(id, failure),
           UNCHANGED <<wifi, wifiInterest, wifiNetworks, networkNames,
                       scan, wifiCalls, networkRefreshScheduled>>
    PROVE  Commanded
  <1>1. /\ wifiInterest \in BOOLEAN /\ Radio(wifi)
        /\ RadioSound /\ TokensSound /\ ListSound
        /\ wifiCalls \subseteq WifiCallKinds /\ scan \in Scans
        /\ networkRefreshScheduled \in BOOLEAN
    BY StateIs
  <1>2. Follows(wifiOperation', wifiInterest)
    BY <1>1, OverwrittenFollows
  <1> QED  BY <1>1, <1>2, SameTokens, SameList DEF Commanded

(* An operation that begins, with its call; the tokens are those of either  *)
(* moment.                                                                  *)
LEMMA BegunKeeps ==
    ASSUME WifiInv, TokensSound', NEW id \in Nat, NEW op \in WifiOperations,
           NEW token \in Nat, NEW n \in Networks,
           UNCHANGED <<wifi, wifiInterest, wifiNetworks, scan, networkRefreshScheduled>>,
           \/ UNCHANGED <<wifiOperation, wifiCalls>>
           \/ \E kind \in {"connecting", "forgetting"} :
                 /\ wifiOperation' = [BeginWifiOperation(op, kind, id) EXCEPT !.target = token]
                 /\ wifiCalls' = wifiCalls \cup Calls(kind, id, n)
    PROVE  Commanded
  <1>1. /\ wifiInterest \in BOOLEAN /\ Radio(wifi) /\ Follows(wifiOperation, wifiInterest)
        /\ ListSound /\ CountsSound
        /\ wifiCalls \subseteq WifiCallKinds /\ scan \in Scans
        /\ networkRefreshScheduled \in BOOLEAN
    BY StateIs
  <1>2. Follows(wifiOperation', wifiInterest) /\ wifiCalls' \subseteq WifiCallKinds
    <2>1. CASE UNCHANGED <<wifiOperation, wifiCalls>>
      BY <1>1, <2>1
    <2>2. CASE \E kind \in {"connecting", "forgetting"} :
                 /\ wifiOperation' = [BeginWifiOperation(op, kind, id) EXCEPT !.target = token]
                 /\ wifiCalls' = wifiCalls \cup Calls(kind, id, n)
      <3>1. PICK kind \in {"connecting", "forgetting"} :
                 /\ wifiOperation' = [BeginWifiOperation(op, kind, id) EXCEPT !.target = token]
                 /\ wifiCalls' = wifiCalls \cup Calls(kind, id, n)
        BY <2>2
      <3>2. Calls(kind, id, n) \subseteq WifiCallKinds
        BY <1>1, NewCalls
      <3>3. kind # "scanning"
        OBVIOUS
      <3>4. kind \in {"radio", "scanning", "connecting", "disconnecting", "forgetting"}
        OBVIOUS
      <3>5. Follows([BeginWifiOperation(op, kind, id) EXCEPT !.target = token], wifiInterest)
        BY <3>3, <3>4, WifiBegun
      <3> QED  BY <1>1, <3>1, <3>2, <3>5
    <2> QED  BY <2>1, <2>2
  <1> QED  BY <1>1, <1>2, SameList DEF Commanded

LEMMA DispatchKeeps ==
    ASSUME WifiInv, TokensSound', NEW id \in Nat, NEW n \in Networks, NEW token \in Nat,
           DispatchConnection(id, n, token),
           UNCHANGED <<wifi, wifiInterest, wifiNetworks, scan, networkRefreshScheduled>>
    PROVE  Commanded
  <1>1. PICK op \in WifiOperations : op = Replaced(wifiOperation)
    BY StateIs, ReplacedIs
  <1>2. \/ UNCHANGED <<wifiOperation, wifiCalls>>
        \/ \E kind \in {"connecting", "forgetting"} :
              /\ wifiOperation' = [BeginWifiOperation(op, kind, id) EXCEPT !.target = token]
              /\ wifiCalls' = wifiCalls \cup Calls(kind, id, n)
    BY <1>1 DEF DispatchConnection
  <1> QED  BY <1>1, <1>2, BegunKeeps

LEMMA ShownAreNetworks ==
    ASSUME WifiInv, NEW token
    PROVE  Shown(token) \subseteq Networks
  <1>1. ListSound
    BY WifiInvSplit
  <1> QED  BY <1>1, PartialParts DEF ListSound, Shown

LEMMA VisibleKeeps ==
    ASSUME WifiInv, NEW id \in Nat, NEW token \in Nat, RequestVisibleConnection(id, token)
    PROVE  Commanded
  <1>1. UNCHANGED <<wifi, wifiNetworks, networkNames, scan, wifiInterest,
                    networkRefreshScheduled>>
    BY DEF RequestVisibleConnection
  <1>2. CASE \E n \in Shown(token) : DispatchConnection(id, n, token)
    <2>1. PICK n \in Networks : DispatchConnection(id, n, token)
      BY <1>2, ShownAreNetworks
    <2>2. TokensSound'
      BY <1>1, StateIs, SameTokens
    <2> QED  BY <1>1, <2>1, <2>2, DispatchKeeps
  <1>3. CASE Overwritten(id, "invalid") /\ UNCHANGED wifiCalls
    <2>1. "invalid" \in WifiFailures
      BY DEF WifiFailures
    <2> QED  BY <1>1, <1>3, <2>1, OverwrittenKeeps
  <1> QED  BY <1>2, <1>3 DEF RequestVisibleConnection

LEMMA HiddenKeeps ==
    ASSUME WifiBounds, WifiInv, NEW id \in Nat, NEW n \in Networks, RequestHiddenConnection(id, n)
    PROVE  Commanded
  <1>1. UNCHANGED <<wifi, wifiNetworks, scan, wifiInterest, networkRefreshScheduled>>
    BY DEF RequestHiddenConnection
  <1>2. CASE TakeTokens({n}) /\ DispatchConnection(id, n, TokensFor({n})[n])
    <2>1. TokensSound
      BY StateIs
    <2>2. /\ TokensSound'
          /\ \A m \in {n} : networkTokens'[m] \in Nat /\ Names(networkTokens'[m], m)
      BY <1>2, <2>1, TakenTokens
    <2>3. networkTokens' = TokensFor({n})
      BY <1>2 DEF TakeTokens
    <2>4. TokensFor({n})[n] \in Nat
      BY <2>2, <2>3
    <2> QED  BY <1>1, <1>2, <2>2, <2>4, DispatchKeeps
  <1>3. CASE /\ Overwritten(id, "invalid")
             /\ UNCHANGED <<networkNames, wifiCalls>>
    <2>1. "invalid" \in WifiFailures
      BY DEF WifiFailures
    <2> QED  BY <1>1, <1>3, <2>1, OverwrittenKeeps
  <1> QED  BY <1>2, <1>3 DEF RequestHiddenConnection

LEMMA ForgetKeeps ==
    ASSUME WifiInv, NEW id \in Nat, NEW token \in Nat, RequestForget(id, token),
           WifiBounds
    PROVE  Commanded
  <1>1. UNCHANGED <<wifi, wifiNetworks, networkNames, scan, wifiInterest,
                    networkRefreshScheduled>>
    BY DEF RequestForget
  <1>2. TokensSound' /\ wifiOperation \in WifiOperations
    BY <1>1, StateIs, SameTokens
  <1>3. CASE Idle /\ ~wifi.pending /\ \E n \in Shown(token) : wifiNetworks[n].saved
    <2>1. PICK n \in Networks :
             /\ wifiOperation' = [BeginWifiOperation(wifiOperation, "forgetting", id)
                                     EXCEPT !.target = token]
             /\ wifiCalls' = wifiCalls \cup Calls("forgetting", id, n)
      BY <1>3, ShownAreNetworks DEF RequestForget
    <2>2. \E kind \in {"connecting", "forgetting"} :
              /\ wifiOperation' = [BeginWifiOperation(wifiOperation, kind, id) EXCEPT !.target = token]
              /\ wifiCalls' = wifiCalls \cup Calls(kind, id, n)
      BY <2>1
    <2> QED  BY <1>1, <1>2, <2>2, BegunKeeps
  <1>4. CASE ~(Idle /\ ~wifi.pending /\ \E n \in Shown(token) : wifiNetworks[n].saved)
    <2>1. UNCHANGED <<wifiOperation, wifiCalls>>
      BY <1>4 DEF RequestForget
    <2>2. PICK n \in Networks : TRUE
      BY DEF WifiBounds
    <2> QED  BY <1>1, <1>2, <2>1, <2>2, BegunKeeps
  <1> QED  BY <1>3, <1>4

LEMMA ScanKeeps ==
    ASSUME WifiInv, NEW id \in Nat, RequestScan(id)
    PROVE  Commanded
  <1>0. /\ wifiOperation \in WifiOperations /\ wifiInterest \in BOOLEAN
        /\ Radio(wifi) /\ Follows(wifiOperation, wifiInterest)
        /\ RadioSound /\ TokensSound /\ ListSound /\ CountsSound
        /\ wifiCalls \subseteq WifiCallKinds /\ scan \in Scans
        /\ networkRefreshScheduled \in BOOLEAN
    BY StateIs
  <1>1. UNCHANGED <<wifi, wifiNetworks, networkNames, wifiInterest,
                    networkRefreshScheduled>>
    BY DEF RequestScan
  <1>2. \/ Overwritten(id, "cooldown") /\ UNCHANGED <<scan, wifiCalls>>
        \/ /\ wifiInterest
           /\ wifiOperation' = BeginWifiOperation(wifiOperation, "scanning", id)
           /\ scan' = [scan EXCEPT !.start = scan.last, !.manual = TRUE]
           /\ wifiCalls' = wifiCalls \cup Calls("scanning", id, NoNetwork)
        \/ UNCHANGED <<wifiOperation, scan, wifiCalls>>
    BY DEF RequestScan
  <1>3. CASE Overwritten(id, "cooldown") /\ UNCHANGED <<scan, wifiCalls>>
    <2>1. "cooldown" \in WifiFailures
      BY DEF WifiFailures
    <2> QED  BY <1>1, <1>3, <2>1, OverwrittenKeeps
  <1>4. CASE /\ wifiInterest
             /\ wifiOperation' = BeginWifiOperation(wifiOperation, "scanning", id)
             /\ scan' = [scan EXCEPT !.start = scan.last, !.manual = TRUE]
             /\ wifiCalls' = wifiCalls \cup Calls("scanning", id, NoNetwork)
    <2>1. Follows(wifiOperation', wifiInterest)
      BY <1>0, <1>4, WifiBegun
    <2>2. wifiCalls' \subseteq WifiCallKinds
      BY <1>0, <1>4, NewCalls
    <2>3. scan.last \in Int
      BY <1>0 DEF Scans
    <2>4. PICK last \in Int : last = scan.last
      BY <2>3
    <2>5. scan' = [scan EXCEPT !.start = last, !.manual = TRUE]
      BY <1>4, <2>4
    <2>6. scan' \in Scans
      BY <1>0, <2>5 DEF Scans
    <2> QED  BY <1>0, <1>1, <2>1, <2>2, <2>6, SameTokens, SameList DEF Commanded
  <1>5. CASE UNCHANGED <<wifiOperation, scan, wifiCalls>>
    BY <1>0, <1>1, <1>5, SameTokens, SameList DEF Commanded
  <1> QED  BY <1>2, <1>3, <1>4, <1>5

LEMMA DisconnectKeeps ==
    ASSUME WifiInv, NEW id \in Nat, RequestDisconnect(id)
    PROVE  Commanded
  <1>0. /\ wifiOperation \in WifiOperations /\ wifiInterest \in BOOLEAN
        /\ Radio(wifi) /\ Follows(wifiOperation, wifiInterest)
        /\ TokensSound /\ ListSound /\ CountsSound
        /\ wifiCalls \subseteq WifiCallKinds /\ scan \in Scans
        /\ networkRefreshScheduled \in BOOLEAN
    BY StateIs
  <1>1. UNCHANGED <<wifi, wifiNetworks, networkNames, scan, wifiInterest,
                    networkRefreshScheduled>>
    BY DEF RequestDisconnect
  <1>2. \/ UNCHANGED <<wifiOperation, wifiCalls>>
        \/ /\ wifiOperation' = BeginWifiOperation(wifiOperation, "disconnecting", id)
           /\ wifiCalls' = wifiCalls \cup Calls("disconnecting", id, NoNetwork)
    BY DEF RequestDisconnect
  <1>3. Follows(BeginWifiOperation(wifiOperation, "disconnecting", id), wifiInterest)
    BY <1>0, WifiBegun
  <1>4. Calls("disconnecting", id, NoNetwork) \subseteq WifiCallKinds
    BY <1>0, NewCalls
  <1> QED  BY <1>0, <1>1, <1>2, <1>3, <1>4, SameTokens, SameList DEF Commanded

LEMMA CommandedKeeps ==
    ASSUME WifiInv, Commanded, wifiEvents' \in Nat,
           UNCHANGED <<networkOwner, nextOperationGeneration, wifiEnvironment>>
    PROVE  WifiInv' /\ SuccessStep
  <1>0. ServiceSound /\ CountsSound
    BY WifiInvSplit
  <1>1. RadioSound' /\ SuccessStep
    BY RadioMoves DEF Commanded
  <1>2. ServiceSound' /\ CountsSound'
    BY <1>0 DEF Commanded, wifiEnvironment, ServiceSound, CountsSound
  <1> QED  BY <1>1, <1>2 DEF Commanded, WifiInv

LEMMA WifiCommandKeeps ==
    ASSUME WifiBounds, WifiInv, HandleWifiCommand \/ OpenWifiPage
    PROVE  WifiInv' /\ SuccessStep
  <1>0. wifiEvents \in Nat
    BY WifiInvSplit DEF CountsSound
  <1>1. CASE HandleWifiCommand
    <2> DEFINE id == wifiEvents'
    <2>1. id \in Nat /\ UNCHANGED <<networkOwner, nextOperationGeneration, wifiEnvironment>>
      BY <1>0, <1>1 DEF HandleWifiCommand, Counted
    <2>2. Cardinality(Networks) \in Nat
      BY FS_CardinalityType DEF WifiBounds
    <2>3. \A token \in 1..Cardinality(Networks) : token \in Nat
      BY <2>2
    <2>4. \/ \E on \in BOOLEAN : RequestWifi(id, on)
          \/ SetWifiInterest(id, FALSE)
          \/ RequestScan(id)
          \/ RequestDisconnect(id)
          \/ \E token \in Nat : RequestVisibleConnection(id, token) \/ RequestForget(id, token)
          \/ \E n \in Networks : RequestHiddenConnection(id, n)
      BY <1>1, <2>3 DEF HandleWifiCommand
    <2> HIDE DEF id
    <2>5. Commanded
      <3>1. CASE \E on \in BOOLEAN : RequestWifi(id, on)
        BY <2>1, <3>1, RequestWifiKeeps
      <3>2. CASE SetWifiInterest(id, FALSE)
        BY <2>1, <3>2, InterestKeeps
      <3>3. CASE RequestScan(id)
        BY <2>1, <3>3, ScanKeeps
      <3>4. CASE RequestDisconnect(id)
        BY <2>1, <3>4, DisconnectKeeps
      <3>5. CASE \E token \in Nat : RequestVisibleConnection(id, token) \/ RequestForget(id, token)
        BY <2>1, <3>5, VisibleKeeps, ForgetKeeps
      <3>6. CASE \E n \in Networks : RequestHiddenConnection(id, n)
        BY <2>1, <3>6, HiddenKeeps
      <3> QED  BY <2>4, <3>1, <3>2, <3>3, <3>4, <3>5, <3>6
    <2> QED  BY <2>1, <2>5, CommandedKeeps DEF id
  <1>2. CASE OpenWifiPage
    <2>1. SetWifiInterest(wifiEvents, TRUE) /\ wifiEvents' = wifiEvents
          /\ UNCHANGED <<networkOwner, nextOperationGeneration, wifiEnvironment>>
      BY <1>2 DEF OpenWifiPage
    <2>2. Commanded
      BY <1>0, <2>1, InterestKeeps
    <2> QED  BY <1>0, <2>1, <2>2, CommandedKeeps
  <1> QED  BY <1>1, <1>2
-----------------------------------------------------------------------------
(* Wi-Fi: the replies.                                                      *)

LEMMA RadioKept ==
    ASSUME WifiInv, RadioSound', ListSound',
           wifiCalls' \subseteq wifiCalls, networkRefreshScheduled' \in BOOLEAN,
           UNCHANGED <<networkOwner, wifiHidden, wifiEnvironment, wifiEvents>>
    PROVE  WifiInv'
  <1>0. RadioSound /\ TokensSound /\ ServiceSound /\ CountsSound
    BY WifiInvSplit
  <1>1. UNCHANGED <<networkNames, scan, wifiInterest,
                    nextOperationGeneration, nm, nmOwner>>
    BY DEF wifiHidden, wifiEnvironment
  <1>2. TokensSound'
    BY <1>0, <1>1, SameTokens
  <1>3. ServiceSound' /\ CountsSound'
    BY <1>0, <1>1 DEF ServiceSound, CountsSound
  <1> QED  BY <1>2, <1>3 DEF WifiInv

LEMMA CallFailsKeeps ==
    ASSUME WifiInv, NEW c \in wifiCalls, CallFails(c, "backend")
    PROVE  WifiInv' /\ SuccessStep
  <1>0. /\ Radio(wifi) /\ Follows(wifiOperation, wifiInterest) /\ wifiOperation \in WifiOperations
        /\ RadioSound /\ ListSound /\ networkRefreshScheduled \in BOOLEAN
    BY StateIs
  <1>1. /\ wifiCalls' \subseteq wifiCalls
        /\ UNCHANGED <<networkOwner, networkRefreshScheduled, wifiNetworks, wifiHidden,
                       wifiEnvironment, wifiEvents>>
    BY DEF CallFails
  <1>2. \/ FailRequest("backend")
        \/ /\ wifiOperation' = FinishWifiOperation(wifiOperation, "backend", "none")
           /\ UNCHANGED wifi
        \/ UNCHANGED <<wifi, wifiOperation>>
    BY Zenon DEF CallFails
  <1>3. "backend" \in WifiFailures /\ "none" \in WifiResults \ Claims
    BY DEF WifiFailures, WifiResults, Claims
  <1>4. Radio(wifi') /\ Follows(wifiOperation', wifiInterest)
    BY <1>0, <1>2, <1>3, FailedRequest, FinishedFollows
  <1>5. wifiInterest' = wifiInterest /\ wifiInterest \in BOOLEAN
    BY <1>0, <1>1, RadioIs DEF wifiHidden
  <1>6. RadioSound' /\ SuccessStep
    BY <1>4, <1>5, RadioMoves
  <1> QED  BY <1>0, <1>1, <1>6, SameList, RadioKept

LEMMA CallSucceedsKeeps ==
    ASSUME WifiInv, NEW c \in wifiCalls, CallSucceeds(c)
    PROVE  WifiInv' /\ SuccessStep
  <1>0. /\ Radio(wifi) /\ Follows(wifiOperation, wifiInterest) /\ wifiOperation \in WifiOperations
        /\ RadioSound /\ ListSound /\ networkRefreshScheduled \in BOOLEAN
    BY StateIs
  <1>1. /\ wifiCalls' \subseteq wifiCalls /\ networkRefreshScheduled' \in BOOLEAN /\ wifi' = wifi
        /\ UNCHANGED <<networkOwner, wifiHidden, wifiEnvironment, wifiEvents>>
    BY <1>0 DEF CallSucceeds
  <1> DEFINE kept(n) == [wifiNetworks[n] EXCEPT !.saved = @ /\ n \notin Shown(wifiOperation.target)]
  <1>2. \/ /\ c.kind = "forgetting" /\ c.phase = "done"
           /\ wifiNetworks' = [n \in DOMAIN wifiNetworks |-> kept(n)]
           /\ wifiOperation' = FinishWifiOperation(wifiOperation, "none", "forgotten")
        \/ UNCHANGED <<wifiNetworks, wifiOperation>>
    BY DEF CallSucceeds
  <1>3. DOMAIN wifiNetworks \in SUBSET Networks /\ \A n \in DOMAIN wifiNetworks : wifiNetworks[n] \in Listings
    BY <1>0, PartialParts DEF ListSound
  <1>4. \A n \in DOMAIN wifiNetworks : kept(n) \in Listings
    <2> TAKE n \in DOMAIN wifiNetworks
    <2> DEFINE e == wifiNetworks[n]
               saved == e.saved /\ n \notin Shown(wifiOperation.target)
    <2>1. e \in Listings
      BY <1>3
    <2>2. saved \in BOOLEAN
      BY <2>1 DEF Listings
    <2>3. kept(n) = [e EXCEPT !.saved = saved]
      OBVIOUS
    <2> HIDE DEF e, saved, kept
    <2> QED  BY <2>1, <2>2, <2>3 DEF Listings
  <1> HIDE DEF kept
  <1>5. "none" \in WifiFailures /\ "forgotten" \in WifiResults
    BY DEF WifiFailures, WifiResults
  <1>6. RadioSound' /\ SuccessStep
    <2>1. wifiInterest' = wifiInterest /\ wifiInterest \in BOOLEAN
      BY <1>0, <1>1, RadioIs DEF wifiHidden
    <2>2. CASE UNCHANGED wifiOperation
      BY <1>0, <1>1, <2>1, <2>2, SameRadio
    <2>3. CASE /\ c.kind = "forgetting" /\ c.phase = "done"
               /\ wifiOperation' = FinishWifiOperation(wifiOperation, "none", "forgotten")
      <3>1. /\ wifiOperation' \in WifiOperations /\ wifiOperation'.kind = "idle"
            /\ wifiOperation'.result = "forgotten"
        BY <1>0, <1>5, <2>3, WifiFinished
      <3>2. c \in Answered
        BY DEF Answered, CallSucceeds
      <3>3. SuccessStep
        BY <2>3, <3>1, <3>2 DEF SuccessStep
      <3>4. RadioSound'
        BY <1>0, <1>1, <2>1, <3>1
           DEF RadioSound, Radio, WifiTimersArmed, ScanNeedsPage, Idle
      <3> QED  BY <3>3, <3>4
    <2> QED  BY <1>2, <2>2, <2>3
  <1>7. ListSound'
    <2>1. CASE wifiNetworks' = [n \in DOMAIN wifiNetworks |-> kept(n)]
      <3>1. wifiNetworks' \in [DOMAIN wifiNetworks -> Listings]
        BY <1>4, <2>1
      <3> QED  BY <1>3, <3>1, IsPartial DEF ListSound
    <2>2. CASE UNCHANGED wifiNetworks
      BY <1>0, <2>2, SameList
    <2> QED  BY <1>2, <2>1, <2>2
  <1> QED  BY <1>0, <1>1, <1>6, <1>7, RadioKept

-----------------------------------------------------------------------------
(* Wi-Fi: NetworkManager.                                                   *)

LEMMA ServiceMoves ==
    ASSUME WifiInv, nm' \in Managers, wifiCalls' \subseteq WifiCallKinds,
           nmOwner' \in Nat, wifiEvents' \in Nat,
           UNCHANGED <<networkOwner, networkRefreshScheduled, wifiShown, wifiHidden>>
    PROVE  WifiInv' /\ SuccessStep
  <1>0. RadioSound /\ TokensSound /\ ListSound /\ ServiceSound /\ CountsSound
    BY WifiInvSplit
  <1>1. UNCHANGED <<wifi, wifiOperation, wifiNetworks, networkNames, scan,
                    wifiInterest, nextOperationGeneration>>
    BY DEF wifiShown, wifiHidden
  <1>2. ServiceSound' /\ CountsSound'
    BY <1>0, <1>1 DEF ServiceSound, CountsSound
  <1> QED  BY <1>0, <1>1, <1>2, SameRadio, SameTokens, SameList DEF WifiInv

LEMMA NetworkPerformsKeeps ==
    ASSUME WifiInv, NEW c \in wifiCalls, NetworkPerforms(c)
    PROVE  WifiInv' /\ SuccessStep
  <1>0. nm \in Managers /\ wifiCalls \subseteq WifiCallKinds /\ nmOwner \in Nat /\ wifiEvents \in Nat
    BY WifiInvSplit DEF ServiceSound, CountsSound
  <1>1. /\ wifiCalls' = (wifiCalls \ {c}) \cup {[c EXCEPT !.phase = "done"]}
        /\ UNCHANGED <<networkOwner, networkRefreshScheduled, wifiShown, wifiHidden, nmOwner,
                       wifiEvents>>
    BY DEF NetworkPerforms
  <1>2. c \in WifiCallKinds
    BY <1>0
  <1>3. [c EXCEPT !.phase = "done"] \in WifiCallKinds
    BY <1>2 DEF WifiCallKinds, WifiCallsOf, Phases
  <1>4. /\ c.kind \in {"radio", "connecting", "forgetting", "scanning", "disconnecting"}
        /\ c.kind = "radio" => c.what \in BOOLEAN
        /\ c.kind \in {"connecting", "forgetting"} => c.what \in Networks
    BY <1>2 DEF WifiCallKinds, WifiCallsOf
  <1> DEFINE w == (c.kind = "disconnecting") /\ nm.wireless
  <1>5. \/ nm' = [nm EXCEPT !.wireless = TRUE]
        \/ nm' = [nm EXCEPT !.wireless = w, !.active = NoNetwork, !.wanted = NoNetwork, !.state = "idle"]
        \/ nm' = [nm EXCEPT !.scan = nm.scan + 1]
        \/ /\ c.kind = "connecting"
           /\ nm' = [nm EXCEPT !.wanted = c.what, !.active = NoNetwork, !.state = "preparing"]
        \/ nm' = [nm EXCEPT !.saved = nm.saved \ {c.what}]
    BY <1>4 DEF NetworkPerforms
  <1>6. nm' \in Managers
    <2>1. CASE nm' = [nm EXCEPT !.wireless = TRUE]
      BY <1>0, <2>1 DEF Managers
    <2>2. CASE nm' = [nm EXCEPT !.wireless = w, !.active = NoNetwork, !.wanted = NoNetwork, !.state = "idle"]
      <3>1. w \in BOOLEAN
        OBVIOUS
      <3> HIDE DEF w
      <3> QED  BY <1>0, <2>2, <3>1 DEF Managers
    <2>3. CASE nm' = [nm EXCEPT !.scan = nm.scan + 1]
      <3>1. PICK k \in Int : k = nm.scan + 1
        BY <1>0 DEF Managers
      <3> QED  BY <1>0, <2>3, <3>1 DEF Managers
    <2>4. CASE /\ c.kind = "connecting"
               /\ nm' = [nm EXCEPT !.wanted = c.what, !.active = NoNetwork, !.state = "preparing"]
      <3>1. PICK n \in Networks : n = c.what
        BY <1>4, <2>4
      <3> QED  BY <1>0, <2>4, <3>1 DEF Managers
    <2>5. CASE nm' = [nm EXCEPT !.saved = nm.saved \ {c.what}]
      <3>1. PICK rest \in SUBSET Networks : rest = nm.saved \ {c.what}
        BY <1>0 DEF Managers
      <3> QED  BY <1>0, <2>5, <3>1 DEF Managers
    <2> QED  BY <1>5, <2>1, <2>2, <2>3, <2>4, <2>5
  <1> QED  BY <1>0, <1>1, <1>3, <1>6, ServiceMoves

LEMMA NetworkMovesKeeps ==
    ASSUME WifiInv, NetworkConnects \/ NetworkChanges \/ NetworkOwnerChanges
    PROVE  WifiInv' /\ SuccessStep
  <1>0. nm \in Managers /\ wifiCalls \subseteq WifiCallKinds /\ nmOwner \in Nat /\ wifiEvents \in Nat
    BY WifiInvSplit DEF ServiceSound, CountsSound
  <1>1. CASE NetworkConnects
    <2>1. UNCHANGED <<networkOwner, networkRefreshScheduled, wifiShown, wifiHidden, wifiCalls,
                      nmOwner, wifiEvents>>
      BY <1>1 DEF NetworkConnects
    <2>2. PICK n \in Networks : n = nm.wanted
      BY <1>0, <1>1 DEF NetworkConnects, Managers
    <2>3. PICK saved \in SUBSET Networks : saved = nm.saved \cup {n}
      BY <1>0 DEF Managers
    <2>4. \/ nm' = [nm EXCEPT !.active = n, !.wanted = NoNetwork, !.state = "activated", !.saved = saved]
          \/ nm' = [nm EXCEPT !.wanted = NoNetwork, !.state = "failed"]
      BY <1>1, <2>2, <2>3 DEF NetworkConnects
    <2>5. nm' \in Managers
      BY <1>0, <2>4 DEF Managers
    <2> QED  BY <1>0, <2>1, <2>5, ServiceMoves
  <1>2. CASE NetworkChanges
    <2>1. /\ UNCHANGED <<networkOwner, networkRefreshScheduled, wifiShown, wifiHidden, wifiCalls,
                         nmOwner>>
          /\ wifiEvents' = wifiEvents + 1
      BY <1>2 DEF NetworkChanges, Counted
    <2> DEFINE hardware == ~nm.hardware
               device == ~nm.device
    <2>2. \/ \E n \in Networks :
                nm' = [nm EXCEPT !.active = n, !.wanted = NoNetwork, !.state = "activated"]
          \/ nm' = [nm EXCEPT !.hardware = hardware, !.wireless = FALSE, !.active = NoNetwork,
                              !.wanted = NoNetwork, !.state = "idle"]
          \/ nm' = [nm EXCEPT !.device = device, !.active = NoNetwork, !.wanted = NoNetwork,
                              !.state = "idle"]
      BY <1>2 DEF NetworkChanges
    <2>3. hardware \in BOOLEAN /\ device \in BOOLEAN
      OBVIOUS
    <2> HIDE DEF hardware, device
    <2>4. nm' \in Managers
      BY <1>0, <2>2, <2>3 DEF Managers
    <2>5. wifiEvents' \in Nat
      BY <1>0, <2>1
    <2> QED  BY <1>0, <2>1, <2>4, <2>5, ServiceMoves
  <1>3. CASE NetworkOwnerChanges
    <2>1. /\ UNCHANGED <<networkOwner, networkRefreshScheduled, wifiShown, wifiHidden, wifiCalls>>
          /\ wifiEvents' = wifiEvents + 1 /\ nmOwner' \in {NoOwner, wifiEvents' + 1}
          /\ nm' = [nm EXCEPT !.wanted = NoNetwork]
      BY <1>3 DEF NetworkOwnerChanges, Counted
    <2>2. nm' \in Managers
      BY <1>0, <2>1 DEF Managers
    <2>3. nmOwner' \in Nat /\ wifiEvents' \in Nat
      BY <1>0, <2>1 DEF NoOwner
    <2> QED  BY <1>0, <2>1, <2>2, <2>3, ServiceMoves
  <1> QED  BY <1>1, <1>2, <1>3

LEMMA WifiInitSound ==
    ASSUME WifiBounds, WifiInit
    PROVE  WifiInv
  <1>1. RadioSound
    BY DEF WifiInit, RadioSound, NoAdapter, NoOperation, Radios, WifiOperations, WifiFailures,
           WifiResults, NoToken, WifiTimersArmed, ScanNeedsPage, Idle
  <1>2. TokensSound
    <2>1. networkTokens = <<>> /\ nextNetworkToken = 1 /\ named = {} /\ networkNumbering = 0
      BY DEF WifiInit
    <2>2. networkTokens \in Partial(Networks, 1..(nextNetworkToken - 1)) /\ DOMAIN networkTokens = {}
      BY <2>1, EmptyPartial
    <2> QED  BY <2>1, <2>2 DEF TokensSound
  <1>3. ListSound
    BY EmptyPartial DEF WifiInit, ListSound
  <1>4. ServiceSound
    <2>1. PICK n \in Networks : n = CHOOSE m \in Networks : TRUE
      BY DEF WifiBounds
    <2>2. nm = [wireless |-> TRUE, hardware |-> TRUE, device |-> TRUE, saved |-> {n}, active |-> n,
                wanted |-> NoNetwork, state |-> "activated", scan |-> -1]
      BY <2>1 DEF WifiInit
    <2>3. nm \in Managers
      BY <2>2 DEF Managers
    <2> QED  BY <2>3 DEF WifiInit, ServiceSound
  <1>5. CountsSound
    BY DEF WifiInit, CountsSound, NoOwner, NoScan, Scans
  <1> QED  BY <1>1, <1>2, <1>3, <1>4, <1>5 DEF WifiInv

LEMMA WifiNextKeeps ==
    ASSUME WifiBounds, WifiInv, [WifiNext]_wifiVars
    PROVE  WifiInv' /\ SuccessStep
  <1>1. CASE HandleWifiCommand \/ OpenWifiPage
    BY <1>1, WifiCommandKeeps
  <1>2. CASE OnNetworkSignal \/ NetworkSnapshotDropped \/ UNCHANGED wifiVars
    BY <1>2, QuietNetworkKeeps
  <1>3. CASE OnNetworkOwnerChanged
    BY <1>3, OwnerChangedKeeps
  <1>4. CASE NetworkSnapshotFails
    BY <1>4, SnapshotFailsKeeps
  <1>5. CASE RefreshWithoutDevice
    BY <1>5, WithoutDeviceKeeps
  <1>6. CASE RefreshRadioOff
    BY <1>6, RadioOffKeeps
  <1>7. CASE \E read \in Readings, aged \in BOOLEAN : RefreshNetwork(read, aged)
    BY <1>7, RefreshKeeps
  <1>8. CASE OnWifiRequestTimeout \/ OnWifiOperationTimeout
    BY <1>8, WifiTimeoutsKeep
  <1>9. CASE \E c \in wifiCalls : CallFails(c, "backend") \/ CallSucceeds(c) \/ NetworkPerforms(c)
    BY <1>9, CallFailsKeeps, CallSucceedsKeeps, NetworkPerformsKeeps
  <1>10. CASE NetworkConnects \/ NetworkChanges \/ NetworkOwnerChanges
    BY <1>10, NetworkMovesKeeps
  <1> QED
    BY <1>1, <1>2, <1>3, <1>4, <1>5, <1>6, <1>7, <1>8, <1>9, <1>10 DEF WifiNext

LEMMA WifiReached ==
    ASSUME WifiBounds
    PROVE  WifiSpec => []WifiInv
  <1>1. WifiInit => WifiInv
    BY WifiInitSound
  <1>2. WifiInv /\ [WifiNext]_wifiVars => WifiInv'
    BY WifiNextKeeps
  <1> QED  BY <1>1, <1>2, PTL DEF WifiSpec

-----------------------------------------------------------------------------
(* Wi-Fi: what the tokens that are in use stand for.                        *)

ShownNamed ==
    \A n \in DOMAIN wifiNetworks : <<networkNumbering, wifiNetworks[n].token, n>> \in named

(* A call that is listened to is about the network that the operation names.*)
Matches(c) ==
    /\ c.generation <= wifiEvents
    /\ wifiOperation.kind = c.kind /\ wifiOperation.generation = c.generation =>
          <<networkNumbering, wifiOperation.target, c.what>> \in named
Targeted == {c \in wifiCalls : c.kind \in {"connecting", "forgetting"}}
CallsMatch == \A c \in Targeted : Matches(c)
WifiMeaning == ShownNamed /\ CallsMatch

AnswerStep ==
    WifiEnds =>
        \A c \in Answered :
            c.kind \in {"connecting", "forgetting"} => Names(wifiOperation.target, c.what)

(* Old calls, and an operation that is the one that was, or not of a kind   *)
(* that names a network.                                                    *)
LEMMA MatchKept ==
    ASSUME WifiInv, CallsMatch, wifiEvents' \in Nat, wifiEvents <= wifiEvents',
           \A c \in Targeted' : \E d \in Targeted :
              c.kind = d.kind /\ c.generation = d.generation /\ c.what = d.what,
           \/ wifiOperation'.kind \notin {"connecting", "forgetting"}
           \/ wifiOperation'.kind = wifiOperation.kind /\ wifiOperation'.generation > wifiEvents
           \/ /\ wifiOperation'.kind = wifiOperation.kind
              /\ wifiOperation'.generation = wifiOperation.generation
              /\ wifiOperation'.target = wifiOperation.target
              /\ networkNumbering' = networkNumbering /\ named \subseteq named'
    PROVE  CallsMatch'
  <1> SUFFICES ASSUME NEW c \in Targeted' PROVE Matches(c)'
    BY DEF CallsMatch
  <1>1. PICK d \in Targeted : c.kind = d.kind /\ c.generation = d.generation /\ c.what = d.what
    OBVIOUS
  <1>2. d \in WifiCallKinds /\ wifiEvents \in Nat
    BY WifiInvSplit DEF ServiceSound, CountsSound, Targeted
  <1>3. d.generation \in Nat
    BY <1>2 DEF WifiCallKinds, WifiCallsOf
  <1>4. Matches(d) /\ d.kind \in {"connecting", "forgetting"}
    BY DEF CallsMatch, Targeted
  <1>5. c.generation <= wifiEvents'
    BY <1>1, <1>2, <1>3, <1>4 DEF Matches
  <1>6. CASE wifiOperation'.kind \notin {"connecting", "forgetting"}
    BY <1>1, <1>4, <1>5, <1>6 DEF Matches
  <1>7. CASE wifiOperation'.generation > wifiEvents
    <2>1. c.generation <= wifiEvents
      BY <1>1, <1>4 DEF Matches
    <2>2. wifiOperation'.generation # c.generation
      BY <1>1, <1>2, <1>3, <1>7, <2>1
    <2> QED  BY <1>5, <2>2 DEF Matches
  <1>8. CASE /\ wifiOperation'.kind = wifiOperation.kind
             /\ wifiOperation'.generation = wifiOperation.generation
             /\ wifiOperation'.target = wifiOperation.target
             /\ networkNumbering' = networkNumbering /\ named \subseteq named'
    BY <1>1, <1>4, <1>5, <1>8 DEF Matches
  <1> QED  BY <1>6, <1>7, <1>8

(* The steps that leave every name as it is, and the calls or the operation.*)
LEMMA MeaningKept ==
    ASSUME WifiInv, WifiMeaning, wifiEvents' \in Nat, wifiEvents <= wifiEvents',
           wifiCalls' \subseteq wifiCalls,
           \/ wifiOperation' = wifiOperation
           \/ wifiOperation'.kind \notin {"connecting", "forgetting"}
           \/ wifiOperation'.kind = wifiOperation.kind /\ wifiOperation'.generation > wifiEvents,
           networkNumbering' = networkNumbering, named \subseteq named',
           wifiNetworks' = wifiNetworks \/ wifiNetworks' = <<>>
    PROVE  WifiMeaning'
  <1>1. ShownNamed'
    <2>1. CASE wifiNetworks' = wifiNetworks
      BY <2>1 DEF WifiMeaning, ShownNamed
    <2>2. CASE wifiNetworks' = <<>>
      BY <2>2 DEF ShownNamed
    <2> QED  BY <2>1, <2>2
  <1>2. CallsMatch'
    <2>1. Targeted' \subseteq Targeted
      BY DEF Targeted
    <2> QED  BY <2>1, MatchKept DEF WifiMeaning
  <1> QED  BY <1>1, <1>2 DEF WifiMeaning

(* The tokens are taken back: no operation is left, and no list.            *)
LEMMA MeaningCleared ==
    ASSUME WifiInv, WifiMeaning, NEW failure, ClearWifiManagerState(failure), UNCHANGED wifiCalls,
           wifiEvents' \in Nat, wifiEvents <= wifiEvents'
    PROVE  WifiMeaning'
  <1>1. wifiNetworks' = <<>> /\ wifiOperation'.kind = "idle"
    BY DEF ClearWifiManagerState, NoOperation
  <1>2. ShownNamed'
    BY <1>1 DEF ShownNamed
  <1>3. Targeted' = Targeted
    BY DEF Targeted
  <1> QED  BY <1>1, <1>2, <1>3, MatchKept DEF WifiMeaning

LEMMA FinishedKind ==
    ASSUME NEW op, NEW failure, NEW result, op \in WifiOperations
    PROVE  FinishWifiOperation(op, failure, result).kind = "idle"
  BY DEF FinishWifiOperation, WifiOperations

LEMMA EventsKept ==
    ASSUME WifiInv, wifiEvents' = wifiEvents \/ Counted
    PROVE  wifiEvents' \in Nat /\ wifiEvents <= wifiEvents'
  BY WifiInvSplit DEF CountsSound, Counted

(* An operation that begins under the number of this moment, on a token that*)
(* stands for the network of its call.                                      *)
LEMMA MeaningBegun ==
    ASSUME WifiInv, WifiMeaning, NEW kind \in {"connecting", "forgetting"}, NEW n, NEW token,
           Counted, wifiOperation'.target = token,
           wifiCalls' = wifiCalls \cup Calls(kind, wifiEvents', n),
           <<networkNumbering, token, n>> \in named',
           networkNumbering' = networkNumbering, wifiOperation'.generation = wifiEvents'
    PROVE  CallsMatch'
  <1> SUFFICES ASSUME NEW c \in Targeted' PROVE Matches(c)'
    BY DEF CallsMatch
  <1>1. wifiEvents \in Nat /\ wifiEvents' = wifiEvents + 1
    BY WifiInvSplit DEF CountsSound, Counted
  <1>2. CASE c \in Calls(kind, wifiEvents', n)
    BY <1>1, <1>2 DEF Calls, Matches
  <1>3. CASE c \in Targeted
    <2>1. c \in WifiCallKinds
      BY <1>3, WifiInvSplit DEF ServiceSound, Targeted
    <2>2. c.generation \in Nat
      BY <2>1 DEF WifiCallKinds, WifiCallsOf
    <2>3. c.generation <= wifiEvents
      BY <1>3 DEF WifiMeaning, CallsMatch, Matches
    <2> QED  BY <1>1, <2>2, <2>3 DEF Matches
  <1> QED  BY <1>2, <1>3 DEF Targeted

LEMMA CommandMeans ==
    ASSUME WifiBounds, WifiInv, WifiMeaning, HandleWifiCommand \/ OpenWifiPage
    PROVE  WifiMeaning' /\ wifiCalls \subseteq wifiCalls'
  <1> DEFINE id == wifiEvents'
  <1>0. /\ wifiOperation \in WifiOperations /\ wifiEvents \in Nat /\ TokensSound
        /\ id \in Nat /\ wifiEvents <= id
    BY StateIs, EventsKept DEF HandleWifiCommand, OpenWifiPage, CountsSound
  <1>1. CASE \E interested \in BOOLEAN, at \in Nat : SetWifiInterest(at, interested)
    <2>1. PICK interested \in BOOLEAN, at \in Nat : SetWifiInterest(at, interested)
      BY <1>1
    <2>2. UNCHANGED <<wifiNetworks, networkNames, wifiCalls>>
      BY <2>1 DEF SetWifiInterest
    <2>3. wifiOperation' = wifiOperation \/ wifiOperation'.kind = "idle"
      <3>1. PICK f \in WifiOperations :
               f = FinishWifiOperation(wifiOperation, "none", "cancelled") /\ f.kind = "idle"
        BY <1>0, WifiFinished DEF WifiFailures, WifiResults
      <3>2. [f EXCEPT !.generation = at].kind = "idle"
        BY <3>1 DEF WifiOperations
      <3> QED  BY <2>1, <3>1, <3>2 DEF SetWifiInterest
    <2> QED  BY <1>0, <2>2, <2>3, MeaningKept DEF networkNames
  <1>2. CASE HandleWifiCommand /\ \E on \in BOOLEAN : RequestWifi(id, on)
    <2>1. PICK on \in BOOLEAN : RequestWifi(id, on)
      BY <1>2
    <2>2. UNCHANGED networkNames
      BY <2>1 DEF RequestWifi
    <2>3. \/ UNCHANGED <<wifiOperation, wifiNetworks, wifiCalls>>
          \/ SwitchRadio(id, on)
      BY <2>1 DEF RequestWifi, Reject
    <2>4. CASE UNCHANGED <<wifiOperation, wifiNetworks, wifiCalls>>
      BY <1>0, <2>2, <2>4, MeaningKept DEF networkNames
    <2>5. CASE SwitchRadio(id, on)
      <3>1. /\ wifiOperation' = BeginWifiOperation(Replaced(wifiOperation), "radio", id)
            /\ wifiNetworks' = wifiNetworks \/ wifiNetworks' = <<>>
            /\ wifiCalls' = wifiCalls \cup Calls("radio", id, on)
        BY <2>5 DEF SwitchRadio
      <3>2. wifiOperation'.kind = "radio"
        BY <1>0, <3>1, ReplacedIs DEF BeginWifiOperation, WifiOperations
      <3>3. Targeted' = Targeted
        BY <3>1 DEF Targeted, Calls
      <3>4. CallsMatch'
        BY <1>0, <3>2, <3>3, MatchKept DEF WifiMeaning
      <3>5. ShownNamed'
        <4>1. CASE wifiNetworks' = wifiNetworks
          BY <2>2, <4>1 DEF ShownNamed, WifiMeaning, networkNames
        <4>2. CASE wifiNetworks' = <<>>
          BY <4>2 DEF ShownNamed
        <4> QED  BY <3>1, <4>1, <4>2
      <3> QED  BY <3>1, <3>4, <3>5 DEF WifiMeaning
    <2> QED  BY <2>3, <2>4, <2>5
  <1>3. CASE HandleWifiCommand /\ (RequestScan(id) \/ RequestDisconnect(id))
    <2>1. UNCHANGED <<networkNames, wifiNetworks>>
      BY <1>3 DEF RequestScan, RequestDisconnect
    <2>2. \/ \E failure : Overwritten(id, failure) /\ UNCHANGED wifiCalls
          \/ \E kind \in {"scanning", "disconnecting"} :
                /\ wifiOperation' = BeginWifiOperation(wifiOperation, kind, id)
                /\ wifiCalls' = wifiCalls \cup Calls(kind, id, NoNetwork)
          \/ UNCHANGED <<wifiOperation, wifiCalls>>
      BY <1>3 DEF RequestScan, RequestDisconnect
    <2>3. CASE \E failure : Overwritten(id, failure) /\ UNCHANGED wifiCalls
      <3>1. wifiOperation'.kind = wifiOperation.kind /\ wifiOperation'.generation = id
        BY <1>0, <2>3 DEF Overwritten, WifiOperations
      <3>2. id > wifiEvents
        BY <1>0, <1>3 DEF HandleWifiCommand, Counted
      <3> QED  BY <1>0, <2>1, <2>3, <3>1, <3>2, MeaningKept DEF networkNames
    <2>4. CASE \E kind \in {"scanning", "disconnecting"} :
                /\ wifiOperation' = BeginWifiOperation(wifiOperation, kind, id)
                /\ wifiCalls' = wifiCalls \cup Calls(kind, id, NoNetwork)
      <3>1. PICK kind \in {"scanning", "disconnecting"} :
                /\ wifiOperation' = BeginWifiOperation(wifiOperation, kind, id)
                /\ wifiCalls' = wifiCalls \cup Calls(kind, id, NoNetwork)
        BY <2>4
      <3>2. wifiOperation'.kind = kind
        BY <1>0, <3>1 DEF BeginWifiOperation, WifiOperations
      <3>3. Targeted' = Targeted
        BY <3>1 DEF Targeted, Calls
      <3>4. CallsMatch'
        BY <1>0, <3>2, <3>3, MatchKept DEF WifiMeaning
      <3>5. ShownNamed'
        BY <2>1 DEF ShownNamed, WifiMeaning, networkNames
      <3> QED  BY <3>1, <3>4, <3>5 DEF WifiMeaning
    <2>5. CASE UNCHANGED <<wifiOperation, wifiCalls>>
      BY <1>0, <2>1, <2>5, MeaningKept DEF networkNames
    <2> QED  BY <2>2, <2>3, <2>4, <2>5
  <1>4. CASE /\ HandleWifiCommand
             /\ \E token \in 1..Cardinality(Networks) :
                   RequestVisibleConnection(id, token) \/ RequestForget(id, token)
    <2>1. PICK token \in 1..Cardinality(Networks) :
             RequestVisibleConnection(id, token) \/ RequestForget(id, token)
      BY <1>4
    <2>2. UNCHANGED <<networkNames, wifiNetworks>>
      BY <2>1 DEF RequestVisibleConnection, RequestForget
    <2>3. \/ Overwritten(id, "invalid") /\ UNCHANGED wifiCalls
          \/ \E n \in Shown(token), kind \in {"connecting", "forgetting"}, op \in WifiOperations :
                /\ wifiOperation' = [BeginWifiOperation(op, kind, id) EXCEPT !.target = token]
                /\ wifiCalls' = wifiCalls \cup Calls(kind, id, n)
          \/ UNCHANGED <<wifiOperation, wifiCalls>>
      BY <1>0, <2>1, ReplacedIs DEF RequestVisibleConnection, RequestForget, DispatchConnection
    <2>4. CASE Overwritten(id, "invalid") /\ UNCHANGED wifiCalls
      <3>1. wifiOperation'.kind = wifiOperation.kind /\ wifiOperation'.generation = id
        BY <1>0, <2>4 DEF Overwritten, WifiOperations
      <3>2. id > wifiEvents
        BY <1>0, <1>4 DEF HandleWifiCommand, Counted
      <3> QED  BY <1>0, <2>2, <2>4, <3>1, <3>2, MeaningKept DEF networkNames
    <2>5. CASE \E n \in Shown(token), kind \in {"connecting", "forgetting"}, op \in WifiOperations :
                /\ wifiOperation' = [BeginWifiOperation(op, kind, id) EXCEPT !.target = token]
                /\ wifiCalls' = wifiCalls \cup Calls(kind, id, n)
      <3>1. PICK n \in Shown(token), kind \in {"connecting", "forgetting"}, op \in WifiOperations :
                /\ wifiOperation' = [BeginWifiOperation(op, kind, id) EXCEPT !.target = token]
                /\ wifiCalls' = wifiCalls \cup Calls(kind, id, n)
        BY <2>5
      <3>2. <<networkNumbering, token, n>> \in named'
        BY <2>2 DEF Shown, WifiMeaning, ShownNamed, networkNames
      <3>3. wifiOperation'.target = token /\ wifiOperation'.generation = id
        BY <3>1 DEF BeginWifiOperation, WifiOperations
      <3>4. CallsMatch'
        BY <1>4, <2>2, <3>1, <3>2, <3>3, MeaningBegun DEF HandleWifiCommand, networkNames
      <3>5. ShownNamed'
        BY <2>2 DEF ShownNamed, WifiMeaning, networkNames
      <3> QED  BY <3>1, <3>4, <3>5 DEF WifiMeaning
    <2>6. CASE UNCHANGED <<wifiOperation, wifiCalls>>
      BY <1>0, <2>2, <2>6, MeaningKept DEF networkNames
    <2> QED  BY <2>3, <2>4, <2>5, <2>6
  <1>5. CASE HandleWifiCommand /\ \E n \in Networks : RequestHiddenConnection(id, n)
    <2>1. PICK n \in Networks : RequestHiddenConnection(id, n)
      BY <1>5
    <2>2. wifiNetworks' = wifiNetworks
      BY <2>1 DEF RequestHiddenConnection
    <2>3. CASE TakeTokens({n}) /\ DispatchConnection(id, n, TokensFor({n})[n])
      <3> DEFINE token == TokensFor({n})[n]
      <3>1. networkTokens' = TokensFor({n})
        BY <2>3 DEF TakeTokens
      <3>2. /\ named \subseteq named' /\ networkNumbering' = networkNumbering
            /\ Names(token, n)
        <4>1. {n} \in SUBSET Networks
          OBVIOUS
        <4> QED  BY <1>0, <2>3, <3>1, <4>1, TakenTokens
      <3> HIDE DEF token
      <3>3. ShownNamed'
        BY <2>2, <3>2 DEF ShownNamed, WifiMeaning
      <3>4. \/ UNCHANGED <<wifiOperation, wifiCalls>>
            \/ \E op \in WifiOperations :
                  /\ wifiOperation' = [BeginWifiOperation(op, "connecting", id) EXCEPT !.target = token]
                  /\ wifiCalls' = wifiCalls \cup Calls("connecting", id, n)
        BY <1>0, <2>3, ReplacedIs DEF DispatchConnection, token
      <3>5. CASE UNCHANGED <<wifiOperation, wifiCalls>>
        BY <1>0, <2>2, <3>2, <3>5, MeaningKept
      <3>6. CASE \E op \in WifiOperations :
                  /\ wifiOperation' = [BeginWifiOperation(op, "connecting", id) EXCEPT !.target = token]
                  /\ wifiCalls' = wifiCalls \cup Calls("connecting", id, n)
        <4>1. wifiOperation'.target = token /\ wifiOperation'.generation = id
          BY <3>6 DEF BeginWifiOperation, WifiOperations
        <4>2. CallsMatch'
          BY <1>5, <3>2, <3>6, <4>1, MeaningBegun DEF HandleWifiCommand, Names
        <4> QED  BY <3>3, <3>6, <4>2 DEF WifiMeaning
      <3> QED  BY <3>4, <3>5, <3>6
    <2>4. CASE Overwritten(id, "invalid") /\ UNCHANGED <<networkNames, wifiCalls>>
      <3>1. wifiOperation'.kind = wifiOperation.kind /\ wifiOperation'.generation = id
        BY <1>0, <2>4 DEF Overwritten, WifiOperations
      <3>2. id > wifiEvents
        BY <1>0, <1>5 DEF HandleWifiCommand, Counted
      <3> QED  BY <1>0, <2>2, <2>4, <3>1, <3>2, MeaningKept DEF networkNames
    <2> QED  BY <2>1, <2>3, <2>4 DEF RequestHiddenConnection
  <1>6. \/ OpenWifiPage => SetWifiInterest(wifiEvents, TRUE)
        \/ FALSE
    BY DEF OpenWifiPage
  <1>7. CASE OpenWifiPage
    BY <1>0, <1>1, <1>6, <1>7
  <1>8. CASE HandleWifiCommand
    BY <1>0, <1>1, <1>2, <1>3, <1>4, <1>5, <1>8 DEF HandleWifiCommand
  <1> QED  BY <1>7, <1>8

LEMMA RefreshMeans ==
    ASSUME WifiBounds, WifiInv, WifiMeaning, NEW read \in Readings, NEW aged \in BOOLEAN,
           RefreshNetwork(read, aged)
    PROVE  WifiMeaning' /\ wifiCalls \subseteq wifiCalls'
  <1>0. TokensSound /\ wifiOperation \in WifiOperations /\ SettledOperation \in WifiOperations
        /\ wifiEvents \in Nat
    BY WifiInvSplit, StateIs, ObservedIs DEF CountsSound
  <1>1. RebuildNetworks(read)
    BY DEF RefreshNetwork
  <1>2. ShownNamed' /\ named \subseteq named' /\ networkNumbering' = networkNumbering
    <2>1. CASE read.listed
      <3>1. TakeTokens(Networks) /\ Networks \in SUBSET Networks
        BY <1>1, <2>1 DEF RebuildNetworks
      <3>2. /\ \A n \in Networks : Names(networkTokens'[n], n)
            /\ named \subseteq named' /\ networkNumbering' = networkNumbering
        BY <1>0, <3>1, TakenTokens
      <3>3. /\ DOMAIN wifiNetworks' = Networks
            /\ \A n \in Networks : wifiNetworks'[n].token = networkTokens'[n]
        BY <1>1, <2>1 DEF RebuildNetworks
      <3> QED  BY <3>2, <3>3 DEF ShownNamed, Names
    <2>2. CASE ~read.listed
      BY <1>1, <2>2 DEF RebuildNetworks, ShownNamed, networkNames
    <2> QED  BY <2>1, <2>2
  <1>3. Targeted' = Targeted /\ wifiCalls \subseteq wifiCalls'
    <2>1. \/ wifiCalls' = wifiCalls
          \/ wifiCalls' = wifiCalls \cup Calls("scanning", nextOperationGeneration, NoNetwork)
      BY DEF RefreshNetwork
    <2>2. \A c \in Calls("scanning", nextOperationGeneration, NoNetwork) : c.kind = "scanning"
      BY DEF Calls
    <2> QED  BY <2>1, <2>2 DEF Targeted
  <1>4. wifiEvents' \in Nat /\ wifiEvents <= wifiEvents'
    <2>1. wifiEvents' = wifiEvents \/ Counted
      BY DEF RefreshNetwork
    <2> QED  BY <2>1, EventsKept
  <1>5. wifiOperation' = wifiOperation \/ wifiOperation'.kind \notin {"connecting", "forgetting"}
    <2>1. \/ \E failure, result : wifiOperation' = FinishWifiOperation(wifiOperation, failure, result)
          \/ wifiOperation' = SettledOperation
          \/ wifiOperation' =
               BeginWifiOperation(SettledOperation, "scanning", nextOperationGeneration)
      BY DEF RefreshNetwork
    <2>2. SettledOperation = wifiOperation \/ SettledOperation.kind = "idle"
      BY <1>0, FinishedKind DEF SettledOperation
    <2>3. BeginWifiOperation(SettledOperation, "scanning", nextOperationGeneration).kind = "scanning"
      BY <1>0 DEF BeginWifiOperation, WifiOperations
    <2> QED  BY <1>0, <2>1, <2>2, <2>3, FinishedKind
  <1> QED  BY <1>2, <1>3, <1>4, <1>5, MatchKept DEF WifiMeaning

(* The other steps of the helper that listen to no reply.                   *)
LEMMA QuietMeans ==
    ASSUME WifiInv, WifiMeaning,
           \/ OnNetworkSignal \/ OnNetworkOwnerChanged
           \/ NetworkSnapshotFails \/ NetworkSnapshotDropped
           \/ RefreshWithoutDevice \/ RefreshRadioOff
           \/ OnWifiRequestTimeout \/ OnWifiOperationTimeout \/ UNCHANGED wifiVars
    PROVE  WifiMeaning' /\ wifiCalls' = wifiCalls
  <1>0. wifiOperation \in WifiOperations /\ SettledOperation \in WifiOperations
    BY WifiInvSplit, StateIs, ObservedIs
  <1>1. CASE OnNetworkSignal \/ NetworkSnapshotDropped \/ UNCHANGED wifiVars
    BY <1>1, EventsKept, MeaningKept
       DEF OnNetworkSignal, NetworkSnapshotDropped, wifiVars, wifiShown, wifiHidden, networkNames
  <1>2. CASE OnNetworkOwnerChanged
    BY <1>2, EventsKept, MeaningCleared DEF OnNetworkOwnerChanged
  <1>3. CASE NetworkSnapshotFails
    <2>1. wifiEvents' = wifiEvents \/ Counted
      BY <1>3 DEF NetworkSnapshotFails
    <2> QED  BY <1>3, <2>1, EventsKept, MeaningCleared DEF NetworkSnapshotFails
  <1>4. CASE RefreshWithoutDevice \/ RefreshRadioOff
    <2>1. \/ wifiOperation' \in {wifiOperation, SettledOperation}
          \/ \E op \in {wifiOperation, SettledOperation} : \E failure, result :
                wifiOperation' = FinishWifiOperation(op, failure, result)
      BY <1>4 DEF RefreshWithoutDevice, RefreshRadioOff
    <2>2. SettledOperation = wifiOperation \/ SettledOperation.kind = "idle"
      BY <1>0, FinishedKind DEF SettledOperation
    <2>3. wifiOperation' = wifiOperation \/ wifiOperation'.kind = "idle"
      BY <1>0, <2>1, <2>2, FinishedKind
    <2>4. /\ wifiNetworks' = <<>> /\ UNCHANGED <<networkNames, wifiCalls, wifiEvents>>
      BY <1>4 DEF RefreshWithoutDevice, RefreshRadioOff, wifiHidden
    <2> QED  BY <2>3, <2>4, EventsKept, MeaningKept DEF networkNames
  <1>5. CASE OnWifiRequestTimeout \/ OnWifiOperationTimeout
    <2>1. wifiOperation' = wifiOperation \/ wifiOperation'.kind = "idle"
      BY <1>0, <1>5, FinishedKind DEF OnWifiRequestTimeout, OnWifiOperationTimeout, FailRequest
    <2>2. UNCHANGED <<wifiNetworks, networkNames, wifiCalls, wifiEvents>>
      BY <1>5 DEF OnWifiRequestTimeout, OnWifiOperationTimeout, wifiHidden
    <2> QED  BY <2>1, <2>2, EventsKept, MeaningKept DEF networkNames
  <1> QED  BY <1>1, <1>2, <1>3, <1>4, <1>5

LEMMA FailureMeans ==
    ASSUME WifiInv, WifiMeaning, NEW c \in wifiCalls, CallFails(c, "backend")
    PROVE  WifiMeaning' /\ AnswerStep
  <1>0. wifiOperation \in WifiOperations
    BY StateIs
  <1>1. /\ wifiCalls' = wifiCalls \ {c}
        /\ UNCHANGED <<wifiNetworks, networkNames, wifiEvents>>
    BY DEF CallFails, wifiHidden
  <1>2. \/ wifiOperation' = wifiOperation
        \/ /\ wifiOperation' = FinishWifiOperation(wifiOperation, "backend", "none")
           /\ Awaits(c)
    BY Zenon DEF CallFails, FailRequest
  <1>3. wifiOperation' = wifiOperation \/ wifiOperation'.kind = "idle"
    BY <1>0, <1>2, FinishedKind
  <1>4. WifiMeaning'
    BY <1>1, <1>3, EventsKept, MeaningKept DEF networkNames
  <1>5. AnswerStep
    <2> SUFFICES ASSUME WifiEnds, c \in Targeted PROVE Names(wifiOperation.target, c.what)
      BY <1>1 DEF AnswerStep, Answered, Targeted
    <2>1. Awaits(c) /\ Matches(c) /\ c.kind \in {"connecting", "forgetting"}
      BY <1>2 DEF WifiEnds, WifiMeaning, CallsMatch, Targeted
    <2> QED  BY <1>1, <2>1 DEF Awaits, Matches, Names, networkNames
  <1> QED  BY <1>4, <1>5

LEMMA SuccessMeans ==
    ASSUME WifiInv, WifiMeaning, NEW c \in wifiCalls, CallSucceeds(c)
    PROVE  WifiMeaning' /\ AnswerStep
  <1>0. wifiOperation \in WifiOperations /\ ListSound
    BY StateIs
  <1>1. wifiCalls' = wifiCalls \ {c} /\ UNCHANGED <<networkNames, wifiEvents>>
    BY DEF CallSucceeds, wifiHidden
  <1>2. \/ wifiOperation' = wifiOperation
        \/ /\ wifiOperation' = FinishWifiOperation(wifiOperation, "none", "forgotten")
           /\ Awaits(c)
    BY DEF CallSucceeds
  <1>3. wifiOperation' = wifiOperation \/ wifiOperation'.kind = "idle"
    BY <1>0, <1>2, FinishedKind
  <1>4. CallsMatch'
    <2>1. Targeted' \subseteq Targeted
      BY <1>1 DEF Targeted
    <2> QED  BY <1>1, <1>3, <2>1, EventsKept, MatchKept DEF WifiMeaning, networkNames
  <1>5. ShownNamed'
    <2>1. \A n \in DOMAIN wifiNetworks : wifiNetworks[n] \in Listings
      BY <1>0, PartialParts DEF ListSound
    <2>2. DOMAIN wifiNetworks' = DOMAIN wifiNetworks
          /\ \A n \in DOMAIN wifiNetworks : wifiNetworks'[n].token = wifiNetworks[n].token
      BY <2>1 DEF CallSucceeds, Listings
    <2> QED  BY <1>1, <2>2 DEF ShownNamed, WifiMeaning, networkNames
  <1>6. AnswerStep
    <2> SUFFICES ASSUME WifiEnds, c \in Targeted PROVE Names(wifiOperation.target, c.what)
      BY <1>1 DEF AnswerStep, Answered, Targeted
    <2>1. Awaits(c) /\ Matches(c) /\ c.kind \in {"connecting", "forgetting"}
      BY <1>2 DEF WifiEnds, WifiMeaning, CallsMatch, Targeted
    <2> QED  BY <1>1, <2>1 DEF Awaits, Matches, Names, networkNames
  <1> QED  BY <1>4, <1>5, <1>6 DEF WifiMeaning

LEMMA ServiceMeans ==
    ASSUME WifiInv, WifiMeaning,
           \/ \E c \in wifiCalls : NetworkPerforms(c)
           \/ NetworkConnects \/ NetworkChanges \/ NetworkOwnerChanges
    PROVE  WifiMeaning' /\ AnswerStep
  <1>1. UNCHANGED wifiShown /\ UNCHANGED wifiHidden
    BY DEF NetworkPerforms, NetworkConnects, NetworkChanges, NetworkOwnerChanges
  <1>2. UNCHANGED <<wifiOperation, wifiNetworks, networkNames>>
    BY <1>1 DEF wifiShown, wifiHidden
  <1>3. AnswerStep
    BY <1>2 DEF AnswerStep, WifiEnds
  <1>4. ShownNamed'
    BY <1>2 DEF ShownNamed, WifiMeaning, networkNames
  <1>5. wifiEvents' \in Nat /\ wifiEvents <= wifiEvents'
    <2>1. wifiEvents' = wifiEvents \/ Counted
      BY DEF NetworkPerforms, NetworkConnects, NetworkChanges, NetworkOwnerChanges
    <2> QED  BY <2>1, EventsKept
  <1>6. \A c \in Targeted' : \E d \in Targeted :
           c.kind = d.kind /\ c.generation = d.generation /\ c.what = d.what
    <2>1. CASE UNCHANGED wifiCalls
      BY <2>1 DEF Targeted
    <2>2. CASE \E c \in wifiCalls : NetworkPerforms(c)
      <3>1. PICK d \in wifiCalls : wifiCalls' = (wifiCalls \ {d}) \cup {[d EXCEPT !.phase = "done"]}
        BY <2>2 DEF NetworkPerforms
      <3> DEFINE done == [d EXCEPT !.phase = "done"]
      <3>2. done.kind = d.kind /\ done.generation = d.generation /\ done.what = d.what
        <4>1. d \in WifiCallKinds
          BY WifiInvSplit DEF ServiceSound
        <4> QED  BY <4>1 DEF WifiCallKinds, WifiCallsOf
      <3> HIDE DEF done
      <3> QED  BY <3>1, <3>2 DEF Targeted, done
    <2> QED  BY <2>1, <2>2 DEF NetworkConnects, NetworkChanges, NetworkOwnerChanges
  <1>7. CallsMatch'
    BY <1>2, <1>5, <1>6, MatchKept DEF WifiMeaning, networkNames
  <1> QED  BY <1>3, <1>4, <1>7 DEF WifiMeaning

LEMMA WifiMeans ==
    ASSUME WifiBounds, WifiInv, WifiMeaning, [WifiNext]_wifiVars
    PROVE  WifiMeaning' /\ AnswerStep
  <1>0. wifiCalls \subseteq wifiCalls' => AnswerStep
    BY DEF AnswerStep, Answered
  <1>1. CASE HandleWifiCommand \/ OpenWifiPage
    BY <1>0, <1>1, CommandMeans
  <1>2. CASE \/ OnNetworkSignal \/ OnNetworkOwnerChanged
             \/ NetworkSnapshotFails \/ NetworkSnapshotDropped
             \/ RefreshWithoutDevice \/ RefreshRadioOff
             \/ OnWifiRequestTimeout \/ OnWifiOperationTimeout \/ UNCHANGED wifiVars
    BY <1>0, <1>2, QuietMeans
  <1>3. CASE \E read \in Readings, aged \in BOOLEAN : RefreshNetwork(read, aged)
    BY <1>0, <1>3, RefreshMeans
  <1>4. CASE \E c \in wifiCalls : CallFails(c, "backend") \/ CallSucceeds(c) \/ NetworkPerforms(c)
    BY <1>4, FailureMeans, SuccessMeans, ServiceMeans
  <1>5. CASE NetworkConnects \/ NetworkChanges \/ NetworkOwnerChanges
    BY <1>5, ServiceMeans
  <1> QED  BY <1>1, <1>2, <1>3, <1>4, <1>5 DEF WifiNext

LEMMA WifiMeansAlways ==
    ASSUME WifiBounds
    PROVE  WifiSpec => [](WifiInv /\ WifiMeaning)
  <1>1. WifiInit => WifiInv /\ WifiMeaning
    <2> SUFFICES ASSUME WifiInit PROVE WifiMeaning
      BY WifiInitSound
    <2>1. wifiNetworks = <<>> /\ wifiCalls = {}
      BY DEF WifiInit
    <2> QED  BY <2>1 DEF WifiMeaning, ShownNamed, CallsMatch, Targeted
  <1>2. WifiInv /\ WifiMeaning /\ [WifiNext]_wifiVars => (WifiInv /\ WifiMeaning)'
    BY WifiNextKeeps, WifiMeans
  <1> QED  BY <1>1, <1>2, PTL DEF WifiSpec

(* Wi-Fi, always: a request or an operation has its timer running, so a     *)
(* NetworkManager that never answers cannot block the helper; from one      *)
(* taking back of the tokens to the next a token never stands for two       *)
(* networks, and the list shows none from before (which token means what    *)
(* may change whenever a snapshot fails, not only with NetworkManager); and *)
(* the radio scans only for an open page.                                   *)
THEOREM WifiIsSound ==
    ASSUME WifiBounds
    PROVE  WifiSpec => [](WifiTimersArmed /\ TokensNameOne /\ ScanNeedsPage)
  <1>1. WifiInv /\ WifiMeaning => WifiTimersArmed /\ TokensNameOne /\ ScanNeedsPage
    BY WifiInvSplit DEF RadioSound, TokensSound, WifiMeaning, ShownNamed, TokensNameOne
  <1> QED  BY <1>1, WifiMeansAlways, PTL

(* Success is what NetworkManager has or did: "connected", the network in   *)
(* use is the one for which the token of the command stands; "disconnected",*)
(* nothing is in use, or the snapshot could not read the access points or   *)
(* which one is in use; "forgotten", the profile was deleted; and           *)
(* "radio-updated", the radio is as asked.  A reply that ends a connection  *)
(* or a deletion is about the network that the operation names.             *)
THEOREM WifiSuccessIsReal ==
    ASSUME WifiBounds
    PROVE  WifiSpec => WifiIsReal
  <1>1. WifiInv /\ WifiMeaning /\ [WifiNext]_wifiVars => [SuccessStep /\ AnswerStep]_wifiVars
    BY WifiNextKeeps, WifiMeans
  <1>2. WifiSpec => [][SuccessStep /\ AnswerStep]_wifiVars
    BY <1>1, WifiMeansAlways, PTL DEF WifiSpec
  <1>3. SuccessStep /\ AnswerStep =>
        (WifiEnds =>
            /\ wifiOperation'.result = "connected" => Names(wifiOperation.target, nm.active)
            /\ wifiOperation'.result = "disconnected" => nm.active = NoNetwork \/ Misread
            /\ wifiOperation'.result = "forgotten" =>
                  \E c \in Answered : c.kind = "forgetting" /\ c.phase = "done"
            /\ wifiOperation'.result = "radio-updated" => nm.device /\ nm.wireless = wifi.target
            /\ \A c \in Answered :
                  c.kind \in {"connecting", "forgetting"} => Names(wifiOperation.target, c.what))
    BY DEF SuccessStep, AnswerStep
  <1> QED  BY <1>2, <1>3, PTL DEF WifiIsReal
-----------------------------------------------------------------------------
(* Bluetooth: what a step has to show.                                      *)

PowerIs(b) == b \in Powers /\ (b.pending => b.timer)

(* An operation, a discovery and a prompt that may be together.             *)
Searching(op, disc, reply, interest, numbering, names) ==
    /\ op \in BluetoothOperations
    /\ disc \in Discoveries /\ (disc.active => disc.timer)
    /\ disc.active => interest /\ op.kind \in {"discovering", "idle"}
    /\ reply \in Devices \cup {NoDevice}
    /\ reply # NoDevice => op.kind = "pairing" /\ <<numbering, op.target, reply>> \in names
    /\ op.kind \in OnDevice => \E d \in Devices : <<numbering, op.target, d>> \in names

OperationSound ==
    Searching(bluetoothOperation, discovery, pendingAgentReply, bluetoothInterest,
              deviceNumbering, deviceNamed)
ReplySound ==
    Searching(bluetoothOperation', discovery, pendingAgentReply', bluetoothInterest,
              deviceNumbering, deviceNamed)

(* The operation that runs is the one that ran, or none that a call knows.  *)
OperationFollows ==
    bluetoothOperation'.kind \in OnDevice =>
        /\ deviceNumbering' = deviceNumbering /\ deviceNamed \subseteq deviceNamed'
        /\ \/ /\ bluetoothOperation.kind = bluetoothOperation'.kind
              /\ bluetoothOperation'.generation = bluetoothOperation.generation
              /\ bluetoothOperation'.target = bluetoothOperation.target
           \/ bluetoothOperation'.generation > bluetoothEvents

(* What the result of an ended operation says is so, or was.                *)
RealStep ==
    BluetoothEnds =>
        /\ bluetoothOperation'.result = "connected" => \E d \in Devices : OfTarget(d) /\ IsConnected(d)
        /\ bluetoothOperation'.result = "disconnected" => \A d \in Target(devices) : ~IsConnected(d)
        /\ bluetoothOperation'.result = "unpaired" => \A d \in Target(devices) : ~IsPaired(d)
        /\ bluetoothOperation'.result \in {"paired", "paired-connected"} =>
              \E d \in everPaired : OfTarget(d)
        /\ bluetoothOperation'.result = "paired-connected" =>
              \E c \in BluetoothAnswered : c.kind = "pair-connect" /\ c.phase = "done"

Quiet == {"none", "cancelled", "stopped", "expired", "replaced", "backend"}

LEMMA BluetoothSplit ==
    ASSUME BluetoothInv
    PROVE  /\ PowerSound /\ SearchSound /\ TargetNamed /\ DevicesSound /\ BluezSound /\ Dormant
           /\ OwnersSound /\ CallsSound /\ FlagsSound
  BY DEF BluetoothInv

LEMMA HelperIs ==
    ASSUME BluetoothInv
    PROVE  /\ PowerIs(bluetooth) /\ bluetooth \in Powers
           /\ OperationSound
           /\ bluetoothOperation \in BluetoothOperations /\ discovery \in Discoveries
           /\ pendingAgentReply \in Devices \cup {NoDevice} /\ bluetoothInterest \in BOOLEAN
           /\ bluezRefreshScheduled \in BOOLEAN /\ agentRegistered \in BOOLEAN
           /\ expiryTimer \in BOOLEAN
           /\ bluez \in Daemons /\ everPaired \subseteq Devices /\ adapters \in Partial(Adapters, BOOLEAN)
           /\ bluetoothEvents \in Nat /\ bluetoothScans \in Nat
  BY BluetoothSplit
     DEF PowerSound, PowerIs, SearchSound, TargetNamed, Searching, OperationSound,
         PromptIsPairing, FlagsSound, BluezSound, OwnersSound

LEMMA SearchMoves ==
    ASSUME OperationSound'
    PROVE  SearchSound' /\ TargetNamed'
  BY DEF SearchSound, TargetNamed, Searching, OperationSound, PromptIsPairing

LEMMA SameDevices ==
    ASSUME DevicesSound, UNCHANGED <<devices, nextDeviceToken, deviceNumbering, deviceNamed>>
    PROVE  DevicesSound'
  BY DEF DevicesSound, DeviceTokensNameOne

(* The tokens are taken back, and nothing was named under the new number.   *)
LEMMA NoDevices ==
    ASSUME DevicesSound, devices' = <<>>, ForgetDeviceTokens
    PROVE  DevicesSound'
  <1>1. devices' \in Partial(Devices, Remotes) /\ DOMAIN devices' = {}
    BY EmptyPartial
  <1>2. /\ deviceNumbering \in Nat /\ nextDeviceToken' = 1 /\ deviceNamed' = deviceNamed
        /\ deviceNamed \subseteq (0..deviceNumbering) \X Nat \X Devices
        /\ \A s \in deviceNamed : s[1] = deviceNumbering => s[2] \in 1..(nextDeviceToken - 1)
        /\ \A s, t \in deviceNamed : s[1] = t[1] /\ s[2] = t[2] => s = t
    BY DEF DevicesSound, DeviceTokensNameOne, ForgetDeviceTokens
  <1>3. \A s \in deviceNamed : s[1] \in 0..deviceNumbering
    BY <1>2
  <1>4. CASE nextDeviceToken = 1 /\ deviceNumbering' = deviceNumbering
    <2>1. \A s \in deviceNamed : s[1] # deviceNumbering
      BY <1>2, <1>4
    <2> QED  BY <1>1, <1>2, <1>4, <2>1 DEF DevicesSound, DeviceTokensNameOne
  <1>5. CASE deviceNumbering' = deviceNumbering + 1
    <2>1. \A s \in deviceNamed : s[1] # deviceNumbering'
      BY <1>2, <1>3, <1>5
    <2>2. deviceNumbering' \in Nat /\ deviceNamed \subseteq (0..deviceNumbering') \X Nat \X Devices
      BY <1>2, <1>5
    <2> QED  BY <1>1, <1>2, <2>1, <2>2 DEF DevicesSound, DeviceTokensNameOne
  <1> QED  BY <1>4, <1>5 DEF ForgetDeviceTokens

LEMMA CallKept ==
    ASSUME BluetoothInv, OperationFollows, NEW c \in bluetoothCalls,
           bluezOwner' = bluezOwner, busName' = busName, bluez'.pairing = bluez.pairing,
           everPaired \subseteq everPaired',
           bluetoothEvents' \in {bluetoothEvents, bluetoothEvents + 1}
    PROVE  c \in BluetoothCallKinds /\ CallSound(c)'
  <1>1. c \in BluetoothCallKinds /\ CallSound(c) /\ bluetoothEvents \in Nat
    BY BluetoothSplit DEF CallsSound, OwnersSound
  <1>2. c.generation \in Nat /\ c.owner \in Nat
    BY <1>1 DEF BluetoothCallKinds, DeviceCalls, BluetoothCallsOf
  <1>3. c.owner \in 1..(bluetoothEvents' + 1) /\ c.generation <= bluetoothEvents'
    BY <1>1, <1>2 DEF CallSound
  <1>4. /\ c.owner = busName' => bluezOwner' = busName'
        /\ c.phase = "running" /\ c.owner = busName' => bluez'.pairing = c.device
        /\ c.phase = "running" => c.kind = "pairing"
        /\ c.kind = "pairing" /\ c.phase = "done" /\ c.owner = bluezOwner' => c.device \in everPaired'
        /\ c.kind = "pair-connect" => c.device \in everPaired'
    BY <1>1 DEF CallSound
  <1>5. ASSUME c.kind \in OnDevice \cup {"pair-connect"}, c.owner = bluezOwner',
               bluetoothOperation'.kind = Awaiting(c), bluetoothOperation'.generation = c.generation
        PROVE  <<deviceNumbering', bluetoothOperation'.target, c.device>> \in deviceNamed'
    <2>0. bluetoothOperation'.kind \in OnDevice
      BY <1>5 DEF Awaiting, OnDevice
    <2>1. bluetoothOperation'.generation <= bluetoothEvents
      BY <1>1, <1>5 DEF CallSound
    <2>2. ~(bluetoothOperation'.generation > bluetoothEvents)
      BY <1>1, <1>2, <1>5, <2>1
    <2>3. /\ deviceNumbering' = deviceNumbering /\ deviceNamed \subseteq deviceNamed'
          /\ bluetoothOperation.kind = bluetoothOperation'.kind
          /\ bluetoothOperation'.generation = bluetoothOperation.generation
          /\ bluetoothOperation'.target = bluetoothOperation.target
      BY <2>0, <2>2 DEF OperationFollows
    <2>4. <<deviceNumbering, bluetoothOperation.target, c.device>> \in deviceNamed
      BY <1>1, <1>5, <2>3 DEF CallSound
    <2> QED  BY <2>3, <2>4
  <1>6. Awaiting(c)' = Awaiting(c)
    BY DEF Awaiting
  <1> QED  BY <1>1, <1>3, <1>4, <1>5, <1>6 DEF CallSound

(* The helper moves: BlueZ, its name and what it pairs stay.                *)
LEMMA HelperMoves ==
    ASSUME BluetoothInv, PowerIs(bluetooth'),
           OperationSound',
           OperationFollows, DevicesSound', Dormant',
           UNCHANGED <<bluezOwner, busName, everPaired>>,
           bluez' \in Daemons, bluez'.pairing = bluez.pairing,
           adapters' \in Partial(Adapters, BOOLEAN),
           bluetoothEvents' \in {bluetoothEvents, bluetoothEvents + 1}, bluetoothScans' \in Nat,
           {bluezRefreshScheduled', agentRegistered', expiryTimer', bluetoothInterest'} \subseteq BOOLEAN,
           \A c \in bluetoothCalls' \ bluetoothCalls : c \in BluetoothCallKinds /\ CallSound(c)'
    PROVE  BluetoothInv'
  <1>0. BluezSound /\ OwnersSound
    BY BluetoothSplit
  <1>1. PowerSound'
    BY DEF PowerSound, PowerIs
  <1>2. SearchSound' /\ TargetNamed'
    BY SearchMoves
  <1>3. BluezSound'
    BY <1>0 DEF BluezSound
  <1>4. OwnersSound'
    <2>1. /\ bluetoothEvents \in Nat /\ bluezOwner \in 0..(bluetoothEvents + 1)
          /\ busName \in 0..(bluetoothEvents + 1)
          /\ bluez.pairing # NoDevice => busName = bluezOwner
      BY <1>0 DEF OwnersSound
    <2>2. bluetoothEvents' \in Nat
      BY <2>1
    <2>3. /\ bluezOwner \in 0..(bluetoothEvents' + 1)
          /\ busName \in 0..(bluetoothEvents' + 1)
      <3>1. CASE bluetoothEvents' = bluetoothEvents
        BY <2>1, <3>1
      <3>2. CASE bluetoothEvents' = bluetoothEvents + 1
        BY <2>1, <3>2
      <3> QED  BY <3>1, <3>2
    <2> QED  BY <2>1, <2>2, <2>3 DEF OwnersSound
  <1>5. \A c \in bluetoothCalls : c \in BluetoothCallKinds /\ CallSound(c)'
    BY CallKept
  <1>6. CallsSound'
    <2> SUFFICES ASSUME NEW c \in bluetoothCalls' PROVE c \in BluetoothCallKinds /\ CallSound(c)'
      BY DEF CallsSound
    <2> QED  BY <1>5
  <1>7. FlagsSound'
    BY DEF FlagsSound
  <1> QED  BY <1>1, <1>2, <1>3, <1>4, <1>6, <1>7 DEF BluetoothInv

LEMMA SameOperation ==
    ASSUME UNCHANGED <<bluetoothOperation, deviceNumbering>>, deviceNamed \subseteq deviceNamed'
    PROVE  OperationFollows /\ RealStep
  BY DEF OperationFollows, RealStep, BluetoothEnds

(* An operation that ends with nothing to prove, or goes on otherwise.      *)
LEMMA QuietEnd ==
    ASSUME bluetoothOperation'.kind = "idle", bluetoothOperation'.result \in Quiet
    PROVE  OperationFollows /\ RealStep
  BY DEF OperationFollows, RealStep, OnDevice, Quiet

-----------------------------------------------------------------------------
(* Bluetooth: the values that the helpers return.                           *)

LEMMA StoppedIs ==
    ASSUME NEW op \in BluetoothOperations, NEW id \in Nat, NEW result \in Outcomes
    PROVE  /\ Stopped(op, id, result) \in BluetoothOperations
           /\ Stopped(op, id, result).kind = "idle" /\ Stopped(op, id, result).result = result
  <1>1. PICK failure \in {"none", "backend"} : failure = IF result = "backend" THEN "backend" ELSE "none"
    OBVIOUS
  <1>2. Stopped(op, id, result) =
           [op EXCEPT !.kind = "idle", !.generation = id, !.result = result, !.failure = failure]
    BY <1>1 DEF Stopped
  <1> QED  BY <1>2 DEF BluetoothOperations

LEMMA FailedPower ==
    ASSUME NEW failure \in PowerFailures, bluetooth \in Powers
    PROVE  PowerIs(FailBluetoothRequest(failure))
  <1>1. PICK none \in Int : none = 0
    OBVIOUS
  <1>2. PICK b \in Powers : b = bluetooth
    OBVIOUS
  <1>3. FailBluetoothRequest(failure) =
           [b EXCEPT !.pending = FALSE, !.failure = failure, !.timer = FALSE, !.calls = none,
                     !.failed = FALSE]
    BY <1>1, <1>2 DEF FailBluetoothRequest
  <1> QED  BY <1>3 DEF PowerIs, Powers

LEMMA ResetPower ==
    ASSUME NEW failure \in PowerFailures, NEW timer \in BOOLEAN
    PROVE  /\ PowerIs(ResetBluetooth(failure, timer))
           /\ ~ResetBluetooth(failure, timer).available /\ ~ResetBluetooth(failure, timer).enabled
  <1>1. NoPower \in Powers /\ ~NoPower.available /\ ~NoPower.enabled /\ ~NoPower.pending
    BY DEF NoPower, Powers, PowerFailures
  <1>2. PICK b \in Powers : b = NoPower /\ ~b.available /\ ~b.enabled /\ ~b.pending
    BY <1>1
  <1>3. ResetBluetooth(failure, timer) = [b EXCEPT !.failure = failure, !.timer = timer]
    BY <1>2 DEF ResetBluetooth
  <1> QED  BY <1>2, <1>3 DEF PowerIs, Powers

LEMMA ClearedManager ==
    ASSUME BluetoothInv, NEW failure \in {"none", "unavailable", "backend"},
           ClearBluetoothManagerState(failure)
    PROVE  /\ \A interest : Searching(bluetoothOperation', discovery', pendingAgentReply', interest,
                                      deviceNumbering', deviceNamed')
           /\ OperationFollows /\ RealStep /\ DevicesSound' /\ adapters' \in Partial(Adapters, BOOLEAN)
           /\ expiryTimer' \in BOOLEAN /\ bluetoothOperation'.kind = "idle"
  <1>1. /\ discovery' = NoDiscovery /\ expiryTimer' = FALSE /\ adapters' = <<>> /\ devices' = <<>>
        /\ ForgetDeviceTokens /\ pendingAgentReply' = NoDevice
        /\ bluetoothOperation' = [Resting EXCEPT !.failure = failure]
    BY DEF ClearBluetoothManagerState, ClearPairingReply
  <1>2. /\ bluetoothOperation' \in BluetoothOperations /\ bluetoothOperation'.kind = "idle"
        /\ bluetoothOperation'.result = "none"
    BY <1>1 DEF Resting, BluetoothOperations, Outcomes
  <1>3. discovery' \in Discoveries /\ ~discovery'.active
    BY <1>1 DEF NoDiscovery, Discoveries
  <1>4. \A interest : Searching(bluetoothOperation', discovery', pendingAgentReply', interest,
                                deviceNumbering', deviceNamed')
    BY <1>1, <1>2, <1>3 DEF Searching, OnDevice
  <1>5. OperationFollows /\ RealStep
    BY <1>2, QuietEnd DEF Quiet
  <1>6. DevicesSound'
    BY <1>1, BluetoothSplit, NoDevices
  <1>7. adapters' \in Partial(Adapters, BOOLEAN)
    BY <1>1, EmptyPartial
  <1> QED  BY <1>1, <1>2, <1>4, <1>5, <1>6, <1>7

-----------------------------------------------------------------------------
(* Bluetooth: signals, failed snapshots, timers and the page.               *)

LEMMA BluezFailsKeeps ==
    ASSUME BluetoothInv, BluezSnapshotFails
    PROVE  BluetoothInv' /\ RealStep
  <1>0. /\ bluetooth \in Powers /\ bluez \in Daemons /\ bluetoothEvents \in Nat /\ bluetoothScans \in Nat
        /\ bluetoothInterest \in BOOLEAN /\ agentRegistered \in BOOLEAN
    BY HelperIs
  <1>1. /\ ClearBluetoothManagerState("backend") /\ bluezRefreshScheduled' = FALSE
        /\ bluetooth' = ResetBluetooth("backend", bluetooth.timer)
        /\ UNCHANGED <<bluezOwner, agentRegistered, bluetoothInterest, bluetoothCalls, bluez, busName,
                       everPaired, bluetoothScans>>
        /\ bluetoothEvents' \in {bluetoothEvents, bluetoothEvents + 1}
    BY DEF BluezSnapshotFails, BluetoothEvent, bluezOutside
  <1>2. /\ \A interest : Searching(bluetoothOperation', discovery', pendingAgentReply', interest,
                                      deviceNumbering', deviceNamed')
        /\ OperationFollows /\ RealStep /\ DevicesSound' /\ adapters' \in Partial(Adapters, BOOLEAN)
        /\ expiryTimer' \in BOOLEAN /\ bluetoothOperation'.kind = "idle"
    BY <1>1, ClearedManager
  <1>3. bluetooth.timer \in BOOLEAN /\ "backend" \in PowerFailures
    BY <1>0 DEF Powers, PowerFailures
  <1>4. PowerIs(bluetooth') /\ ~bluetooth'.available /\ ~bluetooth'.enabled
    BY <1>1, <1>3, ResetPower
  <1>5. Dormant'
    BY <1>1, <1>2, <1>4 DEF Dormant
  <1>6. OperationSound'
    BY <1>2 DEF OperationSound
  <1> QED  BY <1>0, <1>1, <1>2, <1>4, <1>5, <1>6, HelperMoves

LEMMA QuietBluezKeeps ==
    ASSUME BluetoothInv, BluezSnapshotDropped \/ OnBluezSignal \/ UNCHANGED bluetoothVars
    PROVE  BluetoothInv' /\ RealStep
  <1>0. /\ PowerIs(bluetooth)
        /\ OperationSound
        /\ bluez \in Daemons /\ bluetoothEvents \in Nat /\ bluetoothScans \in Nat
        /\ adapters \in Partial(Adapters, BOOLEAN)
        /\ {bluezRefreshScheduled, agentRegistered, expiryTimer, bluetoothInterest} \subseteq BOOLEAN
        /\ Dormant /\ DevicesSound
    BY HelperIs, BluetoothSplit
  <1>1. /\ UNCHANGED <<bluezOwner, agentRegistered, bluetooth, adapters, devices, nextDeviceToken,
                       deviceNumbering, deviceNamed, discovery, expiryTimer, bluetoothOperation, pendingAgentReply,
                       bluetoothInterest, bluetoothCalls, bluez, busName, everPaired,
                       bluetoothScans, bluetoothEvents>>
        /\ bluezRefreshScheduled' \in BOOLEAN
        /\ bluezOwner = 0 => bluezRefreshScheduled' \in {FALSE, bluezRefreshScheduled}
    BY <1>0 DEF BluezSnapshotDropped, OnBluezSignal, bluetoothVars, bluetoothList, deviceNames, bluetoothSession, search,
                bluezOutside
  <1>2. OperationFollows /\ RealStep
    BY <1>1, SameOperation
  <1>3. Dormant'
    BY <1>0, <1>1 DEF Dormant
  <1>4. DevicesSound'
    BY <1>0, <1>1, SameDevices
  <1> QED  BY <1>0, <1>1, <1>2, <1>3, <1>4, HelperMoves DEF OperationSound

LEMMA PowerTimeoutKeeps ==
    ASSUME BluetoothInv, OnBluetoothRequestTimeout
    PROVE  BluetoothInv' /\ RealStep
  <1>0. /\ bluetooth \in Powers
        /\ OperationSound
        /\ bluez \in Daemons /\ bluetoothEvents \in Nat /\ bluetoothScans \in Nat
        /\ adapters \in Partial(Adapters, BOOLEAN)
        /\ {bluezRefreshScheduled, agentRegistered, expiryTimer, bluetoothInterest} \subseteq BOOLEAN
        /\ Dormant /\ DevicesSound
    BY HelperIs, BluetoothSplit
  <1>1. /\ UNCHANGED <<bluezOwner, agentRegistered, adapters, devices, nextDeviceToken,
                       deviceNumbering, deviceNamed, discovery, expiryTimer, bluetoothOperation, pendingAgentReply,
                       bluetoothInterest, bluetoothCalls, bluez, busName, everPaired,
                       bluetoothScans, bluetoothEvents, bluezRefreshScheduled>>
        /\ bluetooth' = FailBluetoothRequest("timeout")
    BY DEF OnBluetoothRequestTimeout, bluetoothList, deviceNames, bluetoothSession, search, bluezOutside
  <1>2. OperationFollows /\ RealStep
    BY <1>1, SameOperation
  <1>3. PowerIs(bluetooth')
    BY <1>0, <1>1, FailedPower DEF PowerFailures
  <1>4. bluetooth'.available = bluetooth.available /\ bluetooth'.enabled = bluetooth.enabled
    BY <1>0, <1>1 DEF FailBluetoothRequest, Powers
  <1>5. Dormant'
    BY <1>0, <1>1, <1>4 DEF Dormant
  <1>6. DevicesSound'
    BY <1>0, <1>1, SameDevices
  <1> QED  BY <1>0, <1>1, <1>2, <1>3, <1>5, <1>6, HelperMoves DEF OperationSound

LEMMA OpenPageKeeps ==
    ASSUME BluetoothInv, OpenBluetoothPage
    PROVE  BluetoothInv' /\ RealStep
  <1>0. /\ PowerIs(bluetooth)
        /\ OperationSound
        /\ bluez \in Daemons /\ bluetoothEvents \in Nat /\ bluetoothScans \in Nat
        /\ adapters \in Partial(Adapters, BOOLEAN)
        /\ {bluezRefreshScheduled, agentRegistered, expiryTimer, bluetoothInterest} \subseteq BOOLEAN
        /\ Dormant /\ DevicesSound
    BY HelperIs, BluetoothSplit
  <1>1. /\ UNCHANGED <<bluezOwner, agentRegistered, adapters, devices, nextDeviceToken,
                       deviceNumbering, deviceNamed, discovery, expiryTimer, bluetoothOperation, pendingAgentReply,
                       bluetooth, bluetoothCalls, bluez, busName, everPaired,
                       bluetoothScans, bluetoothEvents, bluezRefreshScheduled>>
        /\ bluetoothInterest' = TRUE
    BY DEF OpenBluetoothPage, bluetoothList, deviceNames, bluetoothSession, search, bluezOutside
  <1>2. OperationFollows /\ RealStep
    BY <1>1, SameOperation
  <1>3. OperationSound'
    BY <1>0, <1>1 DEF Searching, OperationSound
  <1>4. Dormant'
    BY <1>0, <1>1 DEF Dormant
  <1>5. DevicesSound'
    BY <1>0, <1>1, SameDevices
  <1> QED  BY <1>0, <1>1, <1>2, <1>3, <1>4, <1>5, HelperMoves

LEMMA ExpireKeeps ==
    ASSUME BluetoothInv, NEW old, ExpireBluetoothDevices(old)
    PROVE  BluetoothInv' /\ RealStep
  <1>0. /\ PowerIs(bluetooth)
        /\ OperationSound
        /\ bluez \in Daemons /\ bluetoothEvents \in Nat /\ bluetoothScans \in Nat
        /\ adapters \in Partial(Adapters, BOOLEAN)
        /\ {bluezRefreshScheduled, agentRegistered, expiryTimer, bluetoothInterest} \subseteq BOOLEAN
        /\ Dormant /\ DevicesSound
    BY HelperIs, BluetoothSplit
  <1> DEFINE S == {d \in DOMAIN devices :
                     devices[d].paired \/ devices[d].connected \/ (devices[d].seen /\ d \notin old)}
  <1>1. /\ UNCHANGED <<bluezOwner, agentRegistered, adapters, nextDeviceToken,
                       deviceNumbering, deviceNamed, discovery, bluetoothInterest, bluetoothOperation, pendingAgentReply,
                       bluetooth, bluetoothCalls, bluez, busName, everPaired,
                       bluetoothScans, bluetoothEvents, bluezRefreshScheduled>>
        /\ expiryTimer' = FALSE /\ devices' = Restrict(devices, S)
    BY DEF ExpireBluetoothDevices, deviceNames, bluezOutside
  <1>2. S \in SUBSET DOMAIN devices
    OBVIOUS
  <1> HIDE DEF S
  <1>3. /\ devices' \in Partial(Devices, Remotes) /\ DOMAIN devices' = S
        /\ \A d \in S : devices'[d] = devices[d]
    BY <1>0, <1>1, <1>2, RestrictedPartial, Restricted DEF DevicesSound
  <1>4. DevicesSound'
    BY <1>0, <1>1, <1>2, <1>3 DEF DevicesSound, DeviceTokensNameOne
  <1>5. OperationFollows /\ RealStep
    BY <1>1, SameOperation
  <1>6. Dormant'
    BY <1>0, <1>1 DEF Dormant
  <1> QED  BY <1>0, <1>1, <1>4, <1>5, <1>6, HelperMoves DEF OperationSound
-----------------------------------------------------------------------------
(* Bluetooth: discovery and the commands.                                   *)

CommandFrame ==
    /\ UNCHANGED <<bluezOwner, agentRegistered, bluetoothList, bluezOutside>>
    /\ bluetoothEvents' \in {bluetoothEvents, bluetoothEvents + 1} /\ bluetoothScans' \in Nat

Handled ==
    /\ PowerIs(bluetooth')
    /\ OperationSound'
    /\ OperationFollows /\ RealStep /\ Dormant'
    /\ {bluezRefreshScheduled', expiryTimer', bluetoothInterest'} \subseteq BOOLEAN
    /\ \A c \in bluetoothCalls' \ bluetoothCalls : c \in BluetoothCallKinds /\ CallSound(c)'

LEMMA AnsweredKeeps ==
    ASSUME BluetoothInv, CommandFrame, Handled
    PROVE  BluetoothInv' /\ RealStep
  <1>0. /\ bluez \in Daemons /\ adapters \in Partial(Adapters, BOOLEAN)
        /\ agentRegistered \in BOOLEAN /\ DevicesSound
    BY HelperIs, BluetoothSplit
  <1>1. /\ UNCHANGED <<bluezOwner, agentRegistered, adapters, devices, nextDeviceToken, deviceNumbering, deviceNamed,
                       bluez, busName, everPaired>>
        /\ bluetoothEvents' \in {bluetoothEvents, bluetoothEvents + 1} /\ bluetoothScans' \in Nat
    BY DEF CommandFrame, bluetoothList, deviceNames, bluezOutside
  <1>2. DevicesSound'
    BY <1>0, <1>1, SameDevices
  <1> QED  BY <1>0, <1>1, <1>2, HelperMoves DEF Handled

LEMMA CallIs ==
    ASSUME BluetoothInv, NEW generation \in Nat, NEW d \in Devices,
           NEW kind \in OnDevice \cup {"pair-connect", "cancel"},
           NEW c, c = [kind |-> kind, generation |-> generation, device |-> d, on |-> TRUE,
                       owner |-> bluezOwner, phase |-> "sent"]
    PROVE  /\ c \in BluetoothCallKinds /\ c.kind = kind /\ c.generation = generation
           /\ c.device = d /\ c.owner = bluezOwner /\ c.phase = "sent"
  <1>1. bluezOwner \in Nat
    BY BluetoothSplit DEF OwnersSound
  <1>2. PICK owner \in Nat : owner = bluezOwner
    BY <1>1
  <1> QED
    BY <1>2 DEF BluetoothCallKinds, DeviceCalls, BluetoothCallsOf, Phases

LEMMA SentCall ==
    ASSUME BluetoothInv, bluezOwner # 0, UNCHANGED <<bluezOwner, busName>>, NEW c \in BluetoothCallKinds,
           bluetoothEvents' \in {bluetoothEvents, bluetoothEvents + 1},
           c.owner = bluezOwner, c.phase = "sent", c.generation <= bluetoothEvents',
           c.kind = "pair-connect" => c.device \in everPaired',
           c.kind \in OnDevice \cup {"pair-connect"} /\ bluetoothOperation'.kind = Awaiting(c)
               => <<deviceNumbering', bluetoothOperation'.target, c.device>> \in deviceNamed'
    PROVE  CallSound(c)'
  <1>1. /\ bluetoothEvents \in Nat /\ bluezOwner \in 0..(bluetoothEvents + 1)
    BY BluetoothSplit DEF OwnersSound
  <1>2. c.owner \in 1..(bluetoothEvents' + 1)
    <2>1. CASE bluetoothEvents' = bluetoothEvents
      BY <1>1, <2>1
    <2>2. CASE bluetoothEvents' = bluetoothEvents + 1
      BY <1>1, <2>2
    <2> QED  BY <2>1, <2>2
  <1>3. Awaiting(c)' = Awaiting(c)
    BY DEF Awaiting
  <1> QED  BY <1>2, <1>3 DEF CallSound

LEMMA TargetsAreDevices ==
    ASSUME BluetoothInv
    PROVE  /\ Target(devices) \subseteq Devices
           /\ \A d \in Target(devices) : <<deviceNumbering, bluetoothOperation.target, d>> \in deviceNamed
           /\ \A token : /\ Named(token) \subseteq Devices
                         /\ \A d \in Named(token) : <<deviceNumbering, token, d>> \in deviceNamed
  <1>1. /\ DOMAIN devices \in SUBSET Devices
        /\ \A d \in DOMAIN devices : <<deviceNumbering, devices[d].token, d>> \in deviceNamed
    BY BluetoothSplit, PartialParts DEF DevicesSound, DeviceTokensNameOne
  <1> QED  BY <1>1 DEF Target, Named

LEMMA CancelIsSound ==
    ASSUME BluetoothInv, CommandFrame
    PROVE  \A c \in CancelPairing : c \in BluetoothCallKinds /\ CallSound(c)'
  <1> SUFFICES ASSUME NEW c \in CancelPairing PROVE c \in BluetoothCallKinds /\ CallSound(c)'
    OBVIOUS
  <1>1. bluetoothOperation.kind = "pairing" /\ \E d \in Target(devices) : c = Call("cancel", 0, d, TRUE)
    BY DEF CancelPairing
  <1>2. PICK d \in Devices : c = Call("cancel", 0, d, TRUE)
    BY <1>1, TargetsAreDevices
  <1>3. c \in BluetoothCallKinds /\ c.kind = "cancel" /\ c.generation = 0 /\ c.owner = bluezOwner
        /\ c.phase = "sent"
    <2>1. 0 \in Nat /\ "cancel" \in OnDevice \cup {"pair-connect", "cancel"}
      OBVIOUS
    <2> QED  BY <1>2, <2>1, CallIs DEF Call
  <1>4. bluezOwner # 0
    BY <1>1, BluetoothSplit DEF Dormant
  <1>5. /\ UNCHANGED <<bluezOwner, busName>>
        /\ bluetoothEvents' \in {bluetoothEvents, bluetoothEvents + 1}
    BY DEF CommandFrame, bluezOutside
  <1>6. 0 <= bluetoothEvents'
    BY <1>5, HelperIs
  <1>7. c.kind \notin OnDevice \cup {"pair-connect"}
    BY <1>3 DEF OnDevice
  <1> QED  BY <1>3, <1>4, <1>5, <1>6, <1>7, SentCall

LEMMA StopIs ==
    ASSUME BluetoothInv, NEW id, NEW result, StopWhenActive(id, result)
    PROVE  /\ discovery' \in Discoveries /\ ~discovery'.active
           /\ expiryTimer' \in BOOLEAN /\ bluezRefreshScheduled' \in BOOLEAN
           /\ bluezOwner = 0 => ~bluezRefreshScheduled'
  <1>0. discovery \in Discoveries /\ expiryTimer \in BOOLEAN /\ bluezRefreshScheduled \in BOOLEAN /\ Dormant
    BY HelperIs, BluetoothSplit
  <1>1. CASE discovery.active
    <2>1. /\ discovery' = NoDiscovery /\ expiryTimer' = TRUE
          /\ bluezRefreshScheduled' = (bluezRefreshScheduled \/ bluezOwner # 0)
      BY <1>1 DEF StopWhenActive, ScheduleBluez
    <2>2. NoDiscovery \in Discoveries /\ ~NoDiscovery.active
      BY DEF NoDiscovery, Discoveries
    <2>3. bluezRefreshScheduled' \in BOOLEAN /\ (bluezOwner = 0 => ~bluezRefreshScheduled')
      BY <1>0, <2>1 DEF Dormant
    <2> QED  BY <2>1, <2>2, <2>3
  <1>2. CASE ~discovery.active
    BY <1>0, <1>2 DEF StopWhenActive, search, Dormant
  <1> QED  BY <1>1, <1>2

(* While the helper searches, nothing else runs and nobody is asked.        *)
LEMMA ActiveIsAlone ==
    ASSUME BluetoothInv
    PROVE  /\ discovery.active => /\ bluetoothInterest
                                  /\ bluetoothOperation.kind \in {"discovering", "idle"}
                                  /\ pendingAgentReply = NoDevice
           /\ bluetoothOperation.kind # "pairing" => pendingAgentReply = NoDevice
           /\ bluezOwner = 0 => bluetoothOperation.kind = "idle"
  BY HelperIs, BluetoothSplit DEF Searching, OperationSound, Dormant

LEMMA SearchStops ==
    ASSUME BluetoothInv, NEW id \in Nat, NEW result \in Outcomes \cap Quiet, NEW interest,
           StopWhenActive(id, result), UNCHANGED <<pendingAgentReply, deviceNumbering, deviceNamed>>,
           bluetoothOperation' = AfterStop(bluetoothOperation, id, result)
    PROVE  /\ OperationFollows /\ RealStep
           /\ Searching(bluetoothOperation', discovery', pendingAgentReply', interest, deviceNumbering', deviceNamed')
           /\ bluezOwner = 0 => bluetoothOperation'.kind = "idle"
  <1>0. /\ OperationSound
        /\ bluetoothOperation \in BluetoothOperations
    BY HelperIs
  <1>1. discovery' \in Discoveries /\ ~discovery'.active
    BY StopIs
  <1>2. CASE discovery.active
    <2>1. bluetoothOperation' = Stopped(bluetoothOperation, id, result)
      BY <1>2 DEF AfterStop
    <2>2. /\ bluetoothOperation' \in BluetoothOperations /\ bluetoothOperation'.kind = "idle"
          /\ bluetoothOperation'.result = result
      BY <1>0, <2>1, StoppedIs
    <2>3. OperationFollows /\ RealStep
      BY <2>2, QuietEnd
    <2>4. pendingAgentReply' = NoDevice
      BY <1>2, ActiveIsAlone
    <2> QED  BY <1>1, <2>2, <2>3, <2>4 DEF Searching, OperationSound, OnDevice
  <1>3. CASE ~discovery.active
    <2>1. bluetoothOperation' = bluetoothOperation
      BY <1>3 DEF AfterStop
    <2>2. OperationFollows /\ RealStep
      BY <2>1, SameOperation
    <2> QED  BY <1>0, <1>1, <2>1, <2>2, ActiveIsAlone DEF Searching, OperationSound
  <1> QED  BY <1>2, <1>3

LEMMA StopAnswered ==
    ASSUME BluetoothInv, CommandFrame, NEW id \in Nat, NEW result \in Outcomes \cap Quiet,
           StopDiscovery(id, result)
    PROVE  Handled
  <1>0. PowerIs(bluetooth) /\ Dormant /\ bluetoothInterest \in BOOLEAN
    BY HelperIs, BluetoothSplit
  <1>1. /\ StopWhenActive(id, result)
        /\ bluetoothOperation' = AfterStop(bluetoothOperation, id, result)
        /\ UNCHANGED <<bluetooth, pendingAgentReply, bluetoothInterest, bluetoothCalls>>
    BY DEF StopDiscovery
  <1>2. UNCHANGED <<deviceNumbering, deviceNamed, bluezOwner>>
    BY DEF CommandFrame, bluetoothList, deviceNames
  <1>3. /\ OperationFollows /\ RealStep
        /\ OperationSound'
        /\ bluezOwner = 0 => bluetoothOperation'.kind = "idle"
    BY <1>1, <1>2, SearchStops DEF OperationSound
  <1>4. /\ expiryTimer' \in BOOLEAN /\ bluezRefreshScheduled' \in BOOLEAN
        /\ bluezOwner = 0 => ~bluezRefreshScheduled'
    BY <1>1, StopIs
  <1>5. Dormant'
    BY <1>0, <1>1, <1>2, <1>3, <1>4 DEF Dormant
  <1> QED  BY <1>0, <1>1, <1>3, <1>4, <1>5 DEF Handled

LEMMA DiscoveryExpiresKeeps ==
    ASSUME BluetoothInv, DiscoveryExpires
    PROVE  BluetoothInv' /\ RealStep
  <1>1. /\ StopDiscovery(0, "expired") /\ CommandFrame
    BY HelperIs DEF DiscoveryExpires, CommandFrame
  <1>2. "expired" \in Outcomes \cap Quiet /\ 0 \in Nat
    BY DEF Outcomes, Quiet
  <1> QED  BY <1>1, <1>2, StopAnswered, AnsweredKeeps

LEMMA ScanAnswered ==
    ASSUME BluetoothInv, CommandFrame, NEW id \in Nat, StartDiscovery(id)
    PROVE  Handled
  <1>0. /\ PowerIs(bluetooth) /\ Dormant /\ bluetoothInterest \in BOOLEAN
        /\ bluezRefreshScheduled \in BOOLEAN /\ expiryTimer \in BOOLEAN
        /\ OperationSound
        /\ bluetoothOperation \in BluetoothOperations /\ adapters \in Partial(Adapters, BOOLEAN)
    BY HelperIs, BluetoothSplit
  <1>1. /\ UNCHANGED <<bluetooth, pendingAgentReply, bluetoothInterest, bluetoothCalls>>
        /\ UNCHANGED <<deviceNumbering, deviceNamed, bluezOwner>>
    BY DEF StartDiscovery, CommandFrame, bluetoothList, deviceNames
  <1> DEFINE ready == /\ bluetoothInterest /\ bluetooth.available /\ bluetooth.enabled
                      /\ bluetoothOperation.kind = "idle"
             on == {a \in DOMAIN adapters : adapters[a]}
  <1>2. CASE ready
    <2>1. bluezOwner # 0 /\ pendingAgentReply = NoDevice
      BY <1>0, <1>2, ActiveIsAlone DEF Dormant
    <2>2. bluezRefreshScheduled' \in BOOLEAN
      BY <1>0, <1>2 DEF StartDiscovery, ScheduleBluez
    <2>3. on \in SUBSET Adapters
      BY <1>0, PartialParts
    <2>4. \/ /\ discovery' = [active |-> TRUE, adapters |-> on, timer |-> TRUE]
             /\ bluetoothOperation' =
                       [bluetoothOperation EXCEPT !.kind = "discovering", !.generation = id,
                            !.failure = "none", !.result = "none", !.target = 0]
             /\ expiryTimer' = expiryTimer
          \/ /\ discovery' = NoDiscovery /\ expiryTimer' = TRUE
             /\ bluetoothOperation' = Stopped(bluetoothOperation, id, "backend")
      BY <1>2 DEF StartDiscovery, DiscoveryStarts, DiscoveryDoesNotStart
    <2> HIDE DEF on
    <2>5. /\ bluetoothOperation' \in BluetoothOperations /\ discovery' \in Discoveries
          /\ discovery'.active => discovery'.timer
          /\ bluetoothOperation'.kind \in {"discovering", "idle"}
          /\ bluetoothOperation'.kind = "idle" => bluetoothOperation'.result = "backend"
      <3>1. CASE /\ discovery' = [active |-> TRUE, adapters |-> on, timer |-> TRUE]
                 /\ bluetoothOperation' =
                       [bluetoothOperation EXCEPT !.kind = "discovering", !.generation = id,
                            !.failure = "none", !.result = "none", !.target = 0]
        BY <1>0, <2>3, <3>1 DEF BluetoothOperations, Outcomes, Discoveries
      <3>2. CASE /\ discovery' = NoDiscovery
                 /\ bluetoothOperation' = Stopped(bluetoothOperation, id, "backend")
        <4>1. "backend" \in Outcomes
          BY DEF Outcomes
        <4>2. /\ bluetoothOperation' \in BluetoothOperations /\ bluetoothOperation'.kind = "idle"
              /\ bluetoothOperation'.result = "backend"
          BY <1>0, <3>2, <4>1, StoppedIs
        <4> QED  BY <3>2, <4>2 DEF NoDiscovery, Discoveries
      <3> QED  BY <2>4, <3>1, <3>2
    <2>6. OperationFollows /\ RealStep
      BY <1>2, <2>5 DEF OperationFollows, OnDevice, RealStep, BluetoothEnds
    <2>7. OperationSound'
      BY <1>1, <1>2, <2>1, <2>5 DEF Searching, OperationSound, OnDevice
    <2>8. Dormant'
      BY <1>1, <2>1 DEF Dormant
    <2>9. expiryTimer' \in BOOLEAN
      BY <1>0, <2>4
    <2> QED  BY <1>0, <1>1, <2>2, <2>6, <2>7, <2>8, <2>9 DEF Handled
  <1>3. CASE ~ready
    <2>1. UNCHANGED <<discovery, expiryTimer, bluetoothOperation, bluezRefreshScheduled>>
      BY <1>3 DEF StartDiscovery, search
    <2>2. OperationFollows /\ RealStep
      BY <1>1, <2>1, SameOperation
    <2>3. Dormant'
      BY <1>0, <1>1, <2>1 DEF Dormant
    <2> QED  BY <1>0, <1>1, <2>1, <2>2, <2>3 DEF Handled, OperationSound
  <1> QED  BY <1>2, <1>3

LEMMA HandleScanKeeps ==
    ASSUME BluetoothBounds, BluetoothInv, HandleBluetoothScan
    PROVE  BluetoothInv' /\ RealStep
  <1>1. bluetoothScans' \in Nat /\ bluetoothScans' + MaxBluetoothEvents \in Nat
    BY HelperIs DEF HandleBluetoothScan, BluetoothBounds
  <1>2. PICK id \in Nat : StartDiscovery(id)
    BY <1>1 DEF HandleBluetoothScan
  <1>3. CommandFrame
    BY <1>1 DEF HandleBluetoothScan, CommandFrame
  <1> QED  BY <1>2, <1>3, ScanAnswered, AnsweredKeeps
(* Cancelling a pairing, and then stopping the search.                      *)
LEMMA AfterCancelIs ==
    ASSUME BluetoothInv, NEW id \in Nat
    PROVE  \/ /\ bluetoothOperation.kind = "pairing" /\ ~discovery.active
              /\ AfterCancel(bluetoothOperation, id) \in BluetoothOperations
              /\ AfterCancel(bluetoothOperation, id).kind = "idle"
              /\ AfterCancel(bluetoothOperation, id).result = "cancelled"
           \/ /\ bluetoothOperation.kind # "pairing"
              /\ AfterCancel(bluetoothOperation, id) = bluetoothOperation
  <1>0. /\ OperationSound
        /\ bluetoothOperation \in BluetoothOperations
    BY HelperIs
  <1>1. CASE bluetoothOperation.kind = "pairing"
    <2>1. ~discovery.active
      BY <1>1, ActiveIsAlone
    <2>2. PICK f : f = Finished(bluetoothOperation, "cancelled", "cancelled")
      OBVIOUS
    <2>3. f \in BluetoothOperations /\ f.kind = "idle" /\ f.result = "cancelled"
      BY <1>0, <2>2 DEF Finished, BluetoothOperations, Outcomes
    <2>4. AfterCancel(bluetoothOperation, id) = [f EXCEPT !.generation = id]
      BY <1>1, <2>2 DEF AfterCancel
    <2>5. /\ [f EXCEPT !.generation = id] \in BluetoothOperations
          /\ [f EXCEPT !.generation = id].kind = "idle"
          /\ [f EXCEPT !.generation = id].result = "cancelled"
      BY <2>3 DEF BluetoothOperations
    <2> QED  BY <1>1, <2>1, <2>4, <2>5
  <1>2. CASE bluetoothOperation.kind # "pairing"
    BY <1>2 DEF AfterCancel
  <1> QED  BY <1>1, <1>2

LEMMA CloseIs ==
    ASSUME BluetoothInv, NEW id \in Nat, NEW interest, CloseSearch(id), UNCHANGED <<deviceNumbering, deviceNamed>>
    PROVE  /\ OperationFollows /\ RealStep
           /\ Searching(bluetoothOperation', discovery', pendingAgentReply', interest, deviceNumbering', deviceNamed')
           /\ bluezOwner = 0 => bluetoothOperation'.kind = "idle"
  <1>1. /\ StopWhenActive(id, "cancelled") /\ DropPrompt
        /\ bluetoothOperation' = AfterStop(AfterCancel(bluetoothOperation, id), id, "cancelled")
    BY DEF CloseSearch
  <1>2. CASE bluetoothOperation.kind = "pairing"
    <2>1. /\ ~discovery.active
          /\ AfterCancel(bluetoothOperation, id) \in BluetoothOperations
          /\ AfterCancel(bluetoothOperation, id).kind = "idle"
          /\ AfterCancel(bluetoothOperation, id).result = "cancelled"
      BY <1>2, AfterCancelIs
    <2>2. bluetoothOperation' = AfterCancel(bluetoothOperation, id)
      BY <1>1, <2>1 DEF AfterStop
    <2>3. /\ bluetoothOperation' \in BluetoothOperations /\ bluetoothOperation'.kind = "idle"
          /\ bluetoothOperation'.result = "cancelled"
      BY <2>1, <2>2
    <2>4. OperationFollows /\ RealStep
      BY <2>3, QuietEnd DEF Quiet
    <2>5. pendingAgentReply' = NoDevice
      BY <1>1, <1>2 DEF DropPrompt
    <2>6. discovery' \in Discoveries /\ ~discovery'.active
      BY <1>1, StopIs
    <2> QED  BY <2>3, <2>4, <2>5, <2>6 DEF Searching, OperationSound, OnDevice
  <1>3. CASE bluetoothOperation.kind # "pairing"
    <2>1. bluetoothOperation' = AfterStop(bluetoothOperation, id, "cancelled")
      BY <1>1, <1>3, AfterCancelIs
    <2>2. pendingAgentReply' = pendingAgentReply
      BY <1>1, <1>3 DEF DropPrompt
    <2>3. "cancelled" \in Outcomes \cap Quiet
      BY DEF Outcomes, Quiet
    <2> QED  BY <1>1, <2>1, <2>2, <2>3, SearchStops
  <1> QED  BY <1>2, <1>3

LEMMA ClosePageAnswered ==
    ASSUME BluetoothInv, CommandFrame, NEW id \in Nat, CloseBluetoothPage(id)
    PROVE  Handled
  <1>0. PowerIs(bluetooth) /\ Dormant
    BY HelperIs, BluetoothSplit
  <1>1. /\ bluetoothInterest' = FALSE /\ CloseSearch(id) /\ bluetooth' = bluetooth
        /\ bluetoothCalls' = bluetoothCalls \cup CancelPairing
        /\ UNCHANGED <<deviceNumbering, deviceNamed, bluezOwner>>
    BY DEF CloseBluetoothPage, CommandFrame, bluetoothList, deviceNames
  <1>2. /\ OperationFollows /\ RealStep
        /\ OperationSound'
        /\ bluezOwner = 0 => bluetoothOperation'.kind = "idle"
    BY <1>1, CloseIs DEF OperationSound
  <1>3. /\ expiryTimer' \in BOOLEAN /\ bluezRefreshScheduled' \in BOOLEAN
        /\ bluezOwner = 0 => ~bluezRefreshScheduled'
    BY <1>1, StopIs DEF CloseSearch
  <1>4. Dormant'
    BY <1>0, <1>1, <1>2, <1>3 DEF Dormant
  <1>5. \A c \in bluetoothCalls' \ bluetoothCalls : c \in BluetoothCallKinds /\ CallSound(c)'
    BY <1>1, CancelIsSound
  <1> QED  BY <1>0, <1>1, <1>2, <1>3, <1>4, <1>5 DEF Handled

LEMMA CancelAnswered ==
    ASSUME BluetoothInv, CommandFrame, NEW id \in Nat, CancelBluetoothPairing(id)
    PROVE  Handled
  <1>0. /\ PowerIs(bluetooth) /\ Dormant
        /\ OperationSound
        /\ {bluezRefreshScheduled, expiryTimer, bluetoothInterest} \subseteq BOOLEAN
    BY HelperIs, BluetoothSplit
  <1>1. /\ bluetoothOperation' = AfterCancel(bluetoothOperation, id) /\ DropPrompt
        /\ bluetoothCalls' = bluetoothCalls \cup CancelPairing
        /\ UNCHANGED <<bluetooth, discovery, expiryTimer, bluetoothInterest, bluezRefreshScheduled>>
        /\ UNCHANGED <<deviceNumbering, deviceNamed, bluezOwner>>
    BY DEF CancelBluetoothPairing, search, CommandFrame, bluetoothList, deviceNames
  <1>2. /\ OperationFollows /\ RealStep
        /\ OperationSound'
        /\ bluezOwner = 0 => bluetoothOperation'.kind = "idle"
    <2>1. CASE bluetoothOperation.kind = "pairing"
      <3>1. /\ bluetoothOperation' \in BluetoothOperations /\ bluetoothOperation'.kind = "idle"
            /\ bluetoothOperation'.result = "cancelled" /\ ~discovery.active
        BY <1>1, <2>1, AfterCancelIs
      <3>2. OperationFollows /\ RealStep
        BY <3>1, QuietEnd DEF Quiet
      <3>3. pendingAgentReply' = NoDevice
        BY <1>1, <2>1 DEF DropPrompt
      <3> QED  BY <1>0, <1>1, <3>1, <3>2, <3>3 DEF Searching, OperationSound, OnDevice
    <2>2. CASE bluetoothOperation.kind # "pairing"
      <3>1. bluetoothOperation' = bluetoothOperation /\ pendingAgentReply' = pendingAgentReply
        BY <1>1, <2>2, AfterCancelIs DEF DropPrompt
      <3>2. OperationFollows /\ RealStep
        BY <1>1, <3>1, SameOperation
      <3> QED  BY <1>0, <1>1, <3>1, <3>2, ActiveIsAlone DEF OperationSound
    <2> QED  BY <2>1, <2>2
  <1>3. Dormant'
    BY <1>0, <1>1, <1>2 DEF Dormant
  <1>4. \A c \in bluetoothCalls' \ bluetoothCalls : c \in BluetoothCallKinds /\ CallSound(c)'
    BY <1>1, CancelIsSound
  <1> QED  BY <1>0, <1>1, <1>2, <1>3, <1>4 DEF Handled

(* The calls of a power request, one for each adapter, are finitely many.   *)
LEMMA PowerCallsAre ==
    ASSUME BluetoothBounds, BluetoothInv, NEW id \in Nat, NEW enabled \in BOOLEAN
    PROVE  LET power == {[Call("power", id, NoDevice, enabled) EXCEPT !.device = a] : a \in DOMAIN adapters}
           IN  /\ Cardinality(power) \in Int
               /\ \A c \in power : /\ c \in BluetoothCallKinds /\ c.kind = "power" /\ c.generation = id
                                   /\ c.owner = bluezOwner /\ c.phase = "sent"
  <1> DEFINE call(a) == [Call("power", id, NoDevice, enabled) EXCEPT !.device = a]
             power == {call(a) : a \in DOMAIN adapters}
             send == [a \in DOMAIN adapters |-> call(a)]
  <1>1. DOMAIN adapters \in SUBSET Adapters
    BY HelperIs, PartialParts
  <1>2. IsFiniteSet(DOMAIN adapters)
    BY <1>1, FS_Subset DEF BluetoothBounds
  <1>3. bluezOwner \in Nat
    BY BluetoothSplit DEF OwnersSound
  <1>4. PICK owner \in Nat : owner = bluezOwner
    BY <1>3
  <1>5. \A c \in power : /\ c \in BluetoothCallKinds /\ c.kind = "power" /\ c.generation = id
                         /\ c.owner = bluezOwner /\ c.phase = "sent"
    <2> SUFFICES ASSUME NEW a \in DOMAIN adapters, NEW c, c = call(a)
                 PROVE  /\ c \in BluetoothCallKinds /\ c.kind = "power" /\ c.generation = id
                        /\ c.owner = bluezOwner /\ c.phase = "sent"
      OBVIOUS
    <2>1. c = [kind |-> "power", generation |-> id, device |-> a, on |-> enabled, owner |-> owner,
               phase |-> "sent"]
      BY <1>4 DEF Call
    <2>2. a \in Adapters
      BY <1>1
    <2>3. c \in BluetoothCallsOf({"power"}, Adapters)
      BY <2>1, <2>2 DEF BluetoothCallsOf, Phases
    <2> QED  BY <1>4, <2>1, <2>3 DEF BluetoothCallKinds
  <1> HIDE DEF call
  <1>6. send \in [DOMAIN adapters -> power] /\ \A c \in power : \E a \in DOMAIN adapters : send[a] = c
    OBVIOUS
  <1>7. send \in Surjection(DOMAIN adapters, power)
    BY <1>6 DEF Surjection
  <1> HIDE DEF power, send
  <1>8. IsFiniteSet(power)
    BY <1>2, <1>7, FS_Surjection
  <1>9. Cardinality(power) \in Int
    BY <1>8, FS_CardinalityType
  <1> QED  BY <1>5, <1>9 DEF power, call

LEMMA SwitchAnswered ==
    ASSUME BluetoothBounds, BluetoothInv, CommandFrame, NEW id \in Nat, id <= bluetoothEvents',
           NEW enabled \in BOOLEAN, SwitchPower(id, enabled), bluetooth.available,
           UNCHANGED bluetoothInterest
    PROVE  Handled
  <1>0. /\ PowerIs(bluetooth) /\ bluetooth \in Powers /\ Dormant
        /\ OperationSound
        /\ {bluezRefreshScheduled, expiryTimer, bluetoothInterest} \subseteq BOOLEAN
    BY HelperIs, BluetoothSplit
  <1>1. /\ UNCHANGED <<deviceNumbering, deviceNamed, bluezOwner, busName>>
        /\ bluetoothEvents' \in {bluetoothEvents, bluetoothEvents + 1}
    BY DEF CommandFrame, bluetoothList, deviceNames, bluezOutside
  <1>2. bluezOwner # 0
    BY <1>0 DEF Dormant
  <1> DEFINE P == {[Call("power", id, NoDevice, enabled) EXCEPT !.device = a] : a \in DOMAIN adapters}
             idle == IF enabled THEN bluetoothOperation.kind = "idle"
                     ELSE AfterStop(AfterCancel(bluetoothOperation, id), id, "cancelled").kind = "idle"
             power == IF idle THEN P ELSE {}
  <1>3. /\ IF enabled THEN UNCHANGED <<bluetoothSession, bluezRefreshScheduled>> ELSE CloseSearch(id)
        /\ bluetoothCalls' = bluetoothCalls \cup power \cup (IF enabled THEN {} ELSE CancelPairing)
        /\ bluetooth' = IF idle THEN [bluetooth EXCEPT !.pending = TRUE, !.target = enabled,
                                        !.requestId = id, !.failure = "none", !.timer = TRUE,
                                        !.calls = Cardinality(power), !.failed = FALSE]
                        ELSE bluetooth
    BY DEF SwitchPower
  <1>4. Cardinality(P) \in Int
    BY PowerCallsAre
  <1>5. \A c \in P : /\ c \in BluetoothCallKinds /\ c.kind = "power" /\ c.generation = id
                     /\ c.owner = bluezOwner /\ c.phase = "sent"
    BY PowerCallsAre
  <1> HIDE DEF P, idle
  <1>6. PowerIs(bluetooth')
    <2>1. CASE idle
      <3>1. PICK calls \in Int : calls = Cardinality(P)
        BY <1>4
      <3>2. bluetooth' = [bluetooth EXCEPT !.pending = TRUE, !.target = enabled, !.requestId = id,
                             !.failure = "none", !.timer = TRUE, !.calls = calls, !.failed = FALSE]
        BY <1>3, <2>1, <3>1
      <3>3. PICK b \in Powers : b = bluetooth
        BY <1>0
      <3> QED  BY <3>2, <3>3 DEF PowerIs, Powers, PowerFailures
    <2>2. CASE ~idle
      BY <1>0, <1>3, <2>2
    <2> QED  BY <2>1, <2>2
  <1>7. /\ OperationFollows /\ RealStep
        /\ OperationSound'
        /\ expiryTimer' \in BOOLEAN /\ bluezRefreshScheduled' \in BOOLEAN
    <2>1. CASE enabled
      <3>1. UNCHANGED <<discovery, expiryTimer, bluetoothOperation, pendingAgentReply,
                        bluezRefreshScheduled>>
        BY <1>3, <2>1 DEF bluetoothSession, search
      <3>2. OperationFollows /\ RealStep
        BY <1>1, <3>1, SameOperation
      <3> QED  BY <1>0, <1>1, <3>1, <3>2 DEF OperationSound
    <2>2. CASE ~enabled
      <3>1. CloseSearch(id)
        BY <1>3, <2>2
      <3> QED  BY <1>1, <3>1, CloseIs, StopIs DEF CloseSearch, OperationSound
    <2> QED  BY <2>1, <2>2
  <1>8. Dormant'
    BY <1>1, <1>2 DEF Dormant
  <1>9. \A c \in bluetoothCalls' \ bluetoothCalls : c \in BluetoothCallKinds /\ CallSound(c)'
    <2> SUFFICES ASSUME NEW c \in bluetoothCalls' \ bluetoothCalls
                 PROVE  c \in BluetoothCallKinds /\ CallSound(c)'
      OBVIOUS
    <2>1. c \in P \/ c \in CancelPairing
      BY <1>3
    <2>2. CASE c \in P
      <3>1. c.kind \notin OnDevice \cup {"pair-connect"}
        BY <1>5, <2>2 DEF OnDevice
      <3> QED  BY <1>1, <1>2, <1>5, <2>2, <3>1, SentCall
    <2>3. CASE c \in CancelPairing
      BY <2>3, CancelIsSound
    <2> QED  BY <2>1, <2>2, <2>3
  <1> QED  BY <1>0, <1>6, <1>7, <1>8, <1>9 DEF Handled

LEMMA PowerAnswered ==
    ASSUME BluetoothBounds, BluetoothInv, CommandFrame, NEW id \in Nat, id <= bluetoothEvents',
           NEW enabled \in BOOLEAN, RequestBluetooth(id, enabled)
    PROVE  Handled
  <1>0. /\ PowerIs(bluetooth) /\ bluetooth \in Powers /\ Dormant
        /\ OperationSound
        /\ {bluezRefreshScheduled, expiryTimer, bluetoothInterest} \subseteq BOOLEAN
    BY HelperIs, BluetoothSplit
  <1>1. UNCHANGED bluetoothInterest /\ UNCHANGED <<deviceNumbering, deviceNamed, bluezOwner>>
    BY DEF RequestBluetooth, CommandFrame, bluetoothList, deviceNames
  <1>2. CASE AnswerPower(id, enabled)
    <2>1. UNCHANGED <<discovery, expiryTimer, bluetoothOperation, pendingAgentReply, bluetoothCalls,
                      bluezRefreshScheduled>>
      BY <1>2 DEF AnswerPower, bluetoothSession, search
    <2>2. \/ bluetooth' = [bluetooth EXCEPT !.pending = FALSE, !.requestId = id,
                                            !.failure = "unavailable"]
          \/ bluetooth' = [bluetooth EXCEPT !.requestId = id, !.failure = "none"]
          \/ bluetooth' = bluetooth
      BY <1>2, Zenon DEF AnswerPower
    <2>3. PowerIs(bluetooth') /\ bluetooth'.available = bluetooth.available
          /\ bluetooth'.enabled = bluetooth.enabled
      BY <1>0, <2>2 DEF PowerIs, Powers, PowerFailures
    <2>4. OperationFollows /\ RealStep
      BY <1>1, <2>1, SameOperation
    <2>5. Dormant'
      BY <1>0, <1>1, <2>1, <2>3 DEF Dormant
    <2> QED  BY <1>0, <1>1, <2>1, <2>3, <2>4, <2>5 DEF Handled, OperationSound
  <1>3. CASE bluetooth.available /\ SwitchPower(id, enabled)
    BY <1>1, <1>3, SwitchAnswered
  <1> QED  BY <1>2, <1>3 DEF RequestBluetooth
LEMMA BegunIs ==
    ASSUME NEW kind \in OnDevice, NEW id \in Nat, NEW token \in Nat
    PROVE  /\ Begun(kind, id, token) \in BluetoothOperations
           /\ Begun(kind, id, token).kind = kind /\ Begun(kind, id, token).generation = id
           /\ Begun(kind, id, token).target = token
  <1>1. PICK b \in BluetoothOperations : b = Resting
    BY DEF Resting, BluetoothOperations, Outcomes
  <1>2. Begun(kind, id, token) = [b EXCEPT !.kind = kind, !.generation = id, !.target = token]
    BY <1>1 DEF Begun
  <1> QED  BY <1>2 DEF BluetoothOperations

(* An operation on a device begins: its number is new, and the device is    *)
(* one that the token stands for.                                           *)
LEMMA OperateAnswered ==
    ASSUME BluetoothInv, CommandFrame, NEW id \in Nat, id > bluetoothEvents, id <= bluetoothEvents',
           NEW token \in Nat, NEW kind \in OnDevice, NEW ready, NEW able,
           Operate(id, token, kind, ready, able)
    PROVE  Handled
  <1>0. /\ PowerIs(bluetooth) /\ Dormant
        /\ OperationSound
        /\ {bluezRefreshScheduled, expiryTimer, bluetoothInterest} \subseteq BOOLEAN
        /\ bluetoothOperation \in BluetoothOperations
    BY HelperIs, BluetoothSplit
  <1>1. /\ UNCHANGED <<bluetooth, pendingAgentReply, bluetoothInterest>>
        /\ UNCHANGED <<deviceNumbering, deviceNamed, bluezOwner, busName>>
        /\ bluetoothEvents' \in {bluetoothEvents, bluetoothEvents + 1}
    BY DEF Operate, CommandFrame, bluetoothList, deviceNames, bluezOutside
  <1>2. CASE ready /\ bluetoothInterest /\ bluetooth.enabled
    <2> DEFINE op == AfterStop(bluetoothOperation, id, "replaced")
               ds == IF op.kind = "idle" THEN Named(token) \cap able ELSE {}
    <2>1. /\ StopWhenActive(id, "replaced")
          /\ bluetoothOperation' = IF ds # {} THEN Begun(kind, id, token) ELSE op
          /\ bluetoothCalls' = bluetoothCalls \cup {Call(kind, id, d, TRUE) : d \in ds}
      BY <1>2 DEF Operate, ReplaceDiscovery
    <2>2. bluezOwner # 0
      BY <1>0, <1>2 DEF Dormant
    <2>3. /\ discovery' \in Discoveries /\ ~discovery'.active
          /\ expiryTimer' \in BOOLEAN /\ bluezRefreshScheduled' \in BOOLEAN
      BY <2>1, StopIs
    <2>4. ds # {} => op.kind = "idle"
      OBVIOUS
    <2>5. ds \subseteq Devices /\ \A d \in ds : <<deviceNumbering, token, d>> \in deviceNamed
      BY TargetsAreDevices
    <2> HIDE DEF ds
    <2>6. CASE ds # {}
      <3>1. /\ bluetoothOperation' \in BluetoothOperations /\ bluetoothOperation'.kind = kind
            /\ bluetoothOperation'.generation = id /\ bluetoothOperation'.target = token
        BY <2>1, <2>6, BegunIs
      <3>2. pendingAgentReply = NoDevice
        <4>1. bluetoothOperation.kind # "pairing"
          BY <2>4, <2>6, ActiveIsAlone DEF AfterStop
        <4> QED  BY <4>1, ActiveIsAlone
      <3>3. OperationFollows
        BY <1>1, <3>1 DEF OperationFollows
      <3>4. kind # "idle"
        BY DEF OnDevice
      <3>5. RealStep
        BY <3>1, <3>4 DEF RealStep, BluetoothEnds
      <3>6. OperationSound'
        BY <1>1, <2>3, <2>5, <2>6, <3>1, <3>2 DEF Searching, OperationSound
      <3>7. Dormant'
        BY <1>1, <2>2 DEF Dormant
      <3>8. \A c \in bluetoothCalls' \ bluetoothCalls : c \in BluetoothCallKinds /\ CallSound(c)'
        <4> SUFFICES ASSUME NEW c \in bluetoothCalls' \ bluetoothCalls
                     PROVE  c \in BluetoothCallKinds /\ CallSound(c)'
          OBVIOUS
        <4>1. PICK d \in ds : c = Call(kind, id, d, TRUE)
          BY <2>1
        <4>2. d \in Devices /\ <<deviceNumbering, token, d>> \in deviceNamed
          BY <2>5
        <4>3. kind \in OnDevice \cup {"pair-connect", "cancel"} /\ kind # "pair-connect"
          BY DEF OnDevice
        <4>4. /\ c \in BluetoothCallKinds /\ c.kind = kind /\ c.generation = id
              /\ c.device = d /\ c.owner = bluezOwner /\ c.phase = "sent"
          BY <4>1, <4>2, <4>3, CallIs DEF Call
        <4> QED  BY <1>1, <2>2, <3>1, <4>2, <4>3, <4>4, SentCall
      <3> QED  BY <1>0, <1>1, <2>3, <3>3, <3>5, <3>6, <3>7, <3>8 DEF Handled
    <2>7. CASE ds = {}
      <3>1. bluetoothOperation' = AfterStop(bluetoothOperation, id, "replaced")
            /\ bluetoothCalls' = bluetoothCalls
        BY <2>1, <2>7
      <3>2. "replaced" \in Outcomes \cap Quiet
        BY DEF Outcomes, Quiet
      <3>3. /\ OperationFollows /\ RealStep
            /\ OperationSound'
        BY <1>1, <2>1, <3>1, <3>2, SearchStops DEF OperationSound
      <3>4. Dormant'
        BY <1>1, <2>2 DEF Dormant
      <3> QED  BY <1>0, <1>1, <2>3, <3>1, <3>3, <3>4 DEF Handled
    <2> QED  BY <2>6, <2>7
  <1>3. CASE ~(ready /\ bluetoothInterest /\ bluetooth.enabled)
    <2>1. UNCHANGED <<discovery, expiryTimer, bluetoothOperation, bluetoothCalls, bluezRefreshScheduled>>
      BY <1>3 DEF Operate, search
    <2>2. OperationFollows /\ RealStep
      BY <1>1, <2>1, SameOperation
    <2>3. Dormant'
      BY <1>0, <1>1, <2>1 DEF Dormant
    <2> QED  BY <1>0, <1>1, <2>1, <2>2, <2>3 DEF Handled, OperationSound
  <1> QED  BY <1>2, <1>3

LEMMA BluetoothCommandKeeps ==
    ASSUME BluetoothBounds, BluetoothInv, HandleBluetoothCommand
    PROVE  BluetoothInv' /\ RealStep
  <1>0. bluetoothEvents \in Nat /\ bluetoothScans \in Nat
    BY HelperIs
  <1>1. bluetoothEvents' = bluetoothEvents + 1 /\ bluetoothScans' = bluetoothScans
    BY DEF HandleBluetoothCommand, BluetoothEvent
  <1>2. PICK id \in Nat : id = bluetoothEvents' /\ id > bluetoothEvents /\ id <= bluetoothEvents'
    BY <1>0, <1>1
  <1>3. CommandFrame
    BY <1>0, <1>1 DEF HandleBluetoothCommand, CommandFrame
  <1>4. \A token \in 1..Cardinality(Devices) : token \in Nat
    BY FS_CardinalityType DEF BluetoothBounds
  <1>5. \/ \E on \in BOOLEAN : RequestBluetooth(id, on)
        \/ CloseBluetoothPage(id) \/ StopDiscovery(id, "stopped") \/ CancelBluetoothPairing(id)
        \/ \E token \in Nat : RequestBluetoothPair(id, token) \/ RequestBluetoothDeviceAction(id, token)
    BY <1>2, <1>4 DEF HandleBluetoothCommand
  <1>6. Handled
    <2>1. CASE \E on \in BOOLEAN : RequestBluetooth(id, on)
      BY <1>2, <1>3, <2>1, PowerAnswered
    <2>2. CASE CloseBluetoothPage(id)
      BY <1>3, <2>2, ClosePageAnswered
    <2>3. CASE StopDiscovery(id, "stopped")
      <3>1. "stopped" \in Outcomes \cap Quiet
        BY DEF Outcomes, Quiet
      <3> QED  BY <1>3, <2>3, <3>1, StopAnswered
    <2>4. CASE CancelBluetoothPairing(id)
      BY <1>3, <2>4, CancelAnswered
    <2>5. CASE \E token \in Nat : RequestBluetoothPair(id, token) \/ RequestBluetoothDeviceAction(id, token)
      <3>1. PICK token \in Nat : RequestBluetoothPair(id, token) \/ RequestBluetoothDeviceAction(id, token)
        BY <2>5
      <3>2. {"pairing", "connecting", "disconnecting", "unpairing"} = OnDevice
        BY DEF OnDevice
      <3>3. \E kind \in OnDevice, ready \in BOOLEAN \cup {agentRegistered}, able \in SUBSET DOMAIN devices :
               Operate(id, token, kind, ready, able)
        <4>1. CASE RequestBluetoothPair(id, token)
          <5>1. Operate(id, token, "pairing", agentRegistered, Unpaired) /\ Unpaired \in SUBSET DOMAIN devices
            BY <4>1 DEF RequestBluetoothPair, Unpaired
          <5> QED  BY <3>2, <5>1
        <4>2. CASE RequestBluetoothDeviceAction(id, token)
          <5> DEFINE disconnects == {d \in DOMAIN devices : devices[d].connected}
                     unpairs == {d \in DOMAIN devices : devices[d].paired}
                     connects == unpairs \ disconnects
          <5>1. \/ Operate(id, token, "connecting", TRUE, connects)
                \/ Operate(id, token, "disconnecting", TRUE, disconnects)
                \/ Operate(id, token, "unpairing", TRUE, unpairs)
            BY <4>2 DEF RequestBluetoothDeviceAction
          <5>2. {connects, disconnects, unpairs} \subseteq SUBSET DOMAIN devices
            OBVIOUS
          <5> HIDE DEF connects, disconnects, unpairs
          <5> QED  BY <3>2, <5>1, <5>2
        <4> QED  BY <3>1, <4>1, <4>2
      <3> QED  BY <1>2, <1>3, <3>3, OperateAnswered
    <2> QED  BY <1>5, <2>1, <2>2, <2>3, <2>4, <2>5
  <1> QED  BY <1>3, <1>6, AnsweredKeeps
-----------------------------------------------------------------------------
(* Bluetooth: snapshots.                                                    *)

(* The tokens of a new list: old devices keep theirs, and the others get    *)
(* tokens that nothing had.                                                 *)
LEMMA RebuiltTokens ==
    ASSUME BluetoothBounds, BluetoothInv, NEW kept \in SUBSET Devices
    PROVE  LET fresh == SetToSeq(kept \ DOMAIN devices) IN
           /\ Len(fresh) \in Nat
           /\ \A d \in kept : d \in DOMAIN devices => TokenForDevice(fresh, d) = devices[d].token
           /\ \A d \in kept \ DOMAIN devices :
                 TokenForDevice(fresh, d) \in nextDeviceToken..(nextDeviceToken + Len(fresh) - 1)
           /\ \A c, d \in kept \ DOMAIN devices :
                 TokenForDevice(fresh, c) = TokenForDevice(fresh, d) => c = d
  <1> DEFINE S == kept \ DOMAIN devices
             k == Cardinality(S)
             fresh == SetToSeq(S)
  <1>1. IsFiniteSet(S)
    BY FS_Subset DEF BluetoothBounds
  <1>2. fresh \in [1..k -> S] /\ IsInjective(fresh)
    <2>1. \E f \in [1..k -> S] : IsInjective(f)
      BY <1>1, Enumerable
    <2> QED  BY <2>1 DEF SetToSeq
  <1> HIDE DEF fresh, S
  <1>3. /\ k \in Nat /\ \A x \in S : \E i \in DOMAIN fresh : fresh[i] = x
        /\ DOMAIN fresh = 1..k /\ Len(fresh) = k
    BY <1>1, <1>2, EnumeratesAll
  <1>4. nextDeviceToken \in Nat \ {0}
    BY BluetoothSplit DEF DevicesSound
  <1> DEFINE at(n) == CHOOSE i \in DOMAIN fresh : fresh[i] = n
  <1>5. \A d \in S : at(d) \in 1..k /\ fresh[at(d)] = d
    BY <1>3
  <1>6. \A d \in S : TokenForDevice(fresh, d) = nextDeviceToken - 1 + at(d)
    BY DEF TokenForDevice, S
  <1> HIDE DEF at, k
  <1>7. \A d \in S : TokenForDevice(fresh, d) \in nextDeviceToken..(nextDeviceToken + Len(fresh) - 1)
    BY <1>3, <1>4, <1>5, <1>6
  <1>8. \A c, d \in S : TokenForDevice(fresh, c) = TokenForDevice(fresh, d) => c = d
    <2> TAKE c \in S, d \in S
    <2>1. at(c) \in Nat /\ at(d) \in Nat
      BY <1>3, <1>5
    <2>2. TokenForDevice(fresh, c) = TokenForDevice(fresh, d) => at(c) = at(d)
      BY <1>4, <1>6, <2>1
    <2> QED  BY <1>5, <2>2
  <1>9. \A d \in kept : d \in DOMAIN devices => TokenForDevice(fresh, d) = devices[d].token
    BY DEF TokenForDevice
  <1>10. Len(fresh) \in Nat
    BY <1>3
  <1> QED  BY <1>7, <1>8, <1>9, <1>10 DEF S, fresh

LEMMA RebuiltDevices ==
    ASSUME BluetoothBounds, BluetoothInv, NEW old, RebuildDevices(old)
    PROVE  /\ DevicesSound' /\ deviceNamed \subseteq deviceNamed' /\ UNCHANGED deviceNumbering
           /\ \A d \in DOMAIN devices' :
                 /\ d \in DOMAIN bluez.devices /\ devices'[d].connected = bluez.devices[d].connected
                 /\ devices'[d].token < nextDeviceToken =>
                       <<deviceNumbering, devices'[d].token, d>> \in deviceNamed
           /\ \A d \in DOMAIN devices :
                 d \in DOMAIN bluez.devices /\ (bluez.devices[d].paired \/ bluez.devices[d].connected)
                 => d \in DOMAIN devices' /\ devices'[d].token = devices[d].token
  <1>0. /\ DevicesSound /\ bluez \in Daemons /\ discovery \in Discoveries
    BY HelperIs, BluetoothSplit
  <1>1. /\ DOMAIN bluez.devices \in SUBSET Devices
        /\ \A d \in DOMAIN bluez.devices : bluez.devices[d] \in Pairs
    <2>1. bluez.devices \in Partial(Devices, Pairs)
      BY <1>0 DEF Daemons
    <2> QED  BY <2>1, PartialParts
  <1>2. /\ DOMAIN devices \in SUBSET Devices /\ \A d \in DOMAIN devices : devices[d] \in Remotes
    BY <1>0, PartialParts DEF DevicesSound
  <1> DEFINE kept == {d \in DOMAIN bluez.devices :
                   \/ bluez.devices[d].paired \/ bluez.devices[d].connected \/ discovery.active
                   \/ SeenLately(d) /\ d \notin old}
             fresh == SetToSeq(kept \ DOMAIN devices)
             token(d) == TokenForDevice(fresh, d)
             entry(d) == [token |-> token(d), paired |-> bluez.devices[d].paired,
                          connected |-> bluez.devices[d].connected, seen |-> SeenLately(d)]
  <1>3. kept \in SUBSET Devices /\ kept \subseteq DOMAIN bluez.devices
    BY <1>1
  <1>4. /\ devices' = [d \in kept |-> entry(d)]
        /\ nextDeviceToken' = nextDeviceToken + Len(fresh)
        /\ deviceNumbering' = deviceNumbering
        /\ deviceNamed' = deviceNamed \cup {<<deviceNumbering, devices'[d].token, d>> : d \in kept}
    BY DEF RebuildDevices
  <1>21. \A d \in DOMAIN bluez.devices :
            bluez.devices[d].paired \/ bluez.devices[d].connected => d \in kept
    OBVIOUS
  <1> HIDE DEF kept
  <1>5. /\ Len(fresh) \in Nat
        /\ \A d \in kept : d \in DOMAIN devices => token(d) = devices[d].token
        /\ \A d \in kept \ DOMAIN devices :
              token(d) \in nextDeviceToken..(nextDeviceToken + Len(fresh) - 1)
        /\ \A c, d \in kept \ DOMAIN devices : token(c) = token(d) => c = d
    BY <1>3, RebuiltTokens
  <1> HIDE DEF fresh, token
  <1>6. \A d \in kept : entry(d) \in Remotes \/ token(d) \notin Nat
    <2> TAKE d \in kept
    <2> DEFINE t == token(d)
               a == bluez.devices[d].paired
               b == bluez.devices[d].connected
               s == SeenLately(d)
    <2>1. a \in BOOLEAN /\ b \in BOOLEAN
      BY <1>1, <1>3 DEF Pairs
    <2>2. s \in BOOLEAN
      BY <1>0, <1>2 DEF SeenLately, Discoveries, Remotes
    <2>3. entry(d) = [token |-> t, paired |-> a, connected |-> b, seen |-> s]
      OBVIOUS
    <2> HIDE DEF t, a, b, s, entry
    <2>4. t \in Nat => entry(d) \in Remotes
      BY <2>1, <2>2, <2>3 DEF Remotes
    <2> QED  BY <2>4 DEF t
  <1>7. \A d \in kept : entry(d).token = token(d) /\ entry(d).connected = bluez.devices[d].connected
    OBVIOUS
  <1> HIDE DEF entry
  <1>8. /\ nextDeviceToken \in Nat \ {0} /\ deviceNumbering \in Nat
        /\ deviceNamed \subseteq (0..deviceNumbering) \X Nat \X Devices
        /\ \A s \in deviceNamed : s[1] = deviceNumbering => s[2] \in 1..(nextDeviceToken - 1)
        /\ \A s, t \in deviceNamed : s[1] = t[1] /\ s[2] = t[2] => s = t
        /\ \A d \in DOMAIN devices : <<deviceNumbering, devices[d].token, d>> \in deviceNamed
    BY <1>0 DEF DevicesSound, DeviceTokensNameOne
  <1>9. nextDeviceToken' \in Nat \ {0} /\ nextDeviceToken <= nextDeviceToken'
    BY <1>4, <1>5, <1>8
  <1>10. \A d \in kept :
            \/ <<deviceNumbering, token(d), d>> \in deviceNamed /\ token(d) \in 1..(nextDeviceToken - 1)
            \/ d \notin DOMAIN devices /\ token(d) \in nextDeviceToken..(nextDeviceToken' - 1)
    <2> TAKE d \in kept
    <2>1. CASE d \in DOMAIN devices
      <3>1. <<deviceNumbering, token(d), d>> \in deviceNamed
        BY <1>5, <1>8, <2>1
      <3> QED  BY <1>8, <3>1
    <2>2. CASE d \notin DOMAIN devices
      <3>1. token(d) \in nextDeviceToken..(nextDeviceToken + Len(fresh) - 1)
        BY <1>5, <2>2
      <3>2. nextDeviceToken' - 1 = nextDeviceToken + Len(fresh) - 1
        BY <1>4, <1>5, <1>8
      <3> QED  BY <2>2, <3>1, <3>2
    <2> QED  BY <2>1, <2>2
  <1>11. \A d \in kept : token(d) \in 1..(nextDeviceToken' - 1)
    <2> TAKE d \in kept
    <2>1. PICK t : t = token(d)
      OBVIOUS
    <2>2. t \in 1..(nextDeviceToken - 1) \/ t \in nextDeviceToken..(nextDeviceToken' - 1)
      BY <1>10, <2>1
    <2>3. t \in 1..(nextDeviceToken' - 1)
      BY <1>8, <1>9, <2>2
    <2> QED  BY <2>1, <2>3
  <1>12. devices' \in Partial(Devices, Remotes)
    <2>1. \A d \in kept : token(d) \in Nat
      BY <1>9, <1>11
    <2>2. devices' \in [kept -> Remotes]
      BY <1>4, <1>6, <2>1
    <2> QED  BY <1>3, <2>2, IsPartial
  <1>13. /\ DOMAIN devices' = kept
         /\ \A d \in kept : devices'[d].token = token(d) /\ devices'[d].connected = bluez.devices[d].connected
    BY <1>4, <1>7
  <1>14. deviceNamed' = deviceNamed \cup {<<deviceNumbering, token(d), d>> : d \in kept}
    BY <1>4, <1>13
  <1>15. /\ deviceNamed' \subseteq (0..deviceNumbering) \X Nat \X Devices
         /\ \A s \in deviceNamed' : s[1] = deviceNumbering => s[2] \in 1..(nextDeviceToken' - 1)
    <2>1. \A d \in kept : <<deviceNumbering, token(d), d>> \in (0..deviceNumbering) \X Nat \X Devices
      <3> TAKE d \in kept
      <3>1. PICK t : t = token(d)
        OBVIOUS
      <3>2. t \in Nat /\ d \in Devices /\ deviceNumbering \in 0..deviceNumbering
        BY <1>3, <1>8, <1>9, <1>11, <3>1
      <3> QED  BY <3>1, <3>2
    <2>2. \A s \in deviceNamed : s[1] = deviceNumbering => s[2] \in 1..(nextDeviceToken' - 1)
      BY <1>8, <1>9
    <2> QED  BY <1>8, <1>11, <1>14, <2>1, <2>2
  <1>16. \A s \in deviceNamed' :
            \/ s \in deviceNamed
            \/ \E d \in kept \ DOMAIN devices :
                  /\ s = <<deviceNumbering, token(d), d>>
                  /\ s[1] = deviceNumbering /\ s[2] \in nextDeviceToken..(nextDeviceToken' - 1)
    BY <1>10, <1>14
  <1>17. \A s, t \in deviceNamed' : s[1] = t[1] /\ s[2] = t[2] => s = t
    <2> SUFFICES ASSUME NEW s \in deviceNamed', NEW t \in deviceNamed', s[1] = t[1], s[2] = t[2]
                 PROVE  s = t
      OBVIOUS
    <2>1. ASSUME NEW x \in deviceNamed, NEW d \in kept \ DOMAIN devices, x[1] = deviceNumbering,
                 x[2] \in nextDeviceToken..(nextDeviceToken' - 1)
          PROVE  FALSE
      BY <1>8, <1>9, <2>1
    <2>2. CASE s \in deviceNamed /\ t \in deviceNamed
      BY <1>8, <2>2
    <2>3. CASE s \notin deviceNamed /\ t \in deviceNamed
      BY <1>16, <2>1, <2>3
    <2>4. CASE s \in deviceNamed /\ t \notin deviceNamed
      BY <1>16, <2>1, <2>4
    <2>5. CASE s \notin deviceNamed /\ t \notin deviceNamed
      <3>1. PICK c \in kept \ DOMAIN devices : s = <<deviceNumbering, token(c), c>>
        BY <1>16, <2>5
      <3>2. PICK d \in kept \ DOMAIN devices : t = <<deviceNumbering, token(d), d>>
        BY <1>16, <2>5
      <3> QED  BY <1>5, <3>1, <3>2
    <2> QED  BY <2>2, <2>3, <2>4, <2>5
  <1>18. \A d \in DOMAIN devices' : <<deviceNumbering', devices'[d].token, d>> \in deviceNamed'
    BY <1>4, <1>13, <1>14
  <1>19. DevicesSound'
    BY <1>4, <1>8, <1>9, <1>12, <1>15, <1>17, <1>18 DEF DevicesSound, DeviceTokensNameOne
  <1>20. \A d \in kept : token(d) < nextDeviceToken => <<deviceNumbering, token(d), d>> \in deviceNamed
    <2> TAKE d \in kept
    <2>1. token(d) \in nextDeviceToken..(nextDeviceToken' - 1) => ~(token(d) < nextDeviceToken)
      BY <1>8, <1>9
    <2> QED  BY <1>10, <2>1
  <1>22. \A d \in DOMAIN devices :
            d \in DOMAIN bluez.devices /\ (bluez.devices[d].paired \/ bluez.devices[d].connected)
            => d \in DOMAIN devices' /\ devices'[d].token = devices[d].token
    BY <1>5, <1>13, <1>21
  <1> QED  BY <1>3, <1>4, <1>13, <1>14, <1>19, <1>20, <1>22

(* How the snapshot ends an operation is how the list stands.               *)
LEMMA BluetoothConclusionIs ==
    ASSUME NEW list
    PROVE  /\ BluetoothConclusion(list) \in {"connected", "disconnected", "unpaired", "none"}
           /\ BluetoothConclusion(list) = "connected" =>
                 bluetoothOperation.kind = "connecting" /\ DeviceConnected(list)
           /\ BluetoothConclusion(list) = "disconnected" => ~DeviceConnected(list)
           /\ BluetoothConclusion(list) = "unpaired" => Target(list) = {}
  BY DEF BluetoothConclusion

LEMMA BluezSnapshotKeeps ==
    ASSUME BluetoothBounds, BluetoothInv, NEW old, RefreshBluez(old)
    PROVE  BluetoothInv' /\ RealStep
  <1>0. /\ PowerIs(bluetooth) /\ bluetooth \in Powers /\ Dormant /\ TargetNamed /\ DevicesSound
        /\ OperationSound
        /\ bluez \in Daemons /\ bluetoothEvents \in Nat /\ bluetoothScans \in Nat
        /\ agentRegistered \in BOOLEAN /\ expiryTimer \in BOOLEAN /\ bluetoothInterest \in BOOLEAN
    BY HelperIs, BluetoothSplit
  <1> DEFINE on == {a \in DOMAIN bluez.powered : bluez.powered[a]}
             a == bluez.powered # <<>>
             b == on # {}
             observed == [bluetooth EXCEPT !.available = a, !.enabled = b]
             ending == BluetoothConclusion(devices')
  <1>1. /\ bluezRefreshScheduled /\ bluezRefreshScheduled' = FALSE
        /\ adapters' = bluez.powered /\ RebuildDevices(old)
        /\ UNCHANGED <<bluezOwner, agentRegistered, discovery, expiryTimer, bluetoothInterest,
                       bluetoothCalls, bluez, busName, everPaired, bluetoothScans, bluetoothEvents>>
    BY DEF RefreshBluez, search, bluezOutside
  <1>2. bluezOwner # 0
    BY <1>0, <1>1 DEF Dormant
  <1>3. \/ bluetooth' = [observed EXCEPT !.pending = FALSE, !.failure = "none", !.timer = FALSE]
        \/ bluetooth' = [observed EXCEPT !.pending = FALSE, !.failure = "unavailable",
                                         !.timer = FALSE, !.calls = 0, !.failed = FALSE]
        \/ bluetooth' = observed
    BY Zenon DEF RefreshBluez
  <1>4. \/ ending # "none" /\ FinishBluetoothOperation("none", ending)
        \/ UNCHANGED <<bluetoothOperation, pendingAgentReply>>
    BY DEF RefreshBluez
  <1>5. adapters' \in Partial(Adapters, BOOLEAN)
    BY <1>0, <1>1 DEF Daemons
  <1>6. /\ DevicesSound' /\ deviceNamed \subseteq deviceNamed' /\ UNCHANGED deviceNumbering
        /\ \A d \in DOMAIN devices' :
              /\ d \in DOMAIN bluez.devices /\ devices'[d].connected = bluez.devices[d].connected
              /\ devices'[d].token < nextDeviceToken =>
                    <<deviceNumbering, devices'[d].token, d>> \in deviceNamed
        /\ \A d \in DOMAIN devices :
              d \in DOMAIN bluez.devices /\ (bluez.devices[d].paired \/ bluez.devices[d].connected)
              => d \in DOMAIN devices' /\ devices'[d].token = devices[d].token
    BY <1>1, RebuiltDevices
  <1>7. PowerIs(bluetooth')
    <2>1. a \in BOOLEAN /\ b \in BOOLEAN
      OBVIOUS
    <2> HIDE DEF a, b
    <2>2. observed \in Powers /\ observed.pending = bluetooth.pending /\ observed.timer = bluetooth.timer
      BY <1>0, <2>1 DEF Powers
    <2>3. PICK o \in Powers : o = observed /\ (o.pending => o.timer)
      BY <1>0, <2>2 DEF PowerIs
    <2>4. PICK none \in Int : none = 0
      OBVIOUS
    <2>5. \/ bluetooth' = [o EXCEPT !.pending = FALSE, !.failure = "none", !.timer = FALSE]
          \/ bluetooth' = [o EXCEPT !.pending = FALSE, !.failure = "unavailable",
                                    !.timer = FALSE, !.calls = none, !.failed = FALSE]
          \/ bluetooth' = o
      BY <1>3, <2>3, <2>4
    <2> QED  BY <2>3, <2>5 DEF PowerIs, Powers, PowerFailures
  <1> HIDE DEF ending
  <1>8. CASE ending # "none" /\ FinishBluetoothOperation("none", ending)
    <2>1. /\ bluetoothOperation' = Finished(bluetoothOperation, "none", ending)
          /\ pendingAgentReply' = NoDevice
      BY <1>8 DEF FinishBluetoothOperation, ClearPairingReply
    <2>2. /\ ending \in {"connected", "disconnected", "unpaired"}
          /\ ending = "connected" => bluetoothOperation.kind = "connecting" /\ DeviceConnected(devices')
          /\ ending = "disconnected" => ~DeviceConnected(devices')
          /\ ending = "unpaired" => Target(devices') = {}
      BY <1>8, BluetoothConclusionIs DEF ending
    <2>3. ending \in Outcomes
      BY <2>2 DEF Outcomes
    <2>4. /\ bluetoothOperation'.kind = "idle" /\ bluetoothOperation'.result = ending
          /\ OperationSound'
      <3>1. bluetoothOperation \in BluetoothOperations
        BY <1>0 DEF Searching, OperationSound
      <3>2. /\ bluetoothOperation' \in BluetoothOperations /\ bluetoothOperation'.kind = "idle"
            /\ bluetoothOperation'.result = ending
        BY <2>1, <2>3, <3>1 DEF Finished, BluetoothOperations
      <3> QED  BY <1>0, <1>1, <2>1, <3>2 DEF Searching, OperationSound, OnDevice
    <2>5. RealStep
      <3>1. CASE ending = "connected"
        <4>1. PICK d \in Target(devices') : devices'[d].connected
          BY <2>2, <3>1 DEF DeviceConnected
        <4>2. d \in DOMAIN devices' /\ devices'[d].token = bluetoothOperation.target
          BY DEF Target
        <4>3. \E c \in Devices : <<deviceNumbering, bluetoothOperation.target, c>> \in deviceNamed
          BY <1>0, <2>2, <3>1 DEF TargetNamed, OnDevice
        <4>4. bluetoothOperation.target < nextDeviceToken
          <5>1. PICK c \in Devices : <<deviceNumbering, bluetoothOperation.target, c>> \in deviceNamed
            BY <4>3
          <5>2. bluetoothOperation.target \in 1..(nextDeviceToken - 1) /\ nextDeviceToken \in Nat
            BY <1>0, <5>1 DEF DevicesSound
          <5> QED  BY <5>2
        <4>5. /\ <<deviceNumbering, bluetoothOperation.target, d>> \in deviceNamed
              /\ d \in DOMAIN bluez.devices /\ bluez.devices[d].connected
          BY <1>6, <4>1, <4>2, <4>4
        <4>6. d \in Devices
          BY <1>0, <4>5 DEF DevicesSound
        <4> QED  BY <2>4, <3>1, <4>5, <4>6 DEF RealStep, OfTarget, IsConnected, Known
      <3>2. ASSUME NEW d \in Target(devices), Known(d),
                   bluez.devices[d].paired \/ bluez.devices[d].connected
            PROVE  /\ d \in Target(devices') /\ devices'[d].connected = bluez.devices[d].connected
        BY <1>6, <3>2 DEF Target, Known
      <3>3. CASE ending = "disconnected"
        <4>1. ~DeviceConnected(devices')
          BY <2>2, <3>3
        <4>2. \A d \in Target(devices) : ~IsConnected(d)
          BY <3>2, <4>1 DEF DeviceConnected, IsConnected
        <4> QED  BY <2>4, <3>3, <4>2 DEF RealStep
      <3>4. CASE ending = "unpaired"
        <4>1. \A d \in Target(devices) : ~IsPaired(d)
          BY <2>2, <3>2, <3>4 DEF IsPaired
        <4> QED  BY <2>4, <3>4, <4>1 DEF RealStep
      <3> QED  BY <2>2, <3>1, <3>3, <3>4
    <2>6. OperationFollows
      BY <2>4 DEF OperationFollows, OnDevice
    <2>7. Dormant'
      BY <1>1, <1>2 DEF Dormant
    <2> QED  BY <1>0, <1>1, <1>5, <1>6, <1>7, <2>4, <2>5, <2>6, <2>7, HelperMoves
  <1>9. CASE UNCHANGED <<bluetoothOperation, pendingAgentReply>>
    <2>1. OperationFollows /\ RealStep
      BY <1>6, <1>9, SameOperation
    <2>2. OperationSound'
      BY <1>0, <1>1, <1>6, <1>9 DEF Searching, OperationSound
    <2>3. Dormant'
      BY <1>1, <1>2 DEF Dormant
    <2> QED  BY <1>0, <1>1, <1>5, <1>6, <1>7, <2>1, <2>2, <2>3, HelperMoves
  <1> QED  BY <1>4, <1>8, <1>9
-----------------------------------------------------------------------------
(* Bluetooth: another BlueZ.                                                *)

LEMMA BluezOwnerKeeps ==
    ASSUME BluetoothInv, OnBluezOwnerChanged
    PROVE  BluetoothInv' /\ RealStep
  <1>0. /\ bluetoothInterest \in BOOLEAN /\ BluezSound /\ OwnersSound /\ CallsSound
    BY HelperIs, BluetoothSplit
  <1>1. /\ busName # bluezOwner /\ bluezOwner' = busName
        /\ bluezRefreshScheduled' = (busName # 0) /\ agentRegistered' \in {FALSE, busName # 0}
        /\ ClearBluetoothManagerState(IF busName = 0 THEN "unavailable" ELSE "none")
        /\ bluetooth' = ResetBluetooth("none", FALSE)
        /\ UNCHANGED <<bluetoothInterest, bluetoothCalls, bluez, busName, everPaired, bluetoothScans,
                       bluetoothEvents>>
    BY DEF OnBluezOwnerChanged, bluezOutside
  <1>2. PICK failure \in {"none", "unavailable", "backend"} :
           failure = IF busName = 0 THEN "unavailable" ELSE "none"
    OBVIOUS
  <1>3. ClearBluetoothManagerState(failure)
    BY <1>1, <1>2
  <1>4. /\ \A interest : Searching(bluetoothOperation', discovery', pendingAgentReply', interest,
                                   deviceNumbering', deviceNamed')
        /\ RealStep /\ DevicesSound' /\ adapters' \in Partial(Adapters, BOOLEAN)
        /\ expiryTimer' \in BOOLEAN /\ bluetoothOperation'.kind = "idle"
    BY <1>3, ClearedManager
  <1>5. PowerIs(bluetooth') /\ ~bluetooth'.available /\ ~bluetooth'.enabled
    BY <1>1, ResetPower DEF PowerFailures
  <1>6. PowerSound' /\ SearchSound' /\ TargetNamed'
    BY <1>4, <1>5, SearchMoves DEF PowerIs, PowerSound, OperationSound
  <1>7. Dormant' /\ BluezSound' /\ OwnersSound' /\ FlagsSound'
    BY <1>0, <1>1, <1>4, <1>5 DEF Dormant, BluezSound, OwnersSound, FlagsSound
  <1>8. CallsSound'
    <2> SUFFICES ASSUME NEW c \in bluetoothCalls PROVE c \in BluetoothCallKinds /\ CallSound(c)'
      BY <1>1 DEF CallsSound
    <2>1. c \in BluetoothCallKinds /\ CallSound(c)
      BY <1>0 DEF CallsSound
    <2>2. c.owner # busName
      BY <1>1, <2>1 DEF CallSound
    <2>3. Awaiting(c)' # "idle"
      BY <2>1 DEF Awaiting, BluetoothCallKinds, DeviceCalls, BluetoothCallsOf, OnDevice
    <2> QED  BY <1>1, <1>4, <2>1, <2>2, <2>3 DEF CallSound
  <1> QED  BY <1>4, <1>6, <1>7, <1>8 DEF BluetoothInv

-----------------------------------------------------------------------------
(* Bluetooth: the agent.                                                    *)

LEMMA PromptIs ==
    ASSUME NEW op \in BluetoothOperations, NEW prompt \in {"none", "ask", "display"},
           NEW o, o = [op EXCEPT !.prompt = prompt]
    PROVE  /\ o \in BluetoothOperations /\ o.kind = op.kind /\ o.target = op.target
           /\ o.generation = op.generation
  BY DEF BluetoothOperations

(* The pairing goes on with another prompt, or it ends.                     *)
LEMMA AgentMoves ==
    ASSUME BluetoothInv,
           ReplySound,
           OperationFollows, RealStep,
           bluez' \in Daemons, bluez'.pairing = bluez.pairing,
           bluetoothOperation.kind = "idle" => bluetoothOperation'.kind = "idle",
           bluetoothEvents' \in {bluetoothEvents, bluetoothEvents + 1}, agentRegistered' \in BOOLEAN,
           UNCHANGED <<bluezOwner, bluezRefreshScheduled, bluetooth, bluetoothList, bluetoothInterest,
                       discovery, expiryTimer, bluetoothCalls, busName, everPaired, bluetoothScans>>
    PROVE  BluetoothInv' /\ RealStep
  <1>0. /\ PowerIs(bluetooth) /\ bluetoothScans \in Nat /\ adapters \in Partial(Adapters, BOOLEAN)
        /\ {bluezRefreshScheduled, expiryTimer, bluetoothInterest} \subseteq BOOLEAN
        /\ Dormant /\ DevicesSound
    BY HelperIs, BluetoothSplit
  <1>1. UNCHANGED <<adapters, devices, nextDeviceToken, deviceNumbering, deviceNamed>>
    BY DEF bluetoothList, deviceNames
  <1>2. DevicesSound'
    BY <1>0, <1>1, SameDevices
  <1>3. Dormant'
    BY <1>0 DEF Dormant
  <1> QED  BY <1>0, <1>1, <1>2, <1>3, HelperMoves DEF OperationSound, ReplySound

LEMMA PromptedKeeps ==
    ASSUME BluetoothInv, NEW prompt \in {"none", "ask", "display"},
           bluetoothOperation.kind = "pairing",
           bluetoothOperation' = [bluetoothOperation EXCEPT !.prompt = prompt],
           pendingAgentReply' \in {NoDevice, pendingAgentReply} \cup Target(devices),
           NEW asked \in BOOLEAN, bluez' = bluez \/ bluez' = [bluez EXCEPT !.asked = asked],
           UNCHANGED <<bluezOwner, bluezRefreshScheduled, agentRegistered, bluetooth, bluetoothList,
                       bluetoothInterest, discovery, expiryTimer, bluetoothCalls, busName, everPaired,
                       bluetoothScans, bluetoothEvents>>
    PROVE  BluetoothInv' /\ RealStep
  <1>0. /\ OperationSound
        /\ bluetoothOperation \in BluetoothOperations /\ bluez \in Daemons /\ agentRegistered \in BOOLEAN
    BY HelperIs
  <1>1. /\ bluetoothOperation' \in BluetoothOperations /\ bluetoothOperation'.kind = "pairing"
        /\ bluetoothOperation'.target = bluetoothOperation.target
        /\ bluetoothOperation'.generation = bluetoothOperation.generation
    BY <1>0, PromptIs
  <1>2. \A d \in Target(devices) : d \in Devices /\ <<deviceNumbering, bluetoothOperation.target, d>> \in deviceNamed
    BY TargetsAreDevices
  <1>3. ReplySound
    BY <1>0, <1>1, <1>2 DEF Searching, OperationSound, ReplySound
  <1>4. bluez' \in Daemons /\ bluez'.pairing = bluez.pairing
    BY <1>0 DEF Daemons
  <1>5. OperationFollows /\ RealStep
    BY <1>1 DEF OperationFollows, RealStep, BluetoothEnds, bluetoothList, deviceNames
  <1> QED  BY <1>0, <1>1, <1>3, <1>4, <1>5, AgentMoves

LEMMA PromptsKeep ==
    ASSUME BluetoothInv,
           HandleAgentPrompt \/ HandleAgentDisplay
           \/ \E answer \in BOOLEAN : RespondToBluetoothPrompt(answer)
    PROVE  BluetoothInv' /\ RealStep
  <1>1. CASE HandleAgentPrompt
    <2>1. /\ bluetoothOperation.kind = "pairing" /\ pendingAgentReply' \in Target(devices)
          /\ bluetoothOperation' = [bluetoothOperation EXCEPT !.prompt = "ask"]
          /\ bluez' = [bluez EXCEPT !.asked = TRUE]
          /\ UNCHANGED <<bluezOwner, bluezRefreshScheduled, agentRegistered, bluetooth, bluetoothList,
                         bluetoothInterest, discovery, expiryTimer, bluetoothCalls, busName,
                         everPaired, bluetoothScans, bluetoothEvents>>
      BY <1>1 DEF HandleAgentPrompt, HelperUntouched, search
    <2> QED  BY <2>1, PromptedKeeps
  <1>2. CASE HandleAgentDisplay
    <2>1. /\ bluetoothOperation.kind = "pairing" /\ pendingAgentReply' = pendingAgentReply
          /\ bluetoothOperation' = [bluetoothOperation EXCEPT !.prompt = "display"]
          /\ bluez' = bluez
          /\ UNCHANGED <<bluezOwner, bluezRefreshScheduled, agentRegistered, bluetooth, bluetoothList,
                         bluetoothInterest, discovery, expiryTimer, bluetoothCalls, busName,
                         everPaired, bluetoothScans, bluetoothEvents>>
      BY <1>2 DEF HandleAgentDisplay, HelperUntouched, search, bluezOutside
    <2> QED  BY <2>1, PromptedKeeps
  <1>3. CASE \E answer \in BOOLEAN : RespondToBluetoothPrompt(answer)
    <2>1. /\ bluetoothOperation.kind = "pairing" /\ pendingAgentReply' = NoDevice
          /\ bluetoothOperation' = [bluetoothOperation EXCEPT !.prompt = "none"]
          /\ bluez' = [bluez EXCEPT !.asked = FALSE]
          /\ UNCHANGED <<bluezOwner, bluezRefreshScheduled, agentRegistered, bluetooth, bluetoothList,
                         bluetoothInterest, discovery, expiryTimer, bluetoothCalls, busName,
                         everPaired, bluetoothScans, bluetoothEvents>>
      BY <1>3 DEF RespondToBluetoothPrompt, HelperUntouched, search
    <2> QED  BY <2>1, PromptedKeeps
  <1> QED  BY <1>1, <1>2, <1>3

(* Any end that names no device of its own.                                 *)
LEMMA EndIs ==
    ASSUME BluetoothInv,
           NEW failure \in {"none", "unavailable", "backend", "cancelled", "rejected",
                            "connection-failed", "trust-failed"},
           NEW result \in Outcomes, FinishBluetoothOperation(failure, result)
    PROVE  /\ bluetoothOperation'.kind = "idle" /\ bluetoothOperation'.result = result
           /\ ReplySound
           /\ OperationFollows
  <1>0. /\ OperationSound
        /\ bluetoothOperation \in BluetoothOperations
    BY HelperIs
  <1>1. bluetoothOperation' = Finished(bluetoothOperation, failure, result) /\ pendingAgentReply' = NoDevice
    BY DEF FinishBluetoothOperation, ClearPairingReply
  <1>2. /\ bluetoothOperation' \in BluetoothOperations /\ bluetoothOperation'.kind = "idle"
        /\ bluetoothOperation'.result = result
    BY <1>0, <1>1 DEF Finished, BluetoothOperations
  <1>3. ReplySound
    BY <1>0, <1>1, <1>2 DEF Searching, OperationSound, ReplySound, OnDevice
  <1> QED  BY <1>2, <1>3 DEF OperationFollows, OnDevice

LEMMA AgentEndsKeep ==
    ASSUME BluetoothInv, AgentCancels \/ AgentReleased
    PROVE  BluetoothInv' /\ RealStep
  <1>0. bluez \in Daemons /\ agentRegistered \in BOOLEAN /\ bluetoothEvents \in Nat
    BY HelperIs
  <1>1. CASE AgentCancels
    <2>1. /\ FinishBluetoothOperation("cancelled", "cancelled") /\ bluez' = [bluez EXCEPT !.cancels = FALSE]
          /\ UNCHANGED <<bluezOwner, bluezRefreshScheduled, agentRegistered, bluetooth, bluetoothList,
                         bluetoothInterest, discovery, expiryTimer, bluetoothCalls, busName,
                         everPaired, bluetoothScans, bluetoothEvents>>
      BY <1>1 DEF AgentCancels, HelperUntouched, search
    <2>2. bluez' \in Daemons /\ bluez'.pairing = bluez.pairing
      BY <1>0, <2>1 DEF Daemons
    <2>3. /\ bluetoothOperation'.kind = "idle" /\ bluetoothOperation'.result = "cancelled"
          /\ ReplySound
      BY <2>1, EndIs DEF Outcomes
    <2>4. OperationFollows /\ RealStep
      BY <2>3, QuietEnd DEF Quiet
    <2> QED  BY <1>0, <2>1, <2>2, <2>3, <2>4, AgentMoves
  <1>2. CASE AgentReleased
    <2>1. /\ FinishBluetoothOperation("backend", "none") /\ bluez' = bluez
          /\ agentRegistered' = FALSE /\ bluetoothEvents' = bluetoothEvents + 1
          /\ UNCHANGED <<bluezOwner, bluezRefreshScheduled, bluetooth, bluetoothList,
                         bluetoothInterest, discovery, expiryTimer, bluetoothCalls, busName,
                         everPaired, bluetoothScans>>
      BY <1>2 DEF AgentReleased, BluetoothEvent, search, bluezOutside
    <2>3. /\ bluetoothOperation'.kind = "idle" /\ bluetoothOperation'.result = "none"
          /\ ReplySound
      BY <2>1, EndIs DEF Outcomes
    <2>4. OperationFollows /\ RealStep
      BY <2>3, QuietEnd DEF Quiet
    <2> QED  BY <1>0, <2>1, <2>3, <2>4, AgentMoves
  <1> QED  BY <1>1, <1>2
-----------------------------------------------------------------------------
(* Bluetooth: the replies.                                                  *)

LEMMA ReplyMoves ==
    ASSUME BluetoothInv, PowerIs(bluetooth'),
           ReplySound,
           OperationFollows, RealStep, bluezRefreshScheduled' \in BOOLEAN,
           bluezOwner # 0 \/ UNCHANGED <<bluetooth, bluezRefreshScheduled, bluetoothOperation>>,
           UNCHANGED <<bluezOwner, agentRegistered, bluetoothList, discovery, expiryTimer,
                       bluetoothInterest, bluezOutside, bluetoothScans, bluetoothEvents>>,
           \A c \in bluetoothCalls' \ bluetoothCalls : c \in BluetoothCallKinds /\ CallSound(c)'
    PROVE  BluetoothInv' /\ RealStep
  <1>0. /\ bluez \in Daemons /\ bluetoothScans \in Nat /\ adapters \in Partial(Adapters, BOOLEAN)
        /\ {agentRegistered, expiryTimer, bluetoothInterest} \subseteq BOOLEAN
        /\ Dormant /\ DevicesSound
    BY HelperIs, BluetoothSplit
  <1>1. UNCHANGED <<adapters, devices, nextDeviceToken, deviceNumbering, deviceNamed, bluez, busName, everPaired>>
    BY DEF bluetoothList, deviceNames, bluezOutside
  <1>2. DevicesSound'
    BY <1>0, <1>1, SameDevices
  <1>3. Dormant'
    BY <1>0 DEF Dormant
  <1> QED  BY <1>0, <1>1, <1>2, <1>3, HelperMoves DEF OperationSound, ReplySound

LEMMA PowerReplyIs ==
    ASSUME BluetoothInv, NEW failed \in BOOLEAN, PowerReply(failed)
    PROVE  /\ PowerIs(bluetooth') /\ bluezRefreshScheduled' \in BOOLEAN
           /\ UNCHANGED <<bluetoothOperation, pendingAgentReply>>
  <1>0. PowerIs(bluetooth) /\ bluetooth \in Powers /\ bluezRefreshScheduled \in BOOLEAN
    BY HelperIs
  <1> DEFINE failing == bluetooth.failed \/ failed
  <1>1. failing \in BOOLEAN
    OBVIOUS
  <1>2. \/ bluetooth' = FailBluetoothRequest("backend")
        \/ bluetooth' = [bluetooth EXCEPT !.calls = bluetooth.calls - 1, !.failed = failing]
    BY DEF PowerReply
  <1>3. /\ UNCHANGED <<bluetoothOperation, pendingAgentReply>>
        /\ bluezRefreshScheduled' = (bluezRefreshScheduled \/ (bluetooth.calls = 1 /\ ~failing))
    BY DEF PowerReply
  <1> HIDE DEF failing
  <1>4. PowerIs(bluetooth')
    <2>1. CASE bluetooth' = FailBluetoothRequest("backend")
      BY <1>0, <2>1, FailedPower DEF PowerFailures
    <2>2. CASE bluetooth' = [bluetooth EXCEPT !.calls = bluetooth.calls - 1, !.failed = failing]
      <3>1. PICK calls \in Int : calls = bluetooth.calls - 1
        BY <1>0 DEF Powers
      <3> QED  BY <1>0, <1>1, <2>2, <3>1 DEF PowerIs, Powers
    <2> QED  BY <1>2, <2>1, <2>2
  <1>5. bluezRefreshScheduled' \in BOOLEAN
    BY <1>0, <1>3
  <1> QED  BY <1>3, <1>4, <1>5

LEMMA AwaitedIs ==
    ASSUME BluetoothInv, NEW c \in bluetoothCalls, IsAwaited(c)
    PROVE  bluezOwner # 0 /\ c.owner = bluezOwner
  <1>1. CallSound(c) /\ bluetoothEvents \in Nat
    BY BluetoothSplit DEF CallsSound, OwnersSound
  <1> QED  BY <1>1 DEF IsAwaited, CallSound

(* A reply that is listened to is about the device that the operation named,*)
(* and from the moment Pair has been answered that device is paired.        *)
LEMMA AnswerIsForTarget ==
    ASSUME BluetoothInv, NEW c \in bluetoothCalls, IsAwaited(c),
           c.kind = "pair-connect" \/ (c.kind = "pairing" /\ c.phase = "done")
    PROVE  /\ c.device \in Devices /\ c.device \in everPaired
           /\ <<deviceNumbering, bluetoothOperation.target, c.device>> \in deviceNamed
           /\ bluetoothOperation.kind = "pairing" /\ c.generation = bluetoothOperation.generation
  <1>1. CallSound(c) /\ everPaired \subseteq Devices
    BY BluetoothSplit DEF CallsSound, BluezSound
  <1>2. /\ c.owner = bluezOwner /\ bluetoothOperation.kind = "pairing"
        /\ c.generation = bluetoothOperation.generation
    BY DEF IsAwaited
  <1>3. c.kind \in OnDevice \cup {"pair-connect"} /\ Awaiting(c) = "pairing"
    BY DEF Awaiting, OnDevice
  <1> QED  BY <1>1, <1>2, <1>3 DEF CallSound

LEMMA PairedIsReal ==
    ASSUME BluetoothInv, NEW d \in Devices, d \in everPaired,
           <<deviceNumbering, bluetoothOperation.target, d>> \in deviceNamed,
           \/ bluetoothOperation'.result = "paired"
           \/ /\ bluetoothOperation'.result = "paired-connected"
              /\ \E c \in BluetoothAnswered : c.kind = "pair-connect" /\ c.phase = "done"
    PROVE  RealStep
  BY DEF RealStep, OfTarget

LEMMA BluetoothCallFailsKeeps ==
    ASSUME BluetoothInv, NEW c \in bluetoothCalls, BluetoothCallFails(c)
    PROVE  BluetoothInv' /\ RealStep
  <1>0. /\ PowerIs(bluetooth) /\ bluezRefreshScheduled \in BOOLEAN
        /\ OperationSound
    BY HelperIs
  <1>1. /\ bluetoothCalls' = bluetoothCalls \ {c}
        /\ UNCHANGED <<bluezOwner, agentRegistered, bluetoothList, discovery, expiryTimer,
                       bluetoothInterest, bluezOutside, bluetoothScans, bluetoothEvents>>
    BY DEF BluetoothCallFails, search
  <1>2. UNCHANGED <<deviceNumbering, deviceNamed>>
    BY <1>1 DEF bluetoothList, deviceNames
  <1>3. CASE IsAwaited(c) /\ c.kind = "power"
    <2>1. PowerReply(TRUE)
      BY <1>3, Zenon DEF BluetoothCallFails
    <2>2. /\ PowerIs(bluetooth') /\ bluezRefreshScheduled' \in BOOLEAN
          /\ UNCHANGED <<bluetoothOperation, pendingAgentReply>>
      BY <2>1, PowerReplyIs
    <2>3. OperationFollows /\ RealStep
      BY <1>2, <2>2, SameOperation
    <2>4. bluezOwner # 0
      BY <1>3, AwaitedIs
    <2> QED  BY <1>0, <1>1, <2>2, <2>3, <2>4, ReplyMoves DEF OperationSound, ReplySound
  <1>4. CASE IsAwaited(c) /\ c.kind # "power"
    <2>1. /\ IF c.kind = "pair-connect" THEN FinishBluetoothOperation("connection-failed", "paired")
             ELSE FinishBluetoothOperation("rejected", "none")
          /\ bluezRefreshScheduled' = (bluezRefreshScheduled \/ c.kind \in {"pairing", "pair-connect"})
          /\ UNCHANGED bluetooth
      BY <1>4, Zenon DEF BluetoothCallFails
    <2>2. bluezOwner # 0
      BY <1>4, AwaitedIs
    <2>3. /\ ReplySound
          /\ OperationFollows /\ RealStep
      <3>1. CASE c.kind = "pair-connect"
        <4>1. FinishBluetoothOperation("connection-failed", "paired")
          BY <2>1, <3>1
        <4>2. /\ bluetoothOperation'.kind = "idle" /\ bluetoothOperation'.result = "paired"
              /\ ReplySound
              /\ OperationFollows
          BY <4>1, EndIs DEF Outcomes
        <4>3. /\ c.device \in Devices /\ c.device \in everPaired
              /\ <<deviceNumbering, bluetoothOperation.target, c.device>> \in deviceNamed
          BY <1>4, <3>1, AnswerIsForTarget
        <4>4. RealStep
          BY <4>2, <4>3, PairedIsReal
        <4> QED  BY <4>2, <4>4
      <3>2. CASE c.kind # "pair-connect"
        <4>1. FinishBluetoothOperation("rejected", "none")
          BY <2>1, <3>2
        <4>2. /\ bluetoothOperation'.kind = "idle" /\ bluetoothOperation'.result = "none"
              /\ ReplySound
              /\ OperationFollows
          BY <4>1, EndIs DEF Outcomes
        <4>3. RealStep
          BY <4>2, QuietEnd DEF Quiet
        <4> QED  BY <4>2, <4>3
      <3> QED  BY <3>1, <3>2
    <2>4. bluezRefreshScheduled' \in BOOLEAN
      BY <1>0, <2>1
    <2>5. PowerIs(bluetooth')
      BY <1>0, <2>1
    <2> QED  BY <1>1, <2>2, <2>3, <2>4, <2>5, ReplyMoves
  <1>5. CASE ~IsAwaited(c)
    <2>1. UNCHANGED <<bluetooth, bluezRefreshScheduled, bluetoothOperation, pendingAgentReply>>
      BY <1>5, Zenon DEF BluetoothCallFails
    <2>2. OperationFollows /\ RealStep
      BY <1>2, <2>1, SameOperation
    <2> QED  BY <1>0, <1>1, <2>1, <2>2, ReplyMoves DEF OperationSound, ReplySound
  <1> QED  BY <1>3, <1>4, <1>5

(* The pairing is done: the device is trusted, and then connected.          *)
LEMMA ConnectKeeps ==
    ASSUME BluetoothInv, NEW c \in bluetoothCalls, IsAwaited(c), c.kind = "pairing", c.phase = "done",
           ConnectAfterPairing(c), UNCHANGED bluetooth,
           UNCHANGED <<bluezOwner, agentRegistered, bluetoothList, discovery, expiryTimer,
                       bluetoothInterest, bluezOutside, bluetoothScans, bluetoothEvents>>
    PROVE  BluetoothInv' /\ RealStep
  <1>0. /\ PowerIs(bluetooth) /\ PowerIs(bluetooth') /\ bluezRefreshScheduled \in BOOLEAN
        /\ OperationSound
        /\ bluetoothOperation \in BluetoothOperations
    BY HelperIs
  <1>1. bluezOwner # 0
    BY AwaitedIs
  <1>2. /\ c.device \in Devices /\ c.device \in everPaired
        /\ <<deviceNumbering, bluetoothOperation.target, c.device>> \in deviceNamed
        /\ bluetoothOperation.kind = "pairing" /\ c.generation = bluetoothOperation.generation
    BY AnswerIsForTarget
  <1>3. CASE /\ FinishBluetoothOperation("trust-failed", "paired") /\ ScheduleBluez
             /\ bluetoothCalls' = bluetoothCalls \ {c}
    <2>1. /\ bluetoothOperation'.kind = "idle" /\ bluetoothOperation'.result = "paired"
          /\ ReplySound
          /\ OperationFollows
      BY <1>3, EndIs DEF Outcomes
    <2>2. RealStep
      BY <1>2, <2>1, PairedIsReal
    <2>3. bluezRefreshScheduled' \in BOOLEAN
      BY <1>0, <1>3 DEF ScheduleBluez
    <2> QED  BY <1>0, <1>1, <1>3, <2>1, <2>2, <2>3, ReplyMoves
  <1>4. CASE /\ bluetoothOperation' = [bluetoothOperation EXCEPT !.prompt = "none"]
             /\ ClearPairingReply /\ UNCHANGED bluezRefreshScheduled
             /\ bluetoothCalls' = (bluetoothCalls \ {c}) \cup
                   {Call("pair-connect", c.generation, c.device, TRUE)}
    <2>1. /\ bluetoothOperation' \in BluetoothOperations /\ bluetoothOperation'.kind = "pairing"
          /\ bluetoothOperation'.target = bluetoothOperation.target
          /\ bluetoothOperation'.generation = bluetoothOperation.generation
      BY <1>0, <1>2, <1>4, PromptIs
    <2>2. ReplySound
      BY <1>0, <1>2, <1>4, <2>1 DEF Searching, OperationSound, ReplySound, ClearPairingReply
    <2>3. OperationFollows /\ RealStep
      BY <1>2, <2>1 DEF OperationFollows, RealStep, BluetoothEnds, bluetoothList, deviceNames
    <2>4. \A e \in bluetoothCalls' \ bluetoothCalls : e \in BluetoothCallKinds /\ CallSound(e)'
      <3> SUFFICES ASSUME NEW e, e = [kind |-> "pair-connect", generation |-> c.generation,
                                      device |-> c.device, on |-> TRUE, owner |-> bluezOwner,
                                      phase |-> "sent"]
                   PROVE  e \in BluetoothCallKinds /\ CallSound(e)'
        BY <1>4 DEF Call
      <3>1. CallSound(c) /\ c \in BluetoothCallKinds
        BY BluetoothSplit DEF CallsSound
      <3>2. c.generation \in Nat /\ c.generation <= bluetoothEvents
        BY <3>1 DEF CallSound, BluetoothCallKinds, DeviceCalls, BluetoothCallsOf
      <3>3. /\ e \in BluetoothCallKinds /\ e.kind = "pair-connect" /\ e.generation = c.generation
            /\ e.device = c.device /\ e.owner = bluezOwner /\ e.phase = "sent"
        BY <1>2, <3>2, CallIs
      <3>4. /\ <<deviceNumbering', bluetoothOperation'.target, e.device>> \in deviceNamed'
            /\ e.device \in everPaired'
            /\ UNCHANGED busName
        BY <1>2, <2>1, <3>3 DEF bluetoothList, deviceNames, bluezOutside
      <3> QED  BY <1>1, <3>2, <3>3, <3>4, SentCall
    <2>5. bluezRefreshScheduled' \in BOOLEAN
      BY <1>0, <1>4
    <2> QED  BY <1>0, <1>1, <2>2, <2>3, <2>4, <2>5, ReplyMoves
  <1> QED  BY <1>3, <1>4 DEF ConnectAfterPairing

LEMMA BluetoothCallSucceedsKeeps ==
    ASSUME BluetoothInv, NEW c \in bluetoothCalls, BluetoothCallSucceeds(c)
    PROVE  BluetoothInv' /\ RealStep
  <1>0. /\ PowerIs(bluetooth) /\ bluezRefreshScheduled \in BOOLEAN
        /\ OperationSound
    BY HelperIs
  <1>1. /\ c.phase = "done"
        /\ UNCHANGED <<bluezOwner, agentRegistered, bluetoothList, discovery, expiryTimer,
                       bluetoothInterest, bluezOutside, bluetoothScans, bluetoothEvents>>
    BY DEF BluetoothCallSucceeds, search
  <1>2. UNCHANGED <<deviceNumbering, deviceNamed>>
    BY <1>1 DEF bluetoothList, deviceNames
  <1>3. CASE IsAwaited(c) /\ c.kind = "pairing"
    <2>1. ConnectAfterPairing(c) /\ UNCHANGED bluetooth
      BY <1>3, Zenon DEF BluetoothCallSucceeds
    <2> QED  BY <1>1, <1>3, <2>1, ConnectKeeps
  <1>4. CASE IsAwaited(c) /\ c.kind = "power"
    <2>1. PowerReply(FALSE) /\ bluetoothCalls' = bluetoothCalls \ {c}
      BY <1>4, Zenon DEF BluetoothCallSucceeds
    <2>2. /\ PowerIs(bluetooth') /\ bluezRefreshScheduled' \in BOOLEAN
          /\ UNCHANGED <<bluetoothOperation, pendingAgentReply>>
      BY <2>1, PowerReplyIs
    <2>3. OperationFollows /\ RealStep
      BY <1>2, <2>2, SameOperation
    <2>4. bluezOwner # 0
      BY <1>4, AwaitedIs
    <2> QED  BY <1>0, <1>1, <2>1, <2>2, <2>3, <2>4, ReplyMoves DEF OperationSound, ReplySound
  <1>5. CASE IsAwaited(c) /\ c.kind \notin {"pairing", "power"}
    <2>1. /\ IF c.kind = "pair-connect" THEN FinishBluetoothOperation("none", "paired-connected")
             ELSE UNCHANGED <<bluetoothOperation, pendingAgentReply>>
          /\ ScheduleBluez
          /\ bluetoothCalls' = bluetoothCalls \ {c}
          /\ UNCHANGED bluetooth
      BY <1>5, Zenon DEF BluetoothCallSucceeds
    <2>2. bluezOwner # 0
      BY <1>5, AwaitedIs
    <2>3. /\ ReplySound
          /\ OperationFollows /\ RealStep
      <3>1. CASE c.kind = "pair-connect"
        <4>1. FinishBluetoothOperation("none", "paired-connected")
          BY <2>1, <3>1
        <4>2. /\ bluetoothOperation'.kind = "idle" /\ bluetoothOperation'.result = "paired-connected"
              /\ ReplySound
              /\ OperationFollows
          BY <4>1, EndIs DEF Outcomes
        <4>3. /\ c.device \in Devices /\ c.device \in everPaired
              /\ <<deviceNumbering, bluetoothOperation.target, c.device>> \in deviceNamed
          BY <1>5, <3>1, AnswerIsForTarget
        <4>4. c \in BluetoothAnswered
          BY <2>1 DEF BluetoothAnswered
        <4>5. RealStep
          BY <1>1, <3>1, <4>2, <4>3, <4>4, PairedIsReal
        <4> QED  BY <4>2, <4>5
      <3>2. CASE c.kind # "pair-connect"
        <4>1. UNCHANGED <<bluetoothOperation, pendingAgentReply>>
          BY <2>1, <3>2
        <4> QED  BY <1>0, <1>2, <4>1, SameOperation DEF OperationSound, ReplySound
      <3> QED  BY <3>1, <3>2
    <2>4. bluezRefreshScheduled' \in BOOLEAN
      BY <1>0, <2>1 DEF ScheduleBluez
    <2>5. PowerIs(bluetooth')
      BY <1>0, <2>1
    <2> QED  BY <1>1, <2>1, <2>2, <2>3, <2>4, <2>5, ReplyMoves
  <1>6. CASE ~IsAwaited(c)
    <2>1. /\ UNCHANGED <<bluetooth, bluezRefreshScheduled, bluetoothOperation, pendingAgentReply>>
          /\ bluetoothCalls' = bluetoothCalls \ {c}
      BY <1>6, Zenon DEF BluetoothCallSucceeds
    <2>2. OperationFollows /\ RealStep
      BY <1>2, <2>1, SameOperation
    <2> QED  BY <1>0, <1>1, <2>1, <2>2, ReplyMoves DEF OperationSound, ReplySound
  <1> QED  BY <1>3, <1>4, <1>5, <1>6
-----------------------------------------------------------------------------
(* Bluetooth: BlueZ.                                                        *)

LEMMA HelperRests ==
    ASSUME BluetoothInv, NothingHandled, bluez' \in Daemons, everPaired' \subseteq Devices,
           OwnersSound', CallsSound'
    PROVE  BluetoothInv' /\ RealStep
  <1>0. /\ PowerSound /\ SearchSound /\ TargetNamed /\ DevicesSound /\ BluezSound /\ Dormant
        /\ FlagsSound
    BY BluetoothSplit
  <1>1. UNCHANGED <<bluezOwner, bluezRefreshScheduled, agentRegistered, bluetooth, adapters, devices,
                    nextDeviceToken, deviceNumbering, deviceNamed, discovery, expiryTimer, bluetoothOperation,
                    pendingAgentReply, bluetoothInterest>>
    BY DEF NothingHandled, bluetoothList, deviceNames, bluetoothSession, search
  <1>2. PowerSound' /\ BluezSound' /\ Dormant' /\ FlagsSound'
    BY <1>0, <1>1 DEF PowerSound, BluezSound, Dormant, FlagsSound
  <1>3. SearchSound' /\ TargetNamed'
    BY <1>0, <1>1 DEF SearchSound, TargetNamed, DiscoveryNeedsPage, PromptIsPairing
  <1>4. DevicesSound'
    BY <1>0, <1>1, SameDevices
  <1>5. RealStep
    BY <1>1, SameOperation
  <1> QED  BY <1>2, <1>3, <1>4, <1>5 DEF BluetoothInv

LEMMA CallRests ==
    ASSUME BluetoothInv, NothingHandled, UNCHANGED <<busName, bluetoothEvents>>,
           everPaired \subseteq everPaired', NEW c \in bluetoothCalls,
           c.phase = "running" /\ c.owner = busName => bluez'.pairing = c.device
    PROVE  c \in BluetoothCallKinds /\ CallSound(c)'
  <1>1. c \in BluetoothCallKinds /\ CallSound(c)
    BY BluetoothSplit DEF CallsSound
  <1>2. UNCHANGED <<bluezOwner, bluetoothOperation, deviceNumbering, deviceNamed>>
    BY DEF NothingHandled, bluetoothList, deviceNames, bluetoothSession, search
  <1> QED  BY <1>1, <1>2 DEF CallSound

LEMMA CallPhased ==
    ASSUME BluetoothInv, NothingHandled, UNCHANGED <<busName, bluetoothEvents>>,
           everPaired \subseteq everPaired', NEW c \in bluetoothCalls,
           NEW phase \in {"running", "done", "failed"}, NEW d, d = [c EXCEPT !.phase = phase],
           phase = "running" => c.kind = "pairing" /\ bluez'.pairing = c.device,
           c.kind = "pairing" /\ phase = "done" /\ c.owner = bluezOwner => c.device \in everPaired'
    PROVE  d \in BluetoothCallKinds /\ CallSound(d)'
  <1>1. c \in BluetoothCallKinds /\ CallSound(c)
    BY BluetoothSplit DEF CallsSound
  <1>2. UNCHANGED <<bluezOwner, bluetoothOperation, deviceNumbering, deviceNamed>>
    BY DEF NothingHandled, bluetoothList, deviceNames, bluetoothSession, search
  <1>3. d \in BluetoothCallKinds
    BY <1>1 DEF BluetoothCallKinds, DeviceCalls, BluetoothCallsOf, Phases
  <1>4. /\ d.kind = c.kind /\ d.generation = c.generation /\ d.device = c.device
        /\ d.owner = c.owner /\ d.phase = phase
    BY <1>1 DEF BluetoothCallKinds, DeviceCalls, BluetoothCallsOf
  <1>5. CallSound(d)'
    <2>1. Awaiting(d)' = Awaiting(c)
      BY <1>4 DEF Awaiting
    <2> QED  BY <1>1, <1>2, <1>4, <2>1 DEF CallSound
  <1> QED  BY <1>3, <1>5

(* What BlueZ knows of its adapters and devices changes.                    *)
LEMMA DaemonDevices ==
    ASSUME NEW z \in Daemons, NEW list \in Partial(Devices, Pairs), NEW b,
           b = [z EXCEPT !.devices = list]
    PROVE  b \in Daemons /\ b.pairing = z.pairing
  BY DEF Daemons

LEMMA DaemonAdapters ==
    ASSUME NEW z \in Daemons, NEW list \in Partial(Adapters, BOOLEAN), NEW b,
           b = [z EXCEPT !.powered = list]
    PROVE  b \in Daemons /\ b.pairing = z.pairing
  BY DEF Daemons

LEMMA DaemonParts ==
    ASSUME NEW z \in Daemons
    PROVE  /\ z.devices \in Partial(Devices, Pairs) /\ z.powered \in Partial(Adapters, BOOLEAN)
           /\ DOMAIN z.devices \subseteq Devices /\ DOMAIN z.powered \subseteq Adapters
           /\ \A d \in DOMAIN z.devices : z.devices[d] \in Pairs
           /\ \A a \in DOMAIN z.powered : z.powered[a] \in BOOLEAN
  <1>1. z.devices \in Partial(Devices, Pairs) /\ z.powered \in Partial(Adapters, BOOLEAN)
    BY DEF Daemons
  <1> QED  BY <1>1, PartialParts

LEMMA DeviceConnects ==
    ASSUME NEW z \in Daemons, NEW d \in DOMAIN z.devices, NEW on \in BOOLEAN, NEW b,
           \/ b = [z EXCEPT !.devices[d].connected = on]
           \/ b = [z EXCEPT !.devices[d].paired = on]
    PROVE  b \in Daemons /\ b.pairing = z.pairing
  <1>1. z.devices \in Partial(Devices, Pairs) /\ z.devices[d] \in Pairs
    BY DaemonParts
  <1>2. PICK old \in Pairs : old = z.devices[d]
    BY <1>1
  <1>3. PICK new \in Pairs : b = [z EXCEPT !.devices = [z.devices EXCEPT ![d] = new]]
    <2>1. [old EXCEPT !.connected = on] \in Pairs /\ [old EXCEPT !.paired = on] \in Pairs
      BY DEF Pairs
    <2>2. \/ b = [z EXCEPT !.devices = [z.devices EXCEPT ![d] = [old EXCEPT !.connected = on]]]
          \/ b = [z EXCEPT !.devices = [z.devices EXCEPT ![d] = [old EXCEPT !.paired = on]]]
      BY <1>2
    <2> QED  BY <2>1, <2>2
  <1>4. PICK list \in Partial(Devices, Pairs) : list = [z.devices EXCEPT ![d] = new]
    BY <1>1, ChangedPartial
  <1> QED  BY <1>3, <1>4, DaemonDevices

LEMMA DeviceGoes ==
    ASSUME NEW z \in Daemons, NEW d, NEW b,
           b = [z EXCEPT !.devices = Restrict(z.devices, DOMAIN z.devices \ {d})]
    PROVE  b \in Daemons /\ b.pairing = z.pairing
  <1>1. z.devices \in Partial(Devices, Pairs)
    BY DaemonParts
  <1>2. DOMAIN z.devices \ {d} \in SUBSET (DOMAIN z.devices)
    OBVIOUS
  <1>3. PICK list \in Partial(Devices, Pairs) : list = Restrict(z.devices, DOMAIN z.devices \ {d})
    BY <1>1, <1>2, RestrictedPartial
  <1> QED  BY <1>3, DaemonDevices

LEMMA AdapterChanges ==
    ASSUME NEW z \in Daemons, NEW a \in DOMAIN z.powered, NEW on \in BOOLEAN, NEW b,
           b = [z EXCEPT !.powered[a] = on]
    PROVE  b \in Daemons /\ b.pairing = z.pairing
  <1>1. z.powered \in Partial(Adapters, BOOLEAN)
    BY DaemonParts
  <1>2. PICK list \in Partial(Adapters, BOOLEAN) : list = [z.powered EXCEPT ![a] = on]
    BY <1>1, ChangedPartial
  <1> QED  BY <1>2, DaemonAdapters

LEMMA AdapterGoes ==
    ASSUME NEW z \in Daemons, NEW a, NEW b,
           b = [z EXCEPT !.powered = Restrict(z.powered, DOMAIN z.powered \ {a})]
    PROVE  b \in Daemons /\ b.pairing = z.pairing
  <1>1. z.powered \in Partial(Adapters, BOOLEAN)
    BY DaemonParts
  <1>2. DOMAIN z.powered \ {a} \in SUBSET (DOMAIN z.powered)
    OBVIOUS
  <1>3. PICK list \in Partial(Adapters, BOOLEAN) : list = Restrict(z.powered, DOMAIN z.powered \ {a})
    BY <1>1, <1>2, RestrictedPartial
  <1> QED  BY <1>3, DaemonAdapters

LEMMA PairingOverIs ==
    ASSUME bluez \in Daemons, NEW ok \in BOOLEAN, NEW b, b = PairingOver(ok)
    PROVE  b \in Daemons /\ b.pairing = NoDevice /\ b.devices = bluez.devices
  <1> DEFINE cancels == bluez.cancels \/ (bluez.asked /\ ~ok)
  <1>1. cancels \in BOOLEAN
    OBVIOUS
  <1>2. b = [bluez EXCEPT !.pairing = NoDevice, !.asked = FALSE, !.cancels = cancels]
    BY DEF PairingOver
  <1> HIDE DEF cancels
  <1> QED  BY <1>1, <1>2 DEF Daemons

LEMMA SameOwners ==
    ASSUME OwnersSound, bluez'.pairing # NoDevice => busName = bluezOwner,
           UNCHANGED <<bluezOwner, busName, bluetoothScans>>,
           bluetoothEvents' \in {bluetoothEvents, bluetoothEvents + 1}
    PROVE  OwnersSound'
  <1>1. CASE bluetoothEvents' = bluetoothEvents
    BY <1>1 DEF OwnersSound
  <1>2. CASE bluetoothEvents' = bluetoothEvents + 1
    BY <1>2 DEF OwnersSound
  <1> QED  BY <1>1, <1>2

(* BlueZ changes by itself, and pairs what it paired.                       *)
LEMMA BluezMoves ==
    ASSUME BluetoothInv, NothingHandled, bluez' \in Daemons, bluez'.pairing = bluez.pairing,
           UNCHANGED <<bluetoothCalls, busName, everPaired, bluetoothScans>>,
           bluetoothEvents' \in {bluetoothEvents, bluetoothEvents + 1}
    PROVE  BluetoothInv' /\ RealStep
  <1>0. OwnersSound /\ everPaired \subseteq Devices
    BY BluetoothSplit DEF BluezSound
  <1>1. UNCHANGED <<bluezOwner, bluetoothOperation, deviceNumbering, deviceNamed>>
    BY DEF NothingHandled, bluetoothList, deviceNames, bluetoothSession, search
  <1>2. OwnersSound'
    BY <1>0, <1>1, SameOwners DEF OwnersSound
  <1>3. OperationFollows
    BY <1>1, SameOperation
  <1>4. CallsSound'
    BY <1>1, <1>3, CallKept DEF CallsSound
  <1> QED  BY <1>0, <1>2, <1>4, HelperRests

LEMMA BluezChangesKeep ==
    ASSUME BluetoothBounds, BluetoothInv,
           BluezChanges \/ \E d \in Devices : BluezFinds(d)
    PROVE  BluetoothInv' /\ RealStep
  <1>0. bluez \in Daemons /\ bluetoothEvents \in Nat
    BY HelperIs
  <1>1. CASE BluezChanges
    <2>1. /\ NothingHandled /\ UNCHANGED <<bluetoothCalls, busName, everPaired, bluetoothScans>>
          /\ bluetoothEvents' = bluetoothEvents + 1
      BY <1>1 DEF BluezChanges, BluetoothEvent
    <2>2. ASSUME NEW d \in DOMAIN bluez.devices,
                 \/ bluez' = [bluez EXCEPT !.devices[d].connected = ~@]
                 \/ bluez' = [bluez EXCEPT !.devices = Restrict(@, DOMAIN @ \ {d})]
          PROVE  bluez' \in Daemons /\ bluez'.pairing = bluez.pairing
      <3>1. PICK on \in BOOLEAN : on = ~bluez.devices[d].connected
        OBVIOUS
      <3>2. \/ bluez' = [bluez EXCEPT !.devices[d].connected = on]
            \/ bluez' = [bluez EXCEPT !.devices = Restrict(bluez.devices, DOMAIN bluez.devices \ {d})]
        BY <2>2, <3>1
      <3>3. CASE bluez' = [bluez EXCEPT !.devices[d].connected = on]
        BY <1>0, <3>3, DeviceConnects
      <3>4. CASE bluez' = [bluez EXCEPT !.devices =
                             Restrict(bluez.devices, DOMAIN bluez.devices \ {d})]
        BY <1>0, <3>4, DeviceGoes
      <3> QED  BY <3>2, <3>3, <3>4
    <2>3. ASSUME NEW a \in DOMAIN bluez.powered,
                 \/ bluez' = [bluez EXCEPT !.powered[a] = ~@]
                 \/ bluez' = [bluez EXCEPT !.powered = Restrict(@, DOMAIN @ \ {a})]
          PROVE  bluez' \in Daemons /\ bluez'.pairing = bluez.pairing
      <3>1. PICK on \in BOOLEAN : on = ~bluez.powered[a]
        OBVIOUS
      <3>2. \/ bluez' = [bluez EXCEPT !.powered[a] = on]
            \/ bluez' = [bluez EXCEPT !.powered = Restrict(bluez.powered, DOMAIN bluez.powered \ {a})]
        BY <2>3, <3>1
      <3>3. CASE bluez' = [bluez EXCEPT !.powered[a] = on]
        BY <1>0, <3>3, AdapterChanges
      <3>4. CASE bluez' = [bluez EXCEPT !.powered =
                             Restrict(bluez.powered, DOMAIN bluez.powered \ {a})]
        BY <1>0, <3>4, AdapterGoes
      <3> QED  BY <3>2, <3>3, <3>4
    <2>4. bluez' \in Daemons /\ bluez'.pairing = bluez.pairing
      BY <1>1, <2>2, <2>3 DEF BluezChanges
    <2> QED  BY <2>1, <2>4, BluezMoves
  <1>2. CASE \E d \in Devices : BluezFinds(d)
    <2>1. PICK d \in Devices : BluezFinds(d)
      BY <1>2
    <2>2. /\ NothingHandled
          /\ UNCHANGED <<bluetoothCalls, busName, everPaired, bluetoothScans, bluetoothEvents>>
          /\ bluez' = [bluez EXCEPT !.devices = Put(bluez.devices, d, New)]
      BY <2>1 DEF BluezFinds
    <2>3. New \in Pairs
      BY DEF New, Pairs
    <2>4. bluez.devices \in Partial(Devices, Pairs)
      BY <1>0, DaemonParts
    <2>5. PICK list \in Partial(Devices, Pairs) : list = Put(bluez.devices, d, New)
      BY <2>3, <2>4, AddedPartial
    <2>6. bluez' \in Daemons /\ bluez'.pairing = bluez.pairing
      BY <1>0, <2>2, <2>5, DaemonDevices
    <2> QED  BY <2>2, <2>6, BluezMoves
  <1> QED  BY <1>1, <1>2

LEMMA BusNameKeeps ==
    ASSUME BluetoothInv, BluezOwnerChanges
    PROVE  BluetoothInv' /\ RealStep
  <1>0. /\ OwnersSound /\ everPaired \subseteq Devices /\ bluez \in Daemons /\ CallsSound
        /\ bluetoothEvents \in Nat
    BY HelperIs, BluetoothSplit
  <1>1. /\ NothingHandled /\ UNCHANGED <<bluetoothCalls, everPaired, bluetoothScans>>
        /\ bluetoothEvents' = bluetoothEvents + 1 /\ busName' \in {0, bluetoothEvents' + 1}
        /\ bluez' = [bluez EXCEPT !.pairing = NoDevice, !.asked = FALSE, !.cancels = FALSE]
    BY DEF BluezOwnerChanges, BluetoothEvent
  <1>2. UNCHANGED <<bluezOwner, bluetoothOperation, deviceNumbering, deviceNamed>>
    BY <1>1 DEF NothingHandled, bluetoothList, deviceNames, bluetoothSession, search
  <1>3. bluez' \in Daemons /\ bluez'.pairing = NoDevice
    BY <1>0, <1>1 DEF Daemons
  <1>4. OwnersSound'
    BY <1>0, <1>1, <1>2, <1>3 DEF OwnersSound
  <1>5. CallsSound'
    <2> SUFFICES ASSUME NEW c \in bluetoothCalls PROVE c \in BluetoothCallKinds /\ CallSound(c)'
      BY <1>1 DEF CallsSound
    <2>1. c \in BluetoothCallKinds /\ CallSound(c)
      BY <1>0 DEF CallsSound
    <2>2. c.owner \in 1..(bluetoothEvents + 1) /\ c.generation <= bluetoothEvents /\ c.generation \in Nat
      BY <2>1 DEF CallSound, BluetoothCallKinds, DeviceCalls, BluetoothCallsOf
    <2>3. c.owner # busName' /\ c.owner \in 1..(bluetoothEvents' + 1) /\ c.generation <= bluetoothEvents'
      BY <1>0, <1>1, <2>2
    <2> QED  BY <1>1, <1>2, <2>1, <2>3 DEF CallSound
  <1> QED  BY <1>0, <1>1, <1>3, <1>4, <1>5, HelperRests
(* BlueZ answers one call, and the others stay as they are.                 *)
LEMMA CallAnswered ==
    ASSUME BluetoothInv, NothingHandled, NEW c \in bluetoothCalls,
           NEW phase \in {"running", "done", "failed"}, Phased(c, phase), UNCHANGED <<busName, everPaired, bluetoothScans, bluetoothEvents>>,
           bluez' \in Daemons, bluez'.pairing # NoDevice => busName = bluezOwner,
           \A e \in bluetoothCalls : e.phase = "running" /\ e.owner = busName => bluez'.pairing = e.device,
           phase = "running" => c.kind = "pairing" /\ bluez'.pairing = c.device,
           phase = "done" => c.kind # "pairing"
    PROVE  BluetoothInv' /\ RealStep
  <1>0. OwnersSound /\ everPaired' \subseteq Devices
    BY BluetoothSplit DEF BluezSound
  <1>1. UNCHANGED bluezOwner
    BY DEF NothingHandled
  <1>2. OwnersSound'
    BY <1>0, <1>1, SameOwners
  <1>3. CallsSound'
    <2> SUFFICES ASSUME NEW e \in bluetoothCalls' PROVE e \in BluetoothCallKinds /\ CallSound(e)'
      BY DEF CallsSound
    <2>1. CASE e \in bluetoothCalls
      BY <2>1, CallRests
    <2>2. CASE e = [c EXCEPT !.phase = phase]
      BY <2>2, CallPhased
    <2> QED  BY <2>1, <2>2 DEF Phased
  <1> QED  BY <1>0, <1>2, <1>3, HelperRests

(* A pairing ends, and with it the call that runs.                          *)
LEMMA PairingEndKeeps ==
    ASSUME BluetoothInv, NothingHandled, NEW rest \in SUBSET bluetoothCalls,
           NEW phase \in {"done", "failed"},
           bluetoothCalls' = {IF e.phase = "running" THEN [e EXCEPT !.phase = phase] ELSE e : e \in rest},
           UNCHANGED <<busName, bluetoothScans, bluetoothEvents>>,
           bluez' \in Daemons, bluez'.pairing = NoDevice,
           everPaired \subseteq everPaired', everPaired' \subseteq Devices,
           phase = "done" => busName = bluezOwner /\ bluez.pairing \in everPaired'
    PROVE  BluetoothInv' /\ RealStep
  <1>0. OwnersSound /\ CallsSound
    BY BluetoothSplit
  <1>1. UNCHANGED bluezOwner
    BY DEF NothingHandled
  <1>2. OwnersSound'
    BY <1>0, <1>1, SameOwners
  <1>3. ASSUME NEW e \in rest, e.phase # "running"
        PROVE  e \in BluetoothCallKinds /\ CallSound(e)'
    BY <1>3, CallRests
  <1>4. ASSUME NEW e \in rest, e.phase = "running", NEW d, d = [e EXCEPT !.phase = phase]
        PROVE  d \in BluetoothCallKinds /\ CallSound(d)'
    <2>1. CallSound(e)
      BY <1>0 DEF CallsSound
    <2>2. phase = "done" /\ e.owner = bluezOwner => e.device \in everPaired'
      BY <1>4, <2>1 DEF CallSound
    <2> QED  BY <1>4, <2>2, CallPhased
  <1>5. CallsSound'
    <2> SUFFICES ASSUME NEW d \in bluetoothCalls' PROVE d \in BluetoothCallKinds /\ CallSound(d)'
      BY DEF CallsSound
    <2>1. PICK e \in rest : d = IF e.phase = "running" THEN [e EXCEPT !.phase = phase] ELSE e
      OBVIOUS
    <2>2. CASE e.phase = "running"
      BY <1>4, <2>1, <2>2
    <2>3. CASE e.phase # "running"
      BY <1>3, <2>1, <2>3
    <2> QED  BY <2>2, <2>3
  <1> QED  BY <1>2, <1>5, HelperRests

LEMMA BluezPairingEndsKeeps ==
    ASSUME BluetoothBounds, BluetoothInv, NEW ok \in BOOLEAN, BluezPairingEnds(ok)
    PROVE  BluetoothInv' /\ RealStep
  <1>0. OwnersSound /\ everPaired \subseteq Devices /\ bluez \in Daemons
    BY HelperIs, BluetoothSplit DEF BluezSound
  <1> DEFINE paired == ok /\ Known(bluez.pairing)
             p == bluez.pairing
  <1>1. /\ bluez.pairing # NoDevice /\ NothingHandled
        /\ UNCHANGED <<busName, bluetoothScans, bluetoothEvents>>
        /\ bluez' = IF paired THEN [PairingOver(TRUE) EXCEPT !.devices[p].paired = TRUE]
                    ELSE PairingOver(FALSE)
        /\ everPaired' = everPaired \cup (IF paired THEN {p} ELSE {})
        /\ bluetoothCalls' = {IF c.phase = "running"
                              THEN [c EXCEPT !.phase = IF paired THEN "done" ELSE "failed"]
                              ELSE c : c \in bluetoothCalls}
    BY DEF BluezPairingEnds
  <1>2. p \in Devices /\ busName = bluezOwner
    BY <1>0, <1>1 DEF OwnersSound, Daemons
  <1>3. paired => p \in DOMAIN bluez.devices
    BY DEF Known
  <1> HIDE DEF paired, p
  <1>4. CASE paired
    <2>1. PICK over : over = PairingOver(TRUE)
      OBVIOUS
    <2>2. over \in Daemons /\ over.pairing = NoDevice /\ p \in DOMAIN over.devices
      BY <1>0, <1>3, <1>4, <2>1, PairingOverIs
    <2>3. bluez' = [over EXCEPT !.devices[p].paired = TRUE]
      BY <1>1, <1>4, <2>1
    <2>4. bluez' \in Daemons /\ bluez'.pairing = NoDevice
      BY <2>2, <2>3, DeviceConnects
    <2>5. everPaired' = everPaired \cup {p}
      BY <1>1, <1>4
    <2>6. bluetoothCalls' = {IF c.phase = "running" THEN [c EXCEPT !.phase = "done"] ELSE c :
                                c \in bluetoothCalls}
      BY <1>1, <1>4
    <2>7. bluez.pairing \in everPaired' /\ everPaired' \subseteq Devices
      BY <1>0, <1>2, <2>5 DEF p
    <2> QED  BY <1>0, <1>1, <1>2, <2>4, <2>5, <2>6, <2>7, PairingEndKeeps
  <1>5. CASE ~paired
    <2>1. bluez' = PairingOver(FALSE) /\ everPaired' = everPaired
      BY <1>1, <1>5
    <2>2. bluez' \in Daemons /\ bluez'.pairing = NoDevice
      BY <1>0, <2>1, PairingOverIs
    <2>3. bluetoothCalls' = {IF c.phase = "running" THEN [c EXCEPT !.phase = "failed"] ELSE c :
                                c \in bluetoothCalls}
      BY <1>1, <1>5
    <2> QED  BY <1>0, <1>1, <2>1, <2>2, <2>3, PairingEndKeeps
  <1> QED  BY <1>4, <1>5

LEMMA BluezPerformsKeeps ==
    ASSUME BluetoothBounds, BluetoothInv, NEW c \in bluetoothCalls, BluezPerforms(c)
    PROVE  BluetoothInv' /\ RealStep
  <1>0. /\ OwnersSound /\ CallsSound /\ everPaired \subseteq Devices /\ bluez \in Daemons
        /\ c \in BluetoothCallKinds /\ CallSound(c)
    BY HelperIs, BluetoothSplit DEF BluezSound, CallsSound
  <1>1. /\ c.phase = "sent" /\ c.owner = busName /\ NothingHandled
        /\ UNCHANGED <<busName, everPaired, bluetoothScans, bluetoothEvents>>
    BY DEF BluezPerforms
  <1>2. busName = bluezOwner
    BY <1>0, <1>1 DEF CallSound
  <1>3. c.on \in BOOLEAN
    BY <1>0 DEF BluetoothCallKinds, DeviceCalls, BluetoothCallsOf
  <1>4. \A e \in bluetoothCalls :
           e.phase = "running" /\ e.owner = busName => bluez.pairing = e.device /\ bluez.pairing # NoDevice
    <2> SUFFICES ASSUME NEW e \in bluetoothCalls, e.phase = "running", e.owner = busName
                 PROVE  bluez.pairing = e.device /\ bluez.pairing # NoDevice
      OBVIOUS
    <2>1. bluez.pairing = e.device /\ e.kind = "pairing" /\ e \in BluetoothCallKinds
      BY <1>0 DEF CallsSound, CallSound
    <2>2. e.device \in Devices
      BY <2>1 DEF BluetoothCallKinds, DeviceCalls, BluetoothCallsOf
    <2> QED  BY <2>1, <2>2 DEF BluetoothBounds
  <1> DEFINE on == c.kind # "disconnecting"
             d == c.device
  <1>5. \/ /\ d \in DOMAIN bluez.powered /\ bluez' = [bluez EXCEPT !.powered[d] = c.on]
           /\ c.kind = "power" /\ Phased(c, "done")
        \/ /\ c.kind = "pairing" /\ Known(d) /\ bluez.pairing = NoDevice
           /\ bluez' = [bluez EXCEPT !.pairing = d] /\ Phased(c, "running")
        \/ Phased(c, "failed") /\ UNCHANGED bluez
        \/ /\ bluez' = PairingOver(FALSE)
           /\ bluetoothCalls' = {IF e.phase = "running" THEN [e EXCEPT !.phase = "failed"] ELSE e :
                                    e \in bluetoothCalls \ {c}}
        \/ bluetoothCalls' = bluetoothCalls \ {c} /\ UNCHANGED bluez
        \/ /\ c.kind \in {"connecting", "pair-connect", "disconnecting"} /\ Known(d)
           /\ bluez' = [bluez EXCEPT !.devices[d].connected = on] /\ Phased(c, "done")
        \/ /\ c.kind = "unpairing" /\ Phased(c, "done")
           /\ bluez' = [bluez EXCEPT !.devices = Restrict(bluez.devices, DOMAIN bluez.devices \ {d})]
    BY DEF BluezPerforms
  <1>6. on \in BOOLEAN
    OBVIOUS
  <1> HIDE DEF on, d
  <1>7. CASE /\ d \in DOMAIN bluez.powered /\ bluez' = [bluez EXCEPT !.powered[d] = c.on]
             /\ c.kind = "power" /\ Phased(c, "done")
    <2>1. bluez' \in Daemons /\ bluez'.pairing = bluez.pairing
      BY <1>0, <1>3, <1>7, AdapterChanges
    <2> QED  BY <1>1, <1>2, <1>4, <1>7, <2>1, CallAnswered
  <1>8. CASE /\ c.kind = "pairing" /\ Known(d) /\ bluez.pairing = NoDevice
             /\ bluez' = [bluez EXCEPT !.pairing = d] /\ Phased(c, "running")
    <2>1. d \in Devices
      BY <1>0, <1>8, DaemonParts DEF Known
    <2>2. bluez' \in Daemons /\ bluez'.pairing = c.device
      BY <1>0, <1>8, <2>1 DEF Daemons, d
    <2> QED  BY <1>1, <1>2, <1>4, <1>8, <2>2, CallAnswered
  <1>9. CASE Phased(c, "failed") /\ UNCHANGED bluez
    BY <1>0, <1>1, <1>2, <1>4, <1>9, CallAnswered
  <1>10. CASE /\ bluez' = PairingOver(FALSE)
              /\ bluetoothCalls' = {IF e.phase = "running" THEN [e EXCEPT !.phase = "failed"] ELSE e :
                                       e \in bluetoothCalls \ {c}}
    <2>1. bluez' \in Daemons /\ bluez'.pairing = NoDevice
      BY <1>0, <1>10, PairingOverIs
    <2>2. bluetoothCalls \ {c} \in SUBSET bluetoothCalls
      OBVIOUS
    <2> QED  BY <1>0, <1>1, <1>10, <2>1, <2>2, PairingEndKeeps
  <1>11. CASE bluetoothCalls' = bluetoothCalls \ {c} /\ UNCHANGED bluez
    <2>1. CallsSound'
      BY <1>1, <1>4, <1>11, CallRests DEF CallsSound
    <2>2. UNCHANGED bluezOwner
      BY <1>1 DEF NothingHandled
    <2>3. OwnersSound'
      BY <1>0, <1>1, <1>2, <2>2, SameOwners
    <2> QED  BY <1>0, <1>1, <1>11, <2>1, <2>3, HelperRests
  <1>12. CASE /\ c.kind \in {"connecting", "pair-connect", "disconnecting"} /\ Known(d)
              /\ bluez' = [bluez EXCEPT !.devices[d].connected = on] /\ Phased(c, "done")
    <2>1. d \in DOMAIN bluez.devices
      BY <1>12 DEF Known
    <2>2. bluez' \in Daemons /\ bluez'.pairing = bluez.pairing
      BY <1>0, <1>6, <1>12, <2>1, DeviceConnects
    <2> QED  BY <1>1, <1>2, <1>4, <1>12, <2>2, CallAnswered
  <1>13. CASE /\ c.kind = "unpairing" /\ Phased(c, "done")
              /\ bluez' = [bluez EXCEPT !.devices =
                             Restrict(bluez.devices, DOMAIN bluez.devices \ {d})]
    <2>1. bluez' \in Daemons /\ bluez'.pairing = bluez.pairing
      BY <1>0, <1>13, DeviceGoes
    <2> QED  BY <1>1, <1>2, <1>4, <1>13, <2>1, CallAnswered
  <1> QED  BY <1>5, <1>7, <1>8, <1>9, <1>10, <1>11, <1>12, <1>13

-----------------------------------------------------------------------------
(* Bluetooth: every reachable state.                                        *)

LEMMA BluetoothInitSound ==
    ASSUME BluetoothBounds, BluetoothInit
    PROVE  BluetoothInv
  <1>1. /\ busName = 1 /\ bluezOwner = 1 /\ bluezRefreshScheduled = TRUE
        /\ agentRegistered = TRUE /\ bluetooth = NoPower /\ adapters = <<>> /\ devices = <<>>
        /\ nextDeviceToken = 1 /\ discovery = NoDiscovery /\ expiryTimer = FALSE
        /\ bluetoothInterest = FALSE /\ bluetoothOperation = Resting /\ pendingAgentReply = NoDevice
        /\ bluetoothCalls = {} /\ deviceNumbering = 0 /\ deviceNamed = {} /\ everPaired = {}
        /\ bluetoothScans = 0
    BY DEF BluetoothInit
  <1>2. PICK plugged \in Prefixes(SetToSeq(Adapters)) :
           /\ bluez = [powered |-> [a \in ToSet(plugged) |-> TRUE],
                       devices |-> [d \in {CHOOSE d \in Devices : TRUE} |->
                                      [paired |-> TRUE, connected |-> FALSE]],
                       pairing |-> NoDevice, asked |-> FALSE, cancels |-> FALSE]
           /\ bluetoothEvents = Len(plugged)
    BY DEF BluetoothInit
  <1>3. Len(plugged) \in Nat /\ ToSet(plugged) \in SUBSET Adapters
    <2>1. PICK s : s = SetToSeq(Adapters)
      OBVIOUS
    <2>2. s \in Seq(Adapters) /\ \A i \in DOMAIN s : s[i] \in Adapters
      <3>1. \E f \in [1..Cardinality(Adapters) -> Adapters] : IsInjective(f)
        BY Enumerable DEF BluetoothBounds
      <3>2. s \in [1..Cardinality(Adapters) -> Adapters] /\ IsInjective(s)
        BY <2>1, <3>1 DEF SetToSeq
      <3> QED  BY <3>2, EnumeratesAll DEF BluetoothBounds
    <2>3. plugged \in Seq(Adapters)
      BY <1>2, <2>1, <2>2 DEF Prefixes
    <2> QED  BY <2>3 DEF ToSet
  <1>4. bluez \in Daemons
    <2> DEFINE on == [a \in ToSet(plugged) |-> TRUE]
               known == CHOOSE d \in Devices : TRUE
               list == [d \in {known} |-> [paired |-> TRUE, connected |-> FALSE]]
    <2>1. on \in Partial(Adapters, BOOLEAN)
      <3>1. on \in [ToSet(plugged) -> BOOLEAN]
        OBVIOUS
      <3> QED  BY <1>3, <3>1, IsPartial
    <2>2. list \in Partial(Devices, Pairs)
      <3>1. known \in Devices
        BY DEF BluetoothBounds
      <3>2. list \in [{known} -> Pairs]
        BY DEF Pairs
      <3>3. {known} \in SUBSET Devices
        BY <3>1
      <3> QED  BY <3>2, <3>3, IsPartial
    <2>3. bluez = [powered |-> on, devices |-> list, pairing |-> NoDevice, asked |-> FALSE,
                   cancels |-> FALSE]
      BY <1>2
    <2> HIDE DEF on, list
    <2> QED  BY <2>1, <2>2, <2>3 DEF Daemons
  <1>5. bluez.pairing = NoDevice
    BY <1>2
  <1>6. PowerSound
    BY <1>1 DEF PowerSound, NoPower, Powers, PowerFailures
  <1>7. SearchSound /\ TargetNamed
    BY <1>1 DEF SearchSound, TargetNamed, NoDiscovery, Discoveries, Resting, BluetoothOperations,
                Outcomes, OnDevice, DiscoveryNeedsPage, PromptIsPairing
  <1>8. DevicesSound
    BY <1>1, EmptyPartial DEF DevicesSound, DeviceTokensNameOne
  <1>9. BluezSound /\ Dormant /\ CallsSound /\ FlagsSound
    <2>1. adapters \in Partial(Adapters, BOOLEAN)
      BY <1>1, EmptyPartial
    <2>2. BluezSound
      BY <1>1, <1>4, <2>1 DEF BluezSound
    <2>3. Dormant
      BY <1>1 DEF Dormant
    <2>4. CallsSound
      BY <1>1 DEF CallsSound
    <2>5. FlagsSound
      BY <1>1 DEF FlagsSound
    <2> QED  BY <2>2, <2>3, <2>4, <2>5
  <1>10. OwnersSound
    BY <1>1, <1>2, <1>3, <1>5 DEF OwnersSound
  <1> QED  BY <1>6, <1>7, <1>8, <1>9, <1>10 DEF BluetoothInv

LEMMA BluetoothNextKeeps ==
    ASSUME BluetoothBounds, BluetoothInv, [BluetoothNext]_bluetoothVars
    PROVE  BluetoothInv' /\ RealStep
  <1>1. CASE HandleBluetoothCommand
    BY <1>1, BluetoothCommandKeeps
  <1>2. CASE OpenBluetoothPage
    BY <1>2, OpenPageKeeps
  <1>3. CASE HandleBluetoothScan
    BY <1>3, HandleScanKeeps
  <1>4. CASE OnBluezSignal \/ BluezSnapshotDropped \/ UNCHANGED bluetoothVars
    BY <1>4, QuietBluezKeeps
  <1>5. CASE OnBluezOwnerChanged
    BY <1>5, BluezOwnerKeeps
  <1>6. CASE BluezSnapshotFails
    BY <1>6, BluezFailsKeeps
  <1>7. CASE \E old \in SUBSET Devices : RefreshBluez(old) \/ ExpireBluetoothDevices(old)
    BY <1>7, BluezSnapshotKeeps, ExpireKeeps
  <1>8. CASE OnBluetoothRequestTimeout
    BY <1>8, PowerTimeoutKeeps
  <1>9. CASE DiscoveryExpires
    BY <1>9, DiscoveryExpiresKeeps
  <1>10. CASE \/ HandleAgentPrompt \/ HandleAgentDisplay
              \/ \E answer \in BOOLEAN : RespondToBluetoothPrompt(answer)
    BY <1>10, PromptsKeep
  <1>11. CASE \E answer \in BOOLEAN : BluezPairingEnds(answer)
    BY <1>11, BluezPairingEndsKeeps
  <1>12. CASE AgentCancels \/ AgentReleased
    BY <1>12, AgentEndsKeep
  <1>13. CASE \E c \in bluetoothCalls :
                 BluetoothCallFails(c) \/ BluetoothCallSucceeds(c) \/ BluezPerforms(c)
    BY <1>13, BluetoothCallFailsKeeps, BluetoothCallSucceedsKeeps, BluezPerformsKeeps
  <1>14. CASE BluezChanges \/ \E d \in Devices : BluezFinds(d)
    BY <1>14, BluezChangesKeep
  <1>15. CASE BluezOwnerChanges
    BY <1>15, BusNameKeeps
  <1> QED
    BY <1>1, <1>2, <1>3, <1>4, <1>5, <1>6, <1>7, <1>8, <1>9, <1>10, <1>11, <1>12, <1>13, <1>14, <1>15
    DEF BluetoothNext

LEMMA BluetoothReached ==
    ASSUME BluetoothBounds
    PROVE  BluetoothSpec => []BluetoothInv
  <1>1. BluetoothInit => BluetoothInv
    BY BluetoothInitSound
  <1>2. BluetoothInv /\ [BluetoothNext]_bluetoothVars => BluetoothInv'
    BY BluetoothNextKeeps
  <1> QED  BY <1>1, <1>2, PTL DEF BluetoothSpec

-----------------------------------------------------------------------------
(* Bluetooth: what BlueZ searches on, and what a reply is about.            *)

(* On what does BlueZ search for this helper?  Of what went astray, only    *)
(* that it is powered is known; of the rest, that the helper holds it for   *)
(* powered and that it belongs to the discovery.                            *)
SearchMeaning ==
    /\ searching \subseteq Powered
    /\ searching \ astray \subseteq discovery.adapters \cap {a \in DOMAIN adapters : adapters[a]}
    /\ discovery.adapters # {} => discovery.active
    /\ busName # bluezOwner => searching = {}

DeviceAnswerStep ==
    BluetoothEnds =>
        \A c \in BluetoothAnswered :
            c.kind \in {"pairing", "pair-connect", "connecting", "disconnecting", "unpairing"} =>
                OfTarget(c.device)

LEMMA SearchShrinks ==
    ASSUME SearchMeaning, UNCHANGED <<discovery, adapters>>,
           searching' \subseteq searching, searching' \subseteq Powered',
           searching' \ astray' \subseteq searching \ astray,
           UNCHANGED <<busName, bluezOwner>> \/ searching' = {}
    PROVE  SearchMeaning'
  BY DEF SearchMeaning

LEMMA SearchStays ==
    ASSUME SearchMeaning, UNCHANGED <<discovery, adapters, searching, astray, busName, bluezOwner>>,
           bluez'.powered = bluez.powered
    PROVE  SearchMeaning'
  BY DEF SearchMeaning, Powered

LEMMA SearchEnds ==
    ASSUME SearchMeaning, NEW id, NEW result, StopWhenActive(id, result),
           UNCHANGED <<adapters, bluez, busName, bluezOwner>>
    PROVE  SearchMeaning'
  <1>1. CASE discovery.active
    <2>1. discovery' = NoDiscovery /\ EndSearch
      BY <1>1 DEF StopWhenActive
    <2>2. PICK unheard \in SUBSET discovery.adapters :
             /\ searching' = searching \ (discovery.adapters \ unheard)
             /\ astray' = (astray \cup unheard) \cap searching'
      BY <2>1 DEF EndSearch, BluezSearches
    <2>3. searching' \ astray' = {} /\ searching' \subseteq searching
      BY <2>2 DEF SearchMeaning
    <2>4. NoDiscovery.adapters = {}
      BY DEF NoDiscovery
    <2>5. Powered' = Powered
      BY DEF Powered
    <2> QED  BY <2>1, <2>3, <2>4, <2>5 DEF SearchMeaning
  <1>2. CASE ~discovery.active
    BY <1>2, SearchStays DEF StopWhenActive, search
  <1> QED  BY <1>1, <1>2

LEMMA SearchBegins ==
    ASSUME SearchMeaning, NEW id, StartDiscovery(id),
           UNCHANGED <<adapters, bluez, busName, bluezOwner>>
    PROVE  SearchMeaning'
  <1> DEFINE on == {a \in DOMAIN adapters : adapters[a]}
  <1>1. Powered' = Powered
    BY DEF Powered
  <1>2. CASE DiscoveryStarts(id, on)
    <2>1. /\ on # {} /\ on \subseteq Powered /\ busName = bluezOwner
          /\ searching' = searching \cup on /\ astray' = astray \ on
          /\ discovery' = [active |-> TRUE, adapters |-> on, timer |-> TRUE]
      BY <1>2 DEF DiscoveryStarts
    <2>2. discovery'.active /\ discovery'.adapters = on
      BY <2>1
    <2>3. searching \ astray \subseteq on
      BY DEF SearchMeaning
    <2>4. searching' \ astray' \subseteq on
      BY <2>1, <2>3
    <2> QED  BY <1>1, <2>1, <2>2, <2>4 DEF SearchMeaning
  <1>3. CASE DiscoveryDoesNotStart(id, on)
    <2>1. discovery' = NoDiscovery
      BY <1>3 DEF DiscoveryDoesNotStart
    <2>2. PICK told \in SUBSET on, unheard \in SUBSET on :
             /\ unheard # {} => unheard \subseteq Powered /\ busName = bluezOwner
             /\ searching' = (searching \ told) \cup unheard
             /\ astray' = (astray \cup (unheard \cup discovery.adapters)) \cap searching'
      BY <1>3 DEF DiscoveryDoesNotStart, BluezSearches
    <2>3. searching' \subseteq Powered /\ searching' \ astray' = {}
      BY <2>2 DEF SearchMeaning
    <2>4. busName # bluezOwner => searching' = {}
      BY <2>2 DEF SearchMeaning
    <2>5. NoDiscovery.adapters = {}
      BY DEF NoDiscovery
    <2> QED  BY <1>1, <2>1, <2>3, <2>4, <2>5 DEF SearchMeaning
  <1>4. CASE UNCHANGED search
    BY <1>4, SearchStays DEF search
  <1> QED  BY <1>2, <1>3, <1>4 DEF StartDiscovery

LEMMA SearchIsCleared ==
    ASSUME SearchMeaning, NEW failure, ClearBluetoothManagerState(failure), bluez' = bluez,
           searching' = searching, searching \subseteq astray',
           busName' # bluezOwner' => searching = {}
    PROVE  SearchMeaning'
  <1>1. discovery' = NoDiscovery
    BY DEF ClearBluetoothManagerState
  <1>2. NoDiscovery.adapters = {}
    BY DEF NoDiscovery
  <1>3. Powered' = Powered
    BY DEF Powered
  <1> QED  BY <1>1, <1>2, <1>3 DEF SearchMeaning

(* Calls only leave with their replies, and only then, or for another       *)
(* reason than a call, does an operation end.                               *)
LEMMA NothingAnswered ==
    ASSUME bluetoothCalls \subseteq bluetoothCalls' \/ UNCHANGED bluetoothOperation
    PROVE  DeviceAnswerStep
  BY DEF DeviceAnswerStep, BluetoothEnds, BluetoothAnswered

LEMMA ReplyIsForTarget ==
    ASSUME BluetoothInv, NEW c \in bluetoothCalls, BluetoothCallFails(c) \/ BluetoothCallSucceeds(c)
    PROVE  DeviceAnswerStep
  <1>1. \/ UNCHANGED bluetoothOperation
        \/ IsAwaited(c) /\ c.kind # "power"
    <2>1. CASE BluetoothCallFails(c)
      BY <2>1, Zenon DEF BluetoothCallFails, PowerReply
    <2>2. CASE BluetoothCallSucceeds(c)
      BY <2>2, Zenon DEF BluetoothCallSucceeds, PowerReply
    <2> QED  BY <2>1, <2>2
  <1>2. bluetoothCalls \ {c} \subseteq bluetoothCalls'
    BY DEF BluetoothCallFails, BluetoothCallSucceeds, ConnectAfterPairing
  <1>3. CASE IsAwaited(c) /\ c.kind # "power"
    <2>1. CallSound(c)
      BY BluetoothSplit DEF CallsSound
    <2>2. c.kind \in OnDevice \cup {"pair-connect"} => OfTarget(c.device)
      BY <1>3, <2>1 DEF CallSound, IsAwaited, Awaiting, OfTarget
    <2> QED  BY <1>2, <2>2 DEF DeviceAnswerStep, BluetoothAnswered, OnDevice
  <1> QED  BY <1>1, <1>3, NothingAnswered

LEMMA CommandSearches ==
    ASSUME HandleBluetoothCommand
    PROVE  /\ UNCHANGED search \/ \E id, result : StopWhenActive(id, result)
           /\ bluetoothCalls \subseteq bluetoothCalls'
           /\ UNCHANGED <<adapters, bluez, busName, bluezOwner>>
  <1> DEFINE Sent == /\ UNCHANGED search \/ \E id, result : StopWhenActive(id, result)
                     /\ bluetoothCalls \subseteq bluetoothCalls'
  <1>1. ASSUME NEW id, NEW token, NEW kind, NEW ready, NEW able, Operate(id, token, kind, ready, able)
        PROVE  Sent
    <2>1. CASE ready /\ bluetoothInterest /\ bluetooth.enabled
      BY <1>1, <2>1 DEF Operate, ReplaceDiscovery
    <2>2. CASE ~(ready /\ bluetoothInterest /\ bluetooth.enabled)
      BY <1>1, <2>2 DEF Operate
    <2> QED  BY <2>1, <2>2
  <1>2. ASSUME NEW id, NEW on, RequestBluetooth(id, on)
        PROVE  Sent
    <2>1. CASE AnswerPower(id, on)
      BY <2>1 DEF AnswerPower, bluetoothSession
    <2>2. CASE SwitchPower(id, on)
      BY <2>2 DEF SwitchPower, CloseSearch, bluetoothSession
    <2> QED  BY <1>2, <2>1, <2>2 DEF RequestBluetooth
  <1>3. ASSUME NEW id, CloseBluetoothPage(id) \/ StopDiscovery(id, "stopped") \/ CancelBluetoothPairing(id)
        PROVE  Sent
    BY <1>3 DEF CloseBluetoothPage, CloseSearch, StopDiscovery, CancelBluetoothPairing
  <1>4. ASSUME NEW id, NEW token, RequestBluetoothPair(id, token) \/ RequestBluetoothDeviceAction(id, token)
        PROVE  Sent
    <2>1. \E kind, ready, able : Operate(id, token, kind, ready, able)
      BY <1>4 DEF RequestBluetoothPair, RequestBluetoothDeviceAction
    <2> QED  BY <1>1, <2>1
  <1>5. Sent
    BY <1>2, <1>3, <1>4 DEF HandleBluetoothCommand
  <1>6. UNCHANGED <<adapters, bluez, busName, bluezOwner>>
    BY DEF HandleBluetoothCommand, bluetoothList, bluezOutside
  <1> QED  BY <1>5, <1>6

(* The steps of the helper that leave what BlueZ searches on as it is.      *)
LEMMA HelperSearches ==
    ASSUME BluetoothInv, SearchMeaning,
           \/ OnBluezSignal \/ BluezSnapshotDropped \/ OnBluetoothRequestTimeout \/ OpenBluetoothPage
           \/ UNCHANGED bluetoothVars
           \/ \E old : ExpireBluetoothDevices(old)
           \/ HandleAgentPrompt \/ HandleAgentDisplay \/ AgentCancels \/ AgentReleased
           \/ \E answer : RespondToBluetoothPrompt(answer)
           \/ \E c \in bluetoothCalls : BluetoothCallFails(c) \/ BluetoothCallSucceeds(c)
    PROVE  SearchMeaning' /\ DeviceAnswerStep
  <1>0. bluez \in Daemons
    BY HelperIs
  <1>1. CASE \/ OnBluezSignal \/ BluezSnapshotDropped \/ OnBluetoothRequestTimeout \/ OpenBluetoothPage
             \/ UNCHANGED bluetoothVars \/ \E old : ExpireBluetoothDevices(old)
    <2>1. /\ UNCHANGED <<discovery, adapters, searching, astray, busName, bluezOwner, bluez>>
          /\ UNCHANGED bluetoothCalls
      BY <1>1 DEF OnBluezSignal, BluezSnapshotDropped, OnBluetoothRequestTimeout, OpenBluetoothPage,
                  ExpireBluetoothDevices, bluetoothVars, bluetoothList, bluetoothSession, search,
                  bluezOutside
    <2> QED  BY <2>1, SearchStays, NothingAnswered
  <1>2. CASE \/ HandleAgentPrompt \/ HandleAgentDisplay \/ AgentCancels \/ AgentReleased
             \/ \E answer : RespondToBluetoothPrompt(answer)
    <2>1. /\ UNCHANGED <<discovery, adapters, searching, astray, busName, bluezOwner>>
          /\ UNCHANGED bluetoothCalls
      BY <1>2 DEF HandleAgentPrompt, HandleAgentDisplay, AgentCancels, AgentReleased,
                  RespondToBluetoothPrompt, HelperUntouched, bluetoothList, search, bluezOutside
    <2>2. \/ bluez' = bluez
          \/ \E asked \in BOOLEAN : bluez' = [bluez EXCEPT !.asked = asked]
          \/ bluez' = [bluez EXCEPT !.cancels = FALSE]
      BY <1>2 DEF HandleAgentPrompt, HandleAgentDisplay, AgentCancels, AgentReleased,
                  RespondToBluetoothPrompt, bluezOutside
    <2>3. bluez'.powered = bluez.powered
      BY <1>0, <2>2 DEF Daemons
    <2> QED  BY <2>1, <2>3, SearchStays, NothingAnswered
  <1>3. CASE \E c \in bluetoothCalls : BluetoothCallFails(c) \/ BluetoothCallSucceeds(c)
    <2>1. UNCHANGED <<discovery, adapters, searching, astray, busName, bluezOwner, bluez>>
      BY <1>3 DEF BluetoothCallFails, BluetoothCallSucceeds, bluetoothList, search, bluezOutside
    <2> QED  BY <1>3, <2>1, SearchStays, ReplyIsForTarget
  <1> QED  BY <1>1, <1>2, <1>3

LEMMA BluezSearchesOn ==
    ASSUME BluetoothInv, SearchMeaning,
           \/ BluezChanges \/ BluezOwnerChanges
           \/ \E d : BluezFinds(d)
           \/ \E ok \in BOOLEAN : BluezPairingEnds(ok)
           \/ \E c \in bluetoothCalls : BluezPerforms(c)
    PROVE  SearchMeaning' /\ DeviceAnswerStep
  <1>0. bluez \in Daemons
    BY HelperIs
  <1>1. NothingHandled
    BY DEF BluezChanges, BluezOwnerChanges, BluezFinds, BluezPairingEnds, BluezPerforms
  <1>2. UNCHANGED <<discovery, adapters, bluezOwner, bluetoothOperation>>
    BY <1>1 DEF NothingHandled, bluetoothList
  <1>3. CASE BluezChanges \/ \E c \in bluetoothCalls : BluezPerforms(c)
    <2>1. SearchesWhilePowered /\ UNCHANGED busName
      BY <1>3 DEF BluezChanges, BluezPerforms
    <2> DEFINE now == {a \in searching : a \in Powered'}
    <2>2. searching' = now /\ astray' = (astray \cup {}) \cap now
      BY <2>1 DEF SearchesWhilePowered, BluezSearches
    <2>3. /\ searching' \subseteq searching /\ searching' \subseteq Powered'
          /\ searching' \ astray' \subseteq searching \ astray
      BY <2>2
    <2> QED  BY <1>2, <2>1, <2>3, SearchShrinks, NothingAnswered
  <1>4. CASE BluezOwnerChanges
    <2>1. searching' = {}
      BY <1>4 DEF BluezOwnerChanges, BluezSearches
    <2> QED  BY <1>2, <2>1, SearchShrinks, NothingAnswered
  <1>5. CASE \/ \E d : BluezFinds(d)
             \/ \E ok \in BOOLEAN : BluezPairingEnds(ok)
    <2>1. UNCHANGED <<searching, astray, busName>>
      BY <1>5 DEF BluezFinds, BluezPairingEnds
    <2>2. bluez'.powered = bluez.powered
      <3>1. CASE \E d : BluezFinds(d)
        BY <1>0, <3>1 DEF BluezFinds, Daemons
      <3>2. CASE \E ok \in BOOLEAN : BluezPairingEnds(ok)
        <4>1. PICK ok \in BOOLEAN : BluezPairingEnds(ok)
          BY <3>2
        <4>2. \A sure \in BOOLEAN : /\ PairingOver(sure).powered = bluez.powered
                                    /\ [PairingOver(sure) EXCEPT !.devices[bluez.pairing].paired =
                                           TRUE].powered = bluez.powered
          BY <1>0 DEF PairingOver, Daemons
        <4> QED  BY <4>1, <4>2 DEF BluezPairingEnds
      <3> QED  BY <1>5, <3>1, <3>2
    <2> QED  BY <1>2, <2>1, <2>2, SearchStays, NothingAnswered
  <1> QED  BY <1>3, <1>4, <1>5

LEMMA SearchMeans ==
    ASSUME BluetoothInv, SearchMeaning, [BluetoothNext]_bluetoothVars
    PROVE  SearchMeaning' /\ DeviceAnswerStep
  <1>1. CASE HandleBluetoothCommand
    <2>1. /\ UNCHANGED search \/ \E id, result : StopWhenActive(id, result)
          /\ bluetoothCalls \subseteq bluetoothCalls'
          /\ UNCHANGED <<adapters, bluez, busName, bluezOwner>>
      BY <1>1, CommandSearches
    <2>2. CASE UNCHANGED search
      BY <2>1, <2>2, SearchStays, NothingAnswered DEF search
    <2>3. CASE \E id, result : StopWhenActive(id, result)
      BY <2>1, <2>3, SearchEnds, NothingAnswered
    <2> QED  BY <2>1, <2>2, <2>3
  <1>2. CASE HandleBluetoothScan
    <2>1. /\ UNCHANGED <<adapters, bluez, busName, bluezOwner>>
          /\ UNCHANGED bluetoothCalls
          /\ \E id : StartDiscovery(id)
      BY <1>2 DEF HandleBluetoothScan, StartDiscovery, bluetoothList, bluezOutside
    <2> QED  BY <2>1, SearchBegins, NothingAnswered
  <1>3. CASE DiscoveryExpires
    <2>1. /\ UNCHANGED <<adapters, bluez, busName, bluezOwner>>
          /\ UNCHANGED bluetoothCalls
          /\ StopWhenActive(0, "expired")
      BY <1>3 DEF DiscoveryExpires, StopDiscovery, bluetoothList, bluezOutside
    <2> QED  BY <2>1, SearchEnds, NothingAnswered
  <1>4. CASE OnBluezOwnerChanged
    <2>1. /\ ClearBluetoothManagerState(IF busName = 0 THEN "unavailable" ELSE "none")
          /\ UNCHANGED <<searching, bluez, busName, bluetoothCalls>> /\ bluezOwner' = busName
          /\ busName # bluezOwner
      BY <1>4 DEF OnBluezOwnerChanged, bluezOutside
    <2>2. searching = {}
      BY <2>1 DEF SearchMeaning
    <2> QED  BY <2>1, <2>2, SearchIsCleared, NothingAnswered
  <1>5. CASE BluezSnapshotFails
    <2>1. /\ ClearBluetoothManagerState("backend")
          /\ UNCHANGED <<searching, bluez, busName, bluezOwner, bluetoothCalls>>
          /\ searching \subseteq astray'
      BY <1>5 DEF BluezSnapshotFails, BluezSearches, bluezOutside
    <2> QED  BY <2>1, SearchIsCleared, NothingAnswered DEF SearchMeaning
  <1>6. CASE \E old \in SUBSET Devices : RefreshBluez(old)
    <2>1. /\ UNCHANGED <<discovery, searching, astray, bluez, busName, bluezOwner, bluetoothCalls>>
          /\ adapters' = bluez.powered /\ busName = bluezOwner
      BY <1>6 DEF RefreshBluez, search, bluezOutside
    <2> QED  BY <2>1, NothingAnswered DEF SearchMeaning, Powered
  <1>7. CASE \/ OnBluezSignal \/ BluezSnapshotDropped \/ OnBluetoothRequestTimeout \/ OpenBluetoothPage
             \/ UNCHANGED bluetoothVars
             \/ \E old \in SUBSET Devices : ExpireBluetoothDevices(old)
             \/ HandleAgentPrompt \/ HandleAgentDisplay \/ AgentCancels \/ AgentReleased
             \/ \E answer \in BOOLEAN : RespondToBluetoothPrompt(answer)
             \/ \E c \in bluetoothCalls : BluetoothCallFails(c) \/ BluetoothCallSucceeds(c)
    BY <1>7, HelperSearches
  <1>8. CASE \/ BluezChanges \/ BluezOwnerChanges
             \/ \E d \in Devices : BluezFinds(d)
             \/ \E ok \in BOOLEAN : BluezPairingEnds(ok)
             \/ \E c \in bluetoothCalls : BluezPerforms(c)
    BY <1>8, BluezSearchesOn
  <1> QED  BY <1>1, <1>2, <1>3, <1>4, <1>5, <1>6, <1>7, <1>8 DEF BluetoothNext

LEMMA SearchMeansAlways ==
    ASSUME BluetoothBounds
    PROVE  BluetoothSpec => [](BluetoothInv /\ SearchMeaning)
  <1>1. BluetoothInit => SearchMeaning
    BY DEF BluetoothInit, SearchMeaning, NoDiscovery
  <1>2. SearchMeaning /\ BluetoothInv /\ [BluetoothNext]_bluetoothVars => SearchMeaning'
    BY SearchMeans
  <1> QED  BY <1>1, <1>2, BluetoothReached, PTL DEF BluetoothSpec

(* Bluetooth, always: a power request has its timer and a discovery its     *)
(* own, so a BlueZ that never answers cannot block either; from one taking  *)
(* back of the tokens to the next, a token stands for one device; discovery *)
(* runs only for an open page and beside no other operation, and BlueZ      *)
(* searches for this helper only on the adapters of that discovery, those   *)
(* apart that went astray: a snapshot failed, a start or stop was not       *)
(* heard, or a second start failed; and a prompt is for the device that the *)
(* user asked to pair.                                                      *)
THEOREM BluetoothIsSound ==
    ASSUME BluetoothBounds
    PROVE  BluetoothSpec => [](BluetoothTimersArmed /\ DeviceTokensNameOne /\ DiscoveryNeedsPage
                               /\ PromptIsPairing)
  <1>1. BluetoothInv /\ SearchMeaning =>
           BluetoothTimersArmed /\ DeviceTokensNameOne /\ DiscoveryNeedsPage /\ PromptIsPairing
    BY BluetoothSplit DEF PowerSound, SearchSound, DevicesSound, BluetoothTimersArmed,
                          DiscoveryNeedsPage, SearchMeaning
  <1> QED  BY <1>1, SearchMeansAlways, PTL

(* An operation ends as connected only when BlueZ has a device of its token *)
(* connected; as disconnected or unpaired only when BlueZ has none that the *)
(* list showed under the token still connected, or still paired; as paired  *)
(* when BlueZ has paired one; and as paired and connected when it has       *)
(* answered the connection well.  And every reply that ends it is about a   *)
(* device of its token, whatever restarts and new snapshots came between.   *)
THEOREM BluetoothSuccessIsReal ==
    ASSUME BluetoothBounds
    PROVE  BluetoothSpec => BluetoothIsReal
  <1>1. BluetoothInv /\ SearchMeaning /\ [BluetoothNext]_bluetoothVars =>
           [RealStep /\ DeviceAnswerStep]_bluetoothVars
    BY BluetoothNextKeeps, SearchMeans
  <1>2. BluetoothSpec => [][RealStep /\ DeviceAnswerStep]_bluetoothVars
    BY <1>1, SearchMeansAlways, PTL DEF BluetoothSpec
  <1>3. RealStep /\ DeviceAnswerStep =>
        (BluetoothEnds =>
            /\ bluetoothOperation'.result = "connected" =>
                  \E d \in Devices : OfTarget(d) /\ IsConnected(d)
            /\ bluetoothOperation'.result = "disconnected" =>
                  \A d \in Target(devices) : ~IsConnected(d)
            /\ bluetoothOperation'.result = "unpaired" => \A d \in Target(devices) : ~IsPaired(d)
            /\ bluetoothOperation'.result \in {"paired", "paired-connected"} =>
                  \E d \in everPaired : OfTarget(d)
            /\ bluetoothOperation'.result = "paired-connected" =>
                  \E c \in BluetoothAnswered : c.kind = "pair-connect" /\ c.phase = "done"
            /\ \A c \in BluetoothAnswered :
                  c.kind \in {"pairing", "pair-connect", "connecting", "disconnecting", "unpairing"} =>
                    OfTarget(c.device))
    BY DEF RealStep, DeviceAnswerStep
  <1> QED  BY <1>2, <1>3, PTL DEF BluetoothIsReal
=============================================================================
