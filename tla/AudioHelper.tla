---------------------------- MODULE AudioHelper ----------------------------
(***************************************************************************)
(* src/pipewire-audio/main.cpp: the helper that sets the volume and mute   *)
(* of the node tracked for a role (output, input).  A request is written   *)
(* to the node, a core sync tells that PipeWire has processed it, and the  *)
(* properties read back after that are the answer.  One request at a time  *)
(* per role; a later one waits in the slot of its kind and replaces what   *)
(* waited there.                                                           *)
(*                                                                         *)
(* Commands and events of PipeWire come on two threads, under one lock: a  *)
(* handler is an action.  PipeWire processes calls in order when they are  *)
(* made and its events reach the helper later, in order (audioEvents); a   *)
(* call fails only on a connection that is lost.  The volumes of the       *)
(* channels are one level, and properties carry level and mute together.   *)
(***************************************************************************)
EXTENDS Integers, Sequences, FiniteSets, Functions, SequencesExt, KeyedTables

CONSTANTS
    Roles, AudioNodes,
    Levels,            \* of volume
    MaxAudioCommands,  \* bound: commands of the shell
    MaxAudioChanges    \* bound: changes made by others

VARIABLES
    helperReady,
    knownNodes,
    roles,             \* RoleState of each role
    bindings,          \* node -> [subscribed, props], props <<>> until they were heard
    syncRequests, readbackRequests,
    roleShown,         \* the last line about each role the shell holds
    nodeProps,         \* external: nodes that exist -> [level, muted]
    audioEvents,       \* external: events on their way, oldest first
    connected,         \* external
    newest,            \* history: role, kind -> the latest request PipeWire processed
    overtaken,         \* history: a request was processed after a later one of its kind
    audioCommands, audioChanges

requests == <<syncRequests, readbackRequests>>
audioServer == <<nodeProps, connected, newest, overtaken>>
audioVars == <<helperReady, knownNodes, roles, bindings, requests, roleShown, audioServer,
               audioEvents, audioCommands, audioChanges>>

InvalidNode == "no node"
Kinds == {"volume", "mute"}
NoRequest == [id |-> 0]
Untracked == [node |-> InvalidNode, generation |-> 0, bound |-> FALSE, volumeInFlight |-> FALSE,
              muteInFlight |-> FALSE, queuedVolume |-> NoRequest, queuedMute |-> NoRequest]
Nothing == [generation |-> 0, props |-> <<>>]

InFlight(state) == state.volumeInFlight \/ state.muteInFlight
Matches(state, request) == state.node = request.node /\ state.generation = request.generation

AudioInit ==
    /\ \E S \in SUBSET AudioNodes : nodeProps = [n \in S |-> [level |-> 0, muted |-> FALSE]]
    /\ knownNodes = DOMAIN nodeProps
    /\ helperReady = FALSE /\ bindings = <<>>
    /\ roles = [r \in Roles |-> Untracked] /\ roleShown = [r \in Roles |-> Nothing]
    /\ syncRequests = {} /\ readbackRequests = {}
    /\ audioEvents = <<[type |-> "done", request |-> NoRequest]>>
    /\ connected = TRUE /\ newest = [k \in Roles \X Kinds |-> 0] /\ overtaken = FALSE
    /\ audioCommands = 0 /\ audioChanges = 0

-----------------------------------------------------------------------------
(* What the handlers share.  The state of a role, and the events that are   *)
(* left once the one at hand is taken (queue), are passed on as values.     *)

Touches(event, S) == event.type \in {"info", "param"} /\ event.node \in S
(* Events for a proxy that was destroyed still come in, but reach nobody.   *)
Void == [type |-> "void"]
Unless(queue, S) == [i \in DOMAIN queue |-> IF Touches(queue[i], S) THEN Void ELSE queue[i]]
Param(n, props, request) == [type |-> "param", node |-> n, props |-> props, request |-> request]

(* PipeWire answers a binding with the node's info.                         *)
EnsureTrackedBindings(states, bound, queue, shown) ==
    LET gains == {r \in Roles : /\ helperReady' /\ ~states[r].bound
                                /\ states[r].node \in knownNodes'}
        new == SetToSeq({states[r].node : r \in gains} \ DOMAIN bound)
    IN
    /\ bindings' = Over([n \in ToSet(new) |-> [subscribed |-> FALSE, props |-> <<>>]], bound)
    /\ audioEvents' = queue \o [i \in DOMAIN new |-> [type |-> "info", node |-> new[i]]]
    /\ roles' = [r \in Roles |-> [states[r] EXCEPT !.bound = @ \/ r \in gains]]
    /\ roleShown' = [r \in Roles |->
           IF r \in gains /\ bindings'[states[r].node].props # <<>>
           THEN [generation |-> states[r].generation, props |-> bindings'[states[r].node].props]
           ELSE shown[r]]

ClearInFlight(state, request) ==
    IF request.op = "volume" THEN [state EXCEPT !.volumeInFlight = FALSE]
                             ELSE [state EXCEPT !.muteInFlight = FALSE]

Applied(props, request) ==
    IF request.op = "volume" THEN [props EXCEPT !.level = request.value]
                             ELSE [props EXCEPT !.muted = request.value]

(* What PipeWire makes of set_param and sync; others are told of a change.  *)
Set(request, queue) ==
    LET n == request.node
        alive == n \in DOMAIN nodeProps
        changed == alive /\ Applied(nodeProps[n], request) # nodeProps[n]
        echo == IF changed /\ bindings[n].subscribed
                THEN <<Param(n, Applied(nodeProps[n], request), NoRequest)>> ELSE <<>>
    IN
    /\ nodeProps' = IF alive THEN [nodeProps EXCEPT ![n] = Applied(@, request)] ELSE nodeProps
    /\ audioEvents' = queue \o echo \o <<[type |-> "done", request |-> request]>>
    /\ newest' = [newest EXCEPT ![<<request.role, request.op>>] = request.id]
    /\ overtaken' = (overtaken \/ newest[<<request.role, request.op>>] > request.id)

NotSent(queue) == audioEvents' = queue /\ UNCHANGED <<nodeProps, newest, overtaken>>

(* Else a failure is posted.                                                *)
Sendable(request, state) ==
    /\ connected /\ state.bound /\ state.node = request.node
    /\ request.op = "volume" => bindings'[state.node].props # <<>>

Dispatch(request, state, queue) ==
    IF Sendable(request, state)
    THEN /\ roles' = [roles EXCEPT ![request.role] =
                IF request.op = "volume" THEN [state EXCEPT !.volumeInFlight = TRUE]
                                         ELSE [state EXCEPT !.muteInFlight = TRUE]]
         /\ syncRequests' = syncRequests \cup {request}
         /\ Set(request, queue)
    ELSE /\ roles' = [roles EXCEPT ![request.role] = state]
         /\ UNCHANGED syncRequests
         /\ NotSent(queue)

(* Mutant: a volume that waits is forgotten here.                           *)
DispatchMute(role, state, queue) ==
    IF ~InFlight(state) /\ state.queuedMute # NoRequest
    THEN Dispatch(state.queuedMute, [state EXCEPT !.queuedMute = NoRequest], queue)
    ELSE roles' = [roles EXCEPT ![role] = state] /\ UNCHANGED syncRequests /\ NotSent(queue)
(* Mutant: a mute that waits goes only after another mute.                  *)
DispatchOwn(role, state, queue) ==
    IF roles[role].volumeInFlight
    THEN roles' = [roles EXCEPT ![role] = state] /\ UNCHANGED syncRequests /\ NotSent(queue)
    ELSE DispatchMute(role, state, queue)
DispatchQueued(role, state, queue) ==
    CASE ~InFlight(state) /\ state.queuedMute # NoRequest ->
           Dispatch(state.queuedMute, [state EXCEPT !.queuedMute = NoRequest], queue)
      [] ~InFlight(state) /\ state.queuedMute = NoRequest /\ state.queuedVolume # NoRequest ->
           Dispatch(state.queuedVolume, [state EXCEPT !.queuedVolume = NoRequest], queue)
      [] OTHER ->
           roles' = [roles EXCEPT ![role] = state] /\ UNCHANGED syncRequests /\ NotSent(queue)

-----------------------------------------------------------------------------
(* Commands.                                                                *)

(* The binding a role leaves is destroyed unless another role names it, and *)
(* the requests of its node go with it.                                     *)
Abandoned(role, states) ==
    ({roles[role].node} \cap DOMAIN bindings) \ {states[r].node : r \in Roles}
ReleaseBinding(gone) ==
    /\ syncRequests' = {q \in syncRequests : q.node \notin gone}
    /\ readbackRequests' = {q \in readbackRequests : q.node \notin gone}

Track(role, state) ==
    LET states == [roles EXCEPT ![role] = state]
        gone == Abandoned(role, states)
    IN
    /\ ReleaseBinding(gone)
    /\ EnsureTrackedBindings(states, Omit(bindings, gone), Unless(audioEvents, gone),
                             [roleShown EXCEPT ![role] = Nothing])
    /\ UNCHANGED audioServer

Untrack(role) ==
    LET states == [roles EXCEPT ![role] = Untracked]
        gone == Abandoned(role, states)
    IN
    /\ roles' = states
    /\ ReleaseBinding(gone)
    /\ bindings' = Omit(bindings, gone)
    /\ audioEvents' = Unless(audioEvents, gone)
    /\ roleShown' = [roleShown EXCEPT ![role] = Nothing]
    /\ UNCHANGED audioServer

Queued(state, request) ==
    IF request.op = "volume" THEN [state EXCEPT !.queuedVolume = request]
                             ELSE [state EXCEPT !.queuedMute = request]

(* Without a binding the request is stale.                                  *)
Request(request) ==
    LET state == roles[request.role] IN
    /\ UNCHANGED <<bindings, readbackRequests, roleShown, connected>>
    /\ IF state.bound /\ ~InFlight(state)
       THEN Dispatch(request, state, audioEvents)
       ELSE /\ roles' = IF state.bound THEN [roles EXCEPT ![request.role] = Queued(state, request)]
                                       ELSE roles
            /\ UNCHANGED syncRequests
            /\ NotSent(audioEvents)

Values(op) == IF op = "mute" THEN BOOLEAN ELSE Levels

(* The shell names the node and the generation it tracks.                   *)
HandleAudioCommand ==
    /\ connected \/ audioEvents # <<>>
    /\ audioCommands < MaxAudioCommands /\ audioCommands' = audioCommands + 1
    /\ UNCHANGED <<audioChanges, helperReady, knownNodes>>
    /\ \E role \in Roles :
          \/ \E n \in AudioNodes :
                Track(role, [Untracked EXCEPT !.node = n, !.generation = audioCommands'])
          \/ roles[role].node # InvalidNode /\ Untrack(role)
          \/ /\ roles[role].node # InvalidNode
             /\ \E op \in Kinds : \E v \in Values(op) :
                   Request([id |-> audioCommands', op |-> op, role |-> role, value |-> v,
                            node |-> roles[role].node, generation |-> roles[role].generation])

-----------------------------------------------------------------------------
(* Events of PipeWire, in the order they were sent.                         *)

Event == Head(audioEvents)
Rest == Tail(audioEvents)
Arrives(type) == audioEvents # <<>> /\ Event.type = type /\ UNCHANGED <<audioCommands, audioChanges>>

(* The first sync: the registry is complete.                                *)
OnReady ==
    /\ Arrives("done") /\ Event.request = NoRequest
    /\ helperReady' = TRUE /\ UNCHANGED knownNodes
    /\ EnsureTrackedBindings(roles, bindings, Rest, roleShown)
    /\ UNCHANGED <<requests, audioServer>>

Answer(request) ==
    IF request.node \in DOMAIN nodeProps
    THEN <<Param(request.node, nodeProps[request.node], request)>> ELSE <<>>

BeginReadback(request) ==
    LET state == roles[request.role] IN
    CASE ~Matches(state, request) \/ ~state.bound ->
           audioEvents' = Rest /\ UNCHANGED <<roles, readbackRequests>>
      [] Matches(state, request) /\ state.bound /\ connected ->
           /\ readbackRequests' = readbackRequests \cup {request}
           /\ audioEvents' = Rest \o Answer(request)
           /\ UNCHANGED roles
      [] Matches(state, request) /\ state.bound /\ ~connected ->
           /\ roles' = [roles EXCEPT ![request.role] = ClearInFlight(state, request)]
           /\ audioEvents' = Rest
           /\ UNCHANGED readbackRequests

OnCoreDone ==
    /\ Arrives("done") /\ Event.request # NoRequest
    /\ IF Event.request \in syncRequests
       THEN BeginReadback(Event.request)
       ELSE audioEvents' = Rest /\ UNCHANGED <<roles, readbackRequests>>
    /\ syncRequests' = syncRequests \ {Event.request}
    /\ UNCHANGED <<helperReady, knownNodes, bindings, roleShown, audioServer>>

OnRegistryGlobal ==
    /\ Arrives("global")
    /\ knownNodes' = knownNodes \cup {Event.node} /\ UNCHANGED helperReady
    /\ EnsureTrackedBindings(roles, bindings, Rest, roleShown)
    /\ UNCHANGED <<requests, audioServer>>

OnRegistryGlobalRemove ==
    LET n == Event.node
        lost(r) == roles[r].node = n /\ roles[r].bound
    IN
    /\ Arrives("remove")
    /\ knownNodes' = knownNodes \ {n}
    /\ roles' = [r \in Roles |-> IF lost(r) THEN [Untracked EXCEPT !.node = n,
                                                     !.generation = roles[r].generation] ELSE roles[r]]
    /\ roleShown' = [r \in Roles |-> IF lost(r) THEN Nothing ELSE roleShown[r]]
    /\ ReleaseBinding(DOMAIN bindings \cap {n})
    /\ bindings' = Omit(bindings, {n})
    /\ audioEvents' = Unless(Rest, {n})
    /\ UNCHANGED <<helperReady, audioServer>>

OnNodeInfo ==
    /\ Arrives("info")
    /\ bindings' = [bindings EXCEPT ![Event.node].subscribed = TRUE]
    /\ audioEvents' = IF Event.node \in DOMAIN nodeProps /\ connected
                      THEN Append(Rest, Param(Event.node, nodeProps[Event.node], NoRequest)) ELSE Rest
    /\ UNCHANGED <<helperReady, knownNodes, roles, requests, roleShown, audioServer>>

(* The readback these properties answer: by its number, or else the only    *)
(* one that waits on the node.                                              *)
Answered ==
    LET waiting == {q \in readbackRequests : q.node = Event.node} IN
    IF Cardinality(waiting) = 1 THEN waiting ELSE waiting \cap {Event.request}

PublishExternalState == roleShown' = [r \in Roles |->
    IF roles[r].bound /\ roles[r].node = Event.node /\ ~InFlight(roles[r])
    THEN [generation |-> roles[r].generation, props |-> Event.props] ELSE roleShown[r]]

CompleteRequest(request) ==
    LET state == roles[request.role] IN
    IF Matches(state, request) /\ state.bound
    THEN /\ roleShown' = [roleShown EXCEPT ![request.role] =
                [generation |-> state.generation, props |-> Event.props]]
         /\ DispatchQueued(request.role, ClearInFlight(state, request), Rest)
    ELSE UNCHANGED <<roleShown, roles, syncRequests>> /\ NotSent(Rest)

OnNodeParam ==
    /\ Arrives("param")
    /\ bindings' = [bindings EXCEPT ![Event.node].props = Event.props]
    /\ readbackRequests' = readbackRequests \ Answered
    /\ IF Answered = {}
       THEN /\ PublishExternalState
            /\ UNCHANGED <<roles, syncRequests>> /\ NotSent(Rest)
       ELSE \E request \in Answered : CompleteRequest(request)
    /\ UNCHANGED <<helperReady, knownNodes, connected>>

OnDestroyedProxy ==
    /\ Arrives("void")
    /\ audioEvents' = Rest
    /\ UNCHANGED <<helperReady, knownNodes, roles, bindings, requests, roleShown, audioServer>>

(* Fatal: the process ends.                                                 *)
OnCoreError ==
    /\ Arrives("error")
    /\ helperReady' = FALSE /\ bindings' = <<>>
    /\ roles' = [r \in Roles |-> Untracked] /\ roleShown' = [r \in Roles |-> Nothing]
    /\ syncRequests' = {} /\ readbackRequests' = {} /\ audioEvents' = <<>>
    /\ UNCHANGED <<knownNodes, audioServer>>

OnAudioEvent ==
    OnReady \/ OnCoreDone \/ OnRegistryGlobal \/ OnRegistryGlobalRemove \/ OnNodeInfo
    \/ OnNodeParam \/ OnDestroyedProxy \/ OnCoreError

-----------------------------------------------------------------------------
(* PipeWire and its other clients.  A number is used again only once its    *)
(* removal was heard.                                                       *)

PipeWireChanges ==
    /\ connected /\ audioChanges < MaxAudioChanges /\ audioChanges' = audioChanges + 1
    /\ UNCHANGED <<helperReady, knownNodes, roles, bindings, requests, roleShown, newest,
                   overtaken, audioCommands>>
    /\ \/ \E n \in DOMAIN nodeProps : \E level \in Levels, muted \in BOOLEAN :
             LET props == [level |-> level, muted |-> muted] IN
             /\ props # nodeProps[n]
             /\ nodeProps' = [nodeProps EXCEPT ![n] = props]
             /\ audioEvents' = audioEvents \o
                   (IF n \in DOMAIN bindings /\ bindings[n].subscribed
                    THEN <<Param(n, props, NoRequest)>> ELSE <<>>)
             /\ UNCHANGED connected
       \/ \E n \in DOMAIN nodeProps :
             /\ nodeProps' = Omit(nodeProps, {n})
             /\ audioEvents' = Append(audioEvents, [type |-> "remove", node |-> n])
             /\ UNCHANGED connected
       \/ \E n \in AudioNodes \ (DOMAIN nodeProps \cup knownNodes) :
             /\ nodeProps' = Put(nodeProps, n, [level |-> 0, muted |-> FALSE])
             /\ audioEvents' = Append(audioEvents, [type |-> "global", node |-> n])
             /\ UNCHANGED connected
       \/ /\ connected' = FALSE
          /\ audioEvents' = Append(audioEvents, [type |-> "error"])
          /\ UNCHANGED nodeProps

AudioNext == HandleAudioCommand \/ OnAudioEvent \/ PipeWireChanges
AudioSpec == AudioInit /\ [][AudioNext]_audioVars

(* The thread loop goes on handling what arrives.                           *)
AudioFairness == WF_audioVars(OnAudioEvent)

-----------------------------------------------------------------------------
Carries(q, r) == q.role = r /\ Matches(roles[r], q) /\
    IF q.op = "volume" THEN roles[r].volumeInFlight ELSE roles[r].muteInFlight

(* What is in flight has a request that will bring it back, what waits in a *)
(* slot has something in flight before it, and nothing is taken for done    *)
(* before PipeWire has said so.                                             *)
AudioCarried == connected => \A r \in Roles :
    /\ InFlight(roles[r]) => \E q \in syncRequests \cup readbackRequests : Carries(q, r)
    /\ roles[r].queuedVolume # NoRequest \/ roles[r].queuedMute # NoRequest => InFlight(roles[r])
    /\ \A q \in syncRequests : Matches(roles[r], q) /\ q.role = r => Carries(q, r)

(* Once nothing is under way for a role, the shell holds what the node has. *)
AudioIsCurrent == connected => \A r \in Roles :
    LET n == roles[r].node IN
    /\ roles[r].bound /\ ~InFlight(roles[r]) /\ n \in DOMAIN nodeProps
    /\ bindings[n].props # <<>>
    /\ \A i \in DOMAIN audioEvents : ~Touches(audioEvents[i], {n})
    => roleShown[r] = [generation |-> roles[r].generation, props |-> nodeProps[n]]

(* An older volume is never written after a newer one.                      *)
NewestWins == ~overtaken

AudioSettled == \A r \in Roles : ~InFlight(roles[r])
=============================================================================
