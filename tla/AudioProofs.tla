---------------------------- MODULE AudioProofs ----------------------------
(***************************************************************************)
(* The audio helper for any roles, nodes, levels and interleaving.         *)
(***************************************************************************)
EXTENDS AudioHelper, Foundations, TLAPS

(* There are as many roles as the code has names for, and a node that is    *)
(* not there is none of the nodes.                                          *)
AudioBounds == IsFiniteSet(Roles) /\ InvalidNode \notin AudioNodes

Props == [level : Levels \cup {0}, muted : BOOLEAN]
Volumes == [id : Nat \ {0}, op : {"volume"}, role : Roles, value : Levels,
            node : AudioNodes, generation : Nat]
Mutes == [id : Nat \ {0}, op : {"mute"}, role : Roles, value : BOOLEAN,
          node : AudioNodes, generation : Nat]
Requests == Volumes \cup Mutes
RoleStates == [node : AudioNodes \cup {InvalidNode}, generation : Nat, bound : BOOLEAN,
               volumeInFlight : BOOLEAN, muteInFlight : BOOLEAN,
               queuedVolume : Volumes \cup {NoRequest}, queuedMute : Mutes \cup {NoRequest}]
Bindings == [subscribed : BOOLEAN, props : Props \cup {<<>>}]
Lines == [generation : Nat, props : Props \cup {<<>>}]

Dones == [type : {"done"}, request : Requests \cup {NoRequest}]
Moves == [type : {"info", "global", "remove"}, node : AudioNodes]
Params == [type : {"param"}, node : AudioNodes, props : Props,
           request : Requests \cup {NoRequest}]
Bare == [type : {"error", "void"}]
Events == Dones \cup Moves \cup Params \cup Bare

AudioTypeOK ==
    /\ helperReady \in BOOLEAN
    /\ knownNodes \in SUBSET AudioNodes
    /\ roles \in [Roles -> RoleStates]
    /\ bindings \in Partial(AudioNodes, Bindings)
    /\ syncRequests \in SUBSET Requests
    /\ readbackRequests \in SUBSET Requests
    /\ roleShown \in [Roles -> Lines]
    /\ nodeProps \in Partial(AudioNodes, Props)
    /\ audioEvents \in Seq(Events)
    /\ connected \in BOOLEAN
    /\ newest \in [Roles \X Kinds -> Nat]
    /\ overtaken \in BOOLEAN
    /\ audioCommands \in Nat /\ audioChanges \in Nat

-----------------------------------------------------------------------------
(* A role and the requests under way for it.                                *)
Flies(s, op) == IF op = "volume" THEN s.volumeInFlight ELSE s.muteInFlight

Own(r, s, R) == {q \in R : q.role = r /\ Matches(s, q)}

Waits(r, s, q, op, N, n) ==
    q # NoRequest =>
        /\ q.role = r /\ Matches(s, q)
        /\ N[<<r, op>>] < q.id /\ q.id <= n
        /\ InFlight(s)

RoleSound(r, s, own, N, n) ==
    /\ s.generation <= n
    /\ InFlight(s) => s.bound /\ own # {}
    /\ ~(s.volumeInFlight /\ s.muteInFlight)
    /\ \A q \in own : Flies(s, q.op)
    /\ \A q, p \in own : q = p
    /\ Waits(r, s, s.queuedVolume, "volume", N, n)
    /\ Waits(r, s, s.queuedMute, "mute", N, n)

-----------------------------------------------------------------------------
(* What is on its way.                                                      *)
IsParam(e, n) == e.type = "param" /\ e.node = n
IsInfo(e, n) == e.type = "info" /\ e.node = n
IsAnswer(e) == e.type = "param" /\ e.request # NoRequest

(* What the helper knows of n when all before place k has come in is v.     *)
Says(E, known, n, k, v) ==
    \/ known = v /\ \A j \in 1..(k - 1) : ~IsParam(E[j], n)
    \/ \E i \in 1..(k - 1) : /\ IsParam(E[i], n) /\ E[i].props = v
                             /\ \A j \in (i + 1)..(k - 1) : ~IsParam(E[j], n)

InfoComes(E, B) == \A n \in DOMAIN B :
    ~B[n].subscribed => \E i \in 1..Len(E) : IsInfo(E[i], n)
ChangesCome(E, B, P) == \A n \in DOMAIN B :
    n \in DOMAIN P /\ B[n].subscribed => Says(E, B[n].props, n, Len(E) + 1, P[n])
ForBound(E, B) == \A i \in 1..Len(E) : E[i].type \in {"info", "param"} => E[i].node \in DOMAIN B
AnswersRepeat(E, B) == \A i \in 1..Len(E) :
    IsAnswer(E[i]) => /\ E[i].request.node = E[i].node
                      /\ Says(E, B[E[i].node].props, E[i].node, i, E[i].props)
AnswersCome(E, P, A) == \A q \in A :
    q.node \in DOMAIN P => \E i \in 1..Len(E) : IsAnswer(E[i]) /\ E[i].request = q
NotAnswered(E, Y) == \A i \in 1..Len(E) : IsAnswer(E[i]) => E[i].request \notin Y
InfoFirst(E, B, Y) == \A i \in 1..Len(E) :
    /\ E[i].type = "done" /\ E[i].request \in Y
    /\ E[i].request.node \in DOMAIN B /\ ~B[E[i].request.node].subscribed
    => \E j \in 1..(i - 1) : IsInfo(E[j], E[i].request.node)
Processed(E, R, N) ==
    /\ \A q \in R : q.id <= N[<<q.role, q.op>>]
    /\ \A i \in 1..Len(E) : E[i].type \in {"param", "done"} /\ E[i].request # NoRequest
          => E[i].request.id <= N[<<E[i].request.role, E[i].request.op>>]
RequestsBound(R, B, n) == \A q \in R : q.node \in DOMAIN B /\ q.generation <= n
NoError(E) == \A i \in 1..Len(E) : E[i].type # "error"

QueueSound(E, B, P, Y, A, N, n) ==
    /\ InfoComes(E, B)
    /\ ChangesCome(E, B, P)
    /\ ForBound(E, B)
    /\ AnswersRepeat(E, B)
    /\ AnswersCome(E, P, A)
    /\ NotAnswered(E, Y)
    /\ InfoFirst(E, B, Y)
    /\ Processed(E, Y \cup A, N)
    /\ RequestsBound(Y \cup A, B, n)
    /\ NoError(E)

(* What the shell holds of a role is what the helper knows, unless an       *)
(* answer comes that nobody waits for.                                      *)
ShownSound(s, line, E, B, P, A) ==
    s.bound /\ ~InFlight(s) /\ s.node \in DOMAIN P /\ B[s.node].props # <<>>
    => \/ line = [generation |-> s.generation, props |-> B[s.node].props]
       \/ \E i \in 1..Len(E) : IsAnswer(E[i]) /\ E[i].node = s.node /\ E[i].request \notin A

RoleHolds(r, s, line, E, B, P, Y, A, N, n) ==
    /\ RoleSound(r, s, Own(r, s, Y \cup A), N, n)
    /\ s.bound => s.node \in DOMAIN B
    /\ ShownSound(s, line, E, B, P, A)

AllSound(S, shown, E, B, P, Y, A, N, n) ==
    /\ QueueSound(E, B, P, Y, A, N, n)
    /\ \A r \in Roles : RoleHolds(r, S[r], shown[r], E, B, P, Y, A, N, n)
    /\ Y \cap A = {}

AudioSound ==
    /\ AllSound(roles, roleShown, audioEvents, bindings, nodeProps, syncRequests,
                readbackRequests, newest, audioCommands)
    /\ DOMAIN bindings \subseteq knownNodes
    /\ \A k \in Roles \X Kinds : newest[k] <= audioCommands
    /\ IsFiniteSet(readbackRequests)

AudioInv == AudioTypeOK /\ ~overtaken /\ (connected => AudioSound)
-----------------------------------------------------------------------------
(* The parts of the records.                                                *)
LEMMA RequestParts ==
    ASSUME NEW q \in Requests
    PROVE  /\ q.id \in Nat \ {0} /\ q.op \in Kinds /\ q.role \in Roles
           /\ q.node \in AudioNodes /\ q.generation \in Nat
           /\ q # NoRequest
           /\ q.op = "volume" => q \in Volumes /\ q.value \in Levels
           /\ q.op # "volume" => q \in Mutes /\ q.value \in BOOLEAN /\ q.op = "mute"
<1>1. CASE q \in Volumes
  <2>1. q.id \in Nat \ {0} /\ q.op = "volume" /\ q.role \in Roles
        /\ q.node \in AudioNodes /\ q.generation \in Nat /\ q.value \in Levels
    BY <1>1 DEF Volumes
  <2> QED BY <1>1, <2>1 DEF Kinds, NoRequest
<1>2. CASE q \in Mutes
  <2>1. q.id \in Nat \ {0} /\ q.op = "mute" /\ q.role \in Roles
        /\ q.node \in AudioNodes /\ q.generation \in Nat /\ q.value \in BOOLEAN
    BY <1>2 DEF Mutes
  <2> QED BY <1>2, <2>1 DEF Kinds, NoRequest
<1> QED BY <1>1, <1>2 DEF Requests

LEMMA SlotParts ==
    /\ Volumes \subseteq Requests /\ Mutes \subseteq Requests
    /\ \A q \in Volumes : q.op = "volume"
    /\ \A q \in Mutes : q.op = "mute"
    /\ NoRequest \notin Requests /\ NoRequest \notin Volumes /\ NoRequest \notin Mutes
<1>1. NoRequest \notin Requests
  BY RequestParts
<1> QED BY <1>1 DEF Requests, Volumes, Mutes

LEMMA EventParts ==
    ASSUME NEW e \in Events
    PROVE  /\ e.type \in {"done", "info", "global", "remove", "param", "error", "void"}
           /\ e.type = "done" => e \in Dones /\ e.request \in Requests \cup {NoRequest}
           /\ e.type \in {"info", "global", "remove"} => e \in Moves /\ e.node \in AudioNodes
           /\ e.type = "param" => /\ e \in Params
                                  /\ e.node \in AudioNodes /\ e.props \in Props
                                  /\ e.request \in Requests \cup {NoRequest}
<1>1. CASE e \in Dones  BY <1>1 DEF Dones
<1>2. CASE e \in Moves  BY <1>2 DEF Moves
<1>3. CASE e \in Params  BY <1>3 DEF Params
<1>4. CASE e \in Bare  BY <1>4 DEF Bare
<1> QED BY <1>1, <1>2, <1>3, <1>4 DEF Events

LEMMA ParamParts ==
    ASSUME NEW n \in AudioNodes, NEW p \in Props, NEW q \in Requests \cup {NoRequest}
    PROVE  /\ Param(n, p, q) \in Events
           /\ Param(n, p, q).type = "param" /\ Param(n, p, q).node = n
           /\ Param(n, p, q).props = p /\ Param(n, p, q).request = q
<1>1. Param(n, p, q) \in Params
  BY DEF Param, Params
<1> QED BY <1>1 DEF Param, Events

LEMMA VoidParts == Void \in Events /\ Void.type = "void"
BY DEF Void, Bare, Events

LEMMA RoleParts ==
    ASSUME NEW s \in RoleStates
    PROVE  /\ s.node \in AudioNodes \cup {InvalidNode} /\ s.generation \in Nat
           /\ s.bound \in BOOLEAN /\ s.volumeInFlight \in BOOLEAN /\ s.muteInFlight \in BOOLEAN
           /\ s.queuedVolume \in Volumes \cup {NoRequest}
           /\ s.queuedMute \in Mutes \cup {NoRequest}
BY DEF RoleStates

(* A role that starts over, and one that is not tracked.                    *)
Reset(n, g) == [Untracked EXCEPT !.node = n, !.generation = g]

LEMMA ResetParts ==
    ASSUME NEW n \in AudioNodes, NEW g \in Nat
    PROVE  /\ Reset(n, g) \in RoleStates
           /\ Reset(n, g).node = n /\ Reset(n, g).generation = g
           /\ ~Reset(n, g).bound /\ ~InFlight(Reset(n, g))
           /\ Reset(n, g).queuedVolume = NoRequest /\ Reset(n, g).queuedMute = NoRequest
<1>1. Untracked \in [node : {InvalidNode}, generation : {0}, bound : {FALSE},
                     volumeInFlight : {FALSE}, muteInFlight : {FALSE},
                     queuedVolume : {NoRequest}, queuedMute : {NoRequest}]
  BY DEF Untracked
<1>2. Reset(n, g) \in [node : {n}, generation : {g}, bound : {FALSE},
                       volumeInFlight : {FALSE}, muteInFlight : {FALSE},
                       queuedVolume : {NoRequest}, queuedMute : {NoRequest}]
  BY <1>1 DEF Reset
<1> HIDE DEF Reset
<1> QED BY <1>2 DEF RoleStates, InFlight

LEMMA UntrackedParts ==
    /\ Untracked \in RoleStates
    /\ Untracked.node = InvalidNode /\ Untracked.generation = 0
    /\ ~Untracked.bound /\ ~InFlight(Untracked)
    /\ Untracked.queuedVolume = NoRequest /\ Untracked.queuedMute = NoRequest
BY DEF Untracked, RoleStates, InFlight

LEMMA AppliedType ==
    ASSUME NEW p \in Props, NEW q \in Requests
    PROVE  Applied(p, q) \in Props
<1>1. CASE q.op = "volume"
  <2>1. q.value \in Levels BY <1>1, RequestParts
  <2> QED BY <1>1, <2>1 DEF Applied, Props
<1>2. CASE q.op # "volume"
  <2>1. q.value \in BOOLEAN BY <1>2, RequestParts
  <2> QED BY <1>2, <2>1 DEF Applied, Props
<1> QED BY <1>1, <1>2

(* What happened to the events for destroyed proxies.                       *)
LEMMA UnlessParts ==
    ASSUME NEW E \in Seq(Events), NEW S
    PROVE  /\ Unless(E, S) \in Seq(Events)
           /\ Len(Unless(E, S)) = Len(E)
           /\ \A i \in 1..Len(E) : Unless(E, S)[i] = IF Touches(E[i], S) THEN Void ELSE E[i]
<1>1. DOMAIN E = 1..Len(E) /\ Len(E) \in Nat
  OBVIOUS
<1>2. \A i \in 1..Len(E) : (IF Touches(E[i], S) THEN Void ELSE E[i]) \in Events
  BY VoidParts
<1>3. Unless(E, S) \in [1..Len(E) -> Events]
  BY <1>1, <1>2 DEF Unless
<1>4. Unless(E, S) \in Seq(Events) /\ Len(Unless(E, S)) = Len(E)
  BY <1>1, <1>3
<1> QED BY <1>1, <1>4 DEF Unless
-----------------------------------------------------------------------------
(* What ensureTrackedBindings does: roles that gain a binding, and nodes    *)
(* that are bound anew.                                                     *)
Gains(states) == {r \in Roles : helperReady' /\ ~states[r].bound /\ states[r].node \in knownNodes'}
New(states, bound) == SetToSeq({states[r].node : r \in Gains(states)} \ DOMAIN bound)
Fresh(new) == [n \in ToSet(new) |-> [subscribed |-> FALSE, props |-> <<>>]]
Infos(new) == [i \in DOMAIN new |-> [type |-> "info", node |-> new[i]]]

Gained(states) == [r \in Roles |-> [states[r] EXCEPT !.bound = @ \/ r \in Gains(states)]]
Regained(states, B, shown) == [r \in Roles |->
    IF r \in Gains(states) /\ B[states[r].node].props # <<>>
    THEN [generation |-> states[r].generation, props |-> B[states[r].node].props]
    ELSE shown[r]]

LEMMA EnsureTracked ==
    ASSUME NEW states, NEW bound, NEW queue, NEW shown,
           EnsureTrackedBindings(states, bound, queue, shown)
    PROVE  /\ bindings' = Over(Fresh(New(states, bound)), bound)
           /\ audioEvents' = queue \o Infos(New(states, bound))
           /\ roles' = Gained(states)
           /\ roleShown' = Regained(states, bindings', shown)
BY Zenon DEF EnsureTrackedBindings, Gains, New, Fresh, Infos, Gained, Regained

LEMMA NewParts ==
    ASSUME AudioBounds, NEW states \in [Roles -> RoleStates],
           NEW bound \in Partial(AudioNodes, Bindings), knownNodes' \in SUBSET AudioNodes
    PROVE  /\ New(states, bound) \in Seq(AudioNodes)
           /\ \A n \in ToSet(New(states, bound)) : n \in knownNodes' /\ n \notin DOMAIN bound
           /\ \A r \in Gains(states) : states[r].node \in DOMAIN bound \cup ToSet(New(states, bound))
<1> DEFINE nodes == {states[r].node : r \in Gains(states)}
           S == nodes \ DOMAIN bound
<1>1. IsFiniteSet(Gains(states))
  <2>1. Gains(states) \in SUBSET Roles BY DEF Gains
  <2> QED BY <2>1, FS_Subset DEF AudioBounds
<1>2. IsFiniteSet(S)
  <2> DEFINE f == [r \in Gains(states) |-> states[r].node]
  <2>1. f \in Surjection(Gains(states), nodes)
    BY DEF Surjection
  <2>2. IsFiniteSet(nodes)
    BY <1>1, <2>1, FS_Surjection
  <2> QED BY <2>2, FS_Difference
<1>3. New(states, bound) = SetToSeq(S)
  BY Zenon DEF New
<1>4. S \in SUBSET AudioNodes /\ \A n \in S : n \in knownNodes' /\ n \notin DOMAIN bound
  BY DEF Gains
<1>5. \A r \in Gains(states) : states[r].node \in DOMAIN bound \cup S
  OBVIOUS
<1> HIDE DEF S
<1>6. SetToSeq(S) \in [1..Cardinality(S) -> S] /\ IsInjective(SetToSeq(S))
  BY <1>2, Enumerable, Zenon DEF SetToSeq
<1>7. SetToSeq(S) \in Seq(S) /\ \A x \in S : \E i \in DOMAIN SetToSeq(S) : SetToSeq(S)[i] = x
  BY <1>2, <1>6, EnumeratesAll
<1>8. ToSet(SetToSeq(S)) = S
  BY <1>7 DEF ToSet
<1>9. SetToSeq(S) \in Seq(AudioNodes)
  BY <1>7, <1>4, SeqMonotonic
<1> QED BY <1>3, <1>4, <1>5, <1>8, <1>9

LEMMA FreshParts ==
    ASSUME NEW new \in Seq(AudioNodes)
    PROVE  /\ Fresh(new) \in Partial(AudioNodes, Bindings)
           /\ \A n \in ToSet(new) : Fresh(new)[n] = [subscribed |-> FALSE, props |-> <<>>]
<1>1. ToSet(new) \in SUBSET AudioNodes
  BY DEF ToSet
<1>2. [subscribed |-> FALSE, props |-> <<>>] \in Bindings
  BY DEF Bindings
<1>3. Fresh(new) \in [ToSet(new) -> Bindings]
  BY <1>2 DEF Fresh
<1> QED BY <1>1, <1>3, IsPartial DEF Fresh

LEMMA FreshDomain ==
    ASSUME NEW new
    PROVE  DOMAIN Fresh(new) = ToSet(new)
BY DEF Fresh

LEMMA InfosParts ==
    ASSUME NEW new \in Seq(AudioNodes)
    PROVE  /\ Infos(new) \in Seq(Events)
           /\ Len(Infos(new)) = Len(new)
           /\ \A i \in 1..Len(new) : Infos(new)[i].type = "info" /\ Infos(new)[i].node = new[i]
<1>1. DOMAIN new = 1..Len(new) /\ Len(new) \in Nat
  OBVIOUS
<1>2. \A n \in AudioNodes : [type |-> "info", node |-> n] \in Events
  BY DEF Moves, Events
<1>3. Infos(new) \in [1..Len(new) -> Events]
  BY <1>1, <1>2 DEF Infos
<1>4. Infos(new) \in Seq(Events) /\ Len(Infos(new)) = Len(new)
  BY <1>1, <1>3
<1>5. ASSUME NEW i \in 1..Len(new)
      PROVE  Infos(new)[i].type = "info" /\ Infos(new)[i].node = new[i]
  <2>1. Infos(new)[i] = [type |-> "info", node |-> new[i]]
    BY <1>1 DEF Infos
  <2> QED BY <2>1
<1> QED BY <1>4, <1>5

LEMMA EnsureTypes ==
    ASSUME AudioBounds, NEW states \in [Roles -> RoleStates],
           NEW bound \in Partial(AudioNodes, Bindings), NEW queue \in Seq(Events),
           NEW shown \in [Roles -> Lines], knownNodes' \in SUBSET AudioNodes,
           EnsureTrackedBindings(states, bound, queue, shown)
    PROVE  /\ bindings' \in Partial(AudioNodes, Bindings) /\ audioEvents' \in Seq(Events)
           /\ roles' \in [Roles -> RoleStates] /\ roleShown' \in [Roles -> Lines]
           /\ \A r \in Gains(states) : states[r].node \in DOMAIN bindings'
<1> DEFINE new == New(states, bound)
<1>1. /\ bindings' = Over(Fresh(new), bound)
      /\ audioEvents' = queue \o Infos(new)
      /\ roles' = Gained(states)
      /\ roleShown' = Regained(states, bindings', shown)
  BY EnsureTracked, Zenon
<1>2. new \in Seq(AudioNodes)
      /\ \A r \in Gains(states) : states[r].node \in DOMAIN bound \cup ToSet(new)
  BY NewParts, Zenon
<1> HIDE DEF new
<1>3. bindings' \in Partial(AudioNodes, Bindings)
  BY <1>1, <1>2, FreshParts, OverPartial
<1>4. audioEvents' \in Seq(Events)
  BY <1>1, <1>2, InfosParts
<1>5. DOMAIN bindings' = ToSet(new) \cup DOMAIN bound
  BY <1>1, OverDomain, FreshDomain
<1>6. \A r \in Gains(states) : states[r].node \in DOMAIN bindings'
  BY <1>2, <1>5
<1>7. roles' \in [Roles -> RoleStates]
  <2>1. \A r \in Roles : [states[r] EXCEPT !.bound = @ \/ r \in Gains(states)] \in RoleStates
    BY DEF RoleStates
  <2> QED BY <1>1, <2>1 DEF Gained
<1>8. ASSUME NEW r \in Roles, r \in Gains(states)
      PROVE  [generation |-> states[r].generation, props |-> bindings'[states[r].node].props] \in Lines
  <2>1. bindings'[states[r].node] \in Bindings
    BY <1>3, <1>6, <1>8, PartialParts
  <2>2. bindings'[states[r].node].props \in Props \cup {<<>>}
    BY <2>1 DEF Bindings
  <2>3. states[r].generation \in Nat
    BY RoleParts
  <2> QED BY <2>2, <2>3 DEF Lines
<1>9. roleShown' \in [Roles -> Lines]
  <2>1. \A r \in Roles : roleShown'[r] \in Lines
    BY <1>1, <1>8 DEF Regained
  <2> QED BY <1>1, <2>1 DEF Regained
<1> QED BY <1>3, <1>4, <1>6, <1>7, <1>9
-----------------------------------------------------------------------------
(* What dispatch, dispatchQueued and PipeWire make of a request.            *)
Launched(s, q) == IF q.op = "volume" THEN [s EXCEPT !.volumeInFlight = TRUE]
                                     ELSE [s EXCEPT !.muteInFlight = TRUE]

LEMMA LaunchedParts ==
    ASSUME NEW s \in RoleStates, NEW q
    PROVE  /\ Launched(s, q) \in RoleStates
           /\ Launched(s, q).node = s.node /\ Launched(s, q).generation = s.generation
           /\ Launched(s, q).bound = s.bound
           /\ Launched(s, q).queuedVolume = s.queuedVolume
           /\ Launched(s, q).queuedMute = s.queuedMute
           /\ Launched(s, q).volumeInFlight = (q.op = "volume" \/ s.volumeInFlight)
           /\ Launched(s, q).muteInFlight = (q.op # "volume" \/ s.muteInFlight)
<1>1. s.volumeInFlight \in BOOLEAN /\ s.muteInFlight \in BOOLEAN
  BY RoleParts
<1>2. CASE q.op = "volume"
  BY <1>1, <1>2 DEF Launched, RoleStates
<1>3. CASE q.op # "volume"
  BY <1>1, <1>3 DEF Launched, RoleStates
<1> QED BY <1>2, <1>3

LEMMA DispatchCases ==
    ASSUME NEW q, NEW s, NEW queue, Dispatch(q, s, queue)
    PROVE  \/ /\ Sendable(q, s)
              /\ roles' = [roles EXCEPT ![q.role] = Launched(s, q)]
              /\ syncRequests' = syncRequests \cup {q}
              /\ Set(q, queue)
           \/ /\ ~Sendable(q, s)
              /\ roles' = [roles EXCEPT ![q.role] = s]
              /\ syncRequests' = syncRequests
              /\ NotSent(queue)
BY Zenon DEF Dispatch, Launched

Emptied(s, op) == IF op = "mute" THEN [s EXCEPT !.queuedMute = NoRequest]
                                 ELSE [s EXCEPT !.queuedVolume = NoRequest]

LEMMA EmptiedParts ==
    ASSUME NEW s \in RoleStates, NEW op
    PROVE  /\ Emptied(s, op) \in RoleStates
           /\ Emptied(s, op).node = s.node /\ Emptied(s, op).generation = s.generation
           /\ Emptied(s, op).bound = s.bound
           /\ Emptied(s, op).volumeInFlight = s.volumeInFlight
           /\ Emptied(s, op).muteInFlight = s.muteInFlight
           /\ Emptied(s, op).queuedVolume = IF op = "mute" THEN s.queuedVolume ELSE NoRequest
           /\ Emptied(s, op).queuedMute = IF op = "mute" THEN NoRequest ELSE s.queuedMute
<1>1. CASE op = "mute"
  BY <1>1 DEF Emptied, RoleStates
<1>2. CASE op # "mute"
  BY <1>2 DEF Emptied, RoleStates
<1> QED BY <1>1, <1>2

LEMMA QueuedCases ==
    ASSUME NEW r, NEW s, NEW queue, DispatchQueued(r, s, queue)
    PROVE  \/ /\ ~InFlight(s) /\ s.queuedMute # NoRequest
              /\ Dispatch(s.queuedMute, Emptied(s, "mute"), queue)
           \/ /\ ~InFlight(s) /\ s.queuedMute = NoRequest /\ s.queuedVolume # NoRequest
              /\ Dispatch(s.queuedVolume, Emptied(s, "volume"), queue)
           \/ /\ InFlight(s) \/ (s.queuedMute = NoRequest /\ s.queuedVolume = NoRequest)
              /\ roles' = [roles EXCEPT ![r] = s]
              /\ syncRequests' = syncRequests
              /\ NotSent(queue)
<1>1. Emptied(s, "mute") = [s EXCEPT !.queuedMute = NoRequest]
      /\ Emptied(s, "volume") = [s EXCEPT !.queuedVolume = NoRequest]
  BY Zenon DEF Emptied
<1>2. CASE ~InFlight(s) /\ s.queuedMute # NoRequest
  BY <1>1, <1>2, Zenon DEF DispatchQueued
<1>3. CASE ~InFlight(s) /\ s.queuedMute = NoRequest /\ s.queuedVolume # NoRequest
  BY <1>1, <1>3, Zenon DEF DispatchQueued
<1>4. CASE InFlight(s) \/ (s.queuedMute = NoRequest /\ s.queuedVolume = NoRequest)
  BY <1>4, Zenon DEF DispatchQueued
<1> QED BY <1>2, <1>3, <1>4, Zenon

Echo(q) == IF /\ q.node \in DOMAIN nodeProps
              /\ Applied(nodeProps[q.node], q) # nodeProps[q.node]
              /\ bindings[q.node].subscribed
           THEN <<Param(q.node, Applied(nodeProps[q.node], q), NoRequest)>> ELSE <<>>
Done(q) == [type |-> "done", request |-> q]

LEMMA SetParts ==
    ASSUME NEW q, NEW queue, Set(q, queue)
    PROVE  /\ nodeProps' = IF q.node \in DOMAIN nodeProps
                           THEN [nodeProps EXCEPT ![q.node] = Applied(nodeProps[q.node], q)] ELSE nodeProps
           /\ audioEvents' = queue \o Echo(q) \o <<Done(q)>>
           /\ newest' = [newest EXCEPT ![<<q.role, q.op>>] = q.id]
           /\ overtaken' = (overtaken \/ newest[<<q.role, q.op>>] > q.id)
<1>1. CASE q.node \in DOMAIN nodeProps
  BY <1>1, Zenon DEF Set, Echo, Done
<1>2. CASE q.node \notin DOMAIN nodeProps
  BY <1>2, Zenon DEF Set, Echo, Done
<1> QED BY <1>1, <1>2, Zenon

LEMMA DoneParts ==
    ASSUME NEW q \in Requests \cup {NoRequest}
    PROVE  Done(q) \in Events /\ Done(q).type = "done" /\ Done(q).request = q
<1>1. Done(q) \in Dones
  BY DEF Done, Dones
<1> QED BY <1>1 DEF Done, Events

(* What the echo is: nothing, or one event that says what was applied.      *)
LEMMA EchoCases ==
    ASSUME nodeProps \in Partial(AudioNodes, Props), NEW q \in Requests, NEW queue \in Seq(Events)
    PROVE  \/ /\ Echo(q) = <<>>
              /\ queue \o Echo(q) = queue
              /\ \/ q.node \notin DOMAIN nodeProps
                 \/ Applied(nodeProps[q.node], q) = nodeProps[q.node]
                 \/ ~bindings[q.node].subscribed
           \/ /\ q.node \in DOMAIN nodeProps /\ bindings[q.node].subscribed
              /\ Applied(nodeProps[q.node], q) \in Props
              /\ queue \o Echo(q) = Append(queue, Param(q.node, Applied(nodeProps[q.node], q), NoRequest))
              /\ Param(q.node, Applied(nodeProps[q.node], q), NoRequest) \in Events
<1>1. CASE /\ q.node \in DOMAIN nodeProps
           /\ Applied(nodeProps[q.node], q) # nodeProps[q.node]
           /\ bindings[q.node].subscribed
  <2>1. nodeProps[q.node] \in Props /\ q.node \in AudioNodes
    BY <1>1, PartialParts
  <2>2. Applied(nodeProps[q.node], q) \in Props
    BY <2>1, AppliedType
  <2>3. Param(q.node, Applied(nodeProps[q.node], q), NoRequest) \in Events
    BY <2>1, <2>2, ParamParts
  <2>4. Echo(q) = <<Param(q.node, Applied(nodeProps[q.node], q), NoRequest)>>
    BY <1>1, Zenon DEF Echo
  <2>5. queue \o Echo(q) = Append(queue, Param(q.node, Applied(nodeProps[q.node], q), NoRequest))
    BY <2>3, <2>4, AppendIsConcat
  <2> QED BY <1>1, <2>2, <2>3, <2>5
<1>2. CASE ~(/\ q.node \in DOMAIN nodeProps
             /\ Applied(nodeProps[q.node], q) # nodeProps[q.node]
             /\ bindings[q.node].subscribed)
  <2>1. Echo(q) = <<>>
    BY <1>2, Zenon DEF Echo
  <2>2. queue \o <<>> = queue
    BY ConcatEmptySeq
  <2> QED BY <1>2, <2>1, <2>2, Zenon
<1> QED BY <1>1, <1>2, Zenon

LEMMA SetTypes ==
    ASSUME AudioTypeOK, NEW q \in Requests, NEW queue \in Seq(Events), Set(q, queue)
    PROVE  /\ nodeProps' \in Partial(AudioNodes, Props)
           /\ audioEvents' \in Seq(Events)
           /\ newest' \in [Roles \X Kinds -> Nat]
           /\ overtaken' \in BOOLEAN
<1>1. nodeProps' \in Partial(AudioNodes, Props)
  <2>1. CASE q.node \in DOMAIN nodeProps
    <3>1. Applied(nodeProps[q.node], q) \in Props
      BY <2>1, PartialParts, AppliedType DEF AudioTypeOK
    <3>2. nodeProps' = [nodeProps EXCEPT ![q.node] = Applied(nodeProps[q.node], q)]
      BY <2>1, SetParts, Zenon
    <3> QED BY <3>1, <3>2, ChangedPartial DEF AudioTypeOK
  <2>2. CASE q.node \notin DOMAIN nodeProps
    BY <2>2, SetParts DEF AudioTypeOK
  <2> QED BY <2>1, <2>2
<1>2. audioEvents' \in Seq(Events)
  <2>1. queue \o Echo(q) \in Seq(Events)
    <3>1. nodeProps \in Partial(AudioNodes, Props) BY DEF AudioTypeOK
    <3>2. \/ queue \o Echo(q) = queue
          \/ /\ queue \o Echo(q) = Append(queue, Param(q.node, Applied(nodeProps[q.node], q), NoRequest))
             /\ Param(q.node, Applied(nodeProps[q.node], q), NoRequest) \in Events
      BY <3>1, EchoCases, Zenon
    <3>3. ASSUME NEW e \in Events  PROVE  Append(queue, e) \in Seq(Events)
      BY AppendProperties
    <3> QED BY <3>2, <3>3, Zenon
  <2>2. <<Done(q)>> \in Seq(Events)
    BY DoneParts
  <2>3. audioEvents' = (queue \o Echo(q)) \o <<Done(q)>>
    BY SetParts, Zenon
  <2> QED BY <2>1, <2>2, <2>3, Joined
<1>3. newest' \in [Roles \X Kinds -> Nat]
  <2>1. q.id \in Nat BY RequestParts
  <2> QED BY <2>1, SetParts DEF AudioTypeOK
<1>4. overtaken' \in BOOLEAN
  <2>1. overtaken' = (overtaken \/ newest[<<q.role, q.op>>] > q.id)
    BY SetParts, Zenon
  <2> QED BY <2>1 DEF AudioTypeOK
<1> QED BY <1>1, <1>2, <1>3, <1>4

SentTypes == /\ roles' \in [Roles -> RoleStates] /\ syncRequests' \in SUBSET Requests
             /\ nodeProps' \in Partial(AudioNodes, Props) /\ audioEvents' \in Seq(Events)
             /\ newest' \in [Roles \X Kinds -> Nat] /\ overtaken' \in BOOLEAN

LEMMA NotSentTypes ==
    ASSUME AudioTypeOK, NEW r, NEW s \in RoleStates, NEW queue \in Seq(Events),
           roles' = [roles EXCEPT ![r] = s], syncRequests' = syncRequests, NotSent(queue)
    PROVE  SentTypes
BY DEF SentTypes, AudioTypeOK, NotSent

LEMMA DispatchTypes ==
    ASSUME AudioTypeOK, NEW q \in Requests, NEW s \in RoleStates, NEW queue \in Seq(Events),
           Dispatch(q, s, queue)
    PROVE  SentTypes
<1>1. CASE /\ roles' = [roles EXCEPT ![q.role] = Launched(s, q)]
           /\ syncRequests' = syncRequests \cup {q}
           /\ Set(q, queue)
  <2>1. /\ nodeProps' \in Partial(AudioNodes, Props)
        /\ audioEvents' \in Seq(Events)
        /\ newest' \in [Roles \X Kinds -> Nat]
        /\ overtaken' \in BOOLEAN
    BY <1>1, SetTypes
  <2>2. Launched(s, q) \in RoleStates
    BY LaunchedParts
  <2> QED BY <1>1, <2>1, <2>2 DEF SentTypes, AudioTypeOK
<1>2. CASE /\ roles' = [roles EXCEPT ![q.role] = s]
           /\ syncRequests' = syncRequests
           /\ NotSent(queue)
  BY <1>2, NotSentTypes
<1> QED BY <1>1, <1>2, DispatchCases, Zenon

LEMMA DispatchQueuedTypes ==
    ASSUME AudioTypeOK, NEW r, NEW s \in RoleStates, NEW queue \in Seq(Events),
           DispatchQueued(r, s, queue)
    PROVE  SentTypes
<1>1. s.queuedVolume \in Volumes \cup {NoRequest} /\ s.queuedMute \in Mutes \cup {NoRequest}
  BY RoleParts
<1>2. CASE s.queuedMute # NoRequest /\ Dispatch(s.queuedMute, Emptied(s, "mute"), queue)
  <2>1. s.queuedMute \in Requests /\ Emptied(s, "mute") \in RoleStates
    BY <1>1, <1>2, SlotParts, EmptiedParts
  <2> QED BY <1>2, <2>1, DispatchTypes
<1>3. CASE s.queuedVolume # NoRequest /\ Dispatch(s.queuedVolume, Emptied(s, "volume"), queue)
  <2>1. s.queuedVolume \in Requests /\ Emptied(s, "volume") \in RoleStates
    BY <1>1, <1>3, SlotParts, EmptiedParts
  <2> QED BY <1>3, <2>1, DispatchTypes
<1>4. CASE /\ roles' = [roles EXCEPT ![r] = s]
           /\ syncRequests' = syncRequests
           /\ NotSent(queue)
  BY <1>4, NotSentTypes
<1> QED BY <1>2, <1>3, <1>4, QueuedCases, Zenon
-----------------------------------------------------------------------------
(* Type correctness, action by action.                                      *)
LEMMA ReleaseTypes ==
    ASSUME AudioTypeOK, NEW gone, ReleaseBinding(gone)
    PROVE  /\ syncRequests' \in SUBSET Requests /\ readbackRequests' \in SUBSET Requests
           /\ Omit(bindings, gone) \in Partial(AudioNodes, Bindings)
           /\ Unless(audioEvents, gone) \in Seq(Events)
<1>1. bindings \in Partial(AudioNodes, Bindings) /\ audioEvents \in Seq(Events)
  BY DEF AudioTypeOK
<1>2. Omit(bindings, gone) \in Partial(AudioNodes, Bindings)
  BY <1>1, OmitPartial
<1>3. Unless(audioEvents, gone) \in Seq(Events)
  BY <1>1, UnlessParts
<1> QED BY <1>2, <1>3 DEF ReleaseBinding, AudioTypeOK

LEMMA NothingType == Nothing \in Lines
BY DEF Nothing, Lines

LEMMA TrackType ==
    ASSUME AudioBounds, AudioTypeOK, NEW role \in Roles, NEW s \in RoleStates, Track(role, s),
           UNCHANGED <<helperReady, knownNodes, audioChanges>>, audioCommands' \in Nat
    PROVE  AudioTypeOK'
<1> DEFINE states == [roles EXCEPT ![role] = s]
           gone == Abandoned(role, states)
           shown == [roleShown EXCEPT ![role] = Nothing]
<1>1. /\ ReleaseBinding(gone)
      /\ EnsureTrackedBindings(states, Omit(bindings, gone), Unless(audioEvents, gone), shown)
      /\ UNCHANGED audioServer
  BY Zenon DEF Track
<1>2. states \in [Roles -> RoleStates] /\ shown \in [Roles -> Lines]
  BY NothingType DEF AudioTypeOK
<1> HIDE DEF states, gone, shown
<1>3. /\ syncRequests' \in SUBSET Requests /\ readbackRequests' \in SUBSET Requests
      /\ Omit(bindings, gone) \in Partial(AudioNodes, Bindings)
      /\ Unless(audioEvents, gone) \in Seq(Events)
  BY <1>1, ReleaseTypes
<1>4. knownNodes' \in SUBSET AudioNodes
  BY DEF AudioTypeOK
<1>5. /\ bindings' \in Partial(AudioNodes, Bindings) /\ audioEvents' \in Seq(Events)
      /\ roles' \in [Roles -> RoleStates] /\ roleShown' \in [Roles -> Lines]
  BY <1>1, <1>2, <1>3, <1>4, EnsureTypes
<1> QED BY <1>1, <1>3, <1>5 DEF AudioTypeOK, audioServer

LEMMA UntrackType ==
    ASSUME AudioTypeOK, NEW role \in Roles, Untrack(role),
           UNCHANGED <<helperReady, knownNodes, audioChanges>>, audioCommands' \in Nat
    PROVE  AudioTypeOK'
<1> DEFINE states == [roles EXCEPT ![role] = Untracked]
           gone == Abandoned(role, states)
<1>1. /\ roles' = states
      /\ ReleaseBinding(gone)
      /\ bindings' = Omit(bindings, gone)
      /\ audioEvents' = Unless(audioEvents, gone)
      /\ roleShown' = [roleShown EXCEPT ![role] = Nothing]
      /\ UNCHANGED audioServer
  BY Zenon DEF Untrack
<1>2. states \in [Roles -> RoleStates]
  BY UntrackedParts DEF AudioTypeOK
<1> HIDE DEF states, gone
<1>3. /\ syncRequests' \in SUBSET Requests /\ readbackRequests' \in SUBSET Requests
      /\ Omit(bindings, gone) \in Partial(AudioNodes, Bindings)
      /\ Unless(audioEvents, gone) \in Seq(Events)
  BY <1>1, ReleaseTypes
<1>4. roleShown' \in [Roles -> Lines]
  BY <1>1, NothingType DEF AudioTypeOK
<1> QED BY <1>1, <1>2, <1>3, <1>4 DEF AudioTypeOK, audioServer

LEMMA QueuedParts ==
    ASSUME NEW s \in RoleStates, NEW q \in Requests
    PROVE  /\ Queued(s, q) \in RoleStates
           /\ Queued(s, q).node = s.node /\ Queued(s, q).generation = s.generation
           /\ Queued(s, q).bound = s.bound
           /\ Queued(s, q).volumeInFlight = s.volumeInFlight
           /\ Queued(s, q).muteInFlight = s.muteInFlight
           /\ Queued(s, q).queuedVolume = IF q.op = "volume" THEN q ELSE s.queuedVolume
           /\ Queued(s, q).queuedMute = IF q.op = "volume" THEN s.queuedMute ELSE q
<1>1. CASE q.op = "volume"
  <2>1. q \in Volumes BY <1>1, RequestParts
  <2> QED BY <1>1, <2>1 DEF Queued, RoleStates
<1>2. CASE q.op # "volume"
  <2>1. q \in Mutes BY <1>2, RequestParts
  <2> QED BY <1>2, <2>1 DEF Queued, RoleStates
<1> QED BY <1>1, <1>2

LEMMA RequestCases ==
    ASSUME NEW q, Request(q)
    PROVE  /\ UNCHANGED <<bindings, readbackRequests, roleShown, connected>>
           /\ \/ /\ roles[q.role].bound /\ ~InFlight(roles[q.role])
                 /\ Dispatch(q, roles[q.role], audioEvents)
              \/ /\ roles[q.role].bound /\ InFlight(roles[q.role])
                 /\ roles' = [roles EXCEPT ![q.role] = Queued(roles[q.role], q)]
                 /\ syncRequests' = syncRequests /\ NotSent(audioEvents)
              \/ /\ ~roles[q.role].bound
                 /\ roles' = roles
                 /\ syncRequests' = syncRequests /\ NotSent(audioEvents)
<1>1. CASE roles[q.role].bound /\ ~InFlight(roles[q.role])
  BY <1>1, Zenon DEF Request
<1>2. CASE roles[q.role].bound /\ InFlight(roles[q.role])
  BY <1>2, Zenon DEF Request
<1>3. CASE ~roles[q.role].bound
  BY <1>3, Zenon DEF Request
<1> QED BY <1>1, <1>2, <1>3, Zenon

LEMMA RequestType ==
    ASSUME AudioTypeOK, NEW q \in Requests, Request(q),
           UNCHANGED <<helperReady, knownNodes, audioChanges>>, audioCommands' \in Nat
    PROVE  AudioTypeOK'
<1>1. UNCHANGED <<bindings, readbackRequests, roleShown, connected>>
  BY RequestCases, Zenon
<1>2. roles[q.role] \in RoleStates /\ q.role \in Roles /\ audioEvents \in Seq(Events)
  BY RequestParts DEF AudioTypeOK
<1>3. SentTypes
  <2>1. CASE Dispatch(q, roles[q.role], audioEvents)
    BY <2>1, <1>2, DispatchTypes
  <2>2. CASE /\ roles' = [roles EXCEPT ![q.role] = Queued(roles[q.role], q)]
             /\ syncRequests' = syncRequests /\ NotSent(audioEvents)
    <3>1. Queued(roles[q.role], q) \in RoleStates
      BY <1>2, QueuedParts
    <3> QED BY <2>2, <1>2, <3>1, NotSentTypes
  <2>3. CASE roles' = roles /\ syncRequests' = syncRequests /\ NotSent(audioEvents)
    BY <2>3 DEF SentTypes, AudioTypeOK, NotSent
  <2> QED BY <2>1, <2>2, <2>3, RequestCases, Zenon
<1> QED BY <1>1, <1>3 DEF SentTypes, AudioTypeOK

(* What the shell asks for is a request.                                    *)
Asked(op, role, v) == [id |-> audioCommands', op |-> op, role |-> role, value |-> v,
                       node |-> roles[role].node, generation |-> roles[role].generation]

LEMMA AskedParts ==
    ASSUME AudioTypeOK, NEW op \in Kinds, NEW role \in Roles, NEW v \in Values(op),
           roles[role].node # InvalidNode, audioCommands' = audioCommands + 1
    PROVE  /\ Asked(op, role, v) \in Requests
           /\ Asked(op, role, v).id = audioCommands + 1
           /\ Asked(op, role, v).op = op /\ Asked(op, role, v).role = role
           /\ Matches(roles[role], Asked(op, role, v))
<1>1. roles[role] \in RoleStates /\ audioCommands + 1 \in Nat \ {0}
  BY DEF AudioTypeOK
<1>2. roles[role].node \in AudioNodes /\ roles[role].generation \in Nat
  BY <1>1, RoleParts
<1>3. CASE op = "volume"
  <2>1. v \in Levels BY <1>3 DEF Values
  <2>2. Asked(op, role, v) \in Volumes
    BY <1>1, <1>2, <1>3, <2>1 DEF Asked, Volumes
  <2> QED BY <2>2, SlotParts DEF Asked, Matches
<1>4. CASE op = "mute"
  <2>1. v \in BOOLEAN BY <1>4 DEF Values
  <2>2. Asked(op, role, v) \in Mutes
    BY <1>1, <1>2, <1>4, <2>1 DEF Asked, Mutes
  <2> QED BY <2>2, SlotParts DEF Asked, Matches
<1> QED BY <1>3, <1>4 DEF Kinds

LEMMA CommandCases ==
    ASSUME HandleAudioCommand
    PROVE  /\ connected \/ audioEvents # <<>>
           /\ audioCommands' = audioCommands + 1
           /\ UNCHANGED <<audioChanges, helperReady, knownNodes>>
           /\ \E role \in Roles :
                 \/ \E n \in AudioNodes : Track(role, Reset(n, audioCommands'))
                 \/ Untrack(role)
                 \/ /\ roles[role].node # InvalidNode
                    /\ \E op \in Kinds : \E v \in Values(op) : Request(Asked(op, role, v))
BY Zenon DEF HandleAudioCommand, Reset, Asked

LEMMA CommandType ==
    ASSUME AudioBounds, AudioTypeOK, HandleAudioCommand
    PROVE  AudioTypeOK'
<1>1. audioCommands' = audioCommands + 1 /\ UNCHANGED <<helperReady, knownNodes, audioChanges>>
  BY CommandCases, Zenon
<1>2. audioCommands' \in Nat
  BY <1>1 DEF AudioTypeOK
<1>3. PICK role \in Roles :
         \/ \E n \in AudioNodes : Track(role, Reset(n, audioCommands'))
         \/ Untrack(role)
         \/ /\ roles[role].node # InvalidNode
            /\ \E op \in Kinds : \E v \in Values(op) : Request(Asked(op, role, v))
  BY CommandCases, Zenon
<1>4. CASE \E n \in AudioNodes : Track(role, Reset(n, audioCommands'))
  <2>1. PICK n \in AudioNodes : Track(role, Reset(n, audioCommands'))
    BY <1>4
  <2>2. Reset(n, audioCommands') \in RoleStates
    BY <1>2, ResetParts
  <2> QED BY <1>1, <1>2, <2>1, <2>2, TrackType
<1>5. CASE Untrack(role)
  BY <1>1, <1>2, <1>5, UntrackType
<1>6. CASE /\ roles[role].node # InvalidNode
           /\ \E op \in Kinds : \E v \in Values(op) : Request(Asked(op, role, v))
  <2>1. PICK op \in Kinds : \E v \in Values(op) : Request(Asked(op, role, v))
    BY <1>6
  <2>2. PICK v \in Values(op) : Request(Asked(op, role, v))
    BY <2>1
  <2>3. Asked(op, role, v) \in Requests
    BY <1>1, <1>6, AskedParts
  <2> QED BY <1>1, <1>2, <2>2, <2>3, RequestType
<1> QED BY <1>3, <1>4, <1>5, <1>6
LEMMA HeadParts ==
    ASSUME AudioTypeOK, NEW type, Arrives(type)
    PROVE  /\ audioEvents # <<>> /\ Event \in Events /\ Rest \in Seq(Events) /\ Event.type = type
           /\ UNCHANGED <<audioCommands, audioChanges>>
BY DEF AudioTypeOK, Arrives, Event, Rest

LEMMA OnReadyType ==
    ASSUME AudioBounds, AudioTypeOK, OnReady
    PROVE  AudioTypeOK'
<1>1. /\ Arrives("done") /\ helperReady' = TRUE /\ knownNodes' = knownNodes
      /\ EnsureTrackedBindings(roles, bindings, Rest, roleShown)
      /\ UNCHANGED <<requests, audioServer>>
  BY Zenon DEF OnReady
<1>2. Rest \in Seq(Events) /\ UNCHANGED <<audioCommands, audioChanges>>
  BY <1>1, HeadParts
<1>3. /\ bindings' \in Partial(AudioNodes, Bindings) /\ audioEvents' \in Seq(Events)
      /\ roles' \in [Roles -> RoleStates] /\ roleShown' \in [Roles -> Lines]
  BY <1>1, <1>2, EnsureTypes DEF AudioTypeOK
<1> QED BY <1>1, <1>2, <1>3 DEF AudioTypeOK, audioServer, requests

LEMMA OnRegistryGlobalType ==
    ASSUME AudioBounds, AudioTypeOK, OnRegistryGlobal
    PROVE  AudioTypeOK'
<1>1. /\ Arrives("global") /\ helperReady' = helperReady
      /\ knownNodes' = knownNodes \cup {Event.node}
      /\ EnsureTrackedBindings(roles, bindings, Rest, roleShown)
      /\ UNCHANGED <<requests, audioServer>>
  BY Zenon DEF OnRegistryGlobal
<1>2. Rest \in Seq(Events) /\ Event.node \in AudioNodes /\ UNCHANGED <<audioCommands, audioChanges>>
  BY <1>1, HeadParts, EventParts
<1>3. knownNodes' \in SUBSET AudioNodes
  BY <1>1, <1>2 DEF AudioTypeOK
<1>4. /\ bindings' \in Partial(AudioNodes, Bindings) /\ audioEvents' \in Seq(Events)
      /\ roles' \in [Roles -> RoleStates] /\ roleShown' \in [Roles -> Lines]
  BY <1>1, <1>2, <1>3, EnsureTypes DEF AudioTypeOK
<1> QED BY <1>1, <1>2, <1>3, <1>4 DEF AudioTypeOK, audioServer, requests


LEMMA ClearedParts ==
    ASSUME NEW s \in RoleStates, NEW q
    PROVE  /\ ClearInFlight(s, q) \in RoleStates
           /\ ClearInFlight(s, q).node = s.node /\ ClearInFlight(s, q).generation = s.generation
           /\ ClearInFlight(s, q).bound = s.bound
           /\ ClearInFlight(s, q).queuedVolume = s.queuedVolume
           /\ ClearInFlight(s, q).queuedMute = s.queuedMute
           /\ ClearInFlight(s, q).volumeInFlight = (q.op # "volume" /\ s.volumeInFlight)
           /\ ClearInFlight(s, q).muteInFlight = (q.op = "volume" /\ s.muteInFlight)
<1>1. s.volumeInFlight \in BOOLEAN /\ s.muteInFlight \in BOOLEAN
  BY RoleParts
<1>2. CASE q.op = "volume"
  BY <1>1, <1>2 DEF ClearInFlight, RoleStates
<1>3. CASE q.op # "volume"
  BY <1>1, <1>3 DEF ClearInFlight, RoleStates
<1> QED BY <1>2, <1>3

LEMMA AnswerCases ==
    ASSUME nodeProps \in Partial(AudioNodes, Props), NEW q \in Requests, NEW queue \in Seq(Events)
    PROVE  \/ /\ q.node \notin DOMAIN nodeProps
              /\ queue \o Answer(q) = queue
           \/ /\ q.node \in DOMAIN nodeProps /\ nodeProps[q.node] \in Props
              /\ Param(q.node, nodeProps[q.node], q) \in Events
              /\ queue \o Answer(q) = Append(queue, Param(q.node, nodeProps[q.node], q))
<1>1. CASE q.node \in DOMAIN nodeProps
  <2>1. nodeProps[q.node] \in Props /\ q.node \in AudioNodes
    BY <1>1, PartialParts
  <2>2. Param(q.node, nodeProps[q.node], q) \in Events
    BY <2>1, ParamParts
  <2>3. Answer(q) = <<Param(q.node, nodeProps[q.node], q)>>
    BY <1>1, Zenon DEF Answer
  <2>4. queue \o Answer(q) = Append(queue, Param(q.node, nodeProps[q.node], q))
    BY <2>2, <2>3, AppendIsConcat
  <2> QED BY <1>1, <2>1, <2>2, <2>4
<1>2. CASE q.node \notin DOMAIN nodeProps
  <2>1. Answer(q) = <<>>
    BY <1>2, Zenon DEF Answer
  <2>2. queue \o <<>> = queue
    BY ConcatEmptySeq
  <2> QED BY <1>2, <2>1, <2>2, Zenon
<1> QED BY <1>1, <1>2

LEMMA ReadbackCases ==
    ASSUME NEW q, BeginReadback(q)
    PROVE  \/ /\ ~Matches(roles[q.role], q) \/ ~roles[q.role].bound
              /\ audioEvents' = Rest /\ roles' = roles /\ readbackRequests' = readbackRequests
           \/ /\ Matches(roles[q.role], q) /\ roles[q.role].bound /\ connected
              /\ readbackRequests' = readbackRequests \cup {q}
              /\ audioEvents' = Rest \o Answer(q) /\ roles' = roles
           \/ /\ Matches(roles[q.role], q) /\ roles[q.role].bound /\ ~connected
              /\ roles' = [roles EXCEPT ![q.role] = ClearInFlight(roles[q.role], q)]
              /\ audioEvents' = Rest /\ readbackRequests' = readbackRequests
<1>1. CASE ~Matches(roles[q.role], q) \/ ~roles[q.role].bound
  BY <1>1, Zenon DEF BeginReadback
<1>2. CASE Matches(roles[q.role], q) /\ roles[q.role].bound /\ connected
  BY <1>2, Zenon DEF BeginReadback
<1>3. CASE Matches(roles[q.role], q) /\ roles[q.role].bound /\ ~connected
  BY <1>3, Zenon DEF BeginReadback
<1> QED BY <1>1, <1>2, <1>3, Zenon

LEMMA OnCoreDoneCases ==
    ASSUME OnCoreDone
    PROVE  /\ Arrives("done") /\ Event.request # NoRequest
           /\ \/ Event.request \in syncRequests /\ BeginReadback(Event.request)
              \/ /\ Event.request \notin syncRequests
                 /\ audioEvents' = Rest /\ roles' = roles /\ readbackRequests' = readbackRequests
           /\ syncRequests' = syncRequests \ {Event.request}
           /\ UNCHANGED <<helperReady, knownNodes, bindings, roleShown, audioServer>>
<1>1. CASE Event.request \in syncRequests
  BY <1>1, Zenon DEF OnCoreDone
<1>2. CASE Event.request \notin syncRequests
  BY <1>2, Zenon DEF OnCoreDone
<1> QED BY <1>1, <1>2, Zenon

LEMMA OnCoreDoneType ==
    ASSUME AudioTypeOK, OnCoreDone
    PROVE  AudioTypeOK'
<1> DEFINE q == Event.request
<1>1. /\ Arrives("done") /\ q # NoRequest
      /\ syncRequests' = syncRequests \ {q}
      /\ UNCHANGED <<helperReady, knownNodes, bindings, roleShown, audioServer>>
  BY OnCoreDoneCases, Zenon
<1>2. Rest \in Seq(Events) /\ q \in Requests /\ UNCHANGED <<audioCommands, audioChanges>>
  BY <1>1, HeadParts, EventParts
<1> HIDE DEF q
<1>3. q.role \in Roles /\ roles[q.role] \in RoleStates
  BY <1>2, RequestParts DEF AudioTypeOK
<1>4. /\ audioEvents' \in Seq(Events) /\ roles' \in [Roles -> RoleStates]
      /\ readbackRequests' \in SUBSET Requests
  <2>1. CASE audioEvents' = Rest /\ roles' = roles /\ readbackRequests' = readbackRequests
    BY <1>2, <2>1 DEF AudioTypeOK
  <2>2. CASE /\ readbackRequests' = readbackRequests \cup {q}
             /\ audioEvents' = Rest \o Answer(q) /\ roles' = roles
    <3>1. nodeProps \in Partial(AudioNodes, Props)
      BY DEF AudioTypeOK
    <3>2. ASSUME NEW e \in Events  PROVE  Append(Rest, e) \in Seq(Events)
      BY <1>2, AppendProperties
    <3>3. Rest \o Answer(q) \in Seq(Events)
      BY <1>2, <3>1, <3>2, AnswerCases, Zenon
    <3> QED BY <1>2, <2>2, <3>3 DEF AudioTypeOK
  <2>3. CASE /\ roles' = [roles EXCEPT ![q.role] = ClearInFlight(roles[q.role], q)]
             /\ audioEvents' = Rest /\ readbackRequests' = readbackRequests
    <3>1. ClearInFlight(roles[q.role], q) \in RoleStates
      BY <1>3, ClearedParts
    <3> QED BY <1>2, <2>3, <3>1 DEF AudioTypeOK
  <2> QED BY <2>1, <2>2, <2>3, OnCoreDoneCases, ReadbackCases, Zenon DEF q
<1> QED BY <1>1, <1>2, <1>4 DEF AudioTypeOK, audioServer

LEMMA OnRegistryGlobalRemoveType ==
    ASSUME AudioTypeOK, OnRegistryGlobalRemove
    PROVE  AudioTypeOK'
<1> DEFINE n == Event.node
           lost(r) == roles[r].node = n /\ roles[r].bound
<1>1. /\ Arrives("remove")
      /\ knownNodes' = knownNodes \ {n}
      /\ roles' = [r \in Roles |-> IF lost(r) THEN Reset(n, roles[r].generation) ELSE roles[r]]
      /\ roleShown' = [r \in Roles |-> IF lost(r) THEN Nothing ELSE roleShown[r]]
      /\ ReleaseBinding(DOMAIN bindings \cap {n})
      /\ bindings' = Omit(bindings, {n})
      /\ audioEvents' = Unless(Rest, {n})
      /\ UNCHANGED <<helperReady, audioServer>>
  BY Zenon DEF OnRegistryGlobalRemove, Reset
<1>2. Rest \in Seq(Events) /\ n \in AudioNodes /\ UNCHANGED <<audioCommands, audioChanges>>
  BY <1>1, HeadParts, EventParts
<1> HIDE DEF n
<1>3. audioEvents' \in Seq(Events)
  BY <1>1, <1>2, UnlessParts
<1>4. bindings' \in Partial(AudioNodes, Bindings)
  BY <1>1, OmitPartial DEF AudioTypeOK
<1>5. roles' \in [Roles -> RoleStates]
  <2>1. \A r \in Roles : Reset(n, roles[r].generation) \in RoleStates
    <3> TAKE r \in Roles
    <3>1. roles[r].generation \in Nat BY RoleParts DEF AudioTypeOK
    <3> QED BY <1>2, <3>1, ResetParts
  <2> QED BY <1>1, <2>1 DEF AudioTypeOK
<1>6. roleShown' \in [Roles -> Lines]
  BY <1>1, NothingType DEF AudioTypeOK
<1>7. syncRequests' \in SUBSET Requests /\ readbackRequests' \in SUBSET Requests
  BY <1>1 DEF ReleaseBinding, AudioTypeOK
<1> QED BY <1>1, <1>2, <1>3, <1>4, <1>5, <1>6, <1>7 DEF AudioTypeOK, audioServer

LEMMA OnNodeInfoType ==
    ASSUME AudioTypeOK, OnNodeInfo
    PROVE  AudioTypeOK'
<1> DEFINE n == Event.node
<1>1. /\ Arrives("info")
      /\ bindings' = [bindings EXCEPT ![n].subscribed = TRUE]
      /\ \/ audioEvents' = Rest
         \/ n \in DOMAIN nodeProps /\ audioEvents' = Append(Rest, Param(n, nodeProps[n], NoRequest))
      /\ UNCHANGED <<helperReady, knownNodes, roles, requests, roleShown, audioServer>>
  <2>1. CASE n \in DOMAIN nodeProps /\ connected
    BY <2>1, Zenon DEF OnNodeInfo
  <2>2. CASE ~(n \in DOMAIN nodeProps /\ connected)
    BY <2>2, Zenon DEF OnNodeInfo
  <2> QED BY <2>1, <2>2, Zenon
<1>2. Rest \in Seq(Events) /\ n \in AudioNodes /\ UNCHANGED <<audioCommands, audioChanges>>
  BY <1>1, HeadParts, EventParts
<1> HIDE DEF n
<1>3. bindings' \in Partial(AudioNodes, Bindings)
  <2>1. bindings' = [bindings EXCEPT ![n] = [bindings[n] EXCEPT !.subscribed = TRUE]]
    BY <1>1
  <2>2. n \in DOMAIN bindings => [bindings[n] EXCEPT !.subscribed = TRUE] \in Bindings
    <3> HAVE n \in DOMAIN bindings
    <3>1. bindings[n] \in Bindings
      BY PartialParts DEF AudioTypeOK
    <3> QED BY <3>1 DEF Bindings
  <2> QED BY <2>1, <2>2, ChangedPartial DEF AudioTypeOK
<1>4. audioEvents' \in Seq(Events)
  <2>1. CASE n \in DOMAIN nodeProps /\ audioEvents' = Append(Rest, Param(n, nodeProps[n], NoRequest))
    <3>1. nodeProps[n] \in Props
      BY <2>1, PartialParts DEF AudioTypeOK
    <3>2. Param(n, nodeProps[n], NoRequest) \in Events
      BY <1>2, <3>1, ParamParts
    <3> QED BY <1>2, <2>1, <3>2, AppendProperties
  <2> QED BY <1>1, <1>2, <2>1
<1> QED BY <1>1, <1>2, <1>3, <1>4 DEF AudioTypeOK, audioServer, requests

LEMMA CompleteCases ==
    ASSUME NEW q, CompleteRequest(q)
    PROVE  \/ /\ Matches(roles[q.role], q) /\ roles[q.role].bound
              /\ roleShown' = [roleShown EXCEPT ![q.role] =
                    [generation |-> roles[q.role].generation, props |-> Event.props]]
              /\ DispatchQueued(q.role, ClearInFlight(roles[q.role], q), Rest)
           \/ /\ ~(Matches(roles[q.role], q) /\ roles[q.role].bound)
              /\ roleShown' = roleShown /\ roles' = roles /\ syncRequests' = syncRequests
              /\ NotSent(Rest)
<1>1. CASE Matches(roles[q.role], q) /\ roles[q.role].bound
  BY <1>1, Zenon DEF CompleteRequest
<1>2. CASE ~(Matches(roles[q.role], q) /\ roles[q.role].bound)
  BY <1>2, Zenon DEF CompleteRequest
<1> QED BY <1>1, <1>2, Zenon

LEMMA OnNodeParamCases ==
    ASSUME OnNodeParam
    PROVE  /\ Arrives("param")
           /\ bindings' = [bindings EXCEPT ![Event.node].props = Event.props]
           /\ readbackRequests' = readbackRequests \ Answered
           /\ \/ /\ Answered = {} /\ PublishExternalState
                 /\ roles' = roles /\ syncRequests' = syncRequests /\ NotSent(Rest)
              \/ Answered # {} /\ \E q \in Answered : CompleteRequest(q)
           /\ UNCHANGED <<helperReady, knownNodes, connected>>
<1>1. CASE Answered = {}
  BY <1>1, Zenon DEF OnNodeParam
<1>2. CASE Answered # {}
  BY <1>2, Zenon DEF OnNodeParam
<1> QED BY <1>1, <1>2, Zenon

LEMMA AnsweredParts ==
    \A q \in Answered : q \in readbackRequests /\ q.node = Event.node
<1> DEFINE waiting == {q \in readbackRequests : q.node = Event.node}
<1>1. Answered \subseteq waiting
  <2>1. CASE Cardinality(waiting) = 1
    BY <2>1, Zenon DEF Answered
  <2>2. CASE Cardinality(waiting) # 1
    <3>1. Answered = waiting \cap {Event.request}
      BY <2>2, Zenon DEF Answered
    <3> HIDE DEF waiting
    <3> QED BY <3>1
  <2> QED BY <2>1, <2>2
<1> QED BY <1>1

LEMMA OnNodeParamType ==
    ASSUME AudioTypeOK, OnNodeParam
    PROVE  AudioTypeOK'
<1> DEFINE n == Event.node
<1>1. /\ Arrives("param")
      /\ bindings' = [bindings EXCEPT ![n].props = Event.props]
      /\ readbackRequests' = readbackRequests \ Answered
      /\ UNCHANGED <<helperReady, knownNodes, connected>>
  BY OnNodeParamCases, Zenon
<1>2. Rest \in Seq(Events) /\ n \in AudioNodes /\ UNCHANGED <<audioCommands, audioChanges>>
      /\ Event.props \in Props
  BY <1>1, HeadParts, EventParts
<1> HIDE DEF n
<1>3. bindings' \in Partial(AudioNodes, Bindings)
  <2>1. bindings' = [bindings EXCEPT ![n] = [bindings[n] EXCEPT !.props = Event.props]]
    BY <1>1
  <2>2. n \in DOMAIN bindings => [bindings[n] EXCEPT !.props = Event.props] \in Bindings
    <3> HAVE n \in DOMAIN bindings
    <3>1. bindings[n] \in Bindings
      BY PartialParts DEF AudioTypeOK
    <3> QED BY <1>2, <3>1 DEF Bindings
  <2> QED BY <2>1, <2>2, ChangedPartial DEF AudioTypeOK
<1>4. readbackRequests' \in SUBSET Requests
  BY <1>1 DEF AudioTypeOK
<1>5. SentTypes /\ roleShown' \in [Roles -> Lines]
  <2>1. CASE /\ PublishExternalState
             /\ roles' = roles /\ syncRequests' = syncRequests /\ NotSent(Rest)
    <3>1. SentTypes
      BY <1>2, <2>1 DEF SentTypes, AudioTypeOK, NotSent
    <3>2. \A r \in Roles : [generation |-> roles[r].generation, props |-> Event.props] \in Lines
      BY <1>2, RoleParts DEF AudioTypeOK, Lines
    <3>3. roleShown' \in [Roles -> Lines]
      BY <2>1, <3>2 DEF PublishExternalState, AudioTypeOK
    <3> QED BY <3>1, <3>3
  <2>2. CASE \E q \in Answered : CompleteRequest(q)
    <3>1. PICK q \in Answered : CompleteRequest(q)
      BY <2>2
    <3>2. q \in Requests
      BY AnsweredParts DEF AudioTypeOK
    <3>3. q.role \in Roles /\ roles[q.role] \in RoleStates
      BY <3>2, RequestParts DEF AudioTypeOK
    <3>4. CASE /\ roleShown' = [roleShown EXCEPT ![q.role] =
                     [generation |-> roles[q.role].generation, props |-> Event.props]]
               /\ DispatchQueued(q.role, ClearInFlight(roles[q.role], q), Rest)
      <4>1. ClearInFlight(roles[q.role], q) \in RoleStates
        BY <3>3, ClearedParts
      <4>2. SentTypes
        BY <1>2, <3>4, <4>1, DispatchQueuedTypes
      <4>3. [generation |-> roles[q.role].generation, props |-> Event.props] \in Lines
        BY <1>2, <3>3, RoleParts DEF Lines
      <4> QED BY <3>4, <4>2, <4>3 DEF AudioTypeOK
    <3>5. CASE /\ roleShown' = roleShown /\ roles' = roles /\ syncRequests' = syncRequests
               /\ NotSent(Rest)
      BY <1>2, <3>5 DEF SentTypes, AudioTypeOK, NotSent
    <3> QED BY <3>1, <3>4, <3>5, CompleteCases, Zenon
  <2> QED BY <2>1, <2>2, OnNodeParamCases, Zenon
<1> QED BY <1>1, <1>2, <1>3, <1>4, <1>5 DEF AudioTypeOK, SentTypes

LEMMA OnCoreErrorType ==
    ASSUME AudioTypeOK, OnCoreError
    PROVE  AudioTypeOK'
<1>1. bindings' \in Partial(AudioNodes, Bindings)
  BY EmptyPartial DEF OnCoreError
<1>2. roles' \in [Roles -> RoleStates] /\ roleShown' \in [Roles -> Lines]
  BY UntrackedParts, NothingType DEF OnCoreError
<1>3. audioEvents' \in Seq(Events)
  BY DEF OnCoreError
<1> QED BY <1>1, <1>2, <1>3 DEF OnCoreError, Arrives, AudioTypeOK, audioServer

LEMMA OnDestroyedProxyType ==
    ASSUME AudioTypeOK, OnDestroyedProxy
    PROVE  AudioTypeOK'
<1>1. Rest \in Seq(Events) /\ UNCHANGED <<audioCommands, audioChanges>>
  BY HeadParts DEF OnDestroyedProxy
<1> QED BY <1>1 DEF OnDestroyedProxy, AudioTypeOK, audioServer, requests

(* What others do.                                                          *)
OtherWrites(n, p) ==
    /\ nodeProps' = [nodeProps EXCEPT ![n] = p]
    /\ audioEvents' = audioEvents \o (IF n \in DOMAIN bindings /\ bindings[n].subscribed
                                      THEN <<Param(n, p, NoRequest)>> ELSE <<>>)
    /\ UNCHANGED connected
NodeGoes(n) ==
    /\ nodeProps' = Omit(nodeProps, {n})
    /\ audioEvents' = Append(audioEvents, [type |-> "remove", node |-> n])
    /\ UNCHANGED connected
NodeComes(n) ==
    /\ nodeProps' = Put(nodeProps, n, [level |-> 0, muted |-> FALSE])
    /\ audioEvents' = Append(audioEvents, [type |-> "global", node |-> n])
    /\ UNCHANGED connected
ConnectionLost ==
    /\ connected' = FALSE
    /\ audioEvents' = Append(audioEvents, [type |-> "error"])
    /\ UNCHANGED nodeProps

LEMMA ChangeCases ==
    ASSUME PipeWireChanges
    PROVE  /\ connected /\ audioChanges' = audioChanges + 1
           /\ UNCHANGED <<helperReady, knownNodes, roles, bindings, requests, roleShown, newest,
                          overtaken, audioCommands>>
           /\ \/ \E n \in DOMAIN nodeProps : \E p \in Props : OtherWrites(n, p)
              \/ \E n \in DOMAIN nodeProps : NodeGoes(n)
              \/ \E n \in AudioNodes \ (DOMAIN nodeProps \cup knownNodes) : NodeComes(n)
              \/ ConnectionLost
<1>1. \A level \in Levels, muted \in BOOLEAN : [level |-> level, muted |-> muted] \in Props
  BY DEF Props
<1>2. /\ connected /\ audioChanges' = audioChanges + 1
      /\ UNCHANGED <<helperReady, knownNodes, roles, bindings, requests, roleShown, newest,
                     overtaken, audioCommands>>
      /\ \/ \E n \in DOMAIN nodeProps : \E level \in Levels, muted \in BOOLEAN :
               OtherWrites(n, [level |-> level, muted |-> muted])
         \/ \E n \in DOMAIN nodeProps : NodeGoes(n)
         \/ \E n \in AudioNodes \ (DOMAIN nodeProps \cup knownNodes) : NodeComes(n)
         \/ ConnectionLost
  BY Zenon DEF PipeWireChanges, OtherWrites, NodeGoes, NodeComes, ConnectionLost
<1> QED BY <1>1, <1>2, Zenon

LEMMA MovePart ==
    ASSUME NEW n \in AudioNodes
    PROVE  /\ [type |-> "remove", node |-> n] \in Events
           /\ [type |-> "global", node |-> n] \in Events
           /\ [type |-> "error"] \in Events
           /\ [level |-> 0, muted |-> FALSE] \in Props
BY DEF Moves, Bare, Events, Props

LEMMA OtherCases ==
    ASSUME NEW n \in AudioNodes, NEW p \in Props, audioEvents \in Seq(Events), OtherWrites(n, p)
    PROVE  \/ /\ n \in DOMAIN bindings /\ bindings[n].subscribed
              /\ Param(n, p, NoRequest) \in Events
              /\ audioEvents' = Append(audioEvents, Param(n, p, NoRequest))
           \/ /\ ~(n \in DOMAIN bindings /\ bindings[n].subscribed)
              /\ audioEvents' = audioEvents
<1>1. CASE n \in DOMAIN bindings /\ bindings[n].subscribed
  <2>1. Param(n, p, NoRequest) \in Events
    BY ParamParts
  <2>2. audioEvents' = audioEvents \o <<Param(n, p, NoRequest)>>
    BY <1>1, Zenon DEF OtherWrites
  <2> QED BY <1>1, <2>1, <2>2, AppendIsConcat
<1>2. CASE ~(n \in DOMAIN bindings /\ bindings[n].subscribed)
  <2>1. audioEvents' = audioEvents \o <<>>
    BY <1>2, Zenon DEF OtherWrites
  <2> QED BY <1>2, <2>1, ConcatEmptySeq
<1> QED BY <1>1, <1>2

LEMMA ChangeType ==
    ASSUME AudioTypeOK, PipeWireChanges
    PROVE  AudioTypeOK'
<1>1. /\ audioChanges' = audioChanges + 1
      /\ UNCHANGED <<helperReady, knownNodes, roles, bindings, requests, roleShown, newest,
                     overtaken, audioCommands>>
  BY ChangeCases, Zenon
<1>2. nodeProps \in Partial(AudioNodes, Props) /\ audioEvents \in Seq(Events)
      /\ DOMAIN nodeProps \in SUBSET AudioNodes
  BY PartialParts DEF AudioTypeOK
<1>3. nodeProps' \in Partial(AudioNodes, Props) /\ audioEvents' \in Seq(Events)
      /\ connected' \in BOOLEAN
  <2>1. CASE \E n \in DOMAIN nodeProps : \E p \in Props : OtherWrites(n, p)
    <3>1. PICK n \in DOMAIN nodeProps : \E p \in Props : OtherWrites(n, p)
      BY <2>1
    <3>2. PICK p \in Props : OtherWrites(n, p)
      BY <3>1
    <3>3. n \in AudioNodes
      BY <1>2
    <3>4. nodeProps' \in Partial(AudioNodes, Props)
      BY <1>2, <3>2, ChangedPartial DEF OtherWrites
    <3>5. ASSUME NEW e \in Events  PROVE  Append(audioEvents, e) \in Seq(Events)
      BY <1>2, AppendProperties
    <3>6. audioEvents' \in Seq(Events)
      BY <1>2, <3>2, <3>3, <3>5, OtherCases, Zenon
    <3> QED BY <3>2, <3>4, <3>6 DEF OtherWrites, AudioTypeOK
  <2>2. CASE \E n \in DOMAIN nodeProps : NodeGoes(n)
    <3>1. PICK n \in DOMAIN nodeProps : NodeGoes(n)
      BY <2>2
    <3>2. [type |-> "remove", node |-> n] \in Events
      BY <1>2, MovePart
    <3> QED BY <1>2, <3>1, <3>2, OmitPartial, AppendProperties DEF NodeGoes, AudioTypeOK
  <2>3. CASE \E n \in AudioNodes \ (DOMAIN nodeProps \cup knownNodes) : NodeComes(n)
    <3>1. PICK n \in AudioNodes : NodeComes(n)
      BY <2>3
    <3>2. [type |-> "global", node |-> n] \in Events /\ [level |-> 0, muted |-> FALSE] \in Props
      BY MovePart
    <3> QED BY <1>2, <3>1, <3>2, AddedPartial, AppendProperties DEF NodeComes, AudioTypeOK
  <2>4. CASE ConnectionLost
    <3>1. [type |-> "error"] \in Events
      BY DEF Bare, Events
    <3> QED BY <1>2, <2>4, <3>1, AppendProperties DEF ConnectionLost
  <2> QED BY <2>1, <2>2, <2>3, <2>4, ChangeCases, Zenon
<1> QED BY <1>1, <1>3 DEF AudioTypeOK, requests

LEMMA InitType ==
    ASSUME AudioInit
    PROVE  AudioTypeOK
<1>1. PICK S \in SUBSET AudioNodes : nodeProps = [n \in S |-> [level |-> 0, muted |-> FALSE]]
  BY DEF AudioInit
<1>2. [level |-> 0, muted |-> FALSE] \in Props
  BY DEF Props
<1>3. nodeProps \in Partial(AudioNodes, Props)
  <2>1. nodeProps \in [S -> Props]
    BY <1>1, <1>2
  <2> QED BY <2>1, IsPartial
<1>4. bindings \in Partial(AudioNodes, Bindings)
  BY EmptyPartial DEF AudioInit
<1>5. knownNodes \in SUBSET AudioNodes
  BY <1>1 DEF AudioInit
<1>6. audioEvents \in Seq(Events)
  <2>1. Done(NoRequest) \in Events
    BY DoneParts
  <2>2. audioEvents = <<Done(NoRequest)>>
    BY Zenon DEF AudioInit, Done
  <2> QED BY <2>1, <2>2
<1>7. roles \in [Roles -> RoleStates] /\ roleShown \in [Roles -> Lines]
  BY UntrackedParts, NothingType DEF AudioInit
<1> QED BY <1>3, <1>4, <1>5, <1>6, <1>7 DEF AudioInit, AudioTypeOK

LEMMA TypeStep ==
    ASSUME AudioBounds, AudioTypeOK, [AudioNext]_audioVars
    PROVE  AudioTypeOK'
<1>1. CASE HandleAudioCommand  BY <1>1, CommandType
<1>2. CASE OnReady  BY <1>2, OnReadyType
<1>3. CASE OnCoreDone  BY <1>3, OnCoreDoneType
<1>4. CASE OnRegistryGlobal  BY <1>4, OnRegistryGlobalType
<1>5. CASE OnRegistryGlobalRemove  BY <1>5, OnRegistryGlobalRemoveType
<1>6. CASE OnNodeInfo  BY <1>6, OnNodeInfoType
<1>7. CASE OnNodeParam  BY <1>7, OnNodeParamType
<1>8. CASE OnDestroyedProxy  BY <1>8, OnDestroyedProxyType
<1>9. CASE OnCoreError  BY <1>9, OnCoreErrorType
<1>10. CASE PipeWireChanges  BY <1>10, ChangeType
<1>11. CASE UNCHANGED audioVars
  BY <1>11 DEF audioVars, audioServer, requests, AudioTypeOK
<1> QED BY <1>1, <1>2, <1>3, <1>4, <1>5, <1>6, <1>7, <1>8, <1>9, <1>10, <1>11
        DEF AudioNext, OnAudioEvent
-----------------------------------------------------------------------------
(* What the helper will have heard of a node, as events come and go.        *)
LEMMA SaysSame ==
    ASSUME NEW E, NEW F, NEW known, NEW n, NEW k \in Nat, NEW v, Says(E, known, n, k, v),
           \A j \in 1..(k - 1) : /\ IsParam(F[j], n) = IsParam(E[j], n)
                                 /\ IsParam(E[j], n) => F[j].props = E[j].props
    PROVE  Says(F, known, n, k, v)
<1>1. CASE known = v /\ \A j \in 1..(k - 1) : ~IsParam(E[j], n)
  BY <1>1 DEF Says
<1>2. CASE \E i \in 1..(k - 1) : /\ IsParam(E[i], n) /\ E[i].props = v
                                 /\ \A j \in (i + 1)..(k - 1) : ~IsParam(E[j], n)
  <2>1. PICK i \in 1..(k - 1) : /\ IsParam(E[i], n) /\ E[i].props = v
                                /\ \A j \in (i + 1)..(k - 1) : ~IsParam(E[j], n)
    BY <1>2
  <2>2. \A j \in (i + 1)..(k - 1) : j \in 1..(k - 1)
    OBVIOUS
  <2>3. /\ IsParam(F[i], n) /\ F[i].props = v
        /\ \A j \in (i + 1)..(k - 1) : ~IsParam(F[j], n)
    BY <2>1, <2>2
  <2> QED BY <2>3 DEF Says
<1> QED BY <1>1, <1>2 DEF Says

LEMMA SaysFurther ==
    ASSUME NEW E, NEW known, NEW n, NEW k \in Nat, NEW m \in Nat, NEW v, k <= m,
           Says(E, known, n, k, v), \A j \in k..(m - 1) : ~IsParam(E[j], n)
    PROVE  Says(E, known, n, m, v)
<1>1. CASE known = v /\ \A j \in 1..(k - 1) : ~IsParam(E[j], n)
  <2>1. \A j \in 1..(m - 1) : j \in 1..(k - 1) \/ j \in k..(m - 1)
    OBVIOUS
  <2> QED BY <1>1, <2>1 DEF Says
<1>2. CASE \E i \in 1..(k - 1) : /\ IsParam(E[i], n) /\ E[i].props = v
                                 /\ \A j \in (i + 1)..(k - 1) : ~IsParam(E[j], n)
  <2>1. PICK i \in 1..(k - 1) : /\ IsParam(E[i], n) /\ E[i].props = v
                                /\ \A j \in (i + 1)..(k - 1) : ~IsParam(E[j], n)
    BY <1>2
  <2>2. i \in 1..(m - 1) /\ \A j \in (i + 1)..(m - 1) : j \in (i + 1)..(k - 1) \/ j \in k..(m - 1)
    OBVIOUS
  <2>3. \A j \in (i + 1)..(m - 1) : ~IsParam(E[j], n)
    BY <2>1, <2>2
  <2> QED BY <2>1, <2>2, <2>3 DEF Says
<1> QED BY <1>1, <1>2 DEF Says

LEMMA SaysLast ==
    ASSUME NEW E, NEW known, NEW n, NEW k \in Nat \ {0}, IsParam(E[k], n)
    PROVE  Says(E, known, n, k + 1, E[k].props)
<1>1. k \in 1..((k + 1) - 1) /\ (k + 1)..((k + 1) - 1) = {}
  OBVIOUS
<1> QED BY <1>1 DEF Says

LEMMA SaysFirst ==
    ASSUME NEW E, NEW known, NEW n, NEW v
    PROVE  Says(E, known, n, 1, v) <=> known = v
<1>1. 1..(1 - 1) = {}
  OBVIOUS
<1> QED BY <1>1 DEF Says

LEMMA SaysTail ==
    ASSUME NEW E \in Seq(Events), E # <<>>, NEW known, NEW n, NEW k \in 2..(Len(E) + 1), NEW v,
           Says(E, known, n, k, v)
    PROVE  Says(Tail(E), IF IsParam(Head(E), n) THEN Head(E).props ELSE known, n, k - 1, v)
<1> DEFINE F == Tail(E)
           heard == IF IsParam(Head(E), n) THEN Head(E).props ELSE known
<1>1. Len(E) \in Nat \ {0} /\ Head(E) = E[1]
  OBVIOUS
<1>2. \A j \in 2..Len(E) : F[j - 1] = E[j]
  OBVIOUS
<1>3. \A j \in 1..((k - 1) - 1) : j + 1 \in 2..Len(E) /\ j + 1 \in 1..(k - 1) /\ (j + 1) - 1 = j
  BY <1>1
<1>4. \A j \in 1..((k - 1) - 1) : F[j] = E[j + 1]
  <2> TAKE j \in 1..((k - 1) - 1)
  <2>1. j + 1 \in 2..Len(E) /\ (j + 1) - 1 = j
    BY <1>3
  <2>2. F[(j + 1) - 1] = E[j + 1]
    BY <1>2, <2>1
  <2> QED BY <2>1, <2>2
<1> HIDE DEF F
<1>5. CASE known = v /\ \A j \in 1..(k - 1) : ~IsParam(E[j], n)
  <2>1. heard = v
    <3>1. 1 \in 1..(k - 1) OBVIOUS
    <3> QED BY <1>1, <1>5, <3>1
  <2>2. \A j \in 1..((k - 1) - 1) : ~IsParam(F[j], n)
    BY <1>3, <1>4, <1>5
  <2> QED BY <2>1, <2>2 DEF Says, F
<1>6. CASE \E i \in 1..(k - 1) : /\ IsParam(E[i], n) /\ E[i].props = v
                                 /\ \A j \in (i + 1)..(k - 1) : ~IsParam(E[j], n)
  <2>1. PICK i \in 1..(k - 1) : /\ IsParam(E[i], n) /\ E[i].props = v
                                /\ \A j \in (i + 1)..(k - 1) : ~IsParam(E[j], n)
    BY <1>6
  <2>2. CASE i = 1
    <3>1. heard = v
      BY <2>1, <2>2, <1>1
    <3>2. \A j \in 1..((k - 1) - 1) : j + 1 \in (i + 1)..(k - 1)
      BY <2>2
    <3>3. \A j \in 1..((k - 1) - 1) : ~IsParam(F[j], n)
      BY <1>4, <2>1, <3>2
    <3> QED BY <3>1, <3>3 DEF Says, F
  <2>3. CASE i # 1
    <3>1. i - 1 \in 1..((k - 1) - 1) /\ (i - 1) + 1 = i
      BY <2>3
    <3>2. F[i - 1] = E[i]
      <4>1. F[i - 1] = E[(i - 1) + 1]
        BY <1>4, <3>1
      <4> QED BY <4>1, <3>1
    <3>3. \A j \in ((i - 1) + 1)..((k - 1) - 1) : j + 1 \in (i + 1)..(k - 1) /\ j \in 1..((k - 1) - 1)
      BY <3>1
    <3>4. \A j \in ((i - 1) + 1)..((k - 1) - 1) : ~IsParam(F[j], n)
      BY <1>4, <2>1, <3>3
    <3>5. IsParam(F[i - 1], n) /\ F[i - 1].props = v
      BY <2>1, <3>2
    <3> QED BY <3>1, <3>4, <3>5 DEF Says, F
  <2> QED BY <2>2, <2>3
<1> QED BY <1>5, <1>6 DEF Says
-----------------------------------------------------------------------------
(* What is on its way stays sound: when an event is sent,                   *)
LEMMA AppendIndex ==
    ASSUME NEW E \in Seq(Events), NEW e \in Events
    PROVE  /\ Append(E, e) \in Seq(Events)
           /\ Len(Append(E, e)) = Len(E) + 1 /\ Len(E) \in Nat
           /\ \A i \in 1..Len(E) : Append(E, e)[i] = E[i]
           /\ Append(E, e)[Len(E) + 1] = e
           /\ \A i \in 1..Len(Append(E, e)) : i \in 1..Len(E) \/ i = Len(E) + 1
OBVIOUS

SendSound(E, e, B, P, Y, N) ==
    /\ e.type \in {"info", "param"} => e.node \in DOMAIN B
    /\ e.type = "param" /\ e.node \in DOMAIN P /\ B[e.node].subscribed => e.props = P[e.node]
    /\ IsAnswer(e) => /\ e.request.node = e.node
                      /\ Says(E, B[e.node].props, e.node, Len(E) + 1, e.props)
                      /\ e.request \notin Y
    /\ e.type \in {"param", "done"} /\ e.request # NoRequest => e.request.id <= N[<<e.request.role, e.request.op>>]
    /\ e.type # "error"

LEMMA QueueSend ==
    ASSUME NEW E \in Seq(Events), NEW e \in Events, NEW B, NEW P, NEW Y, NEW A, NEW N, NEW n,
           QueueSound(E, B, P, Y, A, N, n), SendSound(E, e, B, P, Y, N)
    PROVE  QueueSound(Append(E, e), B, P, Y, A, N, n)
<1> DEFINE F == Append(E, e)
<1>1. /\ Len(F) = Len(E) + 1 /\ Len(E) \in Nat
      /\ \A i \in 1..Len(E) : F[i] = E[i]
      /\ F[Len(E) + 1] = e
      /\ \A i \in 1..Len(F) : i \in 1..Len(E) \/ i = Len(E) + 1
  BY AppendIndex
<1>2. \A i \in 1..Len(E) : i \in 1..Len(F)
  BY <1>1
<1>s. /\ e.type \in {"info", "param"} => e.node \in DOMAIN B
      /\ e.type = "param" /\ e.node \in DOMAIN P /\ B[e.node].subscribed => e.props = P[e.node]
      /\ e.type # "error"
  BY Zenon DEF SendSound
<1>t. IsAnswer(e) => /\ e.request.node = e.node
                     /\ Says(E, B[e.node].props, e.node, Len(E) + 1, e.props)
                     /\ e.request \notin Y
  BY Zenon DEF SendSound
<1> HIDE DEF F
<1>3. InfoComes(F, B)
  <2>1. ASSUME NEW m \in DOMAIN B, ~B[m].subscribed
        PROVE  \E i \in 1..Len(F) : IsInfo(F[i], m)
    <3>1. PICK i \in 1..Len(E) : IsInfo(E[i], m)
      BY <2>1 DEF QueueSound, InfoComes
    <3> QED BY <1>1, <1>2, <3>1
  <2> QED BY <2>1 DEF InfoComes
<1>4. ChangesCome(F, B, P)
  <2>1. ASSUME NEW m \in DOMAIN B, m \in DOMAIN P, B[m].subscribed
        PROVE  Says(F, B[m].props, m, Len(F) + 1, P[m])
    <3>1. Says(E, B[m].props, m, Len(E) + 1, P[m])
      BY <2>1 DEF QueueSound, ChangesCome
    <3>2. Says(F, B[m].props, m, Len(E) + 1, P[m])
      <4>1. Len(E) + 1 \in Nat /\ \A j \in 1..((Len(E) + 1) - 1) : F[j] = E[j]
        BY <1>1
      <4> QED BY <3>1, <4>1, SaysSame
    <3>3. CASE IsParam(e, m)
      <4>1. e.props = P[m]
        BY <1>s, <2>1, <3>3 DEF IsParam
      <4>2. IsParam(F[Len(E) + 1], m) /\ F[Len(E) + 1].props = P[m] /\ Len(E) + 1 \in Nat \ {0}
        BY <1>1, <3>3, <4>1
      <4>3. Says(F, B[m].props, m, (Len(E) + 1) + 1, F[Len(E) + 1].props)
        BY <4>2, SaysLast
      <4> QED BY <1>1, <4>2, <4>3
    <3>4. CASE ~IsParam(e, m)
      <4>1. Len(E) + 1 \in Nat /\ Len(F) + 1 \in Nat /\ Len(E) + 1 <= Len(F) + 1
            /\ \A j \in (Len(E) + 1)..((Len(F) + 1) - 1) : j = Len(E) + 1
        BY <1>1
      <4>2. \A j \in (Len(E) + 1)..((Len(F) + 1) - 1) : ~IsParam(F[j], m)
        BY <1>1, <3>4, <4>1
      <4> QED BY <3>2, <4>1, <4>2, SaysFurther
    <3> QED BY <3>3, <3>4
  <2> QED BY <2>1 DEF ChangesCome
<1>5. ForBound(F, B)
  <2>1. ASSUME NEW i \in 1..Len(F), F[i].type \in {"info", "param"}
        PROVE  F[i].node \in DOMAIN B
    BY <1>1, <1>s, <2>1 DEF QueueSound, ForBound
  <2> QED BY <2>1 DEF ForBound
<1>6. AnswersRepeat(F, B)
  <2>1. ASSUME NEW i \in 1..Len(F), IsAnswer(F[i])
        PROVE  /\ F[i].request.node = F[i].node
               /\ Says(F, B[F[i].node].props, F[i].node, i, F[i].props)
    <3>0. PICK G : G = E /\ (\A j \in 1..(i - 1) : F[j] = G[j]) /\ F[i].request.node = F[i].node
                   /\ Says(G, B[F[i].node].props, F[i].node, i, F[i].props)
      <4>1. CASE i \in 1..Len(E)
        <5>1. F[i] = E[i] /\ \A j \in 1..(i - 1) : F[j] = E[j]
          BY <1>1, <4>1
        <5>2. E[i].request.node = E[i].node /\ Says(E, B[E[i].node].props, E[i].node, i, E[i].props)
          BY <2>1, <4>1, <5>1 DEF QueueSound, AnswersRepeat
        <5> QED BY <5>1, <5>2
      <4>2. CASE i = Len(E) + 1
        <5>1. F[i] = e /\ \A j \in 1..(i - 1) : F[j] = E[j]
          BY <1>1, <4>2
        <5>2. e.request.node = e.node /\ Says(E, B[e.node].props, e.node, i, e.props)
          BY <1>t, <2>1, <4>2, <5>1
        <5> QED BY <5>1, <5>2
      <4> QED BY <1>1, <4>1, <4>2
    <3>1. i \in Nat
      BY <1>1
    <3> QED BY <3>0, <3>1, SaysSame
  <2> QED BY <2>1 DEF AnswersRepeat
<1>7. AnswersCome(F, P, A)
  <2>1. ASSUME NEW q \in A, q.node \in DOMAIN P
        PROVE  \E i \in 1..Len(F) : IsAnswer(F[i]) /\ F[i].request = q
    <3>1. PICK i \in 1..Len(E) : IsAnswer(E[i]) /\ E[i].request = q
      BY <2>1 DEF QueueSound, AnswersCome
    <3> QED BY <1>1, <1>2, <3>1
  <2> QED BY <2>1 DEF AnswersCome
<1>8. NotAnswered(F, Y)
  <2>1. ASSUME NEW i \in 1..Len(F), IsAnswer(F[i])
        PROVE  F[i].request \notin Y
    BY <1>1, <1>t, <2>1 DEF QueueSound, NotAnswered
  <2> QED BY <2>1 DEF NotAnswered
<1>9. InfoFirst(F, B, Y)
  <2>1. ASSUME NEW i \in 1..Len(F), F[i].type = "done", F[i].request \in Y,
               F[i].request.node \in DOMAIN B, ~B[F[i].request.node].subscribed
        PROVE  \E j \in 1..(i - 1) : IsInfo(F[j], F[i].request.node)
    <3>1. CASE i \in 1..Len(E)
      <4>1. F[i] = E[i] /\ \A j \in 1..(i - 1) : F[j] = E[j]
        BY <1>1, <3>1
      <4>2. \E j \in 1..(i - 1) : IsInfo(E[j], E[i].request.node)
        BY <2>1, <3>1, <4>1 DEF QueueSound, InfoFirst
      <4> QED BY <4>1, <4>2
    <3>2. CASE i = Len(E) + 1
      <4>1. PICK j \in 1..Len(E) : IsInfo(E[j], F[i].request.node)
        BY <2>1 DEF QueueSound, InfoComes
      <4>2. j \in 1..(i - 1) /\ F[j] = E[j]
        BY <1>1, <3>2
      <4> QED BY <4>1, <4>2
    <3> QED BY <1>1, <3>1, <3>2
  <2> QED BY <2>1 DEF InfoFirst
<1>10. Processed(F, Y \cup A, N)
  <2>1. ASSUME NEW i \in 1..Len(F), F[i].type \in {"param", "done"}, F[i].request # NoRequest
        PROVE  F[i].request.id <= N[<<F[i].request.role, F[i].request.op>>]
    <3>1. CASE i \in 1..Len(E)
      <4>1. F[i] = E[i] BY <1>1, <3>1
      <4> QED BY <2>1, <3>1, <4>1, Zenon DEF QueueSound, Processed
    <3>2. CASE i = Len(E) + 1
      <4>1. F[i] = e BY <1>1, <3>2
      <4> QED BY <2>1, <4>1, Zenon DEF SendSound
    <3>3. i \in 1..Len(E) \/ i = Len(E) + 1
      BY <1>1
    <3> QED BY <3>1, <3>2, <3>3, Zenon
  <2>2. \A q \in Y \cup A : q.id <= N[<<q.role, q.op>>]
    BY Zenon DEF QueueSound, Processed
  <2> QED BY <2>1, <2>2, Zenon DEF Processed
<1>11. NoError(F)
  <2>1. ASSUME NEW i \in 1..Len(F)
        PROVE  F[i].type # "error"
    BY <1>1, <1>s, <2>1 DEF QueueSound, NoError
  <2> QED BY <2>1 DEF NoError
<1>12. RequestsBound(Y \cup A, B, n)
  BY DEF QueueSound
<1> QED BY <1>3, <1>4, <1>5, <1>6, <1>7, <1>8, <1>9, <1>10, <1>11, <1>12, Zenon DEF QueueSound, F
(* when one comes in and the helper takes note of it,                       *)
Heard(h, B2, B) ==
    /\ DOMAIN B2 = DOMAIN B
    /\ \A m \in DOMAIN B :
          /\ B2[m].props = IF IsParam(h, m) THEN h.props ELSE B[m].props
          /\ B2[m].subscribed <=> B[m].subscribed \/ IsInfo(h, m)

LEMMA QueueTake ==
    ASSUME NEW E \in Seq(Events), E # <<>>, NEW B, NEW P, NEW Y, NEW A, NEW N, NEW n,
           QueueSound(E, B, P, Y, A, N, n), NEW B2, Heard(Head(E), B2, B), NEW A2 \in SUBSET A,
           \A m \in DOMAIN B : m \in DOMAIN P /\ IsInfo(Head(E), m)
                               => Says(E, B[m].props, m, Len(E) + 1, P[m]),
           IsAnswer(Head(E)) => Head(E).request \notin A2
    PROVE  QueueSound(Tail(E), B2, P, Y, A2, N, n)
<1> DEFINE F == Tail(E)
           h == Head(E)
<1>1. /\ F \in Seq(Events) /\ Len(E) \in Nat \ {0} /\ Len(F) = Len(E) - 1 /\ h = E[1]
      /\ \A i \in 1..Len(F) : F[i] = E[i + 1] /\ i + 1 \in 1..Len(E)
      /\ \A i \in 1..Len(E) : i # 1 => i - 1 \in 1..Len(F) /\ F[i - 1] = E[i]
  OBVIOUS
<1>2. DOMAIN B2 = DOMAIN B
  BY Zenon DEF Heard
<1>3. \A m \in DOMAIN B : /\ B2[m].props = IF IsParam(h, m) THEN h.props ELSE B[m].props
                          /\ B2[m].subscribed <=> B[m].subscribed \/ IsInfo(h, m)
  BY Zenon DEF Heard
<1>4. ASSUME NEW m \in DOMAIN B, NEW k \in 2..(Len(E) + 1), NEW v, Says(E, B[m].props, m, k, v)
      PROVE  Says(F, B2[m].props, m, k - 1, v)
  <2>1. Says(F, IF IsParam(h, m) THEN h.props ELSE B[m].props, m, k - 1, v)
    BY <1>4, SaysTail
  <2> QED BY <1>3, <2>1, Zenon
<1>z. h = Head(E)
  OBVIOUS
<1> HIDE DEF F, h
<1>5. InfoComes(F, B2)
  <2>1. ASSUME NEW m \in DOMAIN B, ~B2[m].subscribed
        PROVE  \E i \in 1..Len(F) : IsInfo(F[i], m)
    <3>1. ~B[m].subscribed /\ ~IsInfo(E[1], m)
      BY <1>1, <1>3, <2>1
    <3>2. PICK i \in 1..Len(E) : IsInfo(E[i], m)
      BY <3>1 DEF QueueSound, InfoComes
    <3>3. i # 1
      BY <3>1, <3>2
    <3>4. i - 1 \in 1..Len(F) /\ F[i - 1] = E[i]
      BY <1>1, <3>3
    <3> QED BY <3>2, <3>4
  <2> QED BY <1>2, <2>1 DEF InfoComes
<1>6. ChangesCome(F, B2, P)
  <2>1. ASSUME NEW m \in DOMAIN B, m \in DOMAIN P, B2[m].subscribed
        PROVE  Says(F, B2[m].props, m, Len(F) + 1, P[m])
    <3>1. B[m].subscribed \/ IsInfo(h, m)
      BY <1>3, <2>1
    <3>2. Says(E, B[m].props, m, Len(E) + 1, P[m])
      BY <1>z, <2>1, <3>1 DEF QueueSound, ChangesCome
    <3>3. Len(E) + 1 \in 2..(Len(E) + 1) /\ (Len(E) + 1) - 1 = Len(F) + 1
      BY <1>1
    <3>4. Says(F, B2[m].props, m, (Len(E) + 1) - 1, P[m])
      BY <1>4, <3>2, <3>3
    <3> QED BY <3>3, <3>4
  <2> QED BY <1>2, <2>1 DEF ChangesCome
<1>7. ForBound(F, B2)
  BY <1>1, <1>2 DEF QueueSound, ForBound
<1>8. AnswersRepeat(F, B2)
  <2>1. ASSUME NEW i \in 1..Len(F), IsAnswer(F[i])
        PROVE  /\ F[i].request.node = F[i].node
               /\ Says(F, B2[F[i].node].props, F[i].node, i, F[i].props)
    <3>1. F[i] = E[i + 1] /\ i + 1 \in 1..Len(E)
      BY <1>1
    <3>2. E[i + 1].request.node = E[i + 1].node
          /\ Says(E, B[E[i + 1].node].props, E[i + 1].node, i + 1, E[i + 1].props)
      BY <2>1, <3>1 DEF QueueSound, AnswersRepeat
    <3>3. E[i + 1].node \in DOMAIN B
      BY <2>1, <3>1 DEF QueueSound, ForBound, IsAnswer
    <3>4. i + 1 \in 2..(Len(E) + 1) /\ (i + 1) - 1 = i
      BY <3>1
    <3>5. Says(F, B2[E[i + 1].node].props, E[i + 1].node, (i + 1) - 1, E[i + 1].props)
      BY <1>4, <3>2, <3>3, <3>4
    <3> QED BY <3>1, <3>2, <3>4, <3>5
  <2> QED BY <2>1 DEF AnswersRepeat
<1>9. AnswersCome(F, P, A2)
  <2>1. ASSUME NEW q \in A2, q.node \in DOMAIN P
        PROVE  \E i \in 1..Len(F) : IsAnswer(F[i]) /\ F[i].request = q
    <3>1. PICK i \in 1..Len(E) : IsAnswer(E[i]) /\ E[i].request = q
      BY <2>1 DEF QueueSound, AnswersCome
    <3>2. i # 1
      BY <1>1, <1>z, <2>1, <3>1
    <3>3. i - 1 \in 1..Len(F) /\ F[i - 1] = E[i]
      BY <1>1, <3>2
    <3> QED BY <3>1, <3>3
  <2> QED BY <2>1 DEF AnswersCome
<1>10. NotAnswered(F, Y)
  BY <1>1 DEF QueueSound, NotAnswered
<1>11. InfoFirst(F, B2, Y)
  <2>1. ASSUME NEW i \in 1..Len(F), F[i].type = "done", F[i].request \in Y,
               F[i].request.node \in DOMAIN B2, ~B2[F[i].request.node].subscribed
        PROVE  \E j \in 1..(i - 1) : IsInfo(F[j], F[i].request.node)
    <3>1. F[i] = E[i + 1] /\ i + 1 \in 1..Len(E)
      BY <1>1
    <3>2. ~B[F[i].request.node].subscribed /\ ~IsInfo(E[1], F[i].request.node)
      BY <1>1, <1>2, <1>3, <2>1
    <3>3. PICK j \in 1..((i + 1) - 1) : IsInfo(E[j], F[i].request.node)
      BY <1>2, <2>1, <3>1, <3>2 DEF QueueSound, InfoFirst
    <3>4. j # 1
      BY <3>2, <3>3
    <3>5. j - 1 \in 1..(i - 1) /\ F[j - 1] = E[j]
      BY <1>1, <3>4
    <3> QED BY <3>3, <3>5
  <2> QED BY <2>1 DEF InfoFirst
<1>12. Processed(F, Y \cup A2, N)
  <2>1. ASSUME NEW i \in 1..Len(F), F[i].type \in {"param", "done"}, F[i].request # NoRequest
        PROVE  F[i].request.id <= N[<<F[i].request.role, F[i].request.op>>]
    <3>1. F[i] = E[i + 1] /\ i + 1 \in 1..Len(E)
      BY <1>1
    <3> QED BY <2>1, <3>1, Zenon DEF QueueSound, Processed
  <2>2. \A q \in Y \cup A2 : q.id <= N[<<q.role, q.op>>]
    <3>1. \A q \in Y \cup A2 : q \in Y \cup A
      OBVIOUS
    <3> QED BY <3>1, Zenon DEF QueueSound, Processed
  <2> QED BY <2>1, <2>2, Zenon DEF Processed
<1>13. RequestsBound(Y \cup A2, B2, n)
  BY <1>2 DEF QueueSound, RequestsBound
<1>14. NoError(F)
  BY <1>1 DEF QueueSound, NoError
<1> QED BY <1>5, <1>6, <1>7, <1>8, <1>9, <1>10, <1>11, <1>12, <1>13, <1>14, Zenon DEF QueueSound, F

(* when requests are dropped, commands are counted, or nodes the helper has *)
(* not bound come and bound ones go,                                        *)
LEMMA QueueLater ==
    ASSUME NEW E \in Seq(Events), NEW B, NEW P, NEW Y \in SUBSET Requests, NEW A \in SUBSET Requests,
           NEW N, NEW n \in Nat,
           QueueSound(E, B, P, Y, A, N, n), NEW P2, NEW Y2 \in SUBSET Y, NEW A2 \in SUBSET A,
           NEW m \in Nat, n <= m,
           \A x \in DOMAIN B : x \in DOMAIN P2 => x \in DOMAIN P /\ P2[x] = P[x]
    PROVE  QueueSound(E, B, P2, Y2, A2, N, m)
<1>1. InfoComes(E, B) /\ ForBound(E, B) /\ AnswersRepeat(E, B) /\ NoError(E)
  BY DEF QueueSound
<1>2. ChangesCome(E, B, P2)
  BY DEF QueueSound, ChangesCome
<1>3. AnswersCome(E, P2, A2)
  <2>1. \A q \in A2 : q.node \in DOMAIN B
    BY DEF QueueSound, RequestsBound
  <2> QED BY <2>1 DEF QueueSound, AnswersCome
<1>4. NotAnswered(E, Y2)
  BY DEF QueueSound, NotAnswered
<1>5. InfoFirst(E, B, Y2)
  BY DEF QueueSound, InfoFirst
<1>6. Processed(E, Y2 \cup A2, N)
  <2>1. \A q \in Y2 \cup A2 : q \in Y \cup A
    OBVIOUS
  <2> QED BY <2>1, Zenon DEF QueueSound, Processed
<1>7. RequestsBound(Y2 \cup A2, B, m)
  <2>1. \A q \in Y2 \cup A2 : q \in Y \cup A /\ q.generation \in Nat
    BY RequestParts
  <2>2. \A q \in Y2 \cup A2 : q.node \in DOMAIN B /\ q.generation <= n
    BY <2>1 DEF QueueSound, RequestsBound
  <2> QED BY <2>1, <2>2 DEF RequestsBound
<1> QED BY <1>1, <1>2, <1>3, <1>4, <1>5, <1>6, <1>7, Zenon DEF QueueSound
(* when PipeWire has processed a request and is asked for what it made,     *)
LEMMA QueueAnswer ==
    ASSUME NEW E \in Seq(Events), NEW B, NEW P \in Partial(AudioNodes, Props),
           NEW Y \in SUBSET Requests, NEW A \in SUBSET Requests, NEW N, NEW n \in Nat,
           QueueSound(E, B, P, Y, A, N, n), NEW q \in Y, B[q.node].subscribed,
           NEW F, \/ q.node \notin DOMAIN P /\ F = E
                  \/ q.node \in DOMAIN P /\ F = Append(E, Param(q.node, P[q.node], q))
    PROVE  QueueSound(F, B, P, Y \ {q}, A \cup {q}, N, n)
<1>1. q \in Requests /\ q.node \in AudioNodes /\ q # NoRequest
  BY RequestParts
<1>2. q.node \in DOMAIN B /\ q.generation <= n
  BY DEF QueueSound, RequestsBound
<1>3. q.id <= N[<<q.role, q.op>>]
  <2>1. q \in Y \cup A OBVIOUS
  <2> QED BY <2>1, Zenon DEF QueueSound, Processed
<1>4. QueueSound(E, B, P, Y \ {q}, A, N, n)
  <2>1. (Y \ {q}) \in SUBSET Y /\ A \in SUBSET A /\ n <= n
    OBVIOUS
  <2> QED BY <2>1, QueueLater
<1>5. QueueSound(F, B, P, Y \ {q}, A, N, n)
      /\ (q.node \in DOMAIN P => \E i \in 1..Len(F) : IsAnswer(F[i]) /\ F[i].request = q)
  <2>1. CASE q.node \notin DOMAIN P /\ F = E
    BY <1>4, <2>1
  <2>2. CASE q.node \in DOMAIN P /\ F = Append(E, Param(q.node, P[q.node], q))
    <3> DEFINE e == Param(q.node, P[q.node], q)
    <3>1. P[q.node] \in Props
      BY <2>2, PartialParts
    <3>2. /\ e \in Events /\ e.type = "param" /\ e.node = q.node
          /\ e.props = P[q.node] /\ e.request = q
      BY <1>1, <3>1, ParamParts
    <3>3. Says(E, B[q.node].props, q.node, Len(E) + 1, P[q.node])
      BY <1>2, <2>2 DEF QueueSound, ChangesCome
    <3>4. F = Append(E, e)
      BY <2>2
    <3> HIDE DEF e
    <3>5. IsAnswer(e)
      BY <1>1, <3>2 DEF IsAnswer
    <3>6. SendSound(E, e, B, P, Y \ {q}, N)
      <4>1. e.request \notin Y \ {q}
        BY <3>2
      <4>2. e.type # "error"
        BY <3>2
      <4> QED BY <1>2, <1>3, <3>2, <3>3, <4>1, <4>2, Zenon DEF SendSound
    <3>7. QueueSound(F, B, P, Y \ {q}, A, N, n)
      BY <1>4, <3>2, <3>4, <3>6, QueueSend
    <3>8. F[Len(E) + 1] = e /\ Len(E) + 1 \in 1..Len(F)
      BY <3>2, <3>4
    <3> QED BY <3>2, <3>5, <3>7, <3>8
  <2> QED BY <2>1, <2>2
<1>6. AnswersCome(F, P, A \cup {q})
  BY <1>5 DEF QueueSound, AnswersCome
<1>7. Processed(F, (Y \ {q}) \cup (A \cup {q}), N)
  <2>1. \A p \in (Y \ {q}) \cup (A \cup {q}) : p = q \/ p \in (Y \ {q}) \cup A
    OBVIOUS
  <2> QED BY <1>3, <1>5, <2>1, Zenon DEF QueueSound, Processed
<1>8. RequestsBound((Y \ {q}) \cup (A \cup {q}), B, n)
  BY <1>2, <1>5 DEF QueueSound, RequestsBound
<1> QED BY <1>5, <1>6, <1>7, <1>8, Zenon DEF QueueSound

(* when somebody changes a node, which is told to the helper if it listens, *)
LEMMA QueueWrite ==
    ASSUME NEW E \in Seq(Events), NEW B, NEW P \in Partial(AudioNodes, Props),
           NEW Y \in SUBSET Requests, NEW A \in SUBSET Requests, NEW N, NEW n \in Nat,
           QueueSound(E, B, P, Y, A, N, n), NEW m \in DOMAIN P, NEW v \in Props,
           NEW F, \/ m \in DOMAIN B /\ B[m].subscribed /\ F = Append(E, Param(m, v, NoRequest))
                  \/ F = E /\ (v = P[m] \/ ~(m \in DOMAIN B /\ B[m].subscribed))
                  \/ m \in DOMAIN B /\ F = Append(E, Param(m, v, NoRequest)) /\ v = P[m]
    PROVE  QueueSound(F, B, [P EXCEPT ![m] = v], Y, A, N, n)
<1> DEFINE P2 == [P EXCEPT ![m] = v]
<1>1. /\ DOMAIN P2 = DOMAIN P /\ P2[m] = v
      /\ \A x \in DOMAIN P : x # m => P2[x] = P[x]
      /\ m \in AudioNodes
  BY PartialParts
<1> HIDE DEF P2
<1>2. /\ InfoComes(E, B) /\ ForBound(E, B) /\ AnswersRepeat(E, B) /\ NotAnswered(E, Y)
      /\ InfoFirst(E, B, Y) /\ Processed(E, Y \cup A, N) /\ RequestsBound(Y \cup A, B, n)
      /\ NoError(E)
  BY DEF QueueSound
<1>3. AnswersCome(E, P2, A)
  BY <1>1 DEF QueueSound, AnswersCome
<1>4. CASE F = E /\ (v = P[m] \/ ~(m \in DOMAIN B /\ B[m].subscribed))
  <2>1. ChangesCome(E, B, P2)
    <3>1. ASSUME NEW x \in DOMAIN B, x \in DOMAIN P2, B[x].subscribed
          PROVE  Says(E, B[x].props, x, Len(E) + 1, P2[x])
      <4>1. P2[x] = P[x]
        BY <1>1, <1>4, <3>1
      <4> QED BY <1>1, <3>1, <4>1 DEF QueueSound, ChangesCome
    <3> QED BY <3>1 DEF ChangesCome
  <2> QED BY <1>2, <1>3, <1>4, <2>1, Zenon DEF QueueSound, P2
<1>5. CASE m \in DOMAIN B /\ F = Append(E, Param(m, v, NoRequest))
  <2> DEFINE e == Param(m, v, NoRequest)
  <2>1. e \in Events /\ e.type = "param" /\ e.node = m /\ e.props = v /\ e.request = NoRequest
    BY <1>1, ParamParts
  <2>2. F = Append(E, e)
    BY <1>5
  <2> HIDE DEF e
  <2>3. QueueSound(F, B, [x \in {} |-> <<>>], Y, {}, N, n)
    <3>1. QueueSound(E, B, [x \in {} |-> <<>>], Y, {}, N, n)
      <4>1. {} \in SUBSET A /\ Y \in SUBSET Y /\ n <= n
            /\ \A x \in DOMAIN B : x \in DOMAIN [y \in {} |-> <<>>] =>
                  x \in DOMAIN P /\ [y \in {} |-> <<>>][x] = P[x]
        OBVIOUS
      <4> QED BY <4>1, QueueLater
    <3>2. SendSound(E, e, B, [x \in {} |-> <<>>], Y, N)
      <4>1. e.type # "error" /\ ~IsAnswer(e) /\ e.node \notin DOMAIN [x \in {} |-> <<>>]
        BY <2>1 DEF IsAnswer
      <4> QED BY <1>5, <2>1, <4>1, Zenon DEF SendSound
    <3> QED BY <2>1, <2>2, <3>1, <3>2, QueueSend
  <2>4. /\ Len(F) = Len(E) + 1 /\ Len(E) \in Nat
        /\ \A i \in 1..Len(E) : F[i] = E[i]
        /\ F[Len(E) + 1] = e
    BY <2>1, <2>2
  <2>5. ChangesCome(F, B, P2)
    <3>1. ASSUME NEW x \in DOMAIN B, x \in DOMAIN P2, B[x].subscribed
          PROVE  Says(F, B[x].props, x, Len(F) + 1, P2[x])
      <4>1. CASE x = m
        <5>1. IsParam(F[Len(E) + 1], x) /\ F[Len(E) + 1].props = P2[x] /\ Len(E) + 1 \in Nat \ {0}
          BY <1>1, <2>1, <2>4, <4>1 DEF IsParam
        <5>2. Says(F, B[x].props, x, (Len(E) + 1) + 1, F[Len(E) + 1].props)
          BY <5>1, SaysLast
        <5> QED BY <2>4, <5>1, <5>2
      <4>2. CASE x # m
        <5>1. Says(E, B[x].props, x, Len(E) + 1, P[x])
          BY <1>1, <3>1 DEF QueueSound, ChangesCome
        <5>2. Len(E) + 1 \in Nat /\ \A j \in 1..((Len(E) + 1) - 1) : F[j] = E[j]
          BY <2>4
        <5>3. Says(F, B[x].props, x, Len(E) + 1, P[x])
          BY <5>1, <5>2, SaysSame
        <5>4. ~IsParam(F[Len(E) + 1], x)
          BY <2>1, <2>4, <4>2 DEF IsParam
        <5>5. Len(E) + 1 \in Nat /\ Len(F) + 1 \in Nat /\ Len(E) + 1 <= Len(F) + 1
              /\ \A j \in (Len(E) + 1)..((Len(F) + 1) - 1) : j = Len(E) + 1
          BY <2>4
        <5>6. \A j \in (Len(E) + 1)..((Len(F) + 1) - 1) : ~IsParam(F[j], x)
          BY <5>4, <5>5
        <5>7. Says(F, B[x].props, x, Len(F) + 1, P[x])
          BY <5>3, <5>5, <5>6, SaysFurther
        <5> QED BY <1>1, <3>1, <4>2, <5>7
      <4> QED BY <4>1, <4>2
    <3> QED BY <3>1 DEF ChangesCome
  <2>6. AnswersCome(F, P2, A)
    <3>1. ASSUME NEW q \in A, q.node \in DOMAIN P2
          PROVE  \E i \in 1..Len(F) : IsAnswer(F[i]) /\ F[i].request = q
      <4>1. PICK i \in 1..Len(E) : IsAnswer(E[i]) /\ E[i].request = q
        BY <1>3, <3>1 DEF AnswersCome
      <4>2. i \in 1..Len(F) /\ F[i] = E[i]
        BY <2>4
      <4> QED BY <4>1, <4>2
    <3> QED BY <3>1 DEF AnswersCome
  <2>7. Processed(F, Y \cup A, N)
    <3>1. \A q \in Y \cup A : q.id <= N[<<q.role, q.op>>]
      BY <1>2, Zenon DEF Processed
    <3> QED BY <2>3, <3>1, Zenon DEF QueueSound, Processed
  <2> QED BY <1>2, <2>3, <2>5, <2>6, <2>7, Zenon DEF QueueSound, P2
<1> QED BY <1>4, <1>5

(* when a request is sent,                                                  *)
Newer(q, N) == N[<<q.role, q.op>>] < q.id

LEMMA QueueAsk ==
    ASSUME NEW E \in Seq(Events), NEW B, NEW P,
           NEW Y \in SUBSET Requests, NEW A \in SUBSET Requests,
           NEW N \in [Roles \X Kinds -> Nat], NEW n \in Nat,
           QueueSound(E, B, P, Y, A, N, n), NEW q \in Requests, Newer(q, N),
           q.node \in DOMAIN B, q.generation <= n
    PROVE  QueueSound(Append(E, Done(q)), B, P, Y \cup {q}, A, [N EXCEPT ![<<q.role, q.op>>] = q.id], n)
<1> DEFINE N2 == [N EXCEPT ![<<q.role, q.op>>] = q.id]
<1>0. q.id \in Nat /\ q.role \in Roles /\ q.op \in Kinds /\ q # NoRequest
  BY RequestParts
<1>1. /\ N2[<<q.role, q.op>>] = q.id
      /\ \A r \in Roles, op \in Kinds :
            N[<<r, op>>] <= N2[<<r, op>>] /\ N[<<r, op>>] \in Nat /\ N2[<<r, op>>] \in Nat
  <2> DEFINE k == <<q.role, q.op>>
  <2>1. k \in Roles \X Kinds
    BY <1>0
  <2>2. N[k] < q.id
    BY DEF Newer
  <2> HIDE DEF k
  <2>3. N2 = [N EXCEPT ![k] = q.id]
    BY DEF k
  <2> HIDE DEF N2
  <2>4. /\ N2[k] = q.id
        /\ \A x \in Roles \X Kinds : x # k => N2[x] = N[x]
        /\ \A x \in Roles \X Kinds : N[x] \in Nat
    BY <2>1, <2>3
  <2>5. \A x \in Roles \X Kinds : N[x] <= N2[x] /\ N[x] \in Nat /\ N2[x] \in Nat
    BY <1>0, <2>2, <2>4
  <2>6. \A r \in Roles, op \in Kinds : <<r, op>> \in Roles \X Kinds
    OBVIOUS
  <2>7. N2[<<q.role, q.op>>] = q.id
    BY <2>4 DEF k
  <2> QED BY <2>5, <2>6, <2>7
<1> HIDE DEF N2
<1>2. ASSUME NEW p \in Requests, p.id <= N[<<p.role, p.op>>]
      PROVE  p.id <= N2[<<p.role, p.op>>] /\ p # q
  <2>1. p.id \in Nat /\ p.role \in Roles /\ p.op \in Kinds
    BY RequestParts
  <2>2. N[<<p.role, p.op>>] <= N2[<<p.role, p.op>>] /\ N[<<p.role, p.op>>] \in Nat /\ N2[<<p.role, p.op>>] \in Nat
    BY <1>1, <2>1
  <2>3. p.id <= N2[<<p.role, p.op>>]
    BY <1>2, <2>1, <2>2
  <2>4. N[<<q.role, q.op>>] \in Nat
    BY <1>0, <1>1
  <2>5. ~(q.id <= N[<<q.role, q.op>>])
    BY <1>0, <2>4 DEF Newer
  <2>6. p # q
    BY <1>2, <2>5
  <2> QED BY <2>3, <2>6
<1>3. \A p \in Y \cup A : p \in Requests /\ p.id <= N[<<p.role, p.op>>]
  <2>1. \A p \in Y \cup A : p \in Requests
    OBVIOUS
  <2> QED BY <2>1, Zenon DEF QueueSound, Processed
<1>4. ASSUME NEW i \in 1..Len(E), E[i].type \in {"param", "done"}, E[i].request # NoRequest
      PROVE  E[i].request.id <= N2[<<E[i].request.role, E[i].request.op>>] /\ E[i].request # q
  <2>1. E[i].request \in Requests
    BY <1>4, EventParts
  <2>2. E[i].request.id <= N[<<E[i].request.role, E[i].request.op>>]
    BY <1>4, Zenon DEF QueueSound, Processed
  <2> QED BY <1>2, <2>1, <2>2
<1>5. Processed(E, (Y \cup {q}) \cup A, N2)
  <2>1. \A p \in (Y \cup {q}) \cup A : p = q \/ p \in Y \cup A
    OBVIOUS
  <2>2. ASSUME NEW p \in Y \cup A
        PROVE  p.id <= N2[<<p.role, p.op>>]
    BY <1>2, <1>3, <2>2
  <2>3. q.id <= N2[<<q.role, q.op>>]
    BY <1>0, <1>1
  <2> QED BY <1>4, <2>1, <2>2, <2>3, Zenon DEF Processed
<1>6. NotAnswered(E, Y \cup {q})
  <2>1. ASSUME NEW i \in 1..Len(E), IsAnswer(E[i])
        PROVE  E[i].request \notin Y \cup {q}
    <3>1. E[i].request # q
      BY <1>4, <2>1 DEF IsAnswer
    <3> QED BY <2>1, <3>1 DEF QueueSound, NotAnswered
  <2> QED BY <2>1 DEF NotAnswered
<1>7. InfoFirst(E, B, Y \cup {q})
  <2>1. ASSUME NEW i \in 1..Len(E), E[i].type = "done", E[i].request \in Y \cup {q}
        PROVE  E[i].request \in Y
    <3>1. E[i].request # NoRequest
      BY <2>1, SlotParts
    <3> QED BY <1>4, <2>1, <3>1
  <2> QED BY <2>1 DEF QueueSound, InfoFirst
<1>8. RequestsBound((Y \cup {q}) \cup A, B, n)
  BY DEF QueueSound, RequestsBound
<1>9. QueueSound(E, B, P, Y \cup {q}, A, N2, n)
  BY <1>5, <1>6, <1>7, <1>8, Zenon DEF QueueSound
<1>10. Done(q) \in Events /\ Done(q).type = "done" /\ Done(q).request = q
  BY DoneParts
<1>11. SendSound(E, Done(q), B, P, Y \cup {q}, N2)
  <2>1. Done(q).type # "error" /\ Done(q).type \notin {"info", "param"} /\ Done(q).type # "param"
        /\ ~IsAnswer(Done(q))
    BY <1>10 DEF IsAnswer
  <2>2. q.id <= N2[<<q.role, q.op>>]
    BY <1>0, <1>1
  <2> QED BY <1>10, <2>1, <2>2, Zenon DEF SendSound
<1> QED BY <1>9, <1>10, <1>11, QueueSend DEF N2

(* when bindings are destroyed and the requests for their nodes go,         *)
LEMMA QueueRelease ==
    ASSUME NEW E \in Seq(Events), NEW B, NEW P, NEW Y, NEW A, NEW N, NEW n,
           QueueSound(E, B, P, Y, A, N, n), NEW S
    PROVE  QueueSound(Unless(E, S), Omit(B, S), P, {q \in Y : q.node \notin S},
                      {q \in A : q.node \notin S}, N, n)
<1> DEFINE F == Unless(E, S)
           B2 == Omit(B, S)
           Y2 == {q \in Y : q.node \notin S}
           A2 == {q \in A : q.node \notin S}
<1>1. /\ Len(F) = Len(E) /\ Len(E) \in Nat
      /\ \A i \in 1..Len(E) : F[i] = IF Touches(E[i], S) THEN Void ELSE E[i]
  BY UnlessParts
<1>2. DOMAIN B2 = DOMAIN B \ S
  BY OmitDomain
<1>3. \A m \in DOMAIN B : m \notin S => B2[m] = B[m]
  BY OmitValues
<1>v. Void.type = "void"
  BY VoidParts
<1>z. /\ \A q \in Y2 : q \in Y /\ q.node \notin S
      /\ \A q \in A2 : q \in A /\ q.node \notin S
  OBVIOUS
<1> HIDE DEF F, B2, Y2, A2
<1>4. \A i \in 1..Len(E) : F[i].type # "void" => F[i] = E[i] /\ ~Touches(E[i], S)
  BY <1>1, <1>v
<1>5. \A i \in 1..Len(E) : \A m :
         m \notin S => /\ IsParam(F[i], m) = IsParam(E[i], m)
                       /\ IsInfo(E[i], m) => IsInfo(F[i], m)
                       /\ IsParam(E[i], m) => F[i].props = E[i].props
  BY <1>1, <1>v DEF IsParam, IsInfo, Touches
<1>6. ASSUME NEW m \in DOMAIN B, m \notin S, NEW k \in 1..(Len(E) + 1), NEW v,
             Says(E, B[m].props, m, k, v)
      PROVE  Says(F, B2[m].props, m, k, v)
  <2>1. k \in Nat /\ \A j \in 1..(k - 1) : j \in 1..Len(E)
    BY <1>1
  <2>2. \A j \in 1..(k - 1) : /\ IsParam(F[j], m) = IsParam(E[j], m)
                              /\ IsParam(E[j], m) => F[j].props = E[j].props
    BY <1>5, <1>6, <2>1
  <2>3. Says(F, B[m].props, m, k, v)
    BY <1>6, <2>1, <2>2, SaysSame
  <2> QED BY <1>3, <1>6, <2>3
<1>7. InfoComes(F, B2)
  <2>1. ASSUME NEW m \in DOMAIN B2, ~B2[m].subscribed
        PROVE  \E i \in 1..Len(F) : IsInfo(F[i], m)
    <3>1. m \in DOMAIN B /\ m \notin S /\ ~B[m].subscribed
      BY <1>2, <1>3, <2>1
    <3>2. PICK i \in 1..Len(E) : IsInfo(E[i], m)
      BY <3>1 DEF QueueSound, InfoComes
    <3> QED BY <1>1, <1>5, <3>1, <3>2
  <2> QED BY <2>1 DEF InfoComes
<1>8. ChangesCome(F, B2, P)
  <2>1. ASSUME NEW m \in DOMAIN B2, m \in DOMAIN P, B2[m].subscribed
        PROVE  Says(F, B2[m].props, m, Len(F) + 1, P[m])
    <3>1. m \in DOMAIN B /\ m \notin S /\ B[m].subscribed
      BY <1>2, <1>3, <2>1
    <3>2. Says(E, B[m].props, m, Len(E) + 1, P[m])
      BY <2>1, <3>1 DEF QueueSound, ChangesCome
    <3>3. Len(E) + 1 \in 1..(Len(E) + 1) /\ Len(F) + 1 = Len(E) + 1
      BY <1>1
    <3> QED BY <1>6, <3>1, <3>2, <3>3
  <2> QED BY <2>1 DEF ChangesCome
<1>9. ForBound(F, B2)
  <2>1. ASSUME NEW i \in 1..Len(F), F[i].type \in {"info", "param"}
        PROVE  F[i].node \in DOMAIN B2
    <3>1. F[i] = E[i] /\ ~Touches(E[i], S) /\ i \in 1..Len(E)
      BY <1>1, <1>4, <2>1
    <3>2. E[i].node \in DOMAIN B /\ E[i].node \notin S
      BY <2>1, <3>1 DEF QueueSound, ForBound, Touches
    <3> QED BY <1>2, <3>1, <3>2
  <2> QED BY <2>1 DEF ForBound
<1>10. AnswersRepeat(F, B2)
  <2>1. ASSUME NEW i \in 1..Len(F), IsAnswer(F[i])
        PROVE  /\ F[i].request.node = F[i].node
               /\ Says(F, B2[F[i].node].props, F[i].node, i, F[i].props)
    <3>1. F[i] = E[i] /\ ~Touches(E[i], S) /\ i \in 1..Len(E)
      BY <1>1, <1>4, <2>1 DEF IsAnswer
    <3>2. E[i].node \in DOMAIN B /\ E[i].node \notin S
      BY <2>1, <3>1 DEF QueueSound, ForBound, Touches, IsAnswer
    <3>3. E[i].request.node = E[i].node /\ Says(E, B[E[i].node].props, E[i].node, i, E[i].props)
      BY <2>1, <3>1 DEF QueueSound, AnswersRepeat
    <3>4. i \in 1..(Len(E) + 1)
      BY <1>1, <3>1
    <3>5. Says(F, B2[E[i].node].props, E[i].node, i, E[i].props)
      BY <1>6, <3>2, <3>3, <3>4
    <3> QED BY <3>1, <3>3, <3>5
  <2> QED BY <2>1 DEF AnswersRepeat
<1>11. AnswersCome(F, P, A2)
  <2>1. ASSUME NEW q \in A2, q.node \in DOMAIN P
        PROVE  \E i \in 1..Len(F) : IsAnswer(F[i]) /\ F[i].request = q
    <3>1. PICK i \in 1..Len(E) : IsAnswer(E[i]) /\ E[i].request = q
      BY <1>z, <2>1 DEF QueueSound, AnswersCome
    <3>2. E[i].node \notin S
      BY <1>z, <2>1, <3>1 DEF QueueSound, AnswersRepeat
    <3>3. F[i] = E[i] /\ i \in 1..Len(F)
      BY <1>1, <3>2 DEF Touches
    <3> QED BY <3>1, <3>3
  <2> QED BY <2>1 DEF AnswersCome
<1>12. NotAnswered(F, Y2)
  <2>1. ASSUME NEW i \in 1..Len(F), IsAnswer(F[i])
        PROVE  F[i].request \notin Y2
    <3>1. F[i] = E[i] /\ i \in 1..Len(E)
      BY <1>1, <1>4, <2>1 DEF IsAnswer
    <3> QED BY <1>z, <2>1, <3>1 DEF QueueSound, NotAnswered
  <2> QED BY <2>1 DEF NotAnswered
<1>13. InfoFirst(F, B2, Y2)
  <2>1. ASSUME NEW i \in 1..Len(F), F[i].type = "done", F[i].request \in Y2,
               F[i].request.node \in DOMAIN B2, ~B2[F[i].request.node].subscribed
        PROVE  \E j \in 1..(i - 1) : IsInfo(F[j], F[i].request.node)
    <3>1. F[i] = E[i] /\ i \in 1..Len(E)
      BY <1>1, <1>4, <2>1
    <3>2. F[i].request \in Y /\ F[i].request.node \notin S /\ F[i].request.node \in DOMAIN B
          /\ ~B[F[i].request.node].subscribed
      BY <1>z, <1>2, <1>3, <2>1
    <3>3. PICK j \in 1..(i - 1) : IsInfo(E[j], F[i].request.node)
      BY <2>1, <3>1, <3>2 DEF QueueSound, InfoFirst
    <3>4. j \in 1..Len(E)
      BY <1>1, <3>1
    <3> QED BY <1>5, <3>2, <3>3, <3>4
  <2> QED BY <2>1 DEF InfoFirst
<1>14. Processed(F, Y2 \cup A2, N)
  <2>1. ASSUME NEW i \in 1..Len(F), F[i].type \in {"param", "done"}, F[i].request # NoRequest
        PROVE  F[i].request.id <= N[<<F[i].request.role, F[i].request.op>>]
    <3>1. F[i] = E[i] /\ i \in 1..Len(E)
      BY <1>1, <1>4, <2>1
    <3> QED BY <2>1, <3>1, Zenon DEF QueueSound, Processed
  <2>2. \A q \in Y2 \cup A2 : q \in Y \cup A
    BY <1>z
  <2> QED BY <2>1, <2>2, Zenon DEF QueueSound, Processed
<1>15. RequestsBound(Y2 \cup A2, B2, n)
  BY <1>z, <1>2 DEF QueueSound, RequestsBound
<1>16. NoError(F)
  <2>1. ASSUME NEW i \in 1..Len(F)
        PROVE  F[i].type # "error"
    <3>1. F[i] = Void \/ F[i] = E[i]
      BY <1>1
    <3> QED BY <1>1, <1>v, <2>1, <3>1 DEF QueueSound, NoError
  <2> QED BY <2>1 DEF NoError
<1> QED BY <1>7, <1>8, <1>9, <1>10, <1>11, <1>12, <1>13, <1>14, <1>15, <1>16, Zenon
        DEF QueueSound, F, B2, Y2, A2

(* and when nodes are bound, each of which will send its info.              *)
LEMMA QueueBind ==
    ASSUME NEW E \in Seq(Events), NEW B, NEW P, NEW Y, NEW A, NEW N, NEW n,
           QueueSound(E, B, P, Y, A, N, n),
           NEW new \in Seq(AudioNodes), \A m \in ToSet(new) : m \notin DOMAIN B
    PROVE  QueueSound(E \o Infos(new), Over(Fresh(new), B), P, Y, A, N, n)
<1> DEFINE F == E \o Infos(new)
           B2 == Over(Fresh(new), B)
<1>1. /\ Infos(new) \in Seq(Events) /\ Len(Infos(new)) = Len(new) /\ Len(new) \in Nat
      /\ \A i \in 1..Len(new) : Infos(new)[i].type = "info" /\ Infos(new)[i].node = new[i]
  BY InfosParts
<1>2. /\ Len(F) = Len(E) + Len(new) /\ Len(E) \in Nat
      /\ \A i \in 1..Len(E) : F[i] = E[i] /\ i \in 1..Len(F)
      /\ \A i \in 1..Len(new) : F[Len(E) + i] = Infos(new)[i] /\ Len(E) + i \in 1..Len(F)
      /\ \A i \in 1..Len(F) : i \in 1..Len(E) \/ (i - Len(E) \in 1..Len(new) /\ Len(E) + (i - Len(E)) = i)
  <2> DEFINE I == Infos(new)
  <2>1. I \in Seq(Events) /\ Len(I) = Len(new) /\ Len(new) \in Nat /\ Len(E) \in Nat
    BY <1>1
  <2> HIDE DEF I
  <2>2. /\ Len(E \o I) = Len(E) + Len(new)
        /\ \A i \in 1..Len(E) : (E \o I)[i] = E[i]
        /\ \A i \in 1..Len(new) : (E \o I)[Len(E) + i] = I[i]
    <3>1. /\ Len(E \o I) = Len(E) + Len(I)
          /\ \A i \in 1..(Len(E) + Len(I)) :
                (E \o I)[i] = IF i <= Len(E) THEN E[i] ELSE I[i - Len(E)]
      BY <2>1, ConcatProperties
    <3>2. ASSUME NEW i \in 1..Len(new)
          PROVE  (E \o I)[Len(E) + i] = I[i]
      <4>1. Len(E) + i \in 1..(Len(E) + Len(I)) /\ ~(Len(E) + i <= Len(E)) /\ (Len(E) + i) - Len(E) = i
        BY <2>1
      <4> QED BY <3>1, <4>1
    <3>3. ASSUME NEW i \in 1..Len(E)
          PROVE  (E \o I)[i] = E[i]
      <4>1. i \in 1..(Len(E) + Len(I)) /\ i <= Len(E)
        BY <2>1
      <4> QED BY <3>1, <4>1
    <3> QED BY <2>1, <3>1, <3>2, <3>3
  <2>3. \A i \in 1..(Len(E) + Len(new)) :
           i \in 1..Len(E) \/ (i - Len(E) \in 1..Len(new) /\ Len(E) + (i - Len(E)) = i)
    BY <2>1
  <2> QED BY <2>1, <2>2, <2>3 DEF I
<1>3. DOMAIN B2 = ToSet(new) \cup DOMAIN B
  BY OverDomain, FreshDomain
<1>4. \A m \in DOMAIN B : B2[m] = B[m]
  BY OverValues, FreshDomain
<1>5. \A m \in ToSet(new) : ~B2[m].subscribed
  <2>1. \A m \in ToSet(new) : B2[m] = Fresh(new)[m]
    BY OverValues, FreshDomain
  <2>2. \A m \in ToSet(new) : Fresh(new)[m] = [subscribed |-> FALSE, props |-> <<>>]
    BY FreshParts
  <2> QED BY <2>1, <2>2
<1>6. \A m \in ToSet(new) : \E i \in 1..Len(new) : new[i] = m
  BY DEF ToSet
<1>6a. \A i \in 1..Len(new) : new[i] \in ToSet(new)
  BY DEF ToSet
<1> HIDE DEF F, B2
<1>7. \A i \in 1..Len(F) : \/ i \in 1..Len(E) /\ F[i] = E[i]
                           \/ i \notin 1..Len(E) /\ F[i].type = "info" /\ F[i].node \in ToSet(new)
  <2> TAKE i \in 1..Len(F)
  <2>1. CASE i \in 1..Len(E)
    BY <1>2, <2>1
  <2>2. CASE i \notin 1..Len(E)
    <3>1. i - Len(E) \in 1..Len(new) /\ F[i] = Infos(new)[i - Len(E)]
      <4>1. i - Len(E) \in 1..Len(new) /\ Len(E) + (i - Len(E)) = i
        BY <1>2, <2>2
      <4>2. F[Len(E) + (i - Len(E))] = Infos(new)[i - Len(E)]
        BY <1>2, <4>1
      <4> QED BY <4>1, <4>2
    <3> QED BY <1>1, <1>6a, <2>2, <3>1
  <2> QED BY <2>1, <2>2
<1>8. ASSUME NEW m \in DOMAIN B, NEW k \in 1..(Len(E) + 1), NEW v, Says(E, B[m].props, m, k, v)
      PROVE  Says(F, B2[m].props, m, k, v)
  <2>1. k \in Nat /\ \A j \in 1..(k - 1) : F[j] = E[j]
    BY <1>2
  <2>2. Says(F, B[m].props, m, k, v)
    BY <1>8, <2>1, SaysSame
  <2> QED BY <1>4, <2>2
<1>9. InfoComes(F, B2)
  <2>1. ASSUME NEW m \in DOMAIN B2, ~B2[m].subscribed
        PROVE  \E i \in 1..Len(F) : IsInfo(F[i], m)
    <3>1. CASE m \in ToSet(new)
      <4>1. PICK i \in 1..Len(new) : new[i] = m
        BY <1>6, <3>1
      <4> QED BY <1>1, <1>2, <4>1 DEF IsInfo
    <3>2. CASE m \in DOMAIN B
      <4>1. PICK i \in 1..Len(E) : IsInfo(E[i], m)
        BY <1>4, <2>1, <3>2 DEF QueueSound, InfoComes
      <4> QED BY <1>2, <4>1
    <3> QED BY <1>3, <3>1, <3>2
  <2> QED BY <2>1 DEF InfoComes
<1>10. ChangesCome(F, B2, P)
  <2>1. ASSUME NEW m \in DOMAIN B2, m \in DOMAIN P, B2[m].subscribed
        PROVE  Says(F, B2[m].props, m, Len(F) + 1, P[m])
    <3>1. m \in DOMAIN B /\ B[m].subscribed
      BY <1>3, <1>4, <1>5, <2>1
    <3>2. Says(E, B[m].props, m, Len(E) + 1, P[m])
      BY <2>1, <3>1 DEF QueueSound, ChangesCome
    <3>3. Len(E) + 1 \in 1..(Len(E) + 1) /\ Len(E) + 1 \in Nat /\ Len(F) + 1 \in Nat
          /\ Len(E) + 1 <= Len(F) + 1
          /\ \A j \in (Len(E) + 1)..((Len(F) + 1) - 1) : j \in 1..Len(F) /\ j \notin 1..Len(E)
      BY <1>1, <1>2
    <3>4. Says(F, B2[m].props, m, Len(E) + 1, P[m])
      BY <1>8, <3>1, <3>2, <3>3
    <3>5. \A j \in (Len(E) + 1)..((Len(F) + 1) - 1) : ~IsParam(F[j], m)
      BY <1>7, <3>3 DEF IsParam
    <3> QED BY <3>3, <3>4, <3>5, SaysFurther
  <2> QED BY <2>1 DEF ChangesCome
<1>11. ForBound(F, B2)
  BY <1>3, <1>7 DEF QueueSound, ForBound
<1>12. ASSUME NEW i \in 1..Len(F), IsAnswer(F[i])
       PROVE  i \in 1..Len(E) /\ F[i] = E[i] /\ F[i].node \in DOMAIN B
  <2>1. i \in 1..Len(E) /\ F[i] = E[i]
    BY <1>7, <1>12 DEF IsAnswer
  <2> QED BY <1>12, <2>1 DEF IsAnswer, QueueSound, ForBound
<1>13. AnswersRepeat(F, B2)
  <2>1. ASSUME NEW i \in 1..Len(F), IsAnswer(F[i])
        PROVE  /\ F[i].request.node = F[i].node
               /\ Says(F, B2[F[i].node].props, F[i].node, i, F[i].props)
    <3>1. i \in 1..Len(E) /\ F[i] = E[i] /\ E[i].node \in DOMAIN B
      BY <1>12, <2>1
    <3>2. E[i].request.node = E[i].node /\ Says(E, B[E[i].node].props, E[i].node, i, E[i].props)
      BY <2>1, <3>1 DEF QueueSound, AnswersRepeat
    <3>3. i \in 1..(Len(E) + 1)
      BY <1>2, <3>1
    <3> QED BY <1>8, <3>1, <3>2, <3>3
  <2> QED BY <2>1 DEF AnswersRepeat
<1>14. AnswersCome(F, P, A)
  <2>1. ASSUME NEW q \in A, q.node \in DOMAIN P
        PROVE  \E i \in 1..Len(F) : IsAnswer(F[i]) /\ F[i].request = q
    <3>1. PICK i \in 1..Len(E) : IsAnswer(E[i]) /\ E[i].request = q
      BY <2>1 DEF QueueSound, AnswersCome
    <3> QED BY <1>2, <3>1
  <2> QED BY <2>1 DEF AnswersCome
<1>15. NotAnswered(F, Y)
  BY <1>12 DEF QueueSound, NotAnswered
<1>16. InfoFirst(F, B2, Y)
  <2>1. ASSUME NEW i \in 1..Len(F), F[i].type = "done", F[i].request \in Y,
               F[i].request.node \in DOMAIN B2, ~B2[F[i].request.node].subscribed
        PROVE  \E j \in 1..(i - 1) : IsInfo(F[j], F[i].request.node)
    <3>1. i \in 1..Len(E) /\ F[i] = E[i]
      BY <1>7, <2>1
    <3>2. F[i].request.node \in DOMAIN B
      BY <2>1 DEF QueueSound, RequestsBound
    <3>3. PICK j \in 1..(i - 1) : IsInfo(E[j], F[i].request.node)
      BY <1>4, <2>1, <3>1, <3>2 DEF QueueSound, InfoFirst
    <3>4. F[j] = E[j]
      BY <1>2, <3>1
    <3> QED BY <3>3, <3>4
  <2> QED BY <2>1 DEF InfoFirst
<1>17. Processed(F, Y \cup A, N)
  <2>1. ASSUME NEW i \in 1..Len(F), F[i].type \in {"param", "done"}, F[i].request # NoRequest
        PROVE  F[i].request.id <= N[<<F[i].request.role, F[i].request.op>>]
    <3>1. F[i] = E[i] /\ i \in 1..Len(E)
      BY <1>7, <2>1
    <3> QED BY <2>1, <3>1, Zenon DEF QueueSound, Processed
  <2> QED BY <2>1, Zenon DEF QueueSound, Processed
<1>18. RequestsBound(Y \cup A, B2, n)
  BY <1>3 DEF QueueSound, RequestsBound
<1>19. NoError(F)
  <2>1. ASSUME NEW i \in 1..Len(F)
        PROVE  F[i].type # "error"
    BY <1>7, <2>1 DEF QueueSound, NoError
  <2> QED BY <2>1 DEF NoError
<1> QED BY <1>9, <1>10, <1>11, <1>13, <1>14, <1>15, <1>16, <1>17, <1>18, <1>19, Zenon
        DEF QueueSound, F, B2
-----------------------------------------------------------------------------
(* A role stays sound while others move: when requests that are not its own *)
(* come and go,                                                             *)
LEMMA SoundFewer ==
    ASSUME NEW r, NEW s, NEW own, NEW N, NEW n, RoleSound(r, s, own, N, n),
           NEW own2 \in SUBSET own, InFlight(s) => own2 # {}
    PROVE  RoleSound(r, s, own2, N, n)
<1>1. \A q \in own2 : q \in own
  OBVIOUS
<1> QED BY <1>1, Zenon DEF RoleSound

(* when others are processed and commands are counted,                      *)
LEMMA SoundLater ==
    ASSUME NEW r, NEW s \in RoleStates, NEW own, NEW N, NEW n \in Nat, RoleSound(r, s, own, N, n),
           NEW N2, \A op \in Kinds : N2[<<r, op>>] = N[<<r, op>>], NEW m \in Nat, n <= m
    PROVE  RoleSound(r, s, own, N2, m)
<1>1. ASSUME NEW q \in Requests \cup {NoRequest}, NEW op \in Kinds, Waits(r, s, q, op, N, n)
      PROVE  Waits(r, s, q, op, N2, m)
  <2>1. CASE q = NoRequest
    BY <2>1 DEF Waits
  <2>2. CASE q # NoRequest
    <3>1. q.id \in Nat
      BY <2>2, RequestParts
    <3> QED BY <1>1, <2>2, <3>1 DEF Waits
  <2> QED BY <2>1, <2>2
<1>2. /\ s.generation \in Nat
      /\ s.queuedVolume \in Requests \cup {NoRequest} /\ s.queuedMute \in Requests \cup {NoRequest}
  BY RoleParts DEF Requests
<1>3. s.generation <= m
  BY <1>2 DEF RoleSound
<1>4. Waits(r, s, s.queuedVolume, "volume", N2, m) /\ Waits(r, s, s.queuedMute, "mute", N2, m)
  BY <1>1, <1>2 DEF RoleSound, Kinds
<1> QED BY <1>3, <1>4, Zenon DEF RoleSound

(* and when answers stay on their way to the node.                          *)
Kept(E, F, A, A2, n) == \A i \in 1..Len(E) :
    IsAnswer(E[i]) /\ E[i].node = n /\ E[i].request \notin A
    => E[i].request \notin A2 /\ \E j \in 1..Len(F) : F[j] = E[i]

LEMMA RoleKept ==
    ASSUME NEW r, NEW s \in RoleStates, NEW line, NEW E, NEW B, NEW P, NEW Y, NEW A, NEW N,
           NEW n \in Nat, RoleHolds(r, s, line, E, B, P, Y, A, N, n),
           NEW F, NEW B2, NEW P2, NEW Y2, NEW A2, NEW N2, NEW m \in Nat, n <= m,
           Own(r, s, Y2 \cup A2) \in SUBSET Own(r, s, Y \cup A),
           InFlight(s) => Own(r, s, Y \cup A) \in SUBSET Own(r, s, Y2 \cup A2),
           \A op \in Kinds : N2[<<r, op>>] = N[<<r, op>>],
           s.bound => s.node \in DOMAIN B2 /\ B2[s.node].props = B[s.node].props,
           s.bound /\ s.node \in DOMAIN P2 => s.node \in DOMAIN P,
           s.bound => Kept(E, F, A, A2, s.node)
    PROVE  RoleHolds(r, s, line, F, B2, P2, Y2, A2, N2, m)
<1> DEFINE own == Own(r, s, Y \cup A)
           own2 == Own(r, s, Y2 \cup A2)
<1>1. RoleSound(r, s, own, N, n) /\ ShownSound(s, line, E, B, P, A)
  BY DEF RoleHolds
<1>2. own2 \in SUBSET own /\ (InFlight(s) => own \in SUBSET own2)
  OBVIOUS
<1> HIDE DEF own, own2
<1>3. InFlight(s) => own # {}
  BY <1>1, Zenon DEF RoleSound
<1>4. RoleSound(r, s, own2, N, n)
  BY <1>1, <1>2, <1>3, SoundFewer
<1>5. RoleSound(r, s, own2, N2, m)
  BY <1>4, SoundLater
<1>6. ShownSound(s, line, F, B2, P2, A2)
  BY <1>1 DEF ShownSound, Kept
<1> QED BY <1>5, <1>6 DEF RoleHolds, own2

LEMMA RoleStays ==
    ASSUME NEW r, NEW s \in RoleStates, NEW line, NEW E, NEW B, NEW P, NEW Y, NEW A, NEW N,
           NEW n \in Nat, RoleHolds(r, s, line, E, B, P, Y, A, N, n),
           NEW F, s.bound => Kept(E, F, A, A, s.node)
    PROVE  RoleHolds(r, s, line, F, B, P, Y, A, N, n)
<1> DEFINE own == Own(r, s, Y \cup A)
<1>1. RoleSound(r, s, own, N, n) /\ ShownSound(s, line, E, B, P, A)
      /\ (s.bound => s.node \in DOMAIN B)
  BY Zenon DEF RoleHolds
<1>2. ShownSound(s, line, F, B, P, A)
  BY <1>1 DEF ShownSound, Kept
<1> QED BY <1>1, <1>2, Zenon DEF RoleHolds

LEMMA KeptAll ==
    ASSUME NEW E, NEW F, NEW A, NEW A2 \in SUBSET A, NEW n,
           \A i \in 1..Len(E) : \E j \in 1..Len(F) : F[j] = E[i]
    PROVE  Kept(E, F, A, A2, n)
BY DEF Kept

LEMMA KeptAppend ==
    ASSUME NEW E \in Seq(Events), NEW e \in Events, NEW A, NEW A2 \in SUBSET A, NEW n
    PROVE  Kept(E, Append(E, e), A, A2, n) /\ Kept(E, E, A, A2, n)
<1>1. \A i \in 1..Len(E) : i \in 1..Len(Append(E, e)) /\ Append(E, e)[i] = E[i]
  BY AppendIndex
<1> QED BY <1>1, KeptAll

LEMMA KeptTail ==
    ASSUME NEW E \in Seq(Events), E # <<>>, NEW A, NEW A2 \in SUBSET A, NEW n,
           IsAnswer(Head(E)) /\ Head(E).node = n => Head(E).request \in A
    PROVE  Kept(E, Tail(E), A, A2, n)
<1>1. ASSUME NEW i \in 1..Len(E), IsAnswer(E[i]), E[i].node = n, E[i].request \notin A
      PROVE  \E j \in 1..Len(Tail(E)) : Tail(E)[j] = E[i]
  <2>1. i # 1
    BY <1>1
  <2>2. i - 1 \in 1..Len(Tail(E)) /\ Tail(E)[i - 1] = E[i]
    BY <2>1
  <2> QED BY <2>2
<1> QED BY <1>1 DEF Kept
(* A role for which nothing is under way.                                   *)
LEMMA RoleIdle ==
    ASSUME NEW r, NEW s \in RoleStates, NEW line, NEW E, NEW B, NEW P, NEW Y, NEW A, NEW N, NEW n,
           ~s.bound, ~InFlight(s), s.queuedVolume = NoRequest, s.queuedMute = NoRequest,
           s.generation <= n, Own(r, s, Y \cup A) = {}
    PROVE  RoleHolds(r, s, line, E, B, P, Y, A, N, n)
<1>1. RoleSound(r, s, {}, N, n)
  BY DEF RoleSound, Waits, InFlight
<1>2. ShownSound(s, line, E, B, P, A)
  BY DEF ShownSound
<1> QED BY <1>1, <1>2, Zenon DEF RoleHolds

(* All is sound once an event that tells nothing of a node was taken,       *)
LEMMA TakeSound ==
    ASSUME NEW S \in [Roles -> RoleStates], NEW shown, NEW E \in Seq(Events), E # <<>>,
           NEW B, NEW P, NEW Y, NEW A, NEW N, NEW n \in Nat,
           AllSound(S, shown, E, B, P, Y, A, N, n), Head(E).type \notin {"info", "param"}
    PROVE  AllSound(S, shown, Tail(E), B, P, Y, A, N, n)
<1>1. /\ \A m \in DOMAIN B : ~IsInfo(Head(E), m) /\ ~IsParam(Head(E), m)
      /\ ~IsAnswer(Head(E))
  BY DEF IsInfo, IsParam, IsAnswer
<1>2. Heard(Head(E), B, B)
  BY <1>1, Zenon DEF Heard
<1>3. QueueSound(E, B, P, Y, A, N, n) /\ A \in SUBSET A
  BY DEF AllSound
<1>4. QueueSound(Tail(E), B, P, Y, A, N, n)
  BY <1>1, <1>2, <1>3, QueueTake
<1>5. ASSUME NEW r \in Roles
      PROVE  RoleHolds(r, S[r], shown[r], Tail(E), B, P, Y, A, N, n)
  <2>1. Kept(E, Tail(E), A, A, S[r].node)
    BY <1>1, <1>3, KeptTail
  <2>2. RoleHolds(r, S[r], shown[r], E, B, P, Y, A, N, n) /\ S[r] \in RoleStates
    BY DEF AllSound
  <2> QED BY <2>1, <2>2, RoleStays
<1> QED BY <1>4, <1>5 DEF AllSound

(* once bindings that no role needs were destroyed,                         *)
LEMMA RoleReleased ==
    ASSUME NEW r, NEW s \in RoleStates, NEW line, NEW E \in Seq(Events), NEW B, NEW P,
           NEW Y, NEW A, NEW N, NEW n \in Nat, RoleHolds(r, s, line, E, B, P, Y, A, N, n),
           NEW T, s.bound => s.node \notin T
    PROVE  RoleHolds(r, s, line, Unless(E, T), Omit(B, T), P, {q \in Y : q.node \notin T},
                     {q \in A : q.node \notin T}, N, n)
<1> DEFINE F == Unless(E, T)
           B2 == Omit(B, T)
           Y2 == {q \in Y : q.node \notin T}
           A2 == {q \in A : q.node \notin T}
<1>1. s.bound => s.node \in DOMAIN B
  BY DEF RoleHolds
<1>2. s.bound => s.node \in DOMAIN B2 /\ B2[s.node].props = B[s.node].props
  <2>1. DOMAIN B2 = DOMAIN B \ T
    BY OmitDomain
  <2>2. \A x \in DOMAIN B : x \notin T => B2[x] = B[x]
    BY OmitValues
  <2> HIDE DEF B2
  <2> QED BY <1>1, <2>1, <2>2
<1>3. Own(r, s, Y2 \cup A2) \in SUBSET Own(r, s, Y \cup A)
  BY DEF Own
<1>4. InFlight(s) => Own(r, s, Y \cup A) \in SUBSET Own(r, s, Y2 \cup A2)
  <2>1. InFlight(s) => s.bound
    BY Zenon DEF RoleHolds, RoleSound
  <2> QED BY <2>1 DEF Own, Matches
<1>5. s.bound => Kept(E, F, A, A2, s.node)
  <2>1. ASSUME s.bound, NEW i \in 1..Len(E), IsAnswer(E[i]), E[i].node = s.node, E[i].request \notin A
        PROVE  E[i].request \notin A2 /\ i \in 1..Len(F) /\ F[i] = E[i]
    <3>1. ~Touches(E[i], T)
      BY <2>1 DEF Touches
    <3> QED BY <2>1, <3>1, UnlessParts
  <2> QED BY <2>1 DEF Kept
<1> HIDE DEF F, B2, Y2, A2
<1>6. /\ n <= n /\ \A op \in Kinds : N[<<r, op>>] = N[<<r, op>>]
      /\ (s.bound /\ s.node \in DOMAIN P => s.node \in DOMAIN P)
  OBVIOUS
<1>7. RoleHolds(r, s, line, F, B2, P, Y2, A2, N, n)
  BY <1>2, <1>3, <1>4, <1>5, <1>6, RoleKept
<1> QED BY <1>7 DEF F, B2, Y2, A2

(* and once roles have gained bindings.                                     *)
LEMMA GainedParts ==
    ASSUME NEW S \in [Roles -> RoleStates], NEW r \in Roles
    PROVE  /\ Gained(S)[r] \in RoleStates
           /\ Gained(S)[r].node = S[r].node /\ Gained(S)[r].generation = S[r].generation
           /\ Gained(S)[r].bound = (S[r].bound \/ r \in Gains(S))
           /\ Gained(S)[r].volumeInFlight = S[r].volumeInFlight
           /\ Gained(S)[r].muteInFlight = S[r].muteInFlight
           /\ Gained(S)[r].queuedVolume = S[r].queuedVolume
           /\ Gained(S)[r].queuedMute = S[r].queuedMute
<1> DEFINE b == S[r].bound \/ r \in Gains(S)
<1>1. b \in BOOLEAN
  OBVIOUS
<1>2. Gained(S)[r] = [S[r] EXCEPT !.bound = b]
  BY DEF Gained
<1>3. Gained(S)[r].bound = b
  BY <1>2 DEF RoleStates
<1>z. (S[r].bound \/ r \in Gains(S)) = b
  OBVIOUS
<1> HIDE DEF b
<1> QED BY <1>1, <1>2, <1>3, <1>z DEF RoleStates

LEMMA BindSound ==
    ASSUME AudioBounds, NEW S \in [Roles -> RoleStates], NEW shown,
           NEW E \in Seq(Events), NEW B \in Partial(AudioNodes, Bindings),
           NEW P, NEW Y, NEW A, NEW N, NEW n \in Nat, AllSound(S, shown, E, B, P, Y, A, N, n),
           knownNodes' \in SUBSET AudioNodes, DOMAIN B \subseteq knownNodes',
           EnsureTrackedBindings(S, B, E, shown)
    PROVE  /\ AllSound(roles', roleShown', audioEvents', bindings', P, Y, A, N, n)
           /\ DOMAIN bindings' \subseteq knownNodes'
<1> DEFINE new == New(S, B)
<1>1. /\ bindings' = Over(Fresh(new), B)
      /\ audioEvents' = E \o Infos(new)
      /\ roles' = Gained(S)
      /\ roleShown' = Regained(S, bindings', shown)
  BY EnsureTracked, Zenon
<1>2. /\ new \in Seq(AudioNodes)
      /\ \A m \in ToSet(new) : m \in knownNodes' /\ m \notin DOMAIN B
      /\ \A r \in Gains(S) : S[r].node \in DOMAIN B \cup ToSet(new)
  BY NewParts, Zenon
<1> HIDE DEF new
<1>3. QueueSound(audioEvents', bindings', P, Y, A, N, n)
  BY <1>1, <1>2, QueueBind DEF AllSound
<1>4. DOMAIN bindings' = ToSet(new) \cup DOMAIN B
  BY <1>1, OverDomain, FreshDomain
<1>5. \A m \in DOMAIN B : bindings'[m] = B[m]
  BY <1>1, <1>2, OverValues, FreshDomain
<1>6. \A i \in 1..Len(E) : i \in 1..Len(audioEvents') /\ audioEvents'[i] = E[i]
  <2>1. Infos(new) \in Seq(Events)
    BY <1>2, InfosParts
  <2> QED BY <1>1, <2>1
<1>7. ASSUME NEW r \in Roles
      PROVE  RoleHolds(r, roles'[r], roleShown'[r], audioEvents', bindings', P, Y, A, N, n)
  <2> DEFINE s == S[r]
             t == Gained(S)[r]
  <2>0. roles'[r] = t /\ s \in RoleStates
    BY <1>1
  <2>1. /\ t \in RoleStates /\ t.node = s.node /\ t.generation = s.generation
        /\ t.bound = (s.bound \/ r \in Gains(S))
        /\ t.volumeInFlight = s.volumeInFlight /\ t.muteInFlight = s.muteInFlight
        /\ t.queuedVolume = s.queuedVolume /\ t.queuedMute = s.queuedMute
    BY GainedParts
  <2>z. s = S[r]
    OBVIOUS
  <2> HIDE DEF s, t
  <2>2. RoleHolds(r, s, shown[r], E, B, P, Y, A, N, n)
    BY <2>z, Zenon DEF AllSound
  <2>3. CASE r \notin Gains(S)
    <3>1. t = s
      <4>1. s.bound \in BOOLEAN
        BY <2>0, RoleParts
      <4>2. t.bound = s.bound
        BY <2>1, <2>3, <4>1
      <4> QED BY <2>0, <2>1, <4>2 DEF RoleStates
    <3>2. roleShown'[r] = shown[r]
      BY <1>1, <2>3 DEF Regained
    <3>3. s.bound => s.node \in DOMAIN bindings' /\ bindings'[s.node].props = B[s.node].props
      BY <1>4, <1>5, <2>2 DEF RoleHolds
    <3>4. Kept(E, audioEvents', A, A, s.node)
      BY <1>6, KeptAll
    <3>a. RoleHolds(r, s, shown[r], audioEvents', B, P, Y, A, N, n)
      BY <2>0, <2>2, <3>4, RoleStays
    <3>b. ShownSound(s, shown[r], audioEvents', bindings', P, A)
      BY <3>3, <3>a DEF RoleHolds, ShownSound
    <3>5. RoleHolds(r, s, shown[r], audioEvents', bindings', P, Y, A, N, n)
      BY <3>3, <3>a, <3>b, Zenon DEF RoleHolds
    <3> QED BY <2>0, <3>1, <3>2, <3>5
  <2>4. CASE r \in Gains(S)
    <3>1. ~s.bound /\ t.bound /\ ~InFlight(s) /\ ~InFlight(t)
      <4>1. ~s.bound /\ t.bound
        BY <2>1, <2>4, <2>z DEF Gains
      <4>2. ~InFlight(s)
        BY <2>2, <4>1, Zenon DEF RoleHolds, RoleSound
      <4> QED BY <2>1, <4>1, <4>2 DEF InFlight
    <3>2. RoleSound(r, s, Own(r, s, Y \cup A), N, n)
      BY <2>2 DEF RoleHolds
    <3>3. Own(r, t, Y \cup A) = Own(r, s, Y \cup A)
      BY <2>1 DEF Own, Matches
    <3>4. RoleSound(r, t, Own(r, t, Y \cup A), N, n)
      BY <2>1, <3>1, <3>2, <3>3 DEF RoleSound, Waits, Matches, Flies, InFlight
    <3>5. t.node \in DOMAIN bindings'
      BY <1>2, <1>4, <2>1, <2>4, <2>z
    <3>6. bindings'[t.node].props # <<>>
          => roleShown'[r] = [generation |-> t.generation, props |-> bindings'[t.node].props]
      BY <1>1, <2>1, <2>4, <2>z DEF Regained
    <3>7. ShownSound(t, roleShown'[r], audioEvents', bindings', P, A)
      BY <3>6 DEF ShownSound
    <3> QED BY <2>0, <3>4, <3>5, <3>7 DEF RoleHolds
  <2> QED BY <2>3, <2>4
<1>8. DOMAIN bindings' \subseteq knownNodes'
  BY <1>2, <1>4
<1> QED BY <1>3, <1>7, <1>8 DEF AllSound
-----------------------------------------------------------------------------
(* A request that is sent: the queue,                                       *)
LEMMA SentQueue ==
    ASSUME AudioTypeOK, NEW q \in Requests, NEW queue \in Seq(Events), NEW B,
           NEW A \in SUBSET Requests, NEW n \in Nat,
           QueueSound(queue, B, nodeProps, syncRequests, A, newest, n),
           q.node \in DOMAIN B, B[q.node].subscribed = bindings[q.node].subscribed,
           Newer(q, newest), q.generation <= n, Set(q, queue)
    PROVE  /\ QueueSound(audioEvents', B, nodeProps', syncRequests \cup {q}, A, newest', n)
           /\ \A i \in 1..Len(queue) : \E j \in 1..Len(audioEvents') : audioEvents'[j] = queue[i]
           /\ DOMAIN nodeProps' = DOMAIN nodeProps
<1> DEFINE p == Applied(nodeProps[q.node], q)
           F == queue \o Echo(q)
<1>1. /\ nodeProps \in Partial(AudioNodes, Props) /\ syncRequests \in SUBSET Requests
      /\ newest \in [Roles \X Kinds -> Nat]
  BY DEF AudioTypeOK
<1>2. /\ nodeProps' = IF q.node \in DOMAIN nodeProps THEN [nodeProps EXCEPT ![q.node] = p] ELSE nodeProps
      /\ audioEvents' = F \o <<Done(q)>>
      /\ newest' = [newest EXCEPT ![<<q.role, q.op>>] = q.id]
  BY SetParts, Zenon
<1>3. \/ F = queue /\ \/ q.node \notin DOMAIN nodeProps
                      \/ p = nodeProps[q.node]
                      \/ ~bindings[q.node].subscribed
      \/ /\ q.node \in DOMAIN nodeProps /\ bindings[q.node].subscribed /\ p \in Props
         /\ F = Append(queue, Param(q.node, p, NoRequest))
         /\ Param(q.node, p, NoRequest) \in Events
  BY <1>1, EchoCases, Zenon
<1>4. q.node \in DOMAIN nodeProps => p \in Props
  BY <1>1, PartialParts, AppliedType
<1>5. Done(q) \in Events
  BY DoneParts
<1> HIDE DEF p, F
<1>6. F \in Seq(Events) /\ \A i \in 1..Len(queue) : i \in 1..Len(F) /\ F[i] = queue[i]
  <2>1. CASE F = queue
    BY <2>1
  <2>2. CASE /\ F = Append(queue, Param(q.node, p, NoRequest))
             /\ Param(q.node, p, NoRequest) \in Events
    BY <2>2, AppendIndex
  <2> QED BY <1>3, <2>1, <2>2
<1>7. QueueSound(F, B, nodeProps', syncRequests, A, newest, n)
  <2>1. CASE q.node \notin DOMAIN nodeProps
    BY <1>2, <1>3, <2>1
  <2>2. CASE q.node \in DOMAIN nodeProps
    <3>1. \/ /\ q.node \in DOMAIN B /\ B[q.node].subscribed
             /\ F = Append(queue, Param(q.node, p, NoRequest))
          \/ F = queue /\ (p = nodeProps[q.node] \/ ~(q.node \in DOMAIN B /\ B[q.node].subscribed))
      BY <1>3, <2>2
    <3>2. nodeProps' = [nodeProps EXCEPT ![q.node] = p]
      BY <1>2, <2>2
    <3>3. QueueSound(F, B, [nodeProps EXCEPT ![q.node] = p], syncRequests, A, newest, n)
      BY <1>1, <1>4, <2>2, <3>1, QueueWrite
    <3> QED BY <3>2, <3>3
  <2> QED BY <2>1, <2>2
<1>8. audioEvents' = Append(F, Done(q))
  BY <1>2, <1>5, <1>6, AppendIsConcat
<1>9. QueueSound(audioEvents', B, nodeProps', syncRequests \cup {q}, A, newest', n)
  <2> DEFINE N2 == [newest EXCEPT ![<<q.role, q.op>>] = q.id]
             Y2 == syncRequests \cup {q}
  <2>1. QueueSound(Append(F, Done(q)), B, nodeProps', Y2, A, N2, n)
    BY <1>1, <1>6, <1>7, QueueAsk
  <2>2. newest' = N2
    BY <1>2
  <2> HIDE DEF N2, Y2
  <2>3. QueueSound(audioEvents', B, nodeProps', Y2, A, newest', n)
    BY <1>8, <2>1, <2>2
  <2> QED BY <2>3 DEF Y2
<1>10. ASSUME NEW i \in 1..Len(queue)
       PROVE  \E j \in 1..Len(audioEvents') : audioEvents'[j] = queue[i]
  <2>1. i \in 1..Len(F) /\ F[i] = queue[i]
    BY <1>6
  <2>2. i \in 1..Len(audioEvents') /\ audioEvents'[i] = F[i]
    BY <1>5, <1>6, <1>8, <2>1, AppendIndex
  <2> QED BY <2>1, <2>2
<1> QED BY <1>2, <1>9, <1>10

(* what the newest requests are,                                            *)
LEMMA SentNewest ==
    ASSUME AudioTypeOK, NEW q \in Requests, NEW queue, NEW n \in Nat, Set(q, queue),
           Newer(q, newest), q.id <= n, ~overtaken, \A k \in Roles \X Kinds : newest[k] <= n
    PROVE  /\ \A k \in Roles \X Kinds : newest'[k] <= n
           /\ \A r \in Roles, op \in Kinds :
                 ~(r = q.role /\ op = q.op) => newest'[<<r, op>>] = newest[<<r, op>>]
           /\ ~overtaken'
<1> DEFINE x == <<q.role, q.op>>
<1>1. x \in Roles \X Kinds /\ q.id \in Nat
  BY RequestParts
<1>2. newest' = [newest EXCEPT ![x] = q.id] /\ overtaken' = (overtaken \/ newest[x] > q.id)
  BY SetParts, Zenon
<1>3. newest \in [Roles \X Kinds -> Nat] /\ newest[x] < q.id
  BY DEF AudioTypeOK, Newer
<1>z. \A r \in Roles, op \in Kinds : ~(r = q.role /\ op = q.op) => <<r, op>> # x
  OBVIOUS
<1> HIDE DEF x
<1>4. \A k \in Roles \X Kinds : newest'[k] <= n
  BY <1>1, <1>2, <1>3
<1>5. \A k \in Roles \X Kinds : k # x => newest'[k] = newest[k]
  BY <1>1, <1>2, <1>3
<1>6. ~(newest[x] > q.id)
  BY <1>1, <1>3
<1> QED BY <1>2, <1>4, <1>5, <1>6, <1>z
(* and the roles.                                                           *)
Stands(r, s, q, op, N, n) ==
    q # NoRequest => q.role = r /\ Matches(s, q) /\ N[<<r, op>>] < q.id /\ q.id <= n

LEMMA LaunchedSound ==
    ASSUME NEW s \in RoleStates, NEW q \in Requests, NEW R, NEW N, NEW N2, NEW n \in Nat,
           s.bound, ~InFlight(s), Matches(s, q), s.generation <= n, Own(q.role, s, R) = {},
           s.queuedMute = NoRequest, q.op = "volume" => s.queuedVolume = NoRequest,
           Stands(q.role, s, s.queuedVolume, "volume", N, n),
           q.op # "volume" => N2[<<q.role, "volume">>] = N[<<q.role, "volume">>]
    PROVE  RoleSound(q.role, Launched(s, q), Own(q.role, Launched(s, q), R \cup {q}), N2, n)
<1> DEFINE r == q.role
           t == Launched(s, q)
<1>1. /\ t \in RoleStates /\ t.node = s.node /\ t.generation = s.generation /\ t.bound = s.bound
      /\ t.queuedVolume = s.queuedVolume /\ t.queuedMute = s.queuedMute
      /\ t.volumeInFlight = (q.op = "volume" \/ s.volumeInFlight)
      /\ t.muteInFlight = (q.op # "volume" \/ s.muteInFlight)
  BY LaunchedParts
<1>2. ~s.volumeInFlight /\ ~s.muteInFlight
  BY DEF InFlight
<1>z. q.role = r
  OBVIOUS
<1> HIDE DEF r, t
<1>3. t.volumeInFlight = (q.op = "volume") /\ t.muteInFlight = (q.op # "volume")
  BY <1>1, <1>2
<1>4. InFlight(t) /\ t.bound /\ ~(t.volumeInFlight /\ t.muteInFlight) /\ Flies(t, q.op)
  BY <1>1, <1>3 DEF InFlight, Flies
<1>5. Own(r, t, R \cup {q}) = {q}
  <2>1. Own(r, t, R \cup {q}) = Own(r, s, R \cup {q})
    BY <1>1 DEF Own, Matches
  <2>2. Own(r, s, R \cup {q}) = {q}
    BY <1>z DEF Own
  <2> QED BY <2>1, <2>2
<1>6. Waits(r, t, t.queuedVolume, "volume", N2, n)
  <2>1. CASE q.op = "volume"
    BY <1>1, <2>1 DEF Waits
  <2>2. CASE q.op # "volume"
    BY <1>1, <1>4, <1>z, <2>2 DEF Waits, Stands, Matches
  <2> QED BY <2>1, <2>2
<1>7. Waits(r, t, t.queuedMute, "mute", N2, n)
  BY <1>1 DEF Waits
<1>8. t.generation <= n
  BY <1>1
<1>9. RoleSound(r, t, {q}, N2, n)
  BY <1>4, <1>6, <1>7, <1>8 DEF RoleSound
<1> QED BY <1>5, <1>9 DEF r, t

LEMMA DispatchSound ==
    ASSUME AudioTypeOK, connected, ~overtaken, NEW q \in Requests, NEW s \in RoleStates,
           NEW queue \in Seq(Events), NEW B, NEW A \in SUBSET Requests, NEW n \in Nat, NEW shown,
           QueueSound(queue, B, nodeProps, syncRequests, A, newest, n), syncRequests \cap A = {},
           \A r \in Roles \ {q.role} :
              RoleHolds(r, roles[r], shown[r], queue, B, nodeProps, syncRequests, A, newest, n),
           \A k \in Roles \X Kinds : newest[k] <= n,
           s.bound, s.node \in DOMAIN B, s.generation <= n, ~InFlight(s),
           Matches(s, q), Own(q.role, s, syncRequests \cup A) = {}, Newer(q, newest), q.id <= n,
           s.queuedMute = NoRequest, q.op = "volume" => s.queuedVolume = NoRequest,
           Stands(q.role, s, s.queuedVolume, "volume", newest, n),
           ShownSound(s, shown[q.role], queue, B, nodeProps, A),
           B[q.node].subscribed = bindings[q.node].subscribed,
           Dispatch(q, s, queue)
    PROVE  /\ AllSound(roles', shown, audioEvents', B, nodeProps', syncRequests', A, newest', n)
           /\ \A k \in Roles \X Kinds : newest'[k] <= n
           /\ ~overtaken'
<1>1. q.role \in Roles /\ q.op \in Kinds /\ q.node = s.node /\ q.generation = s.generation
      /\ q.generation \in Nat
  BY RequestParts DEF Matches
<1>2. roles \in [Roles -> RoleStates] /\ newest \in [Roles \X Kinds -> Nat]
  BY DEF AudioTypeOK
<1>3. CASE /\ Sendable(q, s)
           /\ roles' = [roles EXCEPT ![q.role] = Launched(s, q)]
           /\ syncRequests' = syncRequests \cup {q}
           /\ Set(q, queue)
  <2>1. /\ QueueSound(audioEvents', B, nodeProps', syncRequests', A, newest', n)
        /\ \A i \in 1..Len(queue) : \E j \in 1..Len(audioEvents') : audioEvents'[j] = queue[i]
        /\ DOMAIN nodeProps' = DOMAIN nodeProps
    <3>1. q.node \in DOMAIN B /\ q.generation <= n
      BY <1>1
    <3>2. /\ QueueSound(audioEvents', B, nodeProps', syncRequests \cup {q}, A, newest', n)
          /\ \A i \in 1..Len(queue) : \E j \in 1..Len(audioEvents') : audioEvents'[j] = queue[i]
          /\ DOMAIN nodeProps' = DOMAIN nodeProps
      BY <1>3, <3>1, SentQueue
    <3> QED BY <1>3, <3>2
  <2>2. /\ \A k \in Roles \X Kinds : newest'[k] <= n
        /\ \A r \in Roles, op \in Kinds :
              ~(r = q.role /\ op = q.op) => newest'[<<r, op>>] = newest[<<r, op>>]
        /\ ~overtaken'
    BY <1>3, SentNewest
  <2>3. ASSUME NEW r \in Roles, r # q.role
        PROVE  RoleHolds(r, roles'[r], shown[r], audioEvents', B, nodeProps', syncRequests', A, newest', n)
    <3> DEFINE t == roles[r]
    <3>1. roles'[r] = t /\ t \in RoleStates
      BY <1>2, <1>3, <2>3
    <3>2. RoleHolds(r, t, shown[r], queue, B, nodeProps, syncRequests, A, newest, n)
      BY <2>3
    <3> HIDE DEF t
    <3>3. Own(r, t, syncRequests' \cup A) = Own(r, t, syncRequests \cup A)
      BY <1>3, <2>3 DEF Own
    <3>4. \A op \in Kinds : newest'[<<r, op>>] = newest[<<r, op>>]
      BY <2>2, <2>3
    <3>5. Kept(queue, audioEvents', A, A, t.node)
      BY <2>1, KeptAll
    <3>6. t.bound => t.node \in DOMAIN B
      BY <3>2 DEF RoleHolds
    <3>7. RoleSound(r, t, Own(r, t, syncRequests' \cup A), newest', n)
      <4>1. RoleSound(r, t, Own(r, t, syncRequests \cup A), newest, n) /\ n <= n
        BY <3>2 DEF RoleHolds
      <4>2. RoleSound(r, t, Own(r, t, syncRequests \cup A), newest', n)
        BY <3>1, <3>4, <4>1, SoundLater
      <4> QED BY <3>3, <4>2
    <3>8. ShownSound(t, shown[r], audioEvents', B, nodeProps', A)
      BY <2>1, <3>2, <3>5 DEF RoleHolds, ShownSound, Kept
    <3> QED BY <3>1, <3>6, <3>7, <3>8, Zenon DEF RoleHolds
  <2>4. RoleHolds(q.role, roles'[q.role], shown[q.role], audioEvents', B, nodeProps', syncRequests', A, newest', n)
    <3> DEFINE t == Launched(s, q)
    <3>1. roles'[q.role] = t
      BY <1>1, <1>2, <1>3
    <3>2. t.node = s.node /\ t.bound = s.bound
      BY LaunchedParts
    <3>3. q.op # "volume" => newest'[<<q.role, "volume">>] = newest[<<q.role, "volume">>]
      BY <1>1, <2>2 DEF Kinds
    <3>4. RoleSound(q.role, t, Own(q.role, t, (syncRequests \cup A) \cup {q}), newest', n)
      BY <3>3, LaunchedSound
    <3>5. (syncRequests \cup A) \cup {q} = syncRequests' \cup A
      BY <1>3
    <3>6. InFlight(t)
      <4>1. /\ t.volumeInFlight = (q.op = "volume" \/ s.volumeInFlight)
            /\ t.muteInFlight = (q.op # "volume" \/ s.muteInFlight)
        BY LaunchedParts
      <4> HIDE DEF t
      <4> QED BY <4>1 DEF InFlight
    <3> HIDE DEF t
    <3>7. RoleSound(q.role, t, Own(q.role, t, syncRequests' \cup A), newest', n)
      BY <3>4, <3>5
    <3>8. ShownSound(t, shown[q.role], audioEvents', B, nodeProps', A)
      BY <3>6 DEF ShownSound
    <3> QED BY <3>1, <3>2, <3>7, <3>8 DEF RoleHolds
  <2>5. \A r \in Roles :
           RoleHolds(r, roles'[r], shown[r], audioEvents', B, nodeProps', syncRequests', A, newest', n)
    BY <2>3, <2>4
  <2>6. q \notin A
    <3>1. \A p \in A : p.id <= newest[<<p.role, p.op>>]
      BY Zenon DEF QueueSound, Processed
    <3>2. newest[<<q.role, q.op>>] \in Nat /\ q.id \in Nat
      BY <1>1, <1>2, RequestParts
    <3> QED BY <3>1, <3>2 DEF Newer
  <2>7. syncRequests' \cap A = {}
    BY <1>3, <2>6
  <2> QED BY <2>1, <2>2, <2>5, <2>7 DEF AllSound
<1>4. CASE /\ ~Sendable(q, s)
           /\ roles' = [roles EXCEPT ![q.role] = s]
           /\ syncRequests' = syncRequests
           /\ NotSent(queue)
  <2>1. audioEvents' = queue /\ nodeProps' = nodeProps /\ newest' = newest /\ overtaken' = overtaken
    BY <1>4 DEF NotSent
  <2>2. q.op = "volume"
    BY <1>1, <1>4 DEF Sendable
  <2>3. RoleSound(q.role, s, {}, newest, n)
    BY <2>2 DEF RoleSound, Waits, InFlight
  <2>4. RoleHolds(q.role, s, shown[q.role], queue, B, nodeProps, syncRequests, A, newest, n)
    BY <2>3 DEF RoleHolds
  <2>5. ASSUME NEW r \in Roles
        PROVE  RoleHolds(r, roles'[r], shown[r], queue, B, nodeProps, syncRequests, A, newest, n)
    <3>1. CASE r = q.role
      <4>1. roles'[r] = s
        BY <1>2, <1>4, <3>1
      <4> QED BY <2>4, <3>1, <4>1
    <3>2. CASE r # q.role
      <4>1. roles'[r] = roles[r]
        BY <1>2, <1>4, <3>2
      <4> QED BY <3>2, <4>1
    <3> QED BY <3>1, <3>2
  <2> QED BY <1>4, <2>1, <2>5 DEF AllSound
<1> QED BY <1>3, <1>4, DispatchCases, Zenon
-----------------------------------------------------------------------------
(* Soundness, action by action.                                             *)
Unlost == AudioBounds /\ AudioTypeOK /\ ~overtaken /\ connected /\ AudioSound

LEMMA SoundParts ==
    ASSUME Unlost
    PROVE  /\ AudioBounds /\ AudioTypeOK /\ ~overtaken /\ connected
           /\ AllSound(roles, roleShown, audioEvents, bindings, nodeProps, syncRequests,
                       readbackRequests, newest, audioCommands)
           /\ QueueSound(audioEvents, bindings, nodeProps, syncRequests, readbackRequests,
                         newest, audioCommands)
           /\ \A r \in Roles : RoleHolds(r, roles[r], roleShown[r], audioEvents, bindings, nodeProps,
                                         syncRequests, readbackRequests, newest, audioCommands)
           /\ DOMAIN bindings \subseteq knownNodes
           /\ \A k \in Roles \X Kinds : newest[k] <= audioCommands
           /\ IsFiniteSet(readbackRequests)
           /\ syncRequests \cap readbackRequests = {}
BY Zenon DEF Unlost, AudioSound, AllSound

LEMMA TypeParts ==
    ASSUME AudioTypeOK
    PROVE  /\ roles \in [Roles -> RoleStates] /\ audioEvents \in Seq(Events)
           /\ bindings \in Partial(AudioNodes, Bindings) /\ nodeProps \in Partial(AudioNodes, Props)
           /\ syncRequests \in SUBSET Requests /\ readbackRequests \in SUBSET Requests
           /\ newest \in [Roles \X Kinds -> Nat] /\ audioCommands \in Nat
           /\ knownNodes \in SUBSET AudioNodes
BY DEF AudioTypeOK

LEMMA HeadSound ==
    ASSUME Unlost, NEW type, Arrives(type), type \notin {"info", "param"}
    PROVE  /\ Rest \in Seq(Events) /\ Event \in Events /\ Event.type = type
           /\ UNCHANGED audioCommands
           /\ AllSound(roles, roleShown, Rest, bindings, nodeProps, syncRequests,
                       readbackRequests, newest, audioCommands)
<1>1. AudioTypeOK
  BY SoundParts
<1>2. /\ audioEvents # <<>> /\ Event \in Events /\ Rest \in Seq(Events) /\ Event.type = type
      /\ audioCommands' = audioCommands
  BY <1>1, HeadParts
<1>3. Head(audioEvents).type \notin {"info", "param"}
  BY <1>2 DEF Event
<1>4. roles \in [Roles -> RoleStates] /\ audioEvents \in Seq(Events) /\ audioCommands \in Nat
  BY <1>1, TypeParts
<1>5. AllSound(roles, roleShown, Tail(audioEvents), bindings, nodeProps, syncRequests,
               readbackRequests, newest, audioCommands)
  BY <1>2, <1>3, <1>4, SoundParts, TakeSound
<1> QED BY <1>2, <1>5 DEF Rest

LEMMA OnReadySound ==
    ASSUME Unlost, OnReady
    PROVE  AudioSound' /\ ~overtaken'
<1>1. /\ Arrives("done") /\ knownNodes' = knownNodes
      /\ EnsureTrackedBindings(roles, bindings, Rest, roleShown)
      /\ UNCHANGED <<requests, audioServer>>
  BY Zenon DEF OnReady
<1>2. /\ Rest \in Seq(Events) /\ audioCommands' = audioCommands
      /\ AllSound(roles, roleShown, Rest, bindings, nodeProps, syncRequests,
                  readbackRequests, newest, audioCommands)
  BY <1>1, HeadSound
<1>3. /\ AudioBounds /\ AudioTypeOK /\ ~overtaken /\ DOMAIN bindings \subseteq knownNodes
      /\ \A k \in Roles \X Kinds : newest[k] <= audioCommands /\ IsFiniteSet(readbackRequests)
  BY SoundParts
<1>4. /\ AllSound(roles', roleShown', audioEvents', bindings', nodeProps, syncRequests,
                  readbackRequests, newest, audioCommands)
      /\ DOMAIN bindings' \subseteq knownNodes'
  <2>1. /\ roles \in [Roles -> RoleStates] /\ bindings \in Partial(AudioNodes, Bindings)
        /\ audioCommands \in Nat /\ knownNodes' \in SUBSET AudioNodes
    BY <1>1, <1>3, TypeParts
  <2> QED BY <1>1, <1>2, <1>3, <2>1, BindSound
<1>5. /\ syncRequests' = syncRequests /\ readbackRequests' = readbackRequests
      /\ nodeProps' = nodeProps /\ newest' = newest /\ overtaken' = overtaken
  BY <1>1 DEF requests, audioServer
<1>6. IsFiniteSet(readbackRequests)
  BY SoundParts
<1> QED BY <1>2, <1>3, <1>4, <1>5, <1>6 DEF AudioSound

LEMMA OnRegistryGlobalSound ==
    ASSUME Unlost, OnRegistryGlobal
    PROVE  AudioSound' /\ ~overtaken'
<1>1. /\ Arrives("global") /\ knownNodes' = knownNodes \cup {Event.node}
      /\ EnsureTrackedBindings(roles, bindings, Rest, roleShown)
      /\ UNCHANGED <<requests, audioServer>>
  BY Zenon DEF OnRegistryGlobal
<1>2. /\ Rest \in Seq(Events) /\ Event.node \in AudioNodes /\ audioCommands' = audioCommands
      /\ AllSound(roles, roleShown, Rest, bindings, nodeProps, syncRequests,
                  readbackRequests, newest, audioCommands)
  BY <1>1, HeadSound, EventParts
<1>3. /\ AudioBounds /\ AudioTypeOK /\ ~overtaken /\ DOMAIN bindings \subseteq knownNodes
      /\ \A k \in Roles \X Kinds : newest[k] <= audioCommands
  BY SoundParts
<1>4. /\ AllSound(roles', roleShown', audioEvents', bindings', nodeProps, syncRequests,
                  readbackRequests, newest, audioCommands)
      /\ DOMAIN bindings' \subseteq knownNodes'
  <2>1. /\ roles \in [Roles -> RoleStates] /\ bindings \in Partial(AudioNodes, Bindings)
        /\ audioCommands \in Nat /\ knownNodes \in SUBSET AudioNodes
    BY <1>3, TypeParts
  <2>2. knownNodes' \in SUBSET AudioNodes /\ DOMAIN bindings \subseteq knownNodes'
    BY <1>1, <1>2, <1>3, <2>1
  <2> QED BY <1>1, <1>2, <1>3, <2>1, <2>2, BindSound
<1>5. /\ syncRequests' = syncRequests /\ readbackRequests' = readbackRequests
      /\ nodeProps' = nodeProps /\ newest' = newest /\ overtaken' = overtaken
  BY <1>1 DEF requests, audioServer
<1>6. IsFiniteSet(readbackRequests)
  BY SoundParts
<1> QED BY <1>2, <1>3, <1>4, <1>5, <1>6 DEF AudioSound

LEMMA OnDestroyedProxySound ==
    ASSUME Unlost, OnDestroyedProxy
    PROVE  AudioSound' /\ ~overtaken'
<1>1. /\ Arrives("void") /\ audioEvents' = Rest
      /\ UNCHANGED <<helperReady, knownNodes, roles, bindings, requests, roleShown, audioServer>>
  BY Zenon DEF OnDestroyedProxy
<1>2. /\ audioCommands' = audioCommands
      /\ AllSound(roles, roleShown, Rest, bindings, nodeProps, syncRequests,
                  readbackRequests, newest, audioCommands)
  BY <1>1, HeadSound
<1>3. /\ ~overtaken /\ DOMAIN bindings \subseteq knownNodes
      /\ \A k \in Roles \X Kinds : newest[k] <= audioCommands
      /\ IsFiniteSet(readbackRequests)
  BY SoundParts
<1> QED BY <1>1, <1>2, <1>3 DEF AudioSound, requests, audioServer

LEMMA OnCoreErrorSound ==
    ASSUME Unlost
    PROVE  ~OnCoreError
<1>1. SUFFICES ASSUME OnCoreError  PROVE FALSE
  OBVIOUS
<1>2. Arrives("error")
  BY <1>1, Zenon DEF OnCoreError
<1>3. audioEvents \in Seq(Events) /\ audioEvents # <<>> /\ Head(audioEvents).type = "error"
  BY <1>2, SoundParts, TypeParts DEF Arrives, Event
<1>4. NoError(audioEvents)
  BY SoundParts DEF QueueSound
<1> QED BY <1>3, <1>4 DEF NoError
LEMMA OnCoreDoneSound ==
    ASSUME Unlost, OnCoreDone
    PROVE  AudioSound' /\ ~overtaken'
<1> DEFINE q == Event.request
           Y2 == syncRequests \ {q}
<1>1. /\ Arrives("done") /\ q # NoRequest
      /\ syncRequests' = Y2
      /\ UNCHANGED <<helperReady, knownNodes, bindings, roleShown, audioServer>>
  BY OnCoreDoneCases, Zenon
<1>2. /\ Rest \in Seq(Events) /\ Event \in Events /\ Event.type = "done"
      /\ audioCommands' = audioCommands
      /\ AllSound(roles, roleShown, Rest, bindings, nodeProps, syncRequests,
                  readbackRequests, newest, audioCommands)
  BY <1>1, HeadSound
<1>3. q \in Requests /\ q.role \in Roles
  BY <1>1, <1>2, EventParts, RequestParts
<1>4. /\ roles \in [Roles -> RoleStates] /\ bindings \in Partial(AudioNodes, Bindings)
      /\ nodeProps \in Partial(AudioNodes, Props) /\ audioCommands \in Nat
      /\ syncRequests \in SUBSET Requests /\ readbackRequests \in SUBSET Requests
      /\ audioEvents \in Seq(Events)
  BY SoundParts, TypeParts
<1>5. QueueSound(Rest, bindings, nodeProps, syncRequests, readbackRequests, newest, audioCommands)
      /\ \A r \in Roles : RoleHolds(r, roles[r], roleShown[r], Rest, bindings, nodeProps,
                                    syncRequests, readbackRequests, newest, audioCommands)
  BY <1>2, Zenon DEF AllSound
<1>6. ~overtaken /\ DOMAIN bindings \subseteq knownNodes /\ connected
      /\ IsFiniteSet(readbackRequests) /\ (\A k \in Roles \X Kinds : newest[k] <= audioCommands)
  BY SoundParts
<1>z. Event.request = q
  OBVIOUS
<1> HIDE DEF q
<1>7. ASSUME audioEvents' = Rest, roles' = roles, readbackRequests' = readbackRequests,
             q \in syncRequests => ~Matches(roles[q.role], q) \/ ~roles[q.role].bound
      PROVE  AudioSound'
  <2>1. QueueSound(Rest, bindings, nodeProps, Y2, readbackRequests, newest, audioCommands)
    <3>1. Y2 \in SUBSET syncRequests /\ readbackRequests \in SUBSET readbackRequests
          /\ audioCommands <= audioCommands
          /\ \A x \in DOMAIN bindings : x \in DOMAIN nodeProps => x \in DOMAIN nodeProps /\ nodeProps[x] = nodeProps[x]
      BY <1>4
    <3> HIDE DEF Y2
    <3> QED BY <1>2, <1>4, <1>5, <3>1, QueueLater
  <2>2. ASSUME NEW r \in Roles
        PROVE  RoleHolds(r, roles[r], roleShown[r], Rest, bindings, nodeProps, Y2,
                         readbackRequests, newest, audioCommands)
    <3> DEFINE s == roles[r]
               own == Own(r, s, syncRequests \cup readbackRequests)
               own2 == Own(r, s, Y2 \cup readbackRequests)
    <3>1. RoleSound(r, s, own, newest, audioCommands)
          /\ (s.bound => s.node \in DOMAIN bindings)
          /\ ShownSound(s, roleShown[r], Rest, bindings, nodeProps, readbackRequests)
      BY <1>5, Zenon DEF RoleHolds
    <3>2. own2 \in SUBSET own
      BY DEF Own
    <3>3. (own2 = own) \/ ~s.bound
      BY <1>7 DEF Own, Matches
    <3> HIDE DEF s, own, own2
    <3>4. (InFlight(s) => s.bound) /\ (InFlight(s) => own # {})
      BY <3>1, Zenon DEF RoleSound
    <3>5. InFlight(s) => own2 # {}
      BY <3>3, <3>4
    <3>6. RoleSound(r, s, own2, newest, audioCommands)
      BY <3>1, <3>2, <3>5, SoundFewer
    <3> QED BY <3>1, <3>6, Zenon DEF RoleHolds, s, own2
  <2> HIDE DEF Y2
  <2>3. AllSound(roles, roleShown, Rest, bindings, nodeProps, Y2, readbackRequests, newest, audioCommands)
    <3>1. Y2 \cap readbackRequests = {}
      BY SoundParts DEF Y2
    <3> QED BY <2>1, <2>2, <3>1 DEF AllSound
  <2> QED BY <1>1, <1>2, <1>6, <1>7, <2>3 DEF AudioSound, audioServer
<1>8. CASE q \notin syncRequests
  <2>1. audioEvents' = Rest /\ roles' = roles /\ readbackRequests' = readbackRequests
    BY <1>8, <1>z, OnCoreDoneCases, Zenon
  <2> QED BY <1>1, <1>6, <1>7, <1>8, <2>1 DEF audioServer
<1>9. CASE q \in syncRequests /\ (~Matches(roles[q.role], q) \/ ~roles[q.role].bound)
  <2>1. audioEvents' = Rest /\ roles' = roles /\ readbackRequests' = readbackRequests
    BY <1>6, <1>9, <1>z, OnCoreDoneCases, ReadbackCases, Zenon
  <2> QED BY <1>1, <1>6, <1>7, <1>9, <2>1 DEF audioServer
<1>10. CASE q \in syncRequests /\ Matches(roles[q.role], q) /\ roles[q.role].bound
  <2> DEFINE A2 == readbackRequests \cup {q}
             F == Rest \o Answer(q)
  <2>1. audioEvents' = F /\ roles' = roles /\ readbackRequests' = A2
    BY <1>6, <1>10, <1>z, OnCoreDoneCases, ReadbackCases, Zenon
  <2>2. bindings[q.node].subscribed
    <3>1. q.node \in DOMAIN bindings
      BY <1>10, <1>5 DEF QueueSound, RequestsBound
    <3>2. 1 \in 1..Len(audioEvents) /\ audioEvents[1] = Event
      BY <1>1, <1>4 DEF Arrives, Event
    <3>3. ~bindings[q.node].subscribed => \E j \in 1..(1 - 1) : IsInfo(audioEvents[j], q.node)
      <4>1. InfoFirst(audioEvents, bindings, syncRequests)
        BY SoundParts, Zenon DEF QueueSound
      <4>2. audioEvents[1].type = "done" /\ audioEvents[1].request = q
        BY <1>2, <1>z, <3>2
      <4> QED BY <1>10, <3>1, <3>2, <4>1, <4>2 DEF InfoFirst
    <3> QED BY <3>3
  <2>3. \/ q.node \notin DOMAIN nodeProps /\ F = Rest
        \/ /\ q.node \in DOMAIN nodeProps
           /\ Param(q.node, nodeProps[q.node], q) \in Events
           /\ F = Append(Rest, Param(q.node, nodeProps[q.node], q))
    BY <1>2, <1>3, <1>4, AnswerCases, Zenon
  <2> HIDE DEF F
  <2>4. QueueSound(F, bindings, nodeProps, Y2, A2, newest, audioCommands)
    BY <1>2, <1>4, <1>5, <1>10, <2>2, <2>3, QueueAnswer
  <2>5. \A i \in 1..Len(Rest) : \E j \in 1..Len(F) : F[j] = Rest[i]
    <3>1. CASE F = Rest
      BY <3>1
    <3>2. CASE /\ Param(q.node, nodeProps[q.node], q) \in Events
               /\ F = Append(Rest, Param(q.node, nodeProps[q.node], q))
      <4>1. \A i \in 1..Len(Rest) : i \in 1..Len(F) /\ F[i] = Rest[i]
        BY <1>2, <3>2, AppendIndex
      <4> QED BY <4>1
    <3> QED BY <2>3, <3>1, <3>2
  <2>6. NotAnswered(Rest, syncRequests)
    BY <1>5, Zenon DEF QueueSound
  <2>7. ASSUME NEW r \in Roles
        PROVE  RoleHolds(r, roles[r], roleShown[r], F, bindings, nodeProps, Y2, A2, newest, audioCommands)
    <3>1. Y2 \cup A2 = syncRequests \cup readbackRequests
      BY <1>10
    <3>2. /\ RoleSound(r, roles[r], Own(r, roles[r], syncRequests \cup readbackRequests), newest, audioCommands)
          /\ roles[r].bound => roles[r].node \in DOMAIN bindings
          /\ ShownSound(roles[r], roleShown[r], Rest, bindings, nodeProps, readbackRequests)
      BY <1>5, Zenon DEF RoleHolds
    <3>3. ASSUME NEW i \in 1..Len(Rest), IsAnswer(Rest[i]), Rest[i].request \notin readbackRequests
          PROVE  Rest[i].request \notin A2
      BY <1>10, <2>6, <3>3 DEF NotAnswered
    <3> HIDE DEF Y2, A2
    <3>4. ShownSound(roles[r], roleShown[r], F, bindings, nodeProps, A2)
      BY <2>5, <3>2, <3>3 DEF ShownSound
    <3> QED BY <3>1, <3>2, <3>4, Zenon DEF RoleHolds
  <2>8. IsFiniteSet(A2)
    BY <1>6, FS_AddElement
  <2>d. Y2 \cap A2 = {}
    BY SoundParts
  <2> HIDE DEF A2, Y2
  <2>9. AllSound(roles, roleShown, F, bindings, nodeProps, Y2, A2, newest, audioCommands)
    BY <2>4, <2>7, <2>d DEF AllSound
  <2> QED BY <1>1, <1>2, <1>6, <2>1, <2>8, <2>9 DEF AudioSound, audioServer
<1> QED BY <1>8, <1>9, <1>10
LEMMA OnRegistryGlobalRemoveSound ==
    ASSUME Unlost, OnRegistryGlobalRemove
    PROVE  AudioSound' /\ ~overtaken'
<1> DEFINE n == Event.node
           lost(r) == roles[r].node = n /\ roles[r].bound
           Y2 == {q \in syncRequests : q.node \notin {n}}
           A2 == {q \in readbackRequests : q.node \notin {n}}
           B2 == Omit(bindings, {n})
           F == Unless(Rest, {n})
<1>1. /\ Arrives("remove")
      /\ knownNodes' = knownNodes \ {n}
      /\ roles' = [r \in Roles |-> IF lost(r) THEN Reset(n, roles[r].generation) ELSE roles[r]]
      /\ roleShown' = [r \in Roles |-> IF lost(r) THEN Nothing ELSE roleShown[r]]
      /\ ReleaseBinding(DOMAIN bindings \cap {n})
      /\ bindings' = B2
      /\ audioEvents' = F
      /\ UNCHANGED <<helperReady, audioServer>>
  BY Zenon DEF OnRegistryGlobalRemove, Reset
<1>2. /\ Rest \in Seq(Events) /\ n \in AudioNodes /\ audioCommands' = audioCommands
      /\ AllSound(roles, roleShown, Rest, bindings, nodeProps, syncRequests,
                  readbackRequests, newest, audioCommands)
  BY <1>1, HeadSound, EventParts
<1>3. /\ roles \in [Roles -> RoleStates] /\ bindings \in Partial(AudioNodes, Bindings)
      /\ audioCommands \in Nat
      /\ syncRequests \in SUBSET Requests /\ readbackRequests \in SUBSET Requests
  BY SoundParts, TypeParts
<1>4. QueueSound(Rest, bindings, nodeProps, syncRequests, readbackRequests, newest, audioCommands)
      /\ \A r \in Roles : RoleHolds(r, roles[r], roleShown[r], Rest, bindings, nodeProps,
                                    syncRequests, readbackRequests, newest, audioCommands)
  BY <1>2, Zenon DEF AllSound
<1>5. ~overtaken /\ DOMAIN bindings \subseteq knownNodes
      /\ IsFiniteSet(readbackRequests) /\ (\A k \in Roles \X Kinds : newest[k] <= audioCommands)
  BY SoundParts
<1>6. syncRequests' = Y2 /\ readbackRequests' = A2
  <2>1. \A q \in syncRequests \cup readbackRequests : q.node \in DOMAIN bindings
    BY <1>4 DEF QueueSound, RequestsBound
  <2> QED BY <1>1, <2>1 DEF ReleaseBinding
<1>7. QueueSound(F, B2, nodeProps, Y2, A2, newest, audioCommands)
  BY <1>2, <1>4, QueueRelease
<1>8. ASSUME NEW r \in Roles
      PROVE  RoleHolds(r, roles'[r], roleShown'[r], F, B2, nodeProps, Y2, A2, newest, audioCommands)
  <2> DEFINE s == roles[r]
  <2>0. s \in RoleStates /\ RoleHolds(r, s, roleShown[r], Rest, bindings, nodeProps,
                                      syncRequests, readbackRequests, newest, audioCommands)
    BY <1>3, <1>4
  <2>1. CASE lost(r)
    <3>1. roles'[r] = Reset(n, s.generation)
      BY <1>1, <2>1
    <3> DEFINE t == Reset(n, s.generation)
    <3>2. /\ t \in RoleStates /\ t.node = n /\ t.generation = s.generation /\ ~t.bound /\ ~InFlight(t)
          /\ t.queuedVolume = NoRequest /\ t.queuedMute = NoRequest
      BY <1>2, <2>0, RoleParts, ResetParts
    <3> HIDE DEF t
    <3>3. Own(r, t, Y2 \cup A2) = {}
      BY <3>2 DEF Own, Matches
    <3>4. t.generation <= audioCommands
      BY <2>0, <3>2 DEF RoleHolds, RoleSound
    <3> HIDE DEF F, B2, Y2, A2
    <3>5. RoleHolds(r, t, roleShown'[r], F, B2, nodeProps, Y2, A2, newest, audioCommands)
      BY <3>2, <3>3, <3>4, RoleIdle
    <3> QED BY <3>1, <3>5 DEF t
  <2>2. CASE ~lost(r)
    <3>1. roles'[r] = s /\ roleShown'[r] = roleShown[r]
      BY <1>1, <2>2
    <3>2. s.bound => s.node \notin {n}
      BY <2>2
    <3> HIDE DEF s
    <3>3. RoleHolds(r, s, roleShown[r], F, B2, nodeProps, Y2, A2, newest, audioCommands)
      BY <1>2, <1>3, <2>0, <3>2, RoleReleased
    <3> HIDE DEF F, B2, Y2, A2
    <3> QED BY <3>1, <3>3
  <2> QED BY <2>1, <2>2
<1>9. DOMAIN B2 \subseteq knownNodes'
  <2>1. DOMAIN B2 = DOMAIN bindings \ {n}
    BY OmitDomain
  <2> HIDE DEF B2, n
  <2> QED BY <1>1, <1>5, <2>1
<1>10. IsFiniteSet(A2)
  <2>1. A2 \in SUBSET readbackRequests
    OBVIOUS
  <2> QED BY <1>5, <2>1, FS_Subset
<1>d. Y2 \cap A2 = {}
  BY SoundParts
<1> HIDE DEF F, B2, Y2, A2
<1>11. AllSound(roles', roleShown', F, B2, nodeProps, Y2, A2, newest, audioCommands)
  BY <1>7, <1>8, <1>d DEF AllSound
<1>12. nodeProps' = nodeProps /\ newest' = newest /\ overtaken' = overtaken
  BY <1>1 DEF audioServer
<1>13. bindings' = B2 /\ audioEvents' = F
  BY <1>1
<1> QED BY <1>2, <1>5, <1>6, <1>9, <1>10, <1>11, <1>12, <1>13 DEF AudioSound

LEMMA OnNodeInfoSound ==
    ASSUME Unlost, OnNodeInfo
    PROVE  AudioSound' /\ ~overtaken'
<1> DEFINE n == Event.node
           B2 == [bindings EXCEPT ![n].subscribed = TRUE]
           e == Param(n, nodeProps[n], NoRequest)
           E2 == IF n \in DOMAIN nodeProps THEN Append(audioEvents, e) ELSE audioEvents
<1>0. connected
  BY SoundParts
<1>1. /\ Arrives("info")
      /\ bindings' = B2
      /\ audioEvents' = IF n \in DOMAIN nodeProps THEN Append(Rest, e) ELSE Rest
      /\ UNCHANGED <<helperReady, knownNodes, roles, requests, roleShown, audioServer>>
  <2>1. CASE n \in DOMAIN nodeProps
    BY <1>0, <2>1, Zenon DEF OnNodeInfo
  <2>2. CASE n \notin DOMAIN nodeProps
    BY <1>0, <2>2, Zenon DEF OnNodeInfo
  <2> QED BY <2>1, <2>2, Zenon
<1>2. /\ roles \in [Roles -> RoleStates] /\ bindings \in Partial(AudioNodes, Bindings)
      /\ nodeProps \in Partial(AudioNodes, Props) /\ audioCommands \in Nat
      /\ syncRequests \in SUBSET Requests /\ readbackRequests \in SUBSET Requests
      /\ audioEvents \in Seq(Events) /\ AudioTypeOK
  BY SoundParts, TypeParts
<1>3. /\ audioEvents # <<>> /\ Event \in Events /\ Rest \in Seq(Events) /\ Event.type = "info"
      /\ audioCommands' = audioCommands /\ n \in AudioNodes
  BY <1>1, <1>2, HeadParts, EventParts
<1>4. ~overtaken /\ DOMAIN bindings \subseteq knownNodes
      /\ IsFiniteSet(readbackRequests) /\ (\A k \in Roles \X Kinds : newest[k] <= audioCommands)
      /\ QueueSound(audioEvents, bindings, nodeProps, syncRequests, readbackRequests, newest, audioCommands)
      /\ \A r \in Roles : RoleHolds(r, roles[r], roleShown[r], audioEvents, bindings, nodeProps,
                                    syncRequests, readbackRequests, newest, audioCommands)
  BY SoundParts
<1>5. n \in DOMAIN bindings
  <2>1. 1 \in 1..Len(audioEvents) /\ audioEvents[1] = Event
    BY <1>2, <1>3 DEF Event
  <2>2. ForBound(audioEvents, bindings)
    BY <1>4, Zenon DEF QueueSound
  <2> QED BY <1>3, <2>1, <2>2 DEF ForBound
<1>6. /\ DOMAIN B2 = DOMAIN bindings
      /\ \A m \in DOMAIN bindings : /\ B2[m].props = bindings[m].props
                                    /\ B2[m].subscribed <=> bindings[m].subscribed \/ m = n
  <2>1. DOMAIN B2 = DOMAIN bindings
    OBVIOUS
  <2>2. ASSUME NEW m \in DOMAIN bindings
        PROVE  /\ B2[m].props = bindings[m].props
               /\ B2[m].subscribed <=> bindings[m].subscribed \/ m = n
    <3>1. bindings[m] \in Bindings
      BY <1>2, PartialParts
    <3>2. CASE m = n
      <4>1. B2[m] = [bindings[m] EXCEPT !.subscribed = TRUE]
        BY <3>2
      <4> HIDE DEF B2
      <4> QED BY <3>1, <3>2, <4>1 DEF Bindings
    <3>3. CASE m # n
      <4>1. B2[m] = bindings[m]
        BY <3>3
      <4> HIDE DEF B2
      <4> QED BY <3>3, <4>1
    <3> QED BY <3>2, <3>3
  <2> QED BY <2>1, <2>2
<1>7. n \in DOMAIN nodeProps => nodeProps[n] \in Props /\ e \in Events /\ e.type = "param"
                                /\ e.node = n /\ e.props = nodeProps[n] /\ e.request = NoRequest
  BY <1>2, <1>3, PartialParts, ParamParts
<1>z. n = Event.node
  OBVIOUS
<1> HIDE DEF B2, e, n
<1>8. /\ E2 \in Seq(Events) /\ E2 # <<>> /\ Head(E2) = Event
      /\ audioEvents' = Tail(E2)
      /\ \A i \in 1..Len(audioEvents) : i \in 1..Len(E2) /\ E2[i] = audioEvents[i]
  <2>1. CASE n \notin DOMAIN nodeProps
    BY <1>1, <1>2, <1>3, <2>1 DEF Event, Rest
  <2>2. CASE n \in DOMAIN nodeProps
    <3>1. E2 = Append(audioEvents, e) /\ audioEvents' = Append(Tail(audioEvents), e)
      BY <1>1, <2>2 DEF Rest
    <3>2. /\ Append(audioEvents, e) \in Seq(Events) /\ Append(audioEvents, e) # <<>>
          /\ Head(Append(audioEvents, e)) = Head(audioEvents)
      BY <1>2, <1>3, <1>7, <2>2
    <3>3. Tail(Append(audioEvents, e)) = Append(Tail(audioEvents), e)
      BY <1>2, <1>3, <1>7, <2>2, SeqEqual
    <3>4. \A i \in 1..Len(audioEvents) : i \in 1..Len(E2) /\ E2[i] = audioEvents[i]
      BY <1>2, <1>7, <2>2, <3>1, AppendIndex
    <3> QED BY <3>1, <3>2, <3>3, <3>4 DEF Event
  <2> QED BY <2>1, <2>2
<1>9. QueueSound(E2, bindings, nodeProps, syncRequests, readbackRequests, newest, audioCommands)
  <2>1. CASE n \notin DOMAIN nodeProps
    BY <1>4, <2>1
  <2>2. CASE n \in DOMAIN nodeProps
    <3>1. E2 = Append(audioEvents, Param(n, nodeProps[n], NoRequest))
      BY <2>2 DEF e
    <3>2. QueueSound(E2, bindings, [nodeProps EXCEPT ![n] = nodeProps[n]], syncRequests,
                     readbackRequests, newest, audioCommands)
      BY <1>2, <1>4, <1>5, <1>7, <2>2, <3>1, QueueWrite
    <3>3. [nodeProps EXCEPT ![n] = nodeProps[n]] = nodeProps
      BY <1>2, <2>2, PartialParts
    <3> QED BY <3>2, <3>3
  <2> QED BY <2>1, <2>2
<1>10. /\ ~IsAnswer(Event) /\ \A m : ~IsParam(Event, m)
       /\ \A m : IsInfo(Event, m) <=> m = n
  BY <1>3, <1>z DEF IsAnswer, IsParam, IsInfo
<1>11. Heard(Event, B2, bindings)
  BY <1>6, <1>10 DEF Heard
<1>12. ASSUME NEW m \in DOMAIN bindings, m \in DOMAIN nodeProps, IsInfo(Event, m)
       PROVE  Says(E2, bindings[m].props, m, Len(E2) + 1, nodeProps[m])
  <2>1. m = n
    BY <1>10, <1>12
  <2>2. E2 = Append(audioEvents, e)
    BY <1>12, <2>1
  <2>3. Len(E2) = Len(audioEvents) + 1 /\ E2[Len(audioEvents) + 1] = e /\ Len(audioEvents) + 1 \in Nat \ {0}
    BY <1>2, <1>7, <1>12, <2>1, <2>2, AppendIndex
  <2>4. IsParam(E2[Len(audioEvents) + 1], m) /\ E2[Len(audioEvents) + 1].props = nodeProps[m]
    BY <1>7, <1>12, <2>1, <2>3 DEF IsParam
  <2> HIDE DEF E2
  <2>5. Says(E2, bindings[m].props, m, (Len(audioEvents) + 1) + 1, E2[Len(audioEvents) + 1].props)
    BY <2>3, <2>4, SaysLast
  <2> QED BY <2>3, <2>4, <2>5
<1> HIDE DEF E2
<1>13. QueueSound(Tail(E2), B2, nodeProps, syncRequests, readbackRequests, newest, audioCommands)
  <2>1. readbackRequests \in SUBSET readbackRequests
    OBVIOUS
  <2> QED BY <1>8, <1>9, <1>10, <1>11, <1>12, <2>1, QueueTake
<1>14. ASSUME NEW r \in Roles
       PROVE  RoleHolds(r, roles[r], roleShown[r], Tail(E2), B2, nodeProps, syncRequests,
                        readbackRequests, newest, audioCommands)
  <2> DEFINE s == roles[r]
  <2>0. s \in RoleStates /\ RoleHolds(r, s, roleShown[r], audioEvents, bindings, nodeProps,
                                      syncRequests, readbackRequests, newest, audioCommands)
    BY <1>2, <1>4
  <2> HIDE DEF s
  <2>1. ASSUME NEW i \in 1..Len(audioEvents), IsAnswer(audioEvents[i])
        PROVE  \E j \in 1..Len(Tail(E2)) : Tail(E2)[j] = audioEvents[i]
    <3>1. i # 1
      BY <1>2, <1>3, <1>10, <2>1 DEF Event
    <3>2. i \in 1..Len(E2) /\ E2[i] = audioEvents[i]
      BY <1>8
    <3>3. i - 1 \in 1..Len(Tail(E2)) /\ Tail(E2)[i - 1] = E2[i]
      BY <1>8, <3>1, <3>2
    <3> QED BY <3>2, <3>3
  <2>2. Kept(audioEvents, Tail(E2), readbackRequests, readbackRequests, s.node)
    BY <2>1 DEF Kept
  <2>3. RoleHolds(r, s, roleShown[r], Tail(E2), bindings, nodeProps, syncRequests,
                  readbackRequests, newest, audioCommands)
    BY <1>2, <2>0, <2>2, RoleStays
  <2>4. ShownSound(s, roleShown[r], Tail(E2), B2, nodeProps, readbackRequests)
    BY <1>6, <2>3 DEF RoleHolds, ShownSound
  <2>5. RoleHolds(r, s, roleShown[r], Tail(E2), B2, nodeProps, syncRequests,
                  readbackRequests, newest, audioCommands)
    BY <1>6, <2>3, <2>4, Zenon DEF RoleHolds
  <2> QED BY <2>5 DEF s
<1>15. AllSound(roles, roleShown, Tail(E2), B2, nodeProps, syncRequests, readbackRequests,
                newest, audioCommands)
  BY <1>13, <1>14, SoundParts DEF AllSound
<1> QED BY <1>1, <1>3, <1>4, <1>6, <1>8, <1>15 DEF AudioSound, audioServer, requests
(* What answers is one request at most, and it is the one asked for when    *)
(* that still waits.                                                        *)
LEMMA AnsweredOne ==
    ASSUME IsFiniteSet(readbackRequests), NEW q \in Answered
    PROVE  Answered = {q}
<1> DEFINE waiting == {p \in readbackRequests : p.node = Event.node}
<1>1. IsFiniteSet(waiting)
  <2>1. waiting \in SUBSET readbackRequests
    OBVIOUS
  <2> QED BY <2>1, FS_Subset
<1>2. CASE Cardinality(waiting) = 1
  <2>1. Answered = waiting
    BY <1>2, Zenon DEF Answered
  <2> HIDE DEF waiting
  <2>2. PICK x : waiting = {x}
    BY <1>1, <1>2, FS_Singleton
  <2> QED BY <2>1, <2>2
<1>3. CASE Cardinality(waiting) # 1
  <2>1. Answered = waiting \cap {Event.request}
    BY <1>3, Zenon DEF Answered
  <2> HIDE DEF waiting
  <2> QED BY <2>1
<1> QED BY <1>2, <1>3

LEMMA AnsweredAsked ==
    ASSUME Event.request \in readbackRequests, Event.request.node = Event.node
    PROVE  Event.request \in Answered
<1> DEFINE waiting == {p \in readbackRequests : p.node = Event.node}
<1>0. Event.request \in waiting
  OBVIOUS
<1>1. CASE Cardinality(waiting) = 1
  BY <1>0, <1>1, Zenon DEF Answered
<1>2. CASE Cardinality(waiting) # 1
  <2>1. Answered = waiting \cap {Event.request}
    BY <1>2, Zenon DEF Answered
  <2> HIDE DEF waiting
  <2> QED BY <1>0, <2>1
<1> QED BY <1>1, <1>2

(* What the queue and the helper's view of a node are after properties came *)
(* in, and what that means for a role that is not in flight.                *)
LEMMA ParamParts2 ==
    ASSUME Unlost, OnNodeParam
    PROVE  /\ Event \in Events /\ Event.node \in DOMAIN bindings /\ Event.props \in Props
           /\ Rest \in Seq(Events) /\ audioCommands' = audioCommands
           /\ DOMAIN bindings' = DOMAIN bindings
           /\ \A m \in DOMAIN bindings :
                 /\ bindings'[m].props = IF m = Event.node THEN Event.props ELSE bindings[m].props
                 /\ bindings'[m].subscribed = bindings[m].subscribed
           /\ QueueSound(Rest, bindings', nodeProps, syncRequests, readbackRequests', newest, audioCommands)
<1> DEFINE n == Event.node
           B2 == bindings'
<1>1. /\ Arrives("param")
      /\ B2 = [bindings EXCEPT ![n].props = Event.props]
      /\ readbackRequests' = readbackRequests \ Answered
  BY OnNodeParamCases, Zenon
<1>2. /\ bindings \in Partial(AudioNodes, Bindings) /\ audioCommands \in Nat
      /\ audioEvents \in Seq(Events) /\ AudioTypeOK
  BY SoundParts, TypeParts
<1>3. /\ audioEvents # <<>> /\ Event \in Events /\ Rest \in Seq(Events) /\ Event.type = "param"
      /\ audioCommands' = audioCommands /\ n \in AudioNodes /\ Event.props \in Props
  BY <1>1, <1>2, HeadParts, EventParts
<1>4. QueueSound(audioEvents, bindings, nodeProps, syncRequests, readbackRequests, newest, audioCommands)
  BY SoundParts
<1>5. 1 \in 1..Len(audioEvents) /\ audioEvents[1] = Event
  BY <1>2, <1>3 DEF Event
<1>6. n \in DOMAIN bindings
  <2>1. ForBound(audioEvents, bindings)
    BY <1>4, Zenon DEF QueueSound
  <2> QED BY <1>3, <1>5, <2>1 DEF ForBound
<1>7. /\ DOMAIN B2 = DOMAIN bindings
      /\ \A m \in DOMAIN bindings : /\ B2[m].props = IF m = n THEN Event.props ELSE bindings[m].props
                                    /\ B2[m].subscribed = bindings[m].subscribed
  <2>1. DOMAIN B2 = DOMAIN bindings
    BY <1>1
  <2>2. ASSUME NEW m \in DOMAIN bindings
        PROVE  /\ B2[m].props = IF m = n THEN Event.props ELSE bindings[m].props
               /\ B2[m].subscribed = bindings[m].subscribed
    <3>1. bindings[m] \in Bindings
      BY <1>2, PartialParts
    <3>2. CASE m = n
      <4>1. B2[m] = [bindings[m] EXCEPT !.props = Event.props]
        BY <1>1, <3>2
      <4> HIDE DEF B2
      <4> QED BY <3>1, <3>2, <4>1 DEF Bindings
    <3>3. CASE m # n
      <4>1. B2[m] = bindings[m]
        BY <1>1, <3>3
      <4> HIDE DEF B2
      <4> QED BY <3>3, <4>1
    <3> QED BY <3>2, <3>3
  <2> QED BY <2>1, <2>2
<1>z. n = Event.node
  OBVIOUS
<1> HIDE DEF B2, n
<1>8. Heard(Event, B2, bindings)
  <2>1. \A m : ~IsInfo(Event, m) /\ (IsParam(Event, m) <=> m = n)
    BY <1>3, <1>z DEF IsInfo, IsParam
  <2> QED BY <1>7, <2>1 DEF Heard
<1>9. IsAnswer(Event) => Event.request \notin readbackRequests'
  <2> HAVE IsAnswer(Event)
  <2>1. Event.request.node = n
    <3>1. AnswersRepeat(audioEvents, bindings)
      BY <1>4, Zenon DEF QueueSound
    <3> QED BY <1>5, <1>z, <3>1 DEF AnswersRepeat
  <2>2. Event.request \in readbackRequests => Event.request \in Answered
    BY <1>z, <2>1, AnsweredAsked
  <2> QED BY <1>1, <2>2
<1>10. QueueSound(Tail(audioEvents), B2, nodeProps, syncRequests, readbackRequests', newest, audioCommands)
  <2>1. readbackRequests' \in SUBSET readbackRequests
    BY <1>1
  <2>2. \A m : ~IsInfo(Head(audioEvents), m)
    BY <1>3 DEF IsInfo, Event
  <2>3. Head(audioEvents) = Event
    BY DEF Event
  <2> QED BY <1>2, <1>3, <1>4, <1>8, <1>9, <2>1, <2>2, <2>3, QueueTake
<1> QED BY <1>3, <1>6, <1>7, <1>10, <1>z DEF B2, Rest

LEMMA ParamShown ==
    ASSUME Unlost, OnNodeParam, NEW r \in Roles,
           roles[r].node # Event.node \/ Answered # {}
    PROVE  ShownSound(roles[r], roleShown[r], Rest, bindings', nodeProps, readbackRequests')
<1> DEFINE s == roles[r]
           A2 == readbackRequests'
<1>1. /\ readbackRequests' = readbackRequests \ Answered /\ Arrives("param")
  BY OnNodeParamCases, Zenon
<1>2. /\ DOMAIN bindings' = DOMAIN bindings
      /\ \A m \in DOMAIN bindings :
            bindings'[m].props = IF m = Event.node THEN Event.props ELSE bindings[m].props
  BY ParamParts2
<1>3. /\ audioEvents \in Seq(Events) /\ audioEvents # <<>>
      /\ readbackRequests \in SUBSET Requests /\ s \in RoleStates
  BY <1>1, SoundParts, TypeParts DEF Arrives
<1>4. /\ 1 \in 1..Len(audioEvents) /\ audioEvents[1] = Event
      /\ \A i \in 1..Len(audioEvents) : i # 1 => i - 1 \in 1..Len(Rest) /\ Rest[i - 1] = audioEvents[i]
  BY <1>3 DEF Event, Rest
<1>5. /\ (s.bound => s.node \in DOMAIN bindings)
      /\ ShownSound(s, roleShown[r], audioEvents, bindings, nodeProps, readbackRequests)
  BY SoundParts, Zenon DEF RoleHolds
<1>6. /\ AnswersRepeat(audioEvents, bindings)
      /\ AnswersCome(audioEvents, nodeProps, readbackRequests)
  BY SoundParts, Zenon DEF QueueSound
<1>z. SUFFICES ShownSound(s, roleShown[r], Rest, bindings', nodeProps, A2)
  OBVIOUS
<1> HIDE DEF s
<1>7. ASSUME NEW i \in 1..Len(audioEvents), i # 1, IsAnswer(audioEvents[i]),
             audioEvents[i].node = s.node, audioEvents[i].request \notin A2
      PROVE  ShownSound(s, roleShown[r], Rest, bindings', nodeProps, A2)
  <2>1. i - 1 \in 1..Len(Rest) /\ Rest[i - 1] = audioEvents[i]
    BY <1>4, <1>7
  <2> QED BY <1>7, <2>1 DEF ShownSound
<1>8. CASE s.node # Event.node
  <2>1. s.bound => bindings'[s.node].props = bindings[s.node].props
    BY <1>2, <1>5, <1>8
  <2>2. ASSUME NEW i \in 1..Len(audioEvents), IsAnswer(audioEvents[i]),
               audioEvents[i].node = s.node, audioEvents[i].request \notin readbackRequests
        PROVE  i # 1 /\ audioEvents[i].request \notin A2
    BY <1>1, <1>4, <1>8, <2>2
  <2>3. CASE \E i \in 1..Len(audioEvents) : /\ IsAnswer(audioEvents[i])
                                            /\ audioEvents[i].node = s.node
                                            /\ audioEvents[i].request \notin readbackRequests
    BY <1>7, <2>2, <2>3
  <2>4. CASE ~ \E i \in 1..Len(audioEvents) : /\ IsAnswer(audioEvents[i])
                                              /\ audioEvents[i].node = s.node
                                              /\ audioEvents[i].request \notin readbackRequests
    BY <1>5, <2>1, <2>4 DEF ShownSound
  <2> QED BY <2>3, <2>4
<1>9. CASE s.node = Event.node /\ Answered # {}
  <2>1. PICK q \in Answered : TRUE
    BY <1>9
  <2>2. q \in readbackRequests /\ q.node = s.node /\ q \notin A2
    BY <1>1, <1>9, <2>1, AnsweredParts
  <2>3. CASE IsAnswer(Event) /\ Event.request = q
    <3>1. Says(audioEvents, bindings[s.node].props, s.node, 1, Event.props)
      BY <1>4, <1>6, <1>9, <2>3 DEF AnswersRepeat
    <3>2. bindings[s.node].props = Event.props
      BY <3>1, SaysFirst
    <3>3. s.bound => bindings'[s.node].props = bindings[s.node].props
      BY <1>2, <1>5, <1>9, <3>2
    <3>4. ASSUME NEW i \in 1..Len(audioEvents), IsAnswer(audioEvents[i]),
                 audioEvents[i].node = s.node, audioEvents[i].request \notin readbackRequests
          PROVE  i # 1 /\ audioEvents[i].request \notin A2
      BY <1>1, <1>4, <2>2, <2>3, <3>4
    <3>5. CASE \E i \in 1..Len(audioEvents) : /\ IsAnswer(audioEvents[i])
                                              /\ audioEvents[i].node = s.node
                                              /\ audioEvents[i].request \notin readbackRequests
      BY <1>7, <3>4, <3>5
    <3>6. CASE ~ \E i \in 1..Len(audioEvents) : /\ IsAnswer(audioEvents[i])
                                                /\ audioEvents[i].node = s.node
                                                /\ audioEvents[i].request \notin readbackRequests
      BY <1>5, <3>3, <3>6 DEF ShownSound
    <3> QED BY <3>5, <3>6
  <2>4. CASE ~(IsAnswer(Event) /\ Event.request = q)
    <3>1. CASE s.node \in DOMAIN nodeProps
      <4>1. PICK i \in 1..Len(audioEvents) : IsAnswer(audioEvents[i]) /\ audioEvents[i].request = q
        BY <1>6, <2>2, <3>1 DEF AnswersCome
      <4>2. i # 1
        BY <1>4, <2>4, <4>1
      <4>3. audioEvents[i].node = s.node
        BY <1>6, <2>2, <4>1 DEF AnswersRepeat
      <4> QED BY <1>7, <2>2, <4>1, <4>2, <4>3
    <3>2. CASE s.node \notin DOMAIN nodeProps
      BY <3>2 DEF ShownSound
    <3> QED BY <3>1, <3>2
  <2> QED BY <2>3, <2>4
<1>y. s.node # Event.node \/ Answered # {}
  BY DEF s
<1> QED BY <1>8, <1>9, <1>y
(* A role is done with its request.                                         *)
LEMMA ClearedSound ==
    ASSUME NEW s \in RoleStates, NEW q \in Requests, NEW R, NEW N, NEW n,
           RoleSound(q.role, s, Own(q.role, s, R), N, n), q \in R, Matches(s, q),
           NEW t, t = ClearInFlight(s, q)
    PROVE  /\ ~InFlight(t) /\ Own(q.role, t, R \ {q}) = {} /\ t.generation <= n
           /\ Stands(q.role, t, t.queuedVolume, "volume", N, n)
           /\ Stands(q.role, t, t.queuedMute, "mute", N, n)
<1> DEFINE own == Own(q.role, s, R)
<1>1. /\ t.node = s.node /\ t.generation = s.generation
      /\ t.queuedVolume = s.queuedVolume /\ t.queuedMute = s.queuedMute
      /\ t.volumeInFlight = (q.op # "volume" /\ s.volumeInFlight)
      /\ t.muteInFlight = (q.op = "volume" /\ s.muteInFlight)
  BY ClearedParts
<1>2. q \in own
  BY DEF Own
<1>3. /\ s.generation <= n
      /\ ~(s.volumeInFlight /\ s.muteInFlight)
      /\ \A p \in own : Flies(s, p.op)
      /\ \A p, x \in own : p = x
      /\ Waits(q.role, s, s.queuedVolume, "volume", N, n)
      /\ Waits(q.role, s, s.queuedMute, "mute", N, n)
  BY Zenon DEF RoleSound
<1>4. own = {q}
  <2> HIDE DEF own
  <2> QED BY <1>2, <1>3
<1>5. Own(q.role, t, R \ {q}) = {}
  <2>1. \A p \in Own(q.role, t, R \ {q}) : p \in own /\ p # q
    BY <1>1 DEF Own, Matches
  <2> HIDE DEF own
  <2> QED BY <1>4, <2>1
<1>6. Flies(s, q.op)
  <2> HIDE DEF own
  <2> QED BY <1>2, <1>3
<1>7. ~InFlight(t)
  BY <1>1, <1>3, <1>6 DEF Flies, InFlight
<1>8. Stands(q.role, t, t.queuedVolume, "volume", N, n) /\ Stands(q.role, t, t.queuedMute, "mute", N, n)
  BY <1>1, <1>3 DEF Stands, Waits, Matches
<1> QED BY <1>1, <1>3, <1>5, <1>7, <1>8

(* What waits takes its place.                                              *)
LEMMA QueuedSound ==
    ASSUME AudioTypeOK, connected, ~overtaken, NEW r \in Roles, NEW s \in RoleStates,
           NEW queue \in Seq(Events), NEW B, NEW A \in SUBSET Requests, NEW n \in Nat, NEW shown,
           QueueSound(queue, B, nodeProps, syncRequests, A, newest, n), syncRequests \cap A = {},
           \A x \in Roles \ {r} :
              RoleHolds(x, roles[x], shown[x], queue, B, nodeProps, syncRequests, A, newest, n),
           \A k \in Roles \X Kinds : newest[k] <= n,
           s.bound, s.node \in DOMAIN B, s.generation <= n, ~InFlight(s),
           Own(r, s, syncRequests \cup A) = {},
           Stands(r, s, s.queuedVolume, "volume", newest, n),
           Stands(r, s, s.queuedMute, "mute", newest, n),
           ShownSound(s, shown[r], queue, B, nodeProps, A),
           B[s.node].subscribed = bindings[s.node].subscribed,
           DispatchQueued(r, s, queue)
    PROVE  /\ AllSound(roles', shown, audioEvents', B, nodeProps', syncRequests', A, newest', n)
           /\ \A k \in Roles \X Kinds : newest'[k] <= n
           /\ ~overtaken'
<1>1. s.queuedVolume \in Volumes \cup {NoRequest} /\ s.queuedMute \in Mutes \cup {NoRequest}
  BY RoleParts
<1>a. ASSUME NEW q, Matches(s, q)
      PROVE  s.node = q.node /\ s.generation = q.generation
  BY <1>a DEF Matches
<1>2. CASE ~InFlight(s) /\ s.queuedMute # NoRequest /\ Dispatch(s.queuedMute, Emptied(s, "mute"), queue)
  <2> DEFINE q == s.queuedMute
             t == Emptied(s, "mute")
  <2>1. q \in Requests /\ q.op = "mute"
    BY <1>1, <1>2, SlotParts
  <2>2. q.role = r /\ Matches(s, q) /\ newest[<<r, "mute">>] < q.id /\ q.id <= n
    BY <1>2 DEF Stands
  <2>3. /\ t \in RoleStates /\ t.node = s.node /\ t.generation = s.generation /\ t.bound = s.bound
        /\ t.volumeInFlight = s.volumeInFlight /\ t.muteInFlight = s.muteInFlight
        /\ t.queuedVolume = s.queuedVolume /\ t.queuedMute = NoRequest
    BY EmptiedParts
  <2>4. Dispatch(q, t, queue)
    BY <1>2
  <2> HIDE DEF q, t
  <2>5. ~InFlight(t) /\ Matches(t, q) /\ Newer(q, newest)
    BY <2>1, <2>2, <2>3 DEF InFlight, Matches, Newer
  <2>6. Own(r, t, syncRequests \cup A) = {} /\ Stands(r, t, t.queuedVolume, "volume", newest, n)
    BY <2>3 DEF Own, Matches, Stands
  <2>7. ShownSound(t, shown[r], queue, B, nodeProps, A)
    BY <2>3, <2>5 DEF ShownSound
  <2>8. B[q.node].subscribed = bindings[q.node].subscribed
    BY <1>a, <2>2
  <2>9. q.op = "volume" => t.queuedVolume = NoRequest
    BY <2>1
  <2> QED BY <2>1, <2>2, <2>3, <2>4, <2>5, <2>6, <2>7, <2>8, <2>9, DispatchSound
<1>3. CASE /\ ~InFlight(s) /\ s.queuedMute = NoRequest /\ s.queuedVolume # NoRequest
           /\ Dispatch(s.queuedVolume, Emptied(s, "volume"), queue)
  <2> DEFINE q == s.queuedVolume
             t == Emptied(s, "volume")
  <2>1. q \in Requests /\ q.op = "volume"
    BY <1>1, <1>3, SlotParts
  <2>2. q.role = r /\ Matches(s, q) /\ newest[<<r, "volume">>] < q.id /\ q.id <= n
    BY <1>3 DEF Stands
  <2>3. /\ t \in RoleStates /\ t.node = s.node /\ t.generation = s.generation /\ t.bound = s.bound
        /\ t.volumeInFlight = s.volumeInFlight /\ t.muteInFlight = s.muteInFlight
        /\ t.queuedVolume = NoRequest /\ t.queuedMute = NoRequest
    BY <1>3, EmptiedParts
  <2>4. Dispatch(q, t, queue)
    BY <1>3
  <2> HIDE DEF q, t
  <2>5. ~InFlight(t) /\ Matches(t, q) /\ Newer(q, newest)
    BY <2>1, <2>2, <2>3 DEF InFlight, Matches, Newer
  <2>6. Own(r, t, syncRequests \cup A) = {} /\ Stands(r, t, t.queuedVolume, "volume", newest, n)
    BY <2>3 DEF Own, Matches, Stands
  <2>7. ShownSound(t, shown[r], queue, B, nodeProps, A)
    BY <2>3, <2>5 DEF ShownSound
  <2>8. B[q.node].subscribed = bindings[q.node].subscribed
    BY <1>a, <2>2
  <2> QED BY <2>1, <2>2, <2>3, <2>4, <2>5, <2>6, <2>7, <2>8, DispatchSound
<1>4. CASE /\ InFlight(s) \/ (s.queuedMute = NoRequest /\ s.queuedVolume = NoRequest)
           /\ roles' = [roles EXCEPT ![r] = s]
           /\ syncRequests' = syncRequests
           /\ NotSent(queue)
  <2>1. audioEvents' = queue /\ nodeProps' = nodeProps /\ newest' = newest /\ overtaken' = overtaken
    BY <1>4 DEF NotSent
  <2>2. RoleSound(r, s, {}, newest, n)
    BY <1>4 DEF RoleSound, Waits, InFlight
  <2>3. RoleHolds(r, s, shown[r], queue, B, nodeProps, syncRequests, A, newest, n)
    BY <2>2 DEF RoleHolds
  <2>4. ASSUME NEW x \in Roles
        PROVE  RoleHolds(x, roles'[x], shown[x], queue, B, nodeProps, syncRequests, A, newest, n)
    <3>0. roles \in [Roles -> RoleStates]
      BY TypeParts
    <3>1. CASE x = r
      <4>1. roles'[x] = s
        BY <1>4, <3>0, <3>1
      <4> QED BY <2>3, <3>1, <4>1
    <3>2. CASE x # r
      <4>1. roles'[x] = roles[x]
        BY <1>4, <3>0, <3>2
      <4> QED BY <3>2, <4>1
    <3> QED BY <3>1, <3>2
  <2> QED BY <1>4, <2>1, <2>4 DEF AllSound
<1> QED BY <1>2, <1>3, <1>4, QueuedCases, Zenon
LEMMA OnNodeParamSound ==
    ASSUME Unlost, OnNodeParam
    PROVE  AudioSound' /\ ~overtaken'
<1> DEFINE n == Event.node
           A2 == readbackRequests'
           B2 == bindings'
           c == audioCommands
<1>1. /\ Arrives("param") /\ readbackRequests' = readbackRequests \ Answered
      /\ UNCHANGED <<helperReady, knownNodes, connected>>
  BY OnNodeParamCases, Zenon
<1>2. /\ roles \in [Roles -> RoleStates] /\ syncRequests \in SUBSET Requests
      /\ readbackRequests \in SUBSET Requests /\ A2 \in SUBSET Requests /\ c \in Nat /\ AudioTypeOK
      /\ roleShown \in [Roles -> Lines]
  BY <1>1, SoundParts, TypeParts DEF AudioTypeOK
<1>3. /\ ~overtaken /\ DOMAIN bindings \subseteq knownNodes /\ connected
      /\ IsFiniteSet(readbackRequests) /\ (\A k \in Roles \X Kinds : newest[k] <= c)
      /\ \A r \in Roles : RoleHolds(r, roles[r], roleShown[r], audioEvents, bindings, nodeProps,
                                    syncRequests, readbackRequests, newest, c)
      /\ syncRequests \cap readbackRequests = {}
  BY SoundParts
<1>4. /\ Event.props \in Props /\ n \in DOMAIN bindings /\ Rest \in Seq(Events)
      /\ audioCommands' = c
      /\ DOMAIN B2 = DOMAIN bindings
      /\ \A m \in DOMAIN bindings :
            /\ B2[m].props = IF m = n THEN Event.props ELSE bindings[m].props
            /\ B2[m].subscribed = bindings[m].subscribed
      /\ QueueSound(Rest, B2, nodeProps, syncRequests, A2, newest, c)
  BY ParamParts2
<1>5. IsFiniteSet(A2)
  <2>1. A2 \in SUBSET readbackRequests
    BY <1>1
  <2> QED BY <1>3, <2>1, FS_Subset
<1>6. DOMAIN B2 \subseteq knownNodes'
  BY <1>1, <1>3, <1>4
<1>7. ASSUME NEW r \in Roles
      PROVE  /\ roles[r] \in RoleStates
             /\ RoleSound(r, roles[r], Own(r, roles[r], syncRequests \cup readbackRequests), newest, c)
             /\ roles[r].bound => roles[r].node \in DOMAIN B2
             /\ roles[r].node # n \/ Answered # {}
                => ShownSound(roles[r], roleShown[r], Rest, B2, nodeProps, A2)
  <2>1. roles[r].node # n \/ Answered # {}
        => ShownSound(roles[r], roleShown[r], Rest, B2, nodeProps, A2)
    BY ParamShown
  <2>2. RoleHolds(r, roles[r], roleShown[r], audioEvents, bindings, nodeProps,
                  syncRequests, readbackRequests, newest, c) /\ roles[r] \in RoleStates
    BY <1>2, <1>3
  <2> QED BY <1>4, <2>1, <2>2, Zenon DEF RoleHolds
<1>d. syncRequests \cap A2 = {}
  BY <1>1, <1>3
<1>z. Event.node = n
  OBVIOUS
<1>8. SUFFICES /\ AllSound(roles', roleShown', audioEvents', B2, nodeProps', syncRequests', A2, newest', c)
               /\ \A k \in Roles \X Kinds : newest'[k] <= c
               /\ ~overtaken'
  BY <1>4, <1>5, <1>6 DEF AudioSound
<1>a. readbackRequests' = A2 /\ bindings' = B2
  OBVIOUS
<1> HIDE DEF n, A2, B2, c
<1>9. CASE Answered = {} /\ PublishExternalState
           /\ roles' = roles /\ syncRequests' = syncRequests /\ NotSent(Rest)
  <2>1. A2 = readbackRequests
    BY <1>1, <1>9, <1>a
  <2>2. ASSUME NEW r \in Roles
        PROVE  RoleHolds(r, roles[r], roleShown'[r], Rest, B2, nodeProps, syncRequests, A2, newest, c)
    <3>0. roles[r] \in RoleStates
          /\ RoleSound(r, roles[r], Own(r, roles[r], syncRequests \cup A2), newest, c)
          /\ (roles[r].bound => roles[r].node \in DOMAIN B2)
      BY <1>7, <2>1
    <3>1. CASE roles[r].bound /\ roles[r].node = n /\ ~InFlight(roles[r])
      <4>1. roleShown'[r] = [generation |-> roles[r].generation, props |-> Event.props]
        BY <1>9, <1>z, <3>1 DEF PublishExternalState
      <4>2. B2[roles[r].node].props = Event.props
        BY <1>4, <3>1
      <4>3. ShownSound(roles[r], roleShown'[r], Rest, B2, nodeProps, A2)
        BY <4>1, <4>2 DEF ShownSound
      <4> QED BY <3>0, <4>3, Zenon DEF RoleHolds
    <3>2. CASE ~(roles[r].bound /\ roles[r].node = n /\ ~InFlight(roles[r]))
      <4>1. roleShown'[r] = roleShown[r]
        BY <1>9, <1>z, <3>2 DEF PublishExternalState
      <4>2. ShownSound(roles[r], roleShown[r], Rest, B2, nodeProps, A2)
        <5>1. CASE roles[r].node # n
          BY <1>7, <5>1
        <5>2. CASE ~roles[r].bound \/ InFlight(roles[r])
          BY <5>2 DEF ShownSound
        <5> QED BY <3>2, <5>1, <5>2
      <4>3. ShownSound(roles[r], roleShown'[r], Rest, B2, nodeProps, A2)
        BY <4>1, <4>2
      <4> QED BY <3>0, <4>3, Zenon DEF RoleHolds
    <3> QED BY <3>1, <3>2
  <2>3. audioEvents' = Rest /\ nodeProps' = nodeProps /\ newest' = newest /\ overtaken' = overtaken
    BY <1>9 DEF NotSent
  <2> QED BY <1>3, <1>4, <1>9, <1>d, <2>2, <2>3 DEF AllSound
<1>10. CASE \E q \in Answered : CompleteRequest(q)
  <2>1. PICK q \in Answered : CompleteRequest(q)
    BY <1>10
  <2>2. Answered = {q}
    BY <1>3, AnsweredOne
  <2>3. /\ q \in readbackRequests /\ q \in Requests /\ q.role \in Roles /\ q.node = n
        /\ A2 = readbackRequests \ {q} /\ q \notin syncRequests
    <3>1. q \in readbackRequests /\ q.node = n
      BY <1>z, AnsweredParts
    <3>2. q \in Requests /\ q.role \in Roles
      BY <1>2, <3>1, RequestParts
    <3> QED BY <1>1, <1>3, <1>a, <2>2, <3>1, <3>2
  <2>4. ASSUME NEW r \in Roles
        PROVE  ShownSound(roles[r], roleShown[r], Rest, B2, nodeProps, A2)
    BY <1>7, <2>2
  <2>5. ASSUME NEW r \in Roles, r # q.role \/ ~(Matches(roles[r], q) /\ roles[r].bound)
        PROVE  RoleHolds(r, roles[r], roleShown[r], Rest, B2, nodeProps, syncRequests, A2, newest, c)
    <3> DEFINE s == roles[r]
               own == Own(r, s, syncRequests \cup readbackRequests)
               own2 == Own(r, s, syncRequests \cup A2)
    <3>1. RoleSound(r, s, own, newest, c) /\ (s.bound => s.node \in DOMAIN B2)
      BY <1>7
    <3>2. own2 \in SUBSET own
      BY <2>3 DEF Own
    <3>3. q \in own => ~s.bound
      BY <2>5 DEF Own
    <3>4. q \notin own => own2 = own
      BY <2>3 DEF Own
    <3> HIDE DEF own, own2
    <3>5. (InFlight(s) => s.bound) /\ (InFlight(s) => own # {})
      BY <3>1, Zenon DEF RoleSound
    <3>6. RoleSound(r, s, own2, newest, c)
      BY <3>1, <3>2, <3>3, <3>4, <3>5, SoundFewer
    <3>7. ShownSound(s, roleShown[r], Rest, B2, nodeProps, A2)
      BY <2>4
    <3> QED BY <3>1, <3>6, <3>7, Zenon DEF RoleHolds, own2
  <2>6. CASE /\ ~(Matches(roles[q.role], q) /\ roles[q.role].bound)
             /\ roleShown' = roleShown /\ roles' = roles /\ syncRequests' = syncRequests
             /\ NotSent(Rest)
    <3>1. \A r \in Roles :
             RoleHolds(r, roles[r], roleShown[r], Rest, B2, nodeProps, syncRequests, A2, newest, c)
      BY <2>5, <2>6
    <3>2. audioEvents' = Rest /\ nodeProps' = nodeProps /\ newest' = newest /\ overtaken' = overtaken
      BY <2>6 DEF NotSent
    <3> QED BY <1>3, <1>4, <1>d, <2>6, <3>1, <3>2 DEF AllSound
  <2>7. CASE /\ Matches(roles[q.role], q) /\ roles[q.role].bound
             /\ roleShown' = [roleShown EXCEPT ![q.role] =
                   [generation |-> roles[q.role].generation, props |-> Event.props]]
             /\ DispatchQueued(q.role, ClearInFlight(roles[q.role], q), Rest)
    <3> DEFINE s == roles[q.role]
               t == ClearInFlight(s, q)
    <3>1. /\ t \in RoleStates /\ t.node = s.node /\ t.generation = s.generation /\ t.bound = s.bound
          /\ s \in RoleStates
      BY <1>7, <2>3, ClearedParts
    <3>2. /\ RoleSound(q.role, s, Own(q.role, s, syncRequests \cup readbackRequests), newest, c)
          /\ Matches(s, q) /\ s.bound /\ s.node \in DOMAIN B2
      BY <1>7, <2>3, <2>7
    <3>3. q \in syncRequests \cup readbackRequests
      BY <2>3
    <3>4. DispatchQueued(q.role, t, Rest) /\ t = ClearInFlight(s, q)
      BY <2>7
    <3> HIDE DEF t, s
    <3>5. /\ ~InFlight(t) /\ Own(q.role, t, (syncRequests \cup readbackRequests) \ {q}) = {}
          /\ t.generation <= c
          /\ Stands(q.role, t, t.queuedVolume, "volume", newest, c)
          /\ Stands(q.role, t, t.queuedMute, "mute", newest, c)
      BY <2>3, <3>1, <3>2, <3>3, <3>4, ClearedSound
    <3>6. (syncRequests \cup readbackRequests) \ {q} = syncRequests \cup A2
      BY <2>3
    <3>7. Own(q.role, t, syncRequests \cup A2) = {}
      BY <3>5, <3>6
    <3>8. t.bound /\ t.node = n
      BY <2>3, <3>1, <3>2 DEF Matches
    <3>9. B2[t.node].subscribed = bindings[t.node].subscribed /\ t.node \in DOMAIN B2
          /\ B2[t.node].props = Event.props
      BY <1>4, <3>8
    <3>10. roleShown'[q.role] = [generation |-> t.generation, props |-> B2[t.node].props]
      <4>1. roleShown'[q.role] = [generation |-> s.generation, props |-> Event.props]
        BY <1>2, <2>3, <2>7 DEF s
      <4> QED BY <3>1, <3>9, <4>1
    <3>11. ShownSound(t, roleShown'[q.role], Rest, B2, nodeProps, A2)
      BY <3>10 DEF ShownSound
    <3>12. ASSUME NEW x \in Roles \ {q.role}
           PROVE  RoleHolds(x, roles[x], roleShown'[x], Rest, B2, nodeProps, syncRequests, A2, newest, c)
      <4>1. roleShown'[x] = roleShown[x]
        BY <1>2, <2>7
      <4>2. RoleHolds(x, roles[x], roleShown[x], Rest, B2, nodeProps, syncRequests, A2, newest, c)
        BY <2>5
      <4> QED BY <4>1, <4>2
    <3> QED BY <1>2, <1>3, <1>4, <1>d, <2>3, <3>1, <3>4, <3>5, <3>7, <3>8, <3>9, <3>11, <3>12, QueuedSound
  <2> QED BY <2>1, <2>6, <2>7, CompleteCases, Zenon
<1> QED BY <1>9, <1>10, OnNodeParamCases, Zenon
(* What others do to nodes.                                                 *)
LEMMA RoleElsewhere ==
    ASSUME NEW r, NEW s \in RoleStates, NEW line, NEW E, NEW B, NEW P, NEW Y, NEW A, NEW N,
           NEW n \in Nat, RoleHolds(r, s, line, E, B, P, Y, A, N, n), NEW F, NEW P2,
           \A i \in 1..Len(E) : \E j \in 1..Len(F) : F[j] = E[i],
           s.bound /\ s.node \in DOMAIN P2 => s.node \in DOMAIN P
    PROVE  RoleHolds(r, s, line, F, B, P2, Y, A, N, n)
<1>1. RoleSound(r, s, Own(r, s, Y \cup A), N, n) /\ ShownSound(s, line, E, B, P, A)
      /\ (s.bound => s.node \in DOMAIN B)
  BY Zenon DEF RoleHolds
<1>2. ShownSound(s, line, F, B, P2, A)
  BY <1>1 DEF ShownSound
<1> QED BY <1>1, <1>2, Zenon DEF RoleHolds

LEMMA AppendMove ==
    ASSUME NEW E \in Seq(Events), NEW e \in Events, NEW B, NEW P, NEW Y, NEW A, NEW N, NEW n,
           QueueSound(E, B, P, Y, A, N, n), e.type \in {"global", "remove"}
    PROVE  /\ QueueSound(Append(E, e), B, P, Y, A, N, n)
           /\ \A i \in 1..Len(E) : \E j \in 1..Len(Append(E, e)) : Append(E, e)[j] = E[i]
<1>1. /\ e.type \notin {"info", "param"} /\ e.type # "param" /\ ~IsAnswer(e)
      /\ e.type \notin {"param", "done"} /\ e.type # "error"
  BY DEF IsAnswer
<1>2. SendSound(E, e, B, P, Y, N)
  BY <1>1, Zenon DEF SendSound
<1>3. \A i \in 1..Len(E) : i \in 1..Len(Append(E, e)) /\ Append(E, e)[i] = E[i]
  BY AppendIndex
<1> QED BY <1>2, <1>3, QueueSend

LEMMA ChangeSound ==
    ASSUME Unlost, PipeWireChanges, connected'
    PROVE  AudioSound' /\ ~overtaken'
<1> DEFINE c == audioCommands
           Y == syncRequests
           A == readbackRequests
<1>1. /\ UNCHANGED <<helperReady, knownNodes, roles, bindings, requests, roleShown, newest,
                     overtaken, audioCommands>>
      /\ \/ \E n \in DOMAIN nodeProps : \E p \in Props : OtherWrites(n, p)
         \/ \E n \in DOMAIN nodeProps : NodeGoes(n)
         \/ \E n \in AudioNodes \ (DOMAIN nodeProps \cup knownNodes) : NodeComes(n)
         \/ ConnectionLost
  BY ChangeCases, Zenon
<1>2. /\ roles \in [Roles -> RoleStates] /\ Y \in SUBSET Requests
      /\ A \in SUBSET Requests /\ c \in Nat /\ nodeProps \in Partial(AudioNodes, Props)
      /\ audioEvents \in Seq(Events) /\ DOMAIN nodeProps \in SUBSET AudioNodes
  BY SoundParts, TypeParts, PartialParts
<1>3. /\ ~overtaken /\ DOMAIN bindings \subseteq knownNodes
      /\ IsFiniteSet(A) /\ (\A k \in Roles \X Kinds : newest[k] <= c)
      /\ QueueSound(audioEvents, bindings, nodeProps, Y, A, newest, c)
      /\ \A r \in Roles : RoleHolds(r, roles[r], roleShown[r], audioEvents, bindings, nodeProps,
                                    Y, A, newest, c)
      /\ Y \cap A = {}
  BY SoundParts
<1> HIDE DEF Y, A, c
<1>4. SUFFICES /\ QueueSound(audioEvents', bindings, nodeProps', Y, A, newest, c)
               /\ \A i \in 1..Len(audioEvents) : \E j \in 1..Len(audioEvents') : audioEvents'[j] = audioEvents[i]
               /\ \A x \in DOMAIN bindings : x \in DOMAIN nodeProps' => x \in DOMAIN nodeProps
  <2>1. ASSUME /\ QueueSound(audioEvents', bindings, nodeProps', Y, A, newest, c)
               /\ \A i \in 1..Len(audioEvents) : \E j \in 1..Len(audioEvents') : audioEvents'[j] = audioEvents[i]
               /\ \A x \in DOMAIN bindings : x \in DOMAIN nodeProps' => x \in DOMAIN nodeProps,
               NEW r \in Roles
        PROVE  RoleHolds(r, roles[r], roleShown[r], audioEvents', bindings, nodeProps', Y, A, newest, c)
    <3> DEFINE s == roles[r]
    <3>1. s \in RoleStates /\ RoleHolds(r, s, roleShown[r], audioEvents, bindings, nodeProps,
                                        Y, A, newest, c)
      BY <1>2, <1>3
    <3> HIDE DEF s
    <3>2. s.bound /\ s.node \in DOMAIN nodeProps' => s.node \in DOMAIN nodeProps
      BY <2>1, <3>1 DEF RoleHolds
    <3>3. RoleHolds(r, s, roleShown[r], audioEvents', bindings, nodeProps', Y, A, newest, c)
      BY <1>2, <2>1, <3>1, <3>2, RoleElsewhere
    <3> QED BY <3>3 DEF s
  <2>2. roles' = roles /\ roleShown' = roleShown /\ bindings' = bindings /\ newest' = newest
        /\ overtaken' = overtaken /\ knownNodes' = knownNodes /\ syncRequests' = Y
        /\ readbackRequests' = A /\ audioCommands' = c
    BY <1>1 DEF Y, A, c, requests
  <2> QED BY <1>3, <2>1, <2>2 DEF AudioSound, AllSound
<1>5. CASE \E n \in DOMAIN nodeProps : \E p \in Props : OtherWrites(n, p)
  <2>1. PICK n \in DOMAIN nodeProps, p \in Props : OtherWrites(n, p)
    BY <1>5
  <2>2. n \in AudioNodes /\ nodeProps' = [nodeProps EXCEPT ![n] = p]
    BY <1>2, <2>1 DEF OtherWrites
  <2>3. \/ /\ n \in DOMAIN bindings /\ bindings[n].subscribed
           /\ Param(n, p, NoRequest) \in Events
           /\ audioEvents' = Append(audioEvents, Param(n, p, NoRequest))
        \/ /\ ~(n \in DOMAIN bindings /\ bindings[n].subscribed)
           /\ audioEvents' = audioEvents
    BY <1>2, <2>1, <2>2, OtherCases
  <2>4. QueueSound(audioEvents', bindings, [nodeProps EXCEPT ![n] = p], Y, A, newest, c)
    BY <1>2, <1>3, <2>1, <2>3, QueueWrite
  <2>5. \A i \in 1..Len(audioEvents) : i \in 1..Len(audioEvents') /\ audioEvents'[i] = audioEvents[i]
    BY <1>2, <2>3, AppendIndex
  <2> QED BY <1>2, <2>2, <2>4, <2>5
<1>6. CASE \E n \in DOMAIN nodeProps : NodeGoes(n)
  <2>1. PICK n \in DOMAIN nodeProps : NodeGoes(n)
    BY <1>6
  <2> DEFINE e == [type |-> "remove", node |-> n]
  <2>2. n \in AudioNodes /\ e \in Events /\ e.type = "remove"
    BY <1>2, MovePart
  <2>3. nodeProps' = Omit(nodeProps, {n}) /\ audioEvents' = Append(audioEvents, e)
    BY <2>1 DEF NodeGoes
  <2> HIDE DEF e
  <2>4. /\ QueueSound(audioEvents', bindings, nodeProps, Y, A, newest, c)
        /\ \A i \in 1..Len(audioEvents) : \E j \in 1..Len(audioEvents') : audioEvents'[j] = audioEvents[i]
        /\ audioEvents' \in Seq(Events)
    BY <1>2, <1>3, <2>2, <2>3, AppendMove, AppendIndex
  <2>5. \A x \in DOMAIN bindings : x \in DOMAIN nodeProps' => x \in DOMAIN nodeProps /\ nodeProps'[x] = nodeProps[x]
    <3>1. DOMAIN nodeProps' = DOMAIN nodeProps \ {n}
      BY <2>3, OmitDomain
    <3>2. \A x \in DOMAIN nodeProps : x \notin {n} => nodeProps'[x] = nodeProps[x]
      BY <2>3, OmitValues
    <3> QED BY <3>1, <3>2
  <2>6. Y \in SUBSET Y /\ A \in SUBSET A /\ c <= c
    BY <1>2
  <2>7. QueueSound(audioEvents', bindings, nodeProps', Y, A, newest, c)
    BY <1>2, <2>4, <2>5, <2>6, QueueLater
  <2> QED BY <2>4, <2>5, <2>7
<1>7. CASE \E n \in AudioNodes \ (DOMAIN nodeProps \cup knownNodes) : NodeComes(n)
  <2>1. PICK n \in AudioNodes \ (DOMAIN nodeProps \cup knownNodes) : NodeComes(n)
    BY <1>7
  <2> DEFINE e == [type |-> "global", node |-> n]
             v == [level |-> 0, muted |-> FALSE]
  <2>2. e \in Events /\ e.type = "global" /\ n \notin DOMAIN bindings
    BY <1>3, MovePart
  <2>3. nodeProps' = Put(nodeProps, n, v) /\ audioEvents' = Append(audioEvents, e)
    BY <2>1 DEF NodeComes
  <2> HIDE DEF e, v
  <2>4. /\ QueueSound(audioEvents', bindings, nodeProps, Y, A, newest, c)
        /\ \A i \in 1..Len(audioEvents) : \E j \in 1..Len(audioEvents') : audioEvents'[j] = audioEvents[i]
        /\ audioEvents' \in Seq(Events)
    BY <1>2, <1>3, <2>2, <2>3, AppendMove, AppendIndex
  <2>5. \A x \in DOMAIN bindings : x \in DOMAIN nodeProps' => x \in DOMAIN nodeProps /\ nodeProps'[x] = nodeProps[x]
    <3>1. DOMAIN nodeProps' = DOMAIN nodeProps \cup {n}
      BY <2>3, PutDomain
    <3>2. \A x \in DOMAIN nodeProps : x # n => nodeProps'[x] = nodeProps[x]
      BY <2>3, PutValues
    <3> QED BY <2>2, <3>1, <3>2
  <2>6. Y \in SUBSET Y /\ A \in SUBSET A /\ c <= c
    BY <1>2
  <2>7. QueueSound(audioEvents', bindings, nodeProps', Y, A, newest, c)
    BY <1>2, <2>4, <2>5, <2>6, QueueLater
  <2> QED BY <2>4, <2>5, <2>7
<1>8. CASE ConnectionLost
  BY <1>8 DEF ConnectionLost
<1> QED BY <1>1, <1>5, <1>6, <1>7, <1>8
(* A command is counted before it is handled.                               *)
LEMMA CountedSound ==
    ASSUME Unlost, NEW c, c = audioCommands + 1
    PROVE  /\ c \in Nat
           /\ QueueSound(audioEvents, bindings, nodeProps, syncRequests, readbackRequests, newest, c)
           /\ \A r \in Roles : RoleHolds(r, roles[r], roleShown[r], audioEvents, bindings, nodeProps,
                                         syncRequests, readbackRequests, newest, c)
           /\ \A k \in Roles \X Kinds : newest[k] <= c
           /\ \A q \in syncRequests \cup readbackRequests : q.generation < c
<1> DEFINE d == audioCommands
           Y == syncRequests
           A == readbackRequests
<1>1. /\ roles \in [Roles -> RoleStates] /\ audioEvents \in Seq(Events)
      /\ Y \in SUBSET Requests /\ A \in SUBSET Requests /\ d \in Nat
      /\ newest \in [Roles \X Kinds -> Nat]
  BY SoundParts, TypeParts
<1>2. /\ QueueSound(audioEvents, bindings, nodeProps, Y, A, newest, d)
      /\ \A r \in Roles : RoleHolds(r, roles[r], roleShown[r], audioEvents, bindings, nodeProps,
                                    Y, A, newest, d)
      /\ \A k \in Roles \X Kinds : newest[k] <= d
  BY SoundParts
<1>3. c \in Nat /\ d <= c /\ d < c
  BY <1>1
<1> HIDE DEF d, Y, A
<1>4. QueueSound(audioEvents, bindings, nodeProps, Y, A, newest, c)
  <2>1. Y \in SUBSET Y /\ A \in SUBSET A
        /\ \A x \in DOMAIN bindings : x \in DOMAIN nodeProps
              => x \in DOMAIN nodeProps /\ nodeProps[x] = nodeProps[x]
    OBVIOUS
  <2> QED BY <1>1, <1>2, <1>3, <2>1, QueueLater
<1>5. ASSUME NEW r \in Roles
      PROVE  RoleHolds(r, roles[r], roleShown[r], audioEvents, bindings, nodeProps, Y, A, newest, c)
  <2> DEFINE s == roles[r]
             own == Own(r, s, Y \cup A)
  <2>1. s \in RoleStates /\ RoleHolds(r, s, roleShown[r], audioEvents, bindings, nodeProps,
                                      Y, A, newest, d)
    BY <1>1, <1>2
  <2> HIDE DEF s
  <2>2. RoleSound(r, s, own, newest, d) /\ ShownSound(s, roleShown[r], audioEvents, bindings, nodeProps, A)
        /\ (s.bound => s.node \in DOMAIN bindings)
    BY <2>1, Zenon DEF RoleHolds
  <2> HIDE DEF own
  <2>3. \A op \in Kinds : newest[<<r, op>>] = newest[<<r, op>>]
    OBVIOUS
  <2>4. RoleSound(r, s, own, newest, c)
    BY <1>1, <1>3, <2>1, <2>2, <2>3, SoundLater
  <2>5. RoleHolds(r, s, roleShown[r], audioEvents, bindings, nodeProps, Y, A, newest, c)
    BY <2>2, <2>4, Zenon DEF RoleHolds, own
  <2> QED BY <2>5 DEF s
<1>6. \A k \in Roles \X Kinds : newest[k] <= c
  BY <1>1, <1>2, <1>3
<1>7. \A q \in Y \cup A : q.generation < c
  <2>1. \A q \in Y \cup A : q.generation <= d
    BY <1>2, Zenon DEF QueueSound, RequestsBound
  <2>2. \A q \in Y \cup A : q.generation \in Nat
    BY <1>1, RequestParts
  <2> QED BY <1>1, <1>3, <2>1, <2>2
<1> QED BY <1>3, <1>4, <1>5, <1>6, <1>7 DEF Y, A

(* A role turns to another node, or to none.                                *)
Turns(role, S, T, shown) ==
    /\ S \in [Roles -> RoleStates]
    /\ \A r \in Roles : r # role => S[r] = roles[r]
    /\ \A r \in Roles : r # role => shown[r] = roleShown[r]
    /\ \A r \in Roles : S[r].node \notin T
StartsOver(s, c) ==
    /\ s \in RoleStates
    /\ ~s.bound /\ ~InFlight(s) /\ s.queuedVolume = NoRequest /\ s.queuedMute = NoRequest
    /\ s.generation = c \/ (s.generation = 0 /\ s.node = InvalidNode)

LEMMA TurnedSound ==
    ASSUME Unlost, NEW c, c = audioCommands + 1, NEW role \in Roles,
           NEW S, NEW T, NEW shown, Turns(role, S, T, shown), StartsOver(S[role], c),
           ReleaseBinding(T)
    PROVE  /\ AllSound(S, shown, Unless(audioEvents, T), Omit(bindings, T), nodeProps,
                       syncRequests', readbackRequests', newest, c)
           /\ c \in Nat /\ S \in [Roles -> RoleStates] /\ Unless(audioEvents, T) \in Seq(Events)
           /\ Omit(bindings, T) \in Partial(AudioNodes, Bindings)
           /\ DOMAIN Omit(bindings, T) \subseteq knownNodes
           /\ \A k \in Roles \X Kinds : newest[k] <= c
           /\ IsFiniteSet(readbackRequests')
<1> DEFINE F == Unless(audioEvents, T)
           B2 == Omit(bindings, T)
           Y2 == {q \in syncRequests : q.node \notin T}
           A2 == {q \in readbackRequests : q.node \notin T}
<1>1. /\ roles \in [Roles -> RoleStates] /\ audioEvents \in Seq(Events)
      /\ syncRequests \in SUBSET Requests /\ readbackRequests \in SUBSET Requests
      /\ bindings \in Partial(AudioNodes, Bindings) /\ roleShown \in [Roles -> Lines]
  BY SoundParts, TypeParts DEF AudioTypeOK
<1>2. /\ c \in Nat
      /\ QueueSound(audioEvents, bindings, nodeProps, syncRequests, readbackRequests, newest, c)
      /\ \A r \in Roles : RoleHolds(r, roles[r], roleShown[r], audioEvents, bindings, nodeProps,
                                    syncRequests, readbackRequests, newest, c)
      /\ \A k \in Roles \X Kinds : newest[k] <= c
      /\ \A q \in syncRequests \cup readbackRequests : q.generation < c
  BY CountedSound
<1>3. /\ InvalidNode \notin AudioNodes /\ DOMAIN bindings \subseteq knownNodes
      /\ IsFiniteSet(readbackRequests) /\ syncRequests \cap readbackRequests = {}
  BY SoundParts DEF AudioBounds
<1>4. syncRequests' = Y2 /\ readbackRequests' = A2
  BY DEF ReleaseBinding
<1>t. /\ S \in [Roles -> RoleStates]
      /\ \A r \in Roles : r # role => S[r] = roles[r]
      /\ \A r \in Roles : r # role => shown[r] = roleShown[r]
      /\ \A r \in Roles : S[r].node \notin T
  BY DEF Turns
<1>s. /\ S[role] \in RoleStates /\ ~S[role].bound /\ ~InFlight(S[role])
      /\ S[role].queuedVolume = NoRequest /\ S[role].queuedMute = NoRequest
      /\ S[role].generation = c \/ (S[role].generation = 0 /\ S[role].node = InvalidNode)
  BY DEF StartsOver
<1>c. c \in Nat
  BY <1>2
<1>d. QueueSound(audioEvents, bindings, nodeProps, syncRequests, readbackRequests, newest, c)
  BY <1>2
<1>e. audioEvents \in Seq(Events)
  BY <1>1
<1>6. QueueSound(F, B2, nodeProps, Y2, A2, newest, c)
  BY <1>d, <1>e, QueueRelease
<1>7. ASSUME NEW r \in Roles
      PROVE  RoleHolds(r, S[r], shown[r], F, B2, nodeProps, Y2, A2, newest, c)
  <2>1. CASE r = role
    <3>1. Own(r, S[role], Y2 \cup A2) = {}
      <4>1. ASSUME NEW q \in Y2 \cup A2  PROVE ~Matches(S[role], q)
        <5>1. q \in syncRequests \cup readbackRequests /\ q \in Requests
          BY <1>1, <4>1
        <5>2. q.generation < c /\ q.node \in AudioNodes /\ q.generation \in Nat
          BY <1>2, <5>1, RequestParts
        <5> QED BY <1>2, <1>3, <1>s, <5>2 DEF Matches
      <4> HIDE DEF Y2, A2
      <4> QED BY <4>1 DEF Own
    <3>2. S[role].generation <= c
      BY <1>2, <1>s
    <3> HIDE DEF F, B2, Y2, A2
    <3>3. RoleHolds(r, S[role], shown[r], F, B2, nodeProps, Y2, A2, newest, c)
      BY <1>s, <3>1, <3>2, RoleIdle
    <3> QED BY <2>1, <3>3
  <2>2. CASE r # role
    <3> DEFINE t == roles[r]
    <3>1. S[r] = t /\ shown[r] = roleShown[r] /\ t \in RoleStates
          /\ RoleHolds(r, t, roleShown[r], audioEvents, bindings, nodeProps,
                       syncRequests, readbackRequests, newest, c)
      BY <1>1, <1>2, <1>t, <2>2
    <3>2. t.bound => t.node \notin T
      BY <1>t, <3>1
    <3> HIDE DEF t
    <3>3. RoleHolds(r, t, roleShown[r], F, B2, nodeProps, Y2, A2, newest, c)
      BY <1>c, <1>e, <3>1, <3>2, RoleReleased
    <3> HIDE DEF F, B2, Y2, A2
    <3> QED BY <3>1, <3>3
  <2> QED BY <2>1, <2>2
<1>8. Y2 \cap A2 = {} /\ A2 \in SUBSET readbackRequests
  BY <1>3
<1>9. IsFiniteSet(A2)
  BY <1>3, <1>8, FS_Subset
<1>10. DOMAIN B2 = DOMAIN bindings \ T
  BY OmitDomain
<1>11. B2 \in Partial(AudioNodes, Bindings) /\ F \in Seq(Events)
  BY <1>1, OmitPartial, UnlessParts
<1> HIDE DEF F, B2, Y2, A2
<1>12. AllSound(S, shown, F, B2, nodeProps, Y2, A2, newest, c)
  BY <1>6, <1>7, <1>8 DEF AllSound
<1>13. DOMAIN B2 \subseteq knownNodes
  BY <1>3, <1>10
<1> QED BY <1>2, <1>4, <1>9, <1>t, <1>11, <1>12, <1>13 DEF F, B2

LEMMA TrackSound ==
    ASSUME Unlost, NEW role \in Roles, NEW n \in AudioNodes, audioCommands' = audioCommands + 1,
           Track(role, Reset(n, audioCommands')), knownNodes' = knownNodes
    PROVE  AudioSound' /\ ~overtaken'
<1> DEFINE c == audioCommands'
           s == Reset(n, c)
           S == [roles EXCEPT ![role] = s]
           T == Abandoned(role, S)
           shown == [roleShown EXCEPT ![role] = Nothing]
<1>1. /\ ReleaseBinding(T)
      /\ EnsureTrackedBindings(S, Omit(bindings, T), Unless(audioEvents, T), shown)
      /\ UNCHANGED audioServer
  BY Zenon DEF Track
<1>2. AudioBounds /\ ~overtaken /\ knownNodes \in SUBSET AudioNodes /\ audioCommands \in Nat
  BY SoundParts, TypeParts
<1>3. /\ s \in RoleStates /\ s.generation = c /\ ~s.bound /\ ~InFlight(s)
      /\ s.queuedVolume = NoRequest /\ s.queuedMute = NoRequest
  BY <1>2, ResetParts
<1>s. S = [roles EXCEPT ![role] = s] /\ T = Abandoned(role, S)
      /\ shown = [roleShown EXCEPT ![role] = Nothing] /\ c = audioCommands + 1
  OBVIOUS
<1>g. audioCommands' = c
  OBVIOUS
<1>r. roles \in [Roles -> RoleStates] /\ roleShown \in [Roles -> Lines]
  BY SoundParts DEF AudioTypeOK
<1> HIDE DEF c, s, S, T, shown
<1>4. /\ AllSound(S, shown, Unless(audioEvents, T), Omit(bindings, T), nodeProps,
                  syncRequests', readbackRequests', newest, c)
      /\ c \in Nat /\ S \in [Roles -> RoleStates] /\ Unless(audioEvents, T) \in Seq(Events)
      /\ Omit(bindings, T) \in Partial(AudioNodes, Bindings)
      /\ DOMAIN Omit(bindings, T) \subseteq knownNodes
      /\ \A k \in Roles \X Kinds : newest[k] <= c
      /\ IsFiniteSet(readbackRequests')
  <2>1. S[role] = s /\ S \in [Roles -> RoleStates] /\ \A r \in Roles : r # role => S[r] = roles[r]
    BY <1>r, <1>s, <1>3
  <2>2. \A r \in Roles : r # role => shown[r] = roleShown[r]
    BY <1>r, <1>s
  <2>3. \A r \in Roles : S[r].node \notin T
    BY <1>s DEF Abandoned
  <2>4. Turns(role, S, T, shown)
    BY <2>1, <2>2, <2>3 DEF Turns
  <2>5. StartsOver(S[role], c)
    BY <1>3, <2>1 DEF StartsOver
  <2>6. c = audioCommands + 1 /\ ReleaseBinding(T)
    BY <1>1, <1>s
  <2> QED BY <2>4, <2>5, <2>6, TurnedSound
<1>5. knownNodes' \in SUBSET AudioNodes /\ DOMAIN Omit(bindings, T) \subseteq knownNodes'
  BY <1>2, <1>4
<1>6. /\ AllSound(roles', roleShown', audioEvents', bindings', nodeProps, syncRequests',
                  readbackRequests', newest, c)
      /\ DOMAIN bindings' \subseteq knownNodes'
  BY <1>1, <1>2, <1>4, <1>5, BindSound
<1>7. nodeProps' = nodeProps /\ newest' = newest /\ overtaken' = overtaken
  BY <1>1 DEF audioServer
<1>8. (\A k \in Roles \X Kinds : newest[k] <= c) /\ IsFiniteSet(readbackRequests')
  BY <1>4
<1> QED BY <1>2, <1>6, <1>7, <1>8, <1>g DEF AudioSound

LEMMA UntrackSound ==
    ASSUME Unlost, NEW role \in Roles, audioCommands' = audioCommands + 1, Untrack(role),
           knownNodes' = knownNodes
    PROVE  AudioSound' /\ ~overtaken'
<1> DEFINE c == audioCommands'
           S == [roles EXCEPT ![role] = Untracked]
           T == Abandoned(role, S)
           shown == [roleShown EXCEPT ![role] = Nothing]
<1>1. /\ roles' = S
      /\ ReleaseBinding(T)
      /\ bindings' = Omit(bindings, T)
      /\ audioEvents' = Unless(audioEvents, T)
      /\ roleShown' = shown
      /\ UNCHANGED audioServer
  BY Zenon DEF Untrack
<1>2. ~overtaken
  BY SoundParts
<1>s. S = [roles EXCEPT ![role] = Untracked] /\ T = Abandoned(role, S)
      /\ shown = [roleShown EXCEPT ![role] = Nothing] /\ c = audioCommands + 1
  OBVIOUS
<1>g. audioCommands' = c
  OBVIOUS
<1>r. roles \in [Roles -> RoleStates] /\ roleShown \in [Roles -> Lines]
  BY SoundParts DEF AudioTypeOK
<1> HIDE DEF c, S, T, shown
<1>4. /\ AllSound(S, shown, Unless(audioEvents, T), Omit(bindings, T), nodeProps,
                  syncRequests', readbackRequests', newest, c)
      /\ DOMAIN Omit(bindings, T) \subseteq knownNodes
      /\ \A k \in Roles \X Kinds : newest[k] <= c
      /\ IsFiniteSet(readbackRequests')
  <2>1. S[role] = Untracked /\ S \in [Roles -> RoleStates]
        /\ \A r \in Roles : r # role => S[r] = roles[r]
    BY <1>r, <1>s, UntrackedParts
  <2>2. \A r \in Roles : r # role => shown[r] = roleShown[r]
    BY <1>r, <1>s
  <2>3. \A r \in Roles : S[r].node \notin T
    BY <1>s DEF Abandoned
  <2>4. Turns(role, S, T, shown)
    BY <2>1, <2>2, <2>3 DEF Turns
  <2>5. StartsOver(S[role], c)
    BY <2>1, UntrackedParts DEF StartsOver
  <2>6. c = audioCommands + 1 /\ ReleaseBinding(T)
    BY <1>1, <1>s
  <2> QED BY <2>4, <2>5, <2>6, TurnedSound
<1>7. nodeProps' = nodeProps /\ newest' = newest /\ overtaken' = overtaken
  BY <1>1 DEF audioServer
<1>8. (\A k \in Roles \X Kinds : newest[k] <= c) /\ IsFiniteSet(readbackRequests')
  BY <1>4
<1> QED BY <1>1, <1>2, <1>4, <1>7, <1>8, <1>g DEF AudioSound
(* The shell asks for a volume or a mute.                                   *)
LEMMA IdleParts ==
    ASSUME NEW r, NEW s, NEW own, NEW N, NEW n, RoleSound(r, s, own, N, n), ~InFlight(s)
    PROVE  own = {} /\ s.queuedVolume = NoRequest /\ s.queuedMute = NoRequest
<1>1. \A q \in own : FALSE
  BY DEF RoleSound, Flies, InFlight
<1>2. s.queuedVolume = NoRequest /\ s.queuedMute = NoRequest
  BY DEF RoleSound, Waits
<1> QED BY <1>1, <1>2

LEMMA SlottedSound ==
    ASSUME NEW s \in RoleStates, NEW q \in Requests, NEW own, NEW N, NEW n,
           RoleSound(q.role, s, own, N, n), InFlight(s), Matches(s, q), Newer(q, N), q.id <= n
    PROVE  RoleSound(q.role, Queued(s, q), own, N, n)
<1> DEFINE t == Queued(s, q)
           r == q.role
<1>1. /\ t.node = s.node /\ t.generation = s.generation /\ t.bound = s.bound
      /\ t.volumeInFlight = s.volumeInFlight /\ t.muteInFlight = s.muteInFlight
      /\ t.queuedVolume = IF q.op = "volume" THEN q ELSE s.queuedVolume
      /\ t.queuedMute = IF q.op = "volume" THEN s.queuedMute ELSE q
  BY QueuedParts
<1>2. q.op \in Kinds
  BY RequestParts
<1>z. q.role = r
  OBVIOUS
<1> HIDE DEF t, r
<1>3. InFlight(t) /\ Matches(t, q)
  BY <1>1 DEF InFlight, Matches
<1>4. /\ s.generation <= n /\ s.bound /\ own # {} /\ ~(s.volumeInFlight /\ s.muteInFlight)
      /\ \A p \in own : Flies(s, p.op)
      /\ \A p, x \in own : p = x
      /\ Waits(r, s, s.queuedVolume, "volume", N, n)
      /\ Waits(r, s, s.queuedMute, "mute", N, n)
  BY <1>z DEF RoleSound
<1>5. Waits(r, t, q, q.op, N, n)
  BY <1>3, <1>z DEF Waits, Newer
<1>6. \A p : \A op \in Kinds : Waits(r, s, p, op, N, n) => Waits(r, t, p, op, N, n)
  BY <1>1, <1>3 DEF Waits, Matches
<1>7. Waits(r, t, t.queuedVolume, "volume", N, n) /\ Waits(r, t, t.queuedMute, "mute", N, n)
  BY <1>1, <1>2, <1>4, <1>5, <1>6 DEF Kinds
<1>8. \A p \in own : Flies(t, p.op)
  BY <1>1, <1>4 DEF Flies
<1>9. RoleSound(r, t, own, N, n)
  BY <1>1, <1>4, <1>7, <1>8 DEF RoleSound
<1> QED BY <1>9 DEF t, r

LEMMA RequestSound ==
    ASSUME Unlost, NEW op \in Kinds, NEW role \in Roles, NEW v \in Values(op),
           roles[role].node # InvalidNode, audioCommands' = audioCommands + 1,
           Request(Asked(op, role, v)), knownNodes' = knownNodes
    PROVE  AudioSound' /\ ~overtaken'
<1> DEFINE q == Asked(op, role, v)
           c == audioCommands'
           s == roles[role]
           Y == syncRequests
           A == readbackRequests
<1>1. /\ AudioTypeOK /\ connected /\ ~overtaken /\ DOMAIN bindings \subseteq knownNodes
      /\ IsFiniteSet(A) /\ Y \cap A = {} /\ (\A k \in Roles \X Kinds : newest[k] <= audioCommands)
  BY SoundParts
<1>2. /\ roles \in [Roles -> RoleStates] /\ audioEvents \in Seq(Events)
      /\ Y \in SUBSET Requests /\ A \in SUBSET Requests /\ audioCommands \in Nat
      /\ newest \in [Roles \X Kinds -> Nat]
  BY <1>1, TypeParts
<1>3. /\ q \in Requests /\ q.id = c /\ q.op = op /\ q.role = role /\ Matches(s, q)
  BY <1>1, AskedParts
<1>4. /\ c \in Nat
      /\ QueueSound(audioEvents, bindings, nodeProps, Y, A, newest, c)
      /\ \A r \in Roles : RoleHolds(r, roles[r], roleShown[r], audioEvents, bindings, nodeProps,
                                    Y, A, newest, c)
      /\ \A k \in Roles \X Kinds : newest[k] <= c
  BY CountedSound
<1>5. /\ UNCHANGED <<bindings, readbackRequests, roleShown, connected>>
      /\ \/ /\ s.bound /\ ~InFlight(s)
            /\ Dispatch(q, s, audioEvents)
         \/ /\ s.bound /\ InFlight(s)
            /\ roles' = [roles EXCEPT ![q.role] = Queued(s, q)]
            /\ syncRequests' = syncRequests /\ NotSent(audioEvents)
         \/ /\ ~s.bound
            /\ roles' = roles
            /\ syncRequests' = syncRequests /\ NotSent(audioEvents)
  <2>1. roles[q.role] = s
    BY <1>3
  <2> HIDE DEF q, s
  <2>2. Request(q)
    BY DEF q
  <2> QED BY <2>1, <2>2, RequestCases
<1>6. s \in RoleStates /\ RoleHolds(role, s, roleShown[role], audioEvents, bindings, nodeProps,
                                    Y, A, newest, c)
  BY <1>2, <1>4
<1>7. Newer(q, newest) /\ q.id <= c
  <2>1. newest[<<role, op>>] <= audioCommands /\ newest[<<role, op>>] \in Nat
    BY <1>1, <1>2
  <2> HIDE DEF q
  <2> QED BY <1>2, <1>3, <2>1 DEF Newer
<1>g. /\ audioCommands' = c /\ readbackRequests' = A /\ bindings' = bindings /\ roleShown' = roleShown
      /\ connected' = connected /\ syncRequests = Y /\ readbackRequests = A
      /\ \A r \in Roles : r = role => roles[r] = s
  BY <1>5
<1> HIDE DEF q, c, s, Y, A
<1>8. RoleSound(role, s, Own(role, s, Y \cup A), newest, c) /\ (s.bound => s.node \in DOMAIN bindings)
      /\ ShownSound(s, roleShown[role], audioEvents, bindings, nodeProps, A)
  BY <1>6, Zenon DEF RoleHolds
<1>9. s.generation <= c
  BY <1>8 DEF RoleSound
<1>10. SUFFICES /\ AllSound(roles', roleShown, audioEvents', bindings, nodeProps', syncRequests', A, newest', c)
                /\ \A k \in Roles \X Kinds : newest'[k] <= c
                /\ ~overtaken'
  BY <1>1, <1>g DEF AudioSound
<1>11. CASE /\ s.bound /\ ~InFlight(s)
            /\ Dispatch(q, s, audioEvents)
  <2>1. Own(role, s, Y \cup A) = {} /\ s.queuedVolume = NoRequest /\ s.queuedMute = NoRequest
    BY <1>8, <1>11, IdleParts
  <2>2. Stands(role, s, s.queuedVolume, "volume", newest, c)
    BY <2>1 DEF Stands
  <2>3. \A r \in Roles \ {q.role} :
           RoleHolds(r, roles[r], roleShown[r], audioEvents, bindings, nodeProps, Y, A, newest, c)
    BY <1>4
  <2>4. bindings[q.node].subscribed = bindings[q.node].subscribed
    OBVIOUS
  <2>5. /\ AllSound(roles', roleShown, audioEvents', bindings, nodeProps', syncRequests', A, newest', c)
        /\ \A k \in Roles \X Kinds : newest'[k] <= c
        /\ ~overtaken'
    BY <1>1, <1>2, <1>3, <1>4, <1>6, <1>7, <1>8, <1>9, <1>11, <1>g, <2>1, <2>2, <2>3, <2>4, DispatchSound
  <2> QED BY <2>5
<1>12. CASE /\ s.bound /\ InFlight(s)
            /\ roles' = [roles EXCEPT ![q.role] = Queued(s, q)]
            /\ syncRequests' = syncRequests /\ NotSent(audioEvents)
  <2> DEFINE t == Queued(s, q)
  <2>1. /\ t.node = s.node /\ t.generation = s.generation /\ t.bound = s.bound
        /\ t.volumeInFlight = s.volumeInFlight /\ t.muteInFlight = s.muteInFlight
    BY <1>3, <1>6, QueuedParts
  <2>2. RoleSound(role, t, Own(role, s, Y \cup A), newest, c)
    <3>1. RoleSound(q.role, s, Own(role, s, Y \cup A), newest, c)
      BY <1>3, <1>8
    <3>2. RoleSound(q.role, t, Own(role, s, Y \cup A), newest, c)
      BY <1>3, <1>6, <1>7, <1>12, <3>1, SlottedSound
    <3> QED BY <1>3, <3>2
  <2>3. roles'[role] = t /\ \A r \in Roles : r # role => roles'[r] = roles[r]
    BY <1>2, <1>3, <1>12
  <2> HIDE DEF t
  <2>4. Own(role, t, Y \cup A) = Own(role, s, Y \cup A) /\ InFlight(t)
    BY <1>12, <2>1 DEF Own, Matches, InFlight
  <2>5. RoleHolds(role, t, roleShown[role], audioEvents, bindings, nodeProps, Y, A, newest, c)
    <3>1. ShownSound(t, roleShown[role], audioEvents, bindings, nodeProps, A)
      BY <2>4 DEF ShownSound
    <3>2. t.bound => t.node \in DOMAIN bindings
      BY <1>8, <2>1
    <3> QED BY <2>2, <2>4, <3>1, <3>2 DEF RoleHolds
  <2>6. \A r \in Roles : RoleHolds(r, roles'[r], roleShown[r], audioEvents, bindings, nodeProps, Y, A, newest, c)
    BY <1>4, <2>3, <2>5
  <2>7. audioEvents' = audioEvents /\ nodeProps' = nodeProps /\ newest' = newest
        /\ overtaken' = overtaken /\ syncRequests' = Y
    BY <1>12, <1>g DEF NotSent
  <2> QED BY <1>1, <1>4, <2>6, <2>7 DEF AllSound
<1>13. CASE /\ ~s.bound
            /\ roles' = roles
            /\ syncRequests' = syncRequests /\ NotSent(audioEvents)
  <2>7. audioEvents' = audioEvents /\ nodeProps' = nodeProps /\ newest' = newest
        /\ overtaken' = overtaken /\ syncRequests' = Y
    BY <1>13, <1>g DEF NotSent
  <2> QED BY <1>1, <1>4, <1>13, <2>7 DEF AllSound
<1> QED BY <1>5, <1>11, <1>12, <1>13

LEMMA CommandSound ==
    ASSUME Unlost, HandleAudioCommand
    PROVE  AudioSound' /\ ~overtaken'
<1>1. audioCommands' = audioCommands + 1 /\ knownNodes' = knownNodes
  BY CommandCases
<1>2. PICK role \in Roles :
         \/ \E n \in AudioNodes : Track(role, Reset(n, audioCommands'))
         \/ Untrack(role)
         \/ /\ roles[role].node # InvalidNode
            /\ \E op \in Kinds : \E v \in Values(op) : Request(Asked(op, role, v))
  BY CommandCases, Zenon
<1>3. CASE \E n \in AudioNodes : Track(role, Reset(n, audioCommands'))
  BY <1>1, <1>3, TrackSound
<1>4. CASE Untrack(role)
  BY <1>1, <1>4, UntrackSound
<1>5. CASE /\ roles[role].node # InvalidNode
           /\ \E op \in Kinds : \E v \in Values(op) : Request(Asked(op, role, v))
  <2>1. PICK op \in Kinds : \E v \in Values(op) : Request(Asked(op, role, v))
    BY <1>5
  <2>2. PICK v \in Values(op) : Request(Asked(op, role, v))
    BY <2>1
  <2> QED BY <1>1, <1>5, <2>2, RequestSound
<1> QED BY <1>2, <1>3, <1>4, <1>5
-----------------------------------------------------------------------------
(* The invariant.                                                           *)
LEMMA InitSound ==
    ASSUME AudioBounds, AudioInit
    PROVE  AudioInv
<1>1. AudioTypeOK
  BY InitType
<1>2. /\ roles = [r \in Roles |-> Untracked] /\ roleShown = [r \in Roles |-> Nothing]
      /\ bindings = <<>> /\ syncRequests = {} /\ readbackRequests = {}
      /\ newest = [k \in Roles \X Kinds |-> 0] /\ ~overtaken /\ audioCommands = 0
  BY DEF AudioInit
<1>3. audioEvents = <<Done(NoRequest)>>
  BY Zenon DEF AudioInit, Done
<1>4. /\ Len(audioEvents) = 1 /\ audioEvents[1] = Done(NoRequest)
      /\ Done(NoRequest).type = "done" /\ Done(NoRequest).request = NoRequest
  BY <1>3, DoneParts DEF Done
<1>5. DOMAIN bindings = {}
  BY <1>2, EmptyPartial
<1>6. \A i \in 1..Len(audioEvents) : audioEvents[i].type = "done" /\ audioEvents[i].request = NoRequest
  BY <1>4
<1>7. \A i \in 1..Len(audioEvents) : ~IsAnswer(audioEvents[i]) /\ audioEvents[i].request \notin {}
  BY <1>6 DEF IsAnswer
<1>8. QueueSound(audioEvents, bindings, nodeProps, {}, {}, newest, 0)
  <2>1. /\ InfoComes(audioEvents, bindings) /\ ChangesCome(audioEvents, bindings, nodeProps)
        /\ ForBound(audioEvents, bindings) /\ NoError(audioEvents)
    BY <1>5, <1>6 DEF InfoComes, ChangesCome, ForBound, NoError
  <2>2. /\ AnswersRepeat(audioEvents, bindings) /\ AnswersCome(audioEvents, nodeProps, {})
        /\ NotAnswered(audioEvents, {}) /\ InfoFirst(audioEvents, bindings, {})
    BY <1>7 DEF AnswersRepeat, AnswersCome, NotAnswered, InfoFirst
  <2>3. Processed(audioEvents, {} \cup {}, newest) /\ RequestsBound({} \cup {}, bindings, 0)
    BY <1>6 DEF Processed, RequestsBound
  <2> QED BY <2>1, <2>2, <2>3 DEF QueueSound
<1>9. ASSUME NEW r \in Roles
      PROVE  RoleHolds(r, roles[r], roleShown[r], audioEvents, bindings, nodeProps, {}, {}, newest, 0)
  <2>1. Own(r, Untracked, {} \cup {}) = {} /\ roles[r] = Untracked
    BY <1>2 DEF Own
  <2>2. RoleHolds(r, Untracked, roleShown[r], audioEvents, bindings, nodeProps, {}, {}, newest, 0)
    BY <2>1, UntrackedParts, RoleIdle
  <2> QED BY <2>1, <2>2
<1>10. AllSound(roles, roleShown, audioEvents, bindings, nodeProps, {}, {}, newest, 0)
  BY <1>8, <1>9 DEF AllSound
<1>11. IsFiniteSet({}) /\ \A k \in Roles \X Kinds : newest[k] <= 0
  BY <1>2, FS_EmptySet
<1>12. AudioSound
  BY <1>2, <1>5, <1>10, <1>11 DEF AudioSound
<1> QED BY <1>1, <1>2, <1>12 DEF AudioInv

(* Nothing is written once the connection is lost.                          *)
LEMMA LostStays ==
    ASSUME AudioTypeOK, ~connected, [AudioNext]_audioVars
    PROVE  ~connected' /\ overtaken' = overtaken
<1>1. ASSUME NEW q, NEW s, NEW queue, Dispatch(q, s, queue)
      PROVE  overtaken' = overtaken
  BY <1>1, DispatchCases, Zenon DEF Sendable, NotSent
<1>2. ASSUME HandleAudioCommand
      PROVE  ~connected' /\ overtaken' = overtaken
  <2>1. PICK role \in Roles :
           \/ \E n \in AudioNodes : Track(role, Reset(n, audioCommands'))
           \/ Untrack(role)
           \/ /\ roles[role].node # InvalidNode
              /\ \E op \in Kinds : \E v \in Values(op) : Request(Asked(op, role, v))
    BY <1>2, CommandCases, Zenon
  <2>2. CASE UNCHANGED audioServer
    BY <2>2 DEF audioServer
  <2>3. ASSUME NEW q, Request(q)
        PROVE  ~connected' /\ overtaken' = overtaken
    BY <1>1, <2>3, RequestCases, Zenon DEF NotSent
  <2> QED BY <2>1, <2>2, <2>3, Zenon DEF Track, Untrack
<1>3. ASSUME OnNodeParam
      PROVE  ~connected' /\ overtaken' = overtaken
  <2>1. connected' = connected
    BY <1>3, Zenon DEF OnNodeParam
  <2>2. ASSUME NEW role, NEW s, NEW queue, DispatchQueued(role, s, queue)
        PROVE  overtaken' = overtaken
    BY <1>1, <2>2, QueuedCases, Zenon DEF NotSent
  <2>3. ASSUME NEW q, CompleteRequest(q)
        PROVE  overtaken' = overtaken
    BY <2>2, <2>3, Zenon DEF CompleteRequest, NotSent
  <2>4. ASSUME NotSent(Rest)  PROVE overtaken' = overtaken
    BY <2>4, Zenon DEF NotSent
  <2>5. overtaken' = overtaken
    BY <1>3, <2>3, <2>4, OnNodeParamCases, Zenon
  <2> QED BY <2>1, <2>5
<1>4. CASE UNCHANGED audioServer
  BY <1>4 DEF audioServer
<1>5. ASSUME OnReady \/ OnCoreDone \/ OnRegistryGlobal \/ OnRegistryGlobalRemove \/ OnNodeInfo
             \/ OnDestroyedProxy \/ OnCoreError
      PROVE  UNCHANGED audioServer
  <2>1. CASE OnReady  BY <2>1, Zenon DEF OnReady
  <2>2. CASE OnCoreDone  BY <2>2, Zenon DEF OnCoreDone
  <2>3. CASE OnRegistryGlobal  BY <2>3, Zenon DEF OnRegistryGlobal
  <2>4. CASE OnRegistryGlobalRemove  BY <2>4, Zenon DEF OnRegistryGlobalRemove
  <2>5. CASE OnNodeInfo  BY <2>5, Zenon DEF OnNodeInfo
  <2>6. CASE OnDestroyedProxy  BY <2>6, Zenon DEF OnDestroyedProxy
  <2>7. CASE OnCoreError  BY <2>7, Zenon DEF OnCoreError
  <2> QED BY <1>5, <2>1, <2>2, <2>3, <2>4, <2>5, <2>6, <2>7
<1>6. ~PipeWireChanges
  BY ChangeCases
<1>7. UNCHANGED audioVars => UNCHANGED audioServer
  BY DEF audioVars
<1> QED BY <1>2, <1>3, <1>4, <1>5, <1>6, <1>7 DEF AudioNext, OnAudioEvent

LEMMA SoundStep ==
    ASSUME AudioBounds, AudioInv, [AudioNext]_audioVars
    PROVE  AudioInv'
<1>1. AudioTypeOK /\ ~overtaken /\ (connected => AudioSound)
  BY DEF AudioInv
<1>2. AudioTypeOK'
  BY <1>1, TypeStep
<1>3. CASE ~connected
  BY <1>1, <1>2, <1>3, LostStays DEF AudioInv
<1>4. CASE connected
  <2>1. Unlost
    BY <1>1, <1>4 DEF Unlost
  <2>2. CASE HandleAudioCommand  BY <1>2, <2>1, <2>2, CommandSound DEF AudioInv
  <2>3. CASE OnReady  BY <1>2, <2>1, <2>3, OnReadySound DEF AudioInv
  <2>4. CASE OnCoreDone  BY <1>2, <2>1, <2>4, OnCoreDoneSound DEF AudioInv
  <2>5. CASE OnRegistryGlobal  BY <1>2, <2>1, <2>5, OnRegistryGlobalSound DEF AudioInv
  <2>6. CASE OnRegistryGlobalRemove
    BY <1>2, <2>1, <2>6, OnRegistryGlobalRemoveSound DEF AudioInv
  <2>7. CASE OnNodeInfo  BY <1>2, <2>1, <2>7, OnNodeInfoSound DEF AudioInv
  <2>8. CASE OnNodeParam  BY <1>2, <2>1, <2>8, OnNodeParamSound DEF AudioInv
  <2>9. CASE OnDestroyedProxy  BY <1>2, <2>1, <2>9, OnDestroyedProxySound DEF AudioInv
  <2>10. CASE OnCoreError  BY <2>1, <2>10, OnCoreErrorSound
  <2>11. CASE PipeWireChanges
    <3>1. CASE connected'
      BY <1>2, <2>1, <2>11, <3>1, ChangeSound DEF AudioInv
    <3>2. CASE ~connected'
      BY <1>1, <1>2, <2>11, <3>2, ChangeCases DEF AudioInv
    <3> QED BY <3>1, <3>2
  <2>12. CASE UNCHANGED audioVars
    <3>1. overtaken' = overtaken /\ (AudioSound' <=> AudioSound)
      BY <2>12 DEF audioVars, audioServer, requests, AudioSound
    <3> QED BY <1>1, <1>2, <1>4, <3>1 DEF AudioInv
  <2> QED BY <2>2, <2>3, <2>4, <2>5, <2>6, <2>7, <2>8, <2>9, <2>10, <2>11, <2>12
          DEF AudioNext, OnAudioEvent
<1> QED BY <1>3, <1>4

-----------------------------------------------------------------------------
(* What it says.                                                            *)
LEMMA CarriedHolds ==
    ASSUME AudioBounds, AudioInv
    PROVE  AudioCarried
<1>1. SUFFICES ASSUME connected, NEW r \in Roles
               PROVE  /\ InFlight(roles[r]) => \E q \in syncRequests \cup readbackRequests : Carries(q, r)
                      /\ (roles[r].queuedVolume # NoRequest \/ roles[r].queuedMute # NoRequest)
                            => InFlight(roles[r])
                      /\ \A q \in syncRequests : Matches(roles[r], q) /\ q.role = r => Carries(q, r)
  BY Zenon DEF AudioCarried
<1>2. Unlost
  BY <1>1 DEF AudioInv, Unlost
<1> DEFINE s == roles[r]
           own == Own(r, s, syncRequests \cup readbackRequests)
<1>3. RoleSound(r, s, own, newest, audioCommands)
  <2>1. RoleHolds(r, s, roleShown[r], audioEvents, bindings, nodeProps,
                  syncRequests, readbackRequests, newest, audioCommands)
    BY <1>2, SoundParts
  <2> QED BY <2>1, Zenon DEF RoleHolds
<1>4. \A q \in own : Carries(q, r)
  <2>1. \A q \in own : Flies(s, q.op)
    BY <1>3, Zenon DEF RoleSound
  <2> QED BY <2>1 DEF Own, Carries, Flies
<1>5. InFlight(s) => own # {}
  BY <1>3, Zenon DEF RoleSound
<1>6. s.queuedVolume # NoRequest \/ s.queuedMute # NoRequest => InFlight(s)
  BY <1>3 DEF RoleSound, Waits
<1>7. \A q \in own : q \in syncRequests \cup readbackRequests
  BY DEF Own
<1>8. \A q \in syncRequests : Matches(s, q) /\ q.role = r => q \in own
  BY DEF Own
<1> HIDE DEF own
<1> QED BY <1>4, <1>5, <1>6, <1>7, <1>8

LEMMA CurrentHolds ==
    ASSUME AudioBounds, AudioInv
    PROVE  AudioIsCurrent
<1>1. SUFFICES ASSUME connected, NEW r \in Roles, NEW n, n = roles[r].node,
                      roles[r].bound, ~InFlight(roles[r]), n \in DOMAIN nodeProps,
                      bindings[n].props # <<>>,
                      \A i \in DOMAIN audioEvents : ~Touches(audioEvents[i], {n})
               PROVE  roleShown[r] = [generation |-> roles[r].generation, props |-> nodeProps[n]]
  BY Zenon DEF AudioIsCurrent
<1>2. Unlost
  BY <1>1 DEF AudioInv, Unlost
<1>3. /\ RoleHolds(r, roles[r], roleShown[r], audioEvents, bindings, nodeProps,
                   syncRequests, readbackRequests, newest, audioCommands)
      /\ QueueSound(audioEvents, bindings, nodeProps, syncRequests, readbackRequests, newest, audioCommands)
      /\ audioEvents \in Seq(Events)
  BY <1>2, SoundParts, TypeParts
<1>4. n \in DOMAIN bindings /\ ShownSound(roles[r], roleShown[r], audioEvents, bindings, nodeProps, readbackRequests)
  BY <1>1, <1>3, Zenon DEF RoleHolds
<1>5. InfoComes(audioEvents, bindings) /\ ChangesCome(audioEvents, bindings, nodeProps)
  BY <1>3, Zenon DEF QueueSound
<1>6. \A i \in 1..Len(audioEvents) : ~(audioEvents[i].type \in {"info", "param"} /\ audioEvents[i].node = n)
  BY <1>1, <1>3 DEF Touches
<1>7. bindings[n].subscribed
  BY <1>4, <1>5, <1>6 DEF InfoComes, IsInfo
<1>8. bindings[n].props = nodeProps[n]
  <2>1. Says(audioEvents, bindings[n].props, n, Len(audioEvents) + 1, nodeProps[n])
    BY <1>1, <1>4, <1>5, <1>7 DEF ChangesCome
  <2>2. Len(audioEvents) + 1 - 1 = Len(audioEvents)
    BY <1>3
  <2> QED BY <1>6, <2>1, <2>2 DEF Says, IsParam
<1>9. roleShown[r] = [generation |-> roles[r].generation, props |-> bindings[roles[r].node].props]
  BY <1>1, <1>4, <1>6 DEF ShownSound, IsAnswer
<1> QED BY <1>1, <1>8, <1>9

(* Every variable of the audio helper keeps its type.                       *)
THEOREM AudioTypes == ASSUME AudioBounds PROVE AudioSpec => []AudioTypeOK
<1>1. AudioInit => AudioTypeOK
  BY InitType
<1>2. AudioTypeOK /\ [AudioNext]_audioVars => AudioTypeOK'
  BY TypeStep
<1> QED BY <1>1, <1>2, PTL DEF AudioSpec

(* While PipeWire is there, what a role has in flight is carried by a       *)
(* request that will bring it back, and the shell holds the node's own      *)
(* properties once nothing is under way for a role; and an older volume or  *)
(* mute is never written after a newer one of the same role.                *)
THEOREM AudioIsSound ==
    ASSUME AudioBounds PROVE AudioSpec => [](AudioCarried /\ AudioIsCurrent /\ NewestWins)
<1>1. AudioInit => AudioInv
  BY InitSound
<1>2. AudioInv /\ [AudioNext]_audioVars => AudioInv'
  BY SoundStep
<1>3. AudioInv => AudioCarried /\ AudioIsCurrent /\ NewestWins
  BY CarriedHolds, CurrentHolds DEF AudioInv, NewestWins
<1> QED BY <1>1, <1>2, <1>3, PTL DEF AudioSpec
=============================================================================
