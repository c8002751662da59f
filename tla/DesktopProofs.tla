--------------------------- MODULE DesktopProofs ---------------------------
(***************************************************************************)
(* Virtual desktops for any outputs, desktops, versions and interleaving.  *)
(***************************************************************************)
EXTENDS VirtualDesktops, Foundations, TLAPS

(* KWin has a first desktop, and no output has the name that stands for     *)
(* none.                                                                    *)
DesktopBounds == 1 \in Desktops /\ "none" \notin Outputs

Shown == Partial(Outputs, Desktops)
Snapshots == [desktops : SUBSET Desktops, current : Shown, transient : Outputs \cup {"none"}]
Changes == [output : Outputs \cup {"none"}, from : Desktops \cup {None}, to : Desktops \cup {None}]
Scripts == [previous : Shown, change : Changes, structural : BOOLEAN, timer : BOOLEAN]
OwnerNews == [type : {"owner"}, owner : Nat]
Publications == [type : {"publish"}, owner : Nat, generation : Nat, snapshot : Snapshots]
Messages == OwnerNews \cup Publications
Observers == [state : {"off", "starting", "running", "hung", "dead"}, epoch : Nat, owner : Nat,
              generation : Nat, received : BOOLEAN, timer : BOOLEAN, last : Snapshots \cup {<<>>}]
Lines == [epoch : Nat, snapshot : Snapshots]
Records == [token : Nat, generation : Nat, revision : Nat, presented : BOOLEAN, current : Desktops]
Sources == [token : Nat, generation : Nat]
Identities == Outputs \X Nat \X Nat \X Nat
AdapterStates == [helperPath : BOOLEAN, shouldRun : BOOLEAN, accepting : BOOLEAN, ready : BOOLEAN,
             attempts : 0..3, epoch : Nat, pendingReady : Nat, retired : SUBSET Nat,
             watchdog : BOOLEAN, restart : BOOLEAN,
             shutdown : {"no", "asked", "terminated", "killed", "over"},
             snapshot : Snapshots, records : Partial(Outputs, Records),
             retiredSources : Partial(Outputs, Sources), minted : [Outputs -> Nat]]
Feedbacks == [held : Partial(Outputs, Identities), announced : SUBSET Identities,
              switched : SUBSET (Outputs \X Desktops),
              wrong : SUBSET {"named before", "not a switch"}]

KWins == [owner : Nat, desktops : SUBSET Desktops, current : Shown]
Pipes == [out : Seq(Lines), ready : Nat]

DesktopTypeOK ==
    /\ kwin \in KWins
    /\ scripts \in Partial(Nat, Scripts) /\ IsFiniteSet(DOMAIN scripts)
    /\ kwinWire \in Seq(Messages)
    /\ observer \in Observers
    /\ lines \in Pipes
    /\ adapter \in AdapterStates /\ IsFiniteSet(adapter.retired)
    /\ feedback \in Feedbacks

-----------------------------------------------------------------------------
(* Switches that somebody made.                                             *)
Real(s, made) == s.transient \in DOMAIN s.current => <<s.transient, s.current[s.transient]>> \in made

WireReal(W, made) == \A i \in 1..Len(W) : W[i].type = "publish" => Real(W[i].snapshot, made)
LinesReal(out, made) == \A i \in 1..Len(out) : Real(out[i].snapshot, made)
ScriptsReal(S, made) == \A g \in DOMAIN S :
    ~S[g].structural /\ S[g].change.output # "none"
    => <<S[g].change.output, S[g].change.to>> \in made
AllReal(W, out, S, f) ==
    /\ WireReal(W, f.switched)
    /\ LinesReal(out, f.switched)
    /\ ScriptsReal(S, f.switched)
    /\ "not a switch" \notin f.wrong

(* The versions of a source only grow.                                      *)
NotAfter(t, g, v, c) ==
    t < c.token \/ (t = c.token /\ (g < c.generation \/ (g = c.generation /\ v <= c.revision)))
NotAfterSource(t, g, c) == t < c.token \/ (t = c.token /\ g <= c.generation)

Minted(a) ==
    /\ \A n \in DOMAIN a.records : a.records[n].token <= a.minted[n]
    /\ \A n \in DOMAIN a.retiredSources : a.retiredSources[n].token <= a.minted[n]
Ordered(a, f) == \A n \in Outputs, t \in Nat, g \in Nat, v \in Nat :
    <<n, t, g, v>> \in f.announced =>
        /\ t <= a.minted[n]
        /\ n \in DOMAIN a.records => NotAfter(t, g, v, a.records[n])
        /\ n \in DOMAIN a.retiredSources => NotAfterSource(t, g, a.retiredSources[n])
Resolved(a, f) ==
    /\ "named before" \notin f.wrong
    /\ \A n \in DOMAIN f.held :
         /\ n \in DOMAIN a.records
         /\ a.records[n].presented
         /\ Identity(n, a.records[n]) = f.held[n]
ShowSound(a, f) == Minted(a) /\ Ordered(a, f) /\ Resolved(a, f)

-----------------------------------------------------------------------------
(* The helper that runs, and what is on its way from it.                    *)
Watched(o, a) == a.shutdown = "no" =>
    /\ o.state \in {"starting", "running", "hung"} => a.ready \/ a.watchdog
    /\ o.state = "off" /\ a.helperPath => a.shouldRun \/ a.restart \/ a.attempts = 3
NotRunning(o, a, pipes) == o.state = "off" =>
    /\ pipes.out = <<>> /\ pipes.ready = None
    /\ a.shutdown = "no" => a.epoch = None /\ ~a.accepting

Listening(o, a) ==
    /\ o.epoch # None /\ a.accepting /\ o.epoch \notin a.retired
    /\ a.epoch \in {None, o.epoch}
Streams(o, a, out) ==
    /\ \A i \in 1..Len(out) : out[i].epoch = o.epoch
    /\ o.last = <<>> => o.state = "starting" /\ Len(out) = 0
    /\ o.last # <<>> /\ Len(out) = 0 => a.snapshot = o.last
    /\ o.last # <<>> /\ Len(out) # 0 => out[Len(out)].snapshot = o.last
Heard(o, a, out) == o.state \in {"starting", "running"} /\ a.shutdown = "no" =>
    Listening(o, a) /\ Streams(o, a, out)

HelperSound(o, a, pipes) == Watched(o, a) /\ NotRunning(o, a, pipes) /\ Heard(o, a, pipes.out)

-----------------------------------------------------------------------------
(* What the helper knows of KWin.                                           *)
IsOwner(m) == m.type = "owner"
IsPublish(m, g) == m.type = "publish" /\ m.generation = g
Silent(W, g) == \A i \in 1..Len(W) : ~IsPublish(W[i], g)

NoScripts(o, S) == o.state \in {"off", "dead", "starting"} => DOMAIN S = {}

(* The owner that the last message names is KWin's.                         *)
OwnerComes(W, k) == \A i \in 1..Len(W) :
    IsOwner(W[i]) /\ (\A j \in (i + 1)..Len(W) : ~IsOwner(W[j])) => W[i].owner = k
NoOwner(W) == \A i \in 1..Len(W) : ~IsOwner(W[i])
OwnerKnown(o, W, k) == NoOwner(W) =>
    /\ o.state = "starting" => o.owner \in {None, k}
    /\ o.state = "running" => o.owner = k
FromKWin(W, S, k) == \A i \in 1..Len(W) :
    W[i].type = "publish" /\ W[i].generation \in DOMAIN S => W[i].owner = k

Detached(o) == o.state \in {"starting", "running"} /\ o.generation = None =>
    ~o.timer /\ (o.last # <<>> => o.last = Unavailable)
Attached(o, W, S, k) == o.state \in {"starting", "running"} /\ o.generation # None =>
    /\ o.owner # None
    /\ o.generation \in DOMAIN S \/ o.owner # k \/ (o.timer /\ Silent(W, o.generation))

(* The last word of the script in charge, on its way or taken in, is what   *)
(* KWin shows.                                                              *)
Current(k) == IF DOMAIN k.current = {} THEN <<>> ELSE k.current
Listed(k) == IF DOMAIN k.current = {} THEN {} ELSE k.desktops
Agrees(s, k) == s.current = Current(k) /\ s.desktops = Listed(k)
Says(W, g, known, k) ==
    \/ Silent(W, g) /\ known # <<>> /\ Agrees(known, k)
    \/ \E i \in 1..Len(W) :
          /\ IsPublish(W[i], g) /\ Agrees(W[i].snapshot, k)
          /\ \A j \in (i + 1)..Len(W) : ~IsPublish(W[j], g)
Told(o, W, S, k) ==
    /\ o.state = "running" /\ o.generation # None /\ o.generation \in DOMAIN S
    /\ o.owner = k.owner /\ ~S[o.generation].timer
    => Says(W, o.generation, o.last, k)

Follows(o, W, S, k) ==
    /\ NoScripts(o, S)
    /\ OwnerComes(W, k.owner)
    /\ OwnerKnown(o, W, k.owner)
    /\ FromKWin(W, S, k.owner)
    /\ Detached(o)
    /\ Attached(o, W, S, k.owner)
    /\ Told(o, W, S, k)

DesktopInv ==
    /\ DesktopTypeOK
    /\ AllReal(kwinWire, lines.out, scripts, feedback)
    /\ ShowSound(adapter, feedback)
    /\ HelperSound(observer, adapter, lines)
    /\ Follows(observer, kwinWire, scripts, kwin)
-----------------------------------------------------------------------------
(* Numbers in use nowhere else.                                             *)
LEMMA UnusedFresh ==
    ASSUME NEW S, IsFiniteSet(S)
    PROVE  Unused(S) \in Nat \ {0} /\ Unused(S) \notin S
<1> DEFINE n == Cardinality(S)
<1>1. n \in Nat
  BY FS_CardinalityType
<1>2. IsFiniteSet(1..(n + 1)) /\ Cardinality(1..(n + 1)) = n + 1
  BY <1>1, FS_Interval
<1>3. ~(1..(n + 1) \subseteq S)
  <2>1. SUFFICES ASSUME 1..(n + 1) \subseteq S PROVE FALSE
    OBVIOUS
  <2>2. n + 1 <= n
    BY <1>2, <2>1, FS_Subset
  <2> QED BY <1>1, <2>2
<1>4. \E i \in 1..(n + 1) : i \notin S
  BY <1>3
<1>5. Unused(S) \in 1..(n + 1) /\ Unused(S) \notin S
  BY <1>4 DEF Unused
<1> QED BY <1>1, <1>5

(* The values of a function on finitely many places are finitely many.     *)
LEMMA FiniteValues ==
    ASSUME NEW n \in Nat, NEW f, DOMAIN f \in SUBSET (1..n)
    PROVE  IsFiniteSet({f[i] : i \in DOMAIN f})
<1> DEFINE T == {f[i] : i \in DOMAIN f}
           g == [i \in DOMAIN f |-> f[i]]
<1>1. IsFiniteSet(1..n)
  BY FS_Interval
<1>2. IsFiniteSet(DOMAIN f)
  BY <1>1, FS_Subset
<1>3. g \in [DOMAIN f -> T] /\ \A t \in T : \E i \in DOMAIN f : g[i] = t
  OBVIOUS
<1>4. g \in Surjection(DOMAIN f, T)
  BY <1>3 DEF Surjection
<1> HIDE DEF g, T
<1>5. IsFiniteSet(T)
  BY <1>2, <1>4, FS_Surjection
<1> QED BY <1>5 DEF T
-----------------------------------------------------------------------------
(* The parts of the records.                                                *)
LEMMA MessageParts ==
    ASSUME NEW m \in Messages
    PROVE  /\ m.type \in {"owner", "publish"} /\ m.owner \in Nat
           /\ m.type = "publish" => m.generation \in Nat /\ m.snapshot \in Snapshots
<1>1. CASE m \in OwnerNews  BY <1>1 DEF OwnerNews
<1>2. CASE m \in Publications  BY <1>2 DEF Publications
<1> QED BY <1>1, <1>2 DEF Messages

LEMMA OwnerNewsParts ==
    ASSUME NEW k \in Nat
    PROVE  /\ [type |-> "owner", owner |-> k] \in Messages
           /\ IsOwner([type |-> "owner", owner |-> k])
           /\ \A g : ~IsPublish([type |-> "owner", owner |-> k], g)
BY DEF Messages, OwnerNews, IsOwner, IsPublish

Publication(k, g, s) == [type |-> "publish", owner |-> k, generation |-> g, snapshot |-> s]

LEMMA PublicationParts ==
    ASSUME NEW k \in Nat, NEW g \in Nat, NEW s \in Snapshots
    PROVE  /\ Publication(k, g, s) \in Messages
           /\ ~IsOwner(Publication(k, g, s))
           /\ Publication(k, g, s).type = "publish"
           /\ Publication(k, g, s).owner = k /\ Publication(k, g, s).generation = g
           /\ Publication(k, g, s).snapshot = s
BY DEF Messages, Publications, IsOwner, Publication

LEMMA ObserverParts ==
    ASSUME NEW o \in Observers
    PROVE  /\ o.state \in {"off", "starting", "running", "hung", "dead"} /\ o.epoch \in Nat
           /\ o.owner \in Nat /\ o.generation \in Nat /\ o.received \in BOOLEAN
           /\ o.timer \in BOOLEAN /\ o.last \in Snapshots \cup {<<>>}
BY DEF Observers

LEMMA SnapshotParts ==
    ASSUME NEW s \in Snapshots
    PROVE  /\ s.desktops \in SUBSET Desktops /\ s.current \in Shown
           /\ s.transient \in Outputs \cup {"none"} /\ s # <<>>
<1>1. DOMAIN s # {}
  BY DEF Snapshots
<1> QED BY <1>1 DEF Snapshots

LEMMA UnavailableParts ==
    /\ Unavailable \in Snapshots
    /\ Unavailable.desktops = {} /\ Unavailable.current = <<>> /\ Unavailable.transient = "none"
<1>1. <<>> \in Shown
  BY EmptyPartial DEF Shown
<1> QED BY <1>1 DEF Unavailable, Snapshots

LEMMA SeenParts ==
    ASSUME kwin \in KWins, NEW n \in Outputs \cup {"none"}
    PROVE  /\ Seen(n) \in Snapshots
           /\ Agrees(Seen(n), kwin)
           /\ \A made : (n \in DOMAIN kwin.current => <<n, kwin.current[n]>> \in made)
                        => Real(Seen(n), made)
<1>1. kwin.current \in Shown /\ kwin.desktops \in SUBSET Desktops
  BY DEF KWins
<1>2. CASE DOMAIN kwin.current = {}
  <2>1. Seen(n) = Unavailable
    BY <1>2 DEF Seen
  <2>2. DOMAIN Unavailable.current = {}
    BY UnavailableParts, EmptyPartial
  <2> QED BY <1>2, <2>1, <2>2, UnavailableParts DEF Agrees, Current, Listed, Real
<1>3. CASE DOMAIN kwin.current # {}
  <2>1. Seen(n) = [desktops |-> kwin.desktops, current |-> kwin.current, transient |-> n]
    BY <1>3 DEF Seen
  <2>2. Seen(n).desktops = kwin.desktops /\ Seen(n).current = kwin.current /\ Seen(n).transient = n
    BY <2>1
  <2> QED BY <1>1, <1>3, <2>1, <2>2 DEF Agrees, Current, Listed, Real, Snapshots
<1> QED BY <1>2, <1>3

LEMMA UnavailableIsReal == \A made : Real(Unavailable, made)
<1>1. DOMAIN Unavailable.current = {}
  BY UnavailableParts, EmptyPartial
<1> QED BY <1>1 DEF Real

LEMMA ScriptParts ==
    ASSUME NEW S \in Partial(Nat, Scripts), NEW g \in DOMAIN S
    PROVE  /\ g \in Nat /\ S[g] \in Scripts
           /\ S[g].previous \in Shown /\ S[g].change \in Changes
           /\ S[g].structural \in BOOLEAN /\ S[g].timer \in BOOLEAN
<1>1. g \in Nat /\ S[g] \in Scripts
  BY PartialParts
<1> QED BY <1>1 DEF Scripts

LEMMA NoChangeParts ==
    NoChange \in Changes /\ NoChange.output = "none"
BY DEF NoChange, Changes, None
-----------------------------------------------------------------------------
(* What the helper knows of KWin, as the messages go out and come in.       *)
LEMMA FollowsParts ==
    ASSUME NEW o, NEW W, NEW S, NEW k
    PROVE  Follows(o, W, S, k) <=>
              /\ NoScripts(o, S) /\ OwnerComes(W, k.owner) /\ OwnerKnown(o, W, k.owner)
              /\ FromKWin(W, S, k.owner) /\ Detached(o) /\ Attached(o, W, S, k.owner)
              /\ Told(o, W, S, k)
BY DEF Follows

LEMMA AppendedMessage ==
    ASSUME NEW W \in Seq(Messages), NEW m \in Messages, NEW W2, W2 = Append(W, m)
    PROVE  /\ W2 \in Seq(Messages) /\ Len(W2) = Len(W) + 1
           /\ \A i \in 1..Len(W) : W2[i] = W[i]
           /\ W2[Len(W) + 1] = m
OBVIOUS

(* A script publishes what KWin shows, and its timer rests.                 *)
LEMMA PublicationFollows ==
    ASSUME NEW o \in Observers, NEW W \in Seq(Messages), NEW S \in Partial(Nat, Scripts),
           NEW k \in KWins, Follows(o, W, S, k), NEW g \in DOMAIN S, NEW s \in Snapshots,
           Agrees(s, k), NEW S2, DOMAIN S2 = DOMAIN S,
           \A h \in DOMAIN S : h # g => S2[h] = S[h]
    PROVE  Follows(o, Append(W, Publication(k.owner, g, s)), S2, k)
<1> DEFINE m == Publication(k.owner, g, s)
           W2 == Append(W, m)
           n == Len(W)
<1>k. k.owner \in Nat /\ g \in Nat
  BY ScriptParts DEF KWins
<1>m. /\ m \in Messages /\ ~IsOwner(m) /\ m.type = "publish" /\ m.generation = g /\ m.owner = k.owner
      /\ m.snapshot = s
  BY <1>k, PublicationParts
<1>w. n \in Nat /\ Len(W2) = n + 1
  BY <1>m
<1>v. (\A i \in 1..n : W2[i] = W[i]) /\ W2[n + 1] = m
  BY <1>m
<1> HIDE DEF m, W2, n
<1>n. n = Len(W)
  BY DEF n
<1>1. NoScripts(o, S2)
  BY FollowsParts DEF NoScripts
<1>2. OwnerComes(W2, k.owner)
  <2>1. SUFFICES ASSUME NEW i \in 1..(n + 1), IsOwner(W2[i]),
                        \A j \in (i + 1)..(n + 1) : ~IsOwner(W2[j])
                 PROVE  W2[i].owner = k.owner
    BY <1>w DEF OwnerComes
  <2>2. i \in 1..n /\ W2[i] = W[i]
    BY <1>w, <1>v, <1>m, <2>1
  <2>3. \A j \in (i + 1)..n : ~IsOwner(W[j])
    <3>1. SUFFICES ASSUME NEW j \in (i + 1)..n PROVE ~IsOwner(W[j])
      OBVIOUS
    <3>2. j \in (i + 1)..(n + 1) /\ j \in 1..n
      BY <1>w
    <3> QED BY <3>2, <2>1, <1>v
  <2>4. OwnerComes(W, k.owner)
    BY FollowsParts
  <2> QED BY <2>1, <2>2, <2>3, <2>4, <1>n DEF OwnerComes
<1>3. OwnerKnown(o, W2, k.owner)
  <2>1. NoOwner(W2) => NoOwner(W)
    <3>1. \A i \in 1..n : i \in 1..(n + 1)
      BY <1>w
    <3> QED BY <3>1, <1>w, <1>v, <1>n DEF NoOwner
  <2> QED BY <2>1, FollowsParts DEF OwnerKnown
<1>4. FromKWin(W2, S2, k.owner)
  <2>1. SUFFICES ASSUME NEW i \in 1..(n + 1), W2[i].type = "publish", W2[i].generation \in DOMAIN S
                 PROVE  W2[i].owner = k.owner
    BY <1>w DEF FromKWin
  <2>2. CASE i = n + 1
    BY <2>2, <1>v, <1>m
  <2>3. CASE i # n + 1
    <3>1. i \in 1..n /\ W2[i] = W[i]
      BY <2>3, <1>w, <1>v
    <3>2. FromKWin(W, S, k.owner)
      BY FollowsParts
    <3> QED BY <2>1, <3>1, <3>2, <1>n DEF FromKWin
  <2> QED BY <2>2, <2>3
<1>5. Detached(o)
  BY FollowsParts
<1>s. \A h : Silent(W, h) /\ h # g => Silent(W2, h)
  <2>1. SUFFICES ASSUME NEW h, Silent(W, h), h # g, NEW i \in 1..(n + 1) PROVE ~IsPublish(W2[i], h)
    BY <1>w DEF Silent
  <2>2. i \in 1..n \/ i = n + 1
    BY <1>w
  <2> QED BY <2>1, <2>2, <1>v, <1>m, <1>n DEF Silent, IsPublish
<1>6. Attached(o, W2, S2, k.owner)
  <2>1. Attached(o, W, S, k.owner)
    BY FollowsParts
  <2> QED BY <2>1, <1>s DEF Attached
<1>7. Told(o, W2, S2, k)
  <2>1. SUFFICES ASSUME o.state = "running", o.generation # None, o.generation \in DOMAIN S,
                        o.owner = k.owner, ~S2[o.generation].timer
                 PROVE  Says(W2, o.generation, o.last, k)
    BY DEF Told
  <2>2. CASE o.generation = g
    <3>1. n + 1 \in 1..(n + 1) /\ \A j \in (n + 1 + 1)..(n + 1) : ~IsPublish(W2[j], g)
      BY <1>w
    <3>2. IsPublish(W2[n + 1], g) /\ Agrees(W2[n + 1].snapshot, k)
      BY <1>v, <1>m DEF IsPublish
    <3> QED BY <2>2, <3>1, <3>2, <1>w DEF Says
  <2>3. CASE o.generation # g
    <3>1. Told(o, W, S, k) /\ ~S[o.generation].timer
      BY <2>1, <2>3, FollowsParts
    <3>2. Says(W, o.generation, o.last, k)
      BY <2>1, <3>1 DEF Told
    <3>3. CASE Silent(W, o.generation) /\ o.last # <<>> /\ Agrees(o.last, k)
      BY <3>3, <2>3, <1>s DEF Says
    <3>4. CASE \E i \in 1..Len(W) :
                  /\ IsPublish(W[i], o.generation) /\ Agrees(W[i].snapshot, k)
                  /\ \A j \in (i + 1)..Len(W) : ~IsPublish(W[j], o.generation)
      <4>1. PICK i \in 1..n :
                  /\ IsPublish(W[i], o.generation) /\ Agrees(W[i].snapshot, k)
                  /\ \A j \in (i + 1)..n : ~IsPublish(W[j], o.generation)
        BY <3>4, <1>n
      <4>2. i \in 1..(n + 1) /\ W2[i] = W[i]
        BY <1>w, <1>v
      <4>3. ASSUME NEW j \in (i + 1)..(n + 1) PROVE ~IsPublish(W2[j], o.generation)
        <5>1. CASE j = n + 1
          BY <5>1, <1>v, <1>m, <2>3 DEF IsPublish
        <5>2. CASE j # n + 1
          <6>1. j \in (i + 1)..n /\ j \in 1..n
            BY <5>2, <1>w
          <6> QED BY <6>1, <4>1, <1>v
        <5> QED BY <5>1, <5>2
      <4> QED BY <4>1, <4>2, <4>3, <1>w DEF Says
    <3> QED BY <3>2, <3>3, <3>4 DEF Says
  <2> QED BY <2>2, <2>3
<1> QED BY <1>1, <1>2, <1>3, <1>4, <1>5, <1>6, <1>7, FollowsParts DEF W2, m

(* Every script has something to say after a change.                        *)
LEMMA ChangesFollow ==
    ASSUME NEW o, NEW W, NEW S, NEW k, NEW S2, NEW k2, Follows(o, W, S, k),
           k2.owner = k.owner, DOMAIN S2 = DOMAIN S, \A g \in DOMAIN S : S2[g].timer
    PROVE  Follows(o, W, S2, k2)
<1>1. NoScripts(o, S2) /\ FromKWin(W, S2, k2.owner) /\ Attached(o, W, S2, k2.owner)
  BY FollowsParts DEF NoScripts, FromKWin, Attached
<1>2. Told(o, W, S2, k2)
  BY DEF Told
<1> QED BY <1>1, <1>2, FollowsParts
(* KWin restarts: the helper is told, if it runs, and no script is left.    *)
LEMMA RestartFollows ==
    ASSUME NEW o \in Observers, NEW W \in Seq(Messages), NEW S, NEW k, NEW k2 \in KWins,
           Follows(o, W, S, k), k2.owner = None \/ k2.owner # o.owner
    PROVE  /\ Follows(o, Append(W, [type |-> "owner", owner |-> k2.owner]), <<>>, k2)
           /\ o.state = "off" => Follows(o, <<>>, <<>>, k2)
<1> DEFINE m == [type |-> "owner", owner |-> k2.owner]
           W2 == Append(W, m)
           n == Len(W)
<1>m. m \in Messages /\ IsOwner(m) /\ m.owner = k2.owner
  BY OwnerNewsParts DEF KWins
<1>w. n \in Nat /\ Len(W2) = n + 1
  BY <1>m
<1>v. W2[n + 1] = m
  BY <1>m
<1>e. DOMAIN <<>> = {} /\ Len(<<>>) = 0
  OBVIOUS
<1> HIDE DEF m, W2, n
<1>1. OwnerComes(W2, k2.owner)
  <2>1. SUFFICES ASSUME NEW i \in 1..(n + 1), IsOwner(W2[i]),
                        \A j \in (i + 1)..(n + 1) : ~IsOwner(W2[j])
                 PROVE  W2[i].owner = k2.owner
    BY <1>w DEF OwnerComes
  <2>2. i = n + 1
    <3>1. SUFFICES ASSUME i # n + 1 PROVE FALSE
      OBVIOUS
    <3>2. n + 1 \in (i + 1)..(n + 1)
      BY <1>w, <3>1
    <3> QED BY <3>2, <2>1, <1>v, <1>m
  <2> QED BY <2>2, <1>v, <1>m
<1>2. OwnerKnown(o, W2, k2.owner)
  <2>1. n + 1 \in 1..Len(W2) /\ IsOwner(W2[n + 1])
    BY <1>w, <1>v, <1>m
  <2>2. ~NoOwner(W2)
    BY <2>1 DEF NoOwner
  <2> QED BY <2>2 DEF OwnerKnown
<1>3. \A V : NoScripts(o, <<>>) /\ FromKWin(V, <<>>, k2.owner) /\ Told(o, V, <<>>, k2)
  BY <1>e DEF NoScripts, FromKWin, Told
<1>4. \A V : Detached(o) /\ Attached(o, V, <<>>, k2.owner)
  <2>1. Detached(o) /\ Attached(o, W, S, k.owner)
    BY FollowsParts
  <2> QED BY <2>1 DEF Attached
<1>5. OwnerComes(<<>>, k2.owner)
  BY <1>e DEF OwnerComes
<1>6. o.state = "off" => OwnerKnown(o, <<>>, k2.owner)
  BY DEF OwnerKnown
<1>7. Follows(o, W2, <<>>, k2)
  BY <1>1, <1>2, <1>3, <1>4, FollowsParts
<1>8. o.state = "off" => Follows(o, <<>>, <<>>, k2)
  BY <1>5, <1>6, <1>3, <1>4, FollowsParts
<1> QED BY <1>7, <1>8 DEF W2, m

(* The first message is taken.                                              *)
LEMMA TailWire ==
    ASSUME NEW W \in Seq(Messages), W # <<>>
    PROVE  /\ Tail(W) \in Seq(Messages) /\ Head(W) \in Messages
           /\ \A k : OwnerComes(W, k) => OwnerComes(Tail(W), k)
           /\ \A k, S : FromKWin(W, S, k) => FromKWin(Tail(W), S, k)
           /\ \A g : Silent(W, g) => Silent(Tail(W), g)
           /\ \A k : OwnerComes(W, k) /\ NoOwner(Tail(W)) /\ IsOwner(Head(W)) => Head(W).owner = k
           /\ NoOwner(Tail(W)) /\ ~IsOwner(Head(W)) => NoOwner(W)
           /\ \A k, S : FromKWin(W, S, k) /\ Head(W).type = "publish"
                        /\ Head(W).generation \in DOMAIN S => Head(W).owner = k
           /\ \A g : Silent(W, g) => ~IsPublish(Head(W), g)
<1> DEFINE n == Len(W)
           T == Tail(W)
           m == Head(W)
<1>1. n \in Nat /\ n >= 1 /\ Len(T) = n - 1 /\ 1 \in 1..n
  OBVIOUS
<1>2. \A i \in 1..(n - 1) : T[i] = W[i + 1] /\ i + 1 \in 1..n
  OBVIOUS
<1>3. m = W[1] /\ T \in Seq(Messages) /\ m \in Messages
  OBVIOUS
<1>4. \A i \in 2..n : i - 1 \in 1..(n - 1) /\ T[i - 1] = W[i]
  BY <1>1
<1> HIDE DEF n, T, m
<1>5. ASSUME NEW k, OwnerComes(W, k) PROVE OwnerComes(T, k)
  <2>1. SUFFICES ASSUME NEW i \in 1..(n - 1), IsOwner(T[i]),
                        \A j \in (i + 1)..(n - 1) : ~IsOwner(T[j])
                 PROVE  T[i].owner = k
    BY <1>1 DEF OwnerComes
  <2>2. IsOwner(W[i + 1]) /\ i + 1 \in 1..n
    BY <2>1, <1>2
  <2>3. ASSUME NEW j \in (i + 1 + 1)..n PROVE ~IsOwner(W[j])
    <3>1. j - 1 \in (i + 1)..(n - 1) /\ j \in 2..n
      BY <1>1
    <3> QED BY <3>1, <2>1, <1>4
  <2>4. W[i + 1].owner = k
    BY <1>5, <2>2, <2>3 DEF OwnerComes, n
  <2> QED BY <2>4, <1>2
<1>6. ASSUME NEW k, NEW S, FromKWin(W, S, k) PROVE FromKWin(T, S, k)
  BY <1>6, <1>1, <1>2 DEF FromKWin, n
<1>7. ASSUME NEW g, Silent(W, g) PROVE Silent(T, g)
  BY <1>7, <1>1, <1>2 DEF Silent, n
<1>8. ASSUME NEW k, OwnerComes(W, k), NoOwner(T), IsOwner(m) PROVE m.owner = k
  <2>1. ASSUME NEW j \in (1 + 1)..n PROVE ~IsOwner(W[j])
    <3>1. j \in 2..n
      OBVIOUS
    <3>2. j - 1 \in 1..(n - 1) /\ T[j - 1] = W[j]
      BY <3>1, <1>4
    <3> QED BY <3>2, <1>8, <1>1 DEF NoOwner
  <2> QED BY <2>1, <1>8, <1>1, <1>3 DEF OwnerComes, n
<1>9. NoOwner(T) /\ ~IsOwner(m) => NoOwner(W)
  <2>1. SUFFICES ASSUME NoOwner(T), ~IsOwner(m), NEW i \in 1..n PROVE ~IsOwner(W[i])
    BY DEF NoOwner, n
  <2>2. CASE i = 1
    BY <2>1, <2>2, <1>3
  <2>3. CASE i # 1
    <3>1. i \in 2..n
      BY <2>3, <1>1
    <3> QED BY <3>1, <2>1, <1>4, <1>1 DEF NoOwner
  <2> QED BY <2>2, <2>3
<1>10. ASSUME NEW k, NEW S, FromKWin(W, S, k), m.type = "publish", m.generation \in DOMAIN S
       PROVE  m.owner = k
  BY <1>10, <1>1, <1>3 DEF FromKWin, n
<1>11. ASSUME NEW g, Silent(W, g) PROVE ~IsPublish(m, g)
  BY <1>11, <1>1, <1>3 DEF Silent, n
<1> QED BY <1>3, <1>5, <1>6, <1>7, <1>8, <1>9, <1>10, <1>11 DEF T, m

LEMMA TailSays ==
    ASSUME NEW W \in Seq(Messages), W # <<>>, NEW g, NEW known, NEW k, Says(W, g, known, k)
    PROVE  /\ ~IsPublish(Head(W), g) => Says(Tail(W), g, known, k)
           /\ IsPublish(Head(W), g) /\ Head(W).snapshot # <<>> => Says(Tail(W), g, Head(W).snapshot, k)
<1> DEFINE n == Len(W)
           T == Tail(W)
           m == Head(W)
<1>1. n \in Nat /\ n >= 1 /\ Len(T) = n - 1 /\ 1 \in 1..n
  OBVIOUS
<1>3. m = W[1]
  OBVIOUS
<1>4. \A i \in 2..n : i - 1 \in 1..(n - 1) /\ T[i - 1] = W[i]
  BY <1>1
<1>2. \A i \in 1..(n - 1) : T[i] = W[i + 1] /\ i + 1 \in 2..n
  OBVIOUS
<1>s. Silent(W, g) => Silent(T, g) /\ ~IsPublish(m, g)
  BY TailWire
<1> HIDE DEF n, T, m
<1>5. CASE Silent(W, g) /\ known # <<>> /\ Agrees(known, k)
  BY <1>5, <1>s DEF Says, T, m
<1>6. CASE \E i \in 1..n :
              /\ IsPublish(W[i], g) /\ Agrees(W[i].snapshot, k)
              /\ \A j \in (i + 1)..n : ~IsPublish(W[j], g)
  <2>1. PICK i \in 1..n :
              /\ IsPublish(W[i], g) /\ Agrees(W[i].snapshot, k)
              /\ \A j \in (i + 1)..n : ~IsPublish(W[j], g)
    BY <1>6
  <2>2. CASE i = 1
    <3>1. ASSUME NEW j \in 1..(n - 1) PROVE ~IsPublish(T[j], g)
      <4>1. j + 1 \in (1 + 1)..n
        BY <1>1
      <4> QED BY <4>1, <2>1, <2>2, <1>2
    <3>2. Silent(T, g)
      BY <3>1, <1>1 DEF Silent
    <3> QED BY <2>1, <2>2, <3>2, <1>3 DEF Says, T, m
  <2>3. CASE i # 1
    <3>1. i \in 2..n
      BY <2>3, <1>1
    <3>2. i - 1 \in 1..(n - 1) /\ T[i - 1] = W[i]
      BY <3>1, <1>4
    <3>3. ASSUME NEW j \in (i - 1 + 1)..(n - 1) PROVE ~IsPublish(T[j], g)
      <4>1. j + 1 \in (i + 1)..n /\ j \in 1..(n - 1)
        BY <1>1, <3>1
      <4> QED BY <4>1, <2>1, <1>2
    <3>4. \A c : Says(T, g, c, k)
      BY <3>2, <3>3, <2>1, <1>1 DEF Says
    <3> QED BY <3>4 DEF T, m
  <2> QED BY <2>2, <2>3
<1> QED BY <1>5, <1>6 DEF Says, n
-----------------------------------------------------------------------------
(* The ends of retireGeneration, detachOwner and attachOwner.               *)

(* The scripts S2 are some of S, as they were.                              *)
Fewer(S2, S) == DOMAIN S2 \subseteq DOMAIN S /\ \A g \in DOMAIN S2 : S2[g] = S[g]

Ends == [observer : Observers, scripts : Partial(Nat, Scripts), cost : Nat]

(* The helper o that has let go of its script is p.                         *)
Idle(p, o) ==
    /\ p \in Observers /\ p.state = o.state /\ p.epoch = o.epoch /\ p.last = o.last
    /\ p.generation = None /\ ~p.timer

LEMMA EndParts ==
    ASSUME NEW r \in Ends
    PROVE  r.observer \in Observers /\ r.scripts \in Partial(Nat, Scripts) /\ r.cost \in Nat
BY DEF Ends

LEMMA Retired ==
    ASSUME scripts \in Partial(Nat, Scripts), NEW o \in Observers, NEW r \in Retirements(o)
    PROVE  /\ r \in Ends
           /\ Idle(r.observer, o) /\ r.observer.owner = o.owner
           /\ Fewer(r.scripts, scripts)
<1> DEFINE idle == [o EXCEPT !.generation = None, !.received = FALSE, !.timer = FALSE]
           gone == Omit(scripts, {o.generation})
<1>1. idle \in Observers /\ Idle(idle, o) /\ idle.owner = o.owner
  BY DEF Observers, Idle, None
<1>2. gone \in Partial(Nat, Scripts) /\ Fewer(gone, scripts) /\ Fewer(scripts, scripts)
  <2>1. gone \in Partial(Nat, Scripts)
    BY OmitPartial
  <2>2. DOMAIN gone = DOMAIN scripts \ {o.generation}
    BY OmitDomain
  <2>3. \A x \in DOMAIN scripts : x \notin {o.generation} => gone[x] = scripts[x]
    BY OmitValues
  <2> HIDE DEF gone
  <2> QED BY <2>1, <2>2, <2>3 DEF Fewer
<1> HIDE DEF idle, gone
<1>3. r \in {[observer |-> idle, scripts |-> gone, cost |-> 0],
             [observer |-> idle, scripts |-> scripts, cost |-> 1]}
  BY DEF Retirements, idle, gone
<1>4. CASE r = [observer |-> idle, scripts |-> gone, cost |-> 0]
  BY <1>4, <1>1, <1>2 DEF Ends
<1>5. CASE r = [observer |-> idle, scripts |-> scripts, cost |-> 1]
  BY <1>5, <1>1, <1>2 DEF Ends
<1> QED BY <1>3, <1>4, <1>5

LEMMA DetachedEnds ==
    ASSUME scripts \in Partial(Nat, Scripts), NEW o \in Observers, NEW r \in DetachOwner(o)
    PROVE  /\ r \in Ends
           /\ Idle(r.observer, o) /\ r.observer.owner = None
           /\ Fewer(r.scripts, scripts)
<1>1. PICK q \in Retirements(o) : r = [q EXCEPT !.observer.owner = None]
  BY DEF DetachOwner
<1>2. q \in Ends /\ Idle(q.observer, o) /\ Fewer(q.scripts, scripts)
  BY Retired
<1>3. r = [q EXCEPT !.observer = [q.observer EXCEPT !.owner = None]]
  BY <1>1
<1> DEFINE p == [q.observer EXCEPT !.owner = None]
<1>4. p \in Observers /\ Idle(p, o) /\ p.owner = None
  BY <1>2 DEF Observers, Idle, None
<1> HIDE DEF p
<1>5. r \in Ends /\ r.observer = p /\ r.scripts = q.scripts
  BY <1>2, <1>3, <1>4 DEF Ends, p
<1> QED BY <1>2, <1>4, <1>5

(* The helper o that was handed the owner new, with the scripts S2, is p.   *)
Handed(p, S2, o, new) ==
    /\ p \in Observers /\ p.state = o.state /\ p.epoch = o.epoch /\ p.last = o.last
    /\ p.owner = new
    /\ S2 \in Partial(Nat, Scripts) /\ IsFiniteSet(DOMAIN S2)
    /\ \A g \in DOMAIN S2 : \/ g \in DOMAIN scripts /\ S2[g] = scripts[g]
                            \/ Silent(kwinWire, g) /\ S2[g].structural /\ S2[g].timer
    /\ o.state = "starting" => DOMAIN S2 \subseteq DOMAIN scripts
    /\ p.generation = None => ~p.timer
    /\ p.generation # None =>
          /\ new = kwin.owner /\ new # None /\ p.timer /\ Silent(kwinWire, p.generation)
          /\ p.generation \in DOMAIN S2 => S2[p.generation].timer

(* What the helper names its next script.                                   *)
Published == {kwinWire[i].generation : i \in {j \in DOMAIN kwinWire : kwinWire[j].type = "publish"}}
NextGeneration(S) == Unused(DOMAIN S \cup Published)

LEMMA NextIsNew ==
    ASSUME kwinWire \in Seq(Messages), NEW S, IsFiniteSet(DOMAIN S)
    PROVE  /\ NextGeneration(S) \in Nat \ {0} /\ NextGeneration(S) \notin DOMAIN S
           /\ Silent(kwinWire, NextGeneration(S))
<1> DEFINE D == {j \in DOMAIN kwinWire : kwinWire[j].type = "publish"}
           f == [i \in D |-> kwinWire[i].generation]
<1>1. Len(kwinWire) \in Nat /\ DOMAIN kwinWire = 1..Len(kwinWire)
  OBVIOUS
<1>2. DOMAIN f \in SUBSET (1..Len(kwinWire))
  BY <1>1
<1>3. IsFiniteSet({f[i] : i \in DOMAIN f})
  BY <1>1, <1>2, FiniteValues
<1>4. Published = {f[i] : i \in DOMAIN f}
  BY DEF Published
<1> HIDE DEF f, D
<1>5. IsFiniteSet(DOMAIN S \cup Published)
  BY <1>3, <1>4, FS_Union
<1>6. NextGeneration(S) \in Nat \ {0} /\ NextGeneration(S) \notin DOMAIN S \cup Published
  BY <1>5, UnusedFresh DEF NextGeneration
<1>7. \A g : g \notin Published => Silent(kwinWire, g)
  BY <1>1 DEF Published, Silent, IsPublish
<1> QED BY <1>6, <1>7
Fresh == [previous |-> <<>>, change |-> NoChange, structural |-> TRUE, timer |-> TRUE]

LEMMA FreshParts == Fresh \in Scripts /\ Fresh.structural /\ Fresh.timer
<1>1. <<>> \in Shown
  BY EmptyPartial DEF Shown
<1> QED BY <1>1, NoChangeParts DEF Fresh, Scripts

LEMMA LoadedScripts ==
    ASSUME NEW S \in Partial(Nat, Scripts), NEW g \in Nat, IsFiniteSet(DOMAIN S)
    PROVE  /\ Put(S, g, Fresh) \in Partial(Nat, Scripts) /\ IsFiniteSet(DOMAIN Put(S, g, Fresh))
           /\ DOMAIN Put(S, g, Fresh) = DOMAIN S \cup {g}
           /\ Put(S, g, Fresh)[g] = Fresh
           /\ \A h \in DOMAIN S : h # g => Put(S, g, Fresh)[h] = S[h]
<1>1. Put(S, g, Fresh) \in Partial(Nat, Scripts)
  BY AddedPartial, FreshParts
<1>2. DOMAIN Put(S, g, Fresh) = DOMAIN S \cup {g}
  BY PutDomain
<1>3. IsFiniteSet(DOMAIN S \cup {g})
  BY FS_AddElement
<1>4. Put(S, g, Fresh)[g] = Fresh /\ \A h \in DOMAIN S : h # g => Put(S, g, Fresh)[h] = S[h]
  BY PutValues
<1> QED BY <1>1, <1>2, <1>3, <1>4

LEMMA AttachedEnds ==
    ASSUME DesktopTypeOK, NEW o \in Observers, NEW q \in Ends, Idle(q.observer, o),
           Fewer(q.scripts, scripts), NEW new \in Nat, new # None, NEW r \in AttachOwner(new, q)
    PROVE  Handed(r.observer, r.scripts, o, new) /\ r.cost \in Nat
<1> DEFINE p == q.observer
           S == q.scripts
           g == NextGeneration(S)
           attached == [p EXCEPT !.owner = new]
           loaded == IF attached.state = "starting" THEN S ELSE Put(S, g, Fresh)
           charged == [attached EXCEPT !.generation = g, !.timer = TRUE]
<1>1. p \in Observers /\ S \in Partial(Nat, Scripts) /\ q.cost \in Nat
  BY EndParts
<1>2. DOMAIN S \subseteq DOMAIN scripts /\ \A h \in DOMAIN S : S[h] = scripts[h]
  BY DEF Fewer
<1>3. IsFiniteSet(DOMAIN S)
  BY <1>2, FS_Subset DEF DesktopTypeOK
<1>4. g \in Nat \ {0} /\ g \notin DOMAIN S /\ Silent(kwinWire, g)
  BY <1>3, NextIsNew DEF DesktopTypeOK
<1>5. attached \in Observers /\ attached.owner = new /\ Idle(attached, o)
  BY <1>1 DEF Observers, Idle
<1> HIDE DEF p, S, g, attached
<1>6. charged \in Observers /\ charged.state = o.state /\ charged.epoch = o.epoch
      /\ charged.last = o.last /\ charged.owner = new /\ charged.generation = g /\ charged.timer
  BY <1>4, <1>5 DEF Observers, Idle
<1>7. /\ loaded \in Partial(Nat, Scripts) /\ IsFiniteSet(DOMAIN loaded)
      /\ \A h \in DOMAIN loaded : \/ h \in DOMAIN scripts /\ loaded[h] = scripts[h]
                                  \/ Silent(kwinWire, h) /\ loaded[h].structural /\ loaded[h].timer
      /\ o.state = "starting" => DOMAIN loaded \subseteq DOMAIN scripts
      /\ g \in DOMAIN loaded => loaded[g].timer
  <2>1. attached.state = o.state
    BY <1>5 DEF Idle
  <2>2. CASE o.state = "starting"
    <3>1. loaded = S
      BY <2>1, <2>2
    <3> HIDE DEF loaded
    <3> QED BY <3>1, <1>1, <1>2, <1>3, <1>4 DEF S
  <2>3. CASE o.state # "starting"
    <3> DEFINE L == Put(S, g, Fresh)
    <3>1. loaded = L
      BY <2>1, <2>3
    <3>0. S \in Partial(Nat, Scripts) /\ g \in Nat
      BY <1>1, <1>4 DEF S
    <3>2. /\ L \in Partial(Nat, Scripts) /\ IsFiniteSet(DOMAIN L) /\ L[g] = Fresh
          /\ DOMAIN L = DOMAIN S \cup {g} /\ \A h \in DOMAIN S : h # g => L[h] = S[h]
      BY <3>0, <1>3, LoadedScripts
    <3> HIDE DEF loaded, L
    <3>3. L[g].structural /\ L[g].timer
      BY <3>2, FreshParts
    <3>4. ASSUME NEW h \in DOMAIN L
          PROVE  \/ h \in DOMAIN scripts /\ L[h] = scripts[h]
                 \/ Silent(kwinWire, h) /\ L[h].structural /\ L[h].timer
      <4>1. CASE h = g
        BY <4>1, <3>3, <1>4
      <4>2. CASE h # g
        <5>1. h \in DOMAIN S
          BY <3>2, <4>2
        <5> QED BY <5>1, <4>2, <3>2, <1>2
      <4> QED BY <4>1, <4>2
    <3> QED BY <3>1, <3>2, <3>3, <3>4, <2>3
  <2> QED BY <2>2, <2>3
<1> HIDE DEF charged, loaded
<1>8. \/ kwin.owner # new /\ r = [q EXCEPT !.observer = attached]
      \/ kwin.owner = new /\ r = [observer |-> charged, scripts |-> loaded, cost |-> q.cost]
      \/ kwin.owner = new /\ r = [observer |-> attached, scripts |-> S, cost |-> q.cost + 1]
      \/ kwin.owner = new /\ r = [observer |-> attached, scripts |-> loaded, cost |-> q.cost + 1]
  <2>1. CASE kwin.owner # new
    <3>1. r \in {[q EXCEPT !.observer = attached]}
      BY <2>1 DEF AttachOwner, attached, p
    <3> QED BY <2>1, <3>1
  <2>2. CASE kwin.owner = new
    <3>1. r \in {[observer |-> charged, scripts |-> loaded, cost |-> q.cost],
                 [observer |-> attached, scripts |-> S, cost |-> q.cost + 1],
                 [observer |-> attached, scripts |-> loaded, cost |-> q.cost + 1]}
      BY <2>2 DEF AttachOwner, attached, p, charged, loaded, S, g, NextGeneration, Published, Fresh
    <3> QED BY <2>2, <3>1
  <2> QED BY <2>1, <2>2
<1>9. Handed(attached, S, o, new)
  <2>1. \A h \in DOMAIN S : h \in DOMAIN scripts /\ S[h] = scripts[h]
    BY <1>2 DEF S
  <2>2. S \in Partial(Nat, Scripts) /\ DOMAIN S \subseteq DOMAIN scripts
    BY <1>1, <1>2 DEF S
  <2> QED BY <2>1, <2>2, <1>3, <1>5 DEF Handed, Idle
<1>10. Handed(attached, loaded, o, new)
  BY <1>5, <1>7 DEF Handed, Idle
<1>11. kwin.owner = new => Handed(charged, loaded, o, new)
  <2>1. SUFFICES ASSUME kwin.owner = new PROVE Handed(charged, loaded, o, new)
    OBVIOUS
  <2>2. charged.generation # None /\ Silent(kwinWire, charged.generation)
    BY <1>4, <1>6 DEF None
  <2>3. charged.generation \in DOMAIN loaded => loaded[charged.generation].timer
    BY <1>6, <1>7
  <2> QED BY <2>1, <2>2, <2>3, <1>6, <1>7 DEF Handed
<1>12. CASE r = [q EXCEPT !.observer = attached]
  <2>1. r.observer = attached /\ r.scripts = S /\ r.cost = q.cost
    BY <1>12 DEF Ends, S
  <2> QED BY <2>1, <1>9, EndParts
<1>13. CASE kwin.owner = new /\ r = [observer |-> charged, scripts |-> loaded, cost |-> q.cost]
  <2>1. r.observer = charged /\ r.scripts = loaded /\ r.cost = q.cost
    BY <1>13
  <2> QED BY <2>1, <1>11, <1>13, EndParts
<1>14. CASE r = [observer |-> attached, scripts |-> S, cost |-> q.cost + 1]
  <2>1. r.observer = attached /\ r.scripts = S /\ r.cost = q.cost + 1
    BY <1>14
  <2> QED BY <2>1, <1>9, EndParts
<1>15. CASE r = [observer |-> attached, scripts |-> loaded, cost |-> q.cost + 1]
  <2>1. r.observer = attached /\ r.scripts = loaded /\ r.cost = q.cost + 1
    BY <1>15
  <2> QED BY <2>1, <1>10, EndParts
<1> QED BY <1>8, <1>12, <1>13, <1>14, <1>15

LEMMA ReattachedEnds ==
    ASSUME DesktopTypeOK, NEW o \in Observers, NEW new \in Nat, NEW r \in Reattach(new, o)
    PROVE  Handed(r.observer, r.scripts, o, new) /\ r.cost \in Nat
<1>0. scripts \in Partial(Nat, Scripts) /\ IsFiniteSet(DOMAIN scripts)
  BY DEF DesktopTypeOK
<1>1. PICK q \in DetachOwner(o) : r \in IF new = None THEN {q} ELSE AttachOwner(new, q)
  BY DEF Reattach
<1>2. q \in Ends /\ Idle(q.observer, o) /\ q.observer.owner = None /\ Fewer(q.scripts, scripts)
  BY <1>0, DetachedEnds
<1>3. CASE new = None
  <2>1. r = q
    BY <1>1, <1>3
  <2>2. IsFiniteSet(DOMAIN q.scripts)
    BY <1>0, <1>2, FS_Subset DEF Fewer
  <2> QED BY <2>1, <2>2, <1>2, <1>3, EndParts DEF Handed, Idle, Fewer
<1>4. CASE new # None
  <2>1. r \in AttachOwner(new, q)
    BY <1>1, <1>4
  <2> QED BY <2>1, <1>2, <1>4, AttachedEnds
<1> QED BY <1>3, <1>4
(* A helper that was handed the owner that the rest of the messages name.   *)
LEMMA HandedFollows ==
    ASSUME NEW o \in Observers, o.state \in {"starting", "running"}, NEW p, NEW S2, NEW new,
           Handed(p, S2, o, new), NEW p2, NEW W2,
           p2.state = p.state, p2.owner = p.owner, p2.generation = p.generation,
           p2.timer = p.timer, p2.last = Unavailable,
           NoScripts(o, scripts), OwnerComes(W2, kwin.owner), FromKWin(W2, scripts, kwin.owner),
           NoOwner(W2) => new = kwin.owner, \A g : Silent(kwinWire, g) => Silent(W2, g)
    PROVE  Follows(p2, W2, S2, kwin)
<1>1. /\ p2.state = o.state /\ p2.owner = new
      /\ \A g \in DOMAIN S2 : \/ g \in DOMAIN scripts /\ S2[g] = scripts[g]
                              \/ Silent(kwinWire, g) /\ S2[g].timer
      /\ o.state = "starting" => DOMAIN S2 \subseteq DOMAIN scripts
      /\ p2.generation = None => ~p2.timer
  BY DEF Handed
<1>2. p2.generation # None =>
          /\ new = kwin.owner /\ new # None /\ p2.timer /\ Silent(W2, p2.generation)
          /\ p2.generation \in DOMAIN S2 => S2[p2.generation].timer
  BY DEF Handed
<1>3. NoScripts(p2, S2)
  BY <1>1 DEF NoScripts
<1>4. OwnerKnown(p2, W2, kwin.owner)
  BY <1>1 DEF OwnerKnown
<1>5. FromKWin(W2, S2, kwin.owner)
  <2>1. SUFFICES ASSUME NEW i \in 1..Len(W2), W2[i].type = "publish", W2[i].generation \in DOMAIN S2
                 PROVE  W2[i].owner = kwin.owner
    BY DEF FromKWin
  <2>2. ~Silent(W2, W2[i].generation)
    BY <2>1 DEF Silent, IsPublish
  <2>3. W2[i].generation \in DOMAIN scripts
    BY <1>1, <2>1, <2>2
  <2> QED BY <2>1, <2>3 DEF FromKWin
<1>6. Detached(p2)
  BY <1>1 DEF Detached
<1>7. Attached(p2, W2, S2, kwin.owner)
  BY <1>1, <1>2 DEF Attached
<1>8. Told(p2, W2, S2, kwin)
  BY <1>2 DEF Told
<1> QED BY <1>3, <1>4, <1>5, <1>6, <1>7, <1>8, FollowsParts

(* A helper that let go of its script: it timed out.                        *)
LEMMA RetiredFollows ==
    ASSUME NEW o, NEW p, Idle(p, o), p.owner = o.owner, NEW S2, Fewer(S2, scripts),
           Follows(o, kwinWire, scripts, kwin), NEW p2,
           p2.state = p.state, p2.owner = p.owner, p2.generation = p.generation,
           p2.timer = p.timer, p2.last = Unavailable
    PROVE  Follows(p2, kwinWire, S2, kwin)
<1>1. p2.state = o.state /\ p2.owner = o.owner /\ p2.generation = None /\ ~p2.timer
  BY DEF Idle
<1>2. DOMAIN S2 \subseteq DOMAIN scripts
  BY DEF Fewer
<1>3. NoScripts(p2, S2) /\ OwnerKnown(p2, kwinWire, kwin.owner) /\ FromKWin(kwinWire, S2, kwin.owner)
  BY <1>1, <1>2, FollowsParts DEF NoScripts, OwnerKnown, FromKWin
<1>4. Detached(p2) /\ Attached(p2, kwinWire, S2, kwin.owner) /\ Told(p2, kwinWire, S2, kwin)
  BY <1>1 DEF Detached, Attached, Told
<1> QED BY <1>3, <1>4, FollowsParts

(* A helper that does not work knows nothing, and has no scripts when it is *)
(* gone.                                                                    *)
LEMMA GoneFollows ==
    ASSUME NEW o, NEW W, NEW S, NEW k, o.state \in {"off", "dead"} \/ (o.state = "starting" /\
           o.generation = None /\ ~o.timer /\ o.last = <<>> /\ o.owner = None),
           DOMAIN S = {}, OwnerComes(W, k.owner)
    PROVE  Follows(o, W, S, k)
<1>1. NoScripts(o, S) /\ FromKWin(W, S, k.owner) /\ Detached(o) /\ Attached(o, W, S, k.owner)
  BY DEF NoScripts, FromKWin, Detached, Attached
<1>2. Told(o, W, S, k) /\ OwnerKnown(o, W, k.owner)
  BY DEF Told, OwnerKnown
<1> QED BY <1>1, <1>2, FollowsParts

LEMMA HungFollows ==
    ASSUME NEW o, NEW p, NEW W, NEW S, NEW k, Follows(o, W, S, k), p.state = "hung"
    PROVE  Follows(p, W, S, k)
<1>1. NoScripts(p, S) /\ Detached(p) /\ Attached(p, W, S, k.owner) /\ Told(p, W, S, k)
      /\ OwnerKnown(p, W, k.owner)
  BY DEF NoScripts, Detached, Attached, Told, OwnerKnown
<1> QED BY <1>1, FollowsParts

(* News of the owner it knows.                                              *)
LEMMA SameOwnerFollows ==
    ASSUME NEW o, NEW W \in Seq(Messages), NEW S, NEW k, Follows(o, W, S, k), W # <<>>,
           IsOwner(Head(W)), Head(W).owner = o.owner
    PROVE  Follows(o, Tail(W), S, k)
<1>0. OwnerComes(W, k.owner) /\ FromKWin(W, S, k.owner) /\ Attached(o, W, S, k.owner) /\ Told(o, W, S, k)
  BY FollowsParts
<1>p. \A g : ~IsPublish(Head(W), g)
  BY DEF IsPublish, IsOwner
<1>1. OwnerComes(Tail(W), k.owner)
  BY <1>0, TailWire
<1>2. FromKWin(Tail(W), S, k.owner)
  BY <1>0, TailWire
<1>3. OwnerKnown(o, Tail(W), k.owner)
  <2>1. NoOwner(Tail(W)) => Head(W).owner = k.owner
    BY <1>0, TailWire
  <2> QED BY <2>1 DEF OwnerKnown
<1>s. \A g : Silent(W, g) => Silent(Tail(W), g)
  BY TailWire
<1>4. Attached(o, Tail(W), S, k.owner)
  BY <1>0, <1>s DEF Attached
<1>5. Told(o, Tail(W), S, k)
  <2>1. \A known : Says(W, o.generation, known, k) => Says(Tail(W), o.generation, known, k)
    BY <1>p, TailSays
  <2> QED BY <1>0, <2>1 DEF Told
<1> QED BY <1>1, <1>2, <1>3, <1>4, <1>5, FollowsParts

Authentic(o, m) == o.state = "running" /\ o.owner # None /\ o.generation # None
                   /\ m.owner = o.owner /\ m.generation = o.generation

(* A publication is taken in, or is not of the script in charge.            *)
LEMMA PublishedFollows ==
    ASSUME NEW o \in Observers, NEW W \in Seq(Messages), NEW S, NEW k, Follows(o, W, S, k), W # <<>>,
           Head(W).type = "publish", NEW p,
           IF Authentic(o, Head(W))
           THEN /\ p.state = o.state /\ p.owner = o.owner /\ p.generation = o.generation
                /\ p.last = Head(W).snapshot
           ELSE p = o
    PROVE  Follows(p, Tail(W), S, k)
<1> DEFINE m == Head(W)
           T == Tail(W)
<1>0. OwnerComes(W, k.owner) /\ FromKWin(W, S, k.owner) /\ Attached(o, W, S, k.owner)
      /\ Told(o, W, S, k) /\ NoScripts(o, S) /\ OwnerKnown(o, W, k.owner) /\ Detached(o)
  BY FollowsParts
<1>m. m \in Messages /\ m.snapshot # <<>>
  <2>1. m \in Messages
    BY TailWire
  <2> QED BY <2>1, MessageParts, SnapshotParts
<1>1. OwnerComes(T, k.owner)
  BY <1>0, TailWire
<1>2. FromKWin(T, S, k.owner)
  BY <1>0, TailWire
<1>3. NoOwner(T) => NoOwner(W)
  BY TailWire DEF IsOwner
<1>s. \A g : Silent(W, g) => Silent(T, g) /\ ~IsPublish(m, g)
  BY TailWire
<1>k. m.generation \in DOMAIN S => m.owner = k.owner
  BY <1>0, TailWire
<1>t. \A known : Says(W, o.generation, known, k) =>
         /\ ~IsPublish(m, o.generation) => Says(T, o.generation, known, k)
         /\ IsPublish(m, o.generation) => Says(T, o.generation, m.snapshot, k)
  BY TailSays, <1>m
<1> HIDE DEF T
<1>4. CASE Authentic(o, m)
  <2>1. p.state = "running" /\ p.owner = o.owner /\ p.generation = o.generation
        /\ p.last = m.snapshot /\ o.state = "running" /\ o.generation # None /\ IsPublish(m, o.generation)
    BY <1>4 DEF Authentic, IsPublish
  <2> HIDE DEF m
  <2>2. NoScripts(p, S) /\ OwnerKnown(p, T, k.owner) /\ Detached(p)
    BY <2>1, <1>0, <1>3 DEF NoScripts, OwnerKnown, Detached
  <2>3. ~Silent(W, o.generation)
    BY <2>1, <1>s
  <2>4. Attached(p, T, S, k.owner)
    BY <2>1, <2>3, <1>0 DEF Attached
  <2>5. Told(p, T, S, k)
    BY <2>1, <1>0, <1>t DEF Told
  <2> QED BY <2>2, <2>4, <2>5, <1>1, <1>2, FollowsParts DEF T
<1>5. CASE ~Authentic(o, m)
  <2>0. p = o
    BY <1>5
  <2>1. NoScripts(o, S) /\ OwnerKnown(o, T, k.owner) /\ Detached(o)
    BY <1>0, <1>3 DEF OwnerKnown
  <2>2. Attached(o, T, S, k.owner)
    BY <1>0, <1>s DEF Attached
  <2>3. Told(o, T, S, k)
    <3>1. SUFFICES ASSUME o.state = "running", o.generation # None, o.generation \in DOMAIN S,
                          o.owner = k.owner, ~S[o.generation].timer
                   PROVE  Says(T, o.generation, o.last, k)
      BY DEF Told
    <3>2. Says(W, o.generation, o.last, k)
      BY <1>0, <3>1 DEF Told
    <3>3. ~IsPublish(m, o.generation)
      <4>1. SUFFICES ASSUME IsPublish(m, o.generation) PROVE FALSE
        OBVIOUS
      <4>2. m.generation = o.generation
        BY <4>1 DEF IsPublish
      <4>3. m.owner = o.owner /\ o.owner # None
        BY <4>2, <1>k, <3>1, <1>0 DEF Attached
      <4> QED BY <4>2, <4>3, <3>1, <1>5 DEF Authentic
    <3> QED BY <3>2, <3>3, <1>t
  <2> QED BY <2>0, <2>1, <2>2, <2>3, <1>1, <1>2, FollowsParts DEF T
<1> QED BY <1>4, <1>5
-----------------------------------------------------------------------------
(* Switches stay real.                                                      *)
LEMMA RealGrows ==
    ASSUME NEW s, NEW made, NEW more, Real(s, made), made \subseteq more
    PROVE  Real(s, more)
BY DEF Real

LEMMA WireRealKept ==
    ASSUME NEW W \in Seq(Messages), NEW made, WireReal(W, made)
    PROVE  /\ \A m \in Messages : (m.type = "publish" => Real(m.snapshot, made))
                                  => WireReal(Append(W, m), made)
           /\ W # <<>> => /\ WireReal(Tail(W), made)
                          /\ Head(W).type = "publish" => Real(Head(W).snapshot, made)
           /\ WireReal(<<>>, made)
           /\ \A more : made \subseteq more => WireReal(W, more)
<1>1. ASSUME NEW m \in Messages, m.type = "publish" => Real(m.snapshot, made)
      PROVE  WireReal(Append(W, m), made)
  <2> DEFINE W2 == Append(W, m)
  <2>1. Len(W2) = Len(W) + 1 /\ Len(W) \in Nat /\ W2[Len(W) + 1] = m
        /\ \A i \in 1..Len(W) : W2[i] = W[i]
    BY AppendedMessage
  <2> HIDE DEF W2
  <2>2. \A i \in 1..Len(W2) : i \in 1..Len(W) \/ i = Len(W) + 1
    BY <2>1
  <2>3. WireReal(W2, made)
    BY <2>1, <2>2, <1>1 DEF WireReal
  <2> QED BY <2>3 DEF W2
<1>2. ASSUME W # <<>>
      PROVE  WireReal(Tail(W), made) /\ (Head(W).type = "publish" => Real(Head(W).snapshot, made))
  <2> DEFINE T == Tail(W)
  <2>1. \A i \in 1..Len(T) : T[i] = W[i + 1] /\ i + 1 \in 1..Len(W)
    BY <1>2
  <2>2. Head(W) = W[1] /\ 1 \in 1..Len(W)
    BY <1>2
  <2> HIDE DEF T
  <2>3. WireReal(T, made)
    BY <2>1 DEF WireReal
  <2> QED BY <2>2, <2>3 DEF WireReal, T
<1>3. WireReal(<<>>, made)
  BY DEF WireReal
<1>4. \A more : made \subseteq more => WireReal(W, more)
  BY RealGrows DEF WireReal
<1> QED BY <1>1, <1>2, <1>3, <1>4

LEMMA LinesRealKept ==
    ASSUME NEW W \in Seq(Lines), NEW made, LinesReal(W, made)
    PROVE  /\ \A m \in Lines : Real(m.snapshot, made) => LinesReal(Append(W, m), made)
           /\ W # <<>> => LinesReal(Tail(W), made) /\ Real(Head(W).snapshot, made)
           /\ LinesReal(<<>>, made)
           /\ \A more : made \subseteq more => LinesReal(W, more)
<1>1. ASSUME NEW m \in Lines, Real(m.snapshot, made)
      PROVE  LinesReal(Append(W, m), made)
  <2> DEFINE W2 == Append(W, m)
  <2>1. Len(W2) = Len(W) + 1 /\ Len(W) \in Nat /\ W2[Len(W) + 1] = m
        /\ \A i \in 1..Len(W) : W2[i] = W[i]
    OBVIOUS
  <2> HIDE DEF W2
  <2>2. \A i \in 1..Len(W2) : i \in 1..Len(W) \/ i = Len(W) + 1
    BY <2>1
  <2>3. LinesReal(W2, made)
    BY <2>1, <2>2, <1>1 DEF LinesReal
  <2> QED BY <2>3 DEF W2
<1>2. ASSUME W # <<>>
      PROVE  LinesReal(Tail(W), made) /\ Real(Head(W).snapshot, made)
  <2> DEFINE T == Tail(W)
  <2>1. \A i \in 1..Len(T) : T[i] = W[i + 1] /\ i + 1 \in 1..Len(W)
    BY <1>2
  <2>2. Head(W) = W[1] /\ 1 \in 1..Len(W)
    BY <1>2
  <2> HIDE DEF T
  <2>3. LinesReal(T, made)
    BY <2>1 DEF LinesReal
  <2> QED BY <2>2, <2>3 DEF LinesReal, T
<1>3. LinesReal(<<>>, made)
  BY DEF LinesReal
<1>4. \A more : made \subseteq more => LinesReal(W, more)
  BY RealGrows DEF LinesReal
<1> QED BY <1>1, <1>2, <1>3, <1>4

LEMMA ShowSoundKept ==
    ASSUME NEW a, NEW f, NEW f2, ShowSound(a, f), f2.held = f.held, f2.announced = f.announced,
           f2.wrong = f.wrong
    PROVE  ShowSound(a, f2)
BY DEF ShowSound, Ordered, Resolved

LEMMA InvParts ==
    DesktopInv <=> /\ DesktopTypeOK
                   /\ AllReal(kwinWire, lines.out, scripts, feedback)
                   /\ ShowSound(adapter, feedback)
                   /\ HelperSound(observer, adapter, lines)
                   /\ Follows(observer, kwinWire, scripts, kwin)
BY DEF DesktopInv

LEMMA TypeParts ==
    DesktopTypeOK <=>
        /\ kwin \in KWins
        /\ scripts \in Partial(Nat, Scripts) /\ IsFiniteSet(DOMAIN scripts)
        /\ kwinWire \in Seq(Messages)
        /\ observer \in Observers
        /\ lines \in Pipes
        /\ adapter \in AdapterStates /\ IsFiniteSet(adapter.retired)
        /\ feedback \in Feedbacks
BY DEF DesktopTypeOK

LEMMA AllRealParts ==
    ASSUME NEW W, NEW out, NEW S, NEW f
    PROVE  AllReal(W, out, S, f) <=> /\ WireReal(W, f.switched)
                                     /\ LinesReal(out, f.switched)
                                     /\ ScriptsReal(S, f.switched)
                                     /\ "not a switch" \notin f.wrong
BY DEF AllReal

-----------------------------------------------------------------------------
(* A script publishes.                                                      *)
LEMMA RecomputeKeeps ==
    ASSUME DesktopBounds, DesktopInv, NEW g \in DOMAIN scripts, Recompute(g)
    PROVE  DesktopInv'
<1> DEFINE s == scripts[g]
           rest == [previous |-> kwin.current, change |-> NoChange,
                    structural |-> FALSE, timer |-> FALSE]
           shown == MarkConfirmedTransient(DesktopChange(s), s.previous)
           S2 == [scripts EXCEPT ![g] = rest]
           m == Publication(kwin.owner, g, Seen(shown))
<1>1. /\ scripts' = S2 /\ kwinWire' = Append(kwinWire, m)
      /\ UNCHANGED <<kwin, observer, lines, adapter, feedback>>
  BY DEF Recompute, Publication
<1>2. /\ DesktopTypeOK /\ AllReal(kwinWire, lines.out, scripts, feedback)
      /\ ShowSound(adapter, feedback) /\ HelperSound(observer, adapter, lines)
      /\ Follows(observer, kwinWire, scripts, kwin)
  BY InvParts
<1>3. /\ kwin \in KWins /\ scripts \in Partial(Nat, Scripts) /\ IsFiniteSet(DOMAIN scripts)
      /\ kwinWire \in Seq(Messages) /\ observer \in Observers
      /\ kwin.current \in Shown /\ kwin.owner \in Nat
  BY <1>2, TypeParts DEF KWins
<1>4. s.change \in Changes /\ s.structural \in BOOLEAN /\ g \in Nat
  BY <1>3, ScriptParts
<1>5. rest \in Scripts /\ ~rest.structural /\ ~rest.timer /\ rest.change = NoChange
  BY <1>3, NoChangeParts DEF Scripts
<1>6. S2 \in Partial(Nat, Scripts) /\ DOMAIN S2 = DOMAIN scripts
      /\ S2[g] = rest /\ \A h \in DOMAIN scripts : h # g => S2[h] = scripts[h]
  <2>1. S2 \in Partial(Nat, Scripts)
    BY <1>3, <1>5, ChangedPartial
  <2> QED BY <2>1
<1>7. /\ shown \in Outputs \cup {"none"}
      /\ shown \in DOMAIN kwin.current => <<shown, kwin.current[shown]>> \in feedback.switched
  <2> DEFINE c == DesktopChange(s)
  <2>1. c \in Changes /\ (c.output # "none" => ~s.structural /\ c = s.change)
    BY <1>4, NoChangeParts DEF DesktopChange
  <2>2. "none" \notin DOMAIN kwin.current
    BY <1>3, PartialParts DEF DesktopBounds, Shown
  <2>3. shown = IF /\ c.output \in DOMAIN kwin.current \cap DOMAIN s.previous
                   /\ c.from # c.to
                   /\ kwin.current[c.output] = c.to
                   /\ s.previous[c.output] = c.from
                THEN c.output ELSE "none"
    BY DEF MarkConfirmedTransient
  <2> HIDE DEF c, shown, s
  <2>4. c.output \in Outputs \cup {"none"}
    BY <2>1 DEF Changes
  <2>5. shown = "none" \/ (shown = c.output /\ c.output \in DOMAIN kwin.current /\ kwin.current[c.output] = c.to)
    BY <2>3
  <2>6. shown \in DOMAIN kwin.current => <<shown, kwin.current[shown]>> \in feedback.switched
    <3>1. SUFFICES ASSUME shown \in DOMAIN kwin.current
                   PROVE  <<shown, kwin.current[shown]>> \in feedback.switched
      OBVIOUS
    <3>2. shown = c.output /\ c.output # "none" /\ kwin.current[c.output] = c.to
      BY <3>1, <2>2, <2>5
    <3>3. ~scripts[g].structural /\ scripts[g].change = c
      BY <3>2, <2>1 DEF s
    <3>4. ScriptsReal(scripts, feedback.switched)
      BY <1>2, AllRealParts
    <3> QED BY <3>2, <3>3, <3>4 DEF ScriptsReal
  <2> QED BY <2>4, <2>5, <2>6
<1> HIDE DEF s, shown, rest, S2
<1>8. /\ Seen(shown) \in Snapshots /\ Agrees(Seen(shown), kwin)
      /\ Real(Seen(shown), feedback.switched)
  BY <1>3, <1>7, SeenParts
<1>9. m \in Messages /\ m.type = "publish" /\ m.snapshot = Seen(shown)
  BY <1>3, <1>4, <1>8, PublicationParts
<1>10. Follows(observer, Append(kwinWire, m), S2, kwin)
  BY <1>2, <1>3, <1>6, <1>8, PublicationFollows
<1> HIDE DEF m
<1>11. DesktopTypeOK'
  <2>1. Append(kwinWire, m) \in Seq(Messages)
    BY <1>3, <1>9
  <2> QED BY <1>1, <1>2, <1>3, <1>6, <2>1, TypeParts DEF DesktopTypeOK
<1>12. AllReal(kwinWire, lines.out, scripts, feedback)'
  <2>1. WireReal(Append(kwinWire, m), feedback.switched)
    BY <1>2, <1>3, <1>8, <1>9, WireRealKept, AllRealParts
  <2>2. ScriptsReal(S2, feedback.switched)
    BY <1>2, <1>5, <1>6, AllRealParts, NoChangeParts DEF ScriptsReal
  <2> QED BY <1>1, <1>2, <2>1, <2>2, AllRealParts DEF AllReal
<1> QED BY <1>1, <1>2, <1>10, <1>11, <1>12 DEF DesktopInv
-----------------------------------------------------------------------------
(* KWin changes: every script has to say so.                                *)
LEMMA WorkspaceKeeps ==
    ASSUME DesktopInv, UNCHANGED <<kwinWire, observer, lines, adapter>>,
           kwin' \in KWins, kwin'.owner = kwin.owner,
           scripts' \in Partial(Nat, Scripts), DOMAIN scripts' = DOMAIN scripts,
           \A g \in DOMAIN scripts : scripts'[g].timer,
           ScriptsReal(scripts', feedback.switched'),
           feedback' \in Feedbacks, feedback.switched \subseteq feedback.switched',
           feedback'.held = feedback.held, feedback'.announced = feedback.announced,
           feedback'.wrong = feedback.wrong
    PROVE  DesktopInv'
<1>2. /\ DesktopTypeOK /\ AllReal(kwinWire, lines.out, scripts, feedback)
      /\ ShowSound(adapter, feedback) /\ HelperSound(observer, adapter, lines)
      /\ Follows(observer, kwinWire, scripts, kwin)
  BY InvParts
<1>3. kwinWire \in Seq(Messages) /\ lines.out \in Seq(Lines)
  BY <1>2 DEF DesktopTypeOK, Pipes
<1>4. Follows(observer, kwinWire, scripts', kwin')
  BY <1>2, ChangesFollow
<1>5. ShowSound(adapter, feedback')
  BY <1>2, ShowSoundKept
<1>6. DesktopTypeOK'
  BY <1>2, TypeParts DEF DesktopTypeOK
<1>7. WireReal(kwinWire, feedback.switched) /\ LinesReal(lines.out, feedback.switched)
      /\ "not a switch" \notin feedback.wrong
  BY <1>2, AllRealParts
<1>8. WireReal(kwinWire, feedback.switched') /\ LinesReal(lines.out, feedback.switched')
  BY <1>3, <1>7, WireRealKept, LinesRealKept
<1>9. AllReal(kwinWire, lines.out, scripts, feedback)'
  BY <1>7, <1>8 DEF AllReal
<1> QED BY <1>2, <1>4, <1>5, <1>6, <1>9 DEF DesktopInv

(* A script that takes note of a change.                                    *)
Noted(s, change) ==
    [s EXCEPT !.change = IF change = NoChange THEN @ ELSE change,
              !.structural = @ \/ change = NoChange, !.timer = TRUE]

LEMMA NotedParts ==
    ASSUME NEW s \in Scripts, NEW c \in Changes
    PROVE  /\ Noted(s, c) \in Scripts /\ Noted(s, c).timer
           /\ Noted(s, c).change = IF c = NoChange THEN s.change ELSE c
           /\ c = NoChange => Noted(s, c).structural
           /\ ~Noted(s, c).structural => ~s.structural
<1> DEFINE b == s.structural \/ c = NoChange
           d == IF c = NoChange THEN s.change ELSE c
<1>1. s.structural \in BOOLEAN /\ s.change \in Changes
  BY DEF Scripts
<1>2. b \in BOOLEAN /\ d \in Changes /\ (~b => ~s.structural) /\ (c = NoChange => b)
  BY <1>1
<1>3. Noted(s, c) = [s EXCEPT !.change = d, !.structural = b, !.timer = TRUE]
  BY <1>1 DEF Noted
<1>4. d = IF c = NoChange THEN s.change ELSE c
  OBVIOUS
<1> HIDE DEF b, d
<1>5. Noted(s, c) \in Scripts /\ Noted(s, c).timer /\ Noted(s, c).change = d
      /\ Noted(s, c).structural = b
  BY <1>2, <1>3 DEF Scripts
<1> QED BY <1>2, <1>4, <1>5

LEMMA Scheduled ==
    ASSUME scripts \in Partial(Nat, Scripts), NEW c \in Changes, scripts' = ScheduleRecompute(c)
    PROVE  /\ scripts' \in Partial(Nat, Scripts) /\ DOMAIN scripts' = DOMAIN scripts
           /\ \A g \in DOMAIN scripts : scripts'[g].timer
           /\ \A g \in DOMAIN scripts :
                 /\ scripts'[g].change = IF c = NoChange THEN scripts[g].change ELSE c
                 /\ c = NoChange => scripts'[g].structural
                 /\ ~scripts'[g].structural => ~scripts[g].structural
<1>1. scripts' = [g \in DOMAIN scripts |-> Noted(scripts[g], c)]
  BY DEF ScheduleRecompute, Noted
<1>2. DOMAIN scripts \in SUBSET Nat /\ \A g \in DOMAIN scripts : scripts[g] \in Scripts
  BY PartialParts
<1>3. \A g \in DOMAIN scripts : Noted(scripts[g], c) \in Scripts
  BY <1>2, NotedParts
<1>4. scripts' \in [DOMAIN scripts -> Scripts]
  BY <1>1, <1>3
<1>5. \A g \in DOMAIN scripts : scripts'[g] = Noted(scripts[g], c)
  BY <1>1
<1>6. scripts' \in Partial(Nat, Scripts) /\ DOMAIN scripts' = DOMAIN scripts
  BY <1>2, <1>4, IsPartial
<1> QED BY <1>2, <1>5, <1>6, NotedParts

LEMMA SwitchKeeps ==
    ASSUME DesktopBounds, DesktopInv, NEW n \in Outputs, NEW d \in Desktops, SwitchDesktop(n, d),
           UNCHANGED <<kwinWire, observer, lines, adapter>>
    PROVE  DesktopInv'
<1> DEFINE c == [output |-> n, from |-> kwin.current[n], to |-> d]
           made == feedback.switched \cup {<<n, d>>}
<1>1. /\ n \in DOMAIN kwin.current /\ d \in kwin.desktops
      /\ kwin' = [kwin EXCEPT !.current[n] = d]
      /\ scripts' = ScheduleRecompute(c)
      /\ feedback' = [feedback EXCEPT !.switched = made]
  BY DEF SwitchDesktop
<1>2. /\ DesktopTypeOK /\ AllReal(kwinWire, lines.out, scripts, feedback)
  BY InvParts
<1>3. /\ kwin \in KWins /\ scripts \in Partial(Nat, Scripts) /\ feedback \in Feedbacks
      /\ kwin.current \in Shown
  BY <1>2, TypeParts DEF KWins
<1>4. kwin.current[n] \in Desktops
  BY <1>1, <1>3, PartialParts DEF Shown
<1>5. c \in Changes /\ c.output = n /\ c.to = d
  BY <1>4 DEF Changes
<1>6. c # NoChange /\ n # "none"
  BY <1>5, NoChangeParts DEF DesktopBounds
<1>7. made \in SUBSET (Outputs \X Desktops)
  <2>1. feedback.switched \in SUBSET (Outputs \X Desktops)
    BY <1>3 DEF Feedbacks
  <2>2. <<n, d>> \in Outputs \X Desktops
    OBVIOUS
  <2> QED BY <2>1, <2>2
<1> HIDE DEF c, made
<1>8. /\ scripts' \in Partial(Nat, Scripts) /\ DOMAIN scripts' = DOMAIN scripts
      /\ \A g \in DOMAIN scripts : scripts'[g].timer
      /\ \A g \in DOMAIN scripts : scripts'[g].change = c
  BY <1>1, <1>3, <1>5, <1>6, Scheduled
<1>9. /\ feedback' \in Feedbacks /\ feedback'.switched = made
      /\ feedback'.held = feedback.held /\ feedback'.announced = feedback.announced
      /\ feedback'.wrong = feedback.wrong
  BY <1>1, <1>3, <1>7 DEF Feedbacks
<1>10. kwin' \in KWins /\ kwin'.owner = kwin.owner
  <2> DEFINE now == [kwin.current EXCEPT ![n] = d]
  <2>1. now \in Shown
    BY <1>3, ChangedPartial DEF Shown
  <2>2. kwin' = [kwin EXCEPT !.current = now]
    BY <1>1
  <2> HIDE DEF now
  <2> QED BY <1>3, <2>1, <2>2 DEF KWins
<1>11. ScriptsReal(scripts', feedback.switched')
  BY <1>5, <1>8, <1>9 DEF ScriptsReal, made
<1>12. feedback.switched \subseteq feedback.switched'
  BY <1>9 DEF made
<1> QED BY <1>8, <1>9, <1>10, <1>11, <1>12, WorkspaceKeeps

LEMMA ScreensKeep ==
    ASSUME DesktopInv, NEW n \in Outputs, ChangeScreens(n),
           UNCHANGED <<kwinWire, observer, lines, adapter>>
    PROVE  DesktopInv'
<1>2. /\ DesktopTypeOK /\ AllReal(kwinWire, lines.out, scripts, feedback)
  BY InvParts
<1>3. /\ kwin \in KWins /\ scripts \in Partial(Nat, Scripts) /\ feedback \in Feedbacks
      /\ kwin.current \in Shown /\ kwin.desktops \in SUBSET Desktops
  BY <1>2, TypeParts DEF KWins
<1>4. /\ scripts' \in Partial(Nat, Scripts) /\ DOMAIN scripts' = DOMAIN scripts
      /\ \A g \in DOMAIN scripts : scripts'[g].timer
      /\ \A g \in DOMAIN scripts : scripts'[g].structural
  BY <1>3, Scheduled, NoChangeParts DEF ChangeScreens
<1>5. kwin' \in KWins /\ kwin'.owner = kwin.owner
  <2>1. PICK d \in kwin.desktops \cup {1} :
           \/ kwin' = [kwin EXCEPT !.current = Omit(@, {n})]
           \/ d \in kwin.desktops /\ kwin' = [kwin EXCEPT !.current = Put(@, n, d)]
    BY DEF ChangeScreens
  <2> DEFINE fewer == Omit(kwin.current, {n})
             more == Put(kwin.current, n, d)
  <2>2. fewer \in Shown
    BY <1>3, OmitPartial DEF Shown
  <2>3. d \in kwin.desktops => more \in Shown
    BY <1>3, AddedPartial DEF Shown
  <2>4. \/ kwin' = [kwin EXCEPT !.current = fewer]
        \/ d \in kwin.desktops /\ kwin' = [kwin EXCEPT !.current = more]
    BY <2>1
  <2> HIDE DEF fewer, more
  <2>5. CASE kwin' = [kwin EXCEPT !.current = fewer]
    BY <2>5, <2>2, <1>3 DEF KWins
  <2>6. CASE d \in kwin.desktops /\ kwin' = [kwin EXCEPT !.current = more]
    BY <2>6, <2>3, <1>3 DEF KWins
  <2> QED BY <2>4, <2>5, <2>6
<1>6. feedback' = feedback
  BY DEF ChangeScreens
<1>7. ScriptsReal(scripts', feedback.switched')
  BY <1>4 DEF ScriptsReal
<1> QED BY <1>3, <1>4, <1>5, <1>6, <1>7, WorkspaceKeeps

LEMMA DesktopsKeep ==
    ASSUME DesktopInv, NEW d \in Desktops, ChangeDesktops(d),
           UNCHANGED <<kwinWire, observer, lines, adapter>>
    PROVE  DesktopInv'
<1>2. /\ DesktopTypeOK /\ AllReal(kwinWire, lines.out, scripts, feedback)
  BY InvParts
<1>3. /\ kwin \in KWins /\ scripts \in Partial(Nat, Scripts) /\ feedback \in Feedbacks
      /\ kwin.current \in Shown /\ kwin.desktops \in SUBSET Desktops
  BY <1>2, TypeParts DEF KWins
<1>6. feedback' = feedback
  BY DEF ChangeDesktops
<1>4. CASE d \notin kwin.desktops
  <2>1. kwin' = [kwin EXCEPT !.desktops = @ \cup {d}] /\ scripts' = ScheduleRecompute(NoChange)
    BY <1>4 DEF ChangeDesktops
  <2>2. /\ scripts' \in Partial(Nat, Scripts) /\ DOMAIN scripts' = DOMAIN scripts
        /\ \A g \in DOMAIN scripts : scripts'[g].timer
        /\ \A g \in DOMAIN scripts : scripts'[g].structural
    BY <1>3, <2>1, Scheduled, NoChangeParts
  <2>3. kwin' \in KWins /\ kwin'.owner = kwin.owner
    BY <1>3, <2>1 DEF KWins
  <2>4. ScriptsReal(scripts', feedback.switched')
    BY <2>2 DEF ScriptsReal
  <2> QED BY <1>3, <1>6, <2>2, <2>3, <2>4, WorkspaceKeeps
<1>5. CASE d \in kwin.desktops
  <2> DEFINE moved == {n \in DOMAIN kwin.current : kwin.current[n] = d}
  <2>1. PICK e \in kwin.desktops \ {d} :
          /\ kwin' = [kwin EXCEPT !.desktops = @ \ {d},
                                  !.current = Over([n \in moved |-> e], @)]
          /\ \E n \in IF moved = {} THEN {"none"} ELSE moved :
               scripts' = [g \in DOMAIN scripts |->
                   [scripts[g] EXCEPT !.structural = TRUE, !.timer = TRUE,
                       !.change = IF n = "none" THEN @ ELSE [output |-> n, from |-> d, to |-> e]]]
    BY <1>5 DEF ChangeDesktops
  <2>2. PICK n \in IF moved = {} THEN {"none"} ELSE moved :
               scripts' = [g \in DOMAIN scripts |->
                   [scripts[g] EXCEPT !.structural = TRUE, !.timer = TRUE,
                       !.change = IF n = "none" THEN @ ELSE [output |-> n, from |-> d, to |-> e]]]
    BY <2>1
  <2>3. DOMAIN kwin.current \in SUBSET Outputs /\ moved \in SUBSET Outputs
    BY <1>3, PartialParts DEF Shown
  <2>4. n \in Outputs \cup {"none"} /\ e \in Desktops
    BY <2>2, <2>3, <1>3
  <2> DEFINE c == [output |-> n, from |-> d, to |-> e]
             N(s) == [s EXCEPT !.structural = TRUE, !.timer = TRUE,
                               !.change = IF n = "none" THEN s.change ELSE c]
  <2>5. c \in Changes
    BY <2>4 DEF Changes
  <2>6. scripts' = [g \in DOMAIN scripts |-> N(scripts[g])]
    BY <2>2
  <2>7. \A s \in Scripts : N(s) \in Scripts /\ N(s).timer /\ N(s).structural
    <3> HIDE DEF c
    <3>1. SUFFICES ASSUME NEW s \in Scripts PROVE N(s) \in Scripts /\ N(s).timer /\ N(s).structural
      OBVIOUS
    <3> DEFINE x == IF n = "none" THEN s.change ELSE c
    <3>2. x \in Changes
      BY <2>5 DEF Scripts
    <3> HIDE DEF x
    <3>3. N(s) = [s EXCEPT !.structural = TRUE, !.timer = TRUE, !.change = x]
      BY DEF x
    <3> HIDE DEF N
    <3> QED BY <3>2, <3>3 DEF Scripts
  <2> HIDE DEF N, c
  <2>8. DOMAIN scripts \in SUBSET Nat /\ \A g \in DOMAIN scripts : scripts[g] \in Scripts
    BY <1>3, PartialParts
  <2>9. scripts' \in [DOMAIN scripts -> Scripts]
    BY <2>6, <2>7, <2>8
  <2>10. scripts' \in Partial(Nat, Scripts) /\ DOMAIN scripts' = DOMAIN scripts
    BY <2>8, <2>9, IsPartial
  <2>11. \A g \in DOMAIN scripts : scripts'[g].timer /\ scripts'[g].structural
    BY <2>6, <2>7, <2>8
  <2>12. ScriptsReal(scripts', feedback.switched')
    BY <2>10, <2>11 DEF ScriptsReal
  <2>13. kwin' \in KWins /\ kwin'.owner = kwin.owner
    <3> DEFINE there == [i \in moved |-> e]
               now == Over(there, kwin.current)
               left == kwin.desktops \ {d}
    <3>1. there \in Shown
      BY <2>3, <2>4, IsPartial DEF Shown
    <3>2. now \in Shown
      BY <3>1, <1>3, OverPartial DEF Shown
    <3>3. kwin' = [kwin EXCEPT !.desktops = left, !.current = now] /\ left \in SUBSET Desktops
      BY <2>1, <1>3
    <3> HIDE DEF now, left
    <3> QED BY <3>2, <3>3, <1>3 DEF KWins
  <2> QED BY <1>3, <1>6, <2>10, <2>11, <2>12, <2>13, WorkspaceKeeps
<1> QED BY <1>4, <1>5

LEMMA WorkspaceChangesKeep ==
    ASSUME DesktopBounds, DesktopInv, WorkspaceChanges
    PROVE  DesktopInv'
<1>1. UNCHANGED <<kwinWire, observer, lines, adapter>>
  BY DEF WorkspaceChanges
<1>2. CASE \E n \in Outputs, d \in Desktops : SwitchDesktop(n, d)
  BY <1>1, <1>2, SwitchKeeps
<1>3. CASE \E n \in Outputs : ChangeScreens(n)
  BY <1>1, <1>3, ScreensKeep
<1>4. CASE \E d \in Desktops : ChangeDesktops(d)
  BY <1>1, <1>4, DesktopsKeep
<1> QED BY <1>2, <1>3, <1>4 DEF WorkspaceChanges
-----------------------------------------------------------------------------
(* KWin restarts.                                                           *)
LEMMA KWinRestartsKeeps ==
    ASSUME DesktopInv, KWinRestarts
    PROVE  DesktopInv'
<1> DEFINE o2 == IF kwin.owner = None THEN Unused(KWinOwners) ELSE None
           m == [type |-> "owner", owner |-> o2]
<1>1. /\ kwin' = [kwin EXCEPT !.owner = o2] /\ scripts' = <<>>
      /\ kwinWire' = IF observer.state = "off" THEN <<>>
                     ELSE Append(kwinWire, [type |-> "owner", owner |-> kwin'.owner])
      /\ UNCHANGED <<observer, lines, adapter, feedback>>
  BY DEF KWinRestarts
<1>2. /\ DesktopTypeOK /\ AllReal(kwinWire, lines.out, scripts, feedback)
      /\ ShowSound(adapter, feedback) /\ HelperSound(observer, adapter, lines)
      /\ Follows(observer, kwinWire, scripts, kwin)
  BY InvParts
<1>3. kwin \in KWins /\ kwinWire \in Seq(Messages) /\ observer \in Observers
  BY <1>2, TypeParts
<1>4. IsFiniteSet(KWinOwners)
  <2> DEFINE f == [i \in DOMAIN kwinWire |-> kwinWire[i].owner]
  <2>1. Len(kwinWire) \in Nat /\ DOMAIN f \in SUBSET (1..Len(kwinWire))
    BY <1>3
  <2>2. IsFiniteSet({f[i] : i \in DOMAIN f})
    BY <2>1, FiniteValues
  <2>3. IsFiniteSet({kwin.owner} \cup {observer.owner})
    BY FS_Singleton, FS_Union
  <2>4. KWinOwners = ({kwin.owner} \cup {observer.owner}) \cup {f[i] : i \in DOMAIN f}
    BY DEF KWinOwners
  <2> HIDE DEF f
  <2> QED BY <2>2, <2>3, <2>4, FS_Union
<1>5. o2 \in Nat /\ (o2 = None \/ o2 # observer.owner)
  <2>1. Unused(KWinOwners) \in Nat /\ Unused(KWinOwners) \notin KWinOwners
    BY <1>4, UnusedFresh
  <2>2. observer.owner \in KWinOwners
    BY DEF KWinOwners
  <2> QED BY <2>1, <2>2 DEF None
<1> HIDE DEF o2
<1>6. kwin' \in KWins /\ kwin'.owner = o2
  BY <1>1, <1>3, <1>5 DEF KWins
<1>7. m \in Messages /\ m.type = "owner"
  BY <1>5, OwnerNewsParts
<1>8. kwinWire' = IF observer.state = "off" THEN <<>> ELSE Append(kwinWire, m)
  BY <1>1, <1>6
<1>9. Follows(observer, kwinWire', <<>>, kwin')
  <2>1. /\ Follows(observer, Append(kwinWire, [type |-> "owner", owner |-> kwin'.owner]), <<>>, kwin')
        /\ observer.state = "off" => Follows(observer, <<>>, <<>>, kwin')
    BY <1>2, <1>3, <1>5, <1>6, RestartFollows
  <2> QED BY <2>1, <1>6, <1>8
<1> HIDE DEF m
<1>10. kwinWire' \in Seq(Messages) /\ WireReal(kwinWire', feedback.switched)
  <2>1. WireReal(kwinWire, feedback.switched)
    BY <1>2, AllRealParts
  <2>2. WireReal(Append(kwinWire, m), feedback.switched) /\ WireReal(<<>>, feedback.switched)
    BY <2>1, <1>3, <1>7, WireRealKept
  <2>3. Append(kwinWire, m) \in Seq(Messages) /\ <<>> \in Seq(Messages)
    BY <1>3, <1>7
  <2> QED BY <2>2, <2>3, <1>8
<1>11. /\ <<>> \in Partial(Nat, Scripts) /\ IsFiniteSet(DOMAIN <<>>)
       /\ \A made : ScriptsReal(<<>>, made)
  <2>1. <<>> \in Partial(Nat, Scripts) /\ DOMAIN <<>> = {}
    BY EmptyPartial
  <2>2. IsFiniteSet(DOMAIN <<>>)
    BY <2>1, FS_EmptySet
  <2> QED BY <2>1, <2>2 DEF ScriptsReal
<1>12. DesktopTypeOK'
  BY <1>1, <1>2, <1>6, <1>10, <1>11, TypeParts DEF DesktopTypeOK
<1>13. AllReal(kwinWire, lines.out, scripts, feedback)'
  BY <1>1, <1>2, <1>10, <1>11, AllRealParts DEF AllReal
<1> QED BY <1>1, <1>2, <1>9, <1>12, <1>13 DEF DesktopInv

-----------------------------------------------------------------------------
(* The helper publishes what it holds, if it is news.                       *)
LEMMA HelperSoundParts ==
    ASSUME NEW o, NEW a, NEW p
    PROVE  HelperSound(o, a, p) <=> Watched(o, a) /\ NotRunning(o, a, p) /\ Heard(o, a, p.out)
BY DEF HelperSound

LEMMA PublishedSound ==
    ASSUME DesktopInv, NEW o \in Observers, NEW s \in Snapshots, PublishSnapshot(o, s),
           observer.state \in {"starting", "running"}, o.state = observer.state,
           o.epoch = observer.epoch, o.last = observer.last, Real(s, feedback.switched)
    PROVE  /\ observer' \in Observers /\ observer'.state = o.state /\ observer'.owner = o.owner
           /\ observer'.generation = o.generation /\ observer'.timer = o.timer
           /\ observer'.last = s
           /\ lines' \in Pipes
           /\ LinesReal(lines'.out, feedback.switched)
           /\ HelperSound(observer', adapter, lines')
<1>1. /\ observer' = [o EXCEPT !.last = s]
      /\ lines' = IF o.last = s THEN lines
                  ELSE [lines EXCEPT !.out = Append(@, [epoch |-> o.epoch, snapshot |-> s])]
  BY DEF PublishSnapshot
<1>2. /\ observer' \in Observers /\ observer'.state = o.state /\ observer'.owner = o.owner
      /\ observer'.generation = o.generation /\ observer'.timer = o.timer
      /\ observer'.last = s /\ observer'.epoch = o.epoch
  BY <1>1 DEF Observers
<1>3. /\ lines \in Pipes /\ lines.out \in Seq(Lines) /\ LinesReal(lines.out, feedback.switched)
      /\ Watched(observer, adapter) /\ Heard(observer, adapter, lines.out)
  <2>1. lines \in Pipes
    BY InvParts, TypeParts
  <2>2. LinesReal(lines.out, feedback.switched)
    BY InvParts, AllRealParts
  <2>3. HelperSound(observer, adapter, lines)
    BY InvParts
  <2> QED BY <2>1, <2>2, <2>3 DEF Pipes, HelperSound
<1>s. s # <<>>
  BY SnapshotParts
<1>4. Watched(observer', adapter)
  BY <1>2, <1>3 DEF Watched
<1>5. \A p : NotRunning(observer', adapter, p)
  BY <1>2 DEF NotRunning
<1>6. CASE o.last = s
  <2>1. lines' = lines
    BY <1>1, <1>6
  <2>2. Heard(observer', adapter, lines.out)
    BY <1>2, <1>3, <1>6, <1>s DEF Heard, Listening, Streams
  <2> QED BY <2>1, <2>2, <1>2, <1>3, <1>4, <1>5, HelperSoundParts
<1>7. CASE o.last # s
  <2> DEFINE line == [epoch |-> o.epoch, snapshot |-> s]
             out2 == Append(lines.out, line)
             n == Len(lines.out)
  <2>1. line \in Lines /\ line.epoch = o.epoch /\ line.snapshot = s
    BY ObserverParts DEF Lines
  <2>2. out2 \in Seq(Lines) /\ Len(out2) = n + 1 /\ n \in Nat /\ out2[n + 1] = line
        /\ \A i \in 1..n : out2[i] = lines.out[i]
    BY <1>3, <2>1
  <2>3. LinesReal(out2, feedback.switched)
    BY <1>3, <2>1, LinesRealKept
  <2>4. lines' = [lines EXCEPT !.out = out2]
    BY <1>1, <1>7
  <2> HIDE DEF line, out2
  <2>5. lines' \in Pipes /\ lines'.out = out2
    BY <2>2, <2>4, <1>3 DEF Pipes
  <2>6. ASSUME adapter.shutdown = "no" PROVE Listening(observer', adapter) /\ Streams(observer', adapter, out2)
    <3>1. Listening(observer, adapter) /\ Streams(observer, adapter, lines.out)
      BY <2>6, <1>3 DEF Heard
    <3>2. Listening(observer', adapter)
      BY <3>1, <1>2 DEF Listening
    <3>3. \A i \in 1..(n + 1) : i \in 1..n \/ i = n + 1
      BY <2>2
    <3>4. \A i \in 1..Len(out2) : out2[i].epoch = observer'.epoch
      BY <3>1, <3>3, <2>1, <2>2, <1>2 DEF Streams
    <3>5. Len(out2) # 0 /\ out2[Len(out2)].snapshot = observer'.last /\ observer'.last # <<>>
      BY <2>1, <2>2, <1>2, <1>s
    <3> QED BY <3>2, <3>4, <3>5 DEF Streams
  <2>7. Heard(observer', adapter, out2)
    BY <2>6 DEF Heard
  <2> QED BY <2>3, <2>5, <2>7, <1>2, <1>4, <1>5, HelperSoundParts
<1> QED BY <1>6, <1>7
-----------------------------------------------------------------------------
(* The helper's handlers.                                                   *)
LEMMA HandedReal ==
    ASSUME NEW o, NEW p, NEW S2, NEW new, Handed(p, S2, o, new), NEW made, ScriptsReal(scripts, made)
    PROVE  ScriptsReal(S2, made)
<1>1. \A g \in DOMAIN S2 : (g \in DOMAIN scripts /\ S2[g] = scripts[g]) \/ S2[g].structural
  BY DEF Handed
<1> QED BY <1>1 DEF ScriptsReal

LEMMA InitializeKeeps ==
    ASSUME DesktopInv, Initialize
    PROVE  DesktopInv'
<1> DEFINE o == [observer EXCEPT !.state = "running"]
           line == [epoch |-> o.epoch, snapshot |-> Unavailable]
           out2 == IF o.last = Unavailable THEN lines.out ELSE <<line>>
<1>0. observer.state = "starting" /\ UNCHANGED <<kwin, kwinWire, adapter, feedback>>
      /\ lines' = [out |-> out2, ready |-> o.epoch]
  BY DEF Initialize
<1>1. PICK r \in IF kwin.owner \in {None, o.owner}
                 THEN {[observer |-> o, scripts |-> scripts, cost |-> 0]}
                 ELSE Reattach(kwin.owner, o) :
        /\ scripts' = r.scripts
        /\ observer' = [r.observer EXCEPT !.last = Unavailable]
  BY DEF Initialize
<1>2. /\ DesktopTypeOK /\ AllReal(kwinWire, lines.out, scripts, feedback)
      /\ ShowSound(adapter, feedback) /\ HelperSound(observer, adapter, lines)
      /\ Follows(observer, kwinWire, scripts, kwin)
  BY InvParts
<1>3. /\ kwin \in KWins /\ kwinWire \in Seq(Messages) /\ observer \in Observers
      /\ scripts \in Partial(Nat, Scripts) /\ IsFiniteSet(DOMAIN scripts)
      /\ kwin.owner \in Nat /\ lines \in Pipes /\ lines.out \in Seq(Lines)
  BY <1>2, TypeParts DEF KWins, Pipes
<1>4. /\ o \in Observers /\ o.state = "running" /\ o.epoch = observer.epoch
      /\ o.last = observer.last /\ o.owner = observer.owner /\ o.generation = observer.generation
      /\ o.timer = observer.timer
  BY <1>3 DEF Observers
<1>5. DOMAIN scripts = {}
  BY <1>0, <1>2, FollowsParts DEF NoScripts
<1>6. OwnerComes(kwinWire, kwin.owner) /\ OwnerKnown(observer, kwinWire, kwin.owner)
      /\ FromKWin(kwinWire, scripts, kwin.owner) /\ Detached(observer)
      /\ Attached(observer, kwinWire, scripts, kwin.owner)
  BY <1>2, FollowsParts
<1>r. ScriptsReal(scripts, feedback.switched) /\ WireReal(kwinWire, feedback.switched)
      /\ "not a switch" \notin feedback.wrong /\ LinesReal(lines.out, feedback.switched)
  BY <1>2, AllRealParts
<1>l. line \in Lines /\ line.epoch = o.epoch /\ line.snapshot = Unavailable
  BY <1>4, ObserverParts, UnavailableParts DEF Lines
<1>u. Unavailable \in Snapshots /\ Unavailable # <<>>
  BY UnavailableParts, SnapshotParts
<1> HIDE DEF o, line
<1>7. /\ observer' \in Observers /\ observer'.state = "running" /\ observer'.epoch = observer.epoch
      /\ observer'.last = Unavailable /\ scripts' \in Partial(Nat, Scripts)
      /\ IsFiniteSet(DOMAIN scripts')
      /\ ScriptsReal(scripts', feedback.switched)
      /\ Follows(observer', kwinWire, scripts', kwin)
  <2>1. CASE kwin.owner \in {None, o.owner}
    <3>1. r = [observer |-> o, scripts |-> scripts, cost |-> 0]
      BY <1>1, <2>1
    <3>2. scripts' = scripts /\ observer' = [o EXCEPT !.last = Unavailable]
      BY <1>1, <3>1
    <3>3. /\ observer' \in Observers /\ observer'.state = "running" /\ observer'.epoch = o.epoch
          /\ observer'.last = Unavailable /\ observer'.owner = o.owner
          /\ observer'.generation = o.generation /\ observer'.timer = o.timer
      BY <3>2, <1>4, <1>u DEF Observers
    <3>4. NoScripts(observer', scripts) /\ Detached(observer')
      BY <1>0, <3>3, <1>4, <1>6 DEF NoScripts, Detached
    <3>5. OwnerKnown(observer', kwinWire, kwin.owner)
      BY <1>0, <2>1, <3>3, <1>4, <1>6 DEF OwnerKnown
    <3>6. Attached(observer', kwinWire, scripts, kwin.owner)
      BY <1>0, <3>3, <1>4, <1>6 DEF Attached
    <3>7. Told(observer', kwinWire, scripts, kwin)
      BY <1>5 DEF Told
    <3> QED BY <3>2, <3>3, <3>4, <3>5, <3>6, <3>7, <1>3, <1>4, <1>6, <1>r, FollowsParts
  <2>2. CASE kwin.owner \notin {None, o.owner}
    <3>1. r \in Reattach(kwin.owner, o)
      BY <1>1, <2>2
    <3>2. Handed(r.observer, r.scripts, o, kwin.owner)
      BY <3>1, <1>2, <1>3, <1>4, ReattachedEnds
    <3> DEFINE p == r.observer
               S2 == r.scripts
    <3>3. p \in Observers /\ p.state = o.state /\ p.epoch = o.epoch /\ p.last = o.last
          /\ S2 \in Partial(Nat, Scripts) /\ IsFiniteSet(DOMAIN S2)
      BY <3>2 DEF Handed
    <3>4. scripts' = S2 /\ observer' = [p EXCEPT !.last = Unavailable]
      BY <1>1
    <3> HIDE DEF p, S2
    <3>5. /\ observer' \in Observers /\ observer'.state = p.state /\ observer'.epoch = p.epoch
          /\ observer'.last = Unavailable /\ observer'.owner = p.owner
          /\ observer'.generation = p.generation /\ observer'.timer = p.timer
      BY <3>3, <3>4, <1>u DEF Observers
    <3>6. NoScripts(o, scripts)
      BY <1>5 DEF NoScripts
    <3>7. Handed(p, S2, o, kwin.owner)
      BY <3>2 DEF p, S2
    <3>8. Follows(observer', kwinWire, S2, kwin)
      BY <3>5, <3>6, <3>7, <1>4, <1>6, HandedFollows
    <3>9. ScriptsReal(S2, feedback.switched)
      BY <3>7, <1>r, HandedReal
    <3> QED BY <3>3, <3>4, <3>5, <3>8, <3>9, <1>4
  <2> QED BY <2>1, <2>2
<1>8. out2 \in Seq(Lines) /\ LinesReal(out2, feedback.switched)
  <2>1. CASE o.last = Unavailable
    BY <2>1, <1>3, <1>r
  <2>2. CASE o.last # Unavailable
    <3>1. out2 = <<line>>
      BY <2>2
    <3>2. Len(<<line>>) = 1 /\ <<line>>[1] = line /\ <<line>> \in Seq(Lines)
      BY <1>l
    <3>3. \A i \in 1..Len(<<line>>) : <<line>>[i] = line
      BY <3>2
    <3> QED BY <3>1, <3>2, <3>3, <1>l, UnavailableIsReal DEF LinesReal
  <2> QED BY <2>1, <2>2
<1>9. lines' \in Pipes /\ lines'.out = out2
  BY <1>0, <1>3, <1>4, <1>8, ObserverParts DEF Pipes
<1>10. HelperSound(observer', adapter, lines')
  <2>1. Watched(observer, adapter) /\ Heard(observer, adapter, lines.out)
    BY <1>2, HelperSoundParts
  <2>2. Watched(observer', adapter)
    BY <2>1, <1>0, <1>7 DEF Watched
  <2>3. NotRunning(observer', adapter, lines')
    BY <1>7 DEF NotRunning
  <2>4. ASSUME adapter.shutdown = "no" PROVE Listening(observer', adapter) /\ Streams(observer', adapter, out2)
    <3>1. Listening(observer, adapter) /\ Streams(observer, adapter, lines.out)
      BY <2>1, <2>4, <1>0 DEF Heard
    <3>2. Listening(observer', adapter)
      BY <3>1, <1>7 DEF Listening
    <3>3. CASE o.last = Unavailable
      BY <3>1, <3>2, <3>3, <1>4, <1>7, <1>u DEF Streams
    <3>4. CASE o.last # Unavailable
      <4>1. Len(out2) = 1 /\ out2[1] = line
        BY <3>4
      <4> HIDE DEF out2
      <4>2. \A i \in 1..Len(out2) : out2[i] = line
        BY <4>1
      <4> QED BY <3>2, <4>1, <4>2, <1>4, <1>7, <1>l, <1>u DEF Streams
    <3> QED BY <3>2, <3>3, <3>4
  <2>5. Heard(observer', adapter, out2)
    BY <2>4 DEF Heard
  <2> QED BY <2>2, <2>3, <2>5, <1>9, HelperSoundParts
<1> HIDE DEF out2
<1>11. DesktopTypeOK'
  BY <1>0, <1>2, <1>7, <1>9, TypeParts DEF DesktopTypeOK
<1>12. AllReal(kwinWire, lines.out, scripts, feedback)'
  BY <1>0, <1>7, <1>8, <1>9, <1>r DEF AllReal
<1> QED BY <1>0, <1>2, <1>7, <1>10, <1>11, <1>12 DEF DesktopInv

LEMMA OwnerChangedKeeps ==
    ASSUME DesktopInv, OnServiceOwnerChanged
    PROVE  DesktopInv'
<1> DEFINE W2 == Tail(kwinWire)
           m == Head(kwinWire)
<1>0. /\ observer.state \in {"starting", "running"} /\ kwinWire # <<>> /\ m.type = "owner"
      /\ kwinWire' = W2 /\ UNCHANGED <<kwin, adapter, feedback>>
  BY DEF OnServiceOwnerChanged, Working
<1>2. /\ DesktopTypeOK /\ AllReal(kwinWire, lines.out, scripts, feedback)
      /\ ShowSound(adapter, feedback) /\ HelperSound(observer, adapter, lines)
      /\ Follows(observer, kwinWire, scripts, kwin)
  BY InvParts
<1>3. /\ kwin \in KWins /\ kwinWire \in Seq(Messages) /\ observer \in Observers
  BY <1>2, TypeParts
<1>4. W2 \in Seq(Messages) /\ m \in Messages /\ m.owner \in Nat /\ IsOwner(m)
  BY <1>0, <1>3, TailWire, MessageParts DEF IsOwner
<1>r. ScriptsReal(scripts, feedback.switched) /\ WireReal(kwinWire, feedback.switched)
      /\ "not a switch" \notin feedback.wrong /\ LinesReal(lines.out, feedback.switched)
  BY <1>2, AllRealParts
<1>5. WireReal(W2, feedback.switched)
  BY <1>0, <1>3, <1>r, WireRealKept
<1>6. CASE m.owner = observer.owner
  <2>1. UNCHANGED <<scripts, observer, lines>>
    BY <1>6 DEF OnServiceOwnerChanged
  <2>2. Follows(observer, W2, scripts, kwin)
    BY <1>0, <1>2, <1>3, <1>4, <1>6, SameOwnerFollows
  <2> HIDE DEF W2, m
  <2>3. DesktopTypeOK'
    BY <1>0, <1>2, <1>4, <2>1, TypeParts DEF DesktopTypeOK
  <2>4. AllReal(kwinWire, lines.out, scripts, feedback)'
    BY <1>0, <1>5, <1>r, <2>1 DEF AllReal
  <2> QED BY <1>0, <1>2, <2>1, <2>2, <2>3, <2>4 DEF DesktopInv
<1>7. CASE m.owner # observer.owner
  <2>1. PICK r \in Reattach(m.owner, observer) : Reaches(r, Unavailable)
    BY <1>7 DEF OnServiceOwnerChanged
  <2> DEFINE p == r.observer
             S2 == r.scripts
  <2>2. Handed(p, S2, observer, m.owner)
    BY <1>2, <1>3, <1>4, ReattachedEnds
  <2>3. scripts' = S2 /\ PublishSnapshot(p, Unavailable)
    BY <2>1 DEF Reaches
  <2>4. OwnerComes(kwinWire, kwin.owner) /\ FromKWin(kwinWire, scripts, kwin.owner)
        /\ NoScripts(observer, scripts)
    BY <1>2, FollowsParts
  <2>5. OwnerComes(W2, kwin.owner)
    BY <2>4, <1>0, <1>3, TailWire
  <2>6. FromKWin(W2, scripts, kwin.owner)
    BY <2>4, <1>0, <1>3, TailWire
  <2>7. NoOwner(W2) => m.owner = kwin.owner
    BY <2>4, <1>0, <1>3, <1>4, TailWire
  <2>8. \A g : Silent(kwinWire, g) => Silent(W2, g)
    BY <1>0, <1>3, TailWire
  <2> HIDE DEF W2, m, p, S2
  <2>9. p \in Observers /\ p.state = observer.state /\ p.epoch = observer.epoch
        /\ p.last = observer.last /\ S2 \in Partial(Nat, Scripts) /\ IsFiniteSet(DOMAIN S2)
    BY <2>2 DEF Handed
  <2>10. Unavailable \in Snapshots /\ Real(Unavailable, feedback.switched)
    BY UnavailableParts, UnavailableIsReal
  <2>11. /\ observer' \in Observers /\ observer'.state = p.state /\ observer'.owner = p.owner
         /\ observer'.generation = p.generation /\ observer'.timer = p.timer
         /\ observer'.last = Unavailable /\ lines' \in Pipes
         /\ LinesReal(lines'.out, feedback.switched)
         /\ HelperSound(observer', adapter, lines')
    BY <1>0, <2>3, <2>9, <2>10, PublishedSound
  <2>12. Follows(observer', W2, S2, kwin)
    BY <1>0, <1>3, <2>2, <2>4, <2>5, <2>6, <2>7, <2>8, <2>11, HandedFollows
  <2>13. ScriptsReal(S2, feedback.switched)
    BY <2>2, <1>r, HandedReal
  <2>14. DesktopTypeOK'
    BY <1>0, <1>2, <1>4, <2>3, <2>9, <2>11, TypeParts DEF DesktopTypeOK
  <2>15. AllReal(kwinWire, lines.out, scripts, feedback)'
    BY <1>0, <1>5, <1>r, <2>3, <2>11, <2>13 DEF AllReal
  <2> QED BY <1>0, <1>2, <2>3, <2>11, <2>12, <2>14, <2>15 DEF DesktopInv
<1> QED BY <1>6, <1>7
LEMMA OnPublishKeeps ==
    ASSUME DesktopInv, OnPublish
    PROVE  DesktopInv'
<1> DEFINE W2 == Tail(kwinWire)
           m == Head(kwinWire)
           o == [observer EXCEPT !.timer = FALSE, !.received = TRUE]
<1>0. /\ observer.state \in {"starting", "running"} /\ kwinWire # <<>> /\ m.type = "publish"
      /\ kwinWire' = W2 /\ UNCHANGED <<kwin, scripts, adapter, feedback>>
  BY DEF OnPublish, Working
<1>1. /\ Authentic(observer, m) => PublishSnapshot(o, m.snapshot)
      /\ ~Authentic(observer, m) => UNCHANGED <<observer, lines>>
  BY DEF OnPublish, IsAuthentic, Authentic
<1>2. /\ DesktopTypeOK /\ AllReal(kwinWire, lines.out, scripts, feedback)
      /\ ShowSound(adapter, feedback) /\ HelperSound(observer, adapter, lines)
      /\ Follows(observer, kwinWire, scripts, kwin)
  BY InvParts
<1>3. /\ kwin \in KWins /\ kwinWire \in Seq(Messages) /\ observer \in Observers
  BY <1>2, TypeParts
<1>4. W2 \in Seq(Messages) /\ m \in Messages /\ m.snapshot \in Snapshots
  BY <1>0, <1>3, TailWire, MessageParts
<1>r. ScriptsReal(scripts, feedback.switched) /\ WireReal(kwinWire, feedback.switched)
      /\ "not a switch" \notin feedback.wrong /\ LinesReal(lines.out, feedback.switched)
  BY <1>2, AllRealParts
<1>5. WireReal(W2, feedback.switched) /\ Real(m.snapshot, feedback.switched)
  BY <1>0, <1>3, <1>r, WireRealKept
<1>6. o \in Observers /\ o.state = observer.state /\ o.epoch = observer.epoch
      /\ o.last = observer.last /\ o.owner = observer.owner /\ o.generation = observer.generation
  BY <1>3 DEF Observers
<1>f. \A p : (IF Authentic(observer, m)
              THEN /\ p.state = observer.state /\ p.owner = observer.owner
                   /\ p.generation = observer.generation /\ p.last = m.snapshot
              ELSE p = observer)
             => Follows(p, W2, scripts, kwin)
  BY <1>0, <1>2, <1>3, PublishedFollows
<1> HIDE DEF W2, m, o
<1>7. CASE Authentic(observer, m)
  <2>1. PublishSnapshot(o, m.snapshot)
    BY <1>1, <1>7
  <2>2. /\ observer' \in Observers /\ observer'.state = o.state /\ observer'.owner = o.owner
        /\ observer'.generation = o.generation
        /\ observer'.last = m.snapshot /\ lines' \in Pipes
        /\ LinesReal(lines'.out, feedback.switched)
        /\ HelperSound(observer', adapter, lines')
    BY <1>0, <1>4, <1>5, <1>6, <2>1, PublishedSound
  <2>3. Follows(observer', W2, scripts, kwin)
    BY <2>2, <1>6, <1>7, <1>f
  <2>4. DesktopTypeOK'
    BY <1>0, <1>2, <1>4, <2>2, TypeParts DEF DesktopTypeOK
  <2>5. AllReal(kwinWire, lines.out, scripts, feedback)'
    BY <1>0, <1>5, <1>r, <2>2 DEF AllReal
  <2> QED BY <1>0, <1>2, <2>2, <2>3, <2>4, <2>5 DEF DesktopInv
<1>8. CASE ~Authentic(observer, m)
  <2>1. UNCHANGED <<observer, lines>>
    BY <1>1, <1>8
  <2>2. Follows(observer, W2, scripts, kwin)
    BY <1>8, <1>f
  <2>3. DesktopTypeOK'
    BY <1>0, <1>2, <1>4, <2>1, TypeParts DEF DesktopTypeOK
  <2>4. AllReal(kwinWire, lines.out, scripts, feedback)'
    BY <1>0, <1>5, <1>r, <2>1 DEF AllReal
  <2> QED BY <1>0, <1>2, <2>1, <2>2, <2>3, <2>4 DEF DesktopInv
<1> QED BY <1>7, <1>8

LEMMA FewerReal ==
    ASSUME NEW S2, Fewer(S2, scripts), NEW made, ScriptsReal(scripts, made)
    PROVE  ScriptsReal(S2, made)
BY DEF Fewer, ScriptsReal

LEMMA SnapshotTimeoutKeeps ==
    ASSUME DesktopInv, OnSnapshotTimeout
    PROVE  DesktopInv'
<1>0. /\ observer.state \in {"starting", "running"}
      /\ UNCHANGED <<kwin, kwinWire, adapter, feedback>>
  BY DEF OnSnapshotTimeout, Working
<1>1. PICK r \in Retirements(observer) : Reaches(r, Unavailable)
  BY DEF OnSnapshotTimeout
<1>2. /\ DesktopTypeOK /\ AllReal(kwinWire, lines.out, scripts, feedback)
      /\ ShowSound(adapter, feedback) /\ HelperSound(observer, adapter, lines)
      /\ Follows(observer, kwinWire, scripts, kwin)
  BY InvParts
<1>3. /\ observer \in Observers /\ scripts \in Partial(Nat, Scripts) /\ IsFiniteSet(DOMAIN scripts)
  BY <1>2, TypeParts
<1>r. ScriptsReal(scripts, feedback.switched) /\ WireReal(kwinWire, feedback.switched)
      /\ "not a switch" \notin feedback.wrong
  BY <1>2, AllRealParts
<1> DEFINE p == r.observer
           S2 == r.scripts
<1>4. Idle(p, observer) /\ p.owner = observer.owner /\ Fewer(S2, scripts)
      /\ S2 \in Partial(Nat, Scripts)
  BY <1>3, Retired, EndParts
<1>5. scripts' = S2 /\ PublishSnapshot(p, Unavailable)
  BY <1>1 DEF Reaches
<1> HIDE DEF p, S2
<1>6. p \in Observers /\ p.state = observer.state /\ p.epoch = observer.epoch
      /\ p.last = observer.last
  BY <1>4 DEF Idle
<1>7. Unavailable \in Snapshots /\ Real(Unavailable, feedback.switched)
  BY UnavailableParts, UnavailableIsReal
<1>8. /\ observer' \in Observers /\ observer'.state = p.state /\ observer'.owner = p.owner
      /\ observer'.generation = p.generation /\ observer'.timer = p.timer
      /\ observer'.last = Unavailable /\ lines' \in Pipes
      /\ LinesReal(lines'.out, feedback.switched)
      /\ HelperSound(observer', adapter, lines')
  BY <1>0, <1>5, <1>6, <1>7, PublishedSound
<1>9. Follows(observer', kwinWire, S2, kwin)
  BY <1>2, <1>4, <1>8, RetiredFollows
<1>10. ScriptsReal(S2, feedback.switched)
  BY <1>4, <1>r, FewerReal
<1>11. IsFiniteSet(DOMAIN S2)
  BY <1>3, <1>4, FS_Subset DEF Fewer
<1>12. DesktopTypeOK'
  BY <1>0, <1>2, <1>4, <1>5, <1>8, <1>11, TypeParts DEF DesktopTypeOK
<1>13. AllReal(kwinWire, lines.out, scripts, feedback)'
  BY <1>0, <1>5, <1>r, <1>8, <1>10 DEF AllReal
<1> QED BY <1>0, <1>2, <1>5, <1>8, <1>9, <1>12, <1>13 DEF DesktopInv

(* The process is gone.                                                     *)
LEMMA OffParts ==
    /\ Off \in Observers
    /\ Off.state = "off" /\ Off.epoch = None /\ Off.owner = None /\ Off.generation = None
    /\ ~Off.timer /\ Off.last = <<>>
BY DEF Off, Observers, None

LEMMA EndedParts ==
    ASSUME observer \in Observers, NEW x \in {"dead", "starting"}, NEW e \in Nat
    PROVE  /\ [Off EXCEPT !.state = x, !.epoch = e] \in Observers
           /\ [Off EXCEPT !.state = x, !.epoch = e].state = x
           /\ [Off EXCEPT !.state = x, !.epoch = e].epoch = e
           /\ [Off EXCEPT !.state = x, !.epoch = e].owner = None
           /\ [Off EXCEPT !.state = x, !.epoch = e].generation = None
           /\ ~[Off EXCEPT !.state = x, !.epoch = e].timer
           /\ [Off EXCEPT !.state = x, !.epoch = e].last = <<>>
<1> DEFINE p == [Off EXCEPT !.state = x, !.epoch = e]
<1>1. Off \in [state : {"off"}, epoch : {None}, owner : {None}, generation : {None},
               received : {FALSE}, timer : {FALSE}, last : {<<>>}]
  BY DEF Off
<1>2. p \in [state : {x}, epoch : {e}, owner : {None}, generation : {None},
             received : {FALSE}, timer : {FALSE}, last : {<<>>}]
  BY <1>1
<1> HIDE DEF p
<1>3. p.state = x /\ p.epoch = e /\ p.owner = None /\ p.generation = None
      /\ p.received = FALSE /\ p.timer = FALSE /\ p.last = <<>>
  BY <1>2
<1>4. p \in Observers
  <2>1. None \in Nat /\ {<<>>} \subseteq Snapshots \cup {<<>>}
        /\ {x} \subseteq {"off", "starting", "running", "hung", "dead"}
    BY DEF None
  <2> QED BY <1>2, <2>1 DEF Observers
<1> QED BY <1>3, <1>4 DEF p

(* What is left in place when the process ends.                             *)
LEMMA NothingRuns ==
    /\ <<>> \in Partial(Nat, Scripts) /\ IsFiniteSet(DOMAIN <<>>) /\ DOMAIN <<>> = {}
    /\ <<>> \in Seq(Messages)
    /\ \A made : ScriptsReal(<<>>, made) /\ WireReal(<<>>, made)
    /\ \A k : OwnerComes(<<>>, k)
<1>1. <<>> \in Partial(Nat, Scripts) /\ DOMAIN <<>> = {}
  BY EmptyPartial
<1>2. IsFiniteSet(DOMAIN <<>>)
  BY <1>1, FS_EmptySet
<1>3. Len(<<>>) = 0 /\ <<>> \in Seq(Messages)
  OBVIOUS
<1> QED BY <1>1, <1>2, <1>3 DEF ScriptsReal, WireReal, OwnerComes

LEMMA EndedKeeps ==
    ASSUME DesktopInv, ProcessEnds, UNCHANGED <<kwin, lines>>,
           adapter' \in AdapterStates, IsFiniteSet(adapter'.retired), feedback' \in Feedbacks,
           feedback'.switched = feedback.switched, ShowSound(adapter', feedback'),
           "not a switch" \notin feedback'.wrong
    PROVE  DesktopInv'
<1>2. /\ DesktopTypeOK /\ AllReal(kwinWire, lines.out, scripts, feedback)
  BY InvParts
<1>3. observer \in Observers /\ observer.epoch \in Nat
  BY <1>2, TypeParts, ObserverParts
<1>4. /\ observer' \in Observers /\ observer'.state = "dead"
      /\ scripts' = <<>> /\ kwinWire' = <<>>
  BY <1>3, EndedParts DEF ProcessEnds
<1>5. Follows(observer', <<>>, <<>>, kwin)
  BY <1>4, GoneFollows, NothingRuns
<1>6. DesktopTypeOK'
  BY <1>2, <1>4, NothingRuns, TypeParts DEF DesktopTypeOK
<1>7. AllReal(kwinWire, lines.out, scripts, feedback)'
  BY <1>2, <1>4, NothingRuns, AllRealParts DEF AllReal
<1>8. HelperSound(observer', adapter', lines)
  BY <1>4 DEF HelperSound, Watched, NotRunning, Heard
<1> QED BY <1>4, <1>5, <1>6, <1>7, <1>8 DEF DesktopInv

LEMMA ObserverFailsKeeps ==
    ASSUME DesktopInv, ObserverFails
    PROVE  DesktopInv'
<1>0. /\ observer.state \in {"starting", "running"}
      /\ UNCHANGED <<kwin, lines, adapter, feedback>>
  BY DEF ObserverFails, Working
<1>2. /\ DesktopTypeOK /\ AllReal(kwinWire, lines.out, scripts, feedback)
      /\ ShowSound(adapter, feedback) /\ HelperSound(observer, adapter, lines)
      /\ Follows(observer, kwinWire, scripts, kwin)
  BY InvParts
<1>3. CASE ProcessEnds
  <2>1. adapter \in AdapterStates /\ IsFiniteSet(adapter.retired) /\ feedback \in Feedbacks
        /\ "not a switch" \notin feedback.wrong
    BY <1>2, TypeParts, AllRealParts
  <2> QED BY <1>0, <1>2, <1>3, <2>1, EndedKeeps
<1>4. CASE observer' = [observer EXCEPT !.state = "hung"] /\ UNCHANGED <<scripts, kwinWire>>
  <2>1. observer' \in Observers /\ observer'.state = "hung"
    BY <1>2, <1>4, TypeParts DEF Observers
  <2>2. Follows(observer', kwinWire, scripts, kwin)
    BY <1>2, <2>1, HungFollows
  <2>3. HelperSound(observer', adapter, lines)
    BY <1>0, <1>2, <2>1 DEF HelperSound, Watched, NotRunning, Heard
  <2>4. DesktopTypeOK'
    BY <1>0, <1>2, <1>4, <2>1, TypeParts DEF DesktopTypeOK
  <2> QED BY <1>0, <1>2, <1>4, <2>2, <2>3, <2>4 DEF DesktopInv
<1> QED BY <1>3, <1>4 DEF ObserverFails
-----------------------------------------------------------------------------
(* What the adapter shows.                                                  *)
LEMMA RecordParts ==
    ASSUME NEW r \in Records
    PROVE  /\ r.token \in Nat /\ r.generation \in Nat /\ r.revision \in Nat
           /\ r.presented \in BOOLEAN /\ r.current \in Desktops
BY DEF Records

LEMMA AdapterParts ==
    ASSUME NEW a \in AdapterStates
    PROVE  /\ a.snapshot \in Snapshots /\ a.records \in Partial(Outputs, Records)
           /\ a.retiredSources \in Partial(Outputs, Sources) /\ a.minted \in [Outputs -> Nat]
           /\ a.helperPath \in BOOLEAN /\ a.shouldRun \in BOOLEAN /\ a.accepting \in BOOLEAN
           /\ a.ready \in BOOLEAN /\ a.attempts \in 0..3 /\ a.epoch \in Nat
           /\ a.pendingReady \in Nat /\ a.retired \in SUBSET Nat /\ a.watchdog \in BOOLEAN
           /\ a.restart \in BOOLEAN
           /\ a.shutdown \in {"no", "asked", "terminated", "killed", "over"}
BY DEF AdapterStates

(* A version that comes after another.                                      *)
After(t, g, v, c) == NotAfter(t, g, v, c) /\ ~(t = c.token /\ g = c.generation /\ v = c.revision)

LEMMA NextVersionParts ==
    ASSUME adapter \in AdapterStates, NEW n \in Outputs, NEW r \in Records
    PROVE  /\ NextVersion(n, r) \in Records
           /\ \A t, g, v \in Nat : NotAfter(t, g, v, r) /\ t <= adapter.minted[n]
                                   => After(t, g, v, NextVersion(n, r))
<1>1. adapter.minted[n] \in Nat
  BY AdapterParts
<1>2. r.token \in Nat /\ r.generation \in Nat /\ r.revision \in Nat
  BY RecordParts
<1>3. CASE r.revision < MaximumSourceVersion
  <2>1. NextVersion(n, r) = [r EXCEPT !.revision = r.revision + 1]
    BY <1>3 DEF NextVersion
  <2> DEFINE c == [r EXCEPT !.revision = r.revision + 1]
  <2>2. c \in Records /\ c.token = r.token /\ c.generation = r.generation /\ c.revision = r.revision + 1
    BY <1>2 DEF Records
  <2> HIDE DEF c
  <2>3. \A t, g, v \in Nat : NotAfter(t, g, v, r) => After(t, g, v, c)
    BY <1>2, <2>2 DEF NotAfter, After
  <2> QED BY <2>1, <2>2, <2>3 DEF c
<1>4. CASE ~(r.revision < MaximumSourceVersion) /\ r.generation < MaximumSourceVersion
  <2>1. NextVersion(n, r) = [r EXCEPT !.generation = r.generation + 1, !.revision = 1]
    BY <1>4 DEF NextVersion
  <2> DEFINE c == [r EXCEPT !.generation = r.generation + 1, !.revision = 1]
             x == r.generation + 1
  <2>2. c \in Records /\ c.token = r.token /\ c.generation = r.generation + 1 /\ c.revision = 1
    <3>1. x \in Nat /\ 1 \in Nat
      BY <1>2
    <3>2. c = [r EXCEPT !.generation = x, !.revision = 1]
      OBVIOUS
    <3> HIDE DEF x, c
    <3>3. c \in Records /\ c.token = r.token /\ c.generation = x /\ c.revision = 1
      BY <3>1, <3>2 DEF Records
    <3> QED BY <3>3 DEF x
  <2> HIDE DEF c
  <2>3. \A t, g, v \in Nat : NotAfter(t, g, v, r) => After(t, g, v, c)
    BY <1>2, <2>2 DEF NotAfter, After
  <2> QED BY <2>1, <2>2, <2>3 DEF c
<1>5. CASE ~(r.revision < MaximumSourceVersion) /\ ~(r.generation < MaximumSourceVersion)
  <2>1. NextVersion(n, r) =
          [r EXCEPT !.token = adapter.minted[n] + 1, !.generation = 1, !.revision = 1]
    BY <1>5 DEF NextVersion
  <2> DEFINE c == [r EXCEPT !.token = adapter.minted[n] + 1, !.generation = 1, !.revision = 1]
             x == adapter.minted[n] + 1
  <2>2. c \in Records /\ c.token = adapter.minted[n] + 1
    <3>1. x \in Nat /\ 1 \in Nat
      BY <1>1
    <3>2. c = [r EXCEPT !.token = x, !.generation = 1, !.revision = 1]
      OBVIOUS
    <3> HIDE DEF x, c
    <3>3. c \in Records /\ c.token = x
      BY <3>1, <3>2 DEF Records
    <3> QED BY <3>3 DEF x
  <2> HIDE DEF c
  <2>3. \A t, g, v \in Nat : t <= adapter.minted[n] => After(t, g, v, c)
    BY <1>1, <2>2 DEF NotAfter, After
  <2> QED BY <2>1, <2>2, <2>3 DEF c
<1> QED BY <1>3, <1>4, <1>5

LEMMA NewRecordParts ==
    ASSUME adapter \in AdapterStates, NEW n \in Outputs, NEW d \in Desktops
    PROVE  /\ NewRecord(n, d) \in Records
           /\ \A t, g, v \in Nat :
                 /\ t <= adapter.minted[n]
                 /\ n \in DOMAIN adapter.retiredSources
                    => NotAfterSource(t, g, adapter.retiredSources[n])
                 => NotAfter(t, g, v, NewRecord(n, d))
<1> DEFINE retired == adapter.retiredSources
           known == n \in DOMAIN retired /\ retired[n].generation < MaximumSourceVersion
           c == NewRecord(n, d)
<1>1. adapter.minted[n] \in Nat
  BY AdapterParts
<1>2. n \in DOMAIN retired => retired[n].token \in Nat /\ retired[n].generation \in Nat
  <2>1. retired \in Partial(Outputs, Sources)
    BY AdapterParts
  <2>2. \A x \in DOMAIN retired : retired[x] \in Sources
    BY <2>1, PartialParts
  <2> HIDE DEF retired
  <2> QED BY <2>2 DEF Sources
<1>3. CASE known
  <2>1. c = [token |-> retired[n].token, generation |-> retired[n].generation + 1,
             revision |-> 1, presented |-> FALSE, current |-> d]
    BY <1>3 DEF NewRecord
  <2>2. c \in Records /\ c.token = retired[n].token /\ c.generation = retired[n].generation + 1
    BY <1>2, <1>3, <2>1 DEF Records
  <2> HIDE DEF c
  <2>3. \A t, g, v \in Nat : NotAfterSource(t, g, retired[n]) => NotAfter(t, g, v, c)
    BY <1>2, <1>3, <2>2 DEF NotAfter, NotAfterSource
  <2> QED BY <1>3, <2>2, <2>3 DEF c
<1>4. CASE ~known
  <2>1. c = [token |-> adapter.minted[n] + 1, generation |-> 1,
             revision |-> 1, presented |-> FALSE, current |-> d]
    BY <1>4 DEF NewRecord
  <2>2. c \in Records /\ c.token = adapter.minted[n] + 1
    BY <1>1, <2>1 DEF Records
  <2> HIDE DEF c
  <2>3. \A t, g, v \in Nat : t <= adapter.minted[n] => NotAfter(t, g, v, c)
    BY <1>1, <2>2 DEF NotAfter
  <2> QED BY <2>2, <2>3 DEF c
<1> QED BY <1>3, <1>4

(* The record of an output that the snapshot s lists.                       *)
LEMMA NextRecordParts ==
    ASSUME adapter \in AdapterStates, NEW s \in Snapshots, NEW n \in DOMAIN s.current
    PROVE  /\ n \in Outputs /\ NextRecord(n, s) \in Records
           /\ n \in DOMAIN adapter.records /\ ~IsChanged(n, s)
              => NextRecord(n, s) = adapter.records[n]
           /\ n \in DOMAIN adapter.records /\ IsConfirmed(n, s) => NextRecord(n, s).presented
           /\ \A t, g, v \in Nat :
                 /\ t <= adapter.minted[n]
                 /\ n \in DOMAIN adapter.records => NotAfter(t, g, v, adapter.records[n])
                 /\ n \in DOMAIN adapter.retiredSources
                    => NotAfterSource(t, g, adapter.retiredSources[n])
                 => /\ NotAfter(t, g, v, NextRecord(n, s))
                    /\ n \in DOMAIN adapter.records /\ IsChanged(n, s)
                       => After(t, g, v, NextRecord(n, s))
<1>1. n \in Outputs /\ s.current[n] \in Desktops
  BY SnapshotParts, PartialParts DEF Shown
<1>2. CASE n \notin DOMAIN adapter.records
  <2>1. NextRecord(n, s) = NewRecord(n, s.current[n])
    BY <1>2 DEF NextRecord
  <2> QED BY <1>1, <1>2, <2>1, NewRecordParts
<1> DEFINE r == adapter.records[n]
<1>3. n \in DOMAIN adapter.records => r \in Records
  BY AdapterParts, PartialParts
<1>4. CASE n \in DOMAIN adapter.records /\ ~IsChanged(n, s)
  <2>1. NextRecord(n, s) = r
    BY <1>4 DEF NextRecord
  <2>2. ~IsConfirmed(n, s)
    BY <1>4 DEF IsChanged, IsConfirmed
  <2> QED BY <1>1, <1>3, <1>4, <2>1, <2>2
<1>5. CASE n \in DOMAIN adapter.records /\ IsChanged(n, s)
  <2> DEFINE c == NextVersion(n, r)
             b == IsConfirmed(n, s)
             e == [c EXCEPT !.presented = b, !.current = s.current[n]]
  <2>1. NextRecord(n, s) = e
    BY <1>5 DEF NextRecord
  <2>2. c \in Records
        /\ \A t, g, v \in Nat : NotAfter(t, g, v, r) /\ t <= adapter.minted[n] => After(t, g, v, c)
    BY <1>1, <1>3, <1>5, NextVersionParts
  <2>3. b \in BOOLEAN
    BY DEF IsConfirmed
  <2>4. b <=> IsConfirmed(n, s)
    OBVIOUS
  <2> HIDE DEF c, b
  <2>5. e \in Records /\ e.token = c.token /\ e.generation = c.generation
        /\ e.revision = c.revision /\ e.presented = b
    BY <1>1, <2>2, <2>3 DEF Records
  <2> HIDE DEF e
  <2>6. \A t, g, v : After(t, g, v, c) => After(t, g, v, e) /\ NotAfter(t, g, v, e)
    BY <2>5 DEF After, NotAfter
  <2>7. \A t, g, v \in Nat : NotAfter(t, g, v, r) /\ t <= adapter.minted[n]
                             => After(t, g, v, e) /\ NotAfter(t, g, v, e)
    BY <2>2, <2>6
  <2> HIDE DEF r
  <2> QED BY <1>1, <1>5, <2>1, <2>4, <2>5, <2>7 DEF r
<1> QED BY <1>2, <1>4, <1>5
(* The adapter a that is about to show s holds what the adapter shows; and  *)
(* what has become of them.                                                 *)
Draws(a) ==
    /\ a.snapshot = adapter.snapshot /\ a.records = adapter.records
    /\ a.retiredSources = adapter.retiredSources /\ a.minted = adapter.minted
SameControl(b, a) ==
    /\ b.helperPath = a.helperPath /\ b.shouldRun = a.shouldRun /\ b.accepting = a.accepting
    /\ b.ready = a.ready /\ b.attempts = a.attempts /\ b.epoch = a.epoch
    /\ b.retired = a.retired /\ b.watchdog = a.watchdog
    /\ b.restart = a.restart /\ b.shutdown = a.shutdown
Displayed(a, s) ==
    /\ adapter' \in AdapterStates /\ adapter'.snapshot = s /\ SameControl(adapter', a)
    /\ feedback' \in Feedbacks /\ feedback'.switched = feedback.switched
    /\ "not a switch" \notin feedback'.wrong
    /\ ShowSound(adapter', feedback')

LEMMA ShowSoundDraws ==
    ASSUME NEW a, Draws(a), ShowSound(adapter, feedback)
    PROVE  ShowSound(a, feedback)
BY DEF Draws, ShowSound, Minted, Ordered, Resolved

(* What applySnapshot makes of the parts.                                   *)
NewRecords(s) == [n \in DOMAIN s.current |-> NextRecord(n, s)]
Removed(s) == DOMAIN adapter.records \ DOMAIN s.current
Retiring(s) == [n \in Removed(s) |-> [token |-> adapter.records[n].token,
                                      generation |-> adapter.records[n].generation]]
NewSources(s) == Over(Retiring(s), Omit(adapter.retiredSources, DOMAIN s.current))
NewMinted(s) == [n \in Outputs |->
    IF n \in DOMAIN NewRecords(s) /\ NewRecords(s)[n].token > adapter.minted[n]
    THEN NewRecords(s)[n].token ELSE adapter.minted[n]]
Confirmed(s) == {n \in DOMAIN s.current \cap DOMAIN adapter.records : IsConfirmed(n, s)}
Named(s) == {Identity(n, NewRecords(s)[n]) : n \in Confirmed(s)}
Ended(s) == {n \in Invalidated(s) \cap DOMAIN feedback.held :
                    /\ feedback.held[n][2] = adapter.records[n].token
                    /\ feedback.held[n][3] = adapter.records[n].generation}
Naming(s) == [n \in Confirmed(s) |-> Identity(n, NewRecords(s)[n])]
NewHeld(s) == Over(Naming(s), Omit(feedback.held, Ended(s)))

LEMMA NewRecordsParts ==
    ASSUME adapter \in AdapterStates, NEW s \in Snapshots
    PROVE  /\ NewRecords(s) \in Partial(Outputs, Records)
           /\ DOMAIN NewRecords(s) = DOMAIN s.current
           /\ \A n \in DOMAIN s.current : NewRecords(s)[n] = NextRecord(n, s)
<1>1. DOMAIN s.current \in SUBSET Outputs
  BY SnapshotParts, PartialParts DEF Shown
<1>2. NewRecords(s) \in [DOMAIN s.current -> Records]
  BY NextRecordParts DEF NewRecords
<1> QED BY <1>1, <1>2, IsPartial DEF NewRecords

LEMMA NewSourcesParts ==
    ASSUME adapter \in AdapterStates, NEW s \in Snapshots
    PROVE  /\ NewSources(s) \in Partial(Outputs, Sources)
           /\ \A n \in DOMAIN NewSources(s) :
                 \/ /\ n \in DOMAIN adapter.records
                    /\ NewSources(s)[n].token = adapter.records[n].token
                    /\ NewSources(s)[n].generation = adapter.records[n].generation
                 \/ n \in DOMAIN adapter.retiredSources
                    /\ NewSources(s)[n] = adapter.retiredSources[n]
           /\ \A n \in DOMAIN NewSources(s) : n \notin DOMAIN s.current
<1>1. adapter.records \in Partial(Outputs, Records)
      /\ adapter.retiredSources \in Partial(Outputs, Sources)
  BY AdapterParts
<1> DEFINE kept == Omit(adapter.retiredSources, DOMAIN s.current)
           gone == Retiring(s)
<1>2. Removed(s) \in SUBSET Outputs
  BY <1>1, PartialParts DEF Removed
<1>3. \A n \in Removed(s) : adapter.records[n] \in Records
  BY <1>1, PartialParts DEF Removed
<1>4. gone \in [Removed(s) -> Sources]
  BY <1>3, RecordParts DEF Sources, Retiring
<1>5. gone \in Partial(Outputs, Sources) /\ DOMAIN gone = Removed(s)
  BY <1>2, <1>4, IsPartial
<1>6. kept \in Partial(Outputs, Sources)
  BY <1>1, OmitPartial
<1>7. DOMAIN kept = DOMAIN adapter.retiredSources \ DOMAIN s.current
  BY OmitDomain
<1>8. \A n \in DOMAIN adapter.retiredSources :
         n \notin DOMAIN s.current => kept[n] = adapter.retiredSources[n]
  BY OmitValues
<1>9. \A n \in Removed(s) : gone[n].token = adapter.records[n].token
                            /\ gone[n].generation = adapter.records[n].generation
  BY DEF Retiring
<1>10. NewSources(s) = Over(gone, kept)
  BY DEF NewSources
<1> HIDE DEF gone, kept
<1>11. NewSources(s) \in Partial(Outputs, Sources)
  BY <1>5, <1>6, <1>10, OverPartial
<1>12. DOMAIN NewSources(s) = DOMAIN gone \cup DOMAIN kept
  BY <1>10, OverDomain
<1>13. \A n \in DOMAIN gone : NewSources(s)[n] = gone[n]
  BY <1>10, OverValues
<1>14. \A n \in DOMAIN kept : n \notin DOMAIN gone => NewSources(s)[n] = kept[n]
  BY <1>10, OverValues
<1>15. \A n \in DOMAIN NewSources(s) :
                 \/ /\ n \in DOMAIN adapter.records
                    /\ NewSources(s)[n].token = adapter.records[n].token
                    /\ NewSources(s)[n].generation = adapter.records[n].generation
                 \/ n \in DOMAIN adapter.retiredSources
                    /\ NewSources(s)[n] = adapter.retiredSources[n]
  <2>1. SUFFICES ASSUME NEW n \in DOMAIN NewSources(s)
                 PROVE  \/ /\ n \in DOMAIN adapter.records
                           /\ NewSources(s)[n].token = adapter.records[n].token
                           /\ NewSources(s)[n].generation = adapter.records[n].generation
                        \/ n \in DOMAIN adapter.retiredSources
                           /\ NewSources(s)[n] = adapter.retiredSources[n]
    OBVIOUS
  <2>2. CASE n \in DOMAIN gone
    BY <2>2, <1>5, <1>9, <1>13 DEF Removed
  <2>3. CASE n \notin DOMAIN gone
    BY <2>1, <2>3, <1>7, <1>8, <1>12, <1>14
  <2> QED BY <2>2, <2>3
<1>16. \A n \in DOMAIN NewSources(s) : n \notin DOMAIN s.current
  BY <1>5, <1>7, <1>12 DEF Removed
<1> QED BY <1>11, <1>15, <1>16

LEMMA NewMintedParts ==
    ASSUME adapter \in AdapterStates, NEW s \in Snapshots
    PROVE  /\ NewMinted(s) \in [Outputs -> Nat]
           /\ \A n \in Outputs : adapter.minted[n] <= NewMinted(s)[n]
           /\ \A n \in DOMAIN NewRecords(s) : n \in Outputs
                                              /\ NewRecords(s)[n].token <= NewMinted(s)[n]
<1>1. adapter.minted \in [Outputs -> Nat]
  BY AdapterParts
<1>2. NewRecords(s) \in Partial(Outputs, Records)
  BY NewRecordsParts
<1>3. \A n \in DOMAIN NewRecords(s) : n \in Outputs /\ NewRecords(s)[n] \in Records
  BY <1>2, PartialParts
<1>4. \A n \in DOMAIN NewRecords(s) : n \in Outputs /\ NewRecords(s)[n].token \in Nat
  BY <1>3, RecordParts
<1> DEFINE R == NewRecords(s)
<1> HIDE DEF R
<1>5. \A n \in DOMAIN R : n \in Outputs /\ R[n].token \in Nat
  BY <1>4 DEF R
<1>6. NewMinted(s) = [n \in Outputs |->
          IF n \in DOMAIN R /\ R[n].token > adapter.minted[n] THEN R[n].token ELSE adapter.minted[n]]
  BY DEF NewMinted, R
<1>7. NewMinted(s) \in [Outputs -> Nat]
  BY <1>1, <1>5, <1>6
<1>8. \A n \in Outputs : adapter.minted[n] <= NewMinted(s)[n]
  BY <1>1, <1>5, <1>6
<1>9. \A n \in DOMAIN R : n \in Outputs /\ R[n].token <= NewMinted(s)[n]
  BY <1>1, <1>5, <1>6
<1> QED BY <1>7, <1>8, <1>9 DEF R
LEMMA IdentityParts ==
    ASSUME NEW n \in Outputs, NEW r \in Records
    PROVE  /\ Identity(n, r) \in Identities
           /\ Identity(n, r)[2] = r.token /\ Identity(n, r)[3] = r.generation
           /\ \A m, t, g, v : <<m, t, g, v>> = Identity(n, r)
                              => m = n /\ t = r.token /\ g = r.generation /\ v = r.revision
<1>1. r.token \in Nat /\ r.generation \in Nat /\ r.revision \in Nat
  BY RecordParts
<1> QED BY <1>1 DEF Identity, Identities

(* Whoever was told of what has ended is told of its end.                   *)
LEMMA NewHeldParts ==
    ASSUME adapter \in AdapterStates, feedback \in Feedbacks, Resolved(adapter, feedback),
           NEW s \in Snapshots
    PROVE  /\ NewHeld(s) \in Partial(Outputs, Identities)
           /\ \A n \in DOMAIN NewHeld(s) :
                 /\ n \in DOMAIN NewRecords(s) /\ NewRecords(s)[n].presented
                 /\ Identity(n, NewRecords(s)[n]) = NewHeld(s)[n]
<1> DEFINE kept == Omit(feedback.held, Ended(s))
           new == Naming(s)
<1>0. feedback.held \in Partial(Outputs, Identities) /\ adapter.records \in Partial(Outputs, Records)
  BY AdapterParts DEF Feedbacks
<1>1. /\ NewRecords(s) \in Partial(Outputs, Records) /\ DOMAIN NewRecords(s) = DOMAIN s.current
      /\ \A n \in DOMAIN s.current : NewRecords(s)[n] = NextRecord(n, s)
  BY NewRecordsParts
<1>2. \A n \in DOMAIN NewRecords(s) : n \in Outputs /\ NewRecords(s)[n] \in Records
  BY <1>1, PartialParts
<1>3. Confirmed(s) \in SUBSET Outputs /\ Confirmed(s) \subseteq DOMAIN NewRecords(s)
  BY <1>1, <1>2 DEF Confirmed
<1>4. \A n \in Confirmed(s) : Identity(n, NewRecords(s)[n]) \in Identities
  BY <1>2, <1>3, IdentityParts
<1>5. new \in [Confirmed(s) -> Identities] /\ \A n \in Confirmed(s) : new[n] = Identity(n, NewRecords(s)[n])
  BY <1>4 DEF Naming
<1>6. new \in Partial(Outputs, Identities) /\ DOMAIN new = Confirmed(s)
  BY <1>3, <1>5, IsPartial
<1>7. kept \in Partial(Outputs, Identities)
  BY <1>0, OmitPartial
<1>8. DOMAIN kept = DOMAIN feedback.held \ Ended(s)
  BY OmitDomain
<1>9. \A n \in DOMAIN feedback.held : n \notin Ended(s) => kept[n] = feedback.held[n]
  BY OmitValues
<1>10. NewHeld(s) = Over(new, kept)
  BY DEF NewHeld
<1> HIDE DEF new, kept
<1>11. NewHeld(s) \in Partial(Outputs, Identities)
  BY <1>6, <1>7, <1>10, OverPartial
<1>12. DOMAIN NewHeld(s) = DOMAIN new \cup DOMAIN kept
  BY <1>10, OverDomain
<1>13. \A n \in DOMAIN new : NewHeld(s)[n] = new[n]
  BY <1>10, OverValues
<1>14. \A n \in DOMAIN kept : n \notin DOMAIN new => NewHeld(s)[n] = kept[n]
  BY <1>10, OverValues
<1>15. ASSUME NEW n \in DOMAIN NewHeld(s)
       PROVE  /\ n \in DOMAIN NewRecords(s) /\ NewRecords(s)[n].presented
              /\ Identity(n, NewRecords(s)[n]) = NewHeld(s)[n]
  <2>1. CASE n \in DOMAIN new
    <3>1. n \in Confirmed(s) /\ n \in DOMAIN s.current /\ n \in DOMAIN adapter.records /\ IsConfirmed(n, s)
      BY <2>1, <1>6 DEF Confirmed
    <3>2. NextRecord(n, s).presented
      BY <3>1, NextRecordParts
    <3>3. NewHeld(s)[n] = Identity(n, NewRecords(s)[n])
      BY <2>1, <3>1, <1>5, <1>13
    <3> QED BY <3>1, <3>2, <3>3, <1>1
  <2>2. CASE n \notin DOMAIN new
    <3>1. n \in DOMAIN feedback.held /\ n \notin Ended(s) /\ NewHeld(s)[n] = feedback.held[n]
      BY <2>2, <1>8, <1>9, <1>12, <1>14
    <3>2. /\ n \in DOMAIN adapter.records /\ adapter.records[n].presented
          /\ Identity(n, adapter.records[n]) = feedback.held[n]
      BY <3>1 DEF Resolved
    <3>3. n \in Outputs /\ adapter.records[n] \in Records
      BY <3>2, <1>0, PartialParts
    <3>4. feedback.held[n][2] = adapter.records[n].token /\ feedback.held[n][3] = adapter.records[n].generation
      BY <3>2, <3>3, IdentityParts
    <3>5. n \notin Invalidated(s)
      BY <3>1, <3>4 DEF Ended
    <3>6. n \in DOMAIN s.current /\ (IsChanged(n, s) => IsConfirmed(n, s))
      BY <3>2, <3>5 DEF Invalidated
    <3>7. ~IsConfirmed(n, s)
      BY <2>2, <3>2, <3>6, <1>6 DEF Confirmed
    <3>8. NextRecord(n, s) = adapter.records[n]
      BY <3>2, <3>6, <3>7, NextRecordParts
    <3> QED BY <3>1, <3>2, <3>6, <3>8, <1>1
  <2> QED BY <2>1, <2>2
<1> QED BY <1>11, <1>15

(* Nothing is named twice.                                                  *)
LEMMA NamedParts ==
    ASSUME adapter \in AdapterStates, feedback \in Feedbacks, Ordered(adapter, feedback),
           NEW s \in Snapshots
    PROVE  /\ Named(s) \in SUBSET Identities
           /\ Named(s) \cap feedback.announced = {}
           /\ \A n, t, g, v : <<n, t, g, v>> \in Named(s)
                 => /\ n \in DOMAIN s.current /\ n \in DOMAIN NewRecords(s)
                    /\ t = NewRecords(s)[n].token /\ g = NewRecords(s)[n].generation
                    /\ v = NewRecords(s)[n].revision
<1>1. /\ NewRecords(s) \in Partial(Outputs, Records) /\ DOMAIN NewRecords(s) = DOMAIN s.current
      /\ \A n \in DOMAIN s.current : NewRecords(s)[n] = NextRecord(n, s)
  BY NewRecordsParts
<1>2. \A n \in DOMAIN NewRecords(s) : n \in Outputs /\ NewRecords(s)[n] \in Records
  BY <1>1, PartialParts
<1>3. Confirmed(s) \in SUBSET Outputs /\ Confirmed(s) \subseteq DOMAIN NewRecords(s)
  BY <1>1, <1>2 DEF Confirmed
<1>4. Named(s) \in SUBSET Identities
  BY <1>2, <1>3, IdentityParts DEF Named
<1>5. ASSUME NEW n, NEW t, NEW g, NEW v, <<n, t, g, v>> \in Named(s)
      PROVE  /\ n \in Confirmed(s)
             /\ n \in DOMAIN s.current /\ n \in DOMAIN NewRecords(s)
             /\ t = NewRecords(s)[n].token /\ g = NewRecords(s)[n].generation
             /\ v = NewRecords(s)[n].revision
  <2>1. PICK m \in Confirmed(s) : <<n, t, g, v>> = Identity(m, NewRecords(s)[m])
    BY <1>5 DEF Named
  <2>2. m \in Outputs /\ NewRecords(s)[m] \in Records
    BY <1>2, <1>3
  <2>3. m = n /\ t = NewRecords(s)[m].token /\ g = NewRecords(s)[m].generation
        /\ v = NewRecords(s)[m].revision
    BY <2>1 DEF Identity
  <2> QED BY <2>1, <2>3, <1>1, <1>3
<1>6. ASSUME NEW n \in Confirmed(s), Identity(n, NewRecords(s)[n]) \in feedback.announced
      PROVE  FALSE
  <2> DEFINE r == NewRecords(s)[n]
  <2>1. n \in Outputs /\ r \in Records /\ r = NextRecord(n, s)
    BY <1>1, <1>2, <1>3
  <2>2. r.token \in Nat /\ r.generation \in Nat /\ r.revision \in Nat
    BY <2>1, RecordParts
  <2>3. <<n, r.token, r.generation, r.revision>> \in feedback.announced
    BY <1>6 DEF Identity
  <2>4. n \in DOMAIN s.current /\ n \in DOMAIN adapter.records /\ IsConfirmed(n, s)
    BY DEF Confirmed
  <2>5. IsChanged(n, s)
    BY <2>4 DEF IsConfirmed, IsChanged
  <2> HIDE DEF r
  <2>6. /\ r.token <= adapter.minted[n]
        /\ n \in DOMAIN adapter.records => NotAfter(r.token, r.generation, r.revision, adapter.records[n])
        /\ n \in DOMAIN adapter.retiredSources
           => NotAfterSource(r.token, r.generation, adapter.retiredSources[n])
    BY <2>1, <2>2, <2>3 DEF Ordered
  <2>7. After(r.token, r.generation, r.revision, r)
    BY <2>1, <2>2, <2>4, <2>5, <2>6, NextRecordParts
  <2> QED BY <2>7 DEF After
<1>7. Named(s) \cap feedback.announced = {}
  BY <1>6 DEF Named
<1> QED BY <1>4, <1>5, <1>7
(* The order of what was announced is kept.                                 *)
Redrawn(a, s) == [a EXCEPT !.snapshot = s, !.records = NewRecords(s),
                        !.retiredSources = NewSources(s), !.minted = NewMinted(s)]
Announcing(s) == [feedback EXCEPT !.held = NewHeld(s), !.announced = @ \cup Named(s)]

LEMMA RedrawnParts ==
    ASSUME adapter \in AdapterStates, NEW s \in Snapshots, NEW a \in AdapterStates
    PROVE  /\ Redrawn(a, s) \in AdapterStates /\ Redrawn(a, s).snapshot = s
           /\ Redrawn(a, s).records = NewRecords(s) /\ Redrawn(a, s).retiredSources = NewSources(s)
           /\ Redrawn(a, s).minted = NewMinted(s)
           /\ SameControl(Redrawn(a, s), a)
<1>1. NewRecords(s) \in Partial(Outputs, Records)
  BY NewRecordsParts
<1>2. NewSources(s) \in Partial(Outputs, Sources)
  BY NewSourcesParts
<1>3. NewMinted(s) \in [Outputs -> Nat]
  BY NewMintedParts
<1> QED BY <1>1, <1>2, <1>3 DEF Redrawn, AdapterStates, SameControl

LEMMA AnnouncingParts ==
    ASSUME adapter \in AdapterStates, feedback \in Feedbacks, ShowSound(adapter, feedback),
           NEW s \in Snapshots
    PROVE  /\ Announcing(s) \in Feedbacks /\ Announcing(s).switched = feedback.switched
           /\ Announcing(s).wrong = feedback.wrong /\ Announcing(s).held = NewHeld(s)
           /\ Announcing(s).announced = feedback.announced \cup Named(s)
<1>1. NewHeld(s) \in Partial(Outputs, Identities)
  BY NewHeldParts DEF ShowSound
<1>2. Named(s) \in SUBSET Identities
  BY NamedParts DEF ShowSound
<1>3. feedback.announced \in SUBSET Identities
  BY DEF Feedbacks
<1>4. feedback.announced \cup Named(s) \in SUBSET Identities
  BY <1>2, <1>3
<1> DEFINE all == feedback.announced \cup Named(s)
<1>5. Announcing(s) = [feedback EXCEPT !.held = NewHeld(s), !.announced = all]
  BY DEF Announcing
<1>6. all \in SUBSET Identities
  BY <1>4
<1> HIDE DEF all
<1>7. /\ Announcing(s) \in Feedbacks /\ Announcing(s).switched = feedback.switched
      /\ Announcing(s).wrong = feedback.wrong /\ Announcing(s).held = NewHeld(s)
      /\ Announcing(s).announced = all
  BY <1>1, <1>5, <1>6 DEF Feedbacks
<1> QED BY <1>7 DEF all

LEMMA RedrawnSound ==
    ASSUME adapter \in AdapterStates, feedback \in Feedbacks, ShowSound(adapter, feedback),
           NEW s \in Snapshots, NEW a \in AdapterStates
    PROVE  ShowSound(Redrawn(a, s), Announcing(s))
<1> DEFINE b == Redrawn(a, s)
           f == Announcing(s)
           R == NewRecords(s)
           Q == NewSources(s)
           M == NewMinted(s)
<1>0. Minted(adapter) /\ Ordered(adapter, feedback) /\ Resolved(adapter, feedback)
  BY DEF ShowSound
<1>1. b.records = R /\ b.retiredSources = Q /\ b.minted = M
  BY RedrawnParts
<1>2. f.held = NewHeld(s) /\ f.announced = feedback.announced \cup Named(s) /\ f.wrong = feedback.wrong
  BY AnnouncingParts
<1>3. /\ \A n \in Outputs : adapter.minted[n] <= M[n]
      /\ \A n \in DOMAIN R : n \in Outputs /\ R[n].token <= M[n]
  BY NewMintedParts
<1>m. \A n \in Outputs : adapter.minted[n] \in Nat /\ M[n] \in Nat
  BY AdapterParts, NewMintedParts
<1>4. /\ \A n \in DOMAIN Q :
           \/ /\ n \in DOMAIN adapter.records
              /\ Q[n].token = adapter.records[n].token
              /\ Q[n].generation = adapter.records[n].generation
           \/ n \in DOMAIN adapter.retiredSources /\ Q[n] = adapter.retiredSources[n]
      /\ \A n \in DOMAIN Q : n \notin DOMAIN s.current
  BY NewSourcesParts
<1>q. Q \in Partial(Outputs, Sources)
  BY NewSourcesParts
<1>5. \A n \in DOMAIN Q : n \in Outputs /\ Q[n].token \in Nat /\ Q[n].generation \in Nat
  <2> HIDE DEF Q
  <2>1. \A n \in DOMAIN Q : n \in Outputs /\ Q[n] \in Sources
    BY <1>q, PartialParts
  <2> QED BY <2>1 DEF Sources
<1>6. DOMAIN R = DOMAIN s.current /\ \A n \in DOMAIN s.current : R[n] = NextRecord(n, s)
  BY NewRecordsParts
<1>r. R \in Partial(Outputs, Records)
  BY NewRecordsParts
<1>7. \A n \in DOMAIN R : R[n] \in Records
  BY <1>r, PartialParts
<1>8. Resolved(b, f)
  <2>1. \A n \in DOMAIN NewHeld(s) :
           n \in DOMAIN R /\ R[n].presented /\ Identity(n, R[n]) = NewHeld(s)[n]
    BY <1>0, NewHeldParts
  <2> HIDE DEF R, b, f
  <2> QED BY <1>0, <1>1, <1>2, <2>1 DEF Resolved
<1>9. /\ \A n, t, g, v : <<n, t, g, v>> \in Named(s)
             => /\ n \in DOMAIN s.current /\ n \in DOMAIN R
                /\ t = R[n].token /\ g = R[n].generation /\ v = R[n].revision
  BY <1>0, NamedParts
<1>k. \A n \in DOMAIN adapter.records : adapter.records[n] \in Records
  BY AdapterParts, PartialParts
<1>l. \A n \in DOMAIN adapter.retiredSources : adapter.retiredSources[n] \in Sources
  BY AdapterParts, PartialParts
<1> HIDE DEF b, f, R, Q, M
<1>10. Minted(b)
  <2>1. ASSUME NEW n \in DOMAIN Q PROVE Q[n].token <= M[n]
    <3>1. Q[n].token <= adapter.minted[n]
      BY <1>0, <1>4 DEF Minted
    <3> QED BY <3>1, <1>3, <1>5, <1>m
  <2> QED BY <1>1, <1>3, <2>1 DEF Minted
<1>11. Ordered(b, f)
  <2>1. SUFFICES ASSUME NEW n \in Outputs, NEW t \in Nat, NEW g \in Nat, NEW v \in Nat,
                        <<n, t, g, v>> \in f.announced
                 PROVE  /\ t <= M[n]
                        /\ n \in DOMAIN R => NotAfter(t, g, v, R[n])
                        /\ n \in DOMAIN Q => NotAfterSource(t, g, Q[n])
    BY <1>1 DEF Ordered
  <2>2. CASE <<n, t, g, v>> \in feedback.announced
    <3>1. /\ t <= adapter.minted[n]
          /\ n \in DOMAIN adapter.records => NotAfter(t, g, v, adapter.records[n])
          /\ n \in DOMAIN adapter.retiredSources => NotAfterSource(t, g, adapter.retiredSources[n])
      BY <1>0, <2>2 DEF Ordered
    <3>2. t <= M[n]
      BY <3>1, <1>3, <1>m
    <3>3. n \in DOMAIN R => NotAfter(t, g, v, R[n])
      BY <3>1, <1>6, NextRecordParts
    <3>4. ASSUME n \in DOMAIN Q PROVE NotAfterSource(t, g, Q[n])
      <4>1. CASE /\ n \in DOMAIN adapter.records
                 /\ Q[n].token = adapter.records[n].token
                 /\ Q[n].generation = adapter.records[n].generation
        <5>1. NotAfter(t, g, v, adapter.records[n])
          BY <3>1, <4>1
        <5>2. adapter.records[n].generation \in Nat
          BY <4>1, <1>k, RecordParts
        <5> QED BY <5>1, <5>2, <4>1 DEF NotAfter, NotAfterSource
      <4>2. CASE n \in DOMAIN adapter.retiredSources /\ Q[n] = adapter.retiredSources[n]
        BY <3>1, <4>2
      <4> QED BY <3>4, <4>1, <4>2, <1>4
    <3> QED BY <3>2, <3>3, <3>4
  <2>3. CASE <<n, t, g, v>> \in Named(s)
    <3>1. n \in DOMAIN R /\ n \in DOMAIN s.current
          /\ t = R[n].token /\ g = R[n].generation /\ v = R[n].revision
      BY <2>3, <1>9
    <3>2. n \notin DOMAIN Q
      BY <3>1, <1>4
    <3>3. NotAfter(t, g, v, R[n])
      BY <3>1 DEF NotAfter
    <3> QED BY <3>1, <3>2, <3>3, <1>3
  <2> QED BY <2>1, <2>2, <2>3, <1>2
<1> QED BY <1>8, <1>10, <1>11 DEF ShowSound, b, f

LEMMA ShowsSound ==
    ASSUME adapter \in AdapterStates, feedback \in Feedbacks, ShowSound(adapter, feedback),
           "not a switch" \notin feedback.wrong, NEW s \in Snapshots, Real(s, feedback.switched),
           NEW a \in AdapterStates, Draws(a), Shows(a, s)
    PROVE  Displayed(a, s)
<1>1. CASE s = a.snapshot
  <2>1. adapter' = a /\ feedback' = feedback
    BY <1>1 DEF Shows
  <2>2. ShowSound(a, feedback)
    BY ShowSoundDraws
  <2> QED BY <1>1, <2>1, <2>2 DEF Displayed, SameControl
<1>2. CASE s # a.snapshot
  <2>1. ApplySnapshot(a, s)
    BY <1>2 DEF Shows
  <2>2. adapter' = Redrawn(a, s)
    <3>1. adapter' = [a EXCEPT
             !.snapshot = s, !.records = NewRecords(s),
             !.retiredSources = Over([n \in DOMAIN a.records \ DOMAIN s.current |->
                                          [token |-> a.records[n].token,
                                           generation |-> a.records[n].generation]],
                                     Omit(a.retiredSources, DOMAIN s.current)),
             !.minted = [n \in Outputs |-> IF n \in DOMAIN NewRecords(s)
                                               /\ NewRecords(s)[n].token > a.minted[n]
                                           THEN NewRecords(s)[n].token ELSE a.minted[n]]]
      BY <2>1 DEF ApplySnapshot, NewRecords
    <3>2. Over([n \in DOMAIN a.records \ DOMAIN s.current |->
                    [token |-> a.records[n].token, generation |-> a.records[n].generation]],
               Omit(a.retiredSources, DOMAIN s.current)) = NewSources(s)
      BY DEF NewSources, Retiring, Removed, Draws
    <3>3. [n \in Outputs |-> IF n \in DOMAIN NewRecords(s) /\ NewRecords(s)[n].token > a.minted[n]
                             THEN NewRecords(s)[n].token ELSE a.minted[n]] = NewMinted(s)
      BY DEF NewMinted, Draws
    <3> QED BY <3>1, <3>2, <3>3 DEF Redrawn
  <2>3. feedback' = [feedback EXCEPT
           !.held = NewHeld(s), !.announced = @ \cup Named(s),
           !.wrong = @ \cup (IF Named(s) \cap feedback.announced = {} THEN {} ELSE {"named before"})
                       \cup (IF \A n \in Confirmed(s) : <<n, s.current[n]>> \in feedback.switched
                             THEN {} ELSE {"not a switch"})]
    BY <2>1 DEF ApplySnapshot, NewHeld, Naming, Named, Confirmed, Ended, NewRecords, Draws
  <2>4. Named(s) \cap feedback.announced = {}
    BY NamedParts DEF ShowSound
  <2>5. \A n \in Confirmed(s) : <<n, s.current[n]>> \in feedback.switched
    BY DEF Confirmed, IsConfirmed, Real
  <2>6. feedback' = [feedback EXCEPT !.held = NewHeld(s), !.announced = @ \cup Named(s),
                                     !.wrong = feedback.wrong]
    BY <2>3, <2>4, <2>5
  <2>7. feedback' = Announcing(s)
    BY <2>6 DEF Announcing, Feedbacks
  <2> QED BY <2>2, <2>7, RedrawnParts, AnnouncingParts, RedrawnSound DEF Displayed
<1> QED BY <1>1, <1>2
-----------------------------------------------------------------------------
(* The adapter's handlers.                                                  *)
LEMMA RetireParts ==
    ASSUME NEW a \in AdapterStates, IsFiniteSet(a.retired)
    PROVE  /\ RetireActiveHelperEpoch(a) \in AdapterStates
           /\ IsFiniteSet(RetireActiveHelperEpoch(a).retired)
           /\ RetireActiveHelperEpoch(a).epoch = None
           /\ RetireActiveHelperEpoch(a).snapshot = a.snapshot
           /\ RetireActiveHelperEpoch(a).records = a.records
           /\ RetireActiveHelperEpoch(a).retiredSources = a.retiredSources
           /\ RetireActiveHelperEpoch(a).minted = a.minted
           /\ RetireActiveHelperEpoch(a).attempts = a.attempts
           /\ RetireActiveHelperEpoch(a).shutdown = a.shutdown
<1> DEFINE more == a.retired \cup ({a.epoch} \ {None})
           b == [a EXCEPT !.watchdog = FALSE, !.retired = more, !.epoch = None,
                          !.pendingReady = None, !.ready = FALSE]
<1>1. RetireActiveHelperEpoch(a) = b
  BY DEF RetireActiveHelperEpoch
<1>2. a.retired \in SUBSET Nat /\ a.epoch \in Nat
  BY AdapterParts
<1>3. more \in SUBSET Nat
  BY <1>2
<1>4. IsFiniteSet({a.epoch})
  BY FS_Singleton
<1>5. IsFiniteSet({a.epoch} \ {None})
  BY <1>4, FS_Subset
<1>6. IsFiniteSet(more)
  BY <1>5, FS_Union
<1> HIDE DEF more
<1>7. /\ b \in AdapterStates /\ b.retired = more /\ b.epoch = None /\ b.snapshot = a.snapshot
      /\ b.records = a.records /\ b.retiredSources = a.retiredSources /\ b.minted = a.minted
      /\ b.attempts = a.attempts /\ b.shutdown = a.shutdown
  BY <1>3 DEF AdapterStates, None
<1> HIDE DEF b
<1> QED BY <1>1, <1>6, <1>7

(* What an action of the adapter alone keeps.                               *)
LEMMA AdapterKeeps ==
    ASSUME DesktopInv, UNCHANGED <<kwin, scripts, kwinWire>>,
           observer' \in Observers, lines' \in Pipes,
           adapter' \in AdapterStates, IsFiniteSet(adapter'.retired), feedback' \in Feedbacks,
           feedback'.switched = feedback.switched, "not a switch" \notin feedback'.wrong,
           ShowSound(adapter', feedback'), LinesReal(lines'.out, feedback.switched),
           HelperSound(observer', adapter', lines'),
           Follows(observer', kwinWire, scripts, kwin)
    PROVE  DesktopInv'
<1>1. DesktopTypeOK /\ AllReal(kwinWire, lines.out, scripts, feedback)
  BY InvParts
<1>2. DesktopTypeOK'
  BY <1>1, TypeParts DEF DesktopTypeOK
<1>3. AllReal(kwinWire, lines.out, scripts, feedback)'
  BY <1>1, AllRealParts DEF AllReal
<1> QED BY <1>2, <1>3 DEF DesktopInv

LEMMA AdapterOnlyKeeps ==
    ASSUME DesktopInv, UNCHANGED <<kwin, scripts, kwinWire, observer, lines>>,
           adapter' \in AdapterStates, IsFiniteSet(adapter'.retired), feedback' \in Feedbacks,
           feedback'.switched = feedback.switched, "not a switch" \notin feedback'.wrong,
           ShowSound(adapter', feedback'), HelperSound(observer, adapter', lines)
    PROVE  DesktopInv'
<1>1. /\ DesktopTypeOK /\ AllReal(kwinWire, lines.out, scripts, feedback)
      /\ Follows(observer, kwinWire, scripts, kwin)
  BY InvParts
<1>2. observer' = observer /\ lines' = lines
  OBVIOUS
<1>3. observer \in Observers /\ lines \in Pipes /\ LinesReal(lines.out, feedback.switched)
  BY <1>1, TypeParts, AllRealParts
<1> QED BY <1>1, <1>2, <1>3, AdapterKeeps

LEMMA KnownParts ==
    ASSUME DesktopInv
    PROVE  /\ adapter \in AdapterStates /\ IsFiniteSet(adapter.retired) /\ feedback \in Feedbacks
           /\ observer \in Observers /\ lines \in Pipes /\ lines.out \in Seq(Lines)
           /\ ShowSound(adapter, feedback) /\ "not a switch" \notin feedback.wrong
           /\ LinesReal(lines.out, feedback.switched)
           /\ Watched(observer, adapter) /\ NotRunning(observer, adapter, lines)
           /\ Heard(observer, adapter, lines.out)
           /\ Follows(observer, kwinWire, scripts, kwin)
<1>1. adapter \in AdapterStates /\ IsFiniteSet(adapter.retired) /\ feedback \in Feedbacks
      /\ observer \in Observers /\ lines \in Pipes
  BY InvParts, TypeParts
<1>2. lines.out \in Seq(Lines)
  BY <1>1 DEF Pipes
<1>3. "not a switch" \notin feedback.wrong /\ LinesReal(lines.out, feedback.switched)
  BY InvParts, AllRealParts
<1>4. Watched(observer, adapter) /\ NotRunning(observer, adapter, lines)
      /\ Heard(observer, adapter, lines.out)
  BY InvParts, HelperSoundParts
<1> QED BY <1>1, <1>2, <1>3, <1>4, InvParts

LEMMA HelperStartedKeeps ==
    ASSUME DesktopInv, HandleHelperStarted
    PROVE  DesktopInv'
<1> DEFINE e == Unused(adapter.retired \cup {adapter.epoch})
<1>1. /\ observer.state = "off"
      /\ observer' = [Off EXCEPT !.state = "starting", !.epoch = e]
      /\ adapter' = [adapter EXCEPT !.accepting = TRUE, !.ready = FALSE, !.pendingReady = None,
                                    !.watchdog = TRUE]
      /\ UNCHANGED <<kwin, scripts, kwinWire, lines, feedback, desktopEvents>>
  BY DEF HandleHelperStarted
<1>2. /\ adapter \in AdapterStates /\ IsFiniteSet(adapter.retired) /\ feedback \in Feedbacks
      /\ observer \in Observers /\ lines \in Pipes
      /\ ShowSound(adapter, feedback) /\ "not a switch" \notin feedback.wrong
      /\ LinesReal(lines.out, feedback.switched)
      /\ NotRunning(observer, adapter, lines)
      /\ Follows(observer, kwinWire, scripts, kwin)
  BY KnownParts
<1>3. IsFiniteSet(adapter.retired \cup {adapter.epoch})
  BY <1>2, FS_Singleton, FS_Union
<1>4. e \in Nat \ {0} /\ e \notin adapter.retired
  BY <1>3, UnusedFresh
<1> HIDE DEF e
<1>5. /\ observer' \in Observers /\ observer'.state = "starting" /\ observer'.epoch = e
      /\ observer'.owner = None /\ observer'.generation = None /\ ~observer'.timer
      /\ observer'.last = <<>>
  BY <1>1, <1>2, <1>4, EndedParts
<1>6. /\ adapter' \in AdapterStates /\ adapter'.retired = adapter.retired /\ adapter'.epoch = adapter.epoch
      /\ adapter'.accepting /\ adapter'.watchdog /\ adapter'.shutdown = adapter.shutdown
      /\ Draws(adapter')
  BY <1>1, <1>2 DEF AdapterStates, None, Draws
<1>7. ShowSound(adapter', feedback)
  BY <1>2, <1>6, ShowSoundDraws
<1>8. lines.out = <<>> /\ lines.ready = None /\ (adapter.shutdown = "no" => adapter.epoch = None)
  BY <1>1, <1>2 DEF NotRunning
<1>9. HelperSound(observer', adapter', lines)
  <2>1. Watched(observer', adapter')
    BY <1>5, <1>6 DEF Watched
  <2>2. NotRunning(observer', adapter', lines)
    BY <1>5 DEF NotRunning
  <2>3. adapter'.shutdown = "no" => Listening(observer', adapter')
    BY <1>4, <1>5, <1>6, <1>8 DEF Listening, None
  <2>4. Streams(observer', adapter', lines.out)
    <3>1. Len(lines.out) = 0
      BY <1>8
    <3> QED BY <3>1, <1>5 DEF Streams
  <2>5. Heard(observer', adapter', lines.out)
    BY <2>3, <2>4 DEF Heard
  <2> QED BY <2>1, <2>2, <2>5, HelperSoundParts
<1>10. Follows(observer', kwinWire, scripts, kwin)
  <2>1. DOMAIN scripts = {} /\ OwnerComes(kwinWire, kwin.owner)
    BY <1>1, <1>2, FollowsParts DEF NoScripts
  <2> QED BY <1>5, <2>1, GoneFollows
<1>11. feedback' = feedback /\ lines' = lines
  BY <1>1
<1> QED BY <1>1, <1>2, <1>5, <1>6, <1>7, <1>9, <1>10, <1>11, AdapterKeeps

(* The helper has ended, or did not start.                                  *)
LEMMA HelperExitSound ==
    ASSUME DesktopInv, HandleHelperExit(adapter)
    PROVE  /\ adapter' \in AdapterStates /\ IsFiniteSet(adapter'.retired)
           /\ feedback' \in Feedbacks /\ feedback'.switched = feedback.switched
           /\ "not a switch" \notin feedback'.wrong /\ ShowSound(adapter', feedback')
           /\ adapter'.epoch = None /\ ~adapter'.accepting
           /\ adapter'.restart \/ adapter'.attempts = 3
<1> DEFINE again == adapter.attempts < 3
           R == RetireActiveHelperEpoch(adapter)
           more == IF again THEN R.attempts + 1 ELSE R.attempts
           b == [R EXCEPT !.accepting = FALSE, !.shouldRun = FALSE, !.attempts = more, !.restart = again]
<1>2. /\ adapter \in AdapterStates /\ IsFiniteSet(adapter.retired) /\ feedback \in Feedbacks
      /\ ShowSound(adapter, feedback) /\ "not a switch" \notin feedback.wrong
  BY KnownParts
<1>3. /\ R \in AdapterStates /\ IsFiniteSet(R.retired) /\ R.epoch = None /\ R.attempts = adapter.attempts
      /\ Draws(R)
  BY <1>2, RetireParts DEF Draws
<1>4. adapter.attempts \in 0..3
  BY <1>2, AdapterParts
<1>5. more \in 0..3 /\ again \in BOOLEAN /\ (~again => more = 3)
  BY <1>3, <1>4
<1>6. Shows(b, Unavailable)
  BY DEF HandleHelperExit
<1> HIDE DEF R, more, again
<1>7. /\ b \in AdapterStates /\ b.retired = R.retired /\ b.epoch = None /\ ~b.accepting
      /\ b.restart = again /\ b.attempts = more /\ Draws(b)
  BY <1>3, <1>5 DEF AdapterStates, Draws
<1> HIDE DEF b
<1>8. Displayed(b, Unavailable)
  BY <1>2, <1>6, <1>7, ShowsSound, UnavailableParts, UnavailableIsReal
<1> QED BY <1>3, <1>5, <1>7, <1>8 DEF Displayed, SameControl

LEMMA HelperFailsToStartKeeps ==
    ASSUME DesktopInv, HelperFailsToStart
    PROVE  DesktopInv'
<1>1. observer.state = "off" /\ HandleHelperExit(adapter)
      /\ UNCHANGED <<kwin, scripts, kwinWire, observer, lines>>
  BY DEF HelperFailsToStart
<1>2. /\ adapter' \in AdapterStates /\ IsFiniteSet(adapter'.retired)
      /\ feedback' \in Feedbacks /\ feedback'.switched = feedback.switched
      /\ "not a switch" \notin feedback'.wrong /\ ShowSound(adapter', feedback')
      /\ adapter'.epoch = None /\ ~adapter'.accepting
      /\ adapter'.restart \/ adapter'.attempts = 3
  BY <1>1, HelperExitSound
<1>3. NotRunning(observer, adapter, lines)
  BY KnownParts
<1>4. HelperSound(observer, adapter', lines)
  BY <1>1, <1>2, <1>3 DEF HelperSound, Watched, NotRunning, Heard
<1> QED BY <1>1, <1>2, <1>4, AdapterOnlyKeeps

LEMMA ExitedKeeps ==
    ASSUME DesktopInv, OnExited
    PROVE  DesktopInv'
<1>1. /\ observer.state = "dead" /\ lines.out = <<>> /\ lines.ready = None /\ observer' = Off
      /\ UNCHANGED <<kwin, scripts, kwinWire, lines>>
  BY DEF OnExited
<1>2. /\ adapter \in AdapterStates /\ IsFiniteSet(adapter.retired) /\ feedback \in Feedbacks
      /\ ShowSound(adapter, feedback) /\ "not a switch" \notin feedback.wrong /\ lines \in Pipes
      /\ LinesReal(lines.out, feedback.switched)
      /\ Follows(observer, kwinWire, scripts, kwin)
  BY KnownParts
<1>3. Follows(observer', kwinWire, scripts, kwin)
  <2>1. DOMAIN scripts = {} /\ OwnerComes(kwinWire, kwin.owner)
    BY <1>1, <1>2, FollowsParts DEF NoScripts
  <2> QED BY <1>1, <2>1, GoneFollows, OffParts
<1>4. observer' \in Observers /\ observer'.state = "off" /\ lines' = lines
  BY <1>1, OffParts
<1>5. CASE adapter.shutdown = "no"
  <2>1. HandleHelperExit(adapter)
    BY <1>5 DEF OnExited
  <2>2. /\ adapter' \in AdapterStates /\ IsFiniteSet(adapter'.retired)
        /\ feedback' \in Feedbacks /\ feedback'.switched = feedback.switched
        /\ "not a switch" \notin feedback'.wrong /\ ShowSound(adapter', feedback')
        /\ adapter'.epoch = None /\ ~adapter'.accepting
        /\ adapter'.restart \/ adapter'.attempts = 3
    BY <2>1, HelperExitSound
  <2>3. HelperSound(observer', adapter', lines)
    BY <1>1, <1>4, <2>2 DEF HelperSound, Watched, NotRunning, Heard
  <2> QED BY <1>1, <1>2, <1>3, <1>4, <2>2, <2>3, AdapterKeeps
<1>6. CASE adapter.shutdown # "no"
  <2>1. adapter' = [adapter EXCEPT !.shouldRun = FALSE, !.shutdown = "over"] /\ feedback' = feedback
    BY <1>6 DEF OnExited
  <2>2. adapter' \in AdapterStates /\ adapter'.retired = adapter.retired /\ adapter'.shutdown = "over"
        /\ Draws(adapter')
    BY <2>1, <1>2 DEF AdapterStates, Draws
  <2>3. ShowSound(adapter', feedback)
    BY <2>2, <1>2, ShowSoundDraws
  <2>4. HelperSound(observer', adapter', lines)
    BY <1>1, <2>2 DEF HelperSound, Watched, NotRunning, Heard
  <2> QED BY <1>1, <1>2, <1>3, <1>4, <2>1, <2>2, <2>3, <2>4, AdapterKeeps
<1> QED BY <1>5, <1>6
LEMMA RestartTimerKeeps ==
    ASSUME DesktopInv, OnRestartTimer
    PROVE  DesktopInv'
<1>1. /\ adapter' = [adapter EXCEPT !.restart = FALSE, !.shouldRun = TRUE]
      /\ UNCHANGED <<kwin, scripts, kwinWire, observer, lines, feedback>>
  BY DEF OnRestartTimer
<1>2. /\ adapter \in AdapterStates /\ IsFiniteSet(adapter.retired) /\ feedback \in Feedbacks
      /\ ShowSound(adapter, feedback) /\ "not a switch" \notin feedback.wrong
      /\ Watched(observer, adapter) /\ NotRunning(observer, adapter, lines)
      /\ Heard(observer, adapter, lines.out)
  BY KnownParts
<1>3. /\ adapter' \in AdapterStates /\ adapter'.retired = adapter.retired /\ adapter'.epoch = adapter.epoch
      /\ adapter'.accepting = adapter.accepting /\ adapter'.watchdog = adapter.watchdog
      /\ adapter'.ready = adapter.ready /\ adapter'.shutdown = adapter.shutdown
      /\ adapter'.shouldRun /\ Draws(adapter')
  BY <1>1, <1>2 DEF AdapterStates, Draws
<1>4. ShowSound(adapter', feedback)
  BY <1>2, <1>3, ShowSoundDraws
<1>5. HelperSound(observer, adapter', lines)
  <2>1. Watched(observer, adapter') /\ NotRunning(observer, adapter', lines)
    BY <1>2, <1>3 DEF Watched, NotRunning
  <2>2. adapter'.snapshot = adapter.snapshot
    BY <1>3 DEF Draws
  <2>3. Heard(observer, adapter', lines.out)
    BY <1>2, <1>3, <2>2 DEF Heard, Listening, Streams
  <2> QED BY <2>1, <2>3, HelperSoundParts
<1> QED BY <1>1, <1>2, <1>3, <1>4, <1>5, AdapterOnlyKeeps

(* Ready, as of an epoch.                                                   *)
LEMMA ReadyParts ==
    ASSUME NEW a \in AdapterStates
    PROVE  /\ MarkHelperReady(a) \in AdapterStates /\ MarkHelperReady(a).ready
           /\ MarkHelperReady(a).retired = a.retired /\ MarkHelperReady(a).epoch = a.epoch
           /\ MarkHelperReady(a).accepting = a.accepting
           /\ MarkHelperReady(a).shutdown = a.shutdown
           /\ Draws(a) => Draws(MarkHelperReady(a))
<1> DEFINE n == IF a.ready THEN a.attempts ELSE 0
           b == [a EXCEPT !.watchdog = FALSE, !.ready = TRUE, !.attempts = n]
<1>1. MarkHelperReady(a) = b
  BY DEF MarkHelperReady
<1>2. n \in 0..3
  BY AdapterParts
<1> HIDE DEF n
<1>3. /\ b \in AdapterStates /\ b.ready /\ b.retired = a.retired /\ b.epoch = a.epoch
      /\ b.accepting = a.accepting /\ b.shutdown = a.shutdown
      /\ b.snapshot = a.snapshot /\ b.records = a.records
      /\ b.retiredSources = a.retiredSources /\ b.minted = a.minted
  BY <1>2 DEF AdapterStates
<1> HIDE DEF b
<1> QED BY <1>1, <1>3 DEF Draws

LEMMA AdoptParts ==
    ASSUME adapter \in AdapterStates, NEW e \in Nat
    PROVE  /\ AdoptEpoch(e) \in AdapterStates /\ Draws(AdoptEpoch(e))
           /\ adapter.ready \/ adapter.watchdog => AdoptEpoch(e).ready \/ AdoptEpoch(e).watchdog
           /\ AdoptEpoch(e).retired = adapter.retired
           /\ AdoptEpoch(e).accepting = adapter.accepting
           /\ AdoptEpoch(e).shutdown = adapter.shutdown
           /\ AdoptEpoch(e).epoch = IF adapter.epoch # None THEN adapter.epoch ELSE e
<1> DEFINE c == [adapter EXCEPT !.epoch = e, !.pendingReady = None]
<1>0. None \in Nat
  BY DEF None
<1>1. /\ c \in AdapterStates /\ Draws(c) /\ c.retired = adapter.retired /\ c.accepting = adapter.accepting
      /\ c.shutdown = adapter.shutdown /\ c.epoch = e /\ c.ready = adapter.ready
      /\ c.watchdog = adapter.watchdog
  BY <1>0 DEF AdapterStates, Draws
<1>2. AdoptEpoch(e) = IF adapter.epoch # None THEN adapter
                      ELSE IF adapter.pendingReady = e THEN MarkHelperReady(c) ELSE c
  BY DEF AdoptEpoch
<1> HIDE DEF c
<1>3. CASE adapter.epoch # None
  BY <1>2, <1>3 DEF Draws
<1>4. CASE adapter.epoch = None /\ adapter.pendingReady = e
  BY <1>1, <1>2, <1>4, ReadyParts
<1>5. CASE adapter.epoch = None /\ adapter.pendingReady # e
  BY <1>1, <1>2, <1>5
<1> QED BY <1>3, <1>4, <1>5

LEMMA ReadyLineKeeps ==
    ASSUME DesktopInv, AcceptHelperStderrLine
    PROVE  DesktopInv'
<1> DEFINE epoch == lines.ready
           heard == adapter.accepting /\ epoch \notin adapter.retired
           waits == [adapter EXCEPT !.pendingReady = epoch]
<1>1. /\ epoch # None
      /\ lines' = [lines EXCEPT !.ready = None]
      /\ UNCHANGED <<kwin, scripts, kwinWire, observer, feedback>>
  BY DEF AcceptHelperStderrLine
<1>a. \/ adapter' = waits
      \/ adapter' = MarkHelperReady(adapter)
      \/ adapter' = adapter
  <2>1. adapter' = CASE heard /\ adapter.epoch = None -> waits
                     [] heard /\ adapter.epoch = epoch -> MarkHelperReady(adapter)
                     [] OTHER -> adapter
    BY DEF AcceptHelperStderrLine
  <2> HIDE DEF waits, heard
  <2>2. ~((heard /\ adapter.epoch = None) /\ (heard /\ adapter.epoch = epoch))
    BY <1>1
  <2> QED BY <2>1, <2>2
<1>2. /\ adapter \in AdapterStates /\ IsFiniteSet(adapter.retired) /\ feedback \in Feedbacks
      /\ observer \in Observers /\ lines \in Pipes /\ lines.out \in Seq(Lines)
      /\ ShowSound(adapter, feedback) /\ "not a switch" \notin feedback.wrong
      /\ LinesReal(lines.out, feedback.switched)
      /\ Watched(observer, adapter) /\ NotRunning(observer, adapter, lines)
      /\ Heard(observer, adapter, lines.out)
      /\ Follows(observer, kwinWire, scripts, kwin)
  BY KnownParts
<1>3. epoch \in Nat
  BY <1>2 DEF Pipes
<1>4. /\ waits \in AdapterStates /\ waits.retired = adapter.retired /\ waits.epoch = adapter.epoch
      /\ waits.accepting = adapter.accepting /\ waits.shutdown = adapter.shutdown
      /\ waits.ready = adapter.ready /\ waits.watchdog = adapter.watchdog /\ Draws(waits)
  BY <1>2, <1>3 DEF AdapterStates, Draws
<1> HIDE DEF waits, epoch
<1>5. Draws(adapter)
  BY DEF Draws
<1>6. /\ adapter' \in AdapterStates /\ adapter'.retired = adapter.retired /\ adapter'.epoch = adapter.epoch
      /\ adapter'.accepting = adapter.accepting /\ adapter'.shutdown = adapter.shutdown
      /\ adapter.ready \/ adapter.watchdog => adapter'.ready \/ adapter'.watchdog
      /\ Draws(adapter')
  BY <1>a, <1>2, <1>4, <1>5, ReadyParts
<1>7. ShowSound(adapter', feedback)
  BY <1>2, <1>6, ShowSoundDraws
<1>8. lines' \in Pipes /\ lines'.out = lines.out
  BY <1>1, <1>2 DEF Pipes, None
<1>9. observer.state # "off"
  BY <1>1, <1>2 DEF NotRunning, epoch
<1>10. HelperSound(observer, adapter', lines')
  <2>1. Watched(observer, adapter') /\ NotRunning(observer, adapter', lines')
    BY <1>2, <1>6, <1>9 DEF Watched, NotRunning
  <2>2. adapter'.snapshot = adapter.snapshot
    BY <1>6 DEF Draws
  <2>3. Heard(observer, adapter', lines.out)
    BY <1>2, <1>6, <2>2 DEF Heard, Listening, Streams
  <2> QED BY <2>1, <2>3, <1>8, HelperSoundParts
<1>11. observer' = observer /\ feedback' = feedback /\ UNCHANGED <<kwin, scripts, kwinWire>>
  BY <1>1
<1> QED BY <1>2, <1>6, <1>7, <1>8, <1>10, <1>11, AdapterKeeps

LEMMA FirstLine ==
    ASSUME NEW W \in Seq(Lines), W # <<>>
    PROVE  /\ Tail(W) \in Seq(Lines) /\ Head(W) \in Lines /\ Head(W) = W[1]
           /\ Len(W) \in Nat /\ Len(W) >= 1 /\ 1 \in 1..Len(W)
           /\ Len(Tail(W)) = Len(W) - 1
           /\ \A i \in 1..Len(Tail(W)) : Tail(W)[i] = W[i + 1] /\ i + 1 \in 1..Len(W)
OBVIOUS

LEMMA SnapshotLineKeeps ==
    ASSUME DesktopInv, AcceptSnapshotLine
    PROVE  DesktopInv'
<1> DEFINE W == lines.out
           line == Head(W)
           T == Tail(W)
           b == AdoptEpoch(line.epoch)
           s == line.snapshot
<1>1. /\ W # <<>> /\ lines' = [lines EXCEPT !.out = T]
      /\ UNCHANGED <<kwin, scripts, kwinWire, observer>>
  BY DEF AcceptSnapshotLine
<1>a. \/ Shows(b, s)
      \/ /\ ~(/\ adapter.accepting
              /\ \/ adapter.epoch = line.epoch
                 \/ adapter.epoch = None /\ line.epoch \notin adapter.retired)
         /\ adapter' = adapter /\ feedback' = feedback
  BY Zenon DEF AcceptSnapshotLine
<1>2. /\ adapter \in AdapterStates /\ IsFiniteSet(adapter.retired) /\ feedback \in Feedbacks
      /\ observer \in Observers /\ lines \in Pipes /\ W \in Seq(Lines)
      /\ ShowSound(adapter, feedback) /\ "not a switch" \notin feedback.wrong
      /\ LinesReal(W, feedback.switched)
      /\ Watched(observer, adapter) /\ NotRunning(observer, adapter, lines)
      /\ Heard(observer, adapter, W)
      /\ Follows(observer, kwinWire, scripts, kwin)
  BY KnownParts
<1>3. /\ T \in Seq(Lines) /\ line \in Lines /\ line = W[1]
      /\ Len(W) \in Nat /\ Len(W) >= 1 /\ 1 \in 1..Len(W)
      /\ Len(T) = Len(W) - 1
      /\ \A i \in 1..Len(T) : T[i] = W[i + 1] /\ i + 1 \in 1..Len(W)
  BY <1>1, <1>2, FirstLine
<1>4. line.epoch \in Nat /\ s \in Snapshots
  BY <1>3 DEF Lines
<1>5. LinesReal(T, feedback.switched) /\ Real(s, feedback.switched)
  BY <1>1, <1>2, LinesRealKept
<1>6. observer.state # "off"
  BY <1>1, <1>2 DEF NotRunning
<1>7. lines' \in Pipes /\ lines'.out = T
  BY <1>1, <1>2, <1>3 DEF Pipes
<1>8. /\ b \in AdapterStates /\ Draws(b)
      /\ adapter.ready \/ adapter.watchdog => b.ready \/ b.watchdog
      /\ b.retired = adapter.retired /\ b.accepting = adapter.accepting
      /\ b.shutdown = adapter.shutdown
      /\ b.epoch = IF adapter.epoch # None THEN adapter.epoch ELSE line.epoch
  BY <1>2, <1>4, AdoptParts
<1>9. observer.state \in {"starting", "running"} /\ adapter.shutdown = "no" =>
         /\ Listening(observer, adapter) /\ Streams(observer, adapter, W)
         /\ line.epoch = observer.epoch
  <2> HIDE DEF b, s, line, T, W
  <2>1. \A a : Streams(observer, a, W) => line.epoch = observer.epoch
    BY <1>3 DEF Streams
  <2> QED BY <1>2, <2>1 DEF Heard
<1>10. CASE Shows(b, s)
  <2>1. Displayed(b, s)
    BY <1>2, <1>4, <1>5, <1>8, <1>10, ShowsSound
  <2> HIDE DEF b, s, line, T, W
  <2>2. /\ adapter' \in AdapterStates /\ adapter'.snapshot = s
        /\ adapter'.retired = b.retired /\ adapter'.epoch = b.epoch
        /\ adapter'.accepting = b.accepting /\ adapter'.ready = b.ready
        /\ adapter'.watchdog = b.watchdog /\ adapter'.shutdown = b.shutdown
        /\ feedback' \in Feedbacks /\ feedback'.switched = feedback.switched
        /\ "not a switch" \notin feedback'.wrong /\ ShowSound(adapter', feedback')
    BY <2>1 DEF Displayed, SameControl
  <2>3. Watched(observer, adapter') /\ NotRunning(observer, adapter', lines')
    BY <1>2, <1>6, <1>8, <2>2 DEF Watched, NotRunning
  <2>4. ASSUME observer.state \in {"starting", "running"}, adapter'.shutdown = "no"
        PROVE  Listening(observer, adapter') /\ Streams(observer, adapter', T)
    <3>1. adapter.shutdown = "no"
      BY <2>4, <2>2, <1>8
    <3>2. /\ Listening(observer, adapter) /\ Streams(observer, adapter, W)
          /\ line.epoch = observer.epoch
      BY <1>9, <2>4, <3>1
    <3>3. Listening(observer, adapter')
      BY <3>2, <2>2, <1>8 DEF Listening
    <3>4. observer.last # <<>> /\ W[Len(W)].snapshot = observer.last
      BY <3>2, <1>3 DEF Streams
    <3>5. \A i \in 1..Len(T) : T[i].epoch = observer.epoch
      BY <3>2, <1>3 DEF Streams
    <3>6. Len(T) = 0 => s = observer.last
      <4>1. Len(T) = 0 => Len(W) = 1
        BY <1>3
      <4> QED BY <4>1, <3>4, <1>3 DEF s
    <3>7. Len(T) # 0 => T[Len(T)].snapshot = observer.last
      <4>1. Len(T) # 0 => Len(T) \in 1..Len(T) /\ Len(T) + 1 = Len(W)
        BY <1>3
      <4> QED BY <4>1, <3>4, <1>3
    <3> QED BY <3>3, <3>4, <3>5, <3>6, <3>7, <2>2 DEF Streams
  <2>5. Heard(observer, adapter', T)
    BY <2>4 DEF Heard
  <2>6. HelperSound(observer, adapter', lines')
    BY <2>3, <2>5, <1>7, HelperSoundParts
  <2>7. IsFiniteSet(adapter'.retired)
    BY <2>2, <1>8, <1>2
  <2>8. observer' = observer /\ UNCHANGED <<kwin, scripts, kwinWire>>
    BY <1>1
  <2> QED BY <1>2, <1>5, <1>7, <2>2, <2>6, <2>7, <2>8, AdapterKeeps
<1>11. CASE /\ ~(/\ adapter.accepting
                 /\ \/ adapter.epoch = line.epoch
                    \/ adapter.epoch = None /\ line.epoch \notin adapter.retired)
            /\ adapter' = adapter /\ feedback' = feedback
  <2> HIDE DEF b, s, line, T, W
  <2>1. ~(observer.state \in {"starting", "running"} /\ adapter.shutdown = "no")
    BY <1>9, <1>11 DEF Listening, None
  <2>2. Heard(observer, adapter, T)
    BY <2>1 DEF Heard
  <2>3. NotRunning(observer, adapter, lines')
    BY <1>6 DEF NotRunning
  <2>4. HelperSound(observer, adapter', lines')
    BY <1>2, <1>7, <1>11, <2>2, <2>3, HelperSoundParts
  <2>5. observer' = observer /\ UNCHANGED <<kwin, scripts, kwinWire>>
    BY <1>1
  <2> QED BY <1>2, <1>5, <1>7, <1>11, <2>4, <2>5, AdapterKeeps
<1> QED BY <1>a, <1>10, <1>11
(* The helper is given up while it runs: its epoch is retired and nothing   *)
(* it said is shown.                                                        *)
LEMMA GivenUpSound ==
    ASSUME DesktopInv, NEW b \in AdapterStates, IsFiniteSet(b.retired), Draws(b), Shows(b, Unavailable)
    PROVE  /\ adapter' \in AdapterStates /\ IsFiniteSet(adapter'.retired)
           /\ feedback' \in Feedbacks /\ feedback'.switched = feedback.switched
           /\ "not a switch" \notin feedback'.wrong /\ ShowSound(adapter', feedback')
           /\ adapter'.shutdown = b.shutdown
<1>1. /\ adapter \in AdapterStates /\ feedback \in Feedbacks
      /\ ShowSound(adapter, feedback) /\ "not a switch" \notin feedback.wrong
  BY KnownParts
<1>2. Displayed(b, Unavailable)
  BY <1>1, ShowsSound, UnavailableParts, UnavailableIsReal
<1> QED BY <1>2 DEF Displayed, SameControl

LEMMA ReadinessTimeoutKeeps ==
    ASSUME DesktopInv, HandleReadinessTimeout
    PROVE  DesktopInv'
<1> DEFINE R == RetireActiveHelperEpoch(adapter)
           b == [R EXCEPT !.accepting = FALSE]
<1>1. Shows(b, Unavailable) /\ ProcessEnds /\ UNCHANGED <<kwin, lines>>
  BY DEF HandleReadinessTimeout
<1>2. adapter \in AdapterStates /\ IsFiniteSet(adapter.retired)
  BY KnownParts
<1>3. R \in AdapterStates /\ IsFiniteSet(R.retired) /\ Draws(R)
  BY <1>2, RetireParts DEF Draws
<1> HIDE DEF R
<1>4. b \in AdapterStates /\ b.retired = R.retired /\ Draws(b)
  BY <1>3 DEF AdapterStates, Draws
<1> HIDE DEF b
<1>5. /\ adapter' \in AdapterStates /\ IsFiniteSet(adapter'.retired)
      /\ feedback' \in Feedbacks /\ feedback'.switched = feedback.switched
      /\ "not a switch" \notin feedback'.wrong /\ ShowSound(adapter', feedback')
  BY <1>1, <1>3, <1>4, GivenUpSound
<1> QED BY <1>1, <1>5, EndedKeeps

LEMMA DestructionKeeps ==
    ASSUME DesktopInv, OnDestruction
    PROVE  DesktopInv'
<1> DEFINE R == RetireActiveHelperEpoch(adapter)
           runs == observer.state # "off"
           how == IF observer.state = "off" THEN "over" ELSE "asked"
           b == [R EXCEPT !.accepting = FALSE, !.restart = FALSE, !.shouldRun = runs,
                          !.shutdown = how]
<1>1. Shows(b, Unavailable) /\ UNCHANGED <<kwin, scripts, kwinWire, observer, lines>>
  BY DEF OnDestruction
<1>2. adapter \in AdapterStates /\ IsFiniteSet(adapter.retired) /\ NotRunning(observer, adapter, lines)
  BY KnownParts
<1>3. R \in AdapterStates /\ IsFiniteSet(R.retired) /\ Draws(R)
  BY <1>2, RetireParts DEF Draws
<1>4. runs \in BOOLEAN /\ how \in {"over", "asked"}
  OBVIOUS
<1> HIDE DEF R, runs, how
<1>5. b \in AdapterStates /\ b.retired = R.retired /\ b.shutdown = how /\ Draws(b)
  BY <1>3, <1>4 DEF AdapterStates, Draws
<1> HIDE DEF b
<1>6. /\ adapter' \in AdapterStates /\ IsFiniteSet(adapter'.retired)
      /\ feedback' \in Feedbacks /\ feedback'.switched = feedback.switched
      /\ "not a switch" \notin feedback'.wrong /\ ShowSound(adapter', feedback')
      /\ adapter'.shutdown = how
  BY <1>1, <1>3, <1>5, GivenUpSound
<1>7. HelperSound(observer, adapter', lines)
  BY <1>2, <1>4, <1>6 DEF HelperSound, Watched, NotRunning, Heard
<1> QED BY <1>1, <1>6, <1>7, AdapterOnlyKeeps

LEMMA ReadCommandsKeeps ==
    ASSUME DesktopInv, ReadCommands
    PROVE  DesktopInv'
<1>1. ProcessEnds /\ UNCHANGED <<kwin, lines, adapter, feedback>>
  BY DEF ReadCommands
<1>2. /\ adapter \in AdapterStates /\ IsFiniteSet(adapter.retired) /\ feedback \in Feedbacks
      /\ ShowSound(adapter, feedback) /\ "not a switch" \notin feedback.wrong
  BY KnownParts
<1>3. adapter' = adapter /\ feedback' = feedback
  BY <1>1
<1> QED BY <1>1, <1>2, <1>3, EndedKeeps

LEMMA ShutdownTimerKeeps ==
    ASSUME DesktopInv, OnShutdownTimer
    PROVE  DesktopInv'
<1>1. adapter.shutdown # "no" /\ UNCHANGED <<kwin, lines, feedback>>
  BY DEF OnShutdownTimer
<1>2. /\ adapter \in AdapterStates /\ IsFiniteSet(adapter.retired) /\ feedback \in Feedbacks
      /\ ShowSound(adapter, feedback) /\ "not a switch" \notin feedback.wrong
      /\ NotRunning(observer, adapter, lines)
  BY KnownParts
<1>3. ASSUME NEW how \in {"terminated", "killed"}, adapter' = [adapter EXCEPT !.shutdown = how]
      PROVE  /\ adapter' \in AdapterStates /\ adapter'.retired = adapter.retired
             /\ adapter'.shutdown = how /\ ShowSound(adapter', feedback)
  <2>1. adapter' \in AdapterStates /\ adapter'.retired = adapter.retired /\ adapter'.shutdown = how
        /\ Draws(adapter')
    BY <1>2, <1>3 DEF AdapterStates, Draws
  <2> QED BY <2>1, <1>2, ShowSoundDraws
<1>4. CASE /\ adapter' = [adapter EXCEPT !.shutdown = "terminated"]
           /\ UNCHANGED <<scripts, kwinWire, observer>>
  <2>1. /\ adapter' \in AdapterStates /\ adapter'.retired = adapter.retired
        /\ adapter'.shutdown = "terminated" /\ ShowSound(adapter', feedback)
    BY <1>3, <1>4
  <2>2. HelperSound(observer, adapter', lines)
    BY <1>2, <2>1 DEF HelperSound, Watched, NotRunning, Heard
  <2>3. feedback' = feedback /\ UNCHANGED <<kwin, scripts, kwinWire, observer, lines>>
    BY <1>1, <1>4
  <2> QED BY <1>2, <2>1, <2>2, <2>3, AdapterOnlyKeeps
<1>5. CASE adapter' = [adapter EXCEPT !.shutdown = "killed"] /\ ProcessEnds
  <2>1. /\ adapter' \in AdapterStates /\ adapter'.retired = adapter.retired
        /\ ShowSound(adapter', feedback)
    BY <1>3, <1>5
  <2>2. feedback' = feedback /\ UNCHANGED <<kwin, lines>>
    BY <1>1
  <2> QED BY <1>2, <1>5, <2>1, <2>2, EndedKeeps
<1> QED BY <1>4, <1>5 DEF OnShutdownTimer
-----------------------------------------------------------------------------
(* The invariant.                                                           *)
LEMMA StutterKeeps ==
    ASSUME DesktopInv, UNCHANGED desktopVars
    PROVE  DesktopInv'
<1>1. UNCHANGED <<kwin, scripts, kwinWire, observer, lines, adapter, feedback>>
  BY DEF desktopVars
<1>2. /\ DesktopTypeOK
      /\ AllReal(kwinWire, lines.out, scripts, feedback)
      /\ ShowSound(adapter, feedback)
      /\ HelperSound(observer, adapter, lines)
      /\ Follows(observer, kwinWire, scripts, kwin)
  BY InvParts
<1>3. DesktopTypeOK'
  BY <1>1, <1>2 DEF DesktopTypeOK
<1> QED BY <1>1, <1>2, <1>3 DEF DesktopInv

LEMMA InitHolds ==
    ASSUME DesktopBounds, DesktopInit
    PROVE  DesktopInv
<1> DEFINE off == [n \in Outputs |-> 0]
           first == [n \in Outputs |-> 1]
<1>1. /\ kwin \in {[owner |-> owner, desktops |-> Desktops, current |-> first] : owner \in {None, 1}}
      /\ scripts = <<>> /\ kwinWire = <<>> /\ observer = Off
      /\ lines = [out |-> <<>>, ready |-> None]
      /\ feedback = [held |-> <<>>, announced |-> {}, switched |-> {}, wrong |-> {}]
  BY DEF DesktopInit
<1>2. PICK given \in BOOLEAN :
         adapter = [helperPath |-> given, shouldRun |-> given, accepting |-> FALSE, ready |-> FALSE,
                    attempts |-> 0, epoch |-> None, pendingReady |-> None, retired |-> {},
                    watchdog |-> FALSE, restart |-> FALSE, shutdown |-> "no",
                    snapshot |-> Unavailable, records |-> <<>>, retiredSources |-> <<>>,
                    minted |-> off]
  BY DEF DesktopInit
<1>3. first \in Shown
  <2>1. first \in [Outputs -> Desktops] /\ Outputs \in SUBSET Outputs
    BY DEF DesktopBounds
  <2> HIDE DEF first
  <2> QED BY <2>1, IsPartial DEF Shown
<1>4. kwin \in KWins
  BY <1>1, <1>3 DEF KWins, None
<1>5. /\ <<>> \in Partial(Outputs, Records) /\ <<>> \in Partial(Outputs, Sources)
      /\ <<>> \in Partial(Outputs, Identities) /\ DOMAIN <<>> = {}
  BY EmptyPartial
<1>6. off \in [Outputs -> Nat] /\ Unavailable \in Snapshots /\ None \in Nat /\ 0 \in 0..3
  BY UnavailableParts DEF None
<1>7. IsFiniteSet({})
  BY FS_EmptySet
<1> HIDE DEF off, first
<1>8. adapter \in AdapterStates
  BY <1>2, <1>5, <1>6 DEF AdapterStates
<1>9. /\ adapter.retired = {} /\ adapter.records = <<>> /\ adapter.retiredSources = <<>>
      /\ adapter.epoch = None /\ ~adapter.accepting /\ adapter.shutdown = "no"
      /\ adapter.shouldRun = adapter.helperPath
  BY <1>2
<1>10. feedback \in Feedbacks
  BY <1>1, <1>5 DEF Feedbacks
<1>11. /\ feedback.held = <<>> /\ feedback.announced = {} /\ feedback.wrong = {}
  BY <1>1
<1>12. lines \in Pipes /\ lines.out = <<>> /\ lines.ready = None
  BY <1>1 DEF Pipes, None
<1>13. DesktopTypeOK
  BY <1>1, <1>4, <1>7, <1>8, <1>9, <1>10, <1>12, NothingRuns, OffParts DEF DesktopTypeOK
<1>14. AllReal(kwinWire, lines.out, scripts, feedback)
  <2>1. LinesReal(<<>>, feedback.switched)
    BY DEF LinesReal
  <2> QED BY <1>1, <1>11, <1>12, <2>1, NothingRuns DEF AllReal
<1>15. ShowSound(adapter, feedback)
  BY <1>5, <1>9, <1>11 DEF ShowSound, Minted, Ordered, Resolved
<1>16. HelperSound(observer, adapter, lines)
  BY <1>1, <1>9, <1>12, OffParts DEF HelperSound, Watched, NotRunning, Heard
<1>17. Follows(observer, kwinWire, scripts, kwin)
  BY <1>1, OffParts, GoneFollows, NothingRuns
<1> QED BY <1>13, <1>14, <1>15, <1>16, <1>17 DEF DesktopInv

(* Each step of the script, KWin, the helper and the adapter keeps the      *)
(* invariant.                                                               *)
LEMMA NextKeeps ==
    ASSUME DesktopBounds, DesktopInv, [DesktopNext]_desktopVars
    PROVE  DesktopInv'
<1>1. CASE \E g \in DOMAIN scripts : Recompute(g)
  BY <1>1, RecomputeKeeps
<1>2. CASE WorkspaceChanges
  BY <1>2, WorkspaceChangesKeep
<1>3. CASE KWinRestarts
  BY <1>3, KWinRestartsKeeps
<1>4. CASE Initialize
  BY <1>4, InitializeKeeps
<1>5. CASE OnServiceOwnerChanged
  BY <1>5, OwnerChangedKeeps
<1>6. CASE OnPublish
  BY <1>6, OnPublishKeeps
<1>7. CASE OnSnapshotTimeout
  BY <1>7, SnapshotTimeoutKeeps
<1>8. CASE ObserverFails
  BY <1>8, ObserverFailsKeeps
<1>9. CASE HandleHelperStarted
  BY <1>9, HelperStartedKeeps
<1>10. CASE HelperFailsToStart
  BY <1>10, HelperFailsToStartKeeps
<1>11. CASE OnExited
  BY <1>11, ExitedKeeps
<1>12. CASE OnRestartTimer
  BY <1>12, RestartTimerKeeps
<1>13. CASE AcceptHelperStderrLine
  BY <1>13, ReadyLineKeeps
<1>14. CASE AcceptSnapshotLine
  BY <1>14, SnapshotLineKeeps
<1>15. CASE HandleReadinessTimeout
  BY <1>15, ReadinessTimeoutKeeps
<1>16. CASE OnDestruction
  BY <1>16, DestructionKeeps
<1>17. CASE ReadCommands
  BY <1>17, ReadCommandsKeeps
<1>18. CASE OnShutdownTimer
  BY <1>18, ShutdownTimerKeeps
<1>19. CASE UNCHANGED desktopVars
  BY <1>19, StutterKeeps
<1> QED BY <1>1, <1>2, <1>3, <1>4, <1>5, <1>6, <1>7, <1>8, <1>9, <1>10, <1>11, <1>12, <1>13, <1>14,
           <1>15, <1>16, <1>17, <1>18, <1>19 DEF DesktopNext
(* A quiet helper has told the last of what it heard, and heard the last    *)
(* of what KWin shows.                                                      *)
LEMMA QuietIsCurrent ==
    ASSUME DesktopInv
    PROVE  DesktopsAreCurrent
<1>1. SUFFICES ASSUME Quiet
               PROVE  LET seen == IF observer.generation = None THEN Unavailable ELSE Seen("none")
                      IN  /\ adapter.snapshot.current = seen.current
                          /\ adapter.snapshot.desktops = seen.desktops
  BY DEF DesktopsAreCurrent
<1>2. /\ observer.state = "running" /\ ~observer.timer /\ adapter.shutdown = "no"
      /\ kwinWire = <<>> /\ lines.out = <<>> /\ \A g \in DOMAIN scripts : ~scripts[g].timer
  BY <1>1 DEF Quiet
<1>3. /\ kwin \in KWins /\ Heard(observer, adapter, lines.out)
      /\ Follows(observer, kwinWire, scripts, kwin)
  BY InvParts, TypeParts, HelperSoundParts
<1>4. Len(lines.out) = 0 /\ Len(kwinWire) = 0
  BY <1>2
<1>5. adapter.snapshot = observer.last
  BY <1>2, <1>3, <1>4 DEF Heard, Streams
<1>6. observer.owner = kwin.owner
  <2>1. NoOwner(kwinWire)
    BY <1>4 DEF NoOwner
  <2>2. OwnerKnown(observer, kwinWire, kwin.owner)
    BY <1>3, FollowsParts
  <2> QED BY <1>2, <2>1, <2>2 DEF OwnerKnown
<1>7. CASE observer.generation = None
  <2>1. observer.last = Unavailable
    <3>1. Detached(observer)
      BY <1>3, FollowsParts
    <3>2. observer.last # <<>>
      BY <1>2, <1>3, <1>4 DEF Heard, Streams
    <3> QED BY <1>2, <1>7, <3>1, <3>2 DEF Detached
  <2> QED BY <1>5, <1>7, <2>1
<1>8. CASE observer.generation # None
  <2>1. observer.generation \in DOMAIN scripts
    <3>1. Attached(observer, kwinWire, scripts, kwin.owner)
      BY <1>3, FollowsParts
    <3> QED BY <1>2, <1>6, <1>8, <3>1 DEF Attached
  <2>2. Says(kwinWire, observer.generation, observer.last, kwin)
    <3>1. Told(observer, kwinWire, scripts, kwin)
      BY <1>3, FollowsParts
    <3> QED BY <1>2, <1>6, <1>8, <2>1, <3>1 DEF Told
  <2>3. Agrees(observer.last, kwin)
    BY <1>4, <2>2 DEF Says
  <2>4. Agrees(Seen("none"), kwin)
    BY <1>3, SeenParts
  <2> QED BY <1>5, <1>8, <2>3, <2>4 DEF Agrees
<1> QED BY <1>7, <1>8

LEMMA InvariantGives ==
    ASSUME DesktopInv
    PROVE  SwitchIsReal /\ FeedbackResolves /\ HelperWatched /\ DesktopsAreCurrent
<1>1. /\ AllReal(kwinWire, lines.out, scripts, feedback) /\ ShowSound(adapter, feedback)
      /\ HelperSound(observer, adapter, lines)
  BY InvParts
<1>2. SwitchIsReal
  BY <1>1, AllRealParts DEF SwitchIsReal
<1>3. FeedbackResolves
  BY <1>1 DEF ShowSound, Resolved, FeedbackResolves
<1>4. HelperWatched
  BY <1>1, HelperSoundParts DEF Watched, HelperWatched
<1> QED BY <1>2, <1>3, <1>4, QuietIsCurrent

LEMMA DesktopInductive ==
    ASSUME DesktopBounds
    PROVE  DesktopSpec => []DesktopInv
<1>1. DesktopInit => DesktopInv
  BY InitHolds
<1>2. DesktopInv /\ [DesktopNext]_desktopVars => DesktopInv'
  BY NextKeeps
<1> QED BY <1>1, <1>2, PTL DEF DesktopSpec

(* The script, the helper, the two pipes and the adapter keep their types,  *)
(* whatever KWin does.                                                      *)
THEOREM DesktopTypes ==
    ASSUME DesktopBounds
    PROVE  DesktopSpec => []DesktopTypeOK
<1>1. DesktopInv => DesktopTypeOK
  BY InvParts
<1> QED BY <1>1, DesktopInductive, PTL

(* Switches are announced once, for a switch somebody made, and only while  *)
(* they can be resolved; a helper that runs is ready or watched, one that   *)
(* ended is started again unless the attempts are used up; and when nothing *)
(* is on its way the adapter shows what KWin shows.  For any outputs and    *)
(* desktops, any maximumSourceVersion, and without a bound on the events.   *)
THEOREM DesktopsAreSound ==
    ASSUME DesktopBounds
    PROVE  DesktopSpec => [](SwitchIsReal /\ FeedbackResolves /\ HelperWatched /\ DesktopsAreCurrent)
<1>1. DesktopInv => SwitchIsReal /\ FeedbackResolves /\ HelperWatched /\ DesktopsAreCurrent
  BY InvariantGives
<1> QED BY <1>1, DesktopInductive, PTL
=============================================================================
