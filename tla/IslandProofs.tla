---------------------------- MODULE IslandProofs ----------------------------
(***************************************************************************)
(* The island coordinator, for any number of surfaces and sources and at   *)
(* every bound.                                                            *)
(*                                                                         *)
(* First type correctness: the operators on one record and on the mailbox, *)
(* then those on all surfaces, then one step per action.  Then one focused *)
(* task, one host for the modal, a bounded mailbox and a timer that is     *)
(* never late.  Then what a surface preempts, restores and shows: each     *)
(* preempted owner is outranked by what preempted it, the dashboard is on  *)
(* show exactly when it should be, feedback on a surface is pending in the *)
(* mailbox and fresh when the surface turns to it, the keyboard is asked   *)
(* for only by visible content that wants it, feedback never ends a task,  *)
(* and every epoch in use names one stay.                                  *)
(*                                                                         *)
(* None of the last is inductive alone: what a surface shows after its     *)
(* owner ends is decided by the frames under it, by the mailbox and by the *)
(* baseline intents at once, and a focused request by what the owner was   *)
(* given when it was entered.  Sound, a property of one surface's record   *)
(* against the mailbox, says all of it.                                    *)
(***************************************************************************)
EXTENDS IslandProperties, Foundations

GoodRecord(r) == r \in Records /\ IsFiniteSet(r.restoration)

GoodMail(evs) == evs \in [DOMAIN evs -> Events] /\ DOMAIN evs \subseteq Nat \ {0}

GoodSurfaces(srf) ==
    /\ DOMAIN srf \subseteq Surfaces
    /\ srf \in [DOMAIN srf -> Records]
    /\ \A s \in DOMAIN srf : IsFiniteSet(srf[s].restoration)

-----------------------------------------------------------------------------
(* Kinds, ranks and owners.                                                *)

(* The ranks, by class of kind.                                            *)
LEMMA RankBands ==
    /\ \A k \in Kinds : RankFor(k) \in 0..9
    /\ \A k \in TransientKinds : k \in Kinds /\ RankFor(k) \in 1..5
    /\ \A k \in InteractiveKinds : k \in Kinds /\ RankFor(k) \in 7..8
    /\ RankFor("idle") = 0 /\ RankFor("expanded") = 6 /\ RankFor("polkitModal") = 9
    /\ {"idle", "expanded", "polkitModal"} \subseteq Kinds
    /\ TransientKinds \cap InteractiveKinds = {}
    /\ {"idle", "expanded", "polkitModal"} \cap (TransientKinds \cup InteractiveKinds) = {}
BY DEF RankFor, Kinds, BaselineKinds, TransientKinds, RoutedKinds, BroadcastKinds, InteractiveKinds

LEMMA OwnerRecordType ==
    ASSUME NEW kind \in Kinds, NEW event \in Nat, NEW n \in Nat, NEW epoch \in Epochs,
           NEW pending \in BOOLEAN
    PROVE  OwnerRecord(kind, event, n, epoch, pending) \in Owners
BY DEF OwnerRecord, Owners

LEMMA EpochTypes ==
    /\ NoEpoch \in Epochs
    /\ \A n \in Nat, s \in Surfaces : <<n, s>> \in Epochs
BY DEF NoEpoch, Epochs

LEMMA BaselineOwnerType ==
    ASSUME NEW kind \in Kinds
    PROVE  BaselineOwner(kind) \in Owners
BY OwnerRecordType, EpochTypes DEF BaselineOwner, NoEvent

LEMMA NewRecordType == GoodRecord(NewRecord)
BY BaselineOwnerType, RankBands, FS_EmptySet DEF GoodRecord, NewRecord, Records

LEMMA ForceIdleType ==
    ASSUME NEW r, GoodRecord(r)
    PROVE  GoodRecord(ForceIdle(r))
BY BaselineOwnerType, RankBands, FS_EmptySet DEF GoodRecord, ForceIdle, Records

(* The depth of a new frame is above every other.                          *)
LEMMA NextDepthAbove ==
    ASSUME NEW frames \in SUBSET Frames, IsFiniteSet(frames)
    PROVE  /\ NextDepth(frames) \in Nat
           /\ \A f \in frames : f.depth < NextDepth(frames)
<1> DEFINE depths == {f.depth : f \in frames}
<1>1. depths \in SUBSET Nat
  BY DEF Frames
<1>2. IsFiniteSet(depths)
  <2> DEFINE depthOf == [f \in frames |-> f.depth]
  <2>1. depthOf \in Surjection(frames, depths)
    BY DEF Surjection
  <2> QED BY <2>1, FS_Surjection
<1>3. CASE frames = {}
  BY <1>3 DEF NextDepth
<1>4. CASE frames # {}
  <2>1. depths # {}
    BY <1>4
  <2>2. Max(depths) \in Nat /\ \A d \in depths : d <= Max(depths)
    BY <1>1, <1>2, <2>1, MaxOfNaturals
  <2>3. NextDepth(frames) = 1 + Max(depths)
    BY <1>4 DEF NextDepth
  <2>4. \A f \in frames : f.depth \in Nat /\ f.depth <= Max(depths)
    BY <2>2, <1>1
  <2> HIDE DEF depths
  <2> QED BY <2>2, <2>3, <2>4
<1> QED BY <1>3, <1>4

LEMMA CaptureCurrentType ==
    ASSUME NEW r, GoodRecord(r)
    PROVE  /\ GoodRecord(CaptureCurrent(r))
           /\ CaptureCurrent(r) = [r EXCEPT !.restoration = CaptureCurrent(r).restoration]
<1> DEFINE frame == [depth |-> NextDepth(r.restoration), owner |-> r.owner]
<1>1. r.restoration \in SUBSET Frames /\ IsFiniteSet(r.restoration) /\ r \in Records
  BY DEF GoodRecord, Records
<1>2. frame \in Frames
  BY <1>1, NextDepthAbove DEF Frames, Records
<1>3. IsFiniteSet(r.restoration \cup {frame})
  <2> HIDE DEF frame
  <2> QED BY <1>1, FS_AddElement
<1> QED
  BY <1>1, <1>2, <1>3 DEF CaptureCurrent, GoodRecord, Records

LEMMA EnterOwnerType ==
    ASSUME NEW r, GoodRecord(r), NEW kind \in Kinds, NEW epoch \in Epochs, NEW n \in Nat
    PROVE  GoodRecord(EnterOwner(r, kind, epoch, n))
<1>1. OwnerRecord(kind, NoEvent, 0, epoch, TRUE) \in Owners
  BY OwnerRecordType DEF NoEvent
<1> QED
  BY <1>1 DEF EnterOwner, GoodRecord, Records, Owners

LEMMA EventKindType ==
    ASSUME NEW e \in Events
    PROVE  EventKind(e) \in TransientKinds /\ EventKind(e) \in Kinds
BY KindsAssumption, RankBands DEF EventKind, Events

LEMMA EnterEventType ==
    ASSUME NEW r, GoodRecord(r), NEW e \in Events, NEW id \in Nat, NEW epoch \in Epochs
    PROVE  GoodRecord(EnterEvent(r, id, e, epoch))
<1>1. e.revision \in Nat
  BY DEF Events
<1>2. OwnerRecord(EventKind(e), id, e.revision, epoch, TRUE) \in Owners
  BY <1>1, OwnerRecordType, EventKindType
<1> QED
  BY <1>2 DEF EnterEvent, GoodRecord, Records

LEMMA AskFocusType ==
    ASSUME NEW r, GoodRecord(r)
    PROVE  GoodRecord(AskFocus(r))
BY DEF AskFocus, GoodRecord, Records, Owners

-----------------------------------------------------------------------------
(* The mailbox.                                                            *)

LEMMA EventRankType ==
    ASSUME NEW evs, GoodMail(evs), NEW i \in DOMAIN evs
    PROVE  evs[i] \in Events /\ EventRank(evs, i) \in 1..5 /\ i \in Nat \ {0}
<1>1. evs[i] \in Events /\ i \in Nat \ {0}
  BY DEF GoodMail
<1> QED
  BY <1>1, EventKindType, RankBands DEF EventRank

(* Foremost picks one of the events, and none of them outranks it.         *)
LEMMA ForemostChoice ==
    ASSUME NEW evs, GoodMail(evs), NEW ids \in SUBSET DOMAIN evs, ids # {}
    PROVE  /\ Foremost(ids, evs) \in ids
           /\ \A j \in ids : EventRank(evs, j) <= EventRank(evs, Foremost(ids, evs))
<1> DEFINE lacks == {5 - EventRank(evs, i) : i \in ids}
           least == Min(lacks)
           best  == {i \in ids : 5 - EventRank(evs, i) = least}
           first == Min(best)
<1>1. \A i \in ids : i \in Nat /\ EventRank(evs, i) \in 1..5
  BY EventRankType
<1>2. lacks \in SUBSET Nat /\ lacks # {}
  BY <1>1
<1>3. least \in lacks /\ \A d \in lacks : least <= d
  BY <1>2, MinOfNaturals
<1> HIDE DEF least
<1>4. best \in SUBSET Nat /\ best # {}
  BY <1>1, <1>3
<1>5. first \in best /\ \A i \in best : first <= i
  BY <1>4, MinOfNaturals
<1> HIDE DEF first
<1>6. first \in ids /\ 5 - EventRank(evs, first) = least
  BY <1>5
<1>7. \A j \in ids : \/ EventRank(evs, first) > EventRank(evs, j)
                     \/ EventRank(evs, first) = EventRank(evs, j) /\ first <= j
  <2> TAKE j \in ids
  <2>1. least <= 5 - EventRank(evs, j)
    BY <1>3
  <2>2. CASE 5 - EventRank(evs, j) = least
    <3>1. first <= j
      BY <2>2, <1>5
    <3> QED BY <3>1, <2>2, <1>1, <1>6
  <2>3. CASE 5 - EventRank(evs, j) # least
    BY <2>1, <2>3, <1>1, <1>6
  <2> QED BY <2>2, <2>3
<1>8. Leads(first, ids, evs)
  BY <1>7 DEF Leads
<1>9. Foremost(ids, evs) \in ids /\ Leads(Foremost(ids, evs), ids, evs)
  BY <1>6, <1>8 DEF Foremost
<1> QED
  BY <1>1, <1>9 DEF Leads

LEMMA WithoutType ==
    ASSUME NEW evs, GoodMail(evs), NEW id
    PROVE  /\ GoodMail(Without(evs, id))
           /\ DOMAIN Without(evs, id) = DOMAIN evs \ {id}
           /\ \A i \in DOMAIN Without(evs, id) : Without(evs, id)[i] = evs[i]
BY DEF Without, Restrict, GoodMail

LEMMA PendingForType ==
    ASSUME NEW r, NEW s, NEW evs
    PROVE  PendingFor(r, s, evs) \in SUBSET DOMAIN evs
BY DEF PendingFor

-----------------------------------------------------------------------------
(* restoreNext.                                                            *)

(* The frame on top of those that are still relevant.                      *)
LEMMA TopFrame ==
    ASSUME NEW frames \in SUBSET Frames, IsFiniteSet(frames), frames # {}
    PROVE  \E f \in frames : \A g \in frames : g.depth <= f.depth
<1> DEFINE depths == {f.depth : f \in frames}
           depthOf == [f \in frames |-> f.depth]
<1>1. depths \in SUBSET Nat /\ depths # {}
  BY DEF Frames
<1>2. depthOf \in Surjection(frames, depths)
  BY DEF Surjection
<1>3. IsFiniteSet(depths)
  BY <1>2, FS_Surjection
<1>4. Max(depths) \in depths /\ \A d \in depths : d <= Max(depths)
  BY <1>1, <1>3, MaxOfNaturals
<1> QED
  BY <1>4

LEMMA RestoredType ==
    ASSUME NEW r, GoodRecord(r), NEW f \in Frames
    PROVE  Restored(r, f) \in Owners
<1> DEFINE wants == \/ f.owner.kind \in InteractiveKinds
                    \/ f.owner.kind = "expanded" /\ r.explicit
<1>1. wants \in BOOLEAN
  OBVIOUS
<1>2. Restored(r, f) = [f.owner EXCEPT !.revision = @ + 1, !.visible = FALSE,
                                       !.focusPending = wants, !.focusTarget = wants]
  BY DEF Restored
<1>3. f.owner \in Owners /\ f.owner.revision + 1 \in Nat
  BY DEF Frames, Owners
<1> DEFINE o == f.owner
<1> HIDE DEF wants, o
<1>4. ASSUME NEW w \in BOOLEAN, o \in Owners, o.revision + 1 \in Nat
      PROVE  [o EXCEPT !.revision = @ + 1, !.visible = FALSE, !.focusPending = w,
                       !.focusTarget = w] \in Owners
  BY <1>4 DEF Owners
<1> QED
  BY <1>1, <1>2, <1>3, <1>4 DEF o

(* The three ways a surface goes on: it returns to a relevant frame, turns *)
(* to a pending event and keeps only frames below one it outranks, or falls*)
(* back to its baseline.                                                   *)
ToFrame(next, r, s, evs) ==
    \E f \in r.restoration :
        /\ IsRelevantFrame(f, r, s, evs)
        /\ RankFor(f.owner.kind) >= RankFor(BaselineKind(r))
        /\ next = [r EXCEPT !.restoration = {g \in @ : g.depth < f.depth},
                            !.owner = Restored(r, f)]

ToEvent(next, r, s, evs, epoch) ==
    \E i \in PendingFor(r, s, evs), below \in SUBSET r.restoration :
        /\ EventRank(evs, i) > RankFor(BaselineKind(r))
        /\ \A f \in below : \E top \in r.restoration :
              f.depth < top.depth /\ RankFor(top.owner.kind) < EventRank(evs, i)
        /\ next = EnterEvent([r EXCEPT !.restoration = below], i, evs[i], epoch)

ToBaseline(next, r) ==
    \E pending \in BOOLEAN :
        /\ pending => BaselineKind(r) = "expanded"
        /\ next = [r EXCEPT !.restoration = {},
                            !.owner = [BaselineOwner(BaselineKind(r)) EXCEPT
                                          !.focusPending = pending]]

LEMMA RestoreNextCases ==
    ASSUME NEW r, GoodRecord(r), NEW s \in Surfaces, NEW evs, GoodMail(evs),
           NEW epoch \in Epochs
    PROVE  \/ ToFrame(RestoreNext(r, s, evs, epoch), r, s, evs)
           \/ ToEvent(RestoreNext(r, s, evs, epoch), r, s, evs, epoch)
           \/ ToBaseline(RestoreNext(r, s, evs, epoch), r)
<1> DEFINE relevant == {f \in r.restoration : IsRelevantFrame(f, r, s, evs)}
           top      == CHOOSE f \in relevant : \A g \in relevant : g.depth <= f.depth
           below    == IF relevant = {} THEN {} ELSE {f \in r.restoration : f.depth < top.depth}
           pending  == PendingFor(r, s, evs)
           next     == Foremost(pending, evs)
           baseline == BaselineKind(r)
           takesFrame == /\ relevant # {}
                         /\ RankFor(top.owner.kind) >= RankFor(baseline)
                         /\ pending # {} => RankFor(top.owner.kind) >= EventRank(evs, next)
           takesEvent == pending # {} /\ EventRank(evs, next) > RankFor(baseline)
<1>1. RestoreNext(r, s, evs, epoch) =
        IF takesFrame THEN
            [r EXCEPT !.restoration = below, !.owner = Restored(r, top)]
        ELSE IF takesEvent THEN
            EnterEvent([r EXCEPT !.restoration = below], next, evs[next], epoch)
        ELSE [r EXCEPT !.restoration = {},
                       !.owner = [BaselineOwner(baseline) EXCEPT
                                    !.focusPending = baseline = "expanded" /\ r.explicit]]
  BY DEF RestoreNext
<1>2. relevant # {} => top \in relevant
  <2>1. relevant \in SUBSET Frames /\ IsFiniteSet(relevant)
    BY FS_Subset DEF GoodRecord, Records
  <2> HIDE DEF relevant
  <2> QED BY <2>1, TopFrame
<1>3. pending # {} => next \in pending /\ EventRank(evs, next) \in Nat
  BY PendingForType, ForemostChoice, EventRankType
<1>4. /\ below \in SUBSET r.restoration
      /\ below # {} => top \in r.restoration /\ \A f \in below : f.depth < top.depth
  BY <1>2
<1>5. CASE takesFrame
  <2> HIDE DEF top, next, pending
  <2> QED BY <1>1, <1>2, <1>5 DEF ToFrame
<1>6. CASE ~takesFrame /\ takesEvent
  <2>1. next \in PendingFor(r, s, evs) /\ EventRank(evs, next) > RankFor(baseline)
    BY <1>3, <1>6
  <2>2. below # {} => relevant # {} /\ RankFor(top.owner.kind) < EventRank(evs, next)
    <3>1. baseline \in Kinds /\ (relevant # {} => top.owner.kind \in Kinds)
      BY <1>2, RankBands DEF BaselineKind, GoodRecord, Records, Frames, Owners
    <3>2. RankFor(baseline) \in Nat /\ (relevant # {} => RankFor(top.owner.kind) \in Nat)
      BY <3>1, RankBands
    <3> HIDE DEF top, next, pending, relevant, baseline
    <3> QED BY <1>3, <1>6, <3>2
  <2> HIDE DEF top, next, pending, relevant
  <2>3. \A f \in below : \E g \in r.restoration :
           f.depth < g.depth /\ RankFor(g.owner.kind) < EventRank(evs, next)
    BY <1>4, <2>2
  <2>4. RestoreNext(r, s, evs, epoch) =
          EnterEvent([r EXCEPT !.restoration = below], next, evs[next], epoch)
    BY <1>1, <1>6
  <2> HIDE DEF below
  <2> QED BY <1>4, <2>1, <2>3, <2>4 DEF ToEvent
<1>7. CASE ~takesFrame /\ ~takesEvent
  <2> DEFINE focus == baseline = "expanded" /\ r.explicit
  <2>1. focus \in BOOLEAN /\ (focus => baseline = "expanded")
    BY DEF GoodRecord, Records
  <2>2. RestoreNext(r, s, evs, epoch) =
          [r EXCEPT !.restoration = {},
                    !.owner = [BaselineOwner(baseline) EXCEPT !.focusPending = focus]]
    BY <1>1, <1>7
  <2> HIDE DEF focus
  <2> QED BY <2>1, <2>2 DEF ToBaseline
<1> QED
  BY <1>5, <1>6, <1>7

LEMMA RestoreNextType ==
    ASSUME NEW r, GoodRecord(r), NEW s \in Surfaces, NEW evs, GoodMail(evs),
           NEW epoch \in Epochs
    PROVE  GoodRecord(RestoreNext(r, s, evs, epoch))
<1> DEFINE next == RestoreNext(r, s, evs, epoch)
<1> HIDE DEF next
<1>1. \A frames \in SUBSET r.restoration :
         IsFiniteSet(frames) /\ GoodRecord([r EXCEPT !.restoration = frames])
  BY FS_Subset DEF GoodRecord, Records
<1>2. ASSUME NEW f \in r.restoration,
             next = [r EXCEPT !.restoration = {g \in @ : g.depth < f.depth},
                              !.owner = Restored(r, f)]
      PROVE  GoodRecord(next)
  <2>1. Restored(r, f) \in Owners
    BY RestoredType DEF GoodRecord, Records
  <2> QED BY <1>1, <1>2, <2>1 DEF GoodRecord, Records
<1>3. ASSUME NEW i \in DOMAIN evs, NEW below \in SUBSET r.restoration,
             next = EnterEvent([r EXCEPT !.restoration = below], i, evs[i], epoch)
      PROVE  GoodRecord(next)
  <2>1. GoodRecord([r EXCEPT !.restoration = below])
    BY <1>1
  <2>2. evs[i] \in Events /\ i \in Nat
    BY EventRankType
  <2> HIDE DEF GoodRecord
  <2> QED BY <1>3, <2>1, <2>2, EnterEventType
<1>4. ASSUME NEW pending \in BOOLEAN,
             next = [r EXCEPT !.restoration = {},
                              !.owner = [BaselineOwner(BaselineKind(r)) EXCEPT
                                            !.focusPending = pending]]
      PROVE  GoodRecord(next)
  <2>1. BaselineOwner(BaselineKind(r)) \in Owners
    BY BaselineOwnerType, RankBands DEF BaselineKind
  <2> QED BY <1>4, <2>1, FS_EmptySet DEF GoodRecord, Records, Owners
<1>5. ToFrame(next, r, s, evs) \/ ToEvent(next, r, s, evs, epoch) \/ ToBaseline(next, r)
  BY RestoreNextCases DEF next
<1>6. ToFrame(next, r, s, evs) => GoodRecord(next)
  BY <1>2 DEF ToFrame
<1>7. ToEvent(next, r, s, evs, epoch) => GoodRecord(next)
  BY <1>3, PendingForType DEF ToEvent
<1>8. ToBaseline(next, r) => GoodRecord(next)
  BY <1>4 DEF ToBaseline
<1> QED
  BY <1>5, <1>6, <1>7, <1>8 DEF next

-----------------------------------------------------------------------------
(* All surfaces at once.                                                   *)

LEMMA GoodAt ==
    ASSUME NEW srf, GoodSurfaces(srf), NEW s \in DOMAIN srf
    PROVE  GoodRecord(srf[s]) /\ s \in Surfaces
BY DEF GoodSurfaces, GoodRecord

LEMMA GoodPointwise ==
    ASSUME NEW D \in SUBSET Surfaces, NEW srf, srf = [s \in D |-> srf[s]],
           \A s \in D : GoodRecord(srf[s])
    PROVE  GoodSurfaces(srf) /\ DOMAIN srf = D
BY DEF GoodSurfaces, GoodRecord

LEMMA AfterRemovalType ==
    ASSUME NEW srf, GoodSurfaces(srf), NEW evs, GoodMail(evs), NEW id, NEW n \in Nat
    PROVE  /\ GoodSurfaces(AfterRemoval(srf, evs, id, n))
           /\ DOMAIN AfterRemoval(srf, evs, id, n) = DOMAIN srf
<1> DEFINE next == AfterRemoval(srf, evs, id, n)
           pruned(s) == [srf[s] EXCEPT !.restoration = {f \in @ : f.owner.event # id}]
<1>1. next = [s \in DOMAIN srf |->
                IF pruned(s).owner.event = id
                THEN RestoreNext(pruned(s), s, Without(evs, id), <<n, s>>) ELSE pruned(s)]
  BY DEF AfterRemoval
<1>2. ASSUME NEW s \in DOMAIN srf
      PROVE  GoodRecord(pruned(s)) /\ s \in Surfaces
  <2>1. GoodRecord(srf[s]) /\ s \in Surfaces
    BY GoodAt
  <2>2. IsFiniteSet({f \in srf[s].restoration : f.owner.event # id})
    BY <2>1, FS_Subset DEF GoodRecord
  <2> QED BY <2>1, <2>2 DEF GoodRecord, Records
<1> HIDE DEF next, pruned
<1>3. ASSUME NEW s \in DOMAIN srf
      PROVE  GoodRecord(next[s])
  <2>1. GoodRecord(RestoreNext(pruned(s), s, Without(evs, id), <<n, s>>))
    BY <1>2, WithoutType, EpochTypes, RestoreNextType
  <2> QED BY <1>1, <1>2, <2>1
<1>4. DOMAIN srf \in SUBSET Surfaces
  BY DEF GoodSurfaces
<1>5. next = [s \in DOMAIN srf |-> next[s]]
  BY <1>1
<1> QED
  BY <1>3, <1>4, <1>5, GoodPointwise DEF next

LEMMA AfterProjectionType ==
    ASSUME NEW srf, GoodSurfaces(srf), NEW id \in Nat, NEW e \in Events, NEW n \in Nat
    PROVE  /\ GoodSurfaces(AfterProjection(srf, id, e, n))
           /\ DOMAIN AfterProjection(srf, id, e, n) = DOMAIN srf
<1> DEFINE next == AfterProjection(srf, id, e, n)
<1>1. ASSUME NEW s \in DOMAIN srf
      PROVE  GoodRecord(next[s])
  <2>1. GoodRecord(srf[s]) /\ s \in Surfaces
    BY GoodAt
  <2>2. GoodRecord(EnterEvent(CaptureCurrent(srf[s]), id, e, <<n, s>>))
    BY <2>1, CaptureCurrentType, EnterEventType, EpochTypes
  <2> QED BY <2>1, <2>2 DEF AfterProjection
<1>2. next = [s \in DOMAIN srf |-> next[s]] /\ DOMAIN srf \in SUBSET Surfaces
  BY DEF AfterProjection, GoodSurfaces
<1> HIDE DEF next
<1> QED
  BY <1>1, <1>2, GoodPointwise DEF next

LEMMA RenewedType ==
    ASSUME NEW srf, GoodSurfaces(srf), NEW id, NEW n \in Nat
    PROVE  GoodSurfaces(Renewed(srf, id, n)) /\ DOMAIN Renewed(srf, id, n) = DOMAIN srf
<1> DEFINE next == Renewed(srf, id, n)
<1>1. ASSUME NEW s \in DOMAIN srf
      PROVE  GoodRecord(next[s])
  <2>1. GoodRecord(srf[s])
    BY GoodAt
  <2> DEFINE r == srf[s]
  <2>2. r.owner \in Owners /\ r.owner.revision + 1 \in Nat
    BY <2>1 DEF GoodRecord, Records, Owners
  <2>3. ASSUME NEW o \in Owners, NEW m \in Nat
        PROVE  [o EXCEPT !.revision = m, !.sourceRevision = n, !.visible = FALSE] \in Owners
    BY <2>3 DEF Owners
  <2>4. GoodRecord([r EXCEPT !.owner = [r.owner EXCEPT !.revision = r.owner.revision + 1,
                                            !.sourceRevision = n, !.visible = FALSE]])
    BY <2>1, <2>2, <2>3 DEF GoodRecord, Records
  <2>5. [r EXCEPT !.owner.revision = @ + 1, !.owner.sourceRevision = n,
                  !.owner.visible = FALSE] =
        [r EXCEPT !.owner = [r.owner EXCEPT !.revision = r.owner.revision + 1,
                                            !.sourceRevision = n, !.visible = FALSE]]
    BY <2>1 DEF GoodRecord, Records
  <2> QED BY <2>1, <2>4, <2>5 DEF Renewed
<1>2. next = [s \in DOMAIN srf |-> next[s]] /\ DOMAIN srf \in SUBSET Surfaces
  BY DEF Renewed, GoodSurfaces
<1> HIDE DEF next
<1> QED
  BY <1>1, <1>2, GoodPointwise DEF next

LEMMA RehomedType ==
    ASSUME NEW srf, GoodSurfaces(srf), NEW target \in DOMAIN srf, NEW capture \in BOOLEAN,
           nextOwnerEpoch \in Nat
    PROVE  /\ GoodSurfaces(Rehomed(srf, target, capture))
           /\ DOMAIN Rehomed(srf, target, capture) = DOMAIN srf
<1> DEFINE next == Rehomed(srf, target, capture)
<1>1. ASSUME NEW s \in DOMAIN srf
      PROVE  GoodRecord(next[s])
  <2>1. GoodRecord(srf[s]) /\ GoodRecord(ForceIdle(srf[s])) /\ GoodRecord(CaptureCurrent(srf[s]))
    BY GoodAt, ForceIdleType, CaptureCurrentType
  <2>2. <<nextOwnerEpoch + 1, s>> \in Epochs
    BY GoodAt, EpochTypes
  <2>3. GoodRecord(EnterOwner(CaptureCurrent(srf[s]), "polkitModal",
                              <<nextOwnerEpoch + 1, s>>, 1))
    BY <2>1, <2>2, EnterOwnerType, RankBands
  <2>4. GoodRecord(EnterOwner(ForceIdle(srf[s]), "polkitModal", <<nextOwnerEpoch + 1, s>>, 1))
    BY <2>1, <2>2, EnterOwnerType, RankBands
  <2> QED BY <2>1, <2>3, <2>4 DEF Rehomed
<1>2. next = [s \in DOMAIN srf |-> next[s]] /\ DOMAIN srf \in SUBSET Surfaces
  BY DEF Rehomed, GoodSurfaces
<1> HIDE DEF next
<1> QED
  BY <1>1, <1>2, GoodPointwise DEF next

(* One surface changes.                                                    *)
LEMMA GoodExcept ==
    ASSUME NEW srf, GoodSurfaces(srf), NEW s \in DOMAIN srf, NEW r, GoodRecord(r)
    PROVE  GoodSurfaces([srf EXCEPT ![s] = r]) /\ DOMAIN [srf EXCEPT ![s] = r] = DOMAIN srf
BY DEF GoodSurfaces, GoodRecord

LEMMA AfterIntentType ==
    ASSUME NEW old, GoodRecord(old), NEW s \in Surfaces, NEW value \in BOOLEAN,
           NEW explicit \in BOOLEAN, NEW epoch \in Epochs, GoodMail(transients)
    PROVE  GoodRecord(AfterIntent(old, s, value, explicit, epoch))
<1> DEFINE r == WithIntent(old, value, explicit)
           opened == EnterOwner(CaptureCurrent(r), "expanded", epoch, 1)
<1>1. GoodRecord(r)
  BY DEF WithIntent, GoodRecord, Records
<1> HIDE DEF r
<1>2. GoodRecord(opened)
  BY <1>1, CaptureCurrentType, EnterOwnerType, RankBands
<1> HIDE DEF opened
<1>3. GoodRecord([opened EXCEPT !.owner.focusPending = r.explicit,
                                !.owner.focusTarget = r.explicit])
  BY <1>1, <1>2 DEF GoodRecord, Records, Owners
<1>4. GoodRecord(RestoreNext(r, s, transients, epoch))
  BY <1>1, RestoreNextType
<1>5. GoodRecord(AskFocus([r EXCEPT !.owner.focusTarget = TRUE]))
  <2>1. GoodRecord([r EXCEPT !.owner.focusTarget = TRUE])
    BY <1>1 DEF GoodRecord, Records, Owners
  <2> QED BY <2>1, AskFocusType
<1>6. GoodRecord([r EXCEPT !.owner.focusPending = FALSE, !.owner.focusTarget = FALSE])
  BY <1>1 DEF GoodRecord, Records, Owners
<1> QED
  BY <1>1, <1>3, <1>4, <1>5, <1>6 DEF AfterIntent, r, opened

-----------------------------------------------------------------------------
(* Deadlines.                                                              *)

LEMMA DeadlineType ==
    ASSUME NEW e \in Events
    PROVE  Deadline(e) \in Nat
<1>1. CASE e.hold = NotHolding
  BY <1>1 DEF Deadline, Events
<1>2. CASE e.hold # NotHolding
  <2>1. {e.fresh, e.hold} \in SUBSET Nat
    BY <1>2 DEF Events
  <2> QED BY <1>2, <2>1, MinOfNaturals DEF Deadline
<1> QED BY <1>1, <1>2

LEMMA ScheduleType ==
    ASSUME NEW evs, GoodMail(evs)
    PROVE  Schedule(evs) \in Nat \cup {Stopped}
<1> DEFINE deadlines == {Deadline(evs[i]) : i \in DOMAIN evs}
<1>1. deadlines \in SUBSET Nat
  BY DeadlineType DEF GoodMail
<1>2. CASE DOMAIN evs = {}
  BY <1>2 DEF Schedule
<1>3. CASE DOMAIN evs # {}
  <2>1. deadlines # {}
    BY <1>3
  <2> HIDE DEF deadlines
  <2>2. Min(deadlines) \in Nat
    BY <1>1, <2>1, MinOfNaturals
  <2> QED BY <1>3, <2>2 DEF Schedule, deadlines
<1> QED BY <1>2, <1>3

-----------------------------------------------------------------------------
(* The type invariant in three parts, and the calls.                       *)

Numbers ==
    /\ nextAdmission \in Nat
    /\ nextOwnerEpoch \in Nat
    /\ modalFlow \in Nat
    /\ modalHostToken \in Surfaces \cup {NoSurface}

Handling ==
    /\ scheduler \in Nat \cup {Stopped}
    /\ published \in BOOLEAN
    /\ job \in Jobs
    /\ doomed \subseteq DOMAIN transients

Mailbox ==
    /\ GoodMail(transients)
    /\ DOMAIN transients \subseteq 1..nextAdmission

LEMMA TypeParts ==
    TypeOK <=> GoodSurfaces(surfaces) /\ Mailbox /\ Numbers /\ Handling
<1>1. TypeOK => GoodMail(transients)
  BY DEF TypeOK, GoodMail
<1>2. Mailbox => transients \in [DOMAIN transients -> Events]
  BY DEF Mailbox, GoodMail
<1> QED
  BY <1>1, <1>2 DEF TypeOK, GoodSurfaces, Mailbox, Numbers, Handling, attached

(* The same after a step.                                                  *)
LEMMA TypePartsNext ==
    TypeOK' <=> GoodSurfaces(surfaces)' /\ Mailbox' /\ Numbers' /\ Handling'
BY TypeParts, PTL

LEMMA KnownJobs ==
    /\ NoJob \in Jobs /\ TimerCall \in Jobs
    /\ \A call \in Jobs :
          /\ call.op = "ack" =>
                call \in [op : {"ack"}, surface : Surfaces \cup {NoSurface}, epoch : Epochs,
                         revision : Int]
          /\ call.op = "intent" =>
                call \in [op : {"intent"}, surface : Surfaces \cup {NoSurface},
                         value : BOOLEAN, explicit : BOOLEAN]
          /\ call.op = "request" => call \in [op : {"request"}, source : Sources, revision : Nat]
          /\ call.op = "finish" => call \in [op : {"finish"}, epoch : Epochs]
          /\ call.op = "detach" =>
                call \in [op : {"detach"}, lostModal : BOOLEAN, task : Owners]
BY DEF Jobs, NoJob, TimerCall

LEMMA OwnersKnown ==
    ASSUME TypeOK
    PROVE  Shown \subseteq Owners /\ KnownOwners \subseteq Owners
BY DEF TypeOK, Shown, KnownOwners, Records, Frames

LEMMA CallTypes ==
    ASSUME TypeOK
    PROVE  Calls \subseteq Jobs
<1>1. Acks \subseteq Jobs
  <2> SUFFICES ASSUME NEW s \in attached \cup {NoSurface}, NEW o \in Shown
               PROVE  /\ AckCall(s, o.epoch, o.revision) \in Jobs
                      /\ AckCall(s, o.epoch, o.revision - 1) \in Jobs
    BY DEF Acks
  <2>1. o.epoch \in Epochs /\ o.revision \in Nat /\ s \in Surfaces \cup {NoSurface}
    BY OwnersKnown DEF Owners, TypeOK
  <2> QED BY <2>1 DEF AckCall, Jobs
<1>2. Intents \subseteq Jobs
  BY DEF Intents, IntentCall, Jobs, TypeOK
<1>3. Requests \subseteq Jobs
  BY BoundsAssumption DEF Requests, RequestCall, Jobs
<1>4. Finishes \subseteq Jobs
  BY OwnersKnown, EpochTypes DEF Finishes, FinishCall, Jobs, Owners
<1> QED
  BY <1>1, <1>2, <1>3, <1>4, KnownJobs DEF Calls, TypeOK

LEMMA CountEpochsType ==
    ASSUME NEW n \in Nat, nextOwnerEpoch \in Nat, CountEpochs(n)
    PROVE  nextOwnerEpoch' \in Nat
BY DEF CountEpochs

LEMMA CompleteType ==
    ASSUME GoodMail(transients'), Complete
    PROVE  Handling'
BY ScheduleType, KnownJobs DEF Complete, PublishAndSchedule, Return, Handling

LEMMA RefuseType ==
    ASSUME TypeOK, NEW rearm \in BOOLEAN, Refuse(rearm)
    PROVE  TypeOK'
<1>1. Handling'
  BY TypeParts, ScheduleType, KnownJobs DEF Refuse, Return, Handling, Mailbox
<1>2. GoodSurfaces(surfaces') /\ Mailbox' /\ Numbers'
  BY TypeParts DEF Refuse, GoodSurfaces, GoodMail, Mailbox, Numbers
<1> QED
  BY <1>1, <1>2, TypePartsNext

-----------------------------------------------------------------------------
(* One lemma per action.                                                   *)

LEMMA ExpireType ==
    ASSUME TypeOK, NEW call \in Jobs, Expire(call)
    PROVE  TypeOK'
<1>1. Handling'
  BY TypeParts DEF Expire, Handling, Due
<1>2. GoodSurfaces(surfaces)' /\ Mailbox' /\ Numbers'
  BY TypeParts DEF Expire, GoodSurfaces, GoodMail, Mailbox, Numbers
<1> QED
  BY <1>1, <1>2, TypePartsNext

LEMMA RemoveDoomedType ==
    ASSUME TypeOK, RemoveDoomed
    PROVE  TypeOK'
<1>1. GoodSurfaces(surfaces) /\ Mailbox /\ Numbers /\ Handling
  BY TypeParts
<1>2. PICK id \in doomed :
        /\ surfaces' = AfterRemoval(surfaces, transients, id, nextOwnerEpoch + 1)
        /\ transients' = Without(transients, id)
        /\ doomed' = doomed \ {id}
        /\ CountEpochs(1)
        /\ published' = (published /\ surfaces' = surfaces)
        /\ UNCHANGED <<nextAdmission, modalFlow, modalHostToken, scheduler, job>>
  BY DEF RemoveDoomed
<1>3. GoodSurfaces(surfaces)'
  BY <1>1, <1>2, AfterRemovalType DEF Mailbox, Numbers
<1>4. GoodMail(transients)' /\ DOMAIN transients' = DOMAIN transients \ {id}
  BY <1>1, <1>2, WithoutType DEF Mailbox
<1>5. Mailbox' /\ Handling'
  <2>1. published' \in BOOLEAN
    BY <1>2
  <2> QED BY <1>1, <1>2, <1>4, <2>1 DEF Mailbox, Handling
<1>6. Numbers'
  BY <1>1, <1>2, CountEpochsType DEF Numbers
<1> QED
  BY <1>3, <1>5, <1>6, TypePartsNext

LEMMA AcknowledgeType ==
    ASSUME TypeOK, NEW call \in Jobs, AcknowledgeVisible(call)
    PROVE  TypeOK'
<1>1. GoodSurfaces(surfaces) /\ Mailbox /\ Numbers /\ Handling
  BY TypeParts
<1>2. CASE ~IsCurrent(call)
  BY <1>2, RefuseType DEF AcknowledgeVisible
<1>3. CASE IsCurrent(call)
  <2> DEFINE s  == call.surface
             id == surfaces[s].owner.event
  <2>1. /\ s \in DOMAIN surfaces
        /\ surfaces' = [surfaces EXCEPT ![s] = Acknowledged(surfaces[s])]
        /\ transients' = IF id \in DOMAIN transients
                         THEN [transients EXCEPT ![id] = SeenBy(transients[id], id, s, surfaces)]
                         ELSE transients
        /\ UNCHANGED <<nextAdmission, nextOwnerEpoch, modalFlow, modalHostToken>>
        /\ Complete
    BY <1>3 DEF AcknowledgeVisible, IsCurrent, attached
  <2>2. GoodRecord(surfaces[s]) /\ s \in Surfaces
    BY <1>1, <2>1, GoodAt
  <2> HIDE DEF s, id
  <2>3. GoodRecord(Acknowledged(surfaces[s]))
    BY <2>2 DEF Acknowledged, GoodRecord, Records, Owners
  <2>4. GoodSurfaces(surfaces')
    BY <1>1, <2>1, <2>3, GoodExcept
  <2>5. id \in DOMAIN transients => SeenBy(transients[id], id, s, surfaces) \in Events
    BY <1>1, <2>2 DEF SeenBy, Events, Mailbox, GoodMail
  <2>6. GoodMail(transients') /\ DOMAIN transients' = DOMAIN transients
    BY <1>1, <2>1, <2>5 DEF Mailbox, GoodMail
  <2>7. Mailbox' /\ Numbers' /\ Handling'
    BY <1>1, <2>1, <2>6, CompleteType DEF Mailbox, Numbers
  <2> QED BY <2>4, <2>7, TypePartsNext
<1> QED BY <1>2, <1>3

LEMMA SetBaselineIntentType ==
    ASSUME TypeOK, NEW call \in Jobs, SetBaselineIntent(call)
    PROVE  TypeOK'
<1>1. GoodSurfaces(surfaces) /\ Mailbox /\ Numbers /\ Handling
  BY TypeParts
<1>2. CASE call.surface \notin attached
  BY <1>2, RefuseType DEF SetBaselineIntent
<1>3. CASE call.surface \in attached
  <2> DEFINE s == call.surface
             epoch == <<nextOwnerEpoch + 1, s>>
             next == AfterIntent(surfaces[s], s, call.value, call.explicit, epoch)
  <2>1. /\ s \in DOMAIN surfaces
        /\ surfaces' = [surfaces EXCEPT ![s] = next]
        /\ CountEpochs(1)
        /\ UNCHANGED <<transients, nextAdmission, modalFlow, modalHostToken>>
        /\ Complete
    BY <1>3 DEF SetBaselineIntent, attached
  <2>2. GoodRecord(surfaces[s]) /\ s \in Surfaces
    BY <1>1, <2>1, GoodAt
  <2>3. epoch \in Epochs /\ call.value \in BOOLEAN /\ call.explicit \in BOOLEAN
    <3>1. call.value \in BOOLEAN /\ call.explicit \in BOOLEAN
      BY KnownJobs DEF SetBaselineIntent
    <3>2. epoch \in Epochs
      BY <1>1, <2>2, EpochTypes DEF Numbers
    <3> QED BY <3>1, <3>2
  <2> HIDE DEF epoch, s
  <2>4. GoodRecord(next)
    BY <1>1, <2>2, <2>3, AfterIntentType DEF Mailbox
  <2>5. GoodSurfaces(surfaces')
    <3> HIDE DEF next
    <3> QED BY <1>1, <2>1, <2>4, GoodExcept
  <2>6. GoodMail(transients')
    BY <1>1, <2>1 DEF Mailbox
  <2>7. Mailbox' /\ Numbers' /\ Handling'
    BY <1>1, <2>1, <2>6, CompleteType, CountEpochsType DEF Mailbox, Numbers
  <2> QED BY <2>5, <2>7, TypePartsNext
<1> QED BY <1>2, <1>3

LEMMA RenewTransientType ==
    ASSUME TypeOK, NEW source \in Sources, NEW n \in Nat, RenewTransient(source, n),
           UNCHANGED <<modalFlow, modalHostToken>>
    PROVE  GoodSurfaces(surfaces)' /\ Mailbox' /\ Numbers'
<1>1. GoodSurfaces(surfaces) /\ Mailbox /\ Numbers /\ Handling
  BY TypeParts
<1> DEFINE Fresh(id, duration) ==
             [transients[id] EXCEPT !.revision = n, !.visible = {},
                                    !.fresh = FreshFor[KindOf[source]],
                                    !.hold = NotHolding, !.holdDuration = duration]
<1>2. PICK id \in PendingOf(source), duration \in HoldsFor[KindOf[source]] :
        /\ transients' = [transients EXCEPT ![id] = Fresh(id, duration)]
        /\ surfaces' = AfterProjection(Renewed(surfaces, id, n), id, Fresh(id, duration),
                                       nextOwnerEpoch + 1)
        /\ CountEpochs(1)
        /\ UNCHANGED nextAdmission
  BY DEF RenewTransient
<1>3. id \in DOMAIN transients /\ transients[id] \in Events /\ id \in Nat
  BY <1>1 DEF PendingOf, Mailbox, GoodMail
<1>4. duration \in Nat /\ FreshFor[KindOf[source]] \in Nat
  BY KindsAssumption, TimesAssumption
<1>5. Fresh(id, duration) \in Events
  BY <1>3, <1>4 DEF Events
<1> HIDE DEF Fresh
<1>6. GoodSurfaces(Renewed(surfaces, id, n))
  BY <1>1, RenewedType
<1>7. GoodSurfaces(surfaces')
  <2> DEFINE renewed == Renewed(surfaces, id, n)
             e == Fresh(id, duration)
  <2> HIDE DEF renewed, e
  <2>1. surfaces' = AfterProjection(renewed, id, e, nextOwnerEpoch + 1)
    BY <1>2 DEF renewed, e
  <2>2. GoodSurfaces(renewed) /\ e \in Events /\ nextOwnerEpoch + 1 \in Nat
    BY <1>1, <1>5, <1>6 DEF Numbers, renewed, e
  <2> QED BY <1>3, <2>1, <2>2, AfterProjectionType
<1>8. GoodMail(transients') /\ DOMAIN transients' = DOMAIN transients
  BY <1>1, <1>2, <1>3, <1>5 DEF Mailbox, GoodMail
<1> QED
  BY <1>1, <1>2, <1>7, <1>8, CountEpochsType DEF Mailbox, Numbers

LEMMA AdmitType ==
    ASSUME TypeOK, NEW srf, GoodSurfaces(srf), NEW evs, GoodMail(evs),
           DOMAIN evs \subseteq DOMAIN transients, NEW e \in Events, NEW n \in Nat,
           nextAdmission' = nextAdmission + 1, Admit(srf, evs, e, n),
           UNCHANGED <<modalFlow, modalHostToken>>
    PROVE  GoodSurfaces(surfaces)' /\ Mailbox' /\ Numbers'
<1>1. Mailbox /\ Numbers
  BY TypeParts
<1>2. GoodSurfaces(surfaces')
  BY <1>1, AfterProjectionType DEF Admit, Numbers
<1>3. DOMAIN transients' = DOMAIN evs \cup {nextAdmission + 1}
  BY DEF Admit
<1>4. \A i \in DOMAIN transients' : transients'[i] \in Events
  BY <1>3 DEF Admit, GoodMail
<1>5. transients' = [i \in DOMAIN transients' |-> transients'[i]]
  BY DEF Admit
<1>6. GoodMail(transients')
  BY <1>1, <1>3, <1>4, <1>5 DEF Mailbox, GoodMail, Numbers
<1>7. Mailbox'
  BY <1>1, <1>3, <1>6 DEF Mailbox, Numbers
<1>8. Numbers'
  BY <1>1, CountEpochsType DEF Numbers, Admit
<1> QED
  BY <1>2, <1>7, <1>8

LEMMA AdmitTransientType ==
    ASSUME TypeOK, NEW source \in Sources, NEW n \in Nat, AdmitTransient(source, n),
           UNCHANGED <<modalFlow, modalHostToken>>
    PROVE  GoodSurfaces(surfaces)' /\ Mailbox' /\ Numbers'
<1>1. GoodSurfaces(surfaces) /\ Mailbox /\ Numbers /\ Handling
  BY TypeParts
<1>2. PICK targets \in TargetSets(KindOf[source]), duration \in HoldsFor[KindOf[source]] :
        /\ nextAdmission' = nextAdmission + 1
        /\ \/ Admit(AfterRemoval(surfaces, transients, Victim, nextOwnerEpoch + 1),
                    Without(transients, Victim), NewEvent(source, n, duration, targets), 2)
           \/ Admit(surfaces, transients, NewEvent(source, n, duration, targets), 1)
  BY DEF AdmitTransient
<1> DEFINE e == NewEvent(source, n, duration, targets)
<1>3. e \in Events
  <2>1. duration \in Nat /\ FreshFor[KindOf[source]] \in Nat
    BY KindsAssumption, TimesAssumption
  <2>2. targets \in SUBSET Surfaces
    BY <1>1 DEF TargetSets, attached, GoodSurfaces
  <2> QED BY <2>1, <2>2 DEF NewEvent, Events
<1> HIDE DEF e
<1>4. /\ GoodSurfaces(AfterRemoval(surfaces, transients, Victim, nextOwnerEpoch + 1))
      /\ GoodMail(Without(transients, Victim))
      /\ DOMAIN Without(transients, Victim) \subseteq DOMAIN transients
  <2> DEFINE id == Victim
  <2> HIDE DEF id
  <2>1. nextOwnerEpoch + 1 \in Nat /\ GoodMail(transients)
    BY <1>1 DEF Mailbox, Numbers
  <2>2. GoodSurfaces(AfterRemoval(surfaces, transients, id, nextOwnerEpoch + 1))
    BY <1>1, <2>1, AfterRemovalType
  <2>3. GoodMail(Without(transients, id))
        /\ DOMAIN Without(transients, id) \subseteq DOMAIN transients
    BY <2>1, WithoutType
  <2> QED BY <2>2, <2>3 DEF id
<1>5. CASE Admit(AfterRemoval(surfaces, transients, Victim, nextOwnerEpoch + 1),
                 Without(transients, Victim), e, 2)
  BY <1>2, <1>3, <1>4, <1>5, AdmitType
<1>6. CASE Admit(surfaces, transients, e, 1)
  BY <1>1, <1>2, <1>3, <1>6, AdmitType DEF Mailbox
<1> QED
  BY <1>2, <1>5, <1>6 DEF e

LEMMA RequestTransientType ==
    ASSUME TypeOK, NEW call \in Jobs, RequestTransient(call)
    PROVE  TypeOK'
<1>1. call.source \in Sources /\ call.revision \in Nat
  BY KnownJobs DEF RequestTransient
<1>2. GoodSurfaces(surfaces)' /\ Mailbox' /\ Numbers'
  BY <1>1, RenewTransientType, AdmitTransientType DEF RequestTransient
<1>3. Handling'
  BY <1>2, CompleteType DEF RequestTransient, Mailbox
<1> QED
  BY <1>2, <1>3, TypePartsNext

LEMMA RefuseTransientType ==
    ASSUME TypeOK, NEW call \in Jobs, RefuseTransient(call)
    PROVE  TypeOK'
BY RefuseType DEF RefuseTransient

LEMMA RejectTransientType ==
    ASSUME TypeOK, NEW call \in Jobs, RejectTransient(call)
    PROVE  TypeOK'
<1>1. GoodSurfaces(surfaces) /\ Mailbox /\ Numbers /\ Handling
  BY TypeParts
<1>2. GoodSurfaces(surfaces)' /\ Mailbox' /\ Numbers'
  BY <1>1 DEF RejectTransient, GoodSurfaces, Mailbox, GoodMail, Numbers
<1>3. Handling'
  BY <1>1, KnownJobs DEF RejectTransient, Return, Handling
<1> QED
  BY <1>2, <1>3, TypePartsNext

LEMMA InvalidateTransientType ==
    ASSUME TypeOK, NEW source, InvalidateTransient(source)
    PROVE  TypeOK'
<1>1. GoodSurfaces(surfaces) /\ Mailbox /\ Numbers /\ Handling
  BY TypeParts
<1>2. CASE PendingOf(source) = {}
  BY <1>2, RefuseType DEF InvalidateTransient
<1>3. CASE PendingOf(source) # {}
  <2>1. PICK id \in PendingOf(source) :
          /\ surfaces' = AfterRemoval(surfaces, transients, id, nextOwnerEpoch + 1)
          /\ transients' = Without(transients, id)
    BY <1>3 DEF InvalidateTransient
  <2>2. CountEpochs(1) /\ UNCHANGED <<nextAdmission, modalFlow, modalHostToken>> /\ Complete
    BY <1>3 DEF InvalidateTransient
  <2>3. GoodSurfaces(surfaces')
    BY <1>1, <2>1, AfterRemovalType DEF Mailbox, Numbers
  <2>4. GoodMail(transients') /\ DOMAIN transients' \subseteq DOMAIN transients
    BY <1>1, <2>1, WithoutType DEF Mailbox
  <2>5. Mailbox' /\ Numbers' /\ Handling'
    BY <1>1, <2>2, <2>4, CompleteType, CountEpochsType DEF Mailbox, Numbers
  <2> QED BY <2>3, <2>5, TypePartsNext
<1> QED BY <1>2, <1>3

LEMMA EndedTaskType ==
    ASSUME NEW r, GoodRecord(r), NEW s \in Surfaces, NEW epoch, NEW newEpoch \in Epochs,
           GoodMail(transients)
    PROVE  GoodRecord(EndedTask(r, s, epoch, newEpoch))
<1>1. GoodRecord(RestoreNext(r, s, transients, newEpoch))
  BY RestoreNextType
<1>2. GoodRecord([r EXCEPT !.restoration = {f \in @ : ~IsTask(f.owner, epoch)}])
  BY FS_Subset DEF GoodRecord, Records
<1> QED
  BY <1>1, <1>2 DEF EndedTask

LEMMA FinishInteractiveType ==
    ASSUME TypeOK, NEW call \in Jobs, FinishInteractive(call)
    PROVE  TypeOK'
<1>1. GoodSurfaces(surfaces) /\ Mailbox /\ Numbers /\ Handling
  BY TypeParts
<1>2. CASE ~\E s \in attached : HoldsTask(surfaces[s], call.epoch)
  BY <1>2, RefuseType DEF FinishInteractive
<1>3. CASE \E s \in attached : HoldsTask(surfaces[s], call.epoch)
  <2>1. PICK s \in attached :
          surfaces' = [surfaces EXCEPT ![s] =
              EndedTask(surfaces[s], s, call.epoch, <<nextOwnerEpoch + 1, s>>)]
    BY <1>3 DEF FinishInteractive
  <2>2. /\ CountEpochs(1)
        /\ UNCHANGED <<transients, nextAdmission, modalFlow, modalHostToken>>
        /\ Complete
    BY <1>3 DEF FinishInteractive
  <2> DEFINE next == EndedTask(surfaces[s], s, call.epoch, <<nextOwnerEpoch + 1, s>>)
  <2>3. s \in DOMAIN surfaces /\ GoodRecord(surfaces[s]) /\ s \in Surfaces
    BY <1>1, GoodAt DEF attached
  <2>4. GoodRecord(next)
    BY <1>1, <2>3, EndedTaskType, EpochTypes DEF Mailbox, Numbers
  <2> HIDE DEF next
  <2>5. GoodSurfaces(surfaces')
    BY <1>1, <2>1, <2>3, <2>4, GoodExcept DEF next
  <2>6. Mailbox' /\ Numbers' /\ Handling'
    <3>1. GoodMail(transients')
      BY <1>1, <2>2 DEF Mailbox
    <3> QED BY <1>1, <2>2, <3>1, CompleteType, CountEpochsType DEF Mailbox, Numbers
  <2> QED BY <2>5, <2>6, TypePartsNext
<1> QED BY <1>2, <1>3

(* The surfaces without their tasks.                                       *)
LEMMA WithoutTasksType ==
    ASSUME GoodSurfaces(surfaces)
    PROVE  GoodSurfaces(WithoutTasks) /\ DOMAIN WithoutTasks = DOMAIN surfaces
<1>1. \A s \in DOMAIN surfaces : GoodRecord(WithoutTasks[s])
  BY GoodAt, ForceIdleType DEF WithoutTasks, attached
<1>2. WithoutTasks = [s \in DOMAIN surfaces |-> WithoutTasks[s]]
  BY DEF WithoutTasks, attached
<1>3. DOMAIN surfaces \in SUBSET Surfaces
  BY DEF GoodSurfaces
<1> QED
  BY <1>1, <1>2, <1>3, GoodPointwise

LEMMA OpenInteractiveType ==
    ASSUME TypeOK, NEW kind \in Tasks, NEW target \in Surfaces, OpenInteractive(kind, target)
    PROVE  TypeOK'
<1>1. GoodSurfaces(surfaces) /\ Mailbox /\ Numbers /\ Handling
  BY TypeParts
<1>2. target \in DOMAIN surfaces /\ GoodRecord(surfaces[target]) /\ kind \in Kinds
  BY <1>1, GoodAt, KindsAssumption, RankBands DEF OpenInteractive, attached
<1>3. /\ CountEpochs(1)
      /\ UNCHANGED <<transients, nextAdmission, modalFlow, modalHostToken, job, doomed>>
  BY DEF OpenInteractive
<1>4. CASE surfaces[target].owner.kind = kind
  <2>1. /\ surfaces' = [surfaces EXCEPT ![target] = AskFocus(surfaces[target])]
        /\ published' = TRUE
        /\ UNCHANGED scheduler
    BY <1>4 DEF OpenInteractive
  <2>2. GoodSurfaces(surfaces')
    BY <1>1, <1>2, <2>1, AskFocusType, GoodExcept
  <2>3. Mailbox' /\ Numbers' /\ Handling'
    BY <1>1, <1>3, <2>1, CountEpochsType DEF Mailbox, GoodMail, Numbers, Handling
  <2> QED BY <2>2, <2>3, TypePartsNext
<1>5. CASE surfaces[target].owner.kind # kind
  <2>1. /\ surfaces' = Opened(kind, target)
        /\ published' = TRUE
        /\ scheduler' = Schedule(transients)
    BY <1>5 DEF OpenInteractive
  <2>2. GoodSurfaces(WithoutTasks) /\ target \in DOMAIN WithoutTasks
    BY <1>1, <1>2, WithoutTasksType
  <2> DEFINE r == CaptureCurrent(WithoutTasks[target])
             next == EnterOwner(r, kind, <<nextOwnerEpoch + 1, target>>, 1)
  <2>3. GoodRecord(r)
    BY <2>2, GoodAt, CaptureCurrentType
  <2> HIDE DEF r
  <2>4. GoodRecord(next)
    BY <1>1, <1>2, <2>3, EnterOwnerType, EpochTypes DEF Numbers
  <2>5. Opened(kind, target) = [WithoutTasks EXCEPT ![target] = next]
    BY DEF Opened, r
  <2> HIDE DEF next
  <2>6. GoodSurfaces(surfaces')
    <3> DEFINE srf == WithoutTasks
    <3> HIDE DEF srf
    <3>1. surfaces' = [srf EXCEPT ![target] = next]
      BY <2>1, <2>5 DEF srf
    <3>2. GoodSurfaces(srf) /\ target \in DOMAIN srf
      BY <2>2 DEF srf
    <3> QED BY <2>4, <3>1, <3>2, GoodExcept
  <2>7. Mailbox' /\ Numbers' /\ Handling'
    <3>1. scheduler' \in Nat \cup {Stopped}
      BY <1>1, <2>1, ScheduleType DEF Mailbox
    <3> QED BY <1>1, <1>3, <2>1, <3>1, CountEpochsType DEF Mailbox, GoodMail, Numbers, Handling
  <2> QED BY <2>6, <2>7, TypePartsNext
<1> QED BY <1>4, <1>5

LEMMA ResetToIdleType ==
    ASSUME TypeOK, NEW s, ResetToIdle(s)
    PROVE  TypeOK'
<1>1. GoodSurfaces(surfaces) /\ Mailbox /\ Numbers /\ Handling
  BY TypeParts
<1>2. /\ s \in DOMAIN surfaces
      /\ surfaces' = [surfaces EXCEPT ![s] = ForceIdle(surfaces[s])]
  BY DEF ResetToIdle, attached
<1>3. GoodSurfaces(surfaces')
  BY <1>1, <1>2, GoodAt, ForceIdleType, GoodExcept
<1>4. GoodMail(transients') /\ Mailbox' /\ Numbers'
  BY <1>1 DEF ResetToIdle, Mailbox, GoodMail, Numbers
<1>5. Handling'
  BY <1>4, CompleteType DEF ResetToIdle
<1> QED
  BY <1>3, <1>4, <1>5, TypePartsNext

LEMMA PrepareSurfaceDisableType ==
    ASSUME TypeOK, NEW s, NEW replacement, PrepareSurfaceDisable(s, replacement)
    PROVE  TypeOK'
<1>1. GoodSurfaces(surfaces) /\ Mailbox /\ Numbers /\ Handling
  BY TypeParts
<1> DEFINE task == surfaces[s].owner
           next == EnterOwner(CaptureCurrent(surfaces[replacement]), task.kind, task.epoch,
                              task.revision + 1)
           emptied == [surfaces EXCEPT ![s] = ForceIdle(surfaces[s])]
<1>2. s \in DOMAIN surfaces /\ replacement \in DOMAIN surfaces /\ s # replacement
  BY DEF PrepareSurfaceDisable, attached
<1>3. surfaces' = [emptied EXCEPT ![replacement] = next]
  BY <1>2 DEF PrepareSurfaceDisable
<1>4. GoodSurfaces(emptied) /\ DOMAIN emptied = DOMAIN surfaces
  BY <1>1, <1>2, GoodAt, ForceIdleType, GoodExcept
<1>5. task.kind \in Kinds /\ task.epoch \in Epochs /\ task.revision + 1 \in Nat
  BY <1>1, <1>2, GoodAt DEF GoodRecord, Records, Owners
<1> HIDE DEF task, emptied
<1>6. GoodRecord(CaptureCurrent(surfaces[replacement]))
  BY <1>1, <1>2, GoodAt, CaptureCurrentType
<1>7. GoodRecord(next)
  BY <1>5, <1>6, EnterOwnerType
<1> HIDE DEF next
<1>8. GoodSurfaces(surfaces')
  BY <1>2, <1>3, <1>4, <1>7, GoodExcept
<1>9. Mailbox' /\ Numbers' /\ Handling'
  BY <1>1 DEF PrepareSurfaceDisable, Mailbox, GoodMail, Numbers, Handling
<1> QED
  BY <1>8, <1>9, TypePartsNext

-----------------------------------------------------------------------------
(* The modal and the surfaces that come and go.                            *)

LEMMA RefreshedType ==
    ASSUME NEW r, GoodRecord(r)
    PROVE  GoodRecord([r EXCEPT !.owner.revision = @ + 1, !.owner.visible = FALSE,
                                !.owner.focusPending = TRUE])
<1>1. r.owner \in Owners /\ r.owner.revision + 1 \in Nat
  BY DEF GoodRecord, Records, Owners
<1>2. ASSUME NEW o \in Owners, NEW m \in Nat
      PROVE  [o EXCEPT !.revision = m, !.visible = FALSE, !.focusPending = TRUE] \in Owners
  BY <1>2 DEF Owners
<1>3. GoodRecord([r EXCEPT !.owner = [r.owner EXCEPT !.revision = r.owner.revision + 1,
                                          !.visible = FALSE, !.focusPending = TRUE]])
  BY <1>1, <1>2 DEF GoodRecord, Records
<1>4. [r EXCEPT !.owner.revision = @ + 1, !.owner.visible = FALSE, !.owner.focusPending = TRUE] =
      [r EXCEPT !.owner = [r.owner EXCEPT !.revision = r.owner.revision + 1,
                                          !.visible = FALSE, !.focusPending = TRUE]]
  BY DEF GoodRecord, Records
<1> QED BY <1>3, <1>4

LEMMA SyncPolkitModalType ==
    ASSUME TypeOK, NEW flow \in Nat, SyncPolkitModal(flow)
    PROVE  TypeOK'
<1>1. GoodSurfaces(surfaces) /\ Mailbox /\ Numbers /\ Handling
  BY TypeParts
<1>2. /\ AppearModal(flow) \/ RefreshModal(flow) \/ ReleaseModal(flow)
      /\ modalFlow' = flow
      /\ CountEpochs(1)
      /\ UNCHANGED <<transients, nextAdmission>>
      /\ Complete
  BY DEF SyncPolkitModal
<1>3. ASSUME AppearModal(flow)
      PROVE  GoodSurfaces(surfaces)' /\ modalHostToken' \in Surfaces \cup {NoSurface}
  <2>1. CASE attached = {}
    BY <1>1, <1>3, <2>1 DEF AppearModal, GoodSurfaces, Numbers
  <2>2. CASE attached # {}
    <3>1. PICK target \in attached :
            surfaces' = Rehomed(surfaces, target, TRUE) /\ modalHostToken' = target
      BY <1>3, <2>2 DEF AppearModal
    <3>2. target \in DOMAIN surfaces /\ target \in Surfaces
      BY <1>1 DEF attached, GoodSurfaces
    <3> QED BY <1>1, <3>1, <3>2, RehomedType DEF Numbers
  <2> QED BY <2>1, <2>2
<1>4. ASSUME RefreshModal(flow)
      PROVE  GoodSurfaces(surfaces)' /\ modalHostToken' \in Surfaces \cup {NoSurface}
  <2>1. \A s \in DOMAIN surfaces : GoodRecord(surfaces'[s])
    BY <1>1, <1>4, GoodAt, RefreshedType DEF RefreshModal, attached
  <2>2. surfaces' = [s \in DOMAIN surfaces |-> surfaces'[s]] /\ UNCHANGED modalHostToken
    BY <1>4 DEF RefreshModal, attached
  <2>3. DOMAIN surfaces \in SUBSET Surfaces
    BY <1>1 DEF GoodSurfaces
  <2> QED BY <1>1, <2>1, <2>2, <2>3, GoodPointwise DEF Numbers
<1>5. ASSUME ReleaseModal(flow)
      PROVE  GoodSurfaces(surfaces)' /\ modalHostToken' \in Surfaces \cup {NoSurface}
  <2>1. \A s \in DOMAIN surfaces : GoodRecord(surfaces'[s])
    <3> TAKE s \in DOMAIN surfaces
    <3>1. GoodRecord(surfaces[s]) /\ s \in Surfaces /\ <<nextOwnerEpoch + 1, s>> \in Epochs
      BY <1>1, GoodAt, EpochTypes DEF Numbers
    <3>2. GoodRecord(RestoreNext(surfaces[s], s, transients, <<nextOwnerEpoch + 1, s>>))
      BY <1>1, <3>1, RestoreNextType DEF Mailbox
    <3> QED BY <1>5, <3>1, <3>2 DEF ReleaseModal, attached
  <2>2. surfaces' = [s \in DOMAIN surfaces |-> surfaces'[s]] /\ modalHostToken' = NoSurface
    BY <1>5 DEF ReleaseModal, attached
  <2>3. DOMAIN surfaces \in SUBSET Surfaces
    BY <1>1 DEF GoodSurfaces
  <2> QED BY <1>1, <2>1, <2>2, <2>3, GoodPointwise DEF Numbers
<1>6. GoodSurfaces(surfaces)' /\ modalHostToken' \in Surfaces \cup {NoSurface}
  BY <1>1, <1>2, <1>3, <1>4, <1>5 DEF Numbers
<1>7. GoodMail(transients') /\ Mailbox' /\ Numbers'
  BY <1>1, <1>2, <1>6, CountEpochsType DEF Mailbox, GoodMail, Numbers
<1>8. Handling'
  BY <1>2, <1>7, CompleteType
<1> QED
  BY <1>6, <1>7, <1>8, TypePartsNext

LEMMA AttachSurfaceType ==
    ASSUME TypeOK, NEW s \in Surfaces, AttachSurface(s)
    PROVE  TypeOK'
<1>1. GoodSurfaces(surfaces) /\ Mailbox /\ Numbers /\ Handling
  BY TypeParts
<1> DEFINE srf == [t \in attached \cup {s} |-> IF t = s THEN NewRecord ELSE surfaces[t]]
<1>2. GoodSurfaces(srf)
  <2>1. \A t \in attached \cup {s} : GoodRecord(srf[t])
    BY <1>1, GoodAt, NewRecordType DEF attached
  <2>2. attached \cup {s} \in SUBSET Surfaces
    BY <1>1 DEF GoodSurfaces, attached
  <2>3. srf = [t \in attached \cup {s} |-> srf[t]]
    OBVIOUS
  <2> HIDE DEF srf
  <2> QED BY <2>1, <2>2, <2>3, GoodPointwise
<1>3. \/ /\ surfaces' = srf
         /\ UNCHANGED modalHostToken
      \/ \E target \in DOMAIN srf :
            surfaces' = Rehomed(srf, target, FALSE) /\ modalHostToken' = target
  BY DEF AttachSurface
<1>4. /\ CountEpochs(1)
      /\ UNCHANGED <<transients, nextAdmission, modalFlow>>
      /\ Complete
  BY DEF AttachSurface
<1> HIDE DEF srf
<1>5. GoodSurfaces(surfaces') /\ modalHostToken' \in Surfaces \cup {NoSurface}
  BY <1>1, <1>2, <1>3, RehomedType DEF Numbers, GoodSurfaces
<1>6. GoodMail(transients') /\ Mailbox' /\ Numbers'
  BY <1>1, <1>4, <1>5, CountEpochsType DEF Mailbox, GoodMail, Numbers
<1>7. Handling'
  BY <1>4, <1>6, CompleteType
<1> QED
  BY <1>5, <1>6, <1>7, TypePartsNext

LEMMA DetachSurfaceType ==
    ASSUME TypeOK, NEW s \in Surfaces, DetachSurface(s)
    PROVE  TypeOK'
<1>1. GoodSurfaces(surfaces) /\ Mailbox /\ Numbers /\ Handling
  BY TypeParts
<1>2. surfaces' = [t \in DOMAIN surfaces \ {s} |-> surfaces[t]] /\ s \in DOMAIN surfaces
  BY DEF DetachSurface, Restrict, attached
<1>3. GoodSurfaces(surfaces')
  BY <1>1, <1>2 DEF GoodSurfaces
<1>4. /\ DOMAIN transients' = DOMAIN transients
      /\ transients' = [i \in DOMAIN transients' |-> transients'[i]]
      /\ \A i \in DOMAIN transients : transients'[i] \in Events
  <2>1. transients' = [i \in DOMAIN transients |->
            [transients[i] EXCEPT !.targets = @ \ {s}, !.visible = @ \ {s}]]
    BY DEF DetachSurface
  <2>2. \A i \in DOMAIN transients : transients[i] \in Events
    BY <1>1 DEF Mailbox, GoodMail
  <2> QED BY <2>1, <2>2 DEF Events
<1>5. Mailbox'
  BY <1>1, <1>4 DEF DetachSurface, Mailbox, GoodMail
<1>6. Numbers'
  BY <1>1 DEF DetachSurface, Numbers
<1>7. job' \in Jobs
  <2>1. surfaces[s].owner \in Owners
    BY <1>1, <1>2, GoodAt DEF GoodRecord, Records
  <2> DEFINE lost == s = modalHostToken
  <2>2. lost \in BOOLEAN
    OBVIOUS
  <2> HIDE DEF lost
  <2>3. DetachCall(lost, surfaces[s].owner) \in Jobs
    BY <2>1, <2>2 DEF DetachCall, Jobs
  <2> QED BY <2>3 DEF DetachSurface, lost
<1>8. Handling'
  BY <1>1, <1>4, <1>7 DEF DetachSurface, Handling
<1> QED
  BY <1>3, <1>5, <1>6, <1>8, TypePartsNext

LEMMA FinishDetachType ==
    ASSUME TypeOK, FinishDetach
    PROVE  TypeOK'
<1>1. GoodSurfaces(surfaces) /\ Mailbox /\ Numbers /\ Handling
  BY TypeParts
<1>2. job.task \in Owners
  BY <1>1, KnownJobs DEF FinishDetach, Handling
<1>3. \/ UNCHANGED <<surfaces, modalHostToken>>
      \/ \E target \in attached :
            surfaces' = Rehomed(surfaces, target, FALSE) /\ modalHostToken' = target
      \/ \E target \in attached :
            surfaces' = Transferred(target, job.task) /\ UNCHANGED modalHostToken
  BY DEF FinishDetach
<1>4. ASSUME \E target \in attached : surfaces' = Transferred(target, job.task)
      PROVE  GoodSurfaces(surfaces)'
  <2>1. PICK target \in attached : surfaces' = Transferred(target, job.task)
    BY <1>4
  <2> DEFINE r == CaptureCurrent(surfaces[target])
             next == EnterOwner(r, job.task.kind, job.task.epoch, 1)
  <2>2. target \in DOMAIN surfaces /\ GoodRecord(r)
    BY <1>1, GoodAt, CaptureCurrentType DEF attached
  <2>3. job.task.kind \in Kinds /\ job.task.epoch \in Epochs
    BY <1>2 DEF Owners
  <2>4. surfaces' = [surfaces EXCEPT ![target] = next]
    BY <2>1 DEF Transferred
  <2> HIDE DEF r
  <2>5. GoodRecord(next)
    BY <2>2, <2>3, EnterOwnerType
  <2> HIDE DEF next
  <2> QED BY <1>1, <2>2, <2>4, <2>5, GoodExcept
<1>5. GoodSurfaces(surfaces)'
  BY <1>1, <1>3, <1>4, RehomedType DEF Numbers, attached
<1>6. modalHostToken' \in Surfaces \cup {NoSurface}
  BY <1>1, <1>3 DEF Numbers, attached, GoodSurfaces
<1>7. CountEpochs(1) /\ UNCHANGED <<transients, nextAdmission, modalFlow>> /\ Complete
  BY DEF FinishDetach
<1>8. GoodMail(transients') /\ Mailbox' /\ Numbers'
  BY <1>1, <1>6, <1>7, CountEpochsType DEF Mailbox, GoodMail, Numbers
<1>9. Handling'
  BY <1>7, <1>8, CompleteType
<1> QED
  BY <1>5, <1>8, <1>9, TypePartsNext

LEMMA TimerFiresType ==
    ASSUME TypeOK, NEW call, TimerFires(call)
    PROVE  TypeOK'
<1>1. GoodSurfaces(surfaces) /\ Mailbox /\ Numbers /\ Handling
  BY TypeParts
<1>2. GoodSurfaces(surfaces)' /\ GoodMail(transients') /\ Mailbox' /\ Numbers'
  BY <1>1 DEF TimerFires, GoodSurfaces, Mailbox, GoodMail, Numbers
<1>3. Handling'
  BY <1>2, CompleteType DEF TimerFires
<1> QED
  BY <1>2, <1>3, TypePartsNext

LEMMA TickType ==
    ASSUME TypeOK, Tick
    PROVE  TypeOK'
<1>1. GoodSurfaces(surfaces) /\ Mailbox /\ Numbers /\ Handling
  BY TypeParts
<1>2. /\ DOMAIN transients' = DOMAIN transients
      /\ transients' = [i \in DOMAIN transients' |-> transients'[i]]
      /\ \A i \in DOMAIN transients : transients'[i] \in Events
  <2>1. transients' = [i \in DOMAIN transients |->
            [transients[i] EXCEPT !.fresh = Elapse(@), !.hold = Elapse(@)]]
    BY DEF Tick
  <2>2. \A i \in DOMAIN transients : transients[i] \in Events
    BY <1>1 DEF Mailbox, GoodMail
  <2>3. \A n \in Nat : Elapse(n) \in Nat
    BY DEF Elapse
  <2>4. Elapse(NotHolding) = NotHolding
    BY DEF Elapse, NotHolding
  <2> QED BY <2>1, <2>2, <2>3, <2>4 DEF Events
<1>3. Mailbox'
  BY <1>1, <1>2 DEF Tick, Mailbox, GoodMail
<1>4. GoodSurfaces(surfaces)' /\ Numbers'
  BY <1>1 DEF Tick, GoodSurfaces, Numbers
<1>5. scheduler' \in Nat \cup {Stopped}
  <2>1. scheduler \in Nat \cup {Stopped} /\ scheduler' = Elapse(scheduler)
    BY <1>1 DEF Tick, Handling
  <2>2. \A n \in Nat : Elapse(n) \in Nat
    BY DEF Elapse
  <2>3. Elapse(Stopped) = Stopped
    BY DEF Elapse, Stopped
  <2> QED BY <2>1, <2>2, <2>3
<1>6. Handling'
  BY <1>1, <1>2, <1>5 DEF Tick, Handling
<1> QED
  BY <1>3, <1>4, <1>6, TypePartsNext

LEMMA InitType == Init => TypeOK
<1> SUFFICES ASSUME Init PROVE TypeOK
  OBVIOUS
<1>1. DOMAIN surfaces = {} /\ surfaces = [s \in {} |-> NewRecord]
  BY DEF Init
<1>2. DOMAIN transients = {} /\ transients = [i \in {} |-> NoEvent]
  BY DEF Init
<1>3. GoodSurfaces(surfaces) /\ Mailbox
  BY <1>1, <1>2 DEF GoodSurfaces, Mailbox, GoodMail
<1>4. Numbers /\ Handling
  BY KnownJobs DEF Init, Numbers, Handling
<1> QED
  BY <1>3, <1>4, TypeParts

-----------------------------------------------------------------------------
(* Every step preserves the type.                                          *)
LEMMA StepType == TypeOK /\ [Next]_vars => TypeOK'
<1> SUFFICES ASSUME TypeOK, [Next]_vars PROVE TypeOK'
  OBVIOUS
<1>1. ASSUME NEW call \in Calls, Handle(call)
      PROVE  TypeOK'
  <2>1. call \in Jobs
    BY CallTypes
  <2>2. CASE Expire(call)              BY <2>1, <2>2, ExpireType
  <2>3. CASE AcknowledgeVisible(call)  BY <2>1, <2>3, AcknowledgeType
  <2>4. CASE SetBaselineIntent(call)   BY <2>1, <2>4, SetBaselineIntentType
  <2>5. CASE RequestTransient(call)    BY <2>1, <2>5, RequestTransientType
  <2>6. CASE RefuseTransient(call)     BY <2>1, <2>6, RefuseTransientType
  <2>7. CASE RejectTransient(call)     BY <2>1, <2>7, RejectTransientType
  <2>8. CASE FinishInteractive(call)   BY <2>1, <2>8, FinishInteractiveType
  <2>9. CASE TimerFires(call)          BY <2>9, TimerFiresType
  <2> QED
    BY <1>1, <2>2, <2>3, <2>4, <2>5, <2>6, <2>7, <2>8, <2>9 DEF Handle
<1>2. CASE RemoveDoomed
  BY <1>2, RemoveDoomedType
<1>3. CASE \E source \in Sources : InvalidateTransient(source)
  BY <1>3, InvalidateTransientType
<1>4. CASE \E kind \in Tasks, s \in Surfaces : OpenInteractive(kind, s)
  BY <1>4, OpenInteractiveType
<1>5. CASE \E s \in Surfaces : ResetToIdle(s) \/ AttachSurface(s) \/ DetachSurface(s)
  BY <1>5, ResetToIdleType, AttachSurfaceType, DetachSurfaceType
<1>6. CASE \E s, replacement \in Surfaces : PrepareSurfaceDisable(s, replacement)
  BY <1>6, PrepareSurfaceDisableType
<1>7. CASE \E flow \in 0..MaxFlow : SyncPolkitModal(flow)
  BY <1>7, SyncPolkitModalType
<1>8. CASE FinishDetach
  BY <1>8, FinishDetachType
<1>9. CASE Tick
  BY <1>9, TickType
<1>10. CASE UNCHANGED vars
  <2>1. GoodSurfaces(surfaces)' /\ Mailbox' /\ Numbers' /\ Handling'
    BY <1>10, TypeParts DEF vars, GoodSurfaces, Mailbox, GoodMail, Numbers, Handling
  <2> QED BY <2>1, TypePartsNext
<1> QED
  BY <1>1, <1>2, <1>3, <1>4, <1>5, <1>6, <1>7, <1>8, <1>9, <1>10 DEF Next

(* The coordinator's state keeps its type, with any number of surfaces,    *)
(* sources and tasks and for all bounds.                                   *)
THEOREM TypeCorrect == Spec => []TypeOK
BY InitType, StepType, PTL DEF Spec

(***************************************************************************)
(* One focused task, one host for the modal.  Neither is inductive by      *)
(* itself: what comes back when a surface restores depends on the frames   *)
(* under it, and what a lost surface hands over depends on the handler that*)
(* is still running.  Roles says both.                                     *)
(*                                                                         *)
(* MailboxBounded speaks of the moments between handlers: an event that    *)
(* has lost its last surface is in the mailbox until the handler that lost *)
(* it has removed it.  InOrder says that such an event is doomed, and      *)
(* Armed that the timer is never late, not even inside a handler.          *)
(***************************************************************************)

Reserved == InteractiveKinds \cup {"polkitModal"}

PlainFrames(r) == \A f \in r.restoration : f.owner.kind \notin Reserved

(* The three roles a surface can have: it shows neither a task nor the     *)
(* modal, it shows a task, or it shows the modal over at most one task,    *)
(* which is then the first to return.                                      *)
Calm(r) == PlainFrames(r) /\ r.owner.kind \notin Reserved

Busy(r) == PlainFrames(r) /\ IsInteractive(r.owner)

Hosting(r) ==
    /\ r.owner.kind = "polkitModal"
    /\ r.owner.event = NoEvent
    /\ \A f \in r.restoration :
          /\ f.owner.kind # "polkitModal"
          /\ IsInteractive(f.owner) => \A g \in r.restoration : g # f => g.depth < f.depth

HostIsModal ==
    /\ modalHostToken # NoSurface => modalPresent /\ modalHostToken \in attached
    /\ \A s \in attached :
          IF s = modalHostToken THEN Hosting(surfaces[s])
          ELSE Calm(surfaces[s]) \/ (Busy(surfaces[s]) /\ ~modalPresent)

OneBusy == \A s, t \in attached : Busy(surfaces[s]) /\ Busy(surfaces[t]) => s = t

(* A handler that still has a task to hand over finds no other one, and the*)
(* modal is only without a host while a handler is about to give it one.   *)
LossUnderWay ==
    /\ job.op = "detach" /\ job.lostModal => modalHostToken = NoSurface
    /\ job.op = "detach" /\ ~job.lostModal /\ IsInteractive(job.task) =>
          ~modalPresent /\ \A s \in attached : Calm(surfaces[s])
    /\ modalPresent /\ attached # {} /\ modalHostToken = NoSurface =>
          job.op = "detach" /\ job.lostModal

Roles == HostIsModal /\ OneBusy /\ LossUnderWay

-----------------------------------------------------------------------------
(* One record at a time.                                                   *)

(* What keeps the role of a surface, or ends its task.                     *)
Keeps(r, q) ==
    /\ Calm(r) => Calm(q)
    /\ Busy(r) => Busy(q) \/ Calm(q)
    /\ Hosting(r) => Hosting(q)

(* A change of the owner's state, and frames that are dropped.             *)
LEMMA SameOwner ==
    ASSUME NEW r, NEW q, q.owner.kind = r.owner.kind, q.owner.event = r.owner.event,
           q.restoration \subseteq r.restoration
    PROVE  Keeps(r, q)
BY DEF Keeps, Calm, Busy, Hosting, PlainFrames, IsInteractive

LEMMA RolesDiffer ==
    ASSUME NEW r
    PROVE  /\ Calm(r) => ~Busy(r) /\ ~Hosting(r) /\ ~IsInteractive(r.owner)
           /\ Busy(r) => ~Hosting(r) /\ IsInteractive(r.owner)
           /\ Hosting(r) => ~IsInteractive(r.owner)
BY RankBands DEF Calm, Busy, Hosting, IsInteractive, Reserved

LEMMA BaselineCalm ==
    ASSUME NEW kind \in {"idle", "expanded"}
    PROVE  BaselineOwner(kind).kind = kind /\ kind \notin Reserved
BY RankBands DEF BaselineOwner, OwnerRecord, Reserved

LEMMA ForceIdleCalm ==
    ASSUME NEW r, GoodRecord(r)
    PROVE  Calm(ForceIdle(r))
BY BaselineCalm DEF ForceIdle, Calm, PlainFrames, GoodRecord, Records

LEMMA NewRecordCalm == Calm(NewRecord)
BY BaselineCalm DEF NewRecord, Calm, PlainFrames

LEMMA EnteredKind ==
    ASSUME NEW r, GoodRecord(r)
    PROVE  /\ \A kind, epoch, n :
                /\ EnterOwner(r, kind, epoch, n).owner.kind = kind
                /\ EnterOwner(r, kind, epoch, n).owner.event = NoEvent
                /\ EnterOwner(r, kind, epoch, n).restoration = r.restoration
           /\ \A id, e, epoch :
                /\ EnterEvent(r, id, e, epoch).owner.kind = EventKind(e)
                /\ EnterEvent(r, id, e, epoch).restoration = r.restoration
BY DEF EnterOwner, EnterEvent, OwnerRecord, GoodRecord, Records

(* What captureCurrent adds to the stack is the owner, at the top.         *)
LEMMA Captured ==
    ASSUME NEW r, GoodRecord(r)
    PROVE  \/ CaptureCurrent(r).restoration = r.restoration
           \/ /\ r.owner.kind # "polkitModal"
              /\ CaptureCurrent(r).restoration =
                    r.restoration \cup {[depth |-> NextDepth(r.restoration), owner |-> r.owner]}
BY DEF CaptureCurrent, GoodRecord, Records

LEMMA CaptureCalm ==
    ASSUME NEW r, GoodRecord(r), Calm(r)
    PROVE  PlainFrames(CaptureCurrent(r))
BY Captured DEF Calm, PlainFrames

(* Feedback only takes over a surface that shows no task and no modal.     *)
LEMMA EventCalm ==
    ASSUME NEW r, GoodRecord(r), NEW e \in Events, NEW id, NEW epoch, Calm(r)
    PROVE  Calm(EnterEvent(CaptureCurrent(r), id, e, epoch))
<1>1. GoodRecord(CaptureCurrent(r))
  BY CaptureCurrentType
<1>2. EventKind(e) \notin Reserved
  BY EventKindType, RankBands DEF Reserved
<1> QED
  BY <1>1, <1>2, EnteredKind, CaptureCalm DEF Calm, PlainFrames

LEMMA TaskBusy ==
    ASSUME NEW r, GoodRecord(r), NEW kind \in InteractiveKinds, NEW epoch, NEW n, Calm(r)
    PROVE  Busy(EnterOwner(CaptureCurrent(r), kind, epoch, n))
<1>1. GoodRecord(CaptureCurrent(r))
  BY CaptureCurrentType
<1> QED
  BY <1>1, EnteredKind, CaptureCalm DEF Busy, PlainFrames, IsInteractive

(* The first presentation of the modal covers what was on show.            *)
LEMMA ModalCovers ==
    ASSUME NEW r, GoodRecord(r), NEW epoch, NEW n, Calm(r) \/ Busy(r)
    PROVE  Hosting(EnterOwner(CaptureCurrent(r), "polkitModal", epoch, n))
<1> DEFINE c == CaptureCurrent(r)
           q == EnterOwner(c, "polkitModal", epoch, n)
           frame == [depth |-> NextDepth(r.restoration), owner |-> r.owner]
<1> SUFFICES Hosting(q)
  OBVIOUS
<1>1. GoodRecord(c)
  BY CaptureCurrentType
<1> HIDE DEF c
<1>2. q.owner.kind = "polkitModal" /\ q.owner.event = NoEvent /\ q.restoration = c.restoration
  BY <1>1, EnteredKind
<1> HIDE DEF q
<1>3. \A f \in r.restoration : f.depth < NextDepth(r.restoration)
  BY NextDepthAbove DEF GoodRecord, Records
<1>4. \A f \in r.restoration : f.owner.kind # "polkitModal" /\ ~IsInteractive(f.owner)
  BY DEF Calm, Busy, PlainFrames, Reserved, IsInteractive
<1>5. CASE c.restoration = r.restoration
  BY <1>2, <1>4, <1>5 DEF Hosting
<1>6. CASE r.owner.kind # "polkitModal" /\ c.restoration = r.restoration \cup {frame}
  <2>1. frame.owner = r.owner /\ frame.depth = NextDepth(r.restoration)
    OBVIOUS
  <2> HIDE DEF frame
  <2> QED BY <1>2, <1>3, <1>4, <1>6, <2>1 DEF Hosting
<1> QED
  BY <1>5, <1>6, Captured DEF c

LEMMA ModalAlone ==
    ASSUME NEW r, GoodRecord(r), NEW epoch, NEW n
    PROVE  Hosting(EnterOwner(ForceIdle(r), "polkitModal", epoch, n))
<1>1. GoodRecord(ForceIdle(r)) /\ ForceIdle(r).restoration = {}
  BY ForceIdleType DEF ForceIdle, GoodRecord, Records
<1> QED
  BY <1>1, EnteredKind DEF Hosting

(* A surface without a waiting task restores to something calm, and the    *)
(* host of the modal to whatever it covered.                               *)
LEMMA RestoreNextRole ==
    ASSUME NEW r, GoodRecord(r), NEW s \in Surfaces, NEW evs, GoodMail(evs),
           NEW epoch \in Epochs
    PROVE  /\ PlainFrames(r) => Calm(RestoreNext(r, s, evs, epoch))
           /\ Hosting(r) => Calm(RestoreNext(r, s, evs, epoch)) \/ Busy(RestoreNext(r, s, evs, epoch))
<1> DEFINE next == RestoreNext(r, s, evs, epoch)
<1>1. ToFrame(next, r, s, evs) \/ ToEvent(next, r, s, evs, epoch) \/ ToBaseline(next, r)
  BY RestoreNextCases
<1> SUFFICES /\ PlainFrames(r) => Calm(next)
             /\ Hosting(r) => Calm(next) \/ Busy(next)
  OBVIOUS
<1> HIDE DEF next
<1>2. r \in Records /\ \A f \in r.restoration : f.depth \in Nat /\ f.owner \in Owners
  BY DEF GoodRecord, Records, Frames
<1>3. CASE ToFrame(next, r, s, evs)
  <2>1. PICK f \in r.restoration :
          next = [r EXCEPT !.restoration = {g \in r.restoration : g.depth < f.depth},
                           !.owner = Restored(r, f)]
    BY <1>3 DEF ToFrame
  <2>2. /\ next.restoration = {g \in r.restoration : g.depth < f.depth}
        /\ next.owner = Restored(r, f)
    BY <1>2, <2>1 DEF Records
  <2>3. next.owner.kind = f.owner.kind
    BY <1>2, <2>2 DEF Restored, Owners
  <2>4. ASSUME PlainFrames(r) PROVE Calm(next)
    BY <2>2, <2>3, <2>4 DEF PlainFrames, Calm
  <2>5. ASSUME Hosting(r) PROVE Calm(next) \/ Busy(next)
    <3>1. \A g \in next.restoration : ~IsInteractive(g.owner) /\ g.owner.kind # "polkitModal"
      <4> SUFFICES ASSUME NEW g \in next.restoration, IsInteractive(g.owner) PROVE FALSE
        BY <2>2, <2>5 DEF Hosting
      <4>1. g \in r.restoration /\ g.depth < f.depth
        BY <2>2
      <4>2. g # f => f.depth < g.depth
        BY <2>5, <4>1 DEF Hosting
      <4> QED BY <1>2, <4>1, <4>2
    <3>2. PlainFrames(next)
      BY <3>1 DEF PlainFrames, Reserved, IsInteractive
    <3>3. f.owner.kind # "polkitModal"
      BY <2>5 DEF Hosting
    <3> QED BY <2>3, <3>2, <3>3 DEF Calm, Busy, IsInteractive, Reserved
  <2> QED BY <2>4, <2>5
<1>4. CASE ToEvent(next, r, s, evs, epoch)
  <2>1. PICK i \in PendingFor(r, s, evs), below \in SUBSET r.restoration :
          /\ \A f \in below : \E top \in r.restoration : f.depth < top.depth
          /\ next = EnterEvent([r EXCEPT !.restoration = below], i, evs[i], epoch)
    BY <1>4 DEF ToEvent
  <2> DEFINE q == [r EXCEPT !.restoration = below]
  <2>2. q.restoration = below /\ GoodRecord(q)
    BY FS_Subset DEF GoodRecord, Records
  <2>3. evs[i] \in Events
    BY EventRankType, PendingForType
  <2>4. next = EnterEvent(q, i, evs[i], epoch)
    BY <2>1
  <2> HIDE DEF q
  <2>5. next.restoration = below /\ next.owner.kind = EventKind(evs[i])
    BY <2>2, <2>4, EnteredKind
  <2>6. next.owner.kind \notin Reserved
    BY <2>3, <2>5, EventKindType, RankBands DEF Reserved
  <2>7. ASSUME PlainFrames(r) PROVE Calm(next)
    BY <2>5, <2>6, <2>7 DEF PlainFrames, Calm
  <2>8. ASSUME Hosting(r) PROVE Calm(next)
    <3>1. \A g \in below : ~IsInteractive(g.owner) /\ g.owner.kind # "polkitModal"
      <4> SUFFICES ASSUME NEW g \in below, IsInteractive(g.owner) PROVE FALSE
        BY <2>8 DEF Hosting
      <4>1. PICK top \in r.restoration : g.depth < top.depth
        BY <2>1
      <4>2. top # g => top.depth < g.depth
        BY <2>8 DEF Hosting
      <4> QED BY <1>2, <4>1, <4>2
    <3> QED BY <2>5, <2>6, <3>1 DEF Calm, PlainFrames, Reserved, IsInteractive
  <2> QED BY <2>7, <2>8
<1>5. CASE ToBaseline(next, r)
  <2>1. PICK pending \in BOOLEAN :
          next = [r EXCEPT !.restoration = {},
                           !.owner = [BaselineOwner(BaselineKind(r)) EXCEPT
                                         !.focusPending = pending]]
    BY <1>5 DEF ToBaseline
  <2>2. BaselineKind(r) \in {"idle", "expanded"}
    BY DEF BaselineKind
  <2>3. BaselineOwner(BaselineKind(r)).kind \notin Reserved
    BY <2>2, BaselineCalm
  <2>4. BaselineOwner(BaselineKind(r)) \in Owners
    BY <2>2, BaselineOwnerType, RankBands
  <2>5. next.restoration = {} /\ next.owner.kind = BaselineOwner(BaselineKind(r)).kind
    BY <1>2, <2>1, <2>4 DEF Records, Owners
  <2> QED BY <2>3, <2>5 DEF Calm, PlainFrames
<1> QED
  BY <1>1, <1>3, <1>4, <1>5

-----------------------------------------------------------------------------
(* What most handlers do to the surfaces keeps their roles.                *)

LEMMA KeepsTwice ==
    ASSUME NEW a, NEW b, NEW c, Keeps(a, b), Keeps(b, c)
    PROVE  Keeps(a, c)
BY DEF Keeps

LEMMA RolesRank ==
    ASSUME NEW r, GoodRecord(r)
    PROVE  Busy(r) \/ Hosting(r) => Rank(r) \in 7..9
BY RankBands DEF Rank, Busy, Hosting, IsInteractive

LEMMA AfterRemovalKeeps ==
    ASSUME NEW srf, GoodSurfaces(srf), NEW evs, GoodMail(evs), NEW id, id # NoEvent,
           NEW n \in Nat, NEW s \in DOMAIN srf
    PROVE  Keeps(srf[s], AfterRemoval(srf, evs, id, n)[s])
<1> DEFINE p == [srf[s] EXCEPT !.restoration = {f \in @ : f.owner.event # id}]
           q == RestoreNext(p, s, Without(evs, id), <<n, s>>)
<1>1. GoodRecord(srf[s]) /\ s \in Surfaces
  BY GoodAt
<1>2. /\ p.owner = srf[s].owner
      /\ p.restoration \subseteq srf[s].restoration
      /\ GoodRecord(p)
  <2>1. IsFiniteSet({f \in srf[s].restoration : f.owner.event # id})
    BY <1>1, FS_Subset DEF GoodRecord
  <2> QED BY <1>1, <2>1 DEF GoodRecord, Records
<1>3. AfterRemoval(srf, evs, id, n)[s] = IF p.owner.event = id THEN q ELSE p
  BY DEF AfterRemoval
<1> HIDE DEF p
<1>4. PlainFrames(p) => Calm(q)
  BY <1>1, <1>2, WithoutType, EpochTypes, RestoreNextRole
<1> HIDE DEF q
<1>5. Keeps(srf[s], p)
  BY <1>2, SameOwner
<1>6. CASE p.owner.event = id
  BY <1>2, <1>3, <1>4, <1>5, <1>6 DEF Keeps, Calm, Busy, Hosting
<1>7. CASE p.owner.event # id
  BY <1>3, <1>5, <1>7
<1> QED BY <1>6, <1>7

LEMMA AfterProjectionKeeps ==
    ASSUME NEW srf, GoodSurfaces(srf), NEW id, NEW e \in Events, NEW n, NEW s \in DOMAIN srf
    PROVE  Keeps(srf[s], AfterProjection(srf, id, e, n)[s])
<1> DEFINE r == srf[s]
           q == EnterEvent(CaptureCurrent(r), id, e, <<n, s>>)
<1>1. GoodRecord(r)
  BY GoodAt
<1>2. \/ AfterProjection(srf, id, e, n)[s] = r
      \/ AfterProjection(srf, id, e, n)[s] = q /\ RankFor(EventKind(e)) > Rank(r)
  BY DEF AfterProjection
<1> HIDE DEF r
<1>3. Calm(r) => Calm(q)
  BY <1>1, EventCalm
<1> HIDE DEF q
<1>4. RankFor(EventKind(e)) \in 1..5
  BY EventKindType, RankBands
<1>5. CASE AfterProjection(srf, id, e, n)[s] = r
  BY <1>5, SameOwner DEF r
<1>6. CASE AfterProjection(srf, id, e, n)[s] = q /\ RankFor(EventKind(e)) > Rank(r)
  <2>1. ~Busy(r) /\ ~Hosting(r)
    BY <1>1, <1>4, <1>6, RolesRank
  <2> QED BY <1>3, <1>6, <2>1 DEF Keeps, r
<1> QED BY <1>2, <1>5, <1>6

LEMMA RenewedKeeps ==
    ASSUME NEW srf, GoodSurfaces(srf), NEW id, NEW n, NEW s \in DOMAIN srf
    PROVE  Keeps(srf[s], Renewed(srf, id, n)[s])
<1>1. srf[s] \in Records /\ srf[s].owner \in Owners
  BY GoodAt DEF GoodRecord, Records
<1> DEFINE q == Renewed(srf, id, n)[s]
<1>2. q.owner.kind = srf[s].owner.kind /\ q.owner.event = srf[s].owner.event
      /\ q.restoration = srf[s].restoration
  BY <1>1 DEF Renewed, Records, Owners
<1> QED BY <1>2, SameOwner

LEMMA AfterIntentKeeps ==
    ASSUME NEW old, GoodRecord(old), NEW s \in Surfaces, NEW value \in BOOLEAN,
           NEW explicit \in BOOLEAN, NEW epoch \in Epochs, GoodMail(transients)
    PROVE  Keeps(old, AfterIntent(old, s, value, explicit, epoch))
<1> DEFINE r == WithIntent(old, value, explicit)
           c == CaptureCurrent(r)
           opened == EnterOwner(c, "expanded", epoch, 1)
           shown == [opened EXCEPT !.owner.focusPending = r.explicit,
                                   !.owner.focusTarget = r.explicit]
           asked == AskFocus([r EXCEPT !.owner.focusTarget = TRUE])
           closed == [r EXCEPT !.owner.focusPending = FALSE, !.owner.focusTarget = FALSE]
           next == AfterIntent(old, s, value, explicit, epoch)
<1>1. r.owner = old.owner /\ r.restoration = old.restoration /\ GoodRecord(r)
  BY DEF WithIntent, GoodRecord, Records
<1>2. \/ next = shown /\ Rank(r) < RankFor("expanded")
      \/ next = RestoreNext(r, s, transients, epoch) /\ r.owner.kind = "expanded"
      \/ next = asked
      \/ next = closed
      \/ next = r
  BY DEF AfterIntent
<1> HIDE DEF r, next
<1>3. Keeps(old, r)
  BY <1>1, SameOwner
<1>4. Calm(r) => Calm(shown)
  <2>1. GoodRecord(c) /\ (Calm(r) => PlainFrames(c))
    BY <1>1, CaptureCurrentType, CaptureCalm
  <2> HIDE DEF c
  <2>2. GoodRecord(opened) /\ opened.owner.kind = "expanded" /\ opened.restoration = c.restoration
    <3>1. "expanded" \in Kinds /\ 1 \in Nat
      BY RankBands
    <3>2. GoodRecord(opened)
      BY <2>1, <3>1, EnterOwnerType
    <3>3. opened.owner.kind = "expanded" /\ opened.restoration = c.restoration
      BY <2>1, EnteredKind
    <3> QED BY <3>2, <3>3
  <2> HIDE DEF opened
  <2>3. shown.owner.kind = "expanded" /\ shown.restoration = opened.restoration
    BY <2>2 DEF GoodRecord, Records, Owners
  <2> HIDE DEF shown
  <2> QED BY <2>1, <2>2, <2>3, BaselineCalm DEF Calm, PlainFrames
<1>5. Keeps(r, asked)
  <2>1. asked.owner.kind = r.owner.kind /\ asked.owner.event = r.owner.event
        /\ asked.restoration = r.restoration
    BY <1>1 DEF AskFocus, GoodRecord, Records, Owners
  <2> HIDE DEF asked
  <2> QED BY <2>1, SameOwner
<1>6. Keeps(r, closed)
  <2>1. closed.owner.kind = r.owner.kind /\ closed.owner.event = r.owner.event
        /\ closed.restoration = r.restoration
    BY <1>1 DEF GoodRecord, Records, Owners
  <2> HIDE DEF closed
  <2> QED BY <2>1, SameOwner
<1> HIDE DEF shown, asked, closed
<1>7. Keeps(r, r)
  BY SameOwner
<1>8. CASE next = shown /\ Rank(r) < RankFor("expanded")
  <2>1. ~Busy(r) /\ ~Hosting(r)
    BY <1>1, <1>8, RolesRank, RankBands
  <2>2. Keeps(r, next)
    BY <1>4, <1>8, <2>1 DEF Keeps
  <2> QED BY <1>3, <2>2, KeepsTwice DEF next
<1>9. CASE next = RestoreNext(r, s, transients, epoch) /\ r.owner.kind = "expanded"
  <2>1. ~Busy(r) /\ ~Hosting(r)
    BY <1>9, BaselineCalm DEF Busy, Hosting, IsInteractive, Reserved
  <2>2. Calm(r) => Calm(next)
    BY <1>1, <1>9, RestoreNextRole DEF Calm
  <2>3. Keeps(r, next)
    BY <2>1, <2>2 DEF Keeps
  <2> QED BY <1>3, <2>3, KeepsTwice DEF next
<1>10. CASE next = asked \/ next = closed \/ next = r
  BY <1>3, <1>5, <1>6, <1>7, <1>10, KeepsTwice DEF next
<1> QED BY <1>2, <1>8, <1>9, <1>10

LEMMA EndedTaskKeeps ==
    ASSUME NEW r, GoodRecord(r), NEW s \in Surfaces, NEW epoch, NEW newEpoch \in Epochs,
           GoodMail(transients)
    PROVE  Keeps(r, EndedTask(r, s, epoch, newEpoch))
<1> DEFINE q == RestoreNext(r, s, transients, newEpoch)
           p == [r EXCEPT !.restoration = {f \in @ : ~IsTask(f.owner, epoch)}]
<1>1. EndedTask(r, s, epoch, newEpoch) = IF IsTask(r.owner, epoch) THEN q ELSE p
  BY DEF EndedTask
<1>2. PlainFrames(r) => Calm(q)
  BY RestoreNextRole
<1>3. Keeps(r, p)
  <2>1. p.owner = r.owner /\ p.restoration \subseteq r.restoration
    BY DEF GoodRecord, Records
  <2> HIDE DEF p
  <2> QED BY <2>1, SameOwner
<1> HIDE DEF p, q
<1>4. CASE IsTask(r.owner, epoch)
  <2>1. ~Hosting(r)
    BY <1>4, RolesDiffer DEF IsTask
  <2> QED BY <1>1, <1>2, <1>4, <2>1 DEF Keeps, Calm, Busy
<1> QED BY <1>1, <1>3, <1>4

(* The handler in progress goes on, or none that lost a surface is or was. *)
SameLoss == job' = job \/ (job.op # "detach" /\ job'.op # "detach")

LEMMA KeepsRoles ==
    ASSUME TypeOK, Roles, DOMAIN surfaces' = DOMAIN surfaces,
           \A s \in attached : Keeps(surfaces[s], surfaces'[s]),
           modalHostToken' = modalHostToken, modalPresent' <=> modalPresent, SameLoss
    PROVE  Roles'
<1>1. attached' = attached
  BY DEF attached
<1>2. \A s \in attached : Busy(surfaces'[s]) => Busy(surfaces[s])
  BY RolesDiffer DEF Roles, HostIsModal, Keeps
<1>3. HostIsModal'
  <2>1. ASSUME NEW s \in attached
        PROVE  IF s = modalHostToken THEN Hosting(surfaces'[s])
               ELSE Calm(surfaces'[s]) \/ (Busy(surfaces'[s]) /\ ~modalPresent)
    BY <2>1 DEF Roles, HostIsModal, Keeps
  <2> QED BY <1>1, <2>1 DEF Roles, HostIsModal, Calm, Busy, Hosting
<1>4. OneBusy'
  BY <1>1, <1>2 DEF Roles, OneBusy, Busy
<1>5. LossUnderWay'
  <2>1. (\A s \in attached : Calm(surfaces[s])) => \A s \in attached' : Calm(surfaces[s])'
    BY <1>1 DEF Keeps, Calm
  <2> QED BY <1>1, <2>1 DEF Roles, LossUnderWay, SameLoss
<1> QED BY <1>3, <1>4, <1>5 DEF Roles

(* The jobs that are not about a lost surface.                             *)
LEMMA JobsApart ==
    /\ NoJob.op # "detach"
    /\ \A call : Running(call) /\ call.op # "detach" => job.op # "detach"
    /\ \A call \in Calls : job = NoJob => call.op # "detach"
<1>1. NoJob.op # "detach"
  BY DEF NoJob
<1>2. ASSUME NEW call, Running(call), call.op # "detach" PROVE job.op # "detach"
  BY <1>1, <1>2 DEF Running, MayBegin, MayCall, MayEnter
<1>3. ASSUME NEW call \in Calls, job = NoJob PROVE call.op # "detach"
  BY <1>3 DEF Calls, Acks, AckCall, Intents, IntentCall, Requests, RequestCall, Finishes,
              FinishCall, TimerCall
<1> QED BY <1>1, <1>2, <1>3

-----------------------------------------------------------------------------
(* One lemma per action.  First those that keep the roles.                 *)

LEMMA RefuseRoles ==
    ASSUME TypeOK, Roles, NEW rearm, Refuse(rearm), job.op # "detach"
    PROVE  Roles'
<1>1. \A s \in attached : Keeps(surfaces[s], surfaces'[s])
  BY SameOwner DEF Refuse
<1>2. /\ DOMAIN surfaces' = DOMAIN surfaces
      /\ modalHostToken' = modalHostToken
      /\ modalPresent' <=> modalPresent
      /\ SameLoss
  BY JobsApart DEF Refuse, Return, modalPresent, SameLoss
<1> QED BY <1>1, <1>2, KeepsRoles

LEMMA ExpireRoles ==
    ASSUME TypeOK, Roles, NEW call \in Calls, Expire(call)
    PROVE  Roles'
<1>1. job = NoJob
  BY DEF Expire, MayBegin, MayCall, MayEnter
<1>2. \A s \in attached : Keeps(surfaces[s], surfaces'[s])
  BY SameOwner DEF Expire
<1>3. /\ DOMAIN surfaces' = DOMAIN surfaces
      /\ modalHostToken' = modalHostToken
      /\ modalPresent' <=> modalPresent
      /\ SameLoss
  BY <1>1, JobsApart DEF Expire, modalPresent, SameLoss
<1> QED BY <1>2, <1>3, KeepsRoles

LEMMA RemoveDoomedRoles ==
    ASSUME TypeOK, Roles, RemoveDoomed
    PROVE  Roles'
<1>1. GoodSurfaces(surfaces) /\ Mailbox /\ Numbers /\ Handling
  BY TypeParts
<1>2. PICK id \in doomed :
        /\ surfaces' = AfterRemoval(surfaces, transients, id, nextOwnerEpoch + 1)
        /\ UNCHANGED <<nextAdmission, modalFlow, modalHostToken, scheduler, job>>
  BY DEF RemoveDoomed
<1>3. id # NoEvent
  BY <1>1 DEF Handling, Mailbox, GoodMail, NoEvent
<1>4. DOMAIN surfaces' = DOMAIN surfaces
  BY <1>1, <1>2, AfterRemovalType DEF Mailbox, Numbers
<1>5. \A s \in attached : Keeps(surfaces[s], surfaces'[s])
  BY <1>1, <1>2, <1>3, AfterRemovalKeeps DEF Mailbox, Numbers, attached
<1> QED BY <1>2, <1>4, <1>5, KeepsRoles DEF modalPresent, SameLoss

LEMMA AcknowledgeRoles ==
    ASSUME TypeOK, Roles, NEW call \in Calls, AcknowledgeVisible(call)
    PROVE  Roles'
<1>1. GoodSurfaces(surfaces) /\ job.op # "detach"
  BY TypeParts, JobsApart DEF AcknowledgeVisible
<1>2. CASE ~IsCurrent(call)
  BY <1>1, <1>2, RefuseRoles DEF AcknowledgeVisible
<1>3. CASE IsCurrent(call)
  <2> DEFINE q == Acknowledged(surfaces[call.surface])
  <2>1. /\ call.surface \in attached
        /\ surfaces' = [surfaces EXCEPT ![call.surface] = q]
        /\ UNCHANGED <<nextAdmission, nextOwnerEpoch, modalFlow, modalHostToken>>
        /\ job' = NoJob
    BY <1>3 DEF AcknowledgeVisible, IsCurrent, Complete, Return
  <2>2. surfaces[call.surface] \in Records /\ surfaces[call.surface].owner \in Owners
    BY <1>1, <2>1, GoodAt DEF GoodRecord, Records, attached
  <2>3. /\ q.owner.kind = surfaces[call.surface].owner.kind
        /\ q.owner.event = surfaces[call.surface].owner.event
        /\ q.restoration = surfaces[call.surface].restoration
    BY <2>2 DEF Acknowledged, Records, Owners
  <2> HIDE DEF q
  <2>4. \A s \in attached : Keeps(surfaces[s], surfaces'[s])
    BY <2>1, <2>3, SameOwner DEF attached
  <2> QED BY <1>1, <2>1, <2>4, KeepsRoles, JobsApart DEF modalPresent, SameLoss
<1> QED BY <1>2, <1>3

LEMMA SetBaselineIntentRoles ==
    ASSUME TypeOK, Roles, NEW call \in Jobs, SetBaselineIntent(call)
    PROVE  Roles'
<1>1. GoodSurfaces(surfaces) /\ Mailbox /\ Numbers /\ job.op # "detach"
  BY TypeParts, JobsApart DEF SetBaselineIntent
<1>2. CASE call.surface \notin attached
  BY <1>1, <1>2, RefuseRoles DEF SetBaselineIntent
<1>3. CASE call.surface \in attached
  <2> DEFINE s == call.surface
             epoch == <<nextOwnerEpoch + 1, s>>
             next == AfterIntent(surfaces[s], s, call.value, call.explicit, epoch)
  <2>1. /\ s \in DOMAIN surfaces
        /\ surfaces' = [surfaces EXCEPT ![s] = next]
        /\ UNCHANGED <<transients, nextAdmission, modalFlow, modalHostToken>>
        /\ job' = NoJob
    BY <1>3 DEF SetBaselineIntent, attached, Complete, Return
  <2>2. GoodRecord(surfaces[s]) /\ s \in Surfaces
    BY <1>1, <2>1, GoodAt
  <2>3. call.value \in BOOLEAN /\ call.explicit \in BOOLEAN
    BY KnownJobs DEF SetBaselineIntent
  <2>4. epoch \in Epochs
    BY <1>1, <2>2, EpochTypes DEF Numbers
  <2> HIDE DEF epoch, s
  <2>5. Keeps(surfaces[s], next)
    BY <1>1, <2>2, <2>3, <2>4, AfterIntentKeeps DEF Mailbox
  <2> HIDE DEF next
  <2>6. \A t \in attached : Keeps(surfaces[t], surfaces'[t])
    BY <2>1, <2>5, SameOwner DEF attached
  <2> QED BY <1>1, <2>1, <2>6, KeepsRoles, JobsApart DEF modalPresent, SameLoss
<1> QED BY <1>2, <1>3

LEMMA FinishInteractiveRoles ==
    ASSUME TypeOK, Roles, NEW call \in Jobs, FinishInteractive(call)
    PROVE  Roles'
<1>1. GoodSurfaces(surfaces) /\ Mailbox /\ Numbers /\ job.op # "detach"
  BY TypeParts, JobsApart DEF FinishInteractive
<1>2. CASE ~\E s \in attached : HoldsTask(surfaces[s], call.epoch)
  BY <1>1, <1>2, RefuseRoles DEF FinishInteractive
<1>3. CASE \E s \in attached : HoldsTask(surfaces[s], call.epoch)
  <2>1. PICK s \in attached :
          surfaces' = [surfaces EXCEPT ![s] =
              EndedTask(surfaces[s], s, call.epoch, <<nextOwnerEpoch + 1, s>>)]
    BY <1>3 DEF FinishInteractive
  <2>2. UNCHANGED <<transients, nextAdmission, modalFlow, modalHostToken>> /\ job' = NoJob
    BY <1>3 DEF FinishInteractive, Complete, Return
  <2> DEFINE next == EndedTask(surfaces[s], s, call.epoch, <<nextOwnerEpoch + 1, s>>)
  <2>3. s \in DOMAIN surfaces /\ GoodRecord(surfaces[s]) /\ s \in Surfaces
    BY <1>1, GoodAt DEF attached
  <2>4. Keeps(surfaces[s], next)
    BY <1>1, <2>3, EndedTaskKeeps, EpochTypes DEF Mailbox, Numbers
  <2> HIDE DEF next
  <2>5. surfaces' = [surfaces EXCEPT ![s] = next]
    BY <2>1 DEF next
  <2>6. \A t \in attached : Keeps(surfaces[t], surfaces'[t])
    BY <2>3, <2>4, <2>5, SameOwner DEF attached
  <2> QED BY <1>1, <2>2, <2>5, <2>6, KeepsRoles, JobsApart DEF modalPresent, SameLoss
<1> QED BY <1>2, <1>3

LEMMA InvalidateTransientRoles ==
    ASSUME TypeOK, Roles, NEW source, InvalidateTransient(source)
    PROVE  Roles'
<1>1. GoodSurfaces(surfaces) /\ Mailbox /\ Numbers /\ job.op # "detach"
  BY TypeParts, JobsApart DEF InvalidateTransient, MayEnter, MayCall
<1>2. CASE PendingOf(source) = {}
  BY <1>1, <1>2, RefuseRoles DEF InvalidateTransient
<1>3. CASE PendingOf(source) # {}
  <2>1. PICK id \in PendingOf(source) :
          surfaces' = AfterRemoval(surfaces, transients, id, nextOwnerEpoch + 1)
    BY <1>3 DEF InvalidateTransient
  <2>2. UNCHANGED <<nextAdmission, modalFlow, modalHostToken>> /\ job' = NoJob
    BY <1>3 DEF InvalidateTransient, Complete, Return
  <2>3. id # NoEvent
    BY <1>1 DEF PendingOf, Mailbox, GoodMail, NoEvent
  <2>4. DOMAIN surfaces' = DOMAIN surfaces
    BY <1>1, <2>1, AfterRemovalType DEF Mailbox, Numbers
  <2>5. \A s \in attached : Keeps(surfaces[s], surfaces'[s])
    BY <1>1, <2>1, <2>3, AfterRemovalKeeps DEF Mailbox, Numbers, attached
  <2> QED BY <1>1, <2>2, <2>4, <2>5, KeepsRoles, JobsApart DEF modalPresent, SameLoss
<1> QED BY <1>2, <1>3

LEMMA QuietRoles ==
    ASSUME TypeOK, Roles, job.op # "detach", job'.op # "detach",
           UNCHANGED <<surfaces, modalFlow, modalHostToken>>
    PROVE  Roles'
<1>1. \A s \in attached : Keeps(surfaces[s], surfaces'[s])
  BY SameOwner
<1> QED BY <1>1, KeepsRoles DEF modalPresent, SameLoss

-----------------------------------------------------------------------------
(* A request: the projections of a renewed event, or of an admitted one,   *)
(* after the one it evicts is gone.                                        *)

(* A mailbox that is full has a victim, which no event in it ranks below.  *)
LEMMA VictimExists ==
    ASSUME Mailbox, IsFull
    PROVE  /\ Victim \in DOMAIN transients /\ Victim # NoEvent
           /\ \A j \in DOMAIN transients :
                 EventRank(transients, Victim) <= EventRank(transients, j)
<1>1. DOMAIN transients # {}
  <2> SUFFICES ASSUME DOMAIN transients = {} PROVE FALSE
    OBVIOUS
  <2>1. Cardinality(DOMAIN transients) = 0
    BY FS_EmptySet
  <2> QED BY <2>1, BoundsAssumption DEF IsFull
<1> DEFINE rank(i) == EventRank(transients, i)
           least == Min({rank(i) : i \in DOMAIN transients})
           lowest == {i \in DOMAIN transients : rank(i) = least}
           first == Min(lowest)
<1>2. \A i \in DOMAIN transients : rank(i) \in Nat /\ i \in Nat \ {0}
  BY EventRankType DEF Mailbox
<1> HIDE DEF rank
<1>3. least \in {rank(i) : i \in DOMAIN transients} /\ \A i \in DOMAIN transients : least <= rank(i)
  <2> DEFINE ranks == {rank(i) : i \in DOMAIN transients}
  <2>1. ranks \in SUBSET Nat /\ ranks # {}
    BY <1>1, <1>2
  <2> HIDE DEF ranks
  <2>2. Min(ranks) \in ranks /\ \A d \in ranks : Min(ranks) <= d
    BY <2>1, MinOfNaturals
  <2> QED BY <2>2 DEF ranks
<1> HIDE DEF least
<1>4. lowest \in SUBSET Nat /\ lowest # {}
  BY <1>2, <1>3
<1>5. first \in lowest /\ \A i \in lowest : first <= i
  BY <1>4, MinOfNaturals
<1> HIDE DEF first
<1>6. \A j \in DOMAIN transients :
        \/ rank(first) < rank(j)
        \/ rank(first) = rank(j) /\ first <= j
  BY <1>2, <1>3, <1>5
<1>7. /\ Victim \in DOMAIN transients
      /\ \A j \in DOMAIN transients :
            \/ rank(Victim) < rank(j)
            \/ rank(Victim) = rank(j) /\ Victim <= j
  BY <1>5, <1>6 DEF Victim, rank
<1>8. \A j \in DOMAIN transients : rank(Victim) <= rank(j)
  BY <1>2, <1>7
<1> QED BY <1>2, <1>7, <1>8 DEF NoEvent, rank

LEMMA RenewTransientKeeps ==
    ASSUME TypeOK, NEW source \in Sources, NEW n \in Nat, RenewTransient(source, n)
    PROVE  /\ DOMAIN surfaces' = DOMAIN surfaces
           /\ \A s \in attached : Keeps(surfaces[s], surfaces'[s])
<1>1. GoodSurfaces(surfaces) /\ Mailbox /\ Numbers
  BY TypeParts
<1> DEFINE Fresh(id, duration) ==
             [transients[id] EXCEPT !.revision = n, !.visible = {},
                                    !.fresh = FreshFor[KindOf[source]],
                                    !.hold = NotHolding, !.holdDuration = duration]
<1>2. PICK id \in PendingOf(source), duration \in HoldsFor[KindOf[source]] :
        surfaces' = AfterProjection(Renewed(surfaces, id, n), id, Fresh(id, duration),
                                    nextOwnerEpoch + 1)
  BY DEF RenewTransient
<1>3. id \in DOMAIN transients /\ transients[id] \in Events /\ id \in Nat
  BY <1>1 DEF PendingOf, Mailbox, GoodMail
<1>4. Fresh(id, duration) \in Events
  BY <1>3, KindsAssumption, TimesAssumption DEF Events
<1> DEFINE e == Fresh(id, duration)
           renewed == Renewed(surfaces, id, n)
<1> HIDE DEF e, Fresh
<1>5. GoodSurfaces(renewed) /\ DOMAIN renewed = DOMAIN surfaces
  <2>1. GoodSurfaces(Renewed(surfaces, id, n)) /\ DOMAIN Renewed(surfaces, id, n) = DOMAIN surfaces
    BY <1>1, RenewedType
  <2> QED BY <2>1
<1>6. \A s \in DOMAIN surfaces : Keeps(surfaces[s], renewed[s])
  BY <1>1, RenewedKeeps
<1> HIDE DEF renewed
<1>7. surfaces' = AfterProjection(renewed, id, e, nextOwnerEpoch + 1)
  BY <1>2 DEF e, renewed
<1>8. DOMAIN surfaces' = DOMAIN surfaces
  BY <1>5, <1>7 DEF AfterProjection
<1>9. \A s \in DOMAIN surfaces : Keeps(renewed[s], surfaces'[s])
  BY <1>4, <1>5, <1>7, AfterProjectionKeeps DEF e
<1> QED BY <1>6, <1>8, <1>9, KeepsTwice DEF attached

LEMMA AdmitTransientKeeps ==
    ASSUME TypeOK, NEW source \in Sources, NEW n \in Nat, AdmitTransient(source, n)
    PROVE  /\ DOMAIN surfaces' = DOMAIN surfaces
           /\ \A s \in attached : Keeps(surfaces[s], surfaces'[s])
<1>1. GoodSurfaces(surfaces) /\ Mailbox /\ Numbers
  BY TypeParts
<1> DEFINE spared == AfterRemoval(surfaces, transients, Victim, nextOwnerEpoch + 1)
           new == nextAdmission + 1
<1>2. PICK targets \in TargetSets(KindOf[source]), duration \in HoldsFor[KindOf[source]] :
        \/ /\ IsFull
           /\ surfaces' = AfterProjection(spared, new, NewEvent(source, n, duration, targets),
                                          nextOwnerEpoch + 2)
        \/ surfaces' = AfterProjection(surfaces, new, NewEvent(source, n, duration, targets),
                                       nextOwnerEpoch + 1)
  BY DEF AdmitTransient, Admit
<1> DEFINE e == NewEvent(source, n, duration, targets)
<1>3. e \in Events
  <2>1. duration \in Nat /\ FreshFor[KindOf[source]] \in Nat
    BY KindsAssumption, TimesAssumption
  <2>2. targets \in SUBSET Surfaces
    BY <1>1 DEF TargetSets, attached, GoodSurfaces
  <2> QED BY <2>1, <2>2 DEF NewEvent, Events
<1> HIDE DEF e
<1>4. CASE surfaces' = AfterProjection(surfaces, new, e, nextOwnerEpoch + 1)
  <2>1. DOMAIN surfaces' = DOMAIN surfaces
    BY <1>4 DEF AfterProjection
  <2> QED BY <1>1, <1>3, <1>4, <2>1, AfterProjectionKeeps DEF attached
<1>5. CASE IsFull /\ surfaces' = AfterProjection(spared, new, e, nextOwnerEpoch + 2)
  <2>1. Victim # NoEvent
    BY <1>1, <1>5, VictimExists
  <2> DEFINE id == Victim
  <2> HIDE DEF id
  <2>2. /\ GoodSurfaces(AfterRemoval(surfaces, transients, id, nextOwnerEpoch + 1))
        /\ DOMAIN AfterRemoval(surfaces, transients, id, nextOwnerEpoch + 1) = DOMAIN surfaces
    BY <1>1, AfterRemovalType DEF Mailbox, Numbers
  <2>3. \A s \in DOMAIN surfaces :
           Keeps(surfaces[s], AfterRemoval(surfaces, transients, id, nextOwnerEpoch + 1)[s])
    BY <1>1, <2>1, AfterRemovalKeeps DEF Mailbox, Numbers, id
  <2>4. /\ GoodSurfaces(spared) /\ DOMAIN spared = DOMAIN surfaces
        /\ \A s \in DOMAIN surfaces : Keeps(surfaces[s], spared[s])
    BY <2>2, <2>3 DEF id
  <2> HIDE DEF spared
  <2>5. DOMAIN surfaces' = DOMAIN surfaces
    BY <1>5, <2>4 DEF AfterProjection
  <2>6. \A s \in DOMAIN surfaces : Keeps(spared[s], surfaces'[s])
    BY <1>3, <1>5, <2>4, AfterProjectionKeeps
  <2> QED BY <2>4, <2>5, <2>6, KeepsTwice DEF attached
<1> QED BY <1>2, <1>4, <1>5 DEF e

LEMMA RequestTransientRoles ==
    ASSUME TypeOK, Roles, NEW call \in Jobs, RequestTransient(call)
    PROVE  Roles'
<1>1. call.source \in Sources /\ call.revision \in Nat /\ job.op # "detach"
  BY KnownJobs, JobsApart DEF RequestTransient
<1>2. /\ DOMAIN surfaces' = DOMAIN surfaces
      /\ \A s \in attached : Keeps(surfaces[s], surfaces'[s])
  BY <1>1, RenewTransientKeeps, AdmitTransientKeeps DEF RequestTransient
<1>3. UNCHANGED <<modalFlow, modalHostToken>> /\ job' = NoJob
  BY DEF RequestTransient, Complete, Return
<1> QED BY <1>1, <1>2, <1>3, KeepsRoles, JobsApart DEF modalPresent, SameLoss

LEMMA RejectedRoles ==
    ASSUME TypeOK, Roles, NEW call \in Jobs,
           \/ RefuseTransient(call)
           \/ RejectTransient(call)
           \/ TimerFires(call)
    PROVE  Roles'
<1>1. job.op # "detach"
  BY JobsApart DEF RefuseTransient, RejectTransient, TimerFires
<1>2. CASE RefuseTransient(call)
  BY <1>1, <1>2, RefuseRoles DEF RefuseTransient
<1>3. CASE RejectTransient(call)
  BY <1>1, <1>3, QuietRoles, JobsApart DEF RejectTransient, Return
<1>4. CASE TimerFires(call)
  BY <1>1, <1>4, QuietRoles, JobsApart DEF TimerFires, Complete, Return
<1> QED BY <1>2, <1>3, <1>4

-----------------------------------------------------------------------------
(* The actions that give a surface another role.                           *)

(* After a step that leaves a task on one surface at most, and no modal.   *)
LEMMA AtMostOneTask ==
    ASSUME NEW target, attached' \subseteq Surfaces, ~modalPresent', modalHostToken' = NoSurface,
           job'.op # "detach",
           \A s \in attached' :
               IF s = target THEN Calm(surfaces'[s]) \/ Busy(surfaces'[s]) ELSE Calm(surfaces'[s])
    PROVE  Roles'
<1>1. NoSurface \notin attached'
  BY KindsAssumption
<1>2. \A s \in attached' : Busy(surfaces'[s]) => s = target
  BY RolesDiffer
<1>3. HostIsModal'
  BY <1>1 DEF HostIsModal, Calm, Busy
<1>4. OneBusy' /\ LossUnderWay'
  BY <1>2 DEF OneBusy, LossUnderWay, Busy
<1> QED BY <1>3, <1>4 DEF Roles

(* After one that puts the modal on a surface and leaves no task elsewhere.*)
LEMMA OneHost ==
    ASSUME NEW target \in attached', attached' \subseteq Surfaces, modalPresent',
           modalHostToken' = target, job'.op # "detach",
           \A s \in attached' :
               IF s = target THEN Hosting(surfaces'[s]) ELSE Calm(surfaces'[s])
    PROVE  Roles'
<1>1. target # NoSurface
  BY KindsAssumption
<1>2. \A s \in attached' : ~Busy(surfaces'[s])
  BY RolesDiffer
<1>3. HostIsModal'
  BY DEF HostIsModal, Calm, Hosting
<1>4. OneBusy' /\ LossUnderWay'
  BY <1>1, <1>2 DEF OneBusy, LossUnderWay, Busy
<1> QED BY <1>3, <1>4 DEF Roles

(* While no modal is up, every surface is calm or shows a task.            *)
LEMMA WithoutModal ==
    ASSUME TypeOK, Roles, ~modalPresent
    PROVE  /\ modalHostToken = NoSurface
           /\ NoSurface \notin attached
           /\ \A s \in attached : Calm(surfaces[s]) \/ Busy(surfaces[s])
BY KindsAssumption DEF Roles, HostIsModal, TypeOK

LEMMA OpenInteractiveRoles ==
    ASSUME TypeOK, Roles, NEW kind \in Tasks, NEW target \in Surfaces,
           OpenInteractive(kind, target)
    PROVE  Roles'
<1>1. GoodSurfaces(surfaces) /\ Numbers /\ kind \in InteractiveKinds
  BY TypeParts, KindsAssumption
<1>2. /\ target \in attached
      /\ ~modalPresent /\ ~modalPresent'
      /\ modalHostToken' = modalHostToken
      /\ job' = job /\ job.op # "detach"
  BY JobsApart DEF OpenInteractive, modalPresent, MayEnter, MayCall
<1>3. /\ modalHostToken = NoSurface
      /\ \A s \in attached : Calm(surfaces[s]) \/ Busy(surfaces[s])
  BY <1>2, WithoutModal
<1>4. CASE surfaces[target].owner.kind = kind
  <2>1. surfaces' = [surfaces EXCEPT ![target] = AskFocus(surfaces[target])]
    BY <1>4 DEF OpenInteractive
  <2>2. surfaces[target] \in Records /\ surfaces[target].owner \in Owners
    BY <1>1, <1>2, GoodAt DEF GoodRecord, Records, attached
  <2>3. /\ AskFocus(surfaces[target]).owner.kind = surfaces[target].owner.kind
        /\ AskFocus(surfaces[target]).owner.event = surfaces[target].owner.event
        /\ AskFocus(surfaces[target]).restoration = surfaces[target].restoration
    BY <2>2 DEF AskFocus, Records, Owners
  <2>4. \A s \in attached : Keeps(surfaces[s], surfaces'[s])
    BY <2>1, <2>3, SameOwner DEF attached
  <2> QED BY <1>2, <2>1, <2>4, KeepsRoles DEF SameLoss
<1>5. CASE surfaces[target].owner.kind # kind
  <2> DEFINE srf == WithoutTasks
             next == EnterOwner(CaptureCurrent(srf[target]), kind,
                                <<nextOwnerEpoch + 1, target>>, 1)
  <2>1. surfaces' = [srf EXCEPT ![target] = next]
    BY <1>5 DEF OpenInteractive, Opened
  <2>2. GoodSurfaces(srf) /\ DOMAIN srf = attached
    BY <1>1, WithoutTasksType DEF attached
  <2>3. \A s \in attached : Calm(srf[s])
    BY <1>1, <1>3, GoodAt, ForceIdleCalm, RolesDiffer DEF WithoutTasks, attached
  <2> HIDE DEF srf
  <2>4. Busy(next)
    BY <1>1, <1>2, <2>2, <2>3, GoodAt, TaskBusy
  <2> HIDE DEF next
  <2>5. attached' = attached /\ attached' \subseteq Surfaces
    BY <2>1, <2>2 DEF attached, GoodSurfaces
  <2>6. \A s \in attached' : IF s = target THEN Busy(surfaces'[s]) ELSE Calm(surfaces'[s])
    BY <2>1, <2>2, <2>3, <2>4, <2>5
  <2> QED BY <1>2, <1>3, <2>5, <2>6, AtMostOneTask
<1> QED BY <1>4, <1>5

LEMMA ResetToIdleRoles ==
    ASSUME TypeOK, Roles, NEW s, ResetToIdle(s)
    PROVE  Roles'
<1>1. GoodSurfaces(surfaces) /\ job.op # "detach"
  BY TypeParts, JobsApart DEF ResetToIdle, MayCall
<1>2. /\ s \in attached /\ s # modalHostToken
      /\ surfaces' = [surfaces EXCEPT ![s] = ForceIdle(surfaces[s])]
      /\ UNCHANGED <<modalFlow, modalHostToken>>
      /\ job' = NoJob
  BY DEF ResetToIdle, Complete, Return
<1>3. Keeps(surfaces[s], ForceIdle(surfaces[s]))
  BY <1>1, <1>2, GoodAt, ForceIdleCalm, RolesDiffer DEF Roles, HostIsModal, Keeps, attached
<1>4. \A t \in attached : Keeps(surfaces[t], surfaces'[t])
  BY <1>2, <1>3, SameOwner DEF attached
<1> QED BY <1>1, <1>2, <1>4, KeepsRoles, JobsApart DEF modalPresent, SameLoss

LEMMA PrepareSurfaceDisableRoles ==
    ASSUME TypeOK, Roles, NEW s, NEW replacement, PrepareSurfaceDisable(s, replacement)
    PROVE  Roles'
<1>1. GoodSurfaces(surfaces) /\ job.op # "detach"
  BY TypeParts, JobsApart DEF PrepareSurfaceDisable, MayCall
<1> DEFINE task == surfaces[s].owner
           next == EnterOwner(CaptureCurrent(surfaces[replacement]), task.kind, task.epoch,
                              task.revision + 1)
<1>2. /\ s \in attached /\ replacement \in attached /\ s # replacement /\ s # modalHostToken
      /\ IsInteractive(task)
      /\ UNCHANGED <<modalFlow, modalHostToken, job>>
  BY DEF PrepareSurfaceDisable
<1>3. surfaces' = [surfaces EXCEPT ![s] = ForceIdle(surfaces[s]), ![replacement] = next]
  BY <1>2 DEF PrepareSurfaceDisable
<1>4. Busy(surfaces[s]) /\ ~modalPresent
  BY <1>2, RolesDiffer DEF Roles, HostIsModal
<1>5. /\ modalHostToken = NoSurface
      /\ \A t \in attached : t # s => Calm(surfaces[t])
  BY <1>2, <1>4, WithoutModal DEF Roles, OneBusy
<1>6. Busy(next)
  <2>1. GoodRecord(surfaces[replacement]) /\ Calm(surfaces[replacement])
    BY <1>1, <1>2, <1>5, GoodAt DEF attached
  <2>2. task.kind \in InteractiveKinds
    BY <1>2 DEF IsInteractive
  <2> HIDE DEF task
  <2> QED BY <2>1, <2>2, TaskBusy
<1>7. Calm(ForceIdle(surfaces[s]))
  BY <1>1, <1>2, GoodAt, ForceIdleCalm DEF attached
<1> HIDE DEF next
<1>8. attached' = attached /\ attached' \subseteq Surfaces /\ ~modalPresent'
  BY <1>1, <1>2, <1>3, <1>4 DEF attached, GoodSurfaces, modalPresent
<1>9. \A t \in attached' :
         IF t = replacement THEN Busy(surfaces'[t]) ELSE Calm(surfaces'[t])
  BY <1>2, <1>3, <1>5, <1>6, <1>7, <1>8 DEF attached
<1> QED BY <1>1, <1>2, <1>5, <1>8, <1>9, AtMostOneTask

-----------------------------------------------------------------------------
(* The modal.                                                              *)

LEMMA AppearModalRoles ==
    ASSUME TypeOK, Roles, NEW flow, AppearModal(flow), modalFlow' = flow, job' = NoJob
    PROVE  Roles'
<1>1. GoodSurfaces(surfaces)
  BY TypeParts
<1>2. ~modalPresent /\ modalPresent'
  BY DEF AppearModal, modalPresent
<1>3. /\ modalHostToken = NoSurface
      /\ \A s \in attached : Calm(surfaces[s]) \/ Busy(surfaces[s])
  BY <1>2, WithoutModal
<1>4. CASE attached = {}
  <2>1. attached' = {} /\ modalHostToken' = NoSurface
    BY <1>3, <1>4 DEF AppearModal, attached
  <2> QED BY <2>1, JobsApart DEF Roles, HostIsModal, OneBusy, LossUnderWay
<1>5. CASE attached # {}
  <2>1. PICK target \in attached :
          surfaces' = Rehomed(surfaces, target, TRUE) /\ modalHostToken' = target
    BY <1>5 DEF AppearModal
  <2>2. attached' = attached /\ attached' \subseteq Surfaces
    BY <1>1, <2>1 DEF Rehomed, attached, GoodSurfaces
  <2>3. Hosting(surfaces'[target])
    <3> DEFINE next == EnterOwner(CaptureCurrent(surfaces[target]), "polkitModal",
                                  <<nextOwnerEpoch + 1, target>>, 1)
    <3>1. surfaces'[target] = next
      BY <2>1 DEF Rehomed, attached
    <3>2. GoodRecord(surfaces[target])
      BY <1>1, <2>1, GoodAt DEF attached
    <3>3. Hosting(next)
      BY <1>3, <3>2, ModalCovers
    <3> QED BY <3>1, <3>3
  <2>4. ASSUME NEW s \in attached, s # target PROVE Calm(surfaces'[s])
    <3>1. surfaces'[s] = IF IsInteractive(surfaces[s].owner) THEN ForceIdle(surfaces[s])
                                                           ELSE surfaces[s]
      BY <2>1, <2>4 DEF Rehomed, attached
    <3>2. GoodRecord(surfaces[s])
      BY <1>1, <2>4, GoodAt DEF attached
    <3> QED BY <1>3, <3>1, <3>2, ForceIdleCalm, RolesDiffer
  <2> QED BY <1>2, <2>1, <2>2, <2>3, <2>4, OneHost, JobsApart
<1> QED BY <1>4, <1>5

LEMMA RefreshModalRoles ==
    ASSUME TypeOK, Roles, NEW flow, RefreshModal(flow), modalFlow' = flow, job' = NoJob,
           job.op # "detach"
    PROVE  Roles'
<1>1. GoodSurfaces(surfaces)
  BY TypeParts
<1>2. modalPresent /\ modalPresent' /\ modalHostToken' = modalHostToken
      /\ DOMAIN surfaces' = DOMAIN surfaces
  BY DEF RefreshModal, modalPresent, attached
<1>3. ASSUME NEW s \in attached PROVE Keeps(surfaces[s], surfaces'[s])
  <2>1. surfaces[s] \in Records /\ surfaces[s].owner \in Owners
    BY <1>1, <1>3, GoodAt DEF GoodRecord, Records, attached
  <2>2. \/ surfaces'[s] = [surfaces[s] EXCEPT !.owner.revision = @ + 1, !.owner.visible = FALSE,
                                              !.owner.focusPending = TRUE]
        \/ surfaces'[s] = surfaces[s]
    BY <1>3 DEF RefreshModal
  <2> DEFINE r == surfaces[s]
             q == surfaces'[s]
             turned == [r EXCEPT !.owner.revision = @ + 1, !.owner.visible = FALSE,
                                 !.owner.focusPending = TRUE]
  <2>3. /\ turned.owner.kind = r.owner.kind
        /\ turned.owner.event = r.owner.event
        /\ turned.restoration = r.restoration
    <3> HIDE DEF r
    <3> QED BY <2>1 DEF Records, Owners, r
  <2>4. q.owner.kind = r.owner.kind /\ q.owner.event = r.owner.event
        /\ q.restoration = r.restoration
    <3> HIDE DEF turned
    <3> QED BY <2>2, <2>3 DEF turned
  <2> QED BY <2>4, SameOwner
<1> QED BY <1>2, <1>3, KeepsRoles, JobsApart DEF SameLoss

LEMMA ReleaseModalRoles ==
    ASSUME TypeOK, Roles, NEW flow, ReleaseModal(flow), modalFlow' = flow, job' = NoJob
    PROVE  Roles'
<1>1. GoodSurfaces(surfaces) /\ Mailbox /\ Numbers
  BY TypeParts
<1>2. modalPresent /\ ~modalPresent' /\ modalHostToken' = NoSurface
  BY DEF ReleaseModal, modalPresent
<1>3. attached' = attached /\ attached' \subseteq Surfaces
  BY <1>1 DEF ReleaseModal, attached, GoodSurfaces
<1>4. ASSUME NEW s \in attached, s # modalHostToken PROVE Calm(surfaces'[s])
  <2>1. surfaces'[s] = surfaces[s]
    BY <1>4 DEF ReleaseModal
  <2> QED BY <1>2, <1>4, <2>1 DEF Roles, HostIsModal
<1>5. ASSUME NEW s \in attached, s = modalHostToken
      PROVE  Calm(surfaces'[s]) \/ Busy(surfaces'[s])
  <2> DEFINE next == RestoreNext(surfaces[s], s, transients, <<nextOwnerEpoch + 1, s>>)
  <2>1. Hosting(surfaces[s])
    BY <1>5 DEF Roles, HostIsModal
  <2>2. surfaces'[s] = next
    BY <1>5, <2>1 DEF ReleaseModal, Hosting
  <2>3. GoodRecord(surfaces[s]) /\ s \in Surfaces /\ <<nextOwnerEpoch + 1, s>> \in Epochs
    BY <1>1, <1>5, GoodAt, EpochTypes DEF Numbers, attached
  <2>4. Calm(next) \/ Busy(next)
    BY <1>1, <2>1, <2>3, RestoreNextRole DEF Mailbox
  <2> QED BY <2>2, <2>4
<1> QED BY <1>2, <1>3, <1>4, <1>5, AtMostOneTask, JobsApart

LEMMA SyncPolkitModalRoles ==
    ASSUME TypeOK, Roles, NEW flow, SyncPolkitModal(flow)
    PROVE  Roles'
<1>1. job.op # "detach"
  BY JobsApart DEF SyncPolkitModal, MayEnter, MayCall
<1>2. /\ AppearModal(flow) \/ RefreshModal(flow) \/ ReleaseModal(flow)
      /\ modalFlow' = flow
      /\ job' = NoJob
  BY DEF SyncPolkitModal, Complete, Return
<1> QED BY <1>1, <1>2, AppearModalRoles, RefreshModalRoles, ReleaseModalRoles

-----------------------------------------------------------------------------
(* Surfaces that come and go.                                              *)

(* A modal that loses its host takes another surface without keeping what  *)
(* that showed.                                                            *)
LEMMA RehomedAloneRole ==
    ASSUME NEW srf, GoodSurfaces(srf), NEW target \in DOMAIN srf
    PROVE  /\ DOMAIN Rehomed(srf, target, FALSE) = DOMAIN srf
           /\ Hosting(Rehomed(srf, target, FALSE)[target])
           /\ \A s \in DOMAIN srf \ {target} : Rehomed(srf, target, FALSE)[s] = srf[s]
<1> DEFINE next == EnterOwner(ForceIdle(srf[target]), "polkitModal",
                              <<nextOwnerEpoch + 1, target>>, 1)
<1>1. Rehomed(srf, target, FALSE)[target] = next
  BY DEF Rehomed
<1>2. Hosting(next)
  BY GoodAt, ModalAlone
<1> QED BY <1>1, <1>2 DEF Rehomed

LEMMA AttachSurfaceRoles ==
    ASSUME TypeOK, Roles, NEW s \in Surfaces, AttachSurface(s)
    PROVE  Roles'
<1>1. GoodSurfaces(surfaces) /\ job.op # "detach"
  BY TypeParts, JobsApart DEF AttachSurface, MayEnter, MayCall
<1> DEFINE srf == [t \in attached \cup {s} |-> IF t = s THEN NewRecord ELSE surfaces[t]]
<1>2. /\ s \notin attached /\ attached \subseteq Surfaces
      /\ job' = NoJob
      /\ modalFlow' = modalFlow
  BY <1>1 DEF AttachSurface, Complete, Return, attached, GoodSurfaces
<1>3. CASE modalPresent /\ modalHostToken = NoSurface
  <2>1. attached = {}
    BY <1>1, <1>3 DEF Roles, LossUnderWay
  <2>2. GoodSurfaces(srf) /\ DOMAIN srf = {s}
    <3>1. GoodRecord(srf[s])
      BY NewRecordType
    <3>2. srf = [t \in {s} |-> srf[t]]
      BY <2>1
    <3> HIDE DEF srf
    <3> QED BY <3>1, <3>2, GoodPointwise
  <2>3. PICK target \in DOMAIN srf :
          surfaces' = Rehomed(srf, target, FALSE) /\ modalHostToken' = target
    BY <1>3 DEF AttachSurface
  <2> HIDE DEF srf
  <2>4. target = s
    BY <2>2, <2>3
  <2>5. DOMAIN surfaces' = {s} /\ Hosting(surfaces'[s])
    BY <2>2, <2>3, <2>4, RehomedAloneRole
  <2> QED BY <1>2, <1>3, <2>3, <2>4, <2>5, OneHost, JobsApart DEF modalPresent, attached
<1>4. CASE ~(modalPresent /\ modalHostToken = NoSurface)
  <2>1. surfaces' = srf /\ modalHostToken' = modalHostToken
    BY <1>4 DEF AttachSurface
  <2>2. attached' = attached \cup {s} /\ (modalPresent' <=> modalPresent)
    BY <1>2, <2>1 DEF attached, modalPresent
  <2>3. Calm(surfaces'[s]) /\ \A t \in attached : surfaces'[t] = surfaces[t]
    BY <1>2, <2>1, NewRecordCalm
  <2>4. modalHostToken # s
    BY <1>2, KindsAssumption DEF Roles, HostIsModal
  <2>5. HostIsModal'
    <3>1. modalHostToken' # NoSurface => modalPresent' /\ modalHostToken' \in attached'
      BY <2>1, <2>2 DEF Roles, HostIsModal
    <3>2. ASSUME NEW t \in attached
          PROVE  IF t = modalHostToken THEN Hosting(surfaces'[t])
                 ELSE Calm(surfaces'[t]) \/ (Busy(surfaces'[t]) /\ ~modalPresent)
      BY <2>3, <3>2 DEF Roles, HostIsModal
    <3> QED BY <2>1, <2>2, <2>3, <2>4, <3>1, <3>2 DEF HostIsModal, Calm, Busy, Hosting
  <2>6. OneBusy'
    <3>1. ~Busy(surfaces'[s])
      BY <2>3, RolesDiffer
    <3> QED BY <2>2, <2>3, <3>1 DEF Roles, OneBusy, Busy
  <2>7. LossUnderWay'
    BY <1>2, <1>4, <2>1, <2>2, JobsApart DEF LossUnderWay
  <2> QED BY <2>5, <2>6, <2>7 DEF Roles
<1> QED BY <1>3, <1>4

LEMMA DetachSurfaceRoles ==
    ASSUME TypeOK, Roles, NEW s \in Surfaces, DetachSurface(s)
    PROVE  Roles'
<1> DEFINE lost == s = modalHostToken
<1>1. /\ s \in attached
      /\ surfaces' = [t \in attached \ {s} |-> surfaces[t]]
      /\ modalHostToken' = IF lost THEN NoSurface ELSE modalHostToken
      /\ modalFlow' = modalFlow
  BY DEF DetachSurface, Restrict, attached
<1>2. job'.lostModal = lost /\ job'.task = surfaces[s].owner /\ job'.op = "detach"
  BY DEF DetachSurface, DetachCall
<1>3. attached' = attached \ {s} /\ (modalPresent' <=> modalPresent)
  BY <1>1 DEF attached, modalPresent
<1>4. \A t \in attached' : surfaces'[t] = surfaces[t]
  BY <1>1, <1>3
<1>5. job.op # "detach"
  BY JobsApart DEF DetachSurface, MayCall
<1>6. NoSurface \notin attached
  BY KindsAssumption DEF TypeOK
<1>7. HostIsModal'
  <2>1. modalHostToken' # NoSurface => modalPresent' /\ modalHostToken' \in attached'
    BY <1>1, <1>3 DEF Roles, HostIsModal
  <2>2. ASSUME NEW t \in attached'
        PROVE  IF t = modalHostToken' THEN Hosting(surfaces'[t])
               ELSE Calm(surfaces'[t]) \/ (Busy(surfaces'[t]) /\ ~modalPresent')
    BY <1>1, <1>3, <1>4, <1>6, <2>2 DEF Roles, HostIsModal
  <2> QED BY <2>1, <2>2 DEF HostIsModal, Calm, Busy, Hosting
<1>8. OneBusy'
  BY <1>3, <1>4 DEF Roles, OneBusy, Busy
<1>9. LossUnderWay'
  <2>1. lost => modalHostToken' = NoSurface
    BY <1>1
  <2>2. ASSUME ~lost, IsInteractive(surfaces[s].owner)
        PROVE  ~modalPresent' /\ \A t \in attached' : Calm(surfaces'[t])
    <3>1. Busy(surfaces[s]) /\ ~modalPresent
      BY <1>1, <2>2, RolesDiffer DEF Roles, HostIsModal
    <3> QED BY <1>1, <1>3, <1>4, <3>1, WithoutModal DEF Roles, OneBusy
  <2>3. modalPresent' /\ attached' # {} /\ modalHostToken' = NoSurface => lost
    BY <1>1, <1>3, <1>5 DEF Roles, LossUnderWay
  <2> HIDE DEF lost
  <2> QED BY <1>2, <2>1, <2>2, <2>3 DEF LossUnderWay, Calm, IsInteractive
<1> QED BY <1>7, <1>8, <1>9 DEF Roles

LEMMA FinishDetachRoles ==
    ASSUME TypeOK, Roles, FinishDetach
    PROVE  Roles'
<1>1. GoodSurfaces(surfaces) /\ Numbers /\ attached \subseteq Surfaces
  BY TypeParts DEF TypeOK
<1>2. job.op = "detach" /\ job' = NoJob /\ job'.op # "detach" /\ modalFlow' = modalFlow
  BY JobsApart DEF FinishDetach, Complete, Return
<1>3. CASE job.lostModal /\ modalPresent /\ attached # {}
  <2>1. PICK target \in attached :
          surfaces' = Rehomed(surfaces, target, FALSE) /\ modalHostToken' = target
    BY <1>3 DEF FinishDetach
  <2>2. \A s \in attached : Calm(surfaces[s])
    BY <1>1, <1>2, <1>3, KindsAssumption DEF Roles, HostIsModal, LossUnderWay
  <2>3. /\ attached' = attached
        /\ Hosting(surfaces'[target])
        /\ \A s \in attached \ {target} : surfaces'[s] = surfaces[s]
    BY <1>1, <2>1, RehomedAloneRole DEF attached
  <2> QED BY <1>1, <1>2, <1>3, <2>1, <2>2, <2>3, OneHost DEF modalPresent
<1>4. CASE ~job.lostModal /\ IsInteractive(job.task) /\ attached # {}
  <2>1. PICK target \in attached : surfaces' = Transferred(target, job.task)
    BY <1>4 DEF FinishDetach
  <2>2. modalHostToken' = modalHostToken
    BY <1>4 DEF FinishDetach
  <2>3. ~modalPresent /\ \A s \in attached : Calm(surfaces[s])
    BY <1>2, <1>4 DEF Roles, LossUnderWay
  <2> DEFINE next == EnterOwner(CaptureCurrent(surfaces[target]), job.task.kind,
                                job.task.epoch, 1)
  <2>4. surfaces' = [surfaces EXCEPT ![target] = next]
    BY <2>1 DEF Transferred
  <2>5. Busy(next)
    <3>1. GoodRecord(surfaces[target]) /\ Calm(surfaces[target])
      BY <1>1, <2>1, <2>3, GoodAt DEF attached
    <3>2. job.task.kind \in InteractiveKinds
      BY <1>4 DEF IsInteractive
    <3> QED BY <3>1, <3>2, TaskBusy
  <2> HIDE DEF next
  <2>6. attached' = attached
    BY <2>4 DEF attached
  <2>7. \A s \in attached' : IF s = target THEN Busy(surfaces'[s]) ELSE Calm(surfaces'[s])
    BY <2>3, <2>4, <2>5, <2>6 DEF attached
  <2>8. modalHostToken = NoSurface /\ ~modalPresent'
    BY <1>2, <2>3, WithoutModal DEF modalPresent
  <2> QED BY <1>1, <1>2, <2>2, <2>6, <2>7, <2>8, AtMostOneTask
<1>5. CASE /\ ~(job.lostModal /\ modalPresent /\ attached # {})
           /\ ~(~job.lostModal /\ IsInteractive(job.task) /\ attached # {})
  <2>1. UNCHANGED <<surfaces, modalHostToken, modalFlow>>
    BY <1>2, <1>5 DEF FinishDetach
  <2>2. HostIsModal' /\ OneBusy'
    BY <2>1 DEF Roles, HostIsModal, OneBusy, Calm, Busy, Hosting, attached, modalPresent
  <2>3. LossUnderWay'
    BY <1>2, <1>5, <2>1 DEF Roles, LossUnderWay, attached, modalPresent
  <2> QED BY <2>2, <2>3 DEF Roles
<1> QED BY <1>3, <1>4, <1>5

-----------------------------------------------------------------------------
(* The invariant, and what it says.                                        *)

LEMMA InitRoles == Init => Roles
<1> SUFFICES ASSUME Init PROVE Roles
  OBVIOUS
<1>1. attached = {} /\ modalHostToken = NoSurface /\ job = NoJob /\ ~modalPresent
  BY DEF Init, attached, modalPresent
<1> QED BY <1>1, JobsApart DEF Roles, HostIsModal, OneBusy, LossUnderWay

LEMMA StepRoles == TypeOK /\ Roles /\ [Next]_vars => Roles'
<1> SUFFICES ASSUME TypeOK, Roles, [Next]_vars PROVE Roles'
  OBVIOUS
<1>1. ASSUME NEW call \in Calls, Handle(call)
      PROVE  Roles'
  <2>1. call \in Jobs
    BY CallTypes
  <2>2. CASE Expire(call)              BY <2>2, ExpireRoles
  <2>3. CASE AcknowledgeVisible(call)  BY <2>3, AcknowledgeRoles
  <2>4. CASE SetBaselineIntent(call)   BY <2>1, <2>4, SetBaselineIntentRoles
  <2>5. CASE RequestTransient(call)    BY <2>1, <2>5, RequestTransientRoles
  <2>6. CASE RefuseTransient(call) \/ RejectTransient(call) \/ TimerFires(call)
    BY <2>1, <2>6, RejectedRoles
  <2>7. CASE FinishInteractive(call)   BY <2>1, <2>7, FinishInteractiveRoles
  <2> QED BY <1>1, <2>2, <2>3, <2>4, <2>5, <2>6, <2>7 DEF Handle
<1>2. CASE RemoveDoomed
  BY <1>2, RemoveDoomedRoles
<1>3. CASE \E source \in Sources : InvalidateTransient(source)
  BY <1>3, InvalidateTransientRoles
<1>4. CASE \E kind \in Tasks, s \in Surfaces : OpenInteractive(kind, s)
  BY <1>4, OpenInteractiveRoles
<1>5. CASE \E s \in Surfaces : ResetToIdle(s) \/ AttachSurface(s) \/ DetachSurface(s)
  BY <1>5, ResetToIdleRoles, AttachSurfaceRoles, DetachSurfaceRoles
<1>6. CASE \E s, replacement \in Surfaces : PrepareSurfaceDisable(s, replacement)
  BY <1>6, PrepareSurfaceDisableRoles
<1>7. CASE \E flow \in 0..MaxFlow : SyncPolkitModal(flow)
  BY <1>7, SyncPolkitModalRoles
<1>8. CASE FinishDetach
  BY <1>8, FinishDetachRoles
<1>9. CASE Tick
  BY <1>9, QuietRoles, JobsApart DEF Tick
<1>10. CASE UNCHANGED vars
  <2>1. \A s \in attached : Keeps(surfaces[s], surfaces'[s])
    BY <1>10, SameOwner DEF vars
  <2> QED BY <1>10, <2>1, KeepsRoles DEF vars, modalPresent, SameLoss
<1> QED
  BY <1>1, <1>2, <1>3, <1>4, <1>5, <1>6, <1>7, <1>8, <1>9, <1>10 DEF Next

LEMMA RolesExclusive == TypeOK /\ Roles => ExclusiveTask
<1> SUFFICES ASSUME TypeOK, Roles PROVE ExclusiveTask
  OBVIOUS
<1>1. ASSUME NEW s \in attached, Tasked(s) PROVE Busy(surfaces[s]) /\ ~modalPresent
  BY <1>1, RolesDiffer DEF Roles, HostIsModal, Tasked
<1>2. ASSUME NEW s \in attached, NEW f \in WaitingTasks(s)
      PROVE  s = modalHostToken /\ WaitingTasks(s) = {f}
  <2>1. ~PlainFrames(surfaces[s])
    BY <1>2 DEF WaitingTasks, PlainFrames, IsInteractive, Reserved
  <2>2. s = modalHostToken /\ Hosting(surfaces[s])
    BY <1>2, <2>1 DEF Roles, HostIsModal, Calm, Busy
  <2>3. \A g \in WaitingTasks(s) : f.depth \in Nat /\ g.depth \in Nat
    BY <1>2 DEF WaitingTasks, TypeOK, Records, Frames
  <2>4. ASSUME NEW g \in WaitingTasks(s), g # f PROVE FALSE
    <3>1. g.depth < f.depth /\ f.depth < g.depth
      BY <1>2, <2>2, <2>4 DEF WaitingTasks, Hosting
    <3> QED BY <2>3, <3>1
  <2> QED BY <1>2, <2>2, <2>4
<1> QED BY <1>1, <1>2 DEF Roles, OneBusy, ExclusiveTask

LEMMA RolesHosted == TypeOK /\ Roles => ModalHosted
<1> SUFFICES ASSUME TypeOK, Roles PROVE ModalHosted
  OBVIOUS
<1>1. ASSUME NEW s \in attached
      PROVE  surfaces[s].owner.kind = "polkitModal" <=> s = modalHostToken
  BY RankBands DEF Roles, HostIsModal, Hosting, Calm, Busy, IsInteractive, Reserved
<1>2. AtRest => job.op # "detach"
  BY JobsApart DEF AtRest
<1> QED BY <1>1, <1>2 DEF Roles, HostIsModal, LossUnderWay, ModalHosted

(* "One Interactive task or Modal flow exists across all islands", for any *)
(* number of surfaces and sources and at every bound: openInteractive, the *)
(* hand-over of a task when its screen is disabled or lost, and rehomeModal*)
(* keep it together.                                                       *)
THEOREM TaskExclusive == Spec => []ExclusiveTask
<1>1. Init => TypeOK /\ Roles
  BY InitType, InitRoles
<1>2. TypeOK /\ Roles /\ [Next]_vars => TypeOK' /\ Roles'
  BY StepType, StepRoles
<1>3. TypeOK /\ Roles => ExclusiveTask
  BY RolesExclusive
<1> QED BY <1>1, <1>2, <1>3, PTL DEF Spec

(* The authentication modal has exactly one host while a flow and a surface*)
(* exist, through every attach and detach, and none otherwise.             *)
THEOREM ModalHasHost == Spec => []ModalHosted
<1>1. Init => TypeOK /\ Roles
  BY InitType, InitRoles
<1>2. TypeOK /\ Roles /\ [Next]_vars => TypeOK' /\ Roles'
  BY StepType, StepRoles
<1>3. TypeOK /\ Roles => ModalHosted
  BY RolesHosted
<1> QED BY <1>1, <1>2, <1>3, PTL DEF Spec

-----------------------------------------------------------------------------
(* The mailbox and its timer.                                              *)
InOrder(evs, D, gone) ==
    /\ Cardinality(DOMAIN evs) <= MaxPending
    /\ \A i, j \in DOMAIN evs : evs[i].source = evs[j].source => i = j
    /\ \A i \in DOMAIN evs : evs[i].targets \subseteq D /\ (evs[i].targets = {} => i \in gone)

Armed == \A i \in DOMAIN transients : scheduler \in 0..Deadline(transients[i])

RestIsClear == job = NoJob => doomed = {}

MailInv == InOrder(transients, attached, doomed) /\ Armed /\ RestIsClear

-----------------------------------------------------------------------------
(* The mailbox by itself.                                                  *)

LEMMA FiniteMail ==
    ASSUME Mailbox, Numbers
    PROVE  IsFiniteSet(DOMAIN transients) /\ nextAdmission + 1 \notin DOMAIN transients
<1>1. IsFiniteSet(1..nextAdmission)
  BY FS_Interval DEF Numbers
<1> QED BY <1>1, FS_Subset DEF Mailbox, Numbers

LEMMA InOrderWithout ==
    ASSUME NEW evs, GoodMail(evs), IsFiniteSet(DOMAIN evs), NEW D, NEW gone, NEW id,
           InOrder(evs, D, gone)
    PROVE  InOrder(Without(evs, id), D, gone \ {id})
<1>1. DOMAIN Without(evs, id) = DOMAIN evs \ {id}
  BY WithoutType
<1>2. \A i \in DOMAIN evs \ {id} : Without(evs, id)[i] = evs[i]
  BY DEF Without, Restrict
<1>3. Cardinality(DOMAIN evs \ {id}) <= MaxPending
  BY FS_Subset, FS_CardinalityType, BoundsAssumption DEF InOrder
<1> QED BY <1>1, <1>2, <1>3 DEF InOrder

(* Sources and targets are all it is about.                                *)
LEMMA InOrderSame ==
    ASSUME NEW evs, NEW next, DOMAIN next = DOMAIN evs,
           \A i \in DOMAIN evs : next[i].source = evs[i].source /\ next[i].targets = evs[i].targets,
           NEW D, NEW gone, InOrder(evs, D, gone)
    PROVE  InOrder(next, D, gone)
BY DEF InOrder

LEMMA ScheduleArms ==
    ASSUME NEW evs, GoodMail(evs), NEW i \in DOMAIN evs
    PROVE  Schedule(evs) \in 0..Deadline(evs[i])
<1> DEFINE deadlines == {Deadline(evs[j]) : j \in DOMAIN evs}
<1>1. deadlines \in SUBSET Nat /\ Deadline(evs[i]) \in deadlines
  BY DeadlineType DEF GoodMail
<1>2. Schedule(evs) = Min(deadlines)
  BY DEF Schedule
<1> HIDE DEF deadlines
<1>3. Min(deadlines) \in deadlines /\ \A n \in deadlines : Min(deadlines) <= n
  BY <1>1, MinOfNaturals
<1>4. Schedule(evs) \in Nat /\ Deadline(evs[i]) \in Nat /\ Schedule(evs) <= Deadline(evs[i])
  BY <1>1, <1>2, <1>3
<1> QED BY <1>4

LEMMA DeadlinesAreNaturals ==
    ASSUME Mailbox
    PROVE  \A i \in DOMAIN transients : Deadline(transients[i]) \in Nat
BY DeadlineType DEF Mailbox, GoodMail

-----------------------------------------------------------------------------
(* How a handler ends.  A running handler has nothing left to remove.      *)

LEMMA RunningIsClear ==
    ASSUME RestIsClear, NEW call, Running(call)
    PROVE  doomed = {}
BY DEF Running, MayBegin, MayCall, MayEnter, RestIsClear

LEMMA CompleteMail ==
    ASSUME TypeOK', Complete, InOrder(transients', attached', {})
    PROVE  MailInv'
<1>1. GoodMail(transients')
  BY TypePartsNext DEF Mailbox
<1>2. scheduler' = Schedule(transients') /\ job' = NoJob /\ doomed' = {}
  BY DEF Complete, PublishAndSchedule, Return
<1>3. Armed'
  BY <1>1, <1>2, ScheduleArms DEF Armed
<1>4. RestIsClear'
  BY <1>2 DEF RestIsClear
<1>5. InOrder(transients, attached, doomed)'
  BY <1>2 DEF attached, InOrder
<1> QED BY <1>3, <1>4, <1>5 DEF MailInv

LEMMA RefuseMail ==
    ASSUME TypeOK, MailInv, doomed = {}, NEW rearm, Refuse(rearm)
    PROVE  MailInv'
<1>1. GoodMail(transients)
  BY TypeParts DEF Mailbox
<1>2. /\ transients' = transients /\ DOMAIN surfaces' = DOMAIN surfaces
      /\ job' = NoJob /\ doomed' = {}
      /\ scheduler' = Schedule(transients) \/ scheduler' = scheduler
  BY DEF Refuse, Return
<1>3. Armed'
  BY <1>1, <1>2, ScheduleArms DEF MailInv, Armed
<1>4. RestIsClear'
  BY <1>2 DEF RestIsClear
<1>5. InOrder(transients, attached, doomed)'
  BY <1>2 DEF MailInv, attached, InOrder
<1> QED BY <1>3, <1>4, <1>5 DEF MailInv

(* Steps that leave the mailbox and the surfaces' names alone.             *)
LEMMA QuietMail ==
    ASSUME MailInv, DOMAIN surfaces' = DOMAIN surfaces,
           UNCHANGED <<transients, scheduler, job, doomed>>
    PROVE  MailInv'
BY DEF MailInv, Armed, RestIsClear, attached, InOrder

-----------------------------------------------------------------------------
(* One lemma per action.                                                   *)

LEMMA ExpireMail ==
    ASSUME TypeOK, MailInv, NEW call \in Calls, Expire(call)
    PROVE  MailInv'
<1>1. job = NoJob /\ doomed = {}
  BY DEF Expire, MayBegin, MayCall, MayEnter, MailInv, RestIsClear
<1>2. call # NoJob
  <2>1. call.op # "none"
    BY <1>1 DEF Calls, Acks, AckCall, Intents, IntentCall, Requests, RequestCall, Finishes,
                FinishCall, TimerCall
  <2> QED BY <2>1 DEF NoJob
<1>3. /\ UNCHANGED <<transients, scheduler>> /\ DOMAIN surfaces' = DOMAIN surfaces
      /\ job' = call
  BY DEF Expire
<1>4. InOrder(transients, attached, doomed)'
  BY <1>1, <1>3 DEF MailInv, InOrder, attached
<1> QED BY <1>2, <1>3, <1>4 DEF MailInv, Armed, RestIsClear

LEMMA RemoveDoomedMail ==
    ASSUME TypeOK, MailInv, RemoveDoomed
    PROVE  MailInv'
<1>1. GoodSurfaces(surfaces) /\ Mailbox /\ Numbers /\ Handling
  BY TypeParts
<1>2. PICK id \in doomed :
        /\ surfaces' = AfterRemoval(surfaces, transients, id, nextOwnerEpoch + 1)
        /\ transients' = Without(transients, id)
        /\ doomed' = doomed \ {id}
        /\ UNCHANGED <<scheduler, job>>
  BY DEF RemoveDoomed
<1>3. DOMAIN surfaces' = DOMAIN surfaces
  BY <1>1, <1>2, AfterRemovalType DEF Mailbox, Numbers
<1>4. InOrder(Without(transients, id), attached, doomed \ {id})
  BY <1>1, FiniteMail, InOrderWithout DEF MailInv, Mailbox
<1>5. InOrder(transients, attached, doomed)'
  BY <1>2, <1>3, <1>4 DEF attached, InOrder
<1>6. \A i \in DOMAIN transients' : i \in DOMAIN transients /\ transients'[i] = transients[i]
  BY <1>2 DEF Without, Restrict
<1>7. Armed'
  BY <1>2, <1>6 DEF MailInv, Armed
<1>8. RestIsClear'
  BY <1>2 DEF MailInv, RestIsClear
<1> QED BY <1>5, <1>7, <1>8 DEF MailInv

LEMMA AcknowledgeMail ==
    ASSUME TypeOK, TypeOK', MailInv, NEW call, AcknowledgeVisible(call)
    PROVE  MailInv'
<1>1. doomed = {}
  BY RunningIsClear DEF AcknowledgeVisible, MailInv
<1>2. CASE IsCurrent(call)
  <2> DEFINE id == surfaces[call.surface].owner.event
             seen == SeenBy(transients[id], id, call.surface, surfaces)
  <2>1. /\ DOMAIN surfaces' = DOMAIN surfaces /\ Complete
        /\ transients' = IF id \in DOMAIN transients THEN [transients EXCEPT ![id] = seen]
                         ELSE transients
    BY <1>2 DEF AcknowledgeVisible
  <2>2. id \in DOMAIN transients => seen.source = transients[id].source
                                   /\ seen.targets = transients[id].targets
    <3>1. id \in DOMAIN transients => transients[id] \in Events
      BY DEF TypeOK
    <3> QED BY <3>1 DEF SeenBy, Events
  <2> HIDE DEF id, seen
  <2>3. DOMAIN transients' = DOMAIN transients
    BY <2>1
  <2>4. \A i \in DOMAIN transients : /\ transients'[i].source = transients[i].source
                                     /\ transients'[i].targets = transients[i].targets
    BY <2>1, <2>2
  <2>5. InOrder(transients', attached', {})
    BY <1>1, <2>1, <2>3, <2>4, InOrderSame DEF MailInv, attached
  <2> QED BY <2>1, <2>5, CompleteMail
<1>3. CASE ~IsCurrent(call)
  BY <1>1, <1>3, RefuseMail DEF AcknowledgeVisible
<1> QED BY <1>2, <1>3

(* Handlers that go through and leave the mailbox and the set of surfaces. *)
LEMMA UntouchedMail ==
    ASSUME TypeOK', MailInv, doomed = {}, Complete, transients' = transients,
           DOMAIN surfaces' = DOMAIN surfaces
    PROVE  MailInv'
<1>1. InOrder(transients', attached', {})
  BY DEF MailInv, InOrder, attached
<1> QED BY <1>1, CompleteMail

LEMMA SetBaselineIntentMail ==
    ASSUME TypeOK, TypeOK', MailInv, NEW call, SetBaselineIntent(call)
    PROVE  MailInv'
<1>1. doomed = {}
  BY RunningIsClear DEF SetBaselineIntent, MailInv
<1>2. CASE call.surface \in attached
  BY <1>1, <1>2, UntouchedMail DEF SetBaselineIntent
<1>3. CASE call.surface \notin attached
  BY <1>1, <1>3, RefuseMail DEF SetBaselineIntent
<1> QED BY <1>2, <1>3

LEMMA FinishInteractiveMail ==
    ASSUME TypeOK, TypeOK', MailInv, NEW call, FinishInteractive(call)
    PROVE  MailInv'
<1>1. doomed = {}
  BY RunningIsClear DEF FinishInteractive, MailInv
<1>2. CASE Complete /\ transients' = transients /\ DOMAIN surfaces' = DOMAIN surfaces
  BY <1>1, <1>2, UntouchedMail
<1>3. CASE Refuse(TRUE)
  BY <1>1, <1>3, RefuseMail
<1> QED BY <1>2, <1>3 DEF FinishInteractive

LEMMA InvalidateTransientMail ==
    ASSUME TypeOK, TypeOK', MailInv, NEW source, InvalidateTransient(source)
    PROVE  MailInv'
<1>1. doomed = {}
  BY DEF InvalidateTransient, MayEnter, MayCall, MailInv, RestIsClear
<1>2. GoodSurfaces(surfaces) /\ Mailbox /\ Numbers
  BY TypeParts
<1>3. CASE PendingOf(source) = {}
  BY <1>1, <1>3, RefuseMail DEF InvalidateTransient
<1>4. CASE PendingOf(source) # {}
  <2>1. PICK id \in PendingOf(source) :
          /\ surfaces' = AfterRemoval(surfaces, transients, id, nextOwnerEpoch + 1)
          /\ transients' = Without(transients, id)
    BY <1>4 DEF InvalidateTransient
  <2>2. DOMAIN surfaces' = DOMAIN surfaces /\ Complete
    <3>1. DOMAIN AfterRemoval(surfaces, transients, id, nextOwnerEpoch + 1) = DOMAIN surfaces
      BY DEF AfterRemoval
    <3> QED BY <1>4, <2>1, <3>1 DEF InvalidateTransient
  <2>3. InOrder(Without(transients, id), attached, {} \ {id})
    BY <1>1, <1>2, FiniteMail, InOrderWithout DEF MailInv, Mailbox
  <2>4. InOrder(transients', attached', {})
    BY <2>1, <2>2, <2>3 DEF attached
  <2> QED BY <2>2, <2>4, CompleteMail
<1> QED BY <1>3, <1>4

(* A renewed event keeps its source and its targets.                       *)
LEMMA RenewedMail ==
    ASSUME TypeOK, TypeOK', MailInv, doomed = {}, NEW source, NEW n \in Nat,
           RenewTransient(source, n), Complete
    PROVE  MailInv'
<1>1. PICK id \in PendingOf(source), duration \in HoldsFor[KindOf[source]] :
        LET e == [transients[id] EXCEPT !.revision = n, !.visible = {},
                                        !.fresh = FreshFor[KindOf[source]],
                                        !.hold = NotHolding, !.holdDuration = duration]
        IN  /\ transients' = [transients EXCEPT ![id] = e]
            /\ surfaces' = AfterProjection(Renewed(surfaces, id, n), id, e, nextOwnerEpoch + 1)
  BY DEF RenewTransient
<1>2. DOMAIN surfaces' = DOMAIN surfaces
  BY <1>1 DEF AfterProjection, Renewed
<1>3. \A i \in DOMAIN transients : transients[i] \in Events
  BY DEF TypeOK
<1>4. id \in DOMAIN transients
  BY DEF PendingOf
<1>5. /\ DOMAIN transients' = DOMAIN transients
      /\ \A i \in DOMAIN transients : /\ transients'[i].source = transients[i].source
                                      /\ transients'[i].targets = transients[i].targets
  BY <1>1, <1>3, <1>4 DEF Events
<1>6. InOrder(transients', attached', {})
  BY <1>2, <1>5, InOrderSame DEF MailInv, attached
<1> QED BY <1>6, CompleteMail

(* The new event has a source of its own and goes to surfaces there are;   *)
(* evs is the mailbox that has room for it.                                *)
LEMMA AdmittedInOrder ==
    ASSUME NEW D, NEW evs, InOrder(evs, D, {}), IsFiniteSet(DOMAIN evs),
           Cardinality(DOMAIN evs) < MaxPending, NEW id, id \notin DOMAIN evs,
           NEW e, \A i \in DOMAIN evs : evs[i].source # e.source,
           e.targets \subseteq D, e.targets # {},
           NEW next, next = [i \in DOMAIN evs \cup {id} |-> IF i = id THEN e ELSE evs[i]]
    PROVE  InOrder(next, D, {})
<1>1. DOMAIN next = DOMAIN evs \cup {id} /\ next[id] = e
      /\ \A i \in DOMAIN evs : next[i] = evs[i]
  OBVIOUS
<1>2. Cardinality(DOMAIN next) <= MaxPending
  <2>1. Cardinality(DOMAIN evs) \in Nat
    BY FS_CardinalityType
  <2>2. Cardinality(DOMAIN evs \cup {id}) = Cardinality(DOMAIN evs) + 1
    BY FS_AddElement
  <2> QED BY <1>1, <2>1, <2>2, BoundsAssumption
<1>3. \A i, j \in DOMAIN next : next[i].source = next[j].source => i = j
  BY <1>1 DEF InOrder
<1>4. \A i \in DOMAIN next : next[i].targets \subseteq D /\ (next[i].targets = {} => i \in {})
  BY <1>1 DEF InOrder
<1> QED BY <1>2, <1>3, <1>4 DEF InOrder

LEMMA AdmittedMail ==
    ASSUME TypeOK, TypeOK', MailInv, doomed = {}, NEW source, NEW n,
           AdmitTransient(source, n), Complete
    PROVE  MailInv'
<1>1. GoodSurfaces(surfaces) /\ Mailbox /\ Numbers
  BY TypeParts
<1>2. IsFiniteSet(DOMAIN transients) /\ nextAdmission + 1 \notin DOMAIN transients
  BY <1>1, FiniteMail
<1>3. PICK targets \in TargetSets(KindOf[source]), duration \in HoldsFor[KindOf[source]] :
        LET e == NewEvent(source, n, duration, targets)
        IN  /\ targets # {}
            /\ IF IsFull
               THEN Admit(AfterRemoval(surfaces, transients, Victim, nextOwnerEpoch + 1),
                          Without(transients, Victim), e, 2)
               ELSE Admit(surfaces, transients, e, 1)
  BY DEF AdmitTransient
<1> DEFINE e == NewEvent(source, n, duration, targets)
           evs == IF IsFull THEN Without(transients, Victim) ELSE transients
<1>4. e.source = source /\ e.targets = targets /\ targets # {} /\ targets \subseteq attached
  BY <1>3 DEF NewEvent, TargetSets
<1>5. DOMAIN surfaces' = DOMAIN surfaces
  <2>1. DOMAIN AfterRemoval(surfaces, transients, Victim, nextOwnerEpoch + 1) = DOMAIN surfaces
    BY DEF AfterRemoval
  <2> QED BY <1>3, <2>1 DEF Admit, AfterProjection
<1>6. transients' = [i \in DOMAIN evs \cup {nextAdmission + 1} |->
                       IF i = nextAdmission + 1 THEN e ELSE evs[i]]
  BY <1>3 DEF Admit
<1>7. \A i \in DOMAIN transients : transients[i].source # source
  BY DEF AdmitTransient, PendingOf
<1>8. /\ DOMAIN evs \subseteq DOMAIN transients
      /\ \A i \in DOMAIN evs : evs[i] = transients[i]
      /\ InOrder(evs, attached, {}) /\ IsFiniteSet(DOMAIN evs)
      /\ Cardinality(DOMAIN evs) < MaxPending
  <2>1. CASE IsFull
    <3>1. Victim \in DOMAIN transients
      BY <1>1, <2>1, VictimExists
    <3>2. evs = Without(transients, Victim) /\ DOMAIN evs = DOMAIN transients \ {Victim}
      BY <1>1, <2>1, WithoutType DEF Mailbox
    <3>3. \A i \in DOMAIN evs : evs[i] = transients[i]
      BY <3>2 DEF Without, Restrict
    <3>4. IsFiniteSet(DOMAIN evs) /\ Cardinality(DOMAIN evs) = Cardinality(DOMAIN transients) - 1
      BY <1>2, <3>1, <3>2, FS_RemoveElement
    <3>5. InOrder(evs, attached, {} \ {Victim})
      BY <1>1, <1>2, <3>2, InOrderWithout DEF MailInv, Mailbox
    <3>6. {} \ {Victim} = {}
      OBVIOUS
    <3>7. Cardinality(DOMAIN evs) < MaxPending
      <4>1. Cardinality(DOMAIN transients) \in Nat /\ Cardinality(DOMAIN transients) <= MaxPending
        BY <1>2, FS_CardinalityType DEF MailInv, InOrder
      <4> QED BY <3>4, <4>1, BoundsAssumption
    <3> HIDE DEF evs
    <3> QED BY <3>2, <3>3, <3>4, <3>5, <3>6, <3>7
  <2>2. CASE ~IsFull
    <3>1. evs = transients
      BY <2>2
    <3>2. Cardinality(DOMAIN transients) < MaxPending
      BY <1>2, <2>2, FS_CardinalityType, BoundsAssumption DEF IsFull
    <3> HIDE DEF evs
    <3> QED BY <1>2, <3>1, <3>2 DEF MailInv
  <2> QED BY <2>1, <2>2
<1> HIDE DEF evs, e
<1>9. InOrder(transients', attached, {})
  <2>1. nextAdmission + 1 \notin DOMAIN evs /\ \A i \in DOMAIN evs : evs[i].source # e.source
    BY <1>2, <1>4, <1>7, <1>8
  <2> QED BY <1>4, <1>6, <1>8, <2>1, AdmittedInOrder
<1>10. InOrder(transients', attached', {})
  BY <1>5, <1>9 DEF attached
<1> QED BY <1>10, CompleteMail

LEMMA RequestTransientMail ==
    ASSUME TypeOK, TypeOK', MailInv, NEW call \in Jobs, RequestTransient(call)
    PROVE  MailInv'
<1>1. doomed = {} /\ Complete
  BY RunningIsClear DEF RequestTransient, MailInv
<1>2. call.revision \in Nat
  BY KnownJobs DEF RequestTransient
<1> QED BY <1>1, <1>2, RenewedMail, AdmittedMail DEF RequestTransient

LEMMA RefusedRequestMail ==
    ASSUME TypeOK, TypeOK', MailInv, NEW call, RefuseTransient(call) \/ RejectTransient(call)
    PROVE  MailInv'
<1>1. doomed = {}
  BY RunningIsClear DEF RefuseTransient, RejectTransient, MailInv
<1>2. CASE RefuseTransient(call)
  BY <1>1, <1>2, RefuseMail DEF RefuseTransient
<1>3. CASE RejectTransient(call)
  <2>1. /\ UNCHANGED <<surfaces, transients, scheduler>>
        /\ job' = NoJob /\ doomed' = doomed
    BY <1>1, <1>3 DEF RejectTransient, Return
  <2> QED BY <1>1, <2>1 DEF MailInv, Armed, RestIsClear, attached, InOrder
<1> QED BY <1>2, <1>3

LEMMA OpenInteractiveMail ==
    ASSUME TypeOK, TypeOK', MailInv, NEW kind, NEW target, OpenInteractive(kind, target)
    PROVE  MailInv'
<1>1. job = NoJob /\ doomed = {}
  BY DEF OpenInteractive, MayEnter, MayCall, MailInv, RestIsClear
<1>2. DOMAIN surfaces' = DOMAIN surfaces
  BY DEF OpenInteractive, Opened, WithoutTasks, attached
<1>3. transients' = transients /\ job' = job /\ doomed' = doomed
      /\ scheduler' \in {scheduler, Schedule(transients)}
  BY DEF OpenInteractive
<1>4. Armed'
  <2>1. GoodMail(transients)
    BY TypeParts DEF Mailbox
  <2> QED BY <1>3, <2>1, ScheduleArms DEF MailInv, Armed
<1> QED BY <1>1, <1>2, <1>3, <1>4 DEF MailInv, RestIsClear, attached, InOrder

LEMMA ResetToIdleMail ==
    ASSUME TypeOK, TypeOK', MailInv, NEW s, ResetToIdle(s)
    PROVE  MailInv'
<1>1. doomed = {} /\ Complete /\ transients' = transients /\ DOMAIN surfaces' = DOMAIN surfaces
  BY DEF ResetToIdle, MayCall, MailInv, RestIsClear
<1> QED BY <1>1, UntouchedMail

LEMMA PrepareSurfaceDisableMail ==
    ASSUME MailInv, NEW s, NEW replacement, PrepareSurfaceDisable(s, replacement)
    PROVE  MailInv'
<1>1. DOMAIN surfaces' = DOMAIN surfaces /\ UNCHANGED <<transients, scheduler, job, doomed>>
  BY DEF PrepareSurfaceDisable
<1> QED BY <1>1, QuietMail

LEMMA SyncPolkitModalMail ==
    ASSUME TypeOK, TypeOK', MailInv, NEW flow, SyncPolkitModal(flow)
    PROVE  MailInv'
<1>1. doomed = {} /\ Complete /\ transients' = transients
  BY DEF SyncPolkitModal, MayEnter, MayCall, MailInv, RestIsClear
<1>2. DOMAIN surfaces' = DOMAIN surfaces
  <2>1. CASE AppearModal(flow)
    BY <2>1 DEF AppearModal, Rehomed
  <2>2. CASE RefreshModal(flow)
    BY <2>2 DEF RefreshModal, attached
  <2>3. CASE ReleaseModal(flow)
    BY <2>3 DEF ReleaseModal, attached
  <2> QED BY <2>1, <2>2, <2>3 DEF SyncPolkitModal
<1> QED BY <1>1, <1>2, UntouchedMail

LEMMA AttachSurfaceMail ==
    ASSUME TypeOK, TypeOK', MailInv, NEW s, AttachSurface(s)
    PROVE  MailInv'
<1>1. doomed = {} /\ Complete /\ transients' = transients
  BY DEF AttachSurface, MayEnter, MayCall, MailInv, RestIsClear
<1>2. DOMAIN surfaces \subseteq DOMAIN surfaces'
  BY DEF AttachSurface, Rehomed, attached
<1>3. InOrder(transients', attached', {})
  BY <1>1, <1>2 DEF MailInv, InOrder, attached
<1> QED BY <1>1, <1>3, CompleteMail

(* The events that lose their last surface here are the doomed ones.       *)
LEMMA DetachSurfaceMail ==
    ASSUME TypeOK, TypeOK', MailInv, NEW s, DetachSurface(s)
    PROVE  MailInv'
<1>1. DOMAIN surfaces' = DOMAIN surfaces \ {s} /\ scheduler' = scheduler
      /\ doomed' = {i \in DOMAIN transients : transients[i].targets \subseteq {s}}
  BY DEF DetachSurface, attached, Restrict
<1>2. job' # NoJob
  <2>1. job'.op = "detach"
    BY DEF DetachSurface, DetachCall
  <2> QED BY <2>1 DEF NoJob
<1>3. \A i \in DOMAIN transients : transients[i] \in Events
  BY DEF TypeOK
<1>4. transients' = [i \in DOMAIN transients |->
                         [transients[i] EXCEPT !.targets = @ \ {s}, !.visible = @ \ {s}]]
  BY DEF DetachSurface
<1>5. /\ DOMAIN transients' = DOMAIN transients
      /\ \A i \in DOMAIN transients :
            /\ transients'[i].source = transients[i].source
            /\ transients'[i].targets = transients[i].targets \ {s}
            /\ transients'[i].fresh = transients[i].fresh
            /\ transients'[i].hold = transients[i].hold
  BY <1>3, <1>4 DEF Events
<1>6. InOrder(transients, attached, doomed)'
  <2>1. ASSUME NEW i \in DOMAIN transients
        PROVE  /\ transients'[i].targets \subseteq attached'
               /\ transients'[i].targets = {} => i \in doomed'
    BY <1>1, <1>5, <2>1 DEF MailInv, InOrder, attached
  <2> QED BY <1>5, <2>1 DEF MailInv, InOrder
<1>7. Armed'
  BY <1>1, <1>5 DEF MailInv, Armed, Deadline
<1> QED BY <1>2, <1>6, <1>7 DEF MailInv, RestIsClear

LEMMA FinishDetachMail ==
    ASSUME TypeOK, TypeOK', MailInv, FinishDetach
    PROVE  MailInv'
<1>1. doomed = {} /\ Complete /\ transients' = transients
  BY DEF FinishDetach
<1>2. DOMAIN surfaces' = DOMAIN surfaces
  BY DEF FinishDetach, Rehomed, Transferred
<1> QED BY <1>1, <1>2, UntouchedMail

LEMMA TimerFiresMail ==
    ASSUME TypeOK, TypeOK', MailInv, NEW call, TimerFires(call)
    PROVE  MailInv'
<1>1. doomed = {} /\ Complete /\ transients' = transients /\ DOMAIN surfaces' = DOMAIN surfaces
  BY RunningIsClear DEF TimerFires, MailInv
<1> QED BY <1>1, UntouchedMail

(* The timer and the deadlines run together.                               *)
LEMMA ElapsedDeadline ==
    ASSUME NEW e \in Events, NEW n \in Nat, n <= Deadline(e)
    PROVE  LET after == [e EXCEPT !.fresh = Elapse(@), !.hold = Elapse(@)]
           IN  Elapse(n) \in 0..Deadline(after)
<1> DEFINE after == [e EXCEPT !.fresh = Elapse(@), !.hold = Elapse(@)]
<1>1. /\ after.fresh = Elapse(e.fresh) /\ after.hold = Elapse(e.hold)
      /\ e.fresh \in Nat /\ e.hold \in Nat \cup {NotHolding}
  BY DEF Events
<1> HIDE DEF after
<1>2. /\ Elapse(NotHolding) = NotHolding
      /\ \A m \in Nat : Elapse(m) \in Nat
      /\ \A k, m \in Nat : k <= m => Elapse(k) <= Elapse(m)
  BY DEF Elapse, NotHolding
<1>3. \A m \in Nat : m # NotHolding
  BY DEF NotHolding
<1>4. CASE e.hold = NotHolding
  BY <1>1, <1>2, <1>4 DEF Deadline
<1>5. CASE e.hold \in Nat
  <2>1. Min({e.fresh, e.hold}) \in Nat /\ n <= e.fresh /\ n <= e.hold
    <3>1. {e.fresh, e.hold} \in SUBSET Nat /\ {e.fresh, e.hold} # {}
      BY <1>1, <1>5
    <3>2. /\ Min({e.fresh, e.hold}) \in {e.fresh, e.hold}
          /\ \A m \in {e.fresh, e.hold} : Min({e.fresh, e.hold}) <= m
      BY <3>1, MinOfNaturals
    <3>3. n <= Min({e.fresh, e.hold})
      BY <1>3, <1>5 DEF Deadline
    <3> QED BY <1>1, <1>5, <3>2, <3>3
  <2>2. Elapse(n) \in Nat /\ Elapse(n) <= after.fresh /\ Elapse(n) <= after.hold
        /\ after.fresh \in Nat /\ after.hold \in Nat
    BY <1>1, <1>2, <1>5, <2>1
  <2>3. Deadline(after) = Min({after.fresh, after.hold})
    BY <1>3, <2>2 DEF Deadline
  <2>4. Min({after.fresh, after.hold}) \in {after.fresh, after.hold}
    <3>1. {after.fresh, after.hold} \in SUBSET Nat /\ {after.fresh, after.hold} # {}
      BY <2>2
    <3> QED BY <3>1, MinOfNaturals
  <2> QED BY <2>2, <2>3, <2>4 DEF after
<1> QED BY <1>1, <1>4, <1>5 DEF after

LEMMA TickMail ==
    ASSUME TypeOK, MailInv, Tick
    PROVE  MailInv'
<1>1. job = NoJob /\ UNCHANGED <<job, doomed>> /\ DOMAIN surfaces' = DOMAIN surfaces
      /\ scheduler' = Elapse(scheduler)
  BY DEF Tick
<1>2. \A i \in DOMAIN transients : transients[i] \in Events
  BY DEF TypeOK
<1>3. transients' = [i \in DOMAIN transients |->
                         [transients[i] EXCEPT !.fresh = Elapse(@), !.hold = Elapse(@)]]
  BY DEF Tick
<1>4. /\ DOMAIN transients' = DOMAIN transients
      /\ \A i \in DOMAIN transients :
            /\ transients'[i].source = transients[i].source
            /\ transients'[i].targets = transients[i].targets
  BY <1>2, <1>3 DEF Events
<1>5. InOrder(transients, attached, doomed)'
  <2>1. InOrder(transients', attached, doomed)
    BY <1>4, InOrderSame DEF MailInv
  <2> QED BY <1>1, <2>1 DEF InOrder, attached
<1>6. Armed'
  <2> SUFFICES ASSUME NEW i \in DOMAIN transients
               PROVE  scheduler' \in 0..Deadline(transients'[i])
    BY <1>4 DEF Armed
  <2>1. transients[i] \in Events /\ Deadline(transients[i]) \in Nat
    BY <1>2, DeadlineType
  <2>2. scheduler \in Nat /\ scheduler <= Deadline(transients[i])
    BY <2>1 DEF MailInv, Armed
  <2> QED BY <1>1, <1>3, <2>1, <2>2, ElapsedDeadline
<1> QED BY <1>1, <1>5, <1>6 DEF MailInv, RestIsClear

LEMMA InitMail == Init => MailInv
<1> SUFFICES ASSUME Init PROVE MailInv
  OBVIOUS
<1>1. DOMAIN transients = {} /\ doomed = {}
  BY DEF Init
<1>2. Cardinality(DOMAIN transients) = 0
  BY <1>1, FS_EmptySet
<1> QED BY <1>1, <1>2, BoundsAssumption DEF MailInv, InOrder, Armed, RestIsClear

-----------------------------------------------------------------------------
(* Every step keeps the mailbox in order.                                  *)
LEMMA StepMail == TypeOK /\ TypeOK' /\ MailInv /\ [Next]_vars => MailInv'
<1> SUFFICES ASSUME TypeOK, TypeOK', MailInv, [Next]_vars PROVE MailInv'
  OBVIOUS
<1>1. ASSUME NEW call \in Calls, Handle(call)
      PROVE  MailInv'
  <2>1. call \in Jobs
    BY CallTypes
  <2>2. CASE Expire(call)              BY <2>2, ExpireMail
  <2>3. CASE AcknowledgeVisible(call)  BY <2>3, AcknowledgeMail
  <2>4. CASE SetBaselineIntent(call)   BY <2>4, SetBaselineIntentMail
  <2>5. CASE RequestTransient(call)    BY <2>1, <2>5, RequestTransientMail
  <2>6. CASE RefuseTransient(call)     BY <2>6, RefusedRequestMail
  <2>7. CASE RejectTransient(call)     BY <2>7, RefusedRequestMail
  <2>8. CASE FinishInteractive(call)   BY <2>8, FinishInteractiveMail
  <2>9. CASE TimerFires(call)          BY <2>9, TimerFiresMail
  <2> QED
    BY <1>1, <2>2, <2>3, <2>4, <2>5, <2>6, <2>7, <2>8, <2>9 DEF Handle
<1>2. CASE RemoveDoomed
  BY <1>2, RemoveDoomedMail
<1>3. CASE \E source \in Sources : InvalidateTransient(source)
  BY <1>3, InvalidateTransientMail
<1>4. CASE \E kind \in Tasks, s \in Surfaces : OpenInteractive(kind, s)
  BY <1>4, OpenInteractiveMail
<1>5. CASE \E s \in Surfaces : ResetToIdle(s) \/ AttachSurface(s) \/ DetachSurface(s)
  BY <1>5, ResetToIdleMail, AttachSurfaceMail, DetachSurfaceMail
<1>6. CASE \E s, replacement \in Surfaces : PrepareSurfaceDisable(s, replacement)
  BY <1>6, PrepareSurfaceDisableMail
<1>7. CASE \E flow \in 0..MaxFlow : SyncPolkitModal(flow)
  BY <1>7, SyncPolkitModalMail
<1>8. CASE FinishDetach
  BY <1>8, FinishDetachMail
<1>9. CASE Tick
  BY <1>9, TickMail
<1>10. CASE UNCHANGED vars
  BY <1>10, QuietMail DEF vars
<1> QED
  BY <1>1, <1>2, <1>3, <1>4, <1>5, <1>6, <1>7, <1>8, <1>9, <1>10 DEF Next

LEMMA MailAlways == Spec => []MailInv
<1>1. Init => TypeOK /\ MailInv
  BY InitType, InitMail
<1>2. TypeOK /\ [Next]_vars => TypeOK'
  BY StepType
<1>3. TypeOK /\ TypeOK' /\ MailInv /\ [Next]_vars => MailInv'
  BY StepMail
<1> QED BY <1>1, <1>2, <1>3, PTL DEF Spec

(* However many sources ask and surfaces come and go, the mailbox holds no *)
(* more than maximumPendingTransients, one event for each source, none for *)
(* a surface that is gone and, between handlers, none that nobody can show.*)
THEOREM FeedbackBounded == Spec => []MailboxBounded
<1>1. MailInv => MailboxBounded
  BY DEF MailInv, InOrder, RestIsClear, MailboxBounded, AtRest
<1> QED BY <1>1, MailAlways, PTL

(* The one timer is armed and never later than a deadline: no handler,     *)
(* refusal or early return leaves an event behind unnoticed.               *)
THEOREM FeedbackTimed == Spec => []TimerArmed
<1>1. MailInv => TimerArmed
  BY DEF MailInv, Armed, TimerArmed
<1> QED BY <1>1, MailAlways, PTL
-----------------------------------------------------------------------------
(* The event of an owner is pending, meant for its surface and of its kind; *)
(* content that is not feedback has none.                                   *)
Backed(o, s, evs) ==
    IF o.kind \in TransientKinds
    THEN /\ o.event \in DOMAIN evs
         /\ s \in evs[o.event].targets
         /\ EventKind(evs[o.event]) = o.kind
    ELSE o.event = NoEvent

FrameRank(f) == RankFor(f.owner.kind)

(* What can be restored: the stack is sorted by rank. *)
WellStacked(r, s, evs) ==
    \A f \in r.restoration :
        /\ f.owner.kind # "polkitModal"
        /\ Backed(f.owner, s, evs)
        /\ \A g \in r.restoration : f.depth < g.depth <=> FrameRank(f) < FrameRank(g)

OnTop(r) == \A f \in r.restoration : FrameRank(f) < Rank(r)

Honored(r) ==
    /\ r.hover \/ r.explicit => Rank(r) >= RankFor("expanded")
    /\ r.owner.kind = "expanded" => r.hover \/ r.explicit

(* An owner that waits for the keyboard may have it, and so may any task.   *)
Focused(r) ==
    r.owner.focusPending \/ r.owner.kind \in Reserved => r.owner.focusTarget

Sound(r, s, evs) ==
    /\ WellStacked(r, s, evs)
    /\ OnTop(r)
    /\ Backed(r.owner, s, evs)
    /\ Honored(r)
    /\ Focused(r)

AllSound(srf, evs) == \A s \in DOMAIN srf : Sound(srf[s], s, evs)

StackInv == AllSound(surfaces, transients)

-----------------------------------------------------------------------------
(* One record at a time. *)

LEMMA RecordRanks ==
    ASSUME NEW r, GoodRecord(r)
    PROVE  /\ Rank(r) \in 0..9 /\ r.owner.kind \in Kinds
           /\ r.owner.kind # "polkitModal" /\ r.owner.kind \notin InteractiveKinds =>
                 Rank(r) \in 0..6
           /\ \A f \in r.restoration : FrameRank(f) \in 0..9 /\ f.depth \in Nat
<1>1. r.owner \in Owners /\ r.restoration \in SUBSET Frames
  BY DEF GoodRecord, Records
<1>2. r.owner.kind \in Kinds /\ \A f \in r.restoration : f.owner.kind \in Kinds /\ f.depth \in Nat
  BY <1>1 DEF Owners, Frames
<1>3. r.owner.kind # "polkitModal" /\ r.owner.kind \notin InteractiveKinds =>
        r.owner.kind \in {"idle", "expanded"} \cup TransientKinds
  BY <1>2 DEF Kinds, BaselineKinds
<1>4. r.owner.kind \in {"idle", "expanded"} \cup TransientKinds => RankFor(r.owner.kind) \in 0..6
  BY RankBands
<1> QED BY <1>2, <1>3, <1>4, RankBands DEF Rank, FrameRank

(* The owner changes its state, frames are dropped. *)
LEMMA SoundSame ==
    ASSUME NEW r, NEW q, NEW s, NEW evs, Sound(r, s, evs),
           q.owner.kind = r.owner.kind, q.owner.event = r.owner.event,
           q.restoration \subseteq r.restoration,
           q.hover = r.hover, q.explicit = r.explicit, Focused(q)
    PROVE  Sound(q, s, evs)
<1>1. WellStacked(q, s, evs)
  BY DEF Sound, WellStacked
<1>2. OnTop(q) /\ Backed(q.owner, s, evs) /\ Honored(q)
  BY DEF Sound, OnTop, Backed, Honored, Rank
<1> QED BY <1>1, <1>2 DEF Sound

(* The mailbox changes, but not in the events that the owners have. *)
LEMMA BackedSame ==
    ASSUME NEW o, NEW s, NEW evs, NEW next, Backed(o, s, evs),
           o.event \in DOMAIN evs /\ s \in evs[o.event].targets =>
               /\ o.event \in DOMAIN next
               /\ s \in next[o.event].targets
               /\ next[o.event].source = evs[o.event].source
    PROVE  Backed(o, s, next)
BY DEF Backed, EventKind

LEMMA SoundMail ==
    ASSUME NEW r, NEW s, NEW evs, NEW next, Sound(r, s, evs),
           \A i \in DOMAIN evs : s \in evs[i].targets =>
               /\ i \in DOMAIN next
               /\ s \in next[i].targets
               /\ next[i].source = evs[i].source
    PROVE  Sound(r, s, next)
<1>1. \A o : Backed(o, s, evs) => Backed(o, s, next)
  BY BackedSame
<1> QED BY <1>1 DEF Sound, WellStacked

(* A new owner waits for the keyboard only if it may have it. *)
LEMMA EnteredFocus ==
    ASSUME NEW kind, NEW event, NEW n, NEW epoch, NEW pending \in BOOLEAN
    PROVE  /\ OwnerRecord(kind, event, n, epoch, pending).focusPending =>
                 kind \in FocusableKinds
           /\ OwnerRecord(kind, event, n, epoch, pending).focusTarget <=>
                 kind \in FocusableKinds
           /\ kind \in Reserved => kind \in FocusableKinds
BY DEF OwnerRecord, FocusableKinds, Reserved

LEMMA SoundBare ==
    ASSUME NEW r, NEW s, NEW evs, r.restoration = {}, r.owner = BaselineOwner("idle"),
           r.hover = FALSE, r.explicit = FALSE
    PROVE  Sound(r, s, evs) /\ r.owner.event = NoEvent /\ Rank(r) = 0
<1>1. /\ r.owner.kind = "idle" /\ r.owner.event = NoEvent
      /\ r.owner.focusPending => r.owner.focusTarget
  <2> DEFINE o == OwnerRecord("idle", NoEvent, 0, NoEpoch, FALSE)
  <2>1. FALSE \in BOOLEAN
    OBVIOUS
  <2>2. o.kind = "idle" /\ o.event = NoEvent
    BY DEF OwnerRecord
  <2>3. o.focusPending => o.focusTarget
    BY <2>1, EnteredFocus
  <2>4. r.owner = o
    BY DEF BaselineOwner
  <2> HIDE DEF o
  <2> QED BY <2>2, <2>3, <2>4
<1>2. "idle" \notin TransientKinds /\ "idle" \notin Reserved
  BY RankBands DEF Reserved
<1> QED
  BY <1>1, <1>2, RankBands DEF Sound, WellStacked, OnTop, Backed, Honored, Focused, Rank

LEMMA SoundIdle ==
    ASSUME NEW r, GoodRecord(r), NEW s, NEW evs
    PROVE  /\ Sound(ForceIdle(r), s, evs)
           /\ ForceIdle(r).owner.event = NoEvent
           /\ ForceIdle(r).focusRequest = r.focusRequest
           /\ Rank(ForceIdle(r)) = 0
<1> DEFINE q == ForceIdle(r)
<1>1. /\ q.restoration = {} /\ q.owner = BaselineOwner("idle")
      /\ q.hover = FALSE /\ q.explicit = FALSE
      /\ q.focusRequest = r.focusRequest
  BY DEF ForceIdle, GoodRecord, Records
<1> HIDE DEF q
<1> QED BY <1>1, SoundBare DEF q

LEMMA SoundNew ==
    ASSUME NEW s, NEW evs
    PROVE  Sound(NewRecord, s, evs)
BY SoundBare DEF NewRecord

(* captureCurrent puts the owner on the stack, and nothing else changes. *)
LEMMA CaptureKeeps ==
    ASSUME NEW r, GoodRecord(r)
    PROVE  LET c == CaptureCurrent(r)
           IN  /\ c.owner = r.owner /\ c.hover = r.hover /\ c.explicit = r.explicit
               /\ c.focusRequest = r.focusRequest
BY DEF CaptureCurrent, GoodRecord, Records

(* Content of a higher rank is entered over what a surface shows. *)
LEMMA SoundOver ==
    ASSUME NEW r, GoodRecord(r), NEW s, NEW evs, WellStacked(r, s, evs), OnTop(r),
           Backed(r.owner, s, evs),
           NEW q, GoodRecord(q), q.restoration = CaptureCurrent(r).restoration,
           Rank(r) < Rank(q), Backed(q.owner, s, evs), Focused(q), Honored(q)
    PROVE  Sound(q, s, evs)
<1> DEFINE frame == [depth |-> NextDepth(r.restoration), owner |-> r.owner]
<1>1. Rank(r) \in Nat /\ Rank(q) \in Nat
  BY RecordRanks
<1>2. \A f \in r.restoration : f.depth \in Nat /\ FrameRank(f) \in Nat
  BY RecordRanks
<1>3. CASE q.restoration = r.restoration
  <2>1. OnTop(q)
    BY <1>1, <1>2, <1>3 DEF OnTop
  <2> QED BY <1>3, <2>1 DEF Sound, WellStacked
<1>4. CASE r.owner.kind # "polkitModal" /\ q.restoration = r.restoration \cup {frame}
  <2>1. frame.owner = r.owner /\ frame.depth = NextDepth(r.restoration) /\ FrameRank(frame) = Rank(r)
    BY DEF FrameRank, Rank
  <2>2. frame.depth \in Nat /\ \A f \in r.restoration : f.depth < frame.depth
    BY <2>1, NextDepthAbove DEF GoodRecord, Records
  <2> HIDE DEF frame
  <2>3. OnTop(q)
    BY <1>1, <1>2, <1>4, <2>1 DEF OnTop
  <2>4. \A f \in r.restoration : /\ f.depth < frame.depth /\ FrameRank(f) < FrameRank(frame)
                                 /\ ~(frame.depth < f.depth) /\ ~(FrameRank(frame) < FrameRank(f))
    BY <1>1, <1>2, <2>1, <2>2 DEF OnTop
  <2>5. ~(frame.depth < frame.depth) /\ ~(FrameRank(frame) < FrameRank(frame))
    BY <1>1, <2>1, <2>2
  <2>6. WellStacked(q, s, evs)
    <3> SUFFICES ASSUME NEW f \in q.restoration
                 PROVE  /\ f.owner.kind # "polkitModal"
                        /\ Backed(f.owner, s, evs)
                        /\ \A g \in q.restoration :
                              f.depth < g.depth <=> FrameRank(f) < FrameRank(g)
      BY DEF WellStacked
    <3>1. CASE f = frame
      BY <1>4, <2>1, <2>4, <2>5, <3>1
    <3>2. CASE f \in r.restoration
      BY <1>4, <2>4, <3>2 DEF WellStacked
    <3> QED BY <1>4, <3>1, <3>2
  <2> QED BY <2>3, <2>6 DEF Sound
<1> QED BY <1>3, <1>4, Captured

LEMMA SoundEntered ==
    ASSUME NEW r, GoodRecord(r), NEW s, NEW evs, Sound(r, s, evs),
           NEW q, GoodRecord(q), q.restoration = CaptureCurrent(r).restoration,
           q.hover = r.hover, q.explicit = r.explicit,
           Rank(r) < Rank(q), Backed(q.owner, s, evs), Focused(q),
           q.owner.kind # "expanded"
    PROVE  Sound(q, s, evs)
<1>1. Rank(r) \in Nat /\ Rank(q) \in Nat
  BY RecordRanks
<1>2. Honored(q)
  BY <1>1, RankBands DEF Sound, Honored
<1> QED BY <1>2, SoundOver DEF Sound

(* A task or the modal takes a surface over. *)
LEMMA SoundTakeover ==
    ASSUME NEW r, GoodRecord(r), NEW s, NEW evs, Sound(r, s, evs), NEW kind \in Reserved,
           NEW epoch \in Epochs, NEW n \in Nat, Rank(r) < RankFor(kind)
    PROVE  LET q == EnterOwner(CaptureCurrent(r), kind, epoch, n)
           IN  Sound(q, s, evs) /\ q.owner.event = NoEvent /\ q.focusRequest = r.focusRequest
<1> DEFINE c == CaptureCurrent(r)
           q == EnterOwner(c, kind, epoch, n)
<1>1. kind \in Kinds /\ kind # "expanded" /\ kind \notin TransientKinds
  BY RankBands DEF Reserved
<1>2. GoodRecord(c) /\ c.hover = r.hover /\ c.explicit = r.explicit
      /\ c.focusRequest = r.focusRequest
  BY CaptureCurrentType, CaptureKeeps
<1> HIDE DEF c
<1>3. GoodRecord(q)
  BY <1>1, <1>2, EnterOwnerType
<1>4. /\ q.owner.kind = kind /\ q.owner.event = NoEvent
      /\ q.restoration = c.restoration
  BY <1>2, EnteredKind
<1>5. q.hover = r.hover /\ q.explicit = r.explicit /\ q.focusRequest = r.focusRequest
  BY <1>2 DEF EnterOwner, GoodRecord, Records
<1>6. Focused(q)
  <2>1. q.owner.focusTarget = OwnerRecord(kind, NoEvent, 0, epoch, TRUE).focusTarget
    BY <1>2 DEF EnterOwner, GoodRecord, Records, OwnerRecord
  <2>2. kind \in FocusableKinds
    BY DEF Reserved, FocusableKinds
  <2>3. OwnerRecord(kind, NoEvent, 0, epoch, TRUE).focusTarget
    BY <2>2, EnteredFocus
  <2> QED BY <2>1, <2>3 DEF Focused
<1>7. Backed(q.owner, s, evs)
  BY <1>1, <1>4 DEF Backed
<1>8. Rank(q) = RankFor(kind)
  BY <1>4 DEF Rank
<1> HIDE DEF q
<1>9. Sound(q, s, evs)
  BY <1>1, <1>3, <1>4, <1>5, <1>6, <1>7, <1>8, SoundEntered DEF c
<1> QED BY <1>4, <1>5, <1>9 DEF q, c

(* The modal starts anew on a surface that is cleared first. *)
LEMMA SoundCleared ==
    ASSUME NEW r, GoodRecord(r), NEW s, NEW evs, NEW epoch \in Epochs, NEW n \in Nat
    PROVE  LET q == EnterOwner(ForceIdle(r), "polkitModal", epoch, n)
           IN  Sound(q, s, evs) /\ q.owner.event = NoEvent /\ q.focusRequest = r.focusRequest
<1> DEFINE i == ForceIdle(r)
           q == EnterOwner(i, "polkitModal", epoch, n)
<1>1. GoodRecord(i) /\ Sound(i, s, evs) /\ i.focusRequest = r.focusRequest /\ Rank(i) = 0
  BY ForceIdleType, SoundIdle
<1>2. i.owner.kind = "idle"
  BY DEF ForceIdle, BaselineOwner, OwnerRecord, GoodRecord, Records
<1> HIDE DEF i
<1>3. CaptureCurrent(i) = i
  BY <1>2 DEF CaptureCurrent
<1>4. Rank(i) < RankFor("polkitModal") /\ "polkitModal" \in Reserved
  BY <1>1, RankBands DEF Reserved
<1>5. /\ Sound(EnterOwner(CaptureCurrent(i), "polkitModal", epoch, n), s, evs)
      /\ EnterOwner(CaptureCurrent(i), "polkitModal", epoch, n).owner.event = NoEvent
      /\ EnterOwner(CaptureCurrent(i), "polkitModal", epoch, n).focusRequest = i.focusRequest
  BY <1>1, <1>4, SoundTakeover
<1> QED BY <1>1, <1>3, <1>5 DEF i

(* q is r with event i for its owner. *)
Turned(q, r, i, s, evs) ==
    /\ GoodRecord(q)
    /\ q.restoration = r.restoration
    /\ q.hover = r.hover /\ q.explicit = r.explicit
    /\ q.focusRequest = r.focusRequest
    /\ q.owner.event = i
    /\ q.owner.kind # "expanded"
    /\ Rank(q) = EventRank(evs, i)
    /\ Backed(q.owner, s, evs)
    /\ Focused(q)

LEMMA EventOwner ==
    ASSUME NEW r, GoodRecord(r), NEW s, NEW evs, GoodMail(evs), NEW i \in DOMAIN evs,
           s \in evs[i].targets, NEW epoch \in Epochs
    PROVE  Turned(EnterEvent(r, i, evs[i], epoch), r, i, s, evs)
<1> DEFINE q == EnterEvent(r, i, evs[i], epoch)
           kind == EventKind(evs[i])
<1>1. evs[i] \in Events /\ i \in Nat /\ kind \in TransientKinds
  BY EventRankType, EventKindType
<1>2. GoodRecord(q)
  BY <1>1, EnterEventType
<1>3. q.owner.kind = kind /\ q.restoration = r.restoration
  BY EnteredKind
<1>4. /\ q.hover = r.hover /\ q.explicit = r.explicit
      /\ q.focusRequest = r.focusRequest
      /\ q.owner.event = i
  BY DEF EnterEvent, OwnerRecord, GoodRecord, Records
<1>5. Focused(q)
  <2>1. q.owner = OwnerRecord(kind, i, evs[i].revision, epoch, TRUE)
    BY DEF EnterEvent, GoodRecord, Records
  <2>2. q.owner.focusPending => q.owner.focusTarget
    BY <2>1, EnteredFocus
  <2>3. q.owner.kind \notin Reserved
    BY <1>1, <1>3, RankBands DEF Reserved
  <2> QED BY <2>2, <2>3 DEF Focused
<1> HIDE DEF q
<1>6. Backed(q.owner, s, evs) /\ Rank(q) = EventRank(evs, i)
  BY <1>1, <1>3, <1>4 DEF Backed, Rank, EventRank
<1>7. q.owner.kind # "expanded"
  BY <1>1, <1>3, RankBands
<1> QED BY <1>2, <1>3, <1>4, <1>5, <1>6, <1>7 DEF q, Turned

(* Feedback outranks what a surface shows, or that has ended. *)
LEMMA SoundEvent ==
    ASSUME NEW r, GoodRecord(r), NEW s, NEW evs, GoodMail(evs), Sound(r, s, evs),
           NEW i \in DOMAIN evs, s \in evs[i].targets, NEW epoch \in Epochs,
           Rank(r) < EventRank(evs, i)
    PROVE  LET q == EnterEvent(CaptureCurrent(r), i, evs[i], epoch)
           IN  Sound(q, s, evs) /\ q.owner.event = i /\ q.focusRequest = r.focusRequest
<1> DEFINE c == CaptureCurrent(r)
           q == EnterEvent(c, i, evs[i], epoch)
<1>1. GoodRecord(c) /\ c.hover = r.hover /\ c.explicit = r.explicit
      /\ c.focusRequest = r.focusRequest
  BY CaptureCurrentType, CaptureKeeps
<1> HIDE DEF c
<1>2. Turned(q, c, i, s, evs)
  BY <1>1, EventOwner
<1> HIDE DEF q
<1>3. Sound(q, s, evs)
  BY <1>1, <1>2, SoundEntered DEF Turned, c
<1> QED BY <1>1, <1>2, <1>3 DEF Turned, q, c

(* An owner that comes back has what it had but for the keyboard, which a   *)
(* task wants again.                                                        *)
LEMMA RestoredOwner ==
    ASSUME NEW r, NEW f \in Frames
    PROVE  /\ Restored(r, f).kind = f.owner.kind
           /\ Restored(r, f).event = f.owner.event
           /\ Restored(r, f).epoch = f.owner.epoch
           /\ Restored(r, f).focusPending => Restored(r, f).focusTarget
           /\ f.owner.kind \in InteractiveKinds =>
                 Restored(r, f).focusPending /\ Restored(r, f).focusTarget
<1> DEFINE wants == \/ f.owner.kind \in InteractiveKinds
                    \/ f.owner.kind = "expanded" /\ r.explicit
           o == f.owner
<1>1. wants \in BOOLEAN /\ (f.owner.kind \in InteractiveKinds => wants)
  OBVIOUS
<1>2. Restored(r, f) = [o EXCEPT !.revision = @ + 1, !.visible = FALSE,
                                 !.focusPending = wants, !.focusTarget = wants]
  BY DEF Restored
<1>3. o \in Owners
  BY DEF Frames
<1> HIDE DEF wants, o
<1>4. /\ Restored(r, f).kind = o.kind /\ Restored(r, f).event = o.event
      /\ Restored(r, f).epoch = o.epoch
      /\ Restored(r, f).focusPending = wants /\ Restored(r, f).focusTarget = wants
  BY <1>2, <1>3 DEF Owners
<1> QED BY <1>1, <1>4 DEF o

FreshEvent(o, evs) ==
    o.event # NoEvent => o.event \in DOMAIN evs /\ evs[o.event].fresh > 0

(* q may stand for what r was, and does not ask for the keyboard. *)
Settled(q, r, s, evs) ==
    /\ Sound(q, s, evs)
    /\ FreshEvent(q.owner, evs)
    /\ q.focusRequest = r.focusRequest

(* Whatever the owner was that has ended: what the surface goes on with is  *)
(* sound if the stack under it was.                                         *)
LEMMA SoundFrame ==
    ASSUME NEW r, GoodRecord(r), NEW s, NEW evs, WellStacked(r, s, evs),
           NEW f \in r.restoration, IsRelevantFrame(f, r, s, evs),
           RankFor(f.owner.kind) >= RankFor(BaselineKind(r)),
           NEW q, q.owner = Restored(r, f), q.hover = r.hover, q.explicit = r.explicit,
           q.focusRequest = r.focusRequest,
           \A g : g \in q.restoration <=> g \in r.restoration /\ g.depth < f.depth
    PROVE  Settled(q, r, s, evs)
<1>1. r \in Records /\ f \in Frames /\ f.owner \in Owners
  BY DEF GoodRecord, Records, Frames
<1>2. q.owner.kind = f.owner.kind /\ q.owner.event = f.owner.event
  BY <1>1, RestoredOwner
<1>3. WellStacked(q, s, evs) /\ Backed(q.owner, s, evs)
  BY <1>2 DEF WellStacked, Backed
<1>4. OnTop(q)
  BY <1>2 DEF WellStacked, OnTop, FrameRank, Rank
<1>5. Honored(q)
  <2>1. r.hover \/ r.explicit => BaselineKind(r) = "expanded"
    BY DEF BaselineKind
  <2>2. f.owner.kind = "expanded" => r.hover \/ r.explicit
    BY RankBands DEF IsRelevantFrame
  <2>3. RankFor(f.owner.kind) \in Nat
    BY <1>1, RankBands DEF Owners
  <2> QED BY <1>2, <2>1, <2>2, <2>3 DEF Honored, Rank
<1>6. Focused(q)
  <2>1. f.owner.kind \in Reserved => f.owner.kind \in InteractiveKinds
    BY DEF WellStacked, Reserved
  <2> QED BY <1>1, <1>2, <2>1, RestoredOwner DEF Focused
<1>7. FreshEvent(q.owner, evs)
  BY <1>2, RankBands DEF FreshEvent, WellStacked, Backed, IsRelevantFrame
<1> QED BY <1>3, <1>4, <1>5, <1>6, <1>7 DEF Sound, Settled

LEMMA SoundTurn ==
    ASSUME NEW r, GoodRecord(r), NEW s, NEW evs, GoodMail(evs), WellStacked(r, s, evs),
           NEW i \in PendingFor(r, s, evs), EventRank(evs, i) > RankFor(BaselineKind(r)),
           NEW below \in SUBSET r.restoration, NEW epoch \in Epochs,
           \A f \in below : \E top \in r.restoration :
              f.depth < top.depth /\ RankFor(top.owner.kind) < EventRank(evs, i),
           NEW q, q = EnterEvent([r EXCEPT !.restoration = below], i, evs[i], epoch)
    PROVE  Settled(q, r, s, evs)
<1> DEFINE p == [r EXCEPT !.restoration = below]
<1>1. /\ p.restoration = below /\ p.hover = r.hover /\ p.explicit = r.explicit
      /\ p.focusRequest = r.focusRequest /\ GoodRecord(p)
  BY FS_Subset DEF GoodRecord, Records
<1>2. q = EnterEvent(p, i, evs[i], epoch)
  OBVIOUS
<1> HIDE DEF p
<1>3. i \in DOMAIN evs /\ evs[i].fresh > 0 /\ s \in evs[i].targets
  BY DEF PendingFor
<1>4. /\ q.restoration = below
      /\ q.hover = r.hover /\ q.explicit = r.explicit
      /\ q.focusRequest = r.focusRequest
      /\ q.owner.event = i
      /\ Rank(q) = EventRank(evs, i)
      /\ Backed(q.owner, s, evs)
      /\ Focused(q)
      /\ q.owner.kind # "expanded"
  <2>1. Turned(q, p, i, s, evs)
    BY <1>1, <1>2, <1>3, EventOwner
  <2> QED BY <1>1, <2>1 DEF Turned
<1>5. WellStacked(q, s, evs)
  BY <1>4 DEF WellStacked
<1>6. EventRank(evs, i) \in 1..5
  BY <1>3, EventRankType
<1>7. OnTop(q)
  <2> SUFFICES ASSUME NEW f \in below PROVE FrameRank(f) < EventRank(evs, i)
    BY <1>4 DEF OnTop
  <2>1. PICK top \in r.restoration :
          f.depth < top.depth /\ RankFor(top.owner.kind) < EventRank(evs, i)
    OBVIOUS
  <2>2. FrameRank(f) < FrameRank(top)
    BY <2>1 DEF WellStacked
  <2>3. FrameRank(f) \in Nat /\ FrameRank(top) \in Nat
    BY RecordRanks
  <2> QED BY <1>6, <2>1, <2>2, <2>3 DEF FrameRank
<1>8. Honored(q)
  <2>1. RankFor(BaselineKind(r)) # 6
    BY <1>6, RankBands DEF BaselineKind
  <2>2. ~(r.hover \/ r.explicit)
    BY <2>1, RankBands DEF BaselineKind
  <2> QED BY <1>4, <2>2 DEF Honored
<1>9. FreshEvent(q.owner, evs)
  BY <1>3, <1>4 DEF FreshEvent
<1> QED BY <1>4, <1>5, <1>7, <1>8, <1>9 DEF Sound, Settled

LEMMA SoundBaseline ==
    ASSUME NEW r, GoodRecord(r), NEW s, NEW evs, NEW pending \in BOOLEAN,
           pending => BaselineKind(r) = "expanded",
           NEW q, q = [r EXCEPT !.restoration = {},
                                !.owner = [BaselineOwner(BaselineKind(r)) EXCEPT
                                              !.focusPending = pending]]
    PROVE  Settled(q, r, s, evs)
<1> DEFINE kind == BaselineKind(r)
<1>1. kind \in {"idle", "expanded"} /\ (kind = "expanded" <=> r.hover \/ r.explicit)
  BY DEF BaselineKind
<1>2. BaselineOwner(kind) \in Owners
  BY <1>1, BaselineOwnerType, RankBands
<1>3. BaselineOwner(kind).kind = kind /\ BaselineOwner(kind).event = NoEvent
  BY DEF BaselineOwner, OwnerRecord
<1>4. kind = "expanded" => BaselineOwner(kind).focusTarget
  <2>1. FALSE \in BOOLEAN /\ "expanded" \in FocusableKinds
    BY DEF FocusableKinds
  <2> QED BY <2>1, EnteredFocus DEF BaselineOwner
<1>5. /\ q.restoration = {} /\ q.hover = r.hover /\ q.explicit = r.explicit
      /\ q.focusRequest = r.focusRequest
      /\ q.owner = [BaselineOwner(kind) EXCEPT !.focusPending = pending]
  BY DEF GoodRecord, Records
<1> HIDE DEF kind
<1>6. /\ q.owner.kind = kind /\ q.owner.event = NoEvent
      /\ q.owner.focusPending = pending
      /\ kind = "expanded" => q.owner.focusTarget
  BY <1>2, <1>3, <1>4, <1>5 DEF Owners
<1>7. kind \notin Reserved /\ kind \notin TransientKinds
  BY <1>1, RankBands DEF Reserved
<1>8. Focused(q)
  BY <1>6, <1>7 DEF Focused, kind
<1>9. Honored(q)
  BY <1>1, <1>5, <1>6, RankBands DEF Honored, Rank
<1> QED
  BY <1>5, <1>6, <1>7, <1>8, <1>9 DEF Settled, Sound, WellStacked, OnTop, Backed, FreshEvent

LEMMA SoundRestored ==
    ASSUME NEW r, GoodRecord(r), NEW s \in Surfaces, NEW evs, GoodMail(evs),
           NEW epoch \in Epochs, WellStacked(r, s, evs)
    PROVE  LET q == RestoreNext(r, s, evs, epoch)
           IN  Settled(q, r, s, evs)
<1> DEFINE q == RestoreNext(r, s, evs, epoch)
<1> SUFFICES Settled(q, r, s, evs)
  OBVIOUS
<1>1. ToFrame(q, r, s, evs) \/ ToEvent(q, r, s, evs, epoch) \/ ToBaseline(q, r)
  BY RestoreNextCases
<1> HIDE DEF q
<1>2. CASE ToFrame(q, r, s, evs)
  <2>1. PICK f \in r.restoration :
          /\ IsRelevantFrame(f, r, s, evs)
          /\ RankFor(f.owner.kind) >= RankFor(BaselineKind(r))
          /\ q = [r EXCEPT !.restoration = {g \in @ : g.depth < f.depth},
                           !.owner = Restored(r, f)]
    BY <1>2 DEF ToFrame
  <2>2. /\ q.owner = Restored(r, f)
        /\ q.hover = r.hover /\ q.explicit = r.explicit /\ q.focusRequest = r.focusRequest
        /\ \A g : g \in q.restoration <=> g \in r.restoration /\ g.depth < f.depth
    BY <2>1 DEF GoodRecord, Records
  <2> QED BY <2>1, <2>2, SoundFrame
<1>3. CASE ToEvent(q, r, s, evs, epoch)
  BY <1>3, SoundTurn DEF ToEvent
<1>4. CASE ToBaseline(q, r)
  BY <1>4, SoundBaseline DEF ToBaseline
<1> QED BY <1>1, <1>2, <1>3, <1>4

-----------------------------------------------------------------------------
(* One surface in a step. *)

(* q follows r: the surface does not ask for the keyboard, and feedback it  *)
(* turns to is fresh.                                                       *)
FreshTurn(q, r, evs) ==
    q.owner.event # NoEvent /\ q.owner.event # r.owner.event =>
        q.owner.event \in DOMAIN evs /\ evs[q.owner.event].fresh > 0

Follows(q, r, s, evs) ==
    /\ Sound(q, s, evs)
    /\ FreshTurn(q, r, evs)
    /\ q.focusRequest = r.focusRequest

Spares(q, r) ==
    IsInteractive(r.owner) => q.owner.epoch = r.owner.epoch /\ q.owner.kind = r.owner.kind

LEMMA SettledFollows ==
    ASSUME NEW q, NEW r, NEW p, NEW s, NEW evs, Settled(q, p, s, evs),
           p.focusRequest = r.focusRequest
    PROVE  Follows(q, r, s, evs)
BY DEF Settled, Follows, FreshEvent, FreshTurn

LEMMA FollowsTwice ==
    ASSUME NEW a, NEW b, NEW c, NEW s, NEW evs, Follows(b, a, s, evs), Follows(c, b, s, evs)
    PROVE  Follows(c, a, s, evs)
BY DEF Follows, FreshTurn

LEMMA SparesTwice ==
    ASSUME NEW a, NEW b, NEW c, Spares(b, a), Spares(c, b)
    PROVE  Spares(c, a)
BY DEF Spares, IsInteractive

LEMMA FollowsMail ==
    ASSUME NEW q, NEW r, NEW s, NEW evs, NEW next, Follows(q, r, s, evs),
           \A i \in DOMAIN evs : i \in DOMAIN next /\ next[i] = evs[i]
    PROVE  Follows(q, r, s, next)
<1>1. Sound(q, s, next)
  BY SoundMail DEF Follows
<1> QED BY <1>1 DEF Follows, FreshTurn

(* Steps that leave the owner of a surface or only change its state. *)
LEMMA FollowsSame ==
    ASSUME NEW r, NEW q, NEW s, NEW evs, Sound(r, s, evs),
           q.owner.kind = r.owner.kind, q.owner.event = r.owner.event,
           q.owner.focusPending => q.owner.focusTarget,
           r.owner.focusTarget => q.owner.focusTarget,
           q.restoration \subseteq r.restoration,
           q.hover = r.hover, q.explicit = r.explicit, q.focusRequest = r.focusRequest
    PROVE  Follows(q, r, s, evs)
<1>1. Focused(q)
  BY DEF Sound, Focused
<1>2. Sound(q, s, evs)
  BY <1>1, SoundSame
<1> QED BY <1>2 DEF Follows, FreshTurn

LEMMA SoundWithout ==
    ASSUME NEW r, NEW s, NEW evs, GoodMail(evs), NEW id, WellStacked(r, s, evs),
           \A f \in r.restoration : f.owner.event # id
    PROVE  /\ WellStacked(r, s, Without(evs, id))
           /\ Sound(r, s, evs) /\ r.owner.event # id => Sound(r, s, Without(evs, id))
<1> DEFINE next == Without(evs, id)
<1>1. \A i \in DOMAIN evs : i # id => i \in DOMAIN next /\ next[i] = evs[i]
  BY DEF Without, Restrict
<1> HIDE DEF next
<1>2. \A o : Backed(o, s, evs) /\ o.event # id => Backed(o, s, next)
  BY <1>1 DEF Backed
<1>3. WellStacked(r, s, next)
  BY <1>2 DEF WellStacked
<1> QED BY <1>2, <1>3 DEF Sound, next

LEMMA AfterRemovalFollows ==
    ASSUME NEW srf, GoodSurfaces(srf), NEW evs, GoodMail(evs), AllSound(srf, evs),
           NEW id, id # NoEvent, NEW n \in Nat, NEW s \in DOMAIN srf
    PROVE  /\ Follows(AfterRemoval(srf, evs, id, n)[s], srf[s], s, Without(evs, id))
           /\ Spares(AfterRemoval(srf, evs, id, n)[s], srf[s])
<1> DEFINE r == srf[s]
           p == [r EXCEPT !.restoration = {f \in @ : f.owner.event # id}]
           q == RestoreNext(p, s, Without(evs, id), <<n, s>>)
<1>1. GoodRecord(r) /\ s \in Surfaces /\ Sound(r, s, evs)
  BY GoodAt DEF AllSound
<1>2. /\ p.owner = r.owner /\ p.hover = r.hover /\ p.explicit = r.explicit
      /\ p.focusRequest = r.focusRequest
      /\ p.restoration \subseteq r.restoration
      /\ \A f \in p.restoration : f.owner.event # id
      /\ GoodRecord(p)
  <2>1. IsFiniteSet({f \in r.restoration : f.owner.event # id})
    BY <1>1, FS_Subset DEF GoodRecord
  <2> HIDE DEF r
  <2> QED BY <1>1, <2>1 DEF GoodRecord, Records
<1>3. AfterRemoval(srf, evs, id, n)[s] = IF p.owner.event = id THEN q ELSE p
  BY DEF AfterRemoval
<1> HIDE DEF r, p
<1>4. Sound(p, s, evs)
  <2>1. Focused(p)
    BY <1>1, <1>2 DEF Sound, Focused
  <2> QED BY <1>1, <1>2, <2>1, SoundSame
<1>5. /\ WellStacked(p, s, Without(evs, id))
      /\ p.owner.event # id => Sound(p, s, Without(evs, id))
  BY <1>2, <1>4, SoundWithout DEF Sound
<1>6. CASE p.owner.event = id
  <2>1. GoodMail(Without(evs, id)) /\ <<n, s>> \in Epochs
    BY <1>1, WithoutType, EpochTypes
  <2>2. Settled(q, p, s, Without(evs, id))
    BY <1>1, <1>2, <1>5, <2>1, SoundRestored
  <2> HIDE DEF q
  <2>3. Follows(q, r, s, Without(evs, id))
    BY <1>2, <2>2, SettledFollows
  <2>4. ~IsInteractive(r.owner)
    BY <1>1, <1>2, <1>6, RankBands DEF Sound, Backed, IsInteractive
  <2> QED BY <1>3, <1>6, <2>3, <2>4 DEF Spares, r
<1>7. CASE p.owner.event # id
  <2>1. Follows(p, r, s, Without(evs, id)) /\ Spares(p, r)
    BY <1>2, <1>5, <1>7 DEF Follows, FreshTurn, Spares
  <2> QED BY <1>3, <1>7, <2>1 DEF r
<1> QED BY <1>6, <1>7

LEMMA AfterProjectionFollows ==
    ASSUME NEW srf, GoodSurfaces(srf), NEW evs, GoodMail(evs), AllSound(srf, evs),
           NEW id \in DOMAIN evs, evs[id].fresh > 0, NEW n \in Nat, NEW s \in DOMAIN srf
    PROVE  /\ Follows(AfterProjection(srf, id, evs[id], n)[s], srf[s], s, evs)
           /\ Spares(AfterProjection(srf, id, evs[id], n)[s], srf[s])
<1> DEFINE r == srf[s]
           q == EnterEvent(CaptureCurrent(r), id, evs[id], <<n, s>>)
           next == AfterProjection(srf, id, evs[id], n)
<1>1. GoodRecord(r) /\ s \in Surfaces /\ Sound(r, s, evs) /\ <<n, s>> \in Epochs
  BY GoodAt, EpochTypes DEF AllSound
<1>2. CASE s \in evs[id].targets /\ r.owner.event # id /\ RankFor(EventKind(evs[id])) > Rank(r)
  <2>1. next[s] = q
    BY <1>2 DEF AfterProjection
  <2>2. Rank(r) < EventRank(evs, id)
    <3>1. RankFor(EventKind(evs[id])) = EventRank(evs, id)
      BY DEF EventRank
    <3> HIDE DEF r
    <3> QED BY <1>1, <1>2, <3>1, RecordRanks, EventRankType
  <2>3. EventRank(evs, id) \in 1..5
    BY EventRankType
  <2> HIDE DEF r
  <2>4. Sound(q, s, evs) /\ q.owner.event = id /\ q.focusRequest = r.focusRequest
    BY <1>1, <1>2, <2>2, SoundEvent
  <2>5. ~IsInteractive(r.owner)
    <3>1. Rank(r) \in Nat /\ Rank(r) < 7
      BY <1>1, <2>2, <2>3, RecordRanks
    <3> QED BY <3>1, RankBands DEF Rank, IsInteractive
  <2> HIDE DEF q, next
  <2>6. Follows(next[s], r, s, evs) /\ Spares(next[s], r)
    BY <2>1, <2>4, <2>5 DEF Follows, FreshTurn, Spares
  <2> QED BY <2>6 DEF next, r
<1>3. CASE ~(s \in evs[id].targets /\ r.owner.event # id /\ RankFor(EventKind(evs[id])) > Rank(r))
  <2>1. next[s] = r
    BY <1>3 DEF AfterProjection
  <2> HIDE DEF r, next
  <2>2. Follows(next[s], r, s, evs) /\ Spares(next[s], r)
    BY <1>1, <2>1 DEF Follows, FreshTurn, Spares
  <2> QED BY <2>2 DEF next, r
<1> QED BY <1>2, <1>3

LEMMA RenewedFollows ==
    ASSUME NEW srf, GoodSurfaces(srf), NEW evs, AllSound(srf, evs), NEW id, id # NoEvent,
           NEW n \in Nat, NEW s \in DOMAIN srf
    PROVE  /\ Follows(Renewed(srf, id, n)[s], srf[s], s, evs)
           /\ Spares(Renewed(srf, id, n)[s], srf[s])
<1> DEFINE r == srf[s]
           q == [r EXCEPT !.owner.revision = @ + 1, !.owner.sourceRevision = n,
                          !.owner.visible = FALSE]
<1>1. r \in Records /\ r.owner \in Owners /\ Sound(r, s, evs)
  BY GoodAt DEF GoodRecord, Records, AllSound
<1>2. Renewed(srf, id, n)[s] = IF r.owner.event = id THEN q ELSE r
  BY DEF Renewed
<1> HIDE DEF r
<1>3. /\ q.owner.kind = r.owner.kind /\ q.owner.event = r.owner.event
      /\ q.owner.epoch = r.owner.epoch
      /\ q.owner.focusPending = r.owner.focusPending
      /\ q.owner.focusTarget = r.owner.focusTarget
  BY <1>1 DEF Records, Owners
<1>4. /\ q.restoration = r.restoration
      /\ q.hover = r.hover /\ q.explicit = r.explicit /\ q.focusRequest = r.focusRequest
  BY <1>1 DEF Records
<1> HIDE DEF q
<1>5. r.owner.focusPending => r.owner.focusTarget
  BY <1>1 DEF Sound, Focused
<1>6. Follows(q, r, s, evs) /\ Spares(q, r)
  BY <1>1, <1>3, <1>4, <1>5, FollowsSame DEF Spares
<1>7. Follows(r, r, s, evs) /\ Spares(r, r)
  BY <1>1, <1>5, FollowsSame DEF Spares
<1> QED BY <1>2, <1>6, <1>7 DEF r

(* A step may also ask for the keyboard. *)
Asks(q, r) == q.focusRequest # r.focusRequest => q.owner.visible /\ q.owner.focusTarget

GoesOn(q, r, s, evs) == Sound(q, s, evs) /\ FreshTurn(q, r, evs) /\ Asks(q, r)

LEMMA FollowsGoesOn ==
    ASSUME NEW q, NEW r, NEW s, NEW evs, Follows(q, r, s, evs)
    PROVE  GoesOn(q, r, s, evs)
BY DEF Follows, GoesOn, Asks

LEMMA AskFocusGoesOn ==
    ASSUME NEW r, GoodRecord(r), NEW s, NEW evs, Sound(r, s, evs), r.owner.focusTarget
    PROVE  GoesOn(AskFocus(r), r, s, evs)
<1> DEFINE q == AskFocus(r)
<1>1. r \in Records /\ r.owner \in Owners
  BY DEF GoodRecord, Records
<1>2. /\ q.owner.kind = r.owner.kind /\ q.owner.event = r.owner.event
      /\ q.restoration = r.restoration
      /\ q.hover = r.hover /\ q.explicit = r.explicit
      /\ q.owner.focusTarget = r.owner.focusTarget
  BY <1>1 DEF AskFocus, Records, Owners
<1>3. q.focusRequest # r.focusRequest => q.owner.visible
  BY <1>1 DEF AskFocus, Records, Owners
<1> HIDE DEF q
<1>4. Focused(q)
  BY <1>2 DEF Focused
<1>5. Sound(q, s, evs)
  BY <1>2, <1>4, SoundSame
<1> QED BY <1>2, <1>3, <1>5 DEF GoesOn, FreshTurn, Asks, q

LEMMA AcknowledgedGoesOn ==
    ASSUME NEW r, GoodRecord(r), NEW s, NEW evs, Sound(r, s, evs)
    PROVE  /\ GoesOn(Acknowledged(r), r, s, evs)
           /\ Spares(Acknowledged(r), r)
<1> DEFINE q == Acknowledged(r)
<1>1. r \in Records /\ r.owner \in Owners
  BY DEF GoodRecord, Records
<1>2. /\ q.owner.kind = r.owner.kind /\ q.owner.event = r.owner.event
      /\ q.owner.epoch = r.owner.epoch
      /\ q.restoration = r.restoration
      /\ q.hover = r.hover /\ q.explicit = r.explicit
      /\ q.owner.focusTarget = r.owner.focusTarget
  BY <1>1 DEF Acknowledged, Records, Owners
<1>3. /\ q.owner.visible = TRUE
      /\ q.focusRequest # r.focusRequest => r.owner.focusPending
      /\ ~q.owner.focusPending
  BY <1>1 DEF Acknowledged, Records, Owners
<1> HIDE DEF q
<1>4. Focused(q)
  BY <1>2, <1>3 DEF Sound, Focused
<1>5. Sound(q, s, evs)
  BY <1>2, <1>4, SoundSame
<1>6. Asks(q, r)
  BY <1>2, <1>3 DEF Asks, Sound, Focused
<1> QED BY <1>2, <1>5, <1>6 DEF GoesOn, FreshTurn, Spares, q

LEMMA EndedTaskFollows ==
    ASSUME NEW r, GoodRecord(r), NEW s \in Surfaces, NEW epoch, NEW newEpoch \in Epochs,
           GoodMail(transients), Sound(r, s, transients)
    PROVE  Follows(EndedTask(r, s, epoch, newEpoch), r, s, transients)
<1> DEFINE q == RestoreNext(r, s, transients, newEpoch)
           p == [r EXCEPT !.restoration = {f \in @ : ~IsTask(f.owner, epoch)}]
<1>1. EndedTask(r, s, epoch, newEpoch) = IF IsTask(r.owner, epoch) THEN q ELSE p
  BY DEF EndedTask
<1>2. Follows(q, r, s, transients)
  <2>1. Settled(q, r, s, transients)
    BY SoundRestored DEF Sound
  <2> HIDE DEF q
  <2> QED BY <2>1, SettledFollows
<1>3. Follows(p, r, s, transients)
  <2>1. /\ p.owner = r.owner /\ p.restoration \subseteq r.restoration
        /\ p.hover = r.hover /\ p.explicit = r.explicit /\ p.focusRequest = r.focusRequest
    BY DEF GoodRecord, Records
  <2> HIDE DEF p
  <2>2. r.owner.focusPending => r.owner.focusTarget
    BY DEF Sound, Focused
  <2> QED BY <2>1, <2>2, FollowsSame
<1> QED BY <1>1, <1>2, <1>3

LEMMA WithIntentKeeps ==
    ASSUME NEW old, GoodRecord(old), NEW value \in BOOLEAN, NEW explicit \in BOOLEAN
    PROVE  /\ GoodRecord(WithIntent(old, value, explicit))
           /\ WithIntent(old, value, explicit).owner = old.owner
           /\ WithIntent(old, value, explicit).restoration = old.restoration
           /\ WithIntent(old, value, explicit).focusRequest = old.focusRequest
BY DEF WithIntent, GoodRecord, Records

(* The dashboard opens over content it outranks. *)
LEMMA ShownFollows ==
    ASSUME NEW old, GoodRecord(old), NEW r, GoodRecord(r), NEW s, NEW evs, Sound(old, s, evs),
           r.owner = old.owner, r.restoration = old.restoration,
           r.focusRequest = old.focusRequest, r.hover \/ r.explicit,
           Rank(r) < RankFor("expanded"), NEW epoch \in Epochs
    PROVE  Follows([EnterOwner(CaptureCurrent(r), "expanded", epoch, 1) EXCEPT
                       !.owner.focusPending = r.explicit, !.owner.focusTarget = r.explicit],
                   old, s, evs)
<1> DEFINE c == CaptureCurrent(r)
           opened == EnterOwner(c, "expanded", epoch, 1)
           q == [opened EXCEPT !.owner.focusPending = r.explicit,
                               !.owner.focusTarget = r.explicit]
<1>1. /\ GoodRecord(c)
      /\ c.hover = r.hover /\ c.explicit = r.explicit /\ c.focusRequest = r.focusRequest
  BY CaptureCurrentType, CaptureKeeps
<1> HIDE DEF c
<1>2. GoodRecord(opened)
  BY <1>1, EnterOwnerType, RankBands
<1>3. /\ opened.owner.kind = "expanded" /\ opened.owner.event = NoEvent
      /\ opened.restoration = c.restoration
  BY <1>1, EnteredKind
<1>4. opened.hover = r.hover /\ opened.explicit = r.explicit
      /\ opened.focusRequest = r.focusRequest
  BY <1>1 DEF EnterOwner, GoodRecord, Records
<1> HIDE DEF opened
<1>5. r.explicit \in BOOLEAN
  BY DEF GoodRecord, Records
<1>6. /\ q.owner.kind = opened.owner.kind /\ q.owner.event = opened.owner.event
      /\ q.owner.focusPending = r.explicit /\ q.owner.focusTarget = r.explicit
      /\ q.restoration = opened.restoration
      /\ q.hover = opened.hover /\ q.explicit = opened.explicit
      /\ q.focusRequest = opened.focusRequest
      /\ GoodRecord(q)
  BY <1>2, <1>5 DEF GoodRecord, Records, Owners
<1> HIDE DEF q
<1>7. "expanded" \notin TransientKinds /\ "expanded" \notin Reserved
  BY RankBands DEF Reserved
<1>8. Focused(q) /\ Backed(q.owner, s, evs) /\ Rank(q) = RankFor("expanded")
  BY <1>3, <1>6, <1>7 DEF Focused, Backed, Rank
<1>9. Sound(q, s, evs)
  <2>1. WellStacked(r, s, evs) /\ OnTop(r) /\ Backed(r.owner, s, evs)
    BY DEF Sound, WellStacked, OnTop, Rank
  <2>2. q.restoration = CaptureCurrent(r).restoration
    BY <1>3, <1>6 DEF c
  <2>3. Honored(q)
    BY <1>3, <1>4, <1>6, <1>8, RankBands DEF Honored, c
  <2> QED BY <1>6, <1>8, <2>1, <2>2, <2>3, SoundOver
<1>10. FreshTurn(q, old, evs)
  BY <1>3, <1>6 DEF FreshTurn
<1> QED BY <1>4, <1>6, <1>9, <1>10 DEF Follows, q, opened, c


LEMMA AfterIntentGoesOn ==
    ASSUME NEW old, GoodRecord(old), NEW s \in Surfaces, NEW value \in BOOLEAN,
           NEW explicit \in BOOLEAN, NEW epoch \in Epochs, GoodMail(transients),
           Sound(old, s, transients)
    PROVE  GoesOn(AfterIntent(old, s, value, explicit, epoch), old, s, transients)
<1> DEFINE r == WithIntent(old, value, explicit)
           was == old.hover \/ old.explicit
           now == r.hover \/ r.explicit
           shown == [EnterOwner(CaptureCurrent(r), "expanded", epoch, 1) EXCEPT
                        !.owner.focusPending = r.explicit, !.owner.focusTarget = r.explicit]
           restored == RestoreNext(r, s, transients, epoch)
           ready == [r EXCEPT !.owner.focusTarget = TRUE]
           closed == [r EXCEPT !.owner.focusPending = FALSE, !.owner.focusTarget = FALSE]
           next == AfterIntent(old, s, value, explicit, epoch)
<1>1. /\ GoodRecord(r)
      /\ r.owner = old.owner /\ r.restoration = old.restoration
      /\ r.focusRequest = old.focusRequest
  BY WithIntentKeeps
<1>2. /\ explicit => r.explicit = value /\ r.hover = old.hover
      /\ ~explicit => r.hover = value /\ r.explicit = old.explicit
  BY DEF WithIntent, GoodRecord, Records
<1>3. \/ ~was /\ now /\ Rank(r) < RankFor("expanded") /\ next = shown
      \/ was /\ ~now /\ r.owner.kind = "expanded" /\ next = restored
      \/ explicit /\ value /\ r.owner.kind = "expanded" /\ next = AskFocus(ready)
      \/ /\ ~(~was /\ now /\ Rank(r) < RankFor("expanded"))
         /\ ~(was /\ ~now /\ r.owner.kind = "expanded")
         /\ next = closed /\ r.owner.kind = "expanded"
      \/ /\ ~(~was /\ now /\ Rank(r) < RankFor("expanded"))
         /\ ~(was /\ ~now /\ r.owner.kind = "expanded")
         /\ next = r
  BY DEF AfterIntent
<1>4. Rank(r) \in Nat /\ Rank(r) = Rank(old)
  BY <1>1, RecordRanks DEF Rank
<1>5. WellStacked(r, s, transients) /\ OnTop(r) /\ Backed(r.owner, s, transients) /\ Focused(r)
  BY <1>1, <1>4 DEF Sound, WellStacked, OnTop, Focused
<1> HIDE DEF r, next
<1>6. CASE ~was /\ now /\ Rank(r) < RankFor("expanded") /\ next = shown
  <2>1. Follows(shown, old, s, transients)
    BY <1>1, <1>6, ShownFollows
  <2> HIDE DEF shown
  <2> QED BY <1>6, <2>1, FollowsGoesOn DEF next
<1>7. CASE was /\ ~now /\ r.owner.kind = "expanded" /\ next = restored
  <2>1. Settled(restored, r, s, transients)
    BY <1>1, <1>5, SoundRestored
  <2> HIDE DEF restored
  <2>2. Follows(next, old, s, transients)
    BY <1>1, <1>7, <2>1, SettledFollows
  <2> QED BY <2>2, FollowsGoesOn DEF next
<1>8. CASE explicit /\ value /\ r.owner.kind = "expanded" /\ next = AskFocus(ready)
  <2>1. /\ GoodRecord(ready)
        /\ ready.owner.kind = r.owner.kind /\ ready.owner.event = r.owner.event
        /\ ready.owner.focusTarget
        /\ ready.restoration = r.restoration
        /\ ready.hover = r.hover /\ ready.explicit = r.explicit
        /\ ready.focusRequest = r.focusRequest
    BY <1>1 DEF GoodRecord, Records, Owners
  <2> HIDE DEF ready
  <2>2. Sound(ready, s, transients)
    <3>1. Focused(ready)
      BY <2>1 DEF Focused
    <3>2. Honored(ready)
      <4>1. ready.explicit = TRUE
        BY <1>2, <1>8, <2>1
      <4>2. Rank(ready) = 6
        BY <1>8, <2>1, RankBands DEF Rank
      <4> QED BY <4>1, <4>2, RankBands DEF Honored
    <3>3. WellStacked(ready, s, transients) /\ OnTop(ready) /\ Backed(ready.owner, s, transients)
      BY <1>5, <2>1 DEF WellStacked, OnTop, Backed, Rank
    <3> QED BY <3>1, <3>2, <3>3 DEF Sound
  <2>3. GoesOn(AskFocus(ready), ready, s, transients)
    BY <2>1, <2>2, AskFocusGoesOn
  <2>4. GoesOn(next, old, s, transients)
    BY <1>1, <1>8, <2>1, <2>3 DEF GoesOn, FreshTurn, Asks
  <2> QED BY <2>4 DEF next
<1>9. CASE /\ ~(~was /\ now /\ Rank(r) < RankFor("expanded"))
           /\ ~(was /\ ~now /\ r.owner.kind = "expanded")
           /\ ((next = closed /\ r.owner.kind = "expanded") \/ next = r)
  <2>1. Honored(r)
    <3>1. now => Rank(r) >= RankFor("expanded")
      BY <1>4, <1>9, RankBands DEF Sound, Honored
    <3>2. r.owner.kind = "expanded" => now
      BY <1>1, <1>9 DEF Sound, Honored
    <3> QED BY <3>1, <3>2 DEF Honored
  <2>2. Sound(r, s, transients)
    BY <1>5, <2>1 DEF Sound
  <2>3. Follows(r, old, s, transients)
    BY <1>1, <2>2 DEF Follows, FreshTurn
  <2>4. CASE next = r
    BY <2>3, <2>4, FollowsGoesOn DEF next
  <2>5. CASE next = closed /\ r.owner.kind = "expanded"
    <3>1. /\ closed.owner.kind = r.owner.kind /\ closed.owner.event = r.owner.event
          /\ ~closed.owner.focusPending
          /\ closed.restoration = r.restoration
          /\ closed.hover = r.hover /\ closed.explicit = r.explicit
          /\ closed.focusRequest = r.focusRequest
      BY <1>1 DEF GoodRecord, Records, Owners
    <3> HIDE DEF closed
    <3>2. Focused(closed)
      BY <2>5, <3>1, RankBands DEF Focused, Reserved
    <3>3. Sound(closed, s, transients)
      BY <2>2, <3>1, <3>2, SoundSame
    <3>4. Follows(closed, old, s, transients)
      BY <1>1, <3>1, <3>3 DEF Follows, FreshTurn
    <3> QED BY <2>5, <3>4, FollowsGoesOn DEF next
  <2> QED BY <1>9, <2>4, <2>5
<1> QED BY <1>3, <1>6, <1>7, <1>8, <1>9

LEMMA ForceIdleFollows ==
    ASSUME NEW r, GoodRecord(r), NEW s, NEW evs
    PROVE  Follows(ForceIdle(r), r, s, evs)
BY SoundIdle DEF Follows, FreshTurn

(* What is on show may be a task, but not the modal, when the modal takes   *)
(* the surface over.                                                        *)
LEMMA RehomedFollows ==
    ASSUME NEW srf, GoodSurfaces(srf), NEW evs, AllSound(srf, evs), NEW target \in DOMAIN srf,
           NEW capture \in BOOLEAN, nextOwnerEpoch \in Nat,
           capture => srf[target].owner.kind # "polkitModal", NEW s \in DOMAIN srf
    PROVE  Follows(Rehomed(srf, target, capture)[s], srf[s], s, evs)
<1> DEFINE r == srf[s]
           next == Rehomed(srf, target, capture)[s]
           over == EnterOwner(CaptureCurrent(r), "polkitModal", <<nextOwnerEpoch + 1, s>>, 1)
           alone == EnterOwner(ForceIdle(r), "polkitModal", <<nextOwnerEpoch + 1, s>>, 1)
<1>1. GoodRecord(r) /\ Sound(r, s, evs) /\ <<nextOwnerEpoch + 1, s>> \in Epochs
  BY GoodAt, EpochTypes DEF AllSound
<1>2. \/ s = target /\ capture /\ next = over
      \/ next = alone
      \/ next = ForceIdle(r)
      \/ next = r
  BY DEF Rehomed
<1>3. s = target /\ capture => Rank(r) < RankFor("polkitModal")
  <2>1. s = target /\ capture => r.owner.kind # "polkitModal"
    OBVIOUS
  <2> HIDE DEF r
  <2>2. r.owner.kind \in Kinds
    BY <1>1, RecordRanks
  <2>3. r.owner.kind # "polkitModal" => RankFor(r.owner.kind) \in 0..8
    BY <2>2, RankBands DEF Kinds, BaselineKinds
  <2> QED BY <2>1, <2>3, RankBands DEF Rank
<1> HIDE DEF r, next
<1>4. CASE s = target /\ capture /\ next = over
  <2>1. /\ Sound(over, s, evs)
        /\ over.owner.event = NoEvent /\ over.focusRequest = r.focusRequest
    <3>1. "polkitModal" \in Reserved /\ 1 \in Nat
      BY DEF Reserved
    <3> QED BY <1>1, <1>3, <1>4, <3>1, SoundTakeover
  <2> HIDE DEF over
  <2> QED BY <1>4, <2>1 DEF Follows, FreshTurn, next, r
<1>5. CASE next = alone
  <2>1. /\ Sound(alone, s, evs)
        /\ alone.owner.event = NoEvent /\ alone.focusRequest = r.focusRequest
    BY <1>1, SoundCleared
  <2> HIDE DEF alone
  <2> QED BY <1>5, <2>1 DEF Follows, FreshTurn, next, r
<1>6. CASE next = ForceIdle(r)
  BY <1>1, <1>6, ForceIdleFollows DEF next, r
<1>7. CASE next = r
  BY <1>1, <1>7 DEF Follows, FreshTurn, next, r
<1> QED BY <1>2, <1>4, <1>5, <1>6, <1>7


-----------------------------------------------------------------------------
(* All surfaces in a step: each goes on, and if the mailbox changed while   *)
(* no surface came or went, each keeps its task.                            *)
Onward ==
    /\ DOMAIN surfaces' \subseteq Surfaces
    /\ AllSound(surfaces', transients')
    /\ \A s \in attached \cap DOMAIN surfaces' :
          GoesOn(surfaces'[s], surfaces[s], s, transients')

Spared ==
    transients' # transients /\ DOMAIN surfaces' = DOMAIN surfaces =>
        \A s \in attached : Spares(surfaces'[s], surfaces[s])

Orderly == Onward /\ Spared

LEMMA OnwardPointwise ==
    ASSUME TypeOK, DOMAIN surfaces' = DOMAIN surfaces,
           \A s \in attached : GoesOn(surfaces'[s], surfaces[s], s, transients')
    PROVE  Onward
BY DEF Onward, AllSound, GoesOn, attached, TypeOK

(* The mailbox keeps what the surfaces show of it. *)
LEMMA QuietOrderly ==
    ASSUME TypeOK, StackInv, surfaces' = surfaces,
           \A i \in DOMAIN transients :
               /\ i \in DOMAIN transients'
               /\ transients'[i].targets = transients[i].targets
               /\ transients'[i].source = transients[i].source
    PROVE  Orderly
<1>1. ASSUME NEW s \in attached
      PROVE  GoesOn(surfaces'[s], surfaces[s], s, transients')
  <2>1. Sound(surfaces[s], s, transients)
    BY DEF StackInv, AllSound, attached
  <2>2. Sound(surfaces[s], s, transients')
    BY <2>1, SoundMail
  <2> QED BY <2>2 DEF GoesOn, FreshTurn, Asks
<1> QED BY <1>1, OnwardPointwise DEF Orderly, Spared, Spares

LEMMA StillOrderly ==
    ASSUME TypeOK, StackInv, UNCHANGED <<surfaces, transients>>
    PROVE  Orderly
BY QuietOrderly

(* One surface changes, and the mailbox does not. *)
LEMMA OneOrderly ==
    ASSUME TypeOK, StackInv, NEW s \in attached, NEW q,
           surfaces' = [surfaces EXCEPT ![s] = q], transients' = transients,
           GoesOn(q, surfaces[s], s, transients)
    PROVE  Orderly
<1>1. DOMAIN surfaces' = DOMAIN surfaces /\ surfaces'[s] = q
      /\ \A t \in attached : t # s => surfaces'[t] = surfaces[t]
  BY DEF attached
<1>2. ASSUME NEW t \in attached, t # s
      PROVE  GoesOn(surfaces'[t], surfaces[t], t, transients')
  <2>1. Sound(surfaces[t], t, transients)
    BY DEF StackInv, AllSound, attached
  <2> QED BY <1>1, <1>2, <2>1 DEF GoesOn, FreshTurn, Asks
<1> QED BY <1>1, <1>2, OnwardPointwise DEF Orderly, Spared

(* A step that touches all surfaces, and the mailbox not. *)
LEMMA ManyOrderly ==
    ASSUME TypeOK, DOMAIN surfaces' = DOMAIN surfaces, transients' = transients,
           \A s \in attached : Follows(surfaces'[s], surfaces[s], s, transients)
    PROVE  Orderly
<1>1. \A s \in attached : GoesOn(surfaces'[s], surfaces[s], s, transients')
  BY FollowsGoesOn
<1> QED BY <1>1, OnwardPointwise DEF Orderly, Spared

LEMMA RefuseOrderly ==
    ASSUME TypeOK, StackInv, NEW rearm, Refuse(rearm)
    PROVE  Orderly
BY StillOrderly DEF Refuse

LEMMA RemoveDoomedOrderly ==
    ASSUME TypeOK, StackInv, RemoveDoomed
    PROVE  Orderly
<1>1. GoodSurfaces(surfaces) /\ Mailbox /\ Numbers /\ Handling
  BY TypeParts
<1>2. PICK id \in doomed :
        /\ surfaces' = AfterRemoval(surfaces, transients, id, nextOwnerEpoch + 1)
        /\ transients' = Without(transients, id)
  BY DEF RemoveDoomed
<1>3. id # NoEvent
  BY <1>1 DEF Handling, Mailbox, GoodMail, NoEvent
<1>4. DOMAIN surfaces' = DOMAIN surfaces
  BY <1>2 DEF AfterRemoval
<1>5. ASSUME NEW s \in attached
      PROVE  /\ Follows(surfaces'[s], surfaces[s], s, transients')
             /\ Spares(surfaces'[s], surfaces[s])
  BY <1>1, <1>2, <1>3, AfterRemovalFollows DEF Mailbox, Numbers, StackInv, attached
<1> QED BY <1>4, <1>5, OnwardPointwise, FollowsGoesOn DEF Orderly, Spared

LEMMA InvalidateTransientOrderly ==
    ASSUME TypeOK, StackInv, NEW source, InvalidateTransient(source)
    PROVE  Orderly
<1>1. GoodSurfaces(surfaces) /\ Mailbox /\ Numbers
  BY TypeParts
<1>2. CASE PendingOf(source) = {}
  BY <1>2, RefuseOrderly DEF InvalidateTransient
<1>3. CASE PendingOf(source) # {}
  <2>1. PICK id \in PendingOf(source) :
          /\ surfaces' = AfterRemoval(surfaces, transients, id, nextOwnerEpoch + 1)
          /\ transients' = Without(transients, id)
    BY <1>3 DEF InvalidateTransient
  <2>2. id # NoEvent
    BY <1>1 DEF PendingOf, Mailbox, GoodMail, NoEvent
  <2>3. DOMAIN surfaces' = DOMAIN surfaces
    BY <2>1 DEF AfterRemoval
  <2>4. ASSUME NEW s \in attached
        PROVE  /\ Follows(surfaces'[s], surfaces[s], s, transients')
               /\ Spares(surfaces'[s], surfaces[s])
    BY <1>1, <2>1, <2>2, AfterRemovalFollows DEF Mailbox, Numbers, StackInv, attached
  <2> QED BY <2>3, <2>4, OnwardPointwise, FollowsGoesOn DEF Orderly, Spared
<1> QED BY <1>2, <1>3

LEMMA AcknowledgeOrderly ==
    ASSUME TypeOK, StackInv, NEW call, AcknowledgeVisible(call)
    PROVE  Orderly
<1>1. GoodSurfaces(surfaces)
  BY TypeParts
<1>2. CASE ~IsCurrent(call)
  BY <1>2, RefuseOrderly DEF AcknowledgeVisible
<1>3. CASE IsCurrent(call)
  <2> DEFINE s == call.surface
             q == Acknowledged(surfaces[s])
             id == surfaces[s].owner.event
             seen == SeenBy(transients[id], id, s, surfaces)
  <2>1. /\ s \in attached
        /\ surfaces' = [surfaces EXCEPT ![s] = q]
        /\ transients' = IF id \in DOMAIN transients THEN [transients EXCEPT ![id] = seen]
                         ELSE transients
    BY <1>3 DEF AcknowledgeVisible, IsCurrent
  <2>2. GoodRecord(surfaces[s]) /\ Sound(surfaces[s], s, transients)
    BY <1>1, <2>1, GoodAt DEF attached, StackInv, AllSound
  <2>3. /\ GoesOn(q, surfaces[s], s, transients)
        /\ Spares(q, surfaces[s])
        /\ q.owner.event = surfaces[s].owner.event
    <3>1. q.owner.event = surfaces[s].owner.event
      BY <2>2 DEF Acknowledged, GoodRecord, Records, Owners
    <3> QED BY <2>2, <3>1, AcknowledgedGoesOn
  <2>4. \A i \in DOMAIN transients :
           /\ i \in DOMAIN transients'
           /\ transients'[i].targets = transients[i].targets
           /\ transients'[i].source = transients[i].source
    <3>1. id \in DOMAIN transients => seen.source = transients[id].source
                                     /\ seen.targets = transients[id].targets
      <4>1. id \in DOMAIN transients => transients[id] \in Events
        BY DEF TypeOK
      <4> QED BY <4>1 DEF SeenBy, Events
    <3> HIDE DEF id, seen
    <3> QED BY <2>1, <3>1
  <2> HIDE DEF q, s
  <2>5. DOMAIN surfaces' = DOMAIN surfaces /\ surfaces'[s] = q
        /\ \A t \in attached : t # s => surfaces'[t] = surfaces[t]
    BY <2>1 DEF attached
  <2>6. ASSUME NEW t \in attached, t # s
        PROVE  GoesOn(surfaces'[t], surfaces[t], t, transients') /\ Spares(surfaces'[t], surfaces[t])
    <3>1. Sound(surfaces[t], t, transients)
      BY DEF StackInv, AllSound, attached
    <3>2. Sound(surfaces[t], t, transients')
      BY <2>4, <3>1, SoundMail
    <3> QED BY <2>5, <2>6, <3>2 DEF GoesOn, FreshTurn, Asks, Spares
  <2>7. GoesOn(q, surfaces[s], s, transients')
    <3>1. Sound(q, s, transients')
      BY <2>3, <2>4, SoundMail DEF GoesOn
    <3> QED BY <2>3, <3>1 DEF GoesOn, FreshTurn
  <2>8. \A t \in attached : GoesOn(surfaces'[t], surfaces[t], t, transients')
                            /\ Spares(surfaces'[t], surfaces[t])
    BY <2>3, <2>5, <2>6, <2>7
  <2> QED BY <2>5, <2>8, OnwardPointwise DEF Orderly, Spared
<1> QED BY <1>2, <1>3

LEMMA SetBaselineIntentOrderly ==
    ASSUME TypeOK, StackInv, NEW call \in Jobs, SetBaselineIntent(call)
    PROVE  Orderly
<1>1. GoodSurfaces(surfaces) /\ Mailbox /\ Numbers
  BY TypeParts
<1>2. CASE call.surface \notin attached
  BY <1>2, RefuseOrderly DEF SetBaselineIntent
<1>3. CASE call.surface \in attached
  <2> DEFINE s == call.surface
             epoch == <<nextOwnerEpoch + 1, s>>
             next == AfterIntent(surfaces[s], s, call.value, call.explicit, epoch)
  <2>1. s \in attached /\ surfaces' = [surfaces EXCEPT ![s] = next] /\ transients' = transients
    BY <1>3 DEF SetBaselineIntent
  <2>2. GoodRecord(surfaces[s]) /\ s \in Surfaces /\ Sound(surfaces[s], s, transients)
    BY <1>1, <2>1, GoodAt DEF attached, StackInv, AllSound
  <2>3. call.value \in BOOLEAN /\ call.explicit \in BOOLEAN
    BY KnownJobs DEF SetBaselineIntent
  <2>4. epoch \in Epochs
    BY <1>1, <2>2, EpochTypes DEF Numbers
  <2> HIDE DEF epoch, s
  <2>5. GoesOn(next, surfaces[s], s, transients)
    BY <1>1, <2>2, <2>3, <2>4, AfterIntentGoesOn DEF Mailbox
  <2> HIDE DEF next
  <2> QED BY <2>1, <2>5, OneOrderly
<1> QED BY <1>2, <1>3

LEMMA FinishInteractiveOrderly ==
    ASSUME TypeOK, StackInv, NEW call \in Jobs, FinishInteractive(call)
    PROVE  Orderly
<1>1. GoodSurfaces(surfaces) /\ Mailbox /\ Numbers
  BY TypeParts
<1>2. CASE ~\E s \in attached : HoldsTask(surfaces[s], call.epoch)
  BY <1>2, RefuseOrderly DEF FinishInteractive
<1>3. CASE \E s \in attached : HoldsTask(surfaces[s], call.epoch)
  <2>1. PICK s \in attached :
          surfaces' = [surfaces EXCEPT ![s] =
              EndedTask(surfaces[s], s, call.epoch, <<nextOwnerEpoch + 1, s>>)]
    BY <1>3 DEF FinishInteractive
  <2> DEFINE next == EndedTask(surfaces[s], s, call.epoch, <<nextOwnerEpoch + 1, s>>)
  <2>2. transients' = transients
    BY <1>3 DEF FinishInteractive
  <2>3. GoodRecord(surfaces[s]) /\ s \in Surfaces /\ Sound(surfaces[s], s, transients)
    BY <1>1, GoodAt DEF attached, StackInv, AllSound
  <2>4. Follows(next, surfaces[s], s, transients)
    BY <1>1, <2>3, EndedTaskFollows, EpochTypes DEF Mailbox, Numbers
  <2>5. surfaces' = [surfaces EXCEPT ![s] = next]
    BY <2>1
  <2> HIDE DEF next
  <2> QED BY <2>2, <2>4, <2>5, OneOrderly, FollowsGoesOn
<1> QED BY <1>2, <1>3


-----------------------------------------------------------------------------
(* A request. *)

(* The projections of a renewed event stay, and it may take others.         *)
LEMMA RenewTransientOrderly ==
    ASSUME TypeOK, StackInv, NEW source \in Sources, NEW n \in Nat, RenewTransient(source, n)
    PROVE  Orderly
<1>1. GoodSurfaces(surfaces) /\ Mailbox /\ Numbers
  BY TypeParts
<1> DEFINE Fresh(id, duration) ==
             [transients[id] EXCEPT !.revision = n, !.visible = {},
                                    !.fresh = FreshFor[KindOf[source]],
                                    !.hold = NotHolding, !.holdDuration = duration]
<1>2. PICK id \in PendingOf(source), duration \in HoldsFor[KindOf[source]] :
        /\ transients' = [transients EXCEPT ![id] = Fresh(id, duration)]
        /\ surfaces' = AfterProjection(Renewed(surfaces, id, n), id, Fresh(id, duration),
                                       nextOwnerEpoch + 1)
  BY DEF RenewTransient
<1>3. /\ id \in DOMAIN transients /\ transients[id] \in Events /\ id \in Nat /\ id # NoEvent
      /\ transients[id].source = source
  BY <1>1 DEF PendingOf, Mailbox, GoodMail, NoEvent
<1> DEFINE e == Fresh(id, duration)
           renewed == Renewed(surfaces, id, n)
<1>4. /\ e \in Events /\ e.fresh > 0
      /\ e.source = transients[id].source /\ e.targets = transients[id].targets
  <2>1. /\ FreshFor[KindOf[source]] \in Nat /\ FreshFor[KindOf[source]] > 0
        /\ duration \in Nat
    BY KindsAssumption, TimesAssumption
  <2>2. /\ e.fresh = FreshFor[KindOf[source]]
        /\ e.source = transients[id].source /\ e.targets = transients[id].targets
    BY <1>3 DEF Events
  <2>3. e \in Events
    BY <1>3, <2>1 DEF Events
  <2> QED BY <2>1, <2>2, <2>3
<1>5. transients' = [transients EXCEPT ![id] = e]
  BY <1>2
<1>6. surfaces' = AfterProjection(renewed, id, e, nextOwnerEpoch + 1)
  BY <1>2
<1>7. GoodSurfaces(renewed) /\ DOMAIN renewed = DOMAIN surfaces
  BY <1>1, RenewedType
<1>8. \A s \in DOMAIN surfaces : /\ Follows(renewed[s], surfaces[s], s, transients)
                                 /\ Spares(renewed[s], surfaces[s])
  BY <1>1, <1>3, RenewedFollows DEF StackInv
<1>9. \A s \in DOMAIN surfaces : renewed[s].owner.event = surfaces[s].owner.event
  <2> SUFFICES ASSUME NEW s \in DOMAIN surfaces
               PROVE  renewed[s].owner.event = surfaces[s].owner.event
    OBVIOUS
  <2>1. surfaces[s] \in Records /\ surfaces[s].owner \in Owners
    BY <1>1, GoodAt DEF GoodRecord, Records
  <2> QED BY <2>1 DEF Renewed, Records, Owners
<1> HIDE DEF renewed, e, Fresh
<1>10. /\ GoodMail(transients') /\ id \in DOMAIN transients' /\ transients'[id] = e
       /\ \A i \in DOMAIN transients :
             /\ i \in DOMAIN transients'
             /\ transients'[i].targets = transients[i].targets
             /\ transients'[i].source = transients[i].source
  BY <1>1, <1>3, <1>4, <1>5 DEF Mailbox, GoodMail
<1>11. AllSound(renewed, transients')
  <2> SUFFICES ASSUME NEW s \in DOMAIN surfaces PROVE Sound(renewed[s], s, transients')
    BY <1>7 DEF AllSound
  <2>1. Sound(renewed[s], s, transients)
    BY <1>8 DEF Follows
  <2> QED BY <1>10, <2>1, SoundMail
<1>12. \A s \in DOMAIN renewed : /\ Follows(surfaces'[s], renewed[s], s, transients')
                                 /\ Spares(surfaces'[s], renewed[s])
  <2>1. transients'[id].fresh > 0 /\ nextOwnerEpoch + 1 \in Nat
    BY <1>1, <1>4, <1>10 DEF Numbers
  <2>2. surfaces' = AfterProjection(renewed, id, transients'[id], nextOwnerEpoch + 1)
    BY <1>6, <1>10
  <2> QED BY <1>7, <1>10, <1>11, <2>1, <2>2, AfterProjectionFollows
<1>13. DOMAIN surfaces' = DOMAIN surfaces
  BY <1>6, <1>7 DEF AfterProjection
<1>14. ASSUME NEW s \in attached
       PROVE  GoesOn(surfaces'[s], surfaces[s], s, transients') /\ Spares(surfaces'[s], surfaces[s])
  <2>1. /\ Follows(surfaces'[s], renewed[s], s, transients') /\ Spares(surfaces'[s], renewed[s])
        /\ Follows(renewed[s], surfaces[s], s, transients) /\ Spares(renewed[s], surfaces[s])
        /\ renewed[s].owner.event = surfaces[s].owner.event
    BY <1>7, <1>8, <1>9, <1>12 DEF attached
  <2>2. GoesOn(surfaces'[s], surfaces[s], s, transients')
    BY <2>1 DEF Follows, FreshTurn, GoesOn, Asks
  <2>3. Spares(surfaces'[s], surfaces[s])
    BY <2>1, SparesTwice
  <2> QED BY <2>2, <2>3
<1> QED BY <1>13, <1>14, OnwardPointwise DEF Orderly, Spared

(* The new event is projected where it outranks what is on show; srf and    *)
(* evs are the surfaces and the mailbox that have room for it.              *)
LEMMA AdmitFollows ==
    ASSUME TypeOK, NEW srf, GoodSurfaces(srf), NEW evs, GoodMail(evs), AllSound(srf, evs),
           nextAdmission + 1 \notin DOMAIN evs, NEW e \in Events, e.fresh > 0, NEW n \in Nat,
           Admit(srf, evs, e, n)
    PROVE  /\ DOMAIN surfaces' = DOMAIN srf
           /\ \A i \in DOMAIN evs : i \in DOMAIN transients' /\ transients'[i] = evs[i]
           /\ \A s \in DOMAIN srf : /\ Follows(surfaces'[s], srf[s], s, transients')
                                    /\ Spares(surfaces'[s], srf[s])
<1> DEFINE id == nextAdmission + 1
<1>1. /\ transients' = [i \in DOMAIN evs \cup {id} |-> IF i = id THEN e ELSE evs[i]]
      /\ surfaces' = AfterProjection(srf, id, e, nextOwnerEpoch + n)
  BY DEF Admit
<1>2. /\ id \in DOMAIN transients' /\ transients'[id] = e
      /\ \A i \in DOMAIN evs : i \in DOMAIN transients' /\ transients'[i] = evs[i]
  BY <1>1
<1>3. GoodMail(transients') /\ nextOwnerEpoch + n \in Nat
  BY <1>1, TypeParts DEF GoodMail, Numbers
<1>4. AllSound(srf, transients')
  BY <1>2, SoundMail DEF AllSound
<1>5. surfaces' = AfterProjection(srf, id, transients'[id], nextOwnerEpoch + n)
  BY <1>1, <1>2
<1> HIDE DEF id
<1>6. \A s \in DOMAIN srf : /\ Follows(surfaces'[s], srf[s], s, transients')
                            /\ Spares(surfaces'[s], srf[s])
  BY <1>2, <1>3, <1>4, <1>5, AfterProjectionFollows
<1> QED BY <1>1, <1>2, <1>6 DEF AfterProjection

LEMMA AdmitTransientOrderly ==
    ASSUME TypeOK, StackInv, NEW source \in Sources, NEW n \in Nat, AdmitTransient(source, n)
    PROVE  Orderly
<1>1. GoodSurfaces(surfaces) /\ Mailbox /\ Numbers
  BY TypeParts
<1> DEFINE spared == AfterRemoval(surfaces, transients, Victim, nextOwnerEpoch + 1)
           evs == Without(transients, Victim)
<1>2. PICK targets \in TargetSets(KindOf[source]), duration \in HoldsFor[KindOf[source]] :
        \/ IsFull /\ Admit(spared, evs, NewEvent(source, n, duration, targets), 2)
        \/ Admit(surfaces, transients, NewEvent(source, n, duration, targets), 1)
  BY DEF AdmitTransient
<1> DEFINE e == NewEvent(source, n, duration, targets)
<1>3. e \in Events /\ e.fresh > 0
  <2>1. duration \in Nat /\ FreshFor[KindOf[source]] \in Nat /\ FreshFor[KindOf[source]] > 0
    BY KindsAssumption, TimesAssumption
  <2>2. targets \in SUBSET Surfaces
    BY <1>1 DEF TargetSets, attached, GoodSurfaces
  <2> QED BY <2>1, <2>2 DEF NewEvent, Events
<1>4. nextAdmission + 1 \notin DOMAIN transients /\ 1 \in Nat /\ 2 \in Nat
  BY <1>1, FiniteMail
<1> HIDE DEF e
<1>5. CASE Admit(surfaces, transients, e, 1)
  <2>1. /\ DOMAIN surfaces' = DOMAIN surfaces
        /\ \A s \in DOMAIN surfaces : /\ Follows(surfaces'[s], surfaces[s], s, transients')
                                      /\ Spares(surfaces'[s], surfaces[s])
    BY <1>1, <1>3, <1>4, <1>5, AdmitFollows DEF Mailbox, StackInv
  <2> QED BY <2>1, OnwardPointwise, FollowsGoesOn DEF Orderly, Spared, attached
<1>6. CASE IsFull /\ Admit(spared, evs, e, 2)
  <2>1. Victim # NoEvent
    BY <1>1, <1>6, VictimExists
  <2> DEFINE id == Victim
  <2> HIDE DEF id
  <2>2. /\ GoodSurfaces(AfterRemoval(surfaces, transients, id, nextOwnerEpoch + 1))
        /\ DOMAIN AfterRemoval(surfaces, transients, id, nextOwnerEpoch + 1) = DOMAIN surfaces
        /\ GoodMail(Without(transients, id))
        /\ DOMAIN Without(transients, id) \subseteq DOMAIN transients
    <3>1. GoodMail(transients) /\ nextOwnerEpoch + 1 \in Nat
      BY <1>1 DEF Mailbox, Numbers
    <3>2. /\ GoodMail(Without(transients, id))
          /\ DOMAIN Without(transients, id) = DOMAIN transients \ {id}
      BY <3>1, WithoutType
    <3> QED BY <1>1, <3>1, <3>2, AfterRemovalType
  <2>3. \A s \in DOMAIN surfaces :
          /\ Follows(AfterRemoval(surfaces, transients, id, nextOwnerEpoch + 1)[s], surfaces[s],
                     s, Without(transients, id))
          /\ Spares(AfterRemoval(surfaces, transients, id, nextOwnerEpoch + 1)[s], surfaces[s])
    BY <1>1, <2>1, AfterRemovalFollows DEF Mailbox, Numbers, StackInv, id
  <2>4. /\ GoodSurfaces(spared) /\ DOMAIN spared = DOMAIN surfaces
        /\ GoodMail(evs) /\ DOMAIN evs \subseteq DOMAIN transients
        /\ \A s \in DOMAIN surfaces : /\ Follows(spared[s], surfaces[s], s, evs)
                                      /\ Spares(spared[s], surfaces[s])
    BY <2>2, <2>3 DEF id
  <2> HIDE DEF spared, evs
  <2>5. AllSound(spared, evs)
    BY <2>4 DEF AllSound, Follows
  <2>6. nextAdmission + 1 \notin DOMAIN evs
    BY <1>4, <2>4
  <2>7. /\ DOMAIN surfaces' = DOMAIN spared
        /\ \A i \in DOMAIN evs : i \in DOMAIN transients' /\ transients'[i] = evs[i]
        /\ \A s \in DOMAIN spared : /\ Follows(surfaces'[s], spared[s], s, transients')
                                    /\ Spares(surfaces'[s], spared[s])
    BY <1>3, <1>4, <1>6, <2>4, <2>5, <2>6, AdmitFollows
  <2>8. ASSUME NEW s \in attached
        PROVE  Follows(surfaces'[s], surfaces[s], s, transients')
    <3>1. Follows(spared[s], surfaces[s], s, transients')
      BY <2>4, <2>7, FollowsMail DEF attached
    <3> QED BY <2>4, <2>7, <3>1, FollowsTwice DEF attached
  <2>9. ASSUME NEW s \in attached
        PROVE  Spares(surfaces'[s], surfaces[s])
    <3>1. /\ Follows(spared[s], surfaces[s], s, evs) /\ Spares(spared[s], surfaces[s])
          /\ Follows(surfaces'[s], spared[s], s, transients') /\ Spares(surfaces'[s], spared[s])
      BY <2>4, <2>7 DEF attached
    <3> QED BY <3>1, SparesTwice
  <2> QED BY <2>4, <2>7, <2>8, <2>9, OnwardPointwise, FollowsGoesOn DEF Orderly, Spared
<1> QED BY <1>2, <1>5, <1>6 DEF e


-----------------------------------------------------------------------------
(* Tasks. *)

(* A task takes over a surface that shows neither a task nor the modal. *)
LEMMA TakenFollows ==
    ASSUME NEW r, GoodRecord(r), NEW s, NEW evs, Sound(r, s, evs), Calm(r),
           NEW kind \in InteractiveKinds, NEW epoch \in Epochs, NEW n \in Nat
    PROVE  Follows(EnterOwner(CaptureCurrent(r), kind, epoch, n), r, s, evs)
<1> DEFINE q == EnterOwner(CaptureCurrent(r), kind, epoch, n)
<1>1. Rank(r) \in 0..6 /\ RankFor(kind) \in 7..8
  <2>1. r.owner.kind # "polkitModal" /\ r.owner.kind \notin InteractiveKinds
    BY DEF Calm, Reserved
  <2> QED BY <2>1, RecordRanks, RankBands
<1>2. kind \in Reserved /\ Rank(r) < RankFor(kind)
  BY <1>1 DEF Reserved
<1>3. Sound(q, s, evs) /\ q.owner.event = NoEvent /\ q.focusRequest = r.focusRequest
  BY <1>2, SoundTakeover
<1> HIDE DEF q
<1> QED BY <1>3 DEF Follows, FreshTurn, q

LEMMA OpenInteractiveOrderly ==
    ASSUME TypeOK, Roles, StackInv, NEW kind \in Tasks, NEW target \in Surfaces,
           OpenInteractive(kind, target)
    PROVE  Orderly
<1>1. GoodSurfaces(surfaces) /\ Numbers /\ kind \in InteractiveKinds
  BY TypeParts, KindsAssumption
<1>2. target \in attached /\ ~modalPresent /\ transients' = transients
  BY DEF OpenInteractive
<1>3. \A s \in attached : Calm(surfaces[s]) \/ Busy(surfaces[s])
  BY <1>2, WithoutModal
<1>4. \A s \in attached : GoodRecord(surfaces[s]) /\ s \in Surfaces
                          /\ Sound(surfaces[s], s, transients)
  BY <1>1, GoodAt DEF attached, StackInv, AllSound
<1>5. CASE surfaces[target].owner.kind = kind
  <2>1. surfaces' = [surfaces EXCEPT ![target] = AskFocus(surfaces[target])]
    BY <1>5 DEF OpenInteractive
  <2>2. surfaces[target].owner.focusTarget
    BY <1>1, <1>2, <1>4, <1>5 DEF Sound, Focused, Reserved
  <2> DEFINE q == AskFocus(surfaces[target])
  <2>3. GoesOn(q, surfaces[target], target, transients)
    BY <1>2, <1>4, <2>2, AskFocusGoesOn
  <2> HIDE DEF q
  <2> QED BY <1>2, <2>1, <2>3, OneOrderly DEF q
<1>6. CASE surfaces[target].owner.kind # kind
  <2> DEFINE srf == WithoutTasks
             next == EnterOwner(CaptureCurrent(srf[target]), kind,
                                <<nextOwnerEpoch + 1, target>>, 1)
  <2>1. surfaces' = [srf EXCEPT ![target] = next]
    BY <1>6 DEF OpenInteractive, Opened
  <2>2. GoodSurfaces(srf) /\ DOMAIN srf = attached
    BY <1>1, WithoutTasksType DEF attached
  <2>3. \A s \in attached : Calm(srf[s]) /\ Follows(srf[s], surfaces[s], s, transients)
    <3> SUFFICES ASSUME NEW s \in attached
                 PROVE  Calm(srf[s]) /\ Follows(srf[s], surfaces[s], s, transients)
      OBVIOUS
    <3>1. srf[s] = IF IsInteractive(surfaces[s].owner) THEN ForceIdle(surfaces[s])
                                                     ELSE surfaces[s]
      BY DEF WithoutTasks
    <3>2. Follows(surfaces[s], surfaces[s], s, transients)
      BY <1>4 DEF Follows, FreshTurn
    <3> QED BY <1>3, <1>4, <3>1, <3>2, ForceIdleCalm, ForceIdleFollows, RolesDiffer
  <2> HIDE DEF srf
  <2>4. Follows(next, srf[target], target, transients)
    <3>1. GoodRecord(srf[target]) /\ Sound(srf[target], target, transients) /\ Calm(srf[target])
      BY <1>2, <2>2, <2>3, GoodAt DEF Follows
    <3>2. <<nextOwnerEpoch + 1, target>> \in Epochs /\ 1 \in Nat
      BY <1>1, EpochTypes DEF Numbers
    <3> QED BY <1>1, <3>1, <3>2, TakenFollows
  <2> HIDE DEF next
  <2>5. DOMAIN surfaces' = DOMAIN surfaces
    BY <2>1, <2>2 DEF attached
  <2>6. ASSUME NEW s \in attached PROVE Follows(surfaces'[s], surfaces[s], s, transients)
    <3>1. CASE s = target
      BY <1>2, <2>1, <2>2, <2>3, <2>4, <3>1, FollowsTwice
    <3>2. CASE s # target
      BY <2>1, <2>2, <2>3, <3>2
    <3> QED BY <3>1, <3>2
  <2> QED BY <1>2, <2>5, <2>6, ManyOrderly
<1> QED BY <1>5, <1>6

LEMMA ResetToIdleOrderly ==
    ASSUME TypeOK, StackInv, NEW s, ResetToIdle(s)
    PROVE  Orderly
<1>1. /\ s \in attached /\ transients' = transients
      /\ surfaces' = [surfaces EXCEPT ![s] = ForceIdle(surfaces[s])]
  BY DEF ResetToIdle
<1>2. GoodRecord(surfaces[s])
  BY <1>1, TypeParts, GoodAt DEF attached
<1>3. GoesOn(ForceIdle(surfaces[s]), surfaces[s], s, transients)
  BY <1>2, ForceIdleFollows, FollowsGoesOn
<1> QED BY <1>1, <1>3, OneOrderly

LEMMA PrepareSurfaceDisableOrderly ==
    ASSUME TypeOK, Roles, StackInv, NEW s, NEW replacement,
           PrepareSurfaceDisable(s, replacement)
    PROVE  Orderly
<1>1. GoodSurfaces(surfaces)
  BY TypeParts
<1> DEFINE task == surfaces[s].owner
           next == EnterOwner(CaptureCurrent(surfaces[replacement]), task.kind, task.epoch,
                              task.revision + 1)
<1>2. /\ s \in attached /\ replacement \in attached /\ s # replacement /\ s # modalHostToken
      /\ IsInteractive(task)
      /\ transients' = transients
  BY DEF PrepareSurfaceDisable
<1>3. surfaces' = [surfaces EXCEPT ![s] = ForceIdle(surfaces[s]), ![replacement] = next]
  BY <1>2 DEF PrepareSurfaceDisable
<1>4. \A t \in attached : GoodRecord(surfaces[t]) /\ Sound(surfaces[t], t, transients)
  BY <1>1, GoodAt DEF attached, StackInv, AllSound
<1>5. Calm(surfaces[replacement])
  <2>1. Busy(surfaces[s]) /\ ~modalPresent
    BY <1>2, RolesDiffer DEF Roles, HostIsModal
  <2> QED BY <1>2, <2>1, WithoutModal DEF Roles, OneBusy
<1>6. Follows(next, surfaces[replacement], replacement, transients)
  <2>1. task \in Owners
    BY <1>2, <1>4 DEF GoodRecord, Records
  <2>2. task.kind \in InteractiveKinds /\ task.epoch \in Epochs /\ task.revision + 1 \in Nat
    BY <1>2, <2>1 DEF IsInteractive, Owners
  <2> HIDE DEF task
  <2> QED BY <1>2, <1>4, <1>5, <2>2, TakenFollows
<1>7. Follows(ForceIdle(surfaces[s]), surfaces[s], s, transients)
  BY <1>2, <1>4, ForceIdleFollows
<1> HIDE DEF next
<1>8. DOMAIN surfaces' = DOMAIN surfaces
  BY <1>3
<1>9. ASSUME NEW t \in attached PROVE Follows(surfaces'[t], surfaces[t], t, transients)
  <2>1. CASE t = replacement
    BY <1>2, <1>3, <1>6, <2>1 DEF attached
  <2>2. CASE t = s
    BY <1>2, <1>3, <1>7, <2>2 DEF attached
  <2>3. CASE t # s /\ t # replacement
    <3>1. surfaces'[t] = surfaces[t]
      BY <1>3, <2>3 DEF attached
    <3> QED BY <1>4, <3>1 DEF Follows, FreshTurn
  <2> QED BY <2>1, <2>2, <2>3
<1> QED BY <1>2, <1>8, <1>9, ManyOrderly

-----------------------------------------------------------------------------
(* The modal. *)

LEMMA AppearModalOrderly ==
    ASSUME TypeOK, Roles, StackInv, NEW flow, AppearModal(flow), transients' = transients
    PROVE  Orderly
<1>1. GoodSurfaces(surfaces) /\ Numbers
  BY TypeParts
<1>2. CASE attached = {}
  BY <1>2, StillOrderly DEF AppearModal
<1>3. CASE attached # {}
  <2>1. PICK target \in attached : surfaces' = Rehomed(surfaces, target, TRUE)
    BY <1>3 DEF AppearModal
  <2>2. surfaces[target].owner.kind # "polkitModal"
    <3>1. Calm(surfaces[target]) \/ Busy(surfaces[target])
      BY WithoutModal DEF AppearModal
    <3> QED BY <3>1, RankBands DEF Calm, Busy, Reserved, IsInteractive
  <2>3. \A s \in attached : Follows(surfaces'[s], surfaces[s], s, transients)
    BY <1>1, <2>1, <2>2, RehomedFollows DEF Numbers, StackInv, attached
  <2>4. DOMAIN surfaces' = DOMAIN surfaces
    BY <2>1 DEF Rehomed
  <2> QED BY <2>3, <2>4, ManyOrderly
<1> QED BY <1>2, <1>3

LEMMA RefreshModalOrderly ==
    ASSUME TypeOK, StackInv, NEW flow, RefreshModal(flow), transients' = transients
    PROVE  Orderly
<1>1. GoodSurfaces(surfaces) /\ DOMAIN surfaces' = DOMAIN surfaces
  BY TypeParts DEF RefreshModal, attached
<1>2. ASSUME NEW s \in attached PROVE Follows(surfaces'[s], surfaces[s], s, transients)
  <2> DEFINE r == surfaces[s]
             q == [r EXCEPT !.owner.revision = @ + 1, !.owner.visible = FALSE,
                            !.owner.focusPending = TRUE]
  <2>1. r \in Records /\ r.owner \in Owners /\ Sound(r, s, transients)
    BY <1>1, GoodAt DEF GoodRecord, Records, attached, StackInv, AllSound
  <2>2. surfaces'[s] = r \/ (surfaces'[s] = q /\ r.owner.kind = "polkitModal")
    BY DEF RefreshModal
  <2> HIDE DEF r
  <2>3. /\ q.owner.kind = r.owner.kind /\ q.owner.event = r.owner.event
        /\ q.owner.focusTarget = r.owner.focusTarget
        /\ q.restoration = r.restoration
        /\ q.hover = r.hover /\ q.explicit = r.explicit /\ q.focusRequest = r.focusRequest
    BY <2>1 DEF Records, Owners
  <2> HIDE DEF q
  <2>4. r.owner.kind = "polkitModal" => r.owner.focusTarget
    BY <2>1 DEF Sound, Focused, Reserved
  <2>5. Follows(r, r, s, transients)
    BY <2>1 DEF Follows, FreshTurn
  <2>6. r.owner.kind = "polkitModal" => Follows(q, r, s, transients)
    BY <2>1, <2>3, <2>4, FollowsSame
  <2> QED BY <2>2, <2>5, <2>6 DEF r
<1> QED BY <1>1, <1>2, ManyOrderly

LEMMA ReleaseModalOrderly ==
    ASSUME TypeOK, StackInv, NEW flow, ReleaseModal(flow), transients' = transients
    PROVE  Orderly
<1>1. GoodSurfaces(surfaces) /\ Mailbox /\ Numbers /\ DOMAIN surfaces' = DOMAIN surfaces
  BY TypeParts DEF ReleaseModal, attached
<1>2. ASSUME NEW s \in attached PROVE Follows(surfaces'[s], surfaces[s], s, transients)
  <2> DEFINE r == surfaces[s]
             q == RestoreNext(r, s, transients, <<nextOwnerEpoch + 1, s>>)
  <2>1. GoodRecord(r) /\ s \in Surfaces /\ Sound(r, s, transients)
    BY <1>1, GoodAt DEF attached, StackInv, AllSound
  <2>2. surfaces'[s] = r \/ surfaces'[s] = q
    BY DEF ReleaseModal
  <2>3. <<nextOwnerEpoch + 1, s>> \in Epochs /\ GoodMail(transients)
    BY <1>1, <2>1, EpochTypes DEF Numbers, Mailbox
  <2> HIDE DEF r
  <2>4. Settled(q, r, s, transients)
    BY <2>1, <2>3, SoundRestored DEF Sound
  <2> HIDE DEF q
  <2>5. Follows(q, r, s, transients) /\ Follows(r, r, s, transients)
    BY <2>1, <2>4, SettledFollows DEF Follows, FreshTurn
  <2> QED BY <2>2, <2>5 DEF r
<1> QED BY <1>1, <1>2, ManyOrderly

LEMMA SyncPolkitModalOrderly ==
    ASSUME TypeOK, Roles, StackInv, NEW flow, SyncPolkitModal(flow)
    PROVE  Orderly
<1>1. /\ AppearModal(flow) \/ RefreshModal(flow) \/ ReleaseModal(flow)
      /\ transients' = transients
  BY DEF SyncPolkitModal
<1> QED BY <1>1, AppearModalOrderly, RefreshModalOrderly, ReleaseModalOrderly

-----------------------------------------------------------------------------
(* Surfaces that come and go. *)

LEMMA AttachSurfaceOrderly ==
    ASSUME TypeOK, StackInv, NEW s \in Surfaces, AttachSurface(s)
    PROVE  Orderly
<1>1. GoodSurfaces(surfaces) /\ Numbers
  BY TypeParts
<1> DEFINE srf == [t \in attached \cup {s} |-> IF t = s THEN NewRecord ELSE surfaces[t]]
<1>2. s \notin attached /\ attached \subseteq Surfaces /\ transients' = transients
  BY <1>1 DEF AttachSurface, attached, GoodSurfaces
<1>3. \/ surfaces' = srf
      \/ \E target \in DOMAIN srf : surfaces' = Rehomed(srf, target, FALSE)
  BY DEF AttachSurface
<1>4. /\ DOMAIN srf = attached \cup {s}
      /\ srf[s] = NewRecord
      /\ \A t \in attached : srf[t] = surfaces[t]
  BY <1>2
<1>5. GoodSurfaces(srf)
  <2>1. \A t \in attached \cup {s} : GoodRecord(srf[t])
    BY <1>1, <1>4, NewRecordType, GoodAt DEF attached
  <2>2. srf = [t \in attached \cup {s} |-> srf[t]]
    OBVIOUS
  <2> HIDE DEF srf
  <2> QED BY <1>2, <2>1, <2>2, GoodPointwise
<1> HIDE DEF srf
<1>6. AllSound(srf, transients)
  BY <1>4, SoundNew DEF AllSound, StackInv, attached
<1>7. /\ DOMAIN surfaces' = DOMAIN srf
      /\ \A t \in DOMAIN srf : Follows(surfaces'[t], srf[t], t, transients)
  <2>1. CASE surfaces' = srf
    BY <1>6, <2>1 DEF Follows, FreshTurn, AllSound
  <2>2. ASSUME NEW target \in DOMAIN srf, surfaces' = Rehomed(srf, target, FALSE)
        PROVE  /\ DOMAIN surfaces' = DOMAIN srf
               /\ \A t \in DOMAIN srf : Follows(surfaces'[t], srf[t], t, transients)
    <3>1. FALSE \in BOOLEAN
      OBVIOUS
    <3>2. DOMAIN surfaces' = DOMAIN srf
      BY <2>2 DEF Rehomed
    <3>3. \A t \in DOMAIN srf : Follows(Rehomed(srf, target, FALSE)[t], srf[t], t, transients)
      BY <1>1, <1>5, <1>6, <3>1, RehomedFollows DEF Numbers
    <3> QED BY <2>2, <3>2, <3>3
  <2> QED BY <1>3, <2>1, <2>2
<1>8. Onward
  BY <1>2, <1>4, <1>7, FollowsGoesOn DEF Onward, AllSound, Follows, attached
<1> QED BY <1>2, <1>8 DEF Orderly, Spared

(* The lost surface leaves every event, and the others see no difference.   *)
LEMMA DetachSurfaceOrderly ==
    ASSUME TypeOK, StackInv, NEW s, DetachSurface(s)
    PROVE  Orderly
<1>1. /\ s \in attached /\ attached \subseteq Surfaces
      /\ DOMAIN surfaces' = attached \ {s}
      /\ \A t \in attached \ {s} : surfaces'[t] = surfaces[t]
  BY DEF DetachSurface, Restrict, attached, TypeOK
<1>2. \A i \in DOMAIN transients :
         /\ i \in DOMAIN transients'
         /\ transients'[i].targets = transients[i].targets \ {s}
         /\ transients'[i].source = transients[i].source
  <2>1. \A i \in DOMAIN transients : transients[i] \in Events
    BY DEF TypeOK
  <2>2. transients' = [i \in DOMAIN transients |->
                         [transients[i] EXCEPT !.targets = @ \ {s}, !.visible = @ \ {s}]]
    BY DEF DetachSurface
  <2> QED BY <2>1, <2>2 DEF Events
<1>3. ASSUME NEW t \in attached \ {s}
      PROVE  GoesOn(surfaces'[t], surfaces[t], t, transients')
  <2>1. Sound(surfaces[t], t, transients)
    BY DEF StackInv, AllSound, attached
  <2>2. Sound(surfaces[t], t, transients')
    BY <1>2, <2>1, SoundMail
  <2> QED BY <1>1, <2>2 DEF GoesOn, FreshTurn, Asks
<1>4. Onward
  BY <1>1, <1>3 DEF Onward, AllSound, GoesOn, attached
<1> QED BY <1>1, <1>4 DEF Orderly, Spared, attached

LEMMA FinishDetachOrderly ==
    ASSUME TypeOK, Roles, StackInv, FinishDetach
    PROVE  Orderly
<1>1. GoodSurfaces(surfaces) /\ Numbers /\ job \in Jobs
  BY TypeParts DEF Handling
<1>2. job.op = "detach" /\ transients' = transients
  BY DEF FinishDetach
<1>3. \/ \E target \in attached : surfaces' = Rehomed(surfaces, target, FALSE)
      \/ /\ ~job.lostModal /\ IsInteractive(job.task)
         /\ \E target \in attached : surfaces' = Transferred(target, job.task)
      \/ surfaces' = surfaces
  BY DEF FinishDetach
<1>4. ASSUME NEW target \in attached, surfaces' = Rehomed(surfaces, target, FALSE)
      PROVE  Orderly
  <2>1. DOMAIN surfaces' = DOMAIN surfaces /\ FALSE \in BOOLEAN
    BY <1>4 DEF Rehomed
  <2>2. \A s \in attached : Follows(Rehomed(surfaces, target, FALSE)[s], surfaces[s], s, transients)
    BY <1>1, <2>1, RehomedFollows DEF Numbers, StackInv, attached
  <2> QED BY <1>2, <1>4, <2>1, <2>2, ManyOrderly
<1>5. ASSUME ~job.lostModal, IsInteractive(job.task), NEW target \in attached,
             surfaces' = Transferred(target, job.task)
      PROVE  Orderly
  <2> DEFINE next == EnterOwner(CaptureCurrent(surfaces[target]), job.task.kind,
                                job.task.epoch, 1)
  <2>1. surfaces' = [surfaces EXCEPT ![target] = next]
    BY <1>5 DEF Transferred
  <2>2. Calm(surfaces[target])
    BY <1>2, <1>5 DEF Roles, LossUnderWay
  <2>3. GoodRecord(surfaces[target]) /\ Sound(surfaces[target], target, transients)
    BY <1>1, GoodAt DEF attached, StackInv, AllSound
  <2>4. job.task.kind \in InteractiveKinds /\ job.task.epoch \in Epochs /\ 1 \in Nat
    BY <1>1, <1>2, <1>5, KnownJobs DEF IsInteractive, Owners
  <2>5. Follows(next, surfaces[target], target, transients)
    BY <2>2, <2>3, <2>4, TakenFollows
  <2> HIDE DEF next
  <2> QED BY <1>2, <2>1, <2>5, FollowsGoesOn, OneOrderly
<1>6. CASE surfaces' = surfaces
  BY <1>2, <1>6, StillOrderly
<1> QED BY <1>3, <1>4, <1>5, <1>6

LEMMA TickOrderly ==
    ASSUME TypeOK, StackInv, Tick
    PROVE  Orderly
<1>1. \A i \in DOMAIN transients : transients[i] \in Events
  BY DEF TypeOK
<1>2. transients' = [i \in DOMAIN transients |->
                         [transients[i] EXCEPT !.fresh = Elapse(@), !.hold = Elapse(@)]]
      /\ surfaces' = surfaces
  BY DEF Tick
<1>3. \A i \in DOMAIN transients :
         /\ i \in DOMAIN transients'
         /\ transients'[i].targets = transients[i].targets
         /\ transients'[i].source = transients[i].source
  BY <1>1, <1>2 DEF Events
<1> QED BY <1>2, <1>3, QuietOrderly

-----------------------------------------------------------------------------
(* Every step. *)
LEMMA StepOrderly == TypeOK /\ Roles /\ StackInv /\ [Next]_vars => Orderly
<1> SUFFICES ASSUME TypeOK, Roles, StackInv, [Next]_vars PROVE Orderly
  OBVIOUS
<1>1. ASSUME NEW call \in Calls, Handle(call)
      PROVE  Orderly
  <2>1. call \in Jobs
    BY CallTypes
  <2>2. CASE Expire(call)              BY <2>2, StillOrderly DEF Expire
  <2>3. CASE AcknowledgeVisible(call)  BY <2>3, AcknowledgeOrderly
  <2>4. CASE SetBaselineIntent(call)   BY <2>1, <2>4, SetBaselineIntentOrderly
  <2>5. CASE RequestTransient(call)
    <3>1. call.source \in Sources /\ call.revision \in Nat
      BY <2>1, <2>5, KnownJobs DEF RequestTransient
    <3> QED BY <2>5, <3>1, RenewTransientOrderly, AdmitTransientOrderly DEF RequestTransient
  <2>6. CASE RefuseTransient(call)     BY <2>6, RefuseOrderly DEF RefuseTransient
  <2>7. CASE RejectTransient(call)     BY <2>7, StillOrderly DEF RejectTransient
  <2>8. CASE FinishInteractive(call)   BY <2>1, <2>8, FinishInteractiveOrderly
  <2>9. CASE TimerFires(call)          BY <2>9, StillOrderly DEF TimerFires
  <2> QED
    BY <1>1, <2>2, <2>3, <2>4, <2>5, <2>6, <2>7, <2>8, <2>9 DEF Handle
<1>2. CASE RemoveDoomed
  BY <1>2, RemoveDoomedOrderly
<1>3. CASE \E source \in Sources : InvalidateTransient(source)
  BY <1>3, InvalidateTransientOrderly
<1>4. CASE \E kind \in Tasks, s \in Surfaces : OpenInteractive(kind, s)
  BY <1>4, OpenInteractiveOrderly
<1>5. CASE \E s \in Surfaces : ResetToIdle(s) \/ AttachSurface(s) \/ DetachSurface(s)
  BY <1>5, ResetToIdleOrderly, AttachSurfaceOrderly, DetachSurfaceOrderly
<1>6. CASE \E s, replacement \in Surfaces : PrepareSurfaceDisable(s, replacement)
  BY <1>6, PrepareSurfaceDisableOrderly
<1>7. CASE \E flow \in 0..MaxFlow : SyncPolkitModal(flow)
  BY <1>7, SyncPolkitModalOrderly
<1>8. CASE FinishDetach
  BY <1>8, FinishDetachOrderly
<1>9. CASE Tick
  BY <1>9, TickOrderly
<1>10. CASE UNCHANGED vars
  BY <1>10, StillOrderly DEF vars
<1> QED
  BY <1>1, <1>2, <1>3, <1>4, <1>5, <1>6, <1>7, <1>8, <1>9, <1>10 DEF Next

LEMMA InitStack == Init => StackInv
BY DEF Init, StackInv, AllSound


(* Between the mailbox and the tasks, one invariant for all of it. *)
Whole == TypeOK /\ Roles /\ MailInv /\ StackInv

LEMMA WholeAlways == Spec => []Whole
<1>1. Init => Whole
  BY InitType, InitRoles, InitMail, InitStack DEF Whole
<1>2. Whole /\ [Next]_vars => Whole'
  <2>1. Whole /\ [Next]_vars => TypeOK' /\ Roles'
    BY StepType, StepRoles DEF Whole
  <2>2. Whole /\ [Next]_vars => MailInv'
    BY <2>1, StepMail DEF Whole
  <2>3. Whole /\ [Next]_vars => StackInv'
    BY StepOrderly DEF Whole, Orderly, Onward, StackInv
  <2> QED BY <2>1, <2>2, <2>3 DEF Whole
<1> QED BY <1>1, <1>2, PTL DEF Spec

-----------------------------------------------------------------------------
(* What it says. *)

(* rankFor and captureCurrent keep the stack of every surface sorted by     *)
(* rank, under an owner that outranks all of it: restoreNext never returns  *)
(* to content that the content above it should not have preempted.          *)
THEOREM PreemptedByRank == Spec => []StackOrdered
<1>1. Whole => StackOrdered
  BY DEF Whole, StackInv, AllSound, Sound, WellStacked, OnTop, FrameRank, Rank, attached,
         StackOrdered
<1> QED BY <1>1, WholeAlways, PTL

(* No handler, and no turn of expireDue, leaves a surface showing or saving *)
(* feedback that is no longer in the mailbox or was never meant for it.     *)
THEOREM FeedbackBacked == Spec => []FeedbackIsPending
<1>1. Whole => FeedbackIsPending
  BY DEF Whole, StackInv, AllSound, Sound, WellStacked, Backed, attached, FeedbackIsPending
<1> QED BY <1>1, WholeAlways, PTL

(* The dashboard is on show exactly while the pointer or the user wants it  *)
(* and nothing above it is, whatever ended or was restored on the way.      *)
THEOREM DashboardHonored == Spec => []BaselineHonored
<1>1. Whole => BaselineHonored
  BY DEF Whole, StackInv, AllSound, Sound, Honored, attached, BaselineHonored
<1> QED BY <1>1, WholeAlways, PTL

(* The keyboard is asked for only once the content that wants it is on      *)
(* screen: in acknowledgeVisible, and at once by a view that is visible.    *)
THEOREM FocusFollowsSight == Spec => FocusOnlyWhenVisible
<1>1. Whole /\ [Next]_vars =>
         \A s \in attached \cap DOMAIN surfaces' :
             surfaces'[s].focusRequest # surfaces[s].focusRequest =>
                 surfaces'[s].owner.visible /\ surfaces'[s].owner.focusTarget
  BY StepOrderly DEF Whole, Orderly, Onward, GoesOn, Asks
<1> QED BY <1>1, WholeAlways, PTL DEF Spec, FocusOnlyWhenVisible

(* A surface never turns to feedback that is overdue, not even while        *)
(* expireDue is removing several events one after the other.                *)
THEOREM NothingReplayedStale == Spec => NoStaleReplay
<1>1. Whole /\ [Next]_vars =>
         \A s \in attached \cap DOMAIN surfaces' :
             LET event == surfaces'[s].owner.event
             IN  event # NoEvent /\ event # surfaces[s].owner.event =>
                     event \in DOMAIN transients' /\ transients'[event].fresh > 0
  BY StepOrderly DEF Whole, Orderly, Onward, GoesOn, FreshTurn
<1> QED BY <1>1, WholeAlways, PTL DEF Spec, NoStaleReplay

(* Feedback that arrives, is renewed, evicted, acknowledged, expires or is  *)
(* withdrawn leaves the task on show alone.                                 *)
THEOREM TasksOutliveFeedback == Spec => FeedbackSparesTasks
<1>1. Whole /\ [Next]_vars =>
         (transients' # transients /\ attached' = attached =>
            \A s \in attached :
               Tasked(s) => surfaces'[s].owner.epoch = surfaces[s].owner.epoch)
  BY StepOrderly DEF Whole, Orderly, Spared, Spares, Tasked, attached
<1> QED BY <1>1, WholeAlways, PTL DEF Spec, FeedbackSparesTasks


-----------------------------------------------------------------------------
(* A task on top of the stack is what restoreNext goes back to: nothing     *)
(* that is pending and no baseline outranks it.                             *)
LEMMA TaskOnTopReturns ==
    ASSUME NEW r, GoodRecord(r), NEW s \in Surfaces, NEW evs, GoodMail(evs),
           NEW epoch \in Epochs, NEW f \in r.restoration, f.owner.kind \in InteractiveKinds,
           \A g \in r.restoration : g # f => g.depth < f.depth
    PROVE  RestoreNext(r, s, evs, epoch).owner = Restored(r, f)
<1> DEFINE relevant == {g \in r.restoration : IsRelevantFrame(g, r, s, evs)}
           top      == CHOOSE h \in relevant : \A g \in relevant : g.depth <= h.depth
           below    == IF relevant = {} THEN {}
                       ELSE {g \in r.restoration : g.depth < top.depth}
           pending  == PendingFor(r, s, evs)
           next     == Foremost(pending, evs)
           baseline == BaselineKind(r)
           takesFrame == /\ relevant # {}
                         /\ RankFor(top.owner.kind) >= RankFor(baseline)
                         /\ pending # {} => RankFor(top.owner.kind) >= EventRank(evs, next)
<1>1. takesFrame => RestoreNext(r, s, evs, epoch) =
                       [r EXCEPT !.restoration = below, !.owner = Restored(r, top)]
  BY DEF RestoreNext
<1>2. f \in relevant
  BY DEF IsRelevantFrame
<1>3. \A g \in r.restoration : g.depth \in Nat
  BY DEF GoodRecord, Records, Frames
<1>4. \A h \in relevant : (\A g \in relevant : g.depth <= h.depth) <=> h = f
  BY <1>2, <1>3
<1>5. top = f
  BY <1>2, <1>4
<1>6. RankFor(top.owner.kind) \in 7..8
  BY <1>5, RankBands
<1>7. RankFor(baseline) \in 0..6
  BY RankBands DEF BaselineKind
<1>8. pending # {} => EventRank(evs, next) \in 1..5
  BY PendingForType, ForemostChoice, EventRankType
<1> HIDE DEF relevant, top, below, pending, next, baseline
<1>9. takesFrame
  BY <1>2, <1>6, <1>7, <1>8
<1> HIDE DEF takesFrame
<1> QED BY <1>1, <1>5, <1>9 DEF GoodRecord, Records

(* Only syncPolkitModal ends a flow. *)
LEMMA FlowEnds ==
    ASSUME [Next]_vars, modalPresent, modalFlow' = 0
    PROVE  \E flow \in 0..MaxFlow : SyncPolkitModal(flow) /\ ReleaseModal(flow)
<1>1. modalFlow' # modalFlow
  BY DEF modalPresent
<1>2. \A call : ~Handle(call)
  BY <1>1 DEF Handle, Expire, AcknowledgeVisible, SetBaselineIntent, RequestTransient,
              RefuseTransient, RejectTransient, FinishInteractive, TimerFires, Refuse
<1>3. ~RemoveDoomed /\ \A source : ~InvalidateTransient(source)
  BY <1>1 DEF RemoveDoomed, InvalidateTransient, Refuse
<1>4. /\ \A kind, s : ~OpenInteractive(kind, s)
      /\ \A s : ~ResetToIdle(s) /\ ~AttachSurface(s) /\ ~DetachSurface(s)
      /\ \A s, replacement : ~PrepareSurfaceDisable(s, replacement)
      /\ ~FinishDetach /\ ~Tick
  BY <1>1 DEF OpenInteractive, ResetToIdle, AttachSurface, DetachSurface,
              PrepareSurfaceDisable, FinishDetach, Tick
<1>5. \E flow \in 0..MaxFlow : SyncPolkitModal(flow)
  BY <1>1, <1>2, <1>3, <1>4 DEF Next, vars
<1>6. \A flow : SyncPolkitModal(flow) => ReleaseModal(flow)
  BY DEF SyncPolkitModal, AppearModal, RefreshModal, modalPresent
<1> QED BY <1>5, <1>6

(* The authentication modal costs the user no task: syncPolkitModal ends    *)
(* the flow in one step with the task that waited on show again, under its  *)
(* own epoch, and with the keyboard asked for on its behalf.                *)
THEOREM ModalGivesTaskBack == Spec => TaskReturnsAfterModal
<1>1. ASSUME Whole, [Next]_vars, modalPresent, modalFlow' = 0, NEW s \in attached,
             NEW f \in WaitingTasks(s)
      PROVE  surfaces'[s].owner.epoch = f.owner.epoch /\ surfaces'[s].owner.focusPending
  <2>1. GoodSurfaces(surfaces) /\ Mailbox /\ Numbers /\ Roles
    BY <1>1, TypeParts DEF Whole
  <2>2. PICK flow \in 0..MaxFlow : ReleaseModal(flow)
    BY <1>1, FlowEnds
  <2>3. f \in surfaces[s].restoration /\ f.owner.kind \in InteractiveKinds
    BY DEF WaitingTasks, IsInteractive
  <2>4. ~PlainFrames(surfaces[s])
    BY <2>3 DEF PlainFrames, Reserved
  <2>5. s = modalHostToken /\ Hosting(surfaces[s])
    BY <2>1, <2>4 DEF Roles, HostIsModal, Calm, Busy
  <2> DEFINE q == RestoreNext(surfaces[s], s, transients, <<nextOwnerEpoch + 1, s>>)
  <2>6. surfaces'[s] = q
    BY <2>2, <2>5 DEF ReleaseModal, Hosting
  <2>7. GoodRecord(surfaces[s]) /\ s \in Surfaces /\ f \in Frames
    BY <2>1, <2>3, GoodAt DEF attached, GoodRecord, Records
  <2>8. q.owner = Restored(surfaces[s], f)
    <3>1. <<nextOwnerEpoch + 1, s>> \in Epochs /\ GoodMail(transients)
      BY <2>1, <2>7, EpochTypes DEF Numbers, Mailbox
    <3>2. \A g \in surfaces[s].restoration : g # f => g.depth < f.depth
      BY <2>3, <2>5 DEF Hosting, IsInteractive
    <3> QED BY <2>3, <2>7, <3>1, <3>2, TaskOnTopReturns
  <2> HIDE DEF q
  <2> QED BY <2>3, <2>6, <2>7, <2>8, RestoredOwner
<1>2. Whole /\ [Next]_vars =>
         (modalPresent /\ modalFlow' = 0 =>
            \A s \in attached : \A f \in WaitingTasks(s) :
               /\ surfaces'[s].owner.epoch = f.owner.epoch
               /\ surfaces'[s].owner.focusPending)
  BY <1>1
<1> QED BY <1>2, WholeAlways, PTL DEF Spec, TaskReturnsAfterModal

-----------------------------------------------------------------------------
(* What is given up. *)

LEMMA EvictionJustified ==
    ASSUME TypeOK, MailInv, NEW source \in Sources, NEW n \in Nat, AdmitTransient(source, n),
           NEW i \in DOMAIN transients \ DOMAIN transients'
    PROVE  /\ nextAdmission' \in DOMAIN transients'
           /\ Cardinality(DOMAIN transients) = MaxPending
           /\ \A j \in DOMAIN transients' : EventRank(transients, i) <= EventRank(transients', j)
<1>1. GoodSurfaces(surfaces) /\ Mailbox /\ Numbers
  BY TypeParts
<1> DEFINE id == Victim
           new == nextAdmission + 1
           evs == Without(transients, id)
<1>2. PICK targets \in TargetSets(KindOf[source]), duration \in HoldsFor[KindOf[source]] :
        LET e == NewEvent(source, n, duration, targets)
        IN  \/ /\ IsFull
               /\ RankFor(KindOf[source]) >= EventRank(transients, id)
               /\ transients' = [k \in DOMAIN evs \cup {new} |-> IF k = new THEN e ELSE evs[k]]
            \/ transients' = [k \in DOMAIN transients \cup {new} |->
                                IF k = new THEN e ELSE transients[k]]
  BY DEF AdmitTransient, Admit
<1> DEFINE e == NewEvent(source, n, duration, targets)
<1>3. /\ IsFull
      /\ RankFor(KindOf[source]) >= EventRank(transients, id)
      /\ transients' = [k \in DOMAIN evs \cup {new} |-> IF k = new THEN e ELSE evs[k]]
  BY <1>2
<1>4. /\ id \in DOMAIN transients
      /\ \A j \in DOMAIN transients : EventRank(transients, id) <= EventRank(transients, j)
  BY <1>1, <1>3, VictimExists
<1> HIDE DEF id
<1>5. DOMAIN evs = DOMAIN transients \ {id} /\ \A k \in DOMAIN evs : evs[k] = transients[k]
  BY <1>1, WithoutType DEF Mailbox
<1>6. e.source = source
  BY DEF NewEvent
<1> HIDE DEF evs, e
<1>7. i = id /\ new \in DOMAIN transients' /\ nextAdmission' = new
  BY <1>3, <1>5 DEF AdmitTransient
<1>8. Cardinality(DOMAIN transients) = MaxPending
  <2>1. Cardinality(DOMAIN transients) \in Nat /\ Cardinality(DOMAIN transients) <= MaxPending
    BY <1>1, FiniteMail, FS_CardinalityType DEF MailInv, InOrder
  <2> QED BY <1>3, <2>1, BoundsAssumption DEF IsFull
<1>9. ASSUME NEW j \in DOMAIN transients'
      PROVE  EventRank(transients, id) <= EventRank(transients', j)
  <2>1. CASE j = new
    <3>1. transients'[j] = e
      BY <1>3, <2>1
    <3>2. EventRank(transients', j) = RankFor(KindOf[source])
      BY <1>6, <3>1 DEF EventRank, EventKind
    <3>3. RankFor(KindOf[source]) \in Nat /\ EventRank(transients, id) \in Nat
      BY <1>1, <1>4, KindsAssumption, RankBands, EventRankType DEF Mailbox
    <3> QED BY <1>3, <3>2, <3>3
  <2>2. CASE j # new
    <3>1. j \in DOMAIN transients /\ transients'[j] = transients[j]
      BY <1>3, <1>5, <2>2
    <3> QED BY <1>4, <3>1 DEF EventRank
  <2> QED BY <2>1, <2>2
<1> QED BY <1>7, <1>8, <1>9

(* Every other step but a withdrawal keeps what is pending. *)
LEMMA NothingLost ==
    ASSUME TypeOK, [Next]_vars, ~RemoveDoomed,
           \A source \in Sources : ~InvalidateTransient(source),
           \A source \in Sources, n \in Nat : ~AdmitTransient(source, n)
    PROVE  DOMAIN transients \subseteq DOMAIN transients'
<1>1. ASSUME NEW call \in Calls, Handle(call)
      PROVE  DOMAIN transients' = DOMAIN transients
  <2>1. CASE RequestTransient(call)
    <3>1. call \in Jobs
      BY CallTypes
    <3>2. call.source \in Sources /\ call.revision \in Nat
      BY <2>1, <3>1, KnownJobs DEF RequestTransient
    <3>3. RenewTransient(call.source, call.revision)
      BY <2>1, <3>2 DEF RequestTransient
    <3> QED BY <3>3 DEF RenewTransient
  <2>2. CASE AcknowledgeVisible(call)
    BY <2>2 DEF AcknowledgeVisible, Refuse
  <2> QED
    BY <1>1, <2>1, <2>2 DEF Handle, Expire, SetBaselineIntent, RefuseTransient, RejectTransient,
                            FinishInteractive, TimerFires, Refuse
<1>2. CASE \E kind \in Tasks, s \in Surfaces : OpenInteractive(kind, s)
  BY <1>2 DEF OpenInteractive
<1>3. CASE \E s \in Surfaces : ResetToIdle(s) \/ AttachSurface(s) \/ DetachSurface(s)
  BY <1>3 DEF ResetToIdle, AttachSurface, DetachSurface
<1>4. CASE \E s, replacement \in Surfaces : PrepareSurfaceDisable(s, replacement)
  BY <1>4 DEF PrepareSurfaceDisable
<1>5. CASE \E flow \in 0..MaxFlow : SyncPolkitModal(flow)
  BY <1>5 DEF SyncPolkitModal
<1>6. CASE FinishDetach \/ Tick
  BY <1>6 DEF FinishDetach, Tick
<1>7. CASE UNCHANGED vars
  BY <1>7 DEF vars
<1> QED BY <1>1, <1>2, <1>3, <1>4, <1>5, <1>6, <1>7 DEF Next

(* Feedback is given up only by expireDue and the clean-up of a lost        *)
(* surface, by invalidateTransient, or by the eviction that makes room for  *)
(* feedback that ranks at least as high as all there is.                    *)
THEOREM FeedbackGivenUp == Spec => LossJustified
<1>1. ASSUME Whole, [Next]_vars, NEW i \in DOMAIN transients \ DOMAIN transients'
      PROVE  \/ i \in doomed
             \/ nextAdmission' = nextAdmission /\ AtRest
             \/ /\ nextAdmission' \in DOMAIN transients'
                /\ Cardinality(DOMAIN transients) = MaxPending
                /\ \A j \in DOMAIN transients' :
                      EventRank(transients, i) <= EventRank(transients', j)
  <2>1. TypeOK /\ MailInv
    BY <1>1 DEF Whole
  <2>2. CASE RemoveDoomed
    <3>1. PICK id \in doomed : transients' = Without(transients, id)
      BY <2>2 DEF RemoveDoomed
    <3>2. DOMAIN transients' = DOMAIN transients \ {id}
      BY <2>1, <3>1, TypeParts, WithoutType DEF Mailbox
    <3> QED BY <3>2
  <2>3. ASSUME NEW source \in Sources, InvalidateTransient(source)
        PROVE  nextAdmission' = nextAdmission /\ AtRest
    BY <2>3 DEF InvalidateTransient, MayEnter, MayCall, AtRest, Refuse
  <2>4. ASSUME NEW source \in Sources, NEW n \in Nat, AdmitTransient(source, n)
        PROVE  /\ nextAdmission' \in DOMAIN transients'
               /\ Cardinality(DOMAIN transients) = MaxPending
               /\ \A j \in DOMAIN transients' :
                     EventRank(transients, i) <= EventRank(transients', j)
    BY <2>1, <2>4, EvictionJustified
  <2> QED BY <1>1, <2>1, <2>2, <2>3, <2>4, NothingLost
<1>2. Whole /\ [Next]_vars =>
         \A i \in DOMAIN transients \ DOMAIN transients' :
            \/ i \in doomed
            \/ nextAdmission' = nextAdmission /\ AtRest
            \/ /\ nextAdmission' \in DOMAIN transients'
               /\ Cardinality(DOMAIN transients) = MaxPending
               /\ \A j \in DOMAIN transients' : EventRank(transients, i) <= EventRank(transients', j)
  BY <1>1
<1> QED BY <1>2, WholeAlways, PTL DEF Spec, LossJustified

(***************************************************************************)
(* Every stay of content on a surface has an epoch of its own: the epoch   *)
(* is what a view names when it acknowledges, finishes or hands over, so   *)
(* two stays of one epoch would let a late call end the wrong one.         *)
(*                                                                         *)
(* EpochsUnique speaks of owners that are on show.  An owner comes back    *)
(* from the frames of its surface or moves to another surface when its     *)
(* own is lost, so NamesInv speaks of all names there are: apart within a  *)
(* record (Distinct) and across surfaces (NamedApart), none newer than the *)
(* last one handed out, and the task a detach still owes to a surface      *)
(* named like nothing else (Carried).                                      *)
(***************************************************************************)

(* Every stay has a name of its own.  The names of one record: *)
Names(r) == {r.owner.epoch} \cup {f.owner.epoch : f \in r.restoration}

(* Nothing on a surface bears the name of anything else on it. *)
Distinct(r) ==
    /\ \A f \in r.restoration : f.owner.epoch = r.owner.epoch => f.owner.epoch = NoEpoch
    /\ \A f, g \in r.restoration :
          f.owner.epoch = g.owner.epoch => f = g \/ f.owner.epoch = NoEpoch

(* The names handed out to s after number n, up to number m. *)
Handed(s, n, m) == {<<i, s>> : i \in (n + 1)..m}

(* A record goes on under names it had, and under the new one only if the   *)
(* new one is its owner's.                                                  *)
Renamed(q, r, epoch) ==
    /\ Distinct(q)
    /\ Names(q) \subseteq Names(r) \cup {NoEpoch, epoch}
    /\ epoch \in Names(q) => q.owner.epoch = epoch

LEMMA NamesType ==
    ASSUME NEW r, GoodRecord(r)
    PROVE  Names(r) \subseteq Epochs
BY DEF Names, GoodRecord, Records, Owners, Frames

LEMMA NewEpoch ==
    ASSUME NEW r, NEW n \in Nat, \A e \in Names(r) : e[1] <= n, NEW s
    PROVE  <<n + 1, s>> \notin Names(r) /\ <<n + 1, s>> # NoEpoch
<1>1. <<n + 1, s>>[1] = n + 1 /\ NoEpoch[1] = 0
  BY DEF NoEpoch
<1>2. ~(n + 1 <= n) /\ n + 1 # 0
  OBVIOUS
<1> QED BY <1>1, <1>2

(* The owner stays, frames may go. *)
LEMMA SameNames ==
    ASSUME NEW r, NEW q, Distinct(r), q.owner.epoch = r.owner.epoch,
           q.restoration \subseteq r.restoration, NEW epoch, epoch \notin Names(r)
    PROVE  Renamed(q, r, epoch)
BY DEF Renamed, Distinct, Names

(* The owner is preempted by content with a name of its own. *)
LEMMA EnteredNames ==
    ASSUME NEW r, GoodRecord(r), Distinct(r), NEW q,
           q.restoration = CaptureCurrent(r).restoration, q.owner.epoch \notin Names(r)
    PROVE  Renamed(q, r, q.owner.epoch)
<1> DEFINE frame == [depth |-> NextDepth(r.restoration), owner |-> r.owner]
<1>1. CASE q.restoration = r.restoration
  BY <1>1 DEF Renamed, Distinct, Names
<1>2. CASE q.restoration = r.restoration \cup {frame}
  <2>1. frame.owner = r.owner
    OBVIOUS
  <2> HIDE DEF frame
  <2> QED BY <1>2, <2>1 DEF Renamed, Distinct, Names
<1> QED BY <1>1, <1>2, Captured

LEMMA AloneNames ==
    ASSUME NEW q, q.restoration = {}
    PROVE  Distinct(q) /\ Names(q) = {q.owner.epoch}
BY DEF Distinct, Names

LEMMA BaselineEpoch ==
    ASSUME NEW kind
    PROVE  BaselineOwner(kind).epoch = NoEpoch
BY DEF BaselineOwner, OwnerRecord

LEMMA IdleNames ==
    ASSUME NEW r, GoodRecord(r)
    PROVE  /\ ForceIdle(r).restoration = {}
           /\ ForceIdle(r).owner.epoch = NoEpoch
           /\ Distinct(ForceIdle(r)) /\ Names(ForceIdle(r)) = {NoEpoch}
<1>1. ForceIdle(r).restoration = {} /\ ForceIdle(r).owner = BaselineOwner("idle")
  BY DEF ForceIdle, GoodRecord, Records
<1> QED BY <1>1, AloneNames, BaselineEpoch

LEMMA EnteredEpoch ==
    ASSUME NEW r, GoodRecord(r), NEW epoch
    PROVE  /\ \A kind, n : EnterOwner(r, kind, epoch, n).owner.epoch = epoch
           /\ \A id, e : EnterEvent(r, id, e, epoch).owner.epoch = epoch
BY DEF EnterOwner, EnterEvent, OwnerRecord, GoodRecord, Records

LEMMA RestoredNames ==
    ASSUME NEW r, GoodRecord(r), Distinct(r), NEW s \in Surfaces, NEW evs, GoodMail(evs),
           NEW epoch \in Epochs, epoch \notin Names(r), epoch # NoEpoch
    PROVE  Renamed(RestoreNext(r, s, evs, epoch), r, epoch)
<1> DEFINE q == RestoreNext(r, s, evs, epoch)
<1> SUFFICES Renamed(q, r, epoch)
  OBVIOUS
<1> HIDE DEF q
<1>1. CASE ToFrame(q, r, s, evs)
  <2>1. PICK f \in r.restoration :
          q = [r EXCEPT !.restoration = {g \in @ : g.depth < f.depth}, !.owner = Restored(r, f)]
    BY <1>1 DEF ToFrame
  <2>2. Restored(r, f).epoch = f.owner.epoch
    <3>1. f.owner \in Owners
      BY DEF GoodRecord, Records, Frames
    <3> QED BY <3>1 DEF Restored, Owners
  <2>3. q.owner.epoch = f.owner.epoch /\ q.restoration = {g \in r.restoration : g.depth < f.depth}
    BY <2>1, <2>2 DEF GoodRecord, Records
  <2>4. f.depth \in Nat
    BY DEF GoodRecord, Records, Frames
  <2>5. f \notin q.restoration /\ q.restoration \subseteq r.restoration
    BY <2>3, <2>4
  <2>6. Distinct(q)
    BY <2>3, <2>5 DEF Distinct
  <2>7. Names(q) \subseteq Names(r)
    BY <2>3, <2>5 DEF Names
  <2> QED BY <2>6, <2>7 DEF Renamed
<1>2. CASE ToEvent(q, r, s, evs, epoch)
  <2>1. PICK i \in PendingFor(r, s, evs), below \in SUBSET r.restoration :
          q = EnterEvent([r EXCEPT !.restoration = below], i, evs[i], epoch)
    BY <1>2 DEF ToEvent
  <2>2. q.owner.epoch = epoch /\ q.restoration = below
    BY <2>1 DEF EnterEvent, OwnerRecord, GoodRecord, Records
  <2>3. \A f \in below : f.owner.epoch # epoch
    BY DEF Names
  <2> QED BY <2>2, <2>3 DEF Renamed, Distinct, Names
<1>3. CASE ToBaseline(q, r)
  <2>1. PICK pending \in BOOLEAN :
          q = [r EXCEPT !.restoration = {},
                        !.owner = [BaselineOwner(BaselineKind(r)) EXCEPT !.focusPending = pending]]
    BY <1>3 DEF ToBaseline
  <2>2. q.owner.epoch = NoEpoch /\ q.restoration = {}
    BY <2>1 DEF BaselineOwner, OwnerRecord, GoodRecord, Records
  <2> QED BY <2>2, AloneNames DEF Renamed
<1> QED BY <1>1, <1>2, <1>3, RestoreNextCases DEF q

-----------------------------------------------------------------------------
(* All surfaces: names that were handed out up to n, none on two surfaces. *)
NamedApart(srf, n) ==
    /\ \A s \in DOMAIN srf : Distinct(srf[s]) /\ \A e \in Names(srf[s]) : e[1] <= n
    /\ \A s, t \in DOMAIN srf : s # t => Names(srf[s]) \cap Names(srf[t]) \subseteq {NoEpoch}

(* A lost surface's task still has its name, which is nowhere else.         *)
Carried(epoch, srf, n) ==
    /\ epoch[1] <= n
    /\ \A s \in DOMAIN srf : epoch \in Names(srf[s]) => epoch = NoEpoch

NamesInv ==
    /\ NamedApart(surfaces, nextOwnerEpoch)
    /\ job.op = "detach" => Carried(job.task.epoch, surfaces, nextOwnerEpoch)

LEMMA HandedAbove ==
    ASSUME NEW s, NEW n \in Nat, NEW m \in Nat, NEW e \in Handed(s, n, m)
    PROVE  e[2] = s /\ e[1] \in Nat /\ ~(e[1] <= n) /\ e[1] <= m
<1>1. PICK i \in (n + 1)..m : e = <<i, s>>
  BY DEF Handed
<1>2. i \in Nat /\ ~(i <= n) /\ i <= m
  OBVIOUS
<1> QED BY <1>1, <1>2

(* A step hands out names up to n + k, and one surface, the target, may get *)
(* the name of a task that is on show nowhere else.                         *)
LEMMA ApartStep ==
    ASSUME NEW srf, GoodSurfaces(srf), NEW n \in Nat, NamedApart(srf, n), NEW k \in Nat,
           NEW m \in Nat, n <= m, NEW next, DOMAIN next \subseteq DOMAIN srf,
           NEW target, NEW moved \in Epochs, moved[1] <= n,
           \A s \in DOMAIN next : Distinct(next[s]),
           \A s \in DOMAIN next : \A e \in Names(next[s]) :
               \/ e \in Names(srf[s])
               \/ e = NoEpoch
               \/ e \in Handed(s, n, n + k) /\ n + k <= m
               \/ s = target /\ e = moved,
           \A s \in DOMAIN next : s # target /\ moved \in Names(next[s]) => moved = NoEpoch
    PROVE  NamedApart(next, m)
<1>1. ASSUME NEW s \in DOMAIN next, NEW e \in Names(next[s])
      PROVE  e[1] <= m
  <2>1. CASE e \in Names(srf[s])
    <3>1. e \in Epochs /\ e[1] <= n
      BY <2>1, GoodAt, NamesType DEF NamedApart
    <3> QED BY <3>1 DEF Epochs
  <2>2. CASE e = NoEpoch
    BY <2>2 DEF NoEpoch
  <2>3. CASE e \in Handed(s, n, n + k) /\ n + k <= m
    <3>1. e[1] \in Nat /\ e[1] <= n + k
      BY <2>3, HandedAbove
    <3> QED BY <2>3, <3>1
  <2>4. CASE e = moved
    BY <2>4 DEF Epochs
  <2> QED BY <1>1, <2>1, <2>2, <2>3, <2>4
<1>2. ASSUME NEW s \in DOMAIN next, NEW t \in DOMAIN next, s # t,
             NEW e, e \in Names(next[s]), e \in Names(next[t]), e # NoEpoch
      PROVE  FALSE
  <2>1. ~(e \in Names(srf[s]) /\ e \in Names(srf[t]))
    BY <1>2 DEF NamedApart
  <2>2. e # moved
    BY <1>2
  <2>3. ASSUME NEW x \in DOMAIN next, e \in Handed(x, n, n + k)
        PROVE  e[2] = x /\ \A y \in DOMAIN next : e \notin Names(srf[y])
    BY <2>3, HandedAbove DEF NamedApart
  <2>4. e \in Names(srf[s]) \/ e \in Handed(s, n, n + k)
    BY <1>2, <2>2
  <2>5. e \in Names(srf[t]) \/ e \in Handed(t, n, n + k)
    BY <1>2, <2>2
  <2> QED BY <1>2, <2>1, <2>3, <2>4, <2>5
<1> QED BY <1>1, <1>2 DEF NamedApart

LEMMA NamesStep ==
    ASSUME TypeOK, NamesInv, NEW k \in Nat,
           nextOwnerEpoch' \in Nat, nextOwnerEpoch <= nextOwnerEpoch',
           DOMAIN surfaces' \subseteq DOMAIN surfaces,
           \A s \in DOMAIN surfaces' : Distinct(surfaces'[s]),
           \A s \in DOMAIN surfaces' : \A e \in Names(surfaces'[s]) :
               \/ e \in Names(surfaces[s])
               \/ e = NoEpoch
               \/ /\ e \in Handed(s, nextOwnerEpoch, nextOwnerEpoch + k)
                  /\ nextOwnerEpoch + k <= nextOwnerEpoch',
           job' = job \/ job'.op # "detach"
    PROVE  NamesInv'
<1> DEFINE n == nextOwnerEpoch
           m == nextOwnerEpoch'
           next == surfaces'
<1>1. GoodSurfaces(surfaces) /\ n \in Nat /\ NamedApart(surfaces, n)
  BY TypeParts DEF Numbers, NamesInv
<1>2. NoEpoch \in Epochs /\ NoEpoch[1] = 0
  BY EpochTypes DEF NoEpoch
<1>3. /\ m \in Nat /\ n <= m
      /\ DOMAIN next \subseteq DOMAIN surfaces
      /\ \A s \in DOMAIN next : Distinct(next[s])
      /\ \A s \in DOMAIN next : \A e \in Names(next[s]) :
            \/ e \in Names(surfaces[s])
            \/ e = NoEpoch
            \/ e \in Handed(s, n, n + k) /\ n + k <= m
  OBVIOUS
<1> HIDE DEF n, m, next
<1>4. NamedApart(next, m)
  <2>1. NoEpoch[1] <= n
    BY <1>1, <1>2
  <2> QED BY <1>1, <1>2, <1>3, <2>1, ApartStep
<1>5. ASSUME job'.op = "detach"
      PROVE  Carried(job'.task.epoch, next, m)
  <2> DEFINE epoch == job'.task.epoch
  <2>1. job' = job /\ Carried(epoch, surfaces, n) /\ epoch[1] \in Nat
    <3>1. job' = job /\ Carried(epoch, surfaces, n)
      BY <1>5 DEF NamesInv, n
    <3>2. job.task \in Owners
      BY <1>5, <3>1, TypeParts, KnownJobs DEF Handling
    <3> QED BY <3>1, <3>2 DEF Owners, Epochs
  <2> HIDE DEF epoch
  <2>2. epoch[1] <= m
    BY <1>1, <1>3, <2>1 DEF Carried
  <2>3. ASSUME NEW s \in DOMAIN next, epoch \in Names(next[s])
        PROVE  epoch = NoEpoch
    <3>1. epoch \notin Handed(s, n, n + k)
      BY <1>1, <2>1, HandedAbove DEF Carried
    <3> QED BY <1>3, <2>1, <2>3, <3>1 DEF Carried
  <2> QED BY <2>2, <2>3 DEF Carried, epoch
<1> QED BY <1>4, <1>5 DEF NamesInv, m, next

(* No name is handed out. *)
LEMMA QuietNames ==
    ASSUME TypeOK, NamesInv, nextOwnerEpoch' = nextOwnerEpoch,
           DOMAIN surfaces' \subseteq DOMAIN surfaces,
           \A s \in DOMAIN surfaces' :
               /\ Distinct(surfaces'[s])
               /\ Names(surfaces'[s]) \subseteq Names(surfaces[s]) \cup {NoEpoch},
           job' = job \/ job'.op # "detach"
    PROVE  NamesInv'
<1>1. nextOwnerEpoch \in Nat /\ nextOwnerEpoch <= nextOwnerEpoch
  BY TypeParts DEF Numbers
<1> QED BY <1>1, NamesStep

LEMMA StillNames ==
    ASSUME TypeOK, NamesInv, UNCHANGED <<surfaces, nextOwnerEpoch>>,
           job' = job \/ job'.op # "detach"
    PROVE  NamesInv'
BY QuietNames DEF NamesInv, NamedApart

(* Each surface may be handed one name, counted if it is in use. *)
LEMMA RenamedStep ==
    ASSUME TypeOK, NamesInv, DOMAIN surfaces' \subseteq DOMAIN surfaces, CountEpochs(1),
           \A s \in DOMAIN surfaces' :
               Renamed(surfaces'[s], surfaces[s], <<nextOwnerEpoch + 1, s>>),
           job' = job \/ job'.op # "detach"
    PROVE  NamesInv'
<1>1. nextOwnerEpoch \in Nat /\ nextOwnerEpoch' \in Nat /\ nextOwnerEpoch <= nextOwnerEpoch'
  <2>1. nextOwnerEpoch \in Nat
    BY TypeParts DEF Numbers
  <2> QED BY <2>1 DEF CountEpochs
<1>2. ASSUME NEW s \in DOMAIN surfaces', NEW e \in Names(surfaces'[s])
      PROVE  \/ e \in Names(surfaces[s])
             \/ e = NoEpoch
             \/ /\ e \in Handed(s, nextOwnerEpoch, nextOwnerEpoch + 1)
                /\ nextOwnerEpoch + 1 <= nextOwnerEpoch'
  <2>1. CASE e = <<nextOwnerEpoch + 1, s>>
    <3>1. surfaces'[s].owner.epoch[1] = nextOwnerEpoch + 1
      BY <1>2, <2>1 DEF Renamed
    <3>2. nextOwnerEpoch' = nextOwnerEpoch + 1
      BY <1>1, <3>1 DEF CountEpochs
    <3>3. e \in Handed(s, nextOwnerEpoch, nextOwnerEpoch + 1)
      BY <1>1, <2>1 DEF Handed
    <3> QED BY <1>1, <3>2, <3>3
  <2> QED BY <1>2, <2>1 DEF Renamed
<1> QED BY <1>1, <1>2, NamesStep DEF Renamed

-----------------------------------------------------------------------------
(* One lemma per action. *)

LEMMA RecordAt ==
    ASSUME TypeOK, NamesInv, NEW s \in attached
    PROVE  /\ GoodRecord(surfaces[s]) /\ s \in Surfaces
           /\ Distinct(surfaces[s]) /\ nextOwnerEpoch \in Nat
           /\ <<nextOwnerEpoch + 1, s>> \in Epochs
           /\ <<nextOwnerEpoch + 1, s>> \notin Names(surfaces[s])
           /\ <<nextOwnerEpoch + 1, s>> # NoEpoch
<1>1. GoodRecord(surfaces[s]) /\ s \in Surfaces /\ nextOwnerEpoch \in Nat
  BY TypeParts, GoodAt DEF attached, Numbers
<1>2. Distinct(surfaces[s]) /\ \A e \in Names(surfaces[s]) : e[1] <= nextOwnerEpoch
  BY DEF NamesInv, NamedApart, attached
<1> QED BY <1>1, <1>2, NewEpoch, EpochTypes

(* A surface that the step does not touch. *)
LEMMA KeptNames ==
    ASSUME TypeOK, NamesInv, NEW s \in attached
    PROVE  Renamed(surfaces[s], surfaces[s], <<nextOwnerEpoch + 1, s>>)
BY RecordAt, SameNames

LEMMA RefuseNames ==
    ASSUME TypeOK, NamesInv, NEW rearm, Refuse(rearm)
    PROVE  NamesInv'
BY StillNames, JobsApart DEF Refuse, Return

LEMMA AfterRemovalNames ==
    ASSUME NEW srf, GoodSurfaces(srf), NEW evs, GoodMail(evs), NEW id, NEW n \in Nat,
           NEW s \in DOMAIN srf, Distinct(srf[s]), <<n, s>> \notin Names(srf[s]),
           <<n, s>> # NoEpoch
    PROVE  Renamed(AfterRemoval(srf, evs, id, n)[s], srf[s], <<n, s>>)
<1> DEFINE r == srf[s]
           p == [r EXCEPT !.restoration = {f \in @ : f.owner.event # id}]
           q == RestoreNext(p, s, Without(evs, id), <<n, s>>)
<1>1. AfterRemoval(srf, evs, id, n)[s] = IF p.owner.event = id THEN q ELSE p
  BY DEF AfterRemoval
<1>2. GoodRecord(r) /\ s \in Surfaces /\ <<n, s>> \in Epochs
  BY GoodAt, EpochTypes
<1>3. p.owner = r.owner /\ p.restoration \subseteq r.restoration
  BY <1>2 DEF GoodRecord, Records
<1>4. GoodRecord(p)
  <2>1. IsFiniteSet({f \in r.restoration : f.owner.event # id})
    BY <1>2, FS_Subset DEF GoodRecord
  <2> QED BY <1>2, <2>1 DEF GoodRecord, Records
<1>5. Distinct(r) /\ <<n, s>> \notin Names(r)
  OBVIOUS
<1> HIDE DEF p, r
<1>6. Renamed(p, r, <<n, s>>)
  BY <1>3, <1>5, SameNames
<1>7. Names(p) \subseteq Names(r)
  BY <1>3 DEF Names
<1>8. Renamed(q, p, <<n, s>>)
  <2>1. GoodMail(Without(evs, id))
    BY WithoutType
  <2>2. Distinct(p) /\ <<n, s>> \notin Names(p)
    BY <1>5, <1>6, <1>7 DEF Renamed
  <2> DEFINE next == Without(evs, id)
             epoch == <<n, s>>
  <2>3. GoodMail(next) /\ epoch \in Epochs /\ epoch \notin Names(p) /\ epoch # NoEpoch
    BY <1>2, <2>1, <2>2
  <2>4. q = RestoreNext(p, s, next, epoch)
    OBVIOUS
  <2> HIDE DEF q, next, epoch
  <2>5. Renamed(q, p, epoch)
    BY <1>2, <1>4, <2>2, <2>3, <2>4, RestoredNames
  <2> QED BY <2>5 DEF epoch
<1> HIDE DEF q
<1>9. Renamed(q, r, <<n, s>>)
  BY <1>7, <1>8 DEF Renamed
<1> QED BY <1>1, <1>6, <1>9 DEF r

(* What a surface shows after a projection is the new event or what it was. *)
LEMMA AfterProjectionNames ==
    ASSUME NEW srf, GoodSurfaces(srf), NEW id, NEW e, NEW n \in Nat,
           NEW s \in DOMAIN srf, Distinct(srf[s]), <<n, s>> \notin Names(srf[s])
    PROVE  /\ Renamed(AfterProjection(srf, id, e, n)[s], srf[s], <<n, s>>)
           /\ \/ AfterProjection(srf, id, e, n)[s] = srf[s]
              \/ AfterProjection(srf, id, e, n)[s].owner.epoch = <<n, s>>
<1> DEFINE r == srf[s]
           q == EnterEvent(CaptureCurrent(r), id, e, <<n, s>>)
           next == AfterProjection(srf, id, e, n)[s]
<1>1. next = r \/ next = q
  BY DEF AfterProjection
<1>2. GoodRecord(r) /\ GoodRecord(CaptureCurrent(r)) /\ Distinct(r) /\ <<n, s>> \notin Names(r)
  BY GoodAt, CaptureCurrentType
<1> HIDE DEF r, next
<1>3. Renamed(r, r, <<n, s>>)
  BY <1>2, SameNames
<1>4. q.owner.epoch = <<n, s>> /\ q.restoration = CaptureCurrent(r).restoration
  BY <1>2, EnteredEpoch, EnteredKind
<1> HIDE DEF q
<1>5. Renamed(q, r, <<n, s>>)
  BY <1>2, <1>4, EnteredNames
<1> QED BY <1>1, <1>3, <1>4, <1>5 DEF r, next

LEMMA RenewedNames ==
    ASSUME NEW srf, GoodSurfaces(srf), NEW id, NEW n \in Nat, NEW s \in DOMAIN srf
    PROVE  /\ Renewed(srf, id, n)[s].owner.epoch = srf[s].owner.epoch
           /\ Renewed(srf, id, n)[s].restoration = srf[s].restoration
<1>1. srf[s] \in Records /\ srf[s].owner \in Owners
  BY GoodAt DEF GoodRecord, Records
<1> QED BY <1>1 DEF Renewed, Records, Owners

LEMMA RemovalNames ==
    ASSUME TypeOK, NamesInv, NEW id,
           surfaces' = AfterRemoval(surfaces, transients, id, nextOwnerEpoch + 1),
           CountEpochs(1), job' = job \/ job'.op # "detach"
    PROVE  NamesInv'
<1>1. GoodSurfaces(surfaces) /\ GoodMail(transients) /\ nextOwnerEpoch + 1 \in Nat
  BY TypeParts DEF Mailbox, Numbers
<1>2. DOMAIN surfaces' = DOMAIN surfaces
  BY DEF AfterRemoval
<1>3. ASSUME NEW s \in DOMAIN surfaces'
      PROVE  Renamed(surfaces'[s], surfaces[s], <<nextOwnerEpoch + 1, s>>)
  BY <1>1, <1>2, RecordAt, AfterRemovalNames DEF attached
<1> QED BY <1>2, <1>3, RenamedStep

LEMMA RemoveDoomedNames ==
    ASSUME TypeOK, NamesInv, RemoveDoomed
    PROVE  NamesInv'
BY RemovalNames DEF RemoveDoomed

LEMMA InvalidateTransientNames ==
    ASSUME TypeOK, NamesInv, NEW source, InvalidateTransient(source)
    PROVE  NamesInv'
<1>1. CASE PendingOf(source) = {}
  BY <1>1, RefuseNames DEF InvalidateTransient
<1>2. CASE PendingOf(source) # {}
  BY <1>2, RemovalNames, JobsApart DEF InvalidateTransient, Complete, Return
<1> QED BY <1>1, <1>2

(* One surface changes. *)
LEMMA OneNames ==
    ASSUME TypeOK, NamesInv, NEW s \in attached, NEW q,
           surfaces' = [surfaces EXCEPT ![s] = q],
           Renamed(q, surfaces[s], <<nextOwnerEpoch + 1, s>>),
           CountEpochs(1), job' = job \/ job'.op # "detach"
    PROVE  NamesInv'
<1>1. DOMAIN surfaces' = DOMAIN surfaces
  OBVIOUS
<1>2. \A t \in DOMAIN surfaces' : surfaces'[t] = IF t = s THEN q ELSE surfaces[t]
  BY DEF attached
<1>3. ASSUME NEW t \in DOMAIN surfaces'
      PROVE  Renamed(surfaces'[t], surfaces[t], <<nextOwnerEpoch + 1, t>>)
  BY <1>1, <1>2, KeptNames DEF attached
<1> QED BY <1>1, <1>3, RenamedStep

LEMMA OneKeepsNames ==
    ASSUME TypeOK, NamesInv, NEW s \in attached, NEW q,
           surfaces' = [surfaces EXCEPT ![s] = q],
           q.owner.epoch = surfaces[s].owner.epoch, q.restoration = surfaces[s].restoration,
           nextOwnerEpoch' = nextOwnerEpoch, job' = job \/ job'.op # "detach"
    PROVE  NamesInv'
<1>1. DOMAIN surfaces' = DOMAIN surfaces
  OBVIOUS
<1>2. \A t \in DOMAIN surfaces' : surfaces'[t] = IF t = s THEN q ELSE surfaces[t]
  BY DEF attached
<1>3. Distinct(q) /\ Names(q) = Names(surfaces[s])
  BY RecordAt DEF Distinct, Names
<1>4. \A t \in DOMAIN surfaces' :
         /\ Distinct(surfaces'[t])
         /\ Names(surfaces'[t]) \subseteq Names(surfaces[t]) \cup {NoEpoch}
  BY <1>1, <1>2, <1>3, RecordAt DEF attached
<1> QED BY <1>1, <1>4, QuietNames

LEMMA AcknowledgeNames ==
    ASSUME TypeOK, NamesInv, NEW call, AcknowledgeVisible(call)
    PROVE  NamesInv'
<1>1. CASE ~IsCurrent(call)
  BY <1>1, RefuseNames DEF AcknowledgeVisible
<1>2. CASE IsCurrent(call)
  <2> DEFINE s == call.surface
             q == Acknowledged(surfaces[s])
  <2>1. /\ s \in attached
        /\ surfaces' = [surfaces EXCEPT ![s] = q]
        /\ nextOwnerEpoch' = nextOwnerEpoch
        /\ job' = NoJob
    BY <1>2 DEF AcknowledgeVisible, IsCurrent, Complete, Return
  <2>2. q.owner.epoch = surfaces[s].owner.epoch /\ q.restoration = surfaces[s].restoration
    BY <2>1, RecordAt DEF Acknowledged, GoodRecord, Records, Owners
  <2> HIDE DEF q, s
  <2> QED BY <2>1, <2>2, OneKeepsNames, JobsApart
<1> QED BY <1>1, <1>2

LEMMA AskFocusNames ==
    ASSUME NEW r, GoodRecord(r)
    PROVE  /\ AskFocus(r).owner.epoch = r.owner.epoch
           /\ AskFocus(r).restoration = r.restoration
BY DEF AskFocus, GoodRecord, Records, Owners

LEMMA AfterIntentNames ==
    ASSUME NEW old, GoodRecord(old), Distinct(old), NEW s \in Surfaces, NEW value \in BOOLEAN,
           NEW explicit \in BOOLEAN, NEW epoch \in Epochs, epoch \notin Names(old),
           epoch # NoEpoch, GoodMail(transients)
    PROVE  Renamed(AfterIntent(old, s, value, explicit, epoch), old, epoch)
<1> DEFINE r == WithIntent(old, value, explicit)
           c == CaptureCurrent(r)
           shown == [EnterOwner(c, "expanded", epoch, 1) EXCEPT
                        !.owner.focusPending = r.explicit, !.owner.focusTarget = r.explicit]
           restored == RestoreNext(r, s, transients, epoch)
           ready == [r EXCEPT !.owner.focusTarget = TRUE]
           closed == [r EXCEPT !.owner.focusPending = FALSE, !.owner.focusTarget = FALSE]
           next == AfterIntent(old, s, value, explicit, epoch)
<1>1. GoodRecord(r) /\ r.owner = old.owner /\ r.restoration = old.restoration
  BY DEF WithIntent, GoodRecord, Records
<1>2. \/ next = shown \/ next = restored \/ next = AskFocus(ready) \/ next = closed \/ next = r
  BY DEF AfterIntent
<1> HIDE DEF r, next
<1>3. Names(r) = Names(old) /\ Distinct(r)
  BY <1>1 DEF Names, Distinct
<1>4. ASSUME NEW q, q.owner.epoch = r.owner.epoch, q.restoration = r.restoration
      PROVE  Renamed(q, old, epoch)
  BY <1>1, <1>4, SameNames
<1>5. Renamed(shown, old, epoch)
  <2>1. GoodRecord(c)
    BY <1>1, CaptureCurrentType
  <2>2. shown.owner.epoch = epoch /\ shown.restoration = c.restoration
    BY <2>1 DEF EnterOwner, OwnerRecord, GoodRecord, Records
  <2> HIDE DEF shown
  <2>3. Renamed(shown, r, epoch)
    BY <1>1, <1>3, <2>2, EnteredNames
  <2> QED BY <1>3, <2>3 DEF Renamed
<1>6. Renamed(restored, old, epoch)
  <2>1. Renamed(restored, r, epoch)
    BY <1>1, <1>3, RestoredNames
  <2> HIDE DEF restored
  <2> QED BY <1>3, <2>1 DEF Renamed
<1>7. Renamed(AskFocus(ready), old, epoch)
  <2>1. /\ GoodRecord(ready)
        /\ ready.owner.epoch = r.owner.epoch /\ ready.restoration = r.restoration
    BY <1>1 DEF GoodRecord, Records, Owners
  <2> HIDE DEF ready
  <2> QED BY <1>4, <2>1, AskFocusNames
<1>8. Renamed(closed, old, epoch)
  <2>1. closed.owner.epoch = r.owner.epoch /\ closed.restoration = r.restoration
    BY <1>1 DEF GoodRecord, Records, Owners
  <2> HIDE DEF closed
  <2> QED BY <1>4, <2>1
<1>9. Renamed(r, old, epoch)
  BY <1>4
<1> QED BY <1>2, <1>5, <1>6, <1>7, <1>8, <1>9 DEF next

LEMMA SetBaselineIntentNames ==
    ASSUME TypeOK, NamesInv, NEW call \in Jobs, SetBaselineIntent(call)
    PROVE  NamesInv'
<1>1. CASE call.surface \notin attached
  BY <1>1, RefuseNames DEF SetBaselineIntent
<1>2. CASE call.surface \in attached
  <2> DEFINE s == call.surface
             epoch == <<nextOwnerEpoch + 1, s>>
             q == AfterIntent(surfaces[s], s, call.value, call.explicit, epoch)
  <2>1. /\ s \in attached
        /\ surfaces' = [surfaces EXCEPT ![s] = q]
        /\ CountEpochs(1)
        /\ job' = NoJob
    BY <1>2 DEF SetBaselineIntent, Complete, Return
  <2>2. call.value \in BOOLEAN /\ call.explicit \in BOOLEAN
    BY KnownJobs DEF SetBaselineIntent
  <2> HIDE DEF s
  <2>3. GoodMail(transients)
    BY TypeParts DEF Mailbox
  <2>4. Renamed(q, surfaces[s], epoch)
    BY <2>1, <2>2, <2>3, RecordAt, AfterIntentNames
  <2> HIDE DEF q
  <2> QED BY <2>1, <2>4, OneNames, JobsApart
<1> QED BY <1>1, <1>2

LEMMA RenewTransientNames ==
    ASSUME TypeOK, NamesInv, NEW source \in Sources, NEW n \in Nat, RenewTransient(source, n),
           job'.op # "detach"
    PROVE  NamesInv'
<1>1. PICK id, e : /\ surfaces' = AfterProjection(Renewed(surfaces, id, n), id, e, nextOwnerEpoch + 1)
                   /\ CountEpochs(1)
                   /\ id \in DOMAIN transients
  BY DEF RenewTransient, PendingOf
<1> DEFINE srf == Renewed(surfaces, id, n)
<1>2. GoodSurfaces(surfaces) /\ nextOwnerEpoch + 1 \in Nat
  BY TypeParts DEF Numbers
<1>3. GoodSurfaces(srf) /\ DOMAIN srf = DOMAIN surfaces
  <2>1. GoodSurfaces(srf)
    BY <1>2, RenewedType
  <2>2. DOMAIN srf = DOMAIN surfaces
    BY DEF Renewed
  <2> QED BY <2>1, <2>2
<1>4. \A s \in DOMAIN srf : /\ srf[s].owner.epoch = surfaces[s].owner.epoch
                            /\ srf[s].restoration = surfaces[s].restoration
  BY <1>2, <1>3, RenewedNames
<1> HIDE DEF srf
<1>5. DOMAIN surfaces' = DOMAIN surfaces
  BY <1>1, <1>3 DEF AfterProjection, srf
<1>6. ASSUME NEW s \in DOMAIN surfaces'
      PROVE  Renamed(surfaces'[s], surfaces[s], <<nextOwnerEpoch + 1, s>>)
  <2>1. Names(srf[s]) = Names(surfaces[s])
    BY <1>3, <1>4, <1>5 DEF Names
  <2>2. Distinct(surfaces[s]) /\ <<nextOwnerEpoch + 1, s>> \notin Names(surfaces[s])
    BY <1>5, RecordAt DEF attached
  <2>3. Distinct(srf[s])
    BY <1>3, <1>4, <1>5, <2>2 DEF Distinct
  <2>4. Renamed(surfaces'[s], srf[s], <<nextOwnerEpoch + 1, s>>)
    BY <1>1, <1>2, <1>3, <1>5, <2>1, <2>2, <2>3, AfterProjectionNames DEF srf
  <2> QED BY <2>1, <2>4 DEF Renamed
<1> QED BY <1>1, <1>5, <1>6, RenamedStep

(* The names of a surface after two steps that hand out one each. *)
LEMMA TwiceRenamed ==
    ASSUME NEW r, NEW p, NEW q, NEW n \in Nat, NEW s, Renamed(p, r, <<n + 1, s>>),
           Renamed(q, p, <<n + 2, s>>), q = p \/ q.owner.epoch = <<n + 2, s>>,
           NEW e \in Names(q)
    PROVE  \/ e \in Names(r) \/ e = NoEpoch
           \/ e \in Handed(s, n, n + 2) /\ q.owner.epoch[1] \in {n + 1, n + 2}
<1>1. <<n + 1, s>> \in Handed(s, n, n + 2) /\ <<n + 2, s>> \in Handed(s, n, n + 2)
  BY DEF Handed
<1>2. CASE e = <<n + 2, s>>
  <2>1. q.owner.epoch = <<n + 2, s>>
    BY <1>2 DEF Renamed
  <2> QED BY <1>1, <1>2, <2>1
<1>3. CASE e = <<n + 1, s>>
  <2>1. q.owner.epoch = <<n + 1, s>> \/ q.owner.epoch = <<n + 2, s>>
    BY <1>3 DEF Renamed
  <2> QED BY <1>1, <1>3, <2>1
<1> QED BY <1>2, <1>3 DEF Renamed

LEMMA AdmitTransientNames ==
    ASSUME TypeOK, NamesInv, NEW source \in Sources, NEW n, AdmitTransient(source, n),
           job'.op # "detach"
    PROVE  NamesInv'
<1> DEFINE m == nextOwnerEpoch
<1>1. GoodSurfaces(surfaces) /\ GoodMail(transients) /\ m \in Nat /\ m + 1 \in Nat /\ m + 2 \in Nat
  BY TypeParts DEF Mailbox, Numbers
<1>2. PICK e : \/ Admit(AfterRemoval(surfaces, transients, Victim, m + 1),
                        Without(transients, Victim), e, 2)
               \/ Admit(surfaces, transients, e, 1)
  BY DEF AdmitTransient
<1>3. CASE Admit(surfaces, transients, e, 1)
  <2>1. /\ surfaces' = AfterProjection(surfaces, nextAdmission + 1, e, m + 1)
        /\ CountEpochs(1)
    BY <1>3 DEF Admit
  <2>2. DOMAIN surfaces' = DOMAIN surfaces
    BY <2>1 DEF AfterProjection
  <2>3. ASSUME NEW s \in DOMAIN surfaces'
        PROVE  Renamed(surfaces'[s], surfaces[s], <<m + 1, s>>)
    BY <1>1, <2>1, <2>2, RecordAt, AfterProjectionNames DEF attached
  <2> QED BY <2>1, <2>2, <2>3, RenamedStep
<1>4. CASE Admit(AfterRemoval(surfaces, transients, Victim, m + 1),
                 Without(transients, Victim), e, 2)
  <2> DEFINE victim == Victim
             srf == AfterRemoval(surfaces, transients, victim, m + 1)
  <2>1. /\ surfaces' = AfterProjection(srf, nextAdmission + 1, e, m + 2)
        /\ CountEpochs(2)
    BY <1>4 DEF Admit
  <2> HIDE DEF victim
  <2>2. GoodSurfaces(srf) /\ DOMAIN srf = DOMAIN surfaces
    BY <1>1, AfterRemovalType
  <2>3. \A s \in DOMAIN surfaces : Renamed(srf[s], surfaces[s], <<m + 1, s>>)
    BY <1>1, RecordAt, AfterRemovalNames DEF attached
  <2> HIDE DEF srf
  <2>4. DOMAIN surfaces' = DOMAIN surfaces
    BY <2>1, <2>2 DEF AfterProjection
  <2>5. ASSUME NEW s \in DOMAIN surfaces'
        PROVE  <<m + 2, s>> \notin Names(srf[s])
    <3>1. /\ <<m + 2, s>> \notin Names(surfaces[s])
          /\ <<m + 2, s>> # NoEpoch /\ <<m + 2, s>> # <<m + 1, s>>
      <4>1. \A x \in Names(surfaces[s]) : x[1] <= m
        BY <2>4 DEF NamesInv, NamedApart
      <4>2. ~(m + 2 <= m) /\ m + 2 # 0 /\ m + 2 # m + 1
        BY <1>1
      <4> QED BY <4>1, <4>2 DEF NoEpoch
    <3> QED BY <2>3, <2>4, <3>1 DEF Renamed
  <2>6. ASSUME NEW s \in DOMAIN surfaces'
        PROVE  /\ Renamed(surfaces'[s], srf[s], <<m + 2, s>>)
               /\ surfaces'[s] = srf[s] \/ surfaces'[s].owner.epoch = <<m + 2, s>>
    <3>1. Distinct(srf[s])
      BY <2>3, <2>4 DEF Renamed
    <3> QED BY <1>1, <2>1, <2>2, <2>4, <2>5, <3>1, AfterProjectionNames
  <2>7. m <= nextOwnerEpoch' /\ nextOwnerEpoch' \in Nat
    BY <1>1, <2>1 DEF CountEpochs
  <2>8. ASSUME NEW s \in DOMAIN surfaces', NEW x \in Names(surfaces'[s])
        PROVE  x \in Names(surfaces[s]) \/ x = NoEpoch
               \/ (x \in Handed(s, m, m + 2) /\ m + 2 <= nextOwnerEpoch')
    <3>1. surfaces'[s].owner.epoch[1] \in {m + 1, m + 2} => nextOwnerEpoch' = m + 2
      BY <1>1, <2>1 DEF CountEpochs
    <3> DEFINE r == surfaces[s]
               p == srf[s]
               q == surfaces'[s]
    <3>2. /\ Renamed(p, r, <<m + 1, s>>) /\ Renamed(q, p, <<m + 2, s>>)
          /\ (q = p \/ q.owner.epoch = <<m + 2, s>>)
          /\ x \in Names(q)
      BY <2>3, <2>4, <2>6, <2>8
    <3> HIDE DEF r, p, q, m
    <3>3. \/ x \in Names(r) \/ x = NoEpoch
          \/ x \in Handed(s, m, m + 2) /\ q.owner.epoch[1] \in {m + 1, m + 2}
      BY <1>1, <3>2, TwiceRenamed
    <3>4. nextOwnerEpoch' = m + 2 => m + 2 <= nextOwnerEpoch'
      BY <1>1
    <3> QED BY <3>1, <3>3, <3>4 DEF q, r
  <2> QED BY <2>4, <2>6, <2>7, <2>8, NamesStep DEF Renamed
<1> QED BY <1>2, <1>3, <1>4

LEMMA EndedTaskNames ==
    ASSUME NEW r, GoodRecord(r), Distinct(r), NEW s \in Surfaces, NEW epoch,
           NEW newEpoch \in Epochs, newEpoch \notin Names(r), newEpoch # NoEpoch,
           GoodMail(transients)
    PROVE  Renamed(EndedTask(r, s, epoch, newEpoch), r, newEpoch)
<1> DEFINE p == [r EXCEPT !.restoration = {f \in @ : ~IsTask(f.owner, epoch)}]
           q == RestoreNext(r, s, transients, newEpoch)
<1>1. EndedTask(r, s, epoch, newEpoch) = IF IsTask(r.owner, epoch) THEN q ELSE p
  BY DEF EndedTask
<1>2. p.owner = r.owner /\ p.restoration \subseteq r.restoration
  BY DEF GoodRecord, Records
<1> HIDE DEF p
<1>3. Renamed(p, r, newEpoch)
  BY <1>2, SameNames
<1>4. Renamed(q, r, newEpoch)
  BY RestoredNames
<1> QED BY <1>1, <1>3, <1>4

LEMMA FinishInteractiveNames ==
    ASSUME TypeOK, NamesInv, NEW call, FinishInteractive(call)
    PROVE  NamesInv'
<1>1. CASE ~\E s \in attached : HoldsTask(surfaces[s], call.epoch)
  BY <1>1, RefuseNames DEF FinishInteractive
<1>2. CASE \E s \in attached : HoldsTask(surfaces[s], call.epoch)
  <2>1. PICK s \in attached :
          surfaces' = [surfaces EXCEPT ![s] =
              EndedTask(surfaces[s], s, call.epoch, <<nextOwnerEpoch + 1, s>>)]
    BY <1>2 DEF FinishInteractive
  <2>2. CountEpochs(1) /\ job' = NoJob
    BY <1>2 DEF FinishInteractive, Complete, Return
  <2>3. GoodMail(transients)
    BY TypeParts DEF Mailbox
  <2> DEFINE q == EndedTask(surfaces[s], s, call.epoch, <<nextOwnerEpoch + 1, s>>)
  <2>4. Renamed(q, surfaces[s], <<nextOwnerEpoch + 1, s>>)
    BY <2>3, RecordAt, EndedTaskNames
  <2>5. surfaces' = [surfaces EXCEPT ![s] = q]
    BY <2>1
  <2> HIDE DEF q
  <2> QED BY <2>2, <2>4, <2>5, OneNames, JobsApart
<1> QED BY <1>1, <1>2

LEMMA OpenInteractiveNames ==
    ASSUME TypeOK, NamesInv, NEW kind, NEW target, OpenInteractive(kind, target)
    PROVE  NamesInv'
<1>1. target \in attached /\ CountEpochs(1) /\ job' = job
  BY DEF OpenInteractive
<1> DEFINE epoch == <<nextOwnerEpoch + 1, target>>
<1>2. CASE surfaces[target].owner.kind = kind
  <2> DEFINE q == AskFocus(surfaces[target])
  <2>1. surfaces' = [surfaces EXCEPT ![target] = q]
    BY <1>2 DEF OpenInteractive
  <2>2. Renamed(q, surfaces[target], epoch)
    BY <1>1, RecordAt, AskFocusNames, SameNames
  <2> HIDE DEF q
  <2> QED BY <1>1, <2>1, <2>2, OneNames
<1>3. CASE surfaces[target].owner.kind # kind
  <2> DEFINE r == WithoutTasks[target]
             q == EnterOwner(CaptureCurrent(r), kind, epoch, 1)
  <2>1. surfaces' = [WithoutTasks EXCEPT ![target] = q]
    BY <1>3 DEF OpenInteractive, Opened
  <2>2. DOMAIN surfaces' = DOMAIN surfaces
    BY <2>1 DEF WithoutTasks, attached
  <2>3. ASSUME NEW s \in attached
        PROVE  /\ GoodRecord(WithoutTasks[s]) /\ Distinct(WithoutTasks[s])
               /\ Names(WithoutTasks[s]) \subseteq Names(surfaces[s]) \cup {NoEpoch}
               /\ <<nextOwnerEpoch + 1, s>> \notin Names(WithoutTasks[s])
    <3>1. WithoutTasks[s] = surfaces[s] \/ WithoutTasks[s] = ForceIdle(surfaces[s])
      BY DEF WithoutTasks
    <3> QED BY <3>1, RecordAt, IdleNames, ForceIdleType
  <2>4. q.owner.epoch = epoch /\ q.restoration = CaptureCurrent(r).restoration
    <3>1. GoodRecord(CaptureCurrent(r))
      BY <1>1, <2>3, CaptureCurrentType
    <3> QED BY <3>1, EnteredEpoch, EnteredKind
  <2>5. Renamed(q, r, epoch)
    <3>1. GoodRecord(r) /\ Distinct(r) /\ epoch \notin Names(r)
      BY <1>1, <2>3
    <3> HIDE DEF q, r, epoch
    <3> QED BY <2>4, <3>1, EnteredNames
  <2> HIDE DEF q
  <2>6. Renamed(q, surfaces[target], epoch)
    BY <1>1, <2>3, <2>5 DEF Renamed
  <2>7. ASSUME NEW s \in DOMAIN surfaces'
        PROVE  Renamed(surfaces'[s], surfaces[s], <<nextOwnerEpoch + 1, s>>)
    <3>1. CASE s = target
      BY <1>1, <2>1, <2>2, <2>6, <3>1 DEF WithoutTasks, attached
    <3>2. CASE s # target
      <4>1. surfaces'[s] = WithoutTasks[s] /\ s \in attached
        BY <2>1, <2>2, <3>2 DEF WithoutTasks, attached
      <4> QED BY <2>3, <4>1 DEF Renamed
    <3> QED BY <3>1, <3>2
  <2> QED BY <1>1, <2>2, <2>7, RenamedStep
<1> QED BY <1>2, <1>3

LEMMA ResetToIdleNames ==
    ASSUME TypeOK, NamesInv, NEW s, ResetToIdle(s)
    PROVE  NamesInv'
<1>1. /\ s \in attached
      /\ surfaces' = [surfaces EXCEPT ![s] = ForceIdle(surfaces[s])]
      /\ nextOwnerEpoch' = nextOwnerEpoch /\ job' = NoJob
  BY DEF ResetToIdle, Complete, Return
<1>2. DOMAIN surfaces' = DOMAIN surfaces
  BY <1>1
<1>3. \A t \in DOMAIN surfaces' :
         surfaces'[t] = IF t = s THEN ForceIdle(surfaces[s]) ELSE surfaces[t]
  BY <1>1 DEF attached
<1>4. \A t \in DOMAIN surfaces' :
         /\ Distinct(surfaces'[t])
         /\ Names(surfaces'[t]) \subseteq Names(surfaces[t]) \cup {NoEpoch}
  BY <1>1, <1>2, <1>3, RecordAt, IdleNames DEF attached
<1> QED BY <1>1, <1>2, <1>4, QuietNames, JobsApart

(* A task moves to a surface on which its name is new, under that name.     *)
LEMMA MovedNames ==
    ASSUME NEW r, GoodRecord(r), Distinct(r), NEW kind, NEW epoch, NEW n,
           epoch \in Names(r) => epoch = NoEpoch
    PROVE  /\ Distinct(EnterOwner(CaptureCurrent(r), kind, epoch, n))
           /\ Names(EnterOwner(CaptureCurrent(r), kind, epoch, n)) \subseteq Names(r) \cup {epoch}
<1> DEFINE q == EnterOwner(CaptureCurrent(r), kind, epoch, n)
           frame == [depth |-> NextDepth(r.restoration), owner |-> r.owner]
<1>1. q.owner.epoch = epoch /\ q.restoration = CaptureCurrent(r).restoration
  BY CaptureCurrentType, EnteredEpoch, EnteredKind
<1>2. frame.owner = r.owner
  OBVIOUS
<1>3. q.restoration = r.restoration \/ q.restoration = r.restoration \cup {frame}
  BY <1>1, Captured
<1> HIDE DEF q, frame
<1>4. Distinct(q) /\ Names(q) \subseteq Names(r) \cup {epoch}
  <2>1. CASE q.restoration = r.restoration
    BY <1>1, <2>1 DEF Distinct, Names
  <2>2. CASE q.restoration = r.restoration \cup {frame}
    BY <1>1, <1>2, <2>2 DEF Distinct, Names
  <2> QED BY <1>3, <2>1, <2>2
<1> QED BY <1>4 DEF q

LEMMA PrepareSurfaceDisableNames ==
    ASSUME TypeOK, NamesInv, NEW s, NEW replacement, PrepareSurfaceDisable(s, replacement)
    PROVE  NamesInv'
<1> DEFINE task == surfaces[s].owner
           q == EnterOwner(CaptureCurrent(surfaces[replacement]), task.kind, task.epoch,
                           task.revision + 1)
           n == nextOwnerEpoch
<1>1. /\ s \in attached /\ replacement \in attached /\ s # replacement
      /\ surfaces' = [surfaces EXCEPT ![s] = ForceIdle(surfaces[s]), ![replacement] = q]
      /\ nextOwnerEpoch' = n /\ job' = job /\ job = NoJob
  BY DEF PrepareSurfaceDisable, MayCall
<1>2. /\ GoodRecord(surfaces[replacement]) /\ Distinct(surfaces[replacement])
      /\ GoodSurfaces(surfaces) /\ n \in Nat
  BY <1>1, RecordAt, TypeParts DEF Numbers
<1>3. NamedApart(surfaces, n)
  BY DEF NamesInv
<1>4. task.epoch \in Names(surfaces[s])
  BY DEF Names
<1>5. \A t \in attached : t # s /\ task.epoch \in Names(surfaces[t]) => task.epoch = NoEpoch
  BY <1>1, <1>3, <1>4 DEF NamedApart, attached
<1>6. Distinct(q) /\ Names(q) \subseteq Names(surfaces[replacement]) \cup {task.epoch}
  BY <1>1, <1>2, <1>5, MovedNames
<1>7. task.epoch \in Epochs /\ task.epoch[1] <= n
  <2>1. GoodRecord(surfaces[s])
    BY <1>1, RecordAt
  <2> QED BY <1>1, <1>3, <1>4, <2>1, NamesType DEF NamedApart, attached
<1>8. DOMAIN surfaces' = DOMAIN surfaces
  BY <1>1
<1>9. \A t \in DOMAIN surfaces : surfaces'[t] = IF t = replacement THEN q
                                                ELSE IF t = s THEN ForceIdle(surfaces[s])
                                                ELSE surfaces[t]
  BY <1>1 DEF attached
<1> HIDE DEF q
<1>10. Distinct(ForceIdle(surfaces[s])) /\ Names(ForceIdle(surfaces[s])) = {NoEpoch}
  BY <1>1, RecordAt, IdleNames
<1> DEFINE moved == task.epoch
           next == surfaces'
<1>11. \A t \in DOMAIN next : Distinct(next[t])
  BY <1>1, <1>6, <1>8, <1>9, <1>10, RecordAt DEF attached
<1>12. \A t \in DOMAIN next : \A e \in Names(next[t]) :
          e \in Names(surfaces[t]) \/ e = NoEpoch \/ (t = replacement /\ e = moved)
  BY <1>6, <1>8, <1>9, <1>10
<1>13. \A t \in DOMAIN next : t # replacement /\ moved \in Names(next[t]) => moved = NoEpoch
  BY <1>5, <1>8, <1>9, <1>10 DEF attached
<1> HIDE DEF next, moved, n
<1>14. NamedApart(next, n)
  <2>1. n <= n /\ moved \in Epochs /\ moved[1] <= n /\ DOMAIN next \subseteq DOMAIN surfaces
    BY <1>2, <1>7, <1>8 DEF moved, next
  <2> QED BY <1>2, <1>3, <1>11, <1>12, <1>13, <2>1, ApartStep
<1> QED BY <1>1, <1>14, JobsApart DEF NamesInv, next, n

LEMMA RehomedNames ==
    ASSUME NEW srf, GoodSurfaces(srf), NEW target, NEW capture \in BOOLEAN,
           NEW s \in DOMAIN srf, Distinct(srf[s]),
           <<nextOwnerEpoch + 1, s>> \notin Names(srf[s]), <<nextOwnerEpoch + 1, s>> # NoEpoch
    PROVE  Renamed(Rehomed(srf, target, capture)[s], srf[s], <<nextOwnerEpoch + 1, s>>)
<1> DEFINE r == srf[s]
           epoch == <<nextOwnerEpoch + 1, s>>
           over == EnterOwner(CaptureCurrent(r), "polkitModal", epoch, 1)
           alone == EnterOwner(ForceIdle(r), "polkitModal", epoch, 1)
           next == Rehomed(srf, target, capture)[s]
<1>1. next = over \/ next = alone \/ next = ForceIdle(r) \/ next = r
  BY DEF Rehomed
<1>2. GoodRecord(r) /\ Distinct(r) /\ epoch \notin Names(r) /\ epoch # NoEpoch
  BY GoodAt
<1>3. over.owner.epoch = epoch /\ over.restoration = CaptureCurrent(r).restoration
  BY <1>2, CaptureCurrentType, EnteredEpoch, EnteredKind
<1>4. alone.owner.epoch = epoch /\ alone.restoration = {}
  BY <1>2, ForceIdleType, IdleNames, EnteredEpoch, EnteredKind
<1> HIDE DEF r, epoch, over, alone, next
<1>5. Renamed(over, r, epoch)
  BY <1>2, <1>3, EnteredNames
<1>6. Renamed(alone, r, epoch)
  BY <1>2, <1>4, AloneNames DEF Renamed
<1>7. Renamed(ForceIdle(r), r, epoch)
  BY <1>2, IdleNames DEF Renamed
<1>8. Renamed(r, r, epoch)
  BY <1>2, SameNames
<1> QED BY <1>1, <1>5, <1>6, <1>7, <1>8 DEF next, r, epoch

LEMMA SyncPolkitModalNames ==
    ASSUME TypeOK, NamesInv, NEW flow, SyncPolkitModal(flow)
    PROVE  NamesInv'
<1>1. CountEpochs(1) /\ job' = NoJob
  BY DEF SyncPolkitModal, Complete, Return
<1>2. GoodSurfaces(surfaces) /\ GoodMail(transients)
  BY TypeParts DEF Mailbox
<1>3. /\ DOMAIN surfaces' = DOMAIN surfaces
      /\ \A s \in attached : Renamed(surfaces'[s], surfaces[s], <<nextOwnerEpoch + 1, s>>)
  <2>1. CASE AppearModal(flow)
    <3>1. surfaces' = surfaces \/ \E target \in attached : surfaces' = Rehomed(surfaces, target, TRUE)
      BY <2>1 DEF AppearModal
    <3>2. CASE surfaces' = surfaces
      BY <3>2, KeptNames
    <3>3. ASSUME NEW target \in attached, surfaces' = Rehomed(surfaces, target, TRUE)
          PROVE  /\ DOMAIN surfaces' = DOMAIN surfaces
                 /\ \A s \in attached :
                       Renamed(surfaces'[s], surfaces[s], <<nextOwnerEpoch + 1, s>>)
      <4>1. DOMAIN surfaces' = DOMAIN surfaces
        BY <3>3 DEF Rehomed
      <4>2. TRUE \in BOOLEAN
        OBVIOUS
      <4> QED BY <1>2, <3>3, <4>1, <4>2, RecordAt, RehomedNames DEF attached
    <3> QED BY <3>1, <3>2, <3>3
  <2>2. CASE RefreshModal(flow)
    <3> DEFINE shown(s) == [surfaces[s] EXCEPT !.owner.revision = @ + 1, !.owner.visible = FALSE,
                                               !.owner.focusPending = TRUE]
    <3>1. DOMAIN surfaces' = DOMAIN surfaces
      BY <2>2 DEF RefreshModal, attached
    <3>2. \A s \in attached : surfaces'[s] = shown(s) \/ surfaces'[s] = surfaces[s]
      BY <2>2 DEF RefreshModal
    <3>3. ASSUME NEW s \in attached
          PROVE  /\ shown(s).owner.epoch = surfaces[s].owner.epoch
                 /\ shown(s).restoration = surfaces[s].restoration
      BY RecordAt DEF GoodRecord, Records, Owners
    <3> HIDE DEF shown
    <3>4. ASSUME NEW s \in attached
          PROVE  Renamed(surfaces'[s], surfaces[s], <<nextOwnerEpoch + 1, s>>)
      BY <3>2, <3>3, RecordAt, SameNames
    <3> QED BY <3>1, <3>4
  <2>3. CASE ReleaseModal(flow)
    <3>1. DOMAIN surfaces' = DOMAIN surfaces
      BY <2>3 DEF ReleaseModal, attached
    <3>2. \A s \in attached :
             \/ surfaces'[s] = RestoreNext(surfaces[s], s, transients, <<nextOwnerEpoch + 1, s>>)
             \/ surfaces'[s] = surfaces[s]
      BY <2>3 DEF ReleaseModal
    <3>3. ASSUME NEW s \in attached
          PROVE  Renamed(surfaces'[s], surfaces[s], <<nextOwnerEpoch + 1, s>>)
      BY <1>2, <3>2, RecordAt, RestoredNames, KeptNames
    <3> QED BY <3>1, <3>3
  <2> QED BY <2>1, <2>2, <2>3 DEF SyncPolkitModal
<1> QED BY <1>1, <1>3, RenamedStep, JobsApart DEF attached

(* A new surface has no name. *)
LEMMA AttachedApart ==
    ASSUME NEW srf, NEW n \in Nat, NamedApart(srf, n), NEW s
    PROVE  NamedApart([t \in DOMAIN srf \cup {s} |-> IF t = s THEN NewRecord ELSE srf[t]], n)
<1> DEFINE next == [t \in DOMAIN srf \cup {s} |-> IF t = s THEN NewRecord ELSE srf[t]]
<1>1. Distinct(NewRecord) /\ Names(NewRecord) = {NoEpoch}
  <2>1. NewRecord.restoration = {} /\ NewRecord.owner = BaselineOwner("idle")
    BY DEF NewRecord
  <2> QED BY <2>1, AloneNames, BaselineEpoch
<1>2. NoEpoch[1] <= n
  BY DEF NoEpoch
<1>3. \A t \in DOMAIN next : next[t] = NewRecord \/ (t \in DOMAIN srf /\ next[t] = srf[t])
  OBVIOUS
<1> HIDE DEF next
<1>4. NamedApart(next, n)
  BY <1>1, <1>2, <1>3 DEF NamedApart
<1> QED BY <1>4 DEF next

LEMMA AttachSurfaceNames ==
    ASSUME TypeOK, NamesInv, NEW s \in Surfaces, AttachSurface(s)
    PROVE  NamesInv'
<1> DEFINE srf == [t \in attached \cup {s} |-> IF t = s THEN NewRecord ELSE surfaces[t]]
           n == nextOwnerEpoch
           m == nextOwnerEpoch'
           next == surfaces'
<1>1. /\ \/ next = srf
         \/ \E target \in DOMAIN srf : next = Rehomed(srf, target, FALSE)
      /\ CountEpochs(1) /\ job' = NoJob
  BY DEF AttachSurface, Complete, Return
<1>2. n \in Nat /\ GoodSurfaces(surfaces) /\ NamedApart(surfaces, n)
  BY TypeParts DEF Numbers, NamesInv
<1>3. NamedApart(srf, n)
  BY <1>2, AttachedApart DEF attached
<1>4. GoodSurfaces(srf)
  <2>1. \A t \in attached \cup {s} : GoodRecord(srf[t])
    BY <1>2, GoodAt, NewRecordType DEF attached
  <2>2. attached \cup {s} \in SUBSET Surfaces
    BY <1>2 DEF GoodSurfaces, attached
  <2>3. srf = [t \in attached \cup {s} |-> srf[t]]
    OBVIOUS
  <2> HIDE DEF srf
  <2> QED BY <2>1, <2>2, <2>3, GoodPointwise
<1> HIDE DEF srf
<1>5. ASSUME NEW t \in DOMAIN srf
      PROVE  /\ Distinct(srf[t]) /\ <<n + 1, t>> \notin Names(srf[t]) /\ <<n + 1, t>> # NoEpoch
             /\ Renamed(srf[t], srf[t], <<n + 1, t>>)
  BY <1>2, <1>3, NewEpoch, SameNames DEF NamedApart
<1>6. /\ DOMAIN next = DOMAIN srf
      /\ \A t \in DOMAIN next : Renamed(next[t], srf[t], <<n + 1, t>>)
  <2>1. CASE next = srf
    BY <1>5, <2>1
  <2>2. ASSUME NEW target \in DOMAIN srf, next = Rehomed(srf, target, FALSE)
        PROVE  /\ DOMAIN next = DOMAIN srf
               /\ \A t \in DOMAIN next : Renamed(next[t], srf[t], <<n + 1, t>>)
    <3>1. DOMAIN next = DOMAIN srf /\ FALSE \in BOOLEAN
      BY <2>2 DEF Rehomed
    <3> QED BY <1>4, <1>5, <2>2, <3>1, RehomedNames
  <2> QED BY <1>1, <2>1, <2>2
<1>7. m \in Nat /\ n <= m
  BY <1>1, <1>2 DEF CountEpochs
<1>8. ASSUME NEW t \in DOMAIN next, NEW e \in Names(next[t])
      PROVE  e \in Names(srf[t]) \/ e = NoEpoch \/ (e \in Handed(t, n, n + 1) /\ n + 1 <= m)
  <2>1. CASE e = <<n + 1, t>>
    <3>1. next[t].owner.epoch[1] = n + 1
      BY <1>6, <1>8, <2>1 DEF Renamed
    <3>2. m = n + 1
      BY <1>1, <1>2, <3>1 DEF CountEpochs
    <3> QED BY <1>2, <2>1, <3>2 DEF Handed
  <2> QED BY <1>6, <1>8, <2>1 DEF Renamed
<1> HIDE DEF n, m, next
<1>9. NamedApart(next, m)
  <2>1. /\ \A t \in DOMAIN next : Distinct(next[t])
        /\ DOMAIN next \subseteq DOMAIN srf
        /\ NoEpoch \in Epochs /\ NoEpoch[1] <= n
    <3>1. NoEpoch \in Epochs /\ NoEpoch[1] <= n
      BY <1>2, EpochTypes DEF NoEpoch
    <3> QED BY <1>6, <3>1 DEF Renamed
  <2>2. 1 \in Nat
    OBVIOUS
  <2> QED BY <1>2, <1>3, <1>4, <1>7, <1>8, <2>1, <2>2, ApartStep
<1> QED BY <1>1, <1>9, JobsApart DEF NamesInv, next, m

LEMMA DetachSurfaceNames ==
    ASSUME TypeOK, NamesInv, NEW s, DetachSurface(s)
    PROVE  NamesInv'
<1> DEFINE n == nextOwnerEpoch
           epoch == surfaces[s].owner.epoch
           next == surfaces'
<1>1. /\ s \in attached
      /\ next = [t \in DOMAIN surfaces \ {s} |-> surfaces[t]]
      /\ job'.task.epoch = epoch
      /\ nextOwnerEpoch' = n
  BY DEF DetachSurface, DetachCall, Restrict, attached
<1>2. NamedApart(surfaces, n)
  BY DEF NamesInv
<1>3. epoch \in Names(surfaces[s])
  BY DEF Names
<1> HIDE DEF n, epoch, next
<1>4. DOMAIN next = DOMAIN surfaces \ {s} /\ \A t \in DOMAIN next : next[t] = surfaces[t]
  BY <1>1
<1>5. NamedApart(next, n)
  BY <1>2, <1>4 DEF NamedApart
<1>6. Carried(epoch, next, n)
  BY <1>1, <1>2, <1>3, <1>4 DEF Carried, NamedApart, attached
<1> QED BY <1>1, <1>5, <1>6 DEF NamesInv, next

(* transferInteractiveAfterLoss: the task keeps the name it had. *)
LEMMA FinishDetachNames ==
    ASSUME TypeOK, NamesInv, FinishDetach
    PROVE  NamesInv'
<1> DEFINE n == nextOwnerEpoch
           m == nextOwnerEpoch'
           moved == job.task.epoch
           next == surfaces'
<1>1. /\ \/ surfaces' = surfaces
         \/ \E target \in attached : surfaces' = Rehomed(surfaces, target, FALSE)
         \/ \E target \in attached : surfaces' = Transferred(target, job.task)
      /\ CountEpochs(1) /\ job' = NoJob /\ job.op = "detach"
  BY DEF FinishDetach, Complete, Return
<1>2. GoodSurfaces(surfaces) /\ n \in Nat /\ NamedApart(surfaces, n) /\ Carried(moved, surfaces, n)
  BY <1>1, TypeParts DEF Numbers, NamesInv
<1>3. CASE surfaces' = surfaces
  BY <1>1, <1>3, KeptNames, RenamedStep, JobsApart DEF attached
<1>4. ASSUME NEW target \in attached, surfaces' = Rehomed(surfaces, target, FALSE)
      PROVE  NamesInv'
  <2>1. DOMAIN surfaces' = DOMAIN surfaces /\ FALSE \in BOOLEAN
    BY <1>4 DEF Rehomed
  <2>2. \A s \in DOMAIN surfaces' :
           Renamed(surfaces'[s], surfaces[s], <<nextOwnerEpoch + 1, s>>)
    BY <1>2, <1>4, <2>1, RecordAt, RehomedNames DEF attached
  <2> QED BY <1>1, <2>1, <2>2, RenamedStep, JobsApart
<1>5. ASSUME NEW target \in attached, surfaces' = Transferred(target, job.task)
      PROVE  NamesInv'
  <2> DEFINE q == EnterOwner(CaptureCurrent(surfaces[target]), job.task.kind, moved, 1)
  <2>1. next = [surfaces EXCEPT ![target] = q]
    BY <1>5 DEF Transferred
  <2>2. GoodRecord(surfaces[target]) /\ Distinct(surfaces[target])
    BY RecordAt
  <2>3. moved \in Names(surfaces[target]) => moved = NoEpoch
    BY <1>2 DEF Carried, attached
  <2>4. moved \in Epochs /\ moved[1] <= n
    <3>1. job.task \in Owners
      BY <1>1, TypeParts, KnownJobs DEF Handling
    <3> QED BY <1>2, <3>1 DEF Owners, Carried
  <2>5. Distinct(q) /\ Names(q) \subseteq Names(surfaces[target]) \cup {moved}
    <3> HIDE DEF moved
    <3> QED BY <2>2, <2>3, MovedNames
  <2> HIDE DEF q
  <2>6. /\ DOMAIN next = DOMAIN surfaces
        /\ \A s \in DOMAIN next : next[s] = IF s = target THEN q ELSE surfaces[s]
    BY <2>1 DEF attached
  <2>7. m \in Nat /\ n <= m
    BY <1>1, <1>2 DEF CountEpochs
  <2> HIDE DEF n, m, moved, next
  <2>8. \A s \in DOMAIN next : Distinct(next[s])
    BY <2>5, <2>6, RecordAt DEF attached
  <2>9. \A s \in DOMAIN next : \A e \in Names(next[s]) :
           e \in Names(surfaces[s]) \/ (s = target /\ e = moved)
    BY <2>5, <2>6
  <2>10. \A s \in DOMAIN next : s # target /\ moved \in Names(next[s]) => moved = NoEpoch
    BY <1>2, <2>6 DEF Carried
  <2>11. NamedApart(next, m)
    BY <1>2, <2>4, <2>6, <2>7, <2>8, <2>9, <2>10, ApartStep
  <2> QED BY <1>1, <2>11, JobsApart DEF NamesInv, next, m
<1> QED BY <1>1, <1>3, <1>4, <1>5

LEMMA InitNames == Init => NamesInv
BY JobsApart DEF Init, NamesInv, NamedApart

LEMMA StepNames == TypeOK /\ NamesInv /\ [Next]_vars => NamesInv'
<1> SUFFICES ASSUME TypeOK, NamesInv, [Next]_vars PROVE NamesInv'
  OBVIOUS
<1>1. ASSUME NEW call \in Calls, Handle(call)
      PROVE  NamesInv'
  <2>1. call \in Jobs
    BY CallTypes
  <2>2. CASE Expire(call)
    <3>1. job = NoJob
      BY <2>2 DEF Expire, MayBegin, MayCall, MayEnter
    <3> QED BY <2>2, <3>1, StillNames, JobsApart DEF Expire
  <2>3. CASE AcknowledgeVisible(call)  BY <2>3, AcknowledgeNames
  <2>4. CASE SetBaselineIntent(call)   BY <2>1, <2>4, SetBaselineIntentNames
  <2>5. CASE RequestTransient(call)
    <3>1. call.source \in Sources /\ call.revision \in Nat
      BY <2>1, <2>5, KnownJobs DEF RequestTransient
    <3>2. job'.op # "detach"
      BY <2>5, JobsApart DEF RequestTransient, Complete, Return
    <3> QED BY <2>5, <3>1, <3>2, RenewTransientNames, AdmitTransientNames DEF RequestTransient
  <2>6. CASE RefuseTransient(call)     BY <2>6, RefuseNames DEF RefuseTransient
  <2>7. CASE RejectTransient(call)
    BY <2>7, StillNames, JobsApart DEF RejectTransient, Return
  <2>8. CASE FinishInteractive(call)   BY <2>8, FinishInteractiveNames
  <2>9. CASE TimerFires(call)
    BY <2>9, StillNames, JobsApart DEF TimerFires, Complete, Return
  <2> QED
    BY <1>1, <2>2, <2>3, <2>4, <2>5, <2>6, <2>7, <2>8, <2>9 DEF Handle
<1>2. CASE RemoveDoomed
  BY <1>2, RemoveDoomedNames
<1>3. CASE \E source \in Sources : InvalidateTransient(source)
  BY <1>3, InvalidateTransientNames
<1>4. CASE \E kind \in Tasks, s \in Surfaces : OpenInteractive(kind, s)
  BY <1>4, OpenInteractiveNames
<1>5. CASE \E s \in Surfaces : ResetToIdle(s) \/ AttachSurface(s) \/ DetachSurface(s)
  BY <1>5, ResetToIdleNames, AttachSurfaceNames, DetachSurfaceNames
<1>6. CASE \E s, replacement \in Surfaces : PrepareSurfaceDisable(s, replacement)
  BY <1>6, PrepareSurfaceDisableNames
<1>7. CASE \E flow \in 0..MaxFlow : SyncPolkitModal(flow)
  BY <1>7, SyncPolkitModalNames
<1>8. CASE FinishDetach
  BY <1>8, FinishDetachNames
<1>9. CASE Tick
  BY <1>9, StillNames DEF Tick
<1>10. CASE UNCHANGED vars
  BY <1>10, StillNames DEF vars
<1> QED
  BY <1>1, <1>2, <1>3, <1>4, <1>5, <1>6, <1>7, <1>8, <1>9, <1>10 DEF Next

LEMMA NamesUnique == TypeOK /\ NamesInv => EpochsUnique
<1> SUFFICES ASSUME TypeOK, NamesInv, NEW x \in Stays, NEW y \in Stays, x[3] = y[3],
                    x[3] # NoEpoch
             PROVE  x = y
  BY DEF EpochsUnique
<1> DEFINE Is(z, s) ==
      \/ z = <<s, 0, surfaces[s].owner.epoch>>
      \/ \E f \in surfaces[s].restoration : z = <<s, f.depth, f.owner.epoch>>
<1>1. \A z \in Stays : \E s \in attached : Is(z, s)
  BY DEF Stays
<1>2. PICK s \in attached, t \in attached : Is(x, s) /\ Is(y, t)
  BY <1>1
<1>3. \A z, r : Is(z, r) => z[3] \in Names(surfaces[r])
  BY DEF Names
<1>4. s = t
  BY <1>2, <1>3 DEF NamesInv, NamedApart, attached
<1>5. Distinct(surfaces[s])
  BY RecordAt
<1> QED BY <1>2, <1>4, <1>5 DEF Distinct

(* An epoch that was handed out names one stay: acknowledgeVisible and      *)
(* finishInteractive, which are called with an epoch a view saw earlier,    *)
(* reach that very content, on its own surface, or nothing.  A baseline     *)
(* without an epoch (NoEpoch) is no such stay.                              *)
THEOREM StaysNamedApart == Spec => []EpochsUnique
<1>1. Init => TypeOK /\ NamesInv
  BY InitType, InitNames
<1>2. TypeOK /\ NamesInv /\ [Next]_vars => TypeOK' /\ NamesInv'
  BY StepType, StepNames
<1>3. TypeOK /\ NamesInv => EpochsUnique
  BY NamesUnique
<1> QED BY <1>1, <1>2, <1>3, PTL DEF Spec
=============================================================================
