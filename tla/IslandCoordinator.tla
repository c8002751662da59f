------------------------- MODULE IslandCoordinator -------------------------
(***************************************************************************)
(* qml/IslandStateCoordinator.qml: the one reducer that decides what every *)
(* island surface shows.  A surface has an owner (the content on show), a  *)
(* stack of preempted owners to restore, and two baseline intents (hover   *)
(* and explicit expansion).  Short-lived feedback lives in a bounded       *)
(* mailbox of transient events with two deadlines each; focused tasks and  *)
(* the authentication modal are exclusive across all surfaces.             *)
(*                                                                         *)
(* The reducer is JavaScript on one event loop, so a handler runs to       *)
(* completion.  A handler that first expires overdue events removes them   *)
(* one after the other (expireDue), and a removal can hand a surface to    *)
(* another event that is itself about to be removed.  That loop is spelled *)
(* out: job is the handler that is running and doomed the events it still  *)
(* has to remove; no other handler, and no passage of time, happens before *)
(* the job is done.                                                        *)
(*                                                                         *)
(* Time is relative: a deadline is the number of ticks left, 0 once it is  *)
(* due.  The mailbox array is always in admission order, so it is a        *)
(* function from admission numbers (which are also the event ids).         *)
(***************************************************************************)
EXTENDS IslandKinds, Integers, FiniteSets, FiniteSetsExt, Functions

CONSTANTS
    Surfaces,          \* surface tokens, one per registered island window
    Sources,           \* transient sources: a source token with its generation
    KindOf,            \* the kind of event each source raises
    Tasks,             \* the interactive kinds that are opened
    FreshFor,          \* freshnessFor: ticks until an event is dropped
    HoldsFor,          \* holdFor: ticks it stays once visible, per preset
    NoSurface,         \* JavaScript null where a surface token is expected
    MaxPending,        \* maximumPendingTransients
    MaxDepth,          \* maximumRestorationDepth
    MaxAdmission,      \* bound: events admitted in a behaviour
    MaxSourceRevision, \* bound: revisions of one source
    MaxRevision,       \* bound: revisions of an owner before it stops moving
    MaxEpoch,          \* bound: owner epochs handed out before calls stop
    MaxFlow            \* bound: distinct snapshots of the Polkit flow

ASSUME KindsAssumption ==
    /\ KindOf \in [Sources -> TransientKinds]
    /\ Tasks \subseteq InteractiveKinds
    /\ NoSurface \notin Surfaces

ASSUME TimesAssumption ==
    /\ FreshFor \in [TransientKinds -> Nat \ {0}]
    /\ HoldsFor \in [TransientKinds -> SUBSET (Nat \ {0})]
    /\ \A k \in TransientKinds :
         /\ HoldsFor[k] # {}
         /\ \A d \in HoldsFor[k] : d < FreshFor[k]

ASSUME BoundsAssumption ==
    /\ MaxPending \in Nat \ {0}
    /\ MaxDepth \in Nat \ {0}
    /\ {MaxAdmission, MaxSourceRevision, MaxRevision, MaxEpoch, MaxFlow} \subseteq Nat

VARIABLES
    surfaces,       \* attached surfaces -> their record
    transients,     \* admission number -> pending event
    nextAdmission,
    nextOwnerEpoch,
    modalFlow,      \* 0: no Polkit flow, else the snapshot of the current one
    modalHostToken,
    scheduler,      \* ticks left on the one timer, or Stopped
    published,      \* stateSerial has moved since a surface last changed
    job,            \* the handler in progress, or NoJob
    doomed          \* the events it still has to remove

vars == <<surfaces, transients, nextAdmission, nextOwnerEpoch, modalFlow,
          modalHostToken, scheduler, published, job, doomed>>

Stopped == -1
NotHolding == -1
NoEvent == 0

(* An epoch names one stay of an owner on a surface.  The code counts them; *)
(* all that matters is that a new one differs from every earlier one, so    *)
(* an epoch is a count with the surface it was handed to.                   *)
NoEpoch == <<0, NoSurface>>
Epochs == Nat \X (Surfaces \cup {NoSurface})

NoJob == [op |-> "none"]

Idle == job = NoJob

attached == DOMAIN surfaces
modalPresent == modalFlow # 0

-----------------------------------------------------------------------------
(* Owners, frames and records. *)

Owners == [kind : Kinds, epoch : Epochs, event : Nat, revision : Nat,
           sourceRevision : Nat, visible : BOOLEAN, focusPending : BOOLEAN,
           focusTarget : BOOLEAN]

(* A preempted owner, at its depth in the restoration stack. *)
Frames == [depth : Nat, owner : Owners]

Records == [hover : BOOLEAN, explicit : BOOLEAN, owner : Owners,
            restoration : SUBSET Frames, focusRequest : BOOLEAN]

Events == [source : Sources, revision : Nat, fresh : Nat,
           hold : Nat \cup {NotHolding}, holdDuration : Nat,
           targets : SUBSET Surfaces, visible : SUBSET Surfaces]

EventKind(e) == KindOf[e.source]

OwnerRecord(kind, event, sourceRevision, epoch, focusPending) ==
    [kind |-> kind, epoch |-> epoch, event |-> event, revision |-> 1,
     sourceRevision |-> sourceRevision, visible |-> FALSE,
     focusPending |-> focusPending /\ kind \in FocusableKinds,
     focusTarget |-> kind \in FocusableKinds]

BaselineKind(r) == IF r.hover \/ r.explicit THEN "expanded" ELSE "idle"

BaselineOwner(kind) == OwnerRecord(kind, NoEvent, 0, NoEpoch, FALSE)

NewRecord == [hover |-> FALSE, explicit |-> FALSE, owner |-> BaselineOwner("idle"),
              restoration |-> {}, focusRequest |-> FALSE]

Rank(r) == RankFor(r.owner.kind)

(* Mutant: a pointer that is over the surface stays recorded. *)
ForceIdleUnderPointer(r) ==
    [r EXCEPT !.explicit = FALSE, !.restoration = {}, !.owner = BaselineOwner("idle")]

ForceIdle(r) == [r EXCEPT !.hover = FALSE, !.explicit = FALSE,
                          !.restoration = {}, !.owner = BaselineOwner("idle")]

NextDepth(frames) == IF frames = {} THEN 1 ELSE 1 + Max({f.depth : f \in frames})

CaptureCurrent(r) ==
    IF \/ r.owner.kind \in {"idle", "polkitModal"}
       \/ Cardinality(r.restoration) >= MaxDepth
    THEN r
    ELSE [r EXCEPT !.restoration =
            @ \cup {[depth |-> NextDepth(@), owner |-> r.owner]}]

(* enterOwner for content of its own, and for a transient event. *)
EnterOwner(r, kind, epoch, revision) ==
    [r EXCEPT !.owner =
        [OwnerRecord(kind, NoEvent, 0, epoch, TRUE) EXCEPT !.revision = revision]]

EnterEvent(r, id, e, epoch) ==
    [r EXCEPT !.owner = OwnerRecord(EventKind(e), id, e.revision, epoch, TRUE)]

(* Mutant: the keyboard is asked for before the content is on screen. *)
AskFocusAtOnce(r) == [r EXCEPT !.focusRequest = ~@]

(* A presentation that is asked to take the keyboard does so at once when it *)
(* is visible, and on its acknowledgement otherwise.  focusRequest is the    *)
(* parity of focusRequestSerial: a view only looks for a change of it.       *)
AskFocus(r) ==
    IF r.owner.visible THEN [r EXCEPT !.focusRequest = ~@]
                       ELSE [r EXCEPT !.owner.focusPending = TRUE]

-----------------------------------------------------------------------------
(* restoreNext: the record of surface s once its owner has ended.  evs is   *)
(* the mailbox, epoch the name a newly entered event gets.                  *)

(* Mutant: a focused task is not worth going back to. *)
IsRelevantBaseline(f, r, s, evs) ==
    f.owner.kind = "expanded" /\ (r.hover \/ r.explicit)

IsRelevantFrame(f, r, s, evs) ==
    \/ f.owner.kind \in InteractiveKinds
    \/ f.owner.kind = "expanded" /\ (r.hover \/ r.explicit)
    \/ /\ f.owner.kind \in TransientKinds
       /\ f.owner.event \in DOMAIN evs
       /\ evs[f.owner.event].fresh > 0
       /\ s \in evs[f.owner.event].targets

EventRank(evs, i) == RankFor(EventKind(evs[i]))

(* Mutant: overdue events are taken as well. *)
PendingForLate(r, s, evs) ==
    {i \in DOMAIN evs : s \in evs[i].targets /\ i # r.owner.event}

(* The pending event for s of the highest rank, the oldest of that rank. *)
PendingFor(r, s, evs) ==
    {i \in DOMAIN evs : evs[i].fresh > 0 /\ s \in evs[i].targets /\ i # r.owner.event}

Leads(i, ids, evs) ==
    \A j \in ids :
        \/ EventRank(evs, i) > EventRank(evs, j)
        \/ EventRank(evs, i) = EventRank(evs, j) /\ i <= j

Foremost(ids, evs) == CHOOSE i \in ids : Leads(i, ids, evs)

Restored(r, frame) ==
    LET wantsFocus == \/ frame.owner.kind \in InteractiveKinds
                      \/ frame.owner.kind = "expanded" /\ r.explicit
    IN  [frame.owner EXCEPT !.revision = @ + 1, !.visible = FALSE,
                            !.focusPending = wantsFocus, !.focusTarget = wantsFocus]

RestoreNext(r, s, evs, epoch) ==
    LET relevant == {f \in r.restoration : IsRelevantFrame(f, r, s, evs)}
        top      == CHOOSE f \in relevant : \A g \in relevant : g.depth <= f.depth
        below    == IF relevant = {} THEN {}
                    ELSE {f \in r.restoration : f.depth < top.depth}
        pending  == PendingFor(r, s, evs)
        next     == Foremost(pending, evs)
        baseline == BaselineKind(r)
        takesFrame == /\ relevant # {}
                      /\ RankFor(top.owner.kind) >= RankFor(baseline)
                      /\ pending # {} => RankFor(top.owner.kind) >= EventRank(evs, next)
        takesEvent == pending # {} /\ EventRank(evs, next) > RankFor(baseline)
    IN  IF takesFrame THEN
            [r EXCEPT !.restoration = below, !.owner = Restored(r, top)]
        ELSE IF takesEvent THEN
            EnterEvent([r EXCEPT !.restoration = below], next, evs[next], epoch)
        ELSE [r EXCEPT !.restoration = {},
                       !.owner = [BaselineOwner(baseline) EXCEPT
                                    !.focusPending = baseline = "expanded" /\ r.explicit]]

-----------------------------------------------------------------------------
(* removeEvent, for one event, on every surface at once: surfaces do not    *)
(* influence each other here.  n numbers the epochs handed out.             *)

Without(evs, id) == Restrict(evs, DOMAIN evs \ {id})

(* Mutant: the frames that wait for the event are kept. *)
AfterRemovalKeepingFrames(srf, evs, id, n) ==
    [s \in DOMAIN srf |->
        IF srf[s].owner.event = id THEN RestoreNext(srf[s], s, Without(evs, id), <<n, s>>)
                                   ELSE srf[s]]

(* Mutant: every surface restores, whatever it shows. *)
AfterRemovalEverywhere(srf, evs, id, n) ==
    [s \in DOMAIN srf |-> RestoreNext(srf[s], s, Without(evs, id), <<n, s>>)]

AfterRemoval(srf, evs, id, n) ==
    [s \in DOMAIN srf |->
        LET r == [srf[s] EXCEPT !.restoration = {f \in @ : f.owner.event # id}]
        IN  IF r.owner.event = id THEN RestoreNext(r, s, Without(evs, id), <<n, s>>)
                                  ELSE r]

(* projectEvent: the event takes every target it outranks. *)
AfterProjection(srf, id, e, n) ==
    [s \in DOMAIN srf |->
        IF s \in e.targets /\ srf[s].owner.event # id /\ RankFor(EventKind(e)) > Rank(srf[s])
        THEN EnterEvent(CaptureCurrent(srf[s]), id, e, <<n, s>>)
        ELSE srf[s]]

(* Mutant: < for <= in the comparison with the clock. *)
DueStrictly(evs) == {i \in DOMAIN evs : evs[i].fresh < 0}

(* The events expireDue removes, and the deadline schedule arms the timer   *)
(* for.                                                                     *)
Due(evs) == {i \in DOMAIN evs : evs[i].fresh = 0 \/ evs[i].hold = 0}

Deadline(e) == IF e.hold = NotHolding THEN e.fresh ELSE Min({e.fresh, e.hold})

(* Mutant: the last deadline instead of the first. *)
ScheduleLast(evs) ==
    IF DOMAIN evs = {} THEN Stopped ELSE Max({Deadline(evs[i]) : i \in DOMAIN evs})

Schedule(evs) ==
    IF DOMAIN evs = {} THEN Stopped ELSE Min({Deadline(evs[i]) : i \in DOMAIN evs})

(* publish bumps stateSerial, on which every surface's view is bound. *)
PublishAndSchedule ==
    /\ published' = TRUE
    /\ scheduler' = Schedule(transients')

-----------------------------------------------------------------------------
(* Running a handler.  A call that starts by expiring overdue events is     *)
(* taken up by Expire and runs its own part once they are gone.  Calls that *)
(* may hand out an epoch stop when those of a bounded model run out.        *)

MayCall == job = NoJob

MayEnter == MayCall /\ nextOwnerEpoch < MaxEpoch

MayBegin(call) ==
    CASE call.op = "ack"   -> MayCall
      [] call.op = "timer" -> MayCall /\ scheduler = 0
      [] OTHER             -> MayEnter

Running(call) ==
    \/ MayBegin(call) /\ Due(transients) = {}
    \/ job = call /\ doomed = {}

Return == job' = NoJob /\ doomed' = {}

(* At most n epochs are handed out by this step. *)
CountEpochs(n) ==
    nextOwnerEpoch' = IF \E s \in DOMAIN surfaces' : surfaces'[s].owner.epoch[1] > nextOwnerEpoch
                      THEN nextOwnerEpoch + n ELSE nextOwnerEpoch

Expire(call) ==
    /\ MayBegin(call)
    /\ Due(transients) # {}
    /\ job' = call
    /\ doomed' = Due(transients)
    /\ UNCHANGED <<surfaces, transients, nextAdmission, nextOwnerEpoch, modalFlow,
                   modalHostToken, scheduler, published>>

(* One turn of expireDue, or of the clean-up of a lost surface's events.    *)
RemoveDoomed ==
    \E id \in doomed :
        /\ \A other \in doomed : id <= other
        /\ surfaces' = AfterRemoval(surfaces, transients, id, nextOwnerEpoch + 1)
        /\ transients' = Without(transients, id)
        /\ doomed' = doomed \ {id}
        /\ CountEpochs(1)
        /\ published' = (published /\ surfaces' = surfaces)
        /\ UNCHANGED <<nextAdmission, modalFlow, modalHostToken, scheduler, job>>

(* The end of a handler that refuses its call: nothing is published, and    *)
(* some of them re-arm the timer.                                           *)
Refuse(rearm) ==
    /\ Return
    /\ scheduler' = IF rearm THEN Schedule(transients) ELSE scheduler
    /\ UNCHANGED <<surfaces, transients, nextAdmission, nextOwnerEpoch, modalFlow,
                   modalHostToken, published>>

(* The end of one that goes through. *)
Complete == PublishAndSchedule /\ Return

-----------------------------------------------------------------------------
(* acknowledgeVisible: a view reports that it shows the given epoch and     *)
(* revision.  The hold of an event starts once every surface that projects  *)
(* it has acknowledged it.                                                  *)

AckCall(s, epoch, revision) ==
    [op |-> "ack", surface |-> s, epoch |-> epoch, revision |-> revision]

IsCurrent(call) ==
    /\ call.surface \in attached
    /\ surfaces[call.surface].owner.epoch = call.epoch
    /\ surfaces[call.surface].owner.revision = call.revision

Acknowledged(r) ==
    [r EXCEPT !.owner.visible = TRUE, !.owner.focusPending = FALSE,
              !.focusRequest = IF r.owner.focusPending THEN ~@ ELSE @]

SeenBy(e, id, s, srf) ==
    LET seen == e.visible \cup {s}
    IN  IF s \in e.visible THEN e
        ELSE [e EXCEPT !.visible = seen,
                       !.hold = IF \A t \in DOMAIN srf : srf[t].owner.event = id => t \in seen
                                THEN e.holdDuration ELSE @]

AcknowledgeVisible(call) ==
    /\ call.op = "ack"
    /\ Running(call)
    /\ IF IsCurrent(call)
       THEN LET s  == call.surface
                id == surfaces[s].owner.event
            IN  /\ surfaces' = [surfaces EXCEPT ![s] = Acknowledged(@)]
                /\ transients' = IF id \in DOMAIN transients
                                 THEN [transients EXCEPT ![id] = SeenBy(@, id, s, surfaces)]
                                 ELSE transients
                /\ UNCHANGED <<nextAdmission, nextOwnerEpoch, modalFlow, modalHostToken>>
                /\ Complete
       ELSE Refuse(TRUE)

-----------------------------------------------------------------------------
(* setBaselineIntent: a surface's pointer enters or leaves (hover), or its  *)
(* dashboard is opened or closed deliberately (explicit).                   *)

IntentCall(s, value, explicit) ==
    [op |-> "intent", surface |-> s, value |-> value, explicit |-> explicit]

WithIntent(r, value, explicit) ==
    IF explicit THEN [r EXCEPT !.explicit = value] ELSE [r EXCEPT !.hover = value]

(* Mutant: the dashboard opens over whatever is on show. *)
AfterIntentUnranked(old, s, value, explicit, epoch) ==
    LET r == WithIntent(old, value, explicit)
    IN  IF value THEN EnterOwner(CaptureCurrent(r), "expanded", epoch, 1)
        ELSE IF r.owner.kind = "expanded" /\ ~r.hover /\ ~r.explicit
             THEN RestoreNext(r, s, transients, epoch) ELSE r

AfterIntent(old, s, value, explicit, epoch) ==
    LET r      == WithIntent(old, value, explicit)
        was    == old.hover \/ old.explicit
        now    == r.hover \/ r.explicit
    IN  IF ~was /\ now /\ Rank(r) < RankFor("expanded") THEN
            [EnterOwner(CaptureCurrent(r), "expanded", epoch, 1) EXCEPT
                !.owner.focusPending = r.explicit, !.owner.focusTarget = r.explicit]
        ELSE IF was /\ ~now /\ r.owner.kind = "expanded" THEN
            RestoreNext(r, s, transients, epoch)
        ELSE IF explicit /\ value /\ r.owner.kind = "expanded" THEN
            AskFocus([r EXCEPT !.owner.focusTarget = TRUE])
        ELSE IF explicit /\ ~value /\ r.owner.kind = "expanded" THEN
            [r EXCEPT !.owner.focusPending = FALSE, !.owner.focusTarget = FALSE]
        ELSE r

SetBaselineIntent(call) ==
    /\ call.op = "intent"
    /\ Running(call)
    /\ IF call.surface \in attached
       THEN /\ surfaces' = [surfaces EXCEPT ![call.surface] =
                   AfterIntent(@, call.surface, call.value, call.explicit,
                               <<nextOwnerEpoch + 1, call.surface>>)]
            /\ CountEpochs(1)
            /\ UNCHANGED <<transients, nextAdmission, modalFlow, modalHostToken>>
            /\ Complete
       ELSE Refuse(FALSE)

-----------------------------------------------------------------------------
(* requestTransient: a source reports a confirmed change.  A newer revision *)
(* of a pending source renews its event in place; a new source is admitted, *)
(* evicting the lowest and oldest event when the mailbox is full.           *)

RequestCall(source, revision) ==
    [op |-> "request", source |-> source, revision |-> revision]

PendingOf(source) == {i \in DOMAIN transients : transients[i].source = source}

(* Every projection of a renewed event shows the new revision, unseen.      *)
Renewed(srf, id, revision) ==
    [s \in DOMAIN srf |->
        IF srf[s].owner.event = id
        THEN [srf[s] EXCEPT !.owner.revision = @ + 1, !.owner.sourceRevision = revision,
                            !.owner.visible = FALSE]
        ELSE srf[s]]

RenewTransient(source, revision) ==
    \E id \in PendingOf(source), duration \in HoldsFor[KindOf[source]] :
        LET e == [transients[id] EXCEPT !.revision = revision, !.visible = {},
                                        !.fresh = FreshFor[KindOf[source]],
                                        !.hold = NotHolding, !.holdDuration = duration]
        IN  /\ revision > transients[id].revision
            /\ transients' = [transients EXCEPT ![id] = e]
            /\ surfaces' = AfterProjection(Renewed(surfaces, id, revision), id, e,
                                           nextOwnerEpoch + 1)
            /\ CountEpochs(1)
            /\ UNCHANGED nextAdmission

(* Routed feedback goes to the surface the caller names or, failing that,   *)
(* to whichever one the router picks.                                       *)
TargetSets(kind) ==
    IF kind \in BroadcastKinds THEN {attached} ELSE {{s} : s \in attached}

NewEvent(source, revision, duration, targets) ==
    [source |-> source, revision |-> revision, fresh |-> FreshFor[KindOf[source]],
     hold |-> NotHolding, holdDuration |-> duration, targets |-> targets, visible |-> {}]

(* Mutant: > for >=. *)
IsOverfull == Cardinality(DOMAIN transients) > MaxPending

IsFull == Cardinality(DOMAIN transients) >= MaxPending

(* Mutant: the oldest event goes, whatever its rank. *)
Oldest == Min(DOMAIN transients)

(* The event of the lowest rank, the oldest of that rank. *)
Victim ==
    CHOOSE i \in DOMAIN transients : \A j \in DOMAIN transients :
        \/ EventRank(transients, i) < EventRank(transients, j)
        \/ EventRank(transients, i) = EventRank(transients, j) /\ i <= j

Admit(srf, evs, e, n) ==
    /\ transients' = [i \in DOMAIN evs \cup {nextAdmission + 1} |->
                         IF i = nextAdmission + 1 THEN e ELSE evs[i]]
    /\ surfaces' = AfterProjection(srf, nextAdmission + 1, e, nextOwnerEpoch + n)
    /\ CountEpochs(n)

AdmitTransient(source, revision) ==
    \E targets \in TargetSets(KindOf[source]), duration \in HoldsFor[KindOf[source]] :
        LET e == NewEvent(source, revision, duration, targets)
        IN  /\ PendingOf(source) = {}
            /\ targets # {}
            /\ nextAdmission' = nextAdmission + 1
            /\ IF IsFull
               THEN /\ RankFor(KindOf[source]) >= EventRank(transients, Victim)
                    /\ Admit(AfterRemoval(surfaces, transients, Victim, nextOwnerEpoch + 1),
                             Without(transients, Victim), e, 2)
               ELSE Admit(surfaces, transients, e, 1)

RequestTransient(call) ==
    /\ call.op = "request"
    /\ Running(call)
    /\ \/ RenewTransient(call.source, call.revision)
       \/ AdmitTransient(call.source, call.revision)
    /\ UNCHANGED <<modalFlow, modalHostToken>>
    /\ Complete

(* A revision that is not newer, and a request nobody can show.             *)
RefuseTransient(call) ==
    /\ call.op = "request"
    /\ Running(call)
    /\ \/ /\ \E id \in PendingOf(call.source) : call.revision <= transients[id].revision
          /\ Refuse(TRUE)
       \/ /\ PendingOf(call.source) = {}
          /\ attached = {}
          /\ Refuse(FALSE)

(* A request that every pending event outranks has used up a number.        *)
RejectTransient(call) ==
    /\ call.op = "request"
    /\ Running(call)
    /\ PendingOf(call.source) = {}
    /\ attached # {}
    /\ IsFull
    /\ RankFor(KindOf[call.source]) < EventRank(transients, Victim)
    /\ nextAdmission' = nextAdmission + 1
    /\ Return
    /\ UNCHANGED <<surfaces, transients, nextOwnerEpoch, modalFlow, modalHostToken,
                   scheduler, published>>

(* invalidateTransient: the source withdraws its event.  Overdue events are *)
(* not expired first.                                                       *)
InvalidateTransient(source) ==
    /\ MayEnter
    /\ IF PendingOf(source) = {} THEN Refuse(TRUE)
       ELSE /\ \E id \in PendingOf(source) :
                  /\ surfaces' = AfterRemoval(surfaces, transients, id, nextOwnerEpoch + 1)
                  /\ transients' = Without(transients, id)
            /\ CountEpochs(1)
            /\ UNCHANGED <<nextAdmission, modalFlow, modalHostToken>>
            /\ Complete

-----------------------------------------------------------------------------
(* Focused tasks.  One of them is open at a time, on one surface.           *)

IsInteractive(owner) == owner.kind \in InteractiveKinds

(* finishInteractive: a task completes or is cancelled, whether it is on    *)
(* show or waits under the modal.                                           *)
FinishCall(epoch) == [op |-> "finish", epoch |-> epoch]

IsTask(owner, epoch) == IsInteractive(owner) /\ owner.epoch = epoch

EndedTask(r, s, epoch, newEpoch) ==
    IF IsTask(r.owner, epoch) THEN RestoreNext(r, s, transients, newEpoch)
    ELSE [r EXCEPT !.restoration = {f \in @ : ~IsTask(f.owner, epoch)}]

HoldsTask(r, epoch) ==
    IsTask(r.owner, epoch) \/ \E f \in r.restoration : IsTask(f.owner, epoch)

FinishInteractive(call) ==
    /\ call.op = "finish"
    /\ Running(call)
    /\ IF \E s \in attached : HoldsTask(surfaces[s], call.epoch)
       THEN /\ \E s \in attached :
                  /\ HoldsTask(surfaces[s], call.epoch)
                  /\ surfaces' = [surfaces EXCEPT ![s] =
                         EndedTask(@, s, call.epoch, <<nextOwnerEpoch + 1, s>>)]
            /\ CountEpochs(1)
            /\ UNCHANGED <<transients, nextAdmission, modalFlow, modalHostToken>>
            /\ Complete
       ELSE Refuse(TRUE)


(* openInteractive, refused by the modal and by a task of higher rank.      *)
WithoutTasks == [s \in attached |-> IF IsInteractive(surfaces[s].owner)
                                    THEN ForceIdle(surfaces[s]) ELSE surfaces[s]]

(* Mutant: the epoch of the owner that came before. *)
OpenedUnderLastEpoch(kind, target) ==
    [WithoutTasks EXCEPT ![target] =
        EnterOwner(CaptureCurrent(@), kind, <<nextOwnerEpoch, target>>, 1)]

Opened(kind, target) ==
    [WithoutTasks EXCEPT ![target] =
        EnterOwner(CaptureCurrent(@), kind, <<nextOwnerEpoch + 1, target>>, 1)]

OpenInteractive(kind, target) ==
    /\ MayEnter
    /\ ~modalPresent
    /\ target \in attached
    /\ \A s \in attached : IsInteractive(surfaces[s].owner) => RankFor(kind) >= Rank(surfaces[s])
    /\ IF surfaces[target].owner.kind = kind
       THEN /\ surfaces' = [surfaces EXCEPT ![target] = AskFocus(@)]
            /\ published' = TRUE
            /\ UNCHANGED scheduler
       ELSE /\ surfaces' = Opened(kind, target)
            /\ published' = TRUE
            /\ scheduler' = Schedule(transients)
    /\ CountEpochs(1)
    /\ UNCHANGED <<transients, nextAdmission, modalFlow, modalHostToken, job, doomed>>

(* resetToIdle: the window of a surface lost the activation.                *)
ResetToIdle(s) ==
    /\ MayCall
    /\ s \in attached
    /\ s # modalHostToken
    /\ surfaces' = [surfaces EXCEPT ![s] = ForceIdle(@)]
    /\ UNCHANGED <<transients, nextAdmission, nextOwnerEpoch, modalFlow, modalHostToken>>
    /\ Complete

(* prepareSurfaceDisable: a screen is about to be switched off, so its task *)
(* moves, under its old epoch.  Without a task there is nothing to do.      *)
PrepareSurfaceDisable(s, replacement) ==
    /\ MayCall
    /\ {s, replacement} \subseteq attached
    /\ s # replacement
    /\ s # modalHostToken
    /\ IsInteractive(surfaces[s].owner)
    /\ surfaces[s].owner.revision < MaxRevision
    /\ LET task == surfaces[s].owner
       IN  surfaces' = [surfaces EXCEPT
               ![s] = ForceIdle(@),
               ![replacement] = EnterOwner(CaptureCurrent(@), task.kind, task.epoch,
                                           task.revision + 1)]
    /\ published' = TRUE
    /\ UNCHANGED <<transients, nextAdmission, nextOwnerEpoch, modalFlow, modalHostToken,
                   scheduler, job, doomed>>

-----------------------------------------------------------------------------
(* The authentication modal. *)

(* Mutant: the tasks of the other surfaces go on. *)
RehomedAlone(srf, target, capture) ==
    [srf EXCEPT ![target] =
        EnterOwner(IF capture THEN CaptureCurrent(@) ELSE ForceIdle(@),
                   "polkitModal", <<nextOwnerEpoch + 1, target>>, 1)]

(* rehomeModal onto target.  Only the first presentation of a flow keeps    *)
(* what the target showed, and ends the task of any other surface.          *)
Rehomed(srf, target, capture) ==
    [s \in DOMAIN srf |->
        IF s = target
        THEN EnterOwner(IF capture THEN CaptureCurrent(srf[s]) ELSE ForceIdle(srf[s]),
                        "polkitModal", <<nextOwnerEpoch + 1, s>>, 1)
        ELSE IF capture /\ IsInteractive(srf[s].owner) THEN ForceIdle(srf[s])
        ELSE srf[s]]

(* syncPolkitModal: flow is the new snapshot of Polkit's flow, 0 for none.  *)
AppearModal(flow) ==
    /\ ~modalPresent
    /\ flow # 0
    /\ IF attached = {}
       THEN UNCHANGED <<surfaces, modalHostToken>>
       ELSE \E target \in attached :
               /\ surfaces' = Rehomed(surfaces, target, TRUE)
               /\ modalHostToken' = target

RefreshModal(flow) ==
    /\ modalPresent
    /\ flow # 0
    /\ modalHostToken # NoSurface => surfaces[modalHostToken].owner.revision < MaxRevision
    /\ surfaces' =
         [s \in attached |->
             IF s = modalHostToken /\ surfaces[s].owner.kind = "polkitModal" /\ flow # modalFlow
             THEN [surfaces[s] EXCEPT !.owner.revision = @ + 1, !.owner.visible = FALSE,
                                      !.owner.focusPending = TRUE]
             ELSE surfaces[s]]
    /\ UNCHANGED modalHostToken

ReleaseModal(flow) ==
    /\ modalPresent
    /\ flow = 0
    /\ surfaces' =
         [s \in attached |->
             IF s = modalHostToken /\ surfaces[s].owner.kind = "polkitModal"
             THEN RestoreNext(surfaces[s], s, transients, <<nextOwnerEpoch + 1, s>>)
             ELSE surfaces[s]]
    /\ modalHostToken' = NoSurface

SyncPolkitModal(flow) ==
    /\ IF attached = {} THEN MayCall ELSE MayEnter
    /\ AppearModal(flow) \/ RefreshModal(flow) \/ ReleaseModal(flow)
    /\ modalFlow' = flow
    /\ CountEpochs(1)
    /\ UNCHANGED <<transients, nextAdmission>>
    /\ Complete

-----------------------------------------------------------------------------
(* Surfaces come and go with the screens. *)

(* Mutant: a surface is attached while the modal waits for one. *)
AttachWithoutModal(s) ==
    /\ MayCall
    /\ s \in Surfaces \ attached
    /\ surfaces' = [t \in attached \cup {s} |-> IF t = s THEN NewRecord ELSE surfaces[t]]
    /\ UNCHANGED <<transients, nextAdmission, nextOwnerEpoch, modalFlow, modalHostToken>>
    /\ Complete

AttachSurface(s) ==
    /\ IF modalPresent THEN MayEnter ELSE MayCall
    /\ s \in Surfaces \ attached
    /\ LET srf == [t \in attached \cup {s} |-> IF t = s THEN NewRecord ELSE surfaces[t]]
       IN  IF modalPresent /\ modalHostToken = NoSurface
           THEN \E target \in DOMAIN srf :
                   /\ surfaces' = Rehomed(srf, target, FALSE)
                   /\ modalHostToken' = target
           ELSE /\ surfaces' = srf
                /\ UNCHANGED modalHostToken
    /\ CountEpochs(1)
    /\ UNCHANGED <<transients, nextAdmission, modalFlow>>
    /\ Complete

(* detachSurface takes the record away and forgets the surface in every     *)
(* event; events that have no target left are removed one by one, then the  *)
(* modal or the task of the lost surface moves to another one.              *)
DetachCall(lostModal, task) == [op |-> "detach", lostModal |-> lostModal, task |-> task]

DetachSurface(s) ==
    /\ MayCall
    /\ s \in attached
    /\ surfaces' = Restrict(surfaces, attached \ {s})
    /\ transients' = [i \in DOMAIN transients |->
                         [transients[i] EXCEPT !.targets = @ \ {s}, !.visible = @ \ {s}]]
    /\ doomed' = {i \in DOMAIN transients : transients[i].targets \subseteq {s}}
    /\ job' = DetachCall(s = modalHostToken, surfaces[s].owner)
    /\ modalHostToken' = IF s = modalHostToken THEN NoSurface ELSE modalHostToken
    /\ published' = FALSE
    /\ UNCHANGED <<nextAdmission, nextOwnerEpoch, modalFlow, scheduler>>

(* transferInteractiveAfterLoss keeps the epoch and starts at revision 1.   *)
Transferred(target, task) ==
    [surfaces EXCEPT ![target] = EnterOwner(CaptureCurrent(@), task.kind, task.epoch, 1)]

FinishDetach ==
    /\ job.op = "detach"
    /\ doomed = {}
    /\ IF job.lostModal /\ modalPresent /\ attached # {}
       THEN \E target \in attached :
               /\ surfaces' = Rehomed(surfaces, target, FALSE)
               /\ modalHostToken' = target
       ELSE IF ~job.lostModal /\ IsInteractive(job.task) /\ attached # {}
       THEN /\ \E target \in attached : surfaces' = Transferred(target, job.task)
            /\ UNCHANGED modalHostToken
       ELSE UNCHANGED <<surfaces, modalHostToken>>
    /\ CountEpochs(1)
    /\ UNCHANGED <<transients, nextAdmission, modalFlow>>
    /\ Complete

-----------------------------------------------------------------------------
(* The one timer, and the passage of time. *)

TimerCall == [op |-> "timer"]

TimerFires(call) ==
    /\ call.op = "timer"
    /\ Running(call)
    /\ UNCHANGED <<surfaces, transients, nextAdmission, nextOwnerEpoch, modalFlow,
                   modalHostToken>>
    /\ Complete

(* Mutant: a hold that has not started runs as well. *)
ElapseAlways(ticks) == ticks - 1

Elapse(ticks) == IF ticks > 0 THEN ticks - 1 ELSE ticks

Tick ==
    /\ job = NoJob
    /\ \E i \in DOMAIN transients : transients[i].fresh > 0
    /\ transients' = [i \in DOMAIN transients |->
                         [transients[i] EXCEPT !.fresh = Elapse(@), !.hold = Elapse(@)]]
    /\ scheduler' = Elapse(scheduler)
    /\ UNCHANGED <<surfaces, nextAdmission, nextOwnerEpoch, modalFlow, modalHostToken,
                   published, job, doomed>>

-----------------------------------------------------------------------------
(* The calls that may be made now.  A view acknowledges what it shows or    *)
(* showed last, or what has moved to another surface since; a task is ended *)
(* by its epoch, which may be out of date.                                  *)

Shown == {surfaces[s].owner : s \in attached}

KnownOwners ==
    Shown \cup UNION {{f.owner : f \in surfaces[s].restoration} : s \in attached}

Acks == UNION {{AckCall(s, o.epoch, o.revision), AckCall(s, o.epoch, o.revision - 1)} :
                    s \in attached \cup {NoSurface}, o \in Shown}

(* NoSurface stands for the token of a surface that is gone, or for the
   registration it had before.                                             *)
Intents == {IntentCall(s, value, explicit) :
               s \in attached \cup {NoSurface}, value, explicit \in BOOLEAN}

Requests ==
    {RequestCall(source, revision) :
        source \in {x \in Sources : nextAdmission < MaxAdmission
                                     \/ ~(PendingOf(x) \subseteq Due(transients))},
        revision \in 1..MaxSourceRevision}

Finishes == {FinishCall(epoch) : epoch \in {o.epoch : o \in KnownOwners} \cup {NoEpoch}}

Calls == IF job = NoJob THEN Acks \cup Intents \cup Requests \cup Finishes \cup {TimerCall}
                        ELSE {job}

Handle(call) ==
    \/ Expire(call)
    \/ AcknowledgeVisible(call)
    \/ SetBaselineIntent(call)
    \/ RequestTransient(call)
    \/ RefuseTransient(call)
    \/ RejectTransient(call)
    \/ FinishInteractive(call)
    \/ TimerFires(call)

Init ==
    /\ surfaces = [s \in {} |-> NewRecord]
    /\ transients = [i \in {} |-> NoEvent]
    /\ nextAdmission = 0
    /\ nextOwnerEpoch = 0
    /\ modalFlow = 0
    /\ modalHostToken = NoSurface
    /\ scheduler = Stopped
    /\ published = TRUE
    /\ job = NoJob
    /\ doomed = {}

Next ==
    \/ \E call \in Calls : Handle(call)
    \/ RemoveDoomed
    \/ \E source \in Sources : InvalidateTransient(source)
    \/ \E kind \in Tasks, s \in Surfaces : OpenInteractive(kind, s)
    \/ \E s \in Surfaces : ResetToIdle(s) \/ AttachSurface(s) \/ DetachSurface(s)
    \/ \E s, replacement \in Surfaces : PrepareSurfaceDisable(s, replacement)
    \/ \E flow \in 0..MaxFlow : SyncPolkitModal(flow)
    \/ FinishDetach
    \/ Tick

Spec == Init /\ [][Next]_vars

(* A handler that has begun runs on; time passes and Qt delivers the timer  *)
(* whatever else the shell is asked to do in between.                       *)
Fairness ==
    /\ WF_vars(RemoveDoomed)
    /\ WF_vars(FinishDetach)
    /\ WF_vars(job # NoJob /\ \E call \in Calls : Handle(call))
    /\ SF_vars(Tick)
    /\ SF_vars(Expire(TimerCall))
    /\ SF_vars(TimerFires(TimerCall))

FairSpec == Spec /\ Fairness
=============================================================================
