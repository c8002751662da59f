-------------------------- MODULE IslandProperties --------------------------
(***************************************************************************)
(* What the island coordinator promises: exclusive focused tasks, a modal  *)
(* that always has one host, priorities, and feedback that is bounded,     *)
(* timely and never replayed stale.                                        *)
(***************************************************************************)
EXTENDS IslandCoordinator

AtRest == job = NoJob

Jobs ==
    {NoJob, TimerCall}
    \cup [op : {"ack"}, surface : Surfaces \cup {NoSurface}, epoch : Epochs, revision : Int]
    \cup [op : {"intent"}, surface : Surfaces \cup {NoSurface}, value : BOOLEAN,
          explicit : BOOLEAN]
    \cup [op : {"request"}, source : Sources, revision : Nat]
    \cup [op : {"finish"}, epoch : Epochs]
    \cup [op : {"detach"}, lostModal : BOOLEAN, task : Owners]

(* Type invariant. *)
TypeOK ==
    /\ attached \subseteq Surfaces
    /\ surfaces \in [attached -> Records]
    /\ \A s \in attached : IsFiniteSet(surfaces[s].restoration)
    /\ DOMAIN transients \subseteq 1..nextAdmission
    /\ transients \in [DOMAIN transients -> Events]
    /\ nextAdmission \in Nat
    /\ nextOwnerEpoch \in Nat
    /\ modalFlow \in Nat
    /\ modalHostToken \in Surfaces \cup {NoSurface}
    /\ scheduler \in Nat \cup {Stopped}
    /\ published \in BOOLEAN
    /\ job \in Jobs
    /\ doomed \subseteq DOMAIN transients

-----------------------------------------------------------------------------
(* Focused tasks and the modal. *)

Tasked(s) == IsInteractive(surfaces[s].owner)

WaitingTasks(s) == {f \in surfaces[s].restoration : IsInteractive(f.owner)}

(* "One Interactive task or Modal flow exists across all islands": two      *)
(* surfaces never show a task, none does while the modal is up, and a task  *)
(* only ever waits behind the modal, where nothing else can open.           *)
ExclusiveTask ==
    /\ \A s, t \in attached : Tasked(s) /\ Tasked(t) => s = t
    /\ modalPresent => \A s \in attached : ~Tasked(s)
    /\ \A s \in attached : \A f \in WaitingTasks(s) :
          /\ s = modalHostToken
          /\ WaitingTasks(s) = {f}

(* The authentication modal is on exactly one surface for as long as Polkit *)
(* has a flow and there is a surface, and on none otherwise.                *)
ModalHosted ==
    /\ \A s \in attached : surfaces[s].owner.kind = "polkitModal" <=> s = modalHostToken
    /\ modalHostToken # NoSurface => modalPresent /\ modalHostToken \in attached
    /\ AtRest /\ modalPresent /\ attached # {} => modalHostToken # NoSurface

(* A stay on a surface has a name of its own, so that an acknowledgement or *)
(* a completion can never reach the content of another surface, or content  *)
(* that is preempted.  A baseline that a surface goes back to without an    *)
(* epoch is excluded: it has none to be named by (NoEpoch, 0 in the code),  *)
(* and several surfaces may show it at once.                                *)
Stays ==
    {<<s, 0, surfaces[s].owner.epoch>> : s \in attached} \cup
    UNION {{<<s, f.depth, f.owner.epoch>> : f \in surfaces[s].restoration} : s \in attached}

EpochsUnique ==
    \A x, y \in Stays : x[3] = y[3] /\ x[3] # NoEpoch => x = y

(* Each preempted owner is outranked by what preempted it.  There are fewer *)
(* ranks than places in the stack, so captureCurrent never drops one.       *)
StackOrdered ==
    \A s \in attached : \A f \in surfaces[s].restoration :
        /\ RankFor(f.owner.kind) < Rank(surfaces[s])
        /\ \A g \in surfaces[s].restoration :
              f.depth < g.depth <=> RankFor(f.owner.kind) < RankFor(g.owner.kind)

(* A surface the pointer is on, or whose dashboard was opened, shows the    *)
(* dashboard or something above it, and shows the dashboard only then.      *)
BaselineHonored ==
    \A s \in attached :
        LET r == surfaces[s]
        IN  /\ r.hover \/ r.explicit => Rank(r) >= RankFor("expanded")
            /\ r.owner.kind = "expanded" => r.hover \/ r.explicit

(* Feedback that arrives, is acknowledged, expires or is withdrawn never    *)
(* ends or moves the task on show; one that waits is not watched here.      *)
FeedbackSparesTasks ==
    [][transients' # transients /\ attached' = attached =>
           \A s \in attached : Tasked(s) => surfaces'[s].owner.epoch = surfaces[s].owner.epoch]_vars

(* The authentication modal costs the user of its surface no task: when the *)
(* flow ends the task that its host's stack holds is back.  It says nothing *)
(* of a task that went with a host that was detached before.                *)
TaskReturnsAfterModal ==
    [][modalPresent /\ modalFlow' = 0 =>
           \A s \in attached : \A f \in WaitingTasks(s) :
               /\ surfaces'[s].owner.epoch = f.owner.epoch
               /\ surfaces'[s].owner.focusPending]_vars

(* The keyboard is asked for only on behalf of content that is on screen    *)
(* and wants it.                                                            *)
FocusOnlyWhenVisible ==
    [][\A s \in attached \cap DOMAIN surfaces' :
           surfaces'[s].focusRequest # surfaces[s].focusRequest =>
               surfaces'[s].owner.visible /\ surfaces'[s].owner.focusTarget]_vars

-----------------------------------------------------------------------------
(* Feedback. *)

(* Feedback on show or waiting to be restored is pending in the mailbox and *)
(* meant for that surface.                                                  *)
FeedbackIsPending ==
    \A s \in attached :
        \A o \in {surfaces[s].owner} \cup {f.owner : f \in surfaces[s].restoration} :
            o.kind \in TransientKinds =>
                /\ o.event \in DOMAIN transients
                /\ s \in transients[o.event].targets
                /\ EventKind(transients[o.event]) = o.kind

(* Between handlers the timer is armed no later than the first deadline, so *)
(* nothing stays in the mailbox unnoticed.                                  *)
TimerArmed ==
    AtRest => \A i \in DOMAIN transients : scheduler \in 0..Deadline(transients[i])

(* maximumPendingTransients, one event for each source, and none that is    *)
(* meant for a surface that is gone.                                        *)
MailboxBounded ==
    /\ Cardinality(DOMAIN transients) <= MaxPending
    /\ \A i, j \in DOMAIN transients : transients[i].source = transients[j].source => i = j
    /\ \A i \in DOMAIN transients :
          /\ transients[i].targets \subseteq attached
          /\ AtRest => transients[i].targets # {}

(* "Feedback arriving mid-interaction waits briefly and is dropped, not     *)
(* replayed afterward": an event a surface turns to is still fresh.         *)
NoStaleReplay ==
    [][\A s \in attached \cap DOMAIN surfaces' :
           LET event == surfaces'[s].owner.event
           IN  event # NoEvent /\ event # surfaces[s].owner.event =>
                   event \in DOMAIN transients' /\ transients'[event].fresh > 0]_vars

(* A pending event is given up only when it is due, when its source or its  *)
(* last surface withdraws, or to make room for one of at least its rank.    *)
LossJustified ==
    [][\A i \in DOMAIN transients \ DOMAIN transients' :
          \/ i \in doomed
          \/ nextAdmission' = nextAdmission /\ AtRest
          \/ /\ nextAdmission' \in DOMAIN transients'
             /\ Cardinality(DOMAIN transients) = MaxPending
             /\ \A j \in DOMAIN transients' : EventRank(transients, i) <= EventRank(transients', j)
      ]_vars

(* Feedback always ends, whatever else the shell is asked to do meanwhile.  *)
FeedbackEnds ==
    \A i \in 1..MaxAdmission : i \in DOMAIN transients ~> i \notin DOMAIN transients

-----------------------------------------------------------------------------
(* What the tests and the README say and the code does not do. *)

(* "hover expansion never steals keyboard focus" (tests/surface-state).     *)
HoverNeverWantsFocus ==
    AtRest => \A s \in attached :
        surfaces[s].owner.kind = "expanded" /\ surfaces[s].owner.focusTarget => surfaces[s].explicit

(* "coalescence updates every projection atomically" (tests/coordinator).   *)
ProjectionsShowLatest ==
    AtRest => \A s \in attached :
        LET o == surfaces[s].owner
        IN  o.event \in DOMAIN transients => o.sourceRevision = transients[o.event].revision

(* "global hold expires atomically": a view is told of the new owner.       *)
ChangesArePublished == ~published ~> published
=============================================================================
