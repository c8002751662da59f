------------------------ MODULE NotificationRuntime ------------------------
(***************************************************************************)
(* src/notifications/runtime.cpp with qml/NotificationService.qml: which   *)
(* notifications are live, what history keeps of them, which popups may be *)
(* on screen, and when each of them ends.                                  *)
(*                                                                         *)
(* Everything runs on one event loop, so a handler is one action, with the *)
(* handlers it re-enters synchronously (expiring a notification closes it, *)
(* which signals the watcher, which calls closeNotification).  What is     *)
(* posted to the loop (a replacement, the end of a reload) waits in posted *)
(* and other events come between.                                          *)
(*                                                                         *)
(* tables gathers what the synchronous helpers read and write; a helper    *)
(* takes the tables and returns them changed, so that a handler is the     *)
(* composition of the calls it makes.                                      *)
(*                                                                         *)
(* The notification server and the bus are external.  The server numbers   *)
(* notifications in arrival order, deletes one when it is closed, never    *)
(* reuses a number, and on a reload presents all the open ones again,      *)
(* marked lastGeneration, before the loop runs.  As the runtime admits     *)
(* them in that order too, the order of liveAdmissionSequence is the order *)
(* of the numbers, and the number stands for the object and for its        *)
(* transient source token.  Time is relative: a deadline is the number of  *)
(* ticks left.  Sequence counters do not run out (2^64), nor do revisions. *)
(*                                                                         *)
(* historySnapshots is always in the order of its keys, newest first, and  *)
(* is a function from the keys; bufferedNotifications holds each number    *)
(* once and is a function from the numbers to "carried".                   *)
(***************************************************************************)
EXTENDS Integers, Sequences, FiniteSets, FiniteSetsExt, Folds, Functions, KeyedTables

CONSTANTS
    Offers,            \* what a sender may ask: [transient, urgency, timeout]
    DefaultTimeout,    \* expiryDelay when the sender leaves it to the server
    HistoryLifetime,   \* HistoryLifetimeMs, in ticks
    MaxLive,           \* MaxLive
    MaxHistory,        \* MaxHistory
    Policies,          \* settings of the popups that are tried
    MaxNotifications,  \* bound: notifications sent in a behaviour
    MaxUpdates,        \* bound: replacements sent
    MaxReloads,        \* bound: live reloads
    MaxOwnerChanges    \* bound: changes of the owner of the bus name

Urgencies == {"low", "normal", "critical"}
Never == -1         \* no deadline
NoRecord == 0       \* std::nullopt where a record key is expected

ASSUME NotificationAssumption ==
    /\ Offers \subseteq [transient : BOOLEAN, urgency : Urgencies, timeout : Nat \cup {-1}]
    /\ DefaultTimeout \in [Urgencies \ {"critical"} -> Nat \ {0}]
    /\ {HistoryLifetime, MaxLive, MaxHistory} \subseteq Nat \ {0}
    /\ Policies \subseteq [popupsEnabled : BOOLEAN, doNotDisturb : BOOLEAN,
                           criticalMode : {"bypass", "silence"}]
    /\ {MaxNotifications, MaxUpdates, MaxReloads, MaxOwnerChanges} \subseteq Nat

VARIABLES
    tables,        \* open, watched, live, history, popups, posted, ...
    buffer,        \* bufferedNotifications
    reconciling,   \* reconcilingGeneration
    generation,    \* currentGeneration
    serverOwned,   \* ownsNotificationServer
    policy,        \* the popup settings of the service
    busOwned,      \* external: this process owns the bus name
    lastSent,      \* external: the newest number the server gave out
    updates,       \* replacements sent so far
    ownerChanges   \* changes of busOwned so far

service == <<buffer, reconciling, generation, serverOwned, policy>>
environment == <<busOwned, lastSent, updates, ownerChanges>>
vars == <<tables, service, environment>>

Ids == 1..MaxNotifications

Lives == [record : Nat, urgency : Urgencies, transient : BOOLEAN, deadline : Nat \cup {Never},
          updateQueued : BOOLEAN, seenInGeneration : BOOLEAN, revision : Nat]
Records == [cutoff : Nat, live : BOOLEAN, urgency : Urgencies]
Posts == [op : {"replace"}, id : Ids] \cup [op : {"finish"}, generation : Nat]

(***************************************************************************)
(* Helpers of the runtime.                                                 *)
(***************************************************************************)
Keys(t) == DOMAIN t.history

(* A loop: Step for each of ids, in the order of the numbers.                *)
InOrder(Step(_, _), t, ids) ==
    MapThenFoldSet(LAMBDA id, s : Step(s, id), t, LAMBDA id : id, LAMBDA left : Max(left), ids)

(* critical and 0 never expire; a positive timeout is the sender's.          *)
ExpiryDelay(p) ==
    IF p.urgency = "critical" \/ p.timeout = 0 THEN Never
    ELSE IF p.timeout > 0 THEN p.timeout ELSE DefaultTimeout[p.urgency]

(* Mutant: only history is watched by the timer.                             *)
ArmForHistory(t) ==
    LET due == {t.history[k].cutoff : k \in Keys(t)}
    IN  [t EXCEPT !.timer = IF due = {} THEN Never ELSE Min(due)]

(* Mutant: only live notifications are.                                      *)
ArmForLive(t) ==
    LET due == {t.live[i].deadline : i \in DOMAIN t.live} \ {Never}
    IN  [t EXCEPT !.timer = IF due = {} THEN Never ELSE Min(due)]

(* The one timer is set to the earliest deadline there is.                   *)
ArmScheduler(t) ==
    LET due == ({t.live[i].deadline : i \in DOMAIN t.live} \ {Never})
               \cup {t.history[k].cutoff : k \in Keys(t)}
    IN  [t EXCEPT !.timer = IF due = {} THEN Never ELSE Min(due)]

(* Mutant: the links to what is gone stay.                                   *)
KeepRecordsLinked(t, kept) == [t EXCEPT !.history = Restrict(@, kept)]

(* Only the records kept stay; live notifications lose the links to the rest.*)
KeepRecords(t, kept) ==
    [t EXCEPT !.history = Restrict(@, kept),
              !.live = [i \in DOMAIN @ |-> IF @[i].record \in Keys(t) \ kept
                                           THEN [@[i] EXCEPT !.record = NoRecord]
                                           ELSE @[i]]]

(* The newest of the keys, at most MaxHistory.                               *)
Newest(keys) == {k \in keys : Cardinality({q \in keys : q > k}) < MaxHistory}

PruneHistory(t) == KeepRecords(t, Newest({k \in Keys(t) : t.history[k].cutoff > 0}))

RemoveSnapshot(t, key) == KeepRecords(t, Keys(t) \ {key})

MarkSnapshotExpired(t, key) ==
    IF key \in Keys(t) THEN [t EXCEPT !.history[key].live = FALSE] ELSE t

(* Mutant: a replacement starts the record's time again.                     *)
MakeSnapshotAfresh(p, cutoff) ==
    [cutoff |-> HistoryLifetime, live |-> TRUE, urgency |-> p.urgency]

MakeSnapshot(p, cutoff) ==
    [cutoff |-> cutoff, live |-> TRUE, urgency |-> p.urgency]

(* The new record's key is t.nextRecord; NewRecord says whether it stayed.   *)
AdmitHistory(t, p) ==
    IF p.transient THEN t
    ELSE PruneHistory(
           [t EXCEPT !.history = Put(@, t.nextRecord, MakeSnapshot(p, HistoryLifetime)),
                     !.nextRecord = @ + 1])

NewRecord(before, after) ==
    IF before.nextRecord \in Keys(after) THEN before.nextRecord ELSE NoRecord

(* Lower classes make room first.                                            *)
CapacityClass(t, transient, urgency, record) ==
    IF transient \/ record \notin Keys(t) THEN 0
    ELSE CASE urgency = "low" -> 1 [] urgency = "normal" -> 2 [] urgency = "critical" -> 3

PopupAllowed(rule, urgency) ==
    /\ rule.popupsEnabled
    /\ rule.doNotDisturb => urgency = "critical" /\ rule.criticalMode = "bypass"

(* Mutant: a popup that is not allowed any more is left as it is.            *)
DispatchAllowed(t, id) ==
    LET revision == t.live[id].revision + 1
        popup == [revision |-> revision, urgency |-> t.live[id].urgency]
    IN  [t EXCEPT !.live[id].revision = revision,
                  !.popups = IF PopupAllowed(policy, t.live[id].urgency)
                             THEN Put(@, id, popup) ELSE @]

(* A new revision is presented; the service admits the popup or takes it off.*)
DispatchPresentation(t, id) ==
    LET revision == t.live[id].revision + 1
        popup == [revision |-> revision, urgency |-> t.live[id].urgency]
    IN  [t EXCEPT !.live[id].revision = revision,
                  !.popups = IF PopupAllowed(policy, t.live[id].urgency)
                             THEN Put(@, id, popup)
                             ELSE Restrict(@, DOMAIN @ \ {id})]

(* The presentations are invalidated, which takes their popups off.          *)
EraseAssociations(t, ids) ==
    [t EXCEPT !.live = Restrict(@, DOMAIN @ \ ids), !.popups = Restrict(@, DOMAIN @ \ ids)]

EraseAssociation(t, id) == EraseAssociations(t, {id})

Expired == 1
Dismissed == 2
ClosedBySender == 3

(* Mutant: the record is left alone.                                         *)
CloseLiveOnly(t, id, reason) ==
    IF id \notin DOMAIN t.live THEN t ELSE ArmScheduler(EraseAssociation(t, id))

CloseNotification(t, id, reason) ==
    IF id \notin DOMAIN t.live THEN t
    ELSE LET record == t.live[id].record
             settled == IF record = NoRecord THEN t
                        ELSE IF reason = Expired THEN MarkSnapshotExpired(t, record)
                        ELSE RemoveSnapshot(t, record)
         IN  ArmScheduler(EraseAssociation(settled, id))

(* Mutant: the watcher is not forgotten.                                     *)
CloseWatched(t, id, reason) ==
    LET heard == IF id \in t.watched THEN CloseNotification(t, id, reason) ELSE t
    IN  [heard EXCEPT !.open = Restrict(@, DOMAIN @ \ {id})]

(* The server deletes the notification; its watcher, if there is one, hears. *)
CloseObject(t, id, reason) ==
    LET heard == IF id \in t.watched THEN CloseNotification(t, id, reason) ELSE t
    IN  [heard EXCEPT !.open = Restrict(@, DOMAIN @ \ {id}), !.watched = @ \ {id}]

ExpireNotification(t, id) ==
    IF id \in DOMAIN t.open THEN CloseObject(t, id, Expired) ELSE t

QueueReplacement(t, id) ==
    IF t.live[id].updateQueued THEN t
    ELSE [t EXCEPT !.live[id].updateQueued = TRUE,
                   !.posted = Append(@, [op |-> "replace", id |-> id])]

(* Mutant: the timer is not armed for the newcomer.                          *)
EnterUnarmed(t, id, record) ==
    LET p == t.open[id]
        association == [record |-> record, urgency |-> p.urgency, transient |-> p.transient,
                        deadline |-> ExpiryDelay(p), updateQueued |-> FALSE,
                        seenInGeneration |-> TRUE, revision |-> 0]
    IN  DispatchPresentation([t EXCEPT !.live = Put(@, id, association)], id)

(* A newcomer enters the table, or is refused: expired, its record kept.     *)
Enter(t, id, record) ==
    LET p == t.open[id]
        association == [record |-> record, urgency |-> p.urgency, transient |-> p.transient,
                        deadline |-> ExpiryDelay(p), updateQueued |-> FALSE,
                        seenInGeneration |-> TRUE, revision |-> 0]
    IN  ArmScheduler(DispatchPresentation([t EXCEPT !.live = Put(@, id, association)], id))

Refuse(t, id, record) == ArmScheduler(ExpireNotification(MarkSnapshotExpired(t, record), id))

(* Mutant: the oldest goes, whatever it is.                                  *)
OldestVictim(t, id, record) == Min(DOMAIN t.live \cup {id})

(* Who has to go when the table is full: the lowest class, then the oldest.  *)
Victim(t, id, record) ==
    LET class == [v \in (DOMAIN t.live) \cup {id} |->
                    IF v = id
                    THEN CapacityClass(t, t.open[id].transient, t.open[id].urgency, record)
                    ELSE CapacityClass(t, t.live[v].transient, t.live[v].urgency,
                                       t.live[v].record)]
    IN  CHOOSE v \in DOMAIN class :
          \A w \in DOMAIN class \ {v} : \/ class[v] < class[w]
                                        \/ class[v] = class[w] /\ v < w

AdmitFresh(t, id) ==
    IF id \in DOMAIN t.live THEN QueueReplacement(t, id)
    ELSE LET recorded == AdmitHistory(t, t.open[id])
             record == NewRecord(t, recorded)
             victim == Victim(recorded, id, record)
             relieved == ExpireNotification(recorded, victim)
         IN  IF Cardinality(DOMAIN t.live) < MaxLive THEN Enter(recorded, id, record)
             ELSE IF victim = id THEN Refuse(recorded, id, record)
             ELSE IF Cardinality(DOMAIN relieved.live) < MaxLive
                  THEN Enter(relieved, id, record)
                  ELSE Refuse(relieved, id, record)

(* What becomes of the record of id: a new one is made, it goes, or it is    *)
(* made again, as old as it was.                                             *)
ReplaceRecord(t, id, p) ==
    LET known == t.live[id]
        s == AdmitHistory(t, p)
    IN  CASE known.transient /\ ~p.transient ->
               [s EXCEPT !.live[id].record = NewRecord(t, s)]
          [] ~known.transient /\ p.transient ->
               [RemoveSnapshot(t, known.record) EXCEPT !.live[id].record = NoRecord]
          [] ~known.transient /\ ~p.transient /\ known.record \in Keys(t) ->
               [t EXCEPT !.history[known.record] = MakeSnapshot(p, @.cutoff)]
          [] OTHER -> t

ProcessReplacement(t, id) ==
    LET p == t.open[id]
        accepted == [ReplaceRecord(PruneHistory(t), id, p) EXCEPT
                       !.live[id].transient = p.transient,
                       !.live[id].urgency = p.urgency,
                       !.live[id].deadline = ExpiryDelay(p)]
    IN  ArmScheduler(DispatchPresentation(accepted, id))

(* Mutant: what the sender changed meanwhile is not read.                    *)
AdmitAsKnown(t, id) ==
    IF id \notin DOMAIN t.live THEN ExpireNotification(t, id)
    ELSE LET recorded == AdmitHistory(t, t.open[id])
         IN  [recorded EXCEPT
                !.live[id].seenInGeneration = TRUE,
                !.live[id].record = IF t.open[id].transient THEN @ ELSE NewRecord(t, recorded)]

(* A notification carried over a reload keeps its association and deadline   *)
(* and gets a new record; one the runtime does not know is expired.          *)
AdmitCarried(t, id) ==
    IF id \notin DOMAIN t.live THEN ExpireNotification(t, id)
    ELSE LET p == t.open[id]
             recorded == AdmitHistory(t, p)
             known == recorded.live[id]
         IN  [recorded EXCEPT !.live[id] =
                [known EXCEPT !.seenInGeneration = TRUE,
                              !.transient = p.transient,
                              !.urgency = p.urgency,
                              !.record = IF p.transient THEN known.record
                                         ELSE NewRecord(t, recorded)]]

(***************************************************************************)
(* The sender's side, heard through the server and the watchers.           *)
(***************************************************************************)
Notify(p) ==
    LET id == lastSent + 1
        received == [tables EXCEPT !.open = Put(@, id, p), !.watched = @ \cup {id}]
    IN  /\ busOwned
        /\ lastSent < MaxNotifications
        /\ lastSent' = id
        /\ IF reconciling
           THEN /\ tables' = received
                /\ buffer' = Put(buffer, id, FALSE)
           ELSE /\ tables' = AdmitFresh(received, id)
                /\ UNCHANGED buffer
        /\ UNCHANGED <<reconciling, generation, serverOwned, policy, busOwned, updates,
                       ownerChanges>>

(* The sender replaces a notification; p may equal what it was, when only    *)
(* the text changes.                                                         *)
Update(id, p) ==
    LET replaced == [tables EXCEPT !.open[id] = p]
    IN  /\ busOwned
        /\ updates < MaxUpdates
        /\ updates' = updates + 1
        /\ tables' = IF id \in tables.watched \cap DOMAIN tables.live /\ ~reconciling
                     THEN QueueReplacement(replaced, id)
                     ELSE replaced
        /\ UNCHANGED <<service, busOwned, lastSent, ownerChanges>>

SenderCloses(id) ==
    /\ busOwned
    /\ tables' = CloseObject(tables, id, ClosedBySender)
    /\ UNCHANGED <<service, environment>>

(***************************************************************************)
(* The user's side.                                                        *)
(***************************************************************************)
Dismiss(key) ==
    LET owners == {i \in DOMAIN tables.live : tables.live[i].record = key
                                              /\ i \in DOMAIN tables.open}
    IN  /\ tables' = IF owners # {}
                     THEN CloseObject(tables, CHOOSE i \in owners : TRUE, Dismissed)
                     ELSE ArmScheduler(RemoveSnapshot(tables, key))
        /\ UNCHANGED <<service, environment>>

ClearHistory ==
    /\ Keys(tables) # {}
    /\ tables' = ArmScheduler(KeepRecords(tables, {}))
    /\ UNCHANGED <<service, environment>>

(* Each setting is a property with a change handler of its own.              *)
SetPolicy(p) ==
    /\ Cardinality({f \in DOMAIN p : p[f] # policy[f]}) = 1
    /\ policy' = p
    /\ tables' = [tables EXCEPT !.popups =
                    RestrictValues(@, LAMBDA popup : PopupAllowed(p, popup.urgency))]
    /\ UNCHANGED <<reconciling, generation, buffer, serverOwned, environment>>

(***************************************************************************)
(* A live reload.  The new service begins a generation and gets all open   *)
(* notifications again; the end of the generation is posted.               *)
(***************************************************************************)
BeginReload ==
    /\ generation <= MaxReloads
    /\ generation' = generation + 1
    /\ reconciling' = TRUE
    /\ buffer' = [id \in DOMAIN tables.open |-> TRUE]
    /\ tables' = ArmScheduler(
         [tables EXCEPT
            !.live = [i \in DOMAIN @ |-> [@[i] EXCEPT !.record = NoRecord,
                                                      !.seenInGeneration = FALSE,
                                                      !.updateQueued = FALSE]],
            !.history = <<>>,
            !.watched = DOMAIN tables.open,
            !.popups = <<>>,
            !.posted = Append(@, [op |-> "finish", generation |-> generation'])])
    /\ UNCHANGED <<serverOwned, policy, environment>>

(* A pointer to a notification that was closed meanwhile is null.            *)
AdmitBuffered(t, id) == IF id \in DOMAIN t.open THEN AdmitFresh(t, id) ELSE t

(* What finishGeneration does when it is still the current one.              *)
FinishedGeneration(t) ==
    LET Waiting(s, carried) == {id \in DOMAIN buffer : buffer[id] = carried
                                                       /\ id \in DOMAIN s.open}
        carriedOver == InOrder(AdmitCarried, t, Waiting(t, TRUE))
        stale == {i \in DOMAIN carriedOver.live : ~carriedOver.live[i].seenInGeneration}
        current == EraseAssociations(carriedOver, stale)
    IN  ArmScheduler(InOrder(AdmitBuffered, current, Waiting(t, FALSE)))

(* Mutant: the generation before is taken for the current one.               *)
IsPrevious(g) == reconciling /\ g = generation - 1

(* finishGeneration answers only for the generation that is being collected. *)
IsCurrent(g) == reconciling /\ g = generation

RunFinish ==
    /\ tables.posted # <<>>
    /\ Head(tables.posted).op = "finish"
    /\ LET t == [tables EXCEPT !.posted = Tail(@)]
       IN  IF IsCurrent(Head(tables.posted).generation)
           THEN /\ tables' = FinishedGeneration(t)
                /\ reconciling' = FALSE
                /\ buffer' = <<>>
           ELSE /\ tables' = t
                /\ UNCHANGED <<reconciling, buffer>>
    /\ UNCHANGED <<generation, serverOwned, policy, environment>>

(* Mutant: the mark that one is queued stays.                                *)
RunMarkedReplacement ==
    /\ tables.posted # <<>>
    /\ Head(tables.posted).op = "replace"
    /\ LET id == Head(tables.posted).id
           t == [tables EXCEPT !.posted = Tail(@)]
       IN  tables' = IF id \in DOMAIN t.live \cap DOMAIN t.open
                     THEN ProcessReplacement(t, id) ELSE t
    /\ UNCHANGED <<service, environment>>

RunReplacement ==
    /\ tables.posted # <<>>
    /\ Head(tables.posted).op = "replace"
    /\ LET id == Head(tables.posted).id
           t == [tables EXCEPT !.posted = Tail(@)]
           ready == [t EXCEPT !.live[id].updateQueued = FALSE]
       IN  tables' = IF id \notin DOMAIN t.live THEN t
                     ELSE IF id \in DOMAIN t.open THEN ProcessReplacement(ready, id)
                     ELSE ready
    /\ UNCHANGED <<service, environment>>

(***************************************************************************)
(* Time and the one timer.  The timer may be late.                         *)
(***************************************************************************)
EndDue(t, id) ==
    IF id \in DOMAIN t.open THEN ExpireNotification(t, id)
    ELSE EraseAssociation(RemoveSnapshot(t, t.live[id].record), id)

ProcessDueDeadlines ==
    LET due == {i \in DOMAIN tables.live : tables.live[i].deadline = 0}
    IN  /\ tables.timer = 0
        /\ tables' = ArmScheduler(PruneHistory(InOrder(EndDue, tables, due)))
        /\ UNCHANGED <<service, environment>>

(* A deadline, one tick later; none stays none.                              *)
Later(d) == IF d > 0 THEN d - 1 ELSE d

Nearer(a) == [a EXCEPT !.deadline = Later(@)]
Aged(r) == [r EXCEPT !.cutoff = Later(@)]

Tick ==
    /\ tables' = [tables EXCEPT
          !.timer = Later(@),
          !.live = [i \in DOMAIN @ |-> Nearer(@[i])],
          !.history = [k \in DOMAIN @ |-> Aged(@[k])]]
    /\ UNCHANGED <<service, environment>>

(***************************************************************************)
(* The bus name comes and goes; the runtime asks for its owner later.      *)
(***************************************************************************)
BusOwnerChanges ==
    /\ ownerChanges < MaxOwnerChanges
    /\ ownerChanges' = ownerChanges + 1
    /\ busOwned' = ~busOwned
    /\ UNCHANGED <<tables, service, lastSent, updates>>

(* Losing it clears live state and its records; the service then drops its   *)
(* watchers and popups.                                                      *)
RefreshServerOwnership ==
    LET lost == [KeepRecords(tables,
                             {k \in Keys(tables) : \A i \in DOMAIN tables.live :
                                                     tables.live[i].record # k})
                 EXCEPT !.live = <<>>, !.popups = <<>>]
        cleared == IF DOMAIN tables.live = {} THEN tables ELSE ArmScheduler(lost)
    IN  /\ serverOwned # busOwned
        /\ serverOwned' = busOwned
        /\ tables' = IF busOwned THEN tables
                     ELSE [cleared EXCEPT !.watched = {}, !.popups = <<>>]
        /\ UNCHANGED <<reconciling, generation, buffer, policy, environment>>

Init ==
    /\ tables = [open |-> <<>>, watched |-> {}, live |-> <<>>, history |-> <<>>,
                 nextRecord |-> 1, popups |-> <<>>, timer |-> Never,
                 posted |-> <<[op |-> "finish", generation |-> 1]>>]
    /\ buffer = <<>>
    /\ reconciling = TRUE
    /\ generation = 1
    /\ serverOwned = FALSE
    /\ policy \in Policies
    /\ busOwned \in BOOLEAN
    /\ lastSent = 0
    /\ updates = 0
    /\ ownerChanges = 0

Next ==
    \/ \E p \in Offers : Notify(p)
    \/ \E id \in DOMAIN tables.open, p \in Offers : Update(id, p)
    \/ \E id \in DOMAIN tables.open : SenderCloses(id)
    \/ \E key \in Keys(tables) : Dismiss(key)
    \/ ClearHistory
    \/ \E p \in Policies : SetPolicy(p)
    \/ BeginReload
    \/ RunFinish
    \/ RunReplacement
    \/ ProcessDueDeadlines
    \/ Tick
    \/ BusOwnerChanges
    \/ RefreshServerOwnership

(* The event loop runs what is posted and fires a timer that is due, and     *)
(* time passes: weak fairness of each, written out with its guard.           *)
Fairness ==
    /\ []<>(tables.posted = <<>>) \/ []<><<RunFinish \/ RunReplacement>>_vars
    /\ []<>(tables.timer # 0) \/ []<><<ProcessDueDeadlines>>_vars
    /\ WF_vars(Tick)

Spec == Init /\ [][Next]_vars /\ Fairness
=============================================================================
