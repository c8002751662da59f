----------------------- MODULE NotificationProperties -----------------------
(* What the notification runtime promises.                                   *)
EXTENDS NotificationRuntime

open == tables.open
watched == tables.watched
live == tables.live
history == tables.history
popups == tables.popups

(* The tables hold what their declarations say.                              *)
TypeOK ==
    /\ DOMAIN open \subseteq Ids /\ \A i \in DOMAIN open : open[i] \in Offers
    /\ watched \subseteq DOMAIN open
    /\ DOMAIN live \subseteq Ids /\ \A i \in DOMAIN live : live[i] \in Lives
    /\ Keys(tables) \subseteq Nat \ {0} /\ \A k \in Keys(tables) : history[k] \in Records
    /\ DOMAIN popups \subseteq Ids
    /\ \A i \in DOMAIN popups : popups[i] \in [revision : Nat, urgency : Urgencies]
    /\ tables.posted \in Seq(Posts)
    /\ tables.timer \in Nat \cup {Never}
    /\ DOMAIN buffer \subseteq Ids /\ \A i \in DOMAIN buffer : buffer[i] \in BOOLEAN
    /\ {reconciling, serverOwned, busOwned} \subseteq BOOLEAN
    /\ generation \in 1..(MaxReloads + 1)
    /\ policy \in Policies

(* Both caps hold whatever reload, replacement or eviction ran; no record    *)
(* bears a number that was not handed out; a live notification's link leads  *)
(* to a record that is still there and still live, and to one of its own.    *)
HistorySound ==
    /\ Cardinality(DOMAIN live) <= MaxLive
    /\ Cardinality(Keys(tables)) <= MaxHistory
    /\ \A k \in Keys(tables) : k < tables.nextRecord
    /\ \A i \in DOMAIN live : live[i].record # NoRecord =>
         /\ live[i].record \in Keys(tables) /\ history[live[i].record].live
         /\ \A j \in DOMAIN live \ {i} : live[j].record # live[i].record

(* Until the first reload a record that is shown as live belongs to a live   *)
(* notification: every way of closing one removes or expires its record.     *)
LiveRecordsOwned ==
    generation = 1 =>
        \A k \in Keys(tables) : history[k].live => \E i \in DOMAIN live : live[i].record = k

(* README.md:219: sender-closed and dismissed records are removed at once,   *)
(* and expired ones are kept as expired.  So once nothing is open and live   *)
(* any more no record is left that is shown as live.                         *)
ClosedRecordsRemoved ==
    open = <<>> /\ live = <<>> => \A k \in Keys(tables) : ~history[k].live

(* A notification the service watches and the runtime's table agree, except  *)
(* while a reload is being reconciled: none is watched and not live, which   *)
(* nobody would ever expire, and what the runtime keeps of it is what the    *)
(* sender last said, once no replacement is queued.  Before any reload that  *)
(* holds of its record too: a transient one has none, any other shows the    *)
(* urgency last sent.                                                        *)
LiveMatchesServer ==
    ~reconciling => \A i \in watched :
        /\ i \in DOMAIN live
        /\ ~live[i].updateQueued =>
             /\ live[i].urgency = open[i].urgency
             /\ live[i].transient = open[i].transient
             /\ generation = 1 /\ live[i].record # NoRecord =>
                  /\ ~open[i].transient
                  /\ history[live[i].record].urgency = open[i].urgency

(* A replacement that is marked as queued is waiting on the event loop: no   *)
(* close, reload or re-use of the table leaves the mark behind, after which  *)
(* updates of that notification would never be seen again.                   *)
QueuedIsPosted ==
    \A i \in DOMAIN live : live[i].updateQueued =>
        \E n \in DOMAIN tables.posted :
            tables.posted[n].op = "replace" /\ tables.posted[n].id = i

(* The one timer is never later than the earliest deadline.                  *)
ExpiryArmed ==
    LET due == ({live[i].deadline : i \in DOMAIN live} \ {Never})
               \cup {history[k].cutoff : k \in Keys(tables)}
    IN  due # {} => tables.timer # Never /\ tables.timer <= Min(due)

(* What is on screen may be there under the present settings, and is the     *)
(* latest revision of a live notification; before any reload, judged by the  *)
(* urgency the notification has.  (A replacement queued before a reload runs *)
(* while updates are ignored: what it presents can be behind the sender.)    *)
PopupsCurrent ==
    \A i \in DOMAIN popups :
        /\ PopupAllowed(policy, popups[i].urgency)
        /\ i \in DOMAIN live
        /\ popups[i].revision = live[i].revision
        /\ generation = 1 => popups[i].urgency = live[i].urgency

(* When a new notification makes another one leave, the one that leaves is   *)
(* not more worth keeping than any that stays: judged after the new record   *)
(* has pushed old ones out of history, as the runtime does.                  *)
RoomFromLowestClass ==
    [][lastSent' # lastSent /\ ~reconciling =>
         LET class(i) == CapacityClass(tables', live[i].transient, live[i].urgency,
                                       live[i].record)
         IN  \A v \in DOMAIN live \ DOMAIN live' : \A w \in DOMAIN live' \cap DOMAIN live :
                class(v) <= class(w) /\ (class(v) = class(w) => v < w)]_vars

(* A notification that has ended does not come back into the table, and a    *)
(* record that left history or expired is never live again.                  *)
NothingReturns ==
    [][/\ DOMAIN live' \subseteq DOMAIN live \cup DOMAIN open \cup {lastSent'}
       /\ \A k \in DOMAIN history' : history'[k].live =>
            \/ k >= tables.nextRecord
            \/ /\ k \in DOMAIN history
               /\ history[k].live
               /\ history[k].cutoff >= history'[k].cutoff]_vars

(* A reload ends, and with it the time in which updates are not looked at.   *)
ReloadEnds == reconciling ~> ~reconciling

(* A notification that has a deadline ends or loses the deadline.            *)
DeadlinesEnd ==
    \A i \in Ids : (i \in DOMAIN live /\ live[i].deadline # Never)
                     ~> (i \notin DOMAIN live \/ live[i].deadline = Never)

(* Every record leaves history in the end.                                   *)
RecordsAgeOut ==
    \A k \in 1..(MaxNotifications * (MaxReloads + 1) + MaxUpdates) :
        (k \in Keys(tables)) ~> (k \notin Keys(tables))
=============================================================================
