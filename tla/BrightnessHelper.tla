-------------------------- MODULE BrightnessHelper --------------------------
(***************************************************************************)
(* src/brightness/main.cpp: the helper process between the shell and       *)
(* PowerDevil.  A command names a display by a key that holds the          *)
(* generation of the service it was published under; a write waits in      *)
(* pendingRequests until a snapshot confirms the change that PowerDevil    *)
(* signalled for it, or it goes stale, fails or times out.                 *)
(*                                                                         *)
(* The process has one event loop, so a handler is one action, blocking    *)
(* reads included.  PowerDevil and the bus are external: signals and owner *)
(* changes arrive in order (wire), replies and timers at any point between *)
(* them, and a call that the bus gave up on may still be carried out.      *)
(* Ratios are levels, and a deadline is a flag that is raised at any time. *)
(***************************************************************************)
EXTENDS Integers, Sequences, FiniteSets, Functions, SequencesExt, KeyedTables

CONSTANTS
    Displays,         \* the names PowerDevil may list
    Maxima,           \* the values MaxBrightness may have
    MaximumDisplays,  \* MaximumDisplays
    MaxWrites,        \* bound: commands sent by the shell
    MaxOwners,        \* bound: instances of the service
    MaxServiceSteps   \* bound: changes nobody asked this helper for, owners included

VARIABLES
    activeOwner, ownerGeneration,
    displays,           \* displays: name -> [generation, level, maximum]
    pendingRequests,    \* name -> [id, maximum, due]
    displayFailures,    \* name -> outcome of the last request that failed
    observedChanges,    \* sequence of [name, level, by]
    snapshotScheduled,
    missed,             \* history: the last snapshot failed
    requestTimer,       \* the single-shot timer is running
    shown,              \* the last state written to the shell
    results,            \* outcomes sent for each request
    busOwner,           \* external: owner of the service name, 0 for none
    screens,            \* external: name -> [level, maximum] in PowerDevil
    wire,               \* external: signals on their way, oldest first
    writes,             \* external: calls not finished on both sides
    applied,            \* external: requests PowerDevil carried out
    serviceSteps        \* external changes so far

brightnessHelper == <<activeOwner, ownerGeneration, displays, pendingRequests, displayFailures,
                      observedChanges, snapshotScheduled, missed, requestTimer, shown, results>>
powerDevil == <<busOwner, screens, wire, writes, applied, serviceSteps>>
vars == <<brightnessHelper, powerDevil>>

None == 0
Writes == 1..MaxWrites
Keys == (1..MaxOwners) \X Displays
Final == {"confirmed", "noop", "stale", "busy", "timeout", "backend", "invalid", "withdrawn"}

IdsOf(requests) == {requests[n].id : n \in DOMAIN requests}
Answer(ids, outcome) == [r \in Writes |->
    IF r \in ids THEN Append(results[r], outcome) ELSE results[r]]

(* What publishState would write now.                                       *)
State == [available |-> activeOwner # None,
          displays |-> displays,
          pending |-> DOMAIN pendingRequests \cap DOMAIN displays,
          failures |-> Restrict(displayFailures, DOMAIN displayFailures \cap DOMAIN displays)]
Unavailable == [available |-> FALSE, displays |-> <<>>, pending |-> {}, failures |-> <<>>]

(* Mutant: the state is written before the change it reports.               *)
PublishEarly == shown' = State
PublishState == shown' = State'

(* Mutant: removing a request always stops the timer.                       *)
StopRequestTimer == requestTimer' = FALSE
ArmRequestTimer == requestTimer' = (pendingRequests' # <<>>)

ScheduleSnapshot == snapshotScheduled' = (snapshotScheduled \/ activeOwner # None)

BrightnessInit ==
    /\ busOwner \in {None, 1}
    /\ activeOwner = busOwner
    /\ ownerGeneration = busOwner
    /\ snapshotScheduled = (busOwner # None)
    /\ displays = <<>> /\ pendingRequests = <<>> /\ displayFailures = <<>>
    /\ observedChanges = <<>> /\ requestTimer = FALSE /\ missed = FALSE
    /\ shown = Unavailable
    /\ results = [r \in Writes |-> <<>>]
    /\ screens = [n \in Displays |-> [level |-> 0, maximum |-> 1]]
    /\ wire = <<>> /\ writes = {} /\ applied = {} /\ serviceSteps = 0

-----------------------------------------------------------------------------
(* Commands of the shell.                                                   *)

Asked == {r \in Writes : results[r] # <<>>}
Fresh(r) == r \in Writes /\ r = Cardinality(Asked) + 1

Listed(key) ==
    /\ activeOwner # None
    /\ key[2] \in DOMAIN displays
    /\ displays[key[2]].generation = key[1]

RefuseRequest(r, key) ==
    /\ Fresh(r)
    /\ \/ results' = Answer({r}, "invalid")
       \/ ~Listed(key) /\ results' = Answer({r}, "stale")
       \/ /\ Listed(key) /\ key[2] \in DOMAIN pendingRequests
          /\ results' = Answer({r}, "busy")
    /\ UNCHANGED <<activeOwner, ownerGeneration, displays, pendingRequests, displayFailures,
                   observedChanges, snapshotScheduled, missed, requestTimer, powerDevil>>
    /\ PublishState

RequestBrightness(r, key, level) ==
    LET name == key[2] IN
    /\ Fresh(r) /\ Listed(key) /\ name \notin DOMAIN pendingRequests
    /\ level \in 0..displays[name].maximum
    /\ displayFailures' = Omit(displayFailures, {name})
    /\ IF level = displays[name].level
       THEN /\ results' = Answer({r}, "noop")
            /\ UNCHANGED <<pendingRequests, requestTimer, writes>>
       ELSE /\ pendingRequests' = Put(pendingRequests, name,
                 [id |-> r, maximum |-> displays[name].maximum, due |-> FALSE])
            /\ ArmRequestTimer
            /\ results' = Answer({r}, "pending")
            /\ writes' = writes \cup {[id |-> r, name |-> name, owner |-> activeOwner,
                                       key |-> key, level |-> level, phase |-> "sent"]}
    /\ UNCHANGED <<activeOwner, ownerGeneration, displays, observedChanges, snapshotScheduled,
                   missed, busOwner, screens, wire, applied, serviceSteps>>
    /\ PublishState

(* RefuseRequest answers a line that fails the schema but has an id too.    *)
HandleCommand(r) ==
    \E key \in Keys :
        \/ RefuseRequest(r, key)
        \/ \E level \in 0..1 : RequestBrightness(r, key, level)

-----------------------------------------------------------------------------
(* Signals and owner changes, in the order they were sent.                  *)

Arrives(type) == wire # <<>> /\ Head(wire).type = type /\ wire' = Tail(wire)

(* Mutant: any change of a display that waits is taken for its own.         *)
OriginByDisplay(m) ==
    IF m.name \in DOMAIN pendingRequests THEN pendingRequests[m.name].id ELSE None
Origin(m) ==
    IF /\ m.name \in DOMAIN pendingRequests
       /\ pendingRequests[m.name].id = m.by
    THEN m.by
    ELSE None

QueueObserved(change) ==
    IF \E i \in DOMAIN observedChanges : observedChanges[i].name = change.name
    THEN [i \in DOMAIN observedChanges |->
             IF observedChanges[i].name = change.name THEN change ELSE observedChanges[i]]
    ELSE Append(IF Len(observedChanges) >= MaximumDisplays
                THEN Tail(observedChanges) ELSE observedChanges, change)

OnBrightnessChanged ==
    /\ Arrives("changed")
    /\ LET m == Head(wire) IN
       observedChanges' = QueueObserved([name |-> m.name, level |-> m.level, by |-> Origin(m)])
    /\ ScheduleSnapshot
    /\ UNCHANGED <<activeOwner, ownerGeneration, displays, pendingRequests, displayFailures,
                   missed, requestTimer, shown, results,
                   busOwner, screens, writes, applied, serviceSteps>>

ClearPending(name, outcome) ==
    /\ pendingRequests' = Omit(pendingRequests, {name})
    /\ IF name \in DOMAIN pendingRequests
       THEN /\ ArmRequestTimer
            /\ results' = Answer({pendingRequests[name].id}, outcome)
            /\ PublishState
       ELSE UNCHANGED <<requestTimer, results, shown>>

OnBrightnessRangeChanged ==
    /\ Arrives("range")
    /\ UNCHANGED <<activeOwner, ownerGeneration, displays, displayFailures, observedChanges,
                   missed, busOwner, screens, writes, applied, serviceSteps>>
    /\ ScheduleSnapshot
    /\ ClearPending(Head(wire).name, "stale")

OnDisplayListed ==
    /\ Arrives("listed")
    /\ ScheduleSnapshot
    /\ UNCHANGED <<activeOwner, ownerGeneration, displays, pendingRequests, displayFailures,
                   observedChanges, missed, requestTimer, shown, results,
                   busOwner, screens, writes, applied, serviceSteps>>

(* Waiting requests get no outcome: the shell is told there is no service.  *)
ClearAllPending ==
    /\ pendingRequests' = <<>>
    /\ requestTimer' = FALSE
    /\ results' = Answer(IdsOf(pendingRequests), "withdrawn")

DetachOwner ==
    /\ observedChanges' = <<>> /\ displays' = <<>> /\ displayFailures' = <<>>
    /\ ClearAllPending

OnServiceOwnerChanged ==
    /\ Arrives("owner")
    /\ Head(wire).owner # activeOwner
    /\ DetachOwner
    /\ shown' = Unavailable
    /\ activeOwner' = Head(wire).owner
    /\ snapshotScheduled' = (activeOwner' # None) /\ missed' = FALSE
    /\ ownerGeneration' = ownerGeneration + (IF activeOwner' # None THEN 1 ELSE 0)
    /\ UNCHANGED <<busOwner, screens, writes, applied, serviceSteps>>

-----------------------------------------------------------------------------
(* Snapshots: blocking reads, so PowerDevil may be ahead of its signals.    *)

Seen(change, refreshed) ==
    /\ change.name \in DOMAIN refreshed
    /\ refreshed[change.name].level = change.level

RefreshSnapshot(names) ==
    LET refreshed == [n \in names |-> [generation |-> ownerGeneration, level |-> screens[n].level,
                                       maximum |-> screens[n].maximum]]
        stale == {n \in DOMAIN pendingRequests :
                    n \notin names \/ refreshed[n].maximum # pendingRequests[n].maximum}
        kept == Omit(pendingRequests, stale)
        seen == {c \in ToSet(observedChanges) : Seen(c, refreshed)}
        confirmed == {c \in seen : c.by # None /\ c.name \in DOMAIN kept /\ kept[c.name].id = c.by}
        cleared == {c.name : c \in confirmed \cup {d \in seen : d.by = None}}
    IN
    /\ snapshotScheduled /\ activeOwner # None /\ busOwner = activeOwner
    /\ names \subseteq DOMAIN screens /\ Cardinality(names) <= MaximumDisplays
    /\ snapshotScheduled' = FALSE /\ missed' = FALSE
    /\ displays' = refreshed
    /\ pendingRequests' = Omit(kept, {c.name : c \in confirmed})
    /\ ArmRequestTimer
    /\ displayFailures' = Omit(displayFailures, cleared)
    /\ observedChanges' = <<>>
    /\ results' = [r \in Writes |->
           CASE r \in {pendingRequests[n].id : n \in stale} -> Append(results[r], "stale")
             [] r \in {c.by : c \in confirmed} -> Append(results[r], "confirmed")
             [] OTHER -> results[r]]
    /\ UNCHANGED <<activeOwner, ownerGeneration, powerDevil>>
    /\ PublishState

(* A read fails, or the name has a new owner: what was observed is kept.    *)
SnapshotFails ==
    /\ snapshotScheduled
    /\ snapshotScheduled' = FALSE /\ missed' = TRUE
    /\ UNCHANGED <<activeOwner, ownerGeneration, displays, pendingRequests, displayFailures,
                   observedChanges, requestTimer, shown, results, powerDevil>>

-----------------------------------------------------------------------------
(* Replies to SetBrightnessWithContext, and deadlines.                      *)

WaitsFor(w) ==
    /\ activeOwner = w.owner
    /\ w.name \in DOMAIN pendingRequests
    /\ pendingRequests[w.name].id = w.id

(* The bus has given up when no reply came: the call may yet be carried out.*)
WriteFails(w) ==
    /\ w.phase \in {"sent", "done"}
    /\ writes' = (writes \ {w}) \cup
           (IF w.phase = "sent" /\ w.owner = busOwner THEN {[w EXCEPT !.phase = "given up"]} ELSE {})
    /\ \E outcome \in {"timeout", "backend"} :
         IF WaitsFor(w)
         THEN /\ pendingRequests' = Omit(pendingRequests, {w.name})
              /\ displayFailures' = Put(displayFailures, w.name, outcome)
              /\ ArmRequestTimer
              /\ results' = Answer({pendingRequests[w.name].id}, outcome)
              /\ UNCHANGED <<activeOwner, displays>>
              /\ PublishState
         ELSE UNCHANGED <<activeOwner, displays, pendingRequests, displayFailures,
                          requestTimer, results, shown>>
    /\ UNCHANGED <<ownerGeneration, observedChanges, snapshotScheduled, missed,
                   busOwner, screens, wire, applied, serviceSteps>>

WriteSucceeds(w) ==
    /\ w.phase = "done"
    /\ writes' = writes \ {w}
    /\ UNCHANGED <<brightnessHelper, busOwner, screens, wire, applied, serviceSteps>>

DeadlinePasses(n) ==
    /\ n \in DOMAIN pendingRequests /\ ~pendingRequests[n].due
    /\ pendingRequests' = [pendingRequests EXCEPT ![n].due = TRUE]
    /\ UNCHANGED <<activeOwner, ownerGeneration, displays, displayFailures, observedChanges,
                   snapshotScheduled, missed, requestTimer, shown, results, powerDevil>>

ExpireRequests ==
    LET expired == {n \in DOMAIN pendingRequests : pendingRequests[n].due} IN
    /\ requestTimer /\ expired # {}
    /\ displayFailures' = Over([n \in expired |-> "timeout"], displayFailures)
    /\ pendingRequests' = Omit(pendingRequests, expired)
    /\ ArmRequestTimer
    /\ results' = Answer({pendingRequests[n].id : n \in expired}, "timeout")
    /\ UNCHANGED <<activeOwner, ownerGeneration, displays, observedChanges, snapshotScheduled,
                   missed, powerDevil>>
    /\ PublishState

-----------------------------------------------------------------------------
(* PowerDevil.                                                              *)

Changed(n, level, by) == [type |-> "changed", name |-> n, level |-> level, by |-> by]
Sends(message) == wire' = Append(wire, message)

ServicePerforms(w) ==
    /\ w.phase \in {"sent", "given up"} /\ w.owner = busOwner
    /\ w.name \in DOMAIN screens /\ w.level <= screens[w.name].maximum
    /\ screens' = [screens EXCEPT ![w.name].level = w.level]
    /\ IF screens[w.name].level = w.level
       THEN UNCHANGED wire ELSE Sends(Changed(w.name, w.level, w.id))
    /\ writes' = (writes \ {w}) \cup (IF w.phase = "sent" THEN {[w EXCEPT !.phase = "done"]} ELSE {})
    /\ applied' = applied \cup {w.id}
    /\ UNCHANGED <<brightnessHelper, busOwner, serviceSteps>>

Counted == serviceSteps < MaxServiceSteps /\ serviceSteps' = serviceSteps + 1

ServiceStep ==
    /\ busOwner # None /\ Counted
    /\ \/ \E n \in DOMAIN screens, level \in 0..1 :
             /\ level <= screens[n].maximum /\ level # screens[n].level
             /\ screens' = [screens EXCEPT ![n].level = level]
             /\ Sends(Changed(n, level, None))
       \/ \E n \in DOMAIN screens, maximum \in Maxima :
             /\ maximum # screens[n].maximum /\ screens[n].level <= maximum
             /\ screens' = [screens EXCEPT ![n].maximum = maximum]
             /\ Sends([type |-> "range", name |-> n])
       \/ \E n \in Displays :
             /\ screens' = IF n \in DOMAIN screens THEN Omit(screens, {n})
                           ELSE Put(screens, n, [level |-> 0, maximum |-> 1])
             /\ Sends([type |-> "listed", name |-> n])
    /\ UNCHANGED <<brightnessHelper, busOwner, writes, applied>>

ServiceOwnerChanges(owner) ==
    /\ Counted
    /\ owner \in {None, ownerGeneration + 1} /\ owner # busOwner
    /\ \A i \in DOMAIN wire : wire[i].type # "owner"
    /\ busOwner' = owner
    /\ Sends([type |-> "owner", owner |-> owner])
    /\ writes' = {w \in writes : w.phase # "given up"}
    /\ UNCHANGED <<brightnessHelper, screens, applied>>

BrightnessNext ==
    \/ \E r \in Writes : HandleCommand(r)
    \/ OnBrightnessChanged
    \/ OnBrightnessRangeChanged
    \/ OnDisplayListed
    \/ OnServiceOwnerChanged
    \/ \E names \in SUBSET DOMAIN screens : RefreshSnapshot(names)
    \/ SnapshotFails
    \/ \E w \in writes : WriteFails(w) \/ WriteSucceeds(w) \/ ServicePerforms(w)
    \/ \E n \in Displays : DeadlinePasses(n)
    \/ ExpireRequests
    \/ ServiceStep
    \/ \E owner \in 0..MaxOwners : ServiceOwnerChanges(owner)

BrightnessSpec == BrightnessInit /\ [][BrightnessNext]_vars

-----------------------------------------------------------------------------
TypeOK ==
    /\ {activeOwner, ownerGeneration, busOwner} \subseteq 0..MaxOwners
    /\ IsInjective([n \in DOMAIN pendingRequests |-> pendingRequests[n].id])
    /\ DOMAIN pendingRequests \cup DOMAIN displays \subseteq Displays
    /\ Len(observedChanges) <= MaximumDisplays
    /\ \A r \in Writes : Len(results[r]) <= 2

(* The timer runs whenever a request waits, on every path that adds or      *)
(* removes one.                                                             *)
TimerArmed == pendingRequests # <<>> => requestTimer

(* Whatever the order of commands, signals, replies and timeouts, the shell *)
(* has been shown exactly the displays, waiting writes and failures the     *)
(* helper now acts on, and nothing once the helper has heard that PowerDevil*)
(* is gone.  With no signal on its way and no snapshot due, these displays  *)
(* are as PowerDevil has them, but for one case: after a snapshot that      *)
(* failed nothing reads them again until the next signal.                   *)
ShellIsCurrent ==
    /\ shown = State \/ (shown = Unavailable /\ displays = <<>>)
    /\ activeOwner = None => ~shown.available /\ shown.displays = <<>>
    /\ wire = <<>> /\ ~snapshotScheduled /\ ~missed =>
          \A n \in DOMAIN shown.displays :
             /\ n \in DOMAIN screens
             /\ shown.displays[n].level = screens[n].level
             /\ shown.displays[n].maximum = screens[n].maximum

(* "confirmed" is only said of a write PowerDevil carried out, not of       *)
(* someone else's change that happened to arrive meanwhile.                 *)
ConfirmedIsApplied ==
    \A r \in Writes : "confirmed" \in ToSet(results[r]) => r \in applied

(* A write is only sent to the instance that published the key.             *)
WritesReachTheirService == \A w \in writes : w.key[1] = w.owner

(* Every write command is a request kept or refused as RequestPromise says. *)
Promise == INSTANCE RequestPromise WITH
    Requests <- Writes,
    waiting <- {r \in Writes : results[r] = <<"pending">>},
    ended <- {r \in Writes : Cardinality({i \in DOMAIN results[r] : results[r][i] \in Final}) = 1}

BrightnessFairness == WF_vars(ExpireRequests) /\ \A n \in Displays : WF_vars(DeadlinePasses(n))
BrightnessSettled == pendingRequests = <<>>
=============================================================================
