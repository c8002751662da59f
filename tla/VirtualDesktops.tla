--------------------------- MODULE VirtualDesktops ---------------------------
(***************************************************************************)
(* Virtual desktops, from KWin to the island: the script the helper loads  *)
(* into KWin (src/kwin-virtual-desktops/workspace_consensus.js.in), the    *)
(* helper process that authenticates what the script publishes (main.cpp), *)
(* and the adapter that owns the helper, restarts it and announces         *)
(* confirmed switches (qml/KWinVirtualDesktopAdapter.qml).                 *)
(*                                                                         *)
(* KWin is external: the user switches, outputs and desktops come and go,  *)
(* KWin itself restarts, a call to it fails or times out although it was   *)
(* carried out.  The helper's calls block, so its handlers are atomic.     *)
(* A renamed desktop changes the list as an added one does.  A random      *)
(* token is a number in use nowhere else; the two pipes are lines.out and  *)
(* lines.ready, and are read to the end before the exit of the process.    *)
(***************************************************************************)
EXTENDS Integers, Sequences, FiniteSets, Functions, KeyedTables

CONSTANTS
    Outputs, Desktops,      \* what KWin may list
    MaximumSourceVersion,   \* maximumSourceVersion, 2^31 - 1 in the code
    MaxDesktopEvents        \* bound: switches, changes, restarts of KWin, deaths, failed calls, slow starts

VARIABLES
    kwin,           \* external: [owner, desktops, current: output -> desktop]
    scripts,        \* external: generation -> [previous, change, structural, timer]
    kwinWire,       \* external: messages to the helper, oldest first
    observer,       \* the helper process
    lines,          \* its pipes: [out, ready]
    adapter,        \* KWinVirtualDesktopAdapter.state and its timers
    feedback,       \* history: [held, announced, switched, wrong]
    desktopEvents   \* count of what MaxDesktopEvents bounds

desktopVars == <<kwin, scripts, kwinWire, observer, lines, adapter, feedback, desktopEvents>>

None == 0
NoChange == [output |-> "none", from |-> None, to |-> None]
Unavailable == [desktops |-> {}, current |-> <<>>, transient |-> "none"]
Off == [state |-> "off", epoch |-> None, owner |-> None, generation |-> None,
        received |-> FALSE, timer |-> FALSE, last |-> <<>>]

Costs(n) == desktopEvents + n <= MaxDesktopEvents /\ desktopEvents' = desktopEvents + n
Unused(S) == CHOOSE i \in 1..(Cardinality(S) + 1) : i \notin S

DesktopInit ==
    /\ kwin \in {[owner |-> owner, desktops |-> Desktops, current |-> [n \in Outputs |-> 1]] :
                    owner \in {None, 1}}
    /\ scripts = <<>> /\ kwinWire = <<>> /\ observer = Off
    /\ lines = [out |-> <<>>, ready |-> None]
    /\ adapter \in {[helperPath |-> given, shouldRun |-> given, accepting |-> FALSE, ready |-> FALSE,
                      attempts |-> 0, epoch |-> None, pendingReady |-> None, retired |-> {},
                      watchdog |-> FALSE, restart |-> FALSE, shutdown |-> "no",
                      snapshot |-> Unavailable, records |-> <<>>, retiredSources |-> <<>>,
                      minted |-> [n \in Outputs |-> 0]] : given \in BOOLEAN}
    /\ feedback = [held |-> <<>>, announced |-> {}, switched |-> {}, wrong |-> {}]
    /\ desktopEvents = 0

-----------------------------------------------------------------------------
(* The script.                                                              *)

ScheduleRecompute(change) ==
    [g \in DOMAIN scripts |->
        [scripts[g] EXCEPT !.change = IF change = NoChange THEN @ ELSE change,
                           !.structural = @ \/ change = NoChange,
                           !.timer = TRUE]]

Seen(transient) == IF DOMAIN kwin.current = {} THEN Unavailable
                   ELSE [desktops |-> kwin.desktops, current |-> kwin.current,
                         transient |-> transient]

(* Mutant: a structural change does not hide the switch it came with.       *)
LastChange(s) == s.change
DesktopChange(s) == IF s.structural THEN NoChange ELSE s.change

MarkConfirmedTransient(change, previous) ==
    IF /\ change.output \in DOMAIN kwin.current \cap DOMAIN previous
       /\ change.from # change.to
       /\ kwin.current[change.output] = change.to
       /\ previous[change.output] = change.from
    THEN change.output ELSE "none"

Recompute(g) ==
    LET s == scripts[g] IN
    /\ s.timer
    /\ scripts' = [scripts EXCEPT ![g] = [previous |-> kwin.current, change |-> NoChange,
                                          structural |-> FALSE, timer |-> FALSE]]
    /\ kwinWire' = Append(kwinWire,
           [type |-> "publish", owner |-> kwin.owner, generation |-> g,
            snapshot |-> Seen(MarkConfirmedTransient(DesktopChange(s), s.previous))])
    /\ UNCHANGED <<kwin, observer, lines, adapter, feedback, desktopEvents>>

-----------------------------------------------------------------------------
(* KWin.                                                                    *)

SwitchDesktop(n, d) ==
    /\ kwin.owner # None /\ n \in DOMAIN kwin.current /\ d \in kwin.desktops \ {kwin.current[n]}
    /\ kwin' = [kwin EXCEPT !.current[n] = d]
    /\ scripts' = ScheduleRecompute([output |-> n, from |-> kwin.current[n], to |-> d])
    /\ feedback' = [feedback EXCEPT !.switched = @ \cup {<<n, d>>}]

ChangeScreens(n) ==
    /\ kwin.owner # None
    /\ IF n \in DOMAIN kwin.current THEN kwin' = [kwin EXCEPT !.current = Omit(@, {n})]
       ELSE \E d \in kwin.desktops : kwin' = [kwin EXCEPT !.current = Put(@, n, d)]
    /\ scripts' = ScheduleRecompute(NoChange)
    /\ UNCHANGED feedback

(* Outputs that show a removed desktop are moved, which is signalled first. *)
ChangeDesktops(d) ==
    /\ kwin.owner # None
    /\ IF d \notin kwin.desktops
       THEN /\ kwin' = [kwin EXCEPT !.desktops = @ \cup {d}]
            /\ scripts' = ScheduleRecompute(NoChange)
       ELSE \E e \in kwin.desktops \ {d} :
            LET moved == {n \in DOMAIN kwin.current : kwin.current[n] = d} IN
            /\ kwin' = [kwin EXCEPT !.desktops = @ \ {d},
                                    !.current = Over([n \in moved |-> e], @)]
            /\ \E n \in IF moved = {} THEN {"none"} ELSE moved :
                 scripts' = [g \in DOMAIN scripts |->
                     [scripts[g] EXCEPT !.structural = TRUE, !.timer = TRUE,
                         !.change = IF n = "none" THEN @ ELSE [output |-> n, from |-> d, to |-> e]]]
    /\ UNCHANGED feedback

WorkspaceChanges ==
    /\ Costs(1)
    /\ \/ \E n \in Outputs, d \in Desktops : SwitchDesktop(n, d)
       \/ \E n \in Outputs : ChangeScreens(n)
       \/ \E d \in Desktops : ChangeDesktops(d)
    /\ UNCHANGED <<kwinWire, observer, lines, adapter>>

KWinOwners == {kwin.owner, observer.owner} \cup {kwinWire[i].owner : i \in DOMAIN kwinWire}

KWinRestarts ==
    /\ Costs(1)
    /\ kwin' = [kwin EXCEPT !.owner = IF kwin.owner = None THEN Unused(KWinOwners) ELSE None]
    /\ scripts' = <<>>
    /\ kwinWire' = IF observer.state = "off" THEN <<>>
                   ELSE Append(kwinWire, [type |-> "owner", owner |-> kwin'.owner])
    /\ UNCHANGED <<observer, lines, adapter, feedback>>

-----------------------------------------------------------------------------
(* The helper.                                                              *)

Working == observer.state \in {"starting", "running"}

PublishSnapshot(o, snapshot) ==
    /\ observer' = [o EXCEPT !.last = snapshot]
    /\ lines' = IF o.last = snapshot THEN lines
                ELSE [lines EXCEPT !.out = Append(@, [epoch |-> o.epoch, snapshot |-> snapshot])]

(* The possible ends of retireGeneration: [observer, scripts, cost].  The   *)
(* script goes, with its KWin or by stop and unload, unless these fail.     *)
Retirements(o) ==
    LET idle == [o EXCEPT !.generation = None, !.received = FALSE, !.timer = FALSE]
        gone == Omit(scripts, {o.generation})
    IN
    {[observer |-> idle, scripts |-> gone, cost |-> 0]}
        \cup (IF gone = scripts \/ kwin.owner # o.owner THEN {}
              ELSE {[observer |-> idle, scripts |-> scripts, cost |-> 1]})

DetachOwner(o) == {[r EXCEPT !.observer.owner = None] : r \in Retirements(o)}

(* The possible ends of attachOwner.  A run that failed may have run, and   *)
(* its stop may have failed too.  Before initialize() the helper has no     *)
(* address a script could publish to.                                       *)
AttachOwner(owner, r) ==
    LET g == Unused(DOMAIN r.scripts \cup {kwinWire[i].generation : i \in
                       {j \in DOMAIN kwinWire : kwinWire[j].type = "publish"}})
        attached == [r.observer EXCEPT !.owner = owner]
        loaded == IF attached.state = "starting" THEN r.scripts
                  ELSE Put(r.scripts, g, [previous |-> <<>>, change |-> NoChange,
                                          structural |-> TRUE, timer |-> TRUE])
    IN
    IF kwin.owner # owner THEN {[r EXCEPT !.observer = attached]}
    ELSE {[observer |-> [attached EXCEPT !.generation = g, !.timer = TRUE],
           scripts |-> loaded, cost |-> r.cost],
          [observer |-> attached, scripts |-> r.scripts, cost |-> r.cost + 1],
          [observer |-> attached, scripts |-> loaded, cost |-> r.cost + 1]}

Reattach(owner, o) ==
    UNION {IF owner = None THEN {r} ELSE AttachOwner(owner, r) : r \in DetachOwner(o)}

Reaches(r, snapshot) == scripts' = r.scripts /\ Costs(r.cost) /\ PublishSnapshot(r.observer, snapshot)

(* The owner is read from the bus, which may be ahead of its signals.       *)
Initialize ==
    LET o == [observer EXCEPT !.state = "running"] IN
    /\ observer.state = "starting"
    /\ \E r \in IF kwin.owner \in {None, o.owner}
                THEN {[observer |-> o, scripts |-> scripts, cost |-> 0]}
                ELSE Reattach(kwin.owner, o) :
         /\ scripts' = r.scripts /\ Costs(r.cost)
         /\ observer' = [r.observer EXCEPT !.last = Unavailable]
    /\ lines' = [out |-> IF o.last = Unavailable THEN lines.out
                         ELSE <<[epoch |-> o.epoch, snapshot |-> Unavailable]>>,
                 ready |-> o.epoch]
    /\ UNCHANGED <<kwin, kwinWire, adapter, feedback>>

OnServiceOwnerChanged ==
    /\ Working /\ kwinWire # <<>> /\ Head(kwinWire).type = "owner"
    /\ kwinWire' = Tail(kwinWire)
    /\ IF Head(kwinWire).owner = observer.owner
       THEN UNCHANGED <<scripts, observer, lines, desktopEvents>>
       ELSE \E r \in Reattach(Head(kwinWire).owner, observer) : Reaches(r, Unavailable)
    /\ UNCHANGED <<kwin, adapter, feedback>>

IsAuthentic(m) ==
    /\ observer.state = "running" /\ observer.owner # None /\ observer.generation # None
    /\ m.owner = observer.owner /\ m.generation = observer.generation

OnPublish ==
    /\ Working /\ kwinWire # <<>> /\ Head(kwinWire).type = "publish"
    /\ kwinWire' = Tail(kwinWire)
    /\ IF IsAuthentic(Head(kwinWire))
       THEN PublishSnapshot([observer EXCEPT !.timer = FALSE, !.received = TRUE],
                            Head(kwinWire).snapshot)
       ELSE UNCHANGED <<observer, lines>>
    /\ UNCHANGED <<kwin, scripts, adapter, feedback, desktopEvents>>

OnSnapshotTimeout ==
    /\ Working /\ observer.timer
    /\ \E r \in Retirements(observer) : Reaches(r, Unavailable)
    /\ UNCHANGED <<kwin, kwinWire, adapter, feedback>>

(* Nobody hears the scripts of a helper that is gone.                       *)
ProcessEnds ==
    /\ observer' = [Off EXCEPT !.state = "dead", !.epoch = observer.epoch]
    /\ scripts' = <<>> /\ kwinWire' = <<>>

(* Also failInitialization and a failing pipe, which exit at once.          *)
ObserverFails ==
    /\ Working /\ Costs(1)
    /\ \/ ProcessEnds
       \/ observer' = [observer EXCEPT !.state = "hung"] /\ UNCHANGED <<scripts, kwinWire>>
    /\ UNCHANGED <<kwin, lines, adapter, feedback>>

-----------------------------------------------------------------------------
(* The adapter: what it shows.                                              *)

Identity(n, r) == <<n, r.token, r.generation, r.revision>>

NextVersion(n, r) ==
    IF r.revision < MaximumSourceVersion THEN [r EXCEPT !.revision = @ + 1]
    ELSE IF r.generation < MaximumSourceVersion
         THEN [r EXCEPT !.generation = @ + 1, !.revision = 1]
         ELSE [r EXCEPT !.token = adapter.minted[n] + 1, !.generation = 1, !.revision = 1]

NewRecord(n, d) ==
    LET retired == adapter.retiredSources
        known == n \in DOMAIN retired /\ retired[n].generation < MaximumSourceVersion
    IN [token |-> IF known THEN retired[n].token ELSE adapter.minted[n] + 1,
        generation |-> IF known THEN retired[n].generation + 1 ELSE 1,
        revision |-> 1, presented |-> FALSE, current |-> d]

IsChanged(n, s) ==
    \/ adapter.snapshot.desktops # s.desktops
    \/ adapter.records[n].current # s.current[n]
IsConfirmed(n, s) == s.transient = n /\ adapter.records[n].current # s.current[n]

NextRecord(n, s) ==
    IF n \notin DOMAIN adapter.records THEN NewRecord(n, s.current[n])
    ELSE IF ~IsChanged(n, s) THEN adapter.records[n]
    ELSE [NextVersion(n, adapter.records[n]) EXCEPT !.presented = IsConfirmed(n, s),
                                                    !.current = s.current[n]]

Invalidated(s) ==
    {n \in DOMAIN adapter.records :
        \/ n \notin DOMAIN s.current
        \/ /\ IsChanged(n, s)
           /\ \/ adapter.records[n].revision = MaximumSourceVersion
              \/ ~IsConfirmed(n, s) /\ adapter.records[n].presented}

(* applySnapshot on the adapter as a leaves it, signals last.               *)
ApplySnapshot(a, s) ==
    LET records == [n \in DOMAIN s.current |-> NextRecord(n, s)]
        removed == DOMAIN a.records \ DOMAIN s.current
        confirmed == {n \in DOMAIN s.current \cap DOMAIN a.records : IsConfirmed(n, s)}
        named == {Identity(n, records[n]) : n \in confirmed}
        told == {n \in Invalidated(s) \cap DOMAIN feedback.held :
                    /\ feedback.held[n][2] = a.records[n].token
                    /\ feedback.held[n][3] = a.records[n].generation}
    IN
    /\ adapter' = [a EXCEPT
           !.snapshot = s, !.records = records,
           !.retiredSources = Over([n \in removed |-> [token |-> a.records[n].token,
                                                       generation |-> a.records[n].generation]],
                                   Omit(@, DOMAIN s.current)),
           !.minted = [n \in Outputs |-> IF n \in DOMAIN records /\ records[n].token > @[n]
                                         THEN records[n].token ELSE @[n]]]
    /\ feedback' = [feedback EXCEPT
           !.held = Over([n \in confirmed |-> Identity(n, records[n])], Omit(@, told)),
           !.announced = @ \cup named,
           !.wrong = @ \cup (IF named \cap feedback.announced = {} THEN {} ELSE {"named before"})
                       \cup (IF \A n \in confirmed : <<n, s.current[n]>> \in feedback.switched
                             THEN {} ELSE {"not a switch"})]

Shows(a, s) == IF s = a.snapshot THEN adapter' = a /\ UNCHANGED feedback ELSE ApplySnapshot(a, s)

-----------------------------------------------------------------------------
(* The adapter: the process.                                                *)

MarkHelperReady(a) == [a EXCEPT !.watchdog = FALSE, !.ready = TRUE,
                                !.attempts = IF a.ready THEN @ ELSE 0]

RetireActiveHelperEpoch(a) ==
    [a EXCEPT !.watchdog = FALSE, !.retired = @ \cup ({a.epoch} \ {None}), !.epoch = None,
              !.pendingReady = None, !.ready = FALSE]

HandleHelperStarted ==
    /\ adapter.shouldRun /\ observer.state = "off"
    /\ observer' = [Off EXCEPT !.state = "starting", !.epoch = Unused(adapter.retired \cup {adapter.epoch})]
    /\ adapter' = [adapter EXCEPT !.accepting = TRUE, !.ready = FALSE, !.pendingReady = None,
                                  !.watchdog = TRUE]
    /\ UNCHANGED <<kwin, scripts, kwinWire, lines, feedback, desktopEvents>>

HandleHelperExit(a) ==
    LET again == a.attempts < 3 IN
    Shows([RetireActiveHelperEpoch(a) EXCEPT
              !.accepting = FALSE, !.shouldRun = FALSE,
              !.attempts = IF again THEN @ + 1 ELSE @, !.restart = again],
          Unavailable)

HelperFailsToStart ==
    /\ adapter.shouldRun /\ observer.state = "off"
    /\ HandleHelperExit(adapter)
    /\ UNCHANGED <<kwin, scripts, kwinWire, observer, lines, desktopEvents>>

OnExited ==
    /\ observer.state = "dead" /\ lines.out = <<>> /\ lines.ready = None
    /\ observer' = Off
    /\ IF adapter.shutdown = "no" THEN HandleHelperExit(adapter)
       ELSE /\ adapter' = [adapter EXCEPT !.shouldRun = FALSE, !.shutdown = "over"]
            /\ UNCHANGED feedback
    /\ UNCHANGED <<kwin, scripts, kwinWire, lines, desktopEvents>>

OnRestartTimer ==
    /\ adapter.restart
    /\ adapter' = [adapter EXCEPT !.restart = FALSE, !.shouldRun = TRUE]
    /\ UNCHANGED <<kwin, scripts, kwinWire, observer, lines, feedback, desktopEvents>>

AcceptHelperStderrLine ==
    LET epoch == lines.ready
        heard == adapter.accepting /\ epoch \notin adapter.retired
    IN
    /\ epoch # None
    /\ lines' = [lines EXCEPT !.ready = None]
    /\ adapter' =
         CASE heard /\ adapter.epoch = None -> [adapter EXCEPT !.pendingReady = epoch]
           [] heard /\ adapter.epoch = epoch -> MarkHelperReady(adapter)
           [] OTHER -> adapter
    /\ UNCHANGED <<kwin, scripts, kwinWire, observer, feedback, desktopEvents>>

AdoptEpoch(epoch) ==
    LET adopted == [adapter EXCEPT !.epoch = epoch, !.pendingReady = None] IN
    IF adapter.epoch # None THEN adapter
    ELSE IF adapter.pendingReady = epoch THEN MarkHelperReady(adopted) ELSE adopted

AcceptSnapshotLine ==
    /\ lines.out # <<>>
    /\ lines' = [lines EXCEPT !.out = Tail(@)]
    /\ LET line == Head(lines.out) IN
         IF /\ adapter.accepting
            /\ adapter.epoch = line.epoch \/ (adapter.epoch = None /\ line.epoch \notin adapter.retired)
         THEN Shows(AdoptEpoch(line.epoch), line.snapshot)
         ELSE UNCHANGED <<adapter, feedback>>
    /\ UNCHANGED <<kwin, scripts, kwinWire, observer, desktopEvents>>

(* A helper that is only slow is killed too.                                *)
HandleReadinessTimeout ==
    /\ adapter.watchdog
    /\ Costs(IF Working THEN 1 ELSE 0)
    /\ Shows([RetireActiveHelperEpoch(adapter) EXCEPT !.accepting = FALSE], Unavailable)
    /\ ProcessEnds
    /\ UNCHANGED <<kwin, lines>>

-----------------------------------------------------------------------------
(* The adapter goes, and its controller sees to it that the helper goes.    *)

OnDestruction ==
    /\ adapter.shutdown = "no" /\ Costs(1)
    /\ Shows([RetireActiveHelperEpoch(adapter) EXCEPT
                 !.accepting = FALSE, !.restart = FALSE,
                 !.shouldRun = observer.state # "off",
                 !.shutdown = IF observer.state = "off" THEN "over" ELSE "asked"],
             Unavailable)
    /\ UNCHANGED <<kwin, scripts, kwinWire, observer, lines>>

ReadCommands ==
    /\ Working /\ adapter.shutdown \in {"asked", "terminated"}
    /\ ProcessEnds
    /\ UNCHANGED <<kwin, lines, adapter, feedback, desktopEvents>>

OnShutdownTimer ==
    /\ \/ /\ adapter.shutdown = "asked"
          /\ adapter' = [adapter EXCEPT !.shutdown = "terminated"]
          /\ UNCHANGED <<scripts, kwinWire, observer>>
       \/ /\ adapter.shutdown = "terminated"
          /\ adapter' = [adapter EXCEPT !.shutdown = "killed"]
          /\ ProcessEnds
    /\ UNCHANGED <<kwin, lines, feedback, desktopEvents>>

DesktopNext ==
    \/ \E g \in DOMAIN scripts : Recompute(g)
    \/ WorkspaceChanges
    \/ KWinRestarts
    \/ Initialize
    \/ OnServiceOwnerChanged
    \/ OnPublish
    \/ OnSnapshotTimeout
    \/ ObserverFails
    \/ HandleHelperStarted
    \/ HelperFailsToStart
    \/ OnExited
    \/ OnRestartTimer
    \/ AcceptHelperStderrLine
    \/ AcceptSnapshotLine
    \/ HandleReadinessTimeout
    \/ OnDestruction
    \/ ReadCommands
    \/ OnShutdownTimer

DesktopSpec == DesktopInit /\ [][DesktopNext]_desktopVars

(* Neither event loop stops while a timer, a line or a start is due.        *)
Due ==
    \/ OnRestartTimer \/ HandleHelperStarted \/ HandleReadinessTimeout \/ OnShutdownTimer
    \/ AcceptSnapshotLine \/ AcceptHelperStderrLine \/ OnExited
    \/ Initialize \/ OnSnapshotTimeout
DesktopFairness == WF_desktopVars(Due)

-----------------------------------------------------------------------------
(* When nothing is on its way, the adapter shows what KWin shows, or that   *)
(* there is no source: never what a retired script or helper last said.     *)
Quiet ==
    /\ observer.state = "running" /\ ~observer.timer /\ adapter.shutdown = "no"
    /\ kwinWire = <<>> /\ lines = [out |-> <<>>, ready |-> None]
    /\ \A g \in DOMAIN scripts : ~scripts[g].timer
DesktopsAreCurrent ==
    Quiet => LET seen == IF observer.generation = None THEN Unavailable ELSE Seen("none") IN
             /\ adapter.snapshot.current = seen.current
             /\ adapter.snapshot.desktops = seen.desktops

(* Feedback is for a switch somebody made on that output, and it is given   *)
(* whatever the other outputs show: markConfirmedTransient compares only    *)
(* this one, although README.md:285 says that it "appears only while every  *)
(* output confirms the same current desktop".                               *)
SwitchIsReal == "not a switch" \notin feedback.wrong

(* No source, generation and revision is announced twice, and whoever has   *)
(* been told of one and not of its end can resolve it: no dead feedback.    *)
FeedbackResolves ==
    /\ "named before" \notin feedback.wrong
    /\ \A n \in DOMAIN feedback.held :
         /\ n \in DOMAIN adapter.records
         /\ adapter.records[n].presented
         /\ Identity(n, adapter.records[n]) = feedback.held[n]

(* A helper that runs is ready or watched, and one that is gone is started  *)
(* again unless the attempts are used up.                                   *)
HelperWatched ==
    adapter.shutdown = "no" =>
        /\ observer.state \in {"starting", "running", "hung"} => adapter.ready \/ adapter.watchdog
        /\ observer.state = "off" /\ adapter.helperPath =>
             adapter.shouldRun \/ adapter.restart \/ adapter.attempts = 3

DesktopsSettled ==
    /\ ~adapter.watchdog /\ ~adapter.restart /\ adapter.shutdown \in {"no", "over"}
    /\ adapter.shutdown = "over" => observer.state = "off"
    /\ ~observer.timer \/ observer.state = "hung"
=============================================================================
