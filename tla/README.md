# nagi-shell: verification project

TLA+ models of nagi-shell, a Quickshell desktop shell (QML in `qml/`, C++ helpers in
`src/`), the TLC runs that check them on small instances, and theorems proved with TLAPS
for every value of the constants. Paths below are relative to the repository as it is laid out
under `src/`; line numbers in `PROJECT.json` ("map") say which code each definition translates.

## 1. Inventory

The shell is one Qt process. All QML runs on one event loop: a handler runs to completion, and
timers, helper output, D-Bus replies and input events are delivered between handlers in any order.
Helpers are separate processes that speak line-delimited JSON over their standard streams (one
exception: notifications are an in-process C++ plugin). Interleaving therefore happens between
handlers, between processes, and inside a handler wherever it emits a signal.

| Component | Code | State | Operations | Hard behaviour | Correct means |
|---|---|---|---|---|---|
| Island state coordinator | `qml/IslandStateCoordinator.qml` | a record for each surface (owner, restoration stack, hover and explicit intents), the mailbox of transient events, the modal's host, one timer | attach and detach surface, acknowledge, baseline intent, request / invalidate transient, open / finish task, reset, prepare disable, sync modal, timer | preemption and restoration; stale acknowledgements; expiry while something else is being done; screens that vanish in the middle | one focused task or modal in all; the modal always has one host; nothing stale comes back; feedback always ends |
| Surface host, display registry | `qml/IslandSurfaceHost.qml`, `qml/DisplayManager.qml` | registered windows with generations; enabled screens | register, unregister, route, set enabled, sync screens | hot plug while switching screens off | some connected screen stays enabled; a refused switch moves nothing |
| Surfaces and views | `qml/IslandSurface.qml`, `qml/TransientView.qml`, ... | what is on screen, geometry transition | show, acknowledge, hover, key events | the view follows the coordinator with a delay | it acknowledges only what it shows |
| Notification runtime and service | `src/notifications/runtime.cpp`, `qml/NotificationService.qml` | associations of live objects, history (50), deadlines, presentations, popups | notify, replace, close, expire, dismiss, clear, reload | a replacement queued on the event loop; live reload; capacity with re-entrant closes | history is bounded and has no orphans; nothing closed comes back; popups follow do-not-disturb |
| Settings | `qml/UserConfig.qml`, `src/settings/main.cpp` | live, persisted, last-good and pending snapshots; a writer process | change, debounce, write, external edit, reset, restore, recover | external edits during a write; a failed write; a crash between two files | the last accepted change is what is persisted; a bad file never becomes last-good |
| KWin virtual desktops | `qml/KWinVirtualDesktopAdapter.qml`, `src/kwin-virtual-desktops/` | helper epoch, generation, staged and published snapshot | start, ready, snapshot, exit, restart, owner change | lines of an old process; scripts of an old KWin | only the current generation is published |
| Brightness | `qml/BrightnessAdapter.qml`, `qml/BrightnessBridge.qml`, `src/brightness/main.cpp` | displays, pending requests with deadlines | request, confirm, expire, owner change, refresh | an answer races its deadline; a refresh replaces displays | every request is answered once |
| Helper bridges | `qml/*Bridge.qml` | ready flag, restart count, pending requests | start, ready, message, exit, retry | crash loops; late lines | bounded restarts; no request waits for ever |
| Connectivity | `qml/ConnectivityAdapter.qml`, `src/connectivity/main.cpp` | radios, networks and devices by token, one operation per half, scans, the pairing agent's prompt | commands of the pages, signals and replies of NetworkManager and BlueZ, timers | late replies; tokens of older lists; agent calls in any order; radios left searching | what is called done was done, on the thing that was named; nothing searches or prompts without its page |
| Audio | `qml/AudioAdapter.qml`, `src/pipewire-audio/main.cpp` | a tracked node per role, one write in flight, a slot for the newest volume and mute | commands, events of PipeWire | echoes of others between a write and its readback; nodes that change | the newest value wins; what is shown is what is |
| Session actions | `qml/SessionService.qml`, `src/session/main.cpp` | the one pending request and its timer | request, reply, timeout | a reply that comes after the timeout | accepted means accepted, once |
| Gaming performance, EasyEffects, wallpaper, weather, shortcuts | one service or adapter in `qml/` and usually one helper in `src/` each | projections of a desktop service and requests in flight | request, confirm, time out | confirmations against timeouts | a request ends exactly once |
| Media, tray, launcher, polkit view, Control Center, theme, installer | `qml/`, `install.sh` | mostly presentation | | | |

How they interact: adapters and services call `requestTransient` and `invalidateTransient` of the
coordinator when a desktop service confirms a change; views call `acknowledgeVisible`,
`setBaselineIntent`, `openInteractive` and `finishInteractive`; `IslandSurfaceHost` attaches and
detaches surfaces as `DisplayManager` enables screens; Polkit's flow is bound to `syncPolkitModal`.
The coordinator answers through `stateSerial`, on which every surface's view is bound.

The hazards of this code, each at its line and with the property that watches it (or the reason why
no property does), are listed in `PROJECT.json` under "hazards".

## 2. The modules

| Module | What it is |
|---|---|
| `IslandKinds` | the kinds of content, their classes and the one priority order |
| `IslandCoordinator` | the coordinator: state, one action per public operation, the expiry loop, the timer and the clock, `Spec` and `FairSpec`. Definitions marked "Mutant" are plausible bugs; no specification uses them |
| `IslandProperties` | type invariant, safety invariants, action properties, liveness, and three statements of the repository's tests that the code does not keep |
| `MCIslandCoordinator` | sources, short deadlines, symmetry and the state view for TLC |
| `NotificationRuntime` | the notification runtime and its service: one action per slot or handler, with the server and the bus as environment |
| `NotificationProperties` | its type invariant, safety invariants, action properties, liveness and one statement of the README that the code does not keep |
| `MCNotifications` | offers, popup settings and short lifetimes for TLC |
| `WifiManager`, `BluetoothManager` | the two halves of the connectivity helper, against NetworkManager and BlueZ |
| `BrightnessHelper` | the brightness helper, against PowerDevil |
| `AudioHelper` | the volume and mute helper, against PipeWire |
| `SessionHelper` | the helper for lock, suspend, logout and so on |
| `SettingsStore` | the settings: `UserConfig.qml`, the writing helper, the files, edits from outside and crashes |
| `VirtualDesktops` | the script in KWin, its helper and the adapter that restarts the helper and announces switches |
| `RequestPromise` | abstract: numbered requests, each refused or kept waiting, and ended once |
| `MCHelpers` | composes the seven modules above for TLC and names their properties |
| `KeyedTables` | the tables of the code (hashes, maps, objects): put, replace, omit |
| `Foundations` | proved facts about tables, sequences, bags, enumerations and extrema of sets |
| `IslandProofs` | proof of every safety and action property of the coordinator |
| `NotificationProofs` | proof of every safety and action property of the notification runtime |
| `RequestProofs` | proofs about the brightness, session and settings helpers, and that the first two implement `RequestPromise` |
| `AudioProofs`, `DesktopProofs` | proofs about the audio helper and about the virtual desktops |
| `ConnectivityProofs` | proofs about the two halves of the connectivity helper |
| `HelperProofs` | what those say of all the helpers together: every safety and action property of the run `helpers` |

### How the coordinator's state and actions correspond to the code

- `surfaces` is `state.surfaces`, a function from the tokens that are registered now to their
  records. A token stands for a (token, generation) pair; `NoSurface` is null, or a token whose
  registration is gone.
- A record's `restoration` is the array of preempted owners; each frame carries its depth, so the
  array is a set. `NextDepth`, `IsRelevantFrame` and `RestoreNext` translate the pushes and pops.
- `transients` is the mailbox. Its array is always in admission order, so it is a function from
  admission numbers; these are also the event ids.
- Deadlines are relative: `fresh` and `hold` are the ticks left, 0 when due, and `NotHolding`
  until the last projecting surface acknowledged the event. `Tick` is the passage of time; the code
  compares `Date.now()` with absolute deadlines.
- `scheduler` is the one QML `Timer`, `Stopped` or the ticks left on it.
- `focusRequest` is the parity of `focusRequestSerial`, `published` says whether `stateSerial`
  moved since a surface last changed; nothing but the parity and the fact can be observed.
- `modalFlow` numbers the snapshots of Polkit's flow, 0 is none.
- An epoch is the number of the step that handed it out with the surface it was handed to. The
  code counts epochs singly; nothing but their being different is ever used.
- A handler that begins with `expireDue` is one call (`Calls`) in up to three kinds of step:
  `Expire` takes it up, `RemoveDoomed` is one turn of the loop, and the handler's own action
  (`Handle`) finishes it. `job` keeps every other handler out in between, exactly as the event loop
  does, so the split adds no behaviour: it makes the order of removals explicit, which matters
  because a removal can hand a surface to an event that is removed next.
  `DetachSurface` and `FinishDetach` are split in the same way around the removal of events
  that lost their last target.
- Refusals (early returns with false) are actions too, because some of them have already expired
  events or re-arm the timer.

### How the notification module corresponds to the code

- `tables` is what the synchronous helpers of `runtime.cpp` read and write: the server's open
  notifications (external), the watchers, `liveAssociations`, `historySnapshots`,
  `nextHistorySequence`, `admittedPopups`, what is posted to the event loop and the one timer. A
  helper maps tables to tables, so re-entrant calls (an eviction expires a notification, whose
  watcher calls `closeNotification`) happen inside the action exactly where the code makes them.
- `historySnapshots` is always in the order of its keys, newest first, so it is a function from them;
  `bufferedNotifications` is one from numbers to `carried`. A loop over notifications is `InOrder`, a
  fold over their numbers from the lowest; `pruneHistory` keeps what is fresh and among the `Newest`.
- The server gives out numbers in order, deletes a notification when it is closed, and presents the
  open ones again at a reload before the event loop runs; nothing else is assumed of it. Messages of
  senders do arrive while a reload is being reconciled: the interval from `beginGeneration` to the
  posted `finishGeneration` covers the loading of all QML.
- The runtime admits notifications in the order of their numbers, so the number also stands for
  `liveAdmissionSequence` and for the source token of the popup. A presentation is valid from the
  first dispatch until its association is erased.
- Left out: exhaustion of the 64-bit sequences and the 31-bit revision, a watcher that cannot be
  created, an object without a `dismiss` or `expire` method, and the text of notifications.

### How the helper modules correspond to the code

Each helper has one event loop (the audio helper two threads and one lock), so a handler is one
action, with its blocking D-Bus calls and the refresh it ends with. The desktop service on the other
side is external: it keeps the state the helper reads, carries calls out (or does not), replies,
signals and restarts. Its messages are a sequence where the bus keeps their order and a set of calls due
where it does not. A command names things as the helper's lines named them. Timers
fire at any moment once they run, so no property depends on how long a service takes.

- `WifiManager`, `BluetoothManager`: `wifi` and `bluetooth` are `AdapterState` with its request
  timer; the operations, the agent's prompt, scan and discovery are records with the names of the
  code. A call carries the generation it was made under, which is what its reply is matched with.
  A token is a number. `named` and `deviceNamed` are histories of what a token stood for, with the numbering
  it was given in (`networkNumbering`, `deviceNumbering`: one more each time the helper takes its tokens
  back, with the owner or after a snapshot that failed); `everPaired` is one too. A snapshot is read piece
  by piece and each piece may fail alone (`Readings`). What BlueZ searches on for the helper is a state of
  BlueZ's own (`searching`); `astray` is the history of the adapters the helper believes it does not search on.
- `BrightnessHelper`: a deadline is a flag raised at any time; `requestTimer` is the one
  single-shot timer, `wire` the signals under way, `writes` the calls, `applied` what PowerDevil
  carried out, `missed` a history: the last snapshot failed. `Promise` is its mapping to `RequestPromise`.
- `AudioHelper`: `audioEvents` are events of PipeWire on their way; a core sync is a number that
  comes back after the calls before it were processed. `overtaken` is a history.
- `SessionHelper`: one pending number, one timer; a reply is matched by number.
- `SettingsStore`: a file is what it says once parsed. `config` is UserConfig with the calls it has
  put off in `soon`, `view` the file view and what it has noticed and read, `helper` the process with the
  step it is at: every installation, copy and unlink is an action that may fail before or after it
  took place, the reads of `writeBundle` are one that may fail (`NoteFiles`), and so may the start of the
  process (`FailsToStart`). `Crash` ends shell and helper between any two of them.
- `VirtualDesktops`: each script that was loaded has its own timer, previous snapshot and announced
  change; `observer` is the helper process, `lines` its two pipes, `adapter` the QML state with
  watchdog, restart timer and attempts. A snapshot is the set of desktops and each output's current one.

`RequestPromise` shows only `waiting` and `ended`. The refinement maps the pending
requests to `waiting` and those with an outcome to `ended`; a second outcome, an outcome
for a request that never arrived, or one that is dropped silently is no step of it.

## 3. The runs

Every passing run explores its whole bounded state space. All actions and all disjuncts of `Next`
are taken between them.

| Run | Instance | Shows |
|---|---|---|
| `tasks` | two screens, a launcher and a session task, two snapshots of a Polkit flow, hover and explicit intents | `ExclusiveTask`, `ModalHosted`, `EpochsUnique`, `TaskReturnsAfterModal`, `FocusOnlyWhenVisible` |
| `preemption` | one screen; workspace, volume and notification feedback, a mailbox of two, a task and the modal | `TypeOK`, `StackOrdered`, `BaselineHonored`, `MailboxBounded`, `LossJustified`, `FeedbackSparesTasks` |
| `feedback` | two screens, one routed and one broadcast source, a mailbox of two | `FeedbackIsPending`, `TimerArmed`, `NoStaleReplay` |
| `ends` | one screen, a mailbox of one, two sources, a task; with fairness | `FeedbackEnds` |
| `hover_focus`, `stale_revision`, `unpublished` | one screen | the first three disagreements of section 6 |
| `notifications` | three notifications (plain, transient, critical) for two places and one record; a replacement, a reload, one change of the bus name's owner | `TypeOK`, `HistorySound`, `LiveRecordsOwned`, `LiveMatchesServer`, `ExpiryArmed`, `RoomFromLowestClass`, `NothingReturns` |
| `notification_ends` | two notifications, one place, three popup settings; with fairness | `PopupsCurrent`, `QueuedIsPosted`, `ReloadEnds`, `DeadlinesEnd`, `RecordsAgeOut` |
| `orphan_record` | one notification that is replaced as a reload begins | disagreement 4 of section 6 |
| `helpers` | each of the seven helpers, with its service, from any state of the service; with fairness | `TimersArmed`, `TokensNameOne`, `SearchesStayOnPage`, `PromptIsPairing`, `AnswersAreReal`, `SwitchFeedback`, `ShownIsCurrent`, `NewestWins`, `SettingsRecoverable`, `SuccessIsReal`, `KeepsPromise` (refinement), `EditsKept`, `AllSettle` |
| `bad_file` | the settings with one edit from outside and one failing step | disagreement 5 of section 6 |

### Bounds, and why they are enough

- *Two surfaces* are enough for every interaction the code has between surfaces: each rule relates
  a target and "the others", which the code treats alike. Screens are symmetric.
- *Ranks.* Preemption depends on rank alone. The instances contain feedback below, between
  and above each other, the dashboard above all feedback, two ranks of task and the modal.
- *The mailbox* holds two (one in `ends`) instead of eight, so that the third event evicts.
  `MaxDepth` keeps its real value, nine.
- *Time.* Freshness is two ticks and the hold one: holdFor's durations are always shorter than
  freshnessFor's, and one tick of difference lets either deadline come first.
- `MaxAdmission`, `MaxEpoch`, `MaxRevision`, `MaxSourceRevision` and `MaxFlow` stop calls once the
  numbers run out; they are the only bounds that are not in the code. Each is above what one full
  cycle of the behaviour in question needs (present, preempt, restore).
- *Notifications*: two places and one record, so that the third arrival evicts while a live
  notification has already lost its record. Records live two ticks and default timeouts are one
  and two, so that either deadline can come first. One reload is enough for a carried
  notification, a fresh one in the buffer and a replacement queued before.
- *The helpers* share no state and never call each other, so a behaviour of `MCHelpers` is about the
  one `active` names and the others stay at rest; exploring products would show nothing more.
  `MaxWifiEvents`, `MaxBluetoothEvents`, `MaxScans`, `MaxWrites`, `MaxOwners`, `MaxServiceSteps`,
  `MaxAudioCommands`, `MaxAudioChanges`, `MaxActions`, `MaxSettingsEvents` and `MaxDesktopEvents`
  bound commands, restarts, failed snapshots, reads and starts, and changes that nobody asked for; replies,
  timers and lines that follow from them are not bounded. The hazards take two such events (a command, then a restart, a
  second command or an edit while the first is under way), three actions in the session helper (one
  late, one pending, one refused) and four in the audio helper (one in flight, one in each slot, and one
  that replaces it).
- *Two* networks, devices, adapters, outputs and desktops let a token, a reply or a switch concern the
  wrong one. One display and one role are enough: displays and roles are handled independently, and a
  list that is cut off leaves the one out.
- Caps on lists are scaled down (`MaximumDisplays`, and `MaximumSourceVersion`, 1 instead
  of 2^31 - 1, so that a script does run out of versions) or not reached: lists of networks and devices, the
  16 retired epochs and the 64 sources of the desktops adapter.
- `CHECK_DEADLOCK` stays on for the island and the notifications: some call is always possible. It
  is off for the helpers, which rest for good once the bounds are used up.

### Fairness

`FairSpec` assumes that a handler that has begun goes on (weak fairness of its steps: nothing else
is enabled meanwhile), that time passes (strong fairness of `Tick`, since any handler in progress
disables it for a moment) and that Qt delivers the timer once it has run out (strong fairness of
its handler, for the same reason). Nothing is assumed of users, sources, Polkit or screens.

`Fairness` of `NotificationRuntime` says the same of the event loop (what is posted runs), the timer
(it fires once due) and time. The first two are weak fairness written out with the guards of the
actions, which is equivalent because each of them changes the tables whenever its guard holds.
Senders, the user, reloads and the bus are free to do nothing.

The helpers' fairness: their timers fire (session, brightness, both radios, Wi-Fi operation,
discovery), a display's deadline passes, events of PipeWire are handled, the
settings are written when the shell has put a write off, the writing helper goes on to its end and the shell hears of it, and neither event loop of the
desktops stops while a timer, a line, a start or an exit is due. Nothing is assumed of
services: they may never answer, so `AllSettle` rests on the timeouts of the code (audio has none: it
needs the event that PipeWire sends for every sync, or the loss of the connection).

## 4. What is proved

Every invariant and every action property that a passing run checks is a theorem, and so is the one
refinement; the liveness properties are not. The theorems hold for every value of the bounds.

Assumptions. `IslandCoordinator`: any finite or infinite set of surfaces and sources, under
`KindsAssumption`, `TimesAssumption` and `BoundsAssumption`. `NotificationRuntime`:
`NotificationAssumption` (any offers, caps, lifetimes and settings). The helpers' are definitions in
the modules of their proofs, and a theorem states the one it needs. `WifiBounds`: there are finitely many
networks, one at least, and "no network" is not one. `BluetoothBounds`: the same of devices, with finitely many adapters, "no
device" not being one, and `MaxBluetoothEvents` a natural number. `BrightnessBounds`: the bounds are natural
numbers, a bus name may have an owner and a list an entry. `AudioBounds`: finitely many roles, and the
node that stands for "invalid" is not a node. `DesktopBounds`: 1 is a desktop and "none" no output. The
session theorems need `MaxActions` to be a natural number, the settings theorems need nothing. `MCHelpers`
assumes them all as `HelperBounds`, so TLC evaluates them on the instance of the run.

### The island

- `TypeCorrect` (all of this section in `IslandProofs`): `Spec => []TypeOK`. `TypeOK` is inductive by itself; the proof
  has a lemma for each operator on a record, on the mailbox and on all surfaces, and one for each
  action. `RestoreNextCases` states the three ways a surface goes on (to a frame, to an event, to the
  baseline) once for all later proofs; the finiteness of the stack is part of the invariant because
  the next depth is the maximum of a set.
- `TaskExclusive` and `ModalHasHost`: `Spec => []ExclusiveTask` and
  `Spec => []ModalHosted`. Neither is inductive: what comes back when a surface restores depends on
  the frames below it, and what a lost surface hands over depends on the handler that is still
  running. The invariant `Roles` gives each surface one of three roles: *calm* (no task and no
  modal, on show or waiting), *busy* (a task, over calm frames) or *hosting* (the modal, over at most
  one task, which is on top of the stack). At most one surface is busy, none while the modal is
  up, the host is the one that hosts (`HostIsModal`, `OneBusy`), and while `detachSurface` is running
  and still owes a task or the modal to another surface there is none elsewhere (`LossUnderWay`).
  Most handlers keep every surface's role (`Keeps`) or end its task; `KeepsRoles` proves all of
  them at once, and the remaining actions are proved one by one with `AtMostOneTask` and `OneHost`.
- `FeedbackBounded` and `FeedbackTimed`: `Spec => []MailboxBounded` and
  `Spec => []TimerArmed`. Both speak of the moments between handlers and are not inductive: a
  handler that has lost a surface leaves an event without targets in the mailbox until it has removed
  it. `MailInv` says that every such event is on the list of the doomed (`InOrder`), that the
  timer is never late, not even inside a handler (`Armed`), and that nothing is doomed at
  rest. Every handler ends with `schedule`, whose lemma gives `Armed` at once; in between it is kept
  because events only leave.
- `PreemptedByRank`, `FeedbackBacked` and `DashboardHonored`: `Spec => []StackOrdered`,
  `Spec => []FeedbackIsPending` and `Spec => []BaselineHonored`. What a surface shows after its owner
  ends is decided by the frames under it, the mailbox and the baseline intents at once, so the
  three are proved together. `Sound` says of one surface's record that its stack is sorted by rank
  and outranked by the owner, that its feedback, on show or waiting, is pending and meant for it, that its
  intents are honoured, and that an owner that waits for the keyboard may have it. Each operator on a
  record has a lemma that it keeps `Sound`, each operator on the mailbox one that it leaves the events
  in use alone; the loop over all surfaces then needs only those. The ranks are distinct, which is why a
  frame of an owner's own rank is never kept.
- `FocusFollowsSight`, `NothingReplayedStale`, `TasksOutliveFeedback`, `ModalGivesTaskBack` and
  `FeedbackGivenUp` are the action properties `FocusOnlyWhenVisible`, `NoStaleReplay`,
  `FeedbackSparesTasks`, `TaskReturnsAfterModal` and `LossJustified`. The first three follow from one
  statement about every step, `Orderly`: each surface's record goes on (`GoesOn`) without asking for the
  keyboard unseen, turning to stale feedback or losing a task that the step has no business with; and the
  records are sound again after it. `StepOrderly` proves it, one lemma for each action, from `Whole`,
  the conjunction of all the invariants above. The last two are about what ends: `FlowEnds` needs `Roles`
  (the host's only task is on top of its stack), and `EvictionJustified` that the victim has the least
  rank in the full mailbox.
- `StaysNamedApart`: `Spec => []EpochsUnique`. The names that are on show come back from
  frames, go to another surface with the task of a lost one, and are handed out in the loop over all
  surfaces. `NamesInv` therefore speaks of all names of a surface at once: apart within its record,
  apart between surfaces, none newer than the last one handed out, and that of the task which
  `detachSurface` still owes found nowhere. A loop over surfaces hands out one name for each of them
  at most, and to that surface only (`Handed`).

### The notifications

- `TablesTyped`, `LinksLead`, `RecordsOwned`, `ServerMatched`, `MarksArePosted`, `TimerNeverLate` and
  `ScreenCurrent` (`NotificationProofs`): `TypeOK`, `HistorySound`, `LiveRecordsOwned`,
  `LiveMatchesServer`, `QueuedIsPosted`, `ExpiryArmed` and `PopupsCurrent` as invariants. Handlers are
  compositions of helpers that re-enter each other, so the proof follows the calls: each helper
  keeps `Sound` of the tables it is given (typed, within the caps but for one newcomer, links that
  lead to live records of their own, marks that are posted, popups that are current), and `Onward`
  holds between the tables before it and those after it. Both compose, along a chain of calls and
  along a loop, which `InOrder` makes a fold over a finite set: the fold is a function on its subsets, and
  its lemma climbs them one greatest element at a time.
  `Inv` is `Sound` with what holds between handlers: the timer is armed (`Armed`), and `Known`.
  `ServerMatched` needs the last: between reloads every watched notification is in the table, known by
  what was last sent unless a replacement is queued, and while a reload is reconciled each of them
  waits in the buffer, so that `finishGeneration` leaves nobody behind.
- `EndedForGood` and `LeastLeaves` (`NotificationProofs`) are the action properties `NothingReturns` and
  `RoomFromLowestClass`. The first is `Onward` of whole handlers (`Gone`). The second follows `admitFresh` through
  the pruning that comes before its choice of a victim (`VictimLeast`, `Room`).

### The helpers

- `AcceptedIsReal`, `SessionImplementsPromise` (`RequestProofs`): a pending action has its timer, an
  action is called accepted only if it was, and `SessionSpec` implements `RequestPromise`, for any
  number of actions. The refinement needs more than the types: that the pending request has
  no answer yet, no request two, and that numbers are taken in order.
- `BrightnessTypes`, `BrightnessIsSound`, `BrightnessImplementsPromise` (`RequestProofs`): types, of the
  signals and calls under way too; `ConfirmedIsApplied`, `WritesReachTheirService`, `TimerArmed` and
  `ShellIsCurrent`; and the refinement of `RequestPromise`. A confirmation is a comparison of a value that
  was read with the one that was asked for, so the invariant (`BrightnessInv`) has to say where a value that
  was read may come from: from the write itself, or from a change that was observed since and
  is recorded with the request. A display's key carries the generation of PowerDevil's owner, so
  a call or a signal that outlives its owner matches nothing. And a display that is read differs from
  PowerDevil's only while a signal that says so is on its way, a snapshot is due, or one has failed.
- `LastGoodSurvives`, `EditsAreKept` (`RequestProofs`): `SettingsRecoverable` and `OriginalsKept`, and the
  action property `EditsKept`, for any number of edits, failing steps and reads, and crashes. The invariant
  adds what the shell hands to its helper (valid configurations only), that the helper claims success only
  with a valid copy on disk, and that the copy it may have to put back was valid when it noted it, unless it
  could not read it (`HelperSound`).
- `AudioTypes`, `AudioIsSound` (`AudioProofs`): `AudioCarried`, `AudioIsCurrent` and `NewestWins`.
  `AllSound` follows one command through the slot it waits in, the write that is in flight, PipeWire's
  events and the sync that ends the write; the numbers of commands then only grow along that way, which
  is what "never an older one after a newer one" needs across nodes that come, go and are bound again.
- `DesktopTypes`, `DesktopsAreSound` (`DesktopProofs`): `SwitchIsReal`, `FeedbackResolves`,
  `HelperWatched` and `DesktopsAreCurrent`. `DesktopInv` has four parts. Everything a
  message shows was KWin's at that moment (`AllReal`). Each switch that is announced was minted once by
  one script, versions grow along script, bus, helper, pipe and adapter, and what the adapter
  announced is what it resolves (`ShowSound`). The helper is ready, watched, being restarted, or its end is
  on the way (`HelperSound`). And along each of those stages the last message tells what
  the stage before it holds (`Follows`), so an adapter with nothing on its way shows what KWin shows.
- `WifiIsSound`, `WifiSuccessIsReal` (`ConnectivityProofs`): `WifiTimersArmed`, `TokensNameOne`
  and `ScanNeedsPage`, and the action property `WifiIsReal`. `WifiInv` makes the tokens in use
  distinct, and what they stand for a part of the history under the present numbering. `WifiMeaning` says on top
  of it that a call whose generation is the running operation's is about the network its token stands for.
  A snapshot says "connected" only of the network that the token stands for in the table it was built from.
- `BluetoothIsSound`, `BluetoothSuccessIsReal` (`ConnectivityProofs`): `BluetoothTimersArmed`,
  `DeviceTokensNameOne`, `DiscoveryNeedsPage` and `PromptIsPairing`, and the action property
  `BluetoothIsReal`. Here success is said in a reply, possibly long after the call. `BluetoothInv` says
  of each call under way which owner of the name it was made to, that only a call to the present one can
  be running, that BlueZ then pairs that call's device, that a Pair that was answered well has
  paired it, and that a call whose number is the running pairing's is about the device its token
  stands for. A number is larger than every earlier one, so a reply of a pairing that was cancelled,
  replaced or lost with its BlueZ is not listened to. A second layer, `SearchMeaning`, relates what BlueZ
  searches on to the discovery: BlueZ searches on powered adapters only, those that did not go astray
  are the discovery's, and one that has gone searches on none.
- `HelperTimersArmed`, `HelperTokensNameOne`, `HelperSearchesStay`, `HelperPromptIsPairing`,
  `HelperAnswersAreReal`, `HelperSwitchFeedback`, `HelperShownIsCurrent`, `HelperNewestWins`,
  `HelperSettingsRecover`, `HelperSuccessIsReal`, `HelperEditsKept` and `HelpersKeepPromise`
  (`HelperProofs`): the properties of the run `helpers`, of `Spec` of `MCHelpers`. The helpers share no
  variable, so a behaviour of the composition is one of each of them (`WifiRuns`, `BluetoothRuns`,
  ...), and the theorems above carry over.

`Foundations` has what these rest on: tables (functions on a part of a set) and what putting, restricting
and omitting do to them, sequences that grow and shrink at their ends, enumerations of finite sets, and
`MinOfNaturals` and `MaxOfNaturals`, on which `schedule`, the eviction, the stack depth and
the timers of the notification runtime depend.

Only model-checked: liveness (`FeedbackEnds`, `ReloadEnds`, `DeadlinesEnd`, `RecordsAgeOut`, `AllSettle`),
which rests on fairness and is out of this prover's reach. The runs that must fail (section 6) need no
proof: their counterexamples are the result.

## 5. Not modelled

- *`DisplayManager` and the registry of surfaces*: of the surface host only what it asks of the
  coordinator. Hence no property for the two hazards about switching the last screen off.
- *Helper bridges and adapters in QML*, those of the virtual desktops excepted: start, ready, exit, restart.
  The helpers are modelled from the moment they run until they end.
- *Wallpaper*: scanning and analysing images is data processing. Applying a wallpaper
  has a readback for each screen, which is worth a module (section 7).
- *Weather*: refresh, backoff and freshness of a cache; *gaming performance*: sources counted from
  two backends; *EasyEffects*: one bounded request over a socket at a time; *global shortcuts*: a
  helper that reports key presses. Little that can interleave.
- *Applications and launcher*: search, ranking, desktop entries. *Media and tray*: projections.
- Geometry and motion, layout, wording, rendering, theme; the Control Center's pages; the installer.
- Inside the modelled components: parsing and validation of lines and files, normalisation of
  text, secrets, symlinks and stage files of the settings, the backend of Polkit.
- *What the properties of the helpers do not catch*, because the code does it: a command that names a
  token from before a failed snapshot (`TokensNameOne` speaks of one numbering at a time); an operation on a
  Bluetooth device that waits for ever (`TimersArmed`, `AllSettle`); a writer of the settings that does not
  start (`AllSettle`); lines of the virtual desktops' helper that come after its exit (the pipes are read
  first); a task that a modal covered and that goes with the modal's screen.

## 6. Disagreements found

1. `hover_focus`: a dashboard that comes back because the pointer hovers over the surface keeps the
   keyboard focus target (`qml/IslandStateCoordinator.qml:880`), although
   `tests/surface-state/shell.qml:772` says that hover expansion never takes the focus.
2. `stale_revision`: renewing an event leaves the revision of projections that wait on a restoration
   stack behind (`:761`); when they return, their adapter no longer has the payload of that revision.
3. `unpublished`: four handlers expire events, change what surfaces show, then refuse their call and
   return without `publish()` (`:185`), so the view keeps the expired content.
4. `orphan_record`: a replacement queued before a live reload runs while the generation is
   reconciled and admits a record; `admitCarried` (`src/notifications/runtime.cpp:593`) admits
   another. The first stays live after the sender closes the notification, although README.md:219
   says such records are removed at once. `LiveRecordsOwned` shows that without a reload every way
   of closing keeps them together.

5. `bad_file`: settings.conf is edited to something invalid while the shell's write is finishing. The
   shell reads the file and enters recovery, then hears that the write succeeded, and `finishWriter`
   sets the status to ready (`qml/UserConfig.qml:886`). README.md:207 says that invalid content "retains the
   bad file, and blocks ordinary writes"; the next change replaces it without a copy.

Smaller ones, which have no run of their own. The property that is concerned excepts exactly the case,
and says so in its comment:

6. `TokensNameOne`: a snapshot that fails takes the tokens back and numbers from 1 again under the same
   owner of the bus name (`src/connectivity/main.cpp:1018`, `1861`). A page that has not yet seen the new
   list may name another network or device.
7. `SearchesStayOnPage`: README.md:114 says that discovery "stops after 30 seconds or page close".
   BlueZ goes on searching after a failed snapshot, which clears the list of adapters and tells BlueZ nothing
   (`:1853`), after a start that timed out although it was carried out (`:1896`), after a stop whose
   failure nobody looks at (`:1946`), and when a start over a running discovery fails (`:1911`).
8. `SuccessIsReal`: README.md:255 says that "Pending and failure states do not report success". When the
   access points (`:883`) or the one in use (`:892`) cannot be read, a running disconnection is reported as
   "disconnected" (`:1286`). A Bluetooth device that has left the list counts as disconnected or unpaired.
9. `SwitchFeedback`: README.md:285 says that workspace feedback "appears only while every output confirms
   the same current desktop". `markConfirmedTransient` of the script looks at the output that switched
   only, and the feedback is given on that output whatever the others show.
10. `ShownIsCurrent`: a snapshot of PowerDevil that fails under the same owner leaves the displays as they
    were read before, and nothing reads them again until the next signal (`src/brightness/main.cpp:336`).
11. `SettingsRecoverable`: a last-good that exists but cannot be read is noted as missing
    (`src/settings/main.cpp:207`); if the write then fails, `restoreFile` unlinks it (`:201`). And an edit
    between the backup of a file and its replacement is overwritten without a copy.
12. `AllSettle`: a writer process that fails to start leaves `_writeInProgress` set, because the shell
    handles only `onExited` (`qml/UserConfig.qml:1185`); `KWinVirtualDesktopAdapter.qml:717` has the remedy.
    An operation on a Bluetooth device may wait for ever (`src/connectivity/main.cpp:1515`, `2163`).

## 7. Plan

What is left, in order of importance to the system:
1. `Displays`: `DisplayManager` with `IslandSurfaceHost.setEnabled`, composed with the coordinator's
   hand-over. Run with three screens.
2. `HelperBridge`: start, ready, exit and restart, composed with `SessionHelper` so that a request that
   was sent to a helper that died is shown to end.
3. An abstract history (records that are admitted in order, age, and are never live again)
   implemented by `NotificationRuntime`, and a run for a deadline that survives a change to critical.
4. `ExclusiveFocus`: an abstract specification of who has the keyboard (nobody, one task, the modal
   over at most one task), which `IslandCoordinator` implements, as a theorem on top of `Roles`.
5. `IslandViews`: when views acknowledge, so that how long feedback stays can be stated.
6. `Wallpaper` (apply and readback), `Weather` (refresh and backoff).
