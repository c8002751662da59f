---------------------------- MODULE SettingsStore ----------------------------
(***************************************************************************)
(* Settings: the snapshot the shell lives by (qml/UserConfig.qml), the     *)
(* helper it starts for every write (src/settings/main.cpp) and the files. *)
(* The helper installs whole files one after the other and may fail, or    *)
(* the machine may go down, between any two; a failing installation may    *)
(* have taken place all the same (the directory could not be synced).      *)
(* A file that cannot be read counts as missing, and the helper may not    *)
(* start at all.  Meanwhile settings.conf may be edited from outside,      *)
(* which the shell hears of later and reads later still.                   *)
(*                                                                         *)
(* A file is what it says once parsed: a configuration, one of schema 2, a *)
(* newer one, or nothing valid; the old theme and schema 2 both mean Kept. *)
(* Paths are regular files of the user; other users' files, symlinks and   *)
(* stage files left behind are not modelled.                               *)
(***************************************************************************)
EXTENDS Integers, FiniteSets

CONSTANTS
    MaxSettingsEvents  \* bound: changes by the user, edits from outside, failing steps, restarts

VARIABLES
    config,        \* UserConfig
    view,          \* settingsFile: [watching, changed, loading, text]
    helper,        \* the process; history: whether it could not read last-good
                   \* (unread), whether settings.conf was edited since it started (edited)
    disk,          \* the files
    settingsGood,  \* history: a write has succeeded, and no helper has since
                   \* unlinked the last-good it could not read
    settingsEvents \* count of what MaxSettingsEvents bounds

settingsVars == <<config, view, helper, disk, settingsGood, settingsEvents>>

Missing == "missing"
Nothing == "none"
Defaults == "defaults"
Kept == "kept"
Configs == {Defaults, Kept, "edited"}
Candidate(text) == CASE text \in Configs -> text
                     [] text \in {"schema 2", "theme"} -> Kept
                     [] OTHER -> Nothing

NoJob == [op |-> Nothing, content |-> Nothing, purpose |-> Nothing]
NoHelper == [step |-> Nothing, op |-> Nothing, content |-> Nothing, read |-> Missing,
             settings |-> Missing, lastGood |-> Missing, unread |-> FALSE, edited |-> FALSE]
NoView == [watching |-> FALSE, changed |-> FALSE, loading |-> FALSE, text |-> Missing]
Loading == [status |-> "loading", kind |-> Nothing, readOnly |-> FALSE, live |-> Defaults,
            persisted |-> Defaults, lastGood |-> Nothing, candidate |-> Nothing, job |-> NoJob,
            pendingLastGood |-> Nothing, hasPersisted |-> FALSE, soon |-> {}]

SettingsInit ==
    /\ config = Loading /\ view = NoView /\ helper = NoHelper
    /\ settingsEvents = 0
    /\ \E files \in {<<Missing, Missing, Missing>>, <<Missing, Missing, "theme">>,
                     <<Missing, Missing, "bad">>, <<"schema 2", Missing, Missing>>,
                     <<Kept, Kept, Missing>>, <<"edited", Kept, Missing>>} :
         /\ disk = [settings |-> files[1], lastGood |-> files[2], legacy |-> files[3],
                    backup |-> Missing, version2 |-> Missing, invalid |-> Missing]
         /\ settingsGood = (files[2] = Kept)

SettingsEvent == settingsEvents < MaxSettingsEvents /\ settingsEvents' = settingsEvents + 1

-----------------------------------------------------------------------------
(* The parts of UserConfig's functions, on its state.                       *)

Writing(c) == c.job # NoJob
Writable(c) == ~c.readOnly /\ c.status \in {"ready", "write-failed"}
Publish(c, snapshot) == [c EXCEPT !.live = snapshot]
Fallback(c) == IF c.lastGood = Nothing THEN Defaults ELSE c.lastGood
Ready(c) == [c EXCEPT !.status = "ready", !.kind = Nothing, !.readOnly = FALSE]

EnterRecovery(c, kind) ==
    [Publish(c, Fallback(c)) EXCEPT !.status = "recovery", !.kind = kind, !.readOnly = FALSE,
                                    !.persisted = Fallback(c)]
Future(c) == [Publish(c, Fallback(c)) EXCEPT !.status = "future", !.kind = "future", !.readOnly = TRUE]

BeginHelper(c, op, snapshot, purpose) ==
    IF Writing(c) THEN c
    ELSE [c EXCEPT !.job = [op |-> op, content |-> snapshot, purpose |-> purpose]]

(* The helper the shell starts reads its command and the payload.           *)
Starts(c) == helper' = IF Writing(c) /\ ~Writing(config)
                       THEN [NoHelper EXCEPT !.step = "begin", !.op = c.job.op, !.content = c.job.content]
                       ELSE helper
Becomes(c) == config' = c /\ Starts(c)

(* A last-good copy that cannot be written now is left for later.           *)
SaveLastGood(c, snapshot) ==
    IF Writing(c) THEN [c EXCEPT !.pendingLastGood = snapshot]
    ELSE BeginHelper(c, "last-good", snapshot, "last-good")

ApplyExternalConfiguration(c, text) ==
    LET found == Candidate(text)
        adopted == Publish([Ready(c) EXCEPT !.persisted = found, !.hasPersisted = TRUE], found)
    IN
    CASE text = "newer" -> Future(c)
      [] text # "newer" /\ found = Nothing -> EnterRecovery(c, "invalid")
      [] found # Nothing /\ text \in Configs /\ found = c.persisted /\ found = c.lastGood -> Ready(c)
      [] found # Nothing /\ ~(text \in Configs /\ found = c.persisted /\ found = c.lastGood)
         /\ c.job.purpose = "persist" /\ c.job.content = found -> c
      [] OTHER -> IF text = "schema 2" THEN BeginHelper(adopted, "upgrade", found, "upgrade")
                  ELSE SaveLastGood(adopted, found)

-----------------------------------------------------------------------------
(* The shell.                                                               *)

ReadSettings(c) ==
    LET text == disk.settings
        found == Candidate(text)
        adopted == Publish([Ready(c) EXCEPT !.persisted = found, !.hasPersisted = TRUE], found)
    IN
    CASE text = "newer" -> Future(c)
      [] text # "newer" /\ found = Nothing -> EnterRecovery(c, "invalid")
      [] text = "schema 2" -> BeginHelper(adopted, "upgrade", found, "upgrade")
      [] text \in Configs /\ c.lastGood # found -> BeginHelper(adopted, "write", found, "canonicalize")
      [] text \in Configs /\ c.lastGood = found -> adopted

FinishInspection ==
    LET c == [config EXCEPT !.lastGood = Candidate(disk.lastGood)] IN
    /\ config.status = "loading" /\ ~Writing(config)
    /\ Becomes(CASE disk.settings # Missing -> ReadSettings(c)
                 [] disk.settings = Missing /\ disk.legacy = "bad" -> EnterRecovery(c, "migration")
                 [] disk.settings = Missing /\ disk.legacy = "theme" ->
                      BeginHelper(Publish(c, Kept), "migrate", Kept, "migration")
                 [] OTHER -> BeginHelper(Publish([c EXCEPT !.persisted = Defaults], Defaults),
                                         "create", Defaults, "create"))
    /\ view' = [view EXCEPT !.watching = disk.settings # Missing, !.text = disk.settings]
    /\ UNCHANGED <<disk, settingsGood, settingsEvents>>

InspectionFails ==
    /\ config.status = "loading" /\ ~Writing(config)
    /\ SettingsEvent
    /\ config' = [EnterRecovery(config, "path") EXCEPT !.readOnly = TRUE]
    /\ UNCHANGED <<view, helper, disk, settingsGood>>

(* fileChanged: the file is read again, and what was read is used later.    *)
Reload ==
    /\ view.watching /\ view.changed
    /\ view' = [view EXCEPT !.changed = FALSE, !.loading = TRUE, !.text = disk.settings]
    /\ UNCHANGED <<config, helper, disk, settingsGood, settingsEvents>>

OnLoaded ==
    /\ view.loading
    /\ view' = [view EXCEPT !.loading = FALSE]
    /\ Becomes(CASE view.text # Missing -> ApplyExternalConfiguration(config, view.text)
                 [] view.text = Missing /\ config.hasPersisted -> EnterRecovery(config, "missing")
                 [] OTHER -> config)
    /\ UNCHANGED <<disk, settingsGood, settingsEvents>>

SchedulePersistence(c, snapshot, continuous) ==
    [c EXCEPT !.candidate = snapshot,
              !.soon = IF continuous THEN @ \cup {"debounce"} ELSE (@ \ {"debounce"}) \cup {"persist"}]

UpdatePage(snapshot, continuous) ==
    /\ Writable(config)
    /\ Becomes(SchedulePersistence(Publish(config, snapshot), snapshot, continuous))

Recover(c, snapshot) ==
    BeginHelper(Publish(c, snapshot), IF c.kind = "missing" THEN "create" ELSE "recover",
                snapshot, "recovery")

ResetAll ==
    /\ config.status # "future" /\ ~config.readOnly
    /\ Becomes(IF config.status = "recovery" THEN Recover(config, Defaults)
               ELSE SchedulePersistence(Publish(config, Defaults), Defaults, FALSE))

RestoreLastGood ==
    /\ config.status = "recovery" /\ ~config.readOnly /\ config.lastGood # Nothing
    /\ Becomes(Recover(config, config.lastGood))

UserActs ==
    /\ SettingsEvent
    /\ \/ \E snapshot \in Configs, continuous \in BOOLEAN : UpdatePage(snapshot, continuous)
       \/ ResetAll
       \/ RestoreLastGood
    /\ UNCHANGED <<view, disk, settingsGood>>

(* Mutant: the change is taken before it is known that it can be written.   *)
PersistsEarly(c) ==
    IF c.candidate = Nothing \/ ~Writable(c) THEN c
    ELSE BeginHelper([c EXCEPT !.candidate = Nothing], "write", c.candidate, "persist")
Persists(c) ==
    IF Writing(c) \/ c.candidate = Nothing \/ ~Writable(c) THEN c
    ELSE BeginHelper([c EXCEPT !.candidate = Nothing], "write", c.candidate, "persist")

(* Qt.callLater and the debounce.                                           *)
PersistDesiredSnapshot ==
    \E call \in {"persist", "debounce"} \cap config.soon :
        /\ Becomes(Persists([config EXCEPT !.soon = @ \ {call}]))
        /\ UNCHANGED <<view, disk, settingsGood, settingsEvents>>

SyncPendingLastGood ==
    /\ "sync" \in config.soon
    /\ LET c == [config EXCEPT !.soon = @ \ {"sync"}] IN
         Becomes(IF Writing(c) \/ c.pendingLastGood = Nothing THEN c
                 ELSE BeginHelper([c EXCEPT !.pendingLastGood = Nothing], "last-good",
                                  c.pendingLastGood, "last-good"))
    /\ UNCHANGED <<view, disk, settingsGood, settingsEvents>>

FailedWrite(c) ==
    [(IF c.job.purpose = "persist" THEN Publish(c, c.persisted) ELSE c) EXCEPT
        !.job = NoJob, !.pendingLastGood = Nothing, !.candidate = Nothing,
        !.status = IF c.job.purpose = "migration" THEN "recovery" ELSE "write-failed",
        !.kind = IF c.job.purpose = "migration" THEN "migration" ELSE "write"]

Resumes(c) == IF c.candidate # Nothing THEN {"persist"} ELSE {"sync"}

SucceededWrite(c) ==
    [Ready(c) EXCEPT !.job = NoJob,
        !.persisted = IF c.job.purpose = "last-good" THEN @ ELSE c.job.content,
        !.lastGood = c.job.content, !.hasPersisted = TRUE,
        !.soon = @ \cup Resumes(c)]

FinishWriter ==
    /\ helper.step \in {"success", "failure"}
    /\ helper' = NoHelper
    /\ IF helper.step = "success"
       THEN /\ config' = SucceededWrite(config)
            /\ view' = IF config.job.purpose # "last-good" /\ (~view.watching \/ view.text = Missing)
                       THEN [view EXCEPT !.watching = TRUE, !.changed = TRUE] ELSE view
            /\ settingsGood' = TRUE
       ELSE config' = FailedWrite(config) /\ UNCHANGED <<view, settingsGood>>
    /\ UNCHANGED <<disk, settingsEvents>>

-----------------------------------------------------------------------------
(* The helper.  Each step installs or removes one file.                     *)

Source(op) == IF op = "migrate" THEN "legacy" ELSE "settings"
Target(op) == CASE op = "migrate" -> "backup" [] op = "upgrade" -> "version2" [] OTHER -> "invalid"
Backs == {"migrate", "upgrade", "recover"}
NoReplace == {"create", "migrate"}

Notices == view' = [view EXCEPT !.changed = @ \/ (view.watching /\ disk'.settings # disk.settings)]

(* exited() is not emitted then, and nothing else ends the shell's wait.    *)
FailsToStart ==
    /\ helper.step = "begin" /\ SettingsEvent
    /\ helper' = [helper EXCEPT !.step = "not started"]
    /\ UNCHANGED disk

(* One file: it is installed, or it is not and the step fails, or both.     *)
Install(name, content, next, otherwise) ==
    \/ /\ disk' = [disk EXCEPT ![name] = content]
       /\ helper' = next
       /\ UNCHANGED settingsEvents
    \/ /\ SettingsEvent
       /\ disk' \in {disk, [disk EXCEPT ![name] = content]}
       /\ helper' = otherwise

Fails == [helper EXCEPT !.step = "failure"]

BackupExact ==
    LET bytes == disk[Source(helper.op)]
        target == Target(helper.op)
        next == [helper EXCEPT !.read = bytes, !.step = "bundle"]
    IN
    /\ helper.step = "begin" /\ helper.op \in Backs
    /\ \/ SettingsEvent /\ helper' = Fails /\ UNCHANGED disk
       \/ /\ bytes = Missing
          /\ helper' = Fails /\ UNCHANGED <<disk, settingsEvents>>
       \/ /\ bytes # Missing /\ helper.op # "recover" /\ disk[target] # Missing
          /\ helper' = IF disk[target] = bytes THEN next ELSE Fails
          /\ UNCHANGED <<disk, settingsEvents>>
       \/ /\ bytes # Missing /\ (helper.op = "recover" \/ disk[target] = Missing)
          /\ Install(target, bytes, next, Fails)

BeginOperation ==
    /\ helper.step = "begin" /\ helper.op \notin Backs
    /\ helper' = [helper EXCEPT !.step = IF helper.op = "last-good" THEN "copy" ELSE "bundle"]
    /\ UNCHANGED <<disk, settingsEvents>>

(* writeBundle notes what it is about to replace, as far as it can read it. *)
Noted(settings, lastGood) ==
    [helper EXCEPT !.step = "settings", !.settings = settings, !.lastGood = lastGood,
                   !.unread = lastGood # disk.lastGood]
NoteFiles ==
    /\ helper.step = "bundle"
    /\ \/ helper' = Noted(disk.settings, disk.lastGood) /\ UNCHANGED settingsEvents
       \/ /\ SettingsEvent
          /\ helper' \in {Noted(Missing, disk.lastGood), Noted(disk.settings, Missing),
                         Noted(Missing, Missing)}
    /\ UNCHANGED disk

WriteSettings ==
    /\ helper.step = "settings"
    /\ IF helper.op \in NoReplace /\ disk.settings # Missing
       THEN helper' = Fails /\ UNCHANGED <<disk, settingsEvents>>
       ELSE Install("settings", helper.content, [helper EXCEPT !.step = "lastGood"], Fails)

WriteLastGood ==
    /\ helper.step = "lastGood"
    /\ Install("lastGood", helper.content,
               [helper EXCEPT !.step = IF helper.op = "migrate" THEN "unlink" ELSE "success"],
               [helper EXCEPT !.step = "restore settings"])

CopyLastGood ==
    /\ helper.step = "copy"
    /\ Install("lastGood", helper.content, [helper EXCEPT !.step = "success"], Fails)

(* Mutant: the old copy is forgotten.                                       *)
ForgetCopy == Install("lastGood", Missing, Fails, Fails)
RestoreCopy == Install("lastGood", helper.lastGood, Fails, Fails)

(* restoreFile: its own failure changes nothing more.                       *)
RestoreFiles ==
    \/ /\ helper.step = "restore settings"
       /\ LET next == [helper EXCEPT !.step = "restore lastGood"] IN
            Install("settings", helper.settings, next, next)
    \/ /\ helper.step = "restore lastGood"
       /\ RestoreCopy

Unlinks == helper.step = "restore lastGood" /\ helper.unread /\ disk'.lastGood = Missing

UnlinkLegacy ==
    /\ helper.step = "unlink"
    /\ Install("legacy", Missing, [helper EXCEPT !.step = "success"], Fails)

PerformOperation ==
    /\ BackupExact \/ BeginOperation \/ NoteFiles \/ WriteSettings \/ WriteLastGood
       \/ CopyLastGood \/ RestoreFiles \/ UnlinkLegacy \/ FailsToStart
    /\ Notices
    /\ settingsGood' = (settingsGood /\ ~Unlinks)
    /\ UNCHANGED config

-----------------------------------------------------------------------------
(* From outside: an editor, and the power.                                  *)

Tamper ==
    /\ SettingsEvent
    /\ \E text \in {"edited", "bad", "newer", Missing} \ {disk.settings} :
         disk' = [disk EXCEPT !.settings = text]
    /\ helper' = [helper EXCEPT !.edited = helper # NoHelper]
    /\ Notices
    /\ UNCHANGED <<config, settingsGood>>

Crash ==
    /\ SettingsEvent
    /\ config' = Loading /\ view' = NoView /\ helper' = NoHelper
    /\ UNCHANGED <<disk, settingsGood>>

SettingsNext ==
    \/ FinishInspection \/ InspectionFails \/ Reload \/ OnLoaded
    \/ UserActs \/ PersistDesiredSnapshot \/ SyncPendingLastGood \/ FinishWriter
    \/ PerformOperation
    \/ Tamper \/ Crash

SettingsSpec == SettingsInit /\ [][SettingsNext]_settingsVars

(* The event loop serves what it queued, and a helper runs to its end.      *)
SettingsFairness ==
    /\ WF_settingsVars(PersistDesiredSnapshot)
    /\ WF_settingsVars(FinishWriter) /\ WF_settingsVars(PerformOperation)

-----------------------------------------------------------------------------
(* Once a write has succeeded, last-good is a whole and valid configuration *)
(* whichever step fails and at any moment the machine goes down; but for    *)
(* one case the code has (src/settings/main.cpp:206-215): a helper that     *)
(* could not read last-good when it began unlinks it when its write fails.  *)
SettingsRecoverable == settingsGood => disk.lastGood \in Configs

(* What a migration, an upgrade or a recovery replaces or removes has been  *)
(* saved and stays saved whatever fails: the file still says what was saved *)
(* until it is replaced, unless settings.conf was edited meanwhile, and     *)
(* such an edit is overwritten unsaved.                                     *)
OriginalsKept ==
    LET untouched == IF helper.op = "migrate" THEN helper.step # "success"
                     ELSE helper.step \in {"bundle", "settings"}
    IN
    helper.op \in Backs /\ helper.step \notin {Nothing, "begin", "not started", "failure"} =>
        /\ disk[Target(helper.op)] = helper.read
        /\ untouched /\ ~helper.edited => disk[Source(helper.op)] = helper.read

(* A change of the user's that waits for a timer or for the write that runs *)
(* goes on waiting, unless the user changes more; and what ends the wait is *)
(* a write of that very change, or the failure of the write that runs.  It  *)
(* is set aside, not forgotten, when the file stops being writable; only a  *)
(* restart loses it.                                                        *)
EditWaits ==
    config.candidate # Nothing /\ (Writing(config) \/ {"persist", "debounce"} \cap config.soon # {})
EditIsWritten ==
    config'.job = [op |-> "write", content |-> config.candidate, purpose |-> "persist"]
EditsKept ==
    [][EditWaits =>
        \/ EditWaits' /\ config'.candidate \in {config.candidate, config'.live}
        \/ config'.candidate = Nothing /\ ~Writing(config) /\ EditIsWritten
        \/ config'.candidate = Nothing /\ helper.step = "failure"
        \/ ~Writable(config') /\ config'.candidate = config.candidate
        \/ config' = Loading]_settingsVars

(* A helper that did not start leaves the shell waiting for ever.           *)
SettingsSettled == helper.step = "not started" \/ (~EditWaits /\ ~Writing(config))

(* Nothing under way, and settings.conf, which the shell has read again, is *)
(* not valid: ordinary writes, which would replace it, are blocked.         *)
BadFileBlocksWrites ==
    /\ helper = NoHelper /\ view.watching /\ ~view.changed /\ ~view.loading
    /\ view.text = disk.settings /\ Candidate(disk.settings) = Nothing
    => ~Writable(config)
=============================================================================
