---------------------------- MODULE TextFileModel ----------------------------
(***************************************************************************)
(* The model of a text file that is open in the editor                     *)
(* (workbench/services/textfile/common/textFileEditorModel.ts), its saves  *)
(* on a TaskSequentializer (base/common/async.ts), its reloads and reverts *)
(* through the manager of the models, and the file, which the file service *)
(* reads and writes (platform/files/common/fileService.ts) while other     *)
(* programs write it too.                                                  *)
(*                                                                         *)
(* A text is a number; every edit and every write of another program makes *)
(* a new one.  Alternative versions name the states of the undo stack.     *)
(* The file is never deleted, and a changed file has another size, so that *)
(* its mtime stands for its etag.                                          *)
(***************************************************************************)
EXTENDS Integers, Sequences, SequencesExt

CONSTANT MaxActs    \* bound: what the user and other programs do, and failures

ASSUME TextFileAssumption == MaxActs \in Nat

VARIABLES
    file,       \* text and mtime on disk
    changed,    \* the watcher has yet to report that the file changed
    texts,      \* how many texts there are
    model,      \* the TextFileEditorModel without its saves
    saving,     \* its saves and its saveSequentializer
    reload,     \* a reload of the model is queued
    reading,    \* the resolve from the file under way
    reverting,  \* the revert under way, with the flags before it
    acts,       \* how many acts there were
    asked,      \* history: the last version that was to be saved
    attempted,  \* history: the last version whose write was begun
    written,    \* history: its name on the undo stack
    coincided   \* history: there was one of the coincidences below

textFileVars == <<file, changed, texts, model, saving, reload, reading, reverting, acts, asked, attempted, written, coincided>>
askVars == <<asked, attempted, written>>
historyVars == <<acts, askVars, coincided>>

Slots == 1 .. 2     \* room for the saves that run
NotYet == -1

NoSave == [phase |-> "none", kind |-> "none", outer |-> 0, version |-> 0, text |-> 0, mtime |-> 0, cancelled |-> FALSE]
NoTask == [task |-> NotYet, save |-> 0]
NoRead == [for |-> "none", version |-> 0, since |-> 0, mtime |-> NotYet, text |-> NotYet]
NoRevert == [phase |-> "none", dirty |-> FALSE, conflict |-> FALSE, error |-> FALSE, saved |-> 0, waited |-> FALSE]

Later(a, b) == IF a > b THEN a ELSE b

----------------------------------------------------------------------------
(* The model.                                                              *)

Alternative(m) == Last(m.stack).alternative
Text(m) == Last(m.stack).text

\* The content changes, in a way that can be undone.
Changed(m, text) ==
    [m EXCEPT !.version = @ + 1, !.stack = Append(@, [alternative |-> m.version + 1, text |-> text])]

\* setDirty(false): the version is the saved one.
Clean(m) == [m EXCEPT !.dirty = FALSE, !.conflict = FALSE, !.error = FALSE, !.saved = Alternative(m)]

\* updateLastResolvedFileStat: it never goes back in time.
Seen(m, mtime) == [m EXCEPT !.mtime = Later(@, mtime)]

Init ==
    /\ file = [text |-> 0, mtime |-> 0]
    /\ changed = FALSE /\ texts = 0
    /\ model = [stack |-> <<[alternative |-> 0, text |-> 0]>>, version |-> 0, saved |-> 0, mtime |-> 0,
                dirty |-> FALSE, conflict |-> FALSE, error |-> FALSE, undone |-> FALSE]
    /\ saving = [saves |-> [s \in Slots |-> NoSave], running |-> NoTask, queued |-> "none"]
    /\ reload = FALSE /\ reading = NoRead /\ reverting = NoRevert
    /\ acts = 0 /\ asked = 0 /\ attempted = 0 /\ written = 0 /\ coincided = FALSE

Phase(s) == saving.saves[s].phase
Saving == saving.running # NoTask

\* One more act, within the bound.
Act == acts < MaxActs /\ acts' = acts + 1

\* Steps coincide whose results the code does not keep apart, or changes are given
\* up on purpose (SoftRevert).
Coincides(condition) == coincided' = (coincided \/ condition)

\* onModelContentChanged after typing, or by a save participant.
\* Coincidence: amid a revert.
Edit ==
    /\ Act
    /\ Coincides(reverting # NoRevert)
    /\ texts' = texts + 1
    /\ model' = [Changed(model, texts') EXCEPT !.dirty = TRUE]
    /\ UNCHANGED <<file, changed, saving, reload, reading, reverting, askVars>>

\* onModelContentChanged after an undo: the saved version is clean again.
\* Coincidence: amid a revert, or back to the saved text after the write of another
\* has begun.
Undo ==
    /\ Act /\ Len(model.stack) > 1
    /\ LET m == [model EXCEPT !.version = @ + 1, !.stack = Front(@), !.undone = TRUE]
           back == Alternative(m) = m.saved
       IN  /\ Coincides(reverting # NoRevert \/ (back /\ written # m.saved))
           /\ model' = IF back THEN Clean(m) ELSE [m EXCEPT !.dirty = TRUE]
           /\ asked' = IF back THEN 0 ELSE asked
    /\ UNCHANGED <<file, changed, texts, saving, reload, reading, reverting, attempted, written>>

----------------------------------------------------------------------------
(* Saving.                                                                 *)

\* A save may begin with a pause after an undo, if it is an automatic one.
FirstPhases(m, kind) == IF kind = "auto" /\ m.undone THEN {"delayed", "participants"} ELSE {"participants"}

StartSave(sv, m, kind, phase) ==
    LET s == CHOOSE s \in Slots : sv.saves[s].phase = "none"
    IN  [sv EXCEPT !.saves[s] = [NoSave EXCEPT !.phase = phase, !.kind = kind, !.outer = m.version],
                   !.running = [task |-> m.version, save |-> s]]

\* cancelRunning: a save that writes has nothing to cancel any more.
CancelRunning(sv) == IF sv.running.save = 0 THEN sv ELSE [sv EXCEPT !.saves[sv.running.save].cancelled = TRUE]

\* The call comes from a save participant, or as if it did; this version is
\* being saved; or there is nothing to save, and it is not forced.
Refused(sv, m, kind) ==
    \/ \E s \in Slots : sv.saves[s].phase = "participants"
    \/ sv.running.task = m.version
    \/ kind # "explicit" /\ ~ m.dirty

\* Fault: a save that finds another one running does not wait for it.
DoSaveAtOnce(sv, m, kind, phase) == IF Refused(sv, m, kind) THEN sv ELSE StartSave(CancelRunning(sv), m, kind, phase)

\* Fault: a save that finds another one running is left to it.
DoSaveUnqueued(sv, m, kind, phase) ==
    IF Refused(sv, m, kind) THEN sv
    ELSE IF sv.running # NoTask THEN CancelRunning(sv)
    ELSE StartSave(sv, m, kind, phase)

\* doSave: at most one save waits for the one that runs.
DoSave(sv, m, kind, phase) ==
    IF Refused(sv, m, kind) THEN sv
    ELSE IF sv.running # NoTask THEN [CancelRunning(sv) EXCEPT !.queued = kind]
    ELSE StartSave(sv, m, kind, phase)

\* doneRunning of the task it is told, runQueued.
DoneRunning(sv, m, task, phase) ==
    IF sv.running.task # task THEN sv
    ELSE LET free == [sv EXCEPT !.running = NoTask, !.queued = "none"]
         IN  IF sv.queued = "none" THEN free ELSE DoSave(free, m, sv.queued, phase)

\* Fault: only the save is reported as done, under the version it began with.
EndedOutside(sv, m, s, phase) == DoneRunning([sv EXCEPT !.saves[s] = NoSave], m, sv.saves[s].outer, phase)

\* A save is over: the write it ran, if it came to that, and then the save
\* itself are done for the sequentializer.
Ended(sv, m, s, phase) ==
    LET save == sv.saves[s]
        free == [sv EXCEPT !.saves[s] = NoSave]
        inner == IF save.phase \in {"delayed", "participants"} THEN free ELSE DoneRunning(free, m, save.version, phase)
    IN  DoneRunning(inner, m, save.outer, phase)

\* What comes of the saves when one ends with a model m.
EndSave(s, m) ==
    \E phase \in FirstPhases(m, saving.queued) : saving' = Ended(saving, m, s, phase)

\* save: an automatic one stays away from a conflict or an error; "overwrite"
\* is what the message of a conflict offers.
\* Coincidence: amid a revert, while a cancelled save has yet to end, or while a
\* reload that began with this version reads the file.
Save(kind) ==
    /\ Act
    /\ Coincides(\/ reverting # NoRevert
                 \/ \E s \in Slots : saving.saves[s].cancelled
                 \/ reading # NoRead /\ reading.version = model.version)
    /\ kind = "auto" => model.dirty /\ ~ model.conflict /\ ~ model.error
    /\ kind = "overwrite" => model.conflict
    /\ \E phase \in FirstPhases(model, kind) : saving' = DoSave(saving, model, kind, phase)
    /\ asked' = IF model.dirty THEN model.version ELSE asked
    /\ UNCHANGED <<file, changed, texts, model, reload, reading, reverting, attempted, written>>

\* The pause is over.
RunParticipants(s) ==
    /\ Phase(s) = "delayed" /\ ~ saving.saves[s].cancelled
    /\ saving' = [saving EXCEPT !.saves[s].phase = "participants"]
    /\ UNCHANGED <<file, changed, texts, model, reload, reading, reverting, historyVars>>

\* The user, or a participant, cancels the save.
Cancel(s) ==
    /\ Phase(s) \in {"delayed", "participants"} /\ ~ saving.saves[s].cancelled
    /\ Act
    /\ saving' = [saving EXCEPT !.saves[s].cancelled = TRUE]
    /\ asked' = 0
    /\ UNCHANGED <<file, changed, texts, model, reload, reading, reverting, attempted, written, coincided>>

Abandon(s) ==
    /\ Phase(s) \in {"delayed", "participants"} /\ saving.saves[s].cancelled
    /\ EndSave(s, model)
    /\ UNCHANGED <<file, changed, texts, model, reload, reading, reverting, historyVars>>

\* The participants are through: what they made of the text is written.
Write(s) ==
    /\ Phase(s) = "participants" /\ ~ saving.saves[s].cancelled
    /\ model' = [model EXCEPT !.error = FALSE]
    /\ saving' = [saving EXCEPT !.saves[s] = [@ EXCEPT !.phase = "validating", !.version = model.version,
                                                       !.text = Text(model), !.mtime = model.mtime],
                                !.running = [task |-> model.version, save |-> 0]]
    /\ attempted' = model.version /\ written' = Alternative(model)
    /\ UNCHANGED <<file, changed, texts, reload, reading, reverting, acts, asked, coincided>>

\* handleSaveError.
SaveFailed(s, conflict) ==
    /\ model' = [model EXCEPT !.dirty = TRUE, !.error = TRUE, !.conflict = @ \/ conflict]
    /\ EndSave(s, model')
    /\ UNCHANGED <<file, changed, texts, reload, reading, reverting, askVars, coincided>>

\* validateWriteFile: the file changed since the model saw it, to something
\* else than is to be written.
Conflicts(s) ==
    LET save == saving.saves[s]
    IN  save.kind # "overwrite" /\ file.mtime > save.mtime /\ file.text # save.text

Conflict(s) == Phase(s) = "validating" /\ Conflicts(s) /\ SaveFailed(s, TRUE) /\ UNCHANGED acts

SaveFails(s) == Phase(s) \in {"validating", "putting", "put"} /\ SaveFailed(s, FALSE) /\ Act

Validate(s) ==
    /\ Phase(s) = "validating" /\ ~ Conflicts(s)
    /\ saving' = [saving EXCEPT !.saves[s].phase = "putting"]
    /\ UNCHANGED <<file, changed, texts, model, reload, reading, reverting, historyVars>>

\* The file is written.
Put(s) ==
    /\ Phase(s) = "putting"
    /\ file' = [text |-> saving.saves[s].text, mtime |-> file.mtime + 1]
    /\ changed' = TRUE
    /\ saving' = [saving EXCEPT !.saves[s].phase = "put"]
    /\ UNCHANGED <<texts, model, reload, reading, reverting, historyVars>>

\* Fault: a text that was changed while it was written counts as saved.
SaveSucceedsAlways(s) ==
    /\ Phase(s) = "put"
    /\ model' = Clean(Seen(model, file.mtime))
    /\ EndSave(s, model')
    /\ UNCHANGED <<file, changed, texts, reload, reading, reverting, historyVars>>

\* The file service tells the stat of the file, handleSaveSuccess.
SaveSucceeds(s) ==
    /\ Phase(s) = "put"
    /\ LET m == Seen(model, file.mtime)
       IN  model' = IF saving.saves[s].version = m.version THEN Clean(m) ELSE m
    /\ EndSave(s, model')
    /\ UNCHANGED <<file, changed, texts, reload, reading, reverting, historyVars>>

----------------------------------------------------------------------------
(* Reading.                                                                *)

\* resolveFromFile: the version is remembered; a revert ignores the etag.
StartRead(for) == reading' = [NoRead EXCEPT !.for = for, !.version = model.version, !.since = model.mtime]

\* The manager reloads a model that is not dirty; resolve turns back from one
\* that is being saved.
Reload ==
    /\ reload /\ reading = NoRead
    /\ reload' = FALSE
    /\ IF model.dirty \/ Saving THEN UNCHANGED reading ELSE StartRead("reload")
    /\ UNCHANGED <<file, changed, texts, model, saving, reverting, historyVars>>

\* revert: the flags are cleared first.  The reading begins at once unless
\* another is under way, and not at all while the model is being saved.
\* Coincidence: a save is under way.
Revert ==
    /\ Act
    /\ reverting = NoRevert
    /\ Coincides(Saving)
    /\ LET waits == reading # NoRead
       IN  /\ reverting' = IF Saving /\ ~ waits THEN NoRevert
                           ELSE [phase |-> IF waits THEN "waiting" ELSE "reading", dirty |-> model.dirty,
                                 conflict |-> model.conflict, error |-> model.error, saved |-> model.saved,
                                 waited |-> waits]
           /\ IF Saving \/ waits THEN UNCHANGED reading ELSE StartRead("revert")
    /\ model' = Clean(model)
    /\ UNCHANGED <<file, changed, texts, saving, reload, askVars>>

\* A soft revert only clears the flags: what was typed stays and counts as saved.
\* Coincidence: there are changes, which are given up without the file being read.
SoftRevert ==
    /\ Act
    /\ Coincides(model.dirty)
    /\ model' = Clean(model)
    /\ UNCHANGED <<file, changed, texts, saving, reload, reading, reverting, askVars>>

RevertGoesOn ==
    /\ reverting.phase = "waiting" /\ reading = NoRead
    /\ IF model.dirty \/ Saving
       THEN reverting' = NoRevert /\ UNCHANGED reading
       ELSE reverting' = [reverting EXCEPT !.phase = "reading"] /\ StartRead("revert")
    /\ UNCHANGED <<file, changed, texts, model, saving, reload, historyVars>>

\* validateReadFile: the stat of the file, and no more if it is the known one.
ReadStat ==
    /\ reading # NoRead /\ reading.mtime = NotYet
    /\ IF reading.for = "reload" /\ file.mtime = reading.since
       THEN model' = Seen(model, file.mtime) /\ reading' = NoRead
       ELSE reading' = [reading EXCEPT !.mtime = file.mtime] /\ UNCHANGED model
    /\ UNCHANGED <<file, changed, texts, saving, reload, reverting, historyVars>>

\* The text of the file, for a revert perhaps before its stat.
ReadText ==
    /\ reading # NoRead /\ reading.text = NotYet
    /\ reading.for = "reload" => reading.mtime # NotYet
    /\ reading' = [reading EXCEPT !.text = file.text]
    /\ UNCHANGED <<file, changed, texts, model, saving, reload, reverting, historyVars>>

EndRead ==
    /\ reading' = NoRead
    /\ reverting' = IF reading.for = "revert" THEN NoRevert ELSE reverting

\* resolveFromContent, unless the text was changed meanwhile.
ReadEnds ==
    /\ NotYet \notin {reading.mtime, reading.text}
    /\ EndRead
    /\ LET m == Seen(model, reading.mtime)
       IN  model' = IF reading.version # model.version THEN model
                    ELSE Clean(IF reading.text = Text(m) THEN m ELSE Changed(m, reading.text))
    /\ UNCHANGED <<file, changed, texts, saving, reload, historyVars>>

\* The file cannot be read: a revert puts the flags back.
\* Coincidence: the revert had to wait for a reload.
ReadFails ==
    /\ reading # NoRead
    /\ Act
    /\ Coincides(reading.for = "revert" /\ reverting.waited)
    /\ EndRead
    /\ model' = IF reading.for = "reload" THEN model
                ELSE [model EXCEPT !.dirty = reverting.dirty, !.conflict = reverting.conflict,
                                   !.error = reverting.error, !.saved = reverting.saved]
    /\ UNCHANGED <<file, changed, texts, saving, reload, askVars>>

----------------------------------------------------------------------------
(* The file.                                                               *)

\* The file service is between two steps that belong together.
Between ==
    \/ \E s \in Slots : Phase(s) \in {"putting", "put"}
    \/ reading # NoRead /\ (reading.mtime = NotYet) # (reading.text = NotYet)

\* Another program writes the file.
\* Coincidence: between two steps of the file service that belong together.
OthersWrite ==
    /\ Act
    /\ Coincides(Between)
    /\ texts' = texts + 1
    /\ file' = [text |-> texts', mtime |-> file.mtime + 1]
    /\ changed' = TRUE
    /\ UNCHANGED <<model, saving, reload, reading, reverting, askVars>>

\* onDidFilesChange of the manager: no reload is queued for a dirty model.
FileChanged ==
    /\ changed
    /\ changed' = FALSE
    /\ reload' = (reload \/ ~ model.dirty)
    /\ UNCHANGED <<file, texts, model, saving, reading, reverting, historyVars>>

SaveSteps(s) ==
    RunParticipants(s) \/ Abandon(s) \/ Write(s) \/ Conflict(s) \/ Validate(s) \/ Put(s) \/ SaveSucceeds(s)

ReadSteps == ReadStat \/ ReadText \/ ReadEnds \/ RevertGoesOn

Next ==
    \/ Edit \/ Undo \/ Revert \/ SoftRevert
    \/ \E kind \in {"auto", "explicit", "overwrite"} : Save(kind)
    \/ \E s \in Slots : SaveSteps(s) \/ Cancel(s) \/ SaveFails(s)
    \/ Reload \/ ReadSteps \/ ReadFails
    \/ OthersWrite \/ FileChanged

Spec == Init /\ [][Next]_textFileVars

\* Participants return, and the file service answers.
FairSpec ==
    /\ Spec
    /\ \A s \in Slots : WF_textFileVars(SaveSteps(s))
    /\ WF_textFileVars(ReadSteps) /\ WF_textFileVars(Reload) /\ WF_textFileVars(FileChanged)

----------------------------------------------------------------------------
(* Properties.                                                             *)

\* A save runs as a task, another waits only for one, and a revert waits for its
\* reading.
TypeOK ==
    /\ model.version \in Nat /\ model.saved \in 0 .. model.version
    /\ \A i \in 1 .. Len(model.stack) : model.stack[i].text \in 0 .. texts
    /\ model.mtime <= file.mtime
    /\ \A s \in Slots : Phase(s) # "none" => Saving
    /\ saving.queued # "none" => Saving
    /\ reading.for = "revert" => reverting.phase = "reading"

\* doSave, "Never ever must 2 saves execute at the same time": not even with
\* saves in saves, queued ones and texts that change in between.
OneSaveAtATime == \A s, t \in Slots : Phase(s) # "none" /\ Phase(t) # "none" => s = t

\* textfiles.ts, TextFileEditorModelState: models in conflict or error mode are
\* always dirty, whatever is undone, reverted and reloaded meanwhile.
ConflictsAreDirty == model.conflict \/ model.error => model.dirty

\* isDirty tells unsaved changes: a model that is not dirty shows the file,
\* unless it is being saved, is being read for a revert, or was changed by
\* somebody else after the model saw it.  The coincidences named at the actions
\* break this, and a soft revert of changes means to.
CleanIsSaved ==
    ~ coincided /\ ~ model.dirty /\ ~ Saving /\ reverting = NoRevert /\ model.mtime = file.mtime => Text(model) = file.text

\* Every save of a dirty model, queued, joined or refused, comes to a write of
\* its version or a later one, unless it was cancelled, the changes were undone or
\* given up, or there was a coincidence.
SavesAreAttempted == ~ coincided /\ model.dirty /\ ~ Saving => attempted >= asked

\* Every save ends, and the one that waits for it is run.
SavesEnd == Saving ~> ~ Saving

\* A revert ends.
RevertsEnd == reverting # NoRevert ~> reverting = NoRevert

\* textFileEditorModel.ts: saves exclude each other, and what failed in one
\* keeps the model dirty.
SavesAreConsistent == TypeOK /\ OneSaveAtATime /\ ConflictsAreDirty

\* Saves, queued and cancelled ones too, and reverts come to an end.
SavesAndRevertsEnd == SavesEnd /\ RevertsEnd
=============================================================================
