------------------------- MODULE TextFileModelProofs -------------------------
(***************************************************************************)
(* Theorems of TextFileModel: saves exclude each other and failures keep   *)
(* the model dirty; what was asked to be saved is written; and a model that*)
(* is not dirty shows the file.                                            *)
(*                                                                         *)
(* The first rests on the shape of the sequentializer's state: whatever it *)
(* is told, it is idle or has one task, that of the only save there is, and*)
(* a save that waits is for a later version.  The last rests on what the   *)
(* state called "saved" on the undo stack has to do with the file, through *)
(* saves that fail, edits amid a write, undos, reloads and reverts.        *)
(***************************************************************************)
EXTENDS TextFileModel, TLAPS

----------------------------------------------------------------------------
(* Types.                                                                  *)

Kind == {"auto", "explicit", "overwrite"}
Before == {"delayed", "participants"}
Writing == {"validating", "putting", "put"}

Entry == [alternative : Nat, text : Nat]
Model == [stack : Seq(Entry), version : Nat, saved : Nat, mtime : Nat,
          dirty : BOOLEAN, conflict : BOOLEAN, error : BOOLEAN, undone : BOOLEAN]
SaveState == [phase : {"none"} \union Before \union Writing, kind : {"none"} \union Kind, outer : Nat,
              version : Nat, text : Nat, mtime : Nat, cancelled : BOOLEAN]
Task == [task : Nat \union {NotYet}, save : {0} \union Slots]
SavingState == [saves : [Slots -> SaveState], running : Task, queued : {"none"} \union Kind]
Read == [for : {"none", "reload", "revert"}, version : Nat, since : Nat,
         mtime : Nat \union {NotYet}, text : Nat \union {NotYet}]
RevertState == [phase : {"none", "waiting", "reading"}, dirty : BOOLEAN, conflict : BOOLEAN,
                error : BOOLEAN, saved : Nat, waited : BOOLEAN]

Typed ==
    /\ file \in [text : Nat, mtime : Nat]
    /\ changed \in BOOLEAN /\ texts \in Nat
    /\ model \in Model /\ model.stack # <<>>
    /\ saving \in SavingState
    /\ reload \in BOOLEAN /\ reading \in Read /\ reverting \in RevertState
    /\ acts \in Nat /\ asked \in Nat /\ attempted \in Nat /\ written \in Nat
    /\ coincided \in BOOLEAN

----------------------------------------------------------------------------
(* The invariants.                                                         *)

\* The state of the sequentializer without a save.
Idle == [saves |-> [s \in Slots |-> NoSave], running |-> NoTask, queued |-> "none"]

\* It is sv with the one save s, and nothing waits but for a later version, in
\* which case s was cancelled if it can be.
Runs(sv, m, s) ==
    LET save == sv.saves[s] IN
    /\ \A t \in Slots : t # s => sv.saves[t] = NoSave
    /\ \/ save.phase \in Before /\ sv.running = [task |-> save.outer, save |-> s]
       \/ save.phase \in Writing /\ sv.running = [task |-> save.version, save |-> 0]
    /\ save.outer <= m.version /\ save.version <= m.version
    /\ save.phase \in Writing => save.outer <= save.version
    /\ sv.queued # "none" => save.outer < m.version /\ (save.phase \in Before => save.cancelled)

\* Saves exclude each other.
Sequential(sv, m) == sv = Idle \/ \E s \in Slots : Runs(sv, m, s)

\* Numbers of versions, texts and mtimes are those of the past; a state of the
\* undo stack is on it once.
PastOnly ==
    /\ model.saved <= model.version /\ reverting.saved <= model.version
    /\ reading.version <= model.version
    /\ asked <= model.version /\ attempted <= model.version /\ written <= model.version
    /\ file.text <= texts /\ reading.text <= texts
    /\ \A s \in Slots : saving.saves[s].text <= texts
    /\ model.mtime <= file.mtime /\ reading.mtime <= file.mtime /\ reading.since <= model.mtime

\* The states of an undo stack: their names are those of versions up to this one
\* and differ, their texts are among the first ones.
PastStack(stack, version, count) ==
    /\ \A i \in 1 .. Len(stack) : stack[i].alternative <= version /\ stack[i].text <= count
    /\ \A i, j \in 1 .. Len(stack) : stack[i].alternative = stack[j].alternative => i = j

StackIsPast == PastStack(model.stack, model.version, texts)

\* The state of the stack with this name, if it is there, has this text.
HasText(stack, name, text) ==
    \A i \in 1 .. Len(stack) : stack[i].alternative = name => stack[i].text = text

\* What keeps a conflict or an error, keeps the model dirty.
FlagsAgree ==
    /\ model.conflict \/ model.error => model.dirty
    /\ reverting.conflict \/ reverting.error => reverting.dirty

\* A revert waits for its reading or for one before it.
RevertsRead ==
    /\ reading.for = "none" <=> reading = NoRead
    /\ reverting.phase = "none" <=> reverting = NoRevert
    /\ reading.for = "revert" <=> reverting.phase = "reading"
    /\ reverting.phase = "waiting" => reverting.waited

\* The last version attempted is that of the save that writes.
WritesAreAttempts == \A s \in Slots : Phase(s) \in Writing => saving.saves[s].version = attempted

\* A reading that will be used: the text was not changed meanwhile.
Current == reading.for # "none" /\ reading.version = model.version

\* During a revert and a reading that will be used, nothing is saved; during a
\* revert the model stays clean, and what it reads will be used.
Apart ==
    /\ reverting.phase # "none" => ~ model.dirty /\ saving = Idle
    /\ Current => saving = Idle
    /\ reading.for = "revert" => Current

\* A save asked for has been attempted, or will be, by the save that runs or by
\* the one that waits.
Attempts ==
    /\ saving.queued \in {"auto", "overwrite"} => model.dirty \/ asked = 0
    /\ \/ attempted >= asked
       \/ saving.queued # "none"
       \/ \E s \in Slots : Phase(s) \in Before /\ ~ saving.saves[s].cancelled

\* A save that writes: the state it writes has its text, it is the state of a
\* model that is not dirty, and when the file is written it holds that text and
\* the model has yet to see it.
WritesItsText ==
    \A s \in Slots : Phase(s) \in Writing =>
        /\ HasText(model.stack, written, saving.saves[s].text)
        /\ ~ model.dirty \/ saving.saves[s].version = model.version => Last(model.stack).alternative = written
        /\ Phase(s) = "put" => file.text = saving.saves[s].text /\ model.mtime < file.mtime

\* What a reading that will be used has of the file belongs together, and is not
\* older than what the model has seen.
ReadsTheFile ==
    Current =>
        /\ reading.mtime # NotYet => reading.mtime >= model.mtime
        /\ reading.mtime = NotYet /\ reading.text # NotYet => reading.text = file.text
        /\ reading.mtime # NotYet /\ reading.text = NotYet => reading.mtime = file.mtime
        /\ reading.mtime = file.mtime /\ reading.text # NotYet => reading.text = file.text

\* A model with this undo stack, mtime and flags is in step with file f, w being
\* the state last written: if it has seen f as it is, it shows f when it is not
\* dirty, and the saved state, if that was the last one written, has the text of
\* f.  Dirty, it can only be in its saved state if a write of that failed.
InStep(stack, mtime, f, w, dirty, saved) ==
    /\ mtime = f.mtime /\ ~ dirty => Last(stack).text = f.text
    /\ mtime = f.mtime /\ saved = w => HasText(stack, saved, f.text)
    /\ dirty /\ Last(stack).alternative = saved => saved = w

\* The model is in step with the file, or, during a revert that began at once, it
\* was and will be again if that fails.
KeepsInStep ==
    /\ reverting.phase = "none" => InStep(model.stack, model.mtime, file, written, model.dirty, model.saved)
    /\ reverting.phase = "reading" /\ ~ reverting.waited =>
        InStep(model.stack, model.mtime, file, written, reverting.dirty, reverting.saved)

\* Whatever coincides.
SavesInv == Typed /\ Sequential(saving, model)
StateInv == PastOnly /\ StackIsPast /\ FlagsAgree /\ RevertsRead
SafeInv == SavesInv /\ StateInv

\* Without a coincidence.
ApartInv == Apart /\ Attempts /\ WritesItsText /\ ReadsTheFile /\ KeepsInStep

HistoryInv == WritesAreAttempts /\ (~ coincided => ApartInv)

\* The inductive invariant.
TextFileInv == SafeInv /\ HistoryInv

----------------------------------------------------------------------------
(* The model.                                                              *)

\* The last state of an undo stack, and the stack without it.
LEMMA StackEnds ==
    ASSUME NEW stack \in Seq(Entry), stack # <<>>
    PROVE  /\ Len(stack) \in Nat \ {0}
           /\ Last(stack) = stack[Len(stack)] /\ Last(stack) \in Entry
           /\ Last(stack).alternative \in Nat /\ Last(stack).text \in Nat
<1>1. Len(stack) \in Nat \ {0} /\ Last(stack) = stack[Len(stack)]
  BY DEF Last
<1>2. Len(stack) \in 1 .. Len(stack)
  BY <1>1
<1>3. stack[Len(stack)] \in Entry
  BY <1>2
<1> QED
  BY <1>1, <1>3 DEF Entry

LEMMA StackFront ==
    ASSUME NEW stack \in Seq(Entry), Len(stack) > 1
    PROVE  /\ Front(stack) \in Seq(Entry) /\ Front(stack) # <<>>
           /\ Len(Front(stack)) = Len(stack) - 1
           /\ \A i \in 1 .. Len(Front(stack)) : i \in 1 .. Len(stack) /\ Front(stack)[i] = stack[i]
<1>1. 1 \in 1 .. Len(stack) /\ Len(stack) - 1 \in 1 .. Len(stack)
  OBVIOUS
<1>2. /\ Front(stack) \in Seq(Entry)
      /\ Len(Front(stack)) = Len(stack) - 1
      /\ \A i \in 1 .. (Len(stack) - 1) : Front(stack)[i] = stack[i]
  BY <1>1 DEF Front
<1> QED
  BY <1>2

\* A new state on the stack.
LEMMA StackGrown ==
    ASSUME NEW stack \in Seq(Entry), NEW entry \in Entry
    PROVE  /\ Append(stack, entry) \in Seq(Entry) /\ Append(stack, entry) # <<>>
           /\ Len(Append(stack, entry)) = Len(stack) + 1
           /\ Last(Append(stack, entry)) = entry
           /\ \A i \in 1 .. Len(stack) : Append(stack, entry)[i] = stack[i]
           /\ Append(stack, entry)[Len(stack) + 1] = entry
BY DEF Last

\* An edit makes a state with a new name, and names no other one anew.
LEMMA EditedStack ==
    ASSUME NEW stack \in Seq(Entry), NEW version \in Nat, NEW count \in Nat, NEW later \in Nat, NEW text \in Nat,
           PastStack(stack, version, count), count <= later, text <= later
    PROVE  LET new == Append(stack, [alternative |-> version + 1, text |-> text]) IN
           /\ PastStack(new, version + 1, later)
           /\ \A name \in Nat : \A held : name <= version /\ HasText(stack, name, held) => HasText(new, name, held)
           /\ HasText(new, version + 1, text)
<1> DEFINE entry == [alternative |-> version + 1, text |-> text]
           new == Append(stack, entry)
           n == Len(stack)
<1>1. /\ n \in Nat /\ Len(new) = n + 1
      /\ \A i \in 1 .. n : new[i] = stack[i] /\ stack[i] \in Entry
      /\ new[n + 1] = entry
  OBVIOUS
<1>2. entry.alternative = version + 1 /\ entry.text = text
  OBVIOUS
<1> HIDE DEF new, entry
<1>3. \A i \in 1 .. n : stack[i].alternative \in Nat /\ stack[i].text \in Nat
  BY <1>1 DEF Entry
<1>4. \A i \in 1 .. n : stack[i].alternative <= version /\ stack[i].text <= count
  BY <1>1 DEF PastStack
<1>5. \A i \in 1 .. n : new[i].alternative <= version /\ new[i].text <= later
  BY <1>1, <1>3, <1>4
<1>6. ASSUME NEW i \in 1 .. (n + 1)
      PROVE  i \in 1 .. n \/ (i = n + 1 /\ new[i].alternative = version + 1 /\ new[i].text = text)
  BY <1>1, <1>2
<1>7. PastStack(new, version + 1, later)
  <2>1. ASSUME NEW i \in 1 .. (n + 1)
        PROVE  new[i].alternative <= version + 1 /\ new[i].text <= later
    <3>1. CASE i \in 1 .. n
      <4>1. new[i].alternative \in Nat
        BY <1>1, <1>3, <3>1
      <4> QED
        BY <1>5, <3>1, <4>1
    <3>2. CASE i \notin 1 .. n
      BY <1>6, <3>2
    <3> QED
      BY <3>1, <3>2
  <2>2. ASSUME NEW i \in 1 .. (n + 1), NEW j \in 1 .. (n + 1), new[i].alternative = new[j].alternative
        PROVE  i = j
    <3>1. CASE i \in 1 .. n /\ j \in 1 .. n
      BY <1>1, <2>2, <3>1 DEF PastStack
    <3>2. CASE i \notin 1 .. n /\ j \notin 1 .. n
      BY <1>6, <3>2
    <3>3. CASE i \in 1 .. n /\ j \notin 1 .. n
      BY <1>1, <1>3, <1>5, <1>6, <2>2, <3>3
    <3>4. CASE i \notin 1 .. n /\ j \in 1 .. n
      BY <1>1, <1>3, <1>5, <1>6, <2>2, <3>4
    <3> QED
      BY <3>1, <3>2, <3>3, <3>4
  <2> QED
    BY <1>1, <2>1, <2>2 DEF PastStack
<1>8. ASSUME NEW name \in Nat, NEW held, name <= version, HasText(stack, name, held)
      PROVE  HasText(new, name, held)
  <2> SUFFICES ASSUME NEW i \in 1 .. (n + 1), new[i].alternative = name
               PROVE  new[i].text = held
    BY <1>1 DEF HasText
  <2>1. i \in 1 .. n
    BY <1>6, <1>8
  <2> QED
    BY <1>1, <1>8, <2>1 DEF HasText
<1>9. HasText(new, version + 1, text)
  <2> SUFFICES ASSUME NEW i \in 1 .. (n + 1), new[i].alternative = version + 1
               PROVE  new[i].text = text
    BY <1>1 DEF HasText
  <2>1. i \notin 1 .. n
    BY <1>1, <1>3, <1>5
  <2> QED
    BY <1>6, <2>1
<1> QED
  BY <1>7, <1>8, <1>9 DEF new, entry

\* An undo takes the last state away.
LEMMA UndoneStack ==
    ASSUME NEW stack \in Seq(Entry), Len(stack) > 1, NEW version \in Nat, NEW count \in Nat,
           PastStack(stack, version, count)
    PROVE  /\ PastStack(Front(stack), version + 1, count)
           /\ \A name, held : HasText(stack, name, held) => HasText(Front(stack), name, held)
<1> DEFINE new == Front(stack)
<1>1. \A i \in 1 .. Len(new) : i \in 1 .. Len(stack) /\ new[i] = stack[i] /\ stack[i] \in Entry
  BY StackFront
<1> HIDE DEF new
<1>2. \A i \in 1 .. Len(new) : new[i].alternative <= version + 1 /\ new[i].text <= count
  <2> SUFFICES ASSUME NEW i \in 1 .. Len(new)
               PROVE  new[i].alternative <= version + 1 /\ new[i].text <= count
    OBVIOUS
  <2>1. new[i].alternative \in Nat
    BY <1>1 DEF Entry
  <2>2. new[i].alternative <= version /\ new[i].text <= count
    BY <1>1 DEF PastStack
  <2> QED
    BY <2>1, <2>2
<1>3. \A i, j \in 1 .. Len(new) : new[i].alternative = new[j].alternative => i = j
  BY <1>1 DEF PastStack
<1>4. \A name, held : HasText(stack, name, held) => HasText(new, name, held)
  BY <1>1 DEF HasText
<1> QED
  BY <1>2, <1>3, <1>4 DEF PastStack, new

\* The last state has its own text, as every state of its name.
LEMMA LastHasText ==
    ASSUME NEW stack \in Seq(Entry), stack # <<>>, NEW version, NEW count, PastStack(stack, version, count)
    PROVE  /\ Last(stack).alternative <= version /\ Last(stack).text <= count
           /\ HasText(stack, Last(stack).alternative, Last(stack).text)
           /\ \A text : HasText(stack, Last(stack).alternative, text) => Last(stack).text = text
<1>1. Len(stack) \in 1 .. Len(stack) /\ Last(stack) = stack[Len(stack)]
  BY StackEnds
<1> QED
  BY <1>1 DEF PastStack, HasText

\* The versions and texts named grow: the stack stays one of the past.
LEMMA PastStackGrows ==
    ASSUME NEW stack \in Seq(Entry), NEW version \in Nat, NEW count \in Nat, NEW later \in Nat,
           PastStack(stack, version, count), count <= later
    PROVE  PastStack(stack, version, later)
<1>1. \A i \in 1 .. Len(stack) : stack[i] \in Entry
  OBVIOUS
<1>2. \A i \in 1 .. Len(stack) : stack[i].text \in Nat
  BY <1>1 DEF Entry
<1> QED
  BY <1>2 DEF PastStack

\* setDirty(false).
LEMMA CleanModel ==
    ASSUME NEW m \in Model, m.stack # <<>>
    PROVE  /\ Clean(m) \in Model
           /\ Clean(m).stack = m.stack /\ Clean(m).version = m.version /\ Clean(m).mtime = m.mtime
           /\ Clean(m).saved = Last(m.stack).alternative
           /\ ~ Clean(m).dirty /\ ~ Clean(m).conflict /\ ~ Clean(m).error
<1>1. m.stack \in Seq(Entry)
  BY DEF Model
<1>2. Alternative(m) = Last(m.stack).alternative /\ Alternative(m) \in Nat
  BY <1>1, StackEnds DEF Alternative
<1> QED
  BY <1>2 DEF Clean, Model

\* updateLastResolvedFileStat.
LEMMA SeenModel ==
    ASSUME NEW m \in Model, NEW mtime \in Nat
    PROVE  /\ Seen(m, mtime) \in Model
           /\ Seen(m, mtime).stack = m.stack /\ Seen(m, mtime).version = m.version
           /\ Seen(m, mtime).saved = m.saved /\ Seen(m, mtime).dirty = m.dirty
           /\ Seen(m, mtime).conflict = m.conflict /\ Seen(m, mtime).error = m.error
           /\ Seen(m, mtime).mtime = IF m.mtime > mtime THEN m.mtime ELSE mtime
BY DEF Seen, Model, Later

\* The content changes.
LEMMA ChangedModel ==
    ASSUME NEW m \in Model, NEW text \in Nat
    PROVE  /\ Changed(m, text) \in Model
           /\ Changed(m, text).stack = Append(m.stack, [alternative |-> m.version + 1, text |-> text])
           /\ Changed(m, text).stack # <<>>
           /\ Last(Changed(m, text).stack) = [alternative |-> m.version + 1, text |-> text]
           /\ Changed(m, text).version = m.version + 1
           /\ Changed(m, text).saved = m.saved /\ Changed(m, text).mtime = m.mtime
           /\ Changed(m, text).dirty = m.dirty /\ Changed(m, text).conflict = m.conflict
           /\ Changed(m, text).error = m.error
<1> DEFINE entry == [alternative |-> m.version + 1, text |-> text]
           new == Append(m.stack, entry)
<1>1. m.stack \in Seq(Entry) /\ m.version \in Nat /\ entry \in Entry
  BY DEF Model, Entry
<1> HIDE DEF entry
<1>2. new \in Seq(Entry) /\ new # <<>> /\ Last(new) = entry
  BY <1>1, StackGrown
<1> HIDE DEF new
<1>3. Changed(m, text) = [m EXCEPT !.version = @ + 1, !.stack = new]
  BY DEF Changed, new, entry
<1> DEFINE w == m.version + 1
<1>4. Changed(m, text) = [stack |-> new, version |-> w, saved |-> m.saved, mtime |-> m.mtime, dirty |-> m.dirty,
                          conflict |-> m.conflict, error |-> m.error, undone |-> m.undone]
  BY <1>3 DEF Model
<1>5. w \in Nat
  BY <1>1
<1> HIDE DEF w
<1>6. Changed(m, text) \in Model
  BY <1>2, <1>4, <1>5 DEF Model
<1>7. /\ Changed(m, text).stack = new /\ Changed(m, text).version = w
      /\ Changed(m, text).saved = m.saved /\ Changed(m, text).mtime = m.mtime
      /\ Changed(m, text).dirty = m.dirty /\ Changed(m, text).conflict = m.conflict
      /\ Changed(m, text).error = m.error
  BY <1>4
<1> QED
  BY <1>2, <1>6, <1>7 DEF new, entry, w

----------------------------------------------------------------------------
(* The sequentializer.                                                     *)

\* A save has just begun, and none waits.
Begun(sv, m) ==
    \E s \in Slots :
        /\ Runs(sv, m, s) /\ sv.queued = "none"
        /\ sv.saves[s].phase \in Before /\ ~ sv.saves[s].cancelled
        /\ \A t \in Slots : sv.saves[t].text = 0 /\ sv.saves[t].phase \notin Writing

LEMMA NoSaveTyped == NoSave \in SaveState /\ NoSave.phase = "none" /\ NoSave.text = 0
BY DEF NoSave, SaveState, Before, Writing

LEMMA IdleTyped ==
    /\ Idle \in SavingState
    /\ \A s \in Slots : Idle.saves[s] = NoSave
    /\ Idle.running = NoTask /\ Idle.queued = "none"
BY NoSaveTyped DEF Idle, SavingState, NoTask, Task, Kind, NotYet

\* startSave, when nothing is saved.
LEMMA OneBegins ==
    ASSUME NEW m \in Model, NEW kind \in Kind, NEW phase \in Before
    PROVE  StartSave(Idle, m, kind, phase) \in SavingState /\ Begun(StartSave(Idle, m, kind, phase), m)
<1> DEFINE s == CHOOSE s \in Slots : Idle.saves[s].phase = "none"
           save == [NoSave EXCEPT !.phase = phase, !.kind = kind, !.outer = m.version]
           v == m.version
           sv == StartSave(Idle, m, kind, phase)
<1>1. s \in Slots
  BY IdleTyped, NoSaveTyped DEF Slots
<1>2. /\ save.phase = phase /\ save.outer = v /\ save.version = 0 /\ save.text = 0 /\ ~ save.cancelled
      /\ save \in SaveState /\ v \in Nat
  BY DEF NoSave, SaveState, Model, Kind
<1>3. sv = [Idle EXCEPT !.saves[s] = save, !.running = [task |-> v, save |-> s]]
  BY DEF StartSave
<1> HIDE DEF s, save, sv, v
<1>4. sv.saves = [Idle.saves EXCEPT ![s] = save] /\ sv.running = [task |-> v, save |-> s] /\ sv.queued = "none"
  BY <1>3 DEF Idle
<1>5. sv = [saves |-> [Idle.saves EXCEPT ![s] = save], running |-> [task |-> v, save |-> s], queued |-> "none"]
  BY <1>3 DEF Idle
<1>6. \A t \in Slots : sv.saves[t] = IF t = s THEN save ELSE NoSave
  BY <1>1, <1>4, IdleTyped DEF Idle
<1>7. sv \in SavingState
  <2>1. [Idle.saves EXCEPT ![s] = save] \in [Slots -> SaveState]
    BY <1>1, <1>2, IdleTyped DEF SavingState
  <2>2. [task |-> v, save |-> s] \in Task
    BY <1>1, <1>2 DEF Task
  <2> QED
    BY <1>5, <2>1, <2>2 DEF SavingState
<1>8. sv.saves[s] = save
  BY <1>1, <1>6
<1>9. Runs(sv, m, s)
  <2>1. save.phase \in Before /\ save.phase \notin Writing
    BY <1>2 DEF Before, Writing
  <2>2. save.outer <= m.version /\ save.version <= m.version
    BY <1>2 DEF v
  <2> QED
    BY <1>2, <1>4, <1>6, <1>8, <2>1, <2>2 DEF Runs
<1>10. \A t \in Slots : sv.saves[t].text = 0 /\ sv.saves[t].phase \notin Writing
  BY <1>2, <1>6, NoSaveTyped DEF Before, Writing
<1> QED
  BY <1>1, <1>2, <1>4, <1>7, <1>8, <1>9, <1>10 DEF Begun, sv

\* What is left when the only save is over: the one that waits, if any, begins
\* unless there is nothing to save any more.
Followed(queued, m, phase) ==
    IF queued = "none" \/ (queued # "explicit" /\ ~ m.dirty) THEN Idle ELSE StartSave(Idle, m, queued, phase)

\* doSave, when nothing is saved.
LEMMA SaveWhenIdle ==
    ASSUME NEW m \in Model, NEW kind \in Kind, NEW phase \in Before
    PROVE  DoSave(Idle, m, kind, phase) =
               IF kind # "explicit" /\ ~ m.dirty THEN Idle ELSE StartSave(Idle, m, kind, phase)
<1>1. \A s \in Slots : Idle.saves[s].phase # "participants"
  BY IdleTyped, NoSaveTyped
<1>2. Idle.running.task # m.version
  BY IdleTyped DEF NoTask, NotYet, Model
<1>3. Refused(Idle, m, kind) <=> kind # "explicit" /\ ~ m.dirty
  BY <1>1, <1>2 DEF Refused
<1> QED
  BY <1>3, IdleTyped DEF DoSave

LEMMA DoneFollows ==
    ASSUME NEW sv \in SavingState, NEW m \in Model, NEW task, NEW phase \in Before,
           sv.saves = Idle.saves, sv.running.task = task
    PROVE  DoneRunning(sv, m, task, phase) = Followed(sv.queued, m, phase)
<1> DEFINE free == [sv EXCEPT !.running = NoTask, !.queued = "none"]
<1>1. free = Idle
  <2> DEFINE one == [sv EXCEPT !.running = NoTask]
  <2>3. one = [saves |-> sv.saves, running |-> NoTask, queued |-> sv.queued]
    BY DEF SavingState
  <2>4. free = [one EXCEPT !.queued = "none"]
    BY DEF SavingState
  <2> HIDE DEF one, free
  <2>1. free = [saves |-> sv.saves, running |-> NoTask, queued |-> "none"]
    BY <2>3, <2>4
  <2>2. Idle = [saves |-> Idle.saves, running |-> NoTask, queued |-> "none"]
    BY DEF Idle
  <2> QED
    BY <2>1, <2>2
<1>2. DoneRunning(sv, m, task, phase) = IF sv.queued = "none" THEN free ELSE DoSave(free, m, sv.queued, phase)
  BY DEF DoneRunning
<1> HIDE DEF free
<1>3. CASE sv.queued = "none"
  BY <1>1, <1>2, <1>3 DEF Followed
<1>4. CASE sv.queued # "none"
  <2>1. sv.queued \in Kind
    BY <1>4 DEF SavingState
  <2> QED
    BY <1>1, <1>2, <1>4, <2>1, SaveWhenIdle DEF Followed
<1> QED
  BY <1>3, <1>4

\* A task that does not run any more is not done again.
LEMMA DoneTwice ==
    ASSUME NEW queued, NEW m \in Model, NEW phase \in Before, NEW task \in Nat,
           queued \in Kind => task < m.version, queued \in {"none"} \union Kind
    PROVE  DoneRunning(Followed(queued, m, phase), m, task, phase) = Followed(queued, m, phase)
<1>1. CASE Followed(queued, m, phase) = Idle
  BY <1>1, IdleTyped DEF DoneRunning, NoTask, NotYet
<1>2. CASE Followed(queued, m, phase) # Idle
  <2>1. queued \in Kind /\ Followed(queued, m, phase) = StartSave(Idle, m, queued, phase)
    BY <1>2 DEF Followed
  <2>2. PICK s : StartSave(Idle, m, queued, phase).running = [task |-> m.version, save |-> s]
    BY DEF StartSave, Idle
  <2>3. Followed(queued, m, phase).running.task = m.version /\ task # m.version
    BY <2>1, <2>2 DEF Model
  <2> QED
    BY <2>3 DEF DoneRunning
<1> QED
  BY <1>1, <1>2

\* A save is over.
LEMMA OneEnds ==
    ASSUME NEW sv \in SavingState, NEW m \in Model, NEW s \in Slots, Runs(sv, m, s), NEW phase \in Before
    PROVE  Ended(sv, m, s, phase) = Followed(sv.queued, m, phase)
<1> DEFINE save == sv.saves[s]
           free == [sv EXCEPT !.saves[s] = NoSave]
<1>1. free \in SavingState /\ free.running = sv.running /\ free.queued = sv.queued
  BY NoSaveTyped DEF SavingState
<1>2. \A t \in Slots : t # s => sv.saves[t] = NoSave
  BY DEF Runs
<1>3. free.saves = Idle.saves
  <2>1. free.saves = [sv.saves EXCEPT ![s] = NoSave]
    BY DEF SavingState
  <2>2. sv.saves \in [Slots -> SaveState]
    BY DEF SavingState
  <2>3. Idle.saves = [t \in Slots |-> NoSave]
    BY DEF Idle
  <2> QED
    BY <1>2, <2>1, <2>2, <2>3
<1>4. save \in SaveState
  BY DEF SavingState
<1>5. /\ \/ save.phase \in Before /\ sv.running.task = save.outer
         \/ save.phase \in Writing /\ sv.running.task = save.version
      /\ save.outer \in Nat
      /\ sv.queued \in Kind => save.outer < m.version
      /\ sv.queued \in {"none"} \union Kind
  BY <1>4 DEF Runs, SaveState, SavingState, Kind
<1>6. Ended(sv, m, s, phase) =
          DoneRunning(IF save.phase \in Before THEN free ELSE DoneRunning(free, m, save.version, phase),
                      m, save.outer, phase)
  BY DEF Ended, Before
<1> HIDE DEF free, save
<1>7. CASE save.phase \in Before
  BY <1>1, <1>3, <1>5, <1>6, <1>7, DoneFollows DEF Before, Writing
<1>8. CASE save.phase \in Writing
  <2>1. DoneRunning(free, m, save.version, phase) = Followed(sv.queued, m, phase)
    BY <1>1, <1>3, <1>5, <1>8, DoneFollows DEF Before, Writing
  <2>2. Ended(sv, m, s, phase) = DoneRunning(Followed(sv.queued, m, phase), m, save.outer, phase)
    BY <1>6, <1>8, <2>1 DEF Before, Writing
  <2> QED
    BY <1>5, <2>2, DoneTwice
<1> QED
  BY <1>5, <1>7, <1>8

\* A later version of the model changes nothing about its saves.
LEMMA RunsOn ==
    ASSUME NEW sv \in SavingState, NEW m \in Model, NEW n \in Model, m.version <= n.version
    PROVE  /\ \A s \in Slots : Runs(sv, m, s) => Runs(sv, n, s)
           /\ Sequential(sv, m) => Sequential(sv, n)
<1>1. ASSUME NEW s \in Slots, Runs(sv, m, s)
      PROVE  Runs(sv, n, s)
  <2>1. sv.saves[s] \in SaveState
    BY DEF SavingState
  <2>2. sv.saves[s].outer \in Nat /\ sv.saves[s].version \in Nat /\ m.version \in Nat /\ n.version \in Nat
    BY <2>1 DEF SaveState, Model
  <2> QED
    BY <1>1, <2>2 DEF Runs
<1> QED
  BY <1>1 DEF Sequential

\* There is one save, or there is none.
LEMMA OneOrNone ==
    ASSUME NEW sv \in SavingState, NEW m \in Model, Sequential(sv, m)
    PROVE  /\ \A s \in Slots : sv.saves[s].phase # "none" => Runs(sv, m, s)
           /\ \A s \in Slots : Runs(sv, m, s) =>
                /\ sv.running # NoTask /\ sv.running.task \in Nat
                /\ sv.saves[s].phase # "none" /\ sv.saves[s] \in SaveState
                /\ \A t \in Slots : t # s => sv.saves[t] = NoSave
           /\ sv.running # NoTask => \E s \in Slots : Runs(sv, m, s)
           /\ sv.running = NoTask => sv = Idle
<1>1. ASSUME NEW s \in Slots, Runs(sv, m, s)
      PROVE  /\ sv.running # NoTask /\ sv.running.task \in Nat
             /\ sv.saves[s].phase # "none" /\ sv.saves[s] \in SaveState
             /\ \A t \in Slots : t # s => sv.saves[t] = NoSave
  <2>1. sv.saves[s] \in SaveState
    BY DEF SavingState
  <2>2. sv.running.task \in Nat /\ sv.saves[s].phase # "none"
    BY <1>1, <2>1 DEF Runs, SaveState, Before, Writing
  <2>3. NoTask.task \notin Nat
    BY DEF NoTask, NotYet
  <2>4. sv.running # NoTask
    BY <2>2, <2>3
  <2>5. \A t \in Slots : t # s => sv.saves[t] = NoSave
    BY <1>1 DEF Runs
  <2> QED
    BY <2>1, <2>2, <2>4, <2>5
<1>2. ASSUME NEW s \in Slots, sv.saves[s].phase # "none"
      PROVE  Runs(sv, m, s)
  <2>1. sv # Idle
    BY <1>2, IdleTyped, NoSaveTyped
  <2>2. PICK t \in Slots : Runs(sv, m, t)
    BY <2>1 DEF Sequential
  <2>3. t = s
    BY <1>1, <1>2, <2>2, NoSaveTyped
  <2> QED
    BY <2>2, <2>3
<1>3. sv = Idle => sv.running = NoTask
  BY IdleTyped
<1> QED
  BY <1>1, <1>2, <1>3 DEF Sequential

\* What comes of the saves when one ends with a model m: one that waited begins,
\* or nothing is saved.
Follows(m) ==
    /\ saving' \in SavingState
    /\ \/ saving' = Idle /\ (saving.queued = "none" \/ (saving.queued # "explicit" /\ ~ m.dirty))
       \/ Begun(saving', m) /\ saving.queued # "none"

LEMMA SaveEnds ==
    ASSUME Typed, Sequential(saving, model), NEW s \in Slots, Phase(s) # "none",
           NEW m \in Model, m.version = model.version, EndSave(s, m)
    PROVE  Follows(m)
<1>1. saving \in SavingState /\ model \in Model
  BY DEF Typed
<1>2. Runs(saving, model, s)
  BY <1>1, OneOrNone DEF Phase
<1>3. Runs(saving, m, s)
  BY <1>1, <1>2, RunsOn DEF Model
<1>4. PICK phase \in FirstPhases(m, saving.queued) : saving' = Ended(saving, m, s, phase)
  BY DEF EndSave
<1>5. phase \in Before
  BY DEF FirstPhases, Before
<1>6. saving' = Followed(saving.queued, m, phase)
  BY <1>1, <1>3, <1>4, <1>5, OneEnds
<1>7. CASE saving.queued = "none" \/ (saving.queued # "explicit" /\ ~ m.dirty)
  BY <1>6, <1>7, IdleTyped DEF Followed, Follows
<1>8. CASE ~ (saving.queued = "none" \/ (saving.queued # "explicit" /\ ~ m.dirty))
  <2>1. saving.queued \in Kind
    BY <1>1, <1>8 DEF SavingState
  <2>2. saving' = StartSave(Idle, m, saving.queued, phase)
    BY <1>6, <1>8 DEF Followed
  <2> QED
    BY <1>5, <1>8, <2>1, <2>2, OneBegins DEF Follows
<1> QED
  BY <1>7, <1>8

\* A save that finds one running waits for it.
Waits(sv, after, m, kind) ==
    /\ sv.running # NoTask /\ sv.running.task # m.version
    /\ \A s \in Slots : sv.saves[s].phase # "participants"
    /\ after.queued = kind
    /\ \E s \in Slots :
        /\ Runs(sv, m, s) /\ Runs(after, m, s)
        /\ after.saves[s].phase = sv.saves[s].phase /\ after.saves[s].text = sv.saves[s].text
        /\ after.saves[s].version = sv.saves[s].version

\* What comes of doSave: it is refused, it begins, or it waits.
Saves(sv, after, m, kind) ==
    \/ Refused(sv, m, kind) /\ after = sv
    \/ sv = Idle /\ Begun(after, m)
    \/ Waits(sv, after, m, kind)

LEMMA SaveIsDone ==
    ASSUME NEW sv \in SavingState, NEW m \in Model, Sequential(sv, m), NEW kind \in Kind, NEW phase \in Before
    PROVE  DoSave(sv, m, kind, phase) \in SavingState /\ Saves(sv, DoSave(sv, m, kind, phase), m, kind)
<1> DEFINE after == DoSave(sv, m, kind, phase)
<1>1. CASE Refused(sv, m, kind)
  BY <1>1 DEF DoSave, Saves
<1>2. CASE ~ Refused(sv, m, kind) /\ sv.running = NoTask
  <2>1. sv = Idle
    BY <1>2, OneOrNone
  <2> QED
    BY <1>2, <2>1, OneBegins DEF DoSave, Saves
<1>3. CASE ~ Refused(sv, m, kind) /\ sv.running # NoTask
  <2>1. PICK s \in Slots : Runs(sv, m, s)
    BY <1>3, OneOrNone
  <2>2. after = [CancelRunning(sv) EXCEPT !.queued = kind]
    BY <1>3 DEF DoSave
  <2>3. /\ sv.running.task # m.version /\ kind # "none"
        /\ \A t \in Slots : sv.saves[t].phase # "participants"
    BY <1>3 DEF Refused, Kind
  <2>4. sv.saves[s] \in SaveState /\ sv.saves \in [Slots -> SaveState]
    BY DEF SavingState
  <2>5. /\ sv.saves[s].outer \in Nat /\ sv.saves[s].version \in Nat /\ m.version \in Nat
        /\ sv.saves[s].cancelled \in BOOLEAN
    BY <2>4 DEF SaveState, Model
  <2>6. \A t \in Slots : t # s => sv.saves[t] = NoSave
    BY <2>1 DEF Runs
  <2>7. CASE sv.saves[s].phase \in Writing
    <3>1. sv.running = [task |-> sv.saves[s].version, save |-> 0]
      BY <2>1, <2>7 DEF Runs, Before, Writing
    <3>2. after = [sv EXCEPT !.queued = kind]
      BY <2>2, <3>1 DEF CancelRunning
    <3>3. after = [saves |-> sv.saves, running |-> sv.running, queued |-> kind]
      BY <3>2 DEF SavingState
    <3> HIDE DEF after
    <3>4. after \in SavingState
      BY <3>3 DEF SavingState
    <3>5. sv.saves[s].outer <= sv.saves[s].version /\ sv.saves[s].version < m.version
      BY <2>1, <2>3, <2>5, <2>7, <3>1 DEF Runs
    <3>6. sv.saves[s].phase \notin Before
      BY <2>7 DEF Before, Writing
    <3>7. Runs(after, m, s)
      BY <2>1, <2>5, <2>6, <2>7, <3>1, <3>3, <3>5, <3>6 DEF Runs
    <3> QED
      BY <1>3, <2>1, <2>3, <3>3, <3>4, <3>7 DEF Waits, Saves, after
  <2>8. CASE sv.saves[s].phase \in Before
    <3>1. sv.running = [task |-> sv.saves[s].outer, save |-> s]
      BY <2>1, <2>8 DEF Runs, Before, Writing
    <3>2. s # 0
      BY DEF Slots
    <3>3. after = [[sv EXCEPT !.saves[s].cancelled = TRUE] EXCEPT !.queued = kind]
      BY <2>2, <3>1, <3>2 DEF CancelRunning
    <3> DEFINE save == [sv.saves[s] EXCEPT !.cancelled = TRUE]
               saves == [sv.saves EXCEPT ![s] = save]
    <3>4. after = [saves |-> saves, running |-> sv.running, queued |-> kind]
      BY <3>3 DEF SavingState
    <3>5. /\ save.phase = sv.saves[s].phase /\ save.outer = sv.saves[s].outer
          /\ save.version = sv.saves[s].version /\ save.text = sv.saves[s].text
          /\ save.cancelled = TRUE /\ save \in SaveState
      BY <2>4 DEF SaveState
    <3> HIDE DEF after, save
    <3>6. \A t \in Slots : saves[t] = IF t = s THEN save ELSE NoSave
      BY <2>4, <2>6
    <3>7. saves \in [Slots -> SaveState] /\ saves[s] = save
      BY <2>4, <3>5, <3>6
    <3> HIDE DEF saves
    <3>8. after \in SavingState
      BY <3>4, <3>7 DEF SavingState
    <3>9. save.outer < m.version /\ save.version <= m.version /\ save.phase \notin Writing
      BY <2>1, <2>3, <2>5, <2>8, <3>1, <3>5 DEF Runs, Before, Writing
    <3>10. Runs(after, m, s)
      <4>1. after.saves = saves /\ after.running = sv.running /\ after.queued = kind
        BY <3>4
      <4>2. after.running = [task |-> save.outer, save |-> s] /\ save.phase \in Before
        BY <2>8, <3>1, <3>5, <4>1
      <4>3. save.outer <= m.version
        BY <2>5, <3>5, <3>9
      <4>4. \A t \in Slots : t # s => after.saves[t] = NoSave
        BY <3>6, <4>1
      <4>5. after.saves[s] = save
        BY <3>7, <4>1
      <4> QED
        BY <3>5, <3>9, <4>2, <4>3, <4>4, <4>5 DEF Runs
    <3>11. after.saves[s].phase = sv.saves[s].phase /\ after.saves[s].text = sv.saves[s].text
           /\ after.saves[s].version = sv.saves[s].version /\ after.queued = kind
      BY <3>4, <3>5, <3>7
    <3> QED
      BY <1>3, <2>1, <2>3, <3>8, <3>10, <3>11 DEF Waits, Saves, after
  <2> QED
    BY <2>1, <2>7, <2>8 DEF Runs
<1> QED
  BY <1>1, <1>2, <1>3

----------------------------------------------------------------------------
(* The saves, the model and the revert are as they should be, whatever     *)
(* coincides.                                                              *)

\* The fields of the state are numbers and truth values.
LEMMA Fields ==
    ASSUME Typed
    PROVE  /\ model.version \in Nat /\ model.saved \in Nat /\ model.mtime \in Nat
           /\ model.dirty \in BOOLEAN /\ model.conflict \in BOOLEAN /\ model.error \in BOOLEAN
           /\ model.undone \in BOOLEAN
           /\ model.stack \in Seq(Entry) /\ model.stack # <<>>
           /\ Last(model.stack).alternative \in Nat /\ Last(model.stack).text \in Nat
           /\ Alternative(model) = Last(model.stack).alternative /\ Text(model) = Last(model.stack).text
           /\ file.text \in Nat /\ file.mtime \in Nat /\ texts \in Nat
           /\ reading.version \in Nat /\ reading.since \in Nat
           /\ reading.mtime \in Nat \union {NotYet} /\ reading.text \in Nat \union {NotYet}
           /\ reading.mtime \in Int /\ reading.text \in Int
           /\ asked \in Nat /\ attempted \in Nat /\ written \in Nat
           /\ reverting.saved \in Nat /\ reverting.dirty \in BOOLEAN
           /\ \A s \in Slots : saving.saves[s] \in SaveState /\ saving.saves[s].text \in Nat
                               /\ saving.saves[s].version \in Nat /\ saving.saves[s].outer \in Nat
<1>1. /\ model \in Model /\ model.stack # <<>> /\ reading \in Read /\ reverting \in RevertState
      /\ saving \in SavingState /\ file \in [text : Nat, mtime : Nat] /\ texts \in Nat
  BY DEF Typed
<1>2. model.stack \in Seq(Entry)
  BY <1>1 DEF Model
<1>3. Last(model.stack).alternative \in Nat /\ Last(model.stack).text \in Nat
  BY <1>1, <1>2, StackEnds
<1>4. \A s \in Slots : saving.saves[s] \in SaveState
  BY <1>1 DEF SavingState
<1>5. \A s \in Slots : saving.saves[s].text \in Nat /\ saving.saves[s].version \in Nat /\ saving.saves[s].outer \in Nat
  BY <1>4 DEF SaveState
<1>6. /\ model.version \in Nat /\ model.saved \in Nat /\ model.mtime \in Nat
      /\ model.dirty \in BOOLEAN /\ model.conflict \in BOOLEAN /\ model.error \in BOOLEAN
      /\ model.undone \in BOOLEAN
  BY <1>1 DEF Model
<1>7. /\ reading.version \in Nat /\ reading.since \in Nat
      /\ reading.mtime \in Nat \union {NotYet} /\ reading.text \in Nat \union {NotYet}
  BY <1>1 DEF Read
<1>8. reading.mtime \in Int /\ reading.text \in Int
  BY <1>7 DEF NotYet
<1>9. asked \in Nat /\ attempted \in Nat /\ written \in Nat
  BY DEF Typed
<1>10. reverting.saved \in Nat /\ reverting.dirty \in BOOLEAN
  BY <1>1 DEF RevertState
<1>11. file.text \in Nat /\ file.mtime \in Nat
  BY <1>1
<1>12. Alternative(model) = Last(model.stack).alternative /\ Text(model) = Last(model.stack).text
  BY DEF Alternative, Text
<1> QED
  BY <1>1, <1>2, <1>3, <1>4, <1>5, <1>6, <1>7, <1>8, <1>9, <1>10, <1>11, <1>12

LEMMA Numbers ==
    ASSUME Typed
    PROVE  /\ model.version \in Nat /\ model.saved \in Nat /\ model.mtime \in Nat
           /\ file.text \in Nat /\ file.mtime \in Nat /\ texts \in Nat
           /\ reading.version \in Nat /\ reading.since \in Nat /\ reverting.saved \in Nat
           /\ reading.mtime \in Int /\ reading.text \in Int
           /\ asked \in Nat /\ attempted \in Nat /\ written \in Nat
BY Fields

\* One save changes, the others and the sequentializer do not.
LEMMA OneMoves ==
    ASSUME NEW sv \in SavingState, NEW s \in Slots, NEW save \in SaveState
    PROVE  LET after == [sv EXCEPT !.saves[s] = save] IN
           /\ after \in SavingState /\ after.running = sv.running /\ after.queued = sv.queued
           /\ after.saves[s] = save
           /\ \A t \in Slots : t # s => after.saves[t] = sv.saves[t]
<1> DEFINE after == [sv EXCEPT !.saves[s] = save]
           saves == [sv.saves EXCEPT ![s] = save]
<1>1. sv.saves \in [Slots -> SaveState]
  BY DEF SavingState
<1>2. saves \in [Slots -> SaveState] /\ saves[s] = save /\ \A t \in Slots : t # s => saves[t] = sv.saves[t]
  BY <1>1
<1>3. after = [saves |-> saves, running |-> sv.running, queued |-> sv.queued]
  BY DEF SavingState
<1> HIDE DEF saves
<1>4. after \in SavingState
  BY <1>2, <1>3 DEF SavingState
<1> QED
  BY <1>2, <1>3, <1>4

\* A save changes its phase or is cancelled.
Moves(s) ==
    /\ saving' \in SavingState /\ saving'.running = saving.running /\ saving'.queued = saving.queued
    /\ saving'.saves[s].text = saving.saves[s].text
    /\ saving'.saves[s].outer = saving.saves[s].outer /\ saving'.saves[s].version = saving.saves[s].version
    /\ saving'.saves[s].phase \in Before <=> saving.saves[s].phase \in Before
    /\ saving'.saves[s].phase \in Writing <=> saving.saves[s].phase \in Writing
    /\ saving.saves[s].cancelled => saving'.saves[s].cancelled
    /\ \A t \in Slots : t # s => saving'.saves[t] = saving.saves[t]

LEMMA MovesOn ==
    ASSUME Typed, NEW s \in Slots, Sequential(saving, model), Phase(s) # "none", Moves(s)
    PROVE  /\ Sequential(saving', model)
           /\ \A t \in Slots : saving'.saves[t].text = saving.saves[t].text
           /\ \A t \in Slots : t # s => saving.saves[t] = NoSave /\ saving'.saves[t] = NoSave
<1>1. saving \in SavingState /\ model \in Model
  BY DEF Typed
<1>2. Runs(saving, model, s)
  BY <1>1, OneOrNone DEF Phase
<1>3. \A t \in Slots : t # s => saving.saves[t] = NoSave
  BY <1>2 DEF Runs
<1>4. \A t \in Slots : t # s => saving'.saves[t] = NoSave
  BY <1>3 DEF Moves
<1>5. Runs(saving', model, s)
  BY <1>2, <1>4 DEF Runs, Moves
<1>6. \A t \in Slots : saving'.saves[t].text = saving.saves[t].text
  BY <1>3, <1>4 DEF Moves
<1> QED
  BY <1>3, <1>4, <1>5, <1>6 DEF Sequential

LEMMA ParticipantsRun ==
    ASSUME Typed, NEW s \in Slots, RunParticipants(s)
    PROVE  Moves(s) /\ Phase(s) \in Before /\ saving'.saves[s].phase = "participants"
           /\ ~ saving.saves[s].cancelled /\ ~ saving'.saves[s].cancelled
<1> DEFINE save == [saving.saves[s] EXCEPT !.phase = "participants"]
<1>1. saving \in SavingState /\ saving.saves[s] \in SaveState /\ saving.saves[s].phase = "delayed"
      /\ ~ saving.saves[s].cancelled
  BY Fields DEF Typed, RunParticipants, Phase
<1>2. save \in SaveState /\ save.phase = "participants" /\ save.text = saving.saves[s].text
      /\ save.outer = saving.saves[s].outer /\ save.version = saving.saves[s].version
      /\ save.cancelled = saving.saves[s].cancelled
  BY <1>1 DEF SaveState, Before
<1>3. saving' = [saving EXCEPT !.saves[s] = save]
  BY DEF RunParticipants
<1> HIDE DEF save
<1>4. /\ saving' \in SavingState /\ saving'.running = saving.running /\ saving'.queued = saving.queued
      /\ saving'.saves[s] = save /\ \A t \in Slots : t # s => saving'.saves[t] = saving.saves[t]
  BY <1>1, <1>2, <1>3, OneMoves
<1> QED
  BY <1>1, <1>2, <1>4 DEF Moves, Before, Writing, Phase

LEMMA SaveIsCancelled ==
    ASSUME Typed, NEW s \in Slots, Cancel(s)
    PROVE  Moves(s) /\ Phase(s) \in Before /\ saving'.saves[s].phase = Phase(s) /\ saving'.saves[s].cancelled
<1> DEFINE save == [saving.saves[s] EXCEPT !.cancelled = TRUE]
<1>1. saving \in SavingState /\ saving.saves[s] \in SaveState /\ saving.saves[s].phase \in Before
  BY Fields DEF Typed, Cancel, Phase, Before
<1>2. save \in SaveState /\ save.phase = saving.saves[s].phase /\ save.text = saving.saves[s].text
      /\ save.outer = saving.saves[s].outer /\ save.version = saving.saves[s].version /\ save.cancelled = TRUE
  BY <1>1 DEF SaveState
<1>3. saving' = [saving EXCEPT !.saves[s] = save]
  BY DEF Cancel
<1> HIDE DEF save
<1>4. /\ saving' \in SavingState /\ saving'.running = saving.running /\ saving'.queued = saving.queued
      /\ saving'.saves[s] = save /\ \A t \in Slots : t # s => saving'.saves[t] = saving.saves[t]
  BY <1>1, <1>2, <1>3, OneMoves
<1> QED
  BY <1>1, <1>2, <1>4 DEF Moves, Phase

WritesOn(s, phase) == saving' = [saving EXCEPT !.saves[s].phase = phase]

LEMMA WriteGoesOn ==
    ASSUME Typed, NEW s \in Slots, NEW phase \in {"putting", "put"}, Phase(s) \in Writing, WritesOn(s, phase)
    PROVE  Moves(s) /\ saving'.saves[s].phase = phase
           /\ saving'.saves[s].cancelled = saving.saves[s].cancelled
<1> DEFINE save == [saving.saves[s] EXCEPT !.phase = phase]
<1>1. saving \in SavingState /\ saving.saves[s] \in SaveState /\ saving.saves[s].phase \in Writing
  BY Fields DEF Typed, Phase
<1>2. save \in SaveState /\ save.phase = phase /\ save.text = saving.saves[s].text
      /\ save.outer = saving.saves[s].outer /\ save.version = saving.saves[s].version
      /\ save.cancelled = saving.saves[s].cancelled
  BY <1>1 DEF SaveState, Writing
<1>3. saving' = [saving EXCEPT !.saves[s] = save]
  BY DEF WritesOn
<1> HIDE DEF save
<1>4. /\ saving' \in SavingState /\ saving'.running = saving.running /\ saving'.queued = saving.queued
      /\ saving'.saves[s] = save /\ \A t \in Slots : t # s => saving'.saves[t] = saving.saves[t]
  BY <1>1, <1>2, <1>3, OneMoves
<1> QED
  BY <1>1, <1>2, <1>4 DEF Moves, Before, Writing

\* What the actions do to the model.
LEMMA EditEffect ==
    ASSUME Typed, Edit
    PROVE  /\ model' \in Model /\ model'.stack # <<>>
           /\ model'.stack = Append(model.stack, [alternative |-> model.version + 1, text |-> texts + 1])
           /\ Last(model'.stack) = [alternative |-> model.version + 1, text |-> texts + 1]
           /\ model'.version = model.version + 1 /\ model'.saved = model.saved /\ model'.mtime = model.mtime
           /\ model'.dirty = TRUE /\ model'.conflict = model.conflict /\ model'.error = model.error
           /\ texts' = texts + 1
<1> DEFINE t == texts + 1
           n == Changed(model, t)
<1>1. model \in Model /\ t \in Nat
  BY Fields DEF Typed
<1>2. texts' = t /\ model' = [n EXCEPT !.dirty = TRUE]
  BY DEF Edit
<1> HIDE DEF t
<1>3. /\ n \in Model
      /\ n.stack = Append(model.stack, [alternative |-> model.version + 1, text |-> t])
      /\ n.stack # <<>>
      /\ Last(n.stack) = [alternative |-> model.version + 1, text |-> t]
      /\ n.version = model.version + 1
      /\ n.saved = model.saved /\ n.mtime = model.mtime
      /\ n.dirty = model.dirty /\ n.conflict = model.conflict
      /\ n.error = model.error
  BY <1>1, ChangedModel
<1> HIDE DEF n
<1>4. /\ model' \in Model /\ model'.stack = n.stack /\ model'.version = n.version /\ model'.saved = n.saved
      /\ model'.mtime = n.mtime /\ model'.dirty = TRUE /\ model'.conflict = n.conflict /\ model'.error = n.error
  BY <1>2, <1>3 DEF Model
<1> QED
  BY <1>2, <1>3, <1>4 DEF t

\* The model after an undo, before its dirty state is settled.
LEMMA UndoEffect ==
    ASSUME Typed, Undo
    PROVE  /\ model' \in Model /\ Len(model.stack) > 1
           /\ model'.stack = Front(model.stack) /\ model'.stack # <<>>
           /\ model'.version = model.version + 1 /\ model'.saved = model.saved /\ model'.mtime = model.mtime
           /\ \/ /\ Last(model'.stack).alternative = model.saved /\ asked' = 0
                 /\ ~ model'.dirty /\ ~ model'.conflict /\ ~ model'.error
                 /\ coincided' = (coincided \/ reverting # NoRevert \/ written # model.saved)
              \/ /\ Last(model'.stack).alternative # model.saved /\ asked' = asked
                 /\ model'.dirty = TRUE /\ model'.conflict = model.conflict /\ model'.error = model.error
                 /\ coincided' = (coincided \/ reverting # NoRevert)
<1> DEFINE n == [model EXCEPT !.version = @ + 1, !.stack = Front(@), !.undone = TRUE]
           back == Alternative(n) = n.saved
<1>1. /\ model \in Model /\ Len(model.stack) > 1 /\ model.stack \in Seq(Entry) /\ model.version \in Nat
  BY Fields DEF Typed, Undo
<1>2. Front(model.stack) \in Seq(Entry) /\ Front(model.stack) # <<>>
  BY <1>1, StackFront
<1>3. /\ model' = IF back THEN Clean(n) ELSE [n EXCEPT !.dirty = TRUE]
      /\ coincided' = (coincided \/ (reverting # NoRevert \/ (back /\ written # n.saved)))
      /\ asked' = IF back THEN 0 ELSE asked
  BY DEF Undo, Coincides
<1> DEFINE f == Front(model.stack)
           v == model.version + 1
<1>4. n = [stack |-> f, version |-> v, saved |-> model.saved, mtime |-> model.mtime,
           dirty |-> model.dirty, conflict |-> model.conflict, error |-> model.error, undone |-> TRUE]
  <2>1. model = [stack |-> model.stack, version |-> model.version, saved |-> model.saved, mtime |-> model.mtime,
           dirty |-> model.dirty, conflict |-> model.conflict, error |-> model.error, undone |-> model.undone]
    BY <1>1 DEF Model
  <2> DEFINE one == [model EXCEPT !.version = v]
             two == [one EXCEPT !.stack = f]
  <2>2. n = [two EXCEPT !.undone = TRUE]
    OBVIOUS
  <2> HIDE DEF n, f, v
  <2>3. one = [stack |-> model.stack, version |-> v, saved |-> model.saved, mtime |-> model.mtime,
           dirty |-> model.dirty, conflict |-> model.conflict, error |-> model.error, undone |-> model.undone]
    BY <1>1 DEF Model
  <2> HIDE DEF one
  <2>4. two = [stack |-> f, version |-> v, saved |-> model.saved, mtime |-> model.mtime,
           dirty |-> model.dirty, conflict |-> model.conflict, error |-> model.error, undone |-> model.undone]
    BY <2>3
  <2> HIDE DEF two
  <2> QED
    BY <2>2, <2>4
<1>5. f \in Seq(Entry) /\ f # <<>> /\ v \in Nat
  BY <1>1, <1>2
<1> HIDE DEF n, f, v
<1>6. n \in Model
  BY <1>1, <1>4, <1>5 DEF Model
<1>7. n.stack = f /\ n.version = v /\ n.saved = model.saved /\ n.mtime = model.mtime
      /\ n.conflict = model.conflict /\ n.error = model.error
  BY <1>4
<1>8. Alternative(n) = Last(f).alternative
  BY <1>7 DEF Alternative
<1>9. CASE back
  <2>1. /\ model' \in Model /\ model'.stack = n.stack /\ model'.version = n.version /\ model'.mtime = n.mtime
        /\ model'.saved = Last(n.stack).alternative /\ ~ model'.dirty /\ ~ model'.conflict /\ ~ model'.error
    BY <1>3, <1>5, <1>6, <1>7, <1>9, CleanModel
  <2> QED
    BY <1>1, <1>3, <1>5, <1>7, <1>8, <1>9, <2>1 DEF f, v
<1>10. CASE ~ back
  <2>1. /\ model' \in Model /\ model'.stack = n.stack /\ model'.version = n.version /\ model'.mtime = n.mtime
        /\ model'.saved = n.saved /\ model'.dirty = TRUE /\ model'.conflict = n.conflict /\ model'.error = n.error
    BY <1>3, <1>6, <1>10 DEF Model
  <2> QED
    BY <1>1, <1>3, <1>5, <1>7, <1>8, <1>10, <2>1 DEF f, v
<1> QED
  BY <1>9, <1>10

LEMMA WriteEffect ==
    ASSUME Typed, NEW s \in Slots, Write(s)
    PROVE  /\ model' \in Model /\ model'.stack = model.stack /\ model'.version = model.version
           /\ model'.saved = model.saved /\ model'.mtime = model.mtime /\ model'.dirty = model.dirty
           /\ model'.conflict = model.conflict /\ model'.error = FALSE
BY DEF Typed, Write, Model

LEMMA FailedEffect ==
    ASSUME Typed, NEW s \in Slots, NEW conflict \in BOOLEAN, SaveFailed(s, conflict)
    PROVE  /\ model' \in Model /\ model'.stack = model.stack /\ model'.version = model.version
           /\ model'.saved = model.saved /\ model'.mtime = model.mtime /\ model'.dirty = TRUE
<1>1. model \in Model
  BY DEF Typed
<1>2. model' = [model EXCEPT !.dirty = TRUE, !.error = TRUE, !.conflict = @ \/ conflict]
  BY DEF SaveFailed
<1> DEFINE c == model.conflict \/ conflict
<1>3. c \in BOOLEAN
  BY <1>1 DEF Model
<1>4. model' = [model EXCEPT !.dirty = TRUE, !.error = TRUE, !.conflict = c]
  BY <1>2
<1> HIDE DEF c
<1> DEFINE one == [model EXCEPT !.dirty = TRUE]
           two == [one EXCEPT !.error = TRUE]
<1>5. model' = [two EXCEPT !.conflict = c]
  BY <1>4
<1>6. one \in Model /\ one.stack = model.stack /\ one.version = model.version
      /\ one.saved = model.saved /\ one.mtime = model.mtime /\ one.dirty = TRUE
  BY <1>1 DEF Model
<1> HIDE DEF one
<1>7. two \in Model /\ two.stack = model.stack /\ two.version = model.version
      /\ two.saved = model.saved /\ two.mtime = model.mtime /\ two.dirty = TRUE
  BY <1>6 DEF Model
<1> HIDE DEF two
<1> QED
  BY <1>3, <1>5, <1>7 DEF Model

LEMMA SucceededEffect ==
    ASSUME Typed, PastOnly, NEW s \in Slots, SaveSucceeds(s)
    PROVE  /\ model' \in Model /\ model'.stack = model.stack /\ model'.version = model.version
           /\ model'.mtime = file.mtime
           /\ \/ /\ saving.saves[s].version = model.version
                 /\ model'.saved = Last(model.stack).alternative
                 /\ ~ model'.dirty /\ ~ model'.conflict /\ ~ model'.error
              \/ /\ saving.saves[s].version # model.version
                 /\ model'.saved = model.saved
                 /\ model'.dirty = model.dirty /\ model'.conflict = model.conflict /\ model'.error = model.error
<1> DEFINE n == Seen(model, file.mtime)
<1>1. model \in Model /\ model.stack # <<>> /\ file.mtime \in Nat /\ model.mtime \in Nat /\ model.mtime <= file.mtime
  BY Fields DEF Typed, PastOnly
<1>2. model' = IF saving.saves[s].version = n.version THEN Clean(n) ELSE n
  BY DEF SaveSucceeds
<1>3. /\ n \in Model /\ n.stack = model.stack /\ n.version = model.version /\ n.saved = model.saved
      /\ n.dirty = model.dirty /\ n.conflict = model.conflict /\ n.error = model.error
      /\ n.mtime = IF model.mtime > file.mtime THEN model.mtime ELSE file.mtime
  BY <1>1, SeenModel
<1>4. n.mtime = file.mtime
  BY <1>1, <1>3
<1> HIDE DEF n
<1>5. CASE saving.saves[s].version = n.version
  BY <1>1, <1>2, <1>3, <1>4, <1>5, CleanModel
<1>6. CASE saving.saves[s].version # n.version
  BY <1>1, <1>2, <1>3, <1>4, <1>6
<1> QED
  BY <1>5, <1>6

\* What is read is taken over, unless the text was changed meanwhile.
LEMMA ReadEffect ==
    ASSUME Typed, ReadEnds
    PROVE  /\ model' \in Model /\ model'.stack # <<>> /\ reading.mtime \in Nat /\ reading.text \in Nat
           /\ \/ reading.version # model.version /\ model' = model
              \/ /\ reading.version = model.version
                 /\ ~ model'.dirty /\ ~ model'.conflict /\ ~ model'.error
                 /\ model'.saved = Last(model'.stack).alternative /\ Last(model'.stack).text = reading.text
                 /\ model'.mtime = IF model.mtime > reading.mtime THEN model.mtime ELSE reading.mtime
                 /\ \/ /\ Last(model.stack).text = reading.text
                       /\ model'.stack = model.stack /\ model'.version = model.version
                    \/ /\ model'.stack = Append(model.stack, [alternative |-> model.version + 1,
                                                              text |-> reading.text])
                       /\ Last(model'.stack) = [alternative |-> model.version + 1, text |-> reading.text]
                       /\ model'.version = model.version + 1
<1> DEFINE n == Seen(model, reading.mtime)
           c == Changed(n, reading.text)
           r == IF reading.text = Text(n) THEN n ELSE c
<1>1. /\ model \in Model /\ model.stack # <<>>
      /\ reading.mtime \in Nat \union {NotYet} /\ reading.text \in Nat \union {NotYet}
  BY Fields DEF Typed
<1>2. reading.mtime \in Nat /\ reading.text \in Nat
  BY <1>1 DEF ReadEnds
<1>3. model' = IF reading.version # model.version THEN model ELSE Clean(r)
  BY DEF ReadEnds
<1>4. /\ n \in Model /\ n.stack = model.stack /\ n.version = model.version
      /\ n.mtime = IF model.mtime > reading.mtime THEN model.mtime ELSE reading.mtime
  BY <1>1, <1>2, SeenModel
<1> HIDE DEF n
<1>5. CASE reading.version # model.version
  BY <1>1, <1>2, <1>3, <1>5
<1>6. CASE reading.version = model.version /\ reading.text = Text(n)
  <2>1. model' = Clean(n)
    BY <1>3, <1>6
  <2>2. Last(model.stack).text = reading.text
    BY <1>4, <1>6 DEF Text
  <2> QED
    BY <1>1, <1>2, <1>4, <1>6, <2>1, <2>2, CleanModel
<1>7. CASE reading.version = model.version /\ reading.text # Text(n)
  <2>1. model' = Clean(c)
    BY <1>3, <1>7
  <2>2. /\ c \in Model /\ c.stack # <<>>
        /\ c.stack = Append(n.stack, [alternative |-> n.version + 1, text |-> reading.text])
        /\ Last(c.stack) = [alternative |-> n.version + 1, text |-> reading.text]
        /\ c.version = n.version + 1 /\ c.mtime = n.mtime
    BY <1>2, <1>4, ChangedModel
  <2> HIDE DEF c
  <2>3. /\ model' \in Model /\ model'.stack = c.stack /\ model'.version = c.version /\ model'.mtime = c.mtime
        /\ model'.saved = Last(c.stack).alternative /\ ~ model'.dirty /\ ~ model'.conflict /\ ~ model'.error
    BY <2>1, <2>2, CleanModel
  <2>4. model'.stack = Append(model.stack, [alternative |-> model.version + 1, text |-> reading.text])
    BY <1>4, <2>2, <2>3
  <2>5. Last(model'.stack) = [alternative |-> model.version + 1, text |-> reading.text]
    BY <1>4, <2>2, <2>3
  <2>6. Last(model'.stack).text = reading.text
    BY <2>5
  <2> QED
    BY <1>2, <1>4, <1>7, <2>2, <2>3, <2>4, <2>5, <2>6
<1> QED
  BY <1>5, <1>6, <1>7

LEMMA ReadFailedEffect ==
    ASSUME Typed, ReadFails
    PROVE  /\ model' \in Model /\ model'.stack = model.stack /\ model'.version = model.version
           /\ model'.mtime = model.mtime
           /\ \/ reading.for = "reload" /\ model' = model
              \/ /\ reading.for # "reload"
                 /\ model'.saved = reverting.saved /\ model'.dirty = reverting.dirty
                 /\ model'.conflict = reverting.conflict /\ model'.error = reverting.error
<1>1. model \in Model /\ reverting \in RevertState
  BY DEF Typed
<1>2. model' = IF reading.for = "reload" THEN model
               ELSE [model EXCEPT !.dirty = reverting.dirty, !.conflict = reverting.conflict,
                                  !.error = reverting.error, !.saved = reverting.saved]
  BY DEF ReadFails
<1>3. CASE reading.for = "reload"
  BY <1>1, <1>2, <1>3
<1>4. CASE reading.for # "reload"
  <2> DEFINE one == [model EXCEPT !.dirty = reverting.dirty]
             two == [one EXCEPT !.conflict = reverting.conflict]
             three == [two EXCEPT !.error = reverting.error]
  <2>1. model' = [three EXCEPT !.saved = reverting.saved]
    BY <1>2, <1>4
  <2>2. /\ reverting.dirty \in BOOLEAN /\ reverting.conflict \in BOOLEAN /\ reverting.error \in BOOLEAN
        /\ reverting.saved \in Nat
    BY <1>1 DEF RevertState
  <2>3. /\ one \in Model /\ one.stack = model.stack /\ one.version = model.version
        /\ one.mtime = model.mtime /\ one.dirty = reverting.dirty
    BY <1>1, <2>2 DEF Model
  <2> HIDE DEF one
  <2>4. /\ two \in Model /\ two.stack = model.stack /\ two.version = model.version
        /\ two.mtime = model.mtime /\ two.dirty = reverting.dirty /\ two.conflict = reverting.conflict
    BY <2>2, <2>3 DEF Model
  <2> HIDE DEF two
  <2>5. /\ three \in Model /\ three.stack = model.stack /\ three.version = model.version
        /\ three.mtime = model.mtime /\ three.dirty = reverting.dirty /\ three.conflict = reverting.conflict
        /\ three.error = reverting.error
    BY <2>2, <2>4 DEF Model
  <2> HIDE DEF three
  <2> QED
    BY <1>4, <2>1, <2>2, <2>5 DEF Model
<1> QED
  BY <1>3, <1>4

\* A reading starts, is through with the stat or the text of the file, or ends.
LEMMA ReadStarts ==
    ASSUME Typed, NEW for \in {"reload", "revert"}, StartRead(for)
    PROVE  /\ reading' \in Read /\ reading'.for = for /\ reading' # NoRead
           /\ reading'.version = model.version /\ reading'.since = model.mtime
           /\ reading'.mtime = NotYet /\ reading'.text = NotYet
<1>1. model.version \in Nat /\ model.mtime \in Nat
  BY Fields
<1>2. reading' = [for |-> for, version |-> model.version, since |-> model.mtime, mtime |-> NotYet, text |-> NotYet]
  BY DEF StartRead, NoRead
<1>3. reading'.for # NoRead.for
  BY <1>2 DEF NoRead
<1> QED
  BY <1>1, <1>2, <1>3 DEF Read

LEMMA NothingRead ==
    /\ NoRead \in Read /\ NoRead.for = "none" /\ NoRead.version = 0 /\ NoRead.since = 0
    /\ NoRead.mtime = -1 /\ NoRead.text = -1 /\ NotYet = -1
    /\ NoRevert \in RevertState /\ NoRevert.phase = "none" /\ NoRevert.saved = 0
    /\ ~ NoRevert.conflict /\ ~ NoRevert.error
BY DEF NoRead, Read, NoRevert, RevertState, NotYet

\* The numbers of the past are those of the past of the next version, with the
\* next text.
LEMMA PastOn ==
    ASSUME Typed, PastOnly
    PROVE  LET v == model.version + 1
               t == texts + 1
           IN  /\ model.saved <= v /\ reverting.saved <= v /\ reading.version <= v
               /\ asked <= v /\ attempted <= v /\ written <= v /\ 0 <= v
               /\ file.text <= t /\ reading.text <= t /\ \A s \in Slots : saving.saves[s].text <= t
               /\ model.version <= v /\ texts <= t
<1>1. model.version \in Nat /\ texts \in Nat
  BY Fields
<1>2. model.saved <= model.version + 1 /\ reverting.saved <= model.version + 1
  BY Numbers DEF PastOnly
<1>3. reading.version <= model.version + 1
  BY Numbers DEF PastOnly
<1>4. asked <= model.version + 1 /\ attempted <= model.version + 1 /\ written <= model.version + 1
  BY Numbers DEF PastOnly
<1>5. file.text <= texts + 1 /\ reading.text <= texts + 1
  BY Numbers DEF PastOnly
<1>6. \A s \in Slots : saving.saves[s].text <= texts + 1
  <2> SUFFICES ASSUME NEW s \in Slots
               PROVE  saving.saves[s].text <= texts + 1
    OBVIOUS
  <2>1. saving.saves[s].text \in Nat
    BY Fields
  <2>2. saving.saves[s].text <= texts
    BY DEF PastOnly
  <2> QED
    BY <1>1, <2>1, <2>2
<1> QED
  BY <1>1, <1>2, <1>3, <1>4, <1>5, <1>6

LEMMA EditSafe ==
    ASSUME SafeInv, Edit
    PROVE  SafeInv'
<1> USE DEF SafeInv, SavesInv, StateInv
<1>1. /\ model' \in Model /\ model'.stack # <<>>
      /\ model'.stack = Append(model.stack, [alternative |-> model.version + 1, text |-> texts + 1])
      /\ model'.version = model.version + 1 /\ model'.saved = model.saved /\ model'.mtime = model.mtime
      /\ model'.dirty = TRUE /\ texts' = texts + 1
  BY EditEffect
<1>2. /\ UNCHANGED <<file, changed, saving, reload, reading, reverting, asked, attempted, written>>
      /\ acts' = acts + 1 /\ coincided' = (coincided \/ reverting # NoRevert)
  BY DEF Edit, Act, Coincides, askVars
<1>3. Typed'
  BY <1>1, <1>2 DEF Typed
<1>4. Sequential(saving', model')
  <2>1. saving \in SavingState /\ model \in Model /\ model.version <= model'.version
    BY <1>1, Fields DEF Typed
  <2>2. Sequential(saving, model')
    BY <1>1, <2>1, RunsOn
  <2> QED
    BY <1>2, <2>2
<1>5. PastOnly'
  BY <1>1, <1>2, PastOn DEF PastOnly
<1>6. StackIsPast'
  <2>1. PastStack(model.stack, model.version, texts)
    BY DEF StackIsPast
  <2>2. model.stack \in Seq(Entry) /\ model.version \in Nat /\ texts \in Nat /\ texts + 1 \in Nat
        /\ texts <= texts + 1
    <3>1. model.stack \in Seq(Entry) /\ model.version \in Nat /\ texts \in Nat
      BY Fields
    <3> QED
      BY <3>1
  <2>3. PastStack(Append(model.stack, [alternative |-> model.version + 1, text |-> texts + 1]), model.version + 1, texts + 1)
    BY <2>1, <2>2, EditedStack
  <2> QED
    BY <1>1, <2>3 DEF StackIsPast
<1>7. FlagsAgree' /\ RevertsRead'
  BY <1>1, <1>2 DEF FlagsAgree, RevertsRead
<1> QED
  BY <1>3, <1>4, <1>5, <1>6, <1>7

LEMMA UndoSafe ==
    ASSUME SafeInv, Undo
    PROVE  SafeInv'
<1> USE DEF SafeInv, SavesInv, StateInv
<1>1. /\ model' \in Model /\ Len(model.stack) > 1
      /\ model'.stack = Front(model.stack) /\ model'.stack # <<>>
      /\ model'.version = model.version + 1 /\ model'.saved = model.saved /\ model'.mtime = model.mtime
      /\ asked' \in {0, asked} /\ coincided' \in BOOLEAN
      /\ \/ ~ model'.conflict /\ ~ model'.error
         \/ model'.dirty = TRUE
  BY UndoEffect DEF Typed
<1>2. /\ UNCHANGED <<file, changed, texts, saving, reload, reading, reverting, attempted, written>>
      /\ acts' = acts + 1
  BY DEF Undo, Act
<1>3. Typed'
  BY <1>1, <1>2 DEF Typed
<1>4. Sequential(saving', model')
  <2>1. saving \in SavingState /\ model \in Model /\ model.version <= model'.version
    BY <1>1, Fields DEF Typed
  <2>2. Sequential(saving, model')
    BY <1>1, <2>1, RunsOn
  <2> QED
    BY <1>2, <2>2
<1>5. PastOnly'
  <2>1. asked' <= model.version + 1
    BY <1>1, PastOn
  <2> QED
    BY <1>1, <1>2, <2>1, PastOn DEF PastOnly
<1>6. StackIsPast'
  <2>1. PastStack(Front(model.stack), model.version + 1, texts)
    BY <1>1, Fields, UndoneStack DEF StackIsPast
  <2> QED
    BY <1>1, <1>2, <2>1 DEF StackIsPast
<1>7. FlagsAgree' /\ RevertsRead'
  BY <1>1, <1>2 DEF FlagsAgree, RevertsRead
<1> QED
  BY <1>3, <1>4, <1>5, <1>6, <1>7

\* doSave changes nothing but the saves.
LEMMA SaveSafe ==
    ASSUME SafeInv, NEW kind \in Kind, Save(kind)
    PROVE  SafeInv' /\ saving' \in SavingState /\ Saves(saving, saving', model, kind)
<1> USE DEF SafeInv, SavesInv, StateInv
<1>1. /\ UNCHANGED <<file, changed, texts, model, reload, reading, reverting, attempted, written>>
      /\ acts' = acts + 1 /\ coincided' \in BOOLEAN /\ asked' \in {asked, model.version}
  BY DEF Save, Act, Coincides, Typed
<1>2. PICK phase \in FirstPhases(model, kind) : saving' = DoSave(saving, model, kind, phase)
  BY DEF Save
<1>3. phase \in Before
  BY DEF FirstPhases, Before
<1>4. saving \in SavingState /\ model \in Model
  BY DEF Typed
<1>5. saving' \in SavingState /\ Saves(saving, saving', model, kind)
  BY <1>2, <1>3, <1>4, SaveIsDone
<1>6. Sequential(saving', model')
  <2>1. CASE saving' = saving
    BY <1>1, <2>1
  <2>2. CASE Begun(saving', model)
    BY <1>1, <2>2 DEF Begun, Sequential
  <2>3. CASE Waits(saving, saving', model, kind)
    BY <1>1, <2>3 DEF Waits, Sequential
  <2> QED
    BY <1>5, <2>1, <2>2, <2>3 DEF Saves
<1>7. \A s \in Slots : saving'.saves[s].text <= texts
  <2>1. CASE saving' = saving
    BY <2>1 DEF PastOnly
  <2>2. CASE Begun(saving', model)
    BY <2>2, Numbers DEF Begun
  <2>3. CASE Waits(saving, saving', model, kind)
    <3>1. PICK s \in Slots : Runs(saving', model, s) /\ saving'.saves[s].text = saving.saves[s].text
      BY <2>3 DEF Waits
    <3>2. \A t \in Slots : t # s => saving'.saves[t] = NoSave
      BY <3>1 DEF Runs
    <3>3. NoSave.text <= texts
      BY Fields, NoSaveTyped
    <3> QED
      BY <3>1, <3>2, <3>3 DEF PastOnly
  <2> QED
    BY <1>5, <2>1, <2>2, <2>3 DEF Saves
<1>8. Typed'
  BY <1>1, <1>4, <1>5 DEF Typed, Model
<1>9. PastOnly'
  <2>1. model.version <= model.version
    BY Numbers
  <2> QED
    BY <1>1, <1>7, <2>1 DEF PastOnly
<1>10. StackIsPast' /\ FlagsAgree' /\ RevertsRead'
  BY <1>1 DEF StackIsPast, FlagsAgree, RevertsRead
<1> QED
  BY <1>5, <1>6, <1>8, <1>9, <1>10

\* A step of a save that changes its phase, cancels it or writes the file.
LEMMA MoveSafe ==
    ASSUME SafeInv, NEW s \in Slots, Phase(s) # "none", Moves(s),
           UNCHANGED <<texts, model, reload, reading, reverting, attempted, written, coincided>>,
           changed' \in BOOLEAN, acts' \in Nat, asked' \in {0, asked},
           file' \in [text : Nat, mtime : Nat], file'.text \in {file.text, saving.saves[s].text},
           file'.mtime >= file.mtime
    PROVE  SafeInv'
<1> USE DEF SafeInv, SavesInv, StateInv
<1>1. Sequential(saving', model) /\ \A t \in Slots : saving'.saves[t].text = saving.saves[t].text
  BY MovesOn
<1>2. Typed'
  BY DEF Typed, Moves
<1>3. PastOnly'
  <2>1. file'.text <= texts
    BY DEF PastOnly
  <2>2. file'.mtime \in Nat
    OBVIOUS
  <2>3. model.mtime <= file'.mtime /\ reading.mtime <= file'.mtime
    BY <2>2, Numbers DEF PastOnly
  <2>4. asked' <= model.version
    <3>1. model.version \in Nat
      BY Fields
    <3>2. asked <= model.version
      BY DEF PastOnly
    <3> QED
      BY <3>1, <3>2
  <2> QED
    BY <1>1, <2>1, <2>3, <2>4 DEF PastOnly
<1>4. StackIsPast' /\ FlagsAgree' /\ RevertsRead'
  BY DEF StackIsPast, FlagsAgree, RevertsRead
<1> QED
  BY <1>1, <1>2, <1>3, <1>4

\* A save ends, with a model that differs in its mtime and flags.
LEMMA EndSafe ==
    ASSUME SafeInv, NEW s \in Slots, Phase(s) # "none", EndSave(s, model'),
           model' \in Model, model'.stack = model.stack, model'.version = model.version,
           model'.saved <= model.version, model.mtime <= model'.mtime, model'.mtime <= file.mtime,
           model'.conflict \/ model'.error => model'.dirty,
           acts' \in Nat,
           UNCHANGED <<file, changed, texts, reload, reading, reverting, asked, attempted, written, coincided>>
    PROVE  SafeInv' /\ Follows(model')
<1> USE DEF SafeInv, SavesInv, StateInv
<1>1. Follows(model')
  BY SaveEnds
<1>2. Sequential(saving', model')
  BY <1>1 DEF Follows, Begun, Sequential
<1>3. \A t \in Slots : saving'.saves[t].text = 0
  BY <1>1, IdleTyped, NoSaveTyped DEF Follows, Begun
<1>4. Typed'
  BY <1>1 DEF Typed, Follows
<1>5. PastOnly'
  <2>1. model'.mtime \in Nat /\ model.mtime \in Nat /\ reading.since \in Nat /\ texts \in Nat
    BY Fields DEF Model
  <2>2. reading.since <= model'.mtime
    BY <2>1 DEF PastOnly
  <2> QED
    BY <1>3, <2>1, <2>2 DEF PastOnly
<1>6. StackIsPast' /\ FlagsAgree' /\ RevertsRead'
  BY DEF StackIsPast, FlagsAgree, RevertsRead
<1> QED
  BY <1>1, <1>2, <1>4, <1>5, <1>6

LEMMA WriteSafe ==
    ASSUME SafeInv, NEW s \in Slots, Write(s)
    PROVE  /\ SafeInv'
           /\ Runs(saving, model, s) /\ saving.queued = "none" /\ saving'.queued = "none"
           /\ saving'.saves[s].phase = "validating" /\ saving'.saves[s].version = model.version
           /\ saving'.saves[s].text = Last(model.stack).text
           /\ \A t \in Slots : t # s => saving'.saves[t] = NoSave
<1> USE DEF SafeInv, SavesInv, StateInv
<1>1. /\ model' \in Model /\ model'.stack = model.stack /\ model'.version = model.version
      /\ model'.saved = model.saved /\ model'.mtime = model.mtime /\ model'.dirty = model.dirty
      /\ model'.conflict = model.conflict /\ model'.error = FALSE
  BY WriteEffect
<1>2. /\ UNCHANGED <<file, changed, texts, reload, reading, reverting, acts, asked, coincided>>
      /\ attempted' = model.version /\ written' = Last(model.stack).alternative
      /\ Phase(s) = "participants" /\ ~ saving.saves[s].cancelled
  BY Fields DEF Write
<1> DEFINE save == [saving.saves[s] EXCEPT !.phase = "validating", !.version = model.version,
                                           !.text = Text(model), !.mtime = model.mtime]
           one == [saving EXCEPT !.saves[s] = save]
           task == [task |-> model.version, save |-> 0]
<1>3. saving' = [one EXCEPT !.running = task]
  BY DEF Write
<1>4. /\ saving \in SavingState /\ saving.saves[s] \in SaveState /\ saving.saves[s].phase = "participants"
      /\ model.version \in Nat /\ model.mtime \in Nat /\ Text(model) \in Nat /\ Text(model) = Last(model.stack).text
  BY <1>2, Fields DEF Typed, Phase
<1>5. save = [phase |-> "validating", kind |-> saving.saves[s].kind, outer |-> saving.saves[s].outer,
              version |-> model.version, text |-> Text(model), mtime |-> model.mtime,
              cancelled |-> saving.saves[s].cancelled]
  <2> DEFINE a == [saving.saves[s] EXCEPT !.phase = "validating"]
             b == [a EXCEPT !.version = model.version]
             c == [b EXCEPT !.text = Text(model)]
             old == saving.saves[s]
  <2>1. save = [c EXCEPT !.mtime = model.mtime]
    OBVIOUS
  <2> HIDE DEF save
  <2>2. a = [phase |-> "validating", kind |-> old.kind, outer |-> old.outer, version |-> old.version,
             text |-> old.text, mtime |-> old.mtime, cancelled |-> old.cancelled]
    BY <1>4 DEF SaveState
  <2> HIDE DEF a, old
  <2>3. b = [phase |-> "validating", kind |-> old.kind, outer |-> old.outer, version |-> model.version,
             text |-> old.text, mtime |-> old.mtime, cancelled |-> old.cancelled]
    BY <2>2
  <2> HIDE DEF b
  <2>4. c = [phase |-> "validating", kind |-> old.kind, outer |-> old.outer, version |-> model.version,
             text |-> Text(model), mtime |-> old.mtime, cancelled |-> old.cancelled]
    BY <2>3
  <2> HIDE DEF c
  <2> QED
    BY <2>1, <2>4 DEF old
<1> HIDE DEF save
<1>6. save \in SaveState
  BY <1>4, <1>5 DEF SaveState, Writing
<1>7. /\ one \in SavingState /\ one.running = saving.running /\ one.queued = saving.queued
      /\ one.saves[s] = save
      /\ \A t \in Slots : t # s => one.saves[t] = saving.saves[t]
  BY <1>4, <1>6, OneMoves
<1> HIDE DEF one
<1>8. saving'.saves = one.saves /\ saving'.queued = saving.queued /\ saving'.running = task
  BY <1>3, <1>7 DEF SavingState
<1>9. saving' \in SavingState
  <2>1. task \in Task
    BY <1>4 DEF Task
  <2> HIDE DEF task
  <2> QED
    BY <1>3, <1>7, <2>1 DEF SavingState
<1>10. Runs(saving, model, s)
  BY <1>4, OneOrNone DEF Typed
<1>11. saving.queued = "none"
  BY <1>2, <1>4, <1>10 DEF Runs, Before
<1>12. \A t \in Slots : t # s => saving'.saves[t] = NoSave
  BY <1>7, <1>8, <1>10 DEF Runs
<1>13. saving.saves[s].outer <= model.version
  BY <1>10 DEF Runs
<1>14. saving'.saves[s] = save
  BY <1>7, <1>8
<1>15. Runs(saving', model, s)
  <2>1. save.phase \in Writing /\ save.version = model.version /\ save.outer <= model.version
        /\ save.phase \notin Before
    BY <1>5, <1>13 DEF Writing, Before
  <2>2. saving'.queued = "none" /\ saving'.running = [task |-> save.version, save |-> 0]
    BY <1>8, <1>11, <2>1
  <2> QED
    BY <1>4, <1>12, <1>14, <2>1, <2>2 DEF Runs
<1>16. Sequential(saving', model')
  BY <1>1, <1>4, <1>9, <1>15, RunsOn DEF Sequential, Typed
<1>17. \A t \in Slots : saving'.saves[t].text <= texts
  <2>1. save.text = Last(model.stack).text
    BY <1>4, <1>5
  <2>2. Last(model.stack).text <= texts
    BY Fields, LastHasText DEF StackIsPast
  <2>3. NoSave.text <= texts
    BY Fields, NoSaveTyped
  <2> QED
    BY <1>12, <1>14, <2>1, <2>2, <2>3
<1>18. Typed'
  BY <1>1, <1>2, <1>9, Fields DEF Typed
<1>19. PastOnly'
  <2>1. Last(model.stack).alternative <= model.version
    BY Fields, LastHasText DEF StackIsPast
  <2>2. model.version <= model.version
    BY <1>4
  <2> QED
    BY <1>1, <1>2, <1>17, <2>1, <2>2 DEF PastOnly
<1>20. StackIsPast' /\ FlagsAgree' /\ RevertsRead'
  BY <1>1, <1>2 DEF StackIsPast, FlagsAgree, RevertsRead
<1> QED
  BY <1>4, <1>5, <1>8, <1>10, <1>11, <1>12, <1>14, <1>16, <1>18, <1>19, <1>20

LEMMA FailedSafe ==
    ASSUME SafeInv, NEW s \in Slots, Phase(s) # "none", NEW conflict \in BOOLEAN, SaveFailed(s, conflict),
           acts' \in Nat
    PROVE  SafeInv' /\ Follows(model')
<1>1. /\ model' \in Model /\ model'.stack = model.stack /\ model'.version = model.version
      /\ model'.saved = model.saved /\ model'.mtime = model.mtime /\ model'.dirty = TRUE
  BY FailedEffect DEF SafeInv, SavesInv
<1>2. model'.saved <= model.version /\ model.mtime <= model'.mtime /\ model'.mtime <= file.mtime
  BY <1>1, Fields DEF SafeInv, SavesInv, StateInv, PastOnly
<1>3. /\ EndSave(s, model')
      /\ UNCHANGED <<file, changed, texts, reload, reading, reverting, asked, attempted, written, coincided>>
  BY DEF SaveFailed, askVars
<1> QED
  BY <1>1, <1>2, <1>3, EndSafe

LEMMA SucceededSafe ==
    ASSUME SafeInv, NEW s \in Slots, SaveSucceeds(s)
    PROVE  SafeInv' /\ Follows(model')
<1> USE DEF SafeInv, SavesInv, StateInv
<1>1. /\ model' \in Model /\ model'.stack = model.stack /\ model'.version = model.version
      /\ model'.mtime = file.mtime
      /\ model'.saved \in {model.saved, Last(model.stack).alternative}
      /\ model'.conflict \/ model'.error => model'.dirty
  BY SucceededEffect DEF FlagsAgree
<1>2. model'.saved <= model.version
  <2>1. Last(model.stack).alternative <= model.version
    BY Fields, LastHasText DEF StackIsPast
  <2> QED
    BY <1>1, <2>1 DEF PastOnly
<1>3. model.mtime <= model'.mtime /\ model'.mtime <= file.mtime
  BY <1>1, Fields DEF PastOnly
<1>4. /\ EndSave(s, model') /\ Phase(s) # "none" /\ acts' \in Nat
      /\ UNCHANGED <<file, changed, texts, reload, reading, reverting, asked, attempted, written, coincided>>
  BY DEF SaveSucceeds, historyVars, askVars, Typed
<1> QED
  BY <1>1, <1>2, <1>3, <1>4, EndSafe

LEMMA AbandonSafe ==
    ASSUME SafeInv, NEW s \in Slots, Abandon(s)
    PROVE  SafeInv' /\ Follows(model')
<1> USE DEF SafeInv, SavesInv, StateInv
<1>1. /\ EndSave(s, model') /\ Phase(s) # "none" /\ acts' \in Nat /\ model' = model
      /\ UNCHANGED <<file, changed, texts, reload, reading, reverting, asked, attempted, written, coincided>>
  BY DEF Abandon, EndSave, historyVars, askVars, Typed
<1>2. model.mtime <= model.mtime
  BY Fields
<1> QED
  BY <1>1, <1>2, EndSafe DEF Typed, PastOnly, FlagsAgree

\* The steps that read: the model is left alone, or only sees the file.
LEMMA ReadSafe ==
    ASSUME SafeInv, UNCHANGED <<file, changed, texts, saving, asked, attempted, written>>,
           reload' \in BOOLEAN, acts' \in Nat, coincided' \in BOOLEAN,
           model' \in Model, model'.stack = model.stack, model'.version = model.version,
           model'.saved <= model.version, model.mtime <= model'.mtime, model'.mtime <= file.mtime,
           reading' \in Read, reading'.version <= model.version, reading'.text <= texts,
           reading'.mtime <= file.mtime, reading'.since <= model.mtime,
           reverting' \in RevertState, reverting'.saved <= model.version,
           FlagsAgree', RevertsRead'
    PROVE  SafeInv'
<1> USE DEF SafeInv, SavesInv, StateInv
<1>1. Typed'
  BY DEF Typed
<1>2. Sequential(saving', model')
  <2>1. saving \in SavingState /\ model \in Model /\ model.version <= model'.version
    BY Fields DEF Typed
  <2> QED
    BY <2>1, RunsOn
<1>3. PastOnly'
  <2>1. reading'.since \in Nat /\ model.mtime \in Nat /\ model'.mtime \in Nat
    BY Fields DEF Read, Model
  <2>2. reading'.since <= model'.mtime
    BY <2>1
  <2> QED
    BY <2>2 DEF PastOnly
<1>4. StackIsPast'
  BY DEF StackIsPast
<1> QED
  BY <1>1, <1>2, <1>3, <1>4

LEMMA ReloadSafe ==
    ASSUME SafeInv, Reload
    PROVE  SafeInv'
<1> USE DEF SafeInv, SavesInv, StateInv
<1>1. /\ UNCHANGED <<file, changed, texts, model, saving, reverting, asked, attempted, written, acts, coincided>>
      /\ reload' = FALSE /\ reading = NoRead
  BY DEF Reload, historyVars, askVars
<1>2. \/ reading' = reading
      \/ StartRead("reload")
  BY DEF Reload
<1>3. model.mtime <= model.mtime /\ model.version <= model.version /\ -1 <= texts /\ -1 <= file.mtime
  BY Numbers
<1>4. /\ reading' \in Read /\ reading'.version <= model.version /\ reading'.text <= texts
      /\ reading'.mtime <= file.mtime /\ reading'.since <= model.mtime
  <2>1. CASE reading' = reading
    BY <2>1 DEF Typed, PastOnly
  <2>2. CASE StartRead("reload")
    BY <1>3, <2>2, ReadStarts, NothingRead
  <2> QED
    BY <1>2, <2>1, <2>2
<1>5. FlagsAgree'
  BY <1>1 DEF FlagsAgree
<1>6. RevertsRead'
  <2>1. reading.for = "none" /\ reverting.phase # "reading"
    BY <1>1, NothingRead DEF RevertsRead
  <2>2. CASE reading' = reading
    BY <1>1, <2>2 DEF RevertsRead
  <2>3. CASE StartRead("reload")
    <3>1. reading'.for = "reload" /\ reading' # NoRead
      BY <2>3, ReadStarts
    <3> QED
      BY <1>1, <2>1, <3>1 DEF RevertsRead
  <2> QED
    BY <1>2, <2>2, <2>3
<1> QED
  BY <1>1, <1>3, <1>4, <1>5, <1>6, ReadSafe DEF Typed, PastOnly

\* What a revert remembers, and what it does at first.
LEMMA RevertEffect ==
    ASSUME Typed, Revert
    PROVE  /\ model' = Clean(model) /\ reverting = NoRevert /\ acts' = acts + 1
           /\ UNCHANGED <<file, changed, texts, saving, reload, asked, attempted, written>>
           /\ coincided' = (coincided \/ Saving)
           /\ \/ Saving /\ reading = NoRead /\ reverting' = NoRevert /\ reading' = reading
              \/ /\ reverting' \in RevertState /\ reverting' # NoRevert
                 /\ reverting'.saved = model.saved /\ reverting'.dirty = model.dirty
                 /\ reverting'.conflict = model.conflict /\ reverting'.error = model.error
                 /\ \/ /\ reading # NoRead /\ reading' = reading
                       /\ reverting'.phase = "waiting" /\ reverting'.waited = TRUE
                    \/ /\ reading = NoRead /\ ~ Saving /\ StartRead("revert")
                       /\ reverting'.phase = "reading" /\ reverting'.waited = FALSE
<1>1. /\ model' = Clean(model) /\ reverting = NoRevert /\ acts' = acts + 1
      /\ UNCHANGED <<file, changed, texts, saving, reload, asked, attempted, written>>
      /\ coincided' = (coincided \/ Saving)
  BY DEF Revert, Act, Coincides, askVars
<1> DEFINE waits == reading # NoRead
           new == [phase |-> IF waits THEN "waiting" ELSE "reading", dirty |-> model.dirty,
                   conflict |-> model.conflict, error |-> model.error, saved |-> model.saved,
                   waited |-> waits]
<1>2. /\ reverting' = IF Saving /\ ~ waits THEN NoRevert ELSE new
      /\ IF Saving \/ waits THEN reading' = reading ELSE StartRead("revert")
  BY DEF Revert
<1>3. /\ new \in RevertState /\ new.saved = model.saved /\ new.dirty = model.dirty
      /\ new.conflict = model.conflict /\ new.error = model.error
      /\ waits => new.phase = "waiting" /\ new.waited = TRUE
      /\ ~ waits => new.phase = "reading" /\ new.waited = FALSE
  BY Fields DEF RevertState
<1> HIDE DEF new
<1>4. new # NoRevert
  BY <1>3, NothingRead
<1> QED
  BY <1>1, <1>2, <1>3, <1>4

LEMMA RevertSafe ==
    ASSUME SafeInv, Revert
    PROVE  SafeInv'
<1> USE DEF SafeInv, SavesInv, StateInv
<1>1. /\ model' = Clean(model) /\ reverting = NoRevert
      /\ UNCHANGED <<file, changed, texts, saving, reload, asked, attempted, written>>
      /\ coincided' = (coincided \/ Saving) /\ acts' = acts + 1
  BY RevertEffect
<1>2. acts' \in Nat /\ coincided' \in BOOLEAN /\ reload' \in BOOLEAN
  BY <1>1 DEF Typed
<1>3. /\ model' \in Model /\ model'.stack = model.stack /\ model'.version = model.version
      /\ model'.mtime = model.mtime /\ model'.saved = Last(model.stack).alternative
      /\ ~ model'.conflict /\ ~ model'.error
  BY <1>1, CleanModel DEF Typed
<1>4. model'.saved <= model.version /\ model.mtime <= model'.mtime /\ model'.mtime <= file.mtime
  <2>1. Last(model.stack).alternative <= model.version
    BY Fields, LastHasText DEF StackIsPast
  <2> QED
    BY <1>3, <2>1, Numbers DEF PastOnly
<1>5. model.mtime <= model.mtime /\ model.version <= model.version /\ -1 <= texts /\ -1 <= file.mtime
      /\ 0 <= model.version
  <2>1. model.version \in Nat /\ model.mtime \in Nat /\ texts \in Nat /\ file.mtime \in Nat
    BY Fields
  <2> QED
    BY <2>1
<1>6. \/ /\ reverting' = NoRevert /\ reading' = reading /\ reading = NoRead
      \/ /\ reverting' \in RevertState /\ reverting' # NoRevert /\ reverting'.saved = model.saved
         /\ reverting'.dirty = model.dirty /\ reverting'.conflict = model.conflict
         /\ reverting'.error = model.error
         /\ \/ /\ reading # NoRead /\ reading' = reading
               /\ reverting'.phase = "waiting" /\ reverting'.waited = TRUE
            \/ reading = NoRead /\ StartRead("revert") /\ reverting'.phase = "reading"
  BY RevertEffect
<1>7. /\ reading' \in Read /\ reading'.version <= model.version /\ reading'.text <= texts
      /\ reading'.mtime <= file.mtime /\ reading'.since <= model.mtime
  <2>1. CASE reading' = reading
    BY <2>1 DEF Typed, PastOnly
  <2>2. CASE StartRead("revert")
    BY <1>5, <2>2, ReadStarts, NothingRead
  <2> QED
    BY <1>6, <2>1, <2>2
<1>8. reverting' \in RevertState /\ reverting'.saved <= model.version
  BY <1>5, <1>6, NothingRead DEF PastOnly
<1>9. FlagsAgree'
  <2>1. reverting'.conflict \/ reverting'.error => reverting'.dirty
    BY <1>6, NothingRead DEF FlagsAgree
  <2> QED
    BY <1>3, <2>1 DEF FlagsAgree
<1>10. RevertsRead'
  <2>1. reading.for # "revert" /\ (reading.for = "none" <=> reading = NoRead)
    BY <1>1, NothingRead DEF RevertsRead
  <2>2. StartRead("revert") => reading'.for = "revert" /\ reading' # NoRead
    BY ReadStarts
  <2>3. CASE reverting' = NoRevert /\ reading' = reading
    BY <2>1, <2>3, NothingRead DEF RevertsRead
  <2>4. CASE reading' = reading /\ reverting'.phase = "waiting" /\ reverting'.waited = TRUE /\ reverting' # NoRevert
    BY <2>1, <2>4, NothingRead DEF RevertsRead
  <2>5. CASE StartRead("revert") /\ reverting'.phase = "reading" /\ reverting' # NoRevert
    BY <2>2, <2>5, NothingRead DEF RevertsRead
  <2> QED
    BY <1>6, <2>3, <2>4, <2>5
<1> QED
  BY <1>1, <1>2, <1>3, <1>4, <1>7, <1>8, <1>9, <1>10, ReadSafe

\* A soft revert changes what counts as saved, and the flags.
LEMMA SoftRevertEffect ==
    ASSUME Typed, SoftRevert
    PROVE  /\ UNCHANGED <<file, changed, texts, saving, reload, reading, reverting, asked, attempted, written>>
           /\ coincided' = (coincided \/ model.dirty) /\ acts' = acts + 1
           /\ model' \in Model /\ model'.stack = model.stack /\ model'.version = model.version
           /\ model'.mtime = model.mtime /\ model'.saved = Last(model.stack).alternative
           /\ ~ model'.dirty /\ ~ model'.conflict /\ ~ model'.error
<1>1. /\ model' = Clean(model) /\ acts' = acts + 1
      /\ UNCHANGED <<file, changed, texts, saving, reload, reading, reverting, asked, attempted, written>>
      /\ coincided' = (coincided \/ model.dirty)
  BY DEF SoftRevert, Act, Coincides, askVars
<1> QED
  BY <1>1, CleanModel DEF Typed

LEMMA SoftRevertSafe ==
    ASSUME SafeInv, SoftRevert
    PROVE  SafeInv'
<1> USE DEF SafeInv, SavesInv, StateInv
<1>1. /\ UNCHANGED <<file, changed, texts, saving, reload, reading, reverting, asked, attempted, written>>
      /\ coincided' = (coincided \/ model.dirty) /\ acts' = acts + 1
      /\ model' \in Model /\ model'.stack = model.stack /\ model'.version = model.version
      /\ model'.mtime = model.mtime /\ model'.saved = Last(model.stack).alternative
      /\ ~ model'.conflict /\ ~ model'.error
  BY SoftRevertEffect
<1>2. acts' \in Nat /\ coincided' \in BOOLEAN /\ reload' \in BOOLEAN
  BY <1>1 DEF Typed
<1>3. model'.saved <= model.version /\ model.mtime <= model'.mtime /\ model'.mtime <= file.mtime
  <2>1. Last(model.stack).alternative <= model.version
    BY Fields, LastHasText DEF StackIsPast
  <2> QED
    BY <1>1, <2>1, Numbers DEF PastOnly
<1>4. /\ reading' \in Read /\ reading'.version <= model.version /\ reading'.text <= texts
      /\ reading'.mtime <= file.mtime /\ reading'.since <= model.mtime
      /\ reverting' \in RevertState /\ reverting'.saved <= model.version
  BY <1>1 DEF Typed, PastOnly
<1>5. FlagsAgree' /\ RevertsRead'
  BY <1>1 DEF FlagsAgree, RevertsRead
<1> QED
  BY <1>1, <1>2, <1>3, <1>4, <1>5, ReadSafe

LEMMA RevertGoesOnEffect ==
    ASSUME Typed, RevertGoesOn
    PROVE  /\ UNCHANGED <<file, changed, texts, model, saving, reload, asked, attempted, written, acts, coincided>>
           /\ reverting.phase = "waiting" /\ reading = NoRead
           /\ \/ /\ model.dirty \/ Saving
                 /\ reverting' = NoRevert /\ reading' = reading
              \/ /\ ~ model.dirty /\ ~ Saving /\ StartRead("revert")
                 /\ reverting' \in RevertState /\ reverting'.phase = "reading"
                 /\ reverting'.saved = reverting.saved /\ reverting'.dirty = reverting.dirty
                 /\ reverting'.conflict = reverting.conflict /\ reverting'.error = reverting.error
                 /\ reverting'.waited = reverting.waited
<1>1. /\ UNCHANGED <<file, changed, texts, model, saving, reload, asked, attempted, written, acts, coincided>>
      /\ reverting.phase = "waiting" /\ reading = NoRead
  BY DEF RevertGoesOn, historyVars, askVars
<1>2. reverting \in RevertState
  BY DEF Typed
<1>3. CASE model.dirty \/ Saving
  BY <1>1, <1>3 DEF RevertGoesOn
<1>4. CASE ~ (model.dirty \/ Saving)
  <2>1. reverting' = [reverting EXCEPT !.phase = "reading"] /\ StartRead("revert")
    BY <1>4 DEF RevertGoesOn
  <2>2. /\ reverting' \in RevertState /\ reverting'.phase = "reading"
        /\ reverting'.saved = reverting.saved /\ reverting'.dirty = reverting.dirty
        /\ reverting'.conflict = reverting.conflict /\ reverting'.error = reverting.error
        /\ reverting'.waited = reverting.waited
    BY <1>2, <2>1 DEF RevertState
  <2> QED
    BY <1>1, <1>4, <2>1, <2>2
<1> QED
  BY <1>3, <1>4

LEMMA RevertGoesOnSafe ==
    ASSUME SafeInv, RevertGoesOn
    PROVE  SafeInv'
<1> USE DEF SafeInv, SavesInv, StateInv
<1>1. /\ UNCHANGED <<file, changed, texts, model, saving, reload, asked, attempted, written, acts, coincided>>
      /\ reverting.phase = "waiting" /\ reading = NoRead
      /\ \/ reverting' = NoRevert /\ reading' = reading
         \/ /\ StartRead("revert")
            /\ reverting' \in RevertState /\ reverting'.phase = "reading"
            /\ reverting'.saved = reverting.saved /\ reverting'.dirty = reverting.dirty
            /\ reverting'.conflict = reverting.conflict /\ reverting'.error = reverting.error
  BY RevertGoesOnEffect
<1>2. model.mtime <= model.mtime /\ model.version <= model.version /\ -1 <= texts /\ -1 <= file.mtime
      /\ 0 <= model.version
  <2>1. model.version \in Nat /\ model.mtime \in Nat /\ texts \in Nat /\ file.mtime \in Nat
    BY Fields
  <2> QED
    BY <2>1
<1>3. /\ reading' \in Read /\ reading'.version <= model.version /\ reading'.text <= texts
      /\ reading'.mtime <= file.mtime /\ reading'.since <= model.mtime
  <2>1. CASE reading' = reading
    BY <2>1 DEF Typed, PastOnly
  <2>2. CASE StartRead("revert")
    BY <1>2, <2>2, ReadStarts, NothingRead
  <2> QED
    BY <1>1, <2>1, <2>2
<1>4. reverting' \in RevertState /\ reverting'.saved <= model.version
  BY <1>1, <1>2, NothingRead DEF PastOnly
<1>5. FlagsAgree'
  BY <1>1, NothingRead DEF FlagsAgree
<1>6. RevertsRead'
  <2>1. StartRead("revert") => reading'.for = "revert" /\ reading' # NoRead
    BY ReadStarts
  <2>2. reverting'.phase = "reading" => reverting' # NoRevert
    BY NothingRead
  <2> QED
    BY <1>1, <2>1, <2>2, NothingRead DEF RevertsRead
<1> QED
  BY <1>1, <1>2, <1>3, <1>4, <1>5, <1>6, ReadSafe DEF Typed, PastOnly

\* The steps of a reading.
LEMMA StatEffect ==
    ASSUME Typed, PastOnly, ReadStat
    PROVE  /\ UNCHANGED <<file, changed, texts, saving, reload, reverting, asked, attempted, written, acts, coincided>>
           /\ reading # NoRead /\ reading.mtime = NotYet
           /\ model' \in Model /\ model'.stack = model.stack /\ model'.version = model.version
           /\ model'.saved = model.saved /\ model'.dirty = model.dirty
           /\ model'.conflict = model.conflict /\ model'.error = model.error
           /\ \/ /\ reading.for = "reload" /\ reading' = NoRead
                 /\ file.mtime = reading.since /\ model'.mtime = file.mtime
              \/ /\ model' = model /\ reading' \in Read /\ reading'.for = reading.for
                 /\ reading'.version = reading.version /\ reading'.since = reading.since
                 /\ reading'.mtime = file.mtime /\ reading'.text = reading.text
<1>1. /\ UNCHANGED <<file, changed, texts, saving, reload, reverting, asked, attempted, written, acts, coincided>>
      /\ reading # NoRead /\ reading.mtime = NotYet
  BY DEF ReadStat, historyVars, askVars
<1>2. model \in Model /\ reading \in Read /\ file.mtime \in Nat /\ model.mtime \in Nat
      /\ model.mtime <= file.mtime
  BY Fields DEF Typed, PastOnly
<1>3. CASE reading.for = "reload" /\ file.mtime = reading.since
  <2>1. model' = Seen(model, file.mtime) /\ reading' = NoRead
    BY <1>3 DEF ReadStat
  <2>2. (IF model.mtime > file.mtime THEN model.mtime ELSE file.mtime) = file.mtime
    BY <1>2
  <2> QED
    BY <1>1, <1>2, <1>3, <2>1, <2>2, SeenModel
<1>4. CASE ~ (reading.for = "reload" /\ file.mtime = reading.since)
  <2>1. model' = model /\ reading' = [reading EXCEPT !.mtime = file.mtime]
    BY <1>4 DEF ReadStat
  <2>2. /\ reading' \in Read /\ reading'.for = reading.for
        /\ reading'.version = reading.version /\ reading'.since = reading.since
        /\ reading'.mtime = file.mtime /\ reading'.text = reading.text
    BY <1>2, <2>1 DEF Read
  <2> QED
    BY <1>1, <1>2, <2>1, <2>2
<1> QED
  BY <1>3, <1>4

LEMMA ReadStatSafe ==
    ASSUME SafeInv, ReadStat
    PROVE  SafeInv'
<1> USE DEF SafeInv, SavesInv, StateInv
<1>1. /\ UNCHANGED <<file, changed, texts, saving, reload, reverting, asked, attempted, written, acts, coincided>>
      /\ model' \in Model /\ model'.stack = model.stack /\ model'.version = model.version
      /\ model'.saved = model.saved /\ model'.dirty = model.dirty
      /\ model'.conflict = model.conflict /\ model'.error = model.error
      /\ reading # NoRead
  BY StatEffect
<1>2. \/ reading.for = "reload" /\ reading' = NoRead /\ model'.mtime = file.mtime
      \/ /\ model' = model /\ reading' \in Read /\ reading'.for = reading.for
         /\ reading'.version = reading.version /\ reading'.since = reading.since
         /\ reading'.mtime = file.mtime /\ reading'.text = reading.text
  BY StatEffect
<1>3. /\ model.version \in Nat /\ model.mtime \in Nat /\ texts \in Nat /\ file.mtime \in Nat
      /\ 0 <= model.version /\ 0 <= model.mtime /\ -1 <= texts /\ -1 <= file.mtime
      /\ file.mtime <= file.mtime /\ model.mtime <= model.mtime
  <2>1. model.version \in Nat /\ model.mtime \in Nat /\ texts \in Nat /\ file.mtime \in Nat
    BY Fields
  <2> QED
    BY <2>1
<1>4. model'.saved <= model.version /\ model.mtime <= model'.mtime /\ model'.mtime <= file.mtime
  BY <1>1, <1>2, <1>3 DEF PastOnly
<1>5. /\ reading' \in Read /\ reading'.version <= model.version /\ reading'.text <= texts
      /\ reading'.mtime <= file.mtime /\ reading'.since <= model.mtime
  BY <1>2, <1>3, NothingRead DEF PastOnly
<1>6. FlagsAgree'
  BY <1>1 DEF FlagsAgree
<1>7. RevertsRead'
  <2>1. reading.for # "none"
    BY <1>1 DEF RevertsRead
  <2>2. CASE reading' = NoRead /\ reading.for = "reload"
    BY <1>1, <2>2, NothingRead DEF RevertsRead
  <2>3. CASE reading'.for = reading.for
    <3>1. reading' # NoRead
      BY <2>1, <2>3, NothingRead
    <3> QED
      BY <1>1, <2>1, <2>3, <3>1 DEF RevertsRead
  <2> QED
    BY <1>2, <2>2, <2>3
<1> QED
  BY <1>1, <1>4, <1>5, <1>6, <1>7, ReadSafe DEF Typed, PastOnly

LEMMA TextEffect ==
    ASSUME Typed, ReadText
    PROVE  /\ UNCHANGED <<file, changed, texts, model, saving, reload, reverting, asked, attempted, written, acts, coincided>>
           /\ reading # NoRead /\ reading.text = NotYet
           /\ reading' \in Read /\ reading'.for = reading.for
           /\ reading'.version = reading.version /\ reading'.since = reading.since
           /\ reading'.mtime = reading.mtime /\ reading'.text = file.text
<1>1. /\ UNCHANGED <<file, changed, texts, model, saving, reload, reverting, asked, attempted, written, acts, coincided>>
      /\ reading # NoRead /\ reading.text = NotYet /\ reading' = [reading EXCEPT !.text = file.text]
  BY DEF ReadText, historyVars, askVars
<1>2. reading \in Read /\ file.text \in Nat
  BY Fields DEF Typed
<1> QED
  BY <1>1, <1>2 DEF Read

LEMMA ReadTextSafe ==
    ASSUME SafeInv, ReadText
    PROVE  SafeInv'
<1> USE DEF SafeInv, SavesInv, StateInv
<1>1. /\ UNCHANGED <<file, changed, texts, model, saving, reload, reverting, asked, attempted, written, acts, coincided>>
      /\ reading # NoRead
      /\ reading' \in Read /\ reading'.for = reading.for
      /\ reading'.version = reading.version /\ reading'.since = reading.since
      /\ reading'.mtime = reading.mtime /\ reading'.text = file.text
  BY TextEffect
<1>2. model.mtime <= model.mtime
  BY Fields
<1>3. /\ reading'.version <= model.version /\ reading'.text <= texts
      /\ reading'.mtime <= file.mtime /\ reading'.since <= model.mtime
  BY <1>1 DEF PastOnly
<1>4. RevertsRead'
  <2>1. reading'.for # "none" /\ reading' # NoRead
    BY <1>1, NothingRead DEF RevertsRead
  <2> QED
    BY <1>1, <2>1 DEF RevertsRead
<1> QED
  BY <1>1, <1>2, <1>3, <1>4, ReadSafe DEF Typed, PastOnly, FlagsAgree

LEMMA ReadEndsSafe ==
    ASSUME SafeInv, ReadEnds
    PROVE  SafeInv'
<1> USE DEF SafeInv, SavesInv, StateInv
<1>1. /\ UNCHANGED <<file, changed, texts, saving, reload, asked, attempted, written, acts, coincided>>
      /\ reading' = NoRead
      /\ reverting' = IF reading.for = "revert" THEN NoRevert ELSE reverting
  BY DEF ReadEnds, EndRead, historyVars, askVars
<1>2. /\ model' \in Model /\ model'.stack # <<>> /\ reading.mtime \in Nat /\ reading.text \in Nat
      /\ \/ model' = model
         \/ /\ ~ model'.dirty /\ ~ model'.conflict /\ ~ model'.error
            /\ model'.saved = Last(model'.stack).alternative
            /\ model'.mtime = IF model.mtime > reading.mtime THEN model.mtime ELSE reading.mtime
            /\ \/ model'.stack = model.stack /\ model'.version = model.version
               \/ /\ model'.stack = Append(model.stack, [alternative |-> model.version + 1,
                                                         text |-> reading.text])
                  /\ model'.version = model.version + 1
  BY ReadEffect
<1>3. /\ model.version \in Nat /\ model.mtime \in Nat /\ texts \in Nat /\ file.mtime \in Nat
      /\ 0 <= model.version /\ 0 <= model.mtime /\ -1 <= texts /\ -1 <= file.mtime
      /\ 0 <= model.version + 1
      /\ file.mtime <= file.mtime /\ model.mtime <= model.mtime /\ texts <= texts
      /\ model.version <= model.version + 1
  <2>1. model.version \in Nat /\ model.mtime \in Nat /\ texts \in Nat /\ file.mtime \in Nat
    BY Fields
  <2> QED
    BY <2>1
<1>4. /\ reverting' \in RevertState /\ reverting'.saved <= model.version
      /\ reverting'.saved <= model.version + 1
  BY <1>1, <1>3, NothingRead, PastOn DEF Typed, PastOnly
<1>5. model.mtime <= model'.mtime /\ model'.mtime <= file.mtime
  BY <1>2, <1>3 DEF PastOnly
<1>6. FlagsAgree'
  BY <1>1, <1>2, NothingRead DEF FlagsAgree
<1>7. RevertsRead'
  BY <1>1, NothingRead DEF RevertsRead
<1>8. PastStack(model'.stack, model'.version, texts)
  <2>1. PastStack(model.stack, model.version, texts) /\ reading.text <= texts
    BY DEF StackIsPast, PastOnly
  <2>2. PastStack(Append(model.stack, [alternative |-> model.version + 1, text |-> reading.text]),
                  model.version + 1, texts)
    BY <1>2, <1>3, <2>1, Fields, EditedStack
  <2> QED
    BY <1>2, <2>1, <2>2
<1>9. model'.saved <= model'.version
  <2>1. Last(model'.stack).alternative <= model'.version
    BY <1>2, <1>8, LastHasText DEF Model
  <2> QED
    BY <1>2, <2>1 DEF PastOnly
<1>10. Typed'
  BY <1>1, <1>2, <1>4, NothingRead DEF Typed
<1>11. model'.version \in {model.version, model.version + 1}
  BY <1>2
<1>12. Sequential(saving', model')
  <2>1. saving \in SavingState /\ model \in Model /\ model.version <= model'.version
    BY <1>3, <1>11 DEF Typed
  <2>2. Sequential(saving, model')
    BY <1>2, <2>1, RunsOn
  <2> QED
    BY <1>1, <2>2
<1>13. PastOnly'
  <2>1. /\ reverting'.saved <= model'.version /\ 0 <= model'.version
        /\ asked <= model'.version /\ attempted <= model'.version /\ written <= model'.version
    BY <1>3, <1>4, <1>11, PastOn DEF PastOnly
  <2>2. model'.mtime \in Nat
    BY <1>2 DEF Model
  <2> QED
    BY <1>1, <1>3, <1>5, <1>9, <2>1, <2>2, NothingRead DEF PastOnly
<1>14. StackIsPast'
  BY <1>1, <1>8 DEF StackIsPast
<1> QED
  BY <1>6, <1>7, <1>10, <1>12, <1>13, <1>14

LEMMA ReadFailsSafe ==
    ASSUME SafeInv, ReadFails
    PROVE  SafeInv'
<1> USE DEF SafeInv, SavesInv, StateInv
<1>1. /\ UNCHANGED <<file, changed, texts, saving, reload, asked, attempted, written>>
      /\ reading' = NoRead /\ reading # NoRead
      /\ reverting' = IF reading.for = "revert" THEN NoRevert ELSE reverting
      /\ acts' \in Nat /\ coincided' \in BOOLEAN
  BY DEF ReadFails, EndRead, askVars, Act, Coincides, Typed
<1>2. /\ model' \in Model /\ model'.stack = model.stack /\ model'.version = model.version
      /\ model'.mtime = model.mtime
      /\ \/ model' = model
         \/ /\ model'.saved = reverting.saved /\ model'.dirty = reverting.dirty
            /\ model'.conflict = reverting.conflict /\ model'.error = reverting.error
  BY ReadFailedEffect
<1>3. /\ model.version \in Nat /\ model.mtime \in Nat /\ texts \in Nat /\ file.mtime \in Nat
      /\ 0 <= model.version /\ 0 <= model.mtime /\ -1 <= texts /\ -1 <= file.mtime
      /\ model.mtime <= model.mtime
  <2>1. model.version \in Nat /\ model.mtime \in Nat /\ texts \in Nat /\ file.mtime \in Nat
    BY Fields
  <2> QED
    BY <2>1
<1>4. reverting' \in RevertState /\ reverting'.saved <= model.version
  BY <1>1, <1>3, NothingRead DEF Typed, PastOnly
<1>5. model'.saved <= model.version /\ model.mtime <= model'.mtime /\ model'.mtime <= file.mtime
  BY <1>2, <1>3 DEF PastOnly
<1>6. FlagsAgree'
  BY <1>1, <1>2, NothingRead DEF FlagsAgree
<1>7. RevertsRead'
  BY <1>1, NothingRead DEF RevertsRead
<1> QED
  BY <1>1, <1>2, <1>3, <1>4, <1>5, <1>6, <1>7, NothingRead, ReadSafe DEF Typed

LEMMA OthersWriteSafe ==
    ASSUME SafeInv, OthersWrite
    PROVE  SafeInv'
<1> USE DEF SafeInv, SavesInv, StateInv
<1>1. /\ UNCHANGED <<model, saving, reload, reading, reverting, asked, attempted, written>>
      /\ texts' = texts + 1 /\ file' = [text |-> texts + 1, mtime |-> file.mtime + 1] /\ changed' = TRUE
      /\ acts' \in Nat /\ coincided' \in BOOLEAN
  BY DEF OthersWrite, Act, Coincides, askVars, Typed
<1>2. texts \in Nat /\ file.mtime \in Nat /\ texts + 1 \in Nat /\ file.mtime + 1 \in Nat
      /\ texts <= texts + 1 /\ texts + 1 <= texts + 1
  <2>1. texts \in Nat /\ file.mtime \in Nat
    BY Fields
  <2> QED
    BY <2>1
<1>3. file'.text = texts + 1 /\ file'.mtime = file.mtime + 1 /\ file' \in [text : Nat, mtime : Nat]
  BY <1>1, <1>2
<1>4. Typed'
  BY <1>1, <1>2, <1>3 DEF Typed
<1>5. Sequential(saving', model')
  BY <1>1
<1>6. PastOnly'
  <2>1. model.mtime <= file.mtime + 1 /\ reading.mtime <= file.mtime + 1
    <3>1. model.mtime \in Nat /\ reading.mtime \in Int
      BY Fields
    <3>2. model.mtime <= file.mtime /\ reading.mtime <= file.mtime
      BY DEF PastOnly
    <3> QED
      BY <1>2, <3>1, <3>2
  <2> QED
    BY <1>1, <1>2, <1>3, <2>1, PastOn DEF PastOnly
<1>7. StackIsPast'
  BY <1>1, <1>2, Fields, PastStackGrows DEF StackIsPast
<1>8. FlagsAgree' /\ RevertsRead'
  BY <1>1 DEF FlagsAgree, RevertsRead
<1> QED
  BY <1>4, <1>5, <1>6, <1>7, <1>8

\* The watcher reports, or nothing happens.
LEMMA StillSafe ==
    ASSUME SafeInv,
           UNCHANGED <<file, texts, model, saving, reading, reverting, acts, asked, attempted, written, coincided>>,
           changed' \in BOOLEAN, reload' \in BOOLEAN
    PROVE  SafeInv'
<1> USE DEF SafeInv, SavesInv, StateInv
<1>1. Typed'
  BY DEF Typed
<1>2. Sequential(saving', model') /\ PastOnly' /\ StackIsPast' /\ FlagsAgree' /\ RevertsRead'
  BY DEF PastOnly, StackIsPast, FlagsAgree, RevertsRead
<1> QED
  BY <1>1, <1>2

\* The steps of the saves of one slot.
SlotStep(s) == SaveSteps(s) \/ Cancel(s) \/ SaveFails(s)

LEMMA SlotSafe ==
    ASSUME SafeInv, NEW s \in Slots, SlotStep(s)
    PROVE  SafeInv'
<1> USE DEF SafeInv, SavesInv
<1>1. acts \in Nat /\ file \in [text : Nat, mtime : Nat] /\ changed \in BOOLEAN /\ file.mtime >= file.mtime
  BY Fields DEF Typed
<1>2. CASE RunParticipants(s)
  <2>1. Moves(s) /\ Phase(s) # "none"
    BY <1>2, ParticipantsRun DEF Before
  <2>2. UNCHANGED textFileVars \/ UNCHANGED <<file, changed, texts, model, reload, reading, reverting, acts, asked, attempted, written, coincided>>
    BY <1>2 DEF RunParticipants, historyVars, askVars
  <2> QED
    BY <1>1, <2>1, <2>2, MoveSafe DEF textFileVars
<1>3. CASE Cancel(s)
  <2>1. Moves(s) /\ Phase(s) # "none"
    BY <1>3, SaveIsCancelled DEF Before
  <2>2. /\ UNCHANGED <<file, changed, texts, model, reload, reading, reverting, attempted, written, coincided>>
        /\ asked' = 0 /\ acts' \in Nat
    BY <1>1, <1>3 DEF Cancel, Act
  <2> QED
    BY <1>1, <2>1, <2>2, MoveSafe
<1>4. CASE Abandon(s)
  BY <1>4, AbandonSafe
<1>5. CASE Write(s)
  BY <1>5, WriteSafe
<1>6. CASE Conflict(s)
  BY <1>1, <1>6, FailedSafe DEF Conflict
<1>7. CASE SaveFails(s)
  <2>1. SaveFailed(s, FALSE) /\ Act /\ Phase(s) \in Writing
    BY <1>7, Zenon DEF SaveFails, Writing
  <2>2. Phase(s) # "none" /\ acts' \in Nat
    BY <1>1, <2>1 DEF Act, Writing
  <2> QED
    BY <2>1, <2>2, FailedSafe, Zenon
<1>8. CASE Validate(s)
  <2>1. Phase(s) \in Writing /\ WritesOn(s, "putting") /\ Phase(s) # "none"
    BY <1>8 DEF Validate, WritesOn, Writing
  <2>2. Moves(s)
    BY <2>1, WriteGoesOn
  <2>3. UNCHANGED <<file, changed, texts, model, reload, reading, reverting, acts, asked, attempted, written, coincided>>
    BY <1>8 DEF Validate, historyVars, askVars
  <2> QED
    BY <1>1, <2>1, <2>2, <2>3, MoveSafe
<1>9. CASE Put(s)
  <2>1. Phase(s) \in Writing /\ WritesOn(s, "put") /\ Phase(s) # "none"
    BY <1>9 DEF Put, WritesOn, Writing
  <2>2. Moves(s)
    BY <2>1, WriteGoesOn
  <2>3. /\ UNCHANGED <<texts, model, reload, reading, reverting, acts, asked, attempted, written, coincided>>
        /\ file' = [text |-> saving.saves[s].text, mtime |-> file.mtime + 1] /\ changed' = TRUE
    BY <1>9 DEF Put, historyVars, askVars
  <2>4. saving.saves[s].text \in Nat /\ file.mtime \in Nat
    BY Fields
  <2>5. /\ file' \in [text : Nat, mtime : Nat] /\ file'.text = saving.saves[s].text
        /\ file'.mtime >= file.mtime
    BY <2>3, <2>4
  <2> QED
    BY <1>1, <2>1, <2>2, <2>3, <2>5, MoveSafe
<1>10. CASE SaveSucceeds(s)
  BY <1>10, SucceededSafe
<1> QED
  BY <1>2, <1>3, <1>4, <1>5, <1>6, <1>7, <1>8, <1>9, <1>10 DEF SlotStep, SaveSteps

\* The steps one by one.
LEMMA NextIs ==
    ASSUME Next
    PROVE  \/ Edit \/ Undo \/ Revert \/ SoftRevert \/ \E kind \in Kind : Save(kind)
           \/ \E s \in Slots : SlotStep(s)
           \/ Reload \/ ReadStat \/ ReadText \/ ReadEnds \/ RevertGoesOn \/ ReadFails
           \/ OthersWrite \/ FileChanged
BY DEF Next, Kind, SlotStep, ReadSteps

LEMMA InitSafe ==
    ASSUME Init
    PROVE  SafeInv
<1> DEFINE entry == [alternative |-> 0, text |-> 0]
<1>1. entry \in Entry
  BY DEF Entry
<1>2. <<entry>> \in Seq(Entry) /\ <<entry>> # <<>> /\ Len(<<entry>>) = 1 /\ <<entry>>[1] = entry
  BY <1>1
<1>3. /\ file = [text |-> 0, mtime |-> 0] /\ changed = FALSE /\ texts = 0
      /\ model = [stack |-> <<entry>>, version |-> 0, saved |-> 0, mtime |-> 0,
                  dirty |-> FALSE, conflict |-> FALSE, error |-> FALSE, undone |-> FALSE]
      /\ saving = Idle
      /\ reload = FALSE /\ reading = NoRead /\ reverting = NoRevert
      /\ acts = 0 /\ asked = 0 /\ attempted = 0 /\ written = 0 /\ coincided = FALSE
  BY DEF Init, Idle
<1>4. entry.alternative = 0 /\ entry.text = 0
  OBVIOUS
<1> HIDE DEF entry
<1>5. /\ model \in Model /\ model.stack = <<entry>> /\ model.version = 0 /\ model.saved = 0 /\ model.mtime = 0
      /\ ~ model.dirty /\ ~ model.conflict /\ ~ model.error
  BY <1>2, <1>3 DEF Model
<1>6. file.text = 0 /\ file.mtime = 0 /\ file \in [text : Nat, mtime : Nat]
  BY <1>3
<1>7. Typed
  BY <1>2, <1>3, <1>5, <1>6, IdleTyped, NothingRead DEF Typed
<1>8. Sequential(saving, model)
  BY <1>3 DEF Sequential
<1>9. PastOnly
  BY <1>3, <1>5, <1>6, IdleTyped, NoSaveTyped, NothingRead DEF PastOnly
<1>10. StackIsPast
  <2>1. \A i \in 1 .. Len(model.stack) : i = 1 /\ model.stack[i] = entry
    BY <1>2, <1>5
  <2> QED
    BY <1>3, <1>4, <1>5, <2>1 DEF StackIsPast, PastStack
<1>11. FlagsAgree /\ RevertsRead
  BY <1>3, <1>5, NothingRead DEF FlagsAgree, RevertsRead
<1> QED
  BY <1>7, <1>8, <1>9, <1>10, <1>11 DEF SafeInv, SavesInv, StateInv

LEMMA SafeInvariant == Spec => []SafeInv
<1>1. Init => SafeInv
  BY InitSafe
<1>2. SafeInv /\ [Next]_textFileVars => SafeInv'
  <2> SUFFICES ASSUME SafeInv, [Next]_textFileVars
               PROVE  SafeInv'
    OBVIOUS
  <2>1. CASE Edit
    BY <2>1, EditSafe
  <2>2. CASE Undo
    BY <2>2, UndoSafe
  <2>3. CASE Revert
    BY <2>3, RevertSafe
  <2>15. CASE SoftRevert
    BY <2>15, SoftRevertSafe
  <2>4. CASE \E kind \in Kind : Save(kind)
    BY <2>4, SaveSafe
  <2>5. CASE \E s \in Slots : SlotStep(s)
    BY <2>5, SlotSafe
  <2>6. CASE Reload
    BY <2>6, ReloadSafe
  <2>7. CASE ReadStat
    BY <2>7, ReadStatSafe
  <2>8. CASE ReadText
    BY <2>8, ReadTextSafe
  <2>9. CASE ReadEnds
    BY <2>9, ReadEndsSafe
  <2>10. CASE RevertGoesOn
    BY <2>10, RevertGoesOnSafe
  <2>11. CASE ReadFails
    BY <2>11, ReadFailsSafe
  <2>12. CASE OthersWrite
    BY <2>12, OthersWriteSafe
  <2>13. CASE FileChanged
    <3>1. UNCHANGED <<file, texts, model, saving, reading, reverting, acts, asked, attempted, written, coincided>>
          /\ changed' \in BOOLEAN /\ reload' \in BOOLEAN
      BY <2>13, Fields DEF FileChanged, historyVars, askVars, SafeInv, SavesInv, Typed
    <3> QED
      BY <3>1, StillSafe
  <2>14. CASE UNCHANGED textFileVars
    <3>1. UNCHANGED <<file, texts, model, saving, reading, reverting, acts, asked, attempted, written, coincided>>
          /\ changed' \in BOOLEAN /\ reload' \in BOOLEAN
      BY <2>14 DEF textFileVars, SafeInv, SavesInv, Typed
    <3> QED
      BY <3>1, StillSafe
  <2> QED
    BY <2>1, <2>2, <2>3, <2>4, <2>5, <2>6, <2>7, <2>8, <2>9, <2>10, <2>11, <2>12, <2>13, <2>14, <2>15, NextIs
<1> QED
  BY <1>1, <1>2, PTL DEF Spec

\* What the run textfile checks of the saves: they exclude each other, a save that
\* waits waits for one that runs, and a conflict or an error keeps the model
\* dirty, in every order of edits, undos, saves, cancellations, failures, reloads
\* and reverts (doSave, TaskSequentializer, handleSaveError).
THEOREM TextSaves == Spec => []SavesAreConsistent
<1>1. SafeInv => SavesAreConsistent
  <2> SUFFICES ASSUME SafeInv
               PROVE  TypeOK /\ OneSaveAtATime /\ ConflictsAreDirty
    BY DEF SavesAreConsistent
  <2> USE DEF SafeInv, SavesInv, StateInv
  <2>1. saving \in SavingState /\ model \in Model /\ Sequential(saving, model)
    BY DEF Typed
  <2>2. \A s \in Slots : Phase(s) # "none" => Runs(saving, model, s)
    BY <2>1, OneOrNone DEF Phase
  <2>3. \A s \in Slots : Phase(s) # "none" => Saving
    BY <2>1, <2>2, OneOrNone DEF Saving
  <2>4. OneSaveAtATime
    BY <2>1, <2>2, OneOrNone, NoSaveTyped DEF OneSaveAtATime, Phase
  <2>5. saving.queued # "none" => Saving
    BY <2>1, OneOrNone, IdleTyped DEF Saving
  <2>6. model.version \in Nat /\ model.saved \in 0 .. model.version /\ model.mtime <= file.mtime
    BY Fields DEF PastOnly
  <2>7. \A i \in 1 .. Len(model.stack) : model.stack[i].text \in 0 .. texts
    <3> SUFFICES ASSUME NEW i \in 1 .. Len(model.stack)
                 PROVE  model.stack[i].text \in 0 .. texts
      OBVIOUS
    <3>1. model.stack \in Seq(Entry) /\ texts \in Nat
      BY Fields
    <3>2. model.stack[i] \in Entry
      BY <3>1
    <3>3. model.stack[i].text \in Nat
      BY <3>2 DEF Entry
    <3>4. model.stack[i].text <= texts
      BY DEF StackIsPast, PastStack
    <3> QED
      BY <3>1, <3>3, <3>4
  <2>8. reading.for = "revert" => reverting.phase = "reading"
    BY DEF RevertsRead
  <2>9. ConflictsAreDirty
    BY DEF FlagsAgree, ConflictsAreDirty
  <2> QED
    BY <2>3, <2>4, <2>5, <2>6, <2>7, <2>8, <2>9 DEF TypeOK
<1> QED
  BY <1>1, SafeInvariant, PTL

----------------------------------------------------------------------------
(* What was asked and what is shown, when nothing coincides.               *)

\* While a save runs nothing is reverted, and nothing is read that will be used.
LEMMA SavesApart ==
    ASSUME SafeInv, ApartInv, NEW s \in Slots, Phase(s) # "none"
    PROVE  /\ reverting.phase = "none" /\ ~ Current /\ reading.for # "revert"
           /\ \A t \in Slots : t # s => saving.saves[t] = NoSave
           /\ Runs(saving, model, s)
           /\ InStep(model.stack, model.mtime, file, written, model.dirty, model.saved)
<1>1. saving # Idle
  BY IdleTyped, NoSaveTyped DEF Phase
<1>2. reverting.phase = "none" /\ ~ Current /\ reading.for # "revert"
  BY <1>1 DEF ApartInv, Apart, SafeInv, StateInv, RevertsRead
<1>3. Runs(saving, model, s)
  BY OneOrNone DEF SafeInv, SavesInv, Typed, Phase
<1>4. \A t \in Slots : t # s => saving.saves[t] = NoSave
  BY <1>3 DEF Runs
<1>5. InStep(model.stack, model.mtime, file, written, model.dirty, model.saved)
  BY <1>2 DEF ApartInv, KeepsInStep
<1> QED
  BY <1>2, <1>3, <1>4, <1>5

LEMMA IdlePhases == saving = Idle => \A s \in Slots : Phase(s) = "none"
BY IdleTyped, NoSaveTyped DEF Phase

LEMMA EditHistory ==
    ASSUME SafeInv, HistoryInv, Edit
    PROVE  HistoryInv'
<1> USE DEF SafeInv, SavesInv, StateInv
<1>1. /\ model' \in Model
      /\ model'.stack = Append(model.stack, [alternative |-> model.version + 1, text |-> texts + 1])
      /\ Last(model'.stack) = [alternative |-> model.version + 1, text |-> texts + 1]
      /\ model'.version = model.version + 1 /\ model'.saved = model.saved /\ model'.mtime = model.mtime
      /\ model'.dirty = TRUE
  BY EditEffect
<1>2. /\ UNCHANGED <<file, changed, saving, reload, reading, reverting, asked, attempted, written>>
      /\ coincided' = (coincided \/ reverting # NoRevert)
  BY DEF Edit, Coincides, askVars
<1>3. WritesAreAttempts'
  BY <1>2 DEF HistoryInv, WritesAreAttempts, Phase
<1>4. ASSUME ~ coincided'
      PROVE  ApartInv'
  <2>1. ApartInv /\ reverting = NoRevert /\ reverting.phase = "none" /\ reading.for # "revert"
    BY <1>2, <1>4, NothingRead DEF HistoryInv, RevertsRead
  <2>2. /\ model.version \in Nat /\ model.saved \in Nat /\ written \in Nat /\ reading.version \in Nat
        /\ model.stack \in Seq(Entry) /\ texts \in Nat /\ texts + 1 \in Nat
        /\ texts <= texts + 1 /\ texts + 1 <= texts + 1
    <3>1. /\ model.version \in Nat /\ model.saved \in Nat /\ written \in Nat /\ reading.version \in Nat
          /\ model.stack \in Seq(Entry) /\ texts \in Nat
      BY Fields
    <3> QED
      BY <3>1
  <2>3. /\ model.saved <= model.version /\ written <= model.version /\ reading.version <= model.version
    BY DEF PastOnly
  <2>4. \A name \in Nat : \A held : name <= model.version /\ HasText(model.stack, name, held)
                              => HasText(model'.stack, name, held)
    <3>1. PastStack(model.stack, model.version, texts)
      BY DEF StackIsPast
    <3> DEFINE v == model.version + 1
               t == texts + 1
               new == Append(model.stack, [alternative |-> v, text |-> t])
    <3>2. model'.stack = new
      BY <1>1
    <3>3. \A name \in Nat : \A held : name <= model.version /\ HasText(model.stack, name, held)
                              => HasText(new, name, held)
      <4> HIDE DEF t
      <4> QED
        BY <2>2, <3>1, EditedStack DEF t
    <3> HIDE DEF new
    <3> QED
      BY <3>2, <3>3
  <2>5. reading.version # model'.version /\ ~ Current'
    BY <1>1, <1>2, <2>2, <2>3 DEF Current
  <2>6. Apart' /\ ReadsTheFile'
    BY <1>2, <2>1, <2>5 DEF Apart, ReadsTheFile
  <2>7. Attempts'
    BY <1>1, <1>2, <2>1 DEF ApartInv, Attempts, Phase
  <2>8. WritesItsText'
    <3> SUFFICES ASSUME NEW s \in Slots, Phase(s) \in Writing
                 PROVE  /\ HasText(model'.stack, written, saving.saves[s].text)
                        /\ saving.saves[s].version # model'.version
                        /\ Phase(s) = "put" => file.text = saving.saves[s].text /\ model.mtime < file.mtime
      BY <1>1, <1>2 DEF WritesItsText, Phase
    <3>1. /\ HasText(model.stack, written, saving.saves[s].text)
          /\ Phase(s) = "put" => file.text = saving.saves[s].text /\ model.mtime < file.mtime
      BY <2>1 DEF ApartInv, WritesItsText
    <3>2. HasText(model'.stack, written, saving.saves[s].text)
      BY <2>2, <2>3, <2>4, <3>1
    <3>3. Runs(saving, model, s) /\ saving.saves[s].version \in Nat
      BY <2>1, Fields, SavesApart DEF Writing
    <3>4. saving.saves[s].version # model'.version
      BY <1>1, <2>2, <3>3 DEF Runs
    <3> QED
      BY <3>1, <3>2, <3>4
  <2>9. KeepsInStep'
    <3>1. InStep(model.stack, model.mtime, file, written, model.dirty, model.saved)
      BY <2>1 DEF ApartInv, KeepsInStep
    <3>2. model.mtime = file.mtime /\ model.saved = written => HasText(model'.stack, model.saved, file.text)
      BY <2>2, <2>3, <2>4, <3>1 DEF InStep
    <3>3. Last(model'.stack).alternative # model.saved
      BY <1>1, <2>2, <2>3
    <3> QED
      BY <1>1, <1>2, <2>1, <3>2, <3>3 DEF KeepsInStep, InStep
  <2> QED
    BY <2>6, <2>7, <2>8, <2>9 DEF ApartInv
<1> QED
  BY <1>3, <1>4 DEF HistoryInv

LEMMA UndoHistory ==
    ASSUME SafeInv, HistoryInv, Undo
    PROVE  HistoryInv'
<1> USE DEF SafeInv, SavesInv, StateInv
<1>1. /\ model' \in Model /\ Len(model.stack) > 1
      /\ model'.stack = Front(model.stack) /\ model'.stack # <<>>
      /\ model'.version = model.version + 1 /\ model'.saved = model.saved /\ model'.mtime = model.mtime
      /\ coincided \/ reverting # NoRevert => coincided'
  BY UndoEffect
<1>2. \/ /\ Last(model'.stack).alternative = model.saved /\ asked' = 0 /\ ~ model'.dirty
         /\ written # model.saved => coincided'
      \/ /\ Last(model'.stack).alternative # model.saved /\ asked' = asked /\ model'.dirty = TRUE
  BY UndoEffect
<1>3. UNCHANGED <<file, changed, texts, saving, reload, reading, reverting, attempted, written>>
  BY DEF Undo
<1>4. WritesAreAttempts'
  BY <1>3 DEF HistoryInv, WritesAreAttempts, Phase
<1>5. ASSUME ~ coincided'
      PROVE  ApartInv'
  <2>1. ApartInv /\ reverting = NoRevert /\ reverting.phase = "none" /\ reading.for # "revert"
    BY <1>1, <1>5, NothingRead DEF HistoryInv, RevertsRead
  <2>2. /\ model.version \in Nat /\ reading.version \in Nat /\ model.stack \in Seq(Entry) /\ texts \in Nat
        /\ attempted \in Nat /\ asked \in Nat /\ reading.version <= model.version
    BY Fields DEF PastOnly
  <2>3. \A name, held : HasText(model.stack, name, held) => HasText(model'.stack, name, held)
    BY <1>1, <2>2, UndoneStack DEF StackIsPast
  <2>4. reading.version # model'.version /\ ~ Current'
    BY <1>1, <1>3, <2>2 DEF Current
  <2>5. Apart' /\ ReadsTheFile'
    BY <1>3, <2>1, <2>4 DEF Apart, ReadsTheFile
  <2>6. Attempts'
    <3>1. asked' = 0 => attempted >= asked'
      BY <2>2
    <3>2. Attempts
      BY <2>1 DEF ApartInv
    <3>3. CASE asked' = 0
      BY <1>3, <3>1, <3>3 DEF Attempts
    <3>4. CASE asked' = asked /\ model'.dirty = TRUE
      BY <1>3, <3>2, <3>4 DEF Attempts, Phase
    <3> QED
      BY <1>2, <3>3, <3>4
  <2>7. WritesItsText'
    <3> SUFFICES ASSUME NEW s \in Slots, Phase(s) \in Writing
                 PROVE  /\ HasText(model'.stack, written, saving.saves[s].text)
                        /\ ~ model'.dirty \/ saving.saves[s].version = model'.version
                               => Last(model'.stack).alternative = written
                        /\ Phase(s) = "put" => file.text = saving.saves[s].text /\ model.mtime < file.mtime
      BY <1>1, <1>3 DEF WritesItsText, Phase
    <3>1. /\ HasText(model.stack, written, saving.saves[s].text)
          /\ Phase(s) = "put" => file.text = saving.saves[s].text /\ model.mtime < file.mtime
      BY <2>1 DEF ApartInv, WritesItsText
    <3>2. HasText(model'.stack, written, saving.saves[s].text)
      BY <2>3, <3>1
    <3>3. Runs(saving, model, s) /\ saving.saves[s].version \in Nat
      BY <2>1, Fields, SavesApart DEF Writing
    <3>4. saving.saves[s].version # model'.version
      BY <1>1, <2>2, <3>3 DEF Runs
    <3> QED
      BY <1>2, <1>5, <3>1, <3>2, <3>4
  <2>8. KeepsInStep'
    <3>1. InStep(model.stack, model.mtime, file, written, model.dirty, model.saved)
      BY <2>1 DEF ApartInv, KeepsInStep
    <3>2. model.mtime = file.mtime /\ model.saved = written => HasText(model'.stack, model.saved, file.text)
      BY <2>3, <3>1 DEF InStep
    <3>3. model.mtime = file.mtime /\ ~ model'.dirty => Last(model'.stack).text = file.text
      <4> SUFFICES ASSUME model.mtime = file.mtime, ~ model'.dirty
                   PROVE  Last(model'.stack).text = file.text
        OBVIOUS
      <4>1. Last(model'.stack).alternative = model.saved /\ written = model.saved
        BY <1>2, <1>5
      <4>2. HasText(model'.stack, Last(model'.stack).alternative, file.text)
        BY <3>2, <4>1
      <4>3. PastStack(model'.stack, model.version + 1, texts) /\ model'.stack \in Seq(Entry)
        BY <1>1, <2>2, UndoneStack DEF StackIsPast, Model
      <4> QED
        BY <1>1, <4>2, <4>3, LastHasText
    <3>4. ~ (model'.dirty /\ Last(model'.stack).alternative = model.saved)
      BY <1>2
    <3> QED
      BY <1>1, <1>3, <2>1, <3>2, <3>3, <3>4 DEF KeepsInStep, InStep
  <2> QED
    BY <2>5, <2>6, <2>7, <2>8 DEF ApartInv
<1> QED
  BY <1>4, <1>5 DEF HistoryInv

LEMMA SaveHistory ==
    ASSUME SafeInv, HistoryInv, NEW kind \in Kind, Save(kind)
    PROVE  HistoryInv'
<1> USE DEF SafeInv, SavesInv, StateInv
<1>1. /\ UNCHANGED <<file, changed, texts, model, reload, reading, reverting, attempted, written>>
      /\ asked' = IF model.dirty THEN model.version ELSE asked
      /\ kind = "auto" => model.dirty
      /\ kind = "overwrite" => model.conflict
  BY DEF Save
<1>2. coincided' = (coincided \/ (\/ reverting # NoRevert
                                  \/ \E s \in Slots : saving.saves[s].cancelled
                                  \/ reading # NoRead /\ reading.version = model.version))
  BY DEF Save, Coincides
<1>3. saving' \in SavingState /\ Saves(saving, saving', model, kind)
  BY SaveSafe
<1>4. kind \in {"auto", "overwrite"} => model.dirty
  BY <1>1 DEF FlagsAgree
<1>5. \* The saves that write stay the same.
      \A s \in Slots : saving'.saves[s].phase \in Writing =>
          /\ saving.saves[s].phase = saving'.saves[s].phase /\ saving.saves[s].text = saving'.saves[s].text
          /\ saving.saves[s].version = saving'.saves[s].version
  <2>1. CASE saving' = saving
    BY <2>1
  <2>2. CASE Begun(saving', model)
    BY <2>2 DEF Begun
  <2>3. CASE Waits(saving, saving', model, kind)
    <3>1. PICK s \in Slots :
            /\ Runs(saving, model, s) /\ Runs(saving', model, s)
            /\ saving'.saves[s].phase = saving.saves[s].phase /\ saving'.saves[s].text = saving.saves[s].text
            /\ saving'.saves[s].version = saving.saves[s].version
      BY <2>3 DEF Waits
    <3>2. \A t \in Slots : t # s => saving'.saves[t] = NoSave
      BY <3>1 DEF Runs
    <3>3. NoSave.phase \notin Writing
      BY NoSaveTyped DEF Writing
    <3> QED
      BY <3>1, <3>2, <3>3
  <2> QED
    BY <1>3, <2>1, <2>2, <2>3 DEF Saves
<1>6. WritesAreAttempts'
  BY <1>1, <1>5 DEF HistoryInv, WritesAreAttempts, Phase
<1>7. ASSUME ~ coincided'
      PROVE  ApartInv'
  <2>1. /\ ApartInv /\ reverting = NoRevert /\ reverting.phase = "none" /\ reading.for # "revert"
        /\ \A s \in Slots : ~ saving.saves[s].cancelled
        /\ ~ Current
    BY <1>2, <1>7, NothingRead DEF HistoryInv, RevertsRead, Current
  <2>2. Apart' /\ ReadsTheFile'
    BY <1>1, <2>1 DEF Apart, ReadsTheFile, Current
  <2>3. KeepsInStep'
    BY <1>1, <2>1 DEF ApartInv, KeepsInStep
  <2>4. WritesItsText'
    BY <1>1, <1>5, <2>1 DEF ApartInv, WritesItsText, Phase
  <2>5. Attempts'
    <3>1. CASE Refused(saving, model, kind) /\ saving' = saving
      <4>1. CASE model.dirty
        <5>1. asked' = model.version /\ model'.dirty
          BY <1>1, <4>1
        <5>2. \/ \E s \in Slots : saving.saves[s].phase = "participants"
              \/ saving.running.task = model.version
          BY <3>1, <4>1 DEF Refused
        <5>3. CASE \E s \in Slots : saving.saves[s].phase \in Before
          BY <2>1, <3>1, <5>1, <5>3 DEF Attempts, Phase
        <5>4. CASE saving.running.task = model.version /\ ~ \E s \in Slots : saving.saves[s].phase \in Before
          <6>1. saving.running # NoTask
            BY <5>4, Numbers DEF NoTask, NotYet
          <6>2. PICK s \in Slots : Runs(saving, model, s)
            BY <6>1, OneOrNone DEF Typed
          <6>3. saving.saves[s].phase \in Writing /\ saving.saves[s].version = model.version
            BY <5>4, <6>2 DEF Runs
          <6>4. attempted = model.version /\ model.version \in Nat
            BY <6>3, Fields DEF HistoryInv, WritesAreAttempts, Phase
          <6>5. attempted' >= asked'
            BY <1>1, <5>1, <6>4
          <6> QED
            BY <5>1, <6>5 DEF Attempts
        <5> QED
          BY <5>2, <5>3, <5>4 DEF Before
      <4>2. CASE ~ model.dirty
        BY <1>1, <2>1, <3>1, <4>2 DEF ApartInv, Attempts, Phase
      <4> QED
        BY <4>1, <4>2
    <3>2. CASE Begun(saving', model)
      <4>1. saving'.queued = "none"
        BY <3>2 DEF Begun
      <4>2. \E s \in Slots : saving'.saves[s].phase \in Before /\ ~ saving'.saves[s].cancelled
        BY <3>2 DEF Begun
      <4> QED
        BY <4>1, <4>2 DEF Attempts, Phase
    <3>3. CASE Waits(saving, saving', model, kind)
      <4>1. saving'.queued = kind /\ kind # "none"
        BY <3>3 DEF Waits, Kind
      <4> QED
        BY <1>1, <1>4, <4>1 DEF Attempts
    <3> QED
      BY <1>3, <3>1, <3>2, <3>3 DEF Saves
  <2> QED
    BY <2>2, <2>3, <2>4, <2>5 DEF ApartInv
<1> QED
  BY <1>6, <1>7 DEF HistoryInv

\* A save that moves on or is cancelled, but for what is particular to it.
LEMMA MoveHistory ==
    ASSUME SafeInv, HistoryInv, NEW s \in Slots, Phase(s) # "none", Moves(s),
           UNCHANGED <<file, texts, model, reload, reading, reverting, attempted, written, coincided>>,
           asked' \in {0, asked}, asked' = 0 \/ (saving'.saves[s].cancelled => saving.saves[s].cancelled),
           saving'.saves[s].phase = "put" => Phase(s) = "put"
    PROVE  HistoryInv'
<1> USE DEF SafeInv, SavesInv, StateInv
<1>1. \A t \in Slots : t # s => saving.saves[t] = NoSave /\ saving'.saves[t] = NoSave
  BY MovesOn
<1>2. NoSave.phase = "none" /\ "none" \notin Writing /\ "none" \notin Before
  BY NoSaveTyped DEF Writing, Before
<1>3. WritesAreAttempts'
  <2> SUFFICES ASSUME NEW t \in Slots, saving'.saves[t].phase \in Writing
               PROVE  saving'.saves[t].version = attempted
    BY DEF WritesAreAttempts, Phase
  <2>1. t = s
    BY <1>1, <1>2
  <2> QED
    BY <2>1 DEF Moves, HistoryInv, WritesAreAttempts, Phase
<1>4. ASSUME ~ coincided'
      PROVE  ApartInv'
  <2>1. ApartInv
    BY <1>4 DEF HistoryInv
  <2>2. reverting.phase = "none" /\ ~ Current /\ reading.for # "revert"
    BY <2>1, SavesApart
  <2>3. Apart' /\ ReadsTheFile'
    BY <2>2 DEF Apart, ReadsTheFile, Current
  <2>4. KeepsInStep'
    BY <2>1 DEF ApartInv, KeepsInStep
  <2>5. WritesItsText'
    <3> SUFFICES ASSUME NEW t \in Slots, saving'.saves[t].phase \in Writing
                 PROVE  /\ HasText(model.stack, written, saving'.saves[t].text)
                        /\ ~ model.dirty \/ saving'.saves[t].version = model.version
                               => Last(model.stack).alternative = written
                        /\ saving'.saves[t].phase = "put" =>
                               file.text = saving'.saves[t].text /\ model.mtime < file.mtime
      BY DEF WritesItsText, Phase
    <3>1. t = s
      BY <1>1, <1>2
    <3> QED
      BY <2>1, <3>1 DEF Moves, ApartInv, WritesItsText, Phase
  <2>6. Attempts'
    <3>1. Attempts /\ saving'.queued = saving.queued
      BY <2>1 DEF ApartInv, Moves
    <3>2. CASE asked' = 0
      <4>1. attempted >= 0
        BY Fields
      <4> QED
        BY <3>1, <3>2, <4>1 DEF Attempts
    <3>3. CASE asked' = asked /\ (saving'.saves[s].cancelled => saving.saves[s].cancelled)
      <4>1. (\E t \in Slots : Phase(t) \in Before /\ ~ saving.saves[t].cancelled)
            => saving'.saves[s].phase \in Before /\ ~ saving'.saves[s].cancelled
        BY <1>1, <1>2, <3>3 DEF Moves, Phase
      <4> QED
        BY <3>1, <3>3, <4>1 DEF Attempts, Phase
    <3> QED
      BY <3>2, <3>3
  <2> QED
    BY <2>3, <2>4, <2>5, <2>6 DEF ApartInv
<1> QED
  BY <1>3, <1>4 DEF HistoryInv

\* A save ends.
LEMMA EndHistory ==
    ASSUME SafeInv, HistoryInv, NEW s \in Slots, Phase(s) # "none", Follows(model'),
           Phase(s) \in Before => saving.saves[s].cancelled,
           model'.stack = model.stack, model'.version = model.version,
           UNCHANGED <<file, reading, reverting, asked, attempted, written, coincided>>,
           ~ coincided =>
               /\ InStep(model.stack, model'.mtime, file, written, model'.dirty, model'.saved)
               /\ saving.queued \in {"auto", "overwrite"} /\ ~ model'.dirty => attempted >= asked
    PROVE  HistoryInv'
<1> USE DEF SafeInv, SavesInv, StateInv
<1>1. \A t \in Slots : saving'.saves[t].phase \notin Writing
  <2>1. CASE saving' = Idle
    BY <2>1, IdleTyped, NoSaveTyped DEF Writing
  <2>2. CASE Begun(saving', model')
    BY <2>2 DEF Begun
  <2> QED
    BY <2>1, <2>2 DEF Follows
<1>2. WritesAreAttempts' /\ WritesItsText'
  BY <1>1 DEF WritesAreAttempts, WritesItsText, Phase
<1>3. ASSUME ~ coincided'
      PROVE  ApartInv'
  <2>1. ApartInv
    BY <1>3 DEF HistoryInv
  <2>2. /\ reverting.phase = "none" /\ ~ Current /\ reading.for # "revert"
        /\ \A t \in Slots : t # s => saving.saves[t] = NoSave
    BY <2>1, SavesApart
  <2>3. ~ Current'
    BY <2>2 DEF Current
  <2>4. Apart' /\ ReadsTheFile'
    BY <2>2, <2>3 DEF Apart, ReadsTheFile
  <2>5. KeepsInStep'
    BY <1>3, <2>2 DEF KeepsInStep
  <2>6. Attempts'
    <3>1. CASE Begun(saving', model')
      <4>1. saving'.queued = "none"
        BY <3>1 DEF Begun
      <4>2. \E t \in Slots : saving'.saves[t].phase \in Before /\ ~ saving'.saves[t].cancelled
        BY <3>1 DEF Begun
      <4> QED
        BY <4>1, <4>2 DEF Attempts, Phase
    <3>2. CASE saving' = Idle /\ saving.queued = "none"
      <4>1. ~ \E t \in Slots : Phase(t) \in Before /\ ~ saving.saves[t].cancelled
        BY <2>2, NoSaveTyped DEF Phase, Before
      <4>2. attempted >= asked
        BY <2>1, <3>2, <4>1 DEF ApartInv, Attempts
      <4> QED
        BY <3>2, <4>2, IdleTyped DEF Attempts
    <3>3. CASE saving' = Idle /\ saving.queued # "none" /\ saving.queued # "explicit" /\ ~ model'.dirty
      <4>1. saving.queued \in {"auto", "overwrite"}
        BY <3>3 DEF Typed, SavingState, Kind
      <4>2. attempted >= asked
        BY <1>3, <3>3, <4>1
      <4> QED
        BY <3>3, <4>2, IdleTyped DEF Attempts
    <3> QED
      BY <3>1, <3>2, <3>3 DEF Follows
  <2> QED
    BY <1>2, <2>4, <2>5, <2>6 DEF ApartInv
<1> QED
  BY <1>2, <1>3 DEF HistoryInv

\* Nothing was asked, or there still is what was asked.
LEMMA CleanIsUnasked ==
    ASSUME SafeInv, ApartInv, saving.queued \in {"auto", "overwrite"}, ~ model.dirty
    PROVE  attempted >= asked
<1>1. asked = 0 /\ attempted \in Nat
  BY Fields DEF ApartInv, Attempts, SafeInv, SavesInv
<1> QED
  BY <1>1

LEMMA AbandonHistory ==
    ASSUME SafeInv, HistoryInv, NEW s \in Slots, Abandon(s)
    PROVE  HistoryInv'
<1>1. /\ Phase(s) # "none" /\ saving.saves[s].cancelled /\ model' = model
      /\ UNCHANGED <<file, reading, reverting, asked, attempted, written, coincided>>
  BY DEF Abandon, historyVars, askVars
<1>2. Follows(model')
  BY AbandonSafe
<1>3. ASSUME ~ coincided
      PROVE  /\ InStep(model.stack, model.mtime, file, written, model.dirty, model.saved)
             /\ saving.queued \in {"auto", "overwrite"} /\ ~ model.dirty => attempted >= asked
  <2>1. ApartInv
    BY <1>3 DEF HistoryInv
  <2> QED
    BY <1>1, <2>1, SavesApart, CleanIsUnasked
<1> QED
  BY <1>1, <1>2, <1>3, EndHistory

LEMMA FailedHistory ==
    ASSUME SafeInv, HistoryInv, NEW s \in Slots, Phase(s) \in Writing, NEW conflict \in BOOLEAN,
           SaveFailed(s, conflict), acts' \in Nat
    PROVE  HistoryInv'
<1>1. /\ model'.stack = model.stack /\ model'.version = model.version
      /\ model'.saved = model.saved /\ model'.mtime = model.mtime /\ model'.dirty = TRUE
  BY FailedEffect DEF SafeInv, SavesInv
<1>2. Phase(s) # "none" /\ Phase(s) \notin Before
  BY DEF Writing, Before
<1>3. Follows(model')
  BY <1>2, FailedSafe
<1>4. UNCHANGED <<file, reading, reverting, asked, attempted, written, coincided>>
  BY DEF SaveFailed, askVars
<1>5. ASSUME ~ coincided
      PROVE  InStep(model.stack, model'.mtime, file, written, model'.dirty, model'.saved)
  <2>1. ApartInv
    BY <1>5 DEF HistoryInv
  <2>2. InStep(model.stack, model.mtime, file, written, model.dirty, model.saved)
    BY <1>2, <2>1, SavesApart
  <2>3. ~ model.dirty => Last(model.stack).alternative = written
    BY <2>1 DEF ApartInv, WritesItsText
  <2> QED
    BY <1>1, <2>2, <2>3 DEF InStep
<1> QED
  BY <1>1, <1>2, <1>3, <1>4, <1>5, EndHistory

LEMMA SucceededHistory ==
    ASSUME SafeInv, HistoryInv, NEW s \in Slots, SaveSucceeds(s)
    PROVE  HistoryInv'
<1> USE DEF SafeInv, SavesInv, StateInv
<1>1. /\ model' \in Model /\ model'.stack = model.stack /\ model'.version = model.version
      /\ model'.mtime = file.mtime
      /\ \/ /\ saving.saves[s].version = model.version
            /\ model'.saved = Last(model.stack).alternative /\ ~ model'.dirty
         \/ /\ saving.saves[s].version # model.version
            /\ model'.saved = model.saved /\ model'.dirty = model.dirty
  BY SucceededEffect
<1>2. /\ Phase(s) = "put" /\ Phase(s) # "none" /\ Phase(s) \in Writing /\ Phase(s) \notin Before
      /\ UNCHANGED <<file, reading, reverting, asked, attempted, written, coincided>>
  BY DEF SaveSucceeds, Writing, Before, historyVars, askVars
<1>3. Follows(model')
  BY SucceededSafe
<1>4. ASSUME ~ coincided
      PROVE  /\ InStep(model.stack, model'.mtime, file, written, model'.dirty, model'.saved)
             /\ saving.queued \in {"auto", "overwrite"} /\ ~ model'.dirty => attempted >= asked
  <2>1. ApartInv
    BY <1>4 DEF HistoryInv
  <2>2. /\ HasText(model.stack, written, file.text)
        /\ ~ model.dirty \/ saving.saves[s].version = model.version
               => Last(model.stack).alternative = written
    BY <1>2, <2>1 DEF ApartInv, WritesItsText
  <2>3. Last(model.stack).alternative = written => Last(model.stack).text = file.text
    BY <2>2, Fields, LastHasText DEF StackIsPast
  <2>4. InStep(model.stack, model.mtime, file, written, model.dirty, model.saved)
    BY <1>2, <2>1, SavesApart
  <2>5. CASE saving.saves[s].version = model.version
    <3>1. attempted = model.version /\ asked <= model.version
      BY <1>2, <2>5 DEF HistoryInv, WritesAreAttempts, PastOnly
    <3>2. attempted >= asked
      BY <3>1, Fields
    <3> QED
      BY <1>1, <2>2, <2>3, <2>5, <3>2 DEF InStep
  <2>6. CASE saving.saves[s].version # model.version
    <3>1. saving.queued \in {"auto", "overwrite"} /\ ~ model'.dirty => attempted >= asked
      BY <1>1, <2>1, <2>6, CleanIsUnasked
    <3> QED
      BY <1>1, <2>2, <2>3, <2>4, <2>6, <3>1 DEF InStep
  <2> QED
    BY <2>5, <2>6
<1> QED
  BY <1>1, <1>2, <1>3, <1>4, EndHistory

LEMMA WriteHistory ==
    ASSUME SafeInv, HistoryInv, NEW s \in Slots, Write(s)
    PROVE  HistoryInv'
<1> USE DEF SafeInv, SavesInv, StateInv
<1>1. /\ Runs(saving, model, s) /\ saving'.queued = "none"
      /\ saving'.saves[s].phase = "validating" /\ saving'.saves[s].version = model.version
      /\ saving'.saves[s].text = Last(model.stack).text
      /\ \A t \in Slots : t # s => saving'.saves[t] = NoSave
  BY WriteSafe
<1>2. /\ model'.stack = model.stack /\ model'.version = model.version
      /\ model'.saved = model.saved /\ model'.mtime = model.mtime /\ model'.dirty = model.dirty
  BY WriteEffect
<1>3. /\ UNCHANGED <<file, reading, reverting, asked, coincided>>
      /\ attempted' = model.version /\ written' = Last(model.stack).alternative /\ Phase(s) # "none"
  BY Fields DEF Write
<1>4. \A t \in Slots : saving'.saves[t].phase \in Writing => t = s
  BY <1>1, NoSaveTyped DEF Writing
<1>5. WritesAreAttempts'
  BY <1>1, <1>3, <1>4 DEF WritesAreAttempts, Phase
<1>6. ASSUME ~ coincided'
      PROVE  ApartInv'
  <2>1. ApartInv
    BY <1>3, <1>6 DEF HistoryInv
  <2>2. /\ reverting.phase = "none" /\ ~ Current /\ reading.for # "revert"
        /\ InStep(model.stack, model.mtime, file, written, model.dirty, model.saved)
    BY <1>3, <2>1, SavesApart
  <2>3. ~ Current'
    BY <1>2, <1>3, <2>2 DEF Current
  <2>4. Apart' /\ ReadsTheFile'
    BY <1>3, <2>2, <2>3 DEF Apart, ReadsTheFile
  <2>5. Attempts'
    <3>1. asked <= model.version
      BY DEF PastOnly
    <3>2. attempted' >= asked'
      BY <1>3, <3>1, Fields
    <3> QED
      BY <1>1, <3>2 DEF Attempts
  <2>6. HasText(model.stack, Last(model.stack).alternative, Last(model.stack).text)
    BY Fields, LastHasText DEF StackIsPast
  <2>7. WritesItsText'
    BY <1>1, <1>2, <1>3, <1>4, <2>6 DEF WritesItsText, Phase
  <2>8. KeepsInStep'
    BY <1>2, <1>3, <2>2, <2>6 DEF KeepsInStep, InStep
  <2> QED
    BY <2>4, <2>5, <2>7, <2>8 DEF ApartInv
<1> QED
  BY <1>5, <1>6 DEF HistoryInv

LEMMA PutHistory ==
    ASSUME SafeInv, HistoryInv, NEW s \in Slots, Put(s)
    PROVE  HistoryInv'
<1> USE DEF SafeInv, SavesInv, StateInv
<1>1. Phase(s) \in Writing /\ WritesOn(s, "put") /\ Phase(s) # "none"
  BY DEF Put, WritesOn, Writing
<1>2. Moves(s) /\ saving'.saves[s].phase = "put"
  BY <1>1, WriteGoesOn
<1>3. /\ UNCHANGED <<model, reading, reverting, asked, attempted, written, coincided>>
      /\ file' = [text |-> saving.saves[s].text, mtime |-> file.mtime + 1]
  BY DEF Put, historyVars, askVars
<1>4. file'.text = saving.saves[s].text /\ file'.mtime = file.mtime + 1
  BY <1>3
<1>5. model.mtime < file'.mtime
  BY <1>4, Numbers DEF PastOnly
<1>6. \A t \in Slots : saving'.saves[t].phase \in Writing => t = s
  BY <1>1, <1>2, MovesOn, NoSaveTyped DEF Writing
<1>7. /\ saving'.saves[s].text = saving.saves[s].text /\ saving'.saves[s].version = saving.saves[s].version
      /\ saving'.queued = saving.queued
  BY <1>2 DEF Moves
<1>8. WritesAreAttempts'
  BY <1>1, <1>3, <1>6, <1>7 DEF HistoryInv, WritesAreAttempts, Phase
<1>9. ASSUME ~ coincided'
      PROVE  ApartInv'
  <2>1. ApartInv
    BY <1>3, <1>9 DEF HistoryInv
  <2>2. /\ reverting.phase = "none" /\ ~ Current /\ reading.for # "revert"
        /\ InStep(model.stack, model.mtime, file, written, model.dirty, model.saved)
        /\ \A t \in Slots : t # s => saving.saves[t] = NoSave
    BY <1>1, <2>1, SavesApart
  <2>3. Apart' /\ ReadsTheFile'
    BY <1>3, <2>2 DEF Apart, ReadsTheFile, Current
  <2>4. Attempts'
    <3>1. ~ \E t \in Slots : Phase(t) \in Before /\ ~ saving.saves[t].cancelled
      BY <1>1, <2>2, NoSaveTyped DEF Phase, Before, Writing
    <3> QED
      BY <1>3, <1>7, <2>1, <3>1 DEF ApartInv, Attempts
  <2>5. WritesItsText'
    <3>1. /\ HasText(model.stack, written, saving.saves[s].text)
          /\ ~ model.dirty \/ saving.saves[s].version = model.version
                 => Last(model.stack).alternative = written
      BY <1>1, <2>1 DEF ApartInv, WritesItsText
    <3> QED
      BY <1>3, <1>4, <1>5, <1>6, <1>7, <3>1 DEF WritesItsText, Phase
  <2>6. KeepsInStep'
    <3>1. model.mtime # file'.mtime
      BY <1>4, <1>5, Fields
    <3> QED
      BY <1>3, <2>2, <3>1 DEF KeepsInStep, InStep
  <2> QED
    BY <2>3, <2>4, <2>5, <2>6 DEF ApartInv
<1> QED
  BY <1>8, <1>9 DEF HistoryInv

\* The file and what the model shows of it stay the same.
Unmoved ==
    /\ file' = file /\ model'.stack = model.stack /\ model'.version = model.version
    /\ model'.mtime = model.mtime /\ model'.dirty = model.dirty

\* A step that leaves the saves alone, and changes no model or file while there
\* are some.
LEMMA QuietHistory ==
    ASSUME SafeInv, HistoryInv, UNCHANGED <<saving, asked, attempted, written>>,
           coincided => coincided',
           ~ coincided' /\ ApartInv =>
               /\ Apart' /\ ReadsTheFile' /\ KeepsInStep'
               /\ saving = Idle \/ Unmoved
    PROVE  HistoryInv'
<1>1. WritesAreAttempts'
  BY DEF HistoryInv, WritesAreAttempts, Phase
<1>2. ASSUME ~ coincided'
      PROVE  ApartInv'
  <2>1. ApartInv
    BY <1>2 DEF HistoryInv
  <2>2. Apart' /\ ReadsTheFile' /\ KeepsInStep'
    BY <1>2, <2>1
  <2>3. CASE saving = Idle
    <3>1. \A s \in Slots : saving'.saves[s].phase \notin Writing /\ saving.saves[s].phase \notin Before
      BY <2>3, IdleTyped, NoSaveTyped DEF Writing, Before
    <3>2. saving.queued = "none" /\ saving'.queued = "none"
      BY <2>3, IdleTyped
    <3>3. attempted >= asked
      BY <2>1, <3>1, <3>2 DEF ApartInv, Attempts, Phase
    <3>4. Attempts' /\ WritesItsText'
      BY <3>1, <3>2, <3>3 DEF Attempts, WritesItsText, Phase
    <3> QED
      BY <2>2, <3>4 DEF ApartInv
  <2>4. CASE Unmoved
    BY <2>1, <2>2, <2>4 DEF ApartInv, Attempts, WritesItsText, Phase, Unmoved
  <2> QED
    BY <1>2, <2>1, <2>3, <2>4
<1> QED
  BY <1>1, <1>2 DEF HistoryInv

\* A reading begins, when nothing is saved.
LEMMA StartedRead ==
    ASSUME SafeInv, NEW for \in {"reload", "revert"}, StartRead(for), saving = Idle,
           UNCHANGED <<file, saving>>, model'.version = model.version
    PROVE  /\ Current' /\ ReadsTheFile' /\ saving' = Idle /\ reading'.for = for
<1>1. /\ reading'.for = for /\ reading'.version = model.version
      /\ reading'.mtime = NotYet /\ reading'.text = NotYet
  BY ReadStarts DEF SafeInv, SavesInv
<1>2. file.mtime # NotYet
  BY Fields DEF SafeInv, SavesInv, NotYet
<1> QED
  BY <1>1, <1>2 DEF Current, ReadsTheFile

LEMMA NotSaving ==
    ASSUME SafeInv, ~ Saving
    PROVE  saving = Idle
BY OneOrNone DEF SafeInv, SavesInv, Typed, Saving

LEMMA ReloadHistory ==
    ASSUME SafeInv, HistoryInv, Reload
    PROVE  HistoryInv'
<1>1. /\ UNCHANGED <<file, changed, texts, model, saving, reverting, asked, attempted, written, acts, coincided>>
      /\ reading = NoRead
      /\ \/ reading' = reading
         \/ ~ Saving /\ StartRead("reload")
  BY DEF Reload, historyVars, askVars
<1>2. reading.for = "none" /\ ~ Current
  BY <1>1, NothingRead DEF Current
<1>3. ASSUME ApartInv
      PROVE  Apart' /\ ReadsTheFile' /\ KeepsInStep'
  <2>1. KeepsInStep'
    BY <1>1, <1>3 DEF ApartInv, KeepsInStep
  <2>2. Apart /\ ReadsTheFile
    BY <1>3 DEF ApartInv
  <2>3. CASE reading' = reading
    BY <1>1, <1>2, <2>1, <2>2, <2>3 DEF Apart, ReadsTheFile, Current
  <2>4. CASE ~ Saving /\ StartRead("reload")
    <3>1. Current' /\ ReadsTheFile' /\ saving' = Idle /\ reading'.for = "reload"
      BY <1>1, <2>4, NotSaving, StartedRead
    <3>2. Apart'
      BY <1>1, <2>2, <3>1 DEF Apart
    <3> QED
      BY <2>1, <3>1, <3>2
  <2> QED
    BY <1>1, <2>3, <2>4
<1> QED
  BY <1>1, <1>3, QuietHistory DEF Unmoved

LEMMA RevertHistory ==
    ASSUME SafeInv, HistoryInv, Revert
    PROVE  HistoryInv'
<1> USE DEF SafeInv, SavesInv, StateInv
<1>1. /\ model' = Clean(model) /\ reverting = NoRevert
      /\ UNCHANGED <<file, changed, texts, saving, reload, asked, attempted, written>>
      /\ coincided' = (coincided \/ Saving)
  BY RevertEffect
<1>2. /\ model'.stack = model.stack /\ model'.version = model.version
      /\ model'.mtime = model.mtime /\ ~ model'.dirty
  BY <1>1, CleanModel DEF Typed
<1>3. ASSUME ~ coincided', ApartInv
      PROVE  Apart' /\ ReadsTheFile' /\ KeepsInStep' /\ saving = Idle
  <2>1. ~ Saving /\ saving = Idle
    BY <1>1, <1>3, NotSaving
  <2>2. /\ reverting'.saved = model.saved /\ reverting'.dirty = model.dirty
        /\ \/ /\ reading # NoRead /\ reading' = reading
              /\ reverting'.phase = "waiting"
           \/ /\ reading = NoRead /\ StartRead("revert")
              /\ reverting'.phase = "reading"
    BY <2>1, RevertEffect
  <2>3. InStep(model.stack, model.mtime, file, written, model.dirty, model.saved)
    BY <1>1, <1>3, NothingRead DEF ApartInv, KeepsInStep
  <2>4. KeepsInStep'
    BY <1>1, <1>2, <2>2, <2>3 DEF KeepsInStep
  <2>5. reading.for # "revert"
    BY <1>1, NothingRead DEF RevertsRead
  <2>6. CASE reading' = reading
    <3>1. ReadsTheFile'
      BY <1>1, <1>2, <1>3, <2>6 DEF ApartInv, ReadsTheFile, Current
    <3>2. Apart'
      BY <1>1, <1>2, <2>1, <2>5, <2>6 DEF Apart
    <3> QED
      BY <2>1, <2>4, <3>1, <3>2
  <2>7. CASE StartRead("revert")
    <3>1. Current' /\ ReadsTheFile' /\ saving' = Idle
      BY <1>1, <1>2, <2>1, <2>7, StartedRead
    <3>2. Apart'
      BY <1>2, <3>1 DEF Apart
    <3> QED
      BY <2>1, <2>4, <3>1, <3>2
  <2> QED
    BY <2>2, <2>6, <2>7
<1> QED
  BY <1>1, <1>3, QuietHistory

LEMMA SoftRevertHistory ==
    ASSUME SafeInv, HistoryInv, SoftRevert
    PROVE  HistoryInv'
<1> USE DEF SafeInv, SavesInv, StateInv
<1>1. /\ UNCHANGED <<file, changed, texts, saving, reload, reading, reverting, asked, attempted, written>>
      /\ coincided' = (coincided \/ model.dirty)
      /\ model' \in Model /\ model'.stack = model.stack /\ model'.version = model.version
      /\ model'.mtime = model.mtime /\ model'.saved = Last(model.stack).alternative
      /\ ~ model'.dirty
  BY SoftRevertEffect
<1>2. WritesAreAttempts'
  BY <1>1 DEF HistoryInv, WritesAreAttempts, Phase
<1>3. ASSUME ~ coincided'
      PROVE  ApartInv'
  <2>1. ApartInv /\ ~ model.dirty
    BY <1>1, <1>3 DEF HistoryInv
  <2>2. Apart' /\ Attempts' /\ WritesItsText' /\ ReadsTheFile'
    BY <1>1, <2>1 DEF ApartInv, Apart, Attempts, WritesItsText, ReadsTheFile, Current, Phase
  <2>3. HasText(model.stack, Last(model.stack).alternative, Last(model.stack).text)
    BY Fields, LastHasText DEF StackIsPast
  <2>4. InStep(model.stack, model.mtime, file, written, model.dirty, model.saved) =>
            InStep(model'.stack, model'.mtime, file', written', model'.dirty, model'.saved)
    BY <1>1, <2>1, <2>3 DEF InStep
  <2>5. /\ reverting'.phase = "none" =>
              InStep(model'.stack, model'.mtime, file', written', model'.dirty, model'.saved)
        /\ reverting'.phase = "reading" /\ ~ reverting'.waited =>
              InStep(model'.stack, model'.mtime, file', written', reverting'.dirty, reverting'.saved)
    BY <1>1, <2>1, <2>4 DEF ApartInv, KeepsInStep
  <2>6. KeepsInStep'
    BY <2>5 DEF KeepsInStep
  <2> QED
    BY <2>2, <2>6 DEF ApartInv
<1> QED
  BY <1>2, <1>3 DEF HistoryInv

LEMMA RevertGoesOnHistory ==
    ASSUME SafeInv, HistoryInv, RevertGoesOn
    PROVE  HistoryInv'
<1> USE DEF SafeInv, SavesInv, StateInv
<1>1. /\ UNCHANGED <<file, changed, texts, model, saving, reload, asked, attempted, written, acts, coincided>>
      /\ reverting.phase = "waiting" /\ reading = NoRead
  BY RevertGoesOnEffect
<1>2. ASSUME ApartInv
      PROVE  Apart' /\ ReadsTheFile' /\ KeepsInStep'
  <2>1. ~ model.dirty /\ saving = Idle /\ ~ Saving
    BY <1>1, <1>2, IdleTyped DEF ApartInv, Apart, Saving
  <2>2. StartRead("revert") /\ reverting'.phase = "reading" /\ reverting'.waited = reverting.waited
    BY <2>1, RevertGoesOnEffect
  <2>3. reverting.waited
    BY <1>1 DEF RevertsRead
  <2>4. Current' /\ ReadsTheFile' /\ saving' = Idle
    BY <1>1, <2>1, <2>2, StartedRead
  <2>5. Apart'
    BY <1>1, <2>1, <2>4 DEF Apart
  <2>6. KeepsInStep'
    BY <2>2, <2>3 DEF KeepsInStep
  <2> QED
    BY <2>4, <2>5, <2>6
<1> QED
  BY <1>1, <1>2, QuietHistory DEF Unmoved

LEMMA ReadStatHistory ==
    ASSUME SafeInv, HistoryInv, ReadStat
    PROVE  HistoryInv'
<1> USE DEF SafeInv, SavesInv, StateInv
<1>1. /\ UNCHANGED <<file, changed, texts, saving, reload, reverting, asked, attempted, written, acts, coincided>>
      /\ reading # NoRead /\ reading.mtime = NotYet
      /\ model' \in Model /\ model'.stack = model.stack /\ model'.version = model.version
      /\ model'.saved = model.saved /\ model'.dirty = model.dirty
      /\ \/ /\ reading.for = "reload" /\ reading' = NoRead
            /\ file.mtime = reading.since /\ model'.mtime = file.mtime
         \/ /\ model' = model /\ reading'.for = reading.for
            /\ reading'.version = reading.version
            /\ reading'.mtime = file.mtime /\ reading'.text = reading.text
  BY StatEffect
<1>2. model'.mtime = model.mtime
  <2>1. /\ reading.since <= model.mtime /\ model.mtime <= file.mtime
        /\ reading.since \in Nat /\ model.mtime \in Nat /\ file.mtime \in Nat
    BY Fields DEF PastOnly
  <2> QED
    BY <1>1, <2>1
<1>3. ASSUME ApartInv
      PROVE  Apart' /\ ReadsTheFile' /\ KeepsInStep' /\ Unmoved
  <2>1. KeepsInStep'
    BY <1>1, <1>2, <1>3 DEF ApartInv, KeepsInStep
  <2>2. Apart /\ ReadsTheFile
    BY <1>3 DEF ApartInv
  <2>3. Unmoved
    BY <1>1, <1>2 DEF Unmoved
  <2>4. CASE reading.for = "reload" /\ reading' = NoRead
    <3>1. ~ Current'
      BY <2>4, NothingRead DEF Current
    <3>2. Apart' /\ ReadsTheFile'
      BY <1>1, <2>2, <2>4, <3>1, NothingRead DEF Apart, ReadsTheFile
    <3> QED
      BY <2>1, <2>3, <3>2
  <2>5. CASE /\ model' = model /\ reading'.for = reading.for
             /\ reading'.version = reading.version
             /\ reading'.mtime = file.mtime /\ reading'.text = reading.text
    <3>1. Current' <=> Current
      BY <2>5 DEF Current
    <3>2. file.mtime >= model.mtime
      BY Fields DEF PastOnly
    <3>3. ReadsTheFile'
      BY <1>1, <2>2, <2>5, <3>1, <3>2 DEF ReadsTheFile
    <3>4. Apart'
      BY <1>1, <2>2, <2>5, <3>1 DEF Apart
    <3> QED
      BY <2>1, <2>3, <3>3, <3>4
  <2> QED
    BY <1>1, <2>4, <2>5
<1> QED
  BY <1>1, <1>3, QuietHistory

LEMMA ReadTextHistory ==
    ASSUME SafeInv, HistoryInv, ReadText
    PROVE  HistoryInv'
<1>1. /\ UNCHANGED <<file, changed, texts, model, saving, reload, reverting, asked, attempted, written, acts, coincided>>
      /\ reading.text = NotYet /\ reading'.for = reading.for
      /\ reading'.version = reading.version
      /\ reading'.mtime = reading.mtime /\ reading'.text = file.text
  BY TextEffect DEF SafeInv, SavesInv
<1>2. file.text # NotYet /\ (Current' <=> Current)
  BY <1>1, Fields DEF SafeInv, SavesInv, NotYet, Current
<1>3. ASSUME ApartInv
      PROVE  Apart' /\ ReadsTheFile' /\ KeepsInStep'
  <2>1. Apart /\ ReadsTheFile /\ KeepsInStep
    BY <1>3 DEF ApartInv
  <2>2. Apart'
    BY <1>1, <1>2, <2>1 DEF Apart
  <2>3. ReadsTheFile'
    BY <1>1, <1>2, <2>1 DEF ReadsTheFile
  <2>4. KeepsInStep'
    BY <1>1, <2>1 DEF KeepsInStep
  <2> QED
    BY <2>2, <2>3, <2>4
<1> QED
  BY <1>1, <1>3, QuietHistory DEF Unmoved

LEMMA ReadEndsHistory ==
    ASSUME SafeInv, HistoryInv, ReadEnds
    PROVE  HistoryInv'
<1> USE DEF SafeInv, SavesInv, StateInv
<1>1. /\ UNCHANGED <<file, changed, texts, saving, reload, asked, attempted, written, acts, coincided>>
      /\ reading' = NoRead
      /\ reverting' = IF reading.for = "revert" THEN NoRevert ELSE reverting
      /\ NotYet \notin {reading.mtime, reading.text}
  BY DEF ReadEnds, EndRead, historyVars, askVars
<1>2. /\ model' \in Model /\ model'.stack # <<>> /\ reading.mtime \in Nat /\ reading.text \in Nat
      /\ \/ reading.version # model.version /\ model' = model
         \/ /\ reading.version = model.version /\ ~ model'.dirty
            /\ model'.saved = Last(model'.stack).alternative /\ Last(model'.stack).text = reading.text
            /\ model'.mtime = IF model.mtime > reading.mtime THEN model.mtime ELSE reading.mtime
  BY ReadEffect
<1>3. ~ Current' /\ reading'.for = "none" /\ reading.for # "none"
  <2>1. reading.mtime # NoRead.mtime
    BY <1>1, NothingRead
  <2> QED
    BY <1>1, <2>1, NothingRead DEF Current, RevertsRead
<1>4. \* It is no reading for a revert that is still going on afterwards.
      reverting'.phase # "reading"
  BY <1>1, NothingRead DEF RevertsRead
<1>5. ASSUME ApartInv
      PROVE  Apart' /\ ReadsTheFile' /\ KeepsInStep' /\ (saving = Idle \/ Unmoved)
  <2>1. Apart /\ ReadsTheFile /\ KeepsInStep
    BY <1>5 DEF ApartInv
  <2>2. ReadsTheFile'
    BY <1>3 DEF ReadsTheFile
  <2>3. CASE reading.version # model.version /\ model' = model
    <3>1. reading.for # "revert" /\ reverting' = reverting
      BY <1>1, <2>1, <2>3 DEF Apart, Current
    <3>2. Apart'
      BY <1>1, <1>3, <2>1, <2>3, <3>1 DEF Apart
    <3>3. KeepsInStep'
      BY <1>1, <2>1, <2>3, <3>1 DEF KeepsInStep
    <3> QED
      BY <1>1, <2>2, <2>3, <3>2, <3>3 DEF Unmoved
  <2>4. CASE /\ reading.version = model.version /\ ~ model'.dirty
             /\ model'.saved = Last(model'.stack).alternative /\ Last(model'.stack).text = reading.text
             /\ model'.mtime = IF model.mtime > reading.mtime THEN model.mtime ELSE reading.mtime
    <3>1. Current /\ saving = Idle
      BY <1>3, <2>1, <2>4 DEF Current, Apart
    <3>2. /\ reading.mtime >= model.mtime
          /\ reading.mtime = file.mtime => reading.text = file.text
      BY <1>1, <2>1, <3>1 DEF ReadsTheFile
    <3>3. model'.mtime = reading.mtime
      BY <1>2, <2>4, <3>2, Fields
    <3>4. HasText(model'.stack, model'.saved, reading.text)
      <4>1. model'.stack \in Seq(Entry) /\ PastStack(model'.stack, model'.version, texts')
        BY <1>2, ReadEndsSafe DEF StackIsPast, Model
      <4> QED
        BY <1>2, <2>4, <4>1, LastHasText
    <3>5. InStep(model'.stack, model'.mtime, file, written, model'.dirty, model'.saved)
      BY <2>4, <3>2, <3>3, <3>4 DEF InStep
    <3>6. KeepsInStep'
      BY <1>1, <1>4, <3>5 DEF KeepsInStep
    <3>7. Apart'
      BY <1>1, <1>3, <2>4, <3>1 DEF Apart
    <3> QED
      BY <2>2, <3>1, <3>6, <3>7
  <2> QED
    BY <1>2, <2>3, <2>4
<1> QED
  BY <1>1, <1>5, QuietHistory

LEMMA ReadFailsHistory ==
    ASSUME SafeInv, HistoryInv, ReadFails
    PROVE  HistoryInv'
<1> USE DEF SafeInv, SavesInv, StateInv
<1>1. /\ UNCHANGED <<file, changed, texts, saving, reload, asked, attempted, written>>
      /\ reading' = NoRead /\ reading # NoRead
      /\ reverting' = IF reading.for = "revert" THEN NoRevert ELSE reverting
      /\ coincided' = (coincided \/ (reading.for = "revert" /\ reverting.waited))
  BY DEF ReadFails, EndRead, askVars, Coincides
<1>2. /\ model'.stack = model.stack /\ model'.version = model.version
      /\ model'.mtime = model.mtime
      /\ \/ reading.for = "reload" /\ model' = model
         \/ /\ reading.for # "reload"
            /\ model'.saved = reverting.saved /\ model'.dirty = reverting.dirty
  BY ReadFailedEffect
<1>3. ~ Current' /\ reading'.for = "none" /\ reading.for \in {"reload", "revert"}
  BY <1>1, NothingRead DEF Current, RevertsRead, Typed, Read
<1>4. ASSUME ~ coincided', ApartInv
      PROVE  Apart' /\ ReadsTheFile' /\ KeepsInStep' /\ (saving = Idle \/ Unmoved)
  <2>1. Apart /\ KeepsInStep
    BY <1>4 DEF ApartInv
  <2>2. ReadsTheFile'
    BY <1>3 DEF ReadsTheFile
  <2>3. CASE reading.for = "reload"
    <3>1. model' = model /\ reverting' = reverting
      BY <1>1, <1>2, <2>3
    <3>2. Apart' /\ KeepsInStep'
      BY <1>1, <1>3, <2>1, <3>1 DEF Apart, KeepsInStep
    <3> QED
      BY <1>1, <2>2, <3>1, <3>2 DEF Unmoved
  <2>4. CASE reading.for = "revert"
    <3>1. /\ model'.saved = reverting.saved /\ model'.dirty = reverting.dirty
          /\ reverting.phase = "reading" /\ ~ reverting.waited /\ reverting' = NoRevert
      BY <1>1, <1>2, <1>4, <2>4 DEF RevertsRead
    <3>2. saving = Idle
      BY <2>1, <3>1 DEF Apart
    <3>3. Apart' /\ KeepsInStep'
      BY <1>1, <1>2, <1>3, <2>1, <3>1, NothingRead DEF Apart, KeepsInStep
    <3> QED
      BY <2>2, <3>2, <3>3
  <2> QED
    BY <1>3, <2>3, <2>4
<1> QED
  BY <1>1, <1>4, QuietHistory

LEMMA OthersWriteHistory ==
    ASSUME SafeInv, HistoryInv, OthersWrite
    PROVE  HistoryInv'
<1> USE DEF SafeInv, SavesInv, StateInv
<1>1. /\ UNCHANGED <<model, saving, reload, reading, reverting, asked, attempted, written>>
      /\ coincided' = (coincided \/ Between)
      /\ file' = [text |-> texts', mtime |-> file.mtime + 1]
  BY DEF OthersWrite, Coincides, askVars
<1>2. file'.mtime = file.mtime + 1
  BY <1>1
<1>3. model.mtime # file'.mtime /\ reading.mtime # file'.mtime
  <2>1. model.mtime \in Nat /\ reading.mtime \in Int /\ file.mtime \in Nat
    BY Fields
  <2>2. model.mtime <= file.mtime /\ reading.mtime <= file.mtime
    BY DEF PastOnly
  <2> QED
    BY <1>2, <2>1, <2>2
<1>4. WritesAreAttempts'
  BY <1>1 DEF HistoryInv, WritesAreAttempts, Phase
<1>5. ASSUME ~ coincided'
      PROVE  ApartInv'
  <2>1. /\ ApartInv /\ \A s \in Slots : Phase(s) # "put"
        /\ Current => ((reading.mtime = NotYet) <=> (reading.text = NotYet))
    BY <1>1, <1>5, NothingRead DEF HistoryInv, Between, Current
  <2>2. Apart' /\ Attempts'
    BY <1>1, <2>1 DEF ApartInv, Apart, Attempts, Current, Phase
  <2>3. WritesItsText'
    BY <1>1, <2>1 DEF ApartInv, WritesItsText, Phase
  <2>4. ReadsTheFile'
    BY <1>1, <1>3, <2>1 DEF ApartInv, ReadsTheFile, Current
  <2>5. KeepsInStep'
    BY <1>1, <1>3, <2>1 DEF ApartInv, KeepsInStep, InStep
  <2> QED
    BY <2>2, <2>3, <2>4, <2>5 DEF ApartInv
<1> QED
  BY <1>4, <1>5 DEF HistoryInv

LEMMA StillHistory ==
    ASSUME HistoryInv,
           UNCHANGED <<file, texts, model, saving, reading, reverting, acts, asked, attempted, written, coincided>>
    PROVE  HistoryInv'
<1>1. WritesAreAttempts'
  BY DEF HistoryInv, WritesAreAttempts, Phase
<1>2. ASSUME ~ coincided'
      PROVE  ApartInv'
  <2>1. ApartInv
    BY <1>2 DEF HistoryInv
  <2>2. Apart' /\ Attempts' /\ WritesItsText' /\ ReadsTheFile' /\ KeepsInStep'
    BY <2>1 DEF ApartInv, Apart, Attempts, WritesItsText, ReadsTheFile, KeepsInStep, Current, Phase
  <2> QED
    BY <2>2 DEF ApartInv
<1> QED
  BY <1>1, <1>2 DEF HistoryInv

LEMMA SlotHistory ==
    ASSUME SafeInv, HistoryInv, NEW s \in Slots, SlotStep(s)
    PROVE  HistoryInv'
<1> USE DEF SafeInv, SavesInv
<1>1. acts \in Nat
  BY DEF Typed
<1>2. CASE RunParticipants(s)
  <2>1. /\ Moves(s) /\ Phase(s) # "none" /\ saving'.saves[s].phase # "put"
        /\ ~ saving'.saves[s].cancelled
    BY <1>2, ParticipantsRun DEF Before
  <2>2. UNCHANGED <<file, texts, model, reload, reading, reverting, asked, attempted, written, coincided>>
    BY <1>2 DEF RunParticipants, historyVars, askVars
  <2> QED
    BY <2>1, <2>2, MoveHistory
<1>3. CASE Cancel(s)
  <2>1. Moves(s) /\ Phase(s) # "none" /\ saving'.saves[s].phase = Phase(s)
    BY <1>3, SaveIsCancelled DEF Before
  <2>2. /\ UNCHANGED <<file, texts, model, reload, reading, reverting, attempted, written, coincided>>
        /\ asked' = 0
    BY <1>3 DEF Cancel
  <2> QED
    BY <2>1, <2>2, MoveHistory
<1>4. CASE Abandon(s)
  BY <1>4, AbandonHistory
<1>5. CASE Write(s)
  BY <1>5, WriteHistory
<1>6. CASE Conflict(s)
  <2>1. SaveFailed(s, TRUE) /\ UNCHANGED acts /\ Phase(s) \in Writing
    BY <1>6, Zenon DEF Conflict, Writing
  <2>2. acts' \in Nat
    BY <1>1, <2>1
  <2> QED
    BY <2>1, <2>2, FailedHistory, Zenon
<1>7. CASE SaveFails(s)
  <2>1. SaveFailed(s, FALSE) /\ Act /\ Phase(s) \in Writing
    BY <1>7, Zenon DEF SaveFails, Writing
  <2>2. acts' \in Nat
    BY <1>1, <2>1 DEF Act
  <2> QED
    BY <2>1, <2>2, FailedHistory, Zenon
<1>8. CASE Validate(s)
  <2>1. Phase(s) \in Writing /\ WritesOn(s, "putting") /\ Phase(s) # "none"
    BY <1>8 DEF Validate, WritesOn, Writing
  <2>2. Moves(s) /\ saving'.saves[s].phase = "putting" /\ saving'.saves[s].cancelled = saving.saves[s].cancelled
    BY <2>1, WriteGoesOn
  <2>3. UNCHANGED <<file, texts, model, reload, reading, reverting, asked, attempted, written, coincided>>
    BY <1>8 DEF Validate, historyVars, askVars
  <2> QED
    BY <2>1, <2>2, <2>3, MoveHistory
<1>9. CASE Put(s)
  BY <1>9, PutHistory
<1>10. CASE SaveSucceeds(s)
  BY <1>10, SucceededHistory
<1> QED
  BY <1>2, <1>3, <1>4, <1>5, <1>6, <1>7, <1>8, <1>9, <1>10 DEF SlotStep, SaveSteps

LEMMA InitHistory ==
    ASSUME Init
    PROVE  HistoryInv
<1> DEFINE entry == [alternative |-> 0, text |-> 0]
<1>1. entry \in Entry /\ entry.alternative = 0 /\ entry.text = 0
  BY DEF Entry
<1>2. <<entry>> \in Seq(Entry) /\ <<entry>> # <<>> /\ Len(<<entry>>) = 1 /\ <<entry>>[1] = entry
  BY <1>1
<1>3. Last(<<entry>>) = entry
  BY <1>2, StackEnds
<1>4. /\ file = [text |-> 0, mtime |-> 0]
      /\ model = [stack |-> <<entry>>, version |-> 0, saved |-> 0, mtime |-> 0,
                  dirty |-> FALSE, conflict |-> FALSE, error |-> FALSE, undone |-> FALSE]
      /\ saving = Idle /\ reading = NoRead /\ reverting = NoRevert
      /\ asked = 0 /\ attempted = 0 /\ written = 0
  BY DEF Init, Idle
<1> HIDE DEF entry
<1>5. /\ model.stack = <<entry>> /\ model.version = 0 /\ model.saved = 0 /\ model.mtime = 0
      /\ ~ model.dirty /\ file.text = 0 /\ file.mtime = 0
  BY <1>4
<1>6. \A s \in Slots : Phase(s) \notin Writing
  BY <1>4, IdlePhases DEF Writing
<1>7. ~ Current /\ reading.for = "none" /\ reverting.phase = "none"
  BY <1>4, NothingRead DEF Current
<1>8. Apart /\ WritesItsText /\ ReadsTheFile /\ WritesAreAttempts
  BY <1>6, <1>7 DEF Apart, WritesItsText, ReadsTheFile, WritesAreAttempts
<1>9. Attempts
  BY <1>4, IdleTyped DEF Attempts
<1>10. KeepsInStep
  <2>1. HasText(model.stack, 0, 0)
    <3> SUFFICES ASSUME NEW i \in 1 .. Len(model.stack)
                 PROVE  model.stack[i].text = 0
      BY DEF HasText
    <3> QED
      BY <1>1, <1>2, <1>5
  <2> QED
    BY <1>1, <1>3, <1>5, <1>7, <2>1 DEF KeepsInStep, InStep
<1> QED
  BY <1>8, <1>9, <1>10 DEF HistoryInv, ApartInv

LEMMA TextFileInvariant == Spec => []TextFileInv
<1>1. Init => HistoryInv
  BY InitHistory
<1>2. SafeInv /\ HistoryInv /\ [Next]_textFileVars => HistoryInv'
  <2> SUFFICES ASSUME SafeInv, HistoryInv, [Next]_textFileVars
               PROVE  HistoryInv'
    OBVIOUS
  <2>1. CASE Edit
    BY <2>1, EditHistory
  <2>2. CASE Undo
    BY <2>2, UndoHistory
  <2>3. CASE Revert
    BY <2>3, RevertHistory
  <2>15. CASE SoftRevert
    BY <2>15, SoftRevertHistory
  <2>4. CASE \E kind \in Kind : Save(kind)
    BY <2>4, SaveHistory
  <2>5. CASE \E s \in Slots : SlotStep(s)
    BY <2>5, SlotHistory
  <2>6. CASE Reload
    BY <2>6, ReloadHistory
  <2>7. CASE ReadStat
    BY <2>7, ReadStatHistory
  <2>8. CASE ReadText
    BY <2>8, ReadTextHistory
  <2>9. CASE ReadEnds
    BY <2>9, ReadEndsHistory
  <2>10. CASE RevertGoesOn
    BY <2>10, RevertGoesOnHistory
  <2>11. CASE ReadFails
    BY <2>11, ReadFailsHistory
  <2>12. CASE OthersWrite
    BY <2>12, OthersWriteHistory
  <2>13. CASE FileChanged
    <3>1. UNCHANGED <<file, texts, model, saving, reading, reverting, acts, asked, attempted, written, coincided>>
      BY <2>13 DEF FileChanged, historyVars, askVars
    <3> QED
      BY <3>1, StillHistory
  <2>14. CASE UNCHANGED textFileVars
    <3>1. UNCHANGED <<file, texts, model, saving, reading, reverting, acts, asked, attempted, written, coincided>>
      BY <2>14 DEF textFileVars
    <3> QED
      BY <3>1, StillHistory
  <2> QED
    BY <2>1, <2>2, <2>3, <2>4, <2>5, <2>6, <2>7, <2>8, <2>9, <2>10, <2>11, <2>12, <2>13, <2>14, <2>15, NextIs
<1>3. Spec => []HistoryInv
  BY <1>1, <1>2, SafeInvariant, PTL DEF Spec
<1>4. SafeInv /\ HistoryInv => TextFileInv
  BY DEF TextFileInv
<1> QED
  BY <1>3, <1>4, SafeInvariant, PTL

\* What isDirty tells: without a coincidence, a model that is not dirty shows the
\* file, unless it is being saved, is being read for a revert or has yet to see
\* it, whatever was edited, undone, saved, reloaded and reverted before (doSave,
\* handleSaveSuccess, resolveFromContent, onModelContentChanged).
THEOREM CleanShowsTheFile == Spec => []CleanIsSaved
<1>1. TextFileInv => CleanIsSaved
  <2> SUFFICES ASSUME TextFileInv, ~ coincided, ~ model.dirty, reverting = NoRevert, model.mtime = file.mtime
               PROVE  Text(model) = file.text
    BY DEF CleanIsSaved
  <2>1. InStep(model.stack, model.mtime, file, written, model.dirty, model.saved)
    BY NothingRead DEF TextFileInv, HistoryInv, ApartInv, KeepsInStep
  <2>2. Text(model) = Last(model.stack).text
    BY DEF Text
  <2> QED
    BY <2>1, <2>2 DEF InStep
<1> QED
  BY <1>1, TextFileInvariant, PTL

\* Without a coincidence, no save of a dirty model is lost: when none runs any
\* more, the version that was to be saved, or a later one, has been written, or
\* its write begun, unless it was cancelled or undone (doSave, runQueued).
THEOREM SavesAreNotLost == Spec => []SavesAreAttempted
<1>1. TextFileInv => SavesAreAttempted
  <2> SUFFICES ASSUME TextFileInv, ~ coincided, ~ Saving
               PROVE  attempted >= asked
    BY DEF SavesAreAttempted
  <2>1. saving = Idle
    BY NotSaving DEF TextFileInv
  <2>2. \A s \in Slots : Phase(s) \notin Before
    BY <2>1, IdlePhases DEF Before
  <2>3. Attempts
    BY DEF TextFileInv, HistoryInv, ApartInv
  <2> QED
    BY <2>1, <2>2, <2>3, IdleTyped DEF Attempts
<1> QED
  BY <1>1, TextFileInvariant, PTL
=============================================================================
