---------------------------- MODULE StorageProofs ---------------------------
(***************************************************************************)
(* Proofs about ThrottledDelayer and the Storage on it.  A call of the     *)
(* delayer is in one place at a time and answered by a run that began after*)
(* it; what is set in the storage is not forgotten, the database is the    *)
(* cache of one moment, and a storage that was closed left its items in it.*)
(***************************************************************************)
EXTENDS Storage, TLAPS

----------------------------------------------------------------------------
(* The delayer.                                                            *)

\* What a run has to be ahead of: the calls it is to answer were made before it
\* began, those that wait not after the one that was begun last.
Progress ==
    /\ madeAt \in [Calls -> Nat] /\ answeredBy \in [Calls -> Nat]
    /\ \A c \in Calls : c > calls => answeredBy[c] = 0
    /\ \A c \in active : madeAt[c] < runs
    /\ \A c \in queued \cup waiting : madeAt[c] <= runs
    /\ AnswerIsFresh

\* Where the calls are, and what wakes them: the two halves of DelayerTypeOK.
Places ==
    /\ calls \in 0 .. MaxCalls /\ runs \in Nat
    /\ outcome \in [Calls -> Outcome]
    /\ waiting \subseteq 1 .. calls /\ active \subseteq 1 .. calls /\ queued \subseteq 1 .. calls
    /\ waiting \cap active = {} /\ waiting \cap queued = {} /\ active \cap queued = {}

Flags ==
    /\ armed \in BOOLEAN /\ second \in BOOLEAN /\ disposed \in BOOLEAN
    /\ armed <=> waiting # {}
    /\ active = {} => queued = {} /\ ~ second

DelayerInv == Places /\ Flags /\ Progress

\* They are both halves.
LEMMA Halves == DelayerTypeOK <=> Places /\ Flags
BY DEF DelayerTypeOK, Places, Flags

\* The calls in the words of arithmetic.
LEMMA CallsAreNumbers ==
    ASSUME Places
    PROVE  /\ calls \in Nat /\ calls <= MaxCalls /\ MaxCalls \in Nat
           /\ 1 .. calls \subseteq Calls
BY DelayerAssumption DEF Places, Calls

\* The delayer begins in its invariant.
LEMMA DelayerInitInv == DelayerInit => DelayerInv
<1> SUFFICES ASSUME DelayerInit PROVE DelayerInv
  OBVIOUS
<1>1. Places
  BY DelayerAssumption DEF DelayerInit, Places, Calls, Outcome
<1>2. Flags
  BY DEF DelayerInit, Flags
<1>3. Progress
  BY DEF DelayerInit, Progress, AnswerIsFresh, Calls
<1> QED
  BY <1>1, <1>2, <1>3 DEF DelayerInv

\* A new call waits, and was made when the runs so far had begun.
LEMMA TriggerKeeps ==
    ASSUME DelayerInv, Trigger
    PROVE  DelayerInv'
<1>1. /\ calls' = calls + 1 /\ calls' \in Calls /\ calls' \notin 1 .. calls
      /\ waiting' = waiting \cup {calls'}
      /\ madeAt' = [madeAt EXCEPT ![calls'] = runs]
      /\ UNCHANGED <<active, queued, outcome, runs, answeredBy>>
  BY CallsAreNumbers DEF Trigger, Calls, DelayerInv, Places
<1>2. Places'
  BY <1>1, CallsAreNumbers DEF DelayerInv, Places, Calls
<1>3. Flags'
  BY DEF DelayerInv, Flags, Trigger
<1>4. Progress'
  BY <1>1, CallsAreNumbers DEF DelayerInv, Places, Progress, AnswerIsFresh, Calls
<1> QED
  BY <1>2, <1>3, <1>4 DEF DelayerInv

\* The timer begins a run, which is newer than all it answers, or leaves its
\* calls to the next one.
LEMMA FireKeeps ==
    ASSUME DelayerInv, Fire
    PROVE  DelayerInv'
<1>1. waiting' = {} /\ UNCHANGED <<calls, madeAt, answeredBy>>
  BY DEF Fire
<1>2. CASE disposed
  <2>1. UNCHANGED <<active, queued, runs>> /\ Settle(waiting, "failed")
    BY <1>2 DEF Fire
  <2>2. outcome' \in [Calls -> Outcome]
    BY <2>1 DEF Settle, Outcome, DelayerInv, Places
  <2>3. Places'
    BY <1>1, <2>1, <2>2 DEF DelayerInv, Places, Calls
  <2>4. Progress'
    BY <1>1, <2>1 DEF DelayerInv, Progress, AnswerIsFresh
  <2>5. Flags'
    BY <1>2 DEF DelayerInv, Flags, Fire
  <2> QED
    BY <2>3, <2>4, <2>5 DEF DelayerInv
<1>3. CASE ~ disposed /\ active = {}
  <2>1. active' = waiting /\ runs' = runs + 1 /\ UNCHANGED <<queued, outcome>>
    BY <1>3 DEF Fire
  <2>2. active = {} /\ queued = {}
    BY <1>3 DEF DelayerInv, Flags
  <2>3. Places'
    BY <1>1, <2>1, <2>2 DEF DelayerInv, Places, Calls
  <2>4. Progress'
    BY <1>1, <2>1, <2>2, CallsAreNumbers DEF DelayerInv, Places, Progress, AnswerIsFresh
  <2>5. Flags'
    <3>1. armed /\ armed' = FALSE /\ second' = FALSE /\ UNCHANGED disposed
      BY <1>3 DEF Fire
    <3>2. waiting # {}
      BY <3>1 DEF DelayerInv, Flags
    <3> QED
      BY <1>1, <2>1, <2>2, <3>1, <3>2 DEF DelayerInv, Flags
  <2> QED
    BY <2>3, <2>4, <2>5 DEF DelayerInv
<1>4. CASE ~ disposed /\ active # {}
  <2>1. queued' = queued \cup waiting /\ UNCHANGED <<active, runs, outcome>>
    BY <1>4 DEF Fire
  <2>2. Places'
    BY <1>1, <2>1 DEF DelayerInv, Places, Calls
  <2>3. Progress'
    BY <1>1, <2>1 DEF DelayerInv, Progress, AnswerIsFresh
  <2>4. Flags'
    BY <1>4 DEF DelayerInv, Flags, Fire
  <2> QED
    BY <2>2, <2>3, <2>4 DEF DelayerInv
<1> QED
  BY <1>2, <1>3, <1>4

\* What becomes of the calls of a run is one of the outcomes.
LEMMA OutcomesStay ==
    ASSUME DelayerInv, NEW how \in {"done", "failed"}, Finish(how)
    PROVE  outcome' \in [Calls -> Outcome]
<1>1. OutcomeOfRun(how) \in Outcome
  BY DEF OutcomeOfRun, Outcome
<1>2. outcome' = [c \in Calls |-> IF c \in active THEN OutcomeOfRun(how)
                                  ELSE IF c \in queued /\ disposed THEN "done"
                                  ELSE outcome[c]]
  BY DEF Finish
<1> QED
  BY <1>1, <1>2 DEF Outcome, DelayerInv, Places

\* The run that answers calls is newer than them.
LEMMA AnswersStayFresh ==
    ASSUME DelayerInv, NEW how, Finish(how)
    PROVE  /\ answeredBy' \in [Calls -> Nat]
           /\ \A c \in Calls : c > calls => answeredBy'[c] = 0
           /\ AnswerIsFresh'
<1>1. /\ answeredBy' = [c \in Calls |-> IF c \in active THEN runs ELSE answeredBy[c]]
      /\ UNCHANGED <<calls, madeAt>>
  BY DEF Finish
<1>2. /\ runs \in Nat /\ active \subseteq 1 .. calls /\ calls \in Nat
      /\ madeAt \in [Calls -> Nat] /\ answeredBy \in [Calls -> Nat]
  BY CallsAreNumbers DEF DelayerInv, Places, Progress
<1>3. answeredBy' \in [Calls -> Nat]
  BY <1>1, <1>2
<1>4. ASSUME NEW c \in Calls, c > calls
      PROVE  answeredBy'[c] = 0
  <2>1. c \notin active
    BY <1>2, <1>4 DEF Calls
  <2> QED
    BY <1>1, <1>4, <2>1 DEF DelayerInv, Progress
<1>5. ASSUME NEW c \in Calls, answeredBy'[c] > 0
      PROVE  answeredBy'[c] > madeAt'[c]
  <2>1. CASE c \in active
    <3>1. madeAt[c] < runs
      BY <2>1 DEF DelayerInv, Progress
    <3> QED
      BY <1>1, <1>2, <2>1, <3>1
  <2>2. CASE c \notin active
    BY <1>1, <1>5, <2>2 DEF DelayerInv, Progress, AnswerIsFresh
  <2> QED
    BY <2>1, <2>2
<1> QED
  BY <1>3, <1>4, <1>5 DEF AnswerIsFresh

\* A run answers its calls, which are older than it, and the queued ones are
\* next.
LEMMA FinishKeeps ==
    ASSUME DelayerInv, NEW how \in {"done", "failed"}, Finish(how)
    PROVE  DelayerInv'
<1>1. /\ active # {} /\ queued' = {}
      /\ answeredBy' = [c \in Calls |-> IF c \in active THEN runs ELSE answeredBy[c]]
      /\ UNCHANGED <<calls, waiting, madeAt>>
  BY DEF Finish
<1>2. CASE queued = {} \/ disposed
  <2>1. active' = {} /\ runs' = runs
    BY <1>2 DEF Finish
  <2>2. Places'
    BY <1>1, <2>1, OutcomesStay DEF DelayerInv, Places, Calls
  <2>3. Progress'
    BY <1>1, <2>1, AnswersStayFresh, CallsAreNumbers DEF DelayerInv, Places, Progress, Calls
  <2>4. Flags'
    BY <1>2 DEF Finish, DelayerInv, Flags
  <2> QED
    BY <2>2, <2>3, <2>4 DEF DelayerInv
<1>3. CASE ~ (queued = {} \/ disposed)
  <2>1. active' = queued /\ runs' = runs + 1
    BY <1>3 DEF Finish
  <2>2. Places'
    BY <1>1, <2>1, OutcomesStay DEF DelayerInv, Places, Calls
  <2>3. Progress'
    <3>1. /\ runs \in Nat /\ madeAt \in [Calls -> Nat]
          /\ queued \subseteq Calls /\ waiting \subseteq Calls
          /\ \A c \in queued \cup waiting : madeAt[c] <= runs
      BY CallsAreNumbers DEF DelayerInv, Places, Progress
    <3>2. /\ \A c \in active' : madeAt'[c] < runs'
          /\ \A c \in queued' \cup waiting' : madeAt'[c] <= runs'
      BY <1>1, <2>1, <3>1
    <3> QED
      BY <1>1, <3>1, <3>2, AnswersStayFresh DEF Progress
  <2>4. Flags'
    BY <1>3 DEF Finish, DelayerInv, Flags
  <2> QED
    BY <2>2, <2>3, <2>4 DEF DelayerInv
<1> QED
  BY <1>2, <1>3

\* Calls that are cancelled wait no more.
LEMMA CancelKeeps ==
    ASSUME DelayerInv, Cancel, disposed' \in BOOLEAN
    PROVE  DelayerInv'
<1>1. outcome' \in [Calls -> Outcome]
  BY DEF Cancel, Settle, Outcome, DelayerInv, Places
<1>2. Places'
  BY <1>1 DEF Cancel, DelayerInv, Places, Calls
<1>3. Flags'
  BY DEF Cancel, DelayerInv, Flags
<1>4. Progress'
  BY DEF Cancel, DelayerInv, Progress, AnswerIsFresh
<1> QED
  BY <1>2, <1>3, <1>4 DEF DelayerInv

\* Every step of the delayer keeps its invariant.
LEMMA DelayerStep == DelayerInv /\ [DelayerNext]_delayerVars => DelayerInv'
<1> SUFFICES ASSUME DelayerInv, [DelayerNext]_delayerVars
             PROVE  DelayerInv'
  OBVIOUS
<1>1. CASE CancelCalls
  BY <1>1, CancelKeeps DEF CancelCalls, DelayerInv, Flags
<1>2. CASE Dispose
  BY <1>2, CancelKeeps DEF Dispose
<1>3. CASE UNCHANGED delayerVars
  BY <1>3 DEF delayerVars, delayer, history, DelayerInv, Places, Flags, Progress, AnswerIsFresh
<1> QED
  BY <1>1, <1>2, <1>3, TriggerKeeps, FireKeeps, FinishKeeps DEF DelayerNext

\* Each call waits in at most one place, and with something that will wake it.
THEOREM DelayerTypeCorrect == DelayerSpec => []DelayerTypeOK
<1>1. DelayerInv => DelayerTypeOK
  BY Halves DEF DelayerInv
<1> QED
  BY <1>1, DelayerInitInv, DelayerStep, PTL DEF DelayerSpec

\* A call that is answered is answered by a run that began after it was made.
THEOREM AnswersAreFresh == DelayerSpec => []AnswerIsFresh
<1>1. DelayerInv => AnswerIsFresh
  BY DEF DelayerInv, Progress
<1> QED
  BY <1>1, DelayerInitInv, DelayerStep, PTL DEF DelayerSpec
----------------------------------------------------------------------------
(* The storage.                                                            *)

\* An update request, and the one the next run will send.
Update == [insert : Items, delete : SUBSET Keys]
Pending == [insert |-> inserts, delete |-> deletes]

\* The parts of the inductive invariant.  Calls are served in their order.
InOrder ==
    /\ \A a \in active : \A c \in queued \cup waiting : a < c
    /\ \A q \in queued : \A w \in waiting : q < w

\* A call is settled by its run, and without an error it was done.
OutcomesTell ==
    /\ \A c \in Calls : c > calls => outcome[c] = "unsettled"
    /\ \A c \in active \cup queued \cup waiting : outcome[c] = "unsettled"
    /\ ~ erroneous => \A c \in Calls : outcome[c] \in {"unsettled", "done"}

\* The items, and what is pending of them; what is to be deleted is not inserted.
ItemsOK ==
    /\ cache \in Items /\ db \in Items /\ inserts \in Items
    /\ deletes \in SUBSET Keys
    /\ request \in Update
    /\ cacheAt \in [0 .. MaxCalls -> Items]
    /\ \A k \in deletes : inserts[k] = None

\* What is out belongs to a run, what is pending has one to come.
RunsTakeAll ==
    /\ active = {} => request = NoRequest
    /\ HasPending => waiting # {} \/ queued # {}

\* Without an error the database was the cache as some call left it, it will be
\* that of a later call when the update at work is done, and the calls that are
\* answered then or already are not after these.
Moments ==
    /\ cacheAt[calls] = cache
    /\ ~ erroneous =>
        \E n \in 0 .. calls : \E m \in n .. calls :
            /\ db = cacheAt[n]
            /\ Updated(db, request, Keys) = cacheAt[m]
            /\ \A c \in 1 .. calls : outcome[c] = "done" => c <= n
            /\ \A c \in active : c <= m

\* close() makes the last call; once it is settled there is nothing left to run.
Closing ==
    /\ closing \in {"no", "flushing", "closed", "failed"}
    /\ closing # "no" => closeCall = calls /\ closeCall \in Calls
    /\ closing # "no" /\ outcome[closeCall] # "unsettled" => active = {} /\ queued = {} /\ waiting = {}
    /\ closing \in {"closed", "failed"} => outcome[closeCall] # "unsettled"
    /\ ClosedHoldsCache

\* The callers of whenFlushed that wait, and those that were told.
Answering == waits \in Nat /\ told \in 0 .. waits

\* The inductive invariant of the storage.
StorageInv ==
    /\ DelayerInv /\ ~ disposed
    /\ InOrder /\ OutcomesTell /\ ItemsOK /\ RunsTakeAll /\ Answering
    /\ NothingSetIsForgotten /\ Moments /\ Closing

----------------------------------------------------------------------------
(* Updates.                                                                *)

\* Nothing to do is an update of no items.
LEMMA NothingIsAnUpdate == NoRequest \in Update /\ NoItems \in Items
BY DEF NoRequest, NoItems, Update, Items

\* An update of items gives items, whatever part of it is written.
LEMMA UpdatedIsItems ==
    ASSUME NEW items \in Items, NEW update \in Update, NEW keys
    PROVE  Updated(items, update, keys) \in Items
BY DEF Updated, Items, Update

\* An update of nothing changes nothing.
LEMMA UpdatedByNothing ==
    ASSUME NEW items \in Items
    PROVE  Updated(items, NoRequest, Keys) = items
BY DEF Updated, Items, NoRequest, NoItems

\* A value that is set is what will be read.
LEMMA UpdatedBySet ==
    ASSUME NEW items \in Items, NEW ins \in Items, NEW del \in SUBSET Keys, NEW k \in Keys, NEW v \in Values
    PROVE  Updated(items, [insert |-> [ins EXCEPT ![k] = v], delete |-> del \ {k}], Keys)
             = [Updated(items, [insert |-> ins, delete |-> del], Keys) EXCEPT ![k] = v]
BY StorageAssumption DEF Updated, Items

\* A key that is deleted will be gone.
LEMMA UpdatedByDelete ==
    ASSUME NEW items \in Items, NEW ins \in Items, NEW del \in SUBSET Keys, NEW k \in Keys
    PROVE  Updated(items, [insert |-> [ins EXCEPT ![k] = None], delete |-> del \cup {k}], Keys)
             = [Updated(items, [insert |-> ins, delete |-> del], Keys) EXCEPT ![k] = None]
BY DEF Updated, Items

----------------------------------------------------------------------------
(* The steps of the delayer that the storage takes.                        *)

\* A storage is a delayer: it takes no other steps.
LEMMA StorageMovesDelayer == [StorageNext]_storageVars => [DelayerNext]_delayerVars
BY DEF StorageNext, storageVars, storage, Set, Delete, Flush, WhenFlushed, FlushDue, DatabaseAnswers,
       UpdateItems, UpdatePartly, UpdateFails, Answer, Close, DatabaseCloses, CloseHealthy,
       CloseRecovering, RecoveryFails, DoFlush, DelayerNext

\* The timer's calls begin a run of their own, or join those that are queued.
LEMMA FireMoves ==
    ASSUME DelayerInv, ~ disposed, Fire
    PROVE  /\ waiting # {} /\ waiting' = {}
           /\ UNCHANGED <<calls, outcome>> /\ ~ disposed'
           /\ \/ active = {} /\ queued = {} /\ active' = waiting /\ queued' = {} /\ runs' # runs
              \/ active # {} /\ active' = active /\ queued' = queued \cup waiting /\ runs' = runs
<1>1. waiting # {} /\ ~ disposed'
  BY DEF Fire, DelayerInv, Flags
<1>2. waiting' = {} /\ UNCHANGED <<calls, outcome>>
  BY DEF Fire
<1>3. CASE active = {}
  <2>1. active' = waiting /\ queued' = queued /\ runs' = runs + 1
    BY <1>3 DEF Fire
  <2>2. queued = {}
    BY <1>3 DEF DelayerInv, Flags
  <2>3. runs' # runs
    BY <2>1 DEF DelayerInv, Places
  <2> QED
    BY <1>1, <1>2, <1>3, <2>1, <2>2, <2>3
<1>4. CASE active # {}
  <2>1. active' = active /\ queued' = queued \cup waiting /\ runs' = runs
    BY <1>4 DEF Fire
  <2> QED
    BY <1>1, <1>2, <1>4, <2>1
<1> QED
  BY <1>3, <1>4

\* The calls of a run are settled, and the queued ones get a run of their own.
LEMMA FinishMoves ==
    ASSUME DelayerInv, ~ disposed, NEW how \in {"done", "failed"}, Finish(how)
    PROVE  /\ active # {} /\ active' = queued /\ queued' = {}
           /\ UNCHANGED <<calls, waiting>> /\ ~ disposed'
           /\ outcome' = [c \in Calls |-> IF c \in active THEN OutcomeOfRun(how) ELSE outcome[c]]
           /\ queued = {} => runs' = runs
           /\ queued # {} => runs' # runs
<1>1. /\ active # {} /\ queued' = {} /\ UNCHANGED <<calls, waiting>>
  BY DEF Finish
<1>2. ~ disposed'
  BY DEF Finish
<1>3. outcome' = [c \in Calls |-> IF c \in active THEN OutcomeOfRun(how) ELSE outcome[c]]
  BY DEF Finish
<1>4. CASE queued = {}
  <2>1. active' = {} /\ runs' = runs
    BY <1>4 DEF Finish
  <2> QED
    BY <1>1, <1>2, <1>3, <1>4, <2>1
<1>5. CASE queued # {}
  <2>1. active' = queued /\ runs' = runs + 1
    BY <1>5 DEF Finish
  <2>2. runs' # runs
    BY <2>1 DEF DelayerInv, Places
  <2> QED
    BY <1>1, <1>2, <1>3, <1>5, <2>1, <2>2
<1> QED
  BY <1>4, <1>5

\* A run that has begun has taken what was pending.
LEMMA PendingGoes ==
    ASSUME ItemsOK, FlushPending
    PROVE  /\ runs' # runs => request' = Pending /\ inserts' = NoItems /\ deletes' = {}
           /\ runs' = runs => UNCHANGED <<inserts, deletes>>
           /\ runs' = runs /\ active' = active => request' = request
           /\ runs' = runs /\ active' # active => request' = NoRequest
           /\ request' \in Update
BY NothingIsAnUpdate DEF FlushPending, RequestOfRun, Pending, pending, ItemsOK, Update

----------------------------------------------------------------------------
(* The invariant, one kind of step at a time.                              *)

\* The storage begins in it.
LEMMA StorageInitInv == StorageInit => StorageInv
<1> SUFFICES ASSUME StorageInit PROVE StorageInv
  OBVIOUS
<1>1. DelayerInv
  BY DelayerInitInv DEF StorageInit
<1>2. /\ calls = 0 /\ waiting = {} /\ active = {} /\ queued = {} /\ outcome = [c \in Calls |-> "unsettled"]
      /\ ~ disposed
  BY DEF StorageInit, DelayerInit
<1>3. /\ db \in Items /\ cache = db /\ inserts = NoItems /\ deletes = {} /\ request = NoRequest
      /\ closing = "no" /\ waits = 0 /\ told = 0 /\ cacheAt = [c \in 0 .. MaxCalls |-> cache]
  BY DEF StorageInit
<1>4. ItemsOK
  BY <1>3, NothingIsAnUpdate DEF ItemsOK
<1>5. Updated(db, request, Keys) = db /\ [insert |-> inserts, delete |-> deletes] = NoRequest
  BY <1>3, UpdatedByNothing DEF NoRequest
<1>6. NothingSetIsForgotten
  BY <1>3, <1>5, UpdatedByNothing DEF NothingSetIsForgotten
<1>7. Moments
  BY <1>2, <1>3, <1>5, DelayerAssumption DEF Moments, Calls
<1>8. InOrder /\ OutcomesTell /\ RunsTakeAll /\ Answering /\ Closing
  BY <1>2, <1>3 DEF InOrder, OutcomesTell, RunsTakeAll, Answering, Closing, ClosedHoldsCache, HasPending
<1> QED
  BY <1>1, <1>2, <1>4, <1>6, <1>7, <1>8 DEF StorageInv

\* A call of the delayer: a set, a delete, a flush or the last flush of close().
LEMMA CallKeeps ==
    ASSUME StorageInv, NEW items \in Items, DoFlush(items), closing = "no",
           inserts' \in Items, deletes' \in SUBSET Keys, \A k \in deletes' : inserts'[k] = None,
           ~ erroneous => Updated(Updated(db, request, Keys), Pending', Keys) = items,
           UNCHANGED <<request, db, erroneous, waits, told>>,
           \/ UNCHANGED <<closing, closeCall>>
           \/ closing' = "flushing" /\ closeCall' = calls'
    PROVE  StorageInv'
<1>1. Trigger /\ cache' = items /\ cacheAt' = [c \in 0 .. MaxCalls |-> IF c > calls THEN items ELSE cacheAt[c]]
  BY DEF DoFlush
<1>2. DelayerInv'
  BY <1>1, TriggerKeeps DEF StorageInv
<1>3. /\ calls \in Nat /\ calls' = calls + 1 /\ calls' <= MaxCalls /\ MaxCalls \in Nat
      /\ waiting' = waiting \cup {calls'} /\ UNCHANGED <<active, queued, outcome>>
      /\ active \subseteq 1 .. calls /\ queued \subseteq 1 .. calls /\ waiting \subseteq 1 .. calls
  BY <1>1, CallsAreNumbers DEF Trigger, StorageInv, DelayerInv, Places
<1>4. ~ disposed'
  BY <1>1 DEF Trigger, StorageInv
<1>5. InOrder'
  BY <1>3 DEF StorageInv, InOrder
<1>6. OutcomesTell'
  <2>1. /\ \A c \in Calls : c > calls' => outcome'[c] = "unsettled"
        /\ \A c \in active' \cup queued' \cup waiting' : outcome'[c] = "unsettled"
    BY <1>3 DEF StorageInv, OutcomesTell, Calls
  <2>2. ~ erroneous' => \A c \in Calls : outcome'[c] \in {"unsettled", "done"}
    BY <1>3 DEF StorageInv, OutcomesTell
  <2> QED
    BY <2>1, <2>2 DEF OutcomesTell
<1>7. ItemsOK'
  BY <1>1 DEF StorageInv, ItemsOK
<1>8. RunsTakeAll'
  BY <1>3 DEF StorageInv, RunsTakeAll
<1>9. NothingSetIsForgotten'
  BY <1>1 DEF NothingSetIsForgotten, Pending
<1>10. Moments'
  <2>1. cacheAt'[calls'] = cache'
    BY <1>1, <1>3
  <2>2. \A n \in 0 .. calls : cacheAt'[n] = cacheAt[n]
    BY <1>1, <1>3
  <2>3. ASSUME ~ erroneous'
        PROVE  \E n \in 0 .. calls' : \E m \in n .. calls' :
                   /\ db' = cacheAt'[n]
                   /\ Updated(db', request', Keys) = cacheAt'[m]
                   /\ \A c \in 1 .. calls' : outcome'[c] = "done" => c <= n
                   /\ \A c \in active' : c <= m
    <3>0. PICK n \in 0 .. calls : \E m \in n .. calls :
              /\ db = cacheAt[n]
              /\ Updated(db, request, Keys) = cacheAt[m]
              /\ \A c \in 1 .. calls : outcome[c] = "done" => c <= n
              /\ \A c \in active : c <= m
      BY <2>3 DEF StorageInv, Moments
    <3>1. PICK m \in n .. calls :
              /\ db = cacheAt[n]
              /\ Updated(db, request, Keys) = cacheAt[m]
              /\ \A c \in 1 .. calls : outcome[c] = "done" => c <= n
              /\ \A c \in active : c <= m
      BY <3>0
    <3>2. outcome'[calls'] = "unsettled"
      BY <1>3 DEF StorageInv, OutcomesTell, Calls
    <3>3. /\ n \in 0 .. calls' /\ m \in n .. calls'
          /\ db' = cacheAt'[n] /\ Updated(db', request', Keys) = cacheAt'[m]
      BY <1>3, <2>2, <3>1
    <3>4. \A c \in 1 .. calls' : outcome'[c] = "done" => c <= n
      BY <1>3, <3>1, <3>2
    <3> QED
      BY <1>3, <3>1, <3>3, <3>4
  <2> QED
    BY <2>1, <2>3 DEF Moments
<1>11. Closing'
  <2>1. CASE UNCHANGED <<closing, closeCall>>
    BY <2>1 DEF Closing, ClosedHoldsCache
  <2>2. CASE closing' = "flushing" /\ closeCall' = calls'
    <3>1. closeCall' \in Calls /\ outcome'[closeCall'] = "unsettled"
      BY <1>3, <2>2 DEF StorageInv, OutcomesTell, Calls
    <3> QED
      BY <2>2, <3>1 DEF Closing, ClosedHoldsCache
  <2> QED
    BY <2>1, <2>2
<1>12. Answering'
  BY DEF StorageInv, Answering
<1> QED
  BY <1>2, <1>4, <1>5, <1>6, <1>7, <1>8, <1>9, <1>10, <1>11, <1>12 DEF StorageInv

\* The delayer's timer.
LEMMA FlushDueKeeps ==
    ASSUME StorageInv, FlushDue
    PROVE  StorageInv'
<1>1. /\ Fire /\ FlushPending
      /\ UNCHANGED <<cache, db, erroneous, closing, closeCall, waits, told, cacheAt>>
  BY DEF FlushDue
<1>2. DelayerInv'
  BY <1>1, FireKeeps DEF StorageInv
<1>3. /\ waiting # {} /\ waiting' = {} /\ UNCHANGED <<calls, outcome>>
      /\ \/ active = {} /\ queued = {} /\ active' = waiting /\ queued' = {} /\ runs' # runs
         \/ active # {} /\ active' = active /\ queued' = queued \cup waiting /\ runs' = runs
  BY <1>1, FireMoves DEF StorageInv
<1>4. ~ disposed'
  BY <1>1, FireMoves DEF StorageInv
<1>5. /\ runs' # runs => request' = Pending /\ inserts' = NoItems /\ deletes' = {}
      /\ runs' = runs => UNCHANGED <<inserts, deletes>>
      /\ runs' = runs /\ active' = active => request' = request
      /\ request' \in Update
  BY <1>1, PendingGoes DEF StorageInv
<1>6. InOrder' /\ Answering'
  BY <1>1, <1>3 DEF StorageInv, InOrder, Answering
<1>7. OutcomesTell'
  BY <1>1, <1>3 DEF StorageInv, OutcomesTell
<1>8. ItemsOK'
  BY <1>1, <1>5, NothingIsAnUpdate DEF StorageInv, ItemsOK
<1>9. RunsTakeAll'
  BY <1>3, <1>5 DEF StorageInv, RunsTakeAll, HasPending
<1>10. Closing'
  BY <1>1, <1>3 DEF StorageInv, Closing, ClosedHoldsCache
<1>11. NothingSetIsForgotten' /\ Moments'
  <2>1. CASE active # {}
    <3>1. UNCHANGED <<active, calls, outcome, request, inserts, deletes, cache, db, erroneous, cacheAt>>
      BY <1>1, <1>3, <1>5, <2>1
    <3> QED
      BY <3>1 DEF StorageInv, NothingSetIsForgotten, Moments
  <2>2. CASE active = {}
    <3>1. /\ request = NoRequest /\ request' = Pending
          /\ [insert |-> inserts', delete |-> deletes'] = NoRequest
          /\ active' \subseteq 1 .. calls
      BY <1>3, <1>5, <2>2 DEF StorageInv, RunsTakeAll, NoRequest, DelayerInv, Places
    <3>2. Updated(db, request, Keys) = db
      BY <3>1, UpdatedByNothing DEF StorageInv, ItemsOK
    <3>3. ~ erroneous => Updated(db', request', Keys) = cache
      BY <1>1, <3>1, <3>2 DEF StorageInv, NothingSetIsForgotten, Pending
    <3>4. ~ erroneous => Updated(Updated(db', request', Keys), [insert |-> inserts', delete |-> deletes'], Keys) = cache
      BY <3>1, <3>3, UpdatedByNothing DEF StorageInv, ItemsOK
    <3>5. NothingSetIsForgotten'
      BY <1>1, <3>4 DEF NothingSetIsForgotten
    <3>6. ASSUME ~ erroneous
          PROVE  \E n \in 0 .. calls : \E m \in n .. calls :
                     /\ db = cacheAt[n]
                     /\ Updated(db', request', Keys) = cacheAt[m]
                     /\ \A c \in 1 .. calls : outcome[c] = "done" => c <= n
                     /\ \A c \in active' : c <= m
      <4>1. PICK n \in 0 .. calls : db = cacheAt[n] /\ \A c \in 1 .. calls : outcome[c] = "done" => c <= n
        BY <3>6 DEF StorageInv, Moments
      <4>2. calls \in n .. calls /\ \A c \in active' : c <= calls
        BY <3>1, <4>1, CallsAreNumbers DEF StorageInv, DelayerInv
      <4>3. Updated(db', request', Keys) = cacheAt[calls]
        BY <3>3, <3>6 DEF StorageInv, Moments
      <4> QED
        BY <4>1, <4>2, <4>3
    <3>7. Moments'
      BY <1>1, <1>3, <3>6 DEF StorageInv, Moments
    <3> QED
      BY <3>5, <3>7
  <2> QED
    BY <2>1, <2>2
<1> QED
  BY <1>2, <1>4, <1>6, <1>7, <1>8, <1>9, <1>10, <1>11 DEF StorageInv

\* The database answers; what it did matters only while there is no error.
LEMMA AnswerKeeps ==
    ASSUME StorageInv, NEW how \in {"done", "failed"}, Answer(how), db' \in Items,
           \/ erroneous' = TRUE
           \/ how = "done" /\ erroneous' = erroneous /\ db' = Updated(db, request, Keys)
    PROVE  StorageInv'
<1>1. /\ Finish(how) /\ FlushPending
      /\ UNCHANGED <<cache, closing, closeCall, waits, cacheAt>>
      /\ told' \in {told, waits}
  BY DEF Answer
<1>2. DelayerInv'
  BY <1>1, FinishKeeps DEF StorageInv
<1>3. /\ active # {} /\ active' = queued /\ queued' = {} /\ UNCHANGED <<calls, waiting>>
      /\ outcome' = [c \in Calls |-> IF c \in active THEN OutcomeOfRun(how) ELSE outcome[c]]
      /\ queued = {} => runs' = runs
      /\ queued # {} => runs' # runs
  BY <1>1, FinishMoves DEF StorageInv
<1>4. ~ disposed'
  BY <1>1, FinishMoves DEF StorageInv
<1>5. /\ queued # {} => request' = Pending /\ inserts' = NoItems /\ deletes' = {}
      /\ queued = {} => request' = NoRequest /\ UNCHANGED <<inserts, deletes>>
      /\ request' \in Update
  BY <1>1, <1>3, PendingGoes DEF StorageInv
<1>6. /\ active \subseteq 1 .. calls /\ queued \subseteq 1 .. calls /\ waiting \subseteq 1 .. calls
      /\ active \cap queued = {} /\ active \cap waiting = {} /\ queued \cap waiting = {}
      /\ calls \in Nat /\ 1 .. calls \subseteq Calls
  BY CallsAreNumbers DEF StorageInv, DelayerInv, Places
<1>7. InOrder' /\ Answering'
  BY <1>1, <1>3 DEF StorageInv, InOrder, Answering
<1>8. how = "done" => OutcomeOfRun(how) = "done"
  BY DEF OutcomeOfRun
<1>9. OutcomesTell'
  <2>1. \A c \in Calls : c > calls' => outcome'[c] = "unsettled"
    BY <1>3, <1>6 DEF StorageInv, OutcomesTell, Calls
  <2>2. \A c \in active' \cup queued' \cup waiting' : outcome'[c] = "unsettled"
    BY <1>3, <1>6 DEF StorageInv, OutcomesTell
  <2>3. ASSUME ~ erroneous'
        PROVE  \A c \in Calls : outcome'[c] \in {"unsettled", "done"}
    <3>1. how = "done" /\ ~ erroneous
      BY <2>3
    <3> QED
      BY <1>3, <1>8, <3>1 DEF StorageInv, OutcomesTell
  <2> QED
    BY <2>1, <2>2, <2>3 DEF OutcomesTell
<1>10. ItemsOK'
  BY <1>1, <1>5, NothingIsAnUpdate DEF StorageInv, ItemsOK
<1>11. RunsTakeAll'
  BY <1>3, <1>5 DEF StorageInv, RunsTakeAll, HasPending
<1>12. Closing'
  <2>1. closing \notin {"closed", "failed"}
    BY <1>3 DEF StorageInv, Closing
  <2>2. closing \in {"no", "flushing"} /\ (closing # "no" => closeCall = calls /\ closeCall \in Calls)
    BY <2>1 DEF StorageInv, Closing
  <2>3. ASSUME closing # "no", outcome'[closeCall] # "unsettled"
        PROVE  active' = {} /\ queued' = {} /\ waiting' = {}
    <3>1. outcome[closeCall] = "unsettled"
      BY <1>3, <2>2, <2>3 DEF StorageInv, Closing
    <3>2. calls \in active
      BY <1>3, <2>2, <2>3, <3>1
    <3>3. queued = {} /\ waiting = {}
      BY <1>6, <3>2 DEF StorageInv, InOrder
    <3> QED
      BY <1>3, <3>3
  <2> QED
    BY <1>1, <1>3, <2>2, <2>3 DEF Closing, ClosedHoldsCache
<1>13. ASSUME ~ erroneous'
       PROVE  /\ ~ erroneous /\ db' = Updated(db, request, Keys)
              /\ Updated(db', Pending, Keys) = cache
  BY <1>13 DEF StorageInv, NothingSetIsForgotten, Pending
<1>14. queued # {} => [insert |-> inserts', delete |-> deletes'] = NoRequest
  BY <1>5 DEF NoRequest
<1>15. NothingSetIsForgotten'
  <2>1. ASSUME ~ erroneous', queued = {}
        PROVE  Updated(Updated(db', request', Keys), [insert |-> inserts', delete |-> deletes'], Keys) = cache
    <3>1. Updated(db', request', Keys) = db'
      BY <1>5, <2>1, UpdatedByNothing
    <3> QED
      BY <1>5, <1>13, <2>1, <3>1 DEF Pending
  <2>2. ASSUME ~ erroneous', queued # {}
        PROVE  Updated(Updated(db', request', Keys), [insert |-> inserts', delete |-> deletes'], Keys) = cache
    <3>1. Updated(db', request', Keys) = cache
      BY <1>5, <1>13, <2>2
    <3> QED
      BY <1>14, <2>2, <3>1, UpdatedByNothing DEF StorageInv, ItemsOK
  <2> QED
    BY <1>1, <2>1, <2>2 DEF NothingSetIsForgotten
<1>16. Moments'
  <2>1. ASSUME ~ erroneous'
        PROVE  \E n \in 0 .. calls : \E m \in n .. calls :
                   /\ db' = cacheAt[n]
                   /\ Updated(db', request', Keys) = cacheAt[m]
                   /\ \A c \in 1 .. calls : outcome'[c] = "done" => c <= n
                   /\ \A c \in active' : c <= m
    <3>1. PICK l \in 0 .. calls : \E n \in l .. calls :
              /\ db = cacheAt[l]
              /\ Updated(db, request, Keys) = cacheAt[n]
              /\ \A c \in 1 .. calls : outcome[c] = "done" => c <= l
              /\ \A c \in active : c <= n
      BY <1>13, <2>1 DEF StorageInv, Moments
    <3>2. PICK n \in l .. calls :
              /\ Updated(db, request, Keys) = cacheAt[n]
              /\ \A c \in 1 .. calls : outcome[c] = "done" => c <= l
              /\ \A c \in active : c <= n
      BY <3>1
    <3>3. n \in 0 .. calls /\ n \in n .. calls /\ calls \in n .. calls
      BY <1>6, <3>2
    <3>4. db' = cacheAt[n]
      BY <1>13, <2>1, <3>2
    <3>5. ASSUME NEW c \in 1 .. calls, outcome'[c] = "done"
          PROVE  c <= n
      <4>1. CASE c \in active
        BY <3>2, <4>1
      <4>2. CASE c \notin active
        BY <1>3, <1>6, <3>2, <3>3, <3>5, <4>2
      <4> QED
        BY <4>1, <4>2
    <3>6. CASE queued = {}
      <4>1. Updated(db', request', Keys) = cacheAt[n]
        BY <1>5, <3>4, <3>6, UpdatedByNothing
      <4>2. \A c \in active' : c <= n
        BY <1>3, <3>6
      <4> QED
        BY <3>3, <3>4, <3>5, <4>1, <4>2
    <3>7. CASE queued # {}
      <4>1. Updated(db', request', Keys) = cacheAt[calls]
        BY <1>5, <1>13, <2>1, <3>7 DEF StorageInv, Moments
      <4>2. \A c \in active' : c <= calls
        BY <1>3, <1>6
      <4> QED
        BY <3>3, <3>4, <3>5, <4>1, <4>2
    <3> QED
      BY <3>6, <3>7
  <2> QED
    BY <1>1, <1>3, <2>1 DEF StorageInv, Moments
<1> QED
  BY <1>2, <1>4, <1>7, <1>9, <1>10, <1>11, <1>12, <1>15, <1>16 DEF StorageInv

\* The database closes, with its items or after writing them all anew.
LEMMA CloseKeeps ==
    ASSUME StorageInv, DatabaseCloses
    PROVE  StorageInv'
<1>1. /\ LastFlushEnds /\ closing' \in {"closed", "failed"}
      /\ UNCHANGED <<calls, active, queued, waiting, outcome, runs, disposed, cache, inserts, deletes,
                     request, closeCall, waits, told, cacheAt>>
  BY DEF DatabaseCloses, CloseHealthy, CloseRecovering, RecoveryFails, delayerVars, delayer, history
<1>2. DelayerInv'
  BY DEF DatabaseCloses, CloseHealthy, CloseRecovering, RecoveryFails, delayerVars, delayer, history,
         StorageInv, DelayerInv, Places, Flags, Progress, AnswerIsFresh
<1>3. db' \in Items
  BY DEF DatabaseCloses, CloseHealthy, CloseRecovering, RecoveryFails, StorageInv, ItemsOK, Items
<1>4. /\ ~ disposed' /\ InOrder' /\ RunsTakeAll' /\ Answering' /\ ItemsOK'
  BY <1>1, <1>3 DEF StorageInv, InOrder, RunsTakeAll, HasPending, Answering, ItemsOK
<1>5. \/ erroneous' = TRUE
      \/ erroneous' = erroneous /\ db' = db
  BY DEF DatabaseCloses, CloseHealthy, CloseRecovering, RecoveryFails
<1>6. OutcomesTell' /\ NothingSetIsForgotten' /\ Moments'
  BY <1>1, <1>5 DEF StorageInv, OutcomesTell, NothingSetIsForgotten, Moments
<1>7. closeCall = calls /\ closeCall \in Calls /\ outcome[closeCall] \notin {"unsettled", "abandoned"}
  BY <1>1 DEF LastFlushEnds, StorageInv, Closing
<1>8. closing' = "closed" => db' = cache
  <2>1. CASE CloseHealthy
    <3>1. ~ erroneous /\ db' = db
      BY <2>1 DEF CloseHealthy
    <3>2. outcome[calls] = "done" /\ calls \in 1 .. calls
      BY <1>7, <3>1 DEF StorageInv, OutcomesTell, Calls
    <3>3. PICK n \in 0 .. calls : db = cacheAt[n] /\ calls <= n
      BY <3>1, <3>2 DEF StorageInv, Moments
    <3>4. n = calls
      BY <3>3, CallsAreNumbers DEF StorageInv, DelayerInv
    <3> QED
      BY <3>1, <3>3, <3>4 DEF StorageInv, Moments
  <2>2. CASE CloseRecovering
    BY <2>2 DEF CloseRecovering
  <2>3. CASE RecoveryFails
    BY <2>3 DEF RecoveryFails
  <2> QED
    BY <2>1, <2>2, <2>3 DEF DatabaseCloses
<1>9. Closing'
  BY <1>1, <1>7, <1>8 DEF StorageInv, Closing, ClosedHoldsCache, LastFlushEnds
<1> QED
  BY <1>2, <1>4, <1>6, <1>9 DEF StorageInv

\* Nothing but the callers of whenFlushed changes.
LEMMA WhenFlushedKeeps ==
    ASSUME StorageInv, WhenFlushed \/ UNCHANGED storageVars
    PROVE  StorageInv'
<1>1. UNCHANGED <<delayerVars, cache, inserts, deletes, request, db, erroneous, closing, closeCall, cacheAt>>
  BY DEF WhenFlushed, storageVars, storage
<1>2. DelayerInv' /\ ~ disposed'
  BY <1>1 DEF delayerVars, delayer, history, StorageInv, DelayerInv, Places, Flags, Progress, AnswerIsFresh
<1>3. UNCHANGED <<calls, active, queued, waiting, outcome>>
  BY <1>1 DEF delayerVars, delayer, history
<1>4. Answering'
  BY DEF WhenFlushed, storageVars, storage, StorageInv, Answering
<1>5. /\ InOrder' /\ OutcomesTell' /\ ItemsOK' /\ RunsTakeAll'
      /\ NothingSetIsForgotten' /\ Moments' /\ Closing'
  BY <1>1, <1>3 DEF StorageInv, InOrder, OutcomesTell, ItemsOK, RunsTakeAll, HasPending,
                    NothingSetIsForgotten, Moments, Closing, ClosedHoldsCache
<1> QED
  BY <1>2, <1>4, <1>5 DEF StorageInv

\* A set, a delete, a flush and the last one are calls, which read as they should.
LEMMA CallersKeep ==
    ASSUME StorageInv,
           \/ \E k \in Keys, v \in Values : Set(k, v)
           \/ \E k \in Keys : Delete(k)
           \/ Flush
           \/ Close
    PROVE  StorageInv'
<1>1. /\ inserts \in Items /\ deletes \in SUBSET Keys /\ cache \in Items
      /\ \A k \in deletes : inserts[k] = None
      /\ Updated(db, request, Keys) \in Items
  BY UpdatedIsItems DEF StorageInv, ItemsOK
<1>2. ~ erroneous => Updated(Updated(db, request, Keys), [insert |-> inserts, delete |-> deletes], Keys) = cache
  BY DEF StorageInv, NothingSetIsForgotten
<1>3. ASSUME NEW k \in Keys, NEW v \in Values, Set(k, v)
      PROVE  StorageInv'
  <2> DEFINE items == [cache EXCEPT ![k] = v]
  <2>1. /\ DoFlush(items) /\ closing = "no"
        /\ inserts' = [inserts EXCEPT ![k] = v] /\ deletes' = deletes \ {k}
        /\ UNCHANGED <<request, db, erroneous, waits, told, closing, closeCall>>
    BY <1>3 DEF Set
  <2>2. items \in Items /\ inserts' \in Items /\ deletes' \in SUBSET Keys /\ \A l \in deletes' : inserts'[l] = None
    BY <1>1, <2>1 DEF Items
  <2>3. ~ erroneous => Updated(Updated(db, request, Keys), Pending', Keys) = items
    BY <1>1, <1>2, <2>1, UpdatedBySet DEF Pending
  <2> QED
    BY <2>1, <2>2, <2>3, CallKeeps
<1>4. ASSUME NEW k \in Keys, Delete(k)
      PROVE  StorageInv'
  <2> DEFINE items == [cache EXCEPT ![k] = None]
  <2>1. /\ DoFlush(items) /\ closing = "no"
        /\ inserts' = [inserts EXCEPT ![k] = None] /\ deletes' = deletes \cup {k}
        /\ UNCHANGED <<request, db, erroneous, waits, told, closing, closeCall>>
    BY <1>4 DEF Delete
  <2>2. items \in Items /\ inserts' \in Items /\ deletes' \in SUBSET Keys /\ \A l \in deletes' : inserts'[l] = None
    BY <1>1, <2>1 DEF Items
  <2>3. ~ erroneous => Updated(Updated(db, request, Keys), Pending', Keys) = items
    BY <1>1, <1>2, <2>1, UpdatedByDelete DEF Pending
  <2> QED
    BY <2>1, <2>2, <2>3, CallKeeps
<1>5. CASE Flush \/ Close
  <2>1. /\ DoFlush(cache) /\ closing = "no"
        /\ UNCHANGED <<inserts, deletes, request, db, erroneous, waits, told>>
        /\ \/ UNCHANGED <<closing, closeCall>>
           \/ closing' = "flushing" /\ closeCall' = calls'
    BY <1>5 DEF Flush, Close
  <2>2. ~ erroneous => Updated(Updated(db, request, Keys), Pending', Keys) = cache
    BY <1>2, <2>1 DEF Pending
  <2> QED
    BY <1>1, <2>1, <2>2, CallKeeps
<1> QED
  BY <1>3, <1>4, <1>5

\* The database, however it answers.
LEMMA DatabaseKeeps ==
    ASSUME StorageInv, DatabaseAnswers
    PROVE  StorageInv'
<1>1. db \in Items /\ request \in Update
  BY DEF StorageInv, ItemsOK
<1>2. CASE UpdateItems
  <2>1. Answer("done") /\ db' = Updated(db, request, Keys) /\ erroneous' = erroneous
    BY <1>2 DEF UpdateItems
  <2>2. db' \in Items
    BY <1>1, <2>1, UpdatedIsItems
  <2> QED
    BY <2>1, <2>2, AnswerKeeps
<1>3. CASE UpdatePartly
  <2>1. Answer("done") /\ erroneous' = TRUE /\ \E written \in SUBSET Keys : db' = Updated(db, request, written)
    BY <1>3 DEF UpdatePartly
  <2>2. db' \in Items
    BY <1>1, <2>1, UpdatedIsItems
  <2> QED
    BY <2>1, <2>2, AnswerKeeps
<1>4. CASE UpdateFails
  <2>1. Answer("failed") /\ erroneous' = TRUE /\ db' = db
    BY <1>4 DEF UpdateFails
  <2> QED
    BY <1>1, <2>1, AnswerKeeps
<1> QED
  BY <1>2, <1>3, <1>4 DEF DatabaseAnswers

\* Every step of the storage keeps the invariant.
LEMMA StorageStep == StorageInv /\ [StorageNext]_storageVars => StorageInv'
BY CallersKeep, FlushDueKeeps, DatabaseKeeps, CloseKeeps, WhenFlushedKeeps DEF StorageNext

\* The invariant holds in every state.
LEMMA StorageInvariant == StorageSpec => []StorageInv
BY StorageInitInv, StorageStep, PTL DEF StorageSpec

\* Everything but the last moment of closing, in one: what is set is in the
\* database, in the update under way or pending, and the database is the cache
\* of one moment, for any keys, values, calls, failures and waits.
THEOREM DatabaseFollows == StorageSpec => []DatabaseFollowsTheCache
<1>1. ASSUME StorageInv
      PROVE  DelayerTypeOK /\ StorageTypeOK
  <2>1. DelayerTypeOK /\ (armed <=> waiting # {})
    BY <1>1, Halves DEF StorageInv, DelayerInv, Flags
  <2>2. HasPending => armed \/ queued # {}
    BY <1>1, <2>1 DEF StorageInv, RunsTakeAll
  <2>3. StorageTypeOK
    BY <1>1, <2>2 DEF StorageInv, ItemsOK, RunsTakeAll, Answering, StorageTypeOK
  <2> QED
    BY <2>1, <2>3
<1>2. StorageInv => DatabaseIsAMoment
  BY DEF StorageInv, Moments, DatabaseIsAMoment
<1>3. StorageInv => DatabaseFollowsTheCache
  BY <1>1, <1>2 DEF StorageInv, DatabaseFollowsTheCache
<1> QED
  BY <1>3, StorageInvariant, PTL

\* A storage that was closed left all its items in the database, whatever failed
\* before.
THEOREM ClosedIsKept == StorageSpec => []ClosedHoldsCache
<1>1. StorageInv => ClosedHoldsCache
  BY DEF StorageInv, Closing
<1> QED
  BY <1>1, StorageInvariant, PTL

\* The storage implements its delayer: it drives it through the delayer's own
\* operations only, from the delayer's initial state.
THEOREM StorageDrivesItsDelayer == StorageSpec => DelayerSpec
<1>1. StorageInit => DelayerInit
  BY DEF StorageInit
<1> QED
  BY <1>1, StorageMovesDelayer, PTL DEF StorageSpec, DelayerSpec

\* Hence the storage's calls, too, are answered by a run that began after them.
THEOREM StorageAnswersAreFresh == StorageSpec => []AnswerIsFresh
<1> QED
  BY StorageDrivesItsDelayer, AnswersAreFresh, PTL
=============================================================================
