------------------------------- MODULE Storage ------------------------------
(***************************************************************************)
(* The key-value storage of src/vs/base/parts/storage: the Storage class   *)
(* of common/storage.ts, which keeps every item in a cache, collects what  *)
(* changed and writes it through a ThrottledDelayer, and the SQLite        *)
(* database of node/storage.ts behind it.                                  *)
(*                                                                         *)
(* The model begins once init() has filled the cache; callers wait for it. *)
(* A run of the delayer is a call of flushPending, and ends when the       *)
(* database answers.  A run that finds nothing pending ends in the turn it *)
(* begins in; here it may take longer, which only adds behaviours.         *)
(***************************************************************************)
EXTENDS ThrottledDelayer

CONSTANTS
    Keys,       \* keys of the items
    Values,     \* their values
    None,       \* the value of a key without an item
    MayFail,    \* statements, transactions and recoveries may fail
    MaxWaits    \* bound: calls of whenFlushed()

ASSUME StorageAssumption ==
    /\ None \notin Values
    /\ MayFail \in BOOLEAN
    /\ MaxWaits \in Nat

VARIABLES
    cache,      \* the items as the program sees them
    inserts,    \* pendingInserts
    deletes,    \* pendingDeletes
    request,    \* the update the database is at work on
    db,         \* the items in the database
    erroneous,  \* the connection has seen an error
    closing,    \* how far close() is
    closeCall,  \* its call of trigger(), 0 before
    waits,      \* calls of whenFlushed()
    told,       \* those whose promise is resolved
    cacheAt     \* history: the cache as each call left it

pending == <<inserts, deletes>>
storage == <<cache, inserts, deletes, request, db, erroneous, closing, closeCall, waits, told, cacheAt>>
storageVars == <<delayerVars, storage>>

Items == [Keys -> Values \cup {None}]
NoItems == [k \in Keys |-> None]
NoRequest == [insert |-> NoItems, delete |-> {}]

HasPending == inserts # NoItems \/ deletes # {}

\* The items after an update of which only the given keys were written: the
\* statements insert first and delete afterwards.
Updated(items, update, keys) ==
    [k \in Keys |-> IF k \notin keys THEN items[k]
                    ELSE IF k \in update.delete THEN None
                    ELSE IF update.insert[k] # None THEN update.insert[k]
                    ELSE items[k]]

StorageInit ==
    /\ DelayerInit
    /\ db \in Items
    /\ cache = db
    /\ inserts = NoItems /\ deletes = {} /\ request = NoRequest
    /\ erroneous = FALSE /\ closing = "no" /\ closeCall = 0
    /\ waits = 0 /\ told = 0
    /\ cacheAt = [c \in 0 .. MaxCalls |-> cache]

\* doFlush: a call of the delayer, by one that leaves the cache like this.
DoFlush(items) ==
    /\ Trigger
    /\ cache' = items
    /\ cacheAt' = [c \in 0 .. MaxCalls |-> IF c > calls THEN items ELSE cacheAt[c]]

\* set: a value that the cache does not hold yet.
Set(k, v) ==
    /\ closing = "no" /\ cache[k] # v
    /\ inserts' = [inserts EXCEPT ![k] = v]
    /\ deletes' = deletes \ {k}
    /\ DoFlush([cache EXCEPT ![k] = v])
    /\ UNCHANGED <<request, db, erroneous, closing, closeCall, waits, told>>

\* delete: a key that the cache holds.
Delete(k) ==
    /\ closing = "no" /\ cache[k] # None
    /\ inserts' = [inserts EXCEPT ![k] = None]
    /\ deletes' = deletes \cup {k}
    /\ DoFlush([cache EXCEPT ![k] = None])
    /\ UNCHANGED <<request, db, erroneous, closing, closeCall, waits, told>>

\* flush, and optimize, which flushes first.
Flush ==
    /\ closing = "no"
    /\ DoFlush(cache)
    /\ UNCHANGED <<inserts, deletes, request, db, erroneous, closing, closeCall, waits, told>>

\* whenFlushed: answered at once when nothing is pending.
WhenFlushed ==
    /\ waits < MaxWaits
    /\ waits' = waits + 1
    /\ told' = IF HasPending THEN told ELSE waits'
    /\ UNCHANGED <<delayerVars, cache, inserts, deletes, request, db, erroneous, closing, closeCall, cacheAt>>

\* The request of a run, as long as it lasts.
RequestOfRun ==
    IF runs' # runs THEN [insert |-> inserts, delete |-> deletes]
    ELSE IF active' = active THEN request
    ELSE NoRequest

\* flushPending: the run that has just begun takes all that is pending.
FlushPending ==
    /\ request' = RequestOfRun
    /\ IF runs' # runs THEN inserts' = NoItems /\ deletes' = {} ELSE UNCHANGED pending

\* The delayer's timer fires.
FlushDue ==
    /\ Fire
    /\ FlushPending
    /\ UNCHANGED <<cache, db, erroneous, closing, closeCall, waits, told, cacheAt>>

\* Fault: the callers of whenFlushed are told when an update succeeds.
AnswerTellingOnSuccess(how) ==
    /\ Finish(how)
    /\ FlushPending
    /\ told' = IF request = NoRequest \/ HasPending \/ how = "failed" THEN told ELSE waits
    /\ UNCHANGED <<cache, closing, closeCall, waits, cacheAt>>

\* The database answers: what is next to do begins, and the callers of
\* whenFlushed are told once nothing is pending.
Answer(how) ==
    /\ Finish(how)
    /\ FlushPending
    /\ told' = IF request = NoRequest \/ HasPending THEN told ELSE waits
    /\ UNCHANGED <<cache, closing, closeCall, waits, cacheAt>>

\* updateItems, as a transaction that commits.
UpdateItems ==
    /\ Answer("done")
    /\ db' = Updated(db, request, Keys)
    /\ UNCHANGED erroneous

\* Fault: the error of a statement is not noted.
UpdatePartlyUnnoted ==
    /\ MayFail /\ request # NoRequest
    /\ Answer("done")
    /\ \E written \in SUBSET Keys : db' = Updated(db, request, written)
    /\ UNCHANGED erroneous

\* A statement fails and the transaction commits without it: the update is
\* answered like any other, the error noted.
UpdatePartly ==
    /\ MayFail /\ request # NoRequest
    /\ Answer("done")
    /\ \E written \in SUBSET Keys : db' = Updated(db, request, written)
    /\ erroneous' = TRUE

\* The transaction does not commit.
UpdateFails ==
    /\ MayFail /\ request # NoRequest
    /\ Answer("failed")
    /\ erroneous' = TRUE
    /\ UNCHANGED db

\* close: no more changes; a last flush.
Close ==
    /\ closing = "no"
    /\ closing' = "flushing"
    /\ DoFlush(cache)
    /\ closeCall' = calls'
    /\ UNCHANGED <<inserts, deletes, request, db, erroneous, waits, told>>

\* The last flush has come to an end, of whatever kind.
LastFlushEnds == closing = "flushing" /\ outcome[closeCall] \notin {"unsettled", "abandoned"}

\* database.close: without an error there is only a backup to make.
CloseHealthy ==
    /\ LastFlushEnds /\ ~ erroneous
    /\ closing' = "closed"
    /\ UNCHANGED <<delayerVars, cache, inserts, deletes, request, db, erroneous, closeCall, waits, told, cacheAt>>

\* Fault: an erroneous database is closed like any other.
CloseAsItIs ==
    /\ LastFlushEnds /\ (erroneous \/ MayFail)
    /\ closing' = "closed" /\ erroneous' = TRUE
    /\ UNCHANGED <<delayerVars, cache, inserts, deletes, request, db, closeCall, waits, told, cacheAt>>

\* With an error, be it of closing itself, the database is made anew from the
\* cache.
CloseRecovering ==
    /\ LastFlushEnds /\ (erroneous \/ MayFail)
    /\ closing' = "closed" /\ erroneous' = TRUE
    /\ db' = cache
    /\ UNCHANGED <<delayerVars, cache, inserts, deletes, request, closeCall, waits, told, cacheAt>>

\* ... which may fail too: at removing the file, or once it is gone.
RecoveryFails ==
    /\ LastFlushEnds /\ MayFail
    /\ closing' = "failed" /\ erroneous' = TRUE
    /\ \/ UNCHANGED db
       \/ \E written \in SUBSET Keys : db' = [k \in Keys |-> IF k \in written THEN cache[k] ELSE None]
    /\ UNCHANGED <<delayerVars, cache, inserts, deletes, request, closeCall, waits, told, cacheAt>>

DatabaseAnswers == UpdateItems \/ UpdatePartly \/ UpdateFails
DatabaseCloses == CloseHealthy \/ CloseRecovering \/ RecoveryFails

StorageNext ==
    \/ \E k \in Keys, v \in Values : Set(k, v)
    \/ \E k \in Keys : Delete(k)
    \/ Flush
    \/ WhenFlushed
    \/ FlushDue
    \/ DatabaseAnswers
    \/ Close
    \/ DatabaseCloses

StorageSpec == StorageInit /\ [][StorageNext]_storageVars

\* Timers fire, the database answers.
StorageFairSpec ==
    /\ StorageSpec
    /\ WF_storageVars(FlushDue)
    /\ WF_storageVars(DatabaseAnswers)
    /\ WF_storageVars(DatabaseCloses)

----------------------------------------------------------------------------
(* Properties.                                                             *)

\* A key is never both to be inserted and to be deleted, a request is only
\* out while a run is under way, and what is pending has something that will
\* take it along.
StorageTypeOK ==
    /\ {cache, db, inserts} \subseteq Items
    /\ \A k \in deletes : inserts[k] = None
    /\ active = {} => request = NoRequest
    /\ told \in 0 .. waits
    /\ HasPending => armed \/ queued # {}

\* common/storage.ts set, delete and flushPending: while the database has
\* seen no error, what it holds, with the update it is at work on and what is
\* pending, is what the program reads.
NothingSetIsForgotten ==
    ~ erroneous =>
        Updated(Updated(db, request, Keys), [insert |-> inserts, delete |-> deletes], Keys) = cache

\* The database never mixes old and new items -- wherever a crash stops the
\* program it finds the cache of one moment again -- and a set, delete or
\* flush whose promise was resolved is part of it.
DatabaseIsAMoment ==
    ~ erroneous =>
        \E n \in 0 .. calls : /\ db = cacheAt[n]
                              /\ \A c \in 1 .. calls : outcome[c] = "done" => c <= n

\* node/storage.ts doClose: a storage that was closed left all its items in
\* the database, whatever went wrong before.
ClosedHoldsCache == closing = "closed" => db = cache

\* Whoever waits in whenFlushed is told in the end, failures or not.
WaitersAreTold == \A n \in 1 .. MaxWaits : waits >= n ~> told >= n

\* The database is closed in the end, or the last flush was left to a queued
\* run that failed.
ClosesUnlessAbandoned ==
    closing = "flushing" ~> closing \in {"closed", "failed"} \/ closeCall \in Abandoned

\* common/storage.ts: nothing that was set is left behind, and what has come to
\* the database is the cache of one moment, wherever a crash cuts it short.
DatabaseFollowsTheCache ==
    DelayerTypeOK /\ StorageTypeOK /\ NothingSetIsForgotten /\ DatabaseIsAMoment

\* Whoever waits for the storage is told in the end, but for the callers of a
\* queued run that failed: in whenFlushed, of a run, and of close.
CallersAreTold == WaitersAreTold /\ EveryCallIsAnswered /\ ClosesUnlessAbandoned
=============================================================================
