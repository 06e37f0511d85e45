----------------------------- MODULE GraphStore -----------------------------
(***************************************************************************)
(* Saving and loading the memory graph of packages/memory-graph:           *)
(* saveGraph, loadGraph and the autosave timer of src/engine.ts over the   *)
(* adapters of src/persistence (files, localStorage, IndexedDB), with the  *)
(* migrations of src/migrations.                                           *)
(*                                                                         *)
(* A graph is its id, the version of its schema and where it has dates: of *)
(* its own, the time of the last interaction, in its nodes and             *)
(* relationships.  JSON turns dates into strings, and the schema accepts   *)
(* dates only.  What else a graph says is known by the stamp of its save.  *)
(***************************************************************************)
EXTENDS Naturals, Sequences, SequencesExt

CONSTANTS
    Backups,        \* enableBackups
    MaxSaves,       \* bound: saves, restores and imports asked for
    MaxSessions,    \* bound: engines started, one after the other
    MaxInFlight,    \* bound: operations of the adapter not yet answered
    Texts           \* graphs of texts exported earlier, or elsewhere

\* Graph 0 may have been saved by another version; Newest asks load for the
\* graph updated last.
Ids == 0 .. MaxSessions
Newest == MaxSessions + 1
Graph == [id : Ids, version : {"old", "current", "newer"}, told : BOOLEAN, elements : BOOLEAN]

ASSUME StoreAssumption ==
    /\ Backups \in BOOLEAN
    /\ {MaxSaves, MaxSessions, MaxInFlight} \subseteq Nat
    /\ MaxSessions > 0
    /\ Texts \subseteq Graph

VARIABLES
    adapter,    \* "file", "local" or "indexed", for good
    graph,      \* the graph of the engine
    store,      \* what the storage holds, by key
    backups,    \* the copies made, in order
    inFlight,   \* operations of the adapter that are not answered, in order
    saves,      \* how many saves and imports were asked for
    clock,      \* how many times something was put: the order of updatedAt
    sessions,   \* how many engines there have been
    acked,      \* history: stamp of the newest save of a graph answered true, from
                \* its commit on; 0 once the code has put the graph at risk
    overlapped  \* history: a file was saved while it was being saved

vars == <<adapter, graph, store, backups, inFlight, saves, clock, sessions, acked, overlapped>>

GraphOf(id, version, told, elements) ==
    [id |-> id, version |-> version, told |-> told, elements |-> elements]

\* The key a graph is kept under: localStorage has one for all graphs.
Key(id) == IF adapter = "local" THEN 0 ELSE id

\* The dates of a graph, and those its stored form holds as strings.
Dates(g) ==
    {"own"} \cup (IF g.told THEN {"told"} ELSE {}) \cup (IF g.elements THEN {"elements"} ELSE {})

StringsOf(g) == IF adapter = "indexed" THEN {} ELSE Dates(g)

\* Which strings load, and importGraph, turn into dates again.
Revived == IF adapter = "local" THEN {"own", "told"} ELSE {"own"}
RevivedByImport == IF adapter = "indexed" THEN {} ELSE Revived

\* What a key holds: a whole graph, or a file that is empty or a mixture.
Kept(state, g) == [state |-> state, graph |-> g, strings |-> StringsOf(g), stamp |-> clock + 1]

\* Whether JSON.parse and the schema accept it.
Loads(kept) == kept.state = "whole" /\ kept.strings \subseteq Revived

\* A new engine, with the default metadata or the caller's, over a storage
\* that is empty or holds a graph of another version.
Init ==
    /\ adapter \in {"file", "local", "indexed"}
    /\ graph \in {GraphOf(1, "current", told, FALSE) : told \in BOOLEAN}
    /\ store \in {[k \in {} |-> k]} \cup
           {[k \in {0} |-> [state |-> "whole", graph |-> g, strings |-> StringsOf(g), stamp |-> 0]] :
               g \in {GraphOf(0, v, TRUE, v = "newer") : v \in {"old", "newer"}}}
    /\ backups = <<>> /\ inFlight = <<>>
    /\ saves = 0 /\ clock = 0 /\ sessions = 1
    /\ acked = [id \in Ids |-> 0]
    /\ overlapped = FALSE

----------------------------------------------------------------------------
(* The engine.                                                             *)

\* A node or relationship is added, which also notes the interaction.
Edit ==
    /\ graph' = [graph EXCEPT !.told = TRUE, !.elements = TRUE]
    /\ UNCHANGED <<adapter, store, backups, inFlight, saves, clock, sessions, acked, overlapped>>

\* The stamp from which on a load asked for now must find a graph: that of a save
\* answered by now.
DeleteAsked(id) == \E i \in DOMAIN inFlight : inFlight[i].kind = "delete" /\ inFlight[i].id = id
Uncommitted == {i \in DOMAIN inFlight : inFlight[i].pc = "put"}
Since(id) ==
    LET awaited == {j \in Ids : id \in {j, Newest} /\ ~ DeleteAsked(j)}
        stamps == {acked[j] : j \in awaited} \cup
                  {inFlight[i].found.stamp : i \in {k \in Uncommitted : inFlight[k].id \in awaited}}
    IN  CHOOSE s \in stamps \cup {0} : \A t \in stamps : t <= s

\* An operation of the adapter; only a save has a graph, and a load ends up
\* with what it found.
Nothing == [state |-> "none"]
NoGraph == GraphOf(0, "current", FALSE, FALSE)
Operation(kind, id, g, backup) ==
    [kind |-> kind, id |-> id, graph |-> g, backup |-> backup, pc |-> "asked",
     found |-> Nothing, since |-> Since(id)]

Ask(op) == Len(inFlight) < MaxInFlight /\ inFlight' = Append(inFlight, op)
Answered(i) == inFlight' = RemoveAt(inFlight, i)

\* A save of g begins: the graph as it is now is what will be written.
AskSave(g, backup) ==
    /\ saves < MaxSaves
    /\ saves' = saves + 1
    /\ overlapped' = (overlapped \/ (adapter = "file" /\ \E i \in DOMAIN inFlight : inFlight[i].kind = "save" /\ inFlight[i].id = g.id))
    /\ Ask(Operation("save", g.id, g, backup))

\* saveGraph, by a caller or the autosave timer.
SaveGraph ==
    /\ adapter # "local"
    /\ AskSave(graph, Backups)
    /\ UNCHANGED <<adapter, graph, store, backups, clock, sessions, acked>>

\* loadGraph(id), or loadGraph() for the newest; localStorage has one graph,
\* is read at once and answers null for another id.
LoadGraph ==
    /\ \E id \in Ids \cup {Newest} :
           LET op == Operation("load", id, NoGraph, FALSE)
               there == 0 \in DOMAIN store /\ id \in {store[0].graph.id, Newest}
           IN  IF adapter = "local"
               THEN Ask([op EXCEPT !.pc = "read", !.found = IF there THEN store[0] ELSE Nothing])
               ELSE Ask(op)
    /\ UNCHANGED <<adapter, graph, store, backups, saves, clock, sessions, acked, overlapped>>

\* The migrations: one from the old version; a graph of another version has
\* no path, which makes loadGraph answer false.
Migrated(g) == [g EXCEPT !.version = IF @ = "old" THEN "current" ELSE @]

\* loadGraph once the adapter has answered: the graph found replaces the one
\* the engine has by then, and the statistics note the interaction.
ApplyLoad ==
    \E i \in DOMAIN inFlight :
        /\ inFlight[i].pc = "read"
        /\ Answered(i)
        /\ LET found == inFlight[i].found
           IN  IF found # Nothing /\ Loads(found) /\ found.graph.version # "newer"
               THEN graph' = [Migrated(found.graph) EXCEPT !.told = TRUE]
               ELSE UNCHANGED graph
        /\ UNCHANGED <<adapter, store, backups, saves, clock, sessions, acked, overlapped>>

\* The process or page ends with what it had asked for, and another begins.
Restart ==
    /\ sessions < MaxSessions
    /\ sessions' = sessions + 1
    /\ graph' \in {GraphOf(sessions', "current", told, FALSE) : told \in BOOLEAN}
    /\ inFlight' = <<>>
    /\ UNCHANGED <<adapter, store, backups, saves, clock, acked, overlapped>>

----------------------------------------------------------------------------
(* The adapters.                                                           *)

\* A graph is written under its key, its updatedAt the time it is.
Put(kept) ==
    /\ clock' = clock + 1
    /\ store' = [k \in DOMAIN store \cup {Key(kept.graph.id)} |->
                    IF k = Key(kept.graph.id) THEN kept ELSE store[k]]

\* A save is answered true; graphs are put at risk, and nothing is promised of
\* them from then on.
Ack(id, stamp) == acked' = [acked EXCEPT ![id] = stamp]
Risk(ids) == acked' = [id \in Ids |-> IF id \in ids THEN 0 ELSE acked[id]]

\* The place of a new copy among those beside the graphs: behind the others or,
\* in the millisecond of the last one, whose name it then has, instead of that,
\* which may have been the only copy of its graph.
Places(kept) ==
    {Len(backups) + 1} \cup
    {n \in {Len(backups)} : n > 0 /\ (adapter = "local" \/ backups[n].graph.id = kept.graph.id)}
CopiedTo(n, kept) == backups' = [b \in 1 .. n |-> IF b = n THEN kept ELSE backups[b]]
LostAt(n, kept) ==
    IF n > Len(backups) \/ (kept.state = "whole" /\ kept.graph.id = backups[n].graph.id)
    THEN {}
    ELSE {backups[n].graph.id}

\* localStorage has a new graph in the place of the one it had; some graphs are
\* at risk by that.
Slot == {store[k].graph.id : k \in DOMAIN store}
LocalPut(g, lost) ==
    /\ Put(Kept("whole", g))
    /\ acked' = [id \in Ids |-> IF id = g.id THEN clock' ELSE IF id \in lost THEN 0 ELSE acked[id]]

\* save of LocalStorageAdapter, all at once: without a copy, if there are to be
\* none or there is nothing to copy,
LocalSavesBare ==
    /\ ~ Backups \/ 0 \notin DOMAIN store
    /\ LocalPut(graph, Slot)
    /\ UNCHANGED backups

\* or with a copy of what is there first, when the graph may find no room,
LocalSavesCopied ==
    /\ Backups /\ 0 \in DOMAIN store
    /\ \E n \in Places(store[0]) :
          /\ CopiedTo(n, store[0])
          /\ \/ LocalPut(graph, LostAt(n, store[0]))
             \/ Risk(LostAt(n, store[0])) /\ UNCHANGED <<store, clock>>

\* or not at all, when there is no room for what comes first.
LocalSaves ==
    /\ adapter = "local" /\ saves < MaxSaves
    /\ saves' = saves + 1
    /\ \/ LocalSavesBare
       \/ LocalSavesCopied
       \/ UNCHANGED <<store, backups, clock, acked>>
    /\ UNCHANGED <<adapter, graph, inFlight, sessions, overlapped>>

\* IndexedDB serves its requests in the order they were made, and completes one
\* transaction before the next.
IsNext(i) ==
    /\ adapter = "indexed" /\ i \in DOMAIN inFlight /\ inFlight[i].pc = "asked"
    /\ \A j \in 1 .. i - 1 : inFlight[j].pc \notin {"asked", "put"}

\* save of IndexedDBAdapter: a backup of the graph it saves, which may fail for
\* itself, and none of which is ever deleted because the index that would find
\* them does not exist; then the graph.  The save is answered true when the put
\* succeeds, before the transaction is complete, or false.
IndexedSaves(i) ==
    LET kept == Kept("whole", inFlight[i].graph)
    IN  /\ IsNext(i) /\ inFlight[i].kind = "save"
        /\ \/ /\ inFlight' = [inFlight EXCEPT ![i].pc = "put", ![i].found = kept]
              /\ clock' = clock + 1
           \/ Answered(i) /\ UNCHANGED clock
        /\ \/ inFlight[i].backup /\ backups' = Append(backups, kept)
           \/ UNCHANGED backups
        /\ UNCHANGED <<adapter, graph, store, saves, sessions, acked, overlapped>>

\* The transaction is complete.
IndexedCommits(i) ==
    /\ adapter = "indexed" /\ inFlight[i].pc = "put"
    /\ Answered(i)
    /\ store' = [k \in DOMAIN store \cup {inFlight[i].id} |->
                    IF k = inFlight[i].id THEN inFlight[i].found ELSE store[k]]
    /\ Ack(inFlight[i].id, inFlight[i].found.stamp)
    /\ UNCHANGED <<adapter, graph, backups, saves, clock, sessions, overlapped>>

\* The transaction is aborted, which nobody is told; loads that should have
\* found the graph will not.
Withdrawn(op, stamp) == IF op.since = stamp THEN [op EXCEPT !.since = 0] ELSE op
IndexedAborts(i) ==
    /\ adapter = "indexed" /\ inFlight[i].pc = "put"
    /\ inFlight' =
          RemoveAt([j \in DOMAIN inFlight |-> Withdrawn(inFlight[j], inFlight[i].found.stamp)], i)
    /\ UNCHANGED <<adapter, graph, store, backups, saves, clock, sessions, acked, overlapped>>

\* Fault: the cursor runs from the least recent graph.
OldestOf(keys) == CHOOSE k \in keys : \A j \in keys : store[k].stamp <= store[j].stamp

\* The key of the graph updated last.
NewestOf(keys) == CHOOSE k \in keys : \A j \in keys : store[j].stamp <= store[k].stamp

\* What load reads: the graph asked for, or the newest.
Read(id) ==
    IF id = Newest /\ DOMAIN store # {} THEN store[NewestOf(DOMAIN store)]
    ELSE IF id \in DOMAIN store THEN store[id]
    ELSE Nothing

\* load of IndexedDBAdapter and FileSystemAdapter.
Reads(i) ==
    /\ IsNext(i) \/ (adapter = "file" /\ inFlight[i].pc = "asked")
    /\ inFlight[i].kind = "load"
    /\ inFlight' = [inFlight EXCEPT ![i].pc = "read", ![i].found = Read(inFlight[i].id)]
    /\ UNCHANGED <<adapter, graph, store, backups, saves, clock, sessions, acked, overlapped>>

\* deleteGraph, asked for and done.
DeleteGraph ==
    /\ adapter = "indexed"
    /\ \E id \in DOMAIN store : ~ DeleteAsked(id) /\ Ask(Operation("delete", id, NoGraph, FALSE))
    /\ UNCHANGED <<adapter, graph, store, backups, saves, clock, sessions, acked, overlapped>>

\* The graph is gone; or the request fails; or it is answered and its transaction
\* aborted.
IndexedDeletes(i) ==
    /\ IsNext(i) /\ inFlight[i].kind = "delete"
    /\ Answered(i)
    /\ \/ /\ store' = [k \in DOMAIN store \ {inFlight[i].id} |-> store[k]]
          /\ Ack(inFlight[i].id, 0)
       \/ UNCHANGED <<store, acked>>
       \/ Ack(inFlight[i].id, 0) /\ UNCHANGED store
    /\ UNCHANGED <<adapter, graph, backups, saves, clock, sessions, overlapped>>

\* restoreBackup: a backup is saved again.
RestoreBackup ==
    /\ adapter = "indexed" /\ Backups
    /\ \E b \in DOMAIN backups : AskSave(backups[b].graph, TRUE)
    /\ UNCHANGED <<adapter, graph, store, backups, clock, sessions, acked>>

FileSave(i, pc) ==
    /\ adapter = "file" /\ inFlight[i].kind = "save" /\ inFlight[i].pc = pc

FileStep(i, pc) == inFlight' = [inFlight EXCEPT ![i].pc = pc]

\* Fault: the file is copied after it was opened for writing.
FileCopiesOpened(i) ==
    LET id == inFlight[i].id
    IN  /\ FileSave(i, "asked") /\ FileStep(i, "copied")
        /\ IF inFlight[i].backup /\ id \in DOMAIN store
           THEN CopiedTo(Len(backups) + 1, [store[id] EXCEPT !.state = "empty"])
           ELSE UNCHANGED backups
        /\ UNCHANGED <<adapter, graph, store, saves, clock, sessions, acked, overlapped>>

\* save of FileSystemAdapter: the file that is there is copied; when that fails,
\* or is not asked for, the save goes on without,
FileCopies(i) ==
    LET id == inFlight[i].id
    IN  /\ FileSave(i, "asked")
        /\ \/ /\ inFlight[i].backup /\ id \in DOMAIN store
              /\ \E n \in Places(store[id]) : CopiedTo(n, store[id]) /\ Risk(LostAt(n, store[id]))
              /\ FileStep(i, "copied")
           \/ /\ FileStep(i, IF id \in DOMAIN store THEN "bare" ELSE "copied")
              /\ UNCHANGED <<backups, acked>>
        /\ UNCHANGED <<adapter, graph, store, saves, clock, sessions, overlapped>>

\* opened for writing, which empties it,
FileOpens(i) ==
    /\ \/ FileSave(i, "copied") /\ UNCHANGED acked
       \/ FileSave(i, "bare") /\ Risk({inFlight[i].id})
    /\ FileStep(i, "open")
    /\ Put(Kept("empty", inFlight[i].graph))
    /\ UNCHANGED <<adapter, graph, backups, saves, sessions, overlapped>>

\* and written: over what another save has written since, the longer text
\* leaves its end behind.
FileWrites(i) ==
    /\ FileSave(i, "open")
    /\ Answered(i)
    /\ \E state \in {"whole"} \cup {"mixed" : x \in {store[inFlight[i].id].state} \ {"empty"}} :
           Put(Kept(state, inFlight[i].graph))
    /\ Ack(inFlight[i].id, clock')
    /\ UNCHANGED <<adapter, graph, backups, saves, sessions, overlapped>>

\* The disk is full, or the folder gone: the save is answered false, as far as it
\* got.
FileFails(i) ==
    /\ \E pc \in {"asked", "copied", "bare", "open"} : FileSave(i, pc)
    /\ Answered(i)
    /\ UNCHANGED <<adapter, graph, store, backups, saves, clock, sessions, acked, overlapped>>

\* importGraph of what exportGraph gave, now, earlier or elsewhere: JSON with every
\* date a string.  localStorage has it in the place of the graph it had, which is
\* not copied, and neither is a file.
ImportGraph ==
    /\ clock < MaxSaves
    /\ \E g \in Texts \cup
              {store[k].graph : k \in {j \in DOMAIN store :
                  store[j].state = "whole" /\ (adapter = "indexed" => Loads(store[j]))}} :
          /\ Dates(g) \subseteq RevivedByImport
          /\ IF adapter = "local"
             THEN LocalPut(g, Slot) /\ UNCHANGED <<inFlight, saves, overlapped>>
             ELSE AskSave(g, adapter = "indexed" /\ Backups) /\ UNCHANGED <<store, clock, acked>>
    /\ UNCHANGED <<adapter, graph, backups, sessions>>

Adapters ==
    \E i \in DOMAIN inFlight :
        \/ IndexedSaves(i) \/ IndexedCommits(i) \/ IndexedAborts(i) \/ IndexedDeletes(i)
        \/ Reads(i)
        \/ FileCopies(i) \/ FileOpens(i) \/ FileWrites(i) \/ FileFails(i)

Next ==
    \/ Edit \/ SaveGraph \/ LoadGraph \/ ApplyLoad \/ Restart
    \/ LocalSaves \/ DeleteGraph \/ RestoreBackup \/ ImportGraph \/ Adapters

Spec == Init /\ [][Next]_vars

----------------------------------------------------------------------------
(* Properties.                                                             *)

\* Graphs are of their type, and every operation is one the adapters know.
TypeOK ==
    /\ graph \in Graph
    /\ \A k \in DOMAIN store : store[k].graph \in Graph /\ store[k].stamp <= clock
    /\ \A b \in DOMAIN backups : backups[b].graph \in Graph
    /\ Len(inFlight) <= MaxInFlight
    /\ \A i \in DOMAIN inFlight :
           inFlight[i].kind \in {"save", "load", "delete"} /\ inFlight[i].graph \in Graph
    /\ \A id \in Ids : acked[id] <= clock

\* types.ts save, "true if save successful": whatever fails or restarts since, a
\* graph answered so, and committed, is whole in the storage or in a backup.  But
\* not one whose file was saved while it was being saved, and not from where the
\* code itself put it at risk: a file emptied without a copy, the one place of
\* localStorage taken by an import, or without backups, by another graph; a copy
\* that took the name of the last one.
AckedIsKept ==
    ~ overlapped =>
        \A id \in Ids :
            LET Holds(kept) == kept.state = "whole" /\ kept.graph.id = id /\ kept.stamp >= acked[id]
            IN  acked[id] > 0 => \/ \E k \in DOMAIN store : Holds(store[k])
                                 \/ \E b \in DOMAIN backups : Holds(backups[b])

\* types.ts load: from IndexedDB, which answers in order, it finds every graph
\* whose save was answered before it was asked for, as it was saved then or
\* later, unless that save's transaction was aborted after the answer.
LoadIsFresh ==
    adapter = "indexed" =>
        \A i \in DOMAIN inFlight :
            inFlight[i].pc = "read" /\ inFlight[i].since > 0 =>
                inFlight[i].found # Nothing /\ inFlight[i].found.stamp >= inFlight[i].since

\* engine.ts loadGraph: the engine works on graphs of its own version only.
GraphIsOfThisVersion == graph.version = "current"

\* types.ts load: what is loaded is not older than promised, and of the version
\* the engine works on.
LoadsAreGood == TypeOK /\ LoadIsFresh /\ GraphIsOfThisVersion
=============================================================================
