-------------------------- MODULE GraphStoreProofs --------------------------
(***************************************************************************)
(* Proofs about GraphStore: a graph whose save was answered true is kept,  *)
(* until the code puts it at risk, and what is loaded is fresh and of the  *)
(* engine's version, for any number of graphs, saves, sessions and         *)
(* operations in flight.                                                   *)
(*                                                                         *)
(* Each adapter has its own argument.  In IndexedDB, which serves requests *)
(* in order, a graph is in the store from its commit to its deletion.  Of  *)
(* a file, a save that empties it made a copy first or puts it at risk.    *)
(* In localStorage the graph of another session is copied before it is     *)
(* replaced, or put at risk.  A copy that takes the name of the last one   *)
(* holds the same graph, no older, or puts the last one's at risk.         *)
(***************************************************************************)
EXTENDS GraphStore, SequenceTheorems, WellFoundedInduction, TLAPS

-----------------------------------------------------------------------------
(* The invariant.                                                          *)

\* What a key can hold, and an operation of the adapter.
KeptGraph == [state : {"whole", "empty", "mixed"}, graph : Graph,
              strings : SUBSET {"own", "told", "elements"}, stamp : Nat]
Op == [kind : {"save", "load", "delete"}, id : Ids \cup {Newest}, graph : Graph, backup : BOOLEAN,
       pc : {"asked", "read", "put", "copied", "bare", "open"}, found : KeptGraph \cup {Nothing},
       since : Nat]

StoreTyped ==
    /\ DOMAIN store \subseteq Ids
    /\ \A k \in DOMAIN store : store[k] \in KeptGraph /\ store[k].stamp <= clock

AckedTyped == acked \in [Ids -> Nat] /\ \A id \in Ids : acked[id] <= clock

Counters ==
    /\ adapter \in {"file", "local", "indexed"}
    /\ saves \in Nat /\ clock \in Nat /\ sessions \in 1 .. MaxSessions
    /\ overlapped \in BOOLEAN

GraphTyped == graph \in Graph /\ graph.version = "current"
BackupsTyped == backups \in Seq(KeptGraph)
OpsTyped == inFlight \in Seq(Op) /\ Len(inFlight) <= MaxInFlight

Typed == Counters /\ GraphTyped /\ StoreTyped /\ AckedTyped /\ BackupsTyped /\ OpsTyped

\* A key holds the graph of its name, but for the one key of localStorage.
Named ==
    \A k \in DOMAIN store : IF adapter = "local" THEN k = 0 ELSE store[k].graph.id = k

\* Operations of the adapters: a save is one of its graph, all but loads are of
\* one graph, only files know steps of a save, and what was put in IndexedDB is
\* whole and of that graph.
PutOK(op) ==
    /\ op.found \in KeptGraph /\ op.found.state = "whole" /\ op.found.graph.id = op.id
    /\ op.found.stamp <= clock
OpOK(op) ==
    /\ op.kind = "save" => op.id = op.graph.id
    /\ op.kind # "load" => op.id \in Ids
    /\ op.kind = "load" => op.pc \in {"asked", "read"}
    /\ op.kind = "save" => op.pc # "read"
    /\ op.kind = "delete" => op.pc = "asked"
    /\ adapter = "indexed" => op.pc \in {"asked", "read", "put"}
    /\ adapter = "local" => op.kind = "load"
    /\ op.pc = "put" => PutOK(op)

Operations == \A i \in DOMAIN inFlight : OpOK(inFlight[i])

Basics == Typed /\ Named /\ Operations

\* The copy is the graph with this id, as it was saved at time s or later.
Copy(kept, id, s) == kept.state = "whole" /\ kept.graph.id = id /\ kept.stamp >= s
InStore(st, id, s) == \E k \in DOMAIN st : Copy(st[k], id, s)
InBackup(bs, id, s) == \E b \in DOMAIN bs : Copy(bs[b], id, s)

\* What was acknowledged of one graph is in the storage or in a backup.
Safe(id) == acked[id] > 0 => InStore(store, id, acked[id]) \/ InBackup(backups, id, acked[id])

\* A whole graph that a key holds is not older than what was acknowledged of it,
\* so that a copy of it may take the place of an earlier one.
NewestInKey ==
    \A k \in DOMAIN store : store[k].state = "whole" => store[k].stamp >= acked[store[k].graph.id]

\* IndexedDB holds whole graphs, and what was acknowledged.
IndexedHolds ==
    adapter = "indexed" =>
        /\ \A k \in DOMAIN store : store[k].state = "whole"
        /\ \A id \in Ids : acked[id] > 0 => id \in DOMAIN store /\ store[id].stamp >= acked[id]

\* What was put and is not committed was put after all there is, and nothing asked
\* for before it is left to do.
PutIsNewest(i) ==
    /\ \A j \in 1 .. i - 1 : inFlight[j].pc \notin {"asked", "put"}
    /\ \A k \in DOMAIN store : store[k].stamp <= inFlight[i].found.stamp
PutsInOrder == adapter = "indexed" => \A i \in DOMAIN inFlight : inFlight[i].pc = "put" => PutIsNewest(i)

\* A load that is next will find a graph as fresh as promised: it is there or put,
\* and no operation before it takes the graph away.
Deletes(op, id) == op.kind = "delete" /\ op.id = id
PutThere(j, s) ==
    \E k \in DOMAIN inFlight : inFlight[k].pc = "put" /\ inFlight[k].id = j /\ inFlight[k].found.stamp = s
There(j, s) == j \in DOMAIN store /\ store[j].stamp >= s
Ready(i, j) ==
    /\ inFlight[i].id \in {j, Newest}
    /\ There(j, inFlight[i].since) \/ PutThere(j, inFlight[i].since)
    /\ \A k \in 1 .. i - 1 : ~ Deletes(inFlight[k], j)

Awaits(op) == op.kind = "load" /\ op.pc = "asked" /\ op.since > 0
LoadsAreReady ==
    adapter = "indexed" =>
        \A i \in DOMAIN inFlight : Awaits(inFlight[i]) => \E j \in Ids : Ready(i, j)

IndexedInv == IndexedHolds /\ PutsInOrder /\ LoadsAreReady /\ LoadIsFresh

\* A save of a file that was acknowledged empties it only after it was copied; no
\* other save of that file is under way.
SaveIsOK(op, st, ack, bs) ==
    /\ op.pc = "open" => op.id \in DOMAIN st /\ st[op.id].state = "empty"
    /\ ack[op.id] > 0 /\ op.pc \in {"copied", "open"} => InBackup(bs, op.id, ack[op.id])

SavesApart ==
    \A i, j \in DOMAIN inFlight :
        inFlight[i].kind = "save" /\ inFlight[j].kind = "save" /\ inFlight[i].id = inFlight[j].id => i = j
SavesAreOK ==
    \A i \in DOMAIN inFlight : inFlight[i].kind = "save" => SaveIsOK(inFlight[i], store, acked, backups)

FilesInv == SavesApart /\ SavesAreOK /\ \A id \in Ids : Safe(id)

StoreInv ==
    /\ Basics /\ NewestInKey
    /\ adapter = "indexed" => IndexedInv
    /\ adapter = "file" /\ ~ overlapped => FilesInv
    /\ adapter = "local" => \A id \in Ids : Safe(id)

-----------------------------------------------------------------------------
(* Sequences and numbers.                                                  *)

\* Where the element stood that is the j-th without the i-th.
Skip(i, j) == IF j < i THEN j ELSE j + 1

LEMMA RemoveAtProperties ==
    ASSUME NEW S, NEW s \in Seq(S), NEW i \in 1 .. Len(s)
    PROVE  /\ RemoveAt(s, i) \in Seq(S)
           /\ Len(RemoveAt(s, i)) = Len(s) - 1
           /\ \A j \in 1 .. Len(s) - 1 :
                 Skip(i, j) \in 1 .. Len(s) /\ Skip(i, j) # i /\ RemoveAt(s, i)[j] = s[Skip(i, j)]
<1>. DEFINE a == SubSeq(s, 1, i - 1)
            b == SubSeq(s, i + 1, Len(s))
<1>0. Len(s) \in Nat /\ i \in Nat /\ 1 <= i /\ i <= Len(s)
  BY LenProperties
<1>1. \A j \in 1 .. Len(s) : s[j] \in S
  BY ElementOfSeq
<1>2. /\ a \in Seq(S) /\ Len(a) = i - 1
      /\ \A j \in 1 .. i - 1 : a[j] = s[j]
  <2>1. \A j \in 1 .. i - 1 : s[j] \in S
    BY <1>0, <1>1
  <2>2. /\ a \in Seq(S)
        /\ Len(a) = IF 1 <= i - 1 THEN i - 1 - 1 + 1 ELSE 0
        /\ \A j \in 1 .. i - 1 - 1 + 1 : a[j] = s[1 + j - 1]
    BY <1>0, <2>1, SubSeqProperties
  <2>. QED  BY <1>0, <2>2
<1>3. /\ b \in Seq(S) /\ Len(b) = Len(s) - i
      /\ \A j \in 1 .. Len(s) - i : b[j] = s[i + j]
  <2>1. \A j \in i + 1 .. Len(s) : s[j] \in S
    BY <1>0, <1>1
  <2>2. /\ b \in Seq(S)
        /\ Len(b) = IF i + 1 <= Len(s) THEN Len(s) - (i + 1) + 1 ELSE 0
        /\ \A j \in 1 .. Len(s) - (i + 1) + 1 : b[j] = s[i + 1 + j - 1]
    BY <1>0, <2>1, SubSeqProperties
  <2>. QED  BY <1>0, <2>2
<1>. HIDE DEF a, b
<1>4. /\ a \o b \in Seq(S)
      /\ Len(a \o b) = Len(a) + Len(b)
      /\ \A j \in 1 .. Len(a) + Len(b) : (a \o b)[j] = IF j <= Len(a) THEN a[j] ELSE b[j - Len(a)]
  BY <1>2, <1>3, ConcatProperties
<1>5. ASSUME NEW j \in 1 .. Len(s) - 1
      PROVE  Skip(i, j) \in 1 .. Len(s) /\ Skip(i, j) # i /\ (a \o b)[j] = s[Skip(i, j)]
  <2>1. CASE j < i
    <3>1. Skip(i, j) = j
      BY <2>1 DEF Skip
    <3>. QED  BY <1>0, <1>2, <1>3, <1>4, <1>5, <2>1, <3>1
  <2>2. CASE ~ (j < i)
    <3>1. Skip(i, j) = j + 1
      BY <2>2 DEF Skip
    <3>2. (a \o b)[j] = b[j - (i - 1)] /\ j - (i - 1) \in 1 .. Len(s) - i
      BY <1>0, <1>2, <1>3, <1>4, <1>5, <2>2
    <3>3. b[j - (i - 1)] = s[i + (j - (i - 1))] /\ i + (j - (i - 1)) = j + 1
      BY <1>0, <1>3, <1>5, <3>2
    <3>. QED  BY <1>0, <1>5, <2>2, <3>1, <3>2, <3>3
  <2>. QED  BY <2>1, <2>2
<1>6. RemoveAt(s, i) = a \o b
  BY DEF RemoveAt, a, b
<1>7. Len(a) + Len(b) = Len(s) - 1
  BY <1>0, <1>2, <1>3
<1>. QED  BY <1>4, <1>5, <1>6, <1>7

\* Positions keep their order.
LEMMA SkipsInOrder ==
    ASSUME NEW i \in Nat, NEW j \in Nat, NEW k \in Nat
    PROVE  /\ j < k => Skip(i, j) < Skip(i, k)
           /\ Skip(i, j) = Skip(i, k) => j = k
  BY DEF Skip

\* A set of numbers up to n has a greatest one.
LEMMA GreatestExists ==
    ASSUME NEW n \in Nat, NEW T, T \subseteq 0 .. n, T # {}
    PROVE  \E s \in T : \A t \in T : t <= s
<1>. DEFINE U == {n - t : t \in T}
            less == OpToRel(<, Nat)
<1>0. \A t \in T : t \in Nat /\ n - t \in Nat
  OBVIOUS
<1>1. U \subseteq Nat /\ U # {}
  <2>1. U \subseteq Nat
    BY <1>0
  <2>2. PICK t \in T : TRUE
    OBVIOUS
  <2>3. n - t \in U
    OBVIOUS
  <2>. QED  BY <2>1, <2>3
<1>2. \E x \in U : \A y \in U : ~ (<<y, x>> \in less)
  <2>. HIDE DEF U, less
  <2>1. IsWellFoundedOn(less, Nat)
    BY NatLessThanWellFounded DEF less
  <2>. QED  BY <1>1, <2>1, WFMin
<1>3. PICK x \in U : \A y \in U : ~ (<<y, x>> \in less)
  BY <1>2
<1>4. \A y \in U : ~ (y < x)
  <2>. SUFFICES ASSUME NEW y \in U, y < x
                PROVE  FALSE
    OBVIOUS
  <2>1. <<y, x>> \in Nat \X Nat /\ <<y, x>>[1] < <<y, x>>[2]
    BY <1>1
  <2>2. <<y, x>> \in less
    BY <2>1 DEF OpToRel
  <2>. QED  BY <1>3, <2>2
<1>5. PICK s \in T : x = n - s
  OBVIOUS
<1>6. ASSUME NEW t \in T
      PROVE  t <= s
  <2>1. n - t \in U
    OBVIOUS
  <2>2. ~ (n - t < n - s)
    BY <1>4, <1>5, <2>1
  <2>3. t \in Nat /\ s \in Nat
    BY <1>0
  <2>. HIDE DEF U, less
  <2>. QED  BY <2>2, <2>3
<1>. QED  BY <1>6

-----------------------------------------------------------------------------
(* What the helpers of the model do.                                       *)

\* Numbers of graphs.
LEMMA Numbers ==
    /\ MaxSessions \in Nat /\ MaxInFlight \in Nat /\ MaxSaves \in Nat /\ Texts \subseteq Graph
    /\ Ids = 0 .. MaxSessions /\ Newest \notin Ids /\ 0 \in Ids /\ 1 .. MaxSessions \subseteq Ids
    /\ Backups \in BOOLEAN
  BY StoreAssumption DEF Ids, Newest

LEMMA GraphOfTyped ==
    ASSUME NEW id \in Ids, NEW v \in {"old", "current", "newer"}, NEW t \in BOOLEAN, NEW e \in BOOLEAN
    PROVE  /\ GraphOf(id, v, t, e) \in Graph
           /\ GraphOf(id, v, t, e).id = id
           /\ GraphOf(id, v, t, e).version = v
  BY Numbers DEF GraphOf, Graph

LEMMA DatesTyped ==
    ASSUME NEW g
    PROVE  StringsOf(g) \in SUBSET {"own", "told", "elements"}
  BY DEF StringsOf, Dates

\* What is written, at the next time of the clock.
LEMMA KeptTyped ==
    ASSUME NEW state \in {"whole", "empty", "mixed"}, NEW g \in Graph, clock \in Nat
    PROVE  /\ Kept(state, g) \in KeptGraph
           /\ Kept(state, g).state = state /\ Kept(state, g).graph = g
           /\ Kept(state, g).stamp = clock + 1
<1>1. clock + 1 \in Nat
  OBVIOUS
<1>. HIDE DEF StringsOf
<1>. QED  BY <1>1, DatesTyped DEF Kept, KeptGraph

\* A key holds something else, the others what they held.
Stored(key, kept) ==
    /\ DOMAIN store' = DOMAIN store \cup {key}
    /\ store'[key] = kept
    /\ \A k \in DOMAIN store : k # key => store'[k] = store[k]

LEMMA PutStores ==
    ASSUME NEW kept, Put(kept)
    PROVE  Stored(Key(kept.graph.id), kept) /\ clock' = clock + 1
<1>. DEFINE key == Key(kept.graph.id)
<1>1. /\ store' = [k \in DOMAIN store \cup {key} |-> IF k = key THEN kept ELSE store[k]]
      /\ clock' = clock + 1
  BY DEF Put
<1>. HIDE DEF key
<1>2. Stored(key, kept)
  BY <1>1 DEF Stored
<1>. QED  BY <1>1, <1>2 DEF key

LEMMA StoredTyped ==
    ASSUME StoreTyped, clock \in Nat, clock' \in Nat, clock <= clock',
           NEW key \in Ids, NEW kept \in KeptGraph, kept.stamp <= clock', Stored(key, kept)
    PROVE  StoreTyped'
<1>1. ASSUME NEW k \in DOMAIN store'
      PROVE  store'[k] \in KeptGraph /\ store'[k].stamp <= clock'
  <2>1. CASE k = key
    BY <2>1 DEF Stored
  <2>2. CASE k # key
    <3>1. k \in DOMAIN store /\ store'[k] = store[k]
      BY <2>2, <1>1 DEF Stored
    <3>2. store[k] \in KeptGraph /\ store[k].stamp <= clock
      BY <3>1 DEF StoreTyped
    <3>3. store[k].stamp \in Nat
      BY <3>2 DEF KeptGraph
    <3>. QED  BY <3>1, <3>2, <3>3
  <2>. QED  BY <2>1, <2>2
<1>2. DOMAIN store' \subseteq Ids
  BY DEF Stored, StoreTyped
<1>. QED  BY <1>1, <1>2 DEF StoreTyped

\* Nothing is no graph.
LEMMA NothingIsNoGraph == \A kept \in KeptGraph : kept # Nothing
<1>. SUFFICES ASSUME NEW kept \in KeptGraph, kept = Nothing
              PROVE  FALSE
  OBVIOUS
<1>1. kept.state \in {"whole", "empty", "mixed"}
  BY DEF KeptGraph
<1>2. Nothing.state = "none"
  BY DEF Nothing
<1>. QED  BY <1>1, <1>2

\* load of localStorage and Read find what a key holds, or nothing.
LEMMA NewestIsThere ==
    ASSUME StoreTyped, clock \in Nat, DOMAIN store # {}
    PROVE  /\ NewestOf(DOMAIN store) \in DOMAIN store
           /\ \A j \in DOMAIN store : store[j].stamp <= store[NewestOf(DOMAIN store)].stamp
<1>. DEFINE T == {store[k].stamp : k \in DOMAIN store}
<1>1. \A k \in DOMAIN store : store[k].stamp \in Nat /\ store[k].stamp <= clock
  BY DEF StoreTyped, KeptGraph
<1>2. T \subseteq 0 .. clock /\ T # {}
  <2>1. \A t \in T : t \in 0 .. clock
    BY <1>1
  <2>2. PICK k \in DOMAIN store : TRUE
    OBVIOUS
  <2>3. store[k].stamp \in T
    OBVIOUS
  <2>. QED  BY <2>1, <2>3
<1>3. \E s \in T : \A t \in T : t <= s
  <2>. HIDE DEF T
  <2>. QED  BY <1>2, GreatestExists
<1>4. \E k \in DOMAIN store : \A j \in DOMAIN store : store[j].stamp <= store[k].stamp
  <2>1. PICK s \in T : \A t \in T : t <= s
    BY <1>3
  <2>2. PICK k \in DOMAIN store : s = store[k].stamp
    OBVIOUS
  <2>3. \A j \in DOMAIN store : store[j].stamp \in T
    OBVIOUS
  <2>. QED  BY <2>1, <2>2, <2>3
<1>. QED  BY <1>4 DEF NewestOf

LEMMA ReadFinds ==
    ASSUME StoreTyped, clock \in Nat, NEW id
    PROVE  Read(id) \in KeptGraph \cup {Nothing}
<1>1. CASE id = Newest /\ DOMAIN store # {}
  BY <1>1, NewestIsThere DEF Read, StoreTyped
<1>2. CASE ~ (id = Newest /\ DOMAIN store # {})
  BY <1>2 DEF Read, StoreTyped
<1>. QED  BY <1>1, <1>2

\* A read finds a graph as fresh as one of those it was asked for.
LEMMA ReadIsFresh ==
    ASSUME StoreTyped, clock \in Nat, NEW id \in Ids \cup {Newest}, NEW s \in Nat,
           NEW j \in DOMAIN store, id \in {j, Newest}, store[j].stamp >= s
    PROVE  Read(id) # Nothing /\ Read(id).stamp >= s
<1>1. CASE id = Newest
  <2>1. Read(id) = store[NewestOf(DOMAIN store)]
    BY <1>1 DEF Read
  <2>2. /\ NewestOf(DOMAIN store) \in DOMAIN store
        /\ store[j].stamp <= store[NewestOf(DOMAIN store)].stamp
    BY NewestIsThere
  <2>3. \A k \in DOMAIN store : store[k] \in KeptGraph /\ store[k].stamp \in Nat
    BY DEF StoreTyped, KeptGraph
  <2>. QED  BY <2>1, <2>2, <2>3, NothingIsNoGraph
<1>2. CASE id # Newest
  <2>1. Read(id) = store[j]
    BY <1>2 DEF Read
  <2>. QED  BY <2>1, NothingIsNoGraph DEF StoreTyped
<1>. QED  BY <1>1, <1>2

-----------------------------------------------------------------------------
(* What becomes of the operations.                                         *)

\* The operation is the one it was, but perhaps promised nothing any more.
Same(op, was) ==
    /\ op.kind = was.kind /\ op.id = was.id /\ op.graph = was.graph /\ op.backup = was.backup
    /\ op.pc = was.pc /\ op.found = was.found
    /\ op.since \in {was.since, 0}

\* The operations left are some of those before, in their order.
OpsLeft ==
    \E f \in [DOMAIN inFlight' -> DOMAIN inFlight] :
        /\ \A j \in DOMAIN inFlight' : Same(inFlight'[j], inFlight[f[j]])
        /\ \A j, k \in DOMAIN inFlight' : j < k => f[j] < f[k]

\* And operation i is not among them.
OpGone(i) ==
    \E f \in [DOMAIN inFlight' -> DOMAIN inFlight \ {i}] :
        /\ \A j \in DOMAIN inFlight' : Same(inFlight'[j], inFlight[f[j]])
        /\ \A j, k \in DOMAIN inFlight' : j # k => f[j] # f[k]

\* All operations are left but i.
OthersLeft(i) == \A j \in DOMAIN inFlight \ {i} : \E k \in DOMAIN inFlight' : inFlight'[k] = inFlight[j]

\* One more was asked for.
OpAsked(op) ==
    /\ DOMAIN inFlight' = DOMAIN inFlight \cup {Len(inFlight) + 1}
    /\ \A i \in DOMAIN inFlight : i < Len(inFlight) + 1 /\ inFlight'[i] = inFlight[i]
    /\ inFlight'[Len(inFlight) + 1] = op

\* One of them changed.
OpChanged(i, op) ==
    /\ DOMAIN inFlight' = DOMAIN inFlight
    /\ \A j \in DOMAIN inFlight : j # i => inFlight'[j] = inFlight[j]
    /\ inFlight'[i] = op

LEMMA OpsAreNumbered ==
    ASSUME OpsTyped
    PROVE  /\ Len(inFlight) \in Nat /\ DOMAIN inFlight = 1 .. Len(inFlight)
           /\ \A i \in DOMAIN inFlight : i \in Nat /\ inFlight[i] \in Op
<1>1. Len(inFlight) \in Nat /\ DOMAIN inFlight = 1 .. Len(inFlight)
  BY LenProperties DEF OpsTyped
<1>2. ASSUME NEW i \in DOMAIN inFlight
      PROVE  i \in Nat /\ inFlight[i] \in Op
  BY <1>1, ElementOfSeq DEF OpsTyped
<1>. QED  BY <1>1, <1>2

\* Operation i is answered, or put and withdrawn; w is what was of the others.
LEMMA RemovedLeaves ==
    ASSUME OpsTyped, NEW w \in Seq(Op), Len(w) = Len(inFlight), NEW i \in DOMAIN inFlight,
           \A j \in DOMAIN inFlight : Same(w[j], inFlight[j]),
           inFlight' = RemoveAt(w, i)
    PROVE  OpsTyped' /\ OpsLeft /\ OpGone(i)
<1>. DEFINE n == Len(inFlight)
<1>1. n \in Nat /\ DOMAIN inFlight = 1 .. n
  BY OpsAreNumbered
<1>2. /\ inFlight' \in Seq(Op)
      /\ Len(inFlight') = n - 1
      /\ \A j \in 1 .. n - 1 : Skip(i, j) \in 1 .. n /\ Skip(i, j) # i /\ inFlight'[j] = w[Skip(i, j)]
  <2>1. i \in 1 .. Len(w)
    BY <1>1
  <2>. HIDE DEF n
  <2>2. /\ RemoveAt(w, i) \in Seq(Op)
        /\ Len(RemoveAt(w, i)) = Len(w) - 1
        /\ \A j \in 1 .. Len(w) - 1 :
              /\ Skip(i, j) \in 1 .. Len(w) /\ Skip(i, j) # i
              /\ RemoveAt(w, i)[j] = w[Skip(i, j)]
    BY <2>1, RemoveAtProperties
  <2>. QED  BY <2>1, <2>2 DEF n
<1>3. DOMAIN inFlight' = 1 .. n - 1
  BY <1>2, LenProperties
<1>4. OpsTyped'
  BY <1>1, <1>2, Numbers DEF OpsTyped
<1>. DEFINE f == [j \in 1 .. n - 1 |-> Skip(i, j)]
<1>5. f \in [DOMAIN inFlight' -> DOMAIN inFlight]
  BY <1>1, <1>2, <1>3
<1>6. \A j \in DOMAIN inFlight' : Same(inFlight'[j], inFlight[f[j]])
  <2>. HIDE DEF n
  <2>1. ASSUME NEW j \in DOMAIN inFlight'
        PROVE  Same(inFlight'[j], inFlight[f[j]])
    <3>1. f[j] \in DOMAIN inFlight /\ inFlight'[j] = w[f[j]]
      BY <1>1, <1>2, <1>3
    <3>. HIDE DEF f
    <3>2. Same(w[f[j]], inFlight[f[j]])
      BY <3>1
    <3>. QED  BY <3>1, <3>2
  <2>. QED  BY <2>1
<1>7. \A j, k \in DOMAIN inFlight' : j < k => f[j] < f[k]
  BY <1>1, <1>3, SkipsInOrder
<1>8. \A j, k \in DOMAIN inFlight' : j # k => f[j] # f[k]
  BY <1>1, <1>3, SkipsInOrder
<1>9. f \in [DOMAIN inFlight' -> DOMAIN inFlight \ {i}]
  BY <1>1, <1>2, <1>3
<1>. HIDE DEF f
<1>10. OpsLeft
  BY <1>5, <1>6, <1>7 DEF OpsLeft
<1>11. OpGone(i)
  BY <1>6, <1>8, <1>9 DEF OpGone
<1>. QED  BY <1>4, <1>10, <1>11

LEMMA AnsweredLeaves ==
    ASSUME OpsTyped, NEW i \in DOMAIN inFlight, Answered(i)
    PROVE  OpsTyped' /\ OpsLeft /\ OpGone(i)
<1>1. inFlight \in Seq(Op) /\ Len(inFlight) = Len(inFlight) /\ inFlight' = RemoveAt(inFlight, i)
  BY DEF OpsTyped, Answered
<1>2. \A j \in DOMAIN inFlight : Same(inFlight[j], inFlight[j])
  BY DEF Same
<1>. QED  BY <1>1, <1>2, RemovedLeaves

LEMMA AnsweredLeavesOthers ==
    ASSUME OpsTyped, NEW i \in DOMAIN inFlight, Answered(i)
    PROVE  OthersLeft(i)
<1>. DEFINE n == Len(inFlight)
<1>1. n \in Nat /\ DOMAIN inFlight = 1 .. n /\ i \in Nat
  BY OpsAreNumbered
<1>2. /\ Len(inFlight') = n - 1
      /\ \A j \in 1 .. n - 1 : inFlight'[j] = inFlight[Skip(i, j)]
  <2>1. inFlight \in Seq(Op) /\ i \in 1 .. Len(inFlight) /\ inFlight' = RemoveAt(inFlight, i)
    BY <1>1 DEF OpsTyped, Answered
  <2>. QED  BY <2>1, RemoveAtProperties
<1>3. DOMAIN inFlight' = 1 .. n - 1
  <2>1. inFlight' \in Seq(Op)
    BY AnsweredLeaves DEF OpsTyped
  <2>. QED  BY <1>2, <2>1, LenProperties
<1>4. ASSUME NEW j \in DOMAIN inFlight \ {i}
      PROVE  \E k \in DOMAIN inFlight' : inFlight'[k] = inFlight[j]
  <2>. HIDE DEF n
  <2>1. CASE j < i
    <3>1. j \in 1 .. n - 1 /\ Skip(i, j) = j
      BY <1>1, <1>4, <2>1 DEF Skip
    <3>. QED  BY <1>2, <1>3, <3>1
  <2>2. CASE ~ (j < i)
    <3>1. j - 1 \in 1 .. n - 1 /\ Skip(i, j - 1) = j
      BY <1>1, <1>4, <2>2 DEF Skip
    <3>. QED  BY <1>2, <1>3, <3>1
  <2>. QED  BY <2>1, <2>2
<1>. QED  BY <1>4 DEF OthersLeft

LEMMA AskedAppends ==
    ASSUME OpsTyped, NEW op \in Op, Ask(op)
    PROVE  OpsTyped' /\ OpAsked(op)
<1>. DEFINE n == Len(inFlight)
<1>1. n \in Nat /\ DOMAIN inFlight = 1 .. n /\ n < MaxInFlight /\ MaxInFlight \in Nat
  BY OpsAreNumbered, Numbers DEF Ask
<1>2. /\ inFlight' \in Seq(Op)
      /\ Len(inFlight') = n + 1
      /\ \A i \in 1 .. n : inFlight'[i] = inFlight[i]
      /\ inFlight'[n + 1] = op
  BY AppendProperties DEF OpsTyped, Ask
<1>3. DOMAIN inFlight' = 1 .. n + 1
  BY <1>2, LenProperties
<1>4. OpsTyped'
  BY <1>1, <1>2 DEF OpsTyped
<1>5. 1 .. n + 1 = 1 .. n \cup {n + 1}
  BY <1>1
<1>6. \A i \in DOMAIN inFlight : i < n + 1 /\ inFlight'[i] = inFlight[i]
  BY <1>1, <1>2
<1>. QED  BY <1>1, <1>2, <1>3, <1>4, <1>5, <1>6 DEF OpAsked

LEMMA ExceptChanges ==
    ASSUME OpsTyped, NEW i \in DOMAIN inFlight, NEW op \in Op,
           inFlight' = [inFlight EXCEPT ![i] = op]
    PROVE  OpsTyped' /\ OpChanged(i, op)
<1>1. Len(inFlight) \in Nat /\ DOMAIN inFlight = 1 .. Len(inFlight)
  BY OpsAreNumbered
<1>2. inFlight' \in Seq(Op) /\ Len(inFlight') = Len(inFlight)
  BY <1>1, ExceptSeq DEF OpsTyped
<1>3. OpChanged(i, op)
  BY DEF OpChanged
<1>. QED  BY <1>2, <1>3 DEF OpsTyped

\* Where the operations do not change, they are left.
LEMMA UnchangedLeaves ==
    ASSUME OpsTyped, UNCHANGED inFlight
    PROVE  OpsTyped' /\ OpsLeft
<1>1. Len(inFlight) \in Nat /\ DOMAIN inFlight = 1 .. Len(inFlight)
  BY OpsAreNumbered
<1>. DEFINE f == [j \in DOMAIN inFlight |-> j]
<1>2. f \in [DOMAIN inFlight' -> DOMAIN inFlight]
  OBVIOUS
<1>3. \A j \in DOMAIN inFlight' : Same(inFlight'[j], inFlight[f[j]])
  BY DEF Same
<1>4. \A j, k \in DOMAIN inFlight' : j < k => f[j] < f[k]
  OBVIOUS
<1>. HIDE DEF f
<1>. QED  BY <1>2, <1>3, <1>4 DEF OpsLeft, OpsTyped

LEMMA RestartLeavesNone ==
    ASSUME inFlight' = <<>>
    PROVE  OpsTyped' /\ OpsLeft
<1>1. inFlight' \in Seq(Op) /\ Len(inFlight') = 0 /\ DOMAIN inFlight' = {}
  OBVIOUS
<1>. DEFINE f == [j \in {} |-> j]
<1>2. f \in [DOMAIN inFlight' -> DOMAIN inFlight]
  BY <1>1
<1>3. OpsLeft
  BY <1>1, <1>2 DEF OpsLeft
<1>. QED  BY <1>1, <1>3, Numbers DEF OpsTyped

\* The moment an operation is asked for promises what was acknowledged by then, or
\* was put and answered.
LEMMA SinceIsAcked ==
    ASSUME Basics, NEW id
    PROVE  /\ Since(id) \in Nat
           /\ Since(id) > 0 =>
                \E j \in Ids : /\ id \in {j, Newest} /\ ~ DeleteAsked(j)
                               /\ Since(id) = acked[j] \/ PutThere(j, Since(id))
<1>. DEFINE J == {j \in Ids : id \in {j, Newest} /\ ~ DeleteAsked(j)}
            U == {k \in Uncommitted : inFlight[k].id \in J}
            answered == {acked[i] : i \in J}
            puts == {inFlight[i].found.stamp : i \in U}
            stamps == answered \cup puts
            T == stamps \cup {0}
<1>0. clock \in Nat
  BY DEF Basics, Typed, Counters
<1>1. \A t \in answered : t \in Nat /\ t <= clock /\ \E j \in J : t = acked[j]
  <2>1. \A j \in Ids : acked[j] \in Nat /\ acked[j] <= clock
    BY DEF Basics, Typed, AckedTyped
  <2>2. J \subseteq Ids
    OBVIOUS
  <2>. HIDE DEF J
  <2>. QED  BY <2>1, <2>2
<1>2. \A t \in puts : t \in Nat /\ t <= clock /\ \E j \in J : PutThere(j, t)
  <2>1. ASSUME NEW i \in U
        PROVE  /\ inFlight[i].found.stamp \in Nat /\ inFlight[i].found.stamp <= clock
               /\ \E j \in J : PutThere(j, inFlight[i].found.stamp)
    <3>1. i \in DOMAIN inFlight /\ inFlight[i].pc = "put" /\ inFlight[i].id \in J
      BY DEF Uncommitted
    <3>2. PutOK(inFlight[i])
      BY <3>1 DEF Basics, Operations, OpOK
    <3>. HIDE DEF J
    <3>. QED  BY <3>1, <3>2 DEF PutOK, KeptGraph, PutThere
  <2>. HIDE DEF U, J
  <2>. QED  BY <2>1
<1>3. Since(id) = CHOOSE s \in T : \A t \in stamps : t <= s
  BY DEF Since
<1>. HIDE DEF answered, puts
<1>4. T \subseteq 0 .. clock /\ T # {}
  <2>1. \A t \in T : t \in 0 .. clock
    BY <1>0, <1>1, <1>2
  <2>2. 0 \in T
    OBVIOUS
  <2>. QED  BY <2>1, <2>2
<1>5. \E s \in T : \A t \in stamps : t <= s
  <2>1. \E s \in T : \A t \in T : t <= s
    <3>. HIDE DEF T
    <3>. QED  BY <1>0, <1>4, GreatestExists
  <2>. QED  BY <2>1
<1>6. Since(id) \in T
  <2>. HIDE DEF T, stamps
  <2>. QED  BY <1>3, <1>5
<1>. HIDE DEF Since
<1>7. Since(id) \in Nat
  BY <1>4, <1>6
<1>8. Since(id) > 0 => Since(id) \in answered \/ Since(id) \in puts
  BY <1>6
<1>9. Since(id) > 0 => \E j \in J : Since(id) = acked[j] \/ PutThere(j, Since(id))
  <2>. HIDE DEF J
  <2>. QED  BY <1>1, <1>2, <1>8
<1>. QED  BY <1>7, <1>9

LEMMA OperationTyped ==
    ASSUME Basics,
           NEW kind \in {"save", "load", "delete"}, NEW id \in Ids \cup {Newest},
           NEW g \in Graph, NEW backup \in BOOLEAN
    PROVE  LET op == Operation(kind, id, g, backup) IN
           /\ op \in Op
           /\ op.kind = kind /\ op.id = id /\ op.graph = g /\ op.backup = backup
           /\ op.pc = "asked" /\ op.found = Nothing /\ op.since = Since(id)
<1>1. Since(id) \in Nat
  BY SinceIsAcked
<1>. HIDE DEF Since, Nothing
<1>. QED  BY <1>1 DEF Operation, Op

\* Time goes on.
Later == adapter' = adapter /\ clock \in Nat /\ clock' \in Nat /\ clock <= clock'

LEMMA SameTime ==
    ASSUME Counters, UNCHANGED <<adapter, clock>>
    PROVE  Later
  BY DEF Later, Counters

\* What is so of each operation, however the operations change.
LEMMA SameIsOk ==
    ASSUME NEW op, NEW was, Same(op, was), OpOK(was), Later
    PROVE  OpOK(op)'
<1>1. /\ op.kind = was.kind /\ op.id = was.id /\ op.graph = was.graph /\ op.pc = was.pc
      /\ op.found = was.found
  BY DEF Same
<1>2. op.pc = "put" => PutOK(op)'
  <2>. SUFFICES ASSUME op.pc = "put"
                PROVE  PutOK(op)'
    OBVIOUS
  <2>1. PutOK(was)
    BY <1>1 DEF OpOK
  <2>2. was.found.stamp \in Nat /\ was.found.stamp <= clock
    BY <2>1 DEF PutOK, KeptGraph
  <2>3. was.found.stamp <= clock'
    BY <2>2 DEF Later
  <2>. QED  BY <1>1, <2>1, <2>3 DEF PutOK
<1>. QED  BY <1>1, <1>2 DEF OpOK, Later

LEMMA LeftAreOk ==
    ASSUME OpsLeft, Operations, Later
    PROVE  Operations'
<1>1. PICK f \in [DOMAIN inFlight' -> DOMAIN inFlight] :
          \A j \in DOMAIN inFlight' : Same(inFlight'[j], inFlight[f[j]])
  BY DEF OpsLeft
<1>2. ASSUME NEW j \in DOMAIN inFlight'
      PROVE  OpOK(inFlight[j])'
  <2>1. Same(inFlight'[j], inFlight[f[j]])
    BY <1>1
  <2>2. OpOK(inFlight[f[j]])
    BY DEF Operations
  <2>. QED  BY <2>1, <2>2, SameIsOk
<1>. QED  BY <1>2 DEF Operations

LEMMA OpStaysOk ==
    ASSUME NEW op, OpOK(op), Later
    PROVE  OpOK(op)'
<1>1. Same(op, op)
  BY DEF Same
<1>. QED  BY <1>1, SameIsOk

LEMMA AskedIsOk ==
    ASSUME NEW op, OpAsked(op), Operations, OpOK(op), Later
    PROVE  Operations'
<1>1. ASSUME NEW j \in DOMAIN inFlight'
      PROVE  OpOK(inFlight[j])'
  <2>1. PICK was : was = inFlight'[j]
    OBVIOUS
  <2>2. OpOK(was)
    BY <1>1, <2>1 DEF OpAsked, Operations
  <2>3. OpOK(was)'
    BY <2>2, OpStaysOk
  <2>. QED  BY <2>1, <2>3
<1>. QED  BY <1>1 DEF Operations

\* Where what operation i has become is right after the step, all are.
LEMMA ChangedIsOk ==
    ASSUME NEW i, NEW op, OpChanged(i, op), Operations, OpOK(op)', Later
    PROVE  Operations'
<1>1. ASSUME NEW j \in DOMAIN inFlight'
      PROVE  OpOK(inFlight[j])'
  <2>1. CASE j = i
    BY <2>1 DEF OpChanged
  <2>2. CASE j # i
    <3>1. PICK was : was = inFlight[j]
      OBVIOUS
    <3>2. OpOK(was) /\ inFlight'[j] = was
      BY <1>1, <2>2, <3>1 DEF OpChanged, Operations
    <3>3. OpOK(was)'
      BY <3>2, OpStaysOk
    <3>. QED  BY <3>2, <3>3
  <2>. QED  BY <2>1, <2>2
<1>. QED  BY <1>1 DEF Operations

-----------------------------------------------------------------------------
(* What the steps do, and that all of them keep the types and names.       *)

\* A save is asked for.
SaveOp(g, backup) == Operation("save", g.id, g, backup)

LEMMA SaveIsAsked ==
    ASSUME Basics, NEW g \in Graph, NEW backup \in BOOLEAN, AskSave(g, backup)
    PROVE  /\ SaveOp(g, backup) \in Op /\ OpAsked(SaveOp(g, backup)) /\ OpsTyped'
           /\ SaveOp(g, backup).kind = "save" /\ SaveOp(g, backup).id = g.id
           /\ SaveOp(g, backup).graph = g /\ SaveOp(g, backup).backup = backup
           /\ SaveOp(g, backup).pc = "asked"
           /\ saves' \in Nat
           /\ overlapped' = (overlapped \/ (adapter = "file" /\
                 \E i \in DOMAIN inFlight : inFlight[i].kind = "save" /\ inFlight[i].id = g.id))
           /\ overlapped' \in BOOLEAN
<1>1. g.id \in Ids /\ OpsTyped /\ AckedTyped /\ clock \in Nat /\ saves \in Nat /\ overlapped \in BOOLEAN
  BY DEF Basics, Typed, Graph, Counters
<1>2. LET op == SaveOp(g, backup) IN
      /\ op \in Op
      /\ op.kind = "save" /\ op.id = g.id /\ op.graph = g /\ op.backup = backup /\ op.pc = "asked"
  BY <1>1, OperationTyped DEF SaveOp
<1>3. Ask(SaveOp(g, backup)) /\ saves' = saves + 1
      /\ overlapped' = (overlapped \/ (adapter = "file" /\
            \E i \in DOMAIN inFlight : inFlight[i].kind = "save" /\ inFlight[i].id = g.id))
  BY DEF AskSave, SaveOp
<1>4. OpsTyped' /\ OpAsked(SaveOp(g, backup))
  BY <1>1, <1>2, <1>3, AskedAppends
<1>. HIDE DEF SaveOp
<1>5. overlapped' \in BOOLEAN
  BY <1>1, <1>3
<1>. QED  BY <1>1, <1>2, <1>3, <1>4, <1>5

\* What the names of a store with one new graph are.
LEMMA StoredNamed ==
    ASSUME Named, adapter' = adapter, NEW kept, Stored(Key(kept.graph.id), kept)
    PROVE  Named'
<1>1. ASSUME NEW k \in DOMAIN store'
      PROVE  IF adapter = "local" THEN k = 0 ELSE store'[k].graph.id = k
  <2>1. CASE k = Key(kept.graph.id)
    BY <2>1 DEF Stored, Key
  <2>2. CASE k # Key(kept.graph.id)
    BY <1>1, <2>2 DEF Stored, Named
  <2>. QED  BY <2>1, <2>2
<1>. QED  BY <1>1 DEF Named

LEMMA NamedStays == Named /\ UNCHANGED <<adapter, store>> => Named'
  BY DEF Named

\* A graph is written.
LEMMA PutKeeps ==
    ASSUME Typed, Named, adapter' = adapter, NEW state \in {"whole", "empty", "mixed"}, NEW g \in Graph,
           Put(Kept(state, g))
    PROVE  /\ StoreTyped' /\ Named' /\ clock' = clock + 1 /\ clock' \in Nat
           /\ Stored(Key(g.id), Kept(state, g))
<1>1. clock \in Nat /\ StoreTyped
  BY DEF Typed, Counters
<1>2. /\ Kept(state, g) \in KeptGraph
      /\ Kept(state, g).graph = g /\ Kept(state, g).stamp = clock + 1
  BY <1>1, KeptTyped
<1>3. Key(g.id) \in Ids
  BY Numbers DEF Key, Graph
<1>4. Stored(Key(Kept(state, g).graph.id), Kept(state, g)) /\ clock' = clock + 1
  BY PutStores
<1>5. Named'
  <2>. HIDE DEF Kept
  <2>. QED  BY <1>4, StoredNamed
<1>6. Stored(Key(g.id), Kept(state, g))
  BY <1>2, <1>4
<1>7. StoreTyped'
  <2>. HIDE DEF Kept
  <2>1. clock' \in Nat /\ clock <= clock' /\ Kept(state, g).stamp <= clock'
    BY <1>1, <1>2, <1>4
  <2>. QED  BY <1>1, <1>2, <1>3, <1>6, <2>1, StoredTyped
<1>. QED  BY <1>1, <1>4, <1>5, <1>6, <1>7

\* A graph is acknowledged, at some time until now, or given up.
LEMMA AckKeeps ==
    ASSUME AckedTyped, clock \in Nat, clock' \in Nat, clock <= clock',
           NEW id \in Ids, NEW s \in Nat, s <= clock', Ack(id, s)
    PROVE  AckedTyped' /\ acked'[id] = s /\ \A j \in Ids : j # id => acked'[j] = acked[j]
  BY DEF AckedTyped, Ack

LEMMA AckedStays ==
    ASSUME AckedTyped, clock \in Nat, clock' \in Nat, clock <= clock', UNCHANGED acked
    PROVE  AckedTyped'
  BY DEF AckedTyped


\* Graphs are put at risk.
LEMMA RiskKeeps ==
    ASSUME AckedTyped, clock \in Nat, clock' \in Nat, clock <= clock', NEW ids, Risk(ids)
    PROVE  AckedTyped' /\ \A j \in Ids : acked'[j] = IF j \in ids THEN 0 ELSE acked[j]
<1>1. \A j \in Ids : acked[j] \in Nat /\ acked[j] <= clock
  BY DEF AckedTyped
<1>2. acked' = [j \in Ids |-> IF j \in ids THEN 0 ELSE acked[j]]
  BY DEF Risk
<1>3. \A j \in Ids : acked'[j] = IF j \in ids THEN 0 ELSE acked[j]
  BY <1>2
<1>4. \A j \in Ids : acked'[j] \in Nat /\ acked'[j] <= clock'
  BY <1>1, <1>3
<1>. QED  BY <1>2, <1>3, <1>4 DEF AckedTyped

\* A copy is made: it is there, it is in no way of the copies of graphs that are
\* not lost by it, and it takes the place of an earlier one of its own graph only if
\* it is no older than what was acknowledged of that.
LEMMA CopiedKeeps ==
    ASSUME BackupsTyped, NEW kept \in KeptGraph, NEW n \in Places(kept), CopiedTo(n, kept),
           kept.state = "whole" => kept.stamp >= acked[kept.graph.id]
    PROVE  /\ BackupsTyped'
           /\ \E b \in DOMAIN backups' : backups'[b] = kept
           /\ \A id \in Ids :
                 id \notin LostAt(n, kept) /\ InBackup(backups, id, acked[id]) =>
                     InBackup(backups', id, acked[id])
<1>1. PICK l \in Nat : l = Len(backups) /\ DOMAIN backups = 1 .. l
  BY LenProperties DEF BackupsTyped
<1>0. \A b \in 1 .. l : backups[b] \in KeptGraph
  BY <1>1, ElementOfSeq DEF BackupsTyped
<1>2. n \in Nat /\ n >= 1 /\ (n = l + 1 \/ n = l)
  <2>1. n = l + 1 \/ (n = l /\ n > 0)
    BY <1>1 DEF Places
  <2>. QED  BY <2>1
<1>3. backups' = [b \in 1 .. n |-> IF b = n THEN kept ELSE backups[b]]
  BY DEF CopiedTo
<1>4. DOMAIN backups' = 1 .. n /\ n \in DOMAIN backups' /\ backups'[n] = kept
      /\ \A b \in 1 .. n : b # n => backups'[b] = backups[b]
  BY <1>2, <1>3
<1>5. BackupsTyped'
  <2>1. \A b \in 1 .. n : backups'[b] \in KeptGraph
    BY <1>0, <1>2, <1>4
  <2>2. backups' \in [1 .. n -> KeptGraph]
    BY <1>3, <2>1
  <2>. QED  BY <1>2, <2>2, SeqDef DEF BackupsTyped
<1>6. ASSUME NEW id \in Ids, id \notin LostAt(n, kept), InBackup(backups, id, acked[id])
      PROVE  InBackup(backups', id, acked[id])
  <2>1. PICK b \in DOMAIN backups : Copy(backups[b], id, acked[id])
    BY <1>6 DEF InBackup
  <2>2. CASE b # n
    <3>1. b \in DOMAIN backups' /\ backups'[b] = backups[b]
      BY <1>1, <1>2, <1>4, <2>2
    <3>. QED  BY <2>1, <3>1 DEF InBackup
  <2>3. CASE b = n
    <3>1. ~ (n > l) /\ backups[n].graph.id = id
      BY <1>1, <1>2, <2>1, <2>3 DEF Copy
    <3>2. kept.state = "whole" /\ kept.graph.id = id
      <4>1. CASE kept.state = "whole" /\ kept.graph.id = backups[n].graph.id
        BY <3>1, <4>1
      <4>2. CASE ~ (kept.state = "whole" /\ kept.graph.id = backups[n].graph.id)
        <5>1. ~ (n > Len(backups))
          BY <1>1, <3>1
        <5>2. LostAt(n, kept) = {backups[n].graph.id}
          BY <4>2, <5>1 DEF LostAt
        <5>. QED  BY <1>6, <3>1, <5>2
      <4>. QED  BY <4>1, <4>2
    <3>3. Copy(kept, id, acked[id])
      BY <3>2 DEF Copy
    <3>. QED  BY <1>4, <3>3 DEF InBackup
  <2>. QED  BY <2>2, <2>3
<1>. QED  BY <1>4, <1>5, <1>6

LEMMA EditBasics ==
    ASSUME Basics, Edit
    PROVE  Basics' /\ OpsLeft
<1>1. /\ Counters /\ GraphTyped /\ StoreTyped /\ AckedTyped /\ BackupsTyped /\ OpsTyped
      /\ Named /\ Operations
  BY DEF Typed, Basics
<1>3. Counters' /\ Later
  BY <1>1, SameTime DEF Edit, Counters
<1>4. GraphTyped'
  BY <1>1 DEF Edit, GraphTyped, Graph
<1>5. StoreTyped' /\ AckedTyped' /\ BackupsTyped' /\ Named'
  BY <1>1, NamedStays DEF Edit, StoreTyped, AckedTyped, BackupsTyped
<1>6. OpsTyped' /\ OpsLeft
  BY <1>1, UnchangedLeaves DEF Edit
<1>7. Operations'
  BY <1>1, <1>3, <1>6, LeftAreOk
<1>. QED  BY <1>3, <1>4, <1>5, <1>6, <1>7 DEF Typed, Basics

\* The graph, the storage and what is known of it stay as they are.
LEMMA StorageStays ==
    ASSUME Typed, Named, UNCHANGED <<adapter, graph, store, backups, clock, acked>>
    PROVE  GraphTyped' /\ StoreTyped' /\ AckedTyped' /\ BackupsTyped' /\ Named'
  BY NamedStays DEF Typed, GraphTyped, StoreTyped, AckedTyped, BackupsTyped

\* A save is asked for, by whatever call.
SaveAsked(g, backup) ==
    AskSave(g, backup) /\ UNCHANGED <<adapter, graph, store, backups, clock, sessions, acked>>

LEMMA SaveAskedBasics ==
    ASSUME Basics, adapter # "local", NEW g \in Graph, NEW backup \in BOOLEAN, SaveAsked(g, backup)
    PROVE  Basics' /\ OpAsked(SaveOp(g, backup))
<1>1. Typed /\ Named /\ Operations /\ Counters
  BY DEF Typed, Basics
<1>2. AskSave(g, backup) /\ UNCHANGED <<adapter, graph, store, backups, clock, sessions, acked>>
  BY DEF SaveAsked
<1>. DEFINE op == SaveOp(g, backup)
<1>3. /\ OpAsked(op) /\ OpsTyped' /\ saves' \in Nat /\ overlapped' \in BOOLEAN
      /\ op.kind = "save" /\ op.id = g.id /\ op.graph = g /\ op.pc = "asked"
  BY <1>2, SaveIsAsked
<1>. HIDE DEF op
<1>4. OpOK(op)
  BY <1>3 DEF OpOK, Graph
<1>5. Operations'
  BY <1>1, <1>2, <1>3, <1>4, SameTime, AskedIsOk
<1>6. Counters'
  BY <1>1, <1>2, <1>3 DEF Counters
<1>7. GraphTyped' /\ StoreTyped' /\ AckedTyped' /\ BackupsTyped' /\ Named'
  BY <1>1, <1>2, StorageStays
<1>. QED  BY <1>3, <1>5, <1>6, <1>7 DEF Typed, Basics, op

LEMMA SavesAreAsked ==
    ASSUME Basics, SaveGraph \/ RestoreBackup \/ (adapter # "local" /\ ImportGraph)
    PROVE  adapter # "local" /\ \E g \in Graph, backup \in BOOLEAN : SaveAsked(g, backup)
<1>1. CASE SaveGraph
  <2>1. adapter # "local" /\ SaveAsked(graph, Backups)
    BY <1>1 DEF SaveGraph, SaveAsked
  <2>2. graph \in Graph /\ Backups \in BOOLEAN
    BY Numbers DEF Basics, Typed, GraphTyped
  <2>. QED  BY <2>1, <2>2
<1>2. CASE RestoreBackup
  <2>1. PICK b \in DOMAIN backups : AskSave(backups[b].graph, TRUE)
    BY <1>2 DEF RestoreBackup
  <2>2. adapter # "local" /\ SaveAsked(backups[b].graph, TRUE)
    BY <1>2, <2>1 DEF RestoreBackup, SaveAsked
  <2>3. backups[b] \in KeptGraph
    BY LenProperties, ElementOfSeq DEF Basics, Typed, BackupsTyped
  <2>4. backups[b].graph \in Graph
    BY <2>3 DEF KeptGraph
  <2>5. TRUE \in BOOLEAN
    OBVIOUS
  <2>. QED  BY <2>2, <2>4, <2>5
<1>3. CASE adapter # "local" /\ ImportGraph
  <2>1. PICK g \in Texts \cup {store[k].graph : k \in {j \in DOMAIN store :
                  store[j].state = "whole" /\ (adapter = "indexed" => Loads(store[j]))}} :
          AskSave(g, adapter = "indexed" /\ Backups) /\ UNCHANGED <<store, clock, acked>>
    BY <1>3 DEF ImportGraph
  <2>2. UNCHANGED <<adapter, graph, backups, sessions>>
    BY <1>3 DEF ImportGraph
  <2>3. g \in Graph
    <3>1. \A k \in DOMAIN store : store[k].graph \in Graph
      BY DEF Basics, Typed, StoreTyped, KeptGraph
    <3>. QED  BY <3>1, Numbers
  <2>4. PICK backup \in BOOLEAN : backup = (adapter = "indexed" /\ Backups)
    OBVIOUS
  <2>5. SaveAsked(g, backup)
    BY <2>1, <2>2, <2>4 DEF SaveAsked
  <2>. QED  BY <1>3, <2>3, <2>5
<1>. QED  BY <1>1, <1>2, <1>3

\* A load that is asked for, or was read at once; it concerns no save.
LEMMA LoadGraphBasics ==
    ASSUME Basics, LoadGraph
    PROVE  /\ Basics'
           /\ \E op \in Op : /\ OpAsked(op) /\ op.kind = "load"
                             /\ adapter # "local" => op.pc = "asked" /\ op.since = Since(op.id)
<1>1. Typed /\ Named /\ Operations /\ Counters /\ StoreTyped /\ AckedTyped /\ OpsTyped /\ clock \in Nat
  BY DEF Typed, Basics, Counters
<1>2. UNCHANGED <<adapter, graph, store, backups, saves, clock, sessions, acked, overlapped>>
  BY DEF LoadGraph
<1>3. PICK id \in Ids \cup {Newest} :
        LET op == Operation("load", id, NoGraph, FALSE)
            there == 0 \in DOMAIN store /\ id \in {store[0].graph.id, Newest}
        IN  IF adapter = "local"
            THEN Ask([op EXCEPT !.pc = "read", !.found = IF there THEN store[0] ELSE Nothing])
            ELSE Ask(op)
  BY DEF LoadGraph
<1>. DEFINE op == Operation("load", id, NoGraph, FALSE)
            there == 0 \in DOMAIN store /\ id \in {store[0].graph.id, Newest}
            found == IF there THEN store[0] ELSE Nothing
            read == [op EXCEPT !.pc = "read", !.found = found]
<1>4. NoGraph \in Graph
  BY Numbers, GraphOfTyped DEF NoGraph
<1>5. op \in Op /\ op.kind = "load" /\ op.id = id /\ op.pc = "asked" /\ op.since = Since(id)
  <2>1. Since(id) \in Nat
    BY <1>1, SinceIsAcked
  <2>. HIDE DEF Since, Nothing, NoGraph
  <2>. QED  BY <1>4, <2>1 DEF Operation, Op
<1>6. IF adapter = "local" THEN Ask(read) ELSE Ask(op)
  BY <1>3
<1>7. found \in KeptGraph \cup {Nothing}
  BY <1>1 DEF StoreTyped
<1>. HIDE DEF op, found
<1>8. read \in Op /\ read.kind = "load" /\ read.pc = "read"
  BY <1>5, <1>7 DEF Op
<1>. HIDE DEF read
<1>. DEFINE asked == IF adapter = "local" THEN read ELSE op
<1>9. asked \in Op /\ Ask(asked) /\ asked.kind = "load"
      /\ (adapter # "local" => asked.pc = "asked" /\ asked.since = Since(asked.id))
      /\ asked.pc \in {"asked", "read"}
  BY <1>5, <1>6, <1>8
<1>. HIDE DEF asked
<1>10. OpAsked(asked) /\ OpsTyped'
  BY <1>1, <1>9, AskedAppends
<1>11. OpOK(asked)
  BY <1>9 DEF OpOK
<1>12. Operations'
  BY <1>1, <1>2, <1>10, <1>11, SameTime, AskedIsOk
<1>13. Counters'
  BY <1>1, <1>2 DEF Counters
<1>14. GraphTyped' /\ StoreTyped' /\ AckedTyped' /\ BackupsTyped' /\ Named'
  BY <1>1, <1>2, StorageStays
<1>15. Basics'
  BY <1>10, <1>12, <1>13, <1>14 DEF Typed, Basics
<1>. QED  BY <1>9, <1>10, <1>15

LEMMA DeleteGraphBasics ==
    ASSUME Basics, DeleteGraph
    PROVE  /\ Basics'
           /\ \E op \in Op : OpAsked(op) /\ op.kind = "delete"
<1>1. Typed /\ Named /\ Operations /\ Counters /\ StoreTyped /\ AckedTyped /\ OpsTyped /\ clock \in Nat
  BY DEF Typed, Basics, Counters
<1>2. UNCHANGED <<adapter, graph, store, backups, saves, clock, sessions, acked, overlapped>>
  BY DEF DeleteGraph
<1>3. PICK id \in DOMAIN store : Ask(Operation("delete", id, NoGraph, FALSE))
  BY DEF DeleteGraph
<1>. DEFINE op == Operation("delete", id, NoGraph, FALSE)
<1>4. NoGraph \in Graph /\ id \in Ids
  BY <1>1, Numbers, GraphOfTyped DEF NoGraph, StoreTyped
<1>5. op \in Op /\ op.kind = "delete" /\ op.id = id /\ op.pc = "asked"
  <2>1. Since(id) \in Nat
    BY <1>1, SinceIsAcked
  <2>. HIDE DEF Since, Nothing, NoGraph
  <2>. QED  BY <1>4, <2>1 DEF Operation, Op
<1>6. Ask(op)
  BY <1>3
<1>. HIDE DEF op
<1>7. OpAsked(op) /\ OpsTyped'
  BY <1>1, <1>5, <1>6, AskedAppends
<1>8. OpOK(op)
  BY <1>4, <1>5 DEF OpOK, DeleteGraph
<1>9. Operations'
  BY <1>1, <1>2, <1>7, <1>8, SameTime, AskedIsOk
<1>10. Counters'
  BY <1>1, <1>2 DEF Counters
<1>11. GraphTyped' /\ StoreTyped' /\ AckedTyped' /\ BackupsTyped' /\ Named'
  BY <1>1, <1>2, StorageStays
<1>12. Basics'
  BY <1>7, <1>9, <1>10, <1>11 DEF Typed, Basics
<1>. QED  BY <1>5, <1>7, <1>12

LEMMA ApplyLoadBasics ==
    ASSUME Basics, ApplyLoad
    PROVE  Basics' /\ OpsLeft
<1>1. Typed /\ Named /\ Operations /\ Counters /\ OpsTyped /\ graph \in Graph /\ graph.version = "current"
  BY DEF Typed, Basics, GraphTyped
<1>2. PICK i \in DOMAIN inFlight :
        /\ inFlight[i].pc = "read"
        /\ Answered(i)
        /\ LET found == inFlight[i].found
           IN  IF found # Nothing /\ Loads(found) /\ found.graph.version # "newer"
               THEN graph' = [Migrated(found.graph) EXCEPT !.told = TRUE]
               ELSE UNCHANGED graph
        /\ UNCHANGED <<adapter, store, backups, saves, clock, sessions, acked, overlapped>>
  BY DEF ApplyLoad
<1>. DEFINE found == inFlight[i].found
<1>3. found \in KeptGraph \cup {Nothing}
  BY <1>1, OpsAreNumbered DEF Op
<1>. HIDE DEF found
<1>4. GraphTyped'
  <2>1. CASE found # Nothing /\ Loads(found) /\ found.graph.version # "newer"
    <3>1. found.graph \in Graph /\ found.graph.version # "newer"
      BY <1>3, <2>1 DEF KeptGraph
    <3>2. Migrated(found.graph) \in Graph /\ Migrated(found.graph).version = "current"
      BY <3>1 DEF Graph, Migrated
    <3>3. graph' = [Migrated(found.graph) EXCEPT !.told = TRUE]
      BY <1>2, <2>1 DEF found
    <3>. QED  BY <3>2, <3>3 DEF GraphTyped, Graph
  <2>2. CASE ~ (found # Nothing /\ Loads(found) /\ found.graph.version # "newer")
    <3>1. graph' = graph
      BY <1>2, <2>2 DEF found
    <3>. QED  BY <1>1, <3>1 DEF GraphTyped
  <2>. QED  BY <2>1, <2>2
<1>5. OpsTyped' /\ OpsLeft
  BY <1>1, <1>2, AnsweredLeaves
<1>6. Operations'
  BY <1>1, <1>2, <1>5, SameTime, LeftAreOk
<1>7. Counters' /\ StoreTyped' /\ AckedTyped' /\ BackupsTyped' /\ Named'
  BY <1>1, <1>2, NamedStays DEF Counters, Typed, StoreTyped, AckedTyped, BackupsTyped
<1>. QED  BY <1>4, <1>5, <1>6, <1>7 DEF Typed, Basics

LEMMA RestartBasics ==
    ASSUME Basics, Restart
    PROVE  Basics' /\ OpsLeft
<1>1. Typed /\ Named /\ Operations /\ Counters
  BY DEF Typed, Basics
<1>2. /\ sessions < MaxSessions /\ sessions' = sessions + 1 /\ inFlight' = <<>>
      /\ UNCHANGED <<adapter, store, backups, saves, clock, acked, overlapped>>
  BY DEF Restart
<1>3. sessions' \in 1 .. MaxSessions
  BY <1>1, <1>2, Numbers DEF Counters
<1>4. GraphTyped'
  <2>1. PICK told \in BOOLEAN : graph' = GraphOf(sessions', "current", told, FALSE)
    BY DEF Restart
  <2>2. sessions' \in Ids
    BY <1>3, Numbers
  <2>. QED  BY <2>1, <2>2, Numbers DEF GraphOf, GraphTyped, Graph
<1>5. OpsTyped' /\ OpsLeft
  BY <1>2, RestartLeavesNone
<1>6. Operations'
  BY <1>1, <1>2, <1>5, SameTime, LeftAreOk
<1>7. Counters' /\ StoreTyped' /\ AckedTyped' /\ BackupsTyped' /\ Named'
  BY <1>1, <1>2, <1>3, NamedStays DEF Counters, Typed, StoreTyped, AckedTyped, BackupsTyped
<1>. QED  BY <1>4, <1>5, <1>6, <1>7 DEF Typed, Basics

-----------------------------------------------------------------------------
(* What the adapters do.                                                   *)

\* Where no more is acknowledged, copies of what was are still there.
CopiesStay ==
    \A id \in Ids :
        acked'[id] = acked[id] /\ acked[id] > 0 /\ InBackup(backups, id, acked[id]) =>
            InBackup(backups', id, acked[id])

\* The storage stays, and graphs are at most put at risk.
OnlyRisked ==
    /\ UNCHANGED <<store, clock>>
    /\ AckedTyped' /\ \A j \in Ids : acked'[j] \in {acked[j], 0}
    /\ CopiesStay

LEMMA NothingRisked ==
    ASSUME Basics, UNCHANGED <<store, clock, acked, backups>>
    PROVE  OnlyRisked
  BY DEF OnlyRisked, CopiesStay, Basics, Typed, AckedTyped

LEMMA CopyRisks ==
    ASSUME Basics, NewestInKey, UNCHANGED <<store, clock>>, NEW k \in DOMAIN store,
           NEW n \in Places(store[k]), CopiedTo(n, store[k]), Risk(LostAt(n, store[k]))
    PROVE  /\ BackupsTyped' /\ OnlyRisked
           /\ \E b \in DOMAIN backups' : backups'[b] = store[k]
           /\ \A j \in Ids : j \notin LostAt(n, store[k]) => acked'[j] = acked[j]
<1>1. /\ BackupsTyped /\ StoreTyped /\ AckedTyped /\ clock \in Nat
      /\ clock' \in Nat /\ clock <= clock'
  BY DEF Basics, Typed, Counters
<1>. DEFINE kept == store[k]
<1>2. kept \in KeptGraph /\ (kept.state = "whole" => kept.stamp >= acked[kept.graph.id])
  BY <1>1 DEF StoreTyped, NewestInKey
<1>3. n \in Places(kept) /\ CopiedTo(n, kept) /\ Risk(LostAt(n, kept))
  OBVIOUS
<1>. HIDE DEF kept
<1>4. /\ BackupsTyped'
      /\ \E b \in DOMAIN backups' : backups'[b] = kept
      /\ \A id \in Ids :
            id \notin LostAt(n, kept) /\ InBackup(backups, id, acked[id]) => InBackup(backups', id, acked[id])
  BY <1>1, <1>2, <1>3, CopiedKeeps
<1>5. AckedTyped' /\ \A j \in Ids : acked'[j] = IF j \in LostAt(n, kept) THEN 0 ELSE acked[j]
  BY <1>1, <1>3, RiskKeeps
<1>. HIDE DEF LostAt
<1>6. CopiesStay
  BY <1>4, <1>5 DEF CopiesStay
<1>7. \A j \in Ids : acked'[j] \in {acked[j], 0}
  BY <1>5
<1>. QED  BY <1>4, <1>5, <1>6, <1>7 DEF OnlyRisked, kept

\* The one place of localStorage has a new graph.
LEMMA LocalPutKeeps ==
    ASSUME Basics, adapter = "local", adapter' = adapter, NEW g \in Graph, NEW lost, LocalPut(g, lost)
    PROVE  /\ StoreTyped' /\ AckedTyped' /\ Named' /\ clock' \in Nat /\ clock' = clock + 1
           /\ Stored(0, Kept("whole", g))
           /\ \A j \in Ids : acked'[j] = IF j = g.id THEN clock' ELSE IF j \in lost THEN 0 ELSE acked[j]
<1>1. Typed /\ Named /\ clock \in Nat /\ AckedTyped
  BY DEF Basics, Typed, Counters
<1>2. Put(Kept("whole", g))
      /\ acked' = [id \in Ids |-> IF id = g.id THEN clock' ELSE IF id \in lost THEN 0 ELSE acked[id]]
  BY DEF LocalPut
<1>3. StoreTyped' /\ Named' /\ clock' = clock + 1 /\ clock' \in Nat /\ Stored(Key(g.id), Kept("whole", g))
  BY <1>1, <1>2, PutKeeps
<1>4. Key(g.id) = 0
  BY DEF Key
<1>5. \A j \in Ids : acked'[j] = IF j = g.id THEN clock' ELSE IF j \in lost THEN 0 ELSE acked[j]
  BY <1>2
<1>6. \A j \in Ids : acked[j] \in Nat /\ acked[j] <= clock
  BY <1>1 DEF AckedTyped
<1>7. \A j \in Ids : acked'[j] \in Nat /\ acked'[j] <= clock'
  BY <1>1, <1>3, <1>5, <1>6
<1>8. AckedTyped'
  BY <1>2, <1>7 DEF AckedTyped
<1>. QED  BY <1>3, <1>4, <1>5, <1>8

\* It is put at the expense of the graphs that are lost and no others.
PutWell(g, lost) ==
    /\ LocalPut(g, lost)
    /\ \A id \in Ids :
           id # g.id /\ id \notin lost /\ acked[id] > 0 /\ Safe(id) => InBackup(backups', id, acked[id])

LEMMA InSlot ==
    ASSUME Basics, adapter = "local", NEW id, NEW s, InStore(store, id, s)
    PROVE  0 \in DOMAIN store /\ Copy(store[0], id, s) /\ id \in Slot
  BY DEF Basics, Named, InStore, Copy, Slot

LEMMA BarePutsWell ==
    ASSUME Basics, adapter = "local", NEW g \in Graph, LocalPut(g, Slot), UNCHANGED backups
    PROVE  PutWell(g, Slot)
  BY InSlot DEF PutWell, Safe

LEMMA CopiedPutsWell ==
    ASSUME Basics, NewestInKey, adapter = "local", NEW g \in Graph, 0 \in DOMAIN store,
           NEW n \in Places(store[0]), CopiedTo(n, store[0]), LocalPut(g, LostAt(n, store[0]))
    PROVE  BackupsTyped' /\ PutWell(g, LostAt(n, store[0]))
<1>. DEFINE kept == store[0]
            lost == LostAt(n, kept)
<1>1. BackupsTyped /\ kept \in KeptGraph /\ (kept.state = "whole" => kept.stamp >= acked[kept.graph.id])
  BY DEF Basics, Typed, StoreTyped, NewestInKey
<1>2. n \in Places(kept) /\ CopiedTo(n, kept) /\ LocalPut(g, lost)
  OBVIOUS
<1>. HIDE DEF kept
<1>3. /\ BackupsTyped'
      /\ \E b \in DOMAIN backups' : backups'[b] = kept
      /\ \A id \in Ids : id \notin lost /\ InBackup(backups, id, acked[id]) => InBackup(backups', id, acked[id])
  BY <1>1, <1>2, CopiedKeeps
<1>. HIDE DEF lost
<1>4. ASSUME NEW id \in Ids, id \notin lost, acked[id] > 0, Safe(id)
      PROVE  InBackup(backups', id, acked[id])
  <2>1. CASE InBackup(backups, id, acked[id])
    BY <1>3, <1>4, <2>1
  <2>2. CASE InStore(store, id, acked[id])
    <3>1. Copy(kept, id, acked[id])
      BY <2>2, InSlot DEF kept
    <3>. QED  BY <1>3, <3>1 DEF InBackup
  <2>. QED  BY <1>4, <2>1, <2>2 DEF Safe
<1>5. PutWell(g, lost)
  BY <1>2, <1>4 DEF PutWell
<1>. QED  BY <1>3, <1>5 DEF lost, kept

LEMMA LocalWays ==
    ASSUME Basics, NewestInKey, adapter = "local", LocalSaves \/ ImportGraph
    PROVE  /\ UNCHANGED <<adapter, graph, inFlight, sessions, overlapped>>
           /\ saves' \in Nat /\ BackupsTyped'
           /\ OnlyRisked \/ \E g \in Graph : \E lost : PutWell(g, lost)
<1>1. BackupsTyped /\ saves \in Nat /\ graph \in Graph /\ StoreTyped
  BY DEF Basics, Typed, Counters, GraphTyped
<1>2. CASE LocalSaves
  <2>1. saves' \in Nat /\ UNCHANGED <<adapter, graph, inFlight, sessions, overlapped>>
    BY <1>1, <1>2 DEF LocalSaves
  <2>2. CASE LocalSavesBare
    <3>1. LocalPut(graph, Slot) /\ UNCHANGED backups
      BY <2>2 DEF LocalSavesBare
    <3>2. PutWell(graph, Slot) /\ BackupsTyped'
      BY <1>1, <3>1, BarePutsWell DEF BackupsTyped
    <3>. QED  BY <1>1, <2>1, <3>2
  <2>3. CASE LocalSavesCopied
    <3>1. 0 \in DOMAIN store
      BY <2>3 DEF LocalSavesCopied
    <3>2. PICK n \in Places(store[0]) :
            /\ CopiedTo(n, store[0])
            /\ \/ LocalPut(graph, LostAt(n, store[0]))
               \/ Risk(LostAt(n, store[0])) /\ UNCHANGED <<store, clock>>
      BY <2>3 DEF LocalSavesCopied
    <3>3. CASE LocalPut(graph, LostAt(n, store[0]))
      <4>1. BackupsTyped' /\ PutWell(graph, LostAt(n, store[0]))
        BY <1>1, <3>1, <3>2, <3>3, CopiedPutsWell
      <4>. QED  BY <1>1, <2>1, <4>1
    <3>4. CASE Risk(LostAt(n, store[0])) /\ UNCHANGED <<store, clock>>
      <4>1. BackupsTyped' /\ OnlyRisked
        BY <3>1, <3>2, <3>4, CopyRisks
      <4>. QED  BY <2>1, <4>1
    <3>. QED  BY <3>2, <3>3, <3>4
  <2>4. CASE UNCHANGED <<store, backups, clock, acked>>
    BY <1>1, <2>1, <2>4, NothingRisked DEF BackupsTyped
  <2>. QED  BY <1>2, <2>2, <2>3, <2>4 DEF LocalSaves
<1>3. CASE ImportGraph
  <2>1. PICK g \in Texts \cup {store[k].graph : k \in {j \in DOMAIN store :
                  store[j].state = "whole" /\ (adapter = "indexed" => Loads(store[j]))}} :
          LocalPut(g, Slot) /\ UNCHANGED <<inFlight, saves, overlapped>>
    BY <1>3 DEF ImportGraph
  <2>2. UNCHANGED <<adapter, graph, backups, sessions>>
    BY <1>3 DEF ImportGraph
  <2>3. g \in Graph
    <3>1. \A k \in DOMAIN store : store[k].graph \in Graph
      BY <1>1 DEF StoreTyped, KeptGraph
    <3>. QED  BY <3>1, Numbers
  <2>4. PutWell(g, Slot) /\ BackupsTyped'
    BY <1>1, <2>1, <2>2, <2>3, BarePutsWell DEF BackupsTyped
  <2>. QED  BY <1>1, <2>1, <2>2, <2>3, <2>4
<1>. QED  BY <1>2, <1>3

\* What a key holds is the newest of its graph, where nothing new is promised, or
\* of the graph that is put there.
LEMMA NewestStays ==
    ASSUME Basics, NewestInKey, UNCHANGED store, \A j \in Ids : acked'[j] \in {acked[j], 0}
    PROVE  NewestInKey'
<1>1. ASSUME NEW k \in DOMAIN store, store[k].state = "whole"
      PROVE  store[k].stamp >= acked'[store[k].graph.id]
  <2>1. store[k].stamp \in Nat /\ store[k].graph.id \in Ids
    BY DEF Basics, Typed, StoreTyped, KeptGraph, Graph
  <2>2. store[k].stamp >= acked[store[k].graph.id]
    BY <1>1 DEF NewestInKey
  <2>3. acked'[store[k].graph.id] \in {acked[store[k].graph.id], 0}
    BY <2>1
  <2>. QED  BY <2>1, <2>2, <2>3
<1>. QED  BY <1>1 DEF NewestInKey

LEMMA NewestStored ==
    ASSUME Basics, NewestInKey, NEW key, NEW kept, Stored(key, kept),
           kept.state = "whole" => kept.stamp >= acked'[kept.graph.id],
           \A k \in DOMAIN store : k # key => acked'[store[k].graph.id] \in {acked[store[k].graph.id], 0}
    PROVE  NewestInKey'
<1>1. ASSUME NEW k \in DOMAIN store', store'[k].state = "whole"
      PROVE  store'[k].stamp >= acked'[store'[k].graph.id]
  <2>1. CASE k = key
    BY <1>1, <2>1 DEF Stored
  <2>2. CASE k # key
    <3>1. k \in DOMAIN store /\ store'[k] = store[k]
      BY <2>2 DEF Stored
    <3>2. store[k].stamp \in Nat
      BY <3>1 DEF Basics, Typed, StoreTyped, KeptGraph
    <3>3. store[k].stamp >= acked[store[k].graph.id]
      BY <1>1, <3>1 DEF NewestInKey
    <3>4. acked'[store[k].graph.id] \in {acked[store[k].graph.id], 0}
      BY <2>2, <3>1
    <3>. QED  BY <3>1, <3>2, <3>3, <3>4
  <2>. QED  BY <2>1, <2>2
<1>. QED  BY <1>1 DEF NewestInKey

LEMMA LocalBasics ==
    ASSUME Basics, NewestInKey, adapter = "local", LocalSaves \/ ImportGraph
    PROVE  /\ Basics' /\ adapter' = adapter /\ NewestInKey'
           /\ \A id \in Ids : Safe(id) => Safe(id)'
<1>1. Typed /\ Named /\ Operations /\ Counters /\ OpsTyped /\ AckedTyped /\ StoreTyped /\ clock \in Nat
  BY DEF Typed, Basics, Counters
<1>2. /\ UNCHANGED <<adapter, graph, inFlight, sessions, overlapped>>
      /\ saves' \in Nat /\ BackupsTyped'
      /\ OnlyRisked \/ \E g \in Graph : \E lost : PutWell(g, lost)
  BY LocalWays
<1>3. /\ StoreTyped' /\ AckedTyped' /\ Named' /\ clock' \in Nat /\ Later /\ NewestInKey'
      /\ \A id \in Ids : Safe(id) => Safe(id)'
  <2>1. CASE OnlyRisked
    <3>1. UNCHANGED <<store, clock>> /\ AckedTyped' /\ CopiesStay
          /\ \A j \in Ids : acked'[j] \in {acked[j], 0}
      BY <2>1 DEF OnlyRisked
    <3>2. StoreTyped' /\ Named' /\ Later
      BY <1>1, <1>2, <3>1, NamedStays, SameTime DEF StoreTyped
    <3>3. NewestInKey'
      BY <3>1, NewestStays
    <3>4. ASSUME NEW id \in Ids, Safe(id)
          PROVE  Safe(id)'
      BY <3>1, <3>4 DEF Safe, CopiesStay
    <3>. QED  BY <1>1, <3>1, <3>2, <3>3, <3>4
  <2>2. CASE \E g \in Graph : \E lost : PutWell(g, lost)
    <3>1. PICK g \in Graph : \E lost : PutWell(g, lost)
      BY <2>2
    <3>2. PICK lost : PutWell(g, lost)
      BY <3>1
    <3>3. LocalPut(g, lost)
          /\ \A id \in Ids :
               id # g.id /\ id \notin lost /\ acked[id] > 0 /\ Safe(id) => InBackup(backups', id, acked[id])
      BY <3>2 DEF PutWell
    <3>. DEFINE kept == Kept("whole", g)
    <3>4. /\ StoreTyped' /\ AckedTyped' /\ Named' /\ clock' \in Nat /\ clock' = clock + 1
          /\ Stored(0, kept)
          /\ \A j \in Ids : acked'[j] = IF j = g.id THEN clock' ELSE IF j \in lost THEN 0 ELSE acked[j]
      BY <1>2, <3>3, LocalPutKeeps
    <3>5. kept.state = "whole" /\ kept.graph = g /\ kept.stamp = clock + 1 /\ g.id \in Ids
      BY <1>1, KeptTyped DEF Graph
    <3>. HIDE DEF kept
    <3>6. Later
      BY <1>1, <1>2, <3>4 DEF Later
    <3>7. NewestInKey'
      <4>1. kept.stamp >= acked'[kept.graph.id]
        BY <1>1, <3>4, <3>5
      <4>2. \A k \in DOMAIN store : k = 0
        BY <1>1 DEF Named
      <4>. QED  BY <3>4, <4>1, <4>2, NewestStored
    <3>8. ASSUME NEW id \in Ids, Safe(id)
          PROVE  Safe(id)'
      <4>1. CASE id = g.id
        <5>1. Copy(kept, id, clock + 1) /\ acked'[id] = clock + 1
          BY <1>1, <3>4, <3>5, <4>1 DEF Copy
        <5>2. 0 \in DOMAIN store' /\ store'[0] = kept
          BY <3>4 DEF Stored
        <5>. QED  BY <5>1, <5>2 DEF Safe, InStore
      <4>2. CASE id # g.id /\ id \in lost
        BY <3>4, <4>2 DEF Safe
      <4>3. CASE id # g.id /\ id \notin lost
        <5>1. acked'[id] = acked[id]
          BY <3>4, <4>3
        <5>2. acked[id] > 0 => InBackup(backups', id, acked[id])
          BY <3>3, <3>8, <4>3
        <5>. QED  BY <5>1, <5>2 DEF Safe
      <4>. QED  BY <4>1, <4>2, <4>3
    <3>. QED  BY <3>4, <3>6, <3>7, <3>8
  <2>. QED  BY <1>2, <2>1, <2>2
<1>4. OpsTyped' /\ OpsLeft
  BY <1>1, <1>2, UnchangedLeaves
<1>5. Operations'
  BY <1>1, <1>3, <1>4, LeftAreOk
<1>6. Counters' /\ GraphTyped'
  BY <1>1, <1>2, <1>3 DEF Counters, GraphTyped, Typed
<1>. QED  BY <1>2, <1>3, <1>4, <1>5, <1>6 DEF Typed, Basics

\* A graph has been put and is not committed.
PutOp(op) == [op EXCEPT !.pc = "put", !.found = Kept("whole", op.graph)]

LEMMA IndexedSavesBasics ==
    ASSUME Basics, NEW i \in DOMAIN inFlight, IndexedSaves(i)
    PROVE  /\ Basics' /\ UNCHANGED <<adapter, store, acked>>
           /\ OpsLeft \/ OpChanged(i, PutOp(inFlight[i]))
           /\ LET put == PutOp(inFlight[i]) IN
              put.kind = "save" /\ put.pc = "put" /\ put.found.stamp = clock + 1
<1>1. Typed /\ Named /\ Operations /\ Counters /\ BackupsTyped /\ StoreTyped /\ AckedTyped /\ OpsTyped
      /\ clock \in Nat
  BY DEF Typed, Basics, Counters
<1>. DEFINE op == inFlight[i]
            kept == Kept("whole", op.graph)
<1>2. op \in Op /\ OpOK(op)
  BY <1>1, OpsAreNumbered DEF Operations
<1>3. /\ op.kind = "save" /\ adapter = "indexed"
      /\ \/ inFlight' = [inFlight EXCEPT ![i].pc = "put", ![i].found = kept] /\ clock' = clock + 1
         \/ Answered(i) /\ UNCHANGED clock
      /\ backups' = Append(backups, kept) \/ UNCHANGED backups
      /\ UNCHANGED <<adapter, graph, store, saves, sessions, acked, overlapped>>
  BY DEF IndexedSaves, IsNext
<1>4. op.graph \in Graph /\ op.id = op.graph.id /\ op.id \in Ids
  BY <1>2, <1>3 DEF Op, OpOK
<1>5. kept \in KeptGraph /\ kept.state = "whole" /\ kept.graph = op.graph /\ kept.stamp = clock + 1
  BY <1>1, <1>4, KeptTyped
<1>6. PICK put : put = PutOp(op) /\ put = [op EXCEPT !.pc = "put", !.found = kept]
  BY DEF PutOp
<1>. HIDE DEF kept
<1>7. BackupsTyped'
  <2>1. Append(backups, kept) \in Seq(KeptGraph)
    BY <1>1, <1>5, AppendProperties DEF BackupsTyped
  <2>. QED  BY <1>1, <1>3, <2>1 DEF BackupsTyped
<1>8. /\ put \in Op /\ put.kind = "save" /\ put.id = op.id /\ put.graph = op.graph /\ put.pc = "put"
      /\ put.found = kept
  <2>. HIDE DEF op
  <2>. QED  BY <1>2, <1>3, <1>5, <1>6 DEF Op
<1>9. clock' \in Nat /\ Later
  BY <1>1, <1>3 DEF Later
<1>10. OpsTyped' /\ Operations' /\ (OpsLeft \/ OpChanged(i, put))
  <2>1. CASE inFlight' = [inFlight EXCEPT ![i].pc = "put", ![i].found = kept] /\ clock' = clock + 1
    <3>1. inFlight' = [inFlight EXCEPT ![i] = put]
      BY <1>6, <2>1
    <3>2. OpsTyped' /\ OpChanged(i, put)
      BY <1>1, <1>8, <3>1, ExceptChanges
    <3>3. OpOK(put)'
      <4>1. kept.stamp <= clock'
        BY <1>1, <1>5, <2>1
      <4>2. /\ put.found \in KeptGraph /\ put.found.state = "whole" /\ put.found.graph.id = put.id
            /\ put.found.stamp <= clock'
        BY <1>4, <1>5, <1>8, <4>1
      <4>3. PutOK(put)'
        BY <4>2 DEF PutOK
      <4>4. put.kind = "save" /\ put.pc = "put" /\ put.id = put.graph.id /\ put.id \in Ids
            /\ adapter' = "indexed"
        BY <1>3, <1>4, <1>8
      <4>. QED  BY <4>3, <4>4 DEF OpOK
    <3>4. Operations'
      BY <1>1, <1>9, <3>2, <3>3, ChangedIsOk
    <3>. QED  BY <3>2, <3>4
  <2>2. CASE Answered(i) /\ UNCHANGED clock
    <3>1. OpsTyped' /\ OpsLeft
      BY <1>1, <2>2, AnsweredLeaves
    <3>2. Operations'
      BY <1>1, <1>9, <3>1, LeftAreOk
    <3>. QED  BY <3>1, <3>2
  <2>. QED  BY <1>3, <2>1, <2>2
<1>11. StoreTyped' /\ AckedTyped' /\ Named' /\ Counters' /\ GraphTyped'
  <2>1. StoreTyped'
    <3>1. ASSUME NEW k \in DOMAIN store
          PROVE  store[k] \in KeptGraph /\ store[k].stamp <= clock'
      BY <1>1, <1>9 DEF StoreTyped, Later, KeptGraph
    <3>. QED  BY <1>1, <1>3, <3>1 DEF StoreTyped
  <2>2. AckedTyped'
    BY <1>1, <1>3, <1>9, AckedStays DEF Later
  <2>. QED  BY <1>1, <1>3, <1>9, <2>1, <2>2, NamedStays DEF Counters, GraphTyped, Typed
<1>12. Basics'
  BY <1>7, <1>10, <1>11 DEF Typed, Basics
<1>. QED  BY <1>3, <1>5, <1>6, <1>8, <1>10, <1>12 DEF op

\* What was put is in the storage, and acknowledged.
LEMMA IndexedCommitsBasics ==
    ASSUME Basics, NEW i \in DOMAIN inFlight, IndexedCommits(i)
    PROVE  /\ Basics' /\ adapter' = adapter /\ OpsLeft /\ OpGone(i)
           /\ LET op == inFlight[i] IN
              /\ op.pc = "put" /\ op.id \in Ids /\ op.found.stamp \in Nat
              /\ op.found.state = "whole" /\ op.found.graph.id = op.id
              /\ Stored(op.id, op.found)
              /\ acked'[op.id] = op.found.stamp
              /\ \A j \in Ids : j # op.id => acked'[j] = acked[j]
<1>1. Typed /\ Named /\ Operations /\ Counters /\ BackupsTyped /\ StoreTyped /\ AckedTyped /\ OpsTyped
      /\ clock \in Nat
  BY DEF Typed, Basics, Counters
<1>. DEFINE op == inFlight[i]
            id == op.id
            found == op.found
<1>2. op \in Op /\ OpOK(op)
  BY <1>1, OpsAreNumbered DEF Operations
<1>3. /\ op.pc = "put" /\ adapter = "indexed" /\ Answered(i)
      /\ store' = [k \in DOMAIN store \cup {id} |-> IF k = id THEN found ELSE store[k]]
      /\ Ack(id, found.stamp)
      /\ UNCHANGED <<adapter, graph, backups, saves, clock, sessions, overlapped>>
  BY DEF IndexedCommits
<1>4. /\ id \in Ids /\ found \in KeptGraph /\ found.state = "whole" /\ found.graph.id = id
      /\ found.stamp <= clock
  BY <1>2, <1>3 DEF OpOK, PutOK
<1>5. found.stamp \in Nat
  BY <1>4 DEF KeptGraph
<1>. HIDE DEF op, id, found
<1>6. Stored(id, found)
  BY <1>3 DEF Stored
<1>7. clock' = clock /\ clock' \in Nat /\ clock <= clock' /\ found.stamp <= clock'
  BY <1>1, <1>3, <1>4
<1>8. StoreTyped'
  BY <1>1, <1>4, <1>6, <1>7, StoredTyped
<1>9. Named'
  <2>1. Key(found.graph.id) = id
    BY <1>3, <1>4 DEF Key
  <2>2. Stored(Key(found.graph.id), found) /\ adapter' = adapter
    BY <1>3, <1>6, <2>1
  <2>. QED  BY <1>1, <2>2, StoredNamed
<1>10. AckedTyped' /\ acked'[id] = found.stamp /\ \A j \in Ids : j # id => acked'[j] = acked[j]
  BY <1>1, <1>3, <1>4, <1>5, <1>7, AckKeeps
<1>11. OpsTyped' /\ OpsLeft /\ OpGone(i)
  BY <1>1, <1>3, AnsweredLeaves
<1>12. Operations'
  BY <1>1, <1>3, <1>11, SameTime, LeftAreOk
<1>13. Counters' /\ GraphTyped' /\ BackupsTyped'
  BY <1>1, <1>3 DEF Counters, GraphTyped, BackupsTyped, Typed
<1>14. Basics'
  BY <1>8, <1>9, <1>10, <1>11, <1>12, <1>13 DEF Typed, Basics
<1>. QED  BY <1>3, <1>4, <1>5, <1>6, <1>10, <1>11, <1>14 DEF found, id, op

LEMMA SameLength ==
    ASSUME NEW m \in Nat, NEW n \in Nat, 1 .. m = 1 .. n
    PROVE  m = n
<1>1. m > 0 => m \in 1 .. n
  OBVIOUS
<1>2. n > 0 => n \in 1 .. m
  OBVIOUS
<1>. QED  BY <1>1, <1>2

\* What was put is withdrawn, and no load is promised it any more.
LEMMA IndexedAbortsBasics ==
    ASSUME Basics, NEW i \in DOMAIN inFlight, IndexedAborts(i)
    PROVE  /\ Basics' /\ UNCHANGED <<adapter, store, acked>> /\ OpsLeft /\ OpGone(i)
           /\ inFlight[i].pc = "put"
           /\ \A p \in DOMAIN inFlight' : inFlight'[p].since > 0 => inFlight'[p].since # inFlight[i].found.stamp
<1>1. Typed /\ Named /\ Operations /\ Counters /\ BackupsTyped /\ StoreTyped /\ AckedTyped /\ OpsTyped
      /\ clock \in Nat
  BY DEF Typed, Basics, Counters
<1>. DEFINE stamp == inFlight[i].found.stamp
            w == [j \in DOMAIN inFlight |-> Withdrawn(inFlight[j], stamp)]
<1>2. /\ inFlight[i].pc = "put" /\ inFlight' = RemoveAt(w, i)
      /\ UNCHANGED <<adapter, graph, store, backups, saves, clock, sessions, acked, overlapped>>
  BY DEF IndexedAborts
<1>. HIDE DEF stamp
<1>3. /\ Len(inFlight) \in Nat /\ DOMAIN inFlight = 1 .. Len(inFlight)
      /\ \A j \in DOMAIN inFlight : inFlight[j] \in Op
  BY <1>1, OpsAreNumbered
<1>4. ASSUME NEW op \in Op
      PROVE  /\ Withdrawn(op, stamp) \in Op /\ Same(Withdrawn(op, stamp), op)
             /\ Withdrawn(op, stamp).since > 0 => Withdrawn(op, stamp).since # stamp
  BY DEF Withdrawn, Same, Op
<1>5. \A j \in DOMAIN inFlight : w[j] \in Op /\ Same(w[j], inFlight[j]) /\ (w[j].since > 0 => w[j].since # stamp)
  <2>1. ASSUME NEW j \in DOMAIN inFlight
        PROVE  w[j] \in Op /\ Same(w[j], inFlight[j]) /\ (w[j].since > 0 => w[j].since # stamp)
    <3>1. PICK op \in Op : op = inFlight[j]
      BY <1>3
    <3>2. w[j] = Withdrawn(op, stamp)
      BY <3>1
    <3>. QED  BY <1>4, <3>1, <3>2
  <2>. QED  BY <2>1
<1>6. w \in Seq(Op) /\ Len(w) = Len(inFlight)
  <2>1. w \in [1 .. Len(inFlight) -> Op]
    BY <1>3, <1>5
  <2>2. w \in Seq(Op)
    BY <1>3, <2>1, SeqDef
  <2>3. DOMAIN w = 1 .. Len(w) /\ Len(w) \in Nat
    BY <2>2, LenProperties
  <2>4. 1 .. Len(w) = 1 .. Len(inFlight)
    BY <1>3, <2>3
  <2>. HIDE DEF w
  <2>. QED  BY <1>3, <2>2, <2>3, <2>4, SameLength
<1>. HIDE DEF w
<1>7. OpsTyped' /\ OpsLeft /\ OpGone(i)
  BY <1>1, <1>2, <1>5, <1>6, RemovedLeaves
<1>8. \A p \in DOMAIN inFlight' : \E j \in DOMAIN inFlight : inFlight'[p] = w[j]
  <2>1. i \in 1 .. Len(w)
    BY <1>3, <1>6
  <2>2. /\ RemoveAt(w, i) \in Seq(Op) /\ Len(RemoveAt(w, i)) = Len(w) - 1
        /\ \A j \in 1 .. Len(w) - 1 : Skip(i, j) \in 1 .. Len(w) /\ RemoveAt(w, i)[j] = w[Skip(i, j)]
    BY <1>6, <2>1, RemoveAtProperties
  <2>3. DOMAIN inFlight' = 1 .. Len(w) - 1
    BY <1>2, <2>2, LenProperties
  <2>. QED  BY <1>2, <1>3, <1>6, <2>2, <2>3
<1>9. \A p \in DOMAIN inFlight' : inFlight'[p].since > 0 => inFlight'[p].since # stamp
  BY <1>5, <1>8
<1>10. Operations'
  BY <1>1, <1>2, <1>7, SameTime, LeftAreOk
<1>11. Counters' /\ GraphTyped' /\ StoreTyped' /\ AckedTyped' /\ BackupsTyped' /\ Named'
  BY <1>1, <1>2, StorageStays DEF Counters
<1>12. Basics'
  BY <1>7, <1>10, <1>11 DEF Typed, Basics
<1>. QED  BY <1>2, <1>7, <1>9, <1>12 DEF stamp

\* The graph is gone, or nothing is known of it any more, or it is as it was.
LEMMA IndexedDeletesBasics ==
    ASSUME Basics, NEW i \in DOMAIN inFlight, IndexedDeletes(i)
    PROVE  /\ Basics' /\ adapter' = adapter /\ OpsLeft
           /\ LET id == inFlight[i].id IN
              /\ \A k \in DOMAIN store : k # id => k \in DOMAIN store'
              /\ \A k \in DOMAIN store' : k \in DOMAIN store /\ store'[k] = store[k]
              /\ acked'[id] = 0 \/ UNCHANGED <<store, acked>>
              /\ \A j \in Ids : acked'[j] \in {acked[j], 0} /\ (j # id => acked'[j] = acked[j])
<1>1. Typed /\ Named /\ Operations /\ Counters /\ BackupsTyped /\ StoreTyped /\ AckedTyped /\ OpsTyped
      /\ clock \in Nat
  BY DEF Typed, Basics, Counters
<1>. DEFINE op == inFlight[i]
            id == op.id
<1>2. op \in Op /\ OpOK(op)
  BY <1>1, OpsAreNumbered DEF Operations
<1>3. /\ op.kind = "delete" /\ adapter = "indexed" /\ Answered(i)
      /\ \/ store' = [k \in DOMAIN store \ {id} |-> store[k]] /\ Ack(id, 0)
         \/ UNCHANGED <<store, acked>>
         \/ Ack(id, 0) /\ UNCHANGED store
      /\ UNCHANGED <<adapter, graph, backups, saves, clock, sessions, overlapped>>
  BY DEF IndexedDeletes, IsNext
<1>4. id \in Ids
  BY <1>2, <1>3 DEF OpOK
<1>. HIDE DEF op, id
<1>5. /\ \A k \in DOMAIN store : k # id => k \in DOMAIN store'
      /\ \A k \in DOMAIN store' : k \in DOMAIN store /\ store'[k] = store[k]
  BY <1>3
<1>6. StoreTyped' /\ Named'
  BY <1>1, <1>3, <1>5 DEF StoreTyped, Named
<1>7. /\ acked'[id] = 0 \/ UNCHANGED <<store, acked>>
      /\ \A j \in Ids : acked'[j] \in {acked[j], 0} /\ (j # id => acked'[j] = acked[j])
  <2>1. clock' = clock /\ clock' \in Nat /\ clock <= clock' /\ 0 <= clock'
    BY <1>1, <1>3
  <2>2. CASE Ack(id, 0)
    <3>1. AckedTyped' /\ acked'[id] = 0 /\ \A j \in Ids : j # id => acked'[j] = acked[j]
      BY <1>1, <1>4, <2>1, <2>2, AckKeeps
    <3>. QED  BY <3>1
  <2>3. CASE UNCHANGED <<store, acked>>
    BY <1>1, <2>1, <2>3 DEF AckedTyped
  <2>. QED  BY <1>3, <2>2, <2>3
<1>8. AckedTyped'
  <2>1. clock' = clock /\ clock' \in Nat /\ clock <= clock' /\ 0 <= clock'
    BY <1>1, <1>3
  <2>2. CASE Ack(id, 0)
    BY <1>1, <1>4, <2>1, <2>2, AckKeeps
  <2>3. CASE UNCHANGED <<store, acked>>
    BY <1>1, <2>1, <2>3 DEF AckedTyped
  <2>. QED  BY <1>3, <2>2, <2>3
<1>9. OpsTyped' /\ OpsLeft
  BY <1>1, <1>3, AnsweredLeaves
<1>10. Operations'
  BY <1>1, <1>3, <1>9, SameTime, LeftAreOk
<1>11. Counters' /\ GraphTyped' /\ BackupsTyped'
  BY <1>1, <1>3 DEF Counters, GraphTyped, BackupsTyped, Typed
<1>12. Basics'
  BY <1>6, <1>8, <1>9, <1>10, <1>11 DEF Typed, Basics
<1>. QED  BY <1>3, <1>5, <1>7, <1>9, <1>12 DEF id, op

\* A load has read.
ReadOp(op) == [op EXCEPT !.pc = "read", !.found = Read(op.id)]

LEMMA ReadsBasics ==
    ASSUME Basics, NEW i \in DOMAIN inFlight, Reads(i)
    PROVE  /\ Basics' /\ OpChanged(i, ReadOp(inFlight[i]))
           /\ LET op == inFlight[i]
                  read == ReadOp(op)
              IN  /\ op.kind = "load" /\ read.kind = "load" /\ op.pc = "asked" /\ read.pc = "read"
                  /\ read.found = Read(op.id) /\ read.since = op.since /\ op.id \in Ids \cup {Newest}
<1>1. Typed /\ Named /\ Operations /\ Counters /\ BackupsTyped /\ StoreTyped /\ AckedTyped /\ OpsTyped
      /\ clock \in Nat
  BY DEF Typed, Basics, Counters
<1>. DEFINE op == inFlight[i]
            read == ReadOp(op)
<1>2. op \in Op /\ OpOK(op)
  BY <1>1, OpsAreNumbered DEF Operations
<1>3. /\ op.kind = "load" /\ op.pc = "asked" /\ adapter \in {"indexed", "file"}
      /\ UNCHANGED <<adapter, graph, store, backups, saves, clock, sessions, acked, overlapped>>
  BY DEF Reads, IsNext
<1>4. Read(op.id) \in KeptGraph \cup {Nothing}
  BY <1>1, ReadFinds
<1>5. /\ read \in Op /\ read.kind = op.kind /\ read.pc = "read" /\ read.found = Read(op.id)
      /\ read.since = op.since /\ op.id \in Ids \cup {Newest}
  <2>. HIDE DEF op, Read
  <2>. QED  BY <1>2, <1>4 DEF ReadOp, Op
<1>6. inFlight' = [inFlight EXCEPT ![i] = read]
  BY DEF Reads, ReadOp
<1>. HIDE DEF op, read
<1>12. PICK now : now = read
  OBVIOUS
<1>7. OpsTyped' /\ OpChanged(i, now)
  BY <1>1, <1>5, <1>6, <1>12, ExceptChanges
<1>8. OpOK(now)'
  <2>1. now.kind = "load" /\ now.pc = "read"
    BY <1>3, <1>5, <1>12
  <2>. QED  BY <1>3, <2>1 DEF OpOK
<1>9. Operations'
  BY <1>1, <1>3, <1>7, <1>8, SameTime, ChangedIsOk
<1>10. Counters' /\ GraphTyped' /\ StoreTyped' /\ AckedTyped' /\ BackupsTyped' /\ Named'
  BY <1>1, <1>3, StorageStays DEF Counters
<1>11. Basics'
  BY <1>7, <1>9, <1>10 DEF Typed, Basics
<1>. QED  BY <1>3, <1>5, <1>7, <1>11, <1>12 DEF read, op

\* A save of a file is a step further.
StepOp(op, pc) == [op EXCEPT !.pc = pc]

LEMMA StepIsOk ==
    ASSUME Basics, NEW i \in DOMAIN inFlight, adapter = "file", Later, inFlight[i].kind = "save",
           NEW pc \in {"copied", "bare", "open"}, inFlight' = [inFlight EXCEPT ![i].pc = pc]
    PROVE  /\ OpsTyped' /\ Operations' /\ OpChanged(i, StepOp(inFlight[i], pc))
           /\ LET op == inFlight[i]
                  step == StepOp(op, pc)
              IN  /\ step.kind = "save" /\ step.id = op.id /\ step.backup = op.backup /\ step.pc = pc
                  /\ step.graph = op.graph /\ op.graph \in Graph /\ op.id = op.graph.id /\ op.id \in Ids
<1>1. Operations /\ OpsTyped
  BY DEF Typed, Basics
<1>. DEFINE op == inFlight[i]
            step == StepOp(op, pc)
<1>2. op \in Op /\ OpOK(op)
  BY <1>1, OpsAreNumbered DEF Operations
<1>3. /\ step \in Op /\ step.kind = "save" /\ step.id = op.id /\ step.backup = op.backup /\ step.pc = pc
      /\ step.graph = op.graph
  <2>. HIDE DEF op
  <2>1. op.kind = "save"
    BY DEF op
  <2>. QED  BY <1>2, <2>1 DEF StepOp, Op
<1>4. op.graph \in Graph /\ op.id = op.graph.id /\ op.id \in Ids
  BY <1>2 DEF OpOK, Op
<1>5. inFlight' = [inFlight EXCEPT ![i] = step]
  BY DEF StepOp
<1>. HIDE DEF op, step
<1>9. PICK now : now = step
  OBVIOUS
<1>6. OpsTyped' /\ OpChanged(i, now)
  BY <1>1, <1>3, <1>5, <1>9, ExceptChanges
<1>7. OpOK(now)'
  <2>1. now.kind = "save" /\ now.pc \in {"copied", "bare", "open"} /\ now.id = now.graph.id /\ now.id \in Ids
    BY <1>3, <1>4, <1>9
  <2>2. adapter' = "file"
    BY DEF Later
  <2>. QED  BY <2>1, <2>2 DEF OpOK
<1>8. Operations'
  BY <1>1, <1>6, <1>7, ChangedIsOk
<1>. QED  BY <1>3, <1>4, <1>6, <1>8, <1>9 DEF step, op

\* The file that is there is copied, or the save goes on without: then the file
\* will be put at risk, if there is one.
LEMMA FileCopiesBasics ==
    ASSUME Basics, NewestInKey, NEW i \in DOMAIN inFlight, FileCopies(i)
    PROVE  /\ Basics' /\ OnlyRisked /\ UNCHANGED <<adapter, store>>
           /\ LET id == inFlight[i].id IN
              /\ \A j \in Ids : j # id => acked'[j] = acked[j]
              /\ \E pc \in {"copied", "bare"} :
                    /\ inFlight' = [inFlight EXCEPT ![i].pc = pc]
                    /\ pc = "copied" =>
                         id \notin DOMAIN store \/ \E b \in DOMAIN backups' : backups'[b] = store[id]
<1>1. Typed /\ Named /\ Operations /\ Counters /\ BackupsTyped /\ StoreTyped /\ AckedTyped
  BY DEF Typed, Basics
<1>. DEFINE id == inFlight[i].id
<1>2. /\ adapter = "file" /\ inFlight[i].kind = "save"
      /\ UNCHANGED <<adapter, graph, store, saves, clock, sessions, overlapped>>
  BY DEF FileCopies, FileSave
<1>3. Later
  BY <1>1, <1>2, SameTime
<1>4. /\ BackupsTyped' /\ OnlyRisked
      /\ \A j \in Ids : j # id => acked'[j] = acked[j]
      /\ \E pc \in {"copied", "bare"} :
            /\ inFlight' = [inFlight EXCEPT ![i].pc = pc]
            /\ pc = "copied" => id \notin DOMAIN store \/ \E b \in DOMAIN backups' : backups'[b] = store[id]
  <2>1. ASSUME id \in DOMAIN store,
               \E n \in Places(store[id]) : CopiedTo(n, store[id]) /\ Risk(LostAt(n, store[id])),
               FileStep(i, "copied")
        PROVE  /\ BackupsTyped' /\ OnlyRisked
               /\ \A j \in Ids : j # id => acked'[j] = acked[j]
               /\ \E pc \in {"copied", "bare"} :
                     /\ inFlight' = [inFlight EXCEPT ![i].pc = pc]
                     /\ pc = "copied" =>
                          id \notin DOMAIN store \/ \E b \in DOMAIN backups' : backups'[b] = store[id]
    <3>1. PICK n \in Places(store[id]) : CopiedTo(n, store[id]) /\ Risk(LostAt(n, store[id]))
      BY <2>1
    <3>. HIDE DEF id
    <3>2. /\ BackupsTyped' /\ OnlyRisked
          /\ \E b \in DOMAIN backups' : backups'[b] = store[id]
          /\ \A j \in Ids : j \notin LostAt(n, store[id]) => acked'[j] = acked[j]
      BY <1>2, <2>1, <3>1, CopyRisks
    <3>3. LostAt(n, store[id]) \subseteq {id}
      <4>1. store[id].graph.id = id
        BY <1>1, <1>2, <2>1 DEF Named
      <4>2. n > Len(backups) \/ backups[n].graph.id = store[id].graph.id
        <5>1. Len(backups) \in Nat
          BY <1>1, LenProperties DEF BackupsTyped
        <5>. QED  BY <1>2, <5>1 DEF Places
      <4>. QED  BY <4>1, <4>2 DEF LostAt
    <3>4. inFlight' = [inFlight EXCEPT ![i].pc = "copied"]
      BY <2>1 DEF FileStep
    <3>. QED  BY <3>2, <3>3, <3>4
  <2>2. ASSUME FileStep(i, IF id \in DOMAIN store THEN "bare" ELSE "copied"), UNCHANGED <<backups, acked>>
        PROVE  /\ BackupsTyped' /\ OnlyRisked
               /\ \A j \in Ids : j # id => acked'[j] = acked[j]
               /\ \E pc \in {"copied", "bare"} :
                     /\ inFlight' = [inFlight EXCEPT ![i].pc = pc]
                     /\ pc = "copied" =>
                          id \notin DOMAIN store \/ \E b \in DOMAIN backups' : backups'[b] = store[id]
    <3>1. PICK pc \in {"copied", "bare"} : pc = IF id \in DOMAIN store THEN "bare" ELSE "copied"
      OBVIOUS
    <3>2. inFlight' = [inFlight EXCEPT ![i].pc = pc]
      BY <2>2, <3>1 DEF FileStep
    <3>3. BackupsTyped' /\ OnlyRisked
      BY <1>1, <1>2, <2>2, NothingRisked DEF BackupsTyped
    <3>4. pc = "copied" => id \notin DOMAIN store
      BY <3>1
    <3>. QED  BY <2>2, <3>2, <3>3, <3>4
  <2>. QED  BY <2>1, <2>2 DEF FileCopies
<1>5. PICK pc \in {"copied", "bare"} : inFlight' = [inFlight EXCEPT ![i].pc = pc]
  BY <1>4
<1>6. OpsTyped' /\ Operations'
  BY <1>2, <1>3, <1>5, StepIsOk
<1>7. Counters' /\ GraphTyped' /\ StoreTyped' /\ AckedTyped' /\ Named'
  BY <1>1, <1>2, <1>4, NamedStays DEF Counters, GraphTyped, StoreTyped, OnlyRisked, Typed
<1>8. Basics'
  BY <1>4, <1>6, <1>7 DEF Typed, Basics
<1>. QED  BY <1>2, <1>4, <1>8 DEF id

LEMMA FileOpensBasics ==
    ASSUME Basics, NEW i \in DOMAIN inFlight, FileOpens(i)
    PROVE  /\ Basics'
           /\ LET g == inFlight[i].graph IN
              /\ g \in Graph /\ g.id = inFlight[i].id /\ Stored(g.id, Kept("empty", g))
              /\ acked'[g.id] = 0 \/ (inFlight[i].pc = "copied" /\ UNCHANGED acked)
              /\ \A j \in Ids : acked'[j] \in {acked[j], 0} /\ (j # g.id => acked'[j] = acked[j])
<1>1. Typed /\ Named /\ Operations /\ Counters /\ BackupsTyped /\ StoreTyped /\ AckedTyped /\ OpsTyped
      /\ clock \in Nat
  BY DEF Typed, Basics, Counters
<1>. DEFINE g == inFlight[i].graph
<1>2. /\ adapter = "file" /\ inFlight[i].kind = "save"
      /\ inFlight' = [inFlight EXCEPT ![i].pc = "open"]
      /\ Put(Kept("empty", g))
      /\ Risk({inFlight[i].id}) \/ (inFlight[i].pc = "copied" /\ UNCHANGED acked)
      /\ UNCHANGED <<adapter, graph, backups, saves, sessions, overlapped>>
  BY DEF FileOpens, FileSave, FileStep
<1>3. OpOK(inFlight[i]) /\ inFlight[i] \in Op
  <2>1. inFlight[i] \in Op
    BY <1>1, OpsAreNumbered
  <2>. QED  BY <1>1, <2>1 DEF Operations
<1>10. g \in Graph /\ g.id = inFlight[i].id /\ g.id \in Ids
  BY <1>2, <1>3 DEF OpOK, Op
<1>. HIDE DEF g
<1>4. StoreTyped' /\ Named' /\ clock' = clock + 1 /\ clock' \in Nat /\ Stored(Key(g.id), Kept("empty", g))
  BY <1>1, <1>2, <1>10, PutKeeps
<1>9. clock <= clock' /\ Later
  BY <1>1, <1>2, <1>4 DEF Later
<1>11. OpsTyped' /\ Operations'
  BY <1>2, <1>9, StepIsOk
<1>5. Key(g.id) = g.id
  BY <1>2 DEF Key
<1>6. /\ AckedTyped'
      /\ acked'[g.id] = 0 \/ (inFlight[i].pc = "copied" /\ UNCHANGED acked)
      /\ \A j \in Ids : acked'[j] \in {acked[j], 0} /\ (j # g.id => acked'[j] = acked[j])
  <2>1. CASE Risk({inFlight[i].id})
    <3>1. AckedTyped' /\ \A j \in Ids : acked'[j] = IF j \in {inFlight[i].id} THEN 0 ELSE acked[j]
      BY <1>1, <1>4, <1>9, <2>1, RiskKeeps
    <3>2. acked'[g.id] = 0
      BY <1>10, <3>1
    <3>. QED  BY <1>10, <3>1, <3>2
  <2>2. CASE inFlight[i].pc = "copied" /\ UNCHANGED acked
    BY <1>1, <1>4, <1>9, <2>2, AckedStays
  <2>. QED  BY <1>2, <2>1, <2>2
<1>7. Counters' /\ GraphTyped' /\ BackupsTyped'
  BY <1>1, <1>2, <1>4 DEF Counters, GraphTyped, BackupsTyped, Typed
<1>8. Basics'
  BY <1>4, <1>6, <1>7, <1>11 DEF Typed, Basics
<1>. QED  BY <1>4, <1>5, <1>6, <1>8, <1>10 DEF g

LEMMA FileWritesBasics ==
    ASSUME Basics, NEW i \in DOMAIN inFlight, FileWrites(i)
    PROVE  /\ Basics' /\ OpGone(i) /\ clock' = clock + 1 /\ Ack(inFlight[i].id, clock')
           /\ LET g == inFlight[i].graph IN
              /\ g \in Graph /\ g.id = inFlight[i].id /\ g.id \in Ids
              /\ \E state \in {"whole", "mixed"} :
                    /\ Stored(g.id, Kept(state, g))
                    /\ store[g.id].state = "empty" => state = "whole"
<1>1. Typed /\ Named /\ Operations /\ Counters /\ BackupsTyped /\ StoreTyped /\ AckedTyped /\ OpsTyped
      /\ clock \in Nat
  BY DEF Typed, Basics, Counters
<1>. DEFINE op == inFlight[i]
            g == op.graph
<1>2. op \in Op /\ OpOK(op)
  BY <1>1, OpsAreNumbered DEF Operations
<1>3. /\ op.kind = "save" /\ adapter = "file" /\ Answered(i) /\ Ack(op.id, clock')
      /\ UNCHANGED <<adapter, graph, backups, saves, sessions, overlapped>>
  BY DEF FileWrites, FileSave
<1>4. g \in Graph /\ op.id = g.id /\ g.id \in Ids
  BY <1>2, <1>3 DEF Op, OpOK
<1>5. PICK state \in {"whole", "mixed"} :
        Put(Kept(state, g)) /\ (store[g.id].state = "empty" => state = "whole")
  <2>1. PICK state \in {"whole"} \cup {"mixed" : x \in {store[op.id].state} \ {"empty"}} : Put(Kept(state, g))
    BY DEF FileWrites
  <2>2. CASE state = "whole"
    BY <2>1, <2>2
  <2>3. CASE state # "whole"
    <3>1. state = "mixed" /\ store[op.id].state # "empty"
      BY <2>1, <2>3
    <3>. QED  BY <1>4, <2>1, <3>1
  <2>. QED  BY <2>2, <2>3
<1>. HIDE DEF op, g
<1>6. StoreTyped' /\ Named' /\ clock' = clock + 1 /\ clock' \in Nat /\ Stored(Key(g.id), Kept(state, g))
  <2>1. state \in {"whole", "empty", "mixed"}
    OBVIOUS
  <2>. QED  BY <1>1, <1>3, <1>4, <1>5, <2>1, PutKeeps
<1>7. Key(g.id) = g.id
  BY <1>3 DEF Key
<1>8. AckedTyped'
  <2>1. clock <= clock' /\ clock' <= clock'
    BY <1>1, <1>6
  <2>. QED  BY <1>1, <1>3, <1>4, <1>6, <2>1, AckKeeps
<1>9. OpsTyped' /\ OpsLeft /\ OpGone(i)
  BY <1>1, <1>3, AnsweredLeaves
<1>13. Later
  BY <1>1, <1>3, <1>6 DEF Later
<1>10. Operations'
  BY <1>1, <1>9, <1>13, LeftAreOk
<1>11. Counters' /\ GraphTyped' /\ BackupsTyped'
  BY <1>1, <1>3, <1>6 DEF Counters, GraphTyped, BackupsTyped, Typed
<1>12. Basics'
  BY <1>6, <1>8, <1>9, <1>10, <1>11 DEF Typed, Basics
<1>. QED  BY <1>3, <1>4, <1>5, <1>6, <1>7, <1>9, <1>12 DEF op, g

LEMMA FileFailsBasics ==
    ASSUME Basics, NEW i \in DOMAIN inFlight, FileFails(i)
    PROVE  Basics' /\ OpsLeft
<1>1. Typed /\ Named /\ Operations /\ Counters /\ OpsTyped
  BY DEF Typed, Basics
<1>2. Answered(i) /\ UNCHANGED <<adapter, graph, store, backups, saves, clock, sessions, acked, overlapped>>
  BY DEF FileFails
<1>3. OpsTyped' /\ OpsLeft
  BY <1>1, <1>2, AnsweredLeaves
<1>4. Operations'
  BY <1>1, <1>2, <1>3, SameTime, LeftAreOk
<1>5. Counters' /\ GraphTyped' /\ StoreTyped' /\ AckedTyped' /\ BackupsTyped' /\ Named'
  BY <1>1, <1>2, StorageStays DEF Counters
<1>. QED  BY <1>3, <1>4, <1>5 DEF Typed, Basics


-----------------------------------------------------------------------------
(* IndexedDB: requests are served in order.                                *)

\* A load that has read found what was promised.
FreshOp(op) == op.pc = "read" /\ op.since > 0 => op.found # Nothing /\ op.found.stamp >= op.since

LEMMA LoadIsFreshByOp ==
    LoadIsFresh <=> (adapter = "indexed" => \A i \in DOMAIN inFlight : FreshOp(inFlight[i]))
  BY DEF LoadIsFresh, FreshOp

LEMMA HoldsStay ==
    ASSUME IndexedHolds, UNCHANGED <<adapter, store, acked>>
    PROVE  IndexedHolds'
  BY DEF IndexedHolds

\* Only one graph is put and not committed, and none while an operation is next.
LEMMA OnePut ==
    ASSUME Basics, PutsInOrder, adapter = "indexed",
           NEW i \in DOMAIN inFlight, NEW j \in DOMAIN inFlight,
           inFlight[i].pc = "put", inFlight[j].pc \in {"put", "asked"}, i # j
    PROVE  inFlight[j].pc = "asked" /\ i < j
<1>1. /\ DOMAIN inFlight = 1 .. Len(inFlight) /\ Len(inFlight) \in Nat
      /\ i \in Nat /\ j \in Nat /\ i >= 1 /\ j >= 1
  BY OpsAreNumbered DEF Basics, Typed
<1>2. ~ (j < i)
  <2>1. j < i => j \in 1 .. i - 1
    BY <1>1
  <2>2. PutIsNewest(i)
    BY DEF PutsInOrder
  <2>. QED  BY <2>1, <2>2 DEF PutIsNewest
<1>3. i < j
  BY <1>1, <1>2
<1>4. inFlight[j].pc # "put"
  <2>1. i \in 1 .. j - 1
    BY <1>1, <1>3
  <2>2. inFlight[j].pc = "put" => PutIsNewest(j)
    BY DEF PutsInOrder
  <2>. QED  BY <2>1, <2>2 DEF PutIsNewest
<1>. QED  BY <1>3, <1>4

LEMMA NextMeansNoPut ==
    ASSUME Basics, PutsInOrder, NEW i \in DOMAIN inFlight, IsNext(i)
    PROVE  \A j \in DOMAIN inFlight : inFlight[j].pc # "put"
<1>. SUFFICES ASSUME NEW j \in DOMAIN inFlight, inFlight[j].pc = "put"
              PROVE  FALSE
  OBVIOUS
<1>1. adapter = "indexed" /\ inFlight[i].pc = "asked" /\ i # j
  BY DEF IsNext
<1>2. inFlight[i].pc \in {"put", "asked"}
  BY <1>1
<1>3. j < i
  BY <1>1, <1>2, OnePut
<1>4. j \in 1 .. i - 1
  BY <1>3, OpsAreNumbered DEF Basics, Typed
<1>. QED  BY <1>4 DEF IsNext

\* After a step a graph as fresh as promised is there or put.
ThereAfter(j, s) == j \in DOMAIN store' /\ store'[j].stamp >= s
PutAfter(j, s) ==
    \E k \in DOMAIN inFlight' : inFlight'[k].pc = "put" /\ inFlight'[k].id = j /\ inFlight'[k].found.stamp = s
Promised(s) == \E p \in DOMAIN inFlight' : inFlight'[p].since = s
HeldAfter(i, j) ==
    LET s == inFlight[i].since IN Promised(s) => ThereAfter(j, s) \/ PutAfter(j, s)

\* Loads that are left are as ready as they were, if what they wait for is held.
LEMMA LeftAreReady ==
    ASSUME Basics, IndexedInv, OpsTyped', OpsLeft, adapter = "indexed",
           \A i \in DOMAIN inFlight, j \in Ids : Awaits(inFlight[i]) /\ Ready(i, j) => HeldAfter(i, j)
    PROVE  LoadsAreReady' /\ LoadIsFresh'
<1>1. PICK f \in [DOMAIN inFlight' -> DOMAIN inFlight] :
        /\ \A j \in DOMAIN inFlight' : Same(inFlight'[j], inFlight[f[j]])
        /\ \A j, k \in DOMAIN inFlight' : j < k => f[j] < f[k]
  BY DEF OpsLeft
<1>2. /\ \A i \in DOMAIN inFlight : i \in Nat /\ i >= 1 /\ inFlight[i] \in Op
      /\ \A i \in DOMAIN inFlight' : i \in Nat /\ i >= 1
      /\ \A i \in DOMAIN inFlight' : \A k \in 1 .. i - 1 : k \in DOMAIN inFlight'
  <2>1. OpsTyped
    BY DEF Basics, Typed
  <2>2. DOMAIN inFlight = 1 .. Len(inFlight) /\ Len(inFlight) \in Nat /\ \A i \in DOMAIN inFlight : inFlight[i] \in Op
    BY <2>1, OpsAreNumbered
  <2>3. DOMAIN inFlight' = 1 .. Len(inFlight') /\ Len(inFlight') \in Nat
    BY LenProperties DEF OpsTyped
  <2>. QED  BY <2>2, <2>3
<1>3. ASSUME NEW p \in DOMAIN inFlight', Awaits(inFlight'[p])
      PROVE  \E j \in Ids : Ready(p, j)'
  <2>1. PICK i \in DOMAIN inFlight : i = f[p]
    BY <1>1
  <2>2. Same(inFlight'[p], inFlight[i])
    BY <1>1, <2>1
  <2>3. /\ inFlight[i].kind = "load" /\ inFlight[i].pc = "asked" /\ inFlight'[p].since > 0
        /\ inFlight'[p].id = inFlight[i].id /\ inFlight'[p].since \in {inFlight[i].since, 0}
    BY <1>3, <2>2 DEF Awaits, Same
  <2>4. inFlight'[p].since = inFlight[i].since
    BY <2>3
  <2>5. Awaits(inFlight[i])
    BY <2>3, <2>4 DEF Awaits
  <2>6. PICK j \in Ids : Ready(i, j)
    BY <2>5 DEF IndexedInv, LoadsAreReady
  <2>7. ThereAfter(j, inFlight'[p].since) \/ PutAfter(j, inFlight'[p].since)
    <3>1. HeldAfter(i, j)
      BY <2>5, <2>6
    <3>2. Promised(inFlight[i].since)
      BY <2>4 DEF Promised
    <3>. QED  BY <2>4, <3>1, <3>2 DEF HeldAfter
  <2>8. There(j, inFlight[p].since)' \/ PutThere(j, inFlight[p].since)'
    BY <2>7 DEF ThereAfter, PutAfter, There, PutThere
  <2>9. ASSUME NEW k \in 1 .. p - 1
        PROVE  ~ Deletes(inFlight'[k], j)
    <3>1. k \in DOMAIN inFlight' /\ k < p /\ p \in Nat
      BY <1>2
    <3>2. PICK q \in DOMAIN inFlight : q = f[k]
      BY <1>1, <3>1
    <3>3. q < i /\ Same(inFlight'[k], inFlight[q])
      BY <1>1, <2>1, <3>1, <3>2
    <3>4. q \in 1 .. i - 1
      BY <1>2, <3>3
    <3>5. ~ Deletes(inFlight[q], j)
      BY <2>6, <3>4 DEF Ready
    <3>. QED  BY <3>3, <3>5 DEF Deletes, Same
  <2>10. inFlight'[p].id \in {j, Newest}
    BY <2>3, <2>6 DEF Ready
  <2>. QED  BY <2>8, <2>9, <2>10 DEF Ready
<1>4. LoadsAreReady'
  BY <1>3 DEF LoadsAreReady
<1>5. ASSUME NEW p \in DOMAIN inFlight'
      PROVE  FreshOp(inFlight'[p])
  <2>1. PICK i \in DOMAIN inFlight : Same(inFlight'[p], inFlight[i])
    BY <1>1
  <2>2. FreshOp(inFlight[i])
    BY LoadIsFreshByOp DEF IndexedInv
  <2>. QED  BY <2>1, <2>2 DEF FreshOp, Same
<1>6. LoadIsFresh'
  BY <1>5 DEF LoadIsFresh, FreshOp
<1>. QED  BY <1>4, <1>6

\* The storage has nothing new, and what was put stays the newest.
LEMMA PutsStay ==
    ASSUME Basics, PutsInOrder, OpsTyped', OpsLeft, adapter = "indexed",
           \A k \in DOMAIN store' : k \in DOMAIN store /\ store'[k] = store[k]
    PROVE  PutsInOrder'
<1>1. PICK f \in [DOMAIN inFlight' -> DOMAIN inFlight] :
        /\ \A j \in DOMAIN inFlight' : Same(inFlight'[j], inFlight[f[j]])
        /\ \A j, k \in DOMAIN inFlight' : j < k => f[j] < f[k]
  BY DEF OpsLeft
<1>2. /\ \A i \in DOMAIN inFlight : i \in Nat /\ i >= 1
      /\ \A i \in DOMAIN inFlight' : i \in Nat /\ \A k \in 1 .. i - 1 : k \in DOMAIN inFlight' /\ k < i
  <2>1. DOMAIN inFlight = 1 .. Len(inFlight) /\ Len(inFlight) \in Nat
    BY OpsAreNumbered DEF Basics, Typed
  <2>2. DOMAIN inFlight' = 1 .. Len(inFlight') /\ Len(inFlight') \in Nat
    BY LenProperties DEF OpsTyped
  <2>. QED  BY <2>1, <2>2
<1>3. ASSUME NEW p \in DOMAIN inFlight', inFlight'[p].pc = "put"
      PROVE  PutIsNewest(p)'
  <2>1. PICK i \in DOMAIN inFlight : i = f[p]
    BY <1>1
  <2>2. Same(inFlight'[p], inFlight[i])
    BY <1>1, <2>1
  <2>3. inFlight[i].pc = "put" /\ inFlight'[p].found = inFlight[i].found
    BY <1>3, <2>2 DEF Same
  <2>4. PutIsNewest(i)
    BY <2>3 DEF PutsInOrder
  <2>5. ASSUME NEW k \in 1 .. p - 1
        PROVE  inFlight'[k].pc \notin {"asked", "put"}
    <3>1. k \in DOMAIN inFlight' /\ k < p
      BY <1>2
    <3>2. PICK q \in DOMAIN inFlight : q = f[k]
      BY <1>1, <3>1
    <3>3. q < i /\ Same(inFlight'[k], inFlight[q])
      BY <1>1, <2>1, <3>1, <3>2
    <3>4. q \in 1 .. i - 1
      BY <1>2, <3>3
    <3>. QED  BY <2>4, <3>3, <3>4 DEF PutIsNewest, Same
  <2>6. \A k \in DOMAIN store' : store'[k].stamp <= inFlight'[p].found.stamp
    BY <2>3, <2>4 DEF PutIsNewest
  <2>. QED  BY <2>5, <2>6 DEF PutIsNewest
<1>. QED  BY <1>3 DEF PutsInOrder

\* Where the one that was put is gone, none is.
LEMMA NoPutLeft ==
    ASSUME Basics, PutsInOrder, adapter = "indexed", NEW i \in DOMAIN inFlight, inFlight[i].pc = "put", OpGone(i)
    PROVE  \A p \in DOMAIN inFlight' : inFlight'[p].pc # "put"
<1>. SUFFICES ASSUME NEW p \in DOMAIN inFlight', inFlight'[p].pc = "put"
              PROVE  FALSE
  OBVIOUS
<1>1. PICK f \in [DOMAIN inFlight' -> DOMAIN inFlight \ {i}] :
        \A j \in DOMAIN inFlight' : Same(inFlight'[j], inFlight[f[j]])
  BY DEF OpGone
<1>2. PICK q \in DOMAIN inFlight : q = f[p] /\ q # i
  BY <1>1
<1>3. inFlight[q].pc = "put"
  BY <1>1, <1>2 DEF Same
<1>4. inFlight[q].pc \in {"put", "asked"}
  BY <1>3
<1>. QED  BY <1>2, <1>3, <1>4, OnePut

\* The storage stays, and what was put is still put, or nothing is in flight.
PutsKept ==
    \A k \in DOMAIN inFlight :
        inFlight[k].pc = "put" => \E q \in DOMAIN inFlight' : inFlight'[q] = inFlight[k]

LEMMA LeftKeep ==
    ASSUME Basics, IndexedInv, OpsTyped', OpsLeft, adapter = "indexed",
           UNCHANGED <<adapter, store, acked>>, PutsKept \/ inFlight' = <<>>
    PROVE  IndexedInv'
<1>1. ASSUME NEW i \in DOMAIN inFlight, NEW j \in Ids, Ready(i, j)
      PROVE  HeldAfter(i, j)
  <2>. DEFINE s == inFlight[i].since
  <2>1. There(j, s) \/ PutThere(j, s)
    BY <1>1 DEF Ready
  <2>. HIDE DEF s
  <2>2. CASE inFlight' = <<>>
    <3>1. DOMAIN inFlight' = {}
      BY <2>2
    <3>. QED  BY <3>1 DEF HeldAfter, Promised
  <2>3. CASE PutsKept
    <3>1. There(j, s) => ThereAfter(j, s)
      BY DEF There, ThereAfter
    <3>2. PutThere(j, s) => PutAfter(j, s)
      BY <2>3 DEF PutThere, PutAfter, PutsKept
    <3>. QED  BY <2>1, <3>1, <3>2 DEF HeldAfter, s
  <2>. QED  BY <2>2, <2>3
<1>2. LoadsAreReady' /\ LoadIsFresh'
  BY <1>1, LeftAreReady
<1>3. PutsInOrder'
  BY PutsStay DEF IndexedInv
<1>. QED  BY <1>2, <1>3, HoldsStay DEF IndexedInv

\* An operation is asked for, which for a load is promised what is there or put.
LEMMA AskedKeeps ==
    ASSUME Basics, IndexedInv, adapter = "indexed", NEW op \in Op, OpAsked(op),
           UNCHANGED <<adapter, store, acked>>, op.pc = "asked",
           op.kind = "load" => op.since = Since(op.id)
    PROVE  IndexedInv'
<1>. DEFINE n == Len(inFlight)
<1>1. /\ n \in Nat /\ DOMAIN inFlight = 1 .. n
      /\ DOMAIN inFlight' = DOMAIN inFlight \cup {n + 1}
      /\ \A i \in DOMAIN inFlight : i < n + 1 /\ inFlight'[i] = inFlight[i]
      /\ inFlight'[n + 1] = op
  BY OpsAreNumbered DEF OpAsked, Basics, Typed
<1>. HIDE DEF n
<1>2. ASSUME NEW j, NEW s, There(j, s) \/ PutThere(j, s)
      PROVE  There(j, s)' \/ PutThere(j, s)'
  BY <1>1, <1>2 DEF There, PutThere
<1>3. ASSUME NEW p \in DOMAIN inFlight', Awaits(inFlight'[p])
      PROVE  \E j \in Ids : Ready(p, j)'
  <2>1. CASE p \in DOMAIN inFlight
    <3>1. inFlight'[p] = inFlight[p]
      BY <1>1, <2>1
    <3>2. PICK j \in Ids : Ready(p, j)
      BY <1>3, <2>1, <3>1 DEF IndexedInv, LoadsAreReady
    <3>3. \A k \in 1 .. p - 1 : inFlight'[k] = inFlight[k]
      BY <1>1, <2>1
    <3>4. PICK s : s = inFlight[p].since
      OBVIOUS
    <3>5. There(j, s)' \/ PutThere(j, s)'
      BY <1>2, <3>2, <3>4 DEF Ready
    <3>6. There(j, inFlight[p].since)' \/ PutThere(j, inFlight[p].since)'
      BY <3>1, <3>4, <3>5 DEF There, PutThere
    <3>. QED  BY <3>1, <3>2, <3>3, <3>6 DEF Ready
  <2>2. CASE p = n + 1
    <3>1. inFlight'[p] = op /\ op.kind = "load" /\ op.since > 0 /\ op.since = Since(op.id)
      BY <1>1, <1>3, <2>2 DEF Awaits
    <3>2. PICK j \in Ids : /\ op.id \in {j, Newest} /\ ~ DeleteAsked(j)
                           /\ op.since = acked[j] \/ PutThere(j, op.since)
      <4>. HIDE DEF Since
      <4>1. Since(op.id) > 0 =>
              \E j \in Ids : /\ op.id \in {j, Newest} /\ ~ DeleteAsked(j)
                             /\ Since(op.id) = acked[j] \/ PutThere(j, Since(op.id))
        BY SinceIsAcked
      <4>2. PICK s : s = Since(op.id) /\ s = op.since /\ s > 0
        BY <3>1
      <4>. QED  BY <4>1, <4>2
    <3>3. There(j, op.since) \/ PutThere(j, op.since)
      <4>1. CASE op.since = acked[j]
        BY <3>1, <4>1 DEF IndexedInv, IndexedHolds, There
      <4>. QED  BY <3>2, <4>1
    <3>4. PICK s : s = op.since
      OBVIOUS
    <3>5. There(j, s)' \/ PutThere(j, s)'
      BY <1>2, <3>3, <3>4
    <3>6. There(j, inFlight[p].since)' \/ PutThere(j, inFlight[p].since)'
      BY <3>1, <3>4, <3>5 DEF There, PutThere
    <3>7. \A k \in DOMAIN inFlight : ~ Deletes(inFlight[k], j)
      BY <3>2 DEF DeleteAsked, Deletes
    <3>8. \A k \in 1 .. p - 1 : k \in DOMAIN inFlight /\ inFlight'[k] = inFlight[k]
      BY <1>1, <2>2
    <3>. QED  BY <3>1, <3>2, <3>6, <3>7, <3>8 DEF Ready
  <2>. QED  BY <1>1, <1>3, <2>1, <2>2
<1>4. LoadsAreReady'
  BY <1>3 DEF LoadsAreReady
<1>5. \A p \in DOMAIN inFlight' : FreshOp(inFlight'[p])
  <2>1. \A i \in DOMAIN inFlight : FreshOp(inFlight[i])
    BY LoadIsFreshByOp DEF IndexedInv
  <2>. QED  BY <1>1, <2>1 DEF FreshOp
<1>6. LoadIsFresh'
  BY <1>5 DEF LoadIsFresh, FreshOp
<1>7. ASSUME NEW p \in DOMAIN inFlight', inFlight'[p].pc = "put"
      PROVE  PutIsNewest(p)'
  <2>1. p \in DOMAIN inFlight /\ inFlight'[p] = inFlight[p]
    BY <1>1, <1>7
  <2>2. PutIsNewest(p)
    BY <1>7, <2>1 DEF IndexedInv, PutsInOrder
  <2>3. \A k \in 1 .. p - 1 : inFlight'[k] = inFlight[k]
    BY <1>1, <2>1
  <2>. QED  BY <2>1, <2>2, <2>3 DEF PutIsNewest
<1>8. PutsInOrder'
  BY <1>7 DEF PutsInOrder
<1>. QED  BY <1>4, <1>6, <1>8, HoldsStay DEF IndexedInv

\* While no graph is put, a load that is ready finds what it waits for.
LEMMA ReadyIsThere ==
    ASSUME \A k \in DOMAIN inFlight : inFlight[k].pc # "put", NEW i, NEW j, Ready(i, j)
    PROVE  There(j, inFlight[i].since)
  BY DEF Ready, PutThere

\* The operation that is next goes on to another step, and deletes nothing.
LEMMA NextGoesOn ==
    ASSUME Basics, IndexedInv, NEW i \in DOMAIN inFlight, IsNext(i), NEW op, OpChanged(i, op),
           op.kind # "delete", op.pc # "asked", FreshOp(op), UNCHANGED <<adapter, store, acked>>,
           op.pc = "put" => \A k \in DOMAIN store : store[k].stamp <= op.found.stamp
    PROVE  IndexedInv'
<1>1. \A k \in DOMAIN inFlight : inFlight[k].pc # "put"
  BY NextMeansNoPut DEF IndexedInv
<1>2. /\ DOMAIN inFlight' = DOMAIN inFlight /\ inFlight'[i] = op
      /\ \A j \in DOMAIN inFlight : j # i => inFlight'[j] = inFlight[j]
  BY DEF OpChanged
<1>3. adapter = "indexed"
  BY DEF IsNext
<1>4. \A p \in DOMAIN inFlight : \A k \in 1 .. p - 1 : k \in DOMAIN inFlight
  BY OpsAreNumbered DEF Basics, Typed
<1>5. ASSUME NEW p \in DOMAIN inFlight', Awaits(inFlight'[p])
      PROVE  \E j \in Ids : Ready(p, j)'
  <2>1. p \in DOMAIN inFlight /\ p # i /\ inFlight'[p] = inFlight[p]
    BY <1>2, <1>5 DEF Awaits
  <2>2. PICK j \in Ids : Ready(p, j)
    BY <1>3, <1>5, <2>1 DEF IndexedInv, LoadsAreReady
  <2>3. There(j, inFlight[p].since)
    BY <1>1, <2>2, ReadyIsThere
  <2>4. There(j, inFlight[p].since)'
    BY <2>1, <2>3 DEF There
  <2>5. \A k \in 1 .. p - 1 : ~ Deletes(inFlight'[k], j)
    BY <1>2, <1>4, <2>1, <2>2 DEF Ready, Deletes
  <2>. QED  BY <2>1, <2>2, <2>4, <2>5 DEF Ready
<1>6. LoadsAreReady'
  BY <1>5 DEF LoadsAreReady
<1>7. \A p \in DOMAIN inFlight' : FreshOp(inFlight'[p])
  <2>1. \A k \in DOMAIN inFlight : FreshOp(inFlight[k])
    BY <1>3, LoadIsFreshByOp DEF IndexedInv
  <2>. QED  BY <1>2, <2>1
<1>8. LoadIsFresh'
  BY <1>7 DEF LoadIsFresh, FreshOp
<1>9. ASSUME NEW p \in DOMAIN inFlight', inFlight'[p].pc = "put"
      PROVE  PutIsNewest(p)'
  <2>1. p = i
    BY <1>1, <1>2, <1>9
  <2>2. ASSUME NEW k \in 1 .. p - 1
        PROVE  inFlight'[k].pc \notin {"asked", "put"}
    <3>1. k \in DOMAIN inFlight /\ k # i
      BY <1>4, <2>1, OpsAreNumbered DEF Basics, Typed
    <3>2. inFlight[k].pc \notin {"asked", "put"}
      BY <2>1 DEF IsNext
    <3>. QED  BY <1>2, <3>1, <3>2
  <2>3. \A k \in DOMAIN store' : store'[k].stamp <= inFlight'[p].found.stamp
    BY <1>2, <1>9, <2>1
  <2>. QED  BY <2>2, <2>3 DEF PutIsNewest
<1>10. PutsInOrder'
  BY <1>9 DEF PutsInOrder
<1>. QED  BY <1>6, <1>8, <1>10, HoldsStay DEF IndexedInv

LEMMA ReadsAreFresh ==
    ASSUME Basics, IndexedInv, adapter = "indexed", NEW i \in DOMAIN inFlight, Reads(i)
    PROVE  IndexedInv'
<1>0. PICK op : op = inFlight[i]
  OBVIOUS
<1>1. PICK read : read = ReadOp(op)
  OBVIOUS
<1>2. /\ OpChanged(i, read) /\ op.kind = "load" /\ read.kind = "load" /\ op.pc = "asked" /\ read.pc = "read"
      /\ read.found = Read(op.id) /\ read.since = op.since /\ op.id \in Ids \cup {Newest}
  BY <1>0, <1>1, ReadsBasics
<1>3. UNCHANGED <<adapter, store, acked>> /\ IsNext(i)
  BY DEF Reads
<1>4. op.since \in Nat
  BY <1>0, OpsAreNumbered DEF Basics, Typed, Op
<1>5. FreshOp(read)
  <2>1. CASE op.since > 0
    <3>1. Awaits(inFlight[i])
      BY <1>0, <1>2, <2>1 DEF Awaits
    <3>2. PICK j \in Ids : Ready(i, j)
      BY <3>1 DEF IndexedInv, LoadsAreReady
    <3>3. \A k \in DOMAIN inFlight : inFlight[k].pc # "put"
      BY <1>3, NextMeansNoPut DEF IndexedInv
    <3>4. There(j, inFlight[i].since)
      BY <3>2, <3>3, ReadyIsThere
    <3>5. j \in DOMAIN store /\ op.id \in {j, Newest} /\ store[j].stamp >= op.since
      BY <1>0, <3>2, <3>4 DEF Ready, There
    <3>6. StoreTyped /\ clock \in Nat
      BY DEF Basics, Typed, Counters
    <3>7. Read(op.id) # Nothing /\ Read(op.id).stamp >= op.since
      BY <1>2, <1>4, <3>5, <3>6, ReadIsFresh
    <3>. QED  BY <1>2, <3>7 DEF FreshOp
  <2>2. CASE ~ (op.since > 0)
    BY <1>2, <2>2 DEF FreshOp
  <2>. QED  BY <2>1, <2>2
<1>6. read.kind # "delete" /\ read.pc # "asked" /\ read.pc # "put"
  BY <1>2
<1>. QED  BY <1>2, <1>3, <1>5, <1>6, NextGoesOn

LEMMA IndexedSavesFresh ==
    ASSUME Basics, IndexedInv, adapter = "indexed", NEW i \in DOMAIN inFlight, IndexedSaves(i)
    PROVE  IndexedInv'
<1>1. PICK put : put = PutOp(inFlight[i])
  OBVIOUS
<1>2. /\ Basics' /\ UNCHANGED <<adapter, store, acked>> /\ (OpsLeft \/ OpChanged(i, put))
      /\ put.kind = "save" /\ put.pc = "put" /\ put.found.stamp = clock + 1
  BY <1>1, IndexedSavesBasics
<1>3. IsNext(i)
  BY DEF IndexedSaves
<1>4. CASE OpsLeft
  <2>1. PutsKept
    BY <1>3, NextMeansNoPut DEF PutsKept, IndexedInv
  <2>2. OpsTyped'
    BY <1>2 DEF Basics, Typed
  <2>. QED  BY <1>2, <1>4, <2>1, <2>2, LeftKeep
<1>5. CASE OpChanged(i, put)
  <2>1. FreshOp(put) /\ put.kind # "delete" /\ put.pc # "asked"
    BY <1>2 DEF FreshOp
  <2>2. \A k \in DOMAIN store : store[k].stamp <= put.found.stamp
    <3>1. \A k \in DOMAIN store : store[k].stamp \in Nat /\ store[k].stamp <= clock
      BY DEF Basics, Typed, StoreTyped, KeptGraph
    <3>2. clock \in Nat
      BY DEF Basics, Typed, Counters
    <3>. QED  BY <1>2, <3>1, <3>2
  <2>. QED  BY <1>2, <1>3, <1>5, <2>1, <2>2, NextGoesOn
<1>. QED  BY <1>2, <1>4, <1>5

\* What was put is there, for the loads that wait for it too.
LEMMA IndexedCommitsFresh ==
    ASSUME Basics, IndexedInv, adapter = "indexed", NEW i \in DOMAIN inFlight, IndexedCommits(i)
    PROVE  IndexedInv'
<1>1. PICK op : op = inFlight[i]
  OBVIOUS
<1>2. /\ Basics' /\ adapter' = adapter /\ OpsLeft /\ OpGone(i)
      /\ op.pc = "put" /\ op.id \in Ids /\ op.found.stamp \in Nat
      /\ op.found.state = "whole" /\ op.found.graph.id = op.id
      /\ Stored(op.id, op.found)
      /\ acked'[op.id] = op.found.stamp
      /\ \A j \in Ids : j # op.id => acked'[j] = acked[j]
  BY <1>1, IndexedCommitsBasics
<1>3. OpsTyped'
  BY <1>2 DEF Basics, Typed
<1>4. \A k \in DOMAIN inFlight : inFlight[k].pc = "put" => k = i
  <2>. SUFFICES ASSUME NEW k \in DOMAIN inFlight, inFlight[k].pc = "put", k # i
                PROVE  FALSE
    OBVIOUS
  <2>1. inFlight[i].pc \in {"put", "asked"} /\ inFlight[i].pc = "put"
    BY <1>1, <1>2
  <2>. QED  BY <2>1, OnePut DEF IndexedInv
<1>5. \A k \in DOMAIN store : store[k].stamp <= op.found.stamp
  BY <1>1, <1>2 DEF IndexedInv, PutsInOrder, PutIsNewest
<1>6. \A p \in DOMAIN inFlight' : inFlight'[p].pc # "put"
  BY <1>1, <1>2, NoPutLeft DEF IndexedInv
<1>7. PutsInOrder'
  BY <1>6 DEF PutsInOrder
<1>8. ASSUME NEW p \in DOMAIN inFlight, NEW j \in Ids, Awaits(inFlight[p]), Ready(p, j)
      PROVE  HeldAfter(p, j)
  <2>1. PICK s : s = inFlight[p].since
    OBVIOUS
  <2>2. s \in Nat
    BY <2>1, OpsAreNumbered DEF Basics, Typed, Op
  <2>3. There(j, s) \/ PutThere(j, s)
    BY <1>8, <2>1 DEF Ready
  <2>4. CASE There(j, s)
    <3>1. j \in DOMAIN store /\ store[j].stamp >= s /\ store[j].stamp \in Nat
      BY <2>4 DEF There, Basics, Typed, StoreTyped, KeptGraph
    <3>2. CASE j = op.id
      <4>1. op.found.stamp >= s
        BY <1>2, <1>5, <2>2, <3>1
      <4>. QED  BY <1>2, <2>1, <3>2, <4>1 DEF Stored, HeldAfter, ThereAfter
    <3>3. CASE j # op.id
      BY <1>2, <2>1, <3>1, <3>3 DEF Stored, HeldAfter, ThereAfter
    <3>. QED  BY <3>2, <3>3
  <2>5. CASE PutThere(j, s)
    <3>1. j = op.id /\ op.found.stamp = s
      BY <1>1, <1>4, <2>5 DEF PutThere
    <3>. QED  BY <1>2, <2>1, <2>2, <3>1 DEF Stored, HeldAfter, ThereAfter
  <2>. QED  BY <2>3, <2>4, <2>5
<1>9. LoadsAreReady' /\ LoadIsFresh'
  BY <1>2, <1>3, <1>8, LeftAreReady
<1>10. ASSUME NEW k \in DOMAIN store'
       PROVE  store'[k].state = "whole"
  BY <1>2 DEF Stored, IndexedInv, IndexedHolds
<1>11. ASSUME NEW id \in Ids, acked'[id] > 0
       PROVE  id \in DOMAIN store' /\ store'[id].stamp >= acked'[id]
  <2>1. CASE id = op.id
    BY <1>2, <2>1 DEF Stored
  <2>2. CASE id # op.id
    BY <1>2, <1>11, <2>2 DEF Stored, IndexedInv, IndexedHolds
  <2>. QED  BY <2>1, <2>2
<1>12. IndexedHolds'
  BY <1>10, <1>11 DEF IndexedHolds
<1>. QED  BY <1>7, <1>9, <1>12 DEF IndexedInv

\* What was put never comes, and no load waits for it any more.
LEMMA IndexedAbortsFresh ==
    ASSUME Basics, IndexedInv, adapter = "indexed", NEW i \in DOMAIN inFlight, IndexedAborts(i)
    PROVE  IndexedInv'
<1>1. /\ Basics' /\ UNCHANGED <<adapter, store, acked>> /\ OpsLeft /\ OpGone(i)
      /\ inFlight[i].pc = "put"
      /\ \A p \in DOMAIN inFlight' : inFlight'[p].since > 0 => inFlight'[p].since # inFlight[i].found.stamp
  BY IndexedAbortsBasics
<1>2. OpsTyped'
  BY <1>1 DEF Basics, Typed
<1>3. \A k \in DOMAIN inFlight : inFlight[k].pc = "put" => k = i
  <2>. SUFFICES ASSUME NEW k \in DOMAIN inFlight, inFlight[k].pc = "put", k # i
                PROVE  FALSE
    OBVIOUS
  <2>1. inFlight[i].pc \in {"put", "asked"} /\ inFlight[i].pc = "put"
    BY <1>1
  <2>. QED  BY <2>1, OnePut DEF IndexedInv
<1>4. \A k \in DOMAIN store' : k \in DOMAIN store /\ store'[k] = store[k]
  BY <1>1
<1>5. PutsInOrder'
  BY <1>1, <1>2, <1>4, PutsStay DEF IndexedInv
<1>6. ASSUME NEW p \in DOMAIN inFlight, NEW j \in Ids, Awaits(inFlight[p]), Ready(p, j)
      PROVE  HeldAfter(p, j)
  <2>1. PICK s : s = inFlight[p].since
    OBVIOUS
  <2>2. s > 0
    BY <1>6, <2>1 DEF Awaits
  <2>3. There(j, s) \/ PutThere(j, s)
    BY <1>6, <2>1 DEF Ready
  <2>4. CASE There(j, s)
    BY <1>1, <2>1, <2>4 DEF There, HeldAfter, ThereAfter
  <2>5. CASE PutThere(j, s)
    <3>1. s = inFlight[i].found.stamp
      BY <1>3, <2>5 DEF PutThere
    <3>2. ~ Promised(s)
      BY <1>1, <2>2, <3>1 DEF Promised
    <3>. QED  BY <2>1, <3>2 DEF HeldAfter
  <2>. QED  BY <2>3, <2>4, <2>5
<1>7. LoadsAreReady' /\ LoadIsFresh'
  BY <1>1, <1>2, <1>6, LeftAreReady
<1>. QED  BY <1>1, <1>5, <1>7, HoldsStay DEF IndexedInv

\* Only what is deleted goes, and no load that is promised it can be served later.
LEMMA IndexedDeletesFresh ==
    ASSUME Basics, IndexedInv, adapter = "indexed", NEW i \in DOMAIN inFlight, IndexedDeletes(i)
    PROVE  IndexedInv'
<1>0. PICK id : id = inFlight[i].id
  OBVIOUS
<1>1. /\ Basics' /\ adapter' = adapter /\ OpsLeft
      /\ \A k \in DOMAIN store : k # id => k \in DOMAIN store'
      /\ \A k \in DOMAIN store' : k \in DOMAIN store /\ store'[k] = store[k]
      /\ acked'[id] = 0 \/ UNCHANGED <<store, acked>>
      /\ \A j \in Ids : acked'[j] \in {acked[j], 0} /\ (j # id => acked'[j] = acked[j])
  BY <1>0, IndexedDeletesBasics
<1>2. inFlight[i].kind = "delete" /\ IsNext(i)
  BY DEF IndexedDeletes
<1>3. OpsTyped'
  BY <1>1 DEF Basics, Typed
<1>4. \A k \in DOMAIN inFlight : inFlight[k].pc # "put"
  BY <1>2, NextMeansNoPut DEF IndexedInv
<1>5. ASSUME NEW p \in DOMAIN inFlight, NEW j \in Ids, Awaits(inFlight[p]), Ready(p, j)
      PROVE  HeldAfter(p, j)
  <2>1. p # i /\ inFlight[p].pc = "asked"
    BY <1>2, <1>5 DEF Awaits
  <2>2. p \in Nat /\ i \in Nat /\ p >= 1 /\ i >= 1
    BY OpsAreNumbered DEF Basics, Typed
  <2>3. i \in 1 .. p - 1
    <3>1. p \notin 1 .. i - 1
      BY <1>2, <2>1 DEF IsNext
    <3>. QED  BY <2>1, <2>2, <3>1
  <2>4. j # id
    BY <1>0, <1>2, <1>5, <2>3 DEF Ready, Deletes
  <2>5. There(j, inFlight[p].since)
    BY <1>4, <1>5, ReadyIsThere
  <2>6. j \in DOMAIN store' /\ store'[j] = store[j]
    BY <1>1, <2>4, <2>5 DEF There
  <2>. QED  BY <2>5, <2>6 DEF There, HeldAfter, ThereAfter
<1>6. LoadsAreReady' /\ LoadIsFresh'
  BY <1>1, <1>3, <1>5, LeftAreReady
<1>7. PutsInOrder'
  BY <1>1, <1>3, PutsStay DEF IndexedInv
<1>8. ASSUME NEW k \in Ids, acked'[k] > 0
      PROVE  k \in DOMAIN store' /\ store'[k].stamp >= acked'[k]
  <2>1. acked'[k] = acked[k]
    BY <1>1, <1>8
  <2>2. k \in DOMAIN store /\ store[k].stamp >= acked[k]
    BY <1>8, <2>1 DEF IndexedInv, IndexedHolds
  <2>3. k # id \/ UNCHANGED store
    BY <1>1, <1>8
  <2>. QED  BY <1>1, <2>1, <2>2, <2>3
<1>9. IndexedHolds'
  BY <1>1, <1>8 DEF IndexedHolds, IndexedInv
<1>. QED  BY <1>6, <1>7, <1>9 DEF IndexedInv

\* Every step keeps what IndexedDB promises.
LEMMA IndexedKeeps ==
    ASSUME Basics, IndexedInv, [Next]_vars, adapter = "indexed"
    PROVE  IndexedInv'
<1>1. CASE Edit
  <2>1. Basics' /\ OpsLeft /\ UNCHANGED <<adapter, store, acked, inFlight>>
    BY <1>1, EditBasics DEF Edit
  <2>2. PutsKept /\ OpsTyped'
    BY <2>1 DEF PutsKept, Basics, Typed
  <2>. QED  BY <2>1, <2>2, LeftKeep
<1>2. CASE ApplyLoad
  <2>1. Basics' /\ OpsLeft /\ UNCHANGED <<adapter, store, acked>>
    BY <1>2, ApplyLoadBasics DEF ApplyLoad
  <2>2. PICK i \in DOMAIN inFlight : inFlight[i].pc = "read" /\ Answered(i)
    BY <1>2 DEF ApplyLoad
  <2>3. OthersLeft(i)
    BY <2>2, AnsweredLeavesOthers DEF Basics, Typed
  <2>4. PutsKept /\ OpsTyped'
    BY <2>1, <2>2, <2>3 DEF OthersLeft, PutsKept, Basics, Typed
  <2>. QED  BY <2>1, <2>4, LeftKeep
<1>3. CASE Restart
  <2>1. Basics' /\ OpsLeft /\ UNCHANGED <<adapter, store, acked>> /\ inFlight' = <<>>
    BY <1>3, RestartBasics DEF Restart
  <2>2. OpsTyped'
    BY <2>1 DEF Basics, Typed
  <2>. QED  BY <2>1, <2>2, LeftKeep
<1>4. CASE SaveGraph \/ RestoreBackup \/ ImportGraph
  <2>1. PICK g \in Graph, backup \in BOOLEAN : SaveAsked(g, backup)
    BY <1>4, SavesAreAsked
  <2>2. AskSave(g, backup) /\ UNCHANGED <<adapter, store, acked>>
    BY <2>1 DEF SaveAsked
  <2>3. PICK op : op = SaveOp(g, backup)
    OBVIOUS
  <2>4. op \in Op /\ OpAsked(op) /\ op.kind = "save" /\ op.pc = "asked"
    BY <2>2, <2>3, SaveIsAsked
  <2>5. op.kind = "load" => op.since = Since(op.id)
    BY <2>4
  <2>. QED  BY <2>2, <2>4, <2>5, AskedKeeps
<1>5. CASE LoadGraph
  <2>1. PICK op \in Op : OpAsked(op) /\ op.kind = "load" /\ op.pc = "asked" /\ op.since = Since(op.id)
    BY <1>5, LoadGraphBasics
  <2>2. UNCHANGED <<adapter, store, acked>>
    BY <1>5 DEF LoadGraph
  <2>. QED  BY <2>1, <2>2, AskedKeeps
<1>6. CASE DeleteGraph
  <2>1. Basics' /\ \E op \in Op : OpAsked(op) /\ op.kind = "delete"
    BY <1>6, DeleteGraphBasics
  <2>2. PICK op \in Op : OpAsked(op) /\ op.kind = "delete"
    BY <2>1
  <2>3. op.pc = "asked"
    <3>1. Len(inFlight) + 1 \in DOMAIN inFlight' /\ inFlight'[Len(inFlight) + 1] = op
      BY <2>2 DEF OpAsked
    <3>2. OpOK(op)'
      BY <2>1, <3>1 DEF Basics, Operations
    <3>. QED  BY <2>2, <3>2 DEF OpOK
  <2>4. UNCHANGED <<adapter, store, acked>> /\ (op.kind = "load" => op.since = Since(op.id))
    BY <1>6, <2>2 DEF DeleteGraph
  <2>. QED  BY <2>2, <2>3, <2>4, AskedKeeps
<1>7. ASSUME NEW i \in DOMAIN inFlight,
             IndexedSaves(i) \/ IndexedCommits(i) \/ IndexedAborts(i) \/ IndexedDeletes(i) \/ Reads(i)
      PROVE  IndexedInv'
  BY <1>7, IndexedSavesFresh, IndexedCommitsFresh, IndexedAbortsFresh, IndexedDeletesFresh, ReadsAreFresh
<1>8. CASE LocalSaves
  BY <1>8 DEF LocalSaves
<1>9. ASSUME NEW i \in DOMAIN inFlight, FileCopies(i) \/ FileOpens(i) \/ FileWrites(i) \/ FileFails(i)
      PROVE  FALSE
  BY <1>9 DEF FileCopies, FileOpens, FileWrites, FileFails, FileSave
<1>10. CASE UNCHANGED vars
  <2>1. UNCHANGED <<adapter, store, acked, inFlight>>
    BY <1>10 DEF vars
  <2>2. OpsLeft /\ OpsTyped' /\ PutsKept
    BY <2>1, UnchangedLeaves DEF PutsKept, Basics, Typed
  <2>. QED  BY <2>1, <2>2, LeftKeep
<1>. QED  BY <1>1, <1>2, <1>3, <1>4, <1>5, <1>6, <1>7, <1>8, <1>9, <1>10 DEF Next, Adapters

-----------------------------------------------------------------------------
(* What was acknowledged is there or was copied.                           *)

LEMMA AckedIsKeptBySafe ==
    AckedIsKept <=> (~ overlapped => \A id \in Ids : Safe(id))
  BY DEF AckedIsKept, Safe, InStore, InBackup, Copy

LEMMA BackupsStay ==
    ASSUME UNCHANGED backups
    PROVE  CopiesStay
  BY DEF CopiesStay

\* A copy is in the storage under its name.
LEMMA CopyIsNamed ==
    ASSUME Named, adapter # "local", NEW id, NEW s, InStore(store, id, s)
    PROVE  id \in DOMAIN store /\ Copy(store[id], id, s)
  BY DEF Named, InStore, Copy

\* IndexedDB keeps what was acknowledged.
LEMMA IndexedIsSafe ==
    ASSUME Basics, IndexedHolds, adapter = "indexed", NEW id \in Ids
    PROVE  Safe(id)
<1>. SUFFICES ASSUME acked[id] > 0
              PROVE  InStore(store, id, acked[id])
  BY DEF Safe
<1>1. id \in DOMAIN store /\ store[id].stamp >= acked[id] /\ store[id].state = "whole"
  BY DEF IndexedHolds
<1>2. store[id].graph.id = id
  BY <1>1 DEF Basics, Named
<1>. QED  BY <1>1, <1>2 DEF InStore, Copy

\* Where the storage does not change, all that is not put at risk is as safe.
LEMMA SameIsSafe ==
    ASSUME NEW id \in Ids, Safe(id), UNCHANGED store, acked'[id] \in {acked[id], 0}, CopiesStay
    PROVE  Safe(id)'
<1>1. CASE acked'[id] = acked[id]
  BY <1>1 DEF Safe, CopiesStay
<1>2. CASE acked'[id] = 0
  BY <1>2 DEF Safe
<1>. QED  BY <1>1, <1>2

LEMMA LocalIsSafe ==
    ASSUME Basics, NewestInKey, [Next]_vars, adapter = "local", NEW id \in Ids, Safe(id)
    PROVE  Safe(id)'
<1>1. CASE Edit \/ ApplyLoad \/ Restart \/ LoadGraph \/ UNCHANGED vars
  BY <1>1 DEF Edit, ApplyLoad, Restart, LoadGraph, vars, Safe
<1>2. CASE LocalSaves \/ ImportGraph
  BY <1>2, LocalBasics
<1>3. CASE SaveGraph \/ RestoreBackup \/ DeleteGraph
  BY <1>3 DEF SaveGraph, RestoreBackup, DeleteGraph
<1>4. ASSUME NEW i \in DOMAIN inFlight,
             \/ IndexedSaves(i) \/ IndexedCommits(i) \/ IndexedAborts(i) \/ IndexedDeletes(i) \/ Reads(i)
             \/ FileCopies(i) \/ FileOpens(i) \/ FileWrites(i) \/ FileFails(i)
      PROVE  FALSE
  BY <1>4 DEF IndexedSaves, IndexedCommits, IndexedAborts, IndexedDeletes, Reads, IsNext,
              FileCopies, FileOpens, FileWrites, FileFails, FileSave
<1>. QED  BY <1>1, <1>2, <1>3, <1>4 DEF Next, Adapters

-----------------------------------------------------------------------------
(* Files: a save that has emptied a file has copied it, or nothing is      *)
(* promised of it.                                                         *)

\* What the storage holds of other graphs, and what is known of them, stays.
OnlyAt(t) ==
    /\ \A k \in DOMAIN store : k # t => k \in DOMAIN store' /\ store'[k] = store[k]
    /\ \A j \in Ids : j # t => acked'[j] = acked[j]

LEMMA OtherSaveStays ==
    ASSUME NEW op, op.id \in Ids, SaveIsOK(op, store, acked, backups), CopiesStay,
           NEW t, op.id # t, OnlyAt(t)
    PROVE  SaveIsOK(op, store', acked', backups')
<1>1. acked'[op.id] = acked[op.id]
  BY DEF OnlyAt
<1>2. op.pc = "open" => op.id \in DOMAIN store' /\ store'[op.id].state = "empty"
  BY DEF OnlyAt, SaveIsOK
<1>3. acked[op.id] > 0 /\ op.pc \in {"copied", "open"} => InBackup(backups', op.id, acked[op.id])
  BY <1>1 DEF SaveIsOK, CopiesStay
<1>. QED  BY <1>1, <1>2, <1>3 DEF SaveIsOK

LEMMA OtherIsSafe ==
    ASSUME Named, adapter # "local", NEW id \in Ids, Safe(id), CopiesStay, NEW t, id # t, OnlyAt(t)
    PROVE  Safe(id)'
<1>. SUFFICES ASSUME acked'[id] > 0
              PROVE  Safe(id)'
  BY DEF Safe
<1>1. acked'[id] = acked[id]
  BY DEF OnlyAt
<1>2. CASE InBackup(backups, id, acked[id])
  BY <1>1, <1>2 DEF Safe, CopiesStay
<1>3. CASE InStore(store, id, acked[id])
  <2>1. id \in DOMAIN store /\ Copy(store[id], id, acked[id])
    BY <1>3, CopyIsNamed
  <2>2. id \in DOMAIN store' /\ Copy(store'[id], id, acked[id])
    BY <2>1 DEF OnlyAt
  <2>. QED  BY <1>1, <2>2 DEF Safe, InStore
<1>. QED  BY <1>1, <1>2, <1>3 DEF Safe

\* An operation, if it is a save, is as it must be after the step.
SaveHolds(op) == op.kind = "save" => SaveIsOK(op, store', acked', backups')

LEMMA SavesHoldApart ==
    SavesAreOK' <=> \A j \in DOMAIN inFlight' : SaveHolds(inFlight'[j])
  BY DEF SavesAreOK, SaveHolds

LEMMA OtherHolds ==
    ASSUME Operations, SavesAreOK, CopiesStay, NEW t, OnlyAt(t),
           NEW j \in DOMAIN inFlight, inFlight[j].kind = "save" => inFlight[j].id # t
    PROVE  SaveHolds(inFlight[j])
<1>. SUFFICES ASSUME inFlight[j].kind = "save"
              PROVE  SaveIsOK(inFlight[j], store', acked', backups')
  BY DEF SaveHolds
<1>1. inFlight[j].id \in Ids
  BY DEF Operations, OpOK
<1>2. SaveIsOK(inFlight[j], store, acked, backups)
  BY DEF SavesAreOK
<1>. QED  BY <1>1, <1>2, OtherSaveStays

LEMMA SameHolds ==
    ASSUME Operations, SavesAreOK, CopiesStay, UNCHANGED <<store, acked>>, NEW j \in DOMAIN inFlight
    PROVE  SaveHolds(inFlight[j])
<1>. SUFFICES ASSUME inFlight[j].kind = "save"
              PROVE  SaveIsOK(inFlight[j], store', acked', backups')
  BY DEF SaveHolds
<1>1. PICK op : op = inFlight[j]
  OBVIOUS
<1>2. SaveIsOK(op, store, acked, backups) /\ op.id \in Ids
  BY <1>1 DEF SavesAreOK, Operations, OpOK
<1>3. acked[op.id] > 0 /\ op.pc \in {"copied", "open"} => InBackup(backups', op.id, acked[op.id])
  BY <1>2 DEF SaveIsOK, CopiesStay
<1>4. SaveIsOK(op, store', acked', backups')
  BY <1>2, <1>3 DEF SaveIsOK
<1>. QED  BY <1>1, <1>4

LEMMA LeftSaves ==
    ASSUME OpsTyped, OpsTyped', OpsLeft, SavesApart, \A j \in DOMAIN inFlight : SaveHolds(inFlight[j])
    PROVE  SavesApart' /\ SavesAreOK'
<1>1. PICK f \in [DOMAIN inFlight' -> DOMAIN inFlight] :
        /\ \A j \in DOMAIN inFlight' : Same(inFlight'[j], inFlight[f[j]])
        /\ \A j, k \in DOMAIN inFlight' : j < k => f[j] < f[k]
  BY DEF OpsLeft
<1>2. \A j \in DOMAIN inFlight' : SaveHolds(inFlight'[j])
  BY <1>1 DEF Same, SaveHolds, SaveIsOK
<1>3. ASSUME NEW j \in DOMAIN inFlight', NEW k \in DOMAIN inFlight', f[j] = f[k]
      PROVE  j = k
  <2>1. j \in Nat /\ k \in Nat
    BY LenProperties DEF OpsTyped
  <2>2. f[j] \in Nat
    BY <1>1, OpsAreNumbered
  <2>. QED  BY <1>1, <1>3, <2>1, <2>2
<1>4. SavesApart'
  BY <1>1, <1>3 DEF SavesApart, Same
<1>. QED  BY <1>2, <1>4, SavesHoldApart

LEMMA GoneSaves ==
    ASSUME NEW i \in DOMAIN inFlight, OpGone(i), SavesApart,
           \A j \in DOMAIN inFlight \ {i} : SaveHolds(inFlight[j])
    PROVE  SavesApart' /\ SavesAreOK'
<1>1. PICK f \in [DOMAIN inFlight' -> DOMAIN inFlight \ {i}] :
        /\ \A j \in DOMAIN inFlight' : Same(inFlight'[j], inFlight[f[j]])
        /\ \A j, k \in DOMAIN inFlight' : j # k => f[j] # f[k]
  BY DEF OpGone
<1>2. \A j \in DOMAIN inFlight' : SaveHolds(inFlight'[j])
  BY <1>1 DEF Same, SaveHolds, SaveIsOK
<1>3. SavesApart'
  BY <1>1 DEF SavesApart, Same
<1>. QED  BY <1>2, <1>3, SavesHoldApart

LEMMA AskedSaves ==
    ASSUME SavesApart, NEW op, OpAsked(op), SaveHolds(op),
           op.kind = "save" => \A j \in DOMAIN inFlight : ~ (inFlight[j].kind = "save" /\ inFlight[j].id = op.id),
           \A j \in DOMAIN inFlight : SaveHolds(inFlight[j])
    PROVE  SavesApart' /\ SavesAreOK'
<1>. DEFINE n == Len(inFlight) + 1
<1>1. /\ \A j \in DOMAIN inFlight' : j # n => j \in DOMAIN inFlight /\ inFlight'[j] = inFlight[j]
      /\ inFlight'[n] = op
  BY DEF OpAsked
<1>. HIDE DEF n
<1>2. \A j \in DOMAIN inFlight' : SaveHolds(inFlight'[j])
  BY <1>1
<1>3. SavesApart'
  BY <1>1 DEF SavesApart
<1>. QED  BY <1>2, <1>3, SavesHoldApart

LEMMA ChangedSaves ==
    ASSUME SavesApart, NEW i \in DOMAIN inFlight, NEW op, OpChanged(i, op), SaveHolds(op),
           op.kind = inFlight[i].kind, op.id = inFlight[i].id,
           \A j \in DOMAIN inFlight : j # i => SaveHolds(inFlight[j])
    PROVE  SavesApart' /\ SavesAreOK'
<1>1. \A j \in DOMAIN inFlight' : SaveHolds(inFlight'[j])
  BY DEF OpChanged
<1>2. SavesApart'
  BY DEF OpChanged, SavesApart
<1>. QED  BY <1>1, <1>2, SavesHoldApart

\* Nothing changes for the saves.
LEMMA SameFiles ==
    ASSUME Basics, Basics', FilesInv, OpsLeft, UNCHANGED <<store, acked, backups>>
    PROVE  FilesInv'
<1>1. OpsTyped /\ OpsTyped' /\ SavesApart /\ SavesAreOK /\ Operations /\ CopiesStay
  BY BackupsStay DEF Basics, Typed, FilesInv
<1>2. \A j \in DOMAIN inFlight : SaveHolds(inFlight[j])
  BY <1>1, SameHolds
<1>3. SavesApart' /\ SavesAreOK'
  BY <1>1, <1>2, LeftSaves
<1>4. \A id \in Ids : Safe(id)'
  BY <1>1, SameIsSafe DEF FilesInv
<1>. QED  BY <1>3, <1>4 DEF FilesInv

LEMMA AskedFiles ==
    ASSUME Basics, FilesInv, UNCHANGED <<store, acked, backups>>, NEW op, OpAsked(op), SaveHolds(op),
           op.kind = "save" => \A j \in DOMAIN inFlight : ~ (inFlight[j].kind = "save" /\ inFlight[j].id = op.id)
    PROVE  FilesInv'
<1>1. SavesApart /\ SavesAreOK /\ Operations /\ CopiesStay
  BY BackupsStay DEF Basics, FilesInv
<1>2. \A j \in DOMAIN inFlight : SaveHolds(inFlight[j])
  BY <1>1, SameHolds
<1>3. SavesApart' /\ SavesAreOK'
  BY <1>1, <1>2, AskedSaves
<1>4. \A id \in Ids : Safe(id)'
  BY <1>1, SameIsSafe DEF FilesInv
<1>. QED  BY <1>3, <1>4 DEF FilesInv

\* No save of a file that is being saved is asked for.
LEMMA SaveAskedFiles ==
    ASSUME Basics, FilesInv, adapter = "file", ~ overlapped',
           NEW g \in Graph, NEW backup \in BOOLEAN, SaveAsked(g, backup)
    PROVE  FilesInv'
<1>1. AskSave(g, backup) /\ UNCHANGED <<store, acked, backups>>
  BY DEF SaveAsked
<1>2. PICK op : op = SaveOp(g, backup)
  OBVIOUS
<1>3. /\ OpAsked(op) /\ op.kind = "save" /\ op.id = g.id /\ op.pc = "asked"
      /\ overlapped' = (overlapped \/ (adapter = "file" /\
            \E i \in DOMAIN inFlight : inFlight[i].kind = "save" /\ inFlight[i].id = g.id))
  BY <1>1, <1>2, SaveIsAsked
<1>4. \A j \in DOMAIN inFlight : ~ (inFlight[j].kind = "save" /\ inFlight[j].id = op.id)
  BY <1>3
<1>5. SaveHolds(op)
  BY <1>3 DEF SaveHolds, SaveIsOK
<1>. QED  BY <1>1, <1>3, <1>4, <1>5, AskedFiles

LEMMA LoadGraphFiles ==
    ASSUME Basics, FilesInv, LoadGraph
    PROVE  FilesInv'
<1>1. PICK op \in Op : OpAsked(op) /\ op.kind = "load"
  BY LoadGraphBasics
<1>2. UNCHANGED <<store, acked, backups>>
  BY DEF LoadGraph
<1>3. SaveHolds(op) /\ op.kind # "save"
  BY <1>1 DEF SaveHolds
<1>. QED  BY <1>1, <1>2, <1>3, AskedFiles

LEMMA ReadsFiles ==
    ASSUME Basics, FilesInv, NEW i \in DOMAIN inFlight, Reads(i)
    PROVE  FilesInv'
<1>0. PICK op : op = inFlight[i]
  OBVIOUS
<1>1. PICK read : read = ReadOp(op)
  OBVIOUS
<1>2. OpChanged(i, read) /\ op.kind = "load" /\ read.kind = "load" /\ read.id = op.id
  <2>1. OpChanged(i, read) /\ op.kind = "load" /\ read.kind = "load"
    BY <1>0, <1>1, ReadsBasics
  <2>2. op \in Op
    BY <1>0, OpsAreNumbered DEF Basics, Typed
  <2>3. read.id = op.id
    BY <1>1, <2>2 DEF ReadOp, Op
  <2>. QED  BY <2>1, <2>3
<1>3. UNCHANGED <<store, acked, backups>> /\ Operations /\ SavesApart /\ SavesAreOK /\ CopiesStay
  BY BackupsStay DEF Reads, Basics, FilesInv
<1>4. \A j \in DOMAIN inFlight : SaveHolds(inFlight[j])
  BY <1>3, SameHolds
<1>5. SaveHolds(read)
  BY <1>2 DEF SaveHolds
<1>6. SavesApart' /\ SavesAreOK'
  BY <1>0, <1>2, <1>3, <1>4, <1>5, ChangedSaves
<1>7. \A id \in Ids : Safe(id)'
  BY <1>3, SameIsSafe DEF FilesInv
<1>. QED  BY <1>6, <1>7 DEF FilesInv

\* The other saves are of other graphs.
LEMMA OthersHold ==
    ASSUME Basics, FilesInv, CopiesStay, NEW i \in DOMAIN inFlight, inFlight[i].kind = "save",
           OnlyAt(inFlight[i].id)
    PROVE  \A j \in DOMAIN inFlight : j # i => SaveHolds(inFlight[j])
<1>1. Operations /\ SavesAreOK /\ SavesApart
  BY DEF Basics, FilesInv
<1>2. \A j \in DOMAIN inFlight : j # i /\ inFlight[j].kind = "save" => inFlight[j].id # inFlight[i].id
  BY <1>1 DEF SavesApart
<1>. QED  BY <1>1, <1>2, OtherHolds

\* Where the graph that is there is copied, what was acknowledged of it is.
LEMMA FileCopiesFiles ==
    ASSUME Basics, NewestInKey, FilesInv, NEW i \in DOMAIN inFlight, FileCopies(i)
    PROVE  FilesInv'
<1>0. PICK op : op = inFlight[i]
  OBVIOUS
<1>1. /\ OnlyRisked /\ UNCHANGED <<adapter, store>>
      /\ \A j \in Ids : j # op.id => acked'[j] = acked[j]
      /\ \E pc \in {"copied", "bare"} :
            /\ inFlight' = [inFlight EXCEPT ![i].pc = pc]
            /\ pc = "copied" => op.id \notin DOMAIN store \/ \E b \in DOMAIN backups' : backups'[b] = store[op.id]
  BY <1>0, FileCopiesBasics
<1>2. PICK pc \in {"copied", "bare"} :
        /\ inFlight' = [inFlight EXCEPT ![i].pc = pc]
        /\ pc = "copied" => op.id \notin DOMAIN store \/ \E b \in DOMAIN backups' : backups'[b] = store[op.id]
  BY <1>1
<1>3. adapter = "file" /\ inFlight[i].kind = "save" /\ op.kind = "save"
  BY <1>0 DEF FileCopies, FileSave
<1>4. PICK step : step = StepOp(op, pc)
  OBVIOUS
<1>5. OpChanged(i, step) /\ step.kind = "save" /\ step.id = op.id /\ step.pc = pc /\ op.id \in Ids
  <2>1. Later
    BY <1>1, SameTime DEF OnlyRisked, Basics, Typed
  <2>2. pc \in {"copied", "bare", "open"}
    BY <1>2
  <2>. QED  BY <1>0, <1>2, <1>3, <1>4, <2>1, <2>2, StepIsOk
<1>6. Named /\ SavesApart /\ CopiesStay /\ acked'[op.id] \in {acked[op.id], 0} /\ Safe(op.id)
  BY <1>1, <1>5 DEF OnlyRisked, Basics, FilesInv
<1>7. OnlyAt(op.id)
  BY <1>1 DEF OnlyAt
<1>8. \A j \in DOMAIN inFlight : j # i => SaveHolds(inFlight[j])
  BY <1>0, <1>3, <1>6, <1>7, OthersHold
<1>9. ASSUME acked'[op.id] > 0, pc = "copied"
      PROVE  InBackup(backups', op.id, acked'[op.id])
  <2>1. acked'[op.id] = acked[op.id] /\ acked[op.id] > 0
    BY <1>6, <1>9
  <2>2. CASE InBackup(backups, op.id, acked[op.id])
    BY <1>5, <1>6, <2>1, <2>2 DEF CopiesStay
  <2>3. CASE InStore(store, op.id, acked[op.id])
    <3>1. op.id \in DOMAIN store /\ Copy(store[op.id], op.id, acked[op.id])
      BY <1>3, <1>6, <2>3, CopyIsNamed
    <3>2. PICK b \in DOMAIN backups' : backups'[b] = store[op.id]
      BY <1>2, <1>9, <3>1
    <3>. QED  BY <2>1, <3>1, <3>2 DEF InBackup
  <2>. QED  BY <1>6, <2>1, <2>2, <2>3 DEF Safe
<1>10. SaveHolds(step)
  BY <1>2, <1>5, <1>9 DEF SaveHolds, SaveIsOK
<1>11. SavesApart' /\ SavesAreOK'
  <2>1. step.kind = inFlight[i].kind /\ step.id = inFlight[i].id
    BY <1>0, <1>3, <1>5
  <2>. QED  BY <1>5, <1>6, <1>8, <1>10, <2>1, ChangedSaves
<1>12. ASSUME NEW id \in Ids
       PROVE  Safe(id)'
  <2>1. acked'[id] \in {acked[id], 0} /\ Safe(id)
    BY <1>1 DEF OnlyRisked, FilesInv
  <2>. QED  BY <1>1, <1>6, <2>1, SameIsSafe
<1>. QED  BY <1>11, <1>12 DEF FilesInv

\* The file is emptied: the copy is what remains of it, or nothing is promised.
LEMMA FileOpensFiles ==
    ASSUME Basics, FilesInv, NEW i \in DOMAIN inFlight, FileOpens(i)
    PROVE  FilesInv'
<1>0. PICK op : op = inFlight[i]
  OBVIOUS
<1>1. /\ adapter = "file" /\ op.kind = "save" /\ inFlight[i].kind = "save" /\ UNCHANGED backups
      /\ adapter' = adapter
  BY <1>0 DEF FileOpens, FileSave
<1>2. PICK g : g = op.graph
  OBVIOUS
<1>3. /\ Basics' /\ g \in Graph /\ g.id = op.id /\ Stored(g.id, Kept("empty", g))
      /\ acked'[g.id] = 0 \/ (op.pc = "copied" /\ UNCHANGED acked)
      /\ \A j \in Ids : acked'[j] \in {acked[j], 0} /\ (j # g.id => acked'[j] = acked[j])
  BY <1>0, <1>2, FileOpensBasics
<1>4. PICK pc \in {"copied", "bare", "open"} : pc = "open" /\ inFlight' = [inFlight EXCEPT ![i].pc = pc]
  BY DEF FileOpens, FileStep
<1>5. PICK step : step = StepOp(op, pc)
  OBVIOUS
<1>6. OpChanged(i, step) /\ step.kind = "save" /\ step.id = op.id /\ step.pc = "open" /\ op.id \in Ids
  <2>1. clock \in Nat
    BY DEF Basics, Typed, Counters
  <2>2. clock' = clock + 1
    BY DEF FileOpens, Put
  <2>3. Later
    BY <1>1, <2>1, <2>2 DEF Later
  <2>. QED  BY <1>0, <1>1, <1>4, <1>5, <2>3, StepIsOk
<1>7. PICK kept : kept = Kept("empty", g)
  OBVIOUS
<1>8. kept.state = "empty" /\ Stored(op.id, kept)
  BY <1>3, <1>7, KeptTyped DEF Basics, Typed, Counters
<1>9. Named /\ SavesApart /\ SaveIsOK(op, store, acked, backups) /\ CopiesStay
  BY <1>0, <1>1, BackupsStay DEF Basics, FilesInv, SavesAreOK
<1>10. OnlyAt(op.id)
  BY <1>3, <1>8 DEF OnlyAt, Stored
<1>11. \A j \in DOMAIN inFlight : j # i => SaveHolds(inFlight[j])
  BY <1>0, <1>1, <1>9, <1>10, OthersHold
<1>12. acked'[op.id] > 0 => InBackup(backups', op.id, acked'[op.id])
  <2>. SUFFICES ASSUME acked'[op.id] > 0
                PROVE  InBackup(backups', op.id, acked'[op.id])
    OBVIOUS
  <2>1. op.pc = "copied" /\ UNCHANGED acked
    BY <1>3
  <2>. QED  BY <1>1, <1>9, <2>1 DEF SaveIsOK
<1>13. SaveHolds(step)
  BY <1>6, <1>8, <1>12 DEF SaveHolds, SaveIsOK, Stored
<1>14. SavesApart' /\ SavesAreOK'
  <2>1. step.kind = inFlight[i].kind /\ step.id = inFlight[i].id
    BY <1>0, <1>1, <1>6
  <2>. QED  BY <1>6, <1>9, <1>11, <1>13, <2>1, ChangedSaves
<1>15. ASSUME NEW id \in Ids
       PROVE  Safe(id)'
  <2>1. CASE id = op.id
    BY <1>12, <2>1 DEF Safe
  <2>2. CASE id # op.id
    BY <1>1, <1>9, <1>10, <2>2, OtherIsSafe DEF FilesInv
  <2>. QED  BY <2>1, <2>2
<1>. QED  BY <1>14, <1>15 DEF FilesInv

\* The file, which is still empty, is written whole and acknowledged.
LEMMA FileWritesFiles ==
    ASSUME Basics, FilesInv, NEW i \in DOMAIN inFlight, FileWrites(i)
    PROVE  FilesInv'
<1>. DEFINE op == inFlight[i]
            g == op.graph
<1>1. /\ adapter = "file" /\ op.kind = "save" /\ op.pc = "open"
      /\ UNCHANGED <<adapter, backups>>
  BY DEF FileWrites, FileSave
<1>2. OpGone(i) /\ clock' = clock + 1 /\ Ack(op.id, clock') /\ g \in Graph /\ g.id = op.id /\ g.id \in Ids
  BY FileWritesBasics
<1>3. PICK state \in {"whole", "mixed"} :
        Stored(g.id, Kept(state, g)) /\ (store[g.id].state = "empty" => state = "whole")
  BY FileWritesBasics
<1>4. /\ Named /\ SavesApart /\ SaveIsOK(op, store, acked, backups) /\ clock \in Nat
      /\ acked \in [Ids -> Nat]
  BY <1>1 DEF Basics, Typed, Counters, AckedTyped, FilesInv, SavesAreOK
<1>. DEFINE kept == Kept(state, g)
<1>. HIDE DEF op, g
<1>5. state = "whole"
  BY <1>1, <1>2, <1>3, <1>4 DEF SaveIsOK
<1>6. kept.state = "whole" /\ kept.graph = g /\ kept.stamp = clock + 1 /\ Stored(op.id, kept)
  BY <1>2, <1>3, <1>4, <1>5, KeptTyped
<1>. HIDE DEF kept
<1>7. acked'[op.id] = clock + 1 /\ \A j \in Ids : j # op.id => acked'[j] = acked[j]
  BY <1>2, <1>4 DEF Ack
<1>8. OnlyAt(op.id)
  BY <1>6, <1>7 DEF OnlyAt, Stored
<1>9. CopiesStay
  BY <1>1, BackupsStay
<1>10. \A j \in DOMAIN inFlight \ {i} : SaveHolds(inFlight[j])
  BY <1>1, <1>8, <1>9, OthersHold DEF op
<1>11. SavesApart' /\ SavesAreOK'
  BY <1>2, <1>4, <1>10, GoneSaves
<1>12. ASSUME NEW id \in Ids
       PROVE  Safe(id)'
  <2>1. CASE id = op.id
    <3>1. Copy(kept, id, clock + 1)
      BY <1>2, <1>4, <1>6, <2>1 DEF Copy
    <3>2. op.id \in DOMAIN store' /\ store'[op.id] = kept
      BY <1>6 DEF Stored
    <3>. QED  BY <1>7, <2>1, <3>1, <3>2 DEF Safe, InStore
  <2>2. CASE id # op.id
    BY <1>1, <1>4, <1>8, <1>9, <2>2, OtherIsSafe DEF FilesInv
  <2>. QED  BY <2>1, <2>2
<1>. QED  BY <1>11, <1>12 DEF FilesInv

LEMMA FileFailsFiles ==
    ASSUME Basics, FilesInv, NEW i \in DOMAIN inFlight, FileFails(i)
    PROVE  FilesInv'
<1>1. Basics' /\ OpsLeft
  BY FileFailsBasics
<1>2. UNCHANGED <<store, acked, backups>>
  BY DEF FileFails
<1>. QED  BY <1>1, <1>2, SameFiles

LEMMA FilesKeep ==
    ASSUME Basics, Basics', NewestInKey, FilesInv, adapter = "file", ~ overlapped', [Next]_vars
    PROVE  FilesInv'
<1>1. CASE Edit \/ ApplyLoad \/ Restart
  <2>1. OpsLeft /\ UNCHANGED <<store, acked, backups>>
    BY <1>1, EditBasics, ApplyLoadBasics, RestartBasics DEF Edit, ApplyLoad, Restart
  <2>. QED  BY <2>1, SameFiles
<1>2. CASE SaveGraph \/ RestoreBackup \/ ImportGraph
  <2>1. PICK g \in Graph, backup \in BOOLEAN : SaveAsked(g, backup)
    BY <1>2, SavesAreAsked
  <2>. QED  BY <2>1, SaveAskedFiles
<1>3. CASE LoadGraph
  BY <1>3, LoadGraphFiles
<1>4. CASE LocalSaves \/ DeleteGraph
  BY <1>4 DEF LocalSaves, DeleteGraph
<1>5. ASSUME NEW i \in DOMAIN inFlight,
             IndexedSaves(i) \/ IndexedCommits(i) \/ IndexedAborts(i) \/ IndexedDeletes(i)
      PROVE  FALSE
  BY <1>5 DEF IndexedSaves, IndexedCommits, IndexedAborts, IndexedDeletes, IsNext
<1>6. ASSUME NEW i \in DOMAIN inFlight,
             Reads(i) \/ FileCopies(i) \/ FileOpens(i) \/ FileWrites(i) \/ FileFails(i)
      PROVE  FilesInv'
  BY <1>6, ReadsFiles, FileCopiesFiles, FileOpensFiles, FileWritesFiles, FileFailsFiles
<1>7. CASE UNCHANGED vars
  <2>1. OpsTyped /\ UNCHANGED <<inFlight, store, acked, backups>>
    BY <1>7 DEF vars, Basics, Typed
  <2>. QED  BY <2>1, UnchangedLeaves, SameFiles
<1>. QED  BY <1>1, <1>2, <1>3, <1>4, <1>5, <1>6, <1>7 DEF Next, Adapters

-----------------------------------------------------------------------------
(* All steps keep the invariant.                                           *)

LEMMA BasicsKeep ==
    ASSUME Basics, NewestInKey, [Next]_vars
    PROVE  Basics' /\ adapter' = adapter
<1>1. CASE Edit \/ LoadGraph \/ ApplyLoad \/ Restart \/ DeleteGraph
  BY <1>1, EditBasics, LoadGraphBasics, ApplyLoadBasics, RestartBasics, DeleteGraphBasics
  DEF Edit, LoadGraph, ApplyLoad, Restart, DeleteGraph
<1>2. CASE SaveGraph \/ RestoreBackup \/ (adapter # "local" /\ ImportGraph)
  <2>1. adapter # "local"
    BY <1>2, SavesAreAsked
  <2>2. PICK g \in Graph, backup \in BOOLEAN : SaveAsked(g, backup)
    BY <1>2, SavesAreAsked
  <2>. QED  BY <2>1, <2>2, SaveAskedBasics DEF SaveAsked
<1>3. CASE adapter = "local" /\ (LocalSaves \/ ImportGraph)
  BY <1>3, LocalBasics
<1>4. ASSUME NEW i \in DOMAIN inFlight,
             IndexedSaves(i) \/ IndexedCommits(i) \/ IndexedAborts(i) \/ IndexedDeletes(i) \/ Reads(i)
      PROVE  Basics' /\ adapter' = adapter
  BY <1>4, IndexedSavesBasics, IndexedCommitsBasics, IndexedAbortsBasics, IndexedDeletesBasics, ReadsBasics
  DEF Reads
<1>5. ASSUME NEW i \in DOMAIN inFlight, FileCopies(i) \/ FileOpens(i) \/ FileWrites(i) \/ FileFails(i)
      PROVE  Basics' /\ adapter' = adapter
  BY <1>5, FileCopiesBasics, FileOpensBasics, FileWritesBasics, FileFailsBasics
  DEF FileOpens, FileWrites, FileFails
<1>6. CASE UNCHANGED vars
  <2>1. UNCHANGED <<adapter, graph, store, backups, inFlight, saves, clock, sessions, acked, overlapped>>
    BY <1>6 DEF vars
  <2>2. Typed /\ Named /\ Operations
    BY DEF Basics
  <2>3. GraphTyped' /\ StoreTyped' /\ AckedTyped' /\ BackupsTyped' /\ Named'
    BY <2>1, <2>2, StorageStays
  <2>4. Counters' /\ OpsTyped'
    BY <2>1, <2>2 DEF Typed, Counters, OpsTyped
  <2>5. Operations'
    BY <2>1, <2>2, UnchangedLeaves, SameTime, LeftAreOk DEF Typed
  <2>. QED  BY <2>1, <2>3, <2>4, <2>5 DEF Basics, Typed
<1>. QED  BY <1>1, <1>2, <1>3, <1>4, <1>5, <1>6 DEF Next, Adapters, LocalSaves

LEMMA NewestKeeps ==
    ASSUME Basics, NewestInKey, [Next]_vars
    PROVE  NewestInKey'
<1>1. /\ \A k \in DOMAIN store : k \in Ids /\ store[k].graph.id \in Ids
      /\ adapter # "local" => \A k \in DOMAIN store : store[k].graph.id = k
  BY DEF Basics, Typed, StoreTyped, KeptGraph, Graph, Named
<1>2. CASE UNCHANGED <<store, acked>>
  BY <1>2, NewestStays
<1>3. CASE adapter = "local" /\ (LocalSaves \/ ImportGraph)
  BY <1>3, LocalBasics
<1>4. ASSUME NEW i \in DOMAIN inFlight, IndexedCommits(i)
      PROVE  NewestInKey'
  <2>1. PICK op : op = inFlight[i]
    OBVIOUS
  <2>2. /\ op.found.stamp \in Nat /\ op.found.graph.id = op.id
        /\ Stored(op.id, op.found)
        /\ acked'[op.id] = op.found.stamp
        /\ \A j \in Ids : j # op.id => acked'[j] = acked[j]
    BY <1>4, <2>1, IndexedCommitsBasics
  <2>3. adapter # "local"
    BY <1>4 DEF IndexedCommits
  <2>4. PICK key : key = op.id
    OBVIOUS
  <2>5. PICK kept : kept = op.found
    OBVIOUS
  <2>6. Stored(key, kept) /\ kept.stamp >= acked'[kept.graph.id]
    BY <2>2, <2>4, <2>5
  <2>7. \A k \in DOMAIN store : k # key => acked'[store[k].graph.id] \in {acked[store[k].graph.id], 0}
    BY <1>1, <2>2, <2>3, <2>4
  <2>. QED  BY <2>6, <2>7, NewestStored
<1>5. ASSUME NEW i \in DOMAIN inFlight, IndexedDeletes(i)
      PROVE  NewestInKey'
  <2>1. /\ \A k \in DOMAIN store' : k \in DOMAIN store /\ store'[k] = store[k]
        /\ \A j \in Ids : acked'[j] \in {acked[j], 0}
    BY <1>5, IndexedDeletesBasics
  <2>2. ASSUME NEW k \in DOMAIN store', store'[k].state = "whole"
        PROVE  store'[k].stamp >= acked'[store'[k].graph.id]
    <3>1. store[k].stamp \in Nat /\ store'[k] = store[k] /\ k \in DOMAIN store
      BY <2>1 DEF Basics, Typed, StoreTyped, KeptGraph
    <3>2. store[k].stamp >= acked[store[k].graph.id]
      BY <2>2, <3>1 DEF NewestInKey
    <3>3. acked'[store[k].graph.id] \in {acked[store[k].graph.id], 0}
      BY <1>1, <2>1, <3>1
    <3>. QED  BY <3>1, <3>2, <3>3
  <2>. QED  BY <2>2 DEF NewestInKey
<1>6. ASSUME NEW i \in DOMAIN inFlight, FileCopies(i)
      PROVE  NewestInKey'
  BY <1>6, FileCopiesBasics, NewestStays DEF OnlyRisked
<1>7. ASSUME NEW i \in DOMAIN inFlight, FileOpens(i)
      PROVE  NewestInKey'
  <2>1. PICK g : g = inFlight[i].graph
    OBVIOUS
  <2>2. /\ g \in Graph /\ Stored(g.id, Kept("empty", g))
        /\ \A j \in Ids : acked'[j] \in {acked[j], 0}
    BY <1>7, <2>1, FileOpensBasics
  <2>3. PICK kept : kept = Kept("empty", g)
    OBVIOUS
  <2>4. kept.state = "empty"
    BY <2>2, <2>3, KeptTyped DEF Basics, Typed, Counters
  <2>5. \A k \in DOMAIN store : acked'[store[k].graph.id] \in {acked[store[k].graph.id], 0}
    BY <1>1, <2>2
  <2>. QED  BY <2>2, <2>3, <2>4, <2>5, NewestStored
<1>8. ASSUME NEW i \in DOMAIN inFlight, FileWrites(i)
      PROVE  NewestInKey'
  <2>1. PICK g : g = inFlight[i].graph
    OBVIOUS
  <2>2. /\ g \in Graph /\ g.id = inFlight[i].id /\ g.id \in Ids /\ clock' = clock + 1
        /\ Ack(inFlight[i].id, clock')
        /\ \E state \in {"whole", "mixed"} : Stored(g.id, Kept(state, g))
    BY <1>8, <2>1, FileWritesBasics
  <2>3. PICK state \in {"whole", "mixed"} : Stored(g.id, Kept(state, g))
    BY <2>2
  <2>4. PICK kept : kept = Kept(state, g)
    OBVIOUS
  <2>5. kept.graph = g /\ kept.stamp = clock + 1 /\ clock \in Nat
    <3>1. state \in {"whole", "empty", "mixed"} /\ clock \in Nat
      BY <2>3 DEF Basics, Typed, Counters
    <3>. QED  BY <2>2, <2>4, <3>1, KeptTyped
  <2>6. acked'[g.id] = clock + 1 /\ \A j \in Ids : j # g.id => acked'[j] = acked[j]
    BY <2>2 DEF Ack, Basics, Typed, AckedTyped
  <2>7. adapter # "local"
    BY <1>8 DEF FileWrites, FileSave
  <2>8. \A k \in DOMAIN store : k # g.id => acked'[store[k].graph.id] \in {acked[store[k].graph.id], 0}
    BY <1>1, <2>6, <2>7
  <2>9. kept.stamp >= acked'[kept.graph.id] /\ Stored(g.id, kept)
    BY <2>3, <2>4, <2>5, <2>6
  <2>. QED  BY <2>8, <2>9, NewestStored
<1>9. CASE SaveGraph \/ RestoreBackup \/ (adapter # "local" /\ ImportGraph)
  <2>1. PICK g \in Graph, backup \in BOOLEAN : SaveAsked(g, backup)
    BY <1>9, SavesAreAsked
  <2>. QED  BY <1>2, <2>1 DEF SaveAsked
<1>10. CASE Edit \/ LoadGraph \/ ApplyLoad \/ Restart \/ DeleteGraph \/ UNCHANGED vars
  BY <1>2, <1>10 DEF Edit, LoadGraph, ApplyLoad, Restart, DeleteGraph, vars
<1>11. ASSUME NEW i \in DOMAIN inFlight, IndexedSaves(i) \/ IndexedAborts(i) \/ Reads(i) \/ FileFails(i)
       PROVE  NewestInKey'
  BY <1>2, <1>11 DEF IndexedSaves, IndexedAborts, Reads, FileFails
<1>. QED  BY <1>3, <1>4, <1>5, <1>6, <1>7, <1>8, <1>9, <1>10, <1>11 DEF Next, Adapters, LocalSaves

\* A file that was saved while it was being saved stays marked so.
LEMMA OverlapStays ==
    ASSUME Basics, [Next]_vars, overlapped
    PROVE  overlapped'
<1>1. CASE SaveGraph \/ RestoreBackup \/ (adapter # "local" /\ ImportGraph)
  <2>1. PICK g \in Graph, backup \in BOOLEAN : SaveAsked(g, backup)
    BY <1>1, SavesAreAsked
  <2>. QED  BY <2>1 DEF SaveAsked, AskSave
<1>2. CASE adapter = "local" /\ ImportGraph
  BY <1>2 DEF ImportGraph
<1>3. CASE Edit \/ LoadGraph \/ ApplyLoad \/ Restart \/ LocalSaves \/ DeleteGraph \/ UNCHANGED vars
  BY <1>3 DEF Edit, LoadGraph, ApplyLoad, Restart, LocalSaves, DeleteGraph, vars
<1>4. CASE Adapters
  BY <1>4 DEF Adapters, IndexedSaves, IndexedCommits, IndexedAborts, IndexedDeletes, Reads,
              FileCopies, FileOpens, FileWrites, FileFails
<1>. QED  BY <1>1, <1>2, <1>3, <1>4 DEF Next

LEMMA InitBasics ==
    ASSUME Init
    PROVE  /\ Basics /\ inFlight = <<>> /\ overlapped = FALSE /\ acked = [id \in Ids |-> 0]
           /\ \A k \in DOMAIN store : store[k].state = "whole"
<1>1. /\ adapter \in {"file", "local", "indexed"}
      /\ backups = <<>> /\ inFlight = <<>>
      /\ saves = 0 /\ clock = 0 /\ sessions = 1
      /\ acked = [id \in Ids |-> 0] /\ overlapped = FALSE
  BY DEF Init
<1>2. Counters /\ AckedTyped
  <2>1. 1 \in 1 .. MaxSessions
    BY StoreAssumption, Numbers
  <2>2. Counters
    BY <1>1, <2>1 DEF Counters
  <2>3. AckedTyped
    BY <1>1 DEF AckedTyped
  <2>. QED  BY <2>2, <2>3
<1>3. GraphTyped
  <2>1. PICK told \in BOOLEAN : graph = GraphOf(1, "current", told, FALSE)
    BY DEF Init
  <2>2. 1 \in Ids
    BY StoreAssumption DEF Ids
  <2>. QED  BY <2>1, <2>2, Numbers DEF GraphOf, GraphTyped, Graph
<1>4. BackupsTyped /\ OpsTyped /\ Operations
  BY <1>1, Numbers DEF BackupsTyped, OpsTyped, Operations
<1>5. CASE store = [k \in {} |-> k]
  <2>1. DOMAIN store = {}
    BY <1>5
  <2>2. StoreTyped /\ Named
    BY <2>1 DEF StoreTyped, Named
  <2>. QED  BY <1>1, <1>2, <1>3, <1>4, <2>1, <2>2 DEF Basics, Typed
<1>6. CASE \E g \in {GraphOf(0, v, TRUE, v = "newer") : v \in {"old", "newer"}} :
             store = [k \in {0} |-> [state |-> "whole", graph |-> g, strings |-> StringsOf(g), stamp |-> 0]]
  <2>1. PICK v \in {"old", "newer"} :
          store = [k \in {0} |-> [state |-> "whole", graph |-> GraphOf(0, v, TRUE, v = "newer"),
                                  strings |-> StringsOf(GraphOf(0, v, TRUE, v = "newer")), stamp |-> 0]]
    BY <1>6
  <2>. DEFINE g == GraphOf(0, v, TRUE, v = "newer")
              kept == [state |-> "whole", graph |-> g, strings |-> StringsOf(g), stamp |-> 0]
  <2>2. g \in Graph /\ g.id = 0
    BY Numbers DEF GraphOf, Graph
  <2>3. DOMAIN store = {0} /\ store[0] = kept
    BY <2>1
  <2>5. StringsOf(g) \in SUBSET {"own", "told", "elements"}
    BY DatesTyped
  <2>. HIDE DEF g, StringsOf
  <2>6. kept \in KeptGraph /\ kept.state = "whole" /\ kept.graph = g /\ kept.stamp = 0
    BY <2>2, <2>5 DEF KeptGraph
  <2>. HIDE DEF kept
  <2>7. StoreTyped
    BY <1>1, <2>3, <2>6, Numbers DEF StoreTyped
  <2>8. Named
    BY <2>2, <2>3, <2>6 DEF Named
  <2>. QED  BY <1>1, <1>2, <1>3, <1>4, <2>3, <2>6, <2>7, <2>8 DEF Basics, Typed
<1>. QED  BY <1>5, <1>6 DEF Init

LEMMA InitStoreInv == Init => StoreInv
<1>. SUFFICES ASSUME Init
              PROVE  StoreInv
  OBVIOUS
<1>1. /\ Basics /\ inFlight = <<>> /\ overlapped = FALSE /\ acked = [id \in Ids |-> 0]
      /\ \A k \in DOMAIN store : store[k].state = "whole"
  BY InitBasics
<1>2. DOMAIN inFlight = {}
  BY <1>1
<1>3. \A id \in Ids : Safe(id)
  BY <1>1 DEF Safe
<1>4. adapter = "indexed" => IndexedInv
  BY <1>1, <1>2 DEF IndexedInv, IndexedHolds, PutsInOrder, LoadsAreReady, LoadIsFresh
<1>5. SavesApart /\ SavesAreOK
  BY <1>2 DEF SavesApart, SavesAreOK
<1>6. NewestInKey
  <2>1. \A k \in DOMAIN store : store[k].stamp \in Nat /\ store[k].graph.id \in Ids
    BY <1>1 DEF Basics, Typed, StoreTyped, KeptGraph, Graph
  <2>2. \A k \in DOMAIN store : acked[store[k].graph.id] = 0
    BY <1>1, <2>1
  <2>. QED  BY <2>1, <2>2 DEF NewestInKey
<1>. QED  BY <1>1, <1>3, <1>4, <1>5, <1>6 DEF StoreInv, FilesInv

LEMMA StoreInvKeeps ==
    ASSUME StoreInv, [Next]_vars
    PROVE  StoreInv'
<1>1. Basics /\ NewestInKey
  BY DEF StoreInv
<1>2. Basics' /\ NewestInKey' /\ adapter' = adapter
  BY <1>1, BasicsKeep, NewestKeeps
<1>3. CASE adapter = "indexed"
  BY <1>1, <1>2, <1>3, IndexedKeeps DEF StoreInv
<1>4. CASE adapter = "file"
  <2>1. CASE ~ overlapped'
    <3>1. ~ overlapped
      BY <1>1, <2>1, OverlapStays
    <3>2. FilesInv
      BY <1>4, <3>1 DEF StoreInv
    <3>3. FilesInv'
      BY <1>1, <1>2, <1>4, <2>1, <3>2, FilesKeep
    <3>. QED  BY <1>2, <1>4, <3>3 DEF StoreInv
  <2>2. CASE overlapped'
    BY <1>2, <1>4, <2>2 DEF StoreInv
  <2>. QED  BY <2>1, <2>2
<1>5. CASE adapter = "local"
  <2>1. \A id \in Ids : Safe(id)
    BY <1>5 DEF StoreInv
  <2>2. \A id \in Ids : Safe(id)'
    BY <1>1, <1>5, <2>1, LocalIsSafe
  <2>. QED  BY <1>2, <1>5, <2>2 DEF StoreInv
<1>. QED  BY <1>1, <1>3, <1>4, <1>5 DEF Basics, Typed, Counters

LEMMA StoreInvHolds == Spec => []StoreInv
<1>1. StoreInv /\ [Next]_vars => StoreInv'
  BY StoreInvKeeps
<1>. QED  BY InitStoreInv, <1>1, PTL DEF Spec

\* types.ts save, "true if save successful": a graph whose save was answered true,
\* and in IndexedDB also committed, is whole in the storage or in a backup ever
\* after, whatever fails or restarts, with any of the three adapters and with or
\* without backups; unless its file was saved while it was being saved, and until
\* the code itself puts it at risk, as acked tells.
THEOREM SavedGraphsAreKept == Spec => []AckedIsKept
<1>1. StoreInv => AckedIsKept
  <2>. SUFFICES ASSUME StoreInv, ~ overlapped
                PROVE  \A id \in Ids : Safe(id)
    BY AckedIsKeptBySafe
  <2>1. Basics /\ adapter \in {"file", "local", "indexed"}
    BY DEF StoreInv, Basics, Typed, Counters
  <2>2. CASE adapter = "indexed"
    BY <2>1, <2>2, IndexedIsSafe DEF StoreInv, IndexedInv
  <2>3. CASE adapter # "indexed"
    BY <2>1, <2>3 DEF StoreInv, FilesInv
  <2>. QED  BY <2>2, <2>3
<1>. QED  BY StoreInvHolds, <1>1, PTL

\* types.ts load, engine.ts loadGraph: what IndexedDB gives a load is no older
\* than what had been answered when it was asked for, committed or not, unless
\* that transaction was aborted; the engine works on graphs of its own version
\* only.
THEOREM LoadsAreFreshAndGood == Spec => []LoadsAreGood
<1>1. StoreInv => LoadsAreGood
  <2>. SUFFICES ASSUME StoreInv
                PROVE  LoadsAreGood
    OBVIOUS
  <2>1. Counters /\ GraphTyped /\ StoreTyped /\ AckedTyped /\ BackupsTyped /\ OpsTyped
    BY DEF StoreInv, Basics, Typed
  <2>2. TypeOK
    <3>1. \A k \in DOMAIN store : store[k].graph \in Graph /\ store[k].stamp <= clock
      BY <2>1 DEF StoreTyped, KeptGraph
    <3>2. ASSUME NEW b \in DOMAIN backups
          PROVE  backups[b].graph \in Graph
      <4>1. backups[b] \in KeptGraph
        BY <2>1, LenProperties, ElementOfSeq DEF BackupsTyped
      <4>. QED  BY <4>1 DEF KeptGraph
    <3>3. \A i \in DOMAIN inFlight : inFlight[i].kind \in {"save", "load", "delete"} /\ inFlight[i].graph \in Graph
      BY <2>1, OpsAreNumbered DEF Op
    <3>. QED  BY <2>1, <3>1, <3>2, <3>3 DEF TypeOK, GraphTyped, OpsTyped, AckedTyped
  <2>3. LoadIsFresh
    BY DEF StoreInv, IndexedInv, LoadIsFresh
  <2>4. GraphIsOfThisVersion
    BY <2>1 DEF GraphTyped, GraphIsOfThisVersion
  <2>. QED  BY <2>2, <2>3, <2>4 DEF LoadsAreGood
<1>. QED  BY StoreInvHolds, <1>1, PTL

=============================================================================
