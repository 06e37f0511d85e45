---------------------------- MODULE SharedStorage ---------------------------
(***************************************************************************)
(* The application storage of the editor is shared: every window keeps a   *)
(* cache of its items in a Storage whose database is a client of the main  *)
(* process (platform/storage/common/storageIpc.ts), and the main process   *)
(* serves them from its own Storage and tells all windows, some time       *)
(* later, what changed (platform/storage/electron-main/storageIpc.ts).     *)
(*                                                                         *)
(* Within a window the throttled flush of module Storage is reduced to     *)
(* this: one update is out at a time, and takes all that is pending.       *)
(* Messages of a window and to it arrive in order.                         *)
(***************************************************************************)
EXTENDS Naturals, Sequences, FiniteSets

CONSTANTS
    Windows,    \* the windows of the editor
    Keys,       \* keys of the items
    Values,     \* their values
    None,       \* the value of a key without an item
    Same,       \* in an update: this key is not part of it
    MaxChanges  \* bound: calls of set() and delete() that change a cache

ASSUME SharedAssumption == None \notin Values /\ Same \notin Values \cup {None} /\ MaxChanges \in Nat

VARIABLES
    main,       \* the items of the main process
    noted,      \* the keys whose change is not told yet
    listening,  \* the windows that listen for changes
    cache,      \* the items as each window sees them
    pending,    \* what it has not sent yet
    state,      \* how far it is
    updating,   \* an update of it is unanswered
    toMain,     \* its messages under way
    toWindow,   \* and those for it
    changes,    \* how many changes there were
    wrote       \* history: the values the windows last gave to a key

mainVars == <<main, noted, listening>>
sharedVars == <<main, noted, listening, cache, pending, state, updating, toMain, toWindow, changes, wrote>>

Items == [Keys -> Values \cup {None}]
Updates == [Keys -> Values \cup {None, Same}]
NoItems == [k \in Keys |-> None]
Nothing == [k \in Keys |-> Same]

Updated(items, update) == [k \in Keys |-> IF update[k] = Same THEN items[k] ELSE update[k]]

SharedInit ==
    /\ main \in Items
    /\ noted = {} /\ listening = {} /\ changes = 0
    /\ cache = [w \in Windows |-> NoItems]
    /\ pending = [w \in Windows |-> Nothing]
    /\ state = [w \in Windows |-> "new"]
    /\ updating = [w \in Windows |-> FALSE]
    /\ toMain = [w \in Windows |-> <<>>]
    /\ toWindow = [w \in Windows |-> <<>>]
    /\ wrote = [w \in Windows |-> Nothing]

Send(w, message) == toMain' = [toMain EXCEPT ![w] = Append(@, message)]

\* The window listens for changes and reads the items; its callers wait for
\* them.
Open(w) ==
    /\ state[w] = "new"
    /\ state' = [state EXCEPT ![w] = "opening"]
    /\ toMain' = [toMain EXCEPT ![w] = @ \o <<[do |-> "listen"], [do |-> "getItems"]>>]
    /\ UNCHANGED <<mainVars, cache, pending, updating, toWindow, changes, wrote>>

\* set and delete of a window's Storage: a value its cache does not hold.
Set(w, k, v) ==
    /\ state[w] = "open" /\ changes < MaxChanges
    /\ cache[w][k] # v
    /\ cache' = [cache EXCEPT ![w][k] = v]
    /\ pending' = [pending EXCEPT ![w][k] = v]
    /\ wrote' = [wrote EXCEPT ![w][k] = v]
    /\ changes' = changes + 1
    /\ UNCHANGED <<mainVars, state, updating, toMain, toWindow>>

\* The window sends what is pending.
Flush(w) ==
    /\ state[w] \in {"open", "closing"} /\ pending[w] # Nothing /\ ~ updating[w]
    /\ Send(w, [do |-> "updateItems", items |-> pending[w]])
    /\ pending' = [pending EXCEPT ![w] = Nothing]
    /\ updating' = [updating EXCEPT ![w] = TRUE]
    /\ UNCHANGED <<mainVars, cache, state, toWindow, changes, wrote>>

\* close of its Storage: no more changes, from outside neither.
Close(w) ==
    /\ state[w] = "open"
    /\ state' = [state EXCEPT ![w] = "closing"]
    /\ UNCHANGED <<mainVars, cache, pending, updating, toMain, toWindow, changes, wrote>>

\* Once all is flushed the client of the database is disposed.
Go(w) ==
    /\ state[w] = "closing" /\ pending[w] = Nothing /\ ~ updating[w]
    /\ state' = [state EXCEPT ![w] = "closed"]
    /\ Send(w, [do |-> "unlisten"])
    /\ UNCHANGED <<mainVars, cache, pending, updating, toWindow, changes, wrote>>

\* The next message of the window, at the main process.
Asks(w, what) == toMain[w] # <<>> /\ Head(toMain[w]).do = what
Take(w) == toMain' = [toMain EXCEPT ![w] = Tail(@)]
Tell(w, message) == toWindow' = [toWindow EXCEPT ![w] = Append(@, message)]

Listen(w) ==
    /\ Asks(w, "listen") /\ Take(w)
    /\ listening' = listening \cup {w}
    /\ UNCHANGED <<main, noted, cache, pending, state, updating, toWindow, changes, wrote>>

Unlisten(w) ==
    /\ Asks(w, "unlisten") /\ Take(w)
    /\ listening' = listening \ {w}
    /\ UNCHANGED <<main, noted, cache, pending, state, updating, toWindow, changes, wrote>>

GetItems(w) ==
    /\ Asks(w, "getItems") /\ Take(w)
    /\ Tell(w, [is |-> "items", items |-> main])
    /\ UNCHANGED <<mainVars, cache, pending, state, updating, changes, wrote>>

\* The keys an update changes: set and delete of the main process' Storage
\* fire no event for a value they hold.
Changed(update) == {k \in Keys : update[k] \notin {Same, main[k]}}

\* updateItems: the items are set, not waiting for the database.
UpdateItems(w) ==
    /\ Asks(w, "updateItems") /\ Take(w)
    /\ LET update == Head(toMain[w]).items
       IN  main' = Updated(main, update) /\ noted' = noted \cup Changed(update)
    /\ Tell(w, [is |-> "done"])
    /\ UNCHANGED <<listening, cache, pending, state, updating, changes, wrote>>

\* Fault: a window that gave a key its value last is not told.
TellOthers ==
    /\ noted # {}
    /\ noted' = {}
    /\ LET event == [k \in Keys |-> IF k \in noted THEN main[k] ELSE Same]
           others == {w \in listening : \E k \in noted : wrote[w][k] # main[k]}
       IN  toWindow' = [w \in Windows |-> IF w \in others
                                          THEN Append(toWindow[w], [is |-> "changed", items |-> event])
                                          ELSE toWindow[w]]
    /\ UNCHANGED <<main, listening, cache, pending, state, updating, toMain, changes, wrote>>

\* Fault: changes are told only while every window listens.
TellAll ==
    /\ noted # {} /\ listening = Windows
    /\ noted' = {}
    /\ LET event == [k \in Keys |-> IF k \in noted THEN main[k] ELSE Same]
       IN  toWindow' = [w \in Windows |-> Append(toWindow[w], [is |-> "changed", items |-> event])]
    /\ UNCHANGED <<main, listening, cache, pending, state, updating, toMain, changes, wrote>>

\* The debounced event fires and tells the items as they are now, also to the
\* window that changed them.
TellChanges ==
    /\ noted # {}
    /\ noted' = {}
    /\ LET event == [k \in Keys |-> IF k \in noted THEN main[k] ELSE Same]
       IN  toWindow' = [w \in Windows |-> IF w \in listening
                                          THEN Append(toWindow[w], [is |-> "changed", items |-> event])
                                          ELSE toWindow[w]]
    /\ UNCHANGED <<main, listening, cache, pending, state, updating, toMain, changes, wrote>>

\* The next message for the window.
Hears(w, what) ==
    /\ toWindow[w] # <<>> /\ Head(toWindow[w]).is = what
    /\ toWindow' = [toWindow EXCEPT ![w] = Tail(@)]

ReceiveItems(w) ==
    /\ Hears(w, "items")
    /\ cache' = [cache EXCEPT ![w] = Head(toWindow[w]).items]
    /\ state' = [state EXCEPT ![w] = "open"]
    /\ UNCHANGED <<mainVars, pending, updating, toMain, changes, wrote>>

ReceiveDone(w) ==
    /\ Hears(w, "done")
    /\ updating' = [updating EXCEPT ![w] = FALSE]
    /\ UNCHANGED <<mainVars, cache, pending, state, toMain, changes, wrote>>

\* acceptExternal, for every key of the event; a closed Storage does not.
ReceiveChange(w) ==
    /\ Hears(w, "changed")
    /\ cache' = IF state[w] \in {"closing", "closed"} THEN cache
                ELSE [cache EXCEPT ![w] = Updated(@, Head(toWindow[w]).items)]
    /\ UNCHANGED <<mainVars, pending, state, updating, toMain, changes, wrote>>

MainActs(w) == Listen(w) \/ Unlisten(w) \/ GetItems(w) \/ UpdateItems(w)
WindowHears(w) == ReceiveItems(w) \/ ReceiveDone(w) \/ ReceiveChange(w)

SharedNext ==
    \/ \E w \in Windows, k \in Keys, v \in Values \cup {None} : Set(w, k, v)
    \/ \E w \in Windows : Open(w) \/ Flush(w) \/ Close(w) \/ Go(w) \/ MainActs(w) \/ WindowHears(w)
    \/ TellChanges

SharedSpec == SharedInit /\ [][SharedNext]_sharedVars

\* Timers fire and messages arrive.
SharedFairSpec ==
    /\ SharedSpec
    /\ \A w \in Windows : /\ WF_sharedVars(Flush(w))
                          /\ WF_sharedVars(MainActs(w))
                          /\ WF_sharedVars(WindowHears(w))
    /\ WF_sharedVars(TellChanges)

----------------------------------------------------------------------------
(* Properties.                                                             *)

\* An unanswered update is one message, on its way here or there.
Unanswered(w) ==
    {<<"main", i>> : i \in {j \in 1 .. Len(toMain[w]) : toMain[w][j].do = "updateItems"}} \cup
    {<<"window", i>> : i \in {j \in 1 .. Len(toWindow[w]) : toWindow[w][j].is = "done"}}

SharedTypeOK ==
    /\ main \in Items /\ noted \subseteq Keys /\ listening \subseteq Windows
    /\ cache \in [Windows -> Items]
    /\ pending \in [Windows -> Updates] /\ wrote \in [Windows -> Updates]
    /\ state \in [Windows -> {"new", "opening", "open", "closing", "closed"}]
    /\ changes \in 0 .. MaxChanges
    /\ \A w \in Windows :
           IF updating[w] THEN \E m \in Unanswered(w) : Unanswered(w) = {m} ELSE Unanswered(w) = {}

\* Nothing is left to send, to tell or to receive.
Quiet ==
    /\ noted = {}
    /\ \A w \in Windows : pending[w] = Nothing /\ toMain[w] = <<>> /\ toWindow[w] = <<>>

Agreed == \A w \in Windows : state[w] = "open" => cache[w] = main

\* storageIpc.ts: once all is said, every open window reads what the main
\* process holds, whoever wrote while old events were under way.
QuietMeansAgreed == Quiet => Agreed

\* storageService.ts close: what a window wrote reaches the main process,
\* also when the window closes at once: a key that was written ends with the
\* last value of one of its writers.
WritesArrive ==
    Quiet => \A k \in Keys :
        LET last == {wrote[w][k] : w \in Windows} \ {Same}
        IN  last # {} => main[k] \in last

\* The windows come to agree once their callers stop writing.
EventuallyAgreed == <>[]Agreed

\* storageIpc.ts: once all is said the windows agree with the main process, and
\* on a value that was written last by one of them.
WindowsAgree == SharedTypeOK /\ QuietMeansAgreed /\ WritesArrive
=============================================================================
