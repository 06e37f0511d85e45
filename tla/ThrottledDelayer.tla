-------------------------- MODULE ThrottledDelayer --------------------------
(***************************************************************************)
(* The ThrottledDelayer of src/vs/base/common/async.ts: a Delayer, which   *)
(* runs a task some time after the last call, in front of a Throttler,     *)
(* which runs one task at a time and one more for all the calls that came  *)
(* meanwhile.                                                              *)
(*                                                                         *)
(* The callers of trigger() are numbered and their promises are part of    *)
(* the model.  A step is what one timer, one settled promise or one caller *)
(* sets off: the reactions that follow in the same turn belong to it.      *)
(***************************************************************************)
EXTENDS Naturals, FiniteSets

CONSTANT MaxCalls   \* bound: calls of trigger()

ASSUME DelayerAssumption == MaxCalls \in Nat

VARIABLES
    calls,      \* how many calls there have been
    armed,      \* the Delayer's timer is set
    waiting,    \* the calls that share its completionPromise
    active,     \* the calls answered by the run under way, {} without one
    second,     \* that run was begun for queuedPromise
    queued,     \* the calls that wait for queuedPromise
    disposed,
    outcome,    \* what became of the promise of each call
    runs,       \* history: how many runs were begun
    madeAt,     \* history: and how many there had been when a call was made
    answeredBy  \* history: the run that answered it

delayer == <<calls, armed, waiting, active, second, queued, disposed>>
history == <<outcome, runs, madeAt, answeredBy>>
delayerVars == <<delayer, history>>

Calls == 1 .. MaxCalls

\* What became of a call; nothing will settle one that is abandoned.
Outcome == {"unsettled", "done", "failed", "cancelled", "abandoned"}

DelayerInit ==
    /\ calls = 0 /\ runs = 0
    /\ armed = FALSE /\ second = FALSE /\ disposed = FALSE
    /\ waiting = {} /\ active = {} /\ queued = {}
    /\ outcome = [c \in Calls |-> "unsettled"]
    /\ madeAt = [c \in Calls |-> 0]
    /\ answeredBy = [c \in Calls |-> 0]

\* The promises of these calls are settled.
Settle(cs, how) == outcome' = [c \in Calls |-> IF c \in cs THEN how ELSE outcome[c]]

\* trigger: the timer is set anew; the calls since it last fired share one
\* promise.
Trigger ==
    /\ calls < MaxCalls
    /\ calls' = calls + 1
    /\ armed' = TRUE
    /\ waiting' = waiting \cup {calls'}
    /\ madeAt' = [madeAt EXCEPT ![calls'] = runs]
    /\ UNCHANGED <<active, second, queued, disposed, outcome, runs, answeredBy>>

\* The timer fires and queue() of the Throttler begins a run, or leaves the
\* calls for the run after the one under way.
Fire ==
    /\ armed
    /\ armed' = FALSE
    /\ waiting' = {}
    /\ IF disposed
       THEN /\ Settle(waiting, "failed")
            /\ UNCHANGED <<active, second, queued, runs>>
       ELSE /\ IF active = {}
               THEN active' = waiting /\ second' = FALSE /\ runs' = runs + 1 /\ UNCHANGED queued
               ELSE queued' = queued \cup waiting /\ UNCHANGED <<active, second, runs>>
            /\ UNCHANGED outcome
    /\ UNCHANGED <<calls, disposed, madeAt, answeredBy>>

\* What becomes of the calls of a run: a queued run that fails abandons them,
\* because queuedPromise only forwards a result.
OutcomeOfRun(how) == IF how = "failed" /\ second THEN "abandoned" ELSE how

\* Fault: a run also answers the calls queued behind it.
FinishAnsweringQueue(how) ==
    /\ active # {}
    /\ answeredBy' = [c \in Calls |-> IF c \in active \cup queued THEN runs ELSE answeredBy[c]]
    /\ Settle(active \cup queued, how)
    /\ active' = queued
    /\ second' = (queued # {})
    /\ runs' = IF queued = {} THEN runs ELSE runs + 1
    /\ queued' = {}
    /\ UNCHANGED <<calls, armed, waiting, disposed, madeAt>>

\* A run ends and its calls are answered.  The queued calls are served next;
\* once the Throttler is disposed they are answered without a run.
Finish(how) ==
    /\ active # {}
    /\ answeredBy' = [c \in Calls |-> IF c \in active THEN runs ELSE answeredBy[c]]
    /\ outcome' = [c \in Calls |-> IF c \in active THEN OutcomeOfRun(how)
                                   ELSE IF c \in queued /\ disposed THEN "done"
                                   ELSE outcome[c]]
    /\ IF queued = {} \/ disposed
       THEN active' = {} /\ second' = FALSE /\ UNCHANGED runs
       ELSE active' = queued /\ second' = TRUE /\ runs' = runs + 1
    /\ queued' = {}
    /\ UNCHANGED <<calls, armed, waiting, disposed, madeAt>>

\* cancel: the timer is cleared, the calls that wait for it are rejected.
Cancel ==
    /\ armed' = FALSE /\ waiting' = {}
    /\ Settle(waiting, "cancelled")
    /\ UNCHANGED <<calls, active, second, queued, runs, madeAt, answeredBy>>

CancelCalls == waiting # {} /\ Cancel /\ UNCHANGED disposed
Dispose == ~ disposed /\ Cancel /\ disposed' = TRUE

DelayerNext == Trigger \/ Fire \/ Finish("done") \/ Finish("failed") \/ CancelCalls \/ Dispose

DelayerSpec == DelayerInit /\ [][DelayerNext]_delayerVars

----------------------------------------------------------------------------
(* Properties.                                                             *)

\* The calls that nothing will settle any more.
Abandoned == {c \in Calls : outcome[c] = "abandoned"}

\* Calls wait in one place at a time, with something that will wake them.
DelayerTypeOK ==
    /\ calls \in 0 .. MaxCalls /\ runs \in Nat
    /\ outcome \in [Calls -> Outcome]
    /\ waiting \subseteq 1 .. calls /\ active \subseteq 1 .. calls /\ queued \subseteq 1 .. calls
    /\ armed \in BOOLEAN /\ second \in BOOLEAN /\ disposed \in BOOLEAN
    /\ armed <=> waiting # {}
    /\ active = {} => queued = {} /\ ~ second
    /\ waiting \cap active = {} /\ waiting \cap queued = {} /\ active \cap queued = {}

\* async.ts Throttler, the mail man: a call that is answered is answered by
\* a run that began after it was made, so that what it left to deliver went
\* along.
AnswerIsFresh ==
    \A c \in Calls : answeredBy[c] > 0 => answeredBy[c] > madeAt[c]

\* Every call is answered, unless a queued run that was to answer it failed.
EveryCallIsAnswered ==
    \A c \in Calls : c \in waiting \cup active \cup queued ~> outcome[c] # "unsettled"
=============================================================================
