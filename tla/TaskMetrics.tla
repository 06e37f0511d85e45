---------------------------- MODULE TaskMetrics ----------------------------
(***************************************************************************)
(* The average task duration that updateTaskMetrics of                     *)
(* agents/BaseAgentImpl.ts keeps for an agent, updated from the previous   *)
(* average every time a task ends.  Fractions are exact: floating-point    *)
(* rounding is abstracted.  (The success rate, computed in the same        *)
(* method, is a function of the two counters.)                             *)
(***************************************************************************)
EXTENDS Integers

CONSTANTS
    MaxTasks,       \* bound on the tasks that end
    MaxDuration     \* bound on the duration of one task

ASSUME MetricsAssumption == MaxTasks \in Nat /\ MaxDuration \in Nat

VARIABLES
    totalTasksCompleted,
    totalTasksFailed,
    average,    \* averageTaskDuration, as <<numerator, denominator>>
    total       \* history: the durations of the completed tasks, added up

metricsVars == <<totalTasksCompleted, totalTasksFailed, average, total>>

MetricsTypeOK ==
    /\ totalTasksCompleted \in Nat
    /\ totalTasksFailed \in Nat
    /\ average \in Nat \X (Nat \ {0})
    /\ total \in Nat

MetricsInit ==
    /\ totalTasksCompleted = 0
    /\ totalTasksFailed = 0
    /\ average = <<0, 1>>
    /\ total = 0

\* The new average, given the number of completed tasks the division uses.
UpdateAverage(completed, duration) ==
    IF completed > 0
    THEN <<average[1] * (completed - 1) + duration * average[2], average[2] * completed>>
    ELSE <<duration, 1>>

\* updateTaskMetrics as onTaskCompleted calls it.
TaskCompleted(duration) ==
    /\ totalTasksCompleted' = totalTasksCompleted + 1
    /\ average' = UpdateAverage(totalTasksCompleted', duration)
    /\ total' = total + duration
    /\ UNCHANGED totalTasksFailed

\* Fault: onTaskFailed passes the duration of the failed task on.
TaskFailedWithDuration ==
    /\ totalTasksFailed' = totalTasksFailed + 1
    /\ average' = UpdateAverage(totalTasksCompleted, MaxDuration)
    /\ UNCHANGED <<totalTasksCompleted, total>>

\* updateTaskMetrics as onTaskFailed calls it: with duration 0, and with a
\* number of completed tasks that does not grow.
TaskFailed ==
    /\ totalTasksFailed' = totalTasksFailed + 1
    /\ average' = UpdateAverage(totalTasksCompleted, 0)
    /\ UNCHANGED <<totalTasksCompleted, total>>

MetricsNext ==
    /\ totalTasksCompleted + totalTasksFailed < MaxTasks
    /\ \/ \E d \in 0..MaxDuration: TaskCompleted(d)
       \/ TaskFailed

MetricsSpec == MetricsInit /\ [][MetricsNext]_metricsVars

---------------------------------------------------------------------------

\* As long as no task fails, the incremental average is the mean duration of
\* the completed tasks.
MeanWhileNothingFails ==
    totalTasksFailed = 0 /\ totalTasksCompleted > 0 =>
        average[1] * totalTasksCompleted = total * average[2]

\* Failures only ever pull the average down: it never exceeds the mean duration
\* of the completed tasks (and is 0 when there is none).
AverageNeverOverstates == average[1] * totalTasksCompleted <= total * average[2]

\* BaseAgentImpl.ts updateTaskMetrics: the average is well formed, right while
\* nothing fails, and never too high.
AverageIsSound == MetricsTypeOK /\ MeanWhileNothingFails /\ AverageNeverOverstates
=============================================================================
