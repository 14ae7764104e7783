----------------------------- MODULE AlarmAlone -----------------------------
(***************************************************************************)
(* An Alarm with a client that schedules and cancels at will, also from    *)
(* the tasks that the alarm runs.                                          *)
(***************************************************************************)
EXTENDS Alarm

VARIABLES last_run, runs     \* history: the task run last, and how many have run

alone_vars == <<alarm_vars, now, last_run, runs>>

AloneInit == AlarmInit /\ last_run = NoTask /\ runs = 0

Schedule(task, desired) ==
    ScheduleWithTask(queued_fire, task, desired) /\ UNCHANGED <<now, last_run, runs>>

Cancel == CancelAlarm /\ UNCHANGED <<now, last_run, runs>>

FireWithoutTask == (FireForNothing \/ FireEarly) /\ UNCHANGED <<now, last_run, runs>>

RunTask ==
    /\ Invokes
    /\ last_run' = scheduled_task
    /\ runs' = runs + 1
    /\ UNCHANGED now
FireAndFinish == RunTask /\ Invoked
FireAndReschedule(task, desired) ==
    RunTask /\ ScheduleWithTask(FALSE, task, desired)

AloneTick == now' = now + 1 /\ UNCHANGED <<alarm_vars, last_run, runs>>

AloneNext ==
    \/ \E task \in ClientTasks, desired \in Int : Schedule(task, desired)
    \/ Cancel
    \/ FireWithoutTask
    \/ FireAndFinish
    \/ \E task \in ClientTasks, desired \in Int : FireAndReschedule(task, desired)
    \/ AloneTick

AloneSpec == AloneInit /\ [][AloneNext]_alone_vars

AloneTypeOK ==
    /\ scheduled_task \in ClientTasks \cup {NoTask}
    /\ alarm_time \in Int
    /\ queued_fire \in BOOLEAN
    /\ next_fire_time \in Int
    /\ now \in Int
    /\ last_run \in ClientTasks \cup {NoTask}
    /\ runs \in Nat

\* The Alarm keeps the promise of AlarmPromise.
Promise == INSTANCE AlarmPromise WITH task <- scheduled_task, time <- alarm_time
KeepsPromise == Promise!Spec
KeepsSafePromise == Promise!Safe
=============================================================================
