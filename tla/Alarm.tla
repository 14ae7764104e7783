------------------------------- MODULE Alarm --------------------------------
(***************************************************************************)
(* Alarm: runs a task at a given time, unless it is rescheduled or         *)
(* canceled before.  There is at most one functor of it in the TaskRunner, *)
(* which fires at next_fire_time_ or some time later; a functor that was   *)
(* canceled does nothing when it is run, and is left out.                  *)
(***************************************************************************)
EXTENDS Integers

CONSTANTS ClientTasks,   \* what clients have run
          NoTask,        \* an empty TaskRunner::Task
          kImmediately   \* Clock::time_point::min()

ASSUME AlarmAssumption ==
    NoTask \notin ClientTasks /\ kImmediately \in Int /\ kImmediately < 0

VARIABLES
    scheduled_task,
    alarm_time,
    queued_fire,       \* whether a functor is in the TaskRunner's queue
    next_fire_time,
    now

alarm_vars == <<scheduled_task, alarm_time, queued_fire, next_fire_time>>

AlarmInit ==
    /\ scheduled_task = NoTask
    /\ alarm_time = 0
    /\ queued_fire = FALSE
    /\ next_fire_time = 0
    /\ now = 0

Later(a, b) == IF a > b THEN a ELSE b

\* The functor in the queue fires early enough.
FiresInTime(time) == next_fire_time <= time

\* ScheduleWithTask(), called while a functor is or is not in the queue.
ScheduleWithTask(queued, task, desired_alarm_time) ==
    LET time == Later(now, desired_alarm_time)
    IN  /\ scheduled_task' = task
        /\ alarm_time' = time
        /\ queued_fire' = TRUE
        /\ next_fire_time' = IF queued /\ FiresInTime(time)
                             THEN next_fire_time ELSE time

\* Cancel(): the functor stays in the queue.
CancelAlarm ==
    /\ scheduled_task' = NoTask
    /\ UNCHANGED <<alarm_time, queued_fire, next_fire_time>>

Fires == queued_fire /\ now >= next_fire_time

\* TryInvoke() of an alarm that was canceled in the meantime.
FireForNothing ==
    /\ Fires
    /\ scheduled_task = NoTask
    /\ queued_fire' = FALSE
    /\ UNCHANGED <<scheduled_task, alarm_time, next_fire_time>>

\* Mutant: an early firing is not noticed.
IsEarlyMutant == FALSE
IsEarly == now < alarm_time

\* TryInvoke() of one that was rescheduled for later.
FireEarly ==
    /\ Fires
    /\ scheduled_task # NoTask
    /\ IsEarly
    /\ next_fire_time' = alarm_time
    /\ UNCHANGED <<scheduled_task, alarm_time, queued_fire>>

\* TryInvoke() that runs the task, after which neither the task nor the functor
\* is there.  The task may call Schedule(), which is up to the client.
Invokes == Fires /\ scheduled_task # NoTask /\ ~IsEarly
Invoked ==
    /\ scheduled_task' = NoTask
    /\ queued_fire' = FALSE
    /\ UNCHANGED <<alarm_time, next_fire_time>>

\* "Ensure that a later firing will occur, and not too late": an alarm that is
\* set has a functor in the queue that fires at the alarm's time or before.
FiringQueued ==
    scheduled_task # NoTask => queued_fire /\ next_fire_time <= alarm_time
=============================================================================
