---------------------------- MODULE AlarmPromise ----------------------------
(***************************************************************************)
(* What an Alarm promises: a task that is set runs once, not before its    *)
(* time and in the end, unless it is replaced or canceled before.          *)
(***************************************************************************)
EXTENDS Integers

CONSTANTS ClientTasks, NoTask

VARIABLES task, time, now,
          last_run, runs     \* the task run last, and how many have run

Init == task = NoTask /\ time = 0 /\ now = 0 /\ last_run = NoTask /\ runs = 0

Set == /\ task' \in ClientTasks
       /\ time' \in Int /\ time' >= now
       /\ UNCHANGED <<now, last_run, runs>>

Clear == task' = NoTask /\ UNCHANGED <<time, now, last_run, runs>>

\* The task may set the alarm again.
Run == /\ task # NoTask
       /\ now >= time
       /\ last_run' = task
       /\ runs' = runs + 1
       /\ \/ task' = NoTask /\ time' = time
          \/ task' \in ClientTasks /\ time' \in Int /\ time' >= now
       /\ UNCHANGED now

Tick == now' = now + 1 /\ UNCHANGED <<task, time, last_run, runs>>

vars == <<task, time, now, last_run, runs>>

Safe == Init /\ [][Set \/ Clear \/ Run \/ Tick]_vars

Spec == Safe /\ WF_vars(Run)
=============================================================================
