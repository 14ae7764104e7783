----------------------------- MODULE TaskRunner -----------------------------
(***************************************************************************)
(* TaskRunnerImpl: any thread posts tasks, one thread runs them in         *)
(* RunUntilStopped().  The loop sleeps on a condition variable, as no      *)
(* TaskWaiter exists in this repository.  Code between lock and unlock of  *)
(* task_mutex_ is one step.                                                *)
(***************************************************************************)
EXTENDS Integers, Sequences, Functions

CONSTANTS Tasks,      \* tasks that other threads post
          Quit,       \* the task that RequestStopSoon() posts
          Children,   \* tasks that are posted by a task while it runs
          MaxTime,    \* bound on the clock and on due times
          Delays      \* delays of delayed tasks

ASSUME TaskRunnerAssumption ==
    /\ Quit \notin Tasks \cup Children
    /\ Tasks \cap Children = {}
    /\ MaxTime \in Nat
    /\ Delays \subseteq Nat \ {0}

VARIABLES
    tasks,           \* tasks_: ready to run
    delayed_tasks,   \* multimap, as a sequence in the order of due times
    running_tasks,   \* the batch being run
    is_running,
    g_signal_state,  \* whether a termination signal was received
    loop,            \* where RunUntilStopped() is
    wake_time,       \* until when the loop sleeps
    notified,        \* run_loop_wakeup_ was notified during the sleep
    now,
    ran,             \* history: tasks run so far, in order
    posted           \* history: tasks posted without a delay, in order

runner_vars == <<tasks, delayed_tasks, running_tasks, is_running, g_signal_state,
                 loop, wake_time, notified, now, ran, posted>>

kNever == MaxTime + 1

RunnerInit ==
    /\ tasks = <<>> /\ delayed_tasks = <<>> /\ running_tasks = <<>>
    /\ is_running = FALSE
    /\ g_signal_state = FALSE
    /\ loop = "initial"
    /\ wake_time = kNever
    /\ notified = FALSE
    /\ now = 0
    /\ ran = <<>> /\ posted = <<>>

AllTasks == Tasks \cup Children \cup {Quit}

\* Tasks that were posted, with or without a delay.
Known == Range(posted) \cup {d.task : d \in Range(delayed_tasks)} \cup Range(tasks)
           \cup Range(running_tasks) \cup Range(ran)

-----------------------------------------------------------------------------
(* Posting, by any thread *)

\* Mutant: the sleeping loop is not notified.
NotifyMutant == UNCHANGED notified
Notify == notified' = (loop = "sleeping")

\* PostPackagedTask(), also with a delay of zero.
PostTask(t) ==
    /\ t \notin Known
    /\ tasks' = Append(tasks, t)
    /\ posted' = Append(posted, t)
    /\ Notify
    /\ UNCHANGED <<delayed_tasks, running_tasks, is_running, g_signal_state, loop,
                   wake_time, now, ran>>

RequestStopSoon == PostTask(Quit)

\* upper_bound() of the multimap: the first n of its tasks are due by a time.
UpperBound(n, time) ==
    /\ n \in 0 .. Len(delayed_tasks)
    /\ \A i \in 1 .. n : delayed_tasks[i].due <= time
    /\ \A i \in n + 1 .. Len(delayed_tasks) : delayed_tasks[i].due > time

\* emplace(), at the upper bound.
Insert(n, e) ==
    SubSeq(delayed_tasks, 1, n) \o <<e>> \o SubSeq(delayed_tasks, n + 1, Len(delayed_tasks))

PostTaskWithDelay(t, delay) ==
    /\ t \notin Known
    /\ now + delay <= MaxTime
    /\ \E n \in 0 .. Len(delayed_tasks) :
          /\ UpperBound(n, now + delay)
          /\ delayed_tasks' = Insert(n, [due |-> now + delay, task |-> t])
    /\ Notify
    /\ UNCHANGED <<tasks, running_tasks, is_running, g_signal_state, loop,
                   wake_time, now, ran, posted>>

\* OnReceivedSignal(), while RunUntilSignaled() has it installed.
Signal ==
    /\ loop \notin {"initial", "stopped"}
    /\ ~g_signal_state
    /\ g_signal_state' = TRUE
    /\ UNCHANGED <<tasks, delayed_tasks, running_tasks, is_running, loop,
                   wake_time, notified, now, ran, posted>>

-----------------------------------------------------------------------------
(* RunUntilStopped() *)

Start ==
    /\ loop = "initial"
    /\ is_running' = TRUE
    /\ loop' = "schedule"
    /\ UNCHANGED <<tasks, delayed_tasks, running_tasks, g_signal_state, wake_time,
                   notified, now, ran, posted>>

ScheduleDelayedTasks ==
    /\ loop = "schedule"
    /\ \E n \in 0 .. Len(delayed_tasks) :
          /\ UpperBound(n, now)
          /\ tasks' = tasks \o [i \in 1 .. n |-> delayed_tasks[i].task]
          /\ delayed_tasks' = SubSeq(delayed_tasks, n + 1, Len(delayed_tasks))
    /\ loop' = "grab"
    /\ UNCHANGED <<running_tasks, is_running, g_signal_state, wake_time, notified,
                   now, ran, posted>>

\* Mutant: the two vectors are not swapped.
TasksLeftMutant == tasks
\* running_tasks_, which is empty, is swapped with tasks_.
TasksLeft == running_tasks

\* GrabMoreRunnableTasks() that finds tasks, in the main loop or when flushing.
GrabTasks ==
    /\ loop \in {"grab", "flush"}
    /\ tasks # <<>>
    /\ running_tasks' = tasks
    /\ tasks' = TasksLeft
    /\ loop' = IF loop = "grab" THEN "run" ELSE "flush_run"
    /\ UNCHANGED <<delayed_tasks, is_running, g_signal_state, wake_time, notified,
                   now, ran, posted>>

\* Mutant: delayed tasks are overlooked.
WakeTimeMutant == kNever
WakeTime == IF delayed_tasks = <<>> THEN kNever ELSE delayed_tasks[1].due

\* GrabMoreRunnableTasks() that goes to sleep, until it is notified or until the
\* first delayed task is due.
Sleep ==
    /\ loop = "grab"
    /\ tasks = <<>>
    /\ loop' = "sleeping"
    /\ notified' = FALSE
    /\ wake_time' = WakeTime
    /\ UNCHANGED <<tasks, delayed_tasks, running_tasks, is_running,
                   g_signal_state, now, ran, posted>>

\* Condition variables may also wake up for no reason.
WakeUp ==
    /\ loop = "sleeping"
    /\ loop' = "check"
    /\ notified' = FALSE
    /\ wake_time' = kNever
    /\ UNCHANGED <<tasks, delayed_tasks, running_tasks, is_running,
                   g_signal_state, now, ran, posted>>
HasReasonToWake == notified \/ now >= wake_time

\* RunRunnableTasks(), one task at a time.  A task may post another one.
RunTask(posts) ==
    LET t == Head(running_tasks)
    IN  /\ loop \in {"run", "flush_run"}
        /\ Len(posts) <= 1 /\ Range(posts) \cap Known = {}
        /\ ran' = Append(ran, t)
        /\ running_tasks' = Tail(running_tasks)
        /\ tasks' = tasks \o posts
        /\ posted' = posted \o posts
        /\ is_running' = (is_running /\ t # Quit)
        /\ loop' = IF Len(running_tasks) > 1 THEN loop
                   ELSE IF loop = "run" THEN "check" ELSE "flush"
        /\ UNCHANGED <<delayed_tasks, g_signal_state, wake_time, notified, now>>

\* Mutant: only the quit task ends the loop.
StaysRunningMutant == is_running
StaysRunning == is_running /\ ~g_signal_state
CheckSignal ==
    /\ loop = "check"
    /\ is_running' = StaysRunning
    /\ loop' = IF is_running' THEN "schedule" ELSE "flush"
    /\ UNCHANGED <<tasks, delayed_tasks, running_tasks, g_signal_state, wake_time,
                   notified, now, ran, posted>>

\* Mutant: the flushing phase runs one batch only.
FlushedMutant == loop = "flush"
\* Nothing is left to run.
Flushed == loop = "flush" /\ tasks = <<>>
Finish ==
    /\ Flushed
    /\ loop' = "stopped"
    /\ UNCHANGED <<tasks, delayed_tasks, running_tasks, is_running,
                   g_signal_state, wake_time, notified, now, ran, posted>>

Tick ==
    /\ now < MaxTime
    /\ now' = now + 1
    /\ UNCHANGED <<tasks, delayed_tasks, running_tasks, is_running,
                   g_signal_state, loop, wake_time, notified, ran, posted>>

RunLoop ==
    \/ Start \/ ScheduleDelayedTasks \/ GrabTasks \/ Sleep \/ CheckSignal \/ Finish
    \/ \E posts \in {<<>>} \cup {<<c>> : c \in Children} : RunTask(posts)
    \/ HasReasonToWake /\ WakeUp

RunnerNext ==
    \/ \E t \in Tasks : PostTask(t)
    \/ \E t \in Tasks, delay \in Delays : PostTaskWithDelay(t, delay)
    \/ RequestStopSoon
    \/ Signal
    \/ RunLoop
    \/ WakeUp
    \/ Tick

\* The thread of the loop runs, and time passes.
Fairness == WF_runner_vars(RunLoop) /\ WF_runner_vars(Tick)

RunnerSpec == RunnerInit /\ [][RunnerNext]_runner_vars /\ Fairness

-----------------------------------------------------------------------------
(* Properties *)

RunnerTypeOK ==
    /\ {tasks, running_tasks, ran, posted} \subseteq Seq(AllTasks)
    /\ delayed_tasks \in Seq([due : 0 .. MaxTime, task : AllTasks])
    /\ {is_running, g_signal_state, notified} \subseteq BOOLEAN
    /\ loop \in {"initial", "schedule", "grab", "sleeping", "run", "check",
                 "flush", "flush_run", "stopped"}
    /\ wake_time \in 0 .. kNever
    /\ now \in 0 .. MaxTime

\* The tasks that ran, and those that will run next.
Line == ran \o running_tasks \o tasks

\* Tasks posted without a delay run in the order of posting, and none is lost or
\* run twice, whatever delayed tasks come in between and whichever thread posts.
RunInOrder ==
    /\ RunnerTypeOK
    /\ \A i, j \in DOMAIN Line : Line[i] = Line[j] => i = j
    /\ Range(posted) \subseteq Range(Line)
    /\ \A k, l \in DOMAIN posted : k < l =>
          \E i, j \in DOMAIN Line : i < j /\ Line[i] = posted[k] /\ Line[j] = posted[l]

\* "If any non-delayed tasks post additional non-delayed tasks, those will be run
\* as well before returning": when RunUntilStopped() returns, every task posted
\* without a delay has run, those posted by the last ones included.
NothingLeftBehind ==
    [][loop' = "stopped" /\ loop # "stopped" => Range(posted) \subseteq Range(ran)]_runner_vars

\* A delayed task is not run before it is due, nor before one that is due earlier.
DelayedInTurn ==
    [][\A i \in DOMAIN delayed_tasks :
         (\/ delayed_tasks[i].due > now
          \/ \E j \in 1 .. (i - 1) : delayed_tasks[j] \in Range(delayed_tasks'))
           => delayed_tasks[i] \in Range(delayed_tasks')]_runner_vars

\* A task that is ready runs in the end, even if the loop is about to sleep or to
\* stop while it is posted.  A delayed task does so too, unless the loop is stopped
\* before, although its time must end a sleep; but not before it is due, nor before
\* one that is due earlier.  And RequestStopSoon() stops the loop in the end, also
\* when it is called before RunUntilStopped().
TasksRun ==
    /\ \A t \in AllTasks :
          (t \in Range(tasks) /\ loop \notin {"initial", "stopped"})
              ~> (t \in Range(ran))
    /\ \A t \in Tasks :
          (\E d \in Range(delayed_tasks) : d.task = t)
              ~> (t \in Range(ran) \/ loop = "stopped")
    /\ DelayedInTurn
    /\ (Quit \in Range(posted)) ~> (loop = "stopped")

\* "Run until the is_running_ flag is set back to false [...], or the process
\* received a termination signal": a signal ends the loop, unless it goes on
\* sleeping for good, because the handler does not wake it up.
SignalNoticed == g_signal_state ~> (loop = "stopped" \/ [](loop = "sleeping"))
=============================================================================
