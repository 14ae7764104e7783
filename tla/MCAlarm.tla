------------------------------ MODULE MCAlarm -------------------------------
(***************************************************************************)
(* AlarmAlone with a bounded clock and a bounded number of tasks run.  The *)
(* TaskRunner runs a functor that is due in the end.                       *)
(***************************************************************************)
EXTENDS AlarmAlone

CONSTANTS MaxTime, MaxRuns

MCImmediately == -1

MCSchedule ==
    /\ runs < MaxRuns
    /\ \E task \in ClientTasks, desired \in {kImmediately} \cup 0 .. MaxTime :
         Schedule(task, desired)

MCFire ==
    \/ FireWithoutTask
    \/ FireAndFinish
    \/ \E task \in ClientTasks, desired \in {kImmediately} \cup 0 .. MaxTime :
         runs + 1 < MaxRuns /\ FireAndReschedule(task, desired)

MCTick == now < MaxTime /\ AloneTick

MCSpec == /\ AloneInit
          /\ [][MCSchedule \/ Cancel \/ MCFire \/ MCTick]_alone_vars
          /\ WF_alone_vars(MCFire) /\ WF_alone_vars(MCTick)
=============================================================================
