---------------------------- MODULE MCTaskRunner ----------------------------
(***************************************************************************)
(* TaskRunner with named tasks.                                            *)
(***************************************************************************)
EXTENDS TaskRunner

CONSTANTS t1, t2, c1

MCTasks == {t1, t2}
MCChildren == {c1}
MCDelays == {1, 2}
=============================================================================
