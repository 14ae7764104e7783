--------------------------- MODULE CaptureThreads ---------------------------
(***************************************************************************)
(* The life of GstreamerCapture: the pipeline, the two threads that pull   *)
(* samples from it, and the thread that starts or stops them.  What they   *)
(* pull is in CaptureQueues.                                               *)
(***************************************************************************)
EXTENDS Integers

Workers == {"video", "audio"}

VARIABLES
    pipeline,          \* "none" when there is none, else its state
    stop_requested,
    worker,            \* where PullVideo() and PullAudio() are
    capture_error      \* error, or an error or EOS on the pipeline's bus

threads_vars == <<pipeline, stop_requested, worker, capture_error>>

ThreadsInit ==
    /\ pipeline = "none"
    /\ stop_requested = FALSE
    /\ worker = [k \in Workers |-> "none"]
    /\ capture_error = FALSE

ThreadsType ==
    /\ pipeline \in {"none", "playing", "null"}
    /\ stop_requested \in BOOLEAN
    /\ worker \in [Workers -> {"none", "test", "pull", "ended"}]
    /\ capture_error \in BOOLEAN

StartPipeline == pipeline' = "playing" /\ UNCHANGED <<stop_requested, worker, capture_error>>

\* ConfigureAndStart() gives up before it has made a thread.
AbandonPipeline ==
    /\ pipeline' = "none"
    /\ capture_error' = TRUE
    /\ UNCHANGED <<stop_requested, worker>>

StartWorker(k) ==
    /\ worker' = [worker EXCEPT ![k] = "test"]
    /\ UNCHANGED <<pipeline, stop_requested, capture_error>>

\* Stop(), and the way out when the second thread is not made: up to the first join.
RequestStop ==
    /\ pipeline' = IF pipeline = "none" THEN pipeline ELSE "null"
    /\ stop_requested' = (stop_requested \/ pipeline # "none")
    /\ UNCHANGED worker

Joined == \A k \in Workers : worker[k] \in {"none", "ended"}

\* The joins return, and ReleasePipeline().
JoinAndRelease ==
    /\ Joined
    /\ pipeline' = "none"
    /\ UNCHANGED <<stop_requested, worker, capture_error>>

\* PullVideo() and PullAudio(): the test of the loop, and the pull and copy, which
\* may find a sample that is no good.
TestStop(k) ==
    /\ worker[k] = "test"
    /\ worker' = [worker EXCEPT ![k] = IF stop_requested THEN "ended" ELSE "pull"]
    /\ UNCHANGED <<pipeline, stop_requested, capture_error>>

PullSample(k, bad) ==
    /\ worker[k] = "pull"
    /\ worker' = [worker EXCEPT ![k] = "test"]
    /\ capture_error' = (capture_error \/ bad)
    /\ UNCHANGED <<pipeline, stop_requested>>

BusError ==
    /\ pipeline = "playing"
    /\ capture_error' = TRUE
    /\ UNCHANGED <<pipeline, stop_requested, worker>>
=============================================================================
