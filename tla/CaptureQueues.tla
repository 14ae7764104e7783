--------------------------- MODULE CaptureQueues ----------------------------
(***************************************************************************)
(* What GstreamerCapture hands over to its client: frames, through two     *)
(* DropOldQueues, and an error.  A frame is its presentation timestamp.    *)
(* The threads that copy samples are in CaptureThreads; here they run.     *)
(***************************************************************************)
EXTENDS Integers, Sequences, Functions

CONSTANTS Pts,        \* the timestamps that samples of each track may have
          kCapacity   \* of each queue

Tracks == {"audio", "video"}
None == 0             \* no timestamp yet

ASSUME CaptureAssumption == Pts \in [Tracks -> SUBSET (Nat \ {None})] /\ kCapacity \in Nat \ {0}

VARIABLES
    last_timestamp,   \* last_video_timestamp, last_audio_timestamp
    queue,            \* video_queue, audio_queue
    error             \* whether PollRuntimeError() returns true

capture_vars == <<last_timestamp, queue, error>>

CaptureInit ==
    /\ last_timestamp = [k \in Tracks |-> None]
    /\ queue = [k \in Tracks |-> <<>>]
    /\ error = FALSE

\* DropOldQueue::Push()
Push(q, p) == Append(IF Len(q) = kCapacity THEN Tail(q) ELSE q, p)

\* DropOldQueue::TakeLatest(), which leaves the queue empty.
TakeLatest(q) == IF q = <<>> THEN None ELSE q[Len(q)]

\* Mutant: a sample may repeat the timestamp of the last one.
InOrderMutant(p, previous) == p >= previous
InOrder(p, previous) == previous = None \/ p > previous

\* CopyVideo() and CopyAudio() of a sample with a timestamp.
CopySample(k, p) ==
    /\ last_timestamp' = [last_timestamp EXCEPT ![k] = p]
    /\ IF InOrder(p, last_timestamp[k])
       THEN queue' = [queue EXCEPT ![k] = Push(@, p)] /\ UNCHANGED error
       ELSE error' = TRUE /\ UNCHANGED queue

\* A sample in a wrong format, that cannot be mapped, or without a timestamp; or
\* an error or EOS message on the pipeline's bus, which the next poll finds.
CaptureFails == error' = TRUE /\ UNCHANGED <<last_timestamp, queue>>
=============================================================================
