---------------------------- MODULE VideoEncoder ----------------------------
(***************************************************************************)
(* StreamingVpxEncoder: the task runner queues frames for a thread that    *)
(* encodes them and posts the results back.  A frame is its timestamp;     *)
(* libvpx is external, and makes a key frame exactly when it is asked to.  *)
(* Code between lock and unlock of mutex_ is one step.                     *)
(***************************************************************************)
EXTENDS Integers, Sequences

VARIABLES
    quit,              \* target_bitrate_ is 0, which tells the thread to end
    encode_queue,
    needs_key_frame,
    enc,               \* where ProcessWorkUnitsUntilTimeToQuit() is
    cv_notified,       \* cv_ was notified while the thread waited
    unit,              \* the frame being encoded
    results,           \* tasks posted to the task runner, in order
    last_sent          \* history: the Sender took the last frame that was encoded

encoder_vars == <<quit, encode_queue, needs_key_frame, enc, cv_notified,
                  unit, results, last_sent>>

\* A new encoder and its thread.
EncoderInit(thread) ==
    /\ quit = FALSE
    /\ encode_queue = <<>>
    /\ needs_key_frame = TRUE
    /\ enc = thread
    /\ cv_notified = FALSE
    /\ unit = <<>>
    /\ results = <<>>
    /\ last_sent = FALSE

-----------------------------------------------------------------------------
(* On the task runner *)

\* Mutant: the thread is not woken up for a frame.
NotifyMutant == UNCHANGED cv_notified
Notify == cv_notified' = (cv_notified \/ enc = "waiting")

\* TryEncodeAndSend() of a frame that is accepted.
QueueFrame(p) == encode_queue' = Append(encode_queue, p) /\ Notify

\* Mutant: the thread is joined without having been told to end.
RequestEndMutant == UNCHANGED quit /\ Notify
\* ~StreamingVpxEncoder(), up to the join.
RequestEnd == quit' = TRUE /\ Notify

\* Mutant: a frame that the Sender refused is taken for sent.
NeedsKeyAfterMutant(ok) == needs_key_frame
NeedsKeyAfter(ok) == needs_key_frame \/ ~ok

\* SendEncodedFrame(), up to the callback: the Sender takes the frame or not.
EnqueueResult(ok) ==
    /\ results' = Tail(results)
    /\ last_sent' = ok

-----------------------------------------------------------------------------
(* On the encode thread *)

\* The unit is taken with the parameters of that moment.
PopUnit ==
    /\ unit' = <<[frame |-> Head(encode_queue), is_key_frame |-> needs_key_frame]>>
    /\ encode_queue' = Tail(encode_queue)
    /\ needs_key_frame' = FALSE
    /\ enc' = "encode"

PopNothing(next) == enc' = next /\ UNCHANGED <<unit, encode_queue, needs_key_frame>>

\* The top of the loop, up to the unlock or to cv_.wait().
TestQuit ==
    /\ enc = "test"
    /\ IF quit THEN PopNothing("ended")
       ELSE IF encode_queue = <<>> THEN PopNothing("waiting") ELSE PopUnit
    /\ UNCHANGED <<quit, cv_notified, results, last_sent>>

\* cv_.wait() returns, maybe for no reason.
WakeUp ==
    /\ enc = "waiting"
    /\ cv_notified' = FALSE
    /\ IF encode_queue = <<>> THEN PopNothing("test") ELSE PopUnit
    /\ UNCHANGED <<quit, results, last_sent>>

\* PrepareEncoder(), EncodeFrame() and the posting of the result, without the lock.
Encode ==
    /\ enc = "encode"
    /\ results' = results \o unit
    /\ unit' = <<>>
    /\ enc' = "test"
    /\ UNCHANGED <<quit, encode_queue, needs_key_frame, cv_notified, last_sent>>

EncodeThread == TestQuit \/ (cv_notified /\ WakeUp) \/ Encode
=============================================================================
