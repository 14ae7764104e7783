---------------------------- MODULE FrameDelivery ---------------------------
(***************************************************************************)
(* What a Cast Streaming session promises the application: the consumer    *)
(* gets the frames that were enqueued, whole and unaltered, in order and   *)
(* none twice; some may be skipped, but a frame that depends on another    *)
(* one is never delivered after a gap.                                     *)
(***************************************************************************)
EXTENDS Integers, Sequences

CONSTANT FrameKinds

VARIABLES enqueued,   \* kinds of the frames enqueued; frame f is enqueued[f+1]
          delivered   \* the frame delivered last

NoKind == [packets |-> 0, dependency |-> "none", new_playout_delay |-> 0]
Nothing == [frame_id |-> -1, kind |-> NoKind]

Init == enqueued = <<>> /\ delivered = Nothing

Enqueue == /\ \E kind \in FrameKinds : enqueued' = Append(enqueued, kind)
           /\ UNCHANGED delivered

Deliver == /\ \E f \in delivered.frame_id + 1 .. Len(enqueued) - 1 :
                /\ \/ f = delivered.frame_id + 1
                   \/ enqueued[f + 1].dependency # "dependent"
                /\ delivered' = [frame_id |-> f, kind |-> enqueued[f + 1]]
           /\ UNCHANGED enqueued

Next == Enqueue \/ Deliver

Spec == Init /\ [][Next]_<<enqueued, delivered>>
=============================================================================
