--------------------------- MODULE MCSenderAlone ----------------------------
(***************************************************************************)
(* SenderAlone on a small instance: frames of one and two packets, and     *)
(* every feedback message that names at most one ACK and one NACKed frame, *)
(* sensible or not.                                                        *)
(***************************************************************************)
EXTENDS SenderAlone

CONSTANT MaxFrameId      \* bound on the frames enqueued

MCFrameKinds ==
    {[packets |-> 1, dependency |-> "key", new_playout_delay |-> 0],
     [packets |-> 2, dependency |-> "dependent", new_playout_delay |-> 0]}

MCFeedback(acks, nacks, pli) ==
    [checkpoint : 0 .. (IdSpan - 1), playout_delay : {InitialPlayoutDelay},
     acks : acks, nacks : nacks, pli : pli]

MCFeedbackMessages ==
    MCFeedback({{}, {0}, {1}},
               {{}} \cup {{<<f, p>>} : f \in 0 .. (IdSpan - 1),
                                      p \in {0, kAllPacketsLost}},
               {FALSE})
    \cup MCFeedback({{}}, {{}}, {TRUE})

MCEnqueue == /\ last_enqueued_frame_id < MaxFrameId
             /\ \E kind \in FrameKinds : EnqueueFrame(kind)

MCNext == MCEnqueue \/ SenderSends \/ ReceiveRtcp

MCSpec == SenderInit /\ [][MCNext]_sender_vars
MCSpecWithCancel == SenderInit /\ [][MCNext \/ CancelInFlightData]_sender_vars
=============================================================================
