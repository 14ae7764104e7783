---------------------------- MODULE SenderAlone -----------------------------
(***************************************************************************)
(* The Sender against an environment that may send it any feedback at all: *)
(* what SenderImpl guarantees whatever its peer or the network do.         *)
(***************************************************************************)
EXTENDS CastSender

CONSTANT FeedbackMessages     \* RTCP packets the environment may deliver

ASSUME EnvironmentAssumption == FeedbackMessages \subseteq Feedback

SenderSends ==
    \/ \E i \in ActiveSlots :
         \E p \in PacketsOf(pending_frames[i]) :
           SendRtpPacket(pending_frames[i].frame_id, p)
    \/ SendNoRtpPacket

ReceiveRtcp == \E fb \in FeedbackMessages :
                 \E resend \in SUBSET ResendCandidates(fb) :
                   OnReceivedRtcpPacket(fb, resend)

\* The Sender as the applications of this repository drive it.
SenderNext ==
    (\E kind \in FrameKinds : EnqueueFrame(kind)) \/ SenderSends \/ ReceiveRtcp

\* The whole public API, with CancelInFlightData().
NextWithCancel == SenderNext \/ CancelInFlightData

SenderSpec == SenderInit /\ [][SenderNext]_sender_vars
SpecWithCancel == SenderInit /\ [][NextWithCancel]_sender_vars

-----------------------------------------------------------------------------

SendTimes == {"never", "immediately", "kickstart"}

SenderTypeOK ==
    /\ pending_frames \in [Slots -> PendingFrameSlot \cup {NoFrame}]
    /\ num_frames_in_flight \in Nat
    /\ last_enqueued_frame_id \in FrameId
    /\ checkpoint_frame_id \in FrameId
    /\ latest_expected_frame_id \in FrameId
    /\ target_playout_delay \in Nat
    /\ playout_delay_change_at_frame_id \in FrameId
    /\ picture_lost_at_frame_id \in FrameId
    /\ last_enqueued_key_frame_id \in FrameId
    /\ next_rtp_send_time \in SendTimes
    /\ rtcp_requested \in BOOLEAN

-----------------------------------------------------------------------------
(* What holds whatever feedback arrives *)

\* The ring buffer is sound: a slot in use holds a frame that belongs in it and
\* that is in flight (after the checkpoint, up to the last one enqueued), the
\* IDs in flight span at most the ring, and num_frames_in_flight_ counts the
\* slots in use, so that CancelPendingFrame() never takes it below zero.
RingSound ==
    /\ \A i \in ActiveSlots :
          LET f == pending_frames[i].frame_id
          IN  /\ SlotOf(f) = i
              /\ f \in (checkpoint_frame_id + 1) .. last_enqueued_frame_id
    /\ last_enqueued_frame_id - checkpoint_frame_id \in 0 .. kMaxUnackedFrames
    /\ num_frames_in_flight = Cardinality(ActiveSlots)

\* EnqueueFrame() never overwrites a frame in flight (its CHECK that the slot
\* is free): a frame ID that passes the span limit finds its slot unused, even
\* though slots are freed out of order.
NextSlotFree ==
    WithinIdSpan(GetNextFrameId)
        => pending_frames[SlotOf(GetNextFrameId)] = NoFrame

\* No packet is forgotten: each packet of a frame in flight is flagged for
\* sending or has been sent, and so the kickstart packet has a send time once
\* nothing is flagged (the sanity check in ChooseKickstartPacket()).
NoPacketForgotten ==
    \A i \in ActiveSlots :
        pending_frames[i].send_flags \cup pending_frames[i].sent
            = PacketsOf(pending_frames[i])

\* RTP sending is never suspended while there is something to send: the router
\* only stops asking this Sender for packets when nothing is flagged and the
\* Receiver knows of every frame.
NoLostSendRequest ==
    next_rtp_send_time = "never"
        => FramesNeedingSend = {} /\ ~KickstartNeeded

\* "This will return true until a key frame is accepted by EnqueueFrame()": no
\* feedback and no later picture loss makes NeedsKeyFrame() false again.
KeyFrameNeedLasts ==
    [][(NeedsKeyFrame /\ ~NeedsKeyFrame')
          => /\ last_enqueued_key_frame_id' = last_enqueued_frame_id'
             /\ last_enqueued_frame_id' = last_enqueued_frame_id + 1]_sender_vars

-----------------------------------------------------------------------------
(* What holds as long as the application does not cancel frames *)

\* "This frame cannot have been canceled since latest_expected_frame_id_ hasn't
\* yet reached this point": the CHECK in ChooseKickstartPacket().
KickstartFrameActive ==
    KickstartNeeded => is_active_for_frame(last_enqueued_frame_id)
=============================================================================
