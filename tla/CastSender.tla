----------------------------- MODULE CastSender -----------------------------
(***************************************************************************)
(* The Cast Streaming Sender, SenderImpl: a ring of frames in flight, fed  *)
(* by EnqueueFrame, drained by the feedback of the Receiver, with packet   *)
(* retransmission on NACKs and "kickstart" packets that tell the Receiver  *)
(* of frames it has not heard of.                                          *)
(*                                                                         *)
(* Times are abstracted.  "Sent at time t" becomes "sent", and a deadline  *)
(* comparison becomes a choice: whether a NACKed packet was sent recently  *)
(* enough to be left alone, and whether the kickstart interval has passed. *)
(***************************************************************************)
EXTENDS StreamingDefs

CONSTANT NoFrame     \* an unused slot

ASSUME SenderAssumption ==
    NoFrame \notin [frame_id : FrameId, kind : FrameKinds,
                    send_flags : SUBSET Nat, sent : SUBSET Nat]

VARIABLES
    pending_frames,               \* ring of slots
    num_frames_in_flight,         \* count of active slots
    last_enqueued_frame_id,
    checkpoint_frame_id,          \* everything up to here is done with
    latest_expected_frame_id,     \* latest frame the Receiver knows of
    target_playout_delay,
    playout_delay_change_at_frame_id,
    picture_lost_at_frame_id,
    last_enqueued_key_frame_id,
    next_rtp_send_time,           \* this Sender's entry in the packet router
    rtcp_requested                \* Sender Reports are being sent

sender_vars == <<pending_frames, num_frames_in_flight, last_enqueued_frame_id,
                 checkpoint_frame_id, latest_expected_frame_id,
                 target_playout_delay, playout_delay_change_at_frame_id,
                 picture_lost_at_frame_id, last_enqueued_key_frame_id,
                 next_rtp_send_time, rtcp_requested>>

-----------------------------------------------------------------------------
(* Slots *)

\* A slot in use.  send_flags: packets to (re)send; sent: packets that have a
\* packet_sent_time other than kNever.
PendingFrameSlot ==
    [frame_id : FrameId, kind : FrameKinds,
     send_flags : SUBSET Nat, sent : SUBSET Nat]

ActiveSlots == {i \in Slots : pending_frames[i] # NoFrame}

is_active_for_frame(f) ==
    /\ pending_frames[SlotOf(f)] # NoFrame
    /\ pending_frames[SlotOf(f)].frame_id = f

\* CHECKed by GetInFlightMediaDuration() and DispatchCancellations().
OldestFrameActive ==
    num_frames_in_flight = 0 \/ is_active_for_frame(checkpoint_frame_id + 1)

PacketsOf(slot) == 0 .. (slot.kind.packets - 1)

GetNextFrameId == last_enqueued_frame_id + 1

NeedsKeyFrame == last_enqueued_key_frame_id <= picture_lost_at_frame_id

-----------------------------------------------------------------------------
(* Choosing what to send *)

FramesNeedingSend ==
    {f \in (checkpoint_frame_id + 1) .. last_enqueued_frame_id :
        /\ is_active_for_frame(f)
        /\ pending_frames[SlotOf(f)].send_flags # {}}

\* <<f, p>> is the oldest packet that needs to be sent.
ChooseNextRtpPacketNeedingSend(f, p) ==
    /\ f \in FramesNeedingSend
    /\ \A g \in FramesNeedingSend : f <= g
    /\ p \in pending_frames[SlotOf(f)].send_flags
    /\ \A q \in pending_frames[SlotOf(f)].send_flags : p <= q

\* Mutant: there are no kickstart packets.
KickstartNeededMutant == FALSE
\* The Receiver may not know of the last frame, so a kickstart is wanted.
KickstartNeeded == latest_expected_frame_id < last_enqueued_frame_id

\* <<f, p>> is the kickstart packet: the last one of the last frame.
ChooseKickstartPacket(f, p) ==
    /\ KickstartNeeded
    /\ f = last_enqueued_frame_id
    /\ is_active_for_frame(f)
    /\ p = pending_frames[SlotOf(f)].kind.packets - 1

\* GetRtpResumeTime() in the state reached by the step.
RtpResumeTime ==
    IF FramesNeedingSend # {} THEN "immediately"
    ELSE IF KickstartNeeded THEN "kickstart" ELSE "never"

-----------------------------------------------------------------------------
(* Operations *)

SenderInit ==
    /\ pending_frames = [i \in Slots |-> NoFrame]
    /\ num_frames_in_flight = 0
    /\ last_enqueued_frame_id = leader
    /\ checkpoint_frame_id = leader
    /\ latest_expected_frame_id = leader
    /\ target_playout_delay = InitialPlayoutDelay
    /\ playout_delay_change_at_frame_id = first
    /\ picture_lost_at_frame_id = leader
    /\ last_enqueued_key_frame_id = leader
    /\ next_rtp_send_time = "never"
    /\ rtcp_requested = FALSE

\* Mutant: the limit is off by one.
WithinIdSpanMutant(f) == f - checkpoint_frame_id <= kMaxUnackedFrames + 1
\* "It's the span of FrameIds that is restricted."
WithinIdSpan(f) == f - checkpoint_frame_id <= kMaxUnackedFrames

\* EnqueueFrame() that returns OK.  The other results (REACHED_ID_SPAN_LIMIT,
\* MAX_DURATION_IN_FLIGHT, PAYLOAD_TOO_LARGE) change nothing; the second one
\* depends on media time and may always be returned while frames are in
\* flight.  GetInFlightMediaDuration() aborts the program unless the oldest
\* frame in flight is the one after the checkpoint.
EnqueueFrame(kind) ==
    LET f == GetNextFrameId
    IN  /\ WithinIdSpan(f)
        /\ OldestFrameActive
        /\ pending_frames' =
             [pending_frames EXCEPT ![SlotOf(f)] =
                [frame_id |-> f, kind |-> kind,
                 send_flags |-> 0 .. (kind.packets - 1), sent |-> {}]]
        /\ num_frames_in_flight' = num_frames_in_flight + 1
        /\ last_enqueued_frame_id' = f
        /\ last_enqueued_key_frame_id' =
             IF kind.dependency = "key" THEN f ELSE last_enqueued_key_frame_id
        /\ IF kind.new_playout_delay > 0
           THEN /\ target_playout_delay' = kind.new_playout_delay
                /\ playout_delay_change_at_frame_id' = f
           ELSE UNCHANGED <<target_playout_delay,
                            playout_delay_change_at_frame_id>>
        /\ rtcp_requested' = TRUE
        /\ next_rtp_send_time' = "immediately"
        /\ UNCHANGED <<checkpoint_frame_id, latest_expected_frame_id,
                       picture_lost_at_frame_id>>

\* Every frame in flight is given up.
CancelInFlightData ==
    /\ checkpoint_frame_id' = last_enqueued_frame_id
    /\ LET canceled == {i \in ActiveSlots :
                          pending_frames[i].frame_id \in
                            (checkpoint_frame_id + 1) .. last_enqueued_frame_id}
       IN  /\ pending_frames' = [i \in Slots |-> IF i \in canceled THEN NoFrame
                                                 ELSE pending_frames[i]]
           /\ num_frames_in_flight' =
                num_frames_in_flight - Cardinality(canceled)
    /\ UNCHANGED <<last_enqueued_frame_id, latest_expected_frame_id,
                   target_playout_delay, playout_delay_change_at_frame_id,
                   picture_lost_at_frame_id, last_enqueued_key_frame_id,
                   next_rtp_send_time, rtcp_requested>>

\* Mutant: the send time is not recorded.
MarkSentMutant(slot, p) == [slot EXCEPT !.send_flags = @ \ {p}]
MarkSent(slot, p) == [slot EXCEPT !.send_flags = @ \ {p},
                                  !.sent = @ \cup {p}]

\* One RTP packet of a burst: the router calls GetRtpPacketForImmediateSend()
\* and then GetRtpResumeTime().
SendRtpPacket(f, p) ==
    /\ next_rtp_send_time # "never"
    /\ \/ ChooseNextRtpPacketNeedingSend(f, p)
       \/ FramesNeedingSend = {} /\ ChooseKickstartPacket(f, p)
    /\ pending_frames' = [pending_frames EXCEPT ![SlotOf(f)] = MarkSent(@, p)]
    /\ UNCHANGED <<num_frames_in_flight, last_enqueued_frame_id,
                   checkpoint_frame_id, latest_expected_frame_id,
                   target_playout_delay, playout_delay_change_at_frame_id,
                   picture_lost_at_frame_id, last_enqueued_key_frame_id,
                   rtcp_requested>>
    /\ next_rtp_send_time' = RtpResumeTime'

\* A burst that finds nothing to send: no flagged packet, and no kickstart or
\* one that is not due.
SendNoRtpPacket ==
    /\ next_rtp_send_time # "never"
    /\ FramesNeedingSend = {}
    /\ KickstartNeeded => is_active_for_frame(last_enqueued_frame_id)
    /\ next_rtp_send_time' = RtpResumeTime
    /\ UNCHANGED <<pending_frames, num_frames_in_flight,
                   last_enqueued_frame_id, checkpoint_frame_id,
                   latest_expected_frame_id, target_playout_delay,
                   playout_delay_change_at_frame_id, picture_lost_at_frame_id,
                   last_enqueued_key_frame_id, rtcp_requested>>

-----------------------------------------------------------------------------
(* Feedback from the Receiver *)

\* The frame IDs of a packet, as ParseFeedback() restores them.
FeedbackCheckpoint(fb) ==
    ExpandLessThanOrEqual(last_enqueued_frame_id, fb.checkpoint)
\* Mutant: the ACK bits are taken to start right after the checkpoint.
FeedbackAcksMutant(fb) == {FeedbackCheckpoint(fb) + 1 + bit : bit \in fb.acks}
FeedbackAcks(fb) == {FeedbackCheckpoint(fb) + 2 + bit : bit \in fb.acks}
FeedbackNacks(fb) ==
    {<<ExpandGreaterThan(FeedbackCheckpoint(fb), n[1]), n[2]>> : n \in fb.nacks}

\* Frames canceled by OnReceiverCheckpoint() and OnReceiverHasFrames().  The
\* latter ignores all the ACKs when the last one is of a frame never sent.
ValidAcks(fb) ==
    IF \E a \in FeedbackAcks(fb) : a > last_enqueued_frame_id
    THEN {} ELSE FeedbackAcks(fb)
SlotsCanceledBy(fb) ==
    LET canceled == ((checkpoint_frame_id + 1) .. FeedbackCheckpoint(fb))
                      \cup ValidAcks(fb)
    IN  {i \in ActiveSlots : pending_frames[i].frame_id \in canceled}

\* Slots whose frames OnReceiverIsMissingPackets() finds NACKed.
SlotsNackedBy(fb) ==
    LET nacked == {n[1] : n \in FeedbackNacks(fb)}
    IN  {i \in ActiveSlots \ SlotsCanceledBy(fb) :
            pending_frames[i].frame_id \in nacked}

\* The packets a Receiver misses of the frame in slot i, among those sent
\* before: HandleIndividualNack() compares their send times with a threshold,
\* and kNever is later than any threshold.
MissingPackets(fb, i) ==
    LET f == pending_frames[i].frame_id
        named == {n[2] : n \in {m \in FeedbackNacks(fb) : m[1] = f}}
    IN  pending_frames[i].sent \cap
          (IF kAllPacketsLost \in named THEN PacketsOf(pending_frames[i])
           ELSE named \cap PacketsOf(pending_frames[i]))
ResendCandidates(fb) ==
    UNION {{i} \X MissingPackets(fb, i) : i \in SlotsNackedBy(fb)}

\* Mutant: any feedback shows that the Receiver knows of all frames.
KnownFramesMutant(fb) == {last_enqueued_frame_id}
\* Frames that the Receiver is known to know of.
KnownFrames(fb) ==
    {latest_expected_frame_id, FeedbackCheckpoint(fb)} \cup ValidAcks(fb)
      \cup {pending_frames[i].frame_id : i \in SlotsNackedBy(fb)}

\* Mutant: packets are flagged without asking the router for a burst.
SendTimeAfterNacksMutant(resend) == next_rtp_send_time
SendTimeAfterNacks(resend) == IF resend # {} THEN "immediately"
                              ELSE next_rtp_send_time

\* Mutant: feedback without the indication ends the picture loss.
PictureLostAtMutant(checkpoint, pli) ==
    IF ~pli THEN leader ELSE checkpoint
\* OnReceiverIndicatesPictureLoss(), which does nothing while a key frame is in
\* flight.
PictureLostAt(checkpoint, pli) ==
    IF pli /\ ~(checkpoint < last_enqueued_key_frame_id)
    THEN checkpoint ELSE picture_lost_at_frame_id

\* OnReceivedRtcpPacket() for a packet that is not stale: checkpoint, ACKs,
\* NACKs and picture loss, in this order.  "resend" holds the missing packets
\* that were not sent too recently.
OnReceivedRtcpPacket(fb, resend) ==
    LET cp == FeedbackCheckpoint(fb)
        canceled == SlotsCanceledBy(fb)
        nacked == SlotsNackedBy(fb)
        known == KnownFrames(fb)
        new_checkpoint == IF cp > checkpoint_frame_id THEN cp
                          ELSE checkpoint_frame_id
    IN  /\ checkpoint_frame_id' = new_checkpoint
        /\ pending_frames' =
             [i \in Slots |->
                IF i \in canceled THEN NoFrame
                ELSE IF i \in nacked
                THEN [pending_frames[i] EXCEPT !.send_flags =
                        @ \cup {p \in MissingPackets(fb, i) : <<i, p>> \in resend}]
                ELSE pending_frames[i]]
        /\ num_frames_in_flight' =
             num_frames_in_flight - Cardinality(canceled)
        /\ \E m \in known : /\ \A k \in known : k <= m
                            /\ latest_expected_frame_id' = m
        /\ next_rtp_send_time' = SendTimeAfterNacks(resend)
        /\ picture_lost_at_frame_id' = PictureLostAt(new_checkpoint, fb.pli)
        /\ UNCHANGED <<last_enqueued_frame_id, target_playout_delay,
                       playout_delay_change_at_frame_id,
                       last_enqueued_key_frame_id, rtcp_requested>>
=============================================================================
