---------------------------- MODULE CastStreaming ---------------------------
(***************************************************************************)
(* A Cast Streaming session of one stream: the Sender, the Receiver with   *)
(* its consumer, and the network between them.  UDP may lose, repeat and   *)
(* reorder packets: a packet handed to the network may be delivered any    *)
(* number of times, in any order, until the network forgets it.            *)
(***************************************************************************)
EXTENDS CastSender, CastReceiver, Sequences

CONSTANTS MaxLag,        \* how many frames late an RTP packet may still arrive
          MaxRtcpInFlight

\* A packet of a frame that lags further behind could be taken for one of a
\* frame to come, since the wire only has the low bits of the frame ID.
ASSUME NetworkAssumption ==
    /\ MaxLag \in Nat
    /\ MaxRtcpInFlight \in Nat \ {0}
    /\ MaxLag <= IdSpan - 1 - max_distance_for_expansion
    /\ kMaxUnackedFrames <= max_distance_for_expansion

VARIABLES
    rtp_net,        \* RTP packets that may still arrive
    sr_net,         \* whether a Sender Report may still arrive
    rtcp_net,       \* feedback that may still arrive, in the order of sending
    rtcp_stale,     \* how many of those the RTCP parser takes for stale
    enqueued,       \* the kinds of the frames enqueued so far
    last_delivered  \* what the consumer got last: a set of packets

net_vars == <<rtp_net, sr_net, rtcp_net, rtcp_stale>>
vars == <<sender_vars, receiver_vars, net_vars, enqueued, last_delivered>>

Init ==
    /\ SenderInit
    /\ ReceiverInit
    /\ rtp_net = {}
    /\ sr_net = FALSE
    /\ rtcp_net = <<>>
    /\ rtcp_stale = 0
    /\ enqueued = <<>>
    /\ last_delivered = {}

-----------------------------------------------------------------------------
(* The network *)

\* The network forgets the i-th of the packets.
Forget(packets, i) ==
    [k \in 1 .. Len(packets) - 1 |-> IF k < i THEN packets[k] ELSE packets[k + 1]]

\* Feedback is sent.  Once the network is full, any one packet is forgotten.
SendFeedback(fb) ==
    IF Len(rtcp_net) < MaxRtcpInFlight
    THEN rtcp_net' = Append(rtcp_net, fb) /\ UNCHANGED rtcp_stale
    ELSE \E i \in 1 .. MaxRtcpInFlight + 1 :
           /\ rtcp_net' = Forget(Append(rtcp_net, fb), i)
           /\ rtcp_stale' = IF i <= rtcp_stale THEN rtcp_stale - 1
                            ELSE rtcp_stale

\* RTP packets that lag too far behind frame f never arrive.
StillArriving(f) == {pkt \in rtp_net : pkt.frame_id >= f - MaxLag}

-----------------------------------------------------------------------------
(* Steps of the Sender *)

Enqueue(kind) ==
    /\ EnqueueFrame(kind)
    /\ rtp_net' = StillArriving(last_enqueued_frame_id')
    /\ enqueued' = Append(enqueued, kind)
    /\ UNCHANGED <<receiver_vars, sr_net, rtcp_net, rtcp_stale, last_delivered>>

SendRtp ==
    /\ \/ \E i \in ActiveSlots :
            LET slot == pending_frames[i]
            IN  \E p \in PacketsOf(slot) :
                  /\ SendRtpPacket(slot.frame_id, p)
                  /\ rtp_net' = rtp_net \cup {[frame_id |-> slot.frame_id,
                                               kind |-> slot.kind,
                                               packet_id |-> p]}
       \/ SendNoRtpPacket /\ UNCHANGED rtp_net
    /\ UNCHANGED <<receiver_vars, sr_net, rtcp_net, rtcp_stale, enqueued,
                   last_delivered>>

\* GetRtcpPacketForImmediateSend(), called at regular intervals once requested.
SendSenderReport ==
    /\ rtcp_requested
    /\ sr_net' = TRUE
    /\ UNCHANGED <<sender_vars, receiver_vars, rtp_net, rtcp_net, rtcp_stale,
                   enqueued, last_delivered>>

\* Mutant: feedback is processed in the order of arrival.
IsFreshMutant(i) == TRUE
\* CompoundRtcpParser::Parse() ignores feedback that is older than the latest
\* it has seen; a repetition of the latest is processed again.
IsFresh(i) == i > rtcp_stale

ReceiveFeedback(i) ==
    /\ IsFresh(i)
    /\ \E resend \in SUBSET ResendCandidates(rtcp_net[i]) :
         OnReceivedRtcpPacket(rtcp_net[i], resend)
    /\ rtcp_stale' = i - 1
    /\ UNCHANGED <<receiver_vars, rtp_net, sr_net, rtcp_net, enqueued,
                   last_delivered>>

-----------------------------------------------------------------------------
(* Steps of the Receiver and its consumer *)

\* A step of the Receiver that sends feedback, or one that does not.
Sends == SendFeedback(FeedbackMessage') /\ UNCHANGED <<rtp_net, sr_net>>
SendsNothing == UNCHANGED net_vars
SendsIfCheckpointMoves ==
    IF checkpoint_frame' # checkpoint_frame THEN Sends ELSE SendsNothing

ReceiveRtp(pkt) ==
    /\ OnReceivedRtpPacket(pkt)
    /\ SendsIfCheckpointMoves
    /\ UNCHANGED <<sender_vars, enqueued, last_delivered>>

ReceiveSenderReport ==
    /\ sr_net
    /\ OnReceivedRtcpPacketFromSender
    /\ Sends
    /\ UNCHANGED <<sender_vars, enqueued, last_delivered>>

ReportAgain ==
    /\ RtcpAlarmFires
    /\ Sends
    /\ UNCHANGED <<sender_vars, enqueued, last_delivered>>

\* The clock decides how many of the frames expected are late.
FrameReadyCheck ==
    /\ \/ NextFrameReady
       \/ \E late \in last_frame_consumed .. latest_frame_expected :
            \/ SkipToFrame(late + 1, late)
            \/ NoFrameReady(late)
    /\ SendsIfCheckpointMoves
    /\ UNCHANGED <<sender_vars, enqueued, last_delivered>>

Consume ==
    /\ ConsumeNextFrame
    /\ last_delivered' = Entry(last_frame_consumed + 1).chunks
    /\ SendsNothing
    /\ UNCHANGED <<sender_vars, enqueued>>

AttachConsumer ==
    /\ SetConsumer
    /\ SendsNothing
    /\ UNCHANGED <<sender_vars, enqueued, last_delivered>>

DecoderLosesPicture ==
    /\ RequestKeyFrame
    /\ Sends
    /\ UNCHANGED <<sender_vars, enqueued, last_delivered>>

-----------------------------------------------------------------------------

\* Everything but new frames.
Transport ==
    \/ SendRtp
    \/ SendSenderReport
    \/ \E i \in 1 .. Len(rtcp_net) : ReceiveFeedback(i)
    \/ \E pkt \in rtp_net : ReceiveRtp(pkt)
    \/ ReceiveSenderReport
    \/ ReportAgain
    \/ FrameReadyCheck
    \/ Consume
    \/ AttachConsumer
    \/ DecoderLosesPicture

Next == (\E kind \in FrameKinds : Enqueue(kind)) \/ Transport

\* Packets that never arrive.  A packet that is not delivered is as good as
\* lost, so this matters to liveness only.
LoseRtp(pkt) ==
    /\ rtp_net' = rtp_net \ {pkt}
    /\ UNCHANGED <<sender_vars, receiver_vars, sr_net, rtcp_net, rtcp_stale,
                   enqueued, last_delivered>>
LoseSenderReport ==
    /\ sr_net' = FALSE
    /\ UNCHANGED <<sender_vars, receiver_vars, rtp_net, rtcp_net, rtcp_stale,
                   enqueued, last_delivered>>
Loss == (\E pkt \in rtp_net : LoseRtp(pkt)) \/ LoseSenderReport

\* The newest feedback arrives, and no NACKed packet was sent so recently that
\* it is left alone.
HeedFeedback ==
    LET fb == rtcp_net[Len(rtcp_net)]
    IN  /\ rtcp_net # <<>>
        /\ OnReceivedRtcpPacket(fb, ResendCandidates(fb))
        /\ rtcp_stale' = Len(rtcp_net) - 1
        /\ UNCHANGED <<receiver_vars, rtp_net, sr_net, rtcp_net, enqueued,
                       last_delivered>>

\* Alarms fire and the consumer consumes (weak fairness); what is sent again and
\* again arrives in the end (strong fairness).
Fairness(packets) ==
    /\ WF_vars(SendRtp) /\ WF_vars(SendSenderReport)
    /\ WF_vars(ReportAgain) /\ WF_vars(FrameReadyCheck)
    /\ WF_vars(AttachConsumer) /\ WF_vars(Consume)
    /\ SF_vars(HeedFeedback) /\ SF_vars(ReceiveSenderReport)
    /\ \A pkt \in packets : SF_vars(pkt \in rtp_net /\ ReceiveRtp(pkt))

Spec == Init /\ [][Next]_vars

-----------------------------------------------------------------------------
(* Properties *)

QueueEntryOK(e) ==
    /\ e.frame_id \in FrameId \cup {null_frame}
    /\ e.chunks \subseteq RtpPacket
    /\ e.captured \in BOOLEAN

TypeOK ==
    /\ \A i \in Slots : pending_frames[i] \in PendingFrameSlot \cup {NoFrame}
    /\ num_frames_in_flight \in 0 .. kMaxUnackedFrames
    /\ \A i \in Slots : QueueEntryOK(queue[i])
    /\ {last_enqueued_frame_id, checkpoint_frame_id, latest_expected_frame_id,
        latest_frame_expected, last_frame_consumed, checkpoint_frame,
        highest_rtp_frame_id} \subseteq FrameId
    /\ last_key_frame_received \in FrameId \cup {null_frame}
    /\ rtp_net \subseteq RtpPacket
    /\ \A i \in 1 .. Len(rtcp_net) : rtcp_net[i] \in Feedback
    /\ rtcp_stale \in 0 .. Len(rtcp_net)

\* The CHECKs in ConsumeNextFrame(): between the notification of the consumer
\* and its call, nothing takes away the frame it was told of.
ReadyFrameStays ==
    frame_ready =>
        LET f == last_frame_consumed + 1
        IN  f <= checkpoint_frame /\ is_complete(Entry(f)) /\ Entry(f).captured

\* The Receiver's checkpoint is exact: every frame up to it that is still in the
\* queue is complete and has its capture time (so no playout delay change is
\* missing), and the one after it is not complete.  This is what the CHECKs in
\* DropAllFramesBefore() and AdvanceCheckpoint() rest on.
CheckpointExact ==
    /\ TypeOK
    /\ last_frame_consumed <= checkpoint_frame
    /\ checkpoint_frame <= latest_frame_expected
    /\ \A f \in (last_frame_consumed + 1) .. checkpoint_frame :
          is_complete(Entry(f)) /\ Entry(f).captured
    /\ checkpoint_frame < latest_frame_expected
          => ~is_complete(Entry(checkpoint_frame + 1))

\* A frame is only ever put together from its own packets, however old a packet
\* is: frame IDs are restored correctly from 8 bits by RtpPacketParser, the frames
\* expected fit in the queue, and a slot that is given to a new frame holds no
\* packet of an older one ("The collector was already reset").
ChunksBelongToFrame ==
    /\ latest_frame_expected - last_frame_consumed <= kMaxUnackedFrames
    /\ \A i \in Slots :
          /\ \A c \in queue[i].chunks : c.frame_id = queue[i].frame_id
          /\ (\A f \in (last_frame_consumed + 1) .. latest_frame_expected :
                SlotOf(f) # i) => queue[i].chunks = {}

\* Feedback is restored correctly from 8 bits and never applied out of order:
\* the Sender gives up a frame only if the Receiver has all of it, or has
\* decided to do without it.
NothingCanceledEarly ==
    /\ checkpoint_frame_id <= checkpoint_frame
    /\ \A f \in (checkpoint_frame_id + 1) .. last_enqueued_frame_id :
          \/ is_active_for_frame(f)
          \/ f <= checkpoint_frame
          \/ is_complete(Entry(f))

\* The Sender never believes that the Receiver knows of a frame it has not heard
\* of; or no kickstart packet would tell the Receiver of it.
KnownFramesAreExpected == latest_expected_frame_id <= latest_frame_expected

\* The CHECK in GetInFlightMediaDuration() and the DCHECK in
\* DispatchCancellations(): "the oldest slot's frame cannot have been canceled".
OldestFrameNeverCanceled == OldestFrameActive

\* The consumer is never left waiting: while there is a frame it could get now
\* or once the frames before it are late, a check is scheduled or the consumer
\* has been told.
NoLostWakeup ==
    LET Reachable(f) ==
            /\ IsReady(f)
            /\ \A g \in (last_frame_consumed + 1) .. (f - 1) : Entry(g).captured
    IN  /\ consumer
        /\ \E f \in (last_frame_consumed + 1) .. latest_frame_expected :
              Reachable(f)
        => consumption_alarm \/ frame_ready

\* The CHECK in ReportPlayoutEvent(): a frame that was consumed keeps its
\* capture time for as long as the report of its playout is accepted.
PlayoutReportable ==
    \A f \in first .. last_frame_consumed :
        f > latest_frame_expected - kMaxUnackedFrames => Entry(f).captured

\* Sender and Receiver agree on the target playout delay: feedback on a frame at
\* or after the last change reports the Sender's own delay, so that the warning
\* in OnReceiverCheckpoint() is never logged.
PlayoutDelaysAgree ==
    \A i \in (rtcp_stale + 1) .. Len(rtcp_net) :
        FeedbackCheckpoint(rtcp_net[i]) >= playout_delay_change_at_frame_id
            => rtcp_net[i].playout_delay = target_playout_delay

\* The frame the consumer got last, if it was a whole and unaltered one.
DeliveredFrame ==
    LET Frames == {[frame_id |-> c.frame_id, kind |-> c.kind] : c \in last_delivered}
        F == CHOOSE x \in Frames : TRUE
        NoFrameOf(what) ==
            [frame_id |-> -1, kind |-> [packets |-> 0, dependency |-> what,
                                        new_playout_delay |-> 0]]
    IN  IF last_delivered = {} THEN NoFrameOf("none")
        ELSE IF Cardinality(Frames) = 1 /\ Cardinality(last_delivered) = F.kind.packets
        THEN F ELSE NoFrameOf("corrupt")

\* The session implements FrameDelivery.
Delivery == INSTANCE FrameDelivery WITH delivered <- DeliveredFrame
ImplementsFrameDelivery == Delivery!Spec

\* However many packets are lost, every frame that was enqueued is in the end
\* delivered or skipped, and the Sender is in the end told so.
EveryFrameSettled(f) ==
    last_enqueued_frame_id >= f
        ~> last_frame_consumed >= f /\ checkpoint_frame_id >= f

-----------------------------------------------------------------------------
(* A statement of the code that does not hold *)

\* "While incomplete frames exist in the queue, send RTCP packets (with ACK/NACK
\* feedback) frequently."
NackFeedbackIsFrequent ==
    [][ReportAgain /\ FeedbackMessage.nacks # {}
         => rtcp_alarm' = "kNackFeedbackInterval"]_vars
=============================================================================
