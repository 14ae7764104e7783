---------------------------- MODULE CastReceiver ----------------------------
(***************************************************************************)
(* The Cast Streaming Receiver, ReceiverImpl: packets are collected into a *)
(* ring of frames, the checkpoint follows the frames that are complete,    *)
(* and the consumer (a decoder) is told when it may take the next frame.   *)
(* Late incomplete frames are skipped when an independent frame follows.   *)
(*                                                                         *)
(* Times are abstracted.  A frame with a known capture time becomes late   *)
(* at some moment the clock decides; the alarms are flags that say whether *)
(* a task is scheduled.                                                    *)
(***************************************************************************)
EXTENDS StreamingDefs

VARIABLES
    queue,                    \* ReceiverImpl::pending_frames_
    latest_frame_expected,
    last_frame_consumed,
    checkpoint_frame,         \* held by the CompoundRtcpBuilder
    playout_delay,            \* to be reported, in the CompoundRtcpBuilder
    picture_loss_indicator,   \* to be reported, in the CompoundRtcpBuilder
    playout_delay_changes,    \* set of <<frame ID, delay>>
    last_key_frame_received,
    last_sender_report,       \* whether a Sender Report has been received
    highest_rtp_frame_id,     \* RtpPacketParser's base for expansion
    consumer,                 \* whether SetConsumer() was called
    consumption_alarm,        \* a frame-ready check is scheduled
    frame_ready,              \* the consumer was told it may consume
    rtcp_alarm                \* how soon SendRtcp() will run again

receiver_vars == <<queue, latest_frame_expected, last_frame_consumed,
                   checkpoint_frame, playout_delay, picture_loss_indicator,
                   playout_delay_changes, last_key_frame_received,
                   last_sender_report, highest_rtp_frame_id, consumer,
                   consumption_alarm, frame_ready, rtcp_alarm>>

null_frame == leader - 1      \* FrameId(), smaller than any other

-----------------------------------------------------------------------------
(* The queue.  An entry is a FrameCollector and an estimated capture time. *)

\* chunks: the packets collected.  captured: estimated_capture_time is set.
QueueEntry == [frame_id : FrameId \cup {null_frame}, chunks : SUBSET RtpPacket,
               captured : BOOLEAN]

Entry(f) == queue[SlotOf(f)]

\* The packet count came with the first packet collected.
PacketCount(e) == (CHOOSE c \in e.chunks : TRUE).kind.packets

is_complete(e) == e.chunks # {} /\ Cardinality(e.chunks) = PacketCount(e)

\* The metadata of a complete frame came in packet 0.
Metadata(e) == (CHOOSE c \in e.chunks : c.packet_id = 0).kind

\* FrameCollector::CollectRtpPacket(): the packet must belong to the frame and
\* agree on its packet count; one collected before changes nothing.
CanCollect(e, f, pkt) ==
    /\ e.frame_id = f
    /\ e.chunks # {} => PacketCount(e) = pkt.kind.packets
CollectRtpPacket(e, pkt) ==
    IF \E c \in e.chunks : c.packet_id = pkt.packet_id THEN e
    ELSE [e EXCEPT !.chunks = @ \cup {pkt}]

\* Mutant: the capture time is reset with the collector.
ResetMutant(e) == [e EXCEPT !.frame_id = null_frame, !.chunks = {},
                            !.captured = FALSE]
\* FrameCollector::Reset(), "and leave the estimated_capture_time".
Reset(e) == [e EXCEPT !.frame_id = null_frame, !.chunks = {}]

\* FrameCollector::GetMissingPackets(), with wire frame IDs.
GetMissingPackets(f) ==
    LET e == Entry(f)
        missing == (0 .. (PacketCount(e) - 1)) \ {c.packet_id : c \in e.chunks}
    IN  {lower_8_bits(f)} \X (IF e.chunks = {} THEN {kAllPacketsLost}
                              ELSE missing)

-----------------------------------------------------------------------------
(* Target playout delays *)

\* The first frame that ResolveTargetPlayoutDelay() may be asked about.
first_possible == IF last_frame_consumed > first + kMaxUnackedFrames
                  THEN last_frame_consumed - kMaxUnackedFrames ELSE first

\* Mutant: a change is not applied to the frame that carries it.
ResolveTargetPlayoutDelayMutant(changes, f) ==
    (CHOOSE c \in changes :
        /\ c[1] < f \/ c[1] = leader
        /\ \A d \in changes : d[1] < f => d[1] <= c[1])[2]
\* The latest change at or before frame f.
ResolveTargetPlayoutDelay(changes, f) ==
    (CHOOSE c \in changes :
        /\ c[1] <= f
        /\ \A d \in changes : d[1] <= f => d[1] <= c[1])[2]

\* Changes that no frame in the queue can depend on are pruned first.
RecordNewTargetPlayoutDelay(f, delay) ==
    LET next_frame == last_frame_consumed - kMaxUnackedFrames + 1
        pruned == {c \in playout_delay_changes :
                     \E d \in playout_delay_changes :
                        c[1] < d[1] /\ d[1] <= next_frame}
    IN  (playout_delay_changes \ pruned) \cup {<<f, delay>>}

-----------------------------------------------------------------------------
(* RTCP *)

\* The bit that stands for frame f in the CST2 ACK bit vector.
AckBit(f) == f - checkpoint_frame - 2

\* What SendRtcp() puts in a packet in the current state.
FeedbackMessage ==
    LET frames == (checkpoint_frame + 1) .. latest_frame_expected
        complete == {f \in frames : is_complete(Entry(f))}
    IN  [checkpoint |-> lower_8_bits(checkpoint_frame),
         playout_delay |-> playout_delay,
         acks |-> {AckBit(f) : f \in complete \ {checkpoint_frame + 1}},
         nacks |-> UNION {GetMissingPackets(f) : f \in frames \ complete},
         pli |-> picture_loss_indicator]

\* SendRtcp(): the packet is FeedbackMessage in the state after the step.  The
\* interval to the next one is chosen by the NACK vector after it was moved
\* into the packet builder, which leaves it empty.
NacksLeft == {}
SendRtcp ==
    rtcp_alarm' = IF NacksLeft = {} THEN "kRtcpReportInterval"
                  ELSE "kNackFeedbackInterval"

\* Mutant: frames that were completed earlier are not counted.
ExtendsToMutant(c, new_checkpoint, q, expected) == c = new_checkpoint
\* Starting from new_checkpoint, the checkpoint moves over the complete frames up
\* to c.  q is the queue at that point.
ExtendsTo(c, new_checkpoint, q, expected) ==
    /\ c \in new_checkpoint .. expected
    /\ \A f \in (new_checkpoint + 1) .. c : is_complete(q[SlotOf(f)])
    /\ c < expected => ~is_complete(q[SlotOf(c + 1)])

AdvanceCheckpoint(new_checkpoint, q, expected, changes) ==
    \E c \in new_checkpoint .. expected :
        /\ ExtendsTo(c, new_checkpoint, q, expected)
        /\ checkpoint_frame' = c
        /\ playout_delay' = ResolveTargetPlayoutDelay(changes, c)
        /\ SendRtcp

-----------------------------------------------------------------------------
(* Operations *)

ReceiverInit ==
    /\ queue = [i \in Slots |-> [frame_id |-> null_frame, chunks |-> {},
                                 captured |-> FALSE]]
    /\ latest_frame_expected = leader
    /\ last_frame_consumed = leader
    /\ checkpoint_frame = leader
    /\ playout_delay = InitialPlayoutDelay
    /\ picture_loss_indicator = FALSE
    /\ playout_delay_changes = {<<leader, InitialPlayoutDelay>>}
    /\ last_key_frame_received = null_frame
    /\ last_sender_report = FALSE
    /\ highest_rtp_frame_id = first
    /\ consumer = FALSE
    /\ consumption_alarm = FALSE
    /\ frame_ready = FALSE
    /\ rtcp_alarm = "never"

SetConsumer ==
    /\ ~consumer
    /\ consumer' = TRUE
    /\ consumption_alarm' = TRUE
    /\ UNCHANGED <<queue, latest_frame_expected, last_frame_consumed,
                   checkpoint_frame, playout_delay, picture_loss_indicator,
                   playout_delay_changes, last_key_frame_received,
                   last_sender_report, highest_rtp_frame_id, frame_ready,
                   rtcp_alarm>>

\* RequestKeyFrame() when it has an effect.
RequestKeyFrame ==
    /\ last_key_frame_received # null_frame
    /\ last_frame_consumed >= last_key_frame_received
    /\ ~picture_loss_indicator
    /\ picture_loss_indicator' = TRUE
    /\ SendRtcp
    /\ UNCHANGED <<queue, latest_frame_expected, last_frame_consumed,
                   checkpoint_frame, playout_delay, playout_delay_changes,
                   last_key_frame_received, last_sender_report,
                   highest_rtp_frame_id, consumer, consumption_alarm,
                   frame_ready>>

\* Mutants: incomplete frames are ready; dependent frames may follow a gap.
IsReadyMutant(f) ==
    /\ Entry(f).captured
    /\ \/ f = last_frame_consumed + 1
       \/ Metadata(Entry(f)).dependency # "dependent"
IsReadyMutant2(f) == is_complete(Entry(f))
\* The frame may be consumed, after skipping the ones before it.
IsReady(f) ==
    /\ is_complete(Entry(f))
    /\ \/ f = last_frame_consumed + 1
       \/ Metadata(Entry(f)).dependency # "dependent"

\* The frame at which AdvanceToNextFrame() stops its scan, when the frames up to
\* and including "late" are past their playout time: either ready for
\* consumption, or one that may not be skipped.
MaySkip(f, late) == ~IsReady(f) /\ Entry(f).captured /\ f <= late
StopsAt(f, late) ==
    /\ f \in (last_frame_consumed + 1) .. latest_frame_expected
    /\ \A g \in (last_frame_consumed + 1) .. (f - 1) : MaySkip(g, late)
    /\ ~MaySkip(f, late)

\* The consumption alarm fires with a consumer, and AdvanceToNextFrame() finds
\* the next frame ready.
NextFrameReady ==
    /\ consumption_alarm /\ consumer
    /\ StopsAt(last_frame_consumed + 1, last_frame_consumed)
    /\ IsReady(last_frame_consumed + 1)
    /\ consumption_alarm' = FALSE
    /\ frame_ready' = TRUE
    /\ UNCHANGED <<queue, latest_frame_expected, last_frame_consumed,
                   checkpoint_frame, playout_delay, picture_loss_indicator,
                   playout_delay_changes, last_key_frame_received,
                   last_sender_report, highest_rtp_frame_id, consumer,
                   rtcp_alarm>>

\* It finds a later independent frame: DropAllFramesBefore().
SkipToFrame(f, late) ==
    /\ consumption_alarm /\ consumer
    /\ StopsAt(f, late)
    /\ IsReady(f)
    /\ f # last_frame_consumed + 1
    /\ queue' = [i \in Slots |->
                   IF queue[i].frame_id \in (last_frame_consumed + 1) .. (f - 1)
                   THEN Reset(queue[i]) ELSE queue[i]]
    /\ last_frame_consumed' = f - 1
    /\ AdvanceCheckpoint(f, queue', latest_frame_expected,
                         playout_delay_changes)
    /\ consumption_alarm' = FALSE
    /\ frame_ready' = TRUE
    /\ UNCHANGED <<latest_frame_expected, picture_loss_indicator,
                   playout_delay_changes, last_key_frame_received,
                   last_sender_report, highest_rtp_frame_id, consumer>>

\* Mutant: no check is scheduled for the time the frame will be late.
ChecksAgainMutant(late) == FALSE
\* A frame that may be skipped once it is late has the check scheduled again,
\* for that time.
ChecksAgain(late) ==
    \E f \in (last_frame_consumed + 1) .. latest_frame_expected :
        StopsAt(f, late) /\ Entry(f).captured

\* It finds nothing, or there is no consumer.
NoFrameReady(late) ==
    /\ consumption_alarm
    /\ \A f \in (last_frame_consumed + 1) .. latest_frame_expected :
          consumer /\ StopsAt(f, late) => ~IsReady(f)
    /\ consumption_alarm' = (consumer /\ ChecksAgain(late))
    /\ UNCHANGED <<queue, latest_frame_expected, last_frame_consumed,
                   checkpoint_frame, playout_delay, picture_loss_indicator,
                   playout_delay_changes, last_key_frame_received,
                   last_sender_report, highest_rtp_frame_id, consumer,
                   frame_ready, rtcp_alarm>>

\* The consumer takes the frame it was told of.
ConsumeNextFrame ==
    /\ frame_ready
    /\ queue' = [queue EXCEPT ![SlotOf(last_frame_consumed + 1)] = Reset(@)]
    /\ last_frame_consumed' = last_frame_consumed + 1
    /\ consumption_alarm' = TRUE
    /\ frame_ready' = FALSE
    /\ UNCHANGED <<latest_frame_expected, checkpoint_frame, playout_delay,
                   picture_loss_indicator, playout_delay_changes,
                   last_key_frame_received, last_sender_report,
                   highest_rtp_frame_id, consumer, rtcp_alarm>>

-----------------------------------------------------------------------------
(* OnReceivedRtpPacket(), one action per outcome *)

\* RtpPacketParser::Parse(): the frame ID from its low bits.
ParsedFrameId(pkt) == Expand(highest_rtp_frame_id, lower_8_bits(pkt.frame_id))
ParseRtpPacket(pkt) ==
    highest_rtp_frame_id' = IF ParsedFrameId(pkt) > highest_rtp_frame_id
                            THEN ParsedFrameId(pkt) ELSE highest_rtp_frame_id

\* Mutant: the limit is off by one.
IsOfNoInterestMutant(f) ==
    \/ f <= checkpoint_frame
    \/ /\ f > latest_frame_expected
       /\ f > last_frame_consumed + kMaxUnackedFrames + 1
\* The frame is done with, or too far ahead for the queue.
IsOfNoInterest(f) ==
    \/ f <= checkpoint_frame
    \/ /\ f > latest_frame_expected
       /\ f > last_frame_consumed + kMaxUnackedFrames

\* The queue with room made for the frames up to f.  The collectors of the new
\* ones are taken to be reset already.
DiscoverFrames(f) ==
    [i \in Slots |->
        IF \E g \in (latest_frame_expected + 1) .. f : SlotOf(g) = i
        THEN [queue[i] EXCEPT
                !.frame_id = CHOOSE g \in (latest_frame_expected + 1) .. f :
                               SlotOf(g) = i,
                !.captured = FALSE]
        ELSE queue[i]]
ExpectFrame(f) ==
    latest_frame_expected' = IF f > latest_frame_expected THEN f
                             ELSE latest_frame_expected

\* The payload is of use: not packet 0 before the first Sender Report, not of a
\* complete frame, not inconsistent with the packets collected.
IsOfUse(pkt, f) ==
    LET e == DiscoverFrames(f)[SlotOf(f)]
    IN  /\ last_sender_report \/ pkt.packet_id # 0
        /\ ~is_complete(e)
        /\ CanCollect(e, f, pkt)

IgnoreRtpPacket(pkt) ==
    /\ IsOfNoInterest(ParsedFrameId(pkt))
    /\ ParseRtpPacket(pkt)
    /\ UNCHANGED <<queue, latest_frame_expected, last_frame_consumed,
                   checkpoint_frame, playout_delay, picture_loss_indicator,
                   playout_delay_changes, last_key_frame_received,
                   last_sender_report, consumer, consumption_alarm,
                   frame_ready, rtcp_alarm>>

\* The packet only tells that its frame exists.
DropRtpPacket(pkt) ==
    LET f == ParsedFrameId(pkt)
    IN  /\ ~IsOfNoInterest(f)
        /\ ~IsOfUse(pkt, f)
        /\ ParseRtpPacket(pkt)
        /\ ExpectFrame(f)
        /\ queue' = DiscoverFrames(f)
        /\ UNCHANGED <<last_frame_consumed, checkpoint_frame, playout_delay,
                       picture_loss_indicator, playout_delay_changes,
                       last_key_frame_received, last_sender_report, consumer,
                       consumption_alarm, frame_ready, rtcp_alarm>>

\* The queue and the playout delay changes once the packet is collected.
Collected(pkt, f) ==
    LET e == CollectRtpPacket(DiscoverFrames(f)[SlotOf(f)], pkt)
    IN  [DiscoverFrames(f) EXCEPT
           ![SlotOf(f)] = [e EXCEPT !.captured = @ \/ pkt.packet_id = 0]]
GivesCaptureTime(pkt, f) ==
    pkt.packet_id = 0 /\ ~DiscoverFrames(f)[SlotOf(f)].captured
ChangesAfter(pkt, f) ==
    IF GivesCaptureTime(pkt, f) /\ pkt.kind.new_playout_delay > 0
    THEN RecordNewTargetPlayoutDelay(f, pkt.kind.new_playout_delay)
    ELSE playout_delay_changes

\* The frame remains incomplete.
CollectPartOfFrame(pkt) ==
    LET f == ParsedFrameId(pkt)
    IN  /\ ~IsOfNoInterest(f)
        /\ IsOfUse(pkt, f)
        /\ ~is_complete(Collected(pkt, f)[SlotOf(f)])
        /\ ParseRtpPacket(pkt)
        /\ ExpectFrame(f)
        /\ queue' = Collected(pkt, f)
        /\ playout_delay_changes' = ChangesAfter(pkt, f)
        /\ consumption_alarm' = (consumption_alarm \/ GivesCaptureTime(pkt, f))
        /\ UNCHANGED <<last_frame_consumed, checkpoint_frame, playout_delay,
                       picture_loss_indicator, last_key_frame_received,
                       last_sender_report, consumer, frame_ready, rtcp_alarm>>

\* The frame is complete, and moves the checkpoint if it is the next one.
CompleteFrame(pkt) ==
    LET f == ParsedFrameId(pkt)
        e == Collected(pkt, f)[SlotOf(f)]
        key == Metadata(e).dependency = "key"
    IN  /\ ~IsOfNoInterest(f)
        /\ IsOfUse(pkt, f)
        /\ is_complete(e)
        /\ ParseRtpPacket(pkt)
        /\ ExpectFrame(f)
        /\ queue' = Collected(pkt, f)
        /\ playout_delay_changes' = ChangesAfter(pkt, f)
        /\ picture_loss_indicator' = (picture_loss_indicator /\ ~key)
        /\ last_key_frame_received' = IF key THEN f
                                      ELSE last_key_frame_received
        /\ IF f = checkpoint_frame + 1
           THEN AdvanceCheckpoint(f, queue', latest_frame_expected',
                                  playout_delay_changes')
           ELSE UNCHANGED <<checkpoint_frame, playout_delay, rtcp_alarm>>
        /\ consumption_alarm' = TRUE
        /\ UNCHANGED <<last_frame_consumed, last_sender_report, consumer,
                       frame_ready>>

OnReceivedRtpPacket(pkt) ==
    \/ IgnoreRtpPacket(pkt)
    \/ DropRtpPacket(pkt)
    \/ CollectPartOfFrame(pkt)
    \/ CompleteFrame(pkt)

\* A Sender Report.
OnReceivedRtcpPacketFromSender ==
    /\ last_sender_report' = TRUE
    /\ SendRtcp
    /\ UNCHANGED <<queue, latest_frame_expected, last_frame_consumed,
                   checkpoint_frame, playout_delay, picture_loss_indicator,
                   playout_delay_changes, last_key_frame_received,
                   highest_rtp_frame_id, consumer, consumption_alarm,
                   frame_ready>>

\* The RTCP alarm fires.
RtcpAlarmFires ==
    /\ rtcp_alarm # "never"
    /\ SendRtcp
    /\ UNCHANGED <<queue, latest_frame_expected, last_frame_consumed,
                   checkpoint_frame, playout_delay, picture_loss_indicator,
                   playout_delay_changes, last_key_frame_received,
                   last_sender_report, highest_rtp_frame_id, consumer,
                   consumption_alarm, frame_ready>>
=============================================================================
