-------------------------- MODULE StreamingSteps ----------------------------
(***************************************************************************)
(* Reports, checks for a frame, skipping to a frame and consuming one keep *)
(* the invariant of a streaming session; and what a packet does to the     *)
(* queue and to the record of playout delays.                              *)
(***************************************************************************)
EXTENDS StreamingLemmas

-----------------------------------------------------------------------------
(* Steps that leave the queue alone *)

\* A Sender Report, the RTCP alarm, RequestKeyFrame(): feedback is sent, and nothing
\* changes about the frames.
LEMMA ReportInvariant ==
    ASSUME SetFacts, StreamingInv, ReceiveSenderReport \/ ReportAgain \/ DecoderLosesPicture
    PROVE  StreamingInv'
  <1>1. /\ UNCHANGED <<sender_vars, enqueued, last_delivered, QueueVars, playout_delay,
                       playout_delay_changes, last_key_frame_received, highest_rtp_frame_id,
                       consumer, consumption_alarm, frame_ready, rtp_net>>
        /\ Sends
        /\ picture_loss_indicator' \in {TRUE, picture_loss_indicator}
        /\ last_sender_report' \in {TRUE, last_sender_report}
    BY Zenon DEF ReceiveSenderReport, ReportAgain, DecoderLosesPicture, Sends, QueueVars,
           OnReceivedRtcpPacketFromSender, RtcpAlarmFires, RequestKeyFrame
  <1>2. ReceiverTypeOK' /\ FramesInOrder'
    <2>1. picture_loss_indicator' \in BOOLEAN /\ last_sender_report' \in BOOLEAN
      BY <1>1, Zenon DEF StreamingInv, Both, Core, ReceiverTypeOK
    <2> QED
      BY <1>1, <2>1 DEF QueueVars, sender_vars, StreamingInv, Both, Core, ReceiverTypeOK, FramesInOrder
  <1>3. NoLostWakeup'
    BY <1>1, ReachableKept, WakeupKept DEF StreamingInv
  <1>4. frame_ready' => last_frame_consumed < checkpoint_frame
    BY <1>1 DEF StreamingInv, Both, CheckpointSound
  <1> QED
    BY <1>1, <1>2, <1>3, <1>4, QuietStep

\* SetConsumer() schedules a check.
LEMMA AttachInvariant ==
    ASSUME SetFacts, StreamingInv, AttachConsumer
    PROVE  StreamingInv'
  <1>1. /\ UNCHANGED <<sender_vars, enqueued, last_delivered, QueueVars, playout_delay,
                       playout_delay_changes, last_key_frame_received, highest_rtp_frame_id,
                       picture_loss_indicator, last_sender_report, frame_ready,
                       rtp_net, rtcp_net, rtcp_stale>>
        /\ consumer' = TRUE /\ consumption_alarm' = TRUE
    BY DEF AttachConsumer, SetConsumer, SendsNothing, net_vars, QueueVars
  <1>2. ReceiverTypeOK' /\ FramesInOrder'
    BY <1>1 DEF QueueVars, sender_vars, StreamingInv, Both, Core, ReceiverTypeOK, FramesInOrder
  <1>3. NoLostWakeup'
    BY <1>1 DEF NoLostWakeup
  <1>4. frame_ready' => last_frame_consumed < checkpoint_frame
    BY <1>1 DEF StreamingInv, Both, CheckpointSound
  <1> QED
    BY <1>1, <1>2, <1>3, <1>4, QuietStep

\* The next frame is ready only when the checkpoint has passed it.
LEMMA NextReadyInvariant ==
    ASSUME SetFacts, StreamingInv, NextFrameReady, SendsIfCheckpointMoves,
           UNCHANGED <<sender_vars, enqueued, last_delivered>>
    PROVE  StreamingInv'
  <1>1. /\ UNCHANGED <<QueueVars, playout_delay, playout_delay_changes,
                       last_key_frame_received, highest_rtp_frame_id,
                       picture_loss_indicator, last_sender_report, consumer,
                       rtp_net, rtcp_net, rtcp_stale>>
        /\ frame_ready' = TRUE /\ consumption_alarm' = FALSE
    BY DEF NextFrameReady, SendsIfCheckpointMoves, SendsNothing, net_vars, QueueVars
  <1>2. ReceiverTypeOK' /\ FramesInOrder'
    BY <1>1, Zenon DEF QueueVars, sender_vars, StreamingInv, Both, Core, ReceiverTypeOK, FramesInOrder
  <1>3. NoLostWakeup'
    BY <1>1 DEF NoLostWakeup
  <1>4. last_frame_consumed < checkpoint_frame
    <2>1. NumbersOK
      BY Numbers DEF StreamingInv, Both
    <2>2. /\ last_frame_consumed + 1 \in (last_frame_consumed + 1) .. latest_frame_expected
          /\ is_complete(Entry(last_frame_consumed + 1))
      BY DEF NextFrameReady, StopsAt, IsReady
    <2> QED
      BY <2>1, <2>2 DEF NumbersOK, StreamingInv, Both, CheckpointSound
  <1> QED
    BY <1>1, <1>2, <1>3, <1>4, QuietStep

\* When no frame is ready but one will be, once the frames before it are late, the
\* check is scheduled again: the scan stops at a frame with a capture time.
LEMMA NoneReadyInvariant ==
    ASSUME SetFacts, StreamingInv, NEW late \in Int, NoFrameReady(late), SendsIfCheckpointMoves,
           UNCHANGED <<sender_vars, enqueued, last_delivered>>
    PROVE  StreamingInv'
  <1>1. /\ UNCHANGED <<QueueVars, playout_delay, playout_delay_changes,
                       last_key_frame_received, highest_rtp_frame_id,
                       picture_loss_indicator, last_sender_report, consumer, frame_ready,
                       rtp_net, rtcp_net, rtcp_stale>>
        /\ consumption_alarm' = (consumer /\ ChecksAgain(late))
    BY DEF NoFrameReady, SendsIfCheckpointMoves, SendsNothing, net_vars, QueueVars
  <1>2. ReceiverTypeOK' /\ FramesInOrder'
    <2>1. consumption_alarm' \in BOOLEAN
      BY <1>1
    <2> QED
      BY <1>1, <2>1
      DEF QueueVars, sender_vars, StreamingInv, Both, Core, ReceiverTypeOK, FramesInOrder
  <1>3. NumbersOK
    BY Numbers DEF StreamingInv, Both
  <1>4. ASSUME consumer, NEW f, Reachable(f)
        PROVE  ChecksAgain(late)
    <2> DEFINE S == {g \in Window : ~MaySkip(g, late)}
    <2>1. f \in S
      BY <1>4 DEF Reachable, MaySkip
    <2>2. S \in SUBSET Int /\ last_frame_consumed + 1 \in Int
          /\ \A g \in S : last_frame_consumed + 1 <= g
      BY <1>3 DEF Window, NumbersOK
    <2>3. PICK g \in S : \A h \in S : g <= h
      <3> HIDE DEF S
      <3> QED
        BY <2>1, <2>2, LeastExists, Zenon
    <2>4. g \in Window /\ g \in Int /\ ~MaySkip(g, late) /\ g <= f /\ f \in Int
      BY <2>1, <2>2, <2>3
    <2>5. \A h \in (last_frame_consumed + 1) .. (g - 1) : MaySkip(h, late)
      <3>1. \A h \in (last_frame_consumed + 1) .. (g - 1) : h \in Window /\ ~(g <= h)
        BY <1>3, <2>4 DEF Window, NumbersOK
      <3> QED
        BY <2>3, <3>1
    <2>6. StopsAt(g, late)
      BY <2>4, <2>5 DEF StopsAt, Window
    <2>7. ~IsReady(g)
      BY <1>4, <2>4, <2>6 DEF NoFrameReady, Window
    <2>8. g # f
      BY <1>4, <2>7 DEF Reachable
    <2>9. g \in (last_frame_consumed + 1) .. (f - 1)
      BY <1>3, <2>4, <2>8 DEF Window, NumbersOK
    <2>10. Entry(g).captured
      BY <1>4, <2>9 DEF Reachable
    <2> QED
      BY <2>4, <2>6, <2>10 DEF ChecksAgain, Window
  <1>5. NoLostWakeup'
    <2>1. (NoLostWakeup <=> (consumer /\ (\E f : Reachable(f)) => consumption_alarm \/ frame_ready))'
      BY WakeupMeaning, PTL
    <2>2. \A f : Reachable(f)' = Reachable(f)
      BY <1>1, ReachableKept
    <2> QED
      BY <1>1, <1>4, <2>1, <2>2, Zenon
  <1>6. frame_ready' => last_frame_consumed < checkpoint_frame
    BY <1>1 DEF StreamingInv, Both, CheckpointSound
  <1> QED
    BY <1>1, <1>2, <1>5, <1>6, QuietStep

-----------------------------------------------------------------------------
(* Steps that take frames from the queue *)

\* The Receiver is done with the frames up to n.
Release(n) ==
    /\ queue' = [i \in Slots |-> IF queue[i].frame_id \in (last_frame_consumed + 1) .. n
                                 THEN Reset(queue[i]) ELSE queue[i]]
    /\ last_frame_consumed' = n
    /\ UNCHANGED <<latest_frame_expected, enqueued>>

\* Only the entries of these frames change, and keep their capture times.
LEMMA ReleaseFacts ==
    ASSUME SetFacts, Core, NEW n \in Window, Release(n)
    PROVE  /\ QueueSound' /\ queue' \in [Slots -> QueueEntry]
           /\ \A h \in Window : h > n => queue'[SlotOf(h)] = Entry(h)
           /\ \A i \in Slots : queue'[i].captured = queue[i].captured
  <1>1. NumbersOK /\ n \in Int /\ null_frame = -2
    BY Numbers, Sizes DEF Window, NumbersOK, null_frame
  <1>2. \A i \in Slots :
           queue'[i] = IF queue[i].frame_id \in (last_frame_consumed + 1) .. n
                       THEN Reset(queue[i]) ELSE queue[i]
    BY DEF Release
  <1>3. \A i \in Slots : queue[i] \in QueueEntry
    BY DEF Core, ReceiverTypeOK
  <1>4. ASSUME NEW i \in Slots
        PROVE  /\ Reset(queue[i]) \in QueueEntry
               /\ Reset(queue[i]).frame_id = null_frame /\ Reset(queue[i]).chunks = {}
               /\ Reset(queue[i]).captured = queue[i].captured
    BY <1>3, Zenon DEF Reset, QueueEntry
  <1>5. queue' \in [Slots -> QueueEntry]
    <2>1. \A i \in Slots : queue'[i] \in QueueEntry
      BY <1>2, <1>3, <1>4
    <2>2. queue' = [i \in Slots |-> queue'[i]]
      BY DEF Release
    <2> QED
      BY <2>1, <2>2
  <1>6. \A i \in Slots : queue'[i].captured = queue[i].captured
    BY <1>2, <1>4
  <1>7. ASSUME NEW h \in Window, h > n
        PROVE  queue'[SlotOf(h)] = Entry(h)
    <2>1. SlotOf(h) \in Slots /\ Entry(h).frame_id = h /\ h \in Int
      BY WindowEntries, Zenon DEF EntryOK
    <2>2. ~(h \in (last_frame_consumed + 1) .. n)
      BY <1>1, <1>7, <2>1 DEF NumbersOK
    <2> QED
      BY <1>2, <2>1, <2>2 DEF Entry
  <1>8. QueueSound'
    <2>1. /\ Window' = (n + 1) .. latest_frame_expected
          /\ \A h : FramePackets(h)' = FramePackets(h)
      BY DEF Window, Release, FramePackets, KindOf, Cut
    <2>2. \A h \in (n + 1) .. latest_frame_expected : h \in Window /\ h > n
      BY <1>1 DEF Window, NumbersOK
    <2>3. \A h \in Window' : queue'[SlotOf(h)].frame_id = h
      BY <1>7, <2>1, <2>2, WindowEntries, Zenon DEF EntryOK
    <2>4. ASSUME NEW i \in Slots
          PROVE  \/ queue'[i].frame_id = null_frame /\ queue'[i].chunks = {}
                 \/ /\ queue'[i].frame_id \in Window'
                    /\ SlotOf(queue'[i].frame_id) = i
                    /\ queue'[i].chunks \subseteq FramePackets(queue'[i].frame_id)
                    /\ queue'[i].captured = (\E c \in queue'[i].chunks : c.packet_id = 0)
      <3>1. CASE queue[i].frame_id \in (last_frame_consumed + 1) .. n
        BY <1>2, <1>4, <3>1, Zenon
      <3>2. CASE ~(queue[i].frame_id \in (last_frame_consumed + 1) .. n)
        <4>1. queue'[i] = queue[i]
          BY <1>2, <3>2
        <4>2. queue[i].frame_id \in Window
                 => queue[i].frame_id \in (n + 1) .. latest_frame_expected
          BY <1>1, <3>2 DEF Window, NumbersOK
        <4> QED
          BY <2>1, <4>1, <4>2, Zenon DEF Core, QueueSound
      <3> QED
        BY <3>1, <3>2, Zenon
    <2> QED
      BY <2>1, <2>3, <2>4, Zenon DEF QueueSound, Entry, SlotOf, null_frame
  <1> QED
    BY <1>5, <1>6, <1>7, <1>8

\* The Receiver is done with the frames up to n, which have capture times.  The
\* checkpoint is at n or beyond, and exact.
LEMMA ReleaseStep ==
    ASSUME SetFacts, StreamingInv, NEW n \in Window, Release(n),
           \A g \in (last_frame_consumed + 1) .. n : Entry(g).captured,
           Sends \/ UNCHANGED <<rtcp_net, rtcp_stale>>,
           UNCHANGED <<sender_vars, rtp_net, highest_rtp_frame_id, consumer,
                       last_sender_report, picture_loss_indicator, last_key_frame_received,
                       playout_delay_changes>>,
           consumption_alarm' \in BOOLEAN, frame_ready' \in BOOLEAN,
           frame_ready' => n < checkpoint_frame',
           checkpoint_frame <= checkpoint_frame',
           checkpoint_frame' \in n .. latest_frame_expected,
           \A h \in (n + 1) .. checkpoint_frame' : is_complete(Entry(h)),
           checkpoint_frame' < latest_frame_expected
              => ~is_complete(Entry(checkpoint_frame' + 1)),
           \/ UNCHANGED <<checkpoint_frame, playout_delay>>
           \/ playout_delay' = ResolveTargetPlayoutDelay(playout_delay_changes,
                                                         checkpoint_frame'),
           DeliveredSound', NoLostWakeup'
    PROVE  StreamingInv'
  <1>1. Core /\ NumbersOK /\ DelaysSound
    BY Numbers DEF StreamingInv, Both
  <1>2. /\ n \in Int /\ last_frame_consumed < n /\ n <= latest_frame_expected
        /\ checkpoint_frame' \in Int /\ n <= checkpoint_frame'
        /\ checkpoint_frame' <= latest_frame_expected
    BY <1>1 DEF Window, NumbersOK
  <1>3. /\ QueueSound' /\ queue' \in [Slots -> QueueEntry]
        /\ \A h \in Window : h > n => queue'[SlotOf(h)] = Entry(h)
        /\ \A i \in Slots : queue'[i].captured = queue[i].captured
    BY <1>1, ReleaseFacts, Zenon
  <1>4. /\ last_frame_consumed' = n /\ latest_frame_expected' = latest_frame_expected
        /\ enqueued' = enqueued
        /\ \A h : KindOf(h)' = KindOf(h)
        /\ \A h : Entry(h)' = queue'[SlotOf(h)]
        /\ \A h : is_complete(Entry(h))' = is_complete(queue'[SlotOf(h)])
    BY DEF Release, KindOf, Entry, SlotOf, is_complete, PacketCount
  <1>5. \A h \in (n + 1) .. latest_frame_expected : queue'[SlotOf(h)] = Entry(h)
    <2>1. \A h \in (n + 1) .. latest_frame_expected : h \in Window /\ h > n
      BY <1>1, <1>2 DEF Window, NumbersOK
    <2> QED
      BY <1>3, <2>1
  <1>6. CheckpointSound'
    <2>1. ASSUME NEW h \in (n + 1) .. checkpoint_frame'
          PROVE  is_complete(queue'[SlotOf(h)])
      <3>1. h \in (n + 1) .. latest_frame_expected
        BY <1>1, <1>2 DEF NumbersOK
      <3> QED
        BY <1>5, <3>1
    <2>2. checkpoint_frame' < latest_frame_expected
             => ~is_complete(queue'[SlotOf(checkpoint_frame' + 1)])
      <3>1. checkpoint_frame' < latest_frame_expected
               => checkpoint_frame' + 1 \in (n + 1) .. latest_frame_expected
        <4>1. latest_frame_expected \in Int
          BY <1>1 DEF NumbersOK
        <4>2. \A c \in Int : n <= c /\ c < latest_frame_expected
                 => c + 1 \in (n + 1) .. latest_frame_expected
          BY <1>2, <4>1
        <4> QED
          BY <1>2, <4>2, Zenon
      <3> QED
        BY <1>5, <3>1
    <2> QED
      BY <1>4, <2>1, <2>2, Zenon DEF CheckpointSound, Entry, SlotOf
  <1>7. Progress
    <2>1. ASSUME NEW h \in Int, Settled(h) PROVE Settled(h)'
      <3>1. CASE h <= checkpoint_frame \/ h <= n
        BY <1>1, <1>2, <3>1 DEF Settled, NumbersOK
      <3>2. CASE ~(h <= checkpoint_frame \/ h <= n)
        <4>1. h <= latest_frame_expected /\ is_complete(Entry(h))
          BY <2>1, <3>2 DEF Settled
        <4>2. h \in (n + 1) .. latest_frame_expected
          BY <1>1, <1>2, <2>1, <3>2, <4>1 DEF NumbersOK
        <4>3. is_complete(Entry(h))'
          BY <1>4, <1>5, <4>1, <4>2, Zenon
        <4> QED
          BY <1>4, <4>1, <4>3, Zenon DEF Settled
      <3> QED
        BY <3>1, <3>2
    <2> QED
      BY <1>1, <1>4, <2>1 DEF Progress, KindsKept, sender_vars, NumbersOK
  <1>8. DelaysSound' /\ playout_delay' \in Nat
    <2>1. ASSUME NEW g \in KnownToReceiver' PROVE g \in KnownToReceiver
      <3>1. /\ g \in first .. latest_frame_expected /\ g \in Int
            /\ g <= n \/ queue'[SlotOf(g)].captured
        BY <1>1, <1>4, Sizes DEF KnownToReceiver, NumbersOK
      <3>2. queue'[SlotOf(g)].captured = Entry(g).captured
        BY <1>3, <3>1, SlotOfType, Zenon DEF Entry
      <3>3. g <= n => g <= last_frame_consumed \/ g \in (last_frame_consumed + 1) .. n
        BY <1>1, <1>2, <3>1 DEF NumbersOK
      <3> QED
        BY <3>1, <3>2, <3>3, Zenon DEF KnownToReceiver
    <2>2. ASSUME NEW g \in first .. checkpoint_frame' PROVE g \in KnownToReceiver'
      <3>1. g \in Int /\ g \in first .. latest_frame_expected
            /\ (g <= n \/ g \in (n + 1) .. checkpoint_frame')
        BY <1>1, <1>2, Sizes DEF NumbersOK
      <3>2. CASE g \in (n + 1) .. checkpoint_frame'
        <4>1. g \in Window /\ is_complete(Entry(g)) /\ g \in (n + 1) .. latest_frame_expected
          BY <1>1, <1>2, <3>2 DEF Window, NumbersOK
        <4>2. Entry(g).captured
          BY <1>1, <4>1, WindowEntries, Zenon DEF EntryOK
        <4>3. queue'[SlotOf(g)].captured
          BY <1>5, <4>1, <4>2, Zenon
        <4> QED
          BY <1>4, <3>1, <4>3, Zenon DEF KnownToReceiver
      <3>3. CASE g <= n
        BY <1>4, <3>1, <3>3 DEF KnownToReceiver
      <3> QED
        BY <3>1, <3>2, <3>3, Zenon
    <2>3. PICK consumed, more : consumed = last_frame_consumed' /\ more = KnownToReceiver'
      OBVIOUS
    <2>4. ChangesOK(playout_delay_changes, consumed, latest_frame_expected, more)
      <3>1. /\ consumed \in Int /\ last_frame_consumed <= consumed
            /\ latest_frame_expected \in Int /\ latest_frame_expected <= latest_frame_expected
        BY <1>1, <1>2, <1>4, <2>3 DEF NumbersOK
      <3> QED
        BY <1>1, <2>1, <2>3, <3>1, ChangesKept, Zenon DEF DelaysSound
    <2>5. ChangesOK(playout_delay_changes', last_frame_consumed', latest_frame_expected',
                    KnownToReceiver')
      BY <1>4, <2>3, <2>4, Zenon
    <2>6. /\ last_frame_consumed' \in Int /\ latest_frame_expected' \in Int
          /\ checkpoint_frame' <= last_enqueued_frame_id
          /\ last_frame_consumed' <= checkpoint_frame' /\ leader <= checkpoint_frame'
      BY <1>1, <1>2, <1>4, Sizes DEF NumbersOK
    <2> QED
      BY <1>2, <1>4, <2>2, <2>5, <2>6, DelaysAfter, Zenon DEF StreamingInv
  <1>9. ReceiverTypeOK' /\ FramesInOrder'
    <2>1. /\ checkpoint_frame' \in FrameId /\ n \in FrameId
          /\ checkpoint_frame_id <= checkpoint_frame'
          /\ latest_frame_expected - n <= kMaxUnackedFrames
      BY <1>1, <1>2, Sizes DEF NumbersOK, FrameId
    <2>2. ReceiverTypeOK'
      BY <1>1, <1>3, <1>4, <1>8, <2>1, Zenon DEF Core, ReceiverTypeOK, null_frame
    <2> QED
      BY <1>1, <1>2, <1>4, <2>1, <2>2, Zenon DEF Core, FramesInOrder, sender_vars
  <1>10. PlayoutReportable'
    <2>1. ASSUME NEW h \in first .. n, h > latest_frame_expected - kMaxUnackedFrames
          PROVE  queue'[SlotOf(h)].captured
      <3>1. h \in Int /\ (h \in first .. last_frame_consumed
                          \/ h \in (last_frame_consumed + 1) .. n)
        BY <1>1, <1>2, Sizes DEF NumbersOK
      <3>2. Entry(h).captured
        BY <2>1, <3>1 DEF StreamingInv, PlayoutReportable
      <3> QED
        BY <1>3, <3>1, <3>2, SlotOfType, Zenon DEF Entry
    <2> QED
      BY <1>4, <2>1, Zenon DEF PlayoutReportable
  <1> QED
    BY <1>3, <1>4, <1>6, <1>7, <1>8, <1>9, <1>10, MovingStep, Zenon

\* Late frames are skipped only while the next frame is incomplete: the checkpoint is
\* then at the last frame consumed, and the consumer waits.
LEMMA SkipInvariant ==
    ASSUME SetFacts, StreamingInv, NEW late \in Int, NEW f, f = late + 1, SkipToFrame(f, late),
           SendsIfCheckpointMoves, UNCHANGED <<sender_vars, enqueued, last_delivered>>
    PROVE  StreamingInv'
  <1>1. Core /\ NumbersOK /\ CheckpointSound
    BY Numbers DEF StreamingInv, Both
  <1>2. /\ f \in (last_frame_consumed + 1) .. latest_frame_expected
        /\ \A g \in (last_frame_consumed + 1) .. (f - 1) : ~IsReady(g) /\ Entry(g).captured
        /\ IsReady(f) /\ f # last_frame_consumed + 1
        /\ frame_ready' = TRUE /\ consumption_alarm' = FALSE
        /\ AdvanceCheckpoint(f, queue', latest_frame_expected, playout_delay_changes)
        /\ UNCHANGED <<latest_frame_expected, picture_loss_indicator,
                       playout_delay_changes, last_key_frame_received,
                       last_sender_report, highest_rtp_frame_id, consumer>>
    BY DEF SkipToFrame, StopsAt, MaySkip
  <1>3. PICK n : n = f - 1
    OBVIOUS
  <1>4. /\ f \in Int /\ n \in Int /\ n + 1 = f /\ f \in Window /\ n \in Window
        /\ last_frame_consumed + 1 \in (last_frame_consumed + 1) .. (f - 1)
    BY <1>1, <1>2, <1>3 DEF Window, NumbersOK
  <1>5. checkpoint_frame = last_frame_consumed /\ ~frame_ready
    <2>1. ~is_complete(Entry(last_frame_consumed + 1))
      BY <1>2, <1>4 DEF IsReady
    <2>2. ~(last_frame_consumed < checkpoint_frame)
      <3>1. last_frame_consumed < checkpoint_frame
               => last_frame_consumed + 1 \in (last_frame_consumed + 1) .. checkpoint_frame
        BY <1>1 DEF NumbersOK
      <3> QED
        BY <1>1, <2>1, <3>1 DEF CheckpointSound
    <2> QED
      BY <1>1, <2>2 DEF CheckpointSound, NumbersOK
  <1>6. Release(n)
    BY <1>2, <1>3, Zenon DEF SkipToFrame, Release
  <1>7. \A h \in Window : h > n => queue'[SlotOf(h)] = Entry(h)
    BY <1>1, <1>4, <1>6, ReleaseFacts
  <1>8. /\ checkpoint_frame' \in f .. latest_frame_expected
        /\ \A h \in (f + 1) .. checkpoint_frame' : is_complete(queue'[SlotOf(h)])
        /\ checkpoint_frame' < latest_frame_expected
              => ~is_complete(queue'[SlotOf(checkpoint_frame' + 1)])
        /\ playout_delay' = ResolveTargetPlayoutDelay(playout_delay_changes, checkpoint_frame')
    BY <1>2 DEF AdvanceCheckpoint, ExtendsTo
  <1>9. /\ checkpoint_frame' \in n .. latest_frame_expected
        /\ checkpoint_frame <= checkpoint_frame' /\ n < checkpoint_frame'
        /\ checkpoint_frame' \in Int /\ checkpoint_frame' <= latest_frame_expected
        /\ last_frame_consumed < f
    BY <1>1, <1>2, <1>4, <1>5, <1>8 DEF NumbersOK
  <1>10. ASSUME NEW h \in (n + 1) .. checkpoint_frame'
         PROVE  is_complete(Entry(h))
    <2>1. CASE h = f
      BY <1>2, <2>1 DEF IsReady
    <2>2. CASE h # f
      <3>1. h \in (f + 1) .. checkpoint_frame' /\ h \in Window /\ h > n
        BY <1>1, <1>4, <1>9, <2>2 DEF Window, NumbersOK
      <3> QED
        BY <1>7, <1>8, <3>1
    <2> QED
      BY <2>1, <2>2
  <1>11. ASSUME checkpoint_frame' < latest_frame_expected
         PROVE  ~is_complete(Entry(checkpoint_frame' + 1))
    <2>1. checkpoint_frame' + 1 \in Window /\ checkpoint_frame' + 1 > n
      <3>1. \A c \in Int : n < c /\ c < latest_frame_expected
               => c + 1 \in (last_frame_consumed + 1) .. latest_frame_expected /\ c + 1 > n
        BY <1>1, <1>4, <1>9 DEF NumbersOK
      <3> QED
        BY <1>9, <1>11, <3>1 DEF Window
    <2> QED
      BY <1>7, <1>8, <1>11, <2>1
  <1>12. DeliveredSound'
    <2>1. last_delivered = IF last_frame_consumed = leader THEN {}
                           ELSE FramePackets(last_frame_consumed)
      BY <1>5 DEF StreamingInv, DeliveredSound
    <2>2. KindOf(f).dependency # "dependent"
      <3>1. Metadata(Entry(f)) = KindOf(f) /\ Metadata(Entry(f)).dependency # "dependent"
        BY <1>1, <1>2, <1>4, WindowEntries, Zenon DEF IsReady, EntryOK
      <3> QED
        BY <3>1
    <2>3. last_frame_consumed' = n /\ last_frame_consumed \in leader .. n
      BY <1>1, <1>4, <1>6, <1>9, Sizes DEF Release, NumbersOK
    <2>4. PICK x : x = last_frame_consumed
      BY Zenon
    <2>5. /\ x \in leader .. last_frame_consumed'
          /\ last_delivered' = IF x = leader THEN {} ELSE FramePackets(x)'
          /\ KindOf(last_frame_consumed + 1)'.dependency # "dependent"
      BY <1>4, <2>1, <2>2, <2>3, <2>4, Zenon DEF FramePackets, KindOf, Cut, leader
    <2> QED
      BY <1>2, <2>5 DEF DeliveredSound, leader
  <1>13. NoLostWakeup'
    BY <1>2 DEF NoLostWakeup
  <1>14. /\ Sends \/ UNCHANGED <<rtcp_net, rtcp_stale>>
         /\ UNCHANGED rtp_net
    BY DEF SendsIfCheckpointMoves, Sends, SendsNothing, net_vars
  <1>15. \A g \in (last_frame_consumed + 1) .. n : Entry(g).captured
    BY <1>2, <1>3, Zenon
  <1> QED
    BY <1>2, <1>4, <1>6, <1>8, <1>9, <1>10, <1>11, <1>12, <1>13, <1>14, <1>15, ReleaseStep, Zenon

\* The consumer takes the next frame, all of it.
LEMMA ConsumeInvariant ==
    ASSUME SetFacts, StreamingInv, Consume
    PROVE  StreamingInv'
  <1>1. Core /\ NumbersOK /\ CheckpointSound
    BY Numbers DEF StreamingInv, Both
  <1>2. PICK n : n = last_frame_consumed + 1
    OBVIOUS
  <1>3. /\ frame_ready
        /\ queue' = [queue EXCEPT ![SlotOf(n)] = Reset(queue[SlotOf(n)])]
        /\ last_frame_consumed' = n
        /\ consumption_alarm' = TRUE /\ frame_ready' = FALSE
        /\ last_delivered' = Entry(n).chunks
        /\ UNCHANGED <<latest_frame_expected, checkpoint_frame, playout_delay,
                       picture_loss_indicator, playout_delay_changes,
                       last_key_frame_received, last_sender_report,
                       highest_rtp_frame_id, consumer, sender_vars, enqueued,
                       rtp_net, rtcp_net, rtcp_stale>>
    BY <1>2 DEF Consume, ConsumeNextFrame, SendsNothing, net_vars
  <1>4. /\ last_frame_consumed < checkpoint_frame /\ n \in Int /\ n \in Window
        /\ n \in (last_frame_consumed + 1) .. checkpoint_frame
    BY <1>1, <1>2, <1>3 DEF CheckpointSound, NumbersOK, Window
  <1>5. /\ is_complete(Entry(n)) /\ Entry(n).captured /\ Entry(n).chunks = FramePackets(n)
        /\ Entry(n).frame_id = n /\ SlotOf(n) \in Slots
    BY <1>1, <1>4, WindowEntries, Zenon DEF CheckpointSound, EntryOK
  <1>6. Release(n)
    <2>1. \A g : g \in (last_frame_consumed + 1) .. n <=> g = n
      BY <1>1, <1>2, <1>4 DEF NumbersOK
    <2>2. ASSUME NEW i \in Slots
          PROVE  queue[i].frame_id = n <=> i = SlotOf(n)
      <3>1. null_frame # n
        BY <1>1, <1>2, <1>4, Sizes DEF null_frame, NumbersOK
      <3> QED
        BY <1>1, <1>5, <3>1, Zenon DEF Core, QueueSound, Entry
    <2>3. queue' = [i \in Slots |-> IF i = SlotOf(n) THEN Reset(queue[i]) ELSE queue[i]]
      BY <1>1, <1>3, Zenon DEF Core, ReceiverTypeOK
    <2>4. queue' = [i \in Slots |-> IF queue[i].frame_id \in (last_frame_consumed + 1) .. n
                                    THEN Reset(queue[i]) ELSE queue[i]]
      BY <2>1, <2>2, <2>3
    <2> QED
      BY <1>3, <2>4, Zenon DEF Release
  <1>7. DeliveredSound'
    <2>1. /\ n \in leader .. last_frame_consumed' /\ n # leader
          /\ last_delivered' = FramePackets(n)'
      <3>1. n \in leader .. n /\ n # leader
        BY <1>1, <1>4, Sizes DEF NumbersOK
      <3>2. last_delivered' = FramePackets(n)'
        BY <1>3, <1>5, Zenon DEF FramePackets, KindOf, Cut
      <3> QED
        BY <1>3, <3>1, <3>2, Zenon
    <2> QED
      BY <1>3, <2>1, Zenon DEF DeliveredSound, leader
  <1>8. NoLostWakeup'
    BY <1>3, Zenon DEF NoLostWakeup
  <1>9. /\ checkpoint_frame' \in n .. latest_frame_expected
        /\ checkpoint_frame <= checkpoint_frame'
    BY <1>1, <1>3, <1>4 DEF NumbersOK
  <1>10. /\ \A h \in (n + 1) .. checkpoint_frame' : is_complete(Entry(h))
         /\ checkpoint_frame' < latest_frame_expected
              => ~is_complete(Entry(checkpoint_frame' + 1))
    <2>1. \A h \in (n + 1) .. checkpoint_frame :
             h \in (last_frame_consumed + 1) .. checkpoint_frame
      BY <1>1, <1>2, <1>4 DEF NumbersOK
    <2> QED
      BY <1>1, <1>3, <2>1 DEF CheckpointSound
  <1>11. \A g \in (last_frame_consumed + 1) .. n : Entry(g).captured
    <2>1. \A g \in (last_frame_consumed + 1) .. n : g = n
      BY <1>1, <1>2, <1>4 DEF NumbersOK
    <2> QED
      BY <1>5, <2>1
  <1>12. /\ consumption_alarm' \in BOOLEAN /\ frame_ready' \in BOOLEAN
         /\ frame_ready' => n < checkpoint_frame'
    BY <1>3, Zenon
  <1> QED
    BY <1>3, <1>4, <1>6, <1>7, <1>8, <1>9, <1>10, <1>11, <1>12, ReleaseStep, Zenon

-----------------------------------------------------------------------------
(* Packets that are collected *)

\* Frames that are less than a ring apart have slots of their own.
LEMMA SlotsDiffer ==
    ASSUME NEW f \in Int, NEW g \in Int, f # g,
           f - g < kMaxUnackedFrames, g - f < kMaxUnackedFrames
    PROVE  SlotOf(f) # SlotOf(g)
  BY ModInjective, StreamingAssumption, Zenon DEF SlotOf

\* RtpPacketParser restores the frame ID of every packet that may still arrive.
LEMMA FrameIdRestored ==
    Core => \A pkt \in rtp_net : ParsedFrameId(pkt) = pkt.frame_id
  <1> SUFFICES ASSUME Core, NEW pkt \in rtp_net
               PROVE  ParsedFrameId(pkt) = pkt.frame_id
    OBVIOUS
  <1> DEFINE f == pkt.frame_id
             d == max_distance_for_expansion
  <1>1. f \in first .. last_enqueued_frame_id /\ last_enqueued_frame_id - f <= IdSpan - 1 - d
    BY DEF Core, PacketsGenuine
  <1>2. f \in Int /\ 0 <= f /\ f <= last_enqueued_frame_id
    BY <1>1, Numbers, Sizes DEF NumbersOK
  <1>3. d \in Int /\ kMaxUnackedFrames \in Int /\ kMaxUnackedFrames <= d
        /\ IdSpan \in Int /\ d <= IdSpan - 1 - d /\ 0 <= d
    BY Sizes
  <1> HIDE DEF f, d
  <1>4. /\ highest_rtp_frame_id \in Int
        /\ f - highest_rtp_frame_id <= d
        /\ highest_rtp_frame_id - f <= (IdSpan - 1) - d
    BY <1>1, <1>2, <1>3, Numbers DEF NumbersOK
  <1> QED
    BY <1>2, <1>4, ExpandRestores DEF ParsedFrameId, f, d

\* The frames up to f get their entries in slots that are free, and nothing changes for
\* the frames that are expected, or were consumed not too long ago.
LEMMA DiscoverFacts ==
    ASSUME Core, NEW f \in 0 .. last_enqueued_frame_id,
           f <= latest_frame_expected \/ f <= last_frame_consumed + kMaxUnackedFrames
    PROVE  /\ DiscoverFrames(f) \in [Slots -> QueueEntry]
           /\ \A h \in Int : h <= latest_frame_expected /\ h > f - kMaxUnackedFrames
                 => DiscoverFrames(f)[SlotOf(h)] = Entry(h)
           /\ \A h \in Window : DiscoverFrames(f)[SlotOf(h)] = Entry(h)
           /\ \A g \in (latest_frame_expected + 1) .. f :
                 /\ DiscoverFrames(f)[SlotOf(g)].frame_id = g
                 /\ DiscoverFrames(f)[SlotOf(g)].chunks = {}
                 /\ DiscoverFrames(f)[SlotOf(g)].captured = FALSE
           /\ \A i \in Slots : \/ DiscoverFrames(f)[i] = queue[i]
                               \/ \E g \in (latest_frame_expected + 1) .. f : SlotOf(g) = i
  <1> DEFINE q == DiscoverFrames(f)
             new == (latest_frame_expected + 1) .. f
             at(i) == CHOOSE g \in new : SlotOf(g) = i
             entry(i) == [queue[i] EXCEPT !.frame_id = at(i), !.captured = FALSE]
  <1>1. NumbersOK /\ kMaxUnackedFrames \in Nat /\ kMaxUnackedFrames > 0
    BY Numbers, Sizes
  <1>2. f \in Int /\ new \subseteq Int
    BY <1>1 DEF NumbersOK
  <1>3. q = [i \in Slots |-> IF \E g \in new : SlotOf(g) = i THEN entry(i) ELSE queue[i]]
    BY DEF DiscoverFrames
  <1>4. queue \in [Slots -> QueueEntry]
    BY DEF Core, ReceiverTypeOK
  <1> HIDE DEF q
  <1>5. ASSUME NEW i \in Slots, NEW g \in new, SlotOf(g) = i
        PROVE  q[i] = entry(i) /\ at(i) \in new /\ SlotOf(at(i)) = i
    BY <1>3, <1>5, Zenon
  <1>6. ASSUME NEW i \in Slots
        PROVE  /\ q[i] \in QueueEntry
               /\ q[i] = queue[i] \/ \E g \in new : SlotOf(g) = i
    <2>1. CASE \E g \in new : SlotOf(g) = i
      <3>1. q[i] = entry(i) /\ at(i) \in new
        BY <1>5, <2>1, Zenon
      <3>2. at(i) \in FrameId
        BY <1>1, <3>1, Sizes DEF NumbersOK, FrameId
      <3> HIDE DEF at
      <3> QED
        BY <1>4, <2>1, <3>1, <3>2, Zenon DEF QueueEntry
    <2>2. CASE ~ \E g \in new : SlotOf(g) = i
      BY <1>3, <1>4, <2>2, Zenon
    <2> QED
      BY <2>1, <2>2, Zenon
  <1>7. q \in [Slots -> QueueEntry]
    BY <1>3, <1>6, Zenon
  <1>8. ASSUME NEW h \in Int, h <= latest_frame_expected, h > f - kMaxUnackedFrames
        PROVE  q[SlotOf(h)] = Entry(h)
    <2>1. SlotOf(h) \in Slots
      BY SlotOfType
    <2>2. \A g \in new : SlotOf(g) # SlotOf(h)
      <3>1. \A g \in new : g \in Int /\ g # h /\ g - h < kMaxUnackedFrames
                           /\ h - g < kMaxUnackedFrames
        BY <1>1, <1>2, <1>8 DEF NumbersOK
      <3> QED
        BY <3>1, SlotsDiffer, Zenon
    <2> QED
      BY <1>6, <2>1, <2>2, Zenon DEF Entry
  <1>9. ASSUME NEW h \in Window
        PROVE  q[SlotOf(h)] = Entry(h)
    <2>1. h \in Int /\ h <= latest_frame_expected /\ last_frame_consumed < h
      BY <1>1 DEF Window, NumbersOK
    <2>2. CASE f <= latest_frame_expected
      <3>1. new = {}
        BY <1>1, <1>2, <2>2 DEF NumbersOK
      <3> QED
        BY <1>6, <2>1, <3>1, SlotOfType, Zenon DEF Entry
    <2>3. CASE f <= last_frame_consumed + kMaxUnackedFrames
      <3>1. h > f - kMaxUnackedFrames
        BY <1>1, <1>2, <2>1, <2>3 DEF NumbersOK
      <3> QED
        BY <1>8, <2>1, <3>1, Zenon
    <2> QED
      BY <2>2, <2>3, Zenon
  <1>10. ASSUME NEW g \in new
         PROVE  q[SlotOf(g)].frame_id = g /\ q[SlotOf(g)].chunks = {}
                /\ q[SlotOf(g)].captured = FALSE
    <2> DEFINE i == SlotOf(g)
    <2>1. i \in Slots /\ g \in Int /\ latest_frame_expected < g /\ g <= f
      BY <1>1, <1>2, SlotOfType DEF NumbersOK
    <2>2. f <= last_frame_consumed + kMaxUnackedFrames
      BY <1>1, <1>2, <2>1 DEF NumbersOK
    <2>3. q[i] = entry(i) /\ at(i) \in new /\ SlotOf(at(i)) = i
      BY <1>5, <2>1, Zenon
    <2> HIDE DEF at
    <2>4. at(i) = g
      <3>1. /\ at(i) \in Int
            /\ at(i) - g < kMaxUnackedFrames /\ g - at(i) < kMaxUnackedFrames
        BY <1>1, <1>2, <2>1, <2>2, <2>3 DEF NumbersOK
      <3> QED
        BY <2>1, <2>3, <3>1, SlotsDiffer
    <2>5. queue[i].chunks = {}
      <3>1. \A h \in Window : SlotOf(h) # i
        <4>1. \A h \in Window : h \in Int /\ h # g /\ g - h < kMaxUnackedFrames
                                /\ h - g < kMaxUnackedFrames
          BY <1>1, <1>2, <2>1, <2>2 DEF Window, NumbersOK
        <4> QED
          BY <2>1, <4>1, SlotsDiffer, Zenon
      <3> QED
        BY <2>1, <3>1, Zenon DEF Core, QueueSound
    <2> HIDE DEF i
    <2>6. /\ entry(i).frame_id = at(i) /\ entry(i).chunks = queue[i].chunks
          /\ entry(i).captured = FALSE
      BY <1>4, <2>1 DEF QueueEntry
    <2> QED
      BY <2>3, <2>4, <2>5, <2>6, Zenon DEF i
  <1> QED
    BY <1>6, <1>7, <1>8, <1>9, <1>10, Zenon DEF q

\* The entry of frame f may become e: one for frame f with packets of frame f.
EntryFor(f, e) ==
    /\ e \in QueueEntry
    /\ e.frame_id = f
    /\ e.chunks \subseteq FramePackets(f)
    /\ e.captured = (\E c \in e.chunks : c.packet_id = 0)

\* The queue after a packet of frame f has arrived, and left e as the entry of f.
Reception(f, e) ==
    /\ ~IsOfNoInterest(f)
    /\ ExpectFrame(f)
    /\ queue' = [DiscoverFrames(f) EXCEPT ![SlotOf(f)] = e]
    /\ UNCHANGED <<last_frame_consumed, enqueued>>

\* The queue stays sound; only the entry of f changes, besides those of the frames that
\* the Receiver hears of for the first time, which are empty.
LEMMA ReceptionFacts ==
    ASSUME Core, NEW f \in 0 .. last_enqueued_frame_id, NEW e, EntryFor(f, e), Reception(f, e)
    PROVE  /\ QueueSound' /\ queue' \in [Slots -> QueueEntry]
           /\ latest_frame_expected' = IF f > latest_frame_expected THEN f
                                       ELSE latest_frame_expected
           /\ f \in Int /\ checkpoint_frame < f
           /\ latest_frame_expected' - last_frame_consumed <= kMaxUnackedFrames
           /\ queue'[SlotOf(f)] = e
           /\ \A h \in Window : h # f => queue'[SlotOf(h)] = Entry(h)
           /\ \A h \in Int : h <= last_frame_consumed
                                /\ h > latest_frame_expected' - kMaxUnackedFrames
                                => queue'[SlotOf(h)] = Entry(h)
           /\ \A g \in (latest_frame_expected + 1) .. f :
                 g # f => queue'[SlotOf(g)].chunks = {} /\ ~queue'[SlotOf(g)].captured
  <1> DEFINE q == DiscoverFrames(f)
             K == kMaxUnackedFrames
             new == (latest_frame_expected + 1) .. f
  <1>1. NumbersOK /\ K \in Nat /\ K > 0
    BY Numbers, Sizes
  <1>2. f \in Int /\ checkpoint_frame < f
        /\ (f <= latest_frame_expected \/ f <= last_frame_consumed + K)
    BY <1>1 DEF Reception, IsOfNoInterest, NumbersOK
  <1>3. latest_frame_expected' = IF f > latest_frame_expected THEN f
                                 ELSE latest_frame_expected
    BY DEF Reception, ExpectFrame
  <1>4. latest_frame_expected' - last_frame_consumed <= K
    BY <1>1, <1>2, <1>3 DEF NumbersOK
  <1>5. /\ q \in [Slots -> QueueEntry]
        /\ \A h \in Int : h <= latest_frame_expected /\ h > f - K => q[SlotOf(h)] = Entry(h)
        /\ \A h \in Window : q[SlotOf(h)] = Entry(h)
        /\ \A g \in new : /\ q[SlotOf(g)].frame_id = g /\ q[SlotOf(g)].chunks = {}
                          /\ q[SlotOf(g)].captured = FALSE
        /\ \A i \in Slots : q[i] = queue[i] \/ \E g \in new : SlotOf(g) = i
    BY <1>2, DiscoverFacts, Zenon
  <1>6. queue' = [q EXCEPT ![SlotOf(f)] = e] /\ SlotOf(f) \in Slots
    BY <1>2, SlotOfType DEF Reception
  <1> HIDE DEF q, K, new
  <1>7. /\ queue' \in [Slots -> QueueEntry] /\ queue'[SlotOf(f)] = e
        /\ \A i \in Slots : i # SlotOf(f) => queue'[i] = q[i]
    BY <1>5, <1>6, Zenon DEF EntryFor
  <1>8. ASSUME NEW h \in Int, h <= last_frame_consumed, h > latest_frame_expected' - K
        PROVE  queue'[SlotOf(h)] = Entry(h)
    <2>1. /\ h <= latest_frame_expected /\ h > f - K /\ h # f
          /\ h - f < K /\ f - h < K
      BY <1>1, <1>2, <1>3, <1>8 DEF NumbersOK
    <2>2. SlotOf(h) \in Slots /\ SlotOf(h) # SlotOf(f)
      BY <1>2, <2>1, SlotOfType, SlotsDiffer, Zenon DEF K
    <2> QED
      BY <1>5, <1>7, <2>1, <2>2, Zenon
  <1>9. ASSUME NEW h \in Int, last_frame_consumed < h, h <= latest_frame_expected', h # f
        PROVE  /\ SlotOf(h) \in Slots /\ SlotOf(h) # SlotOf(f)
               /\ queue'[SlotOf(h)] = q[SlotOf(h)]
               /\ h \in Window \/ h \in new
    <2>1. /\ h - f < K /\ f - h < K
          /\ h \in Window \/ h \in new
      BY <1>1, <1>2, <1>3, <1>4, <1>9 DEF NumbersOK, Window, new
    <2>2. SlotOf(h) \in Slots /\ SlotOf(h) # SlotOf(f)
      BY <1>2, <1>9, <2>1, SlotOfType, SlotsDiffer DEF K
    <2> QED
      BY <1>7, <2>1, <2>2, Zenon
  <1>10. ASSUME NEW h \in Window, h # f
         PROVE  queue'[SlotOf(h)] = Entry(h)
    <2>1. h \in Int /\ last_frame_consumed < h /\ h <= latest_frame_expected'
      BY <1>1, <1>2, <1>3 DEF NumbersOK, Window
    <2> QED
      BY <1>5, <1>9, <1>10, <2>1, Zenon
  <1>11. ASSUME NEW g \in new, g # f
         PROVE  queue'[SlotOf(g)].chunks = {} /\ queue'[SlotOf(g)].captured = FALSE
    <2>1. g \in Int /\ last_frame_consumed < g /\ g <= latest_frame_expected'
      BY <1>1, <1>2, <1>3 DEF NumbersOK, new
    <2> QED
      BY <1>5, <1>9, <1>11, <2>1, Zenon
  <1>12. QueueSound'
    <2>1. Window' = (last_frame_consumed + 1) .. latest_frame_expected'
      BY DEF Window, Reception
    <2>2. /\ Window \subseteq Window' /\ new \subseteq Window' /\ f \in Window'
          /\ \A h \in Window' : /\ h \in Int /\ last_frame_consumed < h
                                /\ h <= latest_frame_expected'
      <3> DEFINE next == (last_frame_consumed + 1) .. latest_frame_expected'
      <3>1. /\ Window \subseteq next /\ new \subseteq next /\ f \in next
            /\ \A h \in next : /\ h \in Int /\ last_frame_consumed < h
                              /\ h <= latest_frame_expected'
        BY <1>1, <1>2, <1>3 DEF NumbersOK, Window, new
      <3> HIDE DEF next
      <3>2. Window' = next
        BY <2>1, Zenon DEF next
      <3> QED
        BY <3>1, <3>2
    <2>3. \A h : FramePackets(h)' = FramePackets(h)
      BY DEF FramePackets, KindOf, Cut, Reception
    <2>4. ASSUME NEW h \in Window'
          PROVE  queue'[SlotOf(h)].frame_id = h
      <3>1. CASE h = f
        BY <1>7, <3>1, Zenon DEF EntryFor
      <3>2. CASE h # f
        <4>1. queue'[SlotOf(h)] = q[SlotOf(h)] /\ (h \in Window \/ h \in new)
          BY <1>9, <2>2, <3>2, Zenon
        <4>2. h \in Window => Entry(h).frame_id = h
          BY DEF Core, QueueSound
        <4> QED
          BY <1>5, <4>1, <4>2
      <3> QED
        BY <3>1, <3>2
    <2>5. ASSUME NEW i \in Slots
          PROVE  \/ queue'[i].frame_id = null_frame /\ queue'[i].chunks = {}
                 \/ /\ queue'[i].frame_id \in Window'
                    /\ SlotOf(queue'[i].frame_id) = i
                    /\ queue'[i].chunks \subseteq FramePackets(queue'[i].frame_id)
                    /\ queue'[i].captured = (\E c \in queue'[i].chunks : c.packet_id = 0)
      <3>1. CASE i = SlotOf(f)
        BY <1>7, <2>2, <3>1, Zenon DEF EntryFor
      <3>2. ASSUME NEW g \in new, SlotOf(g) = i, i # SlotOf(f)
            PROVE  /\ queue'[i].frame_id = g /\ queue'[i].chunks = {}
                   /\ queue'[i].captured = FALSE
        BY <1>5, <1>7, <3>2
      <3>3. CASE i # SlotOf(f) /\ \E g \in new : SlotOf(g) = i
        BY <2>2, <3>2, <3>3, Zenon
      <3>4. CASE i # SlotOf(f) /\ queue'[i] = queue[i]
        BY <2>2, <3>4, Zenon DEF Core, QueueSound
      <3> QED
        BY <1>5, <1>7, <3>1, <3>3, <3>4, Zenon
    <2> QED
      BY <2>3, <2>4, <2>5, Zenon DEF QueueSound, Entry, SlotOf, null_frame
  <1> QED
    BY <1>2, <1>3, <1>4, <1>7, <1>8, <1>10, <1>11, <1>12, Zenon DEF K, new

\* RecordNewTargetPlayoutDelay() forgets only changes that are superseded.
LEMMA RecordFacts ==
    ASSUME SetFacts, Core, NEW expected \in Int, NEW known \in SUBSET Int,
           NEW f \in first .. expected, NEW d,
           ChangesOK(playout_delay_changes, last_frame_consumed, expected, known),
           d = KindOf(f).new_playout_delay, d > 0
    PROVE  ChangesOK(RecordNewTargetPlayoutDelay(f, d), last_frame_consumed, expected,
                     known \cup {f})
  <1> DEFINE old == playout_delay_changes
             next == last_frame_consumed - kMaxUnackedFrames + 1
             pruned == {c \in old : \E z \in old : c[1] < z[1] /\ z[1] <= next}
             new == RecordNewTargetPlayoutDelay(f, d)
             npd(g) == KindOf(g).new_playout_delay
  <1>1. first = 0 /\ leader = -1 /\ last_frame_consumed \in Int /\ next \in Int
        /\ next <= last_frame_consumed
    BY Numbers, Sizes DEF NumbersOK
  <1>2. new = (old \ pruned) \cup {<<f, d>>}
    BY DEF RecordNewTargetPlayoutDelay
  <1>3. \A x \in old : x[1] \in Int
    BY <1>1 DEF ChangesOK
  <1>4. ASSUME NEW c \in pruned
        PROVE  \E y \in new : c[1] < y[1] /\ y[1] <= last_frame_consumed
    <2> DEFINE S == {x[1] : x \in {z \in old : z[1] <= next}}
    <2>1. PICK z \in old : c[1] < z[1] /\ z[1] <= next
      BY <1>4
    <2>2. S \in SUBSET Int /\ z[1] \in S /\ \A n \in S : n <= next
      BY <1>3, <2>1, Zenon
    <2>3. PICK m \in S : \A n \in S : n <= m
      <3> HIDE DEF S, next
      <3> QED
        BY <1>1, <2>2, GreatestExists, Zenon
    <2>4. PICK y \in old : y[1] = m /\ y[1] <= next
      BY <2>3, Zenon
    <2>5. \A n \in old : n[1] <= next => n[1] <= y[1]
      BY <2>3, <2>4, Zenon
    <2>6. y \notin pruned
      <3>1. ASSUME NEW n \in old, y[1] < n[1], n[1] <= next PROVE FALSE
        <4>1. PICK p \in Int, q \in Int : p = y[1] /\ q = n[1]
          BY <1>3, Zenon
        <4>2. q <= p /\ p < q
          BY <2>5, <3>1, <4>1, Zenon
        <4> QED
          BY <4>2
      <3> QED
        BY <3>1, Zenon
    <2>7. c[1] < y[1] /\ y[1] <= last_frame_consumed
      <3>1. c[1] \in Int /\ z[1] \in Int /\ y[1] \in Int
        BY <1>3, <1>4, <2>1, <2>4, Zenon
      <3> HIDE DEF next
      <3> QED
        BY <1>1, <2>1, <2>4, <2>5, <3>1
    <2> QED
      BY <1>2, <2>4, <2>6, <2>7, Zenon
  <1> HIDE DEF new, next, pruned
  <1>5. \A c \in old : c \in new \/ c \in pruned
    BY <1>2, Zenon
  <1>6. ASSUME NEW x, x[1] \in Int, Covered(x, old, last_frame_consumed)
        PROVE  Covered(x, new, last_frame_consumed)
    <2>1. CASE x \in old
      BY <1>4, <1>5, <2>1, Zenon DEF Covered
    <2>2. ASSUME NEW y \in old, x[1] < y[1], y[1] <= last_frame_consumed
          PROVE  Covered(x, new, last_frame_consumed)
      <3>1. CASE y \in new
        BY <2>2, <3>1, Zenon DEF Covered
      <3>2. CASE y \in pruned
        <4>1. PICK z \in new : y[1] < z[1] /\ z[1] <= last_frame_consumed
          BY <1>4, <3>2, Zenon
        <4>2. z \in old \/ z = <<f, d>>
          BY <1>2, <4>1
        <4>3. z[1] \in Int
          BY <1>1, <1>3, <4>2
        <4>4. x[1] < z[1]
          BY <1>3, <1>6, <2>2, <4>1, <4>3
        <4> QED
          BY <4>1, <4>4 DEF Covered
      <3> QED
        BY <1>5, <2>2, <3>1, <3>2, Zenon
    <2> QED
      BY <1>6, <2>1, <2>2, Zenon DEF Covered
  <1>7. ASSUME NEW x \in new
        PROVE  \/ x = <<leader, InitialPlayoutDelay>>
               \/ /\ x[1] \in first .. expected
                  /\ x = <<x[1], npd(x[1])>>
                  /\ npd(x[1]) > 0
    <2>1. CASE x \in old
      BY <2>1 DEF ChangesOK
    <2>2. CASE x = <<f, d>>
      BY <2>2, Zenon
    <2> QED
      BY <1>2, <2>1, <2>2, Zenon
  <1>8. Covered(<<leader, InitialPlayoutDelay>>, new, last_frame_consumed)
    BY <1>1, <1>6 DEF ChangesOK
  <1>9. ASSUME NEW g \in known \cup {f}, npd(g) > 0, g \in Int
        PROVE  Covered(<<g, npd(g)>>, new, last_frame_consumed)
    <2>1. CASE g = f
      BY <1>2, <2>1, Zenon DEF Covered
    <2>2. CASE g \in known
      <3>1. <<g, npd(g)>>[1] \in Int
        BY <1>9, Zenon
      <3> QED
        BY <1>6, <1>9, <2>2, <3>1, Zenon DEF ChangesOK
    <2> QED
      BY <2>1, <2>2, Zenon
  <1>10. \A g \in known \cup {f} : g \in Int
    BY <1>1
  <1> QED
    BY <1>7, <1>8, <1>9, <1>10, Zenon DEF ChangesOK, new
=============================================================================
