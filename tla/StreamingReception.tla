-------------------------- MODULE StreamingReception ------------------------
(***************************************************************************)
(* Reception of a packet keeps the invariant of a streaming session,       *)
(* whether the packet is dropped, is kept or completes a frame.            *)
(***************************************************************************)
EXTENDS StreamingSteps

-----------------------------------------------------------------------------
(* Steps that change the queue *)

\* What a collector with packets of one frame says of itself.
LEMMA EntryForFacts ==
    ASSUME SetFacts, Core, NEW f \in 0 .. last_enqueued_frame_id, NEW e, EntryFor(f, e)
    PROVE  /\ e.chunks # {} => PacketCount(e) = KindOf(f).packets
           /\ is_complete(e) <=> e.chunks = FramePackets(f)
           /\ is_complete(e) => e.captured /\ Metadata(e) = KindOf(f)
  <1>1. f \in FrameId /\ KindOf(f) \in FrameKinds
    BY KindFacts DEF KindOK
  <1>2. /\ e.chunks \subseteq Cut(f, KindOf(f))
        /\ e.captured = (\E c \in e.chunks : c.packet_id = 0)
    BY DEF EntryFor, FramePackets
  <1> QED
    BY <1>1, <1>2, CollectorFacts DEF FramePackets

\* What a packet of frame f does that arrives and leaves e as the entry of f: the
\* checkpoint moves when f is complete and next.
Arrival(pkt, f, e) ==
    /\ f = pkt.frame_id /\ EntryFor(f, e) /\ Reception(f, e) /\ ParseRtpPacket(pkt)
    /\ Sends \/ UNCHANGED <<rtcp_net, rtcp_stale>>
    /\ UNCHANGED <<sender_vars, enqueued, last_delivered, frame_ready, consumer,
                   last_sender_report, rtp_net>>
    /\ picture_loss_indicator' \in BOOLEAN /\ consumption_alarm' \in BOOLEAN
    /\ last_key_frame_received' \in FrameId \cup {null_frame}
    /\ f <= latest_frame_expected => Entry(f).chunks \subseteq e.chunks
    /\ \/ /\ UNCHANGED <<checkpoint_frame, playout_delay>>
          /\ f = checkpoint_frame + 1 => ~is_complete(e)
       \/ /\ f = checkpoint_frame + 1 /\ is_complete(e)
          /\ AdvanceCheckpoint(f, queue', latest_frame_expected', playout_delay_changes')
    /\ ChangesOK(playout_delay_changes', last_frame_consumed, latest_frame_expected',
                 KnownToReceiver')
    /\ NoLostWakeup'

\* Such a packet keeps the invariant.
LEMMA ReceptionStep ==
    ASSUME SetFacts, StreamingInv, NEW pkt \in rtp_net, NEW f, NEW e, Arrival(pkt, f, e)
    PROVE  StreamingInv'
  <1>a. f = pkt.frame_id /\ EntryFor(f, e) /\ Reception(f, e)
    BY Zenon DEF Arrival
  <1>b. UNCHANGED <<sender_vars, enqueued, last_delivered, frame_ready, rtp_net>>
    BY DEF Arrival
  <1>c. \/ /\ UNCHANGED <<checkpoint_frame, playout_delay>>
           /\ f = checkpoint_frame + 1 => ~is_complete(e)
        \/ /\ f = checkpoint_frame + 1 /\ is_complete(e)
           /\ AdvanceCheckpoint(f, queue', latest_frame_expected', playout_delay_changes')
    BY Zenon DEF Arrival
  <1>1. Core /\ NumbersOK /\ CheckpointSound
    BY Numbers DEF StreamingInv, Both
  <1>2. f \in 0 .. last_enqueued_frame_id /\ f \in Int
    BY <1>1, <1>a, Sizes DEF Core, PacketsGenuine, NumbersOK
  <1>3. /\ QueueSound' /\ queue' \in [Slots -> QueueEntry]
        /\ latest_frame_expected' = IF f > latest_frame_expected THEN f
                                    ELSE latest_frame_expected
        /\ checkpoint_frame < f
        /\ latest_frame_expected' - last_frame_consumed <= kMaxUnackedFrames
        /\ queue'[SlotOf(f)] = e
    BY <1>1, <1>2, <1>a, ReceptionFacts, Zenon
  <1>4. \A h \in Window : h # f => queue'[SlotOf(h)] = Entry(h)
    BY <1>1, <1>2, <1>a, ReceptionFacts
  <1>5. \A h \in Int : h <= last_frame_consumed
                          /\ h > latest_frame_expected' - kMaxUnackedFrames
                          => queue'[SlotOf(h)] = Entry(h)
    BY <1>1, <1>2, <1>a, ReceptionFacts
  <1>6. \A g \in (latest_frame_expected + 1) .. f : g # f => queue'[SlotOf(g)].chunks = {}
    BY <1>1, <1>2, <1>a, ReceptionFacts
  <1>7. latest_frame_expected' \in Int /\ latest_frame_expected <= latest_frame_expected'
        /\ f <= latest_frame_expected' /\ latest_frame_expected' <= last_enqueued_frame_id
    BY <1>1, <1>2, <1>3 DEF NumbersOK
  <1>8. last_frame_consumed' = last_frame_consumed /\ \A h : KindOf(h)' = KindOf(h)
    BY <1>a, <1>b DEF Reception, KindOf
  <1>9. /\ \A h : Entry(h)' = queue'[SlotOf(h)]
        /\ \A h : is_complete(Entry(h))' = is_complete(queue'[SlotOf(h)])
    BY DEF Entry, SlotOf, is_complete, PacketCount
  \* Complete frames stay complete, and have a capture time.
  <1>10. ASSUME NEW h \in Window, is_complete(Entry(h))
         PROVE  is_complete(queue'[SlotOf(h)])
    <2>1. CASE h # f
      BY <1>4, <1>10, <2>1
    <2>2. CASE h = f
      <3>1. Entry(f).chunks = FramePackets(f)
        BY <1>1, <1>10, <2>2, WindowEntries, Zenon DEF EntryOK
      <3>2. f <= latest_frame_expected
        BY <1>1, <2>2 DEF Window, NumbersOK
      <3>3. e.chunks = FramePackets(f)
        BY <1>a, <3>1, <3>2, Zenon DEF EntryFor, Arrival
      <3> QED
        BY <1>1, <1>2, <1>3, <1>a, <2>2, <3>3, EntryForFacts, Zenon
    <2> QED
      BY <2>1, <2>2
  <1>11. ASSUME NEW h \in Int, last_frame_consumed < h, h <= latest_frame_expected',
                is_complete(queue'[SlotOf(h)])
         PROVE  queue'[SlotOf(h)].captured
    <2>1. CASE h = f
      BY <1>1, <1>2, <1>3, <1>11, <1>a, <2>1, EntryForFacts, Zenon
    <2>2. CASE h # f /\ h \in Window
      BY <1>1, <1>4, <1>11, <2>2, WindowEntries, Zenon DEF EntryOK
    <2>3. CASE h # f /\ h \notin Window
      <3>1. h \in (latest_frame_expected + 1) .. f
        BY <1>1, <1>2, <1>3, <1>11, <2>3 DEF Window, NumbersOK
      <3> QED
        BY <1>6, <1>11, <2>3, <3>1 DEF is_complete
    <2> QED
      BY <2>1, <2>2, <2>3
  \* The checkpoint.
  <1>12. /\ checkpoint_frame' \in Int /\ checkpoint_frame <= checkpoint_frame'
         /\ checkpoint_frame' <= latest_frame_expected'
         /\ \A h \in Int : last_frame_consumed < h /\ h <= checkpoint_frame'
               => is_complete(queue'[SlotOf(h)])
         /\ checkpoint_frame' < latest_frame_expected'
               => ~is_complete(queue'[SlotOf(checkpoint_frame' + 1)])
    <2>1. ASSUME NEW h \in Int, last_frame_consumed < h, h <= checkpoint_frame
          PROVE  is_complete(queue'[SlotOf(h)])
      <3>1. h \in Window /\ h \in (last_frame_consumed + 1) .. checkpoint_frame
        BY <1>1, <2>1 DEF Window, NumbersOK
      <3> QED
        BY <1>1, <1>10, <3>1 DEF CheckpointSound
    <2>2. CASE /\ UNCHANGED <<checkpoint_frame, playout_delay>>
               /\ f = checkpoint_frame + 1 => ~is_complete(e)
      <3>1. ASSUME checkpoint_frame < latest_frame_expected'
            PROVE  ~is_complete(queue'[SlotOf(checkpoint_frame + 1)])
        <4> DEFINE h == checkpoint_frame + 1
        <4>1. CASE h = f
          BY <1>3, <2>2, <4>1
        <4>2. CASE h # f /\ h <= latest_frame_expected
          <5>1. h \in Window /\ checkpoint_frame < latest_frame_expected
            BY <1>1, <4>2 DEF Window, NumbersOK
          <5> QED
            BY <1>1, <1>4, <4>2, <5>1 DEF CheckpointSound
        <4>3. CASE h # f /\ ~(h <= latest_frame_expected)
          <5>1. h \in (latest_frame_expected + 1) .. f
            BY <1>1, <1>2, <1>3, <3>1, <4>3 DEF NumbersOK
          <5> QED
            BY <1>6, <4>3, <5>1 DEF is_complete
        <4> QED
          BY <4>1, <4>2, <4>3
      <3> QED
        BY <1>1, <1>7, <2>1, <2>2, <3>1 DEF NumbersOK
    <2>3. CASE /\ f = checkpoint_frame + 1 /\ is_complete(e)
               /\ AdvanceCheckpoint(f, queue', latest_frame_expected', playout_delay_changes')
      <3>1. /\ checkpoint_frame' \in f .. latest_frame_expected'
            /\ \A h \in (f + 1) .. checkpoint_frame' : is_complete(queue'[SlotOf(h)])
            /\ checkpoint_frame' < latest_frame_expected'
                  => ~is_complete(queue'[SlotOf(checkpoint_frame' + 1)])
        BY <2>3 DEF AdvanceCheckpoint, ExtendsTo
      <3>2. checkpoint_frame' \in Int /\ checkpoint_frame <= checkpoint_frame'
            /\ checkpoint_frame' <= latest_frame_expected'
        BY <1>1, <1>2, <1>7, <2>3, <3>1 DEF NumbersOK
      <3>3. ASSUME NEW h \in Int, last_frame_consumed < h, h <= checkpoint_frame'
            PROVE  is_complete(queue'[SlotOf(h)])
        <4>1. h <= checkpoint_frame \/ h = f \/ h \in (f + 1) .. checkpoint_frame'
          BY <1>1, <1>2, <2>3, <3>2, <3>3 DEF NumbersOK
        <4> QED
          BY <1>3, <2>1, <2>3, <3>1, <3>3, <4>1, Zenon
      <3> QED
        BY <3>1, <3>2, <3>3
    <2> QED
      BY <1>c, <2>2, <2>3
  <1>13. CheckpointSound'
    <2>1. frame_ready' => last_frame_consumed < checkpoint_frame'
      BY <1>1, <1>12, <1>b DEF CheckpointSound, NumbersOK
    <2>2. \A h \in (last_frame_consumed + 1) .. checkpoint_frame' :
             h \in Int /\ last_frame_consumed < h /\ h <= checkpoint_frame'
      BY <1>1, <1>12 DEF NumbersOK
    <2>3. \A h \in (last_frame_consumed + 1) .. checkpoint_frame' :
             is_complete(queue'[SlotOf(h)])
      BY <1>12, <2>2
    <2> QED
      BY <1>8, <1>9, <1>12, <2>1, <2>3, Zenon DEF CheckpointSound, Entry, SlotOf
  <1>14. Progress
    <2>1. ASSUME NEW h \in Int, Settled(h) PROVE Settled(h)'
      <3>1. CASE h <= checkpoint_frame
        BY <1>1, <1>12, <3>1 DEF Settled, NumbersOK
      <3>2. CASE ~(h <= checkpoint_frame)
        <4>1. h <= latest_frame_expected /\ is_complete(Entry(h))
          BY <2>1, <3>2 DEF Settled
        <4>2. h \in Window /\ h <= latest_frame_expected'
          BY <1>1, <1>7, <2>1, <3>2, <4>1 DEF Window, NumbersOK
        <4>3. is_complete(Entry(h))'
          BY <1>9, <1>10, <4>1, <4>2, Zenon
        <4> QED
          BY <4>2, <4>3 DEF Settled
      <3> QED
        BY <3>1, <3>2
    <2> QED
      BY <1>1, <1>7, <1>8, <1>12, <1>b, <2>1 DEF Progress, KindsKept, sender_vars, NumbersOK
  \* The playout delays.
  <1>15. DelaysSound' /\ playout_delay' \in Nat
    <2>1. \/ UNCHANGED <<checkpoint_frame, playout_delay>>
          \/ playout_delay' = ResolveTargetPlayoutDelay(playout_delay_changes',
                                                        checkpoint_frame')
      BY <1>c DEF AdvanceCheckpoint
    <2>2. ASSUME NEW h \in first .. checkpoint_frame'
          PROVE  h \in KnownToReceiver'
      <3>1. h \in Int /\ h \in first .. latest_frame_expected' /\ h <= checkpoint_frame'
        BY <1>7, <1>12, Sizes
      <3>2. h <= last_frame_consumed \/ queue'[SlotOf(h)].captured
        <4>1. CASE h <= last_frame_consumed
          BY <4>1
        <4>2. CASE ~(h <= last_frame_consumed)
          <5>1. last_frame_consumed < h /\ h <= latest_frame_expected'
            BY <1>1, <3>1, <4>2 DEF NumbersOK
          <5> QED
            BY <1>11, <1>12, <3>1, <5>1
        <4> QED
          BY <4>1, <4>2
      <3> QED
        BY <1>8, <1>9, <3>1, <3>2 DEF KnownToReceiver
    <2>3. /\ last_frame_consumed' \in Int /\ checkpoint_frame' <= last_enqueued_frame_id
          /\ last_frame_consumed' <= checkpoint_frame' /\ leader <= checkpoint_frame'
      BY <1>1, <1>7, <1>8, <1>12, Sizes DEF NumbersOK
    <2>4. ChangesOK(playout_delay_changes', last_frame_consumed', latest_frame_expected',
                    KnownToReceiver')
      BY <1>8, Zenon DEF Arrival
    <2> QED
      BY <1>7, <1>12, <1>b, <2>1, <2>2, <2>3, <2>4, DelaysAfter, Zenon DEF StreamingInv
  \* The rest.
  <1>16. ReceiverTypeOK' /\ FramesInOrder'
    <2>1. highest_rtp_frame_id' = IF f > highest_rtp_frame_id THEN f
                                  ELSE highest_rtp_frame_id
      BY <1>1, <1>a, FrameIdRestored, Zenon DEF ParseRtpPacket, Arrival
    <2>2. /\ highest_rtp_frame_id' \in FrameId /\ latest_frame_expected' \in FrameId
          /\ checkpoint_frame' \in FrameId
          /\ latest_frame_expected' <= highest_rtp_frame_id'
          /\ highest_rtp_frame_id' = first \/ highest_rtp_frame_id' <= last_enqueued_frame_id
      BY <1>1, <1>2, <1>3, <1>7, <1>12, <2>1, Sizes DEF NumbersOK, FrameId
    <2>3. /\ checkpoint_frame_id <= checkpoint_frame'
          /\ last_frame_consumed <= checkpoint_frame'
      <3>1. checkpoint_frame' \in Int /\ checkpoint_frame <= checkpoint_frame'
        BY <1>12, Zenon
      <3> QED
        BY <1>1, <3>1 DEF NumbersOK
    <2>4. ReceiverTypeOK'
      <3>1. /\ picture_loss_indicator' \in BOOLEAN /\ consumption_alarm' \in BOOLEAN
            /\ last_key_frame_received' \in FrameId \cup {null_frame}
            /\ UNCHANGED <<consumer, last_sender_report>>
        BY DEF Arrival
      <3> QED
        BY <1>1, <1>3, <1>8, <1>15, <1>b, <2>2, <3>1, Zenon
        DEF Core, ReceiverTypeOK, null_frame
    <2> QED
      BY <1>3, <1>7, <1>8, <1>12, <1>b, <2>2, <2>3, <2>4, Zenon DEF FramesInOrder, sender_vars
  <1>17. DeliveredSound'
    BY <1>8, <1>14, <1>b, DeliveredKept DEF StreamingInv, Progress
  <1>18. PlayoutReportable'
    <2>1. ASSUME NEW h \in first .. last_frame_consumed,
                 h > latest_frame_expected' - kMaxUnackedFrames
          PROVE  queue'[SlotOf(h)].captured
      <3>1. h \in Int /\ h <= last_frame_consumed
        BY <1>1, Sizes DEF NumbersOK
      <3>2. h > latest_frame_expected - kMaxUnackedFrames
        <4>1. latest_frame_expected \in Int /\ kMaxUnackedFrames \in Int
          BY <1>1, Sizes DEF NumbersOK
        <4>2. \A a, b, k \in Int : a <= b /\ h > b - k => h > a - k
          BY <3>1
        <4> QED
          BY <1>7, <2>1, <4>1, <4>2, Zenon
      <3> QED
        BY <1>5, <2>1, <3>1, <3>2, Zenon DEF StreamingInv, PlayoutReportable
    <2> QED
      BY <1>8, <1>9, <2>1, Zenon DEF PlayoutReportable
  <1>19. NoLostWakeup' /\ (Sends \/ UNCHANGED <<rtcp_net, rtcp_stale>>)
    BY Zenon DEF Arrival
  <1> QED
    BY <1>3, <1>13, <1>14, <1>15, <1>16, <1>17, <1>18, <1>19, <1>b, MovingStep, Zenon

\* The entry of frame f that a packet finds: the one f had, or an empty one.
LEMMA DiscoveredEntry ==
    ASSUME SetFacts, Core, NEW f \in 0 .. last_enqueued_frame_id, ~IsOfNoInterest(f),
           NEW d, d = DiscoverFrames(f)[SlotOf(f)]
    PROVE  /\ EntryFor(f, d)
           /\ f <= latest_frame_expected => f \in Window /\ d = Entry(f)
           /\ ~(f <= latest_frame_expected) => d.chunks = {} /\ d.captured = FALSE
  <1>1. NumbersOK /\ f \in Int /\ SlotOf(f) \in Slots
    BY Numbers, SlotOfType DEF NumbersOK
  <1>2. checkpoint_frame < f
        /\ (f <= latest_frame_expected \/ f <= last_frame_consumed + kMaxUnackedFrames)
    BY <1>1, Sizes DEF IsOfNoInterest, NumbersOK
  <1>3. d \in QueueEntry
    BY <1>1, <1>2, DiscoverFacts, Zenon
  <1>4. CASE f <= latest_frame_expected
    <2>1. f \in Window
      BY <1>1, <1>2, <1>4 DEF Window, NumbersOK
    <2>2. d = Entry(f)
      BY <1>2, <2>1, DiscoverFacts, Zenon
    <2> QED
      BY <1>3, <1>4, <2>1, <2>2, WindowEntries, Zenon DEF EntryOK, EntryFor
  <1>5. CASE ~(f <= latest_frame_expected)
    <2>1. f \in (latest_frame_expected + 1) .. f
      BY <1>1, <1>5 DEF NumbersOK
    <2>2. d.frame_id = f /\ d.chunks = {} /\ d.captured = FALSE
      BY <1>2, <2>1, DiscoverFacts, Zenon
    <2> QED
      BY <1>3, <1>5, <2>2, Zenon DEF EntryFor
  <1> QED
    BY <1>4, <1>5, Zenon

\* A packet gives no capture time to any frame but its own.
LEMMA ReceptionKnown ==
    ASSUME Core, NEW f \in 0 .. last_enqueued_frame_id, NEW e, EntryFor(f, e), Reception(f, e)
    PROVE  \A g \in KnownToReceiver' : g \in KnownToReceiver \/ (g = f /\ e.captured)
  <1>1. NumbersOK
    BY Numbers
  <1>2. /\ latest_frame_expected' = IF f > latest_frame_expected THEN f
                                    ELSE latest_frame_expected
        /\ f \in Int /\ checkpoint_frame < f
        /\ queue'[SlotOf(f)] = e
        /\ \A h \in Window : h # f => queue'[SlotOf(h)] = Entry(h)
        /\ \A g \in (latest_frame_expected + 1) .. f :
              g # f => ~queue'[SlotOf(g)].captured
    BY ReceptionFacts
  <1>3. \A h : Entry(h)' = queue'[SlotOf(h)]
    BY DEF Entry, SlotOf
  <1>4. last_frame_consumed' = last_frame_consumed
    BY DEF Reception
  <1> SUFFICES ASSUME NEW g \in KnownToReceiver', g # f
               PROVE  g \in KnownToReceiver
    <2>1. ASSUME f \in KnownToReceiver' PROVE f \in KnownToReceiver \/ e.captured
      <3>1. f <= last_frame_consumed \/ e.captured
        BY <1>2, <1>3, <1>4, <2>1, Zenon DEF KnownToReceiver
      <3> QED
        BY <1>1, <1>2, <3>1 DEF NumbersOK
    <2> QED
      BY <2>1
  <1>5. /\ g \in Int /\ first <= g /\ g <= latest_frame_expected'
        /\ g <= last_frame_consumed \/ queue'[SlotOf(g)].captured
    BY <1>1, <1>2, <1>3, <1>4, Sizes DEF KnownToReceiver, NumbersOK
  <1>6. CASE g <= last_frame_consumed
    BY <1>1, <1>5, <1>6, Sizes DEF KnownToReceiver, NumbersOK
  <1>7. CASE ~(g <= last_frame_consumed) /\ g <= latest_frame_expected
    <2>1. g \in Window
      BY <1>1, <1>5, <1>7 DEF Window, NumbersOK
    <2>2. Entry(g).captured
      BY <1>2, <1>5, <1>7, <2>1, Zenon
    <2> QED
      BY <1>1, <1>5, <1>7, <2>2, Sizes DEF KnownToReceiver, NumbersOK
  <1>8. CASE ~(g <= latest_frame_expected)
    <2>1. g \in (latest_frame_expected + 1) .. f /\ ~(g <= last_frame_consumed)
      BY <1>1, <1>2, <1>5, <1>8 DEF NumbersOK
    <2> QED
      BY <1>2, <1>5, <2>1, Zenon
  <1> QED
    BY <1>6, <1>7, <1>8

\* A packet that completes no frame and gives no capture time gets the consumer no frame.
LEMMA ReceptionWakeup ==
    ASSUME SetFacts, StreamingInv, NEW f \in 0 .. last_enqueued_frame_id, NEW e, EntryFor(f, e),
           Reception(f, e), NEW d, d = DiscoverFrames(f)[SlotOf(f)],
           e.captured = d.captured, is_complete(e) => e = d,
           UNCHANGED <<consumer, consumption_alarm, frame_ready>>
    PROVE  NoLostWakeup'
  <1>1. Core /\ NumbersOK
    BY Numbers, Zenon DEF StreamingInv, Both
  <1>2. /\ latest_frame_expected' = IF f > latest_frame_expected THEN f
                                    ELSE latest_frame_expected
        /\ f \in Int /\ checkpoint_frame < f
        /\ queue'[SlotOf(f)] = e
        /\ \A h \in Window : h # f => queue'[SlotOf(h)] = Entry(h)
        /\ \A g \in (latest_frame_expected + 1) .. f :
              g # f => queue'[SlotOf(g)].chunks = {}
    BY <1>1, ReceptionFacts
  <1>3. /\ f <= latest_frame_expected => d = Entry(f)
        /\ ~(f <= latest_frame_expected) => d.chunks = {}
    BY <1>1, DiscoveredEntry, Zenon DEF Reception
  <1>4. last_frame_consumed' = last_frame_consumed
    BY DEF Reception
  <1>5. /\ \A h : Entry(h)' = queue'[SlotOf(h)]
        /\ \A h : IsReady(h)' <=>
                    /\ is_complete(queue'[SlotOf(h)])
                    /\ \/ h = last_frame_consumed + 1
                       \/ Metadata(queue'[SlotOf(h)]).dependency # "dependent"
    BY <1>4 DEF Entry, SlotOf, IsReady, is_complete, PacketCount, Metadata
  <1>6. ASSUME NEW h, Reachable(h)' PROVE Reachable(h)
    <2>1. /\ h \in Int /\ last_frame_consumed < h /\ h <= latest_frame_expected'
          /\ is_complete(queue'[SlotOf(h)])
          /\ \/ h = last_frame_consumed + 1
             \/ Metadata(queue'[SlotOf(h)]).dependency # "dependent"
      <3>1. h \in (last_frame_consumed + 1) .. latest_frame_expected' /\ IsReady(h)'
        BY <1>4, <1>6 DEF Reachable, Window
      <3> QED
        BY <1>1, <1>2, <1>5, <3>1 DEF NumbersOK
    <2>2. h \in Window /\ queue'[SlotOf(h)] = Entry(h)
      <3>1. CASE h = f
        <4>1. is_complete(e) /\ e = d
          BY <1>2, <2>1, <3>1, Zenon
        <4>2. f <= latest_frame_expected
          BY <1>3, <4>1, Zenon DEF is_complete
        <4>3. f \in Window
          BY <1>1, <1>2, <2>1, <3>1, <4>2 DEF Window, NumbersOK
        <4> QED
          BY <1>2, <1>3, <3>1, <4>1, <4>2, <4>3, Zenon
      <3>2. CASE h # f
        <4>1. h \notin (latest_frame_expected + 1) .. f
          BY <1>2, <2>1, <3>2, Zenon DEF is_complete
        <4>2. h \in Window
          BY <1>1, <1>2, <2>1, <4>1 DEF Window, NumbersOK
        <4> QED
          BY <1>2, <3>2, <4>2, Zenon
      <3> QED
        BY <3>1, <3>2, Zenon
    <2>3. IsReady(h)
      BY <2>1, <2>2 DEF IsReady
    <2>4. ASSUME NEW g \in (last_frame_consumed + 1) .. (h - 1)
          PROVE  Entry(g).captured
      <3>1. g \in Window
        BY <1>1, <2>2 DEF Window, NumbersOK
      <3>2. queue'[SlotOf(g)].captured
        BY <1>4, <1>5, <1>6, <2>4 DEF Reachable
      <3>3. CASE g = f
        <4>1. f <= latest_frame_expected
          BY <1>1, <3>1, <3>3 DEF Window, NumbersOK
        <4> QED
          BY <1>2, <1>3, <3>2, <3>3, <4>1, Zenon
      <3>4. CASE g # f
        BY <1>2, <3>1, <3>2, <3>4, Zenon
      <3> QED
        BY <3>3, <3>4
    <2> QED
      BY <2>2, <2>3, <2>4, Zenon DEF Reachable
  <1> QED
    BY <1>6, WakeupKept DEF StreamingInv

-----------------------------------------------------------------------------
(* Reception of a packet *)

\* A packet that is ignored still moves the base for the expansion of frame IDs.
LEMMA IgnoreInvariant ==
    ASSUME SetFacts, StreamingInv, NEW pkt \in rtp_net, IgnoreRtpPacket(pkt),
           SendsIfCheckpointMoves,
           UNCHANGED <<sender_vars, enqueued, last_delivered>>
    PROVE  StreamingInv'
  <1>1. /\ UNCHANGED <<QueueVars, playout_delay, playout_delay_changes,
                       last_key_frame_received, picture_loss_indicator, last_sender_report,
                       consumer, consumption_alarm, frame_ready, rtp_net, rtcp_net, rtcp_stale>>
        /\ ParseRtpPacket(pkt)
    BY DEF IgnoreRtpPacket, SendsIfCheckpointMoves, SendsNothing, net_vars, QueueVars
  <1>2. NumbersOK
    BY Numbers DEF StreamingInv, Both
  <1>3. /\ pkt.frame_id \in 0 .. last_enqueued_frame_id
        /\ highest_rtp_frame_id' = IF pkt.frame_id > highest_rtp_frame_id
                                   THEN pkt.frame_id ELSE highest_rtp_frame_id
    BY <1>1, FrameIdRestored, Sizes, Zenon
    DEF StreamingInv, Both, Core, PacketsGenuine, ParseRtpPacket
  <1>4. ReceiverTypeOK' /\ FramesInOrder'
    <2>1. /\ highest_rtp_frame_id' \in FrameId
          /\ latest_frame_expected <= highest_rtp_frame_id'
          /\ highest_rtp_frame_id' = first \/ highest_rtp_frame_id' <= last_enqueued_frame_id
      BY <1>2, <1>3, Sizes DEF NumbersOK, FrameId, StreamingInv, Both, Core, ReceiverTypeOK
    <2> QED
      BY <1>1, <2>1
      DEF QueueVars, sender_vars, StreamingInv, Both, Core, ReceiverTypeOK, FramesInOrder
  <1>5. NoLostWakeup'
    BY <1>1, ReachableKept, WakeupKept DEF StreamingInv
  <1>6. frame_ready' => last_frame_consumed < checkpoint_frame
    BY <1>1 DEF StreamingInv, Both, CheckpointSound
  <1> QED
    BY <1>1, <1>4, <1>5, <1>6, QuietStep, Zenon

\* A packet that is only told of: its frame is expected now.
LEMMA DropInvariant ==
    ASSUME SetFacts, StreamingInv, NEW pkt \in rtp_net, DropRtpPacket(pkt), SendsIfCheckpointMoves,
           UNCHANGED <<sender_vars, enqueued, last_delivered>>
    PROVE  StreamingInv'
  <1>1. Core /\ NumbersOK /\ CheckpointSound /\ DelaysSound
    BY Numbers DEF StreamingInv, Both
  <1>2. PICK f : f = pkt.frame_id /\ ParsedFrameId(pkt) = f
    BY <1>1, FrameIdRestored
  <1>3. PICK d : d = DiscoverFrames(f)[SlotOf(f)]
    OBVIOUS
  <1>4. /\ ~IsOfNoInterest(f) /\ ParseRtpPacket(pkt) /\ ExpectFrame(f)
        /\ queue' = DiscoverFrames(f)
        /\ UNCHANGED <<last_frame_consumed, checkpoint_frame, playout_delay,
                       picture_loss_indicator, playout_delay_changes,
                       last_key_frame_received, last_sender_report, consumer,
                       consumption_alarm, frame_ready>>
        /\ UNCHANGED <<rtp_net, rtcp_net, rtcp_stale>>
    BY <1>2 DEF DropRtpPacket, SendsIfCheckpointMoves, SendsNothing, net_vars
  <1>5. f \in 0 .. last_enqueued_frame_id /\ f \in Int /\ checkpoint_frame < f
    BY <1>1, <1>2, <1>4, Sizes DEF Core, PacketsGenuine, NumbersOK, IsOfNoInterest
  <1>6. /\ EntryFor(f, d)
        /\ f <= latest_frame_expected => d = Entry(f)
        /\ ~(f <= latest_frame_expected) => d.chunks = {} /\ d.captured = FALSE
    BY <1>1, <1>3, <1>4, <1>5, DiscoveredEntry, Zenon
  <1>7. Reception(f, d)
    <2>1. DiscoverFrames(f) = [DiscoverFrames(f) EXCEPT ![SlotOf(f)] = d]
      BY <1>3, Zenon DEF DiscoverFrames
    <2> QED
      BY <1>4, <2>1 DEF Reception
  <1>8. f = checkpoint_frame + 1 => ~is_complete(d)
    <2>1. CASE f <= latest_frame_expected
      <3>1. checkpoint_frame < latest_frame_expected
        BY <1>1, <1>5, <2>1 DEF NumbersOK
      <3> QED
        BY <1>1, <1>6, <2>1, <3>1 DEF CheckpointSound
    <2>2. CASE ~(f <= latest_frame_expected)
      BY <1>6, <2>2 DEF is_complete
    <2> QED
      BY <2>1, <2>2
  <1>9. ChangesOK(playout_delay_changes', last_frame_consumed, latest_frame_expected',
                  KnownToReceiver')
    <2>1. \A g \in KnownToReceiver' : g \in KnownToReceiver \/ (g = f /\ d.captured)
      BY <1>1, <1>5, <1>6, <1>7, ReceptionKnown
    <2>2. d.captured => f \in KnownToReceiver
      <3>1. d.captured => f \in first .. latest_frame_expected /\ Entry(f).captured
        BY <1>1, <1>5, <1>6, Sizes DEF NumbersOK
      <3> QED
        BY <3>1, Zenon DEF KnownToReceiver
    <2>3. /\ latest_frame_expected' \in Int /\ latest_frame_expected <= latest_frame_expected'
          /\ last_frame_consumed \in Int /\ last_frame_consumed <= last_frame_consumed
      BY <1>1, <1>4, <1>5 DEF ExpectFrame, NumbersOK
    <2>4. PICK expected, more : expected = latest_frame_expected' /\ more = KnownToReceiver'
      OBVIOUS
    <2>5. ChangesOK(playout_delay_changes, last_frame_consumed, expected, more)
      BY <1>1, <2>1, <2>2, <2>3, <2>4, ChangesKept, Zenon DEF DelaysSound
    <2> QED
      BY <1>4, <2>4, <2>5, Zenon
  <1>10. NoLostWakeup'
    BY <1>3, <1>4, <1>5, <1>6, <1>7, ReceptionWakeup, Zenon
  <1>11. /\ picture_loss_indicator' \in BOOLEAN /\ consumption_alarm' \in BOOLEAN
         /\ last_key_frame_received' \in FrameId \cup {null_frame}
    BY <1>1, <1>4, Zenon DEF Core, ReceiverTypeOK
  <1>12. f <= latest_frame_expected => Entry(f).chunks \subseteq d.chunks
    BY <1>6
  <1>13. Arrival(pkt, f, d)
    BY <1>2, <1>4, <1>6, <1>7, <1>8, <1>9, <1>10, <1>11, <1>12, Zenon
    DEF Arrival
  <1> QED
    BY <1>13, ReceptionStep

\* Packet pkt turns entry d of frame f into e.
CollectsInto(pkt, f, d, e) ==
    /\ EntryFor(f, e) /\ d.chunks \subseteq e.chunks
    /\ e.captured = (d.captured \/ pkt.packet_id = 0)
    /\ Collected(pkt, f) = [DiscoverFrames(f) EXCEPT ![SlotOf(f)] = e]

\* A packet on its way is one of an enqueued frame.
LEMMA PacketOnItsWay ==
    ASSUME Core, NEW pkt \in rtp_net, NEW f, f = pkt.frame_id
    PROVE  /\ f \in 0 .. last_enqueued_frame_id /\ f \in Int /\ SlotOf(f) \in Slots
           /\ pkt \in FramePackets(f)
  <1>1. f \in first .. last_enqueued_frame_id /\ pkt \in FramePackets(f)
    BY Zenon DEF Core, PacketsGenuine
  <1>2. last_enqueued_frame_id \in Int
    BY Numbers, Zenon DEF NumbersOK
  <1>3. f \in 0 .. last_enqueued_frame_id /\ f \in Int
    BY <1>1, <1>2 DEF first
  <1> QED
    BY <1>1, <1>3, SlotOfType, Zenon

\* The entry of a frame once a packet of it has been collected.
LEMMA CollectedEntry ==
    ASSUME SetFacts, Core, NEW pkt \in rtp_net, NEW f, f = pkt.frame_id, ~IsOfNoInterest(f),
           NEW d, d = DiscoverFrames(f)[SlotOf(f)], NEW e, e = Collected(pkt, f)[SlotOf(f)]
    PROVE  CollectsInto(pkt, f, d, e)
  <1>1. /\ f \in 0 .. last_enqueued_frame_id /\ f \in Int /\ SlotOf(f) \in Slots
        /\ pkt \in FramePackets(f)
    BY PacketOnItsWay, Zenon
  <1>2. EntryFor(f, d)
    BY <1>1, DiscoveredEntry, Zenon
  <1> DEFINE c == CollectRtpPacket(d, pkt)
             n == [c EXCEPT !.captured = @ \/ pkt.packet_id = 0]
  <1>3. Collected(pkt, f) = [DiscoverFrames(f) EXCEPT ![SlotOf(f)] = n]
    BY ZenonT(30) DEF Collected
  <1>4. e = n
    <2> HIDE DEF n
    <2> QED
      BY <1>1, <1>3, Zenon DEF DiscoverFrames
  <1>5. /\ d.frame_id = f /\ d.captured \in BOOLEAN /\ d.chunks \subseteq FramePackets(f)
        /\ d = [frame_id |-> d.frame_id, chunks |-> d.chunks, captured |-> d.captured]
        /\ d.captured = (\E x \in d.chunks : x.packet_id = 0)
        /\ f \in FrameId \cup {null_frame}
    BY <1>2, Zenon DEF EntryFor, QueueEntry
  <1>6. FramePackets(f) \subseteq RtpPacket
    BY <1>1, KindFacts, CutFacts, Zenon DEF FramePackets, KindOK
  <1>7. CASE \E x \in d.chunks : x.packet_id = pkt.packet_id
    <2>1. c = d
      BY <1>7, Zenon DEF CollectRtpPacket
    <2>2. pkt.packet_id = 0 => d.captured
      BY <1>5, <1>7
    <2>3. n = d
      BY <1>5, <2>1, <2>2, Zenon
    <2> HIDE DEF n
    <2>4. d.captured = (d.captured \/ pkt.packet_id = 0)
      BY <1>5, <2>2, Zenon
    <2> QED
      BY <1>2, <1>3, <1>4, <2>3, <2>4 DEF CollectsInto
  <1>8. CASE ~\E x \in d.chunks : x.packet_id = pkt.packet_id
    <2>1. c = [frame_id |-> f, chunks |-> d.chunks \cup {pkt}, captured |-> d.captured]
      BY <1>5, <1>8, Zenon DEF CollectRtpPacket
    <2>2. n = [frame_id |-> f, chunks |-> d.chunks \cup {pkt},
               captured |-> d.captured \/ pkt.packet_id = 0]
      <3> HIDE DEF c
      <3> QED
        BY <2>1
    <2> HIDE DEF n
    <2>3. n \in QueueEntry
      BY <1>1, <1>5, <1>6, <2>2, Zenon DEF QueueEntry
    <2>4. n.chunks = d.chunks \cup {pkt} /\ n.captured = (d.captured \/ pkt.packet_id = 0)
      BY <2>2
    <2>5. n.captured = (\E x \in n.chunks : x.packet_id = 0)
      BY <1>5, <2>4, Zenon
    <2>6. EntryFor(f, n)
      BY <1>1, <1>5, <2>2, <2>3, <2>5, Zenon DEF EntryFor
    <2>7. d.chunks \subseteq n.chunks
      BY <2>4, Zenon
    <2> QED
      BY <1>3, <1>4, <2>4, <2>6, <2>7, Zenon DEF CollectsInto
  <1> QED
    BY <1>7, <1>8, Zenon

\* The record of changes once a packet has been collected.
LEMMA CollectedChanges ==
    ASSUME SetFacts, Core, DelaysSound, NEW pkt \in rtp_net, NEW f, f = pkt.frame_id,
           ~IsOfNoInterest(f), NEW e, e = Collected(pkt, f)[SlotOf(f)], Reception(f, e),
           playout_delay_changes' = ChangesAfter(pkt, f)
    PROVE  ChangesOK(playout_delay_changes', last_frame_consumed, latest_frame_expected',
                     KnownToReceiver')
  <1> DEFINE npd(g) == KindOf(g).new_playout_delay
  <1>1. NumbersOK
    BY Numbers
  <1>2. /\ f \in 0 .. last_enqueued_frame_id /\ f \in Int /\ pkt \in FramePackets(f)
    BY PacketOnItsWay, Zenon
  <1>3. pkt.kind = KindOf(f)
    <2>1. f \in FrameId /\ KindOf(f) \in FrameKinds
      BY <1>2, KindFacts, Zenon DEF KindOK
    <2> QED
      BY <1>2, <2>1, CutFacts DEF FramePackets
  <1>4. PICK d : d = DiscoverFrames(f)[SlotOf(f)]
    BY Zenon
  <1>5. /\ EntryFor(f, e) /\ e.captured = (d.captured \/ pkt.packet_id = 0)
    BY <1>4, CollectedEntry DEF CollectsInto
  <1>6. /\ f <= latest_frame_expected => d = Entry(f)
        /\ ~(f <= latest_frame_expected) => d.captured = FALSE
    BY <1>2, <1>4, DiscoveredEntry, Zenon
  <1>7. /\ latest_frame_expected' \in Int /\ latest_frame_expected <= latest_frame_expected'
        /\ last_frame_consumed \in Int /\ last_frame_consumed <= last_frame_consumed
        /\ f \in first .. latest_frame_expected'
    BY <1>1, <1>2, Sizes DEF Reception, ExpectFrame, NumbersOK
  <1>8. \A g \in KnownToReceiver' : g \in KnownToReceiver \/ (g = f /\ e.captured)
    BY <1>2, <1>5, ReceptionKnown, Zenon
  <1>9. d.captured => f \in KnownToReceiver
    <2>1. d.captured => f \in first .. latest_frame_expected /\ Entry(f).captured
      BY <1>1, <1>2, <1>6, Sizes DEF NumbersOK
    <2> QED
      BY <2>1, Zenon DEF KnownToReceiver
  <1>10. GivesCaptureTime(pkt, f) <=> pkt.packet_id = 0 /\ ~d.captured
    BY <1>4 DEF GivesCaptureTime
  <1>11. PICK expected, more : expected = latest_frame_expected' /\ more = KnownToReceiver'
    OBVIOUS
  <1>12. CASE GivesCaptureTime(pkt, f) /\ npd(f) > 0
    <2>1. playout_delay_changes' = RecordNewTargetPlayoutDelay(f, npd(f))
      BY <1>3, <1>12 DEF ChangesAfter
    <2>2. ChangesOK(playout_delay_changes, last_frame_consumed, expected, KnownToReceiver)
      BY <1>7, <1>11, ChangesKept, Zenon DEF DelaysSound
    <2>3. KnownToReceiver \in SUBSET Int
      BY <1>1, Sizes DEF KnownToReceiver, NumbersOK
    <2>4. ChangesOK(RecordNewTargetPlayoutDelay(f, npd(f)), last_frame_consumed, expected,
                    KnownToReceiver \cup {f})
      BY <1>7, <1>11, <1>12, <2>2, <2>3, RecordFacts, Zenon
    <2>5. \A g \in more : g \in KnownToReceiver \cup {f}
      BY <1>8, <1>11, Zenon
    <2>6. ChangesOK(RecordNewTargetPlayoutDelay(f, npd(f)), last_frame_consumed, expected, more)
      BY <2>4, <2>5 DEF ChangesOK
    <2> QED
      BY <1>11, <2>1, <2>6, Zenon
  <1>13. CASE ~(GivesCaptureTime(pkt, f) /\ npd(f) > 0)
    <2>1. playout_delay_changes' = playout_delay_changes
      BY <1>3, <1>13 DEF ChangesAfter
    <2>2. \A g \in more : g \in KnownToReceiver \/ ~(npd(g) > 0)
      BY <1>5, <1>8, <1>9, <1>10, <1>11, <1>13, Zenon
    <2>3. ChangesOK(playout_delay_changes, last_frame_consumed, expected, more)
      BY <1>7, <1>11, <2>2, ChangesKept, Zenon DEF DelaysSound
    <2> QED
      BY <1>11, <2>1, <2>3, Zenon
  <1> QED
    BY <1>12, <1>13

\* A packet is collected, and the frame remains incomplete.
LEMMA CollectInvariant ==
    ASSUME SetFacts, StreamingInv, NEW pkt \in rtp_net, CollectPartOfFrame(pkt), SendsIfCheckpointMoves,
           UNCHANGED <<sender_vars, enqueued, last_delivered>>
    PROVE  StreamingInv'
  <1>1. Core /\ DelaysSound
    BY DEF StreamingInv, Both
  <1>2. PICK f : f = pkt.frame_id /\ ParsedFrameId(pkt) = f
    BY <1>1, FrameIdRestored, Zenon
  <1>3. PICK d, e : d = DiscoverFrames(f)[SlotOf(f)] /\ e = Collected(pkt, f)[SlotOf(f)]
    BY Zenon
  <1>4. /\ ~IsOfNoInterest(f) /\ ParseRtpPacket(pkt) /\ ExpectFrame(f)
        /\ ~is_complete(e)
        /\ queue' = Collected(pkt, f)
        /\ playout_delay_changes' = ChangesAfter(pkt, f)
        /\ consumption_alarm' = (consumption_alarm \/ GivesCaptureTime(pkt, f))
        /\ UNCHANGED <<last_frame_consumed, checkpoint_frame, playout_delay,
                       picture_loss_indicator, last_key_frame_received,
                       last_sender_report, consumer, frame_ready>>
        /\ UNCHANGED <<rtp_net, rtcp_net, rtcp_stale>>
    BY <1>2, <1>3 DEF CollectPartOfFrame, SendsIfCheckpointMoves, SendsNothing, net_vars
  <1>5. f \in 0 .. last_enqueued_frame_id /\ ~IsOfNoInterest(f)
    BY <1>1, <1>2, <1>4, Sizes DEF Core, PacketsGenuine
  <1>6. /\ EntryFor(f, e) /\ d.chunks \subseteq e.chunks
        /\ e.captured = (d.captured \/ pkt.packet_id = 0)
        /\ Collected(pkt, f) = [DiscoverFrames(f) EXCEPT ![SlotOf(f)] = e]
    <2>1. CollectsInto(pkt, f, d, e)
      BY <1>1, <1>2, <1>3, <1>5, CollectedEntry
    <2> QED
      BY <2>1, Zenon DEF CollectsInto
  <1>7. Reception(f, e)
    BY <1>4, <1>6, Zenon DEF Reception
  <1>8. ChangesOK(playout_delay_changes', last_frame_consumed, latest_frame_expected',
                  KnownToReceiver')
    BY <1>1, <1>2, <1>3, <1>4, <1>5, <1>7, CollectedChanges, Zenon
  <1>9. NoLostWakeup'
    <2>1. CASE GivesCaptureTime(pkt, f)
      BY <1>4, <2>1, Zenon DEF NoLostWakeup
    <2>2. CASE ~GivesCaptureTime(pkt, f)
      <3>1. e.captured = d.captured
        <4>1. d.captured \in BOOLEAN
          BY <1>1, <1>3, <1>4, <1>5, DiscoveredEntry, Zenon DEF EntryFor, QueueEntry
        <4> QED
          BY <1>3, <1>6, <2>2, <4>1 DEF GivesCaptureTime
      <3>2. consumption_alarm' = consumption_alarm
        BY <1>1, <1>4, <2>2, Zenon DEF Core, ReceiverTypeOK
      <3> QED
        BY <1>3, <1>4, <1>5, <1>6, <1>7, <3>1, <3>2, ReceptionWakeup
    <2> QED
      BY <2>1, <2>2
  <1>10. /\ picture_loss_indicator' \in BOOLEAN /\ consumption_alarm' \in BOOLEAN
         /\ last_key_frame_received' \in FrameId \cup {null_frame}
    BY <1>1, <1>4 DEF Core, ReceiverTypeOK
  <1>11. f <= latest_frame_expected => Entry(f).chunks \subseteq e.chunks
    BY <1>1, <1>3, <1>4, <1>5, <1>6, DiscoveredEntry, Zenon
  <1>12. Arrival(pkt, f, e)
    BY <1>2, <1>4, <1>6, <1>7, <1>8, <1>9, <1>10, <1>11, Zenon
    DEF Arrival
  <1> QED
    BY <1>12, ReceptionStep

\* A packet completes its frame; the checkpoint moves when that frame is next.
LEMMA CompleteInvariant ==
    ASSUME SetFacts, StreamingInv, NEW pkt \in rtp_net, CompleteFrame(pkt), SendsIfCheckpointMoves,
           UNCHANGED <<sender_vars, enqueued, last_delivered>>
    PROVE  StreamingInv'
  <1>1. Core /\ DelaysSound /\ NumbersOK
    BY Numbers DEF StreamingInv, Both
  <1>2. PICK f : f = pkt.frame_id /\ ParsedFrameId(pkt) = f
    BY <1>1, FrameIdRestored
  <1>3. PICK d, e : d = DiscoverFrames(f)[SlotOf(f)] /\ e = Collected(pkt, f)[SlotOf(f)]
    OBVIOUS
  <1>4. /\ ~IsOfNoInterest(f) /\ ParseRtpPacket(pkt) /\ ExpectFrame(f)
        /\ is_complete(e)
        /\ queue' = Collected(pkt, f)
        /\ playout_delay_changes' = ChangesAfter(pkt, f)
        /\ picture_loss_indicator' \in BOOLEAN
        /\ last_key_frame_received' \in {f, last_key_frame_received}
        /\ \/ /\ f = checkpoint_frame + 1
              /\ AdvanceCheckpoint(f, queue', latest_frame_expected', playout_delay_changes')
           \/ /\ f # checkpoint_frame + 1
              /\ UNCHANGED <<checkpoint_frame, playout_delay>>
        /\ consumption_alarm' = TRUE
        /\ UNCHANGED <<last_frame_consumed, last_sender_report, consumer, frame_ready>>
    BY <1>2, <1>3, Zenon DEF CompleteFrame
  <1>5. f \in 0 .. last_enqueued_frame_id /\ ~IsOfNoInterest(f)
    BY <1>1, <1>2, <1>4, Sizes DEF Core, PacketsGenuine
  <1>6. /\ EntryFor(f, e) /\ d.chunks \subseteq e.chunks
        /\ Collected(pkt, f) = [DiscoverFrames(f) EXCEPT ![SlotOf(f)] = e]
    <2>1. CollectsInto(pkt, f, d, e)
      BY <1>1, <1>2, <1>3, <1>5, CollectedEntry, Zenon
    <2> QED
      BY <2>1, Zenon DEF CollectsInto
  <1>7. Reception(f, e)
    BY <1>4, <1>6, Zenon DEF Reception
  <1>8. ChangesOK(playout_delay_changes', last_frame_consumed, latest_frame_expected',
                  KnownToReceiver')
    BY <1>1, <1>2, <1>3, <1>4, <1>5, <1>7, CollectedChanges, Zenon
  <1>9. NoLostWakeup'
    BY <1>4 DEF NoLostWakeup
  <1>10. last_key_frame_received' \in FrameId \cup {null_frame}
    <2>1. f \in FrameId
      BY <1>1, <1>5, KindFacts DEF KindOK
    <2> QED
      BY <1>1, <1>4, <2>1, Zenon DEF Core, ReceiverTypeOK
  <1>11. f <= latest_frame_expected => Entry(f).chunks \subseteq e.chunks
    BY <1>1, <1>3, <1>4, <1>5, <1>6, DiscoveredEntry, Zenon
  <1>12. /\ Sends \/ UNCHANGED <<rtcp_net, rtcp_stale>>
         /\ UNCHANGED rtp_net
    BY DEF SendsIfCheckpointMoves, Sends, SendsNothing, net_vars
  <1>13. \/ /\ UNCHANGED <<checkpoint_frame, playout_delay>>
            /\ f = checkpoint_frame + 1 => ~is_complete(e)
         \/ /\ f = checkpoint_frame + 1 /\ is_complete(e)
            /\ AdvanceCheckpoint(f, queue', latest_frame_expected', playout_delay_changes')
    BY <1>4, Zenon
  <1>14. consumption_alarm' \in BOOLEAN
    BY <1>4
  <1>15. Arrival(pkt, f, e)
    BY <1>2, <1>4, <1>6, <1>7, <1>8, <1>9, <1>10, <1>11, <1>12, <1>13, <1>14, Zenon
    DEF Arrival
  <1> QED
    BY <1>15, ReceptionStep
=============================================================================
