-------------------------- MODULE StreamingSender ---------------------------
(***************************************************************************)
(* Every operation of a Sender keeps its invariant, whatever feedback it   *)
(* is given; and that of a streaming session, whatever feedback arrives.   *)
(***************************************************************************)
EXTENDS StreamingLemmas

-----------------------------------------------------------------------------
(* The operations of a Sender *)

\* The slots in use are finitely many, so that they can be counted.
LEMMA ActiveSlotsFinite ==
    ASSUME SetFacts
    PROVE  IsFiniteSet(ActiveSlots) /\ Cardinality(ActiveSlots) \in Nat
  <1>1. IsFiniteSet(Slots)
    BY IntervalFinite, StreamingAssumption DEF Slots
  <1>2. ActiveSlots \subseteq Slots
    BY DEF ActiveSlots
  <1> QED
    BY <1>1, <1>2, SubsetFinite, CardinalityNat

\* The slot record of a frame is never taken for an unused slot.
LEMMA FrameIsNoNoFrame ==
    ASSUME NEW s \in PendingFrameSlot
    PROVE  s # NoFrame
  BY SenderAssumption DEF PendingFrameSlot

\* A frame ID within the span limit finds its slot unused.
LEMMA RingSoundGivesFreeSlot ==
    ASSUME SenderTypeOK, RingSound
    PROVE  NextSlotFree
  <1> DEFINE f == GetNextFrameId
             i == SlotOf(f)
  <1> SUFFICES ASSUME WithinIdSpan(f), pending_frames[i] # NoFrame
               PROVE  FALSE
    BY DEF NextSlotFree
  <1>1. f \in Int /\ checkpoint_frame_id \in Int /\ last_enqueued_frame_id \in Int
    BY DEF SenderTypeOK, FrameId, GetNextFrameId
  <1>2. i \in ActiveSlots
    BY <1>1, SlotOfType DEF ActiveSlots
  <1> DEFINE g == pending_frames[i].frame_id
  <1>3. /\ SlotOf(g) = i
        /\ g \in (checkpoint_frame_id + 1) .. last_enqueued_frame_id
    BY <1>2 DEF RingSound
  <1>4. f - g < kMaxUnackedFrames /\ g - f < kMaxUnackedFrames /\ g \in Int
    BY <1>1, <1>3, StreamingAssumption DEF WithinIdSpan, GetNextFrameId
  <1> HIDE DEF f, g
  <1>5. f = g
    BY <1>1, <1>3, <1>4, ModInjective, StreamingAssumption, Zenon DEF SlotOf
  <1> QED
    BY <1>1, <1>3, <1>5 DEF f, GetNextFrameId

-----------------------------------------------------------------------------
(* Each operation preserves the invariant *)

\* A new Sender satisfies the invariant.
LEMMA SenderInitInvariant ==
    ASSUME SetFacts, SenderInit
    PROVE  SenderInv
  <1> USE DEF SenderInit
  <1>1. SenderTypeOK
    <2>1. pending_frames \in [Slots -> PendingFrameSlot \cup {NoFrame}]
      OBVIOUS
    <2>2. leader \in FrameId /\ first \in FrameId
      BY DEF FrameId, leader, first
    <2>3. next_rtp_send_time \in SendTimes /\ rtcp_requested \in BOOLEAN
      BY Zenon DEF SendTimes
    <2> QED
      BY <2>1, <2>2, <2>3, StreamingAssumption DEF SenderTypeOK
  <1>2. ActiveSlots = {}
    BY DEF ActiveSlots
  <1>3. RingSound
    BY <1>2, EmptyFinite, StreamingAssumption DEF RingSound, leader
  <1>4. NoPacketForgotten
    BY <1>2 DEF NoPacketForgotten
  <1>5. NoLostSendRequest
    BY DEF NoLostSendRequest, FramesNeedingSend, KickstartNeeded, leader
  <1> QED
    BY <1>1, <1>3, <1>4, <1>5 DEF SenderInv

\* EnqueueFrame() fills a free slot, flags all packets and wakes up the router.
LEMMA SenderEnqueueInvariant ==
    ASSUME SetFacts, SenderInv, NEW kind \in FrameKinds, EnqueueFrame(kind)
    PROVE  SenderInv'
  <1> USE DEF SenderInv
  <1> DEFINE f == GetNextFrameId
             s == [frame_id |-> f, kind |-> kind,
                   send_flags |-> 0 .. (kind.packets - 1), sent |-> {}]
  <1>1. /\ f \in FrameId /\ f \in Int /\ f = last_enqueued_frame_id + 1
        /\ SlotOf(f) \in Slots
    BY SlotOfType DEF SenderTypeOK, FrameId, GetNextFrameId, leader
  <1>2. kind.packets \in Nat \ {0} /\ kind.new_playout_delay \in Nat
    BY StreamingAssumption
  <1>3. s \in PendingFrameSlot
    BY <1>1, <1>2 DEF PendingFrameSlot
  <1>4. s # NoFrame
    BY <1>3, FrameIsNoNoFrame, Zenon
  <1>5. /\ pending_frames' = [pending_frames EXCEPT ![SlotOf(f)] = s]
        /\ pending_frames'[SlotOf(f)] = s
        /\ \A i \in Slots \ {SlotOf(f)} : pending_frames'[i] = pending_frames[i]
    BY <1>1 DEF EnqueueFrame, SenderTypeOK
  <1>6. SenderTypeOK'
    <2>1. pending_frames' \in [Slots -> PendingFrameSlot \cup {NoFrame}]
      BY <1>3, <1>5, Zenon DEF SenderTypeOK
    <2>2. /\ last_enqueued_frame_id' \in FrameId
          /\ last_enqueued_key_frame_id' \in FrameId
          /\ target_playout_delay' \in Nat
          /\ playout_delay_change_at_frame_id' \in FrameId
      BY <1>1, <1>2, Zenon DEF EnqueueFrame, SenderTypeOK
    <2> QED
      BY <2>1, <2>2 DEF EnqueueFrame, SenderTypeOK, SendTimes
  <1>7. pending_frames[SlotOf(f)] = NoFrame
    BY RingSoundGivesFreeSlot DEF NextSlotFree, EnqueueFrame
  <1>8. ActiveSlots' = ActiveSlots \cup {SlotOf(f)} /\ SlotOf(f) \notin ActiveSlots
    BY <1>1, <1>4, <1>5, <1>7 DEF ActiveSlots
  <1>9. RingSound'
    <2>1. ASSUME NEW i \in ActiveSlots'
          PROVE  LET g == pending_frames'[i].frame_id
                 IN  /\ SlotOf(g) = i
                     /\ g \in (checkpoint_frame_id + 1) .. (last_enqueued_frame_id + 1)
      <3>1. CASE i = SlotOf(f)
        <4>1. f >= checkpoint_frame_id + 1
          BY <1>1 DEF RingSound, SenderTypeOK, FrameId
        <4> QED
          BY <1>1, <1>5, <3>1, <4>1 DEF SenderTypeOK, FrameId
      <3>2. CASE i # SlotOf(f)
        <4>1. i \in ActiveSlots /\ pending_frames'[i] = pending_frames[i]
          BY <1>5, <1>8, <3>2 DEF ActiveSlots
        <4> QED
          BY <4>1 DEF RingSound, SenderTypeOK, FrameId
      <3> QED
        BY <3>1, <3>2
    <2>2. /\ checkpoint_frame_id' = checkpoint_frame_id
          /\ last_enqueued_frame_id' = last_enqueued_frame_id + 1
          /\ num_frames_in_flight' = num_frames_in_flight + 1
      BY <1>1 DEF EnqueueFrame
    <2>3. last_enqueued_frame_id' - checkpoint_frame_id' \in 0 .. kMaxUnackedFrames
      BY <1>1, <2>2, StreamingAssumption
      DEF EnqueueFrame, WithinIdSpan, RingSound, SenderTypeOK, FrameId
    <2>4. num_frames_in_flight' = Cardinality(ActiveSlots')
      BY <1>8, <2>2, ActiveSlotsFinite, AddElementFinite DEF RingSound
    <2> QED
      BY <2>1, <2>2, <2>3, <2>4 DEF RingSound, SlotOf
  <1>10. NoPacketForgotten'
    <2> SUFFICES ASSUME NEW i \in ActiveSlots'
                 PROVE  pending_frames'[i].send_flags \cup pending_frames'[i].sent
                          = 0 .. (pending_frames'[i].kind.packets - 1)
      BY DEF NoPacketForgotten, PacketsOf
    <2>1. CASE i = SlotOf(f)
      <3>1. /\ s.send_flags = 0 .. (kind.packets - 1)
            /\ s.sent = {}
            /\ s.kind = kind
        OBVIOUS
      <3> HIDE DEF s
      <3> QED
        BY <1>5, <2>1, <3>1, Zenon
    <2>2. CASE i # SlotOf(f)
      BY <1>5, <1>8, <2>2 DEF NoPacketForgotten, PacketsOf, ActiveSlots
    <2> QED
      BY <2>1, <2>2
  <1>11. NoLostSendRequest'
    BY DEF EnqueueFrame, NoLostSendRequest
  <1> QED
    BY <1>6, <1>9, <1>10, <1>11

\* Marking a packet of a slot as sent moves it between the slot's two sets.
LEMMA MarkSentMovesPacket ==
    ASSUME NEW slot \in PendingFrameSlot, NEW p \in Nat
    PROVE  /\ MarkSent(slot, p) \in PendingFrameSlot
           /\ MarkSent(slot, p).frame_id = slot.frame_id
           /\ MarkSent(slot, p).kind = slot.kind
           /\ MarkSent(slot, p).send_flags \cup MarkSent(slot, p).sent
                = slot.send_flags \cup slot.sent \cup {p}
  BY Zenon DEF MarkSent, PendingFrameSlot

\* Sending a packet moves it from send_flags to sent; the router asks again
\* while GetRtpResumeTime() says that there is more.
LEMMA SendInvariant ==
    ASSUME SenderInv, NEW j \in ActiveSlots, NEW p \in PacketsOf(pending_frames[j]),
           SendRtpPacket(pending_frames[j].frame_id, p)
    PROVE  SenderInv'
  <1> USE DEF SenderInv
  <1> DEFINE s == MarkSent(pending_frames[j], p)
  <1>1. j \in Slots /\ pending_frames[j] \in PendingFrameSlot
    BY DEF ActiveSlots, SenderTypeOK
  <1>2. SlotOf(pending_frames[j].frame_id) = j
    BY DEF RingSound
  <1>3. pending_frames[j].kind.packets \in Nat
    BY <1>1, StreamingAssumption DEF PendingFrameSlot
  <1>4. /\ s \in PendingFrameSlot
        /\ s.frame_id = pending_frames[j].frame_id
        /\ s.kind = pending_frames[j].kind
        /\ s.send_flags \cup s.sent
             = pending_frames[j].send_flags \cup pending_frames[j].sent \cup {p}
    <2>1. p \in Nat
      BY <1>3 DEF PacketsOf
    <2> QED
      BY <1>1, <2>1, MarkSentMovesPacket
  <1>5. s # NoFrame
    BY <1>4, FrameIsNoNoFrame
  <1>6. /\ pending_frames' = [pending_frames EXCEPT ![j] = s]
        /\ pending_frames'[j] = s
        /\ \A i \in Slots \ {j} : pending_frames'[i] = pending_frames[i]
    BY <1>1, <1>2 DEF SendRtpPacket, SenderTypeOK
  <1> HIDE DEF s
  <1>7. /\ next_rtp_send_time' = RtpResumeTime'
        /\ UNCHANGED <<num_frames_in_flight, last_enqueued_frame_id,
                       checkpoint_frame_id, latest_expected_frame_id,
                       target_playout_delay, playout_delay_change_at_frame_id,
                       picture_lost_at_frame_id, last_enqueued_key_frame_id,
                       rtcp_requested>>
    BY DEF SendRtpPacket
  <1>8. SenderTypeOK'
    <2>1. pending_frames' \in [Slots -> PendingFrameSlot \cup {NoFrame}]
      BY <1>4, <1>6, Zenon DEF SenderTypeOK
    <2>2. next_rtp_send_time' \in SendTimes
      BY <1>7 DEF RtpResumeTime, SendTimes
    <2> QED
      BY <1>7, <2>1, <2>2 DEF SenderTypeOK
  <1>9. ActiveSlots' = ActiveSlots
    BY <1>1, <1>5, <1>6, Zenon DEF ActiveSlots
  <1>10. RingSound'
    <2>1. \A i \in ActiveSlots : pending_frames'[i].frame_id = pending_frames[i].frame_id
      BY <1>4, <1>6 DEF ActiveSlots
    <2> QED
      BY <1>7, <1>9, <2>1 DEF RingSound, SlotOf
  <1>11. NoPacketForgotten'
    <2> SUFFICES ASSUME NEW i \in ActiveSlots
                 PROVE  pending_frames'[i].send_flags \cup pending_frames'[i].sent
                          = 0 .. (pending_frames'[i].kind.packets - 1)
      BY <1>9 DEF NoPacketForgotten, PacketsOf
    <2>1. CASE i = j
      BY <1>4, <1>6, <2>1 DEF NoPacketForgotten, PacketsOf
    <2>2. CASE i # j
      BY <1>6, <2>2 DEF NoPacketForgotten, PacketsOf, ActiveSlots
    <2> QED
      BY <2>1, <2>2
  <1>12. NoLostSendRequest'
    BY <1>7 DEF NoLostSendRequest, RtpResumeTime
  <1> QED
    BY <1>8, <1>10, <1>11, <1>12

\* A burst without a packet only changes when the router asks again.
LEMMA SendNothingInvariant ==
    ASSUME SenderInv, SendNoRtpPacket
    PROVE  SenderInv'
  <1>1. /\ SenderTypeOK' /\ RingSound' /\ NoPacketForgotten'
    BY DEF SenderInv, SendNoRtpPacket, SenderTypeOK, SendTimes, RtpResumeTime, RingSound,
           ActiveSlots, SlotOf, NoPacketForgotten, PacketsOf
  <1>2. NoLostSendRequest'
    BY DEF SendNoRtpPacket, NoLostSendRequest, RtpResumeTime,
           FramesNeedingSend, KickstartNeeded, is_active_for_frame, SlotOf
  <1> QED
    BY <1>1, <1>2, Zenon DEF SenderInv

\* Giving up the frames of some slots keeps the count of slots in use right.
LEMMA CancelKeepsCount ==
    ASSUME SetFacts, RingSound, NEW C \in SUBSET ActiveSlots,
           ActiveSlots' = ActiveSlots \ C,
           num_frames_in_flight' = num_frames_in_flight - Cardinality(C)
    PROVE  /\ num_frames_in_flight' = Cardinality(ActiveSlots')
           /\ num_frames_in_flight' \in Nat
  <1>1. /\ IsFiniteSet(ActiveSlots) /\ IsFiniteSet(C)
        /\ ActiveSlots \cap C = C
    BY ActiveSlotsFinite, SubsetFinite
  <1>2. /\ IsFiniteSet(ActiveSlots \ C)
        /\ Cardinality(ActiveSlots \ C) = Cardinality(ActiveSlots) - Cardinality(C)
    BY <1>1, DifferenceFinite
  <1>3. Cardinality(ActiveSlots \ C) \in Nat
    BY <1>2, CardinalityNat
  <1> QED
    BY <1>2, <1>3 DEF RingSound

\* CancelInFlightData() empties the ring and moves the checkpoint to its end.
LEMMA SenderCancelInvariant ==
    ASSUME SetFacts, SenderInv, CancelInFlightData
    PROVE  SenderInv'
  <1> USE DEF SenderInv
  <1> DEFINE C == {i \in ActiveSlots :
                     pending_frames[i].frame_id \in
                       (checkpoint_frame_id + 1) .. last_enqueued_frame_id}
  <1>1. C = ActiveSlots
    BY DEF RingSound
  <1>2. /\ \A i \in Slots : pending_frames'[i] = NoFrame
        /\ pending_frames' \in [Slots -> PendingFrameSlot \cup {NoFrame}]
        /\ ActiveSlots' = {}
    BY <1>1 DEF CancelInFlightData, ActiveSlots, SenderTypeOK
  <1>3. /\ num_frames_in_flight' = Cardinality(ActiveSlots')
        /\ num_frames_in_flight' \in Nat
    BY <1>1, <1>2, CancelKeepsCount DEF CancelInFlightData
  <1>4. /\ checkpoint_frame_id' = last_enqueued_frame_id
        /\ UNCHANGED <<last_enqueued_frame_id, latest_expected_frame_id,
                       target_playout_delay, playout_delay_change_at_frame_id,
                       picture_lost_at_frame_id, last_enqueued_key_frame_id,
                       next_rtp_send_time, rtcp_requested>>
    BY DEF CancelInFlightData
  <1>5. SenderTypeOK'
    BY <1>2, <1>3, <1>4, Zenon DEF SenderTypeOK
  <1>6. RingSound' /\ NoPacketForgotten'
    BY <1>2, <1>3, <1>4, StreamingAssumption
    DEF RingSound, NoPacketForgotten, SenderTypeOK, FrameId
  <1>7. NoLostSendRequest'
    <2>1. FramesNeedingSend' = {}
      BY <1>4 DEF FramesNeedingSend, SenderTypeOK, FrameId
    <2> QED
      BY <1>4, <2>1, Zenon DEF NoLostSendRequest, KickstartNeeded
  <1> QED
    BY <1>5, <1>6, <1>7

\* Flagging packets of a slot for resending changes nothing else of it.
LEMMA FlagPackets ==
    ASSUME NEW slot \in PendingFrameSlot, NEW P \in SUBSET Nat
    PROVE  LET s == [slot EXCEPT !.send_flags = @ \cup P]
           IN  /\ s \in PendingFrameSlot
               /\ s.frame_id = slot.frame_id
               /\ s.kind = slot.kind
               /\ s.sent = slot.sent
               /\ s.send_flags = slot.send_flags \cup P
  BY DEF PendingFrameSlot

\* What feedback does to the slots: those it cancels are freed; in the others
\* nothing changes but send_flags, and those only when there is something to
\* resend.
LEMMA FeedbackOnSlots ==
    ASSUME SenderTypeOK, NEW fb \in Feedback, NEW resend,
           OnReceivedRtcpPacket(fb, resend)
    PROVE  /\ SlotsCanceledBy(fb) \subseteq ActiveSlots
           /\ ActiveSlots' = ActiveSlots \ SlotsCanceledBy(fb)
           /\ pending_frames' \in [Slots -> PendingFrameSlot \cup {NoFrame}]
           /\ \A i \in ActiveSlots' :
                 /\ pending_frames'[i].frame_id = pending_frames[i].frame_id
                 /\ pending_frames'[i].kind = pending_frames[i].kind
                 /\ pending_frames'[i].sent = pending_frames[i].sent
                 /\ pending_frames'[i].send_flags \cup pending_frames'[i].sent
                      = pending_frames[i].send_flags \cup pending_frames[i].sent
                 /\ resend = {} => pending_frames'[i].send_flags
                                      = pending_frames[i].send_flags
  <1> DEFINE C == SlotsCanceledBy(fb)
             N == SlotsNackedBy(fb)
             P(i) == {p \in MissingPackets(fb, i) : <<i, p>> \in resend}
             flagged(i) == [pending_frames[i] EXCEPT !.send_flags = @ \cup P(i)]
  <1>1. C \subseteq ActiveSlots /\ N \subseteq ActiveSlots /\ ActiveSlots \subseteq Slots
    BY DEF SlotsCanceledBy, SlotsNackedBy, ActiveSlots
  <1>2. \A i \in ActiveSlots : pending_frames[i] \in PendingFrameSlot
    BY Zenon DEF ActiveSlots, SenderTypeOK
  <1>3. \A i : P(i) \in SUBSET pending_frames[i].sent /\ (resend = {} => P(i) = {})
    BY Zenon DEF MissingPackets
  <1>4. \A i \in ActiveSlots : pending_frames[i].sent \in SUBSET Nat
    BY <1>2, Zenon DEF PendingFrameSlot
  <1>5. \A i \in ActiveSlots : P(i) \in SUBSET Nat
    BY <1>3, <1>4
  <1>6. pending_frames' = [i \in Slots |->
                             IF i \in C THEN NoFrame
                             ELSE IF i \in N THEN flagged(i)
                             ELSE pending_frames[i]]
    BY DEF OnReceivedRtcpPacket
  <1> HIDE DEF C, N, P
  <1>7. ASSUME NEW i \in ActiveSlots
        PROVE  /\ flagged(i) \in PendingFrameSlot
               /\ flagged(i).frame_id = pending_frames[i].frame_id
               /\ flagged(i).kind = pending_frames[i].kind
               /\ flagged(i).sent = pending_frames[i].sent
               /\ flagged(i).send_flags = pending_frames[i].send_flags \cup P(i)
    <2>1. pending_frames[i] \in PendingFrameSlot /\ P(i) \in SUBSET Nat
      BY <1>2, <1>5
    <2> QED
      BY <2>1, FlagPackets
  <1> HIDE DEF flagged
  <1>8. pending_frames' \in [Slots -> PendingFrameSlot \cup {NoFrame}]
    BY <1>1, <1>6, <1>7 DEF SenderTypeOK
  <1>9. ActiveSlots' = ActiveSlots \ C
    <2>1. \A i \in N : flagged(i) # NoFrame
      BY <1>1, <1>7, FrameIsNoNoFrame, Zenon
    <2> QED
      BY <1>1, <1>6, <2>1, Zenon DEF ActiveSlots
  <1>10. ASSUME NEW i \in ActiveSlots'
         PROVE  /\ pending_frames'[i].frame_id = pending_frames[i].frame_id
                /\ pending_frames'[i].kind = pending_frames[i].kind
                /\ pending_frames'[i].sent = pending_frames[i].sent
                /\ pending_frames'[i].send_flags \cup pending_frames'[i].sent
                     = pending_frames[i].send_flags \cup pending_frames[i].sent
                /\ resend = {} => pending_frames'[i].send_flags
                                     = pending_frames[i].send_flags
    <2>1. i \in ActiveSlots /\ i \in Slots /\ i \notin C
      BY <1>1, <1>9
    <2>2. CASE i \in N
      <3>1. pending_frames'[i] = flagged(i)
        BY <1>6, <2>1, <2>2
      <3> QED
        BY <1>3, <1>7, <2>1, <3>1, Zenon
    <2>3. CASE i \notin N
      <3>1. pending_frames'[i] = pending_frames[i]
        BY <1>6, <2>1, <2>3
      <3> QED
        BY <3>1
    <2> QED
      BY <2>2, <2>3
  <1> QED
    BY <1>1, <1>8, <1>9, <1>10, Zenon DEF C

\* Whatever a feedback message says, handling it keeps the invariant.
LEMMA SenderFeedbackInvariant ==
    ASSUME SetFacts, SenderInv, NEW fb \in Feedback, NEW resend,
           OnReceivedRtcpPacket(fb, resend)
    PROVE  SenderInv'
  <1> USE DEF SenderInv
  <1> DEFINE cp == FeedbackCheckpoint(fb)
             C == SlotsCanceledBy(fb)
  <1>1. /\ last_enqueued_frame_id \in Int /\ checkpoint_frame_id \in Int
        /\ latest_expected_frame_id \in Int /\ latest_expected_frame_id >= leader
        /\ checkpoint_frame_id >= leader /\ leader \in Int
    BY DEF SenderTypeOK, FrameId, leader
  <1>2. cp \in Int /\ cp <= last_enqueued_frame_id
    BY FeedbackFrameIds
  <1>3. /\ checkpoint_frame_id' = IF cp > checkpoint_frame_id THEN cp
                                  ELSE checkpoint_frame_id
        /\ num_frames_in_flight' = num_frames_in_flight - Cardinality(C)
        /\ next_rtp_send_time' = SendTimeAfterNacks(resend)
        /\ picture_lost_at_frame_id' = PictureLostAt(checkpoint_frame_id', fb.pli)
        /\ UNCHANGED <<last_enqueued_frame_id, target_playout_delay,
                       playout_delay_change_at_frame_id,
                       last_enqueued_key_frame_id, rtcp_requested>>
    BY DEF OnReceivedRtcpPacket
  <1>4. /\ C \subseteq ActiveSlots
        /\ ActiveSlots' = ActiveSlots \ C
        /\ pending_frames' \in [Slots -> PendingFrameSlot \cup {NoFrame}]
    BY FeedbackOnSlots
  <1>5. /\ num_frames_in_flight' = Cardinality(ActiveSlots')
        /\ num_frames_in_flight' \in Nat
    BY <1>3, <1>4, CancelKeepsCount, Zenon
  <1>6. /\ latest_expected_frame_id' \in Int
        /\ latest_expected_frame_id' >= latest_expected_frame_id
    <2>1. KnownFrames(fb) \subseteq Int
      <3>1. \A i \in SlotsNackedBy(fb) : pending_frames[i].frame_id \in Int
        BY DEF SlotsNackedBy, ActiveSlots, SenderTypeOK, PendingFrameSlot, FrameId
      <3> QED
        BY <1>1, <1>2, <3>1, FeedbackFrameIds, Zenon DEF KnownFrames
    <2>2. latest_expected_frame_id \in KnownFrames(fb)
      BY DEF KnownFrames
    <2>3. PICK m \in KnownFrames(fb) : /\ \A k \in KnownFrames(fb) : k <= m
                                       /\ latest_expected_frame_id' = m
      BY DEF OnReceivedRtcpPacket
    <2> QED
      BY <2>1, <2>2, <2>3
  <1>7. SenderTypeOK'
    <2>1. checkpoint_frame_id' \in FrameId
      BY <1>1, <1>2, <1>3 DEF SenderTypeOK, FrameId
    <2>2. latest_expected_frame_id' \in FrameId
      BY <1>1, <1>6 DEF FrameId
    <2>3. picture_lost_at_frame_id' \in FrameId
      BY <1>3, <2>1 DEF PictureLostAt, SenderTypeOK
    <2>4. next_rtp_send_time' \in SendTimes
      BY <1>3, Zenon DEF SendTimeAfterNacks, SendTimes, SenderTypeOK
    <2> QED
      BY <1>3, <1>4, <1>5, <2>1, <2>2, <2>3, <2>4, Zenon DEF SenderTypeOK
  <1>8. RingSound'
    <2>1. ASSUME NEW i \in ActiveSlots'
          PROVE  LET f == pending_frames'[i].frame_id
                 IN  /\ SlotOf(f) = i
                     /\ f \in (checkpoint_frame_id' + 1) .. last_enqueued_frame_id'
      <3> DEFINE f == pending_frames[i].frame_id
      <3>1. pending_frames'[i].frame_id = f
        BY FeedbackOnSlots
      <3>2. i \in ActiveSlots /\ i \notin C
        BY <1>4, Zenon
      <3>3. SlotOf(f) = i /\ f \in (checkpoint_frame_id + 1) .. last_enqueued_frame_id
        BY <3>2, Zenon DEF RingSound
      <3>4. f \notin (checkpoint_frame_id + 1) .. cp
        BY <3>2, Zenon DEF SlotsCanceledBy
      <3> HIDE DEF f, cp
      <3>5. f \in (cp + 1) .. last_enqueued_frame_id
        BY <1>1, <1>2, <3>3, <3>4
      <3> QED
        BY <1>3, <3>1, <3>3, <3>5, Zenon
    <2>2. last_enqueued_frame_id' - checkpoint_frame_id' \in 0 .. kMaxUnackedFrames
      BY <1>1, <1>2, <1>3, StreamingAssumption DEF RingSound
    <2> QED
      BY <1>5, <2>1, <2>2, Zenon DEF RingSound, SlotOf
  <1>9. NoPacketForgotten'
    <2> SUFFICES ASSUME NEW i \in ActiveSlots'
                 PROVE  pending_frames'[i].send_flags \cup pending_frames'[i].sent
                          = 0 .. (pending_frames'[i].kind.packets - 1)
      BY Zenon DEF NoPacketForgotten, PacketsOf
    <2>1. /\ pending_frames'[i].kind = pending_frames[i].kind
          /\ pending_frames'[i].send_flags \cup pending_frames'[i].sent
               = pending_frames[i].send_flags \cup pending_frames[i].sent
      BY FeedbackOnSlots, Zenon
    <2>2. pending_frames[i].send_flags \cup pending_frames[i].sent
            = 0 .. (pending_frames[i].kind.packets - 1)
      BY <1>4 DEF NoPacketForgotten, PacketsOf
    <2> QED
      BY <2>1, <2>2
  <1>10. NoLostSendRequest'
    <2> SUFFICES ASSUME next_rtp_send_time' = "never"
                 PROVE  FramesNeedingSend' = {} /\ ~KickstartNeeded'
      BY DEF NoLostSendRequest
    <2>1. resend = {} /\ next_rtp_send_time = "never"
      BY <1>3 DEF SendTimeAfterNacks
    <2>2. FramesNeedingSend = {} /\ ~KickstartNeeded
      BY <2>1 DEF NoLostSendRequest
    <2>3. ~KickstartNeeded'
      BY <1>1, <1>3, <1>6, <2>2 DEF KickstartNeeded
    <2>4. ASSUME NEW i \in ActiveSlots'
          PROVE  /\ pending_frames'[i].frame_id = pending_frames[i].frame_id
                 /\ pending_frames'[i].send_flags = pending_frames[i].send_flags
      BY <2>1, FeedbackOnSlots, Zenon
    <2>5. ASSUME NEW f \in FramesNeedingSend'
          PROVE  FALSE
      <3>1. /\ f \in (checkpoint_frame_id' + 1) .. last_enqueued_frame_id'
            /\ f \in Int
            /\ pending_frames'[SlotOf(f)] # NoFrame
            /\ pending_frames'[SlotOf(f)].frame_id = f
            /\ pending_frames'[SlotOf(f)].send_flags # {}
        BY <1>1, <1>2, <1>3 DEF FramesNeedingSend, is_active_for_frame, SlotOf
      <3>2. SlotOf(f) \in ActiveSlots'
        BY <3>1, SlotOfType, Zenon DEF ActiveSlots
      <3>3. is_active_for_frame(f) /\ pending_frames[SlotOf(f)].send_flags # {}
        BY <1>4, <2>4, <3>1, <3>2, Zenon DEF is_active_for_frame, ActiveSlots
      <3>4. f \in (checkpoint_frame_id + 1) .. last_enqueued_frame_id
        BY <1>1, <1>2, <1>3, <3>1
      <3> QED
        BY <2>2, <3>3, <3>4, Zenon DEF FramesNeedingSend
    <2> QED
      BY <2>3, <2>5
  <1> QED
    BY <1>7, <1>8, <1>9, <1>10

\* The invariant is inductive: one case per operation.
LEMMA SenderStepInvariant ==
    ASSUME SetFacts, SenderInv, [NextWithCancel]_sender_vars
    PROVE  SenderInv'
  <1>1. ASSUME NEW kind \in FrameKinds, EnqueueFrame(kind)
        PROVE  SenderInv'
    BY <1>1, SenderEnqueueInvariant
  <1>2. CASE SenderSends
    BY <1>2, SendInvariant, SendNothingInvariant DEF SenderSends
  <1>3. CASE ReceiveRtcp
    BY <1>3, SenderFeedbackInvariant, EnvironmentAssumption DEF ReceiveRtcp
  <1>4. CASE CancelInFlightData
    BY <1>4, SenderCancelInvariant
  <1>5. CASE UNCHANGED sender_vars
    BY <1>5, SenderKept
  <1> QED
    BY <1>1, <1>2, <1>3, <1>4, <1>5 DEF NextWithCancel, SenderNext

-----------------------------------------------------------------------------
(* A frame is enqueued *)

\* A step of the Sender leaves what the Receiver knows as it was, as long as it takes no
\* frame back.
LEMMA SenderStep ==
    ASSUME StreamingInv, UNCHANGED <<receiver_vars, last_delivered>>, KindsKept,
           SenderInv', PacketsGenuine', BeliefsTrue',
           checkpoint_frame_id' <= checkpoint_frame,
           IsDelayAt(last_enqueued_frame_id, target_playout_delay)',
           (\A g \in (playout_delay_change_at_frame_id + 1) .. last_enqueued_frame_id :
               KindOf(g).new_playout_delay = 0)'
    PROVE  /\ Both' /\ Progress
           /\ DeliveredSound' /\ PlayoutReportable' /\ NoLostWakeup'
  <1> USE DEF StreamingInv
  <1>1. Core /\ NumbersOK
    BY Numbers DEF Both
  <1>2. /\ UNCHANGED QueueVars
        /\ UNCHANGED <<queue, latest_frame_expected, last_frame_consumed, checkpoint_frame,
                       highest_rtp_frame_id, playout_delay, playout_delay_changes,
                       picture_loss_indicator, last_key_frame_received,
                       last_sender_report, consumer, consumption_alarm, frame_ready>>
    BY DEF receiver_vars, QueueVars
  <1>3. ReceiverTypeOK'
    BY <1>1, <1>2 DEF Core, ReceiverTypeOK
  <1>4. /\ last_enqueued_frame_id' \in Int
        /\ last_enqueued_frame_id <= last_enqueued_frame_id'
    BY DEF KindsKept, SenderInv, SenderTypeOK, FrameId
  <1>5. FramesInOrder'
    BY <1>1, <1>2, <1>4, Sizes DEF NumbersOK, FramesInOrder
  <1>6. \A f \in 0 .. last_enqueued_frame_id :
           KindOf(f)' = KindOf(f) /\ FramePackets(f)' = FramePackets(f)
    BY DEF KindsKept, FramePackets, Cut
  <1>7. QueueSound'
    <2>1. \A f \in Window : f \in 0 .. last_enqueued_frame_id
      BY <1>1 DEF Window, NumbersOK
    <2> QED
      BY <1>1, <1>2, <1>6, <2>1, QueueKept, Zenon DEF Core
  <1>8. CheckpointSound'
    BY <1>2, CheckpointKept, Zenon DEF Both, CheckpointSound
  <1>9. \A f : Entry(f)' = Entry(f) /\ Settled(f)' = Settled(f)
    BY <1>2, Zenon DEF Entry, SlotOf, Settled, is_complete, PacketCount
  <1>10. Progress
    BY <1>1, <1>2, <1>9 DEF Progress, NumbersOK
  <1>11. DelaysSound'
    <2>1. PICK c, d : c = checkpoint_frame /\ d = playout_delay
      OBVIOUS
    <2>2. IsDelayAt(c, d)'
      BY <1>1, <2>1, DelayKept DEF NumbersOK, Both, DelaysSound
    <2>3. KnownToReceiver' = KnownToReceiver
      BY <1>2, <1>9, Zenon DEF KnownToReceiver
    <2>4. \A g \in first .. latest_frame_expected : KindOf(g)' = KindOf(g)
      BY <1>1, <1>6, Sizes DEF NumbersOK
    <2>5. ChangesOK(playout_delay_changes, last_frame_consumed, latest_frame_expected,
                    KnownToReceiver)'
      <3>1. ChangesOK(playout_delay_changes, last_frame_consumed, latest_frame_expected,
                      KnownToReceiver)
        BY DEF Both, DelaysSound
      <3>2. KnownToReceiver \subseteq first .. latest_frame_expected
        BY DEF KnownToReceiver
      <3> QED
        BY <1>2, <2>3, <2>4, <3>1, <3>2 DEF ChangesOK, Covered
    <2> QED
      BY <1>2, <2>1, <2>2, <2>5 DEF DelaysSound
  <1>12. Both'
    BY <1>3, <1>5, <1>7, <1>8, <1>11, Zenon DEF Both, Core
  <1>13. DeliveredSound' /\ PlayoutReportable'
    BY <1>2, DeliveredKept, PlayoutKept, Zenon
  <1>14. NoLostWakeup'
    BY <1>2, ReachableKept, WakeupKept
  <1> QED
    BY <1>10, <1>12, <1>13, <1>14

\* A step that changes nothing but whether a Sender Report may arrive.
LEMMA NothingInvariant ==
    ASSUME SetFacts, StreamingInv,
           UNCHANGED <<sender_vars, receiver_vars, rtp_net, rtcp_net, rtcp_stale, enqueued,
                       last_delivered>>
    PROVE  StreamingInv'
  <1> USE DEF StreamingInv
  <1>2. /\ UNCHANGED <<sender_vars, enqueued, last_delivered, QueueVars, playout_delay,
                       playout_delay_changes, rtp_net, rtcp_net, rtcp_stale, frame_ready,
                       consumer, consumption_alarm>>
        /\ ReceiverTypeOK' /\ FramesInOrder'
    BY DEF receiver_vars, sender_vars, QueueVars, Both, Core, ReceiverTypeOK, FramesInOrder
  <1>3. NoLostWakeup'
    BY <1>2, ReachableKept, WakeupKept
  <1>4. frame_ready' => last_frame_consumed < checkpoint_frame
    BY <1>2 DEF Both, CheckpointSound
  <1> QED
    BY <1>2, <1>3, <1>4, QuietStep, Zenon

\* A frame that is enqueued takes a free slot and changes no other frame; the packets
\* that are too late by now never arrive.
LEMMA EnqueueInvariant ==
    ASSUME SetFacts, StreamingInv, NEW kind \in FrameKinds, Enqueue(kind)
    PROVE  StreamingInv'
  <1> USE DEF StreamingInv
  <1>1. Core /\ NumbersOK /\ SenderInv /\ EnqueueFrame(kind)
    BY Numbers DEF Both, Core, Enqueue
  <1>2. SenderInv'
    BY <1>1, SenderEnqueueInvariant
  <1>3. PICK f : f = last_enqueued_frame_id + 1
    OBVIOUS
  <1>4. /\ f \in Int /\ 0 <= f /\ f - 1 = last_enqueued_frame_id
        /\ SlotOf(f) \in Slots
    BY <1>1, <1>3, SlotOfType DEF NumbersOK
  <1>5. kind.packets \in Nat \ {0} /\ kind.new_playout_delay \in Nat
    BY StreamingAssumption
  <1>6. /\ last_enqueued_frame_id' = f
        /\ UNCHANGED <<checkpoint_frame_id, latest_expected_frame_id>>
        /\ enqueued' = Append(enqueued, kind)
        /\ rtp_net' = {pkt \in rtp_net : pkt.frame_id >= f - MaxLag}
        /\ UNCHANGED <<receiver_vars, last_delivered, rtcp_net, rtcp_stale>>
    BY <1>1, <1>3, Zenon DEF EnqueueFrame, Enqueue, GetNextFrameId, StillArriving
  <1>7. /\ pending_frames[SlotOf(f)] = NoFrame
        /\ pending_frames'[SlotOf(f)] # NoFrame
        /\ pending_frames'[SlotOf(f)].frame_id = f
        /\ pending_frames'[SlotOf(f)].kind = kind
        /\ \A i \in Slots \ {SlotOf(f)} : pending_frames'[i] = pending_frames[i]
    <2>1. pending_frames \in [Slots -> PendingFrameSlot \cup {NoFrame}]
      BY <1>1 DEF SenderInv, SenderTypeOK
    <2>2. pending_frames' = [pending_frames EXCEPT ![SlotOf(f)] =
             [frame_id |-> f, kind |-> kind, send_flags |-> 0 .. (kind.packets - 1),
              sent |-> {}]]
      BY <1>1, <1>3, Zenon DEF EnqueueFrame, GetNextFrameId
    <2>3. pending_frames[SlotOf(f)] = NoFrame
      BY <1>1, <1>3, RingSoundGivesFreeSlot
      DEF NextSlotFree, EnqueueFrame, SenderInv, GetNextFrameId
    <2>4. [frame_id |-> f, kind |-> kind, send_flags |-> 0 .. (kind.packets - 1),
           sent |-> {}] \in PendingFrameSlot
      <3>1. f \in FrameId
        BY <1>4, Sizes DEF FrameId
      <3>2. 0 .. (kind.packets - 1) \in SUBSET Nat /\ {} \in SUBSET Nat
        BY <1>5
      <3> QED
        BY <3>1, <3>2, Zenon DEF PendingFrameSlot
    <2> QED
      BY <1>4, <2>1, <2>2, <2>3, <2>4, FrameIsNoNoFrame, Zenon
  <1>8. /\ enqueued \in Seq(FrameKinds) /\ Len(enqueued) = f
        /\ enqueued' \in Seq(FrameKinds) /\ Len(enqueued') = f + 1
        /\ enqueued'[f + 1] = kind
        /\ \A k \in 1 .. f : enqueued'[k] = enqueued[k]
    <2>1. enqueued \in Seq(FrameKinds) /\ Len(enqueued) = f
      BY <1>1, <1>3 DEF Core, PacketsGenuine
    <2> QED
      BY <1>6, <2>1
  <1>9. KindsKept /\ KindOf(f)' = kind
    <2>1. \A g \in 0 .. last_enqueued_frame_id : g + 1 \in 1 .. f
      BY <1>4
    <2>2. last_enqueued_frame_id <= last_enqueued_frame_id'
      BY <1>1, <1>3, <1>6 DEF NumbersOK
    <2> QED
      BY <1>8, <2>1, <2>2 DEF KindsKept, KindOf
  <1>10. StaysInFlight /\ is_active_for_frame(f)'
    <2>1. is_active_for_frame(f)'
      BY <1>7, Zenon DEF is_active_for_frame, SlotOf
    <2>2. ASSUME NEW g \in Int, is_active_for_frame(g) PROVE is_active_for_frame(g)'
      <3>1. SlotOf(g) \in Slots
        BY SlotOfType
      <3>2. pending_frames'[SlotOf(g)] = pending_frames[SlotOf(g)]
        BY <1>7, <2>2, <3>1, Zenon DEF is_active_for_frame
      <3> QED
        BY <2>2, <3>2 DEF is_active_for_frame, SlotOf
    <2> QED
      BY <1>3, <1>6, <2>1, <2>2 DEF StaysInFlight
  <1>11. PacketsGenuine'
    <2>1. \A g \in 0 .. last_enqueued_frame_id :
             KindOf(g)' = KindOf(g) /\ FramePackets(g)' = FramePackets(g)
      BY <1>9 DEF KindsKept, FramePackets, Cut
    <2>2. ASSUME NEW i \in ActiveSlots'
          PROVE  (pending_frames[i].kind = KindOf(pending_frames[i].frame_id))'
      <3>1. CASE i = SlotOf(f)
        BY <1>7, <1>9, <3>1, Zenon DEF KindOf
      <3>2. CASE i # SlotOf(f)
        <4>1. i \in ActiveSlots /\ pending_frames'[i] = pending_frames[i]
          BY <1>7, <3>2, Zenon DEF ActiveSlots
        <4>2. pending_frames[i].frame_id \in 0 .. last_enqueued_frame_id
          BY <1>1, <4>1 DEF SenderInv, RingSound, NumbersOK
        <4>3. pending_frames[i].kind = KindOf(pending_frames[i].frame_id)
          BY <1>1, <4>1, Zenon DEF Core, PacketsGenuine
        <4> QED
          BY <2>1, <4>1, <4>2, <4>3, Zenon DEF KindOf
      <3> QED
        BY <3>1, <3>2, Zenon
    <2>3. ASSUME NEW pkt \in rtp_net'
          PROVE  /\ pkt.frame_id \in first .. f
                 /\ f - pkt.frame_id <= IdSpan - 1 - max_distance_for_expansion
                 /\ pkt \in FramePackets(pkt.frame_id)'
      <3>1. pkt \in rtp_net /\ pkt.frame_id >= f - MaxLag
        BY <1>6
      <3>2. pkt.frame_id \in first .. last_enqueued_frame_id /\ pkt \in FramePackets(pkt.frame_id)
        BY <1>1, <3>1, Zenon DEF Core, PacketsGenuine
      <3>3. pkt.frame_id \in Int /\ pkt.frame_id \in 0 .. last_enqueued_frame_id
        BY <1>1, <3>2, Sizes DEF NumbersOK
      <3> QED
        BY <1>4, <2>1, <3>1, <3>2, <3>3, Sizes
    <2> QED
      BY <1>4, <1>6, <1>8, <2>2, <2>3, Zenon DEF PacketsGenuine
  <1>12. BeliefsTrue'
    <2>1. \A g : Settled(g)' = Settled(g)
      BY <1>6, Zenon DEF receiver_vars, Settled, is_complete, PacketCount, Entry, SlotOf
    <2>2. ASSUME NEW g \in (checkpoint_frame_id + 1) .. f
          PROVE  is_active_for_frame(g)' \/ Settled(g)'
      <3>1. CASE g = f
        BY <1>10, <3>1, Zenon
      <3>2. CASE g # f
        <4>1. g \in Int /\ g \in (checkpoint_frame_id + 1) .. last_enqueued_frame_id
          BY <1>1, <1>4, <3>2 DEF NumbersOK
        <4> QED
          BY <1>10, <2>1, <4>1, Zenon DEF Both, BeliefsTrue, StaysInFlight
      <3> QED
        BY <3>1, <3>2
    <2>3. PICK c : c = checkpoint_frame_id + 1
      OBVIOUS
    <2>4. is_active_for_frame(c)'
      <3>1. CASE c = f
        BY <1>10, <3>1
      <3>2. CASE c # f
        <4>1. c \in Int /\ checkpoint_frame_id < last_enqueued_frame_id
          BY <1>1, <1>3, <2>3, <3>2 DEF NumbersOK, SenderInv, RingSound
        <4> QED
          BY <1>10, <2>3, <4>1, Zenon DEF Both, BeliefsTrue, StaysInFlight
      <3> QED
        BY <3>1, <3>2
    <2>5. UNCHANGED latest_frame_expected
      BY <1>6 DEF receiver_vars
    <2> QED
      BY <1>6, <2>2, <2>3, <2>4, <2>5, Zenon DEF Both, BeliefsTrue
  <1>13. /\ IsDelayAt(last_enqueued_frame_id, target_playout_delay)'
         /\ (\A g \in (playout_delay_change_at_frame_id + 1) .. last_enqueued_frame_id :
                KindOf(g).new_playout_delay = 0)'
    <2>1. CASE kind.new_playout_delay > 0
      <3>1. target_playout_delay' = kind.new_playout_delay /\ playout_delay_change_at_frame_id' = f
        BY <1>1, <1>3, <2>1, Zenon DEF EnqueueFrame, GetNextFrameId
      <3>2. (f + 1) .. f = {} /\ f \in first .. f
        BY <1>4, Sizes
      <3> QED
        BY <1>6, <1>9, <2>1, <3>1, <3>2, Zenon DEF IsDelayAt
    <2>2. CASE ~(kind.new_playout_delay > 0)
      <3>1. /\ UNCHANGED <<target_playout_delay, playout_delay_change_at_frame_id>>
            /\ kind.new_playout_delay = 0
        BY <1>1, <1>5, <2>2 DEF EnqueueFrame
      <3>2. PICK c, d : c = last_enqueued_frame_id /\ d = target_playout_delay
        BY Zenon
      <3>3. IsDelayAt(c, d)'
        BY <1>1, <1>9, <3>2, DelayKept DEF NumbersOK, Both, DelaysSound
      <3>4. c \in Int /\ f = c + 1
        BY <1>1, <1>3, <3>2 DEF NumbersOK
      <3>5. \A g \in Int : \A h \in g .. f : h \in g .. c \/ h = f
        BY <3>4
      <3>6. \A h \in first .. c : h \in first .. f /\ h + 1 \in Int
        BY <3>4, Sizes
      <3>7. IsDelayAt(f, d)'
        BY <1>9, <3>1, <3>3, <3>5, <3>6, Sizes DEF IsDelayAt
      <3>8. ASSUME NEW g \in (playout_delay_change_at_frame_id + 1) .. f
            PROVE  KindOf(g)'.new_playout_delay = 0
        <4>1. playout_delay_change_at_frame_id + 1 \in Nat
          BY <1>1, Sizes DEF SenderInv, SenderTypeOK, FrameId
        <4>2. CASE g = f
          BY <1>9, <3>1, <4>2, Zenon
        <4>3. CASE g # f
          <5>1. g \in (playout_delay_change_at_frame_id + 1) .. last_enqueued_frame_id
            BY <3>2, <3>4, <4>1, <4>3
          <5>2. g \in 0 .. last_enqueued_frame_id
            BY <1>1, <4>1, <5>1 DEF NumbersOK
          <5> QED
            BY <1>9, <5>1, <5>2 DEF Both, DelaysSound, KindsKept
        <4> QED
          BY <4>2, <4>3, Zenon
      <3> QED
        BY <1>6, <3>1, <3>2, <3>7, <3>8, Zenon
    <2> QED
      BY <2>1, <2>2
  <1>14. /\ Both' /\ Progress
         /\ DeliveredSound' /\ PlayoutReportable' /\ NoLostWakeup'
    <2>1. checkpoint_frame_id' <= checkpoint_frame
      BY <1>1, <1>6 DEF NumbersOK
    <2> QED
      BY <1>2, <1>6, <1>9, <1>11, <1>12, <1>13, <2>1, SenderStep, Zenon
  <1>15. FeedbackSound'
    BY <1>6, <1>10, <1>14, FeedbackStaysSound, Zenon
  <1> QED
    BY <1>14, <1>15

-----------------------------------------------------------------------------
(* Packets and feedback at the Sender *)

\* What a Sender step may do to the ring when it sends: nothing but mark packets as sent.
SendsFromRing ==
    /\ SenderInv'
    /\ ActiveSlots' = ActiveSlots
    /\ \A i \in ActiveSlots : /\ pending_frames'[i].frame_id = pending_frames[i].frame_id
                              /\ pending_frames'[i].kind = pending_frames[i].kind
    /\ \A pkt \in rtp_net' : pkt \in rtp_net \/
          \E i \in ActiveSlots : /\ pkt.frame_id = pending_frames[i].frame_id
                                 /\ pkt \in Cut(pkt.frame_id, pending_frames[i].kind)

\* A packet that is sent is one of those that the frame of a slot is cut into.
LEMMA SendRtpFacts ==
    ASSUME SenderInv, SendRtp
    PROVE  SendsFromRing
  <1>1. CASE SendNoRtpPacket /\ UNCHANGED rtp_net
    <2>1. SenderInv'
      BY <1>1, SendNothingInvariant
    <2> QED
      BY <1>1, <2>1, Zenon DEF SendsFromRing, SendNoRtpPacket, ActiveSlots
  <1>2. ASSUME NEW i \in ActiveSlots, NEW p \in PacketsOf(pending_frames[i]),
               SendRtpPacket(pending_frames[i].frame_id, p),
               rtp_net' = rtp_net \cup {[frame_id |-> pending_frames[i].frame_id,
                                         kind |-> pending_frames[i].kind,
                                         packet_id |-> p]}
        PROVE  SendsFromRing
    <2>1. SenderInv'
      BY <1>2, SendInvariant, Zenon
    <2>2. /\ pending_frames \in [Slots -> PendingFrameSlot \cup {NoFrame}]
          /\ i \in Slots /\ pending_frames[i] \in PendingFrameSlot
      BY DEF SenderInv, SenderTypeOK, ActiveSlots
    <2>3. pending_frames' = [pending_frames EXCEPT ![i] = MarkSent(pending_frames[i], p)]
      <3>1. SlotOf(pending_frames[i].frame_id) = i
        BY Zenon DEF SenderInv, RingSound
      <3> QED
        BY <1>2, <2>2, <3>1, Zenon DEF SendRtpPacket
    <2>4. p \in Nat
      <3>1. pending_frames[i].kind.packets \in Nat
        BY <2>2, StreamingAssumption DEF PendingFrameSlot
      <3> QED
        BY <3>1 DEF PacketsOf
    <2>5. PICK s : s = MarkSent(pending_frames[i], p)
      OBVIOUS
    <2>6. /\ s \in PendingFrameSlot /\ s # NoFrame
          /\ s.frame_id = pending_frames[i].frame_id /\ s.kind = pending_frames[i].kind
      BY <2>2, <2>4, <2>5, MarkSentMovesPacket, FrameIsNoNoFrame, Zenon
    <2>7. pending_frames'[i] = s /\ \A k \in Slots \ {i} : pending_frames'[k] = pending_frames[k]
      BY <2>2, <2>3, <2>5, Zenon
    <2>8. /\ ActiveSlots' = ActiveSlots
          /\ \A k \in ActiveSlots : /\ pending_frames'[k].frame_id = pending_frames[k].frame_id
                                    /\ pending_frames'[k].kind = pending_frames[k].kind
      BY <2>2, <2>6, <2>7, Zenon DEF ActiveSlots
    <2>9. ASSUME NEW pkt \in rtp_net'
          PROVE  pkt \in rtp_net \/
                   \E k \in ActiveSlots : /\ pkt.frame_id = pending_frames[k].frame_id
                                          /\ pkt \in Cut(pkt.frame_id, pending_frames[k].kind)
      <3>1. CASE pkt = [frame_id |-> pending_frames[i].frame_id,
                        kind |-> pending_frames[i].kind, packet_id |-> p]
        <4>1. pkt.frame_id = pending_frames[i].frame_id
          BY <3>1, Zenon
        <4>2. pkt \in Cut(pkt.frame_id, pending_frames[i].kind)
          BY <3>1, <4>1 DEF Cut, PacketsOf
        <4> QED
          BY <4>1, <4>2, Zenon
      <3> QED
        BY <1>2, <3>1
    <2> QED
      BY <2>1, <2>8, <2>9, Zenon DEF SendsFromRing
  <1> QED
    BY <1>1, <1>2 DEF SendRtp

\* The packets in flight stay genuine.
LEMMA SendRtpInvariant ==
    ASSUME SetFacts, StreamingInv, SendRtp
    PROVE  StreamingInv'
  <1> USE DEF StreamingInv
  <1>1. Core /\ NumbersOK /\ SenderInv
    BY Numbers, Zenon DEF Both, Core
  <1>2. /\ UNCHANGED <<last_enqueued_frame_id, checkpoint_frame_id, latest_expected_frame_id,
                       target_playout_delay, playout_delay_change_at_frame_id>>
        /\ UNCHANGED <<receiver_vars, rtcp_net, rtcp_stale, enqueued, last_delivered>>
    BY DEF SendRtp, SendRtpPacket, SendNoRtpPacket
  <1>3. \A g : KindOf(g)' = KindOf(g) /\ FramePackets(g)' = FramePackets(g)
    BY <1>2, Zenon DEF KindOf, FramePackets, Cut
  <1>4. KindsKept
    BY <1>1, <1>2, <1>3 DEF KindsKept, NumbersOK
  <1>5. SendsFromRing
    BY <1>1, SendRtpFacts
  <1>6. StaysInFlight
    <2>1. ASSUME NEW g \in Int, is_active_for_frame(g) PROVE is_active_for_frame(g)'
      <3>1. SlotOf(g) \in ActiveSlots
        BY <2>1, SlotOfType DEF is_active_for_frame, ActiveSlots
      <3> QED
        BY <1>5, <2>1, <3>1, Zenon DEF SendsFromRing, is_active_for_frame, SlotOf, ActiveSlots
    <2> QED
      BY <1>2, <2>1, Zenon DEF StaysInFlight
  <1>7. PacketsGenuine'
    <2>1. \A i \in ActiveSlots : pending_frames[i].kind = KindOf(pending_frames[i].frame_id)
      BY <1>1 DEF Core, PacketsGenuine
    <2>2. \A i \in ActiveSlots' : (pending_frames[i].kind = KindOf(pending_frames[i].frame_id))'
      BY <1>2, <1>5, <2>1, Zenon DEF SendsFromRing, KindOf
    <2>3. ASSUME NEW pkt \in rtp_net'
          PROVE  /\ pkt.frame_id \in first .. last_enqueued_frame_id
                 /\ last_enqueued_frame_id - pkt.frame_id
                      <= IdSpan - 1 - max_distance_for_expansion
                 /\ pkt \in FramePackets(pkt.frame_id)
      <3>1. CASE pkt \in rtp_net
        BY <1>1, <3>1, Zenon DEF Core, PacketsGenuine
      <3>2. ASSUME NEW i \in ActiveSlots, pkt.frame_id = pending_frames[i].frame_id,
                   pkt \in Cut(pkt.frame_id, pending_frames[i].kind)
            PROVE  /\ pkt.frame_id \in first .. last_enqueued_frame_id
                   /\ last_enqueued_frame_id - pkt.frame_id
                        <= IdSpan - 1 - max_distance_for_expansion
                   /\ pkt \in FramePackets(pkt.frame_id)
        <4>1. pkt.frame_id \in (checkpoint_frame_id + 1) .. last_enqueued_frame_id
          BY <1>1, <3>2, Zenon DEF SenderInv, RingSound
        <4>2. pkt \in FramePackets(pkt.frame_id)
          BY <2>1, <3>2, Zenon DEF FramePackets
        <4> QED
          BY <1>1, <4>1, <4>2, Sizes DEF NumbersOK
      <3> QED
        BY <1>5, <3>1, <3>2, Zenon DEF SendsFromRing
    <2> QED
      BY <1>1, <1>2, <1>3, <2>2, <2>3, Zenon DEF Core, PacketsGenuine
  <1>8. BeliefsTrue'
    <2>1. \A g : Settled(g)' = Settled(g)
      BY <1>2 DEF receiver_vars, Settled, is_complete, PacketCount, Entry, SlotOf
    <2>2. \A g \in (checkpoint_frame_id + 1) .. last_enqueued_frame_id : g \in Int
      BY <1>1 DEF NumbersOK
    <2>3. PICK c : c = checkpoint_frame_id + 1
      OBVIOUS
    <2>4. c \in Int
      BY <1>1, <2>3 DEF NumbersOK
    <2>5. checkpoint_frame_id < last_enqueued_frame_id => is_active_for_frame(c)'
      BY <1>6, <2>3, <2>4 DEF StaysInFlight, Both, BeliefsTrue
    <2>6. UNCHANGED latest_frame_expected
      BY <1>2 DEF receiver_vars
    <2> QED
      BY <1>2, <1>6, <2>1, <2>2, <2>3, <2>5, <2>6, Zenon DEF Both, BeliefsTrue, StaysInFlight
  <1>9. /\ IsDelayAt(last_enqueued_frame_id, target_playout_delay)'
        /\ (\A g \in (playout_delay_change_at_frame_id + 1) .. last_enqueued_frame_id :
               KindOf(g).new_playout_delay = 0)'
    BY <1>2, <1>3, Zenon DEF Both, DelaysSound, IsDelayAt
  <1>10. /\ Both' /\ Progress
         /\ DeliveredSound' /\ PlayoutReportable' /\ NoLostWakeup'
    <2>1. checkpoint_frame_id' <= checkpoint_frame
      BY <1>1, <1>2 DEF NumbersOK
    <2> QED
      BY <1>2, <1>4, <1>5, <1>7, <1>8, <1>9, <2>1, SenderStep, Zenon DEF SendsFromRing
  <1>11. FeedbackSound'
    BY <1>2, <1>6, <1>10, FeedbackStaysSound
  <1> QED
    BY <1>10, <1>11

\* What feedback that is true does to the Sender: it frees the slots of frames that the
\* Receiver has, or is done with, and moves the checkpoint to that of the message.
TakesFeedback(fb, c) ==
    /\ SenderInv'
    /\ checkpoint_frame_id' = c
    /\ latest_expected_frame_id' <= latest_frame_expected
    /\ \A g \in Int :
          is_active_for_frame(g) =>
             \/ is_active_for_frame(g)'
             \/ g <= c
             \/ g \in FeedbackAcks(fb)
    /\ \A i \in ActiveSlots' :
          /\ i \in ActiveSlots
          /\ pending_frames'[i].frame_id = pending_frames[i].frame_id
          /\ pending_frames'[i].kind = pending_frames[i].kind

\* None of it is more than the Receiver said.
LEMMA FeedbackFacts ==
    ASSUME SetFacts, Core, BeliefsTrue, NEW fb \in Feedback, FeedbackTrue(fb),
           NEW c, c = FeedbackCheckpoint(fb),
           NEW resend \in SUBSET ResendCandidates(fb), OnReceivedRtcpPacket(fb, resend)
    PROVE  TakesFeedback(fb, c)
  <1>1. NumbersOK /\ SenderInv /\ SenderTypeOK
    BY Numbers DEF Core, SenderInv
  <1>2. SenderInv'
    BY <1>1, SenderFeedbackInvariant, Zenon
  <1>3. /\ c \in Int /\ c <= last_enqueued_frame_id
        /\ checkpoint_frame_id <= c /\ c <= checkpoint_frame
        /\ \A a \in FeedbackAcks(fb) : a <= latest_frame_expected
        /\ \A n \in FeedbackNacks(fb) : n[1] <= latest_frame_expected
    BY <1>1, FeedbackFrameIds DEF FeedbackTrue
  <1>4. checkpoint_frame_id' = c
    BY <1>1, <1>3 DEF OnReceivedRtcpPacket, NumbersOK
  <1>5. latest_expected_frame_id' <= latest_frame_expected
    <2>1. latest_expected_frame_id' \in KnownFrames(fb)
      BY DEF OnReceivedRtcpPacket
    <2>2. ValidAcks(fb) \subseteq FeedbackAcks(fb)
      BY DEF ValidAcks
    <2>3. ASSUME NEW i \in SlotsNackedBy(fb)
          PROVE  pending_frames[i].frame_id <= latest_frame_expected
      BY <1>3, Zenon DEF SlotsNackedBy
    <2>4. c <= latest_frame_expected
      BY <1>1, <1>3 DEF NumbersOK
    <2> QED
      BY <1>3, <2>1, <2>2, <2>3, <2>4, Zenon DEF KnownFrames, BeliefsTrue
  <1>6. /\ ActiveSlots' = ActiveSlots \ SlotsCanceledBy(fb)
        /\ \A i \in ActiveSlots' :
              /\ pending_frames'[i].frame_id = pending_frames[i].frame_id
              /\ pending_frames'[i].kind = pending_frames[i].kind
    BY <1>1, FeedbackOnSlots, Zenon
  <1>7. ASSUME NEW g \in Int, is_active_for_frame(g)
        PROVE  \/ is_active_for_frame(g)'
               \/ g <= c
               \/ g \in FeedbackAcks(fb)
    <2>1. SlotOf(g) \in ActiveSlots /\ pending_frames[SlotOf(g)].frame_id = g
      BY <1>7, SlotOfType, Zenon DEF is_active_for_frame, ActiveSlots
    <2>2. CASE SlotOf(g) \in SlotsCanceledBy(fb)
      <3>1. \/ g \in (checkpoint_frame_id + 1) .. c
            \/ g \in ValidAcks(fb)
        BY <2>1, <2>2, Zenon DEF SlotsCanceledBy
      <3> QED
        BY <1>1, <1>3, <3>1 DEF ValidAcks, NumbersOK
    <2>3. CASE SlotOf(g) \notin SlotsCanceledBy(fb)
      <3>1. SlotOf(g) \in ActiveSlots'
        BY <1>6, <2>1, <2>3, Zenon
      <3>2. is_active_for_frame(g)'
        BY <1>6, <2>1, <3>1, Zenon DEF is_active_for_frame, ActiveSlots, SlotOf
      <3> QED
        BY <3>2
    <2> QED
      BY <2>2, <2>3
  <1> QED
    BY <1>2, <1>4, <1>5, <1>6, <1>7, Zenon DEF TakesFeedback

\* The messages that are still fresh are later ones, and the frames they wait for are
\* not among those given up.
LEMMA ReceiveFeedbackInvariant ==
    ASSUME SetFacts, StreamingInv, NEW i \in 1 .. Len(rtcp_net), ReceiveFeedback(i)
    PROVE  StreamingInv'
  <1> USE DEF StreamingInv
  <1>1. Core /\ NumbersOK /\ SenderInv /\ BeliefsTrue
    BY Numbers DEF Both, Core
  <1>2. /\ UNCHANGED <<receiver_vars, rtp_net, rtcp_net, enqueued, last_delivered>>
        /\ rtcp_stale' = i - 1
        /\ i > rtcp_stale
    BY DEF ReceiveFeedback, IsFresh
  <1>3. PICK fb, c : fb = rtcp_net[i] /\ c = FeedbackCheckpoint(fb)
    OBVIOUS
  <1>4. PICK resend \in SUBSET ResendCandidates(fb) : OnReceivedRtcpPacket(fb, resend)
    BY <1>3, Zenon DEF ReceiveFeedback
  <1>5. /\ rtcp_net \in Seq(Feedback) /\ Len(rtcp_net) \in Nat
        /\ rtcp_stale \in 0 .. Len(rtcp_net)
        /\ i \in Int /\ 1 <= i /\ i <= Len(rtcp_net)
        /\ i \in (rtcp_stale + 1) .. Len(rtcp_net)
    BY <1>2 DEF FeedbackSound, Truthful
  <1>6. fb \in Feedback /\ FeedbackTrue(fb)
    BY <1>3, <1>5 DEF FeedbackSound, Truthful
  <1>7. TakesFeedback(fb, c)
    BY <1>1, <1>3, <1>4, <1>6, FeedbackFacts, Zenon
  <1>8. /\ c \in Int /\ c <= checkpoint_frame /\ c <= last_enqueued_frame_id
        /\ checkpoint_frame_id <= c
        /\ \A a \in FeedbackAcks(fb) : Settled(a) /\ c + 1 < a
        /\ c < last_enqueued_frame_id => is_active_for_frame(c + 1)
    BY <1>1, <1>3, <1>6, FeedbackFrameIds DEF FeedbackTrue, SenderInv
  <1>9. UNCHANGED <<last_enqueued_frame_id, target_playout_delay,
                    playout_delay_change_at_frame_id>>
    BY <1>4 DEF OnReceivedRtcpPacket
  <1>10. \A g : /\ KindOf(g)' = KindOf(g) /\ FramePackets(g)' = FramePackets(g)
                /\ Settled(g)' = Settled(g)
    BY <1>2, Zenon DEF KindOf, FramePackets, Cut, receiver_vars, Settled, is_complete, PacketCount,
                Entry, SlotOf
  <1>11. KindsKept
    BY <1>1, <1>9, <1>10 DEF KindsKept, NumbersOK
  <1>12. PacketsGenuine'
    <2>1. \A k \in ActiveSlots' : (pending_frames[k].kind = KindOf(pending_frames[k].frame_id))'
      BY <1>1, <1>2, <1>7, Zenon DEF TakesFeedback, KindOf, Core, PacketsGenuine
    <2> QED
      BY <1>1, <1>2, <1>9, <1>10, <2>1, Zenon DEF Core, PacketsGenuine
  <1>13. BeliefsTrue'
    <2>1. ASSUME NEW g \in (c + 1) .. last_enqueued_frame_id
          PROVE  is_active_for_frame(g)' \/ Settled(g)'
      <3>1. /\ g \in Int /\ ~(g <= c)
            /\ g \in (checkpoint_frame_id + 1) .. last_enqueued_frame_id
        BY <1>1, <1>8 DEF NumbersOK
      <3> QED
        BY <1>1, <1>7, <1>8, <1>10, <3>1, Zenon DEF BeliefsTrue, TakesFeedback
    <2>2. PICK d : d = c + 1
      OBVIOUS
    <2>3. c < last_enqueued_frame_id => is_active_for_frame(d)'
      <3>1. d \in Int /\ ~(d <= c) /\ d \notin FeedbackAcks(fb)
        BY <1>8, <2>2
      <3> QED
        BY <1>7, <1>8, <2>2, <3>1, Zenon DEF TakesFeedback
    <2>4. UNCHANGED latest_frame_expected
      BY <1>2 DEF receiver_vars
    <2> QED
      BY <1>7, <1>9, <2>1, <2>2, <2>3, <2>4, Zenon DEF TakesFeedback, BeliefsTrue
  <1>14. /\ IsDelayAt(last_enqueued_frame_id, target_playout_delay)'
         /\ (\A g \in (playout_delay_change_at_frame_id + 1) .. last_enqueued_frame_id :
                KindOf(g).new_playout_delay = 0)'
    BY <1>9, <1>10, Zenon DEF Both, DelaysSound, IsDelayAt
  <1>15. /\ Both' /\ Progress
         /\ DeliveredSound' /\ PlayoutReportable' /\ NoLostWakeup'
    BY <1>2, <1>7, <1>8, <1>11, <1>12, <1>13, <1>14, SenderStep, Zenon DEF TakesFeedback
  <1>16. ASSUME NEW j \in i .. Len(rtcp_net)
         PROVE  /\ FeedbackTrue(rtcp_net[j])'
                /\ FeedbackCheckpoint(rtcp_net[j])' = FeedbackCheckpoint(rtcp_net[j])
                /\ FeedbackAcks(rtcp_net[j])' = FeedbackAcks(rtcp_net[j])
    <2>1. PICK m, d : m = rtcp_net[j] /\ d = FeedbackCheckpoint(m)
      OBVIOUS
    <2>2. j \in (rtcp_stale + 1) .. Len(rtcp_net) /\ i <= j
      BY <1>5
    <2>3. m \in Feedback /\ FeedbackTrue(m)
      BY <1>5, <2>1, <2>2 DEF FeedbackSound, Truthful
    <2>4. c <= d /\ d + 1 \notin FeedbackAcks(fb)
      BY <1>3, <1>5, <2>1, <2>2, Zenon DEF FeedbackSound, Truthful
    <2>5. d \in Int /\ (d < last_enqueued_frame_id => is_active_for_frame(d + 1))
      BY <1>1, <2>1, <2>3, FeedbackFrameIds, Zenon DEF FeedbackTrue, SenderInv
    <2>6. PICK e : e = d + 1
      OBVIOUS
    <2>7. d < last_enqueued_frame_id => is_active_for_frame(e)'
      <3>1. e \in Int /\ ~(e <= c)
        BY <1>8, <2>4, <2>5, <2>6
      <3> QED
        BY <1>7, <2>4, <2>5, <2>6, <3>1, Zenon DEF TakesFeedback
    <2>8. /\ FeedbackTrue(m)'
          /\ FeedbackCheckpoint(m)' = d
          /\ FeedbackAcks(m)' = FeedbackAcks(m)
      BY <1>1, <1>7, <1>9, <1>15, <2>1, <2>3, <2>4, <2>6, <2>7, FeedbackKept, Zenon
      DEF TakesFeedback, Both
    <2> QED
      BY <1>2, <2>1, <2>8, Zenon
  <1>17. FeedbackSound'
    <2>1. i - 1 \in 0 .. Len(rtcp_net) /\ (i - 1) + 1 = i
      BY <1>5
    <2>2. \A j \in i .. Len(rtcp_net) : j \in (rtcp_stale + 1) .. Len(rtcp_net)
      BY <1>5
    <2>3. \A j, k \in i .. Len(rtcp_net) :
             j <= k => /\ FeedbackCheckpoint(rtcp_net[j]) <= FeedbackCheckpoint(rtcp_net[k])
                       /\ FeedbackCheckpoint(rtcp_net[k]) + 1 \notin FeedbackAcks(rtcp_net[j])
      BY <2>2, Zenon DEF FeedbackSound, Truthful
    <2>4. \A j, k \in i .. Len(rtcp_net) :
             j <= k => (/\ FeedbackCheckpoint(rtcp_net[j]) <= FeedbackCheckpoint(rtcp_net[k])
                        /\ FeedbackCheckpoint(rtcp_net[k]) + 1 \notin FeedbackAcks(rtcp_net[j]))'
      BY <1>2, <1>16, <2>3
    <2> QED
      BY <1>2, <1>5, <1>16, <2>1, <2>4, Zenon DEF FeedbackSound, Truthful
  <1> QED
    BY <1>15, <1>17
=============================================================================
