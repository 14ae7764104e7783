-------------------------- MODULE StreamingProofs ---------------------------
(***************************************************************************)
(* What is proved of a Sender by itself, for every ring size, every set of *)
(* frames and every feedback; and of a streaming session, however packets  *)
(* are lost, repeated and reordered, which implements FrameDelivery.       *)
(***************************************************************************)
EXTENDS StreamingSender, StreamingReception, FiniteSetTheorems

-----------------------------------------------------------------------------
(* What the lemmas assume *)

\* A set of natural numbers has a least one.
LEMMA NatWellOrdered ==
    ASSUME NEW S \in SUBSET Nat, S # {}
    PROVE  \E m \in S : \A n \in S : m <= n
  <1>1. PICK m \in S : \A n \in S : ~ (<<n, m>> \in OpToRel(<, Nat))
    BY NatLessThanWellFounded, WFMin, Zenon
  <1>2. OpToRel(<, Nat) = {p \in Nat \X Nat : p[1] < p[2]}
    BY Zenon DEF OpToRel
  <1>3. ASSUME NEW n \in S PROVE m <= n
    <2>1. <<n, m>> \notin {p \in Nat \X Nat : p[1] < p[2]}
      BY <1>1, <1>2, Zenon
    <2> QED
      BY <2>1
  <1> QED
    BY <1>3

\* One-to-one functions are the bijections of the library.
LEMMA OneToOneBijection ==
    ASSUME NEW S, NEW T, ExistsOneToOne(S, T)
    PROVE  ExistsBijection(S, T)
  <1>1. PICK F \in [S -> T] : /\ \A x, y \in S : F[x] = F[y] => x = y
                              /\ \A z \in T : \E x \in S : F[x] = z
    BY Zenon DEF ExistsOneToOne
  <1>2. F \in Bijection(S, T)
    BY <1>1 DEF Bijection, Injection, Surjection, IsInjective
  <1> QED
    BY <1>2, Zenon DEF ExistsBijection

\* What the lemmas take from the library is there.
LEMMA SetFactsHold == SetFacts
  <1>1. \A S, T : IsFiniteSet(S) /\ ExistsOneToOne(S, T)
                  => IsFiniteSet(T) /\ Cardinality(T) = Cardinality(S)
    BY OneToOneBijection, FS_Bijection, Zenon
  <1>2. \A S, x : IsFiniteSet(S) /\ x \notin S
                  => Cardinality(S \cup {x}) = Cardinality(S) + 1
    BY FS_AddElement, Zenon
  <1>3. \A S, T : IsFiniteSet(S) =>
         /\ IsFiniteSet(S \ T)
         /\ Cardinality(S \ T) = Cardinality(S) - Cardinality(S \cap T)
    BY FS_Difference, Zenon
  <1>4. \A S : IsFiniteSet(S) =>
         \A T \in SUBSET S : /\ IsFiniteSet(T)
                             /\ Cardinality(T) <= Cardinality(S)
                             /\ Cardinality(S) = Cardinality(T) => S = T
    BY FS_Subset, Zenon
  <1>5. \A a, b \in Int :
         IsFiniteSet(a .. b) /\ Cardinality(a .. b) = IF a > b THEN 0 ELSE b - a + 1
    BY FS_Interval, Zenon
  <1>6. \A S : IsFiniteSet(S) => Cardinality(S) \in Nat
    BY FS_CardinalityType, Zenon
  <1>7. \A S \in SUBSET Nat : S # {} => \E m \in S : \A n \in S : m <= n
    BY NatWellOrdered, Zenon
  <1>8. /\ IsFiniteSet({}) /\ Cardinality({}) = 0
        /\ \A S : IsFiniteSet(S) => (Cardinality(S) = 0 <=> S = {})
    BY FS_EmptySet, Zenon
  <1>9. \A x : IsFiniteSet({x}) /\ Cardinality({x}) = 1
    BY FS_Singleton, Zenon
  <1> QED
    BY <1>1, <1>2, <1>3, <1>4, <1>5, <1>6, <1>7, <1>8, <1>9, Zenon DEF SetFacts

-----------------------------------------------------------------------------
(* A Sender by itself *)

\* The invariant of a Sender is inductive.
LEMMA SenderInvariant ==
    /\ SenderInit => SenderInv
    /\ SenderInv /\ [NextWithCancel]_sender_vars => SenderInv'
  BY SetFactsHold, SenderInitInvariant, SenderStepInvariant, Zenon

\* The ring of frames in flight stays sound, whatever the feedback, the frames
\* and the size of the ring, and even when the application cancels frames.
THEOREM SenderRingSound == SpecWithCancel => [](SenderTypeOK /\ RingSound)
  <1>1. SenderInv => SenderTypeOK /\ RingSound
    BY DEF SenderInv
  <1> QED
    BY SenderInvariant, <1>1, PTL DEF SpecWithCancel

\* EnqueueFrame() never finds a frame in the slot it is about to fill.
THEOREM SenderNextSlotFree == SpecWithCancel => []NextSlotFree
  <1>1. SenderInv => NextSlotFree
    BY RingSoundGivesFreeSlot, Zenon DEF SenderInv
  <1> QED
    BY SenderInvariant, <1>1, PTL DEF SpecWithCancel

\* Each packet of a frame in flight is flagged for sending or has been sent.
THEOREM SenderForgetsNoPacket == SpecWithCancel => []NoPacketForgotten
  <1>1. SenderInv => NoPacketForgotten
    BY Zenon DEF SenderInv
  <1> QED
    BY SenderInvariant, <1>1, PTL DEF SpecWithCancel

\* RTP sending is not suspended while there is something to send.
THEOREM SenderKeepsSending == SpecWithCancel => []NoLostSendRequest
  <1>1. SenderInv => NoLostSendRequest
    BY DEF SenderInv
  <1> QED
    BY SenderInvariant, <1>1, PTL DEF SpecWithCancel

\* The picture-loss condition lasts until a key frame is enqueued.
THEOREM SenderKeyFrameNeedLasts == SpecWithCancel => KeyFrameNeedLasts
  <1> DEFINE Lasts == (NeedsKeyFrame /\ ~NeedsKeyFrame')
                        => /\ last_enqueued_key_frame_id' = last_enqueued_frame_id'
                           /\ last_enqueued_frame_id' = last_enqueued_frame_id + 1
  <1>1. ASSUME SenderInv, [NextWithCancel]_sender_vars
        PROVE  [Lasts]_sender_vars
    <2>1. ASSUME NEW kind \in FrameKinds, EnqueueFrame(kind)
          PROVE  Lasts
      BY <2>1 DEF EnqueueFrame, NeedsKeyFrame, GetNextFrameId
    <2>2. CASE SenderSends
      BY <2>2 DEF SenderSends, SendRtpPacket, SendNoRtpPacket, NeedsKeyFrame
    <2>3. CASE ReceiveRtcp
      <3>1. PICK fb \in FeedbackMessages :
              \E resend \in SUBSET ResendCandidates(fb) :
                 OnReceivedRtcpPacket(fb, resend)
        BY <2>3 DEF ReceiveRtcp
      <3>2. /\ picture_lost_at_frame_id' = PictureLostAt(checkpoint_frame_id', fb.pli)
            /\ last_enqueued_key_frame_id' = last_enqueued_key_frame_id
        BY <3>1, Zenon DEF OnReceivedRtcpPacket
      <3>3. checkpoint_frame_id' \in Int /\ last_enqueued_key_frame_id \in Int
        BY <1>1, SenderInvariant, Zenon DEF SenderInv, SenderTypeOK, FrameId
      <3> QED
        BY <3>2, <3>3 DEF PictureLostAt, NeedsKeyFrame
    <2>4. CASE CancelInFlightData
      BY <2>4 DEF CancelInFlightData, NeedsKeyFrame
    <2> QED
      BY <1>1, <2>1, <2>2, <2>3, <2>4, Zenon DEF NextWithCancel, SenderNext
  <1> QED
    BY SenderInvariant, <1>1, PTL DEF SpecWithCancel, KeyFrameNeedLasts

\* Without CancelInFlightData(), the frame that a kickstart packet is taken from
\* is still in flight.
THEOREM SenderKickstartFrameActive == SenderSpec => []KickstartFrameActive
  <1> DEFINE J == SenderInv /\ KickstartFrameActive
  <1>1. SenderInit => J
    BY SenderInvariant DEF SenderInit, KickstartFrameActive, KickstartNeeded, leader
  <1>2. ASSUME J, [SenderNext]_sender_vars
        PROVE  KickstartFrameActive'
    <2>1. ASSUME NEW kind \in FrameKinds, EnqueueFrame(kind)
          PROVE  KickstartFrameActive'
      <3> DEFINE f == GetNextFrameId
                 s == [frame_id |-> f, kind |-> kind,
                       send_flags |-> 0 .. (kind.packets - 1), sent |-> {}]
      <3>1. f \in FrameId /\ f \in Int /\ SlotOf(f) \in Slots
        BY <1>2, SlotOfType DEF SenderInv, SenderTypeOK, FrameId, GetNextFrameId, leader
      <3>2. s \in PendingFrameSlot /\ s.frame_id = f
        BY <3>1, StreamingAssumption DEF PendingFrameSlot
      <3>3. pending_frames'[SlotOf(f)] = s /\ last_enqueued_frame_id' = f
        BY <1>2, <2>1, <3>1, Zenon DEF EnqueueFrame, SenderInv, SenderTypeOK
      <3> HIDE DEF f, s
      <3> QED
        BY <3>2, <3>3, FrameIsNoNoFrame, Zenon
        DEF KickstartFrameActive, is_active_for_frame, SlotOf
    <2>2. CASE SendNoRtpPacket
      BY <1>2, <2>2, Zenon DEF SendNoRtpPacket, KickstartFrameActive, KickstartNeeded,
                        is_active_for_frame, SlotOf
    <2>3. ASSUME NEW j \in ActiveSlots, NEW p \in PacketsOf(pending_frames[j]),
                 SendRtpPacket(pending_frames[j].frame_id, p)
          PROVE  KickstartFrameActive'
      <3>1. /\ j \in Slots /\ pending_frames[j] \in PendingFrameSlot
            /\ SlotOf(pending_frames[j].frame_id) = j
        BY <1>2 DEF SenderInv, ActiveSlots, SenderTypeOK, RingSound
      <3>2. p \in Nat
        BY <3>1, StreamingAssumption DEF PacketsOf, PendingFrameSlot
      <3> DEFINE s == MarkSent(pending_frames[j], p)
      <3>3. pending_frames' = [pending_frames EXCEPT ![j] = s]
        BY <2>3, <3>1, Zenon DEF SendRtpPacket
      <3>4. s # NoFrame /\ s.frame_id = pending_frames[j].frame_id
        BY <3>1, <3>2, MarkSentMovesPacket, FrameIsNoNoFrame, Zenon
      <3> HIDE DEF s
      <3>5. \A i \in Slots : pending_frames[i] # NoFrame =>
                /\ pending_frames'[i] # NoFrame
                /\ pending_frames'[i].frame_id = pending_frames[i].frame_id
        BY <1>2, <3>1, <3>3, <3>4, Zenon DEF SenderInv, SenderTypeOK
      <3>6. SlotOf(last_enqueued_frame_id) \in Slots
        BY <1>2, SlotOfType, Zenon DEF SenderInv, SenderTypeOK, FrameId
      <3>7. UNCHANGED <<last_enqueued_frame_id, latest_expected_frame_id>>
        BY <2>3 DEF SendRtpPacket
      <3> QED
        BY <1>2, <3>5, <3>6, <3>7, Zenon
        DEF KickstartFrameActive, KickstartNeeded, is_active_for_frame, SlotOf
    <2>4. ASSUME NEW fb \in Feedback, NEW resend, OnReceivedRtcpPacket(fb, resend)
          PROVE  KickstartFrameActive'
      <3> DEFINE last == last_enqueued_frame_id
                 i == SlotOf(last)
      <3> SUFFICES ASSUME KickstartNeeded'
                   PROVE  is_active_for_frame(last)'
        BY <2>4, Zenon DEF KickstartFrameActive, OnReceivedRtcpPacket
      <3>1. /\ last \in Int /\ last' = last /\ i \in Slots
            /\ latest_expected_frame_id \in Int /\ checkpoint_frame_id \in Int
        BY <1>2, <2>4, SlotOfType, Zenon DEF SenderInv, SenderTypeOK, FrameId, OnReceivedRtcpPacket
      <3>2. KnownFrames(fb) \subseteq Int /\ latest_expected_frame_id \in KnownFrames(fb)
        <4>1. \A k \in SlotsNackedBy(fb) : pending_frames[k].frame_id \in Int
          BY <1>2 DEF SenderInv, SlotsNackedBy, ActiveSlots, SenderTypeOK, PendingFrameSlot, FrameId
        <4> QED
          BY <1>2, <3>1, <4>1, FeedbackFrameIds, Zenon DEF KnownFrames, SenderInv
      <3>3. PICK m \in KnownFrames(fb) : /\ \A k \in KnownFrames(fb) : k <= m
                                         /\ latest_expected_frame_id' = m
        BY <2>4, Zenon DEF OnReceivedRtcpPacket
      <3>4. m < last
        BY <3>1, <3>3, Zenon DEF KickstartNeeded
      <3>5. KickstartNeeded
        BY <3>1, <3>2, <3>3, <3>4 DEF KickstartNeeded
      <3>6. i \in ActiveSlots /\ pending_frames[i].frame_id = last
        BY <1>2, <3>1, <3>5, Zenon DEF KickstartFrameActive, is_active_for_frame, ActiveSlots
      <3>7. \A k \in KnownFrames(fb) : k < last
        BY <3>1, <3>2, <3>3, <3>4
      <3>8. FeedbackCheckpoint(fb) < last /\ last \notin ValidAcks(fb)
        <4>1. FeedbackCheckpoint(fb) \in KnownFrames(fb)
          BY DEF KnownFrames
        <4>2. ValidAcks(fb) \subseteq KnownFrames(fb)
          BY DEF KnownFrames
        <4>3. ~(last < last)
          BY <3>1
        <4> QED
          BY <3>7, <4>1, <4>2, <4>3, Zenon
      <3>9. i \notin SlotsCanceledBy(fb)
        <4>1. FeedbackCheckpoint(fb) \in Int
          BY <1>2, FeedbackFrameIds, Zenon DEF SenderInv
        <4>2. last \notin (checkpoint_frame_id + 1) .. FeedbackCheckpoint(fb)
          BY <3>1, <3>8, <4>1
        <4> QED
          BY <3>6, <3>8, <4>2, Zenon DEF SlotsCanceledBy
      <3>10. i \in ActiveSlots'
        BY <1>2, <2>4, <3>6, <3>9, FeedbackOnSlots, Zenon DEF SenderInv
      <3>11. pending_frames'[i].frame_id = last
        BY <1>2, <2>4, <3>6, <3>10, FeedbackOnSlots, Zenon DEF SenderInv
      <3> QED
        BY <3>1, <3>10, <3>11, Zenon DEF is_active_for_frame, ActiveSlots, SlotOf
    <2>5. CASE UNCHANGED sender_vars
      BY <1>2, <2>5, Zenon DEF sender_vars, KickstartFrameActive, KickstartNeeded,
                        is_active_for_frame
    <2> QED
      BY <1>2, <2>1, <2>2, <2>3, <2>4, <2>5, EnvironmentAssumption, Zenon
      DEF SenderNext, SenderSends, ReceiveRtcp
  <1>3. J /\ [SenderNext]_sender_vars => J'
    BY <1>2, SenderInvariant, Zenon DEF NextWithCancel
  <1> QED
    BY <1>1, <1>3, PTL DEF SenderSpec

-----------------------------------------------------------------------------
(* A session: the invariant holds throughout *)

\* It holds before the first frame.
LEMMA InitInvariant == Init => StreamingInv
  <1> SUFFICES ASSUME Init PROVE StreamingInv
    OBVIOUS
  <1> USE SetFactsHold
  <1> USE DEF Init
  <1>1. SenderInv
    BY SenderInitInvariant, Zenon
  <1>2. /\ last_enqueued_frame_id = -1 /\ checkpoint_frame_id = -1
        /\ latest_expected_frame_id = -1 /\ pending_frames = [i \in Slots |-> NoFrame]
        /\ target_playout_delay = InitialPlayoutDelay
        /\ playout_delay_change_at_frame_id = 0
    BY Sizes, Zenon DEF SenderInit
  <1>3. /\ latest_frame_expected = -1 /\ last_frame_consumed = -1 /\ checkpoint_frame = -1
        /\ highest_rtp_frame_id = 0 /\ playout_delay = InitialPlayoutDelay
        /\ queue = [i \in Slots |-> [frame_id |-> null_frame, chunks |-> {},
                                     captured |-> FALSE]]
        /\ playout_delay_changes = {<<leader, InitialPlayoutDelay>>}
        /\ frame_ready = FALSE /\ consumer = FALSE
    BY Sizes DEF ReceiverInit
  <1>4. ReceiverTypeOK
    <2>1. [frame_id |-> null_frame, chunks |-> {}, captured |-> FALSE] \in QueueEntry
      BY DEF QueueEntry
    <2>2. queue \in [Slots -> QueueEntry]
      BY <1>3, <2>1, Zenon
    <2>3. /\ latest_frame_expected \in FrameId /\ last_frame_consumed \in FrameId
          /\ checkpoint_frame \in FrameId /\ highest_rtp_frame_id \in FrameId
          /\ playout_delay \in Nat
      BY <1>3, Sizes DEF FrameId
    <2> QED
      BY <2>2, <2>3, Zenon DEF ReceiverInit, ReceiverTypeOK
  <1>5. PacketsGenuine
    <2>1. ActiveSlots = {}
      BY <1>2 DEF ActiveSlots
    <2>2. enqueued \in Seq(FrameKinds) /\ Len(enqueued) = 0
      OBVIOUS
    <2> QED
      BY <1>2, <2>1, <2>2 DEF PacketsGenuine
  <1>6. FramesInOrder
    BY <1>2, <1>3, Sizes DEF FramesInOrder
  <1>7. QueueSound
    BY <1>3 DEF QueueSound, Window
  <1>8. CheckpointSound /\ PlayoutReportable /\ NoLostWakeup
    BY <1>3, Sizes DEF CheckpointSound, PlayoutReportable, NoLostWakeup
  <1>9. BeliefsTrue
    BY <1>2, <1>3 DEF BeliefsTrue
  <1>10. DelaysSound
    <2>1. first .. (-1) = {} /\ (0 + 1) .. (-1) = {}
      BY Sizes
    <2>2. IsDelayAt(-1, InitialPlayoutDelay)
      BY <2>1, Zenon DEF IsDelayAt
    <2>3. KnownToReceiver = {}
      BY <1>3, <2>1, Zenon DEF KnownToReceiver
    <2>4. ChangesOK({<<leader, InitialPlayoutDelay>>}, -1, -1, {})
      BY DEF ChangesOK, Covered
    <2> QED
      BY <1>2, <1>3, <2>1, <2>2, <2>3, <2>4, Zenon DEF DelaysSound
  <1>11. FeedbackSound
    <2>1. rtcp_net \in Seq(Feedback) /\ Len(rtcp_net) = 0 /\ rtcp_stale = 0
      OBVIOUS
    <2> QED
      BY <2>1 DEF FeedbackSound, Truthful
  <1>12. DeliveredSound
    BY <1>3, Sizes DEF DeliveredSound
  <1> QED
    BY <1>1, <1>4, <1>5, <1>6, <1>7, <1>8, <1>9, <1>10, <1>11, <1>12, Zenon
    DEF StreamingInv, Both, Core

\* Every step keeps it.
LEMMA StepInvariant == StreamingInv /\ [Next]_vars => StreamingInv'
  <1> SUFFICES ASSUME StreamingInv, [Next]_vars PROVE StreamingInv'
    BY Zenon
  <1> USE SetFactsHold
  <1>1. ASSUME NEW kind \in FrameKinds, Enqueue(kind) PROVE StreamingInv'
    BY <1>1, EnqueueInvariant, Zenon
  <1>2. CASE SendRtp
    BY <1>2, SendRtpInvariant, Zenon
  <1>3. CASE SendSenderReport
    BY <1>3, NothingInvariant, Zenon DEF SendSenderReport
  <1>4. ASSUME NEW i \in 1 .. Len(rtcp_net), ReceiveFeedback(i) PROVE StreamingInv'
    BY <1>4, ReceiveFeedbackInvariant, Zenon
  <1>5. ASSUME NEW pkt \in rtp_net, ReceiveRtp(pkt) PROVE StreamingInv'
    <2>1. SendsIfCheckpointMoves /\ UNCHANGED <<sender_vars, enqueued, last_delivered>>
      BY <1>5 DEF ReceiveRtp
    <2>2. CASE IgnoreRtpPacket(pkt)
      BY <2>1, <2>2, IgnoreInvariant, Zenon
    <2>3. CASE DropRtpPacket(pkt)
      BY <2>1, <2>3, DropInvariant, Zenon
    <2>4. CASE CollectPartOfFrame(pkt)
      BY <2>1, <2>4, CollectInvariant
    <2>5. CASE CompleteFrame(pkt)
      BY <2>1, <2>5, CompleteInvariant
    <2> QED
      BY <1>5, <2>2, <2>3, <2>4, <2>5, Zenon DEF ReceiveRtp, OnReceivedRtpPacket
  <1>6. CASE ReceiveSenderReport \/ ReportAgain \/ DecoderLosesPicture
    BY <1>6, ReportInvariant, Zenon
  <1>7. CASE FrameReadyCheck
    <2>1. SendsIfCheckpointMoves /\ UNCHANGED <<sender_vars, enqueued, last_delivered>>
      BY <1>7 DEF FrameReadyCheck
    <2>2. CASE NextFrameReady
      BY <2>1, <2>2, NextReadyInvariant, Zenon
    <2>3. ASSUME NEW late \in last_frame_consumed .. latest_frame_expected,
                 SkipToFrame(late + 1, late) \/ NoFrameReady(late)
          PROVE  StreamingInv'
      <3>1. late \in Int
        OBVIOUS
      <3>2. CASE NoFrameReady(late)
        BY <2>1, <3>1, <3>2, NoneReadyInvariant, Zenon
      <3>3. CASE SkipToFrame(late + 1, late)
        <4>1. PICK f : f = late + 1
          OBVIOUS
        <4>2. SkipToFrame(f, late)
          BY <3>3, <4>1, Zenon
        <4> QED
          BY <2>1, <3>1, <4>1, <4>2, SkipInvariant, Zenon
      <3> QED
        BY <2>3, <3>2, <3>3, Zenon
    <2> QED
      BY <1>7, <2>2, <2>3, Zenon DEF FrameReadyCheck
  <1>8. CASE Consume
    BY <1>8, ConsumeInvariant
  <1>9. CASE AttachConsumer
    BY <1>9, AttachInvariant
  <1>10. CASE UNCHANGED vars
    BY <1>10, NothingInvariant, Zenon DEF vars, net_vars
  <1> QED
    BY <1>1, <1>2, <1>3, <1>4, <1>5, <1>6, <1>7, <1>8, <1>9, <1>10, Zenon DEF Next, Transport

\* In every state of a session, however packets are lost, repeated and reordered, what
\* each side knows of the other and what is under way between them is true.
THEOREM StreamingInvariant == Spec => []StreamingInv
  BY InitInvariant, StepInvariant, PTL DEF Spec

-----------------------------------------------------------------------------
(* What follows from the invariant *)

\* The CHECKs in ConsumeNextFrame() never fail: what the consumer was told of is there
\* when it asks for it.
THEOREM ReadyFrameIsThere == Spec => []ReadyFrameStays
  <1> USE SetFactsHold
  <1>1. StreamingInv => ReadyFrameStays
    <2> SUFFICES ASSUME StreamingInv, frame_ready, NEW f, f = last_frame_consumed + 1
                 PROVE  f <= checkpoint_frame /\ is_complete(Entry(f)) /\ Entry(f).captured
      BY DEF ReadyFrameStays
    <2>1. Core /\ NumbersOK /\ CheckpointSound
      BY Numbers, Zenon DEF StreamingInv, Both
    <2>2. f <= checkpoint_frame /\ f \in (last_frame_consumed + 1) .. checkpoint_frame
          /\ f \in Window
      BY <2>1 DEF CheckpointSound, NumbersOK, Window
    <2> QED
      BY <2>1, <2>2, WindowEntries, Zenon DEF CheckpointSound, EntryOK
  <1> QED
    BY <1>1, StreamingInvariant, PTL

\* The Receiver's checkpoint is exact, for every ring size, every set of frame kinds and
\* every network within its bounds; with it, every variable has its type.
THEOREM CheckpointIsExact == Spec => []CheckpointExact
  <1> USE SetFactsHold
  <1>1. ASSUME StreamingInv PROVE TypeOK
    <2>1. Core /\ NumbersOK
      BY <1>1, Numbers, Zenon DEF StreamingInv, Both
    <2>2. \A i \in Slots : pending_frames[i] \in PendingFrameSlot \cup {NoFrame}
      BY <2>1, Zenon DEF Core, SenderInv, SenderTypeOK
    <2>3. num_frames_in_flight \in 0 .. kMaxUnackedFrames
      <3>1. kMaxUnackedFrames - 1 \in Int /\ ~(0 > kMaxUnackedFrames - 1)
            /\ (kMaxUnackedFrames - 1) - 0 + 1 = kMaxUnackedFrames
        BY Sizes
      <3>2. IsFiniteSet(Slots) /\ Cardinality(Slots) = kMaxUnackedFrames
        <4>1. /\ IsFiniteSet(0 .. (kMaxUnackedFrames - 1))
              /\ Cardinality(0 .. (kMaxUnackedFrames - 1))
                   = IF 0 > kMaxUnackedFrames - 1 THEN 0
                     ELSE (kMaxUnackedFrames - 1) - 0 + 1
          BY <3>1, IntervalFinite
        <4> QED
          BY <3>1, <4>1, Zenon DEF Slots
      <3>3. ActiveSlots \subseteq Slots
        BY DEF ActiveSlots
      <3>4. Cardinality(ActiveSlots) <= kMaxUnackedFrames
        BY <3>2, <3>3, SubsetFinite, Zenon
      <3>5. num_frames_in_flight = Cardinality(ActiveSlots) /\ num_frames_in_flight \in Nat
        BY <2>1, Zenon DEF Core, SenderInv, RingSound, SenderTypeOK
      <3> QED
        BY <3>4, <3>5, Sizes
    <2>4. \A i \in Slots : QueueEntryOK(queue[i])
      <3>1. \A i \in Slots : queue[i] \in QueueEntry
        BY <2>1, Zenon DEF Core, ReceiverTypeOK
      <3> QED
        BY <3>1, Zenon DEF QueueEntry, QueueEntryOK
    <2>5. /\ {last_enqueued_frame_id, checkpoint_frame_id, latest_expected_frame_id,
              latest_frame_expected, last_frame_consumed, checkpoint_frame,
              highest_rtp_frame_id} \subseteq FrameId
          /\ last_key_frame_received \in FrameId \cup {null_frame}
      BY <2>1, Zenon DEF Core, SenderInv, SenderTypeOK, ReceiverTypeOK
    <2>6. ASSUME NEW pkt \in rtp_net PROVE pkt \in RtpPacket
      <3>1. pkt.frame_id \in 0 .. last_enqueued_frame_id /\ pkt \in FramePackets(pkt.frame_id)
        BY <2>1, Sizes, Zenon DEF Core, PacketsGenuine
      <3>2. pkt.frame_id \in FrameId /\ KindOf(pkt.frame_id) \in FrameKinds
        BY <2>1, <3>1, KindFacts, Zenon DEF KindOK
      <3> QED
        BY <3>1, <3>2, CutFacts, Zenon DEF FramePackets
    <2>7. /\ \A i \in 1 .. Len(rtcp_net) : rtcp_net[i] \in Feedback
          /\ rtcp_stale \in 0 .. Len(rtcp_net)
      BY <1>1 DEF StreamingInv, FeedbackSound, Truthful
    <2> QED
      BY <2>2, <2>3, <2>4, <2>5, <2>6, <2>7, Zenon DEF TypeOK
  <1>2. ASSUME StreamingInv PROVE CheckpointExact
    <2>1. Core /\ NumbersOK /\ CheckpointSound
      BY <1>2, Numbers, Zenon DEF StreamingInv, Both
    <2>2. ASSUME NEW f \in (last_frame_consumed + 1) .. checkpoint_frame
          PROVE  is_complete(Entry(f)) /\ Entry(f).captured
      <3>1. f \in Window
        BY <2>1 DEF Window, NumbersOK
      <3> QED
        BY <2>1, <3>1, WindowEntries, Zenon DEF CheckpointSound, EntryOK
    <2> QED
      BY <1>1, <1>2, <2>1, <2>2, Zenon DEF CheckpointExact, CheckpointSound, NumbersOK
  <1>3. StreamingInv => CheckpointExact
    BY <1>2, Zenon
  <1> QED
    BY <1>3, StreamingInvariant, PTL

\* A frame is put together from its own packets only, and a slot is clean when it is
\* given to a new frame.
THEOREM FramesAreNotMixed == Spec => []ChunksBelongToFrame
  <1> USE SetFactsHold
  <1>1. StreamingInv => ChunksBelongToFrame
    <2> SUFFICES ASSUME StreamingInv PROVE ChunksBelongToFrame
      OBVIOUS
    <2>1. Core /\ NumbersOK /\ QueueSound
      BY Numbers DEF StreamingInv, Both, Core
    <2>2. ASSUME NEW i \in Slots
          PROVE  /\ \A c \in queue[i].chunks : c.frame_id = queue[i].frame_id
                 /\ (\A f \in (last_frame_consumed + 1) .. latest_frame_expected :
                       SlotOf(f) # i) => queue[i].chunks = {}
      <3>1. CASE queue[i].chunks = {}
        BY <3>1, Zenon
      <3>2. CASE /\ queue[i].frame_id \in Window /\ SlotOf(queue[i].frame_id) = i
                 /\ queue[i].chunks \subseteq FramePackets(queue[i].frame_id)
        <4>1. queue[i].frame_id \in 0 .. last_enqueued_frame_id
          BY <2>1, <3>2 DEF Window, NumbersOK
        <4>2. /\ queue[i].frame_id \in FrameId
              /\ KindOf(queue[i].frame_id) \in FrameKinds
          BY <2>1, <4>1, KindFacts, Zenon DEF KindOK
        <4>3. \A c \in FramePackets(queue[i].frame_id) : c.frame_id = queue[i].frame_id
          BY <4>2, CutFacts, Zenon DEF FramePackets
        <4> QED
          BY <3>2, <4>3, Zenon DEF Window
      <3> QED
        BY <2>1, <3>1, <3>2, Zenon DEF QueueSound
    <2> QED
      BY <2>1, <2>2, Zenon DEF ChunksBelongToFrame, NumbersOK
  <1> QED
    BY <1>1, StreamingInvariant, PTL

\* The Sender gives up no frame that the Receiver still needs.
THEOREM NoFrameCanceledEarly == Spec => []NothingCanceledEarly
  <1>1. StreamingInv => NothingCanceledEarly
    BY Numbers, Zenon DEF StreamingInv, Both, NumbersOK, BeliefsTrue, Settled, NothingCanceledEarly
  <1> QED
    BY <1>1, StreamingInvariant, PTL

\* The Sender does not overestimate what the Receiver has heard of.
THEOREM NoFrameKnownEarly == Spec => []KnownFramesAreExpected
  <1>1. StreamingInv => KnownFramesAreExpected
    BY Zenon DEF StreamingInv, Both, BeliefsTrue, KnownFramesAreExpected
  <1> QED
    BY <1>1, StreamingInvariant, PTL

\* The oldest frame in flight is the one after the checkpoint: the CHECK in
\* GetInFlightMediaDuration() and the DCHECK in DispatchCancellations() never fail.
THEOREM OldestFrameInFlight == Spec => []OldestFrameNeverCanceled
  <1> USE SetFactsHold
  <1>1. StreamingInv => OldestFrameNeverCanceled
    <2> SUFFICES ASSUME StreamingInv, num_frames_in_flight # 0
                 PROVE  is_active_for_frame(checkpoint_frame_id + 1)
      BY DEF OldestFrameNeverCanceled, OldestFrameActive
    <2>1. RingSound /\ NumbersOK
      BY Numbers, Zenon DEF StreamingInv, Both, Core, SenderInv
    <2>2. ActiveSlots # {}
      BY <2>1, EmptyFinite, Zenon DEF RingSound
    <2>3. PICK i \in ActiveSlots : TRUE
      BY <2>2, Zenon
    <2>4. checkpoint_frame_id < last_enqueued_frame_id
      BY <2>1, <2>3 DEF RingSound, NumbersOK
    <2> QED
      BY <2>4 DEF StreamingInv, Both, BeliefsTrue
  <1> QED
    BY <1>1, StreamingInvariant, PTL

\* The consumer is never left waiting for a frame it could get.
THEOREM ConsumerIsWoken == Spec => []NoLostWakeup
  <1>1. StreamingInv => NoLostWakeup
    BY Zenon DEF StreamingInv
  <1> QED
    BY <1>1, StreamingInvariant, PTL

\* The CHECK in ReportPlayoutEvent() never fails for a frame that may be reported.
THEOREM PlayoutCanBeReported == Spec => []PlayoutReportable
  <1>1. StreamingInv => PlayoutReportable
    BY DEF StreamingInv
  <1> QED
    BY <1>1, StreamingInvariant, PTL

\* There is one target playout delay at a frame, and it is that of the last change.
LEMMA DelayUnique ==
    ASSUME NEW c \in Int, NEW n \in Int, c <= n, NEW d, NEW t,
           IsDelayAt(c, d), IsDelayAt(n, t),
           \A g \in (c + 1) .. n : KindOf(g).new_playout_delay = 0
    PROVE  d = t
  <1> DEFINE delay(g) == KindOf(g).new_playout_delay
  <1>1. ASSUME NEW g \in first .. c, delay(g) > 0,
               \A h \in (g + 1) .. c : delay(h) = 0,
               NEW k \in first .. n, delay(k) > 0,
               \A h \in (k + 1) .. n : delay(h) = 0
        PROVE  g = k
    <2>1. g \in Int /\ k \in Int /\ g \in first .. n
      BY Sizes
    <2>2. ~(k < g)
      <3>1. k < g => g \in (k + 1) .. n
        BY <2>1
      <3> QED
        BY <1>1, <3>1
    <2>3. ~(g < k)
      <3>1. g < k => k \in (g + 1) .. c \/ k \in (c + 1) .. n
        BY <2>1
      <3> QED
        BY <1>1, <3>1
    <2> QED
      BY <2>1, <2>2, <2>3
  <1>2. \A k \in first .. n : k \in first .. c \/ k \in (c + 1) .. n
    BY Sizes
  <1>3. \A g \in first .. c : g \in first .. n
    BY Sizes
  <1> QED
    BY <1>1, <1>2, <1>3 DEF IsDelayAt

\* Sender and Receiver agree on the target playout delay, whatever feedback arrives: the
\* warning in OnReceiverCheckpoint() is never logged.
THEOREM BothKnowPlayoutDelay == Spec => []PlayoutDelaysAgree
  <1>1. StreamingInv => PlayoutDelaysAgree
    <2> SUFFICES ASSUME StreamingInv, NEW i \in (rtcp_stale + 1) .. Len(rtcp_net),
                        NEW c, c = FeedbackCheckpoint(rtcp_net[i]),
                        c >= playout_delay_change_at_frame_id
                 PROVE  rtcp_net[i].playout_delay = target_playout_delay
      BY DEF PlayoutDelaysAgree
    <2>1. Core /\ NumbersOK /\ DelaysSound /\ SenderTypeOK
      BY Numbers, Zenon DEF StreamingInv, Both, Core, SenderInv
    <2>2. rtcp_net[i] \in Feedback /\ FeedbackTrue(rtcp_net[i])
      BY DEF StreamingInv, FeedbackSound, Truthful
    <2>3. c \in Int /\ c <= last_enqueued_frame_id
      BY <2>1, <2>2, FeedbackFrameIds, Zenon
    <2>4. IsDelayAt(c, rtcp_net[i].playout_delay)
      BY <2>2, Zenon DEF FeedbackTrue
    <2>5. \A g \in (c + 1) .. last_enqueued_frame_id : KindOf(g).new_playout_delay = 0
      <3>1. playout_delay_change_at_frame_id \in Int /\ last_enqueued_frame_id \in Int
        BY <2>1, Zenon DEF SenderTypeOK, FrameId
      <3>2. \A g \in (c + 1) .. last_enqueued_frame_id :
               g \in (playout_delay_change_at_frame_id + 1) .. last_enqueued_frame_id
        BY <2>3, <3>1
      <3> QED
        BY <2>1, <3>2, Zenon DEF DelaysSound
    <2>6. IsDelayAt(last_enqueued_frame_id, target_playout_delay) /\ last_enqueued_frame_id \in Int
      BY <2>1 DEF DelaysSound, NumbersOK
    <2> QED
      BY <2>3, <2>4, <2>5, <2>6, DelayUnique, Zenon
  <1> QED
    BY <1>1, StreamingInvariant, PTL

-----------------------------------------------------------------------------
(* The session implements FrameDelivery *)

WholeFrameDelivered ==
    /\ last_delivered = {} => DeliveredFrame = Delivery!Nothing
    /\ \A f \in FrameId : \A kind \in FrameKinds :
          last_delivered = Cut(f, kind) => DeliveredFrame = [frame_id |-> f, kind |-> kind]

\* What the consumer gets when it gets all packets of a frame is that frame.
LEMMA WholeFrame == WholeFrameDelivered
  <1> USE SetFactsHold
  <1>1. last_delivered = {} => DeliveredFrame = Delivery!Nothing
    BY DEF DeliveredFrame, Delivery!Nothing, Delivery!NoKind
  <1>2. ASSUME NEW f \in FrameId, NEW kind \in FrameKinds, last_delivered = Cut(f, kind)
        PROVE  DeliveredFrame = [frame_id |-> f, kind |-> kind]
    <2> DEFINE x == [frame_id |-> f, kind |-> kind]
               Frames == {[frame_id |-> c.frame_id, kind |-> c.kind] : c \in last_delivered}
    <2>1. /\ last_delivered # {} /\ Cardinality(last_delivered) = kind.packets
          /\ \A c \in last_delivered : c.frame_id = f /\ c.kind = kind
      BY <1>2, CutFacts, Zenon
    <2>2. Frames = {x}
      BY <2>1
    <2>3. Cardinality({x}) = 1
      BY SingletonFinite, Zenon
    <2>4. (CHOOSE y \in Frames : TRUE) = x
      BY <2>2, Zenon
    <2>5. x.kind.packets = kind.packets
      OBVIOUS
    <2> HIDE DEF x
    <2>6. DeliveredFrame = x
      BY <2>1, <2>2, <2>3, <2>4, <2>5, Zenon DEF DeliveredFrame
    <2> QED
      BY <2>6, Zenon DEF x
  <1> QED
    BY <1>1, <1>2, Zenon DEF WholeFrameDelivered

\* Consume delivers the next frame, or one that may follow a gap.
LEMMA ConsumeDelivers ==
    ASSUME StreamingInv, Consume
    PROVE  Delivery!Deliver
  <1> USE SetFactsHold
  <1>1. Core /\ NumbersOK /\ CheckpointSound /\ DeliveredSound
    BY Numbers DEF StreamingInv, Both
  <1>2. PICK f : f = last_frame_consumed + 1
    BY Zenon
  <1>3. f \in Int /\ last_frame_consumed < f /\ f <= checkpoint_frame
        /\ f \in Window /\ f \in (last_frame_consumed + 1) .. checkpoint_frame
        /\ f \in 0 .. last_enqueued_frame_id
    BY <1>1, <1>2 DEF Consume, ConsumeNextFrame, CheckpointSound, NumbersOK, Window
  <1>4. Entry(f).chunks = Cut(f, KindOf(f)) /\ KindOf(f) \in FrameKinds /\ f \in FrameId
    BY <1>1, <1>3, WindowEntries, KindFacts, Zenon DEF CheckpointSound, EntryOK, KindOK, FramePackets
  <1>5. PICK kind : kind = KindOf(f)
    OBVIOUS
  <1>6. last_delivered' = Cut(f, kind) /\ enqueued' = enqueued
    BY <1>2, <1>4, <1>5, Zenon DEF Consume
  <1>7. WholeFrameDelivered'
    BY WholeFrame, PTL
  <1>8. DeliveredFrame' = [frame_id |-> f, kind |-> kind]
    BY <1>4, <1>5, <1>6, <1>7, Zenon DEF WholeFrameDelivered, Cut
  <1>9. PICK h \in leader .. last_frame_consumed :
          /\ last_delivered = IF h = leader THEN {} ELSE FramePackets(h)
          /\ \/ h = last_frame_consumed
             \/ frame_ready /\ KindOf(last_frame_consumed + 1).dependency # "dependent"
    BY <1>1, Zenon DEF DeliveredSound
  <1>10. DeliveredFrame.frame_id = h
    <2>1. CASE h = leader
      BY <1>9, <2>1, WholeFrame, Sizes DEF WholeFrameDelivered, Delivery!Nothing
    <2>2. CASE h # leader
      <3>1. h \in 0 .. last_enqueued_frame_id
        BY <1>1, <1>9, <2>2, Sizes DEF NumbersOK
      <3>2. h \in FrameId /\ KindOf(h) \in FrameKinds
        BY <1>1, <3>1, KindFacts, Zenon DEF KindOK
      <3>3. DeliveredFrame = [frame_id |-> h, kind |-> KindOf(h)]
        BY <1>9, <2>2, <3>2, WholeFrame, Zenon DEF WholeFrameDelivered, FramePackets
      <3> QED
        BY <3>3, Zenon
    <2> QED
      BY <2>1, <2>2, Zenon
  <1>11. h \in Int /\ f \in h + 1 .. Len(enqueued) - 1
    BY <1>1, <1>3, <1>9, Sizes DEF NumbersOK, Core, PacketsGenuine
  <1>12. f = h + 1 \/ enqueued[f + 1].dependency # "dependent"
    BY <1>2, <1>9, Zenon DEF KindOf
  <1> QED
    BY <1>5, <1>6, <1>8, <1>10, <1>11, <1>12, Zenon DEF Delivery!Deliver, KindOf

\* The consumer gets the frames that were enqueued, whole and unaltered, in order, none
\* twice, and none that depends on a frame that was skipped: for every ring size, every
\* set of frame kinds, and however packets are lost, repeated and reordered.
THEOREM DeliversFrames == Spec => ImplementsFrameDelivery
  <1>1. Init => Delivery!Init
    BY WholeFrame, Zenon DEF WholeFrameDelivered, Init, Delivery!Init
  <1>2. StreamingInv /\ [Next]_vars => [Delivery!Next]_<<enqueued, DeliveredFrame>>
    <2> SUFFICES ASSUME StreamingInv, [Next]_vars
                 PROVE  [Delivery!Next]_<<enqueued, DeliveredFrame>>
      BY Zenon
    <2>1. last_delivered' = last_delivered => DeliveredFrame' = DeliveredFrame
      BY DEF DeliveredFrame
    <2>2. ASSUME NEW kind \in FrameKinds, Enqueue(kind)
          PROVE  Delivery!Enqueue
      BY <2>1, <2>2, Zenon DEF Enqueue, Delivery!Enqueue
    <2>3. CASE Consume
      BY <2>3, ConsumeDelivers, Zenon DEF Delivery!Next
    <2>4. CASE UNCHANGED <<enqueued, last_delivered>>
      BY <2>1, <2>4, Zenon
    <2>5. Transport => Consume \/ UNCHANGED <<enqueued, last_delivered>>
      BY DEF Transport, SendRtp, SendSenderReport, ReceiveFeedback, ReceiveRtp,
             ReceiveSenderReport, ReportAgain, FrameReadyCheck, AttachConsumer,
             DecoderLosesPicture
    <2> QED
      BY <2>2, <2>3, <2>4, <2>5, Zenon DEF Next, Delivery!Next, vars
  <1> QED
    BY <1>1, <1>2, StreamingInvariant, PTL DEF Spec, ImplementsFrameDelivery, Delivery!Spec
=============================================================================
