-------------------------- MODULE StreamingLemmas ---------------------------
(***************************************************************************)
(* Truncated frame IDs are restored correctly, whatever their width; and   *)
(* lemmas about the inductive invariant of a streaming session: what it    *)
(* says of a state, which parts of it a step leaves alone, what the        *)
(* feedback and the record of playout delays amount to.                    *)
(***************************************************************************)
EXTENDS CastStreaming, SenderAlone, TLAPS

-----------------------------------------------------------------------------
(* Finite sets *)

ExistsOneToOne(S, T) ==
    \E F \in [S -> T] : /\ \A x, y \in S : F[x] = F[y] => x = y
                        /\ \A z \in T : \E x \in S : F[x] = z

\* What is used of FiniteSetTheorems and WellFoundedInduction.  The lemmas take it as an
\* assumption, and so do without these modules, which make every step of a long proof
\* slow; StreamingProofs shows that it holds.
SetFacts ==
    /\ \A S \in SUBSET Nat : S # {} => \E m \in S : \A n \in S : m <= n
    /\ \A S : IsFiniteSet(S) => Cardinality(S) \in Nat
    /\ \A S, T : IsFiniteSet(S) /\ ExistsOneToOne(S, T)
                  => IsFiniteSet(T) /\ Cardinality(T) = Cardinality(S)
    /\ /\ IsFiniteSet({}) /\ Cardinality({}) = 0
       /\ \A S : IsFiniteSet(S) => (Cardinality(S) = 0 <=> S = {})
    /\ \A x : IsFiniteSet({x}) /\ Cardinality({x}) = 1
    /\ \A S, x : IsFiniteSet(S) /\ x \notin S
                  => Cardinality(S \cup {x}) = Cardinality(S) + 1
    /\ \A S : IsFiniteSet(S) =>
         \A T \in SUBSET S : /\ IsFiniteSet(T)
                             /\ Cardinality(T) <= Cardinality(S)
                             /\ Cardinality(S) = Cardinality(T) => S = T
    /\ \A S, T : IsFiniteSet(S) =>
         /\ IsFiniteSet(S \ T)
         /\ Cardinality(S \ T) = Cardinality(S) - Cardinality(S \cap T)
    /\ \A a, b \in Int :
         IsFiniteSet(a .. b) /\ Cardinality(a .. b) = IF a > b THEN 0 ELSE b - a + 1

\* The same, fact by fact.
LEMMA CardinalityNat ==
    ASSUME SetFacts, NEW S, IsFiniteSet(S)
    PROVE  Cardinality(S) \in Nat
  BY Zenon DEF SetFacts

\* A set that is as large as a finite one is finite.
LEMMA BijectionFinite ==
    ASSUME SetFacts, NEW S, NEW T, IsFiniteSet(S), ExistsOneToOne(S, T)
    PROVE  IsFiniteSet(T) /\ Cardinality(T) = Cardinality(S)
  BY Zenon DEF SetFacts

\* The empty set is the one without elements.
LEMMA EmptyFinite ==
    ASSUME SetFacts
    PROVE  /\ IsFiniteSet({}) /\ Cardinality({}) = 0
           /\ \A S : IsFiniteSet(S) => (Cardinality(S) = 0 <=> S = {})
  BY Zenon DEF SetFacts

\* A set with one element.
LEMMA SingletonFinite ==
    ASSUME SetFacts, NEW x
    PROVE  IsFiniteSet({x}) /\ Cardinality({x}) = 1
  BY Zenon DEF SetFacts

\* A new element counts.
LEMMA AddElementFinite ==
    ASSUME SetFacts, NEW S, NEW x, IsFiniteSet(S), x \notin S
    PROVE  Cardinality(S \cup {x}) = Cardinality(S) + 1
  BY Zenon DEF SetFacts

\* A part of a finite set is not larger, and as large only if it is the whole.
LEMMA SubsetFinite ==
    ASSUME SetFacts, NEW S, IsFiniteSet(S), NEW T \in SUBSET S
    PROVE  /\ IsFiniteSet(T)
           /\ Cardinality(T) <= Cardinality(S)
           /\ Cardinality(S) = Cardinality(T) => S = T
  BY Zenon DEF SetFacts

\* What is left when a part is taken away.
LEMMA DifferenceFinite ==
    ASSUME SetFacts, NEW S, NEW T, IsFiniteSet(S)
    PROVE  /\ IsFiniteSet(S \ T)
           /\ Cardinality(S \ T) = Cardinality(S) - Cardinality(S \cap T)
  BY Zenon DEF SetFacts

\* The length of an interval.
LEMMA IntervalFinite ==
    ASSUME SetFacts, NEW a \in Int, NEW b \in Int
    PROVE  /\ IsFiniteSet(a .. b)
           /\ Cardinality(a .. b) = IF a > b THEN 0 ELSE b - a + 1
  BY Zenon DEF SetFacts

-----------------------------------------------------------------------------
(* Arithmetic, and truncated frame IDs *)

\* Division with remainder, as the provers need it spelled out.
LEMMA DivMod ==
    ASSUME NEW k \in Nat \ {0}, NEW a \in Int
    PROVE  /\ a % k \in 0 .. (k - 1)
           /\ a \div k \in Int
           /\ a = (k * (a \div k)) + (a % k)
  OBVIOUS

\* The only multiple of k strictly between -k and k is zero.
LEMMA SmallMultiple ==
    ASSUME NEW k \in Nat \ {0}, NEW q \in Int, k * q < k, -k < k * q
    PROVE  q = 0
  OBVIOUS

\* Two numbers less than k apart with the same remainder are equal: the reason
\* why frames in flight never share a slot of a ring.
LEMMA ModInjective ==
    ASSUME NEW k \in Nat \ {0}, NEW a \in Int, NEW b \in Int,
           a % k = b % k, a - b < k, b - a < k
    PROVE  a = b
  <1> DEFINE qa == a \div k
             qb == b \div k
  <1>1. /\ qa \in Int /\ a = (k * qa) + (a % k) /\ a % k \in Int
        /\ qb \in Int /\ b = (k * qb) + (b % k)
    BY DivMod
  <1> HIDE DEF qa, qb
  <1>2. a - b = k * (qa - qb)
    BY <1>1
  <1>3. qa - qb = 0
    BY <1>1, <1>2, SmallMultiple
  <1> QED
    BY <1>1, <1>2, <1>3

-----------------------------------------------------------------------------

\* ExpandLessThanOrEqual() yields a value with the given low bits that is at most
\* the reference value, and less than IdSpan below it.
LEMMA ExpandLessThanOrEqualBounds ==
    ASSUME NEW v \in Int, NEW x \in 0 .. (IdSpan - 1)
    PROVE  /\ ExpandLessThanOrEqual(v, x) \in Int
           /\ ExpandLessThanOrEqual(v, x) <= v
           /\ v - ExpandLessThanOrEqual(v, x) < IdSpan
  <1>1. v % IdSpan \in 0 .. (IdSpan - 1)
    BY DivMod, IdSpanAssumption
  <1> QED
    BY <1>1, IdSpanAssumption DEF ExpandLessThanOrEqual

\* ExpandLessThanOrEqual() restores a frame ID from its truncated form, if it is
\* at most the reference value and less than IdSpan below it.
THEOREM ExpandLessThanOrEqualRestores ==
    ASSUME NEW v \in Int, NEW f \in Int, f <= v, v - f < IdSpan
    PROVE  ExpandLessThanOrEqual(v, lower_8_bits(f)) = f
  <1> DEFINE k == IdSpan
             e == ExpandLessThanOrEqual(v, lower_8_bits(f))
             qv == v \div k
             qf == f \div k
             rv == v % k
             rf == f % k
  <1>0. k \in Nat \ {0}
    BY IdSpanAssumption
  <1>1. /\ rv \in 0 .. (k - 1) /\ qv \in Int /\ v = (k * qv) + rv
        /\ rf \in 0 .. (k - 1) /\ qf \in Int /\ f = (k * qf) + rf
    BY <1>0, DivMod
  <1>2. e \in Int /\ e <= v /\ v - e < k
    BY <1>0, <1>1, ExpandLessThanOrEqualBounds, Zenon DEF lower_8_bits
  <1>3. e = IF (v - rv) + rf > v THEN ((v - rv) + rf) - k ELSE (v - rv) + rf
    BY DEF ExpandLessThanOrEqual, lower_8_bits
  <1> HIDE DEF e, qv, qf, rv, rf
  <1>4. v - rv = k * qv
    BY <1>0, <1>1
  <1>5. \E q \in Int : e = (k * q) + rf
    <2>1. CASE (v - rv) + rf > v
      <3>1. qv - 1 \in Int
        BY <1>1
      <3>2. k * (qv - 1) = (k * qv) - k
        BY <1>0, <1>1
      <3>3. e = (k * (qv - 1)) + rf
        BY <2>1, <3>1, <3>2, <1>0, <1>1, <1>3, <1>4
      <3> QED
        BY <3>1, <3>3
    <2>2. CASE ~((v - rv) + rf > v)
      BY <2>2, <1>1, <1>3, <1>4
    <2> QED
      BY <2>1, <2>2
  <1>6. PICK q \in Int : e = (k * q) + rf
    BY <1>5
  <1> HIDE DEF k
  <1>7. e - f = k * (q - qf)
    BY <1>0, <1>1, <1>6
  <1>8. k * (q - qf) < k /\ -k < k * (q - qf)
    BY <1>0, <1>1, <1>2, <1>7 DEF k
  <1>9. q - qf = 0
    BY <1>0, <1>1, <1>6, <1>8, SmallMultiple
  <1>10. e = f
    BY <1>0, <1>1, <1>2, <1>6, <1>9
  <1> QED
    BY <1>10 DEF e

\* Expand() restores the frame ID of an RTP packet from its truncated form, if it
\* is at most max_distance_for_expansion ahead of the highest one seen, or not
\* further behind than the other half of the range.
THEOREM ExpandRestores ==
    ASSUME NEW v \in Int, NEW f \in Int,
           f - v <= max_distance_for_expansion,
           v - f <= (IdSpan - 1) - max_distance_for_expansion
    PROVE  Expand(v, lower_8_bits(f)) = f
  <1>1. max_distance_for_expansion \in Int
    BY IdSpanAssumption, DivMod DEF max_distance_for_expansion
  <1> DEFINE w == v + max_distance_for_expansion
  <1>2. w \in Int /\ f <= w /\ w - f < IdSpan
    BY <1>1, IdSpanAssumption
  <1> QED
    BY <1>2, ExpandLessThanOrEqualRestores DEF Expand

-----------------------------------------------------------------------------
(* The Sender *)

\* The inductive invariant.
SenderInv == SenderTypeOK /\ RingSound /\ NoPacketForgotten /\ NoLostSendRequest

\* get_slot_for() always yields a slot of the ring.
LEMMA SlotOfType ==
    ASSUME NEW f \in Int
    PROVE  SlotOf(f) \in Slots
  BY DivMod, StreamingAssumption DEF SlotOf, Slots

\* The frame IDs the Sender takes out of a feedback message.
LEMMA FeedbackFrameIds ==
    ASSUME SenderTypeOK, NEW fb \in Feedback
    PROVE  /\ FeedbackCheckpoint(fb) \in Int
           /\ FeedbackCheckpoint(fb) <= last_enqueued_frame_id
           /\ ValidAcks(fb) \subseteq Int
           /\ \A a \in ValidAcks(fb) : a <= last_enqueued_frame_id
  <1>1. fb.checkpoint \in 0 .. (IdSpan - 1) /\ fb.acks \subseteq Nat
    BY DEF Feedback
  <1>2. /\ FeedbackCheckpoint(fb) \in Int
        /\ FeedbackCheckpoint(fb) <= last_enqueued_frame_id
    BY <1>1, ExpandLessThanOrEqualBounds DEF FeedbackCheckpoint, SenderTypeOK, FrameId
  <1>3. FeedbackAcks(fb) \subseteq Int
    BY <1>1, <1>2 DEF FeedbackAcks
  <1> QED
    BY <1>2, <1>3 DEF ValidAcks, SenderTypeOK, FrameId

-----------------------------------------------------------------------------
(* The inductive invariant, in parts *)

\* The packets that frame f is cut into, if it is of the given kind.
Cut(f, kind) ==
    {[frame_id |-> f, kind |-> kind, packet_id |-> p] : p \in 0 .. (kind.packets - 1)}

KindOf(f) == enqueued[f + 1]

FramePackets(f) == Cut(f, KindOf(f))

\* The frames that are, or may yet be, in the queue of the Receiver.
Window == (last_frame_consumed + 1) .. latest_frame_expected

\* The Receiver has all of the frame, or is done with it.
Settled(f) == f <= checkpoint_frame \/ (f <= latest_frame_expected /\ is_complete(Entry(f)))

ReceiverTypeOK ==
    /\ queue \in [Slots -> QueueEntry]
    /\ latest_frame_expected \in FrameId /\ last_frame_consumed \in FrameId
    /\ checkpoint_frame \in FrameId /\ highest_rtp_frame_id \in FrameId
    /\ playout_delay \in Nat
    /\ picture_loss_indicator \in BOOLEAN
    /\ last_key_frame_received \in FrameId \cup {null_frame}
    /\ last_sender_report \in BOOLEAN
    /\ consumer \in BOOLEAN /\ consumption_alarm \in BOOLEAN /\ frame_ready \in BOOLEAN

\* The frames enqueued, and the packets that were cut from them.
PacketsGenuine ==
    /\ enqueued \in Seq(FrameKinds)
    /\ Len(enqueued) = last_enqueued_frame_id + 1
    /\ \A i \in ActiveSlots : pending_frames[i].kind = KindOf(pending_frames[i].frame_id)
    /\ \A pkt \in rtp_net :
          /\ pkt.frame_id \in first .. last_enqueued_frame_id
          /\ last_enqueued_frame_id - pkt.frame_id <= IdSpan - 1 - max_distance_for_expansion
          /\ pkt \in FramePackets(pkt.frame_id)

\* How far each side has come.
FramesInOrder ==
    /\ checkpoint_frame_id <= checkpoint_frame
    /\ last_frame_consumed <= checkpoint_frame
    /\ checkpoint_frame <= latest_frame_expected
    /\ latest_frame_expected <= last_enqueued_frame_id
    /\ latest_frame_expected - last_frame_consumed <= kMaxUnackedFrames
    /\ latest_frame_expected <= highest_rtp_frame_id
    /\ highest_rtp_frame_id = first \/ highest_rtp_frame_id <= last_enqueued_frame_id

\* The queue has an entry for each frame of the window, with packets of that frame
\* only, and is reset elsewhere.  The capture time came with packet 0.
QueueSound ==
    /\ \A f \in Window : Entry(f).frame_id = f
    /\ \A i \in Slots :
          \/ queue[i].frame_id = null_frame /\ queue[i].chunks = {}
          \/ /\ queue[i].frame_id \in Window
             /\ SlotOf(queue[i].frame_id) = i
             /\ queue[i].chunks \subseteq FramePackets(queue[i].frame_id)
             /\ queue[i].captured = (\E c \in queue[i].chunks : c.packet_id = 0)

\* The checkpoint is where it should be.
CheckpointSound ==
    /\ \A f \in (last_frame_consumed + 1) .. checkpoint_frame : is_complete(Entry(f))
    /\ checkpoint_frame < latest_frame_expected => ~is_complete(Entry(checkpoint_frame + 1))
    /\ frame_ready => last_frame_consumed < checkpoint_frame

\* What the Sender believes of the Receiver is true.
BeliefsTrue ==
    /\ latest_expected_frame_id <= latest_frame_expected
    /\ \A f \in (checkpoint_frame_id + 1) .. last_enqueued_frame_id :
          is_active_for_frame(f) \/ Settled(f)
    /\ checkpoint_frame_id < last_enqueued_frame_id
          => is_active_for_frame(checkpoint_frame_id + 1)

\* The target playout delay at frame c is d.
IsDelayAt(c, d) ==
    \/ /\ d = InitialPlayoutDelay
       /\ \A g \in first .. c : KindOf(g).new_playout_delay = 0
    \/ \E g \in first .. c :
          /\ KindOf(g).new_playout_delay = d
          /\ d > 0
          /\ \A h \in (g + 1) .. c : KindOf(h).new_playout_delay = 0

\* Feedback that the Sender would take for fresh says what is, or was, true.
FeedbackTrue(fb) ==
    LET c == FeedbackCheckpoint(fb)
    IN  /\ fb.checkpoint = lower_8_bits(c)
        /\ checkpoint_frame_id <= c /\ c <= checkpoint_frame
        /\ \A a \in FeedbackAcks(fb) :
              c + 1 < a /\ a <= latest_frame_expected /\ Settled(a)
        /\ \A n \in FeedbackNacks(fb) : n[1] <= latest_frame_expected
        /\ c < last_enqueued_frame_id => is_active_for_frame(c + 1)
        /\ IsDelayAt(c, fb.playout_delay)

\* So does a sequence of messages from the given position on, where in addition no
\* message goes back behind, or has as received, what a later one still waits for.
Truthful(messages, stale) ==
    /\ messages \in Seq(Feedback)
    /\ stale \in 0 .. Len(messages)
    /\ \A i \in (stale + 1) .. Len(messages) : FeedbackTrue(messages[i])
    /\ \A i, j \in (stale + 1) .. Len(messages) :
          i <= j => /\ FeedbackCheckpoint(messages[i]) <= FeedbackCheckpoint(messages[j])
                    /\ FeedbackCheckpoint(messages[j]) + 1 \notin FeedbackAcks(messages[i])

FeedbackSound == Truthful(rtcp_net, rtcp_stale)

\* Change x is recorded, or superseded by one at or before the last frame consumed.
Covered(x, changes, consumed) ==
    x \in changes \/ \E y \in changes : x[1] < y[1] /\ y[1] <= consumed

\* The changes are those of the frames expected that are known; nothing is missing.
ChangesOK(changes, consumed, expected, known) ==
    /\ \A x \in changes :
          \/ x = <<leader, InitialPlayoutDelay>>
          \/ /\ x[1] \in first .. expected
             /\ x = <<x[1], KindOf(x[1]).new_playout_delay>>
             /\ KindOf(x[1]).new_playout_delay > 0
    /\ Covered(<<leader, InitialPlayoutDelay>>, changes, consumed)
    /\ \A g \in known :
          KindOf(g).new_playout_delay > 0
             => Covered(<<g, KindOf(g).new_playout_delay>>, changes, consumed)

\* The frames whose first packet the Receiver has seen, or which it is done with.
KnownToReceiver ==
    {g \in first .. latest_frame_expected : g <= last_frame_consumed \/ Entry(g).captured}

\* Both sides know the target playout delay of every frame they may ask about.
DelaysSound ==
    /\ IsDelayAt(last_enqueued_frame_id, target_playout_delay)
    /\ \A g \in (playout_delay_change_at_frame_id + 1) .. last_enqueued_frame_id :
          KindOf(g).new_playout_delay = 0
    /\ IsDelayAt(checkpoint_frame, playout_delay)
    /\ ChangesOK(playout_delay_changes, last_frame_consumed, latest_frame_expected,
                 KnownToReceiver)

\* What was delivered last is a whole frame, and the one before the next unless a
\* frame that depends on no other one is about to follow a gap.
DeliveredSound ==
    \E f \in leader .. last_frame_consumed :
        /\ last_delivered = IF f = leader THEN {} ELSE FramePackets(f)
        /\ \/ f = last_frame_consumed
           \/ frame_ready /\ KindOf(last_frame_consumed + 1).dependency # "dependent"

Core == SenderInv /\ ReceiverTypeOK /\ PacketsGenuine /\ FramesInOrder /\ QueueSound

Both == Core /\ CheckpointSound /\ BeliefsTrue /\ DelaysSound

StreamingInv ==
    /\ Both /\ FeedbackSound /\ DeliveredSound
    /\ PlayoutReportable /\ NoLostWakeup

-----------------------------------------------------------------------------
(* Lemmas about numbers *)

\* What the assumptions say of the constants, for the provers.
LEMMA Sizes ==
    /\ kMaxUnackedFrames \in Nat /\ kMaxUnackedFrames > 0
    /\ IdSpan \in Nat /\ kMaxUnackedFrames < IdSpan
    /\ max_distance_for_expansion \in Int
    /\ kMaxUnackedFrames <= max_distance_for_expansion
    /\ max_distance_for_expansion <= IdSpan - 1 - max_distance_for_expansion
    /\ MaxLag \in Nat /\ MaxLag <= IdSpan - 1 - max_distance_for_expansion
    /\ first = 0 /\ leader = -1
    /\ InitialPlayoutDelay \in Nat /\ InitialPlayoutDelay > 0
  <1> DEFINE d == max_distance_for_expansion
  <1>1. d \in Int /\ 2 * d <= IdSpan - 1
    BY DivMod, IdSpanAssumption DEF max_distance_for_expansion
  <1> HIDE DEF d
  <1> QED
    BY <1>1, IdSpanAssumption, StreamingAssumption, NetworkAssumption DEF d, first, leader

\* A set of numbers that is bounded below has a least one.
LEMMA LeastExists ==
    ASSUME SetFacts, NEW S \in SUBSET Int, NEW low \in Int, S # {}, \A x \in S : low <= x
    PROVE  \E m \in S : \A x \in S : m <= x
  <1> DEFINE T == {n \in Nat : low + n \in S}
  <1>1. T # {} /\ T \subseteq Nat
    <2>1. PICK x \in S : TRUE
      BY Zenon
    <2>2. x - low \in Nat /\ low + (x - low) = x
      BY <2>1
    <2> QED
      BY <2>2, Zenon
  <1> HIDE DEF T
  <1>2. PICK n \in T : \A m \in T : n <= m
    BY <1>1, Zenon DEF SetFacts
  <1> QED
    BY <1>1, <1>2 DEF T

\* A set of numbers that is bounded above has a greatest one.
LEMMA GreatestExists ==
    ASSUME SetFacts, NEW S \in SUBSET Int, NEW high \in Int, S # {}, \A x \in S : x <= high
    PROVE  \E m \in S : \A x \in S : x <= m
  <1> DEFINE T == {y \in Int : 0 - y \in S}
  <1>1. T \in SUBSET Int /\ 0 - high \in Int /\ \A y \in T : 0 - high <= y
    OBVIOUS
  <1>2. \A x \in S : 0 - x \in T
    <2>1. \A x \in S : 0 - x \in Int /\ 0 - (0 - x) = x
      OBVIOUS
    <2> QED
      BY <2>1
  <1>3. PICK m \in T : \A y \in T : m <= y
    <2>1. T # {}
      BY <1>2, Zenon
    <2> HIDE DEF T
    <2> QED
      BY <1>1, <2>1, LeastExists, Zenon
  <1>4. 0 - m \in S /\ m \in Int
    BY <1>3
  <1> HIDE DEF T
  <1>5. \A x \in S : x <= 0 - m
    BY <1>2, <1>3, <1>4
  <1> QED
    BY <1>4, <1>5

-----------------------------------------------------------------------------
(* Lemmas about frames and the packets they are cut into *)

\* A frame is cut into as many packets as its kind says.
LEMMA CutFacts ==
    ASSUME SetFacts, NEW f \in FrameId, NEW kind \in FrameKinds
    PROVE  /\ Cut(f, kind) \subseteq RtpPacket
           /\ IsFiniteSet(Cut(f, kind))
           /\ Cardinality(Cut(f, kind)) = kind.packets
           /\ \E c \in Cut(f, kind) : c.packet_id = 0
           /\ \A c \in Cut(f, kind) : c.frame_id = f /\ c.kind = kind
  <1> DEFINE P == 0 .. (kind.packets - 1)
             pkt(p) == [frame_id |-> f, kind |-> kind, packet_id |-> p]
             F == [p \in P |-> pkt(p)]
  <1>1. kind.packets \in Nat /\ kind.packets > 0
    BY StreamingAssumption
  <1>2. IsFiniteSet(P) /\ Cardinality(P) = kind.packets
    <2>1. PICK b \in Int : b = kind.packets - 1
      BY <1>1
    <2>2. ~(0 > b) /\ b - 0 + 1 = kind.packets
      BY <1>1, <2>1
    <2>3. 0 \in Int
      OBVIOUS
    <2>4. /\ IsFiniteSet(0 .. b)
          /\ Cardinality(0 .. b) = IF 0 > b THEN 0 ELSE b - 0 + 1
      BY <2>3, IntervalFinite, Zenon
    <2> QED
      BY <2>1, <2>2, <2>4, Zenon
  <1>3. ExistsOneToOne(P, Cut(f, kind))
    <2>1. F \in [P -> Cut(f, kind)] /\ \A p \in P : F[p] = pkt(p)
      BY DEF Cut
    <2>2. \A p, q \in P : pkt(p) = pkt(q) => p = q
      <3>1. \A p : pkt(p).packet_id = p
        OBVIOUS
      <3> QED
        BY <3>1, Zenon
    <2>3. \A c \in Cut(f, kind) : \E p \in P : pkt(p) = c
      BY DEF Cut
    <2> HIDE DEF F, pkt, P
    <2> QED
      BY <2>1, <2>2, <2>3 DEF ExistsOneToOne
  <1>5. /\ IsFiniteSet(Cut(f, kind)) /\ Cardinality(Cut(f, kind)) = kind.packets
    BY <1>2, <1>3, BijectionFinite
  <1>6. Cut(f, kind) \subseteq RtpPacket
    BY <1>1 DEF Cut, RtpPacket
  <1>7. pkt(0) \in Cut(f, kind) /\ pkt(0).packet_id = 0
    BY <1>1 DEF Cut
  <1>8. \A c \in Cut(f, kind) : c.frame_id = f /\ c.kind = kind
    BY DEF Cut
  <1> QED
    BY <1>5, <1>6, <1>7, <1>8

\* A collector that holds packets of one frame only knows the packet count from
\* any of them, and is_complete() says that it holds them all.
LEMMA CollectorFacts ==
    ASSUME SetFacts, NEW f \in FrameId, NEW kind \in FrameKinds, NEW e,
           e.chunks \subseteq Cut(f, kind)
    PROVE  /\ e.chunks # {} => PacketCount(e) = kind.packets
           /\ is_complete(e) <=> e.chunks = Cut(f, kind)
           /\ is_complete(e) => /\ \E c \in e.chunks : c.packet_id = 0
                                /\ Metadata(e) = kind
  <1>1. ASSUME e.chunks # {} PROVE PacketCount(e) = kind.packets
    <2>1. (CHOOSE c \in e.chunks : TRUE) \in e.chunks
      BY <1>1
    <2> QED
      BY <2>1, CutFacts DEF PacketCount
  <1>2. is_complete(e) <=> e.chunks = Cut(f, kind)
    <2>1. e.chunks = Cut(f, kind) => e.chunks # {}
      BY CutFacts
    <2>2. Cardinality(e.chunks) = Cardinality(Cut(f, kind)) => e.chunks = Cut(f, kind)
      BY CutFacts, SubsetFinite
    <2>3. Cardinality(Cut(f, kind)) = kind.packets
      BY CutFacts
    <2> QED
      BY <1>1, <2>1, <2>2, <2>3, Zenon DEF is_complete
  <1>3. ASSUME is_complete(e)
        PROVE  (\E c \in e.chunks : c.packet_id = 0) /\ Metadata(e) = kind
    <2>1. \E c \in e.chunks : c.packet_id = 0
      BY <1>2, <1>3, CutFacts
    <2>2. (CHOOSE c \in e.chunks : c.packet_id = 0) \in e.chunks
      BY <2>1
    <2> QED
      BY <2>1, <2>2, CutFacts DEF Metadata
  <1> QED
    BY <1>1, <1>2, <1>3

-----------------------------------------------------------------------------
(* What the invariant says of a state *)

\* Types and order of the frame IDs on both sides.
NumbersOK ==
    /\ last_enqueued_frame_id \in Int /\ checkpoint_frame_id \in Int
    /\ latest_expected_frame_id \in Int /\ checkpoint_frame \in Int
    /\ latest_frame_expected \in Int /\ last_frame_consumed \in Int
    /\ highest_rtp_frame_id \in Int
    /\ -1 <= checkpoint_frame_id /\ -1 <= last_frame_consumed
    /\ checkpoint_frame_id <= checkpoint_frame
    /\ last_frame_consumed <= checkpoint_frame
    /\ checkpoint_frame <= latest_frame_expected
    /\ latest_frame_expected <= last_enqueued_frame_id
    /\ latest_frame_expected - last_frame_consumed <= kMaxUnackedFrames
    /\ last_enqueued_frame_id - checkpoint_frame_id <= kMaxUnackedFrames
    /\ latest_frame_expected <= highest_rtp_frame_id
    /\ highest_rtp_frame_id = 0 \/ highest_rtp_frame_id <= last_enqueued_frame_id

\* The parts of the invariant that say so.
LEMMA Numbers == Core => NumbersOK
  BY Sizes DEF NumbersOK, Core, SenderInv, SenderTypeOK, RingSound, ReceiverTypeOK,
               FramesInOrder, FrameId

\* Each frame enqueued is of one of the kinds.
KindOK(f) ==
    /\ f \in FrameId /\ f \in Int /\ KindOf(f) \in FrameKinds
    /\ KindOf(f).packets \in Nat /\ KindOf(f).packets > 0
    /\ KindOf(f).new_playout_delay \in Nat

\* So is each frame that a number up to the last enqueued one stands for.
LEMMA KindFacts == Core => \A f \in 0 .. last_enqueued_frame_id : KindOK(f)
  <1> SUFFICES ASSUME Core, NEW f \in 0 .. last_enqueued_frame_id
               PROVE  KindOK(f)
    OBVIOUS
  <1>1. last_enqueued_frame_id \in Int
    BY Numbers DEF NumbersOK
  <1>2. f \in Int /\ f >= 0 /\ f + 1 \in 1 .. Len(enqueued)
    BY <1>1 DEF Core, PacketsGenuine
  <1>3. KindOf(f) \in FrameKinds
    BY <1>2 DEF KindOf, Core, PacketsGenuine
  <1> QED
    BY <1>2, <1>3, StreamingAssumption, Sizes DEF FrameId, KindOK

\* The entry of a frame that is expected and not yet consumed.
EntryOK(f) ==
    /\ f \in Int /\ f \in 0 .. last_enqueued_frame_id /\ SlotOf(f) \in Slots
    /\ Entry(f) \in QueueEntry
    /\ Entry(f).frame_id = f
    /\ Entry(f).chunks \subseteq FramePackets(f)
    /\ Entry(f).captured = (\E c \in Entry(f).chunks : c.packet_id = 0)
    /\ is_complete(Entry(f)) <=> Entry(f).chunks = FramePackets(f)
    /\ is_complete(Entry(f)) => Entry(f).captured /\ Metadata(Entry(f)) = KindOf(f)

\* Every frame of the window has such an entry.
LEMMA WindowEntries ==
    ASSUME SetFacts
    PROVE  Core => \A f \in Window : EntryOK(f)
  <1> SUFFICES ASSUME Core, NEW f \in Window
               PROVE  EntryOK(f)
    OBVIOUS
  <1>1. f \in Int /\ f \in 0 .. last_enqueued_frame_id
    BY Numbers DEF NumbersOK, Window
  <1>2. SlotOf(f) \in Slots
    BY <1>1, SlotOfType
  <1>3. Entry(f).frame_id = f /\ Entry(f) \in QueueEntry
    BY <1>2, Zenon DEF Core, QueueSound, Entry, ReceiverTypeOK
  <1>4. f # null_frame
    BY <1>1, Sizes DEF null_frame
  <1>5. /\ Entry(f).chunks \subseteq FramePackets(f)
        /\ Entry(f).captured = (\E c \in Entry(f).chunks : c.packet_id = 0)
    BY <1>2, <1>3, <1>4, Zenon DEF Core, QueueSound, Entry
  <1>6. f \in FrameId /\ KindOf(f) \in FrameKinds
    BY <1>1, KindFacts DEF KindOK
  <1>7. /\ is_complete(Entry(f)) <=> Entry(f).chunks = FramePackets(f)
        /\ is_complete(Entry(f)) => /\ \E c \in Entry(f).chunks : c.packet_id = 0
                                    /\ Metadata(Entry(f)) = KindOf(f)
    BY <1>5, <1>6, CollectorFacts, Zenon DEF FramePackets
  <1> QED
    BY <1>1, <1>2, <1>3, <1>5, <1>7, Zenon DEF EntryOK

\* FrameIds that the Sender takes out of a message that names frame c: the restored
\* checkpoint is c, if c is not further behind than the ring is long.
LEMMA CheckpointRestored ==
    ASSUME NEW fb, NEW c \in Int, fb.checkpoint = lower_8_bits(c),
           last_enqueued_frame_id \in Int, c <= last_enqueued_frame_id,
           last_enqueued_frame_id - c <= kMaxUnackedFrames
    PROVE  FeedbackCheckpoint(fb) = c
  <1>1. last_enqueued_frame_id - c < IdSpan
    BY Sizes
  <1> QED
    BY <1>1, ExpandLessThanOrEqualRestores DEF FeedbackCheckpoint

\* The checkpoint of the Receiver is exact, so the frame after it is not settled,
\* and still in flight.
LEMMA AfterCheckpoint ==
    Both => /\ ~Settled(checkpoint_frame + 1)
            /\ checkpoint_frame < last_enqueued_frame_id
                  => is_active_for_frame(checkpoint_frame + 1)
  <1> SUFFICES ASSUME Both
               PROVE  /\ ~Settled(checkpoint_frame + 1)
                      /\ checkpoint_frame < last_enqueued_frame_id
                            => is_active_for_frame(checkpoint_frame + 1)
    OBVIOUS
  <1>1. /\ last_enqueued_frame_id \in Int /\ checkpoint_frame_id \in Int
        /\ checkpoint_frame \in Int /\ latest_frame_expected \in Int
        /\ checkpoint_frame_id <= checkpoint_frame
    BY Numbers DEF Both, NumbersOK
  <1>2. ~Settled(checkpoint_frame + 1)
    BY <1>1 DEF Both, CheckpointSound, Settled
  <1>3. checkpoint_frame < last_enqueued_frame_id
          => checkpoint_frame + 1 \in (checkpoint_frame_id + 1) .. last_enqueued_frame_id
    BY <1>1
  <1> QED
    BY <1>2, <1>3 DEF Both, BeliefsTrue

\* SendRtcp() puts together a message that is well formed and true, and that is news.
LEMMA FeedbackMessageTrue ==
    ASSUME SetFacts, Both
    PROVE  /\ FeedbackMessage \in Feedback
           /\ FeedbackTrue(FeedbackMessage)
           /\ FeedbackCheckpoint(FeedbackMessage) = checkpoint_frame
  <1> DEFINE fb == FeedbackMessage
             frames == (checkpoint_frame + 1) .. latest_frame_expected
             complete == {f \in frames : is_complete(Entry(f))}
  <1>1. /\ last_enqueued_frame_id \in Int /\ checkpoint_frame_id \in Int
        /\ checkpoint_frame \in Int /\ latest_frame_expected \in Int
        /\ last_frame_consumed \in Int
        /\ checkpoint_frame_id <= checkpoint_frame
        /\ last_frame_consumed <= checkpoint_frame
        /\ checkpoint_frame <= latest_frame_expected
        /\ latest_frame_expected <= last_enqueued_frame_id
        /\ last_enqueued_frame_id - checkpoint_frame_id <= kMaxUnackedFrames
    BY Numbers DEF Both, NumbersOK
  <1>2. /\ kMaxUnackedFrames \in Nat /\ IdSpan \in Nat /\ IdSpan > 0 /\ kMaxUnackedFrames < IdSpan
    BY Sizes
  <1>3. /\ fb.checkpoint = lower_8_bits(checkpoint_frame)
        /\ fb.playout_delay = playout_delay
        /\ fb.acks = {AckBit(f) : f \in complete \ {checkpoint_frame + 1}}
        /\ fb.nacks = UNION {GetMissingPackets(f) : f \in frames \ complete}
        /\ fb.pli = picture_loss_indicator
        /\ fb = [checkpoint |-> fb.checkpoint, playout_delay |-> fb.playout_delay,
                 acks |-> fb.acks, nacks |-> fb.nacks, pli |-> fb.pli]
    BY Zenon DEF FeedbackMessage
  <1>4. frames \subseteq Window
    BY <1>1 DEF Window
  <1> HIDE DEF fb
  <1>5. \A f \in Int : lower_8_bits(f) \in 0 .. (IdSpan - 1)
    BY DivMod, IdSpanAssumption DEF lower_8_bits
  <1>6. FeedbackCheckpoint(fb) = checkpoint_frame
    <2>1. last_enqueued_frame_id - checkpoint_frame <= kMaxUnackedFrames
          /\ checkpoint_frame <= last_enqueued_frame_id
      BY <1>1, <1>2
    <2> QED
      BY <1>1, <1>3, <2>1, CheckpointRestored
  <1>7. ASSUME NEW f \in frames, NEW n \in GetMissingPackets(f)
        PROVE  n = <<lower_8_bits(f), n[2]>> /\ n[1] = lower_8_bits(f) /\ n[2] \in Nat
    <2>1. Entry(f).chunks # {} => PacketCount(Entry(f)) \in Nat
      <3>1. f \in FrameId /\ KindOf(f) \in FrameKinds /\ KindOf(f).packets \in Nat
        BY <1>4, WindowEntries, KindFacts, Zenon DEF Both, EntryOK, KindOK
      <3>2. Entry(f).chunks \subseteq Cut(f, KindOf(f))
        BY <1>4, WindowEntries, Zenon DEF Both, EntryOK, FramePackets
      <3> QED
        BY <3>1, <3>2, CollectorFacts
    <2> DEFINE e == Entry(f)
               missing == (0 .. (PacketCount(e) - 1)) \ {c.packet_id : c \in e.chunks}
               which == IF e.chunks = {} THEN {kAllPacketsLost} ELSE missing
    <2>2. n \in {lower_8_bits(f)} \X which
      BY DEF GetMissingPackets
    <2>3. which \subseteq Nat
      BY <2>1, StreamingAssumption
    <2> HIDE DEF which
    <2>4. PICK p \in which : n = <<lower_8_bits(f), p>>
      BY <2>2
    <2> QED
      BY <2>3, <2>4
  <1>8. fb \in Feedback
    <2>1. fb.acks \subseteq Nat
      BY <1>1, <1>3 DEF AckBit
    <2>2. fb.nacks \subseteq (0 .. (IdSpan - 1)) \X Nat
      <3>1. ASSUME NEW n \in fb.nacks PROVE n \in (0 .. (IdSpan - 1)) \X Nat
        <4>1. PICK f \in frames \ complete : n \in GetMissingPackets(f)
          BY <1>3
        <4>2. f \in Int
          BY <1>1
        <4> QED
          BY <1>5, <1>7, <4>1, <4>2
      <3> QED
        BY <3>1
    <2>3. fb.checkpoint \in 0 .. (IdSpan - 1) /\ fb.playout_delay \in Nat /\ fb.pli \in BOOLEAN
      BY <1>1, <1>3, <1>5 DEF Both, Core, ReceiverTypeOK
    <2> QED
      BY <1>3, <2>1, <2>2, <2>3 DEF Feedback
  <1>9. ASSUME NEW a \in FeedbackAcks(fb)
        PROVE  checkpoint_frame + 1 < a /\ a <= latest_frame_expected /\ Settled(a)
    <2>1. PICK bit \in fb.acks : a = checkpoint_frame + 2 + bit
      BY <1>6 DEF FeedbackAcks
    <2>2. PICK f \in complete \ {checkpoint_frame + 1} : bit = AckBit(f)
      BY <1>3, <2>1
    <2>3. f \in Int /\ f = a /\ checkpoint_frame + 1 < f /\ f <= latest_frame_expected
      BY <1>1, <2>1, <2>2 DEF AckBit
    <2> QED
      BY <2>2, <2>3 DEF Settled
  <1>10. ASSUME NEW n \in FeedbackNacks(fb)
         PROVE  n[1] <= latest_frame_expected
    <2>1. PICK m \in fb.nacks : n = <<ExpandGreaterThan(checkpoint_frame, m[1]), m[2]>>
      BY <1>6 DEF FeedbackNacks
    <2>2. PICK f \in frames \ complete : m \in GetMissingPackets(f)
      BY <1>3, <2>1
    <2>3. f \in Int /\ checkpoint_frame < f /\ f <= latest_frame_expected
      BY <1>1, <2>2
    <2>4. m[1] = lower_8_bits(f)
      BY <1>7, <2>2
    <2>5. /\ checkpoint_frame + IdSpan \in Int /\ f <= checkpoint_frame + IdSpan
          /\ (checkpoint_frame + IdSpan) - f < IdSpan
      BY <1>1, <1>2, <2>3
    <2>6. ExpandGreaterThan(checkpoint_frame, m[1]) = f
      BY <2>3, <2>4, <2>5, ExpandLessThanOrEqualRestores DEF ExpandGreaterThan
    <2> QED
      BY <2>1, <2>3, <2>6
  <1>11. IsDelayAt(checkpoint_frame, fb.playout_delay)
    BY <1>3 DEF Both, DelaysSound
  <1>12. FeedbackTrue(fb)
    BY <1>1, <1>3, <1>6, <1>9, <1>10, <1>11, AfterCheckpoint DEF FeedbackTrue
  <1> QED
    BY <1>6, <1>8, <1>12 DEF fb

\* Feedback that is sent is true, too, and later than all that was sent before.
AppendsTruth ==
    \A s, stale : Truthful(s, stale) => Truthful(Append(s, FeedbackMessage), stale)

\* The Receiver has come at least as far as any message says.
LEMMA AppendTruthful ==
    ASSUME SetFacts
    PROVE  Both => AppendsTruth
  <1> SUFFICES ASSUME Both, NEW s, NEW stale, Truthful(s, stale)
               PROVE  Truthful(Append(s, FeedbackMessage), stale)
    BY DEF AppendsTruth
  <1> DEFINE fb == FeedbackMessage
             t == Append(s, fb)
             n == Len(s)
  <1>1. fb \in Feedback /\ FeedbackTrue(fb) /\ FeedbackCheckpoint(fb) = checkpoint_frame
    BY FeedbackMessageTrue
  <1>2. /\ s \in Seq(Feedback) /\ n \in Nat /\ stale \in 0 .. n
        /\ \A i \in (stale + 1) .. n : FeedbackTrue(s[i])
        /\ \A i, j \in (stale + 1) .. n :
              i <= j => /\ FeedbackCheckpoint(s[i]) <= FeedbackCheckpoint(s[j])
                        /\ FeedbackCheckpoint(s[j]) + 1 \notin FeedbackAcks(s[i])
    BY DEF Truthful
  <1> HIDE DEF fb
  <1>3. /\ t \in Seq(Feedback) /\ Len(t) = n + 1 /\ t[n + 1] = fb
        /\ \A i \in 1 .. n : t[i] = s[i]
    BY <1>1, <1>2
  <1> HIDE DEF t, n
  <1>4. ASSUME NEW m, FeedbackTrue(m)
        PROVE  /\ FeedbackCheckpoint(m) <= FeedbackCheckpoint(fb)
               /\ FeedbackCheckpoint(fb) + 1 \notin FeedbackAcks(m)
    BY <1>1, <1>4, AfterCheckpoint DEF FeedbackTrue
  <1>5. ASSUME NEW i \in (stale + 1) .. (n + 1)
        PROVE  /\ FeedbackTrue(t[i])
               /\ i # n + 1 => i \in (stale + 1) .. n /\ t[i] = s[i]
    <2>1. i # n + 1 => i \in (stale + 1) .. n /\ i \in 1 .. n
      BY <1>2, <1>5
    <2> QED
      BY <1>1, <1>2, <1>3, <2>1, Zenon
  <1>6. ASSUME NEW i \in (stale + 1) .. (n + 1), NEW j \in (stale + 1) .. (n + 1), i <= j
        PROVE  /\ FeedbackCheckpoint(t[i]) <= FeedbackCheckpoint(t[j])
               /\ FeedbackCheckpoint(t[j]) + 1 \notin FeedbackAcks(t[i])
    <2>1. CASE j = n + 1
      BY <1>3, <1>4, <1>5, <2>1, Zenon
    <2>2. CASE j # n + 1
      <3>1. i # n + 1
        BY <1>2, <1>6, <2>2
      <3> QED
        BY <1>2, <1>5, <1>6, <2>2, <3>1
    <2> QED
      BY <2>1, <2>2
  <1>7. stale \in 0 .. (n + 1)
    BY <1>2
  <1>8. Truthful(t, stale)
    BY <1>3, <1>5, <1>6, <1>7, Zenon DEF Truthful
  <1> QED
    BY <1>8 DEF t, fb

\* What remains when the network forgets a message is true.
LEMMA ForgetTruthful ==
    \A s, stale : Truthful(s, stale) =>
        \A m \in 1 .. Len(s) :
            Truthful(Forget(s, m), IF m <= stale THEN stale - 1 ELSE stale)
  <1> SUFFICES ASSUME NEW s, NEW stale, Truthful(s, stale), NEW k \in 1 .. Len(s)
               PROVE  Truthful(Forget(s, k), IF k <= stale THEN stale - 1 ELSE stale)
    OBVIOUS
  <1> DEFINE n == Len(s)
             t == Forget(s, k)
             left == IF k <= stale THEN stale - 1 ELSE stale
             was(i) == IF i < k THEN i ELSE i + 1
  <1>1. /\ s \in Seq(Feedback) /\ n \in Nat /\ stale \in 0 .. n
        /\ \A i \in (stale + 1) .. n : FeedbackTrue(s[i])
        /\ \A i, j \in (stale + 1) .. n :
              i <= j => /\ FeedbackCheckpoint(s[i]) <= FeedbackCheckpoint(s[j])
                        /\ FeedbackCheckpoint(s[j]) + 1 \notin FeedbackAcks(s[i])
    BY DEF Truthful
  <1>2. k \in Int /\ 1 <= k /\ k <= n
    BY <1>1
  <1>3. \A i \in 1 .. (n - 1) : was(i) \in 1 .. n
    BY <1>1, <1>2
  <1>4. t = [i \in 1 .. (n - 1) |-> s[was(i)]] /\ n - 1 \in Nat
    BY <1>1, <1>2 DEF Forget
  <1>5. \A i \in 1 .. (n - 1) : s[was(i)] \in Feedback
    BY <1>1, <1>3
  <1> HIDE DEF t, n
  <1>6. /\ t \in Seq(Feedback) /\ Len(t) = n - 1
        /\ \A i \in 1 .. (n - 1) : t[i] = s[was(i)]
    BY <1>4, <1>5
  <1>7. left \in 0 .. (n - 1)
    BY <1>1, <1>2
  <1>8. \A i \in (left + 1) .. (n - 1) : was(i) \in (stale + 1) .. n /\ i \in 1 .. (n - 1)
    BY <1>1, <1>2
  <1>9. \A i, j \in (left + 1) .. (n - 1) : i <= j => was(i) <= was(j)
    BY <1>1, <1>2
  <1> HIDE DEF was, left
  <1>10. Truthful(t, left)
    BY <1>1, <1>6, <1>7, <1>8, <1>9, Zenon DEF Truthful
  <1> QED
    BY <1>10 DEF t, left

-----------------------------------------------------------------------------
(* What every step does *)

\* No step changes the kind of a frame.
KindsKept ==
    /\ last_enqueued_frame_id <= last_enqueued_frame_id'
    /\ \A f \in 0 .. last_enqueued_frame_id : KindOf(f)' = KindOf(f)

\* No step takes anything back from what the Receiver has or knows of.
Progress ==
    /\ KindsKept
    /\ checkpoint_frame <= checkpoint_frame'
    /\ latest_frame_expected <= latest_frame_expected'
    /\ \A f \in Int : Settled(f) => Settled(f)'

\* The target playout delay at a frame stays what it is.
LEMMA DelayKept ==
    ASSUME KindsKept, last_enqueued_frame_id \in Int,
           NEW c \in Int, c <= last_enqueued_frame_id, NEW d, IsDelayAt(c, d)
    PROVE  IsDelayAt(c, d)'
  <1>1. \A g \in first .. c : g \in 0 .. last_enqueued_frame_id
    BY Sizes
  <1>2. \A g \in first .. c : KindOf(g)' = KindOf(g)
    BY <1>1 DEF KindsKept
  <1>3. \A g \in first .. c : \A h \in (g + 1) .. c : h \in first .. c
    BY Sizes
  <1> QED
    BY <1>2, <1>3 DEF IsDelayAt

\* Feedback that is true stays true, as long as the Sender has not gone beyond it and
\* has the frame after its checkpoint in flight.
LEMMA FeedbackKept ==
    ASSUME Core, Core', Progress, NEW fb \in Feedback, FeedbackTrue(fb),
           NEW c, c = FeedbackCheckpoint(fb),
           checkpoint_frame_id' <= c,
           c < last_enqueued_frame_id' => is_active_for_frame(c + 1)'
    PROVE  /\ FeedbackTrue(fb)'
           /\ FeedbackCheckpoint(fb)' = c
           /\ FeedbackAcks(fb)' = FeedbackAcks(fb)
  <1>1. NumbersOK
    BY Numbers
  <1>2. NumbersOK'
    BY Numbers, PTL
  <1>3. /\ fb.checkpoint = lower_8_bits(c)
        /\ c <= checkpoint_frame
        /\ \A a \in FeedbackAcks(fb) :
              c + 1 < a /\ a <= latest_frame_expected /\ Settled(a)
        /\ \A n \in FeedbackNacks(fb) : n[1] <= latest_frame_expected
        /\ IsDelayAt(c, fb.playout_delay)
    BY DEF FeedbackTrue
  <1>4. c \in Int /\ fb.acks \in SUBSET Int
    <2>1. fb.checkpoint \in 0 .. (IdSpan - 1) /\ fb.acks \in SUBSET Nat
      BY DEF Feedback
    <2> QED
      BY <1>1, <2>1, ExpandLessThanOrEqualBounds DEF FeedbackCheckpoint, NumbersOK
  <1>5. FeedbackCheckpoint(fb)' = c
    <2>1. /\ last_enqueued_frame_id' \in Int
          /\ c <= last_enqueued_frame_id'
          /\ last_enqueued_frame_id' - c < IdSpan
      <3>1. /\ last_enqueued_frame_id' \in Int /\ checkpoint_frame_id' \in Int
            /\ last_enqueued_frame_id' - checkpoint_frame_id' <= kMaxUnackedFrames
        BY <1>2 DEF NumbersOK
      <3>2. c <= last_enqueued_frame_id'
        BY <1>1, <1>3, <1>4, <3>1 DEF NumbersOK, Progress, KindsKept
      <3>3. \A e, p, x, k, s \in Int : e - p <= k /\ p <= x /\ k < s => e - x < s
        OBVIOUS
      <3>4. kMaxUnackedFrames \in Int /\ IdSpan \in Int /\ kMaxUnackedFrames < IdSpan
        BY Sizes
      <3> QED
        BY <1>4, <3>1, <3>2, <3>3, <3>4, Zenon
    <2>2. ExpandLessThanOrEqual(last_enqueued_frame_id', lower_8_bits(c)) = c
      BY <1>4, <2>1, ExpandLessThanOrEqualRestores, Zenon
    <2> QED
      BY <1>3, <2>2, Zenon DEF FeedbackCheckpoint, ExpandLessThanOrEqual, lower_8_bits
  <1>6. FeedbackAcks(fb)' = FeedbackAcks(fb) /\ FeedbackNacks(fb)' = FeedbackNacks(fb)
    BY <1>5, Zenon DEF FeedbackAcks, FeedbackNacks, ExpandGreaterThan, ExpandLessThanOrEqual
  <1>7. ASSUME NEW a \in FeedbackAcks(fb)
        PROVE  c + 1 < a /\ a <= latest_frame_expected' /\ Settled(a)'
    <2>1. a \in Int
      BY <1>4 DEF FeedbackAcks
    <2> QED
      BY <1>1, <1>2, <1>3, <2>1 DEF Progress, NumbersOK
  <1>8. ASSUME NEW n \in FeedbackNacks(fb)
        PROVE  n[1] <= latest_frame_expected'
    <2>1. n[1] \in Int
      <3>1. PICK m \in fb.nacks : n = <<ExpandGreaterThan(c, m[1]), m[2]>>
        BY DEF FeedbackNacks
      <3>2. m[1] \in 0 .. (IdSpan - 1)
        <4>1. fb.nacks \subseteq (0 .. (IdSpan - 1)) \X Nat
          BY DEF Feedback
        <4> QED
          BY <3>1, <4>1
      <3>3. c + IdSpan \in Int
        BY <1>4, Sizes
      <3>4. ExpandGreaterThan(c, m[1]) \in Int
        BY <3>2, <3>3, ExpandLessThanOrEqualBounds, Zenon DEF ExpandGreaterThan
      <3> QED
        BY <3>1, <3>4
    <2> QED
      BY <1>1, <1>2, <1>3, <2>1 DEF Progress, NumbersOK
  <1>9. IsDelayAt(c, fb.playout_delay)'
    BY <1>1, <1>3, <1>4, DelayKept DEF Progress, NumbersOK
  <1>10. c <= checkpoint_frame'
    BY <1>1, <1>2, <1>3, <1>4 DEF Progress, NumbersOK
  <1> QED
    BY <1>3, <1>5, <1>6, <1>7, <1>8, <1>9, <1>10 DEF FeedbackTrue

\* Whatever was in flight stays in flight, and so is a new frame.
StaysInFlight ==
    /\ checkpoint_frame_id' = checkpoint_frame_id
    /\ \A f \in Int : is_active_for_frame(f) => is_active_for_frame(f)'
    /\ \/ last_enqueued_frame_id' = last_enqueued_frame_id
       \/ /\ last_enqueued_frame_id' = last_enqueued_frame_id + 1
          /\ \A f \in Int : f = last_enqueued_frame_id + 1 => is_active_for_frame(f)'

\* The feedback that was sent before a step is still true after it.
LEMMA OldFeedbackTruthful ==
    ASSUME StreamingInv, Core', Progress, StaysInFlight,
           NEW s, s = rtcp_net, NEW stale, stale = rtcp_stale
    PROVE  Truthful(s, stale)'
  <1>1. NumbersOK
    BY Numbers DEF StreamingInv, Both
  <1>2. /\ s \in Seq(Feedback) /\ stale \in 0 .. Len(s)
        /\ \A i \in (stale + 1) .. Len(s) : FeedbackTrue(s[i])
        /\ \A i, j \in (stale + 1) .. Len(s) :
              i <= j => /\ FeedbackCheckpoint(s[i]) <= FeedbackCheckpoint(s[j])
                        /\ FeedbackCheckpoint(s[j]) + 1 \notin FeedbackAcks(s[i])
    BY DEF StreamingInv, FeedbackSound, Truthful
  <1>3. ASSUME NEW i \in (stale + 1) .. Len(s)
        PROVE  /\ FeedbackTrue(s[i])'
               /\ FeedbackCheckpoint(s[i])' = FeedbackCheckpoint(s[i])
               /\ FeedbackAcks(s[i])' = FeedbackAcks(s[i])
    <2>1. PICK fb : fb = s[i]
      OBVIOUS
    <2>2. fb \in Feedback /\ FeedbackTrue(fb)
      BY <1>2, <2>1
    <2>3. PICK c : c = FeedbackCheckpoint(fb)
      OBVIOUS
    <2>4. c \in Int /\ c <= last_enqueued_frame_id
      BY <2>2, <2>3, FeedbackFrameIds DEF StreamingInv, Both, Core, SenderInv
    <2>5. checkpoint_frame_id' <= c
      BY <2>2, <2>3 DEF FeedbackTrue, StaysInFlight
    <2>6. c < last_enqueued_frame_id => is_active_for_frame(c + 1)
      BY <2>2, <2>3 DEF FeedbackTrue
    <2>7. c < last_enqueued_frame_id' => is_active_for_frame(c + 1)'
      <3>1. c + 1 \in Int
        BY <2>4
      <3>2. \/ c < last_enqueued_frame_id
            \/ c + 1 = last_enqueued_frame_id + 1
        BY <1>1, <2>4 DEF NumbersOK
      <3>3. \/ last_enqueued_frame_id' = last_enqueued_frame_id
            \/ \A f \in Int : f = last_enqueued_frame_id + 1 => is_active_for_frame(f)'
        BY DEF StaysInFlight
      <3>4. CASE c < last_enqueued_frame_id
        BY <2>6, <3>1, <3>4 DEF StaysInFlight
      <3>5. CASE c + 1 = last_enqueued_frame_id + 1
        <4>1. c = last_enqueued_frame_id
          BY <1>1, <2>4, <3>5 DEF NumbersOK
        <4> QED
          BY <1>1, <3>1, <3>3, <3>5, <4>1 DEF NumbersOK
      <3> QED
        BY <3>2, <3>4, <3>5
    <2>8. /\ FeedbackTrue(fb)'
          /\ FeedbackCheckpoint(fb)' = c
          /\ FeedbackAcks(fb)' = FeedbackAcks(fb)
      BY <2>2, <2>3, <2>5, <2>7, FeedbackKept DEF StreamingInv, Both
    <2> QED
      BY <2>1, <2>3, <2>8
  <1> QED
    BY <1>2, <1>3 DEF Truthful

\* What is in flight is true after every step that sends feedback, or sends none.
LEMMA FeedbackStaysSound ==
    ASSUME SetFacts, StreamingInv, Both', Progress, StaysInFlight,
           Sends \/ UNCHANGED <<rtcp_net, rtcp_stale>>
    PROVE  FeedbackSound'
  <1>1. PICK q, r : q = rtcp_net /\ r = rtcp_stale
    OBVIOUS
  <1>2. Truthful(q, r)'
    BY <1>1, OldFeedbackTruthful DEF Both
  <1>3. CASE UNCHANGED <<rtcp_net, rtcp_stale>>
    BY <1>1, <1>2, <1>3 DEF FeedbackSound
  <1>4. CASE Sends
    <2>1. PICK t : t = Append(q, FeedbackMessage')
      BY Zenon
    <2>2. Truthful(t, r)'
      <3>1. AppendsTruth'
        BY AppendTruthful, PTL
      <3>2. Truthful(Append(q, FeedbackMessage), r)'
        BY <1>2, <3>1 DEF AppendsTruth
      <3> QED
        BY <2>1, <3>2
    <2>3. SendFeedback(FeedbackMessage')
      BY <1>4 DEF Sends
    <2>4. ASSUME rtcp_net' = t, rtcp_stale' = r
          PROVE  FeedbackSound'
      BY <2>2, <2>4 DEF FeedbackSound
    <2>5. ASSUME NEW k \in 1 .. Len(t),
                 rtcp_net' = Forget(t, k),
                 rtcp_stale' = IF k <= r THEN r - 1 ELSE r
          PROVE  FeedbackSound'
      <3>1. (\A s, stale : Truthful(s, stale) =>
                \A m \in 1 .. Len(s) :
                    Truthful(Forget(s, m), IF m <= stale THEN stale - 1 ELSE stale))'
        BY ForgetTruthful, PTL
      <3>2. PICK u, w : u = Forget(t, k) /\ w = IF k <= r THEN r - 1 ELSE r
        OBVIOUS
      <3>3. Truthful(u, w)'
        BY <2>2, <2>5, <3>1, <3>2
      <3> QED
        BY <2>5, <3>2, <3>3 DEF FeedbackSound
    <2>6. Len(t) = Len(q) + 1 /\ Len(q) \in Nat
      BY <1>1, <2>1 DEF StreamingInv, FeedbackSound, Truthful
    <2>7. /\ Len(q) < MaxRtcpInFlight => rtcp_net' = t /\ rtcp_stale' = r
          /\ ~(Len(q) < MaxRtcpInFlight) =>
                \E k \in 1 .. MaxRtcpInFlight + 1 :
                   /\ rtcp_net' = Forget(t, k)
                   /\ rtcp_stale' = IF k <= r THEN r - 1 ELSE r
      BY <1>1, <2>1, <2>3 DEF SendFeedback
    <2>8. MaxRtcpInFlight \in Nat
      BY NetworkAssumption
    <2>9. ~(Len(q) < MaxRtcpInFlight)
             => 1 .. MaxRtcpInFlight + 1 \subseteq 1 .. Len(t)
      BY <2>6, <2>8
    <2> QED
      BY <2>4, <2>5, <2>7, <2>9
  <1> QED
    BY <1>3, <1>4

-----------------------------------------------------------------------------
(* Steps that leave the queue alone *)

\* What the Receiver knows of the frames.
QueueVars == <<queue, latest_frame_expected, last_frame_consumed, checkpoint_frame>>

\* What the Sender believes stays true while only the Receiver moves.
LEMMA BeliefsKept ==
    ASSUME Both, NumbersOK', Progress, UNCHANGED sender_vars
    PROVE  BeliefsTrue' /\ StaysInFlight
  <1>1. NumbersOK
    BY Numbers DEF Both
  <1>2. \A f : is_active_for_frame(f)' = is_active_for_frame(f)
    BY DEF sender_vars, is_active_for_frame, SlotOf
  <1>3. /\ checkpoint_frame_id' = checkpoint_frame_id
        /\ last_enqueued_frame_id' = last_enqueued_frame_id
        /\ latest_expected_frame_id' = latest_expected_frame_id
    BY DEF sender_vars
  <1>4. latest_expected_frame_id' <= latest_frame_expected'
    BY <1>1, <1>3 DEF Both, BeliefsTrue, Progress, NumbersOK
  <1>5. ASSUME NEW f \in (checkpoint_frame_id + 1) .. last_enqueued_frame_id
        PROVE  is_active_for_frame(f)' \/ Settled(f)'
    <2>1. f \in Int
      BY <1>1 DEF NumbersOK
    <2> QED
      BY <1>2, <2>1 DEF Both, BeliefsTrue, Progress
  <1>6. BeliefsTrue'
    BY <1>2, <1>3, <1>4, <1>5 DEF Both, BeliefsTrue
  <1>7. StaysInFlight
    BY <1>2, <1>3 DEF StaysInFlight
  <1> QED
    BY <1>6, <1>7

\* The Sender's part of the invariant is about its own variables.
LEMMA SenderKept ==
    ASSUME SenderInv, UNCHANGED sender_vars
    PROVE  SenderInv'
  BY Zenon DEF SenderInv, sender_vars, SenderTypeOK, RingSound, NoPacketForgotten,
               NoLostSendRequest, ActiveSlots, FramesNeedingSend,
               KickstartNeeded, is_active_for_frame

\* The packets in flight stay genuine when none is added and no frame either.
LEMMA PacketsKept ==
    ASSUME PacketsGenuine, UNCHANGED <<sender_vars, enqueued>>, rtp_net' \subseteq rtp_net
    PROVE  PacketsGenuine'
  <1>1. \A f : KindOf(f)' = KindOf(f) /\ FramePackets(f)' = FramePackets(f)
    BY DEF KindOf, FramePackets, Cut
  <1>2. ActiveSlots' = ActiveSlots
    BY DEF sender_vars, ActiveSlots
  <1> QED
    BY <1>1, <1>2, Zenon DEF PacketsGenuine, sender_vars

\* What was delivered stays what it was.
LEMMA DeliveredKept ==
    ASSUME Both, DeliveredSound, KindsKept,
           UNCHANGED <<last_delivered, last_frame_consumed>>, frame_ready => frame_ready'
    PROVE  DeliveredSound'
  <1>1. NumbersOK
    BY Numbers DEF Both
  <1>2. PICK f \in leader .. last_frame_consumed :
          /\ last_delivered = IF f = leader THEN {} ELSE FramePackets(f)
          /\ \/ f = last_frame_consumed
             \/ frame_ready /\ KindOf(last_frame_consumed + 1).dependency # "dependent"
    BY DEF DeliveredSound
  <1>3. f # leader => FramePackets(f)' = FramePackets(f)
    <2>1. f # leader => f \in 0 .. last_enqueued_frame_id
      BY <1>1, <1>2, Sizes DEF NumbersOK
    <2> QED
      BY <2>1 DEF KindsKept, FramePackets, Cut, KindOf
  <1>4. frame_ready => KindOf(last_frame_consumed + 1)' = KindOf(last_frame_consumed + 1)
    <2>1. frame_ready => last_frame_consumed + 1 \in 0 .. last_enqueued_frame_id
      BY <1>1 DEF Both, CheckpointSound, NumbersOK
    <2> QED
      BY <2>1 DEF KindsKept, KindOf
  <1> QED
    BY <1>2, <1>3, <1>4 DEF DeliveredSound

\* A frame that the consumer could get, now or once the frames before it are late.
Reachable(f) ==
    /\ f \in Window
    /\ IsReady(f)
    /\ \A g \in (last_frame_consumed + 1) .. (f - 1) : Entry(g).captured

\* NoLostWakeup in these terms.
LEMMA WakeupMeaning ==
    NoLostWakeup <=> (consumer /\ (\E f : Reachable(f)) => consumption_alarm \/ frame_ready)
  BY DEF NoLostWakeup, Reachable, Window

\* The consumer is not forgotten by a step that finds no more frames for it.
LEMMA WakeupKept ==
    ASSUME NoLostWakeup, consumer' = consumer,
           \A f : Reachable(f)' => Reachable(f),
           consumption_alarm => consumption_alarm', frame_ready => frame_ready'
    PROVE  NoLostWakeup'
  <1>1. consumer /\ (\E f : Reachable(f)) => consumption_alarm \/ frame_ready
    BY WakeupMeaning
  <1>2. (NoLostWakeup <=> (consumer /\ (\E f : Reachable(f)) => consumption_alarm \/ frame_ready))'
    BY WakeupMeaning, PTL
  <1>3. (\E f : Reachable(f))' => \E f : Reachable(f)
    OBVIOUS
  <1> QED
    BY <1>1, <1>2, <1>3, Zenon

\* With the same queue, the same frames can be got.
LEMMA ReachableKept ==
    ASSUME UNCHANGED QueueVars
    PROVE  \A f : Reachable(f)' = Reachable(f)
  <1>1. Window' = Window /\ \A f : Entry(f)' = Entry(f) /\ IsReady(f)' = IsReady(f)
    BY DEF QueueVars, Window, Entry, SlotOf, IsReady, is_complete, PacketCount, Metadata
  <1> QED
    BY <1>1 DEF Reachable, QueueVars

-----------------------------------------------------------------------------
(* Target playout delays *)

\* ResolveTargetPlayoutDelay() finds the delay at any frame up to which all frames are
\* known.
LEMMA ResolveFacts ==
    ASSUME SetFacts, Core, NEW changes, NEW consumed \in Int, NEW expected \in Int, NEW known, NEW c \in Int,
           ChangesOK(changes, consumed, expected, known),
           consumed <= c, first .. c \subseteq known, leader <= c, c <= last_enqueued_frame_id
    PROVE  IsDelayAt(c, ResolveTargetPlayoutDelay(changes, c))
  <1> DEFINE npd(g) == KindOf(g).new_playout_delay
             S == {x[1] : x \in {z \in changes : z[1] <= c}}
             latest(y) == y[1] <= c /\ \A d \in changes : d[1] <= c => d[1] <= y[1]
             y == CHOOSE z \in changes : latest(z)
  <1>1. first = 0 /\ leader = -1
    BY Sizes
  <1>2. \A x \in changes : /\ x[1] \in Int /\ leader <= x[1]
                           /\ \/ x = <<leader, InitialPlayoutDelay>>
                              \/ /\ x[1] \in first .. expected
                                 /\ x = <<x[1], npd(x[1])>>
                                 /\ npd(x[1]) > 0
    BY <1>1 DEF ChangesOK
  <1>3. \E x \in changes : x[1] <= c
    <2>1. Covered(<<leader, InitialPlayoutDelay>>, changes, consumed)
      BY DEF ChangesOK
    <2> QED
      BY <1>1, <1>2, <2>1 DEF Covered
  <1>4. PICK m \in S : \A n \in S : n <= m
    <2>1. S \in SUBSET Int /\ S # {} /\ \A n \in S : n <= c
      BY <1>2, <1>3
    <2> HIDE DEF S
    <2> QED
      BY <2>1, GreatestExists, Zenon
  <1>5. \E z \in changes : latest(z)
    BY <1>4
  <1>6. y \in changes /\ latest(y)
    BY <1>5
  <1>7. y[2] = ResolveTargetPlayoutDelay(changes, c)
    BY DEF ResolveTargetPlayoutDelay
  <1> HIDE DEF y, S
  <1>8. ASSUME NEW g \in first .. c, y[1] < g
        PROVE  ~(npd(g) > 0)
    <2>1. g \in Int
      BY <1>1
    <2>2. npd(g) > 0 => Covered(<<g, npd(g)>>, changes, consumed)
      BY DEF ChangesOK
    <2>3. <<g, npd(g)>> \in changes => FALSE
      <3>1. <<g, npd(g)>>[1] = g /\ g <= c
        BY <1>1
      <3>2. <<g, npd(g)>> \in changes => g <= y[1]
        BY <1>6, <3>1
      <3> QED
        BY <1>2, <1>6, <1>8, <2>1, <3>2
    <2>4. ASSUME NEW x \in changes, g < x[1], x[1] <= consumed
          PROVE  FALSE
      BY <1>2, <1>6, <1>8, <2>1, <2>4
    <2> QED
      BY <2>2, <2>3, <2>4 DEF Covered
  <1>9. \A g \in first .. c : y[1] < g => npd(g) = 0
    <2>1. ASSUME NEW g \in first .. c, y[1] < g PROVE npd(g) = 0
      <3>1. npd(g) \in Nat
        <4>1. g \in 0 .. last_enqueued_frame_id
          BY <1>1, Numbers DEF NumbersOK
        <4> QED
          BY <4>1, KindFacts DEF KindOK
      <3> QED
        BY <1>8, <2>1, <3>1
    <2> QED
      BY <2>1
  <1> QED
    BY <1>1, <1>2, <1>6, <1>7, <1>9 DEF IsDelayAt

\* The target playout delay is a number.
LEMMA DelayIsNat ==
    ASSUME Core, NEW c \in Int, c <= last_enqueued_frame_id, NEW d, IsDelayAt(c, d)
    PROVE  d \in Nat
  <1>1. \A g \in first .. c : g \in 0 .. last_enqueued_frame_id
    BY Numbers, Sizes DEF NumbersOK
  <1>2. \A g \in first .. c : KindOf(g).new_playout_delay \in Nat
    BY <1>1, KindFacts DEF KindOK
  <1> QED
    BY <1>2, Sizes DEF IsDelayAt

\* A step of the Receiver that keeps its record of the changes complete, and takes the
\* delay to be reported from it when the checkpoint moves.
LEMMA DelaysAfter ==
    ASSUME SetFacts, Both, UNCHANGED <<sender_vars, enqueued>>,
           last_frame_consumed' \in Int, latest_frame_expected' \in Int,
           checkpoint_frame' \in Int, checkpoint_frame' <= last_enqueued_frame_id,
           last_frame_consumed' <= checkpoint_frame', leader <= checkpoint_frame',
           ChangesOK(playout_delay_changes', last_frame_consumed', latest_frame_expected',
                     KnownToReceiver'),
           \/ UNCHANGED <<checkpoint_frame, playout_delay>>
           \/ /\ first .. checkpoint_frame' \subseteq KnownToReceiver'
              /\ playout_delay' = ResolveTargetPlayoutDelay(playout_delay_changes',
                                                            checkpoint_frame')
    PROVE  DelaysSound' /\ playout_delay' \in Nat
  <1>1. \A f : KindOf(f)' = KindOf(f)
    BY DEF KindOf
  <1>2. \A c, d : IsDelayAt(c, d)' = IsDelayAt(c, d)
    BY <1>1, Zenon DEF IsDelayAt
  <1>3. UNCHANGED <<last_enqueued_frame_id, target_playout_delay,
                    playout_delay_change_at_frame_id>>
    BY DEF sender_vars
  <1>4. PICK c, d : c = checkpoint_frame' /\ d = playout_delay'
    OBVIOUS
  <1>5. IsDelayAt(c, d)
    <2>1. CASE UNCHANGED <<checkpoint_frame, playout_delay>>
      BY <1>4, <2>1 DEF Both, DelaysSound
    <2>2. CASE /\ first .. checkpoint_frame' \subseteq KnownToReceiver'
               /\ playout_delay' = ResolveTargetPlayoutDelay(playout_delay_changes',
                                                             checkpoint_frame')
      <3>1. PICK changes, consumed, expected, known :
               /\ changes = playout_delay_changes' /\ consumed = last_frame_consumed'
               /\ expected = latest_frame_expected' /\ known = KnownToReceiver'
        OBVIOUS
      <3>2. IsDelayAt(c, ResolveTargetPlayoutDelay(changes, c))
        BY <1>4, <2>2, <3>1, ResolveFacts, Zenon DEF Both
      <3>3. d = ResolveTargetPlayoutDelay(changes, c)
        BY <1>4, <2>2, <3>1, Zenon
      <3> QED
        BY <3>2, <3>3
    <2> QED
      BY <2>1, <2>2, Zenon
  <1>6. d \in Nat
    BY <1>4, <1>5, DelayIsNat, Zenon DEF Both
  <1>7. IsDelayAt(c, d)'
    BY <1>2, <1>5, Zenon
  <1>8. IsDelayAt(checkpoint_frame, playout_delay)'
    BY <1>4, <1>7
  <1>9. IsDelayAt(last_enqueued_frame_id, target_playout_delay)'
    BY <1>2, <1>3, Zenon DEF Both, DelaysSound
  <1>10. ChangesOK(playout_delay_changes, last_frame_consumed, latest_frame_expected,
                   KnownToReceiver)'
    <2>1. PICK changes, consumed, expected, known :
             /\ changes = playout_delay_changes' /\ consumed = last_frame_consumed'
             /\ expected = latest_frame_expected' /\ known = KnownToReceiver'
      OBVIOUS
    <2>2. ChangesOK(changes, consumed, expected, known)
      BY <2>1
    <2>3. ChangesOK(changes, consumed, expected, known)'
      BY <1>1, <2>2, Zenon DEF ChangesOK, Covered
    <2> QED
      BY <2>1, <2>3, Zenon
  <1> QED
    BY <1>1, <1>3, <1>4, <1>6, <1>8, <1>9, <1>10, Zenon DEF Both, DelaysSound

-----------------------------------------------------------------------------
(* What a step of the Receiver keeps *)

\* A step that leaves the queue and the frames alone is progress, if none.
LEMMA QuietProgress ==
    ASSUME Core, UNCHANGED <<QueueVars, enqueued, last_enqueued_frame_id>>
    PROVE  Progress
  <1>1. NumbersOK
    BY Numbers, Zenon
  <1>2. \A f : KindOf(f)' = KindOf(f) /\ Settled(f)' = Settled(f)
    BY DEF QueueVars, KindOf, Settled, is_complete, PacketCount, Entry, SlotOf
  <1> QED
    BY <1>1, <1>2 DEF Progress, KindsKept, QueueVars, NumbersOK

\* The queue stays sound when nothing about it changes.
LEMMA QueueKept ==
    ASSUME QueueSound, UNCHANGED <<queue, latest_frame_expected, last_frame_consumed>>,
           \A f \in Window : FramePackets(f)' = FramePackets(f)
    PROVE  QueueSound'
  <1>1. Window' = Window /\ \A f : Entry(f)' = Entry(f)
    BY DEF Window, Entry, SlotOf
  <1> QED
    BY <1>1, Zenon DEF QueueSound, SlotOf

\* The checkpoint stays exact when neither it nor the queue changes.
LEMMA CheckpointKept ==
    ASSUME CheckpointSound, UNCHANGED QueueVars,
           frame_ready' => last_frame_consumed < checkpoint_frame
    PROVE  CheckpointSound'
  <1>1. \A f : is_complete(Entry(f))' = is_complete(Entry(f))
    BY DEF QueueVars, Entry, SlotOf, is_complete, PacketCount
  <1> QED
    BY <1>1, Zenon DEF CheckpointSound, QueueVars

\* What both sides know of the playout delays stays right when nothing about it changes.
LEMMA DelaysKept ==
    ASSUME DelaysSound,
           UNCHANGED <<QueueVars, sender_vars, enqueued, playout_delay, playout_delay_changes>>
    PROVE  DelaysSound'
  <1>1. \A f : KindOf(f)' = KindOf(f) /\ Entry(f)' = Entry(f)
    BY DEF KindOf, QueueVars, Entry, SlotOf
  <1>2. \A c, d : IsDelayAt(c, d)' = IsDelayAt(c, d)
    BY <1>1, Zenon DEF IsDelayAt
  <1>3. /\ UNCHANGED <<playout_delay, playout_delay_changes, latest_frame_expected,
                       last_frame_consumed, checkpoint_frame, last_enqueued_frame_id,
                       target_playout_delay, playout_delay_change_at_frame_id>>
    BY DEF QueueVars, sender_vars
  <1>4. /\ IsDelayAt(last_enqueued_frame_id, target_playout_delay)'
        /\ IsDelayAt(checkpoint_frame, playout_delay)'
    BY <1>2, <1>3 DEF DelaysSound
  <1>5. KnownToReceiver' = KnownToReceiver
    BY <1>1, <1>3, Zenon DEF KnownToReceiver
  <1>6. ChangesOK(playout_delay_changes, last_frame_consumed, latest_frame_expected,
                  KnownToReceiver)'
    BY <1>1, <1>3, <1>5 DEF DelaysSound, ChangesOK, Covered
  <1> QED
    BY <1>1, <1>3, <1>4, <1>6 DEF DelaysSound

\* Capture times are kept with the queue.
LEMMA PlayoutKept ==
    ASSUME PlayoutReportable, UNCHANGED QueueVars
    PROVE  PlayoutReportable'
  BY DEF PlayoutReportable, QueueVars, Entry, SlotOf

\* A step of the Receiver that leaves the queue alone.
LEMMA QuietStep ==
    ASSUME SetFacts, StreamingInv,
           UNCHANGED <<sender_vars, enqueued, last_delivered, QueueVars, playout_delay,
                       playout_delay_changes, rtp_net>>,
           Sends \/ UNCHANGED <<rtcp_net, rtcp_stale>>,
           ReceiverTypeOK', FramesInOrder', NoLostWakeup',
           frame_ready => frame_ready',
           frame_ready' => last_frame_consumed < checkpoint_frame
    PROVE  StreamingInv'
  <1> USE DEF StreamingInv
  <1>1. UNCHANGED <<queue, latest_frame_expected, last_frame_consumed, checkpoint_frame,
                    last_enqueued_frame_id>>
    BY Zenon DEF QueueVars, sender_vars
  <1>2. \A f : FramePackets(f)' = FramePackets(f)
    BY Zenon DEF FramePackets, KindOf, Cut
  <1>3. Core'
    BY <1>1, <1>2, SenderKept, PacketsKept, QueueKept, Zenon DEF Both, Core
  <1>4. Progress
    BY <1>1, QuietProgress DEF Both
  <1>5. NumbersOK'
    BY <1>3, Numbers, PTL
  <1>6. BeliefsTrue' /\ StaysInFlight
    BY <1>4, <1>5, BeliefsKept
  <1>7. CheckpointSound' /\ DelaysSound'
    BY CheckpointKept, DelaysKept DEF Both
  <1>8. Both'
    BY <1>3, <1>6, <1>7 DEF Both
  <1>9. FeedbackSound'
    BY <1>4, <1>6, <1>8, FeedbackStaysSound, Zenon
  <1>10. DeliveredSound' /\ PlayoutReportable'
    BY <1>1, <1>4, DeliveredKept, PlayoutKept, Zenon DEF Progress
  <1> QED
    BY <1>8, <1>9, <1>10, Zenon

\* The record of changes remains complete when the frames that become known change
\* nothing.
LEMMA ChangesKept ==
    ASSUME Core, NEW changes, NEW known, NEW more, NEW consumed \in Int, NEW expected \in Int,
           last_frame_consumed <= consumed, latest_frame_expected <= expected,
           ChangesOK(changes, last_frame_consumed, latest_frame_expected, known),
           \A g \in more : g \in known \/ ~(KindOf(g).new_playout_delay > 0)
    PROVE  ChangesOK(changes, consumed, expected, more)
  <1>1. NumbersOK
    BY Numbers
  <1>2. \A g \in first .. latest_frame_expected : g \in first .. expected
    BY <1>1, Sizes DEF NumbersOK
  <1>3. \A y \in changes : y[1] \in Int
    BY <1>1, Sizes DEF ChangesOK, NumbersOK
  <1>4. \A x : Covered(x, changes, last_frame_consumed) => Covered(x, changes, consumed)
    <2>1. last_frame_consumed \in Int
      BY <1>1 DEF NumbersOK
    <2> QED
      BY <1>3, <2>1 DEF Covered
  <1> QED
    BY <1>2, <1>4 DEF ChangesOK

\* What remains to be shown of a step of the Receiver.
LEMMA MovingStep ==
    ASSUME SetFacts, StreamingInv, UNCHANGED <<sender_vars, enqueued, rtp_net>>,
           Sends \/ UNCHANGED <<rtcp_net, rtcp_stale>>,
           ReceiverTypeOK', FramesInOrder', QueueSound', CheckpointSound', DelaysSound',
           Progress, DeliveredSound', PlayoutReportable', NoLostWakeup'
    PROVE  StreamingInv'
  <1>1. Core'
    BY SenderKept, PacketsKept DEF StreamingInv, Both, Core
  <1>2. NumbersOK'
    BY <1>1, Numbers, PTL
  <1>3. BeliefsTrue' /\ StaysInFlight
    BY <1>2, BeliefsKept DEF StreamingInv
  <1>4. Both'
    BY <1>1, <1>3, Zenon DEF Both
  <1>5. FeedbackSound'
    BY <1>3, <1>4, FeedbackStaysSound
  <1> QED
    BY <1>4, <1>5 DEF StreamingInv
=============================================================================
