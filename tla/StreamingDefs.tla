---------------------------- MODULE StreamingDefs ---------------------------
(***************************************************************************)
(* What the two ends of a Cast Streaming session share: the size of their  *)
(* frame rings, the kinds of frames, and the packets they exchange.        *)
(***************************************************************************)
EXTENDS FrameIds, FiniteSets

CONSTANTS kMaxUnackedFrames,  \* slots of a ring; 120 in the code
          FrameKinds,         \* what the encoder may hand over
          kAllPacketsLost,    \* the packet ID that stands for "all"
          InitialPlayoutDelay \* agreed on by OFFER and ANSWER

\* new_playout_delay is 0 in a frame that does not change the delay.
ASSUME StreamingAssumption ==
    /\ kMaxUnackedFrames \in Nat \ {0}
    /\ FrameKinds \subseteq [packets : Nat \ {0},
                             dependency : {"key", "independent", "dependent"},
                             new_playout_delay : Nat]
    /\ kAllPacketsLost \in Nat
    /\ \A k \in FrameKinds : k.packets <= kAllPacketsLost
    /\ InitialPlayoutDelay \in Nat \ {0}

Slots == 0 .. (kMaxUnackedFrames - 1)

\* Index of get_slot_for() and GetQueueEntry().
SlotOf(f) == f % kMaxUnackedFrames

\* An RTP packet: which frame it is cut from, and its position in it.  The wire
\* carries lower_8_bits(frame_id), the packet count and, in packet 0, the
\* metadata; nothing on the receiving side may use the full frame_id.
RtpPacket == [frame_id : FrameId, kind : FrameKinds, packet_id : Nat]

\* The fields of a compound RTCP packet that SenderImpl acts on.  Frame IDs are
\* in wire form; acks are bit positions of the CST2 vector; a nack is a pair
\* <<wire frame ID, packet ID>>.
Feedback ==
    [checkpoint : 0 .. (IdSpan - 1), playout_delay : Nat,
     acks : SUBSET Nat, nacks : SUBSET ((0 .. (IdSpan - 1)) \X Nat),
     pli : BOOLEAN]
=============================================================================
