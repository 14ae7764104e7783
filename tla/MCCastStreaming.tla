-------------------------- MODULE MCCastStreaming ---------------------------
(***************************************************************************)
(* CastStreaming on small instances.                                       *)
(***************************************************************************)
EXTENDS CastStreaming

LOCAL INSTANCE SequencesExt

CONSTANT MaxFrameId      \* bound on the frames enqueued

\* Frames of two packets that depend on one another, and key frames, which change
\* the playout delay.
LossyKinds ==
    {[packets |-> 2, dependency |-> "dependent", new_playout_delay |-> 0],
     [packets |-> 1, dependency |-> "key", new_playout_delay |-> 2]}

\* Single-packet frames, to get beyond the span of the truncated frame IDs.
WrapKinds ==
    {[packets |-> 1, dependency |-> "independent", new_playout_delay |-> 0]}

\* Two-packet frames only.
PartKinds ==
    {[packets |-> 2, dependency |-> "independent", new_playout_delay |-> 0]}

\* Frames that are never skipped.
ChainKinds ==
    {[packets |-> n, dependency |-> "dependent", new_playout_delay |-> 0] : n \in 1 .. 2}

MCEnqueue == /\ last_enqueued_frame_id < MaxFrameId
             /\ \E kind \in FrameKinds : Enqueue(kind)

MCSpec == Init /\ [][MCEnqueue \/ Transport]_vars

\* Liveness, with MaxPackets packets in all: one frame of two packets, or a chain of
\* two frames.
MaxPackets == 2
MCEnqueueFew ==
    LET Packets(frames) == FoldSeq(LAMBDA kind, n : n + kind.packets, 0, frames)
    IN  \E kind \in FrameKinds :
          Packets(enqueued) + kind.packets <= MaxPackets /\ Enqueue(kind)

\* The packets that there can be.
MCPackets == {pkt \in [frame_id : 0 .. MaxFrameId, kind : FrameKinds, packet_id : 0 .. 1] :
                 /\ pkt.packet_id < pkt.kind.packets
                 /\ pkt.frame_id + pkt.kind.packets <= MaxPackets}
MCFairSpec == /\ Init
              /\ [][MCEnqueueFew \/ Transport \/ Loss]_vars
              /\ Fairness(MCPackets)

EveryFrameIsSettled == \A f \in 0 .. MaxFrameId : EveryFrameSettled(f)
=============================================================================
