------------------------------ MODULE FrameIds ------------------------------
(***************************************************************************)
(* Frame identifiers and their truncated wire form (frame_id.h and         *)
(* expanded_value_base.h).  A FrameId is a 64-bit integer that never wraps *)
(* in practice; RTP and RTCP packets carry only its low 8 bits, and the    *)
(* receiving end restores the rest from what it already knows.             *)
(***************************************************************************)
EXTENDS Integers

CONSTANT IdSpan      \* number of truncated values: 2^8 in the code

ASSUME IdSpanAssumption == IdSpan \in Nat \ {0}

first  == 0          \* FrameId::first()
leader == -1         \* FrameId::leader(), "just before the first frame"

FrameId == {f \in Int : f >= leader}

\* What is put on the wire.
lower_8_bits(f) == f % IdSpan

\* The greatest value <= v whose low bits are x.  (v & ~short_max) clears the
\* low bits, for negative v too, as v - v % IdSpan does.
ExpandLessThanOrEqual(v, x) ==
    LET result == (v - (v % IdSpan)) + x
    IN  IF result > v THEN result - IdSpan ELSE result

\* The smallest value > v whose low bits are x.
ExpandGreaterThan(v, x) == ExpandLessThanOrEqual(v + IdSpan, x)

\* "Design limit" of Expand(): how far apart two values may be.
max_distance_for_expansion == (IdSpan - 1) \div 2

\* The value closest to v whose low bits are x.
Expand(v, x) == ExpandLessThanOrEqual(v + max_distance_for_expansion, x)
=============================================================================
