--------------------------- MODULE BitrateControl ---------------------------
(***************************************************************************)
(* The arithmetic of ControlForNetworkCongestion(): the next target        *)
(* bitrate of the video encoder.  Doubles are replaced by exact fractions; *)
(* 0.8 and 1.1 round up as doubles, so truncation gives the same integers. *)
(***************************************************************************)
EXTENDS Integers

Lesser(a, b) == IF a < b THEN a ELSE b
Greater(a, b) == IF a > b THEN a ELSE b

\* kUsableBandwidthFraction of the estimate, without the audio.
AvailableVideo(estimated, opus, floor) ==
    Greater(floor, (estimated * 4) \div 5 - opus)

\* The cap of the command line and the receiver's, where it gave one.
HardVideoCap(cap, receiver_max) ==
    IF receiver_max > 0 THEN Lesser(cap, receiver_max) ELSE cap

\* kMaxBitrateGrowthFactor
MaxGrowth(current) == (current * 11) \div 10

\* Down at once, up by at most 10%.
Adapted(current, available, hard_cap) ==
    IF available < current THEN Lesser(available, hard_cap)
    ELSE Lesser(Lesser(available, hard_cap), MaxGrowth(current))

\* The receiver's minimum, as far as it is reachable, is kept.
Floored(target, available, hard_cap, receiver_min) ==
    IF receiver_min > 0
    THEN Greater(target, Lesser(Lesser(receiver_min, hard_cap), available))
    ELSE target

NewTarget(current, available, hard_cap, receiver_min, floor) ==
    Greater(floor, Floored(Adapted(current, available, hard_cap),
                           available, hard_cap, receiver_min))
=============================================================================
