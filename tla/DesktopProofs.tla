---------------------------- MODULE DesktopProofs ---------------------------
(***************************************************************************)
(* What DesktopMediaSender makes of the frames it polls, for any           *)
(* timestamps, any queue capacity and any deadlines; and what              *)
(* ControlForNetworkCongestion() does with the target bitrate, for every   *)
(* estimate of the bandwidth, every configuration and every recommendation *)
(* of the receiver.                                                        *)
(***************************************************************************)
EXTENDS DesktopMediaSender, TLAPS

-----------------------------------------------------------------------------
(* The inductive invariant *)

Stamps(k) == Pts[k] \cup {None}
Units == [frame : Pts["video"], is_key_frame : BOOLEAN]

\* Timestamps are those of samples.  A frame is being encoded at one step of the encode
\* thread only, and nothing is polled once the sender is being destroyed.
CaptureTypes ==
    /\ last_timestamp \in [Tracks -> Nat] /\ error \in BOOLEAN
    /\ queue \in [Tracks -> Seq(Nat)]
    /\ \A k \in Tracks : queue[k] \in Seq(Pts[k]) /\ Len(queue[k]) <= kCapacity
EncoderTypes ==
    /\ quit \in BOOLEAN /\ needs_key_frame \in BOOLEAN /\ cv_notified \in BOOLEAN
    /\ last_sent \in BOOLEAN
    /\ enc \in {"none", "test", "waiting", "encode", "ended"}
    /\ unit \in Seq(Units) /\ results \in Seq(Units) /\ encode_queue \in Seq(Pts["video"])
    /\ enc # "encode" => unit = <<>>
TimestampTypes ==
    /\ last_pts \in [Tracks -> Nat] /\ pending \in [Tracks -> Nat] /\ anchor_pts \in Nat
    /\ last_pts["video"] \in Stamps("video") /\ pending["video"] \in Stamps("video")
MediaTypes ==
    /\ encoders \subseteq Tracks /\ watchdog_failed \in BOOLEAN
    /\ media \in {"running", "joining", "gone"}
    /\ poll \in {"off", "scheduled", "audio", "video"}
    /\ media # "running" => poll = "off"
    /\ video_state \in {"kIdle", "kEncoding"}
AgeTypes ==
    /\ since_start \in 0 .. kInitialPairDeadline + 1
    /\ since_submit \in [Tracks -> Int]
    /\ \A k \in Tracks : since_submit[k] \in NotYet .. Deadline(k) + 1
DesktopTypes ==
    CaptureTypes /\ EncoderTypes /\ TimestampTypes /\ MediaTypes /\ AgeTypes

\* Where the frame is that was submitted last, if it is still with the encoder.
OneInEncoder ==
    media = "running" =>
        \/ video_state = "kIdle" /\ encode_queue = <<>> /\ unit = <<>> /\ results = <<>>
        \/ /\ video_state = "kEncoding"
           /\ \/ /\ encode_queue = <<last_pts["video"]>> /\ unit = <<>> /\ results = <<>>
              \/ /\ encode_queue = <<>> /\ results = <<>>
                 /\ \E u \in Units : unit = <<u>> /\ u.frame = last_pts["video"]
              \/ /\ encode_queue = <<>> /\ unit = <<>>
                 /\ \E u \in Units : results = <<u>> /\ u.frame = last_pts["video"]

\* A frame waits only for the encoder, and audio only for the first pair.
OnlyWaitsForEncoder ==
    anchor_pts # None => /\ pending["video"] # None => video_state = "kEncoding"
                         /\ pending["audio"] = None

\* A frame that is no key frame refers to one that was sent.
RefersToSent ==
    media = "running" =>
        /\ \A i \in 1 .. Len(unit) : unit[i].is_key_frame \/ last_sent
        /\ \A i \in 1 .. Len(results) : results[i].is_key_frame \/ last_sent
        /\ unit = <<>> /\ results = <<>> => needs_key_frame \/ last_sent

\* While the capture is sound, what is queued comes after what was taken, what waits and
\* the anchor.
Between(q, last, waits, anchor, newest) ==
    \A i \in 1 .. Len(q) : q[i] > last /\ q[i] > waits /\ q[i] >= anchor /\ q[i] <= newest
TrackInOrder(k) ==
    /\ last_pts[k] <= last_timestamp[k] /\ pending[k] <= last_timestamp[k]
    /\ anchor_pts <= last_timestamp[k]
    /\ Between(queue[k], last_pts[k], pending[k], anchor_pts, last_timestamp[k])
    /\ anchor_pts # None /\ pending[k] # None =>
          pending[k] > last_pts[k] /\ pending[k] >= anchor_pts
TracksInOrder == ~error => \A k \in Tracks : TrackInOrder(k)

DesktopInv ==
    /\ DesktopTypes /\ OneInEncoder /\ OnlyWaitsForEncoder /\ RefersToSent
    /\ TracksInOrder

-----------------------------------------------------------------------------
(* Lemmas about the queues and the gate in front of the encoder *)

\* What the assumptions say of the constants.
LEMMA Constants ==
    /\ Tracks = {"audio", "video"} /\ "audio" \in Tracks /\ "video" \in Tracks
    /\ kCapacity \in Nat /\ kCapacity > 0
    /\ \A k \in Tracks : Pts[k] \subseteq Nat /\ \A p \in Pts[k] : p \in Nat /\ p > None
    /\ kInitialPairDeadline \in Nat /\ \A k \in Tracks : Deadline(k) \in Nat
    /\ None = 0 /\ NotYet = -1
  BY CaptureAssumption, DesktopAssumption DEF Tracks, None, NotYet, Deadline

\* Push() adds a frame at the end and may drop one.
LEMMA PushFacts ==
    ASSUME NEW S, NEW q \in Seq(S), Len(q) <= kCapacity, NEW p \in S
    PROVE  /\ Push(q, p) \in Seq(S)
           /\ Len(Push(q, p)) <= kCapacity
           /\ \A i \in 1 .. Len(Push(q, p)) :
                 Push(q, p)[i] = p \/ \E j \in 1 .. Len(q) : Push(q, p)[i] = q[j]
  <1> DEFINE r == IF Len(q) = kCapacity THEN Tail(q) ELSE q
  <1>1. kCapacity \in Nat /\ kCapacity > 0
    BY Constants
  <1>2. /\ r \in Seq(S) /\ Len(r) < kCapacity
        /\ \A i \in 1 .. Len(r) : \E j \in 1 .. Len(q) : r[i] = q[j]
    <2>1. CASE Len(q) = kCapacity
      <3>1. q # <<>>
        BY <1>1, <2>1
      <3>2. /\ Tail(q) \in Seq(S) /\ Len(Tail(q)) = Len(q) - 1
            /\ \A i \in 1 .. Len(Tail(q)) : Tail(q)[i] = q[i + 1] /\ i + 1 \in 1 .. Len(q)
        BY <3>1
      <3> QED
        BY <1>1, <2>1, <3>2
    <2>2. CASE Len(q) # kCapacity
      BY <1>1, <2>2
    <2> QED
      BY <2>1, <2>2
  <1>3. Push(q, p) = Append(r, p)
    BY DEF Push
  <1> HIDE DEF r
  <1>4. /\ Append(r, p) \in Seq(S) /\ Len(Append(r, p)) = Len(r) + 1
        /\ \A i \in 1 .. Len(r) + 1 : Append(r, p)[i] = IF i = Len(r) + 1 THEN p ELSE r[i]
    BY <1>2
  <1>5. ASSUME NEW i \in 1 .. Len(r) + 1
        PROVE  Append(r, p)[i] = p \/ \E j \in 1 .. Len(q) : Append(r, p)[i] = q[j]
    BY <1>2, <1>4
  <1> QED
    BY <1>1, <1>2, <1>3, <1>4, <1>5

\* A frame that is newer than all that was there keeps its queue in order.
LEMMA PushBetween ==
    ASSUME NEW S \in SUBSET Nat, NEW q \in Seq(S), Len(q) <= kCapacity, NEW p \in S,
           NEW last \in Nat, NEW waits \in Nat, NEW anchor \in Nat, NEW newest \in Nat,
           last <= newest, waits <= newest, anchor <= newest, p > newest,
           Between(q, last, waits, anchor, newest)
    PROVE  Between(Push(q, p), last, waits, anchor, p)
  <1> SUFFICES ASSUME NEW i \in 1 .. Len(Push(q, p)), NEW x, x = Push(q, p)[i]
               PROVE  x > last /\ x > waits /\ x >= anchor /\ x <= p
    BY DEF Between
  <1>1. x = p \/ \E j \in 1 .. Len(q) : x = q[j]
    BY PushFacts
  <1>2. CASE x = p
    BY <1>2
  <1>3. ASSUME NEW j \in 1 .. Len(q), x = q[j]
        PROVE  x > last /\ x > waits /\ x >= anchor /\ x <= p
    <2>3. x \in S
      BY <1>3
    <2>1. x \in Nat /\ p \in Nat
      BY <2>3
    <2>2. x > last /\ x > waits /\ x >= anchor /\ x <= newest
      BY <1>3 DEF Between
    <2> QED
      BY <2>1, <2>2
  <1> QED
    BY <1>1, <1>2, <1>3

\* TakeLatest() finds the newest frame, if there is one.
LEMMA TakeLatestFacts ==
    ASSUME NEW S, NEW q \in Seq(S)
    PROVE  \/ q = <<>> /\ TakeLatest(q) = None
           \/ TakeLatest(q) \in S /\ \E i \in 1 .. Len(q) : TakeLatest(q) = q[i]
  BY DEF TakeLatest

Gates == [last : Stamps("video"), state : {"kIdle", "kEncoding"}, waits : Stamps("video"),
          queued : {<<>>} \cup {<<p>> : p \in Pts["video"]}]

\* What TrySubmitVideo() makes of gate g and frame p.
Outcome(r, g, p, anchor) ==
    \/ r = g
    \/ /\ g.state = "kEncoding" /\ p > g.last /\ p >= anchor
       /\ r = [g EXCEPT !.waits = p]
    \/ /\ g.state = "kIdle" /\ p > g.last /\ p >= anchor
       /\ r = [g EXCEPT !.last = p, !.state = "kEncoding", !.queued = <<p>>]
    \/ /\ g.state = "kIdle" /\ p > g.last /\ p >= anchor
       /\ r = [g EXCEPT !.last = p, !.waits = None]
\* The frame is dropped, waits, is queued for encoding, or is refused; since a frame
\* waits only while one is being encoded, no other frame is tried then.
LEMMA TrySubmitVideoFacts ==
    ASSUME NEW g \in Gates, NEW p \in Pts["video"], NEW anchor \in Nat,
           NEW accepted \in {{}, Pts["video"]},
           g.state = "kIdle" => g.waits \in {None, p}
    PROVE  /\ TrySubmitVideo(g, p, anchor, accepted) \in Gates
           /\ Outcome(TrySubmitVideo(g, p, anchor, accepted), g, p, anchor)
  <1> DEFINE r == TrySubmitVideo(g, p, anchor, accepted)
  <1>1. p \in Nat /\ p # None /\ g.last \in Nat /\ g.waits \in Nat
    BY Constants DEF Gates, Stamps
  <1>2. Outcome(r, g, p, anchor)
    <2>1. CASE "video" \notin encoders \/ ~Timely(g, p, anchor)
      BY <2>1 DEF TrySubmitVideo, Outcome
    <2>2. CASE "video" \in encoders /\ Timely(g, p, anchor) /\ g.state = "kEncoding"
      BY <2>2 DEF TrySubmitVideo, Outcome, Timely, Mappable, GateClosed
    <2>3. CASE "video" \in encoders /\ Timely(g, p, anchor) /\ g.state = "kIdle"
      <3>1. p > g.last /\ p >= anchor
        BY <2>3 DEF Timely, Mappable
      <3>2. CASE p \in accepted
        <4>1. r = [g EXCEPT !.last = p, !.state = "kEncoding", !.queued = <<p>>]
          BY <2>3, <3>2 DEF TrySubmitVideo, GateClosed, Submitted
        <4> QED
          BY <2>3, <3>1, <4>1 DEF Outcome
      <3>3. CASE p \notin accepted
        <4> DEFINE h == [g EXCEPT !.last = p]
        <4>1. CASE g.waits = None
          <5>1. r = h
            BY <2>3, <3>3, <4>1 DEF TrySubmitVideo, GateClosed
          <5>2. h = [g EXCEPT !.last = p, !.waits = None]
            BY <4>1, Zenon DEF Gates
          <5> QED
            BY <2>3, <3>1, <5>1, <5>2 DEF Outcome
        <4>2. CASE g.waits # None
          <5>1. g.waits = p
            BY <2>3, <4>2
          <5>2. h.last = p
            BY DEF Gates
          <5>3. ~Timely(h, p, anchor)
            BY <1>1, <5>2 DEF Timely
          <5>4. r = [h EXCEPT !.waits = None, !.last = Greater(p, p)]
            BY <2>3, <3>3, <4>2, <5>1, <5>3 DEF TrySubmitVideo, GateClosed
          <5>5. [h EXCEPT !.waits = None, !.last = Greater(p, p)]
                  = [g EXCEPT !.last = p, !.waits = None]
            BY Zenon DEF Gates, Greater
          <5> QED
            BY <2>3, <3>1, <5>4, <5>5 DEF Outcome
        <4> QED
          BY <4>1, <4>2
      <3> QED
        BY <3>2, <3>3
    <2> QED
      BY <2>1, <2>2, <2>3 DEF Gates
  <1> HIDE DEF r
  <1>3. r \in Gates
    BY <1>2, Zenon DEF Outcome, Gates, Stamps
  <1> QED
    BY <1>2, <1>3 DEF r

-----------------------------------------------------------------------------
(* Each step preserves the invariant *)

\* A sample is copied, or the capture fails: only queues and timestamps change.
LEMMA CaptureInvariant == DesktopInv /\ CaptureWorks => DesktopInv'
  <1> SUFFICES ASSUME DesktopInv, CaptureWorks PROVE DesktopInv'
    OBVIOUS
  <1>1. OneInEncoder' /\ OnlyWaitsForEncoder' /\ RefersToSent'
    <2>1. UNCHANGED <<encoder_vars, media_vars>>
      BY DEF CaptureWorks
    <2> QED
      BY <2>1 DEF DesktopInv, OneInEncoder, OnlyWaitsForEncoder, RefersToSent, encoder_vars, media_vars
  <1>2. ASSUME CaptureFails
        PROVE  DesktopTypes' /\ TracksInOrder'
    <2>1. error' = TRUE /\ UNCHANGED <<last_timestamp, queue, encoder_vars, media_vars>>
      BY <1>2 DEF CaptureFails, CaptureWorks
    <2>2. DesktopTypes'
      BY <2>1 DEF DesktopInv, DesktopTypes, CaptureTypes, EncoderTypes, TimestampTypes,
                  MediaTypes, AgeTypes, encoder_vars, media_vars
    <2> QED
      BY <2>1, <2>2 DEF TracksInOrder
  <1>3. ASSUME NEW k \in Tracks, NEW p \in Pts[k], CopySample(k, p)
        PROVE  DesktopTypes' /\ TracksInOrder'
    <2>1. /\ last_timestamp' = [last_timestamp EXCEPT ![k] = p]
          /\ \/ /\ InOrder(p, last_timestamp[k]) /\ queue' = [queue EXCEPT ![k] = Push(queue[k], p)]
                /\ error' = error
             \/ error' = TRUE /\ queue' = queue
          /\ UNCHANGED <<encoder_vars, media_vars>>
      BY <1>3 DEF CopySample, CaptureWorks
    <2>2. /\ p \in Nat /\ p > None /\ queue \in [Tracks -> Seq(Nat)]
          /\ last_timestamp \in [Tracks -> Nat] /\ error \in BOOLEAN
          /\ \A j \in Tracks : queue[j] \in Seq(Pts[j]) /\ Len(queue[j]) <= kCapacity
      BY Constants DEF DesktopInv, DesktopTypes, CaptureTypes
    <2>a. queue[k] \in Seq(Pts[k]) /\ Len(queue[k]) <= kCapacity
      BY <2>2
    <2>3. /\ Push(queue[k], p) \in Seq(Pts[k])
          /\ Len(Push(queue[k], p)) <= kCapacity
          /\ \A i \in 1 .. Len(Push(queue[k], p)) :
                \/ Push(queue[k], p)[i] = p
                \/ \E j \in 1 .. Len(queue[k]) : Push(queue[k], p)[i] = queue[k][j]
      <3> DEFINE S == Pts[k]  q == queue[k]
      <3>1. q \in Seq(S) /\ Len(q) <= kCapacity /\ p \in S
        BY <2>a
      <3> HIDE DEF S, q
      <3>2. /\ Push(q, p) \in Seq(S)
            /\ Len(Push(q, p)) <= kCapacity
            /\ \A i \in 1 .. Len(Push(q, p)) :
                  Push(q, p)[i] = p \/ \E j \in 1 .. Len(q) : Push(q, p)[i] = q[j]
        BY <3>1, PushFacts
      <3> QED
        BY <3>2 DEF S, q
    <2>4. Push(queue[k], p) \in Seq(Nat)
      BY <2>3, Constants
    <2>5. DesktopTypes'
      <3>1. last_timestamp' \in [Tracks -> Nat]
        BY <2>1, <2>2
      <3>2. queue' \in [Tracks -> Seq(Nat)]
        BY <2>1, <2>2, <2>4, Zenon
      <3>3. \A j \in Tracks : queue'[j] \in Seq(Pts[j]) /\ Len(queue'[j]) <= kCapacity
        BY <2>1, <2>2, <2>3, Zenon
      <3>4. error' \in BOOLEAN
        BY <2>1, <2>2, Zenon
      <3> QED
        <4>1. CaptureTypes'
          BY <3>1, <3>2, <3>3, <3>4, Zenon DEF CaptureTypes
        <4>2. EncoderTypes' /\ TimestampTypes' /\ MediaTypes' /\ AgeTypes'
          BY <2>1 DEF DesktopInv, DesktopTypes, EncoderTypes, TimestampTypes, MediaTypes,
                      AgeTypes, encoder_vars, media_vars
        <4> QED
          BY <4>1, <4>2 DEF DesktopTypes
    <2>6. ASSUME ~error', NEW j \in Tracks
          PROVE  TrackInOrder(j)'
      <3>1. /\ ~error /\ InOrder(p, last_timestamp[k])
            /\ queue' = [queue EXCEPT ![k] = Push(queue[k], p)]
        BY <2>1, <2>6
      <3>2. TrackInOrder(j) /\ TrackInOrder(k)
        BY <3>1 DEF DesktopInv, TracksInOrder
      <3>3. last_pts' = last_pts /\ pending' = pending /\ anchor_pts' = anchor_pts
        BY <2>1 DEF media_vars
      <3>4. CASE j # k
        <4>1. last_timestamp'[j] = last_timestamp[j] /\ queue'[j] = queue[j]
          BY <2>1, <2>2, <3>1, <3>4
        <4> QED
          BY <3>2, <3>3, <4>1 DEF TrackInOrder
      <3>5. CASE j = k
        <4>1. last_timestamp'[k] = p /\ queue'[k] = Push(queue[k], p)
          BY <2>1, <2>2, <3>1
        <4>2. p > last_timestamp[k]
          BY <2>2, <3>1 DEF InOrder
        <4>3. PICK S, q, last, waits, anchor, newest :
                 /\ S = Pts[k] /\ q = queue[k] /\ last = last_pts[k] /\ waits = pending[k]
                 /\ anchor = anchor_pts /\ newest = last_timestamp[k]
          OBVIOUS
        <4>4. /\ S \in SUBSET Nat /\ q \in Seq(S) /\ Len(q) <= kCapacity /\ p \in S
              /\ last \in Nat /\ waits \in Nat /\ anchor \in Nat /\ newest \in Nat
          BY <2>a, <4>3, Constants, Zenon DEF DesktopInv, DesktopTypes, CaptureTypes, TimestampTypes
        <4>5. /\ last <= newest /\ waits <= newest /\ anchor <= newest /\ p > newest
              /\ Between(q, last, waits, anchor, newest)
              /\ anchor # None /\ waits # None => waits > last /\ waits >= anchor
          BY <3>2, <4>2, <4>3 DEF TrackInOrder
        <4>6. Between(Push(q, p), last, waits, anchor, p)
          BY <4>4, <4>5, PushBetween
        <4>7. last <= p /\ waits <= p /\ anchor <= p
          BY <4>4, <4>5
        <4> QED
          BY <3>3, <3>5, <4>1, <4>3, <4>5, <4>6, <4>7 DEF TrackInOrder
      <3> QED
        BY <3>4, <3>5
    <2> QED
      BY <2>5, <2>6 DEF TracksInOrder
  <1> QED
    BY <1>1, <1>2, <1>3 DEF CaptureWorks, DesktopInv

\* The encode thread takes the frame that is queued, encodes it, and posts the result.
LEMMA EncodeThreadInvariant ==
    DesktopInv /\ (TestQuit \/ WakeUp \/ Encode) /\ UNCHANGED <<capture_vars, media_vars>>
        => DesktopInv'
  <1> SUFFICES ASSUME DesktopInv, TestQuit \/ WakeUp \/ Encode,
                      UNCHANGED <<capture_vars, media_vars>>
               PROVE  DesktopInv'
    OBVIOUS
  <1>1. CaptureTypes' /\ TimestampTypes' /\ MediaTypes' /\ AgeTypes'
    BY DEF DesktopInv, DesktopTypes, CaptureTypes, TimestampTypes, MediaTypes, AgeTypes,
           capture_vars, media_vars
  <1>2. OnlyWaitsForEncoder' /\ TracksInOrder'
    BY DEF DesktopInv, OnlyWaitsForEncoder, TracksInOrder, TrackInOrder, capture_vars, media_vars
  <1> SUFFICES EncoderTypes' /\ OneInEncoder' /\ RefersToSent'
    BY <1>1, <1>2 DEF DesktopInv, DesktopTypes
  <1>3. /\ EncoderTypes /\ OneInEncoder /\ RefersToSent
        /\ media' = media /\ video_state' = video_state /\ last_pts' = last_pts
    BY DEF DesktopInv, DesktopTypes, media_vars
  <1>4. quit' \in BOOLEAN /\ last_sent' = last_sent /\ cv_notified' \in BOOLEAN
    BY <1>3, Zenon DEF TestQuit, WakeUp, Encode, EncoderTypes
  <1>5. ASSUME unit' = unit, encode_queue' = encode_queue, needs_key_frame' = needs_key_frame,
               results' = results, enc \in {"test", "waiting"},
               enc' \in {"test", "waiting", "ended"}
        PROVE  EncoderTypes' /\ OneInEncoder' /\ RefersToSent'
    BY <1>3, <1>4, <1>5 DEF EncoderTypes, OneInEncoder, RefersToSent
  <1>6. ASSUME PopUnit, enc \in {"test", "waiting"}, encode_queue # <<>>, results' = results
        PROVE  EncoderTypes' /\ OneInEncoder' /\ RefersToSent'
    <2>1. PICK p, u : p = Head(encode_queue) /\ u = [frame |-> p, is_key_frame |-> needs_key_frame]
      BY Zenon
    <2>2. /\ p \in Pts["video"] /\ u \in Units /\ u.frame = p
          /\ u.is_key_frame = needs_key_frame
      BY <1>3, <1>6, <2>1 DEF EncoderTypes, Units
    <2>3. /\ unit' = <<u>> /\ encode_queue' = Tail(encode_queue) /\ needs_key_frame' = FALSE
          /\ enc' = "encode" /\ unit = <<>>
      BY <1>3, <1>6, <2>1 DEF PopUnit, EncoderTypes
    <2>4. EncoderTypes'
      <3>1. encode_queue' \in Seq(Pts["video"]) /\ results' \in Seq(Units)
        BY <1>3, <1>6, <2>3 DEF EncoderTypes
      <3>2. unit' \in Seq(Units)
        BY <2>2, <2>3
      <3> QED
        BY <1>3, <1>4, <2>3, <3>1, <3>2, Zenon DEF EncoderTypes
    <2>5. media = "running" =>
             /\ encode_queue = <<last_pts["video"]>> /\ results = <<>> /\ video_state = "kEncoding"
      BY <1>3, <1>6, <2>3 DEF OneInEncoder
    <2>6. media = "running" => p = last_pts["video"] /\ encode_queue' = <<>>
      <3>1. \A x : Head(<<x>>) = x /\ Tail(<<x>>) = <<>>
        OBVIOUS
      <3> QED
        BY <2>1, <2>3, <2>5, <3>1, Zenon
    <2>7. OneInEncoder'
      BY <1>3, <1>6, <2>2, <2>3, <2>5, <2>6 DEF OneInEncoder
    <2>8. media = "running" => u.is_key_frame \/ last_sent
      BY <1>3, <2>2, <2>3, <2>5 DEF RefersToSent
    <2>9. RefersToSent'
      BY <1>3, <1>4, <1>6, <2>3, <2>5, <2>8 DEF RefersToSent
    <2> QED
      BY <2>4, <2>7, <2>9
  <1>7. CASE TestQuit
    BY <1>5, <1>6, <1>7 DEF TestQuit, PopNothing
  <1>8. CASE WakeUp
    BY <1>5, <1>6, <1>8 DEF WakeUp, PopNothing
  <1>9. CASE Encode
    <2>1. /\ results' = results \o unit /\ unit' = <<>> /\ enc' = "test"
          /\ UNCHANGED <<encode_queue, needs_key_frame>>
      BY <1>9 DEF Encode
    <2>2. EncoderTypes'
      BY <1>3, <1>4, <2>1 DEF EncoderTypes
    <2>3. media = "running" => \/ results = <<>> /\ results' = unit
                               \/ unit = <<>> /\ results' = results
      <3>1. media = "running" => results = <<>> \/ unit = <<>>
        BY <1>3 DEF OneInEncoder
      <3>2. <<>> \o unit = unit /\ results \o <<>> = results
        BY <1>3 DEF EncoderTypes
      <3> QED
        BY <2>1, <3>1, <3>2, Zenon
    <2>4. OneInEncoder'
      <3> SUFFICES ASSUME media = "running" PROVE OneInEncoder'
        BY <1>3 DEF OneInEncoder
      <3>1. CASE unit = <<>> /\ results' = results
        BY <1>3, <2>1, <3>1 DEF OneInEncoder
      <3>2. CASE unit # <<>> /\ results' = unit
        <4>1. /\ video_state = "kEncoding" /\ encode_queue = <<>>
              /\ \E u \in Units : unit = <<u>> /\ u.frame = last_pts["video"]
          BY <1>3, <3>2 DEF OneInEncoder
        <4> QED
          BY <1>3, <2>1, <3>2, <4>1 DEF OneInEncoder
      <3>3. CASE unit = <<>> /\ results = <<>> /\ results' = unit
        BY <3>1, <3>3
      <3> QED
        BY <2>3, <3>1, <3>2, <3>3
    <2>5. RefersToSent'
      BY <1>3, <1>4, <2>1, <2>3 DEF RefersToSent
    <2> QED
      BY <2>2, <2>4, <2>5
  <1> QED
    BY <1>7, <1>8, <1>9

\* PollRuntimeError() is asked, or time passes: no frame moves.
LEMMA PollErrorInvariant == DesktopInv /\ (PollError \/ Tick) => DesktopInv'
  <1> SUFFICES ASSUME DesktopInv, PollError \/ Tick PROVE DesktopInv'
    OBVIOUS
  <1>1. UNCHANGED <<capture_vars, encoder_vars, media, encoders, anchor_pts, last_pts,
                    video_state, pending>>
    BY DEF PollError, Tick
  <1>2. CaptureTypes' /\ EncoderTypes' /\ TimestampTypes'
    BY <1>1 DEF DesktopInv, DesktopTypes, CaptureTypes, EncoderTypes, TimestampTypes,
                capture_vars, encoder_vars
  <1>3. OneInEncoder' /\ OnlyWaitsForEncoder' /\ RefersToSent' /\ TracksInOrder'
    BY <1>1 DEF DesktopInv, OneInEncoder, OnlyWaitsForEncoder, RefersToSent, TracksInOrder,
                TrackInOrder, capture_vars, encoder_vars
  <1>4. MediaTypes'
    BY <1>1, Zenon DEF DesktopInv, DesktopTypes, MediaTypes, CaptureTypes, PollError, Tick
  <1>5. AgeTypes'
    <2>1. AgeTypes
      BY Zenon DEF DesktopInv, DesktopTypes
    <2>2. CASE PollError
      BY <2>1, <2>2, Constants DEF PollError, Kept, AgeTypes
    <2>3. CASE Tick
      <3>1. since_start' \in 0 .. kInitialPairDeadline + 1
        BY <2>1, <2>3, Constants DEF Tick, Older, AgeTypes
      <3>2. ASSUME NEW k \in Tracks
            PROVE  Older(since_submit[k], Deadline(k)) \in NotYet .. Deadline(k) + 1
        BY <2>1, Constants DEF Older, AgeTypes
      <3> QED
        BY <2>3, <3>1, <3>2, Constants DEF Tick, AgeTypes
    <2> QED
      BY <2>2, <2>3
  <1> QED
    BY <1>2, <1>3, <1>4, <1>5 DEF DesktopInv, DesktopTypes

\* Ages that are kept or start anew.
LEMMA AgesKept ==
    ASSUME NEW ages \in [Tracks -> Int], NEW failed \in BOOLEAN,
           \A k \in Tracks : ages[k] \in NotYet .. Deadline(k) + 1
    PROVE  /\ Kept(ages, failed) \in [Tracks -> Int]
           /\ \A k \in Tracks : Kept(ages, failed)[k] \in NotYet .. Deadline(k) + 1
  BY Constants DEF Kept

\* The newest audio is kept for the first pair, submitted, or dropped.
LEMMA PollAudioInvariant == DesktopInv /\ PollAudio => DesktopInv'
  <1> SUFFICES ASSUME DesktopInv, PollAudio PROVE DesktopInv'
    OBVIOUS
  <1>1. PICK a : a = TakeLatest(queue["audio"])
    OBVIOUS
  <1>2. PICK submit \in BOOLEAN : submit = (a # None /\ Anchored /\ AudioTimely(a, anchor_pts))
    BY Zenon
  <1>3. /\ poll = "audio" /\ poll' = "video" /\ queue' = [queue EXCEPT !["audio"] = <<>>]
        /\ pending' = [pending EXCEPT !["audio"] = IF a # None /\ ~Anchored THEN a ELSE pending["audio"]]
        /\ last_pts' = [last_pts EXCEPT !["audio"] = IF submit THEN a ELSE last_pts["audio"]]
        /\ since_submit' = Kept([since_submit EXCEPT !["audio"] =
                                    IF submit THEN 0 ELSE since_submit["audio"]], watchdog_failed)
        /\ UNCHANGED <<last_timestamp, error, encoder_vars, media, encoders, anchor_pts,
                       video_state, since_start, watchdog_failed>>
    BY <1>1, <1>2, Zenon DEF PollAudio
  <1>4. /\ CaptureTypes /\ EncoderTypes /\ TimestampTypes /\ MediaTypes /\ AgeTypes
        /\ OneInEncoder /\ OnlyWaitsForEncoder /\ RefersToSent /\ TracksInOrder
    BY DEF DesktopInv, DesktopTypes
  <1>5. \/ a = None
        \/ a \in Pts["audio"] /\ \E i \in 1 .. Len(queue["audio"]) : a = queue["audio"][i]
    <2>1. queue["audio"] \in Seq(Pts["audio"])
      BY <1>4, Constants DEF CaptureTypes
    <2> QED
      BY <1>1, <2>1, TakeLatestFacts
  <1>6. a \in Nat
    BY <1>5, Constants
  <1>7. CaptureTypes'
    BY <1>3, <1>4, Constants DEF CaptureTypes
  <1>8. /\ pending' \in [Tracks -> Nat] /\ last_pts' \in [Tracks -> Nat]
        /\ pending'["video"] = pending["video"] /\ last_pts'["video"] = last_pts["video"]
        /\ pending'["audio"] = (IF a # None /\ ~Anchored THEN a ELSE pending["audio"])
        /\ last_pts'["audio"] = (IF submit THEN a ELSE last_pts["audio"])
        /\ queue'["video"] = queue["video"] /\ queue'["audio"] = <<>>
    BY <1>3, <1>4, <1>6, Constants DEF TimestampTypes, CaptureTypes
  <1>9. EncoderTypes' /\ TimestampTypes' /\ MediaTypes'
    BY <1>3, <1>4, <1>8 DEF EncoderTypes, TimestampTypes, MediaTypes, encoder_vars
  <1>10. AgeTypes'
    <2> DEFINE ages == [since_submit EXCEPT !["audio"] =
                            IF submit THEN 0 ELSE since_submit["audio"]]
    <2>1. ages \in [Tracks -> Int] /\ \A k \in Tracks : ages[k] \in NotYet .. Deadline(k) + 1
      BY <1>4, Constants DEF AgeTypes
    <2> HIDE DEF ages
    <2>2. watchdog_failed \in BOOLEAN
      BY <1>4 DEF MediaTypes
    <2>3. PICK g, b : g = ages /\ b = watchdog_failed
      OBVIOUS
    <2>4. /\ Kept(g, b) \in [Tracks -> Int]
          /\ \A k \in Tracks : Kept(g, b)[k] \in NotYet .. Deadline(k) + 1
      BY <2>1, <2>2, <2>3, AgesKept
    <2> QED
      BY <1>3, <1>4, <2>3, <2>4, Zenon DEF ages, AgeTypes
  <1>11. OneInEncoder' /\ RefersToSent'
    BY <1>3, <1>4, <1>8 DEF OneInEncoder, RefersToSent, encoder_vars
  <1>12. OnlyWaitsForEncoder'
    BY <1>3, <1>4, <1>8 DEF OnlyWaitsForEncoder, Anchored
  <1>13. ASSUME ~error' PROVE TrackInOrder("audio")' /\ TrackInOrder("video")'
    <2>1. TrackInOrder("audio") /\ TrackInOrder("video")
      BY <1>3, <1>4, <1>13, Constants DEF TracksInOrder
    <2>2. TrackInOrder("video")'
      BY <1>3, <1>8, <2>1 DEF TrackInOrder
    <2>3. a <= last_timestamp["audio"] /\ last_timestamp["audio"] \in Nat
      <3>1. last_timestamp["audio"] \in Nat
        BY <1>4, Constants DEF CaptureTypes
      <3>2. CASE a = None
        BY <3>1, <3>2, Constants
      <3>3. ASSUME NEW i \in 1 .. Len(queue["audio"]), a = queue["audio"][i]
            PROVE  a <= last_timestamp["audio"]
        BY <2>1, <3>3, Zenon DEF TrackInOrder, Between
      <3> QED
        BY <1>5, <3>1, <3>2, <3>3, Zenon
    <2>4. Between(queue'["audio"], last_pts'["audio"], pending'["audio"], anchor_pts',
                  last_timestamp'["audio"])
      BY <1>8 DEF Between
    <2>5. anchor_pts # None => pending["audio"] = None
      BY <1>4 DEF OnlyWaitsForEncoder
    <2>6. /\ last_pts'["audio"] <= last_timestamp["audio"]
          /\ pending'["audio"] <= last_timestamp["audio"]
      BY <1>8, <2>1, <2>3 DEF TrackInOrder
    <2>7. TrackInOrder("audio")'
      BY <1>3, <1>8, <2>1, <2>4, <2>5, <2>6 DEF TrackInOrder, Anchored
    <2> QED
      BY <2>2, <2>7
  <1>14. TracksInOrder'
    BY <1>13, Constants DEF TracksInOrder
  <1> QED
    BY <1>7, <1>9, <1>10, <1>11, <1>12, <1>14 DEF DesktopInv, DesktopTypes

\* The gate before PollVideo() or OnVideoEncoded() is one that TrySubmitVideo() expects.
LEMMA GateFacts ==
    DesktopInv => /\ Gate \in Gates /\ Gate.queued = <<>> /\ Gate.last = last_pts["video"]
                  /\ Gate.state = video_state /\ Gate.waits = pending["video"]
  BY DEF DesktopInv, DesktopTypes, TimestampTypes, MediaTypes, Gate, Gates

\* A frame that is queued goes to an encoder that has none, and closes the gate.
Passes(g, r) ==
    \/ r.state = g.state /\ r.queued = <<>> /\ (r.last = g.last \/ g.state = "kIdle")
    \/ g.state = "kIdle" /\ r.state = "kEncoding" /\ r.last \in Pts["video"] /\ r.queued = <<r.last>>
LEMMA OutcomePasses ==
    ASSUME NEW g \in Gates, NEW r \in Gates, NEW p \in Pts["video"], NEW anchor,
           g.queued = <<>>, Outcome(r, g, p, anchor)
    PROVE  Passes(g, r)
  BY Zenon DEF Outcome, Passes, Gates

\* Neither the task runner queues a second frame, nor does it send one that refers to a
\* frame that was not sent.
LEMMA PassesInvariant ==
    ASSUME DesktopInv, NEW g, NEW r \in Gates, Passes(g, r), g.last = last_pts["video"],
           \/ /\ results' = results /\ last_sent' = last_sent /\ g.state = video_state
              /\ needs_key_frame => needs_key_frame'
           \/ /\ results # <<>> /\ results' = Tail(results) /\ g.state = "kIdle"
              /\ needs_key_frame' \/ last_sent',
           QueueFrames(r.queued), last_pts'["video"] = r.last, video_state' = r.state,
           needs_key_frame' \in BOOLEAN, last_sent' \in BOOLEAN, media = "running",
           UNCHANGED <<quit, enc, unit, media>>
    PROVE  EncoderTypes' /\ OneInEncoder' /\ RefersToSent'
  <1>1. EncoderTypes /\ OneInEncoder /\ RefersToSent
    BY DEF DesktopInv, DesktopTypes
  <1>2. /\ \/ r.queued = <<>> /\ encode_queue' = encode_queue
           \/ r.queued = <<r.last>> /\ encode_queue' = Append(encode_queue, r.last)
        /\ cv_notified' \in BOOLEAN
    <2>1. <<r.last>> # <<>> /\ <<r.last>>[1] = r.last
      OBVIOUS
    <2> QED
      BY <1>1, <2>1, Zenon DEF QueueFrames, QueueFrame, Notify, Passes, EncoderTypes
  <1>3. r.queued = <<r.last>> => r.last \in Pts["video"]
    BY DEF Passes
  <1>4. EncoderTypes'
    <2>0. results \in Seq(Units) /\ encode_queue \in Seq(Pts["video"])
      BY <1>1 DEF EncoderTypes
    <2>1. results' \in Seq(Units)
      <3>1. results # <<>> => Tail(results) \in Seq(Units)
        BY <2>0
      <3> QED
        BY <2>0, <3>1, Zenon
    <2>2. encode_queue' \in Seq(Pts["video"])
      <3>1. \A x \in Pts["video"] : Append(encode_queue, x) \in Seq(Pts["video"])
        BY <2>0
      <3> QED
        BY <1>2, <1>3, <2>0, <3>1, Zenon
    <2> QED
      BY <1>1, <1>2, <2>1, <2>2 DEF EncoderTypes
  <1>5. ASSUME results' = results, g.state = video_state PROVE OneInEncoder'
    <2>1. r.queued = <<>> => OneInEncoder'
      BY <1>1, <1>2, <1>5 DEF OneInEncoder, Passes
    <2>2. r.queued # <<>> => OneInEncoder'
      <3>1. ASSUME r.queued # <<>>
            PROVE  /\ encode_queue = <<>> /\ unit = <<>> /\ results = <<>>
                   /\ encode_queue' = Append(encode_queue, r.last)
        BY <1>1, <1>2, <1>5, <3>1 DEF OneInEncoder, Passes
      <3>2. Append(<<>>, r.last) = <<r.last>>
        OBVIOUS
      <3> QED
        BY <1>2, <1>5, <3>1, <3>2, Zenon DEF OneInEncoder, Passes
    <2> QED
      BY <2>1, <2>2
  <1>6. ASSUME results # <<>>, results' = Tail(results), g.state = "kIdle" PROVE OneInEncoder'
    <2>1. encode_queue = <<>> /\ unit = <<>> /\ \E u \in Units : results = <<u>>
      BY <1>1, <1>6 DEF OneInEncoder
    <2>2. results' = <<>>
      BY <1>6, <2>1
    <2>3. Append(<<>>, r.last) = <<r.last>>
      OBVIOUS
    <2>4. CASE r.queued = <<>>
      <3>1. video_state' = "kIdle" /\ encode_queue' = <<>> /\ unit' = <<>>
        BY <1>2, <1>6, <2>1, <2>4 DEF Passes
      <3> QED
        BY <2>2, <3>1 DEF OneInEncoder
    <2>5. CASE r.queued # <<>>
      <3>1. /\ video_state' = "kEncoding" /\ encode_queue' = <<last_pts'["video"]>>
            /\ unit' = <<>>
        BY <1>2, <1>6, <2>1, <2>3, <2>5 DEF Passes
      <3> QED
        BY <2>2, <3>1 DEF OneInEncoder
    <2> QED
      BY <2>4, <2>5
  <1>7. RefersToSent'
    <2>1. CASE results' = results /\ last_sent' = last_sent /\ (needs_key_frame => needs_key_frame')
      BY <1>1, <2>1 DEF RefersToSent
    <2>2. CASE results # <<>> /\ results' = Tail(results) /\ (needs_key_frame' \/ last_sent')
      <3>1. unit = <<>> /\ \E u \in Units : results = <<u>>
        BY <1>1, <2>2 DEF OneInEncoder
      <3>2. results' = <<>>
        BY <2>2, <3>1
      <3> QED
        BY <2>2, <3>1, <3>2 DEF RefersToSent
    <2> QED
      BY <2>1, <2>2
  <1> QED
    BY <1>4, <1>5, <1>6, <1>7

\* What waits, waits for the encoder, and is newer than what was submitted.
WaitsForEncoder(r) == r.waits # None => r.state = "kEncoding"
WaitsInOrder(r, anchor) == r.waits # None => r.waits > r.last /\ r.waits >= anchor
LEMMA OutcomeWaits ==
    ASSUME NEW g \in Gates, NEW r \in Gates, NEW p \in Pts["video"], NEW anchor \in Nat,
           Outcome(r, g, p, anchor), WaitsForEncoder(g)
    PROVE  /\ WaitsForEncoder(r)
           /\ WaitsInOrder(g, anchor) => WaitsInOrder(r, anchor)
           /\ r.last \in {g.last, p} /\ r.waits \in {g.waits, p, None}
  <1>1. WaitsForEncoder(r)
    BY Zenon DEF Outcome, WaitsForEncoder, Gates
  <1>2. ASSUME WaitsInOrder(g, anchor) PROVE WaitsInOrder(r, anchor)
    BY <1>2, Zenon DEF Outcome, WaitsForEncoder, WaitsInOrder, Gates
  <1>3. r.last \in {g.last, p} /\ r.waits \in {g.waits, p, None}
    BY Zenon DEF Outcome, Gates
  <1> QED
    BY <1>1, <1>2, <1>3

\* The newest frame is kept for the first pair, waits, is submitted, or is dropped; the
\* first pair is submitted together.
LEMMA PollVideoInvariant ==
    ASSUME DesktopInv, NEW accepted \in {{}, Pts["video"]}, NEW lost \in BOOLEAN,
           PollVideo(accepted, lost)
    PROVE  DesktopInv'
  <1>1. PICK v, w, a, g : /\ v = TakeLatest(queue["video"]) /\ w = pending["audio"]
                          /\ a = anchor_pts /\ g = Gate
    OBVIOUS
  <1>2. PICK frame : frame = IF v = None /\ ~Anchored THEN pending["video"] ELSE v
    OBVIOUS
  <1>3. PICK pair \in BOOLEAN : pair = (~Anchored /\ frame # None /\ w # None)
    BY Zenon
  <1>4. PICK anchor : anchor = IF pair THEN Lesser(frame, w) ELSE a
    OBVIOUS
  <1>5. PICK gate : gate = IF pair \/ (Anchored /\ v # None)
                           THEN TrySubmitVideo(IF pair THEN [g EXCEPT !.waits = None] ELSE g,
                                               frame, anchor, accepted)
                           ELSE [g EXCEPT !.waits = IF Anchored THEN g.waits ELSE frame]
    BY Zenon
  <1>6. PICK audio \in BOOLEAN : audio = (pair /\ AudioTimely(w, anchor))
    BY Zenon
  <1>7. PICK age : age = [k \in Tracks |->
                             IF (k = "audio" /\ audio) \/ (k = "video" /\ gate.queued # <<>>)
                             THEN 0 ELSE since_submit[k]]
    BY Zenon
  <1>8. /\ poll = "video" /\ poll' = "scheduled" /\ queue' = [queue EXCEPT !["video"] = <<>>]
        /\ anchor_pts' = anchor /\ video_state' = gate.state
        /\ needs_key_frame' = (needs_key_frame \/ (gate.queued # <<>> /\ lost))
        /\ pending' = [audio |-> IF pair THEN None ELSE w, video |-> gate.waits]
        /\ last_pts' = [audio |-> IF audio THEN w ELSE last_pts["audio"], video |-> gate.last]
        /\ QueueFrames(gate.queued)
        /\ watchdog_failed' = (watchdog_failed \/ WatchdogExpired(anchor, age))
        /\ since_submit' = Kept(age, watchdog_failed')
        /\ UNCHANGED <<last_timestamp, error, quit, enc, unit, results, last_sent,
                       media, encoders, since_start>>
    BY <1>1, <1>2, <1>3, <1>4, <1>5, <1>6, <1>7, Zenon DEF PollVideo
  <1>9. /\ CaptureTypes /\ EncoderTypes /\ TimestampTypes /\ MediaTypes /\ AgeTypes
        /\ OneInEncoder /\ OnlyWaitsForEncoder /\ RefersToSent /\ TracksInOrder
    BY DEF DesktopInv, DesktopTypes
  <1>10. \/ v = None
         \/ v \in Pts["video"] /\ \E i \in 1 .. Len(queue["video"]) : v = queue["video"][i]
    <2>1. queue["video"] \in Seq(Pts["video"])
      BY <1>9, Constants DEF CaptureTypes
    <2> QED
      BY <1>1, <2>1, TakeLatestFacts
  <1>11. /\ g \in Gates /\ g.queued = <<>> /\ g.last = last_pts["video"]
         /\ g.state = video_state /\ g.waits = pending["video"]
    BY <1>1, GateFacts
  <1>12. frame \in Stamps("video") /\ frame \in Nat /\ w \in Nat /\ a \in Nat /\ anchor \in Nat
    <2>1. frame \in Stamps("video") /\ w \in Nat /\ a \in Nat
      BY <1>1, <1>2, <1>9, <1>10, Constants DEF TimestampTypes, Stamps
    <2>2. frame \in Nat
      BY <2>1, Constants DEF Stamps
    <2> QED
      BY <1>4, <2>1, <2>2 DEF Lesser
  <1>13. a # None => WaitsForEncoder(g) /\ w = None
    BY <1>1, <1>9, <1>11, Zenon DEF OnlyWaitsForEncoder, WaitsForEncoder
  <1>14. ~error /\ a # None => WaitsInOrder(g, a)
    BY <1>1, <1>9, <1>11, Constants DEF TracksInOrder, TrackInOrder, WaitsInOrder
  <1>15. /\ gate \in Gates /\ Passes(g, gate)
         /\ gate.last \in {g.last, frame} /\ gate.waits \in {g.waits, frame, None}
         /\ anchor # None => WaitsForEncoder(gate)
         /\ ~error /\ anchor # None => WaitsInOrder(gate, anchor)
    <2>1. CASE pair
      <3>1. PICK h : h = [g EXCEPT !.waits = None]
        BY Zenon
      <3>2. /\ h \in Gates /\ h.queued = <<>> /\ h.last = g.last /\ h.state = g.state
            /\ h.waits = None
        BY <1>11, <3>1 DEF Gates, Stamps
      <3>3. gate = TrySubmitVideo(h, frame, anchor, accepted) /\ frame \in Pts["video"]
        BY <1>3, <1>5, <1>12, <2>1, <3>1, Zenon DEF Stamps
      <3>4. gate \in Gates /\ Outcome(gate, h, frame, anchor)
        BY <1>12, <3>2, <3>3, TrySubmitVideoFacts, Zenon
      <3>5. WaitsForEncoder(h) /\ WaitsInOrder(h, anchor)
        BY <3>2, Zenon DEF WaitsForEncoder, WaitsInOrder
      <3>6. Passes(h, gate)
        BY <3>2, <3>3, <3>4, OutcomePasses, Zenon
      <3>7. /\ WaitsForEncoder(gate) /\ WaitsInOrder(gate, anchor)
            /\ gate.last \in {h.last, frame} /\ gate.waits \in {h.waits, frame, None}
        BY <1>12, <3>2, <3>3, <3>4, <3>5, OutcomeWaits
      <3> QED
        BY <3>2, <3>4, <3>6, <3>7, Zenon DEF Passes
    <2>2. CASE ~pair /\ Anchored /\ v # None
      <3>1. /\ gate = TrySubmitVideo(g, frame, anchor, accepted) /\ frame \in Pts["video"]
            /\ frame = v /\ anchor = a
        BY <1>2, <1>4, <1>5, <1>10, <2>2
      <3>2. WaitsForEncoder(g)
        BY <1>1, <1>13, <2>2 DEF Anchored
      <3>3. gate \in Gates /\ Outcome(gate, g, frame, anchor)
        BY <1>11, <1>12, <3>1, <3>2, TrySubmitVideoFacts, Zenon DEF WaitsForEncoder
      <3>4. Passes(g, gate)
        BY <1>11, <3>1, <3>3, OutcomePasses, Zenon
      <3>5. /\ WaitsForEncoder(gate)
            /\ WaitsInOrder(g, anchor) => WaitsInOrder(gate, anchor)
            /\ gate.last \in {g.last, frame} /\ gate.waits \in {g.waits, frame, None}
        BY <1>11, <1>12, <3>1, <3>2, <3>3, OutcomeWaits, Zenon
      <3> QED
        BY <1>14, <3>1, <3>3, <3>4, <3>5, Zenon
    <2>3. CASE ~pair /\ ~(Anchored /\ v # None)
      <3>1. gate = [g EXCEPT !.waits = IF Anchored THEN g.waits ELSE frame] /\ anchor = a
        BY <1>4, <1>5, <2>3
      <3>2. /\ gate \in Gates /\ gate.last = g.last /\ gate.state = g.state /\ gate.queued = <<>>
            /\ gate.waits = IF Anchored THEN g.waits ELSE frame
        BY <1>11, <1>12, <3>1 DEF Gates
      <3>3. anchor # None => gate.waits = g.waits
        BY <1>1, <3>1, <3>2, Zenon DEF Anchored
      <3> QED
        BY <1>13, <1>14, <3>1, <3>2, <3>3 DEF Passes, WaitsForEncoder, WaitsInOrder
    <2> QED
      BY <2>1, <2>2, <2>3, Zenon
  <1>16. /\ pending'["audio"] = (IF pair THEN None ELSE w) /\ pending'["video"] = gate.waits
         /\ last_pts'["audio"] = (IF audio THEN w ELSE last_pts["audio"])
         /\ last_pts'["video"] = gate.last
         /\ queue'["audio"] = queue["audio"] /\ queue'["video"] = <<>>
    BY <1>8, <1>9, Constants, Zenon DEF CaptureTypes
  <1>17. CaptureTypes'
    BY <1>8, <1>9, Constants DEF CaptureTypes
  <1>18. TimestampTypes'
    <2>1. /\ gate.last \in Stamps("video") /\ gate.waits \in Stamps("video")
          /\ gate.last \in Nat /\ gate.waits \in Nat
      BY <1>15, Constants DEF Gates, Stamps
    <2>2. /\ (IF pair THEN None ELSE w) \in Nat
          /\ (IF audio THEN w ELSE last_pts["audio"]) \in Nat
      BY <1>9, <1>12, Constants DEF TimestampTypes
    <2>3. pending' \in [Tracks -> Nat] /\ last_pts' \in [Tracks -> Nat]
      <3>1. \A x, y \in Nat : [audio |-> x, video |-> y] \in [Tracks -> Nat]
        BY Constants
      <3> QED
        BY <1>8, <2>1, <2>2, <3>1, Zenon
    <2> QED
      BY <1>8, <1>12, <1>16, <2>1, <2>3, Zenon DEF TimestampTypes
  <1>19. MediaTypes'
    <2>1. watchdog_failed' \in BOOLEAN /\ gate.state \in {"kIdle", "kEncoding"}
      BY <1>8, <1>15, Zenon DEF Gates
    <2> QED
      BY <1>8, <1>9, <2>1, Zenon DEF MediaTypes
  <1>20. AgeTypes'
    <2>1. age \in [Tracks -> Int] /\ \A k \in Tracks : age[k] \in NotYet .. Deadline(k) + 1
      BY <1>7, <1>9, Constants DEF AgeTypes
    <2>2. PICK failed \in BOOLEAN : failed = watchdog_failed'
      BY <1>8, Zenon
    <2>3. /\ Kept(age, failed) \in [Tracks -> Int]
          /\ \A k \in Tracks : Kept(age, failed)[k] \in NotYet .. Deadline(k) + 1
      BY <2>1, AgesKept
    <2> QED
      BY <1>8, <1>9, <2>2, <2>3, Zenon DEF AgeTypes
  <1>21. EncoderTypes' /\ OneInEncoder' /\ RefersToSent'
    <2>1. media = "running" /\ needs_key_frame' \in BOOLEAN /\ last_sent' \in BOOLEAN
      BY <1>8, <1>9, Zenon DEF MediaTypes, EncoderTypes
    <2>2. needs_key_frame => needs_key_frame'
      BY <1>8, Zenon
    <2> QED
      BY <1>8, <1>11, <1>15, <1>16, <2>1, <2>2, PassesInvariant, Zenon
  <1>22. OnlyWaitsForEncoder'
    BY <1>1, <1>3, <1>4, <1>8, <1>13, <1>15, <1>16, Zenon DEF OnlyWaitsForEncoder, WaitsForEncoder, Anchored
  <1>23. ASSUME ~error' PROVE TrackInOrder("audio")'
    <2>1. TrackInOrder("audio") /\ ~error
      BY <1>8, <1>9, <1>23, Constants, Zenon DEF TracksInOrder
    <2>2. PICK q, last, newest : /\ q = queue["audio"] /\ last = last_pts["audio"]
                                 /\ newest = last_timestamp["audio"]
      BY Zenon
    <2>3. q \in Seq(Nat) /\ last \in Nat /\ newest \in Nat
      BY <1>9, <2>2, Constants DEF CaptureTypes, TimestampTypes
    <2>4. last <= newest /\ w <= newest /\ a <= newest /\ Between(q, last, w, a, newest)
      BY <1>1, <2>1, <2>2, Zenon DEF TrackInOrder
    <2>5. anchor = a \/ anchor <= w
      BY <1>4, <1>12 DEF Lesser
    <2>6. anchor <= newest
      BY <1>12, <2>3, <2>4, <2>5
    <2>7. PICK last2, w2 : last2 = last_pts'["audio"] /\ w2 = pending'["audio"]
      BY Zenon
    <2>8. last2 \in {last, w} /\ w2 \in {None, w} /\ last2 \in Nat /\ w2 \in Nat
      <3>1. last2 \in {last, w} /\ w2 \in {None, w}
        BY <1>16, <2>2, <2>7, Zenon
      <3>2. None \in Nat
        BY Constants
      <3> QED
        BY <1>12, <2>3, <3>1, <3>2, Zenon
    <2>9. Between(q, last2, w2, anchor, newest)
      <3> SUFFICES ASSUME NEW i \in 1 .. Len(q)
                   PROVE  q[i] > last2 /\ q[i] > w2 /\ q[i] >= anchor /\ q[i] <= newest
        BY DEF Between
      <3>1. q[i] \in Nat /\ q[i] > last /\ q[i] > w /\ q[i] >= a /\ q[i] <= newest
        BY <2>3, <2>4 DEF Between
      <3>2. q[i] > last2
        BY <2>8, <3>1
      <3>3. q[i] > w2
        BY <1>12, <2>8, <3>1, None \in Nat DEF None
      <3>4. q[i] >= anchor
        BY <1>12, <2>5, <3>1
      <3> QED
        BY <3>1, <3>2, <3>3, <3>4, Zenon
    <2>10. last2 <= newest /\ w2 <= newest
      BY <1>12, <2>3, <2>4, <2>8, Constants
    <2>11. anchor # None => w2 = None
      BY <1>8, <1>22, <2>7 DEF OnlyWaitsForEncoder
    <2> QED
      BY <1>8, <1>16, <2>2, <2>6, <2>7, <2>9, <2>10, <2>11 DEF TrackInOrder
  <1>24. ASSUME ~error' PROVE TrackInOrder("video")'
    <2>1. TrackInOrder("video") /\ ~error
      BY <1>8, <1>9, <1>24, Constants, Zenon DEF TracksInOrder
    <2>2. PICK newest : newest = last_timestamp["video"]
      OBVIOUS
    <2>3. newest \in Nat /\ g.last <= newest /\ g.waits <= newest /\ a <= newest
      BY <1>1, <1>9, <1>11, <2>1, <2>2, Constants, Zenon DEF CaptureTypes, TrackInOrder
    <2>4. frame <= newest
      <3>1. v <= newest
        BY <1>10, <2>1, <2>2, <2>3, Constants DEF TrackInOrder, Between
      <3> QED
        BY <1>2, <1>11, <2>3, <3>1, Zenon
    <2>5. gate.last <= newest /\ gate.waits <= newest
      <3>1. None <= newest
        BY <2>3, Constants
      <3>2. gate.last \in {g.last, frame} /\ gate.waits \in {g.waits, frame, None}
        BY <1>15, Zenon
      <3> QED
        BY <2>3, <2>4, <3>1, <3>2, Zenon
    <2>6. anchor <= newest
      BY <1>4, <1>12, <2>3, <2>4 DEF Lesser
    <2>7. anchor # None => WaitsInOrder(gate, anchor)
      BY <1>15, <2>1
    <2>8. Between(queue'["video"], last_pts'["video"], pending'["video"], anchor_pts',
                  last_timestamp'["video"])
      BY <1>16 DEF Between
    <2> QED
      BY <1>8, <1>16, <2>2, <2>5, <2>6, <2>7, <2>8, Zenon DEF TrackInOrder, WaitsInOrder
  <1>25. TracksInOrder'
    BY <1>23, <1>24, Constants, Zenon DEF TracksInOrder
  <1> QED
    BY <1>17, <1>18, <1>19, <1>20, <1>21, <1>22, <1>25 DEF DesktopInv, DesktopTypes

\* OnVideoEncoded() opens the gate, and the frame that waits goes through it.
LEMMA OnVideoEncodedInvariant ==
    ASSUME DesktopInv, NEW accepted \in {{}, Pts["video"]}, NEW lost \in BOOLEAN,
           NEW enqueued \in BOOLEAN, OnVideoEncoded(enqueued, accepted, lost)
    PROVE  DesktopInv'
  <1>1. PICK a, g, idle, t : /\ a = anchor_pts /\ g = Gate /\ idle = [g EXCEPT !.state = "kIdle"]
                             /\ t = TrySubmitVideo(idle, g.waits, a, accepted)
    BY Zenon
  <1>2. PICK gate : gate = IF g.waits = None THEN idle ELSE [t EXCEPT !.waits = None]
    BY Zenon
  <1>3. PICK ages : ages = [since_submit EXCEPT !["video"] =
                               IF gate.queued = <<>> THEN since_submit["video"] ELSE 0]
    BY Zenon
  <1>4. /\ media = "running" /\ results # <<>> /\ results' = Tail(results) /\ last_sent' = enqueued
        /\ video_state' = gate.state
        /\ needs_key_frame' = (needs_key_frame \/ ~enqueued \/ (gate.queued # <<>> /\ lost))
        /\ pending' = [pending EXCEPT !["video"] = gate.waits]
        /\ last_pts' = [last_pts EXCEPT !["video"] = gate.last]
        /\ QueueFrames(gate.queued)
        /\ since_submit' = Kept(ages, watchdog_failed)
        /\ UNCHANGED <<capture_vars, quit, enc, unit, media,
                       encoders, poll, anchor_pts, since_start, watchdog_failed>>
    BY <1>1, <1>2, <1>3, Zenon DEF OnVideoEncoded, TaskRunnerFree, EnqueueResult, NeedsKeyAfter
  <1>5. /\ CaptureTypes /\ EncoderTypes /\ TimestampTypes /\ MediaTypes /\ AgeTypes
        /\ OneInEncoder /\ OnlyWaitsForEncoder /\ RefersToSent /\ TracksInOrder
    BY DEF DesktopInv, DesktopTypes
  <1>6. /\ g \in Gates /\ g.queued = <<>> /\ g.last = last_pts["video"]
        /\ g.state = video_state /\ g.waits = pending["video"]
    BY <1>1, GateFacts
  <1>7. /\ idle \in Gates /\ idle.queued = <<>> /\ idle.last = g.last /\ idle.waits = g.waits
        /\ idle.state = "kIdle"
    BY <1>1, <1>6, Zenon DEF Gates
  <1>8. /\ gate \in Gates /\ Passes(idle, gate) /\ gate.waits = None
        /\ gate.last \in {g.last, g.waits}
    <2>1. CASE g.waits = None
      BY <1>2, <1>7, <2>1 DEF Passes
    <2>2. CASE g.waits # None
      <3>1. g.waits \in Pts["video"] /\ a \in Nat
        BY <1>1, <1>5, <1>6, <2>2 DEF Gates, Stamps, TimestampTypes
      <3>2. PICK p \in Pts["video"] : p = g.waits
        BY <3>1
      <3>3. t \in Gates /\ Outcome(t, idle, p, a)
        BY <1>1, <1>7, <3>1, <3>2, TrySubmitVideoFacts, Zenon
      <3>4. Passes(idle, t)
        BY <1>7, <3>3, OutcomePasses
      <3>5. t.last \in {idle.last, p}
        BY <1>7, <3>3, Zenon DEF Outcome, Gates
      <3>6. /\ gate \in Gates /\ gate.waits = None /\ gate.last = t.last
            /\ gate.state = t.state /\ gate.queued = t.queued
        BY <1>2, <2>2, <3>3 DEF Gates, Stamps
      <3> QED
        BY <1>7, <3>2, <3>4, <3>5, <3>6 DEF Passes
    <2> QED
      BY <2>1, <2>2
  <1>9. /\ pending' \in [Tracks -> Nat] /\ pending'["audio"] = pending["audio"]
        /\ pending'["video"] = None
        /\ last_pts' \in [Tracks -> Nat] /\ last_pts'["audio"] = last_pts["audio"]
        /\ last_pts'["video"] = gate.last /\ gate.last \in Stamps("video")
    <2>1. gate.last \in Stamps("video") /\ gate.last \in Nat
      BY <1>8, Constants DEF Gates, Stamps
    <2>2. pending \in [Tracks -> Nat] /\ last_pts \in [Tracks -> Nat]
      BY <1>5, Zenon DEF TimestampTypes
    <2>3. \A f \in [Tracks -> Nat], x \in Nat :
             /\ [f EXCEPT !["video"] = x] \in [Tracks -> Nat]
             /\ [f EXCEPT !["video"] = x]["audio"] = f["audio"]
             /\ [f EXCEPT !["video"] = x]["video"] = x
      BY Constants
    <2>4. gate.waits = None /\ None \in Nat
      BY <1>8, Constants
    <2> QED
      BY <1>4, <2>1, <2>2, <2>3, <2>4, Zenon
  <1>10. CaptureTypes' /\ TimestampTypes'
    BY <1>4, <1>5, <1>9, Zenon DEF CaptureTypes, TimestampTypes, Stamps, capture_vars
  <1>11. MediaTypes'
    BY <1>4, <1>5, <1>8, Zenon DEF MediaTypes, Gates
  <1>12. AgeTypes'
    <2>1. ages \in [Tracks -> Int] /\ \A k \in Tracks : ages[k] \in NotYet .. Deadline(k) + 1
      BY <1>3, <1>5, Constants DEF AgeTypes
    <2>2. PICK failed \in BOOLEAN : failed = watchdog_failed
      BY <1>5 DEF MediaTypes
    <2>3. /\ Kept(ages, failed) \in [Tracks -> Int]
          /\ \A k \in Tracks : Kept(ages, failed)[k] \in NotYet .. Deadline(k) + 1
      BY <2>1, AgesKept
    <2> QED
      BY <1>4, <1>5, <2>2, <2>3, Zenon DEF AgeTypes
  <1>13. EncoderTypes' /\ OneInEncoder' /\ RefersToSent'
    <2>1. /\ needs_key_frame' \in BOOLEAN /\ last_sent' \in BOOLEAN
          /\ needs_key_frame' \/ last_sent'
      BY <1>4, Zenon
    <2> QED
      BY <1>4, <1>6, <1>7, <1>8, <1>9, <2>1, PassesInvariant, Zenon
  <1>14. OnlyWaitsForEncoder'
    BY <1>4, <1>5, <1>9, Zenon DEF OnlyWaitsForEncoder
  <1>15. ASSUME ~error' PROVE TrackInOrder("audio")' /\ TrackInOrder("video")'
    <2>1. TrackInOrder("audio") /\ TrackInOrder("video")
      BY <1>4, <1>5, <1>15, Constants DEF TracksInOrder, capture_vars
    <2>2. TrackInOrder("audio")'
      BY <1>4, <1>9, <2>1, Zenon DEF TrackInOrder, capture_vars
    <2>3. PICK q, newest : q = queue["video"] /\ newest = last_timestamp["video"]
      OBVIOUS
    <2>4. /\ q \in Seq(Nat) /\ newest \in Nat /\ a \in Nat /\ g.last \in Nat /\ g.waits \in Nat
      BY <1>1, <1>5, <1>6, <2>3, Constants DEF CaptureTypes, TimestampTypes
    <2>5. /\ g.last <= newest /\ g.waits <= newest /\ a <= newest
          /\ Between(q, g.last, g.waits, a, newest)
      BY <1>1, <1>6, <2>1, <2>3 DEF TrackInOrder
    <2>6. Between(q, gate.last, None, a, newest)
      <3> SUFFICES ASSUME NEW i \in 1 .. Len(q)
                   PROVE  q[i] > gate.last /\ q[i] > None /\ q[i] >= a /\ q[i] <= newest
        BY Zenon DEF Between
      <3>1. q[i] \in Nat /\ q[i] > g.last /\ q[i] > g.waits /\ q[i] >= a /\ q[i] <= newest
        BY <2>4, <2>5 DEF Between
      <3>2. q[i] > None
        BY <2>4, <3>1 DEF None
      <3> QED
        BY <1>8, <3>1, <3>2, Zenon
    <2>7. gate.last <= newest /\ None <= newest
      BY <1>8, <2>4, <2>5 DEF None
    <2>8. TrackInOrder("video")'
      BY <1>1, <1>4, <1>9, <2>3, <2>5, <2>6, <2>7 DEF TrackInOrder, capture_vars
    <2> QED
      BY <2>2, <2>8, Zenon
  <1>16. TracksInOrder'
    BY <1>15, Constants DEF TracksInOrder
  <1> QED
    BY <1>10, <1>11, <1>12, <1>13, <1>14, <1>16 DEF DesktopInv, DesktopTypes

\* When the sender is gone, nothing waits and no frame counts any more.
LEMMA DestructionInvariant ==
    DesktopInv /\ (DestroyMedia \/ JoinEncoder \/ DropResult) => DesktopInv'
  <1> SUFFICES ASSUME DesktopInv, DestroyMedia \/ JoinEncoder \/ DropResult PROVE DesktopInv'
    OBVIOUS
  <1>1. /\ CaptureTypes /\ EncoderTypes /\ TimestampTypes /\ MediaTypes /\ AgeTypes
        /\ OnlyWaitsForEncoder /\ TracksInOrder
    BY DEF DesktopInv, DesktopTypes
  <1>2. media' # "running"
    BY DEF DestroyMedia, JoinEncoder, DropResult, media_vars
  <1>3. OneInEncoder' /\ RefersToSent'
    BY <1>2 DEF OneInEncoder, RefersToSent
  <1>4. CASE DestroyMedia
    <2>1. /\ media' = "joining" /\ poll' = "off" /\ quit' = TRUE /\ anchor_pts' = None
          /\ last_pts' = [k \in Tracks |-> None] /\ pending' = [k \in Tracks |-> None]
          /\ last_timestamp' = [k \in Tracks |-> None] /\ queue' = [k \in Tracks |-> <<>>]
          /\ video_state' = "kIdle" /\ since_start' = 0
          /\ since_submit' = [k \in Tracks |-> NotYet]
          /\ cv_notified' = (cv_notified \/ enc = "waiting")
          /\ UNCHANGED <<error, encode_queue, needs_key_frame, enc, unit, results, last_sent,
                         encoders, watchdog_failed>>
      BY <1>4, Zenon DEF DestroyMedia, RequestEnd, Notify
    <2>2. CaptureTypes'
      BY <1>1, <2>1, Constants DEF CaptureTypes
    <2>3. EncoderTypes' /\ MediaTypes'
      BY <1>1, <2>1 DEF EncoderTypes, MediaTypes
    <2>4. TimestampTypes' /\ AgeTypes'
      BY <1>1, <2>1, Constants DEF TimestampTypes, AgeTypes, Stamps
    <2>5. OnlyWaitsForEncoder'
      BY <2>1 DEF OnlyWaitsForEncoder
    <2>6. TracksInOrder'
      <3>1. ASSUME NEW k \in Tracks
            PROVE  /\ last_pts'[k] = None /\ pending'[k] = None /\ last_timestamp'[k] = None
                   /\ queue'[k] = <<>>
        BY <2>1
      <3> QED
        BY <2>1, <3>1, Constants DEF TracksInOrder, TrackInOrder, Between
    <2> QED
      BY <1>3, <2>2, <2>3, <2>4, <2>5, <2>6 DEF DesktopInv, DesktopTypes
  <1>5. CASE JoinEncoder \/ DropResult
    <2>1. /\ UNCHANGED <<capture_vars, quit, encode_queue, needs_key_frame, enc, cv_notified, unit,
                         last_sent, encoders, poll, anchor_pts, last_pts, video_state, pending,
                         since_start, since_submit, watchdog_failed>>
          /\ media \in {"joining", "gone"} /\ media' \in {"joining", "gone"}
          /\ results' = results \/ (results # <<>> /\ results' = Tail(results))
      BY <1>5 DEF JoinEncoder, DropResult, encoder_vars, media_vars
    <2>2. CaptureTypes' /\ TimestampTypes' /\ AgeTypes' /\ MediaTypes'
      BY <1>1, <2>1 DEF CaptureTypes, TimestampTypes, AgeTypes, MediaTypes, capture_vars
    <2>3. results' \in Seq(Units)
      <3>1. results \in Seq(Units)
        BY <1>1 DEF EncoderTypes
      <3>2. results # <<>> => Tail(results) \in Seq(Units)
        BY <3>1
      <3> QED
        BY <2>1, <3>1, <3>2
    <2>4. EncoderTypes'
      BY <1>1, <2>1, <2>3, Zenon DEF EncoderTypes
    <2>5. OnlyWaitsForEncoder' /\ TracksInOrder'
      BY <1>1, <2>1 DEF OnlyWaitsForEncoder, TracksInOrder, TrackInOrder, capture_vars
    <2> QED
      BY <1>3, <2>2, <2>4, <2>5 DEF DesktopInv, DesktopTypes
  <1> QED
    BY <1>4, <1>5

-----------------------------------------------------------------------------
(* The invariant holds *)

\* In a new sender nothing was captured or submitted.
LEMMA InitInvariant == Init => DesktopInv
  <1> SUFFICES ASSUME Init PROVE DesktopInv
    OBVIOUS
  <1>1. CaptureTypes
    <2>1. /\ last_timestamp = [k \in Tracks |-> None] /\ queue = [k \in Tracks |-> <<>>]
          /\ error = FALSE
      BY DEF Init, CaptureInit
    <2>2. \A S : <<>> \in Seq(S) /\ Len(<<>>) = 0
      OBVIOUS
    <2>3. last_timestamp \in [Tracks -> Nat]
      BY <2>1, Constants
    <2>4. queue \in [Tracks -> Seq(Nat)]
      BY <2>1, <2>2
    <2>5. \A k \in Tracks : queue[k] = <<>>
      BY <2>1
    <2>6. 0 <= kCapacity
      BY Constants
    <2> QED
      BY <2>1, <2>2, <2>3, <2>4, <2>5, <2>6, Zenon DEF CaptureTypes
  <1>2. EncoderTypes
    <2>1. enc \in {"none", "test"}
      BY DEF Init, EncoderInit
    <2>2. \A S : <<>> \in Seq(S)
      OBVIOUS
    <2> QED
      BY <2>1, <2>2, Zenon DEF Init, EncoderInit, EncoderTypes
  <1>7. MediaTypes
    BY Zenon DEF Init, MediaTypes
  <1>3. TimestampTypes /\ AgeTypes
    BY Constants DEF Init, TimestampTypes, AgeTypes, Stamps
  <1>4. OneInEncoder /\ OnlyWaitsForEncoder
    BY DEF Init, EncoderInit, OneInEncoder, OnlyWaitsForEncoder
  <1>5. RefersToSent
    BY DEF Init, EncoderInit, RefersToSent
  <1>6. TracksInOrder
    <2>1. ASSUME NEW k \in Tracks
          PROVE  /\ last_pts[k] = None /\ pending[k] = None /\ last_timestamp[k] = None
                 /\ queue[k] = <<>> /\ anchor_pts = None
      BY DEF Init, CaptureInit
    <2> QED
      BY <2>1, Constants DEF TracksInOrder, TrackInOrder, Between
  <1> QED
    BY <1>1, <1>2, <1>3, <1>4, <1>5, <1>6, <1>7 DEF DesktopInv, DesktopTypes

\* Each step of each thread preserves the invariant.
LEMMA StepInvariant == DesktopInv /\ [Next]_vars => DesktopInv'
  <1> SUFFICES ASSUME DesktopInv, [Next]_vars PROVE DesktopInv'
    OBVIOUS
  <1>1. CASE CaptureWorks
    BY <1>1, CaptureInvariant
  <1>2. CASE EncoderWorks \/ EncoderWakes
    BY <1>2, EncodeThreadInvariant DEF EncoderWorks, EncodeThread, EncoderWakes
  <1>3. CASE Polls
    <2>1. CASE PollError
      BY <2>1, PollErrorInvariant
    <2>2. CASE PollAudio
      BY <2>2, PollAudioInvariant
    <2>3. ASSUME NEW accepted \in {{}, Pts["video"]}, NEW lost \in BOOLEAN,
                 PollVideo(accepted, lost)
          PROVE  DesktopInv'
      BY <2>3, PollVideoInvariant
    <2> QED
      BY <1>3, <2>1, <2>2, <2>3 DEF Polls
  <1>4. CASE Completes
    <2>1. CASE DropResult
      BY <2>1, DestructionInvariant
    <2>2. ASSUME NEW enqueued \in BOOLEAN, NEW lost \in BOOLEAN,
                 NEW accepted \in {{}, Pts["video"]}, OnVideoEncoded(enqueued, accepted, lost)
          PROVE  DesktopInv'
      BY <2>2, OnVideoEncodedInvariant
    <2> QED
      BY <1>4, <2>1, <2>2 DEF Completes
  <1>5. CASE Tick
    BY <1>5, PollErrorInvariant
  <1>6. CASE DestroyMedia \/ JoinEncoder
    BY <1>6, DestructionInvariant
  <1>7. CASE UNCHANGED vars
    <2>1. UNCHANGED <<capture_vars, encoder_vars, media_vars>>
      BY <1>7, Zenon DEF vars
    <2>2. DesktopTypes'
      <3>1. CaptureTypes /\ EncoderTypes /\ TimestampTypes /\ MediaTypes /\ AgeTypes
        BY Zenon DEF DesktopInv, DesktopTypes
      <3>2. CaptureTypes'
        BY <2>1, <3>1, Zenon DEF CaptureTypes, capture_vars
      <3>3. EncoderTypes'
        BY <2>1, <3>1, Zenon DEF EncoderTypes, encoder_vars, media_vars
      <3>4. TimestampTypes' /\ MediaTypes' /\ AgeTypes'
        BY <2>1, <3>1, Zenon DEF TimestampTypes, MediaTypes, AgeTypes, media_vars
      <3> QED
        BY <3>2, <3>3, <3>4, Zenon DEF DesktopTypes
    <2>3. OneInEncoder' /\ OnlyWaitsForEncoder' /\ RefersToSent'
      BY <2>1, Zenon DEF DesktopInv, OneInEncoder, OnlyWaitsForEncoder, RefersToSent,
                         encoder_vars, media_vars
    <2>4. TracksInOrder'
      BY <2>1, Zenon DEF DesktopInv, TracksInOrder, TrackInOrder, Between, capture_vars, media_vars
    <2> QED
      BY <2>2, <2>3, <2>4, Zenon DEF DesktopInv
  <1> QED
    BY <1>1, <1>2, <1>3, <1>4, <1>5, <1>6, <1>7 DEF Next

\* Capture, DesktopMediaSender and encoder agree on which frame is where, whatever the
\* order in which their threads run.
THEOREM DesktopInvariant == Spec => []DesktopInv
  BY InitInvariant, StepInvariant, PTL DEF Spec

\* The frames that are with the encoder, in one sequence.
LEMMA InEncoderFacts ==
    ASSUME EncoderTypes, OneInEncoder, media = "running"
    PROVE  InEncoder = IF video_state = "kEncoding" THEN <<last_pts["video"]>> ELSE <<>>
  <1> DEFINE F(s) == [i \in DOMAIN s |-> s[i].frame]
  <1>1. F(<<>>) = <<>>
    OBVIOUS
  <1>2. \A u : F(<<u>>) = <<u.frame>>
    OBVIOUS
  <1>3. <<>> \o <<>> = <<>> /\ \A x : <<x>> \o <<>> = <<x>> /\ <<>> \o <<x>> = <<x>>
    OBVIOUS
  <1>4. InEncoder = encode_queue \o F(unit) \o F(results)
    BY DEF InEncoder
  <1> HIDE DEF F
  <1>5. CASE encode_queue = <<>> /\ unit = <<>> /\ results = <<>> /\ video_state = "kIdle"
    BY <1>1, <1>3, <1>4, <1>5
  <1>6. CASE encode_queue = <<last_pts["video"]>> /\ unit = <<>> /\ results = <<>>
             /\ video_state = "kEncoding"
    BY <1>1, <1>3, <1>4, <1>6, Zenon
  <1>7. ASSUME encode_queue = <<>>, results = <<>>, video_state = "kEncoding",
               NEW u, unit = <<u>>, u.frame = last_pts["video"]
        PROVE  InEncoder = <<last_pts["video"]>>
    BY <1>1, <1>2, <1>3, <1>4, <1>7, Zenon
  <1>8. ASSUME encode_queue = <<>>, unit = <<>>, video_state = "kEncoding",
               NEW u, results = <<u>>, u.frame = last_pts["video"]
        PROVE  InEncoder = <<last_pts["video"]>>
    BY <1>1, <1>2, <1>3, <1>4, <1>8, Zenon
  <1> QED
    BY <1>5, <1>6, <1>7, <1>8 DEF OneInEncoder

\* video_state_ tells what the encode thread does: one frame is with the encoder, the one
\* submitted last, exactly while it is kEncoding, and a frame waits only then.
THEOREM GateIsRight == Spec => []GateMatchesEncoder
  <1>1. DesktopInv => GateMatchesEncoder
    <2> SUFFICES ASSUME DesktopInv PROVE GateMatchesEncoder
      BY Zenon
    <2>1. TypeOK
      BY Zenon DEF DesktopInv, DesktopTypes, CaptureTypes, EncoderTypes, TimestampTypes, MediaTypes,
             AgeTypes, TypeOK, Units
    <2>2. media = "running" =>
             InEncoder = IF video_state = "kEncoding" THEN <<last_pts["video"]>> ELSE <<>>
      BY InEncoderFacts DEF DesktopInv, DesktopTypes
    <2> QED
      BY <2>1, <2>2 DEF DesktopInv, OnlyWaitsForEncoder, GateMatchesEncoder
  <1> QED
    BY <1>1, DesktopInvariant, PTL

\* While the capture is sound no frame is dropped because of its timestamp.
THEOREM NoFrameTooOld == Spec => []NothingTooOld
  <1>1. DesktopInv => NothingTooOld
    <2> SUFFICES ASSUME DesktopInv, ~error, anchor_pts # None, NEW k \in Tracks,
                        NEW p \in Range(queue[k]) \union ({pending[k]} \ {None})
                 PROVE  p > last_pts[k] /\ p >= anchor_pts
      BY Zenon DEF NothingTooOld
    <2>1. TrackInOrder(k)
      BY Zenon DEF DesktopInv, TracksInOrder
    <2>2. CASE p \in Range(queue[k])
      <3>1. queue[k] \in Seq(Nat)
        BY DEF DesktopInv, DesktopTypes, CaptureTypes
      <3>2. \E i \in 1 .. Len(queue[k]) : p = queue[k][i]
        BY <2>2, <3>1 DEF Range
      <3> QED
        BY <2>1, <3>2 DEF TrackInOrder, Between
    <2>3. CASE p = pending[k] /\ p # None
      BY <2>1, <2>3 DEF TrackInOrder
    <2> QED
      BY <2>2, <2>3
  <1> QED
    BY <1>1, DesktopInvariant, PTL

\* A frame that is no key frame is taken by the Sender only after the one it refers to.
THEOREM TakenFramesCanBeDecoded == Spec => TakenFramesDecodable
  <1> DEFINE Decodable == Len(results') < Len(results) /\ last_sent' /\ media = "running"
                             => Head(results).is_key_frame \/ last_sent
  <1>1. DesktopInv /\ [Next]_vars => [Decodable]_vars
    <2> SUFFICES ASSUME DesktopInv, [Next]_vars, Len(results') < Len(results), media = "running"
                 PROVE  Head(results).is_key_frame \/ last_sent
      OBVIOUS
    <2>1. results \in Seq(Units) /\ RefersToSent
      BY DEF DesktopInv, DesktopTypes, EncoderTypes
    <2>2. results # <<>>
      <3>1. results' \in Seq(Units)
        BY StepInvariant DEF DesktopInv, DesktopTypes, EncoderTypes
      <3>2. PICK s \in Seq(Units) : s = results'
        BY <3>1
      <3>3. Len(s) \in Nat /\ Len(s) < Len(results)
        BY <3>2
      <3> QED
        BY <3>3
    <2>3. Len(results) >= 1 /\ Head(results) = results[1]
      BY <2>1, <2>2
    <2> QED
      BY <2>1, <2>3 DEF RefersToSent
  <1> QED
    BY <1>1, DesktopInvariant, PTL DEF Spec, TakenFramesDecodable

-----------------------------------------------------------------------------
(* The target bitrate *)

\* What the audio leaves of the usable bandwidth is never below kMinVideoBitrate,
\* and apart from that never more than 80% of the estimate.
THEOREM AvailableIsUsable ==
    ASSUME NEW estimated \in Nat, NEW opus \in Nat, NEW floor \in Nat
    PROVE  /\ AvailableVideo(estimated, opus, floor) \in Nat
           /\ AvailableVideo(estimated, opus, floor) >= floor
           /\ \/ AvailableVideo(estimated, opus, floor) = floor
              \/ 5 * (AvailableVideo(estimated, opus, floor) + opus) <= 4 * estimated
  BY DEF AvailableVideo, Greater

\* The new target is at least kMinVideoBitrate, so it is never taken for the request
\* to end that a target of 0 is to the encode thread; and it exceeds neither the available bandwidth nor the
\* cap, unless these are below kMinVideoBitrate.
THEOREM NewTargetInRange ==
    ASSUME NEW current \in Nat, NEW available \in Nat, NEW hard_cap \in Nat,
           NEW receiver_min \in Nat, NEW floor \in Nat
    PROVE  LET t == NewTarget(current, available, hard_cap, receiver_min, floor)
           IN  /\ t \in Nat
               /\ t >= floor
               /\ t <= Greater(floor, Lesser(available, hard_cap))
  <1>1. /\ Adapted(current, available, hard_cap) \in Nat
        /\ Adapted(current, available, hard_cap) <= Lesser(available, hard_cap)
    BY DEF Adapted, MaxGrowth, Lesser
  <1>2. /\ Floored(Adapted(current, available, hard_cap),
                   available, hard_cap, receiver_min) \in Nat
        /\ Floored(Adapted(current, available, hard_cap),
                   available, hard_cap, receiver_min) <= Lesser(available, hard_cap)
    BY <1>1 DEF Floored, Lesser, Greater
  <1> QED
    BY <1>2 DEF NewTarget, Greater, Lesser

\* Without a minimum of the receiver, a target that is at least kMinVideoBitrate
\* grows by at most 10% in one interval.
THEOREM NewTargetGrowsSlowly ==
    ASSUME NEW current \in Nat, NEW available \in Nat, NEW hard_cap \in Nat,
           NEW floor \in Nat, current >= floor
    PROVE  10 * NewTarget(current, available, hard_cap, 0, floor) <= 11 * current
  <1>1. /\ Adapted(current, available, hard_cap) \in Nat
        /\ 10 * Adapted(current, available, hard_cap) <= 11 * current
    BY DEF Adapted, MaxGrowth, Lesser
  <1> QED
    BY <1>1 DEF NewTarget, Floored, Greater

\* The rate recovers after congestion: the truncation to an integer never stops the
\* growth of a target of at least 10 bit/s that is below what is available and
\* allowed.
THEOREM NewTargetRecovers ==
    ASSUME NEW current \in Nat, NEW available \in Nat, NEW hard_cap \in Nat,
           NEW receiver_min \in Nat, NEW floor \in Nat,
           current >= 10, current < Lesser(available, hard_cap)
    PROVE  NewTarget(current, available, hard_cap, receiver_min, floor) > current
  <1>1. MaxGrowth(current) \in Nat /\ MaxGrowth(current) > current
    BY DEF MaxGrowth
  <1>2. /\ Adapted(current, available, hard_cap) \in Nat
        /\ Adapted(current, available, hard_cap) > current
    BY <1>1, Zenon DEF Adapted, Lesser
  <1>3. /\ Floored(Adapted(current, available, hard_cap),
                   available, hard_cap, receiver_min) \in Nat
        /\ Floored(Adapted(current, available, hard_cap),
                   available, hard_cap, receiver_min) > current
    BY <1>2 DEF Floored, Lesser, Greater
  <1> QED
    BY <1>3 DEF NewTarget, Greater
=============================================================================
