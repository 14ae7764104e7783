------------------------- MODULE DesktopMediaSender -------------------------
(***************************************************************************)
(* DesktopMediaSender with the GstreamerCapture it polls and the           *)
(* StreamingVpxEncoder it feeds.  Its handlers run on the task runner;     *)
(* PollCapture() is split where it takes a lock that the worker threads    *)
(* use.  Times are in seconds and kept as ages, which stop counting once   *)
(* they exceed their deadline.                                             *)
(***************************************************************************)
EXTENDS CaptureQueues, VideoEncoder, BitrateControl

CONSTANTS kInitialPairDeadline, kAudioWatchdogDeadline, kVideoWatchdogDeadline

ASSUME DesktopAssumption ==
    {kInitialPairDeadline, kAudioWatchdogDeadline, kVideoWatchdogDeadline} \subseteq Nat

VARIABLES
    media,            \* whether the DesktopMediaSender exists
    encoders,         \* the tracks that were negotiated
    poll,             \* where PollCapture() is; "off" when it is not scheduled
    anchor_pts,       \* anchor_pts_ns_, None while kWaitingForFirstPair
    last_pts,         \* last_video_pts_ns_, last_audio_pts_ns_
    video_state,
    pending,          \* pending_video_, pending_audio_
    since_start, since_submit,   \* ages; NotYet where nothing was submitted
    watchdog_failed

media_vars == <<media, encoders, poll, anchor_pts, last_pts, video_state, pending,
                since_start, since_submit, watchdog_failed>>
vars == <<capture_vars, encoder_vars, media_vars>>

NotYet == -1

Deadline(k) == IF k = "audio" THEN kAudioWatchdogDeadline ELSE kVideoWatchdogDeadline
Older(age, deadline) == IF age = NotYet \/ age > deadline THEN age ELSE age + 1

\* Ages that no deadline is compared with any more, after a failure, are forgotten.
Kept(ages, failed) == IF failed THEN [k \in Tracks |-> NotYet] ELSE ages

Init ==
    /\ encoders \in SUBSET Tracks \ {{}}
    /\ CaptureInit
    /\ EncoderInit( IF "video" \in encoders THEN "test" ELSE "none")
    /\ media = "running"
    /\ poll = "scheduled"
    /\ anchor_pts = None
    /\ last_pts = [k \in Tracks |-> None]
    /\ video_state = "kIdle"
    /\ pending = [k \in Tracks |-> None]
    /\ since_start = 0
    /\ since_submit = [k \in Tracks |-> NotYet]
    /\ watchdog_failed = FALSE

-----------------------------------------------------------------------------
(* Submitting frames *)

\* MapCaptureTimestamp() has a value.
Mappable(p, anchor) == p >= anchor

\* What TrySubmitVideo() changes: the timestamp submitted last, the gate in front
\* of the encoder, the frame that waits there, and the frames queued for encoding.
Gate == [last |-> last_pts["video"], state |-> video_state, waits |-> pending["video"],
         queued |-> <<>>]

Timely(g, p, anchor) == p > g.last /\ Mappable(p, anchor)

\* Mutant: a frame is passed on although one is being encoded.
GateClosedMutant(g) == FALSE
GateClosed(g) == g.state = "kEncoding"

Submitted(g, p) == [g EXCEPT !.last = p, !.state = "kEncoding", !.queued = <<p>>]

\* TrySubmitVideo(p), where the encoder accepts the frames of `accepted`.  When
\* it refuses p the frame that waits is tried, which nothing follows any more.
TrySubmitVideo(g, p, anchor, accepted) ==
    IF "video" \notin encoders \/ ~Timely(g, p, anchor) THEN g
    ELSE IF GateClosed(g) THEN [g EXCEPT !.waits = p]
    ELSE IF p \in accepted THEN Submitted(g, p)
    ELSE LET h == [g EXCEPT !.last = p]
             w == g.waits
         IN  IF w = None THEN h
             ELSE IF Timely(h, w, anchor) /\ w \in accepted
                  THEN [Submitted(h, w) EXCEPT !.waits = None]
                  ELSE [h EXCEPT !.waits = None, !.last = Greater(p, w)]

\* The first frame is always accepted; later ones if their RTP timestamp advances
\* and not too much media is in flight.
Acceptable(g) == IF g.last = None THEN {Pts["video"]} ELSE {{}, Pts["video"]}

QueueFrames(frames) ==
    IF frames = <<>> THEN UNCHANGED <<encode_queue, cv_notified>>
                     ELSE QueueFrame(frames[1])

\* SubmitAudio() encodes the frame at once.
AudioTimely(p, anchor) ==
    "audio" \in encoders /\ p > last_pts["audio"] /\ Mappable(p, anchor)

-----------------------------------------------------------------------------
(* PollCapture() *)

TaskRunnerFree == media = "running" /\ poll \in {"off", "scheduled"}

\* PollRuntimeError() is asked first; no more polls after an error.
PollError ==
    /\ media = "running" /\ poll = "scheduled"
    /\ watchdog_failed' = (watchdog_failed \/ error)
    /\ poll' = IF error THEN "off" ELSE "audio"
    /\ since_submit' = Kept(since_submit, watchdog_failed')
    /\ UNCHANGED <<capture_vars, encoder_vars, media, encoders, anchor_pts, last_pts,
                   video_state, pending, since_start>>

Anchored == anchor_pts # None

\* TakeLatestAudio(): kept until there is an anchor, then submitted.
PollAudio ==
    /\ poll = "audio"
    /\ poll' = "video"
    /\ queue' = [queue EXCEPT !["audio"] = <<>>]
    /\ LET a == TakeLatest(queue["audio"])
           submit == a # None /\ Anchored /\ AudioTimely(a, anchor_pts)
       IN  /\ pending' = [pending EXCEPT !["audio"] =
                             IF a # None /\ ~Anchored THEN a ELSE @]
           /\ last_pts' = [last_pts EXCEPT !["audio"] = IF submit THEN a ELSE @]
           /\ since_submit' = Kept([since_submit EXCEPT !["audio"] =
                                       IF submit THEN 0 ELSE @], watchdog_failed)
    /\ UNCHANGED <<last_timestamp, error, encoder_vars, media, encoders, anchor_pts,
                   video_state, since_start, watchdog_failed>>

\* Mutant: the deadline is not checked before the first pair.
InitialPairMissingMutant(anchor) == FALSE
InitialPairMissing(anchor) == anchor = None /\ since_start > kInitialPairDeadline

\* CheckWatchdog(), with the ages after the frames were submitted.
WatchdogExpired(anchor, age) ==
    \/ InitialPairMissing(anchor)
    \/ /\ anchor # None
       /\ \/ "audio" \in encoders /\ age["audio"] > kAudioWatchdogDeadline
          \/ "video" \in encoders /\ age["video"] > kVideoWatchdogDeadline

\* TakeLatestVideo() and the rest: the first pair is submitted as soon as it is
\* complete, later each frame; then the watchdog, and the next poll.
PollVideo(accepted, picture_lost) ==
    LET v      == TakeLatest(queue["video"])
        frame  == IF v = None /\ ~Anchored THEN pending["video"] ELSE v
        pair   == ~Anchored /\ frame # None /\ pending["audio"] # None
        anchor == IF pair THEN Lesser(frame, pending["audio"]) ELSE anchor_pts
        gate   == IF pair \/ (Anchored /\ v # None)
                  THEN TrySubmitVideo(IF pair THEN [Gate EXCEPT !.waits = None] ELSE Gate,
                                      frame, anchor, accepted)
                  ELSE [Gate EXCEPT !.waits = IF Anchored THEN @ ELSE frame]
        audio  == pair /\ AudioTimely(pending["audio"], anchor)
        age    == [k \in Tracks |->
                      IF (k = "audio" /\ audio) \/ (k = "video" /\ gate.queued # <<>>)
                      THEN 0 ELSE since_submit[k]]
    IN  /\ poll = "video"
        /\ accepted \in Acceptable(Gate)
        /\ poll' = "scheduled"
        /\ queue' = [queue EXCEPT !["video"] = <<>>]
        /\ anchor_pts' = anchor
        /\ video_state' = gate.state
        /\ needs_key_frame' = (needs_key_frame \/ (gate.queued # <<>> /\ picture_lost))
        /\ pending' = [audio |-> IF pair THEN None ELSE pending["audio"],
                       video |-> gate.waits]
        /\ last_pts' = [audio |-> IF audio THEN pending["audio"] ELSE last_pts["audio"],
                        video |-> gate.last]
        /\ QueueFrames(gate.queued)
        /\ watchdog_failed' = (watchdog_failed \/ WatchdogExpired(anchor, age))
        /\ since_submit' = Kept(age, watchdog_failed')
        /\ UNCHANGED <<last_timestamp, error, quit, enc, unit, results, last_sent,
                       media, encoders, since_start>>

-----------------------------------------------------------------------------
(* Other tasks of the task runner *)

\* SendEncodedFrame() and OnVideoEncoded(), which submits the frame that waits.
OnVideoEncoded(enqueued, accepted, picture_lost) ==
    LET idle == [Gate EXCEPT !.state = "kIdle"]
        gate == IF Gate.waits = None THEN idle
                ELSE [TrySubmitVideo(idle, Gate.waits, anchor_pts, accepted)
                         EXCEPT !.waits = None]
    IN  /\ TaskRunnerFree
        /\ results # <<>>
        /\ accepted \in Acceptable(Gate)
        /\ EnqueueResult(enqueued)
        /\ video_state' = gate.state
        /\ needs_key_frame' = (\/ NeedsKeyAfter(enqueued)
                               \/ gate.queued # <<>> /\ picture_lost)
        /\ pending' = [pending EXCEPT !["video"] = gate.waits]
        /\ last_pts' = [last_pts EXCEPT !["video"] = gate.last]
        /\ QueueFrames(gate.queued)
        /\ since_submit' = Kept([since_submit EXCEPT !["video"] =
                                    IF gate.queued = <<>> THEN @ ELSE 0], watchdog_failed)
        /\ UNCHANGED <<capture_vars, quit, enc, unit, media,
                       encoders, poll, anchor_pts, since_start, watchdog_failed>>

-----------------------------------------------------------------------------
(* Destruction, and time *)

\* ~DesktopMediaSender(): its alarms are canceled, then the encoder is destroyed.
\* Its other members and the frames left in the queues do not matter any more.
DestroyMedia ==
    /\ TaskRunnerFree
    /\ media' = "joining"
    /\ poll' = "off"
    /\ RequestEnd
    /\ anchor_pts' = None
    /\ last_pts' = [k \in Tracks |-> None] /\ pending' = last_pts'
    /\ last_timestamp' = last_pts' /\ queue' = [k \in Tracks |-> <<>>]
    /\ video_state' = "kIdle"
    /\ since_start' = 0 /\ since_submit' = [k \in Tracks |-> NotYet]
    /\ UNCHANGED <<error, encode_queue, needs_key_frame, enc, unit, results, last_sent,
                   encoders, watchdog_failed>>

JoinEncoder ==
    /\ media = "joining"
    /\ enc \in {"none", "ended"}
    /\ media' = "gone"
    /\ UNCHANGED <<capture_vars, encoder_vars, encoders, poll, anchor_pts, last_pts,
                   video_state, pending, since_start, since_submit, watchdog_failed>>

\* The weak pointer of a result that comes too late is null.
DropResult ==
    /\ media = "gone"
    /\ results # <<>>
    /\ results' = Tail(results)
    /\ UNCHANGED <<capture_vars, quit, encode_queue, needs_key_frame, enc,
                   cv_notified, unit, last_sent, media_vars>>

\* A second passes.  Only ages that a deadline is compared with are kept.
Tick ==
    /\ media = "running"
    /\ ~watchdog_failed
    /\ since_start' = IF Anchored THEN 0 ELSE Older(since_start, kInitialPairDeadline)
    /\ since_submit' = [k \in Tracks |-> Older(since_submit[k], Deadline(k))]
    /\ UNCHANGED <<capture_vars, encoder_vars, media, encoders, poll, anchor_pts, last_pts,
                   video_state, pending, watchdog_failed>>

-----------------------------------------------------------------------------

\* Samples that nobody polls for any more are left out.
CaptureWorks ==
    /\ poll # "off"
    /\ CaptureFails \/ \E k \in Tracks : \E p \in Pts[k] : CopySample(k, p)
    /\ UNCHANGED <<encoder_vars, media_vars>>

EncoderWorks == EncodeThread /\ UNCHANGED <<capture_vars, media_vars>>
EncoderWakes == WakeUp /\ UNCHANGED <<capture_vars, media_vars>>

Polls ==
    \/ PollError
    \/ PollAudio
    \/ \E accepted \in {{}, Pts["video"]}, lost \in BOOLEAN : PollVideo(accepted, lost)
Completes ==
    \/ DropResult
    \/ \E enqueued, lost \in BOOLEAN, accepted \in {{}, Pts["video"]} :
         OnVideoEncoded(enqueued, accepted, lost)

Next ==
    \/ CaptureWorks
    \/ EncoderWorks
    \/ EncoderWakes
    \/ Polls
    \/ Completes
    \/ Tick
    \/ DestroyMedia
    \/ JoinEncoder

\* Task runner and encode thread run, and time passes; a result has its turn in
\* the queue of tasks, however often the capture is polled.  Nothing makes samples
\* come, or the sender be destroyed.
Fairness ==
    /\ WF_vars(EncoderWorks) /\ WF_vars(Polls) /\ SF_vars(Completes)
    /\ WF_vars(JoinEncoder) /\ WF_vars(Tick)

Spec == Init /\ [][Next]_vars /\ Fairness

-----------------------------------------------------------------------------
(* Properties *)

TypeOK ==
    /\ last_timestamp \in [Tracks -> Nat] /\ last_pts \in [Tracks -> Nat]
    /\ pending \in [Tracks -> Nat] /\ anchor_pts \in Nat
    /\ \A k \in Tracks : queue[k] \in Seq(Pts[k]) /\ Len(queue[k]) <= kCapacity
    /\ {error, needs_key_frame, cv_notified, quit, last_sent, watchdog_failed} \subseteq BOOLEAN
    /\ enc \in {"none", "test", "waiting", "encode", "ended"}
    /\ \A s \in {unit, results} :
         s \in Seq([frame : Pts["video"], is_key_frame : BOOLEAN])
    /\ encode_queue \in Seq(Pts["video"])
    /\ media \in {"running", "joining", "gone"}
    /\ poll \in {"off", "scheduled", "audio", "video"}
    /\ video_state \in {"kIdle", "kEncoding"}
    /\ since_start \in 0 .. kInitialPairDeadline + 1
    /\ \A k \in Tracks : since_submit[k] \in NotYet .. Deadline(k) + 1

\* The frame in the hands of the encoder: queued, being encoded, or posted back.
InEncoder == encode_queue \o [i \in DOMAIN unit |-> unit[i].frame]
                          \o [i \in DOMAIN results |-> results[i].frame]

\* video_state_ says what the encoder is doing, although another thread does it:
\* one frame is with the encoder, the one submitted last, exactly while it is
\* kEncoding.  And only then does a frame wait in pending_video_, so that
\* OnVideoEncoded() will submit it.
GateMatchesEncoder ==
    /\ TypeOK
    /\ media = "running" =>
          InEncoder = IF video_state = "kEncoding" THEN <<last_pts["video"]>> ELSE <<>>
    /\ anchor_pts # None /\ pending["video"] # None => video_state = "kEncoding"

\* No frame is dropped because of its timestamp while the capture is sound: what
\* the workers have queued, and what waits, comes after what was submitted and not
\* before the anchor, whichever track the first pair starts with.
NothingTooOld ==
    ~error /\ anchor_pts # None =>
        \A k \in Tracks : \A p \in Range(queue[k]) \union ({pending[k]} \ {None}) :
            p > last_pts[k] /\ p >= anchor_pts

\* Frames that the Sender takes can be decoded: one that is not a key frame is
\* taken only if the frame encoded before it, which it refers to, was taken.
TakenFramesDecodable ==
    [][Len(results') < Len(results) /\ last_sent' /\ media = "running"
         => Head(results).is_key_frame \/ last_sent]_vars

\* A frame that waits, or a newer one in its place, is passed on in the end.
WaitingFrameMovesOn ==
    (pending["video"] # None /\ anchor_pts # None) ~> (pending["video"] = None)

\* A track on which no samples come any more, before the first pair or after it,
\* and a capture that has failed, are noticed.
StallNoticed ==
    \A k \in Tracks :
        k \in encoders =>
            \/ []<><<last_timestamp'[k] # last_timestamp[k]>>_vars
            \/ <>(watchdog_failed \/ media # "running")

\* ~StreamingVpxEncoder() returns: the encode thread sees the request to end,
\* whatever it does at that time.
EncoderJoined == media = "joining" ~> media = "gone"
=============================================================================
