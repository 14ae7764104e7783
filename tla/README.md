# A TLA+ model of streamer-plus

`streamer_plus` casts a Linux desktop to a Cast receiver. It captures the screen
and the sound, encodes them, and streams the frames over Cast Streaming, a
real-time protocol on UDP that this repository implements at both ends.
This directory models three layers of it. The protocol core is the Sender, the
Receiver and the network between them, the packet router that paces the Senders,
and the task runner and the alarms that all of them run on. Above it is the path
of a captured frame to the encoder and to the Sender, on four threads. Around both
is the program: the portal that grants the screen, the start and the end of the
capture, the Cast channel, the application on the receiver, and the negotiation
of a session.

## The system

| Part | Code | State | What changes it | What makes it hard |
|---|---|---|---|---|
| Frame IDs | `cast/streaming/impl/expanded_value_base.h`, `public/frame_id.h` | none | truncation to 8 bits, three ways to restore | ambiguous when packets or feedback lag |
| Sender | `impl/sender_impl.cc` | ring of frames in flight, checkpoint, what the Receiver knows of | `EnqueueFrame`, `CancelInFlightData`, bursts of the router, feedback | frames acknowledged out of order, stale NACKs, nothing to send but the Receiver unaware of frames |
| Receiver | `impl/receiver_impl.cc`, `impl/frame_collector.cc` | ring of partial frames, checkpoint, playout delays, alarms | RTP packets, Sender Reports, alarms, the consumer | frames skipped when late, packets arriving between notification and consumption, slots reused |
| RTP and RTCP packets | `rtp_packet_parser.cc`, `compound_rtcp_parser.cc`, the builders | highest frame ID, latest report time | every packet | reordering, repetition |
| Packet routers | `sender_packet_router.cc`, `receiver_packet_router.cc` | send times per Sender, burst alarm | send requests, bursts | the burst budget, two Senders with priorities |
| Session negotiation | `public/sender_session.cc`, `receiver_session.cc`, `session_messenger.cc` | pending replies, sequence numbers | messages, reply timeouts | late replies, offers that overlap, a UDP socket that is not bound yet |
| Desktop media sender | `standalone_sender/streamer_plus/desktop_media_sender.cc` | the frame waiting for the encoder, timestamps, watchdogs, bitrates | the capture poll, encoder callbacks | back pressure, two watchdogs |
| Capture | `streamer_plus/capture.cc`, `drop_old_queue.h` | two bounded queues, two threads | pull threads, `Stop()` | threads |
| Encoders | `standalone_sender/streaming_*_encoder.cc` | work queue, encoding thread | submissions, the thread | hand-over between threads |
| Program life cycle | `streamer_plus/main.cc`, `portal_screencast.cc` | main loop, portal session, what runs on which thread | signals, the portal's answers, the end of the Cast session | a timeout against a late answer, shutdown order |
| Cast agent | `standalone_sender/looping_file_cast_agent.cc` | socket, virtual connections, application, session | messages, errors, `Shutdown()` | a shutdown in the middle of each step |
| Cast channel | `cast/common/channel/` | virtual connections | messages of either end | both ends closing, lost last messages |
| Receiver applications | `cast/receiver/application_agent.cc`, `standalone_receiver/mirroring_application.cc` | the application that runs, its sender | LAUNCH, STOP, errors | a sender that is gone |
| Task runner | `platform/impl/task_runner.cc` | ready and delayed tasks, a loop that sleeps | posting from any thread, stop requests, signals | wakeups lost while falling asleep, tasks posted while stopping |
| Alarms | `util/alarm.cc` | a task, its time, a functor in the task runner | scheduling, cancelling, firing | alarms rescheduled while a functor is queued or running |
| mDNS, Open Screen Protocol | `discovery/`, `osp/` | caches, connections | | not used by `streamer_plus` |

`PROJECT.json` lists the parts in more detail, and the hazards of the code with
the properties that would catch them.

The parts interact as follows. The encoder hands frames to the Sender
(`EnqueueFrame`), which asks the packet router for bursts. In a burst the router
takes packets from the Sender. The Receiver collects packets into frames,
acknowledges them by a checkpoint and a bit vector, asks for missing packets,
and tells its consumer (a decoder) when a frame may be taken. Feedback frees
slots of the Sender's ring, or flags packets for sending again.

On the sender's side, `main()` acquires a monitor from the portal, starts the
capture with the portal's PipeWire descriptor, and creates the agent on the task
runner. The agent connects to the receiver, launches the mirroring application
there, opens a virtual connection to it and negotiates a session; then it creates
the desktop media sender, which polls the capture's queues and submits frames to
the encoders. The end of any of these ends the main loop of the program, and with
it, in order, the agent, the capture and the portal session.

## Modules

| Module | Models |
|---|---|
| `FrameIds` | `FrameId`, truncation and the three expansions; `IdSpan` is 256 in the code |
| `StreamingDefs` | constants and packets shared by both ends |
| `CastSender` | `SenderImpl`: its members as variables, `EnqueueFrame`, `CancelInFlightData`, one RTP packet of a burst, and the handling of one RTCP packet as actions |
| `SenderAlone` | the Sender in an environment that may send any feedback; its properties |
| `CastReceiver` | `ReceiverImpl` with `FrameCollector`, `RtpPacketParser` and `CompoundRtcpBuilder`; one action per outcome of `OnReceivedRtpPacket`, the two alarms, and the consumer's calls |
| `CastStreaming` | both ends and the network; the properties of a session |
| `FrameDelivery` | the abstract specification: frames are delivered whole, in order, none twice, and none that depends on a skipped one |
| `PacketRouter` | `SenderPacketRouter` with its alarm: registration of Senders, send requests, feedback, and `SendBurstOfPackets` as one action; of a Sender it keeps what the router asks it for |
| `Alarm` | `Alarm`: its members as variables, and operators for scheduling, cancelling and firing |
| `AlarmAlone` | an alarm whose client does anything at any time |
| `AlarmPromise` | the abstract specification: a task that is set runs once, not too early and in the end, unless it is replaced or canceled |
| `TaskRunner` | `TaskRunnerImpl`: posting by any thread, and the steps of `RunUntilStopped` between two releases of the mutex |
| `CaptureQueues` | the pull threads of `GstreamerCapture` as producers: checks of a sample, and `DropOldQueue` |
| `VideoEncoder` | `StreamingVpxEncoder`: the encode thread, its queue and condition variable, key frames, the callback posted to the task runner, and the end of the thread |
| `DesktopMediaSender` | `DesktopMediaSender` between the two: the poll, anchoring, the gate in front of the encoder, watchdogs, destruction |
| `BitrateControl` | the arithmetic of `ControlForNetworkCongestion()`; no run explores it, as it has no state |
| `PortalScreencast` | both requests to the portal, timeout, closed signal, `Close()` |
| `CaptureThreads` | start, failure and `Stop()` of `GstreamerCapture` with its two threads |
| `VirtualConnections` | `VirtualConnectionRouter`, `ConnectionNamespaceHandler` and `CastSocketMessagePort` as operators on one end of a channel |
| `LoopingFileCastAgent` | the agent with its socket factory, as operators from one agent to the next |
| `ApplicationAgent` | the receiver: its agent, its mirroring application and its answer to an offer, as operators |
| `CastProgram` | the composition of the last five: `main()`, its loop and tasks, the threads, the connection and the receiver |
| `SenderSession`, `ReceiverSession` | the two sessions with their messengers; the receiver's UDP socket |
| `SessionNegotiation` | both over a channel |
| `RequestReply` | the abstract specification of a request: its callback runs exactly once |
| `MCSenderAlone`, `MCCastStreaming`, `MCPacketRouter`, `MCAlarm`, `MCTaskRunner`, `MCDesktop` | small instances for TLC |
| `StreamingLemmas`, `StreamingSender`, `StreamingReception`, `StreamingSteps`, `StreamingProofs`, `RouterProofs`, `DesktopProofs`, `SessionProofs` | theorems |

Definitions have the names of the functions and members they model; the `map`
of `PROJECT.json` gives the lines. `pending_frames_` of the Receiver is called
`queue`, since the Sender has a member of the same name. A definition named
`...Mutant` is a plausible mistake in the definition that follows it; no
specification uses it, and putting it in the place of that definition makes TLC
find a violation of the property it is meant for.

### Abstractions

* **Time** in the session model. A comparison with the clock becomes a choice: whether a packet was
  sent too recently to be resent, whether the kickstart interval has passed, how
  many of the frames expected are late. An alarm is a flag. So the checks cover
  every timing, also those that cannot occur. `PacketRouter`, `Alarm` and
  `TaskRunner`, which are about time, have a clock; `kImmediately` and `kNever` are
  numbers below and above all times, as in the code.
* **Payload.** A frame is its ID, its packet count, its dependency and its change
  of the playout delay. Encryption, statistics, round trip times and the
  lip-sync fields are left out.
* **Packets.** RTP and RTCP packets are records of the fields that the two ends
  act on. Frame IDs in them are truncated as on the wire, and restored by the
  code's own rules.
* **Handlers** are atomic, as the code runs on one task runner. In `TaskRunner`
  itself, a step is what happens while the mutex is held, or one task.
* **The network** may deliver a packet any number of times and in any order.
  `MaxLag` bounds how many frames late an RTP packet may arrive. The wire format
  itself rests on such a bound: a frame ID of 8 bits is ambiguous beyond it. Only
  the last `MaxRtcpInFlight` feedback packets may arrive; when one more is sent,
  any one of them is forgotten.
* `EnqueueFrame` may be refused for its media duration at any time, so the model
  only has the successful call. It is enabled only where the code does not abort:
  `OldestFrameNeverCanceled` and `NextSlotFree` state that it never would.
* **The desktop media sender.** A frame is its timestamp. Whether a sample is sound,
  whether the encoder takes a frame and whether the Sender does are choices. The
  clock is the age of the stream and of the last submission of each track; at a
  deadline of 0, one tick is late. Deadlines compare ages only, so their size does
  not matter, and watchdogs may fire early or late against the frames.
* **The program.** A message of the Cast channel is its type, its virtual connection
  and the application it speaks of. TCP keeps the order of what is written; when a
  socket is closed or breaks, an end of what was written last may be lost. There is
  one connection, one sender and one launch per run of the program.
  `IsTransportNamespace()` looks for any character of the prefix at the first
  position, so that it accepts every namespace in use, and the router never rejects
  a message for want of a connection; the model does as the code does. The signals
  that arrive before their handlers are installed end the process at once, and
  are left out.
* **Sessions.** An offer is its number and its kind: audio and video, audio, or
  remoting. What the receiver supports is a choice, and so is the state of its
  UDP socket. `CastProgram` has the negotiation as one offer with an answer, an
  error or a timeout.

## Runs

The rings have 2 or 3 slots and the wire 4 or 5 frame IDs, where the code has 120
and 256. What matters is kept: the ring is smaller than the ID span, IDs wrap
around, the ring is full, and frames are acknowledged out of order.
`MaxFrameId` bounds the frames enqueued.

| Run | Instance | Shows |
|---|---|---|
| `SenderAnyFeedback` | 3 slots, 4 IDs, 4 frames of 1 or 2 packets, feedback with any checkpoint, an ACK and a NACK, and cancellation | the ring stays sound (`RingSound`), no packet is forgotten (`NoPacketForgotten`), the router is not left idle (`NoLostSendRequest`), a key frame stays needed until one is enqueued (`KeyFrameNeedLasts`) |
| `StreamingLoss` | 2 slots, dependent frames of two packets, and key frames that change the playout delay | a frame the consumer was told of stays ready (`ReadyFrameStays`), the checkpoint is exact (`CheckpointExact`), the oldest frame in flight is there (`OldestFrameNeverCanceled`), the consumer is always woken up (`NoLostWakeup`), both ends agree on the playout delay (`PlayoutDelaysAgree`), and the session implements `FrameDelivery` |
| `StreamingWrap` | single-packet frames, more of them than there are slots and truncated IDs | packets and feedback are never taken for those of another frame and slots are clean when reused (`ChunksBelongToFrame`, `NothingCanceledEarly`), the Sender does not believe too much (`KnownFramesAreExpected`), the capture time lasts for the playout report (`PlayoutReportable`) |
| `StreamingLive` | one frame of two packets, or a chain of two frames, under fairness | every frame enqueued is delivered or skipped, and the Sender is told (`EveryFrameIsSettled`) |
| `RouterBursts` | two Senders, a budget of 2 packets, a clock up to 5 | a Sender with something to send keeps its send time and an alarm for it (`NoSenderForgotten`), reports are on time (`RtcpOnTime`), bursts keep their distance (`BurstsKeepDistance`) |
| `AlarmFires` | two tasks, three runs, a clock up to 3 | the alarm implements `AlarmPromise` (`KeepsPromise`): a task that is set runs once, not before its time and in the end, unless it is replaced or canceled |
| `TaskRunnerLoop` | two tasks, posted with or without a delay, one task posted by a task, a stop request, a clock up to 3 | tasks run in order, none lost and none twice (`RunInOrder`), none early and all in the end (`TasksRun`); a stop request stops the loop, with nothing left behind (`NothingLeftBehind`); a signal does so unless the loop sleeps for good (`SignalNoticed`) |
| `DesktopSender` | three video frames, an audio frame before, between or after them, queues of two, either or both encoders | the gate says what the encode thread does, a frame waits only then, is not dropped for its age and has its turn (`GateMatchesEncoder`, `NothingTooOld`, `WaitingFrameMovesOn`), what the Sender takes can be decoded (`TakenFramesDecodable`), a stall is noticed (`StallNoticed`), the encode thread is joined (`EncoderJoined`) |
| `CastProgram` | one run of the program, with failures, timeouts, signals and a broken connection at any time | descriptor, pipeline, threads and media sender end in order (`UsedResourcesExist`), nothing is left at the end (`ExitIsClean`), 0 is returned only after an interrupt (`SuccessIsInterrupt`), the agent learns of the end of its application (`StaleStatusIsNews`), the acquisition and the loop end (`AcquisitionEnds`, `LoopIsLeft`), the receiver goes idle (`ReceiverGoesIdle`) |
| `Session` | three requests of any kind, a receiver with any support | each request is answered once and only the socket delays an answer (`OneReplyEach`), offers made in turn get their own answers (`NoMismatchInTurn`), once the last offer has succeeded both ends have its streams (`LastOfferAgreed`), and the messenger implements `RequestReply` (`KeepsPromise`) |

One invariant of each state machine includes its type invariant. The types of
`SenderAlone` and `AlarmAlone`, and the invariants `NextSlotFree` and `FiringQueued`,
are proved (see below) and not checked again.

Three video frames are enough for one that is encoded, one that waits and one that
replaces it; two fill a queue and a third overflows it. Three requests are enough for
one that is answered late while another is awaited and a third is made. In
`CastProgram` nothing is bounded but the number of launches, which is one in the code
as well, since an agent sends LAUNCH once.

The bounds of the three runs with a clock that goes on are chosen so that every deadline can be
missed within them: in `RouterBursts`, a report is due at time 2 and would be late at
time 5. Deadlock is checked in all runs but four: the loop of `TaskRunner` really stops, the
media sender is destroyed in `DesktopSender`, the program ends in `CastProgram`, and in
`Session` the client may have no more to ask.

### Fairness

`Fairness` in `CastStreaming` asks for weak fairness of what the task runner
does: bursts while the router has a send time, periodic Sender Reports, the two
alarms of the Receiver, and a consumer that attaches and consumes. Of the network
it asks for strong fairness: a packet that is sent again and again arrives in the
end. The newest feedback is heeded again and again, by which we mean that its
NACKs are not all ignored for having come too soon after a transmission; the
code resends a packet only if it was sent at least a round trip before the NACK
arrived. This assumes that round trips are shorter than the 500 ms after which feedback is
repeated. Losing packets is an action of its own
here (`LoseRtp`, `LoseSenderReport`).

The `TaskRunner` has weak fairness of the thread that runs the loop, and of the
clock. The loop wakes up when it was notified or when its timeout has passed. A
wakeup for no reason may happen but need not. In `MCAlarm` a functor that is due
is run in the end, which is what `TaskRunnerLoop` shows.

`DesktopMediaSender` has weak fairness of the encode thread, of the poll, of the
join and of the clock. The callback of the encoder is a task; it has strong fairness:
it has its turn in the queue of tasks, however often the capture is polled. Whether a frame
comes, and whether it is taken, is left open.

`CastProgram` has weak fairness of the main thread with its loop, of the task
runner, of each pull thread, of the receiver's reading, of the timer of the portal
dialog, and of a request to libportal that was cancelled: GLib completes a cancelled
operation. Nothing forces a signal, a failure, an answer or a message to come. In
`SessionNegotiation` only the timeout of a request has fairness; it is a delayed task.

### Statements of the code that do not hold

Two runs show that an assertion or a comment does not hold:

* `NackInterval`: `SendRtcp()` tests `packet_nacks` after it was moved, so
  feedback with NACKs is not repeated more often than other feedback.
* `AgentChecks`: when the agent is shut down while the CONNECT to the platform
  receiver is unanswered, `Shutdown()` closes the connection, whose pending callback
  calls `OnReceiverMessagingOpened()`; its check that there is a platform connection
  fails, as `Shutdown()` has just reset it. In `CastProgram` such an end of the
  program is the state "aborted".

Further observations, each visible in a definition of the model:

* After `CancelInFlightData()`, the check in `ChooseKickstartPacket()` could fail, as
  `latest_expected_frame_id_` is left behind. No program of this repository calls
  it; `SenderKickstartFrameActive` is proved without it.
* The debug check in `ResolveTargetPlayoutDelay()` also looks at slots of consumed
  frames that new frames have taken over, and a playout report is rejected
  earlier than `receiver.h:103-105` says, as the limit is relative to the frames
  expected and not to those consumed.
* The signal handler of the task runner sets a flag that the loop looks at between
  two sleeps; a loop without tasks sleeps on. `SignalNoticed` says just that.
* A Cast session that ends before `g_main_loop_run()` quits a loop that does not
  run yet, and the loop forgets it when it starts (`EnterLoop`). The program then
  runs until the portal, the capture or a signal ends it.
* `Connect()` posts a task with a pointer to the agent. If `main()` leaves its loop
  before the agent is created, the agent is gone when that task runs (`ConnectTask`).
* `sender_session.h:85-87` says that an error cancels a negotiation in progress.
  `current_negotiation_` is kept, and an answer to an older offer is lined up with
  the newer one while both are awaited (`NoMismatchInTurn`).
* Neither an unanswered CONNECT nor an unanswered LAUNCH has a timeout.

## Proofs

All theorems hold for every value of the constants within their named assumptions.
Each state machine has an inductive invariant, which was model-checked on the instance
of its run before it was proved; the properties of the runs follow from it.

| Module | About | Theorems on properties of the runs |
|---|---|---|
| `StreamingLemmas`, `StreamingSender`, `StreamingSteps`, `StreamingReception` | frame IDs and lemmas about operators; the Sender's steps, alone and in a session; the Receiver's steps; its reception of packets | |
| `StreamingProofs` | the theorems on the Sender under any feedback and on the session | `RingSound`, `NoPacketForgotten`, `NoLostSendRequest`, `KeyFrameNeedLasts`, `ReadyFrameStays`, `CheckpointExact`, `OldestFrameNeverCanceled`, `NoLostWakeup`, `PlayoutDelaysAgree`, `ChunksBelongToFrame`, `NothingCanceledEarly`, `KnownFramesAreExpected`, `PlayoutReportable`, `ImplementsFrameDelivery` |
| `RouterProofs` | the packet router; an alarm | `NoSenderForgotten`, `RtcpOnTime`, `BurstsKeepDistance`, the safety part of `KeepsPromise` |
| `DesktopProofs` | the desktop media sender with its encoder; bitrates | `GateMatchesEncoder`, `NothingTooOld`, `TakenFramesDecodable` |
| `SessionProofs` | the negotiation; the task runner | `OneReplyEach`, `NoMismatchInTurn`, `LastOfferAgreed`, the safety part of `KeepsPromise`; `RunInOrder`, `NothingLeftBehind`, the safety part of `TasksRun` |

### Frame IDs and the Sender

`ExpandLessThanOrEqual` and `Expand` restore a frame ID from its low bits within their
limits, for every `IdSpan`. The argument is that both the ID and its restoration have the
same remainder and lie in a window shorter than `IdSpan`.

The properties of `SenderAlone` are proved for every ring size, every set of frame kinds
and every set of feedback messages. The assumptions are those on the constants:
positive sizes, and frames of at least one packet. The inductive invariant is

    SenderInv == SenderTypeOK /\ RingSound /\ NoPacketForgotten /\ NoLostSendRequest

`NextSlotFree` is not inductive by itself: that a slot is free follows from all
the frames in flight having IDs in a window of the length of the ring, each in the
slot of its ID, so that two of them never share a slot (`ModInjective`). That the
count of frames in flight is right needs the cardinality of the slots in use,
before and after a set of slots is freed (`CancelKeepsCount`).
`NoLostSendRequest` needs `NoPacketForgotten`'s typing of the flags, and that
feedback only flags packets together with a request (`FeedbackOnSlots`).
`SenderKickstartFrameActive` holds for the specification without cancellation
only, and adds to the invariant that the kickstart frame is in flight.

The lemmas take what they need of the library's theorems on finite sets as an
assumption, `SetFacts`, since those modules slow down every step of a long proof.
`SetFactsHold` in `StreamingProofs` proves it, so no theorem depends on it.

### The streaming session

The theorems hold for every ring size, ID span and set of frame kinds, any number of
frames, and a network that loses, repeats and reorders what is sent.
`NetworkAssumption` is what they need of the sizes: the ring fits into the distance over
which an ID can be expanded, and RTP packets are not so late that their IDs are ambiguous.
In the code the ring has 120 slots and the distance is 127.

`StreamingInv` relates the two ends to each other and to what is under way:

* `SenderInv`, the invariant of the Sender, whose steps in a session are steps that
  `StreamingSender` knows;
* `PacketsGenuine`: packets under way were cut from the frames that were enqueued, and
  are not too late;
* `FramesInOrder`: what the Sender has had acknowledged, and what was consumed, comes
  before the Receiver's checkpoint; that comes before the frames it expects; those come
  before what was enqueued; the window of the Receiver fits into its ring;
* `QueueSound`: a slot of the Receiver's queue has the frame of the window that belongs
  there, with packets of that frame only, or is clean;
* `CheckpointSound`: the frames up to the checkpoint are complete, the next one is not;
* `BeliefsTrue`: a frame that the Sender has dropped is complete at the Receiver, or the
  Receiver is done with it;
* `FeedbackSound`: each feedback that the Sender would still take for fresh says what is
  true. It is needed for `BeliefsTrue`, as feedback is acted on long after it was
  written. Messages may overtake each other, so it also relates any two of them: none
  acknowledges the frame that a later one still waits for;
* `DelaysSound`: what each end has recorded as playout delay is what the frames carried;
* `DeliveredSound`, `PlayoutReportable`, `NoLostWakeup`.

The proof takes one action at a time. What a packet does to the queue and to the
checkpoint, what a skip or a consumption releases, and what a report says are lemmas about
operators in `StreamingLemmas` and `StreamingSteps`. Where the code loops, the model has a
choice of a least or a greatest number, and the existence of such a number is proved
from the well-foundedness of the natural numbers (`LeastExists`).

`DeliversFrames` shows the refinement of `FrameDelivery` step by step: only
`ConsumeNextFrame` delivers, only a skip skips, and all other steps leave the abstract
state alone. It rests on `QueueSound` and `CheckpointSound`: what is consumed is
exactly what was cut from the frame.

### The packet router

For any finite set of Senders, any intervals and any delay of the task runner. The clock
stops short of `kNever` by the longest interval, `Horizon`, as does the code's
clock of `time_point::max()`. To `NoSenderForgotten` the invariant adds that the alarm's
functor is in the queue exactly while it is set, is late by at most `MaxLate`, and keeps
the distance of bursts (`AlarmInStep`), and that no functor is later than the next
report requires (`ReportsAhead`), which is what makes `RtcpOnTime` inductive. A burst is
one action with a minimum over all Senders, whose existence is proved as above
(`MinExists`). `RouterNoVainFiring` shows that the model leaves out no firing.

### Alarms

`RouterProofs` proves for every set of tasks and all times, with the inductive
invariant `AlarmInv == AloneTypeOK /\ FiringQueued`, that an alarm that is set has a firing queued
in time, and that `AlarmAlone` implements the safety part of `AlarmPromise`. The
refinement is step by step: scheduling is `Set`, cancelling is `Clear`, a firing that
runs the task is `Run`, and the other firings do nothing.

### The task runner

For any set of tasks, any threads that post them, and any delays; the second part of
`SessionProofs`. `Line` is all that has run, the batch in hand and what is ready, in
this order. The inductive invariant is

    RunnerInv == RunnerTypeOK /\ InOrder(Line, posted) /\ Apart(Line, delayed_tasks) /\ BatchInHand

`InOrder` is what `RunInOrder` says: no task is in the line twice, and those posted
without a delay are there in the order of posting. It is not inductive by itself, as
`ScheduleDelayedTasks()` appends tasks to the line: `Apart` says that these are not in
the line yet, that none of them is delayed twice, and that they are in the order of their
times. `BatchInHand` is the check in `GrabMoreRunnableTasks()`: a batch would be lost if
it were replaced before it has run. Each step either moves tasks along the line, which
leaves it as it is, or appends to it; the lemmas on `\o`, `Insert` and `Line` say so
element by element. `NoTaskLeftBehind` follows, as the loop is only left with nothing in
hand and nothing ready. `DelayedTasksInTurn` needs the order of times in `Apart`: what
`UpperBound` cuts off is exactly what is due.

### The desktop media sender

For any timestamps, any capacity of the queues and any deadlines. `DesktopInv` says
where the frame is that was submitted last: in the encode queue, on the encode thread, or
in the callback's task, exactly one of them while the gate is closed (`OneInEncoder`);
that a frame waits only for the encoder (`OnlyWaitsForEncoder`); that a frame which is no
key frame refers to one that was sent (`RefersToSent`); and that while the capture is
sound, each track's queue continues what was taken from it (`TracksInOrder`).
`GateMatchesEncoder` follows from the first two. `NothingTooOld` needs more than it says: that
a queue comes after the frame that waits, as that frame will be submitted first, and that no
timestamp exceeds the last one captured.

The theorems on `BitrateControl` say, for all bitrates, what the next target bitrate of the
video can be: at least the floor, within the caps and what is available unless the floor
is above them (`NewTargetInRange`), at most 10% above the current one if the receiver
gave no minimum (`NewTargetGrowsSlowly`), and above the current one whenever there is
room (`NewTargetRecovers`). The proofs unfold the definitions; they have no state.
They are about estimates above 0: at 0 the code keeps the current target. The code
computes with doubles what the model computes with fractions.

### The negotiation

For any number of requests. `SessionInv` says that the requests under way are the last
ones, in order (`RequestsInOrder`), that those which have arrived have one reply, but for
an offer that waits for the socket (`Replied`), and that answers come in the order of their
offers and after those that have succeeded (`AnswersInOrder`). `LastOfferAgreed` needs
that order: the answer to an older offer, which the sender lines up with the newest one,
cannot come after the answer to the newest. So the streams of the last offer, once it has
succeeded, are not replaced, and the receiver cannot have moved on.
`KeepsPromiseSafely` is the refinement of `RequestReply` without its fairness:
sending is `Ask`, a callback is `Complete`, and a late reply or timer changes nothing.

### What is only model-checked

* Liveness, and with it the second half of `AlarmPromise` and of `RequestReply`: the prover
  knows no fairness.
* That tasks run in the end (`TasksRun`) and that a signal is noticed (`SignalNoticed`):
  both are liveness.
* `CastProgram`, whose state has several dozen components and whose properties are about
  one run of the program. As nothing in it is bounded but the number of launches, TLC
  explores all of it; it has no constants over which a theorem could say more.

Only proved: `NextSlotFree`, `FiringQueued`, `NoVainFiring`, that the kickstart frame is
in flight (`KickstartFrameActive`) as long as nothing is canceled, and the bitrates.

## Not modelled

* Codecs, encryption, certificates, statistics, clock filters, and the estimate of
  the bandwidth: data, on which the control modelled here does not depend but for
  values that are left open.
* Sockets, TLS and the framing of messages: wrappers of system calls. The network
  and the channel of the model stand for what they provide.
* What `streamer_plus` does not use: remoting, input events, the Opus and AV1
  variants of the video path, mDNS, the Open Screen Protocol, the demo senders. They
  make up most of the repository's lines.
* A second sender that takes over the receiver, and a receiver with an application
  of its own for idling.
* The parsing of the command line, and the self-test of the capture.
* The moment at which a new bitrate is applied: only its value is modelled.
