---------------------------- MODULE CastProgram -----------------------------
(***************************************************************************)
(* streamer_plus as a whole, and the receiver it casts to.  main() runs on *)
(* one thread, with the GLib main loop; the agent, and the end of the      *)
(* capture and the portal, on the task runner's thread; two threads pull   *)
(* samples.  The receiver is another program, at the other end of a        *)
(* connection that may break.                                              *)
(***************************************************************************)
EXTENDS PortalScreencast, CaptureThreads, LoopingFileCastAgent, ApplicationAgent, SequencesExt

VARIABLES
    main,              \* where main() is
    run,               \* ActiveRun
    quit_loop,         \* the loop of main() has been told to quit
    cast_source,       \* OnCastTerminated() is a source of the main context
    tasks,             \* that main() and Connect() posted to the task runner
    task,              \* how far the last of them is; "stopped" ends the thread
    agent,             \* cast_agent
    receiver,
    to_receiver, to_sender

main_vars == <<main, run, quit_loop, cast_source>>
runner_vars == <<tasks, task, agent>>
channel_vars == <<receiver, to_receiver, to_sender>>
vars == <<portal, threads_vars, main_vars, runner_vars, channel_vars>>

Init ==
    /\ portal = NewPortal
    /\ ThreadsInit
    /\ main = "acquire"
    /\ run = [interrupted |-> FALSE, failed |-> FALSE, accepting_cast_termination |-> TRUE]
    /\ quit_loop = FALSE /\ cast_source = FALSE
    /\ tasks = <<>> /\ task = "none"
    /\ agent = NoAgent
    /\ receiver = IdleReceiver
    /\ to_receiver = <<>> /\ to_sender = <<>>

Running == main \notin {"exited", "aborted"}

-----------------------------------------------------------------------------
(* main(), up to its loop *)

\* A return statement before the task runner exists; ~PortalScreencast() closes.
ReturnEarly(p) ==
    /\ portal' = Close(p)
    /\ main' = "exited"
    /\ run' = [run EXCEPT !.failed = TRUE]

AcquireMonitor ==
    /\ main = "acquire"
    /\ \/ RequestSession /\ main' = "acquiring" /\ UNCHANGED run
       \/ ReturnEarly(portal)
    /\ UNCHANGED <<threads_vars, quit_loop, cast_source, runner_vars, channel_vars>>

\* Sources of the main context that belong to the portal.
PortalTimesOut ==
    /\ main = "acquiring" /\ ~portal.finished
    /\ OnTimeout
    /\ UNCHANGED <<threads_vars, main_vars, runner_vars, channel_vars>>

PortalReplies(ok) ==
    /\ main = "acquiring" /\ ~portal.finished
    /\ PortalAnswers(ok)
    /\ UNCHANGED <<threads_vars, main_vars, runner_vars, channel_vars>>

PortalCloses ==
    /\ main = "loop" \/ (main = "acquiring" /\ ~portal.finished)
    /\ OnClosed
    /\ UNCHANGED <<threads_vars, main_vars, runner_vars, channel_vars>>

MonitorAcquired ==
    /\ main = "acquiring" /\ portal.finished
    /\ LET p == StopWaiting(portal)
       IN  \/ Acquired(p) /\ portal' = p /\ main' = "start" /\ UNCHANGED run
           \/ ~Acquired(p) /\ ReturnEarly(p)
    /\ UNCHANGED <<threads_vars, quit_loop, cast_source, runner_vars, channel_vars>>

\* StartDesktop(): the pipeline, then the video thread, then the audio thread.
CapturePlays ==
    /\ main = "start"
    /\ \/ StartPipeline /\ main' = "start video" /\ UNCHANGED <<run, portal>>
       \/ AbandonPipeline /\ ReturnEarly(portal)
    /\ UNCHANGED <<quit_loop, cast_source, runner_vars, channel_vars>>

VideoThreadStarts ==
    /\ main = "start video"
    /\ \/ StartWorker("video") /\ main' = "start audio" /\ UNCHANGED <<run, portal>>
       \/ AbandonPipeline /\ ReturnEarly(portal)
    /\ UNCHANGED <<quit_loop, cast_source, runner_vars, channel_vars>>

AudioThreadStarts ==
    /\ main = "start audio"
    /\ \/ StartWorker("audio") /\ main' = "set up"
       \/ RequestStop /\ capture_error' = TRUE /\ main' = "undo"
    /\ UNCHANGED <<portal, run, quit_loop, cast_source, runner_vars, channel_vars>>

UndoVideoThread ==
    /\ main = "undo"
    /\ JoinAndRelease
    /\ ReturnEarly(portal)
    /\ UNCHANGED <<quit_loop, cast_source, runner_vars, channel_vars>>

\* The task runner's thread, the sources, and the task that makes the agent.
PostCreateAgent ==
    /\ main = "set up"
    /\ tasks' = <<"create">> /\ task' = "idle"
    /\ main' = "enter loop"
    /\ UNCHANGED <<portal, threads_vars, run, quit_loop, cast_source, agent, channel_vars>>

-----------------------------------------------------------------------------
(* main(), from its loop on *)

\* g_main_loop_run() begins by saying that the loop runs, whatever was said before.
EnterLoop ==
    /\ main = "enter loop"
    /\ main' = "loop"
    /\ quit_loop' = FALSE
    /\ UNCHANGED <<portal, threads_vars, run, cast_source, runner_vars, channel_vars>>

\* Sources of the main context.
OnSignal ==
    /\ main = "loop" /\ ~quit_loop
    /\ run' = [run EXCEPT !.interrupted = TRUE]
    /\ quit_loop' = TRUE
    /\ UNCHANGED <<portal, threads_vars, main, cast_source, runner_vars, channel_vars>>

\* Mutant: the end of the session is no failure.
OnCastTerminatedMutant ==
    /\ main = "loop" /\ ~quit_loop /\ cast_source
    /\ quit_loop' = TRUE /\ cast_source' = FALSE
    /\ UNCHANGED <<portal, threads_vars, main, run, runner_vars, channel_vars>>
OnCastTerminated ==
    /\ main = "loop" /\ ~quit_loop /\ cast_source
    /\ run' = [run EXCEPT !.failed = TRUE]
    /\ quit_loop' = TRUE /\ cast_source' = FALSE
    /\ UNCHANGED <<portal, threads_vars, main, runner_vars, channel_vars>>

\* Mutant: only the capture is polled.
StoppedCapturingMutant == capture_error
StoppedCapturing == portal.session_closed \/ capture_error

\* The poll that finds something.
PollCapture ==
    /\ main = "loop" /\ ~quit_loop
    /\ StoppedCapturing
    /\ run' = [run EXCEPT !.failed = TRUE]
    /\ quit_loop' = TRUE
    /\ UNCHANGED <<portal, threads_vars, main, cast_source, runner_vars, channel_vars>>

LeaveLoop ==
    /\ main = "loop" /\ quit_loop
    /\ main' = "left loop"
    /\ UNCHANGED <<portal, threads_vars, run, quit_loop, cast_source, runner_vars, channel_vars>>

PostTeardown ==
    /\ main = "left loop"
    /\ run' = [run EXCEPT !.accepting_cast_termination = FALSE]
    /\ tasks' = Append(tasks, "teardown")
    /\ main' = "join"
    /\ UNCHANGED <<portal, threads_vars, quit_loop, cast_source, task, agent, channel_vars>>

ReturnFromMain ==
    /\ main = "join" /\ task = "stopped"
    /\ main' = "exited"
    /\ UNCHANGED <<portal, threads_vars, run, quit_loop, cast_source, runner_vars, channel_vars>>

-----------------------------------------------------------------------------
(* The task runner's thread *)

\* The agent's callback, if a step of the agent runs it.  g_main_context_invoke()
\* runs OnCastTerminated() here and now when no loop owns the context.
CastTerminated(a) ==
    IF agent.shutdown_callback /\ ~a.shutdown_callback /\ run.accepting_cast_termination
    THEN IF main = "loop"
         THEN /\ cast_source' = TRUE
              /\ run' = [run EXCEPT !.accepting_cast_termination = FALSE]
              /\ UNCHANGED quit_loop
         ELSE /\ run' = [run EXCEPT !.accepting_cast_termination = FALSE, !.failed = TRUE]
              /\ quit_loop' = TRUE
              /\ UNCHANGED cast_source
    ELSE UNCHANGED <<run, quit_loop, cast_source>>

Ended(channel) == channel # <<>> /\ Last(channel).type = "FIN"

\* What is written reaches the receiver, if the connection is not broken yet, and
\* unless the socket is closed before all of it has been flushed.
Written(out) ==
    LET all == to_receiver \o out
    IN  IF Ended(to_receiver) \/ ~receiver.socket THEN {to_receiver}
        ELSE IF Ended(out)
        THEN {Append(SubSeq(all, 1, n), Last(out)) : n \in 0 .. Len(all) - 1}
        ELSE {all}

\* A step of the agent leaves it as a.  A failed check ends the program, and with
\* it the connection.
AgentBecomes(next) == \E a \in {next} :
    /\ agent' = [a EXCEPT !.out = <<>>]
    /\ IF a.check_failed
       THEN /\ main' = "aborted"
            /\ to_receiver' \in Written(<<Message("FIN", "platform", 0)>>)
            /\ to_sender' = <<>>
            /\ UNCHANGED <<run, quit_loop, cast_source>>
       ELSE /\ CastTerminated(a)
            /\ to_receiver' \in Written(a.out)
            /\ UNCHANGED main

Idle == Running /\ task = "idle"

AgentTakes(a) ==
    /\ AgentBecomes(a)
    /\ UNCHANGED <<portal, threads_vars, tasks, task, receiver>>

\* Tasks in the order they were posted.
CreateAgent ==
    /\ Idle /\ tasks # <<>> /\ Head(tasks) = "create"
    /\ tasks' = Append(Tail(tasks), "connect")
    /\ agent' = NewAgent
    /\ UNCHANGED <<portal, threads_vars, main_vars, task, channel_vars>>

\* After the agent is gone the task still has a pointer to it: it may do no harm,
\* or end the program.
ConnectTask ==
    /\ Idle /\ tasks # <<>> /\ Head(tasks) = "connect"
    /\ tasks' = Tail(tasks)
    /\ \/ agent.alive /\ agent' = StartConnecting(agent) /\ UNCHANGED main
       \/ ~agent.alive /\ UNCHANGED agent /\ main' \in {main, "aborted"}
    /\ UNCHANGED <<portal, threads_vars, run, quit_loop, cast_source, task, channel_vars>>

\* Mutant: the capture runs on.
DestroyAgentMutant ==
    /\ Idle /\ tasks # <<>> /\ Head(tasks) = "teardown"
    /\ AgentBecomes([Shutdown(agent) EXCEPT !.alive = FALSE, !.factory = "idle"])
    /\ to_sender' = <<>>
    /\ tasks' = Tail(tasks)
    /\ task' = "close"
    /\ UNCHANGED <<portal, threads_vars, receiver>>
\* The task of main()'s end: cast_agent.reset(), whose socket factory goes with it.
DestroyAgent ==
    /\ Idle /\ tasks # <<>> /\ Head(tasks) = "teardown"
    /\ LET a == Shutdown(agent)
           out == IF agent.factory = "authenticating"
                  THEN <<Message("FIN", "platform", 0)>> ELSE a.out
       IN  AgentBecomes([a EXCEPT !.alive = FALSE, !.factory = "idle", !.out = out])
    /\ to_sender' = <<>>
    /\ tasks' = Tail(tasks)
    /\ task' = "stop"
    /\ UNCHANGED <<portal, threads_vars, receiver>>

StopCapture ==
    /\ Running /\ task = "stop"
    /\ RequestStop /\ UNCHANGED capture_error
    /\ task' = "join"
    /\ UNCHANGED <<portal, main_vars, tasks, agent, channel_vars>>

JoinCapture ==
    /\ Running /\ task = "join"
    /\ JoinAndRelease
    /\ task' = "close"
    /\ UNCHANGED <<portal, main_vars, tasks, agent, channel_vars>>

ClosePortal ==
    /\ Running /\ task = "close"
    /\ portal' = Close(portal)
    /\ tasks' = Append(tasks, "quit") /\ task' = "idle"
    /\ UNCHANGED <<threads_vars, main_vars, agent, channel_vars>>

QuitTaskRunner ==
    /\ Idle /\ tasks # <<>> /\ Head(tasks) = "quit"
    /\ tasks' = Tail(tasks) /\ task' = "stopped"
    /\ UNCHANGED <<portal, threads_vars, main_vars, agent, channel_vars>>

RunTask ==
    \/ CreateAgent \/ ConnectTask \/ DestroyAgent \/ StopCapture
    \/ JoinCapture \/ ClosePortal \/ QuitTaskRunner

\* The socket factory: TLS, then authentication; each may fail.
TlsHandshake ==
    /\ Idle /\ agent.factory = "connecting"
    /\ agent' = TlsConnected(agent)
    /\ receiver' = TakeSocket(receiver)
    /\ UNCHANGED <<portal, threads_vars, main_vars, tasks, task, to_receiver, to_sender>>

ConnectFails ==
    /\ Idle /\ agent.factory # "idle"
    /\ LET fin == IF agent.factory = "authenticating"
                  THEN <<Message("FIN", "platform", 0)>> ELSE <<>>
       IN  AgentTakes([FactoryError(agent) EXCEPT !.out = fin])
    /\ to_sender' = <<>>

Authenticated ==
    /\ Idle /\ agent.factory = "authenticating"
    /\ AgentTakes(OnConnected(agent))
    /\ UNCHANGED to_sender

\* The socket is read.
SenderReads ==
    /\ Idle /\ agent.socket /\ to_sender # <<>>
    /\ \E a \in {OnMessage(agent, Head(to_sender))} :
          /\ AgentTakes(a)
          /\ ~a.check_failed => to_sender' = IF a.socket THEN Tail(to_sender) ELSE <<>>

\* kReplyTimeout
ReplyTimesOut ==
    /\ Idle /\ agent.session = "offered"
    /\ AgentTakes(OnSessionError(agent))
    /\ to_sender' = <<>>

\* The capture or the watchdog has failed the media sender.
MediaSenderFails ==
    /\ Idle /\ agent.media_sender /\ agent.shutdown_callback
    /\ AgentTakes(OnMediaSenderShutdown(agent))
    /\ UNCHANGED to_sender

-----------------------------------------------------------------------------
(* The capture's threads *)

WorkerSteps(k) ==
    /\ Running
    /\ TestStop(k) \/ \E bad \in BOOLEAN : PullSample(k, bad)
    /\ UNCHANGED <<portal, main_vars, runner_vars, channel_vars>>

PipelineFails ==
    /\ Running
    /\ BusError
    /\ UNCHANGED <<portal, main_vars, runner_vars, channel_vars>>

-----------------------------------------------------------------------------
(* The receiver, and the network *)

\* What it writes reaches the sender, if the sender still has its socket.
ReceiverBecomes(next) == \E r \in {next} :
    /\ receiver' = [r EXCEPT !.out = <<>>]
    /\ to_sender' = IF agent.socket /\ Running /\ ~Ended(to_sender)
                    THEN to_sender \o r.out ELSE to_sender
    /\ UNCHANGED <<portal, threads_vars, main_vars, runner_vars>>

ReceiverReads ==
    /\ to_receiver # <<>>
    /\ \E launch_ok \in BOOLEAN :
          ReceiverBecomes(OnReceiverMessage(receiver, Head(to_receiver), launch_ok))
    /\ to_receiver' = Tail(to_receiver)

ReceiverAnswers ==
    /\ receiver.offer
    /\ \E type \in {"ANSWER", "ERROR"} : ReceiverBecomes(AnswerOffer(receiver, type))
    /\ UNCHANGED to_receiver

PlaybackFails ==
    /\ receiver.launched_app # 0
    /\ ReceiverBecomes(OnPlaybackError(receiver))
    /\ UNCHANGED to_receiver

\* Both ends see an error, after some of what was sent.
ConnectionBreaks ==
    /\ Running /\ agent.socket /\ receiver.socket
    /\ ~Ended(to_sender)
    /\ to_receiver' \in Written(<<Message("FIN", "platform", 0)>>)
    /\ \E n \in 0 .. Len(to_sender) :
          to_sender' = Append(SubSeq(to_sender, 1, n), Message("FIN", "platform", 0))
    /\ UNCHANGED <<portal, threads_vars, main_vars, runner_vars, receiver>>

-----------------------------------------------------------------------------

MainSteps ==
    \/ AcquireMonitor \/ MonitorAcquired \/ CapturePlays \/ VideoThreadStarts
    \/ AudioThreadStarts \/ UndoVideoThread \/ PostCreateAgent \/ EnterLoop
    \/ OnCastTerminated \/ PollCapture \/ LeaveLoop \/ PostTeardown \/ ReturnFromMain

\* A request that was cancelled ends.
CancelledRequestEnds == portal.cancelled /\ \E ok \in BOOLEAN : PortalReplies(ok)

Next ==
    \/ MainSteps \/ OnSignal
    \/ PortalTimesOut \/ PortalCloses \/ (\E ok \in BOOLEAN : PortalReplies(ok))
    \/ RunTask \/ TlsHandshake \/ ConnectFails \/ Authenticated
    \/ SenderReads \/ ReplyTimesOut \/ MediaSenderFails
    \/ (\E k \in Workers : WorkerSteps(k)) \/ PipelineFails
    \/ ReceiverReads \/ ReceiverAnswers \/ PlaybackFails \/ ConnectionBreaks

\* Threads and loops go on, and a request of libportal ends once it is cancelled.
\* Nothing makes a signal, a failure or an answer come.
Fairness ==
    /\ WF_vars(MainSteps) /\ WF_vars(PortalTimesOut) /\ WF_vars(CancelledRequestEnds)
    /\ WF_vars(RunTask)
    /\ \A k \in Workers : WF_vars(WorkerSteps(k))
    /\ WF_vars(ReceiverReads)

Spec == Init /\ [][Next]_vars /\ Fairness

-----------------------------------------------------------------------------
(* Properties *)

App == 0 .. 1    \* one LAUNCH per connection, one connection per run

TypeOK ==
    /\ portal \in PortalType
    /\ ThreadsType
    /\ main \in {"acquire", "acquiring", "start", "start video", "start audio", "undo",
                 "set up", "enter loop", "loop", "left loop", "join", "exited", "aborted"}
    /\ run \in [interrupted : BOOLEAN, failed : BOOLEAN, accepting_cast_termination : BOOLEAN]
    /\ quit_loop \in BOOLEAN /\ cast_source \in BOOLEAN
    /\ Range(tasks) \subseteq {"create", "connect", "teardown", "quit"}
    /\ task \in {"none", "idle", "stop", "join", "close", "stopped"}
    /\ AgentType(App, agent) /\ ReceiverType(App, receiver)

\* What is used exists, whichever way main() ends.  The PipeWire descriptor, which
\* the pipeline borrows, is open as long as there is a pipeline: Stop() precedes
\* Close().  No thread pulls from a pipeline that has been released: every path to
\* ReleasePipeline() has joined the threads that were started.  The media sender,
\* which polls the capture, lives only while the capture runs and its session with
\* the receiver is negotiated.
UsedResourcesExist ==
    /\ TypeOK
    /\ pipeline # "none" => portal.pipewire_fd
    /\ \A k \in Workers : worker[k] = "pull" => pipeline # "none"
    /\ agent.media_sender =>
          agent.session = "negotiated" /\ agent.socket /\ pipeline = "playing"

\* When main() has returned, early or not, nothing is left: no thread, pipeline,
\* descriptor, portal session, agent or socket.
ExitIsClean ==
    main = "exited" =>
       /\ pipeline = "none" /\ \A k \in Workers : worker[k] \in {"none", "ended"}
       /\ ~portal.pipewire_fd /\ ~portal.session /\ ~portal.timeout_source
       /\ ~agent.alive /\ ~agent.socket /\ ~agent.media_sender

\* main() returns 0 only when the user has interrupted it.
SuccessIsInterrupt == main = "exited" /\ ~run.failed => run.interrupted

\* While the agent believes that its application runs and it does not, the news is
\* on its way: a status or the end of the connection.
StaleStatusIsNews ==
    Running /\ agent.app_session_id \notin {0, receiver.launched_app} =>
       \E m \in Range(to_sender) : m.type = "FIN" \/ (m.type = "STATUS" /\ m.app = 0)

\* AcquireMonitor() returns, whatever the portal does: the timeout cancels the
\* request that is outstanding.
AcquisitionEnds == (main = "acquiring") ~> (main # "acquiring")

\* The program ends once the portal closes the session, the capture fails or the
\* agent's callback becomes a source of the loop.
LoopIsLeft ==
    (main = "loop" /\ (portal.session_closed \/ capture_error \/ cast_source)) ~> ~Running

\* The receiver does not keep the application of a sender that has gone, whatever
\* of its last messages was lost.
ReceiverGoesIdle == ~Running ~> [](receiver.launched_app = 0)

\* No OSP_CHECK() fails in the agent.
ChecksHold == ~agent.check_failed
=============================================================================
