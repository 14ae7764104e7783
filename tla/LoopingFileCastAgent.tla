----------------------- MODULE LoopingFileCastAgent ------------------------
(***************************************************************************)
(* LoopingFileCastAgent, for a custom media sender and mirroring: it       *)
(* connects to a receiver, launches the mirroring application, negotiates, *)
(* and owns the media sender.  A handler maps the agent's record to the    *)
(* one it leaves; the record is an end of VirtualConnections, and what     *)
(* the handler writes to the socket is in its field out.                   *)
(***************************************************************************)
EXTENDS VirtualConnections

NoAgent ==
    [alive |-> FALSE, shutdown_callback |-> FALSE,
     factory |-> "idle",             \* socket_factory_
     socket |-> FALSE, connections |-> {}, pending |-> {}, out |-> <<>>,
     platform_remote_connection |-> FALSE,
     remote_connection |-> 0, app_session_id |-> 0, has_launched |-> FALSE,
     session |-> "none",             \* current_session_
     media_sender |-> FALSE,
     check_failed |-> FALSE]         \* an OSP_CHECK() has ended the program

NewAgent == [NoAgent EXCEPT !.alive = TRUE, !.shutdown_callback = TRUE]

AgentType(App, a) ==
    /\ {a.alive, a.shutdown_callback, a.socket, a.platform_remote_connection,
        a.has_launched, a.media_sender, a.check_failed} \subseteq BOOLEAN
    /\ a.factory \in {"idle", "connecting", "authenticating"}
    /\ a.connections \subseteq Conns /\ a.pending \subseteq Conns
    /\ a.remote_connection \in App /\ a.app_session_id \in App
    /\ a.session \in {"none", "offered", "negotiated"}
    /\ a.out = <<>>

-----------------------------------------------------------------------------
(* Shutdown() *)

\* What it sends: CLOSE for the connections that it closes (the one of a session
\* that there was is forgotten by then), STOP, and the end of the socket.
Farewell(a) ==
    LET known == (IF a.session = "none" THEN a ELSE ResetClient(a)).connections \union a.pending
        closes == {c \in known : IF c = "platform" THEN a.platform_remote_connection
                                 ELSE a.remote_connection # 0}
    IN  (IF "platform" \in closes THEN <<Message("CLOSE", "platform", 0)>> ELSE <<>>)
        \o (IF "remote" \in closes THEN <<Message("CLOSE", "remote", a.remote_connection)>> ELSE <<>>)
        \o (IF a.app_session_id # 0 THEN <<Message("STOP", "platform", a.app_session_id)>> ELSE <<>>)
        \o <<Message("FIN", "platform", 0)>>

\* A platform request that is still pending is answered with false, to
\* OnReceiverMessagingOpened(), which insists on the connection that was just reset;
\* OnRemoteMessagingOpened() does nothing then.  OnClose() of the socket runs
\* Shutdown() again, which finds nothing left to do.
Shutdown(a) ==
    [a EXCEPT !.media_sender = FALSE, !.session = "none", !.platform_remote_connection = FALSE,
              !.remote_connection = 0, !.app_session_id = 0,
              !.connections = {}, !.pending = {}, !.socket = FALSE, !.shutdown_callback = FALSE,
              !.out = IF a.socket THEN @ \o Farewell(a) ELSE @,
              !.check_failed = a.platform_remote_connection /\ "platform" \in a.pending]

-----------------------------------------------------------------------------
(* Events of the socket factory and the socket *)

StartConnecting(a) == [a EXCEPT !.factory = "connecting"]

TlsConnected(a) == [a EXCEPT !.factory = "authenticating"]

FactoryError(a) == Shutdown([a EXCEPT !.factory = "idle"])

OnConnected(a) ==
    OpenRemoteConnection(
        [a EXCEPT !.factory = "idle", !.socket = TRUE, !.platform_remote_connection = TRUE],
        "platform", 0)

OnSocketError(a) == Shutdown(LoseSocket(a))

-----------------------------------------------------------------------------
(* Messages *)

OnReceiverMessagingOpened(a) ==
    IF ~a.platform_remote_connection \/ a.remote_connection # 0
    THEN [a EXCEPT !.check_failed = TRUE]
    ELSE Send(a, Message("LAUNCH", "platform", 0))

\* OnRemoteMessagingOpened(true): CreateAndStartSession(), whose offer goes out.
OnRemoteMessagingOpened(a) ==
    PostMessage([a EXCEPT !.session = "offered"], Message("OFFER", "remote", a.remote_connection))

HandleConnected(a, c) ==
    IF c \notin a.pending THEN a
    ELSE IF c = "platform" THEN OnReceiverMessagingOpened(ConnectedResponse(a, c))
    ELSE OnRemoteMessagingOpened(ConnectedResponse(a, c))

\* A request that is refused; the callback's connection is still there.
HandleClose(a, c) ==
    IF c \in a.pending THEN Shutdown(RemoveConnection(a, c)) ELSE RemoveConnection(a, c)

HandleReceiverStatus(a, app) ==
    IF app = 0 THEN IF a.has_launched THEN Shutdown(a) ELSE a
    ELSE IF a.app_session_id \notin {0, app} THEN Shutdown([a EXCEPT !.has_launched = TRUE])
    ELSE LET b == [a EXCEPT !.has_launched = TRUE, !.app_session_id = app]
         IN  IF b.remote_connection # 0 THEN b
             ELSE OpenRemoteConnection([b EXCEPT !.remote_connection = app], "remote", app)

\* OnNegotiated() with the senders that are needed, and StartMediaSender().
OnNegotiated(a) == [a EXCEPT !.session = "negotiated", !.media_sender = TRUE]

\* An ANSWER that is an error, or none in time: OnError() of the session.
OnSessionError(a) == Shutdown(a)

OnMessage(a, m) ==
    CASE m.type = "CONNECTED" -> HandleConnected(a, m.conn)
      [] m.type = "CLOSE" -> HandleClose(a, m.conn)
      [] m.type = "STATUS" -> HandleReceiverStatus(a, m.app)
      [] m.type = "LAUNCH_ERROR" -> Shutdown(a)
      [] m.type = "ANSWER" -> IF a.session = "offered" THEN OnNegotiated(a) ELSE a
      [] m.type = "ERROR" -> IF a.session = "offered" THEN OnSessionError(a) ELSE a
      [] m.type = "FIN" -> OnSocketError(a)
      [] OTHER -> a

\* The callback that StartMediaSender() gives to the media sender.
OnMediaSenderShutdown(a) == [a EXCEPT !.shutdown_callback = FALSE]
=============================================================================
