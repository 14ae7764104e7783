------------------------- MODULE VirtualConnections -------------------------
(***************************************************************************)
(* VirtualConnectionRouter, ConnectionNamespaceHandler and                 *)
(* CastSocketMessagePort, as both ends of a Cast channel use them.  An end *)
(* is a record with the fields                                             *)
(*    socket        whether the router has the socket                      *)
(*    connections   the virtual connections its router knows               *)
(*    pending       the connections it asked for and has no answer to      *)
(*    out           what the current step writes to the socket             *)
(* There are two virtual connections: "platform", from sender-0 to         *)
(* receiver-0, and "remote", to the transport id of an application.        *)
(***************************************************************************)
EXTENDS Integers, Sequences

Conns == {"platform", "remote"}

\* app identifies an application's session, and its transport; 0 is none.
Message(type, conn, app) == [type |-> type, conn |-> conn, app |-> app]

Namespace(m) ==
    CASE m.type \in {"CONNECT", "CONNECTED", "CLOSE"} -> "connection"
      [] m.type \in {"OFFER", "ANSWER", "ERROR"} -> "webrtc"
      [] OTHER -> "receiver"

\* Each of them begins with a letter that the transport prefix contains, which is
\* all that the test looks at.
IsTransportNamespace(ns) == ns \in {"connection", "webrtc", "receiver"}

\* VirtualConnectionRouter::Send()
Send(e, m) ==
    IF e.socket /\ (IsTransportNamespace(Namespace(m)) \/ m.conn \in e.connections)
    THEN [e EXCEPT !.out = Append(@, m)]
    ELSE e

\* BroadcastFromLocalPeer(): to every socket, connection or not.
Broadcast(e, m) == IF e.socket THEN [e EXCEPT !.out = Append(@, m)] ELSE e

\* CastSocketMessagePort::PostMessage(), which adds the connection if it must.
PostMessage(e, m) == Send([e EXCEPT !.connections = @ \union {"remote"}], m)

OpenRemoteConnection(e, c, app) ==
    Send([e EXCEPT !.pending = @ \union {c}], Message("CONNECT", c, app))

\* RemoveConnection(), but for the callback of a pending request.
RemoveConnection(e, c) ==
    [e EXCEPT !.connections = @ \ {c}, !.pending = @ \ {c}]

\* HandleConnectedResponse(), up to the callback.
ConnectedResponse(e, c) ==
    [e EXCEPT !.connections = @ \union {c}, !.pending = @ \ {c}]

\* HandleConnect(): a refusal, or the answer and then AddConnection().
HandleConnect(e, c, app, allowed) ==
    IF allowed
    THEN [Send(e, Message("CONNECTED", c, app)) EXCEPT !.connections = @ \union {c}]
    ELSE Send(e, Message("CLOSE", c, app))

\* The end of a ReceiverSession or SenderSession: CastSocketMessagePort::ResetClient().
ResetClient(e) == [e EXCEPT !.connections = @ \ {"remote"}]

\* VirtualConnectionRouter::OnError(), up to the handler.
LoseSocket(e) == [e EXCEPT !.socket = FALSE, !.connections = {}]
=============================================================================
