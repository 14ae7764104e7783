--------------------------- MODULE ReceiverSession --------------------------
(***************************************************************************)
(* ReceiverSession, with the state of the UDP socket of its Environment.   *)
(* A request is its number and its kind; see SenderSession.                *)
(***************************************************************************)
EXTENDS SenderSession, FiniteSets

VARIABLES
    supports,          \* the tracks it has codecs for, and "remoting"
    socket_state,
    pending_offer,
    receivers,         \* the offer of the current receivers
    to_sender,         \* replies that are under way
    replies            \* history: how many replies each request got

receiver_vars == <<supports, socket_state, pending_offer, receivers, to_sender, replies>>

ReceiverInit ==
    /\ supports \in SUBSET {"audio", "video", "remoting"}
    /\ socket_state = "starting"
    /\ pending_offer = None
    /\ receivers = None
    /\ to_sender = <<>>
    /\ replies = [i \in Requests |-> 0]

\* SelectStreams(), for an offer that is allowed.
SelectStreams(k) ==
    IF k = "remoting" THEN Streams(k)
    ELSE {s \in Streams(k) : (IF s = 0 THEN "audio" ELSE "video") \in supports}

ErrorAnswer(i) == [seq |-> i, valid |-> FALSE, streams |-> {}]

\* What the messenger posts in this step.
Post(ms) ==
    /\ to_sender' = to_sender \o ms
    /\ replies' = [i \in Requests |->
                      replies[i] + Cardinality({j \in DOMAIN ms : ms[j].seq = i})]

\* InitializeSession(): the ANSWER, then new receivers.
Answer(i, k) == [seq |-> i, valid |-> TRUE, streams |-> SelectStreams(k)]

OnCapabilitiesRequest(i) ==
    /\ Post(<<[seq |-> i, valid |-> "remoting" \in supports, streams |-> {}]>>)
    /\ UNCHANGED <<supports, socket_state, pending_offer, receivers>>

Acceptable(k) ==
    /\ k = "remoting" => "remoting" \in supports
    /\ SelectStreams(k) # {}

\* Mutant: the offer that waits is replaced without a word.
InterruptedMutant == <<>>
\* The reply to an offer that was waiting for the socket.
Interrupted == IF pending_offer = None THEN <<>> ELSE <<ErrorAnswer(pending_offer)>>

\* Mutant: the receivers of an earlier offer are kept.
AcceptOfferMutant(i, k) ==
    /\ pending_offer' = IF socket_state = "starting" THEN i ELSE None
    /\ receivers' = IF socket_state = "ready" /\ receivers = None THEN i ELSE receivers
    /\ Post(Interrupted \o
            CASE socket_state = "invalid" -> <<ErrorAnswer(i)>>
              [] socket_state = "ready" -> <<Answer(i, k)>>
              [] socket_state = "starting" -> <<>>)
AcceptOffer(i, k) ==
    /\ pending_offer' = IF socket_state = "starting" THEN i ELSE None
    /\ receivers' = IF socket_state = "ready" THEN i ELSE receivers
    /\ Post(Interrupted \o
            CASE socket_state = "invalid" -> <<ErrorAnswer(i)>>
              [] socket_state = "ready" -> <<Answer(i, k)>>
              [] socket_state = "starting" -> <<>>)

OnOffer(i, k) ==
    /\ IF Acceptable(k) THEN AcceptOffer(i, k)
       ELSE Post(<<ErrorAnswer(i)>>) /\ UNCHANGED <<pending_offer, receivers>>
    /\ UNCHANGED <<supports, socket_state>>

\* Environment::OnBound() and OnSocketReady()
OnSocketReady ==
    /\ socket_state = "starting"
    /\ socket_state' = "ready"
    /\ pending_offer' = None
    /\ IF pending_offer = None THEN Post(<<>>) /\ UNCHANGED receivers
       ELSE Post(<<Answer(pending_offer, kind[pending_offer])>>) /\ receivers' = pending_offer
    /\ UNCHANGED supports

\* Environment::OnError() and OnSocketInvalid()
OnSocketInvalid ==
    /\ socket_state # "invalid"
    /\ socket_state' = "invalid"
    /\ pending_offer' = None
    /\ Post(Interrupted)
    /\ UNCHANGED <<supports, receivers>>
=============================================================================
