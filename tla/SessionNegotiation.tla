------------------------- MODULE SessionNegotiation -------------------------
(***************************************************************************)
(* A SenderSession and a ReceiverSession over a Cast channel, which keeps  *)
(* messages in order and may take any time.  The sender's client asks for  *)
(* what it likes, also before earlier requests are answered.               *)
(***************************************************************************)
EXTENDS ReceiverSession, Functions

VARIABLES
    to_receiver,       \* the numbers of requests that are under way
    overlapped         \* history: an offer was made while one was awaited

vars == <<sender_vars, receiver_vars, to_receiver, overlapped>>

Init ==
    /\ SenderInit /\ ReceiverInit
    /\ to_receiver = <<>>
    /\ overlapped = FALSE

AwaitedOffers == {i \in awaiting_replies : kind[i] \in Offers}

Asks(k) ==
    /\ SendRequest(k)
    /\ to_receiver' = Append(to_receiver, current_sequence_number + 1)
    /\ overlapped' = (overlapped \/ (k \in Offers /\ AwaitedOffers # {}))
    /\ UNCHANGED receiver_vars

TimesOut == ReplyIfTimedOut /\ UNCHANGED <<receiver_vars, to_receiver, overlapped>>

SenderReads ==
    /\ to_sender # <<>>
    /\ OnReply(Head(to_sender))
    /\ to_sender' = Tail(to_sender)
    /\ UNCHANGED <<supports, socket_state, pending_offer, receivers, replies, to_receiver,
                   overlapped>>

ReceiverReads ==
    /\ to_receiver # <<>>
    /\ LET i == Head(to_receiver)
       IN  IF kind[i] = "capabilities" THEN OnCapabilitiesRequest(i)
           ELSE OnOffer(i, kind[i])
    /\ to_receiver' = Tail(to_receiver)
    /\ UNCHANGED <<sender_vars, overlapped>>

SocketChanges ==
    /\ OnSocketReady \/ OnSocketInvalid
    /\ UNCHANGED <<sender_vars, to_receiver, overlapped>>

Next ==
    \/ \E k \in Kinds : Asks(k)
    \/ TimesOut \/ SenderReads \/ ReceiverReads \/ SocketChanges

\* The task runner gets to its delayed tasks.
Spec == Init /\ [][Next]_vars /\ WF_vars(TimesOut)

-----------------------------------------------------------------------------
(* Properties *)

TypeOK ==
    /\ Range(kind) \subseteq Kinds /\ Len(kind) \in 0 .. MaxRequests
    /\ current_negotiation \in 0 .. Len(kind)
    /\ awaiting_replies \subseteq 1 .. Len(kind) /\ Range(timers) \subseteq 1 .. Len(kind)
    /\ state \in {"idle", "streaming", "remoting"}
    /\ senders.streams \subseteq {0, 1}
    /\ pending_offer \in 0 .. Len(kind) /\ receivers \in 0 .. Len(kind)
    /\ socket_state \in {"starting", "ready", "invalid"}

\* Each request that has reached the receiver has one reply, and never two; the
\* only exception is an offer that waits for a socket that is being bound.
\* OnOffer(), the events of the socket and the interruption of a waiting offer
\* share the work.
OneReplyEach ==
    /\ TypeOK
    /\ \A i \in 1 .. Len(kind) :
          replies[i] = IF i \in Range(to_receiver) \/ i = pending_offer THEN 0 ELSE 1
    /\ pending_offer # None => socket_state = "starting" /\ receivers = None

\* The streams that the client was given are those of the answer to their own
\* offer, unless the client has made an offer while another one was awaited.
NoMismatchInTurn ==
    senders.offer # senders.answer => overlapped

\* Once the last offer has succeeded, both ends have the streams of that offer,
\* whatever was refused, interrupted or late before and whatever is still under way.
LastOfferAgreed ==
    LET last == current_negotiation
    IN  last # None /\ result[last] = "done"
        => /\ receivers = last /\ senders.offer = last /\ senders.answer = last
           /\ state = IF kind[last] = "remoting" THEN "remoting" ELSE "streaming"

\* What a callback is told, and what has become of each request.
Outcomes == {"done", "error", "timed out"}
Status == [i \in Requests |-> IF i > Len(kind) THEN "unsent"
                             ELSE IF i \in awaiting_replies THEN "awaited" ELSE result[i]]

\* Each request's callback runs exactly once, with its own reply or with a
\* timeout: late replies and timers of answered requests do nothing.
Promise == INSTANCE RequestReply WITH status <- Status
KeepsPromise == Promise!Spec
=============================================================================
