---------------------------- MODULE SenderSession ---------------------------
(***************************************************************************)
(* SenderSession and its SenderSessionMessenger.  Requests are numbered;   *)
(* what a request asks for is its kind.  An answer names the streams that  *)
(* the receiver has selected, by their index in the offer.                 *)
(***************************************************************************)
EXTENDS Integers, Sequences

CONSTANT MaxRequests

ASSUME RequestsAssumption == MaxRequests \in Nat \ {0}

Requests == 1 .. MaxRequests
None == 0

\* Offers of audio and video, of audio, and for remoting; and GET_CAPABILITIES.
Offers == {"av", "audio", "remoting"}
Kinds == Offers \union {"capabilities"}

\* The indexes of an offer's streams.
Streams(k) == IF k = "audio" THEN {0} ELSE {0, 1}

VARIABLES
    kind,                      \* of the requests so far: current_sequence_number_ is its length
    current_negotiation,       \* the number of its offer
    awaiting_replies,
    timers,                    \* requests whose timeout is still queued, in order
    state,
    senders,                   \* those the client got last: their offer, their answer, their streams
    result                     \* history: what each request's callback was told

sender_vars == <<kind, current_negotiation, awaiting_replies, timers, state, senders, result>>

SenderInit ==
    /\ kind = <<>>
    /\ current_negotiation = None
    /\ awaiting_replies = {}
    /\ timers = <<>>
    /\ state = "idle"
    /\ senders = [offer |-> None, answer |-> None, streams |-> {}]
    /\ result = [i \in Requests |-> "none"]

current_sequence_number == Len(kind)

\* Negotiate(), NegotiateRemoting() and RequestCapabilities(): the request is sent,
\* awaited, and timed.
SendRequest(k) ==
    LET i == current_sequence_number + 1
    IN  /\ i \in Requests
        /\ kind' = Append(kind, k)
        /\ current_negotiation' = IF k \in Offers THEN i ELSE current_negotiation
        /\ awaiting_replies' = awaiting_replies \union {i}
        /\ timers' = Append(timers, i)
        /\ UNCHANGED <<state, senders, result>>

\* Mutant: the callback stays where it is.
CompleteMutant(i, outcome) ==
    /\ awaiting_replies' = awaiting_replies
    /\ result' = [result EXCEPT ![i] = outcome]
\* The callback is taken out of awaiting_replies_ and run.
Complete(i, outcome) ==
    /\ awaiting_replies' = awaiting_replies \ {i}
    /\ result' = [result EXCEPT ![i] = outcome]

\* ReplyIfTimedOut(); timers of requests that have been answered do nothing.
ReplyIfTimedOut ==
    /\ timers # <<>>
    /\ timers' = Tail(timers)
    /\ IF Head(timers) \in awaiting_replies
       THEN Complete(Head(timers), "timed out")
       ELSE UNCHANGED <<awaiting_replies, result>>
    /\ UNCHANGED <<kind, current_negotiation, state, senders>>

\* SelectSenders(): the streams of the answer that the current negotiation has.
SelectSenders(m) == m.streams \intersect Streams(kind[current_negotiation])

\* OnAnswer() with a valid ANSWER.
OnAnswer(m) ==
    IF SelectSenders(m) = {}
    THEN Complete(m.seq, "error") /\ UNCHANGED <<state, senders>>
    ELSE /\ Complete(m.seq, "done")
         /\ state' = IF kind[current_negotiation] = "remoting" THEN "remoting" ELSE "streaming"
         /\ senders' = [offer |-> current_negotiation, answer |-> m.seq,
                        streams |-> SelectSenders(m)]

\* Mutant: a reply is taken, awaited or not.
IsAwaitedMutant(i) == TRUE
IsAwaited(i) == i \in awaiting_replies

\* OnMessage() of the messenger, and the callback of a reply that is awaited.
OnReply(m) ==
    /\ IF ~IsAwaited(m.seq) THEN UNCHANGED <<awaiting_replies, result, state, senders>>
       ELSE IF ~m.valid \/ kind[m.seq] = "capabilities"
       THEN /\ Complete(m.seq, IF m.valid THEN "done" ELSE "error")
            /\ UNCHANGED <<state, senders>>
       ELSE OnAnswer(m)
    /\ UNCHANGED <<kind, current_negotiation, timers>>
=============================================================================
