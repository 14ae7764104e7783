---------------------------- MODULE RequestReply ----------------------------
(***************************************************************************)
(* What SenderSessionMessenger::SendRequest() promises for each request:   *)
(* its callback runs exactly once, with the outcome of that request.       *)
(***************************************************************************)
CONSTANTS Requests, Outcomes

VARIABLE status     \* of each request: "unsent", "awaited", or its outcome

vars == <<status>>

Init == status = [i \in Requests |-> "unsent"]

Ask(i) == status[i] = "unsent" /\ status' = [status EXCEPT ![i] = "awaited"]

Complete(i) ==
    /\ status[i] = "awaited"
    /\ \E o \in Outcomes : status' = [status EXCEPT ![i] = o]

Next == \E i \in Requests : Ask(i) \/ Complete(i)

Spec == Init /\ [][Next]_vars /\ \A i \in Requests : WF_vars(Complete(i))
=============================================================================
