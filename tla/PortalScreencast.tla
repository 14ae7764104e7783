-------------------------- MODULE PortalScreencast --------------------------
(***************************************************************************)
(* PortalScreencast: the desktop portal is asked for a session and for a   *)
(* restricted PipeWire descriptor, on the GLib main loop, under a timeout. *)
(* libportal is external: a request ends, sooner or later, once it is      *)
(* cancelled, and may still end well.                                      *)
(***************************************************************************)
EXTENDS Integers

VARIABLE portal

NewPortal ==
    [awaiting |-> "none",          \* awaiting_create_, awaiting_start_
     timeout_source |-> FALSE,
     cancelled |-> FALSE,          \* cancellable_
     error |-> FALSE,              \* last_error_ is not empty
     session |-> FALSE,            \* session_, with its "closed" handler
     session_closed |-> FALSE,
     pipewire_fd |-> FALSE,
     finished |-> FALSE]           \* the loop of AcquireMonitor() has quit

PortalType ==
    [awaiting : {"none", "create", "start"}, timeout_source : BOOLEAN,
     cancelled : BOOLEAN, error : BOOLEAN, session : BOOLEAN,
     session_closed : BOOLEAN, pipewire_fd : BOOLEAN, finished : BOOLEAN]

\* AcquireMonitor(), up to its loop.
RequestSession ==
    portal' = [portal EXCEPT !.awaiting = "create", !.timeout_source = TRUE]

\* Mutant: the requests are left to themselves.
OnTimeoutMutant ==
    /\ portal.timeout_source
    /\ portal' = [portal EXCEPT !.timeout_source = FALSE, !.error = TRUE]
OnTimeout ==
    /\ portal.timeout_source
    /\ portal' = [portal EXCEPT !.timeout_source = FALSE, !.error = TRUE,
                                !.cancelled = TRUE]

OnClosed ==
    /\ portal.session /\ ~portal.session_closed
    /\ portal' = [portal EXCEPT !.session_closed = TRUE, !.error = TRUE,
                                !.cancelled = @ \/ portal.awaiting # "none",
                                !.finished = @ \/ portal.awaiting = "none"]

OnCreate(ok) ==
    /\ portal.awaiting = "create"
    /\ portal' = IF ok
                 THEN [portal EXCEPT !.session = TRUE, !.awaiting = "start"]
                 ELSE [portal EXCEPT !.error = TRUE, !.awaiting = "none", !.finished = TRUE]

\* The session starts and its stream and descriptor are good, or something fails.
OnStart(ok) ==
    /\ portal.awaiting = "start"
    /\ portal' = IF ok
                 THEN [portal EXCEPT !.pipewire_fd = TRUE, !.awaiting = "none", !.finished = TRUE]
                 ELSE [portal EXCEPT !.error = TRUE, !.awaiting = "none", !.finished = TRUE]

PortalAnswers(ok) == OnCreate(ok) \/ OnStart(ok)

\* AcquireMonitor(), after its loop.
StopWaiting(p) == [p EXCEPT !.timeout_source = FALSE]

Acquired(p) == p.pipewire_fd /\ ~p.session_closed /\ ~p.error

\* Mutant: an acquisition that failed keeps its descriptor.
CloseMutant(p) ==
    [p EXCEPT !.timeout_source = FALSE, !.session = FALSE, !.pipewire_fd = @ /\ p.error]
Close(p) ==
    [p EXCEPT !.timeout_source = FALSE, !.session = FALSE, !.pipewire_fd = FALSE]
=============================================================================
