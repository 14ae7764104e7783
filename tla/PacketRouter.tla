---------------------------- MODULE PacketRouter ----------------------------
(***************************************************************************)
(* SenderPacketRouter: paces the packets of several Senders in bursts.     *)
(* Its alarm runs SendBurstOfPackets().  Of a Sender we keep what it       *)
(* answers to the router; the bandwidth estimator is left out.             *)
(***************************************************************************)
EXTENDS Alarm, FiniteSets, FiniteSetsExt

CONSTANTS Ssrcs,              \* SSRCs of Receivers; a lower one has priority
          kNever,             \* Clock::time_point::max()
          BurstInterval,
          MaxPacketsPerBurst,
          RtcpReportInterval,
          KickstartInterval,
          MaxFlagged,         \* bound on packets that wait for being sent
          MaxLate             \* how late the TaskRunner may run a functor

\* No time that is computed from the clock is further ahead.
Horizon == RtcpReportInterval + KickstartInterval + BurstInterval

ASSUME PacketRouterAssumption ==
    /\ Ssrcs \subseteq Int /\ IsFiniteSet(Ssrcs)
    /\ {BurstInterval, MaxPacketsPerBurst, RtcpReportInterval, KickstartInterval,
        MaxFlagged} \subseteq Nat \ {0}
    /\ MaxLate \in Nat
    /\ ClientTasks = {"SendBurstOfPackets"}
    /\ kImmediately + BurstInterval <= 0
    /\ kNever \in Int /\ Horizon < kNever

VARIABLES
    senders,              \* the SSRCs in senders_
    receiving,            \* whether the Environment passes packets on
    next_rtcp_send_time,
    next_rtp_send_time,
    last_burst_time,
    sender                \* state of the Senders, see SenderState

router_vars == <<senders, receiving, next_rtcp_send_time, next_rtp_send_time,
                 last_burst_time, sender>>
vars == <<alarm_vars, now, router_vars>>

\* How many packets are flagged for sending, whether the last packet of the last
\* frame is one of them, when that packet was last sent, and whether the Receiver
\* is known to expect that frame.
SenderState == [flagged : 0 .. MaxFlagged, last_flagged : BOOLEAN,
                last_sent : Int, aware : BOOLEAN]
NewSender == [flagged |-> 0, last_flagged |-> FALSE, last_sent |-> 0, aware |-> TRUE]

Init ==
    /\ AlarmInit
    /\ senders = {}
    /\ receiving = FALSE
    /\ next_rtcp_send_time = [s \in Ssrcs |-> kNever]
    /\ next_rtp_send_time = [s \in Ssrcs |-> kNever]
    /\ last_burst_time = kImmediately
    /\ sender = [s \in Ssrcs |-> NewSender]

-----------------------------------------------------------------------------
(* Scheduling *)

Earlier(a, b) == IF a < b THEN a ELSE b

\* Mutant: RTCP send times are overlooked.
NextSendTimeMutant(rtcp, rtp, s) == rtp[s]
NextSendTime(rtcp, rtp, s) == Earlier(rtcp[s], rtp[s])

\* Mutant: the distance of bursts is overlooked.
EarliestAllowedMutant(last_burst) == kImmediately
EarliestAllowed(last_burst) == last_burst + BurstInterval

\* ScheduleNextBurst(), given what its caller has just assigned.
NextBurstTime(rtcp, rtp, last_burst) ==
    LET next == Min({kNever} \cup {NextSendTime(rtcp, rtp, s) : s \in senders})
    IN  IF next = kNever THEN kNever ELSE Later(next, EarliestAllowed(last_burst))

ScheduleNextBurst(queued, rtcp, rtp, last_burst) ==
    LET time == NextBurstTime(rtcp, rtp, last_burst)
    IN  IF time # kNever
        THEN ScheduleWithTask(queued, "SendBurstOfPackets", time)
        ELSE /\ scheduled_task' = NoTask
             /\ queued_fire' = queued
             /\ UNCHANGED <<alarm_time, next_fire_time>>

\* RequestRtcpSend() and RequestRtpSend() of one Sender.
Request(s, with_rtcp) ==
    /\ next_rtcp_send_time' =
         IF with_rtcp THEN [next_rtcp_send_time EXCEPT ![s] = kImmediately]
         ELSE next_rtcp_send_time
    /\ next_rtp_send_time' = [next_rtp_send_time EXCEPT ![s] = kImmediately]
    /\ ScheduleNextBurst(queued_fire, next_rtcp_send_time', next_rtp_send_time',
                         last_burst_time)
    /\ UNCHANGED <<senders, receiving, last_burst_time>>

-----------------------------------------------------------------------------
(* Calls of the Senders *)

OnSenderCreated(s) ==
    /\ s \notin senders
    /\ senders' = senders \cup {s}
    /\ receiving' = (receiving \/ senders = {})
    /\ next_rtcp_send_time' = [next_rtcp_send_time EXCEPT ![s] = kNever]
    /\ next_rtp_send_time' = [next_rtp_send_time EXCEPT ![s] = kNever]
    /\ sender' = [sender EXCEPT ![s] = NewSender]
    /\ UNCHANGED <<alarm_vars, now, last_burst_time>>

\* The alarm stays as it is.
OnSenderDestroyed(s) ==
    /\ s \in senders
    /\ senders' = senders \ {s}
    /\ receiving' = (receiving /\ senders' # {})
    /\ UNCHANGED <<alarm_vars, now, next_rtcp_send_time, next_rtp_send_time,
                   last_burst_time, sender>>

\* EnqueueFrame() of a frame of n packets.  It asks for RTCP unless the round trip
\* time is known, which takes an RTCP packet sent before.
EnqueueFrame(s, n, with_rtcp) ==
    /\ s \in senders
    /\ sender[s].flagged + n <= MaxFlagged
    /\ next_rtcp_send_time[s] \in {kNever, kImmediately} => with_rtcp
    /\ sender' = [sender EXCEPT ![s] =
                     [flagged |-> @.flagged + n, last_flagged |-> TRUE,
                      last_sent |-> @.last_sent, aware |-> FALSE]]
    /\ Request(s, with_rtcp)
    /\ UNCHANGED now

\* OnReceivedPacket() with any feedback: ACKs drop frames and the packets flagged
\* in them, NACKs flag packets (again) and ask for a burst, and either may tell that
\* the Receiver expects the last frame.
OnReceivedPacket(s, flagged, last_flagged, aware, nacked) ==
    LET old == sender[s]
    IN  /\ receiving /\ s \in senders
        /\ old.aware => aware
        /\ flagged > old.flagged \/ (last_flagged /\ ~old.last_flagged) => nacked
        /\ nacked \/ last_flagged => flagged > 0
        /\ old.last_flagged /\ ~last_flagged => aware
        /\ sender' = [sender EXCEPT ![s] =
                         [flagged |-> flagged, last_flagged |-> last_flagged,
                          last_sent |-> old.last_sent, aware |-> aware]]
        /\ IF nacked THEN Request(s, FALSE)
           ELSE UNCHANGED <<alarm_vars, senders, receiving, next_rtcp_send_time,
                            next_rtp_send_time, last_burst_time>>
        /\ UNCHANGED now

-----------------------------------------------------------------------------
(* SendBurstOfPackets() *)

RtcpDue == {s \in senders : next_rtcp_send_time[s] <= now}
RtpDue == {s \in senders : next_rtp_send_time[s] <= now}

\* ChooseKickstartPacket() once no flagged packet is left.
KickstartDue(s) ==
    /\ ~sender[s].aware /\ ~sender[s].last_flagged
    /\ sender[s].last_sent + KickstartInterval <= now

\* Packets that GetRtpPacketForImmediateSend() would return in a row.
Available(s) == sender[s].flagged + (IF KickstartDue(s) THEN 1 ELSE 0)

\* The Senders that are due share the budget in the order of their priority: each
\* has what the one before it leaves.
SharesBudget(budget) ==
    \A s \in RtpDue :
        LET before == {h \in RtpDue : h < s}
        IN  budget[s] =
              IF before = {} THEN Later(0, MaxPacketsPerBurst - Cardinality(RtcpDue))
              ELSE Later(0, budget[Max(before)] - Available(Max(before)))

Sent(budget, s) == IF s \in RtpDue THEN Earlier(Available(s), budget[s]) ELSE 0

\* Flagged packets that are left; a kickstart packet is not a flagged one.
Left(budget, s) == sender[s].flagged - Earlier(Sent(budget, s), sender[s].flagged)

AfterBurst(budget, s) ==
    LET left == Left(budget, s)
        last_packet_sent == \/ sender[s].last_flagged /\ left = 0
                            \/ Sent(budget, s) > sender[s].flagged
    IN  [flagged |-> left,
         last_flagged |-> sender[s].last_flagged /\ left > 0,
         last_sent |-> IF last_packet_sent THEN now ELSE sender[s].last_sent,
         aware |-> sender[s].aware]

\* Mutant: kickstart packets are overlooked.
GetRtpResumeTimeMutant(state) == IF state.flagged > 0 THEN kImmediately ELSE kNever
GetRtpResumeTime(state) ==
    IF state.flagged > 0 THEN kImmediately
    ELSE IF state.aware THEN kNever
    ELSE state.last_sent + KickstartInterval

\* SendJustTheRtpPackets() stops as soon as the budget is used up.
Reached(budget, s) == s \in RtpDue /\ budget[s] > 0

SendBurst(budget) ==
    /\ Invokes
    /\ SharesBudget(budget)
    /\ next_rtcp_send_time' =
         [s \in Ssrcs |-> IF s \in RtcpDue THEN now + RtcpReportInterval
                          ELSE next_rtcp_send_time[s]]
    /\ sender' = [s \in Ssrcs |-> AfterBurst(budget, s)]
    /\ next_rtp_send_time' =
         [s \in Ssrcs |-> IF Reached(budget, s) THEN GetRtpResumeTime(sender'[s])
                          ELSE next_rtp_send_time[s]]
    /\ last_burst_time' = now
    /\ ScheduleNextBurst(FALSE, next_rtcp_send_time', next_rtp_send_time', now)
    /\ UNCHANGED <<now, senders, receiving>>

SendBurstOfPackets ==
    \E budget \in [RtpDue -> 0 .. MaxPacketsPerBurst] : SendBurst(budget)

\* The TaskRunner is never later than MaxLate, and the clock never comes near
\* Clock::time_point::max().
Tick ==
    /\ queued_fire => now < next_fire_time + MaxLate
    /\ now + 1 + Horizon < kNever
    /\ now' = now + 1
    /\ UNCHANGED <<alarm_vars, router_vars>>

\* What happens at one moment.  A firing of the alarm that runs no task is missing
\* as it cannot occur, see NoVainFiring.
AtOnce ==
    \/ \E s \in Ssrcs : OnSenderCreated(s) \/ OnSenderDestroyed(s)
    \/ \E s \in Ssrcs, n \in 1 .. MaxFlagged, with_rtcp \in BOOLEAN :
         EnqueueFrame(s, n, with_rtcp)
    \/ \E s \in Ssrcs, flagged \in 0 .. MaxFlagged,
          last_flagged \in BOOLEAN, aware \in BOOLEAN, nacked \in BOOLEAN :
         OnReceivedPacket(s, flagged, last_flagged, aware, nacked)
    \/ SendBurstOfPackets

Next == AtOnce \/ Tick

Spec == Init /\ [][Next]_vars

-----------------------------------------------------------------------------
(* Properties *)

TypeOK ==
    /\ scheduled_task \in ClientTasks \cup {NoTask}
    /\ {alarm_time, next_fire_time, now, last_burst_time} \subseteq Int
    /\ {queued_fire, receiving} \subseteq BOOLEAN
    /\ senders \subseteq Ssrcs
    /\ next_rtcp_send_time \in [Ssrcs -> Int]
    /\ next_rtp_send_time \in [Ssrcs -> Int]
    /\ sender \in [Ssrcs -> SenderState]

\* "RTP sending will continue until the Sender stops providing packet data": a
\* Sender with flagged packets is due at once, and one whose Receiver may not know
\* of the last frame is due when the kickstart packet is, although the budget of
\* a burst ran out before it or feedback came in between; and no send time is left
\* without an alarm that fires as soon as it and the distance of bursts allow.
NoSenderForgotten ==
    /\ TypeOK
    /\ \A s \in senders :
        /\ sender[s].flagged > 0 => next_rtp_send_time[s] <= now
        /\ ~sender[s].aware =>
              \/ sender[s].last_flagged
              \/ next_rtp_send_time[s] <= sender[s].last_sent + KickstartInterval
        /\ LET next == Earlier(next_rtcp_send_time[s], next_rtp_send_time[s])
           IN  next # kNever =>
                 /\ scheduled_task = "SendBurstOfPackets"
                 /\ alarm_time <= Later(now, Later(next, last_burst_time + BurstInterval))

\* "The minimum amount of time between burst-sends", whichever Senders ask for
\* them, come and go, and however late the TaskRunner is.
BurstsKeepDistance ==
    [][SendBurstOfPackets => now >= last_burst_time + BurstInterval]_vars

\* Whenever the alarm fires it runs SendBurstOfPackets(), so that no other firing of
\* it is among the actions.
NoVainFiring == Fires => Invokes

\* "RTCP sending will repeat at regular intervals": a report is late by less than
\* the distance of bursts and the delay of the TaskRunner, however much RTP there is.
RtcpOnTime ==
    \A s \in senders :
        next_rtcp_send_time[s] # kImmediately =>
            now < next_rtcp_send_time[s] + BurstInterval + MaxLate
=============================================================================
