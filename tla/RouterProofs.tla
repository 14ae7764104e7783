---------------------------- MODULE RouterProofs ----------------------------
(***************************************************************************)
(* The packet router forgets no Sender, is on time with RTCP and keeps its *)
(* bursts apart, for any number of Senders, any intervals and any delay of *)
(* the TaskRunner.  And any Alarm, not only the router's, has a firing in  *)
(* the queue while it is set, and keeps its promise, for any tasks and     *)
(* times.                                                                  *)
(***************************************************************************)
EXTENDS PacketRouter, AlarmAlone, FiniteSetTheorems, TLAPS

-----------------------------------------------------------------------------
(* The inductive invariant *)

\* The clock and the times taken from it are far from both ends.
TimesInRange ==
    /\ now \in Nat /\ now + Horizon < kNever
    /\ last_burst_time = kImmediately \/ last_burst_time \in 0 .. now
    /\ \A s \in Ssrcs : sender[s].last_sent \in 0 .. now
    /\ \A s \in Ssrcs : /\ next_rtcp_send_time[s] \in
                             {kImmediately, kNever} \cup 0 .. (now + RtcpReportInterval)
                        /\ next_rtp_send_time[s] \in
                             {kImmediately, kNever} \cup 0 .. (now + KickstartInterval)

\* The last packet is one of those that are flagged.
LastIsFlagged == \A s \in Ssrcs : sender[s].last_flagged => sender[s].flagged > 0

\* The alarm is set exactly while a functor is in the queue.  That functor does not
\* run early, is late by at most MaxLate, and keeps the distance of bursts.
AlarmInStep ==
    /\ queued_fire = (scheduled_task = "SendBurstOfPackets")
    /\ queued_fire =>
         /\ next_fire_time <= alarm_time /\ next_fire_time < kNever
         /\ alarm_time <= Later(now, next_fire_time)
         /\ now <= next_fire_time + MaxLate
         /\ last_burst_time + BurstInterval <= alarm_time

\* A report that has a time is due after the last burst, and the functor that is in
\* the queue is not later than that report and the distance of bursts require.
ReportsAhead ==
    \A s \in senders :
        next_rtcp_send_time[s] # kImmediately =>
            /\ last_burst_time < next_rtcp_send_time[s]
            /\ queued_fire =>
                 next_fire_time <= Later(next_rtcp_send_time[s],
                                         last_burst_time + BurstInterval)

IInv == NoSenderForgotten /\ TimesInRange /\ LastIsFlagged /\ AlarmInStep /\ ReportsAhead

-----------------------------------------------------------------------------
(* Scheduling *)

\* A set of integers that is bounded below has a minimum.
LEMMA MinExists ==
  ASSUME NEW S \in SUBSET Int, NEW low \in Int, S # {}, \A x \in S : low <= x
  PROVE  Min(S) \in S /\ \A x \in S : Min(S) <= x
  <1> DEFINE T == {n \in Nat : low + n \in S}
  <1>1. T # {} /\ T \subseteq Nat
    <2>1. PICK x \in S : TRUE
      BY Zenon
    <2>2. x - low \in Nat /\ low + (x - low) = x
      BY <2>1
    <2> QED
      BY <2>2, Zenon
  <1> HIDE DEF T
  <1>2. PICK n \in T : \A m \in T : ~ (<<m, n>> \in OpToRel(<, Nat))
    BY <1>1, NatLessThanWellFounded, WFMin, Zenon
  <1>3. ASSUME NEW m \in T PROVE n <= m
    <2>1. OpToRel(<, Nat) = {p \in Nat \X Nat : p[1] < p[2]}
      BY Zenon DEF OpToRel
    <2>2. <<m, n>> \notin {p \in Nat \X Nat : p[1] < p[2]}
      BY <1>2, <2>1, Zenon
    <2> QED
      BY <1>1, <2>2
  <1>4. low + n \in S /\ \A x \in S : low + n <= x
    BY <1>1, <1>3 DEF T
  <1> QED
    BY <1>4, Zenon DEF Min

\* What the assumptions say of the constants, for the provers.
LEMMA ConstantFacts ==
  /\ kImmediately \in Int /\ kImmediately < 0 /\ kImmediately + BurstInterval <= 0
  /\ kNever \in Int /\ Horizon \in Int /\ Horizon < kNever
  /\ Horizon = RtcpReportInterval + KickstartInterval + BurstInterval
  /\ BurstInterval \in Nat /\ BurstInterval > 0
  /\ RtcpReportInterval \in Nat /\ RtcpReportInterval > 0
  /\ KickstartInterval \in Nat /\ KickstartInterval > 0
  /\ MaxPacketsPerBurst \in Nat /\ MaxFlagged \in Nat /\ MaxLate \in Nat
  /\ NoTask # "SendBurstOfPackets"
  BY PacketRouterAssumption, AlarmAssumption DEF Horizon

\* A time that a Sender waits for, kImmediately and kNever included.
SendTime(t) == t \in Int /\ kImmediately <= t /\ t <= kNever

\* ScheduleNextBurst() picks kNever only if no Sender waits, and otherwise a time
\* that keeps the distance of bursts and is not later than any Sender requires.
LEMMA NextBurstIsDue ==
  ASSUME NEW rtcp, NEW rtp, NEW last \in Int, senders \subseteq Ssrcs,
         \A s \in Ssrcs : SendTime(rtcp[s]) /\ SendTime(rtp[s]),
         last + BurstInterval < kNever,
         NEW t, t = NextBurstTime(rtcp, rtp, last)
  PROVE  /\ t \in Int /\ t <= kNever
         /\ t = kNever => \A s \in senders : Earlier(rtcp[s], rtp[s]) = kNever
         /\ t # kNever => /\ t >= last + BurstInterval
                          /\ \A s \in senders :
                               t <= Later(Earlier(rtcp[s], rtp[s]), last + BurstInterval)
  <1> DEFINE S == {kNever} \cup {Earlier(rtcp[s], rtp[s]) : s \in senders}
             next == Min(S)
  <1>1. S \in SUBSET Int /\ S # {} /\ \A x \in S : kImmediately <= x /\ x <= kNever
    BY ConstantFacts DEF SendTime, Earlier
  <1>2. t = IF next = kNever THEN kNever ELSE Later(next, last + BurstInterval)
    BY DEF NextBurstTime, NextSendTime, EarliestAllowed
  <1> HIDE DEF S
  <1>3. next \in S /\ \A x \in S : next <= x
    BY <1>1, MinExists, ConstantFacts, Zenon
  <1>4. next \in Int /\ next <= kNever
    BY <1>1, <1>3, Zenon
  <1> HIDE DEF next
  <1>5. \A s \in senders : /\ Earlier(rtcp[s], rtp[s]) \in Int
                           /\ next <= Earlier(rtcp[s], rtp[s])
                           /\ Earlier(rtcp[s], rtp[s]) <= kNever
    BY <1>1, <1>3 DEF S
  <1>6. CASE next = kNever
    BY <1>2, <1>4, <1>5, <1>6, ConstantFacts
  <1>7. CASE next # kNever
    <2>1. t \in Int /\ t >= last + BurstInterval /\ t < kNever
      BY <1>2, <1>4, <1>7, ConstantFacts DEF Later
    <2>2. ASSUME NEW s \in senders
          PROVE  t <= Later(Earlier(rtcp[s], rtp[s]), last + BurstInterval)
      BY <1>2, <1>4, <1>5, <1>7, ConstantFacts DEF Later
    <2> QED
      BY <2>1, <2>2, ConstantFacts
  <1> QED
    BY <1>6, <1>7

\* The invariant's facts about types and ranges, in the form the steps use.
LEMMA RangeFacts ==
  ASSUME IInv
  PROVE  /\ senders \subseteq Ssrcs
         /\ now \in Int /\ 0 <= now /\ now + Horizon < kNever
         /\ last_burst_time \in Int /\ kImmediately <= last_burst_time
         /\ last_burst_time <= now /\ last_burst_time + BurstInterval < kNever
         /\ alarm_time \in Int /\ next_fire_time \in Int
         /\ queued_fire \in BOOLEAN
         /\ \A s \in Ssrcs : /\ SendTime(next_rtcp_send_time[s])
                             /\ SendTime(next_rtp_send_time[s])
  <1>1. TypeOK /\ TimesInRange
    BY DEF IInv, NoSenderForgotten
  <1>2. /\ senders \subseteq Ssrcs /\ queued_fire \in BOOLEAN
        /\ alarm_time \in Int /\ next_fire_time \in Int
    BY <1>1 DEF TypeOK
  <1>3. /\ now \in Int /\ 0 <= now /\ now + Horizon < kNever
        /\ last_burst_time \in Int /\ kImmediately <= last_burst_time
        /\ last_burst_time <= now /\ last_burst_time + BurstInterval < kNever
    BY <1>1, ConstantFacts DEF TimesInRange
  <1>4. ASSUME NEW s \in Ssrcs
        PROVE  SendTime(next_rtcp_send_time[s]) /\ SendTime(next_rtp_send_time[s])
    BY <1>1, <1>3, ConstantFacts DEF TimesInRange, SendTime
  <1> QED
    BY <1>2, <1>3, <1>4

\* A request sets the alarm to the earliest moment that the distance of bursts allows,
\* and keeps what the invariant says of the alarm and the send times.
LEMMA RequestKeepsAlarm ==
  ASSUME IInv, NEW s \in senders, NEW with_rtcp \in BOOLEAN, Request(s, with_rtcp),
         UNCHANGED now
  PROVE  /\ next_rtcp_send_time' \in [Ssrcs -> Int]
         /\ next_rtp_send_time' \in [Ssrcs -> Int]
         /\ next_rtp_send_time'[s] = kImmediately
         /\ \A r \in Ssrcs : /\ next_rtcp_send_time'[r] \in {kImmediately, next_rtcp_send_time[r]}
                             /\ r # s => next_rtp_send_time'[r] = next_rtp_send_time[r]
         /\ scheduled_task' = "SendBurstOfPackets" /\ queued_fire' = TRUE
         /\ alarm_time' \in Int /\ next_fire_time' \in Int
         /\ \A r \in senders :
              alarm_time' <= Later(now, Later(Earlier(next_rtcp_send_time'[r],
                                                      next_rtp_send_time'[r]),
                                              last_burst_time + BurstInterval))
         /\ AlarmInStep'
         /\ ReportsAhead'
  <1> DEFINE rtcp == next_rtcp_send_time'
             rtp == next_rtp_send_time'
             t == NextBurstTime(rtcp, rtp, last_burst_time)
  <1>1. s \in Ssrcs /\ senders \subseteq Ssrcs
    BY RangeFacts
  <1>2. /\ rtcp = IF with_rtcp THEN [next_rtcp_send_time EXCEPT ![s] = kImmediately]
                  ELSE next_rtcp_send_time
        /\ rtp = [next_rtp_send_time EXCEPT ![s] = kImmediately]
        /\ ScheduleNextBurst(queued_fire, rtcp, rtp, last_burst_time)
        /\ senders' = senders /\ last_burst_time' = last_burst_time
    BY DEF Request
  <1>3. /\ next_rtcp_send_time \in [Ssrcs -> Int]
        /\ next_rtp_send_time \in [Ssrcs -> Int]
    BY DEF IInv, NoSenderForgotten, TypeOK
  <1>4. /\ rtcp \in [Ssrcs -> Int] /\ rtp \in [Ssrcs -> Int] /\ rtp[s] = kImmediately
        /\ \A r \in Ssrcs : /\ rtcp[r] \in {kImmediately, next_rtcp_send_time[r]}
                            /\ r # s => rtp[r] = next_rtp_send_time[r]
    BY <1>1, <1>2, <1>3, ConstantFacts
  <1> HIDE DEF rtcp, rtp
  <1>5. \A r \in Ssrcs : SendTime(rtcp[r]) /\ SendTime(rtp[r])
    BY <1>1, <1>4, RangeFacts, ConstantFacts DEF SendTime
  <1>6. t = last_burst_time + BurstInterval /\ t \in Int /\ t # kNever
    <2>1. Earlier(rtcp[s], rtp[s]) = kImmediately
      BY <1>1, <1>4, <1>5, ConstantFacts DEF SendTime, Earlier
    <2>2. /\ t \in Int /\ t # kNever
          /\ t >= last_burst_time + BurstInterval
          /\ t <= Later(Earlier(rtcp[s], rtp[s]), last_burst_time + BurstInterval)
      BY <1>1, <1>5, <2>1, NextBurstIsDue, RangeFacts, ConstantFacts
    <2> QED
      BY <2>1, <2>2, RangeFacts, ConstantFacts DEF Later
  <1>7. /\ scheduled_task' = "SendBurstOfPackets" /\ queued_fire' = TRUE
        /\ alarm_time' = Later(now, t)
        /\ next_fire_time' = IF queued_fire /\ next_fire_time <= alarm_time'
                             THEN next_fire_time ELSE alarm_time'
    BY <1>2, <1>6 DEF ScheduleNextBurst, ScheduleWithTask, FiresInTime
  <1> HIDE DEF t
  <1>8. alarm_time' \in Int /\ next_fire_time' \in Int
    BY <1>6, <1>7, RangeFacts DEF Later
  <1>9. ASSUME NEW r \in senders
        PROVE  alarm_time' <= Later(now, Later(Earlier(rtcp[r], rtp[r]),
                                               last_burst_time + BurstInterval))
    <2>1. Earlier(rtcp[r], rtp[r]) \in Int
      BY <1>1, <1>5 DEF SendTime, Earlier
    <2> QED
      BY <1>6, <1>7, <2>1, RangeFacts, ConstantFacts DEF Later
  <1>10. AlarmInStep'
    <2>1. /\ next_fire_time' <= alarm_time' /\ next_fire_time' < kNever
          /\ last_burst_time + BurstInterval <= alarm_time'
      BY <1>6, <1>7, RangeFacts, ConstantFacts DEF Later
    <2>2. alarm_time' <= Later(now, next_fire_time') /\ now <= next_fire_time' + MaxLate
      <3>1. CASE queued_fire /\ next_fire_time <= alarm_time'
        BY <1>6, <1>7, <3>1, RangeFacts, ConstantFacts DEF IInv, AlarmInStep, Later
      <3>2. CASE ~(queued_fire /\ next_fire_time <= alarm_time')
        BY <1>6, <1>7, <3>2, RangeFacts, ConstantFacts DEF Later
      <3> QED
        BY <3>1, <3>2
    <2> QED
      BY <1>2, <1>7, <2>1, <2>2, Zenon DEF AlarmInStep
  <1>11. ReportsAhead'
    <2>1. SUFFICES ASSUME NEW r \in senders, rtcp[r] # kImmediately
                   PROVE  /\ last_burst_time < rtcp[r]
                          /\ next_fire_time' <= Later(rtcp[r], last_burst_time + BurstInterval)
      BY <1>2, <1>7 DEF ReportsAhead, rtcp
    <2>2. rtcp[r] = next_rtcp_send_time[r] /\ r \in Ssrcs /\ rtcp[r] \in Int
      BY <1>1, <1>4, <2>1
    <2>3. /\ last_burst_time < rtcp[r]
          /\ queued_fire =>
               next_fire_time <= Later(rtcp[r], last_burst_time + BurstInterval)
      BY <2>1, <2>2 DEF IInv, ReportsAhead
    <2>4. CASE queued_fire
      BY <1>6, <1>7, <1>8, <2>2, <2>3, <2>4, RangeFacts, ConstantFacts DEF Later
    <2>5. CASE ~queued_fire
      <3>1. scheduled_task # "SendBurstOfPackets"
        BY <2>5, Zenon DEF IInv, AlarmInStep
      <3>2. Earlier(next_rtcp_send_time[r], next_rtp_send_time[r]) = kNever
        BY <3>1 DEF IInv, NoSenderForgotten
      <3>3. rtcp[r] = kNever
        BY <2>2, <3>2, RangeFacts DEF Earlier, SendTime
      <3> QED
        BY <1>6, <1>7, <1>8, <2>3, <2>5, <3>3, RangeFacts, ConstantFacts DEF Later
    <2> QED
      BY <2>4, <2>5, RangeFacts
  <1> QED
    BY <1>4, <1>7, <1>8, <1>9, <1>10, <1>11 DEF rtcp, rtp

-----------------------------------------------------------------------------
(* One lemma per action *)

\* What a change of one Sender's flagged packets must respect, together with a
\* request, for the invariant to be kept.
LEMMA RequestInvariant ==
  ASSUME IInv, NEW s \in senders, NEW with_rtcp \in BOOLEAN, Request(s, with_rtcp),
         NEW state \in SenderState, sender' = [sender EXCEPT ![s] = state],
         state.last_sent = sender[s].last_sent,
         state.last_flagged => state.flagged > 0,
         UNCHANGED now
  PROVE  IInv'
  <1>1. /\ TypeOK /\ TimesInRange /\ LastIsFlagged
        /\ senders \subseteq Ssrcs /\ s \in Ssrcs
    BY DEF IInv, NoSenderForgotten, TypeOK
  <1>2. /\ senders' = senders /\ receiving' = receiving
        /\ last_burst_time' = last_burst_time /\ now' = now
    BY DEF Request
  <1>3. /\ sender' \in [Ssrcs -> SenderState] /\ sender'[s] = state
        /\ \A r \in Ssrcs : r # s => sender'[r] = sender[r]
    BY <1>1 DEF TypeOK
  <1>4. /\ next_rtcp_send_time' \in [Ssrcs -> Int]
        /\ next_rtp_send_time' \in [Ssrcs -> Int]
        /\ next_rtp_send_time'[s] = kImmediately
        /\ \A r \in Ssrcs : /\ next_rtcp_send_time'[r] \in {kImmediately, next_rtcp_send_time[r]}
                            /\ r # s => next_rtp_send_time'[r] = next_rtp_send_time[r]
        /\ scheduled_task' = "SendBurstOfPackets" /\ queued_fire' = TRUE
        /\ alarm_time' \in Int /\ next_fire_time' \in Int
        /\ \A r \in senders :
              alarm_time' <= Later(now, Later(Earlier(next_rtcp_send_time'[r],
                                                      next_rtp_send_time'[r]),
                                              last_burst_time + BurstInterval))
        /\ AlarmInStep' /\ ReportsAhead'
    BY RequestKeepsAlarm, Zenon
  <1>5. TypeOK'
    <2>1. scheduled_task' \in ClientTasks \cup {NoTask}
      BY <1>4, PacketRouterAssumption
    <2>2. receiving \in BOOLEAN /\ now \in Int /\ last_burst_time \in Int
      BY <1>1 DEF TypeOK
    <2> QED
      BY <1>1, <1>2, <1>3, <1>4, <2>1, <2>2, Zenon DEF TypeOK
  <1>6. TimesInRange'
    <2>1. \A r \in Ssrcs : sender'[r].last_sent = sender[r].last_sent
      BY <1>3
    <2> QED
      BY <1>1, <1>2, <1>4, <2>1 DEF TimesInRange
  <1>7. LastIsFlagged'
    BY <1>1, <1>3 DEF LastIsFlagged
  <1>8. NoSenderForgotten'
    <2>1. ASSUME NEW r \in senders
          PROVE  /\ sender'[r].flagged > 0 => next_rtp_send_time'[r] <= now
                 /\ ~sender'[r].aware =>
                       \/ sender'[r].last_flagged
                       \/ next_rtp_send_time'[r] <= sender'[r].last_sent + KickstartInterval
      <3>1. CASE r = s
        <4>1. sender[s].last_sent \in Int /\ 0 <= sender[s].last_sent
          BY <1>1 DEF TimesInRange
        <4> QED
          BY <1>3, <1>4, <3>1, <4>1, RangeFacts, ConstantFacts
      <3>2. CASE r # s
        BY <1>1, <1>3, <1>4, <3>2 DEF IInv, NoSenderForgotten
      <3> QED
        BY <3>1, <3>2
    <2> QED
      BY <1>2, <1>4, <1>5, <2>1 DEF NoSenderForgotten
  <1> QED
    BY <1>4, <1>6, <1>7, <1>8 DEF IInv

\* EnqueueFrame() flags packets and asks for a burst.
LEMMA EnqueueInvariant ==
  ASSUME IInv, NEW s \in Ssrcs, NEW n \in 1 .. MaxFlagged, NEW with_rtcp \in BOOLEAN,
         EnqueueFrame(s, n, with_rtcp)
  PROVE  IInv'
  <1> DEFINE state == [flagged |-> sender[s].flagged + n, last_flagged |-> TRUE,
                       last_sent |-> sender[s].last_sent, aware |-> FALSE]
  <1>1. sender \in [Ssrcs -> SenderState]
    BY DEF IInv, NoSenderForgotten, TypeOK
  <1>2. s \in senders /\ sender[s].flagged + n <= MaxFlagged /\ Request(s, with_rtcp)
        /\ UNCHANGED now
    BY DEF EnqueueFrame
  <1>3. sender' = [sender EXCEPT ![s] = state]
    BY <1>1 DEF EnqueueFrame, SenderState
  <1>4. state \in SenderState /\ state.flagged > 0
    BY <1>1, <1>2, ConstantFacts DEF SenderState
  <1>5. state.last_sent = sender[s].last_sent
    OBVIOUS
  <1> HIDE DEF state
  <1> QED
    BY <1>2, <1>3, <1>4, <1>5, RequestInvariant, Zenon

\* OnReceivedPacket() asks for a burst when packets are flagged, and otherwise leaves
\* the Sender with no more work than it had.
LEMMA FeedbackInvariant ==
  ASSUME IInv, NEW s \in Ssrcs, NEW flagged \in 0 .. MaxFlagged,
         NEW last_flagged \in BOOLEAN, NEW aware \in BOOLEAN, NEW nacked \in BOOLEAN,
         OnReceivedPacket(s, flagged, last_flagged, aware, nacked)
  PROVE  IInv'
  <1> DEFINE state == [flagged |-> flagged, last_flagged |-> last_flagged,
                       last_sent |-> sender[s].last_sent, aware |-> aware]
  <1>1. TypeOK /\ sender \in [Ssrcs -> SenderState]
    BY DEF IInv, NoSenderForgotten, TypeOK
  <1>2. /\ s \in senders /\ UNCHANGED now
        /\ sender' = [sender EXCEPT ![s] = state]
        /\ last_flagged => flagged > 0
        /\ nacked => Request(s, FALSE)
    BY Zenon DEF OnReceivedPacket
  <1>3. state \in SenderState
    BY <1>1 DEF SenderState
  <1>4. /\ state.last_sent = sender[s].last_sent
        /\ state.flagged = flagged /\ state.last_flagged = last_flagged
        /\ state.aware = aware
    OBVIOUS
  <1> HIDE DEF state
  <1>5. CASE nacked
    BY <1>2, <1>3, <1>4, <1>5, RequestInvariant, Zenon
  <1>6. CASE ~nacked
    <2>1. UNCHANGED <<alarm_vars, senders, receiving, next_rtcp_send_time,
                      next_rtp_send_time, last_burst_time>>
      BY <1>6 DEF OnReceivedPacket
    <2>2. /\ flagged <= sender[s].flagged
          /\ last_flagged => sender[s].last_flagged
          /\ sender[s].aware => aware
          /\ sender[s].last_flagged /\ ~last_flagged => aware
      BY <1>1, <1>6 DEF OnReceivedPacket, SenderState
    <2>3. sender'[s] = state /\ \A r \in Ssrcs : r # s => sender'[r] = sender[r]
      BY <1>1, <1>2
    <2>4. TypeOK'
      BY <1>1, <1>2, <1>3, <2>1 DEF TypeOK, alarm_vars
    <2>5. NoSenderForgotten'
      <3>1. ASSUME NEW r \in senders
            PROVE  /\ sender'[r].flagged > 0 => next_rtp_send_time[r] <= now
                   /\ ~sender'[r].aware =>
                         \/ sender'[r].last_flagged
                         \/ next_rtp_send_time[r] <= sender'[r].last_sent + KickstartInterval
        <4>1. r \in Ssrcs
          BY <1>1 DEF TypeOK
        <4>2. /\ sender[r].flagged > 0 => next_rtp_send_time[r] <= now
              /\ ~sender[r].aware =>
                         \/ sender[r].last_flagged
                         \/ next_rtp_send_time[r] <= sender[r].last_sent + KickstartInterval
          BY DEF IInv, NoSenderForgotten
        <4>3. CASE r = s
          <5>1. sender[s].flagged \in Int
            BY <1>1 DEF SenderState
          <5> QED
            BY <1>4, <2>2, <2>3, <4>2, <4>3, <5>1
        <4>4. CASE r # s
          BY <2>3, <4>1, <4>2, <4>4
        <4> QED
          BY <4>3, <4>4
      <3>2. \A r \in senders :
              Earlier(next_rtcp_send_time[r], next_rtp_send_time[r]) # kNever =>
                 /\ scheduled_task = "SendBurstOfPackets"
                 /\ alarm_time <= Later(now, Later(Earlier(next_rtcp_send_time[r],
                                                           next_rtp_send_time[r]),
                                                   last_burst_time + BurstInterval))
        BY DEF IInv, NoSenderForgotten
      <3> QED
        BY <1>2, <2>1, <2>4, <3>1, <3>2 DEF NoSenderForgotten, alarm_vars
    <2>6. TimesInRange'
      <3>1. \A r \in Ssrcs : sender'[r].last_sent = sender[r].last_sent
        BY <1>4, <2>3
      <3> QED
        BY <1>2, <2>1, <3>1 DEF IInv, TimesInRange
    <2>7. LastIsFlagged'
      BY <1>2, <1>4, <2>3 DEF IInv, LastIsFlagged
    <2>8. AlarmInStep' /\ ReportsAhead'
      BY <1>2, <2>1 DEF IInv, AlarmInStep, ReportsAhead, alarm_vars
    <2> QED
      BY <2>5, <2>6, <2>7, <2>8 DEF IInv
  <1> QED
    BY <1>5, <1>6

\* A Sender comes or goes: the alarm and the other Senders stay as they are.
LEMMA MembershipInvariant ==
  ASSUME IInv, NEW s \in Ssrcs, OnSenderCreated(s) \/ OnSenderDestroyed(s)
  PROVE  IInv'
  <1>1. /\ TypeOK /\ TimesInRange /\ senders \subseteq Ssrcs
        /\ sender \in [Ssrcs -> SenderState]
        /\ next_rtcp_send_time \in [Ssrcs -> Int]
        /\ next_rtp_send_time \in [Ssrcs -> Int]
    BY DEF IInv, NoSenderForgotten, TypeOK
  <1>2. CASE OnSenderCreated(s)
    <2>1. /\ UNCHANGED <<alarm_vars, now, last_burst_time>>
          /\ senders' = senders \cup {s} /\ receiving' \in BOOLEAN
      BY <1>1, <1>2 DEF OnSenderCreated, TypeOK
    <2>2. /\ next_rtcp_send_time' \in [Ssrcs -> Int] /\ next_rtcp_send_time'[s] = kNever
          /\ next_rtp_send_time' \in [Ssrcs -> Int] /\ next_rtp_send_time'[s] = kNever
          /\ \A r \in Ssrcs \ {s} :
               /\ next_rtcp_send_time'[r] = next_rtcp_send_time[r]
               /\ next_rtp_send_time'[r] = next_rtp_send_time[r]
      BY <1>1, <1>2, ConstantFacts DEF OnSenderCreated
    <2>3. /\ sender' \in [Ssrcs -> SenderState] /\ sender'[s] = NewSender
          /\ \A r \in Ssrcs \ {s} : sender'[r] = sender[r]
      <3>1. NewSender \in SenderState
        BY ConstantFacts DEF NewSender, SenderState
      <3> QED
        BY <1>1, <1>2, <3>1 DEF OnSenderCreated
    <2>4. TypeOK'
      <3>1. senders' \subseteq Ssrcs
        BY <1>1, <2>1
      <3> QED
        BY <1>1, <2>1, <2>2, <2>3, <3>1 DEF TypeOK, alarm_vars
    <2>5. NoSenderForgotten'
      <3>1. NewSender.flagged = 0 /\ NewSender.aware
        BY DEF NewSender
      <3>2. Earlier(kNever, kNever) = kNever
        BY DEF Earlier
      <3>3. \A r \in senders \ {s} : r \in Ssrcs \ {s}
        BY <1>1
      <3>4. senders' \ {s} \subseteq senders
        BY <2>1
      <3>5. ASSUME NEW r \in senders'
            PROVE  /\ sender'[r].flagged > 0 => next_rtp_send_time'[r] <= now
                   /\ ~sender'[r].aware =>
                         \/ sender'[r].last_flagged
                         \/ next_rtp_send_time'[r] <= sender'[r].last_sent + KickstartInterval
                   /\ Earlier(next_rtcp_send_time'[r], next_rtp_send_time'[r]) # kNever =>
                        /\ scheduled_task = "SendBurstOfPackets"
                        /\ alarm_time <= Later(now, Later(Earlier(next_rtcp_send_time'[r],
                                                                  next_rtp_send_time'[r]),
                                                          last_burst_time + BurstInterval))
        <4>1. CASE r = s
          BY <2>2, <2>3, <3>1, <3>2, <4>1
        <4>2. CASE r # s
          <5>1. /\ r \in senders /\ sender'[r] = sender[r]
                /\ next_rtcp_send_time'[r] = next_rtcp_send_time[r]
                /\ next_rtp_send_time'[r] = next_rtp_send_time[r]
            BY <2>2, <2>3, <3>3, <3>4, <4>2
          <5> QED
            BY <5>1 DEF IInv, NoSenderForgotten
        <4> QED
          BY <4>1, <4>2
      <3> QED
        BY <2>1, <2>4, <3>5 DEF NoSenderForgotten, alarm_vars
    <2>6. TimesInRange'
      <3>1. NewSender.last_sent = 0
        BY DEF NewSender
      <3> QED
        BY <1>1, <2>1, <2>2, <2>3, <3>1 DEF TimesInRange
    <2>7. LastIsFlagged'
      BY <2>3 DEF IInv, LastIsFlagged, NewSender
    <2>8. AlarmInStep'
      BY <2>1 DEF IInv, AlarmInStep, alarm_vars
    <2>9. ReportsAhead'
      <3>1. ASSUME NEW r \in senders', next_rtcp_send_time'[r] # kImmediately
            PROVE  /\ last_burst_time < next_rtcp_send_time'[r]
                   /\ queued_fire =>
                        next_fire_time <= Later(next_rtcp_send_time'[r],
                                                last_burst_time + BurstInterval)
        <4>1. CASE r = s
          <5>1. last_burst_time < kNever
            BY RangeFacts, ConstantFacts
          <5>2. queued_fire => next_fire_time <= kNever
            BY RangeFacts, ConstantFacts DEF IInv, AlarmInStep
          <5> QED
            BY <2>2, <4>1, <5>1, <5>2, RangeFacts, ConstantFacts DEF Later
        <4>2. CASE r # s
          <5>1. r \in senders /\ next_rtcp_send_time'[r] = next_rtcp_send_time[r]
            BY <1>1, <2>1, <2>2, <4>2, Zenon
          <5> QED
            BY <3>1, <5>1 DEF IInv, ReportsAhead
        <4> QED
          BY <4>1, <4>2
      <3> QED
        BY <2>1, <3>1 DEF ReportsAhead, alarm_vars
    <2> QED
      BY <2>5, <2>6, <2>7, <2>8, <2>9 DEF IInv
  <1>3. CASE OnSenderDestroyed(s)
    <2>1. /\ UNCHANGED <<alarm_vars, now, next_rtcp_send_time, next_rtp_send_time,
                         last_burst_time, sender>>
          /\ senders' = senders \ {s} /\ receiving' \in BOOLEAN
      BY <1>1, <1>3 DEF OnSenderDestroyed, TypeOK
    <2> QED
      BY <1>1, <2>1 DEF IInv, NoSenderForgotten, TypeOK, TimesInRange, LastIsFlagged,
                        AlarmInStep, ReportsAhead, alarm_vars
  <1> QED
    BY <1>2, <1>3

\* What a burst does to one Sender.  Nobody is left with packets and no time: one
\* that the budget does not reach keeps its packets and stays due.
LEMMA BurstOfOneSender ==
  ASSUME IInv, NEW budget \in [RtpDue -> 0 .. MaxPacketsPerBurst], NEW s \in Ssrcs,
         NEW state, state = AfterBurst(budget, s),
         NEW rtp, rtp = IF Reached(budget, s) THEN GetRtpResumeTime(state)
                        ELSE next_rtp_send_time[s]
  PROVE  /\ state \in SenderState
         /\ state.last_sent \in 0 .. now
         /\ state.last_flagged => state.flagged > 0
         /\ rtp \in {kImmediately, kNever} \cup 0 .. (now + KickstartInterval)
         /\ s \in senders =>
              /\ state.flagged > 0 => rtp <= now
              /\ ~state.aware => \/ state.last_flagged
                                 \/ rtp <= state.last_sent + KickstartInterval
  <1> DEFINE old == sender[s]
             sent == Sent(budget, s)
             left == old.flagged - Earlier(sent, old.flagged)
             last_packet_sent == \/ old.last_flagged /\ left = 0
                                 \/ sent > old.flagged
  <1>1. /\ old \in SenderState /\ next_rtp_send_time[s] \in Int
        /\ old.last_sent \in 0 .. now
        /\ old.last_flagged => old.flagged > 0
        /\ next_rtp_send_time[s] \in {kImmediately, kNever} \cup 0 .. (now + KickstartInterval)
    BY Zenon DEF IInv, NoSenderForgotten, TypeOK, TimesInRange, LastIsFlagged
  <1>2. s \in senders =>
              /\ old.flagged > 0 => next_rtp_send_time[s] <= now
              /\ ~old.aware => \/ old.last_flagged
                               \/ next_rtp_send_time[s] <= old.last_sent + KickstartInterval
    BY DEF IInv, NoSenderForgotten
  <1>3. /\ sent \in Nat
        /\ ~Reached(budget, s) => sent = 0
    <2>1. CASE s \in RtpDue
      <3>1. Available(s) \in Nat
        BY <1>1 DEF Available, SenderState
      <3>2. budget[s] \in Nat
        BY <2>1
      <3> QED
        BY <2>1, <3>1, <3>2 DEF Sent, Earlier, Reached
    <2>2. CASE s \notin RtpDue
      BY <2>2 DEF Sent
    <2> QED
      BY <2>1, <2>2
  <1> HIDE DEF sent
  <1>4. /\ old.flagged \in 0 .. MaxFlagged /\ old.last_flagged \in BOOLEAN
        /\ old.last_sent \in Int /\ old.aware \in BOOLEAN
    BY <1>1, Zenon DEF SenderState
  <1>5. state = [flagged |-> left,
                 last_flagged |-> old.last_flagged /\ left > 0,
                 last_sent |-> IF last_packet_sent THEN now ELSE old.last_sent,
                 aware |-> old.aware]
    BY DEF AfterBurst, Left, sent
  <1> HIDE DEF old
  <1>6. left \in 0 .. MaxFlagged /\ left <= old.flagged /\ (sent = 0 => left = old.flagged)
    BY <1>3, <1>4, ConstantFacts DEF Earlier
  <1> HIDE DEF left
  <1>7. last_packet_sent \in BOOLEAN
    OBVIOUS
  <1>8. sent = 0 => ~last_packet_sent
    BY <1>1, <1>4, <1>6
  <1> HIDE DEF last_packet_sent
  <1>9. /\ state.flagged = left /\ state.last_flagged = (old.last_flagged /\ left > 0)
        /\ state.last_sent = (IF last_packet_sent THEN now ELSE old.last_sent)
        /\ state.aware = old.aware
    BY <1>5
  <1>10. state.last_sent \in 0 .. now /\ state.last_sent \in Int
    BY <1>1, <1>9, RangeFacts
  <1>11. state \in SenderState
    BY <1>4, <1>5, <1>6, <1>9, <1>10 DEF SenderState
  <1>12. state.last_flagged => state.flagged > 0
    BY <1>9, Zenon
  <1>13. CASE Reached(budget, s)
    <2>1. rtp = IF left > 0 THEN kImmediately
                ELSE IF old.aware THEN kNever ELSE state.last_sent + KickstartInterval
      BY <1>9, <1>13 DEF GetRtpResumeTime
    <2> QED
      BY <1>6, <1>9, <1>10, <1>11, <1>12, <2>1, RangeFacts, ConstantFacts
  <1>14. CASE ~Reached(budget, s)
    <2>1. sent = 0 /\ left = old.flagged /\ ~last_packet_sent /\ rtp = next_rtp_send_time[s]
      BY <1>3, <1>6, <1>8, <1>14
    <2>2. /\ state.flagged = old.flagged /\ state.last_sent = old.last_sent
          /\ state.last_flagged = old.last_flagged /\ state.aware = old.aware
      BY <1>1, <1>4, <1>9, <2>1
    <2> QED
      BY <1>1, <1>2, <1>10, <1>11, <1>12, <2>1, <2>2
  <1> QED
    BY <1>13, <1>14

\* SendBurstOfPackets() keeps the distance to the burst before it, and leaves an
\* alarm for whoever waits.
LEMMA BurstInvariant ==
  ASSUME IInv, NEW budget \in [RtpDue -> 0 .. MaxPacketsPerBurst], SendBurst(budget)
  PROVE  IInv' /\ now >= last_burst_time + BurstInterval
  <1> DEFINE rtcp == next_rtcp_send_time'
             rtp == next_rtp_send_time'
             t == NextBurstTime(rtcp, rtp, now)
  <1>1. TypeOK /\ TimesInRange /\ LastIsFlagged /\ AlarmInStep
    BY DEF IInv, NoSenderForgotten
  <1>2. /\ rtcp = [s \in Ssrcs |-> IF s \in RtcpDue THEN now + RtcpReportInterval
                                   ELSE next_rtcp_send_time[s]]
        /\ sender' = [s \in Ssrcs |-> AfterBurst(budget, s)]
        /\ rtp = [s \in Ssrcs |-> IF Reached(budget, s) THEN GetRtpResumeTime(sender'[s])
                                  ELSE next_rtp_send_time[s]]
        /\ last_burst_time' = now /\ now' = now /\ senders' = senders
        /\ receiving' = receiving
        /\ ScheduleNextBurst(FALSE, rtcp, rtp, now)
    BY Zenon DEF SendBurst
  <1>3. now >= last_burst_time + BurstInterval
    <2>1. queued_fire /\ now >= alarm_time
      BY RangeFacts DEF SendBurst, Invokes, Fires, IsEarly
    <2> QED
      BY <1>1, <2>1, RangeFacts, ConstantFacts DEF AlarmInStep
  <1>4. ASSUME NEW s \in Ssrcs
        PROVE  /\ rtcp[s] \in {kImmediately, kNever} \cup 0 .. (now + RtcpReportInterval)
               /\ rtcp[s] \in Int
               /\ s \in senders => rtcp[s] > now
    <2>1. /\ rtcp[s] = IF s \in RtcpDue THEN now + RtcpReportInterval
                       ELSE next_rtcp_send_time[s]
          /\ s \in senders /\ s \notin RtcpDue => ~(next_rtcp_send_time[s] <= now)
      BY <1>2 DEF RtcpDue
    <2>2. /\ next_rtcp_send_time[s] \in Int
          /\ next_rtcp_send_time[s] \in
               {kImmediately, kNever} \cup 0 .. (now + RtcpReportInterval)
      BY <1>1 DEF TypeOK, TimesInRange
    <2> QED
      BY <2>1, <2>2, RangeFacts, ConstantFacts
  <1>5. ASSUME NEW s \in Ssrcs
        PROVE  /\ sender'[s] \in SenderState
               /\ sender'[s].last_sent \in 0 .. now
               /\ sender'[s].last_flagged => sender'[s].flagged > 0
               /\ rtp[s] \in {kImmediately, kNever} \cup 0 .. (now + KickstartInterval)
               /\ rtp[s] \in Int
               /\ s \in senders =>
                    /\ sender'[s].flagged > 0 => rtp[s] <= now
                    /\ ~sender'[s].aware =>
                          \/ sender'[s].last_flagged
                          \/ rtp[s] <= sender'[s].last_sent + KickstartInterval
    <2>1. /\ sender'[s] = AfterBurst(budget, s)
          /\ rtp[s] = IF Reached(budget, s) THEN GetRtpResumeTime(sender'[s])
                      ELSE next_rtp_send_time[s]
      BY <1>2, Zenon
    <2>2. /\ sender'[s] \in SenderState
          /\ sender'[s].last_sent \in 0 .. now
          /\ sender'[s].last_flagged => sender'[s].flagged > 0
          /\ rtp[s] \in {kImmediately, kNever} \cup 0 .. (now + KickstartInterval)
          /\ s \in senders =>
                    /\ sender'[s].flagged > 0 => rtp[s] <= now
                    /\ ~sender'[s].aware =>
                          \/ sender'[s].last_flagged
                          \/ rtp[s] <= sender'[s].last_sent + KickstartInterval
      <3> HIDE DEF rtp
      <3> QED
        BY <2>1, BurstOfOneSender, Zenon
    <2> HIDE DEF rtp
    <2>3. \A x \in {kImmediately, kNever} \cup 0 .. (now + KickstartInterval) : x \in Int
      BY RangeFacts, ConstantFacts
    <2> QED
      BY <2>2, <2>3, Zenon
  <1>6. rtcp \in [Ssrcs -> Int] /\ rtp \in [Ssrcs -> Int]
        /\ sender' \in [Ssrcs -> SenderState]
    <2>1. /\ rtcp = [s \in Ssrcs |-> rtcp[s]] /\ rtp = [s \in Ssrcs |-> rtp[s]]
          /\ sender' = [s \in Ssrcs |-> sender'[s]]
      BY <1>2, Zenon
    <2> HIDE DEF rtcp, rtp
    <2> QED
      BY <1>4, <1>5, <2>1, Zenon
  <1> HIDE DEF rtcp, rtp
  <1>7. \A s \in Ssrcs : SendTime(rtcp[s]) /\ SendTime(rtp[s])
    BY <1>4, <1>5, RangeFacts, ConstantFacts DEF SendTime
  <1>8. /\ t \in Int /\ t <= kNever
        /\ t = kNever => \A s \in senders : Earlier(rtcp[s], rtp[s]) = kNever
        /\ t # kNever => /\ t >= now + BurstInterval
                         /\ \A s \in senders :
                              t <= Later(Earlier(rtcp[s], rtp[s]), now + BurstInterval)
    <2>1. now \in Int /\ now + BurstInterval < kNever /\ senders \subseteq Ssrcs
      BY RangeFacts, ConstantFacts
    <2> QED
      BY <1>7, <2>1, NextBurstIsDue
  <1>9. /\ t = kNever => scheduled_task' = NoTask /\ queued_fire' = FALSE
                         /\ alarm_time' = alarm_time /\ next_fire_time' = next_fire_time
        /\ t # kNever => /\ scheduled_task' = "SendBurstOfPackets" /\ queued_fire' = TRUE
                         /\ alarm_time' = Later(now, t) /\ next_fire_time' = alarm_time'
    BY <1>2, Zenon DEF ScheduleNextBurst, ScheduleWithTask
  <1> HIDE DEF t
  <1>10. t # kNever => alarm_time' = t
    BY <1>8, <1>9, RangeFacts, ConstantFacts DEF Later
  <1>11. TypeOK'
    <2>1. scheduled_task' \in ClientTasks \cup {NoTask} /\ queued_fire' \in BOOLEAN
      BY <1>9, PacketRouterAssumption, Zenon
    <2>2. alarm_time' \in Int /\ next_fire_time' \in Int
      BY <1>8, <1>9, <1>10, RangeFacts, Zenon
    <2>3. receiving \in BOOLEAN /\ senders \subseteq Ssrcs /\ now \in Int
      BY <1>1 DEF TypeOK
    <2> QED
      BY <1>2, <1>6, <2>1, <2>2, <2>3, Zenon DEF TypeOK, rtcp, rtp
  <1>12. NoSenderForgotten'
    <2>1. ASSUME NEW s \in senders, Earlier(rtcp[s], rtp[s]) # kNever
          PROVE  /\ scheduled_task' = "SendBurstOfPackets"
                 /\ alarm_time' <= Later(now, Later(Earlier(rtcp[s], rtp[s]),
                                                    now + BurstInterval))
      <3>1. Earlier(rtcp[s], rtp[s]) \in Int
        BY <1>4, <1>5, RangeFacts DEF Earlier
      <3> QED
        BY <1>8, <1>9, <1>10, <2>1, <3>1, RangeFacts, ConstantFacts DEF Later
    <2>2. \A s \in senders : s \in Ssrcs
      BY RangeFacts, Zenon
    <2> QED
      BY <1>2, <1>5, <1>11, <2>1, <2>2, Zenon DEF NoSenderForgotten, rtcp, rtp
  <1>13. TimesInRange'
    <2>1. last_burst_time' \in 0 .. now' /\ now' \in Nat /\ now' + Horizon < kNever
      BY <1>2, RangeFacts
    <2> QED
      BY <1>2, <1>4, <1>5, <2>1, Zenon DEF TimesInRange, rtcp, rtp
  <1>14. LastIsFlagged'
    BY <1>5 DEF LastIsFlagged
  <1>15. AlarmInStep'
    <2>1. CASE t = kNever
      BY <1>9, <2>1, ConstantFacts, Zenon DEF AlarmInStep
    <2>2. CASE t # kNever
      <3>1. t < kNever
        BY <1>8, <2>2, ConstantFacts
      <3>2. /\ next_fire_time' = t /\ alarm_time' = t /\ now' = now
            /\ last_burst_time' = now
        BY <1>2, <1>9, <1>10, <2>2, Zenon
      <3>3. /\ next_fire_time' <= alarm_time' /\ next_fire_time' < kNever
            /\ alarm_time' <= Later(now', next_fire_time')
            /\ now' <= next_fire_time' + MaxLate
            /\ last_burst_time' + BurstInterval <= alarm_time'
        BY <1>8, <2>2, <3>1, <3>2, RangeFacts, ConstantFacts DEF Later
      <3> QED
        BY <1>9, <2>2, <3>3, Zenon DEF AlarmInStep
    <2> QED
      BY <2>1, <2>2
  <1>16. ReportsAhead'
    <2>1. ASSUME NEW s \in senders
          PROVE  /\ now < rtcp[s]
                 /\ queued_fire' => next_fire_time' <= Later(rtcp[s], now + BurstInterval)
      <3>1. /\ s \in Ssrcs /\ rtcp[s] \in Int /\ rtp[s] \in Int /\ now < rtcp[s]
        BY <1>4, <1>5, RangeFacts, Zenon
      <3>2. ASSUME queued_fire'
            PROVE  next_fire_time' <= Later(rtcp[s], now + BurstInterval)
        BY <1>8, <1>9, <1>10, <3>1, <3>2, RangeFacts, ConstantFacts DEF Later, Earlier
      <3> QED
        BY <3>1, <3>2, Zenon
    <2> QED
      BY <1>2, <2>1 DEF ReportsAhead, rtcp
  <1> QED
    BY <1>3, <1>12, <1>13, <1>14, <1>15, <1>16 DEF IInv

\* The clock advances by one, unless the functor in the queue is overdue.
LEMMA TickInvariant ==
  ASSUME IInv, Tick
  PROVE  IInv'
  <1>1. /\ now' = now + 1 /\ now' \in Int /\ now' \in Nat /\ now < now'
        /\ now' + Horizon < kNever
        /\ queued_fire => now' <= next_fire_time + MaxLate
    BY RangeFacts, ConstantFacts DEF Tick
  <1>2. UNCHANGED <<alarm_vars, router_vars>>
    BY Zenon DEF Tick
  <1> USE <1>1, <1>2
  <1>3. TypeOK'
    BY Zenon DEF IInv, NoSenderForgotten, TypeOK, alarm_vars, router_vars
  <1>4. \A s \in Ssrcs : next_rtcp_send_time[s] \in Int /\ next_rtp_send_time[s] \in Int
    BY Zenon DEF IInv, NoSenderForgotten, TypeOK
  <1>5. NoSenderForgotten'
    <2>1. ASSUME NEW s \in senders
          PROVE  LET next == Earlier(next_rtcp_send_time[s], next_rtp_send_time[s])
                 IN  /\ sender[s].flagged > 0 => next_rtp_send_time[s] <= now'
                     /\ ~sender[s].aware =>
                           \/ sender[s].last_flagged
                           \/ next_rtp_send_time[s] <= sender[s].last_sent + KickstartInterval
                     /\ next # kNever =>
                          /\ scheduled_task = "SendBurstOfPackets"
                          /\ alarm_time <= Later(now', Later(next, last_burst_time + BurstInterval))
      <3> DEFINE next == Earlier(next_rtcp_send_time[s], next_rtp_send_time[s])
      <3>1. s \in Ssrcs /\ next \in Int /\ next_rtp_send_time[s] \in Int
        BY <1>4, RangeFacts, Zenon DEF Earlier
      <3>2. /\ sender[s].flagged > 0 => next_rtp_send_time[s] <= now
            /\ ~sender[s].aware =>
                           \/ sender[s].last_flagged
                           \/ next_rtp_send_time[s] <= sender[s].last_sent + KickstartInterval
            /\ next # kNever =>
                          /\ scheduled_task = "SendBurstOfPackets"
                          /\ alarm_time <= Later(now, Later(next, last_burst_time + BurstInterval))
        BY DEF IInv, NoSenderForgotten
      <3> HIDE DEF next
      <3>3. Later(now, Later(next, last_burst_time + BurstInterval))
              <= Later(now', Later(next, last_burst_time + BurstInterval))
        BY <3>1, RangeFacts, ConstantFacts DEF Later
      <3>4. /\ Later(now, Later(next, last_burst_time + BurstInterval)) \in Int
            /\ Later(now', Later(next, last_burst_time + BurstInterval)) \in Int
        BY <3>1, RangeFacts, ConstantFacts DEF Later
      <3>5. alarm_time <= Later(now, Later(next, last_burst_time + BurstInterval))
             => alarm_time <= Later(now', Later(next, last_burst_time + BurstInterval))
        BY <3>3, <3>4, RangeFacts
      <3>6. sender[s].flagged > 0 => next_rtp_send_time[s] <= now'
        BY <3>1, <3>2, RangeFacts
      <3> QED
        BY <3>2, <3>5, <3>6, Zenon DEF next
    <2> QED
      BY <1>3, <2>1, Zenon DEF NoSenderForgotten, alarm_vars, router_vars
  <1>6. TimesInRange'
    <2>1. TimesInRange /\ now \in Int
      BY RangeFacts DEF IInv
    <2>2. last_burst_time = kImmediately \/ last_burst_time \in 0 .. now'
      BY <2>1 DEF TimesInRange
    <2>3. ASSUME NEW s \in Ssrcs
          PROVE  /\ sender[s].last_sent \in 0 .. now'
                 /\ next_rtcp_send_time[s] \in
                      {kImmediately, kNever} \cup 0 .. (now' + RtcpReportInterval)
                 /\ next_rtp_send_time[s] \in
                      {kImmediately, kNever} \cup 0 .. (now' + KickstartInterval)
      BY <2>1, ConstantFacts DEF TimesInRange
    <2> QED
      BY <2>2, <2>3 DEF TimesInRange, router_vars
  <1>7. LastIsFlagged'
    BY DEF IInv, LastIsFlagged, router_vars
  <1>8. AlarmInStep'
    <2>1. AlarmInStep
      BY DEF IInv
    <2>2. alarm_time <= Later(now, next_fire_time) => alarm_time <= Later(now', next_fire_time)
      BY RangeFacts DEF Later
    <2> QED
      BY <2>1, <2>2 DEF AlarmInStep, alarm_vars, router_vars
  <1>9. ReportsAhead'
    BY DEF IInv, ReportsAhead, alarm_vars, router_vars
  <1> QED
    BY <1>5, <1>6, <1>7, <1>8, <1>9 DEF IInv

\* Every step keeps the invariant.
LEMMA StepInvariant ==
  ASSUME IInv, [Next]_vars
  PROVE  IInv'
  <1>1. CASE AtOnce
    BY <1>1, MembershipInvariant, EnqueueInvariant, FeedbackInvariant, BurstInvariant
       DEF AtOnce, SendBurstOfPackets
  <1>2. CASE Tick
    BY <1>2, TickInvariant, Zenon
  <1>3. CASE UNCHANGED vars
    BY <1>3 DEF vars, alarm_vars, router_vars, IInv, NoSenderForgotten, TypeOK,
                TimesInRange, LastIsFlagged, AlarmInStep, ReportsAhead
  <1> QED
    BY <1>1, <1>2, <1>3 DEF Next

\* A router without Senders satisfies the invariant.
LEMMA InitInvariant == Init => IInv
  <1> SUFFICES ASSUME Init PROVE IInv
    OBVIOUS
  <1>1. TypeOK
    <2>1. NewSender \in SenderState /\ 0 \in Int /\ FALSE \in BOOLEAN
      BY ConstantFacts DEF NewSender, SenderState
    <2> QED
      BY <2>1, ConstantFacts, Zenon DEF Init, AlarmInit, TypeOK
  <1>2. TimesInRange
    BY ConstantFacts DEF Init, AlarmInit, TimesInRange, NewSender
  <1>3. LastIsFlagged /\ NoSenderForgotten /\ AlarmInStep /\ ReportsAhead
    BY <1>1, ConstantFacts, Zenon DEF Init, AlarmInit, LastIsFlagged, NewSender,
                               NoSenderForgotten, AlarmInStep, ReportsAhead
  <1> QED
    BY <1>2, <1>3 DEF IInv

-----------------------------------------------------------------------------
(* Theorems *)

\* "RTP sending will continue until the Sender stops providing packet data": no
\* Sender with something to send is ever left without a time and an alarm for it.
THEOREM RouterForgetsNoSender == Spec => []NoSenderForgotten
  <1>1. IInv => NoSenderForgotten
    BY DEF IInv
  <1> QED
    BY <1>1, InitInvariant, StepInvariant, PTL DEF Spec

\* "RTCP sending will repeat at regular intervals": with the TaskRunner late by at
\* most MaxLate, a report is late by less than BurstInterval + MaxLate.
THEOREM RouterRtcpOnTime == Spec => []RtcpOnTime
  <1>1. ASSUME IInv PROVE RtcpOnTime
    <2>1. SUFFICES ASSUME NEW s \in senders, next_rtcp_send_time[s] # kImmediately
                   PROVE  now < next_rtcp_send_time[s] + BurstInterval + MaxLate
      BY DEF RtcpOnTime
    <2>2. /\ s \in Ssrcs /\ next_rtcp_send_time[s] \in Int
          /\ next_rtcp_send_time[s] <= kNever
      BY <1>1, RangeFacts DEF SendTime
    <2>3. CASE next_rtcp_send_time[s] = kNever
      BY <1>1, <2>3, RangeFacts, ConstantFacts
    <2>4. CASE next_rtcp_send_time[s] # kNever
      <3>1. Earlier(next_rtcp_send_time[s], next_rtp_send_time[s]) # kNever
        BY <1>1, <2>2, <2>4, RangeFacts, ConstantFacts DEF Earlier, SendTime
      <3>2. queued_fire
        BY <1>1, <3>1, Zenon DEF IInv, NoSenderForgotten, AlarmInStep
      <3>3. /\ last_burst_time < next_rtcp_send_time[s]
            /\ next_fire_time <= Later(next_rtcp_send_time[s], last_burst_time + BurstInterval)
            /\ now <= next_fire_time + MaxLate
        BY <1>1, <2>1, <3>2 DEF IInv, ReportsAhead, AlarmInStep
      <3> QED
        BY <1>1, <2>2, <3>3, RangeFacts, ConstantFacts DEF Later
    <2> QED
      BY <2>3, <2>4
  <1> QED
    BY <1>1, InitInvariant, StepInvariant, PTL DEF Spec

\* "The minimum amount of time between burst-sends" is kept by every burst.
THEOREM RouterKeepsDistance == Spec => BurstsKeepDistance
  <1>1. ASSUME IInv, [Next]_vars
        PROVE  [SendBurstOfPackets => now >= last_burst_time + BurstInterval]_vars
    BY <1>1, BurstInvariant DEF SendBurstOfPackets
  <1> QED
    BY <1>1, InitInvariant, StepInvariant, PTL DEF Spec, BurstsKeepDistance

\* The firings that AtOnce leaves out never happen: the router never cancels the
\* alarm, and never moves it to a later time than one that has come.
THEOREM RouterNoVainFiring == Spec => []NoVainFiring
  <1>1. ASSUME IInv PROVE NoVainFiring
    <2>1. ASSUME queued_fire, now >= next_fire_time
          PROVE  scheduled_task # NoTask /\ ~(now < alarm_time)
      <3>1. scheduled_task # NoTask /\ alarm_time <= Later(now, next_fire_time)
        BY <1>1, <2>1, ConstantFacts, Zenon DEF IInv, AlarmInStep
      <3> QED
        BY <1>1, <2>1, <3>1, RangeFacts DEF Later
    <2> QED
      BY <2>1 DEF NoVainFiring, Fires, Invokes, IsEarly
  <1> QED
    BY <1>1, InitInvariant, StepInvariant, PTL DEF Spec

-----------------------------------------------------------------------------
(* Alarms with any client *)

\* The inductive invariant.
AlarmInv == AloneTypeOK /\ FiringQueued

\* Later() yields a time that is neither before now nor before the one given.
LEMMA LaterIsLater ==
  ASSUME NEW a \in Int, NEW b \in Int
  PROVE  Later(a, b) \in Int /\ Later(a, b) >= a /\ Later(a, b) >= b
  BY DEF Later

\* Scheduling keeps the invariant and respects the promise, whether a functor is
\* in the queue or not.
LEMMA ScheduleSetsAlarm ==
  ASSUME AlarmInv, NEW queued \in BOOLEAN, NEW task \in ClientTasks,
         NEW desired \in Int, ScheduleWithTask(queued, task, desired)
  PROVE  /\ scheduled_task' \in ClientTasks
         /\ alarm_time' \in Int
         /\ alarm_time' >= now
         /\ queued_fire' = TRUE
         /\ next_fire_time' \in Int
         /\ next_fire_time' <= alarm_time'
  <1>1. now \in Int /\ next_fire_time \in Int
    BY DEF AlarmInv, AloneTypeOK
  <1>2. /\ Later(now, desired) \in Int
        /\ Later(now, desired) >= now
    BY <1>1, LaterIsLater, Zenon
  <1>3. /\ scheduled_task' = task
        /\ alarm_time' = Later(now, desired)
        /\ queued_fire' = TRUE
    BY DEF ScheduleWithTask
  <1>4. next_fire_time' = IF queued /\ FiresInTime(alarm_time')
                          THEN next_fire_time ELSE alarm_time'
    BY <1>3 DEF ScheduleWithTask
  <1>5. next_fire_time' \in Int /\ next_fire_time' <= alarm_time'
    BY <1>1, <1>2, <1>3, <1>4 DEF FiresInTime
  <1> QED
    BY <1>2, <1>3, <1>5

\* Every step keeps the invariant: one case per action.
LEMMA AlarmStepInvariant ==
  ASSUME AlarmInv, [AloneNext]_alone_vars
  PROVE  AlarmInv'
  <1> USE DEF AlarmInv
  <1>1. ASSUME NEW task \in ClientTasks, NEW desired \in Int,
               Schedule(task, desired)
        PROVE  AlarmInv'
    <2>1. queued_fire \in BOOLEAN
      BY DEF AloneTypeOK
    <2> QED
      BY <1>1, <2>1, ScheduleSetsAlarm, Zenon DEF Schedule, AloneTypeOK, FiringQueued
  <1>2. CASE Cancel
    BY <1>2 DEF Cancel, CancelAlarm, AloneTypeOK, FiringQueued
  <1>3. CASE FireWithoutTask
    <2>1. CASE FireForNothing
      BY <1>3, <2>1, Zenon DEF FireWithoutTask, FireForNothing, AloneTypeOK, FiringQueued
    <2>2. CASE FireEarly
      BY <1>3, <2>2 DEF FireWithoutTask, FireEarly, Fires, AloneTypeOK, FiringQueued
    <2> QED
      BY <1>3, <2>1, <2>2 DEF FireWithoutTask
  <1>4. CASE FireAndFinish
    <2>1. last_run' \in ClientTasks \cup {NoTask} /\ runs' \in Nat
      BY <1>4 DEF FireAndFinish, RunTask, AloneTypeOK
    <2> QED
      BY <1>4, <2>1, Zenon
         DEF FireAndFinish, RunTask, Invoked, AloneTypeOK, FiringQueued
  <1>5. ASSUME NEW task \in ClientTasks, NEW desired \in Int,
               FireAndReschedule(task, desired)
        PROVE  AlarmInv'
    <2>1. last_run' \in ClientTasks \cup {NoTask} /\ runs' \in Nat /\ now' \in Int
      BY <1>5 DEF FireAndReschedule, RunTask, AloneTypeOK
    <2>2. /\ scheduled_task' \in ClientTasks /\ alarm_time' \in Int
          /\ queued_fire' = TRUE
          /\ next_fire_time' \in Int /\ next_fire_time' <= alarm_time'
      BY <1>5, ScheduleSetsAlarm, Zenon DEF FireAndReschedule
    <2> QED
      BY <2>1, <2>2, Zenon DEF AloneTypeOK, FiringQueued
  <1>6. CASE AloneTick
    BY <1>6 DEF AloneTick, alarm_vars, AloneTypeOK, FiringQueued
  <1>7. CASE UNCHANGED alone_vars
    BY <1>7 DEF alone_vars, alarm_vars, AloneTypeOK, FiringQueued
  <1> QED
    BY <1>1, <1>2, <1>3, <1>4, <1>5, <1>6, <1>7 DEF AloneNext

\* A new Alarm satisfies the invariant.
LEMMA AlarmInitInvariant == AloneInit => AlarmInv
  <1>1. 0 \in Int /\ 0 \in Nat
    OBVIOUS
  <1> QED
    BY <1>1, Zenon DEF AloneInit, AlarmInit, AlarmInv, AloneTypeOK, FiringQueued

\* "Ensure that a later firing will occur, and not too late."
THEOREM AlarmFiringQueued == AloneSpec => []FiringQueued
  <1>1. AlarmInv => FiringQueued
    BY DEF AlarmInv
  <1> QED
    BY <1>1, AlarmInitInvariant, AlarmStepInvariant, PTL DEF AloneSpec

\* The Alarm runs the task it was last given, at most once and not before its
\* time: it implements the safety part of AlarmPromise.
THEOREM AlarmKeepsSafePromise == AloneSpec => KeepsSafePromise
  <1>1. AloneInit => Promise!Init
    BY DEF AloneInit, AlarmInit, Promise!Init
  <1>2. ASSUME AlarmInv, [AloneNext]_alone_vars
        PROVE  [Promise!Set \/ Promise!Clear \/ Promise!Run \/ Promise!Tick]_(Promise!vars)
    <2> DEFINE Abstract == \/ Promise!Set \/ Promise!Clear \/ Promise!Run
                           \/ Promise!Tick \/ UNCHANGED Promise!vars
    <2>1. ASSUME NEW task \in ClientTasks, NEW desired \in Int,
                 Schedule(task, desired)
          PROVE  Abstract
      <3>1. queued_fire \in BOOLEAN
        BY <1>2 DEF AlarmInv, AloneTypeOK
      <3> QED
        BY <1>2, <2>1, <3>1, ScheduleSetsAlarm, Zenon DEF Schedule, Promise!Set
    <2>2. CASE Cancel
      BY <2>2 DEF Cancel, CancelAlarm, Promise!Clear
    <2>3. CASE FireWithoutTask
      BY <2>3 DEF FireWithoutTask, FireForNothing, FireEarly, Promise!vars
    <2>4. CASE FireAndFinish
      BY <1>2, <2>4 DEF FireAndFinish, RunTask, Invoked, Invokes, IsEarly, AlarmInv,
                        AloneTypeOK, Promise!Run
    <2>5. ASSUME NEW task \in ClientTasks, NEW desired \in Int,
                 FireAndReschedule(task, desired)
          PROVE  Abstract
      <3>1. now >= alarm_time
        BY <1>2, <2>5 DEF FireAndReschedule, RunTask, Invokes, IsEarly, AlarmInv, AloneTypeOK
      <3>2. /\ scheduled_task' \in ClientTasks
            /\ alarm_time' \in Int /\ alarm_time' >= now
        BY <1>2, <2>5, ScheduleSetsAlarm, Zenon DEF FireAndReschedule
      <3> QED
        BY <2>5, <3>1, <3>2, Zenon DEF FireAndReschedule, RunTask, Invokes, Promise!Run
    <2>6. CASE AloneTick
      BY <2>6 DEF AloneTick, alarm_vars, Promise!Tick
    <2>7. CASE UNCHANGED alone_vars
      BY <2>7 DEF alone_vars, alarm_vars, Promise!vars
    <2> QED
      BY <1>2, <2>1, <2>2, <2>3, <2>4, <2>5, <2>6, <2>7 DEF AloneNext
  <1> QED
    BY <1>1, <1>2, AlarmInitInvariant, AlarmStepInvariant, PTL
       DEF AloneSpec, KeepsSafePromise, Promise!Safe
=============================================================================
