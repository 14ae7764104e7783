--------------------------- MODULE MCPacketRouter ---------------------------
(***************************************************************************)
(* PacketRouter with a bounded clock.                                      *)
(***************************************************************************)
EXTENDS PacketRouter

CONSTANT MaxTime

MCImmediately == -2
MCTasks == {"SendBurstOfPackets"}

MCTick == now < MaxTime /\ Tick

MCSpec == Init /\ [][AtOnce \/ MCTick]_vars
=============================================================================
