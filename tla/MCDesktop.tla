----------------------------- MODULE MCDesktop ------------------------------
(***************************************************************************)
(* DesktopMediaSender with three video frames, and an audio frame that     *)
(* comes before, with, or after them.                                      *)
(***************************************************************************)
EXTENDS DesktopMediaSender

MCPts == [audio |-> {2}, video |-> 1 .. 3]
=============================================================================
