------------------------ MODULE MCRtpPacketInputter ------------------------
(* RtpPacketInputter with 3-bit sequence numbers and a frame of one tick. *)
EXTENDS RtpPacketInputter

Gaps == {-1, 1, 3}     \* the clock set back, on time, late
=============================================================================
