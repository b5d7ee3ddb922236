-------------------------- MODULE MCThreadsafeRing --------------------------
(***************************************************************************)
(* Instances of ThreadsafeRing for TLC.  "abc..." stands for a message     *)
(* longer than MAX_PACKET, which strscpy cuts to "abc".  Whether a pop     *)
(* finds a packet does not depend on the message, so the run with two      *)
(* consumers has one.                                                      *)
(***************************************************************************)
EXTENDS ThreadsafeRing

MCPackets == {"", "abc", "abc..."}
MCClip == [m \in MCPackets |-> IF m = "abc..." THEN "abc" ELSE m]

MCOnePacket == {""}
MCOneClip == [m \in MCOnePacket |-> m]
=============================================================================
