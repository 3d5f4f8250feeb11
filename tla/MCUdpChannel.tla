---------------------------- MODULE MCUdpChannel ----------------------------
(***************************************************************************)
(* UdpChannel with one source that sends more datagrams than the sequence  *)
(* byte has values, and another that sends two.                            *)
(***************************************************************************)
EXTENDS UdpChannel, TLC

CONSTANTS ip1, ip2

MCSources == {ip1, ip2}
MCMaxSent == (ip1 :> 9) @@ (ip2 :> 2)
=============================================================================
