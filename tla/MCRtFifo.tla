------------------------------ MODULE MCRtFifo ------------------------------
(* RtFifo with two producers and one consumer. *)
EXTENDS RtFifo
=============================================================================
