--------------------------- MODULE MCSlottedAloha ---------------------------
(* Terminals that are given the same number of PDUs each.                  *)
EXTENDS SlottedAloha

CONSTANTS t1, t2, Bursts

MCBursts == [t \in Terminals |-> Bursts]
=============================================================================
