------------------------------ MODULE MCLogon ------------------------------
(* A terminal and an NCC that both restart once; superframes wrap at 5.    *)
EXTENDS Logon
=============================================================================
