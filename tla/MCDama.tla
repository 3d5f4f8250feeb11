------------------------------- MODULE MCDama -------------------------------
(* A terminal that asks for RBDC and one that asks for VBDC.               *)
EXTENDS Dama
CONSTANTS t1, t2
MCTals == <<t1, t2>>
MCAccess == (t1 :> "DAMA_RBDC") @@ (t2 :> "DAMA_VBDC")
MCSlot == (t1 :> 1) @@ (t2 :> 0)
MCCra == (t1 :> 0) @@ (t2 :> 0)
MCMaxRbdc == (t1 :> 40) @@ (t2 :> 0)
MCMaxVbdc == (t1 :> 0) @@ (t2 :> 2)
MCMacSize == (t1 :> 1) @@ (t2 :> 3)
MCPepRequests == {[st |-> t2, cra |-> 10, rbdc_max |-> 40, rbdc |-> 30]}
=============================================================================
