--------------------------- MODULE MCNccInterface ---------------------------
(* Two clients of a PEP, one of the SVNO, and carriers of two sizes.       *)
EXTENDS NccInterface, TLC
CONSTANTS p1, p2, s1, sno, premium
MCKind == (p1 :> "pep") @@ (p2 :> "pep") @@ (s1 :> "svno")
MCCarriers == (sno :> <<[rate |-> 4, ratio |-> 1], [rate |-> 1, ratio |-> 2]>>)
                @@ (premium :> <<[rate |-> 4, ratio |-> 1]>>)
Pep(type) == [from |-> "pep", type |-> type]
Svno(type, cat, kbps) == [from |-> "svno", type |-> type, cat |-> cat, kbps |-> kbps]
Nothing == [from |-> "nobody", type |-> "none"]
MCMaxLines == (p1 :> 1) @@ (p2 :> 1) @@ (s1 :> 2)
MCSymNum == (sno :> 2) @@ (premium :> 1)
MCSymDen == (sno :> 1) @@ (premium :> 1)
MCLines == (p1 :> {Pep("allocation")})
             @@ (p2 :> {Pep("release"), Pep("allocation"), Nothing})
             @@ (s1 :> {Svno("allocation", premium, 5), Svno("allocation", premium, 8),
                        Svno("release", premium, 2), Nothing})
=============================================================================
