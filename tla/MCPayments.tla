----------------------------- MODULE MCPayments -----------------------------
(* Two payments: by providers that name their payments themselves, or under *)
(* references drawn from two.                                               *)
EXTENDS Payments, TLC

CONSTANTS p1, p2, r1, r2

MCPaymentsSet == {p1, p2}
MCRefs == {r1, r2}
MCMixes == {p1 :> "stripe" @@ p2 :> "openbanking",
            p1 :> "realex" @@ p2 :> "banktransfer",
            p1 :> "banktransfer" @@ p2 :> "banktransfer"}
=============================================================================
