----------------------------- MODULE MCDelivery ----------------------------
(***************************************************************************)
(* Small instances of Delivery for TLC.                                    *)
(***************************************************************************)
EXTENDS Delivery

CONSTANTS e1, e2, p1, u1, u2

OneEvent == {e1}
TwoEvents == {e1, e2}
OneProcess == {p1}
OneUnit == {u1}
TwoUnits == {u1, u2}
=============================================================================
