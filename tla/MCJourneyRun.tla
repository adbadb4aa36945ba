---------------------------- MODULE MCJourneyRun ----------------------------
(* A journey of two steps, a form and a payment; requests of two tabs.     *)
EXTENDS JourneyRun, TLC

CONSTANTS form, payment, e1, e2, t1, t2, t3

MCSteps == {form, payment}
MCSuccessor == (form :> payment) @@ (payment :> End)
MCExecutes == {e1, e2}
MCTransitions == {t1, t2, t3}
MCSymmetry == Permutations({t1, t2, t3}) \union Permutations({e1, e2})
=============================================================================
