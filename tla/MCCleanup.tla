----------------------------- MODULE MCCleanup -----------------------------
(* Two instances that may start at the same time.                          *)
EXTENDS Cleanup, TLC

CONSTANTS i1, i2

MCInstances == {i1, i2}
=============================================================================
