---------------------------- MODULE MCScheduler ----------------------------
(***************************************************************************)
(* A small instance of Scheduler for TLC: two tasks, and two processes     *)
(* with as many units of work in flight, so that units of one process and  *)
(* of two overlap.  No symmetry: the run checks liveness.                  *)
(***************************************************************************)
EXTENDS Scheduler

CONSTANTS e1, e2, p1, p2, u1, u2

TwoEvents == {e1, e2}
TwoProcesses == {p1, p2}
TwoUnits == {u1, u2}
=============================================================================
