---------------------------- MODULE MCMessageJob ---------------------------
(***************************************************************************)
(* Small instances of MessageJob for TLC: requests for one job that race,  *)
(* and one request for another job that only competes for connections.     *)
(***************************************************************************)
EXTENDS MessageJob, TLC

CONSTANTS j1, j2, r1, r2, r3

OneJob == {j1}
TwoJobs == {j1, j2}
TwoRequests == {r1, r2}
ThreeRequests == {r1, r2, r3}

AllForOne == [r \in Requests |-> j1]
OneApart == [r \in Requests |-> IF r = r3 THEN j2 ELSE j1]

RacingRequests == Permutations({r1, r2})
=============================================================================
