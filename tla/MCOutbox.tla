------------------------------ MODULE MCOutbox ------------------------------
(* An import that invites two people, and two messages, with a pool of     *)
(* three connections.                                                      *)
EXTENDS Outbox, TLC

CONSTANTS i, s1, s2, m1, m2, m3, m4

MCRequests == {i, s1, s2}
MCInvitations == {i}
MCMessages == {m1, m2, m3, m4}
MCBatch == i :> {m1, m2} @@ s1 :> {m3} @@ s2 :> {m4}
=============================================================================
