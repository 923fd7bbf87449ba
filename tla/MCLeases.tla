------------------------------ MODULE MCLeases ------------------------------
(* Small instances of LeaseClient: c1 and c2 are processes of one account. *)
EXTENDS LeaseClient, TLC

CONSTANTS c1, c2, c3

MCUser == [c \in Clients |-> IF c = c3 THEN "bob" ELSE "ann"]
MCWants == [c \in Clients |-> Keys]

\* Nothing tells c1 from c2.
Twins == Permutations({c1, c2})
=============================================================================
