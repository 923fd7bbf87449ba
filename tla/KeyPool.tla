------------------------------ MODULE KeyPool ------------------------------
(***************************************************************************)
(* What a resource pool promises to the tests that use it, with no leases, *)
(* clocks, queues or database rows: a key has at most one user at a time,  *)
(* a user gets it only while nobody uses it, and only that user (or its    *)
(* death) ends the use.                                                    *)
(***************************************************************************)
CONSTANTS Clients, Keys, Nobody

VARIABLE user

Init == user = [k \in Keys |-> Nobody]

Grant(c, k) ==
  /\ user[k] = Nobody
  /\ \A j \in Keys : user[j] # c
  /\ user' = [user EXCEPT ![k] = c]

GiveBack(c, k) ==
  /\ user[k] = c
  /\ user' = [user EXCEPT ![k] = Nobody]

Next == \E c \in Clients, k \in Keys : Grant(c, k) \/ GiveBack(c, k)

Spec == Init /\ [][Next]_user
=============================================================================
