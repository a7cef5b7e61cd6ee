----------------------------- MODULE MCDelivery -----------------------------
(* Symmetry of the safety runs: the ids of processes, users and copies are only *)
(* compared.  Event ids are numbers and are not part of it.                     *)
EXTENDS Delivery, TLC

Symmetry ==
  Permutations(Users) \cup Permutations(Schedulers)
    \cup Permutations(Workers) \cup Permutations(Copies)
=============================================================================
