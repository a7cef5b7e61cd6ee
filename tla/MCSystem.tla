------------------------------ MODULE MCSystem ------------------------------
(* Symmetry of the runs of the whole system: requests and copies are only compared. *)
EXTENDS System, TLC

Symmetry == Permutations(Requests) \cup Permutations(Copies)

\* UTC and a zone in the east of it.
MCZones == {-1, 0}
=============================================================================
