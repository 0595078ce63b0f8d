------------------------------ MODULE MCAccess ------------------------------
(***************************************************************************)
(* Requests in flight and lookups in flight are interchangeable.           *)
(***************************************************************************)
EXTENDS Access, TLC

Interchangeable == Permutations(Slots) \cup Permutations(Lookups)

=============================================================================
