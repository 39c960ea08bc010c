--------------------------- MODULE MCNodeStorage ---------------------------
(***************************************************************************)
(* Instances of NodeStorage for TLC.                                       *)
(***************************************************************************)
EXTENDS NodeStorage, TLC

Symmetry == Permutations(Entry) \cup Permutations(Candidate)

============================================================================
