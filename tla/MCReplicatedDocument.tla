------------------------ MODULE MCReplicatedDocument ------------------------
(***************************************************************************)
(* Instances of ReplicatedDocument for TLC.                                *)
(***************************************************************************)
EXTENDS ReplicatedDocument, TLC

\* Users type a character, or erase it.
FewTexts == {<<>>, <<1>>}

\* Texts long enough for insertions before, after and between, ties, and
\* deletions that overlap.
ManyTexts == {<<>>, <<1>>, <<2>>, <<1, 2>>, <<2, 1>>, <<1, 2, 1>>}

Symmetry == Permutations(Node) \cup Permutations(Client)

=============================================================================
