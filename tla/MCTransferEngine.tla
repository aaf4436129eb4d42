--------------------------- MODULE MCTransferEngine ---------------------------
(***************************************************************************)
(* Instances of TransferEngine for TLC.                                    *)
(***************************************************************************)
EXTENDS TransferEngine, TLC

CONSTANTS a, b, n1, n2, j1, j2

\* Files of one and two chunks; edits between the reads make mixtures.
FewContents == {<<a>>, <<b, a>>}

\* With the empty file.
WithEmpty == {<<>>, <<a>>, <<b, a>>}

EngineSymmetry == Permutations(Names) \cup Permutations(Jobs)
=============================================================================
