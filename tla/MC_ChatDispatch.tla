--------------------------- MODULE MC_ChatDispatch ---------------------------
(* Small instances of ChatDispatch.                                          *)
EXTENDS ChatDispatch, TLC

\* Dispatches, and workers, are interchangeable: nothing orders or names one.
Symmetry == Permutations(Dispatches) \cup Permutations(Workers)
=============================================================================
