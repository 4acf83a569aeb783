--------------------------- MODULE MC_RuleVersions ---------------------------
(* Small instances of RuleVersions.                                          *)
EXTENDS RuleVersions, TLC

\* Calls, rows and contents are interchangeable: nothing orders or names one.
Symmetry == Permutations(Calls) \cup Permutations(Rules) \cup Permutations(Logics)
=============================================================================
