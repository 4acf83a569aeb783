-------------------------- MODULE MC_OrderPipeline --------------------------
(* Small instances of OrderPipeline.                                        *)
EXTENDS OrderPipeline, TLC

\* Calls are interchangeable: no definition orders or names one.
Symmetry == Permutations(Sessions)
=============================================================================
