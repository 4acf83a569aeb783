-------------------------- MODULE MC_OrderWorkflow --------------------------
(***************************************************************************)
(* Three items over two places of the semaphore, two attempts each.        *)
(***************************************************************************)
EXTENDS OrderWorkflow

MCItems == 1..3
MCTwoItems == 1..2
=============================================================================
