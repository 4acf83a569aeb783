---------------------------- MODULE PipelineItem ----------------------------
(***************************************************************************)
(* What the order pipeline promises for one item when the calls for its    *)
(* order do not overlap (STATE_TRANSITIONS in workflows/order_processor.py *)
(* as api/v1/orders.py applies it): it moves along the stages in order, a  *)
(* block names its stage, only a block opens a thread, and an item is      *)
(* released only when no OPEN thread is left, to redo the stage that       *)
(* blocked it.  One step may cover several stages: a call commits once.    *)
(***************************************************************************)
EXTENDS Naturals

CONSTANTS
  Path,    \* the states of the pipeline in order
  None,    \* a missing value
  whole    \* whether a fusion may take the item in whole, markers included

VARIABLES
  state,   \* the item's state
  block,   \* the stage that blocked or failed it, or None
  open,    \* the stages with an OPEN thread for it
  fusing   \* whether a fusion of the order has a result to store

item == <<state, block, open, fusing>>

Stages == 1..4

Init ==
  /\ state \in {"PARSED", "FUSED"}
  /\ block = None
  /\ open = {}
  /\ fusing = FALSE

Advance ==
  /\ \E k \in Stages : \E m \in 1..k : state = Path[m] /\ state' = Path[k + 1]
  /\ block' = None
  /\ UNCHANGED <<open, fusing>>

\* The thread of the block may already be closed when the block is stored.
Block ==
  \E k \in Stages \ {2} :
    /\ \E m \in 1..k : state = Path[m]
    /\ state' = "HUMAN_BLOCKED"
    /\ block' = k
    /\ open' \in {open, open \cup {k}}
    /\ UNCHANGED fusing

Fail ==
  /\ \E k \in Stages : state = Path[k]
  /\ state' = "FAILED"
  /\ block' \in Stages \cup {None}
  /\ UNCHANGED <<open, fusing>>

\* An item blocked without a stage was blocked by the fusion.  One a fusion
\* took in whole resumes at the state it last reached, before the fusion or
\* since.
Release ==
  /\ state = "HUMAN_BLOCKED"
  /\ open = {}
  /\ \/ state' = IF block = None THEN "FUSED" ELSE Path[block]
     \/ whole /\ \E k \in 1..5 : state' = Path[k]
  /\ block' = None
  /\ UNCHANGED <<open, fusing>>

\* A fusion stores its result whatever state the item is in; the items the
\* agent did not match stay as they are.
StartFusion == ~fusing /\ fusing' /\ UNCHANGED <<state, block, open>>
Fuse ==
  /\ fusing /\ ~fusing'
  /\ \/ state' \in {"FUSED", "HUMAN_BLOCKED"} /\ block' \in {None} \cup (IF whole THEN {block} ELSE {})
     \/ UNCHANGED <<state, block>>
  /\ UNCHANGED open

Decide ==
  /\ state' \in {"DELIVERED", "INTAKE_CLASSIFIED"}
  /\ UNCHANGED <<block, open, fusing>>

Answer ==
  /\ \E k \in open : open' = open \ {k}
  /\ UNCHANGED <<state, block, fusing>>

Next == Advance \/ Block \/ Fail \/ Release \/ StartFusion \/ Fuse \/ Decide \/ Answer

Spec == Init /\ [][Next]_item
=============================================================================
