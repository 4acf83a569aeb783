------------------------- MODULE PipelineActivities -------------------------
(***************************************************************************)
(* The activities of the labelling pipeline (workflows/order_processor.py, *)
(* lines 100-662), which both the Temporal workflow and POST /advance      *)
(* call: what each answers for a payload, as the set of its possible       *)
(* ActivityOutputs.                                                        *)
(*                                                                         *)
(* Of the payload is kept what the activities read: whether it carries a   *)
(* document's text, PO or PI rows, the fused items (each with the value    *)
(* of its data and the operator's override), the drawings and the composed *)
(* labels by item.  A label is the value it was composed from.             *)
(***************************************************************************)
EXTENDS Naturals, FiniteSets

CONSTANTS
  Items,    \* the items of the order
  Values,   \* what an item's data can say
  Classes,  \* the classes of a document that are told apart
  None      \* a missing key

Fused == [value : Values, override : BOOLEAN]

Payload == [class    : Classes \cup {None},
            text     : BOOLEAN,
            rows     : BOOLEAN,
            fused    : [Items -> Fused \cup {None}],
            drawings : [Items -> Values \cup {None}],
            labels   : [Items -> Values \cup {None}]]

NoPayload == [class |-> None, text |-> FALSE, rows |-> FALSE,
              fused    |-> [i \in Items |-> None],
              drawings |-> [i \in Items |-> None],
              labels   |-> [i \in Items |-> None]]

FusedItems(p) == {i \in Items : p.fused[i] # None}

\* ActivityOutput, without the cost and the wording of the reason.
NewStates == {"INTAKE_CLASSIFIED", "PARSED", "FUSED", "COMPLIANCE_EVAL",
              "DRAWING_GENERATED", "COMPOSED", "VALIDATED", "HUMAN_BLOCKED", "FAILED"}
Output == [success : BOOLEAN, state : NewStates, hitl : BOOLEAN, data : Payload]

ASSUME ValuesAssumption == None \notin Values /\ None \notin Fused /\ None \notin Output

Passed(p, st)  == [success |-> TRUE,  state |-> st, hitl |-> FALSE, data |-> p]
Asks(p, st)    == [success |-> FALSE, state |-> st, hitl |-> TRUE,  data |-> p]
Crashed(p)     == [success |-> FALSE, state |-> "FAILED", hitl |-> FALSE,
                   data |-> p]

\* intake_classify_activity: the payload is replaced by the classification.
\* It has no handler of its own: an agent that raises fails the attempt.
Intake(p) ==
  UNION {LET q == [NoPayload EXCEPT !.class = c]
         IN {Passed(q, "INTAKE_CLASSIFIED"), Asks(q, "HUMAN_BLOCKED")} :
         c \in Classes}

\* parse_document_activity: a payload without text passes.  A purchase order
\* asks exactly when its agent did not succeed; an invoice's agent always
\* succeeds, and a document of another class passes.
Parse(p) ==
  {Passed(p, "PARSED")} \cup
  {o \in {Crashed(p), Asks(p, "PARSED")} :
     p.text /\ \/ p.class = "PURCHASE_ORDER"
               \/ p.class = "PROFORMA_INVOICE" /\ ~o.hitl}

\* fuse_data_activity: with no rows of either document it passes; the agent
\* asks exactly when it fails.
Fuse(p) ==
  IF ~p.rows THEN {Passed(p, "FUSED")}
  ELSE {Crashed(p)} \cup
       UNION {LET q == [p EXCEPT !.fused = f]
              IN {Passed(q, "FUSED"), Asks(q, "FUSED")} :
              f \in [Items -> Fused \cup {None}]}

\* compliance_eval_activity over all fused items; flagged are those some rule
\* fails for (all of them when no rule is loaded).
Compliance(p, flagged) ==
  IF FusedItems(p) = {} THEN {Passed(p, "COMPLIANCE_EVAL")}
  ELSE {Crashed(p),
        IF FusedItems(p) \cap flagged = {} THEN Passed(p, "COMPLIANCE_EVAL")
        ELSE Asks(p, "COMPLIANCE_EVAL")}

\* generate_drawing_activity never fails: what is missing stays missing, and
\* a drawing that is there is never replaced.
Drawing(p, found) ==
  {Passed([p EXCEPT !.drawings = [i \in Items |->
             IF @[i] = None /\ i \in FusedItems(p) THEN found[i] ELSE @[i]]],
          "DRAWING_GENERATED")}

\* compose_label_activity: one label per fused item, kept whether or not some
\* item needs a human.
Compose(p, flagged) ==
  IF FusedItems(p) = {} THEN {Passed(p, "COMPOSED")}
  ELSE LET q == [p EXCEPT !.labels = [i \in Items |->
                    IF p.fused[i] = None THEN None ELSE p.fused[i].value]]
       IN {Crashed(p), IF FusedItems(p) \cap flagged = {} THEN Passed(q, "COMPOSED")
                       ELSE Asks(q, "COMPOSED")}

\* validate_output_activity: every fused item is judged by its label in this
\* payload, unless the operator overrode the verdict.  An item without a
\* label is judged on an empty one.  The validator compares the item's UPC,
\* origin and description with the label's text and looks at the label's
\* barcode, fonts and boxes: accepts has the pairs of a label and of an item's
\* data it finds no fault with, also with a label of older data whose other
\* fields differ.
FaultsOfOrder(p, accepts) ==   \* mutant: one override counts for all items
  {i \in FusedItems(p) : /\ \A j \in FusedItems(p) : ~p.fused[j].override
                         /\ <<p.labels[i], p.fused[i].value>> \notin accepts}
Faults(p, accepts) ==
  {i \in FusedItems(p) : /\ ~p.fused[i].override
                         /\ <<p.labels[i], p.fused[i].value>> \notin accepts}
Validate(p, accepts) ==
  IF FusedItems(p) = {} \/ \A i \in Items : p.labels[i] = None
  THEN {Passed(p, "VALIDATED")}
  ELSE {Crashed(p), IF Faults(p, accepts) = {} THEN Passed(p, "VALIDATED")
                    ELSE Asks(p, "COMPOSED")}
=============================================================================
