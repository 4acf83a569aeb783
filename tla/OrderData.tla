------------------------------ MODULE OrderData ------------------------------
(***************************************************************************)
(* What POST /advance does to the data of an order's items                 *)
(* (api/v1/orders.py), with the activities of PipelineActivities: which    *)
(* labels an item carries, which artifacts are stored for it, and what the *)
(* next stage makes of them.  Calls are served one after the other here:   *)
(* OrderPipeline has their interleavings, and abstracts the data.          *)
(***************************************************************************)
EXTENDS PipelineActivities

CONSTANTS
  Accepts,   \* the labels the validator accepts, each with the data beside it
  Bare,      \* the values without a field the fusion sorts by
  MaxEdits   \* bound on fusions, patches and overrides

VARIABLES
  line,       \* the OrderItemModel row of each item
  inbox,      \* the stages an item has an OPEN thread for
  chats,      \* the items with a thread that is IN_PROGRESS
  svgs,       \* the die_cut_svg artifacts of each item
  sketches,   \* the line_drawing artifacts of each item
  pdfs,       \* the approval_pdf artifacts of each item
  loop,       \* the stage POST /advance is at, 0 when no call is served
  edits       \* the edits made so far

ovars == <<line, inbox, chats, svgs, sketches, pdfs, loop, edits>>

-----------------------------------------------------------------------------
DataPath == <<"FUSED", "COMPLIANCE_EVAL", "DRAWING_GENERATED", "COMPOSED",
              "VALIDATED">>
OnPath == {DataPath[k] : k \in 1..5}

\* item.data, and the state: the value stands for all the fused data.
Line == [state : OnPath \cup {"PARSED", "HUMAN_BLOCKED", "FAILED"},
         value : Values \cup {None}, override : BOOLEAN,
         drawings : [Items -> Values \cup {None}],
         labels : [Items -> Values \cup {None}],
         last : OnPath \cup {None}, blockedAt : OnPath \cup {None}]

NoLabels == [i \in Items |-> None]
NewLine(st, v) == [state |-> st, value |-> v, override |-> FALSE,
                   drawings |-> NoLabels, labels |-> NoLabels,
                   last |-> None, blockedAt |-> None]

\* The Artifact rows of one type of an item: the contents stored, and the
\* one of the newest row, which GET streams (_latest_artifact).
NoRows == [stored |-> {}, newest |-> None]

\* An approval PDF is the data and the label of every composed item.
Shown == [value : Values, label : Values]
Pdf   == [Items -> Shown \cup {None}]

ASSUME OrderDataAssumption ==
  /\ Accepts \subseteq Values \X Values /\ Bare \subseteq Values /\ MaxEdits \in Nat
  /\ None \notin OnPath /\ None \notin Shown

OInit ==
  /\ line = [i \in Items |-> NewLine("PARSED", None)]
  /\ inbox = [i \in Items |-> {}] /\ chats = {}
  /\ svgs = [i \in Items |-> NoRows] /\ sketches = [i \in Items |-> NoRows]
  /\ pdfs = [i \in Items |-> NoRows]
  /\ loop = 0 /\ edits = 0

-----------------------------------------------------------------------------
\* _persist_composed_artifacts and _persist_approval_pdf_for_order: content
\* that some row has already is not stored again.
StoreOnce(r, content) ==    \* mutant: one row of a type per item
  IF r.stored # {} THEN r ELSE [stored |-> {content}, newest |-> content]
Store(r, content) ==
  IF content \in r.stored THEN r
  ELSE [stored |-> r.stored \cup {content}, newest |-> content]

\* _persist_line_drawing: likewise, when there is a drawing at all.
StoreDrawing(r, drawing) == IF drawing = None THEN r ELSE Store(r, drawing)

\* The fused items every candidate's activity is given, as they are when the
\* stage starts.
FusedPayload ==
  [i \in Items |-> IF line[i].state \in OnPath
                   THEN [value |-> line[i].value, override |-> line[i].override]
                   ELSE None]

PayloadOf(i) == [NoPayload EXCEPT !.fused = FusedPayload,
                                  !.drawings = line[i].drawings,
                                  !.labels = line[i].labels]

\* The documents have a picture of every product.
Pictures == [i \in Items |-> CHOOSE v \in Values : TRUE]

StageAnswers(k, p) ==
  CASE k = 1 -> UNION {Compliance(p, flagged) : flagged \in SUBSET FusedItems(p)}
    [] k = 2 -> Drawing(p, Pictures)
    [] k = 3 -> UNION {Compose(p, flagged) : flagged \in SUBSET FusedItems(p)}
    [] k = 4 -> Validate(p, Accepts)

Candidates(k) == {i \in Items : line[i].state = DataPath[k]}

\* What an item becomes with the answer of its activity: the payload returned
\* is merged into its data, whatever the answer.
Merged(l, k, out) ==
  [l EXCEPT
     !.state = IF out.success THEN out.state
               ELSE IF out.hitl THEN "HUMAN_BLOCKED" ELSE out.state,
     !.drawings = out.data.drawings,
     !.labels = out.data.labels,
     !.last = IF out.success THEN out.state ELSE @,
     !.blockedAt = IF out.success THEN None ELSE DataPath[k + 1]]

\* The approval PDF of the order: the items with a label of their own in
\* their data, whatever state they are in.
ApprovalOf(lines) ==
  [i \in Items |-> IF lines[i].labels[i] = None THEN None
                   ELSE [value |-> lines[i].value, label |-> lines[i].labels[i]]]

\* One stage for all its candidates.  When one of them blocks or fails the
\* loop stops; otherwise the next stage follows.
Stage(k) ==
  /\ loop = k
  /\ \E outs \in [Candidates(k) -> UNION {StageAnswers(k, PayloadOf(i)) : i \in Candidates(k)}] :
       LET passed  == {i \in Candidates(k) : outs[i].success}
           blocked == {i \in Candidates(k) : outs[i].hitl}
           lines   == [i \in Items |-> IF i \in Candidates(k)
                                       THEN Merged(line[i], k, outs[i]) ELSE line[i]]
           pdf     == ApprovalOf(lines)
       IN /\ \A i \in Candidates(k) : outs[i] \in StageAnswers(k, PayloadOf(i))
          /\ line' = lines
          /\ inbox' = [i \in Items |-> IF i \in blocked
                                       THEN inbox[i] \cup {DataPath[k + 1]} ELSE inbox[i]]
          /\ svgs' = [i \in Items |-> IF k = 3 /\ i \in passed
                                      THEN Store(svgs[i], lines[i].labels[i])
                                      ELSE svgs[i]]
          /\ sketches' = [i \in Items |-> IF k = 2 /\ i \in passed
                                          THEN StoreDrawing(sketches[i], lines[i].drawings[i])
                                          ELSE sketches[i]]
          /\ pdfs' = [i \in Items |-> IF k = 3 /\ passed # {} /\ pdf[i] # None
                                      THEN Store(pdfs[i], pdf) ELSE pdfs[i]]
          /\ loop' = IF passed = Candidates(k) /\ k < 4 THEN k + 1 ELSE 0
  /\ UNCHANGED <<chats, edits>>

\* A call of POST /advance (with force): first the blocked items without an
\* OPEN thread go back to where they were.
Resume(l) == IF l.last = None THEN "FUSED" ELSE l.last
Advance ==
  /\ loop = 0
  /\ line' = [i \in Items |->
       IF line[i].state = "HUMAN_BLOCKED" /\ inbox[i] = {}
       THEN [line[i] EXCEPT !.state = Resume(line[i]), !.blockedAt = None]
       ELSE line[i]]
  /\ loop' = 1
  /\ UNCHANGED <<inbox, chats, svgs, sketches, pdfs, edits>>

\* _run_fusion gives the items it joined new data in place of all they held;
\* an item that goes to both sides whole is stored back as it was, with its
\* labels and with the markers of where it came to.  All get one state.
Refuse(joined, success) ==
  LET st == IF success THEN "FUSED" ELSE "HUMAN_BLOCKED" IN
  /\ loop = 0 /\ edits < MaxEdits
  /\ \A i \in DOMAIN joined : joined[i] = None => line[i].value \in Bare
  /\ line' = [i \in Items |->
       IF i \notin DOMAIN joined THEN line[i]
       ELSE IF joined[i] = None THEN [line[i] EXCEPT !.state = st]
       ELSE NewLine(st, joined[i])]
  /\ edits' = edits + 1
  /\ UNCHANGED <<inbox, chats, svgs, sketches, pdfs, loop>>

\* A chat patches an item whose thread is IN_PROGRESS, whatever state the
\* item is in: new data, or validation_override.
Patch(i, v) ==
  /\ loop = 0 /\ edits < MaxEdits /\ i \in chats
  /\ line' = [line EXCEPT ![i].value = v]
  /\ edits' = edits + 1
  /\ UNCHANGED <<inbox, chats, svgs, sketches, pdfs, loop>>
Override(i) ==
  /\ loop = 0 /\ edits < MaxEdits /\ i \in chats
  /\ line' = [line EXCEPT ![i].override = TRUE]
  /\ edits' = edits + 1
  /\ UNCHANGED <<inbox, chats, svgs, sketches, pdfs, loop>>

\* The operator replies, or closes the item's threads (HitlThread has the
\* details): either way none is OPEN.
Reply(i) ==
  /\ loop = 0 /\ inbox[i] # {}
  /\ inbox' = [inbox EXCEPT ![i] = {}] /\ chats' = chats \cup {i}
  /\ UNCHANGED <<line, svgs, sketches, pdfs, loop, edits>>
Resolve(i) ==
  /\ loop = 0 /\ (inbox[i] # {} \/ i \in chats)
  /\ inbox' = [inbox EXCEPT ![i] = {}] /\ chats' = chats \ {i}
  /\ UNCHANGED <<line, svgs, sketches, pdfs, loop, edits>>

ONext ==
  \/ Advance
  \/ \E k \in 1..4 : Stage(k)
  \/ \E i \in Items : \/ Override(i) \/ Reply(i) \/ Resolve(i)
                      \/ \E v \in Values : Patch(i, v)
  \/ \E joined \in UNION {[S -> Values \cup {None}] : S \in (SUBSET Items) \ {{}}}, success \in BOOLEAN :
       Refuse(joined, success)

OSpec == OInit /\ [][ONext]_ovars

-----------------------------------------------------------------------------
\* The types of the variables.
OTypeOK ==
  /\ line \in [Items -> Line]
  /\ inbox \in [Items -> SUBSET OnPath] /\ chats \subseteq Items
  /\ \A i \in Items : /\ svgs[i].stored \cup sketches[i].stored \subseteq Values
                      /\ pdfs[i].stored \subseteq Pdf
  /\ loop \in 0..4 /\ edits \in 0..MaxEdits

\* Whatever blocks, is patched, released or fused again, an item that counts
\* as composed has the label it was composed with in its data and among its
\* artifacts, the drawing it carries among them too, and an approval PDF that
\* shows it: the preview never answers "not generated" for it.
ComposedIsStored ==
  \A i \in Items :
    line[i].state \in {"COMPOSED", "VALIDATED"} =>
      /\ line[i].labels[i] # None
      /\ line[i].labels[i] \in svgs[i].stored
      /\ line[i].drawings[i] \in sketches[i].stored \cup {None}
      /\ \E pdf \in pdfs[i].stored : pdf[i] # None /\ pdf[i].label = line[i].labels[i]

\* An item becomes VALIDATED only with a label that the validator accepts
\* beside its present data, unless an operator overrode the verdict, or it was
\* VALIDATED before, a failed fusion took it in whole, and it is released to
\* where it was; the early return for an item without labels is never taken.
Released(i) == line[i].state = "HUMAN_BLOCKED" /\ line[i].last = "VALIDATED"
OnlyCleanIsValidated ==
  [][\A i \in Items :
       line[i].state # "VALIDATED" /\ line'[i].state = "VALIDATED" =>
         \/ line[i].override \/ Released(i)
         \/ <<line[i].labels[i], line[i].value>> \in Accepts]_ovars

\* That the label of an item that becomes VALIDATED was composed from its data
\* is violated: a chat may patch quantities and box sizes after the composition
\* (agents/chat_handlers.py:37-43), which the validator does not look for.
ValidatedIsComposed ==
  [][\A i \in Items :
       line[i].state # "VALIDATED" /\ line'[i].state = "VALIDATED" =>
         line[i].override \/ line[i].labels[i] = line[i].value]_ovars

\* item_artifacts.py:183, GET /items/{id}/diecut-svg returns "the latest
\* die-cut SVG for an item": that of its last composition.
PreviewIsCurrent ==
  \A i \in Items :
    line[i].state \in {"COMPOSED", "VALIDATED"} => svgs[i].newest = line[i].labels[i]

\* order_processor.py:630-635, a failing validation of an item with an
\* operator's override is treated "as a passing one": the item is not blocked
\* for it.
OverrideIsAccepted ==
  [][\A i \in Items :
       line[i].state = "COMPOSED" /\ line[i].override =>
         line'[i].state # "HUMAN_BLOCKED"]_ovars

=============================================================================
