-------------------------- MODULE OrderData_proofs --------------------------
(***************************************************************************)
(* Proofs about OrderData for any items and values: its types, that an     *)
(* item that counts as composed has its label, drawing and approval PDF    *)
(* stored, and that only a label in order is validated.                    *)
(***************************************************************************)
EXTENDS OrderData, TLAPS

\* The rows of one type, with their contents.
Rows(content) == [stored : SUBSET content, newest : content \cup {None}]

\* An item past the fusion is where it last came to, and what it ever came to
\* has left its traces.
Drawn(i)    == line[i].drawings[i] \in sketches[i].stored \cup {None}
Labelled(i) == /\ line[i].labels[i] # None
               /\ line[i].labels[i] \in svgs[i].stored
               /\ \E pdf \in pdfs[i].stored : pdf[i] # None /\ pdf[i].label = line[i].labels[i]
Traced(i) ==
  LET l == line[i] IN
  /\ l.value \notin Values => l.state = "PARSED" /\ l.labels[i] = None
  /\ l.state \in OnPath \ {"FUSED"} => l.last = l.state
  /\ l.last # "FUSED"
  /\ l.last \in {"DRAWING_GENERATED", "COMPOSED", "VALIDATED"} => Drawn(i)
  /\ l.last \in {"COMPOSED", "VALIDATED"} => Labelled(i)

\* The types, with the patches and drawings of every row known.
Types ==
  /\ line \in [Items -> Line]
  /\ inbox \in [Items -> SUBSET OnPath] /\ chats \subseteq Items
  /\ svgs \in [Items -> Rows(Values)] /\ sketches \in [Items -> Rows(Values)]
  /\ pdfs \in [Items -> Rows(Pdf)]
  /\ loop \in 0..4 /\ edits \in 0..MaxEdits

\* The inductive invariant.
OInv == Types /\ \A i \in Items : Traced(i)

-----------------------------------------------------------------------------
(* The parts of a stage.                                                   *)

\* The stages of the path.
LEMMA Path ==
  /\ DataPath[1] = "FUSED" /\ DataPath[2] = "COMPLIANCE_EVAL"
  /\ DataPath[3] = "DRAWING_GENERATED" /\ DataPath[4] = "COMPOSED" /\ DataPath[5] = "VALIDATED"
  /\ OnPath = {"FUSED", "COMPLIANCE_EVAL", "DRAWING_GENERATED", "COMPOSED", "VALIDATED"}
  /\ \A k \in 1..4 : DataPath[k + 1] \in OnPath /\ DataPath[k + 1] # "FUSED"
<1>1. /\ DataPath[1] = "FUSED" /\ DataPath[2] = "COMPLIANCE_EVAL"
      /\ DataPath[3] = "DRAWING_GENERATED" /\ DataPath[4] = "COMPOSED"
      /\ DataPath[5] = "VALIDATED"
  BY DEF DataPath
<1>2. OnPath = {"FUSED", "COMPLIANCE_EVAL", "DRAWING_GENERATED", "COMPOSED", "VALIDATED"}
  <2>1. 1..5 = {1, 2, 3, 4, 5}
    OBVIOUS
  <2> QED BY <1>1, <2>1 DEF OnPath
<1>3. \A k \in 1..4 : DataPath[k + 1] \in OnPath /\ DataPath[k + 1] # "FUSED"
  <2>1. \A k \in 1..4 : k + 1 \in 2..5
    OBVIOUS
  <2>2. \A n \in 2..5 : n = 2 \/ n = 3 \/ n = 4 \/ n = 5
    OBVIOUS
  <2> QED BY <1>1, <1>2, <2>1, <2>2
<1> QED BY <1>1, <1>2, <1>3

\* Storing content keeps what is stored.
LEMMA StoreKeeps ==
  ASSUME NEW S, NEW r \in Rows(S), NEW c \in S
  PROVE  /\ Store(r, c) \in Rows(S) /\ c \in Store(r, c).stored
         /\ r.stored \subseteq Store(r, c).stored
BY DEF Store, Rows

\* The payload of an item, which is fused itself.
LEMMA PayloadType ==
  ASSUME OInv, NEW i \in Items, line[i].state \in OnPath
  PROVE  /\ PayloadOf(i) \in Payload
         /\ PayloadOf(i).fused[i] = [value |-> line[i].value, override |-> line[i].override]
         /\ PayloadOf(i).fused[i] # None /\ i \in FusedItems(PayloadOf(i))
         /\ PayloadOf(i).drawings = line[i].drawings /\ PayloadOf(i).labels = line[i].labels
         /\ line[i].value \in Values
<1>1. \A j \in Items : line[j] \in Line /\ Traced(j)
  BY DEF OInv, Types
<1>2. \A j \in Items : line[j].state \in OnPath =>
        line[j].value \in Values /\ line[j].override \in BOOLEAN
  BY <1>1, Path DEF Traced, Line
<1>3. \A j \in Items : line[j].state \in OnPath =>
        [value |-> line[j].value, override |-> line[j].override] \in Fused
  BY <1>2 DEF Fused
<1>4. FusedPayload \in [Items -> Fused \cup {None}]
  BY <1>3 DEF FusedPayload
<1>5. /\ PayloadOf(i).fused = FusedPayload /\ PayloadOf(i).drawings = line[i].drawings
      /\ PayloadOf(i).labels = line[i].labels
  BY DEF PayloadOf, NoPayload
<1>6. PayloadOf(i) \in Payload
  <2>1. line[i].drawings \in [Items -> Values \cup {None}]
        /\ line[i].labels \in [Items -> Values \cup {None}]
    BY <1>1 DEF Line
  <2> QED BY <1>4, <2>1 DEF PayloadOf, NoPayload, Payload
<1>7. /\ FusedPayload[i] = [value |-> line[i].value, override |-> line[i].override]
      /\ FusedPayload[i] # None
  BY <1>3, ValuesAssumption DEF FusedPayload
<1> QED BY <1>2, <1>5, <1>6, <1>7 DEF FusedItems

\* What a candidate's activity can answer.
LEMMA StageAnswer ==
  ASSUME OInv, NEW k \in 1..4, NEW i \in Candidates(k), NEW out \in StageAnswers(k, PayloadOf(i))
  PROVE  /\ i \in Items /\ out \in Output
         /\ out.success => out.state = DataPath[k + 1]
         /\ ~out.success /\ ~out.hitl => out.state = "FAILED"
         /\ k # 2 => out.data.drawings = line[i].drawings
         /\ k # 3 => out.data.labels = line[i].labels
         /\ k = 3 /\ out.success => out.data.labels[i] = line[i].value
         /\ k = 4 /\ out.success /\ line[i].labels[i] # None =>
              line[i].override \/ <<line[i].labels[i], line[i].value>> \in Accepts
<1> DEFINE p == PayloadOf(i)
<1>1. i \in Items /\ line[i].state = DataPath[k]
  BY DEF Candidates
<1>2. line[i].state \in OnPath
  BY <1>1 DEF OnPath
<1>3. /\ p \in Payload /\ p.fused[i] = [value |-> line[i].value, override |-> line[i].override]
      /\ p.fused[i] # None /\ i \in FusedItems(p)
      /\ p.drawings = line[i].drawings /\ p.labels = line[i].labels /\ line[i].value \in Values
  BY <1>1, <1>2, PayloadType
<1> HIDE DEF p
<1>4. \A q \in Payload, st \in NewStates :
        /\ Passed(q, st) \in Output /\ Passed(q, st).success /\ Passed(q, st).state = st
        /\ Passed(q, st).data = q
        /\ Asks(q, st) \in Output /\ ~Asks(q, st).success /\ Asks(q, st).hitl
        /\ Asks(q, st).data = q
  BY DEF Passed, Asks, Output
<1>5. \A q \in Payload :
        /\ Crashed(q) \in Output /\ ~Crashed(q).success /\ Crashed(q).state = "FAILED"
        /\ Crashed(q).data = q
  BY DEF Crashed, Output, NewStates
<1>6. FusedItems(p) # {}
  BY <1>3
<1>7. out \in StageAnswers(k, p)
  BY DEF p
<1>8. CASE k = 1
  <2>1. PICK flagged \in SUBSET FusedItems(p) : out \in Compliance(p, flagged)
    BY <1>7, <1>8 DEF StageAnswers
  <2>2. out \in {Crashed(p), Passed(p, "COMPLIANCE_EVAL"), Asks(p, "COMPLIANCE_EVAL")}
    BY <1>6, <2>1 DEF Compliance
  <2> QED BY <1>1, <1>3, <1>4, <1>5, <1>8, <2>2, Path DEF NewStates
<1>9. CASE k = 2
  <2> DEFINE q == [p EXCEPT !.drawings = [j \in Items |->
                     IF @[j] = None /\ j \in FusedItems(p) THEN Pictures[j] ELSE @[j]]]
  <2>1. out = Passed(q, "DRAWING_GENERATED")
    BY <1>7, <1>9 DEF StageAnswers, Drawing
  <2>2. Pictures \in [Items -> Values]
    BY <1>3 DEF Pictures
  <2>3. q \in Payload /\ q.labels = p.labels
    BY <1>3, <2>2 DEF Payload
  <2> HIDE DEF q
  <2> QED BY <1>1, <1>3, <1>4, <1>9, <2>1, <2>3, Path DEF NewStates
<1>10. CASE k = 3
  <2>1. PICK flagged \in SUBSET FusedItems(p) : out \in Compose(p, flagged)
    BY <1>7, <1>10 DEF StageAnswers
  <2> DEFINE q == [p EXCEPT !.labels = [j \in Items |->
                     IF p.fused[j] = None THEN None ELSE p.fused[j].value]]
  <2>2. out \in {Crashed(p), Passed(q, "COMPOSED"), Asks(q, "COMPOSED")}
    BY <1>6, <2>1 DEF Compose
  <2>3. q \in Payload /\ q.drawings = p.drawings /\ q.labels[i] = line[i].value
    BY <1>1, <1>3 DEF Payload, Fused
  <2> HIDE DEF q
  <2> QED BY <1>1, <1>3, <1>4, <1>5, <1>10, <2>2, <2>3, Path DEF NewStates
<1>11. CASE k = 4
  <2>1. out \in Validate(p, Accepts)
    BY <1>7, <1>11 DEF StageAnswers
  <2>2. out \in {Crashed(p), Passed(p, "VALIDATED"), Asks(p, "COMPOSED")}
    BY <2>1 DEF Validate
  <2>3. out.success /\ line[i].labels[i] # None => Faults(p, Accepts) = {}
    BY <1>1, <1>3, <1>4, <1>5, <1>6, <2>1 DEF Validate, NewStates
  <2>4. Faults(p, Accepts) = {} =>
          line[i].override \/ <<line[i].labels[i], line[i].value>> \in Accepts
    BY <1>3 DEF Faults
  <2> QED BY <1>1, <1>3, <1>4, <1>5, <1>11, <2>2, <2>3, <2>4, Path DEF NewStates
<1> QED BY <1>8, <1>9, <1>10, <1>11

-----------------------------------------------------------------------------
(* Init and the steps.                                                     *)

\* At first nothing is fused and nothing is stored.
LEMMA OInit_Inv == OInit => OInv
<1> SUFFICES ASSUME OInit PROVE OInv
  OBVIOUS
<1>1. NewLine("PARSED", None) \in Line /\ NoRows \in Rows(Values) /\ NoRows \in Rows(Pdf)
  BY DEF NewLine, NoLabels, Line, NoRows, Rows
<1>2. Types
  BY <1>1, OrderDataAssumption DEF OInit, Types
<1>3. \A i \in Items : line[i].state = "PARSED" /\ line[i].last = None
                       /\ line[i].labels[i] = None
  BY DEF OInit, NewLine, NoLabels
<1>4. None # "FUSED" /\ None # "VALIDATED" /\ None # "DRAWING_GENERATED" /\ None # "COMPOSED"
      /\ "PARSED" \notin OnPath
  BY Path, OrderDataAssumption
<1>5. \A i \in Items : Traced(i)
  BY <1>3, <1>4 DEF Traced
<1> QED BY <1>2, <1>5 DEF OInv

\* An item of which nothing but the data changes keeps its traces.
LEMMA TracesKept ==
  ASSUME NEW i \in Items, Traced(i),
         line'[i].value = line[i].value \/ line'[i].value \in Values,
         line'[i].state = line[i].state, line'[i].last = line[i].last,
         line'[i].labels = line[i].labels, line'[i].drawings = line[i].drawings,
         svgs[i].stored \subseteq svgs'[i].stored,
         sketches[i].stored \subseteq sketches'[i].stored,
         pdfs[i].stored \subseteq pdfs'[i].stored
  PROVE  Traced(i)'
<1>1. Drawn(i) => Drawn(i)'
  BY DEF Drawn
<1>2. Labelled(i) => Labelled(i)'
  BY DEF Labelled
<1> HIDE DEF Drawn, Labelled
<1> QED BY <1>1, <1>2 DEF Traced

\* What a stage makes of a candidate.
LEMMA MergedTraced ==
  ASSUME OInv, NEW k \in 1..4, NEW i \in Candidates(k), NEW out \in StageAnswers(k, PayloadOf(i)),
         line'[i] = Merged(line[i], k, out),
         svgs'[i] = IF k = 3 /\ out.success THEN Store(svgs[i], line'[i].labels[i]) ELSE svgs[i],
         sketches'[i] = IF k = 2 /\ out.success
                        THEN StoreDrawing(sketches[i], line'[i].drawings[i]) ELSE sketches[i],
         pdfs'[i] \in Rows(Pdf), pdfs[i].stored \subseteq pdfs'[i].stored,
         k = 3 /\ out.success =>
           \E pdf \in pdfs'[i].stored : pdf[i] # None /\ pdf[i].label = line'[i].labels[i]
  PROVE  /\ line'[i] \in Line /\ svgs'[i] \in Rows(Values) /\ sketches'[i] \in Rows(Values)
         /\ svgs[i].stored \subseteq svgs'[i].stored
         /\ sketches[i].stored \subseteq sketches'[i].stored
         /\ line'[i].value = line[i].value /\ line'[i].value \in Values
         /\ Traced(i)'
<1> DEFINE l == line[i]
           n == line'[i]
<1>1. /\ i \in Items /\ out \in Output
      /\ out.success => out.state = DataPath[k + 1]
      /\ ~out.success /\ ~out.hitl => out.state = "FAILED"
      /\ k # 2 => out.data.drawings = l.drawings
      /\ k # 3 => out.data.labels = l.labels
      /\ k = 3 /\ out.success => out.data.labels[i] = l.value
  BY StageAnswer
<1>2. /\ l \in Line /\ l.state = DataPath[k] /\ l.state \in OnPath /\ l.value \in Values
      /\ Traced(i) /\ svgs[i] \in Rows(Values) /\ sketches[i] \in Rows(Values)
  BY <1>1, Path DEF OInv, Types, Traced, Candidates, OnPath
<1>3. out.data.drawings \in [Items -> Values \cup {None}]
      /\ out.data.labels \in [Items -> Values \cup {None}]
      /\ out.success \in BOOLEAN /\ out.hitl \in BOOLEAN
  BY <1>1 DEF Output, Payload
<1>4. DataPath[k + 1] \in OnPath /\ DataPath[k + 1] # "FUSED"
  BY Path
<1>5. /\ n.value = l.value /\ n.override = l.override
      /\ n.drawings = out.data.drawings /\ n.labels = out.data.labels
      /\ n.state = (IF out.success THEN out.state
                    ELSE IF out.hitl THEN "HUMAN_BLOCKED" ELSE out.state)
      /\ n.last = (IF out.success THEN out.state ELSE l.last)
      /\ n.blockedAt = (IF out.success THEN None ELSE DataPath[k + 1])
      /\ n = [l EXCEPT !.state = n.state, !.drawings = n.drawings, !.labels = n.labels,
                       !.last = n.last, !.blockedAt = n.blockedAt]
  BY <1>2 DEF Merged, Line
<1> HIDE DEF n
<1>6. n \in Line
  <2>1. n.state \in OnPath \cup {"PARSED", "HUMAN_BLOCKED", "FAILED"}
    BY <1>1, <1>3, <1>4, <1>5
  <2>2. n.last \in OnPath \cup {None} /\ n.blockedAt \in OnPath \cup {None}
    BY <1>1, <1>2, <1>3, <1>4, <1>5 DEF Line
  <2> QED BY <1>2, <1>3, <1>5, <2>1, <2>2 DEF Line
<1>7. /\ sketches'[i] \in Rows(Values) /\ sketches[i].stored \subseteq sketches'[i].stored
      /\ k = 2 /\ out.success => Drawn(i)'
  <2>1. n.drawings[i] \in Values \cup {None}
    BY <1>1, <1>3, <1>5
  <2>2. CASE n.drawings[i] = None
    BY <1>2, <2>2 DEF n, StoreDrawing, Drawn
  <2>3. CASE n.drawings[i] # None
    BY <1>2, <2>1, <2>3, StoreKeeps DEF n, StoreDrawing, Drawn
  <2> QED BY <2>2, <2>3
<1>8. /\ svgs'[i] \in Rows(Values) /\ svgs[i].stored \subseteq svgs'[i].stored
      /\ k = 3 /\ out.success => Labelled(i)'
  <2>1. CASE k = 3 /\ out.success
    <3>1. n.labels[i] = l.value /\ l.value # None
      BY <1>1, <1>2, <1>5, <2>1, ValuesAssumption
    <3> QED BY <1>2, <2>1, <3>1, StoreKeeps DEF n, Labelled
  <2>2. CASE ~(k = 3 /\ out.success)
    BY <1>2, <2>2
  <2> QED BY <2>1, <2>2
<1>9. Traced(i)'
  <2>1. Drawn(i) /\ k # 2 => Drawn(i)'
    BY <1>1, <1>5, <1>7 DEF Drawn, n
  <2>2. Labelled(i) /\ k # 3 => Labelled(i)'
    BY <1>1, <1>5, <1>8 DEF Labelled, n
  <2>3. k # 1 => l.last = DataPath[k]
    BY <1>2, Path DEF Traced
  <2>4. k = 1 \/ k = 2 \/ k = 3 \/ k = 4
    OBVIOUS
  <2>5. out.success \/ (n.last = l.last /\ n.state \in {"HUMAN_BLOCKED", "FAILED"})
    BY <1>1, <1>3, <1>5
  <2>6. "HUMAN_BLOCKED" \notin OnPath /\ "FAILED" \notin OnPath
    BY Path
  <2>7. CASE out.success
    <3>1. n.last = DataPath[k + 1] /\ n.state = DataPath[k + 1]
      BY <1>1, <1>5, <2>7
    <3>2. n.last = CASE k = 1 -> "COMPLIANCE_EVAL" [] k = 2 -> "DRAWING_GENERATED"
                     [] k = 3 -> "COMPOSED" [] k = 4 -> "VALIDATED"
      BY <2>4, <3>1, Path
    <3>3. n.last \in {"DRAWING_GENERATED", "COMPOSED", "VALIDATED"} => Drawn(i)'
      BY <1>2, <1>7, <2>1, <2>3, <2>4, <2>7, <3>2, Path DEF Traced
    <3>4. n.last \in {"COMPOSED", "VALIDATED"} => Labelled(i)'
      BY <1>2, <1>8, <2>2, <2>3, <2>4, <2>7, <3>2, Path DEF Traced
    <3>5. n.value \in Values
      BY <1>2, <1>5
    <3> QED BY <1>4, <3>1, <3>3, <3>4, <3>5 DEF Traced, n
  <2>8. CASE ~out.success
    <3>1. n.last = l.last /\ n.state \in {"HUMAN_BLOCKED", "FAILED"} /\ n.value \in Values
      BY <1>2, <1>5, <2>5, <2>8
    <3>2. n.last \in {"DRAWING_GENERATED", "COMPOSED", "VALIDATED"} => k # 2
      BY <2>3, <3>1, Path
    <3>3. n.last \in {"COMPOSED", "VALIDATED"} => k # 3
      BY <2>3, <3>1, Path
    <3>4. n.last \in {"DRAWING_GENERATED", "COMPOSED", "VALIDATED"} => Drawn(i)'
      BY <1>2, <2>1, <3>1, <3>2 DEF Traced
    <3>5. n.last \in {"COMPOSED", "VALIDATED"} => Labelled(i)'
      BY <1>2, <2>2, <3>1, <3>3 DEF Traced
    <3>6. n.last # "FUSED"
      BY <1>2, <3>1 DEF Traced
    <3> QED BY <2>6, <3>1, <3>4, <3>5, <3>6 DEF Traced, n
  <2> QED BY <1>3, <2>7, <2>8
<1> QED BY <1>2, <1>5, <1>6, <1>7, <1>8, <1>9 DEF n

\* A stage, for all its candidates.
LEMMA StageStep ==
  ASSUME OInv, NEW k \in 1..4, Stage(k)
  PROVE  OInv'
<1>1. PICK outs \in [Candidates(k) -> UNION {StageAnswers(k, PayloadOf(i)) : i \in Candidates(k)}] :
       LET passed  == {i \in Candidates(k) : outs[i].success}
           blocked == {i \in Candidates(k) : outs[i].hitl}
           lines   == [i \in Items |-> IF i \in Candidates(k)
                                       THEN Merged(line[i], k, outs[i]) ELSE line[i]]
           pdf     == ApprovalOf(lines)
       IN /\ \A i \in Candidates(k) : outs[i] \in StageAnswers(k, PayloadOf(i))
          /\ line' = lines
          /\ inbox' = [i \in Items |-> IF i \in blocked
                                       THEN inbox[i] \cup {DataPath[k + 1]} ELSE inbox[i]]
          /\ svgs' = [i \in Items |-> IF k = 3 /\ i \in passed
                                      THEN Store(svgs[i], lines[i].labels[i])
                                      ELSE svgs[i]]
          /\ sketches' = [i \in Items |-> IF k = 2 /\ i \in passed
                                          THEN StoreDrawing(sketches[i], lines[i].drawings[i])
                                          ELSE sketches[i]]
          /\ pdfs' = [i \in Items |-> IF k = 3 /\ passed # {} /\ pdf[i] # None
                                      THEN Store(pdfs[i], pdf) ELSE pdfs[i]]
          /\ loop' = IF passed = Candidates(k) /\ k < 4 THEN k + 1 ELSE 0
  BY DEF Stage
<1> DEFINE passed == {i \in Candidates(k) : outs[i].success}
           pdf    == ApprovalOf(line')
<1>2. /\ \A i \in Candidates(k) : outs[i] \in StageAnswers(k, PayloadOf(i))
      /\ \A i \in Items : line'[i] = IF i \in Candidates(k) THEN Merged(line[i], k, outs[i])
                                     ELSE line[i]
      /\ \A i \in Items : svgs'[i] = IF k = 3 /\ i \in passed
                                     THEN Store(svgs[i], line'[i].labels[i]) ELSE svgs[i]
      /\ \A i \in Items : sketches'[i] = IF k = 2 /\ i \in passed
                                         THEN StoreDrawing(sketches[i], line'[i].drawings[i])
                                         ELSE sketches[i]
      /\ \A i \in Items : pdfs'[i] = IF k = 3 /\ passed # {} /\ pdf[i] # None
                                     THEN Store(pdfs[i], pdf) ELSE pdfs[i]
      /\ DOMAIN line' = Items /\ DOMAIN svgs' = Items /\ DOMAIN sketches' = Items
      /\ DOMAIN pdfs' = Items
      /\ line' = [i \in Items |-> line'[i]] /\ svgs' = [i \in Items |-> svgs'[i]]
      /\ sketches' = [i \in Items |-> sketches'[i]] /\ pdfs' = [i \in Items |-> pdfs'[i]]
  BY <1>1
<1>3. inbox' \in [Items -> SUBSET OnPath] /\ loop' \in 0..4
  <2>1. DataPath[k + 1] \in OnPath
    BY Path
  <2>2. k < 4 => k + 1 \in 0..4
    OBVIOUS
  <2> QED BY <1>1, <2>1, <2>2 DEF OInv, Types
<1>4. \A i \in Items : line[i] \in Line /\ Traced(i) /\ svgs[i] \in Rows(Values)
        /\ sketches[i] \in Rows(Values) /\ pdfs[i] \in Rows(Pdf)
  BY DEF OInv, Types
<1> HIDE DEF pdf
<1>5. pdf \in Pdf /\ \A i \in Candidates(k) : k = 3 /\ i \in passed =>
                        pdf[i] # None /\ pdf[i].label = line'[i].labels[i]
  <2>1. pdf = [i \in Items |-> IF line'[i].labels[i] = None THEN None
                               ELSE [value |-> line'[i].value, label |-> line'[i].labels[i]]]
    BY DEF pdf, ApprovalOf
  <2>2. ASSUME NEW i \in Items
        PROVE  /\ line'[i].labels[i] \in Values \cup {None}
               /\ line'[i].labels[i] # None => line'[i].value \in Values
    <3>1. CASE i \in Candidates(k)
      <4>1. outs[i] \in Output /\ line[i].value \in Values
        <5>1. line[i].state \in OnPath
          BY <3>1, Path DEF Candidates, OnPath
        <5> QED BY <1>2, <3>1, <5>1, StageAnswer, PayloadType
      <4>2. line'[i].labels = outs[i].data.labels /\ line'[i].value = line[i].value
        BY <1>2, <1>4, <3>1 DEF Merged, Line
      <4> QED BY <4>1, <4>2 DEF Output, Payload
    <3>2. CASE i \notin Candidates(k)
      BY <1>2, <1>4, <3>2 DEF Traced, Line
    <3> QED BY <3>1, <3>2
  <2>3. \A i \in Items : line'[i].labels[i] # None =>
          [value |-> line'[i].value, label |-> line'[i].labels[i]] \in Shown
    BY <2>2 DEF Shown
  <2>4. pdf \in Pdf
    BY <2>1, <2>3 DEF Pdf
  <2>5. ASSUME NEW i \in Candidates(k), k = 3, i \in passed
        PROVE  pdf[i] # None /\ pdf[i].label = line'[i].labels[i]
    <3>1. i \in Items /\ line[i].state \in OnPath /\ line[i].value \in Values
      <4>1. i \in Items /\ line[i].state \in OnPath
        BY Path DEF Candidates, OnPath
      <4> QED BY <4>1, PayloadType
    <3>2. outs[i].data.labels[i] = line[i].value
      BY <1>2, <2>5, StageAnswer
    <3>3. line'[i].labels = outs[i].data.labels
      BY <1>2, <1>4, <3>1 DEF Merged, Line
    <3>4. line'[i].labels[i] # None
      BY <3>1, <3>2, <3>3, ValuesAssumption
    <3>5. pdf[i] = [value |-> line'[i].value, label |-> line'[i].labels[i]]
      BY <2>1, <3>1, <3>4
    <3>6. pdf[i] \in Shown
      BY <2>3, <3>1, <3>4, <3>5
    <3>7. pdf[i].label = line'[i].labels[i]
      BY <3>5
    <3>8. pdf[i] # None
      BY <3>6, OrderDataAssumption
    <3> QED BY <3>7, <3>8
  <2> QED BY <2>4, <2>5
<1>6. ASSUME NEW i \in Items
      PROVE  /\ pdfs'[i] \in Rows(Pdf) /\ pdfs[i].stored \subseteq pdfs'[i].stored
             /\ k = 3 /\ i \in passed => pdf \in pdfs'[i].stored
  <2>1. Store(pdfs[i], pdf) \in Rows(Pdf) /\ pdf \in Store(pdfs[i], pdf).stored
        /\ pdfs[i].stored \subseteq Store(pdfs[i], pdf).stored
    BY <1>4, <1>5, StoreKeeps
  <2>2. i \in passed /\ k = 3 => pdf[i] # None
    BY <1>5
  <2> QED BY <1>2, <1>4, <2>1, <2>2
<1>7. ASSUME NEW i \in Items
      PROVE  /\ line'[i] \in Line /\ svgs'[i] \in Rows(Values) /\ sketches'[i] \in Rows(Values)
             /\ Traced(i)'
  <2>1. CASE i \in Candidates(k)
    <3>1. line'[i] = Merged(line[i], k, outs[i]) /\ outs[i] \in StageAnswers(k, PayloadOf(i))
          /\ (i \in passed <=> outs[i].success)
      BY <1>2, <2>1
    <3>2. /\ svgs'[i] = IF k = 3 /\ outs[i].success
                        THEN Store(svgs[i], line'[i].labels[i]) ELSE svgs[i]
          /\ sketches'[i] = IF k = 2 /\ outs[i].success
                            THEN StoreDrawing(sketches[i], line'[i].drawings[i]) ELSE sketches[i]
      BY <1>2, <3>1
    <3>3. k = 3 /\ outs[i].success =>
            \E f \in pdfs'[i].stored : f[i] # None /\ f[i].label = line'[i].labels[i]
      BY <1>5, <1>6, <2>1, <3>1
    <3> HIDE DEF passed
    <3> QED BY <1>6, <2>1, <3>1, <3>2, <3>3, MergedTraced
  <2>2. CASE i \notin Candidates(k)
    <3>1. line'[i] = line[i] /\ svgs'[i] = svgs[i] /\ sketches'[i] = sketches[i]
      BY <1>2, <2>2
    <3> QED BY <1>4, <1>6, <3>1, TracesKept
  <2> QED BY <2>1, <2>2
<1>8. chats' = chats /\ edits' = edits
  BY DEF Stage
<1>9. /\ line' \in [Items -> Line] /\ svgs' \in [Items -> Rows(Values)]
      /\ sketches' \in [Items -> Rows(Values)] /\ pdfs' \in [Items -> Rows(Pdf)]
  BY <1>2, <1>6, <1>7
<1> QED BY <1>3, <1>7, <1>8, <1>9 DEF OInv, Types

\* A call of POST /advance: a released item is again what it last was.
LEMMA AdvanceStep ==
  ASSUME OInv, Advance
  PROVE  OInv'
<1> DEFINE released(i) == line[i].state = "HUMAN_BLOCKED" /\ inbox[i] = {}
           u(i) == [line[i] EXCEPT !.state = Resume(line[i]), !.blockedAt = None]
<1>1. /\ line' = [i \in Items |-> IF released(i) THEN u(i) ELSE line[i]]
      /\ UNCHANGED <<inbox, chats, svgs, sketches, pdfs, edits>> /\ loop' = 1
  BY DEF Advance
<1>2. ASSUME NEW i \in Items
      PROVE  line'[i] \in Line /\ Traced(i)'
  <2>1. line[i] \in Line /\ Traced(i)
    BY DEF OInv, Types
  <2>2. CASE released(i)
    <3>1. Resume(line[i]) \in OnPath
      BY <2>1, Path DEF Resume, Line
    <3>2. line'[i] = u(i)
      BY <1>1, <2>2
    <3>3. /\ u(i) \in Line /\ u(i).state = Resume(line[i]) /\ u(i).value = line[i].value
          /\ u(i).last = line[i].last /\ u(i).labels = line[i].labels
          /\ u(i).drawings = line[i].drawings
      BY <2>1, <3>1 DEF Line
    <3> HIDE DEF u
    <3>4. u(i).last # "FUSED" /\ line[i].value \in Values
      BY <2>1, <2>2, <3>3, Path DEF Traced
    <3>5. u(i).state \in OnPath \ {"FUSED"} => u(i).last = u(i).state
      BY <3>3, <3>4, OrderDataAssumption, Path DEF Resume
    <3>6. (Drawn(i) => Drawn(i)') /\ (Labelled(i) => Labelled(i)')
      BY <1>1, <3>2, <3>3 DEF Drawn, Labelled
    <3> HIDE DEF Drawn, Labelled
    <3> QED BY <2>1, <3>2, <3>3, <3>4, <3>5, <3>6 DEF Traced
  <2>3. CASE ~released(i)
    <3>1. line'[i] = line[i]
      BY <1>1, <2>3
    <3> QED BY <1>1, <2>1, <3>1, TracesKept
  <2> QED BY <2>2, <2>3
<1>3. line' \in [Items -> Line]
  BY <1>1, <1>2
<1>4. /\ loop' \in 0..4
      /\ UNCHANGED <<inbox, chats, svgs, sketches, pdfs, edits>>
  <2>1. loop' = 1 /\ UNCHANGED <<inbox, chats, svgs, sketches, pdfs, edits>>
    BY DEF Advance
  <2>2. 1 \in 0..4
    OBVIOUS
  <2> QED BY <2>1, <2>2
<1> HIDE DEF released, u
<1>5. Types'
  BY <1>3, <1>4 DEF OInv, Types
<1> QED BY <1>2, <1>5 DEF OInv

\* Fusion begins the joined items anew, or stores them back.
LEMMA RefuseStep ==
  ASSUME OInv, NEW S \in SUBSET Items, NEW joined \in [S -> Values \cup {None}],
         NEW success \in BOOLEAN, Refuse(joined, success)
  PROVE  OInv'
<1> DEFINE st == IF success THEN "FUSED" ELSE "HUMAN_BLOCKED"
           kept(i) == [line[i] EXCEPT !.state = st]
<1>1. /\ line' = [i \in Items |-> IF i \notin S THEN line[i]
                                 ELSE IF joined[i] = None THEN kept(i) ELSE NewLine(st, joined[i])]
      /\ \A i \in S : joined[i] = None => line[i].value \in Bare
      /\ UNCHANGED <<inbox, chats, svgs, sketches, pdfs, loop>>
      /\ edits < MaxEdits /\ edits' = edits + 1
  BY DEF Refuse
<1>2. edits' \in 0..MaxEdits
  BY <1>1, OrderDataAssumption DEF OInv, Types
<1>0. st \in {"FUSED", "HUMAN_BLOCKED"}
  OBVIOUS
<1> HIDE DEF st
<1>3. ASSUME NEW i \in Items
      PROVE  line'[i] \in Line /\ Traced(i)'
  <2>1. line[i] \in Line /\ Traced(i)
    BY DEF OInv, Types
  <2>0. /\ None \notin OnPath /\ "HUMAN_BLOCKED" \notin OnPath
        /\ {"FUSED", "DRAWING_GENERATED", "COMPOSED", "VALIDATED"} \subseteq OnPath
    BY Path, OrderDataAssumption
  <2>2. CASE i \in S /\ joined[i] # None
    <3> DEFINE n == NewLine(st, joined[i])
    <3>1. line'[i] = n /\ joined[i] \in Values
      BY <1>1, <2>2
    <3>2. /\ n \in Line /\ n.state \in {"FUSED", "HUMAN_BLOCKED"} /\ n.value = joined[i]
          /\ n.last = None
      BY <1>0, <3>1, Path DEF NewLine, Line, NoLabels
    <3> HIDE DEF n
    <3> QED BY <2>0, <3>1, <3>2 DEF Traced
  <2>3. CASE i \notin S
    <3>1. line'[i] = line[i]
      BY <1>1, <2>3
    <3> QED BY <1>1, <2>1, <3>1, TracesKept
  <2>4. CASE i \in S /\ joined[i] = None
    <3>1. line'[i] = kept(i) /\ line[i].value \in Values
      BY <1>1, <2>4, OrderDataAssumption
    <3>2. /\ kept(i) \in Line /\ kept(i).state = st /\ kept(i).value = line[i].value
          /\ kept(i).last = line[i].last /\ kept(i).labels = line[i].labels
          /\ kept(i).drawings = line[i].drawings
      BY <1>0, <2>0, <2>1 DEF Line
    <3> HIDE DEF kept
    <3>3. (Drawn(i) => Drawn(i)') /\ (Labelled(i) => Labelled(i)')
      BY <1>1, <3>1, <3>2 DEF Drawn, Labelled
    <3> HIDE DEF Drawn, Labelled
    <3> QED BY <1>0, <2>0, <2>1, <3>1, <3>2, <3>3 DEF Traced
  <2> QED BY <2>2, <2>3, <2>4
<1>4. line' \in [Items -> Line]
  BY <1>1, <1>3
<1> QED BY <1>1, <1>2, <1>3, <1>4 DEF OInv, Types

\* A chat's patch or override.
LEMMA EditStep ==
  ASSUME OInv, NEW i \in Items, Override(i) \/ \E v \in Values : Patch(i, v)
  PROVE  OInv'
<1>1. PICK n \in Line :
        /\ line' = [line EXCEPT ![i] = n] /\ n.value \in Values \cup {line[i].value}
        /\ n.state = line[i].state /\ n.last = line[i].last
        /\ n.labels = line[i].labels /\ n.drawings = line[i].drawings
  <2>0. line[i] \in Line
    BY DEF OInv, Types
  <2>1. CASE Override(i)
    <3> DEFINE n == [line[i] EXCEPT !.override = TRUE]
    <3>1. line' = [line EXCEPT ![i] = n]
      BY <2>1 DEF Override
    <3>2. /\ n \in Line /\ n.value = line[i].value /\ n.state = line[i].state
          /\ n.last = line[i].last /\ n.labels = line[i].labels /\ n.drawings = line[i].drawings
      BY <2>0 DEF Line
    <3> HIDE DEF n
    <3> QED BY <3>1, <3>2
  <2>2. ASSUME NEW v \in Values, Patch(i, v)
        PROVE \E n \in Line :
                /\ line' = [line EXCEPT ![i] = n] /\ n.value \in Values \cup {line[i].value}
                /\ n.state = line[i].state /\ n.last = line[i].last
                /\ n.labels = line[i].labels /\ n.drawings = line[i].drawings
    <3> DEFINE n == [line[i] EXCEPT !.value = v]
    <3>1. line' = [line EXCEPT ![i] = n]
      BY <2>2 DEF Patch
    <3>2. /\ n \in Line /\ n.value = v /\ n.state = line[i].state
          /\ n.last = line[i].last /\ n.labels = line[i].labels /\ n.drawings = line[i].drawings
      BY <2>0 DEF Line
    <3> HIDE DEF n
    <3> QED BY <3>1, <3>2
  <2> QED BY <2>1, <2>2
<1>2. /\ UNCHANGED <<inbox, chats, svgs, sketches, pdfs, loop>>
      /\ edits < MaxEdits /\ edits' = edits + 1
  BY DEF Override, Patch
<1>3. edits' \in 0..MaxEdits
  BY <1>2, OrderDataAssumption DEF OInv, Types
<1>4. line' \in [Items -> Line]
  BY <1>1 DEF OInv, Types
<1>5. \A j \in Items : Traced(j)'
  <2> SUFFICES ASSUME NEW j \in Items PROVE Traced(j)'
    OBVIOUS
  <2>1. /\ line'[j].value = line[j].value \/ line'[j].value \in Values
        /\ line'[j].state = line[j].state /\ line'[j].last = line[j].last
        /\ line'[j].labels = line[j].labels /\ line'[j].drawings = line[j].drawings
    BY <1>1 DEF OInv, Types
  <2> QED BY <1>2, <2>1, TracesKept DEF OInv
<1> QED BY <1>2, <1>3, <1>4, <1>5 DEF OInv, Types

\* OInv is inductive.
LEMMA OInvNext == OInv /\ [ONext]_ovars => OInv'
<1>1. ASSUME OInv, UNCHANGED <<line, svgs, sketches, pdfs>>, inbox' \in [Items -> SUBSET OnPath],
             chats' \subseteq Items, loop' = loop, edits' = edits
      PROVE  OInv'
  <2>1. \A i \in Items : Traced(i)'
    BY <1>1 DEF OInv, Traced, Drawn, Labelled
  <2> QED BY <1>1, <2>1 DEF OInv, Types
<1>2. ASSUME OInv, UNCHANGED ovars PROVE OInv'
  BY <1>1, <1>2 DEF ovars, OInv, Types
<1>3. ASSUME OInv, NEW i \in Items, Reply(i) \/ Resolve(i) PROVE OInv'
  <2>1. inbox' \in [Items -> SUBSET OnPath] /\ chats' \subseteq Items
    BY <1>3 DEF Reply, Resolve, OInv, Types
  <2> QED BY <1>1, <1>3, <2>1 DEF Reply, Resolve
<1>4. ASSUME OInv,
             NEW joined \in UNION {[S -> Values \cup {None}] : S \in (SUBSET Items) \ {{}}},
             NEW success \in BOOLEAN, Refuse(joined, success)
      PROVE  OInv'
  <2>1. PICK S \in SUBSET Items : joined \in [S -> Values \cup {None}]
    OBVIOUS
  <2> QED BY <1>4, <2>1, RefuseStep
<1> QED BY <1>2, <1>3, <1>4, AdvanceStep, StageStep, EditStep DEF ONext

\* Every reachable state has what its item's state claims: OInv is inductive.
THEOREM OInvariant == OSpec => []OInv
BY OInit_Inv, OInvNext, PTL DEF OSpec

\* The variables keep their types.
THEOREM OTypeCorrect == OSpec => []OTypeOK
<1>1. OInv => OTypeOK
  BY DEF OInv, Types, OTypeOK, Rows
<1> QED BY <1>1, OInvariant, PTL

\* An item that counts as composed has its label in its data and among its
\* artifacts, its drawing too, and an approval PDF that shows the label,
\* through blocks, replies, patches, forced advances and fusions
\* (_persist_composed_artifacts, _persist_approval_pdf_for_order).
THEOREM ComposedStored == OSpec => []ComposedIsStored
<1>1. OInv => ComposedIsStored
  <2> SUFFICES ASSUME OInv, NEW i \in Items, line[i].state \in {"COMPOSED", "VALIDATED"}
               PROVE  /\ line[i].labels[i] # None
                      /\ line[i].labels[i] \in svgs[i].stored
                      /\ line[i].drawings[i] \in sketches[i].stored \cup {None}
                      /\ \E pdf \in pdfs[i].stored : pdf[i] # None /\ pdf[i].label = line[i].labels[i]
    BY DEF ComposedIsStored
  <2>1. line[i].last = line[i].state
    BY Path DEF OInv, Traced
  <2> QED BY <2>1 DEF OInv, Traced, Drawn, Labelled
<1> QED BY <1>1, OInvariant, PTL

\* An item becomes VALIDATED only with a label that the validator accepts beside
\* its data as it is then, by an operator's override, or again, released from a
\* failed fusion that took it in whole; the early return of
\* validate_output_activity for a payload without labels is never taken.
THEOREM CleanValidated == OSpec => OnlyCleanIsValidated
<1> DEFINE A == \A i \in Items :
                  line[i].state # "VALIDATED" /\ line'[i].state = "VALIDATED" =>
                    \/ line[i].override \/ Released(i)
                    \/ <<line[i].labels[i], line[i].value>> \in Accepts
<1>1. OInv /\ [ONext]_ovars => [A]_ovars
  <2> SUFFICES ASSUME OInv, ONext, NEW i \in Items,
                      line[i].state # "VALIDATED", line'[i].state = "VALIDATED"
               PROVE  \/ line[i].override \/ Released(i)
                      \/ <<line[i].labels[i], line[i].value>> \in Accepts
    OBVIOUS
  <2>1. line[i] \in Line /\ Traced(i)
    BY DEF OInv, Types
  <2>2. CASE Advance
    <3>1. line'[i].state = Resume(line[i]) /\ line[i].state = "HUMAN_BLOCKED"
      BY <2>1, <2>2 DEF Advance, Line
    <3>2. line[i].last = "VALIDATED"
      BY <3>1 DEF Resume
    <3> QED BY <3>1, <3>2 DEF Released
  <2>3. ASSUME NEW k \in 1..4, Stage(k)
        PROVE  line[i].override \/ <<line[i].labels[i], line[i].value>> \in Accepts
    <3>1. PICK outs \in [Candidates(k) -> UNION {StageAnswers(k, PayloadOf(j)) : j \in Candidates(k)}] :
            /\ \A j \in Candidates(k) : outs[j] \in StageAnswers(k, PayloadOf(j))
            /\ line' = [j \in Items |-> IF j \in Candidates(k)
                                        THEN Merged(line[j], k, outs[j]) ELSE line[j]]
      BY <2>3 DEF Stage
    <3>2. i \in Candidates(k) /\ line'[i] = Merged(line[i], k, outs[i])
      BY <2>1, <3>1
    <3>3. line'[i].state = IF outs[i].success THEN outs[i].state
                           ELSE IF outs[i].hitl THEN "HUMAN_BLOCKED" ELSE outs[i].state
      BY <2>1, <3>2 DEF Merged, Line
    <3>4. outs[i].success /\ outs[i].state = DataPath[k + 1]
      BY <2>1, <3>1, <3>2, <3>3, StageAnswer
    <3>5. k = 4 /\ line[i].state = "COMPOSED"
      <4>1. k = 1 \/ k = 2 \/ k = 3 \/ k = 4
        OBVIOUS
      <4>2. k = 4
        BY <3>3, <3>4, <4>1, Path
      <4> QED BY <3>2, <4>2, Path DEF Candidates
    <3>6. line[i].labels[i] # None
      BY <2>1, <3>5, Path DEF Traced, Labelled
    <3> QED BY <3>1, <3>2, <3>4, <3>5, <3>6, StageAnswer
  <2>4. ASSUME NEW joined, NEW success, Refuse(joined, success) PROVE FALSE
    <3> DEFINE st == IF success THEN "FUSED" ELSE "HUMAN_BLOCKED"
    <3>1. /\ line'[i] = line[i] \/ line'[i] = [line[i] EXCEPT !.state = st]
             \/ line'[i] = NewLine(st, joined[i])
          /\ st # "VALIDATED"
      BY <2>4 DEF Refuse
    <3> HIDE DEF st
    <3>2. [line[i] EXCEPT !.state = st].state = st /\ NewLine(st, joined[i]).state = st
      BY <2>1 DEF Line, NewLine
    <3> QED BY <3>1, <3>2
  <2>5. CASE line' = line \/ \E j \in Items : Override(j) \/ \E v \in Values : Patch(j, v)
    <3>1. line'[i].state = line[i].state
      <4>1. CASE line' = line
        BY <4>1
      <4>2. ASSUME NEW j \in Items, Override(j) PROVE line'[i].state = line[i].state
        <5>1. line[j] \in Line /\ line \in [Items -> Line]
          BY DEF OInv, Types
        <5>2. line' = [line EXCEPT ![j] = [line[j] EXCEPT !.override = TRUE]]
          BY <4>2, <5>1 DEF Override
        <5>3. [line[j] EXCEPT !.override = TRUE].state = line[j].state
          BY <5>1 DEF Line
        <5> QED BY <5>1, <5>2, <5>3
      <4>3. ASSUME NEW j \in Items, NEW v \in Values, Patch(j, v)
            PROVE  line'[i].state = line[i].state
        <5>1. line[j] \in Line /\ line \in [Items -> Line]
          BY DEF OInv, Types
        <5>2. line' = [line EXCEPT ![j] = [line[j] EXCEPT !.value = v]]
          BY <4>3, <5>1 DEF Patch
        <5>3. [line[j] EXCEPT !.value = v].state = line[j].state
          BY <5>1 DEF Line
        <5> QED BY <5>1, <5>2, <5>3
      <4> QED BY <2>5, <4>1, <4>2, <4>3
    <3> QED BY <3>1
  <2>6. \A j \in Items : Reply(j) \/ Resolve(j) => line' = line
    BY DEF Reply, Resolve
  <2> QED BY <2>2, <2>3, <2>4, <2>5, <2>6 DEF ONext
<1> QED BY <1>1, OInvariant, PTL DEF OSpec, OnlyCleanIsValidated
=============================================================================
