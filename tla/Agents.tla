------------------------------- MODULE Agents -------------------------------
(***************************************************************************)
(* The agents that read documents (agents/intake_classifier.py,            *)
(* po_parser.py, pi_parser.py, fusion.py, protocol_analyzer.py,            *)
(* warning_label_parser.py, checklist_extractor.py): each takes an input,  *)
(* asks the language model, checks what it answered and returns a result   *)
(* that is accepted, or asks a human, or raises.  Confidences are in       *)
(* hundredths.  What a model answers is a choice from a small set; Prose   *)
(* is an answer that is not JSON, Shapeless one that is of another shape.  *)
(***************************************************************************)
EXTENDS Integers, Sequences, FiniteSets

CONSTANTS Certainties,   \* the confidences a model may state, in hundredths
          ItemNumbers,       \* item numbers
          Unset,         \* None
          Prose, Shapeless, Raised

ASSUME CertaintiesAssumption == Certainties \subseteq Int /\ IsFiniteSet(ItemNumbers)

VARIABLES
  errand,     \* which agent is called, with what, and what its model answers
  outcome   \* the AgentResult, or Unset, or Raised
gvars == <<errand, outcome>>

Least(a, b) == IF a < b THEN a ELSE b
Most(a, b)  == IF a > b THEN a ELSE b
Clamp(c)    == Most(0, Least(100, c))

Asked(success, confidence, hitl, data) ==
  [success |-> success, confidence |-> confidence, hitl |-> hitl, data |-> data]

-----------------------------------------------------------------------------
(* Classification of an uploaded document.                                 *)
FileNames   == {"invoice", "warnings", "nothing"}
IntakeCalls ==
  [agent : {"intake"}, name : FileNames,
   says : {Prose, Shapeless} \cup [class : {"known", "alien"}, confidence : Certainties]]

\* _classify_by_filename, the fallback.
ByName(name) == CASE name = "invoice"  -> [class |-> "known", confidence |-> 60]
                  [] name = "warnings" -> [class |-> "known", confidence |-> 55]
                  [] name = "nothing"  -> [class |-> "unknown", confidence |-> 0]

\* _parse_classification: a class that is not one of the five is UNKNOWN, and
\* then not to be trusted.
ParseTrusting(a) == [class |-> IF a.class = "known" THEN "known" ELSE "unknown",
                     confidence |-> Clamp(a.confidence)]   \* mutant: but it is
Parsed(a) == IF a.class = "known" THEN [class |-> "known", confidence |-> Clamp(a.confidence)]
             ELSE [class |-> "unknown", confidence |-> Clamp(Least(a.confidence, 30))]

ClassifyDocument(t) ==
  IF t.says = Shapeless THEN Raised    \* .get of a list is not caught
  ELSE LET c == IF t.says = Prose THEN ByName(t.name) ELSE Parsed(t.says)
       IN Asked(c.confidence >= 70, c.confidence, c.confidence < 70, c)

-----------------------------------------------------------------------------
(* Extraction from an importer's documents: protocol, warning labels and   *)
(* checklist.  found is how many labels or rules, whole that none of them  *)
(* (or no section of the protocol) is missing a part.                      *)
Extractors == {"protocol", "warnings", "checklist"}
ExtractCalls ==
  [agent : Extractors,
   says : {Prose} \cup [found : {0, 1}, whole : BOOLEAN, confidence : Certainties]]

Threshold(x) == CASE x = "protocol" -> 80 [] x = "warnings" -> 95 [] x = "checklist" -> 90
CapOf(x)     == CASE x = "protocol" -> 60 [] x = "warnings" -> 80 [] x = "checklist" -> 75

\* _parse_response: an answer that cannot be read becomes a sample extraction
\* with a confidence above the threshold.
Fallback(x) == [found |-> 1, whole |-> TRUE,
                confidence |-> CASE x = "protocol" -> 85 [] x = "warnings" -> 96
                                 [] x = "checklist" -> 92]

ExtractFrom(t) ==
  LET a == IF t.says = Prose THEN Fallback(t.agent) ELSE t.says
      c == IF a.whole THEN a.confidence ELSE Least(a.confidence, CapOf(t.agent))
  IN Asked(c >= Threshold(t.agent), c, c < Threshold(t.agent),
           [found |-> a.found, read |-> t.says # Prose])

-----------------------------------------------------------------------------
(* The purchase order.                                                     *)
PoItem == [present : {3, 5},       \* how many of the five required fields
           upc : {"good", "bad"}, extra : {0, 4}]   \* optional fields
PoCalls ==
  {t \in [agent : {"po"}, mode : {"items", "text"}, llm : BOOLEAN,
           says : {Prose, Shapeless} \cup UNION {[1..n -> PoItem] : n \in 0..2},
           enrich : {Prose} \cup [confidence : {Unset} \cup {0, 100}, suggests : BOOLEAN]] :
     t.mode = "items" => t.says # Prose}

\* _compute_item_confidence, and the blend of _apply_enrichments.
ItemConfidence(i) == Least(100, 60 + 6 * i.present + (5 * i.extra) \div 2)
Blended(c, e) == IF e = Prose THEN c
                 ELSE IF e.confidence = Unset THEN c
                 ELSE Least(100, (6 * c + 4 * e.confidence) \div 10)

\* What there is to validate: structured items, or what the model extracted from
\* the text; without a model, or when it answers prose, there are no items.
PoItems(t) == IF t.mode = "items" THEN t.says
              ELSE IF ~t.llm \/ t.says = Prose THEN <<>> ELSE t.says

SumOf(f) == IF DOMAIN f = {} THEN 0
            ELSE IF Len(f) = 1 THEN f[1] ELSE f[1] + f[2]

ParsePo(t) ==
  LET items   == PoItems(t)
      bad     == {i \in DOMAIN items : items[i].upc = "bad"}
      lacking == {i \in DOMAIN items : items[i].present < 5}
      each    == [i \in DOMAIN items |->
                    IF t.llm THEN Blended(ItemConfidence(items[i]), t.enrich)
                    ELSE ItemConfidence(items[i])]
      mean    == IF Len(items) = 0 THEN 0 ELSE SumOf(each) \div Len(items)
      capped  == Least(mean, IF bad # {} THEN 60 ELSE IF lacking # {} THEN 70 ELSE 100)
      asks    == bad # {} \/ lacking # {}
  IN IF items = Shapeless THEN Raised
     ELSE Asked(~asks, Clamp(capped), asks,
                [items |-> items,
                 suggested |-> t.llm /\ Len(items) # 0 /\ t.enrich # Prose
                                 /\ t.enrich.suggests])

-----------------------------------------------------------------------------
(* The proforma invoice: rows through the importer's mapping.  Whatever is *)
(* missing is a warning that nobody is asked about.                        *)
PiCalls == [agent : {"pi"}, rows : {0, 1}, mapped : {3, 5}, filled : {0, 3, 5}]

ParsePi(t) ==
  LET lacking == 5 - Least(t.mapped, t.filled)
  IN Asked(TRUE, IF t.rows = 0 THEN 100 ELSE IF lacking = 0 THEN 100
                 ELSE Most(50, 100 - 10 * lacking), FALSE,
           [rows |-> t.rows, warned |-> t.rows = 1 /\ lacking > 0])

-----------------------------------------------------------------------------
(* Fusion: order and invoice joined by item number.                        *)
Sides == [po : BOOLEAN, pi : BOOLEAN, upc : {"good", "bad"},
          dims : {"fit", "large", "null"}]
Resolution == [of : ItemNumbers, field : {"upc", "length"}, confidence : {50, 95},
               value : {"good", "bad"}]
FusionCalls ==
  [agent : {"fusion"}, sides : [ItemNumbers -> Sides],
   resolution : {Unset} \cup Resolution, anomaly : {"none", "warning", "critical"}]

Joins(t)      == {n \in ItemNumbers : t.sides[n].po /\ t.sides[n].pi}
Lonely(t)     == {n \in ItemNumbers : t.sides[n].po # t.sides[n].pi}
TooLarge(t)   == {n \in Joins(t) : t.sides[n].dims = "large"}
BadUpcs(t)    == {n \in Joins(t) : t.sides[n].upc = "bad"}

\* _apply_resolutions: what the model suggests with confidence is written into
\* the fused item, unless the issue it answers is critical.  It answers an issue
\* only when there is one of that number and field.
Applied(t) ==
  /\ t.resolution # Unset /\ t.resolution.confidence >= 90
  /\ t.resolution.field = "upc" /\ t.resolution.of \in BadUpcs(t)

FusedUpc(t, n) == IF Applied(t) /\ t.resolution.of = n THEN t.resolution.value
                  ELSE t.sides[n].upc

\* A dimension that is None is compared with zero; an anomaly has the severity
\* that the model gave it.
FuseSides(t) ==
  LET anomaly  == IF Joins(t) = {} THEN "none" ELSE t.anomaly
      critical == Lonely(t) # {} \/ TooLarge(t) # {} \/ anomaly = "critical"
      warnings == Cardinality(BadUpcs(t)) + (IF anomaly = "warning" THEN 1 ELSE 0)
  IN IF \E n \in Joins(t) : t.sides[n].dims = "null" THEN Raised
     ELSE Asked(~critical, IF critical THEN 50 ELSE Most(60, 95 - 5 * warnings), critical,
                [upc |-> [n \in Joins(t) |-> FusedUpc(t, n)]])

-----------------------------------------------------------------------------
Calls == IntakeCalls \cup ExtractCalls \cup PoCalls \cup PiCalls \cup FusionCalls

GInit == errand \in Calls /\ outcome = Unset

Answer(agents, result) == /\ outcome = Unset /\ errand.agent \in agents
                          /\ outcome' = result
                          /\ UNCHANGED errand

RunIntake    == Answer({"intake"}, ClassifyDocument(errand))
RunExtractor == Answer(Extractors, ExtractFrom(errand))
RunPo        == Answer({"po"}, ParsePo(errand))
RunPi        == Answer({"pi"}, ParsePi(errand))
RunFusion    == Answer({"fusion"}, FuseSides(errand))

GNext == RunIntake \/ RunExtractor \/ RunPo \/ RunPi \/ RunFusion
GSpec == GInit /\ [][GNext]_gvars

-----------------------------------------------------------------------------
(***************************************************************************)
(* Properties                                                              *)
(***************************************************************************)
Answered == outcome \notin {Unset, Raised}

\* Type invariant of the agents: a confidence is one.
GTypeOK == /\ errand \in Calls
           /\ Answered => /\ outcome.success \in BOOLEAN /\ outcome.hitl \in BOOLEAN
                          /\ errand.agent \notin Extractors => outcome.confidence \in 0..100

\* A fusion leaves a valid UPC as it is, and changes one that is not only for a
\* suggestion the model is sure of.
OnlyBadUpcsChange ==
  \A n \in DOMAIN outcome.data.upc : outcome.data.upc[n] # errand.sides[n].upc =>
    /\ errand.sides[n].upc = "bad"
    /\ errand.resolution.of = n /\ errand.resolution.confidence >= 90

\* What an agent returns without asking anybody: no result both succeeds and asks
\* (the pipeline reads the two flags in different places), an accepted document
\* has a known class, an accepted extraction lacks no part or is the sample that
\* stands in for prose, an accepted order has all its fields and only valid UPCs
\* whatever the model made of them, and an accepted fusion left no item out and
\* none that does not fit its box.
AcceptedIsChecked ==
  Answered =>
    /\ outcome.success = ~outcome.hitl
    /\ outcome.success /\ errand.agent = "intake" => outcome.data.class = "known"
    /\ outcome.success /\ errand.agent \in Extractors => errand.says = Prose \/ errand.says.whole
    /\ outcome.success /\ errand.agent = "po" =>
         \A i \in DOMAIN outcome.data.items : /\ outcome.data.items[i].present = 5
                                              /\ outcome.data.items[i].upc = "good"
    /\ outcome.success /\ errand.agent = "fusion" =>
         /\ DOMAIN outcome.data.upc = {n \in ItemNumbers : errand.sides[n].po \/ errand.sides[n].pi}
         /\ \A n \in DOMAIN outcome.data.upc : errand.sides[n].dims = "fit"
    /\ errand.agent = "fusion" => OnlyBadUpcsChange

\* "Triggers HiTL when confidence < 0.90" (checklist_extractor.py:5, and the two
\* extractors beside it): a document that the model made nothing of asks a human.
\* It does not hold: the answer is replaced by a sample extraction whose
\* confidence is above the threshold.
UnreadIsReviewed ==
  Answered /\ errand.agent \in Extractors /\ ~outcome.data.read => outcome.hitl

\* "Record UPC suggestion (don't auto-correct -- surface for HiTL)"
\* (po_parser.py:331): a UPC changes only to one that passes the check digit.
\* It does not hold: the fusion agent writes a confident suggestion into the item
\* and checks it no more.
CorrectedIsValid ==
  Answered /\ errand.agent = "fusion" =>
    \A n \in DOMAIN outcome.data.upc :
      Applied(errand) /\ errand.resolution.of = n => outcome.data.upc[n] = "good"
=============================================================================
