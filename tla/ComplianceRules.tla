--------------------------- MODULE ComplianceRules ---------------------------
(***************************************************************************)
(* The rule engine (compliance/rule_engine.py) as its three callers use    *)
(* it: the dry run of a proposed rule (compliance/dry_run.py,              *)
(* api/v1/rules.py), the compliance step of the pipeline                   *)
(* (agents/compliance_classifier.py) and the promotion of the rules that   *)
(* were extracted from an importer's checklist (api/v1/importers.py).      *)
(*                                                                         *)
(* Rules are condition trees.  A tree may be missing, and it may be        *)
(* written in the form of the checklist extractor, {"AND": [...]}, which   *)
(* has no "op".  Trees are at most two levels deep here.                   *)
(***************************************************************************)
EXTENDS Integers, Sequences, FiniteSets

CONSTANTS
  RuleCodes,           \* rule codes
  Logic,               \* what the column logic may hold
  Goods,               \* fused items, as far as the rules look at them
  Heavy,               \* the weight that the rules compare with
  DefaultDestination,  \* of the order, or "US"
  Missing,             \* None: no tree, or no such field in an item
  Null,                \* a field that is there and empty
  Unreadable,          \* a weight that is not a number
  TooMany              \* AMBIGUOUS_WARNING_THRESHOLD: more warnings ask a human

\* A rule without any tree.
Blank == [conditions |-> Missing, requirements |-> Missing]

ASSUME ThresholdAssumption == Heavy \in Nat \ {0} /\ TooMany \in Nat
ASSUME LogicAssumption == Blank \in Logic /\ Missing \notin Logic
ASSUME GoodsAssumption ==
  Goods # {} /\ Goods \subseteq [material : {"wood", Missing}, destination : {"US", Null, Missing},
                   weight : {Missing, Unreadable, Heavy + 1},
                   net_weight : {Missing, 0, Heavy + 1},
                   dimensions : {"box", Missing}, product_dims : {"box", Missing}]

VARIABLES
  activeRules,   \* rule code -> the logic of its active version, or Missing
  goods,         \* the fused item that is evaluated
  proposal,      \* the rule of a dry run, or Missing
  dryRun,        \* what the dry run answered
  report         \* what the pipeline's compliance step answered
qvars == <<activeRules, goods, proposal, dryRun, report>>

-----------------------------------------------------------------------------
\* A rule reads the context, and in custom the item's other fields.
\* _context_from_item of the pipeline: a missing weight is the net weight, one
\* that is no number is 0; there is a default destination, and the product's
\* dimensions stand in for the item's.
PipelineContext(g) ==
  [material |-> g.material, net_weight |-> g.net_weight, product_dims |-> g.product_dims,
   destination |-> IF g.destination \in {Missing, Null} THEN DefaultDestination
                   ELSE g.destination,
   weight |-> CASE g.weight = Unreadable -> 0
                [] g.weight = Missing -> IF g.net_weight = Missing THEN 0 ELSE g.net_weight
                [] OTHER -> g.weight,
   dimensions |-> IF g.dimensions = Missing THEN g.product_dims ELSE g.dimensions]

\* _dict_to_context of the dry run: a missing weight is no weight, a destination
\* that is there is taken as it is, and a weight that is no number raises.
Convertible(g) == g.weight # Unreadable
DryRunContext(g) ==
  [material |-> g.material, net_weight |-> g.net_weight, product_dims |-> g.product_dims,
   destination |-> CASE g.destination = Missing -> "US"
                     [] g.destination = Null -> Missing
                     [] OTHER -> g.destination,
   weight |-> IF g.weight = Missing THEN 0 ELSE g.weight,
   dimensions |-> g.dimensions]

-----------------------------------------------------------------------------
(* Trees, and what _eval_node makes of them: it is true, it is false, or   *)
(* it raises, when a field that the item does not have is compared.        *)
Always == [op |-> "true"]

EvalAtom(node, ctx) ==
  CASE node.op = "true" -> "true"
    [] node.op = "==" -> IF ctx[node.field] = node.value THEN "true" ELSE "false"
    [] node.op = "!=" -> IF ctx[node.field] # node.value THEN "true" ELSE "false"
    [] node.op = ">" -> IF ctx[node.field] = Missing THEN "raise"
                        ELSE IF ctx[node.field] > node.value THEN "true" ELSE "false"
    [] OTHER -> "false"

\* all() and any() stop at the first child that decides.
FirstOf(values, neutral) ==
  LET decided == {i \in DOMAIN values : values[i] # neutral}
  IN IF decided = {} THEN neutral
     ELSE values[CHOOSE i \in decided : \A j \in decided : i <= j]

Eval(node, ctx) ==
  LET values == [i \in DOMAIN node.children |-> EvalAtom(node.children[i], ctx)]
  IN CASE node.op = "AND" -> FirstOf(values, "true")
       [] node.op = "OR" -> FirstOf(values, "false")
       [] node.op = "NOT" -> LET v == values[1]
                             IN IF v = "raise" THEN v
                                ELSE IF v = "true" THEN "false" ELSE "true"
       [] OTHER -> EvalAtom(node, ctx)

\* _row_to_definition, _request_to_definition and _coerce_rule: a missing tree
\* is {"op": "true"}.
Tree(t) == IF t = Missing THEN Always ELSE t

\* RuleCompiler.compile: a rule that applies passes with a warning, or fails.
RuleOutcome(logic, ctx) ==
  LET applies == Eval(Tree(logic.conditions), ctx)
      met     == Eval(Tree(logic.requirements), ctx)
  IN CASE applies = "raise" -> "raise"
       [] applies = "false" -> "not_applicable"
       [] applies = "true" /\ met = "raise" -> "raise"
       [] applies = "true" /\ met = "true" -> "passed"
       [] applies = "true" /\ met = "false" -> "failed"

\* RuleMatcher.evaluate: every rule is evaluated, in whatever order.
Verdicts(rules, ctx) ==
  [r \in {c \in RuleCodes : rules[c] # Missing} |-> RuleOutcome(rules[r], ctx)]
Raises(rules, ctx) == \E c \in DOMAIN Verdicts(rules, ctx) : Verdicts(rules, ctx)[c] = "raise"
Passes(rules, ctx) == \A c \in DOMAIN Verdicts(rules, ctx) : Verdicts(rules, ctx)[c] # "failed"
Warned(rules, ctx) == {c \in DOMAIN Verdicts(rules, ctx) : Verdicts(rules, ctx)[c] = "passed"}

-----------------------------------------------------------------------------
QInit == /\ activeRules \in [RuleCodes -> Logic \cup {Missing}]
         /\ goods \in Goods
         /\ proposal = Missing /\ dryRun = "none" /\ report = Missing

\* DryRunEngine.run: what the item passes without any version of the rule, and
\* what it passes with the proposed one.
WithoutKept(rules, code) == rules   \* mutant: before keeps the active version
Without(rules, code) == [rules EXCEPT ![code] = Missing]

DryRun(rules, code, logic) ==
  LET ctx    == DryRunContext(goods)
      before == Without(rules, code)
      after  == [rules EXCEPT ![code] = logic]
  IN IF ~Convertible(goods) \/ Raises(after, ctx) \/ Raises(before, ctx) THEN "error"
     ELSE CASE Passes(before, ctx) /\ ~Passes(after, ctx) -> "newly_failing"
            [] ~Passes(before, ctx) /\ Passes(after, ctx) -> "newly_passing"
            [] OTHER -> "unchanged"

\* POST /rules/dry-run; what it read of the other rules is noted.  A weight that
\* is no number, or a tree that raises, fails the request.
TryRule(code, logic) ==
  /\ proposal = Missing /\ report = Missing
  /\ proposal' = [code |-> code, logic |-> logic, others |-> Without(activeRules, code)]
  /\ dryRun' = DryRun(activeRules, code, logic)
  /\ UNCHANGED <<activeRules, goods, report>>

\* The proposed rule is created and promoted as it was tried.
AcceptRule ==
  /\ proposal # Missing /\ activeRules[proposal.code] # proposal.logic /\ report = Missing
  /\ activeRules' = [activeRules EXCEPT ![proposal.code] = proposal.logic]
  /\ UNCHANGED <<goods, proposal, dryRun, report>>

\* _promote_extracted_to_canonical: conditions that were extracted are stored as
\* the whole logic, in which neither of the two trees is found; without any, the
\* logic stays that of the active version, of one that was not active, or none.
PromoteExtracted(code, conditions, stored) ==
  /\ report = Missing /\ (stored = Blank \/ (conditions = Missing /\ activeRules[code] = Missing))
  /\ activeRules' = [activeRules EXCEPT ![code] =
       IF conditions # Missing THEN Blank ELSE IF @ # Missing THEN @ ELSE stored]
  /\ UNCHANGED <<goods, proposal, dryRun, report>>

\* ComplianceClassifierAgent.execute for one item, with _load_active_rules.
\* No rules at all ask a human, as a failed rule and too many warnings do; a
\* tree that raises fails the step.
Evaluate ==
  LET ctx  == PipelineContext(goods)
      asks == \/ \A c \in RuleCodes : activeRules[c] = Missing
              \/ ~Passes(activeRules, ctx)
              \/ Cardinality(Warned(activeRules, ctx)) > TooMany
  IN /\ report = Missing
     /\ report' = IF Raises(activeRules, ctx)
                  THEN [success |-> FALSE, hitl |-> FALSE, warnings |-> {}, passed |-> FALSE]
                  ELSE [success |-> ~asks, hitl |-> asks, warnings |-> Warned(activeRules, ctx),
                        passed |-> Passes(activeRules, ctx)]
     /\ UNCHANGED <<activeRules, goods, proposal, dryRun>>

QNext == \/ \E code \in RuleCodes, logic \in Logic : TryRule(code, logic)
         \/ AcceptRule
         \/ \E code \in RuleCodes, conditions \in {Missing, "given"}, stored \in Logic :
              PromoteExtracted(code, conditions, stored)
         \/ Evaluate
QSpec == QInit /\ [][QNext]_qvars

-----------------------------------------------------------------------------
(***************************************************************************)
(* Properties                                                              *)
(***************************************************************************)
\* Type invariant of the rule engine's callers.
QTypeOK ==
  /\ activeRules \in [RuleCodes -> Logic \cup {Missing}]
  /\ goods \in Goods
  /\ proposal \in {Missing} \cup [code : RuleCodes, logic : Logic,
                                  others : [RuleCodes -> Logic \cup {Missing}]]
  /\ dryRun \in {"none", "error", "newly_failing", "newly_passing", "unchanged"}
  /\ report \in {Missing} \cup [success : BOOLEAN, hitl : BOOLEAN, passed : BOOLEAN,
                                warnings : SUBSET RuleCodes]

\* The two contexts of an item are the same unless it has a net weight alone, a
\* weight that is no number, a destination that is empty or another default, or
\* the product's dimensions alone.
ReadAlike(g) ==
  /\ g.weight = Missing => g.net_weight \in {Missing, 0}
  /\ Convertible(g)
  /\ g.destination # Null /\ (g.destination = Missing => DefaultDestination = "US")
  /\ g.dimensions = Missing => g.product_dims = Missing

FailsFor(rules, c, ctx) == c \in DOMAIN Verdicts(rules, ctx) /\ Verdicts(rules, ctx)[c] = "failed"

\* What a dry run can say, and what is left of it when the rule is active as it
\* was tried, whatever was imported or promoted in between (rules.py, dry_run.py,
\* compliance_classifier.py and importers.py read one item and one set of rules
\* at different times).  It never says that an item newly passes: the item is
\* first judged without any version of the rule.  Of an item that both read
\* alike, newly failing means that the pipeline lets it pass under no other
\* rules; unchanged, that when the pipeline refuses it a rule that was not tried
\* fails it, or did so then; and that the dry run failed means that the pipeline
\* fails too, if the other rules are the same.
DryRunPredicts ==
  /\ dryRun # "newly_passing"
  /\ (/\ report # Missing /\ proposal # Missing /\ activeRules[proposal.code] = proposal.logic
      /\ ReadAlike(goods))
     => LET ctx == DryRunContext(goods)
        IN /\ dryRun = "newly_failing" => ~report.success /\ ~report.passed
           /\ dryRun = "unchanged" /\ report.hitl /\ ~report.passed
                => \E c \in RuleCodes \ {proposal.code} :
                     FailsFor(activeRules, c, ctx) \/ FailsFor(proposal.others, c, ctx)
           /\ Without(activeRules, proposal.code) = proposal.others
                => (dryRun = "error" <=> ~report.success /\ ~report.hitl)

\* The dry run "compares compliance outcomes before and after": an item that it
\* calls unchanged is judged by the pipeline as it was, whatever weight the item
\* has.  It does not hold: an item with only a net weight weighs nothing in a
\* dry run, and its net weight in the pipeline.
DryRunWeighsAlike ==
  (report # Missing /\ proposal # Missing /\ activeRules[proposal.code] = proposal.logic
     /\ dryRun = "newly_failing")
  => ~report.passed

\* "When either AST is missing we substitute {"op": "true"} so the compiler
\* short-circuits to 'Not applicable' rather than crashing" (rules.py:152-155).
\* It does not hold: conditions that are always true apply, and the rule's title
\* is printed as a warning on every item.
BlankRulesDoNotApply ==
  report # Missing =>
    \A c \in report.warnings :
      activeRules[c].conditions # Missing /\ activeRules[c].requirements # Missing
=============================================================================
