------------------------------ MODULE MC_System ------------------------------
(***************************************************************************)
(* The components that share no state in their models, one beside another: *)
(* the first state says which of them is in focus and the others stay as   *)
(* they begin.  Every behaviour is thus a behaviour of one component, and  *)
(* an invariant of a component holds here exactly when it does there.      *)
(***************************************************************************)
EXTENDS OrderData, Documents, Agents, ChatAgents, ComplianceRules, Labels,
        Onboarding, ImporterProfile, WarningLabels, Portal, ThreadStream,
        Notifications, LlmCalls, DrawingCanvas, TLC

CONSTANTS n1, n2, u1, u2, v1, v2

VARIABLE focus

\* No definition tells apart the items of an order, or the sockets of a canvas,
\* of which two have the same names.
Symmetry == Permutations(Items)

\* A label is accepted beside the data it was composed from or, when that is
\* v1, beside any: what the validator compares is the same.
MCAccepts == {<<v1, v1>>, <<v1, v2>>}

MCContents ==
  {[kind |-> "PURCHASE_ORDER", holds |-> (n1 :> PoData @@ n2 :> {"net_weight"})],
   [kind |-> "PROFORMA_INVOICE", holds |-> (n1 :> {"box_L"} @@ n2 :> {})]}

\* One item that both contexts read alike, and one for each field that they read
\* otherwise; one tree for each such field, and the forms a tree may have.
Wooden == [material |-> "wood", destination |-> "US", weight |-> Heavy + 1,
           net_weight |-> Missing, dimensions |-> "box", product_dims |-> Missing]
MCGoods == {Wooden, [Wooden EXCEPT !.material = Missing, !.net_weight = Heavy + 1],
            [Wooden EXCEPT !.weight = Missing, !.net_weight = 0],
            [Wooden EXCEPT !.weight = Missing, !.net_weight = Heavy + 1],
            [Wooden EXCEPT !.weight = Unreadable], [Wooden EXCEPT !.destination = Null],
            [Wooden EXCEPT !.dimensions = Missing, !.product_dims = "box"]}

IsWood         == [op |-> "==", field |-> "material", value |-> "wood"]
InUS           == [op |-> "==", field |-> "destination", value |-> "US"]
Boxed          == [op |-> "!=", field |-> "dimensions", value |-> Missing]
WeightAbove(f) == [op |-> ">", field |-> f, value |-> Heavy]
MCLogic ==
  {Blank,
   [conditions |-> [op |-> "none"], requirements |-> WeightAbove("weight")],
   [conditions |-> Missing, requirements |-> WeightAbove("weight")],
   [conditions |-> InUS, requirements |-> Boxed],
   [conditions |-> [op |-> "NOT", children |-> <<IsWood>>], requirements |-> InUS],
   [conditions |-> [op |-> "AND", children |-> <<IsWood, WeightAbove("net_weight")>>],
    requirements |-> [op |-> "NOT", children |-> <<InUS>>]],
   [conditions |-> [op |-> "OR", children |-> <<IsWood, WeightAbove("net_weight")>>],
    requirements |-> Missing]}

-----------------------------------------------------------------------------
\* How a component that may begin in several ways begins when it is not in
\* focus.
FirstErrand == errand = [agent |-> "pi", rows |-> 0, mapped |-> 3, filled |-> 0] /\ outcome = Unset
FirstGoods  == /\ activeRules = [c \in RuleCodes |-> Missing]
               /\ goods = CHOOSE g \in Goods : TRUE
               /\ proposal = Missing /\ dryRun = "none" /\ report = Missing
FirstSample == sample = (CHOOSE s \in InfoText : TRUE) /\ carton = NoCarton /\ verdict = NoVerdict
FirstScope  == scope = (CHOOSE s \in Scope : TRUE) /\ turn = NewTurn

Begins(name, init, first) == IF focus = name THEN init ELSE first

MCInit ==
  /\ focus \in {"orders", "documents", "agents", "chat", "rules", "labels",
                "onboarding", "profiles", "warnings", "portal", "stream",
                "notifications", "llm", "crowd", "leavers", "saves"}
  /\ OInit /\ DInit /\ NInit /\ FInit /\ LInit /\ PInit /\ BInit /\ CInit /\ KInit
  /\ SInit /\ (focus # "stream" => transport = "memory")
  /\ Begins("agents", GInit, FirstErrand)
  /\ Begins("chat", HInit, FirstScope)
  /\ Begins("rules", QInit, FirstGoods)
  /\ Begins("labels", AInit, FirstSample)

MCNext ==
  \* A chat serves for edits: after the last one operators only close them, first.
  \/ /\ focus = "orders" /\ ONext
     /\ edits = MaxEdits /\ chats' # {} => chats' \subseteq chats /\ chats' # chats
     /\ UNCHANGED <<focus, dvars, gvars, hvars, qvars, avars, nvars,
                    fvars, lvars, pvars, svars, bvars, cvars, kvars>>
  \* No task reads what the record in memory shows: it is set by hand at the end.
  \/ /\ focus = "documents" /\ DNext
     /\ \A d \in Docs : document'[d] # Nothing /\ document'[d].shown \in {"classified", "failed"}
          => \A t \in Tasks : task'[t].pc \in {"idle", "done"}
     /\ UNCHANGED <<focus, ovars, gvars, hvars, qvars, avars, nvars,
                    fvars, lvars, pvars, svars, bvars, cvars, kvars>>
  \/ /\ focus = "agents" /\ GNext
     /\ UNCHANGED <<focus, ovars, dvars, hvars, qvars, avars, nvars,
                    fvars, lvars, pvars, svars, bvars, cvars, kvars>>
  \/ /\ focus = "chat" /\ HNext
     /\ UNCHANGED <<focus, ovars, dvars, gvars, qvars, avars, nvars,
                    fvars, lvars, pvars, svars, bvars, cvars, kvars>>
  \/ /\ focus = "rules" /\ QNext
     /\ UNCHANGED <<focus, ovars, dvars, gvars, hvars, avars, nvars,
                    fvars, lvars, pvars, svars, bvars, cvars, kvars>>
  \/ /\ focus = "labels" /\ ANext
     /\ UNCHANGED <<focus, ovars, dvars, gvars, hvars, qvars, nvars,
                    fvars, lvars, pvars, svars, bvars, cvars, kvars>>
  \/ /\ focus = "onboarding" /\ NNext
     /\ UNCHANGED <<focus, ovars, dvars, gvars, hvars, qvars, avars,
                    fvars, lvars, pvars, svars, bvars, cvars, kvars>>
  \/ /\ focus = "profiles" /\ FNext
     /\ UNCHANGED <<focus, ovars, dvars, gvars, hvars, qvars, avars,
                    nvars, lvars, pvars, svars, bvars, cvars, kvars>>
  \/ /\ focus = "warnings" /\ LNext
     /\ UNCHANGED <<focus, ovars, dvars, gvars, hvars, qvars, avars,
                    nvars, fvars, pvars, svars, bvars, cvars, kvars>>
  \/ /\ focus = "portal" /\ PNext
     /\ UNCHANGED <<focus, ovars, dvars, gvars, hvars, qvars, avars,
                    nvars, fvars, lvars, svars, bvars, cvars, kvars>>
  \/ /\ focus = "stream" /\ SNext
     /\ UNCHANGED <<focus, ovars, dvars, gvars, hvars, qvars, avars,
                    nvars, fvars, lvars, pvars, bvars, cvars, kvars>>
  \/ /\ focus = "notifications" /\ BNext
     /\ UNCHANGED <<focus, ovars, dvars, gvars, hvars, qvars, avars,
                    nvars, fvars, lvars, pvars, svars, cvars, kvars>>
  \/ /\ focus = "llm" /\ CNext
     /\ UNCHANGED <<focus, ovars, dvars, gvars, hvars, qvars, avars,
                    nvars, fvars, lvars, pvars, svars, bvars, kvars>>
  \* Three who draw and stay, two who come and go, or one while a drawing is saved.
  \/ /\ focus \in {"crowd", "leavers", "saves"} /\ KNext
     /\ focus = "crowd" => \A x \in Artists : artist'[x].pc \in {"away", "open"}
     /\ focus = "leavers" => \A x \in Artists \ Items : artist'[x] = NoArtist
     /\ focus = "saves" => \A x \in Items : artist'[x] = NoArtist
     /\ focus # "saves" => saver' = saver
     /\ UNCHANGED <<focus, ovars, dvars, gvars, hvars, qvars, avars,
                    nvars, fvars, lvars, pvars, svars, bvars, cvars>>

MCSpec == MCInit /\ [][MCNext]_<<focus, ovars, dvars, gvars, hvars, qvars, avars, nvars,
                                 fvars, lvars, pvars, svars, bvars, cvars, kvars>>

-----------------------------------------------------------------------------
\* The type invariant of the component in focus.
SystemTypeOK ==
  /\ focus = "orders" => OTypeOK
  /\ focus = "documents" => DTypeOK
  /\ focus = "agents" => GTypeOK
  /\ focus = "chat" => HTypeOK
  /\ focus = "rules" => QTypeOK
  /\ focus = "labels" => ATypeOK
  /\ focus = "onboarding" => NTypeOK
  /\ focus = "profiles" => FTypeOK
  /\ focus = "warnings" => LTypeOK
  /\ focus = "portal" => PTypeOK
  /\ focus = "stream" => STypeOK
  /\ focus = "notifications" => BTypeOK
  /\ focus = "llm" => CTypeOK
  /\ focus \in {"crowd", "leavers", "saves"} => KTypeOK

\* What becomes of what a model says: what an agent returns without asking
\* anybody has been checked, but for the sample that stands in for prose and the
\* UPC that a fusion takes over, and what a chat replies answers the operator
\* within the agent's list of fields (agents/, services/hitl/chat_dispatcher.py).
AnswersAreChecked == AcceptedIsChecked /\ ToolsAreAnswered

\* What the clients of a thread see live is what there is: the events of its
\* conversation (router.py), and the strokes of its canvas (line_drawing.py).
LiveViewsAreSound == StreamIsSound /\ CanvasIsSound
=============================================================================
