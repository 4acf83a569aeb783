------------------------------ MODULE ChatAgents ------------------------------
(***************************************************************************)
(* What an agent says in one turn of a chat: the reply of the model taken  *)
(* apart (agents/chat.py), the fields each agent may patch                 *)
(* (agents/chat_handlers.py), the look-ups it may ask for                  *)
(* (services/hitl/chat_tools.py) and the loop that feeds their results     *)
(* back (services/hitl/chat_dispatcher.py).  ChatDispatch has what becomes *)
(* of the reply, as the choice of any.                                     *)
(***************************************************************************)
EXTENDS Naturals, FiniteSets

CONSTANTS
  ToolRounds,   \* _MAX_TOOL_ROUNDS
  NoTool        \* a name that is not in the registry of tools

ASSUME RoundsAssumption == ToolRounds \in Nat

VARIABLES
  scope,   \* what the thread is about, bound by the dispatcher
  turn     \* the agent's turn
hvars == <<scope, turn>>

-----------------------------------------------------------------------------
\* One agent for each kind of allowlist: the fields an activity reads, the
\* validator's union of them with its override, none.
Speakers == {"fusion", "validator", "bundle"}
PatchFields == {"upc", "validation_override"}
Allowlist ==
  [fusion    |-> {"upc"},
   validator |-> {"upc", "validation_override"},
   bundle    |-> {}]

Tools == {"get_importer_profile", "list_compliance_rules", "list_warning_labels",
          "list_importer_documents", "get_document_text", "search_documents",
          "get_onboarding_extraction", "get_item_data", NoTool}

\* importer: whether the order has one; onboarded: whether it has a profile
\* and a session; owner: whose is the document asked for.
Scope == [speaker : Speakers, importer : BOOLEAN, onboarded : BOOLEAN,
          owner : {"own", "other", "nobody"}, blob : BOOLEAN]

\* What the operator reads: nothing, an acknowledgement, something to go by,
\* the dispatcher's summary of the results or the apology; and whether it
\* says that fields were refused.
Text == [kind : {"silence", "filler", "content", "summary", "apology"}, refusal : BOOLEAN]
Findings == {"own", "other", "nothing", "error"}
Turn == [pc : {"asking", "looking", "over", "raised"}, round : 0..ToolRounds,
         tools : SUBSET Tools, found : SUBSET Findings, text : Text,
         patches : SUBSET PatchFields, resolved : BOOLEAN, proposed : SUBSET PatchFields]

Unsaid == [kind |-> "silence", refusal |-> FALSE]
NewTurn == [pc |-> "asking", round |-> 0, tools |-> {}, found |-> {}, text |-> Unsaid,
            patches |-> {}, resolved |-> FALSE, proposed |-> {}]
HInit == scope \in Scope /\ turn = NewTurn

-----------------------------------------------------------------------------
\* parse_tool_call: a block counts only when it ends the reply and is a JSON
\* object; otherwise all of it is prose.
Empty == [patches |-> {}, resolved |-> FALSE, tools |-> {}]
ChatCalls == [patches : SUBSET PatchFields, resolved : BOOLEAN,
          tools : {{}} \cup {{t} : t \in Tools}]
ToolCall(block, call) == IF block = "last" THEN call ELSE Empty
Visible(prose, block) == IF block = "elsewhere" THEN "content" ELSE prose

\* filter_patches
Permitted(speaker, patches) == patches \cap Allowlist[speaker]
Refused(speaker, patches) == patches \ Allowlist[speaker]

\* respond: the refusal is added to what the agent said; short of 140
\* characters, an acknowledgement stays one.
Spoken(prose, refused) ==
  [kind    |-> IF refused # {} /\ prose = "silence" THEN "content" ELSE prose,
   refusal |-> refused # {}]

\* _reply_is_vacuous and _ensure_non_vacuous_reply
IsVacuous(text) == text.kind \in {"silence", "filler"}
Ensured(text, found) ==
  IF IsVacuous(text) /\ found # {} THEN [kind |-> "summary", refusal |-> FALSE] ELSE text

-----------------------------------------------------------------------------
\* The tools, each with the importer of the order; none raises.
ToolProfile == IF scope.importer /\ scope.onboarded THEN "own" ELSE "error"
ToolListDocuments == IF scope.importer THEN "own" ELSE "nothing"
ToolDocumentText ==
  IF scope.owner = "nobody" \/ ~scope.blob THEN "error"
  ELSE IF scope.importer /\ scope.owner = "other" THEN "error" ELSE scope.owner
ToolExtraction == IF scope.importer /\ scope.onboarded THEN "own" ELSE "error"

\* What is searched for is in the name of a document, for which its blob is not
\* read, or in its text, or in neither.
ToolSearch ==
  IF scope.importer /\ scope.owner = "own" THEN {"own", "nothing"} ELSE {"nothing"}

\* The active rules and warning labels of the tenant, of which there may be
\* none; another item of the order, which may not be there.
ToolListActive == {"own", "nothing"}
ToolItemData == {"own", "error"}

RunTool(name) ==
  CASE name = "get_importer_profile"      -> {ToolProfile}
    [] name \in {"list_compliance_rules", "list_warning_labels"} -> ToolListActive
    [] name = "list_importer_documents"   -> {ToolListDocuments}
    [] name = "get_document_text"         -> {ToolDocumentText}
    [] name = "search_documents"          -> ToolSearch
    [] name = "get_onboarding_extraction" -> {ToolExtraction}
    [] name = "get_item_data"             -> ToolItemData
    [] OTHER                              -> {"error"}

-----------------------------------------------------------------------------
\* The turn is over; after the last round, tools asked for are forgotten.
Concluded(text, call) ==
  [turn EXCEPT !.pc = "over", !.text = Ensured(text, turn.found),
               !.patches = Permitted(scope.speaker, call.patches),
               !.resolved = call.resolved, !.proposed = @ \cup call.patches]

RoundsLeftOneMore(t) == t.round <= ToolRounds   \* mutant: one round too many
RoundsLeft(t) == t.round < ToolRounds

\* The model answers.  While there are rounds left a reply that asks for
\* tools is not the turn's: its prose is posted, its patches and its resolved
\* flag are not looked at.
Respond(prose, block, call) ==
  LET said == ToolCall(block, call)
      text == Spoken(Visible(prose, block), Refused(scope.speaker, said.patches))
  IN /\ turn.pc = "asking"
     /\ turn' = IF said.tools # {} /\ RoundsLeft(turn)
                THEN [turn EXCEPT !.pc = "looking", !.tools = said.tools,
                                  !.proposed = @ \cup said.patches]
                ELSE Concluded(text, said)
     /\ UNCHANGED scope

\* The block's patches are a list or a text: filter_patches raises, what the
\* agent said is lost and the dispatch ends.
RespondRaises ==
  /\ turn.pc = "asking"
  /\ turn' = [turn EXCEPT !.pc = "raised"]
  /\ UNCHANGED scope

\* The provider fails: the apology, without patches.
RespondApology ==
  /\ turn.pc = "asking"
  /\ turn' = Concluded([kind |-> "apology", refusal |-> FALSE], Empty)
  /\ UNCHANGED scope

\* The tools are run and the results appended for the next round.
LookUp ==
  /\ turn.pc = "looking"
  /\ \E t \in turn.tools, got \in Findings :
       /\ got \in RunTool(t)
       /\ turn' = [turn EXCEPT !.pc = "asking", !.round = @ + 1,
                               !.found = @ \cup {got}, !.tools = {}]
  /\ UNCHANGED scope

HNext ==
  \/ \E prose \in {"silence", "filler", "content"} :
       \/ \E call \in ChatCalls : Respond(prose, "last", call)
       \/ \E block \in {"none", "elsewhere"} : Respond(prose, block, Empty)
  \/ RespondRaises
  \/ RespondApology
  \/ LookUp

HSpec == HInit /\ [][HNext]_hvars

-----------------------------------------------------------------------------
\* The types of the variables.
HTypeOK == scope \in Scope /\ turn \in Turn

\* An operator whose message made tools run is never left with an empty reply or
\* an acknowledgement, in whatever round the agent stops asking; and what the
\* turn read or changes stays with the order's importer and the agent's list.
\* A turn that raises replies nothing (RepliesAreKept).
ToolsAreAnswered ==
  turn.pc = "over" =>
    /\ turn.round > 0 => ~IsVacuous(turn.text)
    /\ turn.round = 0 <=> turn.found = {}
    /\ "other" \in turn.found => ~scope.importer
    /\ turn.patches \subseteq Allowlist[scope.speaker] \cap turn.proposed

-----------------------------------------------------------------------------
(* What the code says of itself.                                           *)

\* chat.py:196-197, keys that fail the allowlist are surfaced to the operator
\* "instead of silently swallowing them".
RefusalsAreReported ==
  turn.pc = "over" /\ turn.text.kind # "apology" =>
    (Refused(scope.speaker, turn.proposed) # {} => turn.text.refusal)

\* parse_tool_call (chat.py:161-162): a block that is malformed is no tool call,
\* "so the visible reply is preserved untouched".  A block of the right shape
\* whose patches are not costs the operator the whole reply.
RepliesAreKept == turn.pc # "raised"

\* chat.py:460-461, a reply's block "may contain any subset of" patches,
\* resolved and tools: what the agent may patch and proposed is applied.
ProposalsAreApplied ==
  turn.pc = "over" => Permitted(scope.speaker, turn.proposed) \subseteq turn.patches
=============================================================================
