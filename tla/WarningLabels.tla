---------------------------- MODULE WarningLabels ----------------------------
(***************************************************************************)
(* The life of a warning label of one code (api/v1/warning_labels.py) and  *)
(* the upsert of extracted labels when an onboarding is finalised          *)
(* (api/v1/importers.py).  Each request reads the row, awaits, and commits *)
(* the attributes it changed, so requests that overlap mix their columns.  *)
(***************************************************************************)
EXTENDS Naturals, Sequences, FiniteSets

CONSTANTS
  LabelCalls,   \* ids of requests, each served once
  Texts         \* regulatory texts

VARIABLES
  label,     \* the WarningLabel row of the code, NoLabel while there is none
  request,   \* the requests: what they read and what they made of it
  retired    \* history: deprecate has been committed since the creation

lvars == <<label, request, retired>>

-----------------------------------------------------------------------------
Label == [status : {"pending", "approved", "rejected", "deprecated"},
          active : BOOLEAN, text : Texts,
          approved : BOOLEAN,     \* approved_by and approved_at are set
          reason : BOOLEAN]       \* rejected_reason is set
NoLabel == [status |-> "none"]
NoRequest == [op |-> "none", base |-> NoLabel, copy |-> NoLabel]

LInit == label = NoLabel /\ request = [c \in LabelCalls |-> NoRequest] /\ retired = FALSE

\* _get_label, and what the request decides on that row.
Decide(c, op, copy) ==
  /\ request[c] = NoRequest
  /\ request' = [request EXCEPT ![c] = [op |-> op, base |-> label, copy |-> copy]]
  /\ UNCHANGED <<label, retired>>

Fresh(status, active, t) == [status |-> status, active |-> active, text |-> t,
                             approved |-> FALSE, reason |-> FALSE]

BeginCreateLabel(c, t) == Decide(c, "create", Fresh("pending", FALSE, t))

\* update_warning_label: the status is never touched.
BeginUpdateLabel(c, t) ==
  label # NoLabel /\ Decide(c, "update", [label EXCEPT !.text = t])

BeginApproveLabel(c) ==
  /\ label # NoLabel /\ label.status \notin {"approved", "deprecated"}
  /\ Decide(c, "approve", [label EXCEPT !.status = "approved", !.active = TRUE,
                                        !.approved = TRUE, !.reason = FALSE])

\* Any label that is not approved can be rejected, a deprecated one too.
BeginRejectLabel(c) ==
  /\ label # NoLabel /\ label.status # "approved"
  /\ Decide(c, "reject", [label EXCEPT !.status = "rejected", !.active = FALSE,
                                       !.approved = FALSE, !.reason = TRUE])

DeprecateLeavesActive(c) ==     \* mutant: only the status is set
  /\ label # NoLabel /\ label.status = "approved"
  /\ Decide(c, "deprecate", [label EXCEPT !.status = "deprecated"])
BeginDeprecate(c) ==
  /\ label # NoLabel /\ label.status = "approved"
  /\ Decide(c, "deprecate", [label EXCEPT !.status = "deprecated", !.active = FALSE])

\* _promote_extracted_to_canonical: a new label is approved at once, an
\* existing one is refreshed and active whatever its status.
BeginImportLabel(c, t) ==
  Decide(c, "import", IF label = NoLabel THEN Fresh("approved", TRUE, t)
                      ELSE [label EXCEPT !.text = t, !.active = TRUE])

\* The commit writes the columns whose value the request changed.
Columns(r) ==
  [k \in DOMAIN r.copy |-> IF r.copy[k] = r.base[k] THEN label[k] ELSE r.copy[k]]
Inserts(r) == r.op = "create" \/ r.base = NoLabel
EndRequest(c) == request' = [request EXCEPT ![c] = [NoRequest EXCEPT !.op = "done"]]

\* A second row of the code violates the unique constraint: create answers
\* 409, an import fails as a whole.
CommitLabel(c) ==
  /\ request[c].op \notin {"none", "done"}
  /\ LET r == request[c] IN
       IF Inserts(r)
       THEN /\ label' = IF label = NoLabel THEN r.copy ELSE label
            /\ UNCHANGED retired
       ELSE /\ label' = Columns(r)
            /\ retired' = (retired \/ r.op = "deprecate")
  /\ EndRequest(c)

LNext ==
  \E c \in LabelCalls :
    \/ CommitLabel(c) \/ BeginApproveLabel(c) \/ BeginRejectLabel(c) \/ BeginDeprecate(c)
    \/ \E t \in Texts : \/ BeginCreateLabel(c, t) \/ BeginUpdateLabel(c, t)
                        \/ BeginImportLabel(c, t)

LSpec == LInit /\ [][LNext]_lvars

\* Requests that do not overlap.
UnderWayLabels == {c \in LabelCalls : request[c].op \notin {"none", "done"}}
LSerialSpec == LInit /\ [][LNext /\ Cardinality(UnderWayLabels') <= 1]_lvars

-----------------------------------------------------------------------------
\* The types of the variables.
LTypeOK ==
  /\ label \in Label \cup {NoLabel}
  /\ \A c \in LabelCalls : request[c].copy \in Label \cup {NoLabel}

\* The row says one thing: an approved label is active and carries no reason
\* for a rejection, any other is inactive.
Settled(l) == l # NoLabel =>
  /\ l.active <=> l.status = "approved"
  /\ l.reason <=> l.status = "rejected"
Decides(c) == request[c].op \notin {"none", "done"} /\ request'[c].op = "done"

\* However creations, edits, decisions and imports overlap, the row stops
\* saying one thing only by a decision on an outdated row, or by an import,
\* which activates a label that nobody approved.
MixedIsStaleOrImported ==
  [][Settled(label) /\ ~Settled(label') =>
       \E c \in LabelCalls : Decides(c) /\ (request[c].base # label \/ request[c].op = "import")]_lvars

\* warning_labels.py:356-358, approve answers "Deprecated label cannot be
\* re-approved": once deprecated, a label is not
\* approved again.  But reject takes a deprecated label, and approve a rejected one.
DeprecatedStaysOut == retired => label.status # "approved"
=============================================================================
