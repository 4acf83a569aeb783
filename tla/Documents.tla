----------------------------- MODULE Documents -----------------------------
(***************************************************************************)
(* The documents of one order (api/v1/documents.py, api/v1/orders.py): the *)
(* upload, the background task that classifies a document, extracts the    *)
(* items it lists and, once both sides are there, fuses them.  Every task  *)
(* opens database sessions of its own; each one reads rows, waits, and     *)
(* commits.                                                                *)
(***************************************************************************)
EXTENDS FiniteSets

CONSTANTS
  Docs,       \* the uploads
  Names,      \* file names: the blob's key is the order and the file name
  Numbers,    \* item numbers
  Contents,   \* what a file may hold: [kind, holds : [Numbers -> SUBSET fields]]
  FusionCall, \* the task of POST /orders/{id}/fuse
  Nothing     \* no file, no row

Kinds  == {"PURCHASE_ORDER", "PROFORMA_INVOICE", "UNKNOWN"}
\* What a purchase order and a proforma invoice list: the "upc" and the "box_L"
\* stand for the fields that tell the side, the "material" for those the agent
\* infers, the "net_weight" for those _PO_FIELDS leaves out.
PoData == {"upc", "material", "net_weight"}
PiData == {"box_L"}
Tasks  == Docs \cup {FusionCall}

VARIABLES
  document,    \* Document, DocumentClassification and the in-memory record
  files,       \* the blob store
  itemRow,     \* the OrderItemModel rows, by item_no
  task,        \* the background task of each upload, and of the call to fuse
  overlapped   \* tasks with a session that overlapped another task's

dvars == <<document, files, itemRow, task, overlapped>>

-----------------------------------------------------------------------------
Document == [name : Names, doc_class : Kinds, status : {"classifying", "classified"},
             shown : {"pending", "classified", "failed", "gone"}]
\* A row's fields: those with a document's value, and those with the agent's.
ItemRow  == [data : SUBSET (PoData \cup PiData), guessed : SUBSET PoData,
             state : {"PARSED", "FUSED", "HUMAN_BLOCKED"}]
Held(row) == row.data \cup row.guessed

ASSUME ContentsAssumption ==
  /\ Contents \subseteq [kind : Kinds, holds : [Numbers -> SUBSET (PoData \cup PiData)]]
  /\ FusionCall \notin Docs /\ Nothing \notin Document /\ Nothing \notin ItemRow

NoFields == [n \in Numbers |-> {}]
Task(pc) == [pc |-> pc, got |-> Nothing, found |-> NoFields,
             seen |-> [n \in Numbers |-> Nothing]]

DInit ==
  /\ document = [d \in Docs |-> Nothing]
  /\ files = [f \in Names |-> Nothing]
  /\ itemRow = [n \in Numbers |-> Nothing]
  /\ task = [t \in Tasks |-> Task("idle")]
  /\ overlapped = {}

\* A session is open from its read to its commit.
InSession == {t \in Tasks : task[t].pc \in {"merge", "fuse"}}
Overlap(t) == overlapped' = IF InSession = {} THEN overlapped
                            ELSE overlapped \cup InSession \cup {t}
Step(t, pc) == task' = [task EXCEPT ![t].pc = pc]

-----------------------------------------------------------------------------
\* POST /documents/upload and POST /orders/{id}/documents: the file replaces
\* one of the same name; the class is guessed from the name.  The rows say
\* "classifying", the record in memory "pending".
Uploaded(f, guess) == [name |-> f, doc_class |-> guess,
                       status |-> "classifying", shown |-> "pending"]
Upload(d, f, c, guess) ==
  /\ document[d] = Nothing
  /\ files' = [files EXCEPT ![f] = c]
  /\ document' = [document EXCEPT ![d] = Uploaded(f, guess)]
  /\ task' = [task EXCEPT ![d] = Task("download")]
  /\ UNCHANGED <<itemRow, overlapped>>

\* _run_ai_classification: the bytes are read, then the agent is asked.
Download(d) ==
  /\ task[d].pc = "download"
  /\ task' = [task EXCEPT ![d].pc = "classify", ![d].got = files[document[d].name]]
  /\ UNCHANGED <<document, files, itemRow, overlapped>>

\* _run_item_extraction, its first half: the rows of a purchase order or a
\* proforma invoice are parsed, and those kept that are no summary lines.
Extraction(file, class, kept) ==
  LET fields == CASE class = "PURCHASE_ORDER"   -> PoData
                  [] class = "PROFORMA_INVOICE" -> PiData
                  [] OTHER -> {}
  IN [n \in Numbers |-> IF n \in kept THEN file.holds[n] \cap fields ELSE {}]

\* The agent's class is stored, or, when it raises, the guess stays: either
\* way the document counts as classified.
Classify(d, answer) ==
  /\ task[d].pc = "classify"
  /\ document' = [document EXCEPT ![d].status = "classified",
       ![d].doc_class = IF answer = Nothing THEN @ ELSE answer]
  /\ \E kept \in SUBSET Numbers :
       LET found == Extraction(task[d].got, answer, kept)
       IN task' = [task EXCEPT ![d].found = found,
                     ![d].pc = IF found = NoFields THEN "done" ELSE "read"]
  /\ UNCHANGED <<files, itemRow, overlapped>>

\* _run_item_extraction: the existing rows are read.
ReadRows(d) ==
  /\ task[d].pc = "read"
  /\ task' = [task EXCEPT ![d].pc = "merge", ![d].seen = itemRow]
  /\ Overlap(d)
  /\ UNCHANGED <<document, files, itemRow>>

\* The rows as the task's session holds them: a found item fills the empty
\* fields of the row that was read, or becomes a new row.
MergedEmptied(tk, n) ==   \* mutant: the fields found replace the row's
  IF tk.found[n] = {} THEN tk.seen[n]
  ELSE [data |-> tk.found[n], guessed |-> {},
        state |-> IF tk.seen[n] = Nothing THEN "PARSED" ELSE tk.seen[n].state]
MergedRow(tk, n) ==
  IF tk.found[n] = {} THEN tk.seen[n]
  ELSE IF tk.seen[n] = Nothing
       THEN [data |-> tk.found[n], guessed |-> {}, state |-> "PARSED"]
  ELSE [tk.seen[n] EXCEPT !.data = @ \cup (tk.found[n] \ tk.seen[n].guessed)]

\* The data of a row is one JSON column, its state another.
Rewritten(row, merged) ==
  [data |-> merged.data, guessed |-> merged.guessed, state |-> row.state]

InsertedRows(tk) == {n \in Numbers : tk.found[n] # {} /\ tk.seen[n] = Nothing}

\* The commit: every row whose data changed is written, with all of its data;
\* an insert of a number that has a row by now fails, and with it the whole
\* extraction, of which only a log line is left.
CommitRows(d) ==
  /\ task[d].pc = "merge"
  /\ LET tk == task[d]
         Written(n) == tk.seen[n] # Nothing /\ MergedRow(tk, n).data # tk.seen[n].data
     IN IF \E n \in InsertedRows(tk) : itemRow[n] # Nothing
        THEN Step(d, "done") /\ UNCHANGED itemRow
        ELSE /\ Step(d, "check")
             /\ itemRow' = [n \in Numbers |->
                  IF n \in InsertedRows(tk) THEN MergedRow(tk, n)
                  ELSE IF Written(n)
                  THEN Rewritten(itemRow[n], MergedRow(tk, n))
                  ELSE itemRow[n]]
  /\ UNCHANGED <<document, files, overlapped>>

\* Both sides are there: the items are fused.  The session still holds its
\* own copy of the rows it read or made; only the others are read afresh.
CheckSides(d) ==
  /\ task[d].pc = "check"
  /\ LET tk      == task[d]
         View(n) == IF MergedRow(tk, n) # Nothing THEN MergedRow(tk, n) ELSE itemRow[n]
         Has(f)  == \E n \in Numbers : View(n) # Nothing /\ f \in Held(View(n))
     IN Step(d, IF Has("upc") /\ Has("box_L") THEN "load" ELSE "done")
  /\ UNCHANGED <<document, files, itemRow, overlapped>>

\* POST /orders/{id}/fuse queues a task of its own.
CallFuse ==
  /\ task[FusionCall].pc = "idle"
  /\ \E n \in Numbers : itemRow[n] # Nothing
  /\ Step(FusionCall, "load")
  /\ UNCHANGED <<document, files, itemRow, overlapped>>

\* _run_fusion reads the rows in a session of its own.
LoadRows(t) ==
  /\ task[t].pc = "load"
  /\ task' = [task EXCEPT ![t].pc = "fuse", ![t].seen = itemRow]
  /\ Overlap(t)
  /\ UNCHANGED <<document, files, itemRow>>

\* A row goes to the side(s) some key field of which it has, and whole to both
\* when it has none; items on both sides are joined.
Known(tk)  == {n \in Numbers : tk.seen[n] # Nothing}
Split(row) == "upc" \in Held(row) /\ "box_L" \in Held(row)
Whole(row) == "upc" \notin Held(row) /\ "box_L" \notin Held(row)
Joined(tk) == {n \in Known(tk) : Split(tk.seen[n]) \/ Whole(tk.seen[n])}

\* A row of two sides keeps the fields that one of the two lists names.  The
\* agent's material replaces the row's, also by none; a suggestion it is sure
\* of replaces a value the checks warn of.
Unsent(row) == IF Split(row) THEN {"net_weight"} ELSE {}
Suggestions(row) == SUBSET IF Split(row) THEN {"upc", "material"} ELSE row.data \cap {"net_weight"}
Erased(row) == IF Split(row) THEN SUBSET {"material"} ELSE {{}}

FusedRow(row, given, erased, success) ==
  [data    |-> row.data \ (Unsent(row) \cup given \cup erased),
   guessed |-> (row.guessed \ (Unsent(row) \cup erased)) \cup given,
   state   |-> IF success THEN "FUSED" ELSE "HUMAN_BLOCKED"]
Fusions(row, success) ==
  {FusedRow(row, given, erased, success) : given \in Suggestions(row), erased \in Erased(row)}

\* Agent and commit: an item on one side alone is a critical issue, and the
\* success is that of the whole order, so every joined item gets one state.
FuseRows(t, success) ==
  /\ task[t].pc = "fuse"
  /\ success => Joined(task[t]) = Known(task[t])
  /\ LET seen == task[t].seen
         all  == UNION {Fusions(seen[n], success) : n \in Joined(task[t])}
     IN \E fused \in [Joined(task[t]) -> all] :
          /\ \A n \in Joined(task[t]) : fused[n] \in Fusions(seen[n], success)
          /\ itemRow' = [n \in Numbers |-> IF n \in Joined(task[t]) THEN fused[n] ELSE itemRow[n]]
  /\ Step(t, "done")
  /\ UNCHANGED <<document, files, overlapped>>

\* The agent raises: a log line.
FuseFails(t) ==
  /\ task[t].pc = "fuse"
  /\ Step(t, "done")
  /\ UNCHANGED <<document, files, itemRow, overlapped>>

\* POST /documents/{id}/classify writes the in-memory record alone, which is
\* all that GET /documents/{id} reads.
Reclassify(d, ok) ==
  /\ document[d] # Nothing /\ document[d].shown # "gone"
  /\ document' = [document EXCEPT ![d].shown = IF ok THEN "classified" ELSE "failed"]
  /\ UNCHANGED <<files, itemRow, task, overlapped>>

\* The process stops: tasks and the in-memory records are gone.
Stop ==
  /\ task' = [t \in Tasks |-> IF task[t].pc = "idle" THEN task[t]
                              ELSE [task[t] EXCEPT !.pc = "done",
                                     !.found = IF task[t].pc \in {"done", "check", "load", "fuse"}
                                               THEN @ ELSE NoFields]]
  /\ document' = [d \in Docs |-> IF document[d] = Nothing THEN Nothing
                                 ELSE [document[d] EXCEPT !.shown = "gone"]]
  /\ UNCHANGED <<files, itemRow, overlapped>>

DNext ==
  \/ \E d \in Docs :
       \/ \E f \in Names, c \in Contents, guess \in Kinds : Upload(d, f, c, guess)
       \/ Download(d) \/ ReadRows(d) \/ CommitRows(d) \/ CheckSides(d)
       \/ \E answer \in Kinds \cup {Nothing} : Classify(d, answer)
       \/ \E ok \in BOOLEAN : Reclassify(d, ok)
  \/ CallFuse \/ Stop
  \/ \E t \in Tasks : LoadRows(t) \/ FuseFails(t) \/ \E success \in BOOLEAN : FuseRows(t, success)

DSpec == DInit /\ [][DNext]_dvars

-----------------------------------------------------------------------------
\* The types of the variables.
DTypeOK ==
  /\ document \in [Docs -> Document \cup {Nothing}]
  /\ files \in [Names -> Contents \cup {Nothing}]
  /\ itemRow \in [Numbers -> ItemRow \cup {Nothing}]
  /\ overlapped \subseteq Tasks

\* The fields a row answers for: before a fusion those with a document's value,
\* after one also those that it drops, or that have the agent's value.
AnsweredFor(row) ==
  row.data \cup (IF row.state = "PARSED" THEN {}
               ELSE {"net_weight", "material"} \cup row.guessed)

\* What a document's task extracted is in the items' rows from its commit on,
\* through merges and, but for the fields that a fusion drops or replaces,
\* through fusions, unless a session of the task overlapped another task's:
\* then a stale merge or fusion, or an insert that fails, may lose any field.
ExtractedIsKept ==
  \A d \in Docs \ overlapped :
    task[d].pc \in {"check", "load", "fuse", "done"} =>
      \A n \in Numbers : task[d].found[n] # {} =>
        itemRow[n] # Nothing /\ task[d].found[n] \subseteq AnsweredFor(itemRow[n])

\* api/v1/orders.py:770-772 and 787-791: a fusion merges the two sides, "every
\* item holds BOTH sets of fields"; not so of the fields that neither list names
\* and of those the agent replaces.
FusionKeepsAll ==
  \A d \in Docs \ overlapped :
    task[d].pc \in {"check", "load", "fuse", "done"} =>
      \A n \in Numbers : task[d].found[n] # {} => task[d].found[n] \subseteq itemRow[n].data

\* api/v1/documents.py:327-329, "Poll GET /documents/{id} to check
\* classification_status".
ClassificationIsVisible ==
  \A d \in Docs : document[d] # Nothing =>
    (document[d].status = "classified" => document[d].shown # "pending")

=============================================================================
