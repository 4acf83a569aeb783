----------------------------- MODULE RuleVersions -----------------------------
(***************************************************************************)
(* The versions of one compliance rule code of a tenant (api/v1/rules.py): *)
(* operators create, edit, promote and roll back versions, and finalising  *)
(* an importer's onboarding (api/v1/importers.py) writes extracted rules   *)
(* into the same table.  The compliance stage evaluates every active row.  *)
(*                                                                         *)
(* Each call has a database session: it reads at one or two awaits and     *)
(* writes at its commit what it decided then.  The rollback alone reads    *)
(* after it has written: its second query flushes, and locks, the row.     *)
(***************************************************************************)
EXTENDS Naturals, FiniteSets, Sequences

CONSTANTS
  Rules,    \* row ids
  Calls,    \* ids of calls, each served once
  Logics,   \* contents of a rule
  Imports,  \* whether onboardings are finalised meanwhile
  None      \* no row

ASSUME RulesAssumption == IsFiniteSet(Rules) /\ None \notin Rules
ASSUME LogicsAssumption == None \notin Logics
ASSUME ImportsAssumption == Imports \in BOOLEAN

VARIABLES
  db,        \* the committed ComplianceRule rows of the code
  audit,     \* their AuditLog rows, oldest first
  call,      \* the coroutine of each call
  imported   \* rows an import has written

vars == <<db, audit, call, imported>>

-----------------------------------------------------------------------------
\* A row not inserted yet has version 0.
Row    == [version : Nat, active : BOOLEAN, logic : Logics \cup {None}]
Absent == [version |-> 0, active |-> FALSE, logic |-> None]

\* on and off are what an entry says was activated and deactivated.
Entry == [action : {"create", "update", "promote", "rollback"}, rule : Rules,
          on : SUBSET Rules, off : SUBSET Rules]

Stored == {r \in Rules : db[r].version > 0}
Active == {r \in Rules : db[r].active}

\* views are the sets of active versions the call found at its reads.
Call == [op : {"none", "create", "update", "promote", "rollback", "import"},
         pc : {"idle", "reading", "commit", "done", "refused", "raised"},
         rule : Rules \cup {None}, base : Row, logic : Logics \cup {None},
         version : Nat, others : SUBSET Rules, previous : Rules \cup {None},
         views : SUBSET SUBSET Rules]
Blank == [op |-> "none", pc |-> "idle", rule |-> None, base |-> Absent,
          logic |-> None, version |-> 0, others |-> {}, previous |-> None,
          views |-> {}]
Ended(outcome) == [Blank EXCEPT !.pc = outcome]

Init ==
  /\ db = [r \in Rules |-> Absent]
  /\ audit = <<>>
  /\ call = [c \in Calls |-> Blank]
  /\ imported = {}

-----------------------------------------------------------------------------
Begin(c, state) ==
  /\ call[c].pc = "idle"
  /\ call' = [call EXCEPT ![c] = state]
  /\ UNCHANGED <<db, audit, imported>>

\* create_rule numbers the new version after the highest one there is.
NextVersions == {v \in {1} \cup {db[r].version + 1 : r \in Stored} :
                   \A r \in Stored : db[r].version < v}
BeginCreate(c, l) ==
  \E v \in NextVersions :
    Begin(c, [Blank EXCEPT !.op = "create", !.pc = "commit", !.logic = l,
                           !.version = v])

\* The other calls read the row they are about first.
Loaded(op, pc, r) == [Blank EXCEPT !.op = op, !.pc = pc, !.rule = r,
                                   !.base = db[r], !.views = {Active}]

\* update_rule refuses an active version.
BeginUpdate(c, r, l) ==
  /\ r \in Stored
  /\ Begin(c, IF db[r].active THEN Ended("refused")
              ELSE [Loaded("update", "commit", r) EXCEPT !.logic = l])

BeginPromote(c, r) ==
  /\ r \in Stored
  /\ Begin(c, IF db[r].active THEN Ended("refused")
              ELSE Loaded("promote", "reading", r))

BeginRollback(c, r) ==
  /\ r \in Stored
  /\ Begin(c, IF db[r].active THEN Loaded("rollback", "reading", r)
              ELSE Ended("refused"))

\* _promote_extracted_to_canonical looks the code up as though it had one
\* row: with several the lookup raises and the call ends in a 500.
BeginImport(c, l) ==
  \/ /\ Cardinality(Stored) > 1
     /\ Begin(c, Ended("raised"))
  \/ /\ Stored = {}
     /\ Begin(c, [Blank EXCEPT !.op = "import", !.pc = "commit", !.logic = l,
                               !.views = {Active}])
  \/ \E r \in Stored :
       /\ Stored = {r}
       /\ Begin(c, [Loaded("import", "commit", r) EXCEPT !.logic = l])

-----------------------------------------------------------------------------
\* The row lock a rollback holds from its second query to its commit.
Locked(c) == {call[d].rule : d \in {e \in Calls \ {c} :
                call[e].op = "rollback" /\ call[e].pc = "commit"}}

\* promote_rule: the active versions it will deactivate.
OlderSiblings(r) == {s \in Active : db[s].version < db[r].version}   \* mutant
Siblings(r) == Active \ {r}
ReadSiblings(c) ==
  /\ call[c].op = "promote" /\ call[c].pc = "reading"
  /\ call' = [call EXCEPT ![c].pc = "commit", ![c].others = Siblings(call[c].rule),
                          ![c].views = @ \cup {Active}]
  /\ UNCHANGED <<db, audit, imported>>

\* rollback_rule: the version it will reactivate is the highest older one,
\* whether it was ever promoted or not; base is that row as it was read.
Previous(r, v) ==
  LET older == {s \in Stored \ {r} : db[s].version < v}
  IN IF older = {} THEN {None}
     ELSE {s \in older : \A t \in older : db[t].version <= db[s].version}
ReadPrevious(c) ==
  /\ call[c].op = "rollback" /\ call[c].pc = "reading"
  /\ call[c].rule \notin Locked(c)
  /\ \E previous \in Previous(call[c].rule, call[c].base.version) :
       call' = [call EXCEPT ![c].pc = "commit", ![c].previous = previous,
                  ![c].base = IF previous = None THEN Absent ELSE db[previous],
                  ![c].views = @ \cup {Active}]
  /\ UNCHANGED <<db, audit, imported>>

-----------------------------------------------------------------------------
LogTarget(action, r, on, off) ==   \* mutant: what a rollback restores is left out
  audit' = Append(audit, [action |-> action, rule |-> r, on |-> on \cap {r}, off |-> off])
Log(action, r, on, off) ==
  audit' = Append(audit, [action |-> action, rule |-> r, on |-> on, off |-> off])
End(c, outcome) == call' = [call EXCEPT ![c] = Ended(outcome)]

\* uq_compliance_rules_tenant_code_version
Taken(r, v) == \E s \in Stored \ {r} : db[s].version = v

CommitCreate(c) ==
  /\ call[c].op = "create" /\ call[c].pc = "commit"
  /\ ~Taken(None, call[c].version)
  /\ \E r \in Rules \ Stored :
       /\ db' = [db EXCEPT ![r] = [version |-> call[c].version, active |-> FALSE,
                                   logic |-> call[c].logic]]
       /\ Log("create", r, {}, {})
  /\ End(c, "done")
  /\ UNCHANGED imported

\* The insert or update of a version that exists fails, and the call with it.
FailTaken(c) ==
  /\ call[c].op \in {"create", "import"} /\ call[c].pc = "commit"
  /\ Taken(call[c].rule, IF call[c].op = "create" THEN call[c].version
                         ELSE call[c].base.version + 1)
  /\ End(c, "raised")
  /\ UNCHANGED <<db, audit, imported>>

\* Only a changed column is written.
Written(old, new, stored) == IF old = new THEN stored ELSE new

CommitUpdate(c) ==
  /\ call[c].op = "update" /\ call[c].pc = "commit"
  /\ call[c].rule \notin Locked(c)
  /\ LET r == call[c].rule
     IN /\ db' = [db EXCEPT ![r].logic = Written(call[c].base.logic, call[c].logic, @)]
        /\ Log("update", r, {}, {})
  /\ End(c, "done")
  /\ UNCHANGED imported

CommitPromote(c) ==
  /\ call[c].op = "promote" /\ call[c].pc = "commit"
  /\ LET r   == call[c].rule
         off == call[c].others
     IN /\ (off \cup {r}) \cap Locked(c) = {}
        /\ db' = [s \in Rules |-> IF s \in off THEN [db[s] EXCEPT !.active = FALSE]
                                  ELSE IF s = r THEN [db[s] EXCEPT !.active = TRUE]
                                  ELSE db[s]]
        /\ Log("promote", r, {r}, off)
  /\ End(c, "done")
  /\ UNCHANGED imported

RestoredAny(c) == {call[c].previous}   \* mutant: no previous version, and restored
Restored(c) == {call[c].previous} \ {None}
CommitRollback(c) ==
  /\ call[c].op = "rollback" /\ call[c].pc = "commit"
  /\ LET r == call[c].rule
         on == Restored(c)
     IN /\ on \cap Locked(c) = {}
        /\ db' = [s \in Rules |->
             IF s = r THEN [db[s] EXCEPT !.active = FALSE]
             ELSE IF s \in on
             THEN [db[s] EXCEPT !.active = Written(call[c].base.active, TRUE, @)]
             ELSE db[s]]
        /\ Log("rollback", r, on, {r})
  /\ End(c, "done")
  /\ UNCHANGED imported

\* An import writes no audit row: it inserts an active first version ...
CommitInsert(c) ==
  /\ call[c].op = "import" /\ call[c].pc = "commit" /\ call[c].rule = None
  /\ ~Taken(None, 1)
  /\ \E r \in Rules \ Stored :
       /\ db' = [db EXCEPT ![r] = [version |-> 1, active |-> TRUE,
                                   logic |-> call[c].logic]]
       /\ imported' = imported \cup {r}
  /\ End(c, "done")
  /\ UNCHANGED audit

\* ... or edits the one row, activates it and raises its version.
CommitImport(c) ==
  /\ call[c].op = "import" /\ call[c].pc = "commit" /\ call[c].rule # None
  /\ call[c].rule \notin Locked(c)
  /\ ~Taken(call[c].rule, call[c].base.version + 1)
  /\ LET r    == call[c].rule
         base == call[c].base
     IN /\ db' = [db EXCEPT ![r] =
                    [version |-> base.version + 1,
                     active  |-> Written(base.active, TRUE, @.active),
                     logic   |-> Written(base.logic, call[c].logic, @.logic)]]
        /\ imported' = imported \cup {r}
  /\ End(c, "done")
  /\ UNCHANGED audit

-----------------------------------------------------------------------------
Start(c) ==
  \/ \E l \in Logics : BeginCreate(c, l) \/ (Imports /\ BeginImport(c, l))
  \/ \E r \in Rules : BeginPromote(c, r) \/ BeginRollback(c, r)
  \/ \E r \in Rules, l \in Logics : BeginUpdate(c, r, l)

Step(c) ==
  \/ ReadSiblings(c) \/ ReadPrevious(c) \/ FailTaken(c)
  \/ CommitCreate(c) \/ CommitUpdate(c) \/ CommitPromote(c)
  \/ CommitRollback(c) \/ CommitInsert(c) \/ CommitImport(c)

Next == \E c \in Calls : Start(c) \/ Step(c)

Spec == Init /\ [][Next]_vars

-----------------------------------------------------------------------------
\* The types of the variables.
TypeOK ==
  /\ db \in [Rules -> Row]
  /\ audit \in Seq(Entry)
  /\ call \in [Calls -> Call]
  /\ imported \subseteq Rules

\* A second version becomes active only by the commit of a call that had read
\* another set of active versions than the one it changes: calls that do not
\* overlap leave at most one version live.
SecondActiveIsStale ==
  [][Cardinality(Active) <= 1 /\ Cardinality(Active') > 1 =>
       \E c \in Calls : /\ call[c].pc = "commit" /\ call'[c].pc = "done"
                        /\ call[c].views # {Active}]_vars

\* However calls overlap, the audit trail accounts for every active version
\* that no import wrote: an entry activates it and none after it deactivates it.
ActiveIsAudited ==
  \A r \in Active \ imported :
    \E i \in DOMAIN audit :
      /\ r \in audit[i].on
      /\ \A j \in i..Len(audit) : r \notin audit[j].off

-----------------------------------------------------------------------------
(* What the code says of itself.                                           *)

\* rules.py:523-524, promote "flips every other version of the same rule_code
\* in the tenant to is_active=False": it leaves the promoted one alone active.
PromoteDeactivatesOthers ==
  [][\A c \in Calls :
       call[c].op = "promote" /\ call[c].pc = "commit" /\ call'[c].pc = "done" =>
         Active' = {call[c].rule}]_vars

\* rules.py:18-20 and 584, a rollback "reverses the most recent promote": what
\* it reactivates has been promoted before.
ActiveWasPromoted ==
  \A r \in Active \ imported :
    \E i \in DOMAIN audit : audit[i].action = "promote" /\ audit[i].rule = r

\* rules.py:462-464, promoted rules "are immutable".
ActiveIsImmutable ==
  [][\A r \in Active : db'[r].logic = db[r].logic]_vars
=============================================================================
