------------------------- MODULE RuleVersions_proofs -------------------------
(***************************************************************************)
(* Proofs about RuleVersions for any finite set of rows and any calls: its *)
(* types, that the audit trail accounts for every active version, and that *)
(* a second version becomes active only by a call that had read outdated   *)
(* rows.                                                                   *)
(***************************************************************************)
EXTENDS RuleVersions, FiniteSetTheorems, TLAPS

\* Call c is an op that has loaded its rows; the ops that name a rule.
Under(c, op) == call[c].pc \in {"reading", "commit"} /\ call[c].op = op
ByRule == {"update", "promote", "rollback"}

\* The rows a call has found exist.
Known(c) ==
  /\ call[c].pc \in {"reading", "commit"} /\ call[c].op \in ByRule => call[c].rule \in Rules
  /\ call[c].rule \in Rules => db[call[c].rule].version > 0
  /\ call[c].previous \in Rules => db[call[c].previous].version > 0

\* What a call has read, and what it will change accordingly.
Read(c) ==
  /\ Under(c, "promote") =>
       /\ call[c].rule \notin call[c].others
       /\ call[c].pc = "commit" => \E A \in call[c].views : call[c].others = A \ {call[c].rule}
  /\ Under(c, "rollback") =>
       /\ call[c].previous # call[c].rule
       /\ \E A \in call[c].views : call[c].rule \in A
  /\ Under(c, "import") => \E A \in call[c].views : A \subseteq {call[c].rule}

\* The inductive invariant: an active row is a stored one, and so are the rows
\* calls rely on.
FoundInv == /\ \A r \in Active : db[r].version > 0
            /\ \A c \in Calls : Known(c)
ReadInv  == \A c \in Calls : Read(c)
TypeInv  == TypeOK /\ FoundInv
IInv     == TypeInv /\ ReadInv /\ ActiveIsAudited

-----------------------------------------------------------------------------
(* Types.                                                                  *)

\* A blank call is a call, and so is one that has ended or has just begun.
LEMMA BlankType ==
  /\ Blank \in Call
  /\ \A outcome \in {"done", "refused", "raised"} : Ended(outcome) \in Call
BY DEF Blank, Ended, Call, Row, Absent

\* A call that has loaded its row is typed.
LEMMA LoadedType ==
  ASSUME TypeOK, NEW op \in {"update", "promote", "rollback", "import"},
         NEW pc \in {"reading", "commit"}, NEW r \in Rules
  PROVE  /\ Loaded(op, pc, r) \in Call
         /\ \A l \in Logics : [Loaded(op, pc, r) EXCEPT !.logic = l] \in Call
<1>1. db[r] \in Row /\ Active \subseteq Rules
  BY DEF TypeOK, Active
<1> QED
  BY <1>1 DEF Loaded, Blank, Call, Row, Absent

\* The entry a step logs is one of the trail's.
LEMMA LogType ==
  ASSUME audit \in Seq(Entry), NEW action \in {"create", "update", "promote", "rollback"},
         NEW r \in Rules, NEW on \in SUBSET Rules, NEW off \in SUBSET Rules,
         Log(action, r, on, off)
  PROVE  audit' \in Seq(Entry)
<1>1. [action |-> action, rule |-> r, on |-> on, off |-> off] \in Entry
  BY DEF Entry
<1> QED
  BY <1>1 DEF Log

\* The types and the rows calls rely on hold initially ...
LEMMA TypeInit == Init => TypeInv
<1> SUFFICES ASSUME Init PROVE TypeInv
  OBVIOUS
<1>1. Absent \in Row
  BY DEF Absent, Row
<1>2. TypeOK
  BY <1>1, BlankType DEF Init, TypeOK
<1>3. FoundInv
  BY RulesAssumption DEF Init, FoundInv, Known, Blank, Active, Absent
<1> QED
  BY <1>2, <1>3 DEF TypeInv

\* ... are kept by a call that begins with rows that exist ...
LEMMA BeginStep ==
  ASSUME TypeInv, NEW c \in Calls, NEW x \in Call, Begin(c, x),
         x.previous = None, x.rule \in Rules => db[x.rule].version > 0,
         x.pc \in {"reading", "commit"} /\ x.op \in ByRule => x.rule \in Rules
  PROVE  TypeInv'
<1> USE DEF TypeInv, Begin
<1>1. TypeOK'
  BY DEF TypeOK
<1>2. /\ Active' = Active /\ db' = db
      /\ call'[c] = x /\ \A d \in Calls \ {c} : call'[d] = call[d]
  BY DEF TypeOK, Active
<1>3. FoundInv'
  BY <1>2, RulesAssumption DEF FoundInv, Known
<1> QED
  BY <1>1, <1>3

\* ... by a call that ends, provided stored rows stay stored and the active
\* ones are among them ...
LEMMA EndStep ==
  ASSUME TypeInv, NEW c \in Calls, NEW outcome \in {"done", "refused", "raised"},
         End(c, outcome), db' \in [Rules -> Row], audit' \in Seq(Entry),
         imported' \subseteq Rules,
         \A r \in Rules : db[r].version > 0 => db'[r].version > 0,
         \A r \in Active' : db'[r].version > 0
  PROVE  TypeInv'
<1> USE DEF TypeInv, End
<1>1. TypeOK'
  BY BlankType DEF TypeOK
<1>2. call'[c] = Ended(outcome) /\ \A d \in Calls \ {c} : call'[d] = call[d]
  BY DEF TypeOK
<1>3. \A d \in Calls \ {c} : Known(d)'
  BY <1>2 DEF FoundInv, Known
<1>4. Known(c)'
  BY <1>2, RulesAssumption DEF Known, Ended, Blank
<1> QED
  BY <1>1, <1>3, <1>4 DEF FoundInv

\* ... and so by every way to begin ...
LEMMA StartStep ==
  ASSUME TypeInv, NEW c \in Calls, Start(c)
  PROVE  TypeInv'
<1> USE DEF TypeInv
<1>1. \A r \in Stored : r \in Rules /\ db[r].version > 0
  BY DEF Stored
<1>2. ASSUME NEW l \in Logics, BeginCreate(c, l)
      PROVE  TypeInv'
  <2>1. PICK v \in NextVersions :
          Begin(c, [Blank EXCEPT !.op = "create", !.pc = "commit", !.logic = l, !.version = v])
    BY <1>2 DEF BeginCreate
  <2>2. v \in Nat
    BY DEF NextVersions, Stored, TypeOK, Row
  <2> DEFINE x == [Blank EXCEPT !.op = "create", !.pc = "commit", !.logic = l, !.version = v]
  <2>3. x \in Call
    BY <2>2, BlankType DEF Call
  <2>4. x.previous = None /\ x.rule = None /\ x.op = "create"
    BY DEF Blank
  <2> QED
    BY <2>1, <2>3, <2>4, BeginStep, RulesAssumption DEF ByRule
<1>3. ASSUME NEW outcome \in {"done", "refused", "raised"}, Begin(c, Ended(outcome))
      PROVE  TypeInv'
  <2>1. Ended(outcome).previous = None /\ Ended(outcome).rule = None
        /\ Ended(outcome).op = "none"
    BY DEF Ended, Blank
  <2> QED
    BY <1>3, <2>1, BlankType, BeginStep, RulesAssumption DEF ByRule
<1>4. ASSUME NEW op \in {"update", "promote", "rollback", "import"},
             NEW pc \in {"reading", "commit"}, NEW r \in Stored,
             Begin(c, Loaded(op, pc, r))
      PROVE  TypeInv'
  <2>1. Loaded(op, pc, r).previous = None /\ Loaded(op, pc, r).rule = r
    BY DEF Loaded, Blank
  <2>2. Loaded(op, pc, r) \in Call
    BY <1>1, LoadedType
  <2> QED
    BY <1>1, <1>4, <2>1, <2>2, BeginStep
<1>5. ASSUME NEW op \in {"update", "promote", "rollback", "import"},
             NEW pc \in {"reading", "commit"}, NEW r \in Stored, NEW l \in Logics,
             Begin(c, [Loaded(op, pc, r) EXCEPT !.logic = l])
      PROVE  TypeInv'
  <2> DEFINE x == [Loaded(op, pc, r) EXCEPT !.logic = l]
  <2>1. x.previous = None /\ x.rule = r
    BY DEF Loaded, Blank
  <2>2. x \in Call
    BY <1>1, LoadedType
  <2> QED
    BY <1>1, <1>5, <2>1, <2>2, BeginStep
<1>6. ASSUME NEW r \in Rules, NEW l \in Logics, BeginUpdate(c, r, l)
      PROVE  TypeInv'
  BY <1>3, <1>5, <1>6 DEF BeginUpdate
<1>7. ASSUME NEW r \in Rules, BeginPromote(c, r) \/ BeginRollback(c, r)
      PROVE  TypeInv'
  BY <1>3, <1>4, <1>7 DEF BeginPromote, BeginRollback
<1>8. ASSUME NEW l \in Logics, BeginImport(c, l)
      PROVE  TypeInv'
  <2> DEFINE x == [Blank EXCEPT !.op = "import", !.pc = "commit", !.logic = l,
                                !.views = {Active}]
  <2>1. x \in Call /\ x.previous = None /\ x.rule = None /\ x.op = "import"
    BY BlankType DEF Call, Active, Blank
  <2>2. CASE Begin(c, x)
    BY <2>1, <2>2, BeginStep, RulesAssumption DEF ByRule
  <2> QED
    BY <1>3, <1>5, <1>8, <2>2 DEF BeginImport
<1> QED
  BY <1>2, <1>6, <1>7, <1>8 DEF Start

\* ... by the second reads ...
LEMMA ReadStep ==
  ASSUME TypeInv, NEW c \in Calls, ReadSiblings(c) \/ ReadPrevious(c)
  PROVE  TypeInv'
<1> USE DEF TypeInv
<1> DEFINE q == call[c]
<1>1. q \in Call /\ Active \in SUBSET Rules
  BY DEF TypeOK, Active
<1>2. PICK x \in Call : /\ call' = [call EXCEPT ![c] = x]
                        /\ x.rule = q.rule /\ x.op = q.op
                        /\ x.previous \in Rules => db[x.previous].version > 0
                        /\ q.pc = "reading"
  <2>1. CASE ReadSiblings(c)
    <3> DEFINE x == [q EXCEPT !.pc = "commit", !.others = Siblings(q.rule),
                              !.views = @ \cup {Active}]
    <3>1. Siblings(q.rule) \in SUBSET Rules
      BY <1>1 DEF Siblings
    <3>2. x \in Call /\ x.rule = q.rule /\ x.op = q.op /\ x.previous = q.previous
      BY <1>1, <3>1 DEF Call
    <3>3. call' = [call EXCEPT ![c] = x] /\ q.pc = "reading"
      BY <2>1 DEF ReadSiblings
    <3> QED
      BY <3>2, <3>3 DEF FoundInv, Known
  <2>2. CASE ReadPrevious(c)
    <3>1. PICK p \in Previous(q.rule, q.base.version) :
            call' = [call EXCEPT ![c].pc = "commit", ![c].previous = p,
                       ![c].base = IF p = None THEN Absent ELSE db[p],
                       ![c].views = @ \cup {Active}]
      BY <2>2 DEF ReadPrevious
    <3> DEFINE base == IF p = None THEN Absent ELSE db[p]
               x == [q EXCEPT !.pc = "commit", !.previous = p, !.base = base,
                              !.views = @ \cup {Active}]
    <3>2. p = None \/ (p \in Rules /\ db[p].version > 0)
      BY DEF Previous, Stored
    <3>3. base \in Row
      BY <3>2 DEF Absent, Row, TypeOK
    <3>4. x \in Call /\ x.rule = q.rule /\ x.op = q.op /\ x.previous = p
      BY <1>1, <3>2, <3>3 DEF Call
    <3>5. call' = [call EXCEPT ![c] = x] /\ q.pc = "reading"
      BY <2>2, <3>1 DEF ReadPrevious
    <3> QED
      BY <3>2, <3>4, <3>5, RulesAssumption
  <2> QED
    BY <2>1, <2>2
<1>3. UNCHANGED <<db, audit, imported>>
  BY DEF ReadSiblings, ReadPrevious
<1>4. TypeOK'
  BY <1>2, <1>3 DEF TypeOK
<1>5. Active' = Active
  BY <1>3 DEF Active
<1>6. call'[c].rule = q.rule /\ call'[c].op = q.op
      /\ \A d \in Calls \ {c} : call'[d] = call[d]
  BY <1>2 DEF TypeOK
<1>7. \A d \in Calls \ {c} : Known(d)'
  BY <1>3, <1>6 DEF FoundInv, Known
<1>8. Known(c)'
  BY <1>2, <1>3, <1>6 DEF FoundInv, Known, TypeOK
<1> QED
  BY <1>3, <1>4, <1>5, <1>7, <1>8 DEF FoundInv

\* ... and by every commit.
LEMMA CommitStep ==
  ASSUME TypeInv, NEW c \in Calls,
         \/ CommitCreate(c) \/ FailTaken(c) \/ CommitUpdate(c) \/ CommitPromote(c)
         \/ CommitRollback(c) \/ CommitInsert(c) \/ CommitImport(c)
  PROVE  TypeInv'
<1> USE DEF TypeInv
<1> DEFINE q == call[c]
<1>1. q \in Call /\ q.base \in Row /\ q.version \in Nat /\ q.logic \in Logics \cup {None}
      /\ q.others \subseteq Rules /\ q.rule \in Rules \cup {None}
      /\ q.previous \in Rules \cup {None}
  BY DEF TypeOK, Call
<1>2. db \in [Rules -> Row] /\ audit \in Seq(Entry) /\ imported \subseteq Rules
  BY DEF TypeOK
<1>3. \A r \in Rules : /\ db[r].version \in Nat /\ db[r].active \in BOOLEAN
                       /\ db[r].logic \in Logics \cup {None}
  BY <1>2 DEF Row
<1>4. /\ q.base.version \in Nat /\ q.base.active \in BOOLEAN
      /\ q.base.logic \in Logics \cup {None}
  BY <1>1 DEF Row
<1>5. \A r \in Rules : db[r].active => db[r].version > 0
  BY DEF FoundInv, Active
<1>6. CASE FailTaken(c)
  <2>1. End(c, "raised") /\ UNCHANGED <<db, audit, imported>>
    BY <1>6 DEF FailTaken
  <2> QED
    BY <1>2, <1>5, <2>1, EndStep DEF Active
<1>7. ASSUME NEW r \in Rules, NEW v \in Nat, NEW on \in BOOLEAN,
             NEW l \in Logics \cup {None}, v > 0,
             db' = [db EXCEPT ![r] = [version |-> v, active |-> on, logic |-> l]],
             audit' \in Seq(Entry), imported' \subseteq Rules, End(c, "done")
      PROVE  TypeInv'
  <2>1. db' \in [Rules -> Row]
    BY <1>2, <1>7 DEF Row
  <2>2. \A s \in Rules : db[s].version > 0 => db'[s].version > 0
    BY <1>2, <1>7
  <2>3. \A s \in Active' : db'[s].version > 0
    BY <1>2, <1>5, <1>7 DEF Active
  <2> QED
    BY <1>7, <2>1, <2>2, <2>3, EndStep
<1>8. CASE CommitCreate(c)
  <2>1. PICK r \in Rules \ Stored :
          /\ db' = [db EXCEPT ![r] = [version |-> q.version, active |-> FALSE, logic |-> q.logic]]
          /\ Log("create", r, {}, {})
    BY <1>8 DEF CommitCreate
  <2>2. audit' \in Seq(Entry)
    BY <1>2, <2>1, LogType
  <2>3. db' \in [Rules -> Row]
    BY <1>1, <1>2, <2>1 DEF Row
  <2>4. \A s \in Rules : db[s].version > 0 => db'[s].version > 0
    BY <1>2, <2>1 DEF Stored
  <2>5. \A s \in Active' : db'[s].version > 0
    BY <1>2, <1>5, <2>1 DEF Active
  <2>6. End(c, "done") /\ imported' \subseteq Rules
    BY <1>2, <1>8 DEF CommitCreate
  <2> QED
    BY <2>2, <2>3, <2>4, <2>5, <2>6, EndStep
<1>9. CASE CommitUpdate(c)
  <2>1. q.rule \in Rules
    BY <1>9 DEF CommitUpdate, FoundInv, Known, ByRule
  <2>2. PICK l \in Logics \cup {None} : db' = [db EXCEPT ![q.rule].logic = l]
    BY <1>1, <1>3, <1>9, <2>1 DEF CommitUpdate, Written
  <2>3. audit' \in Seq(Entry)
    BY <1>2, <1>9, <2>1, LogType DEF CommitUpdate
  <2>4. db' \in [Rules -> Row]
    BY <1>2, <2>1, <2>2 DEF Row
  <2>5. \A s \in Rules : db'[s].version = db[s].version /\ db'[s].active = db[s].active
    BY <1>2, <2>1, <2>2 DEF Row
  <2>6. End(c, "done") /\ imported' \subseteq Rules
    BY <1>2, <1>9 DEF CommitUpdate
  <2> QED
    BY <1>5, <2>3, <2>4, <2>5, <2>6, EndStep DEF Active
<1>10. ASSUME NEW action \in {"promote", "rollback"}, NEW r \in Rules,
              NEW on \in SUBSET Rules, NEW off \in SUBSET Rules,
              \A s \in on : db[s].version > 0,
              db' \in [Rules -> Row],
              \A s \in Rules : /\ db'[s].version = db[s].version
                               /\ db'[s].active => db[s].active \/ s \in on,
              Log(action, r, on, off), imported' = imported, End(c, "done")
       PROVE  TypeInv'
  <2>1. audit' \in Seq(Entry)
    BY <1>2, <1>10, LogType
  <2> QED
    BY <1>2, <1>5, <1>10, <2>1, EndStep DEF Active
<1>11. CASE CommitPromote(c)
  <2>1. q.rule \in Rules /\ db[q.rule].version > 0
    BY <1>11 DEF CommitPromote, FoundInv, Known, ByRule
  <2>2. db' = [s \in Rules |-> IF s \in q.others THEN [db[s] EXCEPT !.active = FALSE]
                               ELSE IF s = q.rule THEN [db[s] EXCEPT !.active = TRUE]
                               ELSE db[s]]
    BY <1>11 DEF CommitPromote
  <2>3. \A s \in Rules : db'[s] \in Row /\ db'[s].version = db[s].version
                         /\ (db'[s].active => db[s].active \/ s \in {q.rule})
    BY <1>2, <2>2 DEF Row
  <2> QED
    BY <1>1, <1>10, <1>11, <2>1, <2>2, <2>3 DEF CommitPromote
<1>12. CASE CommitRollback(c)
  <2>1. q.rule \in Rules /\ Restored(c) \subseteq Rules
        /\ \A s \in Restored(c) : db[s].version > 0
    BY <1>1, <1>12, RulesAssumption DEF CommitRollback, FoundInv, Known, ByRule, Restored
  <2>2. db' = [s \in Rules |->
                 IF s = q.rule THEN [db[s] EXCEPT !.active = FALSE]
                 ELSE IF s \in Restored(c)
                 THEN [db[s] EXCEPT !.active = Written(q.base.active, TRUE, @)]
                 ELSE db[s]]
    BY <1>12 DEF CommitRollback
  <2>3. \A s \in Rules : Written(q.base.active, TRUE, db[s].active) \in BOOLEAN
    BY <1>3 DEF Written
  <2>4. \A s \in Rules : db'[s] \in Row /\ db'[s].version = db[s].version
                         /\ (db'[s].active => db[s].active \/ s \in Restored(c))
    BY <1>2, <2>2, <2>3 DEF Row
  <2>5. Log("rollback", q.rule, Restored(c), {q.rule}) /\ imported' = imported /\ End(c, "done")
    BY <1>12 DEF CommitRollback
  <2>6. db' \in [Rules -> Row]
    BY <2>2, <2>4
  <2>7. Restored(c) \in SUBSET Rules /\ {q.rule} \in SUBSET Rules
    BY <2>1
  <2> HIDE DEF q
  <2> QED
    BY <1>10, <2>1, <2>4, <2>5, <2>6, <2>7
<1>13. CASE CommitInsert(c)
  <2>1. PICK r \in Rules :
          /\ db' = [db EXCEPT ![r] = [version |-> 1, active |-> TRUE, logic |-> q.logic]]
          /\ imported' = imported \cup {r}
    BY <1>13 DEF CommitInsert
  <2>2. audit' \in Seq(Entry) /\ imported' \subseteq Rules /\ End(c, "done")
    BY <1>2, <1>13, <2>1 DEF CommitInsert
  <2>3. 1 \in Nat /\ 1 > 0 /\ TRUE \in BOOLEAN /\ q.logic \in Logics \cup {None}
    BY <1>1
  <2> QED
    BY <1>7, <2>1, <2>2, <2>3
<1>14. CASE CommitImport(c)
  <2>1. q.rule \in Rules
    BY <1>1, <1>14 DEF CommitImport
  <2>2. /\ Written(q.base.active, TRUE, db[q.rule].active) \in BOOLEAN
        /\ Written(q.base.logic, q.logic, db[q.rule].logic) \in Logics \cup {None}
    BY <1>1, <1>3, <2>1 DEF Written
  <2>3. db' = [db EXCEPT ![q.rule] =
                 [version |-> q.base.version + 1,
                  active  |-> Written(q.base.active, TRUE, db[q.rule].active),
                  logic   |-> Written(q.base.logic, q.logic, db[q.rule].logic)]]
    BY <1>2, <1>14, <2>1 DEF CommitImport
  <2>4. audit' \in Seq(Entry) /\ imported' \subseteq Rules /\ End(c, "done")
    BY <1>2, <1>14, <2>1 DEF CommitImport
  <2>5. q.base.version + 1 \in Nat /\ q.base.version + 1 > 0
    BY <1>4
  <2> QED
    BY <1>7, <2>1, <2>2, <2>3, <2>4, <2>5
<1> QED
  BY <1>6, <1>8, <1>9, <1>11, <1>12, <1>13, <1>14

\* So they hold in every reachable state.
LEMMA TypeStep == TypeInv /\ [Next]_vars => TypeInv'
<1>1. ASSUME TypeInv, UNCHANGED vars PROVE TypeInv'
  BY <1>1 DEF TypeInv, TypeOK, FoundInv, Known, Active, vars
<1>2. ASSUME TypeInv, NEW c \in Calls, Step(c) PROVE TypeInv'
  BY <1>2, ReadStep, CommitStep DEF Step
<1> QED
  BY <1>1, <1>2, StartStep DEF Next

\* The typing layer is an invariant by itself.
LEMMA TypesHold == Spec => []TypeInv
BY TypeInit, TypeStep, PTL DEF Spec

\* The variables always have their types.
THEOREM TypeCorrect == Spec => []TypeOK
BY TypesHold, PTL DEF TypeInv

-----------------------------------------------------------------------------
(* What calls have read.                                                   *)

\* The step of a call leaves the others alone.
LEMMA OthersStay ==
  ASSUME TypeOK, NEW c \in Calls, Start(c) \/ Step(c), NEW d \in Calls \ {c}
  PROVE  call'[d] = call[d]
BY DEF TypeOK, Start, Step, BeginCreate, BeginUpdate, BeginPromote, BeginRollback,
       BeginImport, Begin, ReadSiblings, ReadPrevious, FailTaken, CommitCreate,
       CommitUpdate, CommitPromote, CommitRollback, CommitInsert, CommitImport, End

\* A call that has ended needs to know nothing, and an import that begins has
\* found no active version but its own row.
LEMMA StartReads ==
  ASSUME TypeInv, NEW c \in Calls, Start(c)
  PROVE  Read(c)'
<1> USE DEF TypeInv
<1>1. ASSUME NEW outcome \in {"done", "refused", "raised"}, Begin(c, Ended(outcome))
      PROVE  Read(c)'
  <2>1. call'[c].pc = outcome
    BY <1>1 DEF Begin, Ended, Blank, TypeOK
  <2> QED
    BY <2>1 DEF Read, Under
<1>2. ASSUME NEW l \in Logics, BeginCreate(c, l)
      PROVE  Read(c)'
  <2>1. call'[c].op = "create"
    BY <1>2 DEF BeginCreate, Begin, Blank, TypeOK
  <2> QED
    BY <2>1 DEF Read, Under
<1>3. ASSUME NEW r \in Rules, NEW l \in Logics, BeginUpdate(c, r, l)
      PROVE  Read(c)'
  <2>1. CASE Begin(c, [Loaded("update", "commit", r) EXCEPT !.logic = l])
    <3>1. call'[c].op = "update"
      BY <2>1 DEF Begin, Loaded, Blank, TypeOK
    <3> QED
      BY <3>1 DEF Read, Under
  <2> QED
    BY <1>1, <1>3, <2>1 DEF BeginUpdate
<1>4. ASSUME NEW r \in Rules, BeginPromote(c, r)
      PROVE  Read(c)'
  <2>1. CASE Begin(c, Loaded("promote", "reading", r))
    <3>1. call'[c].op = "promote" /\ call'[c].pc = "reading" /\ call'[c].others = {}
      BY <2>1 DEF Begin, Loaded, Blank, TypeOK
    <3> QED
      BY <3>1 DEF Read, Under
  <2> QED
    BY <1>1, <1>4, <2>1 DEF BeginPromote
<1>5. ASSUME NEW r \in Rules, BeginRollback(c, r)
      PROVE  Read(c)'
  <2>1. CASE db[r].active /\ Begin(c, Loaded("rollback", "reading", r))
    <3>1. /\ call'[c].op = "rollback" /\ call'[c].rule = r
          /\ call'[c].previous = None /\ call'[c].views = {Active}
      BY <2>1 DEF Begin, Loaded, Blank, TypeOK
    <3>2. r \in Active
      BY <2>1 DEF Active
    <3> QED
      BY <3>1, <3>2, RulesAssumption DEF Read, Under
  <2> QED
    BY <1>1, <1>5, <2>1 DEF BeginRollback
<1>6. ASSUME NEW l \in Logics, BeginImport(c, l)
      PROVE  Read(c)'
  <2>1. Active \subseteq Stored
    BY DEF FoundInv, Active, Stored
  <2>2. CASE Stored = {} /\ Begin(c, [Blank EXCEPT !.op = "import", !.pc = "commit",
                                                   !.logic = l, !.views = {Active}])
    <3>1. call'[c].op = "import" /\ call'[c].views = {Active}
      BY <2>2 DEF Begin, Blank, TypeOK
    <3> QED
      BY <2>1, <2>2, <3>1 DEF Read, Under
  <2>3. ASSUME NEW r \in Stored, Stored = {r},
               Begin(c, [Loaded("import", "commit", r) EXCEPT !.logic = l])
        PROVE  Read(c)'
    <3>1. call'[c].op = "import" /\ call'[c].views = {Active} /\ call'[c].rule = r
      BY <2>3 DEF Begin, Loaded, Blank, TypeOK
    <3> QED
      BY <2>1, <2>3, <3>1 DEF Read, Under
  <2> QED
    BY <1>1, <1>6, <2>2, <2>3 DEF BeginImport
<1> QED
  BY <1>2, <1>3, <1>4, <1>5, <1>6 DEF Start

\* Neither a second read nor a commit loses what a call has read.
LEMMA StepReads ==
  ASSUME TypeInv, NEW c \in Calls, Step(c), Read(c)
  PROVE  Read(c)'
<1> USE DEF TypeInv
<1>1. CASE ReadSiblings(c)
  <2>1. /\ call'[c].op = "promote" /\ call'[c].rule = call[c].rule
        /\ call'[c].others = Active \ {call[c].rule}
        /\ Active \in call'[c].views
    BY <1>1 DEF ReadSiblings, Siblings, TypeOK, Call
  <2> QED
    BY <2>1 DEF Read, Under
<1>2. CASE ReadPrevious(c)
  <2>1. PICK p \in Previous(call[c].rule, call[c].base.version) :
          /\ call'[c].op = "rollback" /\ call'[c].rule = call[c].rule
          /\ call'[c].previous = p /\ call[c].views \subseteq call'[c].views
    BY <1>2 DEF ReadPrevious, TypeOK, Call
  <2>2. p # call[c].rule
    <3>1. call[c].rule \in Rules
      BY <1>2 DEF ReadPrevious, FoundInv, Known, ByRule
    <3> QED
      BY <3>1, RulesAssumption DEF Previous
  <2> QED
    BY <1>2, <2>1, <2>2 DEF Read, Under, ReadPrevious
<1>3. ASSUME NEW outcome \in {"done", "raised"}, End(c, outcome)
      PROVE  Read(c)'
  <2>1. call'[c].pc = outcome
    BY <1>3 DEF End, Ended, Blank, TypeOK
  <2> QED
    BY <2>1 DEF Read, Under
<1> QED
  BY <1>1, <1>2, <1>3 DEF Step, FailTaken, CommitCreate, CommitUpdate, CommitPromote,
       CommitRollback, CommitInsert, CommitImport

\* So what calls have read is as Read says, in every step.
LEMMA ReadInvStep ==
  ASSUME TypeInv, ReadInv, [Next]_vars
  PROVE  ReadInv'
<1>1. CASE UNCHANGED vars
  BY <1>1 DEF ReadInv, Read, Under, vars
<1>2. ASSUME NEW c \in Calls, Start(c) \/ Step(c)
      PROVE  ReadInv'
  <2>1. \A d \in Calls \ {c} : Read(d)'
    BY <1>2, OthersStay DEF ReadInv, Read, Under, TypeInv
  <2> QED
    BY <1>2, <2>1, StartReads, StepReads DEF ReadInv
<1> QED
  BY <1>1, <1>2 DEF Next

-----------------------------------------------------------------------------
(* The audit trail.                                                        *)

\* An entry activates r and none after it deactivates r.
Audited(r) == \E i \in DOMAIN audit : /\ r \in audit[i].on
                                      /\ \A j \in i..Len(audit) : r \notin audit[j].off

\* The trail keeps accounting for what the new entry does not deactivate, and
\* accounts for what it activates.
LEMMA LogAudits ==
  ASSUME audit \in Seq(Entry), NEW action, NEW s, NEW on, NEW off,
         Log(action, s, on, off), NEW r, r \notin off, Audited(r) \/ r \in on
  PROVE  Audited(r)'
<1> DEFINE e == [action |-> action, rule |-> s, on |-> on, off |-> off]
           n == Len(audit)
<1>1. audit' = Append(audit, e) /\ n \in Nat
  BY DEF Log
<1>2. /\ Len(audit') = n + 1 /\ DOMAIN audit' = 1..(n + 1) /\ DOMAIN audit = 1..n
      /\ audit'[n + 1] = e /\ \A i \in 1..n : audit'[i] = audit[i]
  BY <1>1
<1>3. e.on = on /\ e.off = off
  OBVIOUS
<1>4. CASE r \in on
  <2>1. \A j \in (n + 1)..Len(audit') : j = n + 1
    BY <1>1, <1>2
  <2>2. n + 1 \in DOMAIN audit'
    BY <1>1, <1>2
  <2> HIDE DEF e
  <2> QED
    BY <1>2, <1>3, <1>4, <2>1, <2>2 DEF Audited
<1>5. CASE Audited(r)
  <2>1. PICK i \in 1..n : r \in audit[i].on /\ \A j \in i..n : r \notin audit[j].off
    BY <1>2, <1>5 DEF Audited
  <2>2. \A j \in i..(n + 1) : j \in i..n \/ j = n + 1
    BY <1>1, <2>1
  <2>3. \A j \in i..n : j \in 1..n
    BY <1>1, <2>1
  <2>4. i \in 1..(n + 1)
    BY <1>1, <2>1
  <2> HIDE DEF e
  <2> QED
    BY <1>2, <1>3, <2>1, <2>2, <2>3, <2>4 DEF Audited
<1> QED
  BY <1>4, <1>5

\* Every commit that activates a version logs it, or is an import's.
LEMMA AuditStep ==
  ASSUME TypeInv, ReadInv, ActiveIsAudited, [Next]_vars
  PROVE  ActiveIsAudited'
<1> SUFFICES ASSUME NEW r \in Active', r \notin imported'
             PROVE  Audited(r)'
  BY DEF ActiveIsAudited, Audited
<1> USE DEF TypeInv
<1>1. r \in Rules /\ db'[r].active /\ audit \in Seq(Entry) /\ db \in [Rules -> Row]
  BY DEF Active, TypeOK
<1>2. ASSUME r \in Active, r \notin imported PROVE Audited(r)
  BY <1>2 DEF ActiveIsAudited, Audited
<1>3. CASE UNCHANGED <<db, audit, imported>>
  BY <1>2, <1>3 DEF Active, Audited
<1>4. ASSUME NEW c \in Calls, NEW action, NEW s, Log(action, s, {}, {}),
             r \in Active, r \notin imported
      PROVE  Audited(r)'
  BY <1>1, <1>2, <1>4, LogAudits
<1>5. ASSUME NEW c \in Calls, CommitCreate(c)
      PROVE  Audited(r)'
  <2>1. PICK s \in Rules \ Stored :
          /\ db' = [db EXCEPT ![s] = [version |-> call[c].version, active |-> FALSE,
                                      logic |-> call[c].logic]]
          /\ Log("create", s, {}, {})
    BY <1>5 DEF CommitCreate
  <2>2. r \in Active /\ r \notin imported
    BY <1>1, <1>5, <2>1 DEF Active, CommitCreate
  <2> QED
    BY <1>4, <2>1, <2>2
<1>6. ASSUME NEW c \in Calls, CommitUpdate(c)
      PROVE  Audited(r)'
  <2>1. r \in Active /\ r \notin imported
    BY <1>1, <1>6 DEF Active, CommitUpdate, Row
  <2> QED
    BY <1>4, <1>6, <2>1 DEF CommitUpdate
<1>7. ASSUME NEW c \in Calls, CommitPromote(c)
      PROVE  Audited(r)'
  <2> DEFINE s == call[c].rule
             off == call[c].others
  <2>1. s \notin off
    BY <1>7 DEF CommitPromote, ReadInv, Read, Under
  <2>2. /\ db' = [u \in Rules |-> IF u \in off THEN [db[u] EXCEPT !.active = FALSE]
                                  ELSE IF u = s THEN [db[u] EXCEPT !.active = TRUE]
                                  ELSE db[u]]
        /\ Log("promote", s, {s}, off) /\ imported' = imported
    BY <1>7 DEF CommitPromote
  <2>3. r \notin off
    BY <1>1, <2>2 DEF Row
  <2>4. r = s \/ r \in Active
    BY <1>1, <2>2, <2>3 DEF Active
  <2>5. Audited(r) \/ r \in {s}
    BY <1>2, <2>2, <2>4
  <2> HIDE DEF s, off
  <2> QED
    BY <1>1, <2>2, <2>3, <2>5, LogAudits
<1>8. ASSUME NEW c \in Calls, CommitRollback(c)
      PROVE  Audited(r)'
  <2> DEFINE s == call[c].rule
             on == Restored(c)
  <2>1. /\ db' = [u \in Rules |->
                    IF u = s THEN [db[u] EXCEPT !.active = FALSE]
                    ELSE IF u \in on
                    THEN [db[u] EXCEPT !.active = Written(call[c].base.active, TRUE, @)]
                    ELSE db[u]]
        /\ Log("rollback", s, on, {s}) /\ imported' = imported
    BY <1>8 DEF CommitRollback
  <2>2. r \notin {s}
    BY <1>1, <2>1 DEF Row
  <2>3. r \in on \/ r \in Active
    BY <1>1, <2>1, <2>2 DEF Active
  <2>4. Audited(r) \/ r \in on
    BY <1>2, <2>1, <2>3
  <2> HIDE DEF s, on
  <2> QED
    BY <1>1, <2>1, <2>2, <2>4, LogAudits
<1>9. ASSUME NEW c \in Calls, CommitInsert(c) \/ CommitImport(c)
      PROVE  Audited(r)'
  <2>1. PICK s \in Rules \cup {None} : /\ imported' = imported \cup {s} /\ audit' = audit
                                       /\ \A u \in Rules \ {s} : db'[u] = db[u]
    <3>1. CASE CommitInsert(c)
      BY <1>1, <3>1 DEF CommitInsert
    <3>2. CASE CommitImport(c)
      <4>1. call[c].rule \in Rules \cup {None}
        BY DEF TypeOK, Call
      <4> QED
        BY <1>1, <3>2, <4>1 DEF CommitImport
    <3> QED
      BY <1>9, <3>1, <3>2
  <2>2. r \in Active /\ r \notin imported
    BY <1>1, <2>1 DEF Active
  <2> QED
    BY <1>2, <2>1, <2>2 DEF Audited
<1>10. ASSUME NEW c \in Calls, Start(c) \/ ReadSiblings(c) \/ ReadPrevious(c) \/ FailTaken(c)
       PROVE  UNCHANGED <<db, audit, imported>>
  BY <1>10 DEF Start, BeginCreate, BeginUpdate, BeginPromote, BeginRollback, BeginImport,
               Begin, ReadSiblings, ReadPrevious, FailTaken
<1> QED
  BY <1>3, <1>5, <1>6, <1>7, <1>8, <1>9, <1>10 DEF Next, Step, vars

\* The inductive invariant holds in every reachable state.
LEMMA IInvHolds == Spec => []IInv
<1>1. Init => IInv
  <2> SUFFICES ASSUME Init PROVE ReadInv /\ ActiveIsAudited
    BY TypeInit DEF IInv
  <2> QED
    BY DEF Init, ReadInv, Read, Under, ActiveIsAudited, Active, Blank, Absent
<1>2. IInv /\ [Next]_vars => IInv'
  BY TypeStep, ReadInvStep, AuditStep DEF IInv
<1> QED
  BY <1>1, <1>2, PTL DEF Spec

\* However calls overlap, the audit trail accounts for every active version
\* that no import wrote.
THEOREM ActiveAudited == Spec => []ActiveIsAudited
BY IInvHolds, PTL DEF IInv

-----------------------------------------------------------------------------
(* A second active version.                                                *)

\* A set with at most one element that is in it is that element alone.
LEMMA OnlyActive ==
  ASSUME Cardinality(Active) <= 1, NEW r \in Active
  PROVE  Active = {r}
<1>1. IsFiniteSet(Active)
  BY RulesAssumption, FS_Subset DEF Active
<1>2. Cardinality(Active) \in Nat /\ Cardinality(Active) # 0
  BY <1>1, FS_CardinalityType, FS_EmptySet
<1>3. Cardinality(Active) = 1
  BY <1>2
<1> QED
  BY <1>1, <1>3, FS_Singleton

\* A commit that works on what is stored leaves at most one version active.
LEMMA FreshCommit ==
  ASSUME TypeInv, ReadInv, Cardinality(Active) <= 1,
         NEW c \in Calls, call[c].views = {Active},
         \/ CommitPromote(c) \/ CommitRollback(c) \/ CommitInsert(c) \/ CommitImport(c)
  PROVE  Cardinality(Active') <= 1
<1> USE DEF TypeInv
<1>1. ASSUME NEW r, Active' \subseteq {r}
      PROVE  Cardinality(Active') <= 1
  BY <1>1, FS_Singleton, FS_EmptySet
<1>2. db \in [Rules -> Row]
  BY DEF TypeOK
<1> DEFINE s == call[c].rule
<1>3. CASE CommitPromote(c)
  <2>1. call[c].others = Active \ {s}
    BY <1>3 DEF CommitPromote, ReadInv, Read, Under
  <2>2. db' = [u \in Rules |-> IF u \in call[c].others THEN [db[u] EXCEPT !.active = FALSE]
                               ELSE IF u = s THEN [db[u] EXCEPT !.active = TRUE]
                               ELSE db[u]]
    BY <1>3 DEF CommitPromote
  <2>3. Active' \subseteq {s}
    BY <1>2, <2>1, <2>2 DEF Active, Row
  <2> QED
    BY <1>1, <2>3
<1>4. CASE CommitRollback(c)
  <2>1. s \in Active
    BY <1>4 DEF CommitRollback, ReadInv, Read, Under
  <2>2. Active = {s}
    BY <2>1, OnlyActive
  <2>3. db' = [u \in Rules |->
                 IF u = s THEN [db[u] EXCEPT !.active = FALSE]
                 ELSE IF u \in Restored(c)
                 THEN [db[u] EXCEPT !.active = Written(call[c].base.active, TRUE, @)]
                 ELSE db[u]]
    BY <1>4 DEF CommitRollback
  <2>4. Active' \subseteq {call[c].previous}
    BY <1>2, <2>2, <2>3 DEF Active, Row, Restored
  <2> QED
    BY <1>1, <2>4
<1>5. CASE CommitInsert(c)
  <2>1. Active = {}
    BY <1>5, RulesAssumption DEF CommitInsert, ReadInv, Read, Under, Active
  <2>2. PICK r \in Rules : db' = [db EXCEPT ![r] = [version |-> 1, active |-> TRUE,
                                                    logic |-> call[c].logic]]
    BY <1>5 DEF CommitInsert
  <2>3. Active' \subseteq {r}
    BY <1>2, <2>1, <2>2 DEF Active
  <2> QED
    BY <1>1, <2>3
<1>6. CASE CommitImport(c)
  <2>1. Active \subseteq {s}
    BY <1>6 DEF CommitImport, ReadInv, Read, Under
  <2>2. \A u \in Rules \ {s} : db'[u] = db[u]
    BY <1>2, <1>6 DEF CommitImport
  <2>3. Active' \subseteq {s}
    BY <2>1, <2>2 DEF Active
  <2> QED
    BY <1>1, <2>3
<1> QED
  BY <1>3, <1>4, <1>5, <1>6

\* The other steps activate nothing.
LEMMA OtherSteps ==
  ASSUME TypeInv, NEW c \in Calls,
         \/ Start(c) \/ ReadSiblings(c) \/ ReadPrevious(c) \/ FailTaken(c)
         \/ CommitCreate(c) \/ CommitUpdate(c)
  PROVE  Active' \subseteq Active
<1> USE DEF TypeInv
<1>1. db \in [Rules -> Row]
  BY DEF TypeOK
<1>2. CASE UNCHANGED db
  BY <1>2 DEF Active
<1>3. CASE CommitCreate(c)
  <2>1. PICK r \in Rules : db' = [db EXCEPT ![r] = [version |-> call[c].version,
                                                    active |-> FALSE, logic |-> call[c].logic]]
    BY <1>3 DEF CommitCreate
  <2> QED
    BY <1>1, <2>1 DEF Active
<1>4. CASE CommitUpdate(c)
  BY <1>1, <1>4 DEF CommitUpdate, Active, Row
<1> QED
  BY <1>2, <1>3, <1>4
     DEF Start, BeginCreate, BeginUpdate, BeginPromote, BeginRollback, BeginImport,
         Begin, ReadSiblings, ReadPrevious, FailTaken

\* A second version becomes active only by a call that had read another set of
\* active versions than the one its commit changes.
THEOREM SecondActiveStale == Spec => SecondActiveIsStale
<1> DEFINE Stale == \E c \in Calls : /\ call[c].pc = "commit" /\ call'[c].pc = "done"
                                     /\ call[c].views # {Active}
           A == Cardinality(Active) <= 1 /\ Cardinality(Active') > 1 => Stale
<1>1. ASSUME IInv, [Next]_vars PROVE [A]_vars
  <2> SUFFICES ASSUME Next, Cardinality(Active) <= 1, ~Stale
               PROVE  ~(Cardinality(Active') > 1)
    BY <1>1
  <2> USE <1>1 DEF IInv
  <2>1. ASSUME Active' \subseteq Active
        PROVE  Cardinality(Active') <= 1
    <3>1. CASE Active' = {}
      BY <3>1, FS_EmptySet
    <3>2. ASSUME NEW r \in Active' PROVE Cardinality(Active') <= 1
      <4>1. Active' = {r}
        BY <2>1, <3>2, OnlyActive
      <4> QED
        BY <4>1, FS_Singleton
    <3> QED
      BY <3>1, <3>2
  <2>2. ASSUME NEW c \in Calls,
               \/ CommitPromote(c) \/ CommitRollback(c) \/ CommitInsert(c) \/ CommitImport(c)
        PROVE  Cardinality(Active') <= 1
    <3>1. call[c].pc = "commit" /\ End(c, "done")
      BY <2>2 DEF CommitPromote, CommitRollback, CommitInsert, CommitImport
    <3>2. call'[c].pc = "done"
      BY <3>1 DEF End, Ended, Blank, TypeInv, TypeOK
    <3>3. call[c].views = {Active}
      BY <3>1, <3>2
    <3> QED
      BY <2>2, <3>3, FreshCommit
  <2>3. Cardinality(Active') <= 1
    BY <2>1, <2>2, OtherSteps DEF Next, Step
  <2>4. Cardinality(Active') \in Nat
    <3>1. IsFiniteSet(Active')
      BY RulesAssumption, FS_Subset DEF Active
    <3> QED
      BY <3>1, FS_CardinalityType
  <2> QED
    BY <2>3, <2>4
<1> QED
  BY <1>1, IInvHolds, PTL DEF Spec, SecondActiveIsStale
=============================================================================
