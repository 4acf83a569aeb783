------------------------ MODULE OrderPipeline_proofs ------------------------
(***************************************************************************)
(* Proofs about OrderPipeline for any items, any number of calls and any   *)
(* values: the types and the properties of calls that overlap, among them  *)
(* that no ticket is raised twice.                                         *)
(***************************************************************************)
EXTENDS OrderPipeline, TLAPS

-----------------------------------------------------------------------------
(* The operators a call is built from.                                     *)

\* The places of the pipeline, written out.
LEMMA PathValues ==
  /\ Path[1] = "FUSED" /\ Path[2] = "COMPLIANCE_EVAL"
  /\ Path[3] = "DRAWING_GENERATED" /\ Path[4] = "COMPOSED" /\ Path[5] = "VALIDATED"
  /\ \A k \in 1..5 : Path[k] \in ItemStates
  /\ \A k \in 1..5 : Path[k] \notin {"PARSED", "INTAKE_CLASSIFIED", "DELIVERED",
                                     "HUMAN_BLOCKED", "FAILED"}
  /\ \A k, m \in 1..5 : Path[k] = Path[m] => k = m
BY DEF Path, ItemStates

\* A nonempty set of stages has a first one.
LEMMA FirstStage ==
  ASSUME NEW S \in SUBSET Stages, S # {}
  PROVE  /\ (CHOOSE j \in S : \A m \in S : j <= m) \in S
         /\ \A m \in S : (CHOOSE j \in S : \A n \in S : j <= n) <= m
<1>1. \E j \in S : \A m \in S : j <= m
  <2>1. CASE 1 \in S
    BY <2>1 DEF Stages
  <2>2. CASE 1 \notin S /\ 2 \in S
    BY <2>2 DEF Stages
  <2>3. CASE 1 \notin S /\ 2 \notin S /\ 3 \in S
    BY <2>3 DEF Stages
  <2>4. CASE 1 \notin S /\ 2 \notin S /\ 3 \notin S
    <3>1. \A m \in S : m = 4
      BY <2>4 DEF Stages
    <3>2. PICK m \in S : TRUE
      OBVIOUS
    <3> QED BY <3>1, <3>2
  <2> QED BY <2>1, <2>2, <2>3, <2>4
<1> QED BY <1>1

\* What two calls have in common that differ only in where they are.
SameWork(c, d) ==
  /\ d.op = c.op /\ d.force = c.force /\ d.base = c.base /\ d.copy = c.copy
  /\ d.wrote = c.wrote /\ d.stalled = c.stalled /\ d.tickets = c.tickets /\ d.freed = c.freed

\* Entering a stage changes nothing but the place of the call; the items it
\* takes wait for that stage.
LEMMA EnterShape ==
  ASSUME NEW c \in Call, NEW k \in 1..5
  PROVE  /\ Enter(c, k) \in Call
         /\ SameWork(c, Enter(c, k))
         /\ Enter(c, k).pc \in {"stage", "commit"}
         /\ Enter(c, k).pc = "stage" =>
              \A i \in Enter(c, k).todo : c.copy[i].state = From(Enter(c, k).stage)
<1> DEFINE busy == {j \in k..4 : Waiting(c.copy, j) # {}}
           next == CHOOSE j \in busy : \A m \in busy : j <= m
<1>1. CASE busy = {}
  <2>1. Enter(c, k) = [c EXCEPT !.pc = "commit", !.todo = {}]
    BY <1>1 DEF Enter
  <2> QED BY <2>1 DEF Call, SameWork
<1>2. CASE busy # {}
  <2>1. Enter(c, k) = [c EXCEPT !.pc = "stage", !.stage = next,
                                !.todo = Waiting(c.copy, next)]
    BY <1>2 DEF Enter
  <2>2. next \in Stages
    <3>1. busy \in SUBSET Stages
      BY DEF Stages
    <3> QED BY <1>2, <3>1, FirstStage
  <2>3. Waiting(c.copy, next) \in SUBSET Items
    BY DEF Waiting
  <2> HIDE DEF next
  <2>4. Enter(c, k) \in Call /\ SameWork(c, Enter(c, k))
    BY <2>1, <2>2, <2>3 DEF Call, SameWork
  <2>5. Enter(c, k).pc = "stage" /\ Enter(c, k).todo = Waiting(c.copy, Enter(c, k).stage)
    BY <2>1 DEF Call
  <2> QED BY <2>4, <2>5 DEF Waiting
<1> QED BY <1>1, <1>2

\* An answer of an activity changes the row of its item and adds its tickets.
LEMMA SettledShape ==
  ASSUME NEW c \in Call, NEW i \in Items, NEW row \in Row, NEW ok \in BOOLEAN,
         NEW tickets \in SUBSET Ticket
  PROVE  LET e == Settled(c, i, row, ok, tickets)
         IN /\ e \in Call
            /\ e.op = c.op /\ e.force = c.force /\ e.base = c.base /\ e.freed = c.freed
            /\ e.copy = [c.copy EXCEPT ![i] = row] /\ e.wrote = c.wrote
            /\ e.tickets = c.tickets \cup tickets
            /\ e.pc \in {c.pc, "stage", "commit"}
            /\ e.pc # "commit" =>
                 \A j \in e.todo : \/ j \in c.todo \ {i} /\ e.stage = c.stage
                                   \/ e.copy[j].state = From(e.stage)
<1> DEFINE d == [c EXCEPT !.copy[i] = row, !.todo = @ \ {i},
                          !.stalled = @ \/ ~ok, !.tickets = @ \cup tickets]
           e == Settled(c, i, row, ok, tickets)
<1>1. e = IF d.todo # {} THEN d
          ELSE IF d.stalled THEN [d EXCEPT !.pc = "commit"]
          ELSE Enter(d, d.stage + 1)
  BY DEF Settled
<1>2. c.stalled \in BOOLEAN /\ (c.stalled \/ ~ok) \in BOOLEAN
  BY DEF Call
<1>3. [c.copy EXCEPT ![i] = row] \in [Items -> Row]
  BY DEF Call
<1>4. /\ d.copy = [c.copy EXCEPT ![i] = row] /\ d.todo = c.todo \ {i}
      /\ d.tickets = c.tickets \cup tickets
      /\ d.op = c.op /\ d.force = c.force /\ d.base = c.base /\ d.freed = c.freed
      /\ d.pc = c.pc /\ d.stage = c.stage /\ d.wrote = c.wrote
  BY DEF Call
<1>5. d \in Call
  BY <1>2, <1>3 DEF Call
<1> HIDE DEF d
<1>6. CASE d.todo # {}
  BY <1>1, <1>4, <1>5, <1>6
<1>7. CASE d.todo = {} /\ d.stalled
  <2>1. e = [d EXCEPT !.pc = "commit"]
    BY <1>1, <1>7
  <2>2. [d EXCEPT !.pc = "commit"] \in Call /\ SameWork(d, [d EXCEPT !.pc = "commit"])
        /\ [d EXCEPT !.pc = "commit"].pc = "commit"
    BY <1>5 DEF Call, SameWork
  <2> QED BY <1>4, <2>1, <2>2 DEF SameWork
<1>8. CASE d.todo = {} /\ ~d.stalled
  <2>1. d.stage + 1 \in 1..5
    BY <1>5 DEF Call, Stages
  <2>2. e = Enter(d, d.stage + 1)
    BY <1>1, <1>8
  <2>3. /\ Enter(d, d.stage + 1) \in Call
        /\ SameWork(d, Enter(d, d.stage + 1))
        /\ Enter(d, d.stage + 1).pc \in {"stage", "commit"}
        /\ Enter(d, d.stage + 1).pc = "stage" =>
             \A j \in Enter(d, d.stage + 1).todo :
               d.copy[j].state = From(Enter(d, d.stage + 1).stage)
    BY <1>5, <2>1, EnterShape
  <2>4. /\ e \in Call
        /\ e.op = d.op /\ e.force = d.force /\ e.base = d.base /\ e.freed = d.freed
        /\ e.copy = d.copy /\ e.tickets = d.tickets /\ e.wrote = d.wrote
        /\ e.pc \in {"stage", "commit"}
    BY <2>2, <2>3 DEF SameWork
  <2>5. e.pc # "commit" => \A j \in e.todo : e.copy[j].state = From(e.stage)
    BY <2>2, <2>3, <2>4
  <2> QED BY <1>4, <2>4, <2>5
<1> QED BY <1>6, <1>7, <1>8

\* What a flush leaves of a call is all but what it has sent.
Sent(c, e) ==
  /\ e.op = c.op /\ e.pc = c.pc /\ e.force = c.force /\ e.base = c.base /\ e.copy = c.copy
  /\ e.stage = c.stage /\ e.todo = c.todo /\ e.stalled = c.stalled
  /\ e.tickets = c.tickets /\ e.freed = c.freed

\* What is on its way to the database, or there, are columns.
LEMMA ChangedType ==
  ASSUME NEW c \in Call, NEW i \in Items
  PROVE  /\ Changed(c, i) \in SUBSET Columns /\ c.wrote[i] \subseteq Changed(c, i)
         /\ "state" \notin Changed(c, i) => c.copy[i].state = c.base[i].state
         /\ "data" \notin Changed(c, i) => c.copy[i].data = c.base[i].data
<1>1. c.wrote[i] \in SUBSET Columns
  BY DEF Call
<1> QED BY <1>1 DEF Changed, Columns

\* A flush sends what has changed, and nothing is unsent.
LEMMA FlushShape ==
  ASSUME NEW c \in Call
  PROVE  /\ AutoFlushed(c) \in Call /\ Sent(c, AutoFlushed(c))
         /\ \A i \in Items : /\ AutoFlushed(c).wrote[i] = Changed(c, i)
                             /\ c.wrote[i] \subseteq AutoFlushed(c).wrote[i]
<1> DEFINE w == [i \in Items |-> Changed(c, i)]
<1>1. w \in [Items -> SUBSET Columns] /\ \A i \in Items : w[i] = Changed(c, i)
  BY ChangedType
<1> HIDE DEF w
<1>2. AutoFlushed(c) = [c EXCEPT !.wrote = w]
  BY DEF AutoFlushed, w
<1>3. AutoFlushed(c) \in Call /\ Sent(c, AutoFlushed(c)) /\ AutoFlushed(c).wrote = w
  BY <1>1, <1>2 DEF Call, Sent
<1> QED BY <1>1, <1>3, ChangedType

\* What the rescue pass makes of a call when it looks at item i.
RescueRow(c, i) == [state |-> ResumeState(c.copy[i].data),
                    data  |-> [c.copy[i].data EXCEPT !.blockedAt = None]]
RescueCall(c, i, free) ==
  LET d == [c EXCEPT !.todo = @ \ {i},
                     !.freed = IF free THEN @ \cup {i} ELSE @,
                     !.copy[i] = IF free THEN RescueRow(c, i) ELSE @]
  IN IF d.todo # {} THEN d
     ELSE IF d.freed = {} THEN Enter(d, 1) ELSE [d EXCEPT !.pc = "rescued"]

\* RescueItem is that.
LEMMA RescueIs ==
  ASSUME NEW s \in Sessions, NEW i \in Items, call \in [Sessions -> Call], RescueItem(s, i)
  PROVE  /\ call[s].pc = "rescue" /\ i \in call[s].todo
         /\ CanFlush(s, AutoFlushed(call[s]))
         /\ call' = [call EXCEPT ![s] = RescueCall(AutoFlushed(call[s]), i, Pending(i) = {})]
         /\ UNCHANGED <<db, threads>>
BY DEF RescueItem, RescueCall, RescueRow

\* A row resumes at a place of the pipeline that the item had reached.
LEMMA RescueRowType ==
  ASSUME NEW c \in Call, NEW i \in Items
  PROVE  RescueRow(c, i) \in Row
<1>1. c.copy[i].data \in Data
  BY DEF Call, Row
<1>2. ResumeState(c.copy[i].data) \in ItemStates
  BY <1>1, PathValues DEF ResumeState, Data
<1>3. [c.copy[i].data EXCEPT !.blockedAt = None] \in Data
  BY <1>1 DEF Data
<1> QED BY <1>2, <1>3 DEF RescueRow, Row

\* What the rescue pass keeps of a call, and where the call goes next.
LEMMA RescueShape ==
  ASSUME NEW c \in Call, NEW i \in c.todo, NEW free \in BOOLEAN, c.pc = "rescue"
  PROVE  LET e == RescueCall(c, i, free)
         IN /\ e \in Call
            /\ e.op = c.op /\ e.force = c.force /\ e.base = c.base /\ e.tickets = c.tickets
            /\ e.wrote = c.wrote
            /\ e.copy = IF free THEN [c.copy EXCEPT ![i] = RescueRow(c, i)] ELSE c.copy
            /\ e.freed = IF free THEN c.freed \cup {i} ELSE c.freed
            /\ \/ e.pc = "rescue" /\ e.todo = c.todo \ {i}
               \/ e.pc = "rescued"
               \/ /\ e.pc \in {"stage", "commit"} /\ e.freed = {}
                  /\ e.pc = "stage" => \A j \in e.todo : e.copy[j].state = From(e.stage)
<1> DEFINE d == [c EXCEPT !.todo = @ \ {i},
                          !.freed = IF free THEN @ \cup {i} ELSE @,
                          !.copy[i] = IF free THEN RescueRow(c, i) ELSE @]
           e == RescueCall(c, i, free)
<1>1. i \in Items /\ RescueRow(c, i) \in Row
  BY RescueRowType DEF Call
<1>2. /\ [c.copy EXCEPT ![i] = IF free THEN RescueRow(c, i) ELSE @] \in [Items -> Row]
      /\ [c.copy EXCEPT ![i] = IF free THEN RescueRow(c, i) ELSE @] =
           IF free THEN [c.copy EXCEPT ![i] = RescueRow(c, i)] ELSE c.copy
  BY <1>1 DEF Call
<1>3. /\ d.copy = [c.copy EXCEPT ![i] = IF free THEN RescueRow(c, i) ELSE @]
      /\ d.todo = c.todo \ {i} /\ d.pc = c.pc
      /\ d.freed = IF free THEN c.freed \cup {i} ELSE c.freed
      /\ d.op = c.op /\ d.force = c.force /\ d.base = c.base /\ d.tickets = c.tickets
      /\ d.wrote = c.wrote
  BY DEF Call
<1>4. d \in Call
  BY <1>1, <1>2 DEF Call
<1>5. e = IF d.todo # {} THEN d
          ELSE IF d.freed = {} THEN Enter(d, 1) ELSE [d EXCEPT !.pc = "rescued"]
  BY DEF RescueCall
<1> HIDE DEF d
<1>6. CASE d.todo # {}
  BY <1>2, <1>3, <1>4, <1>5, <1>6
<1>7. CASE d.todo = {} /\ d.freed = {}
  <2>0. 1 \in 1..5
    OBVIOUS
  <2>1. /\ Enter(d, 1) \in Call
        /\ SameWork(d, Enter(d, 1))
        /\ Enter(d, 1).pc \in {"stage", "commit"}
        /\ Enter(d, 1).pc = "stage" =>
             \A j \in Enter(d, 1).todo : d.copy[j].state = From(Enter(d, 1).stage)
    BY <1>4, <2>0, EnterShape
  <2> QED BY <1>2, <1>3, <1>5, <1>7, <2>1 DEF SameWork
<1>8. CASE d.todo = {} /\ d.freed # {}
  <2>1. /\ [d EXCEPT !.pc = "rescued"] \in Call
        /\ SameWork(d, [d EXCEPT !.pc = "rescued"])
        /\ [d EXCEPT !.pc = "rescued"].pc = "rescued"
    BY <1>4 DEF Call, SameWork
  <2> QED BY <1>2, <1>3, <1>5, <1>8, <2>1 DEF SameWork
<1> QED BY <1>6, <1>7, <1>8

-----------------------------------------------------------------------------
(* What a call in progress has made of the rows it read.                   *)

\* The stages have moved a row, or left it as it was read.
Moved(b, r) ==
  \/ r = b
  \/ \E m \in 1..5, k \in Stages :
       /\ m <= k /\ b.state = Path[m]
       /\ \/ r.state = Path[k + 1] /\ r.data.blockedAt = None
          \/ k # 2 /\ r.state = "HUMAN_BLOCKED" /\ r.data.blockedAt = k
          \/ r.state = "FAILED"

\* The rescue pass has released a row.
Released(b, r) ==
  /\ b.state = "HUMAN_BLOCKED"
  /\ r.state = ResumeState(b.data) /\ r.data = [b.data EXCEPT !.blockedAt = None]

\* A fusion has replaced it, or taken it in whole.
Replaced(i, r) ==
  /\ r.state \in {"FUSED", "HUMAN_BLOCKED"}
  /\ i \notin Bare => r.data.blockedAt = None /\ r.data.last = None

\* A call as far as it is: what kind of call is where, ...
Placed(c) ==
  /\ c.pc \in {"rescue", "rescued", "stage"} => c.op = "advance"
  /\ c.pc = "fusing" => c.op = "fuse"
  /\ c.pc = "commit" => c.op # "none"

\* ... which rows it is working on, ...
Working(c) ==
  /\ c.pc = "rescue" =>
       \A i \in c.todo : i \notin c.freed /\ c.base[i].state = "HUMAN_BLOCKED"
  /\ c.pc \in {"rescue", "rescued"} =>
       \A i \in Items : IF i \in c.freed THEN Released(c.base[i], c.copy[i])
                        ELSE c.copy[i] = c.base[i]
  /\ c.pc = "stage" => \A i \in c.todo : c.copy[i].state = From(c.stage)
  /\ c.pc \in {"stage", "commit"} /\ c.op = "advance" =>
       \A i \in Items : Moved(c.base[i], c.copy[i])

\* ... the tickets it raises, one for each row it blocks, ...
Raising(c) ==
  \A x \in c.tickets :
    /\ c.op = "advance" /\ c.pc \in {"stage", "commit"}
    /\ c.copy[x.item].state = "HUMAN_BLOCKED" /\ c.copy[x.item].data.blockedAt = x.stage
    /\ c.base[x.item].state # "HUMAN_BLOCKED"

\* ... and what the calls without stages are about to store.
Storing(c) ==
  c.pc = "commit" => \A i \in Items :
    /\ c.op = "approve" => c.copy[i] = [c.base[i] EXCEPT !.state = "DELIVERED"]
    /\ c.op = "reject" => c.copy[i] = [c.base[i] EXCEPT !.state = "INTAKE_CLASSIFIED"]
    /\ c.op = "patch" => /\ c.copy[i].state = c.base[i].state
                         /\ c.copy[i].data.blockedAt = c.base[i].data.blockedAt
                         /\ c.copy[i].data.last = c.base[i].data.last
    /\ c.op = "fuse" => c.copy[i] = c.base[i] \/ Replaced(i, c.copy[i])

\* What is promised of one call.
Sound(c) == Placed(c) /\ Working(c) /\ Raising(c) /\ Storing(c)

\* The inductive invariant for calls that overlap.
CallInv == \A s \in Sessions : Sound(call[s])
TypeInv == TypeOK /\ CallInv

-----------------------------------------------------------------------------
(* Types, and the invariant of calls that overlap.                         *)

\* A session that has not begun.
LEMMA BlankType ==
  /\ Blank \in Call
  /\ Blank.tickets = {} /\ Blank.freed = {} /\ Blank.stage = 1 /\ Blank.todo = {}
  /\ Blank.pc = "idle" /\ Blank.op = "none" /\ Blank.wrote \in [Items -> SUBSET Columns]
  /\ \A i \in Items : Blank.wrote[i] = {}
<1> DEFINE rows == [i \in Items |-> [state |-> "PARSED", data |-> FreshData]]
<1>1. [state |-> "PARSED", data |-> FreshData] \in Row
  BY DEF Row, Data, FreshData, ItemStates
<1>2. rows \in [Items -> Row]
  BY <1>1
<1>3. Blank = [op |-> "none", pc |-> "idle", force |-> "true", base |-> rows,
               copy |-> rows, wrote |-> [i \in Items |-> {}], stage |-> 1, todo |-> {}, stalled |-> FALSE,
               tickets |-> {}, freed |-> {}]
  BY DEF Blank
<1> HIDE DEF rows
<1> QED BY <1>2, <1>3 DEF Call, Forces, Stages

\* A call that has ended, or not begun, is a call and owes nothing.
LEMMA BlankSound ==
  /\ Blank \in Call /\ Sound(Blank)
  /\ \A pc \in {"done", "raised"} : /\ Ended(pc) \in Call /\ Sound(Ended(pc))
                                    /\ Ended(pc).pc = pc /\ Ended(pc).tickets = {}
                                    /\ Ended(pc).wrote = Blank.wrote
<1>1. Sound(Blank)
  BY BlankType DEF Sound, Placed, Working, Raising, Storing
<1>2. ASSUME NEW pc \in {"done", "raised"}
      PROVE  /\ Ended(pc) \in Call /\ Sound(Ended(pc)) /\ Ended(pc).pc = pc
             /\ Ended(pc).tickets = {} /\ Ended(pc).wrote = Blank.wrote
  <2>1. Ended(pc) = [Blank EXCEPT !.pc = pc]
    BY DEF Ended
  <2>2. /\ Ended(pc) \in Call /\ Ended(pc).pc = pc /\ Ended(pc).tickets = {}
        /\ Ended(pc).wrote = Blank.wrote
    BY <2>1, BlankType DEF Call
  <2> QED BY <2>2 DEF Sound, Placed, Working, Raising, Storing
<1> QED BY <1>1, <1>2, BlankType

\* The session of a call that begins.
LEMMA LoadedShape ==
  ASSUME db \in [Items -> Row], NEW copy \in [Items -> Row],
         NEW op \in {"advance", "approve", "reject", "fuse", "patch"},
         NEW pc \in {"rescue", "fusing", "commit"}
  PROVE  LET c == Loaded(op, pc, copy)
         IN /\ c \in Call /\ c.op = op /\ c.pc = pc /\ c.base = db /\ c.copy = copy
            /\ c.tickets = {} /\ c.freed = {} /\ c.stage = 1 /\ c.todo = {}
            /\ c.wrote = Blank.wrote
<1> DEFINE c == Loaded(op, pc, copy)
<1>1. c = [Blank EXCEPT !.op = op, !.pc = pc, !.base = db, !.copy = copy]
  BY DEF Loaded
<1>2. c \in Call
  BY <1>1, BlankType DEF Call
<1>3. /\ c.op = op /\ c.pc = pc /\ c.base = db /\ c.copy = copy
      /\ c.tickets = {} /\ c.freed = {} /\ c.stage = 1 /\ c.todo = {}
      /\ c.wrote = Blank.wrote
  BY <1>1, BlankType DEF Call
<1> HIDE DEF c
<1>4. c \in Call /\ c.op = op /\ c.pc = pc /\ c.base = db /\ c.copy = copy
      /\ c.tickets = {} /\ c.freed = {} /\ c.stage = 1 /\ c.todo = {}
      /\ c.wrote = Blank.wrote
  BY <1>2, <1>3
<1> QED BY <1>4 DEF c

\* A call that enters the stages with rows as it read them, or moved by
\* earlier stages.
LEMMA EnterSound ==
  ASSUME NEW c \in Call, NEW k \in 1..5, c.op = "advance", c.freed = {},
         \A i \in Items : Moved(c.base[i], c.copy[i]), c.tickets = {}
  PROVE  Enter(c, k) \in Call /\ Sound(Enter(c, k))
<1> DEFINE e == Enter(c, k)
<1>1. /\ e \in Call /\ SameWork(c, e) /\ e.pc \in {"stage", "commit"}
      /\ e.pc = "stage" => \A i \in e.todo : c.copy[i].state = From(e.stage)
  BY EnterShape
<1> HIDE DEF e
<1>2. e.op = "advance" /\ e.base = c.base /\ e.copy = c.copy /\ e.tickets = {}
  BY <1>1 DEF SameWork
<1>3. Sound(e)
  BY <1>1, <1>2 DEF Sound, Placed, Working, Raising, Storing
<1> QED BY <1>1, <1>3 DEF e

\* A flush leaves a call as sound as it was.
LEMMA SentSound ==
  ASSUME NEW c, Sound(c), NEW e, Sent(c, e)
  PROVE  Sound(e)
<1>1. Placed(e) /\ Working(e)
  BY DEF Sent, Sound, Placed, Working
<1>2. Raising(e) /\ Storing(e)
  BY DEF Sent, Sound, Raising, Storing
<1> QED BY <1>1, <1>2 DEF Sound

\* Whatever one session does, the others are where they were.
LEMMA CallStep ==
  ASSUME TypeInv, NEW s \in Sessions, NEW c \in Call, Sound(c),
         call' = [call EXCEPT ![s] = c], db' \in [Items -> Row], threads' \subseteq Thread
  PROVE  TypeInv'
BY DEF TypeInv, TypeOK, CallInv

\* What a commit stores is a row.
LEMMA FlushedType ==
  ASSUME db \in [Items -> Row], NEW c \in Call
  PROVE  Flushed(c) \in [Items -> Row]
<1>1. \A i \in Items : Flushed(c)[i] \in Row
  BY DEF Flushed, Row, Call
<1> QED BY <1>1 DEF Flushed

\* The invariant holds when the order has been parsed.
LEMMA TypeInit == Init => TypeInv
<1> SUFFICES ASSUME Init PROVE TypeInv
  OBVIOUS
<1>1. \A st \in {"PARSED", "FUSED"} : [state |-> st, data |-> FreshData] \in Row
  BY DEF Row, Data, FreshData, ItemStates, Path
<1> QED BY <1>1, BlankSound DEF Init, TypeInv, TypeOK, CallInv

\* POST /advance begins: with a blocked item it first rescues, without one it
\* enters the stages.
LEMMA AdvanceStep ==
  ASSUME TypeInv, NEW s \in Sessions, NEW force \in Forces, BeginAdvance(s, force)
  PROVE  TypeInv'
<1> DEFINE l == Loaded("advance", "rescue", db)
           c == [l EXCEPT !.force = force, !.todo = Blocked(db)]
<1>1. db \in [Items -> Row]
  BY DEF TypeInv, TypeOK
<1>2. /\ l \in Call /\ l.op = "advance" /\ l.pc = "rescue" /\ l.base = db /\ l.copy = db
      /\ l.tickets = {} /\ l.freed = {}
  BY <1>1, LoadedShape
<1>3. /\ call' = [call EXCEPT ![s] = IF c.todo = {} THEN Enter(c, 1) ELSE c]
      /\ db' = db /\ threads' = threads
  BY DEF BeginAdvance, Begin
<1>4. Blocked(db) \in SUBSET Items /\ \A i \in Blocked(db) : db[i].state = "HUMAN_BLOCKED"
  BY DEF Blocked
<1> HIDE DEF l
<1>5. /\ c \in Call /\ c.op = "advance" /\ c.pc = "rescue" /\ c.base = db /\ c.copy = db
      /\ c.tickets = {} /\ c.freed = {} /\ c.todo = Blocked(db)
  BY <1>2, <1>4 DEF Call
<1> HIDE DEF c
<1>6. CASE c.todo = {}
  <2>1. 1 \in 1..5 /\ \A i \in Items : Moved(c.base[i], c.copy[i])
    BY <1>5 DEF Moved
  <2>2. Enter(c, 1) \in Call /\ Sound(Enter(c, 1))
    BY <1>5, <2>1, EnterSound
  <2> QED BY <1>3, <1>6, <2>2, CallStep DEF TypeInv, TypeOK
<1>7. CASE c.todo # {}
  <2>1. Sound(c)
    BY <1>4, <1>5 DEF Sound, Placed, Working, Raising, Storing
  <2> QED BY <1>3, <1>5, <1>7, <2>1, CallStep DEF TypeInv, TypeOK
<1> QED BY <1>6, <1>7

\* approve, reject and a patch begin with the rows they are going to store.
LEMMA StoreStep ==
  ASSUME TypeInv, NEW s \in Sessions, NEW copy \in [Items -> Row],
         NEW op \in {"approve", "reject", "patch"},
         Begin(s, Loaded(op, "commit", copy)),
         \A i \in Items :
           /\ op = "approve" => copy[i] = [db[i] EXCEPT !.state = "DELIVERED"]
           /\ op = "reject" => copy[i] = [db[i] EXCEPT !.state = "INTAKE_CLASSIFIED"]
           /\ op = "patch" => /\ copy[i].state = db[i].state
                              /\ copy[i].data.blockedAt = db[i].data.blockedAt
                              /\ copy[i].data.last = db[i].data.last
  PROVE  TypeInv'
<1> DEFINE c == Loaded(op, "commit", copy)
<1>1. call' = [call EXCEPT ![s] = c] /\ db' = db /\ threads' = threads
  BY DEF Begin
<1>2. /\ c \in Call /\ c.op = op /\ c.pc = "commit" /\ c.base = db /\ c.copy = copy
      /\ c.tickets = {}
  BY LoadedShape DEF TypeInv, TypeOK
<1> HIDE DEF c
<1>3. Sound(c)
  BY <1>2 DEF Sound, Placed, Working, Raising, Storing
<1> QED BY <1>1, <1>2, <1>3, CallStep DEF TypeInv, TypeOK

\* Any call that begins.
LEMMA StartStep ==
  ASSUME TypeInv, NEW s \in Sessions, Start(s)
  PROVE  TypeInv'
<1>1. db \in [Items -> Row]
  BY DEF TypeInv, TypeOK
<1>2. CASE \E force \in Forces : BeginAdvance(s, force)
  BY <1>2, AdvanceStep
<1>3. CASE BeginApprove(s)
  <2> DEFINE copy == [i \in Items |-> [db[i] EXCEPT !.state = "DELIVERED"]]
  <2>1. copy \in [Items -> Row]
    BY <1>1 DEF Row, ItemStates
  <2>2. \A i \in Items : copy[i] = [db[i] EXCEPT !.state = "DELIVERED"]
    OBVIOUS
  <2>3. Begin(s, Loaded("approve", "commit", copy))
    BY <1>3 DEF BeginApprove
  <2> HIDE DEF copy
  <2> QED BY <2>1, <2>2, <2>3, StoreStep
<1>4. CASE BeginReject(s)
  <2> DEFINE copy == [i \in Items |-> [db[i] EXCEPT !.state = "INTAKE_CLASSIFIED"]]
  <2>1. copy \in [Items -> Row]
    BY <1>1 DEF Row, ItemStates
  <2>2. \A i \in Items : copy[i] = [db[i] EXCEPT !.state = "INTAKE_CLASSIFIED"]
    OBVIOUS
  <2>3. Begin(s, Loaded("reject", "commit", copy))
    BY <1>4 DEF BeginReject
  <2> HIDE DEF copy
  <2> QED BY <2>1, <2>2, <2>3, StoreStep
<1>5. CASE BeginFuse(s)
  <2> DEFINE c == Loaded("fuse", "fusing", db)
  <2>1. call' = [call EXCEPT ![s] = c] /\ db' = db /\ threads' = threads
    BY <1>5 DEF BeginFuse, Begin
  <2>2. c \in Call /\ c.op = "fuse" /\ c.pc = "fusing" /\ c.tickets = {}
    BY <1>1, LoadedShape
  <2> HIDE DEF c
  <2>3. Sound(c)
    BY <2>2 DEF Sound, Placed, Working, Raising, Storing
  <2> QED BY <2>1, <2>2, <2>3, CallStep DEF TypeInv, TypeOK
<1>6. ASSUME NEW j \in Items, NEW fact \in Facts, BeginPatch(s, j, fact)
      PROVE  TypeInv'
  <2> DEFINE copy == [db EXCEPT ![j].data.facts = @ \cup {fact}]
  <2>1. copy \in [Items -> Row]
    BY <1>1 DEF Row, Data
  <2>2. \A i \in Items : /\ copy[i].state = db[i].state
                         /\ copy[i].data.blockedAt = db[i].data.blockedAt
                         /\ copy[i].data.last = db[i].data.last
    BY <1>1 DEF Row, Data
  <2>3. Begin(s, Loaded("patch", "commit", copy))
    BY <1>6 DEF BeginPatch
  <2> HIDE DEF copy
  <2> QED BY <2>1, <2>2, <2>3, StoreStep
<1> QED BY <1>2, <1>3, <1>4, <1>5, <1>6 DEF Start
\* The row an activity works on was read at that stage or at an earlier one.
LEMMA ReadAt ==
  ASSUME NEW c \in Call, Sound(c), c.pc = "stage", NEW i \in c.todo
  PROVE  /\ i \in Items /\ c.stage \in Stages /\ c.op = "advance"
         /\ c.copy[i].state = Path[c.stage]
         /\ \E m \in 1..5 : m <= c.stage /\ c.base[i].state = Path[m]
<1>1. i \in Items /\ c.stage \in Stages /\ c.op = "advance"
  BY DEF Call, Sound, Placed
<1>2. c.copy[i].state = Path[c.stage] /\ Moved(c.base[i], c.copy[i])
  BY <1>1 DEF Sound, Working, From
<1>3. CASE c.copy[i] = c.base[i]
  BY <1>1, <1>2, <1>3 DEF Stages
<1>4. CASE c.copy[i] # c.base[i]
  <2>1. PICK m \in 1..5, k \in Stages :
          /\ m <= k /\ c.base[i].state = Path[m]
          /\ c.copy[i].state \in {Path[k + 1], "HUMAN_BLOCKED", "FAILED"}
    BY <1>2, <1>4 DEF Moved
  <2>2. c.stage \in 1..5 /\ k + 1 \in 1..5
    BY <1>1 DEF Stages
  <2>3. k + 1 = c.stage
    BY <1>2, <2>1, <2>2, PathValues
  <2> QED BY <1>1, <1>2, <2>1, <2>3 DEF Stages
<1> QED BY <1>3, <1>4

\* An activity's answer keeps the call sound when it moves the row from that
\* place, and raises a ticket only for a row it blocks.
LEMMA SettledSound ==
  ASSUME NEW c \in Call, Sound(c), c.pc = "stage", NEW i \in c.todo, NEW row \in Row,
         NEW ok \in BOOLEAN, NEW tickets \in SUBSET Ticket,
         Moved(c.base[i], row),
         \A x \in tickets : /\ x.item = i /\ row.state = "HUMAN_BLOCKED"
                            /\ row.data.blockedAt = x.stage
  PROVE  Settled(c, i, row, ok, tickets) \in Call /\ Sound(Settled(c, i, row, ok, tickets))
<1> DEFINE e == Settled(c, i, row, ok, tickets)
<1>1. /\ i \in Items /\ c.stage \in Stages /\ c.op = "advance"
      /\ c.copy[i].state = Path[c.stage]
      /\ \E m \in 1..5 : m <= c.stage /\ c.base[i].state = Path[m]
  BY ReadAt
<1>2. /\ e \in Call
      /\ e.op = c.op /\ e.force = c.force /\ e.base = c.base /\ e.freed = c.freed
      /\ e.copy = [c.copy EXCEPT ![i] = row]
      /\ e.tickets = c.tickets \cup tickets
      /\ e.pc \in {c.pc, "stage", "commit"}
      /\ e.pc # "commit" =>
           \A j \in e.todo : \/ j \in c.todo \ {i} /\ e.stage = c.stage
                             \/ e.copy[j].state = From(e.stage)
  BY <1>1, SettledShape
<1> HIDE DEF e
<1>3. /\ e.copy[i] = row
      /\ \A j \in Items : j # i => e.copy[j] = c.copy[j]
      /\ \A j \in c.todo : j \in Items
  BY <1>1, <1>2 DEF Call
<1>4. Placed(e)
  BY <1>1, <1>2 DEF Placed
<1>5. Working(e)
  <2>1. e.pc = "stage" => \A j \in e.todo : e.copy[j].state = From(e.stage)
    BY <1>2, <1>3 DEF Sound, Working
  <2>2. \A j \in Items : Moved(e.base[j], e.copy[j])
    BY <1>1, <1>2, <1>3 DEF Sound, Working
  <2> QED BY <1>2, <2>1, <2>2 DEF Working
<1>6. Raising(e)
  <2>1. c.base[i].state # "HUMAN_BLOCKED" /\ c.copy[i].state # "HUMAN_BLOCKED"
    <3>1. c.stage \in 1..5
      BY <1>1 DEF Stages
    <3> QED BY <1>1, <3>1, PathValues
  <2>2. \A x \in c.tickets : /\ x.item \in Items /\ x.item # i
                             /\ c.copy[x.item].state = "HUMAN_BLOCKED"
                             /\ c.copy[x.item].data.blockedAt = x.stage
                             /\ c.base[x.item].state # "HUMAN_BLOCKED"
    BY <2>1 DEF Sound, Raising, Call, Ticket
  <2> QED BY <1>1, <1>2, <1>3, <2>1, <2>2 DEF Raising
<1>7. Storing(e)
  BY <1>1, <1>2 DEF Storing
<1> QED BY <1>2, <1>4, <1>5, <1>6, <1>7 DEF e, Sound

\* The row and the ticket an activity's answer makes.
Answer(c, i, row, tickets) ==
  \/ /\ row.state = Path[c.stage + 1] /\ row.data.last = Path[c.stage + 1]
     /\ row.data.blockedAt = None /\ tickets = {}
  \/ row.state = "FAILED" /\ tickets = {}
  \/ /\ c.stage # 2 /\ row.state = "HUMAN_BLOCKED" /\ row.data.blockedAt = c.stage
     /\ row.data.last = c.copy[i].data.last
     /\ tickets = IF OpenFor(i, c.stage) = {} THEN {[item |-> i, stage |-> c.stage]} ELSE {}

\* Settling an answer sends nothing.
LEMMA SettledSends ==
  ASSUME NEW c \in Call, NEW i \in Items
  PROVE  \A row \in Row, ok \in BOOLEAN, tickets \in SUBSET Ticket :
           /\ Settled(c, i, row, ok, tickets) \in Call
           /\ Settled(c, i, row, ok, tickets).wrote = c.wrote
<1> TAKE row \in Row, ok \in BOOLEAN, tickets \in SUBSET Ticket
<1> DEFINE e == Settled(c, i, row, ok, tickets)
<1>1. /\ e \in Call
      /\ e.op = c.op /\ e.force = c.force /\ e.base = c.base /\ e.freed = c.freed
      /\ e.copy = [c.copy EXCEPT ![i] = row] /\ e.wrote = c.wrote
      /\ e.tickets = c.tickets \cup tickets
  BY SettledShape
<1> QED BY <1>1

\* Its tickets are those of before and the new ones.
LEMMA SettledTickets ==
  ASSUME NEW c \in Call, NEW i \in Items
  PROVE  \A row \in Row, ok \in BOOLEAN, tickets \in SUBSET Ticket :
           Settled(c, i, row, ok, tickets).tickets = c.tickets \cup tickets
<1> TAKE row \in Row, ok \in BOOLEAN, tickets \in SUBSET Ticket
<1> DEFINE e == Settled(c, i, row, ok, tickets)
<1>1. /\ e \in Call
      /\ e.op = c.op /\ e.force = c.force /\ e.base = c.base /\ e.freed = c.freed
      /\ e.copy = [c.copy EXCEPT ![i] = row] /\ e.wrote = c.wrote
      /\ e.tickets = c.tickets \cup tickets
  BY SettledShape
<1> QED BY <1>1

\* An activity answers, and some of what has changed is sent.
LEMMA ActivityIs ==
  ASSUME TypeInv, NEW s \in Sessions, NEW i \in Items,
         ActivityPasses(s, i) \/ ActivityFails(s, i) \/ ActivityBlocks(s, i)
  PROVE  /\ call[s].pc = "stage" /\ i \in call[s].todo /\ db' = db /\ threads' = threads
         /\ \E row \in Row, ok \in BOOLEAN, tickets \in SUBSET Ticket, e \in Call :
              /\ Answer(call[s], i, row, tickets)
              /\ Sent(Settled(call[s], i, row, ok, tickets), e)
              /\ \A j \in Items : call[s].wrote[j] \subseteq e.wrote[j]
              /\ \A x \in tickets : e.wrote[x.item] # {}
              /\ CanFlush(s, e) \/ e.wrote = call[s].wrote
              /\ call' = [call EXCEPT ![s] = e]
<1> DEFINE c == call[s]
           Is(row, ok, tickets, e) ==
             /\ Answer(c, i, row, tickets)
             /\ Sent(Settled(c, i, row, ok, tickets), e)
             /\ \A j \in Items : c.wrote[j] \subseteq e.wrote[j]
             /\ \A x \in tickets : e.wrote[x.item] # {}
             /\ CanFlush(s, e) \/ e.wrote = c.wrote
             /\ call' = [call EXCEPT ![s] = e]
           Some == \E row \in Row, ok \in BOOLEAN, tickets \in SUBSET Ticket, e \in Call :
                     Is(row, ok, tickets, e)
<1>1. c.pc = "stage" /\ i \in c.todo /\ db' = db /\ threads' = threads
  BY DEF ActivityPasses, ActivityFails, ActivityBlocks, AwaitsActivity
<1>2. c \in Call /\ Sound(c)
  BY DEF TypeInv, TypeOK, CallInv
<1>3. c.copy[i].data \in Data /\ c.stage \in Stages
  BY <1>1, <1>2, ReadAt DEF Call, Row
<1>4. To(c.stage) = Path[c.stage + 1] /\ c.stage + 1 \in 2..5
  BY <1>3 DEF To, Stages
<1>5. {} \in SUBSET Ticket /\ TRUE \in BOOLEAN /\ FALSE \in BOOLEAN
  OBVIOUS
<1>6. CASE ActivityPasses(s, i)
  <2> DEFINE data == [c.copy[i].data EXCEPT !.last = To(c.stage), !.blockedAt = None]
             row == [state |-> To(c.stage), data |-> data]
             d == Settled(c, i, row, TRUE, {})
  <2>1. PICK e \in {d} \cup (IF c.stage \in {2, 3} THEN {AutoFlushed(d)} ELSE {}) :
          CanFlush(s, e) /\ call' = [call EXCEPT ![s] = e]
    BY <1>6 DEF ActivityPasses
  <2>2. data \in Data /\ data.last = Path[c.stage + 1] /\ data.blockedAt = None
    BY <1>3, <1>4 DEF Data
  <2>3. To(c.stage) \in ItemStates
    BY <1>4, PathValues DEF Stages
  <2> HIDE DEF data
  <2>4. row \in Row /\ row.state = To(c.stage) /\ row.data = data
    BY <2>2, <2>3 DEF Row
  <2> HIDE DEF row
  <2>5. Answer(c, i, row, {})
    BY <1>4, <2>2, <2>4 DEF Answer
  <2>6. d \in Call /\ d.wrote = c.wrote
    BY <1>2, <1>5, <2>4, SettledSends
  <2> HIDE DEF d
  <2>7. e \in Call /\ Sent(d, e) /\ \A j \in Items : c.wrote[j] \subseteq e.wrote[j]
    <3>1. e = d \/ e = AutoFlushed(d)
      BY <2>1
    <3>2. CASE e = d
      BY <2>6, <3>2 DEF Sent
    <3>3. CASE e = AutoFlushed(d)
      BY <2>6, <3>3, FlushShape
    <3> QED BY <3>1, <3>2, <3>3
  <2>8. Is(row, TRUE, {}, e)
    BY <2>1, <2>5, <2>7 DEF d
  <2> HIDE DEF Is
  <2>9. Some
    BY <1>5, <2>4, <2>7, <2>8
  <2> QED BY <1>1, <2>9 DEF Is
<1>7. CASE ActivityFails(s, i)
  <2>1. PICK data \in {c.copy[i].data} \cup
                      (IF c.stage = 2 THEN {}
                       ELSE {[c.copy[i].data EXCEPT !.blockedAt = c.stage]}) :
          call' = [call EXCEPT ![s] = Settled(c, i, [state |-> "FAILED", data |-> data],
                                              FALSE, {})]
    BY <1>7 DEF ActivityFails
  <2> DEFINE row == [state |-> "FAILED", data |-> data]
             e == Settled(c, i, row, FALSE, {})
  <2>2. data \in Data
    BY <1>3 DEF Data
  <2>3. row \in Row /\ row.state = "FAILED"
    BY <2>2 DEF Row, ItemStates
  <2>4. call' = [call EXCEPT ![s] = e]
    BY <2>1
  <2> HIDE DEF row
  <2>5. Answer(c, i, row, {})
    BY <2>3 DEF Answer
  <2>6. e \in Call /\ e.wrote = c.wrote
    BY <1>2, <1>5, <2>3, SettledSends
  <2> HIDE DEF e
  <2>7. Sent(e, e)
    BY DEF Sent
  <2>8. Is(row, FALSE, {}, e)
    BY <2>4, <2>5, <2>6, <2>7 DEF e
  <2> HIDE DEF Is
  <2>9. Some
    BY <1>5, <2>3, <2>6, <2>8
  <2> QED BY <1>1, <2>9 DEF Is
<1>8. CASE ActivityBlocks(s, i)
  <2> DEFINE data == [c.copy[i].data EXCEPT !.blockedAt = c.stage]
             row == [state |-> "HUMAN_BLOCKED", data |-> data]
             tickets == IF OpenFor(i, c.stage) = {}
                        THEN {[item |-> i, stage |-> c.stage]} ELSE {}
             d == Settled(c, i, row, FALSE, tickets)
             a == AutoFlushed(d)
             e == [a EXCEPT !.wrote[i] = @ \cup {"state"}]
  <2>1. c.stage # 2 /\ CanFlush(s, e) /\ call' = [call EXCEPT ![s] = e]
    BY <1>8 DEF ActivityBlocks
  <2>2. data \in Data /\ data.blockedAt = c.stage /\ data.last = c.copy[i].data.last
    BY <1>3 DEF Data
  <2> HIDE DEF data
  <2>3. row \in Row /\ row.state = "HUMAN_BLOCKED" /\ row.data = data
    BY <2>2 DEF Row, ItemStates
  <2>4. tickets \in SUBSET Ticket /\ \A x \in tickets : x.item = i
    BY <1>3 DEF Ticket
  <2>5. Answer(c, i, row, tickets)
    BY <2>1, <2>2, <2>3 DEF Answer
  <2> HIDE DEF row, tickets
  <2>6. d \in Call /\ d.wrote = c.wrote
    BY <1>2, <1>5, <2>3, <2>4, SettledSends
  <2> HIDE DEF d
  <2>7. a \in Call /\ Sent(d, a) /\ \A j \in Items : c.wrote[j] \subseteq a.wrote[j]
    BY <2>6, FlushShape
  <2> HIDE DEF a
  <2>8. /\ e \in Call /\ Sent(a, e) /\ e.wrote[i] = a.wrote[i] \cup {"state"}
        /\ \A j \in Items : a.wrote[j] \subseteq e.wrote[j]
    <3> DEFINE w == [a.wrote EXCEPT ![i] = @ \cup {"state"}]
    <3>1. a.wrote \in [Items -> SUBSET Columns]
      BY <2>7 DEF Call
    <3>2. /\ w \in [Items -> SUBSET Columns] /\ w[i] = a.wrote[i] \cup {"state"}
          /\ \A j \in Items : a.wrote[j] \subseteq w[j]
      BY <3>1 DEF Columns
    <3>3. e = [a EXCEPT !.wrote = w]
      BY <2>7 DEF Call
    <3> HIDE DEF w, e
    <3>4. e \in Call /\ Sent(a, e) /\ e.wrote = w
      BY <2>7, <3>2, <3>3 DEF Call, Sent
    <3> QED BY <3>2, <3>4
  <2> HIDE DEF e
  <2>9. Sent(d, e) /\ e.wrote[i] # {} /\ \A j \in Items : c.wrote[j] \subseteq e.wrote[j]
    BY <2>7, <2>8 DEF Sent
  <2>10. Is(row, FALSE, tickets, e)
    BY <2>1, <2>4, <2>5, <2>9 DEF d
  <2> HIDE DEF Is
  <2>11. Some
    BY <1>5, <2>3, <2>4, <2>8, <2>10
  <2> QED BY <1>1, <2>11 DEF Is
<1> QED BY <1>6, <1>7, <1>8

\* The answer of an activity keeps the first layer.
LEMMA ActivityStep ==
  ASSUME TypeInv, NEW s \in Sessions, NEW i \in Items,
         ActivityPasses(s, i) \/ ActivityFails(s, i) \/ ActivityBlocks(s, i)
  PROVE  TypeInv'
<1> DEFINE c == call[s]
<1>1. PICK row \in Row, ok \in BOOLEAN, tickets \in SUBSET Ticket, e \in Call :
        /\ c.pc = "stage" /\ i \in c.todo /\ db' = db /\ threads' = threads
        /\ Answer(c, i, row, tickets) /\ Sent(Settled(c, i, row, ok, tickets), e)
        /\ call' = [call EXCEPT ![s] = e]
  BY ActivityIs
<1>2. c \in Call /\ Sound(c)
  BY DEF TypeInv, TypeOK, CallInv
<1>3. /\ c.stage \in Stages /\ c.copy[i].state = Path[c.stage]
      /\ \E m \in 1..5 : m <= c.stage /\ c.base[i].state = Path[m]
  BY <1>1, <1>2, ReadAt
<1>4. Moved(c.base[i], row)
  BY <1>1, <1>3 DEF Answer, Moved
<1>5. \A x \in tickets : /\ x.item = i /\ row.state = "HUMAN_BLOCKED"
                         /\ row.data.blockedAt = x.stage
  BY <1>1 DEF Answer
<1>6. Sound(Settled(c, i, row, ok, tickets))
  BY <1>1, <1>2, <1>4, <1>5, SettledSound
<1>7. Sound(e)
  BY <1>1, <1>6, SentSound
<1> QED BY <1>1, <1>7, CallStep DEF TypeInv, TypeOK

\* The second session of the fusion task.
LEMMA FuseStep ==
  ASSUME TypeInv, NEW s \in Sessions, NEW matched \in SUBSET Items,
         NEW bare \in SUBSET Items, NEW success \in BOOLEAN,
         FuseItems(s, matched, bare, success)
  PROVE  TypeInv'
<1> DEFINE held(i) == call[s].base[i].data
           data(i) == IF i \in bare THEN held(i)
                      ELSE [FreshData EXCEPT !.facts = held(i).facts \cap Carried]
           fused(i) == [state |-> IF success THEN "FUSED" ELSE "HUMAN_BLOCKED",
                        data  |-> data(i)]
           copy == [i \in Items |-> IF i \in matched THEN fused(i) ELSE db[i]]
           c == [call[s] EXCEPT !.pc = "commit", !.base = db, !.copy = copy]
<1>1. /\ call[s].pc = "fusing" /\ call' = [call EXCEPT ![s] = c]
      /\ db' = db /\ threads' = threads /\ bare \subseteq Bare
  BY DEF FuseItems, TypeInv, TypeOK
<1>2. call[s] \in Call /\ Sound(call[s]) /\ db \in [Items -> Row]
  BY DEF TypeInv, TypeOK, CallInv
<1>3. \A i \in Items : fused(i) \in Row /\ Replaced(i, fused(i))
  <2>1. \A i \in Items : held(i) \in Data
    BY <1>2 DEF Call, Row
  <2>2. \A i \in Items : /\ data(i) \in Data
                         /\ i \notin bare => data(i).blockedAt = None /\ data(i).last = None
    BY <2>1 DEF Data, FreshData
  <2> HIDE DEF data
  <2> QED BY <1>1, <2>2 DEF Row, ItemStates, Path, Replaced
<1> HIDE DEF fused
<1>4. copy \in [Items -> Row] /\ \A i \in Items : copy[i] = db[i] \/ Replaced(i, copy[i])
  BY <1>2, <1>3
<1> HIDE DEF copy
<1>5. /\ c \in Call /\ c.op = "fuse" /\ c.pc = "commit" /\ c.base = db /\ c.copy = copy
      /\ c.tickets = {}
  <2>1. call[s].op = "fuse" /\ call[s].tickets = {}
    BY <1>1, <1>2 DEF Sound, Placed, Raising
  <2> QED BY <1>2, <1>4, <2>1 DEF Call
<1> HIDE DEF c
<1>6. Sound(c)
  BY <1>4, <1>5 DEF Sound, Placed, Working, Raising, Storing
<1> QED BY <1>1, <1>5, <1>6, CallStep DEF TypeInv, TypeOK

\* The rescue pass looks at one more item.
LEMMA RescueStep ==
  ASSUME TypeInv, NEW s \in Sessions, NEW i \in Items, RescueItem(s, i)
  PROVE  TypeInv'
<1> DEFINE c == AutoFlushed(call[s])
           free == Pending(i) = {}
           e == RescueCall(c, i, free)
<1>0. call[s] \in Call /\ Sound(call[s]) /\ call \in [Sessions -> Call]
  BY DEF TypeInv, TypeOK, CallInv
<1>1. c \in Call /\ Sound(c) /\ Sent(call[s], c)
  BY <1>0, FlushShape, SentSound
<1>2. /\ c.pc = "rescue" /\ i \in c.todo /\ UNCHANGED <<db, threads>>
      /\ call' = [call EXCEPT ![s] = e]
  BY <1>0, <1>1, RescueIs DEF Sent
<1>3. free \in BOOLEAN
  OBVIOUS
<1>4. /\ c.op = "advance" /\ c.tickets = {}
      /\ i \notin c.freed /\ c.base[i].state = "HUMAN_BLOCKED" /\ c.copy[i] = c.base[i]
  BY <1>1, <1>2 DEF Sound, Placed, Working, Raising
<1> HIDE DEF free
<1>5. /\ e \in Call
      /\ e.op = c.op /\ e.force = c.force /\ e.base = c.base /\ e.tickets = c.tickets
      /\ e.copy = IF free THEN [c.copy EXCEPT ![i] = RescueRow(c, i)] ELSE c.copy
      /\ e.freed = IF free THEN c.freed \cup {i} ELSE c.freed
      /\ \/ e.pc = "rescue" /\ e.todo = c.todo \ {i}
         \/ e.pc = "rescued"
         \/ /\ e.pc \in {"stage", "commit"} /\ e.freed = {}
            /\ e.pc = "stage" => \A j \in e.todo : e.copy[j].state = From(e.stage)
  BY <1>1, <1>2, <1>3, RescueShape
<1> HIDE DEF e, c
<1>6. Released(c.base[i], RescueRow(c, i))
  BY <1>4 DEF Released, RescueRow
<1>7. \A j \in Items : IF j \in e.freed THEN Released(e.base[j], e.copy[j])
                       ELSE e.copy[j] = e.base[j]
  <2>1. \A j \in Items : IF j \in c.freed THEN Released(c.base[j], c.copy[j])
                         ELSE c.copy[j] = c.base[j]
    BY <1>1, <1>2 DEF Sound, Working
  <2>2. c.copy \in [Items -> Row]
    BY <1>1 DEF Call
  <2>3. CASE free
    <3>1. e.copy[i] = RescueRow(c, i) /\ \A j \in Items : j # i => e.copy[j] = c.copy[j]
      BY <1>5, <2>2, <2>3
    <3> QED BY <1>5, <1>6, <2>1, <2>3, <3>1
  <2>4. CASE ~free
    BY <1>5, <2>1, <2>4
  <2> QED BY <2>3, <2>4
<1>8. Working(e)
  <2>1. e.pc = "rescue" =>
          \A j \in e.todo : j \notin e.freed /\ e.base[j].state = "HUMAN_BLOCKED"
    BY <1>1, <1>2, <1>5 DEF Sound, Working
  <2>2. e.pc = "stage" => \A j \in e.todo : e.copy[j].state = From(e.stage)
    BY <1>5
  <2>3. e.pc \in {"stage", "commit"} => \A j \in Items : Moved(e.base[j], e.copy[j])
    BY <1>5, <1>7 DEF Moved
  <2> QED BY <1>7, <2>1, <2>2, <2>3 DEF Working
<1>9. Sound(e)
  BY <1>4, <1>5, <1>8 DEF Sound, Placed, Raising, Storing
<1> QED BY <1>2, <1>5, <1>9, CallStep DEF TypeInv, TypeOK

\* The commit of a rescue: the call ends there, or enters the stages with the
\* rows it has just stored.
LEMMA CommitRescueStep ==
  ASSUME TypeInv, NEW s \in Sessions, CommitRescue(s)
  PROVE  TypeInv'
<1> DEFINE c == call[s]
           d == [c EXCEPT !.base = c.copy, !.freed = {}, !.wrote = Blank.wrote]
<1>1. c \in Call /\ Sound(c) /\ c.pc = "rescued" /\ db \in [Items -> Row]
  BY DEF TypeInv, TypeOK, CallInv, CommitRescue
<1>2. /\ db' = Flushed(c) /\ threads' = threads
      /\ call' = [call EXCEPT ![s] = IF c.force = "false" THEN Ended("done") ELSE Enter(d, 1)]
  BY DEF CommitRescue
<1>3. db' \in [Items -> Row] /\ threads' \subseteq Thread
  BY <1>1, <1>2, FlushedType DEF TypeInv, TypeOK
<1>4. c.op = "advance" /\ c.tickets = {}
  BY <1>1 DEF Sound, Placed, Raising
<1>5. /\ d \in Call /\ d.op = "advance" /\ d.freed = {} /\ d.tickets = {}
      /\ d.base = c.copy /\ d.copy = c.copy
  BY <1>1, <1>4, BlankType DEF Call
<1> HIDE DEF d
<1>6. 1 \in 1..5 /\ \A i \in Items : Moved(d.base[i], d.copy[i])
  BY <1>5 DEF Moved
<1>7. Enter(d, 1) \in Call /\ Sound(Enter(d, 1))
  BY <1>5, <1>6, EnterSound
<1>8. CASE c.force = "false"
  BY <1>2, <1>3, <1>8, BlankSound, CallStep
<1>9. CASE c.force # "false"
  BY <1>2, <1>3, <1>7, <1>9, CallStep
<1> QED BY <1>8, <1>9

\* The last commit stores rows and OPEN threads.
LEMMA CommitStep ==
  ASSUME TypeInv, NEW s \in Sessions, Commit(s)
  PROVE  TypeInv'
<1>1. call[s] \in Call /\ db \in [Items -> Row] /\ threads \subseteq Thread
  BY DEF TypeInv, TypeOK
<1>2. db' \in [Items -> Row]
  BY <1>1, FlushedType DEF Commit
<1>3. \A x \in call[s].tickets :
        [item |-> x.item, stage |-> x.stage, by |-> s, status |-> "OPEN"] \in Thread
  BY <1>1 DEF Call, Ticket, Thread, Live
<1>4. threads' \subseteq Thread
  BY <1>1, <1>3 DEF Commit
<1>5. call' = [call EXCEPT ![s] = Ended("done")]
  BY DEF Commit
<1> QED BY <1>2, <1>4, <1>5, BlankSound, CallStep

\* A call that gives up leaves nothing.
LEMMA GiveUpStep ==
  ASSUME TypeInv, NEW s \in Sessions, GiveUp(s)
  PROVE  TypeInv'
BY BlankSound, CallStep DEF GiveUp, TypeInv, TypeOK

\* The first layer is kept by every step.
LEMMA TypeNext == TypeInv /\ [Next]_vars => TypeInv'
<1> SUFFICES ASSUME TypeInv, [Next]_vars PROVE TypeInv'
  OBVIOUS
<1>1. ASSUME NEW s \in Sessions, Start(s) PROVE TypeInv'
  BY <1>1, StartStep
<1>2. ASSUME NEW s \in Sessions, Step(s) PROVE TypeInv'
  BY <1>2, CommitRescueStep, CommitStep, GiveUpStep, FuseStep, RescueStep,
     ActivityStep DEF Step
<1>3. ASSUME NEW t \in threads, NEW st \in {"IN_PROGRESS", "CLOSED"},
             MoveThread(t, st)
      PROVE  TypeInv'
  <2>1. t \in Thread
    BY DEF TypeInv, TypeOK
  <2>2. [t EXCEPT !.status = st] \in Thread
    BY <2>1 DEF Thread, Live
  <2> QED BY <1>3, <2>2 DEF MoveThread, TypeInv, TypeOK, CallInv
<1>4. CASE UNCHANGED vars
  BY <1>4 DEF vars, TypeInv, TypeOK, CallInv
<1> QED BY <1>1, <1>2, <1>3, <1>4 DEF Next

\* However calls overlap, every variable keeps its type, and every call the
\* facts about the rows it read, moved, rescued or blocked (api/v1/orders.py).
THEOREM TypeInvariant == Spec => []TypeInv
BY TypeInit, TypeNext, PTL DEF Spec

\* The types alone.
THEOREM TypeCorrect == Spec => []TypeOK
<1>1. TypeInv => TypeOK
  BY DEF TypeInv
<1> QED BY <1>1, TypeInvariant, PTL

-----------------------------------------------------------------------------
(* The properties of calls that overlap.                                   *)

\* A step that changes a row or adds an OPEN thread is a commit.
LEMMA OnlyCommitsStore ==
  ASSUME TypeInv, [Next]_vars
  PROVE  \/ \E s \in Sessions : CommitRescue(s) \/ Commit(s)
         \/ db' = db /\ \A t \in threads' \ threads : t.status # "OPEN"
<1>1. ASSUME NEW s \in Sessions, Start(s) PROVE db' = db /\ threads' = threads
  BY <1>1 DEF Start, BeginAdvance, BeginApprove, BeginReject, BeginFuse, BeginPatch, Begin
<1>2. ASSUME NEW s \in Sessions, Step(s), ~CommitRescue(s), ~Commit(s)
      PROVE  db' = db /\ threads' = threads
  BY <1>2 DEF Step, GiveUp, FuseItems, RescueItem, ActivityPasses, ActivityFails,
              ActivityBlocks
<1>3. ASSUME NEW t \in threads, NEW st \in {"IN_PROGRESS", "CLOSED"},
             MoveThread(t, st)
      PROVE  db' = db /\ \A u \in threads' \ threads : u.status # "OPEN"
  <2>1. t \in Thread
    BY DEF TypeInv, TypeOK
  <2>2. [t EXCEPT !.status = st].status = st
    BY <2>1 DEF Thread
  <2> QED BY <1>3, <2>2 DEF MoveThread
<1>4. CASE UNCHANGED vars
  BY <1>4 DEF vars
<1> QED BY <1>1, <1>2, <1>3, <1>4 DEF Next

\* The thread a commit adds is for an item it leaves blocked.
LEMMA CommitRaises ==
  ASSUME TypeInv, NEW s \in Sessions, Commit(s), NEW t \in threads' \ threads
  PROVE  /\ db'[t.item].state = "HUMAN_BLOCKED"
         /\ \/ db'[t.item].data.blockedAt = t.stage
            \/ call[t.by].base[t.item].data # db[t.item].data
<1> DEFINE c == call[s]
<1>1. c \in Call /\ Sound(c) /\ db' = Flushed(c)
  BY DEF TypeInv, TypeOK, CallInv, Commit
<1>2. PICK x \in c.tickets :
        t = [item |-> x.item, stage |-> x.stage, by |-> s, status |-> "OPEN"]
  BY DEF Commit
<1>3. /\ x.item \in Items
      /\ c.copy[x.item].state = "HUMAN_BLOCKED" /\ c.copy[x.item].data.blockedAt = x.stage
      /\ c.base[x.item].state # "HUMAN_BLOCKED"
  BY <1>1 DEF Call, Ticket, Sound, Raising
<1>4. /\ db'[x.item].state = c.copy[x.item].state
      /\ \/ db'[x.item].data = c.copy[x.item].data
         \/ /\ db'[x.item].data = db[x.item].data
            /\ c.copy[x.item].data = c.base[x.item].data
  BY <1>1, <1>3, ChangedType DEF Flushed
<1>5. t.item = x.item /\ t.stage = x.stage /\ t.by = s
  BY <1>2
<1> QED BY <1>3, <1>4, <1>5

\* However calls overlap, a thread is raised only in the commit that leaves its
\* item blocked, and blocked at its stage unless another call changed the
\* item's data since the session read it (orders.py, _ensure_hitl_thread).
THEOREM TicketsAreForBlocks == Spec => RaisedForBlocked
<1> DEFINE A == \A t \in threads' \ threads :
                  t.status = "OPEN" =>
                    /\ db'[t.item].state = "HUMAN_BLOCKED"
                    /\ \/ db'[t.item].data.blockedAt = t.stage
                       \/ call[t.by].base[t.item].data # db[t.item].data
<1>1. TypeInv /\ [Next]_vars => A
  <2> SUFFICES ASSUME TypeInv, [Next]_vars PROVE A
    OBVIOUS
  <2>1. ASSUME NEW s \in Sessions, CommitRescue(s) PROVE A
    BY <2>1 DEF CommitRescue
  <2>2. ASSUME NEW s \in Sessions, Commit(s) PROVE A
    BY <2>2, CommitRaises
  <2> QED BY <2>1, <2>2, OnlyCommitsStore
<1>2. TypeInv /\ [Next]_vars => [A]_vars
  BY <1>1
<1> QED BY <1>2, TypeInvariant, PTL DEF Spec, RaisedForBlocked

\* A commit of a call that read the row as it is stored, and that neither
\* rejects nor fuses, moves it forward.
LEMMA CommitMovesForward ==
  ASSUME TypeInv, NEW s \in Sessions, CommitRescue(s) \/ Commit(s), NEW i \in Items,
         call[s].op \notin {"reject", "fuse"}, call[s].base[i].state = db[i].state
  PROVE  ~Regresses(i)
<1> DEFINE c == call[s]
           b == c.base[i]
           r == c.copy[i]
<1>1. c \in Call /\ Sound(c) /\ db' = Flushed(c)
  BY DEF TypeInv, TypeOK, CallInv, Commit, CommitRescue
<1>2. db'[i].state = r.state
  BY <1>1, ChangedType DEF Flushed
<1>3. CASE CommitRescue(s)
  <2>1. r = b \/ b.state = "HUMAN_BLOCKED"
    BY <1>1, <1>3 DEF CommitRescue, Sound, Working, Released
  <2>2. CASE r = b
    BY <1>2, <2>2, PathValues DEF Regresses
  <2>3. CASE b.state = "HUMAN_BLOCKED"
    BY <2>3, PathValues DEF Regresses
  <2> QED BY <2>1, <2>2, <2>3
<1>4. CASE Commit(s) /\ c.op = "advance"
  <2>1. Moved(b, r)
    BY <1>1, <1>4 DEF Commit, Sound, Working
  <2>2. CASE r = b
    BY <1>2, <2>2, PathValues DEF Regresses
  <2>3. CASE r # b
    <3>1. PICK m \in 1..5, k \in Stages :
            /\ m <= k /\ b.state = Path[m]
            /\ r.state \in {Path[k + 1], "HUMAN_BLOCKED", "FAILED"}
      BY <2>1, <2>3 DEF Moved
    <3>2. k + 1 \in 1..5 /\ m < k + 1
      BY <3>1 DEF Stages
    <3>3. ASSUME NEW x \in 1..5, NEW y \in 1..5, b.state = Path[y], r.state = Path[x]
          PROVE  ~(x < y)
      <4>1. y = m
        BY <3>1, <3>3, PathValues
      <4>2. r.state = Path[k + 1]
        BY <3>1, <3>3, PathValues
      <4>3. x = k + 1
        BY <3>2, <3>3, <4>2, PathValues
      <4> QED BY <3>2, <4>1, <4>3 DEF Stages
    <3>4. b.state # "DELIVERED"
      BY <3>1, PathValues
    <3> QED BY <1>2, <3>3, <3>4 DEF Regresses
  <2> QED BY <2>2, <2>3
<1>5. CASE Commit(s) /\ c.op = "approve"
  <2>1. r = [b EXCEPT !.state = "DELIVERED"]
    BY <1>1, <1>5 DEF Commit, Sound, Storing
  <2>2. r.state = "DELIVERED"
    BY <1>1, <2>1 DEF Call, Row
  <2> QED BY <1>2, <2>2, PathValues DEF Regresses
<1>6. CASE Commit(s) /\ c.op = "patch"
  <2>1. r.state = b.state
    BY <1>1, <1>6 DEF Commit, Sound, Storing
  <2> QED BY <1>2, <2>1, PathValues DEF Regresses
<1>7. Commit(s) => c.op \in {"advance", "approve", "patch"}
  BY <1>1 DEF Commit, Sound, Placed, Call
<1> QED BY <1>3, <1>4, <1>5, <1>6, <1>7

\* However calls overlap, an item goes back along the pipeline, or out of
\* DELIVERED, only by a rejection, a new fusion, or a commit of a call that had
\* read another state of it.
THEOREM RegressIsStale == Spec => OnlyStaleCallsRegress
<1> DEFINE A == \A i \in Items : Regresses(i) =>
                  \E s \in Sessions :
                    /\ call[s].pc \in {"commit", "rescued"} /\ call'[s].pc # call[s].pc
                    /\ \/ call[s].op \in {"reject", "fuse"}
                       \/ call[s].base[i].state # db[i].state
<1>1. TypeInv /\ [Next]_vars => A
  <2> SUFFICES ASSUME TypeInv, [Next]_vars, NEW i \in Items, Regresses(i)
               PROVE  \E s \in Sessions :
                        /\ call[s].pc \in {"commit", "rescued"} /\ call'[s].pc # call[s].pc
                        /\ \/ call[s].op \in {"reject", "fuse"}
                           \/ call[s].base[i].state # db[i].state
    OBVIOUS
  <2>1. db' # db
    BY PathValues DEF Regresses
  <2>2. PICK s \in Sessions : CommitRescue(s) \/ Commit(s)
    BY <2>1, OnlyCommitsStore
  <2>3. call[s].op \in {"reject", "fuse"} \/ call[s].base[i].state # db[i].state
    BY <2>2, CommitMovesForward
  <2>4. call[s].pc \in {"commit", "rescued"} /\ call'[s].pc # call[s].pc
    <3>1. call[s] \in Call /\ Sound(call[s]) /\ call \in [Sessions -> Call]
      BY DEF TypeInv, TypeOK, CallInv
    <3>2. CASE Commit(s)
      BY <3>1, <3>2, BlankSound DEF Commit
    <3>3. CASE CommitRescue(s)
      <4> DEFINE d == [call[s] EXCEPT !.base = call[s].copy, !.freed = {},
                                      !.wrote = Blank.wrote]
      <4>0. /\ call[s].copy \in [Items -> Row] /\ {} \in SUBSET Items
            /\ Blank.wrote \in [Items -> SUBSET Columns]
        BY <3>1, BlankType DEF Call
      <4>1. d \in Call
        BY <3>1, <4>0 DEF Call
      <4>5. 1 \in 1..5
        OBVIOUS
      <4>2. call'[s] \in {Ended("done"), Enter(d, 1)} /\ call[s].pc = "rescued"
        BY <3>1, <3>3 DEF CommitRescue
      <4> HIDE DEF d
      <4>3. Enter(d, 1).pc \in {"stage", "commit"}
        BY <4>1, <4>5, EnterShape
      <4> QED BY <4>2, <4>3, BlankSound
    <3> QED BY <2>2, <3>2, <3>3
  <2> QED BY <2>3, <2>4
<1>2. TypeInv /\ [Next]_vars => [A]_vars
  BY <1>1
<1> QED BY <1>2, TypeInvariant, PTL DEF Spec, OnlyStaleCallsRegress

-----------------------------------------------------------------------------
(* One ticket for a block.                                                 *)

IsOpen(ts, i, k) == \E t \in ts : t.item = i /\ t.stage = k /\ t.status = "OPEN"

\* The rows a call has written are nobody else's, ...
OwnRows(s, c, cs) ==
  \A u \in Sessions \ {s}, i \in Items : c.wrote[i] = {} \/ cs[u].wrote[i] = {}

\* ... and the item of a ticket it carries is one of them, without a thread.
Carrying(c, ts) == \A x \in c.tickets : c.wrote[x.item] # {} /\ ~IsOpen(ts, x.item, x.stage)

\* The inductive invariant: with a row written by one transaction only, two
\* calls never carry tickets for the same item.
TicketInv ==
  /\ \A s \in Sessions : OwnRows(s, call[s], call) /\ Carrying(call[s], threads)
  /\ OneOpenTicket

\* A step of one session that stores no thread.
LEMMA TicketStep ==
  ASSUME TypeInv, TicketInv, NEW s \in Sessions, NEW c \in Call, OwnRows(s, c, call), Carrying(c, threads),
         call' = [call EXCEPT ![s] = c], threads' = threads
  PROVE  TicketInv'
<1>1. call'[s] = c /\ \A u \in Sessions : u # s => call'[u] = call[u]
  BY DEF TypeInv, TypeOK
<1>2. \A u \in Sessions : Carrying(call'[u], threads')
  BY <1>1 DEF TicketInv, Carrying, IsOpen
<1>3. \A u \in Sessions : OwnRows(u, call'[u], call')
  BY <1>1 DEF TicketInv, OwnRows
<1> QED BY <1>2, <1>3 DEF TicketInv, OneOpenTicket, Carrying, OwnRows

\* A call with nothing written owes nothing.
LEMMA IdleTicket ==
  ASSUME NEW s \in Sessions, NEW c, c.wrote = Blank.wrote, c.tickets = {}
  PROVE  OwnRows(s, c, call) /\ Carrying(c, threads)
BY BlankType DEF OwnRows, Carrying

\* A call that begins has written nothing.
LEMMA TicketStart ==
  ASSUME TypeInv, TicketInv, NEW s \in Sessions, Start(s)
  PROVE  TicketInv'
<1>1. db \in [Items -> Row] /\ call \in [Sessions -> Call]
  BY DEF TypeInv, TypeOK
<1>2. ASSUME NEW c \in Call, Begin(s, c), c.wrote = Blank.wrote, c.tickets = {}
      PROVE  TicketInv'
  BY <1>2, IdleTicket, TicketStep DEF Begin
<1>3. ASSUME NEW copy \in [Items -> Row], NEW op \in {"approve", "reject", "fuse", "patch"},
             NEW pc \in {"fusing", "commit"}, Begin(s, Loaded(op, pc, copy))
      PROVE  TicketInv'
  <2> DEFINE c == Loaded(op, pc, copy)
  <2>1. /\ c \in Call /\ c.op = op /\ c.pc = pc /\ c.base = db /\ c.copy = copy
        /\ c.tickets = {} /\ c.freed = {} /\ c.stage = 1 /\ c.todo = {}
        /\ c.wrote = Blank.wrote
    BY <1>1, LoadedShape
  <2>2. Begin(s, c)
    BY <1>3
  <2> HIDE DEF c
  <2> QED BY <1>2, <2>1, <2>2
<1>4. ASSUME NEW force \in Forces, BeginAdvance(s, force) PROVE TicketInv'
  <2> DEFINE l == Loaded("advance", "rescue", db)
             c == [l EXCEPT !.force = force, !.todo = Blocked(db)]
  <2>1. /\ l \in Call /\ l.op = "advance" /\ l.pc = "rescue" /\ l.base = db /\ l.copy = db
        /\ l.tickets = {} /\ l.freed = {} /\ l.stage = 1 /\ l.todo = {}
        /\ l.wrote = Blank.wrote
    BY <1>1, LoadedShape
  <2>2. Begin(s, IF c.todo = {} THEN Enter(c, 1) ELSE c)
    BY <1>4 DEF BeginAdvance
  <2>3. Blocked(db) \in SUBSET Items
    BY DEF Blocked
  <2> HIDE DEF l
  <2>4. c \in Call /\ c.tickets = {} /\ c.wrote = Blank.wrote
    BY <2>1, <2>3 DEF Call
  <2> HIDE DEF c
  <2>5. 1 \in 1..5
    OBVIOUS
  <2>6. /\ Enter(c, 1) \in Call /\ Enter(c, 1).tickets = {}
        /\ Enter(c, 1).wrote = Blank.wrote
    BY <2>4, <2>5, EnterShape DEF SameWork
  <2> QED BY <1>2, <2>2, <2>4, <2>6
<1>5. CASE BeginApprove(s)
  <2>1. [i \in Items |-> [db[i] EXCEPT !.state = "DELIVERED"]] \in [Items -> Row]
    BY <1>1 DEF Row, ItemStates
  <2> QED BY <1>3, <1>5, <2>1 DEF BeginApprove
<1>6. CASE BeginReject(s)
  <2>1. [i \in Items |-> [db[i] EXCEPT !.state = "INTAKE_CLASSIFIED"]] \in [Items -> Row]
    BY <1>1 DEF Row, ItemStates
  <2> QED BY <1>3, <1>6, <2>1 DEF BeginReject
<1>7. CASE BeginFuse(s)
  BY <1>1, <1>3, <1>7 DEF BeginFuse
<1>8. ASSUME NEW j \in Items, NEW fact \in Facts, BeginPatch(s, j, fact)
      PROVE  TicketInv'
  <2>1. [db EXCEPT ![j].data.facts = @ \cup {fact}] \in [Items -> Row]
    BY <1>1 DEF Row, Data
  <2> QED BY <1>3, <1>8, <2>1 DEF BeginPatch
<1> QED BY <1>4, <1>5, <1>6, <1>7, <1>8 DEF Start

\* An activity's ticket is for a row the call has written, after a lookup that
\* found no OPEN thread.
LEMMA TicketActivity ==
  ASSUME TypeInv, TicketInv, NEW s \in Sessions, NEW i \in Items,
         ActivityPasses(s, i) \/ ActivityFails(s, i) \/ ActivityBlocks(s, i)
  PROVE  TicketInv'
<1> DEFINE c == call[s]
<1>1. PICK row \in Row, ok \in BOOLEAN, tickets \in SUBSET Ticket, e \in Call :
        /\ threads' = threads
        /\ Answer(c, i, row, tickets) /\ Sent(Settled(c, i, row, ok, tickets), e)
        /\ \A j \in Items : c.wrote[j] \subseteq e.wrote[j]
        /\ \A x \in tickets : e.wrote[x.item] # {}
        /\ CanFlush(s, e) \/ e.wrote = c.wrote
        /\ call' = [call EXCEPT ![s] = e]
  BY ActivityIs
<1>2. c \in Call /\ OwnRows(s, c, call) /\ Carrying(c, threads)
  BY DEF TypeInv, TypeOK, TicketInv
<1>3. e.tickets = c.tickets \cup tickets
  BY <1>1, <1>2, SettledTickets DEF Sent
<1>4. \A x \in tickets : ~IsOpen(threads, x.item, x.stage)
  BY <1>1 DEF Answer, IsOpen, OpenFor
<1>5. \A x \in c.tickets : x.item \in Items
  BY <1>2 DEF Call, Ticket
<1>6. Carrying(e, threads)
  BY <1>1, <1>2, <1>3, <1>4, <1>5 DEF Carrying
<1>7. OwnRows(s, e, call)
  BY <1>1, <1>2 DEF OwnRows, CanFlush
<1> QED BY <1>1, <1>6, <1>7, TicketStep

\* A rescue raises no ticket and sends nothing by itself.
LEMMA RescueKeeps ==
  ASSUME NEW c \in Call, NEW i \in c.todo, NEW free \in BOOLEAN, c.pc = "rescue"
  PROVE  /\ RescueCall(c, i, free) \in Call
         /\ RescueCall(c, i, free).tickets = c.tickets
         /\ RescueCall(c, i, free).wrote = c.wrote
BY RescueShape, Zenon

\* Every other step of a session but its last commit.
LEMMA TicketWork ==
  ASSUME TypeInv, TicketInv, NEW s \in Sessions,
         \/ CommitRescue(s) \/ GiveUp(s) \/ \E i \in Items : RescueItem(s, i)
         \/ \E matched, bare \in SUBSET Items, success \in BOOLEAN :
              FuseItems(s, matched, bare, success)
  PROVE  TicketInv'
<1> DEFINE c == call[s]
<1>1. /\ c \in Call /\ Sound(c) /\ OwnRows(s, c, call) /\ Carrying(c, threads) /\ call \in [Sessions -> Call]
      /\ db \in [Items -> Row]
  BY DEF TypeInv, TypeOK, CallInv, TicketInv
<1>2. CASE CommitRescue(s)
  <2> DEFINE d == [c EXCEPT !.base = c.copy, !.freed = {}, !.wrote = Blank.wrote]
  <2>1. c.tickets = {}
    BY <1>1, <1>2 DEF CommitRescue, Sound, Raising
  <2>2. d \in Call /\ d.tickets = {} /\ d.wrote = Blank.wrote
    BY <1>1, <2>1, BlankType DEF Call
  <2>3. /\ call' = [call EXCEPT ![s] = IF c.force = "false" THEN Ended("done") ELSE Enter(d, 1)]
        /\ threads' = threads
    BY <1>2 DEF CommitRescue
  <2> HIDE DEF d
  <2>4. 1 \in 1..5
    OBVIOUS
  <2>5. /\ Enter(d, 1) \in Call /\ Enter(d, 1).tickets = {}
        /\ Enter(d, 1).wrote = Blank.wrote
    BY <2>2, <2>4, EnterShape DEF SameWork
  <2> QED BY <2>3, <2>5, BlankSound, IdleTicket, TicketStep
<1>3. CASE GiveUp(s)
  BY <1>3, BlankSound, IdleTicket, TicketStep DEF GiveUp
<1>4. ASSUME NEW i \in Items, RescueItem(s, i) PROVE TicketInv'
  <2> DEFINE a == AutoFlushed(c)
             free == Pending(i) = {}
             e == RescueCall(a, i, free)
  <2>1. a \in Call /\ Sent(c, a)
    BY <1>1, FlushShape
  <2>2. /\ c.pc = "rescue" /\ i \in c.todo /\ CanFlush(s, a)
        /\ call' = [call EXCEPT ![s] = e] /\ threads' = threads
    BY <1>1, <1>4, RescueIs
  <2>3. a.pc = "rescue" /\ i \in a.todo /\ a.tickets = {}
    BY <1>1, <2>1, <2>2 DEF Sent, Sound, Raising
  <2>4. free \in BOOLEAN
    OBVIOUS
  <2> HIDE DEF free, a
  <2>5. e \in Call /\ e.tickets = a.tickets /\ e.wrote = a.wrote
    BY <2>1, <2>3, <2>4, RescueKeeps
  <2> HIDE DEF e
  <2>6. OwnRows(s, e, call) /\ Carrying(e, threads)
    BY <2>2, <2>3, <2>5 DEF OwnRows, Carrying, CanFlush
  <2> QED BY <2>2, <2>5, <2>6, TicketStep
<1>5. ASSUME NEW matched \in SUBSET Items, NEW bare \in SUBSET Items, NEW success \in BOOLEAN,
             FuseItems(s, matched, bare, success)
      PROVE  TicketInv'
  <2>1. TypeInv'
    BY <1>5, FuseStep
  <2>2. PICK copy :
          /\ call' = [call EXCEPT ![s].pc = "commit", ![s].base = db, ![s].copy = copy]
          /\ threads' = threads
    BY <1>5 DEF FuseItems
  <2> DEFINE e == [c EXCEPT !.pc = "commit", !.base = db, !.copy = copy]
  <2>3. call' = [call EXCEPT ![s] = e]
    BY <1>1, <2>2
  <2>4. e.tickets = c.tickets /\ e.wrote = c.wrote
    BY <1>1 DEF Call
  <2> HIDE DEF e
  <2>5. e \in Call
    BY <1>1, <2>1, <2>3 DEF TypeInv, TypeOK
  <2>6. OwnRows(s, e, call) /\ Carrying(e, threads)
    BY <1>1, <2>4 DEF OwnRows, Carrying
  <2> QED BY <2>2, <2>3, <2>5, <2>6, TicketStep
<1> QED BY <1>2, <1>3, <1>4, <1>5

\* The last commit stores threads for items no other call has a ticket for.
LEMMA TicketCommit ==
  ASSUME TypeInv, TicketInv, NEW s \in Sessions, Commit(s)
  PROVE  TicketInv'
<1> DEFINE c == call[s]
           New == {[item |-> x.item, stage |-> x.stage, by |-> s, status |-> "OPEN"] :
                     x \in c.tickets}
<1>1. threads' = threads \cup New /\ call' = [call EXCEPT ![s] = Ended("done")]
  BY DEF Commit
<1>2. c \in Call /\ OwnRows(s, c, call) /\ Carrying(c, threads) /\ call \in [Sessions -> Call]
  BY DEF TypeInv, TypeOK, TicketInv
<1>3. /\ call'[s].wrote = Blank.wrote /\ call'[s].tickets = {}
      /\ \A u \in Sessions : u # s => call'[u] = call[u]
  BY <1>1, <1>2, BlankSound
<1>4. \A t \in New : /\ t.status = "OPEN" /\ ~IsOpen(threads, t.item, t.stage)
                     /\ t.item \in Items /\ c.wrote[t.item] # {}
  BY <1>2 DEF Carrying, Call, Ticket
<1>5. \A t, u \in New : t.item = u.item /\ t.stage = u.stage => t = u
  OBVIOUS
<1> HIDE DEF New
<1>6. ASSUME NEW u \in Sessions PROVE OwnRows(u, call'[u], call') /\ Carrying(call'[u], threads')
  <2>1. CASE u = s
    BY <1>3, <2>1, BlankType DEF OwnRows, Carrying
  <2>2. CASE u # s
    <3>1. OwnRows(u, call[u], call) /\ Carrying(call[u], threads) /\ call'[u] = call[u] /\ call[u] \in Call
      BY <1>2, <1>3, <2>2 DEF TicketInv
    <3>2. OwnRows(u, call'[u], call')
      BY <1>3, <3>1, BlankType DEF OwnRows
    <3>3. ASSUME NEW x \in call[u].tickets PROVE ~IsOpen(threads', x.item, x.stage)
      <4>1. x.item \in Items /\ call[u].wrote[x.item] # {} /\ ~IsOpen(threads, x.item, x.stage)
        BY <3>1, <3>3 DEF Carrying, Call, Ticket
      <4>2. \A t \in New : t.item # x.item
        BY <1>2, <1>4, <2>2, <4>1 DEF OwnRows
      <4> QED BY <1>1, <4>1, <4>2 DEF IsOpen
    <3> QED BY <3>1, <3>2, <3>3 DEF Carrying
  <2> QED BY <2>1, <2>2
<1>7. OneOpenTicket'
  <2>1. \A t, u \in threads : (/\ t.status = "OPEN" /\ u.status = "OPEN"
                               /\ t.item = u.item /\ t.stage = u.stage) => t = u
    BY DEF TicketInv, OneOpenTicket
  <2>2. \A t \in New, u \in threads : u.status = "OPEN" =>
          ~(t.item = u.item /\ t.stage = u.stage)
    BY <1>4 DEF IsOpen
  <2> QED BY <1>1, <1>5, <2>1, <2>2 DEF OneOpenTicket
<1> QED BY <1>6, <1>7 DEF TicketInv

\* Answering a thread opens none and removes none.
LEMMA MoveFacts ==
  ASSUME TypeOK, NEW t \in threads, NEW st \in {"IN_PROGRESS", "CLOSED"},
         MoveThread(t, st)
  PROVE  /\ db' = db /\ call' = call
         /\ \A u \in threads' : u.status = "OPEN" => u \in threads /\ u # t
         /\ \A u \in threads : u # t => u \in threads'
         /\ \E v \in threads' : /\ v.item = t.item /\ v.stage = t.stage /\ v.status = st
<1> DEFINE v == [t EXCEPT !.status = st]
<1>1. t \in Thread
  BY DEF TypeOK
<1>2. v.item = t.item /\ v.stage = t.stage /\ v.status = st
  BY <1>1 DEF Thread
<1>3. db' = db /\ call' = call /\ threads' = (threads \ {t}) \cup {v}
  BY DEF MoveThread
<1> HIDE DEF v
<1> QED BY <1>2, <1>3

\* Every step keeps the tickets apart.
LEMMA TicketNext == TypeInv /\ TicketInv /\ [Next]_vars => TicketInv'
<1> SUFFICES ASSUME TypeInv, TicketInv, [Next]_vars PROVE TicketInv'
  OBVIOUS
<1>1. ASSUME NEW s \in Sessions, Start(s) PROVE TicketInv'
  BY <1>1, TicketStart
<1>2. ASSUME NEW s \in Sessions, Step(s) PROVE TicketInv'
  BY <1>2, TicketWork, TicketCommit, TicketActivity DEF Step
<1>3. ASSUME NEW t \in threads, NEW st \in {"IN_PROGRESS", "CLOSED"},
             MoveThread(t, st)
      PROVE  TicketInv'
  <2>1. /\ call' = call /\ \A u \in threads' : u.status = "OPEN" => u \in threads
    BY <1>3, MoveFacts DEF TypeInv
  <2>2. \A s \in Sessions : OwnRows(s, call'[s], call') /\ Carrying(call'[s], threads')
    BY <2>1 DEF TicketInv, OwnRows, Carrying, IsOpen
  <2> QED BY <2>1, <2>2 DEF TicketInv, OneOpenTicket
<1>4. CASE UNCHANGED vars
  BY <1>4 DEF vars, TicketInv, OwnRows, Carrying, IsOpen, OneOpenTicket
<1> QED BY <1>1, <1>2, <1>3, <1>4 DEF Next

\* However calls overlap, advancing again never duplicates a ticket: an item has
\* at most one OPEN thread for a stage, because the flush before the lookup of
\* _ensure_hitl_thread (orders.py) waits for the row of the item.
THEOREM TicketsAreUnique == Spec => []OneOpenTicket
<1>1. Init => TicketInv
  BY BlankType DEF Init, TicketInv, OwnRows, Carrying, OneOpenTicket
<1>2. TicketInv => OneOpenTicket
  BY DEF TicketInv
<1> QED BY <1>1, <1>2, TypeInvariant, TicketNext, PTL DEF Spec
=============================================================================
