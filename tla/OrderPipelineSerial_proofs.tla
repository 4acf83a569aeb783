--------------------- MODULE OrderPipelineSerial_proofs ---------------------
(***************************************************************************)
(* Proofs about OrderPipeline when the calls for the order are served one  *)
(* after the other (SerialSpec), for any items, any number of calls and    *)
(* any values: the blocks, and the lifecycle of each item as PipelineItem  *)
(* states it.  What makes the difference is that a session's base is what  *)
(* is stored, so that its commit stores exactly its copy.                  *)
(***************************************************************************)
EXTENDS OrderPipeline_proofs

\* last_successful_state of an item at a place of the pipeline.
LastAt(k) == IF k = 1 THEN None ELSE Path[k]

\* The row of an item that followed the pipeline: the markers say where it is
\* and, when it is blocked, which stage it has to redo.
LineOK(row) ==
  /\ \A k \in 1..5 : row.state = Path[k] =>
       row.data.blockedAt = None /\ row.data.last = LastAt(k)
  /\ row.state = "HUMAN_BLOCKED" =>
       row.data.last = IF row.data.blockedAt = None THEN None
                       ELSE LastAt(row.data.blockedAt)

\* A row blocked at a stage has a thread about it, or a ticket on the way.
Announced(row, i, ts, tickets) ==
  row.state = "HUMAN_BLOCKED" /\ row.data.blockedAt # None =>
    \/ \E t \in ts : t.item = i /\ t.stage = row.data.blockedAt
    \/ \E x \in tickets : x.item = i /\ x.stage = row.data.blockedAt

\* What is promised of a row that a call holds or that is stored, but of an
\* item that a fusion may have taken in whole, with markers of its past.
RowOK(row, i, ts, tickets) ==
  i \in Bare \/ (LineOK(row) /\ Announced(row, i, ts, tickets))

\* A fusion keeps the marker of an item or removes it.
Kept(c) ==
  c.op = "fuse" =>
    \A i \in Items : c.copy[i].data.blockedAt \in {None, c.base[i].data.blockedAt}

\* A call in progress works on what is stored.
Fresh(c, rows, ts) ==
  /\ c.base = rows
  /\ Kept(c)
  /\ c.pc \in {"rescue", "rescued"} =>
       \A i \in c.freed : \A t \in ts : t.item = i => t.status # "OPEN"
  /\ \A i \in Items : RowOK(c.copy[i], i, ts, c.tickets)

\* A call in progress is fresh, and every stored row is sound.
FreshInv == \A s \in Busy : Fresh(call[s], db, threads)
LineInv  == \A i \in Items \ Bare : LineOK(db[i])

\* The inductive invariant of calls that do not overlap.
SerialInv == /\ TypeInv /\ OneAtATime /\ FreshInv /\ LineInv
             /\ BlocksHaveThreads

\* The places where a call is not in progress.
Ending == {"idle", "done", "raised"}

-----------------------------------------------------------------------------
(* One call at a time.                                                     *)

\* The session that steps is the only one in progress afterwards.
LEMMA Alone ==
  ASSUME call \in [Sessions -> Call], NEW s \in Sessions, NEW c \in Call,
         call' = [call EXCEPT ![s] = c], OneAtATime, OneAtATime',
         s \in Busy \/ c.pc \notin Ending
  PROVE  Busy' \subseteq {s} /\ call'[s] = c
<1>1. call'[s] = c /\ \A u \in Sessions : u # s => call'[u] = call[u]
  OBVIOUS
<1>2. ASSUME NEW u \in Busy', u # s PROVE FALSE
  <2>1. u \in Sessions /\ u \in Busy
    BY <1>1, <1>2 DEF Busy
  <2>2. CASE s \in Busy
    BY <1>2, <2>1, <2>2 DEF OneAtATime
  <2>3. CASE c.pc \notin Ending
    <3>1. s \in Busy'
      BY <1>1, <2>3 DEF Busy, Ending
    <3> QED BY <1>2, <3>1 DEF OneAtATime
  <2> QED BY <2>2, <2>3
<1> QED BY <1>1, <1>2

\* A step of one session that stores nothing.
LEMMA WorkStep ==
  ASSUME SerialInv, TypeInv', OneAtATime', NEW s \in Sessions, NEW c \in Call,
         call' = [call EXCEPT ![s] = c], db' = db, threads' = threads,
         s \in Busy \/ c.pc \notin Ending,
         c.pc \notin Ending => Fresh(c, db, threads)
  PROVE  SerialInv'
<1>1. Busy' \subseteq {s} /\ call'[s] = c
  BY Alone DEF SerialInv, TypeInv, TypeOK
<1>2. FreshInv'
  <2> SUFFICES ASSUME NEW u \in Busy' PROVE Fresh(call'[u], db', threads')
    BY DEF FreshInv
  <2>1. u = s /\ c.pc \notin Ending
    BY <1>1 DEF Busy, Ending
  <2> QED BY <1>1, <2>1
<1>3. LineInv' /\ BlocksHaveThreads'
  BY DEF SerialInv, LineInv, BlocksHaveThreads
<1> QED BY <1>2, <1>3 DEF SerialInv

\* What a session in progress may count on.
LEMMA BusyFacts ==
  ASSUME SerialInv, NEW s \in Sessions, call[s].pc \notin Ending
  PROVE  /\ s \in Busy /\ call[s] \in Call /\ Sound(call[s]) /\ Fresh(call[s], db, threads)
         /\ db \in [Items -> Row]
BY DEF SerialInv, TypeInv, TypeOK, CallInv, FreshInv, Busy, Ending

\* What is stored is in order.
LEMMA StoredFacts ==
  ASSUME SerialInv, NEW i \in Items
  PROVE  RowOK(db[i], i, threads, {}) /\ db[i] \in Row
BY DEF SerialInv, LineInv, BlocksHaveThreads, RowOK, Announced, TypeInv, TypeOK

\* A commit of a session whose base is stored stores its copy.
LEMMA FreshFlush ==
  ASSUME NEW c \in Call, c.base = db, db \in [Items -> Row]
  PROVE  Flushed(c) = c.copy
<1>1. c.copy \in [Items -> Row]
  BY DEF Call
<1>2. \A i \in Items : Flushed(c)[i] = c.copy[i]
  <2> TAKE i \in Items
  <2>1. Flushed(c)[i] = [state |-> c.copy[i].state, data |-> c.copy[i].data]
    BY ChangedType DEF Flushed
  <2>2. c.copy[i] = [state |-> c.copy[i].state, data |-> c.copy[i].data]
    BY <1>1 DEF Row
  <2> QED BY <2>1, <2>2
<1> QED BY <1>1, <1>2 DEF Flushed

\* A flush leaves a call as fresh as it was.
LEMMA SentFresh ==
  ASSUME NEW c, NEW e, NEW rows, NEW ts, Fresh(c, rows, ts), Sent(c, e)
  PROVE  Fresh(e, rows, ts)
BY DEF Fresh, Kept, Sent

\* Entering a stage stores nothing and raises nothing.
LEMMA EnterFresh ==
  ASSUME NEW c \in Call, NEW k \in 1..5, NEW rows, NEW ts, Fresh(c, rows, ts)
  PROVE  Enter(c, k) \in Call /\ Fresh(Enter(c, k), rows, ts)
<1> DEFINE e == Enter(c, k)
<1>1. e \in Call /\ SameWork(c, e) /\ e.pc \in {"stage", "commit"}
  BY EnterShape
<1> HIDE DEF e
<1>2. Fresh(e, rows, ts)
  BY <1>1 DEF SameWork, Fresh, Kept
<1> QED BY <1>1, <1>2 DEF e

\* A call that begins with rows that are in order.
LEMMA LoadedFresh ==
  ASSUME SerialInv, NEW copy \in [Items -> Row],
         NEW op \in {"advance", "approve", "reject", "fuse", "patch"},
         NEW pc \in {"rescue", "fusing", "commit"}, op = "fuse" => copy = db,
         \A i \in Items : RowOK(copy[i], i, threads, {})
  PROVE  /\ Loaded(op, pc, copy) \in Call /\ Loaded(op, pc, copy).pc = pc
         /\ Fresh(Loaded(op, pc, copy), db, threads)
<1> DEFINE c == Loaded(op, pc, copy)
<1>1. /\ c \in Call /\ c.op = op /\ c.pc = pc /\ c.base = db /\ c.copy = copy
      /\ c.tickets = {} /\ c.freed = {}
  BY LoadedShape DEF SerialInv, TypeInv, TypeOK
<1> HIDE DEF c
<1>2. Fresh(c, db, threads)
  BY <1>1 DEF Fresh, Kept
<1> QED BY <1>1, <1>2 DEF c

-----------------------------------------------------------------------------
(* The steps.                                                              *)

\* A call that begins.
LEMMA SerialStart ==
  ASSUME SerialInv, TypeInv', OneAtATime', NEW s \in Sessions, Start(s)
  PROVE  SerialInv'
<1>1. db \in [Items -> Row] /\ \A i \in Items : RowOK(db[i], i, threads, {})
  BY StoredFacts DEF SerialInv, TypeInv, TypeOK
<1>2. ASSUME NEW c \in Call, Begin(s, c), c.pc \notin Ending, Fresh(c, db, threads)
      PROVE  SerialInv'
  BY <1>2, WorkStep DEF Begin
<1>3. ASSUME NEW copy \in [Items -> Row], NEW op \in {"approve", "reject", "fuse", "patch"},
             NEW pc \in {"fusing", "commit"}, Begin(s, Loaded(op, pc, copy)),
             op = "fuse" => copy = db, \A i \in Items : RowOK(copy[i], i, threads, {})
      PROVE  SerialInv'
  <2>1. /\ Loaded(op, pc, copy) \in Call /\ Loaded(op, pc, copy).pc = pc
        /\ Fresh(Loaded(op, pc, copy), db, threads)
    BY <1>3, LoadedFresh
  <2> QED BY <1>2, <1>3, <2>1 DEF Ending
<1>4. ASSUME NEW force \in Forces, BeginAdvance(s, force) PROVE SerialInv'
  <2> DEFINE l == Loaded("advance", "rescue", db)
             c == [l EXCEPT !.force = force, !.todo = Blocked(db)]
  <2>1. l \in Call /\ l.pc = "rescue" /\ Fresh(l, db, threads) /\ l.freed = {}
    BY <1>1, LoadedFresh, LoadedShape
  <2>9. l.op = "advance"
    BY <1>1, LoadedShape
  <2>2. Begin(s, IF c.todo = {} THEN Enter(c, 1) ELSE c)
    BY <1>4 DEF BeginAdvance
  <2>3. Blocked(db) \in SUBSET Items
    BY DEF Blocked
  <2> HIDE DEF l
  <2>4. c \in Call
    BY <2>1, <2>3 DEF Call
  <2>5. /\ c.pc = l.pc /\ c.base = l.base /\ c.copy = l.copy /\ c.tickets = l.tickets
        /\ c.freed = l.freed /\ c.op = "advance"
    BY <2>1, <2>9 DEF Call
  <2> HIDE DEF c
  <2>6. Fresh(c, db, threads)
    BY <2>1, <2>5 DEF Fresh, Kept
  <2>7. CASE c.todo # {}
    BY <1>2, <2>1, <2>2, <2>4, <2>5, <2>6, <2>7 DEF Ending
  <2>8. CASE c.todo = {}
    <3>1. 1 \in 1..5
      OBVIOUS
    <3>2. Enter(c, 1) \in Call /\ Fresh(Enter(c, 1), db, threads)
      BY <2>4, <2>6, <3>1, EnterFresh
    <3>3. Enter(c, 1).pc \in {"stage", "commit"}
      BY <2>4, <3>1, EnterShape
    <3> QED BY <1>2, <2>2, <2>8, <3>2, <3>3 DEF Ending
  <2> QED BY <2>7, <2>8
<1>5. CASE BeginApprove(s)
  <2> DEFINE copy == [i \in Items |-> [db[i] EXCEPT !.state = "DELIVERED"]]
  <2>1. \A i \in Items : [db[i] EXCEPT !.state = "DELIVERED"] \in Row
                         /\ [db[i] EXCEPT !.state = "DELIVERED"].state = "DELIVERED"
    BY <1>1 DEF Row, ItemStates
  <2>2. copy \in [Items -> Row] /\ \A i \in Items : copy[i].state = "DELIVERED"
    BY <2>1
  <2>3. Begin(s, Loaded("approve", "commit", copy))
    BY <1>5 DEF BeginApprove
  <2> HIDE DEF copy
  <2>4. \A i \in Items : RowOK(copy[i], i, threads, {})
    BY <2>2, PathValues DEF RowOK, LineOK, Announced
  <2> QED BY <1>3, <2>2, <2>3, <2>4
<1>6. CASE BeginReject(s)
  <2> DEFINE copy == [i \in Items |-> [db[i] EXCEPT !.state = "INTAKE_CLASSIFIED"]]
  <2>1. \A i \in Items : [db[i] EXCEPT !.state = "INTAKE_CLASSIFIED"] \in Row
                         /\ [db[i] EXCEPT !.state = "INTAKE_CLASSIFIED"].state = "INTAKE_CLASSIFIED"
    BY <1>1 DEF Row, ItemStates
  <2>2. copy \in [Items -> Row] /\ \A i \in Items : copy[i].state = "INTAKE_CLASSIFIED"
    BY <2>1
  <2>3. Begin(s, Loaded("reject", "commit", copy))
    BY <1>6 DEF BeginReject
  <2> HIDE DEF copy
  <2>4. \A i \in Items : RowOK(copy[i], i, threads, {})
    BY <2>2, PathValues DEF RowOK, LineOK, Announced
  <2> QED BY <1>3, <2>2, <2>3, <2>4
<1>7. CASE BeginFuse(s)
  BY <1>1, <1>3, <1>7 DEF BeginFuse
<1>8. ASSUME NEW j \in Items, NEW fact \in Facts, BeginPatch(s, j, fact)
      PROVE  SerialInv'
  <2> DEFINE copy == [db EXCEPT ![j].data.facts = @ \cup {fact}]
  <2>1. copy \in [Items -> Row]
    BY <1>1 DEF Row, Data
  <2>2. \A i \in Items : /\ copy[i].state = db[i].state
                         /\ copy[i].data.blockedAt = db[i].data.blockedAt
                         /\ copy[i].data.last = db[i].data.last
    BY <1>1 DEF Row, Data
  <2>3. Begin(s, Loaded("patch", "commit", copy))
    BY <1>8 DEF BeginPatch
  <2> HIDE DEF copy
  <2>4. \A i \in Items : RowOK(copy[i], i, threads, {})
    BY <1>1, <2>2 DEF RowOK, LineOK, Announced
  <2> QED BY <1>3, <2>1, <2>3, <2>4
<1> QED BY <1>4, <1>5, <1>6, <1>7, <1>8 DEF Start

\* An activity answers: the item's row stays in order, with a ticket for a
\* block nobody was asked about.
LEMMA SettledFresh ==
  ASSUME NEW c \in Call, NEW i \in Items, NEW row \in Row, NEW ok \in BOOLEAN,
         NEW tickets \in SUBSET Ticket, NEW rows, NEW ts, Fresh(c, rows, ts),
         c.pc = "stage", c.op = "advance", RowOK(row, i, ts, tickets)
  PROVE  /\ Settled(c, i, row, ok, tickets) \in Call
         /\ Fresh(Settled(c, i, row, ok, tickets), rows, ts)
<1> DEFINE e == Settled(c, i, row, ok, tickets)
<1>1. /\ e \in Call /\ e.base = c.base /\ e.freed = c.freed /\ e.op = c.op
      /\ e.copy = [c.copy EXCEPT ![i] = row]
      /\ e.tickets = c.tickets \cup tickets /\ e.pc \in {c.pc, "stage", "commit"}
  BY SettledShape
<1> HIDE DEF e
<1>2. e.copy[i] = row /\ \A j \in Items : j # i => e.copy[j] = c.copy[j]
  BY <1>1 DEF Call
<1>3. \A j \in Items : RowOK(e.copy[j], j, ts, e.tickets)
  <2>1. RowOK(row, i, ts, e.tickets)
    BY <1>1 DEF RowOK, Announced
  <2>2. \A j \in Items : RowOK(c.copy[j], j, ts, e.tickets)
    BY <1>1 DEF Fresh, RowOK, Announced
  <2> QED BY <1>2, <2>1, <2>2
<1>4. Fresh(e, rows, ts)
  BY <1>1, <1>3 DEF Fresh, Kept
<1> QED BY <1>1, <1>4 DEF e

\* The answer of an activity.
LEMMA SerialActivity ==
  ASSUME SerialInv, TypeInv', OneAtATime', NEW s \in Sessions, NEW i \in Items,
         ActivityPasses(s, i) \/ ActivityFails(s, i) \/ ActivityBlocks(s, i)
  PROVE  SerialInv'
<1> DEFINE c == call[s]
<1>1. PICK row \in Row, ok \in BOOLEAN, tickets \in SUBSET Ticket, e \in Call :
        /\ c.pc = "stage" /\ i \in c.todo /\ db' = db /\ threads' = threads
        /\ Answer(c, i, row, tickets) /\ Sent(Settled(c, i, row, ok, tickets), e)
        /\ call' = [call EXCEPT ![s] = e]
  BY ActivityIs DEF SerialInv
<1>2. s \in Busy /\ c \in Call /\ Sound(c) /\ Fresh(c, db, threads)
  BY <1>1, BusyFacts DEF Ending
<1>3. c.stage \in Stages /\ c.copy[i].state = Path[c.stage] /\ c.op = "advance"
  BY <1>1, <1>2, ReadAt
<1>4. /\ c.stage \in 1..5 /\ c.stage + 1 \in 1..5 /\ c.stage + 1 # 1
      /\ c.stage # None
  BY <1>3, NoneAssumption DEF Stages
<1>5. ASSUME i \notin Bare PROVE RowOK(row, i, threads, tickets)
  <2>1. c.copy[i].data.last = LastAt(c.stage)
    BY <1>2, <1>3, <1>4, <1>5 DEF Fresh, RowOK, LineOK
  <2>2. LineOK(row)
    <3>1. CASE row.state = Path[c.stage + 1]
      <4>1. row.state # "HUMAN_BLOCKED" /\ row.state # "FAILED"
        BY <1>4, <3>1, PathValues
      <4>2. row.data.last = LastAt(c.stage + 1) /\ row.data.blockedAt = None
        BY <1>1, <1>4, <4>1 DEF Answer, LastAt
      <4>3. \A k \in 1..5 : row.state = Path[k] => k = c.stage + 1
        BY <1>4, <3>1, PathValues
      <4> QED BY <4>1, <4>2, <4>3 DEF LineOK
    <3>2. CASE row.state = "FAILED"
      BY <3>2, PathValues DEF LineOK
    <3>3. CASE row.state = "HUMAN_BLOCKED"
      <4>1. row.data.blockedAt = c.stage /\ row.data.last = LastAt(c.stage)
        BY <1>1, <1>4, <2>1, <3>3, PathValues DEF Answer
      <4> QED BY <1>4, <3>3, <4>1, PathValues DEF LineOK
    <3> QED BY <1>1, <3>1, <3>2, <3>3 DEF Answer
  <2>3. Announced(row, i, threads, tickets)
    <3> SUFFICES ASSUME row.state = "HUMAN_BLOCKED"
                 PROVE  \/ \E t \in threads : t.item = i /\ t.stage = row.data.blockedAt
                        \/ \E x \in tickets : x.item = i /\ x.stage = row.data.blockedAt
      BY DEF Announced
    <3>1. row.data.blockedAt = c.stage
          /\ tickets = IF OpenFor(i, c.stage) = {}
                       THEN {[item |-> i, stage |-> c.stage]} ELSE {}
      BY <1>1, <1>4, PathValues DEF Answer
    <3> QED BY <3>1 DEF OpenFor
  <2> QED BY <2>2, <2>3 DEF RowOK
<1>6. RowOK(row, i, threads, tickets)
  BY <1>5 DEF RowOK
<1>7. Fresh(Settled(c, i, row, ok, tickets), db, threads)
  BY <1>1, <1>2, <1>3, <1>6, SettledFresh
<1>8. Fresh(e, db, threads)
  BY <1>1, <1>7, SentFresh
<1> QED BY <1>1, <1>2, <1>8, WorkStep

\* A call that gives up leaves everything as it is.
LEMMA SerialGiveUp ==
  ASSUME SerialInv, TypeInv', OneAtATime', NEW s \in Sessions, GiveUp(s)
  PROVE  SerialInv'
<1>1. Ended("raised") \in Call /\ Ended("raised").pc \in Ending
  BY BlankSound DEF Ending
<1>2. s \in Busy
  BY DEF GiveUp, Busy
<1>3. call' = [call EXCEPT ![s] = Ended("raised")] /\ db' = db /\ threads' = threads
  BY DEF GiveUp
<1> QED BY <1>1, <1>2, <1>3, WorkStep

\* The fusion's results.
LEMMA SerialFuse ==
  ASSUME SerialInv, TypeInv', OneAtATime', NEW s \in Sessions,
         NEW matched \in SUBSET Items, NEW bare \in SUBSET Items, NEW success \in BOOLEAN,
         FuseItems(s, matched, bare, success)
  PROVE  SerialInv'
<1> DEFINE held(i) == call[s].base[i].data
           data(i) == IF i \in bare THEN held(i)
                      ELSE [FreshData EXCEPT !.facts = held(i).facts \cap Carried]
           fused(i) == [state |-> IF success THEN "FUSED" ELSE "HUMAN_BLOCKED",
                        data  |-> data(i)]
           copy == [i \in Items |-> IF i \in matched THEN fused(i) ELSE db[i]]
           c == [call[s] EXCEPT !.pc = "commit", !.base = db, !.copy = copy]
<1>1. /\ call[s].pc = "fusing" /\ call' = [call EXCEPT ![s] = c] /\ db' = db
      /\ threads' = threads /\ bare \subseteq Bare
  BY DEF FuseItems, SerialInv, TypeInv, TypeOK
<1>2. /\ s \in Busy /\ call[s] \in Call /\ Sound(call[s]) /\ Fresh(call[s], db, threads)
      /\ db \in [Items -> Row] /\ call[s].base = db
  BY <1>1, BusyFacts DEF Ending, Fresh
<1>3. ASSUME NEW i \in Items
      PROVE  /\ fused(i) \in Row
             /\ fused(i).state \in {"FUSED", "HUMAN_BLOCKED"}
             /\ fused(i).data.blockedAt \in {None, db[i].data.blockedAt}
             /\ i \notin Bare => fused(i).data.blockedAt = None /\ fused(i).data.last = None
  <2>1. held(i) \in Data /\ held(i) = db[i].data
    BY <1>2 DEF Row
  <2>2. /\ data(i) \in Data /\ data(i).blockedAt \in {None, db[i].data.blockedAt}
        /\ i \notin bare => data(i).blockedAt = None /\ data(i).last = None
    BY <2>1 DEF Data, FreshData
  <2> HIDE DEF data
  <2> QED BY <1>1, <2>2 DEF Row, ItemStates, Path
<1> HIDE DEF fused
<1>4. \A i \in Items : RowOK(fused(i), i, threads, {})
  BY <1>3, PathValues DEF RowOK, LineOK, Announced, LastAt
<1>5. /\ copy \in [Items -> Row]
      /\ \A i \in Items : /\ RowOK(copy[i], i, threads, {})
                          /\ copy[i].data.blockedAt \in {None, db[i].data.blockedAt}
  BY <1>2, <1>3, <1>4, StoredFacts
<1> HIDE DEF copy
<1>6. /\ c \in Call /\ c.pc = "commit" /\ c.base = db /\ c.copy = copy
      /\ c.tickets = call[s].tickets
  BY <1>2, <1>5 DEF Call
<1>7. call[s].tickets = {}
  BY <1>1, <1>2 DEF Sound, Raising
<1> HIDE DEF c
<1>8. Fresh(c, db, threads)
  BY <1>5, <1>6, <1>7 DEF Fresh, Kept
<1> QED BY <1>1, <1>2, <1>6, <1>8, WorkStep

\* A released row is at the place the item had reached.
LEMMA RescueLine ==
  ASSUME NEW c \in Call, NEW i \in Items, LineOK(c.copy[i]),
         c.copy[i].state = "HUMAN_BLOCKED"
  PROVE  /\ LineOK(RescueRow(c, i))
         /\ RescueRow(c, i).state = IF c.copy[i].data.blockedAt = None THEN "FUSED"
                                    ELSE Path[c.copy[i].data.blockedAt]
         /\ RescueRow(c, i).state # "HUMAN_BLOCKED"
         /\ RescueRow(c, i).data.blockedAt = None
<1> DEFINE d == c.copy[i].data
           r == RescueRow(c, i)
<1>1. /\ d \in Data /\ d.blockedAt \in Stages \cup {None}
      /\ d.last = IF d.blockedAt = None THEN None ELSE LastAt(d.blockedAt)
  BY DEF Call, Row, Data, LineOK
<1>2. /\ r.state = IF d.last = None THEN "FUSED" ELSE d.last
      /\ r.data.last = d.last /\ r.data.blockedAt = None
  BY <1>1 DEF RescueRow, ResumeState, Data
<1> HIDE DEF r
<1> DEFINE k == IF d.blockedAt = None THEN 1 ELSE d.blockedAt
<1>3. k \in 1..5 /\ d.last = LastAt(k)
  BY <1>1 DEF LastAt, Stages
<1>4. r.state = Path[k]
  BY <1>2, <1>3, PathValues, NoneAssumption DEF LastAt
<1>5. r.state # "HUMAN_BLOCKED" /\ \A m \in 1..5 : r.state = Path[m] => m = k
  BY <1>3, <1>4, PathValues
<1>6. LineOK(r)
  BY <1>2, <1>3, <1>5 DEF LineOK
<1>7. r.state = IF d.blockedAt = None THEN "FUSED" ELSE Path[d.blockedAt]
  BY <1>4, PathValues
<1> QED BY <1>2, <1>5, <1>6, <1>7 DEF r

\* The rescue pass looks at an item.
LEMMA SerialRescue ==
  ASSUME SerialInv, TypeInv', OneAtATime', NEW s \in Sessions, NEW i \in Items,
         RescueItem(s, i)
  PROVE  SerialInv'
<1> DEFINE c == AutoFlushed(call[s])
           free == Pending(i) = {}
           e == RescueCall(c, i, free)
<1>0. /\ call[s].pc = "rescue" /\ i \in call[s].todo /\ UNCHANGED <<db, threads>>
      /\ call' = [call EXCEPT ![s] = e]
  BY RescueIs DEF SerialInv, TypeInv, TypeOK
<1>9. /\ s \in Busy /\ call[s] \in Call /\ Sound(call[s])
      /\ Fresh(call[s], db, threads)
  BY <1>0, BusyFacts DEF Ending
<1>2. c \in Call /\ Sent(call[s], c) /\ Sound(c) /\ Fresh(c, db, threads)
  BY <1>9, FlushShape, SentSound, SentFresh
<1>1. c.pc = "rescue" /\ i \in c.todo /\ c.op = "advance"
  BY <1>0, <1>2 DEF Sent, Sound, Placed
<1>3. free \in BOOLEAN /\ (free => \A t \in threads : t.item = i => t.status # "OPEN")
  BY DEF Pending
<1>4. c.tickets = {} /\ c.copy[i].state = "HUMAN_BLOCKED"
  BY <1>1, <1>2 DEF Sound, Working, Raising
<1> HIDE DEF free
<1>5. /\ e \in Call /\ e.op = c.op /\ e.base = c.base /\ e.tickets = c.tickets
      /\ e.copy = IF free THEN [c.copy EXCEPT ![i] = RescueRow(c, i)] ELSE c.copy
      /\ e.freed = IF free THEN c.freed \cup {i} ELSE c.freed
  BY <1>1, <1>2, <1>3, RescueShape
<1> HIDE DEF e, c
<1>6. RowOK(RescueRow(c, i), i, threads, {})
  BY <1>2, <1>4, RescueLine DEF Fresh, RowOK, Announced
<1>7. \A j \in Items : RowOK(e.copy[j], j, threads, e.tickets)
  <2>1. c.copy \in [Items -> Row] /\ \A j \in Items : RowOK(c.copy[j], j, threads, {})
    BY <1>2, <1>4 DEF Call, Fresh
  <2>2. \A j \in Items : e.copy[j] \in {RescueRow(c, i), c.copy[j]} /\ (j # i => e.copy[j] = c.copy[j])
    BY <1>5, <2>1
  <2> QED BY <1>4, <1>5, <1>6, <2>1, <2>2
<1>8. Fresh(e, db, threads)
  <2>1. \A j \in e.freed : \A t \in threads : t.item = j => t.status # "OPEN"
    BY <1>1, <1>2, <1>3, <1>5 DEF Fresh
  <2> QED BY <1>1, <1>2, <1>4, <1>5, <1>7, <2>1 DEF Fresh, Kept
<1> QED BY <1>0, <1>5, <1>8, <1>9, WorkStep

\* The commit of a rescue stores the copy and works on from it.
LEMMA SerialCommitRescue ==
  ASSUME SerialInv, TypeInv', OneAtATime', NEW s \in Sessions, CommitRescue(s)
  PROVE  SerialInv'
<1> DEFINE c == call[s]
           d == [c EXCEPT !.base = c.copy, !.freed = {}, !.wrote = Blank.wrote]
           e == IF c.force = "false" THEN Ended("done") ELSE Enter(d, 1)
<1>1. c.pc = "rescued" /\ db' = Flushed(c) /\ threads' = threads
      /\ call' = [call EXCEPT ![s] = e]
  BY DEF CommitRescue
<1>2. /\ s \in Busy /\ c \in Call /\ Sound(c) /\ Fresh(c, db, threads)
      /\ db \in [Items -> Row]
  BY <1>1, BusyFacts DEF Ending
<1>3. c.copy \in [Items -> Row] /\ db' = c.copy
  <2>1. c.copy \in [Items -> Row] /\ c.base = db
    BY <1>2 DEF Call, Fresh
  <2> QED BY <1>1, <1>2, <2>1, FreshFlush
<1>4. c.tickets = {} /\ c.op = "advance" /\ \A i \in Items : RowOK(c.copy[i], i, threads, {})
  BY <1>1, <1>2 DEF Sound, Placed, Raising, Fresh
<1>5. /\ d \in Call /\ d.tickets = {} /\ d.base = c.copy /\ d.copy = c.copy /\ d.freed = {}
      /\ d.op = "advance"
  BY <1>2, <1>3, <1>4, BlankType DEF Call
<1> HIDE DEF d
<1>6. Fresh(d, c.copy, threads)
  BY <1>4, <1>5 DEF Fresh, Kept
<1>7. Enter(d, 1) \in Call /\ Fresh(Enter(d, 1), c.copy, threads)
  <2>1. 1 \in 1..5
    OBVIOUS
  <2> QED BY <1>5, <1>6, <2>1, EnterFresh
<1>8. e \in Call /\ (e.pc \notin Ending => Fresh(e, c.copy, threads))
  BY <1>7, BlankSound DEF Ending
<1> HIDE DEF e
<1>9. Busy' \subseteq {s} /\ call'[s] = e
  BY <1>1, <1>2, <1>8, Alone DEF SerialInv, TypeInv, TypeOK
<1>10. FreshInv'
  <2> SUFFICES ASSUME NEW u \in Busy' PROVE Fresh(call'[u], db', threads')
    BY DEF FreshInv
  <2>1. u = s /\ e.pc \notin Ending
    BY <1>9 DEF Busy, Ending
  <2> QED BY <1>1, <1>3, <1>8, <1>9, <2>1
<1>11. LineInv' /\ BlocksHaveThreads'
  <2>1. \A i \in Items : RowOK(db'[i], i, threads', {})
    BY <1>1, <1>3, <1>4
  <2> QED BY <2>1 DEF LineInv, BlocksHaveThreads, RowOK, Announced
<1> QED BY <1>10, <1>11 DEF SerialInv

\* The last commit of a call stores its copy and its tickets.
LEMMA SerialCommit ==
  ASSUME SerialInv, TypeInv', OneAtATime', NEW s \in Sessions, Commit(s)
  PROVE  SerialInv'
<1> DEFINE c == call[s]
           New == {[item |-> x.item, stage |-> x.stage, by |-> s, status |-> "OPEN"] :
                     x \in c.tickets}
<1>1. /\ c.pc = "commit" /\ db' = Flushed(c) /\ threads' = threads \cup New
      /\ call' = [call EXCEPT ![s] = Ended("done")]
  BY DEF Commit
<1>2. /\ s \in Busy /\ c \in Call /\ Sound(c) /\ Fresh(c, db, threads)
      /\ db \in [Items -> Row]
  BY <1>1, BusyFacts DEF Ending
<1>3. c.copy \in [Items -> Row] /\ db' = c.copy
  <2>1. c.copy \in [Items -> Row] /\ c.base = db
    BY <1>2 DEF Call, Fresh
  <2> QED BY <1>1, <1>2, <2>1, FreshFlush
<1>4. \A i \in Items : RowOK(c.copy[i], i, threads, c.tickets)
  BY <1>2 DEF Fresh
<1>5. FreshInv'
  <2>1. Busy' \subseteq {s} /\ call'[s] = Ended("done")
    BY <1>1, <1>2, BlankSound, Alone DEF SerialInv, TypeInv, TypeOK
  <2>2. Busy' = {}
    BY <2>1, BlankSound DEF Busy
  <2> QED BY <2>2 DEF FreshInv
<1>6. BlocksHaveThreads'
  <2> SUFFICES ASSUME NEW i \in Items \ Bare, db'[i].state = "HUMAN_BLOCKED",
                      db'[i].data.blockedAt # None
               PROVE  \E t \in threads' : t.item = i /\ t.stage = db'[i].data.blockedAt
    BY DEF BlocksHaveThreads
  <2>1. \/ \E t \in threads : t.item = i /\ t.stage = db'[i].data.blockedAt
        \/ \E x \in c.tickets : x.item = i /\ x.stage = db'[i].data.blockedAt
    BY <1>3, <1>4 DEF RowOK, Announced
  <2>2. CASE \E x \in c.tickets : x.item = i /\ x.stage = db'[i].data.blockedAt
    <3>1. PICK x \in c.tickets : x.item = i /\ x.stage = db'[i].data.blockedAt
      BY <2>2
    <3> DEFINE t == [item |-> x.item, stage |-> x.stage, by |-> s, status |-> "OPEN"]
    <3>2. t \in threads' /\ t.item = x.item /\ t.stage = x.stage
      BY <1>1
    <3> QED BY <3>1, <3>2
  <2> QED BY <1>1, <2>1, <2>2
<1>7. LineInv'
  BY <1>3, <1>4 DEF LineInv, RowOK
<1> QED BY <1>5, <1>6, <1>7 DEF SerialInv

\* An operator, or the auto-advance, moves a ticket.
LEMMA SerialMove ==
  ASSUME SerialInv, TypeInv', OneAtATime', NEW t \in threads,
         NEW st \in {"IN_PROGRESS", "CLOSED"}, MoveThread(t, st)
  PROVE  SerialInv'
<1>1. /\ db' = db /\ call' = call
      /\ \A u \in threads' : u.status = "OPEN" => u \in threads
      /\ \A u \in threads : \E v \in threads' : v.item = u.item /\ v.stage = u.stage
  BY MoveFacts DEF SerialInv, TypeInv
<1>2. ASSUME NEW i \in Items, NEW row, NEW tickets, RowOK(row, i, threads, tickets)
      PROVE  RowOK(row, i, threads', tickets)
  BY <1>1, <1>2 DEF RowOK, Announced
<1>3. FreshInv'
  <2> SUFFICES ASSUME NEW s \in Busy' PROVE Fresh(call'[s], db', threads')
    BY DEF FreshInv
  <2>1. Fresh(call[s], db, threads)
    BY <1>1 DEF SerialInv, FreshInv, Busy
  <2>3. \A i \in Items : RowOK(call[s].copy[i], i, threads', call[s].tickets)
    BY <1>2, <2>1 DEF Fresh
  <2> QED BY <1>1, <2>1, <2>3 DEF Fresh
<1>4. BlocksHaveThreads'
  BY <1>1 DEF SerialInv, BlocksHaveThreads
<1>5. LineInv'
  BY <1>1 DEF SerialInv, LineInv
<1> QED BY <1>3, <1>4, <1>5 DEF SerialInv

\* The invariant holds when the order has been parsed.
LEMMA SerialInit == Init => SerialInv
<1> SUFFICES ASSUME Init PROVE SerialInv
  OBVIOUS
<1>1. Busy = {} /\ TypeInv
  BY TypeInit, BlankType DEF Init, Busy
<1>2. \A i \in Items : db[i].state \in {"PARSED", "FUSED"} /\ db[i].data.blockedAt = None
                       /\ db[i].data.last = None
  BY DEF Init, FreshData
<1>3. LineInv
  BY <1>2, PathValues DEF LineInv, LineOK, LastAt
<1>4. BlocksHaveThreads
  BY <1>2 DEF BlocksHaveThreads
<1> QED BY <1>1, <1>3, <1>4 DEF SerialInv, OneAtATime, FreshInv

\* Every step of calls that do not overlap preserves it.
LEMMA SerialNext == SerialInv /\ [Next /\ OneAtATime']_vars => SerialInv'
<1> SUFFICES ASSUME SerialInv, [Next /\ OneAtATime']_vars PROVE SerialInv'
  OBVIOUS
<1>1. TypeInv'
  BY TypeNext DEF SerialInv
<1>2. CASE UNCHANGED vars
  BY <1>1, <1>2 DEF SerialInv, vars, OneAtATime, Busy, FreshInv, LineInv,
                    BlocksHaveThreads
<1>3. CASE Next /\ OneAtATime'
  <2>1. ASSUME NEW s \in Sessions, Start(s) PROVE SerialInv'
    BY <1>1, <1>3, <2>1, SerialStart
  <2>2. ASSUME NEW s \in Sessions, Step(s) PROVE SerialInv'
    BY <1>1, <1>3, <2>2, SerialCommitRescue, SerialCommit, SerialFuse, SerialRescue,
       SerialActivity, SerialGiveUp DEF Step
  <2>3. ASSUME NEW t \in threads, NEW st \in {"IN_PROGRESS", "CLOSED"},
               MoveThread(t, st)
        PROVE  SerialInv'
    BY <1>1, <1>3, <2>3, SerialMove
  <2> QED BY <1>3, <2>1, <2>2, <2>3 DEF Next
<1> QED BY <1>2, <1>3

\* When calls do not overlap, every session in progress works on what is
\* stored, and every row is where its markers say.
THEOREM SerialInvariant == SerialSpec => []SerialInv
BY SerialInit, SerialNext, PTL DEF SerialSpec

\* An item blocked at a stage has a thread about that stage: no item waits for
\* a human who was never asked.
THEOREM BlocksAreAnnounced == SerialSpec => []BlocksHaveThreads
<1>1. SerialInv => BlocksHaveThreads
  BY DEF SerialInv
<1> QED BY <1>1, SerialInvariant, PTL

-----------------------------------------------------------------------------
(* The lifecycle of an item.                                               *)

\* With one call at a time, a fusion has a result to store just when the call
\* in progress is one.
LEMMA FusingOfBusy ==
  ASSUME OneAtATime, NEW s \in Busy
  PROVE  Fusing <=> call[s].op = "fuse" /\ call[s].pc = "commit"
<1>1. s \in Sessions
  BY DEF Busy
<1>2. ASSUME NEW u \in Sessions, call[u].pc = "commit" PROVE u = s
  BY <1>2 DEF OneAtATime, Busy
<1> QED BY <1>1, <1>2 DEF Fusing

\* A step outside the commit of a fusion leaves Fusing alone.
LEMMA FusingStep ==
  ASSUME call \in [Sessions -> Call], NEW s \in Sessions, NEW c \in Call,
         call' = [call EXCEPT ![s] = c],
         ~(call[s].op = "fuse" /\ call[s].pc = "commit"), ~(c.op = "fuse" /\ c.pc = "commit")
  PROVE  Fusing' = Fusing
<1>1. call'[s] = c /\ \A u \in Sessions : u # s => call'[u] = call[u]
  OBVIOUS
<1>2. Fusing <=> \E u \in Sessions : u # s /\ call[u].op = "fuse" /\ call[u].pc = "commit"
  BY DEF Fusing
<1>3. Fusing' <=> \E u \in Sessions : u # s /\ call'[u].op = "fuse" /\ call'[u].pc = "commit"
  BY <1>1 DEF Fusing
<1>4. Fusing' <=> Fusing
  BY <1>1, <1>2, <1>3
<1>5. Fusing \in BOOLEAN /\ Fusing' \in BOOLEAN
  BY DEF Fusing
<1> QED BY <1>4, <1>5

\* A step that stores nothing and is no fusion is none of any item's lifecycle.
LEMMA ItemIdle ==
  ASSUME NEW i \in Items, db' = db, threads' = threads, Fusing' = Fusing
  PROVE  UNCHANGED Item(i)!item
BY DEF Item!item, OpenStages

\* What a call begins with is not yet the result of a fusion.
LEMMA ItemStart ==
  ASSUME SerialInv, TypeInv', NEW s \in Sessions, Start(s), NEW i \in Items
  PROVE  UNCHANGED Item(i)!item
<1>1. call[s].pc = "idle" /\ call \in [Sessions -> Call] /\ call' \in [Sessions -> Call]
  BY DEF SerialInv, TypeInv, TypeOK, Start, BeginAdvance, BeginApprove, BeginReject,
         BeginFuse, BeginPatch, Begin
<1>2. PICK c : Begin(s, c) /\ ~(c.op = "fuse" /\ c.pc = "commit")
  <2>1. \A copy \in [Items -> Row] : \A op \in {"approve", "reject", "patch"} :
          Loaded(op, "commit", copy).op = op
    BY LoadedShape DEF SerialInv, TypeInv, TypeOK
  <2>2. db \in [Items -> Row]
    BY DEF SerialInv, TypeInv, TypeOK
  <2>3. Loaded("fuse", "fusing", db).pc = "fusing"
    BY <2>2, LoadedShape
  <2>4. ASSUME NEW force \in Forces, BeginAdvance(s, force)
        PROVE  \E c : Begin(s, c) /\ ~(c.op = "fuse" /\ c.pc = "commit")
    <3> DEFINE l == Loaded("advance", "rescue", db)
               c == [l EXCEPT !.force = force, !.todo = Blocked(db)]
    <3>1. Begin(s, IF c.todo = {} THEN Enter(c, 1) ELSE c)
      BY <2>4 DEF BeginAdvance
    <3>2. l \in Call /\ l.op = "advance" /\ Blocked(db) \in SUBSET Items
      BY <2>2, LoadedShape DEF Blocked
    <3> HIDE DEF l
    <3>3. c \in Call
      BY <3>2 DEF Call
    <3>4. c.op = "advance"
      BY <3>2 DEF Call
    <3> HIDE DEF c
    <3>5. 1 \in 1..5
      OBVIOUS
    <3>6. Enter(c, 1).op = "advance"
      BY <3>3, <3>4, <3>5, EnterShape DEF SameWork
    <3> QED BY <3>1, <3>4, <3>6
  <2>5. CASE BeginApprove(s)
    <3>1. [j \in Items |-> [db[j] EXCEPT !.state = "DELIVERED"]] \in [Items -> Row]
      BY <2>2 DEF Row, ItemStates
    <3> QED BY <2>1, <2>5, <3>1 DEF BeginApprove
  <2>6. CASE BeginReject(s)
    <3>1. [j \in Items |-> [db[j] EXCEPT !.state = "INTAKE_CLASSIFIED"]] \in [Items -> Row]
      BY <2>2 DEF Row, ItemStates
    <3> QED BY <2>1, <2>6, <3>1 DEF BeginReject
  <2>7. CASE BeginFuse(s)
    BY <2>3, <2>7 DEF BeginFuse
  <2>8. ASSUME NEW j \in Items, NEW fact \in Facts, BeginPatch(s, j, fact)
        PROVE  \E c : Begin(s, c) /\ ~(c.op = "fuse" /\ c.pc = "commit")
    <3>1. [db EXCEPT ![j].data.facts = @ \cup {fact}] \in [Items -> Row]
      BY <2>2 DEF Row, Data
    <3> QED BY <2>1, <2>8, <3>1 DEF BeginPatch
  <2> QED BY <2>4, <2>5, <2>6, <2>7, <2>8 DEF Start
<1>3. call' = [call EXCEPT ![s] = c] /\ db' = db /\ threads' = threads
  BY <1>2 DEF Begin
<1>4. c \in Call
  BY <1>1, <1>3
<1>5. Fusing' = Fusing
  BY <1>1, <1>2, <1>3, <1>4, FusingStep
<1> QED BY <1>3, <1>5, ItemIdle

\* An answer is part of the call that asked.
LEMMA SettledOp ==
  ASSUME NEW c \in Call, NEW i \in Items
  PROVE  \A row \in Row, ok \in BOOLEAN, tickets \in SUBSET Ticket :
           Settled(c, i, row, ok, tickets).op = c.op
<1> TAKE row \in Row, ok \in BOOLEAN, tickets \in SUBSET Ticket
<1> DEFINE e == Settled(c, i, row, ok, tickets)
<1>1. /\ e \in Call /\ e.op = c.op /\ e.base = c.base
      /\ e.copy = [c.copy EXCEPT ![i] = row] /\ e.tickets = c.tickets \cup tickets
  BY SettledShape
<1> QED BY <1>1

\* A rescue is part of the call as well.
LEMMA RescueOp ==
  ASSUME NEW c \in Call, NEW i \in c.todo, NEW free \in BOOLEAN, c.pc = "rescue"
  PROVE  RescueCall(c, i, free).op = c.op
BY RescueShape, Zenon

\* Nor are the answers of activities and the rescue pass before its commit.
LEMMA ItemWork ==
  ASSUME SerialInv, TypeInv', NEW s \in Sessions, NEW j \in Items, NEW i \in Items,
         \/ RescueItem(s, j) \/ ActivityPasses(s, j) \/ ActivityFails(s, j)
         \/ ActivityBlocks(s, j)
  PROVE  UNCHANGED Item(i)!item
<1>1. /\ call \in [Sessions -> Call] /\ call' \in [Sessions -> Call]
      /\ call[s].pc \in {"rescue", "stage"} /\ db' = db /\ threads' = threads
      /\ Sound(call[s])
  BY DEF SerialInv, TypeInv, TypeOK, CallInv, RescueItem, ActivityPasses, ActivityFails,
         ActivityBlocks, AwaitsActivity
<1>2. call[s].op = "advance"
  BY <1>1 DEF Sound, Placed
<1>3. call' = [call EXCEPT ![s] = call'[s]] /\ call'[s].op = "advance"
  <2> DEFINE c == call[s]
  <2>1. c \in Call
    BY <1>1
  <2>2. CASE RescueItem(s, j)
    <3> DEFINE free == Pending(j) = {}
               a == AutoFlushed(c)
               e == RescueCall(a, j, free)
    <3>0. a \in Call /\ Sent(c, a)
      BY <2>1, FlushShape
    <3>1. a.pc = "rescue" /\ j \in a.todo /\ call' = [call EXCEPT ![s] = e]
      BY <1>1, <2>2, <3>0, RescueIs DEF Sent
    <3> HIDE DEF a
    <3>2. free \in BOOLEAN
      OBVIOUS
    <3> HIDE DEF free
    <3>3. e.op = a.op /\ a.op = c.op
      BY <3>0, <3>1, <3>2, RescueOp DEF Sent
    <3> HIDE DEF e
    <3> QED BY <1>1, <1>2, <3>1, <3>3
  <2>3. CASE ~RescueItem(s, j)
    <3>1. PICK row \in Row, ok \in BOOLEAN, tickets \in SUBSET Ticket, e \in Call :
            /\ Sent(Settled(c, j, row, ok, tickets), e)
            /\ call' = [call EXCEPT ![s] = e]
      BY <2>3, ActivityIs DEF SerialInv
    <3>2. j \in Items
      OBVIOUS
    <3>3. Settled(c, j, row, ok, tickets).op = c.op
      BY <2>1, <3>2, SettledOp
    <3> QED BY <1>1, <1>2, <3>1, <3>3 DEF Sent
  <2> QED BY <2>2, <2>3
<1>5. call[s] \in Call /\ call'[s] \in Call
  BY <1>1
<1>6. Fusing' = Fusing
  BY <1>1, <1>2, <1>3, <1>5, FusingStep
<1> QED BY <1>1, <1>6, ItemIdle

\* A call that gives up was no fusion with a result to store, or loses it.
LEMMA ItemGiveUp ==
  ASSUME SerialInv, NEW s \in Sessions, GiveUp(s), NEW i \in Items
  PROVE  Item(i)!Fuse \/ UNCHANGED Item(i)!item
<1>1. /\ call \in [Sessions -> Call] /\ call[s] \in Call /\ s \in Busy /\ OneAtATime
      /\ call' = [call EXCEPT ![s] = Ended("raised")] /\ db' = db /\ threads' = threads
  BY DEF GiveUp, SerialInv, TypeInv, TypeOK, Busy
<1>2. Ended("raised") \in Call /\ Ended("raised").pc = "raised"
  BY BlankSound
<1>3. CASE call[s].op = "fuse" /\ call[s].pc = "commit"
  <2>1. Fusing
    BY <1>1, <1>3 DEF Fusing
  <2>2. ASSUME NEW u \in Sessions, call'[u].pc = "commit" PROVE FALSE
    BY <1>1, <1>2, <2>2 DEF OneAtATime, Busy
  <2>3. ~Fusing'
    BY <2>2 DEF Fusing
  <2> QED BY <1>1, <2>1, <2>3 DEF Item!Fuse, OpenStages
<1>4. CASE ~(call[s].op = "fuse" /\ call[s].pc = "commit")
  <2>1. Fusing' = Fusing
    BY <1>1, <1>2, <1>4, FusingStep
  <2> QED BY <1>1, <2>1, ItemIdle
<1> QED BY <1>3, <1>4

\* A fusion is about to store its result.
LEMMA ItemFuse ==
  ASSUME SerialInv, SerialInv', NEW s \in Sessions, NEW matched \in SUBSET Items,
         NEW bare \in SUBSET Items, NEW success \in BOOLEAN,
         FuseItems(s, matched, bare, success), NEW i \in Items
  PROVE  Item(i)!StartFusion
<1>1. /\ call \in [Sessions -> Call] /\ call[s].pc = "fusing" /\ Sound(call[s])
      /\ db' = db /\ threads' = threads
  BY DEF SerialInv, TypeInv, TypeOK, CallInv, FuseItems
<1>2. call'[s].pc = "commit" /\ call'[s].op = call[s].op
  <2>1. PICK copy :
          call' = [call EXCEPT ![s].pc = "commit", ![s].base = db, ![s].copy = copy]
    BY DEF FuseItems
  <2> QED BY <1>1, <2>1 DEF Call
<1>3. call[s].op = "fuse"
  BY <1>1 DEF Sound, Placed
<1>4. s \in Busy /\ OneAtATime
  BY <1>1 DEF Busy, SerialInv
<1>5. ~Fusing
  BY <1>1, <1>4, FusingOfBusy
<1>6. Fusing'
  BY <1>2, <1>3 DEF Fusing
<1> QED BY <1>1, <1>5, <1>6 DEF Item!StartFusion, OpenStages

\* The commit of a rescue releases an item nobody is asked about any more, to
\* redo the stage that blocked it.
LEMMA ItemRelease ==
  ASSUME SerialInv, SerialInv', NEW s \in Sessions, CommitRescue(s), NEW i \in Items
  PROVE  Item(i)!Release \/ UNCHANGED Item(i)!item
<1> DEFINE c == call[s]
           d == [c EXCEPT !.base = c.copy, !.freed = {}, !.wrote = Blank.wrote]
           e == IF c.force = "false" THEN Ended("done") ELSE Enter(d, 1)
<1>1. c.pc = "rescued" /\ db' = Flushed(c) /\ threads' = threads
      /\ call' = [call EXCEPT ![s] = e]
  BY DEF CommitRescue
<1>2. /\ s \in Busy /\ c \in Call /\ Sound(c) /\ Fresh(c, db, threads)
      /\ db \in [Items -> Row] /\ call \in [Sessions -> Call]
  BY <1>1, BusyFacts DEF Ending, SerialInv, TypeInv, TypeOK
<1>3. c.copy \in [Items -> Row] /\ db' = c.copy /\ c.base = db
  <2>1. c.copy \in [Items -> Row] /\ c.base = db
    BY <1>2 DEF Call, Fresh
  <2> QED BY <1>1, <1>2, <2>1, FreshFlush
<1>4. Fusing' = Fusing
  <2>1. c.op = "advance"
    BY <1>1, <1>2 DEF Sound, Placed
  <2>2. d \in Call
    BY <1>2, <1>3, BlankType DEF Call
  <2>3. d.op = "advance"
    BY <1>2, <2>1 DEF Call
  <2> HIDE DEF d
  <2>4. 1 \in 1..5
    OBVIOUS
  <2>5. Enter(d, 1) \in Call /\ Enter(d, 1).op = "advance"
    BY <2>2, <2>3, <2>4, EnterShape DEF SameWork
  <2>6. e \in Call /\ ~(e.op = "fuse" /\ e.pc = "commit")
    BY <2>5, BlankSound
  <2> HIDE DEF e
  <2> QED BY <1>1, <1>2, <2>1, <2>6, FusingStep
<1>5. CASE i \notin c.freed
  <2>1. db'[i] = db[i]
    BY <1>1, <1>2, <1>3, <1>5 DEF Sound, Working
  <2> QED BY <1>1, <1>4, <2>1 DEF Item!item, OpenStages
<1>6. CASE i \in c.freed
  <2>1. Released(db[i], db'[i]) /\ \A t \in threads : t.item = i => t.status # "OPEN"
    BY <1>1, <1>2, <1>3, <1>6 DEF Sound, Working, Fresh
  <2>2. OpenStages(i) = {} /\ OpenStages(i)' = {}
    BY <1>1, <2>1 DEF OpenStages
  <2>3. db[i].state = "HUMAN_BLOCKED" /\ db'[i].data.blockedAt = None
        /\ db'[i].state = ResumeState(db[i].data)
    <3>1. db[i].data \in Data
      BY <1>2 DEF Row
    <3> QED BY <2>1, <3>1 DEF Released, Data
  <2>4. db[i].data.blockedAt \in Stages \cup {None}
    BY <1>2 DEF Row, Data
  <2>5. CASE i \in Bare
    <3>1. db[i].data.last \in {Path[k] : k \in 2..5} \cup {None}
      BY <1>2 DEF Row, Data
    <3>2. \E k \in 1..5 : db'[i].state = Path[k]
      BY <2>3, <3>1, PathValues DEF ResumeState
    <3> QED BY <1>4, <2>2, <2>3, <2>5, <3>2 DEF Item!Release
  <2>6. CASE i \notin Bare
    <3>0. LineOK(db[i])
      BY <2>6 DEF SerialInv, LineInv
    <3>1. db'[i].state = IF db[i].data.blockedAt = None THEN "FUSED"
                         ELSE Path[db[i].data.blockedAt]
      <4> DEFINE k == db[i].data.blockedAt
      <4>1. CASE k = None
        BY <2>3, <3>0, <4>1 DEF LineOK, ResumeState
      <4>2. CASE k # None
        <5>1. k \in 1..5 /\ db[i].data.last = LastAt(k)
          BY <2>3, <2>4, <3>0, <4>2 DEF LineOK, Stages
        <5> QED BY <2>3, <4>2, <5>1, PathValues, NoneAssumption DEF ResumeState, LastAt
      <4> QED BY <4>1, <4>2
    <3> QED BY <1>4, <2>2, <2>3, <3>1 DEF Item!Release
  <2> QED BY <2>5, <2>6
<1> QED BY <1>5, <1>6

\* The last commit of a call moves, blocks or fails the item, decides about it,
\* stores the fusion's result, or leaves it.
LEMMA ItemCommit ==
  ASSUME SerialInv, SerialInv', NEW s \in Sessions, Commit(s), NEW i \in Items
  PROVE  \/ Item(i)!Advance \/ Item(i)!Block \/ Item(i)!Fail \/ Item(i)!Decide
         \/ Item(i)!Fuse \/ UNCHANGED Item(i)!item
<1> DEFINE c == call[s]
           New == {[item |-> x.item, stage |-> x.stage, by |-> s, status |-> "OPEN"] :
                     x \in c.tickets}
<1>1. /\ c.pc = "commit" /\ db' = Flushed(c) /\ threads' = threads \cup New
      /\ call' = [call EXCEPT ![s] = Ended("done")]
  BY DEF Commit
<1>2. /\ s \in Busy /\ c \in Call /\ Sound(c) /\ Fresh(c, db, threads)
      /\ db \in [Items -> Row] /\ call \in [Sessions -> Call]
  BY <1>1, BusyFacts DEF Ending, SerialInv, TypeInv, TypeOK
<1>3. c.copy \in [Items -> Row] /\ db' = c.copy /\ c.base = db
  <2>1. c.copy \in [Items -> Row] /\ c.base = db
    BY <1>2 DEF Call, Fresh
  <2> QED BY <1>1, <1>2, <2>1, FreshFlush
<1>4. ~Fusing' /\ (Fusing <=> c.op = "fuse")
  <2>1. Busy' \subseteq {s} /\ call'[s] = Ended("done")
    BY <1>1, <1>2, BlankSound, Alone DEF SerialInv
  <2>2. ~Fusing'
    BY <2>1, BlankSound DEF Fusing, Busy
  <2> QED BY <1>1, <1>2, <2>2, FusingOfBusy DEF SerialInv
<1>5. OpenStages(i)' = OpenStages(i) \cup {x.stage : x \in {y \in c.tickets : y.item = i}}
  <2>1. \A k : k \in OpenStages(i)' <=>
                 \E t \in threads' : t.item = i /\ t.status = "OPEN" /\ t.stage = k
    BY DEF OpenStages
  <2>2. \A k : k \in OpenStages(i) <=>
                 \E t \in threads : t.item = i /\ t.status = "OPEN" /\ t.stage = k
    BY DEF OpenStages
  <2>3. \A k : (\E t \in New : t.item = i /\ t.status = "OPEN" /\ t.stage = k) <=>
                 \E x \in c.tickets : x.item = i /\ x.stage = k
    <3>1. ASSUME NEW k, NEW x \in c.tickets, x.item = i, x.stage = k
          PROVE  \E t \in New : t.item = i /\ t.status = "OPEN" /\ t.stage = k
      <4> DEFINE t == [item |-> x.item, stage |-> x.stage, by |-> s, status |-> "OPEN"]
      <4>1. t \in New /\ t.item = i /\ t.status = "OPEN" /\ t.stage = k
        BY <3>1
      <4> QED BY <4>1
    <3>2. ASSUME NEW k, NEW t \in New, t.item = i, t.stage = k
          PROVE  \E x \in c.tickets : x.item = i /\ x.stage = k
      BY <3>2
    <3> QED BY <3>1, <3>2
  <2> HIDE DEF New, c
  <2> QED BY <1>1, <2>1, <2>2, <2>3
<1>6. c.op # "advance" => OpenStages(i)' = OpenStages(i)
  BY <1>2, <1>5 DEF Sound, Raising
<1>7. CASE c.op = "advance"
  <2>1. Moved(db[i], db'[i])
    BY <1>1, <1>2, <1>3, <1>7 DEF Sound, Working
  <2>2. \A x \in c.tickets : x.item = i =>
          /\ db'[i].state = "HUMAN_BLOCKED" /\ db'[i].data.blockedAt = x.stage
          /\ db[i].state # "HUMAN_BLOCKED"
    BY <1>2, <1>3 DEF Sound, Raising
  <2>3. Fusing' = Fusing
    BY <1>4, <1>7 DEF Fusing
  <2>4. CASE db'[i] = db[i]
    <3>1. OpenStages(i)' = OpenStages(i)
      BY <1>5, <2>2, <2>4
    <3> QED BY <2>3, <2>4, <3>1 DEF Item!item
  <2>5. CASE db'[i] # db[i]
    <3>1. PICK m \in 1..5, k \in Stages :
            /\ m <= k /\ db[i].state = Path[m]
            /\ \/ db'[i].state = Path[k + 1] /\ db'[i].data.blockedAt = None
               \/ k # 2 /\ db'[i].state = "HUMAN_BLOCKED" /\ db'[i].data.blockedAt = k
               \/ db'[i].state = "FAILED"
      BY <2>1, <2>5 DEF Moved
    <3>2. k \in Item(i)!Stages /\ m \in 1..k /\ m \in Item(i)!Stages /\ k + 1 \in 1..5
      BY <3>1 DEF Stages, Item!Stages
    <3>3. CASE db'[i].state = Path[k + 1] /\ db'[i].data.blockedAt = None
      <4>1. db'[i].state # "HUMAN_BLOCKED"
        BY <3>2, <3>3, PathValues
      <4>2. OpenStages(i)' = OpenStages(i)
        BY <1>5, <2>2, <4>1
      <4> QED BY <2>3, <3>1, <3>2, <3>3, <4>2 DEF Item!Advance
    <3>4. CASE k # 2 /\ db'[i].state = "HUMAN_BLOCKED" /\ db'[i].data.blockedAt = k
      <4>1. OpenStages(i)' \in {OpenStages(i), OpenStages(i) \cup {k}}
        BY <1>5, <2>2, <3>4
      <4> QED BY <2>3, <3>1, <3>2, <3>4, <4>1 DEF Item!Block
    <3>5. CASE db'[i].state = "FAILED"
      <4>1. OpenStages(i)' = OpenStages(i)
        BY <1>5, <2>2, <3>5
      <4>2. db'[i].data.blockedAt \in Item(i)!Stages \cup {None}
        BY <1>3 DEF Row, Data, Stages, Item!Stages
      <4> QED BY <2>3, <3>1, <3>2, <3>5, <4>1, <4>2 DEF Item!Fail
    <3> QED BY <3>1, <3>3, <3>4, <3>5
  <2> QED BY <2>4, <2>5
<1>8. CASE c.op \in {"approve", "reject"}
  <2>1. \/ db'[i] = [db[i] EXCEPT !.state = "DELIVERED"]
        \/ db'[i] = [db[i] EXCEPT !.state = "INTAKE_CLASSIFIED"]
    BY <1>1, <1>2, <1>3, <1>8 DEF Sound, Storing
  <2>2. /\ db'[i].state \in {"DELIVERED", "INTAKE_CLASSIFIED"}
        /\ db'[i].data.blockedAt = db[i].data.blockedAt
    BY <1>2, <2>1 DEF Row
  <2>3. Fusing' = Fusing
    BY <1>4, <1>8 DEF Fusing
  <2> QED BY <1>6, <1>8, <2>2, <2>3 DEF Item!Decide
<1>9. CASE c.op = "patch"
  <2>1. db'[i].state = db[i].state /\ db'[i].data.blockedAt = db[i].data.blockedAt
    BY <1>1, <1>2, <1>3, <1>9 DEF Sound, Storing
  <2>2. Fusing' = Fusing
    BY <1>4, <1>9 DEF Fusing
  <2> QED BY <1>6, <1>9, <2>1, <2>2 DEF Item!item
<1>10. CASE c.op = "fuse"
  <2>1. db'[i] = db[i] \/ Replaced(i, db'[i])
    BY <1>1, <1>2, <1>3, <1>10 DEF Sound, Storing
  <2>2. db'[i].data.blockedAt \in {None, db[i].data.blockedAt}
    BY <1>2, <1>3, <1>10 DEF Fresh, Kept
  <2> QED BY <1>4, <1>6, <1>10, <2>1, <2>2 DEF Item!Fuse, Replaced
<1>11. c.op \in {"advance", "approve", "reject", "patch", "fuse"}
  BY <1>1, <1>2 DEF Sound, Placed, Call
<1> QED BY <1>7, <1>8, <1>9, <1>10, <1>11

\* An answer to a thread closes at most one stage's question.
LEMMA ItemMove ==
  ASSUME SerialInv, OneOpenTicket, NEW t \in threads,
         NEW st \in {"IN_PROGRESS", "CLOSED"}, MoveThread(t, st), NEW i \in Items
  PROVE  Item(i)!Answer \/ UNCHANGED Item(i)!item
<1>1. /\ db' = db /\ call' = call
      /\ \A u \in threads' : u.status = "OPEN" => u \in threads /\ u # t
      /\ \A u \in threads : u # t => u \in threads'
  BY MoveFacts DEF SerialInv, TypeInv
<1>2. Fusing' = Fusing
  BY <1>1 DEF Fusing
<1>3. \A k : k \in OpenStages(i) <=>
               \E u \in threads : u.item = i /\ u.status = "OPEN" /\ u.stage = k
  BY DEF OpenStages
<1>4. \A k : k \in OpenStages(i)' <=>
               \E u \in threads' : u.item = i /\ u.status = "OPEN" /\ u.stage = k
  BY DEF OpenStages
<1>5. CASE t.item = i /\ t.status = "OPEN"
  <2>1. t.stage \in OpenStages(i)
    BY <1>3, <1>5
  <2>2. t.stage \notin OpenStages(i)'
    BY <1>1, <1>4, <1>5 DEF OneOpenTicket
  <2>3. \A k : k # t.stage => (k \in OpenStages(i)' <=> k \in OpenStages(i))
    BY <1>1, <1>3, <1>4
  <2>4. OpenStages(i)' = OpenStages(i) \ {t.stage}
    BY <2>1, <2>2, <2>3
  <2> QED BY <1>1, <1>2, <2>1, <2>4 DEF Item!Answer
<1>6. CASE ~(t.item = i /\ t.status = "OPEN")
  <2>1. \A k : k \in OpenStages(i)' <=> k \in OpenStages(i)
    BY <1>1, <1>3, <1>4, <1>6
  <2>2. OpenStages(i)' = OpenStages(i)
    BY <2>1 DEF OpenStages
  <2> QED BY <1>1, <1>2, <2>2 DEF Item!item
<1> QED BY <1>5, <1>6

\* Every step is a step of every item's lifecycle, or none.
LEMMA ItemNext ==
  ASSUME SerialInv, SerialInv', OneOpenTicket, [Next]_vars, NEW i \in Items
  PROVE  [Item(i)!Next]_(Item(i)!item)
<1>1. ASSUME NEW s \in Sessions, Start(s) PROVE UNCHANGED Item(i)!item
  BY <1>1, ItemStart DEF SerialInv
<1>2. ASSUME NEW s \in Sessions, Step(s) PROVE Item(i)!Next \/ UNCHANGED Item(i)!item
  <2>1. CASE CommitRescue(s)
    BY <2>1, ItemRelease DEF Item!Next
  <2>2. CASE Commit(s)
    BY <2>2, ItemCommit DEF Item!Next
  <2>3. ASSUME NEW matched \in SUBSET Items, NEW bare \in SUBSET Items,
               NEW success \in BOOLEAN, FuseItems(s, matched, bare, success)
        PROVE  Item(i)!Next
    BY <2>3, ItemFuse DEF Item!Next
  <2>4. ASSUME NEW j \in Items,
               \/ RescueItem(s, j) \/ ActivityPasses(s, j) \/ ActivityFails(s, j)
               \/ ActivityBlocks(s, j)
        PROVE  UNCHANGED Item(i)!item
    BY <2>4, ItemWork DEF SerialInv
  <2>5. CASE GiveUp(s)
    BY <2>5, ItemGiveUp DEF Item!Next
  <2> QED BY <1>2, <2>1, <2>2, <2>3, <2>4, <2>5 DEF Step
<1>3. ASSUME NEW t \in threads, NEW st \in {"IN_PROGRESS", "CLOSED"},
             MoveThread(t, st)
      PROVE  Item(i)!Next \/ UNCHANGED Item(i)!item
  BY <1>3, ItemMove DEF Item!Next
<1>4. CASE UNCHANGED vars
  BY <1>4 DEF vars, Item!item, OpenStages, Fusing
<1> QED BY <1>1, <1>2, <1>3, <1>4 DEF Next

\* When calls do not overlap, every item follows the lifecycle of PipelineItem:
\* no stage is skipped, a block names its stage, and an item is released only
\* when no OPEN thread is left, to redo exactly the stage that blocked it, or,
\* if a fusion may have taken it in whole, the stage its marker names.
THEOREM SerialImplementsItem == SerialSpec => ItemSpec
<1>1. Init => \A i \in Items : Item(i)!Init
  <2> SUFFICES ASSUME Init, NEW i \in Items PROVE Item(i)!Init
    OBVIOUS
  <2>1. ~Fusing /\ OpenStages(i) = {}
    BY BlankType DEF Init, Fusing, OpenStages
  <2>2. db[i].state \in {"PARSED", "FUSED"} /\ db[i].data.blockedAt = None
    BY DEF Init, FreshData
  <2> QED BY <2>1, <2>2 DEF Item!Init, Fusing
<1>2. SerialInv /\ SerialInv' /\ OneOpenTicket /\ [Next /\ OneAtATime']_vars =>
        [\A i \in Items : [Item(i)!Next]_(Item(i)!item)]_vars
  BY ItemNext
<1>3. [Next /\ OneAtATime']_vars => [Next]_vars
  OBVIOUS
<1> QED BY <1>1, <1>2, <1>3, SerialInvariant, TicketsAreUnique, PTL DEF SerialSpec, Spec, ItemSpec
=============================================================================
