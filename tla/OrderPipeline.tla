---------------------------- MODULE OrderPipeline ----------------------------
(***************************************************************************)
(* The order pipeline driven over HTTP (api/v1/orders.py) for one order:   *)
(* POST /advance, its rescue pass and its stages, approve, reject, the     *)
(* fusion task, and the chat dispatcher's patches and auto-advance hook    *)
(* (services/hitl/chat_dispatcher.py, auto_advance.py).                    *)
(*                                                                         *)
(* Every call has a database session of its own.  The session reads the    *)
(* items once, works on that copy across many awaits (the agents' calls),  *)
(* and writes only the attributes that differ from what it read: at a      *)
(* commit, and before a query of its own (autoflush, db/session.py:17).    *)
(* Rows carry no version and the code locks none, but a row that has been  *)
(* written is the writer's until its transaction ends.  Otherwise calls    *)
(* for the same order interleave at every await.                           *)
(***************************************************************************)
EXTENDS Naturals, FiniteSets

CONSTANTS
  Items,      \* the items of the order
  Sessions,   \* ids of calls, each served once by a session of its own
  Bare,       \* the items whose data may lack every field the fusion sorts by
  Facts,      \* values a chat patch can write into an item's data
  Carried,    \* those of Facts in the fields the fusion carries over
  None        \* a missing value

VARIABLES
  db,        \* the committed OrderItemModel row of each item
  threads,   \* the committed HiTLThreadModel rows raised by the pipeline
  call       \* the coroutine of each session

vars == <<db, threads, call>>

-----------------------------------------------------------------------------
\* _STAGE_PLAN: stage k takes an item from Path[k] to Path[k + 1].
Path   == <<"FUSED", "COMPLIANCE_EVAL", "DRAWING_GENERATED", "COMPOSED",
            "VALIDATED">>
Stages == 1..4
From(k) == Path[k]
To(k)   == Path[k + 1]

\* A missing value is none of the values.
ASSUME NoneAssumption ==
  None \notin Facts /\ None \notin Stages /\ \A k \in 1..5 : None # Path[k]

\* What a fusion leaves of an item's data is some of it.
ASSUME FusionAssumption == Bare \subseteq Items /\ Carried \subseteq Facts

\* ItemState, without REVIEWED and CREATED, which none of these calls writes
\* or reads.
ItemStates == {Path[k] : k \in 1..5} \cup
              {"INTAKE_CLASSIFIED", "PARSED", "DELIVERED", "HUMAN_BLOCKED", "FAILED"}

\* The part of item.data these calls tell apart: last_successful_state,
\* blocked_at_stage (as the number of the stage) and the patched values.
Data == [last : {Path[k] : k \in 2..5} \cup {None},
         blockedAt : Stages \cup {None}, facts : SUBSET Facts]
Row  == [state : ItemStates, data : Data]

FreshData == [last |-> None, blockedAt |-> None, facts |-> {}]

Live == {"OPEN", "IN_PROGRESS"}

\* A thread is keyed by item and stage (its agent_id is the activity's name).
\* A session raises at most one for a block, so by stands for its id.  CLOSED
\* is RESOLVED or ESCALATED: no call asks which.
Thread == [item : Items, stage : Stages, by : Sessions,
           status : Live \cup {"CLOSED"}]
Ticket == [item : Items, stage : Stages]

\* The force argument of /advance.  run_auto_advance calls the handler as a
\* function and leaves the argument out: it then holds FastAPI's Query
\* object, which is not false.
Forces == {"true", "false", "unset"}

\* The columns of an item's row these calls write.
Columns == {"state", "data"}

\* base is what the session read, copy what it has made of it, and wrote the
\* columns its transaction has already sent to the database.
Call == [op    : {"none", "advance", "approve", "reject", "fuse", "patch"},
         pc    : {"idle", "rescue", "rescued", "stage", "fusing", "commit",
                  "done", "raised"},
         force : Forces, base : [Items -> Row], copy : [Items -> Row],
         wrote : [Items -> SUBSET Columns],
         stage : Stages, todo : SUBSET Items, stalled : BOOLEAN,
         tickets : SUBSET Ticket, freed : SUBSET Items]

\* Nothing of a finished session survives but its outcome.
Blank == [op |-> "none", pc |-> "idle", force |-> "true",
          base |-> [i \in Items |-> [state |-> "PARSED", data |-> FreshData]],
          copy |-> [i \in Items |-> [state |-> "PARSED", data |-> FreshData]],
          wrote |-> [i \in Items |-> {}],
          stage |-> 1, todo |-> {}, stalled |-> FALSE, tickets |-> {},
          freed |-> {}]
Ended(outcome) == [Blank EXCEPT !.pc = outcome]

Init ==
  /\ db \in [Items -> {[state |-> st, data |-> FreshData] :
                         st \in {"PARSED", "FUSED"}}]
  /\ threads = {}
  /\ call = [s \in Sessions |-> Blank]

-----------------------------------------------------------------------------
\* The columns of item i that the call has written or would write now.
Changed(c, i) ==
  c.wrote[i]
    \cup (IF c.copy[i].state = c.base[i].state THEN {} ELSE {"state"})
    \cup (IF c.copy[i].data = c.base[i].data THEN {} ELSE {"data"})

\* A flush sends them; it waits while another transaction has written a row
\* of them.
AutoFlushed(c) == [c EXCEPT !.wrote = [i \in Items |-> Changed(c, i)]]
CanFlushUnlocked(s, c) == TRUE   \* mutant: nothing is written before the lookup
CanFlush(s, c) ==
  \A u \in Sessions \ {s}, i \in Items : c.wrote[i] = {} \/ call[u].wrote[i] = {}

\* What a commit stores: those columns, over whatever is stored now.
FlushedStatesOnly(c) ==   \* mutant: data changed in place
  [i \in Items |-> [db[i] EXCEPT !.state = IF "state" \in Changed(c, i)
                                          THEN c.copy[i].state ELSE @]]
Flushed(c) ==
  [i \in Items |->
     [state |-> IF "state" \in Changed(c, i) THEN c.copy[i].state ELSE db[i].state,
      data  |-> IF "data" \in Changed(c, i) THEN c.copy[i].data ELSE db[i].data]]

\* The first stage from k on that some item of the copy is waiting for, with
\* the items it takes; the final commit when there is none.
Waiting(copy, k) == {i \in Items : copy[i].state = From(k)}
Enter(c, k) ==
  LET busy == {j \in k..4 : Waiting(c.copy, j) # {}}
      next == CHOOSE j \in busy : \A m \in busy : j <= m
  IN IF busy = {} THEN [c EXCEPT !.pc = "commit", !.todo = {}]
     ELSE [c EXCEPT !.pc = "stage", !.stage = next,
                    !.todo = Waiting(c.copy, next)]

\* A call comes in and its session reads the items.
Begin(s, c) ==
  /\ call[s].pc = "idle"
  /\ call' = [call EXCEPT ![s] = c]
  /\ UNCHANGED <<db, threads>>
Loaded(op, pc, copy) == [Blank EXCEPT !.op = op, !.pc = pc, !.base = db,
                                      !.copy = copy]

\* POST /advance; the auto-advance hook calls it once a chat has closed a
\* thread, which takes a human's message (the thread is no longer OPEN).
\* With a blocked item the rescue pass looks at the threads first.
BlockedByMarker(copy) ==   \* mutant: judged by the marker alone
  {i \in Items : copy[i].data.blockedAt # None}
Blocked(copy) == {i \in Items : copy[i].state = "HUMAN_BLOCKED"}
BeginAdvance(s, force) ==
  /\ force = "unset" => \E t \in threads : t.status # "OPEN"
  /\ LET c == [Loaded("advance", "rescue", db) EXCEPT !.force = force,
                                                    !.todo = Blocked(db)]
     IN Begin(s, IF c.todo = {} THEN Enter(c, 1) ELSE c)

\* approve_order and reject_order give every item its new state, whatever
\* state it is in, and commit.
BeginApprove(s) ==
  Begin(s, Loaded("approve", "commit",
                  [i \in Items |-> [db[i] EXCEPT !.state = "DELIVERED"]]))
BeginReject(s) ==
  Begin(s, Loaded("reject", "commit",
                  [i \in Items |-> [db[i] EXCEPT !.state = "INTAKE_CLASSIFIED"]]))

\* _apply_patches_to_item, for a thread that was live when the dispatcher
\* asked its agent.  blocked_reason, which it removes, is read by nothing
\* modelled here.
BeginPatch(s, i, fact) ==
  /\ \E t \in threads : t.item = i /\ t.status # "OPEN"
  /\ Begin(s, Loaded("patch", "commit",
                     [db EXCEPT ![i].data.facts = @ \cup {fact}]))

\* _run_fusion: the first session only reads what the agent is given.
BeginFuse(s) == Begin(s, Loaded("fuse", "fusing", db))

\* The second session of _run_fusion: the items the agent matched get the
\* fused data, FUSED if the agent succeeded.  It has only the fields of a PO
\* or a PI, in place of all the item held; but an item that had none of the
\* fields to tell the two apart went in whole, and keeps all it held when the
\* first session read it, the markers of the pipeline included.
FuseItems(s, matched, bare, success) ==
  /\ call[s].pc = "fusing"
  /\ bare \subseteq matched \cap Bare
  /\ LET held(i)  == call[s].base[i].data
         fused(i) == [state |-> IF success THEN "FUSED" ELSE "HUMAN_BLOCKED",
                      data  |-> IF i \in bare THEN held(i)
                                ELSE [FreshData EXCEPT
                                        !.facts = held(i).facts \cap Carried]]
     IN call' = [call EXCEPT ![s].pc = "commit", ![s].base = db,
                   ![s].copy = [i \in Items |-> IF i \in matched THEN fused(i)
                                                ELSE db[i]]]
  /\ UNCHANGED <<db, threads>>

-----------------------------------------------------------------------------
\* The threads a rescue waits for.
Pending(i) == {t \in threads : t.item = i /\ t.status = "OPEN"}

\* Where a rescued item resumes.
ResumeUnset(data) == data.last     \* mutant: no fallback
ResumeAtStart(data) == "FUSED"     \* mutant: the marker is ignored
ResumeState(data) == IF data.last = None THEN "FUSED" ELSE data.last

\* _rescue_resolved_items: the blocked items are looked at one by one, each
\* lookup after a flush of what was changed before it.  One without an OPEN
\* thread goes back to its last successful state, in the session's copy.
RescueItem(s, i) ==
  /\ call[s].pc = "rescue"
  /\ i \in call[s].todo
  /\ CanFlush(s, AutoFlushed(call[s]))
  /\ LET c    == AutoFlushed(call[s])
         free == Pending(i) = {}
         row  == [state |-> ResumeState(c.copy[i].data),
                  data  |-> [c.copy[i].data EXCEPT !.blockedAt = None]]
         d    == [c EXCEPT !.todo = @ \ {i},
                           !.freed = IF free THEN @ \cup {i} ELSE @,
                           !.copy[i] = IF free THEN row ELSE @]
     IN call' = [call EXCEPT ![s] =
                   IF d.todo # {} THEN d
                   ELSE IF d.freed = {} THEN Enter(d, 1)
                   ELSE [d EXCEPT !.pc = "rescued"]]
  /\ UNCHANGED <<db, threads>>

\* The commit after a rescue, where a call with force=false returns.
CommitRescue(s) ==
  /\ call[s].pc = "rescued"
  /\ CanFlush(s, AutoFlushed(call[s]))
  /\ LET c == call[s]
     IN /\ db' = Flushed(c)
        /\ call' = [call EXCEPT ![s] =
                      IF c.force = "false" THEN Ended("done")
                      ELSE Enter([c EXCEPT !.base = c.copy, !.freed = {},
                                           !.wrote = Blank.wrote], 1)]
  /\ UNCHANGED threads

\* The session once the activity has answered for item i: the item gets row,
\* and after the last item of the stage the loop goes on or, if an item
\* blocked or failed, stops.
Settled(c, i, row, ok, tickets) ==
  LET d == [c EXCEPT !.copy[i] = row, !.todo = @ \ {i},
                     !.stalled = @ \/ ~ok, !.tickets = @ \cup tickets]
  IN IF d.todo # {} THEN d
     ELSE IF d.stalled THEN [d EXCEPT !.pc = "commit"]
     ELSE Enter(d, d.stage + 1)

AwaitsActivity(s, i) == call[s].pc = "stage" /\ i \in call[s].todo

\* The activity succeeds: the item advances and its block markers go.  Storing
\* a drawing, a die-cut or the approval PDF, when there is one, queries first.
ActivityPasses(s, i) ==
  /\ AwaitsActivity(s, i)
  /\ LET c == call[s]
         row == [state |-> To(c.stage),
                 data  |-> [c.copy[i].data EXCEPT !.last = To(c.stage),
                                                  !.blockedAt = None]]
         d == Settled(c, i, row, TRUE, {})
     IN \E e \in {d} \cup (IF c.stage \in {2, 3} THEN {AutoFlushed(d)} ELSE {}) :
          /\ CanFlush(s, e)
          /\ call' = [call EXCEPT ![s] = e]
  /\ UNCHANGED <<db, threads>>

\* The activity fails, as every stage but the drawing can, or raises, which
\* leaves the item's data alone.
ActivityFails(s, i) ==
  /\ AwaitsActivity(s, i)
  /\ LET c == call[s]
     IN \E data \in {c.copy[i].data} \cup
                    (IF c.stage = 2 THEN {}
                     ELSE {[c.copy[i].data EXCEPT !.blockedAt = c.stage]}) :
          call' = [call EXCEPT ![s] =
                     Settled(c, i, [state |-> "FAILED", data |-> data], FALSE, {})]
  /\ UNCHANGED <<db, threads>>

\* _ensure_hitl_thread looks for an OPEN thread of the same item and agent:
\* none raises a ticket, one is kept.
OpenElsewhere(i, k) ==   \* mutant: the lookup is by item alone
  {t \in threads : t.item = i /\ t.status = "OPEN"}
OpenFor(i, k) == {t \in threads : t.item = i /\ t.stage = k /\ t.status = "OPEN"}

\* The activity needs a human: the item is blocked and has a thread.  The
\* lookup flushes the item's new state first, so it waits for a call that has
\* written the row and sees the thread that one raised.
ActivityBlocks(s, i) ==
  /\ AwaitsActivity(s, i)
  /\ call[s].stage # 2
  /\ LET c == call[s]
         row == [state |-> "HUMAN_BLOCKED",
                 data  |-> [c.copy[i].data EXCEPT !.blockedAt = c.stage]]
         d == Settled(c, i, row, FALSE,
                      IF OpenFor(i, c.stage) = {}
                      THEN {[item |-> i, stage |-> c.stage]} ELSE {})
         e == [AutoFlushed(d) EXCEPT !.wrote[i] = @ \cup {"state"}]
     IN /\ CanFlush(s, e)
        /\ call' = [call EXCEPT ![s] = e]
  /\ UNCHANGED <<db, threads>>

\* The rows the next flush of the session may send.
Sends(s) == {i \in Items : Changed(call[s], i) # {}} \cup
            (IF call[s].pc = "stage" THEN call[s].todo ELSE {})

\* A flush that waits for another transaction may end in an error, of a
\* deadlock (PostgreSQL) or a timeout (SQLite): the call ends in a 500, or the
\* fusion in a log line, and what it has written is rolled back.
GiveUp(s) ==
  /\ call[s].pc \in {"rescue", "rescued", "stage", "commit"}
  /\ \E u \in Sessions \ {s}, i \in Sends(s) : call[u].wrote[i] # {}
  /\ call' = [call EXCEPT ![s] = Ended("raised")]
  /\ UNCHANGED <<db, threads>>

\* The last commit of any of the calls, with the threads raised on the way.
Commit(s) ==
  /\ call[s].pc = "commit"
  /\ CanFlush(s, AutoFlushed(call[s]))
  /\ db' = Flushed(call[s])
  /\ threads' = threads \cup
       {[item |-> x.item, stage |-> x.stage, by |-> s, status |-> "OPEN"] :
          x \in call[s].tickets}
  /\ call' = [call EXCEPT ![s] = Ended("done")]

-----------------------------------------------------------------------------
\* What operators and the chat do to a thread (HitlThread has the details):
\* a human's first reply, a resolution, an escalation.
MoveThread(t, st) ==
  /\ t \in threads
  /\ \/ t.status = "OPEN" /\ st = "IN_PROGRESS"
     \/ t.status \in Live /\ st = "CLOSED"
  /\ threads' = (threads \ {t}) \cup {[t EXCEPT !.status = st]}
  /\ UNCHANGED <<db, call>>

Start(s) ==
  \/ \E force \in Forces : BeginAdvance(s, force)
  \/ BeginApprove(s) \/ BeginReject(s) \/ BeginFuse(s)
  \/ \E i \in Items, fact \in Facts : BeginPatch(s, i, fact)

Step(s) ==
  \/ CommitRescue(s) \/ Commit(s) \/ GiveUp(s)
  \/ \E matched, bare \in SUBSET Items, success \in BOOLEAN :
       FuseItems(s, matched, bare, success)
  \/ \E i \in Items : \/ RescueItem(s, i)
                      \/ ActivityPasses(s, i) \/ ActivityFails(s, i)
                      \/ ActivityBlocks(s, i)

Next ==
  \/ \E s \in Sessions : Start(s) \/ Step(s)
  \/ \E t \in threads, st \in {"IN_PROGRESS", "CLOSED"} : MoveThread(t, st)

Spec == Init /\ [][Next]_vars

\* The calls of an order one after the other, as a lock on the order would
\* have it and the code does not.
Busy == {s \in Sessions : call[s].pc \notin {"idle", "done", "raised"}}
OneAtATime == \A s, u \in Busy : s = u
SerialSpec == Init /\ [][Next /\ OneAtATime']_vars

-----------------------------------------------------------------------------
(* What holds for any interleaving of calls.                               *)

\* The types of the variables.
TypeOK ==
  /\ db \in [Items -> Row]
  /\ threads \subseteq Thread
  /\ call \in [Sessions -> Call]

\* However calls overlap, a thread is raised only in the commit that leaves
\* its item blocked, and blocked at its stage unless another call changed the
\* item's data since the session read it: nobody finds a ticket in the inbox
\* for an item that is not waiting.
RaisedForBlocked ==
  [][\A t \in threads' \ threads :
       t.status = "OPEN" =>
         /\ db'[t.item].state = "HUMAN_BLOCKED"
         /\ \/ db'[t.item].data.blockedAt = t.stage
            \/ call[t.by].base[t.item].data # db[t.item].data]_vars

Regresses(i) ==
  \/ db[i].state = "DELIVERED" /\ db'[i].state # "DELIVERED"
  \/ \E k, m \in 1..5 : k < m /\ db[i].state = Path[m] /\ db'[i].state = Path[k]

\* An item goes back along the pipeline, or out of DELIVERED, only by a
\* rejection, a new fusion, or a commit of a call that had read another state:
\* a call working on current data only moves items forward.
OnlyStaleCallsRegress ==
  [][\A i \in Items : Regresses(i) =>
       \E s \in Sessions :
         /\ call[s].pc \in {"commit", "rescued"} /\ call'[s].pc # call[s].pc
         /\ \/ call[s].op \in {"reject", "fuse"}
            \/ call[s].base[i].state # db[i].state]_vars

\* However calls overlap, advancing again never duplicates a ticket: an item
\* has at most one OPEN thread for a stage (_ensure_hitl_thread: "an operator
\* clicking Advance pipeline three times in a row will not produce three
\* duplicate tickets").  Two lookups cannot both find none, because the flush
\* before a lookup waits for the row of the item.
OneOpenTicket ==
  \A t, u \in threads :
    /\ t.status = "OPEN" /\ u.status = "OPEN"
    /\ t.item = u.item /\ t.stage = u.stage
    => t = u

-----------------------------------------------------------------------------
(* What holds when calls do not overlap (SerialSpec).                      *)

\* An item blocked at a stage has a thread about that stage: nothing waits
\* for a human who was never asked.  (A fusion that fails on an item it takes
\* in whole leaves it the marker of an older block or failure.)
BlocksHaveThreads ==
  \A i \in Items \ Bare :
    db[i].state = "HUMAN_BLOCKED" /\ db[i].data.blockedAt # None =>
      \E t \in threads : t.item = i /\ t.stage = db[i].data.blockedAt

\* Each item follows the lifecycle of PipelineItem: no stage is skipped, and
\* a released item redoes exactly the stage that blocked it, unless a fusion
\* took it in whole.
OpenStages(i) == {t.stage : t \in {u \in threads : u.item = i /\ u.status = "OPEN"}}
Fusing == \E s \in Sessions : call[s].op = "fuse" /\ call[s].pc = "commit"
Item(i) == INSTANCE PipelineItem
             WITH state <- db[i].state, block <- db[i].data.blockedAt,
                  open <- OpenStages(i), fusing <- Fusing, whole <- i \in Bare
ItemSpec == /\ \A i \in Items : Item(i)!Init
            /\ [][\A i \in Items : [Item(i)!Next]_(Item(i)!item)]_vars

-----------------------------------------------------------------------------
(* What the code says of itself.                                           *)

\* orders.py:1529-1534, "When false ... only the self-heal rescue pass runs
\* ... The _STAGE_PLAN cascade is skipped".
SoftAdvanceOnlyRescues ==
  \A s \in Sessions : call[s].pc = "stage" => call[s].force # "false"

\* The same sentence: false is "used by the auto-advance hook that fires
\* after a HiTL Resolve", so the hook's calls run no stage either.
AutoAdvanceOnlyRescues ==
  \A s \in Sessions : call[s].pc = "stage" => call[s].force # "unset"

\* orders.py:1575-1577, the "breadcrumbs the pipeline leaves behind tell us
\* exactly where to resume from": a released item resumes at the stage that
\* blocked it.
ResumesAtBlock ==
  [][\A i \in Items :
       (/\ db[i].state = "HUMAN_BLOCKED" /\ db[i].data.blockedAt # None
        /\ \E k \in 1..5 : db'[i].state = Path[k]) =>
         Fusing \/ db'[i].state = From(db[i].data.blockedAt)]_vars

\* orders.py:1462-1463, the rescue is for "HUMAN_BLOCKED items whose HiTL
\* threads are all resolved".
RescueWaitsForResolution ==
  [][\A s \in Sessions : call[s].pc = "rescued" /\ call'[s].pc # "rescued" =>
       \A i \in call[s].freed : \A t \in threads :
         t.item = i => t.status \notin Live]_vars

\* orders.py:1733-1734, a thread is raised "so the operator sees this block in
\* the Inbox": an item that becomes blocked at a stage has a live thread.
BlockIsInInbox ==
  [][\A i \in Items :
       (/\ db[i].state # "HUMAN_BLOCKED" /\ db'[i].state = "HUMAN_BLOCKED"
        /\ db'[i].data.blockedAt # None) =>
         \E t \in threads' : t.item = i /\ t.status \in Live]_vars

\* order_processor.py:48, DELIVERED has no transition to any state.
DeliveredIsFinal ==
  [][\A i \in Items : db[i].state = "DELIVERED" => db'[i].state = "DELIVERED"]_vars

\* orders.py:1724-1727, "Preserve the stage this item WAS trying to reach":
\* the item a thread is raised for carries the marker of that stage.
TicketHasMarker ==
  [][\A t \in threads' \ threads :
       t.status = "OPEN" => db'[t.item].data.blockedAt = t.stage]_vars

\* chat_dispatcher.py:1008-1009, "if the operator and the LLM agreed on a
\* change, it should stick".
PatchSticks ==
  [][\A i \in Items : db[i].data.facts \subseteq db'[i].data.facts]_vars
=============================================================================
