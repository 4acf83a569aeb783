-------------------------- MODULE HitlThread_proofs --------------------------
(***************************************************************************)
(* Proofs about HitlThread for any sets of threads and requests and any    *)
(* bound on the process stops: its types, its three safety properties and  *)
(* the lifecycle threads follow when requests do not overlap.              *)
(***************************************************************************)
EXTENDS HitlThread, TLAPS

\* Request r has committed, and is still being served or has been answered.
Committed(r) == req[r].pc \in {"committed", "refreshed", "publishing"}

\* The rows request r left for thread t.
Stored(r, t) ==
  /\ req[r].op \in MessageOps \cup {"create_with_message"} =>
       \E m \in messages : m.by = r /\ m.thread = t
  /\ req[r].op \in CloseOps => Audit(r, t, ClosedStatus(req[r].op)) \in audit
  /\ req[r].op = "escalate" => r \in notifications

\* An envelope request r may publish about thread t.
Own(r, t, e) ==
  /\ e.by = r
  /\ e.type \in {"agent_message", "human_message", "option_selected"} =>
       req[r].op \in MessageOps \cup {"create_with_message"}
  /\ e.type = "thread_resolved" => req[r].op = "resolve"
  /\ e.type = "escalation" => req[r].op = "escalate"
  /\ e.status # NoStatus => Explained(t, e.status)

\* What a request in progress has read.
Known(r) ==
  /\ req[r].pc \in Running => /\ req[r].op \in Ops
                              /\ req[r].thread \in Threads
                              /\ status[req[r].thread] # Absent
  /\ req[r].pc = "loaded" => /\ req[r].seen \in Live
                             /\ req[r].op \in MessageOps \cup CloseOps

\* What it has stored and may publish.
Done(r) ==
  /\ Committed(r) => Stored(r, req[r].thread)
  /\ req[r].pc \in {"refreshed", "publishing"} =>
       \A i \in DOMAIN req[r].outbox : Own(r, req[r].thread, req[r].outbox[i])
  /\ req[r].pc = "publishing" /\ req[r].op \in CloseOps => r \in hooked

\* Every request keeps them.
KnownInv == \A r \in Requests : Known(r)
DoneInv  == \A r \in Requests : Done(r)

\* The inductive invariant, in the two layers the proofs establish it.
TypeInv == TypeOK /\ KnownInv
IInv    == TypeInv /\ StatusIsExplained /\ DoneInv /\ EventsAreBacked

-----------------------------------------------------------------------------
(* Types.                                                                  *)

\* The envelopes of an operation are envelopes.
LEMMA OutboxType ==
  ASSUME NEW r \in Requests, NEW op \in Ops, NEW now \in Statuses
  PROVE  Outbox(r, op, now) \in Seq(Event)
<1> DEFINE E(type, st) == [type |-> type, status |-> st, by |-> r]
<1>1. \A type \in EventTypes, st \in Statuses \cup {NoStatus} : E(type, st) \in Event
  BY DEF Event
<1>2. \A type \in EventTypes, st \in Statuses \cup {NoStatus} :
        <<E(type, st)>> \in Seq(Event)
  BY <1>1
<1>3. /\ {"status_update", "agent_message", "human_message", "option_selected",
          "thread_resolved", "escalation"} \subseteq EventTypes
      /\ now \in Statuses \cup {NoStatus} /\ NoStatus \in Statuses \cup {NoStatus}
  BY DEF EventTypes
<1> DEFINE Update == IF now = "IN_PROGRESS" THEN <<E("status_update", now)>> ELSE <<>>
<1>4. Update \in Seq(Event)
  BY <1>2, <1>3
<1>5. \A type \in EventTypes : <<E(type, NoStatus)>> \o Update \in Seq(Event)
  BY <1>2, <1>3, <1>4
<1>6. <<E("status_update", now), E("agent_message", NoStatus)>> \in Seq(Event)
  BY <1>1, <1>3
<1> QED
  BY <1>2, <1>3, <1>5, <1>6
     DEF Outbox, Ops, CreateOps, MessageOps, HumanOps, CloseOps

\* The first layer holds initially and is kept by every step.
LEMMA TypeInit == Init => TypeInv
BY MaxCrashesAssumption
   DEF Init, TypeInv, TypeOK, KnownInv, Known, Request, Idle, Statuses, Live,
       Terminal, Absent, Running, NoStatus, Received

\* The rows a request inserts are rows of their tables.
LEMMA RowType ==
  ASSUME NEW r \in Requests, NEW t \in Threads, NEW op \in Ops
  PROVE  /\ Message(r, t, op) \in MessageRow
         /\ Audit(r, t, "created") \in AuditRow
         /\ Audit(r, t, ClosedStatus(op)) \in AuditRow
         /\ ClosedStatus(op) \in Terminal
<1>1. Sender(op) \in {"human", "agent", "system"}
  BY DEF Sender
<1>2. ClosedStatus(op) \in Terminal
  BY DEF ClosedStatus, Terminal
<1> QED
  BY <1>1, <1>2 DEF Message, Audit, MessageRow, AuditRow

\* A record of req with some fields changed is a record of req.
LEMMA RequestType ==
  ASSUME NEW q \in Request
  PROVE  /\ \A pc \in Running \cup {"done", "refused", "stopped", "cut"} :
              [q EXCEPT !.pc = pc] \in Request
         /\ \A seen \in Statuses, outbox \in Seq(Event) :
              [q EXCEPT !.pc = "refreshed", !.seen = seen, !.outbox = outbox] \in Request
         /\ q.outbox # <<>> => [q EXCEPT !.outbox = Tail(@)] \in Request
<1> DEFINE PCs == Running \cup {"idle", "done", "refused", "stopped", "cut"}
<1>1. \A pc \in PCs : [q EXCEPT !.pc = pc] \in Request
  BY DEF Request
<1>2. \A seen \in Statuses, outbox \in Seq(Event) :
        [q EXCEPT !.pc = "refreshed", !.seen = seen, !.outbox = outbox] \in Request
  BY DEF Request, Running
<1>3. ASSUME q.outbox # <<>>
      PROVE  [q EXCEPT !.outbox = Tail(@)] \in Request
  <2>1. q.outbox \in Seq(Event)
    BY DEF Request
  <2>2. Tail(q.outbox) \in Seq(Event)
    BY <1>3, <2>1
  <2> QED
    BY <2>2 DEF Request
<1> QED
  BY <1>1, <1>2, <1>3

\* The record of a request that has just been received is one of req.
LEMMA ReceivedType ==
  ASSUME NEW op \in Ops, NEW t \in Threads, NEW seen \in Statuses \cup {NoStatus},
         NEW pc \in Running \cup {"refused"}, NEW socket \in BOOLEAN
  PROVE  Received(op, t, pc, seen, socket) \in Request
BY DEF Received, Request, Running

\* Every step of the resolver keeps the types and what requests have read.
LEMMA TypeStep == TypeInv /\ [Next]_vars => TypeInv'
<1> SUFFICES ASSUME TypeInv, [Next]_vars PROVE TypeInv'
  OBVIOUS
<1> USE DEF TypeInv
<1>1. ASSUME NEW r \in Requests, NEW t \in Threads, NEW op \in Ops, CreateThread(r, t, op)
      PROVE  TypeInv'
  <2>1. TypeOK'
    <3>1. Received(op, t, "committed", NoStatus, FALSE) \in Request
      BY ReceivedType DEF Running
    <3>2. messages' \subseteq MessageRow
      <4>1. messages' \subseteq messages \cup {Message(r, t, op)}
        BY <1>1 DEF CreateThread
      <4> QED BY <4>1, RowType DEF TypeOK
    <3>3. audit' \subseteq AuditRow
      BY <1>1, RowType DEF CreateThread, TypeOK
    <3>4. status' \in [Threads -> Statuses \cup {Absent}]
      BY <1>1 DEF CreateThread, TypeOK, Statuses, Live
    <3>5. req' \in [Requests -> Request]
      BY <1>1, <3>1 DEF CreateThread, TypeOK
    <3> QED BY <1>1, <3>2, <3>3, <3>4, <3>5 DEF CreateThread, TypeOK
  <2>2. KnownInv'
    BY <1>1 DEF CreateThread, TypeOK, KnownInv, Known, Running, Received, Absent
  <2> QED BY <2>1, <2>2
<1>2. ASSUME NEW r \in Requests, NEW t \in Threads, NEW op \in Ops, LoadThread(r, t, op)
      PROVE  TypeInv'
  <2>1. TypeOK'
    <3>1. status[t] \in Statuses
      BY <1>2 DEF LoadThread, TypeOK
    <3>2. \A pc \in {"loaded", "refused"}, socket \in BOOLEAN :
            Received(op, t, pc, status[t], socket) \in Request
      BY <3>1, ReceivedType DEF Running
    <3> QED BY <1>2, <3>2 DEF LoadThread, TypeOK, rows
  <2>2. KnownInv'
    BY <1>2 DEF LoadThread, TypeOK, KnownInv, Known, Running, Received, Terminal, Statuses, rows
  <2> QED BY <2>1, <2>2
<1>3. ASSUME NEW r \in Requests, CommitMessage(r)
      PROVE  TypeInv'
  <2>1. TypeOK'
    <3>1. req[r].op \in Ops /\ req[r].thread \in Threads
      BY <1>3 DEF CommitMessage, KnownInv, Known, Running
    <3>2. messages' \subseteq MessageRow
      <4>1. messages' \subseteq messages \cup {Message(r, req[r].thread, req[r].op)}
        BY <1>3 DEF CommitMessage
      <4> QED BY <3>1, <4>1, RowType DEF TypeOK
    <3>3. status' \in [Threads -> Statuses \cup {Absent}]
      BY <1>3 DEF CommitMessage, TypeOK, Statuses, Live
    <3>4. req' \in [Requests -> Request]
      BY <1>3, RequestType DEF CommitMessage, TypeOK, Running
    <3> QED BY <1>3, <3>2, <3>3, <3>4 DEF CommitMessage, TypeOK
  <2>2. KnownInv'
    BY <1>3 DEF CommitMessage, TypeOK, KnownInv, Known, Running, Absent
  <2> QED BY <2>1, <2>2
<1>4. ASSUME NEW r \in Requests, CommitClose(r)
      PROVE  TypeInv'
  <2>1. TypeOK'
    <3>1. req[r].op \in Ops /\ req[r].thread \in Threads
      BY <1>4 DEF CommitClose, KnownInv, Known, Running
    <3>2. messages' \subseteq MessageRow
      <4>1. messages' \subseteq messages \cup {Message(r, req[r].thread, req[r].op)}
        BY <1>4 DEF CommitClose
      <4> QED BY <3>1, <4>1, RowType DEF TypeOK
    <3>3. audit' \subseteq AuditRow
      <4>1. Audit(r, req[r].thread, ClosedStatus(req[r].op)) \in
              AuditRow
        BY <3>1, RowType
      <4> QED BY <1>4, <4>1 DEF CommitClose, TypeOK
    <3>4. status' \in [Threads -> Statuses \cup {Absent}]
      <4>1. ClosedStatus(req[r].op) \in Statuses
        BY DEF ClosedStatus, Statuses, Terminal
      <4> QED BY <1>4, <4>1 DEF CommitClose, TypeOK
    <3>5. req' \in [Requests -> Request]
      BY <1>4, RequestType DEF CommitClose, TypeOK, Running
    <3>6. notifications' \subseteq Requests
      BY <1>4 DEF CommitClose, TypeOK
    <3> QED BY <1>4, <3>2, <3>3, <3>4, <3>5, <3>6 DEF CommitClose, TypeOK
  <2>2. KnownInv'
    <3>1. ClosedStatus(req[r].op) # Absent
      BY DEF ClosedStatus, Absent
    <3> QED BY <1>4, <3>1 DEF CommitClose, TypeOK, KnownInv, Known, Running
  <2> QED BY <2>1, <2>2
<1>5. ASSUME NEW r \in Requests, Refresh(r)
      PROVE  TypeInv'
  <2>1. TypeOK'
    BY <1>5, OutboxType, RequestType
       DEF Refresh, TypeOK, KnownInv, Known, Running, rows, Statuses
  <2>2. KnownInv'
    BY <1>5 DEF Refresh, TypeOK, KnownInv, Known, Running, rows
  <2> QED BY <2>1, <2>2
<1>6. ASSUME NEW r \in Requests, RunHook(r)
      PROVE  TypeInv'
  <2>1. TypeOK'
    BY <1>6, RequestType DEF RunHook, TypeOK, Running, rows
  <2>2. KnownInv'
    BY <1>6 DEF RunHook, TypeOK, KnownInv, Known, Running, rows
  <2> QED BY <2>1, <2>2
<1>7. ASSUME NEW r \in Requests, Publish(r)
      PROVE  TypeInv'
  <2>1. TypeOK'
    <3>1. req[r].outbox \in Seq(Event)
      BY DEF TypeOK, Request
    <3>2. Head(req[r].outbox) \in Event
      BY <1>7, <3>1 DEF Publish
    <3>3. events' \in [Threads -> Seq(Event)]
      <4>1. Append(events[req[r].thread], Head(req[r].outbox)) \in Seq(Event)
        BY <1>7, <3>2 DEF Publish, TypeOK, KnownInv, Known, Running
      <4> QED BY <1>7, <4>1 DEF Publish, TypeOK
    <3>4. req' \in [Requests -> Request]
      BY <1>7, RequestType DEF Publish, TypeOK
    <3> QED BY <1>7, <3>3, <3>4 DEF Publish, TypeOK, rows
  <2>2. KnownInv'
    BY <1>7 DEF Publish, TypeOK, KnownInv, Known, Running, rows
  <2> QED BY <2>1, <2>2
<1>8. ASSUME NEW r \in Requests, Finish(r)
      PROVE  TypeInv'
  <2>1. TypeOK'
    BY <1>8, RequestType DEF Finish, TypeOK, rows
  <2>2. KnownInv'
    BY <1>8 DEF Finish, TypeOK, KnownInv, Known, Running, rows
  <2> QED BY <2>1, <2>2
<1>11. ASSUME NEW r \in Requests, Cut(r)
       PROVE  TypeInv'
  <2>1. TypeOK'
    BY <1>11, RequestType DEF Cut, TypeOK, rows
  <2>2. KnownInv'
    BY <1>11 DEF Cut, TypeOK, KnownInv, Known, Running, rows
  <2> QED BY <2>1, <2>2
<1>9. ASSUME NEW served \in SUBSET Requests, Crash(served)
      PROVE  TypeInv'
  <2>1. TypeOK'
    <3>1. req' \in [Requests -> Request]
      BY <1>9, RequestType DEF Crash, TypeOK
    <3>2. crashes' \in 0..MaxCrashes
      BY <1>9, MaxCrashesAssumption DEF Crash, TypeOK
    <3> QED BY <1>9, <3>1, <3>2 DEF Crash, TypeOK, rows
  <2>2. KnownInv'
    BY <1>9 DEF Crash, TypeOK, KnownInv, Known, Running, rows
  <2> QED BY <2>1, <2>2
<1>10. CASE UNCHANGED vars
  BY <1>10 DEF vars, rows, TypeOK, KnownInv, Known
<1> QED
  BY <1>1, <1>2, <1>3, <1>4, <1>5, <1>6, <1>7, <1>8, <1>9, <1>10, <1>11
     DEF Next, Receive, Continue

\* So the first layer holds in every reachable state.
LEMMA TypesHold == Spec => []TypeInv
BY TypeInit, TypeStep, PTL DEF Spec

\* The variables always have their types.
THEOREM TypeCorrect == Spec => []TypeOK
BY TypesHold, PTL DEF TypeInv

-----------------------------------------------------------------------------
(* The second layer: what is stored and announced.                         *)

\* No step takes a row back or undoes a hook's run.
LEMMA RowsGrow ==
  ASSUME [Next]_vars
  PROVE  /\ messages \subseteq messages' /\ audit \subseteq audit'
         /\ notifications \subseteq notifications' /\ hooked \subseteq hooked'
BY DEF Next, Receive, Continue, CreateThread, LoadThread, CommitMessage,
       CommitClose, Refresh, RunHook, Publish, Finish, Cut, Crash, vars, rows

\* So what a row explains stays explained ...
LEMMA ExplainedStays ==
  ASSUME [Next]_vars, NEW t \in Threads, NEW s \in Statuses, Explained(t, s)
  PROVE  Explained(t, s)'
BY RowsGrow DEF Explained, Statuses, Live, Terminal

\* ... and what backs an envelope keeps backing it.
LEMMA BackedStays ==
  ASSUME [Next]_vars, NEW t \in Threads, NEW e \in Event, Backed(t, e)
  PROVE  Backed(t, e)'
<1>1. e.status # NoStatus => Explained(t, e.status)'
  BY ExplainedStays DEF Backed, Event
<1> QED
  BY <1>1, RowsGrow DEF Backed, Audit

\* A request that goes on with its operation keeps what it stored and what
\* it may publish.
LEMMA StoredStays ==
  ASSUME [Next]_vars, NEW r \in Requests, NEW t \in Threads,
         req'[r].op = req[r].op, Stored(r, t)
  PROVE  Stored(r, t)'
BY RowsGrow DEF Stored, Audit

\* An envelope a request may publish stays one, as its rows stay.
LEMMA OwnStays ==
  ASSUME [Next]_vars, NEW r \in Requests, NEW t \in Threads, NEW e \in Event,
         req'[r].op = req[r].op, Own(r, t, e)
  PROVE  Own(r, t, e)'
<1>1. e.status # NoStatus => Explained(t, e.status)'
  BY ExplainedStays DEF Own, Event
<1> QED
  BY <1>1 DEF Own

\* What a request knows of itself once it has committed.
LEMMA CommittedTypes ==
  ASSUME TypeInv, NEW r \in Requests, Committed(r)
  PROVE  /\ req[r].op \in Ops
         /\ req[r].thread \in Threads
         /\ status[req[r].thread] \in Statuses
         /\ req[r].outbox \in Seq(Event)
BY DEF TypeInv, TypeOK, KnownInv, Known, Committed, Running, Request

\* What a request has stored and may publish outlives the steps of others.
LEMMA DoneStays ==
  ASSUME TypeInv, [Next]_vars, NEW r \in Requests, Done(r), req'[r] = req[r]
  PROVE  Done(r)'
<1>1. ASSUME Committed(r)
      PROVE  Stored(r, req[r].thread)'
  BY <1>1, StoredStays, CommittedTypes DEF Done
<1>2. ASSUME req[r].pc \in {"refreshed", "publishing"}, NEW i \in DOMAIN req[r].outbox
      PROVE  Own(r, req[r].thread, req[r].outbox[i])'
  BY <1>2, OwnStays, CommittedTypes DEF Done, Committed
<1> QED
  BY <1>1, <1>2, RowsGrow DEF Done, Committed

\* Every step that writes a status also writes the row that explains it.
LEMMA ExplainedStep ==
  ASSUME TypeInv, StatusIsExplained, [Next]_vars
  PROVE  StatusIsExplained'
<1> SUFFICES ASSUME NEW t \in Threads, NEW s, s = status'[t], s # Absent
             PROVE  Explained(t, s)'
  BY DEF StatusIsExplained
<1>1. CASE status'[t] = status[t]
  <2>1. status[t] \in Statuses /\ Explained(t, status[t])
    BY <1>1 DEF StatusIsExplained, TypeInv, TypeOK
  <2> QED
    BY <1>1, <2>1, ExplainedStays
<1>2. CASE status'[t] # status[t]
  <2>1. ASSUME NEW r \in Requests, NEW u \in Threads, NEW op \in Ops, CreateThread(r, u, op)
        PROVE  Explained(t, s)'
    <3>1. s = "OPEN" /\ u = t
      BY <1>2, <2>1 DEF CreateThread, TypeInv, TypeOK
    <3>2. Audit(r, t, "created") \in audit'
      BY <2>1, <3>1 DEF CreateThread
    <3> QED
      BY <3>1, <3>2 DEF Explained, Audit
  <2>2. ASSUME NEW r \in Requests, CommitMessage(r)
        PROVE  Explained(t, s)'
    <3>1. /\ status'[t] = "IN_PROGRESS" /\ req[r].thread = t
          /\ req[r].op \in HumanOps
      BY <1>2, <2>2 DEF CommitMessage, TypeInv, TypeOK
    <3>2. Message(r, t, req[r].op) \in messages'
      BY <2>2, <3>1 DEF CommitMessage
    <3>3. Sender(req[r].op) = "human"
      BY <3>1 DEF Sender, HumanOps, CloseOps
    <3> QED
      BY <3>1, <3>2, <3>3 DEF Explained, Message
  <2>3. ASSUME NEW r \in Requests, CommitClose(r)
        PROVE  Explained(t, s)'
    <3>1. status'[t] = ClosedStatus(req[r].op) /\ req[r].thread = t
      BY <1>2, <2>3 DEF CommitClose, TypeInv, TypeOK
    <3>2. Audit(r, t, ClosedStatus(req[r].op)) \in audit'
      BY <2>3, <3>1 DEF CommitClose
    <3>3. ClosedStatus(req[r].op) = "ESCALATED" => r \in notifications'
      BY <2>3 DEF CommitClose
    <3> QED
      BY <3>1, <3>2, <3>3 DEF Explained, Audit, ClosedStatus
  <2> QED
    BY <1>2, <2>1, <2>2, <2>3
       DEF Next, Receive, Continue, LoadThread, Refresh, RunHook, Publish,
           Finish, Cut, Crash, vars, rows
<1> QED
  BY <1>1, <1>2

\* The envelopes Outbox makes are the request's own.
LEMMA OutboxOwn ==
  ASSUME NEW r \in Requests, NEW t \in Threads, NEW now \in Statuses,
         req[r].op \in Ops, Explained(t, now)
  PROVE  \A i \in DOMAIN Outbox(r, req[r].op, now) :
           Own(r, t, Outbox(r, req[r].op, now)[i])
<1> DEFINE E(type, st) == [type |-> type, status |-> st, by |-> r]
<1> DEFINE Update == IF now = "IN_PROGRESS" THEN <<E("status_update", now)>> ELSE <<>>
<1> DEFINE op == req[r].op
<1>1. Own(r, t, E("status_update", now))
  BY DEF Own
<1>2. ASSUME NEW type \in {"agent_message", "human_message", "option_selected"},
             op \in MessageOps \cup {"create_with_message"}
      PROVE  Own(r, t, E(type, NoStatus))
  BY <1>2 DEF Own
<1>3. \A e : Own(r, t, e) => \A i \in DOMAIN (<<e>> \o Update) : Own(r, t, (<<e>> \o Update)[i])
  BY <1>1
<1>4. CASE op = "create"
  BY <1>4, <1>1 DEF Outbox
<1>5. CASE op = "create_with_message"
  BY <1>5, <1>1, <1>2 DEF Outbox
<1>6. CASE op = "agent"
  BY <1>6, <1>2, <1>3 DEF Outbox, MessageOps
<1>7. CASE op = "human"
  BY <1>7, <1>2, <1>3 DEF Outbox, MessageOps, HumanOps
<1>8. CASE op = "option"
  BY <1>8, <1>2 DEF Outbox, MessageOps, HumanOps
<1>9. CASE op \in CloseOps
  BY <1>9 DEF Outbox, CloseOps, Own
<1> QED
  BY <1>4, <1>5, <1>6, <1>7, <1>8, <1>9 DEF Ops, CreateOps, MessageOps, HumanOps, CloseOps

\* Every step of a request leaves it with the rows of its operation stored.
LEMMA DoneStep ==
  ASSUME TypeInv, StatusIsExplained, DoneInv, [Next]_vars
  PROVE  DoneInv'
<1> SUFFICES ASSUME NEW u \in Requests PROVE Done(u)'
  BY DEF DoneInv
<1> USE DEF TypeInv, TypeOK
<1>0. ASSUME req'[u] = req[u] PROVE Done(u)'
  BY <1>0, DoneStays DEF DoneInv
<1>1. ASSUME NEW t \in Threads, NEW op \in Ops, CreateThread(u, t, op)
      PROVE  Done(u)'
  <2>1. /\ req'[u] = Received(op, t, "committed", NoStatus, FALSE)
        /\ op \in CreateOps
        /\ op = "create_with_message" => Message(u, t, op) \in messages'
    BY <1>1 DEF CreateThread, CreateOps
  <2> QED
    BY <2>1 DEF Done, Committed, Stored, Received, Message, CreateOps, MessageOps,
                HumanOps, CloseOps
<1>2. ASSUME NEW t \in Threads, NEW op \in Ops, LoadThread(u, t, op)
      PROVE  Done(u)'
  BY <1>2 DEF LoadThread, Done, Committed, Received
<1>3. ASSUME CommitMessage(u)
      PROVE  Done(u)'
  <2>1. /\ req'[u].pc = "committed" /\ req'[u].op = req[u].op
        /\ req'[u].thread = req[u].thread /\ req[u].op \in MessageOps
        /\ Message(u, req[u].thread, req[u].op) \in messages'
    BY <1>3 DEF CommitMessage, Request
  <2> QED
    BY <2>1 DEF Done, Committed, Stored, Message, MessageOps, HumanOps, CloseOps
<1>4. ASSUME CommitClose(u)
      PROVE  Done(u)'
  <2>1. /\ req'[u].pc = "committed" /\ req'[u].op = req[u].op
        /\ req'[u].thread = req[u].thread /\ req[u].op \in CloseOps
        /\ Audit(u, req[u].thread, ClosedStatus(req[u].op)) \in audit'
        /\ ClosedStatus(req[u].op) = "ESCALATED" => u \in notifications'
    BY <1>4 DEF CommitClose, Request
  <2> QED
    BY <2>1 DEF Done, Committed, Stored, Audit, ClosedStatus, MessageOps, HumanOps,
                CloseOps
<1>5. ASSUME Refresh(u)
      PROVE  Done(u)'
  <2> DEFINE t == req[u].thread
             now == status[t]
  <2>1. /\ req[u].op \in Ops /\ t \in Threads /\ now \in Statuses
        /\ Explained(t, now) /\ Stored(u, t)
    BY <1>5 DEF Refresh, KnownInv, Known, Running, StatusIsExplained, DoneInv, Done,
                Committed
  <2>2. /\ req'[u].pc = "refreshed" /\ req'[u].op = req[u].op
        /\ req'[u].thread = t /\ req'[u].outbox = Outbox(u, req[u].op, now)
    BY <1>5 DEF Refresh, Request
  <2>3. Stored(u, t)'
    BY <2>1, <2>2, StoredStays
  <2>4. ASSUME NEW i \in DOMAIN req'[u].outbox, NEW e, e = req'[u].outbox[i],
               NEW th, th = t
        PROVE  Own(u, th, e)'
    <3>1. e \in Event
      BY <2>1, <2>2, <2>4, OutboxType
    <3>2. Own(u, th, e)
      BY <2>1, <2>2, <2>4, OutboxOwn
    <3> QED
      BY <2>1, <2>2, <2>4, <3>1, <3>2, OwnStays
  <2> QED
    BY <2>2, <2>3, <2>4 DEF Done, Committed
<1>6. ASSUME RunHook(u)
      PROVE  Done(u)'
  <2>1. /\ req[u].pc = "refreshed" /\ req'[u].pc = "publishing"
        /\ req'[u].op = req[u].op /\ req'[u].thread = req[u].thread
        /\ req'[u].outbox = req[u].outbox
        /\ req[u].op \in CloseOps => u \in hooked'
    BY <1>6 DEF RunHook, Request
  <2>2. Stored(u, req[u].thread)'
    BY <2>1, StoredStays, CommittedTypes DEF DoneInv, Done, Committed
  <2>3. \A i \in DOMAIN req[u].outbox : Own(u, req[u].thread, req[u].outbox[i])'
    BY <2>1, OwnStays, CommittedTypes DEF DoneInv, Done, Committed
  <2> QED
    BY <2>1, <2>2, <2>3 DEF Done, Committed
<1>7. ASSUME Publish(u)
      PROVE  Done(u)'
  <2>1. /\ req[u].pc = "publishing" /\ req'[u].pc = "publishing"
        /\ req'[u].op = req[u].op /\ req'[u].thread = req[u].thread
        /\ req'[u].outbox = Tail(req[u].outbox)
    BY <1>7 DEF Publish, Request
  <2>2. req[u].outbox \in Seq(Event) /\ req[u].outbox # <<>>
    BY <1>7 DEF Publish, Request
  <2>3. \A i \in DOMAIN Tail(req[u].outbox) :
          i + 1 \in DOMAIN req[u].outbox /\ Tail(req[u].outbox)[i] = req[u].outbox[i + 1]
    BY <2>2
  <2>4. Stored(u, req[u].thread)'
    BY <2>1, StoredStays, CommittedTypes DEF DoneInv, Done, Committed
  <2>5. ASSUME NEW i \in DOMAIN req'[u].outbox, NEW e, e = req'[u].outbox[i],
               NEW th, th = req[u].thread
        PROVE  Own(u, th, e)'
    <3>1. e \in Event /\ Own(u, th, e)
      BY <2>1, <2>2, <2>3, <2>5 DEF DoneInv, Done
    <3> QED
      BY <2>1, <2>5, <3>1, OwnStays, CommittedTypes DEF Committed
  <2>6. req'[u].op \in CloseOps => u \in hooked'
    BY <2>1, RowsGrow DEF DoneInv, Done
  <2> QED
    BY <2>1, <2>4, <2>5, <2>6 DEF Done, Committed
<1>8. ASSUME Finish(u)
      PROVE  Done(u)'
  BY <1>8 DEF Finish, Done, Committed, Request
<1>10. ASSUME Cut(u)
       PROVE  Done(u)'
  BY <1>10 DEF Cut, Done, Committed, Request
<1>9. ASSUME NEW served \in SUBSET Requests, Crash(served)
      PROVE  Done(u)'
  <2>1. CASE u \in served
    BY <1>9, <2>1 DEF Crash, Done, Committed, Request
  <2>2. CASE u \notin served
    BY <1>0, <1>9, <2>2 DEF Crash
  <2> QED
    BY <2>1, <2>2
<1> QED
  <2>1. ASSUME NEW r \in Requests, r # u,
               Continue(r) \/ Cut(r) \/ \E t \in Threads, op \in Ops :
                                CreateThread(r, t, op) \/ LoadThread(r, t, op)
        PROVE  req'[u] = req[u]
    BY <2>1 DEF Continue, CreateThread, LoadThread, CommitMessage, CommitClose,
                Refresh, RunHook, Publish, Finish, Cut
  <2> QED
    BY <1>0, <1>1, <1>2, <1>3, <1>4, <1>5, <1>6, <1>7, <1>8, <1>9, <1>10, <2>1
       DEF Next, Receive, Continue, vars

\* An envelope of its own that a request publishes is backed.
LEMMA OwnIsBacked ==
  ASSUME NEW r \in Requests, NEW t \in Threads, NEW e \in Event,
         Own(r, t, e), Stored(r, t), req[r].op \in CloseOps => r \in hooked
  PROVE  Backed(t, e)
BY DEF Own, Stored, Backed, Audit, ClosedStatus, CloseOps

\* Only Publish adds an envelope, and the envelope is backed.
LEMMA BackedStep ==
  ASSUME TypeInv, DoneInv, EventsAreBacked, [Next]_vars
  PROVE  EventsAreBacked'
<1> SUFFICES ASSUME NEW t \in Threads, NEW i \in DOMAIN events'[t],
                    NEW x, x = events'[t][i]
             PROVE  Backed(t, x)'
  BY DEF EventsAreBacked
<1>1. CASE events'[t] = events[t]
  <2>1. events[t][i] \in Event /\ Backed(t, events[t][i])
    BY <1>1 DEF EventsAreBacked, TypeInv, TypeOK
  <2> QED
    BY <1>1, <2>1, BackedStays
<1>2. ASSUME NEW r \in Requests, Publish(r), req[r].thread = t
      PROVE  Backed(t, x)'
  <2> DEFINE e == Head(req[r].outbox)
  <2>1. /\ req[r].pc = "publishing" /\ req[r].outbox # <<>>
        /\ events'[t] = Append(events[t], e)
    BY <1>2 DEF Publish, TypeInv, TypeOK
  <2>2. e \in Event /\ e = req[r].outbox[1] /\ 1 \in DOMAIN req[r].outbox
    BY <2>1, CommittedTypes DEF Committed
  <2>3. Backed(t, e)
    BY <1>2, <2>1, <2>2, OwnIsBacked DEF DoneInv, Done, Committed
  <2>4. CASE i \in DOMAIN events[t]
    <3>1. events'[t][i] = events[t][i] /\ events[t][i] \in Event
      BY <2>1, <2>2, <2>4 DEF TypeInv, TypeOK
    <3> QED
      BY <2>4, <3>1, BackedStays DEF EventsAreBacked
  <2>5. CASE i \notin DOMAIN events[t]
    <3>1. events'[t][i] = e
      BY <2>1, <2>2, <2>5 DEF TypeInv, TypeOK
    <3> QED
      BY <2>2, <2>3, <3>1, BackedStays
  <2> QED
    BY <2>4, <2>5
<1>3. ASSUME NEW r \in Requests, Publish(r), req[r].thread # t
      PROVE  events'[t] = events[t]
  BY <1>3 DEF Publish, TypeInv, TypeOK
<1> QED
  BY <1>1, <1>2, <1>3
     DEF Next, Receive, Continue, CreateThread, LoadThread, CommitMessage,
         CommitClose, Refresh, RunHook, Finish, Cut, Crash, vars

\* The inductive invariant holds initially ...
LEMMA IInvInit == Init => IInv
BY TypeInit
   DEF Init, IInv, StatusIsExplained, DoneInv, Done, Committed, EventsAreBacked,
       Idle, Received

\* ... is kept by every step ...
LEMMA IInvStep == IInv /\ [Next]_vars => IInv'
BY TypeStep, ExplainedStep, DoneStep, BackedStep DEF IInv

\* ... and so holds in every reachable state.
LEMMA IInvHolds == Spec => []IInv
BY IInvInit, IInvStep, PTL DEF Spec

\* Whatever the interleaving and the stops, a thread's status has the rows
\* that explain it.
THEOREM StatusExplained == Spec => []StatusIsExplained
BY IInvHolds, PTL DEF IInv

\* Whatever a subscriber is told is stored, and its hook has run.
THEOREM EventsBacked == Spec => []EventsAreBacked
BY IInvHolds, PTL DEF IInv

\* A closed thread is reopened, or closed again, only by a request that read
\* it before it was closed.
THEOREM StaleReadersReopen == Spec => OnlyStaleReadersReopen
<1> DEFINE A == \A t \in Threads : Reopens(t) => \E r \in Requests : StaleReader(t, r)
<1>1. ASSUME TypeInv, [Next]_vars PROVE [A]_vars
  <2> SUFFICES ASSUME Next, NEW t \in Threads, Reopens(t)
               PROVE  \E r \in Requests : StaleReader(t, r)
    BY <1>1
  <2> USE <1>1 DEF TypeInv, TypeOK, Reopens
  <2>1. ASSUME NEW r \in Requests, NEW u \in Threads, NEW op \in Ops, CreateThread(r, u, op)
        PROVE  FALSE
    BY <2>1 DEF CreateThread, Audit, Terminal, Absent
  <2>2. ASSUME NEW r \in Requests, CommitMessage(r)
        PROVE  StaleReader(t, r)
    BY <2>2 DEF CommitMessage, KnownInv, Known, StaleReader
  <2>3. ASSUME NEW r \in Requests, CommitClose(r)
        PROVE  StaleReader(t, r)
    BY <2>3 DEF CommitClose, KnownInv, Known, StaleReader, Audit
  <2>4. ASSUME UNCHANGED rows
        PROVE  FALSE
    BY <2>4 DEF rows
  <2> QED
    BY <2>1, <2>2, <2>3, <2>4
       DEF Next, Receive, Continue, LoadThread, Refresh, RunHook, Publish, Finish, Cut, Crash
<1> QED
  BY <1>1, TypesHold, PTL DEF Spec, OnlyStaleReadersReopen

-----------------------------------------------------------------------------
(* Requests that do not overlap implement the lifecycle.                   *)

\* A request still knows the status it read, and only closed threads have
\* closings.
FreshInv ==
  /\ Serial
  /\ \A r \in Requests : req[r].pc = "loaded" => req[r].seen = status[req[r].thread]
  /\ \A a \in audit : a.action \in Terminal => status[a.thread] \in Terminal

\* Nothing has been read or closed initially.
LEMMA FreshInit == Init => FreshInv
BY DEF Init, FreshInv, Serial, Idle, Received

\* While requests do not overlap, a status that was read is still the stored one
\* at the commit, so no closed thread is written.
LEMMA FreshStep ==
  ASSUME TypeInv, FreshInv, [Next /\ Serial']_vars
  PROVE  FreshInv'
<1> USE DEF TypeInv, TypeOK, FreshInv
<1>1. CASE UNCHANGED vars
  BY <1>1 DEF vars, rows, Serial
<1> DEFINE Kept ==
      /\ \A r \in Requests :
           req'[r].pc = "loaded" => req'[r].seen = status'[req'[r].thread]
      /\ \A a \in audit' : a.action \in Terminal => status'[a.thread] \in Terminal
<1>2. ASSUME Next, Serial'
      PROVE  Kept
  <2>1. ASSUME NEW r \in Requests, NEW t \in Threads, NEW op \in Ops, CreateThread(r, t, op)
        PROVE  Kept
    <3>1. \A u \in Requests : req'[u].pc = "loaded" =>
                                req'[u] = req[u] /\ req[u].thread # t
      BY <2>1 DEF CreateThread, Received, KnownInv, Known, Running
    <3>2. \A a \in audit' : a.action \in Terminal => a \in audit /\ a.thread # t
      BY <2>1 DEF CreateThread, Audit, Absent, Terminal
    <3>3. \A u \in Threads : u # t => status'[u] = status[u]
      BY <2>1 DEF CreateThread
    <3>4. \A u \in Requests : req[u].pc = "loaded" => req[u].thread \in Threads
      BY DEF KnownInv, Known, Running
    <3>5. \A a \in audit : a.thread \in Threads
      BY DEF AuditRow
    <3> QED
      BY <3>1, <3>2, <3>3, <3>4, <3>5
  <2>2. ASSUME NEW r \in Requests, NEW t \in Threads, NEW op \in Ops, LoadThread(r, t, op)
        PROVE  Kept
    BY <2>2 DEF LoadThread, Received, rows
  <2>3. ASSUME NEW r \in Requests, CommitMessage(r)
        PROVE  Kept
    <3>1. status[req[r].thread] = req[r].seen /\ req[r].seen \in Live
      BY <2>3 DEF CommitMessage, KnownInv, Known
    <3>2. \A u \in Requests : req'[u].pc = "loaded" =>
            req'[u] = req[u] /\ req[u].thread # req[r].thread
      BY <2>3 DEF CommitMessage, Serial
    <3>3. \A t \in Threads : t # req[r].thread => status'[t] = status[t]
      BY <2>3 DEF CommitMessage
    <3>4. \A u \in Requests : req[u].pc = "loaded" => req[u].thread \in Threads
      BY DEF KnownInv, Known, Running
    <3>5. \A a \in audit : a.thread \in Threads
      BY DEF AuditRow
    <3>6. audit' = audit
      BY <2>3 DEF CommitMessage
    <3>7. \A a \in audit : a.action \in Terminal => a.thread # req[r].thread
      BY <3>1 DEF Live, Terminal
    <3>8. \A a \in audit' : a.action \in Terminal => status'[a.thread] \in Terminal
      BY <3>3, <3>5, <3>6, <3>7
    <3>9. \A u \in Requests : req'[u].pc = "loaded" => req'[u].seen = status'[req'[u].thread]
      BY <3>2, <3>3, <3>4
    <3> QED
      BY <3>8, <3>9
  <2>4. ASSUME NEW r \in Requests, CommitClose(r)
        PROVE  Kept
    <3>1. /\ status'[req[r].thread] \in Terminal
          /\ \A t \in Threads : t # req[r].thread => status'[t] = status[t]
      BY <2>4 DEF CommitClose, KnownInv, Known, Running, ClosedStatus, Terminal
    <3>2. \A u \in Requests : req'[u].pc = "loaded" =>
            req'[u] = req[u] /\ req[u].thread # req[r].thread
      BY <2>4 DEF CommitClose, Serial
    <3>3. \A a \in audit' : a \in audit \/ a.thread = req[r].thread
      BY <2>4 DEF CommitClose, Audit
    <3>4. \A u \in Requests : req[u].pc = "loaded" => req[u].thread \in Threads
      BY DEF KnownInv, Known, Running
    <3>5. \A a \in audit : a.thread \in Threads
      BY DEF AuditRow
    <3>6. \A a \in audit' : a.action \in Terminal => status'[a.thread] \in Terminal
      BY <3>1, <3>3, <3>5
    <3>7. \A u \in Requests : req'[u].pc = "loaded" => req'[u].seen = status'[req'[u].thread]
      BY <3>1, <3>2, <3>4
    <3> QED
      BY <3>6, <3>7
  <2>5. ASSUME UNCHANGED rows,
               \A u \in Requests : req'[u].pc = "loaded" => req'[u] = req[u]
        PROVE  Kept
    BY <2>5 DEF rows
  <2>6. ASSUME NEW r \in Requests, Refresh(r) \/ RunHook(r) \/ Publish(r) \/ Finish(r) \/ Cut(r)
        PROVE  UNCHANGED rows /\ \A u \in Requests : req'[u].pc = "loaded" => req'[u] = req[u]
    BY <2>6 DEF Refresh, RunHook, Publish, Finish, Cut, Request
  <2>7. ASSUME NEW served \in SUBSET Requests, Crash(served)
        PROVE  UNCHANGED rows /\ \A u \in Requests : req'[u].pc = "loaded" => req'[u] = req[u]
    BY <2>7 DEF Crash, Request
  <2> QED
    BY <1>2, <2>1, <2>2, <2>3, <2>4, <2>5, <2>6, <2>7 DEF Next, Receive, Continue
<1> QED
  BY <1>1, <1>2

\* Both hold in every state of the serial specification.
LEMMA FreshHolds == SerialSpec => [](TypeInv /\ FreshInv)
<1>1. [Next /\ Serial']_vars => [Next]_vars
  OBVIOUS
<1> QED
  BY <1>1, TypeInit, TypeStep, FreshInit, FreshStep, PTL DEF SerialSpec

\* How a step changes what the lifecycle sees of a thread.
LEMMA RepliesStep ==
  ASSUME TypeInv, NEW r \in Requests, NEW u \in Threads, NEW op \in Ops,
         messages' = messages \cup {Message(r, u, op)}
  PROVE  Replies' = IF op \in HumanOps THEN [Replies EXCEPT ![u] = @ \cup {r}] ELSE Replies
<1>1. Sender(op) = "human" <=> op \in HumanOps
  BY DEF Sender, HumanOps, CloseOps
<1>2. CASE op \in HumanOps
  <2>1. \A t \in Threads : {n \in messages' : n.thread = t /\ n.sender = "human"} =
          {n \in messages : n.thread = t /\ n.sender = "human"} \cup
            (IF t = u THEN {Message(r, u, op)} ELSE {})
    BY <1>1, <1>2 DEF Message
  <2>2. Message(r, u, op).by = r
    BY DEF Message
  <2>3. \A t \in Threads : Replies'[t] = Replies[t] \cup (IF t = u THEN {r} ELSE {})
    BY <2>1, <2>2 DEF Replies
  <2> QED
    BY <1>2, <2>3 DEF Replies
<1>3. CASE op \notin HumanOps
  BY <1>1, <1>3 DEF Replies, Message
<1> QED
  BY <1>2, <1>3

\* An audit row of a closing adds its request to the thread's closings; no other
\* audit row does.
LEMMA ClosingsStep ==
  ASSUME TypeInv, NEW r \in Requests, NEW u \in Threads, NEW s,
         audit' = audit \cup {Audit(r, u, s)}
  PROVE  Closings' = IF s \in Terminal THEN [Closings EXCEPT ![u] = @ \cup {r}]
                     ELSE Closings
<1>1. Audit(r, u, s).by = r /\ Audit(r, u, s).thread = u /\ Audit(r, u, s).action = s
  BY DEF Audit
<1>2. CASE s \in Terminal
  <2>1. \A t \in Threads : {b \in audit' : b.thread = t /\ b.action \in Terminal} =
          {b \in audit : b.thread = t /\ b.action \in Terminal} \cup
            (IF t = u THEN {Audit(r, u, s)} ELSE {})
    BY <1>1, <1>2
  <2>2. \A t \in Threads : Closings'[t] = Closings[t] \cup (IF t = u THEN {r} ELSE {})
    BY <1>1, <2>1 DEF Closings
  <2> QED
    BY <1>2, <2>2 DEF Closings
<1>3. CASE s \notin Terminal
  BY <1>1, <1>3 DEF Closings
<1> QED
  BY <1>2, <1>3

\* When no two requests for a thread overlap between their read and their
\* commit, every thread follows the lifecycle of ThreadLifecycle.
THEOREM SerialImplementsLifecycle == SerialSpec => LifecycleSpec
<1>1. Init => Lifecycle!Init
  BY DEF Init, Lifecycle!Init, Absent, Closings, Replies
<1>2. ASSUME TypeInv, FreshInv, [Next]_vars
      PROVE  [Lifecycle!Next]_(Lifecycle!lifecycle)
  <2> USE <1>2 DEF TypeInv, TypeOK
  <2>1. ASSUME UNCHANGED rows
        PROVE  UNCHANGED Lifecycle!lifecycle
    BY <2>1 DEF rows, Lifecycle!lifecycle, Closings, Replies
  <2>2. ASSUME NEW r \in Requests, NEW t \in Threads, NEW op \in Ops, CreateThread(r, t, op)
        PROVE  Lifecycle!Open(t)
    <3>1. Replies' = Replies
      <4>1. CASE messages' = messages
        BY <4>1 DEF Replies
      <4>2. CASE messages' = messages \cup {Message(r, t, op)}
        BY <2>2, <4>2, RepliesStep DEF CreateThread, CreateOps, HumanOps
      <4> QED
        BY <2>2, <4>1, <4>2 DEF CreateThread
    <3>2. Closings' = Closings
      <4>1. audit' = audit \cup {Audit(r, t, "created")} /\ "created" \notin Terminal
        BY <2>2 DEF CreateThread, Terminal
      <4> QED
        BY <4>1, ClosingsStep
    <3> QED
      BY <2>2, <3>1, <3>2 DEF CreateThread, Lifecycle!Open, Absent
  <2>3. ASSUME NEW r \in Requests, CommitMessage(r)
        PROVE  Lifecycle!Reply(req[r].thread, r) \/ UNCHANGED Lifecycle!lifecycle
    <3> DEFINE t == req[r].thread
    <3>1. /\ t \in Threads /\ req[r].op \in Ops /\ status[t] = req[r].seen
          /\ status[t] \in Live
      BY <2>3 DEF CommitMessage, KnownInv, Known, Running, FreshInv
    <3>2. Replies' = IF req[r].op \in HumanOps THEN [Replies EXCEPT ![t] = @ \cup {r}]
                     ELSE Replies
      BY <2>3, <3>1, RepliesStep DEF CommitMessage
    <3>3. Closings' = Closings
      BY <2>3 DEF CommitMessage, Closings
    <3>4. CASE req[r].op \in HumanOps
      <4>1. status' = [status EXCEPT ![t] = "IN_PROGRESS"]
        BY <2>3, <3>1, <3>4 DEF CommitMessage, Live
      <4> QED
        BY <3>1, <3>2, <3>3, <3>4, <4>1 DEF Lifecycle!Reply, Lifecycle!Live, Live
    <3>5. CASE req[r].op \notin HumanOps
      BY <2>3, <3>2, <3>3, <3>5 DEF CommitMessage, Lifecycle!lifecycle
    <3> QED
      BY <3>4, <3>5
  <2>4. ASSUME NEW r \in Requests, CommitClose(r)
        PROVE  \E s \in Terminal : Lifecycle!Close(req[r].thread, r, s)
    <3> DEFINE t == req[r].thread
               s == ClosedStatus(req[r].op)
    <3>1. /\ t \in Threads /\ req[r].op \in Ops /\ status[t] \in Live
          /\ s \in Terminal
      BY <2>4, RowType DEF CommitClose, KnownInv, Known, Running, FreshInv
    <3>2. Closings' = [Closings EXCEPT ![t] = @ \cup {r}]
      BY <2>4, <3>1, ClosingsStep DEF CommitClose
    <3>3. Closings[t] = {}
      BY <3>1 DEF Closings, FreshInv, Live, Terminal
    <3>4. Replies' = Replies
      <4>1. CASE messages' = messages
        BY <4>1 DEF Replies
      <4>2. CASE messages' = messages \cup {Message(r, t, req[r].op)}
        BY <2>4, <3>1, <4>2, RepliesStep DEF CommitClose, CloseOps, HumanOps
      <4> QED
        BY <2>4, <4>1, <4>2 DEF CommitClose
    <3> QED
      BY <2>4, <3>1, <3>2, <3>3, <3>4
         DEF CommitClose, Lifecycle!Close, Lifecycle!Live, Live, Closings
  <2>5. ASSUME NEW r \in Requests, CommitMessage(r) \/ CommitClose(r)
        PROVE  req[r].thread \in Threads
    BY <2>5 DEF CommitMessage, CommitClose, KnownInv, Known, Running
  <2>6. ASSUME NEW r \in Requests, CommitMessage(r)
        PROVE  Lifecycle!Next \/ UNCHANGED Lifecycle!lifecycle
    BY <2>3, <2>5, <2>6 DEF Lifecycle!Next
  <2>7. ASSUME NEW r \in Requests, CommitClose(r)
        PROVE  Lifecycle!Next
    BY <2>4, <2>5, <2>7 DEF Lifecycle!Next, Lifecycle!Terminal, Terminal
  <2>8. ASSUME NEW r \in Requests, NEW t \in Threads, NEW op \in Ops, CreateThread(r, t, op)
        PROVE  Lifecycle!Next
    BY <2>2, <2>8 DEF Lifecycle!Next
  <2>9. [Next]_vars =>
          \/ UNCHANGED rows
          \/ \E r \in Requests : \/ CommitMessage(r) \/ CommitClose(r)
                                \/ \E t \in Threads, op \in Ops : CreateThread(r, t, op)
    BY DEF Next, Receive, Continue, LoadThread, Refresh, RunHook, Publish, Finish,
           Cut, Crash, vars
  <2> QED
    BY <2>1, <2>6, <2>7, <2>8, <2>9
<1>3. [Next /\ Serial']_vars => [Next]_vars
  OBVIOUS
<1> QED
  BY <1>1, <1>2, <1>3, FreshHolds, PTL DEF SerialSpec, LifecycleSpec, Lifecycle!Spec
=============================================================================
