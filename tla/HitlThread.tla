----------------------------- MODULE HitlThread -----------------------------
(***************************************************************************)
(* Human-in-the-loop threads: ThreadResolver (services/hitl/resolver.py)   *)
(* and the REST and WebSocket handlers that call it (api/v1/hitl.py).      *)
(*                                                                         *)
(* Every request has a database session of its own.  It SELECTs the thread *)
(* row, checks the status it read, and commits its writes later: nothing   *)
(* locks the row or compares a version in between, so a request may commit *)
(* against a row another request has changed meanwhile.  After the commit  *)
(* it re-reads the row (db.refresh), calls a hook, hands its events to the *)
(* message router one at a time and, for a human's message, schedules the  *)
(* chat dispatcher.  The process may stop anywhere between these steps,    *)
(* and a request that came as a frame of a WebSocket is cancelled wherever *)
(* it is when another task of that socket ends first.                      *)
(***************************************************************************)
EXTENDS Naturals, FiniteSets, Sequences

CONSTANTS
  Threads,     \* thread ids (uuid4: a thread is created once)
  Requests,    \* request ids, each a single call of a resolver operation
  NoThread,    \* the thread of a request not yet received
  MaxCrashes   \* bound on the number of process stops

ASSUME NoThreadAssumption == NoThread \notin Threads
ASSUME MaxCrashesAssumption == MaxCrashes \in Nat

VARIABLES
  status,         \* status column of each HiTLThreadModel row
  messages,       \* HiTLMessageModel rows
  audit,          \* AuditLog rows of the thread lifecycle
  notifications,  \* requests that left a hitl_escalation Notification row
  req,            \* the coroutine serving each request
  hooked,         \* requests whose resume or escalation hook has run
  events,         \* envelopes given to the router, per thread, oldest first
  scheduled,      \* requests that scheduled a chat dispatch
  crashes         \* process stops so far

rows == <<status, messages, audit, notifications>>
vars == <<rows, req, hooked, events, scheduled, crashes>>

-----------------------------------------------------------------------------
Live     == {"OPEN", "IN_PROGRESS"}
Terminal == {"RESOLVED", "ESCALATED"}
Statuses == Live \cup Terminal
Absent   == "ABSENT"

CreateOps  == {"create", "create_with_message"}
HumanOps   == {"human", "option"}
MessageOps == HumanOps \cup {"agent"}
CloseOps   == {"resolve", "escalate"}
Ops        == CreateOps \cup MessageOps \cup CloseOps

EventTypes == {"status_update", "agent_message", "human_message",
               "option_selected", "thread_resolved", "escalation"}
NoStatus   == "none"
Event      == [type : EventTypes, status : Statuses \cup {NoStatus},
               by : Requests]

Running  == {"loaded", "committed", "refreshed", "publishing"}
Request  == [op : Ops \cup {"none"}, thread : Threads \cup {NoThread},
             pc : Running \cup {"idle", "done", "refused", "stopped", "cut"},
             seen : Statuses \cup {NoStatus}, outbox : Seq(Event),
             socket : BOOLEAN]   \* whether it is a frame of a WebSocket

Received(op, t, pc, seen, socket) ==
  [op |-> op, thread |-> t, pc |-> pc, seen |-> seen, outbox |-> <<>>,
   socket |-> socket]
Idle == Received("none", NoThread, "idle", NoStatus, FALSE)

\* The status a closing operation writes, and the audit action it records.
ClosedUnknown(op) ==   \* mutant: a status that is no ThreadStatus
  IF op = "resolve" THEN "CLOSED" ELSE "ESCALATED"
ClosedStatus(op) == IF op = "resolve" THEN "RESOLVED" ELSE "ESCALATED"

\* Who a message row is from.  The initial message of a thread is the
\* agent's; the closing operations leave a system message.
SenderTyped(op) ==   \* mutant: a selected option is nobody's message
  CASE op = "human" -> "human" [] op = "agent" -> "agent" [] OTHER -> "system"
Sender(op) == CASE op \in HumanOps -> "human"
                [] op \in CloseOps -> "system"
                [] OTHER           -> "agent"

\* What a request publishes after its commit, given the status it re-read.
\* add_message repeats IN_PROGRESS; record_option_select announces no status.
Outbox(r, op, now) ==
  LET E(type, st) == [type |-> type, status |-> st, by |-> r]
      Update == IF now = "IN_PROGRESS" THEN <<E("status_update", now)>>
                ELSE <<>>
  IN CASE op = "create"   -> <<E("status_update", now)>>
       [] op = "create_with_message" ->
            <<E("status_update", now), E("agent_message", NoStatus)>>
       [] op = "agent"    -> <<E("agent_message", NoStatus)>> \o Update
       [] op = "human"    -> <<E("human_message", NoStatus)>> \o Update
       [] op = "option"   -> <<E("option_selected", NoStatus)>>
       [] op = "resolve"  -> <<E("thread_resolved", now)>>
       [] op = "escalate" -> <<E("escalation", now)>>

-----------------------------------------------------------------------------
Init ==
  /\ status = [t \in Threads |-> Absent]
  /\ messages = {}
  /\ audit = {}
  /\ notifications = {}
  /\ req = [r \in Requests |-> Idle]
  /\ hooked = {}
  /\ events = [t \in Threads |-> <<>>]
  /\ scheduled = {}
  /\ crashes = 0

MessageRow == [by : Requests, thread : Threads,
               sender : {"human", "agent", "system"}]
AuditRow   == [by : Requests, thread : Threads,
               action : Terminal \cup {"created"}]

Message(r, t, op) == [by |-> r, thread |-> t, sender |-> Sender(op)]
Audit(r, t, action) == [by |-> r, thread |-> t, action |-> action]

\* create_thread: one transaction inserts the row, the optional first
\* message and the audit row.
CreateThread(r, t, op) ==
  /\ req[r].pc = "idle"
  /\ op \in CreateOps
  /\ status[t] = Absent
  /\ status' = [status EXCEPT ![t] = "OPEN"]
  /\ messages' = IF op = "create" THEN messages
                 ELSE messages \cup {Message(r, t, op)}
  /\ audit' = audit \cup {Audit(r, t, "created")}
  /\ req' = [req EXCEPT ![r] = Received(op, t, "committed", NoStatus, FALSE)]
  /\ UNCHANGED <<notifications, hooked, events, scheduled, crashes>>

\* _load_thread and the guard every operation starts with: a terminal
\* thread is refused (ThreadStateError, a 409), any other row is kept in
\* the session as it was read.  Messages and options also come over sockets.
LoadUnchecked(r, t, op) ==   \* mutant: no terminal check
  /\ req[r].pc = "idle"
  /\ op \in MessageOps \cup CloseOps
  /\ status[t] # Absent
  /\ req' = [req EXCEPT ![r] = Received(op, t, "loaded", status[t], FALSE)]
  /\ UNCHANGED <<rows, hooked, events, scheduled, crashes>>
LoadThread(r, t, op) ==
  /\ req[r].pc = "idle"
  /\ op \in MessageOps \cup CloseOps
  /\ status[t] # Absent
  /\ LET pc == IF status[t] \in Terminal THEN "refused" ELSE "loaded"
     IN \E socket \in (IF op \in MessageOps THEN BOOLEAN ELSE {FALSE}) :
          req' = [req EXCEPT ![r] = Received(op, t, pc, status[t], socket)]
  /\ UNCHANGED <<rows, hooked, events, scheduled, crashes>>

\* Commit of add_message and record_option_select.  The first human reply
\* moves OPEN to IN_PROGRESS, judged by the status that was read; only a
\* changed column is written, so otherwise the row stays as others left it.
CommitAnyMessage(r) ==   \* mutant: an agent's message starts the thread too
  /\ req[r].pc = "loaded"
  /\ req[r].op \in MessageOps
  /\ status' = IF req[r].seen = "OPEN"
               THEN [status EXCEPT ![req[r].thread] = "IN_PROGRESS"] ELSE status
  /\ messages' = messages \cup {Message(r, req[r].thread, req[r].op)}
  /\ req' = [req EXCEPT ![r].pc = "committed"]
  /\ UNCHANGED <<audit, notifications, hooked, events, scheduled, crashes>>
CommitMessage(r) ==
  /\ req[r].pc = "loaded"
  /\ req[r].op \in MessageOps
  /\ LET t == req[r].thread
     IN /\ status' = IF req[r].op \in HumanOps /\ req[r].seen = "OPEN"
                     THEN [status EXCEPT ![t] = "IN_PROGRESS"]
                     ELSE status
        /\ messages' = messages \cup {Message(r, t, req[r].op)}
  /\ req' = [req EXCEPT ![r].pc = "committed"]
  /\ UNCHANGED <<audit, notifications, hooked, events, scheduled, crashes>>

\* Commit of resolve_thread and escalate_thread: status, audit row and, for
\* an escalation, the notification, in one transaction.  The note of a
\* resolution is optional.
CommitClose(r) ==
  /\ req[r].pc = "loaded"
  /\ req[r].op \in CloseOps
  /\ LET t == req[r].thread
         s == ClosedStatus(req[r].op)
     IN /\ status' = [status EXCEPT ![t] = s]
        /\ \/ messages' = messages \cup {Message(r, t, req[r].op)}
           \/ s = "RESOLVED" /\ messages' = messages
        /\ audit' = audit \cup {Audit(r, t, s)}
        /\ notifications' = IF s = "ESCALATED" THEN notifications \cup {r}
                            ELSE notifications
  /\ req' = [req EXCEPT ![r].pc = "committed"]
  /\ UNCHANGED <<hooked, events, scheduled, crashes>>

\* db.refresh(thread): a new read of the row, after the commit.
Refresh(r) ==
  /\ req[r].pc = "committed"
  /\ LET now == status[req[r].thread]
     IN req' = [req EXCEPT ![r].pc = "refreshed", ![r].seen = now,
                           ![r].outbox = Outbox(r, req[r].op, now)]
  /\ UNCHANGED <<rows, hooked, events, scheduled, crashes>>

\* The workflow resumer or the escalation notifier.  A hook that raises is
\* logged and the request goes on, so its outcome changes nothing here.
RunResumeHook(r) ==   \* mutant: the escalation notifier is not called
  /\ req[r].pc = "refreshed"
  /\ hooked' = IF req[r].op = "resolve" THEN hooked \cup {r} ELSE hooked
  /\ req' = [req EXCEPT ![r].pc = "publishing"]
  /\ UNCHANGED <<rows, events, scheduled, crashes>>
RunHook(r) ==
  /\ req[r].pc = "refreshed"
  /\ hooked' = IF req[r].op \in CloseOps THEN hooked \cup {r} ELSE hooked
  /\ req' = [req EXCEPT ![r].pc = "publishing"]
  /\ UNCHANGED <<rows, events, scheduled, crashes>>

\* One router.publish call.
Publish(r) ==
  /\ req[r].pc = "publishing"
  /\ req[r].outbox # <<>>
  /\ events' = [events EXCEPT ![req[r].thread] =
                  Append(@, Head(req[r].outbox))]
  /\ req' = [req EXCEPT ![r].outbox = Tail(@)]
  /\ UNCHANGED <<rows, hooked, scheduled, crashes>>

\* The return of the operation; a human's message or option schedules the
\* chat dispatcher first.
FinishEarly(r) ==   \* mutant: returns with events still to publish
  /\ req[r].pc = "publishing"
  /\ scheduled' = IF req[r].op \in HumanOps THEN scheduled \cup {r} ELSE scheduled
  /\ req' = [req EXCEPT ![r].pc = "done"]
  /\ UNCHANGED <<rows, hooked, events, crashes>>
FinishTyped(r) ==   \* mutant: an option schedules no reply
  /\ req[r].pc = "publishing"
  /\ req[r].outbox = <<>>
  /\ scheduled' = IF req[r].op = "human" THEN scheduled \cup {r} ELSE scheduled
  /\ req' = [req EXCEPT ![r].pc = "done"]
  /\ UNCHANGED <<rows, hooked, events, crashes>>
Finish(r) ==
  /\ req[r].pc = "publishing"
  /\ req[r].outbox = <<>>
  /\ scheduled' = IF req[r].op \in HumanOps THEN scheduled \cup {r}
                  ELSE scheduled
  /\ req' = [req EXCEPT ![r].pc = "done"]
  /\ UNCHANGED <<rows, hooked, events, crashes>>

\* A worker process stops: what is committed stays, the requests it was
\* serving are gone.
Crash(served) ==
  /\ crashes < MaxCrashes
  /\ crashes' = crashes + 1
  /\ \A r \in served : req[r].pc \in Running
  /\ req' = [r \in Requests |-> IF r \in served
                                THEN [req[r] EXCEPT !.pc = "stopped"]
                                ELSE req[r]]
  /\ UNCHANGED <<rows, hooked, events, scheduled>>

\* The fan-out task of a socket fails to send, or its heartbeat finds the
\* client stale: the handler cancels the task that serves the frame, before
\* or after its commit, and nothing takes up what was left to do.
Cut(r) ==
  /\ req[r].socket
  /\ req[r].pc \in Running
  /\ req' = [req EXCEPT ![r].pc = "cut"]
  /\ UNCHANGED <<rows, hooked, events, scheduled, crashes>>

\* A request that has been received goes on by itself.
Continue(r) == CommitMessage(r) \/ CommitClose(r) \/ Refresh(r) \/ RunHook(r)
               \/ Publish(r) \/ Finish(r)

Receive(r) == \E t \in Threads, op \in Ops :
                CreateThread(r, t, op) \/ LoadThread(r, t, op)

Next == \/ \E served \in SUBSET Requests : Crash(served)
        \/ \E r \in Requests : Receive(r) \/ Continue(r) \/ Cut(r)

Spec == Init /\ [][Next]_vars

\* The event loop keeps running every coroutine until it ends or is cancelled;
\* nobody has to send a request, and no socket has to fail.
FairSpec == Spec /\ \A r \in Requests : WF_vars(Continue(r))

-----------------------------------------------------------------------------
(* What holds for any interleaving of requests.                            *)

\* The types of the variables.
TypeOK ==
  /\ status \in [Threads -> Statuses \cup {Absent}]
  /\ messages \subseteq MessageRow
  /\ audit \subseteq AuditRow
  /\ notifications \subseteq Requests
  /\ req \in [Requests -> Request]
  /\ hooked \subseteq Requests
  /\ events \in [Threads -> Seq(Event)]
  /\ scheduled \subseteq Requests
  /\ crashes \in 0..MaxCrashes

\* A row explaining that thread t may have (had) status s.
Explained(t, s) ==
  CASE s = "OPEN"        -> \E a \in audit : a.thread = t /\ a.action = "created"
    [] s = "IN_PROGRESS" -> \E m \in messages : m.thread = t /\ m.sender = "human"
    [] s = "RESOLVED"    -> \E a \in audit : a.thread = t /\ a.action = s
    [] s = "ESCALATED"   -> \E a \in audit : /\ a.thread = t
                                             /\ a.action = s
                                             /\ a.by \in notifications

\* However requests interleave or stop, the trail explains the status: a
\* resolved or escalated thread has the audit row (and the on-call
\* notification) of the request that closed it, a thread in progress has a
\* human's message.
StatusIsExplained ==
  \A t \in Threads : status[t] # Absent => Explained(t, status[t])

\* What an envelope announces is already stored: subscribers never hear of a
\* message, a resolution or an escalation that a rollback or a stop undoes,
\* and a closing envelope comes after its resume or escalation hook.
Backed(t, e) ==
  /\ e.type \in {"agent_message", "human_message", "option_selected"} =>
       \E m \in messages : m.by = e.by /\ m.thread = t
  /\ e.type = "thread_resolved" =>
       Audit(e.by, t, "RESOLVED") \in audit /\ e.by \in hooked
  /\ e.type = "escalation" =>
       /\ Audit(e.by, t, "ESCALATED") \in audit
       /\ e.by \in hooked \cap notifications
  /\ e.status # NoStatus => Explained(t, e.status)

EventsAreBacked ==
  \A t \in Threads : \A i \in DOMAIN events[t] : Backed(t, events[t][i])

\* A request that has read t live and not committed yet.
StaleReader(t, r) ==
  req[r].thread = t /\ req[r].pc = "loaded" /\ req[r].seen \in Live

\* A step that changes the status of a closed thread, or closes it again.
Reopens(t) ==
  /\ status[t] \in Terminal
  /\ status'[t] # status[t] \/ \E a \in audit' \ audit : a.thread = t

\* Only a request that read the thread before it was closed can take it out
\* of a terminal status or close it a second time: whoever reads it later is
\* refused.
OnlyStaleReadersReopen ==
  [][\A t \in Threads : Reopens(t) => \E r \in Requests : StaleReader(t, r)]_vars

\* A committed resolution or escalation reaches the subscribers, unless the
\* process serving the request stops.
CloseIsAnnounced ==
  \A r \in Requests : \A t \in Threads :
    (\E a \in audit : a.by = r /\ a.thread = t /\ a.action \in Terminal) ~>
      \/ \E i \in DOMAIN events[t] : /\ events[t][i].by = r
                                     /\ events[t][i].type \in
                                          {"thread_resolved", "escalation"}
      \/ req[r].pc = "stopped"

\* A stored human message or option schedules a reply by the chat
\* dispatcher, unless the process serving the request stops or the request
\* is a frame of a socket that is torn down before it gets there: only then
\* is a message stored that no dispatch follows.
HumanMessageIsDispatched ==
  \A r \in Requests :
    (\E m \in messages : m.by = r /\ m.sender = "human") ~>
      \/ r \in scheduled
      \/ req[r].pc = "stopped"
      \/ req[r].pc = "cut" /\ req[r].socket

-----------------------------------------------------------------------------
(* What the code says of itself, and what only holds when the requests for *)
(* a thread do not overlap between their read and their commit.            *)

\* resolver.py:68, "Terminal states -- no further transitions allowed."
TerminalIsFinal ==
  [][\A t \in Threads : status[t] \in Terminal => status'[t] = status[t]]_vars

\* The status a subscriber that has seen every envelope of t believes in.
Announced(t) ==
  LET told == {i \in DOMAIN events[t] : events[t][i].status # NoStatus}
  IN IF told = {} THEN NoStatus
     ELSE events[t][CHOOSE i \in told : \A j \in told : j <= i].status

\* resolver.py:8-9, events are published "so any connected WebSocket clients
\* learn about the change instantly": once no request for a thread is
\* running or was cut off, its last announced status is the stored one.
QuietThreadIsAnnounced ==
  \A t \in Threads :
    (/\ status[t] # Absent
     /\ \A r \in Requests : req[r].thread = t => req[r].pc \in {"done", "refused"})
      => Announced(t) = status[t]

\* At most one request at a time between its read of a thread and its commit:
\* what a row lock (SELECT ... FOR UPDATE) would enforce and the code does not.
Serial ==
  \A r, s \in Requests :
    req[r].pc = "loaded" /\ req[s].pc = "loaded"
      /\ req[r].thread = req[s].thread => r = s

SerialSpec == Init /\ [][Next /\ Serial']_vars

\* The lifecycle a thread then follows.
Closings == [t \in Threads |->
               {a.by : a \in {b \in audit : b.thread = t /\ b.action \in Terminal}}]
Replies  == [t \in Threads |->
               {m.by : m \in {n \in messages : /\ n.thread = t
                                               /\ n.sender = "human"}}]

Lifecycle == INSTANCE ThreadLifecycle
               WITH closings <- Closings, replies <- Replies

LifecycleSpec == Lifecycle!Spec
=============================================================================
