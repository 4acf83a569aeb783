----------------------------- MODULE ChatDispatch -----------------------------
(***************************************************************************)
(* The chat dispatcher (services/hitl/chat_dispatcher.py) for one thread.  *)
(* A human's message schedules a task that takes the thread's lock, reads  *)
(* the history, asks the agent (up to MaxRounds tool rounds), and then in  *)
(* a second database session writes a patch of the item, the reply, and    *)
(* for a resolving reply the resolution, after which the pipeline is run.  *)
(* The lock is an asyncio.Lock: each worker process has its own.           *)
(*                                                                         *)
(* Operators act in one step here; HitlThread splits those steps.          *)
(***************************************************************************)
EXTENDS Naturals, FiniteSets, Sequences

CONSTANTS
  Dispatches,  \* one for each human message
  Workers,     \* the processes that serve the thread
  Facts,       \* values a patch can write
  MaxTurns,    \* MAX_AGENT_TURNS
  MaxRounds,   \* _MAX_TOOL_ROUNDS
  Handled,     \* whether a chat handler is registered for the thread's agent
  None

ASSUME NoneAssumption == None \notin Workers
ASSUME BoundsAssumption ==
  MaxTurns \in Nat /\ MaxRounds \in Nat /\ Handled \in BOOLEAN

VARIABLES
  status,    \* the status column of the thread
  messages,  \* its HiTLMessageModel rows, oldest first
  item,      \* the data column of the item the thread is about
  disp,      \* the dispatch task of each human message
  queue,     \* per worker: the holder of the thread's lock, then its waiters
  resolved,  \* dispatches that committed a resolution
  advanced   \* dispatches that called the auto-advance hook

vars == <<status, messages, item, disp, queue, resolved, advanced>>

-----------------------------------------------------------------------------
Live     == {"OPEN", "IN_PROGRESS"}
Terminal == {"RESOLVED", "ESCALATED"}

Message == [role : {"human", "agent", "interim", "system"}, by : Dispatches]

\* The part of item.data a patch can touch: the blocked_reason marker, the
\* values of keys at the top and, if there is a nested object, those in it.
Data  == [reason : BOOLEAN, top : SUBSET Facts, nested : BOOLEAN, sub : SUBSET Facts]
Patch == [at : {"top", "sub"}, fact : Facts] \cup {None}

Task == [pc : {"idle", "stored", "queued", "thinking", "patching", "patched",
               "posting", "posted", "resolving", "advancing", "done", "failed",
               "stopped", "cut"},
         worker : Workers \cup {None}, ctx : Nat, round : 0..MaxRounds,
         seen : Live \cup Terminal \cup {None}, patch : Patch,
         resolve : BOOLEAN, base : Data]

NoData == [reason |-> FALSE, top |-> {}, nested |-> FALSE, sub |-> {}]
Idle == [pc |-> "idle", worker |-> None, ctx |-> 0, round |-> 0, seen |-> None,
         patch |-> None, resolve |-> FALSE, base |-> NoData]

Init ==
  /\ status = "OPEN"
  /\ messages = <<>>
  /\ item \in {[NoData EXCEPT !.reason = TRUE, !.nested = n] : n \in BOOLEAN}
  /\ disp = [d \in Dispatches |-> Idle]
  /\ queue = [w \in Workers |-> <<>>]
  /\ resolved = {}
  /\ advanced = {}

Said(d, role) == messages' = Append(messages, [role |-> role, by |-> d])
Becomes(d, pc) == disp' = [disp EXCEPT ![d].pc = pc]

-----------------------------------------------------------------------------
\* What happens around the dispatcher.

\* A human's message is stored by some worker.
HumanMessage(d, w) ==
  /\ disp[d].pc = "idle"
  /\ status \in Live
  /\ status' = "IN_PROGRESS"
  /\ Said(d, "human")
  /\ disp' = [disp EXCEPT ![d].pc = "stored", ![d].worker = w]
  /\ UNCHANGED <<item, queue, resolved, advanced>>

\* An operator closes the thread.
Close(st) ==
  /\ status \in Live
  /\ status' = st
  /\ UNCHANGED <<messages, item, disp, queue, resolved, advanced>>

\* The pipeline blocks the item again and leaves its reason.
Block ==
  /\ ~item.reason
  /\ item' = [item EXCEPT !.reason = TRUE]
  /\ UNCHANGED <<status, messages, disp, queue, resolved, advanced>>

\* Of a task that ended, its outcome and what it had read are remembered.
Ended(task, outcome) == [Idle EXCEPT !.pc = outcome, !.worker = task.worker,
                                     !.ctx = task.ctx]

\* A worker stops and its tasks and lock with it; another takes its place.
Running == {"stored", "queued", "thinking", "patching", "patched", "posting",
            "posted", "resolving", "advancing"}
Stop(w) ==
  /\ \E d \in Dispatches : disp[d].worker = w /\ disp[d].pc \in Running
  /\ disp' = [d \in Dispatches |->
                IF disp[d].worker = w /\ disp[d].pc \in Running
                THEN Ended(disp[d], "stopped") ELSE disp[d]]
  /\ queue' = [queue EXCEPT ![w] = <<>>]
  /\ UNCHANGED <<status, messages, item, resolved, advanced>>

-----------------------------------------------------------------------------
\* schedule_dispatch: the task asks for the worker's lock, first come first
\* served.
Schedule(d) ==
  /\ disp[d].pc = "stored"
  /\ Becomes(d, "queued")
  /\ queue' = [queue EXCEPT ![disp[d].worker] = Append(@, d)]
  /\ UNCHANGED <<status, messages, item, resolved, advanced>>

\* The message came over a socket that is torn down between its commit and
\* schedule_dispatch: the coroutine is cancelled and no task is made.
Cut(d) ==
  /\ disp[d].pc = "stored"
  /\ disp' = [disp EXCEPT ![d] = Ended(@, "cut")]
  /\ UNCHANGED <<status, messages, item, queue, resolved, advanced>>

HoldsNothing(d) == queue[disp[d].worker] # <<>>   \* mutant: no lock
HoldsLock(d) == /\ queue[disp[d].worker] # <<>>
                /\ Head(queue[disp[d].worker]) = d
Release(d) == queue' = [queue EXCEPT ![disp[d].worker] = Tail(@)]
\* Leaving the lock's block.
End(d, outcome) == disp' = [disp EXCEPT ![d] = Ended(@, outcome)] /\ Release(d)

\* _count_agent_turns: replies since the latest human message; the interim
\* messages of tool rounds do not count.
Turns(log) ==
  Cardinality({i \in DOMAIN log :
                 /\ log[i].role = "agent"
                 /\ \A j \in i..Len(log) : log[j].role # "human"})

\* _build_chat_context on a closed thread: nothing to do.
FindClosed(d) ==
  /\ disp[d].pc = "queued" /\ HoldsLock(d)
  /\ status \in Terminal
  /\ End(d, "done")
  /\ UNCHANGED <<status, messages, item, resolved, advanced>>

\* The turn cap is reached, or no handler is registered: the dispatcher
\* leaves a system message of its own.
Refuse(d) ==
  /\ disp[d].pc = "queued" /\ HoldsLock(d)
  /\ status \in Live
  /\ Turns(messages) >= MaxTurns \/ ~Handled
  /\ Said(d, "system")
  /\ End(d, "done")
  /\ UNCHANGED <<status, item, resolved, advanced>>

\* The history is read and the agent is asked.
AskOnceMore(d) ==   \* mutant: one turn too many
  /\ disp[d].pc = "queued" /\ HoldsLock(d)
  /\ status \in Live
  /\ Turns(messages) <= MaxTurns /\ Handled
  /\ disp' = [disp EXCEPT ![d].pc = "thinking", ![d].ctx = Len(messages)]
  /\ UNCHANGED <<status, messages, item, queue, resolved, advanced>>
Ask(d) ==
  /\ disp[d].pc = "queued" /\ HoldsLock(d)
  /\ status \in Live
  /\ Turns(messages) < MaxTurns /\ Handled
  /\ disp' = [disp EXCEPT ![d].pc = "thinking", ![d].ctx = Len(messages)]
  /\ UNCHANGED <<status, messages, item, queue, resolved, advanced>>

\* A tool round: what the agent says meanwhile is posted as an interim
\* message, unless it said nothing or the thread was closed (the refusal is
\* logged and swallowed).
UseToolsOnceMore(d) ==   \* mutant: one round too many
  /\ disp[d].pc = "thinking"
  /\ disp' = [disp EXCEPT ![d].round = @ + 1]
  /\ \/ status \in Live /\ Said(d, "interim")
     \/ UNCHANGED messages
  /\ UNCHANGED <<status, item, queue, resolved, advanced>>
UseTools(d) ==
  /\ disp[d].pc = "thinking"
  /\ disp[d].round < MaxRounds
  /\ disp' = [disp EXCEPT ![d].round = @ + 1]
  /\ \/ status \in Live /\ Said(d, "interim")
     \/ UNCHANGED messages
  /\ UNCHANGED <<status, item, queue, resolved, advanced>>

\* The agent raises: the task ends, and `async with` releases the lock.
FailHolding(d) ==   \* mutant: the lock stays taken
  /\ disp[d].pc = "thinking"
  /\ Becomes(d, "failed")
  /\ UNCHANGED <<status, messages, item, queue, resolved, advanced>>
Fail(d) ==
  /\ disp[d].pc = "thinking"
  /\ End(d, "failed")
  /\ UNCHANGED <<status, messages, item, resolved, advanced>>

\* The agent answers and the thread is read again, in a new session: with the
\* thread closed meanwhile the answer is dropped.
AnswerUnchecked(d, patch, resolve) ==   \* mutant: no second look
  /\ disp[d].pc = "thinking"
  /\ disp' = [disp EXCEPT ![d].seen = status, ![d].patch = patch, ![d].resolve = resolve,
                          ![d].pc = IF patch = None THEN "posting" ELSE "patching"]
  /\ UNCHANGED <<status, messages, item, queue, resolved, advanced>>
Answer(d, patch, resolve) ==
  /\ disp[d].pc = "thinking"
  /\ IF status \in Terminal THEN End(d, "done")
     ELSE /\ disp' = [disp EXCEPT
                        ![d].seen = status, ![d].patch = patch,
                        ![d].resolve = resolve,
                        ![d].pc = IF patch = None THEN "posting" ELSE "patching"]
          /\ UNCHANGED queue
  /\ UNCHANGED <<status, messages, item, resolved, advanced>>

\* _apply_patches_to_item reads the item ...
ReadItem(d) ==
  /\ disp[d].pc = "patching"
  /\ disp' = [disp EXCEPT ![d].pc = "patched", ![d].base = item]
  /\ UNCHANGED <<status, messages, item, queue, resolved, advanced>>

\* ... and writes a shallow copy of its data, patched.  A key of the nested
\* object is set inside the object the copy shares with the row that was
\* read: when nothing at the top differs, old and new compare equal and the
\* commit writes nothing.
PatchedReset(data, p) ==   \* mutant: the copy starts empty
  [NoData EXCEPT !.top = IF p.at = "top" THEN {p.fact} ELSE {},
                 !.nested = (p.at = "sub"),
                 !.sub = IF p.at = "sub" THEN {p.fact} ELSE {}]
Patched(data, p) ==
  IF p.at = "top"
  THEN [data EXCEPT !.reason = FALSE, !.top = @ \cup {p.fact}]
  ELSE [data EXCEPT !.reason = FALSE, !.nested = TRUE, !.sub = @ \cup {p.fact}]
Noticed(data, p) ==
  \/ data.reason
  \/ p.at = "top" /\ p.fact \notin data.top
  \/ p.at = "sub" /\ ~data.nested

CommitPatch(d) ==
  /\ disp[d].pc = "patched"
  /\ item' = IF Noticed(disp[d].base, disp[d].patch)
             THEN Patched(disp[d].base, disp[d].patch) ELSE item
  /\ disp' = [disp EXCEPT ![d].pc = "posting", ![d].base = NoData]
  /\ UNCHANGED <<status, messages, queue, resolved, advanced>>

\* add_message checks the thread the session already holds: a second SELECT
\* does not refresh it, so the status is the one Answer saw.
PostReply(d) ==
  /\ disp[d].pc = "posting"
  /\ disp[d].seen \in Live
  /\ Said(d, "agent")
  /\ Becomes(d, "posted")
  /\ UNCHANGED <<status, item, queue, resolved, advanced>>

\* Its db.refresh does read the row again.
Refresh(d) ==
  /\ disp[d].pc = "posted"
  /\ IF disp[d].resolve
     THEN /\ disp' = [disp EXCEPT ![d].pc = "resolving", ![d].seen = status]
          /\ UNCHANGED queue
     ELSE End(d, "done")
  /\ UNCHANGED <<status, messages, item, resolved, advanced>>

\* resolve_thread, refused on a thread seen closed; the refusal is logged.
AutoResolve(d) ==
  /\ disp[d].pc = "resolving"
  /\ IF disp[d].seen \in Live
     THEN status' = "RESOLVED" /\ resolved' = resolved \cup {d}
     ELSE UNCHANGED <<status, resolved>>
  /\ Becomes(d, "advancing")
  /\ UNCHANGED <<messages, item, queue, advanced>>

\* The auto-advance hook, whatever became of the resolution.
Advance(d) ==
  /\ disp[d].pc = "advancing"
  /\ advanced' = advanced \cup {d}
  /\ End(d, "done")
  /\ UNCHANGED <<status, messages, item, resolved>>

-----------------------------------------------------------------------------
Continue(d) ==
  \/ Schedule(d) \/ FindClosed(d) \/ Refuse(d) \/ Ask(d) \/ UseTools(d)
  \/ Fail(d) \/ ReadItem(d) \/ CommitPatch(d) \/ PostReply(d) \/ Refresh(d)
  \/ AutoResolve(d) \/ Advance(d)
  \/ \E patch \in Patch, resolve \in BOOLEAN : Answer(d, patch, resolve)

Next ==
  \/ \E d \in Dispatches : \/ \E w \in Workers : HumanMessage(d, w)
                           \/ Continue(d) \/ Cut(d)
  \/ \E st \in Terminal : Close(st)
  \/ \E w \in Workers : Stop(w)
  \/ Block

Spec == Init /\ [][Next]_vars

\* The event loop keeps running every task until it ends or is cancelled, and
\* an agent's call returns or raises in the end.
FairSpec == Spec /\ \A d \in Dispatches : WF_vars(Continue(d))

-----------------------------------------------------------------------------
\* The types of the variables.
TypeOK ==
  /\ status \in Live \cup Terminal
  /\ messages \in Seq(Message)
  /\ item \in Data
  /\ disp \in [Dispatches -> Task]
  /\ queue \in [Workers -> Seq(Dispatches)]
  /\ resolved \subseteq Dispatches
  /\ advanced \subseteq Dispatches

\* chat_dispatcher.py:24-26, "at most one dispatcher run per thread at a time
\* ... so the LLM sees the full history": whoever writes a reply had read every
\* earlier message of another dispatch.  It takes a single worker.
HistoryIsFull ==
  \A i \in DOMAIN messages : messages[i].role = "agent" =>
    \A j \in 1..(i - 1) :
      messages[j].role # "human" /\ messages[j].by # messages[i].by =>
        j <= disp[messages[i].by].ctx

\* With a single worker, the replies since the latest human message stay
\* within the cap, although the count is taken long before the reply is
\* stored.
TurnsAreCapped == Turns(messages) <= MaxTurns

\* A closed thread gets a reply, or its item a patch, only from a dispatch
\* that saw it live when its agent had answered.
LateWritesAreStale ==
  [][\A d \in Dispatches :
       /\ status \in Terminal
       /\ \/ disp[d].pc = "patched" /\ disp'[d].pc = "posting"
          \/ disp[d].pc = "posting" /\ disp'[d].pc = "posted"
       => disp[d].seen \in Live]_vars

\* A patch that one dispatch stored is never undone by another: with a single
\* worker the lock also serialises the reads and writes of the item.
PatchesAccumulate ==
  [][item.top \subseteq item'.top /\ item.sub \subseteq item'.sub]_vars

\* A human's message is answered, by a reply or a system message, unless the
\* thread is closed first, the agent raises, the worker stops or the socket it
\* came over is torn down before its dispatch is scheduled.
HumanIsAnswered ==
  \A d \in Dispatches :
    (disp[d].pc = "stored") ~>
      \/ \E i \in DOMAIN messages : messages[i].by = d /\ messages[i].role \in {"agent", "system"}
      \/ status \in Terminal
      \/ disp[d].pc \in {"failed", "stopped", "cut"}

-----------------------------------------------------------------------------
(* What the code says of itself.                                           *)

\* chat_dispatcher.py:27-28, "Turn cap -- hard stop at MAX_AGENT_TURNS agent
\* replies per thread".
CapIsPerThread ==
  Cardinality({i \in DOMAIN messages : messages[i].role = "agent"}) <= MaxTurns

\* chat_dispatcher.py:971-975, patches are merged into item.data and committed,
\* dotted keys as nested writes: a reply that carries a patch comes with an
\* item that has it.
PatchIsStored ==
  \A d \in Dispatches : disp[d].pc = "posting" /\ disp[d].patch # None =>
    \/ disp[d].patch.at = "top" /\ disp[d].patch.fact \in item.top
    \/ disp[d].patch.at = "sub" /\ disp[d].patch.fact \in item.sub

\* chat_dispatcher.py:91, the auto-advance hook is called "after a successful
\* auto-resolve".
AdvanceFollowsResolve == advanced \subseteq resolved
=============================================================================
