------------------------- MODULE ChatDispatch_proofs -------------------------
(***************************************************************************)
(* Proofs about ChatDispatch for any dispatches, workers, values and caps: *)
(* its types, each worker's lock and what a late answer may still write;   *)
(* and with a single worker the history an agent is given, the cap on its  *)
(* turns and the patches of the item.                                      *)
(***************************************************************************)
EXTENDS ChatDispatch, FiniteSetTheorems, TLAPS

\* The steps a dispatch takes inside the lock's block.
Holding == {"thinking", "patching", "patched", "posting", "posted", "resolving",
            "advancing"}

\* What a dispatch knows where it is.
Known(t) ==
  /\ t.pc \in Running => t.worker \in Workers
  /\ t.pc \in {"patching", "patched"} => t.patch # None
  /\ t.pc \in {"patching", "patched", "posting"} => t.seen \in Live

\* What every dispatch carries.
KnownInv == \A d \in Dispatches : Known(disp[d])

\* Inside the block the dispatch is the first of its worker's queue: a worker
\* runs at most one of them.
LockInv == \A d \in Dispatches : disp[d].pc \in Holding => HoldsLock(d)

\* The inductive invariant for any number of workers.
TypeInv == TypeOK /\ KnownInv /\ LockInv

-----------------------------------------------------------------------------
(* Types, and the lock.                                                    *)

\* A dispatch that has not begun.
LEMMA IdleType == Idle \in Task /\ Idle.pc = "idle" /\ NoData \in Data
<1>1. NoData \in Data
  BY DEF NoData, Data
<1> QED BY <1>1, BoundsAssumption DEF Idle, Task, Patch

\* Of a dispatch that ended only its outcome, worker and history remain.
LEMMA EndedType ==
  ASSUME NEW t \in Task, NEW outcome \in {"done", "failed", "stopped", "cut"}
  PROVE  /\ Ended(t, outcome) \in Task /\ Ended(t, outcome).pc = outcome
         /\ Ended(t, outcome).ctx = t.ctx /\ Ended(t, outcome).worker = t.worker
<1>1. Ended(t, outcome) = [Idle EXCEPT !.pc = outcome, !.worker = t.worker, !.ctx = t.ctx]
  BY DEF Ended
<1> QED BY <1>1, IdleType DEF Task

\* It holds before any message is posted.
LEMMA TypeInit == Init => TypeInv
<1> SUFFICES ASSUME Init PROVE TypeInv
  OBVIOUS
<1>1. item \in Data
  BY IdleType DEF Init, Data
<1>2. TypeOK
  <2>3. <<>> \in Seq(Message) /\ <<>> \in Seq(Dispatches)
    OBVIOUS
  <2>1. messages \in Seq(Message) /\ queue \in [Workers -> Seq(Dispatches)]
    BY <2>3 DEF Init
  <2>2. disp \in [Dispatches -> Task]
    BY IdleType DEF Init
  <2> QED BY <1>1, <2>1, <2>2 DEF Init, TypeOK, Live
<1>3. KnownInv /\ LockInv
  BY IdleType DEF Init, KnownInv, Known, LockInv, Running, Holding
<1> QED BY <1>2, <1>3 DEF TypeInv

\* A step of a dispatch that leaves the queues alone.
LEMMA WorkStep ==
  ASSUME TypeInv, NEW d \in Dispatches, NEW t \in Task, Known(t),
         disp' = [disp EXCEPT ![d] = t], queue' = queue,
         t.pc \in Holding => HoldsLock(d) /\ t.worker = disp[d].worker
  PROVE  KnownInv' /\ LockInv' /\ disp' \in [Dispatches -> Task]
         /\ queue' \in [Workers -> Seq(Dispatches)]
BY DEF TypeInv, TypeOK, KnownInv, LockInv, HoldsLock

\* While a dispatch holds its worker's lock no other of that worker is inside.
LEMMA AloneInside ==
  ASSUME LockInv, NEW d \in Dispatches, HoldsLock(d), NEW e \in Dispatches,
         disp[e].worker = disp[d].worker, disp[e].pc \in Holding
  PROVE  e = d
BY DEF LockInv, HoldsLock

\* A step that leaves the block.
LEMMA EndStep ==
  ASSUME TypeInv, NEW d \in Dispatches, disp[d].pc \in Running, HoldsLock(d),
         NEW outcome \in {"done", "failed"}, End(d, outcome)
  PROVE  KnownInv' /\ LockInv' /\ disp' \in [Dispatches -> Task]
         /\ queue' \in [Workers -> Seq(Dispatches)]
<1> DEFINE t == Ended(disp[d], outcome)
           w == disp[d].worker
<1>1. t \in Task /\ t.pc = outcome
  BY EndedType DEF TypeInv, TypeOK
<1>2. disp' = [disp EXCEPT ![d] = t] /\ queue' = [queue EXCEPT ![w] = Tail(@)]
  BY DEF End, Release
<1>3. w \in Workers /\ queue[w] \in Seq(Dispatches) /\ queue[w] # <<>>
  BY DEF TypeInv, TypeOK, KnownInv, Known, HoldsLock
<1> HIDE DEF t
<1>4. disp' \in [Dispatches -> Task] /\ queue' \in [Workers -> Seq(Dispatches)]
  <2>1. Tail(queue[w]) \in Seq(Dispatches)
    BY <1>3
  <2> QED BY <1>1, <1>2, <2>1 DEF TypeInv, TypeOK
<1>5. KnownInv'
  <2>1. Known(t)
    BY <1>1 DEF Known, Running
  <2> QED BY <1>1, <1>2, <2>1 DEF TypeInv, TypeOK, KnownInv
<1>6. LockInv'
  <2> SUFFICES ASSUME NEW e \in Dispatches, disp'[e].pc \in Holding
               PROVE  HoldsLock(e)'
    BY DEF LockInv
  <2>1. e # d /\ disp'[e] = disp[e]
    BY <1>1, <1>2 DEF Holding, TypeInv, TypeOK
  <2>2. disp[e].worker # w
    BY <2>1, AloneInside DEF TypeInv
  <2>3. HoldsLock(e)
    BY <2>1 DEF TypeInv, LockInv
  <2>4. disp[e].worker \in Workers
    BY <2>1 DEF TypeInv, KnownInv, Known, Running, Holding
  <2>5. queue'[disp[e].worker] = queue[disp[e].worker]
    BY <1>2, <2>2, <2>4 DEF TypeInv, TypeOK
  <2> QED BY <2>1, <2>3, <2>5 DEF HoldsLock
<1> QED BY <1>4, <1>5, <1>6

\* A message of the thread is a message.
LEMMA SaidType ==
  ASSUME messages \in Seq(Message), NEW d \in Dispatches,
         NEW role \in {"human", "agent", "interim", "system"}, Said(d, role)
  PROVE  messages' \in Seq(Message)
BY DEF Said, Message

\* The shallow copy of the item's data, patched, is data.
LEMMA PatchedType ==
  ASSUME NEW data \in Data, NEW p \in Patch, p # None
  PROVE  /\ Patched(data, p) \in Data
         /\ data.top \subseteq Patched(data, p).top /\ data.sub \subseteq Patched(data, p).sub
<1>1. p \in [at : {"top", "sub"}, fact : Facts]
  BY DEF Patch
<1>2. CASE p.at = "top"
  BY <1>1, <1>2 DEF Patched, Data
<1>3. CASE p.at # "top"
  BY <1>1, <1>3 DEF Patched, Data
<1> QED BY <1>2, <1>3

\* Every step of a dispatch keeps the types and the lock.
LEMMA ContinueStep ==
  ASSUME TypeInv, NEW d \in Dispatches, Continue(d)
  PROVE  TypeInv'
<1> DEFINE t == disp[d]
           Kept == /\ KnownInv' /\ LockInv' /\ disp' \in [Dispatches -> Task]
                   /\ queue' \in [Workers -> Seq(Dispatches)]
<1>1. /\ t \in Task /\ Known(t) /\ (t.pc \in Holding => HoldsLock(d))
      /\ status \in Live \cup Terminal /\ messages \in Seq(Message) /\ item \in Data
      /\ resolved \subseteq Dispatches /\ advanced \subseteq Dispatches
  BY DEF TypeInv, TypeOK, KnownInv, LockInv
<1>2. ASSUME Kept, status' \in Live \cup Terminal, messages' \in Seq(Message), item' \in Data,
             resolved' \subseteq Dispatches, advanced' \subseteq Dispatches
      PROVE  TypeInv'
  BY <1>2 DEF TypeInv, TypeOK
<1>3. ASSUME NEW u \in Task, Known(u), disp' = [disp EXCEPT ![d] = u], queue' = queue,
             u.pc \in Holding => HoldsLock(d) /\ u.worker = t.worker
      PROVE  Kept
  BY <1>3, WorkStep
<1>4. ASSUME NEW pc \in Running, t.pc \in Running, Becomes(d, pc), queue' = queue,
             pc \in Holding => HoldsLock(d), pc \notin {"patching", "patched", "posting"}
      PROVE  Kept
  <2>1. disp' = [disp EXCEPT ![d] = [t EXCEPT !.pc = pc]]
    BY <1>4 DEF Becomes
  <2>2. [t EXCEPT !.pc = pc] \in Task /\ [t EXCEPT !.pc = pc].worker = t.worker
        /\ [t EXCEPT !.pc = pc].pc = pc
    BY <1>1 DEF Task, Running
  <2>3. Known([t EXCEPT !.pc = pc])
    BY <1>1, <1>4, <2>2 DEF Known
  <2> QED BY <1>3, <1>4, <2>1, <2>2, <2>3
<1>5. CASE Schedule(d)
  <2> DEFINE u == [t EXCEPT !.pc = "queued"]
             w == t.worker
  <2>1. disp' = [disp EXCEPT ![d] = u] /\ queue' = [queue EXCEPT ![w] = Append(@, d)]
        /\ t.pc = "stored"
    BY <1>5 DEF Schedule, Becomes
  <2>2. u \in Task /\ u.pc = "queued" /\ u.worker = w
    BY <1>1 DEF Task
  <2>3. w \in Workers /\ queue[w] \in Seq(Dispatches)
    BY <1>1, <2>1 DEF Known, Running, TypeInv, TypeOK
  <2> HIDE DEF u
  <2>4. Known(u)
    BY <2>2, <2>3 DEF Known
  <2>5. Append(queue[w], d) \in Seq(Dispatches)
    BY <2>3
  <2>6. KnownInv' /\ disp' \in [Dispatches -> Task] /\ queue' \in [Workers -> Seq(Dispatches)]
    BY <2>1, <2>2, <2>4, <2>5 DEF TypeInv, TypeOK, KnownInv
  <2>7. LockInv'
    <3> SUFFICES ASSUME NEW e \in Dispatches, disp'[e].pc \in Holding
                 PROVE  HoldsLock(e)'
      BY DEF LockInv
    <3>1. e # d /\ disp'[e] = disp[e]
      BY <2>1, <2>2 DEF Holding, TypeInv, TypeOK
    <3>2. HoldsLock(e) /\ disp[e].worker \in Workers
      BY <3>1 DEF TypeInv, LockInv, KnownInv, Known, Running, Holding
    <3> DEFINE q == queue[disp[e].worker]
    <3>3. q \in Seq(Dispatches) /\ q # <<>> /\ Head(q) = e
      BY <3>2 DEF TypeInv, TypeOK, HoldsLock
    <3>4. queue'[disp[e].worker] \in {q, Append(q, d)}
      BY <2>1, <3>2 DEF TypeInv, TypeOK
    <3>5. Append(q, d) # <<>> /\ Head(Append(q, d)) = Head(q)
      BY <3>3
    <3> QED BY <3>1, <3>3, <3>4, <3>5 DEF HoldsLock
  <2> QED BY <1>1, <1>2, <1>5, <2>6, <2>7 DEF Schedule
<1>6. CASE FindClosed(d)
  <2>1. Kept
    BY <1>6, EndStep DEF FindClosed, Running
  <2> QED BY <1>1, <1>2, <1>6, <2>1 DEF FindClosed
<1>7. CASE Refuse(d)
  <2>1. Kept
    BY <1>7, EndStep DEF Refuse, Running
  <2> QED BY <1>1, <1>2, <1>7, <2>1, SaidType DEF Refuse
<1>8. CASE Ask(d)
  <2> DEFINE u == [t EXCEPT !.pc = "thinking", !.ctx = Len(messages)]
  <2>1. disp' = [disp EXCEPT ![d] = u] /\ queue' = queue /\ HoldsLock(d) /\ t.pc = "queued"
    BY <1>8 DEF Ask
  <2>2. Len(messages) \in Nat
    BY <1>1
  <2>3. u \in Task /\ u.pc = "thinking" /\ u.worker = t.worker
    BY <1>1, <2>2 DEF Task
  <2> HIDE DEF u
  <2>4. Known(u)
    BY <1>1, <2>1, <2>3 DEF Known, Running
  <2>5. Kept
    BY <1>3, <2>1, <2>3, <2>4
  <2> QED BY <1>1, <1>2, <1>8, <2>5 DEF Ask
<1>9. CASE UseTools(d)
  <2> DEFINE u == [t EXCEPT !.round = @ + 1]
  <2>1. disp' = [disp EXCEPT ![d] = u] /\ queue' = queue /\ t.pc = "thinking"
        /\ t.round < MaxRounds
    BY <1>9 DEF UseTools
  <2>2. t.round + 1 \in 0..MaxRounds
    BY <1>1, <2>1, BoundsAssumption DEF Task
  <2>3. u \in Task /\ u.pc = t.pc /\ u.worker = t.worker
    BY <1>1, <2>2 DEF Task
  <2> HIDE DEF u
  <2>4. Known(u)
    BY <1>1, <2>1, <2>3 DEF Known
  <2>5. Kept
    BY <1>1, <1>3, <2>1, <2>3, <2>4 DEF Holding
  <2>6. messages' \in Seq(Message)
    BY <1>1, <1>9, SaidType DEF UseTools
  <2> QED BY <1>1, <1>2, <1>9, <2>5, <2>6 DEF UseTools
<1>10. CASE Fail(d)
  <2>1. Kept
    BY <1>1, <1>10, EndStep DEF Fail, Running, Holding
  <2> QED BY <1>1, <1>2, <1>10, <2>1 DEF Fail
<1>11. ASSUME NEW patch \in Patch, NEW resolve \in BOOLEAN, Answer(d, patch, resolve)
       PROVE  TypeInv'
  <2>1. CASE status \in Terminal
    <3>1. Kept
      BY <1>1, <1>11, <2>1, EndStep DEF Answer, Running, Holding
    <3> QED BY <1>1, <1>2, <1>11, <3>1 DEF Answer
  <2>2. CASE status \notin Terminal
    <3> DEFINE u == [t EXCEPT !.seen = status, !.patch = patch, !.resolve = resolve,
                              !.pc = IF patch = None THEN "posting" ELSE "patching"]
    <3>1. disp' = [disp EXCEPT ![d] = u] /\ queue' = queue /\ t.pc = "thinking"
      BY <1>11, <2>2 DEF Answer
    <3>2. u \in Task /\ u.worker = t.worker /\ u.seen = status /\ u.patch = patch
          /\ u.pc = (IF patch = None THEN "posting" ELSE "patching")
      BY <1>1 DEF Task
    <3> HIDE DEF u
    <3>3. Known(u)
      BY <1>1, <2>2, <3>1, <3>2 DEF Known, Running
    <3>4. Kept
      BY <1>1, <1>3, <3>1, <3>2, <3>3 DEF Holding
    <3> QED BY <1>1, <1>2, <1>11, <3>4 DEF Answer
  <2> QED BY <2>1, <2>2
<1>12. CASE ReadItem(d)
  <2> DEFINE u == [t EXCEPT !.pc = "patched", !.base = item]
  <2>1. disp' = [disp EXCEPT ![d] = u] /\ queue' = queue /\ t.pc = "patching"
    BY <1>12 DEF ReadItem
  <2>2. u \in Task /\ u.worker = t.worker /\ u.seen = t.seen /\ u.patch = t.patch
        /\ u.pc = "patched"
    BY <1>1 DEF Task
  <2> HIDE DEF u
  <2>3. Known(u)
    BY <1>1, <2>1, <2>2 DEF Known, Running
  <2>4. Kept
    BY <1>1, <1>3, <2>1, <2>2, <2>3 DEF Holding
  <2> QED BY <1>1, <1>2, <1>12, <2>4 DEF ReadItem
<1>13. CASE CommitPatch(d)
  <2> DEFINE u == [t EXCEPT !.pc = "posting", !.base = NoData]
  <2>1. disp' = [disp EXCEPT ![d] = u] /\ queue' = queue /\ t.pc = "patched"
    BY <1>13 DEF CommitPatch
  <2>2. u \in Task /\ u.worker = t.worker /\ u.seen = t.seen /\ u.pc = "posting"
    BY <1>1, IdleType DEF Task
  <2> HIDE DEF u
  <2>3. Known(u)
    BY <1>1, <2>1, <2>2 DEF Known, Running
  <2>4. Kept
    BY <1>1, <1>3, <2>1, <2>2, <2>3 DEF Holding
  <2>5. item' \in Data
    <3>1. t.base \in Data /\ t.patch \in Patch /\ t.patch # None
      BY <1>1, <2>1 DEF Task, Known
    <3>2. Patched(t.base, t.patch) \in Data
      BY <3>1, PatchedType
    <3> QED BY <1>1, <1>13, <3>2 DEF CommitPatch
  <2> QED BY <1>1, <1>2, <1>13, <2>4, <2>5 DEF CommitPatch
<1>14. CASE PostReply(d)
  <2>1. Kept
    BY <1>1, <1>4, <1>14 DEF PostReply, Running, Holding
  <2> QED BY <1>1, <1>2, <1>14, <2>1, SaidType DEF PostReply
<1>15. CASE Refresh(d)
  <2>1. CASE t.resolve
    <3> DEFINE u == [t EXCEPT !.pc = "resolving", !.seen = status]
    <3>1. disp' = [disp EXCEPT ![d] = u] /\ queue' = queue /\ t.pc = "posted"
      BY <1>15, <2>1 DEF Refresh
    <3>2. u \in Task /\ u.worker = t.worker /\ u.pc = "resolving"
      BY <1>1 DEF Task
    <3> HIDE DEF u
    <3>3. Known(u)
      BY <1>1, <3>1, <3>2 DEF Known, Running
    <3>4. Kept
      BY <1>1, <1>3, <3>1, <3>2, <3>3 DEF Holding
    <3> QED BY <1>1, <1>2, <1>15, <3>4 DEF Refresh
  <2>2. CASE ~t.resolve
    <3>1. Kept
      BY <1>1, <1>15, <2>2, EndStep DEF Refresh, Running, Holding
    <3> QED BY <1>1, <1>2, <1>15, <3>1 DEF Refresh
  <2> QED BY <2>1, <2>2
<1>16. CASE AutoResolve(d)
  <2>1. Kept
    BY <1>1, <1>4, <1>16 DEF AutoResolve, Running, Holding
  <2>2. status' \in Live \cup Terminal /\ resolved' \subseteq Dispatches
    BY <1>1, <1>16 DEF AutoResolve, Terminal
  <2> QED BY <1>1, <1>2, <1>16, <2>1, <2>2 DEF AutoResolve
<1>17. CASE Advance(d)
  <2>1. Kept
    BY <1>1, <1>17, EndStep DEF Advance, Running, Holding
  <2> QED BY <1>1, <1>2, <1>17, <2>1 DEF Advance
<1> QED BY <1>5, <1>6, <1>7, <1>8, <1>9, <1>10, <1>11, <1>12, <1>13, <1>14, <1>15, <1>16,
           <1>17 DEF Continue

\* What happens around the dispatcher.
LEMMA OutsideStep ==
  ASSUME TypeInv,
         \/ \E d \in Dispatches, w \in Workers : HumanMessage(d, w)
         \/ \E st \in Terminal : Close(st)
         \/ \E w \in Workers : Stop(w)
         \/ \E d \in Dispatches : Cut(d)
         \/ Block
  PROVE  TypeInv'
<1>1. ASSUME NEW d \in Dispatches, NEW w \in Workers, HumanMessage(d, w) PROVE TypeInv'
  <2> DEFINE u == [disp[d] EXCEPT !.pc = "stored", !.worker = w]
  <2>1. disp' = [disp EXCEPT ![d] = u] /\ queue' = queue
    BY <1>1 DEF HumanMessage
  <2>2. u \in Task /\ u.pc = "stored" /\ u.worker = w
    BY DEF TypeInv, TypeOK, Task
  <2> HIDE DEF u
  <2>3. Known(u)
    BY <2>2 DEF Known
  <2>4. KnownInv' /\ LockInv' /\ disp' \in [Dispatches -> Task]
        /\ queue' \in [Workers -> Seq(Dispatches)]
    BY <2>1, <2>2, <2>3, WorkStep DEF Holding
  <2>5. messages' \in Seq(Message)
    BY <1>1, SaidType DEF HumanMessage, TypeInv, TypeOK
  <2> QED BY <1>1, <2>4, <2>5 DEF HumanMessage, TypeInv, TypeOK, Live
<1>2. ASSUME NEW st \in Terminal, Close(st) PROVE TypeInv'
  BY <1>2 DEF Close, TypeInv, TypeOK, KnownInv, LockInv, HoldsLock
<1>3. ASSUME NEW w \in Workers, Stop(w) PROVE TypeInv'
  <2> DEFINE stops(d) == disp[d].worker = w /\ disp[d].pc \in Running
  <2>1. \A d \in Dispatches :
          disp'[d] = IF stops(d) THEN Ended(disp[d], "stopped") ELSE disp[d]
    BY <1>3 DEF Stop
  <2>2. queue' = [queue EXCEPT ![w] = <<>>]
    BY <1>3 DEF Stop
  <2>3. disp' \in [Dispatches -> Task]
    <3>1. \A d \in Dispatches : Ended(disp[d], "stopped") \in Task
      BY EndedType DEF TypeInv, TypeOK
    <3> QED BY <1>3, <3>1 DEF Stop, TypeInv, TypeOK
  <2>4. queue' \in [Workers -> Seq(Dispatches)]
    BY <2>2 DEF TypeInv, TypeOK
  <2>5. \A d \in Dispatches : disp'[d].pc \in Running => ~stops(d) /\ disp'[d] = disp[d]
    <3>1. \A d \in Dispatches : Ended(disp[d], "stopped").pc = "stopped"
      BY EndedType DEF TypeInv, TypeOK
    <3> QED BY <2>1, <3>1 DEF Running
  <2>6. KnownInv'
    BY <2>5 DEF TypeInv, KnownInv, Known, Running
  <2>7. LockInv'
    <3> SUFFICES ASSUME NEW d \in Dispatches, disp'[d].pc \in Holding
                 PROVE  HoldsLock(d)'
      BY DEF LockInv
    <3>1. ~stops(d) /\ disp'[d] = disp[d]
      BY <2>5 DEF Running, Holding
    <3>2. HoldsLock(d) /\ disp[d].worker \in Workers
      BY <3>1 DEF TypeInv, LockInv, KnownInv, Known, Running, Holding
    <3>3. disp[d].worker # w
      BY <3>1 DEF Running, Holding
    <3> QED BY <2>2, <3>1, <3>2, <3>3 DEF HoldsLock, TypeInv, TypeOK
  <2> QED BY <1>3, <2>3, <2>4, <2>6, <2>7 DEF Stop, TypeInv, TypeOK
<1>4. ASSUME NEW d \in Dispatches, Cut(d) PROVE TypeInv'
  <2> DEFINE u == Ended(disp[d], "cut")
  <2>1. disp' = [disp EXCEPT ![d] = u] /\ queue' = queue
    BY <1>4 DEF Cut
  <2>2. u \in Task /\ u.pc = "cut"
    BY EndedType DEF TypeInv, TypeOK
  <2> HIDE DEF u
  <2>3. Known(u)
    BY <2>2 DEF Known, Running
  <2>4. KnownInv' /\ LockInv' /\ disp' \in [Dispatches -> Task]
        /\ queue' \in [Workers -> Seq(Dispatches)]
    BY <2>1, <2>2, <2>3, WorkStep DEF Holding
  <2> QED BY <1>4, <2>4 DEF Cut, TypeInv, TypeOK
<1>5. CASE Block
  BY <1>5 DEF Block, TypeInv, TypeOK, KnownInv, LockInv, HoldsLock, Data
<1> QED BY <1>1, <1>2, <1>3, <1>4, <1>5

\* Every step of a dispatch, a client or a worker preserves it.
LEMMA TypeNext == TypeInv /\ [Next]_vars => TypeInv'
<1>1. ASSUME TypeInv, UNCHANGED vars PROVE TypeInv'
  BY <1>1 DEF vars, TypeInv, TypeOK, KnownInv, LockInv, HoldsLock
<1> QED BY <1>1, ContinueStep, OutsideStep DEF Next

\* With any number of workers every variable keeps its type, and a dispatch
\* that asks, patches or posts is the first of its worker's queue: a worker
\* runs at most one of a thread's dispatches (_get_thread_lock).
THEOREM TypeInvariant == Spec => []TypeInv
BY TypeInit, TypeNext, PTL DEF Spec

\* The types alone.
THEOREM TypeCorrect == Spec => []TypeOK
<1>1. TypeInv => TypeOK
  BY DEF TypeInv
<1> QED BY <1>1, TypeInvariant, PTL

\* With any number of workers a closed thread gets a reply, or its item a
\* patch, only from a dispatch that saw it live when its agent had answered.
THEOREM LateWritesWereLive == Spec => LateWritesAreStale
<1> DEFINE A == \A d \in Dispatches :
                  (/\ status \in Terminal
                   /\ \/ disp[d].pc = "patched" /\ disp'[d].pc = "posting"
                      \/ disp[d].pc = "posting" /\ disp'[d].pc = "posted")
                  => disp[d].seen \in Live
<1>1. TypeInv => [A]_vars
  BY DEF TypeInv, KnownInv, Known
<1> QED BY <1>1, TypeInvariant, PTL DEF LateWritesAreStale

-----------------------------------------------------------------------------
(* What a step changes.                                                    *)

\* The places of a dispatch before its check of the turns, and those past it.
Before == {"idle", "stored", "queued"}
Asking == {"thinking", "patching", "patched", "posting"}

\* A dispatch goes on, or stays where it is, with the history it has read.
Moves(d) ==
  /\ disp'[d].ctx = disp[d].ctx
  /\ disp'[d].pc \in Holding => disp[d].pc \in Holding
  /\ disp'[d].pc \in Asking => disp[d].pc \in Asking
  /\ disp'[d].pc \in Before => disp[d].pc \in Before
  /\ disp'[d].pc = "patched" => disp[d].pc = "patched" /\ disp'[d].base = disp[d].base

\* A message comes from a dispatch at the place where its role is written.
Writes(d, role) ==
  \/ role = "human" /\ disp[d].pc = "idle"
  \/ role = "system" /\ disp[d].pc = "queued" /\ HoldsLock(d) /\ disp'[d].pc = "done"
  \/ role = "interim" /\ disp[d].pc = "thinking"
  \/ role = "agent" /\ disp[d].pc = "posting" /\ disp'[d].pc = "posted"

\* A dispatch that ends goes on.
LEMMA EndMoves ==
  ASSUME TypeInv, NEW d \in Dispatches, NEW outcome \in {"done", "failed"},
         End(d, outcome), NEW e \in Dispatches
  PROVE  Moves(e) /\ (e # d => disp'[e] = disp[e]) /\ disp'[d].pc = outcome
<1>1. /\ Ended(disp[d], outcome).pc = outcome
      /\ Ended(disp[d], outcome).ctx = disp[d].ctx
      /\ disp' = [disp EXCEPT ![d] = Ended(disp[d], outcome)]
  BY EndedType DEF TypeInv, TypeOK, End
<1> QED BY <1>1 DEF Moves, Holding, Before, Asking, TypeInv, TypeOK

\* Every dispatch goes on, asks its agent or reads the item.
LEMMA TasksMove ==
  ASSUME TypeInv, [Next]_vars, NEW e \in Dispatches
  PROVE  Moves(e) \/ Ask(e) \/ ReadItem(e)
<1> USE DEF Moves, Holding, Before, Asking
<1>1. disp \in [Dispatches -> Task]
  BY DEF TypeInv, TypeOK
<1>2. ASSUME NEW d \in Dispatches, Continue(d), ~Ask(d), ~ReadItem(d) PROVE Moves(e)
  <2>1. CASE \E outcome \in {"done", "failed"} : End(d, outcome)
    BY <2>1, EndMoves
  <2>2. CASE Schedule(d)
    BY <1>1, <2>2 DEF Schedule, Becomes, Task
  <2>3. CASE UseTools(d)
    BY <1>1, <2>3 DEF UseTools, Task
  <2>4. ASSUME NEW patch \in Patch, NEW resolve \in BOOLEAN, Answer(d, patch, resolve)
        PROVE  Moves(e)
    <3>1. CASE status \in Terminal
      BY <2>1, <2>4, <3>1 DEF Answer
    <3>2. CASE status \notin Terminal
      BY <1>1, <2>4, <3>2 DEF Answer, Task
    <3> QED BY <3>1, <3>2
  <2>5. CASE CommitPatch(d)
    BY <1>1, <2>5 DEF CommitPatch, Task
  <2>6. CASE PostReply(d)
    BY <1>1, <2>6 DEF PostReply, Becomes, Task
  <2>7. CASE Refresh(d)
    <3>1. CASE disp[d].resolve
      BY <1>1, <2>7, <3>1 DEF Refresh, Task
    <3>2. CASE ~disp[d].resolve
      BY <2>1, <2>7, <3>2 DEF Refresh
    <3> QED BY <3>1, <3>2
  <2>8. CASE AutoResolve(d)
    BY <1>1, <2>8 DEF AutoResolve, Becomes, Task
  <2>9. FindClosed(d) \/ Refuse(d) \/ Fail(d) \/ Advance(d) =>
          \E outcome \in {"done", "failed"} : End(d, outcome)
    BY DEF FindClosed, Refuse, Fail, Advance
  <2> QED BY <1>2, <2>1, <2>2, <2>3, <2>4, <2>5, <2>6, <2>7, <2>8, <2>9 DEF Continue
<1>3. ASSUME NEW d \in Dispatches, NEW w \in Workers, HumanMessage(d, w) PROVE Moves(e)
  BY <1>1, <1>3 DEF HumanMessage, Task
<1>4. ASSUME NEW w \in Workers, Stop(w) PROVE Moves(e)
  <2>1. /\ Ended(disp[e], "stopped").pc = "stopped"
        /\ Ended(disp[e], "stopped").ctx = disp[e].ctx
    BY <1>1, EndedType
  <2>2. disp'[e] \in {Ended(disp[e], "stopped"), disp[e]}
    BY <1>4 DEF Stop
  <2> QED BY <2>1, <2>2
<1>8. ASSUME NEW d \in Dispatches, Cut(d) PROVE Moves(e)
  <2>1. Ended(disp[d], "cut").pc = "cut" /\ Ended(disp[d], "cut").ctx = disp[d].ctx
    BY <1>1, EndedType
  <2> QED BY <1>1, <1>8, <2>1 DEF Cut
<1>5. ASSUME disp' = disp PROVE Moves(e)
  BY <1>5
<1>6. (\E st \in Terminal : Close(st)) \/ Block \/ UNCHANGED vars => disp' = disp
  BY DEF Close, Block, vars
<1>7. ASSUME NEW d \in Dispatches, Ask(d) \/ ReadItem(d), d # e PROVE Moves(e)
  BY <1>1, <1>7 DEF Ask, ReadItem
<1> QED BY <1>2, <1>3, <1>4, <1>5, <1>6, <1>7, <1>8 DEF Next

\* A step writes at most one message.
LEMMA MessagesGrow ==
  ASSUME TypeInv, [Next]_vars
  PROVE  \/ messages' = messages
         \/ \E d \in Dispatches, role \in {"human", "agent", "interim", "system"} :
              Said(d, role) /\ Writes(d, role)
<1>1. ASSUME NEW d \in Dispatches, Continue(d)
      PROVE  \/ messages' = messages
             \/ \E role \in {"agent", "interim", "system"} : Said(d, role) /\ Writes(d, role)
  <2>1. CASE Refuse(d)
    BY <2>1, EndMoves DEF Refuse, Writes
  <2>2. CASE UseTools(d)
    BY <2>2 DEF UseTools, Writes
  <2>3. CASE PostReply(d)
    <3>1. disp'[d].pc = "posted"
      BY <2>3 DEF PostReply, Becomes, TypeInv, TypeOK, Task
    <3> QED BY <2>3, <3>1 DEF PostReply, Writes
  <2> QED BY <1>1, <2>1, <2>2, <2>3
      DEF Continue, Schedule, FindClosed, Ask, Fail, ReadItem, CommitPatch, Refresh,
          AutoResolve, Advance, Answer
<1>2. ASSUME NEW d \in Dispatches, NEW w \in Workers, HumanMessage(d, w)
      PROVE  Said(d, "human") /\ Writes(d, "human")
  BY <1>2 DEF HumanMessage, Writes
<1>3. (\E st \in Terminal : Close(st)) \/ (\E w \in Workers : Stop(w)) \/ Block
        \/ (\E d \in Dispatches : Cut(d)) \/ UNCHANGED vars => messages' = messages
  BY DEF Close, Stop, Block, Cut, vars
<1> QED BY <1>1, <1>2, <1>3 DEF Next

\* The patched values of the item change only when a dispatch commits a patch.
LEMMA ItemChanges ==
  ASSUME TypeInv, [Next]_vars
  PROVE  \/ item'.top = item.top /\ item'.sub = item.sub
         \/ \E d \in Dispatches : CommitPatch(d)
<1>1. ASSUME NEW d \in Dispatches, Continue(d), ~CommitPatch(d) PROVE item' = item
  BY <1>1 DEF Continue, Schedule, FindClosed, Refuse, Ask, UseTools, Fail, ReadItem,
              PostReply, Refresh, AutoResolve, Advance, Answer
<1>2. CASE Block
  BY <1>2 DEF Block, TypeInv, TypeOK, Data
<1>3. (\E d \in Dispatches, w \in Workers : HumanMessage(d, w))
        \/ (\E st \in Terminal : Close(st)) \/ (\E w \in Workers : Stop(w))
        \/ (\E d \in Dispatches : Cut(d)) \/ UNCHANGED vars => item' = item
  BY DEF HumanMessage, Close, Stop, Cut, vars
<1> QED BY <1>1, <1>2, <1>3 DEF Next

-----------------------------------------------------------------------------
(* A single worker.                                                        *)

\* The deployment whose promises hold: one process serves the chats.
OneWorker == \A v, w \in Workers : v = w

\* The replies Turns counts.
Counted(log) == {i \in DOMAIN log : /\ log[i].role = "agent"
                                    /\ \A j \in i..Len(log) : log[j].role # "human"}

\* Turns starts again with a human's message and grows with a reply.
LEMMA TurnsAppend ==
  ASSUME NEW log \in Seq(Message), NEW m \in Message
  PROVE  /\ Turns(log) \in Nat
         /\ m.role = "human" => Turns(Append(log, m)) = 0
         /\ m.role \in {"interim", "system"} => Turns(Append(log, m)) = Turns(log)
         /\ m.role = "agent" => Turns(Append(log, m)) = Turns(log) + 1
<1> DEFINE new == Append(log, m)
           n == Len(log) + 1
<1>1. /\ Len(log) \in Nat /\ DOMAIN log = 1..Len(log) /\ DOMAIN new = 1..n /\ Len(new) = n
      /\ new[n] = m /\ \A i \in 1..Len(log) : new[i] = log[i]
  OBVIOUS
<1>2. Turns(log) = Cardinality(Counted(log)) /\ Turns(new) = Cardinality(Counted(new))
  BY DEF Turns, Counted
<1>3. IsFiniteSet(Counted(log)) /\ Turns(log) \in Nat
  <2>4. 1 \in Int /\ Len(log) \in Int
    BY <1>1
  <2>1. IsFiniteSet(1..Len(log))
    BY <2>4, FS_Interval, Zenon
  <2>2. Counted(log) \in SUBSET (1..Len(log))
    BY <1>1 DEF Counted
  <2>3. IsFiniteSet(Counted(log))
    BY <2>1, <2>2, FS_Subset
  <2> QED BY <1>2, <2>3, FS_CardinalityType
<1> HIDE DEF new
<1>4. CASE m.role = "human"
  <2>1. \A i \in 1..n : n \in i..n
    BY <1>1
  <2>2. Counted(new) = {}
    BY <1>1, <1>4, <2>1 DEF Counted
  <2>3. Turns(new) = 0
    BY <1>2, <2>2, FS_EmptySet
  <2> QED BY <1>3, <1>4, <2>3 DEF new
<1>5. CASE m.role # "human"
  <2>1. ASSUME NEW i \in 1..Len(log) PROVE i \in Counted(new) <=> i \in Counted(log)
    <3>1. i..n = (i..Len(log)) \cup {n} /\ \A j \in i..Len(log) : j \in 1..Len(log)
      BY <1>1
    <3>2. (\A j \in i..n : new[j].role # "human") <=>
            (\A j \in i..Len(log) : log[j].role # "human")
      BY <1>1, <1>5, <3>1
    <3> QED BY <1>1, <3>2 DEF Counted
  <2>2. n \in Counted(new) <=> m.role = "agent"
    <3>1. \A j \in n..n : j = n
      BY <1>1
    <3> QED BY <1>1, <1>5, <3>1 DEF Counted
  <2>3. /\ \A i \in Counted(new) : i \in 1..Len(log) \/ i = n
        /\ \A i \in Counted(log) : i \in 1..Len(log)
        /\ n \notin 1..Len(log)
    BY <1>1 DEF Counted
  <2>4. CASE m.role = "agent"
    <3>1. Counted(new) = Counted(log) \cup {n} /\ n \notin Counted(log)
      BY <2>1, <2>2, <2>3, <2>4
    <3>2. Turns(new) = Turns(log) + 1
      BY <1>2, <1>3, <3>1, FS_AddElement
    <3> QED BY <1>3, <2>4, <3>2 DEF new
  <2>5. CASE m.role # "agent"
    <3>1. Counted(new) = Counted(log)
      BY <2>1, <2>2, <2>3, <2>5
    <3>2. Turns(new) = Turns(log)
      BY <1>2, <3>1
    <3> QED BY <1>3, <1>5, <2>5, <3>2 DEF new
  <2> QED BY <2>4, <2>5
<1> QED BY <1>4, <1>5

\* What a dispatch inside the block may count on: it has read every message of
\* the others but the humans', the item as it is, and a turn is left.
ReadInv ==
  \A d \in Dispatches : disp[d].pc \in Holding =>
    \A j \in DOMAIN messages :
      messages[j].role # "human" /\ messages[j].by # d => j <= disp[d].ctx
\* The reply of a dispatch is not stored before it has been asked for.
RepliedInv ==
  \A i \in DOMAIN messages : messages[i].role = "agent" =>
    disp[messages[i].by].pc \notin Before
\* Past its check a dispatch has a turn left.
TurnInv ==
  \A d \in Dispatches : disp[d].pc \in Asking => Turns(messages) < MaxTurns
\* A dispatch about to post its patch read the row its patch was made on.
BaseInv ==
  \A d \in Dispatches : disp[d].pc = "patched" =>
    disp[d].base.top = item.top /\ disp[d].base.sub = item.sub

\* The inductive invariant of a single worker.
WorkerInv == /\ TypeInv /\ ReadInv /\ RepliedInv /\ TurnInv /\ BaseInv
             /\ HistoryIsFull /\ TurnsAreCapped

\* With a single worker no two dispatches are inside.
LEMMA OneInside ==
  ASSUME OneWorker, TypeInv, NEW d \in Dispatches, NEW e \in Dispatches,
         disp[d].pc \in Holding,
         disp[e].pc \in Holding \/ (disp[e].pc \in Running /\ HoldsLock(e))
  PROVE  e = d
<1>1. disp[d].worker \in Workers /\ disp[e].worker \in Workers
  BY DEF TypeInv, KnownInv, Known, Running, Holding
<1> QED BY <1>1 DEF OneWorker, TypeInv, LockInv, HoldsLock

\* Who writes anything but a human's message is inside, so that nobody else is.
LEMMA WriterAlone ==
  ASSUME OneWorker, TypeInv, NEW d \in Dispatches, disp[d].pc \in Holding,
         NEW e \in Dispatches, NEW role, role # "human", Writes(e, role)
  PROVE  e = d
BY OneInside DEF Writes, Running, Holding

\* A message is added at the end.
LEMMA SaidShape ==
  ASSUME messages \in Seq(Message), NEW d \in Dispatches,
         NEW role \in {"human", "agent", "interim", "system"}, Said(d, role)
  PROVE  LET n == Len(messages) + 1
             m == [role |-> role, by |-> d]
         IN /\ Len(messages) \in Nat /\ DOMAIN messages = 1..Len(messages)
            /\ m \in Message /\ m.role = role /\ m.by = d
            /\ messages' = Append(messages, m) /\ DOMAIN messages' = 1..n
            /\ messages'[n].role = role /\ messages'[n].by = d
            /\ \A i \in 1..Len(messages) : messages'[i] = messages[i]
BY DEF Said, Message

-----------------------------------------------------------------------------
(* Each part of WorkerInv is kept.                                         *)

\* At first nothing has been said.
LEMMA WorkerInit == Init => WorkerInv
<1> SUFFICES ASSUME Init PROVE WorkerInv
  OBVIOUS
<1>1. messages = <<>> /\ DOMAIN messages = {}
  <2>1. DOMAIN << >> = {}
    OBVIOUS
  <2> QED BY <2>1 DEF Init
<1>2. \A d \in Dispatches : disp[d].pc = "idle"
  BY IdleType DEF Init
<1>3. Turns(messages) = 0
  <2>1. Turns(messages) = Cardinality(Counted(messages)) /\ Counted(messages) = {}
    BY <1>1 DEF Turns, Counted
  <2> QED BY <2>1, FS_EmptySet
<1>4. ReadInv /\ RepliedInv /\ TurnInv /\ BaseInv /\ HistoryIsFull
  BY <1>1, <1>2 DEF ReadInv, RepliedInv, TurnInv, BaseInv, HistoryIsFull, Holding, Asking
<1>5. TurnsAreCapped
  BY <1>3, BoundsAssumption DEF TurnsAreCapped
<1> QED BY <1>4, <1>5, TypeInit DEF WorkerInv

\* Who asks reads every message there is.
LEMMA AskReads ==
  ASSUME TypeInv, NEW d \in Dispatches, Ask(d)
  PROVE  /\ disp[d].pc = "queued" /\ HoldsLock(d) /\ Turns(messages) < MaxTurns
         /\ disp'[d].ctx = Len(messages) /\ disp'[d].pc = "thinking"
         /\ messages' = messages
BY DEF Ask, TypeInv, TypeOK, Task

\* ... and who reads the item takes it as it is.
LEMMA ReadTakes ==
  ASSUME TypeInv, NEW d \in Dispatches, ReadItem(d)
  PROVE  /\ disp[d].pc = "patching" /\ disp'[d].pc = "patched" /\ disp'[d].base = item
         /\ disp'[d].ctx = disp[d].ctx /\ item' = item /\ messages' = messages
BY DEF ReadItem, TypeInv, TypeOK, Task

\* A dispatch inside has read whatever the others' replies, refusals and
\* interim messages say: they were posted before it came in.
LEMMA ReadStep ==
  ASSUME OneWorker, TypeInv, ReadInv, [Next]_vars
  PROVE  ReadInv'
<1> SUFFICES ASSUME NEW d \in Dispatches, disp'[d].pc \in Holding,
                    NEW j \in DOMAIN messages',
                    messages'[j].role # "human", messages'[j].by # d
             PROVE  j <= disp'[d].ctx
  BY DEF ReadInv
<1>1. messages \in Seq(Message)
  BY DEF TypeInv, TypeOK
<1>2. CASE Ask(d)
  BY <1>1, <1>2, AskReads
<1>3. CASE ~Ask(d)
  <2>1. disp[d].pc \in Holding /\ disp'[d].ctx = disp[d].ctx
    BY <1>3, TasksMove, ReadTakes DEF Moves, Holding
  <2>2. CASE messages' = messages
    BY <2>1, <2>2 DEF ReadInv
  <2>3. ASSUME NEW e \in Dispatches, NEW role \in {"human", "agent", "interim", "system"},
               Said(e, role), Writes(e, role)
        PROVE  j <= disp'[d].ctx
    <3>1. DOMAIN messages = 1..Len(messages) /\ DOMAIN messages' = 1..(Len(messages) + 1)
          /\ Len(messages) \in Nat /\ messages'[Len(messages) + 1].role = role
          /\ messages'[Len(messages) + 1].by = e
          /\ \A i \in 1..Len(messages) : messages'[i] = messages[i]
      BY <1>1, <2>3, SaidShape
    <3>2. CASE j \in DOMAIN messages
      BY <2>1, <3>1, <3>2 DEF ReadInv
    <3>3. CASE j \notin DOMAIN messages
      <4>1. j = Len(messages) + 1
        BY <3>1, <3>3
      <4>2. e = d
        BY <2>1, <2>3, <3>1, <4>1, WriterAlone
      <4> QED BY <3>1, <4>1, <4>2
    <3> QED BY <3>2, <3>3
  <2> QED BY <2>2, <2>3, MessagesGrow
<1> QED BY <1>2, <1>3

\* Whoever has replied is past its place in the queue.
LEMMA RepliedStep ==
  ASSUME TypeInv, RepliedInv, [Next]_vars
  PROVE  RepliedInv'
<1> SUFFICES ASSUME NEW i \in DOMAIN messages', messages'[i].role = "agent"
             PROVE  disp'[messages'[i].by].pc \notin Before
  BY DEF RepliedInv
<1>1. messages \in Seq(Message)
  BY DEF TypeInv, TypeOK
<1>2. ASSUME NEW k \in DOMAIN messages, messages[k].role = "agent"
      PROVE  disp'[messages[k].by].pc \notin Before
  <2>1. messages[k] \in Message
    BY <1>1
  <2>2. messages[k].by \in Dispatches /\ disp[messages[k].by].pc \notin Before
    BY <1>2, <2>1 DEF RepliedInv, Message
  <2> QED BY <2>2, TasksMove, AskReads, ReadTakes DEF Moves, Before
<1>3. CASE messages' = messages
  BY <1>2, <1>3
<1>4. ASSUME NEW e \in Dispatches, NEW role \in {"human", "agent", "interim", "system"},
             Said(e, role), Writes(e, role)
      PROVE  disp'[messages'[i].by].pc \notin Before
  <2>1. DOMAIN messages = 1..Len(messages) /\ DOMAIN messages' = 1..(Len(messages) + 1)
        /\ Len(messages) \in Nat /\ messages'[Len(messages) + 1].role = role
        /\ messages'[Len(messages) + 1].by = e
        /\ \A k \in 1..Len(messages) : messages'[k] = messages[k]
    BY <1>1, <1>4, SaidShape
  <2>2. CASE i \in DOMAIN messages
    BY <1>2, <2>1, <2>2
  <2>3. CASE i \notin DOMAIN messages
    <3>1. i = Len(messages) + 1
      BY <2>1, <2>3
    <3>2. role = "agent" /\ messages'[i].by = e
      BY <2>1, <3>1
    <3> QED BY <1>4, <3>2 DEF Writes, Before
  <2> QED BY <2>2, <2>3
<1> QED BY <1>3, <1>4, MessagesGrow

\* Whoever replies had read what the others said, and reads no more.
LEMMA HistoryStep ==
  ASSUME OneWorker, TypeInv, ReadInv, RepliedInv, HistoryIsFull, [Next]_vars
  PROVE  HistoryIsFull'
<1> SUFFICES ASSUME NEW i \in DOMAIN messages', messages'[i].role = "agent",
                    NEW j \in 1..(i - 1),
                    messages'[j].role # "human", messages'[j].by # messages'[i].by
             PROVE  j <= disp'[messages'[i].by].ctx
  BY DEF HistoryIsFull
<1>1. messages \in Seq(Message)
  BY DEF TypeInv, TypeOK
<1>2. ASSUME NEW k \in DOMAIN messages, messages[k].role = "agent",
             j \in 1..(k - 1),
             messages[j].role # "human", messages[j].by # messages[k].by
      PROVE  j <= disp'[messages[k].by].ctx
  <2> DEFINE d == messages[k].by
  <2>1. messages[k] \in Message
    BY <1>1
  <2>2. d \in Dispatches /\ disp[d].pc \notin Before
    BY <1>2, <2>1 DEF Message, RepliedInv
  <2>3. j <= disp[d].ctx
    BY <1>2 DEF HistoryIsFull
  <2>4. disp'[d].ctx = disp[d].ctx
    BY <2>2, TasksMove, AskReads, ReadTakes DEF Moves, Before
  <2> QED BY <2>3, <2>4
<1>3. CASE messages' = messages
  BY <1>2, <1>3
<1>4. ASSUME NEW e \in Dispatches, NEW role \in {"human", "agent", "interim", "system"},
             Said(e, role), Writes(e, role)
      PROVE  j <= disp'[messages'[i].by].ctx
  <2>1. DOMAIN messages = 1..Len(messages) /\ DOMAIN messages' = 1..(Len(messages) + 1)
        /\ Len(messages) \in Nat /\ messages'[Len(messages) + 1].role = role
        /\ messages'[Len(messages) + 1].by = e
        /\ \A k \in 1..Len(messages) : messages'[k] = messages[k]
    BY <1>1, <1>4, SaidShape
  <2>2. j \in DOMAIN messages /\ messages'[j] = messages[j]
    BY <2>1
  <2>3. CASE i \in DOMAIN messages
    BY <1>2, <2>1, <2>2, <2>3
  <2>4. CASE i \notin DOMAIN messages
    <3>1. i = Len(messages) + 1
      BY <2>1, <2>4
    <3>2. role = "agent" /\ messages'[i].by = e
      BY <2>1, <3>1
    <3>3. disp[e].pc = "posting" /\ disp'[e].pc = "posted"
      BY <1>4, <3>2 DEF Writes
    <3>4. j <= disp[e].ctx
      BY <2>2, <3>2, <3>3 DEF ReadInv, Holding
    <3>5. disp'[e].ctx = disp[e].ctx
      BY <3>3, TasksMove, AskReads, ReadTakes DEF Moves
    <3> QED BY <3>2, <3>4, <3>5
  <2> QED BY <2>3, <2>4
<1> QED BY <1>3, <1>4, MessagesGrow

\* A dispatch that has asked keeps its turn until it replies, and no other
\* can take it.
LEMMA TurnStep ==
  ASSUME OneWorker, TypeInv, TurnInv, TurnsAreCapped, [Next]_vars
  PROVE  TurnInv' /\ TurnsAreCapped'
<1>1. messages \in Seq(Message) /\ Turns(messages) \in Nat /\ MaxTurns \in Nat
  <2>1. messages \in Seq(Message)
    BY DEF TypeInv, TypeOK
  <2>2. Turns(messages) \in Nat
    <3>1. CASE Dispatches = {}
      <4>1. Len(messages) = 0
        <5>1. Len(messages) \in Nat /\ \A i \in 1..Len(messages) : messages[i] \in Message
          BY <2>1
        <5> QED BY <3>1, <5>1 DEF Message
      <4>2. DOMAIN messages = {}
        BY <2>1, <4>1
      <4>3. Turns(messages) = Cardinality(Counted(messages)) /\ Counted(messages) = {}
        BY <4>2 DEF Turns, Counted
      <4> QED BY <4>3, FS_EmptySet
    <3>2. ASSUME NEW d \in Dispatches PROVE Turns(messages) \in Nat
      <4>1. [role |-> "human", by |-> d] \in Message
        BY DEF Message
      <4> QED BY <2>1, <4>1, TurnsAppend
    <3> QED BY <3>1, <3>2
  <2> QED BY <2>1, <2>2, BoundsAssumption
<1>2. ASSUME NEW d \in Dispatches, disp'[d].pc \in Asking
      PROVE  Turns(messages) < MaxTurns
             /\ (disp[d].pc \in Asking \/ (messages' = messages /\ disp[d].pc = "queued"))
  BY <1>2, TasksMove, AskReads, ReadTakes DEF Moves, Asking, TurnInv
<1>3. CASE messages' = messages
  BY <1>2, <1>3 DEF TurnInv, TurnsAreCapped
<1>4. ASSUME NEW e \in Dispatches, NEW role \in {"human", "agent", "interim", "system"},
             Said(e, role), Writes(e, role)
      PROVE  TurnInv' /\ TurnsAreCapped'
  <2> DEFINE m == [role |-> role, by |-> e]
  <2>1. m \in Message /\ m.role = role /\ messages' = Append(messages, m)
    BY <1>4 DEF Said, Message
  <2> HIDE DEF m
  <2>2. Turns(messages)' = Turns(messages')
    BY DEF Turns
  <2>3. CASE role = "human"
    <3>1. Turns(messages') = 0
      BY <1>1, <2>1, <2>3, TurnsAppend
    <3> QED BY <1>1, <1>2, <2>2, <3>1 DEF TurnInv, TurnsAreCapped
  <2>4. CASE role \in {"interim", "system"}
    <3>1. Turns(messages') = Turns(messages)
      BY <1>1, <2>1, <2>4, TurnsAppend
    <3> QED BY <1>1, <1>2, <2>2, <3>1 DEF TurnInv, TurnsAreCapped
  <2>5. CASE role = "agent"
    <3>1. Turns(messages') = Turns(messages) + 1
      BY <1>1, <2>1, <2>5, TurnsAppend
    <3>2. disp[e].pc = "posting" /\ disp'[e].pc = "posted"
      BY <1>4, <2>5 DEF Writes
    <3>3. Turns(messages) < MaxTurns
      BY <3>2 DEF TurnInv, Asking
    <3>4. messages' # messages
      BY <1>1, <3>1
    <3>5. \A d \in Dispatches : disp'[d].pc \notin Asking
      <4> SUFFICES ASSUME NEW d \in Dispatches, disp'[d].pc \in Asking PROVE FALSE
        OBVIOUS
      <4>1. disp[d].pc \in Asking
        BY <1>2, <3>4
      <4>2. d = e
        BY <3>2, <4>1, OneInside DEF Asking, Holding
      <4> QED BY <3>2, <4>2 DEF Asking
    <3> QED BY <1>1, <2>2, <3>1, <3>3, <3>5 DEF TurnInv, TurnsAreCapped
  <2> QED BY <2>3, <2>4, <2>5
<1> QED BY <1>3, <1>4, MessagesGrow

\* The item keeps the values a dispatch has read until it writes them back.
LEMMA BaseStep ==
  ASSUME OneWorker, TypeInv, BaseInv, [Next]_vars
  PROVE  BaseInv' /\ item.top \subseteq item'.top /\ item.sub \subseteq item'.sub
<1>1. ASSUME NEW e \in Dispatches, CommitPatch(e)
      PROVE  /\ disp[e].pc = "patched" /\ disp'[e].pc = "posting"
             /\ item.top \subseteq item'.top /\ item.sub \subseteq item'.sub
  <2>1. disp[e] \in Task /\ disp[e].pc = "patched" /\ disp[e].patch # None
    BY <1>1 DEF CommitPatch, TypeInv, TypeOK, KnownInv, Known
  <2>2. disp'[e].pc = "posting"
    BY <1>1 DEF CommitPatch, TypeInv, TypeOK, Task
  <2>3. disp[e].base.top = item.top /\ disp[e].base.sub = item.sub
    BY <2>1 DEF BaseInv
  <2>4. disp[e].base \in Data /\ disp[e].patch \in Patch
    BY <2>1 DEF Task
  <2>5. item' \in {item, Patched(disp[e].base, disp[e].patch)}
    BY <1>1 DEF CommitPatch
  <2> QED BY <2>1, <2>2, <2>3, <2>4, <2>5, PatchedType
<1>2. item.top \subseteq item'.top /\ item.sub \subseteq item'.sub
  BY <1>1, ItemChanges
<1>3. BaseInv'
  <2> SUFFICES ASSUME NEW d \in Dispatches, disp'[d].pc = "patched"
               PROVE  disp'[d].base.top = item'.top /\ disp'[d].base.sub = item'.sub
    BY DEF BaseInv
  <2>1. CASE ReadItem(d)
    BY <2>1, ReadTakes
  <2>2. CASE ~ReadItem(d)
    <3>1. disp[d].pc = "patched" /\ disp'[d].base = disp[d].base
      BY <2>2, TasksMove, AskReads DEF Moves
    <3>2. ASSUME NEW e \in Dispatches, CommitPatch(e) PROVE FALSE
      <4>1. disp[e].pc = "patched" /\ disp'[e].pc = "posting"
        BY <1>1, <3>2
      <4>2. e = d
        BY <3>1, <4>1, OneInside DEF Holding
      <4> QED BY <4>1, <4>2
    <3> QED BY <3>1, <3>2, ItemChanges DEF BaseInv
  <2> QED BY <2>1, <2>2
<1> QED BY <1>2, <1>3

\* WorkerInv is inductive.
LEMMA WorkerNext ==
  ASSUME OneWorker, WorkerInv, [Next]_vars
  PROVE  WorkerInv'
BY TypeNext, ReadStep, RepliedStep, HistoryStep, TurnStep, BaseStep DEF WorkerInv

\* The invariant of a single worker.
THEOREM WorkerInvariant ==
  ASSUME OneWorker
  PROVE  Spec => []WorkerInv
<1>1. WorkerInv /\ [Next]_vars => WorkerInv'
  BY WorkerNext
<1> QED BY <1>1, WorkerInit, PTL DEF Spec

\* With a single worker an agent that replies had read every message of the
\* others except humans' (chat_dispatcher.py:24-26), for any number of
\* dispatches, rounds and restarts.
THEOREM RepliesSawHistory ==
  ASSUME OneWorker
  PROVE  Spec => []HistoryIsFull
<1>1. WorkerInv => HistoryIsFull
  BY DEF WorkerInv
<1> QED BY <1>1, WorkerInvariant, PTL

\* With a single worker the agent never takes more than MAX_AGENT_TURNS turns
\* after a human's message.
THEOREM TurnsStayCapped ==
  ASSUME OneWorker
  PROVE  Spec => []TurnsAreCapped
<1>1. WorkerInv => TurnsAreCapped
  BY DEF WorkerInv
<1> QED BY <1>1, WorkerInvariant, PTL

\* With a single worker no patch of the item is lost to another dispatch's
\* (_apply_patches_to_item reads, and writes the whole copy back).
THEOREM PatchesSurvive ==
  ASSUME OneWorker
  PROVE  Spec => PatchesAccumulate
<1>1. WorkerInv /\ [Next]_vars => item.top \subseteq item'.top /\ item.sub \subseteq item'.sub
  BY BaseStep DEF WorkerInv
<1>2. WorkerInv /\ [Next]_vars => [item.top \subseteq item'.top /\ item.sub \subseteq item'.sub]_vars
  BY <1>1
<1> QED BY <1>2, WorkerInvariant, PTL DEF Spec, PatchesAccumulate
=============================================================================
