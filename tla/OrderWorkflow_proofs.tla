------------------------ MODULE OrderWorkflow_proofs ------------------------
(***************************************************************************)
(* Proofs about OrderWorkflow for any items, places of the semaphore and   *)
(* attempts: its types and the bound of the semaphore, that no item is     *)
(* given up without a thread, and that the states written for an item      *)
(* follow STATE_TRANSITIONS.                                               *)
(***************************************************************************)
EXTENDS OrderWorkflow, FiniteSetTheorems, TLAPS

\* Nothing in the payload ever makes an activity look at an item: intake
\* leaves the class alone, and no later step adds a text, rows or fused items.
Blank(p) == p.text = FALSE /\ p.rows = FALSE /\ p.fused = [i \in Items |-> None]

\* The answer of step k, and the state written last when step k is reached.
Follows(k, out) ==
  /\ Blank(out.data)
  /\ out.state = Forward[k + 1] \/ (k = 1 /\ out.state = "HUMAN_BLOCKED")
At(k, st) == st = Forward[k] \/ (k = 2 /\ st = "HUMAN_BLOCKED")

\* The coroutines, with the steps and attempts they can be at.
Tasks  == [pc : {"queued", "run", "escalate", "asked", "wait", "persist",
                 "succeeded", "failed"},
           step : PipelineSteps, tries : 0..(MaxAttempts - 1), out : Output \cup {None},
           payload : Payload]

\* Of one item: what its coroutine t carries, and what has been done for it.
Sound(t, st, hasThread) ==
  /\ Blank(t.payload)
  /\ t.out # None => Follows(t.step, t.out)
  /\ t.pc \in {"persist", "wait"} => t.out # None
  /\ t.pc \in {"asked", "wait", "failed"} => hasThread
  /\ t.pc \notin {"succeeded", "failed"} => At(t.step, st)

\* The inductive invariant.
Inv ==
  /\ wf \in {"running", "completed", "failed"}
  /\ task \in [Items -> Tasks]
  /\ itemState \in [Items -> WorkflowStates \cup {None}]
  /\ event \in [Items -> {"absent", "unset", "set"}]
  /\ persisted \in [Items -> WorkflowStates]
  /\ asked \subseteq Items /\ signalled \subseteq asked
  /\ IsFiniteSet(Holding) /\ Cardinality(Holding) <= Concurrency
  /\ \A i \in Items : Sound(task[i], persisted[i], i \in asked)

-----------------------------------------------------------------------------
(* The activities.                                                         *)

\* The payload an item starts with.
LEMMA BlankNoPayload == NoPayload \in Payload /\ Blank(NoPayload)
BY DEF NoPayload, Payload, Blank

\* The states the workflow writes.
LEMMA ForwardStates ==
  /\ \A k \in 1..8 : Forward[k] \in WorkflowStates
  /\ \A k \in 2..8 : Forward[k] \in NewStates
  /\ NewStates \subseteq WorkflowStates
<1>1. \A k \in 1..8 : Forward[k] \in WorkflowStates
  BY DEF WorkflowStates
<1>2. \A k \in 2..8 : Forward[k] \in NewStates
  BY DEF Forward, NewStates
<1>3. ASSUME NEW st \in NewStates, st \notin {"HUMAN_BLOCKED", "FAILED"}
      PROVE  \E k \in 1..8 : st = Forward[k]
  <2>1. /\ Forward[2] = "INTAKE_CLASSIFIED" /\ Forward[3] = "PARSED" /\ Forward[4] = "FUSED"
        /\ Forward[5] = "COMPLIANCE_EVAL" /\ Forward[6] = "DRAWING_GENERATED"
        /\ Forward[7] = "COMPOSED" /\ Forward[8] = "VALIDATED"
    BY DEF Forward
  <2> HIDE DEF Forward
  <2> QED BY <1>3, <2>1 DEF NewStates
<1>4. NewStates \subseteq WorkflowStates
  BY <1>3 DEF WorkflowStates
<1> QED BY <1>1, <1>2, <1>4

\* An activity that finds nothing to look at passes, but for intake, which may
\* ask.
LEMMA AnswersFollow ==
  ASSUME NEW k \in PipelineSteps, NEW p \in Payload, Blank(p), NEW out \in Answers(k, p)
  PROVE  out \in Output /\ out # None /\ Follows(k, out)
<1>1. FusedItems(p) = {}
  BY DEF Blank, FusedItems
<1>2. \A q \in Payload, st \in NewStates : Passed(q, st) \in Output /\ Asks(q, st) \in Output
  BY DEF Passed, Asks, Output
<1>3. \A q \in Payload, st \in NewStates :
        /\ Passed(q, st).data = q /\ Passed(q, st).state = st
        /\ Asks(q, st).data = q /\ Asks(q, st).state = st
  BY DEF Passed, Asks
<1>6. ASSUME NEW q \in Payload, Blank(q), out = Passed(q, Forward[k + 1])
      PROVE  out \in Output /\ Follows(k, out)
  <2>1. k + 1 \in 2..8
    BY DEF PipelineSteps
  <2>2. Forward[k + 1] \in NewStates
    BY <2>1, ForwardStates
  <2> QED BY <1>2, <1>3, <1>6, <2>2 DEF Follows
<1>7. CASE k = 1
  <2>1. PICK c \in Classes : out \in {Passed([NoPayload EXCEPT !.class = c], "INTAKE_CLASSIFIED"),
                                      Asks([NoPayload EXCEPT !.class = c], "HUMAN_BLOCKED")}
    <3>1. out \in Intake(p)
      BY <1>7 DEF Answers
    <3> QED BY <3>1, Zenon DEF Intake
  <2> DEFINE q == [NoPayload EXCEPT !.class = c]
  <2>2. q \in Payload /\ Blank(q)
    BY DEF NoPayload, Payload, Blank
  <2> HIDE DEF q
  <2>3. out \in {Passed(q, "INTAKE_CLASSIFIED"), Asks(q, "HUMAN_BLOCKED")}
    BY <2>1 DEF q
  <2>4. Forward[k + 1] = "INTAKE_CLASSIFIED"
    BY <1>7 DEF Forward
  <2> QED BY <1>2, <1>3, <1>7, <2>2, <2>3, <2>4, ValuesAssumption DEF Follows, NewStates
<1>8. CASE k = 5
  <2>1. PICK found \in [Items -> Values \cup {None}] : out \in Drawing(p, found)
    BY <1>8 DEF Answers
  <2> DEFINE q == [p EXCEPT !.drawings = [i \in Items |->
                     IF @[i] = None /\ i \in FusedItems(p) THEN found[i] ELSE @[i]]]
  <2>2. q \in Payload /\ Blank(q)
    BY <1>1 DEF Payload, Blank
  <2>3. out = Passed(q, "DRAWING_GENERATED")
    BY <2>1 DEF Drawing
  <2> HIDE DEF q
  <2>4. Forward[k + 1] = "DRAWING_GENERATED"
    BY <1>8 DEF Forward
  <2> QED BY <1>6, <2>2, <2>3, <2>4, ValuesAssumption
<1>9. CASE k \notin {1, 5}
  <2>1. out = Passed(p, Forward[k + 1])
    BY <1>1, <1>9 DEF Answers, Parse, Fuse, Compliance, Compose, Validate, Blank, Forward,
                      PipelineSteps
  <2> QED BY <1>6, <2>1, ValuesAssumption
<1> QED BY <1>7, <1>8, <1>9

-----------------------------------------------------------------------------
(* Init and the steps.                                                     *)

\* At first every item is queued.
LEMMA InvInit == WInit => Inv
<1> SUFFICES ASSUME WInit PROVE Inv
  OBVIOUS
<1> DEFINE t == [pc |-> "queued", step |-> 1, tries |-> 0, out |-> None, payload |-> NoPayload]
<1>1. \A i \in Items : task[i] = t
  BY DEF WInit
<1>2. t \in Tasks /\ t.pc = "queued" /\ t.step = 1 /\ t.out = None /\ t.payload = NoPayload
  <2>1. 0 \in 0..(MaxAttempts - 1) /\ 1 \in PipelineSteps
    BY WorkflowAssumption DEF PipelineSteps
  <2> QED BY <2>1, BlankNoPayload DEF Tasks
<1> HIDE DEF t
<1>3. task \in [Items -> Tasks]
  BY <1>2 DEF WInit, t
<1>4. Holding = {}
  BY <1>1, <1>2 DEF Holding
<1>5. IsFiniteSet(Holding) /\ Cardinality(Holding) <= Concurrency
  BY <1>4, FS_EmptySet, WorkflowAssumption
<1>6. "CREATED" \in WorkflowStates /\ Forward[1] = "CREATED"
  BY DEF WorkflowStates, Forward
<1>7. \A i \in Items : Sound(task[i], persisted[i], i \in asked)
  <2>1. \A i \in Items : persisted[i] = "CREATED"
    BY DEF WInit
  <2>2. At(1, "CREATED")
    BY <1>6 DEF At
  <2> QED BY <1>1, <1>2, <2>1, <2>2, BlankNoPayload DEF Sound
<1>8. /\ itemState \in [Items -> WorkflowStates \cup {None}]
      /\ event \in [Items -> {"absent", "unset", "set"}]
      /\ persisted \in [Items -> WorkflowStates]
  BY <1>6 DEF WInit
<1> QED BY <1>3, <1>5, <1>7, <1>8 DEF Inv, WInit

\* A coroutine that is under way goes on or ends: it never gives a place of
\* the semaphore to itself a second time.
LEMMA HeldStep ==
  ASSUME Inv, NEW i \in Items, task[i].pc # "queued", NEW t \in Tasks, t.pc # "queued",
         ~Ended(i), task' = [task EXCEPT ![i] = t]
  PROVE  IsFiniteSet(Holding') /\ Cardinality(Holding') <= Concurrency
<1>1. \A j \in Items : j # i => (j \in Holding' <=> j \in Holding)
  BY DEF Inv, Holding, Ended
<1>2. i \in Holding
  BY DEF Holding
<1>3. Holding' \in SUBSET Holding
  BY <1>1, <1>2 DEF Holding
<1>4. Cardinality(Holding') <= Cardinality(Holding) /\ IsFiniteSet(Holding')
  BY <1>3, FS_Subset DEF Inv
<1>5. Cardinality(Holding) \in Nat /\ Cardinality(Holding') \in Nat
  BY <1>4, FS_CardinalityType DEF Inv
<1> QED BY <1>4, <1>5, WorkflowAssumption DEF Inv

\* A step of a coroutine under way, with what it changes besides.
LEMMA TaskStep ==
  ASSUME Inv, NEW i \in Items, task[i].pc # "queued", ~Ended(i),
         NEW t \in Tasks, t.pc # "queued", task' = [task EXCEPT ![i] = t],
         wf' = wf, itemState' \in [Items -> WorkflowStates \cup {None}],
         event' \in [Items -> {"absent", "unset", "set"}],
         NEW st \in WorkflowStates, persisted' = [persisted EXCEPT ![i] = st],
         asked' \in {asked, asked \cup {i}}, signalled' = signalled,
         Sound(t, st, i \in asked')
  PROVE  Inv'
<1>1. IsFiniteSet(Holding') /\ Cardinality(Holding') <= Concurrency
  BY HeldStep
<1>2. task' \in [Items -> Tasks] /\ persisted' \in [Items -> WorkflowStates]
  BY DEF Inv
<1>3. asked' \subseteq Items /\ signalled' \subseteq asked' /\ asked \subseteq asked'
  BY DEF Inv
<1>4. \A j \in Items : Sound(task'[j], persisted'[j], j \in asked')
  <2> SUFFICES ASSUME NEW j \in Items PROVE Sound(task'[j], persisted'[j], j \in asked')
    OBVIOUS
  <2>1. CASE j = i
    BY <2>1 DEF Inv
  <2>2. CASE j # i
    <3>1. task'[j] = task[j] /\ persisted'[j] = persisted[j] /\ (j \in asked' <=> j \in asked)
      BY <2>2 DEF Inv
    <3>2. Sound(task[j], persisted[j], j \in asked)
      BY DEF Inv
    <3> QED BY <3>1, <3>2 DEF Sound
  <2> QED BY <2>1, <2>2
<1>5. wf' \in {"running", "completed", "failed"}
  BY DEF Inv
<1> QED BY <1>1, <1>2, <1>3, <1>4, <1>5 DEF Inv

\* A coroutine starts only in a free place.
LEMMA StartStep ==
  ASSUME Inv, NEW i \in Items, Start(i)
  PROVE  Inv'
<1> DEFINE t == [task[i] EXCEPT !.pc = "run"]
<1>1. /\ task' = [task EXCEPT ![i] = t] /\ task[i].pc = "queued"
      /\ Cardinality(Holding) < Concurrency
      /\ itemState' = [itemState EXCEPT ![i] = "CREATED"]
      /\ UNCHANGED <<wf, event, persisted, asked, signalled>>
  BY DEF Start, Queued
<1>2. /\ t \in Tasks /\ t.pc = "run" /\ t.step = task[i].step /\ t.out = task[i].out
      /\ t.payload = task[i].payload
  BY DEF Inv, Tasks
<1> HIDE DEF t
<1>3. Holding' = Holding \cup {i} /\ i \notin Holding
  BY <1>1, <1>2 DEF Inv, Holding, Ended
<1>4. IsFiniteSet(Holding') /\ Cardinality(Holding') = Cardinality(Holding) + 1
  BY <1>3, FS_AddElement DEF Inv
<1>5. Cardinality(Holding) \in Nat
  BY FS_CardinalityType DEF Inv
<1>6. Sound(t, persisted[i], i \in asked)
  BY <1>1, <1>2 DEF Inv, Sound
<1>7. "CREATED" \in WorkflowStates
  <2>1. Forward[1] = "CREATED" /\ 1 \in 1..8
    BY DEF Forward
  <2> QED BY <2>1, ForwardStates
<1>8. Cardinality(Holding') <= Concurrency
  BY <1>1, <1>4, <1>5, WorkflowAssumption
<1>9. task' \in [Items -> Tasks] /\ itemState' \in [Items -> WorkflowStates \cup {None}]
  BY <1>1, <1>2, <1>7 DEF Inv
<1>10. \A j \in Items : Sound(task'[j], persisted'[j], j \in asked')
  BY <1>1, <1>6 DEF Inv
<1> QED BY <1>1, <1>4, <1>8, <1>9, <1>10 DEF Inv

\* Every other step of a coroutine.
LEMMA ProgressStep ==
  ASSUME Inv, NEW i \in Items, Progress(i)
  PROVE  Inv'
<1> DEFINE u == task[i]
<1>1. /\ u \in Tasks /\ Sound(u, persisted[i], i \in asked)
      /\ persisted = [persisted EXCEPT ![i] = persisted[i]] /\ persisted[i] \in WorkflowStates
      /\ event \in [Items -> {"absent", "unset", "set"}]
      /\ itemState \in [Items -> WorkflowStates \cup {None}]
  BY DEF Inv
<1>2. u.pc \in {"run", "escalate", "asked", "wait", "persist"} => u.pc # "queued" /\ ~Ended(i)
  BY DEF Ended
<1>3. "FAILED" \in WorkflowStates /\ MaxAttempts \in Nat /\ 0 \in 0..(MaxAttempts - 1)
  BY WorkflowAssumption DEF WorkflowStates
<1>4. CASE Start(i)
  BY <1>4, StartStep
<1>5. CASE Answer(i)
  <2>1. PICK out \in Answers(u.step, u.payload) :
          /\ task' = [task EXCEPT ![i].out = out, ![i].tries = 0,
                        ![i].pc = IF out.hitl THEN "escalate" ELSE "persist"]
          /\ itemState' = [itemState EXCEPT ![i] = IF out.hitl THEN @ ELSE out.state]
    BY <1>5 DEF Answer
  <2>2. u.step \in PipelineSteps /\ u.payload \in Payload /\ Blank(u.payload)
    BY <1>1 DEF Tasks, Sound
  <2>3. out \in Output /\ out # None /\ Follows(u.step, out)
    BY <2>2, AnswersFollow
  <2> DEFINE t == [u EXCEPT !.out = out, !.tries = 0,
                            !.pc = IF out.hitl THEN "escalate" ELSE "persist"]
  <2>4. task' = [task EXCEPT ![i] = t]
    BY <2>1 DEF Inv
  <2>5. t \in Tasks /\ t.out = out /\ t.pc \in {"escalate", "persist"} /\ t.step = u.step
        /\ t.payload = u.payload
    BY <1>1, <1>3, <2>3 DEF Tasks
  <2> HIDE DEF t
  <2>6. Sound(t, persisted[i], i \in asked) /\ u.pc = "run"
    BY <1>1, <1>5, <2>3, <2>5 DEF Sound, Answer
  <2>7. itemState' \in [Items -> WorkflowStates \cup {None}]
    <3>1. out.state \in WorkflowStates
      BY <2>3, ForwardStates DEF Output
    <3> QED BY <1>1, <2>1, <3>1
  <2> QED BY <1>1, <1>2, <1>5, <2>4, <2>5, <2>6, <2>7, TaskStep DEF Answer
<1>6. CASE Retry(i)
  <2> DEFINE t == [u EXCEPT !.tries = @ + 1]
  <2>1. task' = [task EXCEPT ![i] = t] /\ u.tries + 1 # MaxAttempts
        /\ u.pc \in {"run", "escalate", "persist"}
    BY <1>6 DEF Retry, LastAttempt
  <2>2. u.tries + 1 \in 0..(MaxAttempts - 1)
    BY <1>1, <1>3, <2>1 DEF Tasks
  <2>3. t \in Tasks /\ t.pc = u.pc /\ t.out = u.out /\ t.step = u.step /\ t.payload = u.payload
    BY <1>1, <2>2 DEF Tasks
  <2> HIDE DEF t
  <2>4. Sound(t, persisted[i], i \in asked)
    BY <1>1, <2>3 DEF Sound
  <2> QED BY <1>1, <1>2, <1>6, <2>1, <2>3, <2>4, TaskStep DEF Retry
<1>7. CASE StepFails(i)
  <2> DEFINE t == [u EXCEPT !.out = None, !.tries = 0, !.pc = "escalate"]
  <2>1. task' = [task EXCEPT ![i] = t] /\ u.pc = "run"
    BY <1>7 DEF StepFails
  <2>2. t \in Tasks /\ t.pc = "escalate" /\ t.out = None /\ t.step = u.step
        /\ t.payload = u.payload
    BY <1>1, <1>3 DEF Tasks
  <2> HIDE DEF t
  <2>3. Sound(t, persisted[i], i \in asked)
    BY <1>1, <2>1, <2>2 DEF Sound
  <2> QED BY <1>1, <1>2, <1>7, <2>1, <2>2, <2>3, TaskStep DEF StepFails
<1>8. CASE BookkeepingFails(i)
  BY <1>8 DEF BookkeepingFails, Inv, Holding, Ended
<1>9. CASE CreateThread(i)
  <2> DEFINE t == [u EXCEPT !.pc = "asked", !.tries = 0]
  <2>1. task' = [task EXCEPT ![i] = t] /\ u.pc = "escalate" /\ asked' = asked \cup {i}
    BY <1>9 DEF CreateThread
  <2>2. t \in Tasks /\ t.pc = "asked" /\ t.out = u.out /\ t.step = u.step
        /\ t.payload = u.payload
    BY <1>1, <1>3 DEF Tasks
  <2> HIDE DEF t
  <2>3. Sound(t, persisted[i], i \in asked')
    BY <1>1, <2>1, <2>2 DEF Sound
  <2> QED BY <1>1, <1>2, <1>9, <2>1, <2>2, <2>3, TaskStep DEF CreateThread
<1>10. CASE Escalated(i)
  <2>1. u.pc = "asked"
    BY <1>10 DEF Escalated
  <2>2. CASE u.out = None
    <3> DEFINE t == [u EXCEPT !.pc = "failed"]
    <3>1. task' = [task EXCEPT ![i] = t] /\ event' = event
          /\ itemState' = [itemState EXCEPT ![i] = "FAILED"]
      BY <1>10, <2>2 DEF Escalated
    <3>2. t \in Tasks /\ t.pc = "failed" /\ t.out = None /\ t.payload = u.payload
      BY <1>1, <2>2 DEF Tasks
    <3> HIDE DEF t
    <3>3. Sound(t, persisted[i], i \in asked)
      BY <1>1, <2>1, <3>2 DEF Sound
    <3> QED BY <1>1, <1>2, <1>3, <1>10, <2>1, <3>1, <3>2, <3>3, TaskStep DEF Escalated
  <2>3. CASE u.out # None
    <3> DEFINE t == [u EXCEPT !.pc = "wait"]
    <3>1. task' = [task EXCEPT ![i] = t] /\ itemState' = itemState
          /\ event' = [event EXCEPT ![i] = "unset"]
      BY <1>10, <2>3 DEF Escalated
    <3>2. t \in Tasks /\ t.pc = "wait" /\ t.out = u.out /\ t.step = u.step
          /\ t.payload = u.payload
      BY <1>1 DEF Tasks
    <3> HIDE DEF t
    <3>3. Sound(t, persisted[i], i \in asked)
      BY <1>1, <2>1, <2>3, <3>2 DEF Sound
    <3> QED BY <1>1, <1>2, <1>10, <2>1, <3>1, <3>2, <3>3, TaskStep DEF Escalated
  <2> QED BY <2>2, <2>3
<1>11. CASE Resume(i)
  <2> DEFINE t == [u EXCEPT !.pc = "persist"]
  <2>1. task' = [task EXCEPT ![i] = t] /\ u.pc = "wait"
        /\ itemState' = [itemState EXCEPT ![i] = u.out.state]
    BY <1>11 DEF Resume
  <2>2. t \in Tasks /\ t.pc = "persist" /\ t.out = u.out /\ t.step = u.step
        /\ t.payload = u.payload
    BY <1>1 DEF Tasks
  <2> HIDE DEF t
  <2>3. Sound(t, persisted[i], i \in asked)
    BY <1>1, <2>1, <2>2 DEF Sound
  <2>4. u.out.state \in WorkflowStates
    BY <1>1, <2>1, ForwardStates DEF Sound, Tasks, Output
  <2>5. itemState' \in [Items -> WorkflowStates \cup {None}]
    BY <1>1, <2>1, <2>4
  <2> QED BY <1>1, <1>2, <1>11, <2>1, <2>2, <2>3, <2>5, TaskStep DEF Resume
<1>12. CASE Persist(i)
  <2> DEFINE t == [pc |-> IF u.step = 7 THEN "succeeded" ELSE "run",
                   step |-> IF u.step = 7 THEN 7 ELSE u.step + 1,
                   tries |-> 0, out |-> None, payload |-> u.out.data]
  <2>1. task' = [task EXCEPT ![i] = t] /\ u.pc = "persist"
        /\ persisted' = [persisted EXCEPT ![i] = u.out.state]
    BY <1>12 DEF Persist
  <2>2. u.out \in Output /\ Follows(u.step, u.out) /\ u.step \in 1..7
    BY <1>1, <2>1 DEF Sound, Tasks, PipelineSteps
  <2>3. u.out.state \in WorkflowStates /\ u.out.data \in Payload
    BY <2>2, ForwardStates DEF Output
  <2>4. /\ t.pc = (IF u.step = 7 THEN "succeeded" ELSE "run")
        /\ t.step = (IF u.step = 7 THEN 7 ELSE u.step + 1) /\ t.step \in PipelineSteps
        /\ t.out = None /\ t.payload = u.out.data
    BY <2>2 DEF PipelineSteps
  <2>5. t \in Tasks
    <3>1. (IF u.step = 7 THEN 7 ELSE u.step + 1) \in PipelineSteps
      BY <2>2 DEF PipelineSteps
    <3> QED BY <1>3, <2>3, <3>1 DEF Tasks
  <2> HIDE DEF t
  <2>6. Sound(t, u.out.state, i \in asked)
    <3>1. u.step # 7 => At(t.step, u.out.state)
      BY <2>2, <2>4 DEF At, Follows
    <3> QED BY <2>2, <2>4, <3>1 DEF Sound, Follows
  <2> QED BY <1>1, <1>2, <1>12, <2>1, <2>3, <2>4, <2>5, <2>6, TaskStep DEF Persist
<1> QED BY <1>4, <1>5, <1>6, <1>7, <1>8, <1>9, <1>10, <1>11, <1>12 DEF Progress

\* Inv is inductive.
LEMMA InvNext == Inv /\ [WNext]_wvars => Inv'
<1>1. ASSUME Inv, UNCHANGED wvars PROVE Inv'
  BY <1>1 DEF wvars, Inv, Holding, Ended
<1>2. ASSUME Inv, Complete PROVE Inv'
  BY <1>2 DEF Complete, Inv, Holding, Ended
<1>3. ASSUME Inv, NEW i \in Items, Unblock(i) PROVE Inv'
  <2>1. i \in asked
    BY <1>3 DEF Unblock, HasThread, Inv, Sound
  <2>2. event' \in [Items -> {"absent", "unset", "set"}]
    BY <1>3 DEF Unblock, Inv
  <2>3. signalled' \subseteq asked
    BY <1>3, <2>1 DEF Unblock, Inv
  <2> QED BY <1>3, <2>2, <2>3 DEF Unblock, Inv, Holding, Ended
<1> QED BY <1>1, <1>2, <1>3, ProgressStep DEF WNext

\* Every reachable state satisfies the inductive invariant Inv.
THEOREM WInvariant == WSpec => []Inv
BY InvInit, InvNext, PTL DEF WSpec

\* For any items, places and attempts the variables keep their types, and at
\* most Concurrency items are under way at once: the semaphore of
\* OrderProcessorWorkflow.run is never overdrawn, through retries, failures and
\* waits for an operator.
THEOREM WTypeCorrect == WSpec => []WTypeOK
<1>1. Inv => WTypeOK
  <2> SUFFICES ASSUME Inv PROVE WTypeOK
    OBVIOUS
  <2>1. ASSUME NEW i \in Items
        PROVE  /\ DOMAIN task[i] = DOMAIN [pc |-> 0, step |-> 0, tries |-> 0,
                                           out |-> 0, payload |-> 0]
               /\ task[i].step \in PipelineSteps /\ task[i].tries \in 0..(MaxAttempts - 1)
               /\ task[i].payload \in Payload
               /\ task[i].pc \in {"persist", "wait"} => task[i].out # None
    <3>1. task[i] \in Tasks /\ Sound(task[i], persisted[i], i \in asked)
      BY DEF Inv
    <3> QED BY <3>1 DEF Tasks, Sound
  <2> QED BY <2>1 DEF Inv, WTypeOK
<1> QED BY <1>1, WInvariant, PTL

\* An item the workflow gives up has a thread: a step that fails for good is
\* escalated before it is marked FAILED.
THEOREM FailedEscalated == WSpec => []FailedIsEscalated
<1>1. Inv => FailedIsEscalated
  BY DEF Inv, Sound, FailedIsEscalated
<1> QED BY <1>1, WInvariant, PTL

\* The table allows a step's state after the state it was reached in.
LEMMA TableAllows ==
  ASSUME NEW k \in PipelineSteps, NEW st, NEW out, At(k, st), Follows(k, out)
  PROVE  ValidTransition(st, out.state)
<1>1. k \in 1..7 /\ (k = 2 => k + 1 \in 1..7)
  BY DEF PipelineSteps
<1>2. CASE st = Forward[k]
  BY <1>1, <1>2 DEF Follows, ValidTransition
<1>3. CASE k = 2 /\ st = "HUMAN_BLOCKED"
  BY <1>1, <1>3 DEF Follows, ValidTransition
<1> QED BY <1>2, <1>3 DEF At

\* Every state the workflow persists for an item is one that STATE_TRANSITIONS
\* allows after the state it persisted before, although it never consults the
\* table.
THEOREM PersistsByTable == WSpec => PersistFollowsTable
<1> DEFINE A == \A i \in Items : persisted[i] # persisted'[i] =>
                  ValidTransition(persisted[i], persisted'[i])
<1>1. Inv /\ [WNext]_wvars => [A]_persisted
  <2> SUFFICES ASSUME Inv, [WNext]_wvars, persisted' # persisted PROVE A
    OBVIOUS
  <2>1. PICK i \in Items : Persist(i)
    BY DEF WNext, wvars, Complete, Unblock, Progress, Start, Answer, Retry, StepFails,
           BookkeepingFails, CreateThread, Escalated, Resume
  <2>2. persisted' = [persisted EXCEPT ![i] = task[i].out.state] /\ task[i].pc = "persist"
    BY <2>1 DEF Persist
  <2>3. At(task[i].step, persisted[i]) /\ Follows(task[i].step, task[i].out)
        /\ task[i].step \in PipelineSteps
    BY <2>2 DEF Inv, Sound, Tasks
  <2>4. ValidTransition(persisted[i], task[i].out.state)
    BY <2>3, TableAllows
  <2> QED BY <2>2, <2>4 DEF Inv
<1> QED BY <1>1, WInvariant, PTL DEF WSpec, PersistFollowsTable
=============================================================================
