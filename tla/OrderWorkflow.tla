---------------------------- MODULE OrderWorkflow ----------------------------
(***************************************************************************)
(* OrderProcessorWorkflow (workflows/order_processor.py): every item of an *)
(* order goes through the seven activities of PIPELINE_STEPS, at most      *)
(* Concurrency of them at a time, each activity tried MaxAttempts times by *)
(* the Temporal workers.  The code of the workflow itself is replayed      *)
(* exactly, so only activities and signals interleave.                     *)
(***************************************************************************)
EXTENDS PipelineActivities

CONSTANTS
  Concurrency,   \* WorkflowConfig.concurrency_limit
  MaxAttempts    \* RetryPolicy.maximum_attempts

ASSUME WorkflowAssumption ==
  /\ Items \subseteq Nat    \* item_ids is a list: the items are its indices
  /\ Concurrency \in Nat \ {0}
  /\ MaxAttempts \in Nat \ {0}

VARIABLES
  wf,         \* the workflow execution
  task,       \* the process_item coroutine of each item
  itemState,  \* _item_states
  event,      \* _human_unblocked: "absent", or its Event "unset" or "set"
  persisted,  \* the last state update_item_state_activity was run for
  asked,      \* the items create_hitl_thread_activity was run for
  signalled   \* the items an operator has sent human_unblock for

wvars == <<wf, task, itemState, event, persisted, asked, signalled>>

PipelineSteps == 1..7

\* PIPELINE_STEPS: what step k can answer for a payload.
AnswersSkipping(k, p) ==   \* mutant: intake goes straight to the fusion
  IF k \in {2, 3} THEN Fuse(p) ELSE IF k = 1 THEN Intake(p)
  ELSE {Passed(p, "VALIDATED")}
Answers(k, p) ==
  CASE k = 1 -> Intake(p)
    [] k = 2 -> Parse(p)
    [] k = 3 -> Fuse(p)
    [] k = 4 -> UNION {Compliance(p, flagged) : flagged \in SUBSET Items}
    [] k = 5 -> UNION {Drawing(p, found) : found \in [Items -> Values \cup {None}]}
    [] k = 6 -> UNION {Compose(p, flagged) : flagged \in SUBSET Items}
    [] k = 7 -> UNION {Validate(p, accepts) : accepts \in SUBSET (Values \X Values)}

\* STATE_TRANSITIONS, as far as the workflow's states go.
Forward == <<"CREATED", "INTAKE_CLASSIFIED", "PARSED", "FUSED",
             "COMPLIANCE_EVAL", "DRAWING_GENERATED", "COMPOSED", "VALIDATED">>
WorkflowStates == {Forward[k] : k \in 1..8} \cup {"HUMAN_BLOCKED", "FAILED"}
ValidTransition(a, b) ==
  \/ \E k \in 1..7 : /\ a = Forward[k]
                     /\ b \in {Forward[k + 1], "HUMAN_BLOCKED", "FAILED"}
  \/ a = "COMPOSED" /\ b = "COMPOSED"
  \/ a = "VALIDATED" /\ b = "FAILED"
  \/ a = "HUMAN_BLOCKED" /\ b \in {Forward[k] : k \in 1..7}

\* A coroutine: where it is, the step, the attempts its activity has used up,
\* the answer it is dealing with (None once the attempts are exhausted) and
\* the payload it carries along.
Task == [pc : {"queued", "run", "escalate", "asked", "wait", "persist",
               "succeeded", "failed"},
         step : PipelineSteps, tries : Nat, out : Output \cup {None},
         payload : Payload]

WInit ==
  /\ wf = "running"
  /\ task = [i \in Items |-> [pc |-> "queued", step |-> 1, tries |-> 0,
                              out |-> None, payload |-> NoPayload]]
  /\ itemState = [i \in Items |-> None]
  /\ event = [i \in Items |-> "absent"]
  /\ persisted = [i \in Items |-> "CREATED"]
  /\ asked = {} /\ signalled = {}

-----------------------------------------------------------------------------
Ended(i)  == task[i].pc \in {"succeeded", "failed"}
Holding   == {i \in Items : task[i].pc # "queued" /\ ~Ended(i)}
Queued    == {i \in Items : task[i].pc = "queued"}

\* The semaphore lets the items in one after the other.
StartUnbounded(i) ==   \* mutant: the semaphore is not taken
  /\ wf = "running" /\ i \in Queued
  /\ task' = [task EXCEPT ![i].pc = "run"]
  /\ itemState' = [itemState EXCEPT ![i] = "CREATED"]
  /\ UNCHANGED <<wf, event, persisted, asked, signalled>>
Start(i) ==
  /\ wf = "running" /\ i \in Queued
  /\ \A j \in Queued : i <= j
  /\ Cardinality(Holding) < Concurrency
  /\ task' = [task EXCEPT ![i].pc = "run"]
  /\ itemState' = [itemState EXCEPT ![i] = "CREATED"]
  /\ UNCHANGED <<wf, event, persisted, asked, signalled>>

\* The step's activity answers: one that needs a human is escalated first.
Answer(i) ==
  /\ wf = "running" /\ task[i].pc = "run"
  /\ \E out \in Answers(task[i].step, task[i].payload) :
       /\ task' = [task EXCEPT ![i].out = out, ![i].tries = 0,
                     ![i].pc = IF out.hitl THEN "escalate" ELSE "persist"]
       /\ itemState' = [itemState EXCEPT ![i] = IF out.hitl THEN @ ELSE out.state]
  /\ UNCHANGED <<wf, event, persisted, asked, signalled>>

\* An attempt fails, by an exception, a timeout or the loss of its worker.
LastAttempt(i) == task[i].tries + 1 = MaxAttempts
Retry(i) ==
  /\ wf = "running" /\ task[i].pc \in {"run", "escalate", "persist"}
  /\ ~LastAttempt(i)
  /\ task' = [task EXCEPT ![i].tries = @ + 1]
  /\ UNCHANGED <<wf, itemState, event, persisted, asked, signalled>>

\* The last attempt of a step fails: the item is escalated, then given up.
StepFailsSilently(i) ==   \* mutant: no thread for a failed step
  /\ wf = "running" /\ task[i].pc = "run" /\ LastAttempt(i)
  /\ task' = [task EXCEPT ![i].out = None, ![i].tries = 0, ![i].pc = "failed"]
  /\ itemState' = [itemState EXCEPT ![i] = "FAILED"]
  /\ UNCHANGED <<wf, event, persisted, asked, signalled>>
StepFails(i) ==
  /\ wf = "running" /\ task[i].pc = "run" /\ LastAttempt(i)
  /\ task' = [task EXCEPT ![i].out = None, ![i].tries = 0, ![i].pc = "escalate"]
  /\ UNCHANGED <<wf, itemState, event, persisted, asked, signalled>>

\* The last attempt to escalate or to persist fails: nothing catches it, and
\* gather ends the workflow under the other items.
BookkeepingFails(i) ==
  /\ wf = "running" /\ task[i].pc \in {"escalate", "persist"} /\ LastAttempt(i)
  /\ wf' = "failed"
  /\ UNCHANGED <<task, itemState, event, persisted, asked, signalled>>

\* create_hitl_thread_activity has run; its completion is on its way.
CreateThread(i) ==
  /\ wf = "running" /\ task[i].pc = "escalate"
  /\ asked' = asked \cup {i}
  /\ task' = [task EXCEPT ![i].pc = "asked", ![i].tries = 0]
  /\ UNCHANGED <<wf, itemState, event, persisted, signalled>>

\* The workflow sees the completion: an item whose step failed is done, one
\* that asked gets a new Event to wait for.
Escalated(i) ==
  /\ wf = "running" /\ task[i].pc = "asked"
  /\ IF task[i].out = None
     THEN /\ task' = [task EXCEPT ![i].pc = "failed"]
          /\ itemState' = [itemState EXCEPT ![i] = "FAILED"]
          /\ UNCHANGED event
     ELSE /\ task' = [task EXCEPT ![i].pc = "wait"]
          /\ event' = [event EXCEPT ![i] = "unset"]
          /\ UNCHANGED itemState
  /\ UNCHANGED <<wf, persisted, asked, signalled>>

\* human_unblock, sent by an operator for an item whose answer has a thread
\* and that is not released yet (any other signal changes nothing that is
\* read): without an Event to set it is dropped.
HasThread(i) == task[i].pc \in {"asked", "wait"} /\ task[i].out # None
UnblockSetsNothing(i) ==   \* mutant: the handler replaces the Event
  /\ wf = "running" /\ HasThread(i)
  /\ event' = [event EXCEPT ![i] = "unset"]
  /\ signalled' = signalled \cup {i}
  /\ UNCHANGED <<wf, task, itemState, persisted, asked>>
Unblock(i) ==
  /\ wf = "running" /\ HasThread(i)
  /\ event' = [event EXCEPT ![i] = IF @ = "absent" THEN @ ELSE "set"]
  /\ signalled' = signalled \cup {i}
  /\ UNCHANGED <<wf, task, itemState, persisted, asked>>

\* The answer that asked is then taken as it is: the step is not run again.
Resume(i) ==
  /\ wf = "running" /\ task[i].pc = "wait" /\ event[i] = "set"
  /\ task' = [task EXCEPT ![i].pc = "persist"]
  /\ itemState' = [itemState EXCEPT ![i] = task[i].out.state]
  /\ UNCHANGED <<wf, event, persisted, asked, signalled>>

\* update_item_state_activity has run: the next step starts, or the item is
\* done and leaves the semaphore.
Persist(i) ==
  /\ wf = "running" /\ task[i].pc = "persist"
  /\ LET t == task[i] IN
       /\ persisted' = [persisted EXCEPT ![i] = t.out.state]
       /\ task' = [task EXCEPT ![i] =
            [pc |-> IF t.step = 7 THEN "succeeded" ELSE "run",
             step |-> IF t.step = 7 THEN 7 ELSE t.step + 1,
             tries |-> 0, out |-> None, payload |-> t.out.data]]
  /\ UNCHANGED <<wf, itemState, event, asked, signalled>>

\* gather returns when every item has ended.
Complete ==
  /\ wf = "running" /\ \A i \in Items : Ended(i)
  /\ wf' = "completed"
  /\ UNCHANGED <<task, itemState, event, persisted, asked, signalled>>

Progress(i) == \/ Start(i) \/ Answer(i) \/ Retry(i) \/ StepFails(i)
               \/ BookkeepingFails(i) \/ CreateThread(i) \/ Escalated(i)
               \/ Resume(i) \/ Persist(i)

WNext == Complete \/ \E i \in Items : Progress(i) \/ Unblock(i)

\* Temporal runs what is scheduled, and an operator goes on answering an item
\* that waits.
WorkersRun == WF_wvars(Complete) /\ \A i \in Items : WF_wvars(Progress(i))
HumansInsist == \A i \in Items : WF_wvars(task[i].pc = "wait" /\ Unblock(i))

WSpec == WInit /\ [][WNext]_wvars /\ WorkersRun /\ HumansInsist

\* An operator who sends the signal for an item that has a thread, once.
HumansAnswerOnce == \A i \in Items : WF_wvars(i \notin signalled /\ Unblock(i))
WOnceSpec == /\ WInit
             /\ [][WNext /\ \A i \in signalled : ~Unblock(i)]_wvars
             /\ WorkersRun /\ HumansAnswerOnce

-----------------------------------------------------------------------------
\* The types of the variables, and the bound of the semaphore: at most
\* Concurrency items are under way, those that wait for a human included.
WTypeOK ==
  /\ Cardinality(Holding) <= Concurrency
  /\ wf \in {"running", "completed", "failed"}
  /\ \A i \in Items :
       /\ DOMAIN task[i] = DOMAIN [pc |-> 0, step |-> 0, tries |-> 0,
                                   out |-> 0, payload |-> 0]
       /\ task[i].step \in PipelineSteps /\ task[i].tries \in 0..(MaxAttempts - 1)
       /\ task[i].payload \in Payload
       /\ task[i].pc \in {"persist", "wait"} => task[i].out # None
  /\ itemState \in [Items -> WorkflowStates \cup {None}]
  /\ event \in [Items -> {"absent", "unset", "set"}]
  /\ persisted \in [Items -> WorkflowStates]
  /\ asked \subseteq Items /\ signalled \subseteq asked

\* An item the workflow gives up has been brought before a human: no failure
\* passes in silence.
FailedIsEscalated == \A i \in Items : task[i].pc = "failed" => i \in asked

\* The states written for an item follow STATE_TRANSITIONS, which the
\* workflow itself never consults.
PersistFollowsTable ==
  [][\A i \in Items : persisted[i] # persisted'[i] =>
       ValidTransition(persisted[i], persisted'[i])]_persisted

\* The workflow ends: no item waits for ever for a place, for a worker or for
\* an operator who goes on answering.
WorkflowEnds == <>(wf # "running")

\* order_processor.py:948, human_unblock is the "signal sent when a human
\* resolves a HiTL thread for an item": sending it once releases the item.
OneSignalIsEnough ==
  \A i \in Items : task[i].pc = "wait" ~> task[i].pc # "wait" \/ wf # "running"

\* order_processor.py:826, the workflow "orchestrates the full labeling
\* pipeline for an order": an item it reports as a success has a label.
SuccessMeansLabelled ==
  \A i \in Items : task[i].pc = "succeeded" => task[i].payload.labels[i] # None
=============================================================================
