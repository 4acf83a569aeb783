# Labelforge: formal models of the export-labelling service

Labelforge (`labelforge/`) takes a purchase order and its documents, extracts
the items, fuses their data, evaluates compliance rules, generates drawings,
composes die-cut labels and validates them. Agents that call a language model
do the work. Whenever one is unsure, an item is blocked and a
human-in-the-loop (HiTL) thread is raised; an operator answers in a chat, an
agent replies, and the pipeline goes on. The service is FastAPI with
SQLAlchemy async sessions over PostgreSQL, Redis for events and costs, and
Temporal for a workflow that drives the same activities.

The difficult part is not any of the algorithms. It is that every HTTP call,
background task and chat reply is a coroutine with a database session of its
own, which reads rows, awaits agents for seconds to minutes, and then writes
what it decided. Rows carry no version, nothing selects FOR UPDATE, and the
sessions (`db/session.py`, `expire_on_commit=False`) write only what differs
from what they read: at a commit and, with SQLAlchemy's default autoflush, before
a query of their own. A row that was written belongs to its transaction until
that ends, which is the only lock there is, and nobody asked for it. The models are about that: what holds however
the calls interleave, what holds only if they do not, and what the code says of
itself that does not hold.

## Inventory

| Part | State | Operations | Talks to | Hard behaviour | What makes it correct |
|---|---|---|---|---|---|
| HiTL thread resolver (`services/hitl/resolver.py`, REST in `api/v1/hitl.py`) | thread, message, audit and notification rows | create, add message, select option, resolve, escalate | message router, workflow resumer, escalation hook, chat dispatcher | check then commit without a lock; events after the commit; process stops; a socket that closes cancels the request it carried | status explained by the trail; announcements backed; closed threads left alone; closes announced, human messages dispatched, and exactly when not |
| Order pipeline over HTTP (`api/v1/orders.py`, `services/hitl/auto_advance.py`) | item rows (state, JSON data), threads, artifacts | advance (rescue pass, four stages), approve, reject, fuse, chat patch | activities, resolver, auto-advance hook | a session that reads once and writes minutes later; several commits per call; find-or-create of tickets; data that outlives the state it was made for | stages in order; a block has its ticket; one open ticket per item and stage; no lost decision; a composed item has its label, artifacts and PDF; only clean labels validated |
| Chat dispatcher (`services/hitl/chat_dispatcher.py`) | per-process locks, messages, item data | dispatch: read history, ask the agent, tool rounds, patch, reply, auto-resolve | resolver, pipeline, language model | two sessions around a long call; in-memory lock and tasks; turn cap | full history, cap, no reply after a close seen, patches kept, every human answered |
| Chat agents and tools (`agents/chat.py`, `agents/chat_handlers.py`, `services/hitl/chat_tools.py`) | one turn | parse the reply, filter patches, run tools, say something | dispatcher, importer data | a reply that is prose, a block, both or neither; several rounds | allowlist, tenancy of what is found, no empty answer after tools |
| Compliance rule versions (`api/v1/rules.py`, and the promotion of extracted rules in `api/v1/importers.py`) | versions of a rule, audit rows | create, update, promote, rollback, import | the compliance stage reads the active versions | siblings read, then written at the commit; another endpoint writes the same table | one active version; only promoted ones active; audit complete |
| Compliance rule engine (`compliance/`, `agents/compliance_classifier.py`) | none | compile, evaluate, dry run | rules, pipeline | missing fields and missing trees; two projections of one item | what a dry run still predicts of the pipeline |
| Temporal workflow (`workflows/order_processor.py`) | item states, unblock events, a semaphore | run items, retry, escalate, wait for `human_unblock` | activities | signal before the wait; blocked items hold the semaphore; attempts used up | failures escalated, states along the table, the workflow ends |
| Composer, reference generator, validator (`agents/composer.py`, `diecut_reference.py`, `validator.py`) | none | compose a label, judge it | pipeline | two generators with one judge; geometry at the limits | what the one writes the other accepts |
| Extraction agents (`agents/intake_classifier.py`, `po_parser.py`, `pi_parser.py`, `fusion.py`, onboarding extractors) | none | one call | language model | whatever a model answers | what is accepted unasked has been checked, and what has not |
| Upload, classification, extraction (`api/v1/orders.py`, `api/v1/documents.py`) | documents, blobs, items, an in-memory record | background tasks that create and merge items | agents, fusion | two documents of one order at a time, restarts, partial failure | what a document said is in the items |
| Importer onboarding (`api/v1/importers.py`) | session, JSON maps of agents and results | start, upload, run agents in the background, rerun, finalize, promote | rules, warning labels, profile | agents finishing together rewrite the map; tasks lost at a restart | every agent's result kept; no agent running for ever |
| Importer profile and documents (`api/v1/importers.py`) | profile versions, document rows, blobs | update, sanitize, upload, delete | blob store | blob and row in two stores; a unique version | no edit lost, bytes kept |
| Warning labels (`api/v1/warning_labels.py`) | labels | create, edit, approve, reject, deprecate, import | pipeline | overlapping decisions mix columns; sequences of calls | a row says one thing; deprecated stays out |
| Portal (`api/v1/portal.py`) | tokens, audit rows | create, view, approve, reject, confirm, download | orders | single-use tokens used twice | one terminal use, recorded |
| Message router and WebSocket (`services/hitl/router.py`, `api/v1/hitl.py`) | subscriptions, queues | publish, subscribe, hello, hang-up | Redis, resolver | events between a read and a registration; sockets that come and go | a registered client gets every event, in order, once; which events one misses |
| Drawing canvas (`core/line_drawing.py`, `api/v1/line_drawing.py`) | strokes and sockets in memory, stored drawings | enter, draw, clear, leave; save as SVG | blob store, artifacts, thread messages | sends awaited one by one while others draw; a save that counts late | everyone in the room gets every stroke once |
| Notification dispatcher (`services/notifications/`) | preferences, channel results, audit and in-app rows | fan-out with retries | resolver, portal | one channel of several fails; a failure reported after delivery | what is returned and audited is true |
| Language model client and cost breaker (`core/llm.py`, `core/cost_breaker.py`) | cache, counter in Redis | complete, fall back; check, record | agents | check and record are separate | limits are limits |
| Order state (`contracts/models.py`), worker (`core/worker.py`), authentication and roles, read-only API, logging, frontend | – | – | – | sequential checks, display, a stub | left to tests |

Interactions, in short: an **activity** that needs a human makes the
**pipeline** block the item and raise a **thread**; a human's message goes
through the **resolver**, which schedules the **dispatcher**; the dispatcher
patches the item, replies through the resolver, resolves the thread and calls
the auto-advance hook, which is the pipeline's advance again. Nothing but
database rows and one in-memory lock connects them.

`PROJECT.json` lists every component and, with its line, every place where this
code can go wrong in a way a test would hardly reach.

## Modules

| Module | What it is |
|---|---|
| `HitlThread` | the resolver, each operation split at its awaits |
| `ThreadLifecycle` | what a thread promises (abstract) |
| `HitlThread_proofs` | theorems about `HitlThread` |
| `OrderPipeline` | advance, approve, reject, fuse and patch on the items of one order, interleaved |
| `PipelineItem` | what the pipeline promises for one item (abstract) |
| `PipelineActivities` | what the seven activities can answer for a payload; no state |
| `OrderData` | what the stages of advance do to the items' data, labels and artifacts |
| `OrderWorkflow` | the Temporal workflow over the same activities |
| `ChatDispatch` | the dispatches of one thread |
| `ChatAgents` | what one agent says in one turn, and its tools |
| `RuleVersions` | the versions of one rule code |
| `RuleVersions_proofs` | theorems about `RuleVersions` |
| `ComplianceRules` | the rule engine in its three uses |
| `Agents` | the agents that read documents, and fusion |
| `Labels` | composer, reference generator and validator for one item |
| `Documents` | uploads of one order and their background tasks |
| `Onboarding` | onboarding sessions of one importer and their agents |
| `ImporterProfile` | profile versions and documents with their blobs |
| `WarningLabels` | one warning label code |
| `Portal` | portal tokens |
| `ThreadStream` | the live stream of one thread |
| `DrawingCanvas` | the shared canvas of one thread |
| `Notifications` | dispatches over their channels |
| `LlmCalls` | paid model calls: breaker, cache, fallback |
| `OrderPipeline_proofs`, `OrderPipelineSerial_proofs` | theorems about `OrderPipeline`, whatever overlaps, and when calls do not overlap |
| `OrderData_proofs`, `OrderWorkflow_proofs`, `ChatDispatch_proofs` | theorems about the module they are named after |
| `Services_proofs` | theorems about the thirteen smaller modules, and about `MC_System` |
| `MC_*` | their small instances; they add the symmetry sets and, in `MC_HitlThread`, a specification with fewer kinds of request for liveness |
| `MC_System` | `OrderData` and thirteen smaller components in one instance |

How they compose. `PipelineActivities` is used by both drivers of the pipeline,
`OrderData` (HTTP) and `OrderWorkflow` (Temporal), as the code's activities are.
`ThreadLifecycle` and `PipelineItem` are implemented by the serial
specifications of `HitlThread` and `OrderPipeline`. The components of
`MC_System` touch each other only through database rows whose other writers are
already actions of the component (an import is an action of `WarningLabels` and
`RuleVersions`, a chat patch one of `OrderData`), so `MC_System` puts them side
by side and lets the first state choose which one runs: `focus`. Every
behaviour is a behaviour of one component, its invariants hold there exactly
when they hold here, and nothing is multiplied that cannot interact.

Definitions marked "mutant" in the modules are wrong variants of the definition
that follows; they are used by nothing else. Each was put in place of the right
one to see that the property it is listed with in `PROJECT.json` notices.

### HitlThread

`req[r]` is the coroutine of a request: what it does (`op`), where it is (`pc`),
the status it read (`seen`) and the events it has still to publish (`outbox`).
`status`, `messages`, `audit` and `notifications` are rows; `events` is what the
router was given per thread.

| Action | Code |
|---|---|
| `CreateThread` | `create_thread` to its commit |
| `LoadThread` | `_load_thread` and the terminal check that refuses with 409 |
| `CommitMessage` | `add_message`, `record_option_select` to their commit |
| `CommitClose` | `resolve_thread`, `escalate_thread` to their commit |
| `Refresh`, `RunHook`, `Publish`, `Finish` | `db.refresh`, the resumer or notifier, one `router.publish`, the return with its `schedule_dispatch` |
| `Crash` | a process stops with the requests it serves |
| `Cut` | the socket a message or option came over is torn down: `recv_task` is cancelled wherever it is (`hitl.py:527-531`) |

Left out: priorities and deadlines (nothing reads `sla_deadline`), message
texts, capabilities. Hooks that raise are logged by the code, so their outcome
changes nothing.

### OrderPipeline

`call[s]` is a call with its session: `base` is what the session read, `copy`
what it has made of it, `wrote` the columns of rows that it has sent already, and
`Flushed` is what a commit stores: only the attributes that differ, over whatever
is stored by then. State and data are
separate columns and are written separately. `Begin*` are the reads, `RescueItem`
and `CommitRescue` the self-heal pass with its own commit, `ActivityPasses`,
`ActivityFails` and `ActivityBlocks` the answers of an activity for one item (any
answer, at any time), `Commit` the last commit with the tickets raised on the
way, `MoveThread` what operators do to a thread.

Row locks. The lookup of a thread (`orders.py:1155`) comes after the item's
new state, which the session flushes first (`AutoFlushed`). While another
transaction has written a row of those, the flush waits (`CanFlush`), and then
the lookup sees the thread that one committed. The rescue's lookups, the stores of
artifacts (where one may be stored, the model lets the call flush or not) and
commits flush too. A wait may end in an error, by a deadlock or a timeout
(`GiveUp`). The same holds on SQLite, whose writers wait for the whole database.

Whole items. `FuseItems` has the three ways of `_run_fusion`: an item with data
of both sides is joined, one of a single side is left alone, and one without any
of the fields that tell the sides apart (`Bare` says which items may be such) goes
whole to both (`orders.py:823-826`) and is stored back whole, its
`blocked_at_stage` and `last_successful_state` included. The others keep of the
patched values those in `Carried`, the fields that one of the two lists names.
Success or failure is the agent's for the whole order: critical issues of any
item make all of them HUMAN_BLOCKED.

Abstractions: an item's data is its resume state, block marker and patched
values. Equal data counts as unchanged, as it does for SQLAlchemy. `FuseItems`
reads all items at once. `CLOSED` is a thread resolved or escalated. A thread
found OPEN at the lookup may be closed before the block is committed; the
abstract `Block` therefore opens a thread or keeps those there are. Artifacts,
the approval PDF and costs are left out: no later step reads them. An activity
that reports success together with `needs_hitl` counts as a success, as in the
code (`orders.py:1691`). A fusion that fails blocks its items without a thread
(`orders.py:869-875`), so the next rescue pass releases them with no human act.

### ChatDispatch

`disp[d]` is the task of one human message, `queue[w]` the per-process
`asyncio.Lock` (holder, then waiters). `Ask` reads the history and the cap,
`UseTools` is a tool round with its interim message, `Answer` is the second
look at the thread in a new session, `ReadItem` and `CommitPatch` the patch,
`PostReply`, `Refresh`, `AutoResolve` and `Advance` the rest. `Cut` is the socket
of a message torn down between its commit (`resolver.py:285`) and
`schedule_dispatch` (`:330`), after which nobody dispatches it. The order of
`messages` is the order of commits. A second SELECT in the same session does not
refresh a loaded row, so `PostReply` judges the status `Answer` saw, and
`AutoResolve` the one its `db.refresh` read. `Noticed` is the ORM's comparison
of the JSON column: a nested write in the shared inner object is seen only if
something at the top differs too. Operators act in one step (HitlThread splits
them), the opening agent message is left out, and the two dispatches are about
one thread: two threads about one item have two locks.

### RuleVersions

`db` holds the rows, `call[c]` a call between its reads and its commit. `views`
remembers the sets of active versions it read; it decides nothing. Rollback
writes before its second query, so that query flushes and the row is locked
until the commit (`Locked`); a call that would wait in a cycle is aborted by
PostgreSQL, which is the call never having been made. `_promote_extracted_to_
canonical` (the import) writes no audit row and looks a code up as if it had
one version. The constant `Imports` turns onboarding off where a statement is
about the rules API alone.

### PipelineActivities, OrderData, OrderWorkflow

An activity is the set of `ActivityOutput`s it can give for a payload: success,
state, `needs_hitl` and the payload it returns. An item's data is one value; a
label or drawing is the value it was made from, so a label is out of date
exactly when it differs from the item's. The agents behind the activities are
free choices (which items are flagged, what is found), except for the two facts
that later stages depend on: the validator judges by the label in the payload,
and `validation_override` silences it. Of an item's data the validator looks for
the UPC, the origin and the description in the label's text
(`validator.py:171-214`), so a label of older data passes when those are the
same: `Accepts` is any set of pairs of a label and the data beside it.

`OrderData` is `POST /advance` served one call at a time: `Advance` is the
rescue pass, `Stage(k)` a stage for all its candidates with the tickets,
artifacts and approval PDF of its commit. `Refuse` is a fusion that replaces
the data of the items it joined, or stores one of `Bare` back whole, `Patch` and `Override` are the two things a
chat can do to an item. The three artifact stores keep the set of contents and
the newest row, because the code stores no content twice (`Store`). What
interleaves is in `OrderPipeline`, which in turn abstracts the data.

`OrderWorkflow` is `OrderProcessorWorkflow`. Workflow code is replayed
deterministically, so the interleavings are those of activity completions,
retries and signals: `Start` takes the semaphore in the order of `item_ids`,
`Answer`, `Retry` and `StepFails` are an attempt at the step's activity,
`CreateThread`, `Escalated`, `Unblock` and `Resume` the escalation and the
signal, `Persist` the state update, `BookkeepingFails` an escalation or update
that used up its attempts, which no handler catches. The answer that asked is
taken as it is after the signal, as in the code. Of `STATE_TRANSITIONS`, which
nothing consults, the model has the table as `ValidTransition`, to compare.
Nothing in the repository starts the workflow or sends `human_unblock`; the
model takes both from outside.

### Documents

`task[d]` is the background task of an upload: download, classify, read rows,
merge, check whether both sides are there, fuse, each with the rows its session
`seen`. A file is the fields it holds per item number; `Extraction` keeps those
of its class. A merge fills empty fields only; an insert of a number that has a
row by now fails the commit (`uq_order_items_order_item_no`). `CheckSides` sees
the session's own copy of the rows it has. `shown` is the in-memory record that
`GET /documents/{id}` reads, and `Stop` a restart of the process. `overlapped`
is history: which tasks had a session while another did. A row's fields are
those with a document's value (`data`) and those with the agent's (`guessed`).
`FusedRow` drops what neither list of `_run_fusion` names (the `net_weight`
stands for such fields), takes the agent's material, also when it has none, and a
UPC it is confident of; a row without any key field goes through whole, and one
of a single side is left as it is.

### Agents, Labels, ComplianceRules, ChatAgents

Pure code with many branches: one action per call, inputs chosen in the initial
state or by the action, no interleaving. A model's answer is a choice from a
small set that has a well-formed answer of each kind, prose and JSON of the
wrong shape. Confidences are in hundredths and lengths in tenths of a
millimetre, so the thresholds and the geometry are those of the code.

* `Agents`: classifier (with the fallback by file name and the clamp), the three
  onboarding extractors (threshold, cap, sample extraction), purchase order
  (required fields, UPC check, blend with the model), invoice, fusion (joins,
  lonely items, oversize, resolutions).
* `Labels`: `Placements` is `_build_panel`, with its coordinates; `Reference`
  the other generator; `Verdict` the validator's search of the result and
  `Overlapping` its bounding boxes. Words, not SVG.
* `ComplianceRules`: condition trees of at most two levels, three values (true, false,
  raise), short circuits as in `all` and `any`, and the two contexts made from
  one item. They differ in the weight (the pipeline falls back to the net
  weight, and takes an unreadable one as 0, where the dry run raises), in the
  destination (empty or missing) and in the dimensions (the pipeline falls back
  to the product's). Imports, and promotions of other rules by them, may come
  before, between and after a dry run and the pipeline's step.
* `ChatAgents`: one turn of an agent: `parse_tool_call`, `filter_patches`,
  vacuous replies, each tool by what it finds for the order's importer, another
  or nobody; a document may be found by its name alone, without any content.
  Patches that are not an object raise in `filter_patches`, outside the handler's
  `try`, and the turn ends without a reply (`RespondRaises`). `ChatDispatch` takes
  any reply, or none; this module says which there are.

### Onboarding, ImporterProfile, WarningLabels, Portal

Each request reads, awaits and commits what it changed, column by column;
`Stored`, `Columns` and `Made` say what a commit writes. In `Onboarding` a
job's `todo` is the agents its background task still has to run, one after the
other with a commit each, and `StopProcess` loses them. The unique constraints
are those of the tables: a profile version, a warning label code. `Portal` has
`since`, the length of the trail when a request loaded its token, to tell who
overlapped.

### ThreadStream, DrawingCanvas, Notifications, LlmCalls

`ThreadStream` has both routers: in memory `Subscribe` registers the queue, for
Redis the reader task does so later (`Reader`), when events may already have
passed, and after an unsubscribe, which only sets an event, it goes on reading
until its wait of a second is over (`ReaderStops`). `opened` and `since` are the
events there were when the hello frame's row was read and when the queue was
registered: what lies between is lost. An event is the number of the change it
announces. `DrawingCanvas` has the room, and for each socket what its client shows
(`paper`: the hello frame, what arrived, and its own strokes, which the server
does not send back) and the broadcast its handler is in the middle of (`frame`,
`to`). A frame is taken to reach its client in the order the sends to it were
begun. `mixed` is history: to whom a clear and a stroke were under way at once.
A saver is a `POST .../drawing` between its awaits. Whether a thread is closed
is not looked at by the code, and no event tells of a stored drawing.
`Notifications` goes through the channels of a dispatch one attempt
at a time; `Outcome` separates whether a message got through from what the
dispatcher is told. A webhook is told "sent" of any answer below 400, a redirect
that httpx does not follow included; of SMTP's errors the ones that are
`OSError`s, which in Python is all of `smtplib`'s, are transient, so the branch for
permanent ones is never reached. `LlmCalls` puts the breaker around a call as its docstring
prescribes, though no code calls it yet.

## Runs

All runs set `CHECK_DEADLOCK FALSE`: requests, calls and dispatches are each
served once, an agent or a rule is called once, and a workflow completes, so every
behaviour of an instance ends.

| Run | Instance | Question |
|---|---|---|
| `hitl_safety` | 1 thread, 3 requests of any kind, 1 stop | do the trail and the announcements hold whatever overlaps? |
| `hitl_live` | same, creation, reply, option and escalation | is a close announced, a human message dispatched, unless process or socket goes? |
| `hitl_serial` | 1 thread, 3 requests, no overlap | do threads then follow `ThreadLifecycle`? |
| `pipeline_racing` | 1 item, 3 calls of any kind overlapping | is there ever a second open ticket, are tickets raised only for blocks, and who can move an item back? |
| `pipeline_serial` | 2 items, of which a fusion may take one in whole, 3 calls in sequence, threads moving freely | a thread for every block, each item as in `PipelineItem` |
| `chat_worker` | 2 dispatches, 1 worker, 2 values, cap 1, 1 tool round | does the lock give what it is for, and is everybody answered? |
| `rules_racing` | 3 versions, 5 calls, 2 contents, imports | when can two versions be live, and is the audit complete? |
| `workflow` | 3 items, 2 places, 2 attempts | are failures escalated, states persisted in order, and does the workflow end? |
| `system` | one instance of each module in `MC_System` | one property per component, of the hazard it has |
| `pipeline_resume` | 1 item that a fusion may take in whole, 4 calls in sequence | **violated**: released past the stage that blocked it |
| `rules_promote` | 3 versions, 4 calls | **violated**: two promotions leave two live versions |
| `label_acceptance` | every content on one carton, and cartons of 5 and 12 inches | **violated**: no label of a complete item passes the validator |

Why these bounds are enough for the questions. A race in this code is between
one call that reads and commits late, one that commits in between, and
something that made both possible: three requests, three calls. Nothing links
two threads, so one suffices; one item suffices for races, and the serial run
has two because a stage takes several items and stops when one of them blocks.
Two dispatches contend for a lock. Three versions let a rollback pass over one,
and five calls are create, create, create or promote, promote, rollback, the
shortest sequences with a choice of older versions. `MaxTurns` is 1 and
`MaxRounds` is 1 (30 and 3 in the code): the second of each is refused, as the
last one of the code is. In `workflow` the third item has to wait for a place
that a blocked one may hold, and two attempts are one retry (3 in the code,
8 places).

In `system`: two items and two values, of which the validator accepts the label
of one beside the data of either and that of the other never (`MCAccepts`), and one
of which a fusion may take in whole, with two edits (`MaxEdits`): the first fusion, and a fusion, patch or
override at any point after it; after the second edit open chats, which serve
for edits only, are closed before anything else happens. Two uploads and a call to fuse, two item numbers, one with both sides and one
that is always whole, a file of each kind: two tasks that overlap, with a third that fuses. Confidences on both
sides of every threshold and beyond both ends of the range that is clamped. Two
tool rounds, so that there is one after the first (3 in the code). Rule trees of every operator and on every field that the two contexts read
differently, seven items, one that both read alike and one for each difference
(`MCGoods`), and two codes so that one can fail while the other is tried. Sides of 5 inches, where the layout is tightest, and
12; four symbols and five warnings, one more than a panel prints. Two
onboarding jobs and one restart: two writers of one JSON column; three requests
each for profiles, labels and tokens, as above. Two sockets and two changes:
one that leaves while the other listens, one event before and one after a
registration. Three who draw two strokes, two who also come and go, or one with
a save. Three channels, one of each kind of transport, one retry (3 in the code): a first
and a last attempt; one change of preferences. Two
paid calls that each fit the limit and together do not, two providers.

Symmetry is used for calls, requests, rows, contents and the items of
`OrderData`, which no definition orders or names, and never with liveness.

**Fairness.** `WF(Continue(r))` of a request and `WF(Continue(d))` of a
dispatch: the asyncio loop runs every ready coroutine that is not cancelled, and
an agent's call returns or raises in the end (the OpenAI client has a default
timeout). It does not protect a coroutine from being cancelled: a frame of a
WebSocket is served inside `recv_task`, which the handler cancels when the fan-out
or the heartbeat ends first (`hitl.py:527-531`). `Cut` does that anywhere, and the
liveness properties name it as an exception. Users, operators,
sockets and process stops get no fairness. No strong fairness is assumed; the lock is first come
first served, as `asyncio.Lock` is, and the model has its queue.

`OrderWorkflow`: `WorkersRun`, because Temporal delivers every task and times
out every attempt, and `HumansInsist`: as long as an item waits, some operator
sends the signal. The second is a statement about people, not code, and it is
what the code needs: with a signal sent once (`HumansAnswerOnce`) the workflow
may hang. `Onboarding`'s `NSpec` has `WF(GoOn(j))` of each job, for
`PollingEnds` below.

## What the runs show

* A closed thread is never touched except by a request that read it live: the
  guard of the resolver is exactly as good as its read is fresh
  (`OnlyStaleReadersReopen`). Its trail always explains its status, and
  nothing is announced that is not stored.
* A close made over HTTP is announced, and a stored human message schedules a
  reply, unless the process stops or the socket it came over is torn down in
  between (`CloseIsAnnounced`, `HumanMessageIsDispatched`). In the last case the
  message stays unanswered with the thread live and nothing failed: nobody looks
  for such messages (`resolver.py:285-330`).
* However advances overlap, an item never has two OPEN threads for a stage,
  thanks to the flush before the lookup alone (`OneOpenTicket`); without the flush
  TLC finds two.
* A ticket is raised only in the commit that leaves its item blocked, at the
  ticket's stage unless another call changed the data in between, and items go
  back only by a rejection, a fusion or a call that worked on outdated data.
* Without overlap, blocks always have a thread and every item follows the stages
  in order. A rescue, which TLC tells from a fusion, puts it back before exactly
  the stage that blocked it, unless a fusion may take the item in whole.
* In one process the chat's lock works: full history, cap, no patch lost to
  another dispatch, and everyone answered whose message reached its dispatch.
* Two rule versions are live only after a commit that worked on an outdated
  read; the audit trail accounts for every live version no import wrote.

* The Temporal workflow gives no item up without a human having been asked,
  writes states along the table it never consults, never has more items under
  way than places, and ends, provided an operator repeats the signal.
* However items block, are patched, released, or fused again, one that counts
  as composed has its label in its data, among its artifacts and in an approval
  PDF; and an item becomes VALIDATED only with a label that the validator accepts
  beside its present data, by an override, or because it was VALIDATED when a
  failed fusion took it in whole and is now released (`ComposedIsStored`,
  `OnlyCleanIsValidated`). A patch made after the composition slips past the
  validator when it changes none of the three fields that are compared.
* Of two documents handled at a time, one whose sessions overlapped nobody's
  has what it said in the items, but for the fields that a fusion itself drops or
  replaces (`ExtractedIsKept`); the overlap is what loses the others, and nothing
  reports the loss.
* What an agent returns unasked has been checked, with two exceptions that the
  property names: the sample extraction that stands in for prose, and a UPC that
  the fusion agent was confident of (which changes bad UPCs only). The two flags
  `success` and `needs_hitl` are always opposite, which matters because the pipeline
  and the workflow read different ones (`AnswersAreChecked`). A chat turn that
  ran tools and does not raise never ends in silence, patches only listed fields,
  and shows another importer's document only for an order without an importer.
* A dry run never says "newly passing". Of an item that both read alike, what it
  says of the rule as tried holds in the pipeline, through imports and
  promotions of other rules as far as that can be: "newly failing" always, "unchanged"
  unless another rule fails the item or did then, an error exactly when the
  others are the same (`DryRunPredicts`).
* Template labels never overlap by the validator's boxes on cartons from 5
  inches, except that handling symbols and barcode share a corner
  (`LayoutIsClean`).
* Onboarding results, warning labels and the spending limit are broken by
  overlaps only: a commit that works on the current row loses no result and
  offers no session early (`FreshCommitsAreSound`), a label's row contradicts
  itself only after a stale decision or an import (`MixedIsStaleOrImported`),
  the counter passes the limit only if an estimate was too low or another call
  was charged in between (`OvershootIsOverlap`).
* Profile edits are never lost, thanks to the unique version; a document's
  bytes change only by one of three named races (`ProfilesAreKept`). Portal
  tokens are used twice only by requests that overlap, and the trail has both
  (`UsesAreRecorded`).
* A registered queue misses nothing and repeats nothing; in memory it is released
  with its connection, except when the hello frame could not be sent. A change
  that a registered client is never sent was refused by Redis, or announced
  between the read for its hello frame and the registration of its queue, or with
  Redis of its reader (`StreamIsSound`). Whoever enters a canvas while others draw gets every stroke
  once, from the hello frame or a broadcast, though no lock joins the two, unless a
  clear and a stroke are under way to it at once (`CanvasIsSound`; the two together are
  `LiveViewsAreSound`). What a notification dispatch returns and audits is what
  happened, where "sent" to a webhook means accepted, not delivered
  (`ResultsAreTrue`).

## Disagreements between the code and what it says

The three violation runs above, with their lines, are under `findings` in
`PROJECT.json`. The modules also state the following, in their last section;
each was checked by TLC and is violated (the instance in brackets; where it is
`system` or `workflow`, the property is added to that run's `.cfg`), but has no
run of its own.

* `TerminalIsFinal` [HitlThread, 3 requests]: `resolver.py:68` "Terminal states -- no
  further transitions allowed". A reply that read the thread OPEN and commits
  after its resolution puts it IN_PROGRESS.
* `QuietThreadIsAnnounced` [HitlThread, 3 requests]: `resolver.py:8-9` clients "learn
  about the change instantly". `record_option_select` moves a thread to
  IN_PROGRESS and announces no status.
* `SoftAdvanceOnlyRescues`, `AutoAdvanceOnlyRescues` [OrderPipeline, 1 item, 2 calls]:
  `orders.py:1529-1534` says force=false skips the stages. It does only when
  something was rescued (`:1605`), and the hook (`auto_advance.py:85`) leaves
  the argument out, which makes it FastAPI's Query object, and that is true.
* `RescueWaitsForResolution` [OrderPipeline, 1 item, 3 calls]: `orders.py:1462-1463` "whose
  HiTL threads are all resolved"; the query counts OPEN ones only, so a thread
  in progress does not hold an item back.
* `BlockIsInInbox` [OrderPipeline, 1 item, 3 calls]: `orders.py:1733-1734`; the OPEN thread
  found by the lookup is closed before the block is committed.
* `DeliveredIsFinal` [OrderPipeline, 1 item, 2 calls]: `order_processor.py:48` has no
  transition from DELIVERED; a rejection or a fusion makes one.
* `HistoryIsFull` with two workers [ChatDispatch]: `chat_dispatcher.py:24-26` "at most
  one dispatcher run per thread at a time" holds per process.
* `CapIsPerThread` [ChatDispatch, 2 dispatches]: `chat_dispatcher.py:27-28` "agent replies
  per thread"; the count starts anew with every human message.
* `AdvanceFollowsResolve` [ChatDispatch]: `chat_dispatcher.py:91` "after a successful
  auto-resolve"; the hook runs after a refused one too.
* `ActiveIsImmutable` [RuleVersions, 3 calls]: `rules.py:462-464`; an edit
  that read the version while it was staged commits after its promotion, and an
  import edits the row in place.

* `TicketHasMarker` [OrderPipeline, 1 item, 4 calls]:
  `orders.py:1724-1727` "Preserve the stage this item WAS trying to reach". An
  advance whose block happens to make the data it read writes the state alone,
  because the session sees no change of the JSON column; the marker in the row is
  then the one of a fusion that committed meanwhile, which has none, and the next
  rescue starts from the wrong stage. Three calls are too few for TLC to see it:
  it was the proof of `RaisedForBlocked`, which said this before, that failed there.
* `PatchSticks` [OrderPipeline, 1 item, 3 calls]: `chat_dispatcher.py:1008-1009`
  "if the operator and the LLM agreed on a change, it should stick"; an advance
  that read the item before writes the whole column after it
  (`orders.py:1754`), and the patch is gone.
* `PatchIsStored` [ChatDispatch, 2 dispatches, 1 value]:
  `chat_dispatcher.py:972-975` "merge `patches` into `item.data` and commit"; a
  nested patch changes the shared inner object in place (`:993`), so nothing
  differs at the top and nothing is stored, while the reply says it was.
* `ActiveWasPromoted` [RuleVersions, 3 versions, 5 calls]: `rules.py:584`
  against `:607`: "Reverse the most recent promote" activates the version below,
  promoted before or not.
* `OneSignalIsEnough` [workflow, under `WOnceSpec`, two items]:
  `order_processor.py:948`; a signal between the thread and the Event is
  dropped (`:953`) and the item waits for ever.
* `SuccessMeansLabelled` [workflow]: `order_processor.py:826`; after a signal the
  answer that asked is used as it is, so an item whose documents could not be
  read ends as a success without a label. The stage for a missing text, fused
  items or labels each pass by default.
* `PreviewIsCurrent` [system, one item, `MaxEdits = 3`]: `item_artifacts.py:183`
  "the latest die-cut SVG"; recomposing an earlier content stores no new row,
  so the preview shows the label before.
* `ValidatedIsComposed` [system]: `chat_handlers.py:37-43`; quantities and box sizes
  may be patched after the composition, and the validator compares other fields,
  so the item is VALIDATED with a label of older data.
* `OverrideIsAccepted` [system]: `order_processor.py:630-635`; the override of
  one item does not help it when the activity is judged for all items at once,
  and another item fails.
* `ClassificationIsVisible` [system]: `documents.py:327-329`; the document row is
  updated, the record that is polled is not.
* `FusionKeepsAll` [system]: `orders.py:770-772`, `:793-795` the fusion merges what
  the rows hold of both sides; fields in neither list are dropped (also the
  `net_weight` that the fusion's own weight check looks for), the agent's
  material replaces the row's even by none.
* `SentIsDelivered` [system]: `dispatcher.py:247-251`, `:333-338`; a webhook's answer
  of 3xx counts as sent, and nobody follows it.
* `NothingIsMissed` [system]: `router.py:224`, `hitl.py:510`; what is announced
  between the read for the hello frame and the registration is never sent.
* `RepliesAreKept` [system]: `chat.py:161-162` "so the visible reply is preserved
  untouched"; a block of the right shape with patches that are no object raises, and
  the operator gets no reply at all.
* `UnreadIsReviewed` [system]: `checklist_extractor.py:5`; an answer that is not
  JSON becomes a sample extraction with a confidence above the threshold.
* `CorrectedIsValid` [system]: `po_parser.py:331`; the fusion agent applies a
  suggested UPC without the check digit.
* `RefusalsAreReported`, `ProposalsAreApplied` [system]: `chat.py:196-197`,
  `:460-461`; patches in a reply that asks for tools are neither applied nor
  reported.
* `DryRunWeighsAlike` [system]: an item with a net weight alone weighs nothing
  in a dry run (`_dict_to_context`) and its net weight in the pipeline; likewise
  for its destination and dimensions.
* `BlankRulesDoNotApply` [system]: `rules.py:152-155` "short-circuits to 'Not
  applicable'"; a missing tree is always true, so the rule applies and passes.
* `DeprecatedStaysOut` [system, five `LabelCalls`]: `warning_labels.py:356-358`;
  reject, then approve, takes a deprecated label back, without any overlap.
* `CanvasesAgree` [system]: `core/line_drawing.py:133-135` a client that connects
  can "see what everyone else has already drawn"; a clear and a stroke whose
  sends overlap reach clients in different orders, and the canvases stay different.
* `CountsAgree` [system]: `line_drawing.py:237` "Flatten the current session"; the
  stroke counts of the artifact and the message are read from the session after
  the upload (`:272`, `:295`), when it may hold other strokes than the SVG.
* `PollingEnds` [Onboarding under `NSpec`, even with `MaxStops = 0`]:
  `importers.py:895-896`; a rerun whose blob is gone, a failed agent or two
  agents that overwrite each other's map leave a session in progress for ever.

Read, not modelled: `STATE_TRANSITIONS` of the workflow calls FAILED terminal;
the activities that would store item states and threads persist nothing. The
order's state is computed twice, in Python (`contracts/models.py:479-492`) and
in SQL (`ORDER_STATE_V_SQL`, `db/models.py:558-577`), which differ for an order
without items and for one whose items are all CREATED. Nothing in the
repository calls the cost breaker, starts the workflow or sends its signal.

## Proofs

`HitlThread_proofs`, for any sets of threads and requests and any number of
stops, from the module's assumptions alone (`NoThread` is no thread, the bound
is a number).

| Theorem | Says |
|---|---|
| `TypeCorrect` | `[]TypeOK` |
| `StatusExplained` | `[]StatusIsExplained` |
| `EventsBacked` | `[]EventsAreBacked` |
| `StaleReadersReopen` | `OnlyStaleReadersReopen`, from the types and what requests have read |
| `SerialImplementsLifecycle` | `SerialSpec => LifecycleSpec` |

The inductive invariant has two layers. `TypeInv` adds to the types what a
request knows (`Known`): its thread exists, and the status it read was live. It
is inductive by itself. `IInv` adds what a request has done (`Done`): once it
has committed, its rows are stored, and what is in its outbox is its own. That
is needed because `EventsAreBacked` speaks of events already published, while
the rows that back them were written several steps earlier; nothing in the
property says that they still are when `Publish` comes. Rows are never deleted
(`RowsGrow`), so whatever was explained or backed stays so. For the serial
specification `FreshInv` says that a status read is still the stored one at the
commit, which is what a row lock would give.

`RuleVersions_proofs`, for any finite set of rows, any calls and contents, and
with or without imports. The assumptions are that the set of rows is finite
(`Cardinality` means nothing otherwise) and that `None` is no row and no content.

| Theorem | Says |
|---|---|
| `TypeCorrect` | `[]TypeOK` |
| `ActiveAudited` | `[]ActiveIsAudited` |
| `SecondActiveStale` | `SecondActiveIsStale` |

Again in two layers. `TypeInv` adds that the rows a call relies on are stored
(`Known`) and so are the active ones. `ReadInv` says what a call between two of
its awaits has read and therefore will change (`Read`): a promotion does not
deactivate its own version and deactivates all the others of one of the sets it
read, a rollback restores another version than its own and once read its own as
active, an import found no active version but the row it edits. With that, the
trail is complete because every commit logs all it activates, and a commit
whose reads are still true leaves at most one active version (`FreshCommit`).

### The pipeline

`OrderPipeline_proofs`, for any items, facts and sessions, whatever overlaps.

| Theorem | Says |
|---|---|
| `TypeCorrect` | `[]TypeOK` |
| `TicketsAreUnique` | `[]OneOpenTicket` |
| `TicketsAreForBlocks` | `RaisedForBlocked` |
| `RegressIsStale` | `OnlyStaleCallsRegress` |

`TypeInv` adds to the types what is true of a call at each of its places
(`CallInv`): where its copy differs from what it read (`Placed`, `Working`),
that a ticket it carries is for an item it has blocked at that stage
(`Raising`), and what the commit of each operation stores (`Storing`). Nothing
is said of the stored rows, because any other call may have changed them; that
is why the two action properties compare with `base`. `TicketInv` adds the row locks:
a written row is one call's, and a call with a ticket has written the row of the
ticket's item and left no OPEN thread unseen (`OwnRows`, `Carrying`). So two calls
never carry tickets for one item, and no thread can be raised between a lookup
and its commit. The assumptions are that `None` is no stage, state or fact, and
that `Bare` and `Carried` are some of the items and of the facts.

`OrderPipelineSerial_proofs`, for the same constants and `SerialSpec`, calls
that do not overlap, while operators move threads at any time.

| Theorem | Says |
|---|---|
| `BlocksAreAnnounced` | `[]BlocksHaveThreads` |
| `SerialImplementsItem` | `SerialSpec => ItemSpec`, the refinement of `PipelineItem` |

`SerialInv` adds `FreshInv` (a call in progress read what is stored, every item
it released has no OPEN thread, every item it blocked has a thread or a ticket
in the call) and `LineInv` (a row is where its resume state and marker say, so a
rescue resumes before the stage that blocked). The refinement needs both: a
release of the abstract item is allowed only with no OPEN thread left, and the
thread was looked up several steps before the commit. It is proved action by
action: a step that stores nothing is a stutter of each item, a commit is one
step, or a stutter, of each item. Of the items in `Bare` neither promises
anything: a fusion that takes one in whole leaves it with markers of its past, so
`BlocksHaveThreads` and the exact place of a release are for the others, and
`PipelineItem` says so with its constant `whole`. What goes wrong with them is
`ResumesAtBlock`, the violation run.

`OrderData_proofs`, for any items, values and edits, and any set `Accepts` of
labels that the validator accepts beside any data.

| Theorem | Says |
|---|---|
| `ComposedStored` | `[]ComposedIsStored` |
| `CleanValidated` | `OnlyCleanIsValidated` |

`OInv` says of every item (`Traced`) that on the path its resume state is its
state, and that what the resume state says it reached has left its
drawing (`Drawn`), and its label with an artifact and a PDF that shows it
(`Labelled`). `ComposedIsStored` alone is not inductive: a blocked item keeps its
traces although its state promises nothing, and counts on them when it is
released. `CleanValidated` says what the code ensures, that the validator accepted
the label; that it was composed from the data beside it is false
(`ValidatedIsComposed`).

`OrderWorkflow_proofs`, for any number of items, places and attempts.

| Theorem | Says |
|---|---|
| `WTypeCorrect` | `[]WTypeOK`, with the semaphore |
| `FailedEscalated` | `[]FailedIsEscalated` |
| `PersistsByTable` | `PersistFollowsTable` |

`Inv` relates the step of a coroutine, the answer it holds, the state written
last and the existence of a thread (`Sound`), and counts those who hold a place.
An answer is always of the next state along the path, or, at the first step, of a
block, whether or not it asks for a human (`Follows`); that is why the table holds
without being consulted. `Inv` also has that a payload never
gains a text, rows or fused items (`Blank`): no activity of the workflow is ever given
something to work on, which is what `SuccessMeansLabelled` above comes from.

### The chat

`ChatDispatch_proofs`, for any dispatches, values, rounds, turns and restarts.

| Theorem | Hypothesis | Says |
|---|---|---|
| `TypeCorrect` | | `[]TypeOK` |
| `LateWritesWereLive` | | `LateWritesAreStale` |
| `RepliesSawHistory` | `OneWorker` | `[]HistoryIsFull` |
| `TurnsStayCapped` | `OneWorker` | `[]TurnsAreCapped` |
| `PatchesSurvive` | `OneWorker` | `PatchesAccumulate` |

`TypeInv` has the lock (`LockInv`): a dispatch past its check is the first of
its worker's queue. `OneWorker` (`\A v, w \in Workers : v = w`) is what the
deployment has to ensure, since the lock is one of a process; with two workers
TLC violates `HistoryIsFull`. With it, `WorkerInv` says that nobody else's message
but a human's was added since the holder read (`ReadInv`), that a stored reply's
dispatch is past its check (`RepliedInv`), that the holder has a turn left
(`TurnInv`), and that the row it is to patch is still the one it read
(`BaseInv`).

### The services, and the system

`Services_proofs` has, for each of the thirteen modules, an inductive invariant
(`PInv`, `BInv`, ...), its types, and the property the `system` run checks.

| Module | Theorem | The invariant adds |
|---|---|---|
| `Portal` | `UsesRecorded` | the last use on the trail explains the status (`StatusOf`); a use was made by a request that is over and had loaded the token before the earlier uses (`UseOf`) |
| `Notifications` | `ResultsTrue` | what each channel's result says of the messages that arrived, before, during and after its turn (`ChannelOf`) |
| `WarningLabels` | `MixedStaleOrImported` | a request's copy derives from its base by its operation (`Derived`) |
| `ChatAgents` | `ToolsAnswered` | what was found from the first round on, and in whose documents |
| `LlmCalls` | `OvershootOverlaps` | a call past its check was within the limit then (`CallOf`) |
| `ComplianceRules` | `DryRunsPredict` | what a dry run answered, it would answer still of the rules it read, which the proposal keeps (`others`) |
| `Documents` | `ExtractedKept` | what the tasks in a session have seen, and that one alone sees what is stored (`Alone`, `Preserved`) |
| `DrawingCanvas` | `CanvasSound` | a client's paper and the broadcasts under way to it make up the canvas (`Painted`), counted by who is sending |
| `ThreadStream` | `StreamSound` | what a queue got and holds is the log from where it was registered (`Served`); every change is unsent, refused or in the log, and what the hello frame does not show was announced after its read or is one of the former |
| `Agents` | `AcceptedChecked` | an outcome is that of the agent that was called |
| `ImporterProfile` | `ProfilesKept` | every version builds on the one before with values nobody used before (`BuiltOn`); there are no more versions than requests, so a newest one exists |
| `Onboarding` | `FreshCommitsSound` | what a request or a task may have made of the rows it read (`RequestCopy`, `TaskCopy`) |
| `Labels` | `LayoutClean` | the label is what one of the two generators makes of the item, the verdict is on that label |

Four of these say less than one might expect of the code, because the code does:
`ResultsTrue` has "sent" to a webhook as accepted, `ExtractedKept` excepts the fields
that a fusion drops or replaces, `AnswersChecked` names what passes unchecked, and
`DryRunsPredict` is for the items both contexts read alike. Each of the stronger
statements is under the disagreements.

`LayoutClean` is about geometry with all sizes: for every side of 5 inches or
more, the logo, the lines, the symbols, the warnings, the origin, the barcode and
the drawing of a panel each lie where a few inequalities say (`LinesPlaced` and
its neighbours), groups that lie there are apart (`GroupsApart`), and placements
that are apart are not reported (`ApartIsClean`). TLC sees 5 and 12 inches.

`SystemRunsComponents` shows that a behaviour of `MC_System` is one of each
component's specification: those not in focus stutter. From it and the theorems
above follow `SystemTypeCorrect` (`[]SystemTypeOK`), `LiveViewsSound`
(`[]LiveViewsAreSound`) and `AnswersChecked` (`[]AnswersAreChecked`).

### What the proofs assume

Nothing but the named assumptions of the modules, which TLC evaluates on every
run: sets that are counted are finite (`Artists`, `Edits`, `ItemNumbers`,
`Rules`), bounds are numbers, and values that stand for "nothing" are no values.
`ContentsAssumption` and `NotificationAssumption` say what a file can hold and
which channels there are, `OnboardingAssumption` that the protocol agent is
always among the agents (`AgentKeys` is a subset of the code's three), and
`InchesAssumption` that 12 inches, the side of the cartons every content is tried
on, is among the sizes and that a panel may carry a warning.

### What the proofs found

* `RaisedForBlocked` was false, see `TicketHasMarker` above.
* Two guards of the `CASE` in `DryRun` overlapped, for trees that raise; TLA+
  leaves open which one is taken. The error comes first now, as in the code,
  where an evaluation that raises ends the request (`dry_run.py:25-26`).
* Sample items of `Labels` used 12 inches and one warning whatever the constants
  said; the assumption now does too.

### What is only model-checked

* Liveness, which needs fairness and `ENABLED`: `CloseIsAnnounced`,
  `HumanMessageIsDispatched`, `HumanIsAnswered`, `WorkflowEnds`.
* What recursive definitions compute for every input: the value of a rule tree
  (trees are of two levels here; `DryRunPredicts` is proved from a verdict being a
  function of the rule and the context) and the length of a fold over a list.
* The three violation runs and the statements under the disagreements: they are
  counterexamples.

## Plan

Modelled and checked: every module above. Proved: every invariant and every
action property that a run checks, and both refinements. What is left to prove is
outside the runs:

1. `ChatDispatch` and two threads about one item: which of the three one-worker
   properties survive per thread.
2. `RuleVersions` without overlap: at most one active version, as a theorem about
   a serial specification, as for threads and the pipeline.
3. `OrderWorkflow`: that a coroutine that waits holds its place, as a step
   towards `WorkflowEnds`, the rest of which is fairness.
4. `Portal`, `WarningLabels`, `Onboarding`: what a row lock would give, each as a
   serial specification with the unqualified property.

## Not modelled, and why

* Order state: a fold over item states that keeps nothing (see above).
* Worker shutdown: `core/worker.py` is a stub that nothing starts.
* Prompts, text extraction from files, SVG drawing, PDF and ZIP rendering: data
  without a state machine. What the models keep of an answer, a label or a
  document is what later code looks at; the rest is free choice.
* Authentication, tenancy and roles: sequential checks before a call. The models
  work within one tenant and one role that may do everything.
* The read-only API, administration by single-row edits (tiers of budgets,
  importers' contact data), logging, metrics, tracing and provenance: they
  change nothing the system decides on.
* The legacy agents that are registered and never called by the pipeline.
* The frontend calls the API; what it passes (`force=true`,
  `orders-detail.tsx:587-591`) is among the values the models take.
* Failures of Redis beyond a publish that is refused and a reader that cannot
  start; queues of slow clients, which grow without bound.
