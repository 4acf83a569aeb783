----------------------------- MODULE Onboarding -----------------------------
(***************************************************************************)
(* Importer onboarding (api/v1/importers.py, from line 837): sessions that *)
(* collect what extraction agents find in uploaded documents, the requests *)
(* that start, feed, repeat and finalise them, and the background tasks    *)
(* that run the agents.  A request's or a task's database session reads    *)
(* the rows, awaits, and commits the attributes it changed; agents_state   *)
(* and extracted_values are one JSON column each and are written whole.    *)
(***************************************************************************)
EXTENDS Naturals, Sequences, FiniteSets

CONSTANTS
  AgentKeys,   \* _AGENT_KEYS, or some of them
  Jobs,        \* ids of requests, each served once; a result bears its job's
  NoResult,
  MaxOverlap,  \* bound on the jobs under way at once
  MaxStops     \* bound on restarts of the process

ASSUME OnboardingAssumption ==
  /\ AgentKeys \subseteq {"protocol", "warnings", "checklist"}
  /\ "protocol" \in AgentKeys
  /\ NoResult \notin Jobs
  /\ MaxStops \in Nat /\ MaxOverlap \in Nat

VARIABLES
  onb,      \* the ImporterOnboardingSession rows, oldest first
  job,      \* the requests and the tasks they left behind
  brands,   \* per profile version, the extraction it was made of
  canon,    \* the extraction last promoted into the rules and labels
  stops     \* restarts so far

nvars == <<onb, job, brands, canon, stops>>

-----------------------------------------------------------------------------
Result  == Jobs \cup {NoResult}
Session == [status : {"in_progress", "ready_for_review", "completed"},
            agents : [AgentKeys -> {"pending", "running", "completed", "failed"}],
            values : [AgentKeys -> Result]]

FreshSession == [status |-> "in_progress",
                 agents |-> [k \in AgentKeys |-> "pending"],
                 values |-> [k \in AgentKeys |-> NoResult]]

\* A job: base is what its database session read, copy what it made of it,
\* sid the onboarding session it is about, todo the agents still to run.
NoJob == [op |-> "none", pc |-> "idle", base |-> <<>>, copy |-> <<>>,
          sid |-> 0, todo |-> {}, key |-> "protocol", version |-> 0]
JobEnded(outcome) == [NoJob EXCEPT !.pc = outcome]

NInit ==
  /\ onb = <<>> /\ brands = <<>>
  /\ job = [j \in Jobs |-> NoJob]
  /\ canon = [k \in AgentKeys \ {"protocol"} |-> NoResult]
  /\ stops = 0

-----------------------------------------------------------------------------
\* What a commit stores: the changed attributes of each row, and a row that
\* is new.
Kept(base, copy, stored) == IF copy = base THEN stored ELSE copy
Stored(base, copy) ==
  LET merged == [n \in 1..Len(onb) |->
        IF n > Len(base) THEN onb[n]
        ELSE [status |-> Kept(base[n].status, copy[n].status, onb[n].status),
              agents |-> Kept(base[n].agents, copy[n].agents, onb[n].agents),
              values |-> Kept(base[n].values, copy[n].values, onb[n].values)]]
  IN IF Len(copy) = Len(base) THEN merged ELSE Append(merged, copy[Len(copy)])

Latest(ns) == CHOOSE n \in ns : \A m \in ns : m <= n
InProgress == {n \in DOMAIN onb : onb[n].status = "in_progress"}

\* A request reads the rows and changes session sid in its copy, or with sid
\* 0 adds a session to it.
Opened(op, sid, ks, change(_)) ==
  [NoJob EXCEPT !.op = op, !.pc = "commit", !.base = onb, !.sid = sid, !.todo = ks,
     !.copy = IF sid = 0 THEN Append(onb, change(FreshSession))
              ELSE [onb EXCEPT ![sid] = change(@)]]
UnderWay == {j \in Jobs : job[j].pc \in {"commit", "agents", "write"}}
BeginJob(j, c) ==
  /\ job[j].pc = "idle" /\ Cardinality(UnderWay) < MaxOverlap
  /\ job' = [job EXCEPT ![j] = c]
  /\ UNCHANGED <<onb, brands, canon, stops>>

\* start_onboarding: a session in progress is returned as it is.
BeginStart(j) ==
  /\ InProgress = {}
  /\ BeginJob(j, Opened("start", 0, {}, LAMBDA s : s))

\* upload_onboarding_documents: the agents with a document are running.
BeginUpload(j, ks) ==
  BeginJob(j, Opened("upload", IF InProgress = {} THEN 0 ELSE Latest(InProgress), ks,
    LAMBDA s : [s EXCEPT !.agents = [k \in AgentKeys |-> IF k \in ks THEN "running"
                                                        ELSE s.agents[k]]]))

\* rerun_onboarding_agent: the newest session, whatever its status; only a
\* completed one is opened again.
BeginRerun(j, k) ==
  BeginJob(j, Opened("rerun", Len(onb), {k},
    LAMBDA s : [s EXCEPT !.agents[k] = "running",
                         !.status = IF @ = "completed" THEN "in_progress" ELSE @]))

\* finalize_onboarding: every session is closed, and a profile version is
\* made of what the newest one had extracted.
BeginFinalize(j) ==
  BeginJob(j, [NoJob EXCEPT !.op = "finalize", !.pc = "commit", !.base = onb,
                 !.version = Len(brands) + 1,
                 !.copy = [n \in DOMAIN onb |-> [onb[n] EXCEPT !.status = "completed"]]])

BeginPromoteExtracted(j) ==
  /\ onb # <<>>
  /\ BeginJob(j, [NoJob EXCEPT !.op = "promote", !.pc = "commit", !.base = onb,
                               !.copy = onb])

-----------------------------------------------------------------------------
Extracted(copy) == IF copy = <<>> THEN FreshSession.values
                   ELSE copy[Len(copy)].values

\* _promote_extracted_to_canonical overwrites with what was extracted and
\* leaves the rest alone.
Promote(values) ==
  [k \in AgentKeys \ {"protocol"} |-> IF values[k] = NoResult THEN canon[k] ELSE values[k]]

\* The commit of start, upload and rerun; the agents follow in the background.
\* A rerun whose document has no blob any more answers 404 after its commit.
CommitSession(j) ==
  /\ job[j].pc = "commit" /\ job[j].op \in {"start", "upload", "rerun"}
  /\ LET c == job[j] IN
       /\ onb' = Stored(c.base, c.copy)
       /\ \/ c.todo # {} /\ job' = [job EXCEPT ![j] =
               [c EXCEPT !.pc = "agents", !.base = <<>>, !.copy = <<>>,
                         !.sid = IF @ = 0 THEN Len(onb') ELSE @]]
          \/ c.todo = {} /\ job' = [job EXCEPT ![j] = JobEnded("done")]
          \/ c.op = "rerun" /\ job' = [job EXCEPT ![j] = JobEnded("raised")]
  /\ UNCHANGED <<brands, canon, stops>>

\* The commit of finalize: the version number is unique, so a second finalize
\* that read the same latest version fails as a whole.
CommitFinalize(j) ==
  /\ job[j].pc = "commit" /\ job[j].op = "finalize"
  /\ LET c == job[j] IN
       IF c.version = Len(brands) + 1
       THEN /\ onb' = Stored(c.base, c.copy)
            /\ brands' = Append(brands, Extracted(c.copy)["protocol"])
            /\ canon' = Promote(Extracted(c.copy))
            /\ job' = [job EXCEPT ![j] = JobEnded("done")]
       ELSE /\ job' = [job EXCEPT ![j] = JobEnded("raised")]
            /\ UNCHANGED <<onb, brands, canon>>
  /\ UNCHANGED stops

CommitPromoteExtracted(j) ==
  /\ job[j].pc = "commit" /\ job[j].op = "promote"
  /\ canon' = Promote(Extracted(job[j].copy))
  /\ job' = [job EXCEPT ![j] = JobEnded("done")]
  /\ UNCHANGED <<onb, brands, stops>>

\* _run_onboarding_agent: the agent ends, and the task reads the session.  A
\* result may complete the session; a failure is only noted.
AfterRunEager(s, k) ==   \* mutant: other agents may still be running
  [s EXCEPT !.agents[k] = "completed", !.status = "ready_for_review"]
AfterRun(s, k) ==
  LET agents == [s.agents EXCEPT ![k] = "completed"]
  IN [s EXCEPT !.agents = agents,
               !.status = IF \E m \in AgentKeys : agents[m] = "running" THEN @
                          ELSE "ready_for_review"]
EndRun(j, k, success) ==
  /\ job[j].pc = "agents" /\ k \in job[j].todo
  /\ LET sid  == job[j].sid
         done == [AfterRun(onb[sid], k) EXCEPT !.values[k] = j]
         copy == [onb EXCEPT ![sid] = IF success THEN done
                                      ELSE [@ EXCEPT !.agents[k] = "failed"]]
     IN job' = [job EXCEPT ![j] = [@ EXCEPT !.pc = "write", !.base = onb,
                                            !.copy = copy, !.key = k]]
  /\ UNCHANGED <<onb, brands, canon, stops>>

\* The task's commit.  The tasks of one request run one after the other.
CommitRun(j) ==
  /\ job[j].pc = "write"
  /\ LET c == job[j]
         left == c.todo \ {c.key}
     IN /\ onb' = Stored(c.base, c.copy)
        /\ job' = [job EXCEPT ![j] =
             IF left = {} THEN JobEnded("done")
             ELSE [c EXCEPT !.pc = "agents", !.todo = left, !.base = <<>>,
                            !.copy = <<>>, !.key = "protocol"]]
  /\ UNCHANGED <<brands, canon, stops>>

\* The process stops: requests and tasks under way are gone.
StopProcess ==
  /\ stops < MaxStops
  /\ stops' = stops + 1
  /\ job' = [j \in Jobs |-> IF job[j].pc = "idle" THEN job[j] ELSE JobEnded("done")]
  /\ UNCHANGED <<onb, brands, canon>>

BeginRequest(j) ==
  \/ BeginStart(j) \/ BeginFinalize(j) \/ BeginPromoteExtracted(j)
  \/ \E ks \in SUBSET AgentKeys : BeginUpload(j, ks)
  \/ \E k \in AgentKeys : BeginRerun(j, k)

GoOn(j) ==
  \/ CommitSession(j) \/ CommitFinalize(j) \/ CommitPromoteExtracted(j)
  \/ CommitRun(j) \/ \E k \in AgentKeys, success \in BOOLEAN : EndRun(j, k, success)

NNext == StopProcess \/ \E j \in Jobs : BeginRequest(j) \/ GoOn(j)

\* Requests and tasks that have begun go on.
NSpec == NInit /\ [][NNext]_nvars /\ \A j \in Jobs : WF_nvars(GoOn(j))

-----------------------------------------------------------------------------
\* The types of the variables.
NTypeOK ==
  /\ \A n \in DOMAIN onb : onb[n] \in Session
  /\ \A n \in DOMAIN brands : brands[n] \in Result
  /\ canon \in [AgentKeys \ {"protocol"} -> Result]
  /\ \A j \in Jobs : /\ DOMAIN job[j] = DOMAIN NoJob
                     /\ job[j].sid \in 0..Len(onb) /\ job[j].todo \subseteq AgentKeys
  /\ stops \in 0..MaxStops

\* The job that commits in this step, when it had read row n as it still is.
Commits(j) == job[j].pc \in {"commit", "write"} /\ job'[j].pc # job[j].pc
FreshFor(j, n) == n \in DOMAIN job[j].base /\ job[j].base[n] = onb[n]

\* However tasks and requests overlap, only a commit that had read the session
\* before loses what an agent has extracted, or offers the session for review
\* while an agent of it runs: one working on the current row replaces an
\* agent's result only with a new result of that agent.
FreshCommitsAreSound ==
  [][\A n \in DOMAIN onb :
       LET stale == \E j \in Jobs : Commits(j) /\ ~FreshFor(j, n)
       IN /\ \A k \in AgentKeys :
               onb[n].values[k] # NoResult /\ onb'[n].values[k] # onb[n].values[k] =>
                 \/ stale
                 \/ \E j \in Jobs : Commits(j) /\ job[j].key = k /\ onb'[n].values[k] = j
          /\ onb[n].status # "ready_for_review" /\ onb'[n].status = "ready_for_review" =>
               stale \/ \A k \in AgentKeys : onb'[n].agents[k] # "running"]_nvars

Polled(n) == /\ n \in DOMAIN onb /\ onb[n].status = "in_progress"
             /\ \E k \in AgentKeys : onb[n].agents[k] # "pending"
\* importers.py:895-896, "Clients poll GET /onboarding/extraction until status
\* is not in_progress": once an agent has been started, that comes about.
PollingEnds == \A n \in 1..Cardinality(Jobs) : Polled(n) ~> ~Polled(n)
=============================================================================
