-------------------------- MODULE ThreadLifecycle --------------------------
(***************************************************************************)
(* What a human-in-the-loop thread promises its users (ThreadStatus and    *)
(* _TERMINAL in services/hitl/resolver.py): it is opened once, moves to    *)
(* IN_PROGRESS with the first human reply, takes replies only while it is  *)
(* live, is closed by exactly one request and then never changes.          *)
(***************************************************************************)
CONSTANTS Threads, Requests

VARIABLES
  status,    \* the thread's status
  replies,   \* the requests whose human reply it holds
  closings   \* the requests that closed it

lifecycle == <<status, replies, closings>>

Live == {"OPEN", "IN_PROGRESS"}
Terminal == {"RESOLVED", "ESCALATED"}

Init ==
  /\ status = [t \in Threads |-> "ABSENT"]
  /\ replies = [t \in Threads |-> {}]
  /\ closings = [t \in Threads |-> {}]

Open(t) ==
  /\ status[t] = "ABSENT"
  /\ status' = [status EXCEPT ![t] = "OPEN"]
  /\ UNCHANGED <<replies, closings>>

Reply(t, r) ==
  /\ status[t] \in Live
  /\ status' = [status EXCEPT ![t] = "IN_PROGRESS"]
  /\ replies' = [replies EXCEPT ![t] = @ \cup {r}]
  /\ UNCHANGED closings

Close(t, r, s) ==
  /\ status[t] \in Live
  /\ status' = [status EXCEPT ![t] = s]
  /\ closings' = [closings EXCEPT ![t] = {r}]
  /\ UNCHANGED replies

Next == \E t \in Threads :
          \/ Open(t)
          \/ \E r \in Requests : Reply(t, r) \/ \E s \in Terminal : Close(t, r, s)

Spec == Init /\ [][Next]_lifecycle
=============================================================================
