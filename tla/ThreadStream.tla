---------------------------- MODULE ThreadStream ----------------------------
(***************************************************************************)
(* The live stream of one HiTL thread: the WebSocket endpoint of           *)
(* api/v1/hitl.py and the two message routers of services/hitl/router.py.  *)
(* A change of the thread is committed first and announced later           *)
(* (HitlThread has the details); here the n-th committed change is the     *)
(* event n.  What a client sends over its socket becomes such a change.    *)
(***************************************************************************)
EXTENDS Naturals, Sequences, FiniteSets

CONSTANTS
  Sockets,     \* ids of connections, each opened once
  MaxChanges   \* bound on the changes of the thread

ASSUME StreamAssumption == MaxChanges \in Nat

VARIABLES
  transport,   \* the router installed: "memory" or "redis"
  changes,     \* the changes of the thread committed so far
  unsent,      \* the changes committed and not announced yet
  refused,     \* the changes Redis did not take the announcement of
  log,         \* the events announced, in the order the router took them
  bucket,      \* the sockets whose queue receives events
  starting,    \* the sockets whose reader has not subscribed with Redis yet
  sock         \* the connections

svars == <<transport, changes, unsent, refused, log, bucket, starting, sock>>

-----------------------------------------------------------------------------
End == 0    \* the sentinel that closes an iterator

\* hello is the change shown by the hello frame, opened and since the numbers of
\* events announced when that was read and when the queue was registered; queue
\* also stands for what Redis has buffered for the reader.
NoSocket == [pc |-> "closed", hello |-> 0, opened |-> 0, since |-> 0,
             queue |-> <<>>, got |-> <<>>]

SInit ==
  /\ transport \in {"memory", "redis"}
  /\ changes = 0 /\ unsent = {} /\ refused = {} /\ log = <<>> /\ bucket = {} /\ starting = {}
  /\ sock = [s \in Sockets |-> NoSocket]

-----------------------------------------------------------------------------
\* A request, or a client's frame, changes the thread and commits.
Change ==
  /\ changes < MaxChanges
  /\ changes' = changes + 1 /\ unsent' = unsent \cup {changes + 1}
  /\ UNCHANGED <<transport, refused, log, bucket, starting, sock>>

\* publish: every registered queue gets the event.  Requests announce in any
\* order; Redis may refuse, which is only logged.
Publish(n) ==
  /\ n \in unsent /\ unsent' = unsent \ {n}
  /\ \/ /\ log' = Append(log, n) /\ refused' = refused
        /\ sock' = [s \in Sockets |-> IF s \in bucket
                                      THEN [sock[s] EXCEPT !.queue = Append(@, n)] ELSE sock[s]]
     \/ transport = "redis" /\ refused' = refused \cup {n} /\ UNCHANGED <<log, sock>>
  /\ UNCHANGED <<transport, changes, bucket, starting>>

\* The endpoint loads the thread before it accepts the connection.
Open(s) ==
  /\ sock[s].pc = "closed"
  /\ sock' = [sock EXCEPT ![s].pc = "accepting", ![s].hello = changes, ![s].opened = Len(log)]
  /\ UNCHANGED <<transport, changes, unsent, refused, log, bucket, starting>>

\* subscribe: in memory the queue is registered at once; for Redis a reader
\* task is started, which will subscribe, or fail and close the queue.
Subscribe(s) ==
  /\ sock[s].pc = "accepting"
  /\ sock' = [sock EXCEPT ![s].pc = "greeting", ![s].since = Len(log)]
  /\ IF transport = "memory" THEN bucket' = bucket \cup {s} /\ starting' = starting
     ELSE starting' = starting \cup {s} /\ bucket' = bucket
  /\ UNCHANGED <<transport, changes, unsent, refused, log>>
Reader(s) ==
  /\ s \in starting /\ starting' = starting \ {s}
  /\ \/ bucket' = bucket \cup {s} /\ sock' = [sock EXCEPT ![s].since = Len(log)]
     \/ bucket' = bucket /\ sock' = [sock EXCEPT ![s].queue = Append(@, End)]
  /\ UNCHANGED <<transport, changes, unsent, refused, log>>

\* The hello frame is sent before the loops are under way: when the client
\* has left by then, the handler raises and nothing unsubscribes.
Greet(s) ==
  /\ sock[s].pc = "greeting"
  /\ \E pc \in {"live", "raised"} : sock' = [sock EXCEPT ![s].pc = pc]
  /\ UNCHANGED <<transport, changes, unsent, refused, log, bucket, starting>>

\* _fan_out_loop; the sentinel ends it and the iterator, of which unsubscribe
\* then has nothing left to do.
Forward(s) ==
  /\ sock[s].pc = "live" /\ sock[s].queue # <<>>
  /\ sock' = [sock EXCEPT ![s].queue = Tail(@),
                          ![s].got = IF Head(sock[s].queue) = End THEN @
                                     ELSE Append(@, Head(sock[s].queue)),
                          ![s].pc = IF Head(sock[s].queue) = End THEN "ended" ELSE @]
  /\ UNCHANGED <<transport, changes, unsent, refused, log, bucket, starting>>

\* The client disconnects, sends what is no JSON, or is silent for two
\* heartbeats; whichever loop ends first ends the others.
Hangup(s) ==
  /\ sock[s].pc = "live"
  /\ sock' = [sock EXCEPT ![s].pc = "ending"]
  /\ UNCHANGED <<transport, changes, unsent, refused, log, bucket, starting>>

\* unsubscribe closes the iterator.  In memory the queue leaves the thread's
\* bucket, which goes when its last queue does; Redis' reader is only told.
PopBucket(s) ==      \* mutant: the bucket goes with any of its queues
  /\ sock[s].pc = "ending"
  /\ sock' = [sock EXCEPT ![s].pc = "ended", ![s].queue = Append(@, End)]
  /\ bucket' = IF transport = "memory" THEN {} ELSE bucket
  /\ UNCHANGED <<transport, changes, unsent, refused, log, starting>>
Unsubscribe(s) ==
  /\ sock[s].pc = "ending"
  /\ sock' = [sock EXCEPT ![s].pc = "ended", ![s].queue = Append(@, End)]
  /\ bucket' = IF transport = "memory" THEN bucket \ {s} ELSE bucket
  /\ UNCHANGED <<transport, changes, unsent, refused, log, starting>>

\* A reader that was told so stops when its wait for the next event is over.
ReaderStops(s) ==
  /\ transport = "redis" /\ s \in bucket /\ sock[s].pc = "ended"
  /\ bucket' = bucket \ {s}
  /\ sock' = [sock EXCEPT ![s].queue = Append(@, End)]
  /\ UNCHANGED <<transport, changes, unsent, refused, log, starting>>

\* aclose: every registered queue is closed.  The readers are cancelled, one
\* that has not subscribed yet without closing its queue.
Sever ==
  /\ bucket \cup starting # {} /\ bucket' = {} /\ starting' = {}
  /\ sock' = [s \in Sockets |-> IF s \in bucket THEN [sock[s] EXCEPT !.queue = Append(@, End)]
                                ELSE sock[s]]
  /\ UNCHANGED <<transport, changes, unsent, refused, log>>

SNext ==
  \/ Change \/ Sever \/ \E n \in unsent : Publish(n)
  \/ \E s \in Sockets : \/ Open(s) \/ Subscribe(s) \/ Reader(s) \/ Greet(s)
                        \/ Forward(s) \/ Hangup(s) \/ Unsubscribe(s) \/ ReaderStops(s)

SSpec == SInit /\ [][SNext]_svars

-----------------------------------------------------------------------------
\* The types of the variables.
STypeOK ==
  /\ changes \in 0..MaxChanges /\ unsent \cup refused \subseteq 1..changes
  /\ bucket \cup starting \subseteq Sockets
  /\ \A s \in Sockets : /\ sock[s].hello \in 0..changes
                         /\ sock[s].opened \in 0..Len(log) /\ sock[s].since \in 0..Len(log)

\* What a connected client has or will be sent is every event the router took
\* since the queue was registered, in that order and once, however sockets
\* come and go; in memory a live client's queue is registered until it is severed.
Received(s)  == sock[s].got \o sock[s].queue
Closed(s)    == \E n \in DOMAIN sock[s].queue : sock[s].queue[n] = End
Since(s)     == SubSeq(log, sock[s].since + 1, Len(log))
Connected(s) == s \in bucket /\ sock[s].pc # "ended"
NothingIsSkipped ==
  \A s \in Sockets :
    /\ Connected(s) => Received(s) = Since(s)
    /\ sock[s].pc = "live" /\ transport = "memory" /\ ~Closed(s) => s \in bucket

\* A change that a connected client neither saw in the hello frame nor is sent
\* is not announced yet, was refused by Redis, or was announced between the read
\* for that frame and the registration of the queue: with Redis that lies after
\* subscribe has returned (router.py).
LostAtTheStart(s, n) == \E i \in (sock[s].opened + 1)..sock[s].since : log[i] = n
LossesAreKnown ==
  \A s \in Sockets : Connected(s) =>
    \A n \in (sock[s].hello + 1)..changes :
      \/ n \in unsent \cup refused
      \/ LostAtTheStart(s, n)
      \/ \E i \in DOMAIN Received(s) : Received(s)[i] = n

\* In memory a queue outlives its connection only when the hello frame could
\* not be sent.
QueuesAreReleased == transport = "memory" => \A s \in bucket : sock[s].pc \notin {"closed", "ended"}

StreamIsSound == NothingIsSkipped /\ LossesAreKnown /\ QueuesAreReleased

\* That a client is sent every announced change its hello frame does not show
\* (the endpoint's "hello with current status", followed by all events), is
\* violated: in memory by what is announced while the connection is accepted,
\* with Redis until its reader has subscribed.
NothingIsMissed ==
  \A s \in Sockets : Connected(s) =>
    \A n \in (sock[s].hello + 1)..changes : ~LostAtTheStart(s, n)
=============================================================================
