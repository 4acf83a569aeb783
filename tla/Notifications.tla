---------------------------- MODULE Notifications ----------------------------
(***************************************************************************)
(* The notification dispatcher (services/notifications/dispatcher.py) with *)
(* its transports, retries and audit rows, and the API through which       *)
(* operators set preferences and read in-app notifications                 *)
(* (api/v1/notifications.py).  Each dispatch is a coroutine that goes      *)
(* through the channels of its specification one after the other.          *)
(***************************************************************************)
EXTENDS Naturals, Sequences, FiniteSets

CONSTANTS
  Dispatches,   \* ids of dispatches; all of one tenant and event type
  Registered,   \* the channels a transport is registered for
  MaxRetries,   \* attempts after the first
  MaxSettings   \* bound on changes of the preferences

ASSUME NotificationAssumption ==
  /\ Registered \subseteq {"email", "slack", "pagerduty", "in_app"}
  /\ MaxRetries \in Nat /\ MaxSettings \in Nat

VARIABLES
  dispatch,   \* the coroutines
  setting,    \* InMemoryPreferenceStore: the explicit override per channel
  settings,   \* the changes of it so far
  arrived,    \* per dispatch and channel, the messages that got through
  records,    \* the AuditLog rows: dispatch, channel, status and attempts
  unread      \* the in-app rows that are unread, by dispatch and attempt

bvars == <<dispatch, setting, settings, arrived, records, unread>>

-----------------------------------------------------------------------------
Channel  == {"email", "slack", "pagerduty", "in_app"}
Channels == <<"email", "slack", "pagerduty", "in_app">>    \* spec.channels
DeliveryResult   == [status : {"sent", "muted", "skipped", "failed"}, attempts : 0..(MaxRetries + 1)]
Pending  == [status |-> "none", attempts |-> 0]

\* at is the channel in turn, tries the attempts made at it.
NewDispatch == [pc |-> "idle", at |-> 1, tries |-> 0, email |-> FALSE,
                results |-> [c \in Channel |-> Pending]]

BInit ==
  /\ dispatch = [d \in Dispatches |-> NewDispatch]
  /\ setting = [c \in Channel |-> "unset"] /\ settings = 0
  /\ arrived = [d \in Dispatches |-> [c \in Channel |-> 0]]
  /\ records = {} /\ unread = {}

IsEnabled(c) == setting[c] # "off"

-----------------------------------------------------------------------------
\* What a transport's send comes to: the message got through or not, and
\* what the dispatcher is told.  A connection that breaks after delivery is
\* reported as transient; an e-mail needs an address.  Slack and PagerDuty
\* pass any answer below 400 as ok, also a redirect, which nobody follows: the
\* message is not through then.
Outcome == [through : BOOLEAN, told : {"ok", "transient", "permanent"}]
HttpSend == Outcome
EmailSend(address) ==
  IF ~address THEN {[through |-> FALSE, told |-> "permanent"]}
  ELSE {o \in Outcome : o.told = "ok" => o.through}
\* A database error is always worth a retry; a commit may fail after it took
\* effect.
InAppSend == {o \in Outcome : o.told # "permanent" /\ (o.told = "ok" => o.through)}
Send(c, address) ==
  CASE c = "email" -> EmailSend(address) [] c = "in_app" -> InAppSend [] OTHER -> HttpSend

\* The channel's result, followed by its audit row, which may fail to be
\* written, and by the next channel.
Settle(d, result) ==
  LET c == Channels[dispatch[d].at] IN
  /\ dispatch' = [dispatch EXCEPT
       ![d].results[c] = result, ![d].tries = 0, ![d].at = @ + 1,
       ![d].pc = IF dispatch[d].at = Len(Channels) THEN "done" ELSE "running"]
  /\ \/ records' = records \cup {[by |-> d, channel |-> c, result |-> result]}
     \/ UNCHANGED records

BeginDispatch(d, address) ==
  /\ dispatch[d].pc = "idle"
  /\ dispatch' = [dispatch EXCEPT ![d].pc = "running", ![d].email = address]
  /\ UNCHANGED <<setting, settings, arrived, records, unread>>

\* A channel without a transport, or one that is muted.
PassOver(d) ==
  /\ dispatch[d].pc = "running" /\ dispatch[d].tries = 0
  /\ LET c == Channels[dispatch[d].at] IN
       \/ c \notin Registered /\ Settle(d, [status |-> "skipped", attempts |-> 0])
       \/ c \in Registered /\ ~IsEnabled(c) /\ Settle(d, [status |-> "muted", attempts |-> 0])
  /\ UNCHANGED <<setting, settings, arrived, unread>>

\* range(self._max_retries + 1).
OneAttemptLess(n) == n >= MaxRetries    \* mutant
LastAttempt(n) == n = MaxRetries + 1

\* _send_with_retry, one attempt: the preference is read before the first.
Attempt(d) ==
  LET c == Channels[dispatch[d].at]  n == dispatch[d].tries + 1 IN
  /\ dispatch[d].pc = "running" /\ c \in Registered
  /\ n > 1 \/ IsEnabled(c)
  /\ \E o \in Send(c, dispatch[d].email) :
       /\ arrived' = [arrived EXCEPT ![d][c] = @ + IF o.through THEN 1 ELSE 0]
       /\ unread' = IF c = "in_app" /\ o.through THEN unread \cup {<<d, n>>} ELSE unread
       /\ \/ o.told = "ok" /\ Settle(d, [status |-> "sent", attempts |-> n])
          \/ o.told = "permanent" /\ Settle(d, [status |-> "failed", attempts |-> n])
          \/ o.told = "transient" /\ LastAttempt(n)
             /\ Settle(d, [status |-> "failed", attempts |-> n])
          \/ o.told = "transient" /\ ~LastAttempt(n)
             /\ dispatch' = [dispatch EXCEPT ![d].tries = n] /\ UNCHANGED records
  /\ UNCHANGED <<setting, settings>>

\* update_notification_preferences: per channel, or off for all of them.
SetPreferences(on) ==
  /\ settings < MaxSettings /\ settings' = settings + 1
  /\ setting' = [c \in Channel |-> IF c \in on THEN "on" ELSE "off"]
  /\ UNCHANGED <<dispatch, arrived, records, unread>>

\* mark_read and mark_all_read.
MarkRead(rows) ==
  /\ rows # {} /\ unread' = unread \ rows
  /\ UNCHANGED <<dispatch, setting, settings, arrived, records>>

BNext ==
  \/ \E d \in Dispatches : \/ PassOver(d) \/ Attempt(d)
                           \/ \E address \in BOOLEAN : BeginDispatch(d, address)
  \/ \E on \in {{}, {"email"}, {"email", "slack", "in_app"}} : SetPreferences(on)
  \/ MarkRead(unread) \/ \E r \in unread : MarkRead({r})

BSpec == BInit /\ [][BNext]_bvars

-----------------------------------------------------------------------------
\* The types of the variables.
BTypeOK ==
  /\ \A d \in Dispatches, c \in Channel : dispatch[d].results[c] \in DeliveryResult \cup {Pending}
  /\ setting \in [Channel -> {"unset", "on", "off"}] /\ settings \in 0..MaxSettings
  /\ \A d \in Dispatches, c \in Channel : arrived[d][c] \in 0..(MaxRetries + 1)

\* What dispatch returns and audits is true: "sent" got through by e-mail and
\* in-app, after failures perhaps more than once, and was accepted by a webhook
\* at the last attempt, whether it got through or not; a muted or skipped
\* channel was never tried; only a lasting failure, or one more transient
\* failure than there are retries, counts as failed; and when the dispatch
\* returns, every channel has its result, whatever befell the others.
Webhooks == {"slack", "pagerduty"}
ResultsAreTrue ==
  \A d \in Dispatches, c \in Channel :
    LET r == dispatch[d].results[c] IN
    /\ r.status = "sent" =>
         arrived[d][c] \in (IF c \in Webhooks THEN 0 ELSE 1)..r.attempts
    /\ r.status \in {"muted", "skipped"} => arrived[d][c] = 0
    /\ r.status = "failed" /\ c = "in_app" => r.attempts = MaxRetries + 1
    /\ dispatch[d].pc = "done" =>
         (r.status = "none" <=> \A n \in DOMAIN Channels : Channels[n] # c)
    /\ \A a \in records : a.by = d /\ a.channel = c => a.result = r

\* That "sent" got through on every channel is violated: a webhook may have
\* answered with a redirect.
SentIsDelivered ==
  \A d \in Dispatches, c \in Channel :
    dispatch[d].results[c].status = "sent" => arrived[d][c] > 0
=============================================================================
