------------------------------ MODULE LlmCalls ------------------------------
(***************************************************************************)
(* A paid call to a language model: the completion cache and the fallback  *)
(* over providers (core/llm.py), and the cost breaker around it            *)
(* (core/cost_breaker.py), used as its docstring prescribes: check before  *)
(* the call, record after it.  One scope and entity; no other part of the  *)
(* source calls the breaker yet.                                           *)
(***************************************************************************)
EXTENDS Naturals, Sequences, FiniteSets

CONSTANTS
  PaidCalls,   \* ids of calls
  Prompts,     \* what is asked, as the cache tells it apart
  Costs,       \* what a call is estimated to cost, or does cost
  Limit, Warn, \* the limit of the scope, and 80% of it
  Providers    \* the number of providers to fall back on

ASSUME LlmAssumption ==
  /\ Costs \subseteq Nat \ {0} /\ Costs # {}
  /\ Limit \in Nat /\ Warn \in 0..Limit /\ Providers \in Nat \ {0}

VARIABLES
  spent,     \* the Redis counter
  expires,   \* it has a time to live
  cache,     \* the prompts whose completion is cached
  paid,      \* the calls
  costs      \* _cost_events: the kind, amount and total of each

cvars == <<spent, expires, cache, paid, costs>>

-----------------------------------------------------------------------------
\* seen is the counter and hit the cache as the call found them, asked the
\* providers that have been tried, total the counter after the charge.
NewCall == [pc |-> "idle", prompt |-> "none", estimate |-> 0, seen |-> 0,
            hit |-> FALSE, asked |-> 0, cost |-> 0, total |-> 0]
Event(kind, amount, total) == [kind |-> kind, amount |-> amount, total |-> total]

CInit ==
  /\ spent = 0 /\ expires = FALSE /\ cache = {} /\ costs = <<>>
  /\ paid = [c \in PaidCalls |-> NewCall]

-----------------------------------------------------------------------------
\* CostBreaker.check: a breach ends the call before it is made.
SpentAlone(estimate) == spent    \* mutant: the estimate is not counted in
Projected(estimate) == spent + estimate
Check(c, p, estimate) ==
  /\ paid[c].pc = "idle"
  /\ LET total == Projected(estimate) IN
       /\ costs' = IF total > Limit THEN Append(costs, Event("breach", estimate, total))
                   ELSE IF total > Warn THEN Append(costs, Event("warning", estimate, total))
                   ELSE costs
       /\ paid' = [paid EXCEPT ![c] =
            [NewCall EXCEPT !.prompt = p, !.estimate = estimate, !.seen = spent,
                            !.pc = IF total > Limit THEN "refused" ELSE "lookup"]]
  /\ UNCHANGED <<spent, expires, cache>>

\* complete_with_cache; Redis' errors count as a miss.
Lookup(c) ==
  /\ paid[c].pc = "lookup"
  /\ \/ /\ paid[c].prompt \in cache
        /\ paid' = [paid EXCEPT ![c].pc = "record", ![c].hit = TRUE]
     \/ paid' = [paid EXCEPT ![c].pc = "asking"]
  /\ UNCHANGED <<spent, expires, cache, costs>>

\* FallbackProvider.complete: each provider is asked once, in order; when the
\* last one fails the call raises, and nothing is recorded.
AskProvider(c, cost) ==
  /\ paid[c].pc = "asking"
  /\ \/ paid' = [paid EXCEPT ![c].pc = "store", ![c].cost = cost]
     \/ paid' = [paid EXCEPT ![c].asked = @ + 1,
                             ![c].pc = IF paid[c].asked + 1 = Providers THEN "raised" ELSE @]
  /\ UNCHANGED <<spent, expires, cache, costs>>

\* aput, whose failure is only logged.
StoreCompletion(c) ==
  /\ paid[c].pc = "store"
  /\ \/ cache' = cache \cup {paid[c].prompt}
     \/ UNCHANGED cache
  /\ paid' = [paid EXCEPT ![c].pc = "record"]
  /\ UNCHANGED <<spent, expires, costs>>

\* CostBreaker.record: INCRBYFLOAT, then the time to live if there is none.
Record(c) ==
  /\ paid[c].pc = "record"
  /\ spent' = spent + paid[c].cost
  /\ paid' = [paid EXCEPT ![c].pc = "expiry", ![c].total = spent']
  /\ UNCHANGED <<expires, cache, costs>>
SetExpiry(c) ==
  /\ paid[c].pc = "expiry"
  /\ expires' = TRUE
  /\ costs' = Append(costs, Event("charge", paid[c].cost, paid[c].total))
  /\ paid' = [paid EXCEPT ![c].pc = "done"]
  /\ UNCHANGED <<spent, cache>>

\* The key expires, or an administrator resets it.
Reset ==
  /\ spent > 0
  /\ spent' = 0 /\ expires' = FALSE
  /\ UNCHANGED <<cache, paid, costs>>
Forget == cache # {} /\ cache' = {} /\ UNCHANGED <<spent, expires, paid, costs>>

CNext ==
  \/ Reset \/ Forget
  \/ \E c \in PaidCalls :
       \/ Lookup(c) \/ StoreCompletion(c) \/ Record(c) \/ SetExpiry(c)
       \/ \E cost \in Costs : AskProvider(c, cost) \/ \E p \in Prompts : Check(c, p, cost)

CSpec == CInit /\ [][CNext]_cvars

-----------------------------------------------------------------------------
\* The types of the variables.
CTypeOK ==
  /\ spent \in Nat /\ expires \in BOOLEAN /\ cache \subseteq Prompts
  /\ \A c \in PaidCalls : paid[c].asked \in 0..Providers /\ paid[c].cost \in Costs \cup {0}

\* The counter passes the limit only when a charge turns out higher than its
\* estimate, or another call was charged between this one's check and its
\* charge: a call that is alone never exceeds it.  An answer from the cache
\* is never charged.
OvershootIsOverlap ==
  [][\A c \in PaidCalls :
       spent' > Limit /\ spent' # spent /\ paid[c].pc = "record" /\ paid'[c].pc # "record" =>
         /\ paid[c].cost > paid[c].estimate \/ paid[c].seen # spent
         /\ ~paid[c].hit]_cvars
=============================================================================
