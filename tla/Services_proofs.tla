--------------------------- MODULE Services_proofs ---------------------------
(***************************************************************************)
(* Proofs about the services beside the pipeline, each for any constants:  *)
(* portal, notifications, warning labels, chat agents, budget, compliance  *)
(* rules, documents, canvas, thread stream, agents, importer profiles,     *)
(* onboarding and labels; and about the system that composes them, which   *)
(* takes the types and properties over from its components.                *)
(***************************************************************************)
EXTENDS MC_System, OrderData_proofs, FiniteSetTheorems, SequenceTheorems,
        WellFoundedInduction, TLAPS

-----------------------------------------------------------------------------
(* Portal: UsesAreRecorded.                                                *)

\* The operations that use a token up; a row of the tokens and of the trail.
Terminal == {"approve", "reject", "confirm"}
Row  == [role : Roles, status : {"active", "approved", "rejected", "confirmed"},
         expired : BOOLEAN]
Mark == [op : Terminal \cup {"created", "download"}, token : Tokens,
         by : PortalCalls \cup {"ops"}]

\* The types the proof keeps.
PTypes ==
  /\ token \in [Tokens -> Row \cup {NoToken}]
  /\ visit \in [PortalCalls -> [op : Terminal \cup {"none", "download", "done"},
                                token : Tokens \cup {"none"}, since : Nat]]
  /\ trail \in Seq(Mark)

\* The status is that of the last use.
StatusOf(t) ==
  IF token[t] = NoToken THEN Uses(t) = {}
  ELSE IF Uses(t) = {} THEN token[t].status = "active"
  ELSE \E n \in Uses(t) : /\ \A u \in Uses(t) : u <= n
                          /\ token[t].status = VisitOutcome[trail[n].op]

\* A use was made by a request that is over, for a token of its role, and was
\* not on record yet when later ones were loaded.
UseOf(t) ==
  \A n \in Uses(t) :
    /\ trail[n].by \in PortalCalls /\ visit[trail[n].by].op = "done"
    /\ trail[n].op = "confirm" <=> token[t].role = "printer"
    /\ \A m \in Uses(t) : m < n => visit[trail[n].by].since < m

\* A request under way has loaded a token of its role, before any of the uses
\* that are on record by now.
VisitOf(c) ==
  /\ visit[c].op \in Terminal \cup {"download"} =>
       visit[c].token \in Tokens /\ token[visit[c].token] # NoToken
  /\ visit[c].op \in Terminal =>
       /\ visit[c].op = "confirm" <=> token[visit[c].token].role = "printer"
       /\ visit[c].since <= Len(trail)
       /\ \A m \in Uses(visit[c].token) : visit[c].since < m

\* The inductive invariant.
PInv == /\ PTypes
        /\ \A t \in Tokens : StatusOf(t) /\ UseOf(t)
        /\ \A c \in PortalCalls : VisitOf(c)

\* The actions that use a token.
LEMMA Outcomes ==
  /\ DOMAIN VisitOutcome = Terminal
  /\ VisitOutcome["approve"] = "approved" /\ VisitOutcome["reject"] = "rejected"
  /\ VisitOutcome["confirm"] = "confirmed"
BY DEF VisitOutcome, Terminal

\* No token at first.
LEMMA PInitInv == PInit => PInv
<1> SUFFICES ASSUME PInit PROVE PInv
  OBVIOUS
<1>1. <<>> \in Seq(Mark) /\ DOMAIN trail = {}
  BY DEF PInit
<1>2. \A t \in Tokens : Uses(t) = {}
  BY <1>1 DEF Uses
<1>3. PTypes
  <2>1. NoVisit \in [op : Terminal \cup {"none", "download", "done"},
                     token : Tokens \cup {"none"}, since : Nat]
    BY DEF NoVisit
  <2> QED BY <1>1, <2>1 DEF PInit, PTypes
<1>4. \A t \in Tokens : StatusOf(t) /\ UseOf(t)
  BY <1>2 DEF StatusOf, UseOf, PInit
<1>5. \A c \in PortalCalls : VisitOf(c)
  BY DEF VisitOf, PInit, NoVisit, Terminal
<1> QED BY <1>3, <1>4, <1>5 DEF PInv

\* What an entry adds to the uses of a token.
LEMMA UsesAppend ==
  ASSUME PTypes, NEW mark \in Mark, trail' = Append(trail, mark), NEW t \in Tokens
  PROVE  /\ trail' \in Seq(Mark) /\ Len(trail') = Len(trail) + 1 /\ Len(trail) \in Nat
         /\ trail'[Len(trail) + 1] = mark
         /\ Uses(t) \subseteq 1..Len(trail) /\ \A n \in Uses(t) : trail'[n] = trail[n]
         /\ Uses(t)' = IF mark.token = t /\ mark.op \in Terminal
                       THEN Uses(t) \cup {Len(trail) + 1} ELSE Uses(t)
<1>1. /\ trail \in Seq(Mark) /\ trail' \in Seq(Mark) /\ Len(trail) \in Nat
      /\ Len(trail') = Len(trail) + 1 /\ trail'[Len(trail) + 1] = mark
      /\ \A n \in 1..Len(trail) : trail'[n] = trail[n]
      /\ DOMAIN trail = 1..Len(trail) /\ DOMAIN trail' = 1..(Len(trail) + 1)
  BY DEF PTypes
<1>2. 1..(Len(trail) + 1) = 1..Len(trail) \cup {Len(trail) + 1}
  BY <1>1
<1>3. /\ Uses(t) = {n \in 1..Len(trail) : trail[n].token = t /\ trail[n].op \in Terminal}
      /\ Uses(t)' = {n \in 1..(Len(trail) + 1) :
                       trail'[n].token = t /\ trail'[n].op \in Terminal}
  BY <1>1, Outcomes DEF Uses
<1>4. Uses(t)' = IF mark.token = t /\ mark.op \in Terminal
                 THEN Uses(t) \cup {Len(trail) + 1} ELSE Uses(t)
  BY <1>1, <1>2, <1>3
<1> QED BY <1>1, <1>3, <1>4


\* A token is created before it is used.
LEMMA CreateStep ==
  ASSUME PInv, NEW t \in Tokens, NEW role \in Roles, CreateToken(t, role)
  PROVE  PInv'
<1> DEFINE mark == [op |-> "created", token |-> t, by |-> "ops"]
           row  == [role |-> role, status |-> "active", expired |-> FALSE]
<1>1. /\ token[t] = NoToken /\ token' = [token EXCEPT ![t] = row] /\ visit' = visit
      /\ trail' = Append(trail, mark) /\ mark \in Mark /\ mark.op \notin Terminal
      /\ row \in Row /\ row # NoToken /\ row.status = "active"
  BY DEF CreateToken, Mark, Row, NoToken, Terminal
<1> HIDE DEF mark, row
<1>2. PTypes /\ token \in [Tokens -> Row \cup {NoToken}]
  BY DEF PInv, PTypes
<1>3. PTypes'
  BY <1>1, <1>2, UsesAppend DEF PTypes
<1>4. \A s \in Tokens : Uses(s)' = Uses(s) /\ \A n \in Uses(s) : trail'[n] = trail[n]
  BY <1>1, <1>2, UsesAppend
<1>5. \A s \in Tokens : StatusOf(s) /\ UseOf(s)
  BY DEF PInv
<1>6. ASSUME NEW s \in Tokens PROVE StatusOf(s)' /\ UseOf(s)'
  <2>1. CASE s = t
    <3>1. token'[s] = row /\ Uses(s)' = {}
      BY <1>1, <1>2, <1>4, <1>5, <2>1 DEF StatusOf
    <3> QED BY <1>1, <3>1 DEF StatusOf, UseOf
  <2>2. CASE s # t
    <3>1. token'[s] = token[s]
      BY <1>1, <1>2, <2>2
    <3>2. StatusOf(s)'
      BY <1>4, <1>5, <3>1 DEF StatusOf
    <3>3. UseOf(s)'
      <4>1. ASSUME NEW n \in Uses(s)
            PROVE  /\ trail'[n].by \in PortalCalls /\ visit'[trail'[n].by].op = "done"
                   /\ trail'[n].op = "confirm" <=> token'[s].role = "printer"
                   /\ \A m \in Uses(s) : m < n => visit'[trail'[n].by].since < m
        <5>1. trail'[n] = trail[n] /\ visit' = visit
          BY <1>1, <1>4
        <5>2. UseOf(s)
          BY <1>5
        <5> QED BY <3>1, <5>1, <5>2 DEF UseOf
      <4>2. Uses(s)' = Uses(s)
        BY <1>4
      <4> QED BY <4>1, <4>2 DEF UseOf
    <3> QED BY <3>2, <3>3
  <2> QED BY <2>1, <2>2
<1>7. ASSUME NEW c \in PortalCalls PROVE VisitOf(c)'
  <2>1. VisitOf(c)
    BY DEF PInv
  <2>2. Len(trail') = Len(trail) + 1 /\ Len(trail) \in Nat /\ visit[c].since \in Nat
    BY <1>1, <1>2, UsesAppend DEF PTypes
  <2>3. visit[c].token \in Tokens /\ token[visit[c].token] # NoToken
          => token'[visit[c].token] = token[visit[c].token]
    BY <1>1, <1>2
  <2>4. visit[c].op \in Terminal \cup {"download"} =>
          visit[c].token \in Tokens /\ token'[visit[c].token] = token[visit[c].token]
            /\ token[visit[c].token] # NoToken
            /\ Uses(visit[c].token)' = Uses(visit[c].token)
    <3>1. visit[c].token \in Tokens => Uses(visit[c].token)' = Uses(visit[c].token)
      BY <1>1, <1>4
    <3> QED BY <2>1, <2>3, <3>1 DEF VisitOf
  <2> QED BY <1>1, <2>1, <2>2, <2>4 DEF VisitOf
<1> QED BY <1>3, <1>6, <1>7 DEF PInv

\* The expiry changes neither role nor status.
LEMMA ExpireStep ==
  ASSUME PInv, NEW t \in Tokens, Expire(t)
  PROVE  PInv'
<1> DEFINE row == [token[t] EXCEPT !.expired = TRUE]
<1>1. token[t] # NoToken /\ token' = [token EXCEPT ![t] = row] /\ visit' = visit /\ trail' = trail
  BY DEF Expire
<1>2. token \in [Tokens -> Row \cup {NoToken}]
  BY DEF PInv, PTypes
<1>3. row \in Row /\ row.role = token[t].role /\ row.status = token[t].status /\ row # NoToken
  BY <1>1, <1>2 DEF Row, NoToken, Roles
<1> HIDE DEF row
<1>4. \A s \in Tokens : /\ token'[s].role = token[s].role /\ token'[s].status = token[s].status
                        /\ (token'[s] = NoToken <=> token[s] = NoToken)
  BY <1>1, <1>2, <1>3
<1>5. PTypes'
  BY <1>1, <1>3 DEF PInv, PTypes
<1>6. \A s \in Tokens : Uses(s)' = Uses(s)
  BY <1>1 DEF Uses
<1>7. \A s \in Tokens : StatusOf(s)' /\ UseOf(s)'
  BY <1>1, <1>4, <1>6 DEF PInv, StatusOf, UseOf
<1>8. ASSUME NEW c \in PortalCalls PROVE VisitOf(c)'
  <2>1. VisitOf(c)
    BY DEF PInv
  <2> QED BY <1>1, <1>4, <1>6, <2>1 DEF VisitOf
<1> QED BY <1>5, <1>7, <1>8 DEF PInv

\* A request loads an active token, which was not used, or downloads.
LEMMA EnterStep ==
  ASSUME PInv, NEW c \in PortalCalls, NEW t \in Tokens, NEW op \in Terminal \cup {"download"},
         NEW role \in Roles, Usable(t, role), Enter(c, op, t),
         op \in Terminal => token[t].status = "active" /\ (op = "confirm" <=> role = "printer")
  PROVE  PInv'
<1> DEFINE seen == [op |-> op, token |-> t, since |-> Len(trail)]
<1>1. /\ visit[c] = NoVisit /\ visit' = [visit EXCEPT ![c] = seen]
      /\ token' = token /\ trail' = trail
  BY DEF Enter
<1>2. PTypes /\ Len(trail) \in Nat
  BY DEF PInv, PTypes
<1>3. seen.op = op /\ seen.token = t /\ seen.since = Len(trail)
  OBVIOUS
<1>4. seen \in [op : Terminal \cup {"none", "download", "done"},
                token : Tokens \cup {"none"}, since : Nat]
  BY <1>2
<1> HIDE DEF seen
<1>5. PTypes'
  BY <1>1, <1>2, <1>4 DEF PTypes
<1>6. visit'[c] = seen /\ \A b \in PortalCalls \ {c} : visit'[b] = visit[b]
  BY <1>1, <1>2 DEF PTypes
<1>7. \A s \in Tokens : Uses(s)' = Uses(s)
  BY <1>1 DEF Uses
<1>8. ASSUME NEW s \in Tokens PROVE StatusOf(s)' /\ UseOf(s)'
  <2>1. StatusOf(s) /\ UseOf(s)
    BY DEF PInv
  <2>2. \A n \in Uses(s) : trail[n].by # c
    BY <1>1, <2>1 DEF UseOf, NoVisit
  <2>3. StatusOf(s)'
    BY <1>1, <1>7, <2>1 DEF StatusOf
  <2>4. UseOf(s)'
    BY <1>1, <1>6, <1>7, <2>1, <2>2 DEF UseOf
  <2> QED BY <2>3, <2>4
<1>9. ASSUME NEW b \in PortalCalls PROVE VisitOf(b)'
  <2>1. CASE b = c
    <3>1. token[t].role = role /\ token[t] # NoToken
      BY DEF Usable, NoToken, Roles
    <3>2. op \in Terminal => Uses(t) = {}
      <4> SUFFICES ASSUME op \in Terminal, Uses(t) # {} PROVE FALSE
        OBVIOUS
      <4>1. PICK n \in Uses(t) : token[t].status = VisitOutcome[trail[n].op]
        BY <3>1 DEF PInv, StatusOf
      <4>2. trail[n].op \in Terminal
        BY Outcomes DEF Uses
      <4> QED BY <4>1, <4>2, Outcomes DEF Terminal
    <3> QED BY <1>1, <1>2, <1>3, <1>6, <1>7, <2>1, <3>1, <3>2 DEF VisitOf
  <2>2. CASE b # c
    <3>1. VisitOf(b) /\ visit'[b] = visit[b]
      BY <1>6, <2>2 DEF PInv
    <3> QED BY <1>1, <1>7, <3>1 DEF VisitOf
  <2> QED BY <2>1, <2>2
<1> QED BY <1>5, <1>8, <1>9 DEF PInv


\* The commit of a terminal action is the token's next use; that of a download
\* is none.
LEMMA CommitStep ==
  ASSUME PInv, NEW c \in PortalCalls, CommitVisit(c)
  PROVE  PInv'
<1> DEFINE v    == visit[c]
           mark == [op |-> v.op, token |-> v.token, by |-> c]
<1>1. PTypes /\ VisitOf(c) /\ v.op \in Terminal \cup {"download"}
  BY DEF PInv, PTypes, CommitVisit
<1>2. v.token \in Tokens /\ token[v.token] # NoToken /\ v.since \in Nat
  BY <1>1 DEF VisitOf, PTypes
<1>3. mark \in Mark /\ mark.token = v.token /\ mark.op = v.op /\ mark.by = c
  BY <1>1, <1>2 DEF Mark
<1>4. /\ visit' = [visit EXCEPT ![c].op = "done"]
      /\ v.op \in Terminal =>
           /\ trail' = Append(trail, mark)
           /\ token' = [token EXCEPT ![v.token].status = VisitOutcome[v.op]]
      /\ v.op = "download" => token' = token /\ (trail' = Append(trail, mark) \/ trail' = trail)
  BY <1>1 DEF CommitVisit, Terminal
<1>5. /\ visit'[c].op = "done" /\ visit'[c].since = v.since
      /\ \A b \in PortalCalls \ {c} : visit'[b] = visit[b]
      /\ visit' \in [PortalCalls -> [op : Terminal \cup {"none", "download", "done"},
                                     token : Tokens \cup {"none"}, since : Nat]]
  BY <1>1, <1>4 DEF PTypes
<1> DEFINE N == Len(trail) + 1
<1>6. /\ Len(trail) \in Nat /\ Len(trail) <= Len(trail') /\ trail' \in Seq(Mark)
      /\ \A s \in Tokens : Uses(s) \subseteq 1..Len(trail) /\ \A n \in Uses(s) : trail'[n] = trail[n]
      /\ v.op \in Terminal => /\ trail'[N] = mark /\ Len(trail') = N
                              /\ \A s \in Tokens : Uses(s)' = IF s = v.token
                                   THEN Uses(s) \cup {N} ELSE Uses(s)
      /\ v.op = "download" => \A s \in Tokens : Uses(s)' = Uses(s)
  <2> HIDE DEF v, mark
  <2>1. CASE trail' = Append(trail, mark)
    <3>1. /\ Len(trail) \in Nat /\ Len(trail') = N /\ trail' \in Seq(Mark) /\ trail'[N] = mark
          /\ \A s \in Tokens : /\ Uses(s) \subseteq 1..Len(trail)
                               /\ \A n \in Uses(s) : trail'[n] = trail[n]
                               /\ Uses(s)' = IF mark.token = s /\ mark.op \in Terminal
                                             THEN Uses(s) \cup {N} ELSE Uses(s)
      BY <1>1, <1>2, <1>3, <2>1, UsesAppend
    <3>2. "download" \notin Terminal
      BY DEF Terminal
    <3> HIDE DEF N
    <3>3. Len(trail) <= Len(trail')
      BY <3>1 DEF N
    <3> QED BY <1>3, <3>1, <3>2, <3>3
  <2>2. CASE trail' = trail /\ v.op = "download"
    <3>1. \A s \in Tokens : Uses(s) \subseteq 1..Len(trail) /\ Uses(s)' = Uses(s)
      BY <1>1, <2>2 DEF Uses, PTypes
    <3> QED BY <1>1, <2>2, <3>1 DEF PTypes, Terminal
  <2> QED BY <1>1, <1>4, <2>1, <2>2
<1>7. /\ token' \in [Tokens -> Row \cup {NoToken}]
      /\ \A s \in Tokens : /\ token'[s].role = token[s].role
                           /\ (token'[s] = NoToken <=> token[s] = NoToken)
                           /\ s # v.token \/ v.op = "download" => token'[s] = token[s]
      /\ v.op \in Terminal => token'[v.token].status = VisitOutcome[v.op]
  <2> HIDE DEF mark
  <2>1. CASE v.op \in Terminal
    <3> DEFINE row == [token[v.token] EXCEPT !.status = VisitOutcome[v.op]]
    <3>1. token[v.token] \in Row /\ VisitOutcome[v.op] \in {"approved", "rejected", "confirmed"}
      BY <1>1, <1>2, <2>1, Outcomes DEF PTypes, Terminal
    <3>2. /\ row \in Row /\ row.role = token[v.token].role /\ row.status = VisitOutcome[v.op]
          /\ row # NoToken
      BY <3>1 DEF Row, NoToken, Roles
    <3>3. token' = [token EXCEPT ![v.token] = row]
      BY <1>4, <2>1
    <3>4. v.op # "download"
      BY <2>1 DEF Terminal
    <3> HIDE DEF row, v
    <3> QED BY <1>1, <1>2, <3>2, <3>3, <3>4 DEF PTypes
  <2>2. CASE v.op = "download"
    <3>1. token' = token
      BY <1>4, <2>2
    <3> QED BY <1>1, <2>2, <3>1 DEF PTypes, Terminal
  <2> QED BY <1>1, <2>1, <2>2
<1> HIDE DEF mark
<1>8. PTypes'
  BY <1>5, <1>6, <1>7 DEF PTypes
<1>9. ASSUME NEW s \in Tokens PROVE StatusOf(s)' /\ UseOf(s)'
  <2>1. StatusOf(s) /\ UseOf(s)
    BY DEF PInv
  <2>2. \A n \in Uses(s) : /\ trail'[n] = trail[n] /\ trail[n].by # c
                           /\ visit'[trail[n].by] = visit[trail[n].by]
    BY <1>1, <1>5, <1>6, <2>1 DEF UseOf, Terminal
  <2>3. CASE v.op \in Terminal /\ s = v.token
    <3> DEFINE U == Uses(s)
    <3>1. Uses(s)' = U \cup {N} /\ U \subseteq 1..Len(trail) /\ trail'[N] = mark
      BY <1>6, <2>3
    <3>2. \A u \in U \cup {N} : u <= N
      BY <1>6, <3>1
    <3>3. StatusOf(s)'
      <4>1. token'[s] # NoToken /\ token'[s].status = VisitOutcome[trail'[N].op]
        BY <1>2, <1>3, <1>7, <2>3, <3>1
      <4> HIDE DEF U, N
      <4> QED BY <3>1, <3>2, <4>1 DEF StatusOf
    <3>4. ASSUME NEW n \in U \cup {N}
          PROVE  /\ trail'[n].by \in PortalCalls /\ visit'[trail'[n].by].op = "done"
                 /\ trail'[n].op = "confirm" <=> token'[s].role = "printer"
                 /\ \A m \in U \cup {N} : m < n => visit'[trail'[n].by].since < m
      <4>1. CASE n = N
        <5>1. /\ v.op = "confirm" <=> token[s].role = "printer"
              /\ \A m \in U : v.since < m
          BY <1>1, <2>3 DEF VisitOf
        <5>2. ~(N < N)
          BY <1>6
        <5> HIDE DEF U, N, v
        <5> QED BY <1>3, <1>5, <1>7, <3>1, <4>1, <5>1, <5>2
      <4>2. CASE n \in U
        <5>1. ~(N < n)
          BY <1>6, <3>1, <4>2
        <5>2. /\ trail[n].by \in PortalCalls /\ visit[trail[n].by].op = "done"
              /\ trail[n].op = "confirm" <=> token[s].role = "printer"
              /\ \A m \in U : m < n => visit[trail[n].by].since < m
          BY <2>1, <4>2 DEF UseOf
        <5>3. trail'[n] = trail[n] /\ visit'[trail[n].by] = visit[trail[n].by]
          BY <2>2, <4>2
        <5> HIDE DEF U, N, v
        <5> QED BY <1>7, <5>1, <5>2, <5>3
      <4> QED BY <4>1, <4>2
    <3> HIDE DEF U, N
    <3>5. UseOf(s)'
      BY <3>1, <3>4 DEF UseOf
    <3> QED BY <3>3, <3>5
  <2>4. CASE v.op = "download" \/ s # v.token
    <3> HIDE DEF v, N
    <3>1. Uses(s)' = Uses(s) /\ token'[s] = token[s]
      BY <1>1, <1>6, <1>7, <2>4
    <3>2. StatusOf(s)'
      BY <2>1, <2>2, <3>1 DEF StatusOf
    <3>3. ASSUME NEW n \in Uses(s)
          PROVE  /\ trail'[n].by \in PortalCalls /\ visit'[trail'[n].by].op = "done"
                 /\ trail'[n].op = "confirm" <=> token'[s].role = "printer"
                 /\ \A m \in Uses(s) : m < n => visit'[trail'[n].by].since < m
      BY <2>1, <2>2, <3>1 DEF UseOf
    <3>4. UseOf(s)'
      BY <3>1, <3>3 DEF UseOf
    <3> QED BY <3>2, <3>4
  <2> QED BY <1>1, <2>3, <2>4
<1>10. ASSUME NEW b \in PortalCalls PROVE VisitOf(b)'
  <2>1. CASE b = c
    BY <1>5, <2>1 DEF VisitOf, Terminal
  <2>2. CASE b # c
    <3> DEFINE w == visit[b]
    <3>1. VisitOf(b) /\ visit'[b] = w /\ w.since \in Nat
      BY <1>1, <1>5, <2>2 DEF PInv, PTypes
    <3>2. w.op \in Terminal \cup {"download"} => w.token \in Tokens /\ token[w.token] # NoToken
      BY <3>1 DEF VisitOf
    <3>3. w.op \in Terminal =>
            /\ w.op = "confirm" <=> token[w.token].role = "printer"
            /\ w.since <= Len(trail) /\ \A m \in Uses(w.token) : w.since < m
      BY <3>1 DEF VisitOf
    <3>4. \A s \in Tokens : Uses(s)' \subseteq Uses(s) \cup {N}
      <4> HIDE DEF N, v
      <4> QED BY <1>1, <1>6
    <3>5. w.op \in Terminal => w.since < N /\ w.since <= Len(trail')
      BY <1>6, <3>1, <3>3
    <3> HIDE DEF w, N, v
    <3>6. \A s \in Tokens : token'[s].role = token[s].role /\ (token'[s] = NoToken <=> token[s] = NoToken)
      BY <1>7
    <3>7. visit'[b].op \in Terminal \cup {"download"} =>
            visit'[b].token \in Tokens /\ token'[visit'[b].token] # NoToken
      BY <3>1, <3>2, <3>6
    <3>8. w.op \in Terminal =>
            /\ w.op = "confirm" <=> token'[w.token].role = "printer"
            /\ \A s \in Tokens : s = w.token => \A m \in Uses(s)' : w.since < m
      BY <3>2, <3>3, <3>4, <3>5, <3>6
    <3>9. visit'[b].op \in Terminal =>
            /\ visit'[b].op = "confirm" <=> token'[visit'[b].token].role = "printer"
            /\ visit'[b].since <= Len(trail')
            /\ \A s \in Tokens : s = visit'[b].token => \A m \in Uses(s)' : visit'[b].since < m
      BY <3>1, <3>5, <3>8
    <3> QED BY <3>7, <3>9 DEF VisitOf
  <2> QED BY <2>1, <2>2
<1> QED BY <1>8, <1>9, <1>10 DEF PInv

\* The links of the portal, whatever its requests overlap with.
LEMMA PInvNext == PInv /\ [PNext]_pvars => PInv'
<1> SUFFICES ASSUME PInv, [PNext]_pvars PROVE PInv'
  OBVIOUS
<1>1. ASSUME NEW t \in Tokens, Expire(t) PROVE PInv'
  BY <1>1, ExpireStep
<1>2. ASSUME NEW t \in Tokens, NEW role \in Roles, CreateToken(t, role) PROVE PInv'
  BY <1>2, CreateStep
<1>3. ASSUME NEW c \in PortalCalls, CommitVisit(c) PROVE PInv'
  BY <1>3, CommitStep
<1>4. ASSUME NEW c \in PortalCalls, NEW t \in Tokens, BeginApprove(c, t) PROVE PInv'
  BY <1>4, EnterStep DEF BeginApprove, Terminal, Roles
<1>5. ASSUME NEW c \in PortalCalls, NEW t \in Tokens, BeginReject(c, t) PROVE PInv'
  BY <1>5, EnterStep DEF BeginReject, Terminal, Roles
<1>6. ASSUME NEW c \in PortalCalls, NEW t \in Tokens, BeginConfirm(c, t) PROVE PInv'
  BY <1>6, EnterStep DEF BeginConfirm, Terminal, Roles
<1>7. ASSUME NEW c \in PortalCalls, NEW t \in Tokens, BeginDownload(c, t) PROVE PInv'
  BY <1>7, EnterStep DEF BeginDownload, Terminal, Roles
<1>8. CASE UNCHANGED pvars
  <2>1. token' = token /\ visit' = visit /\ trail' = trail
    BY <1>8 DEF pvars
  <2>2. \A t \in Tokens : Uses(t)' = Uses(t)
    BY <2>1 DEF Uses
  <2>3. PTypes'
    BY <2>1 DEF PInv, PTypes
  <2>4. \A t \in Tokens : StatusOf(t)' /\ UseOf(t)'
    BY <2>1, <2>2 DEF PInv, StatusOf, UseOf
  <2>5. \A c \in PortalCalls : VisitOf(c)'
    <3>1. \A c \in PortalCalls : Uses(visit[c].token)' = Uses(visit[c].token)
      BY <2>1 DEF Uses
    <3> QED BY <2>1, <3>1 DEF PInv, VisitOf
  <2> QED BY <2>3, <2>4, <2>5 DEF PInv
<1> QED BY <1>1, <1>2, <1>3, <1>4, <1>5, <1>6, <1>7, <1>8 DEF PNext

\* The portal's inductive invariant holds throughout.
THEOREM PInvariant == PSpec => []PInv
BY PInitInv, PInvNext, PTL DEF PSpec

\* Types of tokens, requests and the audit trail of the portal (portal.py).
THEOREM PTypeCorrect == PSpec => []PTypeOK
<1>1. PInv => PTypeOK
  <2> SUFFICES ASSUME PInv PROVE PTypeOK
    OBVIOUS
  <2>1. \A t \in Tokens : token[t].status \in {"none", "active", "approved", "rejected", "confirmed"}
    BY DEF PInv, PTypes, Row, NoToken
  <2>2. \A c \in PortalCalls : visit[c].op \in DOMAIN VisitOutcome \cup {"none", "download", "done"}
    BY Outcomes DEF PInv, PTypes
  <2>3. \A n \in DOMAIN trail : trail[n].token \in Tokens
    <3>1. \A n \in DOMAIN trail : trail[n] \in Mark
      BY DEF PInv, PTypes
    <3> QED BY <3>1 DEF Mark
  <2> QED BY <2>1, <2>2, <2>3 DEF PTypeOK
<1> QED BY <1>1, PInvariant, PTL

\* A portal token is used twice only by requests that overlap, and its status
\* is that of its last use on record (portal.py: load, decide, commit without a
\* lock): downloads, visits and the expiry never change it.
THEOREM UsesRecorded == PSpec => []UsesAreRecorded
<1>1. PInv => UsesAreRecorded
  <2> SUFFICES ASSUME PInv, NEW t \in Tokens
               PROVE  /\ token[t].status \in
                           IF token[t] = NoToken THEN {"none"}
                           ELSE IF Uses(t) = {} THEN {"active"}
                           ELSE {VisitOutcome[trail[n].op] :
                                   n \in {m \in Uses(t) : \A u \in Uses(t) : u <= m}}
                      /\ \A n \in Uses(t) : trail[n].op = "confirm" <=> token[t].role = "printer"
                      /\ \A m, n \in Uses(t) : m < n => visit[trail[n].by].since < m
    BY DEF UsesAreRecorded
  <2>1. StatusOf(t) /\ UseOf(t)
    BY DEF PInv
  <2>2. token[t] = NoToken => token[t].status = "none"
    BY DEF NoToken
  <2> QED BY <2>1, <2>2 DEF StatusOf, UseOf
<1> QED BY <1>1, PInvariant, PTL


-----------------------------------------------------------------------------
(* Notifications: ResultsAreTrue.                                          *)

\* When a channel's turn comes.
Position(c) == CASE c = "email" -> 1 [] c = "slack" -> 2 [] c = "pagerduty" -> 3 [] OTHER -> 4

\* The run of a dispatch over its channels.
Coroutine == [pc : {"idle", "running", "done"}, at : 1..5, tries : 0..MaxRetries,
              email : BOOLEAN, results : [Channel -> DeliveryResult \cup {Pending}]]

\* The types the proof keeps.
BTypes ==
  /\ dispatch \in [Dispatches -> Coroutine]
  /\ arrived \in [Dispatches -> [Channel -> 0..(MaxRetries + 1)]]
  /\ setting \in [Channel -> {"unset", "on", "off"}] /\ settings \in 0..MaxSettings

\* What a result says of the messages that got through.
TrueResult(c, r, count) ==
  /\ r.status = "sent" => count <= r.attempts /\ (c \in Webhooks \/ 1 <= count)
  /\ r.status \in {"muted", "skipped"} => count = 0
  /\ r.status = "failed" /\ c = "in_app" => r.attempts = MaxRetries + 1

\* The channels before the one in turn have a true result, the others none, and
\* nothing was sent to them but by the attempts made at the one in turn.
ChannelOf(d, c) ==
  LET r == dispatch[d].results[c]  at == dispatch[d].at IN
  /\ Position(c) < at => r # Pending /\ TrueResult(c, r, arrived[d][c])
  /\ Position(c) >= at => r = Pending
  /\ Position(c) = at => arrived[d][c] <= dispatch[d].tries
  /\ Position(c) > at => arrived[d][c] = 0

\* The audit rows of a dispatch say what it returned.
AuditOf(d) ==
  /\ dispatch[d].pc = "done" <=> dispatch[d].at = 5
  /\ \A a \in records : a.by = d /\ a.channel \in Channel =>
       a.result = dispatch[d].results[a.channel] /\ a.result # Pending

\* The inductive invariant.
BInv == BTypes /\ \A d \in Dispatches : AuditOf(d) /\ \A c \in Channel : ChannelOf(d, c)

\* The channels in their order.
LEMMA Positions ==
  /\ Channels[1] = "email" /\ Channels[2] = "slack" /\ Channels[3] = "pagerduty"
      /\ Channels[4] = "in_app"
  /\ Len(Channels) = 4 /\ DOMAIN Channels = 1..4
  /\ Position("email") = 1 /\ Position("slack") = 2 /\ Position("pagerduty") = 3
  /\ Position("in_app") = 4
  /\ \A n \in 1..4 : Channels[n] \in Channel /\ Position(Channels[n]) = n
  /\ \A c \in Channel : Position(c) \in 1..4 /\ \A n \in 1..4 : Position(c) = n => Channels[n] = c
  /\ Pending.status = "none" /\ Pending \notin DeliveryResult
  /\ \A r \in DeliveryResult : r.status # "none" /\ r # Pending
<1>1. /\ Channels[1] = "email" /\ Channels[2] = "slack" /\ Channels[3] = "pagerduty"
      /\ Channels[4] = "in_app"
      /\ Len(Channels) = 4 /\ DOMAIN Channels = 1..4
  BY DEF Channels
<1>2. /\ Position("email") = 1 /\ Position("slack") = 2 /\ Position("pagerduty") = 3
      /\ Position("in_app") = 4
  BY DEF Position
<1>3. \A n \in 1..4 : n = 1 \/ n = 2 \/ n = 3 \/ n = 4
  OBVIOUS
<1>4. Pending.status = "none" /\ \A r \in DeliveryResult : r.status # "none"
  BY DEF Pending, DeliveryResult
<1>5. \A n \in 1..4 : Channels[n] \in Channel /\ Position(Channels[n]) = n
  BY <1>1, <1>2, <1>3 DEF Channel
<1>6. 1 \in 1..4 /\ 2 \in 1..4 /\ 3 \in 1..4 /\ 4 \in 1..4
  OBVIOUS
<1>7. ASSUME NEW c \in Channel
      PROVE  Position(c) \in 1..4 /\ \A n \in 1..4 : Position(c) = n => Channels[n] = c
  BY <1>1, <1>2, <1>3, <1>6 DEF Channel
<1> QED BY <1>1, <1>2, <1>4, <1>5, <1>7

\* Nothing was sent at first.
LEMMA BInitInv == BInit => BInv
<1> SUFFICES ASSUME BInit PROVE BInv
  OBVIOUS
<1>1. 0 \in 0..MaxRetries /\ 0 \in 0..(MaxRetries + 1) /\ 1 \in 1..5 /\ 0 \in 0..MaxSettings
  BY NotificationAssumption
<1>2. /\ NewDispatch \in Coroutine /\ NewDispatch.pc = "idle" /\ NewDispatch.at = 1
      /\ NewDispatch.tries = 0 /\ \A c \in Channel : NewDispatch.results[c] = Pending
  BY <1>1 DEF NewDispatch, Coroutine
<1>3. BTypes
  BY <1>1, <1>2 DEF BInit, BTypes
<1>4. ASSUME NEW d \in Dispatches PROVE AuditOf(d)
  BY <1>2 DEF BInit, AuditOf
<1>5. ASSUME NEW d \in Dispatches, NEW c \in Channel PROVE ChannelOf(d, c)
  <2>1. dispatch[d] = NewDispatch /\ arrived[d][c] = 0
    BY DEF BInit
  <2>2. Position(c) \in 1..4 /\ ~(Position(c) < 1)
    BY Positions
  <2> QED BY <1>2, <2>1, <2>2 DEF ChannelOf
<1> QED BY <1>3, <1>4, <1>5 DEF BInv

\* A channel's turn ends with a true result and, perhaps, its audit row.
LEMMA SettleStep ==
  ASSUME BInv, NEW d \in Dispatches, dispatch[d].pc = "running",
         NEW result \in DeliveryResult, Settle(d, result),
         NEW c, c = Channels[dispatch[d].at],
         arrived' \in [Dispatches -> [Channel -> 0..(MaxRetries + 1)]],
         \A e \in Dispatches, x \in Channel :
           e # d \/ x # c => arrived'[e][x] = arrived[e][x],
         TrueResult(c, result, arrived'[d][c]),
         setting' = setting, settings' = settings
  PROVE  BInv'
<1> DEFINE k == dispatch[d].at
           u == [dispatch[d] EXCEPT !.results[c] = result, !.tries = 0, !.at = k + 1,
                   !.pc = IF k = Len(Channels) THEN "done" ELSE "running"]
<1>1. dispatch[d] \in Coroutine /\ k \in 1..5 /\ k # 5
  BY DEF BInv, BTypes, AuditOf, Coroutine
<1>2. k \in 1..4 /\ c \in Channel /\ Position(c) = k
  BY <1>1, Positions
<1>3. /\ dispatch' = [dispatch EXCEPT ![d] = u]
      /\ records' = records \cup {[by |-> d, channel |-> c, result |-> result]}
           \/ records' = records
  BY <1>1 DEF Settle
<1>4. /\ u.at = k + 1 /\ u.tries = 0 /\ u.results = [dispatch[d].results EXCEPT ![c] = result]
      /\ u.pc = (IF k = 4 THEN "done" ELSE "running")
  BY <1>1, <1>2, Positions DEF Coroutine
<1>5. u \in Coroutine
  <2>1. k + 1 \in 1..5 /\ 0 \in 0..MaxRetries
    BY <1>2, NotificationAssumption
  <2> QED BY <1>1, <1>2, <2>1 DEF Coroutine
<1>6. /\ u.results[c] = result
      /\ \A x \in Channel \ {c} : u.results[x] = dispatch[d].results[x]
  BY <1>1, <1>2, <1>4 DEF Coroutine
<1> HIDE DEF u
<1>7. dispatch'[d] = u /\ \A e \in Dispatches \ {d} : dispatch'[e] = dispatch[e]
  BY <1>3 DEF BInv, BTypes
<1>8. BTypes'
  BY <1>3, <1>5 DEF BInv, BTypes
<1>9. ASSUME NEW e \in Dispatches, NEW x \in Channel PROVE ChannelOf(e, x)'
  <2>1. ChannelOf(e, x) /\ Position(x) \in 1..4
    BY Positions DEF BInv
  <2>2. CASE e # d
    BY <1>7, <2>1, <2>2 DEF ChannelOf
  <2>3. CASE e = d /\ x = c
    <3>1. dispatch'[e].at = k + 1 /\ dispatch'[e].results[x] = result /\ Position(x) = k
      BY <1>2, <1>4, <1>6, <1>7, <2>3
    <3>2. ~(k >= k + 1) /\ k # k + 1 /\ ~(k > k + 1)
      BY <1>2
    <3>3. result # Pending /\ TrueResult(x, result, arrived'[e][x])
      BY <2>3, Positions
    <3> HIDE DEF k
    <3> QED BY <3>1, <3>2, <3>3 DEF ChannelOf
  <2>4. CASE e = d /\ x # c
    <3>1. Position(x) # k
      BY <1>1, <1>2, <2>4, Positions
    <3>2. arrived'[e][x] = arrived[e][x] /\ dispatch'[e] = u
      BY <1>7, <2>4
    <3>3. u.results[x] = dispatch[d].results[x]
      BY <1>6, <2>4
    <3>4. /\ Position(x) < k + 1 => Position(x) < k
          /\ Position(x) >= k + 1 => Position(x) > k
          /\ arrived[d][x] = 0 => arrived[d][x] <= 0
      BY <1>2, <2>1, <3>1
    <3> HIDE DEF k
    <3>5. Position(x) > k => Position(x) >= k
      BY <1>2, <2>1
    <3>6. Position(x) = k + 1 => Position(x) > k
      BY <1>2, <2>1
    <3>7. Position(x) > k + 1 => Position(x) > k
      BY <1>2, <2>1
    <3> QED BY <1>4, <2>1, <2>4, <3>2, <3>3, <3>4, <3>5, <3>6, <3>7 DEF ChannelOf, k
  <2> QED BY <2>2, <2>3, <2>4
<1>10. ASSUME NEW e \in Dispatches PROVE AuditOf(e)'
  <2>1. AuditOf(e)
    BY DEF BInv
  <2>2. dispatch'[e].pc = "done" <=> dispatch'[e].at = 5
    BY <1>2, <1>4, <1>7, <2>1 DEF AuditOf
  <2>3. ASSUME NEW a \in records', a.by = e, a.channel \in Channel
        PROVE  a.result = dispatch'[e].results[a.channel] /\ a.result # Pending
    <3>1. CASE a \in records
      <4>1. a.result = dispatch[e].results[a.channel] /\ a.result # Pending
        BY <2>1, <2>3, <3>1 DEF AuditOf
      <4>2. ~(e = d /\ a.channel = c)
        <5>1. dispatch[d].results[c] = Pending
          BY <1>2 DEF BInv, ChannelOf
        <5> QED BY <4>1, <5>1
      <4> QED BY <1>6, <1>7, <2>3, <4>1, <4>2
    <3>2. CASE a = [by |-> d, channel |-> c, result |-> result]
      BY <1>6, <1>7, <2>3, <3>2, Positions
    <3> QED BY <1>3, <3>1, <3>2
  <2> QED BY <2>2, <2>3 DEF AuditOf
<1> QED BY <1>8, <1>9, <1>10 DEF BInv


\* An attempt that is tried again later, or the channel's result.
LEMMA AttemptStep ==
  ASSUME BInv, NEW d \in Dispatches, Attempt(d)
  PROVE  BInv'
<1> DEFINE k == dispatch[d].at
           c == Channels[k]
           n == dispatch[d].tries + 1
<1>1. PICK o \in Send(c, dispatch[d].email) :
        /\ arrived' = [arrived EXCEPT ![d][c] = @ + IF o.through THEN 1 ELSE 0]
        /\ \/ o.told = "ok" /\ Settle(d, [status |-> "sent", attempts |-> n])
           \/ o.told = "permanent" /\ Settle(d, [status |-> "failed", attempts |-> n])
           \/ o.told = "transient" /\ LastAttempt(n)
              /\ Settle(d, [status |-> "failed", attempts |-> n])
           \/ o.told = "transient" /\ ~LastAttempt(n)
              /\ dispatch' = [dispatch EXCEPT ![d].tries = n] /\ UNCHANGED records
  BY DEF Attempt
<1>2. dispatch[d].pc = "running" /\ setting' = setting /\ settings' = settings
  BY DEF Attempt
<1>3. /\ dispatch[d] \in Coroutine /\ k \in 1..5 /\ k # 5
      /\ dispatch[d].tries \in 0..MaxRetries /\ MaxRetries \in Nat
  BY <1>2, NotificationAssumption DEF BInv, BTypes, AuditOf, Coroutine
<1>4. k \in 1..4 /\ c \in Channel /\ Position(c) = k
  BY <1>3, Positions
<1>5. n \in 1..(MaxRetries + 1) /\ (~LastAttempt(n) => n \in 0..MaxRetries)
  BY <1>3 DEF LastAttempt
<1>6. /\ o.told = "ok" => o.through \/ c \in Webhooks
      /\ c = "in_app" => o.told # "permanent"
      /\ o.through \in BOOLEAN
  <2>1. /\ \A q \in InAppSend : (q.told = "ok" => q.through) /\ q.through \in BOOLEAN
        /\ \A q \in HttpSend : q.through \in BOOLEAN
        /\ \A q \in InAppSend : q.told # "permanent"
    BY DEF HttpSend, InAppSend, Outcome
  <2>2. ASSUME NEW q \in EmailSend(dispatch[d].email)
        PROVE  (q.told = "ok" => q.through) /\ q.through \in BOOLEAN
    <3>1. \/ q = [through |-> FALSE, told |-> "permanent"]
          \/ q \in Outcome /\ (q.told = "ok" => q.through)
      BY Zenon DEF EmailSend
    <3>2. CASE q = [through |-> FALSE, told |-> "permanent"]
      <4>1. q.told = "permanent" /\ q.through = FALSE
        BY <3>2
      <4> QED BY <4>1
    <3>3. CASE q \in Outcome /\ (q.told = "ok" => q.through)
      BY <3>3 DEF Outcome
    <3> QED BY <3>1, <3>2, <3>3
  <2> QED BY <1>4, <2>1, <2>2 DEF Send, Channel, Webhooks
<1>7. /\ arrived' \in [Dispatches -> [Channel -> 0..(MaxRetries + 1)]]
      /\ arrived'[d][c] = arrived[d][c] + (IF o.through THEN 1 ELSE 0)
      /\ arrived[d][c] \in Nat /\ arrived[d][c] <= dispatch[d].tries
      /\ \A e \in Dispatches, x \in Channel : e # d \/ x # c => arrived'[e][x] = arrived[e][x]
  <2> DEFINE more == arrived[d][c] + (IF o.through THEN 1 ELSE 0)
  <2>1. arrived[d][c] <= dispatch[d].tries
    BY <1>4 DEF BInv, ChannelOf
  <2>2. arrived \in [Dispatches -> [Channel -> 0..(MaxRetries + 1)]]
    BY DEF BInv, BTypes
  <2>3. arrived[d][c] \in 0..(MaxRetries + 1)
    BY <1>4, <2>2
  <2>4. more \in 0..(MaxRetries + 1)
    BY <1>3, <1>6, <2>1, <2>3
  <2>5. arrived' = [arrived EXCEPT ![d] = [arrived[d] EXCEPT ![c] = more]]
    BY <1>1
  <2> HIDE DEF more, c, k
  <2>6. [arrived[d] EXCEPT ![c] = more] \in [Channel -> 0..(MaxRetries + 1)]
    BY <1>4, <2>2, <2>4
  <2>7. arrived'[d][c] = more /\ arrived' \in [Dispatches -> [Channel -> 0..(MaxRetries + 1)]]
    BY <1>4, <2>2, <2>5, <2>6
  <2>8. \A e \in Dispatches, x \in Channel : e # d \/ x # c => arrived'[e][x] = arrived[e][x]
    BY <1>4, <2>2, <2>5
  <2> QED BY <2>1, <2>3, <2>7, <2>8 DEF more
<1>8. ASSUME NEW status \in {"sent", "failed"},
             status = "sent" => o.told = "ok",
             status = "failed" /\ c = "in_app" => n = MaxRetries + 1,
             Settle(d, [status |-> status, attempts |-> n])
      PROVE  BInv'
  <2> DEFINE result == [status |-> status, attempts |-> n]
  <2>1. result \in DeliveryResult
    BY <1>3, <1>5 DEF DeliveryResult
  <2>2. TrueResult(c, result, arrived'[d][c])
    <3>1. result.status = status /\ result.attempts = n
      OBVIOUS
    <3>2. status = "sent" => arrived'[d][c] <= n /\ (c \in Webhooks \/ 1 <= arrived'[d][c])
      BY <1>3, <1>6, <1>7, <1>8
    <3> HIDE DEF result, n
    <3> QED BY <1>8, <3>1, <3>2 DEF TrueResult
  <2>3. Settle(d, result)
    BY <1>8
  <2> HIDE DEF result, n
  <2> QED BY <1>2, <1>7, <2>1, <2>2, <2>3, SettleStep
<1>9. CASE ~LastAttempt(n) /\ dispatch' = [dispatch EXCEPT ![d].tries = n] /\ UNCHANGED records
  <2> DEFINE u == [dispatch[d] EXCEPT !.tries = n]
  <2>1. /\ u \in Coroutine /\ u.pc = dispatch[d].pc /\ u.at = k
        /\ u.results = dispatch[d].results /\ u.tries = n
    BY <1>3, <1>5, <1>9 DEF Coroutine
  <2>2. dispatch' = [dispatch EXCEPT ![d] = u] /\ records' = records
    BY <1>9
  <2>3. arrived'[d][c] <= n
    BY <1>3, <1>6, <1>7
  <2> HIDE DEF u, n, k
  <2>4. dispatch'[d] = u /\ \A e \in Dispatches \ {d} : dispatch'[e] = dispatch[e]
    BY <2>2 DEF BInv, BTypes
  <2>5. BTypes'
    BY <1>2, <1>7, <2>1, <2>2 DEF BInv, BTypes
  <2>6. ASSUME NEW e \in Dispatches, NEW x \in Channel PROVE ChannelOf(e, x)'
    <3>1. ChannelOf(e, x)
      BY DEF BInv
    <3>2. CASE e # d
      BY <1>7, <2>4, <3>1, <3>2 DEF ChannelOf
    <3>3. CASE e = d /\ x = c
      <4>1. /\ Position(x) = k /\ dispatch'[e] = u /\ ~(k < k) /\ ~(k > k)
        BY <1>4, <2>4, <3>3
      <4>2. u.results[x] = Pending
        BY <1>4, <2>1, <3>1, <3>3 DEF ChannelOf, k
      <4> QED BY <2>1, <2>3, <3>3, <4>1, <4>2 DEF ChannelOf
    <3>4. CASE e = d /\ x # c
      <4>1. Position(x) # k /\ arrived'[e][x] = arrived[e][x] /\ dispatch'[e] = u
        BY <1>4, <1>7, <2>4, <3>4, Positions DEF c
      <4> QED BY <2>1, <3>1, <3>4, <4>1 DEF ChannelOf, k
    <3> QED BY <3>2, <3>3, <3>4
  <2>7. ASSUME NEW e \in Dispatches PROVE AuditOf(e)'
    <3>1. AuditOf(e) /\ records' = records
      BY <2>2 DEF BInv
    <3>2. /\ dispatch'[e].pc = dispatch[e].pc /\ dispatch'[e].at = dispatch[e].at
          /\ dispatch'[e].results = dispatch[e].results
      BY <2>1, <2>4 DEF k
    <3> QED BY <3>1, <3>2 DEF AuditOf
  <2> QED BY <2>5, <2>6, <2>7 DEF BInv
<1>10. CASE o.told = "ok" /\ Settle(d, [status |-> "sent", attempts |-> n])
  BY <1>8, <1>10
<1>11. CASE o.told = "permanent" /\ Settle(d, [status |-> "failed", attempts |-> n])
  BY <1>6, <1>8, <1>11
<1>12. CASE LastAttempt(n) /\ Settle(d, [status |-> "failed", attempts |-> n])
  <2>1. n = MaxRetries + 1
    BY <1>12 DEF LastAttempt
  <2> HIDE DEF n, c, k
  <2> QED BY <1>8, <1>12, <2>1
<1> QED BY <1>1, <1>9, <1>10, <1>11, <1>12

\* A channel is passed over.
LEMMA PassOverStep ==
  ASSUME BInv, NEW d \in Dispatches, PassOver(d)
  PROVE  BInv'
<1> DEFINE c == Channels[dispatch[d].at]
<1>1. PICK status \in {"skipped", "muted"} : Settle(d, [status |-> status, attempts |-> 0])
  BY DEF PassOver
<1>2. /\ dispatch[d].pc = "running" /\ dispatch[d].tries = 0
      /\ arrived' = arrived /\ setting' = setting /\ settings' = settings
  BY DEF PassOver
<1>3. /\ dispatch[d].at \in 1..4 /\ c \in Channel /\ Position(c) = dispatch[d].at
  <2>1. dispatch[d].at \in 1..5 /\ dispatch[d].at # 5
    BY <1>2 DEF BInv, BTypes, AuditOf, Coroutine
  <2>2. dispatch[d].at \in 1..4
    BY <2>1
  <2> QED BY <2>2, Positions
<1>4. arrived[d][c] = 0
  <2>1. arrived[d][c] <= 0
    BY <1>2, <1>3 DEF BInv, ChannelOf
  <2>2. arrived[d][c] \in 0..(MaxRetries + 1)
    BY <1>3 DEF BInv, BTypes
  <2> QED BY <2>1, <2>2
<1> DEFINE result == [status |-> status, attempts |-> 0]
<1>5. result \in DeliveryResult
  <2>1. 0 \in 0..(MaxRetries + 1)
    BY NotificationAssumption
  <2> QED BY <2>1 DEF DeliveryResult
<1>6. TrueResult(c, result, arrived'[d][c])
  BY <1>2, <1>4 DEF TrueResult
<1>7. Settle(d, result) /\ arrived' \in [Dispatches -> [Channel -> 0..(MaxRetries + 1)]]
  BY <1>1, <1>2 DEF BInv, BTypes
<1> HIDE DEF result
<1> QED BY <1>2, <1>3, <1>5, <1>6, <1>7, SettleStep

\* The steps of the notifications.
LEMMA BInvNext == BInv /\ [BNext]_bvars => BInv'
<1> SUFFICES ASSUME BInv, [BNext]_bvars PROVE BInv'
  OBVIOUS
<1>1. ASSUME NEW d \in Dispatches, PassOver(d) PROVE BInv'
  BY <1>1, PassOverStep
<1>2. ASSUME NEW d \in Dispatches, Attempt(d) PROVE BInv'
  BY <1>2, AttemptStep
<1>3. ASSUME NEW d \in Dispatches, NEW address \in BOOLEAN, BeginDispatch(d, address) PROVE BInv'
  <2> DEFINE u == [dispatch[d] EXCEPT !.pc = "running", !.email = address]
  <2>1. dispatch[d] \in Coroutine /\ dispatch[d].pc = "idle" /\ AuditOf(d)
    BY <1>3 DEF BeginDispatch, BInv, BTypes
  <2>2. /\ u \in Coroutine /\ u.at = dispatch[d].at /\ u.tries = dispatch[d].tries
        /\ u.results = dispatch[d].results /\ u.pc = "running"
    BY <2>1 DEF Coroutine
  <2>3. /\ dispatch' = [dispatch EXCEPT ![d] = u]
        /\ UNCHANGED <<setting, settings, arrived, records, unread>>
    BY <1>3 DEF BeginDispatch
  <2> HIDE DEF u
  <2>4. dispatch'[d] = u /\ \A e \in Dispatches \ {d} : dispatch'[e] = dispatch[e]
    BY <2>3 DEF BInv, BTypes
  <2>5. BTypes'
    BY <2>2, <2>3 DEF BInv, BTypes
  <2>6. \A e \in Dispatches : /\ dispatch'[e].at = dispatch[e].at
                              /\ dispatch'[e].tries = dispatch[e].tries
                              /\ dispatch'[e].results = dispatch[e].results
                              /\ (dispatch'[e].pc = "done" <=> dispatch[e].pc = "done")
    BY <2>1, <2>2, <2>4
  <2> QED BY <2>3, <2>5, <2>6 DEF BInv, AuditOf, ChannelOf
<1>4. ASSUME NEW on, SetPreferences(on) PROVE BInv'
  <2>1. /\ setting' \in [Channel -> {"unset", "on", "off"}] /\ settings' \in 0..MaxSettings
        /\ UNCHANGED <<dispatch, arrived, records>>
    BY <1>4, NotificationAssumption DEF SetPreferences, BInv, BTypes
  <2> QED BY <2>1 DEF BInv, BTypes, AuditOf, ChannelOf
<1>5. ASSUME NEW rows, MarkRead(rows) PROVE BInv'
  BY <1>5 DEF MarkRead, BInv, BTypes, AuditOf, ChannelOf
<1>6. CASE UNCHANGED bvars
  BY <1>6 DEF bvars, BInv, BTypes, AuditOf, ChannelOf
<1> QED BY <1>1, <1>2, <1>3, <1>4, <1>5, <1>6 DEF BNext

\* The dispatcher's inductive invariant holds throughout.
THEOREM BInvariant == BSpec => []BInv
BY BInitInv, BInvNext, PTL DEF BSpec

\* Types of the dispatches, preferences and deliveries (dispatcher.py).
THEOREM BTypeCorrect == BSpec => []BTypeOK
<1>1. BInv => BTypeOK
  BY DEF BInv, BTypes, BTypeOK, Coroutine
<1> QED BY <1>1, BInvariant, PTL

\* Whatever the transports report and however often they are tried, the results
\* that dispatch returns and audits are true, of a webhook that it accepted the
\* message (dispatcher.py, _send_with_retry).
THEOREM ResultsTrue == BSpec => []ResultsAreTrue
<1>1. BInv => ResultsAreTrue
  <2> SUFFICES ASSUME BInv, NEW d \in Dispatches, NEW c \in Channel
               PROVE  LET r == dispatch[d].results[c] IN
                      /\ r.status = "sent" =>
                           arrived[d][c] \in (IF c \in Webhooks THEN 0 ELSE 1)..r.attempts
                      /\ r.status \in {"muted", "skipped"} => arrived[d][c] = 0
                      /\ r.status = "failed" /\ c = "in_app" => r.attempts = MaxRetries + 1
                      /\ dispatch[d].pc = "done" =>
                           (r.status = "none" <=> \A n \in DOMAIN Channels : Channels[n] # c)
                      /\ \A a \in records : a.by = d /\ a.channel = c => a.result = r
    BY DEF ResultsAreTrue
  <2> DEFINE r == dispatch[d].results[c]
  <2>1. /\ ChannelOf(d, c) /\ AuditOf(d) /\ dispatch[d] \in Coroutine
        /\ arrived[d][c] \in 0..(MaxRetries + 1)
    BY DEF BInv, BTypes
  <2>2. Position(c) \in 1..4 /\ dispatch[d].at \in 1..5 /\ r \in DeliveryResult \cup {Pending}
    BY <2>1, Positions DEF Coroutine
  <2>3. r # Pending => TrueResult(c, r, arrived[d][c]) /\ r.attempts \in 0..(MaxRetries + 1)
    BY <2>1, <2>2 DEF ChannelOf, DeliveryResult
  <2>4. r = Pending <=> r.status = "none"
    BY <2>2, Positions
  <2>5. dispatch[d].pc = "done" => (r = Pending <=> Position(c) \notin 1..4)
    BY <2>1, <2>2 DEF ChannelOf, AuditOf
  <2>6. Position(c) \notin 1..4 <=> \A n \in DOMAIN Channels : Channels[n] # c
    BY <2>2, Positions
  <2>7. \A a \in records : a.by = d /\ a.channel = c => a.result = r
    BY <2>1 DEF AuditOf
  <2> HIDE DEF r
  <2>8. /\ r.status = "sent" =>
                           arrived[d][c] \in (IF c \in Webhooks THEN 0 ELSE 1)..r.attempts
        /\ r.status \in {"muted", "skipped"} => arrived[d][c] = 0
        /\ r.status = "failed" /\ c = "in_app" => r.attempts = MaxRetries + 1
    <3>1. CASE r = Pending
      BY <3>1, Positions
    <3>2. CASE r # Pending
      BY <2>1, <2>3, <3>2 DEF TrueResult
    <3> QED BY <3>1, <3>2
  <2> QED BY <2>4, <2>5, <2>6, <2>7, <2>8 DEF r
<1> QED BY <1>1, BInvariant, PTL


-----------------------------------------------------------------------------
(* Warning labels: MixedIsStaleOrImported.                                 *)

\* What a request under way made of the row it read.
Derived(r) ==
  \/ r.op = "create" /\ \E t \in Texts : r.copy = Fresh("pending", FALSE, t)
  \/ r.op = "import" /\ r.base = NoLabel /\ \E t \in Texts : r.copy = Fresh("approved", TRUE, t)
  \/ r.op = "import" /\ r.base \in Label
     /\ \E t \in Texts : r.copy = [r.base EXCEPT !.text = t, !.active = TRUE]
  \/ r.op = "update" /\ r.base \in Label /\ \E t \in Texts : r.copy = [r.base EXCEPT !.text = t]
  \/ r.op = "approve" /\ r.base \in Label
     /\ r.copy = [r.base EXCEPT !.status = "approved", !.active = TRUE,
                                !.approved = TRUE, !.reason = FALSE]
  \/ r.op = "reject" /\ r.base \in Label
     /\ r.copy = [r.base EXCEPT !.status = "rejected", !.active = FALSE,
                                !.approved = FALSE, !.reason = TRUE]
  \/ r.op = "deprecate" /\ r.base \in Label /\ r.base.status = "approved"
     /\ r.copy = [r.base EXCEPT !.status = "deprecated", !.active = FALSE]

\* The types the proof keeps.
LTypes == /\ label \in Label \cup {NoLabel}
          /\ DOMAIN request = LabelCalls

\* The inductive invariant; a row that was read is there still.
LInv ==
  /\ LTypes
  /\ \A c \in LabelCalls : \/ request[c] = NoRequest
                           \/ request[c] = [NoRequest EXCEPT !.op = "done"]
                           \/ /\ Derived(request[c])
                              /\ request[c].base \in Label \cup {NoLabel}
                              /\ request[c].base \in Label => label \in Label

\* A request makes a row out of a row.
LEMMA DerivedTypes ==
  ASSUME NEW r, Derived(r)
  PROVE  r.copy \in Label /\ r.op \notin {"none", "done"}
<1>1. \A t \in Texts : Fresh("pending", FALSE, t) \in Label /\ Fresh("approved", TRUE, t) \in Label
  BY DEF Fresh, Label
<1>2. ASSUME NEW t \in Texts, NEW l \in Label
      PROVE  /\ [l EXCEPT !.text = t] \in Label
             /\ [l EXCEPT !.text = t, !.active = TRUE] \in Label
  BY DEF Label
<1>3. ASSUME NEW l \in Label
      PROVE  /\ [l EXCEPT !.status = "approved", !.active = TRUE,
                           !.approved = TRUE, !.reason = FALSE] \in Label
             /\ [l EXCEPT !.status = "rejected", !.active = FALSE,
                           !.approved = FALSE, !.reason = TRUE] \in Label
             /\ [l EXCEPT !.status = "deprecated", !.active = FALSE] \in Label
  BY DEF Label
<1>4. r.copy \in Label
  <2>1. CASE r.op = "create"
    BY <1>1, <2>1 DEF Derived
  <2>2. CASE r.op = "import"
    BY <1>1, <1>2, <2>2 DEF Derived
  <2>3. CASE r.op = "update"
    BY <1>2, <2>3 DEF Derived
  <2>4. CASE r.op \notin {"create", "import", "update"}
    BY <1>3, <2>4 DEF Derived
  <2> QED BY <2>1, <2>2, <2>3, <2>4
<1>5. r.op \in {"create", "import", "update", "approve", "reject", "deprecate"}
  BY DEF Derived
<1> QED BY <1>4, <1>5

\* The absent row is not a row.
LEMMA NoLabelIsNone == NoLabel \notin Label
<1>1. NoLabel.status = "none"
  BY DEF NoLabel
<1> QED BY <1>1 DEF Label

\* The columns are written as one row.
LEMMA ColumnsType ==
  ASSUME NEW r, r.copy \in Label, r.base \in Label, label \in Label
  PROVE  Columns(r) \in Label /\ (r.base = label => Columns(r) = r.copy)
<1> DEFINE new == Columns(r)
<1>1. DOMAIN r.copy = {"status", "active", "text", "approved", "reason"}
  BY DEF Label
<1>2. /\ DOMAIN new = DOMAIN r.copy
      /\ \A k \in DOMAIN r.copy : new[k] = IF r.copy[k] = r.base[k] THEN label[k] ELSE r.copy[k]
  BY DEF Columns
<1>3. new = [status |-> new.status, active |-> new.active, text |-> new.text,
             approved |-> new.approved, reason |-> new.reason]
  BY <1>1, <1>2 DEF Columns
<1>4. new \in Label
  <2>1. /\ new.status \in {"pending", "approved", "rejected", "deprecated"}
        /\ new.active \in BOOLEAN /\ new.text \in Texts
        /\ new.approved \in BOOLEAN /\ new.reason \in BOOLEAN
    BY <1>1, <1>2 DEF Label
  <2> HIDE DEF new
  <2> QED BY <1>3, <2>1 DEF Label
<1>5. r.base = label => new = r.copy
  BY <1>2 DEF Columns, Label
<1> QED BY <1>4, <1>5

\* A decision leaves the row as it is.
LEMMA DecideStep ==
  ASSUME LInv, NEW c \in LabelCalls, NEW op, NEW copy, Decide(c, op, copy),
         Derived([op |-> op, base |-> label, copy |-> copy])
  PROVE  LInv'
<1> DEFINE r == [op |-> op, base |-> label, copy |-> copy]
<1>1. request' = [request EXCEPT ![c] = r] /\ label' = label
  BY DEF Decide
<1>2. Derived(r) /\ r.base = label
  OBVIOUS
<1> HIDE DEF r
<1>3. request'[c] = r /\ \A b \in LabelCalls \ {c} : request'[b] = request[b]
  BY <1>1 DEF LInv, LTypes
<1>4. LTypes'
  BY <1>1 DEF LInv, LTypes
<1>5. ASSUME NEW b \in LabelCalls
      PROVE  \/ request'[b] = NoRequest
             \/ request'[b] = [NoRequest EXCEPT !.op = "done"]
             \/ /\ Derived(request'[b])
                /\ request'[b].base \in Label \cup {NoLabel}
                /\ request'[b].base \in Label => label' \in Label
  <2>1. CASE b = c
    BY <1>1, <1>2, <1>3, <2>1 DEF LInv, LTypes
  <2>2. CASE b # c
    <3>1. request'[b] = request[b] /\ label' = label
      BY <1>1, <1>3, <2>2
    <3> QED BY <3>1 DEF LInv
  <2> QED BY <2>1, <2>2
<1> QED BY <1>4, <1>5 DEF LInv, Derived

\* What a commit does to the row.
LEMMA CommitLabelRow ==
  ASSUME LInv, NEW c \in LabelCalls, CommitLabel(c)
  PROVE  LET r == request[c] IN
         /\ Derived(r) /\ r.copy \in Label /\ label' \in Label
         /\ \/ label' = label
            \/ label = NoLabel /\ label' = r.copy /\ Inserts(r)
            \/ r.base \in Label /\ label \in Label /\ ~Inserts(r)
               /\ (r.base = label => label' = r.copy)
<1> DEFINE r == request[c]
<1>1. Derived(r) /\ r.copy \in Label /\ r.op \notin {"none", "done"}
  <2>1. r.op \notin {"none", "done"}
    BY DEF CommitLabel
  <2>2. NoRequest.op = "none" /\ [NoRequest EXCEPT !.op = "done"].op = "done"
    BY DEF NoRequest
  <2>3. Derived(r)
    BY <2>1, <2>2 DEF LInv
  <2> QED BY <2>1, <2>3, DerivedTypes
<1>2. /\ r.base \in Label \cup {NoLabel} /\ (r.base \in Label => label \in Label)
  <2>1. NoRequest.op = "none" /\ [NoRequest EXCEPT !.op = "done"].op = "done"
    BY DEF NoRequest
  <2> QED BY <1>1, <2>1 DEF LInv
<1>3. CASE Inserts(r)
  <2>1. label' = IF label = NoLabel THEN r.copy ELSE label
    BY <1>3 DEF CommitLabel
  <2> QED BY <1>1, <1>3, <2>1 DEF LInv, LTypes
<1>4. CASE ~Inserts(r)
  <2>1. label' = Columns(r)
    BY <1>4 DEF CommitLabel
  <2>2. r.base \in Label /\ label \in Label
    BY <1>2, <1>4 DEF Inserts
  <2> QED BY <1>1, <1>4, <2>1, <2>2, ColumnsType
<1> QED BY <1>3, <1>4

\* The requests of the warning labels.
LEMMA LInvNext == LInv /\ [LNext]_lvars => LInv'
<1> SUFFICES ASSUME LInv, [LNext]_lvars PROVE LInv'
  OBVIOUS
<1>1. CASE UNCHANGED lvars
  <2>1. label' = label /\ request' = request
    BY <1>1 DEF lvars
  <2> QED BY <2>1 DEF LInv, LTypes
<1> SUFFICES ASSUME NEW c \in LabelCalls,
                    \/ CommitLabel(c) \/ BeginApproveLabel(c) \/ BeginRejectLabel(c)
                    \/ BeginDeprecate(c)
                    \/ \E t \in Texts : \/ BeginCreateLabel(c, t) \/ BeginUpdateLabel(c, t)
                                        \/ BeginImportLabel(c, t)
             PROVE  LInv'
  BY <1>1 DEF LNext
<1>2. label # NoLabel => label \in Label
  BY DEF LInv, LTypes
<1>3. CASE BeginApproveLabel(c)
  <2> DEFINE copy == [label EXCEPT !.status = "approved", !.active = TRUE,
                                   !.approved = TRUE, !.reason = FALSE]
  <2>1. Decide(c, "approve", copy) /\ label \in Label
    BY <1>2, <1>3 DEF BeginApproveLabel
  <2>2. Derived([op |-> "approve", base |-> label, copy |-> copy])
    BY <2>1 DEF Derived
  <2> QED BY <2>1, <2>2, DecideStep
<1>4. CASE BeginRejectLabel(c)
  <2> DEFINE copy == [label EXCEPT !.status = "rejected", !.active = FALSE,
                                   !.approved = FALSE, !.reason = TRUE]
  <2>1. Decide(c, "reject", copy) /\ label \in Label
    BY <1>2, <1>4 DEF BeginRejectLabel
  <2>2. Derived([op |-> "reject", base |-> label, copy |-> copy])
    BY <2>1 DEF Derived
  <2> QED BY <2>1, <2>2, DecideStep
<1>5. CASE BeginDeprecate(c)
  <2> DEFINE copy == [label EXCEPT !.status = "deprecated", !.active = FALSE]
  <2>1. Decide(c, "deprecate", copy) /\ label \in Label /\ label.status = "approved"
    BY <1>2, <1>5 DEF BeginDeprecate
  <2>2. Derived([op |-> "deprecate", base |-> label, copy |-> copy])
    BY <2>1 DEF Derived
  <2> QED BY <2>1, <2>2, DecideStep
<1>6. ASSUME NEW t \in Texts, BeginCreateLabel(c, t) PROVE LInv'
  <2>1. Derived([op |-> "create", base |-> label, copy |-> Fresh("pending", FALSE, t)])
    BY DEF Derived
  <2> QED BY <1>6, <2>1, DecideStep DEF BeginCreateLabel
<1>7. ASSUME NEW t \in Texts, BeginUpdateLabel(c, t) PROVE LInv'
  <2>1. label \in Label /\ Decide(c, "update", [label EXCEPT !.text = t])
    BY <1>2, <1>7 DEF BeginUpdateLabel
  <2>2. Derived([op |-> "update", base |-> label, copy |-> [label EXCEPT !.text = t]])
    BY <2>1 DEF Derived
  <2> QED BY <2>1, <2>2, DecideStep
<1>8. ASSUME NEW t \in Texts, BeginImportLabel(c, t) PROVE LInv'
  <2> DEFINE copy == IF label = NoLabel THEN Fresh("approved", TRUE, t)
                     ELSE [label EXCEPT !.text = t, !.active = TRUE]
  <2>1. Decide(c, "import", copy)
    BY <1>8 DEF BeginImportLabel
  <2>2. Derived([op |-> "import", base |-> label, copy |-> copy])
    <3>1. CASE label = NoLabel
      BY <3>1 DEF Derived
    <3>2. CASE label # NoLabel
      BY <1>2, <3>2 DEF Derived
    <3> QED BY <3>1, <3>2
  <2> HIDE DEF copy
  <2> QED BY <2>1, <2>2, DecideStep
<1>9. CASE CommitLabel(c)
  <2>1. label' \in Label
    BY <1>9, CommitLabelRow
  <2>2. request' = [request EXCEPT ![c] = [NoRequest EXCEPT !.op = "done"]]
    BY <1>9 DEF CommitLabel, EndRequest
  <2>3. \A b \in LabelCalls : request'[b] = IF b = c THEN [NoRequest EXCEPT !.op = "done"]
                                            ELSE request[b]
    BY <2>2 DEF LInv, LTypes
  <2>4. LTypes'
    BY <2>1, <2>2 DEF LInv, LTypes
  <2>5. ASSUME NEW b \in LabelCalls
        PROVE  \/ request'[b] = NoRequest
               \/ request'[b] = [NoRequest EXCEPT !.op = "done"]
               \/ /\ Derived(request'[b])
                  /\ request'[b].base \in Label \cup {NoLabel}
                  /\ request'[b].base \in Label => label' \in Label
    <3>1. CASE b = c
      BY <2>3, <3>1
    <3>2. CASE b # c
      <4>1. request'[b] = request[b]
        BY <2>3, <3>2
      <4> QED BY <2>1, <4>1 DEF LInv
    <3> QED BY <3>1, <3>2
  <2> QED BY <2>4, <2>5 DEF LInv, Derived
<1> QED BY <1>3, <1>4, <1>5, <1>6, <1>7, <1>8, <1>9

\* The labels' inductive invariant holds throughout.
THEOREM LInvariant == LSpec => []LInv
<1>1. LInit => LInv
  BY DEF LInit, LInv, LTypes
<1> QED BY <1>1, LInvNext, PTL DEF LSpec

\* Types of the row and of the requests' copies (warning_labels.py).
THEOREM LTypeCorrect == LSpec => []LTypeOK
<1>1. LInv => LTypeOK
  <2> SUFFICES ASSUME LInv, NEW c \in LabelCalls
               PROVE  request[c].copy \in Label \cup {NoLabel}
    BY DEF LTypeOK, LInv, LTypes
  <2>1. NoRequest.copy = NoLabel /\ [NoRequest EXCEPT !.op = "done"].copy = NoLabel
    BY DEF NoRequest
  <2> QED BY <2>1, DerivedTypes DEF LInv
<1> QED BY <1>1, LInvariant, PTL

\* Only a decision on an outdated row, or an import, leaves a warning label that
\* says two things at once (warning_labels.py: read, await, write the columns).
THEOREM MixedStaleOrImported == LSpec => MixedIsStaleOrImported
<1>1. LInv /\ [LNext]_lvars =>
        (Settled(label) /\ ~Settled(label') =>
           \E c \in LabelCalls : Decides(c) /\ (request[c].base # label \/ request[c].op = "import"))
  <2> SUFFICES ASSUME LInv, [LNext]_lvars, Settled(label), ~Settled(label'),
                      \A c \in LabelCalls : Decides(c) =>
                         request[c].base = label /\ request[c].op # "import"
               PROVE  FALSE
    OBVIOUS
  <2>1. label' # label
    OBVIOUS
  <2>2. PICK c \in LabelCalls : CommitLabel(c)
    BY <2>1 DEF LNext, lvars, BeginApproveLabel, BeginRejectLabel, BeginDeprecate,
                BeginCreateLabel, BeginUpdateLabel, BeginImportLabel, Decide
  <2> DEFINE r == request[c]
  <2>3. Decides(c)
    <3>1. request' = [request EXCEPT ![c] = [NoRequest EXCEPT !.op = "done"]]
          /\ request[c].op \notin {"none", "done"}
      BY <2>2 DEF CommitLabel, EndRequest
    <3>2. request'[c] = [NoRequest EXCEPT !.op = "done"]
      BY <3>1 DEF LInv, LTypes
    <3>3. [NoRequest EXCEPT !.op = "done"].op = "done"
      BY DEF NoRequest
    <3> QED BY <3>1, <3>2, <3>3 DEF Decides
  <2>4. r.base = label /\ r.op # "import"
    BY <2>3
  <2>5. Derived(r) /\ r.copy \in Label /\ label' = r.copy
        /\ \/ label = NoLabel /\ Inserts(r)
           \/ label \in Label /\ ~Inserts(r)
    <3>1. /\ Derived(r) /\ r.copy \in Label
          /\ \/ label = NoLabel /\ label' = r.copy /\ Inserts(r)
             \/ label \in Label /\ ~Inserts(r) /\ (r.base = label => label' = r.copy)
      BY <2>1, <2>2, CommitLabelRow
    <3> QED BY <2>4, <3>1
  <2>6. CASE r.op = "create"
    <3>1. PICK t \in Texts : r.copy = Fresh("pending", FALSE, t)
      BY <2>5, <2>6 DEF Derived
    <3>2. Fresh("pending", FALSE, t).status = "pending" /\ ~Fresh("pending", FALSE, t).active
          /\ ~Fresh("pending", FALSE, t).reason
      BY DEF Fresh
    <3> QED BY <2>5, <3>1, <3>2 DEF Settled
  <2>7. CASE r.op # "create"
    <3>1. label \in Label /\ label # NoLabel
      BY <2>4, <2>5, <2>7, NoLabelIsNone DEF Derived, Inserts
    <3>2. /\ label.active <=> label.status = "approved"
          /\ label.reason <=> label.status = "rejected"
      BY <3>1 DEF Settled
    <3>3. CASE r.op = "update"
      <4>1. PICK t \in Texts : r.copy = [label EXCEPT !.text = t]
        BY <2>4, <2>5, <3>3 DEF Derived
      <4>2. /\ label'.active = label.active /\ label'.status = label.status
            /\ label'.reason = label.reason
        BY <2>5, <3>1, <4>1 DEF Label
      <4> QED BY <3>2, <4>2 DEF Settled
    <3>4. CASE r.op = "approve"
      <4>1. r.copy = [label EXCEPT !.status = "approved", !.active = TRUE,
                                   !.approved = TRUE, !.reason = FALSE]
        BY <2>4, <2>5, <3>4 DEF Derived
      <4>2. label'.active = TRUE /\ label'.status = "approved" /\ label'.reason = FALSE
        BY <2>5, <3>1, <4>1 DEF Label
      <4> QED BY <4>2 DEF Settled
    <3>5. CASE r.op = "reject"
      <4>1. r.copy = [label EXCEPT !.status = "rejected", !.active = FALSE,
                                   !.approved = FALSE, !.reason = TRUE]
        BY <2>4, <2>5, <3>5 DEF Derived
      <4>2. label'.active = FALSE /\ label'.status = "rejected" /\ label'.reason = TRUE
        BY <2>5, <3>1, <4>1 DEF Label
      <4> QED BY <4>2 DEF Settled
    <3>6. CASE r.op = "deprecate"
      <4>1. /\ r.copy = [label EXCEPT !.status = "deprecated", !.active = FALSE]
            /\ label.status = "approved"
        BY <2>4, <2>5, <3>6 DEF Derived
      <4>2. /\ label'.active = FALSE /\ label'.status = "deprecated"
            /\ label'.reason = label.reason
        BY <2>5, <3>1, <4>1 DEF Label
      <4> QED BY <3>2, <4>1, <4>2 DEF Settled
    <3> QED BY <2>4, <2>5, <2>7, <3>3, <3>4, <3>5, <3>6 DEF Derived
  <2> QED BY <2>6, <2>7
<1> QED BY <1>1, LInvariant, PTL DEF LSpec, MixedIsStaleOrImported


-----------------------------------------------------------------------------
(* The agents' turns in a chat: ToolsAreAnswered.                          *)

\* The inductive invariant: results are there from the first round on, another
\* importer's only where the order has none, and tools are run while there are
\* rounds left.
HInv ==
  /\ HTypeOK /\ ToolsAreAnswered
  /\ turn.round = 0 <=> turn.found = {}
  /\ "other" \in turn.found => ~scope.importer
  /\ turn.pc = "looking" => turn.round < ToolRounds

\* A tool tells of another importer's document only in an order without one.
LEMMA ToolFindings ==
  ASSUME scope \in Scope, NEW name, NEW got \in RunTool(name)
  PROVE  got = "other" => ~scope.importer
<1>1. /\ ToolProfile # "other" /\ ToolListDocuments # "other" /\ "other" \notin ToolSearch
      /\ ToolExtraction # "other" /\ "other" \notin ToolListActive /\ "other" \notin ToolItemData
  BY DEF ToolProfile, ToolListDocuments, ToolSearch, ToolExtraction, ToolListActive, ToolItemData
<1>2. ToolDocumentText = "other" => ~scope.importer
  BY DEF ToolDocumentText
<1> QED BY <1>1, <1>2 DEF RunTool

\* The reply that ends a turn.
LEMMA ConcludedIsAnswered ==
  ASSUME HInv, NEW text \in Text, NEW call \in ChatCalls,
         turn' = Concluded(text, call), UNCHANGED scope
  PROVE  HInv'
<1> DEFINE e == Ensured(text, turn.found)
           p == Permitted(scope.speaker, call.patches)
           q == turn.proposed \cup call.patches
<1>1. turn \in Turn /\ scope \in Scope
  BY DEF HInv, HTypeOK
<1>2. e \in Text /\ (turn.found # {} => ~IsVacuous(e))
  BY DEF Ensured, IsVacuous, Text
<1>3. /\ call.patches \subseteq PatchFields /\ call.resolved \in BOOLEAN
  BY DEF ChatCalls
<1>4. p \subseteq Allowlist[scope.speaker] /\ p \subseteq call.patches
  BY DEF Permitted
<1>5. q \subseteq PatchFields
  BY <1>1, <1>3 DEF Turn
<1>6. turn' = [turn EXCEPT !.pc = "over", !.text = e, !.patches = p,
                           !.resolved = call.resolved, !.proposed = q]
  BY DEF Concluded
<1>7. p \subseteq q /\ p \subseteq PatchFields
  BY <1>3, <1>4
<1> HIDE DEF e, p, q
<1>8. /\ turn' \in Turn /\ turn'.pc = "over" /\ turn'.text = e /\ turn'.patches = p
      /\ turn'.proposed = q /\ turn'.found = turn.found /\ turn'.round = turn.round
  BY <1>1, <1>2, <1>3, <1>5, <1>6, <1>7 DEF Turn
<1>9. turn.round \in Nat /\ (turn.round = 0 <=> turn.found = {})
      /\ ("other" \in turn.found => ~scope.importer)
  BY <1>1, RoundsAssumption DEF HInv, Turn
<1>10. ToolsAreAnswered'
  <2>1. turn'.round > 0 => ~IsVacuous(turn'.text)
    BY <1>2, <1>8, <1>9
  <2>2. turn'.patches \subseteq Allowlist[scope'.speaker] \cap turn'.proposed
    BY <1>4, <1>7, <1>8
  <2> QED BY <1>8, <1>9, <2>1, <2>2 DEF ToolsAreAnswered
<1> QED BY <1>1, <1>8, <1>9, <1>10 DEF HInv, HTypeOK

\* The model's reply, whether it asks for tools or ends the turn.
LEMMA RespondStep ==
  ASSUME HInv, NEW prose \in {"silence", "filler", "content"},
         NEW block \in {"last", "none", "elsewhere"}, NEW call \in ChatCalls,
         Respond(prose, block, call)
  PROVE  HInv'
<1> DEFINE said == ToolCall(block, call)
           text == Spoken(Visible(prose, block), Refused(scope.speaker, said.patches))
<1>1. Empty \in ChatCalls
  BY DEF Empty, ChatCalls
<1>2. said \in ChatCalls
  BY <1>1 DEF ToolCall
<1>3. text \in Text
  BY DEF Spoken, Visible, Text
<1>4. /\ turn' = IF said.tools # {} /\ RoundsLeft(turn)
                 THEN [turn EXCEPT !.pc = "looking", !.tools = said.tools,
                                   !.proposed = @ \cup said.patches]
                 ELSE Concluded(text, said)
      /\ scope' = scope /\ turn.pc = "asking"
  BY DEF Respond
<1> HIDE DEF said, text
<1>5. turn \in Turn /\ scope \in Scope
  BY DEF HInv, HTypeOK
<1>6. CASE said.tools # {} /\ RoundsLeft(turn)
  <2>1. said.tools \subseteq Tools /\ said.patches \subseteq PatchFields
    BY <1>2 DEF ChatCalls
  <2>2. turn' = [turn EXCEPT !.pc = "looking", !.tools = said.tools,
                             !.proposed = turn.proposed \cup said.patches]
    BY <1>4, <1>6
  <2>3. /\ turn' \in Turn /\ turn'.pc = "looking" /\ turn'.found = turn.found
        /\ turn'.round = turn.round
    BY <1>5, <2>1, <2>2 DEF Turn
  <2>4. turn.round < ToolRounds
    BY <1>6 DEF RoundsLeft
  <2> QED BY <1>4, <1>5, <2>3, <2>4 DEF HInv, HTypeOK, ToolsAreAnswered
<1>7. CASE ~(said.tools # {} /\ RoundsLeft(turn))
  BY <1>2, <1>3, <1>4, <1>7, ConcludedIsAnswered
<1> QED BY <1>6, <1>7

\* The turns.
LEMMA HInvNext == HInv /\ [HNext]_hvars => HInv'
<1> SUFFICES ASSUME HInv, [HNext]_hvars PROVE HInv'
  OBVIOUS
<1>1. Empty \in ChatCalls
  BY DEF Empty, ChatCalls
<1>2. ASSUME NEW prose \in {"silence", "filler", "content"}, NEW call \in ChatCalls,
             Respond(prose, "last", call)
      PROVE  HInv'
  BY <1>2, RespondStep
<1>3. ASSUME NEW prose \in {"silence", "filler", "content"}, NEW block \in {"none", "elsewhere"},
             Respond(prose, block, Empty)
      PROVE  HInv'
  BY <1>1, <1>3, RespondStep
<1>4. CASE RespondApology
  <2>1. [kind |-> "apology", refusal |-> FALSE] \in Text
    BY DEF Text
  <2> QED BY <1>1, <1>4, <2>1, ConcludedIsAnswered DEF RespondApology
<1>5. CASE LookUp
  <2>1. PICK t \in turn.tools, got \in Findings :
          /\ got \in RunTool(t)
          /\ turn' = [turn EXCEPT !.pc = "asking", !.round = @ + 1,
                                  !.found = @ \cup {got}, !.tools = {}]
    BY <1>5 DEF LookUp
  <2>2. turn \in Turn /\ scope \in Scope /\ scope' = scope /\ turn.pc = "looking"
    BY <1>5 DEF HInv, HTypeOK, LookUp
  <2>3. /\ turn.round \in 0..ToolRounds /\ turn.round < ToolRounds
        /\ turn.found \subseteq Findings
    BY <2>2 DEF HInv, Turn
  <2>4. turn.round + 1 \in 0..ToolRounds /\ turn.round + 1 # 0
    BY <2>3, RoundsAssumption
  <2>5. turn' = [turn EXCEPT !.pc = "asking", !.round = turn.round + 1,
                             !.found = turn.found \cup {got}, !.tools = {}]
    BY <2>1
  <2>6. /\ turn' \in Turn /\ turn'.pc = "asking" /\ turn'.round = turn.round + 1
        /\ turn'.found = turn.found \cup {got}
    BY <2>2, <2>3, <2>4, <2>5 DEF Turn
  <2>7. "other" \in turn'.found => ~scope'.importer
    BY <2>1, <2>2, <2>6, ToolFindings DEF HInv
  <2> QED BY <2>2, <2>4, <2>6, <2>7 DEF HInv, HTypeOK, ToolsAreAnswered
<1>6. CASE RespondRaises
  <2>1. turn \in Turn /\ scope \in Scope /\ scope' = scope
        /\ turn' = [turn EXCEPT !.pc = "raised"]
    BY <1>6 DEF HInv, HTypeOK, RespondRaises
  <2>2. /\ turn' \in Turn /\ turn'.pc = "raised" /\ turn'.found = turn.found
        /\ turn'.round = turn.round
    BY <2>1 DEF Turn
  <2> QED BY <2>1, <2>2 DEF HInv, HTypeOK, ToolsAreAnswered
<1>7. CASE UNCHANGED hvars
  BY <1>7 DEF hvars, HInv, HTypeOK, ToolsAreAnswered
<1> QED BY <1>2, <1>3, <1>4, <1>5, <1>6, <1>7 DEF HNext

\* The turns' inductive invariant holds throughout.
THEOREM HInvariant == HSpec => []HInv
<1>1. HInit => HInv
  <2> SUFFICES ASSUME HInit PROVE HInv
    OBVIOUS
  <2>1. NewTurn \in Turn
    <3>1. 0 \in 0..ToolRounds
      BY RoundsAssumption
    <3> QED BY <3>1 DEF NewTurn, Turn, Unsaid, Text
  <2>2. NewTurn.round = 0 /\ NewTurn.found = {} /\ NewTurn.pc = "asking"
    BY DEF NewTurn
  <2> QED BY <2>1, <2>2 DEF HInit, HInv, HTypeOK, ToolsAreAnswered
<1> QED BY <1>1, HInvNext, PTL DEF HSpec

\* In whatever round an agent stops asking for tools, the operator is answered,
\* and what the turn read or changes stays with the order's importer and the
\* agent's allowlist (chat.py, chat_tools.py, chat_dispatcher.py).
THEOREM ToolsAnswered == HSpec => [](HTypeOK /\ ToolsAreAnswered)
<1>1. HInv => HTypeOK /\ ToolsAreAnswered
  BY DEF HInv
<1> QED BY <1>1, HInvariant, PTL


-----------------------------------------------------------------------------
(* Paid calls: OvershootIsOverlap.                                         *)

\* A call to a language model.
Paid == [pc : {"idle", "refused", "lookup", "asking", "store", "record", "expiry", "done",
               "raised"},
         prompt : Prompts \cup {"none"}, estimate : Costs \cup {0}, seen : Nat,
         hit : BOOLEAN, asked : 0..Providers, cost : Costs \cup {0}, total : Nat]

\* A call past its check was within the limit then, costs nothing until it has
\* been answered by a provider, and asks while there are providers left.
CallOf(c) ==
  /\ paid[c].pc \notin {"idle", "refused"} => paid[c].seen + paid[c].estimate <= Limit
  /\ paid[c].hit => paid[c].cost = 0
  /\ paid[c].pc = "lookup" => paid[c].cost = 0 /\ paid[c].asked = 0
  /\ paid[c].pc \in {"lookup", "asking", "store"} => paid[c].prompt \in Prompts
  /\ paid[c].pc \in {"lookup", "asking", "store"} => ~paid[c].hit
  /\ paid[c].pc = "asking" => paid[c].asked < Providers

\* The inductive invariant.
CInv ==
  /\ spent \in Nat /\ expires \in BOOLEAN /\ cache \subseteq Prompts
  /\ paid \in [PaidCalls -> Paid]
  /\ \A c \in PaidCalls : CallOf(c)

\* Costs are numbers.
LEMMA CostsAreNat == Costs \cup {0} \subseteq Nat
BY LlmAssumption

\* A step that changes one call.
LEMMA OneCall ==
  ASSUME CInv, NEW c \in PaidCalls, NEW u \in Paid, paid' = [paid EXCEPT ![c] = u],
         spent' \in Nat, expires' \in BOOLEAN, cache' \subseteq Prompts,
         CallOf(c)'
  PROVE  CInv'
<1>1. paid' \in [PaidCalls -> Paid] /\ \A b \in PaidCalls \ {c} : paid'[b] = paid[b]
  BY DEF CInv
<1>2. ASSUME NEW b \in PaidCalls, b # c PROVE CallOf(b)'
  <2>1. paid'[b] = paid[b] /\ CallOf(b)
    BY <1>1, <1>2 DEF CInv
  <2> QED BY <2>1 DEF CallOf
<1> QED BY <1>1, <1>2 DEF CInv

\* Every step keeps the invariant.
LEMMA CInvNext == CInv /\ [CNext]_cvars => CInv'
<1> SUFFICES ASSUME CInv, [CNext]_cvars PROVE CInv'
  OBVIOUS
<1>1. CASE UNCHANGED cvars
  BY <1>1 DEF cvars, CInv, CallOf
<1>2. CASE Reset \/ Forget
  <2>1. paid' = paid /\ spent' \in Nat /\ expires' \in BOOLEAN /\ cache' \subseteq Prompts
    <3>1. spent \in Nat /\ expires \in BOOLEAN /\ cache \subseteq Prompts
      BY DEF CInv
    <3>2. CASE Reset
      <4>1. spent' = 0 /\ expires' = FALSE /\ cache' = cache /\ paid' = paid
        BY <3>2 DEF Reset
      <4> QED BY <3>1, <4>1
    <3>3. CASE Forget
      <4>1. cache' = {} /\ spent' = spent /\ expires' = expires /\ paid' = paid
        BY <3>3 DEF Forget
      <4> QED BY <3>1, <4>1
    <3> QED BY <1>2, <3>2, <3>3
  <2> QED BY <2>1 DEF CInv, CallOf
<1>3. ASSUME NEW c \in PaidCalls,
             \/ Lookup(c) \/ StoreCompletion(c) \/ Record(c) \/ SetExpiry(c)
             \/ \E cost \in Costs : AskProvider(c, cost) \/ \E p \in Prompts : Check(c, p, cost)
      PROVE  CInv'
  <2>1. /\ paid[c] \in Paid /\ CallOf(c) /\ paid \in [PaidCalls -> Paid]
        /\ spent \in Nat /\ expires \in BOOLEAN /\ cache \subseteq Prompts
    BY DEF CInv
  <2>2. CASE Lookup(c)
    <3> DEFINE hit  == [paid[c] EXCEPT !.pc = "record", !.hit = TRUE]
               miss == [paid[c] EXCEPT !.pc = "asking"]
    <3>1. /\ hit \in Paid /\ hit.pc = "record" /\ hit.cost = paid[c].cost
          /\ hit.seen = paid[c].seen /\ hit.estimate = paid[c].estimate
          /\ miss \in Paid /\ miss.pc = "asking" /\ miss.hit = paid[c].hit
          /\ miss.prompt = paid[c].prompt
          /\ miss.asked = paid[c].asked /\ miss.seen = paid[c].seen
          /\ miss.estimate = paid[c].estimate
      BY <2>1 DEF Paid
    <3>2. /\ paid' = [paid EXCEPT ![c] = hit] \/ paid' = [paid EXCEPT ![c] = miss]
          /\ paid[c].pc = "lookup" /\ spent' = spent /\ expires' = expires /\ cache' = cache
      BY <2>2 DEF Lookup
    <3> HIDE DEF hit, miss
    <3>3. PICK u \in {hit, miss} : paid' = [paid EXCEPT ![c] = u]
      BY <3>2
    <3>4. paid'[c] = u
      BY <2>1, <3>3
    <3>5. CallOf(c)'
      BY <2>1, <3>1, <3>2, <3>3, <3>4, LlmAssumption DEF CallOf
    <3> QED BY <2>1, <3>1, <3>2, <3>3, <3>5, OneCall
  <2>3. CASE StoreCompletion(c)
    <3> DEFINE u == [paid[c] EXCEPT !.pc = "record"]
    <3>1. /\ u \in Paid /\ u.pc = "record" /\ u.hit = paid[c].hit /\ u.cost = paid[c].cost
          /\ u.seen = paid[c].seen /\ u.estimate = paid[c].estimate
      BY <2>1 DEF Paid
    <3>2. /\ paid' = [paid EXCEPT ![c] = u] /\ paid[c].pc = "store"
          /\ spent' = spent /\ expires' = expires
      BY <2>3 DEF StoreCompletion
    <3>3. cache' \subseteq Prompts
      <4>1. paid[c].prompt \in Prompts
        BY <2>1, <3>2 DEF CallOf, Paid
      <4> QED BY <2>1, <2>3, <4>1 DEF StoreCompletion
    <3> HIDE DEF u
    <3>4. paid'[c] = u
      BY <2>1, <3>2
    <3>5. CallOf(c)'
      BY <2>1, <3>1, <3>2, <3>4 DEF CallOf
    <3> QED BY <2>1, <3>1, <3>2, <3>3, <3>5, OneCall
  <2>4. CASE Record(c)
    <3> DEFINE u == [paid[c] EXCEPT !.pc = "expiry", !.total = spent']
    <3>1. spent' \in Nat
      <4>1. paid[c].cost \in Nat
        BY <2>1, CostsAreNat DEF Paid
      <4>2. spent' = spent + paid[c].cost
        BY <2>4 DEF Record
      <4> QED BY <2>1, <4>1, <4>2
    <3>2. /\ u \in Paid /\ u.pc = "expiry" /\ u.hit = paid[c].hit /\ u.cost = paid[c].cost
          /\ u.seen = paid[c].seen /\ u.estimate = paid[c].estimate
      BY <2>1, <3>1 DEF Paid
    <3>3. /\ paid' = [paid EXCEPT ![c] = u] /\ paid[c].pc = "record"
          /\ cache' = cache /\ expires' = expires
      BY <2>4 DEF Record
    <3> HIDE DEF u
    <3>4. paid'[c] = u
      BY <2>1, <3>3
    <3>5. CallOf(c)'
      BY <2>1, <3>2, <3>3, <3>4 DEF CallOf
    <3> QED BY <2>1, <3>1, <3>2, <3>3, <3>5, OneCall
  <2>5. CASE SetExpiry(c)
    <3> DEFINE u == [paid[c] EXCEPT !.pc = "done"]
    <3>1. /\ u \in Paid /\ u.pc = "done" /\ u.hit = paid[c].hit /\ u.cost = paid[c].cost
          /\ u.seen = paid[c].seen /\ u.estimate = paid[c].estimate
      BY <2>1 DEF Paid
    <3>2. /\ paid' = [paid EXCEPT ![c] = u] /\ paid[c].pc = "expiry"
          /\ spent' = spent /\ expires' \in BOOLEAN /\ cache' = cache
      BY <2>5 DEF SetExpiry
    <3> HIDE DEF u
    <3>3. paid'[c] = u
      BY <2>1, <3>2
    <3>4. CallOf(c)'
      BY <2>1, <3>1, <3>2, <3>3 DEF CallOf
    <3> QED BY <2>1, <3>1, <3>2, <3>4, OneCall
  <2>6. ASSUME NEW cost \in Costs, AskProvider(c, cost) PROVE CInv'
    <3> DEFINE answered == [paid[c] EXCEPT !.pc = "store", !.cost = cost]
               failed   == [paid[c] EXCEPT !.asked = paid[c].asked + 1,
                              !.pc = IF paid[c].asked + 1 = Providers THEN "raised"
                                     ELSE paid[c].pc]
    <3>1. /\ paid[c].pc = "asking" /\ ~paid[c].hit /\ paid[c].asked \in 0..Providers
          /\ paid[c].asked < Providers /\ paid[c].asked + 1 \in 0..Providers
          /\ paid[c].asked + 1 # Providers => paid[c].asked + 1 < Providers
      BY <2>1, <2>6, LlmAssumption DEF AskProvider, CallOf, Paid
    <3>2. /\ answered \in Paid /\ answered.pc = "store" /\ answered.hit = paid[c].hit
          /\ answered.prompt = paid[c].prompt
          /\ answered.seen = paid[c].seen /\ answered.estimate = paid[c].estimate
      BY <2>1 DEF Paid
    <3>3. /\ failed \in Paid /\ failed.hit = paid[c].hit
          /\ failed.prompt = paid[c].prompt
          /\ failed.seen = paid[c].seen /\ failed.estimate = paid[c].estimate
          /\ failed.asked = paid[c].asked + 1
          /\ failed.pc = IF paid[c].asked + 1 = Providers THEN "raised" ELSE "asking"
      BY <2>1, <3>1 DEF Paid
    <3>4. /\ paid' = [paid EXCEPT ![c] = answered] \/ paid' = [paid EXCEPT ![c] = failed]
          /\ spent' = spent /\ expires' = expires /\ cache' = cache
      BY <2>6 DEF AskProvider
    <3> HIDE DEF answered, failed
    <3>5. PICK u \in {answered, failed} : paid' = [paid EXCEPT ![c] = u]
      BY <3>4
    <3>6. paid'[c] = u
      BY <2>1, <3>5
    <3>7. CallOf(c)'
      BY <2>1, <3>1, <3>2, <3>3, <3>5, <3>6 DEF CallOf
    <3> QED BY <2>1, <3>2, <3>3, <3>4, <3>5, <3>7, OneCall
  <2>7. ASSUME NEW p \in Prompts, NEW cost \in Costs, Check(c, p, cost) PROVE CInv'
    <3> DEFINE u == [NewCall EXCEPT !.prompt = p, !.estimate = cost, !.seen = spent,
                       !.pc = IF spent + cost > Limit THEN "refused" ELSE "lookup"]
    <3>1. 0 \in 0..Providers /\ 0 < Providers /\ cost \in Nat
      BY LlmAssumption
    <3>2. /\ u \in Paid /\ u.hit = FALSE /\ u.cost = 0 /\ u.asked = 0 /\ u.prompt = p
          /\ u.seen = spent /\ u.estimate = cost
          /\ u.pc = IF spent + cost > Limit THEN "refused" ELSE "lookup"
      BY <2>1, <3>1 DEF Paid, NewCall
    <3>3. /\ paid' = [paid EXCEPT ![c] = u]
          /\ spent' = spent /\ expires' = expires /\ cache' = cache
      BY <2>7 DEF Check, Projected
    <3> HIDE DEF u
    <3>4. paid'[c] = u
      BY <2>1, <3>3
    <3>5. u.pc = "lookup" => u.seen + u.estimate <= Limit
      BY <2>1, <3>1, <3>2, LlmAssumption
    <3>6. CallOf(c)'
      BY <3>2, <3>4, <3>5 DEF CallOf
    <3> QED BY <2>1, <3>2, <3>3, <3>6, OneCall
  <2> QED BY <1>3, <2>2, <2>3, <2>4, <2>5, <2>6, <2>7
<1> QED BY <1>1, <1>2, <1>3 DEF CNext

\* The calls' inductive invariant holds throughout.
THEOREM CInvariant == CSpec => []CInv
<1>1. CInit => CInv
  <2> SUFFICES ASSUME CInit PROVE CInv
    OBVIOUS
  <2>1. 0 \in 0..Providers
    BY LlmAssumption
  <2>2. /\ NewCall \in Paid /\ NewCall.pc = "idle" /\ NewCall.hit = FALSE
    BY <2>1 DEF NewCall, Paid
  <2>3. \A c \in PaidCalls : paid[c] = NewCall
    BY DEF CInit
  <2> QED BY <2>2, <2>3 DEF CInit, CInv, CallOf
<1> QED BY <1>1, CInvNext, PTL DEF CSpec

\* Types of the counter, the cache and the calls (llm.py, cost_breaker.py).
THEOREM CTypeCorrect == CSpec => []CTypeOK
<1>1. CInv => CTypeOK
  BY DEF CInv, CTypeOK, Paid
<1> QED BY <1>1, CInvariant, PTL

\* A call that is alone between its check and its charge, and costs no more
\* than was estimated, never takes the counter past the limit; an answer from
\* the cache never does (cost_breaker.py: check before, record after).
THEOREM OvershootOverlaps == CSpec => OvershootIsOverlap
<1>1. CInv /\ [CNext]_cvars =>
        \A c \in PaidCalls :
          spent' > Limit /\ spent' # spent /\ paid[c].pc = "record" /\ paid'[c].pc # "record" =>
            /\ paid[c].cost > paid[c].estimate \/ paid[c].seen # spent
            /\ ~paid[c].hit
  <2> SUFFICES ASSUME CInv, [CNext]_cvars, NEW c \in PaidCalls,
                      spent' > Limit, spent' # spent,
                      paid[c].pc = "record", paid'[c].pc # "record"
               PROVE  /\ paid[c].cost > paid[c].estimate \/ paid[c].seen # spent
                      /\ ~paid[c].hit
    OBVIOUS
  <2>1. paid[c] \in Paid /\ CallOf(c) /\ spent \in Nat /\ paid \in [PaidCalls -> Paid]
    BY DEF CInv
  <2>2. spent' = spent + paid[c].cost
    <3>1. paid' # paid
      OBVIOUS
    <3>2. PICK b \in PaidCalls :
            \/ Lookup(b) \/ StoreCompletion(b) \/ Record(b) \/ SetExpiry(b)
            \/ \E cost \in Costs : AskProvider(b, cost) \/ \E p \in Prompts : Check(b, p, cost)
      BY <3>1 DEF CNext, cvars, Reset, Forget
    <3>3. Record(b)
      BY <3>2 DEF Lookup, StoreCompletion, SetExpiry, AskProvider, Check
    <3>4. b = c
      BY <2>1, <3>3 DEF Record
    <3> QED BY <3>3, <3>4 DEF Record
  <2>3. /\ paid[c].cost \in Nat /\ paid[c].estimate \in Nat /\ paid[c].seen \in Nat
        /\ Limit \in Nat /\ paid[c].seen + paid[c].estimate <= Limit
    BY <2>1, CostsAreNat, LlmAssumption DEF Paid, CallOf
  <2>4. ~paid[c].hit
    BY <2>1, <2>2 DEF CallOf
  <2> QED BY <2>1, <2>2, <2>3, <2>4
<1> QED BY <1>1, CInvariant, PTL DEF CSpec, OvershootIsOverlap


-----------------------------------------------------------------------------
(* The rule engine: DryRunPredicts.                                        *)

\* What the pipeline's report says of the rules and the item.
ReportOf(rules, ctx) ==
  /\ report.hitl <=> ~report.success /\ ~Raises(rules, ctx)
  /\ Raises(rules, ctx) => ~report.success /\ ~report.passed
  /\ ~Raises(rules, ctx) => (report.passed <=> Passes(rules, ctx))
  /\ ~Raises(rules, ctx) /\ ~report.passed => report.hitl

\* The inductive invariant: what a dry run answered it would answer still, of the
\* rules that it read, and the report is that of the rules there are.
QInv ==
  /\ QTypeOK /\ dryRun # "newly_passing"
  /\ proposal # Missing =>
       /\ proposal.others[proposal.code] = Missing
       /\ dryRun = DryRun(proposal.others, proposal.code, proposal.logic)
  /\ report # Missing => ReportOf(activeRules, PipelineContext(goods))

\* A rule's verdict does not depend on the other rules.
LEMMA VerdictOf ==
  ASSUME NEW rules, NEW ctx
  PROVE  /\ DOMAIN Verdicts(rules, ctx) = {c \in RuleCodes : rules[c] # Missing}
         /\ \A c \in DOMAIN Verdicts(rules, ctx) :
              Verdicts(rules, ctx)[c] = RuleOutcome(rules[c], ctx)
BY DEF Verdicts

\* More rules only ever fail and raise more.
LEMMA RulesAdd ==
  ASSUME NEW few, NEW many, NEW ctx,
         \A c \in RuleCodes : few[c] # Missing => many[c] = few[c]
  PROVE  /\ DOMAIN Verdicts(few, ctx) \subseteq DOMAIN Verdicts(many, ctx)
         /\ \A c \in DOMAIN Verdicts(few, ctx) : Verdicts(many, ctx)[c] = Verdicts(few, ctx)[c]
         /\ Raises(few, ctx) => Raises(many, ctx)
         /\ Passes(many, ctx) => Passes(few, ctx)
<1>1. /\ DOMAIN Verdicts(few, ctx) \subseteq DOMAIN Verdicts(many, ctx)
      /\ \A c \in DOMAIN Verdicts(few, ctx) : Verdicts(many, ctx)[c] = Verdicts(few, ctx)[c]
  <2>1. /\ DOMAIN Verdicts(few, ctx) = {c \in RuleCodes : few[c] # Missing}
        /\ \A c \in DOMAIN Verdicts(few, ctx) : Verdicts(few, ctx)[c] = RuleOutcome(few[c], ctx)
    BY VerdictOf
  <2>2. /\ DOMAIN Verdicts(many, ctx) = {c \in RuleCodes : many[c] # Missing}
        /\ \A c \in DOMAIN Verdicts(many, ctx) : Verdicts(many, ctx)[c] = RuleOutcome(many[c], ctx)
    BY VerdictOf
  <2> QED BY <2>1, <2>2
<1> QED BY <1>1 DEF Raises, Passes

\* A dry run never says that an item newly passes; newly failing blames the rule
\* that is tried, and unchanged another one, if any.
LEMMA DryRunAnswer ==
  ASSUME NEW rules \in [RuleCodes -> Logic \cup {Missing}],
         NEW code \in RuleCodes, NEW logic \in Logic
  PROVE  LET ctx   == DryRunContext(goods)
             after == [rules EXCEPT ![code] = logic]
         IN /\ DryRun(rules, code, logic) \in {"error", "newly_failing", "unchanged"}
            /\ DryRun(rules, code, logic) = "error" <=> ~Convertible(goods) \/ Raises(after, ctx)
            /\ DryRun(rules, code, logic) = "newly_failing" => RuleOutcome(logic, ctx) = "failed"
            /\ DryRun(rules, code, logic) = "unchanged" /\ RuleOutcome(logic, ctx) = "failed" =>
                 \E c \in RuleCodes \ {code} : FailsFor(rules, c, ctx)
<1> DEFINE ctx    == DryRunContext(goods)
           before == [rules EXCEPT ![code] = Missing]
           after  == [rules EXCEPT ![code] = logic]
           answer == DryRun(rules, code, logic)
<1>1. /\ \A c \in RuleCodes : before[c] # Missing => c # code /\ after[c] = before[c]
      /\ \A c \in RuleCodes \ {code} : after[c] = before[c] /\ before[c] = rules[c]
      /\ after[code] = logic /\ logic # Missing
  BY LogicAssumption
<1>2. answer = IF ~Convertible(goods) \/ Raises(after, ctx) \/ Raises(before, ctx) THEN "error"
               ELSE CASE Passes(before, ctx) /\ ~Passes(after, ctx) -> "newly_failing"
                      [] ~Passes(before, ctx) /\ Passes(after, ctx) -> "newly_passing"
                      [] OTHER -> "unchanged"
  BY DEF DryRun, Without
<1> HIDE DEF ctx, before, after, answer
<1>3. /\ \A c \in DOMAIN Verdicts(before, ctx) : Verdicts(after, ctx)[c] = Verdicts(before, ctx)[c]
      /\ Raises(before, ctx) => Raises(after, ctx)
      /\ Passes(after, ctx) => Passes(before, ctx)
  BY <1>1, RulesAdd
<1>4. /\ answer \in {"error", "newly_failing", "unchanged"}
      /\ answer = "error" => ~Convertible(goods) \/ Raises(after, ctx)
      /\ ~Convertible(goods) \/ Raises(after, ctx) => answer = "error"
      /\ answer = "newly_failing" => Passes(before, ctx) /\ ~Passes(after, ctx)
      /\ answer = "unchanged" => (Passes(before, ctx) => Passes(after, ctx))
  <2> DEFINE ra == ~Convertible(goods) \/ Raises(after, ctx)
             pb == Passes(before, ctx)
             pa == Passes(after, ctx)
  <2>1. CASE ra
    BY <1>2, <2>1
  <2>2. CASE ~ra /\ pa
    BY <1>2, <1>3, <2>2
  <2>3. CASE ~ra /\ ~pa /\ pb
    BY <1>2, <1>3, <2>3
  <2>4. CASE ~ra /\ ~pa /\ ~pb
    BY <1>2, <1>3, <2>4
  <2> QED BY <2>1, <2>2, <2>3, <2>4
<1>5. /\ DOMAIN Verdicts(after, ctx) = {c \in RuleCodes : after[c] # Missing}
      /\ \A c \in DOMAIN Verdicts(after, ctx) : Verdicts(after, ctx)[c] = RuleOutcome(after[c], ctx)
      /\ DOMAIN Verdicts(before, ctx) = {c \in RuleCodes : before[c] # Missing}
      /\ \A c \in DOMAIN Verdicts(before, ctx) : Verdicts(before, ctx)[c] = RuleOutcome(before[c], ctx)
      /\ DOMAIN Verdicts(rules, ctx) = {c \in RuleCodes : rules[c] # Missing}
      /\ \A c \in DOMAIN Verdicts(rules, ctx) : Verdicts(rules, ctx)[c] = RuleOutcome(rules[c], ctx)
  BY VerdictOf
<1>6. ASSUME answer = "newly_failing"
      PROVE  RuleOutcome(logic, ctx) = "failed"
  <2>1. PICK c \in DOMAIN Verdicts(after, ctx) : Verdicts(after, ctx)[c] = "failed"
    BY <1>4, <1>6 DEF Passes
  <2>2. CASE c # code
    <3>1. c \in DOMAIN Verdicts(before, ctx) /\ Verdicts(before, ctx)[c] = "failed"
      BY <1>1, <1>3, <1>5, <2>1, <2>2
    <3> QED BY <1>4, <1>6, <3>1 DEF Passes
  <2>3. CASE c = code
    BY <1>1, <1>5, <2>1, <2>3
  <2> QED BY <2>2, <2>3
<1>7. ASSUME answer = "unchanged", RuleOutcome(logic, ctx) = "failed"
      PROVE  \E c \in RuleCodes \ {code} : FailsFor(rules, c, ctx)
  <2>1. code \in DOMAIN Verdicts(after, ctx) /\ Verdicts(after, ctx)[code] = "failed"
    BY <1>1, <1>5, <1>7
  <2>2. ~Passes(after, ctx)
    BY <2>1 DEF Passes
  <2>3. PICK c \in DOMAIN Verdicts(before, ctx) : Verdicts(before, ctx)[c] = "failed"
    BY <1>4, <1>7, <2>2 DEF Passes
  <2>4. c \in RuleCodes /\ before[c] # Missing
    BY <1>5, <2>3
  <2>5. c # code /\ rules[c] = before[c]
    BY <1>1, <2>4
  <2>6. FailsFor(rules, c, ctx)
    BY <1>5, <2>3, <2>4, <2>5 DEF FailsFor
  <2> QED BY <2>4, <2>5, <2>6
<1>8. answer = "error" <=> ~Convertible(goods) \/ Raises(after, ctx)
  BY <1>4, Zenon
<1> QED BY <1>4, <1>6, <1>7, <1>8 DEF ctx, after, answer

\* Every step keeps the invariant.
LEMMA QInvNext == QInv /\ [QNext]_qvars => QInv'
<1> SUFFICES ASSUME QInv, [QNext]_qvars PROVE QInv'
  OBVIOUS
<1>1. QTypeOK /\ activeRules \in [RuleCodes -> Logic \cup {Missing}]
  BY DEF QInv, QTypeOK
<1>2. ASSUME NEW code \in RuleCodes, NEW logic \in Logic, TryRule(code, logic) PROVE QInv'
  <2> DEFINE others == [activeRules EXCEPT ![code] = Missing]
  <2>1. /\ proposal' = [code |-> code, logic |-> logic, others |-> others]
        /\ dryRun' = DryRun(activeRules, code, logic)
        /\ activeRules' = activeRules /\ goods' = goods /\ report' = report /\ report = Missing
    BY <1>2 DEF TryRule, Without
  <2>2. /\ others \in [RuleCodes -> Logic \cup {Missing}] /\ others[code] = Missing
        /\ [others EXCEPT ![code] = Missing] = others
        /\ [others EXCEPT ![code] = logic] = [activeRules EXCEPT ![code] = logic]
    BY <1>1
  <2>3. DryRun(others, code, logic) = DryRun(activeRules, code, logic)
    BY <2>2 DEF DryRun, Without
  <2>4. dryRun' \in {"error", "newly_failing", "unchanged"}
    BY <1>1, <2>1, DryRunAnswer
  <2> HIDE DEF others
  <2>5. /\ proposal'.code = code /\ proposal'.logic = logic /\ proposal'.others = others
        /\ proposal' \in [code : RuleCodes, logic : Logic, others : [RuleCodes -> Logic \cup {Missing}]]
    BY <2>1, <2>2
  <2>6. QTypeOK'
    BY <1>1, <2>1, <2>4, <2>5 DEF QTypeOK
  <2>7. DryRun(proposal.others, proposal.code, proposal.logic)' = DryRun(others, code, logic)
    BY <2>1, <2>5 DEF DryRun, Without
  <2> QED BY <2>1, <2>2, <2>3, <2>4, <2>5, <2>6, <2>7 DEF QInv
<1>3. CASE AcceptRule
  <2>1. /\ activeRules' = [activeRules EXCEPT ![proposal.code] = proposal.logic]
        /\ goods' = goods /\ proposal' = proposal /\ dryRun' = dryRun
        /\ report' = report /\ proposal # Missing /\ report = Missing
    BY <1>3 DEF AcceptRule
  <2>2. proposal.code \in RuleCodes /\ proposal.logic \in Logic
    BY <1>1, <2>1 DEF QTypeOK
  <2>3. activeRules' \in [RuleCodes -> Logic \cup {Missing}]
    BY <1>1, <2>1, <2>2
  <2>4. QTypeOK'
    BY <1>1, <2>1, <2>3 DEF QTypeOK
  <2>5. DryRun(proposal.others, proposal.code, proposal.logic)'
          = DryRun(proposal.others, proposal.code, proposal.logic)
    BY <2>1 DEF DryRun, Without
  <2> QED BY <2>1, <2>4, <2>5 DEF QInv
<1>4. ASSUME NEW code \in RuleCodes, NEW conditions \in {Missing, "given"}, NEW stored \in Logic,
             PromoteExtracted(code, conditions, stored)
      PROVE  QInv'
  <2> DEFINE l == IF conditions # Missing THEN Blank
                  ELSE IF activeRules[code] # Missing THEN activeRules[code] ELSE stored
  <2>1. /\ activeRules' = [activeRules EXCEPT ![code] = l]
        /\ goods' = goods /\ proposal' = proposal /\ dryRun' = dryRun /\ report' = report
        /\ report = Missing
    BY <1>4 DEF PromoteExtracted
  <2>2. l \in Logic \cup {Missing}
    BY <1>1, LogicAssumption
  <2> HIDE DEF l
  <2>3. QTypeOK'
    BY <1>1, <2>1, <2>2 DEF QTypeOK
  <2>4. DryRun(proposal.others, proposal.code, proposal.logic)'
          = DryRun(proposal.others, proposal.code, proposal.logic)
    BY <2>1 DEF DryRun, Without
  <2> QED BY <2>1, <2>3, <2>4 DEF QInv
<1>5. CASE Evaluate
  <2> DEFINE ctx  == PipelineContext(goods)
             asks == \/ \A c \in RuleCodes : activeRules[c] = Missing
                     \/ ~Passes(activeRules, ctx)
                     \/ Cardinality(Warned(activeRules, ctx)) > TooMany
  <2>1. /\ UNCHANGED <<activeRules, goods, proposal, dryRun>>
        /\ report' = IF Raises(activeRules, ctx)
                     THEN [success |-> FALSE, hitl |-> FALSE, warnings |-> {}, passed |-> FALSE]
                     ELSE [success |-> ~asks, hitl |-> asks, warnings |-> Warned(activeRules, ctx),
                           passed |-> Passes(activeRules, ctx)]
    BY <1>5 DEF Evaluate
  <2>2. Warned(activeRules, ctx) \subseteq RuleCodes
    BY VerdictOf DEF Warned
  <2>3. Passes(activeRules, ctx) \in BOOLEAN /\ asks \in BOOLEAN
        /\ (~Passes(activeRules, ctx) => asks)
    BY DEF Passes
  <2> HIDE DEF asks
  <2>4. /\ report' \in [success : BOOLEAN, hitl : BOOLEAN, passed : BOOLEAN,
                         warnings : SUBSET RuleCodes]
        /\ Raises(activeRules, ctx) => ~report'.success /\ ~report'.hitl /\ ~report'.passed
        /\ ~Raises(activeRules, ctx) =>
             /\ report'.success = ~asks /\ report'.hitl = asks
             /\ report'.passed = Passes(activeRules, ctx)
    <3>1. CASE Raises(activeRules, ctx)
      BY <2>1, <3>1
    <3>2. CASE ~Raises(activeRules, ctx)
      BY <2>1, <2>2, <2>3, <3>2
    <3> QED BY <3>1, <3>2
  <2>5. QTypeOK'
    BY <1>1, <2>1, <2>4 DEF QTypeOK
  <2>6. /\ Raises(activeRules', PipelineContext(goods')) = Raises(activeRules, ctx)
        /\ Passes(activeRules', PipelineContext(goods')) = Passes(activeRules, ctx)
    BY <2>1
  <2>7. ReportOf(activeRules, PipelineContext(goods))'
    BY <2>3, <2>4, <2>6 DEF ReportOf
  <2>8. DryRun(proposal.others, proposal.code, proposal.logic)'
          = DryRun(proposal.others, proposal.code, proposal.logic)
    BY <2>1 DEF DryRun, Without
  <2> QED BY <2>1, <2>5, <2>7, <2>8 DEF QInv
<1>6. CASE UNCHANGED qvars
  <2>1. UNCHANGED <<activeRules, goods, proposal, dryRun, report>>
    BY <1>6 DEF qvars
  <2>2. DryRun(proposal.others, proposal.code, proposal.logic)'
          = DryRun(proposal.others, proposal.code, proposal.logic)
    BY <2>1 DEF DryRun, Without
  <2> QED BY <2>1, <2>2 DEF QInv, QTypeOK, ReportOf
<1> QED BY <1>2, <1>3, <1>4, <1>5, <1>6 DEF QNext

\* The rule engine's inductive invariant holds throughout.
THEOREM QInvariant == QSpec => []QInv
<1>1. QInit => QInv
  BY DEF QInit, QInv, QTypeOK
<1> QED BY <1>1, QInvNext, PTL DEF QSpec

\* An item that both read alike is one and the same to the dry run and the
\* pipeline.
LEMMA AlikeIsSame ==
  ASSUME goods \in Goods, ReadAlike(goods)
  PROVE  PipelineContext(goods) = DryRunContext(goods)
<1>1. /\ goods.dimensions \in {"box", Missing}
      /\ goods.destination \in {"US", Null, Missing}
  BY GoodsAssumption
<1>2. /\ goods.weight # Unreadable /\ (goods.weight = Missing => goods.net_weight \in {Missing, 0})
      /\ goods.destination # Null /\ (goods.destination = Missing => DefaultDestination = "US")
      /\ (goods.dimensions = Missing => goods.product_dims = Missing)
  BY DEF ReadAlike, Convertible
<1>3. PipelineContext(goods).weight = DryRunContext(goods).weight
  BY <1>2 DEF PipelineContext, DryRunContext
<1>4. PipelineContext(goods).destination = DryRunContext(goods).destination
  BY <1>1, <1>2 DEF PipelineContext, DryRunContext
<1>5. PipelineContext(goods).dimensions = DryRunContext(goods).dimensions
  BY <1>1, <1>2 DEF PipelineContext, DryRunContext
<1> QED BY <1>3, <1>4, <1>5 DEF PipelineContext, DryRunContext

\* What a dry run can say, and that the pipeline, of an item that both read
\* alike, bears it out when the rule is active as tried, whatever became of the
\* other rules in between: for any rules and any items (dry_run.py, rules.py,
\* compliance_classifier.py, importers.py).
THEOREM DryRunsPredict == QSpec => [](QTypeOK /\ DryRunPredicts)
<1>1. QInv => DryRunPredicts
  <2> DEFINE code == proposal.code
             ctx  == DryRunContext(goods)
  <2> SUFFICES ASSUME QInv, report # Missing, proposal # Missing,
                      activeRules[proposal.code] = proposal.logic, ReadAlike(goods)
               PROVE  /\ dryRun = "newly_failing" => ~report.success /\ ~report.passed
                      /\ dryRun = "unchanged" /\ report.hitl /\ ~report.passed
                           => \E c \in RuleCodes \ {code} :
                                FailsFor(activeRules, c, ctx) \/ FailsFor(proposal.others, c, ctx)
                      /\ Without(activeRules, code) = proposal.others
                           => (dryRun = "error" <=> ~report.success /\ ~report.hitl)
    BY DEF QInv, DryRunPredicts
  <2>1. /\ activeRules \in [RuleCodes -> Logic \cup {Missing}] /\ goods \in Goods
        /\ proposal.others \in [RuleCodes -> Logic \cup {Missing}]
        /\ code \in RuleCodes /\ proposal.logic \in Logic /\ proposal.logic # Missing
    BY LogicAssumption DEF QInv, QTypeOK
  <2>2. ReportOf(activeRules, ctx) /\ Convertible(goods)
    BY <2>1, AlikeIsSame DEF QInv, ReadAlike
  <2>3. /\ dryRun \in {"error", "newly_failing", "unchanged"}
        /\ dryRun = "error" <=>
             ~Convertible(goods) \/ Raises([proposal.others EXCEPT ![code] = proposal.logic], ctx)
        /\ dryRun = "newly_failing" => RuleOutcome(proposal.logic, ctx) = "failed"
        /\ dryRun = "unchanged" /\ RuleOutcome(proposal.logic, ctx) = "failed" =>
             \E c \in RuleCodes \ {code} : FailsFor(proposal.others, c, ctx)
    <3> DEFINE answer == DryRun(proposal.others, code, proposal.logic)
    <3>1. dryRun = answer
      BY DEF QInv
    <3>2. /\ answer \in {"error", "newly_failing", "unchanged"}
          /\ answer = "error" <=>
               ~Convertible(goods) \/ Raises([proposal.others EXCEPT ![code] = proposal.logic], ctx)
          /\ answer = "newly_failing" => RuleOutcome(proposal.logic, ctx) = "failed"
          /\ answer = "unchanged" /\ RuleOutcome(proposal.logic, ctx) = "failed" =>
               \E c \in RuleCodes \ {code} : FailsFor(proposal.others, c, ctx)
      <4> HIDE DEF answer
      <4> QED BY <2>1, DryRunAnswer DEF answer
    <3> HIDE DEF answer
    <3> QED BY <3>1, <3>2
  <2>4. /\ code \in DOMAIN Verdicts(activeRules, ctx)
        /\ Verdicts(activeRules, ctx)[code] = RuleOutcome(proposal.logic, ctx)
    <3>1. /\ DOMAIN Verdicts(activeRules, ctx) = {c \in RuleCodes : activeRules[c] # Missing}
          /\ \A c \in DOMAIN Verdicts(activeRules, ctx) :
               Verdicts(activeRules, ctx)[c] = RuleOutcome(activeRules[c], ctx)
      BY VerdictOf
    <3>2. activeRules[code] = proposal.logic
      OBVIOUS
    <3> QED BY <2>1, <3>1, <3>2
  <2>5. ASSUME dryRun = "newly_failing" PROVE ~report.success /\ ~report.passed
    <3>1. ~Passes(activeRules, ctx)
      BY <2>3, <2>4, <2>5 DEF Passes
    <3> QED BY <2>2, <3>1 DEF ReportOf
  <2>6. ASSUME dryRun = "unchanged", report.hitl, ~report.passed
        PROVE  \E c \in RuleCodes \ {code} :
                 FailsFor(activeRules, c, ctx) \/ FailsFor(proposal.others, c, ctx)
    <3>1. ~Passes(activeRules, ctx)
      BY <2>2, <2>6 DEF ReportOf
    <3>2. PICK c \in DOMAIN Verdicts(activeRules, ctx) : Verdicts(activeRules, ctx)[c] = "failed"
      BY <3>1 DEF Passes
    <3>3. CASE c = code
      BY <2>3, <2>4, <2>6, <3>2, <3>3
    <3>4. CASE c # code
      <4>1. c \in RuleCodes
        BY <3>2, VerdictOf
      <4>2. FailsFor(activeRules, c, ctx)
        BY <3>2 DEF FailsFor
      <4> QED BY <3>4, <4>1, <4>2
    <3> QED BY <3>3, <3>4
  <2>7. ASSUME Without(activeRules, code) = proposal.others
        PROVE  dryRun = "error" <=> ~report.success /\ ~report.hitl
    <3>1. [proposal.others EXCEPT ![code] = proposal.logic] = activeRules
      BY <2>1, <2>7 DEF Without
    <3> QED BY <2>2, <2>3, <3>1 DEF ReportOf
  <2> QED BY <2>5, <2>6, <2>7
<1>2. QInv => QTypeOK
  BY DEF QInv
<1> QED BY <1>1, <1>2, QInvariant, PTL


-----------------------------------------------------------------------------
(* Documents: ExtractedIsKept.                                             *)

\* A task past its reading, or in a session; and its row.
Past     == {"check", "load", "fuse", "done"}
Sessions == {"merge", "fuse"}
TaskRow  == [pc : {"idle", "download", "classify", "read"} \cup Past \cup Sessions,
             got : Contents \cup {Nothing},
             found : [Numbers -> SUBSET (PoData \cup PiData)],
             seen : [Numbers -> ItemRow \cup {Nothing}]]

\* The types the proof keeps.
DTypes ==
  /\ document \in [Docs -> Document \cup {Nothing}]
  /\ files \in [Names -> Contents \cup {Nothing}]
  /\ itemRow \in [Numbers -> ItemRow \cup {Nothing}]
  /\ overlapped \subseteq Tasks
  /\ task \in [Tasks -> TaskRow]

\* The rows answer for what was found.
Holds(rows, found) ==
  \A n \in Numbers : found[n] # {} => rows[n] # Nothing /\ found[n] \subseteq AnsweredFor(rows[n])

\* Before a fusion a row has no value of the agent's.
Honest(row) == row # Nothing /\ row.state = "PARSED" => row.guessed = {}

\* A task in a session that overlapped none is alone, and the rows are still
\* as it read them.
Alone(t) == t \in InSession /\ t \notin overlapped =>
              InSession = {t} /\ task[t].seen = itemRow

\* What a task has extracted is in the rows, and in those that a session read.
Preserved(d) == task[d].pc \in Past /\ d \notin overlapped =>
             /\ Holds(itemRow, task[d].found)
             /\ \A t \in InSession : Holds(task[t].seen, task[d].found)

\* A row that was read is never deleted, and never parsed again once fused.
Lasting(t) ==
  \A n \in Numbers : task[t].seen[n] # Nothing =>
    /\ Honest(task[t].seen[n]) /\ itemRow[n] # Nothing
    /\ itemRow[n].state = "PARSED" => task[t].seen[n].state = "PARSED"

\* The inductive invariant.
DInv ==
  /\ DTypes
  /\ \A d \in Docs : task[d].pc # "idle" => document[d] \in Document
  /\ \A n \in Numbers : Honest(itemRow[n])
  /\ \A t \in Tasks : Alone(t) /\ Lasting(t)
  /\ \A d \in Docs : Preserved(d)

\* The tasks are those of the documents, and one that fuses.
LEMMA DocsAreTasks == Docs \subseteq Tasks /\ FusionCall \in Tasks /\ FusionCall \notin Docs
BY ContentsAssumption DEF Tasks

\* Nothing at first.
LEMMA DInitInv == DInit => DInv
<1> SUFFICES ASSUME DInit PROVE DInv
  OBVIOUS
<1>1. /\ Task("idle") \in TaskRow /\ Task("idle").pc = "idle"
      /\ \A n \in Numbers : Task("idle").seen[n] = Nothing
  BY DEF Task, TaskRow, NoFields
<1>2. \A t \in Tasks : task[t].pc = "idle" /\ \A n \in Numbers : task[t].seen[n] = Nothing
  BY <1>1 DEF DInit
<1>3. DTypes
  BY <1>1 DEF DInit, DTypes
<1>4. InSession = {}
  BY <1>2 DEF InSession
<1>5. \A d \in Docs : Preserved(d)
  BY <1>2, DocsAreTasks DEF Preserved, Past
<1>6. \A n \in Numbers : Honest(itemRow[n])
  BY DEF DInit, Honest
<1> QED BY <1>2, <1>3, <1>4, <1>5, <1>6, DocsAreTasks DEF DInv, Alone, Lasting

\* The tasks in a session, when one task moves.
LEMMA SessionsMove ==
  ASSUME DTypes, NEW t \in Tasks, NEW u, task' = [task EXCEPT ![t] = u]
  PROVE  /\ task'[t] = u /\ \A b \in Tasks \ {t} : task'[b] = task[b]
         /\ InSession' = IF u.pc \in Sessions THEN InSession \cup {t} ELSE InSession \ {t}
<1>1. task'[t] = u /\ \A b \in Tasks \ {t} : task'[b] = task[b]
  BY DEF DTypes
<1>2. InSession = {b \in Tasks : task[b].pc \in Sessions}
      /\ InSession' = {b \in Tasks : task'[b].pc \in Sessions}
  BY DEF InSession, Sessions
<1> QED BY <1>1, <1>2

\* A step outside of sessions, or one that ends a session without a write.
LEMMA QuietStep ==
  ASSUME DInv, NEW t \in Tasks, NEW u \in TaskRow, task' = [task EXCEPT ![t] = u],
         itemRow' = itemRow, overlapped' = overlapped,
         document' \in [Docs -> Document \cup {Nothing}],
         files' \in [Names -> Contents \cup {Nothing}],
         \A d \in Docs : document[d] \in Document => document'[d] \in Document,
         t \in Docs /\ u.pc # "idle" => document'[t] \in Document,
         u.pc \notin Sessions,
         \A n \in Numbers : u.seen[n] # Nothing => u.seen[n] = task[t].seen[n],
         t \in Docs /\ u.pc \in Past =>
           \/ u.found = NoFields
           \/ task[t].pc \in Past /\ u.found = task[t].found
  PROVE  DInv'
<1>1. DTypes /\ \A b \in Tasks : Alone(b)
  BY DEF DInv
<1>2. /\ task'[t] = u /\ \A b \in Tasks \ {t} : task'[b] = task[b]
      /\ InSession' = InSession \ {t}
  BY <1>1, SessionsMove
<1>3. DTypes'
  BY <1>1 DEF DTypes
<1>4. \A d \in Docs : task'[d].pc # "idle" => document'[d] \in Document
  BY <1>2, DocsAreTasks DEF DInv
<1>5. ASSUME NEW b \in Tasks PROVE Alone(b)' /\ Lasting(b)'
  <2>1. Alone(b) /\ Lasting(b) /\ Lasting(t)
    BY DEF DInv
  <2>2. Alone(b)'
    BY <1>2, <2>1 DEF Alone
  <2>3. Lasting(b)'
    BY <1>2, <2>1 DEF Lasting
  <2> QED BY <2>2, <2>3
<1>6. ASSUME NEW d \in Docs PROVE Preserved(d)'
  <2>1. /\ d \in Tasks
        /\ \A b \in InSession' : b \in InSession /\ task'[b].seen = task[b].seen
    BY <1>2, DocsAreTasks DEF InSession
  <2>2. CASE task[d].pc \in Past /\ task'[d].found = task[d].found
    BY <2>1, <2>2 DEF DInv, Preserved
  <2>3. CASE d = t /\ u.found = NoFields
    <3>1. \A rows : Holds(rows, NoFields)
      BY DEF Holds, NoFields
    <3> QED BY <1>2, <2>3, <3>1 DEF Preserved
  <2>4. CASE task'[d].pc \notin Past
    BY <2>4 DEF Preserved
  <2> QED BY <1>2, <2>1, <2>2, <2>3, <2>4
<1>7. \A n \in Numbers : Honest(itemRow'[n])
  BY DEF DInv
<1> QED BY <1>3, <1>4, <1>5, <1>6, <1>7 DEF DInv

\* A session begins: with another one open, both overlap.
LEMMA OpenStep ==
  ASSUME DInv, NEW t \in Tasks, NEW pc \in Sessions,
         task' = [task EXCEPT ![t].pc = pc, ![t].seen = itemRow],
         task[t].pc \notin Sessions, task[t].pc # "idle",
         pc = "fuse" => task[t].pc \in Past,
         Overlap(t), UNCHANGED <<document, files, itemRow>>
  PROVE  DInv'
<1> DEFINE u == [task[t] EXCEPT !.pc = pc, !.seen = itemRow]
<1>1. DTypes /\ task[t] \in TaskRow
  BY DEF DInv, DTypes
<1>2. u \in TaskRow /\ u.pc = pc /\ u.seen = itemRow /\ u.found = task[t].found
  BY <1>1 DEF TaskRow, DTypes, Sessions
<1>3. task' = [task EXCEPT ![t] = u]
  BY <1>1 DEF DTypes
<1> HIDE DEF u
<1>4. /\ task'[t] = u /\ \A b \in Tasks \ {t} : task'[b] = task[b]
      /\ InSession' = InSession \cup {t}
  BY <1>1, <1>2, <1>3, SessionsMove
<1>5. overlapped' = (IF InSession = {} THEN overlapped ELSE overlapped \cup InSession \cup {t})
      /\ InSession \subseteq Tasks
  BY DEF Overlap, InSession
<1>6. DTypes'
  BY <1>1, <1>2, <1>3, <1>5 DEF DTypes
<1>7. \A d \in Docs : task'[d].pc # "idle" => document'[d] \in Document
  BY <1>4, DocsAreTasks DEF DInv
<1>8. ASSUME NEW b \in Tasks PROVE Alone(b)' /\ Lasting(b)'
  <2>1. Lasting(b) /\ \A n \in Numbers : Honest(itemRow[n])
    BY DEF DInv
  <2>2. Alone(b)'
    BY <1>2, <1>4, <1>5 DEF Alone
  <2>3. Lasting(b)'
    BY <1>2, <1>4, <2>1 DEF Lasting
  <2> QED BY <2>2, <2>3
<1>9. ASSUME NEW d \in Docs PROVE Preserved(d)'
  <2> SUFFICES ASSUME task'[d].pc \in Past, d \notin overlapped'
               PROVE  /\ Holds(itemRow', task'[d].found)
                      /\ \A b \in InSession' : Holds(task'[b].seen, task'[d].found)
    BY DEF Preserved
  <2>1. d \in Tasks /\ task'[d].found = task[d].found /\ d \notin overlapped
    BY <1>2, <1>4, <1>5, DocsAreTasks
  <2>2. task[d].pc \in Past
    <3>1. "merge" \notin Past
      BY DEF Past
    <3> QED BY <1>2, <1>4, <2>1, <3>1 DEF Sessions
  <2>3. /\ Holds(itemRow, task[d].found)
        /\ \A b \in InSession : Holds(task[b].seen, task[d].found)
    BY <2>1, <2>2 DEF DInv, Preserved
  <2>4. \A b \in InSession \ {t} : task'[b].seen = task[b].seen
    BY <1>4, <1>5
  <2> QED BY <1>2, <1>4, <2>1, <2>3, <2>4
<1>10. \A n \in Numbers : Honest(itemRow'[n])
  BY DEF DInv
<1> QED BY <1>6, <1>7, <1>8, <1>9, <1>10 DEF DInv

\* What a write may make of a row.
RowLasts(old, new) ==
  /\ new \in ItemRow \cup {Nothing} /\ Honest(new)
  /\ old # Nothing => new # Nothing /\ (new.state = "PARSED" => old.state = "PARSED")

\* A session ends with a write: it keeps what the rows and the session's copy
\* of them both have.
LEMMA WriteStep ==
  ASSUME DInv, NEW t \in InSession, NEW pc \in Past \ Sessions,
         task' = [task EXCEPT ![t].pc = pc],
         itemRow' \in [Numbers -> ItemRow \cup {Nothing}],
         UNCHANGED <<document, files, overlapped>>,
         \A n \in Numbers : RowLasts(itemRow[n], itemRow'[n]),
         \A found \in [Numbers -> SUBSET (PoData \cup PiData)] :
            Holds(itemRow, found) /\ Holds(task[t].seen, found) => Holds(itemRow', found),
         t \in Docs \ overlapped => Holds(itemRow', task[t].found)
  PROVE  DInv'
<1> DEFINE u == [task[t] EXCEPT !.pc = pc]
<1>1. DTypes /\ t \in Tasks /\ task[t] \in TaskRow /\ task[t].pc \in Sessions
  BY DEF DInv, DTypes, InSession, Sessions
<1>2. u \in TaskRow /\ u.pc = pc /\ u.seen = task[t].seen /\ u.found = task[t].found
  BY <1>1 DEF TaskRow
<1>3. task' = [task EXCEPT ![t] = u]
  BY <1>1 DEF DTypes
<1> HIDE DEF u
<1>4. /\ task'[t] = u /\ \A b \in Tasks \ {t} : task'[b] = task[b]
      /\ InSession' = InSession \ {t} /\ InSession \subseteq Tasks
  BY <1>1, <1>2, <1>3, SessionsMove DEF InSession
<1>5. DTypes'
  BY <1>1, <1>2, <1>3 DEF DTypes
<1>6. \A d \in Docs : task'[d].pc # "idle" => document'[d] \in Document
  <2>1. task[t].pc # "idle"
    BY <1>1 DEF Sessions
  <2> QED BY <1>4, <2>1, DocsAreTasks DEF DInv
<1>7. ASSUME NEW b \in Tasks PROVE Alone(b)' /\ Lasting(b)'
  <2>1. b \in InSession' => b \in InSession /\ b # t /\ InSession # {b}
    BY <1>4
  <2>2. Alone(b) /\ Lasting(b)
    BY DEF DInv
  <2>3. Alone(b)'
    BY <2>1, <2>2 DEF Alone
  <2>4. task'[b].seen = task[b].seen
    BY <1>2, <1>4
  <2>5. Lasting(b)'
    BY <2>2, <2>4 DEF Lasting, RowLasts
  <2> QED BY <2>3, <2>5
<1>8. ASSUME NEW d \in Docs PROVE Preserved(d)'
  <2> SUFFICES ASSUME task'[d].pc \in Past, d \notin overlapped
               PROVE  /\ Holds(itemRow', task'[d].found)
                      /\ \A b \in InSession' : Holds(task'[b].seen, task'[d].found)
    BY DEF Preserved
  <2>1. d \in Tasks /\ task'[d].found = task[d].found
    BY <1>2, <1>4, DocsAreTasks
  <2>2. task[d].found \in [Numbers -> SUBSET (PoData \cup PiData)]
    BY <1>1, <2>1 DEF DTypes, TaskRow
  <2>3. CASE d = t
    <3>1. InSession' = {}
      BY <1>1, <1>4, <2>3 DEF DInv, Alone
    <3> QED BY <2>1, <2>3, <3>1
  <2>4. CASE d # t
    <3>1. /\ Holds(itemRow, task[d].found)
          /\ \A b \in InSession : Holds(task[b].seen, task[d].found)
      BY <1>4, <2>1, <2>4 DEF DInv, Preserved
    <3> QED BY <1>4, <2>1, <2>2, <3>1
  <2> QED BY <2>3, <2>4
<1>9. \A n \in Numbers : Honest(itemRow'[n])
  BY DEF RowLasts
<1> QED BY <1>5, <1>6, <1>7, <1>8, <1>9 DEF DInv


\* A row with the fields found filled in, and the state another has.
Filled(seen, f, state) ==
  [data |-> seen.data \cup (f \ seen.guessed), guessed |-> seen.guessed, state |-> state]

\* It answers for what the row did, and for what was found.
LEMMA MergedCovers ==
  ASSUME NEW seen \in ItemRow, Honest(seen), NEW f \in SUBSET (PoData \cup PiData),
         NEW old \in ItemRow, old.state = "PARSED" => seen.state = "PARSED"
  PROVE  /\ Filled(seen, f, old.state) \in ItemRow /\ Honest(Filled(seen, f, old.state))
         /\ Filled(seen, f, old.state).state = old.state
         /\ AnsweredFor(seen) \subseteq AnsweredFor(Filled(seen, f, old.state))
         /\ f \subseteq AnsweredFor(Filled(seen, f, old.state))
<1> DEFINE new == Filled(seen, f, old.state)
<1>1. seen # Nothing
  BY ContentsAssumption
<1>2. new \in ItemRow /\ new.state = old.state
  BY DEF ItemRow, Filled
<1>3. new.data = seen.data \cup (f \ seen.guessed) /\ new.guessed = seen.guessed
  BY DEF Filled
<1> HIDE DEF new
<1>4. Honest(new)
  BY <1>1, <1>2, <1>3 DEF Honest
<1>5. AnsweredFor(seen) \subseteq AnsweredFor(new) /\ f \subseteq AnsweredFor(new)
  BY <1>1, <1>2, <1>3 DEF AnsweredFor, Honest
<1> QED BY <1>2, <1>4, <1>5 DEF new

\* The commit of an extraction keeps what others have extracted.
LEMMA CommitRowsStep ==
  ASSUME DInv, NEW d \in Docs, CommitRows(d)
  PROVE  DInv'
<1> DEFINE tk == task[d]
           Written(n) == tk.seen[n] # Nothing /\ MergedRow(tk, n).data # tk.seen[n].data
<1>1. /\ DTypes /\ d \in Tasks /\ tk \in TaskRow /\ tk.pc = "merge" /\ d \in InSession
      /\ UNCHANGED <<document, files, overlapped>>
  BY DocsAreTasks DEF DInv, DTypes, CommitRows, InSession
<1>2. ASSUME NEW n \in Numbers
      PROVE  /\ tk.found[n] \subseteq PoData \cup PiData
             /\ tk.seen[n] \in ItemRow \cup {Nothing} /\ itemRow[n] \in ItemRow \cup {Nothing}
             /\ Honest(itemRow[n])
  BY <1>1 DEF TaskRow, DTypes, DInv
<1>3. d \notin overlapped => tk.seen = itemRow
  BY <1>1 DEF DInv, Alone
<1>4. Lasting(d)
  BY <1>1 DEF DInv
<1>5. CASE \E n \in InsertedRows(tk) : itemRow[n] # Nothing
  <2>1. d \in overlapped
    BY <1>3, <1>5 DEF InsertedRows
  <2>2. task' = [task EXCEPT ![d].pc = "done"] /\ itemRow' = itemRow
    BY <1>5 DEF CommitRows, Step
  <2>3. "done" \in Past \ Sessions
    BY DEF Past, Sessions
  <2>4. itemRow' \in [Numbers -> ItemRow \cup {Nothing}]
    BY <1>1, <2>2 DEF DTypes
  <2>5. \A n \in Numbers : RowLasts(itemRow[n], itemRow'[n])
    BY <1>2, <2>2 DEF RowLasts
  <2> QED BY <1>1, <2>1, <2>2, <2>3, <2>4, <2>5, WriteStep
<1>6. CASE ~\E n \in InsertedRows(tk) : itemRow[n] # Nothing
  <2>1. /\ task' = [task EXCEPT ![d].pc = "check"]
        /\ itemRow' = [n \in Numbers |->
             IF n \in InsertedRows(tk) THEN MergedRow(tk, n)
             ELSE IF Written(n) THEN Rewritten(itemRow[n], MergedRow(tk, n))
             ELSE itemRow[n]]
    BY <1>6 DEF CommitRows, Step
  <2>2. "check" \in Past \ Sessions
    BY DEF Past, Sessions
  <2>3. ASSUME NEW n \in InsertedRows(tk)
        PROVE  /\ itemRow[n] = Nothing /\ itemRow'[n] \in ItemRow /\ Honest(itemRow'[n])
               /\ tk.found[n] \subseteq AnsweredFor(itemRow'[n]) /\ tk.seen[n] = Nothing
    <3>1. n \in Numbers /\ tk.found[n] # {} /\ tk.seen[n] = Nothing /\ itemRow[n] = Nothing
      BY <1>6 DEF InsertedRows
    <3>2. itemRow'[n] = [data |-> tk.found[n], guessed |-> {}, state |-> "PARSED"]
      BY <2>1, <3>1 DEF MergedRow
    <3> QED BY <1>2, <3>1, <3>2 DEF ItemRow, Honest, AnsweredFor
  <2>4. ASSUME NEW n \in Numbers \ InsertedRows(tk), Written(n)
        PROVE  /\ itemRow[n] \in ItemRow /\ itemRow'[n] \in ItemRow /\ Honest(itemRow'[n])
               /\ itemRow'[n].state = itemRow[n].state
               /\ AnsweredFor(tk.seen[n]) \subseteq AnsweredFor(itemRow'[n])
               /\ tk.found[n] \subseteq AnsweredFor(itemRow'[n])
    <3>1. /\ tk.seen[n] \in ItemRow /\ Honest(tk.seen[n]) /\ itemRow[n] \in ItemRow
          /\ itemRow[n].state = "PARSED" => tk.seen[n].state = "PARSED"
          /\ tk.found[n] \in SUBSET (PoData \cup PiData)
      BY <1>2, <1>4, <2>4 DEF Lasting
    <3>2. tk.found[n] # {}
      BY <2>4 DEF MergedRow
    <3>3. /\ MergedRow(tk, n).data = tk.seen[n].data \cup (tk.found[n] \ tk.seen[n].guessed)
          /\ MergedRow(tk, n).guessed = tk.seen[n].guessed
      BY <3>1, <3>2, <2>4 DEF MergedRow, ItemRow
    <3>4. itemRow'[n] = Rewritten(itemRow[n], MergedRow(tk, n))
      BY <2>1, <2>4
    <3>5. itemRow'[n] = Filled(tk.seen[n], tk.found[n], itemRow[n].state)
      <4> DEFINE merged == MergedRow(tk, n)
      <4> HIDE DEF merged
      <4>1. /\ merged.data = tk.seen[n].data \cup (tk.found[n] \ tk.seen[n].guessed)
            /\ merged.guessed = tk.seen[n].guessed /\ itemRow'[n] = Rewritten(itemRow[n], merged)
        BY <3>3, <3>4 DEF merged
      <4>2. itemRow[n] \in ItemRow
        BY <3>1
      <4>3. Rewritten(itemRow[n], merged) =
              [data |-> merged.data, guessed |-> merged.guessed, state |-> itemRow[n].state]
        BY <4>2 DEF Rewritten
      <4> QED BY <4>1, <4>3 DEF Filled
    <3> DEFINE seen == tk.seen[n]
               old  == itemRow[n]
               f    == tk.found[n]
               new  == Filled(seen, f, old.state)
    <3>6. /\ seen \in ItemRow /\ Honest(seen) /\ f \in SUBSET (PoData \cup PiData)
          /\ old \in ItemRow /\ (old.state = "PARSED" => seen.state = "PARSED")
      BY <3>1
    <3>7. /\ new \in ItemRow /\ Honest(new) /\ new.state = old.state
          /\ AnsweredFor(seen) \subseteq AnsweredFor(new) /\ f \subseteq AnsweredFor(new)
      <4> HIDE DEF seen, old, f
      <4> QED BY <3>6, MergedCovers
    <3> HIDE DEF new
    <3>8. itemRow'[n] = new
      BY <3>5 DEF new
    <3> QED BY <3>6, <3>7, <3>8
  <2>5. ASSUME NEW n \in Numbers \ InsertedRows(tk), ~Written(n)
        PROVE  itemRow'[n] = itemRow[n]
    BY <2>1, <2>5
  <2>6. ASSUME NEW n \in Numbers PROVE RowLasts(itemRow[n], itemRow'[n])
    <3>1. CASE n \in InsertedRows(tk)
      BY <2>3, <3>1 DEF RowLasts
    <3>2. CASE n \notin InsertedRows(tk) /\ Written(n)
      BY <2>4, <3>2, ContentsAssumption DEF RowLasts
    <3>3. CASE n \notin InsertedRows(tk) /\ ~Written(n)
      BY <1>2, <2>5, <3>3 DEF RowLasts
    <3> QED BY <3>1, <3>2, <3>3
  <2>7. ASSUME NEW found \in [Numbers -> SUBSET (PoData \cup PiData)],
               Holds(itemRow, found), Holds(tk.seen, found)
        PROVE  Holds(itemRow', found)
    <3> SUFFICES ASSUME NEW n \in Numbers, found[n] # {}
                 PROVE  itemRow'[n] # Nothing /\ found[n] \subseteq AnsweredFor(itemRow'[n])
      BY DEF Holds
    <3>1. /\ itemRow[n] # Nothing /\ found[n] \subseteq AnsweredFor(itemRow[n])
          /\ tk.seen[n] # Nothing /\ found[n] \subseteq AnsweredFor(tk.seen[n])
      BY <2>7 DEF Holds
    <3>2. n \notin InsertedRows(tk)
      BY <3>1 DEF InsertedRows
    <3>3. CASE Written(n)
      BY <2>4, <3>1, <3>2, <3>3, ContentsAssumption
    <3>4. CASE ~Written(n)
      BY <2>5, <3>1, <3>2, <3>4
    <3> QED BY <3>3, <3>4
  <2>8. ASSUME d \notin overlapped, NEW n \in Numbers, tk.found[n] # {}
        PROVE  itemRow'[n] # Nothing /\ tk.found[n] \subseteq AnsweredFor(itemRow'[n])
    <3>1. CASE n \in InsertedRows(tk)
      BY <2>3, <3>1, ContentsAssumption
    <3>2. CASE n \notin InsertedRows(tk) /\ Written(n)
      BY <2>4, <3>2, ContentsAssumption
    <3>3. CASE n \notin InsertedRows(tk) /\ ~Written(n)
      <4>1. tk.seen[n] \in ItemRow /\ itemRow[n] = tk.seen[n]
            /\ MergedRow(tk, n).data = tk.seen[n].data
        BY <1>2, <1>3, <2>8, <3>3 DEF InsertedRows
      <4>2. MergedRow(tk, n).data = tk.seen[n].data \cup (tk.found[n] \ tk.seen[n].guessed)
        BY <2>8, <4>1, ContentsAssumption DEF MergedRow, ItemRow
      <4>3. tk.found[n] \subseteq itemRow[n].data \cup itemRow[n].guessed
        BY <4>1, <4>2
      <4>4. itemRow[n] # Nothing /\ (itemRow[n].state = "PARSED" => itemRow[n].guessed = {})
        BY <1>2, <4>1, ContentsAssumption DEF Honest
      <4>5. itemRow'[n] = itemRow[n]
        BY <2>5, <3>3
      <4> QED BY <4>3, <4>4, <4>5 DEF AnsweredFor
    <3> QED BY <3>1, <3>2, <3>3
  <2>9. itemRow' \in [Numbers -> ItemRow \cup {Nothing}]
    BY <2>1, <2>6 DEF RowLasts
  <2>10. d \in Docs \ overlapped => Holds(itemRow', task[d].found)
    BY <2>8 DEF Holds
  <2>11. /\ task' = [task EXCEPT ![d].pc = "check"]
         /\ d \in InSession /\ UNCHANGED <<document, files, overlapped>>
    BY <1>1, <2>1
  <2> HIDE <2>1
  <2> QED BY <2>2, <2>6, <2>7, <2>9, <2>10, <2>11, WriteStep
<1> QED BY <1>5, <1>6


\* A fused row answers for what the row did.
LEMMA FusedCovers ==
  ASSUME NEW row \in ItemRow, NEW success \in BOOLEAN, NEW new \in Fusions(row, success)
  PROVE  /\ new \in ItemRow /\ Honest(new) /\ new.state # "PARSED"
         /\ AnsweredFor(row) \subseteq AnsweredFor(new)
<1>1. PICK given \in Suggestions(row), erased \in Erased(row) :
        new = FusedRow(row, given, erased, success)
  BY DEF Fusions
<1>2. /\ given \subseteq PoData /\ erased \subseteq {"material"}
      /\ Unsent(row) \subseteq {"net_weight"}
  BY DEF Suggestions, Erased, Unsent, PoData
<1>3. row.data \subseteq PoData \cup PiData /\ row.guessed \subseteq PoData
  BY DEF ItemRow
<1>4. /\ new.data = row.data \ (Unsent(row) \cup given \cup erased)
      /\ new.guessed = (row.guessed \ (Unsent(row) \cup erased)) \cup given
      /\ new.state = (IF success THEN "FUSED" ELSE "HUMAN_BLOCKED")
      /\ new = [data |-> new.data, guessed |-> new.guessed, state |-> new.state]
  BY <1>1 DEF FusedRow
<1>5. /\ new.data \subseteq PoData \cup PiData /\ new.guessed \subseteq PoData
      /\ new.state \in {"FUSED", "HUMAN_BLOCKED"}
  BY <1>2, <1>3, <1>4
<1>6. new \in ItemRow
  BY <1>4, <1>5 DEF ItemRow
<1>7. AnsweredFor(row) \subseteq row.data \cup row.guessed \cup {"net_weight", "material"}
  BY DEF AnsweredFor
<1>8. AnsweredFor(new) = new.data \cup {"net_weight", "material"} \cup new.guessed
  BY <1>5 DEF AnsweredFor
<1>9. AnsweredFor(row) \subseteq AnsweredFor(new)
  BY <1>2, <1>4, <1>7, <1>8
<1>10. Honest(new) /\ new.state # "PARSED"
  BY <1>5 DEF Honest
<1> QED BY <1>6, <1>9, <1>10

\* The commit of a fusion keeps what the rows it joins answered for.
LEMMA FuseRowsStep ==
  ASSUME DInv, NEW t \in Tasks, NEW success \in BOOLEAN, FuseRows(t, success)
  PROVE  DInv'
<1>1. /\ DTypes /\ task[t] \in TaskRow /\ task[t].pc = "fuse" /\ t \in InSession
      /\ UNCHANGED <<document, files, overlapped>> /\ task' = [task EXCEPT ![t].pc = "done"]
  BY DEF DInv, DTypes, FuseRows, InSession, Step
<1> DEFINE seen == task[t].seen
           joined == Joined(task[t])
           all  == UNION {Fusions(seen[n], success) : n \in joined}
<1>2. PICK fused \in [joined -> all] :
        /\ \A n \in joined : fused[n] \in Fusions(seen[n], success)
        /\ itemRow' = [n \in Numbers |-> IF n \in joined THEN fused[n] ELSE itemRow[n]]
  BY Zenon DEF FuseRows
<1>3. ASSUME NEW n \in joined
      PROVE  /\ n \in Numbers /\ itemRow'[n] \in ItemRow /\ Honest(itemRow'[n])
             /\ itemRow'[n].state # "PARSED" /\ itemRow'[n] # Nothing
             /\ AnsweredFor(seen[n]) \subseteq AnsweredFor(itemRow'[n])
  <2>1. n \in Numbers /\ seen[n] # Nothing
    BY DEF Joined, Known
  <2>2. seen[n] \in ItemRow
    BY <1>1, <2>1 DEF TaskRow
  <2>3. itemRow'[n] \in Fusions(seen[n], success)
    BY <1>2, <2>1
  <2> HIDE DEF seen, joined
  <2> QED BY <2>1, <2>2, <2>3, FusedCovers, ContentsAssumption
<1>4. \A n \in Numbers \ joined : itemRow'[n] = itemRow[n]
  BY <1>2
<1>5. itemRow' = [n \in Numbers |-> itemRow'[n]]
  BY <1>2
<1> HIDE DEF joined, all
<1>6. ASSUME NEW n \in Numbers PROVE RowLasts(itemRow[n], itemRow'[n])
  <2>1. CASE n \in joined
    BY <1>3, <2>1 DEF RowLasts
  <2>2. CASE n \notin joined
    <3>1. itemRow[n] \in ItemRow \cup {Nothing} /\ Honest(itemRow[n])
      BY <1>1 DEF DInv, DTypes
    <3> QED BY <1>4, <2>2, <3>1 DEF RowLasts
  <2> QED BY <2>1, <2>2
<1>7. itemRow' \in [Numbers -> ItemRow \cup {Nothing}]
  BY <1>5, <1>6 DEF RowLasts
<1>8. ASSUME NEW found \in [Numbers -> SUBSET (PoData \cup PiData)],
             Holds(itemRow, found), Holds(seen, found)
      PROVE  Holds(itemRow', found)
  <2> SUFFICES ASSUME NEW n \in Numbers, found[n] # {}
               PROVE  itemRow'[n] # Nothing /\ found[n] \subseteq AnsweredFor(itemRow'[n])
    BY DEF Holds
  <2>1. /\ itemRow[n] # Nothing /\ found[n] \subseteq AnsweredFor(itemRow[n])
        /\ found[n] \subseteq AnsweredFor(seen[n])
    BY <1>8 DEF Holds
  <2> QED BY <1>3, <1>4, <2>1
<1>9. t \in Docs \ overlapped => Holds(itemRow', task[t].found)
  <2> SUFFICES ASSUME t \in Docs \ overlapped
               PROVE  Holds(itemRow', task[t].found)
    OBVIOUS
  <2>1. "fuse" \in Past
    BY DEF Past
  <2>2. Holds(itemRow, task[t].found) /\ Holds(task[t].seen, task[t].found)
    BY <1>1, <2>1 DEF DInv, Preserved
  <2>3. task[t].found \in [Numbers -> SUBSET (PoData \cup PiData)]
    BY <1>1 DEF TaskRow
  <2> QED BY <1>8, <2>2, <2>3
<1>10. "done" \in Past \ Sessions
  BY DEF Past, Sessions
<1> HIDE <1>2
<1> QED BY <1>1, <1>6, <1>7, <1>8, <1>9, <1>10, WriteStep

\* The file arrives, and its task starts.
LEMMA UploadStep ==
  ASSUME DInv, NEW d \in Docs, NEW f \in Names, NEW c \in Contents, NEW guess \in Kinds,
         Upload(d, f, c, guess)
  PROVE  DInv'
<1> DEFINE u == Task("download")
<1>1. DTypes /\ d \in Tasks /\ task[d].pc = "idle"
  BY DocsAreTasks, ContentsAssumption DEF DInv, Upload
<1>2. /\ u \in TaskRow /\ u.pc = "download"
      /\ \A n \in Numbers : u.seen[n] = Nothing
  BY DEF Task, TaskRow, NoFields
<1>3. u.pc \notin Sessions /\ u.pc \notin Past
  BY <1>2 DEF Sessions, Past
<1>4. Uploaded(f, guess) \in Document
  BY DEF Uploaded, Document
<1>5. /\ task' = [task EXCEPT ![d] = u] /\ itemRow' = itemRow /\ overlapped' = overlapped
      /\ files' = [files EXCEPT ![f] = c]
      /\ document' = [document EXCEPT ![d] = Uploaded(f, guess)]
  BY DEF Upload
<1> HIDE DEF u
<1>6. /\ document' \in [Docs -> Document \cup {Nothing}] /\ document'[d] \in Document
      /\ \A e \in Docs : document[e] \in Document => document'[e] \in Document
  BY <1>1, <1>4, <1>5 DEF DTypes
<1>7. files' \in [Names -> Contents \cup {Nothing}]
  BY <1>1, <1>5 DEF DTypes
<1>8. d \in Docs /\ u.pc # "idle" => document'[d] \in Document
  BY <1>6
<1>9. task' = [task EXCEPT ![d] = u] /\ itemRow' = itemRow /\ overlapped' = overlapped
  BY <1>5
<1>10. /\ \A n \in Numbers : u.seen[n] # Nothing => u.seen[n] = task[d].seen[n]
       /\ d \in Docs /\ u.pc \in Past =>
            \/ u.found = NoFields
            \/ task[d].pc \in Past /\ u.found = task[d].found
  BY <1>2, <1>3
<1>11. d \in Tasks /\ u \in TaskRow /\ u.pc \notin Sessions
  BY <1>1, <1>2, <1>3
<1> HIDE <1>5
<1> QED BY <1>6, <1>7, <1>8, <1>9, <1>10, <1>11, QuietStep

\* The bytes are read.
LEMMA DownloadStep ==
  ASSUME DInv, NEW d \in Docs, Download(d)
  PROVE  DInv'
<1> DEFINE u == [task[d] EXCEPT !.pc = "classify", !.got = files[document[d].name]]
<1>1. /\ DTypes /\ d \in Tasks /\ task[d] \in TaskRow /\ task[d].pc = "download"
      /\ document[d] \in Document
  BY DocsAreTasks DEF DInv, DTypes, Download
<1>2. files[document[d].name] \in Contents \cup {Nothing}
  BY <1>1 DEF DTypes, Document
<1>3. u \in TaskRow /\ u.pc = "classify" /\ u.seen = task[d].seen
  BY <1>1, <1>2 DEF TaskRow
<1>4. u.pc \notin Sessions /\ u.pc \notin Past
  BY <1>3 DEF Sessions, Past
<1>5. task' = [task EXCEPT ![d] = u] /\ UNCHANGED <<document, files, itemRow, overlapped>>
  BY <1>1 DEF Download, DTypes
<1> HIDE DEF u
<1>6. /\ document' \in [Docs -> Document \cup {Nothing}]
      /\ files' \in [Names -> Contents \cup {Nothing}]
  BY <1>1, <1>5 DEF DTypes
<1> QED BY <1>1, <1>3, <1>4, <1>5, <1>6, QuietStep

\* A step of a task that only moves its pc.
LEMMA PcStep ==
  ASSUME DInv, NEW t \in Tasks, NEW pc \in Past \ Sessions, Step(t, pc),
         UNCHANGED <<document, files, itemRow, overlapped>>,
         task[t].pc \in Past \/ t = FusionCall
  PROVE  DInv'
<1> DEFINE u == [task[t] EXCEPT !.pc = pc]
<1>1. DTypes /\ task[t] \in TaskRow
  BY DEF DInv, DTypes
<1>2. u \in TaskRow /\ u.pc = pc /\ u.seen = task[t].seen /\ u.found = task[t].found
  BY <1>1 DEF TaskRow
<1>3. task' = [task EXCEPT ![t] = u]
  BY <1>1 DEF DTypes, Step
<1> HIDE DEF u
<1>4. /\ document' \in [Docs -> Document \cup {Nothing}]
      /\ files' \in [Names -> Contents \cup {Nothing}]
  BY <1>1 DEF DTypes
<1>5. t \in Docs => document'[t] \in Document
  <2> SUFFICES ASSUME t \in Docs PROVE document[t] \in Document
    OBVIOUS
  <2>1. t # FusionCall
    BY DocsAreTasks
  <2>2. task[t].pc \in Past /\ "idle" \notin Past
    BY <2>1 DEF Past
  <2> QED BY <2>2 DEF DInv
<1>6. /\ u.pc \notin Sessions
      /\ t \in Docs => t # FusionCall
  BY <1>2, DocsAreTasks
<1>7. itemRow' = itemRow /\ overlapped' = overlapped /\ document' = document
  OBVIOUS
<1>8. \A n \in Numbers : u.seen[n] # Nothing => u.seen[n] = task[t].seen[n]
  BY <1>2
<1>9. t \in Docs /\ u.pc \in Past =>
        \/ u.found = NoFields
        \/ task[t].pc \in Past /\ u.found = task[t].found
  BY <1>2, <1>6
<1>10. /\ t \in Docs /\ u.pc # "idle" => document'[t] \in Document
       /\ \A d \in Docs : document[d] \in Document => document'[d] \in Document
  BY <1>5, <1>7
<1>11. u \in TaskRow
  BY <1>2
<1> QED BY <1>3, <1>4, <1>6, <1>7, <1>8, <1>9, <1>10, <1>11, QuietStep


\* The class is stored; nothing is in the rows before there are fields found.
LEMMA ClassifyStep ==
  ASSUME DInv, NEW d \in Docs, NEW answer \in Kinds \cup {Nothing}, Classify(d, answer)
  PROVE  DInv'
<1>1. PICK kept \in SUBSET Numbers :
        LET found == Extraction(task[d].got, answer, kept)
        IN task' = [task EXCEPT ![d].found = found,
                      ![d].pc = IF found = NoFields THEN "done" ELSE "read"]
  BY Zenon DEF Classify
<1> DEFINE found == Extraction(task[d].got, answer, kept)
           pc    == IF found = NoFields THEN "done" ELSE "read"
           u     == [task[d] EXCEPT !.found = found, !.pc = pc]
           class == IF answer = Nothing THEN document[d].doc_class ELSE answer
           doc   == [document[d] EXCEPT !.status = "classified", !.doc_class = class]
<1>2. /\ DTypes /\ d \in Tasks /\ task[d] \in TaskRow /\ task[d].pc = "classify"
      /\ document[d] \in Document
  BY DocsAreTasks DEF DInv, DTypes, Classify
<1>3. found \in [Numbers -> SUBSET (PoData \cup PiData)]
  <2> DEFINE fields == CASE answer = "PURCHASE_ORDER"   -> PoData
                         [] answer = "PROFORMA_INVOICE" -> PiData
                         [] OTHER -> {}
  <2>1. fields \subseteq PoData \cup PiData
    OBVIOUS
  <2>2. found = [n \in Numbers |-> IF n \in kept THEN task[d].got.holds[n] \cap fields ELSE {}]
    BY DEF Extraction
  <2> HIDE DEF fields, found
  <2> QED BY <2>1, <2>2
<1>4. doc \in Document
  <2>1. class \in Kinds
    BY <1>2 DEF Document
  <2> HIDE DEF class
  <2> QED BY <1>2, <2>1 DEF Document
<1>5. /\ task' = [task EXCEPT ![d].found = found, ![d].pc = pc]
      /\ document' = [document EXCEPT ![d].status = "classified", ![d].doc_class =
                        IF answer = Nothing THEN @ ELSE answer]
      /\ UNCHANGED <<files, itemRow, overlapped>>
  BY <1>1 DEF Classify
<1> HIDE DEF found
<1>6. /\ u \in TaskRow /\ u.found = found /\ u.pc = pc /\ u.seen = task[d].seen
  <2>1. pc \in {"done", "read"} /\ "done" \in Past
    BY DEF Past
  <2> HIDE DEF pc
  <2> QED BY <1>2, <1>3, <2>1 DEF TaskRow
<1>7. task' = [task EXCEPT ![d] = u]
  BY <1>2, <1>5 DEF DTypes
<1>8. document' = [document EXCEPT ![d] = doc]
  BY <1>2, <1>5 DEF DTypes
<1>9. u.pc \notin Sessions /\ (u.pc \in Past => u.found = NoFields)
  BY <1>6 DEF Sessions, Past
<1> HIDE DEF u, doc, pc
<1>10. /\ document' \in [Docs -> Document \cup {Nothing}] /\ document'[d] \in Document
       /\ \A e \in Docs : document[e] \in Document => document'[e] \in Document
  BY <1>2, <1>4, <1>8 DEF DTypes
<1>11. itemRow' = itemRow /\ overlapped' = overlapped /\ files' \in [Names -> Contents \cup {Nothing}]
  BY <1>2, <1>5 DEF DTypes
<1>12. /\ \A n \in Numbers : u.seen[n] # Nothing => u.seen[n] = task[d].seen[n]
       /\ d \in Docs /\ u.pc # "idle" => document'[d] \in Document
       /\ d \in Docs /\ u.pc \in Past =>
            \/ u.found = NoFields
            \/ task[d].pc \in Past /\ u.found = task[d].found
       /\ u.pc \notin Sessions /\ u \in TaskRow /\ d \in Tasks
  BY <1>2, <1>6, <1>9, <1>10
<1> HIDE <1>1, <1>5
<1> QED BY <1>7, <1>10, <1>11, <1>12, QuietStep

\* The process stops: no session is left, and what was committed is kept.
LEMMA StopStep ==
  ASSUME DInv, Stop
  PROVE  DInv'
<1>1. DTypes /\ UNCHANGED <<files, itemRow, overlapped>>
  BY DEF DInv, Stop
<1>2. NoFields \in [Numbers -> SUBSET (PoData \cup PiData)]
  BY DEF NoFields
<1>3. ASSUME NEW t \in Tasks
      PROVE  /\ task'[t] \in TaskRow /\ task'[t].seen = task[t].seen
             /\ IF task[t].pc = "idle" THEN task'[t] = task[t]
                ELSE /\ task'[t].pc = "done"
                     /\ task'[t].found = IF task[t].pc \in {"done", "check", "load", "fuse"}
                                         THEN task[t].found ELSE NoFields
  <2>1. task[t] \in TaskRow
    BY <1>1 DEF DTypes
  <2>2. CASE task[t].pc = "idle"
    <3>1. task'[t] = task[t]
      BY <2>2 DEF Stop
    <3> QED BY <2>1, <2>2, <3>1
  <2>3. CASE task[t].pc # "idle"
    <3> DEFINE kept == IF task[t].pc \in {"done", "check", "load", "fuse"}
                       THEN task[t].found ELSE NoFields
               u    == [task[t] EXCEPT !.pc = "done", !.found = kept]
    <3>1. task'[t] = u
      BY <2>1, <2>3 DEF Stop, TaskRow
    <3>2. kept \in [Numbers -> SUBSET (PoData \cup PiData)]
      BY <1>2, <2>1 DEF TaskRow
    <3>3. u \in TaskRow /\ u.seen = task[t].seen /\ u.pc = "done" /\ u.found = kept
      <4>1. "done" \in Past
        BY DEF Past
      <4> HIDE DEF kept
      <4> QED BY <2>1, <3>2, <4>1 DEF TaskRow
    <3> HIDE DEF u
    <3> QED BY <2>3, <3>1, <3>3
  <2> QED BY <2>2, <2>3
<1>4. task' \in [Tasks -> TaskRow]
  BY <1>3 DEF Stop
<1>5. ASSUME NEW d \in Docs
      PROVE  /\ document'[d] \in Document \cup {Nothing}
             /\ document[d] \in Document => document'[d] \in Document
  <2>1. CASE document[d] = Nothing
    BY <2>1, ContentsAssumption DEF Stop
  <2>2. CASE document[d] # Nothing
    <3>1. document[d] \in Document
      BY <1>1, <2>2 DEF DTypes
    <3>2. document'[d] = [document[d] EXCEPT !.shown = "gone"]
      BY <2>2 DEF Stop
    <3> QED BY <3>1, <3>2 DEF Document
  <2> QED BY <2>1, <2>2
<1>6. document' \in [Docs -> Document \cup {Nothing}]
  BY <1>5 DEF Stop
<1>7. DTypes'
  BY <1>1, <1>4, <1>6 DEF DTypes
<1>8. InSession' = {}
  <2>1. \A t \in Tasks : task'[t].pc \notin {"merge", "fuse"}
    BY <1>3
  <2> QED BY <2>1 DEF InSession
<1>9. \A d \in Docs : task'[d].pc # "idle" => document'[d] \in Document
  BY <1>3, <1>5, DocsAreTasks DEF DInv
<1>10. ASSUME NEW t \in Tasks PROVE Alone(t)' /\ Lasting(t)'
  <2>1. Lasting(t)
    BY DEF DInv
  <2>2. Lasting(t)'
    BY <1>1, <1>3, <2>1 DEF Lasting
  <2> QED BY <1>8, <2>2 DEF Alone
<1>12. \A n \in Numbers : Honest(itemRow'[n])
  BY <1>1 DEF DInv
<1>11. ASSUME NEW d \in Docs PROVE Preserved(d)'
  <2>1. d \in Tasks /\ "idle" \notin Past
    BY DocsAreTasks DEF Past
  <2>2. \/ task'[d].pc \notin Past
        \/ task'[d].found = NoFields
        \/ task[d].pc \in Past /\ task'[d].found = task[d].found
    BY <1>3, <2>1 DEF Past
  <2>3. \A rows : Holds(rows, NoFields)
    BY DEF Holds, NoFields
  <2>4. Preserved(d)
    BY DEF DInv
  <2> QED BY <1>1, <1>8, <2>2, <2>3, <2>4 DEF Preserved
<1> QED BY <1>7, <1>9, <1>10, <1>11, <1>12 DEF DInv


\* A step of one document's task, or of its record in memory.
LEMMA DocumentSteps ==
  ASSUME DInv, NEW d \in Docs,
         \/ \E f \in Names, c \in Contents, guess \in Kinds : Upload(d, f, c, guess)
         \/ Download(d) \/ ReadRows(d) \/ CommitRows(d) \/ CheckSides(d)
         \/ \E answer \in Kinds \cup {Nothing} : Classify(d, answer)
         \/ \E ok \in BOOLEAN : Reclassify(d, ok)
  PROVE  DInv'
<1>1. DTypes /\ d \in Tasks
  BY DocsAreTasks DEF DInv
<1>2. ASSUME ReadRows(d) PROVE DInv'
  <2>1. task[d].pc \notin Sessions /\ task[d].pc # "idle" /\ "merge" \in Sessions
    BY <1>2 DEF ReadRows, Sessions
  <2>2. task' = [task EXCEPT ![d].pc = "merge", ![d].seen = itemRow]
        /\ Overlap(d) /\ UNCHANGED <<document, files, itemRow>>
    BY <1>2 DEF ReadRows
  <2> QED BY <1>1, <2>1, <2>2, OpenStep
<1>3. ASSUME CheckSides(d) PROVE DInv'
  <2>1. PICK pc \in {"load", "done"} : Step(d, pc)
    BY <1>3, Zenon DEF CheckSides
  <2>2. pc \in Past \ Sessions /\ task[d].pc \in Past
    BY <1>3 DEF CheckSides, Past, Sessions
  <2>3. UNCHANGED <<document, files, itemRow, overlapped>>
    BY <1>3 DEF CheckSides
  <2> QED BY <1>1, <2>1, <2>2, <2>3, PcStep
<1>4. ASSUME NEW ok \in BOOLEAN, Reclassify(d, ok) PROVE DInv'
  <2> DEFINE shown == IF ok THEN "classified" ELSE "failed"
             doc   == [document[d] EXCEPT !.shown = shown]
  <2>1. document[d] \in Document
    BY <1>1, <1>4 DEF Reclassify, DTypes
  <2>2. shown \in {"classified", "failed"}
    OBVIOUS
  <2>3. document' = [document EXCEPT ![d].shown = shown]
        /\ UNCHANGED <<files, itemRow, task, overlapped>>
    BY <1>4 DEF Reclassify
  <2> HIDE DEF shown
  <2>4. doc \in Document
    BY <2>1, <2>2 DEF Document
  <2>5. document' = [document EXCEPT ![d] = doc]
    BY <1>1, <2>3 DEF DTypes
  <2> HIDE DEF doc
  <2>6. /\ document' \in [Docs -> Document \cup {Nothing}]
        /\ \A e \in Docs : document[e] \in Document => document'[e] \in Document
    BY <1>1, <2>4, <2>5 DEF DTypes
  <2>7. DTypes'
    BY <1>1, <2>3, <2>6 DEF DTypes
  <2>8. InSession' = InSession
    BY <2>3 DEF InSession
  <2>9. \A t \in Tasks : (Alone(t) => Alone(t)') /\ (Lasting(t) => Lasting(t)')
    BY <2>3, <2>8 DEF Alone, Lasting
  <2>10. \A e \in Docs : Preserved(e) => Preserved(e)'
    BY <2>3, <2>8 DEF Preserved
  <2>11. \A e \in Docs : task'[e].pc # "idle" => document'[e] \in Document
    BY <2>3, <2>6 DEF DInv
  <2>12. \A n \in Numbers : Honest(itemRow'[n])
    BY <2>3 DEF DInv
  <2> QED BY <2>7, <2>9, <2>10, <2>11, <2>12 DEF DInv
<1> QED BY <1>2, <1>3, <1>4, UploadStep, DownloadStep, CommitRowsStep, ClassifyStep

\* Every step of the documents keeps the invariant.
LEMMA DInvNext == DInv /\ [DNext]_dvars => DInv'
<1> SUFFICES ASSUME DInv, [DNext]_dvars PROVE DInv'
  OBVIOUS
<1>1. ASSUME CallFuse PROVE DInv'
  <2>1. "load" \in Past \ Sessions
    BY DEF Past, Sessions
  <2>2. Step(FusionCall, "load") /\ UNCHANGED <<document, files, itemRow, overlapped>>
    BY <1>1 DEF CallFuse
  <2> QED BY <2>1, <2>2, DocsAreTasks, PcStep
<1>2. ASSUME NEW t \in Tasks, LoadRows(t) PROVE DInv'
  <2>1. /\ task[t].pc \notin Sessions /\ task[t].pc # "idle" /\ task[t].pc \in Past
        /\ "fuse" \in Sessions
    BY <1>2 DEF LoadRows, Sessions, Past
  <2>2. task' = [task EXCEPT ![t].pc = "fuse", ![t].seen = itemRow]
        /\ Overlap(t) /\ UNCHANGED <<document, files, itemRow>>
    BY <1>2 DEF LoadRows
  <2> QED BY <2>1, <2>2, OpenStep
<1>3. ASSUME NEW t \in Tasks, FuseFails(t) PROVE DInv'
  <2>1. "done" \in Past \ Sessions /\ task[t].pc \in Past
    BY <1>3 DEF FuseFails, Past, Sessions
  <2>2. Step(t, "done") /\ UNCHANGED <<document, files, itemRow, overlapped>>
    BY <1>3 DEF FuseFails
  <2> QED BY <2>1, <2>2, PcStep
<1>4. CASE UNCHANGED dvars
  <2>1. DTypes'
    BY <1>4 DEF DInv, DTypes, dvars
  <2>2. InSession' = InSession /\ UNCHANGED <<task, itemRow, document, overlapped>>
    BY <1>4 DEF InSession, dvars
  <2>3. \A t \in Tasks : (Alone(t) => Alone(t)') /\ (Lasting(t) => Lasting(t)')
    BY <2>2 DEF Alone, Lasting
  <2>4. \A e \in Docs : Preserved(e) => Preserved(e)'
    BY <2>2 DEF Preserved
  <2> QED BY <2>1, <2>2, <2>3, <2>4 DEF DInv
<1> QED BY <1>1, <1>2, <1>3, <1>4, DocumentSteps, FuseRowsStep, StopStep DEF DNext

\* The invariant of the documents and their tasks.
THEOREM DInvariant == DSpec => []DInv
BY DInitInv, DInvNext, PTL DEF DSpec

\* The variables of the documents keep their types.
THEOREM DTypeCorrect == DSpec => []DTypeOK
<1>1. DInv => DTypeOK
  BY DEF DInv, DTypes, DTypeOK
<1> QED BY <1>1, DInvariant, PTL

\* What a task extracted is answered for in the items' rows from its commit on,
\* unless one of its sessions overlapped another task's: held, or past a fusion
\* one of the fields it drops or has the agent replace.
THEOREM ExtractedKept == DSpec => []ExtractedIsKept
<1>1. DInv => ExtractedIsKept
  <2> SUFFICES ASSUME DInv, NEW d \in Docs \ overlapped,
                      task[d].pc \in {"check", "load", "fuse", "done"}
               PROVE  Holds(itemRow, task[d].found)
    BY DEF ExtractedIsKept, Holds
  <2> QED BY DEF DInv, Preserved, Past
<1> QED BY <1>1, DInvariant, PTL

-----------------------------------------------------------------------------
(* DrawingCanvas: CanvasIsSound.                                           *)

\* A handler and its client, and a request to save.
ArtistRow == [pc : {"away", "open", "gone", "left"}, paper : Seq(Strokes),
              frame : Strokes \cup {"clear", Nobody}, to : SUBSET Artists]
SaverRow  == [pc : {"idle", "upload", "attach", "message", "done"}, svg : Seq(Strokes),
              counted : Nat \cup {Nobody}]

\* The types the proof keeps.
KTypes ==
  /\ strokes \in Seq(Strokes) /\ Len(strokes) <= MaxStrokes
  /\ room \subseteq Artists /\ mixed \subseteq Artists
  /\ artist \in [Artists -> ArtistRow]
  /\ saver \in [Savers -> SaverRow]
  /\ \A s \in Savers : saver[s].pc \in {"upload", "attach", "message"} => saver[s].svg # <<>>
  /\ \A d \in gallery : d.svg # <<>> /\ d.message \in 0..MaxStrokes

\* Frames go to clients that have entered.
Sending(a) ==
  /\ artist[a].to # {} => artist[a].frame \in Strokes \cup {"clear"}
  /\ \A p \in artist[a].to : artist[p].pc # "away"

\* What a client in the room shows, with what is under way to it, is the canvas.
Painted(p) ==
  p \in room =>
    /\ artist[p].pc \in {"open", "gone"}
    /\ artist[p].pc = "open" /\ p \notin mixed =>
         IF ClearDue(p) THEN strokes = <<>> /\ InkDue(p) = {}
         ELSE /\ ShownTo(p) \cup InkDue(p) = OnCanvas
              /\ Len(artist[p].paper) + Cardinality(SendersTo(p)) = Len(strokes)

\* The inductive invariant.
KInv == KTypes /\ \A a \in Artists : Sending(a) /\ Painted(a)

\* One more stroke.
LEMMA OneMore ==
  ASSUME NEW q \in Seq(Strokes), NEW k \in Strokes
  PROVE  /\ Append(q, k) \in Seq(Strokes) /\ Len(Append(q, k)) = Len(q) + 1
         /\ {Append(q, k)[n] : n \in DOMAIN Append(q, k)} = {q[n] : n \in DOMAIN q} \cup {k}
<1>1. Append(q, k) \in Seq(Strokes) /\ Len(Append(q, k)) = Len(q) + 1 /\ Len(q) \in Nat
      /\ DOMAIN q = 1..Len(q) /\ DOMAIN Append(q, k) = 1..(Len(q) + 1)
  OBVIOUS
<1>2. \A n \in 1..Len(q) : Append(q, k)[n] = q[n]
  OBVIOUS
<1>3. Append(q, k)[Len(q) + 1] = k
  OBVIOUS
<1> DEFINE r == Append(q, k)
           m == Len(q)
<1> HIDE DEF r, m
<1>4. {r[n] : n \in 1..(m + 1)} = {q[n] : n \in 1..m} \cup {k}
  <2>1. m \in Nat /\ r[m + 1] = k /\ \A n \in 1..m : r[n] = q[n]
    BY <1>1, <1>2, <1>3 DEF r, m
  <2> QED BY <2>1
<1> QED BY <1>1, <1>4 DEF r, m

\* The senders to a client are finitely many.
LEMMA SendersFinite ==
  ASSUME NEW p
  PROVE  IsFiniteSet(SendersTo(p)) /\ Cardinality(SendersTo(p)) \in Nat
<1>1. SendersTo(p) \in SUBSET Artists
  BY DEF SendersTo
<1> QED BY <1>1, CanvasAssumption, FS_Subset, FS_CardinalityType

\* An empty canvas.
LEMMA KInitInv == KInit => KInv
<1> SUFFICES ASSUME KInit PROVE KInv
  OBVIOUS
<1>1. NoArtist \in ArtistRow /\ NoSaver \in SaverRow /\ NoSaver.pc = "idle" /\ NoArtist.to = {}
  BY DEF NoArtist, NoSaver, ArtistRow, SaverRow
<1>2. <<>> \in Seq(Strokes) /\ Len(<<>>) = 0
  OBVIOUS
<1>3. KTypes
  BY <1>1, <1>2, CanvasAssumption DEF KInit, KTypes
<1> QED BY <1>1, <1>3 DEF KInit, KInv, Sending, Painted

\* Who sends what to whom is the same.
LEMMA SameDues ==
  ASSUME NEW p, \A a \in Artists : /\ artist'[a].to = artist[a].to
                                   /\ artist'[a].frame = artist[a].frame
  PROVE  SendersTo(p)' = SendersTo(p) /\ (ClearDue(p)' <=> ClearDue(p)) /\ InkDue(p)' = InkDue(p)
<1>1. SendersTo(p)' = SendersTo(p)
  BY DEF SendersTo
<1>2. \A a \in SendersTo(p) : artist'[a].frame = artist[a].frame
  BY DEF SendersTo
<1>3. ClearDue(p)' <=> ClearDue(p)
  BY <1>1, <1>2 DEF ClearDue
<1>4. InkDue(p)' = InkDue(p)
  BY <1>1, <1>2 DEF InkDue
<1> QED BY <1>1, <1>3, <1>4

\* Who enters sees the canvas, and nothing is under way to him.
LEMMA EnterRoomStep ==
  ASSUME KInv, NEW a \in Artists, EnterRoom(a)
  PROVE  KInv'
<1> DEFINE row == [artist[a] EXCEPT !.pc = "open", !.paper = strokes]
<1>1. KTypes /\ artist[a] \in ArtistRow /\ artist[a].pc = "away"
  BY DEF KInv, KTypes, EnterRoom
<1>2. /\ row \in ArtistRow /\ row.pc = "open" /\ row.paper = strokes
      /\ row.to = artist[a].to /\ row.frame = artist[a].frame
  BY <1>1 DEF ArtistRow, KTypes
<1>3. artist' = [artist EXCEPT ![a] = row] /\ room' = room \cup {a}
      /\ UNCHANGED <<strokes, saver, gallery, mixed>>
  BY <1>1 DEF EnterRoom, KTypes
<1> HIDE DEF row
<1>4. artist'[a] = row /\ \A b \in Artists \ {a} : artist'[b] = artist[b]
  BY <1>1, <1>3 DEF KTypes
<1>5. KTypes'
  BY <1>1, <1>2, <1>3 DEF KTypes
<1>6. ASSUME NEW b \in Artists PROVE Sending(b)'
  <2>1. Sending(b) /\ artist[b].to \subseteq Artists
    BY <1>1 DEF KInv, KTypes, ArtistRow
  <2>2. /\ artist'[b].to = artist[b].to /\ artist'[b].frame = artist[b].frame
        /\ \A p \in Artists : artist[p].pc # "away" => artist'[p].pc # "away"
    BY <1>2, <1>4
  <2> QED BY <2>1, <2>2 DEF Sending
<1>7. \A p : SendersTo(p)' = SendersTo(p) /\ (ClearDue(p)' <=> ClearDue(p)) /\ InkDue(p)' = InkDue(p)
  BY <1>2, <1>4, SameDues
<1>8. ASSUME NEW p \in Artists PROVE Painted(p)'
  <2>1. CASE p # a
    <3>1. artist'[p] = artist[p] /\ (p \in room' <=> p \in room) /\ strokes' = strokes /\ mixed' = mixed
      BY <1>3, <1>4, <2>1
    <3>2. ShownTo(p)' = ShownTo(p) /\ OnCanvas' = OnCanvas
      BY <3>1 DEF ShownTo, OnCanvas
    <3>3. Painted(p)
      BY DEF KInv
    <3> QED BY <1>7, <3>1, <3>2, <3>3 DEF Painted
  <2>2. CASE p = a
    <3>1. SendersTo(a) = {}
      <4>1. \A b \in Artists : a \notin artist[b].to
        BY <1>1 DEF KInv, Sending
      <4> QED BY <4>1 DEF SendersTo
    <3>2. ~ClearDue(a) /\ InkDue(a) = {} /\ Cardinality(SendersTo(a)) = 0
      BY <3>1, FS_EmptySet DEF ClearDue, InkDue
    <3>3. ShownTo(a)' = OnCanvas' /\ artist'[a].paper = strokes' /\ Len(strokes') \in Nat
      BY <1>1, <1>2, <1>3, <1>4 DEF ShownTo, OnCanvas, KTypes
    <3> QED BY <1>2, <1>4, <1>7, <2>2, <3>2, <3>3 DEF Painted
  <2> QED BY <2>1, <2>2
<1> QED BY <1>5, <1>6, <1>8 DEF KInv


\* A frame to some in the room.
LEMMA BegunRow ==
  ASSUME KInv, NEW a \in Artists, Listening(a), NEW row \in ArtistRow, row.pc = "open",
         row.to \subseteq room, row.to # {} => row.frame \in Strokes \cup {"clear"},
         artist' = [artist EXCEPT ![a] = row]
  PROVE  /\ artist' \in [Artists -> ArtistRow]
         /\ artist'[a] = row /\ \A b \in Artists \ {a} : artist'[b] = artist[b]
         /\ \A b \in Artists : Sending(b)'
<1>1. KTypes /\ artist[a] \in ArtistRow /\ artist[a].pc = "open"
  BY DEF KInv, KTypes, Listening
<1>2. /\ artist' \in [Artists -> ArtistRow]
      /\ artist'[a] = row /\ \A b \in Artists \ {a} : artist'[b] = artist[b]
  BY <1>1 DEF KTypes
<1>3. ASSUME NEW b \in Artists PROVE Sending(b)'
  <2>1. \A p \in Artists : artist[p].pc # "away" => artist'[p].pc # "away"
    BY <1>1, <1>2
  <2>2. Sending(b) /\ artist[b].to \subseteq Artists
    BY <1>1 DEF KInv, KTypes, ArtistRow
  <2>3. CASE b # a
    BY <1>2, <2>1, <2>2, <2>3 DEF Sending
  <2>4. CASE b = a
    <3>1. \A p \in row.to : p \in Artists /\ artist[p].pc # "away"
      BY <1>1 DEF KInv, Painted, KTypes
    <3> QED BY <1>2, <2>1, <2>4, <3>1 DEF Sending
  <2> QED BY <2>3, <2>4
<1> QED BY <1>2, <1>3

\* A stroke is under way to everyone else, and its author shows it.
LEMMA AddStrokeStep ==
  ASSUME KInv, NEW a \in Artists, NEW k \in Strokes, AddStroke(a, k)
  PROVE  KInv'
<1> DEFINE peers == room \ {a}
           paper == Append(artist[a].paper, k)
           sent  == IF peers = {} THEN Nobody ELSE k
           row   == [artist[a] EXCEPT !.frame = sent, !.to = peers, !.paper = paper]
<1>1. /\ KTypes /\ Listening(a) /\ artist[a].to = {} /\ artist[a].pc = "open"
      /\ artist[a].paper \in Seq(Strokes) /\ strokes \in Seq(Strokes)
      /\ Len(strokes) < MaxStrokes /\ Len(strokes) \in Nat
  BY DEF KInv, KTypes, AddStroke, Listening, ArtistRow
<1>2. /\ strokes' = Append(strokes, k)
      /\ artist' = [Begun(a, k, peers) EXCEPT ![a].paper = Append(@, k)]
      /\ mixed' = mixed \cup {p \in room : ClearDue(p)}
      /\ UNCHANGED <<room, saver, gallery>>
  BY DEF AddStroke
<1>3. artist' = [artist EXCEPT ![a] = row]
  BY <1>1, <1>2 DEF Begun, KTypes, ArtistRow
<1>4. /\ row \in ArtistRow /\ row.pc = "open" /\ row.paper = paper /\ row.to = peers
      /\ row.frame = sent /\ peers \subseteq room
  <2>1. paper \in Seq(Strokes) /\ sent \in Strokes \cup {"clear", Nobody}
        /\ peers \subseteq Artists /\ artist[a] \in ArtistRow
    BY <1>1 DEF KTypes
  <2>2. peers \subseteq room
    OBVIOUS
  <2> HIDE DEF paper, sent, peers
  <2> QED BY <1>1, <2>1, <2>2 DEF ArtistRow
<1>5. /\ artist' \in [Artists -> ArtistRow]
      /\ artist'[a].pc = "open" /\ artist'[a].paper = paper /\ artist'[a].to = peers
      /\ peers # {} => artist'[a].frame = k
      /\ \A b \in Artists \ {a} : artist'[b] = artist[b]
      /\ \A b \in Artists : Sending(b)'
  <2>1. peers # {} => sent = k /\ sent \in Strokes \cup {"clear"}
    OBVIOUS
  <2> HIDE DEF row, sent, peers, paper
  <2>2. /\ artist' \in [Artists -> ArtistRow]
        /\ artist'[a] = row /\ \A b \in Artists \ {a} : artist'[b] = artist[b]
        /\ \A b \in Artists : Sending(b)'
    BY <1>1, <1>3, <1>4, <2>1, BegunRow
  <2> QED BY <1>4, <2>1, <2>2
<1> HIDE DEF peers, paper, sent, row
<1>6. /\ strokes' \in Seq(Strokes) /\ Len(strokes') = Len(strokes) + 1
      /\ OnCanvas' = OnCanvas \cup {k}
  BY <1>1, <1>2, OneMore DEF OnCanvas
<1>7. KTypes'
  <2>1. Len(strokes') <= MaxStrokes
    BY <1>1, <1>6, CanvasAssumption
  <2>2. mixed' \subseteq Artists
    BY <1>1, <1>2 DEF KTypes
  <2> QED BY <1>1, <1>2, <1>5, <1>6, <2>1, <2>2 DEF KTypes
<1>8. ASSUME NEW p \in Artists PROVE Painted(p)'
  <2> SUFFICES ASSUME p \in room
               PROVE  /\ artist'[p].pc \in {"open", "gone"}
                      /\ artist'[p].pc = "open" /\ p \notin mixed' =>
                           /\ ~ClearDue(p)'
                           /\ ShownTo(p)' \cup InkDue(p)' = OnCanvas'
                           /\ Len(artist'[p].paper) + Cardinality(SendersTo(p))' = Len(strokes')
    BY <1>2 DEF Painted
  <2>1. artist'[p].pc = artist[p].pc /\ artist[p].pc \in {"open", "gone"}
    BY <1>1, <1>5 DEF KInv, Painted
  <2> SUFFICES ASSUME artist[p].pc = "open", p \notin mixed'
               PROVE  /\ ~ClearDue(p)'
                      /\ ShownTo(p)' \cup InkDue(p)' = OnCanvas'
                      /\ Len(artist'[p].paper) + Cardinality(SendersTo(p))' = Len(strokes')
    BY <2>1
  <2>2. /\ ~ClearDue(p) /\ ShownTo(p) \cup InkDue(p) = OnCanvas
        /\ Len(artist[p].paper) + Cardinality(SendersTo(p)) = Len(strokes)
    BY <1>2 DEF KInv, Painted
  <2>3. a \notin SendersTo(p) /\ IsFiniteSet(SendersTo(p)) /\ Cardinality(SendersTo(p)) \in Nat
    BY <1>1, SendersFinite DEF SendersTo
  <2>4. CASE p = a
    <3>1. a \notin peers
      BY DEF peers
    <3>2. SendersTo(a)' = SendersTo(a)
      BY <1>1, <1>5, <3>1 DEF SendersTo
    <3>3. \A b \in SendersTo(a) : artist'[b].frame = artist[b].frame
      BY <1>5, <2>3, <2>4 DEF SendersTo
    <3>4. ~ClearDue(a)' /\ InkDue(a)' = InkDue(a)
      BY <2>2, <2>4, <3>2, <3>3 DEF ClearDue, InkDue
    <3>5. ShownTo(a)' = ShownTo(a) \cup {k} /\ Len(artist'[a].paper) = Len(artist[a].paper) + 1
      <4>1. /\ {paper[n] : n \in DOMAIN paper}
                 = {artist[a].paper[n] : n \in DOMAIN artist[a].paper} \cup {k}
            /\ Len(paper) = Len(artist[a].paper) + 1
        BY <1>1, OneMore DEF paper
      <4> QED BY <1>5, <4>1 DEF ShownTo
    <3>6. Len(artist'[a].paper) + Cardinality(SendersTo(a))' = Len(strokes')
      <4>1. Len(artist[a].paper) \in Nat
        BY <1>1
      <4>2. Cardinality(SendersTo(a))' = Cardinality(SendersTo(a))
        BY <3>2
      <4>3. /\ Len(artist[a].paper) + Cardinality(SendersTo(a)) = Len(strokes)
            /\ Len(strokes') = Len(strokes) + 1 /\ Len(strokes) \in Nat
            /\ Cardinality(SendersTo(a)) \in Nat
        BY <1>1, <1>6, <2>2, <2>3, <2>4
      <4>4. Len(artist'[a].paper) = Len(artist[a].paper) + 1
        BY <3>5
      <4> QED BY <4>1, <4>2, <4>3, <4>4
    <3>7. ShownTo(a)' \cup InkDue(a)' = OnCanvas'
      BY <1>6, <2>2, <2>4, <3>4, <3>5
    <3> QED BY <2>4, <3>4, <3>6, <3>7
  <2>5. CASE p # a
    <3>1. p \in peers /\ artist'[a].frame = k /\ k # "clear" /\ artist'[p] = artist[p]
      BY <1>5, <2>5, CanvasAssumption DEF peers
    <3>2. SendersTo(p)' = SendersTo(p) \cup {a}
      BY <1>5, <3>1 DEF SendersTo
    <3>3. \A b \in SendersTo(p) : artist'[b].frame = artist[b].frame
      BY <1>5, <2>3 DEF SendersTo
    <3>4. ~ClearDue(p)'
      BY <2>2, <3>1, <3>2, <3>3 DEF ClearDue
    <3>5. InkDue(p)' = InkDue(p) \cup {k}
      BY <3>1, <3>2, <3>3 DEF InkDue
    <3>6. Cardinality(SendersTo(p))' = Cardinality(SendersTo(p)) + 1
      BY <2>3, <3>2, FS_AddElement
    <3>7. ShownTo(p)' = ShownTo(p)
      BY <3>1 DEF ShownTo
    <3>8. Len(artist[p].paper) \in Nat
      BY <1>1 DEF KTypes, ArtistRow
    <3>9. Len(artist'[p].paper) + Cardinality(SendersTo(p))' = Len(strokes')
      <4>1. /\ Len(artist[p].paper) + Cardinality(SendersTo(p)) = Len(strokes)
            /\ Len(strokes') = Len(strokes) + 1 /\ Len(strokes) \in Nat
            /\ Cardinality(SendersTo(p)) \in Nat
        BY <1>1, <1>6, <2>2, <2>3
      <4>2. Len(artist'[p].paper) = Len(artist[p].paper)
        BY <3>1
      <4> DEFINE shown == Len(artist[p].paper)
                 due   == Cardinality(SendersTo(p))
                 all   == Len(strokes)
      <4>3. /\ Len(artist'[p].paper) = shown /\ Cardinality(SendersTo(p))' = due + 1
            /\ Len(strokes') = all + 1 /\ shown + due = all
            /\ shown \in Nat /\ due \in Nat /\ all \in Nat
        BY <3>6, <3>8, <4>1, <4>2
      <4> HIDE DEF shown, due, all
      <4> QED BY <4>3
    <3>10. ShownTo(p)' \cup InkDue(p)' = OnCanvas'
      BY <1>6, <2>2, <3>5, <3>7
    <3> QED BY <3>4, <3>9, <3>10
  <2> QED BY <2>4, <2>5
<1> QED BY <1>5, <1>7, <1>8 DEF KInv

\* A clear is under way to everyone; no stroke is, but to those that are mixed.
LEMMA ClearStep ==
  ASSUME KInv, NEW a \in Artists, ClearCanvas(a)
  PROVE  KInv'
<1> DEFINE sent == IF room = {} THEN Nobody ELSE "clear"
           row  == [artist[a] EXCEPT !.frame = sent, !.to = room]
<1>1. KTypes /\ Listening(a) /\ artist[a].to = {} /\ artist[a].pc = "open"
  BY DEF KInv, ClearCanvas, Listening
<1>2. /\ strokes' = <<>> /\ artist' = Begun(a, "clear", room)
      /\ mixed' = {p \in room : InkDue(p) # {}}
      /\ UNCHANGED <<room, saver, gallery>>
  BY DEF ClearCanvas
<1>3. artist' = [artist EXCEPT ![a] = row]
  BY <1>1, <1>2 DEF Begun, KTypes, ArtistRow
<1>4. /\ artist' \in [Artists -> ArtistRow]
      /\ artist'[a].pc = "open" /\ artist'[a].to = room
      /\ room # {} => artist'[a].frame = "clear"
      /\ \A b \in Artists \ {a} : artist'[b] = artist[b]
      /\ \A b \in Artists : Sending(b)'
  <2>1. sent \in Strokes \cup {"clear", Nobody} /\ (room # {} => sent = "clear")
    OBVIOUS
  <2> HIDE DEF sent
  <2>2. row \in ArtistRow /\ row.pc = "open" /\ row.to = room /\ row.frame = sent
    BY <1>1, <2>1 DEF KTypes, ArtistRow
  <2> HIDE DEF row
  <2>3. row.to \subseteq room /\ (row.to # {} => row.frame \in Strokes \cup {"clear"})
    BY <2>1, <2>2
  <2>4. /\ artist' \in [Artists -> ArtistRow]
        /\ artist'[a] = row /\ \A b \in Artists \ {a} : artist'[b] = artist[b]
        /\ \A b \in Artists : Sending(b)'
    BY <1>1, <1>3, <2>2, <2>3, BegunRow
  <2> QED BY <2>1, <2>2, <2>4
<1>5. KTypes'
  <2>1. <<>> \in Seq(Strokes) /\ Len(<<>>) = 0
    OBVIOUS
  <2>2. mixed' \subseteq Artists
    BY <1>1, <1>2 DEF KTypes
  <2> QED BY <1>1, <1>2, <1>4, <2>1, <2>2, CanvasAssumption DEF KTypes
<1>6. ASSUME NEW p \in Artists PROVE Painted(p)'
  <2> SUFFICES ASSUME p \in room
               PROVE  /\ artist'[p].pc \in {"open", "gone"}
                      /\ p \notin mixed' => ClearDue(p)' /\ InkDue(p)' = {}
    BY <1>2 DEF Painted
  <2>1. artist'[p].pc \in {"open", "gone"}
    BY <1>4 DEF KInv, Painted
  <2>2. a \in SendersTo(p)' /\ artist'[a].frame = "clear"
    BY <1>4 DEF SendersTo
  <2>3. ClearDue(p)'
    BY <2>2 DEF ClearDue
  <2>4. ASSUME InkDue(p) = {} PROVE InkDue(p)' = {}
    <3>1. ASSUME NEW b \in SendersTo(p)' PROVE artist'[b].frame = "clear"
      <4>1. CASE b = a
        BY <2>2, <4>1
      <4>2. CASE b # a
        <5>1. b \in SendersTo(p) /\ artist'[b].frame = artist[b].frame
          BY <1>4, <3>1, <4>2 DEF SendersTo
        <5> QED BY <2>4, <5>1 DEF InkDue
      <4> QED BY <4>1, <4>2
    <3> QED BY <3>1 DEF InkDue
  <2> QED BY <1>2, <2>1, <2>3, <2>4
<1> QED BY <1>4, <1>5, <1>6 DEF KInv

\* What a send changes.
LEMMA SendRow ==
  ASSUME KInv, NEW a \in Artists, NEW p \in artist[a].to, SendTo(a, p)
  PROVE  LET frame == artist[a].frame
             left  == artist[a].to \ {p}
         IN /\ p \in Artists /\ frame \in Strokes \cup {"clear"}
            /\ artist' \in [Artists -> ArtistRow]
            /\ artist'[a].to = left /\ (left # {} => artist'[a].frame = frame)
            /\ artist'[p].paper = IF artist[p].pc # "open" \/ frame = "clear" THEN <<>>
                                  ELSE Append(artist[p].paper, frame)
            /\ \A b \in Artists : artist'[b].pc = artist[b].pc
            /\ \A b \in Artists \ {a} : /\ artist'[b].to = artist[b].to
                                        /\ artist'[b].frame = artist[b].frame
            /\ \A b \in Artists \ {p} : artist'[b].paper = artist[b].paper
<1> DEFINE frame == artist[a].frame
           left  == artist[a].to \ {p}
           sent  == IF left = {} THEN Nobody ELSE frame
           paper == IF artist[p].pc # "open" \/ frame = "clear" THEN <<>>
                    ELSE Append(artist[p].paper, frame)
           row   == [artist[a] EXCEPT !.to = left, !.frame = sent]
           mid   == [artist EXCEPT ![a] = row]
<1>1. /\ KTypes /\ p \in Artists /\ artist[a] \in ArtistRow /\ artist[p] \in ArtistRow
      /\ frame \in Strokes \cup {"clear"}
  <2>1. KTypes /\ Sending(a)
    BY DEF KInv
  <2> QED BY <2>1 DEF KTypes, ArtistRow, Sending
<1>2. artist' = [artist EXCEPT ![a].to = left,
                   ![a].frame = IF left = {} THEN Nobody ELSE @,
                   ![p].paper = IF artist[p].pc # "open" \/ frame = "clear" THEN <<>>
                                ELSE Append(@, frame)]
  BY DEF SendTo
<1>3. /\ row \in ArtistRow /\ row.to = left /\ row.frame = sent
      /\ row.pc = artist[a].pc /\ row.paper = artist[a].paper
  BY <1>1 DEF ArtistRow
<1>4. /\ mid \in [Artists -> ArtistRow] /\ mid[a] = row
      /\ \A b \in Artists \ {a} : mid[b] = artist[b]
  <2> HIDE DEF row
  <2> QED BY <1>1, <1>3 DEF KTypes
<1>5. mid[p].paper = artist[p].paper /\ mid[p].pc = artist[p].pc
  <2> HIDE DEF mid, row
  <2> QED BY <1>3, <1>4, <1>1
<1>6. artist' = [mid EXCEPT ![p].paper = paper]
  <2>1. artist' = [mid EXCEPT ![p].paper =
                     IF artist[p].pc # "open" \/ frame = "clear" THEN <<>>
                     ELSE Append(@, frame)]
    BY <1>1, <1>2 DEF KTypes, ArtistRow
  <2> HIDE DEF mid
  <2> QED BY <1>5, <2>1
<1>7. paper \in Seq(Strokes)
  <2>1. artist[p].paper \in Seq(Strokes) /\ <<>> \in Seq(Strokes)
    BY <1>1 DEF ArtistRow
  <2> HIDE DEF frame
  <2> QED BY <1>1, <2>1
<1> DEFINE other == [mid[p] EXCEPT !.paper = paper]
<1> HIDE DEF mid, paper, row
<1>8. /\ other \in ArtistRow /\ other.paper = paper /\ other.to = mid[p].to
      /\ other.frame = mid[p].frame /\ other.pc = mid[p].pc
  <2>1. mid[p] \in ArtistRow
    BY <1>1, <1>4
  <2> QED BY <1>7, <2>1 DEF ArtistRow
<1>9. artist' = [mid EXCEPT ![p] = other]
  BY <1>4, <1>6
<1> HIDE DEF other
<1>10. /\ artist' \in [Artists -> ArtistRow] /\ artist'[p] = other
       /\ \A b \in Artists \ {p} : artist'[b] = mid[b]
  BY <1>1, <1>4, <1>8, <1>9
<1>11. artist'[p].paper = IF artist[p].pc # "open" \/ frame = "clear" THEN <<>>
                          ELSE Append(artist[p].paper, frame)
  BY <1>8, <1>10 DEF paper
<1>12. \A b \in Artists : /\ artist'[b].pc = mid[b].pc /\ artist'[b].to = mid[b].to
                          /\ artist'[b].frame = mid[b].frame
                          /\ b # p => artist'[b].paper = mid[b].paper
  BY <1>8, <1>10
<1> HIDE DEF sent, left
<1>13. \A b \in Artists : mid[b].pc = artist[b].pc /\ mid[b].paper = artist[b].paper
  BY <1>3, <1>4
<1>14. artist'[a].to = left /\ artist'[a].frame = sent
  BY <1>3, <1>4, <1>12
<1>15. left # {} => sent = frame
  BY DEF sent
<1>16. \A b \in Artists \ {a} : artist'[b].to = artist[b].to /\ artist'[b].frame = artist[b].frame
  BY <1>4, <1>12
<1>17. \A b \in Artists \ {p} : artist'[b].paper = artist[b].paper
  BY <1>12, <1>13
<1>18. \A b \in Artists : artist'[b].pc = artist[b].pc
  BY <1>12, <1>13
<1>19. artist'[a].to = artist[a].to \ {p}
       /\ (artist[a].to \ {p} # {} => artist'[a].frame = artist[a].frame)
  BY <1>14, <1>15 DEF left
<1> QED BY <1>1, <1>10, <1>11, <1>16, <1>17, <1>18, <1>19


\* A frame reaches its client, and is no longer under way to it.
LEMMA SendStep ==
  ASSUME KInv, NEW a \in Artists, NEW p \in artist[a].to, SendTo(a, p)
  PROVE  KInv'
<1> DEFINE frame == artist[a].frame
           left  == artist[a].to \ {p}
<1>1. /\ p \in Artists /\ frame \in Strokes \cup {"clear"}
      /\ artist' \in [Artists -> ArtistRow]
      /\ artist'[a].to = left /\ (left # {} => artist'[a].frame = frame)
      /\ artist'[p].paper = IF artist[p].pc # "open" \/ frame = "clear" THEN <<>>
                            ELSE Append(artist[p].paper, frame)
      /\ \A b \in Artists : artist'[b].pc = artist[b].pc
      /\ \A b \in Artists \ {a} : artist'[b].to = artist[b].to /\ artist'[b].frame = artist[b].frame
      /\ \A b \in Artists \ {p} : artist'[b].paper = artist[b].paper
  BY SendRow
<1>2. KTypes /\ room' \subseteq room /\ UNCHANGED <<strokes, saver, gallery, mixed>>
  BY DEF KInv, SendTo
<1> HIDE DEF frame
<1>3. KTypes'
  BY <1>1, <1>2 DEF KTypes
<1>4. ASSUME NEW b \in Artists PROVE Sending(b)'
  <2>1. Sending(b) /\ artist[b].to \subseteq Artists
    BY <1>2 DEF KInv, KTypes, ArtistRow
  <2>2. CASE b = a
    BY <1>1, <2>1, <2>2 DEF Sending, frame
  <2>3. CASE b # a
    BY <1>1, <2>1, <2>3 DEF Sending
  <2> QED BY <2>2, <2>3
<1>5. ASSUME NEW q \in Artists, q # p PROVE Painted(q)'
  <2>1. SendersTo(q)' = SendersTo(q)
    BY <1>1, <1>5 DEF SendersTo
  <2>2. \A b \in SendersTo(q) : artist'[b].frame = artist[b].frame
    BY <1>1, <1>5 DEF SendersTo, frame
  <2>3. (ClearDue(q)' <=> ClearDue(q)) /\ InkDue(q)' = InkDue(q)
    BY <2>1, <2>2 DEF ClearDue, InkDue
  <2>4. artist'[q].paper = artist[q].paper /\ artist'[q].pc = artist[q].pc
    BY <1>1, <1>5
  <2>5. ShownTo(q)' = ShownTo(q) /\ OnCanvas' = OnCanvas
    BY <1>2, <2>4 DEF ShownTo, OnCanvas
  <2>6. Painted(q)
    BY DEF KInv
  <2> QED BY <1>2, <2>1, <2>3, <2>4, <2>5, <2>6 DEF Painted
<1>6. Painted(p)'
  <2>1. SendersTo(p)' = SendersTo(p) \ {a} /\ a \in SendersTo(p)
    BY <1>1 DEF SendersTo
  <2>2. \A b \in SendersTo(p)' : artist'[b].frame = artist[b].frame
    BY <1>1, <2>1 DEF SendersTo
  <2>3. Painted(p) /\ artist'[p].pc = artist[p].pc
    BY <1>1 DEF KInv
  <2> SUFFICES ASSUME p \in room', artist'[p].pc = "open", p \notin mixed'
               PROVE  IF ClearDue(p)' THEN strokes' = <<>> /\ InkDue(p)' = {}
                      ELSE /\ ShownTo(p)' \cup InkDue(p)' = OnCanvas'
                           /\ Len(artist'[p].paper) + Cardinality(SendersTo(p))' = Len(strokes')
    BY <1>2, <2>3 DEF Painted
  <2>4. IF ClearDue(p) THEN strokes = <<>> /\ InkDue(p) = {}
        ELSE /\ ShownTo(p) \cup InkDue(p) = OnCanvas
             /\ Len(artist[p].paper) + Cardinality(SendersTo(p)) = Len(strokes)
    BY <1>2, <2>3 DEF Painted
  <2>5. ClearDue(p)' => ClearDue(p)
    BY <2>1, <2>2 DEF ClearDue
  <2>6. InkDue(p)' \subseteq InkDue(p)
    BY <2>1, <2>2 DEF InkDue
  <2>7. IsFiniteSet(SendersTo(p)) /\ Cardinality(SendersTo(p)) \in Nat
    BY SendersFinite
  <2>8. CASE frame = "clear"
    <3>1. ClearDue(p)
      BY <2>1, <2>8 DEF ClearDue, frame
    <3>2. CASE ClearDue(p)'
      BY <1>2, <2>4, <2>6, <3>1, <3>2
    <3>3. CASE ~ClearDue(p)'
      <4>1. SendersTo(p)' = {}
        <5> SUFFICES ASSUME NEW b \in SendersTo(p)' PROVE FALSE
          OBVIOUS
        <5>1. artist[b].frame # "clear" /\ b \in SendersTo(p) /\ b \in Artists
          BY <2>1, <2>2, <3>3 DEF ClearDue, SendersTo
        <5>2. artist[b].frame \in InkDue(p)
          BY <5>1 DEF InkDue
        <5> QED BY <2>4, <3>1, <5>2
      <4>2. artist'[p].paper = <<>>
        BY <1>1, <2>8
      <4>3. InkDue(p)' = {} /\ ShownTo(p)' = {} /\ Cardinality(SendersTo(p))' = 0
        BY <4>1, <4>2, FS_EmptySet DEF InkDue, ShownTo
      <4>4. strokes' = <<>> /\ OnCanvas' = {}
        BY <1>2, <2>4, <3>1 DEF OnCanvas
      <4>5. Len(<<>>) = 0
        OBVIOUS
      <4> QED BY <3>3, <4>2, <4>3, <4>4, <4>5
    <3> QED BY <3>2, <3>3
  <2>9. CASE frame # "clear"
    <3>1. frame \in Strokes /\ frame \in InkDue(p)
      BY <1>1, <2>1, <2>9 DEF InkDue, frame
    <3>2. ~ClearDue(p) /\ ~ClearDue(p)'
      BY <2>4, <2>5, <3>1
    <3>3. artist[p].paper \in Seq(Strokes) /\ artist'[p].paper = Append(artist[p].paper, frame)
      BY <1>1, <1>2, <2>3, <2>9 DEF KTypes, ArtistRow
    <3>4. ShownTo(p)' = ShownTo(p) \cup {frame}
          /\ Len(artist'[p].paper) = Len(artist[p].paper) + 1
      <4> DEFINE q == artist[p].paper
                 r == Append(q, frame)
      <4>1. {r[n] : n \in DOMAIN r} = {q[n] : n \in DOMAIN q} \cup {frame} /\ Len(r) = Len(q) + 1
        BY <3>1, <3>3, OneMore
      <4>2. artist'[p].paper = r
        BY <3>3
      <4> HIDE DEF q, r
      <4>3. ShownTo(p)' = {r[n] : n \in DOMAIN r} /\ Len(artist'[p].paper) = Len(r)
        BY <4>2 DEF ShownTo
      <4>4. ShownTo(p) = {q[n] : n \in DOMAIN q}
        BY DEF ShownTo, q
      <4> QED BY <4>1, <4>3, <4>4 DEF q
    <3>5. InkDue(p) = InkDue(p)' \cup {frame}
      <4>1. InkDue(p) = {artist[b].frame : b \in SendersTo(p)' \cup {a}} \ {"clear"}
        BY <2>1 DEF InkDue
      <4> QED BY <2>2, <2>9, <4>1 DEF InkDue, frame
    <3>6. ShownTo(p)' \cup InkDue(p)' = OnCanvas'
      <4>1. OnCanvas' = OnCanvas
        BY <1>2 DEF OnCanvas
      <4> QED BY <2>4, <3>2, <3>4, <3>5, <4>1
    <3>7. Len(artist'[p].paper) + Cardinality(SendersTo(p))' = Len(strokes')
      <4>1. Cardinality(SendersTo(p))' = Cardinality(SendersTo(p)) - 1
        BY <2>1, <2>7, FS_RemoveElement
      <4>2. Len(artist[p].paper) \in Nat /\ Len(artist'[p].paper) = Len(artist[p].paper) + 1
        BY <3>3, <3>4
      <4>3. Len(artist[p].paper) + Cardinality(SendersTo(p)) = Len(strokes')
            /\ Cardinality(SendersTo(p)) \in Nat
        BY <1>2, <2>4, <2>7, <3>2
      <4> DEFINE shown == Len(artist[p].paper)
                 due   == Cardinality(SendersTo(p))
      <4>4. /\ Len(artist'[p].paper) = shown + 1 /\ Cardinality(SendersTo(p))' = due - 1
            /\ shown + due = Len(strokes') /\ shown \in Nat /\ due \in Nat
        BY <4>1, <4>2, <4>3
      <4> HIDE DEF shown, due
      <4> QED BY <4>4
    <3> QED BY <3>2, <3>6, <3>7
  <2> QED BY <2>8, <2>9
<1> QED BY <1>3, <1>4, <1>5, <1>6 DEF KInv


\* A step of a handler that leaves what it sends and what clients show.
LEMMA HandlerStep ==
  ASSUME KInv, NEW a \in Artists, NEW row \in ArtistRow, row.pc \in {"gone", "left"},
         row.to = artist[a].to, row.frame = artist[a].frame,
         artist' = [artist EXCEPT ![a] = row],
         room' \subseteq room, row.pc = "left" => a \notin room',
         UNCHANGED <<strokes, saver, gallery, mixed>>
  PROVE  KInv'
<1>1. KTypes
  BY DEF KInv
<1>2. artist'[a] = row /\ \A b \in Artists \ {a} : artist'[b] = artist[b]
  BY <1>1 DEF KTypes
<1>3. KTypes'
  BY <1>1 DEF KTypes
<1>4. ASSUME NEW b \in Artists PROVE Sending(b)'
  <2>1. Sending(b) /\ artist[b].to \subseteq Artists
    BY <1>1 DEF KInv, KTypes, ArtistRow
  <2>2. /\ artist'[b].to = artist[b].to /\ artist'[b].frame = artist[b].frame
        /\ \A p \in Artists : artist[p].pc # "away" => artist'[p].pc # "away"
    BY <1>2
  <2> QED BY <2>1, <2>2 DEF Sending
<1>5. \A p : SendersTo(p)' = SendersTo(p) /\ (ClearDue(p)' <=> ClearDue(p)) /\ InkDue(p)' = InkDue(p)
  BY <1>2, SameDues
<1>6. ASSUME NEW p \in Artists PROVE Painted(p)'
  <2>1. CASE p = a
    BY <1>2, <2>1 DEF Painted
  <2>2. CASE p # a
    <3>1. artist'[p] = artist[p] /\ (p \in room' => p \in room)
      BY <1>2, <2>2
    <3>2. ShownTo(p)' = ShownTo(p) /\ OnCanvas' = OnCanvas
      BY <3>1 DEF ShownTo, OnCanvas
    <3>3. Painted(p)
      BY DEF KInv
    <3> QED BY <1>5, <3>1, <3>2, <3>3 DEF Painted
  <2> QED BY <2>1, <2>2
<1> QED BY <1>3, <1>4, <1>6 DEF KInv

\* Clients go away, and their handlers leave the room.
LEMMA AwaySteps ==
  ASSUME KInv, NEW a \in Artists, Vanish(a) \/ LeaveRoom(a)
  PROVE  KInv'
<1>1. KTypes /\ artist[a] \in ArtistRow /\ <<>> \in Seq(Strokes)
  BY DEF KInv, KTypes
<1>2. ASSUME Vanish(a) PROVE KInv'
  <2> DEFINE row == [artist[a] EXCEPT !.pc = "gone", !.paper = <<>>]
  <2>1. /\ row \in ArtistRow /\ row.pc = "gone"
        /\ row.to = artist[a].to /\ row.frame = artist[a].frame
    BY <1>1 DEF ArtistRow
  <2>2. artist' = [artist EXCEPT ![a] = row]
        /\ room' = room /\ UNCHANGED <<strokes, saver, gallery, mixed>>
    BY <1>1, <1>2 DEF Vanish, KTypes
  <2> HIDE DEF row
  <2>3. row.pc \in {"gone", "left"} /\ row.pc # "left" /\ room' \subseteq room
    BY <2>1, <2>2
  <2> QED BY <2>1, <2>2, <2>3, HandlerStep
<1>3. ASSUME LeaveRoom(a) PROVE KInv'
  <2> DEFINE row == [artist[a] EXCEPT !.pc = "left"]
  <2>1. /\ row \in ArtistRow /\ row.pc = "left"
        /\ row.to = artist[a].to /\ row.frame = artist[a].frame
    BY <1>1 DEF ArtistRow
  <2>2. artist' = [artist EXCEPT ![a] = row]
        /\ room' = room \ {a} /\ UNCHANGED <<strokes, saver, gallery, mixed>>
    BY <1>1, <1>3 DEF LeaveRoom, KTypes
  <2> HIDE DEF row
  <2>3. row.pc \in {"gone", "left"} /\ room' \subseteq room /\ a \notin room'
    BY <2>1, <2>2
  <2> QED BY <2>1, <2>2, <2>3, HandlerStep
<1> QED BY <1>2, <1>3

\* The canvas is not touched by a request to save.
LEMMA SavingStep ==
  ASSUME KInv, NEW s \in Savers, NEW row \in SaverRow,
         row.pc \in {"upload", "attach", "message"} => row.svg # <<>>,
         saver' = [saver EXCEPT ![s] = row],
         \A d \in gallery' : d.svg # <<>> /\ d.message \in 0..MaxStrokes,
         UNCHANGED <<strokes, room, artist, mixed>>
  PROVE  KInv'
<1>1. KTypes
  BY DEF KInv
<1>2. KTypes'
  BY <1>1 DEF KTypes
<1>3. \A p : SendersTo(p)' = SendersTo(p) /\ (ClearDue(p)' <=> ClearDue(p)) /\ InkDue(p)' = InkDue(p)
  BY SameDues
<1>4. \A p : ShownTo(p)' = ShownTo(p) /\ OnCanvas' = OnCanvas
  BY DEF ShownTo, OnCanvas
<1>5. ASSUME NEW p \in Artists PROVE Sending(p)' /\ Painted(p)'
  <2>1. Sending(p) /\ Painted(p)
    BY DEF KInv
  <2>2. Sending(p)'
    BY <2>1 DEF Sending
  <2>3. Painted(p)'
    BY <1>3, <1>4, <2>1 DEF Painted
  <2> QED BY <2>2, <2>3
<1> QED BY <1>2, <1>5 DEF KInv

\* The steps of a request to save.
LEMMA SaverSteps ==
  ASSUME KInv, NEW s \in Savers,
         BeginSave(s) \/ UploadSvg(s) \/ AttachDrawing(s) \/ CommitDrawing(s)
  PROVE  KInv'
<1>1. /\ KTypes /\ saver[s] \in SaverRow /\ strokes \in Seq(Strokes)
      /\ Len(strokes) \in 0..MaxStrokes /\ Len(strokes) \in Nat
      /\ saver[s].pc \in {"upload", "attach", "message"} => saver[s].svg # <<>>
  <2>1. KTypes
    BY DEF KInv
  <2>2. strokes \in Seq(Strokes) /\ Len(strokes) <= MaxStrokes
    BY <2>1 DEF KTypes
  <2>3. Len(strokes) \in Nat
    BY <2>2
  <2>4. Len(strokes) \in 0..MaxStrokes
    BY <2>2, <2>3, CanvasAssumption
  <2> QED BY <2>1, <2>2, <2>3, <2>4 DEF KTypes
<1> DEFINE over == [NoSaver EXCEPT !.pc = "done"]
<1>2. over \in SaverRow /\ over.pc = "done"
  <2>1. NoSaver \in SaverRow /\ NoSaver = [pc |-> "idle", svg |-> <<>>, counted |-> Nobody]
    BY DEF NoSaver, SaverRow
  <2> QED BY <2>1 DEF SaverRow
<1> HIDE DEF over
<1>3. SaveEnds(s) => saver' = [saver EXCEPT ![s] = over]
  BY DEF SaveEnds, over
<1>4. \A d \in gallery : d.svg # <<>> /\ d.message \in 0..MaxStrokes
  BY <1>1 DEF KTypes
<1>5. KeepDrawing(s) /\ saver[s].pc \in {"attach", "message"} =>
        \A d \in gallery' : d.svg # <<>> /\ d.message \in 0..MaxStrokes
  BY <1>1, <1>4 DEF KeepDrawing
<1>6. ASSUME BeginSave(s) PROVE KInv'
  <2> DEFINE row == [saver[s] EXCEPT !.pc = "upload", !.svg = strokes]
  <2>1. row \in SaverRow /\ row.svg # <<>>
    BY <1>1, <1>6 DEF SaverRow, BeginSave
  <2>2. saver' = [saver EXCEPT ![s] = row] /\ UNCHANGED <<strokes, room, artist, mixed, gallery>>
    BY <1>1, <1>6 DEF BeginSave, KTypes
  <2> HIDE DEF row
  <2> QED BY <1>4, <2>1, <2>2, SavingStep
<1>7. ASSUME UploadSvg(s) PROVE KInv'
  <2> DEFINE row == [saver[s] EXCEPT !.pc = "attach"]
  <2>1. row \in SaverRow /\ row.svg # <<>>
    BY <1>1, <1>7 DEF SaverRow, UploadSvg
  <2>2. saver' = [saver EXCEPT ![s] = row] \/ saver' = [saver EXCEPT ![s] = over]
    BY <1>1, <1>3, <1>7 DEF UploadSvg, KTypes
  <2>3. UNCHANGED <<strokes, room, artist, mixed, gallery>>
    BY <1>7 DEF UploadSvg
  <2> HIDE DEF row
  <2> QED BY <1>2, <1>4, <2>1, <2>2, <2>3, SavingStep
<1>8. ASSUME AttachDrawing(s) PROVE KInv'
  <2> DEFINE row == [saver[s] EXCEPT !.pc = "message", !.counted = Len(strokes)]
  <2>1. row \in SaverRow /\ row.svg # <<>>
    BY <1>1, <1>8 DEF SaverRow, AttachDrawing
  <2>2. \/ saver' = [saver EXCEPT ![s] = row] /\ gallery' = gallery
        \/ saver' = [saver EXCEPT ![s] = over] /\ KeepDrawing(s) /\ saver[s].pc = "attach"
    BY <1>1, <1>3, <1>8 DEF AttachDrawing, KTypes
  <2>3. UNCHANGED <<strokes, room, artist, mixed>>
    BY <1>8 DEF AttachDrawing
  <2> HIDE DEF row
  <2> QED BY <1>2, <1>4, <1>5, <2>1, <2>2, <2>3, SavingStep
<1>9. ASSUME CommitDrawing(s) PROVE KInv'
  <2>1. /\ saver' = [saver EXCEPT ![s] = over] /\ KeepDrawing(s) /\ saver[s].pc = "message"
        /\ UNCHANGED <<strokes, room, artist, mixed>>
    BY <1>3, <1>9 DEF CommitDrawing
  <2> QED BY <1>2, <1>5, <2>1, SavingStep
<1> QED BY <1>6, <1>7, <1>8, <1>9

\* The process stops.
LEMMA RestartStep == ASSUME KInv, Restart PROVE KInv'
<1>1. KTypes /\ strokes' = <<>> /\ room' = {} /\ mixed' = {} /\ gallery' = gallery
  BY DEF KInv, Restart
<1>2. /\ NoArtist \in ArtistRow /\ NoArtist.to = {}
      /\ [NoArtist EXCEPT !.pc = "left"] \in ArtistRow /\ [NoArtist EXCEPT !.pc = "left"].to = {}
  <2>1. <<>> \in Seq(Strokes)
    OBVIOUS
  <2>2. NoArtist \in ArtistRow /\ NoArtist.to = {}
    BY <2>1 DEF NoArtist, ArtistRow
  <2> QED BY <2>2 DEF ArtistRow
<1>3. NoSaver \in SaverRow /\ NoSaver.pc = "idle" /\ [NoSaver EXCEPT !.pc = "done"] \in SaverRow
      /\ [NoSaver EXCEPT !.pc = "done"].pc = "done"
  <2>1. NoSaver \in SaverRow /\ NoSaver.pc = "idle"
    BY DEF NoSaver, SaverRow
  <2> QED BY <2>1 DEF SaverRow
<1>4. artist' \in [Artists -> ArtistRow] /\ \A a \in Artists : artist'[a].to = {}
  <2>1. artist' = [a \in Artists |-> IF artist[a].pc = "away" THEN NoArtist
                                     ELSE [NoArtist EXCEPT !.pc = "left"]]
    BY DEF Restart
  <2> QED BY <1>2, <2>1
<1>5. saver' \in [Savers -> SaverRow] /\ \A s \in Savers : saver'[s].pc \in {"idle", "done"}
  <2>1. saver' = [s \in Savers |-> IF saver[s].pc = "idle" THEN NoSaver
                                   ELSE [NoSaver EXCEPT !.pc = "done"]]
    BY DEF Restart
  <2> QED BY <1>3, <2>1
<1>6. KTypes'
  <2>1. <<>> \in Seq(Strokes) /\ Len(<<>>) = 0
    OBVIOUS
  <2> QED BY <1>1, <1>4, <1>5, <2>1, CanvasAssumption DEF KTypes
<1> QED BY <1>1, <1>4, <1>6 DEF KInv, Sending, Painted

\* Every step of the canvas keeps the invariant.
LEMMA KInvNext == KInv /\ [KNext]_kvars => KInv'
<1> SUFFICES ASSUME KInv, [KNext]_kvars PROVE KInv'
  OBVIOUS
<1>1. CASE UNCHANGED kvars
  <2>1. UNCHANGED <<strokes, room, artist, saver, gallery, mixed>>
    BY <1>1 DEF kvars
  <2>2. KTypes'
    BY <2>1 DEF KInv, KTypes
  <2>3. \A p : SendersTo(p)' = SendersTo(p) /\ (ClearDue(p)' <=> ClearDue(p)) /\ InkDue(p)' = InkDue(p)
    BY <2>1, SameDues
  <2>4. \A p : ShownTo(p)' = ShownTo(p) /\ OnCanvas' = OnCanvas
    BY <2>1 DEF ShownTo, OnCanvas
  <2>5. ASSUME NEW p \in Artists PROVE Sending(p)' /\ Painted(p)'
    <3>1. Sending(p) /\ Painted(p)
      BY DEF KInv
    <3>2. Sending(p)'
      BY <2>1, <3>1 DEF Sending
    <3>3. Painted(p)'
      BY <2>1, <2>3, <2>4, <3>1 DEF Painted
    <3> QED BY <3>2, <3>3
  <2> QED BY <2>2, <2>5 DEF KInv
<1>2. ASSUME NEW a \in Artists, NEW p \in Artists, SendTo(a, p) PROVE KInv'
  <2>1. p \in artist[a].to
    BY <1>2 DEF SendTo
  <2> QED BY <1>2, <2>1, SendStep
<1> QED BY <1>1, <1>2, RestartStep, EnterRoomStep, ClearStep, AwaySteps, AddStrokeStep, SaverSteps
        DEF KNext

\* The invariant of the canvas.
THEOREM KInvariant == KSpec => []KInv
BY KInitInv, KInvNext, PTL DEF KSpec

\* What is sent and what is still to be sent to those who entered make up the
\* canvas, unless a clear and a stroke were under way at once.
THEOREM CanvasSound == KSpec => []CanvasIsSound
<1>1. KInv => CanvasIsSound
  <2> SUFFICES ASSUME KInv, NEW p \in room
               PROVE  /\ artist[p].pc \in {"open", "gone"}
                      /\ artist[p].pc = "open" /\ p \notin mixed =>
                           IF ClearDue(p) THEN strokes = <<>>
                           ELSE /\ ShownTo(p) \cup InkDue(p) = OnCanvas
                                /\ Len(artist[p].paper) + Cardinality(SendersTo(p)) = Len(strokes)
    BY DEF CanvasIsSound
  <2>1. Painted(p)
    BY DEF KInv, KTypes
  <2> QED BY <2>1 DEF Painted
<1> QED BY <1>1, KInvariant, PTL

-----------------------------------------------------------------------------
(* ThreadStream: StreamIsSound.                                            *)

\* A connection; its queue may hold the sentinel.
SockRow == [pc : {"closed", "accepting", "greeting", "live", "raised", "ending", "ended"},
            hello : Nat, opened : Nat, since : Nat, queue : Seq(Nat), got : Seq(Nat)]

\* The types the proof keeps.
STypes ==
  /\ transport \in {"memory", "redis"} /\ changes \in 0..MaxChanges
  /\ unsent \subseteq 1..changes /\ refused \subseteq 1..changes
  /\ log \in Seq(Nat \ {0}) /\ bucket \subseteq Sockets /\ starting \subseteq Sockets
  /\ sock \in [Sockets -> SockRow]

\* What the router took are changes, and every change is still to be announced,
\* was refused or was taken.
Told ==
  /\ \A i \in 1..Len(log) : log[i] <= changes
  /\ \A n \in 1..changes : n \in unsent \cup refused \/ \E i \in 1..Len(log) : log[i] = n

\* What a connection's row has to satisfy, given whether its queue is registered
\* and whether it waits for Redis' reader.  It knows a state of the thread and of
\* the log that there was, and was greeted with all that had been announced; a
\* registered queue has every event since, and no sentinel; one that waits is
\* new; any other is new or ends with the sentinel, the former only before the
\* connection subscribes, in memory.
SRowInv(row, on, asked) ==
  /\ row \in SockRow /\ row.hello <= changes
  /\ row.opened <= Len(log) /\ row.since <= Len(log)
  /\ \A i \in 1..row.opened : log[i] <= row.hello
  /\ on => /\ row.pc \in {"greeting", "live", "raised", "ending", "ended"}
           /\ transport = "memory" => row.pc # "ended"
           /\ row.pc # "ended" => /\ row.queue \in Seq(Nat \ {0})
                                  /\ row.got \o row.queue = SubSeq(log, row.since + 1, Len(log))
  /\ asked => /\ ~on /\ transport # "memory" /\ row.pc \notin {"closed", "accepting"}
              /\ row.pc # "ended" => row.queue = <<>> /\ row.got = <<>>
  /\ ~on /\ row.pc \notin {"ending", "ended"} =>
       /\ IF row.queue = <<>> THEN row.got = <<>> ELSE row.queue[Len(row.queue)] = End
       /\ row.pc \in {"closed", "accepting"} => row.queue = <<>>
       /\ row.pc \in {"greeting", "live"} /\ transport = "memory" => row.queue # <<>>

\* The same of a connection.
SockSound(s) == SRowInv(sock[s], s \in bucket, s \in starting)

\* The inductive invariant.
SInv == STypes /\ Told /\ \A s \in Sockets : SockSound(s)

\* Concatenations can be regrouped.
LEMMA Regrouped ==
  ASSUME NEW s \in Seq(Nat), NEW t \in Seq(Nat), NEW u \in Seq(Nat)
  PROVE  (s \o t) \o u = s \o (t \o u)
OBVIOUS

\* What is announced is received by those that are registered.
LEMMA OneMoreEvent ==
  ASSUME NEW got \in Seq(Nat), NEW queue \in Seq(Nat), NEW all \in Seq(Nat), NEW n \in Nat,
         NEW since \in 0..Len(all), got \o queue = SubSeq(all, since + 1, Len(all))
  PROVE  got \o Append(queue, n) = SubSeq(Append(all, n), since + 1, Len(Append(all, n)))
<1> DEFINE one == <<n>>
           new == Append(all, n)
           old == SubSeq(all, since + 1, Len(all))
<1>1. one \in Seq(Nat) /\ Len(all) \in Nat /\ since \in Nat /\ since <= Len(all) /\ Len(one) = 1
  OBVIOUS
<1>2. Append(queue, n) = queue \o one /\ new = all \o one
  BY AppendIsConcat
<1>3. new \in Seq(Nat) /\ Len(new) = Len(all) + 1 /\ new[Len(all) + 1] = n
  BY AppendProperties
<1> HIDE DEF one, new, old
<1>4. got \o (queue \o one) = old \o one
  <2>1. (got \o queue) \o one = got \o (queue \o one)
    <3>1. one \in Seq(Nat)
      BY <1>1
    <3> QED BY <3>1, Regrouped
  <2>2. got \o queue = old
    BY DEF old
  <2> QED BY <2>1, <2>2
<1>5. SubSeq(new, since + 1, Len(all)) = old
  <2>1. CASE since = Len(all)
    <3>1. SubSeq(new, since + 1, Len(all)) = <<>>
      BY <1>1, <2>1, SubSeqEmpty
    <3>2. SubSeq(all, since + 1, Len(all)) = <<>>
      BY <1>1, <2>1, SubSeqEmpty
    <3> QED BY <3>1, <3>2 DEF old
  <2>2. CASE since < Len(all)
    <3>1. since + 1 \in 1..Len(all) /\ Len(all) \in 1..Len(all)
      BY <1>1, <2>2
    <3>2. SubSeq(all \o one, since + 1, Len(all)) = SubSeq(all, since + 1, Len(all))
      BY <1>1, <3>1, SubSeqOfConcat1
    <3> QED BY <1>2, <3>2 DEF old
  <2> QED BY <1>1, <2>1, <2>2
<1>6. SubSeq(new, since + 1, Len(all) + 1) = SubSeq(new, since + 1, Len(all)) \o <<new[Len(all) + 1]>>
  <2> DEFINE first == since + 1
             last  == Len(all) + 1
  <2>1. first \in 1..Len(new) /\ last \in first..Len(new)
    BY <1>1, <1>3
  <2>2. last - 1 = Len(all)
    BY <1>1
  <2> HIDE DEF first, last
  <2>3. SubSeq(new, first, last) = SubSeq(new, first, last - 1) \o <<new[last]>>
    BY <1>3, <2>1, SubSeqRecursiveSecond
  <2>4. SubSeq(new, first, last) = SubSeq(new, first, Len(all)) \o <<new[last]>>
    BY <2>2, <2>3
  <2> QED BY <2>4 DEF first, last
<1>7. SubSeq(new, since + 1, Len(new)) = old \o one
  BY <1>3, <1>5, <1>6 DEF one
<1> QED BY <1>2, <1>4, <1>7 DEF new

\* What is forwarded has been received before.
LEMMA OneForwarded ==
  ASSUME NEW got \in Seq(Nat), NEW queue \in Seq(Nat), queue # <<>>
  PROVE  Append(got, Head(queue)) \o Tail(queue) = got \o queue
<1>1. Len(queue) \in Nat /\ Len(queue) # 0
  BY EmptySeq
<1>2. Head(queue) = queue[1] /\ Head(queue) \in Nat /\ Tail(queue) \in Seq(Nat)
  BY HeadTailProperties
<1>3. Tail(queue) = SubSeq(queue, 2, Len(queue)) /\ queue = SubSeq(queue, 1, Len(queue))
  BY TailIsSubSeq, SubSeqFull
<1>4. SubSeq(queue, 1, Len(queue)) = <<queue[1]>> \o SubSeq(queue, 1 + 1, Len(queue))
  <2>1. 1 \in 1..Len(queue) /\ Len(queue) \in 1..Len(queue)
    BY <1>1
  <2> QED BY <2>1, SubSeqRecursiveFirst
<1>5. queue = <<Head(queue)>> \o Tail(queue)
  BY <1>2, <1>3, <1>4
<1>6. Append(got, Head(queue)) = got \o <<Head(queue)>> /\ <<Head(queue)>> \in Seq(Nat)
  BY <1>2, AppendIsConcat
<1>7. (got \o <<Head(queue)>>) \o Tail(queue) = got \o (<<Head(queue)>> \o Tail(queue))
  BY <1>2, <1>6, ConcatAssociative
<1> QED BY <1>5, <1>6, <1>7


\* Told survives a step that leaves the thread and its events alone, and so
\* does what is said of a connection whose row and places stay.
LEMMA TheRestStays ==
  ASSUME Told, UNCHANGED <<transport, changes, unsent, refused, log>>
  PROVE  /\ Told'
         /\ \A r \in Sockets : SockSound(r) /\ sock'[r] = sock[r] /\ (r \in bucket' <=> r \in bucket)
                               /\ (r \in starting' <=> r \in starting) => SockSound(r)'
<1>1. Told'
  BY DEF Told
<1>2. ASSUME NEW r \in Sockets, SockSound(r), sock'[r] = sock[r], r \in bucket' <=> r \in bucket,
             r \in starting' <=> r \in starting
      PROVE  SockSound(r)'
  BY <1>2 DEF SockSound, SRowInv
<1> QED BY <1>1, <1>2

\* A step of one connection that leaves the thread and its events alone.
LEMMA OneSocketMoves ==
  ASSUME SInv, NEW s \in Sockets, NEW row, sock' = [sock EXCEPT ![s] = row],
         UNCHANGED <<transport, changes, unsent, refused, log>>,
         bucket' \subseteq Sockets, \A r \in Sockets \ {s} : r \in bucket' <=> r \in bucket,
         starting' \subseteq Sockets, \A r \in Sockets \ {s} : r \in starting' <=> r \in starting,
         SRowInv(row, s \in bucket', s \in starting')
  PROVE  SInv'
<1>1. STypes /\ Told /\ \A r \in Sockets : SockSound(r)
  BY DEF SInv
<1>2. row \in SockRow
  BY DEF SRowInv
<1>3. STypes'
  BY <1>1, <1>2 DEF STypes
<1>4. ASSUME NEW r \in Sockets PROVE SockSound(r)'
  <2>1. CASE r = s
    <3>1. sock'[r] = row
      BY <1>1, <2>1 DEF STypes
    <3> QED BY <2>1, <3>1 DEF SockSound, SRowInv
  <2>2. CASE r # s
    <3>1. sock'[r] = sock[r] /\ (r \in bucket' <=> r \in bucket) /\ (r \in starting' <=> r \in starting)
      BY <1>1, <2>2 DEF STypes
    <3> QED BY <1>1, <3>1, TheRestStays
  <2> QED BY <2>1, <2>2
<1>5. Told'
  BY <1>1, TheRestStays
<1> QED BY <1>3, <1>4, <1>5 DEF SInv


\* The first state.
LEMMA SInvInit == SInit => SInv
<1> SUFFICES ASSUME SInit PROVE SInv
  OBVIOUS
<1>1. NoSocket \in SockRow /\ NoSocket.queue = <<>> /\ NoSocket.got = <<>>
      /\ NoSocket.hello = 0 /\ NoSocket.opened = 0 /\ NoSocket.since = 0 /\ NoSocket.pc = "closed"
  BY DEF NoSocket, SockRow
<1>2. STypes
  BY <1>1, StreamAssumption DEF SInit, STypes
<1>3. Len(log) = 0 /\ changes = 0
  BY DEF SInit
<1>4. Told
  BY <1>3 DEF Told
<1>5. ASSUME NEW s \in Sockets PROVE SockSound(s)
  <2>1. sock[s] = NoSocket /\ s \notin bucket /\ s \notin starting
    BY DEF SInit
  <2>2. /\ NoSocket.hello <= changes /\ NoSocket.since <= Len(log) /\ NoSocket.opened <= Len(log)
        /\ \A i \in 1..NoSocket.opened : log[i] <= NoSocket.hello
    BY <1>1, <1>3
  <2>3. SRowInv(NoSocket, FALSE, FALSE)
    BY <1>1, <2>2 DEF SRowInv
  <2>4. (s \in bucket) = FALSE /\ (s \in starting) = FALSE
    BY <2>1
  <2> QED BY <2>1, <2>3, <2>4 DEF SockSound
<1> QED BY <1>2, <1>4, <1>5 DEF SInv

\* A change of the thread is not announced yet.
LEMMA SInvChange == SInv /\ Change => SInv'
<1> SUFFICES ASSUME SInv, Change PROVE SInv'
  OBVIOUS
<1>1. STypes /\ Told /\ \A s \in Sockets : SockSound(s)
  BY DEF SInv
<1>2. STypes'
  BY <1>1, StreamAssumption DEF STypes, Change
<1>3. changes \in Nat /\ changes' = changes + 1 /\ unsent' = unsent \cup {changes + 1}
      /\ UNCHANGED <<transport, refused, log, bucket, starting, sock>>
      /\ log \in Seq(Nat \ {0}) /\ Len(log) \in Nat
  BY <1>1, StreamAssumption DEF STypes, Change
<1>4. \A i \in 1..Len(log) : log[i] \in Nat
  BY <1>3
<1>5. Told'
  <2>1. \A i \in 1..Len(log') : log'[i] <= changes'
    BY <1>1, <1>3, <1>4 DEF Told
  <2>2. ASSUME NEW n \in 1..changes' PROVE n \in unsent' \cup refused' \/ \E i \in 1..Len(log') : log'[i] = n
    <3>1. n = changes + 1 \/ n \in 1..changes
      BY <1>3
    <3> QED BY <1>1, <1>3, <3>1 DEF Told
  <2> QED BY <2>1, <2>2 DEF Told
<1>6. ASSUME NEW s \in Sockets PROVE SockSound(s)'
  <2>1. SRowInv(sock[s], s \in bucket, s \in starting)
    BY <1>1 DEF SockSound
  <2>2. sock[s].hello \in Nat /\ sock[s].hello <= changes
    BY <2>1 DEF SRowInv, SockRow
  <2>3. sock[s].hello <= changes'
    BY <1>3, <2>2
  <2>4. sock'[s] = sock[s] /\ (s \in bucket' <=> s \in bucket) /\ (s \in starting' <=> s \in starting)
        /\ log' = log /\ transport' = transport
    BY <1>3
  <2> HIDE <1>3
  <2> QED BY <2>1, <2>3, <2>4 DEF SRowInv, SockSound
<1> QED BY <1>2, <1>5, <1>6 DEF SInv

\* An event reaches every registered queue, or is refused and reaches none.
LEMMA SInvPublish ==
  ASSUME SInv, NEW n \in unsent, Publish(n)
  PROVE  SInv'
<1>1. STypes /\ Told /\ \A s \in Sockets : SockSound(s)
  BY DEF SInv
<1>2. n \in Nat \ {0} /\ n \in 1..changes /\ log \in Seq(Nat \ {0}) /\ log \in Seq(Nat)
      /\ sock \in [Sockets -> SockRow] /\ changes \in Nat /\ Len(log) \in Nat
  BY <1>1, StreamAssumption DEF STypes
<1>3. UNCHANGED <<transport, changes, bucket, starting>> /\ unsent' = unsent \ {n}
  BY DEF Publish
<1>4. CASE refused' = refused \cup {n} /\ UNCHANGED <<log, sock>>
  <2>1. STypes'
    BY <1>1, <1>2, <1>3, <1>4 DEF STypes
  <2>2. Told'
    BY <1>1, <1>3, <1>4 DEF Told
  <2>3. ASSUME NEW s \in Sockets PROVE SockSound(s)'
    <3>1. SRowInv(sock[s], s \in bucket, s \in starting)
      BY <1>1 DEF SockSound
    <3> QED BY <1>3, <1>4, <3>1 DEF SRowInv, SockSound
  <2> QED BY <2>1, <2>2, <2>3 DEF SInv
<1>5. CASE /\ log' = Append(log, n) /\ refused' = refused
           /\ sock' = [s \in Sockets |-> IF s \in bucket
                          THEN [sock[s] EXCEPT !.queue = Append(@, n)] ELSE sock[s]]
  <2>1. /\ Len(log) \in Nat /\ Len(log') = Len(log) + 1 /\ log' \in Seq(Nat \ {0})
        /\ \A i \in 1..Len(log) : log'[i] = log[i]
        /\ log'[Len(log) + 1] = n
    BY <1>2, <1>5
  <2>2. Told'
    <3>1. ASSUME NEW i \in 1..Len(log') PROVE log'[i] <= changes'
      <4>1. i \in 1..Len(log) \/ i = Len(log) + 1
        BY <2>1
      <4>2. CASE i \in 1..Len(log)
        <5>1. log[i] <= changes
          BY <1>1, <4>2 DEF Told
        <5> QED BY <1>3, <2>1, <4>2, <5>1
      <4>3. CASE i = Len(log) + 1
        <5>1. n <= changes
          BY <1>2
        <5> QED BY <1>3, <2>1, <4>3, <5>1
      <4> QED BY <4>1, <4>2, <4>3
    <3>2. ASSUME NEW k \in 1..changes'
          PROVE  k \in unsent' \cup refused' \/ \E i \in 1..Len(log') : log'[i] = k
      <4>1. k = n \/ k \in unsent' \cup refused' \/ \E i \in 1..Len(log) : log[i] = k
        BY <1>1, <1>3, <1>5 DEF Told
      <4>2. CASE k = n
        <5>1. Len(log) + 1 \in 1..Len(log')
          BY <2>1
        <5> QED BY <2>1, <4>2, <5>1
      <4>3. ASSUME NEW i \in 1..Len(log), log[i] = k PROVE \E j \in 1..Len(log') : log'[j] = k
        <5>1. i \in 1..Len(log')
          BY <2>1
        <5> QED BY <2>1, <4>3, <5>1
      <4> QED BY <4>1, <4>2, <4>3
    <3> QED BY <3>1, <3>2 DEF Told
  <2>3. ASSUME NEW s \in Sockets PROVE sock'[s] \in SockRow /\ SockSound(s)'
    <3>1. SRowInv(sock[s], s \in bucket, s \in starting) /\ sock[s] \in SockRow
      BY <1>1, <1>2 DEF SockSound
    <3>2. sock[s].since \in Nat /\ sock[s].opened \in Nat /\ sock[s].queue \in Seq(Nat)
          /\ sock[s].got \in Seq(Nat)
      BY <3>1 DEF SockRow
    <3>3. /\ sock[s].since <= Len(log') /\ sock[s].opened <= Len(log')
          /\ \A i \in 1..sock[s].opened : log'[i] <= sock[s].hello
      <4>1. sock[s].since <= Len(log) /\ sock[s].opened <= Len(log)
            /\ \A i \in 1..sock[s].opened : log[i] <= sock[s].hello
        BY <3>1 DEF SRowInv
      <4>2. \A i \in 1..sock[s].opened : i \in 1..Len(log)
        BY <2>1, <3>2, <4>1
      <4>3. sock[s].since <= Len(log') /\ sock[s].opened <= Len(log')
        BY <2>1, <3>2, <4>1
      <4>4. ASSUME NEW i \in 1..sock[s].opened PROVE log'[i] <= sock[s].hello
        <5>1. i \in 1..Len(log)
          BY <4>2
        <5>2. log'[i] = log[i]
          BY <2>1, <5>1
        <5> QED BY <4>1, <5>2
      <4> QED BY <4>3, <4>4
    <3>4. CASE s \notin bucket
      <4>1. sock'[s] = sock[s]
        BY <1>5, <3>4
      <4> QED BY <1>3, <3>1, <3>3, <3>4, <4>1 DEF SRowInv, SockSound
    <3>5. CASE s \in bucket
      <4> DEFINE more == Append(sock[s].queue, n)
                 u    == [sock[s] EXCEPT !.queue = more]
      <4>1. sock'[s] = u
        BY <1>5, <3>5
      <4>2. more \in Seq(Nat) /\ (sock[s].queue \in Seq(Nat \ {0}) => more \in Seq(Nat \ {0}))
        BY <1>2, <3>2
      <4>3. ASSUME sock[s].pc # "ended"
            PROVE  sock[s].got \o more
                     = SubSeq(Append(log, n), sock[s].since + 1, Len(Append(log, n)))
        <5> DEFINE g == sock[s].got
                   q == sock[s].queue
                   f == sock[s].since
        <5>1. g \o q = SubSeq(log, f + 1, Len(log)) /\ f <= Len(log)
          BY <3>1, <3>5, <4>3 DEF SRowInv
        <5>2. /\ g \in Seq(Nat) /\ q \in Seq(Nat) /\ f \in 0..Len(log)
              /\ log \in Seq(Nat) /\ n \in Nat
          BY <1>2, <3>2, <5>1
        <5> HIDE DEF g, q, f
        <5>3. g \o Append(q, n) = SubSeq(Append(log, n), f + 1, Len(Append(log, n)))
          BY <5>1, <5>2, OneMoreEvent
        <5> QED BY <5>3 DEF g, q, f
      <4> HIDE DEF more
      <4>4. u \in SockRow /\ u.queue = more /\ u.got = sock[s].got /\ u.pc = sock[s].pc
            /\ u.since = sock[s].since /\ u.hello = sock[s].hello /\ u.opened = sock[s].opened
        BY <3>1, <4>2 DEF SockRow
      <4> HIDE DEF u
      <4>5. u.pc # "ended" => /\ u.queue \in Seq(Nat \ {0})
                             /\ u.got \o u.queue = SubSeq(log', u.since + 1, Len(log'))
        <5>1. u.pc # "ended" => sock[s].queue \in Seq(Nat \ {0})
          BY <3>1, <3>5, <4>4 DEF SRowInv
        <5> QED BY <1>5, <4>2, <4>3, <4>4, <5>1
      <4>6. /\ u.pc \in {"greeting", "live", "raised", "ending", "ended"}
            /\ transport = "memory" => u.pc # "ended"
            /\ u.hello <= changes /\ s \notin starting
        BY <3>1, <3>5, <4>4 DEF SRowInv
      <4>7. /\ u.since <= Len(log') /\ u.opened <= Len(log')
            /\ \A i \in 1..u.opened : log'[i] <= u.hello
        BY <3>3, <4>4
      <4> HIDE <1>5, <3>5
      <4>8. s \in bucket' /\ s \notin starting' /\ changes' = changes /\ transport' = transport
        BY <1>3, <3>5, <4>6
      <4> QED BY <4>1, <4>4, <4>5, <4>6, <4>7, <4>8 DEF SRowInv, SockSound
    <3> QED BY <3>4, <3>5
  <2>4. sock' \in [Sockets -> SockRow]
    BY <1>5, <2>3
  <2>5. STypes'
    BY <1>1, <1>3, <1>5, <2>1, <2>4 DEF STypes
  <2> QED BY <2>2, <2>3, <2>5 DEF SInv
<1> QED BY <1>4, <1>5 DEF Publish

\* Every queue is closed and taken off the bucket, and no reader starts any more.
LEMMA SInvSever == SInv /\ Sever => SInv'
<1> SUFFICES ASSUME SInv, Sever PROVE SInv'
  OBVIOUS
<1>1. STypes /\ Told /\ \A s \in Sockets : SockSound(s)
  BY DEF SInv
<1>2. /\ bucket' = {} /\ starting' = {} /\ UNCHANGED <<transport, changes, unsent, refused, log>>
      /\ sock' = [s \in Sockets |-> IF s \in bucket THEN [sock[s] EXCEPT !.queue = Append(@, End)]
                                    ELSE sock[s]]
  BY DEF Sever
<1>3. ASSUME NEW s \in Sockets PROVE sock'[s] \in SockRow /\ SockSound(s)'
  <2>1. SRowInv(sock[s], s \in bucket, s \in starting) /\ sock[s] \in SockRow
        /\ sock[s].queue \in Seq(Nat)
    BY <1>1 DEF STypes, SockRow, SockSound
  <2>2. CASE s \notin bucket
    <3>1. sock'[s] = sock[s]
      BY <1>2, <2>2
    <3> QED BY <1>2, <2>1, <2>2, <3>1 DEF SRowInv, SockSound
  <2>3. CASE s \in bucket
    <3> DEFINE more == Append(sock[s].queue, End)
               u    == [sock[s] EXCEPT !.queue = more]
    <3>1. sock'[s] = u
      BY <1>2, <2>3
    <3>2. more \in Seq(Nat) /\ more # <<>> /\ more[Len(more)] = End
      BY <2>1 DEF End
    <3> HIDE DEF more
    <3>3. u \in SockRow /\ u.queue = more /\ u.pc = sock[s].pc /\ u.since = sock[s].since
          /\ u.hello = sock[s].hello /\ u.opened = sock[s].opened
      BY <2>1, <3>2 DEF SockRow
    <3> HIDE DEF u
    <3>4. /\ u.since <= Len(log) /\ u.opened <= Len(log) /\ u.hello <= changes
          /\ u.pc \notin {"closed", "accepting"}
          /\ \A i \in 1..u.opened : log[i] <= u.hello
      BY <2>1, <2>3, <3>3 DEF SRowInv
    <3>5. s \notin bucket' /\ s \notin starting' /\ changes' = changes /\ transport' = transport
          /\ log' = log
      BY <1>2
    <3> QED BY <3>1, <3>2, <3>3, <3>4, <3>5 DEF SRowInv, SockSound
  <2> QED BY <2>2, <2>3
<1>4. sock' \in [Sockets -> SockRow]
  BY <1>2, <1>3
<1>5. STypes'
  BY <1>1, <1>2, <1>4 DEF STypes
<1>6. Told'
  BY <1>1, <1>2, TheRestStays
<1> QED BY <1>3, <1>5, <1>6 DEF SInv


\* The thread is loaded, and the state shown in the hello frame is one it had,
\* with everything announced so far.
LEMMA SInvOpen ==
  ASSUME SInv, NEW s \in Sockets, Open(s)
  PROVE  SInv'
<1> DEFINE u == [sock[s] EXCEPT !.pc = "accepting", !.hello = changes, !.opened = Len(log)]
<1>1. STypes /\ Told /\ SRowInv(sock[s], s \in bucket, s \in starting) /\ sock[s] \in SockRow
      /\ sock[s].pc = "closed"
  BY DEF STypes, Open, SInv, SockSound
<1>2. sock' = [sock EXCEPT ![s] = u]
      /\ UNCHANGED <<transport, changes, unsent, refused, log, bucket, starting>>
  BY DEF Open
<1>3. changes \in Nat /\ Len(log) \in Nat
  BY <1>1, StreamAssumption DEF STypes
<1>4. u \in SockRow /\ u.pc = "accepting" /\ u.hello = changes /\ u.queue = sock[s].queue
      /\ u.got = sock[s].got /\ u.since = sock[s].since /\ u.opened = Len(log)
  BY <1>1, <1>3 DEF SockRow
<1> HIDE DEF u
<1>5. u.hello <= changes /\ u.opened <= Len(log) /\ \A i \in 1..u.opened : log[i] <= u.hello
  BY <1>1, <1>3, <1>4 DEF Told
<1>6. s \notin bucket /\ s \notin starting /\ u.since <= Len(log) /\ u.queue = <<>> /\ u.got = <<>>
  BY <1>1, <1>4 DEF SRowInv
<1>7. SRowInv(u, s \in bucket', s \in starting')
  BY <1>2, <1>4, <1>5, <1>6 DEF SRowInv
<1>8. bucket' = bucket /\ starting' = starting /\ bucket \subseteq Sockets /\ starting \subseteq Sockets
      /\ UNCHANGED <<transport, changes, unsent, refused, log>>
  BY <1>1, <1>2 DEF STypes
<1> QED BY <1>2, <1>7, <1>8, OneSocketMoves

\* A queue that has just been registered is owed nothing.
LEMMA NothingOwed ==
  ASSUME log \in Seq(Nat)
  PROVE  SubSeq(log, Len(log) + 1, Len(log)) = <<>> /\ <<>> \o <<>> = <<>>
         /\ <<>> \in Seq(Nat \ {0}) /\ Len(log) \in Nat
<1>1. Len(log) \in Nat
  OBVIOUS
<1>2. SubSeq(log, Len(log) + 1, Len(log)) = <<>>
  BY <1>1, SubSeqEmpty
<1>3. <<>> \o <<>> = <<>>
  BY ConcatEmptySeq
<1> QED BY <1>1, <1>2, <1>3

\* The queue is registered at once, or waits for Redis' reader.
LEMMA SInvSubscribe ==
  ASSUME SInv, NEW s \in Sockets, Subscribe(s)
  PROVE  SInv'
<1> DEFINE u == [sock[s] EXCEPT !.pc = "greeting", !.since = Len(log)]
<1>1. STypes /\ SRowInv(sock[s], s \in bucket, s \in starting) /\ sock[s] \in SockRow
      /\ sock[s].pc = "accepting"
  BY DEF STypes, Subscribe, SInv, SockSound
<1>2. /\ sock' = [sock EXCEPT ![s] = u] /\ UNCHANGED <<transport, changes, unsent, refused, log>>
      /\ IF transport = "memory" THEN bucket' = bucket \cup {s} /\ starting' = starting
         ELSE starting' = starting \cup {s} /\ bucket' = bucket
  BY DEF Subscribe
<1>3. log \in Seq(Nat)
  BY <1>1 DEF STypes
<1>4. u \in SockRow /\ u.pc = "greeting" /\ u.hello = sock[s].hello /\ u.queue = sock[s].queue
      /\ u.got = sock[s].got /\ u.since = Len(log) /\ u.opened = sock[s].opened
  BY <1>1, <1>3, NothingOwed DEF SockRow
<1> HIDE DEF u
<1>5. /\ s \notin bucket /\ s \notin starting /\ u.hello <= changes /\ u.queue = <<>> /\ u.got = <<>>
      /\ u.opened <= Len(log) /\ \A i \in 1..u.opened : log[i] <= u.hello
  BY <1>1, <1>4 DEF SRowInv
<1>6. u.since <= Len(log)
  BY <1>3, <1>4, NothingOwed
<1>7. u.got \o u.queue = SubSeq(log, u.since + 1, Len(log)) /\ u.queue \in Seq(Nat \ {0})
  BY <1>3, <1>4, <1>5, NothingOwed
<1>8. /\ s \in bucket' <=> transport = "memory"
      /\ s \in starting' <=> transport # "memory"
  BY <1>2, <1>5
<1>9. SRowInv(u, s \in bucket', s \in starting')
  BY <1>2, <1>4, <1>5, <1>6, <1>7, <1>8 DEF SRowInv
<1>10. /\ bucket' \subseteq Sockets /\ \A r \in Sockets \ {s} : r \in bucket' <=> r \in bucket
       /\ starting' \subseteq Sockets /\ \A r \in Sockets \ {s} : r \in starting' <=> r \in starting
  BY <1>1, <1>2 DEF STypes
<1> QED BY <1>2, <1>9, <1>10, OneSocketMoves

\* A queue that a sentinel has been put into ends with it.
LEMMA OneMoreEnd ==
  ASSUME NEW queue \in Seq(Nat)
  PROVE  LET more == Append(queue, End) IN more \in Seq(Nat) /\ more # <<>> /\ more[Len(more)] = End
BY DEF End

\* Redis' reader registers the queue, or fails and closes it.
LEMMA SInvReader ==
  ASSUME SInv, NEW s \in Sockets, Reader(s)
  PROVE  SInv'
<1>1. STypes /\ SRowInv(sock[s], s \in bucket, s \in starting) /\ sock[s] \in SockRow /\ log \in Seq(Nat)
      /\ sock[s].queue \in Seq(Nat)
  BY DEF STypes, SInv, SockSound, SockRow
<1>2. s \in starting /\ starting' = starting \ {s} /\ UNCHANGED <<transport, changes, unsent, refused, log>>
  BY DEF Reader
<1>3. /\ s \notin bucket /\ transport # "memory" /\ sock[s].pc \notin {"closed", "accepting"}
      /\ sock[s].pc # "ended" => sock[s].queue = <<>> /\ sock[s].got = <<>>
      /\ sock[s].hello <= changes /\ sock[s].since <= Len(log) /\ sock[s].opened <= Len(log)
      /\ \A i \in 1..sock[s].opened : log[i] <= sock[s].hello
  BY <1>1, <1>2 DEF SRowInv
<1>4. (s \in starting') = FALSE /\ starting' \subseteq Sockets
      /\ \A r \in Sockets \ {s} : r \in starting' <=> r \in starting
  BY <1>1, <1>2 DEF STypes
<1>5. CASE bucket' = bucket \cup {s} /\ sock' = [sock EXCEPT ![s].since = Len(log)]
  <2> DEFINE u == [sock[s] EXCEPT !.since = Len(log)]
  <2>1. sock' = [sock EXCEPT ![s] = u] /\ bucket' = bucket \cup {s}
    BY <1>5
  <2>2. u \in SockRow /\ u.pc = sock[s].pc /\ u.hello = sock[s].hello /\ u.queue = sock[s].queue
        /\ u.got = sock[s].got /\ u.since = Len(log) /\ u.opened = sock[s].opened
    BY <1>1, NothingOwed DEF SockRow
  <2> HIDE DEF u
  <2> HIDE <1>5
  <2>3. u.since <= Len(log)
    BY <1>1, <2>2, NothingOwed
  <2>4. u.pc # "ended" => u.got \o u.queue = SubSeq(log, u.since + 1, Len(log)) /\ u.queue \in Seq(Nat \ {0})
    BY <1>1, <1>3, <2>2, NothingOwed
  <2>5. (s \in bucket') = TRUE
    BY <2>1
  <2>6. u.pc \in {"greeting", "live", "raised", "ending", "ended"}
    BY <1>1, <1>3, <2>2 DEF SockRow
  <2>7. SRowInv(u, TRUE, FALSE)
    BY <1>2, <1>3, <2>2, <2>3, <2>4, <2>6 DEF SRowInv
  <2>8. bucket' \subseteq Sockets /\ \A r \in Sockets \ {s} : r \in bucket' <=> r \in bucket
    BY <1>1, <2>1 DEF STypes
  <2> QED BY <1>2, <1>4, <2>1, <2>5, <2>7, <2>8, OneSocketMoves
<1>6. CASE bucket' = bucket /\ sock' = [sock EXCEPT ![s].queue = Append(@, End)]
  <2> DEFINE more == Append(sock[s].queue, End)
             u == [sock[s] EXCEPT !.queue = more]
  <2>1. sock' = [sock EXCEPT ![s] = u] /\ bucket' = bucket
    BY <1>6
  <2>2. more \in Seq(Nat) /\ more # <<>> /\ more[Len(more)] = End
    BY <1>1, OneMoreEnd
  <2> HIDE DEF more
  <2>3. u \in SockRow /\ u.pc = sock[s].pc /\ u.hello = sock[s].hello /\ u.queue = more
        /\ u.since = sock[s].since /\ u.opened = sock[s].opened
    BY <1>1, <2>2 DEF SockRow
  <2> HIDE DEF u
  <2> HIDE <1>6
  <2>4. (s \in bucket') = FALSE
    BY <1>3, <2>1
  <2>5. SRowInv(u, FALSE, FALSE)
    BY <1>3, <2>2, <2>3 DEF SRowInv
  <2>6. bucket' \subseteq Sockets /\ \A r \in Sockets \ {s} : r \in bucket' <=> r \in bucket
    BY <1>1, <2>1 DEF STypes
  <2> QED BY <1>2, <1>4, <2>1, <2>4, <2>5, <2>6, OneSocketMoves
<1> QED BY <1>5, <1>6 DEF Reader


\* The hello frame is sent, or the client has left.
LEMMA SInvGreet ==
  ASSUME SInv, NEW s \in Sockets, Greet(s)
  PROVE  SInv'
<1>1. STypes /\ SRowInv(sock[s], s \in bucket, s \in starting) /\ sock[s] \in SockRow
      /\ sock[s].pc = "greeting"
  BY DEF STypes, Greet, SInv, SockSound
<1>2. PICK pc \in {"live", "raised"} : sock' = [sock EXCEPT ![s].pc = pc]
  BY DEF Greet
<1>3. UNCHANGED <<transport, changes, unsent, refused, log, bucket, starting>>
  BY DEF Greet
<1> DEFINE u == [sock[s] EXCEPT !.pc = pc]
<1>4. sock' = [sock EXCEPT ![s] = u]
  BY <1>2
<1>5. u \in SockRow /\ u.pc = pc /\ u.hello = sock[s].hello /\ u.queue = sock[s].queue
      /\ u.got = sock[s].got /\ u.since = sock[s].since /\ u.opened = sock[s].opened
  BY <1>1 DEF SockRow
<1> HIDE DEF u
<1> HIDE <1>2
<1>6. SRowInv(u, s \in bucket, s \in starting)
  BY <1>1, <1>5 DEF SRowInv
<1>7. bucket' = bucket /\ bucket \subseteq Sockets /\ starting' = starting /\ starting \subseteq Sockets
      /\ UNCHANGED <<transport, changes, unsent, refused, log>>
  BY <1>1, <1>3 DEF STypes
<1> QED BY <1>4, <1>6, <1>7, OneSocketMoves

\* What is left of a queue that ends with the sentinel ends with it.
LEMMA TailEnds ==
  ASSUME NEW queue \in Seq(Nat), queue # <<>>, queue[Len(queue)] = End, Head(queue) # End
  PROVE  Tail(queue) # <<>> /\ Tail(queue)[Len(Tail(queue))] = End
<1>1. Len(queue) \in Nat \ {0}
  BY EmptySeq
<1>2. Head(queue) = queue[1] /\ Tail(queue) \in Seq(Nat) /\ Len(Tail(queue)) = Len(queue) - 1
      /\ \A i \in 1..Len(Tail(queue)) : Tail(queue)[i] = queue[i + 1]
  BY HeadTailProperties
<1>3. Len(queue) # 1
  BY <1>2
<1>4. Len(Tail(queue)) \in 1..Len(Tail(queue)) /\ Len(Tail(queue)) + 1 = Len(queue)
  BY <1>1, <1>2, <1>3
<1>5. Tail(queue)[Len(Tail(queue))] = queue[Len(queue)]
  BY <1>2, <1>4
<1>6. Len(Tail(queue)) # 0
  BY <1>1, <1>2, <1>3
<1>7. Tail(queue) # <<>>
  BY <1>6, EmptySeq
<1> QED BY <1>5, <1>7

\* One event is sent; the sentinel ends the loop.
LEMMA SInvForward ==
  ASSUME SInv, NEW s \in Sockets, Forward(s)
  PROVE  SInv'
<1> DEFINE q    == sock[s].queue
           rest == Tail(q)
           more == IF Head(q) = End THEN sock[s].got ELSE Append(sock[s].got, Head(q))
           pc   == IF Head(q) = End THEN "ended" ELSE sock[s].pc
           u    == [sock[s] EXCEPT !.queue = rest, !.got = more, !.pc = pc]
<1>1. STypes /\ SRowInv(sock[s], s \in bucket, s \in starting) /\ sock[s] \in SockRow
      /\ sock[s].pc = "live" /\ q # <<>> /\ q \in Seq(Nat) /\ sock[s].got \in Seq(Nat)
  BY DEF STypes, Forward, SockRow, SInv, SockSound
<1>2. sock' = [sock EXCEPT ![s] = u]
      /\ UNCHANGED <<transport, changes, unsent, refused, log, bucket, starting>>
  BY DEF Forward
<1>3. Head(q) \in Nat /\ rest \in Seq(Nat) /\ more \in Seq(Nat) /\ pc \in {"live", "ended"}
  BY <1>1, HeadTailProperties
<1> HIDE DEF more, pc, rest
<1>4. u \in SockRow /\ u.pc = pc /\ u.hello = sock[s].hello /\ u.queue = rest
      /\ u.got = more /\ u.since = sock[s].since /\ u.opened = sock[s].opened
  BY <1>1, <1>3 DEF SockRow
<1> HIDE DEF u
<1>5. /\ u.hello <= changes /\ u.since <= Len(log) /\ u.opened <= Len(log)
      /\ \A i \in 1..u.opened : log[i] <= u.hello
      /\ s \notin starting
  BY <1>1, <1>4 DEF SRowInv
<1>6. ASSUME s \in bucket PROVE SRowInv(u, s \in bucket, s \in starting)
  <2>1. q \in Seq(Nat \ {0}) /\ sock[s].got \o q = SubSeq(log, sock[s].since + 1, Len(log))
    BY <1>1, <1>6 DEF SRowInv
  <2>2. Head(q) # End /\ rest \in Seq(Nat \ {0})
    BY <1>1, <2>1, HeadTailProperties DEF End, rest
  <2>3. more = Append(sock[s].got, Head(q)) /\ pc = "live"
    BY <1>1, <2>2 DEF more, pc
  <2>4. more \o rest = sock[s].got \o q
    BY <1>1, <2>3, OneForwarded DEF rest
  <2>5. u.got \o u.queue = SubSeq(log, u.since + 1, Len(log))
    BY <1>4, <2>1, <2>4
  <2> QED BY <1>4, <1>5, <1>6, <2>2, <2>3, <2>5 DEF SRowInv
<1>7. ASSUME s \notin bucket PROVE SRowInv(u, s \in bucket, s \in starting)
  <2>1. q[Len(q)] = End
    BY <1>1, <1>7 DEF SRowInv
  <2>2. CASE Head(q) = End
    <3>1. pc = "ended"
      BY <2>2 DEF pc
    <3> QED BY <1>4, <1>5, <1>7, <3>1 DEF SRowInv
  <2>3. CASE Head(q) # End
    <3>1. pc = "live"
      BY <1>1, <2>3 DEF pc
    <3>2. rest # <<>> /\ rest[Len(rest)] = End
      BY <1>1, <2>1, <2>3, TailEnds DEF rest
    <3> QED BY <1>4, <1>5, <1>7, <3>1, <3>2 DEF SRowInv
  <2> QED BY <2>2, <2>3
<1>8. SRowInv(u, s \in bucket, s \in starting)
  BY <1>6, <1>7
<1>9. bucket' = bucket /\ bucket \subseteq Sockets /\ starting' = starting /\ starting \subseteq Sockets
      /\ UNCHANGED <<transport, changes, unsent, refused, log>>
  BY <1>1, <1>2 DEF STypes
<1> QED BY <1>2, <1>8, <1>9, OneSocketMoves

\* One of the two loops ends.
LEMMA SInvHangup ==
  ASSUME SInv, NEW s \in Sockets, Hangup(s)
  PROVE  SInv'
<1> DEFINE u == [sock[s] EXCEPT !.pc = "ending"]
<1>1. STypes /\ SRowInv(sock[s], s \in bucket, s \in starting) /\ sock[s] \in SockRow
      /\ sock[s].pc = "live"
  BY DEF STypes, SInv, SockSound, Hangup
<1>2. sock' = [sock EXCEPT ![s] = u]
      /\ UNCHANGED <<transport, changes, unsent, refused, log, bucket, starting>>
  BY DEF Hangup
<1>3. u \in SockRow /\ u.pc = "ending" /\ u.hello = sock[s].hello /\ u.queue = sock[s].queue
      /\ u.got = sock[s].got /\ u.since = sock[s].since /\ u.opened = sock[s].opened
  BY <1>1 DEF SockRow
<1> HIDE DEF u
<1>4. SRowInv(u, s \in bucket, s \in starting)
  BY <1>1, <1>3 DEF SRowInv
<1>5. bucket' = bucket /\ bucket \subseteq Sockets /\ starting' = starting /\ starting \subseteq Sockets
      /\ UNCHANGED <<transport, changes, unsent, refused, log>>
  BY <1>1, <1>2 DEF STypes
<1> QED BY <1>2, <1>4, <1>5, OneSocketMoves

\* The iterator is closed; in memory the queue is taken off the bucket.
LEMMA SInvUnsubscribe ==
  ASSUME SInv, NEW s \in Sockets, Unsubscribe(s)
  PROVE  SInv'
<1> DEFINE more == Append(sock[s].queue, End)
           u == [sock[s] EXCEPT !.pc = "ended", !.queue = more]
<1>1. STypes /\ SRowInv(sock[s], s \in bucket, s \in starting) /\ sock[s] \in SockRow
      /\ sock[s].queue \in Seq(Nat)
  BY DEF STypes, SInv, SockSound, SockRow
<1>2. /\ sock' = [sock EXCEPT ![s] = u] /\ UNCHANGED <<transport, changes, unsent, refused, log, starting>>
      /\ bucket' = IF transport = "memory" THEN bucket \ {s} ELSE bucket
  BY DEF Unsubscribe
<1>3. more \in Seq(Nat)
  BY <1>1, OneMoreEnd
<1> HIDE DEF more
<1>4. u \in SockRow /\ u.pc = "ended" /\ u.hello = sock[s].hello /\ u.since = sock[s].since
      /\ u.opened = sock[s].opened
  BY <1>1, <1>3 DEF SockRow
<1> HIDE DEF u
<1>5. /\ transport = "memory" => s \notin bucket'
      /\ s \in bucket' => s \in bucket
      /\ s \in starting' <=> s \in starting
  BY <1>2
<1>6. SRowInv(u, s \in bucket', s \in starting')
  BY <1>1, <1>4, <1>5 DEF SRowInv
<1>7. /\ bucket' \subseteq Sockets /\ \A r \in Sockets \ {s} : r \in bucket' <=> r \in bucket
      /\ starting' \subseteq Sockets /\ \A r \in Sockets \ {s} : r \in starting' <=> r \in starting
  BY <1>1, <1>2 DEF STypes
<1> QED BY <1>2, <1>6, <1>7, OneSocketMoves

\* Redis' reader has seen that it is to stop.
LEMMA SInvReaderStops ==
  ASSUME SInv, NEW s \in Sockets, ReaderStops(s)
  PROVE  SInv'
<1> DEFINE more == Append(sock[s].queue, End)
           u == [sock[s] EXCEPT !.queue = more]
<1>1. STypes /\ SRowInv(sock[s], s \in bucket, s \in starting) /\ sock[s] \in SockRow
      /\ sock[s].queue \in Seq(Nat)
  BY DEF STypes, SInv, SockSound, SockRow
<1>2. /\ sock' = [sock EXCEPT ![s] = u] /\ UNCHANGED <<transport, changes, unsent, refused, log, starting>>
      /\ bucket' = bucket \ {s} /\ s \in bucket /\ sock[s].pc = "ended"
  BY DEF ReaderStops
<1>3. more \in Seq(Nat)
  BY <1>1, OneMoreEnd
<1> HIDE DEF more
<1>4. u \in SockRow /\ u.pc = "ended" /\ u.hello = sock[s].hello /\ u.since = sock[s].since
      /\ u.opened = sock[s].opened
  BY <1>1, <1>2, <1>3 DEF SockRow
<1> HIDE DEF u
<1>5. s \notin bucket' /\ s \notin starting'
  BY <1>1, <1>2 DEF SRowInv
<1>6. SRowInv(u, s \in bucket', s \in starting')
  BY <1>1, <1>4, <1>5 DEF SRowInv
<1>7. /\ bucket' \subseteq Sockets /\ \A r \in Sockets \ {s} : r \in bucket' <=> r \in bucket
      /\ starting' \subseteq Sockets /\ \A r \in Sockets \ {s} : r \in starting' <=> r \in starting
  BY <1>1, <1>2 DEF STypes
<1> QED BY <1>2, <1>6, <1>7, OneSocketMoves

\* Every step keeps the invariant.
LEMMA SInvNext == SInv /\ [SNext]_svars => SInv'
<1> SUFFICES ASSUME SInv, [SNext]_svars PROVE SInv'
  OBVIOUS
<1>1. CASE UNCHANGED svars
  <2>1. STypes /\ Told /\ \A s \in Sockets : SockSound(s)
    BY DEF SInv
  <2>2. STypes'
    BY <1>1, <2>1 DEF STypes, svars
  <2>3. Told' /\ \A s \in Sockets : SockSound(s)'
    BY <1>1, <2>1, TheRestStays DEF svars
  <2> QED BY <2>2, <2>3 DEF SInv
<1>2. CASE Change
  BY <1>2, SInvChange
<1>3. CASE Sever
  BY <1>3, SInvSever
<1>4. ASSUME NEW n \in unsent, Publish(n) PROVE SInv'
  BY <1>4, SInvPublish
<1>5. ASSUME NEW s \in Sockets, Open(s) \/ Subscribe(s) \/ Reader(s) \/ Greet(s) \/ Forward(s)
                               \/ Hangup(s) \/ Unsubscribe(s) \/ ReaderStops(s)
      PROVE  SInv'
  BY <1>5, SInvOpen, SInvSubscribe, SInvReader, SInvGreet, SInvForward, SInvHangup, SInvUnsubscribe,
     SInvReaderStops
<1> QED BY <1>1, <1>2, <1>3, <1>4, <1>5 DEF SNext

\* Every connection's queue is complete while it is registered, and closed when
\* it is not any more.
THEOREM SInvariant == SSpec => []SInv
<1> QED BY SInvInit, SInvNext, PTL DEF SSpec

\* The variables keep their types: a socket knows a state of the thread and of
\* the router's events that there was.
THEOREM STypeCorrect == SSpec => []STypeOK
<1>1. SInv => STypeOK
  <2> SUFFICES ASSUME SInv PROVE STypeOK
    OBVIOUS
  <2>1. STypes /\ \A s \in Sockets : SRowInv(sock[s], s \in bucket, s \in starting)
    BY DEF SInv, SockSound
  <2>2. changes \in Nat /\ Len(log) \in Nat
    BY <2>1, StreamAssumption DEF STypes
  <2>3. ASSUME NEW s \in Sockets
        PROVE  /\ sock[s].hello \in 0..changes
               /\ sock[s].opened \in 0..Len(log) /\ sock[s].since \in 0..Len(log)
    <3>1. /\ sock[s].hello \in Nat /\ sock[s].since \in Nat /\ sock[s].opened \in Nat
          /\ sock[s].hello <= changes /\ sock[s].since <= Len(log) /\ sock[s].opened <= Len(log)
      BY <2>1 DEF SRowInv, SockRow
    <3> QED BY <2>2, <3>1
  <2> QED BY <2>1, <2>3 DEF STypes, STypeOK
<1> QED BY <1>1, SInvariant, PTL

\* What the router took since a queue was registered is in what its client has
\* received or will.
LEMMA TakenIsReceived ==
  ASSUME NEW all \in Seq(Nat), NEW since \in Nat, NEW i \in (since + 1)..Len(all)
  PROVE  \E k \in DOMAIN SubSeq(all, since + 1, Len(all)) : SubSeq(all, since + 1, Len(all))[k] = all[i]
<1>1. Len(all) \in Nat /\ i \in Nat /\ since + 1 <= i /\ i <= Len(all)
  OBVIOUS
<1>2. /\ Len(SubSeq(all, since + 1, Len(all))) = Len(all) - since
      /\ SubSeq(all, since + 1, Len(all))[i - since] = all[i]
      /\ DOMAIN SubSeq(all, since + 1, Len(all)) = 1..(Len(all) - since)
      /\ i - since \in 1..(Len(all) - since)
  BY <1>1
<1> QED BY <1>2

\* No event is skipped, repeated or reordered for a client whose queue is
\* registered, what it misses it misses at the start or Redis refused, and in
\* memory a live client's queue is registered until the router closes it and
\* none that ended is left behind.
THEOREM StreamSound == SSpec => []StreamIsSound
<1>1. SInv => StreamIsSound
  <2> SUFFICES ASSUME SInv PROVE StreamIsSound
    OBVIOUS
  <2>1. STypes /\ Told /\ \A s \in Sockets : SRowInv(sock[s], s \in bucket, s \in starting)
    BY DEF SInv, SockSound
  <2>2. ASSUME NEW s \in Sockets
        PROVE  /\ Connected(s) => Received(s) = Since(s)
               /\ s \in bucket /\ transport = "memory" => sock[s].pc \notin {"closed", "ended"}
    BY <2>1 DEF SRowInv, Received, Since, Connected
  <2>3. ASSUME NEW s \in Sockets, sock[s].pc = "live", transport = "memory", s \notin bucket
        PROVE  Closed(s)
    <3>1. sock[s].queue # <<>> /\ sock[s].queue \in Seq(Nat)
          /\ sock[s].queue[Len(sock[s].queue)] = End
      BY <2>1, <2>3 DEF SRowInv, SockRow
    <3>2. Len(sock[s].queue) \in DOMAIN sock[s].queue
      BY <3>1, EmptySeq
    <3> QED BY <3>1, <3>2 DEF Closed
  <2>4. ASSUME NEW s \in Sockets, Connected(s), NEW n \in (sock[s].hello + 1)..changes
        PROVE  \/ n \in unsent \cup refused
               \/ LostAtTheStart(s, n)
               \/ \E i \in DOMAIN Received(s) : Received(s)[i] = n
    <3>1. /\ sock[s].hello \in Nat /\ sock[s].since \in Nat /\ sock[s].opened \in Nat
          /\ sock[s].opened <= Len(log) /\ changes \in Nat /\ log \in Seq(Nat) /\ Len(log) \in Nat
          /\ \A i \in 1..sock[s].opened : log[i] <= sock[s].hello
      <4>1. sock[s].hello \in Nat /\ sock[s].since \in Nat /\ sock[s].opened \in Nat
        BY <2>1 DEF SRowInv, SockRow
      <4>2. sock[s].opened <= Len(log) /\ \A i \in 1..sock[s].opened : log[i] <= sock[s].hello
        BY <2>1 DEF SRowInv
      <4>3. changes \in Nat /\ log \in Seq(Nat) /\ Len(log) \in Nat
        BY <2>1, StreamAssumption DEF STypes
      <4> QED BY <4>1, <4>2, <4>3
    <3>2. n \in 1..changes /\ n \in Nat /\ n > sock[s].hello
      BY <3>1
    <3>3. ASSUME NEW i \in 1..Len(log), log[i] = n, i \notin (sock[s].opened + 1)..sock[s].since
          PROVE  \E k \in DOMAIN Received(s) : Received(s)[k] = n
      <4>1. i \notin 1..sock[s].opened
        BY <3>1, <3>2, <3>3
      <4>2. i \in (sock[s].since + 1)..Len(log)
        BY <3>1, <3>3, <4>1
      <4>3. \E k \in DOMAIN Since(s) : Since(s)[k] = log[i]
        BY <3>1, <4>2, TakenIsReceived DEF Since
      <4> QED BY <2>2, <2>4, <3>3, <4>3
    <3>4. n \in unsent \cup refused \/ \E i \in 1..Len(log) : log[i] = n
      BY <2>1, <3>2 DEF Told
    <3> QED BY <3>3, <3>4 DEF LostAtTheStart
  <2>5. bucket \subseteq Sockets
    BY <2>1 DEF STypes
  <2> QED BY <2>2, <2>3, <2>4, <2>5
          DEF StreamIsSound, NothingIsSkipped, LossesAreKnown, QueuesAreReleased
<1> QED BY <1>1, SInvariant, PTL

-----------------------------------------------------------------------------
(* Agents: AcceptedIsChecked.                                              *)

\* The result of the agent that is called; an agent answers once.
Returned ==
  \/ errand.agent = "intake" /\ outcome = ClassifyDocument(errand)
  \/ errand.agent \in Extractors /\ outcome = ExtractFrom(errand)
  \/ errand.agent = "po" /\ outcome = ParsePo(errand)
  \/ errand.agent = "pi" /\ outcome = ParsePi(errand)
  \/ errand.agent = "fusion" /\ outcome = FuseSides(errand)

\* The inductive invariant: what was called, and what it returns if anything.
GInv == errand \in Calls /\ (outcome = Unset \/ Returned)

\* Only the agent that is called answers, with its own result.
LEMMA GInvNext == GInv /\ [GNext]_gvars => GInv'
<1> SUFFICES ASSUME GInv, [GNext]_gvars PROVE GInv'
  OBVIOUS
<1>1. CASE UNCHANGED gvars
  BY <1>1 DEF GInv, Returned, gvars
<1>2. CASE RunIntake
  BY <1>2 DEF GInv, Returned, RunIntake, Answer
<1>3. CASE RunExtractor
  BY <1>3 DEF GInv, Returned, RunExtractor, Answer
<1>4. CASE RunPo
  BY <1>4 DEF GInv, Returned, RunPo, Answer
<1>5. CASE RunPi
  BY <1>5 DEF GInv, Returned, RunPi, Answer
<1>6. CASE RunFusion
  BY <1>6 DEF GInv, Returned, RunFusion, Answer
<1> QED BY <1>1, <1>2, <1>3, <1>4, <1>5, <1>6 DEF GNext

\* The calls of an agent are those with its name.
LEMMA CallsOfAgent ==
  ASSUME NEW t \in Calls
  PROVE  /\ t.agent = "intake" => t \in IntakeCalls
         /\ t.agent \in Extractors => t \in ExtractCalls
         /\ t.agent = "po" => t \in PoCalls
         /\ t.agent = "fusion" => t \in FusionCalls
BY DEF Calls, IntakeCalls, ExtractCalls, PoCalls, PiCalls, FusionCalls, Extractors

\* A document is accepted only with a known class.
LEMMA IntakeIsChecked ==
  ASSUME NEW t \in IntakeCalls, ClassifyDocument(t) # Raised
  PROVE  /\ ClassifyDocument(t).success \in BOOLEAN
         /\ ClassifyDocument(t).success = ~ClassifyDocument(t).hitl
         /\ ClassifyDocument(t).success => ClassifyDocument(t).data.class = "known"
<1> DEFINE c    == IF t.says = Prose THEN ByName(t.name) ELSE Parsed(t.says)
           ok   == c.confidence >= 70
           asks == c.confidence < 70
<1>1. /\ ClassifyDocument(t).success = ok /\ ClassifyDocument(t).hitl = asks
      /\ ClassifyDocument(t).data = c
  BY DEF ClassifyDocument, Asked
<1>2. t.name \in FileNames /\ t.says # Shapeless
      /\ t.says \in {Prose, Shapeless} \cup [class : {"known", "alien"}, confidence : Certainties]
  BY DEF IntakeCalls, ClassifyDocument
<1>3. CASE t.says = Prose
  <2>1. c = ByName(t.name)
    BY <1>3
  <2> HIDE DEF c
  <2>2. CASE t.name = "nothing"
    <3>1. c.confidence = 0
      BY <2>1, <2>2 DEF ByName
    <3>2. ok = FALSE /\ asks = TRUE
      BY <3>1
    <3> HIDE DEF ok, asks
    <3> QED BY <1>1, <3>2
  <2>3. CASE t.name # "nothing"
    <3>1. c.confidence \in {55, 60} /\ c.class = "known"
      BY <1>2, <2>1, <2>3 DEF ByName, FileNames
    <3>2. ok = FALSE /\ asks = TRUE
      BY <3>1
    <3> HIDE DEF ok, asks
    <3> QED BY <1>1, <3>2
  <2> QED BY <2>2, <2>3
<1>4. CASE t.says # Prose
  <2>1. c = Parsed(t.says) /\ t.says.class \in {"known", "alien"} /\ t.says.confidence \in Int
    BY <1>2, <1>4, CertaintiesAssumption
  <2> HIDE DEF c
  <2>2. CASE t.says.class = "known"
    <3>1. c.class = "known" /\ c.confidence = Clamp(t.says.confidence)
      BY <2>1, <2>2 DEF Parsed
    <3>2. c.confidence \in Int
      BY <2>1, <3>1 DEF Clamp, Most, Least
    <3>3. ok \in BOOLEAN /\ asks \in BOOLEAN /\ (ok <=> ~asks)
      BY <3>2
    <3> HIDE DEF ok, asks
    <3> QED BY <1>1, <3>1, <3>3
  <2>3. CASE t.says.class # "known"
    <3>1. c.confidence = Clamp(Least(t.says.confidence, 30))
      BY <2>1, <2>3 DEF Parsed
    <3>2. c.confidence \in Int /\ c.confidence <= 30
      BY <2>1, <3>1 DEF Clamp, Most, Least
    <3>3. ok = FALSE /\ asks = TRUE
      BY <3>2
    <3> HIDE DEF ok, asks
    <3> QED BY <1>1, <3>3
  <2> QED BY <2>2, <2>3
<1> QED BY <1>3, <1>4

\* An extractor accepts what it does not ask about, and nothing that lacks a part.
LEMMA ExtractIsChecked ==
  ASSUME NEW t \in ExtractCalls
  PROVE  /\ ExtractFrom(t).success = ~ExtractFrom(t).hitl
         /\ ExtractFrom(t).success => t.says = Prose \/ t.says.whole
<1> DEFINE a == IF t.says = Prose THEN Fallback(t.agent) ELSE t.says
           c == IF a.whole THEN a.confidence ELSE Least(a.confidence, CapOf(t.agent))
           ok   == c >= Threshold(t.agent)
           asks == c < Threshold(t.agent)
<1>1. ExtractFrom(t).success = ok /\ ExtractFrom(t).hitl = asks
  BY DEF ExtractFrom, Asked
<1>2. t.agent \in Extractors
      /\ t.says \in {Prose} \cup [found : {0, 1}, whole : BOOLEAN, confidence : Certainties]
  BY DEF ExtractCalls
<1>3. Threshold(t.agent) \in Int /\ CapOf(t.agent) \in Int /\ Fallback(t.agent).confidence \in Int
  BY <1>2 DEF Threshold, CapOf, Fallback, Extractors
<1>4. a.confidence \in Int /\ (t.says # Prose => a = t.says)
  BY <1>2, <1>3, CertaintiesAssumption
<1>5. CapOf(t.agent) < Threshold(t.agent)
  BY <1>2 DEF Threshold, CapOf, Extractors
<1> HIDE DEF a
<1>6. c \in Int /\ (~a.whole => c < Threshold(t.agent))
  BY <1>3, <1>4, <1>5 DEF Least
<1> HIDE DEF c
<1>7. ok \in BOOLEAN /\ asks \in BOOLEAN /\ (ok <=> ~asks) /\ (~a.whole => ~ok)
  BY <1>3, <1>6
<1> HIDE DEF ok, asks
<1> QED BY <1>1, <1>4, <1>7

\* An order is accepted only whole, and with valid UPCs.
LEMMA PoIsChecked ==
  ASSUME NEW t \in PoCalls, ParsePo(t) # Raised
  PROVE  /\ ParsePo(t).success = ~ParsePo(t).hitl
         /\ ParsePo(t).success =>
              \A i \in DOMAIN ParsePo(t).data.items :
                ParsePo(t).data.items[i].present = 5 /\ ParsePo(t).data.items[i].upc = "good"
<1> DEFINE items   == PoItems(t)
           bad     == {i \in DOMAIN items : items[i].upc = "bad"}
           lacking == {i \in DOMAIN items : items[i].present < 5}
           asks    == bad # {} \/ lacking # {}
<1>1. items # Shapeless /\ ParsePo(t).success = ~asks /\ ParsePo(t).hitl = asks
      /\ ParsePo(t).data.items = items
  BY DEF ParsePo, Asked
<1>2. \A i \in DOMAIN items : items[i] \in PoItem
  <2>1. /\ t.says \in {Prose, Shapeless} \cup UNION {[1..n -> PoItem] : n \in 0..2}
        /\ t.mode \in {"items", "text"} /\ t.mode = "items" => t.says # Prose
    BY DEF PoCalls
  <2>2. CASE items = <<>>
    BY <2>2
  <2>3. CASE items # <<>>
    <3>1. items = t.says /\ t.says # Prose /\ t.says # Shapeless
      BY <1>1, <2>1, <2>3 DEF PoItems
    <3>2. PICK n \in 0..2 : t.says \in [1..n -> PoItem]
      BY <2>1, <3>1
    <3> QED BY <3>1, <3>2
  <2> QED BY <2>2, <2>3
<1> HIDE DEF items
<1>3. ASSUME ~asks, NEW i \in DOMAIN items
      PROVE  items[i].present = 5 /\ items[i].upc = "good"
  <2>1. items[i].upc # "bad" /\ ~(items[i].present < 5)
    BY <1>3
  <2>2. items[i].present \in {3, 5} /\ items[i].upc \in {"good", "bad"}
    BY <1>2, <1>3 DEF PoItem
  <2> QED BY <2>1, <2>2
<1> QED BY <1>1, <1>3

\* A fusion is accepted only when order and invoice have the same items and
\* every one of them fits, and takes a confident suggestion for a UPC that is
\* not valid.
LEMMA FusionIsChecked ==
  ASSUME NEW t \in FusionCalls, FuseSides(t) # Raised
  PROVE  /\ FuseSides(t).success = ~FuseSides(t).hitl
         /\ FuseSides(t).success =>
              /\ DOMAIN FuseSides(t).data.upc = {n \in ItemNumbers : t.sides[n].po \/ t.sides[n].pi}
              /\ \A n \in DOMAIN FuseSides(t).data.upc : t.sides[n].dims = "fit"
         /\ \A n \in DOMAIN FuseSides(t).data.upc : FuseSides(t).data.upc[n] # t.sides[n].upc =>
              t.sides[n].upc = "bad" /\ t.resolution.of = n /\ t.resolution.confidence >= 90
<1> DEFINE anomaly  == IF Joins(t) = {} THEN "none" ELSE t.anomaly
           critical == Lonely(t) # {} \/ TooLarge(t) # {} \/ anomaly = "critical"
<1>1. /\ ~\E n \in Joins(t) : t.sides[n].dims = "null"
      /\ FuseSides(t).success = ~critical /\ FuseSides(t).hitl = critical
      /\ FuseSides(t).data.upc = [n \in Joins(t) |-> FusedUpc(t, n)]
  BY DEF FuseSides, Asked
<1>2. ASSUME NEW n \in ItemNumbers
      PROVE  t.sides[n].po \in BOOLEAN /\ t.sides[n].pi \in BOOLEAN
             /\ t.sides[n].dims \in {"fit", "large", "null"}
  BY DEF FusionCalls, Sides
<1>3. ASSUME ~critical
      PROVE  /\ Joins(t) = {n \in ItemNumbers : t.sides[n].po \/ t.sides[n].pi}
             /\ \A n \in Joins(t) : t.sides[n].dims = "fit"
  <2>1. Lonely(t) = {} /\ TooLarge(t) = {}
    BY <1>3
  <2>2. \A n \in ItemNumbers : t.sides[n].po = t.sides[n].pi
    BY <2>1 DEF Lonely
  <2>3. \A n \in Joins(t) : n \in ItemNumbers /\ t.sides[n].dims # "large"
    BY <2>1 DEF TooLarge, Joins
  <2> QED BY <1>1, <1>2, <2>2, <2>3 DEF Joins
<1> HIDE DEF critical
<1>4. /\ DOMAIN FuseSides(t).data.upc = Joins(t)
      /\ \A n \in Joins(t) : FuseSides(t).data.upc[n] = FusedUpc(t, n)
  BY <1>1
<1>5. ASSUME NEW n \in Joins(t), FusedUpc(t, n) # t.sides[n].upc
      PROVE  t.sides[n].upc = "bad" /\ t.resolution.of = n /\ t.resolution.confidence >= 90
  BY <1>5 DEF FusedUpc, Applied, BadUpcs
<1> QED BY <1>1, <1>3, <1>4, <1>5

\* The agents' invariant holds.
THEOREM GInvariant == GSpec => []GInv
<1>1. GInit => GInv
  BY DEF GInit, GInv
<1> QED BY <1>1, GInvNext, PTL DEF GSpec

\* What an agent returns without asking a human has been checked: a known class,
\* a whole extraction or the sample that stands in for prose, a whole order with
\* valid UPCs, a fusion that left no item out and changed no valid UPC.
THEOREM AcceptedChecked == GSpec => []AcceptedIsChecked
<1>1. GInv => AcceptedIsChecked
  <2> SUFFICES ASSUME GInv, Answered PROVE AcceptedIsChecked
    BY DEF AcceptedIsChecked
  <2>1. errand \in Calls /\ Returned /\ outcome # Raised
    BY DEF GInv, Answered
  <2>2. CASE errand.agent = "intake" /\ outcome = ClassifyDocument(errand)
    BY <2>1, <2>2, CallsOfAgent, IntakeIsChecked DEF AcceptedIsChecked, Extractors
  <2>3. CASE errand.agent \in Extractors /\ outcome = ExtractFrom(errand)
    BY <2>1, <2>3, CallsOfAgent, ExtractIsChecked DEF AcceptedIsChecked, Extractors
  <2>4. CASE errand.agent = "po" /\ outcome = ParsePo(errand)
    BY <2>1, <2>4, CallsOfAgent, PoIsChecked DEF AcceptedIsChecked, Extractors
  <2>5. CASE errand.agent = "pi" /\ outcome = ParsePi(errand)
    BY <2>5 DEF AcceptedIsChecked, ParsePi, Asked, Extractors
  <2>6. CASE errand.agent = "fusion" /\ outcome = FuseSides(errand)
    <3>1. OnlyBadUpcsChange
      BY <2>1, <2>6, CallsOfAgent, FusionIsChecked DEF OnlyBadUpcsChange
    <3> QED BY <2>1, <2>6, <3>1, CallsOfAgent, FusionIsChecked DEF AcceptedIsChecked, Extractors
  <2> QED BY <2>1, <2>2, <2>3, <2>4, <2>5, <2>6 DEF Returned
<1> QED BY <1>1, GInvariant, PTL


-----------------------------------------------------------------------------
(* ImporterProfile: ProfilesAreKept.                                       *)

\* What a request remembers.
EditRow == [pc : {"none", "insert", "put", "row", "unlink", "unrow", "done"},
            fields : SUBSET Fields, version : Nat, doc : Doc \cup {<<>>}, saw : SUBSET Doc]

\* The requests that have begun: no version is above their number.
Launched == {e \in Edits : edit[e].pc # "none"}

\* The types the proof keeps.
FTypes ==
  /\ profiles \in Seq([Fields -> Edits \cup {"empty"}]) /\ docs \subseteq Doc
  /\ blobs \in [Versions -> Edits \cup {NoBytes}]
  /\ edit \in [Edits -> EditRow]

\* A request will write what follows from what it has read, and none of its
\* values is in a profile before it has ended.
Planned(e, x) ==
  /\ x.pc = "insert" => x.fields # {}
  /\ x.pc \in {"put", "row"} => x.version # 0
  /\ x.pc = "put" => x.version = NextVersion(x.saw)
  /\ x.pc = "unlink" => x.doc \in x.saw /\ x.version = x.doc.version
  /\ x.pc # "done" => \A m \in DOMAIN profiles, g \in Fields : profiles[m][g] # e

\* The version n is its predecessor with fields of one request, new then.
BuiltOn(n) ==
  \E e \in Edits, fs \in (SUBSET Fields) \ {{}} :
    /\ profiles[n] = [f \in Fields |-> IF f \in fs THEN e ELSE profiles[n - 1][f]]
    /\ \A m \in 1..(n - 1), g \in Fields : profiles[m][g] # e

\* The inductive invariant.
FInv ==
  /\ FTypes
  /\ Len(profiles) <= Cardinality(Launched) /\ \A d \in docs : d.version <= Cardinality(Launched)
  /\ \A e \in Edits : edit[e].version <= Cardinality(Launched) /\ Planned(e, edit[e])
  /\ \A n \in 2..Len(profiles) : BuiltOn(n)

\* A nonempty set of bounded naturals has a largest member.
LEMMA LargestExists ==
  ASSUME NEW N \in Nat, NEW S, S \subseteq 0..N, S # {}
  PROVE  \E v \in S : \A u \in S : u <= v
<1> DEFINE R == OpToRel(<, Nat)
           T == {N - v : v \in S}
<1>1. IsWellFoundedOn(R, Nat)
  BY NatLessThanWellFounded
<1>2. \A x, y \in Nat : x < y => <<x, y>> \in R
  BY DEF OpToRel
<1>3. T \subseteq Nat /\ T # {}
  <2>1. \A v \in S : N - v \in Nat
    OBVIOUS
  <2>2. T \subseteq Nat
    BY <2>1
  <2>3. T # {}
    OBVIOUS
  <2> QED BY <2>2, <2>3
<1> HIDE DEF R, T
<1>4. PICK x \in T : \A y \in T : ~(<<y, x>> \in R)
  BY <1>1, <1>3, WFMin
<1>5. PICK v \in S : x = N - v
  BY <1>4 DEF T
<1>6. ASSUME NEW u \in S PROVE u <= v
  <2>1. N - u \in T /\ N - u \in Nat /\ x \in Nat
    BY <1>3, <1>4 DEF T
  <2>2. ~(N - u < x)
    BY <1>2, <1>4, <2>1
  <2>3. u \in Nat /\ v \in Nat
    BY <1>5
  <2> QED BY <1>5, <2>2, <2>3
<1> QED BY <1>6

\* The next version is above all of them, and above the highest by one.
LEMMA NextIsAbove ==
  ASSUME NEW ds \in SUBSET Doc
  PROVE  /\ NextVersion(ds) \in Nat \ {0}
         /\ \A d \in ds : d.version < NextVersion(ds)
         /\ ds # {} => \E d \in ds : NextVersion(ds) = d.version + 1
         /\ ds = {} => NextVersion(ds) = 1
<1> DEFINE vs == {d.version : d \in ds}
           N  == Cardinality(Edits)
           v  == CHOOSE v \in vs : \A d \in ds : d.version <= v
<1>1. N \in Nat
  BY ProfileAssumption, FS_CardinalityType
<1>2. \A d \in ds : d.version \in Nat /\ d.version \in 0..N
  BY <1>1 DEF Doc, Versions
<1>3. CASE ds = {}
  BY <1>3 DEF NextVersion
<1>4. CASE ds # {}
  <2>1. vs \subseteq 0..N /\ vs # {}
    BY <1>2, <1>4
  <2>2. \E w \in vs : \A u \in vs : u <= w
    <3> HIDE DEF vs, N
    <3> QED BY <1>1, <2>1, LargestExists
  <2>3. \E w \in vs : \A d \in ds : d.version <= w
    BY <2>2
  <2>4. v \in vs /\ \A d \in ds : d.version <= v
    BY <2>3
  <2>5. NextVersion(ds) = 1 + v
    BY <1>4 DEF NextVersion
  <2> HIDE DEF v
  <2>6. PICK d \in ds : v = d.version
    BY <2>4
  <2>7. v \in Nat
    BY <1>2, <2>6
  <2>8. \A o \in ds : o.version < 1 + v
    BY <1>2, <2>4, <2>7
  <2>9. NextVersion(ds) = d.version + 1 /\ NextVersion(ds) \in Nat \ {0}
    BY <2>5, <2>6, <2>7
  <2> QED BY <1>4, <2>5, <2>8, <2>9
<1> QED BY <1>3, <1>4

\* How many requests have begun, before and after a step of one of them.
LEMMA LaunchedGrow ==
  ASSUME FTypes, NEW e \in Edits, NEW x \in EditRow, x.pc # "none",
         edit' = [edit EXCEPT ![e] = x]
  PROVE  /\ Cardinality(Launched) \in Nat /\ Cardinality(Launched') \in Nat
         /\ Cardinality(Launched') <= Cardinality(Edits) /\ Cardinality(Edits) \in Nat
         /\ Cardinality(Launched') >= Cardinality(Launched)
         /\ edit[e].pc = "none" => Cardinality(Launched') = Cardinality(Launched) + 1
<1>1. \A r \in Edits : edit'[r] = IF r = e THEN x ELSE edit[r]
  BY DEF FTypes
<1>2. Launched' = Launched \cup {e}
  BY <1>1 DEF Launched
<1>3. IsFiniteSet(Launched) /\ Launched \subseteq Edits /\ Launched' \subseteq Edits
  BY ProfileAssumption, FS_Subset DEF Launched
<1>4. /\ Cardinality(Launched) \in Nat /\ Cardinality(Edits) \in Nat
      /\ Cardinality(Launched') <= Cardinality(Edits) /\ Cardinality(Launched') \in Nat
  BY <1>3, ProfileAssumption, FS_Subset, FS_CardinalityType
<1>5. Cardinality(Launched') = IF e \in Launched THEN Cardinality(Launched) ELSE Cardinality(Launched) + 1
  BY <1>2, <1>3, FS_AddElement
<1>6. edit[e].pc = "none" => e \notin Launched
  BY DEF Launched
<1> HIDE <1>2, <1>3
<1> QED BY <1>4, <1>5, <1>6


\* The first state.
LEMMA FInvInit == FInit => FInv
<1> SUFFICES ASSUME FInit PROVE FInv
  OBVIOUS
<1>1. NoEdit \in EditRow /\ NoEdit.pc = "none" /\ NoEdit.version = 0
  BY DEF NoEdit, EditRow
<1>2. FTypes
  BY <1>1 DEF FInit, FTypes
<1>3. Len(profiles) = 0 /\ docs = {} /\ profiles = <<>>
  BY DEF FInit
<1>4. Cardinality(Launched) \in Nat
  <2>1. IsFiniteSet(Launched)
    BY ProfileAssumption, FS_Subset DEF Launched
  <2> QED BY <2>1, FS_CardinalityType
<1>5. ASSUME NEW e \in Edits
      PROVE  edit[e].version <= Cardinality(Launched) /\ Planned(e, edit[e])
  <2>1. edit[e] = NoEdit
    BY DEF FInit
  <2>2. Planned(e, NoEdit)
    BY <1>1, <1>3 DEF Planned
  <2>3. NoEdit.version <= Cardinality(Launched)
    BY <1>1, <1>4
  <2> QED BY <2>1, <2>2, <2>3
<1>6. Len(profiles) <= Cardinality(Launched) /\ 2..Len(profiles) = {}
  BY <1>3, <1>4
<1> QED BY <1>2, <1>3, <1>5, <1>6 DEF FInv

\* A step of one request that inserts no profile.
LEMMA EditMoves ==
  ASSUME FInv, NEW e \in Edits, NEW x \in EditRow, x.pc # "none",
         edit' = [edit EXCEPT ![e] = x], profiles' = profiles,
         docs' \subseteq Doc, \A d \in docs' : d \in docs \/ d.version <= Cardinality(Launched'),
         blobs' \in [Versions -> Edits \cup {NoBytes}],
         x.version <= Cardinality(Launched'), Planned(e, x)
  PROVE  FInv'
<1> DEFINE old == Cardinality(Launched)
           new == Cardinality(Launched')
<1>1. FTypes /\ FTypes'
  BY DEF FInv, FTypes
<1>2. old \in Nat /\ new \in Nat /\ new >= old
  BY <1>1, LaunchedGrow
<1>3. Len(profiles) \in Nat /\ Len(profiles) <= old /\ \A d \in docs : d.version \in Nat /\ d.version <= old
  BY <1>1 DEF FInv, FTypes, Doc, Versions
<1>4. \A r \in Edits : edit[r].version \in Nat /\ edit[r].version <= old /\ Planned(r, edit[r])
  BY <1>1 DEF FInv, FTypes, EditRow
<1>5. \A r \in Edits : edit'[r] = IF r = e THEN x ELSE edit[r]
  BY <1>1 DEF FTypes
<1>6. x.version <= new /\ \A d \in docs' : d \in docs \/ d.version <= new
  OBVIOUS
<1> HIDE DEF old, new
<1>7. Len(profiles) <= new /\ \A d \in docs' : d.version <= new
  BY <1>2, <1>3, <1>6
<1>8. \A r \in Edits : edit'[r].version <= new
  BY <1>2, <1>4, <1>5, <1>6
<1>9. \A r \in Edits : Planned(r, edit'[r])
  BY <1>4, <1>5
<1>10. \A r \in Edits : Planned(r, edit[r])'
  BY <1>9 DEF Planned
<1>11. ASSUME NEW n \in 2..Len(profiles) PROVE BuiltOn(n)'
  <2>1. BuiltOn(n) /\ profiles' = profiles
    BY DEF FInv
  <2> QED BY <2>1 DEF BuiltOn
<1>12. /\ Len(profiles') <= Cardinality(Launched') /\ \A d \in docs' : d.version <= Cardinality(Launched')
       /\ \A r \in Edits : edit'[r].version <= Cardinality(Launched')
  BY <1>7, <1>8 DEF new
<1> QED BY <1>1, <1>10, <1>11, <1>12 DEF FInv

\* What the invariant says of one request.
LEMMA EditOf ==
  ASSUME FInv, NEW e \in Edits
  PROVE  /\ edit[e] \in EditRow /\ Planned(e, edit[e])
         /\ edit[e].version <= Cardinality(Launched) /\ FTypes
         /\ NoEdit \in EditRow
BY DEF FInv, FTypes, NoEdit, EditRow

\* A request that ends keeps no plan, and stores a document at most.
LEMMA EndedIsPlanned ==
  ASSUME NEW e \in Edits, NEW n \in Nat
  PROVE  Ended \in EditRow /\ Ended.pc = "done" /\ Ended.version <= n /\ Planned(e, Ended)
<1>1. Ended \in EditRow /\ Ended.pc = "done" /\ Ended.version = 0
  BY DEF Ended, NoEdit, EditRow
<1>2. Ended.version <= n
  BY <1>1
<1> QED BY <1>1, <1>2 DEF Planned

\* A request that will insert a version with some fields of its own.
LEMMA FInvBeginInsert ==
  ASSUME FInv, NEW e \in Edits, NEW fs \in SUBSET Fields, fs # {},
         Goes(e, "none", [NoEdit EXCEPT !.pc = "insert", !.fields = fs,
                                        !.version = Len(profiles) + 1]),
         UNCHANGED <<profiles, docs, blobs>>
  PROVE  FInv'
<1> DEFINE x == [NoEdit EXCEPT !.pc = "insert", !.fields = fs, !.version = Len(profiles) + 1]
<1>1. edit[e].pc = "none" /\ edit' = [edit EXCEPT ![e] = x]
  BY DEF Goes
<1>2. NoEdit \in EditRow /\ FTypes /\ Planned(e, edit[e])
  BY EditOf
<1>3. Len(profiles) \in Nat /\ Len(profiles) <= Cardinality(Launched)
  BY <1>2 DEF FTypes, FInv
<1>4. Len(profiles) + 1 \in Nat
  BY <1>3
<1>5. x \in EditRow /\ x.pc = "insert" /\ x.fields = fs /\ x.version = Len(profiles) + 1
  BY <1>2, <1>4 DEF EditRow, NoEdit
<1> HIDE DEF x
<1>6. Cardinality(Launched) \in Nat /\ Cardinality(Launched') = Cardinality(Launched) + 1
  BY <1>1, <1>2, <1>5, LaunchedGrow
<1>7. x.version <= Cardinality(Launched')
  BY <1>3, <1>5, <1>6
<1>8. Planned(e, x)
  BY <1>1, <1>2, <1>5 DEF Planned
<1>9. /\ docs' \subseteq Doc /\ blobs' \in [Versions -> Edits \cup {NoBytes}]
      /\ \A d \in docs' : d \in docs \/ d.version <= Cardinality(Launched')
      /\ profiles' = profiles
  BY <1>2 DEF FTypes
<1> QED BY <1>1, <1>5, <1>7, <1>8, <1>9, EditMoves

\* A version is inserted only after the one that was read, and no other request
\* has used its values.
LEMMA FInvInsert ==
  ASSUME FInv, NEW e \in Edits, InsertProfile(e)
  PROVE  FInv'
<1>1. edit[e].pc = "insert" /\ edit' = [edit EXCEPT ![e] = Ended] /\ UNCHANGED <<docs, blobs>>
  BY DEF InsertProfile, Goes
<1>2. /\ edit[e] \in EditRow /\ Planned(e, edit[e]) /\ FTypes
      /\ edit[e].version <= Cardinality(Launched)
  BY EditOf
<1>3. /\ docs' \subseteq Doc /\ blobs' \in [Versions -> Edits \cup {NoBytes}]
      /\ \A d \in docs' : d \in docs \/ d.version <= Cardinality(Launched')
  BY <1>1, <1>2 DEF FTypes
<1>4. Ended \in EditRow /\ Ended.pc = "done"
  BY EndedIsPlanned
<1> DEFINE old == Cardinality(Launched)
           new == Cardinality(Launched')
<1>5. old \in Nat /\ new \in Nat /\ new >= old
  BY <1>1, <1>2, <1>4, LaunchedGrow
<1>6. Ended.version <= new /\ Planned(e, Ended)
  BY <1>5, EndedIsPlanned
<1>7. CASE edit[e].version # Len(profiles) + 1
  <2>1. profiles' = profiles
    BY <1>7 DEF InsertProfile
  <2> QED BY <1>1, <1>3, <1>4, <1>6, <2>1, EditMoves
<1>8. CASE edit[e].version = Len(profiles) + 1
  <2> DEFINE row  == Made(e)
             last == Len(profiles)
             fs   == edit[e].fields
  <2>1. last \in Nat /\ profiles \in Seq([Fields -> Edits \cup {"empty"}])
        /\ fs \in (SUBSET Fields) \ {{}} /\ last + 1 <= old
    BY <1>1, <1>2, <1>8 DEF FTypes, EditRow, Planned
  <2>2. row \in [Fields -> Edits \cup {"empty"}]
    <3>1. CASE last = 0
      BY <1>8, <3>1 DEF Made
    <3>2. CASE last # 0
      <4>1. profiles[last] \in [Fields -> Edits \cup {"empty"}] /\ edit[e].version # 1
            /\ edit[e].version - 1 = last
        BY <1>8, <2>1, <3>2
      <4> HIDE DEF last
      <4> QED BY <4>1 DEF Made
    <3> QED BY <3>1, <3>2
  <2>3. \A f \in Fields : \/ row[f] = e \/ row[f] = "empty"
                          \/ last \in 1..last /\ row[f] = profiles[last][f]
    <3>1. CASE last = 0
      BY <1>8, <3>1 DEF Made
    <3>2. CASE last # 0
      <4>1. edit[e].version # 1 /\ edit[e].version - 1 = last /\ last \in 1..last
        BY <1>8, <2>1, <3>2
      <4> HIDE DEF last
      <4> QED BY <4>1 DEF Made
    <3> QED BY <3>1, <3>2
  <2>4. last # 0 => row = [f \in Fields |-> IF f \in fs THEN e ELSE profiles[last][f]]
    <3> SUFFICES ASSUME last # 0
                 PROVE  row = [f \in Fields |-> IF f \in fs THEN e ELSE profiles[last][f]]
      OBVIOUS
    <3>1. edit[e].version # 1 /\ edit[e].version - 1 = last
      BY <1>8, <2>1
    <3> HIDE DEF last
    <3> QED BY <3>1 DEF Made
  <2> HIDE DEF row
  <2>5. profiles' = Append(profiles, row)
    BY <1>8 DEF InsertProfile, row
  <2>6. /\ profiles' \in Seq([Fields -> Edits \cup {"empty"}]) /\ Len(profiles') = last + 1
        /\ profiles'[last + 1] = row /\ \A n \in 1..last : profiles'[n] = profiles[n]
    BY <2>1, <2>2, <2>5, AppendProperties
  <2>7. \A m \in 1..last, g \in Fields : profiles[m][g] # e
    <3>1. DOMAIN profiles = 1..last
      BY <2>1
    <3> QED BY <1>1, <1>2, <3>1 DEF Planned
  <2>8. FTypes'
    BY <1>1, <1>2, <1>4, <2>6 DEF FTypes
  <2>9. \A r \in Edits : edit'[r] = IF r = e THEN Ended ELSE edit[r]
    BY <1>1, <1>2 DEF FTypes
  <2>10. ASSUME NEW r \in Edits PROVE edit'[r].version <= new /\ Planned(r, edit[r])'
    <3>1. CASE r = e
      <4>1. Planned(r, edit[r])'
        BY <1>4, <2>9, <3>1 DEF Planned
      <4> QED BY <1>6, <2>9, <3>1, <4>1
    <3>2. CASE r # e
      <4>1. edit'[r] = edit[r] /\ Planned(r, edit[r]) /\ edit[r].version \in Nat
            /\ edit[r].version <= old
        BY <2>9, <3>2, EditOf DEF EditRow
      <4>2. edit'[r].version <= new
        BY <1>5, <4>1
      <4>3. DOMAIN profiles = 1..last /\ DOMAIN profiles' = 1..(last + 1)
        BY <2>1, <2>6
      <4>4. \A m \in 1..(last + 1) : m \in 1..last \/ m = last + 1
        BY <2>1
      <4>5. r # "empty"
        BY ProfileAssumption
      <4>6. edit[r].pc # "done" => \A m \in 1..last, g \in Fields : profiles[m][g] # r
        BY <4>1, <4>3 DEF Planned
      <4> HIDE DEF last
      <4>7. edit[r].pc # "done" => \A g \in Fields : row[g] # r
        BY <2>3, <3>2, <4>5, <4>6
      <4>8. edit[r].pc # "done" => \A m \in 1..(last + 1), g \in Fields : profiles'[m][g] # r
        BY <2>6, <4>4, <4>6, <4>7
      <4>9. Planned(r, edit[r])'
        BY <4>1, <4>3, <4>8 DEF Planned
      <4> QED BY <4>2, <4>9
    <3> QED BY <3>1, <3>2
  <2>11. ASSUME NEW n \in 2..Len(profiles') PROVE BuiltOn(n)'
    <3>1. CASE n = last + 1
      <4>1. n - 1 = last /\ last # 0 /\ last \in 1..last
        BY <2>1, <3>1
      <4> HIDE DEF last
      <4>2. profiles'[n] = [f \in Fields |-> IF f \in fs THEN e ELSE profiles'[n - 1][f]]
        BY <2>4, <2>6, <3>1, <4>1
      <4>3. \A m \in 1..(n - 1), g \in Fields : profiles'[m][g] # e
        BY <2>6, <2>7, <4>1
      <4> QED BY <2>1, <4>2, <4>3 DEF BuiltOn
    <3>2. CASE n # last + 1
      <4>1. n \in 2..last /\ n \in 1..last /\ n - 1 \in 1..last
            /\ \A m \in 1..(n - 1) : m \in 1..last
        BY <2>1, <2>6, <3>2
      <4>2. BuiltOn(n)
        BY <4>1 DEF FInv
      <4> HIDE DEF last
      <4>3. PICK by \in Edits, gs \in (SUBSET Fields) \ {{}} :
              /\ profiles[n] = [f \in Fields |-> IF f \in gs THEN by ELSE profiles[n - 1][f]]
              /\ \A m \in 1..(n - 1), g \in Fields : profiles[m][g] # by
        BY <4>2 DEF BuiltOn
      <4>4. profiles'[n] = profiles[n] /\ profiles'[n - 1] = profiles[n - 1]
            /\ \A m \in 1..(n - 1) : profiles'[m] = profiles[m]
        BY <2>6, <4>1
      <4>5. profiles'[n] = [f \in Fields |-> IF f \in gs THEN by ELSE profiles'[n - 1][f]]
        BY <4>3, <4>4
      <4>6. \A m \in 1..(n - 1), g \in Fields : profiles'[m][g] # by
        BY <4>3, <4>4
      <4> QED BY <4>5, <4>6 DEF BuiltOn
    <3> QED BY <3>1, <3>2
  <2>12. Len(profiles') <= new
    BY <1>5, <2>1, <2>6
  <2>13. ASSUME NEW d \in docs' PROVE d.version <= new
    <3>1. d \in docs /\ d.version \in Nat /\ d.version <= old
      BY <1>1, <1>2 DEF FInv, FTypes, Doc, Versions
    <3> QED BY <1>5, <3>1
  <2> QED BY <2>8, <2>10, <2>11, <2>12, <2>13 DEF FInv
<1> QED BY <1>7, <1>8


\* An upload reads the documents and will store the next version.
LEMMA FInvBeginUpload ==
  ASSUME FInv, NEW e \in Edits, BeginUploadDoc(e)
  PROVE  FInv'
<1> DEFINE x == [NoEdit EXCEPT !.pc = "put", !.version = NextVersion(docs), !.saw = docs]
<1>1. edit[e].pc = "none" /\ edit' = [edit EXCEPT ![e] = x] /\ UNCHANGED <<profiles, docs, blobs>>
  BY DEF BeginUploadDoc, Goes
<1>2. NoEdit \in EditRow /\ FTypes /\ Planned(e, edit[e]) /\ docs \in SUBSET Doc
  BY EditOf DEF FTypes
<1>3. NextVersion(docs) \in Nat \ {0}
  BY <1>2, NextIsAbove
<1>4. x \in EditRow /\ x.pc = "put" /\ x.version = NextVersion(docs) /\ x.saw = docs
  BY <1>2, <1>3 DEF EditRow, NoEdit
<1> HIDE DEF x
<1>5. Cardinality(Launched) \in Nat /\ Cardinality(Launched') = Cardinality(Launched) + 1
  BY <1>1, <1>2, <1>4, LaunchedGrow
<1>6. x.version <= Cardinality(Launched')
  <2>1. CASE docs = {}
    BY <1>2, <1>4, <1>5, <2>1, NextIsAbove
  <2>2. CASE docs # {}
    <3>1. PICK d \in docs : NextVersion(docs) = d.version + 1
      BY <1>2, <2>2, NextIsAbove
    <3>2. d.version \in Nat /\ d.version <= Cardinality(Launched)
      BY <1>2 DEF FInv, Doc, Versions
    <3> QED BY <1>4, <1>5, <3>1, <3>2
  <2> QED BY <2>1, <2>2
<1>7. Planned(e, x)
  BY <1>1, <1>2, <1>3, <1>4 DEF Planned
<1>8. /\ docs' \subseteq Doc /\ blobs' \in [Versions -> Edits \cup {NoBytes}]
      /\ \A d \in docs' : d \in docs \/ d.version <= Cardinality(Launched')
      /\ profiles' = profiles
  BY <1>1, <1>2 DEF FTypes
<1> QED BY <1>1, <1>4, <1>6, <1>7, <1>8, EditMoves

\* A delete chooses a document of the highest version.
LEMMA FInvBeginDelete ==
  ASSUME FInv, NEW e \in Edits, BeginDelete(e)
  PROVE  FInv'
<1>1. UNCHANGED <<profiles, docs, blobs>>
  BY DEF BeginDelete
<1>2. PICK d \in docs : Goes(e, "none", [NoEdit EXCEPT !.pc = "unlink", !.doc = d, !.saw = docs,
                                                       !.version = d.version])
  BY DEF BeginDelete
<1> DEFINE x == [NoEdit EXCEPT !.pc = "unlink", !.doc = d, !.saw = docs, !.version = d.version]
<1>3. edit[e].pc = "none" /\ edit' = [edit EXCEPT ![e] = x]
  BY <1>2 DEF Goes
<1> HIDE <1>2
<1>4. NoEdit \in EditRow /\ FTypes /\ Planned(e, edit[e]) /\ docs \in SUBSET Doc
  BY EditOf DEF FTypes
<1>5. d \in Doc /\ d.version \in Nat /\ d.version <= Cardinality(Launched)
  BY <1>4 DEF FInv, Doc, Versions
<1>6. x \in EditRow /\ x.pc = "unlink" /\ x.version = d.version /\ x.saw = docs /\ x.doc = d
  BY <1>4, <1>5 DEF EditRow, NoEdit
<1> HIDE DEF x
<1>7. Cardinality(Launched) \in Nat /\ Cardinality(Launched') = Cardinality(Launched) + 1
  BY <1>3, <1>4, <1>6, LaunchedGrow
<1>8. x.version <= Cardinality(Launched')
  BY <1>5, <1>6, <1>7
<1>9. Planned(e, x)
  BY <1>3, <1>4, <1>6 DEF Planned
<1>10. /\ docs' \subseteq Doc /\ blobs' \in [Versions -> Edits \cup {NoBytes}]
       /\ \A o \in docs' : o \in docs \/ o.version <= Cardinality(Launched')
       /\ profiles' = profiles
  BY <1>1, <1>4 DEF FTypes
<1> QED BY <1>3, <1>6, <1>8, <1>9, <1>10, EditMoves

\* A request goes on after it has changed the blob store.
LEMMA FInvBlob ==
  ASSUME FInv, NEW e \in Edits, PutBlob(e) \/ DeleteBlob(e)
  PROVE  FInv'
<1>1. /\ edit[e] \in EditRow /\ Planned(e, edit[e]) /\ FTypes
      /\ edit[e].version <= Cardinality(Launched)
  BY EditOf
<1> DEFINE pc == IF edit[e].pc = "put" THEN "row" ELSE "unrow"
           x  == [edit[e] EXCEPT !.pc = pc]
<1>2. /\ edit' = [edit EXCEPT ![e] = x] /\ UNCHANGED <<profiles, docs>>
      /\ edit[e].pc \in {"put", "unlink"}
  BY DEF PutBlob, DeleteBlob, Goes
<1>3. blobs' \in [Versions -> Edits \cup {NoBytes}]
  BY <1>1 DEF PutBlob, DeleteBlob, FTypes
<1>4. pc \in {"row", "unrow"} /\ (pc = "row" => edit[e].pc = "put")
  OBVIOUS
<1> HIDE DEF pc
<1>5. x \in EditRow /\ x.pc = pc /\ x.version = edit[e].version
  BY <1>1, <1>4 DEF EditRow
<1> HIDE DEF x
<1>6. Cardinality(Launched) \in Nat /\ Cardinality(Launched') \in Nat
      /\ Cardinality(Launched') >= Cardinality(Launched)
  BY <1>1, <1>2, <1>4, <1>5, LaunchedGrow
<1>7. edit[e].version \in Nat
  BY <1>1 DEF EditRow
<1>8. x.version <= Cardinality(Launched')
  BY <1>1, <1>5, <1>6, <1>7
<1>9. Planned(e, x)
  BY <1>1, <1>2, <1>4, <1>5 DEF Planned
<1>10. /\ docs' \subseteq Doc /\ profiles' = profiles
       /\ \A o \in docs' : o \in docs \/ o.version <= Cardinality(Launched')
  BY <1>1, <1>2 DEF FTypes
<1> QED BY <1>2, <1>3, <1>4, <1>5, <1>8, <1>9, <1>10, EditMoves

\* The row of a document is stored or deleted.
LEMMA FInvCommit ==
  ASSUME FInv, NEW e \in Edits, CommitDoc(e) \/ CommitDelete(e)
  PROVE  FInv'
<1>1. /\ edit[e] \in EditRow /\ Planned(e, edit[e]) /\ FTypes
      /\ edit[e].version <= Cardinality(Launched)
  BY EditOf
<1>2. edit' = [edit EXCEPT ![e] = Ended] /\ UNCHANGED <<profiles, blobs>>
  BY DEF CommitDoc, CommitDelete, Goes
<1>3. Ended \in EditRow /\ Ended.pc = "done"
  BY EndedIsPlanned
<1>4. Cardinality(Launched) \in Nat /\ Cardinality(Launched') \in Nat
      /\ Cardinality(Launched') >= Cardinality(Launched)
      /\ Cardinality(Launched') <= Cardinality(Edits) /\ Cardinality(Edits) \in Nat
  BY <1>1, <1>2, <1>3, LaunchedGrow
<1>5. Ended.version <= Cardinality(Launched') /\ Planned(e, Ended)
  BY <1>4, EndedIsPlanned
<1>6. edit[e].version \in Nat /\ edit[e].version <= Cardinality(Launched')
  <2>1. edit[e].version \in Nat
    BY <1>1 DEF EditRow
  <2> QED BY <1>1, <1>4, <2>1
<1>7. docs' \subseteq Doc /\ \A d \in docs' : d \in docs \/ d.version <= Cardinality(Launched')
  <2>1. CASE CommitDoc(e)
    <3> DEFINE d == [version |-> edit[e].version, by |-> e]
    <3>1. docs' = docs \cup {d} /\ edit[e].pc = "row"
      BY <2>1 DEF CommitDoc, Goes
    <3>2. edit[e].version # 0
      BY <1>1, <3>1 DEF Planned
    <3>3. edit[e].version \in Versions
      BY <1>4, <1>6, <3>2 DEF Versions
    <3>4. d \in Doc /\ d.version = edit[e].version
      BY <3>3 DEF Doc
    <3> HIDE DEF d
    <3> QED BY <1>1, <1>6, <3>1, <3>4 DEF FTypes
  <2>2. CASE CommitDelete(e)
    BY <1>1, <2>2 DEF CommitDelete, FTypes
  <2> QED BY <2>1, <2>2
<1>8. profiles' = profiles /\ blobs' \in [Versions -> Edits \cup {NoBytes}]
  BY <1>1, <1>2 DEF FTypes
<1> QED BY <1>2, <1>3, <1>5, <1>7, <1>8, EditMoves

\* Every step keeps the invariant.
LEMMA FInvNext == FInv /\ [FNext]_fvars => FInv'
<1> SUFFICES ASSUME FInv, [FNext]_fvars PROVE FInv'
  OBVIOUS
<1>1. CASE UNCHANGED fvars
  <2>1. profiles' = profiles /\ docs' = docs /\ blobs' = blobs /\ edit' = edit
    BY <1>1 DEF fvars
  <2>2. Launched' = Launched /\ FTypes'
    BY <2>1 DEF FInv, FTypes, Launched
  <2>3. ASSUME NEW e \in Edits PROVE Planned(e, edit[e])'
    BY <2>1, EditOf DEF Planned
  <2>4. ASSUME NEW n \in 2..Len(profiles) PROVE BuiltOn(n)'
    <3>1. BuiltOn(n)
      BY DEF FInv
    <3> QED BY <2>1, <3>1 DEF BuiltOn
  <2> QED BY <2>1, <2>2, <2>3, <2>4 DEF FInv
<1>2. ASSUME NEW e \in Edits, NEW fs \in (SUBSET Fields) \ {{}}, BeginUpdateImporter(e, fs)
      PROVE  FInv'
  <2>1. UNCHANGED <<profiles, docs, blobs>>
        /\ Goes(e, "none", [NoEdit EXCEPT !.pc = "insert", !.fields = fs,
                                          !.version = Len(profiles) + 1])
    BY <1>2 DEF BeginUpdateImporter
  <2> QED BY <2>1, FInvBeginInsert
<1>3. ASSUME NEW e \in Edits, BeginSanitize(e) PROVE FInv'
  <2>1. UNCHANGED <<profiles, docs, blobs>>
        /\ Goes(e, "none", [NoEdit EXCEPT !.pc = "insert", !.fields = {"panel_layouts"},
                                          !.version = Len(profiles) + 1])
    BY <1>3 DEF BeginSanitize
  <2>2. {"panel_layouts"} \in SUBSET Fields /\ {"panel_layouts"} # {}
    BY ProfileAssumption
  <2> QED BY <2>1, <2>2, FInvBeginInsert
<1>4. ASSUME NEW e \in Edits,
             \/ InsertProfile(e) \/ BeginUploadDoc(e) \/ PutBlob(e) \/ CommitDoc(e)
             \/ BeginDelete(e) \/ DeleteBlob(e) \/ CommitDelete(e)
      PROVE  FInv'
  BY <1>4, FInvInsert, FInvBeginUpload, FInvBeginDelete, FInvBlob, FInvCommit
<1> QED BY <1>1, <1>2, <1>3, <1>4 DEF FNext

\* Every profile version builds on its predecessor, and every request will
\* write what follows from what it has read.
THEOREM FInvariant == FSpec => []FInv
<1> QED BY FInvInit, FInvNext, PTL DEF FSpec

\* The variables keep their types; no version is above the number of requests.
THEOREM FTypeCorrect == FSpec => []FTypeOK
<1>1. FInv => FTypeOK
  <2> SUFFICES ASSUME FInv PROVE FTypeOK
    OBVIOUS
  <2>1. FTypes /\ \A e \in Edits : edit[e].version <= Cardinality(Launched)
    BY DEF FInv
  <2>2. Cardinality(Launched) \in Nat /\ Cardinality(Edits) \in Nat
        /\ Cardinality(Launched) <= Cardinality(Edits)
    <3>1. Launched \subseteq Edits
      BY DEF Launched
    <3> QED BY <3>1, ProfileAssumption, FS_Subset, FS_CardinalityType
  <2>3. \A e \in Edits : edit[e].version \in Nat /\ edit[e].saw \subseteq Doc
    BY <2>1 DEF FTypes, EditRow
  <2>4. \A e \in Edits : edit[e].version \in 0..Cardinality(Edits)
    BY <2>1, <2>2, <2>3
  <2>5. \A n \in DOMAIN profiles : profiles[n] \in [Fields -> Edits \cup {"empty"}]
    BY <2>1 DEF FTypes
  <2> QED BY <2>1, <2>3, <2>4, <2>5 DEF FTypeOK, FTypes
<1> QED BY <1>1, FInvariant, PTL


\* A version that is its predecessor with fields of one request, new then,
\* differs from it in just these fields.
LEMMA OneWriterPerVersion ==
  ASSUME FInv
  PROVE  VersionsBuildOnEachOther
<1> SUFFICES ASSUME NEW n \in 2..Len(profiles),
                    NEW changed, changed = {f \in Fields : profiles[n][f] # profiles[n - 1][f]}
             PROVE  /\ Cardinality({profiles[n][f] : f \in changed}) = 1
                    /\ \A m \in 1..(n - 1), f \in changed, g \in Fields :
                         profiles[m][g] # profiles[n][f]
  BY DEF VersionsBuildOnEachOther
<1>1. PICK e \in Edits, fs \in (SUBSET Fields) \ {{}} :
        /\ profiles[n] = [f \in Fields |-> IF f \in fs THEN e ELSE profiles[n - 1][f]]
        /\ \A m \in 1..(n - 1), g \in Fields : profiles[m][g] # e
  BY DEF FInv, BuiltOn
<1>2. n - 1 \in 1..(n - 1)
  OBVIOUS
<1>3. \A f \in Fields : profiles[n - 1][f] # e
  BY <1>1, <1>2
<1>4. \A f \in Fields : profiles[n][f] = IF f \in fs THEN e ELSE profiles[n - 1][f]
  BY <1>1
<1>5. changed = fs
  BY <1>3, <1>4
<1>6. \A f \in changed : profiles[n][f] = e
  BY <1>4, <1>5
<1>7. {profiles[n][f] : f \in changed} = {e}
  BY <1>5, <1>6
<1>8. Cardinality({e}) = 1
  BY FS_Singleton
<1>9. Cardinality({profiles[n][f] : f \in changed}) = 1
  BY <1>7, <1>8
<1>10. \A m \in 1..(n - 1), f \in changed, g \in Fields : profiles[m][g] # profiles[n][f]
  BY <1>1, <1>6
<1> QED BY <1>9, <1>10

\* A step that changes the bytes behind a document that stays is one of those
\* that the property names.
LEMMA BytesOfOthers ==
  ASSUME FInv, [FNext]_fvars
  PROVE  BytesChangeByARace
<1> SUFFICES ASSUME NEW d \in docs, d \in docs', blobs[d.version] = d.by, blobs'[d.version] # d.by
             PROVE  \E e \in Edits : /\ edit'[e] # edit[e] /\ edit[e].version = d.version
                                     /\ \/ edit[e].doc = d
                                        \/ d \notin edit[e].saw
                                        \/ \E o \in edit[e].saw \ {d} : o.version = d.version
  BY DEF BytesChangeByARace
<1>1. FTypes /\ d \in Doc /\ d.version \in Versions /\ d.version \in Nat /\ blobs' # blobs
  <2>1. FTypes /\ d \in Doc /\ blobs' # blobs
    BY DEF FInv, FTypes
  <2>2. d.version \in Versions
    BY <2>1 DEF Doc
  <2> QED BY <2>1, <2>2 DEF Versions
<1>2. PICK e \in Edits : PutBlob(e) \/ DeleteBlob(e)
  <2>1. FNext
    BY <1>1 DEF fvars
  <2> QED BY <1>1, <2>1 DEF FNext, BeginUpdateImporter, BeginSanitize, InsertProfile, BeginUploadDoc,
                            CommitDoc, BeginDelete, CommitDelete
<1>3. edit[e] \in EditRow /\ Planned(e, edit[e])
  BY EditOf
<1>4. edit'[e] # edit[e]
  <2>1. edit'[e].pc # edit[e].pc
    BY <1>1, <1>2, <1>3 DEF PutBlob, DeleteBlob, Goes, FTypes, EditRow
  <2> QED BY <2>1
<1>5. edit[e].version = d.version
  <2>1. CASE PutBlob(e)
    BY <1>1, <2>1 DEF PutBlob, FTypes
  <2>2. CASE DeleteBlob(e)
    BY <1>1, <2>2 DEF DeleteBlob, FTypes
  <2> QED BY <1>2, <2>1, <2>2
<1>6. CASE PutBlob(e)
  <2>1. edit[e].version = NextVersion(edit[e].saw) /\ edit[e].saw \in SUBSET Doc
    BY <1>3, <1>6 DEF PutBlob, Goes, Planned, EditRow
  <2>2. d \notin edit[e].saw
    <3>1. \A o \in edit[e].saw : o.version < NextVersion(edit[e].saw)
      BY <2>1, NextIsAbove
    <3>2. d.version = NextVersion(edit[e].saw)
      BY <1>5, <2>1
    <3>3. ~(d.version < d.version)
      BY <1>1
    <3> HIDE <1>5, <2>1
    <3> QED BY <3>1, <3>2, <3>3
  <2> QED BY <1>4, <1>5, <2>2
<1>7. CASE DeleteBlob(e)
  <2>1. edit[e].doc \in edit[e].saw /\ edit[e].doc.version = edit[e].version
    BY <1>3, <1>7 DEF DeleteBlob, Goes, Planned
  <2> QED BY <1>4, <1>5, <2>1
<1> QED BY <1>2, <1>6, <1>7

\* No edit of a profile is lost although requests overlap, and the bytes of a
\* stored document change only by the races the property names.
THEOREM ProfilesKept == FSpec => ProfilesAreKept
<1>1. FInv /\ FInv' /\ [FNext]_fvars => [VersionsBuildOnEachOther' /\ BytesChangeByARace]_fvars
  <2> SUFFICES ASSUME FInv, FInv', [FNext]_fvars
               PROVE  VersionsBuildOnEachOther' /\ BytesChangeByARace
    OBVIOUS
  <2>1. BytesChangeByARace
    BY BytesOfOthers
  <2>2. FInv => VersionsBuildOnEachOther
    BY OneWriterPerVersion
  <2>3. (FInv => VersionsBuildOnEachOther)'
    BY OneWriterPerVersion, PTL
  <2> QED BY <2>1, <2>3
<1> QED BY <1>1, FInvariant, PTL DEF FSpec, ProfilesAreKept


-----------------------------------------------------------------------------
(* Onboarding: FreshCommitsAreSound.                                       *)

\* A request, or the task it left behind.
JobRow == [op : {"none", "start", "upload", "rerun", "finalize", "promote"},
           pc : {"idle", "commit", "agents", "write", "done", "raised"},
           base : Seq(Session), copy : Seq(Session), sid : Nat,
           todo : SUBSET AgentKeys, key : AgentKeys, version : Nat]

\* The types the proof keeps.
NTypes ==
  /\ onb \in Seq(Session) /\ brands \in Seq(Result)
  /\ canon \in [AgentKeys \ {"protocol"} -> Result]
  /\ job \in [Jobs -> JobRow] /\ stops \in 0..MaxStops

\* What a request may have made of the rows it read: a new one behind them, and
\* no other result or readiness.
RequestCopy(base, copy) ==
  /\ Len(copy) = Len(base) \/ Len(copy) = Len(base) + 1
  /\ \A n \in 1..Len(base) :
       /\ copy[n].values = base[n].values
       /\ copy[n].status = "ready_for_review" => base[n].status = "ready_for_review"

\* What a task may have made of them: the result of its own agent, and readiness
\* only when no agent runs.
TaskCopy(j, key, base, copy) ==
  /\ Len(copy) = Len(base)
  /\ \A n \in 1..Len(base) :
       /\ \A k \in AgentKeys : copy[n].values[k] # base[n].values[k] => k = key /\ copy[n].values[k] = j
       /\ copy[n].status = "ready_for_review" =>
            base[n].status = "ready_for_review" \/ \A k \in AgentKeys : copy[n].agents[k] # "running"

\* What a request or a task j, at c, may be about to write.
JobSound(j, c) ==
  /\ c.sid <= Len(onb)
  /\ c.pc = "commit" => RequestCopy(c.base, c.copy)
  /\ c.pc = "write" => TaskCopy(j, c.key, c.base, c.copy)

\* The inductive invariant.
NInv == NTypes /\ \A j \in Jobs : JobSound(j, job[j])

\* The rows that a commit leaves.
LEMMA StoredRows ==
  ASSUME onb \in Seq(Session), NEW base \in Seq(Session), NEW copy \in Seq(Session),
         Len(copy) = Len(base) \/ Len(copy) = Len(base) + 1
  PROVE  /\ Stored(base, copy) \in Seq(Session) /\ Len(Stored(base, copy)) >= Len(onb)
         /\ \A n \in 1..Len(onb) :
              Stored(base, copy)[n] =
                IF n > Len(base) THEN onb[n]
                ELSE [status |-> Kept(base[n].status, copy[n].status, onb[n].status),
                      agents |-> Kept(base[n].agents, copy[n].agents, onb[n].agents),
                      values |-> Kept(base[n].values, copy[n].values, onb[n].values)]
<1> DEFINE row(n) == [status |-> Kept(base[n].status, copy[n].status, onb[n].status),
                      agents |-> Kept(base[n].agents, copy[n].agents, onb[n].agents),
                      values |-> Kept(base[n].values, copy[n].values, onb[n].values)]
           merged == [n \in 1..Len(onb) |-> IF n > Len(base) THEN onb[n] ELSE row(n)]
<1>1. ASSUME NEW n \in 1..Len(onb), ~(n > Len(base)) PROVE row(n) \in Session
  <2>1. n \in 1..Len(base) /\ n \in 1..Len(copy)
    BY <1>1
  <2>2. onb[n] \in Session /\ base[n] \in Session /\ copy[n] \in Session
    BY <2>1
  <2> QED BY <2>2 DEF Session, Kept
<1> HIDE DEF row
<1>2. \A n \in 1..Len(onb) : merged[n] \in Session
  BY <1>1
<1>3. merged \in Seq(Session) /\ Len(merged) = Len(onb)
  <2>1. Len(onb) \in Nat
    OBVIOUS
  <2>2. merged \in [1..Len(onb) -> Session]
    BY <1>2
  <2> HIDE DEF merged
  <2> QED BY <2>1, <2>2
<1>4. \A n \in 1..Len(onb) : merged[n] = IF n > Len(base) THEN onb[n] ELSE row(n)
  OBVIOUS
<1>5. Stored(base, copy) = IF Len(copy) = Len(base) THEN merged ELSE Append(merged, copy[Len(copy)])
  BY DEF Stored, row
<1> HIDE DEF merged
<1>6. CASE Len(copy) = Len(base)
  <2>1. Len(merged) >= Len(onb)
    BY <1>3
  <2> QED BY <1>3, <1>4, <1>5, <1>6, <2>1 DEF row
<1>7. CASE Len(copy) # Len(base)
  <2>1. copy[Len(copy)] \in Session
    <3>1. Len(copy) \in 1..Len(copy)
      BY <1>7
    <3> QED BY <3>1
  <2>2. Stored(base, copy) = Append(merged, copy[Len(copy)])
    BY <1>5, <1>7
  <2>3. /\ Stored(base, copy) \in Seq(Session) /\ Len(Stored(base, copy)) = Len(onb) + 1
        /\ \A n \in 1..Len(onb) : Stored(base, copy)[n] = merged[n]
    BY <1>3, <2>1, <2>2, AppendProperties
  <2>4. Len(Stored(base, copy)) >= Len(onb)
    BY <2>3
  <2> QED BY <1>4, <2>3, <2>4 DEF row
<1> QED BY <1>6, <1>7


\* The first state.
LEMMA NInvInit == NInit => NInv
<1> SUFFICES ASSUME NInit PROVE NInv
  OBVIOUS
<1>1. NoJob \in JobRow /\ NoJob.sid = 0 /\ NoJob.pc = "idle"
  BY OnboardingAssumption DEF NoJob, JobRow
<1>2. NTypes
  BY <1>1, OnboardingAssumption DEF NInit, NTypes, Result
<1>3. ASSUME NEW j \in Jobs PROVE JobSound(j, job[j])
  <2>1. job[j] = NoJob /\ Len(onb) = 0
    BY DEF NInit
  <2>2. NoJob.sid <= Len(onb)
    BY <1>1, <2>1
  <2>3. JobSound(j, NoJob)
    BY <1>1, <2>2 DEF JobSound
  <2> QED BY <2>1, <2>3
<1> QED BY <1>2, <1>3 DEF NInv

\* A step of one job, which loses no session.
LEMMA JobMoves ==
  ASSUME NInv, NEW j \in Jobs, NEW x \in JobRow, job' = [job EXCEPT ![j] = x],
         onb' \in Seq(Session), Len(onb') >= Len(onb), brands' \in Seq(Result),
         canon' \in [AgentKeys \ {"protocol"} -> Result], stops' = stops,
         JobSound(j, x)'
  PROVE  NInv'
<1>1. NTypes /\ \A i \in Jobs : job[i] \in JobRow /\ JobSound(i, job[i])
  BY DEF NInv, NTypes
<1>2. NTypes'
  BY <1>1 DEF NTypes
<1>3. \A i \in Jobs : job'[i] = IF i = j THEN x ELSE job[i]
  BY <1>1 DEF NTypes
<1>4. Len(onb) \in Nat /\ Len(onb') \in Nat
  BY <1>1 DEF NTypes
<1>5. ASSUME NEW i \in Jobs, i # j PROVE JobSound(i, job[i])'
  <2>1. job'[i] = job[i] /\ JobSound(i, job[i]) /\ job[i].sid \in Nat
    BY <1>1, <1>3, <1>5 DEF JobRow
  <2>2. job[i].sid <= Len(onb')
    BY <1>4, <2>1 DEF JobSound
  <2> QED BY <2>1, <2>2 DEF JobSound
<1>6. JobSound(j, job[j])'
  BY <1>3 DEF JobSound
<1> QED BY <1>2, <1>5, <1>6 DEF NInv

\* A request that opens the rows and changes none or adds one.
LEMMA RequestBegins ==
  ASSUME NInv, NEW j \in Jobs, NEW x \in JobRow, x.pc = "commit", BeginJob(j, x),
         x.sid <= Len(onb), RequestCopy(x.base, x.copy)
  PROVE  NInv'
<1>1. job' = [job EXCEPT ![j] = x] /\ UNCHANGED <<onb, brands, canon, stops>>
  BY DEF BeginJob
<1>2. JobSound(j, x)'
  BY <1>1 DEF JobSound
<1>3. onb' \in Seq(Session) /\ Len(onb') >= Len(onb) /\ brands' \in Seq(Result)
      /\ canon' \in [AgentKeys \ {"protocol"} -> Result] /\ stops' = stops
  BY <1>1 DEF NInv, NTypes
<1> QED BY <1>1, <1>2, <1>3, JobMoves

\* A change that leaves a session's results alone and makes it no readier.
Harmless(s, t) == /\ t \in Session /\ t.values = s.values
                  /\ t.status = "ready_for_review" => s.status = "ready_for_review"

\* The copy that start, upload and rerun make of the rows.
LEMMA OpenedSound ==
  ASSUME NInv, NEW j \in Jobs, NEW op \in {"start", "upload", "rerun"}, NEW sid \in 0..Len(onb),
         NEW ks \in SUBSET AgentKeys, NEW fresh \in Session, NEW t,
         sid # 0 => Harmless(onb[sid], t), NEW copy,
         copy = IF sid = 0 THEN Append(onb, fresh) ELSE [onb EXCEPT ![sid] = t],
         BeginJob(j, [NoJob EXCEPT !.op = op, !.pc = "commit", !.base = onb, !.sid = sid,
                                   !.todo = ks, !.copy = copy])
  PROVE  NInv'
<1> DEFINE x == [NoJob EXCEPT !.op = op, !.pc = "commit", !.base = onb, !.sid = sid,
                              !.todo = ks, !.copy = copy]
<1>1. onb \in Seq(Session) /\ Len(onb) \in Nat /\ NoJob \in JobRow
  BY OnboardingAssumption DEF NInv, NTypes, NoJob, JobRow
<1>2. copy \in Seq(Session) /\ RequestCopy(onb, copy)
  <2>1. CASE sid = 0
    <3>1. copy = Append(onb, fresh)
      BY <2>1
    <3>2. copy \in Seq(Session) /\ Len(copy) = Len(onb) + 1 /\ \A n \in 1..Len(onb) : copy[n] = onb[n]
      BY <1>1, <3>1, AppendProperties
    <3> QED BY <3>2 DEF RequestCopy
  <2>2. CASE sid # 0
    <3>1. copy = [onb EXCEPT ![sid] = t] /\ Harmless(onb[sid], t) /\ sid \in 1..Len(onb)
      BY <1>1, <2>2
    <3>2. copy \in Seq(Session) /\ Len(copy) = Len(onb)
          /\ \A n \in 1..Len(onb) : copy[n] = IF n = sid THEN t ELSE onb[n]
      BY <1>1, <3>1 DEF Harmless
    <3> QED BY <3>1, <3>2 DEF RequestCopy, Harmless
  <2> QED BY <2>1, <2>2
<1>3. x \in JobRow /\ x.pc = "commit" /\ x.sid = sid /\ x.base = onb /\ x.copy = copy
  <2>1. sid \in Nat
    BY <1>1
  <2> HIDE <1>2
  <2>2. copy \in Seq(Session)
    BY <1>2
  <2> QED BY <1>1, <2>1, <2>2 DEF JobRow
<1>4. BeginJob(j, x)
  OBVIOUS
<1> HIDE DEF x
<1>5. x.sid <= Len(onb)
  BY <1>1, <1>3
<1> QED BY <1>2, <1>3, <1>4, <1>5, RequestBegins

\* The session a new one begins as.
LEMMA FreshIsSession == FreshSession \in Session
BY DEF FreshSession, Session, Result

\* start adds a session.
LEMMA NInvStart ==
  ASSUME NInv, NEW j \in Jobs, BeginStart(j)
  PROVE  NInv'
<1> DEFINE copy == IF 0 = 0 THEN Append(onb, FreshSession) ELSE [onb EXCEPT ![0] = onb[0]]
<1>1. BeginJob(j, [NoJob EXCEPT !.op = "start", !.pc = "commit", !.base = onb, !.sid = 0,
                                !.todo = {}, !.copy = copy])
  BY DEF BeginStart, Opened
<1>2. 0 \in 0..Len(onb)
  BY DEF NInv, NTypes
<1>3. copy = IF 0 = 0 THEN Append(onb, FreshSession) ELSE [onb EXCEPT ![0] = onb[0]]
  OBVIOUS
<1> HIDE DEF copy
<1> QED BY <1>1, <1>2, <1>3, FreshIsSession, OpenedSound

\* upload adds one or takes up the latest in progress, whose agents it starts.
LEMMA NInvUpload ==
  ASSUME NInv, NEW j \in Jobs, NEW ks \in SUBSET AgentKeys, BeginUpload(j, ks)
  PROVE  NInv'
<1> DEFINE up(s) == [s EXCEPT !.agents = [k \in AgentKeys |-> IF k \in ks THEN "running"
                                                             ELSE s.agents[k]]]
           sid == IF InProgress = {} THEN 0 ELSE Latest(InProgress)
           copy == IF sid = 0 THEN Append(onb, up(FreshSession)) ELSE [onb EXCEPT ![sid] = up(onb[sid])]
<1>1. onb \in Seq(Session) /\ Len(onb) \in Nat
  BY DEF NInv, NTypes
<1>2. sid \in 0..Len(onb)
  <2>1. CASE InProgress = {}
    BY <1>1, <2>1
  <2>2. CASE InProgress # {}
    <3>1. InProgress \subseteq 0..Len(onb) /\ InProgress \subseteq 1..Len(onb)
      BY <1>1 DEF InProgress
    <3>2. \E n \in InProgress : \A m \in InProgress : m <= n
      <4> DEFINE N == Len(onb)
                 S == InProgress
      <4>1. N \in Nat /\ S \subseteq 0..N /\ S # {}
        BY <1>1, <2>2, <3>1
      <4> HIDE DEF N, S
      <4>2. \E n \in S : \A m \in S : m <= n
        BY <4>1, LargestExists
      <4> QED BY <4>2 DEF S
    <3>3. Latest(InProgress) \in InProgress
      BY <3>2 DEF Latest
    <3> QED BY <2>2, <3>1, <3>3
  <2> QED BY <2>1, <2>2
<1>3. ASSUME NEW s \in Session PROVE Harmless(s, up(s))
  BY <1>3 DEF Harmless, Session
<1>4. BeginJob(j, [NoJob EXCEPT !.op = "upload", !.pc = "commit", !.base = onb, !.sid = sid,
                                !.todo = ks, !.copy = copy])
  BY DEF BeginUpload, Opened
<1>5. copy = IF sid = 0 THEN Append(onb, up(FreshSession)) ELSE [onb EXCEPT ![sid] = up(onb[sid])]
  OBVIOUS
<1> HIDE DEF copy, up, sid
<1>6. up(FreshSession) \in Session
  BY <1>3, FreshIsSession DEF Harmless
<1>7. sid # 0 => Harmless(onb[sid], up(onb[sid]))
  <2>1. sid # 0 => onb[sid] \in Session
    BY <1>1, <1>2
  <2> QED BY <1>3, <2>1
<1> QED BY <1>2, <1>4, <1>5, <1>6, <1>7, OpenedSound

\* rerun takes up the newest session and starts one agent of it.
LEMMA NInvRerun ==
  ASSUME NInv, NEW j \in Jobs, NEW k \in AgentKeys, BeginRerun(j, k)
  PROVE  NInv'
<1> DEFINE up(s) == [s EXCEPT !.agents[k] = "running",
                              !.status = IF @ = "completed" THEN "in_progress" ELSE @]
           sid == Len(onb)
           copy == IF sid = 0 THEN Append(onb, up(FreshSession)) ELSE [onb EXCEPT ![sid] = up(onb[sid])]
<1>1. onb \in Seq(Session) /\ Len(onb) \in Nat
  BY DEF NInv, NTypes
<1>2. sid \in 0..Len(onb)
  BY <1>1
<1>3. ASSUME NEW s \in Session PROVE Harmless(s, up(s))
  BY <1>3 DEF Harmless, Session
<1>4. BeginJob(j, [NoJob EXCEPT !.op = "rerun", !.pc = "commit", !.base = onb, !.sid = sid,
                                !.todo = {k}, !.copy = copy])
  BY DEF BeginRerun, Opened
<1>5. copy = IF sid = 0 THEN Append(onb, up(FreshSession)) ELSE [onb EXCEPT ![sid] = up(onb[sid])]
  OBVIOUS
<1> HIDE DEF copy, up, sid
<1>6. up(FreshSession) \in Session
  BY <1>3, FreshIsSession DEF Harmless
<1>7. sid # 0 => Harmless(onb[sid], up(onb[sid]))
  <2>1. sid # 0 => onb[sid] \in Session
    BY <1>1, <1>2
  <2> QED BY <1>3, <2>1
<1>8. {k} \in SUBSET AgentKeys
  OBVIOUS
<1> QED BY <1>2, <1>4, <1>5, <1>6, <1>7, <1>8, OpenedSound

\* finalize closes every session.
LEMMA NInvFinalize ==
  ASSUME NInv, NEW j \in Jobs, BeginFinalize(j)
  PROVE  NInv'
<1> DEFINE copy == [n \in DOMAIN onb |-> [onb[n] EXCEPT !.status = "completed"]]
           version == Len(brands) + 1
           x == [NoJob EXCEPT !.op = "finalize", !.pc = "commit", !.base = onb,
                              !.version = version, !.copy = copy]
<1>1. onb \in Seq(Session) /\ Len(onb) \in Nat /\ DOMAIN onb = 1..Len(onb) /\ version \in Nat
      /\ NoJob \in JobRow /\ NoJob.sid = 0
  BY OnboardingAssumption DEF NInv, NTypes, NoJob, JobRow
<1>2. ASSUME NEW n \in 1..Len(onb)
      PROVE  copy[n] \in Session /\ copy[n].values = onb[n].values /\ copy[n].status = "completed"
  <2>1. onb[n] \in Session /\ copy[n] = [onb[n] EXCEPT !.status = "completed"]
    BY <1>1
  <2> QED BY <2>1 DEF Session
<1>3. copy \in Seq(Session) /\ Len(copy) = Len(onb)
  <2>1. copy = [n \in 1..Len(onb) |-> copy[n]]
    BY <1>1
  <2>2. copy \in [1..Len(onb) -> Session]
    BY <1>2, <2>1
  <2> HIDE DEF copy
  <2> QED BY <1>1, <2>2
<1>4. BeginJob(j, x)
  BY DEF BeginFinalize
<1> HIDE DEF copy, version
<1>5. x \in JobRow /\ x.pc = "commit" /\ x.sid = 0 /\ x.base = onb /\ x.copy = copy
  BY <1>1, <1>3 DEF JobRow
<1> HIDE DEF x
<1>6. RequestCopy(onb, copy)
  BY <1>2, <1>3 DEF RequestCopy
<1>7. x.sid <= Len(onb)
  BY <1>1, <1>5
<1> QED BY <1>4, <1>5, <1>6, <1>7, RequestBegins

\* promote changes no session.
LEMMA NInvPromote ==
  ASSUME NInv, NEW j \in Jobs, BeginPromoteExtracted(j)
  PROVE  NInv'
<1> DEFINE x == [NoJob EXCEPT !.op = "promote", !.pc = "commit", !.base = onb, !.copy = onb]
<1>1. onb \in Seq(Session) /\ Len(onb) \in Nat /\ NoJob \in JobRow /\ NoJob.sid = 0
  BY OnboardingAssumption DEF NInv, NTypes, NoJob, JobRow
<1>2. BeginJob(j, x)
  BY DEF BeginPromoteExtracted
<1>3. x \in JobRow /\ x.pc = "commit" /\ x.sid = 0 /\ x.base = onb /\ x.copy = onb
  BY <1>1 DEF JobRow
<1> HIDE DEF x
<1>4. RequestCopy(onb, onb) /\ x.sid <= Len(onb)
  BY <1>1, <1>3 DEF RequestCopy
<1> QED BY <1>2, <1>3, <1>4, RequestBegins


\* A job that is over.
LEMMA EndedJob ==
  ASSUME NEW pc \in {"done", "raised"}
  PROVE  JobEnded(pc) \in JobRow /\ JobEnded(pc).pc = pc /\ JobEnded(pc).sid = 0
<1>1. NoJob \in JobRow /\ NoJob.sid = 0
  BY OnboardingAssumption DEF NoJob, JobRow
<1> QED BY <1>1 DEF JobEnded, JobRow

\* start, upload and rerun commit; their agents follow.
LEMMA NInvCommitSession ==
  ASSUME NInv, NEW j \in Jobs, CommitSession(j)
  PROVE  NInv'
<1> DEFINE c   == job[j]
           new == Stored(c.base, c.copy)
           sid == IF c.sid = 0 THEN Len(new) ELSE c.sid
           x   == [c EXCEPT !.pc = "agents", !.base = <<>>, !.copy = <<>>, !.sid = sid]
<1>1. /\ onb' = new /\ UNCHANGED <<brands, canon, stops>> /\ c.pc = "commit"
      /\ \/ job' = [job EXCEPT ![j] = x]
         \/ job' = [job EXCEPT ![j] = JobEnded("done")]
         \/ job' = [job EXCEPT ![j] = JobEnded("raised")]
  BY DEF CommitSession
<1>2. c \in JobRow /\ JobSound(j, c) /\ NTypes
  BY DEF NInv, NTypes
<1>3. c.base \in Seq(Session) /\ c.copy \in Seq(Session) /\ RequestCopy(c.base, c.copy)
      /\ onb \in Seq(Session) /\ c.sid \in Nat /\ c.sid <= Len(onb)
  BY <1>1, <1>2 DEF JobRow, JobSound, NTypes
<1>4. new \in Seq(Session) /\ Len(new) >= Len(onb)
  BY <1>3, StoredRows DEF RequestCopy
<1> HIDE DEF new
<1>5. sid \in Nat /\ sid <= Len(new)
  BY <1>3, <1>4
<1> HIDE DEF sid
<1>6. x \in JobRow /\ x.pc = "agents" /\ x.sid = sid
  <2>1. c \in JobRow /\ <<>> \in Seq(Session)
    BY <1>2
  <2> HIDE DEF c
  <2> QED BY <1>5, <2>1 DEF JobRow
<1>7. \A pc \in {"done", "raised"} :
        JobEnded(pc) \in JobRow /\ JobEnded(pc).pc = pc /\ JobEnded(pc).sid = 0
  BY EndedJob
<1> HIDE DEF x, c
<1>8. PICK y \in JobRow : /\ job' = [job EXCEPT ![j] = y] /\ y.pc \in {"agents", "done", "raised"}
                          /\ y.sid = 0 \/ y.sid = sid
  <2>1. CASE job' = [job EXCEPT ![j] = x]
    BY <1>6, <2>1
  <2>2. CASE job' = [job EXCEPT ![j] = JobEnded("done")]
    BY <1>7, <2>2
  <2>3. CASE job' = [job EXCEPT ![j] = JobEnded("raised")]
    BY <1>7, <2>3
  <2> QED BY <1>1, <2>1, <2>2, <2>3
<1>9. y.sid <= Len(onb')
  <2>1. Len(new) \in Nat
    BY <1>4
  <2> QED BY <1>1, <1>5, <1>8, <2>1
<1>10. JobSound(j, y)'
  BY <1>8, <1>9 DEF JobSound
<1>11. onb' \in Seq(Session) /\ Len(onb') >= Len(onb) /\ brands' \in Seq(Result)
       /\ canon' \in [AgentKeys \ {"protocol"} -> Result] /\ stops' = stops
  BY <1>1, <1>2, <1>4 DEF NTypes
<1> HIDE <1>1
<1> QED BY <1>8, <1>10, <1>11, JobMoves

\* What is promoted or made a profile of is a result.
LEMMA ExtractedTyped ==
  ASSUME NTypes, NEW copy \in Seq(Session)
  PROVE  /\ Extracted(copy) \in [AgentKeys -> Result]
         /\ Promote(Extracted(copy)) \in [AgentKeys \ {"protocol"} -> Result]
         /\ Extracted(copy)["protocol"] \in Result
<1>1. Extracted(copy) \in [AgentKeys -> Result]
  <2>1. CASE copy = <<>>
    BY <2>1, FreshIsSession DEF Extracted, Session
  <2>2. CASE copy # <<>>
    <3>1. Len(copy) \in 1..Len(copy)
      BY <2>2, EmptySeq
    <3>2. copy[Len(copy)] \in Session
      BY <3>1
    <3> QED BY <2>2, <3>2 DEF Extracted, Session
  <2> QED BY <2>1, <2>2
<1> HIDE DEF Extracted
<1> QED BY <1>1, OnboardingAssumption DEF Promote, NTypes

\* finalize and promote commit, or fail as a whole.
LEMMA NInvCommitRest ==
  ASSUME NInv, NEW j \in Jobs, CommitFinalize(j) \/ CommitPromoteExtracted(j)
  PROVE  NInv'
<1> DEFINE c   == job[j]
           new == Stored(c.base, c.copy)
<1>1. c \in JobRow /\ JobSound(j, c) /\ NTypes /\ c.pc = "commit"
  BY DEF NInv, NTypes, CommitFinalize, CommitPromoteExtracted
<1>2. c.base \in Seq(Session) /\ c.copy \in Seq(Session) /\ RequestCopy(c.base, c.copy)
      /\ onb \in Seq(Session) /\ Len(onb) \in Nat
  BY <1>1 DEF JobRow, JobSound, NTypes
<1>3. new \in Seq(Session) /\ Len(new) >= Len(onb)
  BY <1>2, StoredRows DEF RequestCopy
<1>4. PICK pc \in {"done", "raised"} : job' = [job EXCEPT ![j] = JobEnded(pc)]
  BY DEF CommitFinalize, CommitPromoteExtracted
<1>5. JobEnded(pc) \in JobRow /\ JobEnded(pc).pc = pc /\ JobEnded(pc).sid = 0
  BY EndedJob
<1>6. stops' = stops /\ (onb' = new \/ onb' = onb)
  BY DEF CommitFinalize, CommitPromoteExtracted
<1> DEFINE values == Extracted(c.copy)
<1>7. brands' = brands \/ brands' = Append(brands, values["protocol"])
  BY DEF CommitFinalize, CommitPromoteExtracted
<1>8. canon' = canon \/ canon' = Promote(values)
  BY DEF CommitFinalize, CommitPromoteExtracted
<1> HIDE DEF new
<1>9. Promote(values) \in [AgentKeys \ {"protocol"} -> Result] /\ values["protocol"] \in Result
  BY <1>1, <1>2, ExtractedTyped
<1> HIDE DEF values, c
<1>10. onb' \in Seq(Session) /\ Len(onb') >= Len(onb)
  BY <1>2, <1>3, <1>6
<1>11. brands' \in Seq(Result) /\ canon' \in [AgentKeys \ {"protocol"} -> Result]
  BY <1>1, <1>7, <1>8, <1>9 DEF NTypes
<1>12. JobEnded(pc).sid <= Len(onb')
  <2>1. Len(onb') \in Nat
    BY <1>10
  <2> QED BY <1>5, <2>1
<1>13. JobSound(j, JobEnded(pc))'
  <2> DEFINE y == JobEnded(pc)
  <2>1. y.sid <= Len(onb') /\ y.pc \notin {"commit", "write"}
    BY <1>5, <1>12
  <2> HIDE DEF y
  <2>2. JobSound(j, y)'
    BY <2>1 DEF JobSound
  <2> QED BY <2>2 DEF y
<1> QED BY <1>4, <1>5, <1>6, <1>10, <1>11, <1>13, JobMoves


\* What an agent's end makes of a session.
AfterEnd(s, k, j, success) == IF success THEN [AfterRun(s, k) EXCEPT !.values[k] = j]
                              ELSE [s EXCEPT !.agents[k] = "failed"]

\* It changes the agent's result only, and makes the session ready only when no
\* agent runs.
LEMMA AfterEndSound ==
  ASSUME NEW s \in Session, NEW k \in AgentKeys, NEW j \in Jobs, NEW success \in BOOLEAN, NEW t,
         t = AfterEnd(s, k, j, success)
  PROVE  /\ t \in Session
         /\ \A m \in AgentKeys : t.values[m] # s.values[m] => m = k /\ t.values[m] = j
         /\ t.status = "ready_for_review" =>
              s.status = "ready_for_review" \/ \A m \in AgentKeys : t.agents[m] # "running"
<1>1. CASE ~success
  <2>1. t = [s EXCEPT !.agents[k] = "failed"]
    BY <1>1 DEF AfterEnd
  <2> QED BY <2>1 DEF Session
<1>2. CASE success
  <2> DEFINE agents == [s.agents EXCEPT ![k] = "completed"]
             status == IF \E m \in AgentKeys : agents[m] = "running" THEN s.status
                       ELSE "ready_for_review"
             values == [s.values EXCEPT ![k] = j]
             u      == [s EXCEPT !.agents = agents, !.status = status]
  <2>1. AfterRun(s, k) = u /\ t = [AfterRun(s, k) EXCEPT !.values[k] = j]
    BY <1>2 DEF AfterRun, AfterEnd
  <2>2. /\ agents \in [AgentKeys -> {"pending", "running", "completed", "failed"}]
        /\ status \in {"in_progress", "ready_for_review", "completed"}
        /\ values \in [AgentKeys -> Result]
    BY DEF Session, Result
  <2>3. status = "ready_for_review" =>
          s.status = "ready_for_review" \/ \A m \in AgentKeys : agents[m] # "running"
    OBVIOUS
  <2>4. \A m \in AgentKeys : values[m] # s.values[m] => m = k /\ values[m] = j
    BY DEF Session
  <2> HIDE DEF agents, status
  <2>5. u \in Session /\ u.agents = agents /\ u.status = status /\ u.values = s.values
    BY <2>2 DEF Session
  <2> HIDE DEF u
  <2>6. t = [u EXCEPT !.values = values]
    BY <2>1, <2>5
  <2> HIDE DEF values
  <2>7. t \in Session /\ t.agents = agents /\ t.status = status /\ t.values = values
    BY <2>2, <2>5, <2>6 DEF Session
  <2> HIDE <2>1, <2>6
  <2> QED BY <2>3, <2>4, <2>7
<1> QED BY <1>1, <1>2

\* A task that has read the rows and holds what it made of them.
LEMMA TaskWrites ==
  ASSUME NInv, NEW j \in Jobs, NEW x \in JobRow, x.pc = "write", job' = [job EXCEPT ![j] = x],
         UNCHANGED <<onb, brands, canon, stops>>,
         x.sid <= Len(onb), TaskCopy(j, x.key, x.base, x.copy)
  PROVE  NInv'
<1>1. JobSound(j, x)'
  BY DEF JobSound
<1>2. onb' \in Seq(Session) /\ Len(onb') >= Len(onb) /\ brands' \in Seq(Result)
      /\ canon' \in [AgentKeys \ {"protocol"} -> Result] /\ stops' = stops
  BY DEF NInv, NTypes
<1> QED BY <1>1, <1>2, JobMoves

\* An agent ends, and its task reads the rows.
LEMMA NInvEndRun ==
  ASSUME NInv, NEW j \in Jobs, NEW k \in AgentKeys, NEW success \in BOOLEAN, EndRun(j, k, success)
  PROVE  NInv'
<1> DEFINE sid  == job[j].sid
           t    == AfterEnd(onb[sid], k, j, success)
           copy == [onb EXCEPT ![sid] = t]
           x    == [job[j] EXCEPT !.pc = "write", !.base = onb, !.copy = copy, !.key = k]
<1>1. job[j] \in JobRow /\ JobSound(j, job[j]) /\ onb \in Seq(Session) /\ NTypes
  BY DEF NInv, NTypes
<1>2. job' = [job EXCEPT ![j] = x]
  BY DEF EndRun, AfterEnd
<1>3. UNCHANGED <<onb, brands, canon, stops>>
  BY DEF EndRun
<1>4. copy \in Seq(Session) /\ TaskCopy(j, k, onb, copy)
  <2>1. CASE sid \in 1..Len(onb)
    <3>1. onb[sid] \in Session
      BY <1>1, <2>1
    <3>2. /\ t \in Session
          /\ \A m \in AgentKeys : t.values[m] # onb[sid].values[m] => m = k /\ t.values[m] = j
          /\ t.status = "ready_for_review" =>
               onb[sid].status = "ready_for_review" \/ \A m \in AgentKeys : t.agents[m] # "running"
      BY <3>1, AfterEndSound
    <3> HIDE DEF t, sid
    <3>3. copy \in Seq(Session) /\ Len(copy) = Len(onb)
          /\ \A n \in 1..Len(onb) : copy[n] = IF n = sid THEN t ELSE onb[n]
      BY <1>1, <2>1, <3>2
    <3> HIDE DEF copy
    <3> QED BY <3>2, <3>3 DEF TaskCopy
  <2>2. CASE sid \notin 1..Len(onb)
    <3>1. DOMAIN onb = 1..Len(onb)
      BY <1>1
    <3> HIDE DEF t, sid
    <3>2. copy = onb
      BY <1>1, <2>2, <3>1
    <3> HIDE DEF copy
    <3> QED BY <1>1, <3>2 DEF TaskCopy
  <2> QED BY <2>1, <2>2
<1> HIDE DEF copy, t
<1>5. x \in JobRow /\ x.pc = "write" /\ x.base = onb /\ x.copy = copy /\ x.key = k /\ x.sid = sid
  <2> DEFINE c == job[j]
  <2>1. c \in JobRow /\ onb \in Seq(Session) /\ copy \in Seq(Session)
    BY <1>1, <1>4
  <2> HIDE DEF c
  <2>2. x = [c EXCEPT !.pc = "write", !.base = onb, !.copy = copy, !.key = k] /\ sid = c.sid
    BY DEF c
  <2> HIDE DEF x, sid
  <2> QED BY <2>1, <2>2 DEF JobRow
<1> HIDE DEF x, sid
<1>6. x.sid <= Len(onb) /\ TaskCopy(j, x.key, x.base, x.copy)
  <2>1. sid <= Len(onb)
    BY <1>1 DEF JobSound, sid
  <2> QED BY <1>4, <1>5, <2>1
<1> QED BY <1>2, <1>3, <1>5, <1>6, TaskWrites

\* A task commits, and the next agent of its request runs.
LEMMA NInvCommitRun ==
  ASSUME NInv, NEW j \in Jobs, CommitRun(j)
  PROVE  NInv'
<1> DEFINE c    == job[j]
           new  == Stored(c.base, c.copy)
           left == c.todo \ {c.key}
           x    == [c EXCEPT !.pc = "agents", !.todo = left, !.base = <<>>, !.copy = <<>>,
                             !.key = "protocol"]
<1>1. /\ onb' = new /\ UNCHANGED <<brands, canon, stops>> /\ c.pc = "write"
      /\ \/ job' = [job EXCEPT ![j] = x]
         \/ job' = [job EXCEPT ![j] = JobEnded("done")]
  BY DEF CommitRun
<1>2. c \in JobRow /\ JobSound(j, c) /\ NTypes
  BY DEF NInv, NTypes
<1>3. c.base \in Seq(Session) /\ c.copy \in Seq(Session) /\ TaskCopy(j, c.key, c.base, c.copy)
      /\ onb \in Seq(Session) /\ c.sid \in Nat /\ c.sid <= Len(onb) /\ left \in SUBSET AgentKeys
  BY <1>1, <1>2 DEF JobRow, JobSound, NTypes
<1>4. new \in Seq(Session) /\ Len(new) >= Len(onb)
  BY <1>3, StoredRows DEF TaskCopy
<1> HIDE DEF new, left
<1>5. x \in JobRow /\ x.pc = "agents" /\ x.sid = c.sid
  <2>1. c \in JobRow /\ <<>> \in Seq(Session) /\ "protocol" \in AgentKeys
    BY <1>2, OnboardingAssumption
  <2> HIDE DEF c
  <2> QED BY <1>3, <2>1 DEF JobRow
<1> HIDE DEF x, c
<1>6. PICK y \in JobRow : /\ job' = [job EXCEPT ![j] = y] /\ y.pc \in {"agents", "done"}
                          /\ y.sid = 0 \/ y.sid = c.sid
  <2>1. CASE job' = [job EXCEPT ![j] = x]
    BY <1>5, <2>1
  <2>2. CASE job' = [job EXCEPT ![j] = JobEnded("done")]
    BY <2>2, EndedJob
  <2> QED BY <1>1, <2>1, <2>2
<1>7. y.sid <= Len(onb')
  <2>1. Len(new) \in Nat /\ Len(onb) \in Nat
    BY <1>3, <1>4
  <2> QED BY <1>1, <1>3, <1>4, <1>6, <2>1
<1>8. JobSound(j, y)'
  BY <1>6, <1>7 DEF JobSound
<1>9. onb' \in Seq(Session) /\ Len(onb') >= Len(onb) /\ brands' \in Seq(Result)
      /\ canon' \in [AgentKeys \ {"protocol"} -> Result] /\ stops' = stops
  BY <1>1, <1>2, <1>4 DEF NTypes
<1> HIDE <1>1
<1> QED BY <1>6, <1>8, <1>9, JobMoves

\* The process stops: jobs that have begun are over.
LEMMA NInvStop == NInv /\ StopProcess => NInv'
<1> SUFFICES ASSUME NInv, StopProcess PROVE NInv'
  OBVIOUS
<1>1. NTypes /\ UNCHANGED <<onb, brands, canon>> /\ stops < MaxStops /\ stops' = stops + 1
      /\ job' = [j \in Jobs |-> IF job[j].pc = "idle" THEN job[j] ELSE JobEnded("done")]
  BY DEF NInv, StopProcess
<1>2. stops' \in 0..MaxStops
  BY <1>1, OnboardingAssumption DEF NTypes
<1>3. ASSUME NEW j \in Jobs PROVE job'[j] \in JobRow /\ JobSound(j, job[j])'
  <2>1. CASE job[j].pc = "idle"
    <3>1. job'[j] = job[j] /\ job[j] \in JobRow /\ JobSound(j, job[j])
      BY <1>1, <2>1 DEF NInv, NTypes
    <3> QED BY <1>1, <3>1 DEF JobSound
  <2>2. CASE job[j].pc # "idle"
    <3> DEFINE y == JobEnded("done")
    <3>1. job'[j] = y
      BY <1>1, <2>2
    <3>2. y \in JobRow /\ y.pc = "done" /\ y.sid = 0
      BY EndedJob
    <3> HIDE DEF y
    <3>3. y.sid <= Len(onb')
      BY <1>1, <3>2 DEF NTypes
    <3> HIDE <1>1
    <3> QED BY <3>1, <3>2, <3>3 DEF JobSound
  <2> QED BY <2>1, <2>2
<1>4. job' \in [Jobs -> JobRow]
  BY <1>1, <1>3
<1>5. NTypes'
  BY <1>1, <1>2, <1>4 DEF NTypes
<1> QED BY <1>3, <1>5 DEF NInv

\* Every step keeps the invariant.
LEMMA NInvNext == NInv /\ [NNext]_nvars => NInv'
<1> SUFFICES ASSUME NInv, [NNext]_nvars PROVE NInv'
  OBVIOUS
<1>1. CASE UNCHANGED nvars
  BY <1>1 DEF NInv, NTypes, JobSound, nvars
<1>2. CASE StopProcess
  BY <1>2, NInvStop
<1>3. ASSUME NEW j \in Jobs, BeginRequest(j) PROVE NInv'
  BY <1>3, NInvStart, NInvUpload, NInvRerun, NInvFinalize, NInvPromote DEF BeginRequest
<1>4. ASSUME NEW j \in Jobs, GoOn(j) PROVE NInv'
  BY <1>4, NInvCommitSession, NInvCommitRest, NInvCommitRun, NInvEndRun DEF GoOn
<1> QED BY <1>1, <1>2, <1>3, <1>4 DEF NNext


\* The invariant of every behaviour.
THEOREM NInvariant == NSpec => []NInv
<1>1. NInit => NInv
  BY NInvInit
<1>2. NInv /\ [NNext]_nvars => NInv'
  BY NInvNext
<1> QED BY <1>1, <1>2, PTL DEF NSpec

\* It gives the types.
LEMMA NInvTypes == NInv => NTypeOK
<1> SUFFICES ASSUME NInv PROVE NTypeOK
  OBVIOUS
<1>1. NTypes /\ Len(onb) \in Nat
  BY DEF NInv, NTypes
<1>2. (\A n \in DOMAIN onb : onb[n] \in Session) /\ \A n \in DOMAIN brands : brands[n] \in Result
  BY <1>1 DEF NTypes
<1>3. ASSUME NEW j \in Jobs
      PROVE  /\ DOMAIN job[j] = DOMAIN NoJob
             /\ job[j].sid \in 0..Len(onb) /\ job[j].todo \subseteq AgentKeys
  <2>1. job[j] \in JobRow /\ job[j].sid <= Len(onb)
    BY DEF NInv, NTypes, JobSound
  <2>2. DOMAIN job[j] = DOMAIN NoJob
    BY <2>1 DEF JobRow, NoJob
  <2>3. job[j].sid \in Nat /\ job[j].todo \subseteq AgentKeys
    BY <2>1 DEF JobRow
  <2> QED BY <1>1, <2>1, <2>2, <2>3
<1> QED BY <1>1, <1>2, <1>3 DEF NTypeOK, NTypes

\* The types of onboarding's variables, NTypeOK.
THEOREM NTypeCorrect == NSpec => []NTypeOK
BY NInvTypes, NInvariant, PTL

\* What FreshCommitsAreSound asks of session n in a step.
SoundRow(n) ==
  LET stale == \E j \in Jobs : Commits(j) /\ ~FreshFor(j, n)
  IN /\ \A k \in AgentKeys :
          onb[n].values[k] # NoResult /\ onb'[n].values[k] # onb[n].values[k] =>
            \/ stale
            \/ \E j \in Jobs : Commits(j) /\ job[j].key = k /\ onb'[n].values[k] = j
     /\ onb[n].status # "ready_for_review" /\ onb'[n].status = "ready_for_review" =>
          stale \/ \A k \in AgentKeys : onb'[n].agents[k] # "running"

\* A row that a commit of fresh rows stores is the copy's.
LEMMA FreshStored ==
  ASSUME NTypes, NEW base \in Seq(Session), NEW copy \in Seq(Session),
         Len(copy) = Len(base) \/ Len(copy) = Len(base) + 1,
         NEW n \in 1..Len(onb), n \in 1..Len(base), base[n] = onb[n]
  PROVE  /\ Stored(base, copy)[n].status = copy[n].status
         /\ Stored(base, copy)[n].agents = copy[n].agents
         /\ Stored(base, copy)[n].values = copy[n].values
<1>1. onb \in Seq(Session) /\ Len(onb) \in Nat /\ Len(base) \in Nat /\ ~(n > Len(base))
  BY DEF NTypes
<1>2. Stored(base, copy)[n] = [status |-> Kept(base[n].status, copy[n].status, onb[n].status),
                               agents |-> Kept(base[n].agents, copy[n].agents, onb[n].agents),
                               values |-> Kept(base[n].values, copy[n].values, onb[n].values)]
  BY <1>1, StoredRows
<1> QED BY <1>2 DEF Kept

\* The commit of a request.
LEMMA RequestSound ==
  ASSUME NInv, NEW j \in Jobs, job[j].pc = "commit", Commits(j),
         onb' = Stored(job[j].base, job[j].copy), NEW n \in 1..Len(onb)
  PROVE  SoundRow(n)
<1> DEFINE base == job[j].base
           copy == job[j].copy
<1>1. NTypes /\ base \in Seq(Session) /\ copy \in Seq(Session) /\ RequestCopy(base, copy)
  BY DEF NInv, NTypes, JobSound, JobRow
<1>2. CASE ~FreshFor(j, n)
  BY <1>2 DEF SoundRow
<1>3. CASE FreshFor(j, n)
  <2>1. n \in 1..Len(base) /\ base[n] = onb[n]
    BY <1>1, <1>3 DEF FreshFor
  <2> HIDE DEF base, copy
  <2>2. onb'[n].status = copy[n].status /\ onb'[n].values = copy[n].values
    BY <1>1, <2>1, FreshStored DEF RequestCopy, base, copy
  <2>3. onb'[n].values = onb[n].values /\ (onb'[n].status = "ready_for_review"
                                           => onb[n].status = "ready_for_review")
    BY <1>1, <2>1, <2>2 DEF RequestCopy
  <2> QED BY <2>3 DEF SoundRow
<1> QED BY <1>2, <1>3

\* The commit of a task.
LEMMA TaskSound ==
  ASSUME NInv, NEW j \in Jobs, job[j].pc = "write", Commits(j),
         onb' = Stored(job[j].base, job[j].copy), NEW n \in 1..Len(onb)
  PROVE  SoundRow(n)
<1> DEFINE base == job[j].base
           copy == job[j].copy
           key  == job[j].key
<1>1. NTypes /\ base \in Seq(Session) /\ copy \in Seq(Session) /\ TaskCopy(j, key, base, copy)
  BY DEF NInv, NTypes, JobSound, JobRow
<1>2. CASE ~FreshFor(j, n)
  BY <1>2 DEF SoundRow
<1>3. CASE FreshFor(j, n)
  <2>1. n \in 1..Len(base) /\ base[n] = onb[n]
    BY <1>1, <1>3 DEF FreshFor
  <2> HIDE DEF base, copy
  <2>2. onb'[n].status = copy[n].status /\ onb'[n].agents = copy[n].agents
        /\ onb'[n].values = copy[n].values
    BY <1>1, <2>1, FreshStored DEF TaskCopy, base, copy
  <2> HIDE DEF key
  <2>3. \A k \in AgentKeys : onb'[n].values[k] # onb[n].values[k] =>
                               k = key /\ onb'[n].values[k] = j
    BY <1>1, <2>1, <2>2 DEF TaskCopy
  <2>4. onb'[n].status = "ready_for_review" =>
          onb[n].status = "ready_for_review" \/ \A k \in AgentKeys : onb'[n].agents[k] # "running"
    BY <1>1, <2>1, <2>2 DEF TaskCopy
  <2>5. key = job[j].key
    BY DEF key
  <2> QED BY <2>3, <2>4, <2>5 DEF SoundRow
<1> QED BY <1>2, <1>3

\* A job that commits has left the state it committed in.
LEMMA CommitEnds ==
  ASSUME NInv, NEW j \in Jobs, NEW x, job' = [job EXCEPT ![j] = x], x.pc # job[j].pc,
         job[j].pc \in {"commit", "write"}
  PROVE  Commits(j)
<1>1. job'[j] = x
  BY DEF NInv, NTypes
<1> QED BY <1>1 DEF Commits

\* Every step is sound for every session.
LEMMA EveryRowSound ==
  ASSUME NInv, [NNext]_nvars, NEW n \in 1..Len(onb)
  PROVE  SoundRow(n)
<1>1. CASE onb' = onb
  BY <1>1 DEF SoundRow
<1>2. ASSUME NEW j \in Jobs, CommitSession(j) PROVE SoundRow(n)
  <2> DEFINE c == job[j]
             sid == IF c.sid = 0 THEN Len(onb') ELSE c.sid
             x == [c EXCEPT !.pc = "agents", !.base = <<>>, !.copy = <<>>, !.sid = sid]
  <2>1. job[j].pc = "commit" /\ onb' = Stored(job[j].base, job[j].copy)
        /\ \/ job' = [job EXCEPT ![j] = x]
           \/ job' = [job EXCEPT ![j] = JobEnded("done")]
           \/ job' = [job EXCEPT ![j] = JobEnded("raised")]
    BY <1>2 DEF CommitSession
  <2>2. c \in JobRow
    BY DEF NInv, NTypes
  <2> HIDE DEF c, sid
  <2>3. x.pc = "agents"
    BY <2>2 DEF JobRow
  <2> HIDE DEF x
  <2>4. Commits(j)
    BY <2>1, <2>3, EndedJob, CommitEnds
  <2> QED BY <2>1, <2>4, RequestSound
<1>3. ASSUME NEW j \in Jobs, CommitFinalize(j), onb' # onb PROVE SoundRow(n)
  <2>1. job[j].pc = "commit" /\ onb' = Stored(job[j].base, job[j].copy)
        /\ job' = [job EXCEPT ![j] = JobEnded("done")]
    BY <1>3 DEF CommitFinalize
  <2>2. Commits(j)
    BY <2>1, EndedJob, CommitEnds
  <2> QED BY <2>1, <2>2, RequestSound
<1>4. ASSUME NEW j \in Jobs, CommitRun(j) PROVE SoundRow(n)
  <2> DEFINE c == job[j]
             left == c.todo \ {c.key}
             x == [c EXCEPT !.pc = "agents", !.todo = left, !.base = <<>>, !.copy = <<>>,
                            !.key = "protocol"]
  <2>1. job[j].pc = "write" /\ onb' = Stored(job[j].base, job[j].copy)
        /\ \/ job' = [job EXCEPT ![j] = x]
           \/ job' = [job EXCEPT ![j] = JobEnded("done")]
    BY <1>4 DEF CommitRun
  <2>2. c \in JobRow
    BY DEF NInv, NTypes
  <2> HIDE DEF c, left
  <2>3. x.pc = "agents"
    BY <2>2 DEF JobRow
  <2> HIDE DEF x
  <2>4. Commits(j)
    BY <2>1, <2>3, EndedJob, CommitEnds
  <2> QED BY <2>1, <2>4, TaskSound
<1>5. ASSUME NEW j \in Jobs, BeginRequest(j) PROVE onb' = onb
  BY <1>5 DEF BeginRequest, BeginStart, BeginUpload, BeginRerun, BeginFinalize,
              BeginPromoteExtracted, BeginJob
<1>6. ASSUME NEW j \in Jobs, NEW k \in AgentKeys, NEW success \in BOOLEAN, EndRun(j, k, success)
      PROVE  onb' = onb
  BY <1>6 DEF EndRun
<1>7. UNCHANGED nvars \/ StopProcess => onb' = onb
  BY DEF StopProcess, nvars
<1>8. ASSUME NEW j \in Jobs, CommitPromoteExtracted(j) PROVE onb' = onb
  BY <1>8 DEF CommitPromoteExtracted
<1>9. ASSUME NEW j \in Jobs, GoOn(j) PROVE SoundRow(n)
  BY <1>1, <1>2, <1>3, <1>4, <1>6, <1>8, <1>9 DEF GoOn
<1> QED BY <1>1, <1>5, <1>7, <1>9 DEF NNext

\* However requests and tasks overlap, only a commit made on an outdated row
\* loses an agent's result or offers a session for review while an agent of it
\* runs: FreshCommitsAreSound, of _run_onboarding_agent and the handlers.
THEOREM FreshCommitsSound == NSpec => FreshCommitsAreSound
<1>1. ASSUME NInv, [NNext]_nvars PROVE \A n \in DOMAIN onb : SoundRow(n)
  <2>1. DOMAIN onb = 1..Len(onb)
    BY <1>1 DEF NInv, NTypes
  <2> QED BY <1>1, <2>1, EveryRowSound
<1>2. NInv /\ [NNext]_nvars =>
        [\A n \in DOMAIN onb :
           LET stale == \E j \in Jobs : Commits(j) /\ ~FreshFor(j, n)
           IN /\ \A k \in AgentKeys :
                   onb[n].values[k] # NoResult /\ onb'[n].values[k] # onb[n].values[k] =>
                     \/ stale
                     \/ \E j \in Jobs : Commits(j) /\ job[j].key = k /\ onb'[n].values[k] = j
              /\ onb[n].status # "ready_for_review" /\ onb'[n].status = "ready_for_review" =>
                   stale \/ \A k \in AgentKeys : onb'[n].agents[k] # "running"]_nvars
  BY <1>1 DEF SoundRow
<1> QED BY <1>2, NInvariant, PTL DEF NSpec, FreshCommitsAreSound


\* A clamped confidence is one.
LEMMA ClampRange == ASSUME NEW c \in Int PROVE Clamp(c) \in 0..100
BY DEF Clamp, Most, Least

\* The confidence of a classification.
LEMMA IntakeConfidence ==
  ASSUME NEW t \in IntakeCalls, ClassifyDocument(t) # Raised
  PROVE  ClassifyDocument(t).confidence \in 0..100
<1> DEFINE c == IF t.says = Prose THEN ByName(t.name) ELSE Parsed(t.says)
<1>1. ClassifyDocument(t).confidence = c.confidence
  BY DEF ClassifyDocument, Asked
<1>2. t.name \in FileNames /\ t.says # Shapeless
      /\ t.says \in {Prose, Shapeless} \cup [class : {"known", "alien"}, confidence : Certainties]
  BY DEF IntakeCalls, ClassifyDocument
<1>3. CASE t.says = Prose
  <2>1. ByName(t.name).confidence \in {0, 55, 60}
    BY <1>2 DEF ByName, FileNames
  <2>2. c = ByName(t.name)
    BY <1>3
  <2> HIDE DEF c
  <2> QED BY <1>1, <2>1, <2>2
<1>4. CASE t.says # Prose
  <2>1. c = Parsed(t.says) /\ t.says.class \in {"known", "alien"} /\ t.says.confidence \in Int
    BY <1>2, <1>4, CertaintiesAssumption
  <2> HIDE DEF c
  <2>2. Least(t.says.confidence, 30) \in Int
    BY <2>1 DEF Least
  <2>3. c.confidence = Clamp(t.says.confidence)
        \/ c.confidence = Clamp(Least(t.says.confidence, 30))
    BY <2>1 DEF Parsed
  <2> QED BY <1>1, <2>1, <2>2, <2>3, ClampRange
<1> QED BY <1>3, <1>4

\* The confidence of an order.
LEMMA PoConfidence ==
  ASSUME NEW t \in PoCalls, ParsePo(t) # Raised
  PROVE  ParsePo(t).confidence \in 0..100
<1> DEFINE items   == PoItems(t)
           bad     == {i \in DOMAIN items : items[i].upc = "bad"}
           lacking == {i \in DOMAIN items : items[i].present < 5}
           each    == [i \in DOMAIN items |->
                         IF t.llm THEN Blended(ItemConfidence(items[i]), t.enrich)
                         ELSE ItemConfidence(items[i])]
           mean    == IF Len(items) = 0 THEN 0 ELSE SumOf(each) \div Len(items)
           capped  == Least(mean, IF bad # {} THEN 60 ELSE IF lacking # {} THEN 70 ELSE 100)
<1>1. items # Shapeless /\ ParsePo(t).confidence = Clamp(capped)
  BY DEF ParsePo, Asked
<1>2. PICK n \in 0..2 : items \in [1..n -> PoItem]
  <2>1. /\ t.says \in {Prose, Shapeless} \cup UNION {[1..m -> PoItem] : m \in 0..2}
        /\ t.mode \in {"items", "text"} /\ t.mode = "items" => t.says # Prose
    BY DEF PoCalls
  <2>2. CASE items = <<>>
    <3>1. items \in [1..0 -> PoItem]
      BY <2>2
    <3> QED BY <3>1
  <2>3. CASE items # <<>>
    <3>1. items = t.says /\ t.says # Prose /\ t.says # Shapeless
      BY <1>1, <2>1, <2>3 DEF PoItems
    <3> QED BY <2>1, <3>1
  <2> QED BY <2>2, <2>3
<1>3. ASSUME NEW i \in 1..n PROVE each[i] \in Int
  <2>1. items[i] \in PoItem /\ i \in DOMAIN items
    BY <1>2
  <2>2. ItemConfidence(items[i]) \in Int
    BY <2>1 DEF ItemConfidence, PoItem, Least
  <2>3. t.enrich \in {Prose} \cup [confidence : {Unset} \cup {0, 100}, suggests : BOOLEAN]
    BY DEF PoCalls
  <2>4. Blended(ItemConfidence(items[i]), t.enrich) \in Int
    <3> DEFINE c == ItemConfidence(items[i])
               e == t.enrich
    <3> HIDE DEF c, e
    <3>1. c \in Int /\ e \in {Prose} \cup [confidence : {Unset} \cup {0, 100}, suggests : BOOLEAN]
      BY <2>2, <2>3 DEF c, e
    <3>2. CASE e = Prose \/ e.confidence = Unset
      BY <3>1, <3>2 DEF Blended, c, e
    <3>3. CASE e # Prose /\ e.confidence # Unset
      <4>1. e.confidence \in Int
        BY <3>1, <3>3
      <4>2. Blended(c, e) = Least(100, (6 * c + 4 * e.confidence) \div 10)
        BY <3>3 DEF Blended
      <4>3. (6 * c + 4 * e.confidence) \div 10 \in Int
        BY <3>1, <4>1
      <4> QED BY <4>2, <4>3 DEF Least, c, e
    <3> QED BY <3>2, <3>3
  <2> QED BY <2>1, <2>2, <2>4
<1>4. DOMAIN each = 1..n /\ Len(items) = n
  BY <1>2
<1>5. Len(each) = n
  <2>1. each = [i \in 1..n |-> each[i]]
    BY <1>2
  <2> HIDE DEF each
  <2> QED BY <1>2, <2>1
<1> HIDE DEF each, items
<1>6. SumOf(each) \in Int
  <2>1. CASE n = 0
    BY <1>4, <2>1 DEF SumOf
  <2>2. CASE n = 1
    BY <1>3, <1>4, <1>5, <2>2 DEF SumOf
  <2>3. CASE n = 2
    BY <1>3, <1>4, <1>5, <2>3 DEF SumOf
  <2> QED BY <2>1, <2>2, <2>3
<1>7. mean \in Int
  BY <1>4, <1>6
<1> HIDE DEF mean, bad, lacking
<1>8. capped \in Int
  BY <1>7 DEF Least
<1> QED BY <1>1, <1>8, ClampRange

\* The confidence of a fusion, which a warning lowers.
LEMMA FusionConfidence ==
  ASSUME NEW t \in FusionCalls, FuseSides(t) # Raised
  PROVE  FuseSides(t).confidence \in 0..100
<1> DEFINE anomaly  == IF Joins(t) = {} THEN "none" ELSE t.anomaly
           critical == Lonely(t) # {} \/ TooLarge(t) # {} \/ anomaly = "critical"
           warnings == Cardinality(BadUpcs(t)) + (IF anomaly = "warning" THEN 1 ELSE 0)
<1>1. FuseSides(t).confidence = IF critical THEN 50 ELSE Most(60, 95 - 5 * warnings)
  BY DEF FuseSides, Asked
<1>2. warnings \in Nat
  <2>1. BadUpcs(t) \subseteq ItemNumbers
    BY DEF BadUpcs, Joins
  <2>2. Cardinality(BadUpcs(t)) \in Nat
    BY <2>1, CertaintiesAssumption, FS_Subset, FS_CardinalityType
  <2> QED BY <2>2
<1> HIDE DEF critical, warnings
<1> QED BY <1>1, <1>2 DEF Most

\* The confidence of an invoice, never below a half.
LEMMA PiConfidence ==
  ASSUME NEW t \in PiCalls
  PROVE  ParsePi(t).confidence \in 0..100 /\ ParsePi(t).success \in BOOLEAN /\ ParsePi(t).hitl \in BOOLEAN
BY DEF PiCalls, ParsePi, Asked, Most, Least

\* The types of what an agent returns, GTypeOK: a confidence is one.
THEOREM GTypeCorrect == GSpec => []GTypeOK
<1>1. GInv => GTypeOK
  <2> SUFFICES ASSUME GInv, Answered
               PROVE  /\ outcome.success \in BOOLEAN /\ outcome.hitl \in BOOLEAN
                      /\ errand.agent \notin Extractors => outcome.confidence \in 0..100
    BY DEF GTypeOK, GInv
  <2>1. errand \in Calls /\ Returned /\ outcome # Raised
    BY DEF GInv, Answered
  <2>2. CASE errand.agent = "intake" /\ outcome = ClassifyDocument(errand)
    <3>1. errand \in IntakeCalls
      BY <2>1, <2>2, CallsOfAgent
    <3>2. outcome.success \in BOOLEAN /\ outcome.hitl \in BOOLEAN
      <4> DEFINE c == IF errand.says = Prose THEN ByName(errand.name) ELSE Parsed(errand.says)
      <4>1. outcome = Asked(c.confidence >= 70, c.confidence, c.confidence < 70, c)
        BY <2>1, <2>2 DEF ClassifyDocument
      <4> HIDE DEF c
      <4> QED BY <4>1 DEF Asked
    <3> QED BY <2>1, <2>2, <3>1, <3>2, IntakeConfidence
  <2>3. CASE errand.agent \in Extractors /\ outcome = ExtractFrom(errand)
    BY <2>3 DEF ExtractFrom, Asked
  <2>4. CASE errand.agent = "po" /\ outcome = ParsePo(errand)
    <3>1. errand \in PoCalls
      BY <2>1, <2>4, CallsOfAgent
    <3>2. outcome.success \in BOOLEAN /\ outcome.hitl \in BOOLEAN
      BY <2>1, <2>4 DEF ParsePo, Asked
    <3> QED BY <2>1, <2>4, <3>1, <3>2, PoConfidence
  <2>5. CASE errand.agent = "pi" /\ outcome = ParsePi(errand)
    <3>1. errand \in PiCalls
      BY <2>1, <2>5 DEF Calls, IntakeCalls, ExtractCalls, PoCalls, FusionCalls, Extractors
    <3> QED BY <2>5, <3>1, PiConfidence
  <2>6. CASE errand.agent = "fusion" /\ outcome = FuseSides(errand)
    <3>1. errand \in FusionCalls
      BY <2>1, <2>6, CallsOfAgent
    <3>2. outcome.success \in BOOLEAN /\ outcome.hitl \in BOOLEAN
      BY <2>1, <2>6 DEF FuseSides, Asked
    <3> QED BY <2>1, <2>6, <3>1, <3>2, FusionConfidence
  <2> QED BY <2>1, <2>2, <2>3, <2>4, <2>5, <2>6 DEF Returned
<1> QED BY <1>1, GInvariant, PTL

\* The types of the canvas's variables, KTypeOK.
THEOREM KTypeCorrect == KSpec => []KTypeOK
<1>1. KInv => KTypeOK
  <2> SUFFICES ASSUME KInv PROVE KTypeOK
    OBVIOUS
  <2>1. KTypes
    BY DEF KInv
  <2>2. ASSUME NEW a \in Artists
        PROVE  /\ artist[a].pc \in {"away", "open", "gone", "left"}
               /\ artist[a].to \subseteq Artists /\ ShownTo(a) \subseteq Strokes
    <3>1. artist[a] \in ArtistRow
      BY <2>1 DEF KTypes
    <3>2. artist[a].paper \in Seq(Strokes)
      BY <3>1 DEF ArtistRow
    <3> QED BY <3>1, <3>2 DEF ArtistRow, ShownTo
  <2>3. OnCanvas \subseteq Strokes
    BY <2>1 DEF KTypes, OnCanvas
  <2> QED BY <2>1, <2>2, <2>3 DEF KTypes, KTypeOK
<1> QED BY <1>1, KInvariant, PTL

-----------------------------------------------------------------------------
(* Labels: LayoutIsClean.                                                  *)

\* A sample is an item.
LEMMA SampleTyped == InfoText \cup Cartons \subseteq Item
<1>1. ASSUME NEW s \in InfoText PROVE s \in Item
  <2>1. Cube(12) \in [{"L", "W", "H"} -> Inches]
    BY InchesAssumption DEF Cube
  <2>2. 0 \in 0..MaxSymbols /\ 0 \in 0..MaxWarnings /\ 1 \in 0..MaxWarnings
    BY InchesAssumption
  <2>3. {"logo"} \in SUBSET {"logo", "warnings", "description"}
        /\ {"warnings", "description"} \in SUBSET {"logo", "warnings", "description"}
    OBVIOUS
  <2> QED BY <2>1, <2>2, <2>3 DEF InfoText, Item
<1>2. ASSUME NEW s \in Cartons PROVE s \in Item
  BY InchesAssumption DEF Cartons, Item
<1> QED BY <1>1, <1>2

\* Everything placed on a panel.
Spot == [type : {"logo", "text", "handling", "warning", "barcode", "drawing"}, x : Int, y : Int]

\* What is placed does not overlap what is placed later.
AllApart(q) == \A i, j \in DOMAIN q : i < j => ~BoxesOverlap(q[i], q[j])

\* A sequence of placements from S that are apart.
Chain(S, q) == q \in Seq(S) /\ AllApart(q)

\* Two groups that are apart.
Clear(A, B) == \A a \in A, b \in B : ~BoxesOverlap(a, b)

\* One group of placements after another, when the groups are apart.
LEMMA ConcatApart ==
  ASSUME NEW A, NEW B, NEW s, NEW t, Chain(A, s), Chain(B, t), Clear(A, B)
  PROVE  Chain(A \cup B, s \o t)
<1>0. s \in Seq(A) /\ t \in Seq(B) /\ AllApart(s) /\ AllApart(t)
  BY DEF Chain
<1>1. /\ s \in Seq(A \cup B) /\ t \in Seq(A \cup B) /\ Len(s) \in Nat /\ Len(t) \in Nat
      /\ DOMAIN s = 1..Len(s) /\ DOMAIN t = 1..Len(t)
  BY <1>0
<1>2. /\ s \o t \in Seq(A \cup B) /\ Len(s \o t) = Len(s) + Len(t)
      /\ \A i \in 1..(Len(s) + Len(t)) : (s \o t)[i] = IF i <= Len(s) THEN s[i] ELSE t[i - Len(s)]
  BY <1>1, ConcatProperties
<1> DEFINE u == s \o t
<1>3. DOMAIN u = 1..(Len(s) + Len(t))
  BY <1>2
<1> HIDE DEF u
<1>4. ASSUME NEW i \in DOMAIN u, NEW j \in DOMAIN u, i < j PROVE ~BoxesOverlap(u[i], u[j])
  <2>1. i \in Nat /\ j \in Nat /\ i >= 1 /\ j <= Len(s) + Len(t)
    BY <1>1, <1>3
  <2>2. CASE j <= Len(s)
    <3>1. i \in DOMAIN s /\ j \in DOMAIN s /\ u[i] = s[i] /\ u[j] = s[j]
      BY <1>1, <1>2, <1>3, <1>4, <2>1, <2>2 DEF u
    <3> QED BY <1>0, <1>4, <3>1 DEF AllApart
  <2>3. CASE i <= Len(s) /\ ~(j <= Len(s))
    <3>1. i \in 1..Len(s) /\ j - Len(s) \in 1..Len(t)
      BY <1>1, <2>1, <2>3
    <3>2. u[i] = s[i] /\ u[j] = t[j - Len(s)]
      BY <1>1, <1>2, <1>3, <2>1, <2>3 DEF u
    <3>3. s[i] \in A /\ t[j - Len(s)] \in B
      BY <1>0, <3>1
    <3> QED BY <3>2, <3>3 DEF Clear
  <2>4. CASE ~(i <= Len(s))
    <3>1. i - Len(s) \in 1..Len(t) /\ j - Len(s) \in 1..Len(t) /\ i - Len(s) < j - Len(s)
          /\ ~(j <= Len(s))
      BY <1>1, <1>4, <2>1, <2>4
    <3>2. u[i] = t[i - Len(s)] /\ u[j] = t[j - Len(s)]
      BY <1>1, <1>2, <1>3, <2>4, <3>1 DEF u
    <3> QED BY <1>0, <1>1, <3>1, <3>2 DEF AllApart
  <2> QED BY <2>1, <2>2, <2>3, <2>4
<1> QED BY <1>2, <1>4 DEF AllApart, Chain, u

\* Beside or below one another.
LEMMA Beside ==
  ASSUME NEW a \in Spot, NEW b \in Spot,
         \/ a.x + Box(a.type)[1] <= b.x \/ b.x + Box(b.type)[1] <= a.x
         \/ a.y + Box(a.type)[2] <= b.y \/ b.y + Box(b.type)[2] <= a.y
  PROVE  ~BoxesOverlap(a, b)
<1>1. /\ Box(a.type)[1] \in Int /\ Box(a.type)[2] \in Int
      /\ Box(b.type)[1] \in Int /\ Box(b.type)[2] \in Int
  BY DEF Box, Spot
<1>2. a.x \in Int /\ a.y \in Int /\ b.x \in Int /\ b.y \in Int
  BY DEF Spot
<1> DEFINE aw == Box(a.type)[1]
           ah == Box(a.type)[2]
           bw == Box(b.type)[1]
           bh == Box(b.type)[2]
<1>3. aw \in Int /\ ah \in Int /\ bw \in Int /\ bh \in Int
      /\ (a.x + aw <= b.x \/ b.x + bw <= a.x \/ a.y + ah <= b.y \/ b.y + bh <= a.y)
  BY <1>1
<1>4. BoxesOverlap(a, b) <=> (a.x < b.x + bw /\ b.x < a.x + aw /\ a.y < b.y + bh /\ b.y < a.y + ah)
  BY DEF BoxesOverlap
<1> HIDE DEF aw, ah, bw, bh
<1> QED BY <1>2, <1>3, <1>4


\* Where the groups of a panel of size w by h with n lines of information lie.
Logos(w)       == {p \in Spot : p.type = "logo" /\ 2 * p.x <= w /\ w <= 2 * p.x + 1 /\ p.y = 60}
Lines(n)       == {p \in Spot : p.type = "text" /\ p.x = 60 /\ p.y >= 330 /\ p.y + 45 <= 330 + 45 * n}
Symbols(h)     == {p \in Spot : p.type = "handling" /\ p.y = h - 200}
Warnings(w)    == {p \in Spot : p.type = "warning" /\ p.x = w - 200 /\ p.y >= 330 /\ p.y <= 810}
Origins(h)     == {p \in Spot : p.type = "text" /\ p.y = h - 80}
Barcodes(w, h) == {p \in Spot : p.type = "barcode" /\ p.x \in {60, w - 480} /\ p.y = h - 325}
Drawings(w, n) == {p \in Spot : p.type = "drawing" /\ 2 * p.x <= w - 600 /\ w - 600 <= 2 * p.x + 1
                                /\ p.y = 350 + 45 * n}

\* Which groups are apart: all but handling symbols and barcode.
GroupsClear(w, h, n) ==
  /\ Clear(Logos(w), Lines(n))
  /\ Clear(Logos(w) \cup Lines(n), Symbols(h))
  /\ Clear(Logos(w) \cup Lines(n) \cup Symbols(h), Warnings(w))
  /\ Clear(Logos(w) \cup Lines(n) \cup Symbols(h) \cup Warnings(w), Origins(h))
  /\ Clear(Logos(w) \cup Lines(n) \cup Warnings(w) \cup Origins(h), Barcodes(w, h))
  /\ Clear(Logos(w) \cup Lines(n) \cup Symbols(h) \cup Warnings(w) \cup Origins(h)
             \cup Barcodes(w, h), Drawings(w, n))

\* They are so on a panel of 5 inches by 5 inches or more.
LEMMA GroupsApart ==
  ASSUME NEW w \in Int, NEW h \in Int, w >= 1270, h >= 1270, NEW n \in 0..6
  PROVE  GroupsClear(w, h, n)
<1>1. ASSUME NEW a \in Logos(w), NEW b \in Lines(n) PROVE ~BoxesOverlap(a, b)
  <2>1. a \in Spot /\ b \in Spot /\ Box(a.type)[2] = 240 /\ a.y = 60 /\ b.y >= 330 /\ b.y \in Int
    BY DEF Logos, Lines, Spot, Box
  <2>2. a.y + Box(a.type)[2] <= b.y
    BY <2>1
  <2> QED BY <2>1, <2>2, Beside
<1>2. ASSUME NEW a \in Logos(w), NEW b \in Symbols(h) PROVE ~BoxesOverlap(a, b)
  <2>1. a \in Spot /\ b \in Spot /\ Box(a.type)[2] = 240 /\ a.y = 60 /\ b.y = h - 200
    BY DEF Logos, Symbols, Spot, Box
  <2>2. a.y + Box(a.type)[2] <= b.y
    BY <2>1
  <2> QED BY <2>1, <2>2, Beside
<1>3. ASSUME NEW a \in Lines(n), NEW b \in Symbols(h) PROVE ~BoxesOverlap(a, b)
  <2>1. a \in Spot /\ b \in Spot /\ Box(a.type)[2] = 45 /\ a.y \in Int /\ a.y + 45 <= 330 + 45 * n
        /\ b.y = h - 200
    BY DEF Lines, Symbols, Spot, Box
  <2>2. a.y + Box(a.type)[2] <= b.y
    BY <2>1
  <2> QED BY <2>1, <2>2, Beside
<1>4. ASSUME NEW a \in Logos(w), NEW b \in Warnings(w) PROVE ~BoxesOverlap(a, b)
  <2>1. a \in Spot /\ b \in Spot /\ Box(a.type)[2] = 240 /\ a.y = 60 /\ b.y >= 330 /\ b.y \in Int
    BY DEF Logos, Warnings, Spot, Box
  <2>2. a.y + Box(a.type)[2] <= b.y
    BY <2>1
  <2> QED BY <2>1, <2>2, Beside
<1>5. ASSUME NEW a \in Lines(n), NEW b \in Warnings(w) PROVE ~BoxesOverlap(a, b)
  <2>1. a \in Spot /\ b \in Spot /\ Box(a.type)[1] = 400 /\ a.x = 60 /\ b.x = w - 200
    BY DEF Lines, Warnings, Spot, Box
  <2>2. a.x + Box(a.type)[1] <= b.x
    BY <2>1
  <2> QED BY <2>1, <2>2, Beside
<1>6. ASSUME NEW a \in Symbols(h), NEW b \in Warnings(w) PROVE ~BoxesOverlap(a, b)
  <2>1. a \in Spot /\ b \in Spot /\ a.y = h - 200 /\ b.y <= 810 /\ b.y \in Int /\ Box(b.type)[2] = 140
    BY DEF Symbols, Warnings, Spot, Box
  <2>2. b.y + Box(b.type)[2] <= a.y
    BY <2>1
  <2> QED BY <2>1, <2>2, Beside
<1>7. ASSUME NEW a \in Logos(w), NEW b \in Origins(h) PROVE ~BoxesOverlap(a, b)
  <2>1. a \in Spot /\ b \in Spot /\ Box(a.type)[2] = 240 /\ a.y = 60 /\ b.y = h - 80
    BY DEF Logos, Origins, Spot, Box
  <2>2. a.y + Box(a.type)[2] <= b.y
    BY <2>1
  <2> QED BY <2>1, <2>2, Beside
<1>8. ASSUME NEW a \in Lines(n), NEW b \in Origins(h) PROVE ~BoxesOverlap(a, b)
  <2>1. a \in Spot /\ b \in Spot /\ Box(a.type)[2] = 45 /\ a.y \in Int /\ a.y + 45 <= 330 + 45 * n
        /\ b.y = h - 80
    BY DEF Lines, Origins, Spot, Box
  <2>2. a.y + Box(a.type)[2] <= b.y
    BY <2>1
  <2> QED BY <2>1, <2>2, Beside
<1>9. ASSUME NEW a \in Symbols(h), NEW b \in Origins(h) PROVE ~BoxesOverlap(a, b)
  <2>1. a \in Spot /\ b \in Spot /\ Box(a.type)[2] = 45 /\ a.y = h - 200 /\ b.y = h - 80
    BY DEF Symbols, Origins, Spot, Box
  <2>2. a.y + Box(a.type)[2] <= b.y
    BY <2>1
  <2> QED BY <2>1, <2>2, Beside
<1>10. ASSUME NEW a \in Warnings(w), NEW b \in Origins(h) PROVE ~BoxesOverlap(a, b)
  <2>1. a \in Spot /\ b \in Spot /\ Box(a.type)[2] = 140 /\ a.y <= 810 /\ a.y \in Int /\ b.y = h - 80
    BY DEF Warnings, Origins, Spot, Box
  <2>2. a.y + Box(a.type)[2] <= b.y
    BY <2>1
  <2> QED BY <2>1, <2>2, Beside
<1>11. ASSUME NEW a \in Logos(w), NEW b \in Barcodes(w, h) PROVE ~BoxesOverlap(a, b)
  <2>1. a \in Spot /\ b \in Spot /\ Box(a.type)[2] = 240 /\ a.y = 60 /\ b.y = h - 325
    BY DEF Logos, Barcodes, Spot, Box
  <2>2. a.y + Box(a.type)[2] <= b.y
    BY <2>1
  <2> QED BY <2>1, <2>2, Beside
<1>12. ASSUME NEW a \in Lines(n), NEW b \in Barcodes(w, h) PROVE ~BoxesOverlap(a, b)
  <2>1. a \in Spot /\ b \in Spot /\ Box(a.type)[2] = 45 /\ a.y \in Int /\ a.y + 45 <= 330 + 45 * n
        /\ b.y = h - 325
    BY DEF Lines, Barcodes, Spot, Box
  <2>2. a.y + Box(a.type)[2] <= b.y
    BY <2>1
  <2> QED BY <2>1, <2>2, Beside
<1>13. ASSUME NEW a \in Warnings(w), NEW b \in Barcodes(w, h) PROVE ~BoxesOverlap(a, b)
  <2>1. a \in Spot /\ b \in Spot /\ Box(b.type)[1] = 240 /\ a.x = w - 200 /\ b.x \in {60, w - 480}
    BY DEF Warnings, Barcodes, Spot, Box
  <2>2. b.x + Box(b.type)[1] <= a.x
    BY <2>1
  <2> QED BY <2>1, <2>2, Beside
<1>14. ASSUME NEW a \in Origins(h), NEW b \in Barcodes(w, h) PROVE ~BoxesOverlap(a, b)
  <2>1. a \in Spot /\ b \in Spot /\ Box(b.type)[2] = 150 /\ a.y = h - 80 /\ b.y = h - 325
    BY DEF Origins, Barcodes, Spot, Box
  <2>2. b.y + Box(b.type)[2] <= a.y
    BY <2>1
  <2> QED BY <2>1, <2>2, Beside
<1>15. ASSUME NEW a \in Logos(w) \cup Lines(n), NEW b \in Drawings(w, n) PROVE ~BoxesOverlap(a, b)
  <2>1. /\ a \in Spot /\ b \in Spot /\ b.y = 350 + 45 * n /\ a.y \in Int
        /\ \/ Box(a.type)[2] = 240 /\ a.y = 60
           \/ Box(a.type)[2] = 45 /\ a.y + 45 <= 330 + 45 * n
    BY DEF Logos, Lines, Drawings, Spot, Box
  <2>2. a.y + Box(a.type)[2] <= b.y
    BY <2>1
  <2> QED BY <2>1, <2>2, Beside
<1>16. ASSUME NEW a \in Symbols(h) \cup Origins(h) \cup Barcodes(w, h), NEW b \in Drawings(w, n)
       PROVE  ~BoxesOverlap(a, b)
  <2>1. a \in Spot /\ b \in Spot /\ b.y = 350 + 45 * n /\ a.y \in {h - 200, h - 80, h - 325}
        /\ Box(b.type)[2] = 300
    BY DEF Symbols, Origins, Barcodes, Drawings, Spot, Box
  <2>2. b.y + Box(b.type)[2] <= a.y
    BY <2>1
  <2> QED BY <2>1, <2>2, Beside
<1>17. ASSUME NEW a \in Warnings(w), NEW b \in Drawings(w, n) PROVE ~BoxesOverlap(a, b)
  <2>1. a \in Spot /\ b \in Spot /\ Box(b.type)[1] = 400 /\ a.x = w - 200 /\ b.x \in Int
        /\ 2 * b.x <= w - 600
    BY DEF Warnings, Drawings, Spot, Box
  <2>2. b.x + Box(b.type)[1] <= a.x
    BY <2>1
  <2> QED BY <2>1, <2>2, Beside
<1> QED BY <1>1, <1>2, <1>3, <1>4, <1>5, <1>6, <1>7, <1>8, <1>9, <1>10, <1>11, <1>12, <1>13,
           <1>14, <1>15, <1>16, <1>17 DEF Clear, GroupsClear


\* One placement alone.
LEMMA OneSpot ==
  ASSUME NEW S, NEW p \in S
  PROVE  Chain(S, <<p>>) /\ Chain(S, <<>>)
BY DEF AllApart, Chain

\* The rows and columns of a panel.
LineRow(n)       == [i \in 1..n |-> Place("text", 60, 330 + (i - 1) * 45)]
SymbolRow(h, n)  == [i \in 1..n |-> Place("handling", 60 + (i - 1) * 160, h - 200)]
WarningRow(w, n) == [i \in 1..n |-> Place("warning", w - 200, 330 + (i - 1) * 160)]

\* The lines of information, one below the other.
LEMMA LinesPlaced ==
  ASSUME NEW n \in 0..6
  PROVE  Chain(Lines(n), LineRow(n))
<1> DEFINE y(i) == 330 + (i - 1) * 45
           q    == [i \in 1..n |-> Place("text", 60, y(i))]
<1>1. ASSUME NEW i \in 1..n PROVE y(i) \in Int /\ y(i) >= 330 /\ y(i) + 45 <= 330 + 45 * n
  OBVIOUS
<1>2. ASSUME NEW i \in 1..n, NEW j \in 1..n, i < j PROVE y(i) + 45 <= y(j)
  BY <1>2
<1> HIDE DEF y
<1>3. ASSUME NEW i \in 1..n
      PROVE  q[i] \in Lines(n) /\ q[i].y = y(i) /\ Box(q[i].type)[2] = 45
  <2>1. q[i] = [type |-> "text", x |-> 60, y |-> y(i)]
    BY DEF Place
  <2> QED BY <1>1, <2>1 DEF Lines, Spot, Box
<1>4. q = [i \in 1..n |-> q[i]]
  OBVIOUS
<1> HIDE DEF q
<1>5. ASSUME NEW i \in 1..n, NEW j \in 1..n, i < j PROVE ~BoxesOverlap(q[i], q[j])
  <2>1. q[i] \in Spot /\ q[j] \in Spot
    BY <1>3 DEF Lines
  <2>2. q[i].y + Box(q[i].type)[2] <= q[j].y
    BY <1>2, <1>3, <1>5
  <2> QED BY <2>1, <2>2, Beside
<1>6. Chain(Lines(n), q)
  <2>1. q \in [1..n -> Lines(n)] /\ DOMAIN q = 1..n /\ n \in Nat
    BY <1>3, <1>4
  <2>2. q \in Seq(Lines(n))
    BY <2>1
  <2> QED BY <1>5, <2>1, <2>2 DEF AllApart, Chain
<1> QED BY <1>6 DEF q, y, LineRow

\* The handling symbols, side by side.
LEMMA SymbolsPlaced ==
  ASSUME NEW h \in Int, NEW n \in 0..3
  PROVE  Chain(Symbols(h), SymbolRow(h, n))
<1> DEFINE x(i) == 60 + (i - 1) * 160
           q    == [i \in 1..n |-> Place("handling", x(i), h - 200)]
<1>1. ASSUME NEW i \in 1..n PROVE x(i) \in Int
  OBVIOUS
<1>2. ASSUME NEW i \in 1..n, NEW j \in 1..n, i < j PROVE x(i) + 80 <= x(j)
  BY <1>2
<1> HIDE DEF x
<1>3. ASSUME NEW i \in 1..n
      PROVE  q[i] \in Symbols(h) /\ q[i].x = x(i) /\ Box(q[i].type)[1] = 80
  <2>1. q[i] = [type |-> "handling", x |-> x(i), y |-> h - 200]
    BY DEF Place
  <2> QED BY <1>1, <2>1 DEF Symbols, Spot, Box
<1>4. q = [i \in 1..n |-> q[i]]
  OBVIOUS
<1> HIDE DEF q
<1>5. ASSUME NEW i \in 1..n, NEW j \in 1..n, i < j PROVE ~BoxesOverlap(q[i], q[j])
  <2>1. q[i] \in Spot /\ q[j] \in Spot
    BY <1>3 DEF Symbols
  <2>2. q[i].x + Box(q[i].type)[1] <= q[j].x
    BY <1>2, <1>3, <1>5
  <2> QED BY <2>1, <2>2, Beside
<1>6. Chain(Symbols(h), q)
  <2>1. q \in [1..n -> Symbols(h)] /\ DOMAIN q = 1..n /\ n \in Nat
    BY <1>3, <1>4
  <2>2. q \in Seq(Symbols(h))
    BY <2>1
  <2> QED BY <1>5, <2>1, <2>2 DEF AllApart, Chain
<1> QED BY <1>6 DEF q, x, SymbolRow

\* The warnings, one below the other.
LEMMA WarningsPlaced ==
  ASSUME NEW w \in Int, NEW n \in 0..4
  PROVE  Chain(Warnings(w), WarningRow(w, n))
<1> DEFINE y(i) == 330 + (i - 1) * 160
           q    == [i \in 1..n |-> Place("warning", w - 200, y(i))]
<1>1. ASSUME NEW i \in 1..n PROVE y(i) \in Int /\ y(i) >= 330 /\ y(i) <= 810
  OBVIOUS
<1>2. ASSUME NEW i \in 1..n, NEW j \in 1..n, i < j PROVE y(i) + 140 <= y(j)
  BY <1>2
<1> HIDE DEF y
<1>3. ASSUME NEW i \in 1..n
      PROVE  q[i] \in Warnings(w) /\ q[i].y = y(i) /\ Box(q[i].type)[2] = 140
  <2>1. q[i] = [type |-> "warning", x |-> w - 200, y |-> y(i)]
    BY DEF Place
  <2> QED BY <1>1, <2>1 DEF Warnings, Spot, Box
<1>4. q = [i \in 1..n |-> q[i]]
  OBVIOUS
<1> HIDE DEF q
<1>5. ASSUME NEW i \in 1..n, NEW j \in 1..n, i < j PROVE ~BoxesOverlap(q[i], q[j])
  <2>1. q[i] \in Spot /\ q[j] \in Spot
    BY <1>3 DEF Warnings
  <2>2. q[i].y + Box(q[i].type)[2] <= q[j].y
    BY <1>2, <1>3, <1>5
  <2> QED BY <2>1, <2>2, Beside
<1>6. Chain(Warnings(w), q)
  <2>1. q \in [1..n -> Warnings(w)] /\ DOMAIN q = 1..n /\ n \in Nat
    BY <1>3, <1>4
  <2>2. q \in Seq(Warnings(w))
    BY <2>1
  <2> QED BY <1>5, <2>1, <2>2 DEF AllApart, Chain
<1> QED BY <1>6 DEF q, y, WarningRow

\* The logo.
LEMMA LogoPlaced == ASSUME NEW w \in Nat PROVE Place("logo", w \div 2, 60) \in Logos(w)
<1> DEFINE half == w \div 2
<1>1. half \in Int /\ 2 * half <= w /\ w <= 2 * half + 1
  OBVIOUS
<1> HIDE DEF half
<1>2. Place("logo", half, 60) \in Logos(w)
  BY <1>1 DEF Place, Logos, Spot
<1> QED BY <1>2 DEF half

\* The lengths the builder uses.
LEMMA Lengths ==
  /\ Margin = 60 /\ Below = 330 /\ TextLine = 45 /\ Symbol + 20 = 160 /\ Symbol + Margin = 200
  /\ Margin + 20 = 80 /\ BarcodeWidth + Margin = 480
  /\ BarcodeHeight + Margin + TextLine + CooReserved = 325
BY DEF Margin, Below, TextLine, Symbol, BarcodeWidth, BarcodeHeight, CooReserved, Logo

\* Groups that are each apart, on a panel of 5 inches by 5 inches or more that has
\* no handling symbols or no barcode.
LEMMA PanelApart ==
  ASSUME NEW w \in Int, NEW h \in Int, w >= 1270, h >= 1270, NEW n \in 0..6,
         NEW logo, Chain(Logos(w), logo), NEW lines, Chain(Lines(n), lines),
         NEW symbols, Chain(Symbols(h), symbols), NEW warnings, Chain(Warnings(w), warnings),
         NEW origin, Chain(Origins(h), origin), NEW barcode, Chain(Barcodes(w, h), barcode),
         NEW drawing, Chain(Drawings(w, n), drawing), symbols = <<>> \/ barcode = <<>>
  PROVE  AllApart(logo \o lines \o symbols \o warnings \o origin \o barcode \o drawing)
<1> DEFINE A1 == Logos(w)
           A2 == A1 \cup Lines(n)
           A3 == A2 \cup Symbols(h)
           A4 == A3 \cup Warnings(w)
           A5 == A4 \cup Origins(h)
           A6 == A5 \cup Barcodes(w, h)
           D4 == A2 \cup Warnings(w)
           D5 == D4 \cup Origins(h)
           D6 == D5 \cup Barcodes(w, h)
           q2 == logo \o lines
           q3 == q2 \o symbols
           q4 == q3 \o warnings
           q5 == q4 \o origin
           q6 == q5 \o barcode
<1>1. /\ Clear(A1, Lines(n)) /\ Clear(A2, Symbols(h)) /\ Clear(A3, Warnings(w))
      /\ Clear(A4, Origins(h)) /\ Clear(D5, Barcodes(w, h)) /\ Clear(A6, Drawings(w, n))
  <2>1. GroupsClear(w, h, n)
    BY GroupsApart
  <2> QED BY <2>1 DEF GroupsClear
<1>2. /\ Clear(A2, Warnings(w)) /\ Clear(D4, Origins(h)) /\ Clear(A5, Drawings(w, n))
      /\ Clear(D6, Drawings(w, n))
  BY <1>1 DEF Clear
<1>3. Chain(A2, q2)
  BY <1>1, ConcatApart
<1> HIDE DEF q2
<1>4. CASE barcode = <<>>
  <2>1. Chain(A3, q3)
    <3> HIDE DEF A2
    <3> QED BY <1>1, <1>3, ConcatApart
  <2> HIDE DEF q3
  <2>2. Chain(A4, q4)
    <3> HIDE DEF A3
    <3> QED BY <1>1, <2>1, ConcatApart
  <2> HIDE DEF q4
  <2>3. Chain(A5, q5)
    <3> HIDE DEF A4
    <3> QED BY <1>1, <2>2, ConcatApart
  <2> HIDE DEF q5
  <2>4. q6 = q5
    BY <1>4, <2>3 DEF Chain
  <2> HIDE DEF q6, A5
  <2>5. Chain(A5 \cup Drawings(w, n), q5 \o drawing)
    BY <1>2, <2>3, ConcatApart
  <2> QED BY <2>4, <2>5 DEF q2, q3, q4, q5, q6, Chain
<1>5. CASE symbols = <<>>
  <2>1. q3 = q2
    BY <1>3, <1>5 DEF Chain
  <2> HIDE DEF q3
  <2>2. Chain(D4, q4)
    <3>1. Chain(A2 \cup Warnings(w), q2 \o warnings)
      <4> HIDE DEF A2
      <4> QED BY <1>2, <1>3, ConcatApart
    <3> QED BY <2>1, <3>1
  <2> HIDE DEF q4
  <2>3. Chain(D5, q5)
    <3> HIDE DEF D4
    <3> QED BY <1>2, <2>2, ConcatApart
  <2> HIDE DEF q5
  <2>4. Chain(D6, q6)
    <3> HIDE DEF D5
    <3> QED BY <1>1, <2>3, ConcatApart
  <2> HIDE DEF q6, D6
  <2>5. Chain(D6 \cup Drawings(w, n), q6 \o drawing)
    BY <1>2, <2>4, ConcatApart
  <2> QED BY <2>5 DEF q2, q3, q4, q5, q6, Chain
<1> QED BY <1>4, <1>5

\* Nothing overlaps on a panel.
LEMMA PlacementsApart ==
  ASSUME NEW s \in Item, NEW panel \in Panels, \A k \in {"L", "W", "H"} : s.side[k] >= 5,
         s.symbols = 0 \/ s.upc = "none"
  PROVE  AllApart(Placements(s, panel))
<1> DEFINE long == panel \in LongPanels
           w == IF long THEN Side(s, "L") ELSE Side(s, "W")
           h == Side(s, "H")
           n == InfoLines(s, long)
           k == Lower(3, s.symbols)
           m == Lower(4, s.warnings)
<1>1. \A d \in {"L", "W", "H"} : Side(s, d) \in Nat /\ Side(s, d) >= 1270
  <2>1. \A d \in {"L", "W", "H"} : s.side[d] \in Nat /\ s.side[d] >= 5
    BY InchesAssumption DEF Item
  <2> QED BY <2>1 DEF Side
<1>2. w \in Nat /\ h \in Nat /\ w >= 1270 /\ h >= 1270
  BY <1>1
<1>3. n \in 0..6
  BY DEF InfoLines
<1>4. k \in 0..3 /\ m \in 0..4 /\ (s.symbols = 0 => k = 0)
  BY InchesAssumption DEF Lower, Item
<1> DEFINE logo(v)        == <<Place("logo", v \div 2, 60)>>
           origin(u, v)   == IF s.origin = "none" THEN <<>> ELSE <<Place("text", u \div 2, v - 80)>>
           barcode(u, v)  == IF s.upc = "none" THEN <<>>
                             ELSE <<Place("barcode", IF long THEN 60 ELSE u - 480, v - 325)>>
           drawing(u, v)  == IF long \/ s.line = "none" THEN <<>>
                             ELSE <<Place("drawing", (u - 600) \div 2, 350 + v * 45)>>
<1>5. Placements(s, panel) = logo(w) \o LineRow(n) \o SymbolRow(h, k) \o WarningRow(w, m)
                               \o origin(w, h) \o barcode(w, h) \o drawing(w, n)
  <2>1. Lower(w - 2 * 60, 600) = 600
    BY <1>2 DEF Lower
  <2>2. 330 + n * 45 + 20 = 350 + n * 45
    BY <1>3
  <2>3. /\ h - Symbol - Margin = h - 200 /\ w - Symbol - Margin = w - 200
        /\ h - Margin - 20 = h - 80 /\ w - BarcodeWidth - Margin = w - 480
        /\ BarcodeTop(h) = h - 325
    <3> HIDE DEF w, h
    <3> QED BY <1>2 DEF Symbol, Margin, BarcodeWidth, BarcodeTop, BarcodeHeight, TextLine, CooReserved
  <2> DEFINE r1 == <<Place("logo", w \div 2, Margin)>>
             r2 == [i \in 1..n |-> Place("text", Margin, Below + (i - 1) * TextLine)]
             r3 == [i \in 1..k |-> Place("handling", Margin + (i - 1) * (Symbol + 20),
                                         h - Symbol - Margin)]
             r4 == [i \in 1..m |-> Place("warning", w - Symbol - Margin,
                                         Below + (i - 1) * (Symbol + 20))]
             r5 == IF s.origin = "none" THEN <<>> ELSE <<Place("text", w \div 2, h - Margin - 20)>>
             r6 == IF s.upc = "none" THEN <<>>
                   ELSE <<Place("barcode", IF long THEN Margin ELSE w - BarcodeWidth - Margin,
                                BarcodeTop(h))>>
             r7 == IF long \/ s.line = "none" THEN <<>>
                   ELSE <<Place("drawing", (w - Lower(w - 2 * Margin, 600)) \div 2,
                                Below + n * TextLine + 20)>>
  <2>4. Placements(s, panel) = r1 \o r2 \o r3 \o r4 \o r5 \o r6 \o r7
    BY DEF Placements
  <2> HIDE DEF w, h, n, k, m, long
  <2>5. r2 = LineRow(n)
    BY Lengths DEF LineRow
  <2>6. r3 = SymbolRow(h, k)
    BY <2>3, Lengths DEF SymbolRow
  <2>7. r4 = WarningRow(w, m)
    BY <2>3, Lengths DEF WarningRow
  <2>8. r1 = logo(w)
    BY Lengths
  <2>9. r5 = origin(w, h)
    BY <2>3
  <2>10. r6 = barcode(w, h)
    BY <2>3, Lengths
  <2>11. r7 = drawing(w, n)
    <3>1. Lower(w - 2 * Margin, 600) = 600 /\ Below + n * TextLine + 20 = 350 + n * 45
      BY <2>1, <2>2, Lengths
    <3> QED BY <3>1
  <2> HIDE DEF logo, origin, barcode, drawing, r1, r2, r3, r4, r5, r6, r7
  <2> QED BY <2>4, <2>5, <2>6, <2>7, <2>8, <2>9, <2>10, <2>11
<1> HIDE DEF w, h, n, k, m
<1>6. Chain(Logos(w), logo(w))
  BY <1>2, LogoPlaced, OneSpot
<1>7. Chain(Lines(n), LineRow(n))
  BY <1>3, LinesPlaced
<1>8. Chain(Symbols(h), SymbolRow(h, k))
  BY <1>2, <1>4, SymbolsPlaced
<1>9. Chain(Warnings(w), WarningRow(w, m))
  BY <1>2, <1>4, WarningsPlaced
<1>10. Chain(Origins(h), origin(w, h))
  <2>1. Place("text", w \div 2, h - 80) \in Origins(h)
    BY <1>2 DEF Place, Origins, Spot
  <2> QED BY <2>1, OneSpot
<1>11. Chain(Barcodes(w, h), barcode(w, h))
  <2> DEFINE x == IF long THEN 60 ELSE w - 480
  <2>1. x \in {60, w - 480} /\ x \in Int
    BY <1>2
  <2> HIDE DEF x
  <2>2. Place("barcode", x, h - 325) \in Barcodes(w, h)
    BY <1>2, <2>1 DEF Place, Barcodes, Spot
  <2> QED BY <2>2, OneSpot DEF x
<1>12. Chain(Drawings(w, n), drawing(w, n))
  <2> DEFINE half == (w - 600) \div 2
             y == 350 + n * 45
  <2>1. half \in Int /\ 2 * half <= w - 600 /\ w - 600 <= 2 * half + 1
    BY <1>2
  <2>2. y \in Int /\ y = 350 + 45 * n
    BY <1>3
  <2> HIDE DEF half, y
  <2>3. Place("drawing", half, y) \in Drawings(w, n)
    BY <2>1, <2>2 DEF Place, Drawings, Spot
  <2> QED BY <2>3, OneSpot DEF half, y
<1>13. SymbolRow(h, k) = <<>> \/ barcode(w, h) = <<>>
  <2>1. k = 0 => SymbolRow(h, k) = <<>>
    BY DEF SymbolRow
  <2> QED BY <1>4, <2>1
<1> HIDE DEF logo, origin, barcode, drawing
<1> QED BY <1>2, <1>3, <1>5, <1>6, <1>7, <1>8, <1>9, <1>10, <1>11, <1>12, <1>13, PanelApart


\* The inductive invariant: the label is the sample's, or nobody's, and the
\* verdict is on that label.
AInv == /\ sample \in Item
        /\ carton = NoCarton \/ carton = Template(sample) \/ carton = Reference(sample)
        /\ verdict = NoVerdict \/ verdict = Verdict(sample, carton)

\* Every step keeps it.
LEMMA AInvNext == AInv /\ [ANext]_avars => AInv'
<1> SUFFICES ASSUME AInv, [ANext]_avars PROVE AInv'
  OBVIOUS
<1>1. CASE UNCHANGED avars
  BY <1>1 DEF AInv, avars
<1>2. CASE ComposeLabel
  BY <1>2 DEF AInv, ComposeLabel, Composed
<1>3. CASE ValidateLabel
  BY <1>3 DEF AInv, ValidateLabel
<1> QED BY <1>1, <1>2, <1>3 DEF ANext

\* The first states satisfy it.
LEMMA AInvInit == AInit => AInv
BY SampleTyped DEF AInit, AInv

\* The invariant of the label builder.
THEOREM AInvariant == ASpec => []AInv
BY AInvInit, AInvNext, PTL DEF ASpec

\* The types of the label builder's variables, ATypeOK: what is critical is a
\* required field or the barcode.
THEOREM ATypeCorrect == ASpec => []ATypeOK
<1>1. AInv => ATypeOK
  BY DEF AInv, ATypeOK, Verdict
<1> QED BY <1>1, AInvariant, PTL

\* No two placements of a label that are apart are reported.
LEMMA ApartIsClean ==
  ASSUME NEW l, \A p \in Panels : AllApart(l.placed[p])
  PROVE  Overlapping(l) = {}
BY DEF AllApart, Overlapping

\* On every carton with sides of 5 inches or more, whatever is printed on it, the
\* layout of _build_panel passes _bboxes_overlap, unless a barcode and handling
\* symbols share a corner: LayoutIsClean.
THEOREM LayoutClean == ASpec => []LayoutIsClean
<1>1. AInv => LayoutIsClean
  <2> SUFFICES ASSUME AInv, verdict # NoVerdict, \A k \in {"L", "W", "H"} : sample.side[k] >= 5,
                      sample.symbols = 0 \/ sample.upc = "none"
               PROVE  verdict.overlaps = {}
    BY DEF LayoutIsClean
  <2>1. verdict.overlaps = Overlapping(carton)
    BY DEF AInv, Verdict
  <2>2. \A p \in Panels : AllApart(carton.placed[p])
    <3>1. \A p \in Panels : AllApart(<<>>)
      BY DEF AllApart
    <3>2. CASE carton = NoCarton \/ carton = Reference(sample)
      BY <3>1, <3>2 DEF NoCarton, Reference
    <3>3. CASE carton = Template(sample)
      <4>1. sample \in Item
        BY DEF AInv
      <4>2. \A p \in Panels : AllApart(Placements(sample, p))
        BY <4>1, PlacementsApart
      <4>3. CASE carton = NoCarton
        BY <3>2, <4>3
      <4>4. CASE carton # NoCarton
        <5>1. carton.placed = [p \in Panels |-> Placements(sample, p)]
          BY <3>3, <4>4 DEF Template
        <5> QED BY <4>2, <5>1
      <4> QED BY <4>3, <4>4
    <3> QED BY <3>2, <3>3 DEF AInv
  <2> QED BY <2>1, <2>2, ApartIsClean
<1> QED BY <1>1, AInvariant, PTL

-----------------------------------------------------------------------------
(* MC_System: the components one beside another.                           *)

\* However a component begins when it is not in focus, it begins as it may.
LEMMA FirstsAreInits ==
  /\ FirstErrand => GInit
  /\ FirstScope => HInit
  /\ FirstGoods => QInit
  /\ FirstSample => AInit
<1>1. FirstErrand => GInit
  BY DEF FirstErrand, GInit, Calls, PiCalls
<1>2. FirstScope => HInit
  <2>1. \E s : s \in Scope
    <3>1. PICK u : u \in Speakers
      BY DEF Speakers
    <3>2. [speaker |-> u, importer |-> TRUE, onboarded |-> TRUE, owner |-> "own", blob |-> TRUE] \in Scope
      BY <3>1 DEF Scope
    <3> QED BY <3>2
  <2>2. (CHOOSE s \in Scope : TRUE) \in Scope
    BY <2>1
  <2> QED BY <2>2 DEF FirstScope, HInit
<1>3. FirstGoods => QInit
  <2>1. \E g : g \in Goods
    BY GoodsAssumption
  <2>2. (CHOOSE g \in Goods : TRUE) \in Goods
    BY <2>1
  <2> QED BY <2>2 DEF FirstGoods, QInit
<1>4. FirstSample => AInit
  <2>1. [description |-> "none", upc |-> "none", dims |-> "box", origin |-> "none",
         drawing |-> "known", line |-> "none", brand |-> "name", required |-> {},
         symbols |-> 0, warnings |-> 0, side |-> Cube(12)] \in InfoText
    BY DEF InfoText
  <2>2. (CHOOSE s \in InfoText : TRUE) \in InfoText
    BY <2>1
  <2> QED BY <2>2 DEF FirstSample, AInit
<1> QED BY <1>1, <1>2, <1>3, <1>4

\* The components that are not in focus stutter.
AllStep == /\ [ONext]_ovars /\ [DNext]_dvars /\ [GNext]_gvars /\ [HNext]_hvars
           /\ [QNext]_qvars /\ [ANext]_avars /\ [NNext]_nvars /\ [FNext]_fvars
           /\ [LNext]_lvars /\ [PNext]_pvars /\ [SNext]_svars /\ [BNext]_bvars
           /\ [CNext]_cvars /\ [KNext]_kvars
\* No step of the system is more than a step of each component.
LEMMA OneStepsAtATime ==
  [MCNext]_<<focus, ovars, dvars, gvars, hvars, qvars, avars, nvars,
             fvars, lvars, pvars, svars, bvars, cvars, kvars>> => AllStep
BY DEF MCNext, AllStep

\* A behaviour of the system is one of each component.
LEMMA SystemRunsComponents ==
  MCSpec => /\ OSpec /\ DSpec /\ GSpec /\ HSpec /\ QSpec /\ ASpec /\ FSpec /\ LSpec
            /\ PSpec /\ SSpec /\ BSpec /\ CSpec /\ KSpec
            /\ NInit /\ [][NNext]_nvars
<1>1. MCInit => /\ OInit /\ DInit /\ GInit /\ HInit /\ QInit /\ AInit /\ FInit /\ LInit
                /\ PInit /\ SInit /\ BInit /\ CInit /\ KInit /\ NInit
  BY FirstsAreInits DEF MCInit, Begins
<1> QED BY <1>1, OneStepsAtATime, PTL
        DEF MCSpec, AllStep, OSpec, DSpec, GSpec, HSpec, QSpec, ASpec, FSpec, LSpec, PSpec, SSpec,
            BSpec, CSpec, KSpec

\* Every component keeps the types of its variables, whatever the others do:
\* SystemTypeOK.
THEOREM SystemTypeCorrect == MCSpec => []SystemTypeOK
<1>1. MCSpec => []NTypeOK
  BY SystemRunsComponents, NInvInit, NInvNext, NInvTypes, PTL
<1>2. MCSpec => /\ []OTypeOK /\ []DTypeOK /\ []GTypeOK /\ []HTypeOK /\ []QTypeOK /\ []ATypeOK
                /\ []FTypeOK /\ []LTypeOK /\ []PTypeOK /\ []STypeOK /\ []BTypeOK /\ []CTypeOK
                /\ []KTypeOK
  BY SystemRunsComponents, OTypeCorrect, DTypeCorrect, GTypeCorrect, ToolsAnswered, DryRunsPredict,
     ATypeCorrect, FTypeCorrect, LTypeCorrect, PTypeCorrect, STypeCorrect, BTypeCorrect,
     CTypeCorrect, KTypeCorrect, PTL
<1>3. ASSUME OTypeOK, DTypeOK, GTypeOK, HTypeOK, QTypeOK, ATypeOK, FTypeOK, LTypeOK,
             PTypeOK, STypeOK, BTypeOK, CTypeOK, KTypeOK, NTypeOK
      PROVE  SystemTypeOK
  BY <1>3, Zenon DEF SystemTypeOK
<1> QED BY <1>1, <1>2, <1>3, PTL

\* What the clients of a thread see live is what there is, the events of the
\* conversation and the strokes of its canvas: LiveViewsAreSound.
THEOREM LiveViewsSound == MCSpec => []LiveViewsAreSound
<1>1. StreamIsSound /\ CanvasIsSound => LiveViewsAreSound
  BY DEF LiveViewsAreSound
<1> QED BY <1>1, SystemRunsComponents, StreamSound, CanvasSound, PTL

\* What becomes of what a model says, to the agents and in a chat:
\* AnswersAreChecked.
THEOREM AnswersChecked == MCSpec => []AnswersAreChecked
<1>1. AcceptedIsChecked /\ ToolsAreAnswered => AnswersAreChecked
  BY DEF AnswersAreChecked
<1> QED BY <1>1, SystemRunsComponents, AcceptedChecked, ToolsAnswered, PTL
=============================================================================
