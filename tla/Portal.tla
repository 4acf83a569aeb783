------------------------------- MODULE Portal -------------------------------
(***************************************************************************)
(* The customer and printer portal (api/v1/portal.py): links that carry a  *)
(* token in place of a login, each meant for one terminal action.  A       *)
(* request loads the token, decides, and commits after further awaits; no  *)
(* row is locked.  The portal writes tokens and audit rows only: orders    *)
(* and items are left as they are.                                         *)
(***************************************************************************)
EXTENDS Naturals, Sequences, FiniteSets

CONSTANTS
  Tokens,       \* ids of portal tokens
  PortalCalls   \* ids of requests, each served once

VARIABLES
  token,    \* the PortalToken rows, NoToken where there is none yet
  visit,    \* the requests: the token, and how long the trail was when loaded
  trail     \* the AuditLog rows of the portal, oldest first

pvars == <<token, visit, trail>>

-----------------------------------------------------------------------------
Roles  == {"importer", "printer"}
\* What a terminal action makes of the token; a download makes nothing of it.
VisitOutcome == [approve |-> "approved", reject |-> "rejected", confirm |-> "confirmed"]
NoToken == [role |-> "none", status |-> "none", expired |-> FALSE]
NoVisit == [op |-> "none", token |-> "none", since |-> 0]

PInit ==
  /\ token = [t \in Tokens |-> NoToken]
  /\ visit = [c \in PortalCalls |-> NoVisit]
  /\ trail = <<>>

CreateToken(t, role) ==
  /\ token[t] = NoToken
  /\ token' = [token EXCEPT ![t] = [role |-> role, status |-> "active", expired |-> FALSE]]
  /\ trail' = Append(trail, [op |-> "created", token |-> t, by |-> "ops"])
  /\ UNCHANGED visit

\* expires_at passes.
Expire(t) ==
  /\ token[t] # NoToken /\ ~token[t].expired
  /\ token' = [token EXCEPT ![t].expired = TRUE]
  /\ UNCHANGED <<visit, trail>>

\* _load_token: 404 for another role, 410 after the expiry.
Usable(t, role) == token[t].role = role /\ ~token[t].expired
Enter(c, op, t) ==
  /\ visit[c] = NoVisit
  /\ visit' = [visit EXCEPT ![c] = [op |-> op, token |-> t, since |-> Len(trail)]]
  /\ UNCHANGED <<token, trail>>

\* importer_approve, importer_reject and printer_confirm pass _assert_active.
BeginApprove(c, t) == Usable(t, "importer") /\ token[t].status = "active" /\ Enter(c, "approve", t)
BeginReject(c, t)  == Usable(t, "importer") /\ token[t].status = "active" /\ Enter(c, "reject", t)
ConfirmAgain(c, t) == Usable(t, "printer") /\ Enter(c, "confirm", t)   \* mutant: no _assert_active
BeginConfirm(c, t) == Usable(t, "printer") /\ token[t].status = "active" /\ Enter(c, "confirm", t)

\* get_printer_item_bundle: not only while the token is active, for reprints.
BeginDownload(c, t) == Usable(t, "printer") /\ Enter(c, "download", t)

\* The commit.  A terminal action writes the status it decided on, whatever
\* it is by now; a download is refused without a trace when the item has no
\* bundle or the bundle no blob.
CommitVisit(c) ==
  /\ visit[c].op \notin {"none", "done"}
  /\ LET v == visit[c] IN
       /\ token' = IF v.op = "download" THEN token
                   ELSE [token EXCEPT ![v.token].status = VisitOutcome[v.op]]
       /\ \/ trail' = Append(trail, [op |-> v.op, token |-> v.token, by |-> c])
          \/ v.op = "download" /\ trail' = trail
  /\ visit' = [visit EXCEPT ![c].op = "done"]

PNext ==
  \/ \E t \in Tokens : Expire(t) \/ \E role \in Roles : CreateToken(t, role)
  \/ \E c \in PortalCalls : \/ CommitVisit(c)
                            \/ \E t \in Tokens : \/ BeginApprove(c, t) \/ BeginReject(c, t)
                                                 \/ BeginConfirm(c, t) \/ BeginDownload(c, t)

PSpec == PInit /\ [][PNext]_pvars

-----------------------------------------------------------------------------
\* The types of the variables.
PTypeOK ==
  /\ \A t \in Tokens : token[t].status \in {"none", "active", "approved", "rejected", "confirmed"}
  /\ \A c \in PortalCalls : visit[c].op \in DOMAIN VisitOutcome \cup {"none", "download", "done"}
  /\ \A n \in DOMAIN trail : trail[n].token \in Tokens

\* The terminal actions on record for a token.
Uses(t) == {n \in DOMAIN trail : trail[n].token = t /\ trail[n].op \in DOMAIN VisitOutcome}

\* A token's status is that of the last use on record, uses befit its role,
\* and a token is used twice only by requests that overlap, the second having
\* loaded it before the first was committed: neither visits, downloads, nor
\* the expiry change it or let it be used again.
UsesAreRecorded ==
  \A t \in Tokens :
    /\ token[t].status \in IF token[t] = NoToken THEN {"none"}
                           ELSE IF Uses(t) = {} THEN {"active"}
                           ELSE {VisitOutcome[trail[n].op] : n \in {m \in Uses(t) : \A u \in Uses(t) : u <= m}}
    /\ \A n \in Uses(t) : trail[n].op = "confirm" <=> token[t].role = "printer"
    /\ \A m, n \in Uses(t) : m < n => visit[trail[n].by].since < m
=============================================================================
