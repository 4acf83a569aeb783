--------------------------- MODULE MC_HitlThread ---------------------------
(* Small instances of HitlThread: one thread and three requests.            *)
EXTENDS HitlThread, TLC

\* Requests are interchangeable: no definition orders or names one.
Symmetry == Permutations(Requests)

\* Liveness is checked without symmetry, so with fewer kinds of request: one
\* creation, a human reply, a closing that races it, and option, which takes
\* the other publishing path.  The thread is created once and requests are
\* interchangeable, so it may as well be by the first of them.
RacingOps == {"none", "human", "option", "escalate"}
First == CHOOSE r \in Requests : TRUE

RacingFairSpec ==
  /\ Init
  /\ [][/\ Next
        /\ \A r \in Requests :
             req'[r].op \in IF r = First THEN {"none", "create"} ELSE RacingOps]_vars
  /\ \A r \in Requests : WF_vars(Continue(r))
=============================================================================
