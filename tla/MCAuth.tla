------------------------------- MODULE MCAuth -------------------------------
(***************************************************************************)
(* Two calls in flight on one account.  The second token and the second    *)
(* email are for runs of the token workflows, the session for the runs of  *)
(* all the others: behaviours that need them together are cut off.         *)
(***************************************************************************)
EXTENDS AuthHttp, FiniteSets, TLC

Symmetry == Permutations(Passwords) \cup Permutations(Sessions)
              \cup Permutations(Tokens) \cup Permutations(Requests)

Focus ==
  /\ \A u \in Users : users[u].unidentified =>
       \A t \in Tokens : tokens[t].state = "unused"
  /\ \/ \A s \in Sessions : sessions[s].state = "unused"
     \/ /\ Cardinality({t \in Tokens : tokens[t].state # "unused"}) <= 1
        /\ \A u \in Users : users[u].email = AnyEmail
=============================================================================
