-------------------------- MODULE MCAccessRequests --------------------------
(* Instances of AccessRequests for TLC. *)
EXTENDS AccessRequests

CONSTANTS ann, bob, eve, k1, k2, port, owners, security

Ask(k, u, ttl) == [key |-> k, user |-> u, target |-> port, ttl |-> ttl, test |-> FALSE]

Test(k, u) == [key |-> k, user |-> u, target |-> port, ttl |-> 2, test |-> TRUE]

\* One request through its approvals.
OneRequest == {Ask(k1, ann, 0), Ask(k1, ann, 3)}

\* One key used by two users, with different durations and as a test.
OneKey == {Ask(k1, ann, 0), Ask(k1, ann, 2), Ask(k1, bob, 0), Test(k1, ann)}

\* Two requests of one user for the same port.
OnePort == {Ask(k1, ann, 0), Test(k2, ann)}

MCSubmissions == {OneRequest, OneKey, OnePort}

MCMaxEdits(S) == IF S = OneRequest THEN 1 ELSE 0

\* Every owner and then one of the security team, or any owner.
MCWorkflows ==
    {<<[mode |-> "all", selector |-> owners], [mode |-> "any", selector |-> security]>>,
     <<[mode |-> "any", selector |-> owners]>>}
=============================================================================
