---------------------------- MODULE MCConnections ----------------------------
(***************************************************************************)
(* One connection of each kind against a limit of two; per protocol as     *)
(* many operations as its longest pattern needs (a Redis transaction with  *)
(* an operation after it, PostgreSQL pipelines with a Sync in the middle). *)
(***************************************************************************)
EXTENDS Connections

CONSTANTS c1, w1, x1

MCTCP == {c1}
MCWeb == {w1}
MCExtra == {x1}
MCParts == Proxies \cup {"guard", "controller", "terminal"}
MCPostgres == {"postgresql"}
MCMaxOps == [mysql |-> 3, postgresql |-> 3, redis |-> 5, mongodb |-> 4, ssh |-> 3, http |-> 3]
=============================================================================
