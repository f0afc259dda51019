------------------------------- MODULE Domain -------------------------------
(***************************************************************************)
(* The vocabulary of internal/domain/models.go that the other modules      *)
(* share: session statuses and the types of the durable session commands.  *)
(***************************************************************************)
EXTENDS Naturals

CONSTANTS Session,      \* session identifiers
          NoSession     \* the session of a row or job that has none

ASSUME NoSessionAssumption == NoSession \notin Session

SessionStatus == {"provisioning", "running", "revoking", "revoke_failed",
                  "manual_intervention", "closed", "expired", "failed"}

\* isTerminalSession counts manual_intervention; callers that must not treat
\* a session awaiting an operator as finished test for Resolved instead.
Resolved == {"closed", "expired", "failed"}

Terminal == Resolved \cup {"manual_intervention"}

CommandType == {"provision", "revoke"}
=============================================================================
