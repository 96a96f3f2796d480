--------------------------- MODULE DlqCorrection ---------------------------
(***************************************************************************)
(* How backend/app/tools/reprocess_dlq.py corrects a dead letter before it *)
(* publishes it again: the consumer's normalize(), a tenant for an event   *)
(* without one, and a severity for an event without one.                   *)
(***************************************************************************)
EXTENDS EventPipeline

CONSTANTS FallbackTenant,   \* the literal "default" of reprocess_dlq.py
          SeverityDefault   \* --severity-default

ASSUME CorrectionAssumption ==
    /\ FallbackTenant \in Tenants
    /\ SeverityDefault \in SchemaSeverities

FixEventDropsNullString(e) ==  \* mutant
    IF e.severity = NoSeverity THEN [e EXCEPT !.severity = SeverityDefault] ELSE e

\* fix_event() touches the severity only: the schema defaults it sets are
\* those the consumer would set.
FixEvent(e) ==
    IF e.severity \in {NoSeverity, "null"} THEN [e EXCEPT !.severity = SeverityDefault] ELSE e

FixTenant(e) ==
    IF e.tenant \in {"absent", "null", "empty"} THEN [e EXCEPT !.tenant = FallbackTenant] ELSE e

ReprocessedOneFixAtATime(b) ==  \* mutant
    IF FixEvent(Normalize(b)) # Normalize(b) THEN FixEvent(Normalize(b))
    ELSE FixTenant(Normalize(b))

Reprocessed(b) == FixEvent(FixTenant(Normalize(b)))
=============================================================================
