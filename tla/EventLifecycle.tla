--------------------------- MODULE EventLifecycle ---------------------------
(***************************************************************************)
(* The data of one event as it goes round: a producer's body, the          *)
(* consumer's verdict, the document it indexes or the dead letter it       *)
(* leaves, and the corrections backend/app/tools/reprocess_dlq.py makes    *)
(* before it publishes the dead letter again.  Delivery (duplicates,       *)
(* crashes, acknowledgements) is the business of module Consumer; here one *)
(* copy of the event is followed from the producer to wherever it ends.    *)
(***************************************************************************)
EXTENDS DlqCorrection, Naturals

CONSTANTS Quarantine,       \* --quarantine names a queue
          MaxRounds         \* bound: runs of the tool that pick the event up

ASSUME LifecycleAssumption ==
    /\ Quarantine \in BOOLEAN
    /\ MaxRounds \in Nat

VARIABLES origin,   \* the body the producer published
          body,     \* the body now in the main queue or in the DLQ
          stage,    \* where the event is
          doc,      \* the event as it was sent to OpenSearch
          rounds    \* how often it was replayed

vars == <<origin, body, stage, doc, rounds>>

Stages == {"queued", "dead", "indexed", "discarded", "quarantined"}

TypeOK ==
    /\ origin \in Body
    /\ body \in Body
    /\ stage \in Stages
    /\ doc \in Body
    /\ rounds \in 0 .. MaxRounds

Init ==
    /\ origin \in Body
    /\ body = origin
    /\ stage = "queued"
    /\ doc = origin      \* meaningless until stage = "indexed"
    /\ rounds = 0

-----------------------------------------------------------------------------

\* handle() with OpenSearch answering: the event is indexed ...
HandleIndex ==
    /\ stage = "queued"
    /\ Verdict(body) = Accepted
    /\ stage' = "indexed"
    /\ doc' = Event(body)
    /\ UNCHANGED <<origin, body, rounds>>

\* ... or its original body is dead-lettered.
HandleReject ==
    /\ stage = "queued"
    /\ Verdict(body) # Accepted
    /\ stage' = "dead"
    /\ UNCHANGED <<origin, body, doc, rounds>>

\* The tool republishes a JSON object.  A dead letter that is JSON but no
\* object makes structured.get() raise outside any try: the tool ends and
\* the message stays where it was, so there is no action for it.
ReprocessPublish ==
    /\ stage = "dead"
    /\ body.shape \in {"nomessage", "message"}
    /\ rounds < MaxRounds
    /\ body' = Reprocessed(body)
    /\ stage' = "queued"
    /\ rounds' = rounds + 1
    /\ UNCHANGED <<origin, doc>>

\* A body that is not JSON goes to the quarantine queue, or nowhere.
ReprocessInvalidJson ==
    /\ stage = "dead"
    /\ body.shape = "garbage"
    /\ stage' = IF Quarantine THEN "quarantined" ELSE "discarded"
    /\ UNCHANGED <<origin, body, doc, rounds>>

Next == HandleIndex \/ HandleReject \/ ReprocessPublish \/ ReprocessInvalidJson

Spec == Init /\ [][Next]_vars

-----------------------------------------------------------------------------

HostTenant(b) == IF b.host \in DOMAIN HostTenantMap THEN {HostTenantMap[b.host]} ELSE {}

\* An event is indexed under a registered tenant, and a producer that names
\* a tenant other than the default is never overruled: not by the host
\* mapping, not by the defaults, and not by any number of replays.
TenantIsolation ==
    stage = "indexed" =>
        /\ doc.tenant \in Registry
        /\ origin.tenant \in Tenants \ {DefaultTenant} => doc.tenant = origin.tenant

\* When the producer names no tenant or the default one, the host's tenant
\* wins if the host is mapped, whether the event is indexed at once or only
\* after replays that have written a tenant into its body.
HostDecidesTenant ==
    /\ stage = "indexed"
    /\ origin.tenant \notin Tenants \ {DefaultTenant}
    => \/ doc.tenant \in HostTenant(origin)
       \/ HostTenant(origin) = {} /\ doc.tenant \in {DefaultTenant, FallbackTenant}

\* The consumer's severity mapping and the enumeration of the schema agree:
\* a well-formed event of a registered tenant, with any level the mapping or
\* the schema knows, in its severity key or in its text, is never rejected.
KnownLevelsAccepted ==
    /\ origin.shape = "message"
    /\ origin.typed
    /\ MapHost(Normalize(origin)).tenant \in Registry
    /\ PickSeverity(origin) \in SchemaSeverities \cup MappedSeverities
    => stage \notin {"dead", "discarded", "quarantined"}

\* What a replay cannot repair: a dead letter that was replayed and rejected
\* again has one of these defects, and nothing else can bring it back.
Unfixable(b) ==
    \/ b.shape # "message"
    \/ ~b.typed
    \/ PickSeverity(b) \notin SchemaSeverities \cup MappedSeverities \cup {"null"}
    \/ Event(b).tenant \notin Registry

ReplayRepairs == stage = "dead" /\ rounds > 0 => Unfixable(origin)

\* The tool's correction is idempotent: the second replay of an event
\* republishes the body of the first, byte for byte as far as the pipeline
\* can tell, so an event that a replay did not repair is never repaired.
ReplayIdempotent == [][rounds > 0 => body' = body]_vars

\* docs/architecture/multitenancy_design.md, line 14: tenant_id is not
\* filled in with a default, it is "only accepted if it comes from the
\* producer" (a mapped host aside).
TenantComesFromProducer ==
    stage = "indexed" => origin.tenant \in Tenants \/ HostTenant(origin) # {}
=============================================================================
