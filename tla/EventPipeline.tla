--------------------------- MODULE EventPipeline ---------------------------
(***************************************************************************)
(* What the consumer makes of one message body before it touches           *)
(* OpenSearch or RabbitMQ: json.loads, normalize, the host-to-tenant       *)
(* mapping, _normalize_severity, prepare_event, the local JSON schema and  *)
(* the tenant registry, in the order of handle() in                        *)
(* backend/app/processing/consumer.py.  The pipeline is a pure function of *)
(* the body and of what was read at start-up, so it is a set of operators. *)
(*                                                                         *)
(* A body keeps what the pipeline tells apart:                             *)
(*   shape       not JSON, JSON that is no object, an object without a     *)
(*               string "message", or one with it                          *)
(*   tenant      the tenant_id key: a name (after strip), or why it is none*)
(*   host        the host key, or NoHost                                   *)
(*   severity    the severity key in lower case, NoSeverity when falsy     *)
(*   kvSeverity  the severity/level/crlevel found inside the message text  *)
(*   typed       dataset, schema_version and @timestamp, where present,    *)
(*               are strings                                               *)
(***************************************************************************)

CONSTANTS Tenants,          \* the tenant names that occur in bodies and configuration
          Registry,         \* the tenants TenantRegistry.load() kept at start-up
          DefaultTenant,    \* settings.tenant_id
          Hosts,
          HostTenantMap,    \* HOST_TENANT_MAP: a function on some of the hosts
          RequireTenant,    \* REQUIRE_TENANT
          ValidatorLoaded   \* build_validator() returned a validator

Shapes == {"garbage", "nondict", "nomessage", "message"}

\* The tenant_id values that are no tenant name: no key, null, "", only
\* blanks, and any other JSON value.
NotATenant == {"absent", "null", "empty", "blank", "number"}

NoHost == "nohost"
NoSeverity == ""

SchemaSeverities == {"low", "medium", "high", "critical", "info"}
MappedSeverities == {"error", "alert", "warning", "warn"}
Severities == SchemaSeverities \cup MappedSeverities \cup {"null", "debug", NoSeverity}

Body == [shape      : Shapes,
         tenant     : Tenants \cup NotATenant,
         host       : Hosts \cup {NoHost},
         severity   : Severities,
         kvSeverity : Severities,
         typed      : BOOLEAN]

\* Why handle() rejects an event, as the labels of EVENTS_NACKED_BY_REASON
\* name it; "index_failed" is for an event that passed the pipeline.
RejectReasons == {"processing_exception", "missing_tenant_id",
                  "validation_failed", "unknown_tenant_id"}
Accepted == "accepted"

ASSUME PipelineAssumption ==
    /\ Tenants \cap NotATenant = {}
    /\ DefaultTenant \in Tenants
    /\ Registry \subseteq Tenants
    /\ NoHost \notin Hosts
    /\ DOMAIN HostTenantMap \subseteq Hosts
    /\ \A h \in DOMAIN HostTenantMap : HostTenantMap[h] \in Tenants
    /\ RequireTenant \in BOOLEAN
    /\ ValidatorLoaded \in BOOLEAN

-----------------------------------------------------------------------------

\* raw.get("severity") or kv severity or kv level or kv crlevel or "info"
PickSeverity(b) ==
    CASE b.severity # NoSeverity -> b.severity
      [] b.severity = NoSeverity /\ b.kvSeverity # NoSeverity -> b.kvSeverity
      [] OTHER -> "info"

\* normalize() builds a fresh event from an object with a string message and
\* returns everything else as it came.
Normalize(b) ==
    IF b.shape # "message" THEN b
    ELSE [b EXCEPT !.severity = PickSeverity(b),
                   !.tenant   = IF b.tenant \in Tenants THEN b.tenant
                                ELSE IF RequireTenant THEN "absent" ELSE DefaultTenant]

MapHostAlways(e) ==  \* mutant
    IF e.host \in DOMAIN HostTenantMap THEN [e EXCEPT !.tenant = HostTenantMap[e.host]] ELSE e

MapHostIgnoresDefault(e) ==  \* mutant
    IF e.host \in DOMAIN HostTenantMap /\ e.tenant \in {"absent", "null", "empty"}
    THEN [e EXCEPT !.tenant = HostTenantMap[e.host]]
    ELSE e

\* The host decides the tenant of an event that names none or the default.
MapHost(e) ==
    IF e.host \in DOMAIN HostTenantMap /\ e.tenant \in {"absent", "null", "empty", DefaultTenant}
    THEN [e EXCEPT !.tenant = HostTenantMap[e.host]]
    ELSE e

SEVERITY_MAP_NoWarn(sev) ==  \* mutant
    CASE sev = "error" -> "critical"
      [] sev = "alert" -> "high"
      [] sev = "warning" -> "medium"
      [] OTHER -> sev

SEVERITY_MAP(sev) ==
    CASE sev = "error" -> "critical"
      [] sev = "alert" -> "high"
      [] sev \in {"warning", "warn"} -> "medium"
      [] OTHER -> sev

NormalizeSeverity(e) == [e EXCEPT !.severity = SEVERITY_MAP(@)]

\* prepare_event() fills the tenant only when the key is missing.
PrepareEvent(e) ==
    IF e.tenant = "absent" THEN [e EXCEPT !.tenant = DefaultTenant] ELSE e

ValidateTenant(e) == e.tenant \in Tenants

\* ncs_v1.0.0.json: a string tenant_id, a string message, typed fields and,
\* when there is a severity, one of the enumeration.
SchemaErrors(e) ==
    \/ e.tenant \in {"absent", "null", "number"}
    \/ e.shape # "message"
    \/ ~e.typed
    \/ e.severity \notin SchemaSeverities \cup {NoSeverity}

\* TenantRegistry.is_valid()
IsValidTenant(t) == t \in Registry

\* The event as REQUIRE_TENANT sees it, and as the schema and OpenSearch do.
MappedEvent(b) == NormalizeSeverity(MapHost(Normalize(b)))
Event(b) == PrepareEvent(MappedEvent(b))

\* The branch of handle() the body takes.
Verdict(b) ==
    CASE b.shape \in {"garbage", "nondict"} -> "processing_exception"
      [] b.shape \notin {"garbage", "nondict"} ->
           IF \/ RequireTenant /\ ~ValidateTenant(MappedEvent(b))
              \/ ~RequireTenant /\ ~ValidateTenant(Event(b)) THEN "missing_tenant_id"
           ELSE IF ValidatorLoaded /\ SchemaErrors(Event(b)) THEN "validation_failed"
           ELSE IF ~IsValidTenant(Event(b).tenant) THEN "unknown_tenant_id"
           ELSE Accepted
=============================================================================
