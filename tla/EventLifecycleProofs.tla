------------------------ MODULE EventLifecycleProofs ------------------------
(***************************************************************************)
(* The properties of one event's data, for every set of tenants, registry, *)
(* host mapping and setting, and for any number of replays.                *)
(***************************************************************************)
EXTENDS EventLifecycle, TLAPS

-----------------------------------------------------------------------------
(* The pipeline's operators stay inside Body *)

LEMMA SeverityFacts ==
    /\ SchemaSeverities \subseteq Severities
    /\ "info" \in Severities /\ NoSeverity \in Severities
    /\ SeverityDefault \in Severities
    /\ SeverityDefault \notin {NoSeverity, "null"}
    /\ \A sev \in Severities : SEVERITY_MAP(sev) \in Severities
  BY CorrectionAssumption DEF Severities, SchemaSeverities, MappedSeverities, NoSeverity,
     SEVERITY_MAP

LEMMA TenantFacts ==
    /\ DefaultTenant \in Tenants /\ FallbackTenant \in Tenants
    /\ "absent" \in NotATenant
    /\ \A t \in Tenants : t \notin {"absent", "null", "empty", "blank", "number"}
  BY PipelineAssumption, CorrectionAssumption DEF NotATenant

LEMMA NormalizeType ==
    ASSUME NEW b \in Body
    PROVE  /\ Normalize(b) \in Body
           /\ Normalize(b).shape = b.shape /\ Normalize(b).host = b.host
           /\ b.tenant \in Tenants => Normalize(b).tenant = b.tenant
           /\ b.tenant \notin Tenants =>
                 Normalize(b).tenant \in {b.tenant, "absent", DefaultTenant}
           /\ b.shape = "message" =>
                 /\ Normalize(b).tenant \in Tenants \cup {"absent"}
                 /\ Normalize(b).severity = PickSeverity(b)
           /\ b.shape # "message" => Normalize(b) = b
  <1>1. PickSeverity(b) \in Severities
    BY SeverityFacts DEF PickSeverity, Body
  <1>2. QED
    BY <1>1, TenantFacts DEF Normalize, Body

LEMMA MapHostType ==
    ASSUME NEW e \in Body
    PROVE  /\ MapHost(e) \in Body
           /\ MapHost(e).shape = e.shape /\ MapHost(e).host = e.host
           /\ MapHost(e).severity = e.severity /\ MapHost(e).typed = e.typed
  BY PipelineAssumption DEF MapHost, Body

LEMMA EventType ==
    ASSUME NEW b \in Body
    PROVE  /\ MappedEvent(b) \in Body /\ Event(b) \in Body
           /\ MappedEvent(b).tenant = MapHost(Normalize(b)).tenant
           /\ MappedEvent(b).tenant = "absent" => Event(b).tenant = DefaultTenant
           /\ MappedEvent(b).tenant # "absent" => Event(b) = MappedEvent(b)
           /\ Event(b).shape = b.shape
           /\ Event(b).severity = SEVERITY_MAP(Normalize(b).severity)
           /\ Event(b).typed = Normalize(b).typed
  <1>1. Normalize(b) \in Body /\ Normalize(b).shape = b.shape
    BY NormalizeType
  <1>2. /\ MapHost(Normalize(b)) \in Body /\ MapHost(Normalize(b)).shape = b.shape
        /\ MapHost(Normalize(b)).severity = Normalize(b).severity
        /\ MapHost(Normalize(b)).typed = Normalize(b).typed
    BY <1>1, MapHostType
  <1>3. /\ MappedEvent(b) \in Body
        /\ MappedEvent(b).tenant = MapHost(Normalize(b)).tenant
        /\ MappedEvent(b).shape = b.shape
        /\ MappedEvent(b).severity = SEVERITY_MAP(Normalize(b).severity)
        /\ MappedEvent(b).typed = Normalize(b).typed
    BY <1>2, SeverityFacts DEF MappedEvent, NormalizeSeverity, Body
  <1>4. QED
    BY <1>3, TenantFacts DEF Event, PrepareEvent, Body

LEMMA ReprocessedType ==
    ASSUME NEW b \in Body
    PROVE  /\ Reprocessed(b) \in Body
           /\ Reprocessed(b).shape = b.shape /\ Reprocessed(b).host = b.host
           /\ Reprocessed(b).tenant = FixTenant(Normalize(b)).tenant
  <1>1. Normalize(b) \in Body /\ Normalize(b).shape = b.shape /\ Normalize(b).host = b.host
    BY NormalizeType
  <1>2. /\ FixTenant(Normalize(b)) \in Body
        /\ FixTenant(Normalize(b)).shape = b.shape /\ FixTenant(Normalize(b)).host = b.host
    BY <1>1, TenantFacts DEF FixTenant, Body
  <1>3. QED
    BY <1>2, SeverityFacts DEF Reprocessed, FixEvent, Body

-----------------------------------------------------------------------------
(* Types *)

LEMMA LifecycleTypeNext == TypeOK /\ [Next]_vars => TypeOK'
  <1> SUFFICES ASSUME TypeOK, [Next]_vars PROVE TypeOK'
    OBVIOUS
  <1> USE DEF TypeOK, Stages
  <1>1. CASE HandleIndex
    BY <1>1, EventType DEF HandleIndex
  <1>2. CASE HandleReject
    BY <1>2 DEF HandleReject
  <1>3. CASE ReprocessPublish
    BY <1>3, ReprocessedType, LifecycleAssumption DEF ReprocessPublish
  <1>4. CASE ReprocessInvalidJson
    BY <1>4 DEF ReprocessInvalidJson
  <1>5. CASE UNCHANGED vars
    BY <1>5 DEF vars
  <1>6. QED
    BY <1>1, <1>2, <1>3, <1>4, <1>5 DEF Next

LEMMA LifecycleTypeInit == Init => TypeOK
  BY LifecycleAssumption DEF Init, TypeOK, Stages

\* Whatever it goes through, an event keeps the form of a body.
THEOREM LifecycleTypes == Spec => []TypeOK
  BY LifecycleTypeInit, LifecycleTypeNext, PTL DEF Spec

-----------------------------------------------------------------------------
(* Tenants *)

\* What an accepted body says of its tenant.
LEMMA AcceptedTenant ==
    ASSUME NEW b \in Body, Verdict(b) = Accepted
    PROVE  Event(b).tenant \in Registry /\ MappedEvent(b).tenant \in Tenants \cup {"absent"}
  <1>1. b.shape \notin {"garbage", "nondict"}
    BY DEF Verdict, Accepted
  <1>2. IsValidTenant(Event(b).tenant)
    BY <1>1 DEF Verdict, Accepted
  <1>3. IF RequireTenant THEN ValidateTenant(MappedEvent(b)) ELSE ValidateTenant(Event(b))
    BY <1>1, PipelineAssumption DEF Verdict, Accepted
  <1>4. QED
    BY <1>2, <1>3, EventType DEF IsValidTenant, ValidateTenant

\* The strengthening: no replay replaces a tenant the producer named.
BodyKeepsTenant ==
    /\ origin.tenant \in Tenants \ {DefaultTenant} => body.tenant = origin.tenant
    /\ body.shape = origin.shape /\ body.host = origin.host

LEMMA TenantNext == TypeOK /\ BodyKeepsTenant /\ TenantIsolation /\ [Next]_vars
                    => (BodyKeepsTenant /\ TenantIsolation)'
  <1> SUFFICES ASSUME TypeOK, BodyKeepsTenant, TenantIsolation, [Next]_vars
               PROVE  (BodyKeepsTenant /\ TenantIsolation)'
    OBVIOUS
  <1>1. origin \in Body /\ body \in Body
    BY DEF TypeOK
  <1>2. CASE HandleIndex
    <2>1. /\ Verdict(body) = Accepted /\ doc' = Event(body) /\ UNCHANGED <<origin, body>>
      BY <1>2 DEF HandleIndex
    <2>2. doc'.tenant \in Registry
      BY <1>1, <2>1, AcceptedTenant
    <2>3. ASSUME origin.tenant \in Tenants \ {DefaultTenant} PROVE doc'.tenant = origin.tenant
      <3>1. body.tenant = origin.tenant
        BY <2>3 DEF BodyKeepsTenant
      <3>2. Normalize(body) \in Body /\ Normalize(body).tenant = origin.tenant
        BY <1>1, <2>3, <3>1, NormalizeType
      <3>3. MapHost(Normalize(body)) = Normalize(body)
        BY <2>3, <3>2, TenantFacts DEF MapHost
      <3>4. MappedEvent(body).tenant = origin.tenant
        BY <1>1, <3>2, <3>3, EventType
      <3>5. QED
        BY <1>1, <2>1, <2>3, <3>4, EventType, TenantFacts
    <2>4. QED
      BY <2>1, <2>2, <2>3 DEF BodyKeepsTenant, TenantIsolation
  <1>3. CASE ReprocessPublish
    <2>1. body' = Reprocessed(body) /\ stage' = "queued" /\ UNCHANGED origin
      BY <1>3 DEF ReprocessPublish
    <2>2. /\ Reprocessed(body).tenant = FixTenant(Normalize(body)).tenant
          /\ Reprocessed(body).shape = body.shape /\ Reprocessed(body).host = body.host
      BY <1>1, ReprocessedType
    <2>3. ASSUME origin.tenant \in Tenants \ {DefaultTenant} PROVE body'.tenant = origin.tenant
      <3>1. Normalize(body).tenant = origin.tenant
        BY <1>1, <2>3, NormalizeType DEF BodyKeepsTenant
      <3>2. FixTenant(Normalize(body)) = Normalize(body)
        BY <2>3, <3>1, TenantFacts DEF FixTenant
      <3>3. QED
        BY <2>1, <2>2, <3>1, <3>2
    <2>4. QED
      BY <2>1, <2>2, <2>3 DEF BodyKeepsTenant, TenantIsolation
  <1>4. CASE HandleReject \/ ReprocessInvalidJson
    BY <1>4 DEF HandleReject, ReprocessInvalidJson, BodyKeepsTenant, TenantIsolation
  <1>5. CASE UNCHANGED vars
    BY <1>5 DEF vars, BodyKeepsTenant, TenantIsolation
  <1>6. QED
    BY <1>2, <1>3, <1>4, <1>5 DEF Next

LEMMA TenantInit == Init => TypeOK /\ BodyKeepsTenant /\ TenantIsolation
  BY LifecycleTypeInit DEF Init, BodyKeepsTenant, TenantIsolation

\* Whatever tenants, registry, host mapping and settings there are, an event
\* is indexed under a registered tenant, and under the producer's own if it
\* named one other than the default, after any number of replays.
THEOREM TenantsStayIsolated == Spec => []TenantIsolation
  <1>1. (TypeOK /\ BodyKeepsTenant /\ TenantIsolation) /\ [Next]_vars
        => (TypeOK /\ BodyKeepsTenant /\ TenantIsolation)'
    BY LifecycleTypeNext, TenantNext
  <1>2. QED
    BY <1>1, TenantInit, PTL DEF Spec

\* With the settings' default and the tool's default the same tenant, a body
\* that started without a tenant of its own never gets one but the default.
BodyHasNoOwnTenant ==
    origin.tenant \notin Tenants \ {DefaultTenant} => body.tenant \in NotATenant \cup {DefaultTenant}

LEMMA HostNext ==
    ASSUME FallbackTenant = DefaultTenant, TypeOK, BodyKeepsTenant, BodyHasNoOwnTenant,
           HostDecidesTenant, [Next]_vars
    PROVE  (BodyHasNoOwnTenant /\ HostDecidesTenant)'
  <1>1. origin \in Body /\ body \in Body
    BY DEF TypeOK
  <1>2. CASE HandleIndex
    <2>1. /\ Verdict(body) = Accepted /\ doc' = Event(body) /\ stage' = "indexed"
          /\ UNCHANGED <<origin, body>>
      BY <1>2 DEF HandleIndex
    <2>2. SUFFICES ASSUME origin.tenant \notin Tenants \ {DefaultTenant}
                   PROVE  \/ doc'.tenant \in HostTenant(origin)
                          \/ HostTenant(origin) = {} /\ doc'.tenant \in {DefaultTenant, FallbackTenant}
      BY <2>1 DEF BodyHasNoOwnTenant, HostDecidesTenant
    <2> DEFINE n == Normalize(body)
    <2>3. n \in Body /\ n.host = origin.host /\ n.tenant \in NotATenant \cup {DefaultTenant}
      BY <1>1, <2>2, NormalizeType, TenantFacts DEF BodyHasNoOwnTenant, BodyKeepsTenant
    <2>4. MapHost(n).tenant \in Tenants \cup {"absent"}
      BY <1>1, <2>1, AcceptedTenant, EventType
    <2> HIDE DEF n
    <2>5. CASE n.host \in DOMAIN HostTenantMap
      <3>1. n.tenant \in {"absent", "null", "empty", DefaultTenant}
        BY <2>3, <2>4, <2>5, TenantFacts, PipelineAssumption DEF MapHost, NotATenant
      <3>2. MapHost(n).tenant = HostTenantMap[n.host] /\ HostTenantMap[n.host] \in Tenants
        BY <2>3, <2>5, <3>1, PipelineAssumption DEF MapHost, Body
      <3>3. Event(body).tenant = HostTenantMap[n.host]
        BY <1>1, <3>2, EventType, TenantFacts DEF n
      <3>4. QED
        BY <2>1, <2>3, <2>5, <3>3 DEF HostTenant
    <2>6. CASE n.host \notin DOMAIN HostTenantMap
      <3>1. MapHost(n) = n
        BY <2>6 DEF MapHost
      <3>2. n.tenant \in {"absent", DefaultTenant}
        BY <2>3, <2>4, <3>1, PipelineAssumption
      <3>3. Event(body).tenant = DefaultTenant
        BY <1>1, <3>1, <3>2, EventType DEF n
      <3>4. QED
        BY <2>1, <2>3, <2>6, <3>3 DEF HostTenant
    <2>7. QED
      BY <2>5, <2>6
  <1>3. CASE ReprocessPublish
    <2>1. body' = Reprocessed(body) /\ stage' = "queued" /\ UNCHANGED origin
      BY <1>3 DEF ReprocessPublish
    <2>2. ASSUME origin.tenant \notin Tenants \ {DefaultTenant}
          PROVE  body'.tenant \in NotATenant \cup {DefaultTenant}
      <3>1. Normalize(body) \in Body /\ Normalize(body).tenant \in NotATenant \cup {DefaultTenant}
        BY <1>1, <2>2, NormalizeType, TenantFacts DEF BodyHasNoOwnTenant
      <3>2. FixTenant(Normalize(body)).tenant \in NotATenant \cup {DefaultTenant}
        BY <3>1 DEF FixTenant, Body
      <3>3. QED
        BY <1>1, <2>1, <3>2, ReprocessedType
    <2>3. QED
      BY <2>1, <2>2 DEF BodyHasNoOwnTenant, HostDecidesTenant
  <1>4. CASE HandleReject \/ ReprocessInvalidJson
    BY <1>4 DEF HandleReject, ReprocessInvalidJson, BodyHasNoOwnTenant, HostDecidesTenant
  <1>5. CASE UNCHANGED vars
    BY <1>5 DEF vars, BodyHasNoOwnTenant, HostDecidesTenant
  <1>6. QED
    BY <1>2, <1>3, <1>4, <1>5 DEF Next

\* As long as TENANT_ID is the tenant reprocess_dlq.py writes, a mapped host
\* decides the tenant of every event whose producer named none or the
\* default, at once or after any number of replays.
THEOREM HostsDecide == FallbackTenant = DefaultTenant => (Spec => []HostDecidesTenant)
  <1> SUFFICES ASSUME FallbackTenant = DefaultTenant PROVE Spec => []HostDecidesTenant
    OBVIOUS
  <1> DEFINE I == /\ TypeOK /\ BodyKeepsTenant /\ TenantIsolation
                  /\ BodyHasNoOwnTenant /\ HostDecidesTenant
  <1>1. Init => I
    <2>1. Init => BodyHasNoOwnTenant /\ HostDecidesTenant
      BY DEF Init, BodyHasNoOwnTenant, HostDecidesTenant, Body
    <2>2. QED
      BY <2>1, TenantInit
  <1>2. I /\ [Next]_vars => I'
    BY LifecycleTypeNext, TenantNext, HostNext
  <1>3. QED
    BY <1>1, <1>2, PTL DEF Spec

-----------------------------------------------------------------------------
(* Severities *)

KnownLevel(b) ==
    /\ b.shape = "message"
    /\ b.typed
    /\ MapHost(Normalize(b)).tenant \in Registry
    /\ PickSeverity(b) \in SchemaSeverities \cup MappedSeverities

\* The lemma KnownLevelsAccepted rests on: the schema's enumeration holds
\* every level the mapping leaves or produces.
LEMMA KnownLevelIsAccepted ==
    ASSUME NEW b \in Body, KnownLevel(b)
    PROVE  Verdict(b) = Accepted
  <1>1. b.shape = "message" /\ b.typed /\ MapHost(Normalize(b)).tenant \in Registry
    BY DEF KnownLevel
  <1>2. /\ Normalize(b).severity = PickSeverity(b)
        /\ Normalize(b).typed = b.typed
    BY <1>1 DEF Normalize, Body
  <1>3. SEVERITY_MAP(PickSeverity(b)) \in SchemaSeverities
    BY DEF KnownLevel, SEVERITY_MAP, SchemaSeverities, MappedSeverities
  <1>4. MappedEvent(b).tenant \in Registry /\ MappedEvent(b).tenant \in Tenants
    BY <1>1, EventType, PipelineAssumption
  <1>5. Event(b) = MappedEvent(b)
    BY <1>4, EventType, TenantFacts
  <1>6. /\ Event(b).shape = "message" /\ Event(b).typed
        /\ Event(b).severity \in SchemaSeverities
    BY <1>1, <1>2, <1>3, EventType
  <1>7. ~SchemaErrors(Event(b))
    BY <1>4, <1>5, <1>6, TenantFacts DEF SchemaErrors
  <1>8. ValidateTenant(MappedEvent(b)) /\ ValidateTenant(Event(b)) /\ IsValidTenant(Event(b).tenant)
    BY <1>4, <1>5 DEF ValidateTenant, IsValidTenant
  <1>9. QED
    BY <1>1, <1>7, <1>8 DEF Verdict

\* Such an event is indexed the first time, so its body is never corrected.
LevelInv == KnownLevel(origin) => body = origin /\ stage \in {"queued", "indexed"}

\* A well-formed event of a registered tenant with a level the mapping or
\* the schema knows is never rejected: SEVERITY_MAP and the schema agree.
THEOREM KnownLevelsAlwaysAccepted == Spec => []KnownLevelsAccepted
  <1>1. Init => TypeOK /\ LevelInv
    <2>1. Init => LevelInv
      BY DEF Init, LevelInv
    <2>2. QED
      BY <2>1, LifecycleTypeInit
  <1>2. (TypeOK /\ LevelInv) /\ [Next]_vars => (TypeOK /\ LevelInv)'
    <2> SUFFICES ASSUME TypeOK, LevelInv, [Next]_vars PROVE LevelInv'
      BY LifecycleTypeNext
    <2>1. UNCHANGED origin
      BY DEF Next, vars, HandleIndex, HandleReject, ReprocessPublish, ReprocessInvalidJson
    <2>2. CASE KnownLevel(origin)
      <3>1. body = origin /\ stage \in {"queued", "indexed"} /\ Verdict(body) = Accepted
        BY <2>2, KnownLevelIsAccepted DEF LevelInv, TypeOK
      <3>2. UNCHANGED body /\ stage' \in {"queued", "indexed"}
        BY <3>1 DEF Next, vars, HandleIndex, HandleReject, ReprocessPublish, ReprocessInvalidJson
      <3>3. QED
        BY <2>1, <3>1, <3>2 DEF LevelInv
    <2>3. CASE ~KnownLevel(origin)
      BY <2>1, <2>3 DEF LevelInv, KnownLevel, MapHost, Normalize, PickSeverity
    <2>4. QED
      BY <2>2, <2>3
  <1>3. LevelInv => KnownLevelsAccepted
    BY DEF LevelInv, KnownLevel, KnownLevelsAccepted
  <1>4. QED
    BY <1>1, <1>2, <1>3, PTL DEF Spec

-----------------------------------------------------------------------------
(* Replays *)

\* What the correction leaves: a body the consumer's normalize() has nothing
\* to add to.
LEMMA ReprocessedFacts ==
    ASSUME NEW b \in Body
    PROVE  /\ Normalize(Reprocessed(b)) = Reprocessed(b)
           /\ Reprocessed(b).tenant \notin {"absent", "null", "empty"}
           /\ Reprocessed(b).severity \notin {NoSeverity, "null"}
  <1> DEFINE r == Reprocessed(b)
  <1>1. r \in Body /\ r.shape = b.shape
    BY ReprocessedType
  <1>2. r.severity \notin {NoSeverity, "null"}
    BY NormalizeType, TenantFacts, SeverityFacts DEF Reprocessed, FixEvent, FixTenant, Body
  <1>3. /\ r.tenant \notin {"absent", "null", "empty"}
        /\ r.shape = "message" => r.tenant \in Tenants
    <2>1. r.tenant = FixTenant(Normalize(b)).tenant
      BY ReprocessedType
    <2>2. Normalize(b) \in Body /\ (b.shape = "message" => Normalize(b).tenant \in Tenants \cup {"absent"})
      BY NormalizeType
    <2>3. /\ FixTenant(Normalize(b)).tenant \notin {"absent", "null", "empty"}
          /\ b.shape = "message" => FixTenant(Normalize(b)).tenant \in Tenants
      BY <2>2, TenantFacts DEF FixTenant, Body
    <2>4. QED
      BY <1>1, <2>1, <2>3
  <1> HIDE DEF r
  <1>4. Normalize(r) = r
    <2>1. PickSeverity(r) = r.severity
      BY <1>2 DEF PickSeverity
    <2>2. QED
      BY <1>1, <1>3, <2>1 DEF Normalize, Body
  <1>5. QED
    BY <1>2, <1>3, <1>4 DEF r

\* reprocess_dlq.py corrects what it corrected before into itself, for every
\* body, host mapping and tenant: a dead letter that comes back is either as
\* its producer sent it or as the first replay left it, and there is no third
\* form however often it is replayed.
THEOREM CorrectionIsIdempotent ==
    ASSUME NEW b \in Body
    PROVE  Reprocessed(Reprocessed(b)) = Reprocessed(b)
  <1>1. FixTenant(Reprocessed(b)) = Reprocessed(b)
    BY ReprocessedFacts DEF FixTenant
  <1>2. FixEvent(Reprocessed(b)) = Reprocessed(b)
    BY ReprocessedFacts DEF FixEvent
  <1>3. Reprocessed(Reprocessed(b)) = FixEvent(FixTenant(Normalize(Reprocessed(b))))
    BY DEF Reprocessed
  <1>4. QED
    BY <1>1, <1>2, <1>3, ReprocessedFacts

\* A body without the defects of Unfixable is accepted once corrected.
LEMMA RepairedIsKnown ==
    ASSUME FallbackTenant = DefaultTenant, NEW b \in Body, ~Unfixable(b)
    PROVE  KnownLevel(Reprocessed(b))
  <1> DEFINE r == Reprocessed(b)
  <1> DEFINE n == Normalize(b)
  <1>1. /\ b.shape = "message" /\ b.typed
        /\ PickSeverity(b) \in SchemaSeverities \cup MappedSeverities \cup {"null"}
        /\ Event(b).tenant \in Registry
    BY DEF Unfixable
  <1>2. /\ n \in Body /\ n.tenant \in Tenants \cup {"absent"} /\ n.host = b.host
        /\ n.severity = PickSeverity(b) /\ n.shape = "message"
    BY <1>1, NormalizeType
  <1>3. n.typed
    BY <1>1 DEF Normalize, Body
  <1>4. /\ r \in Body /\ r.shape = "message" /\ r.host = n.host
        /\ r.tenant = FixTenant(n).tenant /\ Normalize(r) = r
    BY <1>1, <1>2, ReprocessedType, ReprocessedFacts
  <1>5. r.typed /\ r.severity \in SchemaSeverities \cup MappedSeverities
    <2> HIDE DEF n
    <2>1. r = FixEvent(FixTenant(n))
      BY DEF Reprocessed, n
    <2>2. /\ FixTenant(n) \in Body /\ FixTenant(n).typed
          /\ FixTenant(n).severity = n.severity
      BY <1>2, <1>3, TenantFacts DEF FixTenant, Body
    <2>3. QED
      BY <1>1, <1>2, <2>1, <2>2, CorrectionAssumption
      DEF FixEvent, SchemaSeverities, MappedSeverities, NoSeverity, Body
  <1>6. PickSeverity(r) \in SchemaSeverities \cup MappedSeverities
    BY <1>5 DEF PickSeverity, SchemaSeverities, MappedSeverities, NoSeverity
  <1>7. MapHost(r).tenant \in Registry
    <2>1. /\ Event(b).tenant = IF MapHost(n).tenant = "absent" THEN DefaultTenant
                                ELSE MapHost(n).tenant
      BY EventType
    <2> HIDE DEF n, r
    <2>2. r.tenant = IF n.tenant = "absent" THEN DefaultTenant ELSE n.tenant
      BY <1>2, <1>4, TenantFacts DEF FixTenant, Body
    <2>3. CASE n.host \in DOMAIN HostTenantMap /\ n.tenant \in {"absent", DefaultTenant}
      <3>1. /\ MapHost(n).tenant = HostTenantMap[n.host]
            /\ MapHost(r).tenant = HostTenantMap[n.host]
        BY <1>2, <1>4, <2>2, <2>3, PipelineAssumption DEF MapHost, Body
      <3>2. HostTenantMap[n.host] # "absent"
        BY <2>3, PipelineAssumption, TenantFacts
      <3>3. QED
        BY <1>1, <2>1, <3>1, <3>2
    <2>4. CASE ~(n.host \in DOMAIN HostTenantMap /\ n.tenant \in {"absent", DefaultTenant})
      <3>1. MapHost(n) = n /\ MapHost(r) = r
        BY <1>2, <1>4, <2>2, <2>4, TenantFacts DEF MapHost
      <3>2. QED
        BY <1>1, <2>1, <2>2, <3>1
    <2>5. QED
      BY <2>3, <2>4
  <1>8. QED
    BY <1>4, <1>5, <1>6, <1>7 DEF KnownLevel

ReplayedInv == rounds > 0 => Reprocessed(body) = body

\* A second replay republishes what the first did, for every body.
THEOREM ReplaysAreIdempotent == Spec => ReplayIdempotent
  <1>1. Init => TypeOK /\ ReplayedInv
    <2>1. Init => ReplayedInv
      BY DEF Init, ReplayedInv
    <2>2. QED
      BY <2>1, LifecycleTypeInit
  <1>2. (TypeOK /\ ReplayedInv) /\ [Next]_vars => (TypeOK /\ ReplayedInv)'
    <2> SUFFICES ASSUME TypeOK, ReplayedInv, [Next]_vars PROVE ReplayedInv'
      BY LifecycleTypeNext
    <2>1. CASE ReprocessPublish
      <3>1. PICK b \in Body : b = body /\ body' = Reprocessed(b)
        BY <2>1 DEF TypeOK, ReprocessPublish
      <3>2. Reprocessed(body') = body'
        BY <3>1, CorrectionIsIdempotent
      <3>3. QED
        BY <3>2 DEF ReplayedInv, Reprocessed, FixEvent, FixTenant, Normalize, PickSeverity
    <2>2. CASE UNCHANGED <<body, rounds>>
      BY <2>2 DEF ReplayedInv, Reprocessed, FixEvent, FixTenant, Normalize, PickSeverity
    <2>3. QED
      BY <2>1, <2>2 DEF Next, vars, HandleIndex, HandleReject, ReprocessInvalidJson
  <1>3. TypeOK /\ ReplayedInv /\ [Next]_vars => [rounds > 0 => body' = body]_vars
    BY DEF ReplayedInv, Next, vars, HandleIndex, HandleReject, ReprocessPublish,
       ReprocessInvalidJson
  <1>4. QED
    BY <1>1, <1>2, <1>3, PTL DEF Spec, ReplayIdempotent

\* A repairable event is corrected once at most, and then accepted.
RepairInv ==
    \A b \in Body : b = origin /\ ~Unfixable(b) =>
        \/ rounds = 0 /\ body = b
        \/ body = Reprocessed(b) /\ stage \in {"queued", "indexed"}

\* Where the settings' default is the tenant the tool writes, one replay repairs
\* every event but those with a defect no replay touches, for every registry,
\* host mapping and severity.
THEOREM ReplaysRepair == FallbackTenant = DefaultTenant => (Spec => []ReplayRepairs)
  <1> SUFFICES ASSUME FallbackTenant = DefaultTenant PROVE Spec => []ReplayRepairs
    OBVIOUS
  <1>1. Init => TypeOK /\ RepairInv
    <2>1. Init => RepairInv
      BY DEF Init, RepairInv
    <2>2. QED
      BY <2>1, LifecycleTypeInit
  <1>2. (TypeOK /\ RepairInv) /\ [Next]_vars => (TypeOK /\ RepairInv)'
    <2> SUFFICES ASSUME TypeOK, RepairInv, [Next]_vars,
                        NEW b \in Body, b = origin', ~Unfixable(b)
                 PROVE  \/ rounds' = 0 /\ body' = b
                        \/ body' = Reprocessed(b) /\ stage' \in {"queued", "indexed"}
      BY LifecycleTypeNext DEF RepairInv
    <2>1. b = origin
      BY DEF Next, vars, HandleIndex, HandleReject, ReprocessPublish, ReprocessInvalidJson
    <2>2. \/ rounds = 0 /\ body = b
          \/ body = Reprocessed(b) /\ stage \in {"queued", "indexed"}
      BY <2>1 DEF RepairInv
    <2>3. Verdict(Reprocessed(b)) = Accepted
      BY RepairedIsKnown, ReprocessedType, KnownLevelIsAccepted
    <2>4. CASE HandleIndex \/ UNCHANGED vars
      BY <2>2, <2>4 DEF HandleIndex, vars
    <2>5. CASE HandleReject
      BY <2>2, <2>3, <2>5 DEF HandleReject
    <2>6. CASE ReprocessPublish
      BY <2>2, <2>6 DEF ReprocessPublish
    <2>7. CASE ReprocessInvalidJson
      BY <2>2, <2>7 DEF ReprocessInvalidJson
    <2>8. QED
      BY <2>4, <2>5, <2>6, <2>7 DEF Next
  <1>3. TypeOK /\ RepairInv => ReplayRepairs
    BY DEF TypeOK, RepairInv, ReplayRepairs
  <1>4. QED
    BY <1>1, <1>2, <1>3, PTL DEF Spec
=============================================================================
