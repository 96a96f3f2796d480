-------------------------- MODULE TenantOnboarding --------------------------
(***************************************************************************)
(* The tenant registry and the names in OpenSearch that go with it:        *)
(* config/tenants.json, read and rewritten by scripts/onboard_tenant.py,   *)
(* read by scripts/apply_policies.py, and read once, at start-up, by the   *)
(* consumer (TenantRegistry.load), which indexes the events of the tenants *)
(* it knows into logs-<tenant>.  Nothing locks the file, and the name      *)
(* logs-<tenant> is an alias only if one of the scripts was there before   *)
(* the first event: OpenSearch creates an index for a name it lacks.       *)
(***************************************************************************)
EXTENDS Integers, Sequences, FiniteSets

CONSTANTS Tenants,
          Runs,         \* concurrent runs of onboard_tenant.py (CI/CD jobs)
          Formats,      \* the formats the file may have at first
          Default,      \* the tenant it lists then
          MaxFaults     \* bound: killed scripts and failed requests

FileFormats == {"missing", "unreadable", "strings", "objects", "wrapped"}

ASSUME OnboardingAssumption ==
    /\ Formats \subseteq {"missing", "strings", "objects", "wrapped"}
    /\ Default \in Tenants
    /\ MaxFaults \in Nat

\* An entry of the file; policy: it has a policy_id key.
Entry == [id : Tenants, policy : BOOLEAN]

VARIABLES
    file,       \* config/tenants.json
    run,        \* of each run of onboard_tenant.py: where it is, and its data
    pol,        \* the run of apply_policies.py: where it is, entries to go
    first,      \* of each tenant: the index logs-<tenant>-000001
    concrete,   \* the tenants whose name logs-<tenant> is an index
    up,         \* the consumer runs
    known,      \* its TenantRegistry._tenants
    \* history, which no action reads
    onboarded,  \* tenants listed at first or that a run has finished for
    pending,    \* listed tenants apply_policies.py was never run for
    slips,      \* what the operators did or met that the scripts do not check
    faults

fileVars == <<file, run>>
searchVars == <<first, concrete>>
consumerVars == <<up, known>>
history == <<onboarded, pending, slips, faults>>
vars == <<file, run, pol, first, concrete, up, known, onboarded, pending, slips, faults>>

\* absent; bare: without an alias; member: with the alias logs-<tenant>;
\* write: as its write index
FirstIndex == {"absent", "bare", "member", "write"}
Aliased(t) == first[t] \in {"member", "write"}

RunAt(pc, t, data) == [pc |-> pc, tenant |-> t, data |-> data]
PolAt(pc, rest) == [pc |-> pc, rest |-> rest]
Idle == RunAt("off", Default, <<>>)
PolIdle == PolAt("off", <<>>)

IdsOf(entries) == {entries[i].id : i \in DOMAIN entries}

\* Nobody is listed twice.
Unique(entries) == \A i, j \in DOMAIN entries : entries[i].id = entries[j].id => i = j

TypeOK ==
    /\ file \in [format : FileFormats, entries : Seq(Entry)]
    /\ Unique(file.entries)
    /\ run \in [Runs -> [pc : {"off", "save", "write", "create"}, tenant : Tenants,
                         data : Seq(Entry)]]
    /\ pol \in [pc : {"off", "check", "create", "alias"}, rest : Seq(Entry)]
    /\ pol.pc # "off" => pol.rest # <<>>
    /\ first \in [Tenants -> FirstIndex]
    /\ concrete \in SUBSET Tenants
    /\ up \in BOOLEAN
    /\ known \in SUBSET Tenants
    /\ onboarded \in SUBSET Tenants
    /\ pending \in SUBSET Tenants
    /\ slips \in SUBSET {"overlap", "early", "fault"}
    /\ faults \in 0 .. MaxFaults

\* The default tenant is listed, written by hand with a policy_id if the file
\* has objects, and was provisioned before or still has to be.
Init ==
    /\ \E f \in Formats :
          file = [format |-> f,
                  entries |-> IF f = "missing" THEN <<>>
                              ELSE <<[id |-> Default, policy |-> f = "objects"]>>]
    /\ run = [r \in Runs |-> Idle]
    /\ pol = PolIdle
    /\ \E s \in IF file.format = "objects" THEN {"absent", "write"} ELSE {"write"} :
          first = [t \in Tenants |-> IF t = Default THEN s ELSE "absent"]
    /\ concrete = {}
    /\ up = FALSE
    /\ known = {}
    /\ onboarded = IdsOf(file.entries)
    /\ pending = IF first[Default] = "absent" THEN {Default} ELSE {}
    /\ slips = {}
    /\ faults = 0

Active == {r \in Runs : run[r].pc # "off"}
Note(s, met) == slips' = IF met THEN slips \cup {s} ELSE slips

-----------------------------------------------------------------------------
(* scripts/onboard_tenant.py *)

LoadTenantsDropsStrings ==  \* mutant
    IF file.format = "objects" THEN file.entries ELSE <<>>

\* load_tenants() and ensure_format(): no file and no JSON are an empty
\* list, strings become objects.  A JSON object makes data[0] raise, before
\* the run has had any effect.
LoadTenants == IF file.format \in {"strings", "objects"} THEN file.entries ELSE <<>>

LoadAddsAgain(r, t) ==  \* mutant
    /\ run[r].pc = "off" /\ file.format # "wrapped"
    /\ run' = [run EXCEPT ![r] = RunAt("save", t, LoadTenants)]
    /\ Note("overlap", Active # {})
    /\ UNCHANGED <<file, pol, searchVars, consumerVars, onboarded, pending, faults>>

Load(r, t) ==
    /\ run[r].pc = "off"
    /\ file.format # "wrapped"
    /\ run' = [run EXCEPT ![r] =
                  IF t \in IdsOf(LoadTenants) THEN RunAt("create", t, <<>>)
                  ELSE RunAt("save", t, LoadTenants)]
    /\ Note("overlap", Active # {})
    /\ UNCHANGED <<file, pol, searchVars, consumerVars, onboarded, pending, faults>>

\* save_tenants(): write_text() empties the file ...
Truncate(r) ==
    /\ run[r].pc = "save"
    /\ file' = [format |-> "unreadable", entries |-> <<>>]
    /\ run' = [run EXCEPT ![r] = RunAt("write", run[r].tenant, run[r].data)]
    /\ UNCHANGED <<pol, searchVars, consumerVars, history>>

\* ... and writes it from its start.  Over what another run wrote meanwhile,
\* a longer text leaves its end behind, which is no JSON.
Write(r) ==
    /\ run[r].pc = "write"
    /\ \/ file' = [format  |-> "objects",
                   entries |-> Append(run[r].data, [id |-> run[r].tenant, policy |-> FALSE])]
       \/ file.format # "unreadable" /\ file' = [format |-> "unreadable", entries |-> <<>>]
    /\ run' = [run EXCEPT ![r] = RunAt("create", run[r].tenant, <<>>)]
    /\ UNCHANGED <<pol, searchVars, consumerVars, history>>

\* PUT of an index that must not exist, with an alias that must not be the
\* name of an index; onboard_tenant.py prints what OpenSearch refuses.
PutIndex(t) ==
    IF first[t] = "absent" /\ t \notin concrete THEN [first EXCEPT ![t] = "member"] ELSE first

CreateWithoutAlias(r) ==  \* mutant
    /\ run[r].pc = "create"
    /\ first' = [first EXCEPT ![run[r].tenant] = IF @ = "absent" THEN "bare" ELSE @]
    /\ run' = [run EXCEPT ![r] = Idle]
    /\ onboarded' = onboarded \cup {run[r].tenant}
    /\ UNCHANGED <<file, pol, concrete, consumerVars, pending, slips, faults>>

\* create_index(), and the run ends.
Create(r) ==
    /\ run[r].pc = "create"
    /\ first' = PutIndex(run[r].tenant)
    /\ run' = [run EXCEPT ![r] = Idle]
    /\ onboarded' = onboarded \cup {run[r].tenant}
    /\ UNCHANGED <<file, pol, concrete, consumerVars, pending, slips, faults>>

Fault ==
    /\ faults < MaxFaults
    /\ faults' = faults + 1
    /\ Note("fault", TRUE)

\* The request fails, or its answer is lost; the run still ends well.
CreateFails(r) ==
    /\ run[r].pc = "create"
    /\ first' \in {first, PutIndex(run[r].tenant)}
    /\ run' = [run EXCEPT ![r] = Idle]
    /\ onboarded' = onboarded \cup {run[r].tenant}
    /\ Fault
    /\ UNCHANGED <<file, pol, concrete, consumerVars, pending>>

RunKilled(r) ==
    /\ run[r].pc # "off"
    /\ run' = [run EXCEPT ![r] = Idle]
    /\ Fault
    /\ UNCHANGED <<file, pol, searchVars, consumerVars, onboarded, pending>>

Onboarding(r) ==
    \/ \E t \in Tenants : Load(r, t)
    \/ Truncate(r) \/ Write(r) \/ Create(r) \/ CreateFails(r) \/ RunKilled(r)

-----------------------------------------------------------------------------
(* scripts/apply_policies.py *)

PolNext == IF Len(pol.rest) = 1 THEN PolIdle ELSE PolAt("check", Tail(pol.rest))

\* main() on a list of objects; no file, no JSON and entries that are strings
\* end it without an effect.
PolStart ==
    /\ pol.pc = "off"
    /\ file.format = "objects"
    /\ pol' = PolAt("check", file.entries)
    /\ UNCHANGED <<fileVars, searchVars, consumerVars, history>>

\* ensure_index_and_alias(): an entry without a policy_id, as
\* onboard_tenant.py writes them, ends the run; GET of the first index.
PolCheck ==
    /\ pol.pc = "check"
    /\ pol' = IF ~Head(pol.rest).policy THEN PolIdle
              ELSE PolAt(IF first[Head(pol.rest).id] = "absent" THEN "create" ELSE "alias",
                         pol.rest)
    /\ UNCHANGED <<fileVars, searchVars, consumerVars, history>>

PolCreateOnly ==  \* mutant
    /\ pol.pc = "create"
    /\ pol' = PolNext
    /\ first' = [first EXCEPT ![Head(pol.rest).id] = IF @ = "absent" THEN "bare" ELSE @]
    /\ UNCHANGED <<fileVars, concrete, consumerVars, history>>

\* PUT of the index; a failure ends the work on this tenant.
PolCreate ==
    /\ pol.pc = "create"
    /\ IF first[Head(pol.rest).id] = "absent"
       THEN /\ first' = [first EXCEPT ![Head(pol.rest).id] = "bare"]
            /\ pol' = PolAt("alias", pol.rest)
       ELSE /\ pol' = PolNext
            /\ UNCHANGED first
    /\ UNCHANGED <<fileVars, concrete, consumerVars, history>>

\* POST _aliases, refused when the name is an index; then the policy is
\* attached, whatever the answer was.
PolAlias ==
    /\ pol.pc = "alias"
    /\ LET t == Head(pol.rest).id IN
         /\ first' = IF t \in concrete THEN first ELSE [first EXCEPT ![t] = "write"]
         /\ pending' = pending \ {t}
    /\ pol' = PolNext
    /\ UNCHANGED <<fileVars, concrete, consumerVars, onboarded, slips, faults>>

\* A request that gets no answer raises, and nothing catches it.
PolKilled ==
    /\ pol.pc # "off"
    /\ pol' = PolIdle
    /\ Fault
    /\ UNCHANGED <<fileVars, searchVars, consumerVars, onboarded, pending>>

\* OpenSearch answers with an error, which is logged.
PolRefused ==
    /\ pol.pc \in {"create", "alias"}
    /\ pol' = PolNext
    /\ Fault
    /\ UNCHANGED <<fileVars, searchVars, consumerVars, onboarded, pending>>

Policies == PolStart \/ PolCheck \/ PolCreate \/ PolAlias \/ PolKilled \/ PolRefused

-----------------------------------------------------------------------------
(* The consumer *)

RegistryIgnoresObjects ==  \* mutant
    IF file.format = "strings" THEN IdsOf(file.entries) ELSE {}

\* TenantRegistry.load() keeps the ids of a list, of strings or of objects.
Registry == IF file.format \in {"strings", "objects"} THEN IdsOf(file.entries) ELSE {}

\* The operator starts the consumer, or starts it again.
StartConsumer ==
    /\ up' = TRUE
    /\ known' = Registry
    /\ Note("early", Active # {} \/ pending # {})
    /\ UNCHANGED <<fileVars, pol, searchVars, onboarded, pending, faults>>

\* An event of a tenant it knows arrives and is indexed into logs-<tenant>,
\* which creates an index of that name if there is no alias.  An event of any
\* other tenant goes to the DLQ as unknown_tenant_id and changes nothing here.
Index(t) ==
    /\ up
    /\ t \in known
    /\ concrete' = IF Aliased(t) THEN concrete ELSE concrete \cup {t}
    /\ UNCHANGED <<fileVars, pol, first, consumerVars, history>>

Next ==
    \/ \E r \in Runs : Onboarding(r)
    \/ Policies
    \/ StartConsumer
    \/ \E t \in Tenants : Index(t)

Spec == Init /\ [][Next]_vars

\* The operator starts the consumer again now and then.  No script has to
\* finish.
FairSpec == Spec /\ WF_vars(StartConsumer)

-----------------------------------------------------------------------------
(* Properties *)

\* A tenant that was listed, or whose onboarding finished, stays in the
\* registry, whatever is onboarded after it, as long as runs of
\* onboard_tenant.py do not overlap and none is killed: neither the
\* conversion of the file nor the append drops what another run has added.
OnboardedStays ==
    /\ slips \cap {"overlap", "fault"} = {}
    /\ \A r \in Runs : run[r].pc # "write"
    => onboarded \subseteq IdsOf(file.entries)

\* The name logs-<tenant> is never taken by an index if the consumer is only
\* started between runs of the scripts: whoever is in the registry then has
\* an alias, though onboard_tenant.py saves the registry first and
\* apply_policies.py makes index and alias in two requests.
AliasNotTaken == slips \cap {"early", "fault"} = {} => concrete = {}

\* apply_policies.py leaves no index without an alias behind, in whatever
\* order onboarding and events come between its requests, unless the name
\* was taken before.
NoBareIndexLeft ==
    pol.pc = "off" /\ "fault" \notin slips
        => \A t \in Tenants : first[t] = "bare" => t \in concrete

\* The consumer's copy of the registry is stale until it is started again,
\* and then no longer: a tenant that stays in the registry is known to the
\* consumer in the end, in whichever of the formats the scripts left it.
RegisteredIsKnown ==
    \A t \in Tenants : <>[](t \in IdsOf(file.entries)) => <>[](t \in known)

\* scripts/apply_policies.py, line 31: config/tenants.json may be an object
\* {"tenants": [...]}, as the shipped one is, so the consumer that reads the
\* same file knows every tenant it lists.
ShippedTenantsKnown == up /\ file.format = "wrapped" => IdsOf(file.entries) \subseteq known
-----------------------------------------------------------------------------
(* The inductive invariants behind these properties *)

\* A run adds a tenant its copy of the file does not have; a file that is no
\* JSON lists nobody, one a run has written somebody.
FileInv ==
    /\ file.format \in {"missing", "unreadable"} => file.entries = <<>>
    /\ file.format = "objects" => file.entries # <<>>
    /\ \A r \in Runs :
          /\ Unique(run[r].data)
          /\ run[r].pc \in {"save", "write"} => run[r].tenant \notin IdsOf(run[r].data)
    /\ Unique(pol.rest)

\* The one run there is carries everybody the file has listed, or has left
\* behind a file that does.
StaysInv ==
    slips \cap {"overlap", "fault"} = {} =>
        /\ \A r, q \in Active : r = q
        /\ \A r \in Runs :
              /\ run[r].pc \in {"save", "write"} => onboarded \subseteq IdsOf(run[r].data)
              /\ run[r].pc = "write" => file.format = "unreadable"
              /\ run[r].pc = "create" => run[r].tenant \in IdsOf(file.entries)
        /\ (\A r \in Runs : run[r].pc # "write") => onboarded \subseteq IdsOf(file.entries)

\* Who is listed has an alias, or gets one from apply_policies.py or from the
\* run at work for them; who is listed with a policy gets it from the former,
\* which alone makes indices without an alias.
AliasDue(t) == Aliased(t) \/ t \in pending \/ \E r \in Runs : run[r].pc = "create" /\ run[r].tenant = t
EntryDue(e) == AliasDue(e.id) /\ (e.policy => Aliased(e.id) \/ e.id \in pending)
EntriesDue(entries) == \A i \in DOMAIN entries : EntryDue(entries[i])

AliasInv ==
    slips \cap {"early", "fault"} = {} =>
        /\ concrete = {}
        /\ \A t \in known : Aliased(t)
        /\ \A t \in Tenants : first[t] = "bare" => t \in pending
        /\ EntriesDue(file.entries)
        /\ \A r \in Runs : EntriesDue(run[r].data)
        /\ \A i \in DOMAIN pol.rest :
              pol.rest[i].policy => Aliased(pol.rest[i].id) \/ pol.rest[i].id \in pending
        /\ pol.pc \in {"create", "alias"} => Head(pol.rest).policy

\* An index without an alias is the one apply_policies.py is working on, or
\* its name was taken.
BareInv ==
    "fault" \notin slips =>
        \A t \in Tenants : first[t] = "bare" =>
            t \in concrete \/ (pol.pc = "alias" /\ Head(pol.rest).id = t)
=============================================================================
