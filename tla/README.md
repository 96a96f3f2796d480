# A verification development for nubla-siem

nubla-siem collects syslog and JSON events from many tenants, carries them over
RabbitMQ to a consumer, and stores each in the OpenSearch index of its tenant.
What cannot be indexed is dead-lettered and can be replayed. This directory holds
TLA+ models of that path, TLC configurations that check them on small instances,
and theorems about them that TLAPS checks for every value of the constants.

Paths below are relative to the repository; `consumer.py`, `normalizer.py`,
`tenant_registry.py` and `bulk_indexer.py` are under `backend/app/processing/`,
`reprocess_dlq.py` and `peek_queue.py` under `backend/app/tools/`, `elastic.py` under
`backend/app/repository/`, `setup.sh`, `housekeeping.sh` and
`bootstrap_alias_logs_default.sh` under `docs/operational/opensearch/`.

## 1. The system

```
 fluentd / producers --> exchange --> main queue --> consumer --> OpenSearch alias logs-<tenant>
                                          ^             |               ^
                                          |             v (nack / DLX)  | rollover, policies
                                     reprocess_dlq <-- DLQ           scripts/*.py
                                          |
                                          v
                                      quarantine queue
```

| Part | State it keeps | Operations | What makes it correct |
|---|---|---|---|
| Event pipeline (`normalizer.py`, `utils.py`, `tenant_mapping.py`, the first half of `handle()`, `schema/ncs_v1.0.0.json`) | none: a function of the body and of what was read at start-up | normalize, map the host to a tenant, map the severity, default the tenant, validate, look the tenant up | An event lands in the index of its own tenant, of its host's, or of none; a level the program knows is never rejected |
| Consumer (`consumer.py`, `elastic.py`) | the prefetched deliveries, the message it handles, the attempt of `index_event`, Prometheus counters | start, handle (index / retry / ack / nack / publish to the DLX and ack), end | Nothing is lost, settled once, duplicated only as often as attempts and faults allow, counted once; settled in the end |
| RabbitMQ (`infrastructure/rabbitmq.py`, `infra/rabbitmq/declare_topology.py`, `rabbitmq/definitions.json`) | main queue, DLQ, outstanding deliveries | publish, deliver up to the prefetch, settle, dead-letter, redeliver when the connection closes | What starts together does not harm each other; a DLQ is bound to the dead-letter exchange before anything is rejected |
| DLQ tools (`reprocess_dlq.py`, `peek_queue.py`) | the message it holds, its loop counter | get, correct and republish, quarantine, discard, give back (dry run), die | A session that dies loses nothing and adds at most one copy; a dry run leaves the queue as it was; sessions end; what can be repaired is repaired |
| Bulk indexer (`bulk_indexer.py`) | buffer, time of the last flush | add, flush | What was acknowledged reaches the index; nothing waits for ever |
| Tenant registry (`tenant_registry.py`, `scripts/onboard_tenant.py`, `config/tenants.json`) | the file, the copy each process read | load, add a tenant, create its index and alias | A tenant that was added stays; all readers agree on the file's format |
| Policies and aliases (`scripts/apply_policies.py`, `setup.sh`, `bootstrap_alias_logs_default.sh`, `housekeeping.sh`, `policies/`) | policies, indices and aliases in OpenSearch | upsert a policy, create index and alias, move the alias, roll over, delete by age or because it is empty | The alias writes to its newest index whoever asks for an older one, an event leaves it by age only, an edit of the policy is not overwritten unread |
| Login and access (`core/auth.py`, `core/security.py`, `api/routes/auth.py`, `db/`) | users, roles, tokens | seed, log in, check | A request reads only tenants of its user, and a role that is taken away stops working |
| API reads, metrics exporter, diagnostics, snapshot requests, fluentd | none of their own | one request each | - |

How they interact. The consumer is one thread: pika calls `handle()` for one
delivery at a time. But each call that `handle()` makes to RabbitMQ or OpenSearch
can fail or be the last thing the process does, and a call on the channel returns
when its frame is written, not when the broker has read it. The operator runs the
DLQ tool beside the running consumer; both share the main queue (the tool
publishes, the consumer takes) and the DLQ (the consumer's rejections arrive at
its end while the tool takes from its head). The registry file is read once by
the consumer and changed by the onboarding script. The exchanges, queues and
bindings are made by whoever comes first: each consumer at its start, the
operator's `declare_topology.py`, or a container with `definitions.json`; nothing
in `docker-compose.yml` orders them. The alias `logs-default` is shared by the
consumer, three setup scripts, a cleaning script and the policy OpenSearch runs.
The API looks at the token a login made and not at the tables behind it.

What is hard, and where: a crash or a closed connection between the index call
and the acknowledgement (`consumer.py:321`); `client.index` without a document id
inside a retry loop (`elastic.py:41`); publish-then-ack without publisher
confirms (`consumer.py:336`); `basic_ack` inside the `try` of the indexing;
prefetched messages handled after the connection has closed; a replay racing the
consumer that dead-letters what was just replayed (`reprocess_dlq.py:97`); a
dead letter that ends the tool (`reprocess_dlq.py:138`), or that it can only give
back (`:51`, `:188`); the order of the tenant
checks against two configuration switches (`consumer.py:226`); processes that
find the same queue missing (`infrastructure/rabbitmq.py:32`); a list of empty
indices that is acted on later (`housekeeping.sh:9`); a policy that changes
between its GET and its PUT (`apply_policies.py:86`). `PROJECT.json`
lists every one, with the properties that would catch it going wrong.

## 2. The modules

| Module | What it is | Code |
|---|---|---|
| `EventPipeline` | operators: what the consumer makes of one body | `normalizer.py`, `utils.py`, `tenant_mapping.py`, `consumer.py:65-70,123-136,183-304`, the schema |
| `DlqCorrection` | operators: how the DLQ tool corrects a dead letter | `reprocess_dlq.py:28-36,133-145` |
| `EventLifecycle` | the data of one event through consumer, DLQ and replays | the two above, composed |
| `Delivery` | abstract: what the pipeline promises a producer | - |
| `Consumer` | `handle()`, `main()`, RabbitMQ and OpenSearch, step by step; implements `Delivery` | `consumer.py`, `elastic.py` |
| `DlqReplay` | the DLQ as a queue, the sessions of the two tools, the consumer as its promise | `reprocess_dlq.py`, `peek_queue.py` |
| `TenantOnboarding` | `config/tenants.json`, its readers and writers, the name `logs-<tenant>` in OpenSearch | `onboard_tenant.py`, `apply_policies.py:108-215`, `tenant_registry.py` |
| `BulkConsumer` | the bulk branch of `handle()` with its buffer | `bulk_indexer.py`, `consumer.py:306-310,370-380` |
| `BrokerTopology` | who declares exchanges, queues and bindings, and what is lost meanwhile | `infrastructure/rabbitmq.py`, `declare_topology.py`, `load_definitions.sh` |
| `IndexLifecycle` | the alias `logs-default` after its first index: rollovers, the policy, the scripts | `apply_policies.py`, `setup.sh`, `housekeeping.sh`, `bootstrap_alias_logs_default.sh`, `policies/ism_logs_default.json` |
| `TenantAccess` | tables, logins, tokens, routes | `db/`, `core/`, `api/routes/` |
| `MC*` | constant values for TLC | - |
| `ConsumerProofs`, `DlqReplayProofs`, `EventLifecycleProofs`, `BulkConsumerProofs`, `TenantOnboardingProofs`, `BrokerTopologyProofs`, `IndexLifecycleProofs`, `TenantAccessProofs` | theorems | - |

**EventPipeline.** A body is a record of what the pipeline can tell apart: its
shape, why its `tenant_id` is a name or none, host, severity, the severity found
in the message text, and whether the typed fields have their types. `Verdict` is
the branch of `handle()` the body takes, `Event` what is sent to OpenSearch. The
three ways of being "no tenant" (`absent`, `null`, `empty`) are kept apart because
`prepare_event` fills only a missing key, while the host mapping and the DLQ tool
also fill null and the empty string.

The bulk branch of `handle()` is in a module of its own, `BulkConsumer`, because it
cannot run in the consumer as it is: `bulk_indexer.py:10` registers a metric that
`consumer.py:36` has registered already, the import raises and is swallowed
(`consumer.py:78`), and `USE_BULK=true` leaves the consumer on the other branch.

**Consumer.** `pc` is the place in `handle()`; each action is the code from one
external call to the next. `HandleAccept`/`HandleReject` stand for everything from
the call of `handle()` to the first external call; which one it is, is `Verdict`.
`Index*` are the answers of `client.index`: stored, or raised (and then stored or
not: the answer may have been lost). `AckIndexed`, `Nack`, `PublishDlx`, `AckDead`
write a frame to `wire`; the `*Raises` actions are the same calls on a closed
connection, with the path their exception takes through the two `except`
clauses. `Exit` is `start_consuming` raising; `Crash` can happen anywhere. RabbitMQ
reads `wire` in order; when the connection closes what it has not read is lost
and every outstanding delivery returns to the queue.

**DlqReplay.** The queue is a sequence, because `basic_get` takes its head and a
message that is given back returns to the head. One session is at most `Limit`
messages. The consumer is reduced to what `Delivery` promises, so the two models
meet at that abstraction: `Consumer` implements it, `DlqReplay` uses it.
`peek_queue.py` is a second kind of session: `peek` gives each message back (and so
shows the same one `--count` times), `take`, its `--requeue false`, acknowledges it
and keeps nothing. One tool runs at a time. One handling of an event stores one to
`Attempts` documents, because `index_event` names no document and tries again when
an answer is lost (`elastic.py:39-54`); `IndexFails` dead-letters an event whatever
its attempts have stored, and `ConsumerDies` is a consumer that ends between the
storing and the acknowledgement. So `CopiesBounded` is about documents: those an
event has and those its copies in the queues can still become. The consumer
dead-letters with `basic_nack` here; in manual mode it publishes, which is module
`Consumer`'s business. `Unencodable` are the objects with a string UTF-8 cannot
encode (a lone surrogate, which `json.loads` accepts): `publish_event` raises at
`reprocess_dlq.py:51` with the channel open, lines 187-188 give the message back to
the head, and the loop takes it again until its limit, in every session. (A dry run
with `--verbose` that prints such a string ends its session instead; a session
may end at any place anyway, by `SessionLost`.)

**TenantOnboarding.** The file is a format and a list of entries. A run of
`onboard_tenant.py` reads it, empties it, writes it (`write_text` truncates
first) and creates the index with its alias; these are four steps, and runs may
overlap (`docs/architecture/multitenancy_design.md` recommends running the script
from CI/CD). `apply_policies.py` works on one entry in three requests and ends at
an entry without a `policy_id`, which is what the onboarding script writes. The
consumer's copy is what `TenantRegistry.load()` kept when it started; it indexes
the events of the tenants in it, and OpenSearch (whose default is to create an
index that does not exist) makes an index of the name `logs-<tenant>` when no
alias is there. `slips` is history: it records that runs overlapped, that the
consumer was started while a script was at work or before `apply_policies.py` had
provisioned a tenant written by hand, or that something was killed or failed. The
properties say what holds as long as a certain slip did not happen, and so which
one it takes to break it.

**BulkConsumer.** `Add` is `handle()` up to and with `BulkIndexer.add()`; it leads to
`Flush`/`FlushFails` when the buffer is full or the interval is over, and then to
the acknowledgement. Time is a counter of ticks since the last flush. Every
orderly way out (`Stop`, `Interrupted`) passes through the flush in the `finally`
of `main()`; `Crash` does not.

**BrokerTopology.** A process is a place in its plan, the list of things it
ensures (`ConsumerPlan`, `ScriptPlan`: they differ in order and in the dead-letter
queue), and a phase: the passive look, the script's second declaration in the same
`try`, the creation on a new channel. An object is absent, declared as the code
declares it, or there with other arguments (a queue from before the dead-letter
exchange, which only the consumer accepts, because its passive look passes). A
consumer that has its binding serves; a script that ends without a WARNING sets
`certified`. A failed binding closes the channel, and so makes the next one fail:
`BindRefused` and `ChannelError` go to the end of the script at once (a binding is
never refused for a missing end, which is lemma `NeverRefused`). Events are
published and handled all the while, and where an event without a route or without
a DLQ goes is the question the module asks.

**IndexLifecycle.** `TenantOnboarding` has the time before the alias
`logs-default` exists, this module the time after. The scripts run in `Jobs`,
terminals of which each runs one script at a time; each request to OpenSearch is a
step, so what a script has seen (`seen` for the policy, `todo` for the list of
empty indices) may be old when it acts. `PolicyPut` carries the sequence number:
`seen` is `current` until somebody changes the policy. `Rollover`, `Retain` and
`Refresh` are OpenSearch's; `fresh` are the stored events no refresh has made
visible, which `docs.count` does not count and a `_reindex` does not copy. The age
at which the policy deletes is any time after the rollover. OpenSearch refuses a
second write index, which is what keeps a later run of `apply_policies.py` from
moving it back. `PolStop` is every way `main()` has of ending before it comes to the
default tenant: no file, no JSON, no list, an entry that raises, an inactive or
missing one.

`bootstrap_alias_logs_default.sh` works for an index of another name,
`logs_default_000001` (`Boot`): it creates it (`BootFirst`), takes the alias from
every index and gives it to this one in one request (`BootMove`), asks whether
something of the name `logs-default` is there, which an alias is too (`BootDirect`),
copies and deletes it (`BootCopy`, `BootDrop`; OpenSearch refuses both for the alias
that leads to `Boot`). The index never rolls over, its name not ending in a number
after a hyphen, and is not among the `logs-default-*` that the policy and
`housekeeping.sh` see. It is numbered above all others, so "the newest write index"
is this one from then on. `policy = "setup"` stands for `setup.sh`'s
`logs-default-ism`, which has the pattern and the priority of the file's policy, so
that OpenSearch refuses the second of the two. `SetupLook` takes the index to be
there whatever OpenSearch answers, because the 404 body contains `"index"` as well;
it is made only after a request without an answer. `top`, `unwritten`, `safe`,
`expired` and `botched` are history.

**TenantAccess.** The tables are changed by the seed and by hand (no code
updates them). A login is two queries (READ COMMITTED, the user's row is not read
again): `Login` finds the user active, `LoginRoles` reads his roles and puts them
into a token, and the tables may change in between. The routes look at the token
only. Time is in ticks, `Ttl` of which a token lives; a login or a request is
shorter than a tick. `idle` and `lapsed` are history: ticks since a user last was
active, and since he last had a role for a tenant. `reply` is what the last step
told a client: of which tenants (`about`), with whose events (`events`), and whose
events its numbers count (`counted`). The alias of a tenant may hold events of
others (`Content`), which is why `/logs/search` filters by `tenant_id` again;
`/tenants/{id}/stats` does not, it counts whatever is behind the alias.

**Delivery.** A message is unsent, pending or settled; it is settled only when a
copy is held in the index or in the DLQ; an invalid one never enters the index;
after it is settled nothing happens to it.

### What is external

RabbitMQ and OpenSearch are not in the repository. They are modelled by what the
code relies on: idempotent declarations with the same arguments and a closed
channel for others, at-least-once delivery, the prefetch window, requeueing of what is
unsettled when a connection closes, frames of one connection read in order, the
dead-letter exchange, the head position of a requeued message; and an index call
that stores a document, or fails, or stores it and fails; one write index for an
alias, an index made for a name nothing has, updates of a policy checked against
its sequence number.

## 3. The runs

| Run | Instance | What it shows |
|---|---|---|
| `lifecycle_strict` | every body, three tenants (one unregistered), a mapped and an unmapped host, `REQUIRE_TENANT`, two replays | `TenantIsolation`, `HostDecidesTenant`, `KnownLevelsAccepted`, `ReplayRepairs`, `ReplayIdempotent` |
| `lifecycle_tenant` (violation) | the same | a replay gives the default tenant to an event that strict mode refused for having none |
| `consumer_auto` | three events (two good, one invalid), prefetch 2, one retry, two faults, `basic_nack` mode | safety, `SettledIsFinal`, `EventuallySettled`, refinement of `Delivery` |
| `consumer_manual` | a good event and one that is not JSON, the four attempts of the code, two faults, `USE_MANUAL_DLX` | publish-then-ack: refinement of `Delivery` with its liveness, the bound on duplicates |
| `replay_faults` | one event of each kind (repairable, hopeless, not JSON, JSON but no object, an object that cannot be encoded), `--limit 2`, two attempts of `index_event`, replay (dry or real, with or without quarantine) and peek, one fault | `ReplayLosesNothing`, `CopiesBounded`, `DryRunKeepsQueue`, `SessionEnds`, `OnlyPoisonBlocks` |
| `replay_poison` (violation) | a repairable event and one that is no object | the tool dies at the head of the DLQ for ever, the repairable event is never replayed |
| `onboarding_jobs` | a listed and a new tenant, two concurrent jobs, a missing file, a list of names or of objects, one killed script or failed request | `OnboardedStays`, `AliasNotTaken`, `NoBareIndexLeft`, `RegisteredIsKnown` |
| `bulk_faults` | four events, a buffer of two, an interval of one tick, two faults | `LossBounded`: a fault costs at most one buffer, a stop nothing; `DuplicatesBounded` |
| `topology_start` | a consumer of each mode, one script, the definitions, a new broker or one with a queue of other arguments, one event, two faults | `CertifiedIsComplete`, `RaceIsHarmless`, `DropsAreEarly`, `ConsumersServe` |
| `index_lifecycle` | two terminals for any of the four scripts, two generations of the alias and the bootstrap script's index, one event, one killed script or failed request | `WriterStays`, `VisibleKept`, `EditsSurvive`, `AliasComesBack` |
| `access_tokens` | two tenants, the admin, two tokens, logins in two queries, three contents of the configuration | `TokensAge`, `RepliesAreScoped`, `AccessEnds` |
| `onboarding_shipped` (violation) | the shipped `config/tenants.json` | the consumer knows none of the tenants it lists |

### Bounds, and why they are enough

* Bodies are not sampled: `lifecycle_*` starts from every member of `Body`.
  Tenants and hosts are one of each kind the code distinguishes (default,
  registered, unregistered; mapped, unmapped).
* `Msgs`: deliveries do not share data, only the prefetch window, the wire and the
  queue order. Two messages can be on the wire and in the window together, three
  make one wait outside it.
* `Retries` is 1 where three messages interleave and the code's value, 3, where
  two do: an attempt differs from the next only in the counter.
* `MaxFaults` 2: one fault leaves a redelivery behind, the second hits that
  redelivery. `DuplicatesBounded` and `CopiesBounded` are stated as functions of
  the number of faults, so a fault that cost more than its share would show.
  `replay_faults` has room for one fault only, and leaves out `take`; its theorems
  have any number of faults and every tool.
* `MaxRounds` 2: `ReplayIdempotent` says that the second replay changes nothing.
* `Limit` 2 with five dead letters: sessions end by the limit and by the empty
  queue. Two `Attempts` tell a handling that stores one document from one that
  stores several.
* `onboarding_jobs`: two jobs and two tenants are the least that can lose an update;
  the second tenant is onboarded any number of times, by either job. One fault is
  enough because no property that mentions faults is claimed after one.
* `bulk_faults`: four events make the buffer of two fill twice; the bounds in the
  properties count faults, so that two suffice.
* `topology_start`: two processes are enough to meet at one missing thing, the third
  tells the script's plan from the consumers'. One event goes through every place
  an event can be in; events do not share state.
* `index_lifecycle`: two generations make one rollover and one retired index; two
  terminals are the least in which a script acts on what another has changed. One
  fault is a killed script, a failed `_reindex` or an unanswered look. The theorems
  cover any number of each.
* `access_tokens`: users share only the table of tenants, so one is enough for TLC
  (the theorems cover all). Two tokens of one user may name different tenants; two
  ticks tell "expires now" from "has expired".

### Fairness

* `Consumer`: weak fairness of the process's next step, of the broker reading the
  wire, of deliveries, and of `Start`. The first three are a running thread and a
  working broker. The last is the operator: `main()` does not reconnect and
  `docker-compose.yml` gives the consumer no restart policy, so
  `docs/architecture/logging_runbook.md:38` has someone start it again. Crashes and
  lost connections are bounded. OpenSearch owes nothing: it may refuse every
  document for ever, and the event must still be settled (in the DLQ).
* `DlqReplay`: a running session, the broker and the consumer make progress, and
  the operator runs the tool for real again and again (strong fairness, since dry
  runs may be in progress whenever they look). Nothing promises that a session
  survives.
* `TenantOnboarding`: the operator starts the consumer again now and then. No
  script has to finish.
* `BrokerTopology`: a consumer that runs goes on, and is started again when it has
  ended (the operator, as above). Scripts owe nothing. Faults are bounded.
* `IndexLifecycle`: a script that runs goes on, and the operator runs
  `apply_policies.py` again and again (strong fairness, since another script may
  have the terminal whenever he looks). `AliasComesBack` has two preconditions
  besides: from some time on `config/tenants.json` brings every run to the default
  tenant (no `PolStop`), and `housekeeping.sh` is not run for ever, which beside
  `apply_policies.py` could delete each new first index before its alias is made.
* `TenantAccess`: time passes (strong fairness, since a tick waits for the logins
  that have begun), and a login that has begun ends. Nobody has to log in or do
  anything.
* In `DlqReplay` the consumer owes progress only to events a replay can repair: for
  the others nothing is claimed.

### What the violation runs say

1. `lifecycle_tenant`: `docs/architecture/multitenancy_design.md:14` says the
   default tenant is never filled in; `reprocess_dlq.py:139` fills it in.
2. `replay_poison`: `docs/work_plan_improvement.md:247` asks for a DLQ that
   regular replays empty; `reprocess_dlq.py:138` raises outside every `try`.
3. `onboarding_shipped`: `scripts/apply_policies.py:31` and `db/init_db.py:14` read
   `config/tenants.json` as an object with a list, as it is shipped;
   `tenant_registry.py:41` keeps nothing of an object, and `onboard_tenant.py`
   cannot work on it (`data[0]`).

Seen on the way and not made a run: the DLQ tool writes the literal `"default"`,
so with a `TENANT_ID` of another name a replayed event of a mapped host is not
remapped (the hypothesis of theorem `HostsDecide`); `README_OPERATIONS.md:21` maps
the level alert to info and `consumer.py:67` to high; a dry run gives the head
back and takes it again, so it only ever shows the first message, and so does
`peek_queue.py`; without `--quarantine` a dead letter that is not JSON is
acknowledged and kept nowhere (`reprocess_dlq.py:120`, against
`docs/operational/dlq_management.md:5`); with `USE_MANUAL_DLX` `consumer.py:333` and
`:120` both count one failed event under `index_failed`. `declare_topology.py` prints
"Topología verificada/creada." after a WARNING too, and ends at a legacy queue
before it has bound anything, and `load_definitions.sh` ignores the answer it gets.
The consumer in `docker-compose.yml` waits for neither of them, so that events it
rejects early are dropped. `housekeeping.sh` deletes a write index that has just
been rolled to, or whose events no refresh has shown; if it was the only index, the
next event makes an index of the name `logs-default` and the alias can never be
made again. A first index that `apply_policies.py` makes anew after its retention
stays outside the alias. `GET /tenants` asks for no token. `db/init_db.py` and
`apply_policies.py` both raise on the list of names that `config/tenants.json` is
shipped with.

`GET /tenants/{id}/stats` counts every document behind the alias (`stats.py:23`),
while `docs/architecture/storage_design.md:21` says the backend filters by
`tenant_id` always; `RepliesAreScoped` is therefore about events, and exempts the
numbers. An object the DLQ tool cannot encode blocks the queue as one that is no
object does, without ending the tool.

`bootstrap_alias_logs_default.sh` promises, in its line 2, an alias and the migration
of an index of the same name. With such an index its `_aliases` request is refused,
since an alias cannot have the name of an index; the index is deleted afterwards, and
then there is neither, until the script is run again. What the consumer stores
between the `_reindex` and the `DELETE` is lost, and the `DELETE` follows a failed
`_reindex` too. Without such an index, the events behind the alias stay in the old
indices, which the alias no longer names. (`curl -X HEAD` waits for a body that a HEAD
does not have when the answer announces a length; the model takes the status line,
which `-w` prints, to arrive.) `setup.sh:28` never makes the first index of a new
cluster, and `jq` then ends the script at line 37.

## 4. What is proved

All theorems hold for every value of the constants that satisfies the named
assumptions (`PipelineAssumption`, `CorrectionAssumption`, `ConsumerAssumption`,
`ReplayAssumption`, `NothingAssumption`, `BulkAssumption`, `OnboardingAssumption`,
`TopologyAssumption`, `AccessAssumption`, and a `LifecycleAssumption` each in
`EventLifecycle` and `IndexLifecycle`). Three have a hypothesis besides: a DLQ is
bound to the dead-letter exchange (`DlqBound`: `NoEventLost`,
`ConsumerImplementsDelivery`), the queue `--quarantine` names exists
(`QuarantineBound`: `ReplaysLoseNothing`), and the settings' default tenant is the
literal the DLQ tool writes (`HostsDecide`, `ReplaysRepair`). Without them the
properties are false, because RabbitMQ drops what no queue takes, and because the
tool's literal is then a tenant like another.

**ConsumerProofs.** The invariants the runs check are not inductive: `NoLoss` needs
to know why an acknowledgement that is still on the wire is safe. The
strengthening is, in `Consumer`:

* `LinkInv`: while the connection is open the prefetched messages, the handled
  one and those with frames on the wire are outstanding deliveries, each in one
  stage only; once it has closed, what the process still works on is back in the
  main queue. It gives `TagsOutstanding`.
* `HoldInv`: whoever is about to acknowledge has made a copy, or has one on the
  wire ahead of the acknowledgement. With `LinkInv` it gives `NoLoss`; it needs
  `DlqBound`, which is a hypothesis of the theorem.
* `RejectInv`: rejected events do not reach the indexing branch.
* `AutoInv`: without manual publishing only the nack makes a copy in the DLQ; it
  gives `DeadOrPending`.

* `DocsInv`: the documents of a message, the attempts `index_event` has left for it
  and all the attempts of its deliveries to come (`Coming`: it is unpublished, queued,
  prefetched, or held by a process that died unnoticed) are at most
  `(Retries + 1) * (faults + 1)`. A step only moves one term into another, and a
  fault adds one delivery to both sides.
* `ManualInv`, `SingleInv`: the same for the copies in the DLQ, where a process that
  has lost its connection no longer counts, since it cannot publish; a message has
  one publication on the wire at a time. By the broker there is one copy in all.

`TypeCorrect`, `TagsStayOutstanding`, `NoEventLost`, `RejectedStaysOut`,
`DeadOrPendingAlways`, `CountersAlwaysBalance` and `DuplicatesAlwaysBounded` follow,
one step per action.

The promise comes last: `SettledStaysFinal` (the action property) and
`ConsumerImplementsDelivery`, where each step of `Consumer` maps to a step of
`Delivery` or to a stutter, under `LinkInv`, `HoldInv` and `RejectInv`.
`HandleEnds` is what can be proved of `EventuallySettled`: `StepsLeft` counts the
calls `handle()` may still make, each step of the process lowers it and no step of
the broker raises it, so that a call has at most `Retries + 7` steps. That the
first acknowledgement after a publication may raise and lead to a second
publication, and the second not, is why it depends on `reason`.

**DlqReplayProofs.** The queue is a sequence, and the properties count copies along
it. No induction is needed: `CountIn` is the cardinality of a set of places, and the
steps only append, take the head or put a message back in front, so two lemmas,
`CountAppend` and `CountFront` (with a bijection that shifts the places), say all
there is to say about counts. The inductive invariants:

* `SessionInv`: what the session has written and the broker has not read, for each
  place in the loop; at most one message is under way. `LookInv` is the same for
  dry runs and peeks, which only ever write `requeue`; it gives `DryRunsKeepQueue`.
* `LossInv`, `CopiesInv`: between the broker's reading of the corrected copy and of
  the acknowledgement there is one copy too many (`Doubled`). With that one counted
  the copies and documents, `Kept`, are more than 0. `Weight` counts `Attempts` for
  each copy and one for each document, and is at most `Attempts * (1 + faults)`: a
  handling turns a copy into no more documents than it weighs, and a session
  that dies at that moment turns the copy too many into the one its fault pays for.
  They give `ReplaysLoseNothing` and `CopiesAlwaysBounded`.
* `RejectedOnly` is invariant by itself (`DlqHoldsRejected`): without a fault no
  acceptable copy is in the DLQ.
* `PoisonInv`: a dead letter that is no object, or an object that cannot be
  encoded, is never published, quarantined or acknowledged. Together with the shape of the queue it gives the action property
  `PoisonBlocks`: such a head stays the head and nothing is published, whatever else
  happens, until a peek with `--requeue false` takes it. That is the escape clause
  of `OnlyPoisonBlocks`, and the reason why `CorrectableIsIndexed` fails, for any
  queue and not only for the instance of `replay_poison`.
* `DropInv`: what is about to be dropped; it gives `ReplaysDiscardOnlyGarbage`.
* `HeldIsCounted`: what is held was fetched. With it `SessionsWindDown` shows that
  `Rank` falls with each step of the session and the broker and that the
  consumer cannot raise it: the part of `SessionEnds` that needs no fairness.

**EventLifecycleProofs.** Invariants that follow the body from the producer
through the replays (a body keeps the tenant its producer named; a body without
one only ever gets the fallback tenant; a known level stays known; a replayed
body is a fixed point of the correction) give `TenantsStayIsolated`,
`HostsDecide`, `KnownLevelsAlwaysAccepted` and `ReplaysAreIdempotent`. `ReplaysRepair`
adds what a replayed body has (a tenant and a known level), so that a rejection
can only be for what the tool does not touch; like `HostsDecide` it needs the tool's
literal to be the default tenant. `LifecycleTypes` is the type invariant.
`CorrectionIsIdempotent` is about the operators alone: what the tool corrected once
it leaves as it is. It justifies that a copy in `DlqReplay` has two forms only, `fixed`
or not.

**BulkConsumerProofs.** The bounds count faults, so the invariant has to say
which events can still cost something. `FlowInv`: while the connection is open what
the process holds is outstanding at the broker, and the event whose `add()` leads
to a flush is in the buffer. `LossInv`: `Lost`, the events that are acknowledged (or
about to be) and neither stored nor buffered, are at most `MaxItems` for each
fault. `DuplicateInv`: the copies of an event that are stored and buffered, with
those it still owes (a delivery to come), are at most one and one for each fault.
`LossAlwaysBounded` and `DuplicatesAlwaysBounded` follow, with `TypeCorrect`, which
bounds the buffer.

**TenantOnboardingProofs.** `FileInv`: a copy of the file that a run holds lists
nobody twice, and not the tenant it is going to add. `StaysInv`: without overlaps there
is one run, and it carries everybody the file listed while the file is empty.
`AliasInv`: whoever is listed, in the file or in any run's copy of it, has an alias, or
waits for one from `apply_policies.py` (`pending`) or from a run that is about to
create it; only the former makes bare indices, for entries with a policy. It
is what makes the overlaps harmless, and saving the registry before the alias
exists. `BareInv`: a bare index is the one `apply_policies.py` works on. They give
`TypeCorrect`, `OnboardedAlwaysStays`, `AliasNeverTaken`, `NoBareIndexEverLeft`.

**BrokerTopologyProofs.** What a process that has come so far has left behind it:
a consumer things that are present, a script things that are declared
(`ConsumerDone`, `ScriptDone`); only the queue can have other arguments; without a
fault a consumer creates only what it has seen to be missing (`CreatesMissing`),
which holds against all the others because the broker never unmakes a thing. That
gives `CertifiedStaysComplete`, `RacesAreHarmless` and the action property
`DropsAlwaysEarly`. `ConsumersGetThere` is what can be proved of `ConsumersServe`: a
consumer's `Way` to serving counts the requests ahead of it and a whole new start for
every fault that is left, and for the one that has made it take a queue that is there
for a missing one (`Misled`: its creation will be refused). Its own steps shorten
it, nobody's lengthen it, it is at most `12 * (MaxFaults + 1) + 11`, and a consumer
that does not serve is always at a place with a next step.

**IndexLifecycleProofs.** `WriterInv`: as long as housekeeping has deleted no
write index, the write index is the newest that ever was one (the bootstrap script's
is newer than every generation), has not rolled over, and before the first one
nothing has. `VisibleInv`: the events that were visible when a script started are no
longer on their way and no longer unrefreshed, no index on a list of empty ones
holds any, and a bootstrap script that is about to delete `logs-default` has copied
those that are in it. With `TypeCorrect` they give `WriterAlwaysStays` and
`VisibleAlwaysKept`; `EditsAlwaysSurvive` needs the types only.

**TenantAccessProofs.** Who is active is not idle, neither is who is between the two
queries of his login (no tick falls between them), and a role that is held has not
lapsed (`HistoryIsFresh`); so a token is as fresh as the tables when it is made, and
from then on both age together: `TokensAlwaysAge`, `RepliesStayScoped`, `TypeCorrect`.

**Only model-checked:** liveness (`EventuallySettled`, `ImplementsLiveDelivery`,
`SessionEnds`, `OnlyPoisonBlocks`, `RegisteredIsKnown`, `ConsumersServe`,
`AliasComesBack`, `AccessEnds`), because fairness and ENABLED are out of the prover's
reach. Of some of them the part that is not about fairness is proved, as said above:
`HandleEnds`, `SessionsWindDown`, `PoisonAlwaysBlocks` and `ConsumersGetThere`; for
`AccessEnds` it is `TokensAlwaysAge`. Every invariant and action property of the
passing runs is stated by a theorem.

## 5. What is not modelled

* Fields that no verdict depends on (extracted addresses, ports, event times), the
  wording of logs, the latency histograms.
* Losses inside RabbitMQ: messages are not published as persistent, and a broker
  restart empties the queues.
* Of OpenSearch's management: snapshots (`snapshot_before_delete.py` sends one
  request), the ingest pipelines, templates and the mapping report; the alias of
  other tenants after its first rollover (only the first index of a tenant gets its
  own `rollover_alias` from `apply_policies.py`, the templates name `logs-default` for
  every `logs-*`). `tenant_bootstrap.py` has no caller.
  `bootstrap_opensearch.sh` stores a test document in `logs_default_000001`, outside
  the alias. What `docs/operational/README_OPERATIONS.md` has the operator do by hand to an alias or
  an index is not modelled.
* That the OpenSearch client may itself send one index or bulk request again; an
  attempt is one request in `Consumer`, `DlqReplay` and `BulkConsumer`.
* Passwords, signatures and password changes: `jose` and `passlib` are taken to
  work. `api/routes/ingest.py` is mounted by nothing.
* The exporter, the alerts, `check_dlq.sh` and the test publishers of `infra/`: they
  read, or send what a producer sends. fluentd is third-party with a configuration.

## 6. What is left

The extracted fields of an event (`normalizer.py:59` drops
them on a replay) would need a larger body in `EventPipeline`.
