# goosed in TLA+

goosed provisions bare-metal machines: a PXE stack (DHCP, TFTP, HTTP) boots
them, an HTTP API hands out boot scripts and installer files with tokens in
them, agents on the installed machines report facts, and an orchestrator turns
the events of the API into provisioning runs. This directory holds TLA+ modules
of the parts that keep state, TLC configurations that check them on small
instances, and TLAPS proofs for every instance.

## 1. Inventory

| component | code | state | operations | what makes it correct |
|---|---|---|---|---|
| event bus | `pkg/bus/bus.go` (JetStream) | per subject: log, delivered, owed redeliveries | Publish, Subscribe (ack / nak) | at-least-once delivery to one callback at a time |
| orchestrator | `services/orchestrator/sm.go` | `activeRuns` cache, four callbacks' locals | handleMachineEnrolled, handleAgentFacts, handleRunStarted, handleRunFinished | one open run per machine of its own making; no run of another machine; no enrollment lost |
| run store | `runs` table | rows | insert, update, latest running | a run is opened once; only a client opens a closed one again |
| API, runs and events | `services/api/handlers_{runs,facts,machines}.go`, `publish.go` | requests in flight | runs/start, runs/finish, machines, agents/facts | events agree with the table |
| API, tokens | `services/api/token_store.go`, `handlers_{boot,tokens}.go` | `tokens` table | iPXE, Kickstart, unattend, refresh | a spent token is not given out again |
| DHCP helper | `services/pxe-stack/internal/dhcp` | lease map, `nextIP` | discover, request, release | one process puts no address in two hands, none outside the range |
| pxe-stack supervisor | `services/pxe-stack/cmd/pxe/main.go` | readiness flags, error channel, ports tried | start, listen with retry, shut down | ready only when all parts serve; an error or a signal ends it |
| pxe-stack configuration | `services/pxe-stack/internal/config` | none | Load, resolveDHCPInterface, parsePortList | rejects what cannot be served, loses nothing silently |
| inventory | `services/inventory/ingest.go` | `facts`, `audit` tables | handleFact | every fact is audited, truthfully, and again only after a failure or for a replay |
| agents | `services/agents/{rhel,windows}` | post-install marker file, registered service | report loop, `provision.ps1` | `postinstall_done` is reported until it is stored, and no longer unless the script is run again |
| blueprints watcher | `services/blueprints/gitpull.go` | snapshot, version | Start, sync, Snapshot | every version is announced and served, and the last one is what is on the disk |
| bundler | `services/bundler` | archive, manifest | Build, Import | what is imported is what was signed |
| API, machines | `services/api/handlers_machines.go` | `machines` table | upsert by MAC, list | one row per MAC; the list shows statuses that were true |
| API, artifacts | `services/api/handlers_artifacts.go` | `artifacts` table, objects in S3 | register, presign | an object has a row |
| artifacts gateway | `services/artifacts-gw` | requests, shutdown | presign a GET | URLs live as long as the limit allows; a signal ends it |
| bootd, UI API | | none | static files, health | stateless |
| web console | `services/ui/web` | page state | filter, select | counts agree with the list |
| telemetry, rendering, S3, database, migrations, auth, charts, scripts | | none | | not a subject for TLC |

How they interact: the API and the orchestrator share the `runs` table and four
NATS subjects. The API publishes on core NATS and ignores errors
(`publish.go`); the orchestrator publishes through JetStream and returns the
error, so that its message is redelivered. Inventory consumes the subject of
facts next to the orchestrator. The tokens are used by the API only, the leases
by the DHCP helper only.

The hard behaviours: four callbacks and any number of request goroutines on one
cache and one table; redelivery out of order; failures that took effect or did
not; crashes that lose the cache, and stops that also delete the durable
consumers and so replay the whole stream; statements that read before others
write; clocks read before a lock is obtained; files read while they are edited;
requests that outlive the client that waits for them; a row and an object in two
stores; signals that meet a start half done. `PROJECT.json` lists each one at
its line under `hazards`.

## 2. Modules

| module | models | role |
|---|---|---|
| `Bus` | JetStream consumers, `Subscribe`'s ack and nak | operators other modules conjoin with their handler steps |
| `RunStore` | the `runs` table | the same |
| `Orchestrator` | `sm.go` | one action per cache access, statement or publish |
| `RunApi` | `handlers_runs.go`, and the events of `handlers_facts.go`, `handlers_machines.go` | one action per statement or publish |
| `Provisioning` | API and orchestrator joined by table and bus | Spec, fairness, properties, inductive invariant |
| `ProvisioningRuns` | what a fleet's runs promise | abstract specification |
| `ProvisioningProofs` | | theorems about `Provisioning` |
| `DhcpLeases` | `internal/dhcp/server.go`, `ip.go`, and the clients' view | Spec, properties, inductive invariant |
| `DhcpLeasesProofs` | | theorems about `DhcpLeases` |
| `TokenStore` | `token_store.go`, `handlers_boot.go`, `handlers_tokens.go` | Spec, properties, inductive invariant |
| `TokenStoreProofs` | | theorems about `TokenStore` |
| `FactsApi` | `handleFacts`, the `facts` table | shared by `Inventory` and `Agents` |
| `Inventory` | `ingest.go` | `FactsApi` with the audit: Spec, properties, inductive invariant |
| `InventoryProofs` | | theorems about `Inventory` |
| `Agents` | `agents/rhel`, `agents/windows` | `FactsApi` with the processes that call it: Spec, properties, inductive invariant |
| `AgentsProofs` | | theorems about `Agents` |
| `MachineApi` | `handlers_machines.go` | `RunStore` with the machines: Spec, properties, inductive invariant |
| `MachineApiProofs` | | theorems about `MachineApi` |
| `BundleBuild` | `bundler.go` (Build), `signer.go` | actions, property, its part of the inductive invariant |
| `ArtifactStore` | `handlers_artifacts.go`, the objects in S3 | the same |
| `BundleImport` | `bundler.go` (Import), `goosectl` | `BundleBuild` and `ArtifactStore` with what moves a bundle from one to the other |
| `BundleImportProofs` | | theorems about the three bundle modules |
| `BlueprintWatcher` | `gitpull.go` | Spec, fairness, properties, inductive invariant |
| `BlueprintVersions` | what is served and announced | abstract specification that `BlueprintWatcher` implements |
| `Durations` | `time.Duration` | numbers of seconds as wrapping integers, for `PxeConfig` and `ArtifactsGateway` |
| `PxeConfig` | `internal/config` | `Load` as functions |
| `PxeSupervisor` | `cmd/pxe/main.go`, the life of the TFTP server | `PxeConfig` with the process that uses it: Spec, properties, inductive invariant |
| `ArtifactsGateway` | `artifacts-gw` | Spec, properties, inductive invariant |
| `ServiceProofs` | | theorems about `BlueprintWatcher`, `PxeConfig` and `PxeSupervisor`, `ArtifactsGateway` |
| `MC...` | | inputs, sizes and symmetry sets for the `.cfg` files |

A definition named "Mutant of ..." is a plausible bug of the definition that
follows it; no specification uses it. `PROJECT.json` pairs each with a property
that TLC finds violated when it takes the definition's place.

### Provisioning

`log[c]` is the stream of subject `c`, `delivered[c]` how much of it had its
first callback, `redeliver[c]` what the server owes another delivery, `busy[c]`
the message in the callback. A handler's local state is a record (`enrolling`,
`completing`) with a `pc` that names the next statement; a step that ends a
handler also acks or naks, as `bus.go:89-93` does. A run id stands for uuid and
`started_at`, which the creating process picks before its insert: that is why
`AllocateRun` and `InsertRun` are two steps and `LatestRunning` orders by id.
`handleRunFinish` reads the row and saves it whole; since the status it writes
does not depend on what it read, one step stands for both statements. It accepts
any status that is not empty, for any run: a client that says `running` opens a
finished run again. `reopened` is an observer of these requests, and the
properties set such runs apart.

A process of a consumer ends in two ways. In a crash (`Restart`) the durable
consumers stay, and what was in a callback is redelivered. On a signal (`Stop`)
`Close` drains the subscriptions (`bus.go:66-74`, `103-106`), and the client
library deletes the durable consumers it has created itself: the next process
gets the whole stream again (`DeleteConsumers`). Both happen to `Inventory` too.

Left out: payload fields nobody reads, logs, the HTTP response, validation of
requests that change nothing, events that cannot be decoded (the publishers in
this repository send none). Machines and facts rows are not needed: their
handlers are here for the events they publish.

### DhcpLeases

Addresses are numbers; `leases` and `nextIP` are the handler's fields. `assign`
and `release` run under the mutex and are one step each; the reply is sent in a
later step, may be lost or late. `held` is the client's side: what its last ACK
granted, for a whole lease time from when it arrived, and in which life of the
process: a restart empties the table, not the clients. The clock is a counter;
`Tick` may come between any two steps, so the two readings of the clock in one
call of `assign` are taken to be equal.

### TokenStore

A request is a record with a `pc`; a step is one SQL statement. `Rotate` is two
steps: its clock reading (`RotateBegin`) and its transaction, which takes effect
at the commit (`RotateCommit`); that its purge runs before it waits for the row
makes no difference but for rows that expired meanwhile, which the model purges
too: they are dead either way. `spent` is an observer: the tokens that had been
rendered by iPXE, or rotated, when the request began; `booted`, `served` and
`rotated` count what went out. A row is purged when its expiry has come, by any
request of any machine.

### FactsApi, Inventory and Agents

A fact id stands for the row's uuid and its `created_at`, both picked before
the insert, so rows may appear out of order. `Inventory` adds `handleFact`: the
previous snapshot is read, the row inserted unless it is there, the audit entry
written, the message acknowledged; each is a step, may fail before or after it
took effect, and the service may die in between. A snapshot is a function of
top-level keys; `computeDiff` compares key by key as the code does, with JSON
null and an absent key looking alike. A number in a stored snapshot is a
`json.Number` and one in the event a `float64`, so a value that holds a number
(`Numeric`) never equals anything (`DeepEqual`). `replayed` is an observer: how
many deliveries stops have undone.

`Agents` adds the clients. An agent's request (`conn`) is an API goroutine of
its own: after ten seconds, or a crash, the agent is gone and the request is
not. The marker is the file the RHEL agent writes; on Windows it is the service
that `provision.ps1` registers after it has reported done. The script looks for
nothing before it reports: each of its runs (`RunScript`) says done and registers
the service anew. A fact is `done` or
`plain`; reading the host's facts and the agent's configuration are left out.
The event's way from the API to the orchestrator is `Provisioning`'s part: the
answer 201 stands for the row only.

### MachineApi

An upsert is find, create or update, reread, publish; the unique index on the
MAC refuses the loser of a race. The list reads machines, facts and runs in
three statements; `seen` is an observer that collects each machine's true status
while a list is made. The columns of `runs` are a constant: the query orders by
`created_at`, a column the migration does not create.

### BundleBuild, ArtifactStore and BundleImport

Files are read twice, for the hash and for the archive, and may change in
between; sizes matter, because the archive writer refuses a member that is
longer than announced and finds a shorter one only with the next header. A
content also stands for its hash, a key for its pair; what is left of a member
that was cut at its announced size is some content of that size; a signature is
a pair of key and entries. `torn` says that the end of the archive is missing.
`sealed` is an observer: what was ever signed. The row of an artifact is created
before the object can be stored under its id; S3 refuses an upload whose
checksum is not the announced one, except by URL, which is signed for the key
only.

### BlueprintWatcher

`disk` is what others edit, `watcher.read` what a sync has read so far, file by
file. A version number stands for a uuid. Any error ends `Start`, as the code
has it. (`cmd/blueprints/main.go` serves health endpoints and does not start a
watcher yet: what an error ends is whatever calls `Start`.)

### PxeConfig and PxeSupervisor

`Load` is a function from environment and host to a configuration or an error: a
variable is unset, does not parse, or is a value, and an address is two bytes or
one that is not IPv4. The lease time is a product with a second and may wrap to
zero or below; `DhcpLeases` is about positive ones. `PxeSupervisor` starts from
what was loaded and forgets it (`Drop`) as `run` does but for the servers and
the ports. Servers run on goroutines of their own and report errors through a
channel with a place for each; ports are taken and freed by other processes;
time passes only in the backoff, in units of the first delay. The preferred port
is any integer that `strconv.Atoi` accepts: one that `portsToTry` keeps and
`net.Listen` refuses ends the start (`InvalidPort`). Go's choice between an
error and a signal that are both there is nondeterministic.

### ArtifactsGateway

Seconds are multiplied with `time.Second` in a signed integer that runs from
`-Half` to `Half - 1` (`Durations`); in the code `Half` is 2^63. A URL keeps its
query, so that its life time can be compared with what was asked for.
The life cycle (serve, shut down, flush, exit) is that of the other services'
mains as well; they differ in what they register.

## 3. Runs

| run | instance | shows |
|---|---|---|
| `provisioning` | 2 machines, 1 API worker, 3 requests, runs finished as "failed" or "running", 1 fault, 4 run ids | the inductive invariant, one open orchestrator run per machine but for those a client reopened, cache and events truthful, no enrollment lost, refinement of `ProvisioningRuns`; an enrollment in the stream gives its machine a run |
| `dhcp` | 2 clients, 3 addresses, lease of 2 ticks, 4 ticks, 1 restart, 2 replies at a time | two holders of an address have it from two processes, range respected, replies free of what this process knows |
| `dhcp_pool` | no restart | violated: a free address is offered |
| `tokens` | 1 machine, 2 requests at a time, 4 in all, TTL 2, 3 ticks | the inductive invariant, no reuse in sequence, a token of its own for each file |
| `inventory` | 2 machines, 2 API workers, 2 facts, a plain and a numeric value, 2 faults | audit entries lead from one fact to another, no event is retired unaudited, duplicates come from failures and replays, every event is audited |
| `agents` | a RHEL and a Windows machine, 2 API workers, 6 requests, 2 runs of the script, 1 fault | who stops saying done was heard, done is stored again only after a failure or for a further run of the script, and is stored in the end |
| `machines` | 2 machines, 2 MACs, 2 upserts, 2 runs, 1 fault, runs finished as "aborted", "running" or "success", a schema with the queried column | announced ids are those of the only row, listed statuses were true |
| `list_columns` | the migration's schema, no fault | violated: a list is answered |
| `bundles` | 2 paths, 3 contents of 2 lengths, 1 key, 1 mishap, 2 imports, 1 client with an upload URL, 4 rows | archives are complete, only signed content is stored by an import, success means stored, one row per attempt, objects have rows |
| `watcher` | 2 trees of 2 files, 2 edits, 1 fault | refinement of `BlueprintVersions`: what is served is announced, and what is announced is served; both converge to the disk |
| `pxe` | environments around the chart's values, with leases that wrap at 2^20, 5 hosts, 2 ports, 2 events, waits of 60 s with delays of 1 to 10 s | configuration usable, interface and fallbacks as given, ready means bound, ports in order and within their time, errors and signals end the process |
| `gateway` | integers of 8 bits, every query among them, a limit of 12 seconds of 7 ticks, 1 request at a time | a URL lives as long as was asked for, a signal ends the process |

Why the bounds are enough. A fault stands for a failed or half-failed statement,
a lost publish, an expired ack wait, a crash or a stop; one fault reaches every
retry path of a handler, two reach a failure of the retry. In `provisioning`
three requests allow enrollment, API run and finish (or done fact) to overlap,
and an enrollment to repeat; a second fault is covered by the proofs, which know
no bound. No behaviour of that run needs a fifth run id: with six ids TLC finds
the same number of states, and with three a callback that waits for an id is
reported as a deadlock. Three addresses and twice the lease time in ticks let
the range run out and leases expire while clients still hold them. A token can
be issued, spent, expire and be purged within three ticks, while another request
waits between two of its statements. In `inventory` the second fact can be
inserted before, between and after the statements for the first. Six requests
let an agent's report fail and be repeated, the script be run again and the
service report, next to the other machine's; what several failures do to one
agent is covered by the proofs. Two upserts of one address meet at every
statement, and a list sees a run start and another end between its queries. In
`bundles` one mishap (an edit between the two reads, a failed call, a kill,
damage on the way) and a second import after it is the longest story the code
tells apart; three contents give a changed file of the same and of another
length. Two edits tear a read of two files. In `pxe` two ports are a preferred
one and its fallback, two events let both be taken or a server fail while a port
is; every doubling of the backoff and its cut at the deadline occur. In
`gateway` eight bits (`Half` = 128) hold the limit, and the products of most
queries wrap.

`CHECK_DEADLOCK FALSE` is set where the system really may stop: the watcher and
the gateway end, and the API has nothing to do once the bounded requests are
served. Elsewhere `Quiescent` (or `Gone`, a process that has exited) is an
explicit step, so that any other state without a successor is reported.

### What is violated

* `dhcp_pool`: `assign` starts at `nextIP`; once the last address was handed out
  `nextIP` is beyond `endIP` and `server.go:112` returns before the loop that
  starts over (`server.go:126`) is reached. The same fact is why the clients of
  one process never collide although renewals do not extend the lease in the
  table: an address is given out once in the life of the process.
* `list_columns`: `fetchRecentRuns` orders by `created_at`, which `runs` does
  not have, neither in the migration nor in the two run models. `machines`
  therefore checks the list under a schema that has it.

### What the code does and no property forbids

These behaviours were met while modelling. Each is allowed by the models, and
no statement that excludes it is checked.

* A started event may be handled after its run has finished
  (`sm.go:229`): the cache then names a dead run, and a later enrollment of that
  machine opens none.
* `POST /v1/runs/finish` with the status `running` opens a finished run again
  (`handlers_runs.go:76-105`) and publishes a finished event for a run that is
  running. The machine may then have two open runs of the orchestrator.
  `OneOpenOrchestratorRun`, `EventsTruthful` and `ProvisioningRuns` set runs apart
  of which a client has said so (`reopened`), and say that nothing else does it.
* A stop on a signal replays the whole stream. A replayed enrollment opens a new
  run for a machine whose runs have all finished, and every fact is audited once
  more. What a stop replays is counted in `DuplicatesAreRetries`.
* After a restart the DHCP server starts over at the first address and hands out
  addresses that clients of the previous process still use.
  `SharedOnlyAcrossRestarts` and `ReplyIsFree` say that it happens in no other
  way.
* `provision.ps1` reports done whenever it is run.
* A done fact that is consumed before the enrollment, or lost, leaves the run
  open; one that finds a run in the cache completes that run, which need not be
  the latest.
* A token in a Kickstart or unattend file is never marked used, and the next iPXE
  script carries it too. Two iPXE requests at once may render one token, and two
  refreshes at once may rotate it twice: `Rotate` compares the expiry with a clock
  it read before it waited for the row, and does not look at `used`. The checked
  properties therefore speak of requests that begin after the token was spent.
* Inventory may compare a fact with a later one, when the API was faster, and
  notes a key that holds a number as changed even if it is the same.
* A lost event is lost although the agent was answered 201 and will not repeat it.
* `Build` may report success and leave an archive whose end is missing; an import
  refuses it. A failed upload leaves a registered row without an object.
* The watcher ends when a file vanishes between listing and reading.
* `PXE_DHCP_LEASE_SECONDS` may be so large that the lease time wraps
  (`config.go:58`).
* The TFTP server may stop without an error; `run` is not told and stays ready.
* On a signal, `run` and the gateway return while `Shutdown` is still draining:
  open requests are cut.

### Fairness

* `provisioning`: each subscription's delivery (JetStream offers an
  unacknowledged message until it is acknowledged), each callback's steps, the
  API's goroutines.
* `inventory`: delivery and the handler's steps.
* `agents`: systemd restarts the RHEL agent (`Restart=always`), its ticker fires,
  its steps and the API's goroutines are scheduled. Nothing is assumed of Windows
  machines: `provision.ps1` is started by hand.
* `watcher`: the ticker fires and a sync that has begun goes on.
* `pxe`: the goroutine of `run` goes on and its timers fire. Servers may take
  for ever to bind.
* `gateway`: the goroutines of `run` and of `Shutdown`. A handler may take for
  ever.

All of it is weak fairness of actions that the Go scheduler, a timer or the bus
runs. Requests, faults, edits and signals are free, and finite in number as a
bound.

## 4. Proofs

All proofs are for arbitrary constants, from the named assumptions next to the
CONSTANTS: e.g. that `NoMachine` is no machine, that no status is the model's mark
for a missing row (`FinishStatusAssumption`),
that the DHCP range does not end at 255.255.255.255, that the TTL is positive
(`newTokenStore` replaces one that is not).

* **Provisioning** (`Invariance`, `TypeCorrect`, `NoTwoOpenRuns`, `CacheSound`,
  `NoEnrollmentLost`, `EventsFollowTable`, `Refinement`). `IInv` adds to the
  invariants who owns an id that has no row yet (`IdsOK`), that no orchestrator
  run of the machine is open between lookup and insert, those a client reopened
  apart (`NoneOpenWhileCreating`: only the one enrollment callback opens them,
  and an API run is told apart by its blueprint), that local references are to
  rows of the right machine (`RefsOK`) and that a run about to be announced as
  finished is closed or was reopened by a client (`FinishedOK`). A stop keeps
  all of it: consumers that start over read a stream that only tells the truth.
  Without `NoneOpenWhileCreating`, `OneOpenOrchestratorRun` is not inductive at
  `EnrolledCreate`. The refinement maps status to absent/open/closed and the
  finished events in the stream to announcements; each step opens, closes,
  reopens or announces one run, or stutters.
* **DhcpLeases** (`Invariance`, `TypeCorrect`, `OneProcessNeverShares`,
  `RepliesAreFree`, `OnlyPoolAddresses`). `IInv` says that this process gave
  each address below `nextIP` to at most one client (`GivenOnce`) and no other
  address to anyone (`GivenBelowNext`), and that an earlier process did not
  either, as far as its grants still show (`GrantedOnce`); leases alone would
  not do, since they expire in the table before they do at the client.
  `NextIsFree` shows that the search can only ever find `nextIP`.
* **TokenStore** (`Invariance`, `BootsOnceInSequence`, `RotatesOnceInSequence`,
  `FilesHaveOwnTokens`). `IInv` says that what was rendered is used or gone and
  what was rotated is expired or gone (`SpentIsDead`), and that no request in
  flight holds a token spent before it began (`BootOK`, `RefreshOK`). The step
  argument is one lemma, `RequestKeeps`: no step revives a dead token (`Decays`).
  `OneFilePerToken` needs an invariant of its own (`FilesOK`): a token that waits
  to be rendered in a file was in none before and waits in one request only.
* **Inventory** (`Invariance`, `TypeCorrect`, `NoFactUnaudited`, `EntriesExplain`,
  `EntriesArePaidFor`). `IInv` says that a row is written once and before its
  event is in the stream (`ApiOK`), that the job in hand is the message in the
  callback and compares two rows of one machine (`JobOK`), that an entry says
  what `computeDiff` says of its two rows (`AuditOK`), and that entries, the job
  and owed redeliveries together do not exceed first deliveries, replayed ones
  and faults (`BudgetOK`): counting entries alone is not inductive.
* **MachineApi** (`Invariance`, `TypeCorrect`, `AnnouncedIdsAreStored`,
  `ListsTellTheTruth`). `IInv` is the unique index (`OneRowPerMac`), that every id
  in a request or an event owns its address (`OwnersOK`), and that a machine
  without facts when the facts were read either has a run or was seen offline
  (`ListOK`): facts and runs only come, so the status that the three statements
  add up to was true at one of them.
* **Bundles** (`Invariance`, `TypeCorrect`, `BuiltIsComplete`,
  `OnlySignedIsImported`, `SuccessIsComplete`, `AttemptsBoundRows`,
  `ObjectsAreRegistered`). `WritingOK` says what an archive under construction
  has already; `ImportOK` that the import in hand works from a signed manifest,
  has compared the member it is about to store, and has stored what it is done
  with; `StoreOK` who may put an object under which id; `BudgetOK` that the rows
  of a path and the one an import still owes it do not exceed the imports.
* **Agents** (`Invariance`, `TypeCorrect`, `MarkersAreTrue`, `RepeatsHaveCause`).
  `IInv` says that an agent waits for a request of its own and that 201 tells of
  a stored row (`ConnOK`, `Told`), so that who is about to write the marker was
  heard (`MarkOK`). `Budget` counts the done facts that are stored or on their way
  (`Promised`) and the one that the machine will still say without a failure or a
  run of the script (`MaySayDone`), and bounds them by the allowance of the
  property: a request may outlive the agent that made it.
* **BlueprintWatcher**, in `ServiceProofs` (`Invariance`, `TypeCorrect`,
  `NothingLeftUntold`, `Refines`). The only forced sync is the first, any other
  starts from a version that was announced (`SyncingOK`) and may drop what it
  finds unchanged; what is being published is what is installed
  (`PublishingOK`). Each step installs or announces one version of the abstract
  specification, edits the disk, or stutters.
* **PxeConfig and PxeSupervisor**, in `ServiceProofs` (`PxeInvariance`,
  `PxeTypeCorrect`, `ReadyStackIsBound`, `PortsInOrder`, `DhcpConfigIsUsable`,
  `InterfaceIsThere`, `FallbacksKept`). `PxeIInv` says what `Load` made of the
  environment (`ConfigOK`), that a flag was set by its server and an error waits
  until it is read (`ServersOK`), and that the ports behind `run` are those it
  gave up (`PortsTried`). What `Distinct` computes for lists of any length is
  shown by a least counterexample instead of an induction: `LeastNatural` gets
  one from the well-founded order of finite sets, `ExtendsExist` that the
  recursive function exists, `DistinctKeeps` that it keeps each wanted element
  once, and in order. That the comparison of bytes is that of numbers is
  `CompareIsLexicographic` with `OrderOfNumbers`.
* **ArtifactsGateway**, in `ServiceProofs` (`GatewayInvariance`,
  `UrlsLiveAsAllowed`). A product that does not exceed `MaxTtl` seconds is within
  the integers (`ProductFits`), so that the one the URL is signed for did not wrap
  (`NoWrap`), and lives for the seconds of its query (`AskedFor`).

`ServiceProofs` extends the three modules it is about at once; that is why the
names of the supervisor's and the gateway's definitions begin with `Pxe` and
`Gateway`, and why the gateway's variables are not called what the supervisor's
are: `gateway`, `interrupted` and `closing` are its `main`, `signalled` and
`shutdown`.

Only model-checked: `EnrollmentGetsRun`, `FactIsAudited`, `DoneGetsStored`,
`ConvergesToDisk`, `FailureStopsStack`, `SignalStopsStack` and
`SignalEndsGateway`. Liveness under fairness is out of the prover's reach. Every
other property that a passing run checks is stated by a theorem. Each module has a
type invariant (`TypeOK`, `PxeTypeOK`, `GatewayTypeOK`): it is proved for every
specification, as a part of `IInv` (`PxeIInv`, `GatewayIInv`). No run lists it on
its own, since every property a run checks is one about a hazard.

## 5. Plan

Done: all components that keep state are modelled and checked, and their safety
properties are proved. What is left:

1. What a step may never do, as action properties of `Provisioning` and
   `TokenStore`: consequences of the refinement and of the lemma `Decays`.
2. Compositions that are not needed for any property above: `Agents` in place of
   `Provisioning`'s free reports, and `Bus` against an abstract at-least-once
   queue.
3. The lemmas on folds and `Distinct` in a module of their own, if another
   component comes to need them.

## 6. Not modelled

* Files that are served over HTTP and TFTP, `bootd`, the blueprint renderer and
  the templates: pure I/O or pure functions of their input; nothing is kept.
* Telemetry, the database pool, `auth.go` (empty), making the S3 client: set-up
  code. `PutObject`, `PresignPut` and `PresignGet` are modelled by their effect.
* Migrations: a schema; the columns of `runs` are the one part the code's
  behaviour depends on, and an input of `MachineApi`.
* The other services' mains: the life cycle of `ArtifactsGateway` with other
  handlers. The UI API serves health, migrations and seed data.
* The web console: renders what it fetched once.
* Charts, dashboards and scripts.
* In the modelled parts: wording of logs and responses, payload fields nobody
  reads, requests that are refused without a change of state, kinds and image
  lists of bundles, file permissions, strings that the configuration copies.
