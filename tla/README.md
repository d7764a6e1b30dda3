# A TLA+ model of the secure LiteLLM gateway

This directory holds TLA+ specifications of the parts of this repository whose
correctness depends on order, failure and concurrency; TLC configurations that
check them on small instances; and TLAPS proofs of the most important
invariants for every value of the constants. Each definition is translated from
the code it stands for; `PROJECT.json` ("map") names the lines.

## The system

The repository runs LiteLLM on a private AKS cluster behind an audited gateway,
and carries the tooling that deploys, configures and governs it.

| component | state it keeps | operations | interacts with | what is hard | must hold |
|---|---|---|---|---|---|
| Durable audit writer: `auth-proxy/audit-journal.mjs`, `audit-delivery.mjs`, `audit-store.mjs` | blobs per request (`pending`, `requests`, `journal/*`, `records`, `index`), active counter, a cooldown latch | `begin`, `response`, `frame`, `finish`, delivery read loop | gateway handler (callbacks), blob store (puts) | a put whose answer is lost may land late; three callbacks race to finish; crash anywhere | nothing is forwarded or sent before it is durable; the counter is exact; the journal can always be completed |
| Gateway handler: `proxy.mjs`, `server.mjs`, `guardrail.mjs` | per request: deadline, guardrail, upstream, client | audited route, error callback, close | writer, upstream, client | disconnects during any await | no upstream call without an intent; every request ends |
| Gateway policy and identity: `policy.mjs`, `auth.mjs`, `native-ui.mjs`, `edge-policy.mjs`, `response-context.mjs` | response-context store | decide, verify, bind a response id to its caller | handler | expiry and capacity of the response context | a decision uses the caller's own context |
| Buffered writer, reader: `audit-capture.mjs`, `audit-reader.mjs` | capture in memory, access log | capture, list, read | store | limits, partial failure | access is logged before content is shown |
| Recovery: `audit-recovery*.mjs` | an approved plan, a Job | plan, approve, execute per entry | store, window, writer | state changes between review and execution | completes what the writer left, invents nothing |
| Retention and holds: `audit-reader.mjs` (maintainAudit), `audit-maintenance.mjs`, `scripts/audit_governance.py` | hold registry, the Job's copy of it | delete an expired record blob by blob; change holds | store, window, recovery | cut off between deletions; stale registry | no orphan blob, no held record touched |
| Maintenance window: `scripts/audit_window.py`, `audit_runtime.py` | checkpoint ConfigMap, two workload specs | plan/approve/execute of pause, resume, recover | Kubernetes, recovery Job | a run dies between patches; foreign edits; the Job outlives its run | recovery runs alone; originals are restored |
| L3 sidecar spool: `l3-audit/src/queue.ts`, `azure.ts`, `server.ts` | files in a directory, counters, serial promise chain | enqueue, tick, init | capture, blob store, index | tick and writer interleave at every await; crash loses unsynced renames | index after content; no silent loss; budget |
| L3 capture: `record.ts`, `proxy.ts`, `websocket.ts` | shared byte budget, per-session turns | add, finish, frames | spool | overlapping turns, finish exactly once | budget returned exactly; frames in their turn |
| L3 activation: `admin.ts`, `activation.ts`, `private-endpoints.ts` | cluster and ARM objects | plan, apply, roll back | Kubernetes, ARM | failure half way | old state restored |
| Runtime configuration and model sync: `local_execution/runtime_config.py`, `model_sync.py`, `scripts/model_sync_*.py` | customer file, ConfigMaps, Deployment, saved plans, run directories | plan, execute, recover | Kubernetes, ARM, reviewers | no lock; stale plans; lost answers; kill between effect and record | only the reviewed change, once; file and cluster reconcilable |
| Local runner: `local_execution/runner.py` and helpers | plans by hash, step directories | plan, execute, apply | all scripts | stale approvals | executes only what was approved |
| Stage gates: `scripts/customer_migration.py`, `migration_evidence.py`, `workflow_artifacts.py`, `migration_deploy.py` | ledger of acceptances, approved plans | accept, plan, deploy | ARM, GitHub artifacts, local runner | stale evidence, edits between approval and execution | no stage on evidence that was superseded among what counts; nothing deployed but what was reviewed |
| Edge and DNS: `private_ingress*.py`, `edge_binding.py`, `model_sync_evidence.py`, `dns_runtime.py` | what two ingress planes trust and who manages it, receipts, DNS checkpoint | apply, bind, refresh, release, cutover, rollback | Kubernetes field managers, Front Door, DNS zone | half-bound planes, replaced profiles, foreign edits | released means bound; a way back from DNS |
| Certificate: `certificate_runtime.py`, `certificate_vault.py` | pending state, order, TXT record, TLS secret | issue, resume, install | CA, zone, Vault | three systems, a kill between any two | nothing left behind that is not known |
| Credentials: `scripts/*credentials*.py`, `entra_*.py`, `legacy_access.py` | app credentials, role assignments, backend keys, receipts, the legacy entry's sources | initialize, rotate, recover, retire, grant, revoke, issue, restrict, restore | Entra, Key Vault, backend, legacy cluster | old and new coexist, each exists in two places; a revocation races an issue | never without a working credential; no later issue brings a revoked key back |
| Runner lifecycle: `scripts/runner_*.py` | VM, registration, lease checkpoint | start, enroll, clean up | GitHub, ARM | busy check races removal; another VM takes the name | a busy runner stays; everything created is known |
| Database stage: `LiteLLM/runtime/*.py`, `schema_runtime.py`, `database_roles.py`, `runtime_secrets.py`, `migration_runtime.py` (restore, publish) | schema, history, grants, keys, receipts | create roles, set keys, restore, migrate, publish, start Pods | PostgreSQL, Key Vault | two operators under different locks, lost sessions | Pods serve on the schema and the keys the data needs |
| Legacy deployment: `LiteLLM/deploy_mi_aks_litellm.py` | Azure objects, ConfigMap, Secret, PostgreSQL, Deployment of the legacy gateway | one run of ordered steps, repeated after it broke off | Azure, Kubernetes, administrators who set the Salt | each run has new settings on what the last one left; Pods read ConfigMap and Secret when they start | the Salt is never lost; a new template's Pods fit its settings |
| Validators, manifest builders | none | check, render | files | none | - |

`PROJECT.json` lists every component with its status, and every hazard at the
line where it bites.

## Modules

| module | models | state |
|---|---|---|
| `AuditLedger` | the abstract promise of the audit writer: an entry per request, sealed once with what the client saw | `intent`, `answered`, `written`, `shown`, `seal`, `ended` |
| `AuditJournal` | writer, delivery, handler and store for any number of requests; implements `AuditLedger` | `store`, `wire`, `cap`, `client`, `proc` |
| `MCAuditJournal` | symmetry for TLC | - |
| `MCAuditLifecycle` | `AuditLifecycle` whole, and its retention alone with fairness | adds `part` |
| `AuditJournalProofs`, `AuditLedgerProofs` | type correctness and safety proofs; the refinement of `AuditLedger` | - |
| `AuditLifecycle` (extends `AuditJournal`) | recovery, retention, holds and the phases of the window on the same store | adds the Jobs, the window, holds and the age of a request |
| `AuditLifecycleProofs` | recovery, index, retention and holds, proved on top of the writer's invariants | - |
| `AuditWindow` | the window itself against Kubernetes: checkpoint, two specs, operator run, recovery Job | `dep`, `cron`, checkpoint, run, Job |
| `L3Capture` | the sidecar's captures: budget, HTTP exchange, websocket frames and turns | `memory`, `captures`, `exchange`, taps, turns |
| `SpoolQueue` | the sidecar's disk queue and its two sinks | files, memory, tick, sinks |
| `MCSpoolOutage` | the behaviours of `SpoolQueue` during a long outage of the sinks | - |
| `ConfigPublish`, `ConfigPublishProofs` | runtime-config and model-sync runs that publish a configuration | cluster, customer file, runs, records, approvals |
| `StageGates` | acceptances, plans put up for approval and deployments of the workflow and of the local runner | `cfg`, `rev`, `runs`, `reviewed`, `job`, `here`, `arm` |
| `EdgeRelease` | private ingress, edge binding, evidence refresh and edge release | `edge`, `ingress` (with its field managers), receipts |
| `DnsCutover` (extends `EdgeRelease`) | DNS cutover and rollback with its checkpoint | `dns`, `checkpoint`, `change` |
| `DatabaseStage` | stage 5 and the backend: roles, keys, restore, migration, publication, Pods | `db`, `rights`, `vault` (with its versions), `data`, `ops` of two operators |
| `AdminCredentials` | the OIDC credential of the admin plane and its session secret | `entra`, `versions`, `session`, receipt, proxies |
| `SubjectAccess` | applications, role assignments, backend keys and policy of subjects | `bindings`, `roles`, `secret`, `users`, `keys`, receipts, policy |
| `CertificateIssue` | ACME issue of the API certificate | `orders`, `txt`, `pending`, `tls`, `run` |
| `RunnerLease` | the leased self-hosted runner | `vm`, `runner`, `command`, `saved`, `lease` |
| `LegacyEntry` | restriction and restoration of the legacy entry | `entry`, `cycle`, `allowed`, `operation` |
| `LegacyDeployment` | the deployment script of the legacy gateway, run after run | `built`, `granted`, `configMap`, `env`, `deployed`, `instances`, `script` |
| `SidecarProofs` | `SpoolQueue`, `L3Capture` | - |
| `MigrationProofs` | `StageGates`, `EdgeRelease`, `DnsCutover`, `LegacyEntry`, `DatabaseStage` | - |
| `CredentialProofs` | `AdminCredentials`, `SubjectAccess`, `CertificateIssue` | - |
| `OperationsProofs` | `LegacyDeployment`, `RunnerLease`, `AuditWindow` | - |
| `MCOperations` | the operations above and the two sidecar modules, in one checked specification | adds `focus` |

### Composition

`AuditLifecycle` extends the writer and shares its store; `DnsCutover` extends
the edge and acts on what it left. The migration operations and the sidecar's
two halves otherwise share no state inside one operation: what one hands to the
next is a receipt, an approval or a file that the next one checks itself, and
that check is in the model of the one that makes it. `MCOperations` therefore
does not interleave them. It picks a `focus` in the initial state, and only the
part in focus moves. The union costs the sum of the parts, not their product,
and one run carries the invariants of all. The edge is in focus by itself
(deployments and changes from outside) and again as the frozen
ground of the DNS part. The workflows of an environment exclude each other by one
concurrency group (`customer-change`), and the guides ask for one operator at a
time (`docs/customer-migration-guide-zh.md:13`), so that parts of the migration do
not run concurrently. Where the code does expect two at once, the model has two:
workflow job and local runner in `StageGates` and `DatabaseStage`.

### AuditJournal

One action per await boundary of the code. `begin()` is `Begin`, `IntentAck`,
`RequestAck`, `BeginFail`; the guardrail verdict and routing are `Forward` and
`Reject`; `deliverAuditedResponse` is header, frame, the read loop's faults and
the end; `finish()` is the finish start, marker, record and index puts up to
`CommitDone` or `FailDone`. A put is two things: the blob lands (`Land`), and
the caller learns of it. The caller can learn of success only after landing, but
can be told of failure in either case, and an object whose put failed may land
later, also after the process died; that is what a 15 s abort on an HTTP upload
means. Each request keeps at most one put under way, as in the code. Frame content is reduced to the
one thing the protocol depends on, its place in the chain; redaction and
encoding are left out.

`AuditLedger` says the same without a store: `Open` an entry, `Answer`, `Write` text to it,
`Show` what is written to the client, `Seal` it with a verdict, `CleanEnd`. The
refinement mapping `Ledger` reads the text off the frames that are durable in
order, and the verdict off the index. Under it an upload that lands late, after the
client was told the request failed, is a `Write` that nobody sees, and a lost answer is a stutter.

### AuditLifecycle

Everything that reads or deletes what the writer left. A recovery Job works from
a reviewed plan and re-reads each entry (`recoverRequest`) before writing record
then index. Retention deletes one blob per step, the intent last, and may end
between any two. Time is three ages of a request: fresh, older than 15 minutes
(recoverable), expired. `RetentionInit` is every journal an interrupted
writer can leave; `MCAuditLifecycle` checks retention from there by itself, where fairness is assumed, next to the whole.

### AuditWindow

The three operations of `audit_window.py`, one step per call that reads or writes
the cluster. Replica and suspend fields keep the distinction between missing and
default. The operator run can die after any call (`MaxDeaths`); runs do not
overlap, because the workflow that starts them has one concurrency group per
environment (`.github/workflows/customer-runtime.yml:39`). The Job outlives its
run. Other parties' edits are bounded by `MaxDrift`.

### SpoolQueue

`enqueue` queues a write on the serial chain; `atomic()` is write, rename, sync
and clean-up as separate steps; `tick` is list, read, upload, replace, index,
unlink. Writer and tick interleave at each step. A crash may undo directory
changes that were not synced. Records are numbered; a full record has size 2 and
one without content size 1, which is all the byte budget depends on.

The tick goes through the directory in the order of the names, which are random
UUIDs, so that a record that arrives later may be ahead of one that waits. `name` is
that order. With `Renews` records arrive without end: the identifier of a record that
is over (`Over`: gone from disk, memory and tick) stands for a later one, whose name falls
anywhere among the others, so that the state stays finite. `Renews` is off where a failing sync makes the
counters drift, because they would then drift without bound.

### L3Capture

The budget is charged in `add()` (bodies and messages), in `feed()` (unfinished
frames) and given back by `finish()` and `release()`; every branch that ends a
capture or a frame is an action. An HTTP exchange and a websocket session of
up to `MaxTurns` turns share the budget. Each side of the session is a tap over
units of one frame: fragments, control frames, frames that are too large, not text
or not parseable. The server's events are created, delta, done and error, with or
without the response id; attribution is `pending.shift()`, the map of active
ids, and the fallback to the only turn, as in `websocket.ts:98-120`.

### StageGates

An acceptance is one atomic step: the job reads the newest ledger, the report is bound to
stage, configuration and commit, and the new ledger is published at the end; what it
checks is what counts when it publishes. `Validated` is `validate_evidence`, `Newest` is the artifact the
code would load: with two approvers the newest of the same commit, with a
single operator the newest of all. Accepting an earlier stage again truncates the
ledger (`record_evidence` keeps predecessors only), which is deliberate and reopens
the "no later stage" guards of `deploy_component`. Commits go to and fro
between two: a workflow run that is started again keeps its commit, and the branch can be
set back. A deployment
is approved as the hash of a plan and planned again before it runs, and the hash covers what-if's
view of the component; the local runner compares hashes too (from stage 2 on), but reads no evidence.
Nothing excludes the local runner while a workflow deploys. What it deploys between
the comparison and the deployment of the other side goes unseen by both; such a deployment is marked
`overtaken`, and `DeploysWhatWasReviewed` says that there is no other way.

### EdgeRelease and DnsCutover

A plane's ingress trusts one Front Door identity or none, and each of its fields has
managers, because a server-side apply that conflicts with another manager fails. The edge is a profile
(1, 2, ... as it is replaced) that is on or off. Every operation of this group reads,
plans, writes plane by plane and saves a receipt; it may die anywhere. After an
`edge-bind` in native mode the verification of stage 6 cannot pass again, so that
only the evidence refresh renews its receipt, once per model sync. The DNS checkpoint is bound to
the configuration's stage-9 fingerprint: a change of configuration blocks the
rollback until the old configuration is back.

### DatabaseStage

`Operators` (workflow, local runner) each run one operation at a time: roles, keys, schema
plan and execution, publication. Backend keys and schema migration take different
advisory locks and can overlap. A lost session loses the lock while the work goes
on, be it `prisma` or the requests to the Vault (`SessionLost`). A key is set by two requests, the comparison of
versions (`ReadKeys`) and a `set_secret` that has no condition (`SetKey`), and makes a new version if
there is one already; receipts and Deployments pin a version. `unlocked` remembers that an operation on keys lost its
lock. `pods` run the checks of `application.py` when they start. With
`greenfield`, keys are refused once tables exist: a key initialisation that died half-way
before a schema migration has no way forward but recovering the keys.
Legacy keys are taken not to rotate between dump and import.

### AdminCredentials, SubjectAccess, CertificateIssue, RunnerLease, LegacyEntry

One action per request to another system, one saved state between two. `AdminCredentials`
counts weeks of a credential's life. At `MaxRetained` credentials with the
current one about to expire, both rotation and retirement are refused: a
documented dead end that an operator resolves. `SubjectAccess` has one
operation under way, with everything it read at its start in its record, and
administrators who revoke keys and withdraw roles meanwhile. Duplicate applications and the delay
of the directory are left out. `CertificateIssue` names orders 1, 2, ...;
orders that expire at the CA are left out. An issued certificate that was not installed and
expires in the pending state blocks renewal until an operator clears it.
`RunnerLease` follows the checkpoint of the lease through start and cleanup. The machine is
compared in a request of its own, before the one that gives it the registration (`ConfirmMachine`, `PutCommand`)
and before the one that deletes it (`CompareMachine`, `DeleteMachine`); both act on the name. Other people delete the
machine or create one under the free name at any time, but do not delete it while a job runs on it. GitHub
is assumed to refuse the deletion of a runner that is busy. In `LegacyEntry`
an entry edited to something that is neither the original nor the
restricted value stops every later plan, by design; a hand edit to exactly the restricted
value counts as the operation's own.

### LegacyDeployment

The steps of `main` in their order (`After`), each against what is there: some objects are
only created (`built`), others are applied again with the run's settings. A run may die before any
step, and the next one starts from the beginning with other settings
(`Settings`, chosen at the start; storage size where the one step reads it). The script is
documented for a maintenance window, so that runs do not overlap. What is not excluded is
in the model: administrators set the Salt of the Secret (`SetSalt`) between the script's
read (`ReadSecret`) and its conditional replacement (`ReplaceSecret`), and Kubernetes starts, readies and
evicts Pods whenever it likes. A Pod reads the ConfigMap and the Secret when it starts, not when its
template was made; the Deployment carries a hash of both. PostgreSQL keeps the password its
data directory was initialized with. The initial state is a subscription with nothing in it, or
what an earlier complete run left.

### ConfigPublish

Both tools share one protocol: read inputs (`Start`), read the cluster and
compute the plan (`Prepare`), save it (`WritePlan`, `SavePlan`) or compare it with the
approved one (`Accept`), deploy and re-read prerequisites (`Deploy`,
`VerifyInfrastructure`, model-sync only), re-check (`Recheck`), create the
immutable ConfigMap (`CreateConfigMap`), patch (`PatchDeployment`, or
`PatchAnswerLost`), record (`RecordPatched`), wait for and verify the rollout,
install the file, complete. A live configuration is a setting and a set of
accounts; a ConfigMap's name is the hash of its text, so it is identified with
its content. The resourceVersion grows with every change of the Deployment,
status changes of the rollout included. `Fail` and `Kill` may happen before every
step; since a step is the effect and the next one its record, that covers lost
answers too. `RollBack` and `InstallDesired` are the two ways out that the
`recovery` text of `state.json` describes.

## Runs

| run | instance | shows |
|---|---|---|
| `journal_request` | 1 request, 2 frames, all denials and faults, fairness | persist before forward, no call without intent, every request ends, and the refinement of `AuditLedger` |
| `journal_slots` | 2 requests, 1 slot, symmetric | the active counter is exact |
| `lifecycle` | 1 request through writer, recovery, retention, holds, window; 1 record through retention alone, fairness | recovery is never blocked, what is indexed is true, no orphan, holds respected; an expired record is deleted completely |
| `window` | 2 windows, 2 deaths, 1 foreign edit, fairness | recovery runs alone, edits survive, originals restored, every window can be closed |
| `spool_drains` | 2 records, room for fewer, 1 crash, sinks may fail for ever, records without end, fairness | counters exact, limits kept, nothing but younger records ahead keeps a record in the queue |
| `spool_outage` | 3 identifiers, sinks down, records without end, fairness | **violation**, see below |
| `spool_sync_failure` | 3 records, count limit 1, failing sync | **violation**, see below |
| `publish_overlap` | 2 overlapping runs, 3 starts | patches only as reviewed, on what was reviewed; record, ConfigMap and network in order |
| `publish_sequence` | 3 runs in turn, 1 rollback, 1 foreign edit, fairness | one review, one publication; completed means agreement; recovery always leads back to a state that can be planned from |
| `dns_foreign_edit` | 2 records, 1 edit of the zone | **violation**, see below |
| `l3_overlapping` | 2 overlapping turns | **violation**, see below |
| `operations` | every part of `MCOperations`, bounds in `MCOperations.cfg` | the invariants and action properties of the operations and of the sidecar, below |

The properties of `operations`, by part:

| part | property | says |
|---|---|---|
| gates | `DeploymentsStand`, that is `BuiltOnAccepted` and `DeploysWhatWasReviewed` | no workflow deploys on evidence that was superseded among the acceptances that count for it; nobody deploys on anything but what the reviewer saw |
| edge | `ReleasedIsBound`, `TrustKept` | traffic is on only if both planes trust this Front Door, unless somebody outside interfered; no operation takes trust away |
| dns | `WayBackKept` | a record that leads to an endpoint was written under a checkpoint that still knows the way back |
| database | `PodsServe`, `KeysFitData` | Pods serve on the schema of their revision, with a history they cannot write, and with the key the data was written with; for generated keys as long as no operation on keys lost its lock |
| credentials | `UsedKeysWork` | no operation removes the credential in the Vault or the one the proxies use |
| access | `AdmittedCanWork`, `RevokedStaysRevoked` | whoever the policy admits can work; a revoked key is created again only by an issue that had seen it before |
| certificate | `LeftoversKnown` | every order and validation record is known to the pending state |
| runner | `LeaseAccounted` | every machine and registration is known to a checkpoint, and a running job keeps the machine it runs on |
| entry | `AccessReversible` | a restricted entry can get its sources back, and admits nobody new meanwhile |
| deployment | `SaltKept`, `NewTemplateFits` | the Secret holds the Salt set last; Pods of a template that was never there before hold the settings of its run |
| capture | `BudgetExact`, `SerialAnswers` | the budget is what captures and frames hold; turns one after another get their own answers |
| spool | `IndexAfterContent`, `NothingVanishes` | with failing directory syncs and a crash |

`RevokedStaysRevoked` makes one exception, which the code leaves open: `proxy_credentials.py`
inspects a subject, and creates a key that is missing (lines 89-91) without
looking at the state of the secret again. An operation that had seen the key in
place recreates one that is revoked in between.

Of the gates, `BuiltOnAccepted` says that a deployment by a workflow rests, for each stage before, on
an acceptance of exactly its configuration, and that of the acceptances that count for it none of that
stage or an earlier one came later. With two approvers those of its own commit count, with a single operator all.
`DeploysWhatWasReviewed` says that whoever is about to deploy finds the component as it was when the plan was reviewed,
unless the other side deployed after the comparison.

`OnlyYoungerBlock` is what is left of the promise that records leave the spool: with sinks that fail for ever,
a record that stays finds, again and again, a record with a smaller name that arrived later and is
within its own retry period. Failing records that are themselves expired, unreadable files and crashes keep nothing
behind them for ever.

Every property of a passing run has a mutant: an operator that changes one mapped
definition the way a plausible bug would, under which TLC finds the property
violated. The mutants stand in the modules, next to what they change.

### Bounds, and why they are enough

- *Requests, records*: requests share only the slot counter, so one request
  explores the whole protocol and two contend for a slot. Retention handles
  each record by itself, with the holds it read at its start; one record with holds that
  change is enough.
- *Frames*: with two frames there is a first, a last and a pair, hence a
  predecessor, a gap and a limit reached.
- *Windows, deaths, edits*: two windows expose state carried over; two deaths
  hit both the opening and the closing run.
- *Spool*: room for fewer records than there are makes every budget test decide
  both ways; one crash follows every step. Two identifiers that are used again and again are a record and
  all that come after it, ahead of it or behind. The outage needs three: one that waits, and
  two that take turns ahead of it.
- *Publication*: a plan, its execution and one more execution of the same
  approval need three starts; two settings and two accounts suffice for a change
  and for the way back. Four starts without foreign edits were also checked.
- *Gates*: three stages of which two share a component and each has a section of
  its own, three acceptances (`MaxRuns`), two plans (`MaxPlans`) and two changes (`MaxEdits`), which
  reach an edit and its way back, a commit and its way back, and one of each; longer histories are covered by the proof.
- *Edge, DNS*: two planes, as in the code; two changes from outside, one of which
  may replace the profile, and one edit of the zone.
- *Database*: two revisions and one failure (`MaxBreaks`: a death, a lost
  session, a lost key or a repair); both operators may work throughout.
- *Credentials*: `MaxRetained` = 2 stands for 5 retained credentials and is
  reached with `MaxKeys` = 3; two session keys; two weeks decide each comparison of age.
- *Access*: two subjects, one to be disabled while the other is active, two changes.
- *Certificate, runner, entry*: three orders or machines, so that a leftover
  one meets its successor's successor; two edits of the entry.
- *Legacy deployment*: two runs, so that one meets what the other left half done, with two passwords
  and sizes, one Salt and one eviction; one configuration suffices, because a
  configuration and a password reach the Pods in the same way.
- *Capture*: three turns after each other, a limit of two turns and of three units of
  memory, all of which are reached; content is cut at two.

### Fairness

Only what the code or its scheduling gives. Puts are aborted after 15 s,
guardrail calls after 5 s, requests after 570 s, so a promise settles (weak
fairness on the steps of a request). Kubernetes controllers reconcile; Jobs have
`activeDeadlineSeconds`; the CronJob starts retention every 15 minutes. A deletion
or directory operation that is tried again and again succeeds some time (strong
fairness), the sinks of the spool never have to. `WindowCloses` and `NeverStuck`
assume that somebody follows the documented way out, which is what these
properties are about. `MCSpoolOutage` assumes the fairness of `SpoolQueue` and restricts its steps: no upload and
no index is accepted, the spool's own disk works, and records expire between ticks only.

### Deadlock

Checked except in `window`, `spool_drains`, the two `publish_*` runs, `operations` and
the violations other than `spool_sync_failure`: there a bound on windows, crashes, starts, turns or
changes can be used up with nothing left to do.

## The disagreements found

1. `docs/litellm-optional-l3-runbook-zh.md:57` limits the spool to 1 GiB or 4096
   records per Pod. If the directory sync of `atomic()` fails after the rename,
   `enqueue` (`queue.ts:63`) looks for the file to decide whether the record was
   stored. A running tick may have delivered and unlinked it meanwhile, and counted
   it down; `enqueue` then counts it down again. The counter is one too low from
   then on, and one more record than the limit is admitted. `spool_sync_failure`
   shows the trace. Without a failing directory sync the limit holds
   (`spool_drains`).
2. `docs/customer-deployment-workflows-zh.md:660` says that foreign changes of DNS
   are refused, not overwritten. `change_dns` reads the records again after its first write
   (`dns_runtime.py:125`) and makes the second write conditional on that reading, which it
   compares with nothing. An edit of the second record in that window is
   overwritten (`dns_foreign_edit`). `WayBackKept` holds nevertheless.
3. `docs/litellm-optional-l3-runbook-zh.md:47` says that concurrent turns that cannot
   be associated are marked as gaps. `websocket.ts:104` marks them only when two
   turns wait for `response.created`; with one active and one waiting, an error
   without an id ends the waiting one (`l3_overlapping`). Turns one after another are
   attributed correctly (`SerialAnswers`).
4. `docs/litellm-optional-l3-runbook-zh.md:58` says that a record is given up after 24 hours at the latest, and
   the gap reported. A tick begins with the smallest file name, ends at the first record that fails
   (`queue.ts:128-130`) and looks at the age of a record only when it reaches its file (108). While the sinks are
   down and traffic goes on, a younger record can be ahead of an expired one at every tick (`spool_outage`);
   the expired one stays, is not counted and takes up the budget. Nothing but younger records does that
   (`OnlyYoungerBlock`).

### Promises that hold with an exception

Four more promises of documents and messages hold only with an exception. The models take the steps that lead to it, and
the properties of `operations` name what is exempted; no run is devoted to the exceptions.

- `docs/customer-migration-guide-zh.md:275` says that accepting stage N again makes the later, older ledgers
  invalid. With two approvers `load_evidence` sees only acceptances of its own commit
  (`workflow_artifacts.py:94`). Stages 0 and 4 accepted at one commit, stage 0 again at the next one: a job at the first
  commit (a workflow run started again, or a branch set back) deploys stage 5 on the first acceptance of stage 0.
  That two approvers answer for one commit is documented (`docs/customer-deployment-workflows-zh.md:518`);
  that an acceptance elsewhere then supersedes nothing is not. `BuiltOnAccepted` is about the acceptances that count.
- `runtime_secrets.py:112` says that secret versions that changed are not overwritten. The `set_secret` that
  follows (114) has no condition, and the lock that should keep a second operation away is a database session that
  is idle meanwhile (159-177) and may break. A key that another operation created and published in between gets a newer
  version with another value, and the receipt names that one. The workflow guide
  (`docs/customer-deployment-workflows-zh.md:327`) says that other administrators are not excluded, but relies on the
  lock for the operation itself. Imported keys are not affected: both operations write the same value. `KeysFitData`
  says nothing of generated keys once an operation on keys lost its lock.
- `runner_lifecycle.py:129` says that a registration is not given to a machine that changed, and `runner_arm.py:105` that a
  replaced machine is not deleted. The first comparison is made before `managed_command` looks for a command, reads the
  machine's location and sends it by name (`runner_arm.py:81-89`), the second before a `DELETE` by name
  (106): a machine of the runner's shape that took the name in between receives the registration and runs the job, or is
  deleted. `LeaseAccounted` says what holds nevertheless: it is not deleted while a job of the procedures runs on it.
- `docs/customer-deployment-workflows-zh.md:401` says that a key that was ready and is missing counts as revoked and is not
  created again. `proxy_credentials.py:89-91` does so if it is revoked after the subject was inspected. An
  issue that inspects the subject later refuses (`RevokedStaysRevoked`).

A window that is not a contradiction of any document: `runtime_config.py` reads
the customer file for the last time several `kubectl` calls before it renames the
new one over it. An edit in between, or an overlapping run that installs, is
overwritten; the overwritten text is kept as `previous-release.json`. For that
reason `CompletedAgrees` is checked and proved for runs one after another. With two slots and four starts it does
not hold: the second run patches between the first one's installation and its completion.

## Proofs

`AuditJournalProofs` proves for any set of requests, any `MaxActive` and
`MaxFrames`, any `Denials` and `Faults` (assumptions `LimitsAssumption`,
`OutcomeAssumption`):

- `TypeCorrect`: `Spec => []TypeOK`
- `SlotsCorrect`: `Spec => []SlotsExact`
- `PersistCorrect`: `Spec => []PersistBeforeForward`: no call of the model without a durable intent
  (`NoForwardWithoutIntent`), and nothing sent that is not durable (`FramesDurable`)
- `PhaseCorrect`: `Spec => []PutsInPhase`

None of the safety properties is inductive by itself: that a frame which reached the client is
durable follows only if an acknowledged put was the put of that frame. The
inductive invariant is

    IInv == TypeOK /\ (\A r \in Requests : Local(r)) /\ Counted

`Local(r)` says, for one request, that the put under way is the one its phase
calls for (`PutInPhase`), that every phase past `begin` has a durable intent and
body (`IntentDurable`), and that all frames sent are durable in order. `Counted`
says that finitely many requests hold a slot and that the counter is their
number. The argument goes by action: a step of one request leaves the `Local` of
every other untouched (`Undisturbed`), and either no request gains or loses a
slot or exactly one does (`StepSlot`), from which the counter follows by the
cardinality of a set with one element more or less (`StepCounted`).

`AuditLedgerProofs` proves that `AuditJournal` implements `AuditLedger`, under the same
assumptions: `LedgerImplemented`, `Spec => ImplementsLedger`. `LedgerInv` adds to `IInv` one
predicate per request, `Entry(r)`:

- the durable frames are the prefixes of one text (`OneText`, so that `Longest(r)` is that text);
- an object on the wire is the next frame, or an index over all of the text, and a
  frame is on the wire only while no index exists (`NextInLine`), whoever may still be waiting for it;
- there is one index, over all of the text, written by the outcome that `finish()` fixed (`SealedOnce`);
- unless a write failed or the process died, the writer's own frames are that text (`WriterKnows`);
- a response that can still be written to has the whole text, or all but the frame under way
  (`ClientFollows`).

With it, landing of a frame maps to `Write`, of an index to `Seal`, of intent and request to `Open`
(`LandMaps`), `FrameAck` of a stream to `Show`, `CommitDone` to `CleanEnd`, and every other step
leaves the ledger alone (`NextMaps`).

`AuditLifecycleProofs` proves the properties of `AuditLifecycle` for any set of requests, journals of
any length and any interleaving of writer, late uploads, recovery, retention, holds and windows:

- `RecoveryIsNeverBlocked`: `LifeSpec => []RecoveryNeverBlocked`
- `IndexIsTrue`: `LifeSpec => []IndexTellsTheTruth`
- `RetentionFindsAll`: `LifeSpec => []RetentionReachesAll`
- `HoldIsRespected`: `LifeSpec => HoldRespected`

`LifeInv` follows a request through three ages. While the writer, or an upload that it left, may
still touch it (`Active`), the predicates `Local` and `Entry` of the two modules above hold, and
what may still land is the blob that the journal lacks next (`Due`): a header before any frame, an end
over the whole text, a record that is the one recovery would rebuild, an index over a record that is there.
Until it expires its blobs are a whole journal (`Whole`): frames that are the prefixes of one text, a header,
an end and records that agree with them. This is what makes recovery's checks succeed
(`ChainIsValid`, `LastIsLongest`), and what a recovery Job puts, itself cut off anywhere,
keeps it (`RecoverLands`). Once it expired the writer's predicates are gone: retention takes the
frames from the first on, so that what is left is a piece of a line (`Line`), and `Cleared` says how far it has come;
the intent is left until the end. Three facts keep the actors apart (`Exclusive`): a paused
window has no writer and no retention Job, recovery puts only inside one, and a retention Job's copy of the
registry contains every hold. The last is why no hold is broken: blobs are
removed by retention alone (`OnlyRetentionRemoves`), and holds change only while it is off.

`ConfigPublishProofs` proves for any set of runs that overlap, any settings and
accounts and any number of starts, rollbacks and foreign edits, without any
assumption on the constants:

- `ApprovedCorrect`: `Spec => PatchAsApproved`
- `OnceCorrect`: `Spec => []ApprovalUsedOnce`
- `RecordCorrect`: `Spec => []RecordNeverDenies`
- `MountedCorrect`: `Spec => []MountedUsable`

and for runs that do not overlap

- `CompletionAgrees`: `(\A x, y \in Runs : x = y) /\ Spec => []CompletedAgrees`

The idea is `Based(p)`: the resourceVersion a plan is bound to is at most the live
one, and if it is the live one, mounted name and spec are those of the plan. The
patch tests only uid, version and mounted name, so that the rest of the spec is the reviewed one
rests on this invariant. Each step either leaves the Deployment alone or raises
its version (`Grow`), which keeps `Based` for every plan of every run
(`BasedGrows`, `OthersKept`); a patch raises it beyond its own plan's, so that the plan
can never be used again (`SpentOK`). The other parts of the inductive invariant
tie the record on disk and the ConfigMaps that exist to the position of each run
(`RunOK`) and the rollback patches to ConfigMaps that exist (`FilesOK`). `MountedUsable` says of the ConfigMap that is
mounted that it exists and that every account in it has its endpoint, record and role. Its second
half has an invariant of its own (`Reaches`): prerequisites are only added, so that an account that a run has
verified stays reachable, and each plan and rollback patch names accounts that were verified or are mounted
already. `CompletedAgrees` has one more (`Agree`): the two texts of a plan say the same, because the file it was made from
agreed with the cluster; the two sections of the file that runs write are the planned ones from the acceptance to
the installation, and from the verified rollout on Deployment and Pods stay, because a rollback waits until no run is active
and other parties edit other parts. Only here a run must be alone: a hypothesis, not an assumption on the constants.

`MigrationProofs` proves of the migration:

- `EvidenceHolds`: `GateSpec => []BuiltOnAccepted`, for any
  stages, sections, components and bounds (`GatesAssumption`). The invariant
  says where evidence comes from (`Rests`): each record of a ledger was born in an
  acceptance of its own stage that counts at the same commits, and every
  acceptance since that counts there was of a later stage. An acceptance keeps
  this because it starts from the newest ledger that counts, so that whatever lies between that ledger and the
  new one does not count; a deployment under way excludes acceptances (`JobRests`).
- `ReviewsHold` (`GateSpec => []DeploysWhatWasReviewed`) for the same; `DeploymentsHold` is both. The comparison sees what is deployed, and each
  deployment afterwards marks the other side (`DeploymentSeen`); `SidesInvariant` adds the shape of the two records.
- `ReleaseStaysBound` (`EdgeSpec => []ReleasedIsBound`) and `TrustIsKept`
  (`EdgeSpec => TrustKept`), for any finite set of planes. `EdgeInvariant`
  says that the documents of an apply job keep the trust its planning read, unless somebody else
  manages the plane since (in which case the server-side apply conflicts), that a
  binding job's planes trust nothing or its own profile, and that a release that passed its check
  still holds what it checked, unless the outside interfered.
- `WayBackIsKept` (`CutoverSpec => []WayBackKept`), for any planes and edits of the zone. `CutoverInvariant` adds what
  a change under way holds: the checkpoint it saves or has saved, and whether it writes that
  checkpoint's targets or its way back. A checkpoint is taken only while no record leads to a new endpoint, so
  that its way back is never one.
- `AccessReturns` (`EntrySpec => []AccessReversible`), for any clients, policies and edits. `EntryInvariant` relates the
  entry to the checkpoint, whose two values differ in the sources only, and to what the entry
  would be without the operation; an execution writes one of the two.
- `PodsServeMigrated` and `DataStayReadable` (`DatabaseSpec => []PodsServe`, `[]KeysFitData`) for any set of operators, any number
  of revisions and of failures. `SchemaKept`: whatever names a revision (a receipt, an operation before
  its receipt, the published application, a Pod) stands on a database with all its migrations, which only
  grow, and once Pods run no operation opens the history to the application's role again. `KeysKept`: in a
  migration Vault, data and operations know no salt but the legacy one, whoever writes it and under whichever lock
  (`ImportedKept`). Where keys are generated, as long as no operation on keys lost its lock, at most one operator sets keys,
  and the salt that it saw missing is still missing when it writes it (`GeneratedKept`). The condition is necessary:
  an operation whose session broke puts its salt over the one that another created and published.

`CredentialProofs` proves of credentials:

- `UsedKeysStay` (`CredentialSpec => []UsedKeysWork`) for any number of
  credentials, sessions and retained versions. The invariant adds that a credential is there between
  `addPassword` and `set_secret` (`NewWorks`), that every version stored in the Vault
  names one that is there, was taken by others or is out of date (`StoredWork`), and that receipt and
  proxies name stored ones (`PinnedStored`).
- `OnlyARacingIssueRestores` (`AccessSpec => RevokedStaysRevoked`) for any
  subjects and any number of events: of the keys that were ready when they were revoked only one that an issue under way had
  found in place comes back. Of keys that are revoked while pending it says nothing. The invariant: a revoked key is
  ready in the Vault and missing in the backend, and an issue at a ready subject without a key
  had seen that key in place.
- `AdmittedWork` (`AccessSpec => []AdmittedCanWork`) for the same. `Promises` keeps, for the receipts, the policy and the
  list of the issue under way, that a role once granted is there or was withdrawn and a key once ready is there or
  was revoked; it says so of every receipt, because a policy is made of receipts older than it.
- `LeftoversAreKnown` (`CertificateSpec => []LeftoversKnown`) for any number of orders, certificates and
  deaths. `CertificateInvariant` says, step by step, what is saved of the state that a run holds: the phase that
  announces a call before the call, what it answered before the next one.

`OperationsProofs` proves of the long operations:

- `SaltIsKept` and `NewTemplateIsFit` (`DeploymentSpec => []SaltKept`, `[]NewTemplateFits`) for any settings, runs, Salts and
  evictions. `DeploymentInvariant`: a version of the Secret tells what a run read from what is there, and from
  the step on that applies ConfigMap, Secret or Deployment these hold the run's settings; hence a
  Pod that starts under a template that was never there before reads them.
- `LeaseIsAccounted` (`RunnerSpec => []LeaseAccounted`) for any number of machines and leases. `LeaseInvariant` says what
  the checkpoint holds before each step of a lease and of a cleanup, that a registration exists only from the
  phase on that announces it, and that a cleanup goes on only when none is left.
- `RecoveryIsQuiesced`, `ForeignEditIsKept` and `CloseIsRestore` (`Spec => []RecoveryQuiesced`, `Spec => ForeignEditKept`,
  `Spec => CloseRestores`, of `AuditWindow`) for any number of windows, deaths and edits. `WindowInvariant` relates what a run has read to what is there
  while nobody else edits, the order in which a resume gives the two specs back, and the recovery Job to the runs.

`SidecarProofs` proves of the sidecar, for any finite set of records, any limits, turns and number of crashes:

- `ContentFirst` (`Spec => []IndexAfterContent`) and `RecordsKept` (`Spec => []NothingVanishes`) of `SpoolQueue`. The invariant:
  a file without content, live or in the synced directory, has its content in Blob storage, and so has the
  record that the tick has passed beyond the upload (`ContentStored`); what the tick is about to unlink
  is indexed or counted, and a quarantined file is counted (`LeavesAccounted`); the files of the
  tick's list stay until it reaches them (`TickPlace`); a record whose write returned, and the one just
  renamed, is kept (`AllKept`).
- `CountersAreExact` and `SpoolKeepsItsLimit` (`~SyncFails /\ Spec => []CountersExact`, `[]SpoolWithinLimit`). The
  hypothesis is necessary: with a failing directory sync the counters lose a record, which is what
  `spool_sync_failure` shows. The two properties speak of quiet states and of a node that never went down; the invariant
  says at every step by how much the counters differ from the directory: a renamed file is not counted until its
  write ends, and a queued record counts before it has a file (`CountersFollow`). It needs that a record is queued once and has
  no file before (`QueuedOnce`), that the tick's record is in the spool with the content the tick read
  (`TickHolds`), and that what was admitted fits beside what is queued (`RoomKept`).
- `BudgetIsExact` (`L3Spec => []BudgetExact`). Every step moves as many bytes into or out of captures and
  frames as it charges or gives back. The invariant adds that nothing is held for a turn that
  has not begun (`Unbegun`), so that a new capture overwrites none.
- `SerialTurnsKeepTheirAnswers` (`L3Spec => []SerialAnswers`). With one turn at a time (`OneTurn`) a turn that is held
  without a gap mark is either sent and waiting, or created and in the map of active ids under its own id, with nobody waiting
  (`InPlace`), as long as the server's side is parsed; an answer that the parser gave up has marked
  what was held (`GivenUp`). Hence the fallback to the only turn attributes correctly, and what it cannot attribute is
  marked.

The sums in these invariants are `SumFunctionOnSet` of the community modules, which is recursive. Its laws (the sum over
a set of an element more or less, of a function changed at one place) are proved without an induction
theorem: among the subsets for which a law failed there would be a smallest one (`SmallestSet`, from the
well-foundedness of strict inclusion on finite sets), and one unfolding of the definition contradicts it.

Only model-checked: liveness (`EveryCaptureEnds`, `RetentionCompletes`, `WindowCloses`, `NeverStuck`, `OnlyYoungerBlock`), because the
prover does not handle fairness and `ENABLED`. Every invariant and action property of a passing
run is a theorem. No module declares a recursive operator.

## Not modelled

- Content: redaction, encryption, token arithmetic, wording of errors.
- The admin plane, authentication and header rewriting of the gateway, and its policy
  decisions: functions of one request without shared state.
- Buffered audit delivery, the reader's access log, reviewer separation in
  `audit_governance.py`.
- In `ConfigPublish`: autoscaler and service-account evidence (part of "the rest
  of the spec"), fingerprints of the tools' own source, two plans of the same content
  written by two overlapping plan runs (the model identifies them, and so
  allows slightly more than the code).
- Two operations of the migration at once, where the guides and the concurrency
  group exclude it; in particular two binding or apply jobs that overlap.
- Parameters and templates of single components, image promotion, connectivity
  probes, consents of calling clients, and attributes of users and keys.
- The components with status `not_modelled` in `PROJECT.json`.

## Plan

Done: the audit path from request to deletion with its abstract ledger, the sidecar's capture
and spool, publication of configuration, and the migration's stateful operations.
What is left, in this order:

1. Activation of the L3 sidecar (`activation.ts`), which has the shape of
   `ConfigPublish` and needs Kubernetes and ARM objects with rollback.
2. Compare-and-set of the hold registry and reviewer separation (`audit_governance.py`).
3. The response-context store and the buffered writer.
4. Refresh of database tokens in the LiteLLM runtime.

Theorems to add: the invariants of those modules. Every safety property of the modules above is proved.
