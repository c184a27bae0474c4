# A TLA+ model of k8s_stack_tooling

The repository holds the commands that set up and operate a Kubernetes platform: an operations
image (`src/k8s_stack_tooling`) whose commands run as Jobs, init containers and Deployments, and
workstation tools (`cli_tools/`). Most of them share one difficulty. They change state that lives
somewhere else (in the API server, in OpenBao, in GlitchTip, in a file), in several requests,
while other actors change it too, and they may die or lose an answer between any two requests.
This directory models those protocols, model-checks them on small instances, and proves the most
important results for all instances.

Paths below are relative to the repository. `PROJECT.json` maps each definition to the lines it
models; every component, run, hazard and theorem is listed there.

## 1. The system and its parts

### Components, state and operations

| Component | State it works on | Operations | Hard because of |
| --- | --- | --- | --- |
| Reconciliation Lease (`api/kubernetes.py`) | a `Lease` object | acquire with a deadline, run one operation, release | two readers of one expired Lease, expiry during the operation, crash while holding, a lost answer to a PUT |
| Snapshot Jobs (`api/jobs.py`) | ConfigMap, Job, pods | verify reviewed inputs, create snapshot, create Job, hand over ownership, wait, read the summary | lost answers, writes applied late, reused names, snapshots deleted by hand, pods of an earlier Job |
| Inspection trust publication (`agentgateway_trust.py`) | the archive ConfigMap, a reviewed inventory, the Studio replicas | `stage`, `stage --initialize`, `promote` with a replica barrier | concurrent publishers with stale copies, replicas that come and go between the checks and the write |
| Gateway observation (`agentgateway_observe.py`) | the status ConfigMap; catalog, inventory, trust, replicas | sample each replica, publish | the samples are taken at different moments; overlapping runs |
| OpenSearch to GlitchTip adapter (`opensearch_glitchtip/`) | an SQLite outbox with cursors, policies | poll windows, commit, deliver with retries, reload the policy | crash between send and acknowledgement, late records, limits, policy changes |
| OpenBao bootstrap and custody (`openbao_stack_setup`: `main`, `recovery`, `custody`, `client`) | the seal file, custodian packages, OpenBao, generated passwords | `bootstrap`, `reconcile`, `recovery verify` | an initialization response that exists once, root tokens whose answer is lost, five steps from password to record |
| OpenBao reader access (`access.py`, `reconcile.py`) | ownership record, policies, roles | plan, remember, shrink, remove, grant, complete | interruption at any request, another selection in the next run |
| Runtime activation (`inference_runtime_manager`: `workflow`, `installer/`) | model links, containers, saved assignments, receipts | assign, toggle, configure, update; activate with rollback; confirm | failure in the middle of activation or of its rollback, Ctrl-C anywhere |
| Model downloader (`inference_runtime_manager`: `downloader/`, `installer/upload.py`, `worker.py`) | queue, store, inventory, the target's volume | download, guided download, verify, transfer | a removable drive that changes between check and transfer, transfers that are cut |
| Platform release (`platform_release`) | default branch, release PR, checks, signed tags, workflows, local clones | prepare, edit notes, publish, continue, Python tags | two operators, `main` that moves while one confirms, workflows that answer late, tags left behind by a dead run |
| OpenRouter sync (`openrouter_catalog_sync`) | the vendor's list; policy, catalog and prices | check, write, select; compute price tiers | a list that changes between pages, three files that must agree, cumulative overrides |
| Keycloak reconciliation (`keycloak/`, `api/keycloak*.py`) | realm, clients, roles, groups, federation | read-compare-write Jobs of Base and of add-ons | administrators and other Jobs in between, partial failure of a closing sequence |
| Keycloak users (`cli_tools/keycloak_users`) | one realm | onboard, add to groups, send the mail | writes whose answer is lost or that take effect later |
| Maintenance command (`cli_tools/maintenance`) | routes, the backend Deployment, a lock ConfigMap | `on`, `off`, `status` | deletion of a backend that a route still uses, stale locks |
| Credentials of add-ons (`openbao_stack_setup`: `declarative`, `native`) | OpenBao records; a private Pod and its policy | plan and apply writes; prepare a native credential | two operators, a run that dies between two writes, a Pod that comes late |
| Credential rollout (`api/kubernetes.py`) | an annotation of a workload's pod template | patch, look at the rollout | a status that is older than the workload |
| DocumentDB provisioning (`postgres/`) | PostgreSQL roles and grants, an advisory lock | lend privileges, create the user, take them back, verify | signals, lost answers and a kill between the two |
| Directory command (`cli_tools/ldap_directory`) | a Pod and its policy | create, read, clean up | a Pod that was given up, a worker that outlives kubectl |
| Add-on acquisition (`addons/acquisition.py`) | a cache directory per source | fetch, verify, publish | two callers of one directory, a crash while it is filled |
| Validation, catalogs, policies, reports, viewers | none of their own | pure functions, single requests | - |

`PROJECT.json` lists all thirty components; those that are modelled in part or not at all say why.

### Interactions

* *Application setup.* A chart starts a reconciliation command. It takes the Lease, reads the
  target service, writes what differs, patches the credential hash of the workloads and returns; a
  non-ready rollout makes the calling Job try again.
* *OpenBao.* `stack-setup bootstrap` initializes OpenBao, writes the custodian packages, and with a
  root token applies policies, roles and credentials; `reconcile` repeats the last part with a
  root token from two recovery shares. Inside that part `access.py` plans the add-on readers
  before `reconcile.py` rewrites the Base roles, and applies them afterwards. Running workloads
  read what OpenBao grants.
* *Trust.* Reviewers change an inventory; `stage` appends it to the archive; the chart makes Studio
  require a version and mount the archive; `promote` waits for all serving replicas to download
  every retained version before it moves `current`. `agentgateway-observe` reads `current` to
  verify the signers of the replicas it samples.
* *Logs.* The adapter polls OpenSearch, and GlitchTip receives its events.
* *Jobs.* Add-ons hand input to a Job through a snapshot that only this Job may read.
* *Keycloak.* Jobs of Base and of add-ons change one realm at the same time, most of them under
  the Lease (`upsert_realm_roles` is not), beside administrators and the operators who onboard users.
* *Workstation.* The command-line tools share no state with each other. A release moves through
  operators' clones, GitHub and its workflows; a model moves from a download to a drive and from
  there to the target, where activation makes it run.

### What must be true

* Lease: inside its term a holder is alone; nobody takes a Lease that has not expired; waiting ends.
* Snapshot Jobs: no Job runs on a foreign snapshot unless its own was deleted by hand, and what the
  caller is told bounds what exists.
* Trust: history is only appended to; `current` moves only to what every serving replica has.
* Observation: nothing is published that was not the case while the run looked; a newer
  observation is never replaced by an older one.
* Adapter: nothing timely is passed over; an occurrence is one event for ever; limits hold.
* Bootstrap: the recovery shares are never lost by the program; what a human saw is what holds; no
  root token is left behind; once the static seal is stored, a bootstrap with the same selection goes on
  from whatever was left.
* Access: every grant is remembered; obsolete grants go first; a completed run is exact.
* Runtime: what the operator is told was restored or confirmed is what the target runs.
* Store and acquisition: what is listed, transferred or given out is whole, or was once.
* Releases: what is staged or tagged was confirmed by its signer for that very commit, once; what
  is pushed is the reviewed text and nothing else.
* Keycloak: a guarded client or provider is never open with a grant that is not approved; what a
  Job reported stays although others run; what an operator was told about a write is true.
* Maintenance: nothing refers to a backend that is not there.
* Credentials: a key once stored stands, and its copies are copies of it; no private Pod is without
  its policy, and no directory worker runs unconfined; privileges that were lent are taken back or
  reported; "rolled out" means no old pod stands.

## 2. Modules

Each component has a module, a large one several; `<module>Proofs` holds theorems. The core components
have an `MC<module>` that gives the constants values. The others are checked together:
`MCWorkstation` holds the operator's tools and `MCCluster` the Jobs and commands on the cluster.
Components of one such module share no state, so a behaviour is one of a single component, chosen
by the initial state; they take turns in the same variables (`s1`, `s2`, ...), which
INSTANCE ... WITH gives the component's names. What a component with proofs is given is a CONSTANT
of the composing module and has its value in the .cfg, so that the proofs are about any of it. Requests are single steps, a command that is between two requests is a value of `pc`,
and a failure, a crash or a lost answer is possible wherever the code can meet one. A
`resourceVersion` (or uid) that a process holds is one bit, "nothing was written since my read";
this is exact, because the code only ever compares for equality with the current one. History
variables are only read by properties.

### ReconciliationLease

`lease` is the object in the API server; `seen`, `fresh`, `stamp` and `waitLeft` are the local
variables of `reconciliation_lock`. `Get`, `DecideTake`/`DecideRefuse`, `ReplaceAccepted`,
`ReplaceConflict`, `Retry`, `GiveUp` are `_try_acquire_lease` and the polling loop;
`FinishOperation`, `ReleaseRead`, `ReleaseAccepted`, `ReleaseFails` are `_release_lease`; `Crash`
and `NextRun` end and restart a process. Times are ages that `Tick` increments up to `MaxAge`, so
time itself is unbounded; a term of `MaxAge` or less is exact. The stamp is taken before the PUT, as
in the code. Clock skew between pods is not modelled: `renewTime` is compared with the clock of
the reader, and the result on exclusion holds for pods that agree on the time.

### SnapshotJob

`snapshot`, `job`, `status` and `pods` are the cluster; `late` holds writes that are applied after
their caller gave up; the Job controller starts, retries and finishes pods. `VerifyInput` and
`RejectInput` are `require_configmap_versions`; the three writes of `submit_snapshot_job` are one
`WriteAnswered`/`WriteUncertain` each; `PollActive`, `PollFinished`, `PollOther`, `WaitTimeout` are
`wait_for_job`; `ListPods`, `ReadLog`, `LogUnavailable` are `read_job_summary`. A caller submits once,
so its name stands for the uids it creates. The snapshot is an object of its own, and `DeleteSnapshot` may
take it away at any moment: before a Job owns it, before one was created, or under a Job. The code
cannot prevent what may follow: a Job whose creation is applied afterwards finds nothing under the name, or
the snapshot of another submission that reuses it. `removed` remembers such deletions, and the
properties exempt the submission concerned. The ownership patch, which names the uid, never adopts
a foreign snapshot, deleted or not. A reviewed input is changed only while somebody may
still compare it.

### TrustPublication

`archive` and `inventory` are the ConfigMaps, `floor` and `pod` the Studio Deployment and its
replicas. `DecideStage` and `DecidePromote` are what `publish` does with the two documents; the steps
from `deployment` to `recheck` are the barrier; the write is answered, conflicts, or stays without
answer. Around it reviewers change the inventory, roots expire, the archive is touched or lost,
and the chart moves Studio's required version. Assumed of the surroundings: the operator only
raises the required version, a mount never shrinks except by following the archive, and in the
gated scenarios Studio is ready only with its required version mounted. The last one is the
readiness probe of another repository; without it `PromotedIsServed` does not hold, and the
property says so. EndpointSlices that lag behind the pods, reused pod addresses and ReplicaSet
ownership are abstracted.

### OutboxAdapter

The worker is one process; `cursor` and `outbox` are the SQLite tables, `policy`/`saved` the policy in
force and the stored one, `lower`, `upper`, `target`, `segments` and `found` the window that is being
worked on. A transaction is one step. `Search` fails or finds what is searchable; too many records
split the window; `Enqueue` commits records and cursor together. `Deliver` is the request to GlitchTip,
after which the worker may die before `Acknowledge`. Records become searchable at any moment after
their time (`Index`). Time is counted in the smallest window that still splits.

### GatewayObserve

Two runs, replicas with a loaded policy, readiness and signer, Services, and the four documents.
A run reads the inventory, the previous status, the catalog, the members, the trust; then for each
replica readiness, config dump and signer; then members and trust again; and publishes with the
`resourceVersion` it read first. The list of EndpointSlices of one Service is atomic. A config dump is
the set of policy markers it shows, `{}` if a listener or route is missing or differs: the code
draws the same conclusion from all of these.

### OpenBaoBootstrap

The seal file (`seal`, with checkpoint, material, pending values), packages, OpenBao (`initialized`,
`attempt`, `roots`, `stored`), and up to two terminals. At most one of `bootstrap` and `reconcile` runs
at a time, as the README of the tool demands ("explicit stopped-process confirmation");
`recovery verify` may run at any time. The seal file is updated atomically (`update`) but first
written in place (`write_new`), so it may be torn. A step that took effect and then failed is the
step followed by `Fail` or `Crash`. Assumed: one ceremony per kit, packages stay where they
were written, the fingerprint of a selection identifies it, revoking a token that is gone is an
error. The non-root tokens are abstracted.

Not every leftover is taken up again. A seal file whose first write was torn is unreadable, and one
whose command died between `write_new` and `create_seal` (`main.py:330-332`) makes every later bootstrap
wait for an endpoint that nobody starts (`StuckUnsealed`). Both are from before OpenBao was
initialized, so that no share is at stake, and have to be cleared by hand. A root generation that a killed command left
active is refused until it is cancelled. A staged delivery is refused to a selection with other
definitions, which is what the README of the tool asks for. From the moment the static seal is
stored, a bootstrap with the same selection finds nothing else in the records to refuse (`LeftoversResume`).

### OpenBaoAccess

`owned` is the ownership record, `policies` and `attached` what OpenBao has. One action per request of
`plan_access`, `apply_access` and `complete_access`, with `ReconcileBase` in between. `Interrupt` may come
anywhere, and the next run has any selection. Policy identities are drawn and never reused by the
generator. Runs follow one another (same confirmation as above). Policies are evaluated at each
request, so what a policy grants is what every token with it can read.

### RuntimeActivation, ModelStore (`inference_runtime_manager`)

RuntimeActivation: `saved`, `option` and `receipts` are the operator's files, `stock` and `held` the downloaded and
the published bundles, `link` and `box` the target's model links and containers; `pc` and `job` are the
operation under way. The steps from `plan` to `record` are `provision` and `activate_with_rollback`, `undo...` its
rollback, `mark`, `remake`, `unmark`, `revert` the runtime update and the activation of a saved choice; `told` is
what the operator reads at the end. `job.ran` is an auxiliary record, which the code does not keep: what each service
had loaded when the operation looked at the target. One terminal: two of them that share a state directory are not
modelled. Also left out: the `ValueError` when more than one service of an alias runs, and Ctrl-C
inside the rollback itself, which leaves what `Killed` leaves.

ModelStore: `queue` and `inventory` are the downloader's files, `disk` the store (a directory holds the
published content or not; the drive may damage it at any moment), `target` the model volume. A
download replaces a damaged directory, a transfer checks what arrived before it takes its place.
The guided download and the queue are one list, as in the code, which overwrites the queue. Left out: the
message after the inventory was written fails (`downloader/main.py:228`), so that an installed selection
stays in the queue.

### ReleasePublication, ReleaseNotes, PythonRelease (`platform_release`)

Operators with a clone each, the default branch (linear, so a commit is a number), the release PR, checks,
tags and workflows. A signed tag object is the pair of signer and commit. ReleasePublication is `prepare`,
`publish` and `continue`: the tag is staged, checked by a workflow, made final and published;
`Revalidate` repeats the checks before anything is signed. PythonRelease is the same for the two
Python distributions, one of which locks the other. ReleaseNotes is one operator's session on the
notes: the worktree may be edited, and the branch pushed to or rewound, between any two steps.
Known and left as they are: two preparations may both be dispatched; a target that went stale
after signing leaves a local tag that later runs refuse until it is removed; the snapshot of the
notes is compared and then written, not atomically; a push whose answer is lost is staged, but its
workflow is not dispatched.

### ScopedClient, ActiveDirectory, KeycloakRealm

ScopedClient is `scoped_oidc` (a browser client) and `scoped_service` (a machine identity): the grant has parts,
each exactly as approved, less or more, and administrators change any of it between two requests.
The commands close the client, repair the grant, read everything again and open it. They differ:
`scoped_oidc` confirms the opening by reading the client alone and rotates the secret on each PUT;
`scoped_service` reads everything again, refuses another secret or owner, and does not read back
after its closing PUT.
ActiveDirectory is the federation provider: configurations are none, one legacy mapper, or a
mapper per target; the provider is closed while mappers are replaced.
KeycloakRealm has the Jobs of Base and add-ons with what each declares and owns. Assumed: every Job
declares what it owns and ownership is disjoint; without `owned_roles`, `upsert_composite_roles` replaces
all children of a role, also those of others.

### UserOnboarding, MaintenanceSwitch

UserOnboarding: a session, a confirmed plan, then independent writes, each once; `late` holds writes that take
effect after they were given up, and `report` is what `Progress` shows. A resumed account is compared by its
representation, of which memberships are no part (`CheckIdentity`); these are read apart, and the ones that an
administrator added in the meantime are skipped (`ReadMemberships`). Ctrl-C between two Python
statements after a write has returned is not modelled.
MaintenanceSwitch: two operators, the lock ConfigMap, which is never taken over, the backend, routes of
two products and in another namespace. A lock whose creation got no answer stays, and is removed
by hand. Other writers respect the lock; a command that takes effect after kubectl's timeout is
not modelled.

### CredentialWrites, NativePreparation

CredentialWrites is `plan_credentials` and `apply_credentials`: records read with their versions, fields resolved, whole-record
writes by dependency level under check-and-set. `writes` is the set of those left, each with its level and record, and the next is the
first of them in the order of the plan; `versions` is what `_check_versions` expects, as read or as the last write left it. Left out: constraints on values, the handover of
passwords (that is OpenBaoBootstrap), verifier slots, the validation of input groups. Two operators
who type different values for one supplied field can leave a copy of the first beside the second,
which the next run refuses; nothing is stated of such pairs, nor of copies of copies.
NativePreparation is the private Pod: deny policy and its verification, Pod, wait, second look, command, cleanup by
uid.

### OpenRouterSync, ModelPricing

OpenRouterSync is one run from the pages to the three files; ModelPricing is the computation of price tiers,
one step a round of its loops, against what the vendor asks for each prompt size. A price per request, of the base or of an
override, and a condition other than the prompt size refuse the model. The repository does not say whether
a prompt of exactly a threshold's size belongs to its tier ("contextOver" is the gateway's), so
`Sizes` has none of these. Overrides count in the order of the list, as the tests have it; the README
has them inherit by threshold (`Inherited`), which differs only where a lower one is listed after a higher one (section 5). A list that
changes between two pages with equal totals can miss a model, and a policy edited during a run is
overwritten: the code excludes neither, and the model has both.

### CredentialRollout

`workload`, `seen`, `pods` and `status` are the workload, what its controller has read of it, the pods and what the
controller wrote last; `Read` and `Patch` are `reconcile_workload`, `WorkloadReady` is `_workload_ready`. Jobs with different
annotations share the workload. A node of a DaemonSet has one pod at a time and the set of nodes
stays, because the status of a DaemonSet counts nodes.

### DatabaseProvisioning

`lock`, `elevated` and `identity` are the instance: the advisory lock, what `operations_admin` was lent, and who granted
a user its role. `job` is the container: the step of the child script, its trap (`Armed`, `Clean`), the
cancellation file, the pid file and the signal. A killed container's statement is done or dropped.
`ElevationEnds` allows for a child that was killed or whose revocation was refused: the preflight of the
next run is before its trap, so it repairs the first only if it gets past it. A run interrupted
between `createUser` and the regrant leaves an identity that every later run refuses. When the session
that holds the lock is lost, the child goes on: two products may then meet. `OneConsumer` counts the users that have
the membership: one that an interrupted Job left without it may stand beside another product's.

### DirectoryInspection

One run after another, each with its Pod, its policy and the worker that kubectl started in it. The cleanup deletes the
policy although the deletion of the Pod may have failed; the Pod is then reported. A Pod whose
creation got no answer may come after the cleanup, without a report; no worker runs in it. A run that
is killed, or cancelled again during the cleanup, reports nothing either, and `LeftoversNamed` exempts both
kinds: the tool's README (32-35) leaves what a sudden death leaves to the operator.

### SourceAcquisition

`remote` is what the tag names, `cache` the directory (of which revision each entry is), `caller` each caller's step.
Publishing creates the directory, which must not exist, and moves the entries one by one. A caller
that dies leaves a partial directory, which every later call refuses, by design.

## 3. Runs

A violation run checks one statement of the repository that the code does not keep (section 5).

| Run | Question | Instance and why it is enough |
| --- | --- | --- |
| `lease` | Is a holder alone inside its term, is the whole a lock with terms, does waiting end? | 2 processes, terms 2 and 1, waits 0 (skips at once) and 2 (fails at the deadline), ages up to 2. Conflicts need two writers; the terms differ so that one expires while the other is still waiting. |
| `lease_doc` | Does the operation run only while the Lease is held? | the same |
| `outbox` | Safety of the outbox under crashes and failures | 3 records, 2 scopes, 2 policies (one excludes a record), windows of 2, overlap 1, settle 1, one record per window, 2 pending. Windows split, the outbox fills, both scopes advance, the policy changes between queueing and delivery. |
| `outbox_live` | Is everything queued delivered, does a scope catch up? | 1 scope, one record per time unit, sink failures, 4 windows per cycle: the overlap and a catch-up need no more. |
| `outbox_dense` | The same with 2 windows per cycle and no fault | the overlap alone needs 2. |
| `trust` | Publication with concurrent writers | four scenarios: archive at its limit of 2 with 3 versions; expiry with 2 attempts; promotion next to a stager with 2 pods, gated or not. |
| `bootstrap` | Custody under faults | 2 terminals, one Base and one add-on password, 4 root tokens, 2 generated values, 3 faults. Three faults allow a lost answer, a crash and a failed retry. |
| `access` | Grants under interruptions | 2 roles (one of Base), 2 records, 4 policy identities, any number of runs and interruptions. |
| `access_doc` | Is a deleted policy never written again? | the same |
| `workstation` | Is what the operator's tools leave behind, and what they say, whole, earned and authorised? | see below |
| `cluster` | The same of the Jobs and commands on the cluster | see below |
| `openrouter_cancel` | Does a cancellation leave all files as they were? | 1 run; Ctrl-C also while files are put back. |

`workstation` has one behaviour per tool (2.9 million states):

| Module | Property | Instance |
| --- | --- | --- |
| RuntimeActivation | `RestoredMeansBefore`, `ReceiptsEarned` | 3 aliases, two of one group, one with two recipes; 2 options, 2 versions; 2 operations, from any saved recipes, all of them enabled, with any of the services running |
| ModelStore | `CopiesAreWhole` | 3 selections, one not in the catalog and one pinned; 2 revisions |
| SourceAcquisition | `CopiesAreWhole` | 2 callers, 3 calls, 2 revisions, 3 entries, 2 changes from outside |
| ReleasePublication | `ReleasesAreAuthorised` | 2 operators, 3 runs, 2 commits after the published one |
| PythonRelease | `ReleasesAreAuthorised` | the same, 2 distributions |
| ReleaseNotes | `PushedIsReviewed` | 4 commits, 4 edits, 2 texts |
| OpenRouterSync | `WholeOrUntouched` | 3 models (two of one alias, one custom), 2 pages, 1 edit |
| ModelPricing | `BilledAsListed` | 1 rate of 2 fields, prices below zero and on both sides of a rounding, with and without a price per request, 2 thresholds, 2 overrides, prompts below, between and above them |

`cluster` has one behaviour per component (4.1 million states):

| Module | Property | Instance |
| --- | --- | --- |
| SnapshotJob | `AnswersAreTrue` | 2 callers that use one name, 1 input, 2 attempts, 2 polls; deletion of Job, pod and snapshot at any moment, an orphan snapshot's too; late writes of both |
| GatewayObserve | `StatusIsWitnessed` | six scenarios: two of replicas that reload, fail and come and go; signers and trust with a proxy; inputs upgraded; two overlapping runs. Facts that no single check relates do not vary together. |
| ScopedClient | `FailsClosed` | both kinds, 2 runs, 2 changes by administrators |
| ActiveDirectory | `GrantsAreWhole` | 2 targets, 2 sources, 3 runs, 1 change: a retry after a failure of a retry |
| KeycloakRealm | `OwnedStand` | 5 Jobs, 8 objects, 2 runs in all, 1 change |
| UserOnboarding | `ReportIsTrue` | 2 groups, 2 sessions, 1 change |
| MaintenanceSwitch | `BackendStands` | 2 operators, 2 products, 2 images, 3 commands, 2 changes |
| NativePreparation, DirectoryInspection | `PodsAreConfined` | 2 runs each, so that one meets what the other left |
| CredentialWrites | `KeysStand` | 2 operators, 2 runs each, 2 records, 6 fields of every kind |
| DatabaseProvisioning | `InstanceIsGuarded` | 2 products, 3 runs |
| CredentialRollout | `ReadyMeansRolled` | 2 Jobs, 2 runs, 2 places for pods, 3 generations, one hash: a template has it or not |

`TypeOK` of these two runs is the conjunction of the types of all their components (`ClusterTypes` and
`WorkstationTypes` prove both). The types of the
Lease, the adapter and the reader grants are proved (section 4) and not checked again, and so are
`GrantsMoveInOrder` of the reader grants and `LastGoodPolicy` of the adapter.

Bounds that cut behaviour off: `MaxAge` (ages, not time), `Horizon` (the clock of the adapter),
`MaxTokens`, `MaxValues`, `MaxFaults`, `MaxAttempts`, `MaxWait`, the numbers of runs, operations, commits and edits
(`MaxRuns`, `MaxOps`, `LastCommit`, `MaxCommits`, `MaxEdits`, `MaxChanges`), `MaxPages`, and the finite sets. Deadlock is checked in
`lease` and `lease_doc`, whose processes start again; elsewhere commands end, and the check is off.
Symmetry is used for interchangeable model values, and only in runs without liveness properties.

### Fairness

* Lease: time passes; a process that is acquiring or releasing takes its next step. A process may
  stay in its operation for ever and may crash; neither is assumed away.
* Snapshot Jobs: none. The number of polls is bounded by `waitLeft`, which every poll lowers.
* Adapter: the worker runs (it is a Deployment's only loop, and each of its waits has a timeout), time
  passes, a backoff ends; and GlitchTip does not refuse one record for ever (strong fairness of
  `Deliver`), which is the assumption any retry rests on.
* `JobsEnd` of TrustPublication is stated without fairness: whatever a Job does lowers a lexicographic
  measure (attempts, step, replicas left), so that only a Job that does nothing does not end.

## 4. Proofs

Checked by the TLA+ proof system for all values of the constants that satisfy the assumptions
named in the modules.

**ReconciliationLeaseProofs** (`HolderAssumption`: pods have different names; `TimeAssumption`: terms are
positive and not above `MaxAge`). `TypeCorrect`, `LeaseHeldUntilExpiry`, `MutualExclusionWithinTerm`,
`LeaseImplementsTermLock`. `HeldUntilExpiry` is not inductive alone: a PUT may come long after the read that
justified it. The invariant adds `FreshIsCurrent` (a copy with the current resourceVersion is the
object) and `DecisionStands` (what was concluded from such a copy is still so when it is written; a
takeable Lease stays takeable as time passes). The refinement follows from it: each step of the protocol
takes, leaves or releases the abstract lock or does not touch it, and a release or a takeover is
allowed there because a lock inside its term is what `HeldUntilExpiry` protects.

**OutboxAdapterProofs** (`RecordAssumption`, `FiniteRecords`). `NeverPassesOver` rests on `WindowInv`: windows
end before the settled time (`WindowsSettled`), and what a committed window left unknown became
searchable after it was searched, so that its time is within the overlap (`LeftBehindIsLate`).
`ImmutablePayloads`, `DeliveredWasReceived` and `LastGoodPolicy` rest on `Books`: GlitchTip has nothing but what
the outbox holds or held. `OutboxBounded` rests on `Room`: from the check before a window to its commit
there is room for `MaxRecords` more, and no more than these were found. `DecisionsStand` is an action
property; `TypeCorrect` needs `WindowsSettled`, since the cursor is set to a window's end.

**OpenBaoAccessProofs** (`AccessAssumption`). `GrantsStayOwned`, `InterruptedRunsRetry`, `CompletedRunsAreExact`,
`ObsoleteGrantsGoFirst`, `TypeCorrect`. The difficulty is `CompleteAccess`: it forgets the previous ownership, which
is sound only because of what each step before it has done. The invariant therefore says what is
true at every step of a run: identities belong to one role each, the record is the previous one
and then the union, nothing is granted that was not before until policies are written, and how far
the loops over Base roles, obsolete paths, obsolete roles and new readers have come.

**TrustPublicationProofs** (`PublisherAssumption`, of which the readiness of gated scenarios is no part: it
is in the action that makes a replica ready). `ArchiveIsValid` needs `ReadsAreValid` and `CandidateRead`: what
a Job writes is computed from what it read. `HistoryIsKept` rests on `FreshIsCurrent`: a write is accepted
only if the copy it was computed from is still the archive, so that appending to the copy is appending to the
archive. `PromotionIsServed` is the long one: between the replica list and the write, replicas come and go. Its
invariant says who of the members was born when (`MembersWereBorn`), that the floor does not sink while one
waits (`FloorHeld`), that a download that was seen stands (`DownloadsStand`), and that whoever is ready has what
Studio requires (`ServedWhenReady`). `EveryJobEnds` needs no fairness: each step of a Job lowers a
lexicographic measure, and nothing that others do raises it.

**OpenBaoBootstrapProofs** (`BootstrapAssumption`; `AbsenceAssumption`: the marks for "no kit", "torn" and "no
command" are no kits, commands or reasons). `RecordsAreValid`, `BootstrapResumes`, `PasswordsStand`, `RootsAreGone`.
None of the three properties is inductive, because each speaks of the files after a crash, which may come
after any step: the invariant says what a terminal at each step can rely on (`StepsFollow`), in which order the
file, the static seal, OpenBao and the packages come about (`SealFirst`), that who prepares credentials is alone
(`PreparersAlone`), what is pending, shown, acknowledged and stored of each password (`PendingStands`,
`ShownStands`), and which root tokens the listing can have missed (`TokensListed`). From it follows what a bootstrap
can find whatever ended before it (`LeftoversAre`).

**ClusterProofs** (the assumption of each component, all of the kind "absent values are no values, bounds are
numbers": `JobAssumption`, `SwitchAssumption`, `DatabaseAssumption`, `NativeAssumption`, `InspectionAssumption`,
`RolloutAssumption`, whose places for pods are finite so that the controller can count them, and
`ObserveAssumption`) and **IdentityProofs** (`DirectoryAssumption`: "legacy" is no
target; `OnboardingAssumption`: the stages of a report are no groups; `RealmAssumption`: a link has one owner,
and no link of a client or a user is owned, because there Jobs only add;
`ScopedAssumption`; `CredentialAssumption`: the fields are finitely many and their references are not cyclic, which
`_field_levels` refuses). They are about the components of `MCCluster`, and `ClusterTypes`, in the second of the two, is about all of
them. The inductive invariant of each is the `IInv`
of its module; the modules' theorems `ClusterInvariant` and `IdentityInvariant` say that they hold side by side,
which is possible because a behaviour is one of a single component. Why the property alone is not enough:

| Theorem | The inductive invariant adds |
| --- | --- |
| `SnapshotAnswers` | of which submission every Job, pod, answer and write on its way is (`JobsBelong`, `LateWritesBelong`, `ResultsBelong`): a late write carries its owner, so a Job that is created late reads its own snapshot unless that was deleted (`removed`) |
| `MaintenanceBackend` | the operator that has got past the lock is its holder (`WorkersHold`) and what it has established at its step (`StepsStand`): the last reference goes before the backend, and nobody else adds one |
| `ProvisioningGuards` | what was lent is known to a container that will take it back or is counted (`LentIsTaken`), only the holder of the lock works (`HolderKnows`, unless its session was lost), and a signal that was sent arrives (`SignalArrives`) |
| `TemporaryPods` | the policy is there before the Pod is asked for (`PolicyFirst`), a Pod that comes late belongs to a run that asked for it (`PodsKnown`, `PodsToCome`), what a run knows at its step (`StepsKnow`) and that nothing is of a run still to come (`NothingAhead`) |
| `RolloutAnswers` | generations order what was read (`GenerationsTell`); the counts in a status bound the pods of each template as long as it speaks of the present one (`CountsStand`); a node has one pod (`NodesStand`). The bounds are inequalities of cardinalities; the theorems on finite sets carry them. |
| `StatusesWitnessed` | for a run at each of its steps, that copies which are current are the objects (`ReadsStand`), that the history has what is the case while it samples (`Watched`), what each sample showed (`Samples`), what a conclusion claims (`Claims`), and who published before it started (`StatusEarlier`) |
| `DirectoryGrants` | a run without a transition touches the legacy mapper only, one with a transition works on a closed provider (`Gated`); how far the mappers are as declared (`Caught`) |
| `OnboardingReports` | that nothing was written before account and memberships were read (`NothingYet`); what is known of every write at every step of a session (`Underway`, `Answered`), so that it may end at any of them; a write on its way is of a session that has begun (`NoneAhead`) |
| `RealmLinks` | how far a Job is with each of its links (`HoldersDone`, `HolderUnderway`): what it saw of a holder stands until it has handled it, since nobody else owns the link |
| `ClientFailsClosed` | what a run knows of each part of the grant (`ReadsTell`) and that the client is closed from the first change on |
| `StoredKeysStand` | what a run has read of a key stands, and is all there is as long as the version does (`ReadsStand`); each write left of a plan names the version that the ones before it of its record lead to (`Chained`), so that it is accepted only if nobody else wrote; all of them have the stored key (`KeysAgree`), and a copy is of the key beside it, of the stored one or of one that is written first (`CopiesFollow`) |

What a field comes to, and its level, are computed along the references of the catalog. `CredentialRecursion` shows that such
a function exists: of the sets of fields that are closed under references and on which it does, the largest is all of them, because the
rest would have a field whose source is not in it. The equations that the definitions state are all the proof needs.

**WorkstationProofs** (`RuntimeAssumption`, whose aliases are finitely many, `AcquisitionAssumption`,
`StoreAssumption` and `SyncAssumption`, whose models are finitely many, `NotesAssumption`, `PythonAssumption`,
`ReleaseAssumption`, `PricingAssumption`) is about the tools of `MCWorkstation` in the
same way; `WorkstationInvariant` says that their invariants hold side by side, `WorkstationTypes` that the types do.

| Theorem | The inductive invariant adds |
| --- | --- |
| `WholeCopies` | of the store, that a download works on the inventory it read, that what leaves the queue is still to be done, failed or installed (`Downloading`), and that what is sent is of the revision of the listing (`Uploading`); of the sources, that one caller at a time fills the directory (`OneFills`) and how far it is (`Filling`) |
| `AuthorisedReleases` | what a run has established by each step: the merged commit is checked out, the checks passed for it, it was approved, the local tag is of it (`Established`); and which of this an interrupted or another operator's run cannot take back (`Checked`, `Verified`) |
| `ReviewedNotes` | that the commit to be pushed has the accepted text from the moment it is made or found (`Reviewed`), whoever made it, and that parents precede their commits (`Logged`) |
| `RestoredServices`, `EarnedReceipts` | an alias runs one service at most, and a healthy one has its own model (`OneService`); at each step of an activation and of its rollback, whether the link is the one to go back to and that nothing runs but the new recipe and what was seen before, on what it had loaded then (`Serving`, `Leftover`); aliases whose turn is still to come are as they were seen (`Untouched`); what a runtime update is going to confirm still runs (`Confirming`) |
| `BilledSchedules` | that the overrides taken come to what those read so far ask for (`Reading`) and that none of these had to be refused (`Expressible`), and that each tier is right for its own threshold, the lower ones first (`Building`) |
| `WholeCatalogs` | which of the three files is old, new or copied after each replacement and each undoing (`Replacing`, `Undoing`) |

`BilledSchedules` is about a fold over a list. What it yields is stated in closed form (`Laid`: for each field the price of
the last override that reaches down to the size), and the loop is shown to compute that: both satisfy the equation of the
fold, and if they differed for some prefix of the list, there would be a shortest one, which the equation excludes.
That a set of naturals has a least element is cited from the theorems on well-founded relations, where
an induction theorem with an operator parameter could not be. `Sizes`, the prompt sizes that are billed, may be all of `Nat`
but the thresholds.

**What the proofs changed in the model.** They found no property that fails, but several places where the model
said it badly. Two arms of a CASE overlapped (`NextAction` of ReleasePublication and the reasons of
OpenBaoBootstrap); they are disjoint now. `touched` of KeycloakRealm was one set for all Jobs, so that an administrator's
change that one Job had repaired excused another; it is per Job. First versions of
`PodsKnown`, `StepsKnow`, `NothingAhead`, `AtHolder` and of ScopedClient's invariant (which spoke of one of the two
kinds of client only) were not preserved by every step and were strengthened. The types
of the documents that GatewayObserve publishes did not exclude the mark for "no document".

One property was false beyond the bound of its run. `RestoredMeansBefore` said that the restored services have the model
that the link named before. With three operations they need not: one leaves a container that runs without health; the
next is closed between the change of the link and the start, so that the link names a version which that container has
not loaded; the third fails, puts this link back and runs `compose up --wait`, which leaves a running container as it
is. The service that ran before does run again, as the message says, on the model it had all along. The property now
allows for this, with `job.ran` to say what a service had loaded, and `Resumed` asks for the service's own model as the health check does. The run still
has two operations; the theorem is about any number.

Each inductive invariant was checked by TLC as an invariant of its component before it was proved. Only
model-checked:

* the liveness properties (`AcquisitionEnds`, `EventuallyDelivered`, `CatchesUp`): liveness under fairness, and
  ENABLED, are outside what the proof system handles.

## 5. Disagreements between the code and what it says

* `lease_doc`: "Run an operation only while holding its configured reconciliation Lease"
  (`api/kubernetes.py:230`). The Lease is stamped once and not renewed; an operation longer than its
  term overlaps with the next holder.
* `outbox_dense`: "Bounded catch-up; subsequent cycles move forward from committed progress"
  (`opensearch_glitchtip/main.py:80`). A cycle starts again at the cursor minus the overlap and commits
  at most 512 windows. Once the overlap alone needs that many (permitted: 86400 seconds of
  overlap, with more than 1000 records in five minutes), no cycle moves the cursor.
* `access_doc`: a policy identity is "never recycled" (`access.py:32`). A deselection interrupted after the
  policy was deleted leaves the role in the ownership record; selecting the reader again then writes
  the deleted policy under its old name, and tokens issued before read again.

* `openrouter_cancel`: "Ctrl-C or terminal cancellation leaves all three files unchanged"
  (`openrouter_catalog_sync/README.md:81`). The sentence holds at the selection prompt. A second Ctrl-C while
  replaced files are put back leaves some replaced and removes the copies; one in the `finally` clause
  of a finished write is reported as cancelled with all files replaced.

Two smaller ones, without a run. The README of the runtime manager (41-42) says that a failed immediate
application restores the previous saved settings, while `workflow.py` (about 1034) keeps the new ones and
marks them pending. The README of the OpenRouter sync (129-131) says that "each tier inherits the base and
lower-threshold changes, while same-threshold overrides apply in source order"; the code (`sync.py:787`) applies
all overrides up to a threshold in the order of the list, as `tests/test_sync.py:567` pins, so that a lower
threshold listed after a higher one replaces the higher tier's own price. `BilledAsListed` states what the code
does, and that it is what the README says wherever the thresholds do not decrease along the list.

Found while reading, without a statement to check against: a crash at the first start of the adapter
between two SQLite calls leaves a database file that every later start refuses (`state.py:89`); a crash
between the seal file and the static-seal Secret leaves a bootstrap that waits for an endpoint
nobody starts (`main.py:330`, modelled; by `LeftoversResume` the only such point besides a torn first write); Base reconciliation detaches the add-on
policies of its roles for a moment (`reconcile.py:110`, modelled, without property); two runs that overlap
against the operator's confirmation can overwrite each other's ownership record (`access.py:195`, runs
follow one another in the model).

## 6. Not modelled, and the plan

Left out of the modelled components: certificate, PEM and digest checks, byte limits, formats and
wording, the reading of environment variables, the HTTP transport. Not modelled at all: see the
`not_modelled` components and their notes. Pure validation, catalogs, reports and viewers have no
state that outlives a call; their unit tests are the better tool.

What a proof or a larger model would add, in order:

1. Refinements beside `TermLock`: an append-only log with a pointer, implemented by TrustPublication; a
   once-only event store, implemented by the adapter.
2. Compositions: TrustPublication with GatewayObserve (the signer check reads `current`), OpenBaoBootstrap with
   OpenBaoAccess (a reconciliation that fails in the middle of the grants), the Lease around the Jobs of
   KeycloakRealm (each Job's reads and writes are separate steps there, as if the term ran out).
3. Two terminals of the runtime manager with one state directory; writes that kubectl gave up and
   that take effect later in MaintenanceSwitch.
