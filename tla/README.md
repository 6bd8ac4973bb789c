# Kubeforce in TLA+

Kubeforce provisions Kubernetes nodes on bare machines. It has two programs:

* the **agent** (`src/agent`) runs on every host. It embeds an API server and
  etcd, and two controllers that execute ansible: `Playbook` (run one playbook,
  retry it, give a verdict) and `PlaybookDeployment` (keep running the Playbook
  of the current template);
* the **provider** (`src/cluster-api-provider-kubeforce`) runs in the management
  cluster. Its controllers reserve an agent for every machine, install the
  agents, watch their health and drive their Playbooks.

Everything is written as reconcilers: a controller reads objects from an
informer's copy, which may be outdated, decides, and writes with separate API
calls, any of which may fail or be the last one before a crash. That is where
the program is hard to test, and what these modules are about.

## 1. Inventory

### Agent

| Component | State | Operations | Interacts with | Hard behaviours | What makes it correct |
|---|---|---|---|---|---|
| Playbook controller `controllers/playbook.go` | object (phase, `Failed` counter, conditions, finalizer), directory of the playbook, ansible process, retry timers | Reconcile (finalizer, limit, backoff, prepare, run), reconcileDelete, deferred status patch | API server and informer; the PlaybookDeployment controller and the provider read its verdict | crash after a run, lost patch, outdated copy, timeout, deletion during a run | attempts counted exactly; the verdict stands; the directory goes before the object; every Playbook gets a verdict |
| PlaybookDeployment controller `controllers/playbookdeployment.go` | object (template, paused, phase), owned Playbooks | Reconcile (pause, report, create), reconcileDelete | creates and deletes Playbooks, is woken by their events | template changes while a Playbook runs, creation timestamps in seconds, partial deletion | one Playbook at a time, one per template change, true phase, no orphans |
| ansible helper `ansible/` | packages on the host | EnsureAnsible | called by the Playbook controller | fails halfway | a step that succeeds or fails |
| API strategies, validation, defaults `registry/`, `apis/agent` | none | create, update, status update | every write of the two controllers | which fields a write keeps | status and spec are written separately |
| runnable manager `manager/manager.go` | two groups of runnables, two contexts, error channel | Start, stop sequence | API server, etcd, controllers; systemd restarts the process | error during start, shutdown order, grace period | main runnables outlive the others; the process runs or ends |
| API server, etcd, uploads `apiserver/` | etcd, uploaded files, loaded keys | serve, upload, reload, uninstall | everything | key and certificate written by two uploads, restart between them | part of the life of an agent's keys |
| installation and commands `install/`, `cmd/` | files, unit and data on the host | init, uninstall (by command and by request) | systemd, the provider over SSH | any step fails and the whole is repeated, beside a daemon that is restarted; a stop that is not waited for | an installation converges; an uninstallation that has succeeded leaves no file and no unit |
| log, sysinfo endpoints; conditions, checksum; generated code | - | read-only or one pass | | | |

### Provider

| Component | State | Operations | Interacts with | Hard behaviours | What makes it correct |
|---|---|---|---|---|---|
| KubeforceMachine controller | AgentRef, conditions, finalizer; the label on the agent | claim, adopt, use, install pipeline, clean-up, release | KubeforceAgents (optimistic updates), Playbooks, Machine and Cluster | concurrent claims, two non-atomic writes, lost patches, agents deleted or unhealthy | no host shared by two machines, no lost claim, machines find agents and go away |
| KubeforceAgent controller | spec (installed, addresses, certificates), Healthy and Ready conditions, finalizer | health, TLS, installation, deletion of its machine and itself | prober, machine controller, cert-manager secrets | two writers of Healthy, certificate, key and secret in three calls | condition tells the truth; rotation locks the provider out in no other than the stated ways |
| prober and probe handler `controllers/prober`, `agent_probe_handler.go` | map of workers, cached results, bounded channel | EnsureProbe, RemoveProbe, doProbe, Set, updateStatus | KubeforceAgent controller, agent API | stopping worker found by EnsureProbe, blocking send, lock around UpdateStatus, lost updates | thresholds count consecutive results; no worker leaked or missing; health converges |
| Playbook, PlaybookDeployment controllers | object and counterpart on the agent (ExternalName, ExternalPhase, checksum) | create, update, delete the counterpart | agent API, KubeforceAgents | crash before ExternalName is stored, generations, unhealthy agent at deletion | counterpart unique, not leaked, phase of the current spec |
| template reconciler `controllers/playbook` | Playbooks by role | create or update by priority | machine and agent controllers | outdated list | one Playbook per role; each after those of higher priority have succeeded |
| KubeforceAgentGroup controller | agents of a group | create, update, count, delete | KubeforceAgents, garbage collector | outdated list of agents | the group has its agents, counts them right and goes after them |
| KubeforceCluster controller | endpoint, API servers, load balancer, kubeconfig | reconcile, pause, delete | Cluster, machines | endpoint changed by several calls | the load balancer has the control plane's API servers; the cluster goes after its machines and their Playbooks |
| HTTPRepository and file storage `pkg/repository` | files, temporary files, keyed mutex | getFile, remove | agent installation | crash during a download, removal during a download | a complete file or none |
| agent client cache `controllers/agent` | clients and caches by agent | get, rebuild, delete | prober, Playbook controllers | one lock for all agents, keys that were rotated | a client with current keys |
| start-up `main.go`, `initializer.go` | default repository and templates | init under leader election | webhooks, machines | leader lost halfway, two builds | everything there, of one build, in order |
| webhook of the KubeforceMachine | the references of a machine | Default, validate | template reconciler | | the roles the pipeline needs are there |
| other webhooks, cloud-init, ansible rendering, tools | - | one object, one pass | | | |

## 2. Modules

| Module | What it is |
|---|---|
| `Informer` | one API object as a controller sees it: stored version, informer's copy, undelivered watch events. External (controller-runtime, client-go), written from what the reconcilers assume of it |
| `PlaybookLifecycle` | abstract specification: what a Playbook promises its clients |
| `AgentPlaybook` | the agent's Playbook controller on one Playbook; implements `PlaybookLifecycle` |
| `AgentPlaybookDeployment` | the agent's PlaybookDeployment controller and its Playbooks, used as `PlaybookLifecycle` promises |
| `MachineAgentClaim` | machines that claim, use and release agents, and agents that are deleted |
| `MCMachineAgentClaim` | `MachineAgentClaim` with the symmetry of its safety run |
| `AgentProbe` | prober, probe handler and the health part of the KubeforceAgent controller |
| `Reconciler` | what the provider's other controllers share: one object, its key in the queue, the patch helper of Cluster API in up to three calls; extends `Informer` |
| `ProviderPlaybook`, `ProviderPlaybookDeployment` | the provider's controllers that mirror their objects to an agent |
| `TemplateReferences` | the templates of a machine, as the webhook stores them |
| `MachinePipeline` | a machine from its agent to a node and back: template reconciler, boot Playbook, provider ID, clean-up, deletion |
| `KubeforceCluster` | the controller of the KubeforceCluster with load balancer, Cluster and kubeconfig |
| `AgentKeys` | the KubeforceAgent controller: certificates, installation, rotation, deletion, and the keys in the client cache |
| `AgentGroup` | the KubeforceAgentGroup controller |
| `AgentInstall` | `agent init` and the two ways to uninstall, step by step, on one host |
| `AgentDaemon` | the agent's process: runnable manager, etcd, API server, controllers, systemd |
| `FileRepository` | the files of an HTTPRepository and the controller that should remove them |
| `Initializer` | the start of the provider and its default resources |
| `MCMachineProgress` | `MachineAgentClaim` under fairness, in two settings |
| `MCProviderControllers` | `ProviderPlaybook`, `ProviderPlaybookDeployment`, `MachinePipeline`, `KubeforceCluster` for TLC |
| `MCAgents` | `AgentKeys`, `AgentGroup`, `AgentInstall`, `AgentDaemon`, `FileRepository`, `Initializer` for TLC |
| `*_proofs` | theorems and proofs about the module of that name; `AgentKeys_proofs` is about `AgentKeys` as `MCAgents` instantiates it |

`PROJECT.json` maps every definition to its source lines.

### How the modules correspond to the code

**Objects.** An object is a record of the fields the control flow reads. It lives
in `[stored, cached, events]`: a write goes to `stored` and appends an event, `Get`
and `List` read `cached`, `Deliver` moves the oldest event there and adds the key
to the queue. A write that changes nothing makes no version. `MaxLag` bounds how
far the copy may be behind; with 0 a controller reads its own writes. A merge
patch is applied to what is stored and carries only the fields that differ from
the copy it was computed from; an optimistic `Update` is accepted only if the
copy is current.

**A reconcile** is cut where another actor can get in between: at every API call
and at the start and end of an external process. `Begin` takes the key and reads the
copy; the branches of `Reconcile` are one action each, guarded by the conditions
and early returns on the way to them, and leave in `worker` (`work`, `rec`) the
copy read and the object to be patched. The deferred patch is the last step and
has its failures: not applied, applied with the answer lost, object gone. An error
or `RequeueAfter` brings the key back; a plain `ctrl.Result{}` does not.

* `AgentPlaybook`: `ReconcileDelete .. ReconcileRun` are the branches of
  `PlaybookReconciler.Reconcile`; `EnsureAnsible*` and `Run*` the outcomes of the two
  long calls; `RemoveDir*` and `Patch*` the rest. `age` counts units of
  `DefaultJobBackOff` since the creation of the object, because the code measures the
  delay from there. The directory is `absent`, `present` or, after a failed and only
  logged `RemoveAll`, `abandoned`.
* `AgentPlaybookDeployment`: a Playbook is a record with a verdict; its name is the
  number of its creation. `now` counts seconds, so that two Playbooks may carry the
  same timestamp; the list of an informer has no order, so `Last` is a set.
* `MachineAgentClaim`: `ReconcileClaim` writes the label (optimistic) and leaves
  AgentRef to the patch; `ReconcileAdopt` is the branch for a claim found by its
  label; `ReconcileForget .. ReconcileReleaseConflict` are the branches of
  `reconcileDelete`. What the machine runs on its agent is one fact (`playbooks`), its
  clean-up another (`cleaned`); healthy and ready are one flag. `CleanerBlocked` is the
  wait of `reconcileCleaner`: the agent is not healthy, and the deletion is less than a
  minute old (`aged`) or nobody has deleted the agent. `parked` notes that the last
  reconcile ended there, `lost` that the AgentRef of a claim was not stored. The agent's
  own deletion is `AgentDeletesMachine`, `AgentUninstall`, `AgentFinalized`.
* `AgentProbe`: the worker is `probe -> (send) -> wait -> ... -> exit`; `Locked` is the
  read lock that `updateStatus` holds during the API calls and that `EnsureProbe` and
  `removeWorker` have to wait for. `resultRun` is counted up to the larger threshold.
  The deferred patch of the KubeforceAgent controller is two calls, as in
  cluster-api's patch helper: conditions, then the object.

The provider's other controllers are written over `Reconciler`. One action is one
pass through `Reconcile` up to the deferred patch, since none of them shares its
objects with a second worker; what lies between is kept where it can be seen: a
branch that creates, uploads or deletes has a twin in which a later call fails.
`EndWith` leaves the object to be patched in `work`; `PatchApplied` sends all calls
of the patch helper, `PatchFails` any part of them. `Restart` forgets the queue and
the work and reads everything anew.

* `ProviderPlaybook`, `ProviderPlaybookDeployment`: `counterparts` are the objects on the
  agent, which runs them to a verdict as `PlaybookLifecycle` says. Names are numbers;
  the label by which `findExternal...` looks is the same for all of them. A
  deployment's `sum` is `LastSpecChecksum`, its counterpart's `seen` the template that
  the agent's controller has taken up: generations never change on the agent.
* `MachinePipeline`: `References` is what the webhook makes of the user's (`Defaulted`); a
  role has at most two objects, and `done` notes that one has succeeded. `given` is what
  Cluster API provides. Every branch of `reconcileNormal` and `reconcileDelete` after the
  claim is an action, and so is what `reconcileAgentRef` does about an AgentRef that is
  set: `ReconcileAgentWaits` asks again after ten seconds while the agent is not ready, and
  a failed `Get` or another machine's label is one of `ReconcileFails`. Pausing and the
  look-up of the Cluster are left out here; `KubeforceCluster` and the two mirrors have
  pausing. The clean-up that waits without a
  requeue sets `parked`, any other reconcile takes it back.
* `KubeforceCluster`: `lb` is what the load balancer was told, `cluster` the endpoint in
  the Cluster and in its kubeconfig. The deferred patch stores the new endpoint also when a
  later call has failed (`ReconcileEndpointFails`). `Descendants` are the machines, the
  Playbooks and the PlaybookDeployments; of the last two, which are not watched, the model
  keeps whether the list has any. `torn` notes the kubeconfig that was left.
* `AgentKeys`: a key pair is a number, its CA a part of it. `issued` is cert-manager's,
  `active` the provider's secrets, `host` the files and what the daemon has loaded,
  `holder` the client cache. `unlucky` has the pairs with which the host may be lost until
  their next rotation (see "hazards"). `MachineGoes` takes the agent's label off or, for a
  machine whose AgentRef was never stored, leaves it.
* `AgentInstall`: `op` is the running command or request and its place among its steps. Each
  may fail; the provider starts the whole again, nobody repeats a command. At the last step
  of an uninstallation a job to stop the unit is queued, and the unit is `stopping` until
  `SystemdStops`: the request has succeeded by then (`wait` is false), the command waits.
  `DaemonWrites` puts data back as long as there is a daemon. `health` is what the probe has
  told the provider, which forgets a deleted agent that is not healthy (`Forget`).
* `AgentDaemon`: a place in `Manager.Start` and the state of every runnable; `armed` says
  that the goroutine which cancels the main context exists.
* `FileRepository`: two workers ask for the same file; `disk` has the file and its `.tmp`.
* `Initializer`: `next` is the leader's place in `Order`; two replicas of two builds. An edit
  that the informer's copy does not show yet is overlooked.

**Observers** (`starts`, `failures`, `stale`, `faults`, `repeats`, `parked`, ...)
record what happened for the properties; no action of the controllers reads them
except to stop at a bound.

## 3. What the runs check

| Run | Instance | Result |
|---|---|---|
| `agent_playbook` | 2 attempts, lag 2, 2 faults, 2 outdated reads, clock 0..2 | passes |
| `agent_playbook_timeout` | no faults, no lag | `SucceededMeansExitZero` is violated |
| `agent_playbook_restart` | lag 1, one outdated read | `SucceededIsNotRestarted` is violated |
| `agent_playbook_deployment` | 2 templates, up to 3 Playbooks, lag 1, one spec change, one fault, one outdated read or tie | passes |
| `agent_pd_delete` | no faults, current copies | `WaitsForPlaybooks` is violated |
| `machine_claim` | 2 machines, 2 agents, lag 1, three troubles (restart, lost patch, outdated read, agent deleted or unhealthy) | passes |
| `machine_claim_progress` | 2 machines, 2 agents, one trouble; and 1 machine, 2 agents, three troubles; under fairness | passes |
| `machine_claim_release` | 2 machines, 1 agent | `LabelNamesUser` is violated |
| `agent_probe` | thresholds 2 and 2, channel of 1, one change of reachability, one restart, failed call or re-creation | passes |
| `provider_controllers` | lag 1; Playbook and cluster with two troubles (failed call, partial patch, outdated read, restart, outage, change), deployment and machine with one; one control plane machine | passes |
| `provider_agents` | keys with two troubles and two renewals, the other parts with one (three events for files, installation and start); two agents in a group, two workers, two replicas | passes |
| `http_repository_cache` | the same storage, without crashes needed | `CachesRemoved` is violated |

**Playbook.** `FailedOnlyAfterLimit`, `FailedWithinLimit` and `StartsBounded` say that
attempts are counted exactly: never given up early, never counted past the limit,
never run more often than the limit plus one for each fault or outdated read.
`DirRemovedWithObject` is the order of clean-up across crashes. `ImplementsLifecycle`
is refinement: the object never comes back once it is gone, and its verdict is
given once and stands unless an outdated copy was
acted on. `Settles` and `DeletionCompletes` are the wake-ups: no unfinished or
deleted Playbook is forgotten.

**PlaybookDeployment.** `OneActivePlaybook` and `NoRepeatedExecution`: two templates
never run side by side and none runs twice, outdated lists and equal timestamps
apart. `QuiescentPhaseIsTrue` and `Converges`: no wake-up is lost and the last template
is executed and reported. `NoOrphanPlaybook`: partial deletion leaves nothing that
nobody deletes.

**Claim.** `NoTakeover` and `LabelHeld`: no agent is taken from its machine and a running
machine holds its agent's label. `OneAgentPerMachine`, `AgentRefImmutable`: a claim whose
AgentRef was lost is adopted, and an AgentRef never changes. `NoLeakedClaim`: a machine
takes its name off its agent before it goes, through lost patches and restarts; the one
exception is a machine that went while the AgentRef of its claim was not stored.
`VacatedBeforeReuse`: agents are given back only when vacated. `NoStarvation`,
`DeletionCompletes`: a machine does not overlook a free agent for ever; a deleted
machine goes, unless its agent went first, or is unhealthy and not deleted, or its last
reconcile waited for the agent's health. The setting with one machine and three troubles adds the machine that has
labelled two agents: no reconcile gets it out of there, but it can be deleted.

**Probe.** `ThresholdRespected`: a result is believed only after enough equal ones by
one worker. `QuiescentHealthIsTrue`, `HealthConverges`: the two concurrent writers of
`Healthy` leave the last result of the probe, and the condition follows the agent, even
across re-creation under the same name. `ProbeStops`: no worker is leaked.

**Provider's controllers.** `ExecutedOnce`: a Playbook is created on its agent once,
however often the reconcile is repeated. `NothingLeftBehind`: the finalizer goes after the
counterpart, that of the cluster after its machines and their Playbooks. `PipelineOrder`: an
object of a lower priority is there only after those of the higher ones have succeeded, the
boot Playbook only after the whole installation has, the machine is ready only after that,
a clean-up is never beside an installation, and the machine goes after its Playbooks.
`Settles`: each controller comes to what its object asks for; a machine is ready as long as
its agent is. `DeletionCompletes`: a deleted object goes, unless it is in one of the waits
of the functions `reconcileDelete` that ask for no requeue, which the property names.

**Agents.** `NeverLockedOut`: an installed agent can be reached with the provider's active
keys, or will be when its daemon has loaded its files. Not in every case: a daemon that
restarts between the certificate and the key is lost (`Torn`); a pair with a new CA that was
uploaded and whose secret was not written, or whose certificate was uploaded alone before
the pair before was loaded, and a pair renewed while it was being installed, do not fit
until the next rotation of that pair (`unlucky`). With the same CA the writes of a rotation
may be interrupted anywhere. `Whole`: a request gets a complete file after one download; the
default resources are those of the leader's build; a group at rest counts right.
`UninstalledClean`: an uninstallation that has succeeded, at once or repeated, leaves no
file and no unit, and no daemon but, after the request, one that is being stopped; data
only if the daemon wrote it meanwhile. `FirstAndLast`: no controller of the agent runs before etcd and the
API server are ready or after they are told to stop. `Settles`, `DeletionCompletes`: as above,
for keys, groups, installations, the process, files and the provider's start. What is to be
uninstalled is, or its daemon has died and the provider has forgotten the agent; a deleted
agent goes, unless its machine has gone without taking off the label.

These two runs explore independent parts in one state space: `focus` is chosen in the
initial state and never changes, and every property is a case distinction on it
(`Whose`). The parts do not share state; the modules they share are `Reconciler` and
`Informer`.

### Findings

The five violations are disagreements between the code and its own comments:

1. `playbook.go:251` returns `err`, which is nil, where the context has expired: a
   playbook killed at its timeout is reported as Succeeded.
2. `playbook.go:158` runs on the informer's copy: a Playbook that is stored as Succeeded
   may be run once more.
3. `playbookdeployment.go:212` tests `len(playbooks) == 0` where it means the
   opposite: it does not wait for the Playbooks, and requeues for ever without any.
4. `kubeforcemachine_controller.go:437` removes the label whatever name it holds: a
   release repeated after a lost patch takes the label off another machine.
5. `httprepository_reconciler.go:82` makes its patch from the object it changes
   afterwards: the patch is empty, the finalizer is never stored, and the files of a
   deleted repository stay.

Where a passing property has an exception (`stale = 0`, `faults = 0`, `repeats = 0`,
`parked`), the exception is a behaviour of the code: it is listed under "hazards"
in `PROJECT.json` and the counterexample without the exception exists. Those of the
provider that deserve a look:

* `playbook/reconciler.go:253`: the list may not yet show the Playbook just created, and
  the status, written "to avoid duplication", is not read: two Playbooks for a role, and
  every later reconcile fails (`Duplicated`).
* `playbook_controller.go:329`: the condition of the verdict stored without the status
  makes `ExternalPhase` stay as it is, for which the template reconciler waits (`torn`).
* `playbookdeployment_controller.go:409`: the agent never raises `Generation`, so an updated
  deployment may be Completed with the verdict of its old template.
* `kubeforcemachine_controller.go:610`: a clean-up that waits is not woken (`parked`), nor
  within the first minute if the agent is being deleted as well.
* `kubeforcemachine_controller.go:364`: a machine that goes before its AgentRef was stored
  leaves its label (`lost`); the agent, when it is deleted, then waits for good at
  `kubeforceagent_controller.go:233`.
* `kubeforcecluster_controller.go:517`: a failure before `deleteKubeconfig` leaves the old
  one (`torn`).
* `storage.go:93`: the temporary file of a crash blocks its file (`orphan`).
* `manager.go:120`: with a grace period of zero, a failed start waits for ever (`Stuck`).
* `uninstall.go:38`: the command cannot be repeated once the configuration is gone, and an
  agent whose daemon died half-way is forgotten by the provider with what is left of it.
* `uninstall.go:86`: the request succeeds while the daemon still runs, and may write (`late`).

### Bounds

Faults, outdated reads, spec changes and the like are bounded by constants in the
guards. The bounds let every hazard happen at least once together with the others
it needs: two attempts make first, last and in-between attempts differ; a lag of
two lets a reconcile read neither the last nor the last but one version; three
Playbooks allow one for each template and a repeated one; two machines and two
agents allow a race, a loser with an alternative, and a release between two claims.
The channel of capacity 1 is full after one update. `MaxAge` = 2 covers the delays
after the first and second failure (1 and 2 units). `AgentProbe` was also checked
once with two troubles.

The safety run of the claim (`MCMachineAgentClaim`) declares machines and agents
interchangeable: no action and no safety property names one. The other runs check
liveness, with which symmetry is not sound, and declare none. Three troubles are
what it takes to label two agents with one machine's name (a lost patch, an
outdated read, a lost patch): one setting of `machine_claim_progress` has them.

For the provider's controllers one trouble of every kind meets every branch, and two
(Playbook, cluster, keys) let a retry fail again: a lost patch and then an outdated
copy, an upload that fails and a renewal on top. Two slots for a role are enough to see
a duplicate, since two already stop the machine. Two key versions make old and new differ,
and `MaxVersion` bounds renewals only. Two workers race for one file.
Deadlock is not checked, because each of these systems may come to rest: a settled
object, or one that is gone, needs no further step.

### Fairness

Weak fairness of the reconcile and of the steps of a worker in progress
(controller-runtime's workers take a key as long as there is one), of the delivery of
watch events, of timers and the clock, and, where Playbooks are surroundings, of their
finishing and vanishing, which `agent_playbook` shows under its own fairness.
`AgentProbe` also assumes the informer's periodic resync, which controller-runtime does
every ten hours unless told otherwise: a failed `UpdateStatus` is repaired by nothing
else. The provider's other controllers (`Controller`, `Environment` in each module) have
weak fairness of the patch and of the reconcile of a queued key, and of watches, clock,
Cluster API, cert-manager and the agents; `AgentInstall` of the provider's repeated calls,
of the steps of a call that has begun, and of systemd and the probe, but not of the
operator's command, which may never be given; `AgentDaemon` of its goroutines. No fairness is assumed of faults, of clients, or of a machine's other wake-ups.

## 4. What is proved

TLAPS checks these theorems for every value of the constants:

| Theorem | Statement |
|---|---|
| `AgentPlaybook_proofs!TypeCorrect` | `Spec => []TypeOK` |
| `AgentPlaybook_proofs!NeverGivesUpEarly` | `Spec => []FailedOnlyAfterLimit` |
| `AgentPlaybook_proofs!CounterBounded` | `Spec => []FailedWithinLimit` |
| `AgentPlaybook_proofs!StartsAreBounded` | `Spec => []StartsBounded` |
| `AgentPlaybook_proofs!DirectoryGoesFirst` | `Spec => []DirRemovedWithObject` |
| `AgentPlaybook_proofs!LifecycleImplemented` | `Spec => ImplementsLifecycle` |
| `AgentPlaybookDeployment_proofs!TypeCorrect` | `Spec => []TypeOK` |
| `AgentPlaybookDeployment_proofs!NotExecutedAgain` | `Spec => []NoRepeatedExecution` |
| `AgentPlaybookDeployment_proofs!NeverSideBySide` | `Spec => []OneActivePlaybook` |
| `AgentPlaybookDeployment_proofs!NothingOrphaned` | `Spec => []NoOrphanPlaybook` |
| `AgentPlaybookDeployment_proofs!QuiescentPhase` | `Spec => []QuiescentPhaseIsTrue` |
| `MachineAgentClaim_proofs!TypeCorrect` | `Spec => []TypeOK` |
| `MachineAgentClaim_proofs!RunningMachineHoldsItsAgent` | `Spec => []LabelHeld` |
| `MachineAgentClaim_proofs!ClaimTakesOnlyFreeAgents` | `Spec => NoTakeover` |
| `MachineAgentClaim_proofs!HandedOnVacated` | `Spec => []VacatedBeforeReuse` |
| `MachineAgentClaim_proofs!OneAgentClaimed` | `Spec => []OneAgentPerMachine` |
| `MachineAgentClaim_proofs!ClaimsReturned` | `Spec => []NoLeakedClaim` |
| `MachineAgentClaim_proofs!RefNeverChanges` | `Spec => AgentRefImmutable` |
| `AgentProbe_proofs!TypeCorrect` | `Spec => []TypeOK` |
| `AgentProbe_proofs!HealthAtRest` | `Spec => []QuiescentHealthIsTrue` |
| `AgentProbe_proofs!VerdictNeedsRun` | `Spec => ThresholdRespected` |
| `AgentKeys_proofs!ActiveKeysOpenTheHost` | `MCAgents!Spec => []NeverLockedOut` |
| `MCAgents_proofs!TypeCorrect` | `Spec => []TypeOK` |
| `MCAgents_proofs!MainFirstAndLast` | `Spec => []FirstAndLast` |
| `MCAgents_proofs!NothingInstalledIsLeft` | `Spec => []UninstalledClean` |
| `MCAgents_proofs!NothingHalfDone` | `Spec => []Whole` |
| `MCProviderControllers_proofs!TypeCorrect` | `Spec => []TypeOK` |
| `MCProviderControllers_proofs!OneCounterpart` | `Spec => []ExecutedOnce` |
| `MCProviderControllers_proofs!CounterpartsGoFirst` | `Spec => []NothingLeftBehind` |
| `MCProviderControllers_proofs!PipelineInOrder` | `Spec => []PipelineOrder` |

They rest on the named assumptions of the modules only: the constants that count are
natural numbers, thresholds and the capacity of the channel are positive, `None` is no
machine and no agent, `Nobody` no worker, the first template is a template, at least one
key pair is issued, and the addresses of a group are finitely many.

**`Informer_proofs`** states once what `Store` and `Deliver` do to a set of versions:
if every version of an object is in `V` and so is the one written, every version still
is (`Object(V)`), and the last event is the stored version (`Coherent`). `Chain` does the
same for a relation that every write keeps to: the copy is related to every version it
has not seen. `UnnoticedWrite`: a write that leaves no event and no key behind was none.

**Playbook.** The bound on the stored counter is not inductive: the controller counts
from a copy that may be several versions old and patches the result over a newer one.
The invariant says that *every* version the system still holds, stored, cached,
under way or in the worker's hands, is accounted for by the attempts that have failed
(`Sound(failures)`), and that an attempt is in progress only on a version with attempts
left. A failed attempt raises the counter of one version and the number of failures
together. The bound on the starts and the directory need the distance between the copy a
reconcile works on and the stored version, one failure at most while nothing was read
late. The refinement is by cases: each kind of step maps to a step of `PlaybookLifecycle`
or to none.

**PlaybookDeployment.** The invariant has a part for each property over one that relates
copies, stored versions and the worker (a chain: deletion and finalizer are never taken
back). `Births` orders the Playbooks by their creation, `Numbers` accounts for what was
created by changes and anomalies, `Actives` says that an unfinished Playbook is the
youngest, `Orphans` that the deleting reconcile knows every Playbook, `Settled` that with
no event to come the worker works on what is stored and writes the right phase.

**Claim.** `LabelHeld` relates two objects that are written separately. The
invariant has a set of good versions for each: `Marked(a)`, the versions of an agent
whose label is still the stored one's unless that machine has released it; `Held(m)`,
the versions of a machine whose AgentRef names an agent that carries its name; `Past(m)`,
the versions that do not forget a deletion. Every version of every object, and the
object in every worker's hands, is a good one. The optimistic update gives `Coherent`: a
claim accepted on a current copy saw the stored label, which was empty. A release is the
only step that shrinks `Held(m)`, and it happens only to a machine that is being deleted
(`ReleasedOK`), once (`repeats = 0`). A second invariant, for the time in which the copies
read were current, gives `OneAgentPerMachine`, `NoLeakedClaim` and `AgentRefImmutable`. It
assumes nothing of failed calls and restarts: a label whose name is not in the machine's
AgentRef is either on its way there, in the hands of the reconcile in progress, or in
`lost`, which only a patch that stores the AgentRef takes back.

The proof of `VacatedBeforeReuse` failed at first, for a reason: a machine may release an
agent that is being deleted without a clean-up
(`kubeforcemachine_controller.go`, `reconcileDelete`), lose the patch with its finalizer,
find the agent healthy again and only then start the clean-up on it. The run's bound of
three troubles hides this; four with one machine and one agent show it. The property
leaves out agents that are being deleted. A machine may well take one of those: `findAgent`
does not look at the DeletionTimestamp, and neither does `Free`.

**Probe.** A run of equal results is in `history`; the newest update on its way is the
cached result; a copy that a reconcile has read is the latest unless the key is back in
the queue; and an object that nobody will look at again has the cached result, or the
reconcile in progress is about to write it. Each is a conjunct, and none is inductive
without the others.

**Agents.** A behaviour of `MCAgents` stays in its part (`PartSteps`), and each part has
an invariant of its own: the order in which `Manager.Start` waits and cancels; for every
step of the uninstallation, what has been removed once it is past; the resources of
`Order` before `next`; the lock of `GetFile` and who holds it; and, for the group, that a
reconcile which is not repeated writes the right count over the copy that it has read, or
something that brings the key back. For the installation (`NInv`) the calls come in an
order: installations until one has succeeded, then uninstallations until one has, so that
nothing is installed behind a finished uninstallation. `Removed` counts the user's data as
gone only until a daemon that is still stopping has written again (`late`).

**Keys.** `NeverLockedOut` relates the active secrets, the host's files, the daemon's
memory and the agent's object, none of which are written together. The invariant adds that
an agent counts as installed already while the patch that says so is under way (`Counts`);
that from then on both copies and both stored secrets are there, so that no second
installation begins; that the host's key is never newer than its certificate, and neither
newer than what was issued (`Keyed`). A certificate that was uploaded without its key then
does not fit it, and the daemon goes on with the pair it has: otherwise the active pair
would be the issued one, and nothing would be rotated. What is known of a pair (`Served`
for TLS, `Trusted` for the client's) is stated by itself: a rotation of one that went wrong
puts that pair into `unlucky`, says nothing of the other, and the next complete rotation of
the same pair takes it out. Only a daemon that restarts between the two files of an upload
(`Torn`) is excepted as a whole: it does not come up, and is not reached again.

This proof failed twice at first. The model wrote both active secrets at the end of a
rotation, where `syncAgentTLSSecret` and `syncAgentClientSecret` patch one each: with a
renewal of both pairs under way, clients were given a CA that the host did not have. The
model was wrong, two troubles were too few to show it, and it is corrected. And an upload
that is interrupted before the daemon has loaded the pair of the rotation *before* leaves
it with neither: that is the code, and belongs to what `unlucky` excepts.

**Provider's controllers.** What they share is reasoned about once: for any set `V` of
versions and any order `R` on them that every write keeps to, the lemmas about the queue
say that the end of a reconcile, the deferred patch, another client's write, an event and
a restart keep every version in `V` and every copy, and the one in the worker's hands,
behind the stored version by `R` (`Queued`). `MergedFields` says what a patch that is sent
in parts makes of a newer version: every field is the reconcile's or the stored one's.

* *Playbook and PlaybookDeployment* (`Mirror`): a counterpart is told to go only after the
  copy shows the deletion; as long as nobody else has changed anything, a Playbook that is
  not being deleted has all that was created for it; as long as no call has failed, its
  name is stored or about to be, and a patch that is under way does not drop the
  finalizer. The two halves give the two halves of `ExecutedOnce`, and need each other's
  bound on `created`.
* *KubeforceCluster* (`KCInv`): machines come only to a cluster that is ready, Playbooks
  only while there is a machine, and in every
  version that is not being deleted ready implies the controller's finalizer; so the
  finalizer is there before the first machine is, although the two are written by
  different calls of one patch, of which one may be lost.
* *KubeforceMachine* (`KMPlan`): a stored verdict `Succeeded` means that the object has
  succeeded (`KMFaithful`), and what a reconcile sees in its lists (`KMSeen`, `KMSure`) is
  what there is (`KMLive`, `KMDone`) unless it counts as outdated. Of these two sets of
  roles `KMArranged` says what `PipelineOrder` does: until the machine is deleted a role
  has an object only after every role of higher priority has succeeded, the node is booted
  after the whole installation, and is ready, or about to be stored as such, after the
  boot. Nothing is deleted and no clean-up begins before the machine's deletion, and while
  there is any object the finalizer is stored, and kept by the patch under way. The theorem
  is about the references of `Requested`; of these the proof uses that they are admitted,
  that no role is called `boot`, and that installation and clean-up have different ones.

**Only model-checked:** everything under fairness, which the prover does not do
(`Converges`, `Settles`, `DeletionCompletes`, `NoStarvation`, `HealthConverges`,
`ProbeStops`), and the runs that show a disagreement. Every other property that a run
checks is a theorem above.

## 5. Plan and what is not modelled

Done: all of the components above whose state changes, the proofs of section 4. Next:

1. Compositions: `MachinePipeline` with `ProviderPlaybook` in the place of `ChildSucceeds`
   and `ChildGoes`, one role at a time.
2. Proofs: the agent's and the provider's Playbook controllers as one refinement of
   `PlaybookLifecycle`.

Not modelled:

* rendering of cloud-init and ansible files, conditions and checksum utilities, field
  validation and the other webhooks: one pass over one object, no state;
* the embedded API server and etcd beyond what `Informer` states and the place they have
  in `AgentDaemon`; log and sysinfo endpoints, which only read;
* the client cache's wait for one agent's informers under the lock of all: it is inside
  controller-runtime, and the models have one agent;
* a probe that hangs, as transport timeouts are outside the repository;
* generated code (a fifth of the implementation's lines) and development tools.

## 6. Running

    tlc -config AgentPlaybook.cfg AgentPlaybook
    tlapm AgentPlaybook_proofs.tla

and likewise for the other modules; `PROJECT.json` lists every run with its module
and configuration. The passing runs take from half a minute to two and a half minutes
with two workers.
