# A TLA+ model of kvdrain

kvdrain empties a Kubernetes node that runs KubeVirt virtual machines. It closes the node for
scheduling, evicts ordinary pods, asks KubeVirt to migrate the virtual machine instances (VMIs),
watches the migrations, and reports success when nothing is left. It is one client process; everything
it knows it reads from the API server, and everything else in the cluster goes on while it works. What
is hard about it is the interleaving of its calls with KubeVirt, with signals, with the deadline, with
other people and with other runs. This directory models that, checks it with TLC and proves part of it
with TLAPS.

## The system

| Part | State | Operations | Interacts with |
| --- | --- | --- | --- |
| `Coordinator.Drain` (`internal/coordinator`) | two contexts, latest snapshot, `interrupted`, `cordonedByUs`, `limit`, `triggered`, `failedSeen`, baseline UIDs, tracked VMIs, quiet counter | one sequential run with a polling loop and two deferred calls | every part below, by calls |
| Drain Lease (`internal/kube/actions.go`) | the Lease object of the node | `AcquireDrainLease`, `ReleaseDrainLease` | other runs, through the API server |
| Cordon (`internal/kube/actions.go`) | `spec.unschedulable`, the cordon-owner annotation | `Cordon`, `RollbackCordon`, `SetUnschedulable` | other writers of the node |
| Snapshot (`internal/kube/snapshot.go`) | none; a value | lists nodes, pods, volumes, PDBs, VMIs, migrations; classifies pods, finds blockers and targets | KubeVirt and the kubelets write what it reads |
| Eviction (`internal/kube/actions.go`) | none | `ConfirmEvacuation` (a dry run), `EvictPod`, reading of the answer | KubeVirt's eviction webhook |
| Hotplug (`snapshot.go`, `actions.go`) | tracked volumes per VMI UID | `trackVMIs`, `verifyHotplug`, `HotplugReady` | KubeVirt volume controller |
| Signals (`internal/cli/root.go`) | number of signals | first cancels, second exits | the contexts of the run |
| `Watch` (`internal/coordinator`) | tracked migrations, stream position | list, stream, reconnect | the VMIM watch, the reducer |
| `Status` (`internal/coordinator`) | none | one snapshot, one report | shares classification and blockers with `Drain` |
| Reducer (`internal/state`), renderer | last transition per object, rows | suppress repetitions, print | fed by events; a write error comes back to the coordinator |
| Permissions, metrics, client, docs generator, scripts | none | | |

What makes each part correct:

- Drain: success means an empty node; the outbound limit and the retry budget hold although a snapshot
  is never current; nothing is evicted from an open node, after a signal, or when KubeVirt would not
  intercept it, beyond what a race can force; the node is reopened only by the run that closed it;
  the loop ends.
- Lease: two runs never drain one node, a release never removes the Lease of another run, and a Lease
  is left behind only after something went wrong.
- Cordon: a rollback never reopens a node that another run closed, a node stays closed while a run drains
  it, and what a run leaves on the node does not block the next one.
- Hotplug: success means that tracked volumes are attached where the VMI went.
- Watch and reducer: each migration is followed until it ends, whatever the stream misses; reports are
  true, in order and final; every end is reported.
- Status: a node that is called ready passes the preflight of a drain and carries nothing a drain
  could not move.

`PROJECT.json` lists every component, and under `hazards` the places where the code is hard to test.

## The modules

| Module | Models |
| --- | --- |
| `Cluster` | what the run counts on from outside: VMIs, launchers, migrations, pods, the node, the Lease |
| `Drain` | one run of `kvdrain drain NODE`; composes its calls with `Cluster`, signals and clock |
| `MCDrain` | statements of the documentation about `Drain` that the code does not keep to |
| `DrainProofs` | theorems about `Drain`: types, lost VMs, signals, the closed node |
| `DrainOutcomeProofs` | theorems about what a drain ends with: the empty node, the restored node |
| `DrainBudgetProofs` | theorems about how often a VMI is asked to leave and about hotplug volumes |
| `Evacuation` | the abstract promise of a drain: a few machines at a time, again only after a failure, none left on success |
| `DrainLimitProofs` | theorems about the outbound limit, and that `Drain` implements `Evacuation` |
| `DrainLease` | the Lease protocol of any number of runs over an unreliable connection |
| `DrainLeaseProofs` | theorems about `DrainLease` |
| `NodeCordon` | cordon, rollback and uncordon of one node by any number of runs and everybody else; composes with `DrainLease` |
| `MCNodeCordon` | symmetry of the runs for TLC |
| `NodeCordonProofs` | theorems about `NodeCordon` |
| `MigrationReports` | the abstract promise of a watch: true reports, in order, one end |
| `MigrationWatch` | `kvdrain watch` with stream, reducer and output |
| `MCMigrationWatch` | names, VMIs and nodes of the migrations for TLC |
| `MigrationWatchProofs` | `MigrationWatch` implements `MigrationReports`, and catches up |
| `Readiness` | `kvdrain status` and the preflight, on a snapshot that is not atomic |
| `MCReadiness` | the descriptions a pod may have, for TLC |
| `ReadinessProofs` | theorems about `Readiness` |

### Drain and the code

`pc` is the next call to the API server, and `stage` tells which of the four calls of `Snapshot` the
run is in (before the cordon, revalidation, loop, final relist). Go code between two calls that touches
only locals is part of the action before it. The loop of the code is
`LoopTop, ListPods, ListVMIs, ListMigrations, ObservePass, (EvictCheck, EvictCall)*, (TriggerCheck,
ConfirmCall, TriggerCall)*, Settle` and, when the node is quiet, `Verify` and `FinalCheck`.

- *Contexts.* `signals` and `expired` are all that is needed of `parent`, `observeCtx` and
  `mutationCtx`. A call under `mutationCtx` may fail at any time after the first signal, and need not:
  the goroutine that cancels it runs when it likes (`MutateFails`, `ObserveWorks`).
- *Errors.* Every call can fail, at the deadline, after a signal where its context is `mutationCtx`, and
  at any time when `"fault"` is among the hazards. A call that changes something may have taken effect
  although it failed. `ContextError` is `drainContextError`.
- *Snapshots* keep sets: pods that may be evicted, pods that need consent (`barred`), verified and
  unverified launchers, VMIs, VMIs with a blocker, active and failed migrations. The three lists are
  separate steps, so a snapshot mixes three moments.
- *VMIs* are natural numbers in the order of their names, since the trigger loop goes through them in
  that order. All that makes a VMI migratable (condition, strategy, target, PDB of its launcher, the
  answer of the webhook) is one flag, `safe`, which the cluster may clear at any time.
- *Pods* are `guarded` by a PDB, `evictable`, `barred` (unmanaged or with `emptyDir`, without consent),
  `terminating` or `gone`. Mirror, DaemonSet and finished pods are ignored by the code and left out.
- *Migrations* are numbered per VMI; the number stands for the UID. `queued` is a migration whose source
  is not yet known and which the code therefore does not see. A migration fails while `"failure"` is
  among the hazards, except the last one (`MaxAttempts`).
- *Output.* Events are left out, except that one that cannot be written ends the run (`OutputFails`).
- *Waiting* between two passes has no action of its own: any number of steps of the cluster may come
  between `Settle` and `LoopTop`. A run that is interrupted while it waits notices in `LoopTop`.
- *Variables of history*: `requests`, `killed`, `afterSignal`, `late`, `observed` are read by no guard.

`Evacuation` says what all of this amounts to for the VMIs that are on the node when the run begins, and knows
nothing of snapshots, slots that are taken and given back, passes or errors. It is implemented with
`here <- OnSource \ Arriving`, `leaving <- Evacuating \ Arriving`, `asked <- requests`, `failures <-` the
migrations that have really failed (not `failedSeen`, which is what the run has counted),
`lost <- killed \ Arriving`, `slots <- limit`, and as `outcome` the result once the process has ended. One request
of a run is a step `Ask` or `Lose`; whatever the cluster does is `Others`; everything else is `Decide`, `End`
or no step. VMIs that come late are left out of the mapping: `Evacuation` promises nothing about them.

Definitions marked "Seeded fault" are faulty variants of the definition after them. They are not used by
the specification; substituting one has to break a property, which shows that the property depends on
that piece of the code.

### DrainLease and the code

`AcquireDrainLease` is a create, and a read when the Lease exists; `ReleaseDrainLease` is a read and a
delete with UID and resource version as preconditions. A request is handled by the server when it gets to
it, even after its sender gave up; the transport may send a create again, so that the Lease in the way may
be the run's own. The Lease never expires because nothing reads its duration. An operator removes a Lease
by hand, after its holder has ended if `CarefulOperator`.

### NodeCordon and the code

`NodeCordon` extends `DrainLease`. Every run goes through the Lease protocol, and between its two halves
through the calls `Drain` makes on the Node object, with `step` as the next one. The phase `draining` of the
Lease may be left only when no step is left (`MayFinish`): the release is the deferred call that was
registered first. Everything else about a drain is the choice `Work`.

- *Requests.* Both patches are sent, handled by the server and answered in three steps. `CordonGivenUp`
  and `RestoreEnds` leave a request on its way, and so does a crash.
- *Apply.* `Cordon` is a server-side apply under a field manager of its own, without force. It conflicts with
  an owner annotation that another run has set; it does not conflict with `spec.unschedulable`, which
  is already true or has no owner. Every apply that agrees makes the annotation its run's.
- *Rollback.* The four tests of the JSON patch are `RestoreApplies`. A resource version is not counted: `fresh`
  holds the runs that have read the node since it was last written, `object` those whose first
  snapshot showed the Node object that exists now (its UID).
- *Everybody else*: `kubectl` sets `spec.unschedulable` and leaves the annotation, `kvdrain uncordon`
  removes it, controllers write the node for their own purposes, and the node may be deleted and register anew.
- *History*: `closer`, `opener`; `strays` and `orphans`, the runs whose rollback or cordon took effect after they
  had stopped waiting for it; `left`, the annotation that `kubectl uncordon` left, until somebody replaces
  or removes it.

### MigrationWatch and the code

`List` is the body of the outer loop up to the opening of the stream: list, map of tracked migrations, and the
reports of both loops. `Deliver` is one event of the stream. `wire` holds what happened since the listed version,
which is what a stream opened there delivers. A broken stream, an error event and an expired version
are `StreamBreaks`; the run sleeps and lists again. An error of the list or of the opening ends the run.
A report goes through `emitWatchedMigration` (the nodes that are shown), `Reducer.Accept` (key without the
UID, value without the time) and the write of `Renderer.Event`; the reducer remembers before the write,
and a write that fails ends the run at the next `checkOutput`, after the remaining reports of the same list.

### Readiness and the code

The pods, then the budgets, then the VMIs are listed, and the cluster moves in between. `kind` is what is
written on a pod and never changes; `classifyPod` becomes `Launcher`, `Hotplug`, `UnverifiedLauncher`,
`Ignored`, `Managed` and `Blocker`, which read the snapshot only. A pod is taken for an attachment by the UID in
the volume status or in the migration state, or by its name alone (`Named`, with `Names` as the names that occur),
as the code has no namespace there. `Status` decides from the blockers;
`Preflight` and `NormalEligible` are the same judgements where a drain makes them. One VMI, of which
`blocked` sums up condition, strategy and targets.

## The runs

| Run | Bounds | Shows |
| --- | --- | --- |
| `drain_attempts` | 3 VMIs, 3 attempts each, limit 2, one retry, `--parallel-outbound 3` | type correctness, the limit, the retry budget under failing migrations |
| `drain_stops` | 2 VMIs, 1 pod, signals, kill, deadline, faults, lost protection | what a stop at any point can leave behind |
| `drain_arrivals` | 2 VMIs (one comes late, placed directly or migrating in), 1 pod that may come late, migrations of other people | success means empty |
| `drain_restarts` | 2 VMIs with hotplug volumes (one incoming), stops and restarts, other writers of the node | hotplug verification |
| `drain_progress` | 2 VMIs, 2 attempts, a guarded pod, signals, fairness | the loop ends, an interrupted run ends, refinement of `Evacuation` |
| `lease` | 2 runs, every other writer, edits of the Lease up to revision 2, symmetry | mutual exclusion, no foreign release, leaks explained; the node stays closed, no foreign rollback, refusals explained |
| `watch` | 2 migrations of 2 VMIs, one with its source annotated, one node, every trouble | the run catches up, reports are true and in order, every end is reported |
| `readiness` | a pod of any of the possible descriptions, an attachment pod, one VMI | ready is true, and the three judges of a pod agree |
| `claim_*` | 1 VMI | a sentence of the documentation that the code does not keep, each with a counterexample |

Each run of `Drain` lets a few kinds of event happen (`Hazards`) rather than all at once. Together they cover every
action of the modules.

Why the bounds are enough. The limit can only be exceeded by a VMI beyond it, so there is one VMI more
than the limit in `drain_attempts`; an attempt beyond the budget needs budget + 2 attempts, which
`MaxAttempts = 3` allows with one retry. For `Evacuation` two attempts are enough: a failure that
counts twice pays for a request that no second failure stands behind. For stops one VMI in migration while another waits gives every
position of the loop. For arrivals one VMI and one pod that leave while one arrives give every order of the
three lists. The quiet counter is kept at 3, beyond which the code never distinguishes it. In `lease` two
runs are enough for a late delete, cordon or rollback of one to meet the other; the theorems hold for any
number. `MaxRevision` bounds edits by others only, creation and deletion are bounded by the runs. In `watch`
a migration goes through its phases once, so two of them bound the stream; they share node and list, and
one of them may end while the other is reported. In `readiness` pods are judged one by one, so one of every
description is enough; the second one is an attachment, which only a VMI can tell from a workload. Two names are enough for
a pod to bear that of the attachment or not.

What the properties leave out. `SuccessMeansEmpty` excepts workloads placed after the final relist began and
what that relist showed and does not count, which are pods the run may not evict and launchers it could not
verify: the final relist is no preflight, and `claim_final` shows a drain that succeeds over one.
`LimitRespected` speaks of VMIs the run has asked to leave, on a node to which no VMI comes late: a late one
that sorts first is asked although the slot it takes was given back for a VMI that is still leaving (see below).
`ResidentsWithinLimit` is what holds with late VMIs as well: those that were there from the start stay within
the limit. `KeepsPromise` ends with the process, and is about the same VMIs. `RestoreOnlyWhenClear` lets the node be
reopened after a failed revalidation only while no pod and no VMI has been evicted, and accepts whatever made the
revalidation fail, the deadline included, although the README lets the node remain cordoned then (see below).
`EvictsOnlyCordoned` assumes no
other writer of the node, since `Drain` never looks at `spec.unschedulable` again after it has closed the node;
`DrainsClosedNode` says who can have opened it then: those who take no Lease, and a rollback that came late.
`RefusedOnlyWhenStale` speaks of the annotation itself: it is the one that `kubectl uncordon` left and nobody has
written since, or that of a late cordon; so the rollback and `kvdrain uncordon` have to take it along.
`LeaksOnlyAfterTrouble` excuses runs that died: the code has no recovery from a crash. `HotplugVerified` speaks of the VMIs tracked since the
revalidation. `CaughtUp` holds while names of migrations are not reused; `FollowsExactly` is the part of it that
needs no such assumption. `ReadyIsTrue` speaks of pods that were listed; what came later nobody could
see. It excepts a pod that bears the name of an attachment pod of the VMI: whatever that pod is, and in whatever
namespace, the code takes it for the attachment and calls the node ready.

### Fairness

`FairSpec` assumes: the process is scheduled and its calls are answered (weak fairness of `Coordinator`);
KubeVirt creates the migrations it was asked for, ends them, attaches volumes and removes finished
launchers; kubelets end deleted pods and a guarding PDB relaxes. The code polls and has no deadline
inside the loop other than `--timeout`, so it counts on exactly that. A PDB that never relaxes makes the drain
wait for its timeout, as documented. No fairness is assumed for signals, the deadline, failures, arrivals
or people. The liveness properties hold without the deadline ever being reached.

`MigrationWatch.Spec` assumes only that the run takes its next step (weak fairness of `Step`, which a
broken stream or a signal may always overtake). The stream may break for ever: `EndIsReported` counts on the
list that follows each break. Migrations need not end.

`NodeCordon`, `DrainLease` and `Readiness` state safety only.

### Disagreements with the documentation

| Run | README, event | Code |
| --- | --- | --- |
| `claim_interrupt` | the first interrupt waits for active migrations | a call under way is cancelled, its error ends the run at once |
| `claim_observed` | "hotplug verification for every VMI UID observed during the run" | VMIs are tracked from the revalidation on; one that only the first snapshot showed is not verified |
| `claim_final` | "uses a quiet interval and a final relist to detect late arrivals"; the event of a finished drain says "no source workloads remain" | the final relist passes over pods that need consent and launchers that are not verified |
| `claim_evicted` | evict normal pods, then launchers | a VMI whose baseline migration fails counts as triggered for ever and is not evicted |

Met while modelling, without a run of their own:

- README, exit code 124: "Timeout, node remains cordoned". A deadline in the revalidation rolls the cordon back
  before the run returns (`coordinator.go:351`).
- README: launchers are evicted "subject to the outbound migration limit". A failed migration frees its slot
  (`coordinator.go:438`) while KubeVirt retries it; a VMI that arrived late and sorts first takes the slot,
  and with the retry more migrations are active than the limit.
- README: `--abort-uncordons` "restores a node only when this run cordoned it". Ownership is decided from the first
  snapshot (`coordinator.go:323`) and the apply succeeds on a node that somebody else has closed since, so
  the rollback may reopen a node that `kubectl cordon` closed. `SparesCordonOfOthers` is what remains true.
- `actions.go:37` says that the resource version `Cordon` returns "must be used verbatim"; `coordinator.go:325` drops
  it, and `RollbackCordon` reads a version of its own. A write between the two goes unnoticed unless it
  touches the annotation or the scheduling.
- The key of the reducer (`event.go:42`) has no UID. When a migration is deleted and one of the same name is created
  for the same VMI while the stream is broken, the first report of the new one may be suppressed.
- A name of an attachment pod is matched without its namespace (`snapshot.go:213`), so a pod of that name hides from
  `status` and from the drain; `Readiness` has it, as the exception of `ReadyIsTrue`. An empty term of a node selector
  matches every node (`snapshot.go:395`), and `Gt` and `Lt` read a label such as `5abc` as 5 (`snapshot.go:429`).

## The proofs

Proved for every set of VMIs, pods and runs, every option and every combination of hazards, except where an
assumption is named:

| Theorem | Statement | Argument |
| --- | --- | --- |
| `TypeSafe` | `Spec => []TypeOK` | inductive as it is, by action; the cluster's part from `ClusterAssumption` |
| `LosesSafe` | `Spec => []LosesOneVMAtMost` | inductive with `TypeOK`: `TriggerCall` is the only step that shuts a VM down, is not enabled after one has been, and returns |
| `SignalSafe` | `Spec => []OneEvictionAfterSignal` | `SignalInv` adds that an eviction call is entered before anything was counted, since the parent context is looked at just before |
| `CordonSafe` | `Spec => EvictsOnlyCordoned`, if `"operator" \notin Hazards` | `CordonInv`: after the first stage the node is closed until the run returns, and the run takes no cordon only when it has seen the node closed |
| `EmptySafe` | `Spec => []SuccessMeansEmpty` | `OnlyLateArrivals`: no step but a new snapshot brings a workload that `late` does not record. `SeenInv`: hence what is on the node stays within the latest snapshot and `late`, from each list to the next snapshot, and success keeps that of a quiet relist |
| `RestoreSafe` | `Spec => RestoreOnlyWhenClear`, if `"operator" \notin Hazards` | `RestoreInv`: up to the end of the revalidation no pod has been evicted and no VMI asked (`NoPods`, `NoRequests`, `Preparing`), and the rollback is entered from there or from an interrupted pass without VMIs; `SeenInv` carries the latter to the restore |
| `BudgetSafe` | `Spec => []RequestsWithinBudget` | `BudgetInv`: while the run goes on, a VMI has been asked once per failure counted for it, and once more if it counts as triggered. `AttemptsGrow` (cardinality) makes a new failure pay for the next request |
| `HotplugSafe` | `Spec => []HotplugVerified` | `OneFlight`: a VMI has one migration at a time, so `VMIMoves` bounds where it can go. `TrackInv`: a tracked VMI that the latest list does not show has left, and once verified stays so |
| `LimitSafe` | `Spec => []LimitRespected`, if `Arriving = {}` | from `ResidentsWithinLimit` |
| `ResidentsWithinLimit` | the VMIs that were there from the start, were asked to leave and are still here are at most `limit` | `LimitInv`, see below |
| `OptionBinds` | they are at most `--parallel-outbound`, if it is given | `LimitInv`, and `OptionKept`: the limit is fixed once and never above the option |
| `MigrationsWithinLimit` | their migrations under way are at most `limit`, if `"foreign" \notin Hazards` | `FlightsAsked` and `OneFlight`: KubeVirt migrates only what it was asked to, one migration per VMI |
| `DrainKeepsPromise` | `Spec => KeepsPromise` | the refinement of `Evacuation`, step by step: `LimitInv` bounds the machines that leave, `BudgetInv` pays for a request with counted failures, `PromiseInv` adds that what is counted has happened and that success was decided from a list without VMIs |
| `ReleaseSafe` | `Spec => ReleasesOwnLease` | `DeleteInv`: a delete under way knows a UID of a Lease of its own, and revisions are never reused |
| `MutexSafe` | `Spec => []MutualExclusion`, if `CarefulOperator` | `MutexInv`: a run past acquisition holds the Lease, and late requests of others cannot remove it |
| `LeaksSafe` | `Spec => []LeaksOnlyAfterTrouble` | `EndsClean`: a run that has ended without trouble holds no Lease and has no create on its way that could make one |
| `NodeTyped` | `NodeSpec => []NodeTypeOK` | inductive as it is |
| `SparesOthers` | `NodeSpec => SparesCordonOfOthers` | `CloserOwns`: when a run was the last to close a closed node, its own annotation is on it; so a rollback that finds its annotation opens no cordon of another run |
| `DrainsClosed` | `NodeSpec => []DrainsClosedNode`, if `CarefulOperator` | `Closed` and `Excused`: with mutual exclusion only the run itself, a late rollback or an outsider can write the node while it drains |
| `RefusedStale` | `NodeSpec => RefusedOnlyWhenStale`, if `CarefulOperator` | `StaleOwner`: an annotation on an open node is the one `kubectl` left. `InTheWay`: on a closed node, another owner in front of a run that is about to close it was left by `kubectl`, or belongs to a run whose cordon came after it had stopped waiting for it: the node was open in the run's own first snapshot, and a cordon that was answered in time came before that, as the Lease keeps other runs out |
| `ReportsTrue` | `Spec => ReportsTruly` (of `MigrationWatch`) | the refinement of `MigrationReports`, step by step: `Inv` says that what is on the wire and what is tracked lie between what was told and what is |
| `FollowsExactly` | when nothing is left on the wire, the tracked migrations are those that exist and go on | `Exact`: a migration of which no event waits is in the map exactly if it was going on when it was last seen (`LastShows`, `MapRight`) |
| `HasCaughtUp` | `Spec => []CaughtUp`, if no two migrations share a name | `Exact`, and `KeepsUp`: the reducer never remembers more than was told (`MemoryBehind`), so a report that it refuses as a repetition was told before (`EmitReports`) |
| `ReadyPasses` | `Spec => []ReadyPassesPreflight` | `Judged`: a node is called ready only when neither the VMI nor any pod of the snapshot blocks, which is all that the preflight asks |
| `ReadyTrue` | `Spec => []ReadyIsTrue` | `Sound`: finished pods stay finished, a VMI knows pods of its own only, and the list of VMIs is the last word of the snapshot, names of attachments included |

The assumptions are those named in the modules (`ClusterAssumption`, `DrainAssumption`,
`LeaseAssumption`, `CordonAssumption`, `WatchAssumption`, `ReadinessAssumption`), which the runs evaluate.

The bound of the limit is the one that needs an idea. The count that the code keeps, `Outstanding`, does not
bound the VMIs that were asked to leave: when a migration fails, the VMI gives its slot back (`triggered`) while
KubeVirt goes on evacuating it, and with as many slots free again the next pass could ask another VMI. What
saves it is that every pass goes through the VMIs in the order of their names. A VMI is asked only if all VMIs
before it have left, count, or are not to be asked; so it is among the first `limit` of the VMIs that are here
(`UpTo`), and as VMIs only leave, it stays among them (`AskedFirst`). All VMIs that were asked are therefore
among the first `limit`, and not more than `limit` (`FirstAreFew`). `PassedCounts` says that the trigger loop
has not passed over any VMI that does not count; `ListsResidents`, that no VMI is missing from the list, with or
without its launcher, although pods and VMIs are listed one after the other.

Assumptions of single theorems: `Arriving = {}` and `"foreign" \notin Hazards` are needed, since a VMI that
comes late can take the slot of one that is still leaving, and a migration of somebody else is nobody's slot;
`"operator" \notin Hazards`, `CarefulOperator` and the distinct names of `HasCaughtUp` likewise exclude
behaviours in which the statement is false. The runs that check these properties leave the same behaviours out.

Only model-checked, because out of reach of the installed provers: liveness under fairness (`LoopEnds`,
`InterruptSettles`, `EndIsReported`). For the same reason nothing is said of `ENABLED`, of induction over data
or of `RECURSIVE` operators, which these modules do not use. Every invariant and every action property that a
run checks is a theorem.

## Not modelled

- Eligibility of targets (`eligibleTargets`: selectors, affinity, taints, volumes), migratability and eviction
  strategy: functions of the listed objects without state. The modules have their result, one flag.
- The matching of hotplug volumes to attachment pods, and a volume that is unplugged during the drain.
- The rows of the table that `Renderer` draws, colours and wording; transfer metrics and diagnostics: no decision
  depends on them.
- Permission rules, flags, client configuration: static data. The documentation generator and the scripts:
  sequential, without state that outlives them.
- A pod or a VMI that leaves and later returns to the node, and a second migration of a VMI that has left.

## What is left

1. Eligibility of targets as operators, compared with the rules of the scheduler on bounded inputs.
2. Hotplug volumes by name, with volumes that are plugged and unplugged during the drain.
3. That what a run of `Drain` does to the node and to its Lease is what `NodeCordon` lets one of its runs do, as a
   refinement with the steps of the requests hidden.
