------------------------------- MODULE Drain -------------------------------
(***************************************************************************)
(* One run of `kvdrain drain NODE`: Coordinator.Drain of                   *)
(* internal/coordinator/coordinator.go, with the parts of the cluster it   *)
(* reads and changes.  The run is a sequential program that talks to the   *)
(* API server; between any two of its calls KubeVirt, the kubelets, the    *)
(* operator, the signal handler and the clock may act.                     *)
(*                                                                         *)
(* A snapshot (kube.Snapshot) is not atomic: it lists pods, then VMIs,     *)
(* then migrations, and is modelled as those three steps.                  *)
(***************************************************************************)
EXTENDS Cluster

CONSTANTS
  ClusterLimit,     \* parallelOutboundMigrationsPerNode of the KubeVirt installation
  ParallelOutbound, \* --parallel-outbound, 0 when not given
  Retries,          \* --retries
  AbortUncordons    \* --abort-uncordons

ASSUME DrainAssumption ==
  /\ ClusterLimit \in Nat \ {0} /\ ParallelOutbound \in Nat /\ Retries \in Nat
  /\ AbortUncordons \in BOOLEAN

VARIABLES
  \* The contexts.
  signals,      \* signals delivered; the first cancels the parent context
  expired,      \* observeCtx has reached its deadline
  \* The run.
  pc, stage,    \* the next call, and which snapshot it belongs to
  snap,         \* the latest snapshot
  todo,         \* pods the eviction loop has not reached
  interrupted, cordonedByUs, limit, triggered, failedSeen, initialUIDs, tracked, emptyObs,
  result,       \* what Drain returns
  \* History, read by properties only.
  requests,     \* launcher evictions that became evacuation requests
  killed,       \* VMIs shut down because an eviction deleted their launcher
  afterSignal,  \* evictions that took effect after the first signal
  late,         \* workloads placed since the current snapshot began
  observed      \* VMIs any snapshot has shown on the node

contexts == <<signals, expired>>
accounts == <<limit, triggered, failedSeen, initialUIDs, tracked, emptyObs>>
control  == <<pc, stage, result>>
locals   == <<snap, todo, interrupted, cordonedByUs, accounts>>
history  == <<requests, killed, afterSignal, late, observed>>
vars     == <<cluster, contexts, control, locals, history>>

Stages == {"initial", "revalidate", "observe", "final"}
Locations == {"permissions", "lease", "pods", "vmis", "migrations", "check", "confirm",
  "baseline", "cordon", "evict", "evictCall", "limit", "loop", "trigger", "confirmCall",
  "triggerCall", "settle", "verify", "rollback", "release", "done"}
Results == {"running", "ok", "failed", "timeout", "interrupted", "killed"}
Snapshots == [pods : SUBSET Pods, barred : SUBSET Pods, launchers : SUBSET VMIs,
              unverified : SUBSET VMIs, vmis : SUBSET VMIs, blocked : SUBSET VMIs,
              active : SUBSET Uid, failed : SUBSET Uid]
NoSnapshot == [pods |-> {}, barred |-> {}, launchers |-> {}, unverified |-> {},
               vmis |-> {}, blocked |-> {}, active |-> {}, failed |-> {}]

Init ==
  /\ ClusterInit
  /\ signals = 0 /\ expired = FALSE
  /\ pc = "permissions" /\ stage = "initial" /\ result = "running"
  /\ snap = NoSnapshot /\ todo = {}
  /\ interrupted = FALSE /\ cordonedByUs = FALSE
  /\ limit = 0 /\ triggered = {} /\ failedSeen = {} /\ initialUIDs = {}
  /\ tracked = {} /\ emptyObs = 0
  /\ requests = [v \in VMIs |-> 0]
  /\ killed = {} /\ afterSignal = 0 /\ late = {} /\ observed = {}

-----------------------------------------------------------------------------
(* What a call to the API server can do.  observeCtx ends at the deadline;   *)
(* mutationCtx ends then too, and some time after the first signal, when the *)
(* goroutine that waits for the parent context has cancelled it.             *)

ObserveWorks == ~expired
ObserveFails == expired \/ "fault" \in Hazards
MutateFails  == ObserveFails \/ signals > 0

\* Seeded fault: only the flag that the loop head sets is looked at.
StopNoticed == interrupted

\* parent.Err() != nil, which the loops test before each item.
StopRequested == signals > 0

\* drainContextError: the exit status of a failed call.
ContextError ==
  CASE expired                 -> "timeout"
    [] ~expired /\ signals > 0 -> "interrupted"
    [] OTHER                   -> "failed"

\* Drain returns r: the deferred release of the Lease is next.
Return(r) == result' = r /\ pc' = "release" /\ stage' = stage

Goto(l) == pc' = l /\ UNCHANGED <<stage, result>>

-----------------------------------------------------------------------------
(* What the run concludes from a snapshot s.                                 *)

\* preflight: no VMI has a blocker, no pod needs --force or --delete-emptydir-data,
\* no launcher-like pod is missing from the ActivePods of its VMI.
PreflightPasses(s) == s.blocked = {} /\ s.barred = {} /\ s.unverified = {}

\* Seeded fault: attached launchers and hotplug pods do not count as workload.
QuietIgnoringLaunchers(s) == s.vmis = {} /\ s.active = {} /\ s.pods = {}

\* Nothing is left to move: len(VMIs) = 0, countActive = 0 and not hasEligiblePods.
Quiet(s) == s.vmis = {} /\ s.active = {} /\ s.pods = {} /\ s.launchers = {}

ActiveVMIs(s) == {u[1] : u \in s.active}

\* Seeded fault: only the migrations that are already visible count.
OutstandingVisible(s) == Cardinality(s.active)

\* Seeded fault: a triggered VMI keeps its slot after it has left.
OutstandingForever(s) == Cardinality(s.active) + Cardinality(triggered \ ActiveVMIs(s))

\* outstandingMigrations: active migrations, and VMIs triggered before theirs appeared.
Outstanding(s) ==
  Cardinality(s.active) + Cardinality((s.vmis \cap triggered) \ ActiveVMIs(s))

\* The VMIs the trigger loop would still evict.
Candidates ==
  {v \in todo : /\ Outstanding(snap) < limit
                /\ v \notin triggered \cup ActiveVMIs(snap)
                /\ v \in snap.launchers}

\* The loop visits VMIs in snapshot order.
NextCandidate == {v \in Candidates : \A w \in Candidates : v <= w}

\* Seeded fault: a failure counts again in every pass.
FailuresAgain == snap.failed \ initialUIDs

\* observeFailed: failed migrations that are neither baseline nor already counted.
NewFailures == (snap.failed \ initialUIDs) \ failedSeen

Attempts(seen, v) == {u \in seen : u[1] = v}

\* Seeded fault: off by one, a VMI may fail once more than --retries.
OverBudgetLax(seen) == \E v \in VMIs : Cardinality(Attempts(seen, v)) > Retries + 1

\* Some VMI has failed more often than --retries allows.
OverBudget(seen) == \E v \in VMIs : Cardinality(Attempts(seen, v)) > Retries

\* ConfirmEvacuation: a dry-run eviction answered by KubeVirt's evacuation message.
Confirms(v) == /\ v \in snap.launchers
               /\ vmi[v] = "source" /\ launcher[v] = "running" /\ safe[v]

\* Seeded fault: an interrupted run waits until no VMI is left.
SettledWhenEmpty == interrupted /\ snap.active = {} /\ snap.vmis = {}

\* An interrupted run has nothing left to wait for.
Settled == interrupted /\ snap.active = {}

\* Seeded fault: VMIs that are still here do not matter.
MayRestoreEarly == AbortUncordons /\ cordonedByUs

\* The deferred restore of an interrupted run.
MayRestore == snap.vmis = {} /\ AbortUncordons /\ cordonedByUs

-----------------------------------------------------------------------------
(* Before the snapshots: permissions and the Lease.                          *)

CheckPermissions ==
  /\ pc = "permissions"
  /\ \/ ObserveWorks /\ Goto("lease")
     \/ MutateFails /\ pc' = "done" /\ result' = ContextError /\ stage' = stage
  /\ UNCHANGED <<cluster, contexts, locals, history>>

\* A creation whose answer is lost leaves the Lease held by a run that has ended.
AcquireLease ==
  /\ pc = "lease"
  /\ \/ /\ ObserveWorks /\ lease = "none"
        /\ lease' = "run" /\ Goto("pods")
     \/ /\ ObserveWorks /\ lease = "other"
        /\ pc' = "done" /\ result' = ContextError /\ UNCHANGED <<stage, lease>>
     \/ /\ MutateFails
        /\ lease' \in {lease} \cup (IF lease = "none" THEN {"run"} ELSE {})
        /\ pc' = "done" /\ result' = ContextError /\ stage' = stage
  /\ UNCHANGED <<kubevirt, pods, node, contexts, locals, history>>

-----------------------------------------------------------------------------
(* kube.Snapshot.                                                            *)

\* Seeded fault: the condition is inverted.
TakesCordonOfOthers == node.cordoned

\* This run cordons, and may later restore, a node it found open.
TakesCordon == ~node.cordoned

\* normalEligible: pods the run may evict.  Pods that have finished, mirror pods and those
\* of a DaemonSet are not among Pods.
EligiblePods == {p \in Pods : pods[p] \in {"guarded", "evictable", "terminating"}}

\* Unmanaged pods and pods with an emptyDir, when the option that accepts them is missing.
BarredPods == {p \in Pods : pods[p] = "barred"}

\* looksLikeLauncher, for pods that have not finished.
LauncherLike == {v \in VMIs : launcher[v] \in {"incoming", "running"}}

\* verifiedLauncherVMI: a listed launcher is verified if its VMI, listed later, still has
\* it in ActivePods.
Verified == {v \in snap.launchers : launcher[v] \in {"running", "completed"}}

\* The VMIs with a blocker: not migratable, wrong eviction strategy or no target.
BlockedVMIs == {v \in OnSource : ~safe[v]}

\* Nodes and pods are listed first.  The first snapshot decides who owns the cordon.
ListPods ==
  /\ pc = "pods" /\ ObserveWorks
  /\ snap' = [NoSnapshot EXCEPT
                !.pods       = EligiblePods,
                !.barred     = BarredPods,
                !.launchers  = {v \in VMIs : launcher[v] # "none"},
                !.unverified = LauncherLike]
  /\ cordonedByUs' = IF stage = "initial" THEN TakesCordon ELSE cordonedByUs
  /\ late' = {}
  /\ Goto("vmis")
  /\ UNCHANGED <<cluster, contexts, todo, interrupted, accounts, requests, killed,
                 afterSignal, observed>>

\* VMIs come next; only now can the listed launchers be classified.
ListVMIs ==
  /\ pc = "vmis" /\ ObserveWorks
  /\ snap' = [snap EXCEPT !.vmis = OnSource, !.blocked = BlockedVMIs,
                          !.launchers = Verified, !.unverified = @ \ Verified]
  /\ observed' = observed \cup OnSource
  /\ Goto("migrations")
  /\ UNCHANGED <<cluster, contexts, todo, interrupted, cordonedByUs, accounts, requests,
                 killed, afterSignal, late>>

\* Only migrations whose source is known to be this node are kept.
ListMigrations ==
  /\ pc = "migrations" /\ ObserveWorks
  /\ snap' = [snap EXCEPT !.active = {u \in Uid : mig[u] = "active"},
                          !.failed = {u \in Uid : mig[u] = "failed"}]
  /\ Goto("check")
  /\ UNCHANGED <<cluster, contexts, todo, interrupted, cordonedByUs, accounts, history>>

\* A revalidation that fails restores the cordon of this run before it returns.
RevalidationFails ==
  IF cordonedByUs THEN Goto("rollback") ELSE Return(ContextError)

SnapshotFails ==
  /\ pc \in {"pods", "vmis", "migrations"}
  /\ \/ stage = "initial" /\ MutateFails /\ Return(ContextError)
     \/ stage = "revalidate" /\ MutateFails /\ RevalidationFails
     \/ stage \in {"observe", "final"} /\ ObserveFails /\ Return(ContextError)
  /\ UNCHANGED <<cluster, contexts, locals, history>>

-----------------------------------------------------------------------------
(* Preflight, confirmation, baseline, cordon, revalidation.                  *)

InitialCheck ==
  /\ pc = "check" /\ stage = "initial"
  /\ IF PreflightPasses(snap) THEN Goto("confirm") ELSE Return("failed")
  /\ UNCHANGED <<cluster, contexts, locals, history>>

RevalidateCheck ==
  /\ pc = "check" /\ stage = "revalidate"
  /\ IF PreflightPasses(snap) THEN Goto("confirm") ELSE RevalidationFails
  /\ UNCHANGED <<cluster, contexts, locals, history>>

\* confirmMigrations: every VMI without an active migration must be confirmed.
ConfirmMigrations ==
  /\ pc = "confirm"
  /\ \/ /\ ObserveWorks
        /\ \A v \in snap.vmis \ ActiveVMIs(snap) : Confirms(v)
        /\ IF stage = "initial"
           THEN Goto("baseline") /\ todo' = todo
           ELSE Goto("evict") /\ todo' = snap.pods
     \/ /\ MutateFails \/ \E v \in snap.vmis \ ActiveVMIs(snap) : ~Confirms(v)
        /\ IF stage = "initial" THEN Return(ContextError) ELSE RevalidationFails
        /\ todo' = todo
  /\ UNCHANGED <<cluster, contexts, snap, interrupted, cordonedByUs, accounts, history>>

\* Every migration object that exists now, whatever its source, is not ours to count.
Baseline ==
  /\ pc = "baseline"
  /\ \/ /\ ObserveWorks
        /\ initialUIDs' = {u \in Uid : mig[u] # "absent"}
        /\ IF signals > 0 THEN Return("interrupted")
           ELSE IF cordonedByUs THEN Goto("cordon")
           ELSE pc' = "pods" /\ stage' = "revalidate" /\ result' = result
     \/ MutateFails /\ Return(ContextError) /\ UNCHANGED initialUIDs
  /\ UNCHANGED <<cluster, contexts, snap, todo, interrupted, cordonedByUs, limit, triggered,
                 failedSeen, tracked, emptyObs, history>>

\* Clients.Cordon: a server-side apply that does not force, so another run's owner
\* annotation is a conflict.  The answer to an apply that took effect may be lost.
Cordon ==
  /\ pc = "cordon"
  /\ \/ /\ ObserveWorks /\ node.owner # "other"
        /\ node' = [cordoned |-> TRUE, owner |-> "run"]
        /\ IF signals > 0
           THEN pc' = "rollback" /\ result' = "interrupted" /\ stage' = stage
           ELSE pc' = "pods" /\ stage' = "revalidate" /\ result' = result
     \/ /\ MutateFails \/ node.owner = "other"
        /\ \/ node' = node
           \/ /\ MutateFails /\ node.owner # "other"
              /\ node' = [cordoned |-> TRUE, owner |-> "run"]
        /\ Return(ContextError)
  /\ UNCHANGED <<kubevirt, pods, lease, contexts, locals, history>>

-----------------------------------------------------------------------------
(* Evicting normal pods, once after revalidation and once in every pass.     *)

CountEviction == afterSignal' = IF signals > 0 THEN afterSignal + 1 ELSE afterSignal

\* The loops look at the parent context before each pod, ignored ones included.
EvictCheck ==
  /\ pc = "evict"
  /\ \/ /\ StopRequested
        /\ interrupted' = TRUE /\ todo' = {}
        /\ Goto(IF stage = "revalidate" THEN "limit" ELSE "settle")
     \/ /\ ~StopRequested /\ todo # {}
        /\ Goto("evictCall") /\ UNCHANGED <<todo, interrupted>>
     \/ /\ todo = {} /\ UNCHANGED interrupted
        /\ IF stage = "revalidate"
           THEN Goto("limit") /\ todo' = todo
           ELSE Goto("trigger") /\ todo' = snap.vmis
  /\ UNCHANGED <<cluster, contexts, snap, cordonedByUs, accounts, history>>

\* evictNormal: accepted and not-found go on, a blocking PDB is left for a later
\* pass, anything else ends the run.
EvictCall ==
  /\ pc = "evictCall"
  /\ \E p \in todo :
       LET accepted == pods[p] = "evictable" IN
       /\ \/ /\ ObserveWorks
             /\ pods' = IF accepted THEN [pods EXCEPT ![p] = "terminating"] ELSE pods
             /\ IF accepted THEN CountEviction ELSE UNCHANGED afterSignal
             /\ todo' = todo \ {p} /\ Goto("evict")
          \/ /\ MutateFails /\ Return(ContextError) /\ todo' = todo
             /\ \/ UNCHANGED <<pods, afterSignal>>
                \/ accepted /\ pods' = [pods EXCEPT ![p] = "terminating"] /\ CountEviction
  /\ UNCHANGED <<kubevirt, node, lease, contexts, snap, interrupted, cordonedByUs, accounts,
                 requests, killed, late, observed>>

\* Seeded fault: --parallel-outbound may raise the limit.
LimitRaised(discovered) == IF ParallelOutbound > 0 THEN ParallelOutbound ELSE discovered

\* --parallel-outbound can only lower the limit.
LimitOf(discovered) ==
  IF ParallelOutbound > 0 /\ ParallelOutbound < discovered THEN ParallelOutbound ELSE discovered

\* trackVMIs: hotplug volumes will be verified for every VMI a snapshot has shown.
TrackVMIs == tracked' = tracked \cup snap.vmis

\* OutboundMigrationLimit is 2 when the setting cannot be read.  The active
\* migrations of the revalidation snapshot count as ours.
Limit ==
  /\ pc = "limit"
  /\ \E discovered \in (IF ObserveWorks THEN {ClusterLimit} ELSE {})
                         \cup (IF MutateFails THEN {2} ELSE {}) :
       limit' = LimitOf(discovered)
  /\ TrackVMIs
  /\ triggered' = ActiveVMIs(snap)
  /\ Goto("loop")
  /\ UNCHANGED <<cluster, contexts, snap, todo, interrupted, cordonedByUs, failedSeen,
                 initialUIDs, emptyObs, history>>

-----------------------------------------------------------------------------
(* The drain loop.                                                           *)

LoopTop ==
  /\ pc = "loop"
  /\ interrupted' = (interrupted \/ StopRequested)
  /\ IF expired THEN Return(IF interrupted' THEN "interrupted" ELSE "timeout")
     ELSE pc' = "pods" /\ stage' = "observe" /\ result' = result
  /\ UNCHANGED <<cluster, contexts, snap, todo, cordonedByUs, accounts, history>>

\* One observation: safety recheck unless interrupted, then the failed migrations.
ObservePass ==
  /\ pc = "check" /\ stage = "observe"
  /\ TrackVMIs
  /\ IF ~interrupted /\ ~PreflightPasses(snap)
     THEN Return("failed") /\ UNCHANGED <<failedSeen, triggered, todo>>
     ELSE /\ failedSeen' = failedSeen \cup NewFailures
          /\ triggered' = triggered \ {u[1] : u \in NewFailures}
          /\ IF OverBudget(failedSeen') THEN Return("failed") /\ todo' = todo
             ELSE IF interrupted THEN Goto("settle") /\ todo' = {}
             ELSE Goto("evict") /\ todo' = snap.pods
  /\ UNCHANGED <<cluster, contexts, snap, interrupted, cordonedByUs, limit, initialUIDs,
                 emptyObs, history>>

\* The trigger loop looks at the parent context before each VMI of the snapshot, those it
\* skips included.
TriggerCheck ==
  /\ pc = "trigger"
  /\ \/ /\ StopRequested /\ todo # {}
        /\ interrupted' = TRUE /\ todo' = {} /\ Goto("settle")
     \/ /\ ~StopRequested /\ Candidates # {}
        /\ UNCHANGED <<todo, interrupted>> /\ Goto("confirmCall")
     \/ /\ ~StopRequested \/ todo = {}
        /\ Candidates = {}
        /\ todo' = {} /\ interrupted' = interrupted /\ Goto("settle")
  /\ UNCHANGED <<cluster, contexts, snap, cordonedByUs, accounts, history>>

\* triggerVMI: the dry run that precedes the eviction.
ConfirmCall ==
  /\ pc = "confirmCall"
  /\ \E v \in NextCandidate :
       \/ ObserveWorks /\ Confirms(v) /\ Goto("triggerCall")
       \/ (MutateFails \/ ~Confirms(v)) /\ Return(ContextError)
  /\ UNCHANGED <<cluster, contexts, locals, history>>

\* What an eviction of the launcher of v does: KubeVirt intercepts it and is asked to
\* evacuate the VMI, or, when it no longer protects the VMI, the launcher goes.
EvictLauncher(v) ==
  /\ vmi[v] = "source" /\ launcher[v] = "running" /\ CountEviction
  /\ \/ /\ safe[v]
        /\ evac' = [evac EXCEPT ![v] = TRUE]
        /\ requests' = [requests EXCEPT ![v] = @ + 1]
        /\ UNCHANGED <<vmi, launcher, ready, mig, killed>>
     \/ /\ ~safe[v]
        /\ vmi' = [vmi EXCEPT ![v] = "deleted"]
        /\ launcher' = [launcher EXCEPT ![v] = "none"]
        /\ mig' = [u \in Uid |-> IF u[1] = v /\ mig[u] \in {"queued", "active"}
                                 THEN "failed" ELSE mig[u]]
        /\ killed' = killed \cup {v}
        /\ UNCHANGED <<ready, evac, requests>>
  /\ safe' = safe

\* Seeded fault: an accepted deletion counts as a triggered migration.
AnyAnswerTriggers(v) == vmi[v] = "source"

\* requireKubeVirtInterception: only KubeVirt's evacuation answer is a success.
Intercepted(v) == vmi[v] = "source" /\ launcher[v] = "running" /\ safe[v]

TriggerCall ==
  /\ pc = "triggerCall"
  /\ \E v \in NextCandidate :
       \/ /\ ObserveWorks /\ EvictLauncher(v)
          /\ IF Intercepted(v)
             THEN /\ triggered' = triggered \cup {v} /\ todo' = {w \in todo : v < w}
                  /\ Goto("trigger")
             ELSE Return(ContextError) /\ UNCHANGED <<triggered, todo>>
       \/ /\ MutateFails \/ ~Intercepted(v)
          /\ EvictLauncher(v) \/ UNCHANGED <<kubevirt, requests, killed, afterSignal>>
          /\ Return(ContextError) /\ UNCHANGED <<triggered, todo>>
  /\ UNCHANGED <<pods, node, lease, contexts, snap, interrupted, cordonedByUs, limit,
                 failedSeen, initialUIDs, tracked, emptyObs, late, observed>>

\* The end of a pass: an interrupted run leaves once no migration is active, a quiet
\* node is counted.  The counter only matters up to 3.
Settle ==
  /\ pc = "settle"
  /\ IF Settled
     THEN /\ result' = "interrupted" /\ stage' = stage /\ emptyObs' = emptyObs
          /\ pc' = IF MayRestore THEN "rollback" ELSE "release"
     ELSE /\ emptyObs' = IF ~Quiet(snap) THEN 0
                         ELSE IF emptyObs = 3 THEN 3 ELSE emptyObs + 1
          /\ Goto(IF emptyObs' = 3 THEN "verify" ELSE "loop")
  /\ UNCHANGED <<cluster, contexts, snap, todo, interrupted, cordonedByUs, limit, triggered,
                 failedSeen, initialUIDs, tracked, history>>

\* Seeded fault: only the VMIs of the latest snapshot are verified.
AttachingListed == {v \in snap.vmis : vmi[v] # "deleted" /\ ~ready[v]}

\* HotplugReady: tracked VMIs with fewer ready volumes than expected.
Attaching == {v \in tracked : vmi[v] # "deleted" /\ ~ready[v]}

\* verifyHotplug: a VMI that is gone is skipped, one with another UID is an error, and
\* every error, the deadline's too, is an operational failure.
Verify ==
  /\ pc = "verify"
  /\ \/ /\ ObserveWorks /\ \A v \in tracked : vmi[v] # "reborn"
        /\ IF Attaching = {}
           THEN pc' = "pods" /\ stage' = "final" /\ result' = result
           ELSE Goto("loop")
     \/ /\ ObserveFails \/ \E v \in tracked : vmi[v] = "reborn"
        /\ Return("failed")
  /\ UNCHANGED <<cluster, contexts, locals, history>>

\* The final relist looks for workloads only; it is no preflight.
FinalCheck ==
  /\ pc = "check" /\ stage = "final"
  /\ TrackVMIs
  /\ IF Quiet(snap) THEN Return("ok") /\ UNCHANGED emptyObs
     ELSE Goto("loop") /\ emptyObs' = 0
  /\ UNCHANGED <<cluster, contexts, snap, todo, interrupted, cordonedByUs, limit, triggered,
                 failedSeen, initialUIDs, history>>

\* checkOutput: an event that could not be written ends the run at the next check, which
\* is an operational failure, or part of a call of evictNormal or triggerVMI.
OutputFails ==
  /\ "fault" \in Hazards
  /\ \/ /\ \/ pc = "baseline"
           \/ pc = "pods" /\ stage = "revalidate" /\ cordonedByUs
           \/ pc = "loop" /\ stage # "revalidate"
           \/ pc = "check" /\ stage = "observe"
           \/ pc = "check" /\ stage = "final" /\ Quiet(snap)
        /\ Return("failed")
     \/ /\ \/ pc = "evict" /\ todo # snap.pods
           \/ pc = "trigger" /\ todo # snap.vmis
        /\ Return(ContextError)
  /\ UNCHANGED <<cluster, contexts, locals, history>>

-----------------------------------------------------------------------------
(* Leaving.                                                                  *)

\* RollbackCordon: the patch applies only to the node version that still carries this
\* run's annotation; it may always lose against another writer of the node.
Rollback ==
  /\ pc = "rollback"
  /\ \/ node' = node
     \/ /\ node = [cordoned |-> TRUE, owner |-> "run"]
        /\ node' = [cordoned |-> FALSE, owner |-> "none"]
  /\ Return(IF result = "running" THEN ContextError ELSE result)
  /\ UNCHANGED <<kubevirt, pods, lease, contexts, locals, history>>

\* A Lease that cannot be released turns a success into a failure.
Release ==
  /\ pc = "release"
  /\ \/ lease' = "none" /\ UNCHANGED result
     \/ /\ "fault" \in Hazards
        /\ lease' \in {lease, "none"}
        /\ result' = IF result = "ok" THEN "failed" ELSE result
  /\ pc' = "done" /\ stage' = stage
  /\ UNCHANGED <<kubevirt, pods, node, contexts, locals, history>>

Coordinator ==
  \/ CheckPermissions \/ AcquireLease
  \/ ListPods \/ ListVMIs \/ ListMigrations \/ SnapshotFails
  \/ InitialCheck \/ RevalidateCheck \/ ConfirmMigrations \/ Baseline \/ Cordon
  \/ EvictCheck \/ EvictCall \/ Limit
  \/ LoopTop \/ ObservePass \/ TriggerCheck \/ ConfirmCall \/ TriggerCall
  \/ Settle \/ Verify \/ FinalCheck \/ OutputFails \/ Rollback \/ Release

-----------------------------------------------------------------------------
(* The signal handler, the process, the clock.                               *)

\* The first signal cancels the parent context, the second is os.Exit(130), which
\* runs no deferred call.
Interrupt ==
  /\ "interrupt" \in Hazards /\ pc # "done" /\ signals < 2
  /\ signals' = signals + 1
  /\ IF signals = 0 THEN UNCHANGED control
     ELSE pc' = "done" /\ result' = "interrupted" /\ stage' = stage
  /\ UNCHANGED <<cluster, expired, locals, history>>

Kill ==
  /\ "kill" \in Hazards /\ pc # "done"
  /\ pc' = "done" /\ result' = "killed" /\ stage' = stage
  /\ UNCHANGED <<cluster, contexts, locals, history>>

Deadline ==
  /\ "deadline" \in Hazards /\ pc # "done" /\ result = "running" /\ ~expired
  /\ expired' = TRUE
  /\ UNCHANGED <<cluster, signals, control, locals, history>>

-----------------------------------------------------------------------------
(* KubeVirt and the kubelets, as far as the run can tell.                    *)

KubeVirt ==
  /\ pc # "done"
  /\ \/ \E v \in VMIs :
          \/ CreateMigration(v) \/ ForeignMigration(v) \/ HotplugAttaches(v)
          \/ LauncherRemoved(v) \/ LosesSafety(v) \/ VMStops(v) \/ VMStarts(v)
          \/ LauncherRecorded(v)
     \/ \E u \in Uid : MigrationScheduled(u) \/ MigrationSucceeds(u) \/ MigrationFails(u)
  /\ UNCHANGED <<pods, node, lease, contexts, control, locals, history>>

Inbound ==
  /\ pc # "done"
  /\ \E v \in Arriving : (LauncherArrives(v) \/ VMIArrives(v)) /\ late' = late \cup {v}
  /\ UNCHANGED <<pods, node, lease, contexts, control, locals, requests, killed, afterSignal,
                 observed>>

Kubelet ==
  /\ pc # "done"
  /\ \E p \in Pods : PodTerminates(p) \/ PDBRelaxes(p)
  /\ UNCHANGED <<kubevirt, node, lease, contexts, control, locals, history>>

LatePod ==
  /\ pc # "done"
  /\ \E p \in Pods : PodArrives(p) /\ late' = late \cup {p}
  /\ UNCHANGED <<kubevirt, node, lease, contexts, control, locals, requests, killed,
                 afterSignal, observed>>

\* Other people need no Lease: `kvdrain uncordon` (SetUnschedulable) also removes the
\* owner annotation, kubectl cordon and uncordon leave it.
OperatorSetsScheduling ==
  /\ "operator" \in Hazards /\ pc # "done"
  /\ \/ node' = [cordoned |-> FALSE, owner |-> "none"]
     \/ \E value \in BOOLEAN : node' = [node EXCEPT !.cordoned = value]
  /\ UNCHANGED <<kubevirt, pods, lease, contexts, control, locals, history>>

Environment ==
  \/ Interrupt \/ Kill \/ Deadline
  \/ KubeVirt \/ Inbound \/ Kubelet \/ LatePod \/ OperatorSetsScheduling

\* The process has exited; what the cluster does next no longer concerns it.
Exited == pc = "done" /\ UNCHANGED vars

Next == Coordinator \/ Environment \/ Exited

Spec == Init /\ [][Next]_vars

-----------------------------------------------------------------------------
(* Fairness.  The process is scheduled and its calls are answered; KubeVirt  *)
(* works on what it was asked to do; the kubelet ends deleted pods and a     *)
(* blocking PDB relaxes.  Nothing is assumed of signals, of the clock, of    *)
(* other people or of failures.                                              *)

KubeVirtStep(A) ==
  pc # "done" /\ A /\ UNCHANGED <<pods, node, lease, contexts, control, locals, history>>

CreateStep(v)   == KubeVirtStep(CreateMigration(v))
AttachStep(v)   == KubeVirtStep(HotplugAttaches(v))
LauncherStep(v) == KubeVirtStep(LauncherRemoved(v) \/ LauncherRecorded(v))
MigrateStep(u)  == KubeVirtStep(MigrationScheduled(u) \/ MigrationSucceeds(u) \/ MigrationFails(u))

Fairness ==
  /\ WF_vars(Coordinator)
  /\ \A v \in VMIs : WF_vars(CreateStep(v)) /\ WF_vars(AttachStep(v)) /\ WF_vars(LauncherStep(v))
  /\ \A u \in Uid : WF_vars(MigrateStep(u))
  /\ WF_vars(Kubelet)

FairSpec == Spec /\ Fairness

-----------------------------------------------------------------------------
(* Properties.                                                               *)

\* Every variable keeps to its set; the counters stay within the bounds of the model.
TypeOK ==
  /\ ClusterTypeOK
  /\ signals \in 0..2 /\ expired \in BOOLEAN
  /\ pc \in Locations /\ stage \in Stages /\ result \in Results
  /\ snap \in Snapshots /\ todo \subseteq Pods \cup VMIs
  /\ interrupted \in BOOLEAN /\ cordonedByUs \in BOOLEAN
  /\ limit \in 0..(IF ClusterLimit > 2 THEN ClusterLimit ELSE 2)
  /\ triggered \subseteq VMIs /\ failedSeen \subseteq Uid
  /\ initialUIDs \subseteq Uid /\ tracked \subseteq VMIs /\ emptyObs \in 0..3
  /\ requests \in [VMIs -> Nat] /\ killed \subseteq VMIs /\ afterSignal \in Nat
  /\ late \subseteq Pods \cup VMIs /\ observed \subseteq VMIs

\* When the drain succeeds, nothing it had to move is on the node except what was placed
\* there after the final relist had begun, and what that relist showed and does not count:
\* pods the run may not evict and launchers it could not verify.
SuccessMeansEmpty ==
  result = "ok" => Workload \subseteq late \cup snap.barred \cup snap.unverified

\* The eviction of a launcher that KubeVirt does not intercept shuts a VM down; the run
\* stops at once, so it loses one VM at most and never reports success.
LosesOneVMAtMost ==
  killed # {} => /\ pc \in {"release", "done"} /\ result # "ok"
                 /\ \E v \in VMIs : killed = {v}

Evacuating == {v \in VMIs : vmi[v] = "source" /\ evac[v]}

\* The VMIs that were asked to leave and are still here never exceed the outbound limit,
\* whatever the snapshot did not show.  A failed migration gives its slot back although
\* KubeVirt goes on evacuating the VMI; the bound holds because the loop visits VMIs in
\* the same order in every pass and comes to the failed one first.
LimitRespected == Cardinality(Evacuating) <= limit

\* A VMI is asked to leave again only after a failure it has a budget for.
RequestsWithinBudget == \A v \in VMIs : requests[v] <= Retries + 1

\* After the first signal only an eviction already past its check can take effect.
OneEvictionAfterSignal == afterSignal <= 1

\* On success every VMI tracked since the revalidation has all its hotplug volumes on
\* its target, unless it was stopped.
HotplugVerified ==
  result = "ok" => \A v \in tracked : ready[v] \/ vmi[v] \in {"deleted", "reborn"}

Evicts == \/ requests' # requests \/ killed' # killed
          \/ \E p \in Pods : pods[p] = "evictable" /\ pods'[p] = "terminating"

\* Nothing is evicted from a node that is open for scheduling.
EvictsOnlyCordoned == [][Evicts => node.cordoned]_vars

\* No eviction of this run has taken effect on a pod or a VMI.  Nobody else makes the
\* pods of the model terminate.
NothingEvicted ==
  /\ \A p \in Pods : pods[p] \notin {"terminating", "gone"}
  /\ \A v \in VMIs : requests[v] = 0
  /\ killed = {}

\* The run reopens the node only if it closed it, and either while no eviction of a pod or
\* a VMI has taken effect, whatever made the revalidation fail, the deadline included, or
\* at the end of an interrupted run, with --abort-uncordons and no VMI left here except
\* those that came after the snapshot.
RestoreOnlyWhenClear ==
  [][pc = "rollback" /\ node.cordoned /\ ~node'.cordoned =>
       /\ cordonedByUs /\ node.owner = "run"
       /\ NothingEvicted \/ (AbortUncordons /\ interrupted /\ OnSource \subseteq late)]_vars

\* What becomes of the VMIs that were on the node when the run began; what happens after
\* the run is of no interest.
Promise == INSTANCE Evacuation WITH
  Machines <- VMIs \ Arriving,
  Most     <- IF ParallelOutbound > 0 THEN ParallelOutbound
              ELSE IF ClusterLimit > 2 THEN ClusterLimit ELSE 2,
  here     <- OnSource \ Arriving,
  leaving  <- Evacuating \ Arriving,
  asked    <- [v \in VMIs \ Arriving |-> requests[v]],
  failures <- {u \in Uid : mig[u] = "failed"},
  lost     <- killed \ Arriving,
  slots    <- limit,
  outcome  <- IF pc = "done" THEN result ELSE "running"

\* They leave a few at a time, are asked again only for a failure that really happened,
\* and success means that none is left, whatever comes and goes besides.
KeepsPromise == Promise!Spec

\* A drain that entered its loop ends, even if migrations fail and KubeVirt retries them.
LoopEnds == pc = "loop" ~> pc = "done"

\* An interrupted drain ends.
InterruptSettles == signals > 0 ~> pc = "done"
=============================================================================
