------------------------------ MODULE Cluster ------------------------------
(***************************************************************************)
(* The part of a KubeVirt cluster that one drain reads and changes: the    *)
(* VMIs of a node, their launcher pods and migrations, the other pods, the *)
(* node's scheduling state and its drain Lease.  The actions are what      *)
(* KubeVirt, the kubelets and other people do; they are not code of the    *)
(* repository but what internal/kube and internal/coordinator count on.    *)
(***************************************************************************)
EXTENDS Naturals, FiniteSets

CONSTANTS
  VMIs,             \* VMI keys namespace/name, as naturals in the order Snapshot sorts them
  Arriving,         \* those VMIs that start elsewhere and may be placed on the node late
  Hotplugged,       \* those VMIs that have hotplug volumes
  Pods,             \* pods of the node that are neither launchers nor ignored
  PodStarts,        \* the states a pod may be in when the run starts
  LateClasses,      \* the states in which a pod placed late may appear
  MaxAttempts,      \* bound: migration objects per VMI; the last one never fails
  Hazards           \* the events a model lets happen

Events == {"arrival", "incoming", "deadline", "failure", "fault", "foreign",
           "interrupt", "kill", "operator", "restart", "unsafe"}

ASSUME ClusterAssumption ==
  /\ VMIs \subseteq Nat /\ IsFiniteSet(VMIs)
  /\ Arriving \subseteq VMIs /\ Hotplugged \subseteq VMIs
  /\ MaxAttempts \in Nat \ {0}
  /\ PodStarts \subseteq {"absent", "guarded", "evictable", "barred"}
  /\ LateClasses \subseteq {"guarded", "evictable", "barred"}
  /\ Hazards \subseteq Events

VARIABLES
  vmi,          \* "source", "target", "elsewhere", "deleted", or "reborn" under a new UID
  launcher,     \* launcher pod on the node: "none", "incoming", "running" or "completed"
  ready,        \* hotplug volumes are ready where the VMI runs
  safe,         \* KubeVirt answers an eviction of the launcher with an evacuation
  evac,         \* KubeVirt has been asked to evacuate the VMI
  mig,          \* phase of the migration object with UID <<v, k>>
  pods,         \* "absent", "guarded" (by a PDB), "evictable", "barred", "terminating", "gone"
  node,         \* spec.unschedulable and the cordon-owner annotation
  lease         \* holder of the node's drain Lease

kubevirt == <<vmi, launcher, ready, safe, evac, mig>>
cluster  == <<kubevirt, pods, node, lease>>

Uid == VMIs \X (1..MaxAttempts)
VmiStates == {"source", "target", "elsewhere", "deleted", "reborn"}
LauncherStates == {"none", "incoming", "running", "completed"}
PodStates == {"absent", "guarded", "evictable", "barred", "terminating", "gone"}
Phases == {"absent", "queued", "active", "succeeded", "failed"}

NodeStates == [cordoned : BOOLEAN, owner : {"none", "run", "other"}]

KubeVirtTypeOK ==
  /\ vmi \in [VMIs -> VmiStates] /\ launcher \in [VMIs -> LauncherStates]
  /\ ready \in [VMIs -> BOOLEAN] /\ safe \in [VMIs -> BOOLEAN] /\ evac \in [VMIs -> BOOLEAN]
  /\ mig \in [Uid -> Phases]

ClusterTypeOK ==
  /\ KubeVirtTypeOK /\ pods \in [Pods -> PodStates]
  /\ node \in NodeStates /\ lease \in {"none", "run", "other"}

\* The node may have been cordoned by hand or left cordoned by a run that crashed, and
\* another run may hold the Lease.
ClusterInit ==
  /\ vmi \in [VMIs -> {"source", "elsewhere"}]
  /\ \A v \in VMIs : vmi[v] = "elsewhere" <=> v \in Arriving
  /\ launcher = [v \in VMIs |-> IF vmi[v] = "source" THEN "running" ELSE "none"]
  /\ ready = [v \in VMIs |-> TRUE]
  /\ safe = [v \in VMIs |-> TRUE]
  /\ evac = [v \in VMIs |-> FALSE]
  /\ \E foreign \in SUBSET (VMIs \ Arriving) :
       /\ foreign = {} \/ "foreign" \in Hazards
       /\ mig = [u \in Uid |-> IF u[1] \in foreign /\ u[2] = 1 THEN "active" ELSE "absent"]
  /\ pods \in [Pods -> PodStarts]
  /\ node \in [cordoned : BOOLEAN, owner : {"none", "other"}]
  /\ lease \in {"none", "other"}

\* The VMIs that run here, and the pods and VMIs a drain would have to move.
OnSource == {v \in VMIs : vmi[v] = "source"}
Workload == {p \in Pods : pods[p] \in {"guarded", "evictable", "barred", "terminating"}}
            \cup {v \in VMIs : vmi[v] = "source" \/ launcher[v] \in {"incoming", "running"}}

-----------------------------------------------------------------------------
(* KubeVirt: each action leaves pods, node and lease alone.                  *)

InFlight(v) == \E k \in 1..MaxAttempts : mig[<<v, k>>] \in {"queued", "active"}

\* The number of the migration object that would be created next.
NextAttempts(v) == {k \in 1..MaxAttempts : /\ mig[<<v, k>>] = "absent"
                                           /\ \A j \in 1..(k - 1) : mig[<<v, j>>] # "absent"}

\* The evacuation controller, after a failed attempt too.
CreateMigration(v) ==
  /\ evac[v] /\ vmi[v] = "source" /\ ~InFlight(v)
  /\ \E k \in NextAttempts(v) : mig' = [mig EXCEPT ![<<v, k>>] = "active"]
  /\ UNCHANGED <<vmi, launcher, ready, safe, evac>>

\* A migration somebody else asks for; its source is not known at first.
ForeignMigration(v) ==
  /\ "foreign" \in Hazards
  /\ vmi[v] = "source" /\ ~InFlight(v)
  /\ \E k \in NextAttempts(v) : mig' = [mig EXCEPT ![<<v, k>>] = "queued"]
  /\ UNCHANGED <<vmi, launcher, ready, safe, evac>>

MigrationScheduled(u) ==
  /\ mig[u] = "queued"
  /\ mig' = [mig EXCEPT ![u] = "active"]
  /\ UNCHANGED <<vmi, launcher, ready, safe, evac>>

MigrationSucceeds(u) ==
  /\ mig[u] = "active"
  /\ mig' = [mig EXCEPT ![u] = "succeeded"]
  /\ vmi' = [vmi EXCEPT ![u[1]] = "target"]
  /\ launcher' = [launcher EXCEPT ![u[1]] = "completed"]
  /\ ready' = [ready EXCEPT ![u[1]] = u[1] \notin Hotplugged]
  /\ evac' = [evac EXCEPT ![u[1]] = FALSE]
  /\ safe' = safe

MigrationFails(u) ==
  /\ "failure" \in Hazards
  /\ mig[u] = "active" /\ u[2] < MaxAttempts
  /\ mig' = [mig EXCEPT ![u] = "failed"]
  /\ UNCHANGED <<vmi, launcher, ready, safe, evac>>

HotplugAttaches(v) ==
  /\ ~ready[v] /\ ready' = [ready EXCEPT ![v] = TRUE]
  /\ UNCHANGED <<vmi, launcher, safe, evac, mig>>

LauncherRemoved(v) ==
  /\ launcher[v] = "completed" /\ launcher' = [launcher EXCEPT ![v] = "none"]
  /\ UNCHANGED <<vmi, ready, safe, evac, mig>>

\* The target of the VMI disappears, or its eviction strategy changes.
LosesSafety(v) ==
  /\ "unsafe" \in Hazards /\ vmi[v] = "source"
  /\ safe[v] /\ safe' = [safe EXCEPT ![v] = FALSE]
  /\ UNCHANGED <<vmi, launcher, ready, evac, mig>>

\* Somebody stops the VM; its migration fails with it.
VMStops(v) ==
  /\ "restart" \in Hazards /\ vmi[v] \in {"source", "target"}
  /\ vmi' = [vmi EXCEPT ![v] = "deleted"]
  /\ launcher' = [launcher EXCEPT ![v] = IF vmi[v] = "source" THEN "none" ELSE @]
  /\ mig' = [u \in Uid |-> IF u[1] = v /\ mig[u] \in {"queued", "active"}
                           THEN "failed" ELSE mig[u]]
  /\ evac' = [evac EXCEPT ![v] = FALSE]
  /\ UNCHANGED <<ready, safe>>

\* Started again on another node, the VM has the same name and another UID.
VMStarts(v) ==
  /\ "restart" \in Hazards /\ vmi[v] = "deleted"
  /\ vmi' = [vmi EXCEPT ![v] = "reborn"]
  /\ UNCHANGED <<launcher, ready, safe, evac, mig>>

\* A launcher already bound to this node appears, and later its VMI runs here.
LauncherArrives(v) ==
  /\ vmi[v] = "elsewhere" /\ launcher[v] = "none"
  /\ \/ "arrival" \in Hazards /\ launcher' = [launcher EXCEPT ![v] = "running"]
     \/ "incoming" \in Hazards /\ launcher' = [launcher EXCEPT ![v] = "incoming"]
  /\ UNCHANGED <<vmi, ready, safe, evac, mig>>

LauncherRecorded(v) ==
  /\ launcher[v] = "incoming" /\ launcher' = [launcher EXCEPT ![v] = "running"]
  /\ UNCHANGED <<vmi, ready, safe, evac, mig>>

VMIArrives(v) ==
  /\ vmi[v] = "elsewhere" /\ launcher[v] = "running"
  /\ vmi' = [vmi EXCEPT ![v] = "source"]
  /\ UNCHANGED <<launcher, ready, safe, evac, mig>>

-----------------------------------------------------------------------------
(* The kubelets and the disruption controller: pods only.                    *)

PodTerminates(p) == pods[p] = "terminating" /\ pods' = [pods EXCEPT ![p] = "gone"]

PDBRelaxes(p) == pods[p] = "guarded" /\ pods' = [pods EXCEPT ![p] = "evictable"]

\* A cordon does not keep out a pod that names its node.
PodArrives(p) ==
  /\ "arrival" \in Hazards /\ pods[p] = "absent"
  /\ \E class \in LateClasses : pods' = [pods EXCEPT ![p] = class]
=============================================================================
