----------------------------- MODULE Readiness ------------------------------
(***************************************************************************)
(* `kvdrain status` and the preflight of a drain: Clients.Snapshot and     *)
(* classifyPod of internal/kube, Coordinator.Status, preflight and         *)
(* normalEligible of internal/coordinator, for one node and one VMI.  A    *)
(* snapshot lists the pods, then the budgets, then the VMIs, and the       *)
(* cluster does not wait for it.                                           *)
(***************************************************************************)
EXTENDS Naturals

CONSTANTS
  Pods,         \* pod UIDs
  Names,        \* pod names; pods of two namespaces may share one
  Kinds,        \* of each pod the descriptions it may have, see Kind
  Attachments   \* those that KubeVirt runs to attach hotplug volumes of the VMI

\* What is written on a pod and does not change: its name; its controller; the created-by
\* label of the VMI; other marks of a launcher (generated name, app label, domain
\* annotation, an owner reference to a VMI); the mirror annotation; an emptyDir volume.
Kind == [name : Names, owner : {"none", "DaemonSet", "other", "VMI"}, label : BOOLEAN,
         marks : BOOLEAN, mirror : BOOLEAN, emptyDir : BOOLEAN]

ASSUME ReadinessAssumption ==
  /\ Attachments \subseteq Pods
  /\ \A p \in Pods : Kinds[p] \subseteq Kind /\ \A k \in Kinds[p] : k.owner = "VMI" => k.marks

VARIABLES
  kind,     \* of each pod
  place,    \* "pending", "here", "gone"
  ended,    \* pods that are succeeded or failed
  spent,    \* pods with a budget that allows no disruption
  vmi,      \* [exists, here, active (ActivePods on this node), attached (the attachment
            \* pods of VolumeStatus), target (that of MigrationState), blocked]
  pc,       \* "permissions", "pods", "budgets", "vmis", "report", "done"
  listed,   \* pods of this node in the snapshot
  over,     \* those of them that were succeeded or failed when they were listed
  guarded,  \* those of them with a budget that allowed no disruption
  seen,     \* the VMI as listed
  verdict   \* of status: "none", "ready", "blocked", "failed"

cluster  == <<kind, place, ended, spent, vmi>>
snapshot == <<listed, over, guarded, seen>>
vars     == <<cluster, pc, snapshot, verdict>>

NoVMI == [exists |-> FALSE, here |-> FALSE, active |-> {}, attached |-> {}, target |-> {},
          blocked |-> FALSE]

\* Pods that virt-controller has made to run the VMI.
Launchers == {p \in Pods : kind[p].owner = "VMI" /\ kind[p].label}

Here == {p \in Pods : place[p] = "here"}

\* The VMI runs here or elsewhere and knows some of its pods; those that attach its volumes
\* may be on another node, and so may the VMI when a migration attaches them here.
Init ==
  /\ kind \in [Pods -> Kind] /\ \A p \in Pods : kind[p] \in Kinds[p]
  /\ place \in [Pods -> {"pending", "here"}]
  /\ ended \in SUBSET Here /\ spent \in SUBSET Pods
  /\ \E here, blocked \in BOOLEAN, known \in SUBSET (Launchers \cap Here),
         attached, target \in SUBSET Attachments :
       vmi = [exists |-> TRUE, here |-> here, active |-> known, attached |-> attached,
              target |-> target, blocked |-> blocked]
  /\ pc = "permissions" /\ verdict = "none"
  /\ listed = {} /\ over = {} /\ guarded = {} /\ seen = NoVMI

-----------------------------------------------------------------------------
(* The cluster.                                                              *)

Unseen == UNCHANGED <<pc, snapshot, verdict>>

PodBinds(p) ==
  /\ place[p] = "pending" /\ place' = [place EXCEPT ![p] = "here"]
  /\ UNCHANGED <<kind, ended, spent, vmi>> /\ Unseen

PodEnds(p) ==
  /\ place[p] = "here" /\ p \notin ended /\ ended' = ended \cup {p}
  /\ UNCHANGED <<kind, place, spent, vmi>> /\ Unseen

PodGoes(p) ==
  /\ place[p] = "here" /\ place' = [place EXCEPT ![p] = "gone"]
  /\ UNCHANGED <<kind, ended, spent, vmi>> /\ Unseen

BudgetChanges(p) ==
  /\ spent' = IF p \in spent THEN spent \ {p} ELSE spent \cup {p}
  /\ UNCHANGED <<kind, place, ended, vmi>> /\ Unseen

\* The VMI controller keeps ActivePods, the hotplug part of VolumeStatus and the pod that
\* attaches the volumes on the target of a migration.
VMIRecords(p) ==
  /\ vmi.exists /\ place[p] # "gone"
  /\ \/ p \in Launchers /\ place[p] = "here" /\ vmi' = [vmi EXCEPT !.active = @ \cup {p}]
     \/ p \in Attachments /\ vmi' = [vmi EXCEPT !.attached = @ \cup {p}]
     \/ p \in Attachments /\ vmi' = [vmi EXCEPT !.target = @ \cup {p}]
  /\ UNCHANGED <<kind, place, ended, spent>> /\ Unseen

VMIForgets(p) ==
  /\ p \in vmi.active \cup vmi.attached \cup vmi.target
  /\ vmi' = [vmi EXCEPT !.active = @ \ {p}, !.attached = @ \ {p}, !.target = @ \ {p}]
  /\ UNCHANGED <<kind, place, ended, spent>> /\ Unseen

VMIMoves ==
  /\ vmi.exists /\ vmi' = [vmi EXCEPT !.here = ~@]
  /\ UNCHANGED <<kind, place, ended, spent>> /\ Unseen

VMIChanges ==
  /\ vmi.exists /\ vmi' = [vmi EXCEPT !.blocked = ~@]
  /\ UNCHANGED <<kind, place, ended, spent>> /\ Unseen

VMIDeleted ==
  /\ vmi.exists /\ vmi' = NoVMI
  /\ UNCHANGED <<kind, place, ended, spent>> /\ Unseen

-----------------------------------------------------------------------------
(* Classification of a listed pod.                                           *)

\* Seeded fault: the label is taken for granted.
VerifiedByLabel(p) == seen.exists /\ kind[p].label

\* verifiedLauncherVMI and launcherOwnedByVMI.
Launcher(p) ==
  seen.exists /\ p \in seen.active /\ kind[p].label /\ kind[p].owner = "VMI"

\* A volume's status has a UID and a name, and the name is enough, in any namespace; the
\* migration state has a UID only.
Named(p, attached) == \E a \in attached : kind[a].name = kind[p].name

Hotplug(p) ==
  seen.exists /\ (p \in seen.attached \cup seen.target \/ Named(p, seen.attached))

UnverifiedLauncher(p) == ~Launcher(p) /\ ~Hotplug(p) /\ (kind[p].label \/ kind[p].marks)

Ignored(p) ==
  /\ ~Launcher(p) /\ ~Hotplug(p)
  /\ kind[p].mirror \/ p \in over \/ kind[p].owner = "DaemonSet"

Managed(p) == kind[p].owner # "none" /\ ~UnverifiedLauncher(p)

\* Seeded fault: a controller is enough.
BlockedWithoutController(p) == UnverifiedLauncher(p) \/ ~Managed(p)

\* PodInfo.Blocker.
Blocker(p) == UnverifiedLauncher(p) \/ ~Managed(p) \/ kind[p].emptyDir

\* The pods that status and preflight look at one by one.
Ordinary == {p \in listed : ~Launcher(p) /\ ~Hotplug(p) /\ ~Ignored(p)}

\* VMIInfo.Blocker of a VMI on this node.
VMIBlocked == seen.exists /\ seen.here /\ seen.blocked

\* Consents are --force and --delete-emptydir-data.
Preflight(consents) ==
  /\ ~VMIBlocked
  /\ \A p \in Ordinary :
       /\ ~UnverifiedLauncher(p)
       /\ Managed(p) \/ "force" \in consents
       /\ kind[p].emptyDir => "emptyDir" \in consents

NormalEligible(p, consents) ==
  /\ p \in Ordinary /\ ~UnverifiedLauncher(p)
  /\ Managed(p) \/ "force" \in consents
  /\ kind[p].emptyDir => "emptyDir" \in consents

-----------------------------------------------------------------------------
(* The command.                                                              *)

Permissions ==
  /\ pc = "permissions"
  /\ \/ pc' = "pods" /\ verdict' = verdict
     \/ pc' = "done" /\ verdict' = "failed"
  /\ UNCHANGED <<cluster, snapshot>>

ListPods ==
  /\ pc = "pods" /\ pc' = "budgets"
  /\ listed' = Here
  /\ over' = listed' \cap ended
  /\ UNCHANGED <<cluster, guarded, seen, verdict>>

ListBudgets ==
  /\ pc = "budgets" /\ pc' = "vmis"
  /\ guarded' = listed \cap spent
  /\ UNCHANGED <<cluster, listed, over, seen, verdict>>

ListVMIs ==
  /\ pc = "vmis" /\ pc' = "report" /\ seen' = vmi
  /\ UNCHANGED <<cluster, listed, over, guarded, verdict>>

CallFails ==
  /\ pc \in {"pods", "budgets", "vmis"} /\ pc' = "done" /\ verdict' = "failed"
  /\ UNCHANGED <<cluster, snapshot>>

\* A blocker is a VMI's, a pod's, or a budget that allows no disruption of a pod.  A report
\* that cannot be written is an error.
Status ==
  /\ pc = "report" /\ pc' = "done"
  /\ \/ verdict' = IF VMIBlocked \/ \E p \in Ordinary : Blocker(p) \/ p \in guarded
                   THEN "blocked" ELSE "ready"
     \/ verdict' = "failed"
  /\ UNCHANGED <<cluster, snapshot>>

Over == pc = "done" /\ UNCHANGED vars

\* What happens before the first list is left to the initial state, what happens after the
\* last one comes too late to be seen.
World ==
  \/ \E p \in Pods : PodBinds(p) \/ PodEnds(p) \/ PodGoes(p) \/ BudgetChanges(p)
                     \/ VMIRecords(p) \/ VMIForgets(p)
  \/ VMIMoves \/ VMIChanges \/ VMIDeleted

Command == Permissions \/ ListPods \/ ListBudgets \/ ListVMIs \/ CallFails \/ Status

Next == (pc \in {"budgets", "vmis"} /\ World) \/ Command \/ Over

Spec == Init /\ [][Next]_vars

-----------------------------------------------------------------------------
(* Properties.                                                               *)

\* Three places judge the pods: status, preflight and the loop that evicts them.  On a node
\* that status calls ready, the preflight of a drain without consents passes and the loop
\* leaves no ordinary pod behind.
ReadyPassesPreflight ==
  verdict = "ready" => Preflight({}) /\ \A p \in Ordinary : NormalEligible(p, {})

\* A ready node has nothing on it that a drain could not move: a pod that was listed and is
\* still here is a launcher that the VMI knows, a pod that attaches its volumes, is nobody's
\* concern, or has a controller and no local data, whatever came and went during the
\* snapshot.  The one exception is a pod that bears the name of an attachment pod of the
\* VMI: it is taken for that and not looked at, whatever it is.
ReadyIsTrue ==
  verdict = "ready" =>
    \A p \in listed \cap Here :
      \/ p \in Launchers \cap vmi.active
      \/ p \in Attachments \cap (vmi.attached \cup vmi.target)
      \/ kind[p].mirror \/ kind[p].owner = "DaemonSet" \/ p \in ended
      \/ kind[p].owner # "none" /\ ~kind[p].emptyDir
      \/ Named(p, vmi.attached)
=============================================================================
