------------------------- MODULE DrainOutcomeProofs -------------------------
(***************************************************************************)
(* What a finished drain has achieved and when it reopens the node: both   *)
(* rest on what the latest snapshot is still worth.                        *)
(***************************************************************************)
EXTENDS DrainProofs

\* The pods a snapshot lists, whether the run may evict them or not.
PodsHere == EligiblePods \cup BarredPods

\* Everything on the node is in the latest snapshot or came after it was begun.
PodsSeen      == PodsHere \subseteq snap.pods \cup snap.barred \cup late
LaunchersSeen == LauncherLike \subseteq snap.launchers \cup snap.unverified \cup late
VMIsSeen      == OnSource \subseteq snap.vmis \cup late

\* Before the VMIs are listed every launcher still counts as unverified.
LaunchersListed == LauncherLike \subseteq snap.unverified \cup late

-----------------------------------------------------------------------------
(* A workload that appears is a late one.                                    *)

\* A workload is on the node after the step only if it was there before or is late.
NothingUnseen ==
  /\ late \subseteq late'
  /\ PodsHere' \subseteq PodsHere \cup late'
  /\ LauncherLike' \subseteq LauncherLike \cup late'
  /\ OnSource' \subseteq OnSource \cup late'

\* Between two snapshots no step brings a workload that late does not record.
LEMMA OnlyLateArrivals ==
  ASSUME TypeOK, [Next]_vars
  PROVE  NothingUnseen \/ (pc = "pods" /\ pc' = "vmis")
<1>t. /\ vmi \in [VMIs -> VmiStates] /\ launcher \in [VMIs -> LauncherStates]
      /\ pods \in [Pods -> PodStates] /\ snap.launchers \subseteq VMIs
  BY DEF TypeOK, ClusterTypeOK, KubeVirtTypeOK, Snapshots
<1>p. ASSUME pods' = pods \/ \E p \in Pods : \E c \in {"gone", "evictable", "terminating"} :
               pods[p] \in {"guarded", "evictable", "terminating"} /\ pods' = [pods EXCEPT ![p] = c]
      PROVE  PodsHere' \subseteq PodsHere
  BY <1>t, <1>p DEF PodsHere, EligiblePods, BarredPods
<1>v. ASSUME \/ UNCHANGED <<vmi, launcher>>
             \/ \E v \in VMIs : \E c \in {"target", "deleted", "reborn", vmi[v]},
                                   l \in {"none", "completed", launcher[v]} :
                  /\ vmi' = [vmi EXCEPT ![v] = c] /\ launcher' = [launcher EXCEPT ![v] = l]
      PROVE  LauncherLike' \subseteq LauncherLike /\ OnSource' \subseteq OnSource
  BY <1>t, <1>v DEF LauncherLike, OnSource
<1> USE DEF cluster, kubevirt, contexts, control, locals, accounts, history
<1>1. \/ UNCHANGED <<pods, vmi, launcher, late>>
      \/ ListPods \/ EvictCall \/ TriggerCall \/ KubeVirt \/ Inbound \/ Kubelet \/ LatePod
  BY DEF Next, Coordinator, Environment, Exited, vars, CheckPermissions, AcquireLease,
    ListVMIs, ListMigrations, SnapshotFails, InitialCheck, RevalidateCheck,
    ConfirmMigrations, Baseline, Cordon, EvictCheck, Limit, LoopTop, ObservePass,
    TriggerCheck, ConfirmCall, Settle, Verify, FinalCheck, OutputFails, Rollback,
    Release, Interrupt, Kill, Deadline, OperatorSetsScheduling
<1>2. CASE UNCHANGED <<pods, vmi, launcher, late>>
  BY <1>2, <1>p, <1>v DEF NothingUnseen
<1>3. CASE ListPods
  BY <1>3 DEF ListPods, Goto
<1>4. CASE EvictCall
  <2>1. /\ UNCHANGED <<vmi, launcher, late>>
        /\ \/ pods' = pods
           \/ \E p \in todo : pods[p] = "evictable" /\ pods' = [pods EXCEPT ![p] = "terminating"]
    BY <1>4 DEF EvictCall
  <2>2. pods' = pods \/ \E p \in Pods :
          pods[p] = "evictable" /\ pods' = [pods EXCEPT ![p] = "terminating"]
    BY <2>1, <1>t
  <2> QED
    BY <2>1, <2>2, <1>p, <1>v DEF NothingUnseen
<1>5. CASE TriggerCall
  <2>1. /\ UNCHANGED <<pods, late>>
        /\ \E v \in NextCandidate : EvictLauncher(v) \/ UNCHANGED <<vmi, launcher>>
    BY <1>5 DEF TriggerCall
  <2>2. NextCandidate \subseteq VMIs
    BY <1>t DEF NextCandidate, Candidates
  <2>3. \/ UNCHANGED <<vmi, launcher>>
        \/ \E v \in VMIs : /\ vmi' = [vmi EXCEPT ![v] = "deleted"]
                           /\ launcher' = [launcher EXCEPT ![v] = "none"]
    BY <2>1, <2>2 DEF EvictLauncher
  <2> QED
    BY <2>1, <2>3, <1>p, <1>v DEF NothingUnseen
<1>6. CASE KubeVirt
  <2>1. UNCHANGED <<pods, late>>
    BY <1>6 DEF KubeVirt
  <2>2. CASE \E v \in VMIs : LauncherRecorded(v)
    <3>1. OnSource' = OnSource /\ LauncherLike' \subseteq LauncherLike
      BY <2>2, <1>t DEF LauncherRecorded, OnSource, LauncherLike
    <3> QED
      BY <2>1, <3>1, <1>p DEF NothingUnseen
  <2>3. CASE \E v \in VMIs : \/ CreateMigration(v) \/ ForeignMigration(v) \/ HotplugAttaches(v)
                             \/ LosesSafety(v)
    BY <2>1, <2>3, <1>p, <1>v
    DEF NothingUnseen, CreateMigration, ForeignMigration, HotplugAttaches, LosesSafety
  <2>4. CASE \E v \in VMIs : LauncherRemoved(v) \/ VMStops(v) \/ VMStarts(v)
    <3>1. PICK v \in VMIs : LauncherRemoved(v) \/ VMStops(v) \/ VMStarts(v)
      BY <2>4
    <3>2. \E c \in {"deleted", "reborn", vmi[v]}, l \in {"none", launcher[v]} :
             /\ vmi' = [vmi EXCEPT ![v] = c] /\ launcher' = [launcher EXCEPT ![v] = l]
      BY <3>1, <1>t DEF LauncherRemoved, VMStops, VMStarts
    <3> QED
      BY <2>1, <3>2, <1>p, <1>v DEF NothingUnseen
  <2>5. CASE \E u \in Uid : MigrationScheduled(u) \/ MigrationFails(u)
    BY <2>1, <2>5, <1>p, <1>v DEF NothingUnseen, MigrationScheduled, MigrationFails
  <2>6. CASE \E u \in Uid : MigrationSucceeds(u)
    <3>1. \E v \in VMIs : /\ vmi' = [vmi EXCEPT ![v] = "target"]
                          /\ launcher' = [launcher EXCEPT ![v] = "completed"]
      BY <2>6 DEF MigrationSucceeds, Uid
    <3> QED
      BY <2>1, <3>1, <1>p, <1>v DEF NothingUnseen
  <2> QED
    BY <1>6, <2>2, <2>3, <2>4, <2>5, <2>6 DEF KubeVirt
<1>7. CASE Inbound
  <2>1. PICK v \in Arriving : (LauncherArrives(v) \/ VMIArrives(v)) /\ late' = late \cup {v}
    BY <1>7 DEF Inbound
  <2>2. pods' = pods
    BY <1>7 DEF Inbound
  <2> QED
    BY <2>1, <2>2, <1>t, <1>p, ClusterAssumption
    DEF NothingUnseen, LauncherArrives, VMIArrives, LauncherLike, OnSource
<1>8. CASE Kubelet
  <2>1. UNCHANGED <<vmi, launcher, late>>
    BY <1>8 DEF Kubelet
  <2>2. \E p \in Pods : \E c \in {"gone", "evictable"} :
          pods[p] \in {"guarded", "terminating"} /\ pods' = [pods EXCEPT ![p] = c]
    BY <1>8 DEF Kubelet, PodTerminates, PDBRelaxes
  <2> QED
    BY <2>1, <2>2, <1>p, <1>v DEF NothingUnseen
<1>9. CASE LatePod
  <2>1. PICK p \in Pods : PodArrives(p) /\ late' = late \cup {p}
    BY <1>9 DEF LatePod
  <2>2. UNCHANGED <<vmi, launcher>>
    BY <1>9 DEF LatePod
  <2>3. PodsHere' \subseteq PodsHere \cup {p}
    BY <2>1, <1>t DEF PodArrives, PodsHere, EligiblePods, BarredPods
  <2> QED
    BY <2>1, <2>2, <2>3, <1>v DEF NothingUnseen
<1> QED
  BY <1>1, <1>2, <1>3, <1>4, <1>5, <1>6, <1>7, <1>8, <1>9

-----------------------------------------------------------------------------
(* When the drain succeeds the node is empty.                                *)

\* The relist of the end showed nothing that counts.
RelistQuiet == Quiet(snap)

\* From each list to the next snapshot, what it was about is seen.  A success keeps that
\* of the final relist, which was quiet; the restore of an interrupted run relies on it.
SeenInv ==
  /\ pc = "vmis" => PodsSeen /\ LaunchersListed
  /\ pc \notin {"permissions", "lease", "pods", "vmis", "rollback", "release", "done"} =>
       PodsSeen /\ LaunchersSeen /\ VMIsSeen
  /\ pc = "rollback" /\ stage = "observe" => VMIsSeen
  /\ result = "ok" => /\ pc \in {"release", "done"} /\ RelistQuiet
                      /\ PodsSeen /\ LaunchersSeen /\ VMIsSeen

\* SeenInv is inductive, given the types.
LEMMA SeenStep == TypeOK /\ SeenInv /\ [Next]_vars => SeenInv'
<1> SUFFICES ASSUME TypeOK, SeenInv, [Next]_vars PROVE SeenInv'
  OBVIOUS
<1>g. ASSUME snap' = snap, pc # "pods" \/ pc' # "vmis"
      PROVE  /\ PodsSeen => PodsSeen'
             /\ LaunchersSeen => LaunchersSeen'
             /\ VMIsSeen => VMIsSeen'
             /\ LaunchersListed => LaunchersListed'
             /\ RelistQuiet => RelistQuiet'
  <2>1. NothingUnseen
    BY <1>g, OnlyLateArrivals
  <2> QED
    BY <1>g, <2>1 DEF NothingUnseen, PodsSeen, LaunchersSeen, VMIsSeen, LaunchersListed,
                      RelistQuiet, Quiet
<1> USE <1>g, ContextErrorType
    DEF SeenInv, Goto, Return, RevalidationFails, contexts, control, locals, history
<1>1. CASE CheckPermissions
  BY <1>1 DEF CheckPermissions
<1>2. CASE AcquireLease
  BY <1>2 DEF AcquireLease
<1>3. CASE ListPods
  <2>1. PodsHere' = PodsHere /\ LauncherLike' = LauncherLike
    BY <1>3 DEF ListPods, PodsHere, EligiblePods, BarredPods, LauncherLike, cluster, kubevirt
  <2>2. snap'.pods = EligiblePods /\ snap'.barred = BarredPods /\ snap'.unverified = LauncherLike
    BY <1>3 DEF ListPods, NoSnapshot
  <2>3. PodsSeen' /\ LaunchersListed'
    BY <2>1, <2>2 DEF PodsSeen, LaunchersListed, PodsHere
  <2> HIDE <1>g
  <2> QED
    BY <1>3, <2>3 DEF ListPods
<1>4. CASE ListVMIs
  <2>1. PodsSeen /\ LaunchersListed
    BY <1>4 DEF ListVMIs
  <2>2. /\ PodsHere' = PodsHere /\ LauncherLike' = LauncherLike /\ OnSource' = OnSource
        /\ late' = late
    BY <1>4 DEF ListVMIs, PodsHere, EligiblePods, BarredPods, LauncherLike, OnSource,
       cluster, kubevirt
  <2>3. /\ snap'.pods = snap.pods /\ snap'.barred = snap.barred /\ snap'.vmis = OnSource
        /\ snap'.launchers = Verified /\ snap'.unverified = snap.unverified \ Verified
    BY <1>4 DEF ListVMIs, TypeOK, Snapshots
  <2>4. PodsSeen' /\ LaunchersSeen' /\ VMIsSeen'
    BY <2>1, <2>2, <2>3 DEF PodsSeen, LaunchersSeen, VMIsSeen, LaunchersListed
  <2> HIDE <1>g
  <2> QED
    BY <1>4, <2>4 DEF ListVMIs
<1>5. CASE ListMigrations
  <2>1. PodsSeen /\ LaunchersSeen /\ VMIsSeen
    BY <1>5 DEF ListMigrations
  <2>2. /\ PodsHere' = PodsHere /\ LauncherLike' = LauncherLike /\ OnSource' = OnSource
        /\ late' = late
    BY <1>5 DEF ListMigrations, PodsHere, EligiblePods, BarredPods, LauncherLike, OnSource,
       cluster, kubevirt
  <2>3. /\ snap'.pods = snap.pods /\ snap'.barred = snap.barred /\ snap'.vmis = snap.vmis
        /\ snap'.launchers = snap.launchers /\ snap'.unverified = snap.unverified
    BY <1>5 DEF ListMigrations, TypeOK, Snapshots
  <2>4. PodsSeen' /\ LaunchersSeen' /\ VMIsSeen'
    BY <2>1, <2>2, <2>3 DEF PodsSeen, LaunchersSeen, VMIsSeen, LaunchersListed
  <2> HIDE <1>g
  <2> QED
    BY <1>5, <2>4 DEF ListMigrations
<1>6. CASE SnapshotFails
  BY <1>6 DEF SnapshotFails
<1>7. CASE InitialCheck
  BY <1>7 DEF InitialCheck
<1>8. CASE RevalidateCheck
  BY <1>8 DEF RevalidateCheck
<1>9. CASE ConfirmMigrations
  BY <1>9 DEF ConfirmMigrations
<1>10. CASE Baseline
  BY <1>10 DEF Baseline
<1>11. CASE Cordon
  BY <1>11 DEF Cordon
<1>12. CASE EvictCheck
  BY <1>12 DEF EvictCheck
<1>13. CASE EvictCall
  BY <1>13 DEF EvictCall
<1>14. CASE Limit
  BY <1>14 DEF Limit
<1>15. CASE LoopTop
  BY <1>15 DEF LoopTop
<1>16. CASE ObservePass
  BY <1>16 DEF ObservePass
<1>17. CASE TriggerCheck
  BY <1>17 DEF TriggerCheck
<1>18. CASE ConfirmCall
  BY <1>18 DEF ConfirmCall
<1>19. CASE TriggerCall
  BY <1>19 DEF TriggerCall
<1>20. CASE Settle
  BY <1>20 DEF Settle
<1>21. CASE Verify
  BY <1>21 DEF Verify
<1>22. CASE FinalCheck
  BY <1>22 DEF FinalCheck, RelistQuiet
<1>23. CASE OutputFails
  BY <1>23 DEF OutputFails
<1>24. CASE Rollback
  BY <1>24 DEF Rollback
<1>25. CASE Release
  BY <1>25 DEF Release
<1>26. CASE Interrupt
  BY <1>26 DEF Interrupt
<1>27. CASE Kill
  BY <1>27 DEF Kill
<1>28. CASE Deadline
  BY <1>28 DEF Deadline
<1>29. CASE KubeVirt
  BY <1>29 DEF KubeVirt
<1>30. CASE Inbound
  BY <1>30 DEF Inbound
<1>31. CASE Kubelet
  BY <1>31 DEF Kubelet
<1>32. CASE LatePod
  BY <1>32 DEF LatePod
<1>33. CASE OperatorSetsScheduling
  BY <1>33 DEF OperatorSetsScheduling
<1>34. CASE UNCHANGED vars
  BY <1>34 DEF vars
<1> QED
  BY <1>1, <1>2, <1>3, <1>4, <1>5, <1>6, <1>7, <1>8, <1>9, <1>10, <1>11, <1>12, <1>13,
     <1>14, <1>15, <1>16, <1>17, <1>18, <1>19, <1>20, <1>21, <1>22, <1>23, <1>24, <1>25,
     <1>26, <1>27, <1>28, <1>29, <1>30, <1>31, <1>32, <1>33, <1>34
     DEF Next, Coordinator, Environment, Exited

\* What the run reports as drained is drained: between the final relist and the exit
\* nothing but a late arrival can appear, and what the relist showed and counts is gone.
THEOREM EmptySafe == Spec => []SuccessMeansEmpty
<1>1. Init => SeenInv
  BY DEF Init, SeenInv
<1>2. SeenInv => SuccessMeansEmpty
  <2> SUFFICES ASSUME SeenInv, result = "ok"
               PROVE  Workload \subseteq late \cup snap.barred \cup snap.unverified
    BY DEF SuccessMeansEmpty
  <2>1. /\ snap.vmis = {} /\ snap.pods = {} /\ snap.launchers = {}
        /\ PodsSeen /\ LaunchersSeen /\ VMIsSeen
    BY DEF SeenInv, RelistQuiet, Quiet
  <2>2. Workload = PodsHere \cup OnSource \cup LauncherLike
    BY DEF Workload, PodsHere, EligiblePods, BarredPods, OnSource, LauncherLike
  <2> QED
    BY <2>1, <2>2 DEF PodsSeen, LaunchersSeen, VMIsSeen
<1> QED
  BY <1>1, <1>2, SeenStep, TypeSafe, PTL DEF Spec

-----------------------------------------------------------------------------
(* The node is reopened only when that is safe.                              *)

\* No VMI has been asked to leave.
NoRequests == requests = [v \in VMIs |-> 0] /\ killed = {}

\* No pod has been evicted.
NoPods == \A p \in Pods : pods[p] \notin {"terminating", "gone"}

\* Where the run is before it evicts its first pod, if it has not come to the loop.
Preparing == {"permissions", "lease", "pods", "vmis", "migrations", "check", "confirm",
              "baseline", "cordon", "rollback"}

\* Pods are evicted after the confirmation of the revalidation, VMIs in the observe stage
\* only; the rollback is entered either before that, or from the end of an observation,
\* interrupted and with no VMI in the snapshot.
RestoreInv ==
  /\ pc = "cordon" => cordonedByUs
  /\ pc \in {"baseline", "cordon"} => stage = "initial"
  /\ pc = "confirm" => stage \in {"initial", "revalidate"}
  /\ pc \in {"evict", "evictCall"} => stage \in {"revalidate", "observe"}
  /\ pc \in {"trigger", "confirmCall", "triggerCall", "settle"} => stage = "observe"
  /\ stage \in {"initial", "revalidate"} => NoRequests
  /\ stage \in {"initial", "revalidate"} /\ pc \in Preparing => NoPods
  /\ pc = "rollback" => /\ cordonedByUs
                        /\ \/ stage \in {"initial", "revalidate"}
                           \/ /\ stage = "observe" /\ AbortUncordons
                              /\ interrupted /\ snap.vmis = {}

\* It holds before the run has done anything.
LEMMA RestoreBegins == Init => RestoreInv
  BY ClusterAssumption DEF Init, ClusterInit, RestoreInv, NoRequests, NoPods, Preparing

\* RestoreInv is inductive.
LEMMA RestoreStep == TypeOK /\ RestoreInv /\ [Next]_vars => RestoreInv'
<1> SUFFICES ASSUME TypeOK, RestoreInv, [Next]_vars PROVE RestoreInv'
  OBVIOUS
<1>t. pods \in [Pods -> PodStates]
  BY DEF TypeOK, ClusterTypeOK
<1> USE DEF RestoreInv, NoRequests, NoPods, Preparing, Goto, Return, RevalidationFails,
            cluster, contexts,
            control, locals, accounts, history
<1>1. CASE CheckPermissions
  BY <1>1 DEF CheckPermissions
<1>2. CASE AcquireLease
  BY <1>2 DEF AcquireLease
<1>3. CASE ListPods
  BY <1>3 DEF ListPods
<1>4. CASE ListVMIs
  BY <1>4 DEF ListVMIs
<1>5. CASE ListMigrations
  BY <1>5 DEF ListMigrations
<1>6. CASE SnapshotFails
  BY <1>6 DEF SnapshotFails
<1>7. CASE InitialCheck
  BY <1>7 DEF InitialCheck
<1>8. CASE RevalidateCheck
  BY <1>8 DEF RevalidateCheck
<1>9. CASE ConfirmMigrations
  BY <1>9 DEF ConfirmMigrations
<1>10. CASE Baseline
  BY <1>10 DEF Baseline
<1>11. CASE Cordon
  BY <1>11 DEF Cordon
<1>12. CASE EvictCheck
  BY <1>12 DEF EvictCheck
<1>13. CASE EvictCall
  BY <1>13 DEF EvictCall
<1>14. CASE Limit
  BY <1>14 DEF Limit
<1>15. CASE LoopTop
  BY <1>15 DEF LoopTop
<1>16. CASE ObservePass
  BY <1>16 DEF ObservePass
<1>17. CASE TriggerCheck
  BY <1>17 DEF TriggerCheck
<1>18. CASE ConfirmCall
  BY <1>18 DEF ConfirmCall
<1>19. CASE TriggerCall
  BY <1>19 DEF TriggerCall
<1>20. CASE Settle
  BY <1>20 DEF Settle, Settled, MayRestore
<1>21. CASE Verify
  BY <1>21 DEF Verify
<1>22. CASE FinalCheck
  BY <1>22 DEF FinalCheck
<1>23. CASE OutputFails
  BY <1>23 DEF OutputFails
<1>24. CASE Rollback
  BY <1>24 DEF Rollback
<1>25. CASE Release
  BY <1>25 DEF Release
<1>26. CASE Interrupt
  BY <1>26 DEF Interrupt
<1>27. CASE Kill
  BY <1>27 DEF Kill
<1>28. CASE Deadline
  BY <1>28 DEF Deadline
<1>29. CASE KubeVirt
  BY <1>29 DEF KubeVirt
<1>30. CASE Inbound
  BY <1>30 DEF Inbound
<1>31. CASE Kubelet
  BY <1>t, <1>31 DEF Kubelet, PodTerminates, PDBRelaxes
<1>32. CASE LatePod
  BY <1>t, <1>32, ClusterAssumption DEF LatePod, PodArrives
<1>33. CASE OperatorSetsScheduling
  BY <1>33 DEF OperatorSetsScheduling
<1>34. CASE UNCHANGED vars
  BY <1>34 DEF vars
<1> QED
  BY <1>1, <1>2, <1>3, <1>4, <1>5, <1>6, <1>7, <1>8, <1>9, <1>10, <1>11, <1>12, <1>13,
     <1>14, <1>15, <1>16, <1>17, <1>18, <1>19, <1>20, <1>21, <1>22, <1>23, <1>24, <1>25,
     <1>26, <1>27, <1>28, <1>29, <1>30, <1>31, <1>32, <1>33, <1>34
     DEF Next, Coordinator, Environment, Exited

\* Only the rollback reopens the node, and only the version that carries its annotation.
LEMMA ReopeningStep ==
  ASSUME [Next]_vars, "operator" \notin Hazards, pc = "rollback", node.cordoned, ~node'.cordoned
  PROVE  node.owner = "run"
<1> USE DEF cluster, contexts, control, locals, history
<1>1. node' = node \/ Cordon \/ Rollback
  BY DEF Next, Coordinator, Environment, Exited, vars, CheckPermissions, AcquireLease,
    ListPods, ListVMIs, ListMigrations, SnapshotFails, InitialCheck, RevalidateCheck,
    ConfirmMigrations, Baseline, EvictCheck, EvictCall, Limit, LoopTop, ObservePass,
    TriggerCheck, ConfirmCall, TriggerCall, Settle, Verify, FinalCheck, OutputFails,
    Release, Interrupt, Kill, Deadline, KubeVirt, Inbound, Kubelet, LatePod,
    OperatorSetsScheduling
<1>2. CASE Cordon
  BY <1>2 DEF Cordon
<1>3. CASE Rollback
  BY <1>3 DEF Rollback
<1> QED
  BY <1>1, <1>2, <1>3

\* When no other writer touches the node, the run reopens only a node it closed itself,
\* and one on which it has evicted nothing, pod or VMI, or from which the last VMI that the
\* snapshot of an interrupted run showed has gone (the two rollbacks of Drain and its
\* deferred restore; VMIsSeen has held since that snapshot).
THEOREM RestoreSafe ==
  ASSUME "operator" \notin Hazards
  PROVE  Spec => RestoreOnlyWhenClear
<1>1. Init => SeenInv /\ RestoreInv
  BY RestoreBegins DEF Init, SeenInv
<1>2. TypeOK /\ RestoreInv /\ [Next]_vars => RestoreInv'
  BY RestoreStep
<1>3. SeenInv /\ RestoreInv /\ [Next]_vars =>
        [pc = "rollback" /\ node.cordoned /\ ~node'.cordoned =>
           /\ cordonedByUs /\ node.owner = "run"
           /\ NothingEvicted \/ (AbortUncordons /\ interrupted /\ OnSource \subseteq late)]_vars
  <2> SUFFICES ASSUME SeenInv, RestoreInv, [Next]_vars,
                      pc = "rollback", node.cordoned, ~node'.cordoned
               PROVE  /\ cordonedByUs /\ node.owner = "run"
                      /\ \/ NothingEvicted
                         \/ AbortUncordons /\ interrupted /\ OnSource \subseteq late
    OBVIOUS
  <2>1. node.owner = "run"
    BY ReopeningStep
  <2>2. CASE stage \in {"initial", "revalidate"}
    BY <2>1, <2>2 DEF RestoreInv, NoRequests, NoPods, Preparing, NothingEvicted
  <2>3. CASE stage = "observe" /\ AbortUncordons /\ interrupted /\ snap.vmis = {}
    BY <2>1, <2>3 DEF RestoreInv, SeenInv, VMIsSeen
  <2> QED
    BY <2>2, <2>3 DEF RestoreInv
<1> QED
  BY <1>1, <1>2, <1>3, SeenStep, TypeSafe, PTL DEF Spec, RestoreOnlyWhenClear
=============================================================================
