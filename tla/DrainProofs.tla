---------------------------- MODULE DrainProofs ----------------------------
(***************************************************************************)
(* Theorems about Drain, for every set of VMIs and pods, every option and  *)
(* every combination of hazards.                                           *)
(***************************************************************************)
EXTENDS Drain, TLAPS

\* A failed call gives one of three exit statuses.
LEMMA ContextErrorType == ContextError \in {"timeout", "interrupted", "failed"}
  BY DEF ContextError

\* The values that cordon, uncordon and the rollback write are node states.
LEMMA NodeValues == /\ [cordoned |-> TRUE, owner |-> "run"] \in NodeStates
                    /\ [cordoned |-> FALSE, owner |-> "none"] \in NodeStates
                    /\ \A n \in NodeStates, value \in BOOLEAN :
                         [n EXCEPT !.cordoned = value] \in NodeStates
  BY DEF NodeStates

\* The initial state is typed.
LEMMA TypeInit == Init => TypeOK
<1> SUFFICES ASSUME Init PROVE TypeOK
  OBVIOUS
<1>1. ClusterTypeOK
  <2>1. vmi \in [VMIs -> VmiStates] /\ launcher \in [VMIs -> LauncherStates]
    BY DEF Init, ClusterInit, VmiStates, LauncherStates
  <2>2. pods \in [Pods -> PodStates]
    BY ClusterAssumption DEF Init, ClusterInit, PodStates
  <2>3. mig \in [Uid -> Phases]
    BY DEF Init, ClusterInit, Phases
  <2>4. node \in NodeStates
    BY DEF Init, ClusterInit, NodeStates
  <2> QED
    BY <2>1, <2>2, <2>3, <2>4 DEF Init, ClusterInit, ClusterTypeOK, KubeVirtTypeOK
<1>2. snap \in Snapshots
  BY DEF Init, NoSnapshot, Snapshots
<1>3. 0 \in 0..(IF ClusterLimit > 2 THEN ClusterLimit ELSE 2)
  BY DrainAssumption
<1>4. requests \in [VMIs -> Nat]
  BY DEF Init
<1>5. signals \in 0..2 /\ emptyObs \in 0..3 /\ afterSignal \in Nat
  BY DEF Init
<1>6. pc \in Locations /\ stage \in Stages /\ result \in Results
  BY DEF Init, Stages, Locations, Results
<1> QED
  BY <1>1, <1>2, <1>3, <1>4, <1>5, <1>6 DEF Init, TypeOK

\* Every step of Drain keeps the types.
LEMMA TypeCoordinator == TypeOK /\ Coordinator => TypeOK'
<1> SUFFICES ASSUME TypeOK, Coordinator PROVE TypeOK'
  OBVIOUS
<1> USE ClusterAssumption, DrainAssumption, ContextErrorType
    DEF TypeOK, ClusterTypeOK, KubeVirtTypeOK, VmiStates, LauncherStates, PodStates, Phases,
      Stages, Locations, Results, Uid, Goto, Return, RevalidationFails,
      cluster, kubevirt, contexts, control, locals, accounts, history, vars
<1>a. /\ snap.pods \subseteq Pods /\ snap.vmis \subseteq VMIs /\ snap.launchers \subseteq VMIs
      /\ snap.active \subseteq Uid /\ snap.failed \subseteq Uid
  BY DEF Snapshots
<1>b. ActiveVMIs(snap) \subseteq VMIs
  BY <1>a DEF ActiveVMIs
<1>1. CASE CheckPermissions
  BY <1>1 DEF CheckPermissions
<1>2. CASE AcquireLease
  BY <1>2 DEF AcquireLease
<1>3. CASE ListPods
  <2>1. snap' \in Snapshots
    BY <1>3 DEF ListPods, EligiblePods, BarredPods, LauncherLike, NoSnapshot, Snapshots
  <2>2. cordonedByUs' \in BOOLEAN /\ late' = {}
    BY <1>3 DEF ListPods, TakesCordon
  <2> QED
    BY <1>3, <2>1, <2>2 DEF ListPods
<1>4. CASE ListVMIs
  <2>1. snap' \in Snapshots
    BY <1>4 DEF ListVMIs, OnSource, BlockedVMIs, Verified, Snapshots
  <2>2. observed' \subseteq VMIs
    BY <1>4 DEF ListVMIs, OnSource
  <2> QED
    BY <1>4, <2>1, <2>2 DEF ListVMIs
<1>5. CASE ListMigrations
  <2>1. snap' \in Snapshots
    BY <1>5 DEF ListMigrations, Snapshots
  <2> QED
    BY <1>5, <2>1 DEF ListMigrations
<1>6. CASE SnapshotFails
  BY <1>6 DEF SnapshotFails
<1>7. CASE InitialCheck
  BY <1>7 DEF InitialCheck
<1>8. CASE RevalidateCheck
  BY <1>8 DEF RevalidateCheck
<1>9. CASE ConfirmMigrations
  BY <1>9, <1>a DEF ConfirmMigrations
<1>10. CASE Baseline
  BY <1>10 DEF Baseline
<1>11. CASE Cordon
  <2>1. node' \in NodeStates
    <3>1. node' = node \/ node' = [cordoned |-> TRUE, owner |-> "run"]
      BY <1>11 DEF Cordon
    <3> QED
      BY <3>1, NodeValues
  <2>2. pc' \in Locations /\ stage' \in Stages /\ result' \in Results
    BY <1>11 DEF Cordon
  <2> QED
    BY <1>11, <2>1, <2>2 DEF Cordon
<1>12. CASE EvictCheck
  <2>1. todo' \subseteq Pods \cup VMIs /\ interrupted' \in BOOLEAN
    BY <1>12, <1>a DEF EvictCheck
  <2>2. pc' \in Locations /\ stage' \in Stages /\ result' \in Results
    BY <1>12 DEF EvictCheck
  <2> QED
    BY <1>12, <2>1, <2>2 DEF EvictCheck
<1>13. CASE EvictCall
  BY <1>13 DEF EvictCall, CountEviction
<1>14. CASE Limit
  <2>1. limit' \in 0..(IF ClusterLimit > 2 THEN ClusterLimit ELSE 2)
    <3>1. PICK discovered \in {ClusterLimit, 2} : limit' = LimitOf(discovered)
      BY <1>14 DEF Limit
    <3> QED
      BY <3>1 DEF LimitOf
  <2> QED
    BY <1>14, <1>a, <1>b, <2>1 DEF Limit, TrackVMIs
<1>15. CASE LoopTop
  BY <1>15 DEF LoopTop
<1>16. CASE ObservePass
  <2>1. tracked' \subseteq VMIs /\ failedSeen' \subseteq Uid /\ triggered' \subseteq VMIs
    BY <1>16, <1>a DEF ObservePass, NewFailures, TrackVMIs
  <2>2. todo' \subseteq Pods \cup VMIs
    BY <1>16, <1>a DEF ObservePass
  <2>3. pc' \in Locations /\ stage' \in Stages /\ result' \in Results
    BY <1>16 DEF ObservePass
  <2> QED
    BY <1>16, <2>1, <2>2, <2>3 DEF ObservePass
<1>17. CASE TriggerCheck
  <2>1. todo' \subseteq Pods \cup VMIs /\ interrupted' \in BOOLEAN
    BY <1>17 DEF TriggerCheck, Candidates
  <2>2. pc' \in Locations /\ stage' \in Stages /\ result' \in Results
    BY <1>17 DEF TriggerCheck
  <2> QED
    BY <1>17, <2>1, <2>2 DEF TriggerCheck
<1>18. CASE ConfirmCall
  BY <1>18 DEF ConfirmCall
<1>19. CASE TriggerCall
  <2>1. PICK v \in VMIs : \/ EvictLauncher(v)
                         \/ UNCHANGED <<kubevirt, requests, killed, afterSignal>>
    BY <1>19, <1>a DEF TriggerCall, NextCandidate, Candidates
  <2>2. /\ vmi' \in [VMIs -> VmiStates] /\ launcher' \in [VMIs -> LauncherStates]
        /\ ready' = ready /\ safe' = safe /\ evac' \in [VMIs -> BOOLEAN]
    BY <2>1 DEF EvictLauncher
  <2>3. mig' \in [Uid -> Phases]
    BY <2>1 DEF EvictLauncher
  <2>4. requests' \in [VMIs -> Nat] /\ killed' \subseteq VMIs
    <3>1. \/ requests' = requests /\ killed' = killed
          \/ requests' = [requests EXCEPT ![v] = @ + 1] /\ killed' = killed
          \/ requests' = requests /\ killed' = killed \cup {v}
      BY <2>1 DEF EvictLauncher
    <3>2. requests \in [VMIs -> Nat] /\ killed \subseteq VMIs
      OBVIOUS
    <3>3. requests' \in [VMIs -> Nat]
      <4>1. requests' = requests \/ requests' = [requests EXCEPT ![v] = requests[v] + 1]
        BY <3>1
      <4> HIDE DEF TypeOK
      <4> QED
        BY <3>2, <4>1
    <3>4. killed' \subseteq VMIs
      BY <3>1, <3>2
    <3> QED
      BY <3>3, <3>4
  <2>7. afterSignal' \in Nat
    BY <2>1 DEF EvictLauncher, CountEviction
  <2>5. triggered' \subseteq VMIs /\ todo' \subseteq Pods \cup VMIs
    <3>1. NextCandidate \subseteq VMIs
      BY <1>a DEF NextCandidate, Candidates
    <3>2. \/ UNCHANGED <<triggered, todo>>
          \/ \E w \in NextCandidate : triggered' = triggered \cup {w} /\ todo' \subseteq todo
      BY <1>19 DEF TriggerCall
    <3> QED
      BY <3>1, <3>2
  <2>6. pc' \in Locations /\ stage' \in Stages /\ result' \in Results
    BY <1>19 DEF TriggerCall
  <2> QED
    BY <1>19, <2>2, <2>3, <2>4, <2>5, <2>6, <2>7 DEF TriggerCall
<1>20. CASE Settle
  BY <1>20 DEF Settle
<1>21. CASE Verify
  BY <1>21 DEF Verify
<1>22. CASE FinalCheck
  <2>1. tracked' \subseteq VMIs /\ emptyObs' \in 0..3
    <3>1. tracked' = tracked \cup snap.vmis /\ (emptyObs' = emptyObs \/ emptyObs' = 0)
      BY <1>22 DEF FinalCheck, TrackVMIs
    <3>2. tracked' \subseteq VMIs
      BY <1>a, <3>1
    <3>3. emptyObs' \in 0..3
      BY <3>1
    <3> QED
      BY <3>2, <3>3
  <2>2. pc' \in Locations /\ stage' \in Stages /\ result' \in Results
    BY <1>22 DEF FinalCheck
  <2> QED
    BY <1>22, <2>1, <2>2 DEF FinalCheck
<1>23. CASE OutputFails
  BY <1>23 DEF OutputFails
<1>24. CASE Rollback
  <2>1. node' \in NodeStates
    <3>1. node' = node \/ node' = [cordoned |-> FALSE, owner |-> "none"]
      BY <1>24 DEF Rollback
    <3> QED
      BY <3>1, NodeValues
  <2> QED
    BY <1>24, <2>1 DEF Rollback
<1>25. CASE Release
  BY <1>25 DEF Release
<1> QED
  BY <1>1, <1>2, <1>3, <1>4, <1>5, <1>6, <1>7, <1>8, <1>9, <1>10, <1>11, <1>12, <1>13, <1>14,
     <1>15, <1>16, <1>17, <1>18, <1>19, <1>20, <1>21, <1>22, <1>23, <1>24, <1>25 DEF Coordinator

\* What KubeVirt, the kubelets and other people do is typed.
LEMMA TypeKubeVirt ==
  ASSUME TypeOK, KubeVirt PROVE TypeOK'
<1> USE ClusterAssumption DEF TypeOK, ClusterTypeOK, KubeVirtTypeOK, VmiStates,
        LauncherStates, Phases, Uid
<1>1. UNCHANGED <<pods, node, lease, contexts, control, locals, history>>
  BY DEF KubeVirt
<1>2. KubeVirtTypeOK'
  <2>1. ASSUME NEW v \in VMIs, CreateMigration(v) PROVE KubeVirtTypeOK'
    BY <2>1 DEF CreateMigration, NextAttempts
  <2>2. ASSUME NEW v \in VMIs, ForeignMigration(v) PROVE KubeVirtTypeOK'
    BY <2>2 DEF ForeignMigration, NextAttempts
  <2>3. ASSUME NEW v \in VMIs, HotplugAttaches(v) PROVE KubeVirtTypeOK'
    BY <2>3 DEF HotplugAttaches
  <2>4. ASSUME NEW v \in VMIs, LauncherRemoved(v) PROVE KubeVirtTypeOK'
    BY <2>4 DEF LauncherRemoved
  <2>5. ASSUME NEW v \in VMIs, LosesSafety(v) PROVE KubeVirtTypeOK'
    BY <2>5 DEF LosesSafety
  <2>6. ASSUME NEW v \in VMIs, LauncherRecorded(v) PROVE KubeVirtTypeOK'
    BY <2>6 DEF LauncherRecorded
  <2>7. ASSUME NEW v \in VMIs, VMStops(v) PROVE KubeVirtTypeOK'
    BY <2>7 DEF VMStops
  <2>8. ASSUME NEW v \in VMIs, VMStarts(v) PROVE KubeVirtTypeOK'
    BY <2>8 DEF VMStarts
  <2>9. ASSUME NEW u \in Uid, MigrationScheduled(u) PROVE KubeVirtTypeOK'
    BY <2>9 DEF MigrationScheduled
  <2>10. ASSUME NEW u \in Uid, MigrationSucceeds(u) PROVE KubeVirtTypeOK'
    BY <2>10 DEF MigrationSucceeds
  <2>11. ASSUME NEW u \in Uid, MigrationFails(u) PROVE KubeVirtTypeOK'
    BY <2>11 DEF MigrationFails
  <2> QED
    BY <2>1, <2>2, <2>3, <2>4, <2>5, <2>6, <2>7, <2>8, <2>9, <2>10, <2>11 DEF KubeVirt
<1> QED
  BY <1>1, <1>2 DEF contexts, control, locals, accounts, history

\* So does every step of a signal, the clock, KubeVirt, a kubelet or an operator.
LEMMA TypeEnvironment ==
  ASSUME TypeOK, Environment \/ UNCHANGED vars PROVE TypeOK'
<1> USE DEF TypeOK, KubeVirtTypeOK, cluster, kubevirt, contexts, control, locals, accounts, history
<1>1. CASE Interrupt
  BY <1>1 DEF Interrupt, ClusterTypeOK, Locations, Results
<1>2. CASE Kill
  BY <1>2 DEF Kill, ClusterTypeOK, Locations, Results
<1>3. CASE Deadline
  BY <1>3 DEF Deadline, ClusterTypeOK
<1>4. CASE KubeVirt
  BY <1>4, TypeKubeVirt
<1>5. CASE Inbound
  BY <1>5, ClusterAssumption
  DEF Inbound, LauncherArrives, VMIArrives, ClusterTypeOK, VmiStates, LauncherStates
<1>6. CASE Kubelet
  BY <1>6 DEF Kubelet, PodTerminates, PDBRelaxes, ClusterTypeOK, PodStates
<1>7. CASE LatePod
  BY <1>7, ClusterAssumption DEF LatePod, PodArrives, ClusterTypeOK, PodStates
<1>8. CASE OperatorSetsScheduling
  BY <1>8, NodeValues DEF OperatorSetsScheduling, ClusterTypeOK
<1>9. CASE UNCHANGED vars
  BY <1>9 DEF vars, ClusterTypeOK
<1> QED
  BY <1>1, <1>2, <1>3, <1>4, <1>5, <1>6, <1>7, <1>8, <1>9 DEF Environment

\* Type correctness of the run and the cluster.
THEOREM TypeSafe == Spec => []TypeOK
<1>1. TypeOK /\ [Next]_vars => TypeOK'
  BY TypeCoordinator, TypeEnvironment DEF Next, Exited
<1> QED
  BY <1>1, TypeInit, PTL DEF Spec

-----------------------------------------------------------------------------
(* An eviction that is not intercepted ends the run.                         *)

\* LosesOneVMAtMost is inductive: only TriggerCall shuts a VM down, and it then returns.
LEMMA LosesStep == TypeOK /\ LosesOneVMAtMost /\ [Next]_vars => LosesOneVMAtMost'
<1> SUFFICES ASSUME TypeOK, LosesOneVMAtMost, [Next]_vars PROVE LosesOneVMAtMost'
  OBVIOUS
<1>a. snap.launchers \subseteq VMIs
  BY DEF TypeOK, Snapshots
<1> USE ContextErrorType DEF LosesOneVMAtMost, Goto, Return, RevalidationFails, cluster, kubevirt,
                             contexts, control, locals, accounts, history
<1>1. CASE CheckPermissions
  BY <1>1 DEF CheckPermissions
<1>2. CASE AcquireLease
  BY <1>2 DEF AcquireLease
<1>3. CASE ListPods
  BY <1>3 DEF ListPods
<1>4. CASE ListVMIs
  BY <1>4 DEF ListVMIs
<1>5. CASE ListMigrations
  BY <1>5 DEF ListMigrations
<1>6. CASE SnapshotFails
  BY <1>6 DEF SnapshotFails
<1>7. CASE InitialCheck
  BY <1>7 DEF InitialCheck
<1>8. CASE RevalidateCheck
  BY <1>8 DEF RevalidateCheck
<1>9. CASE ConfirmMigrations
  BY <1>9 DEF ConfirmMigrations
<1>10. CASE Baseline
  BY <1>10 DEF Baseline
<1>11. CASE Cordon
  BY <1>11 DEF Cordon
<1>12. CASE EvictCheck
  BY <1>12 DEF EvictCheck
<1>13. CASE EvictCall
  BY <1>13 DEF EvictCall
<1>14. CASE Limit
  BY <1>14 DEF Limit
<1>15. CASE LoopTop
  BY <1>15 DEF LoopTop
<1>16. CASE ObservePass
  BY <1>16 DEF ObservePass
<1>17. CASE TriggerCheck
  BY <1>17 DEF TriggerCheck
<1>18. CASE ConfirmCall
  BY <1>18 DEF ConfirmCall
<1>19. CASE TriggerCall
  <2>1. killed = {} /\ pc = "triggerCall"
    BY <1>19 DEF TriggerCall
  <2>2. PICK v \in NextCandidate :
          \/ EvictLauncher(v) /\ Intercepted(v)
          \/ /\ EvictLauncher(v) \/ killed' = killed
             /\ Return(ContextError)
    BY <1>19 DEF TriggerCall
  <2>3. killed' = {} \/ killed' = {v}
    BY <2>1, <2>2 DEF EvictLauncher
  <2>4. CASE EvictLauncher(v) /\ Intercepted(v)
    <3>1. killed' = killed
      BY <2>4 DEF EvictLauncher, Intercepted
    <3> QED
      BY <2>1, <3>1
  <2>5. CASE Return(ContextError)
    <3>1. pc' = "release" /\ result' # "ok"
      BY <2>5
    <3>2. v \in snap.launchers
      BY DEF NextCandidate, Candidates
    <3>3. v \in VMIs
      BY <3>2, <1>a
    <3> QED
      BY <2>3, <3>1, <3>3
  <2> QED
    BY <2>2, <2>4, <2>5
<1>20. CASE Settle
  BY <1>20 DEF Settle
<1>21. CASE Verify
  BY <1>21 DEF Verify
<1>22. CASE FinalCheck
  BY <1>22 DEF FinalCheck
<1>23. CASE OutputFails
  BY <1>23 DEF OutputFails
<1>24. CASE Rollback
  BY <1>24 DEF Rollback
<1>25. CASE Release
  BY <1>25 DEF Release
<1>26. CASE Interrupt
  BY <1>26 DEF Interrupt
<1>27. CASE Kill
  BY <1>27 DEF Kill
<1>28. CASE Deadline
  BY <1>28 DEF Deadline
<1>29. CASE KubeVirt
  BY <1>29 DEF KubeVirt
<1>30. CASE Inbound
  BY <1>30 DEF Inbound
<1>31. CASE Kubelet
  BY <1>31 DEF Kubelet
<1>32. CASE LatePod
  BY <1>32 DEF LatePod
<1>33. CASE OperatorSetsScheduling
  BY <1>33 DEF OperatorSetsScheduling
<1>34. CASE UNCHANGED vars
  BY <1>34 DEF vars
<1> QED
  BY <1>1, <1>2, <1>3, <1>4, <1>5, <1>6, <1>7, <1>8, <1>9, <1>10, <1>11, <1>12, <1>13,
     <1>14, <1>15, <1>16, <1>17, <1>18, <1>19, <1>20, <1>21, <1>22, <1>23, <1>24, <1>25,
     <1>26, <1>27, <1>28, <1>29, <1>30, <1>31, <1>32, <1>33, <1>34
     DEF Next, Coordinator, Environment, Exited

\* triggerVMI treats an accepted deletion as a failure: one VM at most is shut down, and
\* the run does not report success.
THEOREM LosesSafe == Spec => []LosesOneVMAtMost
<1>1. Init => LosesOneVMAtMost
  BY DEF Init, LosesOneVMAtMost
<1> QED
  BY <1>1, LosesStep, TypeSafe, PTL DEF Spec

-----------------------------------------------------------------------------
(* A call that is under way when the signal arrives is the last eviction.    *)

\* OneEvictionAfterSignal is not inductive: that a call is only entered without a signal,
\* and that nothing is counted before the first one, has to be added.
SignalInv ==
  /\ OneEvictionAfterSignal /\ afterSignal \in Nat /\ signals \in Nat
  /\ signals = 0 => afterSignal = 0
  /\ pc \in {"evictCall", "confirmCall", "triggerCall"} => afterSignal = 0

\* The strengthened invariant is inductive.
LEMMA SignalStep == SignalInv /\ [Next]_vars => SignalInv'
<1> SUFFICES ASSUME SignalInv, [Next]_vars PROVE SignalInv'
  OBVIOUS
<1> USE DEF SignalInv, OneEvictionAfterSignal, Goto, Return, RevalidationFails, cluster, kubevirt,
            contexts, control, locals, accounts, history
<1>1. CASE CheckPermissions
  BY <1>1 DEF CheckPermissions
<1>2. CASE AcquireLease
  BY <1>2 DEF AcquireLease
<1>3. CASE ListPods
  BY <1>3 DEF ListPods
<1>4. CASE ListVMIs
  BY <1>4 DEF ListVMIs
<1>5. CASE ListMigrations
  BY <1>5 DEF ListMigrations
<1>6. CASE SnapshotFails
  BY <1>6 DEF SnapshotFails
<1>7. CASE InitialCheck
  BY <1>7 DEF InitialCheck
<1>8. CASE RevalidateCheck
  BY <1>8 DEF RevalidateCheck
<1>9. CASE ConfirmMigrations
  BY <1>9 DEF ConfirmMigrations
<1>10. CASE Baseline
  BY <1>10 DEF Baseline
<1>11. CASE Cordon
  BY <1>11 DEF Cordon
<1>12. CASE EvictCheck
  BY <1>12 DEF EvictCheck, StopRequested
<1>13. CASE EvictCall
  BY <1>13 DEF EvictCall, CountEviction
<1>14. CASE Limit
  BY <1>14 DEF Limit
<1>15. CASE LoopTop
  BY <1>15 DEF LoopTop
<1>16. CASE ObservePass
  BY <1>16 DEF ObservePass
<1>17. CASE TriggerCheck
  BY <1>17 DEF TriggerCheck, StopRequested
<1>18. CASE ConfirmCall
  BY <1>18 DEF ConfirmCall
<1>19. CASE TriggerCall
  BY <1>19 DEF TriggerCall, EvictLauncher, CountEviction
<1>20. CASE Settle
  BY <1>20 DEF Settle
<1>21. CASE Verify
  BY <1>21 DEF Verify
<1>22. CASE FinalCheck
  BY <1>22 DEF FinalCheck
<1>23. CASE OutputFails
  BY <1>23 DEF OutputFails
<1>24. CASE Rollback
  BY <1>24 DEF Rollback
<1>25. CASE Release
  BY <1>25 DEF Release
<1>26. CASE Interrupt
  BY <1>26 DEF Interrupt
<1>27. CASE Kill
  BY <1>27 DEF Kill
<1>28. CASE Deadline
  BY <1>28 DEF Deadline
<1>29. CASE KubeVirt
  BY <1>29 DEF KubeVirt
<1>30. CASE Inbound
  BY <1>30 DEF Inbound
<1>31. CASE Kubelet
  BY <1>31 DEF Kubelet
<1>32. CASE LatePod
  BY <1>32 DEF LatePod
<1>33. CASE OperatorSetsScheduling
  BY <1>33 DEF OperatorSetsScheduling
<1>34. CASE UNCHANGED vars
  BY <1>34 DEF vars
<1> QED
  BY <1>1, <1>2, <1>3, <1>4, <1>5, <1>6, <1>7, <1>8, <1>9, <1>10, <1>11, <1>12, <1>13,
     <1>14, <1>15, <1>16, <1>17, <1>18, <1>19, <1>20, <1>21, <1>22, <1>23, <1>24, <1>25,
     <1>26, <1>27, <1>28, <1>29, <1>30, <1>31, <1>32, <1>33, <1>34
     DEF Next, Coordinator, Environment, Exited

\* The eviction loops look at the parent context before every call, so that the first
\* signal lets one eviction through at most.
THEOREM SignalSafe == Spec => []OneEvictionAfterSignal
<1>1. Init => SignalInv
  BY DEF Init, SignalInv, OneEvictionAfterSignal
<1>2. SignalInv => OneEvictionAfterSignal
  BY DEF SignalInv
<1> QED
  BY <1>1, <1>2, SignalStep, PTL DEF Spec

-----------------------------------------------------------------------------
(* Evictions happen on a cordoned node, if nobody else reopens it.           *)

\* The node is cordoned after the initial stage, and during it once a snapshot has shown
\* it to be; the calls that evict belong to a later stage.
CordonInv ==
  /\ stage = "initial" /\ ~cordonedByUs
       /\ pc \in {"vmis", "migrations", "check", "confirm", "baseline", "cordon"} => node.cordoned
  /\ stage # "initial" /\ pc \notin {"release", "done"} => node.cordoned
  /\ pc \in {"evict", "evictCall", "limit", "loop", "trigger", "confirmCall", "triggerCall",
             "settle", "verify"} => stage # "initial"

\* CordonInv is inductive as long as nobody else sets the scheduling of the node.
LEMMA CordonStep ==
  ASSUME "operator" \notin Hazards
  PROVE  CordonInv /\ [Next]_vars => CordonInv'
<1> SUFFICES ASSUME CordonInv, [Next]_vars PROVE CordonInv'
  OBVIOUS
<1> USE DEF CordonInv, Goto, Return, RevalidationFails, cluster, kubevirt,
            contexts, control, locals, accounts, history
<1>1. CASE CheckPermissions
  BY <1>1 DEF CheckPermissions
<1>2. CASE AcquireLease
  BY <1>2 DEF AcquireLease
<1>3. CASE ListPods
  BY <1>3 DEF ListPods, TakesCordon
<1>4. CASE ListVMIs
  BY <1>4 DEF ListVMIs
<1>5. CASE ListMigrations
  BY <1>5 DEF ListMigrations
<1>6. CASE SnapshotFails
  BY <1>6 DEF SnapshotFails
<1>7. CASE InitialCheck
  BY <1>7 DEF InitialCheck
<1>8. CASE RevalidateCheck
  BY <1>8 DEF RevalidateCheck
<1>9. CASE ConfirmMigrations
  BY <1>9 DEF ConfirmMigrations
<1>10. CASE Baseline
  BY <1>10 DEF Baseline
<1>11. CASE Cordon
  BY <1>11 DEF Cordon
<1>12. CASE EvictCheck
  BY <1>12 DEF EvictCheck
<1>13. CASE EvictCall
  BY <1>13 DEF EvictCall
<1>14. CASE Limit
  BY <1>14 DEF Limit
<1>15. CASE LoopTop
  BY <1>15 DEF LoopTop
<1>16. CASE ObservePass
  BY <1>16 DEF ObservePass
<1>17. CASE TriggerCheck
  BY <1>17 DEF TriggerCheck
<1>18. CASE ConfirmCall
  BY <1>18 DEF ConfirmCall
<1>19. CASE TriggerCall
  BY <1>19 DEF TriggerCall
<1>20. CASE Settle
  BY <1>20 DEF Settle
<1>21. CASE Verify
  BY <1>21 DEF Verify
<1>22. CASE FinalCheck
  BY <1>22 DEF FinalCheck
<1>23. CASE OutputFails
  BY <1>23 DEF OutputFails
<1>24. CASE Rollback
  BY <1>24 DEF Rollback
<1>25. CASE Release
  BY <1>25 DEF Release
<1>26. CASE Interrupt
  BY <1>26 DEF Interrupt
<1>27. CASE Kill
  BY <1>27 DEF Kill
<1>28. CASE Deadline
  BY <1>28 DEF Deadline
<1>29. CASE KubeVirt
  BY <1>29 DEF KubeVirt
<1>30. CASE Inbound
  BY <1>30 DEF Inbound
<1>31. CASE Kubelet
  BY <1>31 DEF Kubelet
<1>32. CASE LatePod
  BY <1>32 DEF LatePod
<1>33. CASE OperatorSetsScheduling
  BY <1>33 DEF OperatorSetsScheduling
<1>34. CASE UNCHANGED vars
  BY <1>34 DEF vars
<1> QED
  BY <1>1, <1>2, <1>3, <1>4, <1>5, <1>6, <1>7, <1>8, <1>9, <1>10, <1>11, <1>12, <1>13,
     <1>14, <1>15, <1>16, <1>17, <1>18, <1>19, <1>20, <1>21, <1>22, <1>23, <1>24, <1>25,
     <1>26, <1>27, <1>28, <1>29, <1>30, <1>31, <1>32, <1>33, <1>34
     DEF Next, Coordinator, Environment, Exited

\* The calls that evict are the only steps that evict, whatever the cluster does.
LEMMA EvictingSteps ==
  ASSUME TypeOK, [Next]_vars, Evicts PROVE EvictCall \/ TriggerCall
<1> SUFFICES ASSUME ~EvictCall, ~TriggerCall PROVE FALSE
  OBVIOUS
<1> USE DEF cluster, kubevirt, contexts, control, locals, accounts, history, vars
<1>1. requests' = requests /\ killed' = killed
  BY DEF Next, Coordinator, Environment, Exited, CheckPermissions, AcquireLease, ListPods, ListVMIs,
    ListMigrations, SnapshotFails, InitialCheck, RevalidateCheck, ConfirmMigrations, Baseline,
    Cordon, EvictCheck, Limit, LoopTop, ObservePass, TriggerCheck, ConfirmCall, Settle, Verify,
    FinalCheck, OutputFails, Rollback, Release, Interrupt, Kill, Deadline, KubeVirt, Inbound,
    Kubelet, LatePod, OperatorSetsScheduling
<1>2. pods' = pods \/ Kubelet \/ LatePod
  BY DEF Next, Coordinator, Environment, Exited, CheckPermissions, AcquireLease, ListPods, ListVMIs,
    ListMigrations, SnapshotFails, InitialCheck, RevalidateCheck, ConfirmMigrations, Baseline,
    Cordon, EvictCheck, Limit, LoopTop, ObservePass, TriggerCheck, ConfirmCall, Settle, Verify,
    FinalCheck, OutputFails, Rollback, Release, Interrupt, Kill, Deadline, KubeVirt, Inbound,
    OperatorSetsScheduling
<1>3. PICK p \in Pods : pods[p] = "evictable" /\ pods'[p] = "terminating"
  BY <1>1 DEF Evicts
<1>4. pods \in [Pods -> PodStates]
  BY DEF TypeOK, ClusterTypeOK
<1>5. CASE pods' = pods
  BY <1>3, <1>5
<1>6. CASE Kubelet
  BY <1>3, <1>4, <1>6 DEF Kubelet, PodTerminates, PDBRelaxes
<1>7. CASE LatePod
  <2>1. PICK q \in Pods, class \in LateClasses :
          pods[q] = "absent" /\ pods' = [pods EXCEPT ![q] = class]
    BY <1>7 DEF LatePod, PodArrives
  <2> QED
    BY <1>3, <1>4, <2>1
<1> QED
  BY <1>2, <1>5, <1>6, <1>7

\* Drain cordons before it evicts and reopens the node only on its way out: when no
\* other writer reopens the node, nothing is evicted from one that is open.
THEOREM CordonSafe ==
  ASSUME "operator" \notin Hazards
  PROVE  Spec => EvictsOnlyCordoned
<1>1. Init => CordonInv
  BY DEF Init, CordonInv
<1>2. CordonInv /\ [Next]_vars => CordonInv'
  BY CordonStep
<1>3. TypeOK /\ CordonInv /\ [Next]_vars => [Evicts => node.cordoned]_vars
  <2> SUFFICES ASSUME TypeOK, CordonInv, [Next]_vars, Evicts PROVE node.cordoned
    OBVIOUS
  <2>1. pc \in {"evictCall", "triggerCall"}
    BY EvictingSteps DEF EvictCall, TriggerCall
  <2> QED
    BY <2>1 DEF CordonInv
<1> QED
  BY <1>1, <1>2, <1>3, TypeSafe, PTL DEF Spec, EvictsOnlyCordoned
=============================================================================
