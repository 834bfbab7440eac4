-------------------------- MODULE DrainLimitProofs --------------------------
(***************************************************************************)
(* The VMIs that were asked to leave and are still on the node stay within *)
(* the outbound limit.                                                     *)
(*                                                                         *)
(* A failed migration gives its slot back while KubeVirt goes on           *)
(* evacuating, so no count of slots is inductive.  The order of the        *)
(* trigger loop is: it asks a VMI only when every VMI before it counts, so *)
(* a VMI that was asked is among the first `limit` of the node, and stays  *)
(* among them since VMIs only leave (Arriving are those that also come).   *)
(* With the budget of the retries this makes the drain implement           *)
(* Evacuation.                                                             *)
(***************************************************************************)
EXTENDS DrainBudgetProofs, FunctionTheorems, WellFoundedInduction

\* The VMIs that are on the node and have been there from the start.
Residents == OnSource \ Arriving

\* Those of them the trigger loop comes to no later than to w.
UpTo(w) == {v \in Residents : v <= w}

\* Every resident is listed, with its launcher.
ListsResidents ==
  /\ \A v \in OnSource : launcher[v] = "running"
  /\ pc = "vmis" => Residents \subseteq snap.launchers
  /\ snap.vmis \ Arriving \subseteq snap.launchers
  /\ pc \in Listed => Residents \subseteq snap.vmis

\* A resident the trigger loop has passed counts against the limit.
PassedCounts ==
  pc \in {"trigger", "confirmCall", "triggerCall"} =>
    snap.vmis \ Arriving \subseteq todo \cup triggered \cup ActiveVMIs(snap)

\* A VMI that was asked is one of the first the loop comes to.
AskedFirst ==
  /\ \A v \in VMIs : evac[v] => requests[v] > 0
  /\ \A w \in Evacuating \ Arriving : Cardinality(UpTo(w)) <= limit

LimitInv == ListsResidents /\ PassedCounts /\ AskedFirst

-----------------------------------------------------------------------------
(* Counting.                                                                 *)

\* Sets of VMIs are finite.
LEMMA VMIsFinite ==
  ASSUME NEW S \in SUBSET VMIs
  PROVE  IsFiniteSet(S) /\ Cardinality(S) \in Nat
BY ClusterAssumption, FS_Subset, FS_CardinalityType

\* Of some VMIs one comes last.
LEMMA LastVMI ==
  ASSUME NEW S \in SUBSET VMIs, S # {}
  PROVE  \E w \in S : \A v \in S : v <= w
<1> DEFINE After(w) == {v \in VMIs : v > w}
           Tails    == {After(w) : w \in S}
<1>1. Tails \subseteq FiniteSubsetsOf(VMIs) /\ Tails # {}
  <2>1. \A w \in S : After(w) \in SUBSET VMIs
    OBVIOUS
  <2>2. \A w \in S : IsFiniteSet(After(w))
    BY <2>1, VMIsFinite
  <2> QED
    BY <2>1, <2>2 DEF FiniteSubsetsOf
<1>2. PICK T \in Tails : \A U \in Tails : <<U, T>> \notin StrictSubsetOrdering(VMIs)
  <2> HIDE DEF Tails
  <2> QED
    BY <1>1, FS_StrictSubsetOrderingWellFounded, WFMin
<1>3. PICK w \in S : T = After(w)
  OBVIOUS
<1>4. ASSUME NEW v \in S PROVE v <= w
  <2>1. v \in Nat /\ w \in Nat /\ \A x \in VMIs : x \in Nat
    BY ClusterAssumption
  <2>2. SUFFICES ASSUME v > w PROVE FALSE
    BY <2>1
  <2>3. After(v) \subseteq After(w) /\ v \in After(w) /\ v \notin After(v)
    <3>1. (\A x \in VMIs : x > v => x > w) /\ ~(v > v)
      BY <2>1, <2>2
    <3> QED
      BY <2>2, <3>1
  <2>4. <<After(v), After(w)>> \in StrictSubsetOrdering(VMIs)
    BY <2>3 DEF StrictSubsetOrdering
  <2> QED
    BY <1>2, <1>3, <2>4
<1> QED
  BY <1>4

\* What outstandingMigrations counts is at least the VMIs that migrate or were triggered.
LEMMA OutstandingCounts ==
  ASSUME NEW s \in Snapshots, triggered \subseteq VMIs
  PROVE  /\ Outstanding(s) \in Nat
         /\ Cardinality(ActiveVMIs(s) \cup (s.vmis \cap triggered)) <= Outstanding(s)
<1> DEFINE A == ActiveVMIs(s)
           W == (s.vmis \cap triggered) \ A
           first == [u \in s.active |-> u[1]]
<1>1. IsFiniteSet(s.active) /\ Cardinality(s.active) \in Nat
  <2>1. IsFiniteSet(VMIs) /\ IsFiniteSet(1..MaxAttempts)
    BY ClusterAssumption, FS_Interval
  <2>2. IsFiniteSet(Uid) /\ s.active \subseteq Uid
    BY <2>1, FS_Product DEF Uid, Snapshots
  <2> QED
    BY <2>2, FS_Subset, FS_CardinalityType
<1>2. A \in SUBSET VMIs /\ W \in SUBSET VMIs
  BY DEF ActiveVMIs, Snapshots, Uid
<1>3. Cardinality(A) <= Cardinality(s.active)
  <2>1. first \in Surjection(s.active, A)
    BY DEF Surjection, ActiveVMIs
  <2> HIDE DEF first, A
  <2> QED
    BY <1>1, <2>1, FS_Surjection
<1>4. /\ IsFiniteSet(A) /\ Cardinality(A) \in Nat
      /\ IsFiniteSet(W) /\ Cardinality(W) \in Nat
  BY <1>2, VMIsFinite
<1>5. A \cap W = {} /\ A \cup W = A \cup (s.vmis \cap triggered)
  OBVIOUS
<1>6. Cardinality(A \cup W) = Cardinality(A) + Cardinality(W)
  <2>1. Cardinality(A \cup W) = Cardinality(A) + Cardinality(W) - Cardinality(A \cap W)
    <3> HIDE DEF A, W
    <3> QED
      BY <1>4, FS_Union
  <2>2. Cardinality(A \cap W) = 0
    BY <1>5, FS_EmptySet
  <2> HIDE DEF A, W
  <2> QED
    BY <1>4, <2>1, <2>2
<1>7. Outstanding(s) = Cardinality(s.active) + Cardinality(W)
  BY DEF Outstanding
<1>8. Outstanding(s) \in Nat /\ Cardinality(A \cup W) <= Outstanding(s)
  <2> HIDE DEF A, W
  <2> QED
    BY <1>1, <1>3, <1>4, <1>6, <1>7
<1> QED
  BY <1>5, <1>8

\* If every VMI that was asked is among the first, there are not more of them.
LEMMA FirstAreFew ==
  ASSUME TypeOK, AskedFirst
  PROVE  Cardinality(Evacuating \ Arriving) <= limit
<1>1. /\ Evacuating \ Arriving \in SUBSET VMIs /\ limit \in Nat
      /\ \A w \in VMIs : UpTo(w) \in SUBSET VMIs
  BY DrainAssumption DEF Evacuating, UpTo, Residents, OnSource, TypeOK
<1>2. CASE Evacuating \ Arriving = {}
  BY <1>1, <1>2, FS_EmptySet
<1>3. CASE Evacuating \ Arriving # {}
  <2>1. PICK w \in Evacuating \ Arriving : \A v \in Evacuating \ Arriving : v <= w
    BY <1>1, <1>3, LastVMI
  <2>2. Evacuating \ Arriving \in SUBSET UpTo(w)
    BY <2>1 DEF UpTo, Residents, OnSource, Evacuating
  <2>3. IsFiniteSet(UpTo(w)) /\ Cardinality(UpTo(w)) \in Nat
    BY <1>1, <2>1, VMIsFinite
  <2>4. Cardinality(Evacuating \ Arriving) <= Cardinality(UpTo(w))
    BY <2>2, <2>3, FS_Subset
  <2>5. Cardinality(UpTo(w)) <= limit
    BY <2>1 DEF AskedFirst
  <2>6. Cardinality(Evacuating \ Arriving) \in Nat
    BY <1>1, VMIsFinite
  <2> QED
    BY <1>1, <2>3, <2>4, <2>5, <2>6
<1> QED
  BY <1>2, <1>3

-----------------------------------------------------------------------------
(* The list.                                                                 *)

\* No VMI comes to the node but from elsewhere, and its launcher runs where it runs.
LEMMA ResidentsLeave ==
  ASSUME TypeOK, \A v \in OnSource : launcher[v] = "running", [Next]_vars
  PROVE  /\ Residents' \subseteq Residents
         /\ \A v \in OnSource' : launcher'[v] = "running"
<1>t. vmi \in [VMIs -> VmiStates] /\ launcher \in [VMIs -> LauncherStates]
  BY DEF TypeOK, ClusterTypeOK, KubeVirtTypeOK
<1> USE <1>t DEF Residents, OnSource
<1>a. CASE UNCHANGED <<vmi, launcher>>
  BY <1>a
<1>b. ASSUME NEW v \in VMIs, NEW c \in {"target", "deleted", "reborn"},
             vmi' = [vmi EXCEPT ![v] = c],
             \/ launcher' = launcher
             \/ \E l \in LauncherStates : launcher' = [launcher EXCEPT ![v] = l]
      PROVE  Residents' \subseteq Residents /\ \A w \in OnSource' : launcher'[w] = "running"
  BY <1>b
<1>1. CASE TriggerCall
  <2>1. PICK v \in NextCandidate :
          \/ UNCHANGED <<vmi, launcher>>
          \/ /\ vmi' = [vmi EXCEPT ![v] = "deleted"]
             /\ launcher' = [launcher EXCEPT ![v] = "none"]
    BY <1>1 DEF TriggerCall, EvictLauncher, kubevirt
  <2>2. v \in VMIs /\ "none" \in LauncherStates
    BY DEF NextCandidate, Candidates, TypeOK, Snapshots, LauncherStates
  <2> QED
    BY <1>a, <1>b, <2>1, <2>2
<1>2. CASE KubeVirt
  <2>1. ASSUME NEW v \in VMIs, LauncherRemoved(v) \/ LauncherRecorded(v)
        PROVE  Residents' \subseteq Residents /\ \A w \in OnSource' : launcher'[w] = "running"
    BY <2>1 DEF LauncherRemoved, LauncherRecorded
  <2>2. ASSUME NEW v \in VMIs, VMStops(v) \/ VMStarts(v)
        PROVE  Residents' \subseteq Residents /\ \A w \in OnSource' : launcher'[w] = "running"
    <3>1. /\ \E c \in {"deleted", "reborn"} : vmi' = [vmi EXCEPT ![v] = c]
          /\ \/ launcher' = launcher
             \/ \E l \in LauncherStates : launcher' = [launcher EXCEPT ![v] = l]
      BY <2>2 DEF VMStops, VMStarts, LauncherStates
    <3> QED
      BY <1>b, <3>1
  <2>3. ASSUME NEW u \in Uid, MigrationSucceeds(u)
        PROVE  Residents' \subseteq Residents /\ \A w \in OnSource' : launcher'[w] = "running"
    <3>1. u[1] \in VMIs /\ "completed" \in LauncherStates
      BY DEF Uid, LauncherStates
    <3> QED
      BY <1>b, <2>3, <3>1 DEF MigrationSucceeds
  <2> QED
    BY <1>2, <1>a, <2>1, <2>2, <2>3 DEF KubeVirt, CreateMigration, ForeignMigration,
       HotplugAttaches, LosesSafety, MigrationScheduled, MigrationFails
<1>3. CASE Inbound
  <2>1. PICK v \in Arriving : LauncherArrives(v) \/ VMIArrives(v)
    BY <1>3 DEF Inbound
  <2> QED
    BY <2>1, ClusterAssumption DEF LauncherArrives, VMIArrives
<1>4. UNCHANGED <<vmi, launcher>> \/ TriggerCall \/ KubeVirt \/ Inbound
  BY DEF Next, Coordinator, Environment, Exited, vars, cluster, kubevirt,
     CheckPermissions, AcquireLease, ListPods, ListVMIs, ListMigrations, SnapshotFails,
     InitialCheck, RevalidateCheck, ConfirmMigrations, Baseline, Cordon, EvictCheck,
     EvictCall, Limit, LoopTop, ObservePass, TriggerCheck, ConfirmCall, Settle, Verify,
     FinalCheck, OutputFails, Rollback, Release, Interrupt, Kill, Deadline, Kubelet,
     LatePod, OperatorSetsScheduling
<1> QED
  BY <1>a, <1>1, <1>2, <1>3, <1>4

\* Residents are listed with their launchers: pods are listed first, but a resident of the
\* later list was one when the pods were listed.
LEMMA ListsStep == TypeOK /\ ListsResidents /\ [Next]_vars => ListsResidents'
<1> SUFFICES ASSUME TypeOK, ListsResidents, [Next]_vars PROVE ListsResidents'
  OBVIOUS
<1>1. Residents' \subseteq Residents /\ \A v \in OnSource' : launcher'[v] = "running"
  BY ResidentsLeave DEF ListsResidents
<1>t. Residents \subseteq VMIs /\ OnSource \subseteq VMIs
  BY DEF Residents, OnSource
<1> USE DEF Goto, Return, RevalidationFails, cluster, contexts, control, locals, accounts, history
<1>2. CASE ListPods
  <2>1. /\ pc' = "vmis" /\ snap'.vmis = {} /\ snap'.launchers = {v \in VMIs : launcher[v] # "none"}
        /\ UNCHANGED <<vmi, launcher>>
    BY <1>2 DEF ListPods, NoSnapshot, kubevirt
  <2> QED
    BY <1>1, <1>t, <2>1 DEF ListsResidents, Residents, Listed
<1>3. CASE ListVMIs
  <2>1. /\ pc = "vmis" /\ pc' = "migrations" /\ UNCHANGED <<vmi, launcher>>
        /\ snap'.vmis = OnSource /\ snap'.launchers = Verified
    BY <1>3 DEF ListVMIs, kubevirt, TypeOK, Snapshots
  <2>2. Residents \subseteq Verified
    BY <2>1, <1>t DEF ListsResidents, Residents, Verified
  <2> QED
    BY <1>1, <2>1, <2>2 DEF ListsResidents, Residents
<1>4. ASSUME UNCHANGED <<snap.vmis, snap.launchers>>,
             pc' = "vmis" => pc = "vmis", pc' \in Listed => pc \in Listed
      PROVE  ListsResidents'
  BY <1>1, <1>4 DEF ListsResidents
<1>5. CASE ListMigrations
  BY <1>4, <1>5 DEF ListMigrations, Listed
<1>6. \/ ListPods \/ ListVMIs \/ ListMigrations
      \/ /\ UNCHANGED snap
         /\ pc' = "vmis" => pc = "vmis"
         /\ pc' \in Listed => pc \in Listed
  BY DEF Listed, Next, Coordinator, Environment, Exited, vars, CheckPermissions, AcquireLease,
     SnapshotFails,
     InitialCheck, RevalidateCheck, ConfirmMigrations, Baseline, Cordon, EvictCheck,
     EvictCall, Limit, LoopTop, ObservePass, TriggerCheck, ConfirmCall, TriggerCall, Settle, Verify,
     FinalCheck, OutputFails, Rollback, Release, Interrupt, Kill, Deadline, KubeVirt, Inbound,
     Kubelet, LatePod, OperatorSetsScheduling
<1> QED
  BY <1>2, <1>3, <1>4, <1>5, <1>6

-----------------------------------------------------------------------------
(* The loop.                                                                 *)

\* The trigger loop starts with every listed VMI; the ones it drops count, or come before
\* the one it evicts and count as well.
LEMMA PassedStep ==
  TypeOK /\ ListsResidents /\ PassedCounts /\ [Next]_vars => PassedCounts'
<1> SUFFICES ASSUME TypeOK, ListsResidents, PassedCounts, [Next]_vars,
                    pc' \in {"trigger", "confirmCall", "triggerCall"}
             PROVE  (snap.vmis \ Arriving \subseteq todo \cup triggered \cup ActiveVMIs(snap))'
  BY DEF PassedCounts
<1> USE ContextErrorType DEF Goto, Return, RevalidationFails, cluster, contexts, control, locals,
        accounts, history
<1>1. CASE EvictCheck
  BY <1>1 DEF EvictCheck
<1>2. CASE TriggerCheck
  <2>1. pc = "trigger" /\ UNCHANGED <<snap, todo, triggered>>
    BY <1>2 DEF TriggerCheck
  <2> QED
    BY <2>1 DEF PassedCounts, ActiveVMIs
<1>3. CASE TriggerCall
  <2>1. PICK v \in NextCandidate : /\ triggered' = triggered \cup {v}
                                  /\ todo' = {w \in todo : v < w}
    BY <1>3 DEF TriggerCall
  <2>2. pc = "triggerCall" /\ snap' = snap
    BY <1>3 DEF TriggerCall
  <2>3. ASSUME NEW w \in snap.vmis \ Arriving, w \notin triggered \cup ActiveVMIs(snap), w # v
        PROVE  w \in todo'
    <3>1. w \in todo /\ w \in snap.launchers
      BY <2>2, <2>3 DEF PassedCounts, ListsResidents
    <3>2. w \in Candidates
      BY <2>3, <3>1 DEF NextCandidate, Candidates
    <3>3. v \in Nat /\ w \in Nat /\ v <= w
      BY <3>2, ClusterAssumption DEF NextCandidate, Candidates, TypeOK, Snapshots
    <3> QED
      BY <2>1, <2>3, <3>1, <3>3
  <2> QED
    BY <2>1, <2>2, <2>3 DEF ActiveVMIs
<1>4. CASE UNCHANGED <<snap, todo, triggered>> /\ pc \in {"trigger", "confirmCall", "triggerCall"}
  BY <1>4 DEF PassedCounts, ActiveVMIs
<1>5. \/ EvictCheck \/ TriggerCheck \/ TriggerCall
      \/ UNCHANGED <<snap, todo, triggered>> /\ pc \in {"trigger", "confirmCall", "triggerCall"}
  BY DEF Next, Coordinator, Environment, Exited, vars, CheckPermissions, AcquireLease,
     ListPods, ListVMIs, ListMigrations, SnapshotFails,
     InitialCheck, RevalidateCheck, ConfirmMigrations, Baseline, Cordon,
     EvictCall, Limit, LoopTop, ObservePass, ConfirmCall, Settle, Verify,
     FinalCheck, OutputFails, Rollback, Release, Interrupt, Kill, Deadline, KubeVirt, Inbound,
     Kubelet, LatePod, OperatorSetsScheduling
<1> QED
  BY <1>1, <1>2, <1>3, <1>4, <1>5

\* When the loop asks a resident, every resident up to it counts or is itself.
LEMMA AskedIsFirst ==
  ASSUME TypeOK, ListsResidents, PassedCounts, pc = "triggerCall",
         NEW w \in NextCandidate, w \notin Arriving
  PROVE  Cardinality(UpTo(w)) <= limit
<1> DEFINE counted == ActiveVMIs(snap) \cup (snap.vmis \cap triggered)
<1>t. /\ snap \in Snapshots /\ triggered \subseteq VMIs /\ limit \in Nat
      /\ w \in VMIs /\ \A v \in VMIs : v \in Nat
  BY DrainAssumption, ClusterAssumption DEF TypeOK, NextCandidate, Candidates, Snapshots
<1>1. counted \in SUBSET VMIs
  BY <1>t DEF ActiveVMIs, Snapshots, Uid
<1>2. Outstanding(snap) \in Nat /\ Cardinality(counted) <= Outstanding(snap)
  BY <1>t, OutstandingCounts
<1>3. Outstanding(snap) < limit
  BY DEF NextCandidate, Candidates
<1>4. UpTo(w) \subseteq counted \cup {w}
  <2> SUFFICES ASSUME NEW v \in UpTo(w), v # w PROVE v \in counted
    OBVIOUS
  <2>1. v \in snap.vmis \ Arriving /\ v <= w /\ v \in VMIs
    BY DEF UpTo, Residents, OnSource, ListsResidents, Listed
  <2>2. v \notin Candidates
    BY <1>t, <2>1 DEF NextCandidate
  <2>3. v \in snap.launchers
    BY <2>1 DEF ListsResidents
  <2>4. v \in todo => v \in triggered \cup ActiveVMIs(snap)
    BY <1>3, <2>2, <2>3 DEF Candidates
  <2> QED
    BY <2>1, <2>4 DEF PassedCounts
<1>5. /\ IsFiniteSet(counted) /\ Cardinality(counted) \in Nat
      /\ Cardinality(counted \cup {w}) <= Cardinality(counted) + 1
      /\ IsFiniteSet(counted \cup {w}) /\ Cardinality(counted \cup {w}) \in Nat
  <2>1. IsFiniteSet(counted) /\ Cardinality(counted) \in Nat
    BY <1>1, VMIsFinite
  <2>2. counted \cup {w} \in SUBSET VMIs
    BY <1>t, <1>1
  <2>3. IsFiniteSet(counted \cup {w}) /\ Cardinality(counted \cup {w}) \in Nat
    BY <2>2, VMIsFinite
  <2>4. Cardinality(counted \cup {w})
          = IF w \in counted THEN Cardinality(counted) ELSE Cardinality(counted) + 1
    BY <2>1, FS_AddElement
  <2> HIDE DEF counted
  <2> QED
    BY <2>1, <2>3, <2>4
<1>6. Cardinality(UpTo(w)) <= Cardinality(counted \cup {w}) /\ Cardinality(UpTo(w)) \in Nat
  <2>1. UpTo(w) \in SUBSET VMIs
    BY DEF UpTo, Residents, OnSource
  <2> HIDE DEF counted
  <2> QED
    BY <1>4, <1>5, <2>1, VMIsFinite, FS_Subset
<1> HIDE DEF counted
<1> QED
  BY <1>t, <1>2, <1>3, <1>5, <1>6

\* A VMI is evacuated only when the run has asked it.
LEMMA AskedStep ==
  TypeOK /\ ListsResidents /\ PassedCounts /\ AskedFirst /\ BudgetInv /\ [Next]_vars => AskedFirst'
<1> SUFFICES ASSUME TypeOK, ListsResidents, PassedCounts, AskedFirst, BudgetInv, [Next]_vars
             PROVE  AskedFirst'
  OBVIOUS
<1>t. /\ evac \in [VMIs -> BOOLEAN] /\ requests \in [VMIs -> Nat] /\ vmi \in [VMIs -> VmiStates]
      /\ OnSource \subseteq VMIs /\ NextCandidate \subseteq VMIs
  BY DEF TypeOK, ClusterTypeOK, KubeVirtTypeOK, OnSource, NextCandidate, Candidates, Snapshots
<1>1. Residents' \subseteq Residents
  BY ResidentsLeave DEF ListsResidents
<1>2. ASSUME NEW w \in VMIs
      PROVE  /\ IsFiniteSet(UpTo(w)) /\ Cardinality(UpTo(w)') \in Nat
             /\ Cardinality(UpTo(w)') <= Cardinality(UpTo(w)) /\ Cardinality(UpTo(w)) \in Nat
  <2>1. UpTo(w) \in SUBSET VMIs /\ UpTo(w)' \in SUBSET UpTo(w)
    BY <1>t, <1>1 DEF UpTo, Residents
  <2>2. IsFiniteSet(UpTo(w)) /\ Cardinality(UpTo(w)) \in Nat
    BY <2>1, VMIsFinite
  <2>3. IsFiniteSet(UpTo(w)') /\ Cardinality(UpTo(w)') <= Cardinality(UpTo(w))
    BY <2>1, <2>2, FS_Subset
  <2>4. Cardinality(UpTo(w)') \in Nat
    BY <2>3, FS_CardinalityType
  <2> QED
    BY <2>2, <2>3, <2>4
<1>3. limit \in Nat
  BY DrainAssumption DEF TypeOK
<1>4. ASSUME limit' = limit, requests' = requests, \A v \in VMIs : evac'[v] => evac[v]
      PROVE  AskedFirst'
  <2>1. \A v \in VMIs : evac'[v] => requests'[v] > 0
    BY <1>4 DEF AskedFirst
  <2>2. ASSUME NEW w \in (Evacuating \ Arriving)' PROVE Cardinality(UpTo(w)') <= limit'
    <3>1. w \in VMIs /\ w \in Residents' /\ evac'[w]
      BY <2>2 DEF Evacuating, Residents, OnSource
    <3>2. w \in Evacuating \ Arriving
      BY <1>1, <1>4, <3>1 DEF Evacuating, Residents, OnSource
    <3>3. Cardinality(UpTo(w)) <= limit
      BY <3>2 DEF AskedFirst
    <3> QED
      BY <1>2, <1>3, <1>4, <3>1, <3>3
  <2> QED
    BY <2>1, <2>2 DEF AskedFirst
<1>5. CASE Limit
  <2>1. requests = [v \in VMIs |-> 0] /\ UNCHANGED <<requests, evac>>
    BY <1>5 DEF Limit, BudgetInv, history, cluster, kubevirt
  <2>2. \A v \in VMIs : ~evac'[v]
    BY <2>1 DEF AskedFirst
  <2> QED
    BY <2>1, <2>2 DEF AskedFirst, Evacuating
<1>6. CASE TriggerCall
  <2>1. pc = "triggerCall" /\ limit' = limit
    BY <1>6 DEF TriggerCall
  <2>2. PICK v \in NextCandidate :
          \/ UNCHANGED <<evac, requests>>
          \/ /\ evac' = [evac EXCEPT ![v] = TRUE]
             /\ requests' = [requests EXCEPT ![v] = @ + 1]
    BY <1>6 DEF TriggerCall, EvictLauncher, kubevirt
  <2>3. CASE UNCHANGED <<evac, requests>>
    BY <1>4, <2>1, <2>3
  <2>4. CASE /\ evac' = [evac EXCEPT ![v] = TRUE]
             /\ requests' = [requests EXCEPT ![v] = @ + 1]
    <3>1. \A w \in VMIs : evac'[w] => requests'[w] > 0
      BY <1>t, <2>4 DEF AskedFirst
    <3>2. ASSUME NEW w \in (Evacuating \ Arriving)' PROVE Cardinality(UpTo(w)') <= limit'
      <4>1. w \in VMIs /\ w \in Residents' /\ evac'[w] /\ w \notin Arriving
        BY <3>2 DEF Evacuating, Residents, OnSource
      <4>2. CASE w = v
        BY <1>2, <1>3, <2>1, <4>1, <4>2, AskedIsFirst
      <4>3. CASE w # v
        <5>1. w \in Evacuating \ Arriving
          BY <1>1, <1>t, <2>4, <4>1, <4>3 DEF Evacuating, Residents, OnSource
        <5> QED
          BY <1>2, <1>3, <2>1, <4>1, <5>1 DEF AskedFirst
      <4> QED
        BY <4>2, <4>3
    <3> QED
      BY <3>1, <3>2 DEF AskedFirst
  <2> QED
    BY <2>2, <2>3, <2>4
<1>7. CASE UNCHANGED <<limit, requests>> /\ \A v \in VMIs : evac'[v] => evac[v]
  BY <1>4, <1>7
<1>8. CASE KubeVirt
  <2>1. UNCHANGED <<limit, requests>>
    BY <1>8 DEF KubeVirt, locals, accounts, history
  <2>2. UNCHANGED evac \/ \E v \in VMIs : evac' = [evac EXCEPT ![v] = FALSE]
    BY <1>8 DEF KubeVirt, CreateMigration, ForeignMigration, HotplugAttaches, LauncherRemoved,
       LosesSafety, VMStops, VMStarts, LauncherRecorded, MigrationScheduled, MigrationFails,
       MigrationSucceeds, Uid
  <2> QED
    BY <1>4, <1>t, <2>1, <2>2
<1>9. UNCHANGED <<limit, requests, evac>> \/ Limit \/ TriggerCall \/ KubeVirt
  BY DEF Next, Coordinator, Environment, Exited, vars, cluster, kubevirt, locals, accounts,
     history,
     CheckPermissions, AcquireLease, ListPods, ListVMIs, ListMigrations, SnapshotFails,
     InitialCheck, RevalidateCheck, ConfirmMigrations, Baseline, Cordon, EvictCheck,
     EvictCall, LoopTop, ObservePass, TriggerCheck, ConfirmCall, Settle, Verify,
     FinalCheck, OutputFails, Rollback, Release, Interrupt, Kill, Deadline, Inbound,
     LauncherArrives, VMIArrives, Kubelet, LatePod, OperatorSetsScheduling
<1> QED
  BY <1>5, <1>6, <1>7, <1>8, <1>9

-----------------------------------------------------------------------------
(* The limit.                                                                *)

\* The invariant holds in every behaviour.
LEMMA LimitInvariant == Spec => [](TypeOK /\ LimitInv)
<1>1. Init => LimitInv
  <2> SUFFICES ASSUME Init PROVE LimitInv
    OBVIOUS
  <2>1. /\ launcher = [v \in VMIs |-> IF vmi[v] = "source" THEN "running" ELSE "none"]
        /\ evac = [v \in VMIs |-> FALSE] /\ pc = "permissions" /\ snap = NoSnapshot
    BY DEF Init, ClusterInit
  <2> QED
    BY <2>1 DEF LimitInv, ListsResidents, PassedCounts, AskedFirst, OnSource, Evacuating,
       NoSnapshot, Listed
<1>2. TypeOK /\ BudgetInv /\ LimitInv /\ [Next]_vars => LimitInv'
  BY ListsStep, PassedStep, AskedStep DEF LimitInv
<1> QED
  BY <1>1, <1>2, BudgetBegins, BudgetStep, RestoreStep, TypeSafe, PTL DEF Spec

\* The VMIs of the node that were asked to leave (the trigger loop, outstandingMigrations)
\* stay within the outbound limit, whatever fails, is interrupted, restarts, migrates for
\* others or comes late.
THEOREM ResidentsWithinLimit == Spec => [](Cardinality(Evacuating \ Arriving) <= limit)
<1>1. TypeOK /\ LimitInv => Cardinality(Evacuating \ Arriving) <= limit
  BY FirstAreFew DEF LimitInv
<1> QED
  BY <1>1, LimitInvariant, PTL

\* On a node to which no VMI comes all of them do.
THEOREM LimitSafe ==
  ASSUME Arriving = {}
  PROVE  Spec => []LimitRespected
<1>1. Evacuating \ Arriving = Evacuating
  OBVIOUS
<1>2. Cardinality(Evacuating \ Arriving) <= limit => LimitRespected
  BY <1>1 DEF LimitRespected
<1> QED
  BY <1>2, ResidentsWithinLimit, PTL

-----------------------------------------------------------------------------
(* What the option and the limit mean to the cluster.                        *)

\* --parallel-outbound lowers the limit, and 0 means that it was not given.
OptionKept == ParallelOutbound > 0 => limit <= ParallelOutbound

\* --parallel-outbound binds, whatever KubeVirt's setting is and whether or not it could
\* be read (Drain, OutboundMigrationLimit).
THEOREM OptionBinds ==
  ASSUME ParallelOutbound > 0
  PROVE  Spec => [](Cardinality(Evacuating \ Arriving) <= ParallelOutbound)
<1>1. Init => OptionKept
  BY DrainAssumption DEF Init, OptionKept
<1>2. OptionKept /\ [Next]_vars => OptionKept'
  <2> SUFFICES ASSUME OptionKept, [Next]_vars PROVE OptionKept'
    OBVIOUS
  <2>1. CASE Limit
    <3>1. \E discovered \in {ClusterLimit, 2} : limit' = LimitOf(discovered)
      BY <2>1 DEF Limit
    <3> QED
      BY <3>1, DrainAssumption DEF LimitOf, OptionKept
  <2>2. CASE limit' = limit
    BY <2>2 DEF OptionKept
  <2>3. Limit \/ limit' = limit
    BY DEF Next, Coordinator, Environment, Exited, vars, locals, accounts,
       CheckPermissions, AcquireLease, ListPods, ListVMIs, ListMigrations, SnapshotFails,
       InitialCheck, RevalidateCheck, ConfirmMigrations, Baseline, Cordon, EvictCheck,
       EvictCall, LoopTop, ObservePass, TriggerCheck, ConfirmCall, TriggerCall, Settle, Verify,
       FinalCheck, OutputFails, Rollback, Release, Interrupt, Kill, Deadline, KubeVirt, Inbound,
       Kubelet, LatePod, OperatorSetsScheduling
  <2> QED
    BY <2>1, <2>2, <2>3
<1>3. TypeOK /\ LimitInv /\ OptionKept => Cardinality(Evacuating \ Arriving) <= ParallelOutbound
  <2> SUFFICES ASSUME TypeOK, LimitInv, OptionKept
               PROVE  Cardinality(Evacuating \ Arriving) <= ParallelOutbound
    OBVIOUS
  <2>1. Cardinality(Evacuating \ Arriving) <= limit /\ limit <= ParallelOutbound
    BY FirstAreFew DEF LimitInv, OptionKept
  <2>2. Evacuating \ Arriving \in SUBSET VMIs
    BY DEF Evacuating
  <2>3. Cardinality(Evacuating \ Arriving) \in Nat
    BY <2>2, VMIsFinite
  <2> QED
    BY <2>1, <2>3, DrainAssumption DEF TypeOK
<1> QED
  BY <1>1, <1>2, <1>3, LimitInvariant, PTL DEF Spec

\* KubeVirt migrates only what it was asked to evacuate.
FlightsAsked == \A u \in InFlightUids : evac[u[1]]

\* A migration that is under way for nobody else is one of an evacuation.
LEMMA FlightsStep ==
  ASSUME "foreign" \notin Hazards
  PROVE  TypeOK /\ OneFlight /\ FlightsAsked /\ [Next]_vars => FlightsAsked'
<1> SUFFICES ASSUME TypeOK, OneFlight, FlightsAsked, [Next]_vars PROVE FlightsAsked'
  OBVIOUS
<1>t. /\ evac \in [VMIs -> BOOLEAN] /\ mig \in [Uid -> Phases] /\ \A u \in Uid : u[1] \in VMIs
      /\ \A v \in VMIs, k \in 1..MaxAttempts : <<v, k>> \in Uid /\ <<v, k>>[1] = v
  BY DEF TypeOK, ClusterTypeOK, KubeVirtTypeOK, Uid
<1> USE <1>t DEF InFlightUids, FlightsAsked
<1>a. CASE UNCHANGED <<evac, mig>>
  BY <1>a
<1>b. ASSUME NEW v \in VMIs,
             mig' = [u \in Uid |-> IF u[1] = v /\ mig[u] \in {"queued", "active"}
                                   THEN "failed" ELSE mig[u]],
             evac' = evac \/ evac' = [evac EXCEPT ![v] = FALSE]
      PROVE  FlightsAsked'
  BY <1>b
<1>1. CASE TriggerCall
  <2>1. PICK v \in NextCandidate :
          \/ UNCHANGED <<evac, mig>>
          \/ mig' = mig /\ evac' = [evac EXCEPT ![v] = TRUE]
          \/ /\ mig' = [u \in Uid |-> IF u[1] = v /\ mig[u] \in {"queued", "active"}
                                      THEN "failed" ELSE mig[u]]
             /\ evac' = evac
    BY <1>1 DEF TriggerCall, EvictLauncher, kubevirt
  <2>2. v \in VMIs
    BY DEF NextCandidate, Candidates, TypeOK, Snapshots
  <2> QED
    BY <1>a, <1>b, <2>1, <2>2
<1>2. CASE KubeVirt
  <2>1. ASSUME NEW v \in VMIs, CreateMigration(v) PROVE FlightsAsked'
    BY <2>1 DEF CreateMigration, NextAttempts
  <2>2. ASSUME NEW v \in VMIs, VMStops(v) PROVE FlightsAsked'
    BY <1>b, <2>2 DEF VMStops
  <2>3. ASSUME NEW u \in Uid, MigrationSucceeds(u) PROVE FlightsAsked'
    <3>1. u \in InFlightUids /\ \A w \in InFlightUids' : w \in InFlightUids /\ w # u
      BY <2>3 DEF MigrationSucceeds
    <3>2. \A w \in InFlightUids' : w[1] # u[1]
      BY <3>1 DEF OneFlight
    <3> QED
      BY <2>3, <3>1, <3>2 DEF MigrationSucceeds
  <2>4. ASSUME NEW u \in Uid, MigrationScheduled(u) \/ MigrationFails(u) PROVE FlightsAsked'
    BY <2>4 DEF MigrationScheduled, MigrationFails
  <2>5. \A v \in VMIs : ~ForeignMigration(v)
    BY DEF ForeignMigration
  <2> QED
    BY <1>2, <1>a, <2>1, <2>2, <2>3, <2>4, <2>5 DEF KubeVirt, HotplugAttaches, LauncherRemoved,
       LosesSafety, VMStarts, LauncherRecorded
<1>3. UNCHANGED <<evac, mig>> \/ TriggerCall \/ KubeVirt
  BY DEF Next, Coordinator, Environment, Exited, vars, cluster, kubevirt,
     CheckPermissions, AcquireLease, ListPods, ListVMIs, ListMigrations, SnapshotFails,
     InitialCheck, RevalidateCheck, ConfirmMigrations, Baseline, Cordon, EvictCheck,
     EvictCall, Limit, LoopTop, ObservePass, TriggerCheck, ConfirmCall, Settle, Verify,
     FinalCheck, OutputFails, Rollback, Release, Interrupt, Kill, Deadline, Inbound,
     LauncherArrives, VMIArrives, Kubelet, LatePod, OperatorSetsScheduling
<1> QED
  BY <1>a, <1>1, <1>2, <1>3

\* The migrations that are under way of VMIs of the node stay within the limit, retries of
\* KubeVirt included, as long as nobody else migrates anything.
THEOREM MigrationsWithinLimit ==
  ASSUME "foreign" \notin Hazards
  PROVE  Spec => [](Cardinality({u \in InFlightUids : u[1] \notin Arriving}) <= limit)
<1> DEFINE flights == {u \in InFlightUids : u[1] \notin Arriving}
<1>1. Init => OneFlight /\ FlightsAsked
  <2> SUFFICES ASSUME Init PROVE OneFlight /\ FlightsAsked
    OBVIOUS
  <2>1. mig = [u \in Uid |-> "absent"]
    BY DEF Init, ClusterInit
  <2> QED
    BY <2>1 DEF OneFlight, FlightsAsked, InFlightUids
<1>2. TypeOK /\ LimitInv /\ OneFlight /\ FlightsAsked => Cardinality(flights) <= limit
  <2> SUFFICES ASSUME TypeOK, LimitInv, OneFlight, FlightsAsked PROVE Cardinality(flights) <= limit
    OBVIOUS
  <2> DEFINE first == [u \in flights |-> u[1]]
  <2>1. Evacuating \ Arriving \in SUBSET VMIs
    BY DEF Evacuating
  <2>2. IsFiniteSet(Evacuating \ Arriving) /\ Cardinality(Evacuating \ Arriving) \in Nat
    BY <2>1, VMIsFinite
  <2>3. first \in Injection(flights, Evacuating \ Arriving)
    <3>1. \A u \in flights : u[1] \in Evacuating \ Arriving
      BY DEF OneFlight, FlightsAsked, Evacuating, InFlightUids, Uid
    <3>2. \A u, w \in flights : u[1] = w[1] => u = w
      BY DEF OneFlight
    <3>3. /\ first \in [flights -> Evacuating \ Arriving]
          /\ \A u, w \in flights : first[u] = first[w] => u = w
      BY <3>1, <3>2
    <3> HIDE DEF flights, first
    <3> QED
      BY <3>3, Fun_IsInj
  <2>4. Cardinality(flights) <= Cardinality(Evacuating \ Arriving) /\ IsFiniteSet(flights)
    <3> HIDE DEF flights, first
    <3> QED
      BY <2>2, <2>3, FS_Injection
  <2>5. Cardinality(Evacuating \ Arriving) <= limit /\ limit \in Nat
    BY FirstAreFew, DrainAssumption DEF LimitInv, TypeOK
  <2>6. Cardinality(flights) \in Nat
    <3> HIDE DEF flights
    <3> QED
      BY <2>4, FS_CardinalityType
  <2> HIDE DEF flights
  <2> QED
    BY <2>2, <2>4, <2>5, <2>6
<1> QED
  BY <1>1, <1>2, FlightStep, FlightsStep, LimitInvariant, TypeSafe, PTL DEF Spec

-----------------------------------------------------------------------------
(* The promise of a drain.                                                   *)

Failed == {u \in Uid : mig[u] = "failed"}

\* The failures that the run counts have happened, and success means that nobody is left.
PromiseInv ==
  /\ snap.failed \cup failedSeen \subseteq Failed
  /\ result = "ok" => Residents = {}

\* A migration that has failed stays what it is.
LEMMA FailuresStay == TypeOK /\ [Next]_vars => Failed \subseteq Failed'
<1> SUFFICES ASSUME TypeOK, [Next]_vars PROVE Failed \subseteq Failed'
  OBVIOUS
<1>t. mig \in [Uid -> Phases] /\ \A u \in Uid : u[1] \in VMIs
  BY DEF TypeOK, ClusterTypeOK, KubeVirtTypeOK, Uid
<1> USE <1>t DEF Failed
<1>a. CASE UNCHANGED mig
  BY <1>a
<1>b. ASSUME NEW v \in VMIs,
             mig' = [u \in Uid |-> IF u[1] = v /\ mig[u] \in {"queued", "active"}
                                   THEN "failed" ELSE mig[u]]
      PROVE  Failed \subseteq Failed'
  BY <1>b
<1>c. ASSUME NEW u \in Uid, NEW phase \in Phases, mig[u] # "failed",
             mig' = [mig EXCEPT ![u] = phase]
      PROVE  Failed \subseteq Failed'
  BY <1>c
<1>1. CASE TriggerCall
  <2>1. PICK v \in NextCandidate :
          \/ mig' = mig
          \/ mig' = [u \in Uid |-> IF u[1] = v /\ mig[u] \in {"queued", "active"}
                                   THEN "failed" ELSE mig[u]]
    BY <1>1 DEF TriggerCall, EvictLauncher, kubevirt
  <2>2. v \in VMIs
    BY DEF NextCandidate, Candidates, TypeOK, Snapshots
  <2> QED
    BY <1>a, <1>b, <2>1, <2>2
<1>2. CASE KubeVirt
  <2>1. ASSUME NEW v \in VMIs, CreateMigration(v) \/ ForeignMigration(v)
        PROVE  Failed \subseteq Failed'
    <3>1. PICK k \in 1..MaxAttempts :
            /\ mig[<<v, k>>] = "absent"
            /\ \E phase \in {"queued", "active"} : mig' = [mig EXCEPT ![<<v, k>>] = phase]
      BY <2>1 DEF CreateMigration, ForeignMigration, NextAttempts
    <3>2. <<v, k>> \in Uid /\ {"queued", "active"} \subseteq Phases
      BY DEF Uid, Phases
    <3> QED
      BY <1>c, <3>1, <3>2
  <2>2. ASSUME NEW v \in VMIs, VMStops(v) PROVE Failed \subseteq Failed'
    BY <1>b, <2>2 DEF VMStops
  <2>3. ASSUME NEW u \in Uid, MigrationScheduled(u) \/ MigrationSucceeds(u) \/ MigrationFails(u)
        PROVE  Failed \subseteq Failed'
    BY <1>c, <2>3 DEF MigrationScheduled, MigrationSucceeds, MigrationFails, Phases
  <2> QED
    BY <1>2, <1>a, <2>1, <2>2, <2>3 DEF KubeVirt, HotplugAttaches, LauncherRemoved,
       LosesSafety, VMStarts, LauncherRecorded
<1>3. UNCHANGED mig \/ TriggerCall \/ KubeVirt
  BY DEF Next, Coordinator, Environment, Exited, vars, cluster, kubevirt,
     CheckPermissions, AcquireLease, ListPods, ListVMIs, ListMigrations, SnapshotFails,
     InitialCheck, RevalidateCheck, ConfirmMigrations, Baseline, Cordon, EvictCheck,
     EvictCall, Limit, LoopTop, ObservePass, TriggerCheck, ConfirmCall, Settle, Verify,
     FinalCheck, OutputFails, Rollback, Release, Interrupt, Kill, Deadline, Inbound,
     LauncherArrives, VMIArrives, Kubelet, LatePod, OperatorSetsScheduling
<1> QED
  BY <1>a, <1>1, <1>2, <1>3

\* KubeVirt stops to evacuate a VMI only when it has left.
LEMMA AskedStays ==
  ASSUME TypeOK, KubeVirt \/ Inbound
  PROVE  \A v \in OnSource' \ Arriving : evac'[v] = evac[v]
<1>t. /\ vmi \in [VMIs -> VmiStates] /\ evac \in [VMIs -> BOOLEAN]
      /\ \A u \in Uid : u[1] \in VMIs
  BY DEF TypeOK, ClusterTypeOK, KubeVirtTypeOK, Uid
<1>1. CASE KubeVirt
  <2>1. ASSUME NEW v \in VMIs, VMStops(v) PROVE \A w \in OnSource' : evac'[w] = evac[w]
    BY <1>t, <2>1 DEF VMStops, OnSource
  <2>2. ASSUME NEW u \in Uid, MigrationSucceeds(u) PROVE \A w \in OnSource' : evac'[w] = evac[w]
    BY <1>t, <2>2 DEF MigrationSucceeds, OnSource
  <2> QED
    BY <1>1, <2>1, <2>2 DEF KubeVirt, CreateMigration, ForeignMigration, HotplugAttaches,
       LauncherRemoved, LosesSafety, VMStarts, LauncherRecorded, MigrationScheduled,
       MigrationFails
<1>2. CASE Inbound
  BY <1>2 DEF Inbound, LauncherArrives, VMIArrives
<1> QED
  BY <1>1, <1>2

\* Failures are counted from a list, and the list that success rests on has no VMI.
LEMMA PromiseStep ==
  TypeOK /\ ListsResidents /\ PromiseInv /\ [Next]_vars => PromiseInv'
<1> SUFFICES ASSUME TypeOK, ListsResidents, PromiseInv, [Next]_vars PROVE PromiseInv'
  OBVIOUS
<1>1. Failed \subseteq Failed' /\ Residents' \subseteq Residents
  BY FailuresStay, ResidentsLeave DEF ListsResidents
<1> USE ContextErrorType DEF Goto, Return, RevalidationFails, cluster, contexts, control, locals,
        accounts, history
<1>2. CASE ListPods
  BY <1>1, <1>2 DEF ListPods, PromiseInv, NoSnapshot
<1>3. CASE ListVMIs
  <2>1. snap'.failed = snap.failed /\ UNCHANGED <<failedSeen, result>>
    BY <1>3 DEF ListVMIs, TypeOK, Snapshots
  <2> QED
    BY <1>1, <2>1 DEF PromiseInv
<1>4. CASE ListMigrations
  <2>1. snap'.failed = Failed /\ UNCHANGED <<failedSeen, result>>
    BY <1>4 DEF ListMigrations, TypeOK, Snapshots, Failed
  <2> QED
    BY <1>1, <2>1 DEF PromiseInv
<1>5. CASE ObservePass
  <2>1. /\ failedSeen' \subseteq failedSeen \cup snap.failed /\ snap' = snap
        /\ result' # "ok" \/ result' = result
    BY <1>5 DEF ObservePass, NewFailures
  <2> QED
    BY <1>1, <1>5, <2>1 DEF PromiseInv, ObservePass, NewFailures
<1>6. CASE FinalCheck
  <2>1. UNCHANGED <<snap, failedSeen>> /\ (result' = result \/ snap.vmis = {}) /\ pc = "check"
    BY <1>6 DEF FinalCheck, Quiet
  <2>2. Residents \subseteq snap.vmis
    BY <2>1 DEF ListsResidents, Listed
  <2> QED
    BY <1>1, <2>1, <2>2 DEF PromiseInv
<1>7. CASE UNCHANGED <<snap, failedSeen>> /\ (result' = "ok" => result = "ok")
  BY <1>1, <1>7 DEF PromiseInv
<1>8. \/ ListPods \/ ListVMIs \/ ListMigrations \/ ObservePass \/ FinalCheck
      \/ UNCHANGED <<snap, failedSeen>> /\ (result' = "ok" => result = "ok")
  BY DEF Next, Coordinator, Environment, Exited, vars, CheckPermissions, AcquireLease,
     SnapshotFails,
     InitialCheck, RevalidateCheck, ConfirmMigrations, Baseline, Cordon, EvictCheck,
     EvictCall, Limit, LoopTop, TriggerCheck, ConfirmCall, TriggerCall, Settle, Verify,
     OutputFails, Rollback, Release, Interrupt, Kill, Deadline, KubeVirt, Inbound,
     Kubelet, LatePod, OperatorSetsScheduling
<1> QED
  BY <1>2, <1>3, <1>4, <1>5, <1>6, <1>7, <1>8

\* An eviction asks a VMI that may be asked, or is the one that shuts a VMI down.
LEMMA TriggerKeepsPromise ==
  ASSUME TypeOK, BudgetInv, LosesOneVMAtMost, PromiseInv, [Next]_vars, TriggerCall,
         (Cardinality(Evacuating \ Arriving) <= limit)'
  PROVE  [Promise!Next]_(Promise!vars)
<1> DEFINE asked == [v \in VMIs \ Arriving |-> requests[v]]
<1>t. /\ vmi \in [VMIs -> VmiStates] /\ evac \in [VMIs -> BOOLEAN] /\ requests \in [VMIs -> Nat]
      /\ mig \in [Uid -> Phases] /\ failedSeen \in SUBSET Uid /\ Failed \in SUBSET Uid
      /\ NextCandidate \subseteq VMIs /\ NextCandidate \cap triggered = {}
  BY DEF TypeOK, ClusterTypeOK, KubeVirtTypeOK, Failed, NextCandidate, Candidates, Snapshots
<1>1. /\ pc = "triggerCall" /\ pc' # "done" /\ killed = {} /\ limit' = limit
  BY DEF TriggerCall, Goto, Return, LosesOneVMAtMost
<1>2. Failed \subseteq Failed'
  BY FailuresStay
<1>3. PICK v \in NextCandidate :
        \/ UNCHANGED <<vmi, evac, mig, requests, killed>>
        \/ /\ vmi[v] = "source" /\ evac' = [evac EXCEPT ![v] = TRUE]
           /\ requests' = [requests EXCEPT ![v] = @ + 1]
           /\ UNCHANGED <<vmi, mig, killed>>
        \/ /\ vmi[v] = "source" /\ vmi' = [vmi EXCEPT ![v] = "deleted"]
           /\ killed' = {v} /\ UNCHANGED <<evac, requests>>
  BY <1>1 DEF TriggerCall, EvictLauncher, kubevirt
<1>v. v \in VMIs /\ v \notin triggered
  BY <1>t
<1>4. CASE UNCHANGED <<vmi, evac, mig, requests, killed>>
  BY <1>1, <1>4 DEF Promise!vars, OnSource, Evacuating
<1>5. CASE /\ vmi[v] = "source" /\ evac' = [evac EXCEPT ![v] = TRUE]
           /\ requests' = [requests EXCEPT ![v] = @ + 1]
           /\ UNCHANGED <<vmi, mig, killed>>
  <2>1. CASE v \in Arriving
    <3>1. (OnSource \ Arriving)' = OnSource \ Arriving
      BY <1>5 DEF OnSource
    <3>2. (Evacuating \ Arriving)' = Evacuating \ Arriving
      BY <1>t, <1>5, <2>1 DEF Evacuating
    <3>3. asked' = asked
      BY <1>t, <1>5, <2>1
    <3> QED
      BY <1>1, <1>5, <3>1, <3>2, <3>3 DEF Promise!vars
  <2>2. CASE v \notin Arriving
    <3>1. (OnSource \ Arriving)' = OnSource \ Arriving /\ v \in OnSource \ Arriving
      BY <1>5, <1>v, <2>2 DEF OnSource
    <3>2. (Evacuating \ Arriving)' = (Evacuating \ Arriving) \cup {v}
      BY <1>t, <1>v, <1>5, <2>2 DEF Evacuating
    <3>3. asked' = [asked EXCEPT ![v] = @ + 1] /\ asked[v] = requests[v]
      BY <1>t, <1>v, <1>5, <2>2
    <3>4. requests[v] <= Retries /\ requests[v] <= Cardinality({f \in Failed : f[1] = v})
      <4>1. /\ Cardinality(Attempts(failedSeen, v)) <= Retries
            /\ requests[v] <= Cardinality(Attempts(failedSeen, v))
        BY <1>1, <1>v, <1>t, AttemptsFinite DEF BudgetInv, Paid
      <4>2. Cardinality(Attempts(failedSeen, v)) <= Cardinality(Attempts(Failed, v))
        BY <1>t, <1>v, AttemptsGrow DEF PromiseInv
      <4>3. /\ Cardinality(Attempts(failedSeen, v)) \in Nat
            /\ Cardinality(Attempts(Failed, v)) \in Nat /\ requests[v] \in Nat
        BY <1>t, <1>v, AttemptsFinite
      <4> QED
        BY <4>1, <4>2, <4>3, DrainAssumption DEF Attempts
    <3>6. Promise!Ask(v)
      <4>1. asked[v] <= Retries /\ asked[v] <= Cardinality({f \in Failed : f[1] = v})
        BY <3>3, <3>4
      <4>2. UNCHANGED <<Failed, killed, limit>> /\ killed \ Arriving = {}
        BY <1>1, <1>5 DEF Failed
      <4>3. Cardinality((Evacuating \ Arriving)') <= limit
        BY <1>1
      <4> QED
        BY <1>1, <3>1, <3>2, <3>3, <4>1, <4>2, <4>3
           DEF Promise!Ask, Failed, Promise!Cardinality, Cardinality
    <3> QED
      BY <1>1, <1>v, <2>2, <3>6 DEF Promise!Next
  <2> QED
    BY <2>1, <2>2
<1>6. CASE /\ vmi[v] = "source" /\ vmi' = [vmi EXCEPT ![v] = "deleted"]
           /\ killed' = {v} /\ UNCHANGED <<evac, requests>>
  <2>1. /\ OnSource' = OnSource \ {v} /\ Evacuating' = Evacuating \ {v} /\ v \in OnSource
    BY <1>t, <1>v, <1>6 DEF OnSource, Evacuating
  <2>2. CASE v \in Arriving
    BY <1>1, <1>2, <1>6, <2>1, <2>2 DEF Promise!Next, Promise!Others, Failed, OnSource, Evacuating
  <2>3. CASE v \notin Arriving
    <3>1. Promise!Lose(v)
      BY <1>1, <1>2, <1>6, <2>1, <2>3 DEF Promise!Lose, Failed
    <3> QED
      BY <1>1, <1>v, <2>3, <3>1 DEF Promise!Next
  <2> QED
    BY <2>2, <2>3
<1> QED
  BY <1>3, <1>4, <1>5, <1>6

\* KubeVirt and other people only make VMIs leave and migrations fail.
LEMMA OthersKeepPromise ==
  ASSUME TypeOK, LimitInv, [Next]_vars, KubeVirt \/ Inbound
  PROVE  [Promise!Next]_(Promise!vars)
<1>1. /\ Residents' \subseteq Residents /\ Failed \subseteq Failed'
      /\ \A v \in OnSource' \ Arriving : evac'[v] = evac[v]
  BY ResidentsLeave, FailuresStay, AskedStays DEF LimitInv, ListsResidents
<1>2. pc # "done" /\ UNCHANGED <<pc, requests, killed, limit>>
  BY DEF KubeVirt, Inbound, control, locals, accounts, history
<1>3. (Evacuating \ Arriving)' = (Evacuating \ Arriving) \cap (OnSource \ Arriving)'
  BY <1>1 DEF Evacuating, Residents, OnSource
<1> QED
  BY <1>1, <1>2, <1>3 DEF Promise!Next, Promise!Others, Residents, Failed

\* The limit is fixed before any VMI is asked and is within the option, KubeVirt's setting
\* or its default.
LEMMA LimitKeepsPromise ==
  ASSUME TypeOK, BudgetInv, Limit
  PROVE  Promise!Next
<1>1. PICK discovered \in {ClusterLimit, 2} : limit' = LimitOf(discovered)
  BY DEF Limit
<1>2. limit' \in 1..(IF ParallelOutbound > 0 THEN ParallelOutbound
                     ELSE IF ClusterLimit > 2 THEN ClusterLimit ELSE 2)
  BY <1>1, DrainAssumption DEF LimitOf
<1>3. /\ pc = "limit" /\ pc' = "loop" /\ requests = [v \in VMIs |-> 0]
      /\ UNCHANGED <<vmi, evac, mig, requests, killed>>
  BY DEF Limit, Goto, BudgetInv, cluster, kubevirt, history
<1>4. [v \in VMIs \ Arriving |-> requests[v]] = [v \in VMIs \ Arriving |-> 0]
  BY <1>3
<1>5. UNCHANGED <<OnSource, Evacuating, Failed>>
  BY <1>3 DEF OnSource, Evacuating, Failed
<1> QED
  BY <1>2, <1>3, <1>4, <1>5 DEF Promise!Next, Promise!Decide, Failed

\* Every step of a drain is one that its promise allows, or none.
LEMMA DrainStep ==
  ASSUME TypeOK, LimitInv, BudgetInv, LosesOneVMAtMost, PromiseInv, [Next]_vars,
         (Cardinality(Evacuating \ Arriving) <= limit)', LosesOneVMAtMost', PromiseInv'
  PROVE  [Promise!Next]_(Promise!vars)
<1>1. CASE TriggerCall
  BY <1>1, TriggerKeepsPromise
<1>2. CASE KubeVirt \/ Inbound
  BY <1>2, OthersKeepPromise
<1>3. CASE Limit
  BY <1>3, LimitKeepsPromise
<1>4. CASE /\ UNCHANGED <<vmi, evac, mig, requests, killed, limit>>
           /\ pc = "done" => UNCHANGED <<pc, result>>
  <2>1. UNCHANGED <<OnSource, Evacuating, Failed>>
    BY <1>4 DEF OnSource, Evacuating, Failed
  <2>2. CASE pc = "done" \/ pc' # "done"
    BY <1>4, <2>1, <2>2 DEF Promise!vars, Failed
  <2>3. CASE pc # "done" /\ pc' = "done"
    <3>1. result' = "ok" => OnSource \ Arriving = {} /\ killed \ Arriving = {}
      BY <1>4, <2>1 DEF PromiseInv, Residents, LosesOneVMAtMost
    <3> QED
      BY <1>4, <2>1, <2>3, <3>1 DEF Promise!Next, Promise!End, Failed
  <2> QED
    BY <2>2, <2>3
<1>5. \/ TriggerCall \/ KubeVirt \/ Inbound \/ Limit
      \/ /\ UNCHANGED <<vmi, evac, mig, requests, killed, limit>>
         /\ pc = "done" => UNCHANGED <<pc, result>>
  BY DEF Next, Coordinator, Environment, Exited, vars, cluster, kubevirt, control, locals,
     accounts, history, Goto, Return,
     CheckPermissions, AcquireLease, ListPods, ListVMIs, ListMigrations, SnapshotFails,
     InitialCheck, RevalidateCheck, ConfirmMigrations, Baseline, Cordon, EvictCheck,
     EvictCall, LoopTop, ObservePass, TriggerCheck, ConfirmCall, Settle, Verify,
     FinalCheck, OutputFails, Rollback, Release, Interrupt, Kill, Deadline, Kubelet,
     LatePod, OperatorSetsScheduling
<1> QED
  BY <1>1, <1>2, <1>3, <1>4, <1>5

\* A drain keeps the promise of Evacuation (Drain), whatever fails, is interrupted or comes
\* late: the machines leave at most `limit` at a time, are asked again only for a failure
\* that happened, and success means that each of them has left.
THEOREM DrainKeepsPromise == Spec => KeepsPromise
<1>1. Init => Promise!Init /\ PromiseInv /\ LosesOneVMAtMost
  <2> SUFFICES ASSUME Init PROVE Promise!Init /\ PromiseInv /\ LosesOneVMAtMost
    OBVIOUS
  <2>1. /\ \A v \in VMIs : vmi[v] = "source" <=> v \notin Arriving
        /\ evac = [v \in VMIs |-> FALSE] /\ \A u \in Uid : mig[u] # "failed"
        /\ requests = [v \in VMIs |-> 0] /\ killed = {} /\ limit = 0
        /\ pc = "permissions" /\ result = "running"
        /\ snap.failed = {} /\ failedSeen = {}
    BY DEF Init, ClusterInit, NoSnapshot
  <2>2. OnSource \ Arriving = VMIs \ Arriving /\ Evacuating = {} /\ Failed = {}
    BY <2>1 DEF OnSource, Evacuating, Failed
  <2> QED
    BY <2>1, <2>2 DEF Promise!Init, Failed, PromiseInv, LosesOneVMAtMost
<1>2. TypeOK /\ LimitInv /\ PromiseInv /\ [Next]_vars => PromiseInv'
  BY PromiseStep DEF LimitInv
<1>3. /\ TypeOK /\ LimitInv /\ BudgetInv /\ LosesOneVMAtMost /\ PromiseInv /\ [Next]_vars
      /\ (Cardinality(Evacuating \ Arriving) <= limit)' /\ LosesOneVMAtMost' /\ PromiseInv'
      => [Promise!Next]_(Promise!vars)
  BY DrainStep
<1> QED
  BY <1>1, <1>2, <1>3, LimitInvariant, ResidentsWithinLimit, BudgetBegins, BudgetStep,
     RestoreStep, LosesStep, PTL DEF Spec, KeepsPromise, Promise!Spec
=============================================================================
