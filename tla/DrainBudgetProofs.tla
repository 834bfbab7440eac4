------------------------- MODULE DrainBudgetProofs -------------------------
(***************************************************************************)
(* A VMI is asked to leave no more often than --retries allows, and a      *)
(* drain that succeeds has seen the hotplug volumes of every VMI it        *)
(* tracked.                                                                *)
(***************************************************************************)
EXTENDS DrainOutcomeProofs, FiniteSetTheorems

\* Failed attempts are counted in finite sets.
LEMMA AttemptsFinite ==
  ASSUME NEW seen \in SUBSET Uid, NEW v \in VMIs
  PROVE  IsFiniteSet(Attempts(seen, v)) /\ Cardinality(Attempts(seen, v)) \in Nat
<1>1. IsFiniteSet(VMIs) /\ IsFiniteSet(1..MaxAttempts)
  BY ClusterAssumption, FS_Interval
<1>2. IsFiniteSet(Uid)
  BY <1>1, FS_Product DEF Uid
<1>3. Attempts(seen, v) \subseteq Uid
  BY DEF Attempts
<1> QED
  BY <1>2, <1>3, FS_Subset, FS_CardinalityType

\* More failures are counted as more, and a new one of v as one more at least.
LEMMA AttemptsGrow ==
  ASSUME NEW seen \in SUBSET Uid, NEW more \in SUBSET Uid, NEW v \in VMIs, seen \subseteq more
  PROVE  /\ Cardinality(Attempts(seen, v)) <= Cardinality(Attempts(more, v))
         /\ (\E u \in more \ seen : u[1] = v) =>
              Cardinality(Attempts(seen, v)) + 1 <= Cardinality(Attempts(more, v))
<1>1. IsFiniteSet(Attempts(more, v)) /\ Cardinality(Attempts(more, v)) \in Nat
  BY AttemptsFinite
<1>2. IsFiniteSet(Attempts(seen, v)) /\ Cardinality(Attempts(seen, v)) \in Nat
  BY AttemptsFinite
<1>3. Attempts(seen, v) \subseteq Attempts(more, v)
  BY DEF Attempts
<1>4. Cardinality(Attempts(seen, v)) <= Cardinality(Attempts(more, v))
  BY <1>1, <1>3, FS_Subset
<1>5. ASSUME NEW u \in more \ seen, u[1] = v
      PROVE  Cardinality(Attempts(seen, v)) + 1 <= Cardinality(Attempts(more, v))
  <2>1. u \in Attempts(more, v) /\ u \notin Attempts(seen, v)
    BY <1>5 DEF Attempts
  <2>2. /\ Attempts(seen, v) \cup {u} \subseteq Attempts(more, v)
        /\ Cardinality(Attempts(seen, v) \cup {u}) = Cardinality(Attempts(seen, v)) + 1
    BY <1>2, <1>3, <2>1, FS_AddElement
  <2> QED
    BY <1>1, <2>2, FS_Subset
<1> QED
  BY <1>4, <1>5

-----------------------------------------------------------------------------
(* Requests are paid for with failures.                                      *)

\* A run that goes on has asked a VMI to leave once for each failure it has counted, and
\* once more while it waits for the outcome.
Paid ==
  \A v \in VMIs :
    /\ Cardinality(Attempts(failedSeen, v)) <= Retries
    /\ requests[v] <= Cardinality(Attempts(failedSeen, v)) + (IF v \in triggered THEN 1 ELSE 0)

BudgetInv ==
  /\ RequestsWithinBudget
  /\ pc \notin {"release", "done"} => Paid
  /\ pc = "limit" => requests = [v \in VMIs |-> 0]

\* What the steps that count nothing leave alone.
LEMMA CountingSteps ==
  ASSUME [Next]_vars
  PROVE  \/ /\ UNCHANGED <<requests, failedSeen, triggered>>
            /\ pc \in {"release", "done"} => pc' \in {"release", "done"}
            /\ pc' = "limit" => pc = "limit" \/ stage = "revalidate"
         \/ Limit \/ ObservePass \/ TriggerCall
<1> USE DEF Goto, Return, RevalidationFails, cluster, contexts, control, locals, accounts, history
<1> QED
  BY DEF Next, Coordinator, Environment, Exited, vars,
     CheckPermissions, AcquireLease, ListPods, ListVMIs, ListMigrations, SnapshotFails,
     InitialCheck, RevalidateCheck, ConfirmMigrations, Baseline, Cordon, EvictCheck,
     EvictCall, LoopTop, TriggerCheck, ConfirmCall, Settle, Verify, FinalCheck,
     OutputFails, Rollback, Release, Interrupt, Kill, Deadline, KubeVirt, Inbound, Kubelet,
     LatePod, OperatorSetsScheduling

\* The invariant is inductive.
LEMMA BudgetStep == TypeOK /\ RestoreInv /\ BudgetInv /\ [Next]_vars => BudgetInv'
<1> SUFFICES ASSUME TypeOK, RestoreInv, BudgetInv, [Next]_vars PROVE BudgetInv'
  OBVIOUS
<1>t. /\ failedSeen \in SUBSET Uid /\ triggered \in SUBSET VMIs /\ requests \in [VMIs -> Nat]
      /\ snap.failed \in SUBSET Uid /\ snap.launchers \in SUBSET VMIs /\ Retries \in Nat
  BY DrainAssumption DEF TypeOK, Snapshots
<1>1. CASE /\ UNCHANGED <<requests, failedSeen, triggered>>
           /\ pc \in {"release", "done"} => pc' \in {"release", "done"}
           /\ pc' = "limit" => pc = "limit" \/ stage = "revalidate"
  <2>1. RequestsWithinBudget' /\ (Paid => Paid')
    BY <1>1 DEF BudgetInv, RequestsWithinBudget, Paid, Attempts
  <2>2. pc' = "limit" => requests' = [v \in VMIs |-> 0]
    BY <1>1 DEF BudgetInv, RestoreInv, NoRequests
  <2> QED
    BY <1>1, <2>1, <2>2 DEF BudgetInv
<1>2. CASE Limit
  <2>1. /\ UNCHANGED <<requests, failedSeen>> /\ pc = "limit" /\ pc' = "loop"
    BY <1>2 DEF Limit, Goto, history
  <2>2. requests = [v \in VMIs |-> 0] /\ Paid
    BY <2>1 DEF BudgetInv
  <2>3. \A v \in VMIs : Cardinality(Attempts(failedSeen, v)) \in Nat
    BY <1>t, AttemptsFinite
  <2>4. Paid'
    BY <2>1, <2>2, <2>3 DEF Paid, Attempts
  <2> QED
    BY <2>1, <2>4 DEF BudgetInv, RequestsWithinBudget
<1>3. CASE ObservePass
  <2>1. requests' = requests /\ pc = "check" /\ pc' # "limit" /\ Paid
    BY <1>3 DEF ObservePass, Return, Goto, history, BudgetInv
  <2>2. CASE pc' = "release"
    BY <2>1, <2>2 DEF BudgetInv, RequestsWithinBudget
  <2>3. CASE pc' # "release"
    <3>1. /\ failedSeen' = failedSeen \cup NewFailures /\ ~OverBudget(failedSeen')
          /\ triggered' = triggered \ {u[1] : u \in NewFailures}
      BY <1>3, <2>3 DEF ObservePass, Return
    <3>2. failedSeen' \in SUBSET Uid
      BY <1>t, <3>1 DEF NewFailures
    <3>3. ASSUME NEW v \in VMIs
          PROVE  /\ Cardinality(Attempts(failedSeen', v)) <= Retries
                 /\ requests[v] <= Cardinality(Attempts(failedSeen', v))
                                   + (IF v \in triggered' THEN 1 ELSE 0)
      <4>1. /\ Cardinality(Attempts(failedSeen', v)) \in Nat
            /\ Cardinality(Attempts(failedSeen, v)) \in Nat
        BY <1>t, <3>2, AttemptsFinite
      <4>2. Cardinality(Attempts(failedSeen', v)) <= Retries
        <5>1. ~(Cardinality(Attempts(failedSeen', v)) > Retries)
          BY <3>1 DEF OverBudget
        <5> QED
          BY <1>t, <4>1, <5>1
      <4>3. Cardinality(Attempts(failedSeen, v)) <= Cardinality(Attempts(failedSeen', v))
        BY <1>t, <3>1, <3>2, AttemptsGrow
      <4>4. requests[v] <= Cardinality(Attempts(failedSeen, v))
                           + (IF v \in triggered THEN 1 ELSE 0)
        BY <2>1 DEF Paid
      <4>5. CASE v \in triggered /\ v \notin triggered'
        <5>1. PICK u \in NewFailures : u[1] = v
          BY <3>1, <4>5
        <5>2. u \in failedSeen' \ failedSeen
          BY <3>1, <5>1 DEF NewFailures
        <5>3. Cardinality(Attempts(failedSeen, v)) + 1 <= Cardinality(Attempts(failedSeen', v))
          BY <1>t, <3>1, <3>2, <5>1, <5>2, AttemptsGrow
        <5> QED
          BY <1>t, <4>1, <4>2, <4>4, <4>5, <5>3
      <4>6. CASE v \in triggered' \/ v \notin triggered
        BY <1>t, <3>1, <4>1, <4>2, <4>3, <4>4, <4>6
      <4> QED
        BY <4>5, <4>6
    <3>4. Paid'
      BY <2>1, <3>3 DEF Paid, Attempts
    <3> QED
      BY <2>1, <3>4 DEF BudgetInv, RequestsWithinBudget
  <2> QED
    BY <2>2, <2>3
<1>4. CASE TriggerCall
  <2>1. PICK v \in NextCandidate :
          /\ requests' = requests \/ requests' = [requests EXCEPT ![v] = @ + 1]
          /\ pc' = "release" \/ (pc' = "trigger" /\ triggered' = triggered \cup {v})
    BY <1>4 DEF TriggerCall, EvictLauncher, Goto, Return, history
  <2>2. v \in VMIs /\ v \notin triggered
    BY <1>t DEF NextCandidate, Candidates
  <2>3. failedSeen' = failedSeen /\ Paid
    BY <1>4 DEF TriggerCall, BudgetInv
  <2>4. \A w \in VMIs : Cardinality(Attempts(failedSeen, w)) \in Nat
    BY <1>t, AttemptsFinite
  <2>5. \A w \in VMIs :
          requests'[w] <= Cardinality(Attempts(failedSeen, w))
                          + (IF w \in triggered \cup {v} THEN 1 ELSE 0)
    BY <1>t, <2>1, <2>2, <2>3, <2>4 DEF Paid
  <2>6. RequestsWithinBudget'
    <3>1. \A w \in VMIs : requests'[w] \in Nat /\ Cardinality(Attempts(failedSeen, w)) <= Retries
      BY <1>t, <2>1, <2>2, <2>3 DEF Paid
    <3> QED
      BY <1>t, <2>4, <2>5, <3>1 DEF RequestsWithinBudget
  <2>7. pc' # "release" => Paid'
    BY <2>1, <2>3, <2>5 DEF Paid, Attempts
  <2> QED
    BY <2>1, <2>6, <2>7 DEF BudgetInv
<1> QED
  BY <1>1, <1>2, <1>3, <1>4, CountingSteps

\* At first nothing has been asked of any VMI.
LEMMA BudgetBegins == Init => RestoreInv /\ BudgetInv
<1> SUFFICES ASSUME Init PROVE RestoreInv /\ BudgetInv
  OBVIOUS
<1>1. failedSeen = {} /\ requests = [v \in VMIs |-> 0] /\ pc = "permissions"
  BY DEF Init
<1>2. \A v \in VMIs : Attempts(failedSeen, v) = {}
  BY <1>1 DEF Attempts
<1>3. BudgetInv
  BY <1>1, <1>2, FS_EmptySet, DrainAssumption DEF BudgetInv, RequestsWithinBudget, Paid
<1> QED
  BY <1>3, RestoreBegins

\* A VMI is asked to leave again only after a failure that --retries pays for
\* (observeFailed and the trigger loop), for any cluster and whatever goes wrong.
THEOREM BudgetSafe == Spec => []RequestsWithinBudget
<1>1. BudgetInv => RequestsWithinBudget
  BY DEF BudgetInv
<1> QED
  BY <1>1, BudgetBegins, BudgetStep, RestoreStep, TypeSafe, PTL DEF Spec

-----------------------------------------------------------------------------
(* Verified hotplug volumes stay verified.                                   *)

InFlightUids == {u \in Uid : mig[u] \in {"queued", "active"}}

\* A VMI has one migration at a time, and only while it is on the node.
OneFlight ==
  \A u \in InFlightUids :
    vmi[u[1]] = "source" /\ \A w \in InFlightUids : w[1] = u[1] => w = u

\* Where a VMI may go, and when its volumes may have to be attached again.
VMIMoves ==
  \A v \in VMIs :
    /\ vmi'[v] = "elsewhere" => vmi[v] = "elsewhere"
    /\ vmi'[v] = "source" => vmi[v] \in {"source", "elsewhere"}
    /\ vmi[v] \in {"deleted", "reborn"} => vmi'[v] \in {"deleted", "reborn"}
    /\ ready[v] /\ vmi[v] # "source" => ready'[v]

\* Between two states a VMI leaves the node by its one migration, by being stopped or by
\* an eviction that is not intercepted, and comes to it from elsewhere only.
LEMMA FlightStep ==
  TypeOK /\ OneFlight /\ [Next]_vars => OneFlight' /\ VMIMoves
<1> SUFFICES ASSUME TypeOK, OneFlight, [Next]_vars PROVE OneFlight' /\ VMIMoves
  OBVIOUS
<1>t. /\ vmi \in [VMIs -> VmiStates] /\ ready \in [VMIs -> BOOLEAN] /\ mig \in [Uid -> Phases]
      /\ \A u \in Uid : u[1] \in VMIs
      /\ \A v \in VMIs, k \in 1..MaxAttempts : <<v, k>> \in Uid /\ <<v, k>>[1] = v
  BY DEF TypeOK, ClusterTypeOK, KubeVirtTypeOK, Uid
<1> USE <1>t
<1>a. CASE UNCHANGED <<vmi, ready, mig>>
  BY <1>a DEF OneFlight, InFlightUids, VMIMoves
<1>b. ASSUME NEW v \in VMIs, CreateMigration(v) \/ ForeignMigration(v) PROVE OneFlight' /\ VMIMoves
  <2>1. PICK k \in 1..MaxAttempts :
          \E phase \in {"queued", "active"} : mig' = [mig EXCEPT ![<<v, k>>] = phase]
    BY <1>b DEF CreateMigration, ForeignMigration, NextAttempts
  <2>2. /\ UNCHANGED <<vmi, ready>> /\ vmi[v] = "source"
        /\ \A j \in 1..MaxAttempts : mig[<<v, j>>] \notin {"queued", "active"}
    BY <1>b DEF CreateMigration, ForeignMigration, InFlight
  <2>3. \A u \in InFlightUids : u[1] # v
    BY <2>2 DEF InFlightUids, Uid
  <2>4. InFlightUids' = InFlightUids \cup {<<v, k>>}
    BY <2>1 DEF InFlightUids
  <2> QED
    BY <2>2, <2>3, <2>4 DEF OneFlight, VMIMoves
<1>c. ASSUME NEW u \in Uid, MigrationScheduled(u) \/ MigrationFails(u) PROVE OneFlight' /\ VMIMoves
  <2>1. InFlightUids' \subseteq InFlightUids /\ UNCHANGED <<vmi, ready>>
    BY <1>c DEF MigrationScheduled, MigrationFails, InFlightUids
  <2> QED
    BY <2>1 DEF OneFlight, VMIMoves
<1>d. ASSUME NEW u \in Uid, MigrationSucceeds(u) PROVE OneFlight' /\ VMIMoves
  <2>1. u \in InFlightUids /\ InFlightUids' = InFlightUids \ {u}
    BY <1>d DEF MigrationSucceeds, InFlightUids
  <2>2. vmi[u[1]] = "source" /\ \A w \in InFlightUids' : w[1] # u[1]
    BY <2>1 DEF OneFlight
  <2>3. /\ vmi' = [vmi EXCEPT ![u[1]] = "target"]
        /\ ready' = [ready EXCEPT ![u[1]] = u[1] \notin Hotplugged]
    BY <1>d DEF MigrationSucceeds
  <2>4. OneFlight'
    BY <2>1, <2>2, <2>3 DEF OneFlight, InFlightUids
  <2>5. VMIMoves
    BY <2>2, <2>3 DEF VMIMoves
  <2> QED
    BY <2>4, <2>5
<1>e. ASSUME NEW v \in VMIs, vmi[v] \in {"source", "target"},
             ready' = ready, vmi' = [vmi EXCEPT ![v] = "deleted"],
             mig' = [u \in Uid |-> IF u[1] = v /\ mig[u] \in {"queued", "active"}
                                   THEN "failed" ELSE mig[u]]
      PROVE  OneFlight' /\ VMIMoves
  <2>1. InFlightUids' = {u \in InFlightUids : u[1] # v}
    BY <1>e DEF InFlightUids
  <2>2. OneFlight'
    BY <1>e, <2>1 DEF OneFlight, InFlightUids
  <2> QED
    BY <1>e, <2>2 DEF VMIMoves
<1>f. ASSUME NEW v \in VMIs, VMStarts(v) \/ VMIArrives(v) PROVE OneFlight' /\ VMIMoves
  <2>1. /\ UNCHANGED <<ready, mig>> /\ vmi[v] # "source"
        /\ \/ vmi[v] = "deleted" /\ vmi' = [vmi EXCEPT ![v] = "reborn"]
           \/ vmi[v] = "elsewhere" /\ vmi' = [vmi EXCEPT ![v] = "source"]
    BY <1>f DEF VMStarts, VMIArrives
  <2>2. InFlightUids' = InFlightUids /\ \A u \in InFlightUids : u[1] # v
    BY <2>1 DEF InFlightUids, OneFlight
  <2>3. OneFlight'
    BY <2>1, <2>2 DEF OneFlight, InFlightUids
  <2> QED
    BY <2>1, <2>3 DEF VMIMoves
<1>g. ASSUME NEW v \in VMIs, HotplugAttaches(v) PROVE OneFlight' /\ VMIMoves
  BY <1>g DEF HotplugAttaches, OneFlight, InFlightUids, VMIMoves
<1>1. CASE TriggerCall
  <2>1. PICK v \in NextCandidate :
          \/ UNCHANGED <<vmi, ready, mig>>
          \/ /\ ready' = ready /\ vmi' = [vmi EXCEPT ![v] = "deleted"] /\ vmi[v] = "source"
             /\ mig' = [u \in Uid |-> IF u[1] = v /\ mig[u] \in {"queued", "active"}
                                      THEN "failed" ELSE mig[u]]
    BY <1>1 DEF TriggerCall, EvictLauncher, kubevirt
  <2>2. v \in VMIs
    BY DEF NextCandidate, Candidates, TypeOK, Snapshots
  <2> QED
    BY <1>a, <1>e, <2>1, <2>2
<1>2. CASE KubeVirt
  <2>1. \/ UNCHANGED <<vmi, ready, mig>>
        \/ \E v \in VMIs : CreateMigration(v) \/ ForeignMigration(v) \/ HotplugAttaches(v)
                           \/ VMStops(v) \/ VMStarts(v)
        \/ \E u \in Uid : MigrationScheduled(u) \/ MigrationSucceeds(u) \/ MigrationFails(u)
    BY <1>2 DEF KubeVirt, LauncherRemoved, LosesSafety, LauncherRecorded
  <2>2. ASSUME NEW v \in VMIs, VMStops(v) PROVE OneFlight' /\ VMIMoves
    BY <1>e, <2>2 DEF VMStops
  <2> QED
    BY <1>a, <1>b, <1>c, <1>d, <1>f, <1>g, <2>1, <2>2
<1>3. CASE Inbound
  <2>1. \E v \in VMIs : LauncherArrives(v) \/ VMIArrives(v)
    BY <1>3, ClusterAssumption DEF Inbound
  <2> QED
    BY <1>a, <1>f, <2>1 DEF LauncherArrives
<1>4. UNCHANGED <<vmi, ready, mig>> \/ TriggerCall \/ KubeVirt \/ Inbound
  BY DEF Next, Coordinator, Environment, Exited, vars, cluster, kubevirt,
     CheckPermissions, AcquireLease, ListPods, ListVMIs, ListMigrations, SnapshotFails,
     InitialCheck, RevalidateCheck, ConfirmMigrations, Baseline, Cordon, EvictCheck,
     EvictCall, Limit, LoopTop, ObservePass, TriggerCheck, ConfirmCall, Settle, Verify,
     FinalCheck, OutputFails, Rollback, Release, Interrupt, Kill, Deadline, Kubelet,
     LatePod, OperatorSetsScheduling
<1> QED
  BY <1>a, <1>1, <1>2, <1>3, <1>4

\* The places where the latest list of the VMIs is complete.
Listed ==
  {"migrations", "check", "confirm", "baseline", "cordon", "evict", "evictCall", "limit", "loop",
   "trigger", "confirmCall", "triggerCall", "settle", "verify"}

\* The final snapshot is under way, or the drain has succeeded.
Finishing ==
  (stage = "final" /\ pc \in {"pods", "vmis", "migrations", "check"}) \/ result = "ok"

\* A tracked VMI that the list does not show is not on the node and does not come back;
\* once the volumes are verified there is no tracked VMI left that could migrate again.
TrackInv ==
  /\ pc \in {"permissions", "lease"} => stage = "initial"
  /\ \A v \in tracked \cup snap.vmis : vmi[v] # "elsewhere"
  /\ pc \in Listed => \A v \in tracked \ snap.vmis : vmi[v] # "source"
  /\ pc = "verify" => snap.vmis = {}
  /\ result = "ok" => pc \in {"release", "done"}
  /\ Finishing => \A v \in tracked : /\ vmi[v] # "source"
                                     /\ ready[v] \/ vmi[v] \in {"deleted", "reborn"}

\* The invariant is inductive.
LEMMA TrackStep ==
  TypeOK /\ RestoreInv /\ TrackInv /\ VMIMoves /\ [Next]_vars => TrackInv'
<1> SUFFICES ASSUME TypeOK, RestoreInv, TrackInv, VMIMoves, [Next]_vars PROVE TrackInv'
  OBVIOUS
<1>t. tracked \subseteq VMIs /\ snap.vmis \subseteq VMIs
  BY DEF TypeOK, Snapshots
<1> USE <1>t, ContextErrorType DEF RestoreInv, TrackInv, VMIMoves, Listed, Finishing, OnSource,
        Goto, Return, RevalidationFails, cluster, contexts, control, locals, accounts, history
<1>1. CASE CheckPermissions
  BY <1>1 DEF CheckPermissions
<1>2. CASE AcquireLease
  BY <1>2 DEF AcquireLease, kubevirt
<1>3. CASE ListPods
  <2>1. /\ snap'.vmis = {} /\ pc' = "vmis" /\ pc = "pods"
        /\ UNCHANGED <<vmi, ready, tracked, stage, result>>
    BY <1>3 DEF ListPods, NoSnapshot, kubevirt
  <2> QED
    BY <2>1
<1>4. CASE ListVMIs
  BY <1>4 DEF ListVMIs
<1>5. CASE ListMigrations
  BY <1>5 DEF ListMigrations
<1>6. CASE SnapshotFails
  BY <1>6 DEF SnapshotFails
<1>7. CASE InitialCheck
  BY <1>7 DEF InitialCheck
<1>8. CASE RevalidateCheck
  BY <1>8 DEF RevalidateCheck
<1>9. CASE ConfirmMigrations
  BY <1>9 DEF ConfirmMigrations
<1>10. CASE Baseline
  BY <1>10 DEF Baseline
<1>11. CASE Cordon
  BY <1>11 DEF Cordon
<1>12. CASE EvictCheck
  BY <1>12 DEF EvictCheck
<1>13. CASE EvictCall
  BY <1>13 DEF EvictCall
<1>14. CASE Limit
  BY <1>14 DEF Limit, TrackVMIs
<1>15. CASE LoopTop
  BY <1>15 DEF LoopTop
<1>16. CASE ObservePass
  BY <1>16 DEF ObservePass, TrackVMIs
<1>17. CASE TriggerCheck
  BY <1>17 DEF TriggerCheck
<1>18. CASE ConfirmCall
  BY <1>18 DEF ConfirmCall
<1>19. CASE TriggerCall
  BY <1>19 DEF TriggerCall
<1>20. CASE Settle
  BY <1>20 DEF Settle, Settled, MayRestore, Quiet
<1>21. CASE Verify
  BY <1>21 DEF Verify, Attaching
<1>22. CASE FinalCheck
  BY <1>22 DEF FinalCheck, Quiet, TrackVMIs
<1>23. CASE OutputFails
  BY <1>23 DEF OutputFails
<1>24. CASE Rollback
  BY <1>24 DEF Rollback
<1>25. CASE Release
  BY <1>25 DEF Release
<1>26. CASE Environment \/ UNCHANGED vars
  BY <1>26 DEF Environment, Interrupt, Kill, Deadline, KubeVirt, Inbound, Kubelet, LatePod,
     OperatorSetsScheduling, vars
<1> QED
  BY <1>1, <1>2, <1>3, <1>4, <1>5, <1>6, <1>7, <1>8, <1>9, <1>10, <1>11, <1>12, <1>13,
     <1>14, <1>15, <1>16, <1>17, <1>18, <1>19, <1>20, <1>21, <1>22, <1>23, <1>24, <1>25,
     <1>26 DEF Next, Coordinator, Exited

\* On success every VMI tracked since the revalidation has its hotplug volumes where it
\* runs (verifyHotplug and the final relist), whatever moves and restarts meanwhile.
THEOREM HotplugSafe == Spec => []HotplugVerified
<1>1. Init => OneFlight /\ RestoreInv /\ TrackInv
  <2> SUFFICES ASSUME Init PROVE OneFlight /\ RestoreInv /\ TrackInv
    OBVIOUS
  <2>1. RestoreInv
    BY RestoreBegins
  <2>2. TrackInv
    BY DEF Init, TrackInv, NoSnapshot, Listed, Finishing
  <2>3. OneFlight
    <3>1. PICK foreign \in SUBSET (VMIs \ Arriving) :
            mig = [u \in Uid |-> IF u[1] \in foreign /\ u[2] = 1 THEN "active" ELSE "absent"]
      BY DEF Init, ClusterInit
    <3>2. \A u \in InFlightUids : u \in VMIs \X (1..MaxAttempts) /\ u[1] \in foreign /\ u[2] = 1
      BY <3>1 DEF InFlightUids, Uid
    <3>3. \A v \in foreign : vmi[v] = "source"
      BY DEF Init, ClusterInit
    <3> QED
      BY <3>2, <3>3 DEF OneFlight
  <2> QED
    BY <2>1, <2>2, <2>3
<1>2. TrackInv => HotplugVerified
  BY DEF TrackInv, Finishing, HotplugVerified
<1> QED
  BY <1>1, <1>2, FlightStep, RestoreStep, TrackStep, TypeSafe, PTL DEF Spec
=============================================================================
