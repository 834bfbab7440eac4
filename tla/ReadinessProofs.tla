-------------------------- MODULE ReadinessProofs --------------------------
(***************************************************************************)
(* For any pods, descriptions and attachments: a node that `kvdrain        *)
(* status` calls ready is one that a drain can empty.                      *)
(***************************************************************************)
EXTENDS Readiness, TLAPS

\* The fields of a VMI.
Fields(x) == x = [exists |-> x.exists, here |-> x.here, active |-> x.active,
                  attached |-> x.attached, target |-> x.target, blocked |-> x.blocked]

\* The snapshot is made of what the cluster had: finished pods stay finished, a VMI knows
\* its own pods only, and the list of the VMIs is the last word.
Sound ==
  /\ Fields(vmi)
  /\ over \subseteq ended
  /\ vmi.attached \cup vmi.target \subseteq Attachments /\ vmi.active \subseteq Launchers
  /\ pc = "report" \/ verdict = "ready" => seen = vmi

\* Until the report there is no verdict, and a node is ready when nothing blocks it.
Judged ==
  /\ verdict # "none" => pc = "done"
  /\ verdict = "ready" =>
       ~VMIBlocked /\ \A p \in Ordinary : ~Blocker(p) /\ p \notin guarded

\* The invariant holds at first.
LEMMA SoundInit == Init => Sound /\ Judged
  BY ReadinessAssumption DEF Init, Sound, Judged, NoVMI, Fields, Launchers, Here

\* The cluster changes nothing of the snapshot.
LEMMA WorldStep ==
  ASSUME Sound, Judged, World, pc \in {"budgets", "vmis"}
  PROVE  Sound' /\ Judged'
<1>1. UNCHANGED <<kind, pc, snapshot, verdict>> /\ ended \subseteq ended'
  BY DEF World, PodBinds, PodEnds, PodGoes, BudgetChanges, VMIRecords, VMIForgets, VMIMoves,
     VMIChanges, VMIDeleted, Unseen
<1>2. /\ Fields(vmi')
      /\ vmi'.attached \cup vmi'.target \subseteq Attachments /\ vmi'.active \subseteq Launchers
  <2> USE DEF Sound, Fields
  <2>1. CASE vmi' = vmi
    BY <2>1
  <2>2. ASSUME NEW p \in Pods, VMIRecords(p) \/ VMIForgets(p)
        PROVE  /\ Fields(vmi')
               /\ vmi'.attached \cup vmi'.target \subseteq Attachments
               /\ vmi'.active \subseteq Launchers
    <3>1. CASE p \in Launchers /\ vmi' = [vmi EXCEPT !.active = @ \cup {p}]
      BY <3>1
    <3>2. CASE p \in Attachments /\ vmi' = [vmi EXCEPT !.attached = @ \cup {p}]
      BY <3>2
    <3>3. CASE p \in Attachments /\ vmi' = [vmi EXCEPT !.target = @ \cup {p}]
      BY <3>3
    <3>4. CASE vmi' = [vmi EXCEPT !.active = @ \ {p}, !.attached = @ \ {p}, !.target = @ \ {p}]
      BY <3>4
    <3> QED
      BY <2>2, <3>1, <3>2, <3>3, <3>4 DEF VMIRecords, VMIForgets
  <2>3. CASE VMIMoves \/ VMIChanges \/ VMIDeleted
    BY <2>3 DEF VMIMoves, VMIChanges, VMIDeleted, NoVMI
  <2> QED
    BY <2>1, <2>2, <2>3 DEF World, PodBinds, PodEnds, PodGoes, BudgetChanges
<1>3. verdict = "none" /\ pc # "report"
  BY DEF Judged
<1>4. Launchers' = Launchers
  BY <1>1 DEF Launchers
<1> QED
  BY <1>1, <1>2, <1>3, <1>4 DEF Sound, Judged, snapshot

\* The command: the report looks at the snapshot, and nothing follows it.
LEMMA CommandStep ==
  ASSUME Sound, Judged, Command \/ UNCHANGED vars
  PROVE  Sound' /\ Judged'
<1> USE DEF Sound, Judged, cluster, snapshot
<1>1. CASE Permissions \/ CallFails
  BY <1>1 DEF Permissions, CallFails, Launchers
<1>2. CASE ListPods \/ ListBudgets \/ ListVMIs
  BY <1>2 DEF ListPods, ListBudgets, ListVMIs, Launchers
<1>3. CASE Status
  <2>1. /\ UNCHANGED <<cluster, snapshot>> /\ pc' = "done"
        /\ verdict' = "ready" => ~VMIBlocked /\ \A p \in Ordinary : ~Blocker(p) /\ p \notin guarded
    BY <1>3 DEF Status
  <2>2. VMIBlocked' = VMIBlocked /\ Ordinary' = Ordinary /\ Launchers' = Launchers
    BY <2>1 DEF VMIBlocked, Ordinary, Launcher, Hotplug, Named, Ignored, Launchers
  <2>3. \A p : Blocker(p)' = Blocker(p)
    BY <2>1 DEF Blocker, UnverifiedLauncher, Managed, Launcher, Hotplug, Named
  <2> QED
    BY <1>3, <2>1, <2>2, <2>3 DEF Status
<1>4. CASE UNCHANGED vars
  BY <1>4 DEF vars, VMIBlocked, Ordinary, Blocker, UnverifiedLauncher, Managed, Launcher, Hotplug,
     Named, Ignored, Launchers
<1> QED
  BY <1>1, <1>2, <1>3, <1>4 DEF Command

\* Both parts of the invariant hold throughout.
LEMMA SoundSafe == Spec => [](Sound /\ Judged)
<1>1. Sound /\ Judged /\ [Next]_vars => Sound' /\ Judged'
  BY WorldStep, CommandStep DEF Next, Over
<1> QED
  BY <1>1, SoundInit, PTL DEF Spec

\* A node that status calls ready passes the preflight without consents, and the loop of
\* the drain leaves no ordinary pod of it behind (Status, preflight, normalEligible).
THEOREM ReadyPasses == Spec => []ReadyPassesPreflight
<1>1. Judged => ReadyPassesPreflight
  BY DEF Judged, ReadyPassesPreflight, Preflight, NormalEligible, Blocker
<1> QED
  BY <1>1, SoundSafe, PTL

\* A ready node has nothing on it that a drain could not move, but for pods that bear the
\* name of an attachment pod (Snapshot, classifyPod, Status), for any pods, names and
\* descriptions and whatever happens while the snapshot is taken.
THEOREM ReadyTrue == Spec => []ReadyIsTrue
<1>1. Sound /\ Judged => ReadyIsTrue
  BY DEF Sound, Judged, ReadyIsTrue, Ordinary, Launcher, Hotplug, Ignored, Blocker, Managed,
     UnverifiedLauncher, Launchers, Named
<1> QED
  BY <1>1, SoundSafe, PTL
=============================================================================
