----------------------------- MODULE NodeCordon -----------------------------
(***************************************************************************)
(* The cordon of one node: Clients.Cordon, RollbackCordon and              *)
(* SetUnschedulable of internal/kube/actions.go, as Coordinator.Drain      *)
(* calls them between AcquireDrainLease and ReleaseDrainLease.  Any number *)
(* of runs use the Lease of DrainLease; kubectl, `kvdrain uncordon` and    *)
(* the node's own controllers write the node without it.  A patch takes    *)
(* effect when the server gets to it, which may be after its sender has    *)
(* given up, released the Lease or died.                                   *)
(*                                                                         *)
(* Resource versions are not counted: what matters is whether the node has *)
(* been written since a run read it.                                       *)
(***************************************************************************)
EXTENDS DrainLease

CONSTANTS
  Other,        \* everybody who writes the node without the Lease
  OtherWriters  \* what they do: see Writes

Writes == {"kubectl cordon", "kubectl uncordon", "kvdrain uncordon", "status", "replace"}

ASSUME CordonAssumption ==
  Other \notin Runs \cup {None} /\ OtherWriters \subseteq Writes

VARIABLES
  node,      \* spec.unschedulable and the cordon-owner annotation
  step,      \* the next call of a run that is draining: see Steps
  ours,      \* cordonedByUs
  object,    \* runs whose first snapshot showed the Node object that exists now
  fresh,     \* runs that have read the node for a rollback since it was last written
  cordons,   \* runs whose apply patch the server has not handled yet
  restores,  \* runs whose rollback patch the server has not handled yet
  reply,     \* the answer to the latest patch of a run
  \* History, read by properties only.
  closer,    \* who closed the node, None when it is open
  opener,    \* who opened it last, None when nobody has
  strays,    \* runs whose rollback took effect after they had stopped waiting for it
  orphans,   \* runs whose cordon took effect after they had stopped waiting for it
  left       \* the annotation that `kubectl uncordon` left, None once it is written again

patches  == <<cordons, restores, reply>>
reads    == <<object, fresh>>
memory   == <<closer, opener, strays, orphans, left>>
nodeVars == <<node, step, ours, reads, patches, memory>>
allVars  == <<vars, nodeVars>>

Steps == {"snapshot", "cordon", "cordoning", "working", "restore", "restoring", "over"}

NodeInit ==
  /\ Init
  /\ \E closed \in BOOLEAN :
       /\ node = [cordoned |-> closed, owner |-> None]
       /\ closer = IF closed THEN Other ELSE None
  /\ step = [r \in Runs |-> "snapshot"] /\ ours = [r \in Runs |-> FALSE]
  /\ object = {} /\ fresh = {}
  /\ cordons = {} /\ restores = {} /\ reply = [r \in Runs |-> "none"]
  /\ opener = None /\ strays = {} /\ orphans = {} /\ left = None

Step(r, next) == step' = [step EXCEPT ![r] = next]

\* The run holds the Lease or is releasing it, and s is its next step.
At(r, s) == pc[r] \in {"draining", "release", "delete"} /\ step[r] = s

\* What RollbackCordon and SetUnschedulable(false) leave: an open node of nobody's.
Uncordoned == [cordoned |-> FALSE, owner |-> None]

\* A write of the node by x: everybody's resource version is out of date.
Write(x, value) ==
  /\ node' = value
  /\ fresh' = {}
  /\ closer' = IF ~value.cordoned THEN None ELSE IF node.cordoned THEN closer ELSE x
  /\ opener' = IF node.cordoned /\ ~value.cordoned THEN x ELSE opener

-----------------------------------------------------------------------------
(* The run.                                                                  *)

\* The first snapshot decides whether the cordon will be this run's.
FirstSnapshot(r) ==
  /\ At(r, "snapshot")
  /\ ours' = [ours EXCEPT ![r] = ~node.cordoned]
  /\ object' = object \cup {r}
  /\ Step(r, IF node.cordoned THEN "working" ELSE "cordon")
  /\ UNCHANGED <<node, fresh, patches, memory>>

\* A failed preflight, or a signal before the cordon.
NoCordon(r) ==
  /\ At(r, "snapshot") \/ At(r, "cordon")
  /\ Step(r, "over")
  /\ UNCHANGED <<node, ours, reads, patches, memory>>

SendCordon(r) ==
  /\ At(r, "cordon") /\ Step(r, "cordoning")
  /\ cordons' = cordons \cup {r}
  /\ UNCHANGED <<node, ours, reads, restores, reply, memory>>

\* The apply names its run as field manager and does not force: it conflicts with an
\* annotation another run has set, and with nothing on a node that is closed already.
CordonAgrees(r) == node.owner \in {None, r}

HandleCordon(r) ==
  /\ r \in cordons /\ cordons' = cordons \ {r}
  /\ IF CordonAgrees(r)
     THEN /\ Write(r, [cordoned |-> TRUE, owner |-> r])
          /\ reply' = [reply EXCEPT ![r] = "applied"]
          /\ orphans' = IF At(r, "cordoning") THEN orphans ELSE orphans \cup {r}
          /\ left' = None
     ELSE /\ reply' = [reply EXCEPT ![r] = "refused"]
          /\ UNCHANGED <<node, fresh, closer, opener, orphans, left>>
  /\ UNCHANGED <<step, ours, object, restores, strays>>

\* After the cordon the run goes on, or a signal sends it to the rollback.
CordonAnswered(r) ==
  /\ At(r, "cordoning") /\ reply[r] # "none"
  /\ \/ reply[r] = "applied" /\ (Step(r, "working") \/ Step(r, "restore"))
     \/ reply[r] = "refused" /\ Step(r, "over")
  /\ reply' = [reply EXCEPT ![r] = "none"]
  /\ UNCHANGED <<node, ours, reads, cordons, restores, memory>>

\* mutationCtx ends or the call fails: Drain returns without a rollback.
CordonGivenUp(r) ==
  /\ At(r, "cordoning") /\ Step(r, "over")
  /\ UNCHANGED <<node, ours, reads, patches, memory>>

\* The drain itself: it ends with the node as it is, or with a rollback (a revalidation
\* that fails, an abort with --abort-uncordons), which only the owner tries.
Work(r) ==
  /\ At(r, "working")
  /\ Step(r, "over") \/ (ours[r] /\ Step(r, "restore"))
  /\ UNCHANGED <<node, ours, reads, patches, memory>>

\* RollbackCordon reads the node and puts the version it has read into the patch.
RestoreRead(r) ==
  /\ At(r, "restore") /\ Step(r, "restoring")
  /\ fresh' = fresh \cup {r}
  /\ restores' = restores \cup {r}
  /\ UNCHANGED <<node, ours, object, cordons, reply, memory>>

\* Seeded fault: the owner is not tested.
TestsVersionOnly(r) == r \in object /\ r \in fresh /\ node.cordoned

\* The tests of the JSON patch: UID, resource version, owner, spec.unschedulable.
RestoreApplies(r) ==
  /\ r \in object /\ r \in fresh
  /\ node.owner = r /\ node.cordoned

HandleRestore(r) ==
  /\ r \in restores /\ restores' = restores \ {r}
  /\ IF RestoreApplies(r)
     THEN /\ Write(r, Uncordoned)
          /\ reply' = [reply EXCEPT ![r] = "applied"]
          /\ strays' = IF At(r, "restoring") THEN strays ELSE strays \cup {r}
          /\ left' = None
     ELSE /\ reply' = [reply EXCEPT ![r] = "refused"]
          /\ UNCHANGED <<node, fresh, closer, opener, strays, left>>
  /\ UNCHANGED <<step, ours, object, cordons, orphans>>

\* Any answer ends the rollback, and so does the end of its ten seconds.
RestoreEnds(r) ==
  /\ At(r, "restore") \/ At(r, "restoring")
  /\ Step(r, "over")
  /\ UNCHANGED <<node, ours, reads, patches, memory>>

-----------------------------------------------------------------------------
(* Everybody else.                                                           *)

KubectlCordon ==
  /\ "kubectl cordon" \in OtherWriters /\ ~node.cordoned
  /\ Write(Other, [node EXCEPT !.cordoned = TRUE])
  /\ UNCHANGED <<step, ours, object, patches, strays, orphans, left>>

\* kubectl leaves the annotation where it is.
KubectlUncordon ==
  /\ "kubectl uncordon" \in OtherWriters /\ node.cordoned
  /\ Write(Other, [node EXCEPT !.cordoned = FALSE]) /\ left' = node.owner
  /\ UNCHANGED <<step, ours, object, patches, strays, orphans>>

\* Seeded fault: `kvdrain uncordon` leaves the annotation too.
SetSchedulingOnly ==
  /\ "kvdrain uncordon" \in OtherWriters /\ node.cordoned
  /\ Write(Other, [node EXCEPT !.cordoned = FALSE]) /\ left' = None
  /\ UNCHANGED <<step, ours, object, patches, strays, orphans>>

\* SetUnschedulable(false): no Lease, no test, and the annotation goes.
SetUnschedulable ==
  /\ "kvdrain uncordon" \in OtherWriters /\ (node.cordoned \/ node.owner # None)
  /\ Write(Other, Uncordoned) /\ left' = None
  /\ UNCHANGED <<step, ours, object, patches, strays, orphans>>

\* Heartbeats, labels, taints: a new version of the node with the same cordon.
StatusWritten ==
  /\ "status" \in OtherWriters /\ fresh # {}
  /\ Write(Other, node)
  /\ UNCHANGED <<step, ours, object, patches, strays, orphans, left>>

\* The node is deleted and registers again: another UID, open and without annotation.
NodeReplaced ==
  /\ "replace" \in OtherWriters /\ object # {}
  /\ Write(Other, Uncordoned) /\ left' = None
  /\ object' = {}
  /\ UNCHANGED <<step, ours, patches, strays, orphans>>

-----------------------------------------------------------------------------
(* Composition with the Lease: the node steps of a run lie between the two  *)
(* halves of the Lease protocol, the release comes after the rollback.      *)

\* Seeded fault: the Lease is released before the rollback.
MayFinishEarly(r) == step[r] \in {"restore", "restoring", "over"}

\* The deferred release was registered first, so it runs last: no step of the node is
\* left when it begins.
MayFinish(r) == step[r] = "over"

LeaseStep ==
  /\ Next
  /\ \A r \in Runs : pc[r] = "draining" /\ pc'[r] = "release" => MayFinish(r)
  /\ UNCHANGED nodeVars

RunStep(r) ==
  \/ FirstSnapshot(r) \/ NoCordon(r)
  \/ SendCordon(r) \/ HandleCordon(r) \/ CordonAnswered(r) \/ CordonGivenUp(r)
  \/ Work(r)
  \/ RestoreRead(r) \/ HandleRestore(r) \/ RestoreEnds(r)

OtherStep ==
  \/ KubectlCordon \/ KubectlUncordon \/ SetUnschedulable \/ StatusWritten \/ NodeReplaced

NodeNext ==
  \/ LeaseStep
  \/ ((\E r \in Runs : RunStep(r)) \/ OtherStep) /\ UNCHANGED vars

NodeSpec == NodeInit /\ [][NodeNext]_allVars

-----------------------------------------------------------------------------
(* Properties.                                                               *)

NodeTypeOK ==
  /\ node \in [cordoned : BOOLEAN, owner : Runs \cup {None}]
  /\ step \in [Runs -> Steps] /\ ours \in [Runs -> BOOLEAN]
  /\ object \subseteq Runs /\ fresh \subseteq Runs
  /\ cordons \subseteq Runs /\ restores \subseteq Runs
  /\ reply \in [Runs -> {"none", "applied", "refused"}]
  /\ closer \in Runs \cup {Other, None} /\ opener \in Runs \cup {Other, None}
  /\ strays \subseteq Runs /\ orphans \subseteq Runs /\ left \in Runs \cup {None}

\* While a run drains the node, nobody has reopened it except those who write it without
\* the Lease, and a run whose rollback took effect after it had stopped waiting.  No other
\* rollback and no late cordon of another run disturbs it.
DrainsClosedNode ==
  \A r \in Runs : At(r, "working") /\ ~node.cordoned => opener \in {Other} \cup strays

\* No rollback, however late, reopens a node that another run closed.
SparesCordonOfOthers ==
  [][\A r \in Runs : HandleRestore(r) /\ node' # node => closer \in {r, Other}]_allVars

\* A run's cordon is refused only over an annotation that nobody has touched since
\* `kubectl uncordon` left it on the open node, or over that of a run whose own cordon took
\* effect after it had given up waiting for it.  No rollback, no `kvdrain uncordon`, no
\* new Node object and no cordon that was answered in time gets in the way of the next run.
RefusedOnlyWhenStale ==
  [][\A r \in Runs : HandleCordon(r) /\ reply'[r] = "refused" /\ At(r, "cordoning") =>
       node.owner = left \/ node.owner \in orphans]_allVars
=============================================================================
