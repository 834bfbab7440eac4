-------------------------- MODULE NodeCordonProofs --------------------------
(***************************************************************************)
(* For any number of runs: the cordon protocol keeps the guarantees of the *)
(* Lease, and gives those of its own.                                      *)
(*                                                                         *)
(* What connects the two is that a run touches the node only while it has  *)
(* the Lease (InLease), apart from patches that are still on their way     *)
(* (Sent).  From that and mutual exclusion it follows that nobody but a    *)
(* stranger or a late rollback opens the node under a run (Closed), and    *)
(* that another owner in front of a run is one that kubectl left behind or *)
(* whose cordon came after it had stopped waiting (InTheWay).  CloserOwns  *)
(* and StaleOwner say who wrote the annotation and who left it.            *)
(***************************************************************************)
EXTENDS NodeCordon, DrainLeaseProofs

\* A run has not touched the node before it has the Lease, and has finished with it when
\* it releases the Lease.
InLease ==
  \A r \in Runs :
    /\ pc[r] \in {"idle", "create", "read"} => step[r] = "snapshot"
    /\ pc[r] \in {"release", "delete"} => step[r] = "over"

\* What a run has under way: its cordon until it is answered or given up, its rollback
\* after that.
Sent ==
  \A r \in Runs :
    /\ r \in cordons => step[r] \in {"cordoning", "over"} /\ reply[r] = "none"
    /\ r \in restores => step[r] \in {"restoring", "over"} /\ r \notin cordons
    /\ step[r] \in {"snapshot", "cordon"} => reply[r] = "none"

\* Somebody has closed a closed node, and a run that has owns the annotation.
CloserOwns ==
  node.cordoned => closer # None /\ (closer \in Runs => node.owner = closer)

\* The annotation on an open node is the one that kubectl left.
StaleOwner == ~node.cordoned /\ node.owner # None => node.owner = left

Excused == opener \in {Other} \cup strays

\* The node of a run that has closed it, or has found it closed.
Closed ==
  \A r \in Runs :
    At(r, "working") \/ (At(r, "cordoning") /\ reply[r] = "applied") =>
      node.cordoned \/ Excused

\* In front of a run that is about to close the node, another owner is a stale one.
InTheWay ==
  \A r, q \in Runs :
    /\ At(r, "cordon") \/ At(r, "cordoning")
    /\ node.cordoned /\ node.owner = q /\ q # r
    => q = left \/ q \in orphans

NodeInv ==
  NodeTypeOK /\ InLease /\ Sent /\ CloserOwns /\ StaleOwner /\ Closed /\ InTheWay

-----------------------------------------------------------------------------

\* How a run moves through the Lease protocol.
Moves ==
  {<<"idle", "create">>, <<"create", "draining">>, <<"create", "read">>,
   <<"read", "draining">>, <<"draining", "release">>, <<"release", "delete">>}

\* A step moves a run along the protocol, or ends it.
LEMMA PhaseMoves ==
  ASSUME TypeOK, [Next]_vars, NEW r \in Runs, pc'[r] # pc[r]
  PROVE  <<pc[r], pc'[r]>> \in Moves \/ pc'[r] = "ended"
<1> USE DEF TypeOK, Moves, store, wire, Goto, Ends, Fails
<1>1. ASSUME NEW q \in Runs, Run(q) PROVE <<pc[r], pc'[r]>> \in Moves \/ pc'[r] = "ended"
  BY <1>1 DEF Run, Acquire, HandleCreate, CreateAgain, CreateAnswered, ReadLease, AcquireFails,
     Finish, ReadOwner, HandleDelete, DeleteAnswered, ReleaseFails, Crash
<1> QED
  BY <1>1 DEF Next, OperatorRemoves, OperatorEdits, Quiescent, vars

\* The invariant holds at first.
LEMMA NodeInvInit == NodeInit => NodeInv
  BY LeaseAssumption, CordonAssumption DEF NodeInit, Init, NodeInv, NodeTypeOK, Steps, InLease,
     Sent, CloserOwns, StaleOwner, Closed, InTheWay, At

\* A write of the node leaves it, and the memory of it, well typed.
LEMMA WriteTypes ==
  ASSUME NodeTypeOK, NEW x \in Runs \cup {Other},
         NEW value \in [cordoned : BOOLEAN, owner : Runs \cup {None}], Write(x, value)
  PROVE  /\ node' \in [cordoned : BOOLEAN, owner : Runs \cup {None}]
         /\ fresh' = {}
         /\ closer' \in Runs \cup {Other, None} /\ opener' \in Runs \cup {Other, None}
  BY DEF NodeTypeOK, Write

\* Every step keeps the types.
LEMMA NodeTypeStep == NodeTypeOK /\ [NodeNext]_allVars => NodeTypeOK'
<1> SUFFICES ASSUME NodeTypeOK, [NodeNext]_allVars PROVE NodeTypeOK'
  OBVIOUS
<1> USE LeaseAssumption, CordonAssumption DEF NodeTypeOK, Steps, vars, nodeVars, reads,
        patches, memory, Step, At
<1>1. ASSUME NEW r \in Runs, FirstSnapshot(r), UNCHANGED vars PROVE NodeTypeOK'
  BY <1>1 DEF FirstSnapshot
<1>2. ASSUME NEW r \in Runs, NoCordon(r), UNCHANGED vars PROVE NodeTypeOK'
  BY <1>2 DEF NoCordon
<1>3. ASSUME NEW r \in Runs, SendCordon(r), UNCHANGED vars PROVE NodeTypeOK'
  BY <1>3 DEF SendCordon
<1>4. ASSUME NEW r \in Runs, HandleCordon(r), UNCHANGED vars PROVE NodeTypeOK'
  <2>1. CASE CordonAgrees(r)
    <3>1. Write(r, [cordoned |-> TRUE, owner |-> r])
      BY <1>4, <2>1 DEF HandleCordon
    <3>2. /\ node' \in [cordoned : BOOLEAN, owner : Runs \cup {None}] /\ fresh' = {}
          /\ closer' \in Runs \cup {Other, None} /\ opener' \in Runs \cup {Other, None}
      BY <3>1, WriteTypes
    <3> QED
      BY <1>4, <2>1, <3>2 DEF HandleCordon
  <2>2. CASE ~CordonAgrees(r)
    BY <1>4, <2>2 DEF HandleCordon
  <2> QED
    BY <2>1, <2>2
<1>5. ASSUME NEW r \in Runs, CordonAnswered(r), UNCHANGED vars PROVE NodeTypeOK'
  BY <1>5 DEF CordonAnswered
<1>6. ASSUME NEW r \in Runs, CordonGivenUp(r), UNCHANGED vars PROVE NodeTypeOK'
  BY <1>6 DEF CordonGivenUp
<1>7. ASSUME NEW r \in Runs, Work(r), UNCHANGED vars PROVE NodeTypeOK'
  BY <1>7 DEF Work
<1>8. ASSUME NEW r \in Runs, RestoreRead(r), UNCHANGED vars PROVE NodeTypeOK'
  BY <1>8 DEF RestoreRead
<1>9. ASSUME NEW r \in Runs, HandleRestore(r), UNCHANGED vars PROVE NodeTypeOK'
  <2>1. CASE RestoreApplies(r)
    <3>1. Write(r, Uncordoned)
      BY <1>9, <2>1 DEF HandleRestore
    <3>2. /\ node' \in [cordoned : BOOLEAN, owner : Runs \cup {None}] /\ fresh' = {}
          /\ closer' \in Runs \cup {Other, None} /\ opener' \in Runs \cup {Other, None}
      BY <3>1, WriteTypes DEF Uncordoned
    <3> QED
      BY <1>9, <2>1, <3>2 DEF HandleRestore
  <2>2. CASE ~RestoreApplies(r)
    BY <1>9, <2>2 DEF HandleRestore
  <2> QED
    BY <2>1, <2>2
<1>10. ASSUME NEW r \in Runs, RestoreEnds(r), UNCHANGED vars PROVE NodeTypeOK'
  BY <1>10 DEF RestoreEnds
<1>11. ASSUME KubectlCordon, UNCHANGED vars PROVE NodeTypeOK'
  BY <1>11 DEF KubectlCordon, Write
<1>12. ASSUME KubectlUncordon, UNCHANGED vars PROVE NodeTypeOK'
  BY <1>12 DEF KubectlUncordon, Write
<1>13. ASSUME SetUnschedulable, UNCHANGED vars PROVE NodeTypeOK'
  BY <1>13 DEF SetUnschedulable, Write, Uncordoned
<1>14. ASSUME StatusWritten, UNCHANGED vars PROVE NodeTypeOK'
  BY <1>14 DEF StatusWritten, Write
<1>15. ASSUME NodeReplaced, UNCHANGED vars PROVE NodeTypeOK'
  BY <1>15 DEF NodeReplaced, Write, Uncordoned
<1>16. CASE LeaseStep
  BY <1>16 DEF LeaseStep
<1>17. CASE UNCHANGED allVars
  BY <1>17 DEF allVars
<1> QED
  BY <1>1, <1>2, <1>3, <1>4, <1>5, <1>6, <1>7, <1>8, <1>9, <1>10, <1>11, <1>12, <1>13,
     <1>14, <1>15, <1>16, <1>17 DEF NodeNext, RunStep, OtherStep

\* A run does what the Lease lets it do, and has under way what its step says.
LEMMA SentStep ==
  TypeOK /\ NodeTypeOK /\ InLease /\ Sent /\ [NodeNext]_allVars => InLease' /\ Sent'
<1> SUFFICES ASSUME TypeOK, NodeTypeOK, InLease, Sent, [NodeNext]_allVars
             PROVE  InLease' /\ Sent'
  OBVIOUS
<1> USE DEF TypeOK, NodeTypeOK, Steps, InLease, Sent, vars, nodeVars, reads, patches, memory,
        Step, At
<1>1. ASSUME NEW r \in Runs, FirstSnapshot(r), UNCHANGED vars PROVE InLease' /\ Sent'
  BY <1>1 DEF FirstSnapshot
<1>2. ASSUME NEW r \in Runs, NoCordon(r), UNCHANGED vars PROVE InLease' /\ Sent'
  BY <1>2 DEF NoCordon
<1>3. ASSUME NEW r \in Runs, SendCordon(r), UNCHANGED vars PROVE InLease' /\ Sent'
  BY <1>3 DEF SendCordon
<1>4. ASSUME NEW r \in Runs, HandleCordon(r), UNCHANGED vars PROVE InLease' /\ Sent'
  BY <1>4 DEF HandleCordon, CordonAgrees, Write
<1>5. ASSUME NEW r \in Runs, CordonAnswered(r), UNCHANGED vars PROVE InLease' /\ Sent'
  BY <1>5 DEF CordonAnswered
<1>6. ASSUME NEW r \in Runs, CordonGivenUp(r), UNCHANGED vars PROVE InLease' /\ Sent'
  BY <1>6 DEF CordonGivenUp
<1>7. ASSUME NEW r \in Runs, Work(r), UNCHANGED vars PROVE InLease' /\ Sent'
  BY <1>7 DEF Work
<1>8. ASSUME NEW r \in Runs, RestoreRead(r), UNCHANGED vars PROVE InLease' /\ Sent'
  BY <1>8 DEF RestoreRead
<1>9. ASSUME NEW r \in Runs, HandleRestore(r), UNCHANGED vars PROVE InLease' /\ Sent'
  BY <1>9 DEF HandleRestore, RestoreApplies, Write, Uncordoned
<1>10. ASSUME NEW r \in Runs, RestoreEnds(r), UNCHANGED vars PROVE InLease' /\ Sent'
  BY <1>10 DEF RestoreEnds
<1>11. ASSUME KubectlCordon, UNCHANGED vars PROVE InLease' /\ Sent'
  BY <1>11 DEF KubectlCordon, Write
<1>12. ASSUME KubectlUncordon, UNCHANGED vars PROVE InLease' /\ Sent'
  BY <1>12 DEF KubectlUncordon, Write
<1>13. ASSUME SetUnschedulable, UNCHANGED vars PROVE InLease' /\ Sent'
  BY <1>13 DEF SetUnschedulable, Write, Uncordoned
<1>14. ASSUME StatusWritten, UNCHANGED vars PROVE InLease' /\ Sent'
  BY <1>14 DEF StatusWritten, Write
<1>15. ASSUME NodeReplaced, UNCHANGED vars PROVE InLease' /\ Sent'
  BY <1>15 DEF NodeReplaced, Write, Uncordoned
<1>16. CASE LeaseStep
  BY <1>16, PhaseMoves DEF LeaseStep, Moves, MayFinish
<1>17. CASE UNCHANGED allVars
  BY <1>17 DEF allVars
<1> QED
  BY <1>1, <1>2, <1>3, <1>4, <1>5, <1>6, <1>7, <1>8, <1>9, <1>10, <1>11, <1>12, <1>13,
     <1>14, <1>15, <1>16, <1>17 DEF NodeNext, RunStep, OtherStep

\* The annotation goes with who closed the node, or is stale.
LEMMA OwnerStep ==
  /\ NodeTypeOK /\ CloserOwns /\ StaleOwner /\ [NodeNext]_allVars
  => CloserOwns' /\ StaleOwner'
<1> SUFFICES ASSUME NodeTypeOK, CloserOwns, StaleOwner, [NodeNext]_allVars
             PROVE  CloserOwns' /\ StaleOwner'
  OBVIOUS
<1> USE LeaseAssumption, CordonAssumption DEF NodeTypeOK, CloserOwns, StaleOwner, vars,
        nodeVars, reads, patches, memory, Step, At
<1>1. ASSUME NEW r \in Runs, FirstSnapshot(r), UNCHANGED vars PROVE CloserOwns' /\ StaleOwner'
  BY <1>1 DEF FirstSnapshot
<1>2. ASSUME NEW r \in Runs, NoCordon(r), UNCHANGED vars PROVE CloserOwns' /\ StaleOwner'
  BY <1>2 DEF NoCordon
<1>3. ASSUME NEW r \in Runs, SendCordon(r), UNCHANGED vars PROVE CloserOwns' /\ StaleOwner'
  BY <1>3 DEF SendCordon
<1>4. ASSUME NEW r \in Runs, HandleCordon(r), UNCHANGED vars PROVE CloserOwns' /\ StaleOwner'
  BY <1>4 DEF HandleCordon, CordonAgrees, Write
<1>5. ASSUME NEW r \in Runs, CordonAnswered(r), UNCHANGED vars PROVE CloserOwns' /\ StaleOwner'
  BY <1>5 DEF CordonAnswered
<1>6. ASSUME NEW r \in Runs, CordonGivenUp(r), UNCHANGED vars PROVE CloserOwns' /\ StaleOwner'
  BY <1>6 DEF CordonGivenUp
<1>7. ASSUME NEW r \in Runs, Work(r), UNCHANGED vars PROVE CloserOwns' /\ StaleOwner'
  BY <1>7 DEF Work
<1>8. ASSUME NEW r \in Runs, RestoreRead(r), UNCHANGED vars PROVE CloserOwns' /\ StaleOwner'
  BY <1>8 DEF RestoreRead
<1>9. ASSUME NEW r \in Runs, HandleRestore(r), UNCHANGED vars PROVE CloserOwns' /\ StaleOwner'
  BY <1>9 DEF HandleRestore, RestoreApplies, Write, Uncordoned
<1>10. ASSUME NEW r \in Runs, RestoreEnds(r), UNCHANGED vars PROVE CloserOwns' /\ StaleOwner'
  BY <1>10 DEF RestoreEnds
<1>11. ASSUME KubectlCordon, UNCHANGED vars PROVE CloserOwns' /\ StaleOwner'
  BY <1>11 DEF KubectlCordon, Write
<1>12. ASSUME KubectlUncordon, UNCHANGED vars PROVE CloserOwns' /\ StaleOwner'
  BY <1>12 DEF KubectlUncordon, Write
<1>13. ASSUME SetUnschedulable, UNCHANGED vars PROVE CloserOwns' /\ StaleOwner'
  BY <1>13 DEF SetUnschedulable, Write, Uncordoned
<1>14. ASSUME StatusWritten, UNCHANGED vars PROVE CloserOwns' /\ StaleOwner'
  BY <1>14 DEF StatusWritten, Write
<1>15. ASSUME NodeReplaced, UNCHANGED vars PROVE CloserOwns' /\ StaleOwner'
  BY <1>15 DEF NodeReplaced, Write, Uncordoned
<1>16. CASE LeaseStep
  BY <1>16 DEF LeaseStep
<1>17. CASE UNCHANGED allVars
  BY <1>17 DEF allVars
<1> QED
  BY <1>1, <1>2, <1>3, <1>4, <1>5, <1>6, <1>7, <1>8, <1>9, <1>10, <1>11, <1>12, <1>13,
     <1>14, <1>15, <1>16, <1>17 DEF NodeNext, RunStep, OtherStep

\* Nobody but strangers and late rollbacks reopens the node of a run.
LEMMA ClosedStep ==
  /\ TypeOK /\ NodeTypeOK /\ InLease /\ Sent /\ Closed /\ MutualExclusion /\ [NodeNext]_allVars
  => Closed'
<1> SUFFICES ASSUME TypeOK, NodeTypeOK, InLease, Sent, Closed, MutualExclusion, [NodeNext]_allVars
             PROVE  Closed'
  OBVIOUS
<1> USE LeaseAssumption, CordonAssumption DEF TypeOK, NodeTypeOK, InLease, Sent, Closed, Excused,
        MutualExclusion, Draining, vars, nodeVars, reads, patches, memory, Step, At
<1>1. ASSUME NEW r \in Runs, FirstSnapshot(r), UNCHANGED vars PROVE Closed'
  BY <1>1 DEF FirstSnapshot
<1>2. ASSUME NEW r \in Runs, NoCordon(r), UNCHANGED vars PROVE Closed'
  BY <1>2 DEF NoCordon
<1>3. ASSUME NEW r \in Runs, SendCordon(r), UNCHANGED vars PROVE Closed'
  BY <1>3 DEF SendCordon
<1>4. ASSUME NEW r \in Runs, HandleCordon(r), UNCHANGED vars PROVE Closed'
  BY <1>4 DEF HandleCordon, CordonAgrees, Write
<1>5. ASSUME NEW r \in Runs, CordonAnswered(r), UNCHANGED vars PROVE Closed'
  BY <1>5 DEF CordonAnswered
<1>6. ASSUME NEW r \in Runs, CordonGivenUp(r), UNCHANGED vars PROVE Closed'
  BY <1>6 DEF CordonGivenUp
<1>7. ASSUME NEW r \in Runs, Work(r), UNCHANGED vars PROVE Closed'
  BY <1>7 DEF Work
<1>8. ASSUME NEW r \in Runs, RestoreRead(r), UNCHANGED vars PROVE Closed'
  BY <1>8 DEF RestoreRead
<1>9. ASSUME NEW r \in Runs, HandleRestore(r), UNCHANGED vars PROVE Closed'
  BY <1>9 DEF HandleRestore, RestoreApplies, Write, Uncordoned
<1>10. ASSUME NEW r \in Runs, RestoreEnds(r), UNCHANGED vars PROVE Closed'
  BY <1>10 DEF RestoreEnds
<1>11. ASSUME KubectlCordon, UNCHANGED vars PROVE Closed'
  BY <1>11 DEF KubectlCordon, Write
<1>12. ASSUME KubectlUncordon, UNCHANGED vars PROVE Closed'
  BY <1>12 DEF KubectlUncordon, Write
<1>13. ASSUME SetUnschedulable, UNCHANGED vars PROVE Closed'
  BY <1>13 DEF SetUnschedulable, Write, Uncordoned
<1>14. ASSUME StatusWritten, UNCHANGED vars PROVE Closed'
  BY <1>14 DEF StatusWritten, Write
<1>15. ASSUME NodeReplaced, UNCHANGED vars PROVE Closed'
  BY <1>15 DEF NodeReplaced, Write, Uncordoned
<1>16. CASE LeaseStep
  BY <1>16, PhaseMoves DEF LeaseStep, Moves
<1>17. CASE UNCHANGED allVars
  BY <1>17 DEF allVars
<1> QED
  BY <1>1, <1>2, <1>3, <1>4, <1>5, <1>6, <1>7, <1>8, <1>9, <1>10, <1>11, <1>12, <1>13,
     <1>14, <1>15, <1>16, <1>17 DEF NodeNext, RunStep, OtherStep

\* Another owner in front of a run that is about to close the node is a stale one.
LEMMA InTheWayStep ==
  /\ TypeOK /\ NodeInv /\ MutualExclusion /\ [NodeNext]_allVars
  => InTheWay'
<1> SUFFICES ASSUME TypeOK, NodeInv, MutualExclusion, [NodeNext]_allVars
             PROVE  InTheWay'
  OBVIOUS
<1> USE LeaseAssumption, CordonAssumption DEF TypeOK, NodeInv, NodeTypeOK, InLease, Sent,
        StaleOwner, InTheWay, MutualExclusion, Draining, vars, nodeVars, reads, patches, memory,
        Step, At
<1>1. ASSUME NEW r \in Runs, FirstSnapshot(r), UNCHANGED vars PROVE InTheWay'
  BY <1>1 DEF FirstSnapshot
<1>2. ASSUME NEW r \in Runs, NoCordon(r), UNCHANGED vars PROVE InTheWay'
  BY <1>2 DEF NoCordon
<1>3. ASSUME NEW r \in Runs, SendCordon(r), UNCHANGED vars PROVE InTheWay'
  BY <1>3 DEF SendCordon
<1>4. ASSUME NEW r \in Runs, HandleCordon(r), UNCHANGED vars PROVE InTheWay'
  BY <1>4 DEF HandleCordon, CordonAgrees, Write
<1>5. ASSUME NEW r \in Runs, CordonAnswered(r), UNCHANGED vars PROVE InTheWay'
  BY <1>5 DEF CordonAnswered
<1>6. ASSUME NEW r \in Runs, CordonGivenUp(r), UNCHANGED vars PROVE InTheWay'
  BY <1>6 DEF CordonGivenUp
<1>7. ASSUME NEW r \in Runs, Work(r), UNCHANGED vars PROVE InTheWay'
  BY <1>7 DEF Work
<1>8. ASSUME NEW r \in Runs, RestoreRead(r), UNCHANGED vars PROVE InTheWay'
  BY <1>8 DEF RestoreRead
<1>9. ASSUME NEW r \in Runs, HandleRestore(r), UNCHANGED vars PROVE InTheWay'
  BY <1>9 DEF HandleRestore, RestoreApplies, Write, Uncordoned
<1>10. ASSUME NEW r \in Runs, RestoreEnds(r), UNCHANGED vars PROVE InTheWay'
  BY <1>10 DEF RestoreEnds
<1>11. ASSUME KubectlCordon, UNCHANGED vars PROVE InTheWay'
  <2>1. node'.owner = node.owner /\ left' = left
    BY <1>11 DEF KubectlCordon, Write
  <2>2. node.owner # None => node.owner = left
    BY <1>11 DEF KubectlCordon
  <2> QED
    BY <1>11, <2>1, <2>2
<1>12. ASSUME KubectlUncordon, UNCHANGED vars PROVE InTheWay'
  BY <1>12 DEF KubectlUncordon, Write
<1>13. ASSUME SetUnschedulable, UNCHANGED vars PROVE InTheWay'
  BY <1>13 DEF SetUnschedulable, Write, Uncordoned
<1>14. ASSUME StatusWritten, UNCHANGED vars PROVE InTheWay'
  BY <1>14 DEF StatusWritten, Write
<1>15. ASSUME NodeReplaced, UNCHANGED vars PROVE InTheWay'
  BY <1>15 DEF NodeReplaced, Write, Uncordoned
<1>16. CASE LeaseStep
  BY <1>16, PhaseMoves DEF LeaseStep, Moves
<1>17. CASE UNCHANGED allVars
  BY <1>17 DEF allVars
<1> QED
  BY <1>1, <1>2, <1>3, <1>4, <1>5, <1>6, <1>7, <1>8, <1>9, <1>10, <1>11, <1>12, <1>13,
     <1>14, <1>15, <1>16, <1>17 DEF NodeNext, RunStep, OtherStep

\* The steps together: the invariant is inductive under mutual exclusion.
LEMMA NodeInvStep ==
  TypeOK /\ NodeInv /\ MutualExclusion /\ [NodeNext]_allVars => NodeInv'
  BY NodeTypeStep, SentStep, OwnerStep, ClosedStep, InTheWayStep DEF NodeInv

-----------------------------------------------------------------------------

\* The variables of the composition stay in their sets.
THEOREM NodeTyped == NodeSpec => []NodeTypeOK
<1>1. NodeInit => NodeTypeOK
  BY NodeInvInit DEF NodeInv
<1> QED
  BY <1>1, NodeTypeStep, PTL DEF NodeSpec

\* No rollback reopens a node that another run closed (RollbackCordon), however many
\* runs there are and whatever the operator does to the Lease.
THEOREM SparesOthers == NodeSpec => SparesCordonOfOthers
<1> DEFINE Owned == NodeTypeOK /\ CloserOwns /\ StaleOwner
<1>1. NodeInit => Owned
  BY NodeInvInit DEF NodeInv
<1>2. Owned /\ [NodeNext]_allVars => Owned'
  BY NodeTypeStep, OwnerStep
<1>3. ASSUME Owned, NEW r \in Runs, HandleRestore(r), node' # node
      PROVE  closer \in {r, Other}
  <2>1. node.owner = r /\ node.cordoned
    BY <1>3 DEF HandleRestore, RestoreApplies
  <2>2. closer # None
    BY <1>3, <2>1 DEF CloserOwns
  <2> QED
    BY <1>3, <2>1, <2>2 DEF NodeTypeOK, CloserOwns
<1>4. Owned /\ [NodeNext]_allVars
        => [\A r \in Runs : HandleRestore(r) /\ node' # node => closer \in {r, Other}]_allVars
  BY <1>3
<1> QED
  BY <1>1, <1>2, <1>4, PTL DEF NodeSpec, SparesCordonOfOthers

\* The invariant of the composition, if stale Leases are removed with care.
LEMMA NodeSafe ==
  ASSUME CarefulOperator
  PROVE  NodeSpec => [](MutexInv /\ NodeInv)
<1>1. NodeInit => Init
  BY DEF NodeInit
<1>2. [NodeNext]_allVars => [Next]_vars
  BY DEF NodeNext, LeaseStep, allVars
<1>3. MutexInv => TypeOK /\ MutualExclusion
  BY OwnsExcludes DEF MutexInv, DeleteInv
<1> QED
  BY <1>1, <1>2, <1>3, MutexInit, MutexInvStep, NodeInvInit, NodeInvStep, PTL DEF NodeSpec

\* A run drains a closed node, unless somebody without the Lease or a late rollback has
\* opened it (the order of Cordon, rollback and release in Drain).
THEOREM DrainsClosed ==
  ASSUME CarefulOperator
  PROVE  NodeSpec => []DrainsClosedNode
<1>1. NodeInv => DrainsClosedNode
  BY DEF NodeInv, Closed, Excused, DrainsClosedNode
<1> QED
  BY <1>1, NodeSafe, PTL

\* A cordon is refused only over an annotation that kubectl left, or that of a cordon that
\* came after its run had given it up (Cordon, which does not force; RollbackCordon and
\* SetUnschedulable, which take the annotation with them).
THEOREM RefusedStale ==
  ASSUME CarefulOperator
  PROVE  NodeSpec => RefusedOnlyWhenStale
<1>1. ASSUME NodeInv, NEW r \in Runs, HandleCordon(r), reply'[r] = "refused", At(r, "cordoning")
      PROVE  node.owner = left \/ node.owner \in orphans
  <2>1. node.owner \in Runs /\ node.owner # r
    BY <1>1 DEF HandleCordon, CordonAgrees, NodeInv, NodeTypeOK
  <2> QED
    BY <1>1, <2>1, LeaseAssumption DEF NodeInv, StaleOwner, InTheWay
<1> DEFINE Refused ==
      \A r \in Runs : HandleCordon(r) /\ reply'[r] = "refused" /\ At(r, "cordoning") =>
       node.owner = left \/ node.owner \in orphans
<1>2. NodeInv /\ [NodeNext]_allVars => [Refused]_allVars
  BY <1>1
<1> QED
  BY <1>2, NodeSafe, PTL DEF NodeSpec, RefusedOnlyWhenStale
=============================================================================
