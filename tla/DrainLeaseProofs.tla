-------------------------- MODULE DrainLeaseProofs --------------------------
(***************************************************************************)
(* For any number of runs: two of them never drain the node at once, a     *)
(* release never removes another run's Lease, and a Lease that is left     *)
(* behind was left by a run in trouble.                                    *)
(*                                                                         *)
(* MutualExclusion is not inductive.  What carries it is that a run owns   *)
(* the Lease not only while it drains but from the moment the server has   *)
(* created it (OwnsLease), and that a Delete under way can only hit the    *)
(* Lease its sender has read (DeletesOwn), because UIDs are never reused   *)
(* (Revisions) and only runs that no longer drain send one (SentOnRelease);*)
(* and that a run which has not begun has nothing under way (Fresh).       *)
(* That a Lease is left behind only after trouble rests on EndsClean.      *)
(***************************************************************************)
EXTENDS DrainLease, TLAPS

Holds(r) == pc[r] = "draining" \/ (pc[r] = "create" /\ answer[r] = "created")

OwnsLease == \A r \in Runs : Holds(r) => lease.holder = r

Fresh == \A r \in Runs : pc[r] = "idle" => answer[r] = "none" /\ r \notin creates

\* The UID of an existing Lease and every UID ever read are revisions of the past.
Revisions ==
  /\ lease.uid <= revision
  /\ \A r \in Runs : known[r].uid <= revision

DeletesOwn ==
  \A r \in deletes : lease.holder # None /\ lease.uid = known[r].uid => lease.holder = r

SentOnRelease == \A r \in deletes : pc[r] \in {"delete", "ended"}

\* The part that needs nothing of the operator.
DeleteInv == TypeOK /\ Revisions /\ DeletesOwn /\ SentOnRelease

\* Every variable starts in its set.
LEMMA TypeInit == Init => TypeOK
  BY LeaseAssumption DEF Init, TypeOK, NoLease, Phases

\* Every step keeps the types.
LEMMA TypeStep == TypeOK /\ [Next]_vars => TypeOK'
<1> SUFFICES ASSUME TypeOK, [Next]_vars PROVE TypeOK'
  OBVIOUS
<1> USE LeaseAssumption DEF TypeOK, Phases, store, wire, Goto, Ends, Fails
<1>1. ASSUME NEW r \in Runs, Acquire(r) PROVE TypeOK'
  BY <1>1 DEF Acquire
<1>2. ASSUME NEW r \in Runs, HandleCreate(r) PROVE TypeOK'
  BY <1>2 DEF HandleCreate
<1>3. ASSUME NEW r \in Runs, CreateAgain(r) PROVE TypeOK'
  BY <1>3 DEF CreateAgain
<1>4. ASSUME NEW r \in Runs, CreateAnswered(r) PROVE TypeOK'
  BY <1>4 DEF CreateAnswered
<1>5. ASSUME NEW r \in Runs, ReadLease(r) PROVE TypeOK'
  BY <1>5 DEF ReadLease
<1>6. ASSUME NEW r \in Runs, AcquireFails(r) PROVE TypeOK'
  BY <1>6 DEF AcquireFails
<1>7. ASSUME NEW r \in Runs, Finish(r) PROVE TypeOK'
  BY <1>7 DEF Finish
<1>8. ASSUME NEW r \in Runs, ReadOwner(r) PROVE TypeOK'
  BY <1>8 DEF ReadOwner
<1>9. ASSUME NEW r \in Runs, HandleDelete(r) PROVE TypeOK'
  BY <1>9 DEF HandleDelete, NoLease
<1>10. ASSUME NEW r \in Runs, DeleteAnswered(r) PROVE TypeOK'
  BY <1>10 DEF DeleteAnswered
<1>11. ASSUME NEW r \in Runs, ReleaseFails(r) PROVE TypeOK'
  BY <1>11 DEF ReleaseFails
<1>12. ASSUME NEW r \in Runs, Crash(r) PROVE TypeOK'
  BY <1>12 DEF Crash
<1>13. CASE OperatorRemoves
  BY <1>13 DEF OperatorRemoves, NoLease
<1>14. CASE OperatorEdits
  BY <1>14 DEF OperatorEdits
<1>15. CASE UNCHANGED vars
  BY <1>15 DEF vars
<1> QED
  BY <1>1, <1>2, <1>3, <1>4, <1>5, <1>6, <1>7, <1>8, <1>9, <1>10, <1>11, <1>12, <1>13,
     <1>14, <1>15 DEF Next, Run, Quiescent

-----------------------------------------------------------------------------

\* A Delete under way can only remove the Lease of the run that sent it.
LEMMA DeleteInit == Init => DeleteInv
  BY TypeInit, LeaseAssumption DEF Init, DeleteInv, Revisions, DeletesOwn, SentOnRelease, NoLease

\* No step sends, or hits, a Lease of somebody else.
LEMMA DeleteStep == DeleteInv /\ [Next]_vars => DeleteInv'
<1> SUFFICES ASSUME DeleteInv, [Next]_vars PROVE Revisions' /\ DeletesOwn' /\ SentOnRelease'
  BY TypeStep DEF DeleteInv
<1> USE LeaseAssumption DEF DeleteInv, TypeOK, Revisions, DeletesOwn, SentOnRelease, store,
                            wire, Goto, Ends, Fails
<1>1. ASSUME NEW r \in Runs, Acquire(r) PROVE Revisions' /\ DeletesOwn' /\ SentOnRelease'
  BY <1>1 DEF Acquire
<1>2. ASSUME NEW r \in Runs, HandleCreate(r) PROVE Revisions' /\ DeletesOwn' /\ SentOnRelease'
  BY <1>2 DEF HandleCreate
<1>3. ASSUME NEW r \in Runs, CreateAgain(r) PROVE Revisions' /\ DeletesOwn' /\ SentOnRelease'
  BY <1>3 DEF CreateAgain
<1>4. ASSUME NEW r \in Runs, CreateAnswered(r) PROVE Revisions' /\ DeletesOwn' /\ SentOnRelease'
  BY <1>4 DEF CreateAnswered
<1>5. ASSUME NEW r \in Runs, ReadLease(r) PROVE Revisions' /\ DeletesOwn' /\ SentOnRelease'
  BY <1>5 DEF ReadLease, HeldBy
<1>6. ASSUME NEW r \in Runs, AcquireFails(r) PROVE Revisions' /\ DeletesOwn' /\ SentOnRelease'
  BY <1>6 DEF AcquireFails
<1>7. ASSUME NEW r \in Runs, Finish(r) PROVE Revisions' /\ DeletesOwn' /\ SentOnRelease'
  BY <1>7 DEF Finish
<1>8. ASSUME NEW r \in Runs, ReadOwner(r) PROVE Revisions' /\ DeletesOwn' /\ SentOnRelease'
  BY <1>8 DEF ReadOwner
<1>9. ASSUME NEW r \in Runs, HandleDelete(r) PROVE Revisions' /\ DeletesOwn' /\ SentOnRelease'
  BY <1>9 DEF HandleDelete, DeleteApplies, NoLease
<1>10. ASSUME NEW r \in Runs, DeleteAnswered(r) PROVE Revisions' /\ DeletesOwn' /\ SentOnRelease'
  BY <1>10 DEF DeleteAnswered
<1>11. ASSUME NEW r \in Runs, ReleaseFails(r) PROVE Revisions' /\ DeletesOwn' /\ SentOnRelease'
  BY <1>11 DEF ReleaseFails
<1>12. ASSUME NEW r \in Runs, Crash(r) PROVE Revisions' /\ DeletesOwn' /\ SentOnRelease'
  BY <1>12 DEF Crash
<1>13. CASE OperatorRemoves
  BY <1>13 DEF OperatorRemoves, NoLease
<1>14. CASE OperatorEdits
  BY <1>14 DEF OperatorEdits
<1>15. CASE UNCHANGED vars
  BY <1>15 DEF vars
<1> QED
  BY <1>1, <1>2, <1>3, <1>4, <1>5, <1>6, <1>7, <1>8, <1>9, <1>10, <1>11, <1>12, <1>13,
     <1>14, <1>15 DEF Next, Run, Quiescent

\* A Lease is removed by its own holder's Delete, whatever the operator does.
LEMMA DeleteOwnStep ==
  ASSUME DeleteInv, NEW r \in Runs, HandleDelete(r), lease' # lease
  PROVE  lease.holder = r
  BY DEF DeleteInv, DeletesOwn, HandleDelete, DeleteApplies, store

\* The Delete of a run never removes the Lease of another one (ReleaseDrainLease and its
\* preconditions); this holds for a careless operator as well.
THEOREM ReleaseSafe == Spec => ReleasesOwnLease
<1>1. DeleteInv /\ [Next]_vars
        => [\A r \in Runs : HandleDelete(r) /\ lease' # lease => lease.holder = r]_vars
  BY DeleteOwnStep
<1> QED
  BY <1>1, DeleteInit, DeleteStep, PTL DEF Spec, ReleasesOwnLease

-----------------------------------------------------------------------------

MutexInv == DeleteInv /\ Fresh /\ OwnsLease

\* At first no run has sent anything and none holds the Lease.
LEMMA MutexInit == Init => MutexInv
  BY DeleteInit DEF Init, MutexInv, Fresh, OwnsLease, Holds

\* Nobody takes the Lease from a run that holds it.
LEMMA MutexInvStep ==
  ASSUME CarefulOperator
  PROVE  MutexInv /\ [Next]_vars => MutexInv'
<1> SUFFICES ASSUME MutexInv, [Next]_vars PROVE Fresh' /\ OwnsLease'
  BY DeleteStep DEF MutexInv
<1> USE LeaseAssumption, CarefulOperator DEF MutexInv, DeleteInv, TypeOK, Revisions, DeletesOwn,
        SentOnRelease, Fresh, OwnsLease, Holds, store, wire, Goto, Ends, Fails
<1>1. ASSUME NEW r \in Runs, Acquire(r) PROVE Fresh' /\ OwnsLease'
  BY <1>1 DEF Acquire
<1>2. ASSUME NEW r \in Runs, HandleCreate(r) PROVE Fresh' /\ OwnsLease'
  BY <1>2 DEF HandleCreate
<1>3. ASSUME NEW r \in Runs, CreateAgain(r) PROVE Fresh' /\ OwnsLease'
  BY <1>3 DEF CreateAgain
<1>4. ASSUME NEW r \in Runs, CreateAnswered(r) PROVE Fresh' /\ OwnsLease'
  BY <1>4 DEF CreateAnswered
<1>5. ASSUME NEW r \in Runs, ReadLease(r) PROVE Fresh' /\ OwnsLease'
  BY <1>5 DEF ReadLease, HeldBy
<1>6. ASSUME NEW r \in Runs, AcquireFails(r) PROVE Fresh' /\ OwnsLease'
  BY <1>6 DEF AcquireFails
<1>7. ASSUME NEW r \in Runs, Finish(r) PROVE Fresh' /\ OwnsLease'
  BY <1>7 DEF Finish
<1>8. ASSUME NEW r \in Runs, ReadOwner(r) PROVE Fresh' /\ OwnsLease'
  BY <1>8 DEF ReadOwner
<1>9. ASSUME NEW r \in Runs, HandleDelete(r) PROVE Fresh' /\ OwnsLease'
  BY <1>9 DEF HandleDelete, DeleteApplies, NoLease
<1>10. ASSUME NEW r \in Runs, DeleteAnswered(r) PROVE Fresh' /\ OwnsLease'
  BY <1>10 DEF DeleteAnswered
<1>11. ASSUME NEW r \in Runs, ReleaseFails(r) PROVE Fresh' /\ OwnsLease'
  BY <1>11 DEF ReleaseFails
<1>12. ASSUME NEW r \in Runs, Crash(r) PROVE Fresh' /\ OwnsLease'
  BY <1>12 DEF Crash
<1>13. CASE OperatorRemoves
  BY <1>13 DEF OperatorRemoves, NoLease
<1>14. CASE OperatorEdits
  BY <1>14 DEF OperatorEdits
<1>15. CASE UNCHANGED vars
  BY <1>15 DEF vars
<1> QED
  BY <1>1, <1>2, <1>3, <1>4, <1>5, <1>6, <1>7, <1>8, <1>9, <1>10, <1>11, <1>12, <1>13,
     <1>14, <1>15 DEF Next, Run, Quiescent

\* Only one run can own the Lease.
LEMMA OwnsExcludes == MutexInv => MutualExclusion
  BY DEF MutexInv, OwnsLease, Holds, MutualExclusion, Draining

\* AcquireDrainLease lets one run at a time go on, if a stale Lease is removed by hand
\* only after its holder has ended.
THEOREM MutexSafe ==
  ASSUME CarefulOperator
  PROVE  Spec => []MutualExclusion
  BY MutexInit, MutexInvStep, OwnsExcludes, PTL DEF Spec

-----------------------------------------------------------------------------

\* A run that ends without trouble leaves neither the Lease nor a Create under way.
EndsClean ==
  \A r \in Runs :
    /\ r \in troubled => pc[r] = "ended"
    /\ r \in creates => (pc[r] = "create" /\ answer[r] = "none") \/ r \in troubled
    /\ pc[r] = "delete" /\ answer[r] = "deleted" => lease.holder # r
    /\ pc[r] = "ended" /\ r \notin troubled => lease.holder # r /\ r \notin creates

\* Every step keeps it, the ones of the operator included.
LEMMA EndsCleanStep ==
  DeleteInv /\ Fresh /\ EndsClean /\ [Next]_vars => Fresh' /\ EndsClean'
<1> SUFFICES ASSUME DeleteInv, Fresh, EndsClean, [Next]_vars PROVE Fresh' /\ EndsClean'
  OBVIOUS
<1> USE LeaseAssumption DEF DeleteInv, SentOnRelease, TypeOK, Phases, Fresh, EndsClean, store,
                            wire, Goto, Ends, Fails
<1>1. ASSUME NEW r \in Runs, Acquire(r) PROVE Fresh' /\ EndsClean'
  BY <1>1 DEF Acquire
<1>2. ASSUME NEW r \in Runs, HandleCreate(r) PROVE Fresh' /\ EndsClean'
  BY <1>2 DEF HandleCreate
<1>3. ASSUME NEW r \in Runs, CreateAgain(r) PROVE Fresh' /\ EndsClean'
  BY <1>3 DEF CreateAgain
<1>4. ASSUME NEW r \in Runs, CreateAnswered(r) PROVE Fresh' /\ EndsClean'
  BY <1>4 DEF CreateAnswered
<1>5. ASSUME NEW r \in Runs, ReadLease(r) PROVE Fresh' /\ EndsClean'
  BY <1>5 DEF ReadLease, HeldBy
<1>6. ASSUME NEW r \in Runs, AcquireFails(r) PROVE Fresh' /\ EndsClean'
  BY <1>6 DEF AcquireFails
<1>7. ASSUME NEW r \in Runs, Finish(r) PROVE Fresh' /\ EndsClean'
  BY <1>7 DEF Finish
<1>8. ASSUME NEW r \in Runs, ReadOwner(r) PROVE Fresh' /\ EndsClean'
  BY <1>8 DEF ReadOwner
<1>9. ASSUME NEW r \in Runs, HandleDelete(r) PROVE Fresh' /\ EndsClean'
  BY <1>9 DEF HandleDelete, DeleteApplies, NoLease
<1>10. ASSUME NEW r \in Runs, DeleteAnswered(r) PROVE Fresh' /\ EndsClean'
  BY <1>10 DEF DeleteAnswered
<1>11. ASSUME NEW r \in Runs, ReleaseFails(r) PROVE Fresh' /\ EndsClean'
  BY <1>11 DEF ReleaseFails
<1>12. ASSUME NEW r \in Runs, Crash(r) PROVE Fresh' /\ EndsClean'
  BY <1>12 DEF Crash
<1>13. CASE OperatorRemoves
  BY <1>13 DEF OperatorRemoves, NoLease
<1>14. CASE OperatorEdits
  BY <1>14 DEF OperatorEdits
<1>15. CASE UNCHANGED vars
  BY <1>15 DEF vars
<1> QED
  BY <1>1, <1>2, <1>3, <1>4, <1>5, <1>6, <1>7, <1>8, <1>9, <1>10, <1>11, <1>12, <1>13,
     <1>14, <1>15 DEF Next, Run, Quiescent

\* The node stays locked only after a run that died, gave up or reported an error
\* (AcquireDrainLease and ReleaseDrainLease), whatever the operator does.
THEOREM LeaksSafe == Spec => []LeaksOnlyAfterTrouble
<1>1. Init => DeleteInv /\ Fresh /\ EndsClean
  BY DeleteInit DEF Init, Fresh, EndsClean
<1>2. DeleteInv /\ EndsClean => LeaksOnlyAfterTrouble
  BY DEF DeleteInv, TypeOK, EndsClean, LeaksOnlyAfterTrouble
<1> QED
  BY <1>1, <1>2, DeleteStep, EndsCleanStep, PTL DEF Spec
=============================================================================
