----------------------------- MODULE DrainLease -----------------------------
(***************************************************************************)
(* AcquireDrainLease and ReleaseDrainLease of internal/kube/actions.go:    *)
(* the Lease object that keeps two runs from draining one node.  Any       *)
(* number of runs, each with a RunID of its own, talk to the API server.   *)
(* A request takes effect when the server gets to it, which may be after   *)
(* the caller has given up or died; the answer may be lost and the request *)
(* sent again.  The Lease does not expire: its duration is written and     *)
(* never read.                                                             *)
(***************************************************************************)
EXTENDS Naturals

CONSTANTS
  Runs,            \* RunIDs
  None,            \* no holder: there is no Lease object
  CarefulOperator, \* a Lease is removed by hand only after its holder has ended
  MaxRevision      \* bound on the edits of the Lease by somebody else

ASSUME LeaseAssumption ==
  None \notin Runs /\ CarefulOperator \in BOOLEAN /\ MaxRevision \in Nat

VARIABLES
  lease,    \* [holder, uid, rv]; uid and rv are revisions of the store
  revision, \* the latest revision
  pc,       \* what the run does: see Phases
  creates,  \* runs whose Create request the server has not handled yet
  deletes,  \* runs whose Delete request the server has not handled yet
  answer,   \* the answer to the latest request of the run
  known,    \* UID and resource version the run has read, its Delete preconditions
  troubled  \* history: runs that died, gave up or were told of an error on release

store == <<lease, revision>>
wire  == <<creates, deletes, answer>>
vars  == <<store, pc, wire, known, troubled>>

Phases == {"idle", "create", "read", "draining", "release", "delete", "ended"}
NoLease == [holder |-> None, uid |-> 0, rv |-> 0]

Init ==
  /\ lease = NoLease /\ revision = 0
  /\ pc = [r \in Runs |-> "idle"]
  /\ creates = {} /\ deletes = {}
  /\ answer = [r \in Runs |-> "none"]
  /\ known = [r \in Runs |-> [uid |-> 0, rv |-> 0]]
  /\ troubled = {}

Goto(r, phase) == pc' = [pc EXCEPT ![r] = phase]
Ends(r) == Goto(r, "ended")
Fails(r) == Goto(r, "ended") /\ troubled' = troubled \cup {r}

-----------------------------------------------------------------------------
(* AcquireDrainLease.                                                        *)

Acquire(r) ==
  /\ pc[r] = "idle" /\ Goto(r, "create")
  /\ creates' = creates \cup {r}
  /\ UNCHANGED <<store, deletes, answer, known, troubled>>

\* The server: the name of the Lease is a hash of the node, so one can exist.
HandleCreate(r) ==
  /\ r \in creates /\ creates' = creates \ {r}
  /\ IF lease.holder = None
     THEN /\ revision' = revision + 1
          /\ lease' = [holder |-> r, uid |-> revision', rv |-> revision']
          /\ answer' = [answer EXCEPT ![r] = "created"]
     ELSE /\ UNCHANGED store
          /\ answer' = [answer EXCEPT ![r] = "exists"]
  /\ UNCHANGED <<pc, deletes, known, troubled>>

\* The connection breaks and the transport sends the request once more.
CreateAgain(r) ==
  /\ pc[r] = "create" /\ answer[r] # "none"
  /\ answer' = [answer EXCEPT ![r] = "none"]
  /\ creates' = creates \cup {r}
  /\ UNCHANGED <<store, pc, deletes, known, troubled>>

CreateAnswered(r) ==
  /\ pc[r] = "create"
  /\ \/ answer[r] = "created" /\ Goto(r, "draining")
     \/ answer[r] = "exists" /\ Goto(r, "read")
  /\ UNCHANGED <<store, wire, known, troubled>>

\* Seeded fault: the holder is not compared.
HeldByAnybody(r) == lease.holder # None

\* Seeded fault: a Lease that exists is always taken for somebody else's.
HeldByNobody(r) == FALSE

\* The Lease in the way is this run's own: an earlier Create took effect.
HeldBy(r) == lease.holder = r

\* Reading the Lease that exists: anything else than the run's own is an error.
ReadLease(r) ==
  /\ pc[r] = "read"
  /\ IF HeldBy(r) THEN Goto(r, "draining") ELSE Ends(r)
  /\ UNCHANGED <<store, wire, known, troubled>>

\* The context ends or the server answers with another error.
AcquireFails(r) ==
  /\ pc[r] \in {"create", "read"} /\ Fails(r)
  /\ UNCHANGED <<store, wire, known>>

-----------------------------------------------------------------------------
(* ReleaseDrainLease, the deferred call of Coordinator.Drain.                *)

Finish(r) ==
  /\ pc[r] = "draining" /\ Goto(r, "release")
  /\ UNCHANGED <<store, wire, known, troubled>>

\* A Lease that is gone is fine, one of another holder is an error, the run's own is
\* deleted on condition that it is still the object that was read.
ReadOwner(r) ==
  /\ pc[r] = "release"
  /\ \/ lease.holder = None /\ Ends(r) /\ UNCHANGED <<deletes, answer, known, troubled>>
     \/ /\ lease.holder \notin {r, None} /\ Fails(r)
        /\ UNCHANGED <<deletes, answer, known>>
     \/ /\ lease.holder = r /\ Goto(r, "delete")
        /\ known' = [known EXCEPT ![r] = [uid |-> lease.uid, rv |-> lease.rv]]
        /\ deletes' = deletes \cup {r}
        /\ answer' = [answer EXCEPT ![r] = "none"]
        /\ UNCHANGED troubled
  /\ UNCHANGED <<store, creates>>

\* Seeded fault: the Lease is deleted by name.
DeleteByName(r) == lease.holder # None

\* The preconditions of the Delete.
DeleteApplies(r) ==
  lease.holder # None /\ lease.uid = known[r].uid /\ lease.rv = known[r].rv

HandleDelete(r) ==
  /\ r \in deletes /\ deletes' = deletes \ {r}
  /\ IF DeleteApplies(r)
     THEN lease' = NoLease /\ revision' = revision + 1
          /\ answer' = [answer EXCEPT ![r] = "deleted"]
     ELSE UNCHANGED store /\ answer' = [answer EXCEPT ![r] = "conflict"]
  /\ UNCHANGED <<pc, creates, known, troubled>>

DeleteAnswered(r) ==
  /\ pc[r] = "delete"
  /\ \/ answer[r] = "deleted" /\ Ends(r) /\ UNCHANGED troubled
     \/ answer[r] = "conflict" /\ Fails(r)
  /\ UNCHANGED <<store, wire, known>>

\* The ten seconds of the release are over, or the server answers with an error.
ReleaseFails(r) ==
  /\ pc[r] \in {"release", "delete"} /\ Fails(r)
  /\ UNCHANGED <<store, wire, known>>

-----------------------------------------------------------------------------
(* The process and the operator.                                             *)

\* A crash, a kill or os.Exit after the second signal; requests under way stay so.
Crash(r) ==
  /\ pc[r] \notin {"idle", "ended"} /\ Fails(r)
  /\ UNCHANGED <<store, wire, known>>

\* "remove stale lease ... only after verifying no drain is active"
OperatorRemoves ==
  /\ lease.holder # None
  /\ CarefulOperator => pc[lease.holder] = "ended"
  /\ lease' = NoLease /\ revision' = revision + 1
  /\ UNCHANGED <<pc, wire, known, troubled>>

\* Somebody edits the Lease object, which changes its resource version.
OperatorEdits ==
  /\ lease.holder # None /\ revision < MaxRevision
  /\ revision' = revision + 1
  /\ lease' = [lease EXCEPT !.rv = revision + 1]
  /\ UNCHANGED <<pc, wire, known, troubled>>

Run(r) ==
  \/ Acquire(r) \/ HandleCreate(r) \/ CreateAgain(r) \/ CreateAnswered(r)
  \/ ReadLease(r) \/ AcquireFails(r) \/ Finish(r) \/ ReadOwner(r) \/ HandleDelete(r)
  \/ DeleteAnswered(r) \/ ReleaseFails(r) \/ Crash(r)

\* All runs have ended and no request is under way.
Quiescent ==
  /\ \A r \in Runs : pc[r] = "ended"
  /\ creates = {} /\ deletes = {} /\ UNCHANGED vars

Next == (\E r \in Runs : Run(r)) \/ OperatorRemoves \/ OperatorEdits \/ Quiescent

Spec == Init /\ [][Next]_vars

-----------------------------------------------------------------------------
(* Properties.                                                               *)

TypeOK ==
  /\ lease \in [holder : Runs \cup {None}, uid : Nat, rv : Nat]
  /\ revision \in Nat
  /\ pc \in [Runs -> Phases]
  /\ creates \subseteq Runs /\ deletes \subseteq Runs /\ troubled \subseteq Runs
  /\ answer \in [Runs -> {"none", "created", "exists", "deleted", "conflict"}]
  /\ known \in [Runs -> [uid : Nat, rv : Nat]]

Draining == {r \in Runs : pc[r] = "draining"}

\* Two runs never drain the node at the same time, whatever was lost, repeated or late.
MutualExclusion == \A r, q \in Draining : r = q

\* The Delete of a run never removes the Lease of another one, not even a Delete that
\* arrives after the Lease was removed by hand and acquired anew.
ReleasesOwnLease ==
  [][\A r \in Runs : HandleDelete(r) /\ lease' # lease => lease.holder = r]_vars

\* A Lease whose holder has ended, which locks the node, is left only by a run that died,
\* gave up or reported an error.
LeaksOnlyAfterTrouble ==
  lease.holder # None /\ pc[lease.holder] = "ended" => lease.holder \in troubled
=============================================================================
