--------------------------- MODULE MigrationWatch ---------------------------
(***************************************************************************)
(* `kvdrain watch`: Coordinator.Watch of internal/coordinator, which lists *)
(* the migrations and follows the watch stream from the version it listed, *)
(* and starts over when the stream breaks; the Reducer of internal/state   *)
(* and the write of Renderer.Event, through which its reports go.  The     *)
(* migrations are KubeVirt's and go their way all the while.               *)
(*                                                                         *)
(* Only the events that follow the listed version are kept: that is what a *)
(* stream opened at that version delivers.                                 *)
(***************************************************************************)
EXTENDS Naturals, Sequences

CONSTANTS
  Migrations,  \* UIDs of migration objects
  NameOf,      \* their namespace/name; a name may be used again later
  VmiOf,       \* the VMI each one migrates
  SourceOf,    \* the node it migrates it from
  Annotated,   \* those that carry their source as an annotation from the start
  Nodes,       \* the nodes named on the command line; none means all
  Unknown,     \* no source yet
  Faults       \* what may go wrong: see Troubles

Troubles == {"break", "list", "open", "output", "signal"}

ASSUME WatchAssumption ==
  /\ Annotated \subseteq Migrations /\ Faults \subseteq Troubles
  /\ Unknown \notin Nodes \cup {SourceOf[u] : u \in Migrations}

VARIABLES
  object,     \* of each migration: [phase, known (its source), exists]
  wire,       \* events the stream has not delivered: [uid, object] as of the event
  pc,         \* what the run does: "permissions", "list", "open", "watch", "wait", "done"
  exit,       \* how it ended: "none", "interrupt", "operational"
  cancelled,  \* the context, by a signal
  tracked,    \* UIDs in the map of that name
  located,    \* those of them whose tracked copy has a source
  last,       \* Reducer.last: per key the value accepted last
  told        \* history: the state last written of each UID

server == <<object, wire>>
run    == <<pc, exit, tracked, located>>
output == <<last, told>>
vars   == <<server, cancelled, run, output>>

Going == {"pending", "running"}
Ended == {"succeeded", "failed"}
States == {"none", "deleted"} \cup Going \cup Ended
Absent == [phase |-> "none", known |-> FALSE, exists |-> FALSE]

Active(u) == object[u].phase \in Going

Nothing == <<"none", "none">>
Keys == ({SourceOf[u] : u \in Migrations} \cup {Unknown}) \X {NameOf[u] : u \in Migrations}

\* The migrations of before the run: none, one that goes on or one that has ended.
Init ==
  /\ \E old \in [Migrations -> {"none", "running", "succeeded"}] :
       /\ object = [u \in Migrations |->
            [phase |-> old[u], known |-> old[u] # "none", exists |-> old[u] # "none"]]
       /\ \A u, v \in Migrations : u # v /\ object[u].exists /\ object[v].exists =>
            NameOf[u] # NameOf[v] /\ (VmiOf[u] # VmiOf[v] \/ ~(Active(u) /\ Active(v)))
  /\ wire = <<>> /\ pc = "permissions" /\ exit = "none" /\ cancelled = FALSE
  /\ tracked = {} /\ located = {}
  /\ last = [k \in Keys |-> Nothing] /\ told = [u \in Migrations |-> "none"]

-----------------------------------------------------------------------------
(* KubeVirt and those who delete migration objects.                          *)

Publish(u, next) ==
  /\ object' = [object EXCEPT ![u] = next]
  /\ wire' = IF pc \in {"open", "watch"} THEN Append(wire, [uid |-> u, object |-> next]) ELSE wire
  /\ UNCHANGED <<cancelled, run, output>>

\* A name is free once its object is gone, a VMI has one active migration at a time.
Create(u) ==
  /\ object[u] = Absent
  /\ \A v \in Migrations : NameOf[v] = NameOf[u] => ~object[v].exists
  /\ \A v \in Migrations : VmiOf[v] = VmiOf[u] => ~(Active(v) /\ object[v].exists)
  /\ Publish(u, [phase |-> "pending", known |-> u \in Annotated, exists |-> TRUE])

Start(u) ==
  /\ object[u].exists /\ object[u].phase = "pending"
  /\ Publish(u, [phase |-> "running", known |-> TRUE, exists |-> TRUE])

End(u) ==
  /\ object[u].exists
  /\ \/ object[u].phase = "running" /\ Publish(u, [object[u] EXCEPT !.phase = "succeeded"])
     \/ Active(u) /\ Publish(u, [object[u] EXCEPT !.phase = "failed"])

Remove(u) == object[u].exists /\ Publish(u, [object[u] EXCEPT !.exists = FALSE])

-----------------------------------------------------------------------------
(* Reports: emitWatchedMigration, Reducer.Accept and the write.              *)

\* MigrationInfoFor, and the state the run gives an object that was deleted on its way.
Info(u, o) ==
  [uid |-> u, known |-> o.known,
   state |-> IF ~o.exists /\ o.phase \in Going THEN "deleted" ELSE o.phase]

\* The report of a tracked migration that the list does not have any more.
Lost(u) == [uid |-> u, known |-> u \in located, state |-> "deleted"]

Source(r) == IF r.known THEN SourceOf[r.uid] ELSE Unknown
Shown(r) == Nodes = {} \/ Source(r) \in Nodes

\* The key of the Reducer has the name of the object and not its UID.
Key(r) == <<Source(r), NameOf[r.uid]>>

\* State and details; two attempts are taken to have the same target.
Value(r) == <<r.state, VmiOf[r.uid]>>

Accepts(memory, reports) == {r \in reports : Shown(r) /\ memory[Key(r)] # Value(r)}

Remember(memory, reports) ==
  [k \in Keys |-> IF \E r \in reports : Shown(r) /\ Key(r) = k
                  THEN Value(CHOOSE r \in reports : Shown(r) /\ Key(r) = k) ELSE memory[k]]

\* The reports of first are written before those of second; within each the names differ.
\* The first error ends the run at checkOutput, so next is where it goes on without one.
Emit(first, second, next) ==
  LET after == Remember(last, first)
      accepted == Accepts(last, first) \cup Accepts(after, second)
  IN /\ last' = Remember(after, second)
     /\ \E written \in SUBSET accepted :
          /\ written # accepted => "output" \in Faults
          /\ told' = [u \in Migrations |->
               IF \E r \in written : r.uid = u THEN (CHOOSE r \in written : r.uid = u).state
               ELSE told[u]]
          /\ pc' = IF written = accepted THEN next ELSE "done"
          /\ exit' = IF written = accepted THEN exit ELSE "operational"

-----------------------------------------------------------------------------
(* Coordinator.Watch.                                                        *)

Stop(how) == pc' = "done" /\ exit' = how /\ UNCHANGED <<tracked, located>>

Begin ==
  /\ pc = "permissions"
  /\ \/ pc' = "list" /\ UNCHANGED <<exit, tracked, located>>
     \/ Stop("operational")
  /\ UNCHANGED <<server, cancelled, output>>

\* Seeded fault: what is missing is looked for before what is found has been taken off.
MissingOrEnded(listed) == {u \in tracked : ~(u \in listed /\ Active(u))}

\* Seeded fault: the second loop is left out.
NothingMissing(listed) == {}

Missing(listed) == tracked \ listed

\* Seeded fault: the watch is opened without a version.
FromNow == <<>>

\* The stream is opened at the version of the list.
FromListed == wire

\* The list and its reports: tracked migrations and active ones, then those that are gone.
List ==
  /\ pc = "list" /\ ~cancelled
  /\ LET listed == {u \in Migrations : object[u].exists}
         going  == {u \in listed : Active(u)}
     IN /\ tracked' = going
        /\ located' = {u \in going : object[u].known}
        /\ Emit({Info(u, object[u]) : u \in going \cup (tracked \cap listed)},
                {Lost(u) : u \in Missing(listed)}, "open")
  /\ wire' = <<>>
  /\ UNCHANGED <<object, cancelled>>

Open ==
  /\ pc = "open" /\ ~cancelled /\ pc' = "watch"
  /\ wire' = FromListed
  /\ UNCHANGED <<object, cancelled, exit, tracked, located, output>>

\* An error of the list or of the opening of the watch ends the run.
CallFails ==
  /\ pc \in {"list", "open"}
  /\ IF cancelled THEN Stop("interrupt") ELSE pc \in Faults /\ Stop("operational")
  /\ UNCHANGED <<server, cancelled, output>>

\* The map after an event: an active migration is in it, one that has ended is not.
Track(u, o) == IF Info(u, o).state \in Going THEN tracked \cup {u} ELSE tracked \ {u}

Deliver ==
  /\ pc = "watch" /\ wire # <<>> /\ wire' = Tail(wire)
  /\ LET u == Head(wire).uid
         o == Head(wire).object
         report == Info(u, o)
     IN IF report.state \in Going \/ u \in tracked
        THEN /\ Emit({report}, {}, "watch")
             /\ tracked' = Track(u, o)
             /\ located' = IF report.state \in Going /\ o.known THEN located \cup {u}
                           ELSE located \ {u}
        ELSE UNCHANGED <<run, output>>
  /\ UNCHANGED <<object, cancelled>>

\* The stream is closed or delivers an error; the run sleeps for the poll interval.
StreamBreaks ==
  /\ pc = "watch" /\ "break" \in Faults /\ pc' = "wait"
  /\ wire' = <<>>
  /\ UNCHANGED <<object, cancelled, exit, tracked, located, output>>

Wakes ==
  /\ pc = "wait" /\ pc' = "list"
  /\ UNCHANGED <<server, cancelled, exit, tracked, located, output>>

Interrupted ==
  /\ pc \in {"watch", "wait"} /\ cancelled /\ Stop("interrupt")
  /\ UNCHANGED <<server, cancelled, output>>

Signal ==
  /\ "signal" \in Faults /\ pc # "done" /\ ~cancelled /\ cancelled' = TRUE
  /\ UNCHANGED <<server, run, output>>

\* After the run the cluster is of no interest.
Over == pc = "done" /\ UNCHANGED vars

World == \E u \in Migrations : Create(u) \/ Start(u) \/ End(u) \/ Remove(u)

Step == Begin \/ List \/ Open \/ CallFails \/ Deliver \/ Wakes \/ Interrupted

Next == (pc # "done" /\ World) \/ Step \/ StreamBreaks \/ Signal \/ Over

\* The run takes its next step; nothing else is promised, least of all an intact stream.
Spec == Init /\ [][Next]_vars /\ WF_vars(Step)

-----------------------------------------------------------------------------
(* Properties.                                                               *)

TypeOK ==
  /\ object \in [Migrations -> [phase : {"none"} \cup Going \cup Ended,
                                known : BOOLEAN, exists : BOOLEAN]]
  /\ wire \in Seq([uid : Migrations, object : [phase : Going \cup Ended,
                                               known : BOOLEAN, exists : BOOLEAN]])
  /\ pc \in {"permissions", "list", "open", "watch", "wait", "done"}
  /\ exit \in {"none", "interrupt", "operational"} /\ cancelled \in BOOLEAN
  /\ tracked \subseteq Migrations /\ located \subseteq tracked
  /\ told \in [Migrations -> States]

\* When the stream has nothing left to deliver, the run follows exactly the migrations
\* that go on, whatever happened while it was not listening, and what it last wrote of a
\* migration it shows is what that migration is now.  Names are not reused here.
CaughtUp ==
  pc = "watch" /\ wire = <<>> =>
    /\ tracked = {u \in Migrations : object[u].exists /\ Active(u)}
    /\ \A u \in tracked : Shown(Info(u, object[u])) => told[u] = object[u].phase
    /\ \A u \in Migrations : told[u] \in Going => u \in tracked

Reporting == INSTANCE MigrationReports

\* Reports are true, in order and final, per object and across every relist.
ReportsTruly == Reporting!Spec

\* The end of a migration that was reported as going on is reported, as long as the run
\* goes on, however often its stream breaks.
EndIsReported ==
  \A u \in Migrations :
    (told[u] \in Going /\ ~(object[u].exists /\ Active(u))) ~> (told[u] \notin Going \/ pc = "done")
=============================================================================
