------------------------ MODULE MigrationWatchProofs ------------------------
(***************************************************************************)
(* For any migrations, nodes, names and faults: what `kvdrain watch`       *)
(* reports of a migration is true, in order and final, and when nothing is *)
(* left to deliver it follows what goes on and has told all there is.      *)
(*                                                                         *)
(* What a run has told of a migration lies behind every event it has not   *)
(* seen yet (Queue) and behind the object itself (Heard), and what it      *)
(* tracks it has not reported the end of (Followed).  A migration of which *)
(* no event waits is in the map exactly if it goes on (Exact); and what    *)
(* the Reducer remembers is not ahead of what was told (MemoryBehind), so  *)
(* that a report it refuses was told before (EmitReports).                 *)
(***************************************************************************)
EXTENDS MigrationWatch, TLAPS

Rank == Reporting!Rank

Object == [phase : {"none"} \cup Going \cup Ended, known : BOOLEAN, exists : BOOLEAN]
Event  == [uid : Migrations, object : [phase : Going \cup Ended, known : BOOLEAN, exists : BOOLEAN]]

\* An object in the state o may be in the state p later.
Follows(o, p) ==
  /\ Rank[o.phase] <= Rank[p.phase]
  /\ o.phase \in Ended => p.phase = o.phase
  /\ ~o.exists => p.phase = o.phase /\ ~p.exists

\* A migration of which t was told may be in the state o.
ToldBefore(t, o) ==
  /\ t \in Going => Rank[t] <= Rank[o.phase]
  /\ t \in Ended => o.phase = t
  /\ t = "deleted" => o.phase # "none" /\ ~o.exists

Heard == \A u \in Migrations : ToldBefore(told[u], object[u])

Queue ==
  \A i \in 1..Len(wire) :
    /\ Follows(wire[i].object, object[wire[i].uid])
    /\ ToldBefore(told[wire[i].uid], wire[i].object)
    /\ \A j \in i..Len(wire) :
         wire[j].uid = wire[i].uid => Follows(wire[i].object, wire[j].object)

\* An object has a phase.
Begun == \A u \in Migrations : object[u].exists => object[u].phase # "none"

Followed == \A u \in tracked : told[u] \in {"none"} \cup Going /\ object[u].phase # "none"

\* The variables as far as the proof needs them.
Typed ==
  /\ object \in [Migrations -> Object]
  /\ wire \in Seq(Event)
  /\ tracked \subseteq Migrations
  /\ told \in [Migrations -> States]

Listening == pc \in {"open", "watch"}

Inv == Typed /\ Begun /\ Heard /\ Queue /\ Followed

\* The order of the states, spelled out.
LEMMA Ranks ==
  /\ Rank["none"] = 0 /\ Rank["pending"] = 1 /\ Rank["running"] = 2
  /\ Rank["succeeded"] = 3 /\ Rank["failed"] = 3 /\ Rank["deleted"] = 3
  BY DEF Rank, Reporting!Rank, Reporting!Reports, Reporting!Going, Reporting!Ended

\* A later state of a later state is a later state.
LEMMA FollowsTransitive ==
  ASSUME NEW o \in Object, NEW p \in Object, NEW q \in Object, Follows(o, p), Follows(p, q)
  PROVE  Follows(o, q)
  BY Ranks DEF Follows, Object, Going, Ended

\* What was told stays behind an object that moves on.
LEMMA ToldStaysBefore ==
  ASSUME NEW t \in States, NEW o \in Object, NEW p \in Object, ToldBefore(t, o), Follows(o, p)
  PROVE  ToldBefore(t, p)
  BY Ranks DEF Follows, ToldBefore, Object, States, Going, Ended

\* A report made of an object lies behind every later state of the object.
LEMMA ReportBefore ==
  ASSUME NEW u \in Migrations, NEW o \in Object, NEW p \in Object, o.phase # "none", Follows(o, p)
  PROVE  ToldBefore(Info(u, o).state, p) /\ Info(u, o).state \in States \ {"none"}
  BY Ranks DEF Follows, ToldBefore, Object, States, Going, Ended, Info

\* A report goes forward, if its migration was not told to have ended.
LEMMA ReportAdvances ==
  ASSUME NEW u \in Migrations, NEW o \in Object, o.phase # "none",
         NEW t \in {"none"} \cup Going, ToldBefore(t, o), Info(u, o).state # t
  PROVE  Rank[t] < Rank[Info(u, o).state]
  BY Ranks DEF ToldBefore, Object, Going, Ended, Info

\* Of a migration that goes on nobody has told that it ended.
LEMMA GoingNotTold ==
  ASSUME NEW t \in States, NEW o \in Object, ToldBefore(t, o), NEW u, Info(u, o).state \in Going
  PROVE  t \in {"none"} \cup Going
  BY DEF ToldBefore, Object, States, Going, Ended, Info

\* What a call of Emit changes is one of its reports (Reducer.Accept, Renderer.Event).
LEMMA EmitTells ==
  ASSUME Typed, NEW first, NEW second, NEW next, Emit(first, second, next),
         \A r \in first \cup second : r.state \in States
  PROVE  /\ told' \in [Migrations -> States]
         /\ \A u \in Migrations :
              \/ told'[u] = told[u]
              \/ \E r \in first \cup second : r.uid = u /\ told'[u] = r.state
<1>1. PICK written \in SUBSET (first \cup second) :
        told' = [u \in Migrations |->
                   IF \E r \in written : r.uid = u THEN (CHOOSE r \in written : r.uid = u).state
                   ELSE told[u]]
  BY DEF Emit, Accepts
<1>2. ASSUME NEW u \in Migrations, \E r \in written : r.uid = u
      PROVE  \E r \in first \cup second : r.uid = u /\ told'[u] = r.state
  <2> DEFINE c == CHOOSE r \in written : r.uid = u
  <2>1. c \in written /\ c.uid = u
    BY <1>2
  <2>2. told'[u] = c.state
    BY <1>1, <1>2
  <2> QED
    BY <2>1, <2>2
<1>3. ASSUME NEW u \in Migrations, ~\E r \in written : r.uid = u
      PROVE  told'[u] = told[u]
  BY <1>1, <1>3
<1>4. told' = [u \in Migrations |-> told'[u]]
  BY <1>1
<1>5. \A u \in Migrations : told'[u] \in States
  BY <1>2, <1>3 DEF Typed
<1> QED
  BY <1>2, <1>3, <1>4, <1>5

-----------------------------------------------------------------------------

\* The invariant holds at first.
LEMMA InvInit == Init => Inv
<1> SUFFICES ASSUME Init PROVE Inv
  OBVIOUS
<1>1. PICK old \in [Migrations -> {"none", "running", "succeeded"}] :
        object = [u \in Migrations |->
          [phase |-> old[u], known |-> old[u] # "none", exists |-> old[u] # "none"]]
  BY DEF Init
<1>2. object \in [Migrations -> Object] /\ Begun
  BY <1>1 DEF Object, Begun, Going, Ended
<1>3. wire = <<>> /\ tracked = {} /\ told = [u \in Migrations |-> "none"]
  BY DEF Init
<1>4. Typed /\ Heard /\ Queue /\ Followed
  BY <1>2, <1>3 DEF Typed, Heard, Queue, Followed, ToldBefore, States, Going, Ended
<1> QED
  BY <1>2, <1>4 DEF Inv

\* A move of KubeVirt keeps it: the event comes last, and what was told stays behind.
LEMMA PublishStep ==
  ASSUME Inv, NEW u \in Migrations, NEW next \in Object, next.phase # "none", Publish(u, next),
         object[u].phase = "none" \/ Follows(object[u], next)
  PROVE  Inv'
<1>1. /\ object' = [object EXCEPT ![u] = next]
      /\ told' = told /\ tracked' = tracked
  BY DEF Publish, run, output
<1>2. object' \in [Migrations -> Object] /\ object'[u] = next
  BY <1>1 DEF Inv, Typed
<1>3. \A v \in Migrations \ {u} : object'[v] = object[v]
  BY <1>1 DEF Inv, Typed
<1>4. ToldBefore(told[u], next)
  <2>1. CASE object[u].phase = "none"
    <3>1. told[u] = "none"
      BY <2>1, Ranks DEF Inv, Typed, Heard, ToldBefore, States, Going, Ended, Object
    <3> QED
      BY <3>1 DEF ToldBefore, Going, Ended
  <2>2. CASE Follows(object[u], next)
    BY <2>2, ToldStaysBefore DEF Inv, Typed, Heard
  <2> QED
    BY <2>1, <2>2
<1>5. Heard'
  BY <1>1, <1>2, <1>3, <1>4 DEF Inv, Heard
<1>6. Followed' /\ Begun'
  BY <1>1, <1>2, <1>3 DEF Inv, Typed, Followed, Begun
<1>7. ASSUME NEW i \in 1..Len(wire)
      PROVE  Follows(wire[i].object, object'[wire[i].uid])
  <2>0. wire[i] \in Event
    BY <1>7 DEF Inv, Typed
  <2>1. wire[i] \in Event /\ wire[i].object \in Object
    BY <2>0 DEF Event, Object
  <2>2. Follows(wire[i].object, object[wire[i].uid])
    BY <1>7 DEF Inv, Queue
  <2>3. CASE wire[i].uid = u
    <3>1. object[u].phase # "none"
      BY <2>1, <2>2, <2>3, Ranks DEF Event, Follows, Going, Ended
    <3>2. Follows(object[u], next)
      BY <3>1
    <3> QED
      BY <1>2, <2>1, <2>2, <2>3, <3>2, FollowsTransitive DEF Inv, Typed
  <2>4. CASE wire[i].uid # u
    BY <1>3, <2>1, <2>2, <2>4 DEF Event
  <2> QED
    BY <2>3, <2>4
<1>8. CASE wire' = wire
  BY <1>1, <1>2, <1>5, <1>6, <1>7, <1>8 DEF Inv, Typed, Queue
<1>9. CASE wire' = Append(wire, [uid |-> u, object |-> next])
  <2> DEFINE new == [uid |-> u, object |-> next]
  <2>1. new \in Event
    BY DEF Event, Object
  <2>2. wire' \in Seq(Event) /\ Len(wire') = Len(wire) + 1
    BY <1>9, <2>1 DEF Inv, Typed
  <2>3. \A i \in 1..Len(wire) : wire'[i] = wire[i]
    BY <1>9, <2>1 DEF Inv, Typed
  <2>4. wire'[Len(wire) + 1] = new
    BY <1>9, <2>1 DEF Inv, Typed
  <2>5. ASSUME NEW i \in 1..Len(wire')
        PROVE  /\ Follows(wire'[i].object, object'[wire'[i].uid])
               /\ ToldBefore(told'[wire'[i].uid], wire'[i].object)
               /\ \A j \in i..Len(wire') :
                    wire'[j].uid = wire'[i].uid => Follows(wire'[i].object, wire'[j].object)
    <3>0. Len(wire) \in Nat
      BY DEF Inv, Typed
    <3>1. CASE i \in 1..Len(wire)
      <4>1. ASSUME NEW j \in i..Len(wire'), wire'[j].uid = wire'[i].uid
            PROVE  Follows(wire'[i].object, wire'[j].object)
        <5>1. CASE j \in i..Len(wire)
          BY <2>3, <3>0, <3>1, <4>1, <5>1 DEF Inv, Queue
        <5>2. CASE j = Len(wire) + 1
          BY <1>2, <1>7, <2>3, <2>4, <3>1, <4>1, <5>2
        <5> QED
          BY <2>2, <3>0, <5>1, <5>2
      <4> QED
        BY <1>1, <1>7, <2>3, <3>1, <4>1 DEF Inv, Queue
    <3>2. CASE i = Len(wire) + 1
      <4>1. Follows(next, next)
        BY Ranks DEF Follows, Object, Going, Ended
      <4>2. \A j \in i..Len(wire') : j = i
        BY <2>2, <3>0, <3>2
      <4> QED
        BY <1>1, <1>2, <1>4, <2>4, <3>2, <4>1, <4>2
    <3> QED
      BY <2>2, <3>0, <3>1, <3>2
  <2>6. Queue'
    BY <2>5 DEF Queue
  <2> QED
    BY <1>1, <1>2, <1>5, <1>6, <2>2, <2>6 DEF Inv, Typed
<1> QED
  BY <1>8, <1>9 DEF Publish

\* A move of KubeVirt is a Move of the specification.
LEMMA WorldStep == Inv /\ World => Inv' /\ Reporting!Move
<1> SUFFICES ASSUME Inv, NEW u \in Migrations, Create(u) \/ Start(u) \/ End(u) \/ Remove(u)
             PROVE  Inv' /\ Reporting!Move
  BY DEF World
<1>1. object[u] \in Object
  BY DEF Inv, Typed
<1>2. PICK next \in Object :
        /\ Publish(u, next) /\ next.phase # "none"
        /\ \/ object[u].phase = "none" /\ next.phase = "pending"
           \/ object[u].exists /\ object[u].phase # "none" /\ next.exists
              /\ Rank[object[u].phase] < Rank[next.phase] /\ object[u].phase \in Going
           \/ object[u].exists /\ ~next.exists /\ next.phase = object[u].phase
  <2>1. CASE Create(u)
    <3> DEFINE new == [phase |-> "pending", known |-> u \in Annotated, exists |-> TRUE]
    <3>1. new \in Object /\ Publish(u, new) /\ object[u].phase = "none"
      BY <2>1 DEF Create, Absent, Object, Going
    <3> QED
      BY <3>1
  <2>2. CASE Start(u)
    <3> DEFINE new == [phase |-> "running", known |-> TRUE, exists |-> TRUE]
    <3>1. new \in Object /\ Publish(u, new)
      BY <2>2 DEF Start, Object, Going
    <3> QED
      BY <2>2, <3>1, Ranks DEF Start, Going
  <2>3. CASE End(u)
    <3>1. PICK phase \in Ended : Publish(u, [object[u] EXCEPT !.phase = phase])
      <4>1. "succeeded" \in Ended /\ "failed" \in Ended
        BY DEF Ended
      <4> QED
        BY <2>3, <4>1 DEF End
    <3> DEFINE new == [object[u] EXCEPT !.phase = phase]
    <3>2. /\ Publish(u, new) /\ new \in Object
          /\ new.phase = phase /\ new.exists = object[u].exists
      BY <1>1, <3>1 DEF Object
    <3>3. object[u].exists /\ object[u].phase \in Going
      BY <2>3 DEF End, Active, Going
    <3>4. /\ phase # "none" /\ object[u].phase # "none"
          /\ Rank[object[u].phase] < Rank[phase]
      BY <3>3, Ranks DEF Going, Ended
    <3> HIDE DEF new
    <3> QED
      BY <3>2, <3>3, <3>4
  <2>4. CASE Remove(u)
    <3> DEFINE new == [object[u] EXCEPT !.exists = FALSE]
    <3>1. new \in Object /\ new.phase = object[u].phase /\ ~new.exists
      BY <1>1 DEF Object
    <3>2. Publish(u, new) /\ object[u].exists /\ object[u].phase # "none"
      BY <2>4 DEF Remove, Inv, Begun
    <3> QED
      BY <3>1, <3>2
  <2> QED
    BY <2>1, <2>2, <2>3, <2>4
<1>3. object[u].phase = "none" \/ Follows(object[u], next)
  BY <1>1, <1>2, Ranks DEF Follows, Object, Going, Ended
<1>4. Inv'
  BY <1>2, <1>3, PublishStep
<1>5. object' = [object EXCEPT ![u] = next] /\ told' = told
  BY <1>2 DEF Publish, output
<1>6. Reporting!Move
  BY <1>1, <1>2, <1>4, <1>5 DEF Inv, Typed, Object, Rank, Reporting!Move, Reporting!Objects,
     Reporting!Going, Reporting!Ended, Going, Ended
<1> QED
  BY <1>4, <1>6

-----------------------------------------------------------------------------

\* A report of each migration that advances what was told of it is a Tell.
LEMMA TellStep ==
  ASSUME Typed, UNCHANGED object, told' \in [Migrations -> States],
         \A u \in Migrations :
           told'[u] # told[u] => Rank[told[u]] < Rank[told'[u]] /\ Reporting!True(u, told'[u])
  PROVE  [Reporting!Next]_<<object, told>>
  BY DEF Reporting!Next, Reporting!Tell, Reporting!Reports, Rank, States, Going, Ended,
     Reporting!Going, Reporting!Ended

\* What is behind an object is or has been true of it.
LEMMA BeforeIsTrue ==
  ASSUME Typed, NEW u \in Migrations, NEW t \in States \ {"none"}, ToldBefore(t, object[u])
  PROVE  Reporting!True(u, t)
<1>1. object[u] \in Object
  BY DEF Typed
<1> QED
  BY <1>1, Ranks DEF ToldBefore, Object, States, Going, Ended, Rank, Reporting!True,
     Reporting!Going

\* The list: what it has is told as it is, what is tracked and gone is told as deleted.
LEMMA ListStep == Inv /\ List => Inv' /\ [Reporting!Next]_<<object, told>>
<1> SUFFICES ASSUME Inv, List PROVE Inv' /\ [Reporting!Next]_<<object, told>>
  OBVIOUS
<1> DEFINE listed == {u \in Migrations : object[u].exists}
           going  == {u \in listed : Active(u)}
           first  == {Info(u, object[u]) : u \in going \cup (tracked \cap listed)}
           second == {Lost(u) : u \in Missing(listed)}
<1>1. /\ tracked' = going /\ wire' = <<>> /\ object' = object
      /\ Emit(first, second, "open")
  BY DEF List
<1>2. \A u \in Migrations : object[u] \in Object
  BY DEF Inv, Typed
<1>3. ASSUME NEW r \in first
      PROVE  /\ r.uid \in Migrations /\ object[r.uid].exists /\ object[r.uid].phase # "none"
             /\ r = Info(r.uid, object[r.uid])
             /\ r.uid \in tracked \/ object[r.uid].phase \in Going
  BY DEF Inv, Typed, Begun, Info, Active
<1>4. ASSUME NEW r \in second
      PROVE  /\ r.uid \in tracked /\ r.uid \in Migrations /\ ~object[r.uid].exists
             /\ r.state = "deleted"
  BY DEF Inv, Typed, Lost, Missing
<1>5. ASSUME NEW u \in Migrations
      PROVE  Follows(object[u], object[u])
  BY <1>2, Ranks DEF Follows, Object, Going, Ended
<1>6. \A r \in first \cup second : r.state \in States
  <2>1. \A r \in first : r.state \in States
    BY <1>2, <1>3, <1>5, ReportBefore
  <2> HIDE DEF first, second
  <2> QED
    BY <1>4, <2>1 DEF States
<1>7. /\ told' \in [Migrations -> States]
      /\ \A u \in Migrations :
           \/ told'[u] = told[u]
           \/ \E r \in first \cup second : r.uid = u /\ told'[u] = r.state
  <2>1. Typed
    BY DEF Inv
  <2> HIDE DEF first, second
  <2> QED
    BY <1>1, <1>6, <2>1, EmitTells
<1> HIDE DEF first, second
<1>8. ASSUME NEW u \in Migrations, told'[u] # told[u]
      PROVE  /\ Rank[told[u]] < Rank[told'[u]]
             /\ ToldBefore(told'[u], object[u]) /\ told'[u] # "none"
  <2>1. PICK r \in first \cup second : r.uid = u /\ told'[u] = r.state
    BY <1>7, <1>8
  <2>2. CASE r \in first
    <3>1. /\ object[u].exists /\ object[u].phase # "none"
          /\ told'[u] = Info(u, object[u]).state
          /\ u \in tracked \/ object[u].phase \in Going
      BY <1>3, <2>1, <2>2
    <3>2. ToldBefore(told[u], object[u]) /\ told[u] \in States
      BY DEF Inv, Heard, Typed
    <3>3. told[u] \in {"none"} \cup Going
      <4>1. CASE u \in tracked
        BY <4>1 DEF Inv, Followed
      <4>2. CASE object[u].phase \in Going
        <5>1. Info(u, object[u]).state \in Going
          BY <3>1, <4>2 DEF Info
        <5> QED
          BY <1>2, <3>2, <5>1, GoingNotTold
      <4> QED
        BY <3>1, <4>1, <4>2
    <3> QED
      BY <1>2, <1>5, <1>8, <3>1, <3>2, <3>3, ReportAdvances, ReportBefore
  <2>3. CASE r \in second
    <3>1. u \in tracked /\ ~object[u].exists /\ told'[u] = "deleted"
      BY <1>4, <2>1, <2>3
    <3>2. told[u] \in {"none"} \cup Going /\ object[u].phase # "none"
      BY <3>1 DEF Inv, Followed
    <3> QED
      BY <3>1, <3>2, Ranks DEF ToldBefore, Going, Ended
  <2> QED
    BY <2>1, <2>2, <2>3
<1>9. [Reporting!Next]_<<object, told>>
  BY <1>1, <1>7, <1>8, BeforeIsTrue, TellStep DEF Inv
<1>10. Heard'
  BY <1>1, <1>8 DEF Inv, Heard
<1>11. Followed'
  <2>1. ASSUME NEW u \in going PROVE told'[u] \in {"none"} \cup Going
    <3>1. Info(u, object[u]).state \in Going
      BY DEF Info, Active
    <3>2. ToldBefore(told'[u], object[u]) /\ told'[u] \in States
      BY <1>1, <1>7, <1>10 DEF Heard
    <3> QED
      BY <1>2, <3>1, <3>2, GoingNotTold
  <2> QED
    BY <1>1, <2>1 DEF Followed, Active, Going
<1>12. Typed' /\ Begun' /\ Queue'
  BY <1>1, <1>7 DEF Inv, Typed, Begun, Queue
<1> QED
  BY <1>9, <1>10, <1>11, <1>12 DEF Inv

\* An event: the first of the queue lies before the others, so telling it changes nothing
\* for them.
LEMMA DeliverStep == Inv /\ Deliver => Inv' /\ [Reporting!Next]_<<object, told>>
<1> SUFFICES ASSUME Inv, Deliver PROVE Inv' /\ [Reporting!Next]_<<object, told>>
  OBVIOUS
<1> DEFINE u == wire[1].uid
           o == wire[1].object
           report == Info(u, o)
<1>1. /\ wire # <<>> /\ wire \in Seq(Event) /\ wire' = Tail(wire) /\ object' = object
  BY DEF Deliver, Inv, Typed
<1>2. Len(wire) \in Nat \ {0} /\ Head(wire) = wire[1]
  BY <1>1
<1>3. wire[1] \in Event
  BY <1>1, <1>2
<1>4. u \in Migrations /\ o \in Object /\ o.phase # "none"
  BY <1>3 DEF Event, Object, Going, Ended
<1>5. /\ Follows(o, object[u]) /\ ToldBefore(told[u], o)
      /\ \A j \in 1..Len(wire) : wire[j].uid = u => Follows(o, wire[j].object)
  BY <1>2 DEF Inv, Queue
<1>6. wire' \in Seq(Event) /\ Len(wire') = Len(wire) - 1
  BY <1>1, <1>2
<1>7. \A i \in 1..Len(wire') : wire'[i] = wire[i + 1] /\ i + 1 \in 1..Len(wire)
  BY <1>1, <1>2, <1>6
<1>8. Follows(o, o)
  BY <1>4, Ranks DEF Follows, Object, Going, Ended
<1>9. report.state \in States /\ report.uid = u
  BY <1>4, <1>8, ReportBefore DEF Info
<1>10. CASE report.state \in Going \/ u \in tracked
  <2>1. /\ Emit({report}, {}, "watch")
        /\ tracked' = IF report.state \in Going THEN tracked \cup {u} ELSE tracked \ {u}
    BY <1>2, <1>10 DEF Deliver, Track
  <2>2. /\ told' \in [Migrations -> States]
        /\ \A v \in Migrations :
             \/ told'[v] = told[v]
             \/ \E r \in {report} \cup {} : r.uid = v /\ told'[v] = r.state
    BY <1>9, <2>1, EmitTells DEF Inv
  <2>3. \A v \in Migrations : told'[v] # told[v] => v = u /\ told'[v] = report.state
    BY <1>9, <2>2
  <2>4. told[u] \in {"none"} \cup Going
    <3>1. CASE u \in tracked
      BY <3>1 DEF Inv, Followed
    <3>2. CASE report.state \in Going
      BY <1>4, <1>5, <3>2, GoingNotTold DEF Inv, Typed
    <3> QED
      BY <1>10, <3>1, <3>2
  <2>5. ASSUME NEW p \in Object, Follows(o, p)
        PROVE  ToldBefore(told'[u], p)
    BY <1>4, <1>5, <2>3, <2>5, ReportBefore, ToldStaysBefore DEF Inv, Typed
  <2>6. Heard'
    BY <1>1, <1>4, <1>5, <2>3, <2>5 DEF Inv, Typed, Heard
  <2>7. Queue'
    <3> SUFFICES ASSUME NEW i \in 1..Len(wire')
                 PROVE  ToldBefore(told'[wire'[i].uid], wire'[i].object)
      BY <1>1, <1>6, <1>7 DEF Inv, Queue
    <3>1. wire'[i] \in Event /\ wire'[i] = wire[i + 1] /\ i + 1 \in 1..Len(wire)
      BY <1>6, <1>7
    <3>2. wire'[i].uid \in Migrations /\ wire'[i].object \in Object
      BY <3>1 DEF Event, Object
    <3> QED
      BY <1>4, <1>5, <2>3, <2>5, <3>1, <3>2 DEF Inv, Queue
  <2>8. Followed'
    <3>1. object[u].phase # "none"
      BY <1>4, <1>5, Ranks DEF Follows, Object, Going, Ended, Inv, Typed
    <3>2. ASSUME report.state \in Going PROVE told'[u] \in {"none"} \cup Going
      BY <1>4, <2>3, <2>4, <3>2
    <3>3. ASSUME NEW v \in tracked', v # u PROVE told'[v] = told[v] /\ v \in tracked
      BY <2>1, <2>3, <3>3 DEF Inv, Typed
    <3>4. u \in tracked' => report.state \in Going
      BY <2>1
    <3> QED
      BY <1>1, <3>1, <3>2, <3>3, <3>4 DEF Inv, Followed
  <2>9. Typed' /\ Begun'
    BY <1>1, <1>4, <1>6, <2>1, <2>2 DEF Inv, Typed, Begun
  <2>10. ASSUME NEW v \in Migrations, told'[v] # told[v]
         PROVE  Rank[told[v]] < Rank[told'[v]] /\ Reporting!True(v, told'[v])
    <3>1. v = u /\ told'[v] = report.state /\ report.state # told[u]
      BY <2>3, <2>10
    <3>2. ToldBefore(report.state, object[u]) /\ report.state \in States \ {"none"}
      BY <1>4, <1>5, ReportBefore DEF Inv, Typed
    <3> QED
      BY <1>4, <1>5, <2>4, <3>1, <3>2, ReportAdvances, BeforeIsTrue DEF Inv
  <2> QED
    BY <1>1, <2>2, <2>6, <2>7, <2>8, <2>9, <2>10, TellStep DEF Inv
<1>11. CASE ~(report.state \in Going \/ u \in tracked)
  <2>1. tracked' = tracked /\ told' = told
    BY <1>2, <1>11 DEF Deliver, run, output
  <2>2. Queue'
    BY <1>1, <1>6, <1>7, <2>1 DEF Inv, Queue
  <2> QED
    BY <1>1, <1>6, <2>1, <2>2 DEF Inv, Typed, Begun, Heard, Followed
<1> QED
  BY <1>10, <1>11

\* The other steps of the run tell nothing; some of them drop what the stream had.
LEMMA QuietStep ==
  ASSUME Inv, UNCHANGED <<object, tracked, told>>, wire' \in {wire, <<>>}
  PROVE  Inv' /\ [Reporting!Next]_<<object, told>>
<1>1. Queue'
  BY DEF Inv, Queue
<1>2. wire' \in Seq(Event)
  <2>1. wire \in Seq(Event) /\ <<>> \in Seq(Event)
    BY DEF Inv, Typed
  <2> QED
    BY <2>1
<1>3. Typed'
  BY <1>2 DEF Inv, Typed
<1>4. Begun' /\ Heard' /\ Followed'
  BY DEF Inv, Begun, Heard, Followed
<1> QED
  BY <1>1, <1>3, <1>4 DEF Inv

\* The other steps of the run leave the map and what waits alone.
LEMMA OtherSteps ==
  ASSUME \/ Begin \/ Open \/ CallFails \/ Wakes \/ Interrupted \/ StreamBreaks \/ Signal
         \/ UNCHANGED vars
  PROVE  /\ UNCHANGED <<object, tracked, located, last, told>> /\ wire' \in {wire, <<>>}
         /\ pc' # "done" => pc # "done"
         /\ Listening' => Listening /\ wire' = wire
  BY DEF Begin, Open, FromListed, CallFails, Wakes, Interrupted, StreamBreaks, Signal, Stop, server,
     run, output, vars, Listening

\* Every step keeps the invariant and is one of the specification, or a stutter.
LEMMA InvNext == Inv /\ [Next]_vars => Inv' /\ [Reporting!Next]_<<object, told>>
<1> SUFFICES ASSUME Inv, [Next]_vars PROVE Inv' /\ [Reporting!Next]_<<object, told>>
  OBVIOUS
<1>1. CASE World
  BY <1>1, WorldStep DEF Reporting!Next
<1>2. CASE List
  BY <1>2, ListStep
<1>3. CASE Deliver
  BY <1>3, DeliverStep
<1>4. CASE \/ Begin \/ Open \/ CallFails \/ Wakes \/ Interrupted \/ StreamBreaks \/ Signal
           \/ UNCHANGED vars
  BY <1>4, OtherSteps, QuietStep
<1> QED
  BY <1>1, <1>2, <1>3, <1>4 DEF Next, Step, Over

\* `kvdrain watch` reports what is true, in order, and ends once (Coordinator.Watch,
\* Reducer.Accept), for any migrations, however names are used and whatever breaks.
THEOREM ReportsTrue == Spec => ReportsTruly
<1>1. Init => Reporting!Init
  BY DEF Init, Reporting!Init, Reporting!Objects, Reporting!Going, Reporting!Ended
<1> QED
  BY <1>1, InvInit, InvNext, PTL DEF Spec, ReportsTruly, Reporting!Spec

-----------------------------------------------------------------------------
(* What the run follows, and that it has told all there is to tell.          *)

Waits(u) == \E i \in 1..Len(wire) : wire[i].uid = u

\* The last event of a migration shows it as it is now.
LastShows ==
  \A i \in 1..Len(wire) :
    (\A j \in (i + 1)..Len(wire) : wire[j].uid # wire[i].uid) =>
      wire[i].object = object[wire[i].uid]

\* The map is right about a migration of which no event waits.
MapRight == \A u \in Migrations : ~Waits(u) => (u \in tracked <=> object[u].exists /\ Active(u))

Exact == Listening => LastShows /\ MapRight

\* The first event is taken off the queue.
LEMMA HeadGone ==
  ASSUME wire \in Seq(Event), wire # <<>>, wire' = Tail(wire)
  PROVE  /\ Len(wire) \in Nat \ {0} /\ wire' \in Seq(Event) /\ Len(wire') = Len(wire) - 1
         /\ Head(wire) = wire[1] /\ wire[1] \in Event
         /\ \A i \in 1..Len(wire') : wire'[i] = wire[i + 1] /\ i + 1 \in 1..Len(wire)
         /\ \A i \in 2..Len(wire) : wire[i] = wire'[i - 1] /\ i - 1 \in 1..Len(wire')
<1>1. Len(wire) \in Nat \ {0} /\ wire' \in Seq(Event) /\ Len(wire') = Len(wire) - 1
  OBVIOUS
<1>2. Head(wire) = wire[1] /\ wire[1] \in Event
  BY <1>1
<1>3. \A i \in 1..Len(wire') : wire'[i] = wire[i + 1] /\ i + 1 \in 1..Len(wire)
  BY <1>1
<1> QED
  BY <1>1, <1>2, <1>3

\* An event is put at its end.
LEMMA EventLast ==
  ASSUME wire \in Seq(Event), NEW new \in Event, wire' = Append(wire, new)
  PROVE  /\ Len(wire) \in Nat /\ wire' \in Seq(Event) /\ Len(wire') = Len(wire) + 1
         /\ wire'[Len(wire) + 1] = new /\ \A i \in 1..Len(wire) : wire'[i] = wire[i]
  OBVIOUS

\* What KubeVirt and the others do is published, and a source that is known stays known.
LEMMA WorldPublishes ==
  ASSUME Inv, World
  PROVE  \E u \in Migrations : \E next \in Object :
           /\ Publish(u, next) /\ next.phase # "none" /\ (object[u].known => next.known)
<1>1. PICK u \in Migrations : Create(u) \/ Start(u) \/ End(u) \/ Remove(u)
  BY DEF World
<1>2. object[u] \in Object
  BY DEF Inv, Typed
<1>3. CASE Create(u)
  <2> DEFINE new == [phase |-> "pending", known |-> u \in Annotated, exists |-> TRUE]
  <2>1. new \in Object /\ Publish(u, new) /\ ~object[u].known /\ new.phase # "none"
    BY <1>3 DEF Create, Absent, Object, Going
  <2> QED
    BY <2>1
<1>4. CASE Start(u)
  <2> DEFINE new == [phase |-> "running", known |-> TRUE, exists |-> TRUE]
  <2>1. new \in Object /\ Publish(u, new) /\ new.known /\ new.phase # "none"
    BY <1>4 DEF Start, Object, Going
  <2> QED
    BY <2>1
<1>5. CASE End(u)
  <2>1. PICK phase \in Ended : Publish(u, [object[u] EXCEPT !.phase = phase])
    <3>1. "succeeded" \in Ended /\ "failed" \in Ended
      BY DEF Ended
    <3> QED
      BY <1>5, <3>1 DEF End
  <2> DEFINE new == [object[u] EXCEPT !.phase = phase]
  <2>2. Publish(u, new) /\ new \in Object /\ new.known = object[u].known /\ new.phase = phase
    BY <1>2, <2>1 DEF Object
  <2>3. phase # "none"
    BY DEF Ended
  <2> HIDE DEF new
  <2> QED
    BY <2>2, <2>3
<1>6. CASE Remove(u)
  <2> DEFINE new == [object[u] EXCEPT !.exists = FALSE]
  <2>1. /\ new \in Object /\ new.phase = object[u].phase /\ new.known = object[u].known
        /\ Publish(u, new) /\ object[u].phase # "none"
    BY <1>2, <1>6 DEF Remove, Object, Inv, Begun
  <2> HIDE DEF new
  <2> QED
    BY <2>1
<1> QED
  BY <1>1, <1>3, <1>4, <1>5, <1>6

\* A change that is published while the run listens waits to be told.
LEMMA ExactWorld == ASSUME Inv, Exact, World PROVE Exact'
<1>1. PICK u \in Migrations, next \in Object : Publish(u, next) /\ next.phase # "none"
  BY WorldPublishes
<1>2. /\ object' = [object EXCEPT ![u] = next] /\ pc' = pc /\ tracked' = tracked
      /\ object'[u] = next /\ \A v \in Migrations \ {u} : object'[v] = object[v]
  BY <1>1 DEF Publish, run, Inv, Typed
<1> SUFFICES ASSUME Listening PROVE LastShows' /\ MapRight'
  BY <1>2 DEF Exact, Listening
<1> DEFINE new == [uid |-> u, object |-> next]
<1>3. new \in Event /\ new.uid = u /\ new.object = next
  BY <1>1 DEF Event, Object
<1>4. wire' = Append(wire, new) /\ wire \in Seq(Event)
  BY <1>1 DEF Publish, Listening, Inv, Typed
<1> HIDE DEF new
<1>5. /\ Len(wire) \in Nat /\ wire' \in Seq(Event) /\ Len(wire') = Len(wire) + 1
      /\ wire'[Len(wire) + 1] = new /\ \A i \in 1..Len(wire) : wire'[i] = wire[i]
  BY <1>3, <1>4, EventLast
<1>6. ASSUME NEW i \in 1..Len(wire) PROVE wire[i].uid \in Migrations
  <2>1. wire[i] \in Event
    BY <1>4
  <2> QED
    BY <2>1 DEF Event
<1>7. LastShows'
  <2> SUFFICES ASSUME NEW i \in 1..Len(wire'),
                      \A j \in (i + 1)..Len(wire') : wire'[j].uid # wire'[i].uid
               PROVE  wire'[i].object = object'[wire'[i].uid]
    BY DEF LastShows
  <2>1. CASE i = Len(wire) + 1
    BY <1>2, <1>3, <1>5, <2>1
  <2>2. CASE i \in 1..Len(wire)
    <3>1. wire'[i] = wire[i] /\ wire[i].uid # u
      BY <1>3, <1>5, <2>2
    <3>2. \A j \in (i + 1)..Len(wire) : wire[j].uid # wire[i].uid
      BY <1>5, <2>2
    <3> QED
      BY <1>2, <1>6, <2>2, <3>1, <3>2 DEF Exact, LastShows
  <2> QED
    BY <1>5, <2>1, <2>2
<1>8. Waits(u)' /\ \A v \in Migrations : Waits(v) => Waits(v)'
  BY <1>3, <1>5 DEF Waits
<1>9. MapRight'
  BY <1>2, <1>8 DEF Exact, MapRight, Active
<1> QED
  BY <1>7, <1>9

\* The list leaves nothing out, and the stream starts where it ends.
LEMMA ExactList == ASSUME Inv, List PROVE Exact'
<1>1. /\ wire' = <<>> /\ object' = object
      /\ tracked' = {u \in {v \in Migrations : object[v].exists} : Active(u)}
  BY DEF List
<1> QED
  BY <1>1 DEF Exact, LastShows, MapRight, Active

\* The last event of a migration puts the map right about it.
LEMMA ExactDeliver == ASSUME Inv, Exact, Deliver PROVE Exact'
<1>1. wire \in Seq(Event) /\ wire # <<>> /\ wire' = Tail(wire) /\ object' = object
  BY DEF Deliver, Inv, Typed
<1>2. /\ Len(wire) \in Nat \ {0} /\ wire' \in Seq(Event) /\ Len(wire') = Len(wire) - 1
      /\ Head(wire) = wire[1] /\ wire[1] \in Event
      /\ \A i \in 1..Len(wire') : wire'[i] = wire[i + 1] /\ i + 1 \in 1..Len(wire)
      /\ \A i \in 2..Len(wire) : wire[i] = wire'[i - 1] /\ i - 1 \in 1..Len(wire')
  BY <1>1, HeadGone
<1>3. PICK u \in Migrations, o \in Object : u = wire[1].uid /\ o = wire[1].object
  BY <1>2 DEF Event, Object
<1>4. Listening /\ LastShows /\ MapRight
  BY DEF Deliver, Exact, Listening
<1>5. LastShows'
  <2> SUFFICES ASSUME NEW i \in 1..Len(wire'),
                      \A j \in (i + 1)..Len(wire') : wire'[j].uid # wire'[i].uid
               PROVE  wire'[i].object = object'[wire'[i].uid]
    BY DEF LastShows
  <2>1. wire'[i] = wire[i + 1] /\ i + 1 \in 1..Len(wire)
    BY <1>2
  <2>2. ASSUME NEW j \in ((i + 1) + 1)..Len(wire) PROVE wire[j].uid # wire[i + 1].uid
    <3>1. j \in 2..Len(wire) /\ j - 1 \in (i + 1)..Len(wire')
      BY <1>2
    <3> QED
      BY <1>2, <2>1, <3>1
  <2> QED
    BY <1>1, <1>4, <2>1, <2>2 DEF LastShows
<1>6. ASSUME NEW v \in Migrations, v # u, Waits(v) PROVE Waits(v)'
  <2>1. PICK i \in 1..Len(wire) : wire[i].uid = v
    BY <1>6 DEF Waits
  <2>2. i \in 2..Len(wire)
    BY <1>2, <1>3, <1>6, <2>1
  <2> QED
    BY <1>2, <2>1, <2>2 DEF Waits
<1>7. ASSUME ~Waits(u)' PROVE o = object[u]
  <2>1. ASSUME NEW j \in (1 + 1)..Len(wire) PROVE wire[j].uid # wire[1].uid
    BY <1>2, <1>3, <1>7 DEF Waits
  <2>2. 1 \in 1..Len(wire)
    BY <1>2
  <2> QED
    BY <1>3, <1>4, <2>1, <2>2 DEF LastShows
<1>8. /\ tracked' = tracked \/ tracked' = tracked \cup {u} \/ tracked' = tracked \ {u}
      /\ u \in tracked' <=> Info(u, o).state \in Going
  BY <1>2, <1>3 DEF Deliver, Track, run
<1>9. Info(u, o).state \in Going <=> o.exists /\ o.phase \in Going
  BY <1>3 DEF Info, Object, Going, Ended
<1>10. MapRight'
  <2> SUFFICES ASSUME NEW v \in Migrations, ~Waits(v)'
               PROVE  v \in tracked' <=> object[v].exists /\ Active(v)
    BY <1>1 DEF MapRight, Active
  <2>1. CASE v = u
    BY <1>7, <1>8, <1>9, <2>1 DEF Active
  <2>2. CASE v # u
    BY <1>4, <1>6, <1>8, <2>2 DEF MapRight
  <2> QED
    BY <2>1, <2>2
<1> QED
  BY <1>5, <1>10 DEF Exact

\* At first nothing is listened to.
LEMMA ExactInit == Init => Inv /\ Exact
  BY InvInit DEF Init, Exact, Listening

\* Every step keeps the map right.
LEMMA ExactNext == Inv /\ Exact /\ [Next]_vars => Exact'
<1> SUFFICES ASSUME Inv, Exact, [Next]_vars PROVE Exact'
  OBVIOUS
<1>1. CASE World
  BY <1>1, ExactWorld
<1>2. CASE List
  BY <1>2, ExactList
<1>3. CASE Deliver
  BY <1>3, ExactDeliver
<1>4. CASE \/ Begin \/ Open \/ CallFails \/ Wakes \/ Interrupted \/ StreamBreaks \/ Signal
           \/ UNCHANGED vars
  <2>1. Listening' => Listening /\ UNCHANGED <<object, wire, tracked>>
    BY <1>4, OtherSteps
  <2> QED
    BY <2>1 DEF Exact, LastShows, MapRight, Waits, Active
<1> QED
  BY <1>1, <1>2, <1>3, <1>4 DEF Next, Step, Over

\* With nothing left to deliver, that makes it exact.
LEMMA ExactShown ==
  Inv /\ Exact => (pc = "watch" /\ wire = <<>> =>
                     tracked = {u \in Migrations : object[u].exists /\ Active(u)})
  BY DEF Inv, Typed, Exact, Listening, MapRight, Waits

\* When the stream has nothing left to deliver, the run follows exactly the migrations that
\* go on: none is lost across a break, none is left behind (Coordinator.Watch), however
\* names are used.
THEOREM FollowsExactly ==
  Spec => [](pc = "watch" /\ wire = <<>> =>
               tracked = {u \in Migrations : object[u].exists /\ Active(u)})
  BY ExactInit, InvNext, ExactNext, ExactShown, PTL DEF Spec

-----------------------------------------------------------------------------
(* That it has told all there is to tell, when no name is used twice.        *)

NamesDiffer == \A u, v \in Migrations : NameOf[u] = NameOf[v] => u = v

\* A source that is known stays known.
SourceKept ==
  /\ located \subseteq tracked /\ \A u \in located : object[u].known
  /\ \A i \in 1..Len(wire) : wire[i].object.known =>
       /\ object[wire[i].uid].known
       /\ \A j \in i..Len(wire) : wire[j].uid = wire[i].uid => wire[j].object.known

\* With nodes named, a migration of which something was told is from one of them and can
\* be told to be: every later report of it is shown.
StaysShown ==
  Nodes # {} => \A u \in Migrations : told[u] # "none" =>
    /\ SourceOf[u] \in Nodes /\ object[u].known /\ (u \in tracked => u \in located)
    /\ \A i \in 1..Len(wire) : wire[i].uid = u => wire[i].object.known

\* What the Reducer remembers under a name is not ahead of what was told.
MemoryBehind ==
  \A u \in Migrations : \A k \in Keys : k[2] = NameOf[u] =>
    last[k] = Nothing \/ (last[k][1] \in States /\ Rank[last[k][1]] <= Rank[told[u]])

\* What was told to go on is tracked.
ToldTracked == \A u \in Migrations : told[u] \in Going => u \in tracked

\* Of what is tracked, shown and has no event that waits, the present state was told.
ToldNow ==
  Listening => \A u \in tracked :
    ~Waits(u) /\ Shown(Info(u, object[u])) => told[u] = object[u].phase

\* An error of the output ends the run, and with it all this.
KeepsUp ==
  pc # "done" => SourceKept /\ StaysShown /\ MemoryBehind /\ ToldTracked /\ ToldNow

\* A call of Emit that goes on has told every report that is shown: the Reducer refuses
\* only what was told already (Reducer.Accept).
LEMMA EmitReports ==
  ASSUME Typed, NamesDiffer, MemoryBehind, NEW first, NEW second, NEW next,
         Emit(first, second, next), pc' # "done",
         \A r \in first \cup second :
           /\ r.uid \in Migrations /\ r.state \in States \ {"none"}
           /\ told[r.uid] \in {"none"} \cup Going
           /\ r.state \in Going => Rank[told[r.uid]] <= Rank[r.state],
         \A r, s \in first \cup second : r.uid = s.uid => r = s
  PROVE  /\ \A r \in first \cup second : Shown(r) => told'[r.uid] = r.state
         /\ \A u \in Migrations :
              told'[u] # told[u] =>
                \E r \in first \cup second : r.uid = u /\ Shown(r) /\ told'[u] = r.state
         /\ MemoryBehind'
<1> DEFINE all == first \cup second
           after == Remember(last, first)
           accepted == Accepts(last, first) \cup Accepts(after, second)
<1> USE Ranks
<1>1. /\ last' = Remember(after, second) /\ pc' = next
      /\ told' = [u \in Migrations |->
           IF \E r \in accepted : r.uid = u THEN (CHOOSE r \in accepted : r.uid = u).state
           ELSE told[u]]
  BY DEF Emit
<1>2. \A r \in all : Key(r) \in Keys /\ Key(r)[2] = NameOf[r.uid] /\ Value(r)[1] = r.state
  BY DEF Key, Keys, Source, Value
<1>3. \A r, s \in all : Key(r) = Key(s) => r = s
  BY <1>2 DEF NamesDiffer
<1>4. accepted \subseteq all /\ \A r \in accepted : Shown(r)
  BY DEF Accepts
<1> HIDE DEF accepted
<1>5. ASSUME NEW r \in accepted
      PROVE  told'[r.uid] = r.state
  <2> DEFINE c == CHOOSE s \in accepted : s.uid = r.uid
  <2>1. c \in accepted /\ c.uid = r.uid
    OBVIOUS
  <2>2. c = r
    BY <1>4, <2>1
  <2>3. told'[r.uid] = c.state
    BY <1>1, <1>4
  <2> QED
    BY <2>2, <2>3
<1>6. ASSUME NEW u \in Migrations, told'[u] # told[u]
      PROVE  \E r \in accepted : r.uid = u /\ Shown(r) /\ told'[u] = r.state
  <2>1. PICK r \in accepted : r.uid = u
    BY <1>1, <1>6
  <2> QED
    BY <1>4, <1>5, <2>1
<1>7. ASSUME NEW k \in Keys
      PROVE  \/ after[k] = last[k] \/ \E r \in first : Shown(r) /\ Key(r) = k /\ after[k] = Value(r)
  BY DEF Remember
<1>8. ASSUME NEW k \in Keys
      PROVE  \/ last'[k] = after[k]
             \/ \E r \in second : Shown(r) /\ Key(r) = k /\ last'[k] = Value(r)
  BY <1>1 DEF Remember
<1>9. ASSUME NEW r \in all, Shown(r), r \notin accepted
      PROVE  last[Key(r)] = Value(r)
  <2>1. CASE r \in first
    BY <1>9, <2>1 DEF accepted, Accepts
  <2>2. CASE r \in second
    <3>1. after[Key(r)] = Value(r)
      BY <1>9, <2>2 DEF accepted, Accepts
    <3>2. ASSUME NEW s \in first, Key(s) = Key(r) PROVE r \in first
      BY <1>3, <3>2
    <3> QED
      BY <1>2, <1>7, <2>1, <3>1, <3>2
  <2> QED
    BY <2>1, <2>2
<1>10. ASSUME NEW r \in all, Shown(r)
       PROVE  told'[r.uid] = r.state
  <2>1. CASE r \in accepted
    BY <1>5, <2>1
  <2>2. CASE r \notin accepted
    <3>1. last[Key(r)] = Value(r)
      BY <1>9, <1>10, <2>2
    <3>2. Value(r) # Nothing
      BY <1>2 DEF Nothing
    <3>3. Rank[r.state] <= Rank[told[r.uid]]
      BY <1>2, <3>1, <3>2 DEF MemoryBehind
    <3>4. r.state = told[r.uid]
      BY <3>3 DEF States, Going, Ended
    <3>5. ~\E s \in accepted : s.uid = r.uid
      BY <1>4, <2>2
    <3> QED
      BY <1>1, <3>4, <3>5
  <2> QED
    BY <2>1, <2>2
<1>11. ASSUME NEW u \in Migrations
       PROVE  Rank[told[u]] <= Rank[told'[u]]
  <2>1. CASE told'[u] = told[u]
    BY <2>1 DEF Typed, States, Going, Ended
  <2>2. CASE told'[u] # told[u]
    <3>1. PICK r \in all : r.uid = u /\ told'[u] = r.state
      BY <1>4, <1>6, <2>2
    <3> QED
      BY <3>1 DEF States, Going, Ended
  <2> QED
    BY <2>1, <2>2
<1>12. ASSUME NEW u \in Migrations, NEW k \in Keys, k[2] = NameOf[u], last'[k] # last[k]
       PROVE  last'[k][1] \in States /\ Rank[last'[k][1]] <= Rank[told'[u]]
  <2>1. PICK r \in all : Shown(r) /\ Key(r) = k /\ last'[k] = Value(r)
    BY <1>7, <1>8, <1>12
  <2>2. r.uid = u
    BY <1>2, <1>12, <2>1 DEF NamesDiffer
  <2>3. last'[k][1] = told'[u] /\ told'[u] \in States
    BY <1>2, <1>10, <2>1, <2>2
  <2> QED
    BY <2>3 DEF States, Going, Ended
<1>13. MemoryBehind'
  <2> SUFFICES ASSUME NEW u \in Migrations, NEW k \in Keys, k[2] = NameOf[u]
               PROVE  \/ last'[k] = Nothing
                      \/ last'[k][1] \in States /\ Rank[last'[k][1]] <= Rank[told'[u]]
    BY DEF MemoryBehind, Keys, Nothing, Rank
  <2>1. CASE last'[k] # last[k]
    BY <1>12, <2>1
  <2>2. CASE last'[k] = last[k]
    <3>1. told[u] \in States /\ told'[u] \in States
      BY <1>6, <1>4 DEF Typed
    <3>2. Rank[told[u]] <= Rank[told'[u]] /\ Rank[told[u]] \in Nat /\ Rank[told'[u]] \in Nat
      BY <1>11, <3>1 DEF States, Going, Ended
    <3>3. \/ last[k] = Nothing
          \/ last[k][1] \in States /\ Rank[last[k][1]] <= Rank[told[u]] /\ Rank[last[k][1]] \in Nat
      BY DEF MemoryBehind, States, Going, Ended
    <3> QED
      BY <2>2, <3>2, <3>3
  <2> QED
    BY <2>1, <2>2
<1> QED
  BY <1>4, <1>6, <1>10, <1>13

\* A change of an object takes no source away, and it waits to be told.
LEMMA KeepsUpWorld == ASSUME Inv, KeepsUp, World PROVE KeepsUp'
<1>1. PICK u \in Migrations, next \in Object :
        Publish(u, next) /\ next.phase # "none" /\ (object[u].known => next.known)
  BY WorldPublishes
<1>2. /\ UNCHANGED <<pc, tracked, located, last, told>>
      /\ object'[u] = next /\ \A v \in Migrations \ {u} : object'[v] = object[v]
  BY <1>1 DEF Publish, run, output, Inv, Typed
<1> SUFFICES ASSUME pc # "done" PROVE KeepsUp'
  BY <1>2 DEF KeepsUp
<1>3. SourceKept /\ StaysShown /\ MemoryBehind /\ ToldTracked /\ ToldNow
  BY DEF KeepsUp
<1>4. MemoryBehind' /\ ToldTracked'
  BY <1>2, <1>3 DEF MemoryBehind, ToldTracked, Nothing, Keys, Rank
<1>5. \A v \in Migrations : object[v].known => object'[v].known
  BY <1>1, <1>2
<1> DEFINE new == [uid |-> u, object |-> next]
<1>6. new \in Event /\ new.uid = u /\ new.object = next
  BY <1>1 DEF Event, Object
<1>7. wire \in Seq(Event) /\ tracked \subseteq Migrations
  BY DEF Inv, Typed
<1>8. (wire' = wire /\ ~Listening) \/ wire' = Append(wire, new)
  BY <1>1 DEF Publish, Listening
<1> HIDE DEF new
<1>9. ASSUME NEW i \in 1..Len(wire)
      PROVE  wire[i].uid \in Migrations /\ wire[i].object \in Object
  <2>1. wire[i] \in Event
    BY <1>7
  <2> QED
    BY <2>1 DEF Event, Object
<1>10. CASE wire' = wire /\ ~Listening
  <2>1. SourceKept' /\ StaysShown'
    BY <1>2, <1>3, <1>5, <1>7, <1>9, <1>10 DEF SourceKept, StaysShown
  <2>2. ToldNow'
    BY <1>2, <1>10 DEF ToldNow, Listening
  <2> QED
    BY <1>4, <2>1, <2>2 DEF KeepsUp
<1>11. CASE wire' = Append(wire, new)
  <2>1. /\ Len(wire) \in Nat /\ wire' \in Seq(Event) /\ Len(wire') = Len(wire) + 1
        /\ wire'[Len(wire) + 1] = new /\ \A i \in 1..Len(wire) : wire'[i] = wire[i]
    BY <1>6, <1>7, <1>11, EventLast
  <2>2. SourceKept'
    <3> SUFFICES ASSUME NEW i \in 1..Len(wire'), wire'[i].object.known
                 PROVE  /\ object'[wire'[i].uid].known
                        /\ \A j \in i..Len(wire') :
                             wire'[j].uid = wire'[i].uid => wire'[j].object.known
      BY <1>2, <1>3, <1>5, <1>7 DEF SourceKept
    <3>1. CASE i = Len(wire) + 1
      <4>1. \A j \in i..Len(wire') : j = i
        BY <2>1, <3>1
      <4> QED
        BY <1>2, <1>6, <2>1, <3>1, <4>1
    <3>2. CASE i \in 1..Len(wire)
      <4>1. wire'[i] = wire[i] /\ object[wire[i].uid].known
        BY <1>3, <2>1, <3>2 DEF SourceKept
      <4>2. ASSUME NEW j \in i..Len(wire'), wire'[j].uid = wire'[i].uid
            PROVE  wire'[j].object.known
        <5>1. CASE j \in i..Len(wire)
          BY <1>3, <2>1, <3>2, <4>1, <4>2, <5>1 DEF SourceKept
        <5>2. CASE j = Len(wire) + 1
          BY <1>1, <1>6, <2>1, <4>1, <4>2, <5>2
        <5> QED
          BY <2>1, <3>2, <5>1, <5>2
      <4> QED
        BY <1>5, <1>9, <3>2, <4>1, <4>2
    <3> QED
      BY <2>1, <3>1, <3>2
  <2>3. StaysShown'
    <3> SUFFICES ASSUME Nodes # {}, NEW v \in Migrations, told[v] # "none"
                 PROVE  /\ SourceOf[v] \in Nodes /\ object'[v].known
                        /\ v \in tracked => v \in located
                        /\ \A i \in 1..Len(wire') : wire'[i].uid = v => wire'[i].object.known
      BY <1>2 DEF StaysShown
    <3>1. /\ SourceOf[v] \in Nodes /\ object[v].known /\ (v \in tracked => v \in located)
          /\ \A i \in 1..Len(wire) : wire[i].uid = v => wire[i].object.known
      BY <1>3 DEF StaysShown
    <3>2. ASSUME NEW i \in 1..Len(wire'), wire'[i].uid = v PROVE wire'[i].object.known
      <4>1. CASE i \in 1..Len(wire)
        BY <2>1, <3>1, <3>2, <4>1
      <4>2. CASE i = Len(wire) + 1
        BY <1>1, <1>6, <2>1, <3>1, <3>2, <4>2
      <4> QED
        BY <2>1, <4>1, <4>2
    <3> QED
      BY <1>5, <3>1, <3>2
  <2>4. Waits(u)' /\ \A v \in Migrations : Waits(v) => Waits(v)'
    BY <1>6, <2>1 DEF Waits
  <2>5. ToldNow'
    BY <1>2, <1>3, <1>7, <2>4 DEF ToldNow, Listening, Shown, Source, Info
  <2> QED
    BY <1>4, <2>2, <2>3, <2>5 DEF KeepsUp
<1> QED
  BY <1>8, <1>10, <1>11

\* The list tells all that it has and all that it has not any more.
LEMMA KeepsUpList == ASSUME Inv, KeepsUp, NamesDiffer, List PROVE KeepsUp'
<1> SUFFICES ASSUME pc' # "done"
             PROVE  SourceKept' /\ StaysShown' /\ MemoryBehind' /\ ToldTracked' /\ ToldNow'
  BY DEF KeepsUp
<1> DEFINE listed == {u \in Migrations : object[u].exists}
           going  == {u \in listed : Active(u)}
           first  == {Info(u, object[u]) : u \in going \cup (tracked \cap listed)}
           second == {Lost(u) : u \in Missing(listed)}
<1>1. /\ tracked' = going /\ located' = {u \in going : object[u].known}
      /\ wire' = <<>> /\ object' = object /\ Emit(first, second, "open")
  BY DEF List
<1>2. SourceKept /\ StaysShown /\ MemoryBehind /\ ToldTracked
  BY DEF List, KeepsUp
<1>3. \A u \in Migrations :
        object[u] \in Object /\ told[u] \in States /\ ToldBefore(told[u], object[u])
  BY DEF Inv, Typed, Heard
<1>4. ASSUME NEW r \in first
      PROVE  /\ r.uid \in Migrations /\ object[r.uid].exists /\ object[r.uid].phase # "none"
             /\ r = Info(r.uid, object[r.uid])
             /\ r.state = object[r.uid].phase /\ r.known = object[r.uid].known
             /\ r.uid \in tracked \/ object[r.uid].phase \in Going
  BY DEF Inv, Typed, Begun, Info, Active
<1>5. ASSUME NEW r \in second
      PROVE  /\ r.uid \in tracked /\ r.uid \in Migrations /\ ~object[r.uid].exists
             /\ r = Lost(r.uid) /\ r.state = "deleted" /\ (r.known <=> r.uid \in located)
  <2>1. PICK u \in Missing(listed) : r = Lost(u)
    OBVIOUS
  <2>2. u \in tracked /\ u \in Migrations /\ ~object[u].exists
    BY DEF Inv, Typed, Missing
  <2>3. r.uid = u /\ r.state = "deleted" /\ r.known = (u \in located)
    BY <2>1 DEF Lost
  <2> QED
    BY <2>1, <2>2, <2>3
<1>6. \A u \in tracked : u \in Migrations /\ told[u] \in {"none"} \cup Going
  BY DEF Inv, Typed, Followed
<1>7. \A u \in going : Info(u, object[u]) \in first
  OBVIOUS
<1>8. \A u \in tracked : object[u].exists => Info(u, object[u]) \in first
  BY <1>6
<1>9. \A u \in tracked : ~object[u].exists => Lost(u) \in second /\ Lost(u).uid = u
  BY <1>6 DEF Missing, Lost
<1> HIDE DEF first, second
<1>10. ASSUME NEW r \in first \cup second
       PROVE  /\ r.uid \in Migrations /\ r.state \in States \ {"none"}
              /\ told[r.uid] \in {"none"} \cup Going
              /\ r.state \in Going => Rank[told[r.uid]] <= Rank[r.state]
  <2>1. CASE r \in first
    <3>1. /\ r.uid \in Migrations /\ r.state = object[r.uid].phase /\ r.state # "none"
          /\ object[r.uid] \in Object /\ r.state = Info(r.uid, object[r.uid]).state
      BY <1>3, <1>4, <2>1
    <3>2. told[r.uid] \in {"none"} \cup Going
      BY <1>3, <1>4, <1>6, <2>1, <3>1, GoingNotTold
    <3>3. r.state \in States
      BY <3>1 DEF Object, States, Going, Ended
    <3>4. told[r.uid] \in Going => Rank[told[r.uid]] <= Rank[r.state]
      BY <1>3, <3>1 DEF ToldBefore
    <3>5. r.state \in Going => Rank["none"] <= Rank[r.state]
      BY Ranks DEF Going
    <3> QED
      BY <3>1, <3>2, <3>3, <3>4, <3>5
  <2>2. CASE r \in second
    BY <1>5, <1>6, <2>2 DEF States, Going
  <2> QED
    BY <2>1, <2>2
<1>11. \A r, s \in first \cup second : r.uid = s.uid => r = s
  BY <1>4, <1>5
<1>12. /\ \A r \in first \cup second : Shown(r) => told'[r.uid] = r.state
       /\ \A u \in Migrations :
            told'[u] # told[u] =>
              \E r \in first \cup second : r.uid = u /\ Shown(r) /\ told'[u] = r.state
       /\ MemoryBehind'
  BY <1>1, <1>2, <1>10, <1>11, EmitReports DEF Inv
<1>13. SourceKept'
  BY <1>1 DEF SourceKept
<1>14. StaysShown'
  <2> SUFFICES ASSUME Nodes # {}, NEW u \in Migrations, told'[u] # "none"
               PROVE  SourceOf[u] \in Nodes /\ object[u].known
    BY <1>1 DEF StaysShown
  <2>1. CASE told'[u] = told[u]
    BY <1>2, <2>1 DEF StaysShown
  <2>2. CASE told'[u] # told[u]
    <3>1. PICK r \in first \cup second : r.uid = u /\ Shown(r)
      BY <1>12, <2>2
    <3>2. r.known /\ SourceOf[u] \in Nodes
      BY <3>1, WatchAssumption DEF Shown, Source
    <3>3. CASE r \in first
      BY <1>4, <3>1, <3>2, <3>3
    <3>4. CASE r \in second
      BY <1>2, <1>5, <3>1, <3>2, <3>4 DEF SourceKept
    <3> QED
      BY <3>1, <3>2, <3>3, <3>4
  <2> QED
    BY <2>1, <2>2
<1>15. ToldTracked'
  <2> SUFFICES ASSUME NEW u \in Migrations, told'[u] \in Going, u \notin going PROVE FALSE
    BY <1>1 DEF ToldTracked
  <2>1. ~\E r \in first \cup second : r.uid = u /\ r.state \in Going
    BY <1>4, <1>5 DEF Active, Going
  <2>2. told'[u] = told[u] /\ u \in tracked
    BY <1>2, <1>12, <2>1 DEF ToldTracked
  <2>3. Nodes # {} => object[u].known /\ SourceOf[u] \in Nodes /\ u \in located
    BY <1>2, <2>2 DEF StaysShown, Going
  <2>4. PICK r \in first \cup second : r.uid = u
    BY <1>4, <1>8, <1>9, <2>2 DEF Info
  <2>5. Shown(r)
    BY <1>4, <1>5, <2>3, <2>4 DEF Shown, Source
  <2>6. told'[u] = r.state
    BY <1>12, <2>4, <2>5
  <2> QED
    BY <2>1, <2>4, <2>6
<1>16. ToldNow'
  <2> SUFFICES ASSUME NEW u \in going, Shown(Info(u, object[u])) PROVE told'[u] = object[u].phase
    BY <1>1 DEF ToldNow, Shown, Source, Info
  <2>1. Info(u, object[u]).uid = u /\ Info(u, object[u]).state = object[u].phase
    BY DEF Info
  <2> QED
    BY <1>7, <1>12, <2>1
<1> QED
  BY <1>12, <1>13, <1>14, <1>15, <1>16

\* An event tells what it shows, unless that was told; the events behind it know as much.
LEMMA KeepsUpDeliver == ASSUME Inv, Exact, KeepsUp, NamesDiffer, Deliver PROVE KeepsUp'
<1> SUFFICES ASSUME pc' # "done"
             PROVE  SourceKept' /\ StaysShown' /\ MemoryBehind' /\ ToldTracked' /\ ToldNow'
  BY DEF KeepsUp
<1>1. wire \in Seq(Event) /\ wire # <<>> /\ wire' = Tail(wire) /\ object' = object
  BY DEF Deliver, Inv, Typed
<1>2. /\ Len(wire) \in Nat \ {0} /\ wire' \in Seq(Event) /\ Len(wire') = Len(wire) - 1
      /\ Head(wire) = wire[1] /\ wire[1] \in Event
      /\ \A i \in 1..Len(wire') : wire'[i] = wire[i + 1] /\ i + 1 \in 1..Len(wire)
      /\ \A i \in 2..Len(wire) : wire[i] = wire'[i - 1] /\ i - 1 \in 1..Len(wire')
  BY <1>1, HeadGone
<1>3. PICK u \in Migrations, o \in Object :
        u = wire[1].uid /\ o = wire[1].object /\ o.phase # "none"
  BY <1>2 DEF Event, Object, Going, Ended
<1> DEFINE report == Info(u, o)
<1>4. report.uid = u /\ report.known = o.known
  BY DEF Info
<1>5. /\ SourceKept /\ StaysShown /\ MemoryBehind /\ ToldTracked /\ ToldNow
      /\ Listening /\ LastShows /\ MapRight
  BY DEF Deliver, KeepsUp, Exact, Listening
<1>6. 1 \in 1..Len(wire) /\ Follows(o, object[u]) /\ ToldBefore(told[u], o)
  BY <1>2, <1>3 DEF Inv, Queue
<1>7. /\ o.known => object[u].known
      /\ \A i \in 1..Len(wire) : o.known /\ wire[i].uid = u => wire[i].object.known
  BY <1>2, <1>3, <1>5, <1>6 DEF SourceKept
<1>8. told[u] # "none" /\ Nodes # {} => o.known
  BY <1>3, <1>5, <1>6 DEF StaysShown
<1>9. /\ \A v \in tracked' \ {u} : v \in tracked
      /\ \A v \in tracked \ {u} : v \in tracked'
      /\ u \in tracked' <=> report.state \in Going
      /\ \A v \in Migrations \ {u} : v \in located' <=> v \in located
      /\ u \in located' => u \in tracked' /\ o.known
      /\ u \in tracked' /\ o.known => u \in located'
      /\ tracked' \subseteq Migrations
  <2>1. located \subseteq tracked /\ tracked \subseteq Migrations
    BY <1>5 DEF SourceKept, Inv, Typed
  <2>2. CASE report.state \in Going \/ u \in tracked
    BY <1>2, <1>3, <2>1, <2>2 DEF Deliver, Track
  <2>3. CASE ~(report.state \in Going \/ u \in tracked)
    BY <1>2, <1>3, <2>1, <2>3 DEF Deliver, run
  <2> QED
    BY <2>2, <2>3
<1>10. SourceKept'
  <2>1. located' \subseteq tracked'
    <3>1. located' \subseteq Migrations
      BY <1>2, <1>3, <1>5 DEF Deliver, run, SourceKept, Inv, Typed
    <3>2. located \subseteq tracked
      BY <1>5 DEF SourceKept
    <3> QED
      BY <1>9, <3>1, <3>2
  <2>2. \A v \in located' : object[v].known
    BY <1>5, <1>7, <1>9, <2>1 DEF SourceKept
  <2>3. ASSUME NEW i \in 1..Len(wire'), wire'[i].object.known
        PROVE  /\ object[wire'[i].uid].known
               /\ \A j \in i..Len(wire') : wire'[j].uid = wire'[i].uid => wire'[j].object.known
    <3>1. wire'[i] = wire[i + 1] /\ i + 1 \in 1..Len(wire)
      BY <1>2
    <3>2. ASSUME NEW j \in i..Len(wire')
          PROVE  wire'[j] = wire[j + 1] /\ j + 1 \in (i + 1)..Len(wire)
      BY <1>2
    <3> QED
      BY <1>5, <2>3, <3>1, <3>2 DEF SourceKept
  <2> QED
    BY <1>1, <2>1, <2>2, <2>3 DEF SourceKept
<1>11. CASE report.state \in Going \/ u \in tracked
  <2>1. Emit({report}, {}, "watch")
    BY <1>2, <1>3, <1>11 DEF Deliver
  <2>2. Follows(o, o)
    BY Ranks DEF Follows, Object, Going, Ended
  <2>3. told[u] \in {"none"} \cup Going
    <3>1. CASE u \in tracked
      BY <3>1 DEF Inv, Followed
    <3>2. CASE report.state \in Going
      BY <1>6, <3>2, GoingNotTold DEF Inv, Typed
    <3> QED
      BY <1>11, <3>1, <3>2
  <2>4. report.state \in States \ {"none"}
    BY <1>3, <2>2, ReportBefore
  <2>5. report.state \in Going => Rank[told[u]] <= Rank[report.state]
    <3> SUFFICES ASSUME report.state \in Going PROVE Rank[told[u]] <= Rank[report.state]
      OBVIOUS
    <3>1. report.state = o.phase
      BY DEF Info, Going
    <3>2. told[u] \in Going => Rank[told[u]] <= Rank[report.state]
      BY <1>6, <3>1 DEF ToldBefore
    <3>3. Rank["none"] <= Rank[report.state]
      BY Ranks DEF Going
    <3> QED
      BY <2>3, <3>2, <3>3
  <2> HIDE DEF report
  <2>6. /\ \A r \in {report} \cup {} : Shown(r) => told'[r.uid] = r.state
        /\ \A v \in Migrations :
             told'[v] # told[v] =>
               \E r \in {report} \cup {} : r.uid = v /\ Shown(r) /\ told'[v] = r.state
        /\ MemoryBehind'
    <3>1. \A r \in {report} \cup {} :
            /\ r.uid \in Migrations /\ r.state \in States \ {"none"}
            /\ told[r.uid] \in {"none"} \cup Going
            /\ r.state \in Going => Rank[told[r.uid]] <= Rank[r.state]
      BY <1>3, <1>4, <2>3, <2>4, <2>5
    <3>2. \A r, s \in {report} \cup {} : r.uid = s.uid => r = s
      OBVIOUS
    <3> QED
      BY <1>5, <2>1, <3>1, <3>2, EmitReports DEF Inv
  <2>7. /\ Shown(report) => told'[u] = report.state
        /\ told'[u] # told[u] => Shown(report)
        /\ \A v \in Migrations \ {u} : told'[v] = told[v]
    BY <1>3, <1>4, <2>6
  <2>8. Shown(report) /\ Nodes # {} => o.known /\ SourceOf[u] \in Nodes
    BY <1>4, WatchAssumption DEF Shown, Source
  <2>9. told'[u] # "none" /\ Nodes # {} => o.known /\ SourceOf[u] \in Nodes
    BY <1>3, <1>5, <1>8, <2>7, <2>8 DEF StaysShown
  <2>10. StaysShown'
    <3> SUFFICES ASSUME Nodes # {}, NEW v \in Migrations, told'[v] # "none"
                 PROVE  /\ SourceOf[v] \in Nodes /\ object[v].known
                        /\ v \in tracked' => v \in located'
                        /\ \A i \in 1..Len(wire') : wire'[i].uid = v => wire'[i].object.known
      BY <1>1 DEF StaysShown
    <3>1. CASE v = u
      BY <1>2, <1>7, <1>9, <2>9, <3>1
    <3>2. CASE v # u
      <4>1. told[v] # "none"
        BY <2>7, <3>2
      <4> QED
        BY <1>2, <1>5, <1>9, <3>2, <4>1 DEF StaysShown
    <3> QED
      BY <3>1, <3>2
  <2>11. ToldTracked'
    <3> SUFFICES ASSUME NEW v \in Migrations, told'[v] \in Going PROVE v \in tracked'
      BY DEF ToldTracked
    <3>1. CASE v # u
      BY <1>5, <1>9, <2>7, <3>1 DEF ToldTracked
    <3>2. CASE v = u
      <4>1. Nodes # {} => o.known /\ SourceOf[u] \in Nodes
        BY <2>9, <3>2 DEF Going
      <4>2. Shown(report)
        BY <1>4, <4>1 DEF Shown, Source
      <4> QED
        BY <1>9, <2>7, <3>2, <4>2
    <3> QED
      BY <3>1, <3>2
  <2>12. ToldNow'
    <3> SUFFICES ASSUME NEW v \in tracked', ~Waits(v)', Shown(Info(v, object[v]))
                 PROVE  told'[v] = object[v].phase
      BY <1>1 DEF ToldNow, Shown, Source, Info
    <3>1. CASE v # u
      <4>1. ~Waits(v)
        <5> SUFFICES ASSUME NEW i \in 1..Len(wire), wire[i].uid = v PROVE FALSE
          BY DEF Waits
        <5>1. i \in 2..Len(wire)
          BY <1>2, <1>3, <3>1
        <5> QED
          BY <1>2, <5>1 DEF Waits
      <4> QED
        BY <1>5, <1>9, <2>7, <3>1, <4>1 DEF ToldNow
    <3>2. CASE v = u
      <4>1. \A j \in (1 + 1)..Len(wire) : wire[j].uid # wire[1].uid
        BY <1>2, <1>3, <3>2 DEF Waits
      <4>2. o = object[u]
        BY <1>3, <1>5, <1>6, <4>1 DEF LastShows
      <4>3. told'[u] = report.state /\ report.state \in Going
        BY <1>9, <2>7, <3>2, <4>2 DEF report
      <4> QED
        BY <3>2, <4>2, <4>3 DEF report, Info, Going
    <3> QED
      BY <3>1, <3>2
  <2> QED
    BY <1>10, <2>6, <2>10, <2>11, <2>12
<1>12. CASE ~(report.state \in Going \/ u \in tracked)
  <2>1. UNCHANGED <<pc, tracked, located, last, told>>
    BY <1>2, <1>3, <1>12 DEF Deliver, run, output
  <2>2. MemoryBehind' /\ ToldTracked'
    BY <1>5, <2>1 DEF MemoryBehind, ToldTracked, Nothing, Keys, Rank
  <2>3. StaysShown'
    BY <1>1, <1>2, <1>5, <2>1 DEF StaysShown
  <2>4. ASSUME NEW v \in tracked, Waits(v) PROVE Waits(v)'
    <3>1. PICK i \in 1..Len(wire) : wire[i].uid = v
      BY <2>4 DEF Waits
    <3>2. i \in 2..Len(wire)
      BY <1>2, <1>3, <1>12, <3>1
    <3> QED
      BY <1>2, <3>1, <3>2 DEF Waits
  <2>5. ToldNow'
    BY <1>1, <1>5, <2>1, <2>4 DEF ToldNow, Shown, Source, Info
  <2> QED
    BY <1>10, <2>2, <2>3, <2>5
<1> QED
  BY <1>11, <1>12

\* The other steps of the run keep all of it.
LEMMA KeepsUpOther ==
  ASSUME Inv, KeepsUp, UNCHANGED <<object, tracked, located, last, told>>, wire' \in {wire, <<>>},
         pc' # "done" => pc # "done", Listening' => Listening /\ wire' = wire
  PROVE  KeepsUp'
<1> SUFFICES ASSUME pc' # "done", SourceKept, StaysShown, MemoryBehind, ToldTracked, ToldNow
             PROVE  SourceKept' /\ StaysShown' /\ MemoryBehind' /\ ToldTracked' /\ ToldNow'
  BY DEF KeepsUp
<1>1. SourceKept'
  BY DEF SourceKept
<1>2. StaysShown' /\ ToldTracked'
  BY DEF StaysShown, ToldTracked
<1>3. MemoryBehind'
  BY DEF MemoryBehind, Nothing, Keys, Rank
<1>4. ToldNow'
  BY DEF ToldNow, Waits, Shown, Source, Info
<1> QED
  BY <1>1, <1>2, <1>3, <1>4

\* When the stream has nothing left to deliver, `kvdrain watch` has caught up with the
\* migrations: it follows those that go on and has told of each it shows what it is now
\* (Coordinator.Watch, Reducer.Accept), if no name is used twice.
THEOREM HasCaughtUp == ASSUME NamesDiffer PROVE Spec => []CaughtUp
<1>1. Init => Inv /\ Exact /\ KeepsUp
  <2> SUFFICES ASSUME Init PROVE KeepsUp
    BY ExactInit
  <2>1. /\ wire = <<>> /\ pc = "permissions" /\ tracked = {} /\ located = {}
        /\ last = [k \in Keys |-> Nothing] /\ told = [u \in Migrations |-> "none"]
    BY DEF Init
  <2> QED
    BY <2>1 DEF KeepsUp, SourceKept, StaysShown, MemoryBehind, ToldTracked, ToldNow, Going
<1>2. Inv /\ Exact /\ KeepsUp /\ [Next]_vars => Inv' /\ Exact' /\ KeepsUp'
  <2> SUFFICES ASSUME Inv, Exact, KeepsUp, [Next]_vars PROVE KeepsUp'
    BY InvNext, ExactNext
  <2>1. CASE World
    BY <2>1, KeepsUpWorld
  <2>2. CASE List
    BY <2>2, KeepsUpList
  <2>3. CASE Deliver
    BY <2>3, KeepsUpDeliver
  <2>4. CASE \/ Begin \/ Open \/ CallFails \/ Wakes \/ Interrupted \/ StreamBreaks \/ Signal
             \/ UNCHANGED vars
    BY <2>4, OtherSteps, KeepsUpOther
  <2> QED
    BY <2>1, <2>2, <2>3, <2>4 DEF Next, Step, Over
<1>3. Inv /\ Exact /\ KeepsUp => CaughtUp
  <2> SUFFICES ASSUME Inv, Exact, KeepsUp, pc = "watch", wire = <<>>
               PROVE  /\ tracked = {u \in Migrations : object[u].exists /\ Active(u)}
                      /\ \A u \in tracked : Shown(Info(u, object[u])) => told[u] = object[u].phase
                      /\ \A u \in Migrations : told[u] \in Going => u \in tracked
    BY DEF CaughtUp
  <2>1. tracked = {u \in Migrations : object[u].exists /\ Active(u)}
    BY ExactShown
  <2> QED
    BY <2>1 DEF KeepsUp, ToldNow, ToldTracked, Listening, Waits
<1> QED
  BY <1>1, <1>2, <1>3, PTL DEF Spec
=============================================================================
