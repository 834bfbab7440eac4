------------------------------ MODULE MCDrain ------------------------------
(***************************************************************************)
(* Drain for TLC, with statements of the documentation that the code does  *)
(* not keep to.  Each has a configuration of its own, whose run ends in a  *)
(* counterexample.                                                         *)
(***************************************************************************)
EXTENDS Drain

\* README.md, Drain behavior: "On the first interrupt, kvdrain stops new evictions and
\* waits for active migrations to settle."  A run that got one signal and did not reach
\* its deadline leaves no active migration.
InterruptWaits ==
  pc = "done" /\ result = "interrupted" /\ signals = 1 /\ ~expired =>
    \A u \in Uid : mig[u] # "active"

\* README.md, Drain behavior: "Evict normal pods, then launchers".  A VMI that is on the
\* node when the loop begins a pass is evicted, leaves, or the drain ends.
LaunchersEvicted ==
  \A v \in VMIs :
    (pc = "loop" /\ vmi[v] = "source") ~> (requests[v] > 0 \/ vmi[v] # "source" \/ pc = "done")

\* coordinator.go, the event of a finished drain: "no source workloads remain".  A drain
\* that succeeds leaves nothing on the node but what came after its final relist had begun.
NoWorkloadsRemain == result = "ok" => Workload \subseteq late

\* README.md, Drain behavior: "hotplug verification for every VMI UID observed during the
\* run".  On success every VMI that some snapshot of the run has shown on the node, the
\* first one included, has its hotplug volumes on its target, unless it was stopped.
AllObservedVerified ==
  result = "ok" => \A v \in observed : ready[v] \/ vmi[v] \in {"deleted", "reborn"}
=============================================================================
