----------------------------- MODULE Evacuation -----------------------------
(***************************************************************************)
(* What `kvdrain drain` promises of the machines that are on the node when *)
(* it begins.  They are asked to leave a few at a time, and again only for *)
(* an attempt that has failed; a drain that shuts one down asks nothing    *)
(* more and does not succeed; and success means that all of them have left.*)
(***************************************************************************)
EXTENDS Naturals, FiniteSets

CONSTANTS
  Machines,
  Retries,  \* failed attempts that are paid for
  Most      \* the largest limit that may apply

VARIABLES
  here,      \* the machines that have not left
  leaving,   \* those of them that were asked to
  asked,     \* how often each one was asked
  failures,  \* attempts that failed, <<machine, number>>
  lost,      \* machines that the drain shut down
  slots,     \* the limit, 0 before it is known
  outcome    \* "running", "ok" or another result

vars == <<here, leaving, asked, failures, lost, slots, outcome>>

Init ==
  /\ here = Machines /\ leaving = {} /\ asked = [m \in Machines |-> 0]
  /\ failures = {} /\ lost = {} /\ slots = 0 /\ outcome = "running"

Decide ==
  /\ asked = [m \in Machines |-> 0] /\ slots' \in 1..Most
  /\ UNCHANGED <<here, leaving, asked, failures, lost, outcome>>

Ask(m) ==
  /\ lost = {} /\ m \in here
  /\ asked[m] <= Retries /\ asked[m] <= Cardinality({f \in failures : f[1] = m})
  /\ asked' = [asked EXCEPT ![m] = @ + 1]
  /\ leaving' = leaving \cup {m} /\ Cardinality(leaving') <= slots
  /\ UNCHANGED <<here, failures, lost, slots, outcome>>

Lose(m) ==
  /\ lost = {} /\ lost' = {m}
  /\ m \in here /\ here' = here \ {m} /\ leaving' = leaving \ {m}
  /\ failures \subseteq failures'
  /\ UNCHANGED <<asked, slots, outcome>>

\* KubeVirt and other people: machines leave, attempts fail.
Others ==
  /\ here' \subseteq here /\ leaving' = leaving \cap here'
  /\ failures \subseteq failures'
  /\ UNCHANGED <<asked, lost, slots, outcome>>

End ==
  /\ outcome' = "ok" => here = {} /\ lost = {}
  /\ UNCHANGED <<here, leaving, asked, failures, lost, slots>>

Next ==
  /\ outcome = "running"
  /\ Decide \/ (\E m \in Machines : Ask(m) \/ Lose(m)) \/ Others \/ End

Spec == Init /\ [][Next]_vars
=============================================================================
