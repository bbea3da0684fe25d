-------------------------------- MODULE MCFabric --------------------------------
(***************************************************************************)
(* Instances of Fabric for TLC.                                            *)
(***************************************************************************)
EXTENDS FabricOrder, TLC

CONSTANTS n1, n2, t1, t2

OneNode == {n1}
TwoNodes == {n1, n2}
OneJob == {1}
TwoJobs == {1, 2}
AnyNode == [j \in Jobs |-> Nodes]

\* What the agent's host and its user may do to it.
AgentFaults == {"giveup", "crash", "silence", "interrupt", "snapshot"}

Symmetry == Permutations(Threads) \cup Permutations(Nodes)
=============================================================================
