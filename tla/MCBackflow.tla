----------------------------- MODULE MCBackflow -----------------------------
(* Constants for model checking Backflow. *)
EXTENDS Backflow, TLC

CONSTANTS v1, v2, v3, k1, k2, none

MCVersions == {v1, v2, v3}
MCVersionRank == v1 :> 1 @@ v2 :> 2 @@ v3 :> 3
MCPrefixRank == [v \in MCVersions |-> 0]

\* Two keys of two agents, or of one.
MCTwoAgents == k1 :> "a1" @@ k2 :> "a2"
MCOneAgent == k1 :> "a1" @@ k2 :> "a1"

MCCaseLevelTypes == {"timeout"}

MCOccurrences == [snapshot : BOOLEAN, truncated : BOOLEAN]
MCSnapshotOnly == {[snapshot |-> TRUE, truncated |-> FALSE]}

Pass == [pf |-> "pass", na |-> {}]
Fail == [pf |-> "fail", na |-> {}]
Polluted == [pf |-> "pass", na |-> {"network"}]

MCPassFail == {Pass, Fail}
MCPassFailPolluted == {Pass, Fail, Polluted}

=============================================================================
