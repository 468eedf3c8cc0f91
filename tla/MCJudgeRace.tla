----------------------------- MODULE MCJudgeRace -----------------------------
(* Constants for model checking JudgeRace. *)
EXTENDS JudgeRace, TLC

CONSTANTS v1, v2, k1, none, push1, push2, rejudge1, assemble1, assemble2

MCVersions == {v1, v2}
MCVersionRank == v1 :> 1 @@ v2 :> 2
MCPrefixRank == [v \in MCVersions |-> 0]
MCAgentOf == k1 :> "a1"
MCCaseLevelTypes == {"timeout"}
MCOccurrences == {[snapshot |-> TRUE, truncated |-> FALSE]}
MCOutcomes == {[pf |-> "pass", na |-> {}], [pf |-> "fail", na |-> {}]}

=============================================================================
