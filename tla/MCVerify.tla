------------------------------ MODULE MCVerify ------------------------------
(* Constants for model checking Kernel: v1 and v2 have a suffix, as in
   2026.08.30-r46 and 2026.08.31-r47, and compare equal. *)
EXTENDS Kernel, TLC

CONSTANTS v1, v2, v3, none

MCVersions == {v1, v2, v3}
MCVersionRank == v1 :> 1 @@ v2 :> 2 @@ v3 :> 3
MCPrefixRank == [v \in MCVersions |-> 0]
MCCaseLevelTypes == {"timeout"}

MCResults == {[pf |-> "pass", na |-> {"timeout"}], [pf |-> "pass", na |-> {"network"}],
              [pf |-> "fail", na |-> {}], [pf |-> "na", na |-> {"timeout"}],
              [pf |-> "missing", na |-> {}], [pf |-> "nocases", na |-> {}]}

\* A previous version v2 is a later, an earlier or the same one.
MCPrevious == {none, v2}

\* The page and the kernel do part: v1 came without cases[], v2 was lost before v3.
ASSUME PageSeesMore ==
    LET rows == <<[ver |-> v1, prev |-> none, pf |-> "nocases", na |-> {}],
                  [ver |-> v3, prev |-> v2, pf |-> "pass", na |-> {}]>>
    IN  /\ _replay_k(rows, {v1, v3}, FALSE, 2).stop = "unjudgeable"
        /\ link_gap_version(rows, {v1, v3}) = v2

=============================================================================
