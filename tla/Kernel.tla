------------------------------- MODULE Kernel -------------------------------
(***************************************************************************)
(* The verdict kernel and what it is meant to compute.  A state is what a  *)
(* link has received: results are pushed one at a time, in any order of    *)
(* their versions.  The kernel of Verify folds them into a verdict; here   *)
(* the verdict is said without a fold.                                     *)
(***************************************************************************)
EXTENDS Verify

CONSTANTS
    Results,     \* what a run may say of the case: [pf, na]
    Previous,    \* the previous versions a run may tell
    MaxRows,     \* bounds of the number of results and of K
    MaxK

ASSUME KernelAssumption ==
    /\ \A o \in Results : o.pf \in PassFail
    /\ MaxRows \in Nat
    /\ MaxK \in Nat \ {0}

VARIABLES
    pushed,      \* the rows of the link, in the order they were pushed
    cut,         \* error_cluster.truncated
    wanted       \* cluster.claim_k

kernelVars == <<pushed, cut, wanted>>

ResultRow == {[ver |-> v, prev |-> p, pf |-> o.pf, na |-> o.na] :
                  v \in Versions, p \in Previous, o \in Results}

KernelInit == pushed = <<>> /\ cut \in BOOLEAN /\ wanted \in 1 .. MaxK

KernelNext ==
    /\ Len(pushed) < MaxRows
    /\ \E row \in ResultRow : pushed' = Append(pushed, row)
    /\ UNCHANGED <<cut, wanted>>

KernelSpec == KernelInit /\ [][KernelNext]_kernelVars

Received == {pushed[i].ver : i \in DOMAIN pushed}

\* What the agent's other links may have received besides.
Seens == {Received \cup other : other \in SUBSET Versions}

Verdict(rows, seen) ==
    LET s == _replay_k(rows, seen, cut, wanted)
    IN  [stop |-> s.stop, seq |-> s.seq, ver |-> IF s.at = 0 THEN NoVersion ELSE rows[s.at].ver]

(***************************************************************************)
(* The verdict, said at once instead of folded: it is given by the first   *)
(* version that is preceded by a gap, cannot be judged, failed, or is the  *)
(* last of a streak of K pure passes.                                      *)
(***************************************************************************)
Standing == {i \in DOMAIN pushed :
    \A j \in DOMAIN pushed : j > i => pushed[j].ver # pushed[i].ver}

\* The result i and those of earlier versions.
UpTo(i) == {j \in Standing : j = i \/ Before(pushed, j, i)}

Pure(i) == pushed[i].pf = "pass" /\ pushed[i].na \subseteq CaseLevelTypes /\ ~cut

\* From these results on, up to i, all versions are pure passes.
Streak(i) == {j \in UpTo(i) : \A m \in UpTo(i) : j \in UpTo(m) => Pure(m)}

Why(i, seen) ==
    CASE pushed[i].prev \notin seen \cup {NoVersion} -> "gap"
      [] pushed[i].prev \in seen \cup {NoVersion} /\ pushed[i].pf = "nocases" -> "unjudgeable"
      [] pushed[i].prev \in seen \cup {NoVersion} /\ pushed[i].pf = "fail" -> "reopened"
      [] OTHER -> IF Cardinality(Streak(i)) >= wanted THEN "passed" ELSE "none"

Reference(seen) ==
    LET ends == {i \in Standing : Why(i, seen) # "none"}
        end == CHOOSE i \in ends : \A j \in ends : i \in UpTo(j)
    IN  IF ends = {} THEN [stop |-> "none", ver |-> NoVersion]
        ELSE [stop |-> Why(end, seen), ver |-> pushed[end].ver]

-----------------------------------------------------------------------------
(***************************************************************************)
(* Properties                                                              *)
(***************************************************************************)

\* The K fold of _replay_k, decide_k and route_verdict computes the reference:
\* a version that is polluted, truncated, na or missing counts nothing and
\* breaks the adjacency of the passes around it, and a repeated run of a version
\* replaces the earlier result of that version and nothing else.
KernelMatchesReference == \A seen \in Seens :
    LET v == Verdict(pushed, seen)
    IN  [stop |-> v.stop, ver |-> v.ver] = Reference(seen)

\* Results of versions that sort may arrive in any order: however they are
\* permuted, the verdict is the same.
Permuted(p) == [i \in DOMAIN pushed |-> pushed[p[i]]]

AllSort(rows) == \A i, j \in DOMAIN rows :
    _ver_key(rows[i].ver) = _ver_key(rows[j].ver) => i = j

OrderIndependent ==
    AllSort(pushed) =>
        \A p \in Bijection(DOMAIN pushed, DOMAIN pushed), seen \in Seens :
            Verdict(Permuted(p), seen) = Verdict(pushed, seen)

\* A lost result only delays: the verdict over the versions seen so far is gap,
\* or it is the verdict that any larger set of seen versions gives.
GapOnlyDelays == \A seen, more \in Seens :
    seen \subseteq more =>
        \/ Verdict(pushed, seen).stop = "gap"
        \/ Verdict(pushed, seen) = Verdict(pushed, more)

\* On a link that is not decided the detail page shows the first version that
\* is missing.  It is the one the kernel waits for, unless the kernel stopped at
\* a result without cases[] before it: then it waits for no version at all.
GapViewAgrees == \A seen \in Seens :
    LET s == _replay_k(pushed, seen, cut, wanted)
        shown == link_gap_version(pushed, seen)
        missing == {i \in Standing : Gap(pushed[i], seen)}
    IN  s.stop \in {"none", "gap", "unjudgeable"} =>
            IF missing = {} THEN shown = NoVersion /\ s.stop # "gap"
            ELSE \E i \in missing :
                     /\ \A j \in missing : i \in UpTo(j)
                     /\ shown = pushed[i].prev
                     /\ \/ s.stop = "gap" /\ s.at = i
                        \/ s.stop = "unjudgeable" /\ s.at \in UpTo(i) \ {i}
=============================================================================
