------------------------------- MODULE Verify -------------------------------
(***************************************************************************)
(* The verdict kernel of backflow/verify.py: what one regression run says  *)
(* of one case, and how the runs received for a link fold into a verdict.  *)
(*                                                                         *)
(* A row is what the kernel reads back from one verify_run_record:         *)
(*   ver   bound_version of the run                                        *)
(*   prev  prev_terminal_version of its payload, or NoVersion              *)
(*   pf    the claimed case in cases[]: pass, fail, na, or missing; or     *)
(*         nocases when the archived payload has no cases[] at all         *)
(*   na    the error types of the rows of cases[] whose pass_fail is na    *)
(* Rows are a function from the ids of the records to the rows; the ids    *)
(* are numbers that ascend in the order of arrival.                        *)
(***************************************************************************)
EXTENDS Integers, Sequences, FiniteSets, SequencesExt

CONSTANTS
    Versions,        \* the agent versions that occur
    VersionRank,     \* release order of a version, what its name is meant to say
    Suffixed,        \* versions whose last dotted segment is not a number
    PrefixRank,      \* where 0 as the last segment puts a version: before all
                     \* versions that share its other segments
    NoVersion,       \* prev_terminal_version = null
    CaseLevelTypes   \* CASE_LEVEL_ERROR_TYPES; any other error type is env level

ASSUME VersionAssumption ==
    /\ VersionRank \in [Versions -> Nat]
    /\ Suffixed \subseteq Versions
    /\ PrefixRank \in [Versions -> Nat]
    /\ \A v \in Versions : PrefixRank[v] <= VersionRank[v]
    /\ NoVersion \notin Versions

PassFail == {"pass", "fail", "na", "missing", "nocases"}

\* A segment such as "31-r47" is no int(): it counts as 0 in the sort key, and
\* 2026.08.31-r47 sorts as 2026.8.0, after July and before August's other days.
_ver_key(v) == IF v \in Suffixed THEN PrefixRank[v] ELSE VersionRank[v]

classify_error_type(e) == IF e \in CaseLevelTypes THEN "case" ELSE "env"

env_na_types(na) == {e \in na : classify_error_type(e) = "env"}

route_verdict(x_pf, run_na, truncated) ==
    CASE x_pf = "missing" -> "missing"
      [] x_pf = "fail" -> "reopen"
      [] x_pf = "na" -> "needs_review"
      [] x_pf = "pass" /\ truncated -> "needs_review"
      [] x_pf = "pass" /\ ~truncated /\ env_na_types(run_na) # {} -> "unclean_run"
      [] OTHER -> "count_k"

\* Mutated form: a polluted or missing version between two passes is no break.
decide_k_unbroken(seq, prev_pure, action, k) ==
    CASE action = "count_k" ->
           [seq |-> seq + 1, pure |-> TRUE,
            stop |-> IF seq + 1 >= k THEN "passed" ELSE "none"]
      [] action = "reopen" -> [seq |-> seq, pure |-> FALSE, stop |-> "reopened"]
      [] OTHER -> [seq |-> seq, pure |-> prev_pure, stop |-> "none"]

decide_k(seq, prev_pure, action, k) ==
    LET next == IF prev_pure THEN seq + 1 ELSE 1
    IN  CASE action = "count_k" ->
               [seq |-> next, pure |-> TRUE,
                stop |-> IF next >= k THEN "passed" ELSE "none"]
          [] action = "reopen" -> [seq |-> seq, pure |-> FALSE, stop |-> "reopened"]
          [] OTHER -> [seq |-> seq, pure |-> FALSE, stop |-> "none"]

\* Several runs of one version: the one pushed last stands for the version.
by_version(rows) ==
    {i \in DOMAIN rows : \A j \in DOMAIN rows : j > i => rows[j].ver # rows[i].ver}

FirstOf(rows, v) == CHOOSE i \in DOMAIN rows :
    rows[i].ver = v /\ \A j \in DOMAIN rows : rows[j].ver = v => i <= j

\* sorted(by_version, key=_ver_key) is stable over the order of insertion.  The
\* n-th version of the walk is the one with n - 1 versions before it.
Before(rows, i, j) ==
    LET a == rows[i].ver
        b == rows[j].ver
    IN  \/ _ver_key(a) < _ver_key(b)
        \/ _ver_key(a) = _ver_key(b) /\ FirstOf(rows, a) < FirstOf(rows, b)

\* Mutated form: the versions are walked in the order of arrival.
ArrivalOrder(rows) == SetToSortSeq(by_version(rows), LAMBDA i, j : i < j)

WalkOrder(rows) ==
    LET standing == by_version(rows)
    IN  [n \in 1 .. Cardinality(standing) |->
            CHOOSE i \in standing :
                Cardinality({j \in standing \ {i} : Before(rows, j, i)}) = n - 1]

(***************************************************************************)
(* _replay_k: walk the versions in order until one of them ends the walk.  *)
(* seen is the set of versions this agent has any attributed record of.    *)
(* stop says why the walk ended (none: it reached the end) and at where;   *)
(* unclean is set when the record pushed last is the polluted one.         *)
(***************************************************************************)
ReplayStart == [seq |-> 0, pure |-> FALSE, stop |-> "none", at |-> 0, unclean |-> FALSE]

Gap(row, seen) == row.prev # NoVersion /\ row.prev \notin seen

\* Mutated form: a version after a gap is left out instead of ending the walk.
SkipGapStep(rows, seen, truncated, k, s, i) ==
    LET row == rows[i]
        d == decide_k(s.seq, s.pure, route_verdict(row.pf, row.na, truncated), k)
    IN  CASE s.stop # "none" \/ Gap(row, seen) -> s
          [] s.stop = "none" /\ row.pf = "nocases" -> [s EXCEPT !.stop = "unjudgeable", !.at = i]
          [] OTHER -> [seq |-> d.seq, pure |-> d.pure, stop |-> d.stop,
                       at |-> IF d.stop = "none" THEN 0 ELSE i, unclean |-> s.unclean]

ReplayStep(rows, seen, truncated, k, s, i) ==
    LET row == rows[i]
        action == route_verdict(row.pf, row.na, truncated)
        d == decide_k(s.seq, s.pure, action, k)
    IN  CASE s.stop # "none" -> s
          [] s.stop = "none" /\ Gap(row, seen) -> [s EXCEPT !.stop = "gap", !.at = i]
          [] s.stop = "none" /\ ~Gap(row, seen) /\ row.pf = "nocases" ->
                 [s EXCEPT !.stop = "unjudgeable", !.at = i]
          [] OTHER -> [seq |-> d.seq, pure |-> d.pure, stop |-> d.stop,
                       at |-> IF d.stop = "none" THEN 0 ELSE i,
                       unclean |-> s.unclean \/ (action = "unclean_run" /\ \A j \in DOMAIN rows : j <= i)]

_replay_k(rows, seen, truncated, k) ==
    LET order == WalkOrder(rows)
        walk[n \in 0 .. Len(order)] ==
            IF n = 0 THEN ReplayStart
            ELSE ReplayStep(rows, seen, truncated, k, walk[n - 1], order[n])
    IN  walk[Len(order)]

\* Mutated form: a result that was replaced by a rerun still counts.
gap_of_any_row(rows, seen) ==
    LET gaps == {i \in DOMAIN rows : Gap(rows[i], seen)}
    IN  IF gaps = {} THEN NoVersion ELSE rows[Min(gaps)].prev

\* link_gap_version, the detail page's view: the first version missing from the
\* whole walk, whatever would have ended the walk before it.
link_gap_version(rows, seen) ==
    LET order == WalkOrder(rows)
        gaps == {n \in DOMAIN order : Gap(rows[order[n]], seen)}
    IN  IF gaps = {} THEN NoVersion ELSE rows[order[Min(gaps)]].prev

=============================================================================
