------------------------------ MODULE JudgeRace ------------------------------
(***************************************************************************)
(* The transactions of Backflow that judge and assemble, run side by side. *)
(* The API process serves pushes and the worker process runs its loops, on *)
(* connections of their own and at the isolation level of the server,      *)
(* REPEATABLE READ: no code chooses another.  A transaction reads from the *)
(* snapshot of its first read, whereas its UPDATE ... WHERE and the unique *)
(* keys see the rows that are committed when it writes.  Row locks order   *)
(* the writers, so a transaction is two steps: the snapshot, with what is  *)
(* decided on it, and then all its writes with the commit.  It may also    *)
(* end without a trace.                                                    *)
(***************************************************************************)
EXTENDS Backflow

CONSTANTS
    Pushes,       \* concurrent requests of the push endpoint
    Rejudgers,    \* rejudge loops, one for each worker process
    Assemblers    \* assemble loops, likewise

ASSUME RaceAssumption ==
    /\ Pushes \cap Rejudgers = {} /\ Pushes \cap Assemblers = {}
    /\ Rejudgers \cap Assemblers = {}

VARIABLE txns       \* the transaction of each process

raceVars == <<vars, txns>>

Processes == Pushes \cup Rejudgers \cup Assemblers

\* verdict: what a judgement of cluster decided, and the batch it names.
Undecided == [cluster |-> 0, stop |-> "none", unclean |-> {}]

\* on: the run or cluster the transaction works on; link: the current link.
Idle == [open |-> FALSE, on |-> 0, link |-> ORPHAN_LINK_ID, verdict |-> Undecided]

RaceInit == Init /\ txns = [p \in Processes |-> Idle]

Open(p, on, link, verdict) ==
    /\ ~txns[p].open
    /\ txns' = [txns EXCEPT ![p] = [open |-> TRUE, on |-> on, link |-> link,
                                    verdict |-> verdict]]
    /\ UNCHANGED vars

Close(p) == txns[p].open /\ txns' = [txns EXCEPT ![p] = Idle]

\* A crash, a deadlock, a lost connection.
Rollback(p) == Close(p) /\ UNCHANGED vars

(***************************************************************************)
(* judge_link decides on what the transaction read, and _apply_terminal    *)
(* writes to what there is now: it updates whatever links of the cluster   *)
(* are pending, and a cluster that is no longer open raises, which undoes  *)
(* the savepoint of the judgement.                                         *)
(***************************************************************************)
Decision(recs, l) ==
    LET o == Outcome(recs, l)
    IN  [cluster |-> links[l].cluster, stop |-> o.stop,
         unclean |-> IF o.unclean THEN {UncleanRef(recs, l)} ELSE {}]

Passed(verdict) == {c \in {verdict.cluster} : verdict.stop = "passed"}
Failed(verdict) == {c \in {verdict.cluster} : verdict.stop = "reopened"}

\* Mutated form: the cluster is updated whatever its status.
apply_without_cas(verdict) ==
    /\ _apply_terminal(Passed(verdict), Failed(verdict))
    /\ batches' = batches \cup verdict.unclean

apply_verdict(verdict) ==
    IF \E c \in Passed(verdict) : clusters[c].status # "open"
    THEN UNCHANGED <<clusters, links, conv, batches>>
    ELSE /\ _apply_terminal(Passed(verdict), Failed(verdict))
         /\ batches' = batches \cup verdict.unclean

(***************************************************************************)
(* record_regression_result: the pending link and the earlier record of    *)
(* the run are looked up in the snapshot; uk_verify_run sees what is       *)
(* committed.                                                              *)
(***************************************************************************)
ClusterOfRun(r) == links[runs[r].link].cluster

PushBegin(p, r) ==
    LET c == ClusterOfRun(r)
        l == _find_current_link(c)
        recs == Append(records, [link |-> l, cluster |-> c, run |-> r])
    IN  /\ p \in Pushes
        /\ ~Recorded(c, r)
        /\ Open(p, r, l, IF l # ORPHAN_LINK_ID /\ clusters[c].status = "open"
                         THEN Decision(recs, l) ELSE Undecided)

\* judged = FALSE: the judgement raises, which undoes it alone.
Push(p, judged) ==
    LET r == txns[p].on
    IN  /\ records' = Append(records,
               [link |-> txns[p].link, cluster |-> ClusterOfRun(r), run |-> r])
        /\ IF judged THEN apply_verdict(txns[p].verdict)
           ELSE UNCHANGED <<clusters, links, conv, batches>>
        /\ UNCHANGED runs

\* Mutated form: no unique key.
PushUnchecked(p, judged) == p \in Pushes /\ Close(p) /\ Push(p, judged)

PushCommit(p, judged) ==
    /\ p \in Pushes
    /\ Close(p)
    /\ ~Recorded(ClusterOfRun(txns[p].on), txns[p].on)
    /\ Push(p, judged)

\* One candidate of a rejudge batch, in the savepoint of its own.
RejudgeBegin(p, l) ==
    p \in Rejudgers /\ l \in RejudgeLinks /\ Open(p, links[l].cluster, l, Decision(records, l))

RejudgeCommit(p) ==
    /\ p \in Rejudgers
    /\ Close(p)
    /\ apply_verdict(txns[p].verdict)
    /\ UNCHANGED <<records, runs>>

\* uk_link_current rejects a second pending link of the cluster.
AssembleBegin(p, c) ==
    p \in Assemblers /\ NeedsLink(c) /\ Open(p, c, ORPHAN_LINK_ID, Undecided)

InsertLink(c) ==
    /\ Len(links) < MaxLinks
    /\ links' = Append(links,
           [cluster |-> c, offline |-> "assembled", reason |-> "none",
            case |-> FALSE, verify |-> "pending", requeues |-> 0])
    /\ UNCHANGED <<clusters, records, batches, conv, runs>>

\* Mutated form: the current link is not unique.
AssembleUnchecked(p) == p \in Assemblers /\ Close(p) /\ InsertLink(txns[p].on)

AssembleCommit(p) ==
    /\ p \in Assemblers
    /\ Close(p)
    /\ PendingLinks(txns[p].on) = {}
    /\ InsertLink(txns[p].on)

RaceNext ==
    \/ \E p \in Processes : Rollback(p)
    \/ \E p \in Pushes, r \in DOMAIN runs : PushBegin(p, r)
    \/ \E p \in Pushes, judged \in BOOLEAN : PushCommit(p, judged)
    \/ \E p \in Rejudgers, l \in DOMAIN links : RejudgeBegin(p, l)
    \/ \E p \in Rejudgers : RejudgeCommit(p)
    \/ \E p \in Assemblers, c \in DOMAIN clusters : AssembleBegin(p, c)
    \/ \E p \in Assemblers : AssembleCommit(p)
    \/ /\ \/ \E key \in Keys, o \in Occurrences : merge_candidate(key, o.snapshot, o.truncated, TRUE)
          \/ \E l \in DOMAIN links : apply_ack(l, "active", TRUE, "manual_invalidate")
          \/ \E l \in DOMAIN links, v \in Versions, o \in Outcomes : OfflineRun(l, v, o)
       /\ UNCHANGED txns

RaceSpec == RaceInit /\ [][RaceNext]_raceVars
-----------------------------------------------------------------------------
(***************************************************************************)
(* What the unique keys and the conditions of the UPDATEs save, whatever   *)
(* was read before.  OnePending and RecordsOncePerRun of Backflow hold too.*)
(* FixedByItsLink does not.                                                *)
(***************************************************************************)

\* No verdict is overwritten by one that was reached on an older reading: a
\* link that left pending keeps its verdict, a fixed cluster stays fixed.
VerdictFinal ==
    [][/\ \A l \in DOMAIN links :
              links[l].verify # "pending" => links'[l].verify = links[l].verify
       /\ \A c \in DOMAIN clusters :
              clusters[c].status = "fixed" => clusters'[c].status = "fixed"]_raceVars

\* Two judgements that both see the cluster open close it once: one auto_fixed
\* row for a fixed cluster, and none for an open one.  However stale their
\* reading, they close it on K versions of pure passes of the case of one of its
\* links, all of them received for that link.
ReceivedPasses(l) ==
    {r \in {records[i].run : i \in {j \in DOMAIN records : records[j].link = l}} :
        runs[r].link = l /\ PurePass(r)}

ClosedOnce == \A c \in DOMAIN clusters :
    conv[c].auto_fixed = (IF clusters[c].status = "fixed" THEN 1 ELSE 0)

FixedOnce ==
    /\ ClosedOnce
    /\ \A c \in DOMAIN clusters : clusters[c].status = "fixed" =>
           \E l \in DOMAIN links :
               /\ links[l].cluster = c
               /\ Cardinality({runs[r].ver : r \in ReceivedPasses(l)}) >= ClaimK
=============================================================================
