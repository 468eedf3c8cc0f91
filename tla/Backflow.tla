------------------------------ MODULE Backflow ------------------------------
(***************************************************************************)
(* The regression loop of agent-evaluation-online: an error cluster is     *)
(* opened by the analyzer, assembled into a link the offline evaluator     *)
(* pulls and acknowledges, and closed or reopened by the regression runs   *)
(* the evaluator pushes back.                                              *)
(*                                                                         *)
(* The tables of MySQL are sequences, a row's id is its index.  Every      *)
(* action is one database transaction (or one savepoint of a worker batch) *)
(* of the API process or of the worker.  runs is what happened on the      *)
(* offline side: its pushes may be lost, repeated, delayed and reordered,  *)
(* so a run may be delivered at any later time, or never.                  *)
(***************************************************************************)
EXTENDS Verify

CONSTANTS
    Keys,          \* dedup keys: agent + interface + error_type + input_hash
    AgentOf,       \* the agent of a key
    ClaimK,        \* cluster.claim_k
    RequeueCap,    \* auto_requeue_max_default
    Batch,         \* REJUDGE_BATCH = REQUEUE_BATCH, 200 in the code
    Occurrences,   \* what a merged error brings: [snapshot, truncated]
    Outcomes,      \* what a run may say of the case it runs: [pf, na]
    Reruns,        \* which versions offline may run again: "none", "other"
                   \* (the case of another link only), or "any"
    MaxClusters, MaxLinks, MaxRuns   \* bounds of the three growing tables

ASSUME BackflowAssumption ==
    /\ ClaimK \in Nat \ {0}
    /\ RequeueCap \in Nat
    /\ Batch \in Nat \ {0}
    /\ Reruns \in {"none", "other", "any"}
    /\ MaxClusters \in Nat /\ MaxLinks \in Nat /\ MaxRuns \in Nat
    /\ Occurrences \subseteq [snapshot : BOOLEAN, truncated : BOOLEAN]
    /\ \A o \in Outcomes : o.pf \in PassFail

VARIABLES
    clusters,   \* error_cluster
    links,      \* error_case_link
    records,    \* verify_run_record
    batches,    \* needs_review_batch, one element per reference of a batch
    conv,       \* conversion_record: number of terminal audit rows per cluster
    runs        \* external: the regression runs of the offline evaluator

vars == <<clusters, links, records, batches, conv, runs>>

REASON_CODES == {"offline_cap_gap", "online_content_gap", "manual_invalidate"}

Init ==
    /\ clusters = <<>>
    /\ links = <<>>
    /\ records = <<>>
    /\ batches = {}
    /\ conv = <<>>
    /\ runs = <<>>

\* LIMIT batch over ORDER BY id.
FirstBatch(S) == {i \in S : Cardinality({j \in S : j < i}) < Batch}

(***************************************************************************)
(* Analyzer: a judged error trace merges into its key's cluster.  Of the   *)
(* five statuses of the schema only open and fixed are ever written, and   *)
(* fix_version never is, so the reentry gate of fixed clusters stays open. *)
(***************************************************************************)
\* Mutated form: the status that stayed when claim was abolished is forgotten.
ClaimStatuses == {"claim", "needs_review"}

NON_TERMINAL_STATUSES == {"open", "claim", "needs_review"}

ClustersOf(key) == {c \in DOMAIN clusters : clusters[c].key = key}
CurrentClusters(key) ==
    {c \in ClustersOf(key) : clusters[c].status \in NON_TERMINAL_STATUSES}

\* pick_merge_target, count: the occurrence is counted on the current cluster.
\* Its truncated flag replaces the cluster's, its snapshot only fills a hole.
_apply_count(key, snapshot, truncated) ==
    /\ CurrentClusters(key) # {}
    /\ LET c == CHOOSE c \in CurrentClusters(key) :
                    \A d \in CurrentClusters(key) :
                        clusters[d].generation <= clusters[c].generation
       IN  clusters' = [clusters EXCEPT ![c].truncated = truncated,
                                        ![c].snapshot = @ \/ snapshot]
    /\ UNCHANGED <<links, records, batches, conv, runs>>

\* pick_merge_target, open: a new generation of the key.  A late root
\* (reopen_after_terminal = FALSE) does not reopen a closed key.
NextGeneration(key) == Max({0} \cup {clusters[c].generation : c \in ClustersOf(key)}) + 1

_open_cluster(key, snapshot, truncated, reopen_after_terminal) ==
    /\ CurrentClusters(key) = {}
    /\ ClustersOf(key) = {} \/ reopen_after_terminal
    /\ Len(clusters) < MaxClusters
    /\ clusters' = Append(clusters,
           [key |-> key, generation |-> NextGeneration(key), status |-> "open",
            snapshot |-> snapshot, truncated |-> truncated])
    /\ conv' = Append(conv, [auto_fixed |-> 0, reopen |-> 0])
    /\ UNCHANGED <<links, records, batches, runs>>

merge_candidate(key, snapshot, truncated, reopen_after_terminal) ==
    \/ _apply_count(key, snapshot, truncated)
    \/ _open_cluster(key, snapshot, truncated, reopen_after_terminal)

(***************************************************************************)
(* Converter: assemble_job gives an open cluster with a snapshot a link,   *)
(* unless one of its links is pending.                                     *)
(***************************************************************************)
PendingLinks(c) == {l \in DOMAIN links : links[l].cluster = c /\ links[l].verify = "pending"}

\* Mutated form: a link that was pulled no longer counts as current.
NeedsLinkUnlessAssembled(c) ==
    /\ clusters[c].status = "open" /\ clusters[c].snapshot
    /\ \A l \in PendingLinks(c) : links[l].offline # "assembled"

NeedsLink(c) ==
    clusters[c].status = "open" /\ clusters[c].snapshot /\ PendingLinks(c) = {}

\* Mutated form: a cluster is assembled once, not again after a failure.
assemble_once(c) ==
    /\ NeedsLink(c)
    /\ Len(links) < MaxLinks
    /\ \A l \in DOMAIN links : links[l].cluster # c
    /\ links' = Append(links,
           [cluster |-> c, offline |-> "assembled", reason |-> "none",
            case |-> FALSE, verify |-> "pending", requeues |-> 0])
    /\ UNCHANGED <<clusters, records, batches, conv, runs>>

assemble_cluster(c) ==
    /\ NeedsLink(c)
    /\ Len(links) < MaxLinks
    /\ links' = Append(links,
           [cluster |-> c, offline |-> "assembled", reason |-> "none",
            case |-> FALSE, verify |-> "pending", requeues |-> 0])
    /\ UNCHANGED <<clusters, records, batches, conv, runs>>

(***************************************************************************)
(* Platform contract: the offline evaluator acknowledges a pulled payload. *)
(***************************************************************************)
ack_decide(from, action, stored_reason, has_case, reason) ==
    CASE action = "draft" -> from = "assembled"
      [] action = "active" ->
             /\ has_case
             /\ \/ from \in {"assembled", "draft"}
                \/ from = "invalidated" /\ stored_reason = "offline_cap_gap"
      [] action = "invalidated" ->
             from \in {"assembled", "draft"} /\ reason \in REASON_CODES

\* A case id is kept once it is known; every ack rewrites the reason.
Acked(link, action, has_case, reason) ==
    [link EXCEPT !.offline = action,
                 !.case = link.case \/ (has_case /\ action # "invalidated"),
                 !.reason = IF action = "invalidated" THEN reason ELSE "none"]

apply_ack(l, action, has_case, reason) ==
    /\ links[l].offline # action       \* a repeated ack changes nothing
    /\ ack_decide(links[l].offline, action, links[l].reason, has_case, reason)
    /\ links' = [links EXCEPT ![l] = Acked(links[l], action, has_case, reason)]
    /\ UNCHANGED <<clusters, records, batches, conv, runs>>

\* Links rejected for missing content, below and at the cap alike.
StuckLinks == {l \in DOMAIN links :
    /\ links[l].offline = "invalidated" /\ links[l].reason = "online_content_gap"
    /\ links[l].verify = "pending"
    /\ clusters[links[l].cluster].status \in NON_TERMINAL_STATUSES}

\* Mutated form: the cap is off by one.
RequeuedBelowCap(young) == {l \in FirstBatch(StuckLinks \ young) : links[l].requeues + 1 < RequeueCap}

\* young: links assembled less than the debounce interval ago.
Requeued(young) == {l \in FirstBatch(StuckLinks \ young) : links[l].requeues < RequeueCap}

auto_requeue_stuck(young) ==
    /\ Requeued(young) # {}
    /\ links' = [l \in DOMAIN links |->
           IF l \in Requeued(young)
           THEN [links[l] EXCEPT !.offline = "assembled", !.reason = "none",
                                 !.requeues = @ + 1]
           ELSE links[l]]
    /\ UNCHANGED <<clusters, records, batches, conv, runs>>

(***************************************************************************)
(* External: the offline evaluator runs the case of a link on a version of *)
(* the agent.  prev is the version of the agent's last terminal run.  An   *)
(* old link's case stays in its suite, and its own ack may not have        *)
(* arrived yet.                                                            *)
(***************************************************************************)
AgentOfLink(l) == AgentOf[clusters[links[l].cluster].key]

RunsOf(agent) == {r \in DOMAIN runs : AgentOfLink(runs[r].link) = agent}

LastVersion(agent) ==
    IF RunsOf(agent) = {} THEN NoVersion ELSE runs[Max(RunsOf(agent))].ver

RanOn(l, v) == \E r \in DOMAIN runs : runs[r].link = l /\ runs[r].ver = v

OfflineRun(l, v, o) ==
    /\ Len(runs) < MaxRuns
    /\ links[l].offline # "invalidated"
    /\ LET last == LastVersion(AgentOfLink(l))
       IN  /\ last # NoVersion =>
                  \/ VersionRank[last] < VersionRank[v]
                  \/ Reruns # "none" /\ last = v /\ (Reruns = "any" \/ ~RanOn(l, v))
           /\ runs' = Append(runs, [link |-> l, ver |-> v, prev |-> last,
                                    pf |-> o.pf, na |-> o.na])
    /\ UNCHANGED <<clusters, links, records, batches, conv>>

(***************************************************************************)
(* The judgement of a link, over a table recs of received results.         *)
(***************************************************************************)
ORPHAN_LINK_ID == 0

\* The ids of the results attributed to the link.
RecordsOf(recs, l) == {i \in DOMAIN recs : recs[i].link = l}

\* Mutated form: without a row of the case the first row of cases[] stands in.
x_pf_of_first_row(run, l) == run.pf

\* The run's cases[] holds the case of its own link and no other.
_x_pf_of(run, l) ==
    IF run.pf = "nocases" THEN "nocases" ELSE IF run.link = l THEN run.pf ELSE "missing"

RowsOf(recs, l) ==
    [i \in RecordsOf(recs, l) |->
        LET run == runs[recs[i].run]
        IN  [ver |-> run.ver, prev |-> run.prev, pf |-> _x_pf_of(run, l), na |-> run.na]]

\* Mutated form: no previous version is ever missing.
every_version(recs, agent) == Versions

\* The versions of the agent with a record that is attributed to a link.
_agent_versions(recs, agent) ==
    {runs[recs[i].run].ver : i \in {j \in DOMAIN recs :
        recs[j].link # ORPHAN_LINK_ID /\ AgentOfLink(recs[j].link) = agent}}

Replay(recs, l) ==
    _replay_k(RowsOf(recs, l), _agent_versions(recs, AgentOfLink(l)),
              clusters[links[l].cluster].truncated, ClaimK)

\* judge_link decides nothing for a link without a case or one that is terminal.
Outcome(recs, l) ==
    IF links[l].case /\ links[l].verify = "pending" THEN Replay(recs, l) ELSE ReplayStart

\* ensure_unclean_batch: the least env level type names the batch.
_primary_env_na(na) == CHOOSE e \in env_na_types(na) : TRUE

UncleanRef(recs, l) ==
    LET run == recs[Max(RecordsOf(recs, l))].run
    IN  [run |-> run, etype |-> _primary_env_na(runs[run].na),
         cluster |-> links[l].cluster, link |-> l]

(***************************************************************************)
(* judge_link and _apply_terminal for the links of J, in one transaction.  *)
(***************************************************************************)
Decided(recs, J, stop) == {links[l].cluster : l \in {m \in J : Outcome(recs, m).stop = stop}}

\* Mutated forms: a failure supersedes its link; a failure leaves its link
\* pending; a verdict reaches the decided links of the cluster too.
mark_superseded(passed, failed) ==
    links' = [l \in DOMAIN links |->
        IF links[l].verify # "pending" THEN links[l]
        ELSE IF links[l].cluster \in passed THEN [links[l] EXCEPT !.verify = "passed"]
        ELSE IF links[l].cluster \in failed THEN [links[l] EXCEPT !.verify = "superseded"]
        ELSE links[l]]

mark_passed_only(passed, failed) ==
    links' = [l \in DOMAIN links |->
        IF links[l].verify = "pending" /\ links[l].cluster \in passed
        THEN [links[l] EXCEPT !.verify = "passed"] ELSE links[l]]

mark_every_link(passed, failed) ==
    links' = [l \in DOMAIN links |->
        IF links[l].cluster \in passed THEN [links[l] EXCEPT !.verify = "passed"]
        ELSE IF links[l].cluster \in failed THEN [links[l] EXCEPT !.verify = "failed"]
        ELSE links[l]]

_mark_pending_links(passed, failed) ==
    links' = [l \in DOMAIN links |->
        IF links[l].verify # "pending" THEN links[l]
        ELSE IF links[l].cluster \in passed THEN [links[l] EXCEPT !.verify = "passed"]
        ELSE IF links[l].cluster \in failed THEN [links[l] EXCEPT !.verify = "failed"]
        ELSE links[l]]

_apply_auto_fixed(passed) ==
    clusters' = [c \in DOMAIN clusters |->
        IF c \in passed THEN [clusters[c] EXCEPT !.status = "fixed"] ELSE clusters[c]]

_apply_terminal(passed, failed) ==
    /\ _mark_pending_links(passed, failed)
    /\ _apply_auto_fixed(passed)
    /\ conv' = [c \in DOMAIN conv |->
           [auto_fixed |-> conv[c].auto_fixed + (IF c \in passed THEN 1 ELSE 0),
            reopen |-> conv[c].reopen + (IF c \in failed THEN 1 ELSE 0)]]

judge_link(recs, J) ==
    /\ _apply_terminal(Decided(recs, J, "passed"), Decided(recs, J, "reopened"))
    /\ batches' = batches \cup {UncleanRef(recs, l) : l \in {m \in J : Outcome(recs, m).unclean}}

(***************************************************************************)
(* API: a push is archived and judged in one transaction.  Raising in the  *)
(* judgement (judged = FALSE) undoes the judgement alone.  A push that was *)
(* archived before changes nothing.                                        *)
(***************************************************************************)
\* Mutated form: the last link of the cluster, whatever its verdict.
find_last_link(c) == Max({ORPHAN_LINK_ID} \cup {l \in DOMAIN links : links[l].cluster = c})

_find_current_link(c) ==
    IF PendingLinks(c) = {} THEN ORPHAN_LINK_ID ELSE CHOOSE l \in PendingLinks(c) : TRUE

Recorded(c, r) == \E i \in DOMAIN records : records[i].cluster = c /\ records[i].run = r

record_regression_result(r, judged) ==
    LET c == links[runs[r].link].cluster      \* trigger_signal_id
        l == _find_current_link(c)
        recs == Append(records, [link |-> l, cluster |-> c, run |-> r])
    IN  /\ ~Recorded(c, r)
        /\ records' = recs
        /\ IF l # ORPHAN_LINK_ID /\ clusters[c].status = "open" /\ judged
           THEN judge_link(recs, {l})
           ELSE UNCHANGED <<links, clusters, conv, batches>>
        /\ UNCHANGED runs

(***************************************************************************)
(* Worker: rejudge_job judges the first open clusters with a pending link. *)
(* A link whose judgement raises is left for a later round.                *)
(***************************************************************************)
\* Mutated form: the scan still asks for claimed clusters.
ClaimedCandidates == {c \in DOMAIN clusters :
    clusters[c].status = "claim" /\ PendingLinks(c) # {}}

RejudgeCandidates == {c \in DOMAIN clusters :
    clusters[c].status = "open" /\ PendingLinks(c) # {}}

RejudgeLinks == {l \in DOMAIN links :
    links[l].verify = "pending" /\ links[l].cluster \in FirstBatch(RejudgeCandidates)}

_rejudge_batch(raising) ==
    /\ judge_link(records, RejudgeLinks \ raising)
    /\ UNCHANGED <<records, runs>>

Next ==
    \/ \E key \in Keys, o \in Occurrences, reopen \in BOOLEAN :
           merge_candidate(key, o.snapshot, o.truncated, reopen)
    \/ \E c \in DOMAIN clusters : assemble_cluster(c)
    \/ \E l \in DOMAIN links, action \in {"draft", "active", "invalidated"},
          has_case \in BOOLEAN, reason \in REASON_CODES :
           apply_ack(l, action, has_case, reason)
    \/ \E young \in SUBSET DOMAIN links : auto_requeue_stuck(young)
    \/ \E l \in DOMAIN links, v \in Versions, o \in Outcomes : OfflineRun(l, v, o)
    \/ \E r \in DOMAIN runs, judged \in BOOLEAN : record_regression_result(r, judged)
    \/ \E raising \in SUBSET DOMAIN links : _rejudge_batch(raising)

(***************************************************************************)
(* Fairness: the worker's loops run for ever, every 60 seconds.  What the  *)
(* offline side does, and when, is not ours to assume.  A judgement may    *)
(* raise, but not every time; the debounce interval of a link ends.        *)
(***************************************************************************)
Fairness ==
    /\ \A c \in 1 .. MaxClusters : WF_vars(c \in DOMAIN clusters /\ assemble_cluster(c))
    /\ WF_vars(auto_requeue_stuck({}))
    /\ WF_vars(_rejudge_batch({}))

Spec == Init /\ [][Next]_vars

FairSpec == Spec /\ Fairness
-----------------------------------------------------------------------------
(***************************************************************************)
(* Properties                                                              *)
(***************************************************************************)
ClusterRow == [key : Keys, generation : Nat, status : {"open", "fixed"},
               snapshot : BOOLEAN, truncated : BOOLEAN]

LinkRow == [cluster : Nat, offline : {"assembled", "draft", "active", "invalidated"},
            reason : REASON_CODES \cup {"none"}, case : BOOLEAN,
            verify : {"pending", "passed", "failed"}, requeues : Nat]

RecordRow == [link : Nat, cluster : Nat, run : Nat]

RunRow == [link : Nat, ver : Versions, prev : Versions \cup {NoVersion},
           pf : PassFail, na : {o.na : o \in Outcomes}]

ConvRow == [auto_fixed : Nat, reopen : Nat]

\* Every row has its columns, and every id it holds is the id of a row.
TypeOK ==
    /\ clusters \in Seq(ClusterRow)
    /\ links \in Seq(LinkRow)
    /\ records \in Seq(RecordRow)
    /\ runs \in Seq(RunRow)
    /\ conv \in Seq(ConvRow) /\ Len(conv) = Len(clusters)
    /\ \A l \in DOMAIN links : links[l].cluster \in DOMAIN clusters
    /\ \A r \in DOMAIN runs : runs[r].link \in DOMAIN links
    /\ \A i \in DOMAIN records :
           /\ records[i].link \in DOMAIN links \cup {ORPHAN_LINK_ID}
           /\ records[i].cluster \in DOMAIN clusters
           /\ records[i].run \in DOMAIN runs

\* The status of a cluster and the verdicts of its links agree although they
\* are written by separate statements of judge_link, and by both processes: at
\* most one link of a cluster is pending (uk_link_current), an open cluster
\* has no passed link, a fixed one has exactly one and none pending.
PassedLinks(c) == {l \in DOMAIN links : links[l].cluster = c /\ links[l].verify = "passed"}

OnePending == \A l, m \in DOMAIN links :
    links[l].cluster = links[m].cluster /\ links[l].verify = "pending"
        /\ links[m].verify = "pending" => l = m

OnePassed == \A l, m \in DOMAIN links :
    links[l].cluster = links[m].cluster /\ links[l].verify = "passed"
        /\ links[m].verify = "passed" => l = m

FixedByItsLink == \A c \in DOMAIN clusters :
    IF clusters[c].status = "fixed"
    THEN PassedLinks(c) # {} /\ PendingLinks(c) = {}
    ELSE PassedLinks(c) = {}

LinkClusterAgree == OnePending /\ OnePassed /\ FixedByItsLink

\* A key's clusters are generations 1, 2, ... in the order they were opened,
\* and all but the last are closed: a recurrence never lands on, or opens
\* beside, a cluster that is still being verified.
GenerationChain == \A c, d \in DOMAIN clusters :
    clusters[c].key = clusters[d].key /\ c < d =>
        /\ clusters[c].generation < clusters[d].generation
        /\ clusters[c].status = "fixed"

\* However often the evaluator repeats a push, and whatever became of the link
\* in between, a run is archived once for its cluster (uk_verify_run), and the
\* link it is judged for is a link of that cluster.
RecordsOncePerRun == \A i \in DOMAIN records :
    /\ \A j \in DOMAIN records :
           records[i].cluster = records[j].cluster /\ records[i].run = records[j].run => i = j
    /\ records[i].link # ORPHAN_LINK_ID =>
           links[records[i].link].cluster = records[i].cluster

\* The audit trail is complete although it is written beside the state it
\* explains: one auto_fixed row for a fixed cluster and none before, one reopen
\* row for each failed link, and a polluted run of its own for every reference
\* of a needs-review batch.
AuditMatches ==
    /\ \A c \in DOMAIN clusters :
           /\ conv[c].auto_fixed = (IF clusters[c].status = "fixed" THEN 1 ELSE 0)
           /\ conv[c].reopen = Cardinality({l \in DOMAIN links :
                  links[l].cluster = c /\ links[l].verify = "failed"})
    /\ \A b \in batches :
           /\ \E i \in DOMAIN records :
                  records[i].link = b.link /\ records[i].cluster = b.cluster /\ records[i].run = b.run
           /\ b.etype \in env_na_types(runs[b.run].na)

\* A failed link has a received run of its own case that failed: the rows of
\* other cases in cases[], and runs that do not list the case, fail nobody.
FailedOnEvidence == \A l \in DOMAIN links :
    links[l].verify = "failed" =>
        \E i \in DOMAIN records :
            /\ records[i].link = l
            /\ runs[records[i].run].link = l
            /\ runs[records[i].run].pf = "fail"

PurePass(r) == runs[r].pf = "pass" /\ env_na_types(runs[r].na) = {}

\* Versions that compare equal are walked as they arrived, so a newer one may
\* be walked before an older one.
WalkedOutOfOrder(recs, l) ==
    LET rows == RowsOf(recs, l)
    IN  \E i, j \in by_version(rows) :
            Before(rows, i, j) /\ VersionRank[rows[j].ver] < VersionRank[rows[i].ver]

\* What a run tells of the version before it says nothing of this link: it is the
\* version of the run itself, or was received for another key of the agent.
Masked(recs, l, r) ==
    \/ runs[r].prev = runs[r].ver
    \/ \E i \in DOMAIN recs :
           /\ recs[i].link # ORPHAN_LINK_ID /\ AgentOfLink(recs[i].link) = AgentOfLink(l)
           /\ clusters[recs[i].cluster].key # clusters[links[l].cluster].key
           /\ runs[recs[i].run].ver = runs[r].prev

\* No cluster is closed over a failure: a passed link has K received runs of
\* distinct versions, each a pure pass of its own case, and offline ran this case
\* on no version between two that follow each other, received or not, unless the
\* gap before the later one was masked or versions that compare equal came out of order.
NoFalseFix == \A l \in DOMAIN links :
    links[l].verify = "passed" =>
        \E W \in SUBSET {records[i].run : i \in {j \in DOMAIN records : records[j].link = l}} :
            /\ Cardinality({runs[r].ver : r \in W}) >= ClaimK
            /\ \A r \in W : runs[r].link = l /\ PurePass(r)
            /\ \A x \in DOMAIN runs : \A r, s \in W :
                   /\ runs[x].link = l
                   /\ VersionRank[runs[r].ver] < VersionRank[runs[x].ver]
                   /\ VersionRank[runs[x].ver] < VersionRank[runs[s].ver]
                   /\ \A w \in W : \/ VersionRank[runs[w].ver] <= VersionRank[runs[r].ver]
                                   \/ VersionRank[runs[s].ver] <= VersionRank[runs[w].ver]
                   => WalkedOutOfOrder(records, l) \/ Masked(records, l, s)

\* A link that left pending is read-only: its verdict stays, no later result is
\* attributed to it and none of its results is rewritten, and a fixed cluster is
\* never written again.
TerminalReadOnly ==
    [][/\ \A l \in DOMAIN links : links[l].verify # "pending" =>
              /\ links'[l].verify = links[l].verify
              /\ RecordsOf(records', l) = RecordsOf(records, l)
              /\ \A i \in RecordsOf(records, l) : records'[i] = records[i]
       /\ \A c \in DOMAIN clusters :
              clusters[c].status = "fixed" => clusters'[c] = clusters[c]]_vars

\* A verdict is not forgotten: a link whose received runs decide it does not
\* stay pending for ever, even if the push that decided it was judged before
\* the acknowledgement, or its judgement raised.
VerdictDelivered == \A l \in 1 .. MaxLinks :
    []<>~(l \in DOMAIN links /\ Outcome(records, l).stop \in {"passed", "reopened"})

\* A cluster that stays open is verified again after a failure: it does not
\* stay without a pending link once it has a snapshot.
Reassembled == \A c \in 1 .. MaxClusters :
    []<>~(c \in DOMAIN clusters /\ NeedsLink(c) /\ Len(links) < MaxLinks)

\* A link rejected for missing content does not stay rejected below the cap.
Reoffered == \A l \in 1 .. MaxLinks :
    []<>~(l \in DOMAIN links /\ l \in StuckLinks /\ links[l].requeues < RequeueCap)

(***************************************************************************)
(* The loop implements Lifecycle: a cluster is a case, its pending link is *)
(* the test it is put to.                                                  *)
(***************************************************************************)
CaseState(c) ==
    IF clusters[c].status = "fixed" THEN "fixed"
    ELSE IF PendingLinks(c) # {} THEN "tested" ELSE "open"

Cases == [c \in DOMAIN clusters |-> [key |-> clusters[c].key, state |-> CaseState(c)]]

Abstract == INSTANCE Lifecycle WITH cases <- Cases

\* Whatever is lost, repeated, delayed or raised, seen from outside an error is
\* open, tested, and fixed or open again: no acknowledgement, requeue, repeated
\* push or second judgement moves a case in any other way.
ImplementsLifecycle == Abstract!Spec
=============================================================================
