----------------------------- MODULE TraceJudge -----------------------------
(***************************************************************************)
(* From trace events to error clusters.  The consumer (backend process)    *)
(* accumulates a row of trace_judge_state per trace, from a Kafka log that *)
(* is delivered at least once.  judge_scan_job and cluster_job (worker     *)
(* process) judge the rows that are due and merge what they found into the *)
(* clusters.  A root that arrives after the judgement is merged by the     *)
(* consumer itself.                                                        *)
(*                                                                         *)
(* As in JudgeRace, a transaction reads a snapshot and writes at its       *)
(* commit.  The ORM writes the columns the transaction changed, with the   *)
(* values it computed from the snapshot.                                   *)
(***************************************************************************)
EXTENDS Integers, FiniteSets

CONSTANTS
    Traces,
    LLM_ERR_TYPES, L2_ERR_TYPES,   \* the error types that flow back
    NoType,                        \* an event without error_type
    Events,                        \* [node, status, etype, input]; etype may be any
    InterfaceLLM,                  \* interface.llm = 1 in the dictionary
    JudgeWorkers, ClusterWorkers,  \* the loops of the worker processes
    MaxEvents, MaxCrashes, MaxGeneration   \* bounds

Types == LLM_ERR_TYPES \cup L2_ERR_TYPES

ASSUME TraceAssumption ==
    /\ NoType \notin Types
    /\ InterfaceLLM \in BOOLEAN
    /\ MaxEvents \in Nat /\ MaxCrashes \in Nat /\ MaxGeneration \in Nat
    /\ JudgeWorkers \cap ClusterWorkers = {}
    /\ \A e \in Events : /\ e.node \in {"request", "llm_call", "tool"}
                         /\ e.status \in {"ok", "error", "timeout"}
                         /\ e.input \in BOOLEAN

VARIABLES
    rows,       \* trace_judge_state, by trace
    clusters,   \* error_cluster, the last generation of each key; one key per type
    consumer,   \* the event being consumed and the consumer's transaction
    jobs,       \* the transaction of each worker loop
    sent,       \* external: events sent, and the traces whose root was
    crashes,    \* redeliveries so far
    merges      \* history: how often a trace was merged, by type and by whom

vars == <<rows, clusters, consumer, jobs, sent, crashes, merges>>

_empty_state == [exists |-> FALSE, due |-> FALSE, root |-> "none", etype |-> NoType,
                 input |-> FALSE, llm_fact_ok |-> FALSE, entries |-> {},
                 judged |-> FALSE, candidates |-> {}, processed |-> FALSE,
                 root_late_complement |-> FALSE]

NoCluster == [generation |-> 0, status |-> "fixed", count |-> 0]

Tables == [rows |-> rows, clusters |-> clusters]
NoTables == [rows |-> <<>>, clusters |-> <<>>]
Idle == [open |-> FALSE, trace |-> {}, read |-> NoTables]

Init ==
    /\ rows = [t \in Traces |-> _empty_state]
    /\ clusters = [e \in Types |-> NoCluster]
    /\ consumer = [busy |-> FALSE, applied |-> FALSE, event |-> {}, tx |-> Idle]
    /\ jobs = [w \in JudgeWorkers \cup ClusterWorkers |-> Idle]
    /\ sent = [count |-> 0, roots |-> {}]
    /\ crashes = 0
    /\ merges = [m \in Traces \X Types \X {"job", "late"} |-> 0]

(***************************************************************************)
(* analyzer/classify.py.  L1 types flow back as they are, L2 types when    *)
(* the trace called a model.  A request that succeeded absorbed the errors *)
(* of its children.                                                        *)
(***************************************************************************)
effective_llm_fact(row) ==
    row.llm_fact_ok \/ ({row.etype} \cup row.entries) \cap LLM_ERR_TYPES # {}

_layer_for(e, llm_fact) ==
    e \in LLM_ERR_TYPES \/ (e \in L2_ERR_TYPES /\ (llm_fact \/ InterfaceLLM))

_collect_candidates(row) ==
    {e \in {row.etype} \cup (IF row.root = "ok" THEN {} ELSE row.entries) :
        _layer_for(e, effective_llm_fact(row))}

\* The late root alone: the children's errors are no longer looked at.
root_late_decision(row) ==
    {e \in {row.etype} : _layer_for(e, effective_llm_fact([row EXCEPT !.entries = {}]))}

(***************************************************************************)
(* analyzer/cluster.py: merge the types E of a trace, as seen in snapshot  *)
(* seen.  The count is a value computed from the snapshot; a generation    *)
(* that someone else opened meanwhile breaks uk_cluster_dedup.             *)
(***************************************************************************)

\* A mutated merge: a closed cluster is always followed by a new generation.
Opens_always(seen, e, reopen) == seen[e].status = "fixed"

Opens(seen, e, reopen) ==
    seen[e].status = "fixed" /\ (seen[e].generation = 0 \/ reopen)

Conflict(seen, E, reopen) ==
    \E e \in E : Opens(seen, e, reopen) /\ clusters[e].generation # seen[e].generation

Counts(seen, e) ==
    seen[e].status = "open" /\ clusters[e].generation = seen[e].generation

merge_candidates(seen, trace, E, reopen, by) ==
    /\ ~Conflict(seen, E, reopen)
    /\ \A e \in E : Opens(seen, e, reopen) => seen[e].generation < MaxGeneration
    /\ clusters' = [e \in Types |->
           IF e \in E /\ Opens(seen, e, reopen)
           THEN [generation |-> seen[e].generation + 1, status |-> "open", count |-> 1]
           ELSE IF e \in E /\ Counts(seen, e)
           THEN [clusters[e] EXCEPT !.count = seen[e].count + 1]
           ELSE clusters[e]]
    /\ merges' = [m \in DOMAIN merges |->
           IF m[1] = trace /\ m[2] \in E /\ m[3] = by
                  /\ (Opens(seen, m[2], reopen) \/ seen[m[2]].status = "open")
           THEN merges[m] + 1 ELSE merges[m]]

(***************************************************************************)
(* Consumer: poll an event, read its row, merge and write, commit offset.  *)
(* A crash before the offset is committed delivers the event again.        *)
(***************************************************************************)
Poll(t, e) ==
    /\ ~consumer.busy
    /\ sent.count < MaxEvents
    /\ e.node = "request" => t \notin sent.roots
    /\ sent' = [count |-> sent.count + 1,
                roots |-> IF e.node = "request" THEN sent.roots \cup {t} ELSE sent.roots]
    /\ consumer' = [busy |-> TRUE, applied |-> FALSE, event |-> {<<t, e>>}, tx |-> Idle]
    /\ UNCHANGED <<rows, clusters, jobs, crashes, merges>>

_get_row ==
    /\ consumer.busy /\ ~consumer.applied /\ ~consumer.tx.open
    /\ consumer' = [consumer EXCEPT !.tx = [open |-> TRUE, trace |-> {}, read |-> Tables]]
    /\ UNCHANGED <<rows, clusters, jobs, sent, crashes, merges>>

Affects(e) == e.node \in {"request", "llm_call"} \/ e.status = "error"

\* The trace's new state, computed from the row as it was read.
merge_trace_state(row, e) ==
    IF e.node = "request"
    THEN [row EXCEPT !.exists = TRUE, !.root = e.status, !.etype = e.etype,
                     !.input = @ \/ e.input, !.due = @ /\ row.judged,
                     !.root_late_complement = @ \/
                         (row.judged /\ row.root = "none" /\ e.status \in {"error", "timeout"})]
    ELSE IF row.judged THEN row
    ELSE [row EXCEPT !.exists = TRUE, !.due = FALSE,
                     !.llm_fact_ok = @ \/ e.node = "llm_call",
                     !.entries = IF e.status = "error" THEN @ \cup {e.etype} ELSE @]

\* UPDATE: the columns that differ from what was read; due is ttl_until, which
\* every event moves.
Written(current, read, new) ==
    [c \in DOMAIN current |->
        IF new[c] # read[c] \/ (c = "due" /\ ~new.judged) THEN new[c] ELSE current[c]]

\* The root-late bit was set by this very event.
IsLate(read, new) == new.root_late_complement /\ ~read.root_late_complement

apply_event ==
    /\ consumer.tx.open
    /\ \E te \in consumer.event :
         LET t == te[1]
             read == consumer.tx.read.rows[t]
             new == merge_trace_state(read, te[2])
         IN  /\ rows' = IF Affects(te[2])
                        THEN [rows EXCEPT ![t] = Written(@, read, new)] ELSE rows
             /\ IF IsLate(read, new) /\ new.input
                THEN merge_candidates(consumer.tx.read.clusters, t, root_late_decision(new),
                                      FALSE, "late")
                ELSE UNCHANGED <<clusters, merges>>
    /\ consumer' = [consumer EXCEPT !.applied = TRUE, !.tx = Idle]
    /\ UNCHANGED <<jobs, sent, crashes>>

\* The late root opens a generation that a job opened meanwhile: the transaction
\* fails and the event is tried again.
RetryEvent ==
    /\ consumer.tx.open
    /\ \E te \in consumer.event :
         LET read == consumer.tx.read.rows[te[1]]
             new == merge_trace_state(read, te[2])
         IN  /\ IsLate(read, new) /\ new.input
             /\ Conflict(consumer.tx.read.clusters, root_late_decision(new), FALSE)
    /\ consumer' = [consumer EXCEPT !.tx = Idle]
    /\ UNCHANGED <<rows, clusters, jobs, sent, crashes, merges>>

CommitOffset ==
    /\ consumer.applied
    /\ consumer' = [busy |-> FALSE, applied |-> FALSE, event |-> {}, tx |-> Idle]
    /\ UNCHANGED <<rows, clusters, jobs, sent, crashes, merges>>

Redeliver ==
    /\ consumer.applied \/ consumer.tx.open
    /\ crashes < MaxCrashes
    /\ crashes' = crashes + 1
    /\ consumer' = [consumer EXCEPT !.applied = FALSE, !.tx = Idle]
    /\ UNCHANGED <<rows, clusters, jobs, sent, merges>>

(***************************************************************************)
(* The worker process.  ttl_until passes; judge_scan_job judges every row  *)
(* that is due, from the facts it read, if the row is still unjudged;      *)
(* cluster_job takes a judged row (a batch of one) and merges what the     *)
(* judgement found, if nobody processed the row meanwhile.                 *)
(***************************************************************************)
Expire(t) ==
    /\ rows[t].exists /\ ~rows[t].judged /\ ~rows[t].due
    /\ rows' = [rows EXCEPT ![t].due = TRUE]
    /\ UNCHANGED <<clusters, consumer, jobs, sent, crashes, merges>>

ToJudge(table) == {t \in Traces : table[t].due /\ ~table[t].judged}

\* Mutated scans: a row without input hash is never taken; a row need not be judged.
ToCluster_hashed(table) ==
    {t \in Traces : table[t].judged /\ ~table[t].processed /\ table[t].input}
ToCluster_unjudged(table) == {t \in Traces : table[t].exists /\ ~table[t].processed}

ToCluster(table) == {t \in Traces : table[t].judged /\ ~table[t].processed}

Begin(w, taken) ==
    /\ ~jobs[w].open /\ taken # {}
    /\ jobs' = [jobs EXCEPT ![w] = [open |-> TRUE, trace |-> taken, read |-> Tables]]
    /\ UNCHANGED <<rows, clusters, consumer, sent, crashes, merges>>

Finish(w) == jobs' = [jobs EXCEPT ![w] = Idle]

read_judge_scan(w) == Begin(w, ToJudge(rows))
read_cluster_job(w) == \E t \in ToCluster(rows) : Begin(w, {t})

Judge(w, t) ==
    [rows[t] EXCEPT !.judged = TRUE,
                    !.candidates = _collect_candidates(jobs[w].read.rows[t])]

judge_scan(w) ==
    /\ jobs[w].open
    /\ rows' = [t \in Traces |-> IF t \in jobs[w].trace /\ ~rows[t].judged
                                 THEN Judge(w, t) ELSE rows[t]]
    /\ Finish(w)
    /\ UNCHANGED <<clusters, consumer, sent, crashes, merges>>

\* Fork A: a row without input hash is only marked.
_merge_row(w, t) ==
    LET read == jobs[w].read.rows[t]
    IN  IF read.input
        THEN merge_candidates(jobs[w].read.clusters, t, read.candidates, TRUE, "job")
        ELSE UNCHANGED <<clusters, merges>>

\* A mutated job: it does not look at the rowcount of the last UPDATE.
cluster_without_cas(w) ==
    /\ jobs[w].open
    /\ \E t \in jobs[w].trace :
           _merge_row(w, t) /\ rows' = [rows EXCEPT ![t].processed = TRUE]
    /\ Finish(w)
    /\ UNCHANGED <<consumer, sent, crashes>>

cluster_job(w) ==
    /\ jobs[w].open
    /\ \E t \in jobs[w].trace :
           /\ ~rows[t].processed
           /\ _merge_row(w, t)
           /\ rows' = [rows EXCEPT ![t].processed = TRUE]
    /\ Finish(w)
    /\ UNCHANGED <<consumer, sent, crashes>>

\* _RowRaced or IntegrityError: the row's savepoint is rolled back.
RollBack(w) ==
    /\ jobs[w].open
    /\ \E t \in jobs[w].trace :
           LET read == jobs[w].read.rows[t]
           IN  rows[t].processed
               \/ (read.input /\ Conflict(jobs[w].read.clusters, read.candidates, TRUE))
    /\ Finish(w)
    /\ UNCHANGED <<rows, clusters, consumer, sent, crashes, merges>>

CrashJob(w) ==
    /\ jobs[w].open /\ crashes < MaxCrashes
    /\ crashes' = crashes + 1
    /\ Finish(w)
    /\ UNCHANGED <<rows, clusters, consumer, sent, merges>>

\* Backflow: the cluster's regression passed.
CloseCluster(e) ==
    /\ clusters[e].status = "open" /\ clusters[e].generation < MaxGeneration
    /\ clusters' = [clusters EXCEPT ![e].status = "fixed"]
    /\ UNCHANGED <<rows, consumer, jobs, sent, crashes, merges>>

Next ==
    \/ \E t \in Traces, e \in Events : Poll(t, e)
    \/ _get_row \/ apply_event \/ RetryEvent \/ CommitOffset \/ Redeliver
    \/ \E t \in Traces : Expire(t)
    \/ \E w \in JudgeWorkers : read_judge_scan(w) \/ judge_scan(w) \/ CrashJob(w)
    \/ \E w \in ClusterWorkers :
           read_cluster_job(w) \/ cluster_job(w) \/ RollBack(w) \/ CrashJob(w)
    \/ \E e \in Types : CloseCluster(e)

Spec == Init /\ [][Next]_vars

\* Time passes, and each loop runs again after its interval.
Fairness ==
    /\ \A t \in Traces : WF_vars(Expire(t))
    /\ \A w \in JudgeWorkers : WF_vars(read_judge_scan(w)) /\ WF_vars(judge_scan(w))
    /\ \A w \in ClusterWorkers :
           /\ WF_vars(read_cluster_job(w))
           /\ WF_vars(cluster_job(w) \/ RollBack(w))

FairSpec == Spec /\ Fairness

(***************************************************************************)
(* Properties.                                                             *)
(***************************************************************************)
EventTypes == {NoType} \cup {e.etype : e \in Events}

RowOK(row) ==
    /\ row.root \in {"none", "ok", "error", "timeout"}
    /\ row.etype \in EventTypes /\ row.entries \subseteq EventTypes
    /\ row.candidates \subseteq Types
    /\ row.judged => row.exists
    /\ row.processed => row.judged
    /\ row.root_late_complement => row.judged

\* The rows and the clusters have their types, and a row is processed after it
\* was judged and judged after it exists, whoever writes it.
TypeOK ==
    /\ \A t \in Traces : RowOK(rows[t])
    /\ \A e \in Types : /\ clusters[e].generation \in 0..MaxGeneration
                         /\ clusters[e].status \in {"open", "fixed"}
                         /\ clusters[e].count \in Nat

\* Neither two cluster loops on one row nor a redelivered late root count a trace
\* twice: each of the two ways into the clusters is taken at most once.
MergedOncePerSource == \A m \in DOMAIN merges : merges[m] <= 1

\* A late root does not reverse a closed cluster: only cluster_job, which sees a
\* recurrence, opens a generation after the first.
LateNeverReopens ==
    [][(\E e \in Types : clusters[e].generation > 0 /\ clusters'[e].generation > clusters[e].generation)
           => consumer' = consumer]_vars

\* Every trace with a row is judged and taken by cluster_job in the end, with or
\* without input, whatever the other workers and the consumer do meanwhile.
Processed == \A t \in Traces : rows[t].exists ~> rows[t].processed

\* What state.py says of a trace: one partition, so no two writers of a row.  A
\* root error that flows back is either in the judgement or taken as a late root.
RootErrorJudged ==
    \A t \in Traces :
        rows[t].judged /\ rows[t].root = "error" =>
            root_late_decision(rows[t]) \subseteq rows[t].candidates \/ rows[t].root_late_complement

=============================================================================
