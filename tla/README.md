# Verification of agent-evaluation-online

TLA+ models of the program's backflow: how error events of an agent's traces
become error clusters, how a cluster is sent to the offline evaluator as a
regression case, and how the results that come back close or reopen it; and of
what surrounds it: the SDK's sink, the contract with the evaluator, the runtime
configuration and the hourly rollup. TLC
checks small instances, TLAPS proves theorems for all of them. All paths below
are relative to `src/backend/app/` unless they start with `src/`.

    tlc -workers 2 -config BackflowCore.cfg MCBackflow.tla    # a run
    tlapm BackflowProofs.tla                                  # the proofs

`PROJECT.json` lists the components, runs, the source lines of every
definition, the hazards of the code, and for each property a plausible bug of
the code (a mutated definition, kept beside the one it replaces) that violates
it.

## 1. The system

Two processes share a MySQL database and an Elasticsearch store.

* **backend**: a FastAPI application (`main.py`, `api/`) and, in the same
  process, a Kafka consumer (`consumer/`).
* **worker** (`worker/main.py`): six asyncio loops, each `run, sleep` for ever.

The agents use the **SDK** (`src/sdk/obs_sdk`), which sends events to Kafka. The
**offline evaluator** is a platform of its own, seen only through the API: it
pulls payloads, acknowledges them, runs the cases on each version of the agent
and pushes the results. It retries a push three times and then forgets it.

| component | state | operations | interacts through |
|---|---|---|---|
| SDK sink (`_sink.py`) | bounded queue, disk spool | emit, flush, replay, stop | Kafka |
| consumer (`consumer/`) | `trace_judge_state`, a row per trace | validate, mask, merge an event, late root, write to ES, commit offset | Kafka (at least once), tables |
| judge_scan (60 s) | `judged`, `judgement_json` | judge the rows that are due, purge old ones | rows of the consumer |
| cluster (15 s) and `analyzer/cluster.py` | `error_cluster`, `processed` | merge a judged row, open a generation, count | rows; also called by the consumer for late roots |
| assemble (60 s), `converter/` | `error_case_link` | give an open cluster a link; requeue rejected links | clusters, links |
| pull contract (`api/pull.py`, `backflow/ack.py`) | `offline_status` of a link | pull, acknowledge | offline evaluator |
| push and verdict (`api/backflow.py`, `backflow/verify.py`, `claim.py`, `batches.py`) | `verify_run_record`, `verify_status`, cluster status, `conversion_record`, `needs_review_batch` | archive a result, judge the link, close or reopen | offline evaluator, links, clusters |
| rejudge (60 s) | the same | judge again what a push could not | records, links |
| claim TTL (60 s) | clusters in `claim` | return them to `open` | none are in `claim` any more |
| rollup (hourly) | rollup documents of ES | recompute hours whose counts changed | ES |
| dictionary (`core/dict_config.py`, `api/admin.py`) | `dict_config`, a cache in each process | read, write, invalidate | all jobs |
| sessions (`api/auth.py`) | `user_session`, failures in memory | login, refresh, logout | browser |
| frontend, metrics, trace pages | none | read | API |

Hard behaviours, each an entry of `hazards` in `PROJECT.json` at its line:

* *Results* are lost, repeated, delayed and reordered; a verdict needs K
  *consecutive* versions, so a lost failure between two passes must be noticed.
* *Two processes write the same rows.* A transaction reads a snapshot (no code
  chooses an isolation level, MySQL's default is REPEATABLE READ) and its
  `UPDATE ... WHERE` sees what is there when it writes.
* *A judgement may raise* after its record was written, and is made good by a
  loop that reads a limited batch.
* *A link is terminal once*, while pushes for it keep coming.
* *Redelivery* after a crash between the database commit and the offset commit.
* *The root of a trace* may arrive before, during and after the judgement.
* *Commit order is not time order*: a row's time stamp is taken when it is written
  and is seen when its transaction commits, behind a client's watermark.
* *Each process has a cache of its own*, which a request that is already open can
  fill again after it was cleared.
* *Late events* arrive while their hour is being aggregated, page by page.

Correctness, by component: the verdict is the one the release order of the
results gives (kernel); statuses, verdicts, records and audit rows agree, a
cluster is not fixed over a failure but where the gap check cannot see it, terminal is read-only, everything decided
is eventually delivered and a failed cluster is verified again (loop); stale
decisions do no harm (races); each way into the clusters is taken once, a late
root reverses nothing and every row is processed (traces); a link is offered again
only when it is due and what is on offer is pulled (contract); a configured value
takes effect at once in the API and within a bound elsewhere (dictionary); a count
that matches can be trusted and a page misses documents of a covered hour in two
known cases only (rollup); nothing is lost without a count (sink).

## 2. Modules

| module | models | checked by |
|---|---|---|
| `Verify` | the verdict kernel of `backflow/verify.py`, as operators | `Kernel` |
| `Kernel` (extends `Verify`) | what a link has received, in any order, and the verdict said without a fold | `MCVerify` |
| `Backflow` (extends `Verify`) | the loop between cluster and link, one action per transaction | `MCBackflow` |
| `JudgeRace` (extends `Backflow`) | the transactions that judge and assemble, split into snapshot and commit | `MCJudgeRace` |
| `TraceJudge` | consumer, judge_scan and cluster_job on `trace_judge_state` | `MCTraceJudge` |
| `SdkSink` | the SDK's queue, flusher, spool and `stop()` | `MCSdkSink` |
| `Lifecycle` | what the loop promises about one error, without tables | `Backflow` implements it |
| `AckPull` | the contract from the side of the rows: assemble loops, acknowledgements and pull as open transactions | `MCAckPull` |
| `DictConfig` | `dict_config` and the cache of each process | `MCDictConfig` |
| `Rollup` | hourly aggregation and the page that reads it | `MCRollup` |
| `KernelProofs`, `BackflowProofs`, `RaceProofs`, `TraceProofs`, `SdkSinkProofs`, `RollupProofs`, `AckPullProofs`, `DictConfigProofs` | theorems and proofs about the module of that name (`RaceProofs`: `JudgeRace`, `TraceProofs`: `TraceJudge`) | tlapm |

`Backflow` and `AckPull` both model acknowledgement, requeue and assembly. In
`Backflow` they are atomic and have the cluster, the results and the verdict around
them; in `AckPull` they are transactions of several steps, and a verdict is a flag.
`JudgeRace` stands to `Backflow` as `AckPull` does, for judgements and assembly.

The `MC` modules only supply constants. `BackflowProofs` extends `KernelProofs` for
its lemmas about the walk of `_replay_k`; the variables of `Kernel` come with them and
are mentioned in none of its definitions and theorems.

### Verify

A *row* is what the kernel reads back from one `verify_run_record`: its version,
the version of the agent's previous terminal run, what `cases[]` says of the
link's case, and the error types of the rows of `cases[]` that could not run.
`_replay_k` is the fold of `ReplayStep` over `WalkOrder` (one row for each
version, the one pushed last, sorted by `_ver_key`), with the stops of the code
in its order: a gap, a payload without `cases`, a verdict of `decide_k`.
`Suffixed` names the versions whose last segment is no number. That segment alone
sorts as 0: 2026.08.31-r47 sorts as 2026.8.0, before 2026.8.1 and after July. What a
version becomes then is its `PrefixRank`, while `VersionRank` is the release order its name is
meant to say.

### Kernel

The state is what one link has received: `pushed` grows by one row of `ResultRow` in
each step, in any order of versions, and `cut` and `wanted` are the cluster's `truncated`
and `claim_k`. `Seens` are the sets of versions of the agent that the kernel may find
in other links' records. `Reference` says the verdict at once: it is given by the
first version (`Standing`, `UpTo`) with a reason to end the walk (`Why`), and the
streak at a version (`Streak`) is counted backwards from it instead of forwards.

### Backflow

| state | table |
|---|---|
| `clusters` | `error_cluster`: key, generation, status, whether it has a snapshot, truncated |
| `links` | `error_case_link`: cluster, offline status, rejection reason, whether a case id is known, verdict, requeues |
| `records` | `verify_run_record`: link (0 for an orphan), cluster, run |
| `batches` | `needs_review_batch`, one element per reference |
| `conv` | `conversion_record`: the number of `auto_fixed` and `reopen` rows of a cluster |
| `runs` | external: what the evaluator ran; its payloads |

A row's id is its index. The number of requeues of a link, counted in the code
from `conversion_record`, is a field of the link.

| action | code |
|---|---|
| `merge_candidate` | `analyzer/cluster.py` `_merge_once`: count, or open a generation |
| `assemble_cluster` | `converter/envelope.py`, under the scan of `assemble_job` |
| `apply_ack` | `ack_decide` and the update of `backflow/ack.py` |
| `auto_requeue_stuck` | `backflow/requeue.py`; `young` are links inside the debounce interval |
| `OfflineRun` | external: a run, with `prev_terminal_version` as the agent's last one |
| `record_regression_result` | archive and judge in one transaction; `judged = FALSE` when the judgement raised and its savepoint was undone |
| `_rejudge_batch` | `worker/rejudge_job.py`; `raising` are the links whose judgement raises |

A push may be delivered at any time after the run, again and again, or never: the
loss, delay, reordering and repetition of the network are the freedom not to take,
or to take late, `record_regression_result`. A push that is rejected before
anything is written (schema version, duplicate case ids, `na` without a type)
changes nothing and is left out. Offline runs an agent's versions in release
order. `Reruns` says what it may run twice: nothing, the case of another link on
the version it just ran, or anything on that version.

Only the statuses `open` and `fixed` are ever written: claiming was abolished and
`needs_review` is no state any more. `fix_version` is never written either,
so `reentry_gate_allows` is not consulted and not modelled.

### Lifecycle

A case of a key is `open`, `tested`, and `fixed` or `open` again. `Backflow` maps a
cluster to a case: fixed if its status is, tested while one of its links is pending.
Everything else (acknowledgements, requeues, runs, records, judgements that decide
nothing) is a stutter. `ImplementsLifecycle` is checked by the `core` run and proved in
`BackflowProofs`.

### JudgeRace

`PushBegin`, `RejudgeBegin` and `AssembleBegin` are the reads of a transaction. It
keeps what it decided on them: the run or cluster, the current link, and the verdict
of `judge_link` with the batch it names. The `Commit` actions write that to the
current tables under the conditions of the code's updates and the unique keys
`uk_verify_run` and `uk_link_current`. One commit step is enough for all the writes
because the row locks of the first one are held to the end. `Rollback` stands for a
crash, a deadlock and a lost connection. The verdict is applied to whatever links of
the cluster are pending at the commit, as `_mark_pending_links` does, and a cluster
that is no longer open raises, which undoes the judgement's savepoint.

### AckPull

| state | code |
|---|---|
| `links` | `offline_status`, its reason, `assembled_ts` of a row; `settled` is any verdict, `requeues` the requeue rows of `conversion_record` |
| `works` | the transaction of each assemble loop: the snapshot's time, the rows left of the scan, the rows written and locked |
| `acks` | an acknowledgement between its first read and its UPDATE |
| `client` | external: watermark, latest time stamp seen and cursor of the evaluator |

`RequeueScan`, `RequeueLink` and `Commit` are `auto_requeue_stuck` (`LIMIT`, then the
cap, then an UPDATE for each row with its own condition, which waits for a row lock);
`AssembleLink` stands for the INSERT of a payload; `AckRead` and `AckWrite` are
`apply_ack`; `Pull` is one page of `pull_payloads` with the client's rule for its
watermark (docs: the greatest `assembled_ts` it was given). `late` is history: links
that became visible behind the client's watermark. The agent filter of pull is left
out, since no column it reads ever changes.

### DictConfig

`rows` counts the rows of a key and has their value: `uk_dc` does not hold global keys
apart (MySQL lets `NULL` repeat), so a global key may get two, which every later read
refuses. `sessions` are requests and jobs whose transaction took its snapshot at
its first statement (`Open`); `Miss` and `Fill` are the read of `get_global_config` on
a cache miss. `PutRead`, `PutCommit` or `PutRefused`, and `invalidate_cache` are the
handler's steps between its awaits; `Updated` is what the ORM writes, nothing if the
value is the one it read. `SeedRead` and `SeedCommit` are `seed.py`. `gone` and `crossed` are
history: how long a value is out of date, and whether a cache entry comes from a
transaction that was open when the cache was cleared.

### Rollup

`events` is the index by hour, a document id each; `docs` and `meta` are what a round
has written of an hour. A round takes the last `LateK` closed hours, oldest first:
`Skip` or `Rebuild` after the probe (`_decide_recompute`), `NextPage` until a short page,
`WriteGroup` for each group, `WriteMeta` last. `Raise` and `Die` end a round at any
point: no handler stands between an hour and the loop. A document is the set of events
it counts; the digest in it and its other fields are left out.

A request of the overview reads twice, and a rebuild may write between the reads.
`_rollup_covered_hours` takes the meta documents from the hour on in which the window starts
(`fetch_rollup_covered_hours` floors it), `_rollup_request_docs` the documents whose hour
starts in the window (`fetch_rollup_hits` does not floor it): the hour `from` is in the
second read only if the request is `sharp`, exactly on the hour. Either read may fail, which the
code turns into an empty answer. The filter by agent and node selects whole
groups and is left out, as are the limits on the number of documents.

`lost` is history: for each hour the rounds that ended in an exception or a crash with the
hour still to do and without a meta document. `Busy` (the hours that have events) and the number of
events are bounds; `Tick` lets a round take at most `RoundHours` and a request see at most
one full hour come.

### TraceJudge

`rows` are the columns of `trace_judge_state` that decide something;
`clusters` the last generation of a key, one key per error type. `due` means that
`ttl_until` has passed; every event that is written moves it. The consumer is
`Poll`, `_get_row`, `apply_event` (with `root_late_complement`), `RetryEvent` for
step 4's endless retry, `CommitOffset`; `Redeliver` is the crash before the
offset is committed. Each worker loop is the snapshot and the commit, or
`RollBack` (`_RowRaced`, `IntegrityError`) or `CrashJob`. `Written` is what the
ORM does: it writes the columns that changed, and no others. `merges` is a history
variable for the properties.

Abstractions: `cluster_job` takes one row per transaction where the code takes a
batch with a savepoint each; counters of `err_summary_json` are a set of types;
the whitelist and switches that stop an agent's backflow as a whole are taken as
on; `_purge_processed` is left out.

### SdkSink

`senders` are the two threads that may be in `_flush_once`: the flusher, round
after round, and the caller of `stop()`, once. A round is `Gather` and `EndGather`, for
each item of the batch `SendAcked`, `Unserializable` or `BackOff` and `GiveUp` with
`_spool_write`, then `ListSpool` and for each file `ReadFile`, `_send_once` or
`ReplayFails`, `RemoveFile`. Every step that another thread may see is an action. A
failed send leaves open whether the topic holds the item. A spool file is known by
the millisecond of its name; the clock ticks in a back-off, because no thread fails
twice in one millisecond, and two threads may share one. `_spool_write` also stands for a disk that
fails and for a sink without `spool_dir`. `Restart` ends the process at any point,
after `stop()` or in a crash, and starts it again: memory is lost, the spool stays.
`dropped` holds the items instead of their number, so that a lost increment of a
counter is not seen; `flush=False`, which nothing passes, is left out.

## 3. Runs

The state spaces are complete within the bounds. `CHECK_DEADLOCK FALSE` is in every
cfg but those of `AckPull`, because the systems may stop: nothing forces an error to
occur and the bounds end the tables' growth. (The client of `AckPull` never stops
polling.)

| run | bounds | shows |
|---|---|---|
| `verify` | sequences of up to 3 rows of 3 versions, 2 of them suffixed, 6 things a run can say, K in 1..3, truncated or not | the fold is its reference definition; order of arrival does not matter where no two results compare equal; more knowledge of other versions only turns `gap` into a verdict; on an undecided link the detail page shows the first missing version, and that is the one the kernel waits for unless a result without `cases[]` stopped the kernel before it |
| `core` | 1 key, 2 clusters, 2 links, 3 runs of 3 suffixed versions, K = 2, cap 1, no reruns | the invariants and action properties of the loop, `NoFalseFix` with its exceptions among them, and that it implements `Lifecycle` |
| `live` | 2 keys of one agent, 2 clusters, 2 links, 1 run, K = 1, fair workers | decided links are judged, open clusters reassembled, rejected links offered again |
| `judge_race` | 2 pushes, 1 rejudge loop, 2 assemble loops, 2 links, 3 runs, K = 1, reruns | what unique keys and conditional updates save |
| `trace` | 2 traces, 3 events, 1 crash, 1 judge and 2 cluster loops, 2 generations, fair workers | each way into the clusters is taken once, late roots reopen nothing, every row is processed |
| `sink` | 3 items, one a heartbeat, one too large; queue of 2, batch of 1, 2 tries, 2 failed sends, 2 lives; fair threads | no silent loss, the spool keeps what was not sent, queue and spool drain |
| `config` | a global and a per-agent key, 2 values, API and worker with a reader each, 2 PUTs, the seed, 1 restart, TTL of 2 ticks, transactions of 1 | no second row of a per-agent key, a PUT takes effect, staleness is bounded |
| `rollup` | 7 hours, a window of 4 for the rounds and of 3 for the page, 2 events of 3 in 2 groups in hours 2 and 3, pages of 1, a round that raises and one that dies | the probe can be trusted, no late event is passed over, the page misses documents of exactly those covered hours that its window cuts or whose read failed, a lost round leaves no gap |
| `ack_pull` | 2 links, 2 loops, 2 acknowledgements in flight, cap 1, debounce of 2 ticks, transactions of 1, pages of 1, 4 ticks | requeues are due, statuses move by the matrix, what stays on offer is pulled |

Why the bounds are enough: three versions are the least with one between two
others, which is what K = 2 and a gap are about; two generations, two links
and two transactions on one row are the least at which rows can be confused; with
three runs two pushes can be open while a third is archived. A page of one row
makes every row a page boundary. The rollup window of four is the least in which
an hour is tried again after a lost round although a round may take an hour; the other
hours of the seven let an hour leave that window. Two hours with events are enough, because
nothing in an hour's documents depends on another hour but whether a round gets to it;
both pass through the left edge, the middle and the right edge of the page's window of three.
In `core` all versions compare equal, which is the strongest form of the suffix's
effect; one key of an agent keeps the run small, and what a second key masks is proved.
Every action fires. The kernel is checked for K up to 3 separately, so the loop can
do with 2. What the loop's runs cannot show is an error that needs three clusters
or links at once; for the theorems of section 5 there are no bounds.

Three runs expect a violation. Each checks one property that the code's own texts
promise, and shortens the way to it with the bounds:

| run | property | what happens |
|---|---|---|
| `judge_race_fixed` | `FixedByItsLink` | A pass and a failure of one version are pushed at once. The failure commits first; the pass, decided on its snapshot, marks no link but closes the cluster. |
| `trace_lost_root` | `RootErrorJudged` | The root is written between judge_scan's read and its update. The row is judged without it, and it was no late root. |
| `ack_lost_race` | `AnswerIsTheRow` | An active and an invalidated acknowledgement of one draft. The second one's UPDATE hits no row, but has already set the loaded object; it is answered 200 with a state the row does not have. |

Other limits of the code show when a constant of a run is changed, or are the
exceptions a property states:

* *Lost results.* The gap check accepts any record of the agent. `NoFalseFix` therefore
  excepts a gap that is `Masked`: the version a pass names as its predecessor was received for
  another key of the agent, or is the pass's own version. With two clusters of one agent
  (`Keys = {k1, k2}`, `AgentOf <- MCOneAgent`) a lost failure of one case is masked by the
  other case's run of that version, or by the other case's later run, which the next pass
  names instead. With one case a rerun does it (`Reruns = "any"`): the failure on v2 and
  the first run on v3 are lost, and the rerun on v3 asks for v3 itself. Any other
  lost failure between two passes is noticed, if versions are walked in order.
* *Suffixed versions.* Versions of one month, `2026.08.30-r46` and `2026.08.31-r47`, compare
  equal and are walked in order of arrival. A failure that arrives after the K-th pass is
  then too late although its version is older than that pass's, and the predecessor that
  a pass names does not order the walk. `NoFalseFix` excepts such a walk (`WalkedOutOfOrder`), and
  `OrderIndependent` is about results of which no two compare equal. The runs `core` and
  `verify` have suffixed versions.
* *A result without `cases[]`* stops the kernel but neither decides the link nor stops
  `link_gap_version`, so the page may suspect a loss the kernel does not wait for.
  `GapViewAgrees` says when; `PageSeesMore` in `MCVerify` is such a history.
* *The page's two reads* have different left edges, and a failed second read is taken for one
  without documents, with which the percentiles are replaced. `CoveredComplete` says that these
  are the only two ways to miss documents of a covered hour, but for the limit below.
* *Full batches.* `run_rejudge` and `auto_requeue_stuck` read a limited batch whose
  candidates stay in it without progress. With `Batch = 1` (`BackflowLive.cfg`; the code's
  200 needs as many stuck rows) `VerdictDelivered` and `Reoffered` fail.
* *A trace counted twice.* A late root gives a judged, unprocessed row its input hash
  and is merged inline; cluster_job then merges the children's candidates. No text says
  which of the two should stand down, so `MergedOncePerSource` is about each way.
* *Two rows of a global key* from two PUTs at once, or a PUT beside the seed. The
  comment at `api/admin.py` rests on one worker process, but the handler awaits.
* *Cleared caches* are filled again by a transaction that was open
  (`EffectiveUnlessCrossed` excepts its entries, `BoundedStale` limits them).
* *Late commits.* `PulledInTheEnd` excepts a link whose transaction committed after the
  client had seen a later time stamp.
* *Long transactions.* `ReofferedWhenDue` holds because a loop's transaction is shorter
  than the debounce interval (`TxnTicks < Debounce` is assumed): the UPDATE repeats
  neither the reason nor the cap.
* *An hour that raises* ends the round for all later hours. `NoGap` counts, for each hour, the
  rounds that were lost before they came to write it, and is about fewer than
  `LateK \div (RoundHours + 1)` of them; an hour that raises in every round leaves the
  later ones out until it falls from the window.
* *10000 documents* are read for the percentiles at most; `Rollup` reads without that limit.
* *`stop()`* flushes one batch: what is queued beyond it is lost with the process, and
  `Accounted` lists it as `perished`. During `stop()` two threads use the spool, and one may
  remove a file to which the other has just appended (`SpoolKept` is about the time
  before). A line Kafka always refuses ends every replay before the files behind it
  (`SpoolDrains` excepts it). A spooled heartbeat is replayed to the agent's topic,
  because `_send_once` knows no other; no property is about that.

`findings` in `PROJECT.json` quotes the sentences that the three runs contradict, and two
more, on `link_gap_version` and on the page's failed read, whose properties state what the
code does instead and are checked by passing runs.

## 4. Fairness

Only background loops are fair. `worker/main.py` runs each for ever, catches
every exception and sleeps 15 or 60 seconds, so a step that stays possible is
taken: `WF` of `assemble_cluster` for each cluster (the job repeats its scan until
nothing is left), of `auto_requeue_stuck({})` (the debounce interval of a link
ends) and of `_rejudge_batch({})` (a judgement may raise, but not every time). In
`TraceJudge` also the passing of `ttl_until`. Nothing is assumed of the evaluator,
of the pushes, or of the consumer: no liveness property depends on them. The
properties of the loop say that something is not so for ever (`[]<>~`), since the
obstacle may also disappear in another way, e.g. a cluster may be fixed by another
push.

In `SdkSink` the two threads are fair: the flusher is a loop that survives its
exceptions, every wait in it has a limit, and the bound on failed sends says that
Kafka answers in the end, except for what it refuses for its size. `stop()` and the
end of the process are never forced.

In `AckPull` only the client is fair (`WF` of `Pull`): an evaluator that does not poll
sees nothing, and nobody else has to do anything for `PulledInTheEnd`. `JudgeRace`,
`DictConfig` and `Rollup` have safety properties only: `NoGap` says by bounds, not by
fairness, what a later round makes good.

## 5. Proofs

The theorems hold for every value of the constants that satisfies the named
assumptions of the modules.

| module | theorem | statement | assumptions |
|---|---|---|---|
| `KernelProofs` | `FoldsToReference` | `KernelSpec => []KernelMatchesReference` | `VersionAssumption`, `KernelAssumption` |
| | `LostOnlyDelays` | `KernelSpec => []GapOnlyDelays` | |
| | `PageSeesTheGap` | `KernelSpec => []GapViewAgrees` | |
| | `AnyOrder` | `KernelSpec => []OrderIndependent` | |
| `BackflowProofs` | `TypeCorrect` | `Spec => []TypeOK` | `BackflowAssumption`, `VersionAssumption` |
| | `StatusesAgree` | `Spec => []LinkClusterAgree` | |
| | `GenerationsChain` | `Spec => []GenerationChain` | |
| | `ArchivedOnce` | `Spec => []RecordsOncePerRun` | |
| | `TerminalIsFinal` | `Spec => TerminalReadOnly` | |
| | `FailuresHaveEvidence` | `Spec => []FailedOnEvidence` | |
| | `AuditComplete` | `Spec => []AuditMatches` | |
| | `NoFixOverFailure` | `Spec => []NoFalseFix` | |
| | `LoopImplementsLifecycle` | `Spec => ImplementsLifecycle` | |
| `RaceProofs` | `RacedTypes` | `RaceSpec => []TypeOK` | those of `BackflowProofs` and `RaceAssumption` |
| | `RacedOnePending` | `RaceSpec => []OnePending` | |
| | `RacedArchive` | `RaceSpec => []RecordsOncePerRun` | |
| | `VerdictsStand` | `RaceSpec => VerdictFinal` | |
| | `RacedClosedOnce` | `RaceSpec => []ClosedOnce` (the first half of `FixedOnce`) | |
| | `RacedFixedOnce` | `RaceSpec => []FixedOnce` | |
| `TraceProofs` | `TypeCorrect` | `Spec => []TypeOK` | `TraceAssumption` |
| | `CountedOnce` | `Spec => []MergedOncePerSource` | |
| | `LateKeepsClosed` | `Spec => LateNeverReopens` | |
| `SdkSinkProofs` | `TypeCorrect` | `Spec => []TypeOK` | `SinkAssumption` |
| | `NothingSilent` | `Spec => []Accounted` | |
| | `SpoolSafe` | `Spec => SpoolKept` | |
| `RollupProofs` | `TypeCorrect` | `Spec => []TypeOK` | `RollupAssumption` |
| | `ProbeTells` | `Spec => []MetaTells` | |
| | `ProcessedComplete` | `Spec => []SettledComplete` | |
| | `ReadComplete` | `Spec => []CoveredComplete` | |
| | `NoHourLost` | `Spec => []NoGap` | |
| `AckPullProofs` | `TypeCorrect` | `Spec => []TypeOK` | `AckPullAssumption` |
| | `RequeuesWhenDue` | `Spec => ReofferedWhenDue` | |
| | `StatusMovesByTheMatrix` | `Spec => MovesByTheMatrix` | |
| `DictConfigProofs` | `ConfigTypeCorrect` | `Spec => []TypeOK` | `ConfigAssumption` |
| | `PutTakesEffect` | `Spec => []EffectiveUnlessCrossed` | |
| | `StalenessBounded` | `Spec => []BoundedStale` | |

The assumptions say that limits are numbers, not 0 where the code divides the work by
them, that sets of processes are disjoint, and that the items, events and links of a
run are finitely many. `TxnTicks < Debounce` in `AckPullAssumption` is the one that
says something about the deployment (section 3).

*The walk.* `WalkOrder` gives the position of a version by the number of versions before
it. `WalkOrderIs` shows that `Before` is a strict total order of the versions that count
and that the walk visits each once, ascending. The loop is a recursive function:
`WalkExists` shows that there is one, and what holds after n versions is shown by a least
counterexample instead of by induction (`ReplayReasons`, `ReplayAgreed`).

*Kernel.* `Agreed` says what the fold knows after n versions: none of them ends the walk
and the fold has the length of the streak (`StreakCount`: a streak that ends at the n-th
version is an interval of positions, so its cardinality is what is counted), or the
fold has stopped at the first that does, for the reason the reference gives.
`KernelMatchesReference` and `GapViewAgrees` follow at the end of the walk: on an undecided
link no version before the first missing one ends the walk, unless it has no `cases[]`. For
`GapOnlyDelays` two folds are compared that differ in the versions seen: they are equal
until one stops at a gap. For `OrderIndependent` the permutation maps one walk to the
other, because two ascending enumerations of one set are equal. That needs `AllSort`, which the
property asks of the results received: two that compare equal are walked as they arrived.

*Types.* `TypeOK` is strengthened to `TypeInv` with `GenerationBound`. `MaxOfBounded`
shows that `Max` of a bounded set of numbers is one of them, which is what makes
`NextGeneration` a number and `_find_current_link` an id.

*Statuses.* `LinkClusterAgree` is inductive only with `TypeInv` and with the fact that
a link is judged while its cluster is open. The lemmas `Settles` and `JudgeSettles`
say what one judgement does to a table (every pending link of a passed cluster
becomes passed, and so on, whatever set of links is judged), so that pushes and
`_rejudge_batch` are proved alike. A push is judged only for an open cluster, whence
it has no passed link; `assemble_cluster` adds a pending link only to an open cluster
with none.

*Generations.* A generation is opened only when the key has no current cluster, and is
above all others (`NextGenerationAbove`); statuses only move to `fixed`.

*Records.* The link of a new record is pending in the cluster the run belongs to, and
links keep their cluster (`LinksAreKept`).

*Terminal links.* No write touches a verdict that is not pending (`VerdictsKept`), and the
results attributed to a link grow only while it is pending (`ResultsGrow`, with
`OnePending`: the link a push finds is the pending one).

*Evidence.* A judgement says `reopened` only of a result of the link whose own case failed
(`ReplayReasons`), and records are never changed.

*Audit.* The failed links of a cluster grow by one with each reopen row (`FailedGrow`),
because a cluster has at most one pending link; `auto_fixed` is written in the step that
closes the cluster.

*No fix over a failure.* The theorem holds for any number of keys of an agent, any reruns
and any suffixes; `NoFalseFix` itself names its two exceptions (section 3). The invariant
`FixInv` adds to the statuses and generations that an agent's versions ascend
(`RunsAscend`), that what a run names as its predecessor is not older than any earlier run
(`PreviousIsLast`), that a result is filed under its run's cluster (`Filed`), and that once a
pending link has been run the results of its key are attributed to it (`Attributed`). Let a
run x of the link have a version between two of the K passes that follow each other, r and
s, in a walk that was not out of order. Then s names a predecessor that is x's version or
a newer one; s was no gap, so some record of the agent has that version. If it was received
for another key, or is s's own, the gap was masked. Otherwise it was received for the link's
own key, so by this link, and is a version of the walk between r and s, which are adjacent
in it.

*Lifecycle.* The invariant is `TypeInv`; every step of `Backflow` is shown to open, test
or conclude cases, or to leave `Cases` alone. What a judgement concludes is read off
`Settles`: the cases of `passed`, and those whose pending link failed.

*Races.* The proofs but the last never look at what was decided: it may be any verdict
about any cluster. The invariant `RaceInv` adds to `TypeInv` that the rows a transaction holds on to
exist and belong together (`TxnsTyped`), which survives every step because the tables
only grow and links keep their cluster (`Grows`). Then each property is one guard's
doing: `uk_link_current` for `OnePending`, `uk_verify_run` for `RecordsOncePerRun`, the
condition `pending` of `_mark_pending_links` for `VerdictFinal`, the condition `open` of the
cluster's UPDATE for `ClosedOnce`. `RaceCases` reduces every step to these writes.
`FixedByItsLink` has no such guard, and fails. The second half of `FixedOnce`, that some
link of a fixed cluster received K passes, does depend on the decision: the passes a
transaction decided on are still there when it commits (`VerdictsBacked`), because results
are never changed and a push inserts the result it decided on in the same transaction.

*Traces.* A transaction decides on tables it read earlier. The invariant says what of
that is still so: the bits of a row were only set since (`Since`), the bit of the late
root is written by the consumer alone (`ConsumerReads`), and the rows a job holds exist
and, for a cluster loop, are judged (`JobReads`). `Marked` ties the history to the rows: a
merge leaves its mark in its row in the same transaction, so a second one finds it.

*Sink.* `AllTold` is `Accounted`; it is inductive with `OnePlace` (an item is in the queue
or in one thread's batch, once) and `SpooledCounted`. For `SpoolKept`, `Replayed` says that
while one thread works alone the lines of the file that are no longer in its hand were
acknowledged. The types need that the model's clock never reaches its bound: `Clocked`
counts a tick for each life, fault and hopeless try (`Tried`).

*Rollup.* While an hour is rebuilt, every event at or behind the cursor that was there
at the start or is already counted has been seen (`Scanned`), and each group that is
written holds its events of the hour that were seen (`Written`). So documents never lose
an event that they counted, and `CountsBacked` holds: the count of a meta document is at
most the number of events the documents count. Together with equality that makes the two
sets equal (`ProbeTells`). `ReadBacked` is the same for the counts a request has read, and
`PastInv` adds that only closed hours have a meta document and that the counts a request
holds are of its window: hence no covered hour is cut off at the right edge, and one at most at the left
(`ReadComplete`). `NoGap` needs a clock: for each hour `WindowInv` bounds the start of the
next round that can still take it by the rounds this hour has lost times the longest
distance of two rounds.

*Contract.* The types of `AckPull` include that no time stamp and no watermark is ahead of
the clock and that no link is requeued beyond the cap (`Ranges`); they need the invariant
of the requeues below, because a requeue commits later than it counted.

*Requeues.* `ReofferedWhenDue` is about the moment of the commit, but the UPDATE looked
at the row earlier and at neither reason nor cap. The invariant says why that is
enough: a row the loop has locked is due (`Holds`), and a row it has yet to lock either is
rejected for missing content below the cap, or carries a time stamp that the UPDATE's
condition will refuse (`Awaits`). A requeue by another loop writes such a stamp, because
loops last less than the debounce interval (`InTime`). For acknowledgements, `Honest`
says that one in flight was allowed when it read its row, and that a rejection for a
capability gap can since have become nothing but active.

*Configuration.* The invariant counts ticks: `gone` of the value in a session's snapshot is
at most the session's age (`SessionLags`), and `gone` of a cached value at most the age of the
entry plus the longest transaction (`EntryAges`). `ApiCurrent` holds the effect of a
PUT: between clearings, an entry of the API is current unless it was crossed or a PUT is
committed but has not cleared yet. `RowsStay` (a row that a PUT has read is not
deleted) makes its UPDATE one of an existing row.

Only model-checked is liveness under fairness, which is out of the prover's reach:
`VerdictDelivered`, `Reassembled`, `Reoffered`, `Processed`, `MemoryDrains`, `SpoolDrains`,
`PulledInTheEnd`. Every safety property that a run checks and finds to hold is proved.

## 6. Not modelled

`components` in `PROJECT.json` says why for each:

* *claim TTL job*: works on clusters in status `claim`, which no code writes any more;
* *sessions and authentication*: rows of one user that no other component reads; the
  lost update of a refresh is listed under `hazards`;
* *event validation and masking*: stateless per event; a dropped event is one that
  `TraceJudge` never polls;
* *event store*: writes with deterministic ids; the consumer gives up on it after three
  tries without touching any state of the models;
* *read pages, recurrence, wordlist, frontend*: queries; only the two reads of the 7d
  overview depend on their order, and those are in `Rollup`;
* *SDK instrumentation*: context variables of one task;
* *the digest* of the rollup (arithmetic on reals), and texts of payloads, audit records and
  logs, which no property is about;
* *`_purge_processed`* and the switches that stop an agent's backflow as a whole.

## 7. Plan

Done: `Verify`, `Kernel`, `Backflow`, `JudgeRace`, `TraceJudge`, `SdkSink`, `Lifecycle`,
`AckPull`, `DictConfig`, `Rollup`; the theorems of section 5. Left, in order of importance:

1. The transactions of `JudgeRace` as an implementation of a weaker `Lifecycle`, in which a
   case may be fixed although its last link failed (`FixedByItsLink` says why).
2. Purge of processed rows and redelivery after it, in `TraceJudge`.
