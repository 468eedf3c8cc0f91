---------------------------- MODULE TraceProofs ----------------------------
(***************************************************************************)
(* Theorems about TraceJudge, for every value of its constants: whatever   *)
(* events are sent, however many loops run, and however often the consumer *)
(* is delivered an event again or a job ends between its read and its      *)
(* write.                                                                  *)
(***************************************************************************)
EXTENDS TraceJudge, TLAPS

-----------------------------------------------------------------------------
(***************************************************************************)
(* The inductive invariant.  A transaction works on the tables as it read  *)
(* them, so what it may conclude about the tables at its commit has to be  *)
(* said: bits that are set stay set, and the bit of the late root is       *)
(* written by the consumer alone.                                          *)
(***************************************************************************)
Row == [exists : BOOLEAN, due : BOOLEAN, root : {"none", "ok", "error", "timeout"},
        etype : EventTypes, input : BOOLEAN, llm_fact_ok : BOOLEAN, entries : SUBSET EventTypes,
        judged : BOOLEAN, candidates : SUBSET Types, processed : BOOLEAN,
        root_late_complement : BOOLEAN]

ClusterRow == [generation : 0 .. MaxGeneration, status : {"open", "fixed"}, count : Nat]

Workers == JudgeWorkers \cup ClusterWorkers

Snapshot == [rows : [Traces -> Row], clusters : [Types -> ClusterRow]]

Transaction == [open : BOOLEAN, trace : SUBSET Traces, read : Snapshot \cup {NoTables}]

Consumer == [busy : BOOLEAN, applied : BOOLEAN, event : SUBSET (Traces \X Events),
             tx : Transaction]

Typed ==
    /\ rows \in [Traces -> Row] /\ clusters \in [Types -> ClusterRow]
    /\ consumer \in Consumer
    /\ consumer.tx.open => consumer.tx.read \in Snapshot
    /\ jobs \in [Workers -> Transaction]
    /\ \A w \in Workers : jobs[w].open => jobs[w].read \in Snapshot
    /\ merges \in [Traces \X Types \X {"job", "late"} -> Nat]

\* exists, judged and processed are set in this order.
InOrder(row) ==
    /\ row.due \/ row.judged => row.exists
    /\ row.processed \/ row.root_late_complement => row.judged

\* Since the row was read, its bits were only set.
Since(read, row) ==
    /\ read.exists => row.exists
    /\ read.judged => row.judged

Ordered == \A t \in Traces : InOrder(rows[t])

\* What the consumer read of a row is still so, but for what the jobs may have set.
ConsumerReads ==
    consumer.tx.open =>
        \A t \in Traces :
            /\ Since(consumer.tx.read.rows[t], rows[t])
            /\ consumer.tx.read.rows[t].root_late_complement = rows[t].root_late_complement

JobReads ==
    \A w \in Workers : jobs[w].open =>
        \A t \in jobs[w].trace : /\ rows[t].exists
                                 /\ w \in ClusterWorkers => rows[t].judged

\* A merge leaves its mark in the row in the same transaction.
Marked ==
    \A t \in Traces, e \in Types :
        /\ merges[<<t, e, "job">>] > 0 => rows[t].processed
        /\ merges[<<t, e, "late">>] > 0 => rows[t].root_late_complement

Inv ==
    /\ Typed /\ Ordered /\ ConsumerReads /\ JobReads /\ Marked /\ MergedOncePerSource

-----------------------------------------------------------------------------
(***************************************************************************)
(* What the pure functions return.                                         *)
(***************************************************************************)
LEMMA EventFields ==
    ASSUME NEW e \in Events
    PROVE  /\ e.node \in {"request", "llm_call", "tool"} /\ e.status \in {"ok", "error", "timeout"}
           /\ e.input \in BOOLEAN /\ e.etype \in EventTypes
BY TraceAssumption DEF EventTypes

\* Only types that flow back are ever candidates.
LEMMA Candidates ==
    ASSUME NEW row
    PROVE  _collect_candidates(row) \in SUBSET Types /\ root_late_decision(row) \in SUBSET Types
BY DEF _collect_candidates, root_late_decision, _layer_for, Types

LEMMA EmptyState == _empty_state \in Row /\ InOrder(_empty_state)
BY DEF _empty_state, Row, InOrder, EventTypes

\* An event never judges a row and never resets its bits; the bit of a late root
\* needs a judgement.
LEMMA MergedState ==
    ASSUME NEW read \in Row, NEW e \in Events, NEW new, new = merge_trace_state(read, e)
    PROVE  /\ new \in Row
           /\ new.judged = read.judged /\ new.processed = read.processed
           /\ new.candidates = read.candidates
           /\ new.exists \/ read.judged
           /\ read.exists => new.exists
           /\ read.root_late_complement => new.root_late_complement
           /\ new.root_late_complement => read.root_late_complement \/ read.judged
           /\ new.root_late_complement # read.root_late_complement => e.node = "request"
<1>1. /\ e.node \in {"request", "llm_call", "tool"} /\ e.status \in {"ok", "error", "timeout"}
      /\ e.input \in BOOLEAN /\ e.etype \in EventTypes
  BY EventFields
<1>2. CASE e.node = "request"
  <2>1. PICK i \in BOOLEAN : i = (read.input \/ e.input)
    BY <1>1 DEF Row
  <2>2. PICK d \in BOOLEAN : d = (read.due /\ read.judged)
    BY DEF Row
  <2>3. PICK l \in BOOLEAN :
            l = (read.root_late_complement \/
                     (read.judged /\ read.root = "none" /\ e.status \in {"error", "timeout"}))
    BY DEF Row
  <2>4. new = [read EXCEPT !.exists = TRUE, !.root = e.status, !.etype = e.etype,
                           !.input = i, !.due = d, !.root_late_complement = l]
    BY <1>2, <2>1, <2>2, <2>3 DEF merge_trace_state
  <2>5. new \in Row
    BY <1>1, <2>4 DEF Row
  <2>6. /\ new.judged = read.judged /\ new.processed = read.processed
        /\ new.candidates = read.candidates /\ new.exists = TRUE
        /\ new.root_late_complement = l
    BY <2>4 DEF Row
  <2> QED
    BY <1>2, <2>3, <2>5, <2>6
<1>3. CASE e.node # "request" /\ read.judged
  BY <1>3 DEF merge_trace_state
<1>4. CASE e.node # "request" /\ ~read.judged
  <2>1. PICK f \in BOOLEAN : f = (read.llm_fact_ok \/ e.node = "llm_call")
    BY DEF Row
  <2>2. PICK E \in SUBSET EventTypes :
            E = IF e.status = "error" THEN read.entries \cup {e.etype} ELSE read.entries
    BY <1>1 DEF Row
  <2>3. new = [read EXCEPT !.exists = TRUE, !.due = FALSE, !.llm_fact_ok = f, !.entries = E]
    BY <1>4, <2>1, <2>2 DEF merge_trace_state
  <2>4. new \in Row
    BY <2>3 DEF Row
  <2>5. /\ new.judged = read.judged /\ new.processed = read.processed
        /\ new.candidates = read.candidates /\ new.exists = TRUE
        /\ new.root_late_complement = read.root_late_complement
    BY <2>3 DEF Row
  <2> QED
    BY <2>4, <2>5
<1> QED
  BY <1>2, <1>3, <1>4

\* The columns an event writes over a row that may have been judged and processed
\* since it was read.
LEMMA WrittenRow ==
    ASSUME NEW current \in Row, NEW read \in Row, NEW e \in Events,
           InOrder(current), Since(read, current),
           read.root_late_complement = current.root_late_complement,
           NEW new, new = merge_trace_state(read, e),
           NEW row, row = Written(current, read, new)
    PROVE  /\ row \in Row /\ InOrder(row) /\ Since(current, row)
           /\ row.processed = current.processed
           /\ row.root_late_complement = new.root_late_complement
           /\ current.root_late_complement => row.root_late_complement
<1>1. /\ new \in Row
      /\ new.judged = read.judged /\ new.processed = read.processed
      /\ new.candidates = read.candidates
      /\ new.exists \/ read.judged
      /\ read.exists => new.exists
      /\ read.root_late_complement => new.root_late_complement
      /\ new.root_late_complement => read.root_late_complement \/ read.judged
  BY MergedState
<1>2. row \in Row
  BY <1>1 DEF Written, Row
<1>3. {"exists", "judged", "processed", "root_late_complement"} \subseteq DOMAIN current
  BY DEF Row
<1>4. /\ row["exists"] = IF new["exists"] # read["exists"] THEN new["exists"] ELSE current["exists"]
      /\ row["judged"] = IF new["judged"] # read["judged"] THEN new["judged"] ELSE current["judged"]
      /\ row["processed"] = IF new["processed"] # read["processed"] THEN new["processed"]
                            ELSE current["processed"]
      /\ row["root_late_complement"] =
             IF new["root_late_complement"] # read["root_late_complement"]
             THEN new["root_late_complement"] ELSE current["root_late_complement"]
  BY <1>3 DEF Written
<1>5. /\ row.judged = current.judged /\ row.processed = current.processed
      /\ row.root_late_complement = new.root_late_complement
      /\ row.exists = IF new.exists # read.exists THEN new.exists ELSE current.exists
  BY <1>1, <1>4
<1>6. /\ read.exists \in BOOLEAN /\ new.exists \in BOOLEAN /\ current.exists \in BOOLEAN
      /\ read.judged \in BOOLEAN /\ current.judged \in BOOLEAN
      /\ read.root_late_complement \in BOOLEAN /\ new.root_late_complement \in BOOLEAN
      /\ current.root_late_complement \in BOOLEAN /\ current.processed \in BOOLEAN
  BY <1>1 DEF Row
<1>7. row.exists
  BY <1>1, <1>5, <1>6 DEF Since, InOrder
<1>8. InOrder(row)
  BY <1>1, <1>5, <1>6, <1>7 DEF InOrder, Since
<1> QED
  BY <1>1, <1>2, <1>5, <1>6, <1>7, <1>8 DEF Since

\* A merge counts a trace once more for the way by which it came, and opens a
\* generation within the bound.
LEMMA MergeStep ==
    ASSUME Typed, NEW seen \in [Types -> ClusterRow], NEW trace \in Traces,
           NEW E \in SUBSET Types, NEW reopen \in BOOLEAN, NEW by \in {"job", "late"},
           merge_candidates(seen, trace, E, reopen, by)
    PROVE  /\ clusters' \in [Types -> ClusterRow]
           /\ merges' \in [Traces \X Types \X {"job", "late"} -> Nat]
           /\ \A m \in DOMAIN merges :
                  \/ merges'[m] = merges[m]
                  \/ m[1] = trace /\ m[3] = by /\ merges'[m] = merges[m] + 1
<1>1. ASSUME NEW e \in Types PROVE clusters'[e] \in ClusterRow
  <2>1. /\ clusters[e] \in ClusterRow /\ seen[e] \in ClusterRow
        /\ seen[e].generation \in Nat /\ seen[e].count \in Nat
    BY TraceAssumption DEF Typed, ClusterRow
  <2>2. e \in E /\ Opens(seen, e, reopen) => seen[e].generation + 1 \in 0 .. MaxGeneration
    BY <2>1, TraceAssumption DEF merge_candidates
  <2>3. clusters'[e] =
           IF e \in E /\ Opens(seen, e, reopen)
           THEN [generation |-> seen[e].generation + 1, status |-> "open", count |-> 1]
           ELSE IF e \in E /\ Counts(seen, e)
           THEN [clusters[e] EXCEPT !.count = seen[e].count + 1]
           ELSE clusters[e]
    BY DEF merge_candidates
  <2> QED
    BY <2>1, <2>2, <2>3 DEF ClusterRow
<1>2. clusters' \in [Types -> ClusterRow]
  BY <1>1 DEF merge_candidates
<1>3. merges \in [Traces \X Types \X {"job", "late"} -> Nat]
  BY DEF Typed
<1>4. merges' = [m \in DOMAIN merges |->
           IF m[1] = trace /\ m[2] \in E /\ m[3] = by
                  /\ (Opens(seen, m[2], reopen) \/ seen[m[2]].status = "open")
           THEN merges[m] + 1 ELSE merges[m]]
  BY DEF merge_candidates
<1> QED
  BY <1>2, <1>3, <1>4

-----------------------------------------------------------------------------
(***************************************************************************)
(* What a step must show.                                                  *)
(***************************************************************************)
LEMMA Reads ==
    ASSUME Inv, \A t \in Traces : InOrder(rows'[t]) /\ Since(rows[t], rows'[t]),
           consumer'.tx.open =>
               /\ consumer'.tx = consumer.tx
               /\ \A t \in Traces : rows'[t].root_late_complement = rows[t].root_late_complement,
           \A w \in Workers : jobs'[w] = jobs[w] \/ ~jobs'[w].open
    PROVE  Ordered' /\ ConsumerReads' /\ JobReads'
<1>1. Ordered'
  BY DEF Ordered
<1>2. ConsumerReads'
  BY DEF Inv, ConsumerReads, Since
<1>3. JobReads'
  <2> SUFFICES ASSUME NEW w \in Workers, jobs'[w].open, NEW t \in jobs'[w].trace
               PROVE  rows'[t].exists /\ (w \in ClusterWorkers => rows'[t].judged)
    BY DEF JobReads
  <2>1. jobs'[w] = jobs[w] /\ jobs[w].open /\ t \in jobs[w].trace
    OBVIOUS
  <2>2. t \in Traces
    BY <2>1 DEF Inv, Typed, Transaction
  <2> QED
    BY <2>1, <2>2 DEF Inv, JobReads, Since
<1> QED
  BY <1>1, <1>2, <1>3

LEMMA Marks ==
    ASSUME Inv, UNCHANGED merges,
           \A t \in Traces : /\ rows[t].processed => rows'[t].processed
                             /\ rows[t].root_late_complement => rows'[t].root_late_complement
    PROVE  Marked' /\ MergedOncePerSource'
<1>1. Marked'
  BY DEF Inv, Marked
<1>2. MergedOncePerSource'
  BY DEF Inv, MergedOncePerSource
<1> QED
  BY <1>1, <1>2

LEMMA Closed ==
    /\ Idle \in Transaction /\ ~Idle.open
    /\ \A S \in SUBSET Traces : [open |-> TRUE, trace |-> S, read |-> Tables].read = Tables
<1>1. Idle \in Transaction
  BY DEF Idle, Transaction
<1> QED
  BY <1>1 DEF Idle

LEMMA Snap == ASSUME Typed PROVE Tables \in Snapshot
BY DEF Typed, Tables, Snapshot

\* A row that is unchanged.
LEMMA SameRow ==
    ASSUME Inv, NEW t \in Traces
    PROVE  rows[t] \in Row /\ InOrder(rows[t]) /\ Since(rows[t], rows[t])
BY DEF Inv, Typed, Ordered, Since

-----------------------------------------------------------------------------
(***************************************************************************)
(* The consumer.                                                           *)
(***************************************************************************)

\* Steps of the consumer that write no table.
LEMMA ConsumerStep ==
    ASSUME Inv, consumer' \in Consumer, consumer'.tx = Idle,
           UNCHANGED <<rows, clusters, jobs, merges>>
    PROVE  Inv'
<1>1. ~consumer'.tx.open
  BY Closed
<1>2. Typed'
  BY <1>1, Closed DEF Inv, Typed
<1>3. Ordered' /\ ConsumerReads' /\ JobReads'
  BY <1>1, SameRow, Reads
<1>4. Marked' /\ MergedOncePerSource'
  BY Marks
<1> QED
  BY <1>2, <1>3, <1>4 DEF Inv

LEMMA ConsumerUpdate ==
    ASSUME Typed, NEW tx \in Transaction, NEW applied \in BOOLEAN
    PROVE  /\ [consumer EXCEPT !.tx = tx] \in Consumer
           /\ [consumer EXCEPT !.tx = tx].tx = tx
           /\ [consumer EXCEPT !.applied = applied, !.tx = tx] \in Consumer
           /\ [consumer EXCEPT !.applied = applied, !.tx = tx].tx = tx
BY DEF Typed, Consumer

LEMMA StepPoll == ASSUME Inv, NEW t \in Traces, NEW e \in Events, Poll(t, e) PROVE Inv'
<1>1. /\ consumer' = [busy |-> TRUE, applied |-> FALSE, event |-> {<<t, e>>}, tx |-> Idle]
      /\ {<<t, e>>} \in SUBSET (Traces \X Events)
      /\ UNCHANGED <<rows, clusters, jobs, merges>>
  BY DEF Poll
<1>2. consumer' \in Consumer /\ consumer'.tx = Idle
  BY <1>1, Closed DEF Consumer
<1> QED
  BY <1>1, <1>2, ConsumerStep

LEMMA StepRetry ==
    ASSUME Inv, RetryEvent \/ CommitOffset \/ Redeliver PROVE Inv'
<1>1. UNCHANGED <<rows, clusters, jobs, merges>>
  BY DEF RetryEvent, CommitOffset, Redeliver
<1>2. \/ consumer' = [consumer EXCEPT !.tx = Idle]
      \/ consumer' = [busy |-> FALSE, applied |-> FALSE, event |-> {}, tx |-> Idle]
      \/ consumer' = [consumer EXCEPT !.applied = FALSE, !.tx = Idle]
  BY DEF RetryEvent, CommitOffset, Redeliver
<1>3. /\ [busy |-> FALSE, applied |-> FALSE, event |-> {}, tx |-> Idle] \in Consumer
      /\ [busy |-> FALSE, applied |-> FALSE, event |-> {}, tx |-> Idle].tx = Idle
  BY Closed DEF Consumer
<1>4. consumer' \in Consumer /\ consumer'.tx = Idle
  BY <1>2, <1>3, Closed, ConsumerUpdate DEF Inv
<1> QED
  BY <1>1, <1>4, ConsumerStep

LEMMA StepGetRow == ASSUME Inv, _get_row PROVE Inv'
<1>1. PICK tx : tx = [open |-> TRUE, trace |-> {}, read |-> Tables]
  OBVIOUS
<1>2. /\ consumer' = [consumer EXCEPT !.tx = tx]
      /\ UNCHANGED <<rows, clusters, jobs, merges>>
  BY <1>1 DEF _get_row
<1>3. tx \in Transaction /\ tx.read = Tables /\ tx.read \in Snapshot
  BY <1>1, Snap DEF Transaction, Inv
<1>4. Typed'
  BY <1>2, <1>3, ConsumerUpdate DEF Inv, Typed
<1>5. consumer'.tx.read.rows = rows
  <2>1. tx.read.rows = rows
    BY <1>3 DEF Tables
  <2>2. consumer'.tx = tx
    BY <1>2, <1>3, ConsumerUpdate DEF Inv
  <2> QED
    BY <2>1, <2>2
<1>6. Ordered' /\ ConsumerReads' /\ JobReads'
  BY <1>2, <1>5 DEF Inv, Ordered, ConsumerReads, JobReads, Since
<1>7. Marked' /\ MergedOncePerSource'
  BY <1>2, Marks
<1> QED
  BY <1>4, <1>6, <1>7 DEF Inv

\* The event is written over the row as it is now; a late root is merged when the
\* bit is set, and the bit is set once.
LEMMA StepApply == ASSUME Inv, apply_event PROVE Inv'
<1>1. PICK te \in consumer.event :
         LET new == merge_trace_state(consumer.tx.read.rows[te[1]], te[2])
         IN  /\ rows' = IF Affects(te[2])
                        THEN [rows EXCEPT ![te[1]] =
                                 Written(@, consumer.tx.read.rows[te[1]], new)]
                        ELSE rows
             /\ IF IsLate(consumer.tx.read.rows[te[1]], new) /\ new.input
                THEN merge_candidates(consumer.tx.read.clusters, te[1],
                                      root_late_decision(new), FALSE, "late")
                ELSE UNCHANGED <<clusters, merges>>
  BY DEF apply_event
<1>2. /\ consumer.tx.open /\ UNCHANGED jobs
      /\ consumer' \in Consumer /\ consumer'.tx = Idle
  BY Closed, ConsumerUpdate DEF apply_event, Inv
<1>3. PICK t \in Traces, e \in Events : te = <<t, e>> /\ te[1] = t /\ te[2] = e
  BY <1>1 DEF Inv, Typed, Consumer
<1>4. PICK read : read = consumer.tx.read.rows[t]
  OBVIOUS
<1>5. /\ read \in Row /\ Since(read, rows[t]) /\ rows[t] \in Row /\ InOrder(rows[t])
      /\ read.root_late_complement = rows[t].root_late_complement
      /\ consumer.tx.read.clusters \in [Types -> ClusterRow]
  BY <1>2, <1>4, SameRow DEF Inv, Typed, Snapshot, ConsumerReads
<1>6. PICK new : new = merge_trace_state(read, e)
  OBVIOUS
<1>7. PICK row : row = Written(rows[t], read, new)
  OBVIOUS
<1>8. /\ row \in Row /\ InOrder(row) /\ Since(rows[t], row)
      /\ row.processed = rows[t].processed
      /\ row.root_late_complement = new.root_late_complement
      /\ rows[t].root_late_complement => row.root_late_complement
  BY <1>5, <1>6, <1>7, WrittenRow
<1>9. /\ rows' = IF Affects(e) THEN [rows EXCEPT ![t] = row] ELSE rows
      /\ IF IsLate(read, new) /\ new.input
         THEN merge_candidates(consumer.tx.read.clusters, t, root_late_decision(new),
                               FALSE, "late")
         ELSE UNCHANGED <<clusters, merges>>
  BY <1>1, <1>3, <1>4, <1>6, <1>7
<1>10. /\ rows' \in [Traces -> Row]
       /\ \A x \in Traces : InOrder(rows'[x]) /\ Since(rows[x], rows'[x])
       /\ \A x \in Traces : /\ rows[x].processed => rows'[x].processed
                            /\ rows[x].root_late_complement => rows'[x].root_late_complement
  BY <1>8, <1>9, SameRow DEF Inv, Typed
<1>11. /\ clusters' \in [Types -> ClusterRow]
       /\ merges' \in [Traces \X Types \X {"job", "late"} -> Nat]
       /\ \A m \in DOMAIN merges :
              \/ merges'[m] = merges[m]
              \/ /\ m[1] = t /\ m[3] = "late" /\ merges'[m] = merges[m] + 1
                 /\ IsLate(read, new)
  <2>1. CASE IsLate(read, new) /\ new.input
    BY <1>5, <1>9, <2>1, Candidates, MergeStep DEF Inv
  <2>2. CASE ~(IsLate(read, new) /\ new.input)
    BY <1>9, <2>2 DEF Inv, Typed
  <2> QED
    BY <2>1, <2>2
<1>12. Typed'
  BY <1>2, <1>10, <1>11, Closed DEF Inv, Typed
<1>13. Ordered' /\ ConsumerReads' /\ JobReads'
  <2>1. ~consumer'.tx.open
    BY <1>2, Closed
  <2> QED
    BY <1>2, <1>10, <2>1, Reads
<1>14. IsLate(read, new) => ~rows[t].root_late_complement /\ rows'[t].root_late_complement
  <2> SUFFICES ASSUME IsLate(read, new)
               PROVE  ~rows[t].root_late_complement /\ rows'[t].root_late_complement
    OBVIOUS
  <2>1. new.root_late_complement /\ ~read.root_late_complement
    BY DEF IsLate
  <2>2. e.node = "request"
    BY <1>5, <1>6, <2>1, MergedState
  <2> QED
    BY <1>5, <1>8, <1>9, <2>1, <2>2 DEF Affects, Inv, Typed
<1>15. Marked' /\ MergedOncePerSource'
  <2>1. DOMAIN merges = Traces \X Types \X {"job", "late"} /\ DOMAIN merges' = DOMAIN merges
    BY <1>11 DEF Inv, Typed
  <2>2. ASSUME NEW x \in Traces, NEW y \in Types, NEW by \in {"job", "late"},
               merges'[<<x, y, by>>] # merges[<<x, y, by>>]
        PROVE  /\ x = t /\ by = "late" /\ rows'[t].root_late_complement
               /\ merges[<<x, y, by>>] = 0 /\ merges'[<<x, y, by>>] = 1
    <3>1. x = t /\ by = "late" /\ IsLate(read, new)
          /\ merges'[<<x, y, by>>] = merges[<<x, y, by>>] + 1
      BY <1>11, <2>1, <2>2
    <3>2. ~(merges[<<x, y, by>>] > 0) /\ merges[<<x, y, by>>] \in Nat
      BY <1>14, <2>1, <3>1 DEF Inv, Marked, Typed
    <3> QED
      BY <1>14, <3>1, <3>2
  <2>3. Marked'
    BY <1>10, <2>2 DEF Inv, Marked
  <2>4. ASSUME NEW m \in DOMAIN merges PROVE merges'[m] <= 1
    <3>1. PICK x \in Traces, y \in Types, by \in {"job", "late"} : m = <<x, y, by>>
      BY <2>1
    <3>2. merges[m] <= 1
      BY DEF Inv, MergedOncePerSource
    <3>3. CASE merges'[m] = merges[m]
      BY <3>2, <3>3
    <3>4. CASE merges'[m] # merges[m]
      <4>1. merges'[m] = 1
        BY <2>2, <3>1, <3>4
      <4> QED
        BY <4>1
    <3> QED
      BY <3>3, <3>4
  <2>5. MergedOncePerSource'
    BY <2>1, <2>4 DEF MergedOncePerSource
  <2> QED
    BY <2>3, <2>5
<1> QED
  BY <1>12, <1>13, <1>15 DEF Inv

-----------------------------------------------------------------------------
(***************************************************************************)
(* The worker processes.                                                   *)
(***************************************************************************)
LEMMA StepExpire == ASSUME Inv, NEW x \in Traces, Expire(x) PROVE Inv'
<1>1. PICK row : row = [rows[x] EXCEPT !.due = TRUE]
  OBVIOUS
<1>2. /\ rows[x].exists /\ rows' = [rows EXCEPT ![x] = row]
      /\ UNCHANGED <<clusters, consumer, jobs, merges>>
  BY <1>1 DEF Expire
<1>3. /\ row \in Row /\ InOrder(row) /\ Since(rows[x], row)
      /\ row.processed = rows[x].processed
      /\ row.root_late_complement = rows[x].root_late_complement
  BY <1>1, <1>2, SameRow DEF Row, InOrder, Since
<1>4. /\ rows' \in [Traces -> Row]
      /\ \A t \in Traces : /\ InOrder(rows'[t]) /\ Since(rows[t], rows'[t])
                           /\ rows'[t].processed = rows[t].processed
                           /\ rows'[t].root_late_complement = rows[t].root_late_complement
  BY <1>2, <1>3, SameRow DEF Inv, Typed
<1>5. Typed'
  BY <1>2, <1>4 DEF Inv, Typed
<1>6. Ordered' /\ ConsumerReads' /\ JobReads'
  BY <1>2, <1>4, Reads
<1>7. Marked' /\ MergedOncePerSource'
  BY <1>2, <1>4, Marks
<1> QED
  BY <1>5, <1>6, <1>7 DEF Inv

\* A worker begins with rows that are judged, or exist to be judged.
LEMMA BeginStep ==
    ASSUME Inv, NEW w \in Workers, NEW taken \in SUBSET Traces, Begin(w, taken),
           \A t \in taken : rows[t].exists /\ (w \in ClusterWorkers => rows[t].judged)
    PROVE  Inv'
<1>1. PICK tx : tx = [open |-> TRUE, trace |-> taken, read |-> Tables]
  OBVIOUS
<1>2. /\ jobs' = [jobs EXCEPT ![w] = tx]
      /\ UNCHANGED <<rows, clusters, consumer, merges>>
  BY <1>1 DEF Begin
<1>3. tx \in Transaction /\ tx.read \in Snapshot /\ tx.trace = taken
  BY <1>1, Snap DEF Transaction, Inv
<1>4. /\ jobs' \in [Workers -> Transaction]
      /\ \A v \in Workers : jobs'[v] = IF v = w THEN tx ELSE jobs[v]
  BY <1>2, <1>3 DEF Inv, Typed
<1>5. Typed'
  BY <1>2, <1>3, <1>4 DEF Inv, Typed
<1>6. JobReads'
  <2> SUFFICES ASSUME NEW v \in Workers, jobs'[v].open, NEW t \in jobs'[v].trace
               PROVE  rows[t].exists /\ (v \in ClusterWorkers => rows[t].judged)
    BY <1>2 DEF JobReads
  <2>1. CASE v = w
    BY <1>3, <1>4, <2>1
  <2>2. CASE v # w
    BY <1>4, <2>2 DEF Inv, JobReads
  <2> QED
    BY <2>1, <2>2
<1>7. Ordered' /\ ConsumerReads'
  BY <1>2 DEF Inv, Ordered, ConsumerReads
<1>8. Marked' /\ MergedOncePerSource'
  BY <1>2, Marks
<1> QED
  BY <1>5, <1>6, <1>7, <1>8 DEF Inv

LEMMA StepRead ==
    ASSUME Inv, \/ \E w \in JudgeWorkers : read_judge_scan(w)
                \/ \E w \in ClusterWorkers : read_cluster_job(w)
    PROVE  Inv'
<1>1. ASSUME NEW w \in JudgeWorkers, read_judge_scan(w) PROVE Inv'
  <2>1. w \in Workers /\ w \notin ClusterWorkers
    BY TraceAssumption DEF Workers
  <2>2. ToJudge(rows) \in SUBSET Traces /\ \A t \in ToJudge(rows) : rows[t].exists
    BY DEF ToJudge, Inv, Ordered, InOrder
  <2> QED
    BY <1>1, <2>1, <2>2, BeginStep DEF read_judge_scan
<1>2. ASSUME NEW w \in ClusterWorkers, read_cluster_job(w) PROVE Inv'
  <2>1. PICK t \in Traces : rows[t].judged /\ Begin(w, {t})
    BY <1>2 DEF read_cluster_job, ToCluster
  <2>2. w \in Workers /\ rows[t].exists
    BY <2>1 DEF Workers, Inv, Ordered, InOrder
  <2> QED
    BY <2>1, <2>2, BeginStep
<1> QED
  BY <1>1, <1>2

LEMMA Finished ==
    ASSUME Inv, NEW w \in Workers, Finish(w)
    PROVE  /\ jobs' \in [Workers -> Transaction]
           /\ \A v \in Workers : jobs'[v] = jobs[v] \/ ~jobs'[v].open
           /\ \A v \in Workers : jobs'[v].open => jobs'[v].read \in Snapshot
BY Closed DEF Inv, Typed, Finish

\* A worker whose transaction ends without a write.
LEMMA StepNothing ==
    ASSUME Inv, NEW w \in Workers, RollBack(w) \/ CrashJob(w) PROVE Inv'
<1>1. Finish(w) /\ UNCHANGED <<rows, clusters, consumer, merges>>
  BY DEF RollBack, CrashJob
<1>2. Typed'
  BY <1>1, Finished DEF Inv, Typed
<1>3. Ordered' /\ ConsumerReads' /\ JobReads'
  BY <1>1, Finished, SameRow, Reads
<1>4. Marked' /\ MergedOncePerSource'
  BY <1>1, Marks
<1> QED
  BY <1>2, <1>3, <1>4 DEF Inv

\* A row is judged when it exists: it was due when it was read.
LEMMA StepJudge == ASSUME Inv, NEW w \in JudgeWorkers, judge_scan(w) PROVE Inv'
<1>1. w \in Workers /\ jobs[w].open /\ Finish(w) /\ UNCHANGED <<clusters, consumer, merges>>
  BY DEF Workers, judge_scan
<1>2. ASSUME NEW t \in Traces
      PROVE  /\ rows'[t] \in Row /\ InOrder(rows'[t]) /\ Since(rows[t], rows'[t])
             /\ rows'[t].processed = rows[t].processed
             /\ rows'[t].root_late_complement = rows[t].root_late_complement
  <2>1. rows'[t] = IF t \in jobs[w].trace /\ ~rows[t].judged THEN Judge(w, t) ELSE rows[t]
    BY DEF judge_scan
  <2>2. CASE t \in jobs[w].trace /\ ~rows[t].judged
    <3>1. PICK C \in SUBSET Types : C = _collect_candidates(jobs[w].read.rows[t])
      BY Candidates
    <3>2. rows'[t] = [rows[t] EXCEPT !.judged = TRUE, !.candidates = C]
      BY <2>1, <2>2, <3>1 DEF Judge
    <3>3. rows[t].exists
      BY <1>1, <2>2 DEF Inv, JobReads
    <3>4. /\ rows'[t] \in Row /\ rows'[t].judged = TRUE /\ rows'[t].exists = rows[t].exists
          /\ rows'[t].due = rows[t].due
          /\ rows'[t].processed = rows[t].processed
          /\ rows'[t].root_late_complement = rows[t].root_late_complement
      BY <3>2, SameRow DEF Row
    <3> QED
      BY <3>3, <3>4 DEF InOrder, Since
  <2>3. CASE ~(t \in jobs[w].trace /\ ~rows[t].judged)
    BY <2>1, <2>3, SameRow
  <2> QED
    BY <2>2, <2>3
<1>3. rows' \in [Traces -> Row]
  BY <1>2 DEF judge_scan
<1>4. Typed'
  BY <1>1, <1>3, Finished DEF Inv, Typed
<1>5. Ordered' /\ ConsumerReads' /\ JobReads'
  BY <1>1, <1>2, Finished, Reads
<1>6. Marked' /\ MergedOncePerSource'
  BY <1>1, <1>2, Marks
<1> QED
  BY <1>4, <1>5, <1>6 DEF Inv

\* The row was not processed when the merge is committed, so no merge of it was.
LEMMA StepCluster == ASSUME Inv, NEW w \in ClusterWorkers, cluster_job(w) PROVE Inv'
<1>1. PICK t \in jobs[w].trace : /\ ~rows[t].processed /\ _merge_row(w, t)
                                 /\ rows' = [rows EXCEPT ![t].processed = TRUE]
  BY DEF cluster_job
<1>2. w \in Workers /\ jobs[w].open /\ Finish(w) /\ UNCHANGED consumer
  BY DEF Workers, cluster_job
<1>3. t \in Traces /\ rows[t].judged /\ rows[t].exists
  BY <1>1, <1>2 DEF Inv, Typed, Transaction, JobReads
<1>4. PICK row : row = [rows[t] EXCEPT !.processed = TRUE]
  OBVIOUS
<1>5. /\ row \in Row /\ InOrder(row) /\ Since(rows[t], row) /\ row.processed = TRUE
      /\ row.root_late_complement = rows[t].root_late_complement
  BY <1>3, <1>4, SameRow DEF Row, InOrder, Since
<1>6. /\ rows' \in [Traces -> Row] /\ rows'[t] = row
      /\ \A x \in Traces : /\ InOrder(rows'[x]) /\ Since(rows[x], rows'[x])
                           /\ rows[x].processed => rows'[x].processed
                           /\ rows'[x].root_late_complement = rows[x].root_late_complement
  <2>1. rows' = [rows EXCEPT ![t] = row]
    BY <1>1, <1>4
  <2> QED
    BY <1>3, <1>5, <2>1, SameRow DEF Inv, Typed
<1>7. /\ clusters' \in [Types -> ClusterRow]
      /\ merges' \in [Traces \X Types \X {"job", "late"} -> Nat]
      /\ \A m \in DOMAIN merges :
             \/ merges'[m] = merges[m]
             \/ m[1] = t /\ m[3] = "job" /\ merges'[m] = merges[m] + 1
  <2>1. jobs[w].read.rows[t] \in Row /\ jobs[w].read.clusters \in [Types -> ClusterRow]
    BY <1>2, <1>3 DEF Inv, Typed, Snapshot
  <2>2. jobs[w].read.rows[t].candidates \in SUBSET Types
    BY <2>1 DEF Row
  <2>3. CASE jobs[w].read.rows[t].input
    BY <1>1, <1>3, <2>1, <2>2, <2>3, MergeStep DEF _merge_row, Inv
  <2>4. CASE ~jobs[w].read.rows[t].input
    BY <1>1, <2>4 DEF _merge_row, Inv, Typed
  <2> QED
    BY <2>3, <2>4
<1>8. Typed'
  BY <1>2, <1>6, <1>7, Finished DEF Inv, Typed
<1>9. Ordered' /\ ConsumerReads' /\ JobReads'
  BY <1>2, <1>6, Finished, Reads
<1>10. Marked' /\ MergedOncePerSource'
  <2>1. DOMAIN merges = Traces \X Types \X {"job", "late"} /\ DOMAIN merges' = DOMAIN merges
    BY <1>7 DEF Inv, Typed
  <2>2. ASSUME NEW x \in Traces, NEW y \in Types, NEW by \in {"job", "late"},
               merges'[<<x, y, by>>] # merges[<<x, y, by>>]
        PROVE  x = t /\ by = "job" /\ merges'[<<x, y, by>>] = 1
    <3>1. x = t /\ by = "job" /\ merges'[<<x, y, by>>] = merges[<<x, y, by>>] + 1
      BY <1>7, <2>1, <2>2
    <3>2. ~(merges[<<x, y, by>>] > 0) /\ merges[<<x, y, by>>] \in Nat
      BY <1>1, <2>1, <3>1 DEF Inv, Marked, Typed
    <3>3. merges[<<x, y, by>>] = 0
      BY <3>2
    <3> QED
      BY <3>1, <3>3
  <2>3. Marked'
    BY <1>5, <1>6, <2>2 DEF Inv, Marked
  <2>4. ASSUME NEW m \in DOMAIN merges PROVE merges'[m] <= 1
    <3>1. PICK x \in Traces, y \in Types, by \in {"job", "late"} : m = <<x, y, by>>
      BY <2>1
    <3>2. merges[m] <= 1
      BY DEF Inv, MergedOncePerSource
    <3>3. CASE merges'[m] = merges[m]
      BY <3>2, <3>3
    <3>4. CASE merges'[m] # merges[m]
      <4>1. merges'[m] = 1
        BY <2>2, <3>1, <3>4
      <4> QED
        BY <4>1
    <3> QED
      BY <3>3, <3>4
  <2>5. MergedOncePerSource'
    BY <2>1, <2>4 DEF MergedOncePerSource
  <2> QED
    BY <2>3, <2>5
<1> QED
  BY <1>8, <1>9, <1>10 DEF Inv

LEMMA StepClose == ASSUME Inv, NEW e \in Types, CloseCluster(e) PROVE Inv'
<1>1. clusters' = [clusters EXCEPT ![e].status = "fixed"] /\ UNCHANGED <<rows, consumer, jobs, merges>>
  BY DEF CloseCluster
<1>2. clusters' \in [Types -> ClusterRow]
  BY <1>1 DEF Inv, Typed, ClusterRow
<1>3. Typed'
  BY <1>1, <1>2 DEF Inv, Typed
<1>4. Ordered' /\ ConsumerReads' /\ JobReads'
  BY <1>1, SameRow, Reads
<1>5. Marked' /\ MergedOncePerSource'
  BY <1>1, Marks
<1> QED
  BY <1>3, <1>4, <1>5 DEF Inv

-----------------------------------------------------------------------------
(***************************************************************************)
(* The theorems.                                                           *)
(***************************************************************************)
LEMMA InitInv == Init => Inv
<1> SUFFICES ASSUME Init PROVE Inv
  OBVIOUS
<1>1. ASSUME NEW t \in Traces PROVE rows[t] \in Row /\ InOrder(rows[t])
  BY EmptyState DEF Init
<1>2. Typed
  <2>1. rows \in [Traces -> Row]
    BY <1>1 DEF Init
  <2>2. clusters \in [Types -> ClusterRow]
    BY TraceAssumption DEF Init, NoCluster, ClusterRow
  <2>3. consumer \in Consumer /\ ~consumer.tx.open
    BY Closed DEF Init, Consumer
  <2>4. jobs \in [Workers -> Transaction] /\ \A w \in Workers : ~jobs[w].open
    BY Closed DEF Init, Workers
  <2>5. merges \in [Traces \X Types \X {"job", "late"} -> Nat]
    BY DEF Init
  <2> QED
    BY <2>1, <2>2, <2>3, <2>4, <2>5 DEF Typed
<1>3. Ordered
  BY <1>1 DEF Ordered
<1>4. ConsumerReads /\ JobReads
  BY Closed DEF Init, ConsumerReads, JobReads, Workers
<1>5. \A m \in Traces \X Types \X {"job", "late"} : merges[m] = 0
  BY DEF Init
<1>6. Marked /\ MergedOncePerSource
  BY <1>5 DEF Init, Marked, MergedOncePerSource
<1> QED
  BY <1>2, <1>3, <1>4, <1>6 DEF Inv

LEMMA NextInv == Inv /\ [Next]_vars => Inv'
<1> SUFFICES ASSUME Inv, [Next]_vars PROVE Inv'
  OBVIOUS
<1>1. CASE \E t \in Traces, e \in Events : Poll(t, e)
  BY <1>1, StepPoll
<1>2. CASE _get_row
  BY <1>2, StepGetRow
<1>3. CASE apply_event
  BY <1>3, StepApply
<1>4. CASE RetryEvent \/ CommitOffset \/ Redeliver
  BY <1>4, StepRetry
<1>5. CASE \E t \in Traces : Expire(t)
  BY <1>5, StepExpire
<1>6. ASSUME NEW w \in JudgeWorkers, read_judge_scan(w) \/ judge_scan(w) \/ CrashJob(w)
      PROVE  Inv'
  BY <1>6, StepRead, StepJudge, StepNothing DEF Workers
<1>7. ASSUME NEW w \in ClusterWorkers,
             read_cluster_job(w) \/ cluster_job(w) \/ RollBack(w) \/ CrashJob(w)
      PROVE  Inv'
  BY <1>7, StepRead, StepCluster, StepNothing DEF Workers
<1>8. CASE \E e \in Types : CloseCluster(e)
  BY <1>8, StepClose
<1>9. CASE UNCHANGED vars
  <2>1. UNCHANGED <<rows, clusters, consumer, jobs, merges>>
    BY <1>9 DEF vars
  <2>2. Typed'
    BY <2>1 DEF Inv, Typed
  <2>3. Ordered' /\ ConsumerReads' /\ JobReads'
    BY <2>1 DEF Inv, Ordered, ConsumerReads, JobReads
  <2>4. Marked' /\ MergedOncePerSource'
    BY <2>1, Marks
  <2> QED
    BY <2>2, <2>3, <2>4 DEF Inv
<1> QED
  BY <1>1, <1>2, <1>3, <1>4, <1>5, <1>6, <1>7, <1>8, <1>9 DEF Next

LEMMA InvAlways == Spec => []Inv
BY InitInv, NextInv, PTL DEF Spec

\* The rows and clusters are well-formed: a row is processed after it was judged and
\* judged after it exists, although the consumer and two kinds of jobs write it from
\* what they read before.
THEOREM TypeCorrect == Spec => []TypeOK
<1>1. Inv => TypeOK
  <2> SUFFICES ASSUME Inv PROVE TypeOK
    OBVIOUS
  <2>1. \A t \in Traces : RowOK(rows[t])
    BY SameRow DEF Row, InOrder, RowOK
  <2>2. \A e \in Types : clusters[e] \in ClusterRow
    BY DEF Inv, Typed
  <2> QED
    BY <2>1, <2>2 DEF TypeOK, ClusterRow
<1> QED
  BY <1>1, InvAlways, PTL

\* A trace is counted at most once by cluster_job and once as a late root, for every
\* number of loops, redeliveries and crashes: the row carries the mark of its merge
\* from the same transaction on, and no other write takes it back.
THEOREM CountedOnce == Spec => []MergedOncePerSource
<1>1. Inv => MergedOncePerSource
  BY DEF Inv
<1> QED
  BY <1>1, InvAlways, PTL

\* A late root opens at most a first generation; a closed cluster is opened again by
\* cluster_job alone, whatever snapshot the consumer works on.
THEOREM LateKeepsClosed == Spec => LateNeverReopens
<1>1. Inv /\ [Next]_vars =>
          ((\E e \in Types : clusters[e].generation > 0
                             /\ clusters'[e].generation > clusters[e].generation)
              => consumer' = consumer)
  <2> SUFFICES ASSUME Inv, [Next]_vars, NEW e \in Types, clusters[e].generation > 0,
                      clusters'[e].generation > clusters[e].generation
               PROVE  consumer' = consumer
    OBVIOUS
  <2>1. clusters \in [Types -> ClusterRow] /\ clusters[e].generation \in Nat
    BY TraceAssumption DEF Inv, Typed, ClusterRow
  <2>2. ~ (clusters[e].generation > clusters[e].generation)
    BY <2>1
  <2>3. clusters' # clusters
    BY <2>2
  <2>4. ~apply_event
    <3> SUFFICES ASSUME apply_event PROVE FALSE
      OBVIOUS
    <3>1. PICK seen, t, E : merge_candidates(seen, t, E, FALSE, "late")
      BY <2>3 DEF apply_event
    <3>2. clusters'[e] =
             IF e \in E /\ Opens(seen, e, FALSE)
             THEN [generation |-> seen[e].generation + 1, status |-> "open", count |-> 1]
             ELSE IF e \in E /\ Counts(seen, e)
             THEN [clusters[e] EXCEPT !.count = seen[e].count + 1]
             ELSE clusters[e]
      BY <3>1 DEF merge_candidates
    <3>3. ~ (e \in E /\ Opens(seen, e, FALSE))
      <4> SUFFICES ASSUME e \in E, Opens(seen, e, FALSE) PROVE FALSE
        OBVIOUS
      <4>1. clusters[e].generation = seen[e].generation
        BY <3>1 DEF merge_candidates, Conflict
      <4>2. seen[e].generation = 0
        BY DEF Opens
      <4> QED
        BY <4>1, <4>2
    <3>4. clusters'[e].generation = clusters[e].generation
      BY <2>1, <3>2, <3>3 DEF ClusterRow
    <3> QED
      BY <2>2, <3>4
  <2> QED
    BY <2>3, <2>4 DEF Next, vars, Poll, _get_row, RetryEvent, CommitOffset, Redeliver, Expire,
         read_judge_scan, read_cluster_job, Begin, judge_scan, CrashJob, cluster_job, RollBack,
         CloseCluster
<1> QED
  BY <1>1, InvAlways, PTL DEF Spec, LateNeverReopens

=============================================================================
