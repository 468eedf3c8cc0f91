------------------------------ MODULE RaceProofs ------------------------------
(***************************************************************************)
(* Theorems about JudgeRace: what the unique keys and the conditions of    *)
(* the UPDATEs save although every transaction decides on a stale          *)
(* snapshot.  All but the last theorem never look at what was decided.     *)
(* They need only that the rows a transaction read are still there when it *)
(* writes, and still belong together (TxnsTyped): the tables grow, and a   *)
(* link keeps its cluster (Grows).  RacedFixedOnce looks at the decision:  *)
(* what it was made on is still true when it is written (VerdictsBacked).  *)
(***************************************************************************)
EXTENDS JudgeRace, BackflowProofs

\* The rows a transaction holds on to.
TxnTyped(p, on, link) ==
    /\ p \in Pushes =>
           /\ on \in DOMAIN runs
           /\ link \in DOMAIN links \cup {ORPHAN_LINK_ID}
           /\ link # ORPHAN_LINK_ID => links[link].cluster = links[runs[on].link].cluster
    /\ p \in Assemblers => on \in DOMAIN clusters

TxnsTyped ==
    /\ DOMAIN txns = Processes
    /\ \A p \in Processes : txns[p].open => TxnTyped(p, txns[p].on, txns[p].link)

RaceInv == TypeInv /\ TxnsTyped

\* What a step may do to the transactions: all is as it was, or closed, or was just
\* opened, which changes nothing else, on rows that belong together.
TxnsMove ==
    /\ DOMAIN txns' = Processes
    /\ \A q \in Processes : txns'[q].open =>
           \/ txns'[q] = txns[q]
           \/ UNCHANGED vars /\ TxnTyped(q, txns'[q].on, txns'[q].link)

Grows ==
    /\ LinksKept
    /\ \A r \in DOMAIN runs : r \in DOMAIN runs' /\ runs'[r] = runs[r]
    /\ \A c \in DOMAIN clusters : c \in DOMAIN clusters'

-----------------------------------------------------------------------------
(***************************************************************************)
(* What the writes of a transaction do, whatever it decided.               *)
(***************************************************************************)
LEMMA ApplySettles ==
    ASSUME TypeOK, NEW verdict, apply_verdict(verdict)
    PROVE  \E passed : Settles(passed)
<1>1. CASE UNCHANGED <<clusters, links, conv, batches>>
  BY <1>1, NothingSettled
<1>2. CASE _apply_terminal(Passed(verdict), Failed(verdict))
  BY <1>2, TerminalSettles
<1> QED
  BY <1>1, <1>2 DEF apply_verdict

LEMMA PushSettles ==
    ASSUME TypeOK, NEW p, NEW judged, Push(p, judged)
    PROVE  \E passed : Settles(passed)
<1>1. CASE judged
  <2>1. apply_verdict(txns[p].verdict)
    BY <1>1 DEF Push
  <2> QED
    BY <2>1, ApplySettles
<1>2. CASE ~judged
  BY <1>2, NothingSettled DEF Push
<1> QED
  BY <1>1, <1>2

\* The table of links with a pending link of c at its end.
LEMMA InsertedLink ==
    ASSUME TypeOK, NEW c \in DOMAIN clusters, InsertLink(c)
    PROVE  LET new == Len(links) + 1
           IN  /\ links' \in Seq(LinkRow)
               /\ DOMAIN links' = DOMAIN links \cup {new} /\ new \notin DOMAIN links
               /\ \A l \in DOMAIN links : links'[l] = links[l]
               /\ links'[new].cluster = c /\ links'[new].verify = "pending"
<1> DEFINE row == [cluster |-> c, offline |-> "assembled", reason |-> "none",
                   case |-> FALSE, verify |-> "pending", requeues |-> 0]
<1>1. links \in Seq(LinkRow) /\ c \in Nat
  BY RowTypes DEF TypeOK
<1>2. links' = Append(links, row) /\ row \in LinkRow /\ row.cluster = c /\ row.verify = "pending"
  BY <1>1 DEF InsertLink, LinkRow
<1> HIDE DEF row
<1> QED
  BY <1>1, <1>2, AppendRow

\* The archive with the record of p's run at its end.
LEMMA PushedRecord ==
    ASSUME TypeOK, NEW p \in Pushes, TxnTyped(p, txns[p].on, txns[p].link),
           NEW judged, Push(p, judged)
    PROVE  LET new == Len(records) + 1
           IN  /\ records' \in Seq(RecordRow)
               /\ DOMAIN records' = DOMAIN records \cup {new} /\ new \notin DOMAIN records
               /\ \A i \in DOMAIN records : records'[i] = records[i]
               /\ records'[new].link = txns[p].link
               /\ records'[new].cluster = ClusterOfRun(txns[p].on)
               /\ records'[new].run = txns[p].on
<1> DEFINE row == [link |-> txns[p].link, cluster |-> ClusterOfRun(txns[p].on),
                   run |-> txns[p].on]
<1>1. records \in Seq(RecordRow)
  BY DEF TypeOK
<1>2. /\ txns[p].on \in Nat /\ txns[p].link \in Nat /\ ClusterOfRun(txns[p].on) \in Nat
  BY RowTypes DEF TxnTyped, ClusterOfRun, ORPHAN_LINK_ID
<1>3. /\ records' = Append(records, row) /\ row \in RecordRow
      /\ row.link = txns[p].link /\ row.cluster = ClusterOfRun(txns[p].on)
      /\ row.run = txns[p].on
  BY <1>2 DEF Push, RecordRow
<1> HIDE DEF row
<1> QED
  BY <1>1, <1>3, AppendRow

-----------------------------------------------------------------------------
(***************************************************************************)
(* The tables grow.                                                        *)
(***************************************************************************)
LEMMA GrowsUntouched ==
    ASSUME Untouched, \A r \in DOMAIN runs : r \in DOMAIN runs' /\ runs'[r] = runs[r]
    PROVE  Grows
BY DEF Untouched, Grows, LinksKept

LEMMA GrowsSettled ==
    ASSUME NEW passed, Settles(passed), UNCHANGED runs
    PROVE  Grows
BY DEF Settles, Grows, LinksKept

LEMMA GrowsInsert ==
    ASSUME TypeOK, NEW c \in DOMAIN clusters, InsertLink(c)
    PROVE  Grows
<1>1. \A l \in DOMAIN links : l \in DOMAIN links' /\ links'[l] = links[l]
  BY InsertedLink
<1> QED
  BY <1>1 DEF Grows, LinksKept, InsertLink

LEMMA GrowsMerge ==
    ASSUME TypeInv, NEW key \in Keys, NEW o \in Occurrences,
           merge_candidate(key, o.snapshot, o.truncated, TRUE)
    PROVE  Grows
<1>0. TypeOK
  BY DEF TypeInv
<1>1. CASE _apply_count(key, o.snapshot, o.truncated)
  <2>1. UNCHANGED runs
    BY <1>1 DEF _apply_count
  <2> QED
    BY <1>0, <1>1, <2>1, CountUntouched, GrowsUntouched
<1>2. CASE _open_cluster(key, o.snapshot, o.truncated, TRUE)
  <2> DEFINE row == [key |-> key, generation |-> NextGeneration(key), status |-> "open",
                     snapshot |-> o.snapshot, truncated |-> o.truncated]
  <2>1. clusters' = Append(clusters, row) /\ UNCHANGED <<links, runs>>
    BY <1>2 DEF _open_cluster
  <2>2. NextGeneration(key) \in Nat
    BY <1>0, NextGenerationAbove, RowTypes DEF TypeInv
  <2>3. row \in ClusterRow /\ clusters \in Seq(ClusterRow)
    BY <1>0, <2>2, OccurrenceFields DEF ClusterRow, TypeOK
  <2> HIDE DEF row
  <2>4. \A c \in DOMAIN clusters : c \in DOMAIN clusters'
    BY <2>1, <2>3, AppendRow
  <2> QED
    BY <2>1, <2>4 DEF Grows, LinksKept
<1> QED
  BY <1>1, <1>2 DEF merge_candidate

LEMMA GrowsRun ==
    ASSUME TypeInv, TypeInv', NEW l \in DOMAIN links, NEW v \in Versions, NEW o \in Outcomes,
           OfflineRun(l, v, o)
    PROVE  Grows
<1> DEFINE row == [link |-> l, ver |-> v, prev |-> LastVersion(AgentOfLink(l)),
                   pf |-> o.pf, na |-> o.na]
<1>1. /\ runs' = Append(runs, row) /\ UNCHANGED <<clusters, links>>
  BY DEF OfflineRun
<1>2. runs \in Seq(RunRow) /\ runs' \in Seq(RunRow) /\ DOMAIN runs = 1 .. Len(runs)
      /\ Len(runs) \in Nat
  BY RowTypes DEF TypeInv, TypeOK
<1> HIDE DEF row
<1>3. /\ Len(runs') = Len(runs) + 1 /\ DOMAIN runs' = 1 .. Len(runs')
      /\ \A r \in 1 .. Len(runs) : runs'[r] = runs[r]
  BY <1>1, <1>2, LenProperties
<1> QED
  BY <1>1, <1>2, <1>3 DEF Grows, LinksKept

-----------------------------------------------------------------------------
(***************************************************************************)
(* Types.                                                                  *)
(***************************************************************************)
LEMMA TypeInsert ==
    ASSUME TypeInv, NEW c \in DOMAIN clusters, InsertLink(c)
    PROVE  TypeInv'
<1>1. TypeOK
  BY DEF TypeInv
<1>2. /\ links' \in Seq(LinkRow)
      /\ DOMAIN links' = DOMAIN links \cup {Len(links) + 1}
      /\ \A l \in DOMAIN links : links'[l] = links[l]
      /\ links'[Len(links) + 1].cluster = c
  BY <1>1, InsertedLink
<1> QED
  BY <1>1, <1>2 DEF TypeInv, TypeOK, GenerationBound, InsertLink

LEMMA TypePush ==
    ASSUME TypeInv, NEW p \in Pushes, TxnTyped(p, txns[p].on, txns[p].link),
           NEW judged, Push(p, judged)
    PROVE  TypeInv'
<1>1. TypeOK /\ UNCHANGED runs
  BY DEF TypeInv, Push
<1>2. PICK passed : Settles(passed)
  BY <1>1, PushSettles
<1>3. /\ txns[p].on \in DOMAIN runs /\ txns[p].link \in DOMAIN links \cup {ORPHAN_LINK_ID}
      /\ ClusterOfRun(txns[p].on) \in DOMAIN clusters
  BY <1>1, RowTypes DEF TxnTyped, ClusterOfRun
<1>4. /\ records' \in Seq(RecordRow)
      /\ DOMAIN records' = DOMAIN records \cup {Len(records) + 1}
      /\ \A i \in DOMAIN records : records'[i] = records[i]
      /\ records'[Len(records) + 1].link = txns[p].link
      /\ records'[Len(records) + 1].cluster = ClusterOfRun(txns[p].on)
      /\ records'[Len(records) + 1].run = txns[p].on
  BY <1>1, PushedRecord
<1>5. \A i \in DOMAIN records' :
          /\ records'[i].link \in DOMAIN links \cup {ORPHAN_LINK_ID}
          /\ records'[i].cluster \in DOMAIN clusters
          /\ records'[i].run \in DOMAIN runs
  BY <1>1, <1>3, <1>4 DEF TypeOK
<1> QED
  BY <1>1, <1>2, <1>4, <1>5 DEF TypeInv, TypeOK, GenerationBound, Settles, ORPHAN_LINK_ID

LEMMA TypeSettled ==
    ASSUME TypeInv, NEW passed, Settles(passed), UNCHANGED <<records, runs>>
    PROVE  TypeInv'
BY DEF TypeInv, TypeOK, GenerationBound, Settles

\* Everything but the push keeps the archive, and everything but the pushes, the
\* loops and their snapshots is a step of Backflow.
LEMMA RaceCases ==
    ASSUME RaceInv, [RaceNext]_raceVars
    PROVE  \/ UNCHANGED vars
           \/ \E p \in Pushes, judged \in BOOLEAN :
                  /\ txns[p].open /\ TxnTyped(p, txns[p].on, txns[p].link)
                  /\ ~Recorded(ClusterOfRun(txns[p].on), txns[p].on)
                  /\ Push(p, judged)
           \/ \E p \in Rejudgers :
                  txns[p].open /\ apply_verdict(txns[p].verdict) /\ UNCHANGED <<records, runs>>
           \/ \E c \in DOMAIN clusters : PendingLinks(c) = {} /\ InsertLink(c)
           \/ \E key \in Keys, o \in Occurrences :
                  merge_candidate(key, o.snapshot, o.truncated, TRUE)
           \/ \E l \in DOMAIN links : apply_ack(l, "active", TRUE, "manual_invalidate")
           \/ \E l \in DOMAIN links, v \in Versions, o \in Outcomes : OfflineRun(l, v, o)
<1>1. ASSUME NEW p \in Processes, Rollback(p) PROVE UNCHANGED vars
  BY <1>1 DEF Rollback
<1>2. ASSUME NEW p \in Pushes, NEW r \in DOMAIN runs, PushBegin(p, r) PROVE UNCHANGED vars
  BY <1>2 DEF PushBegin, Open
<1>3. ASSUME NEW p \in Pushes, NEW judged \in BOOLEAN, PushCommit(p, judged)
      PROVE  /\ txns[p].open /\ TxnTyped(p, txns[p].on, txns[p].link)
             /\ ~Recorded(ClusterOfRun(txns[p].on), txns[p].on)
             /\ Push(p, judged)
  BY <1>3 DEF PushCommit, Close, RaceInv, TxnsTyped, Processes
<1>4. ASSUME NEW p \in Rejudgers, NEW l \in DOMAIN links, RejudgeBegin(p, l)
      PROVE  UNCHANGED vars
  BY <1>4 DEF RejudgeBegin, Open
<1>5. ASSUME NEW p \in Rejudgers, RejudgeCommit(p)
      PROVE  txns[p].open /\ apply_verdict(txns[p].verdict) /\ UNCHANGED <<records, runs>>
  BY <1>5 DEF RejudgeCommit, Close
<1>6. ASSUME NEW p \in Assemblers, NEW c \in DOMAIN clusters, AssembleBegin(p, c)
      PROVE  UNCHANGED vars
  BY <1>6 DEF AssembleBegin, Open
<1>7. ASSUME NEW p \in Assemblers, AssembleCommit(p)
      PROVE  \E c \in DOMAIN clusters : PendingLinks(c) = {} /\ InsertLink(c)
  <2>1. txns[p].on \in DOMAIN clusters
    BY <1>7 DEF AssembleCommit, Close, RaceInv, TxnsTyped, TxnTyped, Processes
  <2> QED
    BY <1>7, <2>1 DEF AssembleCommit
<1>8. CASE UNCHANGED raceVars
  BY <1>8 DEF raceVars
<1> QED
  BY <1>1, <1>2, <1>3, <1>4, <1>5, <1>6, <1>7, <1>8 DEF RaceNext

LEMMA RaceTypes ==
    ASSUME RaceInv, [RaceNext]_raceVars
    PROVE  TypeInv' /\ Grows
<1>0. TypeInv /\ TypeOK
  BY DEF RaceInv, TypeInv
<1>1. CASE UNCHANGED vars
  BY <1>0, <1>1 DEF vars, TypeInv, TypeOK, GenerationBound, Grows, LinksKept
<1>2. ASSUME NEW p \in Pushes, NEW judged \in BOOLEAN,
             TxnTyped(p, txns[p].on, txns[p].link), Push(p, judged)
      PROVE  TypeInv' /\ Grows
  <2>1. UNCHANGED runs
    BY <1>2 DEF Push
  <2> QED
    BY <1>0, <1>2, <2>1, TypePush, PushSettles, GrowsSettled
<1>3. ASSUME NEW p \in Rejudgers, apply_verdict(txns[p].verdict), UNCHANGED <<records, runs>>
      PROVE  TypeInv' /\ Grows
  <2>1. PICK passed : Settles(passed)
    BY <1>0, <1>3, ApplySettles
  <2> QED
    BY <1>0, <1>3, <2>1, TypeSettled, GrowsSettled
<1>4. ASSUME NEW c \in DOMAIN clusters, InsertLink(c) PROVE TypeInv' /\ Grows
  BY <1>0, <1>4, TypeInsert, GrowsInsert
<1>5. ASSUME NEW key \in Keys, NEW o \in Occurrences,
             merge_candidate(key, o.snapshot, o.truncated, TRUE)
      PROVE  TypeInv' /\ Grows
  BY <1>0, <1>5, OccurrenceFields, TypeCount, TypeOpen, GrowsMerge DEF merge_candidate
<1>6. ASSUME NEW l \in DOMAIN links, apply_ack(l, "active", TRUE, "manual_invalidate")
      PROVE  TypeInv' /\ Grows
  <2>1. "manual_invalidate" \in REASON_CODES /\ UNCHANGED runs
    BY <1>6 DEF REASON_CODES, apply_ack
  <2> QED
    BY <1>0, <1>6, <2>1, TypeAck, AckUntouched, GrowsUntouched
<1>7. ASSUME NEW l \in DOMAIN links, NEW v \in Versions, NEW o \in Outcomes, OfflineRun(l, v, o)
      PROVE  TypeInv' /\ Grows
  BY <1>0, <1>7, TypeRun, GrowsRun
<1> QED
  BY <1>1, <1>2, <1>3, <1>4, <1>5, <1>6, <1>7, RaceCases

LEMMA TxnsTypedNext ==
    ASSUME RaceInv, [RaceNext]_raceVars
    PROVE  TxnsTyped'
<1>1. Grows /\ TypeOK /\ TxnsTyped
  BY RaceTypes DEF RaceInv, TypeInv
<1>2. TxnsMove
  <2>1. ASSUME UNCHANGED txns PROVE TxnsMove
    BY <1>1, <2>1 DEF TxnsTyped, TxnsMove
  <2>2. ASSUME NEW p \in Processes, Close(p) PROVE TxnsMove
    BY <1>1, <2>2 DEF TxnsTyped, TxnsMove, Close, Idle
  <2>3. ASSUME NEW p \in Processes, NEW on, NEW link, NEW verdict,
               Open(p, on, link, verdict), TxnTyped(p, on, link)
        PROVE  TxnsMove
    BY <1>1, <2>3 DEF TxnsTyped, TxnsMove, Open
  <2>4. ASSUME NEW p \in Pushes, NEW r \in DOMAIN runs, PushBegin(p, r) PROVE TxnsMove
    <3>1. PICK link, verdict : Open(p, r, link, verdict) /\ link = _find_current_link(ClusterOfRun(r))
      BY <2>4 DEF PushBegin
    <3>2. TxnTyped(p, r, link)
      BY <3>1, CurrentLink, RaceAssumption DEF TxnTyped, PendingLinks, ClusterOfRun, ORPHAN_LINK_ID
    <3> QED
      BY <2>3, <3>1, <3>2 DEF Processes
  <2>5. ASSUME NEW p \in Rejudgers, NEW l \in DOMAIN links, RejudgeBegin(p, l) PROVE TxnsMove
    <3>1. PICK on, verdict : Open(p, on, l, verdict)
      BY <2>5 DEF RejudgeBegin
    <3>2. TxnTyped(p, on, l)
      BY RaceAssumption DEF TxnTyped
    <3> QED
      BY <2>3, <3>1, <3>2 DEF Processes
  <2>6. ASSUME NEW p \in Assemblers, NEW c \in DOMAIN clusters, AssembleBegin(p, c) PROVE TxnsMove
    <3>1. Open(p, c, ORPHAN_LINK_ID, Undecided)
      BY <2>6 DEF AssembleBegin
    <3>2. TxnTyped(p, c, ORPHAN_LINK_ID)
      BY RaceAssumption DEF TxnTyped
    <3> QED
      BY <2>3, <3>1, <3>2 DEF Processes
  <2> QED
    BY <2>1, <2>2, <2>4, <2>5, <2>6
    DEF RaceNext, raceVars, Rollback, PushCommit, RejudgeCommit, AssembleCommit, Processes
<1>3. ASSUME NEW q \in Processes, txns'[q].open
      PROVE  TxnTyped(q, txns[q].on, txns[q].link)'
  <2>1. CASE txns'[q] = txns[q]
    <3>1. TxnTyped(q, txns[q].on, txns[q].link)
      BY <1>1, <1>3, <2>1 DEF TxnsTyped
    <3>2. CASE q \in Pushes
      <4>1. runs[txns[q].on].link \in DOMAIN links
        BY <1>1, <3>1, <3>2, RowTypes DEF TxnTyped
      <4> QED
        BY <1>1, <2>1, <3>1, <3>2, <4>1, RaceAssumption DEF TxnTyped, Grows, LinksKept
    <3>3. CASE q \notin Pushes
      BY <1>1, <2>1, <3>1, <3>3 DEF TxnTyped, Grows
    <3> QED
      BY <3>2, <3>3
  <2>2. CASE UNCHANGED vars /\ TxnTyped(q, txns'[q].on, txns'[q].link)
    BY <2>2 DEF TxnTyped, vars
  <2> QED
    BY <1>2, <1>3, <2>1, <2>2 DEF TxnsMove
<1> QED
  BY <1>2, <1>3 DEF TxnsMove, TxnsTyped

LEMMA RaceInvariant == RaceSpec => []RaceInv
<1>1. RaceInit => RaceInv
  BY TypeInit DEF RaceInit, RaceInv, TxnsTyped, Idle
<1>2. RaceInv /\ [RaceNext]_raceVars => RaceInv'
  BY RaceTypes, TxnsTypedNext DEF RaceInv
<1> QED
  BY <1>1, <1>2, PTL DEF RaceSpec

\* Whatever is read from stale snapshots, every table keeps its columns and every
\* reference finds its row.
THEOREM RacedTypes == RaceSpec => []TypeOK
<1>1. RaceInv => TypeOK
  BY DEF RaceInv, TypeInv
<1> QED
  BY <1>1, RaceInvariant, PTL

-----------------------------------------------------------------------------
(***************************************************************************)
(* uk_link_current: a cluster has one pending link, however many loops     *)
(* found it without one.                                                   *)
(***************************************************************************)

\* Links that stay, and are no more pending than before.
NoneMorePending ==
    /\ DOMAIN links' = DOMAIN links
    /\ \A l \in DOMAIN links :
           /\ links'[l].cluster = links[l].cluster
           /\ links'[l].verify = "pending" => links[l].verify = "pending"

LEMMA OnePendingNext ==
    ASSUME RaceInv, OnePending, [RaceNext]_raceVars
    PROVE  OnePending'
<1>0. TypeOK
  BY DEF RaceInv, TypeInv
<1>1. ASSUME NoneMorePending PROVE OnePending'
  BY <1>1 DEF NoneMorePending, OnePending
<1>2. ASSUME NEW passed, Settles(passed) PROVE OnePending'
  BY <1>1, <1>2 DEF Settles, NoneMorePending
<1>3. ASSUME NEW c \in DOMAIN clusters, PendingLinks(c) = {}, InsertLink(c) PROVE OnePending'
  <2>1. PICK new : /\ DOMAIN links' = DOMAIN links \cup {new}
                   /\ \A l \in DOMAIN links : links'[l] = links[l]
                   /\ links'[new].cluster = c
    BY <1>0, <1>3, InsertedLink
  <2>2. \A l \in DOMAIN links : ~(links[l].cluster = c /\ links[l].verify = "pending")
    BY <1>3 DEF PendingLinks
  <2> QED
    BY <2>1, <2>2 DEF OnePending
<1>4. ASSUME UNCHANGED links PROVE OnePending'
  BY <1>4 DEF OnePending
<1>5. ASSUME NEW l \in DOMAIN links, apply_ack(l, "active", TRUE, "manual_invalidate")
      PROVE  OnePending'
  <2>1. "manual_invalidate" \in REASON_CODES
    BY DEF REASON_CODES
  <2>2. Untouched
    BY <1>0, <1>5, <2>1, AckUntouched
  <2> QED
    BY <1>1, <2>2 DEF Untouched, NoneMorePending
<1> QED
  BY <1>0, <1>2, <1>3, <1>4, <1>5, RaceCases, PushSettles, ApplySettles
  DEF vars, merge_candidate, _apply_count, _open_cluster, OfflineRun

\* Two loops, or a loop and a judgement, never leave a cluster with two links on
\* test.
THEOREM RacedOnePending == RaceSpec => []OnePending
<1>1. RaceInit => OnePending
  <2>1. DOMAIN <<>> = {}
    OBVIOUS
  <2> QED
    BY <2>1 DEF RaceInit, Init, OnePending
<1>2. RaceInv /\ OnePending /\ [RaceNext]_raceVars => OnePending'
  BY OnePendingNext
<1> QED
  BY <1>1, <1>2, RaceInvariant, PTL DEF RaceSpec

-----------------------------------------------------------------------------
(***************************************************************************)
(* uk_verify_run: a run is archived once for its cluster.                  *)
(***************************************************************************)
LEMMA RacedRecordNext ==
    ASSUME RaceInv, RecordsOncePerRun, [RaceNext]_raceVars
    PROVE  RecordsOncePerRun'
<1>0. TypeOK /\ LinksKept
  BY RaceTypes DEF RaceInv, TypeInv, Grows
<1>1. ASSUME UNCHANGED records PROVE RecordsOncePerRun'
  <2>1. \A i \in DOMAIN records : records[i].link \in DOMAIN links \cup {ORPHAN_LINK_ID}
    BY <1>0 DEF TypeOK
  <2> QED
    BY <1>0, <1>1, <2>1 DEF RecordsOncePerRun, LinksKept, ORPHAN_LINK_ID
<1>2. ASSUME NEW p \in Pushes, NEW judged \in BOOLEAN,
             TxnTyped(p, txns[p].on, txns[p].link),
             ~Recorded(ClusterOfRun(txns[p].on), txns[p].on), Push(p, judged)
      PROVE  RecordsOncePerRun'
  <2>1. PICK new :
            /\ DOMAIN records' = DOMAIN records \cup {new} /\ new \notin DOMAIN records
            /\ \A i \in DOMAIN records : records'[i] = records[i]
            /\ records'[new].link = txns[p].link
            /\ records'[new].cluster = ClusterOfRun(txns[p].on)
            /\ records'[new].run = txns[p].on
    BY <1>0, <1>2, PushedRecord
  <2>2. \A i \in DOMAIN records :
            ~(records[i].cluster = ClusterOfRun(txns[p].on) /\ records[i].run = txns[p].on)
    BY <1>2 DEF Recorded
  <2>3. \A i, j \in DOMAIN records' :
            records'[i].cluster = records'[j].cluster /\ records'[i].run = records'[j].run => i = j
    BY <2>1, <2>2 DEF RecordsOncePerRun
  <2>4. ASSUME NEW i \in DOMAIN records', records'[i].link # ORPHAN_LINK_ID
        PROVE  links'[records'[i].link].cluster = records'[i].cluster
    <3>1. CASE i = new
      BY <1>0, <1>2, <2>1, <2>4, <3>1 DEF TxnTyped, ClusterOfRun, LinksKept
    <3>2. CASE i \in DOMAIN records
      <4>1. records[i].link \in DOMAIN links
        BY <1>0, <2>1, <2>4, <3>2 DEF TypeOK
      <4> QED
        BY <1>0, <2>1, <2>4, <3>2, <4>1 DEF RecordsOncePerRun, LinksKept
    <3> QED
      BY <2>1, <2>4, <3>1, <3>2
  <2> QED
    BY <2>3, <2>4 DEF RecordsOncePerRun, ORPHAN_LINK_ID
<1> QED
  BY <1>1, <1>2, RaceCases
  DEF vars, InsertLink, merge_candidate, _apply_count, _open_cluster, apply_ack, OfflineRun

\* Two pushes of a run that both found no record of it archive it once, under a
\* link of its cluster.
THEOREM RacedArchive == RaceSpec => []RecordsOncePerRun
<1>1. RaceInit => RecordsOncePerRun
  <2>1. DOMAIN <<>> = {}
    OBVIOUS
  <2> QED
    BY <2>1 DEF RaceInit, Init, RecordsOncePerRun
<1>2. RaceInv /\ RecordsOncePerRun /\ [RaceNext]_raceVars => RecordsOncePerRun'
  BY RacedRecordNext
<1> QED
  BY <1>1, <1>2, RaceInvariant, PTL DEF RaceSpec

-----------------------------------------------------------------------------
(***************************************************************************)
(* The conditional updates: verdicts are final.                            *)
(***************************************************************************)
Final ==
    /\ \A l \in DOMAIN links :
           links[l].verify # "pending" => links'[l].verify = links[l].verify
    /\ \A c \in DOMAIN clusters :
           clusters[c].status = "fixed" => clusters'[c].status = "fixed"

LEMMA FinalNext ==
    ASSUME RaceInv, [RaceNext]_raceVars
    PROVE  Final
<1>0. TypeInv /\ TypeOK
  BY DEF RaceInv, TypeInv
<1>1. ASSUME Untouched PROVE Final
  BY <1>1 DEF Untouched, Final
<1>2. ASSUME NEW passed, Settles(passed) PROVE Final
  BY <1>2 DEF Settles, Final
<1>3. ASSUME NEW c \in DOMAIN clusters, InsertLink(c) PROVE Final
  <2>1. \A l \in DOMAIN links : links'[l] = links[l]
    BY <1>0, <1>3, InsertedLink
  <2> QED
    BY <1>3, <2>1 DEF InsertLink, Final
<1>4. ASSUME NEW key \in Keys, NEW o \in Occurrences,
             merge_candidate(key, o.snapshot, o.truncated, TRUE)
      PROVE  Final
  <2>1. CASE _apply_count(key, o.snapshot, o.truncated)
    BY <1>0, <1>1, <2>1, CountUntouched
  <2>2. CASE _open_cluster(key, o.snapshot, o.truncated, TRUE)
    <3>1. PICK row : clusters' = Append(clusters, row) /\ UNCHANGED links
      BY <2>2 DEF _open_cluster
    <3>2. clusters' \in Seq(ClusterRow) /\ clusters \in Seq(ClusterRow)
      BY <1>0, RaceTypes DEF TypeInv, TypeOK
    <3>3. \A c \in DOMAIN clusters : clusters'[c] = clusters[c]
      BY <3>1, <3>2, LenProperties
    <3> QED
      BY <3>1, <3>3 DEF Final
  <2> QED
    BY <1>4, <2>1, <2>2 DEF merge_candidate
<1>5. ASSUME NEW l \in DOMAIN links, apply_ack(l, "active", TRUE, "manual_invalidate")
      PROVE  Final
  <2>1. "manual_invalidate" \in REASON_CODES
    BY DEF REASON_CODES
  <2> QED
    BY <1>0, <1>1, <1>5, <2>1, AckUntouched
<1>6. ASSUME UNCHANGED <<clusters, links>> PROVE Final
  BY <1>6 DEF Final
<1> QED
  BY <1>0, <1>2, <1>3, <1>4, <1>5, <1>6, RaceCases, PushSettles, ApplySettles
  DEF vars, OfflineRun

\* No transaction overwrites a verdict it did not see: a link keeps the verdict it
\* left pending with, and a fixed cluster stays fixed.
THEOREM VerdictsStand == RaceSpec => VerdictFinal
<1>1. RaceInv /\ [RaceNext]_raceVars => [Final]_raceVars
  BY FinalNext
<1>2. VerdictFinal <=> [][Final]_raceVars
  BY DEF VerdictFinal, Final
<1> QED
  BY <1>1, <1>2, RaceInvariant, PTL DEF RaceSpec

-----------------------------------------------------------------------------
(***************************************************************************)
(* A cluster is closed once, however many judgements saw it open.          *)
(***************************************************************************)
LEMMA AppliedOnce ==
    ASSUME TypeOK, ClosedOnce, NEW verdict, apply_verdict(verdict)
    PROVE  ClosedOnce'
<1>1. CASE UNCHANGED <<clusters, links, conv, batches>>
  BY <1>1 DEF ClosedOnce
<1>2. CASE /\ \A c \in Passed(verdict) : clusters[c].status = "open"
           /\ _apply_terminal(Passed(verdict), Failed(verdict))
  <2>1. /\ clusters' = [c \in DOMAIN clusters |->
                IF c \in Passed(verdict) THEN [clusters[c] EXCEPT !.status = "fixed"]
                ELSE clusters[c]]
        /\ conv' = [c \in DOMAIN conv |->
               [auto_fixed |-> conv[c].auto_fixed + (IF c \in Passed(verdict) THEN 1 ELSE 0),
                reopen |-> conv[c].reopen + (IF c \in Failed(verdict) THEN 1 ELSE 0)]]
    BY <1>2 DEF _apply_terminal, _apply_auto_fixed
  <2> SUFFICES ASSUME NEW c \in DOMAIN clusters
               PROVE  conv'[c].auto_fixed = (IF clusters'[c].status = "fixed" THEN 1 ELSE 0)
    BY <2>1 DEF ClosedOnce
  <2>2. /\ c \in DOMAIN conv /\ clusters[c] \in ClusterRow
        /\ conv[c].auto_fixed = (IF clusters[c].status = "fixed" THEN 1 ELSE 0)
    BY RowTypes DEF ClosedOnce
  <2>3. CASE c \in Passed(verdict)
    <3>1. conv[c].auto_fixed = 0
      BY <1>2, <2>2, <2>3
    <3>2. conv'[c].auto_fixed = 1
      BY <2>1, <2>2, <2>3, <3>1
    <3>3. clusters'[c].status = "fixed"
      BY <2>1, <2>2, <2>3 DEF ClusterRow
    <3> QED
      BY <3>2, <3>3
  <2>4. CASE c \notin Passed(verdict)
    BY <2>1, <2>2, <2>4
  <2> QED
    BY <2>3, <2>4
<1> QED
  BY <1>1, <1>2 DEF apply_verdict

LEMMA ClosedOnceNext ==
    ASSUME RaceInv, ClosedOnce, [RaceNext]_raceVars
    PROVE  ClosedOnce'
<1>0. TypeInv /\ TypeOK
  BY DEF RaceInv, TypeInv
<1>1. ASSUME UNCHANGED <<clusters, conv>> PROVE ClosedOnce'
  BY <1>1 DEF ClosedOnce
<1>2. ASSUME NEW p \in Pushes, NEW judged \in BOOLEAN, Push(p, judged) PROVE ClosedOnce'
  <2>1. CASE judged
    <3>1. apply_verdict(txns[p].verdict)
      BY <1>2, <2>1 DEF Push
    <3> QED
      BY <1>0, <3>1, AppliedOnce
  <2>2. CASE ~judged
    BY <1>1, <1>2, <2>2 DEF Push
  <2> QED
    BY <2>1, <2>2
<1>3. ASSUME NEW p \in Rejudgers, apply_verdict(txns[p].verdict) PROVE ClosedOnce'
  BY <1>0, <1>3, AppliedOnce
<1>4. ASSUME NEW key \in Keys, NEW o \in Occurrences,
             merge_candidate(key, o.snapshot, o.truncated, TRUE)
      PROVE  ClosedOnce'
  <2>1. CASE _apply_count(key, o.snapshot, o.truncated)
    <3>1. Untouched /\ UNCHANGED conv
      BY <1>0, <2>1, CountUntouched DEF _apply_count
    <3> QED
      BY <3>1 DEF Untouched, ClosedOnce
  <2>2. CASE _open_cluster(key, o.snapshot, o.truncated, TRUE)
    <3> DEFINE row == [key |-> key, generation |-> NextGeneration(key), status |-> "open",
                       snapshot |-> o.snapshot, truncated |-> o.truncated]
               audit == [auto_fixed |-> 0, reopen |-> 0]
    <3>1. /\ clusters' = Append(clusters, row) /\ conv' = Append(conv, audit)
          /\ row.status = "open" /\ audit.auto_fixed = 0 /\ audit \in ConvRow
      BY <2>2 DEF _open_cluster, ConvRow
    <3> HIDE DEF audit
    <3>2. NextGeneration(key) \in Nat
      BY <1>0, NextGenerationAbove, RowTypes
    <3>3. row \in ClusterRow
      BY <3>2, OccurrenceFields DEF ClusterRow
    <3> HIDE DEF row
    <3>4. /\ clusters \in Seq(ClusterRow) /\ conv \in Seq(ConvRow) /\ Len(conv) = Len(clusters)
      BY <1>0 DEF TypeOK
    <3>5. /\ DOMAIN clusters' = DOMAIN clusters \cup {Len(clusters) + 1}
          /\ \A c \in DOMAIN clusters : clusters'[c] = clusters[c]
          /\ clusters'[Len(clusters) + 1] = row
      BY <3>1, <3>3, <3>4, AppendRow
    <3>6. /\ \A c \in DOMAIN conv : conv'[c] = conv[c]
          /\ conv'[Len(clusters) + 1] = audit
      BY <3>1, <3>4, AppendRow
    <3>7. DOMAIN conv = DOMAIN clusters
      BY <1>0, RowTypes
    <3> QED
      BY <3>1, <3>5, <3>6, <3>7 DEF ClosedOnce
  <2> QED
    BY <1>4, <2>1, <2>2 DEF merge_candidate
<1> QED
  BY <1>1, <1>2, <1>3, <1>4, RaceCases DEF vars, InsertLink, apply_ack, OfflineRun

\* Two judgements that both pass a cluster close it, and say so in the audit, once.
THEOREM RacedClosedOnce == RaceSpec => []ClosedOnce
<1>1. RaceInit => ClosedOnce
  <2>1. DOMAIN <<>> = {}
    OBVIOUS
  <2> QED
    BY <2>1 DEF RaceInit, Init, ClosedOnce
<1>2. RaceInv /\ ClosedOnce /\ [RaceNext]_raceVars => ClosedOnce'
  BY ClosedOnceNext
<1> QED
  BY <1>1, <1>2, RaceInvariant, PTL DEF RaceSpec

-----------------------------------------------------------------------------
(***************************************************************************)
(* A cluster is closed on received passes, however stale the reading was   *)
(* that decided it.  What a transaction decided on stays true until it     *)
(* commits because results, runs and the clusters of links never change;   *)
(* the result that a push decided on is inserted when it commits.          *)
(***************************************************************************)

\* The versions of the pure passes received for l, those of more included.
PassedVersions(l, more) ==
    VersionsOf(runs, {s \in {records[i].run : i \in {j \in DOMAIN records : records[j].link = l}}
                              \cup more : runs[s].link = l /\ PurePass(s)})

Backed(l, more) == Cardinality(PassedVersions(l, more)) >= ClaimK

\* The evidence of the transaction t of process p, if it passed a cluster.
VerdictBacked(p, t) ==
    t.verdict.stop = "passed" =>
        /\ t.link \in DOMAIN links /\ links[t.link].cluster = t.verdict.cluster
        /\ Backed(t.link, IF p \in Pushes THEN {t.on} ELSE {})

VerdictsBacked == \A p \in Processes : txns[p].open => VerdictBacked(p, txns[p])

FixedBacked == \A c \in DOMAIN clusters : clusters[c].status = "fixed" =>
    \E l \in DOMAIN links : links[l].cluster = c /\ Backed(l, {})

BackedInv == RaceInv /\ VerdictsBacked /\ FixedBacked

\* verify_run_record grows under every interleaving.
ResultsKept == \A i \in DOMAIN records : i \in DOMAIN records' /\ records'[i] = records[i]

LEMMA RacedResultsKept ==
    ASSUME RaceInv, [RaceNext]_raceVars
    PROVE  ResultsKept
<1>0. TypeOK
  BY DEF RaceInv, TypeInv
<1>1. ASSUME UNCHANGED records PROVE ResultsKept
  BY <1>1 DEF ResultsKept
<1>2. ASSUME NEW p \in Pushes, NEW judged \in BOOLEAN,
             TxnTyped(p, txns[p].on, txns[p].link), Push(p, judged)
      PROVE  ResultsKept
  BY <1>0, <1>2, PushedRecord DEF ResultsKept
<1> QED
  BY <1>1, <1>2, RaceCases
  DEF vars, InsertLink, merge_candidate, _apply_count, _open_cluster, apply_ack, OfflineRun

LEMMA PassedVersionsFinite ==
    ASSUME TypeOK, NEW l, NEW more, more \subseteq DOMAIN runs
    PROVE  IsFiniteSet(PassedVersions(l, more)) /\ Cardinality(PassedVersions(l, more)) \in Nat
<1> DEFINE P == {s \in {records[i].run : i \in {j \in DOMAIN records : records[j].link = l}}
                           \cup more : runs[s].link = l /\ PurePass(s)}
<1>1. P \subseteq 1 .. Len(runs) /\ Len(runs) \in Nat
  BY RowTypes DEF TypeOK
<1>2. PassedVersions(l, more) = VersionsOf(runs, P)
  BY DEF PassedVersions
<1> HIDE DEF P
<1> QED
  BY <1>1, <1>2, VersionsFinite

\* Evidence is not lost, and does not have to be held on to once it is received.
LEMMA BackedStays ==
    ASSUME TypeOK, TypeOK', Grows, ResultsKept,
           NEW l, NEW more, NEW kept, more \subseteq DOMAIN runs, kept \subseteq DOMAIN runs,
           \A r \in more : r \in kept \/ \E i \in DOMAIN records' :
                                             records'[i].link = l /\ records'[i].run = r,
           Backed(l, more)
    PROVE  Backed(l, kept)'
<1>1. \A r \in DOMAIN runs : r \in DOMAIN runs' /\ runs'[r] = runs[r]
  BY DEF Grows
<1>2. \A i \in DOMAIN records : records[i].run \in DOMAIN runs
  BY DEF TypeOK
<1>3. ASSUME NEW v \in PassedVersions(l, more)
      PROVE  v \in PassedVersions(l, kept)'
  <2>1. PICK r : /\ r \in more \/ \E i \in DOMAIN records : records[i].link = l /\ records[i].run = r
                 /\ runs[r].link = l /\ PurePass(r) /\ v = runs[r].ver
    BY DEF PassedVersions, VersionsOf
  <2>2. r \in DOMAIN runs
    BY <1>2, <2>1
  <2>3. runs'[r] = runs[r]
    BY <1>1, <2>2
  <2>4. r \in kept \/ \E i \in DOMAIN records' : records'[i].link = l /\ records'[i].run = r
    BY <2>1 DEF ResultsKept
  <2>5. runs'[r].link = l /\ PurePass(r)' /\ v = runs'[r].ver
    BY <2>1, <2>3 DEF PurePass
  <2> QED
    BY <2>4, <2>5 DEF PassedVersions, VersionsOf
<1>4. PassedVersions(l, more) \subseteq PassedVersions(l, kept)'
  BY <1>3
<1>5. kept \subseteq DOMAIN runs'
  BY <1>1
<1>6. IsFiniteSet(PassedVersions(l, kept)') /\ Cardinality(PassedVersions(l, kept)') \in Nat
  <2> DEFINE P == {s \in {records'[i].run : i \in {j \in DOMAIN records' : records'[j].link = l}}
                             \cup kept : runs'[s].link = l /\ PurePass(s)'}
  <2>1. DOMAIN runs' = 1 .. Len(runs') /\ Len(runs') \in Nat
    BY LenProperties DEF TypeOK
  <2>2. P \subseteq 1 .. Len(runs')
    BY <1>5, <2>1 DEF TypeOK
  <2>3. PassedVersions(l, kept)' = VersionsOf(runs', P)
    BY DEF PassedVersions
  <2> HIDE DEF P
  <2> QED
    BY <2>1, <2>2, <2>3, VersionsFinite
<1>7. Cardinality(PassedVersions(l, more)) <= Cardinality(PassedVersions(l, kept)')
  BY <1>4, <1>6, FS_Subset
<1>8. Cardinality(PassedVersions(l, more)) \in Nat /\ ClaimK \in Nat
  BY PassedVersionsFinite, BackflowAssumption
<1> DEFINE a == Cardinality(PassedVersions(l, more))
           b == Cardinality(PassedVersions(l, kept)')
<1>9. a >= ClaimK /\ a <= b /\ a \in Nat /\ b \in Nat /\ ClaimK \in Nat
  BY <1>6, <1>7, <1>8 DEF Backed
<1>10. b >= ClaimK
  <2> HIDE DEF a, b
  <2> QED
    BY <1>9
<1> QED
  BY <1>10 DEF Backed

-----------------------------------------------------------------------------
(***************************************************************************)
(* What a transaction decides when it begins.                              *)
(***************************************************************************)
LEMMA PassIsBacked ==
    ASSUME TypeOK, NEW recs, Sound(recs), NEW l, NEW more,
           {recs[i].run : i \in {j \in DOMAIN recs : recs[j].link = l}}
               = {records[i].run : i \in {j \in DOMAIN records : records[j].link = l}} \cup more,
           Outcome(recs, l).stop = "passed"
    PROVE  Backed(l, more)
<1>1. Cardinality(VersionsOf(runs, PassesOf(recs, l))) >= ClaimK
  BY PassDecided
<1>2. PassedVersions(l, more) = VersionsOf(runs, PassesOf(recs, l))
  BY DEF PassedVersions, PassesOf
<1> QED
  BY <1>1, <1>2 DEF Backed

\* A push decides on the archive with its own result in it.
LEMMA PushVerdict ==
    ASSUME RaceInv, NEW p \in Pushes, NEW r \in DOMAIN runs, PushBegin(p, r)
    PROVE  UNCHANGED vars /\ VerdictBacked(p, txns'[p])
           /\ \A q \in Processes \ {p} : txns'[q] = txns[q]
<1> DEFINE c == ClusterOfRun(r)
           l == _find_current_link(c)
           row == [link |-> l, cluster |-> c, run |-> r]
           recs == Append(records, row)
           V == IF l # ORPHAN_LINK_ID /\ clusters[c].status = "open"
                THEN Decision(recs, l) ELSE Undecided
<1>0. TypeOK /\ DOMAIN txns = Processes /\ p \in Processes
  BY DEF RaceInv, TypeInv, TxnsTyped, Processes
<1>1. Open(p, r, l, V)
  BY DEF PushBegin
<1> HIDE DEF V
<1>2. /\ UNCHANGED vars
      /\ txns'[p].on = r /\ txns'[p].link = l /\ txns'[p].verdict = V
      /\ \A q \in Processes \ {p} : txns'[q] = txns[q]
  BY <1>0, <1>1 DEF Open
<1>3. ASSUME V.stop = "passed"
      PROVE  l \in DOMAIN links /\ links[l].cluster = V.cluster /\ Backed(l, {r})
  <2>1. l # ORPHAN_LINK_ID /\ V = Decision(recs, l)
    BY <1>3 DEF V, Undecided
  <2>2. l \in DOMAIN links
    BY <2>1, CurrentLink DEF PendingLinks
  <2>3. V.cluster = links[l].cluster /\ Outcome(recs, l).stop = "passed"
    BY <1>3, <2>1 DEF Decision
  <2>4. row \in RecordRow /\ row.link = l /\ row.run = r
    BY <1>0, <2>2, RowTypes DEF RecordRow, ClusterOfRun
  <2> HIDE DEF row
  <2>5. PICK new : new = Len(records) + 1
    OBVIOUS
  <2>6. /\ recs \in Seq(RecordRow) /\ DOMAIN recs = DOMAIN records \cup {new} /\ new \notin DOMAIN records
        /\ \A i \in DOMAIN records : recs[i] = records[i]
        /\ recs[new] = row
    <3>1. records \in Seq(RecordRow)
      BY <1>0 DEF TypeOK
    <3> QED
      BY <2>4, <2>5, <3>1, AppendRow
  <2> HIDE DEF recs, l
  <2>7. Sound(recs)
    <3>1. \A i \in DOMAIN records : records[i].run \in DOMAIN runs
      BY <1>0 DEF TypeOK
    <3> QED
      BY <2>4, <2>6, <3>1 DEF Sound
  <2>8. {recs[i].run : i \in {j \in DOMAIN recs : recs[j].link = l}}
            = {records[i].run : i \in {j \in DOMAIN records : records[j].link = l}} \cup {r}
    BY <2>4, <2>6
  <2> QED
    BY <1>0, <2>2, <2>3, <2>7, <2>8, PassIsBacked
<1> HIDE DEF l
<1> QED
  BY <1>2, <1>3 DEF VerdictBacked

\* A rejudge loop decides on the archive as it finds it.
LEMMA RejudgeVerdict ==
    ASSUME RaceInv, NEW p \in Rejudgers, NEW l \in DOMAIN links, RejudgeBegin(p, l)
    PROVE  UNCHANGED vars /\ VerdictBacked(p, txns'[p])
           /\ \A q \in Processes \ {p} : txns'[q] = txns[q]
<1> DEFINE V == Decision(records, l)
<1>0. TypeOK /\ DOMAIN txns = Processes /\ p \in Processes /\ p \notin Pushes
  BY RaceAssumption DEF RaceInv, TypeInv, TxnsTyped, Processes
<1>1. Open(p, links[l].cluster, l, V)
  BY DEF RejudgeBegin
<1>2. V.cluster = links[l].cluster /\ V.stop = Outcome(records, l).stop
  BY DEF Decision
<1> HIDE DEF V
<1>3. /\ UNCHANGED vars
      /\ txns'[p].link = l /\ txns'[p].verdict = V
      /\ \A q \in Processes \ {p} : txns'[q] = txns[q]
  BY <1>0, <1>1 DEF Open
<1>4. Sound(records)
  BY <1>0 DEF TypeOK, Sound
<1>5. V.stop = "passed" => Backed(l, {})
  <2> DEFINE received == {records[i].run : i \in {j \in DOMAIN records : records[j].link = l}}
  <2>1. received = received \cup {}
    <3> HIDE DEF received
    <3> QED
      OBVIOUS
  <2> QED
    BY <1>0, <1>2, <1>4, <2>1, PassIsBacked
<1> QED
  BY <1>0, <1>2, <1>3, <1>5 DEF VerdictBacked

\* Every open transaction is as it was or was just opened, on evidence.
VerdictsMove ==
    \A q \in Processes : txns'[q].open =>
        \/ txns'[q] = txns[q]
        \/ UNCHANGED vars /\ VerdictBacked(q, txns'[q])

LEMMA VerdictsAreMoved ==
    ASSUME RaceInv, [RaceNext]_raceVars
    PROVE  VerdictsMove
<1>0. DOMAIN txns = Processes
  BY DEF RaceInv, TxnsTyped
<1>1. ASSUME NEW p \in Processes, Close(p) PROVE VerdictsMove
  BY <1>0, <1>1 DEF Close, Idle, VerdictsMove
<1>2. ASSUME UNCHANGED txns PROVE VerdictsMove
  BY <1>2 DEF VerdictsMove
<1>3. ASSUME NEW p \in Pushes, NEW r \in DOMAIN runs, PushBegin(p, r) PROVE VerdictsMove
  BY <1>3, PushVerdict DEF VerdictsMove
<1>4. ASSUME NEW p \in Rejudgers, NEW l \in DOMAIN links, RejudgeBegin(p, l) PROVE VerdictsMove
  BY <1>4, RejudgeVerdict DEF VerdictsMove
<1>5. ASSUME NEW p \in Assemblers, NEW c \in DOMAIN clusters, AssembleBegin(p, c) PROVE VerdictsMove
  <2>1. UNCHANGED vars /\ txns'[p].verdict = Undecided /\ \A q \in Processes \ {p} : txns'[q] = txns[q]
    BY <1>0, <1>5 DEF AssembleBegin, Open, Processes
  <2> QED
    BY <2>1 DEF VerdictsMove, VerdictBacked, Undecided
<1> QED
  BY <1>1, <1>2, <1>3, <1>4, <1>5
  DEF RaceNext, raceVars, Rollback, PushCommit, RejudgeCommit, AssembleCommit, Processes

LEMMA VerdictsBackedNext ==
    ASSUME RaceInv, VerdictsBacked, [RaceNext]_raceVars
    PROVE  VerdictsBacked'
<1>0. TypeOK /\ TypeOK' /\ Grows /\ ResultsKept /\ VerdictsMove
  BY RaceTypes, RacedResultsKept, VerdictsAreMoved DEF RaceInv, TypeInv
<1> SUFFICES ASSUME NEW q \in Processes, txns'[q].open
             PROVE  VerdictBacked(q, txns[q])'
  BY DEF VerdictsBacked
<1>1. PICK t : t = txns'[q]
  OBVIOUS
<1>2. CASE t = txns[q]
  <2> SUFFICES ASSUME t.verdict.stop = "passed"
               PROVE  /\ t.link \in DOMAIN links' /\ links'[t.link].cluster = t.verdict.cluster
                      /\ Backed(t.link, IF q \in Pushes THEN {t.on} ELSE {})'
    BY <1>1 DEF VerdictBacked
  <2>1. PICK more : more = IF q \in Pushes THEN {t.on} ELSE {}
    OBVIOUS
  <2>2. /\ t.link \in DOMAIN links /\ links[t.link].cluster = t.verdict.cluster
        /\ Backed(t.link, more)
    BY <1>1, <1>2, <2>1 DEF VerdictsBacked, VerdictBacked
  <2>3. more \subseteq DOMAIN runs
    BY <1>1, <1>2, <2>1 DEF RaceInv, TxnsTyped, TxnTyped
  <2>4. Backed(t.link, more)'
    BY <1>0, <2>2, <2>3, BackedStays
  <2> QED
    BY <1>0, <2>1, <2>2, <2>4 DEF Grows, LinksKept
<1>3. CASE UNCHANGED vars /\ VerdictBacked(q, t)
  BY <1>1, <1>3 DEF vars, VerdictBacked, Backed, PassedVersions, PurePass
<1> QED
  BY <1>0, <1>1, <1>2, <1>3 DEF VerdictsMove

\* A cluster that is fixed was fixed before, or the transaction that just wrote its
\* verdict had passed it.
LEMMA WhoFixes ==
    ASSUME RaceInv, [RaceNext]_raceVars, NEW c \in DOMAIN clusters', clusters'[c].status = "fixed"
    PROVE  \/ c \in DOMAIN clusters /\ clusters[c].status = "fixed"
           \/ \E p \in Pushes, judged \in BOOLEAN :
                  txns[p].open /\ c \in Passed(txns[p].verdict) /\ Push(p, judged)
                      /\ TxnTyped(p, txns[p].on, txns[p].link)
           \/ \E p \in Rejudgers : txns[p].open /\ c \in Passed(txns[p].verdict)
<1>0. TypeInv /\ TypeOK
  BY DEF RaceInv, TypeInv
<1>1. ASSUME UNCHANGED clusters PROVE c \in DOMAIN clusters /\ clusters[c].status = "fixed"
  BY <1>1
<1>2. ASSUME NEW verdict, apply_verdict(verdict), c \notin Passed(verdict)
      PROVE  c \in DOMAIN clusters /\ clusters[c].status = "fixed"
  BY <1>2 DEF apply_verdict, _apply_terminal, _apply_auto_fixed
<1>3. ASSUME NEW p \in Pushes, NEW judged \in BOOLEAN, Push(p, judged), c \notin Passed(txns[p].verdict)
      PROVE  c \in DOMAIN clusters /\ clusters[c].status = "fixed"
  BY <1>2, <1>3 DEF Push
<1>4. ASSUME NEW key \in Keys, NEW o \in Occurrences,
             merge_candidate(key, o.snapshot, o.truncated, TRUE)
      PROVE  c \in DOMAIN clusters /\ clusters[c].status = "fixed"
  <2>1. CASE _apply_count(key, o.snapshot, o.truncated)
    <3>1. Untouched
      BY <1>0, <2>1, CountUntouched
    <3>2. DOMAIN clusters' = DOMAIN clusters
      BY <2>1 DEF _apply_count
    <3> QED
      BY <3>1, <3>2 DEF Untouched
  <2>2. CASE _open_cluster(key, o.snapshot, o.truncated, TRUE)
    <3>1. PICK row : row.status = "open" /\ clusters' = Append(clusters, row)
      BY <2>2 DEF _open_cluster
    <3>2. clusters \in Seq(ClusterRow) /\ Len(clusters) \in Nat /\ DOMAIN clusters = 1 .. Len(clusters)
      BY <1>0, RowTypes DEF TypeOK
    <3>3. /\ \A d \in DOMAIN clusters : clusters'[d] = clusters[d]
          /\ clusters'[Len(clusters) + 1] = row
          /\ c \in DOMAIN clusters \/ c = Len(clusters) + 1
      BY <3>1, <3>2
    <3> QED
      BY <3>1, <3>3
  <2> QED
    BY <1>4, <2>1, <2>2 DEF merge_candidate
<1> QED
  BY <1>1, <1>2, <1>3, <1>4, RaceCases DEF vars, InsertLink, apply_ack, OfflineRun

LEMMA FixedBackedNext ==
    ASSUME BackedInv, [RaceNext]_raceVars
    PROVE  FixedBacked'
<1>0. /\ RaceInv /\ VerdictsBacked /\ FixedBacked /\ TypeOK /\ TypeOK' /\ Grows /\ ResultsKept
      /\ {} \subseteq DOMAIN runs
  BY RaceTypes, RacedResultsKept DEF BackedInv, RaceInv, TypeInv
<1> SUFFICES ASSUME NEW c \in DOMAIN clusters', clusters'[c].status = "fixed"
             PROVE  \E l \in DOMAIN links' : links'[l].cluster = c /\ Backed(l, {})'
  BY DEF FixedBacked
<1>1. CASE c \in DOMAIN clusters /\ clusters[c].status = "fixed"
  <2>1. PICK l \in DOMAIN links : links[l].cluster = c /\ Backed(l, {})
    BY <1>0, <1>1 DEF FixedBacked
  <2>2. Backed(l, {})'
    BY <1>0, <2>1, BackedStays
  <2> QED
    BY <1>0, <2>1, <2>2 DEF Grows, LinksKept
<1>2. ASSUME NEW p \in Pushes, NEW judged, txns[p].open, c \in Passed(txns[p].verdict),
             Push(p, judged), TxnTyped(p, txns[p].on, txns[p].link)
      PROVE  \E l \in DOMAIN links' : links'[l].cluster = c /\ Backed(l, {})'
  <2>1. PICK t : t = txns[p]
    OBVIOUS
  <2>2. t.verdict.stop = "passed" /\ t.verdict.cluster = c
    BY <1>2, <2>1 DEF Passed
  <2>3. /\ t.link \in DOMAIN links /\ links[t.link].cluster = c
        /\ Backed(t.link, {t.on})
    BY <1>0, <1>2, <2>1, <2>2 DEF VerdictsBacked, VerdictBacked, Processes
  <2>4. t.on \in DOMAIN runs
    BY <1>2, <2>1 DEF TxnTyped
  <2>5. \E i \in DOMAIN records' : records'[i].link = t.link /\ records'[i].run = t.on
    BY <1>0, <1>2, <2>1, PushedRecord
  <2>6. Backed(t.link, {})'
    BY <1>0, <2>3, <2>4, <2>5, BackedStays
  <2> QED
    BY <1>0, <2>3, <2>6 DEF Grows, LinksKept
<1>3. ASSUME NEW p \in Rejudgers, txns[p].open, c \in Passed(txns[p].verdict)
      PROVE  \E l \in DOMAIN links' : links'[l].cluster = c /\ Backed(l, {})'
  <2>1. PICK t : t = txns[p]
    OBVIOUS
  <2>2. t.verdict.stop = "passed" /\ t.verdict.cluster = c
    BY <1>3, <2>1 DEF Passed
  <2>3. /\ t.link \in DOMAIN links /\ links[t.link].cluster = c
        /\ Backed(t.link, {})
    BY <1>0, <1>3, <2>1, <2>2, RaceAssumption DEF VerdictsBacked, VerdictBacked, Processes
  <2>4. Backed(t.link, {})'
    BY <1>0, <2>3, BackedStays
  <2> QED
    BY <1>0, <2>3, <2>4 DEF Grows, LinksKept
<1> QED
  BY <1>0, <1>1, <1>2, <1>3, WhoFixes

\* A cluster is closed once, and on K versions of received pure passes of the case of
\* one of its links, although every judgement decides on a snapshot that others have
\* written over.
THEOREM RacedFixedOnce == RaceSpec => []FixedOnce
<1>1. RaceInit => BackedInv
  <2> SUFFICES ASSUME RaceInit PROVE RaceInv /\ VerdictsBacked /\ FixedBacked
    BY DEF BackedInv
  <2>1. DOMAIN <<>> = {}
    OBVIOUS
  <2>2. RaceInv
    BY TypeInit DEF RaceInit, RaceInv, TxnsTyped, Idle
  <2> QED
    BY <2>1, <2>2 DEF RaceInit, Init, VerdictsBacked, FixedBacked, Idle
<1>2. BackedInv /\ [RaceNext]_raceVars => BackedInv'
  BY RaceTypes, TxnsTypedNext, VerdictsBackedNext, FixedBackedNext DEF BackedInv, RaceInv
<1>3. ClosedOnce /\ BackedInv => FixedOnce
  <2> SUFFICES ASSUME ClosedOnce, BackedInv, NEW c \in DOMAIN clusters, clusters[c].status = "fixed"
               PROVE  \E l \in DOMAIN links :
                          /\ links[l].cluster = c
                          /\ Cardinality({runs[r].ver : r \in ReceivedPasses(l)}) >= ClaimK
    BY DEF FixedOnce
  <2>1. PICK l \in DOMAIN links : links[l].cluster = c /\ Backed(l, {})
    BY DEF BackedInv, FixedBacked
  <2>2. PassedVersions(l, {}) = {runs[r].ver : r \in ReceivedPasses(l)}
    BY DEF PassedVersions, VersionsOf, ReceivedPasses
  <2> QED
    BY <2>1, <2>2 DEF Backed
<1>4. RaceSpec => []BackedInv
  BY <1>1, <1>2, PTL DEF RaceSpec
<1> QED
  BY <1>3, <1>4, RacedClosedOnce, PTL
=============================================================================
