--------------------------- MODULE BackflowProofs ---------------------------
(***************************************************************************)
(* Theorems about Backflow, for every value of its constants: however many *)
(* keys, clusters, links, runs and versions there are, and whatever K, the *)
(* caps and the batch size are.  KernelProofs brings the lemmas about the  *)
(* walk of _replay_k; the state of Kernel (pushed, cut, wanted) that comes *)
(* with them appears in nothing below.                                     *)
(***************************************************************************)
EXTENDS Backflow, KernelProofs

-----------------------------------------------------------------------------
(***************************************************************************)
(* Lemmas about the tables.                                                *)
(***************************************************************************)

\* A bounded set of natural numbers that is not empty has a maximum, which is
\* what Max returns: the last run of an agent, the last generation of a key.
LEMMA MaxOfBounded ==
    ASSUME NEW n \in Nat, NEW S, S \subseteq 0 .. n, S # {}
    PROVE  Max(S) \in S /\ \A x \in S : x <= Max(S)
<1> DEFINE T == {n - x : x \in S}
           R == OpToRel(<, Nat)
<1>1. \A x \in S : x \in Nat /\ x <= n /\ n - x \in Nat
  OBVIOUS
<1>2. PICK x \in T : \A y \in T : ~ (<<y, x>> \in R)
  <2>1. T \subseteq Nat /\ T # {}
    BY <1>1
  <2>2. IsWellFoundedOn(R, Nat)
    BY NatLessThanWellFounded
  <2> HIDE DEF T, R
  <2> QED
    BY <2>1, <2>2, WFMin
<1>3. PICK m \in S : x = n - m
  BY <1>2
<1>4. \A y \in S : y <= m
  <2> SUFFICES ASSUME NEW y \in S PROVE y <= m
    OBVIOUS
  <2>1. ~ (<<n - y, n - m>> \in R)
    BY <1>2, <1>3
  <2>2. y \in Nat /\ m \in Nat /\ n - y \in Nat /\ n - m \in Nat
    BY <1>1
  <2>3. ~ (n - y < n - m)
    <3> DEFINE a == n - y
               b == n - m
    <3>1. a \in Nat /\ b \in Nat /\ ~ (<<a, b>> \in R)
      BY <2>1, <2>2
    <3> HIDE DEF a, b
    <3>2. ~ (a < b)
      BY <3>1 DEF OpToRel
    <3> QED
      BY <3>2 DEF a, b
  <2> QED
    BY <2>2, <2>3
<1>5. \A y \in S : y \in Int
  BY <1>1
<1>6. \A y \in S : m >= y
  BY <1>4, <1>5
<1>7. Max(S) \in S /\ \A y \in S : Max(S) >= y
  BY <1>6 DEF Max
<1> QED
  BY <1>5, <1>7

\* Seq(S) holds the functions over 1..n, and Len is their length: a table whose
\* rows are updated in place is a table of the same length.
LEMMA TableUpdate ==
    ASSUME NEW S, NEW T, NEW seq \in Seq(S), NEW f, DOMAIN f = DOMAIN seq,
           f = [i \in DOMAIN seq |-> f[i]],
           \A i \in DOMAIN seq : f[i] \in T
    PROVE  f \in Seq(T) /\ Len(f) = Len(seq)
<1>1. Len(seq) \in Nat /\ DOMAIN seq = 1 .. Len(seq)
  BY LenProperties
<1>2. f \in [1 .. Len(seq) -> T]
  BY <1>1
<1>3. f \in Seq(T)
  BY <1>1, <1>2, SeqDef
<1>4. Len(f) \in Nat /\ DOMAIN f = 1 .. Len(f)
  BY <1>3, LenProperties
<1> QED
  BY <1>1, <1>3, <1>4

\* A table that grows by a row.
LEMMA AppendRow ==
    ASSUME NEW S, NEW seq \in Seq(S), NEW row \in S
    PROVE  /\ Append(seq, row) \in Seq(S)
           /\ Len(Append(seq, row)) = Len(seq) + 1
           /\ DOMAIN Append(seq, row) = DOMAIN seq \cup {Len(seq) + 1}
           /\ Len(seq) + 1 \notin DOMAIN seq
           /\ \A i \in DOMAIN seq : Append(seq, row)[i] = seq[i]
           /\ Append(seq, row)[Len(seq) + 1] = row
<1>1. Len(seq) \in Nat /\ DOMAIN seq = 1 .. Len(seq)
  BY LenProperties
<1>2. /\ Append(seq, row) \in Seq(S)
      /\ Len(Append(seq, row)) = Len(seq) + 1
      /\ \A i \in 1 .. Len(seq) : Append(seq, row)[i] = seq[i]
      /\ Append(seq, row)[Len(seq) + 1] = row
  BY AppendProperties
<1>3. DOMAIN Append(seq, row) = 1 .. Len(seq) + 1
  BY <1>2, LenProperties
<1> QED
  BY <1>1, <1>2, <1>3

-----------------------------------------------------------------------------
(***************************************************************************)
(* Type correctness.  NextGeneration and LastVersion take a maximum, which *)
(* exists because the generations of the table are bounded.                *)
(***************************************************************************)
GenerationBound == \A c \in DOMAIN clusters : clusters[c].generation \in 1 .. c

TypeInv == TypeOK /\ GenerationBound

\* What a typed table gives at each row.
LEMMA RowTypes ==
    ASSUME TypeOK
    PROVE  /\ Len(clusters) \in Nat /\ DOMAIN clusters = 1 .. Len(clusters)
           /\ Len(links) \in Nat /\ DOMAIN links = 1 .. Len(links)
           /\ Len(records) \in Nat /\ DOMAIN records = 1 .. Len(records)
           /\ Len(runs) \in Nat /\ DOMAIN runs = 1 .. Len(runs)
           /\ DOMAIN conv = DOMAIN clusters
           /\ \A c \in DOMAIN clusters : clusters[c] \in ClusterRow /\ conv[c] \in ConvRow
           /\ \A l \in DOMAIN links : links[l] \in LinkRow /\ links[l].cluster \in DOMAIN clusters
           /\ \A i \in DOMAIN records : records[i] \in RecordRow
           /\ \A r \in DOMAIN runs : runs[r] \in RunRow /\ runs[r].link \in DOMAIN links
<1>1. /\ Len(clusters) \in Nat /\ DOMAIN clusters = 1 .. Len(clusters)
      /\ \A c \in DOMAIN clusters : clusters[c] \in ClusterRow
  BY LenProperties, ElementOfSeq DEF TypeOK
<1>2. /\ Len(links) \in Nat /\ DOMAIN links = 1 .. Len(links)
      /\ \A l \in DOMAIN links : links[l] \in LinkRow
  BY LenProperties, ElementOfSeq DEF TypeOK
<1>3. /\ Len(records) \in Nat /\ DOMAIN records = 1 .. Len(records)
      /\ \A i \in DOMAIN records : records[i] \in RecordRow
  BY LenProperties, ElementOfSeq DEF TypeOK
<1>4. /\ Len(runs) \in Nat /\ DOMAIN runs = 1 .. Len(runs)
      /\ \A r \in DOMAIN runs : runs[r] \in RunRow
  BY LenProperties, ElementOfSeq DEF TypeOK
<1>5. /\ DOMAIN conv = 1 .. Len(conv)
      /\ \A c \in DOMAIN conv : conv[c] \in ConvRow
  BY LenProperties, ElementOfSeq DEF TypeOK
<1> QED
  BY <1>1, <1>2, <1>3, <1>4, <1>5 DEF TypeOK

LEMMA TypeInit == Init => TypeInv
<1> SUFFICES ASSUME Init PROVE TypeInv
  OBVIOUS
<1>1. \A S : <<>> \in Seq(S)
  BY EmptySeq
<1>2. DOMAIN <<>> = {}
  OBVIOUS
<1> QED
  BY <1>1, <1>2 DEF Init, TypeInv, TypeOK, GenerationBound

LEMMA TypeCount ==
    ASSUME TypeInv, NEW key \in Keys, NEW snapshot \in BOOLEAN, NEW truncated \in BOOLEAN,
           _apply_count(key, snapshot, truncated)
    PROVE  TypeInv'
<1>0. PICK c : clusters' = [clusters EXCEPT ![c].truncated = truncated,
                                          ![c].snapshot = @ \/ snapshot]
  BY DEF _apply_count
<1>1. TypeOK
  BY DEF TypeInv
<1>2. \A d \in DOMAIN clusters : clusters[d] \in ClusterRow
  BY <1>1, RowTypes
<1>3. DOMAIN clusters' = DOMAIN clusters
  BY <1>0
<1>4. \A d \in DOMAIN clusters :
         clusters'[d] \in ClusterRow /\ clusters'[d].generation = clusters[d].generation
  <2> SUFFICES ASSUME NEW d \in DOMAIN clusters
               PROVE  clusters'[d] \in ClusterRow /\ clusters'[d].generation = clusters[d].generation
    OBVIOUS
  <2>1. (clusters[d].snapshot \/ snapshot) \in BOOLEAN
    OBVIOUS
  <2>2. clusters[d] \in ClusterRow
    BY <1>2
  <2>3. CASE d = c
    <3>1. clusters'[d] = [clusters[d] EXCEPT !.truncated = truncated, !.snapshot = clusters[d].snapshot \/ snapshot]
      BY <1>0, <2>3, <2>2
    <3> DEFINE b == clusters[d].snapshot \/ snapshot
    <3>2. b \in BOOLEAN
      OBVIOUS
    <3>3. clusters'[d] = [clusters[d] EXCEPT !.truncated = truncated, !.snapshot = b]
      BY <3>1
    <3> HIDE DEF b
    <3> QED
      BY <3>2, <3>3, <2>2 DEF ClusterRow
  <2>4. CASE d # c
    BY <1>0, <2>2, <2>4
  <2> QED
    BY <2>3, <2>4
<1>5. clusters' \in Seq(ClusterRow) /\ Len(clusters') = Len(clusters)
  <2>1. clusters' = [d \in DOMAIN clusters |-> clusters'[d]]
    BY <1>0
  <2>2. clusters \in Seq(ClusterRow) /\ \A d \in DOMAIN clusters : clusters'[d] \in ClusterRow
    BY <1>1, <1>4 DEF TypeOK
  <2> QED
    BY <1>3, <2>1, <2>2, TableUpdate
<1> QED
  BY <1>1, <1>3, <1>4, <1>5 DEF TypeInv, TypeOK, GenerationBound, _apply_count

\* The generation of a new cluster is above all of its key, and bounded.
LEMMA NextGenerationAbove ==
    ASSUME TypeInv, NEW key
    PROVE  /\ NextGeneration(key) \in 1 .. Len(clusters) + 1
           /\ \A c \in ClustersOf(key) : clusters[c].generation < NextGeneration(key)
<1> DEFINE G == {0} \cup {clusters[c].generation : c \in ClustersOf(key)}
           n == Len(clusters)
<1>1. n \in Nat /\ DOMAIN clusters = 1 .. n
  BY RowTypes DEF TypeInv
<1>2. \A c \in ClustersOf(key) : clusters[c].generation \in 0 .. n
  <2> SUFFICES ASSUME NEW c \in ClustersOf(key) PROVE clusters[c].generation \in 0 .. n
    OBVIOUS
  <2>1. c \in 1 .. n /\ clusters[c].generation \in 1 .. c
    BY <1>1 DEF ClustersOf, TypeInv, GenerationBound
  <2> QED
    BY <1>1, <2>1
<1>3. G \subseteq 0 .. n /\ G # {}
  BY <1>1, <1>2
<1>4. Max(G) \in G /\ \A x \in G : x <= Max(G)
  <2> HIDE DEF G, n
  <2> QED
    BY <1>1, <1>3, MaxOfBounded
<1>5. Max(G) \in 0 .. n
  <2> HIDE DEF G
  <2> QED
    BY <1>3, <1>4
<1>6. NextGeneration(key) = Max(G) + 1
  BY DEF NextGeneration
<1>7. \A c \in ClustersOf(key) : clusters[c].generation <= Max(G)
  BY <1>4
<1> QED
  <2> HIDE DEF G, n
  <2>1. \A c \in ClustersOf(key) : clusters[c].generation \in Int
    BY <1>1, <1>2
  <2>2. n = Len(clusters)
    BY DEF n
  <2> QED
    BY <1>1, <1>5, <1>6, <1>7, <2>1, <2>2

LEMMA TypeOpen ==
    ASSUME TypeInv, NEW key \in Keys, NEW snapshot \in BOOLEAN, NEW truncated \in BOOLEAN,
           NEW reopen, _open_cluster(key, snapshot, truncated, reopen)
    PROVE  TypeInv'
<1> DEFINE row == [key |-> key, generation |-> NextGeneration(key), status |-> "open",
                   snapshot |-> snapshot, truncated |-> truncated]
           audit == [auto_fixed |-> 0, reopen |-> 0]
<1>1. TypeOK /\ clusters \in Seq(ClusterRow) /\ conv \in Seq(ConvRow) /\ Len(conv) = Len(clusters)
  BY DEF TypeInv, TypeOK
<1>2. clusters' = Append(clusters, row) /\ conv' = Append(conv, audit)
  BY DEF _open_cluster
<1>3. NextGeneration(key) \in 1 .. Len(clusters) + 1 /\ Len(clusters) \in Nat
  BY <1>1, NextGenerationAbove, RowTypes
<1>4. row \in ClusterRow /\ row.generation \in 1 .. Len(clusters) + 1 /\ audit \in ConvRow
  BY <1>3 DEF ClusterRow, ConvRow
<1> HIDE DEF row, audit
<1>5. /\ clusters' \in Seq(ClusterRow) /\ conv' \in Seq(ConvRow)
      /\ Len(clusters') = Len(clusters) + 1 /\ Len(conv') = Len(conv) + 1
      /\ DOMAIN clusters' = DOMAIN clusters \cup {Len(clusters) + 1}
      /\ \A c \in DOMAIN clusters : clusters'[c] = clusters[c]
      /\ clusters'[Len(clusters) + 1] = row
  BY <1>1, <1>2, <1>4, AppendRow
<1>6. GenerationBound'
  BY <1>4, <1>5 DEF GenerationBound, TypeInv
<1> QED
  BY <1>1, <1>5, <1>6 DEF TypeInv, TypeOK, _open_cluster

LEMMA TypeAssemble ==
    ASSUME TypeInv, NEW c \in DOMAIN clusters, assemble_cluster(c)
    PROVE  TypeInv'
<1> DEFINE row == [cluster |-> c, offline |-> "assembled", reason |-> "none",
                   case |-> FALSE, verify |-> "pending", requeues |-> 0]
<1>1. TypeOK /\ links \in Seq(LinkRow) /\ c \in Nat
  BY RowTypes DEF TypeInv, TypeOK
<1>2. links' = Append(links, row) /\ row \in LinkRow /\ row.cluster = c
  BY <1>1 DEF assemble_cluster, LinkRow
<1> HIDE DEF row
<1>3. /\ links' \in Seq(LinkRow)
      /\ DOMAIN links' = DOMAIN links \cup {Len(links) + 1}
      /\ \A l \in DOMAIN links : links'[l] = links[l]
      /\ links'[Len(links) + 1] = row
  BY <1>1, <1>2, AppendRow
<1> QED
  BY <1>1, <1>2, <1>3 DEF TypeInv, TypeOK, GenerationBound, assemble_cluster

\* Steps that rewrite rows of error_case_link and leave the other tables alone.
LEMMA TypeRelink ==
    ASSUME TypeInv, UNCHANGED <<clusters, records, conv, runs>>,
           links' = [l \in DOMAIN links |-> links'[l]],
           \A l \in DOMAIN links : links'[l] \in LinkRow /\ links'[l].cluster = links[l].cluster
    PROVE  TypeInv'
<1>1. links \in Seq(LinkRow) /\ DOMAIN links' = DOMAIN links
  BY DEF TypeInv, TypeOK
<1>2. links' \in Seq(LinkRow)
  BY <1>1, TableUpdate
<1> QED
  BY <1>1, <1>2 DEF TypeInv, TypeOK, GenerationBound

LEMMA AckedRow ==
    ASSUME NEW link \in LinkRow, NEW action \in {"draft", "active", "invalidated"},
           NEW has_case \in BOOLEAN, NEW reason \in REASON_CODES
    PROVE  /\ Acked(link, action, has_case, reason) \in LinkRow
           /\ Acked(link, action, has_case, reason).cluster = link.cluster
           /\ Acked(link, action, has_case, reason).verify = link.verify
<1> DEFINE b == link.case \/ (has_case /\ action # "invalidated")
           stored == IF action = "invalidated" THEN reason ELSE "none"
<1>1. b \in BOOLEAN /\ stored \in REASON_CODES \cup {"none"}
  OBVIOUS
<1>2. Acked(link, action, has_case, reason) =
          [link EXCEPT !.offline = action, !.case = b, !.reason = stored]
  BY DEF Acked
<1> HIDE DEF b, stored
<1> QED
  BY <1>1, <1>2 DEF LinkRow

LEMMA TypeAck ==
    ASSUME TypeInv, NEW l \in DOMAIN links, NEW action \in {"draft", "active", "invalidated"},
           NEW has_case \in BOOLEAN, NEW reason \in REASON_CODES,
           apply_ack(l, action, has_case, reason)
    PROVE  TypeInv'
<1>1. \A m \in DOMAIN links : links[m] \in LinkRow
  BY RowTypes DEF TypeInv
<1>2. links' = [links EXCEPT ![l] = Acked(links[l], action, has_case, reason)]
  BY DEF apply_ack
<1>3. links' = [m \in DOMAIN links |-> links'[m]]
  BY <1>2
<1>4. \A m \in DOMAIN links : links'[m] \in LinkRow /\ links'[m].cluster = links[m].cluster
  BY <1>1, <1>2, AckedRow
<1> QED
  BY <1>3, <1>4, TypeRelink DEF apply_ack

LEMMA TypeRequeue ==
    ASSUME TypeInv, NEW young, auto_requeue_stuck(young)
    PROVE  TypeInv'
<1>1. \A m \in DOMAIN links : links[m] \in LinkRow
  BY RowTypes DEF TypeInv
<1>2. links' = [l \in DOMAIN links |->
          IF l \in Requeued(young)
          THEN [links[l] EXCEPT !.offline = "assembled", !.reason = "none",
                                !.requeues = links[l].requeues + 1]
          ELSE links[l]]
  BY DEF auto_requeue_stuck
<1>3. links' = [m \in DOMAIN links |-> links'[m]]
  BY <1>2
<1>4. \A m \in DOMAIN links : links'[m] \in LinkRow /\ links'[m].cluster = links[m].cluster
  <2> SUFFICES ASSUME NEW m \in DOMAIN links
               PROVE  links'[m] \in LinkRow /\ links'[m].cluster = links[m].cluster
    OBVIOUS
  <2>1. links[m] \in LinkRow
    BY <1>1
  <2>2. CASE m \in Requeued(young)
    <3>1. links'[m] = [links[m] EXCEPT !.offline = "assembled", !.reason = "none",
                                       !.requeues = links[m].requeues + 1]
      BY <1>2, <2>2
    <3>2. links[m].requeues + 1 \in Nat
      BY <2>1 DEF LinkRow
    <3> DEFINE n == links[m].requeues + 1
    <3>3. links'[m] = [links[m] EXCEPT !.offline = "assembled", !.reason = "none", !.requeues = n]
      BY <3>1
    <3> HIDE DEF n
    <3> QED
      BY <2>1, <3>2, <3>3 DEF LinkRow, n
  <2>3. CASE m \notin Requeued(young)
    BY <1>2, <2>1, <2>3
  <2> QED
    BY <2>2, <2>3
<1> QED
  BY <1>3, <1>4, TypeRelink DEF auto_requeue_stuck

LEMMA TypeRun ==
    ASSUME TypeInv, NEW l \in DOMAIN links, NEW v \in Versions, NEW o \in Outcomes,
           OfflineRun(l, v, o)
    PROVE  TypeInv'
<1> DEFINE agent == AgentOfLink(l)
           last == LastVersion(agent)
           row == [link |-> l, ver |-> v, prev |-> last, pf |-> o.pf, na |-> o.na]
<1>1. TypeOK /\ runs \in Seq(RunRow) /\ Len(runs) \in Nat /\ DOMAIN runs = 1 .. Len(runs)
      /\ l \in Nat /\ \A r \in DOMAIN runs : runs[r] \in RunRow
  BY RowTypes DEF TypeInv, TypeOK
<1>2. last \in Versions \cup {NoVersion}
  <2>1. CASE RunsOf(agent) = {}
    BY <2>1 DEF LastVersion
  <2>2. CASE RunsOf(agent) # {}
    <3>1. RunsOf(agent) \subseteq 0 .. Len(runs) /\ RunsOf(agent) \subseteq DOMAIN runs
      BY <1>1 DEF RunsOf
    <3>2. Max(RunsOf(agent)) \in RunsOf(agent)
      <4> HIDE DEF agent
      <4> QED
        BY <1>1, <2>2, <3>1, MaxOfBounded
    <3>3. runs[Max(RunsOf(agent))] \in RunRow
      BY <1>1, <3>1, <3>2
    <3> QED
      BY <2>2, <3>3 DEF LastVersion, RunRow
  <2> QED
    BY <2>1, <2>2
<1>3. runs' = Append(runs, row)
  BY DEF OfflineRun
<1>4. row \in RunRow /\ row.link = l
  <2> HIDE DEF last
  <2> QED
    BY <1>1, <1>2, BackflowAssumption DEF RunRow
<1> HIDE DEF row
<1>5. /\ runs' \in Seq(RunRow)
      /\ DOMAIN runs' = DOMAIN runs \cup {Len(runs) + 1}
      /\ \A r \in DOMAIN runs : runs'[r] = runs[r]
      /\ runs'[Len(runs) + 1] = row
  BY <1>1, <1>3, <1>4, AppendRow
<1> QED
  BY <1>1, <1>4, <1>5 DEF TypeInv, TypeOK, GenerationBound, OfflineRun

\* What a judgement does to the rows when it closes the clusters in passed.
Settles(passed) ==
    /\ clusters' \in Seq(ClusterRow) /\ Len(clusters') = Len(clusters)
    /\ links' \in Seq(LinkRow) /\ conv' \in Seq(ConvRow) /\ Len(conv') = Len(conv)
    /\ DOMAIN clusters' = DOMAIN clusters /\ DOMAIN links' = DOMAIN links
    /\ \A c \in DOMAIN clusters :
           /\ clusters'[c].key = clusters[c].key
           /\ clusters'[c].generation = clusters[c].generation
           /\ c \in passed => clusters'[c].status = "fixed"
           /\ c \notin passed => clusters'[c] = clusters[c]
    /\ \A l \in DOMAIN links :
           /\ links'[l].cluster = links[l].cluster
           /\ links[l].verify # "pending" => links'[l] = links[l]
           /\ links[l].verify = "pending" /\ links[l].cluster \in passed =>
                  links'[l].verify = "passed"
           /\ links[l].verify = "pending" /\ links[l].cluster \notin passed =>
                  links'[l].verify \in {"pending", "failed"}

LEMMA TerminalSettles ==
    ASSUME TypeOK, NEW passed, NEW failed, _apply_terminal(passed, failed)
    PROVE  Settles(passed)
<1>1. /\ clusters' = [c \in DOMAIN clusters |->
             IF c \in passed THEN [clusters[c] EXCEPT !.status = "fixed"] ELSE clusters[c]]
      /\ links' = [l \in DOMAIN links |->
             IF links[l].verify # "pending" THEN links[l]
             ELSE IF links[l].cluster \in passed THEN [links[l] EXCEPT !.verify = "passed"]
             ELSE IF links[l].cluster \in failed THEN [links[l] EXCEPT !.verify = "failed"]
             ELSE links[l]]
      /\ conv' = [c \in DOMAIN conv |->
             [auto_fixed |-> conv[c].auto_fixed + (IF c \in passed THEN 1 ELSE 0),
              reopen |-> conv[c].reopen + (IF c \in failed THEN 1 ELSE 0)]]
  BY DEF _apply_terminal, _apply_auto_fixed, _mark_pending_links
<1>2. /\ clusters' = [c \in DOMAIN clusters |-> clusters'[c]]
      /\ links' = [l \in DOMAIN links |-> links'[l]]
      /\ conv' = [c \in DOMAIN conv |-> conv'[c]]
      /\ DOMAIN clusters' = DOMAIN clusters /\ DOMAIN links' = DOMAIN links
      /\ DOMAIN conv' = DOMAIN conv
  BY <1>1
<1>3. \A c \in DOMAIN clusters :
          /\ clusters'[c] \in ClusterRow
          /\ clusters'[c].key = clusters[c].key
          /\ clusters'[c].generation = clusters[c].generation
          /\ c \in passed => clusters'[c].status = "fixed"
          /\ c \notin passed => clusters'[c] = clusters[c]
  <2> SUFFICES ASSUME NEW c \in DOMAIN clusters
               PROVE  /\ clusters'[c] \in ClusterRow
                      /\ clusters'[c].key = clusters[c].key
                      /\ clusters'[c].generation = clusters[c].generation
                      /\ c \in passed => clusters'[c].status = "fixed"
                      /\ c \notin passed => clusters'[c] = clusters[c]
    OBVIOUS
  <2>1. clusters[c] \in ClusterRow
    BY RowTypes
  <2>2. CASE c \in passed
    <3>1. clusters'[c] = [clusters[c] EXCEPT !.status = "fixed"]
      BY <1>1, <2>2
    <3> QED
      BY <2>1, <2>2, <3>1 DEF ClusterRow
  <2>3. CASE c \notin passed
    BY <1>1, <2>1, <2>3
  <2> QED
    BY <2>2, <2>3
<1>4. \A l \in DOMAIN links :
          /\ links'[l] \in LinkRow
          /\ links'[l].cluster = links[l].cluster
          /\ links[l].verify # "pending" => links'[l] = links[l]
          /\ links[l].verify = "pending" /\ links[l].cluster \in passed =>
                 links'[l].verify = "passed"
          /\ links[l].verify = "pending" /\ links[l].cluster \notin passed =>
                 links'[l].verify \in {"pending", "failed"}
  <2> TAKE l \in DOMAIN links
  <2>1. links[l] \in LinkRow
    BY RowTypes
  <2>2. CASE links[l].verify # "pending"
    BY <1>1, <2>1, <2>2
  <2>3. CASE links[l].verify = "pending" /\ links[l].cluster \in passed
    <3>1. links'[l] = [links[l] EXCEPT !.verify = "passed"]
      BY <1>1, <2>3
    <3> QED
      BY <2>1, <2>3, <3>1 DEF LinkRow
  <2>4. CASE links[l].verify = "pending" /\ links[l].cluster \notin passed
    <3>1. links'[l] = [links[l] EXCEPT !.verify = "failed"] \/ links'[l] = links[l]
      BY <1>1, <2>4
    <3> QED
      BY <2>1, <2>4, <3>1 DEF LinkRow
  <2> QED
    BY <2>2, <2>3, <2>4
<1>5. \A c \in DOMAIN conv : conv'[c] \in ConvRow
  <2> TAKE c \in DOMAIN conv
  <2>1. conv[c].auto_fixed \in Nat /\ conv[c].reopen \in Nat
    BY RowTypes DEF ConvRow
  <2> DEFINE a == conv[c].auto_fixed + (IF c \in passed THEN 1 ELSE 0)
             b == conv[c].reopen + (IF c \in failed THEN 1 ELSE 0)
  <2>2. a \in Nat /\ b \in Nat
    BY <2>1
  <2>3. conv'[c] = [auto_fixed |-> a, reopen |-> b]
    BY <1>1
  <2> HIDE DEF a, b
  <2> QED
    BY <2>2, <2>3 DEF ConvRow
<1>6. clusters \in Seq(ClusterRow) /\ links \in Seq(LinkRow) /\ conv \in Seq(ConvRow)
  BY DEF TypeOK
<1>7. clusters' \in Seq(ClusterRow) /\ Len(clusters') = Len(clusters)
  BY <1>2, <1>3, <1>6, TableUpdate
<1>8. links' \in Seq(LinkRow)
  BY <1>2, <1>4, <1>6, TableUpdate
<1>9. conv' \in Seq(ConvRow) /\ Len(conv') = Len(conv)
  BY <1>2, <1>5, <1>6, TableUpdate
<1> QED
  BY <1>2, <1>3, <1>4, <1>7, <1>8, <1>9 DEF Settles

LEMMA NothingSettled ==
    ASSUME TypeOK, UNCHANGED <<clusters, links, conv>>
    PROVE  Settles({})
<1>1. \A l \in DOMAIN links : links[l] \in LinkRow
  BY RowTypes
<1> QED
  BY <1>1 DEF TypeOK, Settles

\* Only open clusters with a pending link are closed, provided that only pending
\* links of open clusters are judged.
LEMMA JudgeSettles ==
    ASSUME TypeOK, NEW recs, NEW J, judge_link(recs, J),
           \A l \in J : /\ l \in DOMAIN links /\ links[l].verify = "pending"
                        /\ clusters[links[l].cluster].status = "open"
    PROVE  \E passed \in SUBSET RejudgeCandidates : Settles(passed)
<1> DEFINE passed == Decided(recs, J, "passed")
           failed == Decided(recs, J, "reopened")
<1>1. _apply_terminal(passed, failed)
  BY DEF judge_link
<1>2. Settles(passed)
  <2> HIDE DEF passed, failed
  <2> QED
    BY <1>1, TerminalSettles
<1>3. passed \subseteq RejudgeCandidates
  <2> SUFFICES ASSUME NEW c \in passed PROVE c \in RejudgeCandidates
    OBVIOUS
  <2>1. PICK l \in J : c = links[l].cluster
    BY DEF Decided
  <2>2. c \in DOMAIN clusters
    BY <2>1, RowTypes
  <2> QED
    BY <2>1, <2>2 DEF RejudgeCandidates, PendingLinks
<1> QED
  BY <1>2, <1>3

LEMMA CurrentLink ==
    ASSUME NEW c
    PROVE  \/ _find_current_link(c) = ORPHAN_LINK_ID
           \/ _find_current_link(c) \in PendingLinks(c)
BY DEF _find_current_link

LEMMA RecordSettles ==
    ASSUME TypeOK, NEW r \in DOMAIN runs, NEW judged, record_regression_result(r, judged)
    PROVE  \E passed \in SUBSET RejudgeCandidates : Settles(passed)
<1> DEFINE c == links[runs[r].link].cluster
           l == _find_current_link(c)
           recs == Append(records, [link |-> l, cluster |-> c, run |-> r])
<1>1. CASE l # ORPHAN_LINK_ID /\ clusters[c].status = "open" /\ judged
  <2>1. judge_link(recs, {l})
    BY <1>1 DEF record_regression_result
  <2>2. l \in DOMAIN links /\ links[l].verify = "pending" /\ links[l].cluster = c
    BY <1>1, CurrentLink DEF PendingLinks
  <2>3. clusters[links[l].cluster].status = "open"
    BY <1>1, <2>2
  <2> HIDE DEF l, recs
  <2> QED
    BY <2>1, <2>2, <2>3, JudgeSettles
<1>2. CASE ~(l # ORPHAN_LINK_ID /\ clusters[c].status = "open" /\ judged)
  <2>1. UNCHANGED <<clusters, links, conv>>
    BY <1>2 DEF record_regression_result
  <2> QED
    BY <2>1, NothingSettled
<1> QED
  BY <1>1, <1>2

LEMMA RejudgeSettles ==
    ASSUME TypeOK, NEW raising, _rejudge_batch(raising)
    PROVE  \E passed \in SUBSET RejudgeCandidates : Settles(passed)
<1> DEFINE J == RejudgeLinks \ raising
<1>1. judge_link(records, J)
  BY DEF _rejudge_batch
<1>2. \A l \in J : /\ l \in DOMAIN links /\ links[l].verify = "pending"
                   /\ clusters[links[l].cluster].status = "open"
  BY DEF RejudgeLinks, FirstBatch, RejudgeCandidates
<1> HIDE DEF J
<1> QED
  BY <1>1, <1>2, JudgeSettles

LEMMA TypeRecord ==
    ASSUME TypeInv, NEW r \in DOMAIN runs, NEW judged, record_regression_result(r, judged)
    PROVE  TypeInv'
<1> DEFINE c == links[runs[r].link].cluster
           l == _find_current_link(c)
           row == [link |-> l, cluster |-> c, run |-> r]
<1>1. TypeOK /\ records \in Seq(RecordRow)
  BY DEF TypeInv, TypeOK
<1>2. PICK passed : Settles(passed)
  BY <1>1, RecordSettles
<1>3. records' = Append(records, row) /\ UNCHANGED runs
  BY DEF record_regression_result
<1>4. /\ c \in DOMAIN clusters /\ r \in DOMAIN runs /\ l \in DOMAIN links \cup {ORPHAN_LINK_ID}
      /\ DOMAIN clusters \subseteq Nat /\ DOMAIN links \subseteq Nat /\ DOMAIN runs \subseteq Nat
  BY <1>1, RowTypes, CurrentLink DEF PendingLinks
<1>5. row \in RecordRow /\ row.link = l /\ row.cluster = c /\ row.run = r
  BY <1>4 DEF RecordRow, ORPHAN_LINK_ID
<1> HIDE DEF row, l, c
<1>6. /\ records' \in Seq(RecordRow)
      /\ DOMAIN records' = DOMAIN records \cup {Len(records) + 1}
      /\ \A i \in DOMAIN records : records'[i] = records[i]
      /\ records'[Len(records) + 1] = row
  BY <1>1, <1>3, <1>5, AppendRow
<1>7. \A i \in DOMAIN records' :
          /\ records'[i].link \in DOMAIN links \cup {ORPHAN_LINK_ID}
          /\ records'[i].cluster \in DOMAIN clusters
          /\ records'[i].run \in DOMAIN runs
  BY <1>1, <1>4, <1>5, <1>6 DEF TypeOK
<1> QED
  BY <1>1, <1>2, <1>3, <1>6, <1>7 DEF TypeInv, TypeOK, GenerationBound, Settles, ORPHAN_LINK_ID

LEMMA TypeRejudge ==
    ASSUME TypeInv, NEW raising, _rejudge_batch(raising)
    PROVE  TypeInv'
<1>1. TypeOK /\ UNCHANGED <<records, runs>>
  BY DEF TypeInv, _rejudge_batch
<1>2. PICK passed : Settles(passed)
  BY <1>1, RejudgeSettles
<1> QED
  BY <1>1, <1>2 DEF TypeInv, TypeOK, GenerationBound, Settles

\* An occurrence is [snapshot, truncated].
LEMMA OccurrenceFields ==
    ASSUME NEW o \in Occurrences
    PROVE  o.snapshot \in BOOLEAN /\ o.truncated \in BOOLEAN
BY BackflowAssumption

LEMMA TypeNext == TypeInv /\ [Next]_vars => TypeInv'
<1> SUFFICES ASSUME TypeInv, [Next]_vars PROVE TypeInv'
  OBVIOUS
<1>1. ASSUME NEW key \in Keys, NEW o \in Occurrences, NEW reopen \in BOOLEAN,
             merge_candidate(key, o.snapshot, o.truncated, reopen)
      PROVE  TypeInv'
  BY <1>1, OccurrenceFields, TypeCount, TypeOpen DEF merge_candidate
<1>2. ASSUME NEW c \in DOMAIN clusters, assemble_cluster(c) PROVE TypeInv'
  BY <1>2, TypeAssemble
<1>3. ASSUME NEW l \in DOMAIN links, NEW action \in {"draft", "active", "invalidated"},
             NEW has_case \in BOOLEAN, NEW reason \in REASON_CODES,
             apply_ack(l, action, has_case, reason)
      PROVE  TypeInv'
  BY <1>3, TypeAck
<1>4. ASSUME NEW young, auto_requeue_stuck(young) PROVE TypeInv'
  BY <1>4, TypeRequeue
<1>5. ASSUME NEW l \in DOMAIN links, NEW v \in Versions, NEW o \in Outcomes, OfflineRun(l, v, o)
      PROVE  TypeInv'
  BY <1>5, TypeRun
<1>6. ASSUME NEW r \in DOMAIN runs, NEW judged \in BOOLEAN, record_regression_result(r, judged)
      PROVE  TypeInv'
  BY <1>6, TypeRecord
<1>7. ASSUME NEW raising, _rejudge_batch(raising) PROVE TypeInv'
  BY <1>7, TypeRejudge
<1>8. CASE UNCHANGED vars
  BY <1>8 DEF vars, TypeInv, TypeOK, GenerationBound
<1> QED
  BY <1>1, <1>2, <1>3, <1>4, <1>5, <1>6, <1>7, <1>8 DEF Next

\* Every table keeps its columns and every reference finds its row, although the
\* API process and the worker write them in transactions of their own.
THEOREM TypeCorrect == Spec => []TypeOK
<1>1. Init => TypeInv
  BY TypeInit
<1>2. TypeInv /\ [Next]_vars => TypeInv'
  BY TypeNext
<1>3. TypeInv => TypeOK
  BY DEF TypeInv
<1> QED
  BY <1>1, <1>2, <1>3, PTL DEF Spec

-----------------------------------------------------------------------------
(***************************************************************************)
(* The statuses of clusters and the verdicts of links agree.  The argument *)
(* is by what a step does to (status, verify): most steps touch neither;   *)
(* the others open a cluster that has no link yet, give a pending link to  *)
(* an open cluster that has none, or settle open clusters that have one.   *)
(* OnePending is what makes the settled link the only one, hence the       *)
(* passed link of a fixed cluster unique.                                  *)
(***************************************************************************)
AgreeInv == TypeInv /\ LinkClusterAgree

LEMMA AgreeInit == Init => LinkClusterAgree
<1>1. DOMAIN <<>> = {}
  OBVIOUS
<1> QED
  BY <1>1 DEF Init, LinkClusterAgree, OnePending, OnePassed, FixedByItsLink

\* Neither a status nor a verdict changes.
Untouched ==
    /\ DOMAIN clusters' = DOMAIN clusters /\ DOMAIN links' = DOMAIN links
    /\ \A c \in DOMAIN clusters : clusters'[c].status = clusters[c].status
    /\ \A l \in DOMAIN links : links'[l].cluster = links[l].cluster
                               /\ links'[l].verify = links[l].verify

LEMMA AgreeUntouched ==
    ASSUME LinkClusterAgree, Untouched
    PROVE  LinkClusterAgree'
<1>1. \A c : PendingLinks(c)' = PendingLinks(c) /\ PassedLinks(c)' = PassedLinks(c)
  BY DEF Untouched, PendingLinks, PassedLinks
<1> QED
  BY <1>1 DEF Untouched, LinkClusterAgree, OnePending, OnePassed, FixedByItsLink

LEMMA CountUntouched ==
    ASSUME TypeOK, NEW key, NEW snapshot, NEW truncated, _apply_count(key, snapshot, truncated)
    PROVE  Untouched
<1>1. PICK c : clusters' = [clusters EXCEPT ![c].truncated = truncated,
                                          ![c].snapshot = @ \/ snapshot]
  BY DEF _apply_count
<1>2. \A d \in DOMAIN clusters : clusters[d] \in ClusterRow
  BY RowTypes
<1>3. \A d \in DOMAIN clusters : clusters'[d].status = clusters[d].status
  BY <1>1, <1>2 DEF ClusterRow
<1> QED
  BY <1>1, <1>3 DEF Untouched, _apply_count

LEMMA AckUntouched ==
    ASSUME TypeOK, NEW l \in DOMAIN links, NEW action \in {"draft", "active", "invalidated"},
           NEW has_case \in BOOLEAN, NEW reason \in REASON_CODES,
           apply_ack(l, action, has_case, reason)
    PROVE  Untouched
<1>1. links' = [links EXCEPT ![l] = Acked(links[l], action, has_case, reason)]
      /\ clusters' = clusters
  BY DEF apply_ack
<1>2. \A m \in DOMAIN links : links[m] \in LinkRow
  BY RowTypes
<1>3. \A m \in DOMAIN links : links'[m].cluster = links[m].cluster
                             /\ links'[m].verify = links[m].verify
  BY <1>1, <1>2, AckedRow
<1> QED
  BY <1>1, <1>3 DEF Untouched

LEMMA RequeueUntouched ==
    ASSUME TypeOK, NEW young, auto_requeue_stuck(young)
    PROVE  Untouched
<1>1. clusters' = clusters /\ links' = [l \in DOMAIN links |->
          IF l \in Requeued(young)
          THEN [links[l] EXCEPT !.offline = "assembled", !.reason = "none",
                                !.requeues = links[l].requeues + 1]
          ELSE links[l]]
  BY DEF auto_requeue_stuck
<1>2. \A m \in DOMAIN links : links[m] \in LinkRow
  BY RowTypes
<1>3. \A m \in DOMAIN links : links'[m].cluster = links[m].cluster
                             /\ links'[m].verify = links[m].verify
  BY <1>1, <1>2 DEF LinkRow
<1> QED
  BY <1>1, <1>3 DEF Untouched

LEMMA AgreeOpen ==
    ASSUME AgreeInv, NEW key, NEW snapshot, NEW truncated, NEW reopen,
           TypeOK', _open_cluster(key, snapshot, truncated, reopen)
    PROVE  LinkClusterAgree'
<1> DEFINE new == Len(clusters) + 1
<1>1. /\ clusters' = Append(clusters, [key |-> key, generation |-> NextGeneration(key),
                         status |-> "open", snapshot |-> snapshot, truncated |-> truncated])
      /\ links' = links
  BY DEF _open_cluster
<1>2. Len(clusters) \in Nat /\ DOMAIN clusters = 1 .. Len(clusters)
      /\ \A l \in DOMAIN links : links[l].cluster \in DOMAIN clusters
  BY RowTypes DEF AgreeInv, TypeInv
<1>3. Len(clusters') = new /\ DOMAIN clusters' = 1 .. Len(clusters')
      /\ clusters'[new].status = "open"
      /\ \A c \in DOMAIN clusters : clusters'[c] = clusters[c]
  <2>1. Len(clusters') = new /\ clusters'[new].status = "open"
        /\ \A c \in DOMAIN clusters : clusters'[c] = clusters[c]
    BY <1>1, <1>2 DEF AgreeInv, TypeInv, TypeOK
  <2>2. DOMAIN clusters' = 1 .. Len(clusters')
    BY LenProperties DEF TypeOK
  <2> QED
    BY <2>1, <2>2
<1>4. \A c : PendingLinks(c)' = PendingLinks(c) /\ PassedLinks(c)' = PassedLinks(c)
  BY <1>1 DEF PendingLinks, PassedLinks
<1>5. PassedLinks(new) = {}
  BY <1>2 DEF PassedLinks
<1>6. FixedByItsLink'
  <2> SUFFICES ASSUME NEW c \in DOMAIN clusters'
               PROVE  (IF clusters'[c].status = "fixed"
                       THEN PassedLinks(c) # {} /\ PendingLinks(c) = {}
                       ELSE PassedLinks(c) = {})
    BY <1>4 DEF FixedByItsLink
  <2>1. CASE c = new
    BY <1>3, <1>5, <2>1
  <2>2. CASE c # new
    <3>1. c \in DOMAIN clusters
      BY <1>2, <1>3, <2>2
    <3> QED
      BY <1>3, <3>1 DEF AgreeInv, LinkClusterAgree, FixedByItsLink
  <2> QED
    BY <2>1, <2>2
<1>7. OnePending' /\ OnePassed'
  BY <1>1 DEF AgreeInv, LinkClusterAgree, OnePending, OnePassed
<1> QED
  BY <1>6, <1>7 DEF LinkClusterAgree

LEMMA AgreeAssemble ==
    ASSUME AgreeInv, NEW c \in DOMAIN clusters, assemble_cluster(c)
    PROVE  LinkClusterAgree'
<1> DEFINE row == [cluster |-> c, offline |-> "assembled", reason |-> "none",
                   case |-> FALSE, verify |-> "pending", requeues |-> 0]
           new == Len(links) + 1
<1>1. /\ links' = Append(links, row) /\ clusters' = clusters
      /\ clusters[c].status = "open" /\ PendingLinks(c) = {}
  BY DEF assemble_cluster, NeedsLink
<1>2. links \in Seq(LinkRow) /\ row \in LinkRow /\ row.cluster = c /\ row.verify = "pending"
  BY RowTypes DEF AgreeInv, TypeInv, TypeOK, LinkRow
<1> HIDE DEF row
<1>3. /\ DOMAIN links' = DOMAIN links \cup {new} /\ new \notin DOMAIN links
      /\ \A l \in DOMAIN links : links'[l] = links[l]
      /\ links'[new] = row
  BY <1>1, <1>2, AppendRow
<1> HIDE DEF new
<1>4. \A d : PassedLinks(d)' = PassedLinks(d)
  BY <1>2, <1>3 DEF PassedLinks
<1>5. \A d : d # c => PendingLinks(d)' = PendingLinks(d)
  BY <1>2, <1>3 DEF PendingLinks
<1>6. \A l \in DOMAIN links : ~(links[l].cluster = c /\ links[l].verify = "pending")
  BY <1>1 DEF PendingLinks
<1>7. OnePending'
  <2> SUFFICES ASSUME NEW l \in DOMAIN links', NEW m \in DOMAIN links',
                      links'[l].cluster = links'[m].cluster,
                      links'[l].verify = "pending", links'[m].verify = "pending"
               PROVE  l = m
    BY DEF OnePending
  <2>1. CASE l = new
    BY <1>2, <1>3, <1>6, <2>1
  <2>2. CASE m = new
    BY <1>2, <1>3, <1>6, <2>2
  <2>3. CASE l # new /\ m # new
    BY <1>3, <2>3 DEF AgreeInv, LinkClusterAgree, OnePending
  <2> QED
    BY <2>1, <2>2, <2>3
<1>8. OnePassed'
  BY <1>2, <1>3 DEF AgreeInv, LinkClusterAgree, OnePassed
<1>9. FixedByItsLink'
  BY <1>1, <1>4, <1>5 DEF AgreeInv, LinkClusterAgree, FixedByItsLink
<1> QED
  BY <1>7, <1>8, <1>9 DEF LinkClusterAgree

LEMMA AgreeSettles ==
    ASSUME TypeOK, LinkClusterAgree, NEW passed \in SUBSET RejudgeCandidates, Settles(passed)
    PROVE  LinkClusterAgree'
<1>1. \A c \in passed : /\ c \in DOMAIN clusters /\ clusters[c].status = "open"
                        /\ PendingLinks(c) # {} /\ PassedLinks(c) = {}
  BY DEF RejudgeCandidates, LinkClusterAgree, FixedByItsLink
<1>2. \A l \in DOMAIN links : links[l].verify \in {"pending", "passed", "failed"}
                             /\ links[l].cluster \in DOMAIN clusters
  BY RowTypes DEF LinkRow
<1>3. \A l \in DOMAIN links : links'[l].verify = "pending" =>
          links[l].verify = "pending" /\ links[l].cluster \notin passed
  BY <1>2 DEF Settles
<1>4. \A l \in DOMAIN links : links'[l].verify = "passed" <=>
          IF links[l].cluster \in passed THEN links[l].verify = "pending"
          ELSE links[l].verify = "passed"
  <2> TAKE l \in DOMAIN links
  <2>1. CASE links[l].cluster \in passed
    <3>1. links[l].verify # "passed"
      BY <1>1, <2>1 DEF PassedLinks
    <3> QED
      BY <1>2, <2>1, <3>1 DEF Settles
  <2>2. CASE links[l].cluster \notin passed
    BY <1>2, <2>2 DEF Settles
  <2> QED
    BY <2>1, <2>2
<1>5. OnePending'
  BY <1>3 DEF LinkClusterAgree, OnePending, Settles
<1>6. OnePassed'
  BY <1>4 DEF LinkClusterAgree, OnePending, OnePassed, Settles
<1>7. FixedByItsLink'
  <2> SUFFICES ASSUME NEW c \in DOMAIN clusters
               PROVE  (IF clusters'[c].status = "fixed"
                       THEN PassedLinks(c)' # {} /\ PendingLinks(c)' = {}
                       ELSE PassedLinks(c)' = {})
    BY DEF FixedByItsLink, Settles
  <2>1. CASE c \in passed
    <3>1. PICK l \in DOMAIN links : links[l].cluster = c /\ links[l].verify = "pending"
      BY <1>1, <2>1 DEF PendingLinks
    <3>2. l \in PassedLinks(c)'
      BY <1>4, <2>1, <3>1 DEF PassedLinks, Settles
    <3>3. PendingLinks(c)' = {}
      BY <1>3, <2>1 DEF PendingLinks, Settles
    <3> QED
      BY <2>1, <3>2, <3>3 DEF Settles
  <2>2. CASE c \notin passed
    <3>1. clusters'[c] = clusters[c]
      BY <2>2 DEF Settles
    <3>2. PassedLinks(c)' = PassedLinks(c)
      BY <1>4, <2>2 DEF PassedLinks, Settles
    <3>3. PendingLinks(c)' \subseteq PendingLinks(c)
      BY <1>3 DEF PendingLinks, Settles
    <3> QED
      BY <3>1, <3>2, <3>3 DEF LinkClusterAgree, FixedByItsLink
  <2> QED
    BY <2>1, <2>2
<1> QED
  BY <1>5, <1>6, <1>7 DEF LinkClusterAgree

LEMMA AgreeNext == AgreeInv /\ [Next]_vars => LinkClusterAgree'
<1> SUFFICES ASSUME AgreeInv, [Next]_vars PROVE LinkClusterAgree'
  OBVIOUS
<1>0. TypeOK /\ LinkClusterAgree /\ TypeOK'
  BY TypeNext DEF AgreeInv, TypeInv
<1>1. ASSUME NEW key \in Keys, NEW o \in Occurrences, NEW reopen \in BOOLEAN,
             merge_candidate(key, o.snapshot, o.truncated, reopen)
      PROVE  LinkClusterAgree'
  BY <1>0, <1>1, CountUntouched, AgreeUntouched, AgreeOpen DEF merge_candidate
<1>2. ASSUME NEW c \in DOMAIN clusters, assemble_cluster(c) PROVE LinkClusterAgree'
  BY <1>2, AgreeAssemble
<1>3. ASSUME NEW l \in DOMAIN links, NEW action \in {"draft", "active", "invalidated"},
             NEW has_case \in BOOLEAN, NEW reason \in REASON_CODES,
             apply_ack(l, action, has_case, reason)
      PROVE  LinkClusterAgree'
  BY <1>0, <1>3, AckUntouched, AgreeUntouched
<1>4. ASSUME NEW young, auto_requeue_stuck(young) PROVE LinkClusterAgree'
  BY <1>0, <1>4, RequeueUntouched, AgreeUntouched
<1>5. ASSUME NEW l \in DOMAIN links, NEW v \in Versions, NEW o \in Outcomes, OfflineRun(l, v, o)
      PROVE  LinkClusterAgree'
  BY <1>0, <1>5, AgreeUntouched DEF OfflineRun, Untouched
<1>6. ASSUME NEW r \in DOMAIN runs, NEW judged \in BOOLEAN, record_regression_result(r, judged)
      PROVE  LinkClusterAgree'
  BY <1>0, <1>6, RecordSettles, AgreeSettles
<1>7. ASSUME NEW raising, _rejudge_batch(raising) PROVE LinkClusterAgree'
  BY <1>0, <1>7, RejudgeSettles, AgreeSettles
<1>8. CASE UNCHANGED vars
  BY <1>0, <1>8, AgreeUntouched DEF vars, Untouched
<1> QED
  BY <1>1, <1>2, <1>3, <1>4, <1>5, <1>6, <1>7, <1>8 DEF Next

\* A cluster is fixed exactly when one of its links passed, and then nothing of
\* it is pending; and it never has two links in verification or two that passed.
THEOREM StatusesAgree == Spec => []LinkClusterAgree
<1>1. Init => AgreeInv
  BY TypeInit, AgreeInit DEF AgreeInv
<1>2. AgreeInv /\ [Next]_vars => AgreeInv'
  BY TypeNext, AgreeNext DEF AgreeInv
<1>3. AgreeInv => LinkClusterAgree
  BY DEF AgreeInv
<1> QED
  BY <1>1, <1>2, <1>3, PTL DEF Spec

-----------------------------------------------------------------------------
(***************************************************************************)
(* The generations of a key form a chain.  It is inductive beside TypeInv: *)
(* a new generation is opened when no cluster of the key is current, which *)
(* means that all of them are fixed, and it is above all of them.          *)
(***************************************************************************)
ChainInv == TypeInv /\ GenerationChain

\* No cluster moves in its chain; at most it is closed.
ChainKept ==
    /\ DOMAIN clusters' = DOMAIN clusters
    /\ \A c \in DOMAIN clusters :
           /\ clusters'[c].key = clusters[c].key
           /\ clusters'[c].generation = clusters[c].generation
           /\ clusters[c].status = "fixed" => clusters'[c].status = "fixed"

LEMMA ChainOfKept ==
    ASSUME GenerationChain, ChainKept
    PROVE  GenerationChain'
BY DEF GenerationChain, ChainKept

LEMMA CountKept ==
    ASSUME TypeOK, NEW key, NEW snapshot, NEW truncated, _apply_count(key, snapshot, truncated)
    PROVE  ChainKept
<1>1. PICK c : clusters' = [clusters EXCEPT ![c].truncated = truncated,
                                          ![c].snapshot = @ \/ snapshot]
  BY DEF _apply_count
<1>2. \A d \in DOMAIN clusters : clusters[d] \in ClusterRow
  BY RowTypes
<1> QED
  BY <1>1, <1>2 DEF ChainKept, ClusterRow

LEMMA SettlesKept ==
    ASSUME NEW passed, Settles(passed)
    PROVE  ChainKept
BY DEF Settles, ChainKept

LEMMA ChainOpen ==
    ASSUME ChainInv, TypeOK', NEW key, NEW snapshot, NEW truncated, NEW reopen,
           _open_cluster(key, snapshot, truncated, reopen)
    PROVE  GenerationChain'
<1> DEFINE new == Len(clusters) + 1
           row == [key |-> key, generation |-> NextGeneration(key), status |-> "open",
                   snapshot |-> snapshot, truncated |-> truncated]
<1>1. clusters' = Append(clusters, row) /\ CurrentClusters(key) = {}
  BY DEF _open_cluster
<1>2. /\ Len(clusters) \in Nat /\ DOMAIN clusters = 1 .. Len(clusters)
      /\ \A c \in DOMAIN clusters : clusters[c] \in ClusterRow
  BY RowTypes DEF ChainInv, TypeInv
<1>3. /\ DOMAIN clusters' = 1 .. new
      /\ clusters'[new] = row /\ row.key = key /\ row.generation = NextGeneration(key)
      /\ \A c \in DOMAIN clusters : clusters'[c] = clusters[c]
  <2>1. Len(clusters') = new /\ clusters'[new] = row
        /\ \A c \in DOMAIN clusters : clusters'[c] = clusters[c]
    BY <1>1, <1>2 DEF ChainInv, TypeInv, TypeOK
  <2>2. DOMAIN clusters' = 1 .. Len(clusters')
    BY LenProperties DEF TypeOK
  <2> QED
    BY <2>1, <2>2
<1> HIDE DEF row
<1>4. \A c \in ClustersOf(key) :
          clusters[c].status = "fixed" /\ clusters[c].generation < NextGeneration(key)
  <2> TAKE c \in ClustersOf(key)
  <2>1. clusters[c].status \in {"open", "fixed"}
    BY <1>2 DEF ClustersOf, ClusterRow
  <2>2. clusters[c].status # "open"
    BY <1>1 DEF CurrentClusters, NON_TERMINAL_STATUSES
  <2> QED
    BY <2>1, <2>2, NextGenerationAbove DEF ChainInv
<1> SUFFICES ASSUME NEW c \in DOMAIN clusters', NEW d \in DOMAIN clusters',
                    clusters'[c].key = clusters'[d].key, c < d
             PROVE  /\ clusters'[c].generation < clusters'[d].generation
                    /\ clusters'[c].status = "fixed"
  BY DEF GenerationChain
<1>5. c \in DOMAIN clusters
  BY <1>2, <1>3
<1>6. CASE d = new
  <2>1. c \in ClustersOf(key)
    BY <1>3, <1>5, <1>6 DEF ClustersOf
  <2> QED
    BY <1>3, <1>4, <1>5, <1>6, <2>1
<1>7. CASE d # new
  <2>1. d \in DOMAIN clusters
    BY <1>2, <1>3, <1>7
  <2> QED
    BY <1>3, <1>5, <2>1 DEF ChainInv, GenerationChain
<1> QED
  BY <1>6, <1>7

LEMMA ChainNext == ChainInv /\ [Next]_vars => GenerationChain'
<1> SUFFICES ASSUME ChainInv, [Next]_vars PROVE GenerationChain'
  OBVIOUS
<1>0. TypeOK /\ GenerationChain /\ TypeOK'
  BY TypeNext DEF ChainInv, TypeInv
<1>1. ASSUME NEW key \in Keys, NEW o \in Occurrences, NEW reopen \in BOOLEAN,
             merge_candidate(key, o.snapshot, o.truncated, reopen)
      PROVE  GenerationChain'
  BY <1>0, <1>1, CountKept, ChainOfKept, ChainOpen DEF merge_candidate
<1>2. ASSUME UNCHANGED clusters PROVE GenerationChain'
  BY <1>0, <1>2 DEF GenerationChain
<1>3. ASSUME NEW r \in DOMAIN runs, NEW judged \in BOOLEAN, record_regression_result(r, judged)
      PROVE  GenerationChain'
  BY <1>0, <1>3, RecordSettles, SettlesKept, ChainOfKept
<1>4. ASSUME NEW raising, _rejudge_batch(raising) PROVE GenerationChain'
  BY <1>0, <1>4, RejudgeSettles, SettlesKept, ChainOfKept
<1> QED
  BY <1>1, <1>2, <1>3, <1>4
  DEF Next, vars, assemble_cluster, apply_ack, auto_requeue_stuck, OfflineRun

\* A recurrence never lands on a closed cluster and never opens a second cluster
\* beside one that is still verified: generations grow, all but the last are fixed.
THEOREM GenerationsChain == Spec => []GenerationChain
<1>1. Init => ChainInv
  <2>1. DOMAIN <<>> = {}
    OBVIOUS
  <2> QED
    BY <2>1, TypeInit DEF ChainInv, Init, GenerationChain
<1>2. ChainInv /\ [Next]_vars => ChainInv'
  BY TypeNext, ChainNext DEF ChainInv
<1>3. ChainInv => GenerationChain
  BY DEF ChainInv
<1> QED
  BY <1>1, <1>2, <1>3, PTL DEF Spec

-----------------------------------------------------------------------------
(***************************************************************************)
(* A run is archived once.  verify_run_record only grows, by a row for a   *)
(* run that its cluster has none of; no step moves a link to another       *)
(* cluster, so the row stays attributed to a link of its cluster.          *)
(***************************************************************************)
RecordInv == TypeInv /\ RecordsOncePerRun

\* Links are added but never change their cluster.
LinksKept ==
    \A l \in DOMAIN links : l \in DOMAIN links' /\ links'[l].cluster = links[l].cluster

LEMMA LinksAreKept ==
    ASSUME TypeInv, [Next]_vars
    PROVE  LinksKept
<1>0. TypeOK
  BY DEF TypeInv
<1>1. ASSUME UNCHANGED links PROVE LinksKept
  BY <1>1 DEF LinksKept
<1>2. ASSUME NEW c \in DOMAIN clusters, assemble_cluster(c) PROVE LinksKept
  <2> DEFINE row == [cluster |-> c, offline |-> "assembled", reason |-> "none",
                     case |-> FALSE, verify |-> "pending", requeues |-> 0]
  <2>1. links' = Append(links, row) /\ row \in LinkRow /\ links \in Seq(LinkRow)
    BY <1>0, <1>2, RowTypes DEF assemble_cluster, LinkRow, TypeOK
  <2> HIDE DEF row
  <2> QED
    BY <2>1, AppendRow DEF LinksKept
<1>3. ASSUME NEW l \in DOMAIN links, NEW action \in {"draft", "active", "invalidated"},
             NEW has_case \in BOOLEAN, NEW reason \in REASON_CODES,
             apply_ack(l, action, has_case, reason)
      PROVE  LinksKept
  BY <1>0, <1>3, AckUntouched DEF Untouched, LinksKept
<1>4. ASSUME NEW young, auto_requeue_stuck(young) PROVE LinksKept
  BY <1>0, <1>4, RequeueUntouched DEF Untouched, LinksKept
<1>5. ASSUME NEW r \in DOMAIN runs, NEW judged \in BOOLEAN, record_regression_result(r, judged)
      PROVE  LinksKept
  BY <1>0, <1>5, RecordSettles DEF Settles, LinksKept
<1>6. ASSUME NEW raising, _rejudge_batch(raising) PROVE LinksKept
  BY <1>0, <1>6, RejudgeSettles DEF Settles, LinksKept
<1> QED
  BY <1>1, <1>2, <1>3, <1>4, <1>5, <1>6
  DEF Next, vars, merge_candidate, _apply_count, _open_cluster, OfflineRun

LEMMA RecordedOnce ==
    ASSUME RecordInv, LinksKept, NEW r \in DOMAIN runs, NEW judged,
           record_regression_result(r, judged)
    PROVE  RecordsOncePerRun'
<1> DEFINE c == links[runs[r].link].cluster
           l == _find_current_link(c)
           row == [link |-> l, cluster |-> c, run |-> r]
           new == Len(records) + 1
<1>1. records' = Append(records, row) /\ ~Recorded(c, r)
  BY DEF record_regression_result
<1>2. TypeOK /\ records \in Seq(RecordRow)
  BY DEF RecordInv, TypeInv, TypeOK
<1>3. l = ORPHAN_LINK_ID \/ (l \in DOMAIN links /\ links[l].cluster = c)
  BY CurrentLink DEF PendingLinks
<1>4. row \in RecordRow /\ row.link = l /\ row.cluster = c /\ row.run = r
  BY <1>2, <1>3, RowTypes DEF RecordRow, ORPHAN_LINK_ID
<1>5. \A i \in DOMAIN records : ~(records[i].cluster = c /\ records[i].run = r)
  BY <1>1 DEF Recorded
<1> HIDE DEF row, l, c
<1>6. /\ DOMAIN records' = DOMAIN records \cup {new} /\ new \notin DOMAIN records
      /\ \A i \in DOMAIN records : records'[i] = records[i]
      /\ records'[new] = row
  BY <1>1, <1>2, <1>4, AppendRow
<1> HIDE DEF new
<1>7. \A i, j \in DOMAIN records' :
          records'[i].cluster = records'[j].cluster /\ records'[i].run = records'[j].run => i = j
  BY <1>4, <1>5, <1>6 DEF RecordInv, RecordsOncePerRun
<1>8. \A i \in DOMAIN records' : records'[i].link # ORPHAN_LINK_ID =>
          links'[records'[i].link].cluster = records'[i].cluster
  <2> SUFFICES ASSUME NEW i \in DOMAIN records', records'[i].link # ORPHAN_LINK_ID
               PROVE  links'[records'[i].link].cluster = records'[i].cluster
    OBVIOUS
  <2>1. CASE i = new
    BY <1>3, <1>4, <1>6, <2>1 DEF LinksKept
  <2>2. CASE i # new
    <3>1. i \in DOMAIN records /\ records'[i] = records[i]
      BY <1>6, <2>2
    <3>2. records[i].link \in DOMAIN links
      BY <1>2, <3>1 DEF TypeOK
    <3> QED
      BY <3>1, <3>2 DEF RecordInv, RecordsOncePerRun, LinksKept
  <2> QED
    BY <2>1, <2>2
<1> QED
  BY <1>7, <1>8 DEF RecordsOncePerRun, ORPHAN_LINK_ID

LEMMA RecordNext == RecordInv /\ [Next]_vars => RecordsOncePerRun'
<1> SUFFICES ASSUME RecordInv, [Next]_vars PROVE RecordsOncePerRun'
  OBVIOUS
<1>1. LinksKept
  BY LinksAreKept DEF RecordInv
<1>2. ASSUME UNCHANGED records PROVE RecordsOncePerRun'
  <2>1. \A i \in DOMAIN records : records[i].link \in DOMAIN links \cup {ORPHAN_LINK_ID}
    BY DEF RecordInv, TypeInv, TypeOK
  <2> QED
    BY <1>1, <1>2, <2>1 DEF RecordInv, RecordsOncePerRun, LinksKept, ORPHAN_LINK_ID
<1>3. ASSUME NEW r \in DOMAIN runs, NEW judged \in BOOLEAN, record_regression_result(r, judged)
      PROVE  RecordsOncePerRun'
  BY <1>1, <1>3, RecordedOnce
<1> QED
  BY <1>2, <1>3
  DEF Next, vars, merge_candidate, _apply_count, _open_cluster, assemble_cluster, apply_ack,
      auto_requeue_stuck, OfflineRun, _rejudge_batch

\* However often a push is repeated, its run is in the archive of the cluster once,
\* under a link of that cluster.
THEOREM ArchivedOnce == Spec => []RecordsOncePerRun
<1>1. Init => RecordInv
  <2>1. DOMAIN <<>> = {}
    OBVIOUS
  <2> QED
    BY <2>1, TypeInit DEF RecordInv, Init, RecordsOncePerRun
<1>2. RecordInv /\ [Next]_vars => RecordInv'
  BY TypeNext, RecordNext DEF RecordInv
<1>3. RecordInv => RecordsOncePerRun
  BY DEF RecordInv
<1> QED
  BY <1>1, <1>2, <1>3, PTL DEF Spec

-----------------------------------------------------------------------------
(***************************************************************************)
(* The judgement of a link: what the kernel's reasons are in the tables.   *)
(***************************************************************************)

\* A table of results whose runs exist.
Sound(recs) ==
    recs \in Seq(RecordRow) /\ \A i \in DOMAIN recs : recs[i].run \in DOMAIN runs

LEMMA RowsAre ==
    ASSUME TypeOK, NEW recs, Sound(recs), NEW l
    PROVE  /\ DOMAIN RowsOf(recs, l) = RecordsOf(recs, l) /\ Ranked(RowsOf(recs, l))
           /\ \A i \in RecordsOf(recs, l) :
                  /\ i \in DOMAIN recs /\ recs[i].link = l /\ recs[i].run \in DOMAIN runs
                  /\ RowsOf(recs, l)[i].ver = runs[recs[i].run].ver
                  /\ RowsOf(recs, l)[i].prev = runs[recs[i].run].prev
                  /\ RowsOf(recs, l)[i].pf = _x_pf_of(runs[recs[i].run], l)
                  /\ RowsOf(recs, l)[i].na = runs[recs[i].run].na
<1> DEFINE S == RecordsOf(recs, l)
           rows == RowsOf(recs, l)
<1>1. Len(recs) \in Nat /\ DOMAIN recs = 1 .. Len(recs)
  BY LenProperties DEF Sound
<1>2. \A i \in S : i \in DOMAIN recs /\ recs[i].link = l /\ recs[i].run \in DOMAIN runs
  BY DEF RecordsOf, Sound
<1>3. DOMAIN rows = S
  BY DEF RowsOf
<1>4. \A i \in S : /\ rows[i].ver = runs[recs[i].run].ver
                   /\ rows[i].prev = runs[recs[i].run].prev
                   /\ rows[i].pf = _x_pf_of(runs[recs[i].run], l)
                   /\ rows[i].na = runs[recs[i].run].na
  <2> HIDE DEF S
  <2> QED
    BY DEF RowsOf, S
<1>5. \A i \in S : rows[i].ver \in Versions
  <2>1. \A r \in DOMAIN runs : runs[r].ver \in Versions
    BY RowTypes DEF RunRow
  <2> QED
    BY <1>2, <1>4, <2>1
<1>6. IsFiniteSet(S) /\ S \subseteq Nat
  <2>1. S \in SUBSET (1 .. Len(recs))
    BY <1>1, <1>2
  <2>2. IsFiniteSet(1 .. Len(recs))
    BY <1>1, FS_Interval
  <2> HIDE DEF S
  <2>3. S \subseteq Nat
    BY <1>1, <2>1
  <2> QED
    BY <2>1, <2>2, <2>3, FS_Subset
<1> QED
  BY <1>2, <1>3, <1>4, <1>5, <1>6 DEF Ranked

\* A verdict decided on the table recs has the kernel's reasons.
LEMMA OutcomeReasons ==
    ASSUME TypeOK, NEW recs, Sound(recs), NEW l
    PROVE  \E seen, truncated, n :
               /\ seen = _agent_versions(recs, AgentOfLink(l))
               /\ truncated = clusters[links[l].cluster].truncated
               /\ n = Cardinality(by_version(RowsOf(recs, l))) /\ n \in Nat
               /\ Outcome(recs, l) \in WalkState
               /\ \/ Outcome(recs, l) = ReplayStart
                  \/ Reasons(RowsOf(recs, l), seen, truncated, ClaimK, Outcome(recs, l), n)
<1> DEFINE seen == _agent_versions(recs, AgentOfLink(l))
           truncated == clusters[links[l].cluster].truncated
           n == Cardinality(by_version(RowsOf(recs, l)))
<1>1. Ranked(RowsOf(recs, l)) /\ ClaimK \in Nat
  BY RowsAre, BackflowAssumption
<1>2. n \in Nat
  BY <1>1, WalkOrderIs
<1>3. CASE links[l].case /\ links[l].verify = "pending"
  <2>1. Outcome(recs, l) = _replay_k(RowsOf(recs, l), seen, truncated, ClaimK)
    BY <1>3 DEF Outcome, Replay
  <2> HIDE DEF seen, truncated
  <2>2. Reasons(RowsOf(recs, l), seen, truncated, ClaimK, Outcome(recs, l), n)
    BY <1>1, <2>1, ReplayReasons
  <2>3. Outcome(recs, l) \in WalkState
    BY <2>2 DEF Reasons
  <2> QED
    BY <1>2, <2>2, <2>3 DEF seen, truncated
<1>4. CASE ~(links[l].case /\ links[l].verify = "pending")
  <2>1. Outcome(recs, l) = ReplayStart
    BY <1>4 DEF Outcome
  <2>2. ReplayStart \in WalkState
    BY DEF ReplayStart, WalkState
  <2> QED
    BY <1>2, <2>1, <2>2
<1> QED
  BY <1>3, <1>4

\* A failure is decided on a received run of the link's own case that failed.
LEMMA FailureDecided ==
    ASSUME TypeOK, NEW recs, Sound(recs), NEW l, Outcome(recs, l).stop = "reopened"
    PROVE  \E i \in RecordsOf(recs, l) :
               runs[recs[i].run].link = l /\ runs[recs[i].run].pf = "fail"
<1> DEFINE rows == RowsOf(recs, l)
<1>1. PICK seen, truncated, n :
          \/ Outcome(recs, l) = ReplayStart
          \/ Reasons(rows, seen, truncated, ClaimK, Outcome(recs, l), n)
  BY OutcomeReasons
<1>2. Outcome(recs, l) # ReplayStart
  BY DEF ReplayStart
<1>3. PICK i \in DOMAIN rows : Says(rows, truncated, i) = "reopen"
  BY <1>1, <1>2 DEF Reasons
<1>4. i \in RecordsOf(recs, l) /\ rows[i].pf = _x_pf_of(runs[recs[i].run], l)
  BY <1>3, RowsAre
<1> HIDE DEF rows
<1>5. rows[i].pf = "fail"
  <2>1. Says(rows, truncated, i) = route_verdict(rows[i].pf, rows[i].na, truncated)
    BY DEF Says
  <2> QED
    BY <1>3, <2>1 DEF route_verdict
<1>6. runs[recs[i].run].link = l /\ runs[recs[i].run].pf = "fail"
  BY <1>4, <1>5 DEF _x_pf_of
<1> QED
  BY <1>4, <1>6

\* A review is asked for when the result received last is a polluted run.
LEMMA PollutionDecided ==
    ASSUME TypeOK, NEW recs, Sound(recs), NEW l, Outcome(recs, l).unclean
    PROVE  /\ Max(RecordsOf(recs, l)) \in RecordsOf(recs, l)
           /\ env_na_types(runs[recs[Max(RecordsOf(recs, l))].run].na) # {}
<1> DEFINE rows == RowsOf(recs, l)
           S == RecordsOf(recs, l)
<1>1. PICK seen, truncated, n :
          \/ Outcome(recs, l) = ReplayStart
          \/ Reasons(rows, seen, truncated, ClaimK, Outcome(recs, l), n)
  BY OutcomeReasons
<1>2. Outcome(recs, l) # ReplayStart
  BY DEF ReplayStart
<1>3. PICK i \in DOMAIN rows : IsLast(rows, i) /\ Says(rows, truncated, i) = "unclean_run"
  BY <1>1, <1>2 DEF Reasons
<1>4. DOMAIN rows = S /\ S \subseteq Nat /\ i \in S /\ rows[i].na = runs[recs[i].run].na
  BY <1>3, RowsAre DEF Ranked
<1>5. env_na_types(rows[i].na) # {}
  <2>1. Says(rows, truncated, i) = route_verdict(rows[i].pf, rows[i].na, truncated)
    BY DEF Says
  <2> HIDE DEF rows
  <2> QED
    BY <1>3, <2>1 DEF route_verdict
<1>6. \A j \in S : j <= i
  BY <1>3, <1>4 DEF IsLast
<1> HIDE DEF rows, S
<1>7. Max(S) = i
  <2>1. S \subseteq 0 .. i /\ i \in Nat
    <3>1. i \in Nat /\ \A j \in S : j \in Nat /\ j <= i
      BY <1>4, <1>6
    <3>2. \A j \in S : j \in 0 .. i
      BY <3>1
    <3> QED
      BY <3>1, <3>2
  <2>2. Max(S) \in S /\ \A x \in S : x <= Max(S)
    BY <1>4, <2>1, MaxOfBounded
  <2>3. Max(S) <= i /\ i <= Max(S) /\ Max(S) \in Nat
    BY <1>4, <1>6, <2>2
  <2> QED
    BY <2>1, <2>3
<1> QED
  BY <1>4, <1>5, <1>7 DEF S

\* A pass is decided on received pure passes of the link's own case, of K versions.
PassesOf(recs, l) ==
    {r \in {recs[i].run : i \in {j \in DOMAIN recs : recs[j].link = l}} :
        runs[r].link = l /\ PurePass(r)}

LEMMA CountsIsPure ==
    ASSUME TypeOK, NEW recs, Sound(recs), NEW l, NEW truncated,
           NEW i \in RecordsOf(recs, l), Counts(RowsOf(recs, l), truncated, i)
    PROVE  recs[i].run \in PassesOf(recs, l)
<1> DEFINE rows == RowsOf(recs, l)
           run == runs[recs[i].run]
<1>1. /\ i \in DOMAIN recs /\ recs[i].link = l /\ recs[i].run \in DOMAIN runs
      /\ rows[i].pf = _x_pf_of(run, l) /\ rows[i].na = run.na
  BY RowsAre
<1>2. run.pf \in PassFail
  BY <1>1, RowTypes DEF RunRow
<1> HIDE DEF rows
<1>3. rows[i].pf # "nocases" /\ route_verdict(rows[i].pf, rows[i].na, truncated) = "count_k"
  BY DEF Counts, Says, rows
<1>4. rows[i].pf \in {"pass", "fail", "na", "missing", "nocases"}
  BY <1>1, <1>2 DEF _x_pf_of, PassFail
<1>5. rows[i].pf = "pass" /\ env_na_types(rows[i].na) = {}
  BY <1>3, <1>4 DEF route_verdict
<1>6. run.link = l /\ run.pf = "pass"
  BY <1>1, <1>5 DEF _x_pf_of
<1> QED
  BY <1>1, <1>5, <1>6 DEF PassesOf, PurePass

VersionsOf(table, P) == {table[r].ver : r \in P}

LEMMA VersionsFinite ==
    ASSUME NEW n \in Nat, NEW P, P \subseteq 1 .. n, NEW table
    PROVE  IsFiniteSet(VersionsOf(table, P)) /\ Cardinality(VersionsOf(table, P)) \in Nat
<1> DEFINE g == [r \in P |-> table[r].ver]
<1>1. IsFiniteSet(P)
  <2>1. IsFiniteSet(1 .. n)
    BY FS_Interval
  <2> QED
    BY <2>1, FS_Subset
<1>2. g \in Surjection(P, VersionsOf(table, P))
  BY DEF Surjection, VersionsOf
<1>3. IsFiniteSet(VersionsOf(table, P))
  <2> HIDE DEF g
  <2> QED
    BY <1>1, <1>2, FS_Surjection
<1> QED
  BY <1>3, FS_CardinalityType

\* The runs behind the last q of the first e versions of a walk.
WalkRuns(recs, l, e, q) ==
    {recs[WalkOrder(RowsOf(recs, l))[m]].run : m \in e - q + 1 .. e}

\* A pass is decided on a run of versions that count, of K versions at least.
LEMMA PassRun ==
    ASSUME TypeOK, NEW recs, Sound(recs), NEW l, Outcome(recs, l).stop = "passed"
    PROVE  \E truncated : \E e \in 1 .. Cardinality(by_version(RowsOf(recs, l))) : \E q \in 1 .. e :
               /\ PureRun(RowsOf(recs, l), _agent_versions(recs, AgentOfLink(l)), truncated, e, q)
               /\ WalkRuns(recs, l, e, q) \subseteq PassesOf(recs, l)
               /\ Cardinality(VersionsOf(runs, WalkRuns(recs, l, e, q))) >= ClaimK
<1> DEFINE rows == RowsOf(recs, l)
           W == WalkOrder(rows)
<1>1. PICK seen, truncated, n :
          /\ seen = _agent_versions(recs, AgentOfLink(l))
          /\ n = Cardinality(by_version(rows)) /\ n \in Nat
          /\ Outcome(recs, l) \in WalkState
          /\ \/ Outcome(recs, l) = ReplayStart
             \/ Reasons(rows, seen, truncated, ClaimK, Outcome(recs, l), n)
  BY OutcomeReasons
<1>2. Outcome(recs, l) # ReplayStart
  BY DEF ReplayStart
<1> DEFINE q == Outcome(recs, l).seq
<1>3. PICK e \in 1 .. n : q >= ClaimK /\ PureRun(rows, seen, truncated, e, q)
  BY <1>1, <1>2 DEF Reasons
<1>4. q \in Nat /\ e \in Nat /\ q \in 1 .. e /\ ClaimK \in Nat
  BY <1>1, <1>3, BackflowAssumption DEF WalkState, PureRun
<1>5. /\ W \in [1 .. n -> by_version(rows)]
      /\ \A a, b \in 1 .. n : a < b => Before(rows, W[a], W[b])
  BY <1>1, RowsAre, WalkOrderIs
<1> DEFINE I == e - q + 1 .. e
           P == WalkRuns(recs, l, e, q)
           T == VersionsOf(runs, P)
           g == [m \in I |-> rows[W[m]].ver]
<1>6. \A m \in I : m \in 1 .. n /\ W[m] \in by_version(rows)
  <2>1. \A m \in I : m \in 1 .. n
    <3> HIDE DEF q
    <3> QED
      BY <1>1, <1>3, <1>4
  <2> HIDE DEF I, W
  <2> QED
    BY <1>5, <2>1
<1>7. \A m \in I : recs[W[m]].run \in PassesOf(recs, l)
  <2> SUFFICES ASSUME NEW m \in I PROVE recs[W[m]].run \in PassesOf(recs, l)
    OBVIOUS
  <2>1. W[m] \in RecordsOf(recs, l)
    BY <1>6, RowsAre DEF by_version
  <2>2. Counts(rows, truncated, W[m])
    BY <1>3 DEF PureRun
  <2> QED
    BY <2>1, <2>2, CountsIsPure
<1>8. P \subseteq PassesOf(recs, l)
  <2> HIDE DEF I, W
  <2> QED
    BY <1>7 DEF WalkRuns, W, I
<1>9. \A m \in I : rows[W[m]].ver \in T
  <2> SUFFICES ASSUME NEW m \in I PROVE rows[W[m]].ver \in T
    OBVIOUS
  <2>1. recs[W[m]].run \in P
    BY DEF WalkRuns
  <2>2. rows[W[m]].ver = runs[recs[W[m]].run].ver
    BY <1>6, RowsAre DEF by_version
  <2> HIDE DEF P
  <2> QED
    BY <2>1, <2>2 DEF VersionsOf
<1>10. \A a, b \in I : a # b => rows[W[a]].ver # rows[W[b]].ver
  <2> SUFFICES ASSUME NEW a \in I, NEW b \in I, a # b PROVE rows[W[a]].ver # rows[W[b]].ver
    OBVIOUS
  <2>1. a \in 1 .. n /\ b \in 1 .. n /\ W[a] \in by_version(rows) /\ W[b] \in by_version(rows)
    BY <1>6
  <2> HIDE DEF I, W
  <2>2. a < b \/ b < a
    BY <1>1, <2>1
  <2>3. Before(rows, W[a], W[b]) \/ Before(rows, W[b], W[a])
    BY <1>5, <2>1, <2>2
  <2>4. W[a] # W[b]
    BY <2>1, <2>3, RowsAre, BeforeTotal
  <2>5. W[a] \in DOMAIN rows /\ W[b] \in DOMAIN rows /\ DOMAIN rows \subseteq Nat
    BY <2>1, RowsAre DEF by_version, Ranked
  <2>6. W[a] < W[b] \/ W[b] < W[a]
    <3> HIDE DEF rows
    <3> QED
      BY <2>4, <2>5
  <2> QED
    BY <2>1, <2>5, <2>6 DEF by_version
<1>11. IsFiniteSet(T) /\ Cardinality(T) \in Nat
  <2>1. P \subseteq 1 .. Len(runs) /\ Len(runs) \in Nat
    BY <1>8, RowTypes DEF PassesOf, Sound
  <2> HIDE DEF P
  <2> QED
    BY <2>1, VersionsFinite
<1>12. Cardinality(I) <= Cardinality(T)
  <2>1. g \in Injection(I, T)
    <3> HIDE DEF T, I, W, rows
    <3> QED
      BY <1>9, <1>10 DEF Injection, IsInjective
  <2> HIDE DEF g, T, I
  <2> QED
    BY <1>11, <2>1, FS_Injection
<1>13. Cardinality(I) = q
  <2> HIDE DEF q
  <2>1. e - q + 1 \in Int /\ e \in Int /\ ~(e - q + 1 > e) /\ e - (e - q + 1) + 1 = q
    BY <1>4
  <2> QED
    BY <2>1, FS_Interval
<1>14. Cardinality(T) >= ClaimK
  <2> HIDE DEF T, I, q
  <2> QED
    BY <1>3, <1>4, <1>11, <1>12, <1>13
<1> HIDE DEF q
<1> QED
  BY <1>1, <1>3, <1>4, <1>8, <1>14

LEMMA PassDecided ==
    ASSUME TypeOK, NEW recs, Sound(recs), NEW l, Outcome(recs, l).stop = "passed"
    PROVE  Cardinality(VersionsOf(runs, PassesOf(recs, l))) >= ClaimK
<1>1. PICK P : P \subseteq PassesOf(recs, l) /\ Cardinality(VersionsOf(runs, P)) >= ClaimK
  BY PassRun
<1>2. PassesOf(recs, l) \subseteq 1 .. Len(runs) /\ Len(runs) \in Nat
  BY RowTypes DEF PassesOf, Sound
<1> DEFINE S == VersionsOf(runs, P)
           T == VersionsOf(runs, PassesOf(recs, l))
<1>3. S \subseteq T
  BY <1>1 DEF VersionsOf
<1>4. IsFiniteSet(S) /\ Cardinality(S) \in Nat /\ IsFiniteSet(T) /\ Cardinality(T) \in Nat
  BY <1>1, <1>2, VersionsFinite
<1> HIDE DEF S, T
<1>5. Cardinality(S) <= Cardinality(T)
  BY <1>3, <1>4, FS_Subset
<1>6. ClaimK \in Nat /\ Cardinality(S) >= ClaimK
  BY <1>1, BackflowAssumption DEF S
<1>7. Cardinality(T) >= ClaimK
  BY <1>4, <1>5, <1>6
<1> QED
  BY <1>7 DEF T

-----------------------------------------------------------------------------
(***************************************************************************)
(* The three kinds of step.  A judgement decides the links of J on the     *)
(* table recs.  Any other step leaves the verdicts, the audit trail and    *)
(* the closed clusters alone, and at most opens a cluster.                 *)
(***************************************************************************)
Judged(recs, J) ==
    /\ \A l \in J : /\ l \in DOMAIN links /\ links[l].verify = "pending"
                    /\ clusters[links[l].cluster].status = "open"
    /\ Settles(Decided(recs, J, "passed"))
    /\ \A l \in DOMAIN links : links[l].verify = "pending" =>
           /\ links'[l].verify = "passed" <=> l \in J /\ Outcome(recs, l).stop = "passed"
           /\ links'[l].verify = "failed" <=> l \in J /\ Outcome(recs, l).stop = "reopened"
    /\ \A c \in DOMAIN clusters :
           /\ conv'[c].auto_fixed = conv[c].auto_fixed
                  + (IF c \in Decided(recs, J, "passed") THEN 1 ELSE 0)
           /\ conv'[c].reopen = conv[c].reopen
                  + (IF c \in Decided(recs, J, "reopened") THEN 1 ELSE 0)
    /\ batches' = batches \cup {UncleanRef(recs, l) : l \in {m \in J : Outcome(recs, m).unclean}}

\* OnePending makes the judged link the only pending one of its cluster, so the
\* UPDATE of the cluster's pending links reaches no other.
LEMMA JudgeDecides ==
    ASSUME TypeOK, OnePending, NEW recs, NEW J, judge_link(recs, J),
           \A l \in J : /\ l \in DOMAIN links /\ links[l].verify = "pending"
                        /\ clusters[links[l].cluster].status = "open"
    PROVE  Judged(recs, J)
<1> DEFINE passed == Decided(recs, J, "passed")
           failed == Decided(recs, J, "reopened")
<1>1. _apply_terminal(passed, failed)
  BY DEF judge_link
<1>2. Settles(passed)
  <2> HIDE DEF passed, failed
  <2> QED
    BY <1>1, TerminalSettles
<1>3. /\ links' = [l \in DOMAIN links |->
             IF links[l].verify # "pending" THEN links[l]
             ELSE IF links[l].cluster \in passed THEN [links[l] EXCEPT !.verify = "passed"]
             ELSE IF links[l].cluster \in failed THEN [links[l] EXCEPT !.verify = "failed"]
             ELSE links[l]]
      /\ conv' = [c \in DOMAIN conv |->
             [auto_fixed |-> conv[c].auto_fixed + (IF c \in passed THEN 1 ELSE 0),
              reopen |-> conv[c].reopen + (IF c \in failed THEN 1 ELSE 0)]]
  BY <1>1 DEF _apply_terminal, _mark_pending_links
<1>4. ASSUME NEW l \in DOMAIN links, links[l].verify = "pending", NEW stop
      PROVE  links[l].cluster \in Decided(recs, J, stop) <=> l \in J /\ Outcome(recs, l).stop = stop
  <2>1. ASSUME links[l].cluster \in Decided(recs, J, stop) PROVE l \in J /\ Outcome(recs, l).stop = stop
    <3>1. PICK m \in J : Outcome(recs, m).stop = stop /\ links[m].cluster = links[l].cluster
      BY <2>1 DEF Decided
    <3>2. m = l
      BY <1>4, <3>1 DEF OnePending
    <3> QED
      BY <3>1, <3>2
  <2>2. ASSUME l \in J, Outcome(recs, l).stop = stop PROVE links[l].cluster \in Decided(recs, J, stop)
    BY <2>2 DEF Decided
  <2> QED
    BY <2>1, <2>2
<1>5. ASSUME NEW l \in DOMAIN links, links[l].verify = "pending"
      PROVE  /\ links'[l].verify = "passed" <=> l \in J /\ Outcome(recs, l).stop = "passed"
             /\ links'[l].verify = "failed" <=> l \in J /\ Outcome(recs, l).stop = "reopened"
  <2>1. links[l] \in LinkRow
    BY RowTypes
  <2>2. links[l].cluster \in passed <=> l \in J /\ Outcome(recs, l).stop = "passed"
    BY <1>4, <1>5
  <2>3. links[l].cluster \in failed <=> l \in J /\ Outcome(recs, l).stop = "reopened"
    BY <1>4, <1>5
  <2> HIDE DEF passed, failed
  <2>4. CASE links[l].cluster \in passed
    <3>1. links'[l] = [links[l] EXCEPT !.verify = "passed"]
      BY <1>3, <1>5, <2>4
    <3>2. links'[l].verify = "passed"
      BY <2>1, <3>1 DEF LinkRow
    <3> QED
      BY <2>2, <2>3, <2>4, <3>2
  <2>5. CASE links[l].cluster \notin passed /\ links[l].cluster \in failed
    <3>1. links'[l] = [links[l] EXCEPT !.verify = "failed"]
      BY <1>3, <1>5, <2>5
    <3>2. links'[l].verify = "failed"
      BY <2>1, <3>1 DEF LinkRow
    <3> QED
      BY <2>2, <2>3, <2>5, <3>2
  <2>6. CASE links[l].cluster \notin passed /\ links[l].cluster \notin failed
    <3>1. links'[l].verify = "pending"
      BY <1>3, <1>5, <2>6
    <3> QED
      BY <2>2, <2>3, <2>6, <3>1
  <2> QED
    BY <2>4, <2>5, <2>6
<1>6. \A c \in DOMAIN clusters :
          /\ conv'[c].auto_fixed = conv[c].auto_fixed + (IF c \in passed THEN 1 ELSE 0)
          /\ conv'[c].reopen = conv[c].reopen + (IF c \in failed THEN 1 ELSE 0)
  <2>1. DOMAIN conv = DOMAIN clusters
    BY RowTypes
  <2> HIDE DEF passed, failed
  <2> QED
    BY <1>3, <2>1
<1>7. batches' = batches \cup {UncleanRef(recs, l) : l \in {m \in J : Outcome(recs, m).unclean}}
  BY DEF judge_link
<1> QED
  BY <1>2, <1>5, <1>6, <1>7 DEF Judged

LEMMA NothingJudged ==
    ASSUME TypeOK, NEW recs, UNCHANGED <<clusters, links, conv, batches>>
    PROVE  Judged(recs, {})
<1>1. \A stop : Decided(recs, {}, stop) = {}
  BY DEF Decided
<1>2. Settles({})
  BY NothingSettled
<1>3. \A c \in DOMAIN clusters : conv[c].auto_fixed \in Nat /\ conv[c].reopen \in Nat
  BY RowTypes DEF ConvRow
<1>4. \A c \in DOMAIN clusters : /\ conv[c].auto_fixed + 0 = conv[c].auto_fixed
                                 /\ conv[c].reopen + 0 = conv[c].reopen
  BY <1>3
<1> QED
  BY <1>1, <1>2, <1>4 DEF Judged

Judging(recs) == recs = records' /\ Sound(recs) /\ runs' = runs /\ \E J : Judged(recs, J)

LEMMA RecordJudges ==
    ASSUME AgreeInv, TypeOK', NEW r \in DOMAIN runs, NEW judged, record_regression_result(r, judged)
    PROVE  \E recs : Judging(recs)
<1> DEFINE c == links[runs[r].link].cluster
           l == _find_current_link(c)
           recs == Append(records, [link |-> l, cluster |-> c, run |-> r])
<1>0. TypeOK /\ OnePending
  BY DEF AgreeInv, TypeInv, LinkClusterAgree
<1>1. records' = recs /\ runs' = runs
  BY DEF record_regression_result
<1>2. Sound(recs)
  <2>1. records' \in Seq(RecordRow) /\ \A i \in DOMAIN records' : records'[i].run \in DOMAIN runs'
    BY DEF TypeOK
  <2> HIDE DEF recs
  <2> QED
    BY <1>1, <2>1 DEF Sound
<1>3. CASE l # ORPHAN_LINK_ID /\ clusters[c].status = "open" /\ judged
  <2>1. judge_link(recs, {l})
    BY <1>3 DEF record_regression_result
  <2>2. l \in DOMAIN links /\ links[l].verify = "pending" /\ links[l].cluster = c
    BY <1>3, CurrentLink DEF PendingLinks
  <2>3. clusters[links[l].cluster].status = "open"
    BY <1>3, <2>2
  <2> HIDE DEF l, recs
  <2>4. Judged(recs, {l})
    BY <1>0, <2>1, <2>2, <2>3, JudgeDecides
  <2> QED
    BY <1>1, <1>2, <2>4 DEF Judging
<1>4. CASE ~(l # ORPHAN_LINK_ID /\ clusters[c].status = "open" /\ judged)
  <2>1. UNCHANGED <<clusters, links, conv, batches>>
    BY <1>4 DEF record_regression_result
  <2> HIDE DEF recs
  <2>2. Judged(recs, {})
    BY <1>0, <2>1, NothingJudged
  <2> QED
    BY <1>1, <1>2, <2>2 DEF Judging
<1> QED
  BY <1>3, <1>4

LEMMA RejudgeJudges ==
    ASSUME AgreeInv, NEW raising, _rejudge_batch(raising)
    PROVE  \E recs : Judging(recs)
<1> DEFINE J == RejudgeLinks \ raising
<1>0. TypeOK /\ OnePending
  BY DEF AgreeInv, TypeInv, LinkClusterAgree
<1>1. judge_link(records, J) /\ records' = records /\ runs' = runs
  BY DEF _rejudge_batch
<1>2. \A l \in J : /\ l \in DOMAIN links /\ links[l].verify = "pending"
                   /\ clusters[links[l].cluster].status = "open"
  BY DEF RejudgeLinks, FirstBatch, RejudgeCandidates
<1>3. Sound(records)
  BY <1>0 DEF TypeOK, Sound
<1> HIDE DEF J
<1>4. Judged(records, J)
  BY <1>0, <1>1, <1>2, JudgeDecides
<1> QED
  BY <1>1, <1>3, <1>4 DEF Judging

\* Neither a verdict nor the audit trail nor a closed cluster changes.
Quiet ==
    /\ UNCHANGED <<records, conv, batches>>
    /\ DOMAIN clusters' = DOMAIN clusters
    /\ \A c \in DOMAIN clusters :
           /\ clusters'[c].status = clusters[c].status
           /\ clusters[c].status = "fixed" => clusters'[c] = clusters[c]
    /\ \A l \in DOMAIN links : /\ l \in DOMAIN links'
                               /\ links'[l].cluster = links[l].cluster
                               /\ links'[l].verify = links[l].verify
    /\ \A l \in DOMAIN links' : l \notin DOMAIN links => links'[l].verify = "pending"

Opens == \E row :
    /\ row.status = "open"
    /\ clusters' = Append(clusters, row)
    /\ conv' = Append(conv, [auto_fixed |-> 0, reopen |-> 0])
    /\ UNCHANGED <<links, records, batches, runs>>

\* An occurrence is counted on the last generation of its key.
LEMMA CountQuiet ==
    ASSUME TypeInv, NEW key, NEW snapshot, NEW truncated, _apply_count(key, snapshot, truncated)
    PROVE  Quiet
<1> DEFINE S == CurrentClusters(key)
           G == {clusters[c].generation : c \in S}
           n == Len(clusters)
           best == CHOOSE c \in S : \A d \in S : clusters[d].generation <= clusters[c].generation
<1>0. TypeOK
  BY DEF TypeInv
<1>1. n \in Nat /\ DOMAIN clusters = 1 .. n
  BY <1>0, RowTypes
<1>2. \A c \in S : clusters[c].generation \in 0 .. n
  <2> SUFFICES ASSUME NEW c \in S PROVE clusters[c].generation \in 0 .. n
    OBVIOUS
  <2>1. c \in 1 .. n /\ clusters[c].generation \in 1 .. c
    BY <1>1 DEF CurrentClusters, ClustersOf, TypeInv, GenerationBound
  <2> QED
    BY <1>1, <2>1
<1>3. S # {}
  BY DEF _apply_count
<1>4. best \in S
  <2>1. G \subseteq 0 .. n /\ G # {}
    BY <1>2, <1>3
  <2>2. Max(G) \in G /\ \A x \in G : x <= Max(G)
    <3> HIDE DEF G, n
    <3> QED
      BY <1>1, <2>1, MaxOfBounded
  <2>3. PICK c \in S : Max(G) = clusters[c].generation
    BY <2>2
  <2>4. \A d \in S : clusters[d].generation <= clusters[c].generation
    BY <2>2, <2>3
  <2> HIDE DEF S, G
  <2> QED
    BY <2>4
<1>5. clusters' = [clusters EXCEPT ![best].truncated = truncated, ![best].snapshot = @ \/ snapshot]
      /\ UNCHANGED <<links, records, batches, conv, runs>>
  BY DEF _apply_count
<1>6. clusters[best].status # "fixed"
  BY <1>4 DEF CurrentClusters, NON_TERMINAL_STATUSES
<1> HIDE DEF best
<1>7. \A d \in DOMAIN clusters : d # best => clusters'[d] = clusters[d]
  BY <1>5
<1>8. \A d \in DOMAIN clusters : clusters'[d].status = clusters[d].status
  BY <1>0, <1>5, CountUntouched DEF Untouched
<1>9. DOMAIN clusters' = DOMAIN clusters
  BY <1>5
<1> QED
  BY <1>5, <1>6, <1>7, <1>8, <1>9 DEF Quiet

LEMMA AssembleQuiet ==
    ASSUME TypeInv, NEW c \in DOMAIN clusters, assemble_cluster(c)
    PROVE  Quiet
<1> DEFINE row == [cluster |-> c, offline |-> "assembled", reason |-> "none",
                   case |-> FALSE, verify |-> "pending", requeues |-> 0]
<1>1. links' = Append(links, row) /\ UNCHANGED <<clusters, records, batches, conv, runs>>
  BY DEF assemble_cluster
<1>2. links \in Seq(LinkRow) /\ row \in LinkRow /\ row.verify = "pending"
  BY RowTypes DEF TypeInv, TypeOK, LinkRow
<1> HIDE DEF row
<1>3. /\ DOMAIN links' = DOMAIN links \cup {Len(links) + 1}
      /\ \A l \in DOMAIN links : links'[l] = links[l]
      /\ links'[Len(links) + 1] = row
  BY <1>1, <1>2, AppendRow
<1> QED
  BY <1>1, <1>2, <1>3 DEF Quiet

LEMMA UntouchedQuiet ==
    ASSUME Untouched, UNCHANGED <<clusters, records, conv, batches>>
    PROVE  Quiet
BY DEF Untouched, Quiet

LEMMA StepKinds ==
    ASSUME AgreeInv, TypeOK', [Next]_vars
    PROVE  Quiet \/ Opens \/ \E recs : Judging(recs)
<1>0. TypeInv /\ TypeOK
  BY DEF AgreeInv, TypeInv
<1>1. ASSUME NEW key \in Keys, NEW o \in Occurrences, NEW reopen \in BOOLEAN,
             merge_candidate(key, o.snapshot, o.truncated, reopen)
      PROVE  Quiet \/ Opens
  <2>1. CASE _apply_count(key, o.snapshot, o.truncated)
    BY <1>0, <2>1, CountQuiet
  <2>2. CASE _open_cluster(key, o.snapshot, o.truncated, reopen)
    <3> DEFINE row == [key |-> key, generation |-> NextGeneration(key), status |-> "open",
                       snapshot |-> o.snapshot, truncated |-> o.truncated]
    <3>1. /\ row.status = "open" /\ clusters' = Append(clusters, row)
          /\ conv' = Append(conv, [auto_fixed |-> 0, reopen |-> 0])
          /\ UNCHANGED <<links, records, batches, runs>>
      BY <2>2 DEF _open_cluster
    <3> QED
      BY <3>1 DEF Opens
  <2> QED
    BY <1>1, <2>1, <2>2 DEF merge_candidate
<1>2. ASSUME NEW c \in DOMAIN clusters, assemble_cluster(c) PROVE Quiet
  BY <1>0, <1>2, AssembleQuiet
<1>3. ASSUME NEW l \in DOMAIN links, NEW action \in {"draft", "active", "invalidated"},
             NEW has_case \in BOOLEAN, NEW reason \in REASON_CODES,
             apply_ack(l, action, has_case, reason)
      PROVE  Quiet
  BY <1>0, <1>3, AckUntouched, UntouchedQuiet DEF apply_ack
<1>4. ASSUME NEW young, auto_requeue_stuck(young) PROVE Quiet
  BY <1>0, <1>4, RequeueUntouched, UntouchedQuiet DEF auto_requeue_stuck
<1>5. ASSUME UNCHANGED <<clusters, links, records, batches, conv>> PROVE Quiet
  BY <1>5 DEF Quiet
<1>6. ASSUME NEW r \in DOMAIN runs, NEW judged \in BOOLEAN, record_regression_result(r, judged)
      PROVE  \E recs : Judging(recs)
  BY <1>6, RecordJudges
<1>7. ASSUME NEW raising, _rejudge_batch(raising) PROVE \E recs : Judging(recs)
  BY <1>7, RejudgeJudges
<1> QED
  BY <1>1, <1>2, <1>3, <1>4, <1>5, <1>6, <1>7 DEF Next, vars, OfflineRun

\* verify_run_record only grows, by a result of a pending link or of none.
LEMMA ResultsGrow ==
    ASSUME TypeInv, [Next]_vars
    PROVE  \/ UNCHANGED records
           \/ \E row \in RecordRow :
                  /\ records' = Append(records, row)
                  /\ row.link = ORPHAN_LINK_ID
                     \/ (row.link \in DOMAIN links /\ links[row.link].verify = "pending")
<1>1. ASSUME NEW r \in DOMAIN runs, NEW judged \in BOOLEAN, record_regression_result(r, judged)
      PROVE  \E row \in RecordRow :
                  /\ records' = Append(records, row)
                  /\ row.link = ORPHAN_LINK_ID
                     \/ (row.link \in DOMAIN links /\ links[row.link].verify = "pending")
  <2> DEFINE c == links[runs[r].link].cluster
             l == _find_current_link(c)
             row == [link |-> l, cluster |-> c, run |-> r]
  <2>1. records' = Append(records, row)
    BY <1>1 DEF record_regression_result
  <2>2. l = ORPHAN_LINK_ID \/ (l \in DOMAIN links /\ links[l].verify = "pending")
    BY CurrentLink DEF PendingLinks
  <2>3. row \in RecordRow /\ row.link = l
    BY <2>2, RowTypes DEF TypeInv, RecordRow, ORPHAN_LINK_ID
  <2> HIDE DEF row, l
  <2> QED
    BY <2>1, <2>2, <2>3
<1> QED
  BY <1>1 DEF Next, vars, merge_candidate, _apply_count, _open_cluster, assemble_cluster,
      apply_ack, auto_requeue_stuck, OfflineRun, _rejudge_batch

\* Hence a received result stays as it is, and so does the run it archives.
LEMMA ResultsStay ==
    ASSUME TypeInv, [Next]_vars
    PROVE  /\ \A i \in DOMAIN records : i \in DOMAIN records' /\ records'[i] = records[i]
           /\ \A r \in DOMAIN runs : r \in DOMAIN runs' /\ runs'[r] = runs[r]
<1>1. records \in Seq(RecordRow) /\ runs \in Seq(RunRow) /\ runs' \in Seq(RunRow)
  BY TypeNext DEF TypeInv, TypeOK
<1>2. \A i \in DOMAIN records : i \in DOMAIN records' /\ records'[i] = records[i]
  <2>1. CASE UNCHANGED records
    BY <2>1
  <2>2. CASE \E row \in RecordRow : records' = Append(records, row)
    BY <1>1, <2>2, AppendRow
  <2> QED
    BY <2>1, <2>2, ResultsGrow
<1>3. \A r \in DOMAIN runs : r \in DOMAIN runs' /\ runs'[r] = runs[r]
  <2>1. ASSUME NEW l \in DOMAIN links, NEW v \in Versions, NEW o \in Outcomes, OfflineRun(l, v, o)
        PROVE  \A r \in DOMAIN runs : r \in DOMAIN runs' /\ runs'[r] = runs[r]
    <3> DEFINE row == [link |-> l, ver |-> v, prev |-> LastVersion(AgentOfLink(l)),
                       pf |-> o.pf, na |-> o.na]
    <3>1. runs' = Append(runs, row)
      BY <2>1 DEF OfflineRun
    <3> HIDE DEF row
    <3>2. Len(runs) \in Nat /\ DOMAIN runs = 1 .. Len(runs)
      BY <1>1, LenProperties
    <3>3. /\ \A r \in 1 .. Len(runs) : runs'[r] = runs[r]
          /\ Len(runs') = Len(runs) + 1
      BY <1>1, <3>1, <3>2
    <3>4. DOMAIN runs' = 1 .. Len(runs')
      BY <1>1, LenProperties
    <3> QED
      BY <3>2, <3>3, <3>4
  <2> QED
    BY <2>1 DEF Next, vars, merge_candidate, _apply_count, _open_cluster, assemble_cluster,
      apply_ack, auto_requeue_stuck, record_regression_result, _rejudge_batch
<1> QED
  BY <1>2, <1>3

-----------------------------------------------------------------------------
(***************************************************************************)
(* Terminal is read-only.  A verdict is written to pending links only, a   *)
(* result is attributed to the pending link or to none, and a cluster that *)
(* is written to is current: one that still has a pending link, or the one *)
(* an occurrence is counted on.                                            *)
(***************************************************************************)
TerminalKept ==
    /\ \A l \in DOMAIN links : links[l].verify # "pending" =>
           /\ links'[l].verify = links[l].verify
           /\ RecordsOf(records', l) = RecordsOf(records, l)
           /\ \A i \in RecordsOf(records, l) : records'[i] = records[i]
    /\ \A c \in DOMAIN clusters :
           clusters[c].status = "fixed" => clusters'[c] = clusters[c]

LEMMA VerdictsKept ==
    ASSUME AgreeInv, TypeOK', [Next]_vars
    PROVE  /\ \A l \in DOMAIN links : links[l].verify # "pending" => links'[l].verify = links[l].verify
           /\ \A c \in DOMAIN clusters :
                  clusters[c].status = "fixed" => clusters'[c] = clusters[c]
<1>1. ASSUME Opens
      PROVE  /\ \A l \in DOMAIN links : links'[l].verify = links[l].verify
             /\ \A c \in DOMAIN clusters : clusters'[c] = clusters[c]
  <2>1. PICK row : clusters' = Append(clusters, row) /\ links' = links
    BY <1>1 DEF Opens
  <2>2. clusters \in Seq(ClusterRow) /\ Len(clusters) \in Nat /\ DOMAIN clusters = 1 .. Len(clusters)
    BY RowTypes DEF AgreeInv, TypeInv, TypeOK
  <2> QED
    BY <2>1, <2>2
<1>2. ASSUME NEW recs, Judging(recs)
      PROVE  /\ \A l \in DOMAIN links : links[l].verify # "pending" => links'[l].verify = links[l].verify
             /\ \A c \in DOMAIN clusters :
                    clusters[c].status = "fixed" => clusters'[c] = clusters[c]
  <2>1. PICK J : Judged(recs, J)
    BY <1>2 DEF Judging
  <2>2. \A c \in Decided(recs, J, "passed") : clusters[c].status = "open"
    BY <2>1 DEF Judged, Decided
  <2> QED
    BY <2>1, <2>2 DEF Judged, Settles
<1> QED
  BY <1>1, <1>2, StepKinds DEF Quiet

LEMMA TerminalNext == AgreeInv /\ [Next]_vars => TerminalKept
<1> SUFFICES ASSUME AgreeInv, [Next]_vars PROVE TerminalKept
  OBVIOUS
<1>0. TypeInv /\ TypeOK /\ TypeOK'
  BY TypeNext DEF AgreeInv, TypeInv
<1>1. ASSUME NEW l \in DOMAIN links, links[l].verify # "pending"
      PROVE  RecordsOf(records', l) = RecordsOf(records, l)
  <2>1. CASE UNCHANGED records
    BY <2>1
  <2>2. ASSUME NEW row \in RecordRow, records' = Append(records, row),
               row.link = ORPHAN_LINK_ID
               \/ (row.link \in DOMAIN links /\ links[row.link].verify = "pending")
        PROVE  RecordsOf(records', l) = RecordsOf(records, l)
    <3>1. row.link # l
      BY <1>0, <1>1, <2>2, RowTypes DEF ORPHAN_LINK_ID
    <3>2. /\ DOMAIN records' = DOMAIN records \cup {Len(records) + 1}
          /\ \A i \in DOMAIN records : records'[i] = records[i]
          /\ records'[Len(records) + 1] = row
      BY <1>0, <2>2, AppendRow DEF TypeOK
    <3> DEFINE new == Len(records) + 1
    <3> HIDE DEF new
    <3>3. \A i \in DOMAIN records' : (i \in DOMAIN records /\ records'[i] = records[i]) \/ records'[i] = row
      BY <3>2
    <3> QED
      BY <3>1, <3>2, <3>3 DEF RecordsOf
  <2> QED
    BY <1>0, <2>1, <2>2, ResultsGrow
<1>2. \A i \in DOMAIN records : records'[i] = records[i]
  BY <1>0, ResultsStay
<1> QED
  BY <1>0, <1>1, <1>2, VerdictsKept DEF TerminalKept, RecordsOf

\* A verdict is final: the link keeps it and the results it was reached on, and
\* no recurrence or later judgement writes to a cluster that is fixed.
THEOREM TerminalIsFinal == Spec => TerminalReadOnly
<1>1. Init => AgreeInv
  BY TypeInit, AgreeInit DEF AgreeInv
<1>2. AgreeInv /\ [Next]_vars => AgreeInv'
  BY TypeNext, AgreeNext DEF AgreeInv
<1>3. AgreeInv /\ [Next]_vars => [TerminalKept]_vars
  BY TerminalNext
<1>4. TerminalReadOnly <=> [][TerminalKept]_vars
  BY DEF TerminalReadOnly, TerminalKept
<1> QED
  BY <1>1, <1>2, <1>3, <1>4, PTL DEF Spec

-----------------------------------------------------------------------------
(***************************************************************************)
(* A link fails on evidence.  The evidence is there when the link fails,   *)
(* by what the kernel's reasons are, and it stays: results and runs are    *)
(* not rewritten.                                                          *)
(***************************************************************************)
EvidenceInv == AgreeInv /\ FailedOnEvidence

LEMMA EvidenceKept ==
    ASSUME TypeInv, FailedOnEvidence, [Next]_vars, NEW l \in DOMAIN links, links[l].verify = "failed"
    PROVE  \E i \in DOMAIN records' :
               /\ records'[i].link = l
               /\ runs'[records'[i].run].link = l
               /\ runs'[records'[i].run].pf = "fail"
<1>1. PICK i \in DOMAIN records : /\ records[i].link = l
                                 /\ runs[records[i].run].link = l
                                 /\ runs[records[i].run].pf = "fail"
  BY DEF FailedOnEvidence
<1>2. records[i].run \in DOMAIN runs
  BY DEF TypeInv, TypeOK
<1>3. /\ i \in DOMAIN records' /\ records'[i] = records[i]
      /\ runs'[records[i].run] = runs[records[i].run]
  BY <1>2, ResultsStay
<1> QED
  BY <1>1, <1>3

LEMMA EvidenceNext == EvidenceInv /\ [Next]_vars => FailedOnEvidence'
<1> SUFFICES ASSUME EvidenceInv, [Next]_vars, NEW l \in DOMAIN links', links'[l].verify = "failed"
             PROVE  \E i \in DOMAIN records' :
                        /\ records'[i].link = l
                        /\ runs'[records'[i].run].link = l
                        /\ runs'[records'[i].run].pf = "fail"
  BY DEF FailedOnEvidence
<1>0. AgreeInv /\ TypeInv /\ TypeOK /\ TypeOK' /\ FailedOnEvidence
  BY TypeNext DEF EvidenceInv, AgreeInv, TypeInv
<1>1. CASE Quiet
  <2>1. l \in DOMAIN links /\ links[l].verify = "failed"
    BY <1>1 DEF Quiet
  <2> QED
    BY <1>0, <2>1, EvidenceKept
<1>2. CASE Opens
  <2>1. l \in DOMAIN links /\ links[l].verify = "failed"
    BY <1>2 DEF Opens
  <2> QED
    BY <1>0, <2>1, EvidenceKept
<1>3. ASSUME NEW recs, Judging(recs)
      PROVE  \E i \in DOMAIN records' :
                 /\ records'[i].link = l
                 /\ runs'[records'[i].run].link = l
                 /\ runs'[records'[i].run].pf = "fail"
  <2>1. PICK J : Judged(recs, J)
    BY <1>3 DEF Judging
  <2>2. recs = records' /\ Sound(recs) /\ runs' = runs
    BY <1>3 DEF Judging
  <2>3. l \in DOMAIN links
    BY <2>1 DEF Judged, Settles
  <2>4. CASE links[l].verify # "pending"
    <3>1. links[l].verify = "failed"
      BY <2>1, <2>3, <2>4 DEF Judged, Settles
    <3> QED
      BY <1>0, <2>3, <3>1, EvidenceKept
  <2>5. CASE links[l].verify = "pending"
    <3>1. Outcome(recs, l).stop = "reopened"
      BY <2>1, <2>3, <2>5 DEF Judged
    <3>2. PICK i \in RecordsOf(recs, l) :
              runs[recs[i].run].link = l /\ runs[recs[i].run].pf = "fail"
      BY <1>0, <2>2, <3>1, FailureDecided
    <3>3. i \in DOMAIN recs /\ recs[i].link = l
      BY DEF RecordsOf
    <3> QED
      BY <2>2, <3>2, <3>3
  <2> QED
    BY <2>4, <2>5
<1> QED
  BY <1>0, <1>1, <1>2, <1>3, StepKinds

\* A link that failed has a received run of its own case that failed, whatever else
\* was received for it, in whatever order, and however often it was judged.
THEOREM FailuresHaveEvidence == Spec => []FailedOnEvidence
<1>1. Init => EvidenceInv
  <2>1. DOMAIN <<>> = {}
    OBVIOUS
  <2> QED
    BY <2>1, TypeInit, AgreeInit DEF EvidenceInv, AgreeInv, FailedOnEvidence, Init
<1>2. EvidenceInv /\ [Next]_vars => EvidenceInv'
  BY TypeNext, AgreeNext, EvidenceNext DEF EvidenceInv, AgreeInv
<1>3. EvidenceInv => FailedOnEvidence
  BY DEF EvidenceInv
<1> QED
  BY <1>1, <1>2, <1>3, PTL DEF Spec

-----------------------------------------------------------------------------
(***************************************************************************)
(* The audit trail is complete.  The number of reopen rows of a cluster is *)
(* a cardinality, so each judgement is shown to add exactly the one link   *)
(* it fails to the failed links of its cluster: OnePending says which.     *)
(***************************************************************************)
FailedLinks(c) == {l \in DOMAIN links : links[l].cluster = c /\ links[l].verify = "failed"}

\* The rows that a cluster's status and its failed links explain.
Audited(c) ==
    /\ conv[c].auto_fixed = (IF clusters[c].status = "fixed" THEN 1 ELSE 0)
    /\ conv[c].reopen = Cardinality(FailedLinks(c))

\* The polluted run that a reference of a review batch names.
Referenced(b) ==
    /\ \E i \in DOMAIN records :
           records[i].link = b.link /\ records[i].cluster = b.cluster /\ records[i].run = b.run
    /\ b.etype \in env_na_types(runs[b.run].na)

AuditInv == AgreeInv /\ RecordsOncePerRun /\ AuditMatches

LEMMA AuditParts ==
    AuditMatches <=> (\A c \in DOMAIN clusters : Audited(c)) /\ (\A b \in batches : Referenced(b))
BY DEF AuditMatches, Audited, Referenced, FailedLinks

LEMMA ReferencesStay ==
    ASSUME TypeInv, [Next]_vars, NEW b, Referenced(b)
    PROVE  Referenced(b)'
<1>1. PICK i \in DOMAIN records :
          records[i].link = b.link /\ records[i].cluster = b.cluster /\ records[i].run = b.run
  BY DEF Referenced
<1>2. b.run \in DOMAIN runs
  BY <1>1 DEF TypeInv, TypeOK
<1>3. i \in DOMAIN records' /\ records'[i] = records[i] /\ runs'[b.run] = runs[b.run]
  BY <1>2, ResultsStay
<1> QED
  BY <1>1, <1>3 DEF Referenced

\* The reference that a judgement of the link l adds to its batch.
LEMMA ReferenceAdded ==
    ASSUME TypeOK, NEW recs, Sound(recs), NEW l, Outcome(recs, l).unclean
    PROVE  LET b == UncleanRef(recs, l)
           IN  /\ b.link = l /\ b.cluster = links[l].cluster
               /\ \E i \in DOMAIN recs : recs[i].link = l /\ recs[i].run = b.run
               /\ b.etype \in env_na_types(runs[b.run].na)
<1> DEFINE i == Max(RecordsOf(recs, l))
           run == recs[i].run
           b == UncleanRef(recs, l)
<1>1. i \in RecordsOf(recs, l) /\ env_na_types(runs[run].na) # {}
  BY PollutionDecided
<1>2. i \in DOMAIN recs /\ recs[i].link = l
  BY <1>1 DEF RecordsOf
<1>3. b.run = run /\ b.link = l /\ b.cluster = links[l].cluster /\ b.etype = _primary_env_na(runs[run].na)
  BY DEF UncleanRef
<1>4. _primary_env_na(runs[run].na) \in env_na_types(runs[run].na)
  <2> HIDE DEF run
  <2> QED
    BY <1>1 DEF _primary_env_na
<1> HIDE DEF i, b
<1> QED
  BY <1>2, <1>3, <1>4 DEF b

LEMMA AuditQuiet ==
    ASSUME TypeInv, Quiet, NEW c \in DOMAIN clusters, Audited(c)
    PROVE  Audited(c)'
<1>1. FailedLinks(c)' = FailedLinks(c)
  BY DEF Quiet, FailedLinks
<1>2. clusters'[c].status = clusters[c].status /\ conv' = conv
  BY DEF Quiet
<1> QED
  BY <1>1, <1>2 DEF Audited

LEMMA AuditOpens ==
    ASSUME TypeOK, \A c \in DOMAIN clusters : Audited(c), Opens
    PROVE  \A c \in DOMAIN clusters' : Audited(c)'
<1> DEFINE none == [auto_fixed |-> 0, reopen |-> 0]
<1>0. PICK new : new = Len(clusters) + 1
  OBVIOUS
<1>1. PICK row : row.status = "open" /\ clusters' = Append(clusters, row)
  BY DEF Opens
<1>2. conv' = Append(conv, none) /\ links' = links
  BY DEF Opens
<1>3. /\ Len(clusters) \in Nat /\ DOMAIN clusters = 1 .. Len(clusters)
      /\ Len(conv) = Len(clusters) /\ clusters \in Seq(ClusterRow) /\ conv \in Seq(ConvRow)
  BY RowTypes DEF TypeOK
<1>4. /\ \A c \in DOMAIN clusters : clusters'[c] = clusters[c] /\ conv'[c] = conv[c]
      /\ clusters'[new] = row /\ conv'[new] = none
      /\ \A c \in DOMAIN clusters' : c \in DOMAIN clusters \/ c = new
  <2> HIDE DEF none
  <2> QED
    BY <1>0, <1>1, <1>2, <1>3
<1>5. \A c : FailedLinks(c)' = FailedLinks(c)
  BY <1>2 DEF FailedLinks
<1>6. ASSUME NEW c \in DOMAIN clusters PROVE Audited(c)'
  BY <1>4, <1>5, <1>6 DEF Audited
<1>7. Audited(new)'
  <2>1. FailedLinks(new) = {}
    <3>1. \A l \in DOMAIN links : links[l].cluster # new
      BY <1>0, <1>3, RowTypes
    <3> QED
      BY <3>1 DEF FailedLinks
  <2>2. Cardinality(FailedLinks(new)') = 0
    BY <1>5, <2>1, FS_EmptySet
  <2>3. conv'[new].auto_fixed = 0 /\ conv'[new].reopen = 0 /\ clusters'[new].status = "open"
    BY <1>1, <1>4
  <2> QED
    BY <2>2, <2>3 DEF Audited
<1> QED
  BY <1>4, <1>6, <1>7

\* The failed links of a cluster grow by the link whose failure is decided.
LEMMA FailedGrow ==
    ASSUME TypeOK, OnePending, NEW recs, NEW J, Judged(recs, J), NEW c \in DOMAIN clusters
    PROVE  /\ Cardinality(FailedLinks(c)) \in Nat
           /\ c \in Decided(recs, J, "reopened") =>
                  Cardinality(FailedLinks(c)') = Cardinality(FailedLinks(c)) + 1
           /\ c \notin Decided(recs, J, "reopened") =>
                  FailedLinks(c)' = FailedLinks(c)
<1>1. DOMAIN links' = DOMAIN links /\ \A l \in DOMAIN links : links'[l].cluster = links[l].cluster
  BY DEF Judged, Settles
<1>2. \A l \in DOMAIN links : links[l].verify # "pending" => links'[l].verify = links[l].verify
  BY DEF Judged, Settles
<1>3. \A l \in DOMAIN links : links[l].verify = "pending" =>
          (links'[l].verify = "failed" <=> l \in J /\ Outcome(recs, l).stop = "reopened")
  BY DEF Judged
<1>4. \A l \in J : l \in DOMAIN links /\ links[l].verify = "pending"
  BY DEF Judged
<1>5. IsFiniteSet(FailedLinks(c)) /\ Cardinality(FailedLinks(c)) \in Nat
  <2>1. FailedLinks(c) \in SUBSET (1 .. Len(links)) /\ Len(links) \in Nat
    BY RowTypes DEF FailedLinks
  <2>2. IsFiniteSet(1 .. Len(links))
    BY <2>1, FS_Interval
  <2> QED
    BY <2>1, <2>2, FS_Subset, FS_CardinalityType
<1>6. ASSUME c \in Decided(recs, J, "reopened")
      PROVE  Cardinality(FailedLinks(c)') = Cardinality(FailedLinks(c)) + 1
  <2>1. PICK l \in J : Outcome(recs, l).stop = "reopened" /\ links[l].cluster = c
    BY <1>6 DEF Decided
  <2>2. l \in DOMAIN links /\ links[l].verify = "pending" /\ links'[l].verify = "failed"
    BY <1>3, <1>4, <2>1
  <2>3. \A m \in DOMAIN links : links[m].verify = "pending" /\ links[m].cluster = c => m = l
    BY <2>1, <2>2 DEF OnePending
  <2>4. FailedLinks(c)' = FailedLinks(c) \cup {l}
    BY <1>1, <1>2, <2>1, <2>2, <2>3 DEF FailedLinks
  <2>5. l \notin FailedLinks(c)
    BY <2>2 DEF FailedLinks
  <2> QED
    BY <1>5, <2>4, <2>5, FS_AddElement
<1>7. ASSUME c \notin Decided(recs, J, "reopened")
      PROVE  FailedLinks(c)' = FailedLinks(c)
  <2>1. \A l \in DOMAIN links : links[l].cluster = c /\ links[l].verify = "pending" =>
            links'[l].verify # "failed"
    BY <1>3, <1>7 DEF Decided
  <2> QED
    BY <1>1, <1>2, <2>1 DEF FailedLinks
<1> QED
  BY <1>5, <1>6, <1>7

LEMMA AuditJudged ==
    ASSUME TypeOK, OnePending, NEW recs, NEW J, Judged(recs, J),
           NEW c \in DOMAIN clusters, Audited(c)
    PROVE  Audited(c)'
<1> DEFINE fixing == c \in Decided(recs, J, "passed")
           failing == c \in Decided(recs, J, "reopened")
<1>1. /\ conv'[c].auto_fixed = conv[c].auto_fixed + (IF fixing THEN 1 ELSE 0)
      /\ conv'[c].reopen = conv[c].reopen + (IF failing THEN 1 ELSE 0)
  BY DEF Judged
<1>2. /\ fixing => clusters[c].status = "open" /\ clusters'[c].status = "fixed"
      /\ ~fixing => clusters'[c] = clusters[c]
  BY DEF Judged, Decided, Settles
<1>3. /\ Cardinality(FailedLinks(c)) \in Nat
      /\ failing => Cardinality(FailedLinks(c)') = Cardinality(FailedLinks(c)) + 1
      /\ ~failing => FailedLinks(c)' = FailedLinks(c)
  BY FailedGrow
<1>4. conv[c].auto_fixed \in Nat /\ conv[c].reopen \in Nat
  BY RowTypes DEF ConvRow
<1>5. /\ conv[c].auto_fixed = (IF clusters[c].status = "fixed" THEN 1 ELSE 0)
      /\ conv[c].reopen = Cardinality(FailedLinks(c))
  BY DEF Audited
<1> HIDE DEF fixing, failing
<1>6. conv'[c].auto_fixed = (IF clusters'[c].status = "fixed" THEN 1 ELSE 0)
  <2>1. CASE fixing
    <3>1. conv[c].auto_fixed = 0
      BY <1>2, <1>5, <2>1
    <3> QED
      BY <1>1, <1>2, <2>1, <3>1
  <2>2. CASE ~fixing
    <3>1. conv[c].auto_fixed + 0 = conv[c].auto_fixed
      BY <1>4
    <3> QED
      BY <1>1, <1>2, <1>5, <2>2, <3>1
  <2> QED
    BY <2>1, <2>2
<1>7. conv'[c].reopen = Cardinality(FailedLinks(c)')
  <2>1. CASE failing
    BY <1>1, <1>3, <1>5, <2>1
  <2>2. CASE ~failing
    <3>1. conv[c].reopen + 0 = conv[c].reopen
      BY <1>4
    <3> QED
      BY <1>1, <1>3, <1>5, <2>2, <3>1
  <2> QED
    BY <2>1, <2>2
<1> QED
  BY <1>6, <1>7 DEF Audited

\* The references that a judgement adds are polluted runs of the archive.
LEMMA ReferencesJudged ==
    ASSUME TypeOK, TypeOK', RecordsOncePerRun', NEW recs, Judging(recs), NEW J, Judged(recs, J),
           NEW l \in J, Outcome(recs, l).unclean, NEW b, b = UncleanRef(recs, l)
    PROVE  Referenced(b)'
<1>1. recs = records' /\ Sound(recs) /\ runs' = runs
  BY DEF Judging
<1>2. l \in DOMAIN links /\ l \in DOMAIN links' /\ links'[l].cluster = links[l].cluster
  BY DEF Judged, Settles
<1>3. /\ b.link = l /\ b.cluster = links[l].cluster
      /\ b.etype \in env_na_types(runs'[b.run].na)
  BY <1>1, ReferenceAdded
<1>4. PICK i \in DOMAIN records' : records'[i].link = l /\ records'[i].run = b.run
  BY <1>1, ReferenceAdded
<1>5. records'[i].cluster = links'[l].cluster
  <2>1. l # 0
    BY <1>2, RowTypes
  <2>2. \A j \in DOMAIN records' : records'[j].link # 0 =>
            links'[records'[j].link].cluster = records'[j].cluster
    BY DEF RecordsOncePerRun, ORPHAN_LINK_ID
  <2> QED
    BY <1>4, <2>1, <2>2
<1> QED
  BY <1>2, <1>3, <1>4, <1>5 DEF Referenced

LEMMA AuditNext == AuditInv /\ [Next]_vars => AuditMatches'
<1> SUFFICES ASSUME AuditInv, [Next]_vars
             PROVE  /\ \A c \in DOMAIN clusters' : Audited(c)'
                    /\ \A b \in batches' : Referenced(b)'
  BY AuditParts DEF AuditMatches, Audited, Referenced, FailedLinks
<1>0. AgreeInv /\ TypeInv /\ TypeOK /\ TypeOK' /\ OnePending /\ RecordsOncePerRun'
  BY TypeNext, RecordNext DEF AuditInv, AgreeInv, TypeInv, LinkClusterAgree, RecordInv
<1>1. (\A c \in DOMAIN clusters : Audited(c)) /\ (\A b \in batches : Referenced(b))
  BY AuditParts DEF AuditInv
<1>2. \A b \in batches : Referenced(b)'
  BY <1>0, <1>1, ReferencesStay
<1>3. CASE Quiet
  <2>1. batches' = batches /\ DOMAIN clusters' = DOMAIN clusters
    BY <1>3 DEF Quiet
  <2>2. \A c \in DOMAIN clusters : Audited(c)'
    BY <1>0, <1>1, <1>3, AuditQuiet
  <2> QED
    BY <1>2, <2>1, <2>2
<1>4. CASE Opens
  <2>1. batches' = batches
    BY <1>4 DEF Opens
  <2>2. \A c \in DOMAIN clusters' : Audited(c)'
    BY <1>0, <1>1, <1>4, AuditOpens
  <2> QED
    BY <1>2, <2>1, <2>2
<1>5. ASSUME NEW recs, Judging(recs)
      PROVE  /\ \A c \in DOMAIN clusters' : Audited(c)'
             /\ \A b \in batches' : Referenced(b)'
  <2>1. PICK J : Judged(recs, J)
    BY <1>5 DEF Judging
  <2>2. DOMAIN clusters' = DOMAIN clusters
    BY <2>1 DEF Judged, Settles
  <2>3. \A c \in DOMAIN clusters : Audited(c)'
    BY <1>0, <1>1, <2>1, AuditJudged
  <2>4. ASSUME NEW b \in batches', b \notin batches PROVE Referenced(b)'
    <3>1. PICK l \in J : Outcome(recs, l).unclean /\ b = UncleanRef(recs, l)
      BY <2>1, <2>4 DEF Judged
    <3> QED
      BY <1>0, <1>5, <2>1, <3>1, ReferencesJudged
  <2> QED
    BY <1>2, <2>2, <2>3, <2>4
<1> QED
  BY <1>0, <1>3, <1>4, <1>5, StepKinds

\* The audit trail is complete: whatever is judged, by whichever process and however
\* often, a cluster has one auto_fixed row iff it is fixed and one reopen row for each
\* of its failed links, and a review batch refers to polluted runs of the archive.
THEOREM AuditComplete == Spec => []AuditMatches
<1>1. Init => AuditInv
  <2> SUFFICES ASSUME Init PROVE AuditMatches /\ RecordsOncePerRun
    BY TypeInit, AgreeInit DEF AuditInv, AgreeInv
  <2>1. DOMAIN <<>> = {}
    OBVIOUS
  <2> QED
    BY <2>1 DEF Init, AuditMatches, RecordsOncePerRun
<1>2. AuditInv /\ [Next]_vars => AuditInv'
  BY TypeNext, AgreeNext, RecordNext, AuditNext DEF AuditInv, AgreeInv, RecordInv
<1>3. AuditInv => AuditMatches
  BY DEF AuditInv
<1> QED
  BY <1>1, <1>2, <1>3, PTL DEF Spec

-----------------------------------------------------------------------------
(***************************************************************************)
(* No cluster is closed over a failure, but where what a run tells of its  *)
(* previous version is masked, or versions that compare equal came out of  *)
(* order (Masked and WalkedOutOfOrder of Backflow).                        *)
(*                                                                         *)
(* The argument is this.  Let a run x of the link have a version strictly  *)
(* between those of two passes r and s with no pass between them; if the   *)
(* walk is in the order of release, r and s are adjacent in it.  The       *)
(* version that s tells as its previous one is x's or a later one.  If it  *)
(* is not that of s itself, it was received, or s would be behind a gap.   *)
(* If it was received for no other key of the agent, then for this link,   *)
(* because this link was pending by the time of x.  So it is in the walk,  *)
(* between two versions that are adjacent in it.                           *)
(***************************************************************************)
AgentOfRun(r) == AgentOfLink(runs[r].link)

\* An agent's versions are released in the order they are run.
RunsAscend == \A p, r \in DOMAIN runs :
    p < r /\ AgentOfRun(p) = AgentOfRun(r) =>
        \/ VersionRank[runs[p].ver] < VersionRank[runs[r].ver]
        \/ runs[p].ver = runs[r].ver

\* The previous version a run tells is not older than any earlier run's.
PreviousIsLast == \A p, r \in DOMAIN runs :
    p < r /\ AgentOfRun(p) = AgentOfRun(r) =>
        \E q \in DOMAIN runs : /\ p <= q /\ q < r /\ AgentOfRun(q) = AgentOfRun(r)
                               /\ runs[r].prev = runs[q].ver

\* A result is filed under the cluster of the run's link.
Filed(recs) == \A i \in DOMAIN recs :
    /\ recs[i].cluster = links[runs[recs[i].run].link].cluster
    /\ recs[i].link # ORPHAN_LINK_ID =>
           recs[i].link \in DOMAIN links /\ links[recs[i].link].cluster = recs[i].cluster

KeyOfLink(l) == clusters[links[l].cluster].key

\* Once a pending link has been run, the results of its key are attributed to it.
Attributed(recs) == \A i \in DOMAIN recs, l \in DOMAIN links, r \in DOMAIN runs :
    /\ recs[i].link # ORPHAN_LINK_ID /\ links[l].verify = "pending"
    /\ runs[r].link = l /\ r <= recs[i].run
    /\ clusters[recs[i].cluster].key = KeyOfLink(l)
    => recs[i].link = l

\* No pass of P is between r and s.
NoneBetween(P, r, s) == \A w \in P :
    \/ VersionRank[runs[w].ver] <= VersionRank[runs[r].ver]
    \/ VersionRank[runs[s].ver] <= VersionRank[runs[w].ver]

\* The K passes that close a link, and what was run between them.
Unbroken(recs, l, P) ==
    /\ P \subseteq {recs[i].run : i \in {j \in DOMAIN recs : recs[j].link = l}}
    /\ Cardinality(VersionsOf(runs, P)) >= ClaimK
    /\ \A r \in P : runs[r].link = l /\ PurePass(r)
    /\ \A x \in DOMAIN runs : \A r, s \in P :
           /\ runs[x].link = l
           /\ VersionRank[runs[r].ver] < VersionRank[runs[x].ver]
           /\ VersionRank[runs[x].ver] < VersionRank[runs[s].ver]
           /\ NoneBetween(P, r, s)
           => WalkedOutOfOrder(recs, l) \/ Masked(recs, l, s)

LEMMA RanksAreNat ==
    ASSUME TypeOK
    PROVE  \A r \in DOMAIN runs : r \in Nat /\ runs[r].ver \in Versions /\ runs[r].ver # NoVersion
                                  /\ VersionRank[runs[r].ver] \in Nat
BY RowTypes, VersionAssumption DEF RunRow

\* The runs of an agent and their versions are in the same order.
LEMMA RanksOrderRuns ==
    ASSUME TypeOK, RunsAscend, NEW p \in DOMAIN runs, NEW r \in DOMAIN runs,
           AgentOfRun(p) = AgentOfRun(r)
    PROVE  /\ VersionRank[runs[p].ver] = VersionRank[runs[r].ver] => runs[p].ver = runs[r].ver
           /\ VersionRank[runs[p].ver] < VersionRank[runs[r].ver] => p < r
           /\ p <= r => VersionRank[runs[p].ver] <= VersionRank[runs[r].ver]
<1>1. PICK u, v : u = VersionRank[runs[p].ver] /\ v = VersionRank[runs[r].ver]
  OBVIOUS
<1>2. p \in Nat /\ r \in Nat /\ u \in Nat /\ v \in Nat
  BY <1>1, RanksAreNat
<1>3. p < r => u < v \/ runs[p].ver = runs[r].ver
  BY <1>1 DEF RunsAscend
<1>4. r < p => v < u \/ runs[p].ver = runs[r].ver
  BY <1>1 DEF RunsAscend
<1>5. p = r \/ runs[p].ver = runs[r].ver => u = v
  BY <1>1
<1>6. u = v => runs[p].ver = runs[r].ver
  <2>1. p = r \/ p < r \/ r < p
    BY <1>2
  <2> QED
    BY <1>2, <1>3, <1>4, <2>1
<1>7. u < v => p < r
  BY <1>2, <1>4, <1>5
<1>8. p <= r => u <= v
  BY <1>2, <1>3, <1>5
<1> QED
  BY <1>1, <1>6, <1>7, <1>8

\* The results of a link are of its agent, and each version of them stands for one.
LEMMA LinkRows ==
    ASSUME TypeOK, NEW recs, Sound(recs), Filed(recs), NEW l \in DOMAIN links
    PROVE  /\ \A i \in RecordsOf(recs, l) : recs[i].run \in DOMAIN runs
                                            /\ AgentOfRun(recs[i].run) = AgentOfLink(l)
           /\ \A i \in RecordsOf(recs, l) : \E j \in by_version(RowsOf(recs, l)) :
                  runs[recs[j].run].ver = runs[recs[i].run].ver
<1> DEFINE S == RecordsOf(recs, l)
           rows == RowsOf(recs, l)
<1>1. l # ORPHAN_LINK_ID
  BY RowTypes DEF ORPHAN_LINK_ID
<1>2. \A i \in S : i \in DOMAIN recs /\ recs[i].link = l /\ recs[i].run \in DOMAIN runs
                   /\ recs[i].cluster = links[l].cluster
  BY <1>1, RowsAre DEF Filed
<1>3. \A i \in S : AgentOfRun(recs[i].run) = AgentOfLink(l)
  <2>1. \A i \in S : links[runs[recs[i].run].link].cluster = links[l].cluster
    BY <1>2 DEF Filed
  <2> QED
    BY <2>1 DEF AgentOfRun, AgentOfLink
<1>4. ASSUME NEW i \in S
      PROVE  \E j \in by_version(rows) : runs[recs[j].run].ver = runs[recs[i].run].ver
  <2> DEFINE same == {j \in S : rows[j].ver = rows[i].ver}
             k == Max(same)
  <2>1. DOMAIN rows = S /\ \A j \in S : rows[j].ver = runs[recs[j].run].ver
    BY RowsAre
  <2>2. same \subseteq 0 .. Len(recs) /\ Len(recs) \in Nat /\ i \in same
    <3>1. Len(recs) \in Nat /\ DOMAIN recs = 1 .. Len(recs)
      BY LenProperties DEF Sound
    <3> HIDE DEF S, rows
    <3> QED
      BY <1>2, <3>1
  <2> HIDE DEF same
  <2>3. k \in same /\ \A j \in same : j <= k
    BY <2>2, MaxOfBounded
  <2> HIDE DEF k, S, rows
  <2>4. k \in S /\ rows[k].ver = rows[i].ver /\ \A j \in S : rows[j].ver = rows[k].ver => j <= k
    BY <2>3 DEF same
  <2>5. k \in Nat /\ \A j \in S : j \in Nat
    BY <2>4, RowsAre DEF S, Ranked
  <2>6. \A j \in S : j > k => rows[j].ver # rows[k].ver
    BY <2>4, <2>5
  <2>7. k \in by_version(rows)
    BY <2>1, <2>4, <2>6 DEF by_version
  <2> QED
    BY <2>1, <2>4, <2>7
<1> QED
  BY <1>2, <1>3, <1>4

\* The walk is in the order of release.
LEMMA WalkRises ==
    ASSUME TypeOK, RunsAscend, NEW recs, Sound(recs), Filed(recs), NEW l \in DOMAIN links,
           ~WalkedOutOfOrder(recs, l)
    PROVE  LET W == WalkOrder(RowsOf(recs, l))
               n == Cardinality(by_version(RowsOf(recs, l)))
           IN  /\ n \in Nat /\ W \in [1 .. n -> by_version(RowsOf(recs, l))]
               /\ by_version(RowsOf(recs, l)) \subseteq RecordsOf(recs, l)
               /\ \A i \in by_version(RowsOf(recs, l)) : \E a \in 1 .. n : W[a] = i
               /\ \A a, b \in 1 .. n : a < b =>
                      VersionRank[runs[recs[W[a]].run].ver] < VersionRank[runs[recs[W[b]].run].ver]
<1> DEFINE rows == RowsOf(recs, l)
           V == by_version(rows)
           W == WalkOrder(rows)
           n == Cardinality(V)
<1>1. Ranked(rows) /\ DOMAIN rows = RecordsOf(recs, l) /\ DOMAIN rows \subseteq Nat
  BY RowsAre DEF Ranked
<1>2. V \subseteq RecordsOf(recs, l)
  BY <1>1 DEF by_version
<1>3. /\ n \in Nat /\ W \in [1 .. n -> V]
      /\ \A a, b \in 1 .. n : a < b => Before(rows, W[a], W[b])
      /\ \A i \in V : \E a \in 1 .. n : W[a] = i
  BY <1>1, WalkOrderIs
<1>4. \A i \in V : recs[i].run \in DOMAIN runs /\ rows[i].ver = runs[recs[i].run].ver
                   /\ AgentOfRun(recs[i].run) = AgentOfLink(l)
  BY <1>2, RowsAre, LinkRows
<1>5. ASSUME NEW a \in 1 .. n, NEW b \in 1 .. n, a < b
      PROVE  VersionRank[runs[recs[W[a]].run].ver] < VersionRank[runs[recs[W[b]].run].ver]
  <2>1. PICK i, j : i = W[a] /\ j = W[b]
    OBVIOUS
  <2>2. i \in V /\ j \in V /\ Before(rows, i, j)
    <3> HIDE DEF V, W, rows, n
    <3> QED
      BY <1>3, <1>5, <2>1
  <2>3. i # j
    BY <1>1, <2>2, BeforeTotal
  <2>4. PICK u, v : u = VersionRank[runs[recs[i].run].ver] /\ v = VersionRank[runs[recs[j].run].ver]
    OBVIOUS
  <2>5. u \in Nat /\ v \in Nat
    BY <1>4, <2>2, <2>4, RanksAreNat
  <2>6. ~(v < u)
    BY <1>4, <2>2, <2>4 DEF WalkedOutOfOrder
  <2>7. u # v
    <3> SUFFICES ASSUME u = v PROVE FALSE
      OBVIOUS
    <3>1. rows[i].ver = rows[j].ver
      <4>1. PICK p \in DOMAIN runs, r \in DOMAIN runs : p = recs[i].run /\ r = recs[j].run
        BY <1>4, <2>2
      <4>2. AgentOfRun(p) = AgentOfRun(r) /\ rows[i].ver = runs[p].ver /\ rows[j].ver = runs[r].ver
        BY <1>4, <2>2, <4>1
      <4>3. VersionRank[runs[p].ver] = VersionRank[runs[r].ver]
        BY <2>4, <4>1
      <4> QED
        BY <4>2, <4>3, RanksOrderRuns
    <3>2. i \in DOMAIN rows /\ j \in DOMAIN rows /\ i \in Nat /\ j \in Nat
      BY <1>1, <1>2, <2>2
    <3>3. i > j \/ j > i
      BY <2>3, <3>2
    <3> QED
      BY <2>2, <3>1, <3>2, <3>3 DEF by_version
  <2>8. u < v
    BY <2>5, <2>6, <2>7
  <2> QED
    BY <2>1, <2>4, <2>8
<1> QED
  BY <1>2, <1>3, <1>5

\* Between two adjacent versions of a walk the link's case was not run, or the gap
\* before the later one is masked.
LEMMA AdjacentInWalk ==
    ASSUME TypeOK, RunsAscend, PreviousIsLast, NEW recs, Sound(recs), Filed(recs),
           Attributed(recs), NEW l \in DOMAIN links, links[l].verify = "pending",
           ~WalkedOutOfOrder(recs, l),
           NEW m \in 2 .. Cardinality(by_version(RowsOf(recs, l))), NEW i, NEW j,
           i = WalkOrder(RowsOf(recs, l))[m - 1], j = WalkOrder(RowsOf(recs, l))[m],
           ~Gap(RowsOf(recs, l)[j], _agent_versions(recs, AgentOfLink(l))),
           NEW x \in DOMAIN runs, runs[x].link = l, runs[recs[i].run].link = l,
           VersionRank[runs[recs[i].run].ver] < VersionRank[runs[x].ver],
           VersionRank[runs[x].ver] < VersionRank[runs[recs[j].run].ver]
    PROVE  Masked(recs, l, recs[j].run)
<1> DEFINE W == WalkOrder(RowsOf(recs, l))
           V == by_version(RowsOf(recs, l))
           n == Cardinality(V)
           y == recs[j].run
           r == recs[i].run
           rank(s) == VersionRank[runs[s].ver]
<1>1. /\ n \in Nat /\ W \in [1 .. n -> V] /\ V \subseteq RecordsOf(recs, l)
      /\ \A k \in V : \E a \in 1 .. n : W[a] = k
      /\ \A a, b \in 1 .. n : a < b => rank(recs[W[a]].run) < rank(recs[W[b]].run)
  <2>1. n \in Nat /\ W \in [1 .. n -> V] /\ V \subseteq RecordsOf(recs, l)
    BY WalkRises
  <2>2. \A k \in V : \E a \in 1 .. n : W[a] = k
    BY WalkRises
  <2>3. \A a, b \in 1 .. n : a < b =>
            VersionRank[runs[recs[W[a]].run].ver] < VersionRank[runs[recs[W[b]].run].ver]
    BY WalkRises
  <2> QED
    BY <2>1, <2>2, <2>3
<1>2. m \in Nat /\ m - 1 \in 1 .. n /\ m \in 1 .. n /\ m - 1 < m
  BY <1>1
<1>3. i \in RecordsOf(recs, l) /\ j \in RecordsOf(recs, l) /\ i = W[m - 1] /\ j = W[m]
  <2> HIDE DEF W, V, n
  <2> QED
    BY <1>1, <1>2 DEF W
<1>4. /\ y \in DOMAIN runs /\ r \in DOMAIN runs
      /\ AgentOfRun(y) = AgentOfLink(l) /\ AgentOfRun(r) = AgentOfLink(l) /\ AgentOfRun(x) = AgentOfLink(l)
  BY <1>3, LinkRows DEF AgentOfRun
<1>5. \A s \in DOMAIN runs : s \in Nat /\ rank(s) \in Nat /\ runs[s].ver # NoVersion
  BY RanksAreNat
<1>6. x < y
  BY <1>4, RanksOrderRuns
<1>7. PICK q \in DOMAIN runs : /\ x <= q /\ q < y /\ AgentOfRun(q) = AgentOfLink(l)
                               /\ runs[y].prev = runs[q].ver
  BY <1>4, <1>6 DEF PreviousIsLast
<1> SUFFICES ASSUME ~Masked(recs, l, y) PROVE FALSE
  OBVIOUS
<1>8. rank(r) < rank(q) /\ rank(q) < rank(y)
  <2>1. PICK a, b, c, d : a = rank(r) /\ b = rank(x) /\ c = rank(q) /\ d = rank(y)
    OBVIOUS
  <2>2. a \in Nat /\ b \in Nat /\ c \in Nat /\ d \in Nat
    BY <1>4, <1>5, <1>7, <2>1
  <2>3. b <= c
    BY <1>4, <1>7, <2>1, RanksOrderRuns
  <2>4. c <= d
    <3>1. q <= y
      BY <1>4, <1>5, <1>7
    <3> QED
      BY <1>4, <1>7, <2>1, <3>1, RanksOrderRuns
  <2>5. c # d
    <3>1. runs[q].ver # runs[y].ver
      BY <1>7 DEF Masked
    <3> QED
      BY <1>4, <1>7, <2>1, <3>1, RanksOrderRuns
  <2>6. a < b
    BY <2>1
  <2>7. a < c /\ c < d
    BY <2>2, <2>3, <2>4, <2>5, <2>6
  <2> QED
    BY <2>1, <2>7
<1>9. PICK k \in DOMAIN recs : /\ recs[k].link # ORPHAN_LINK_ID
                               /\ AgentOfLink(recs[k].link) = AgentOfLink(l)
                               /\ runs[recs[k].run].ver = runs[q].ver
  <2>1. RowsOf(recs, l)[j].prev = runs[y].prev
    BY <1>3, RowsAre
  <2>2. runs[q].ver \in _agent_versions(recs, AgentOfLink(l))
    BY <1>5, <1>7, <2>1 DEF Gap
  <2> QED
    BY <2>2 DEF _agent_versions
<1>10. clusters[recs[k].cluster].key = KeyOfLink(l)
  BY <1>7, <1>9 DEF Masked, KeyOfLink
<1>11. k \in RecordsOf(recs, l)
  <2>1. recs[k].run \in DOMAIN runs
    BY <1>9 DEF Sound
  <2>2. AgentOfRun(recs[k].run) = AgentOfLink(l)
    BY <1>9 DEF Filed, AgentOfRun, AgentOfLink
  <2>3. r < recs[k].run
    <3>1. rank(recs[k].run) = rank(q)
      BY <1>9
    <3> QED
      BY <1>4, <1>8, <2>1, <2>2, <3>1, RanksOrderRuns
  <2>4. r <= recs[k].run
    BY <1>4, <1>5, <2>1, <2>3
  <2>5. runs[r].link = l
    OBVIOUS
  <2>6. recs[k].link = l
    BY <1>4, <1>9, <1>10, <2>4, <2>5 DEF Attributed
  <2> QED
    BY <2>6 DEF RecordsOf
<1>12. PICK k2 \in V : runs[recs[k2].run].ver = runs[q].ver
  BY <1>9, <1>11, LinkRows
<1>13. PICK a \in 1 .. n : W[a] = k2
  BY <1>1, <1>12
<1>14. rank(recs[W[m - 1]].run) < rank(recs[W[a]].run) /\ rank(recs[W[a]].run) < rank(recs[W[m]].run)
  BY <1>3, <1>8, <1>12, <1>13
<1>15. \A b \in 1 .. n : rank(recs[W[b]].run) \in Nat
  <2>1. \A b \in 1 .. n : recs[W[b]].run \in DOMAIN runs
    BY <1>1, LinkRows
  <2> QED
    BY <1>5, <2>1
<1> HIDE DEF rank, W, n
<1>16. ~(a < m - 1) /\ a # m - 1 /\ ~(m < a) /\ a # m
  <2> DEFINE f(b) == rank(recs[W[b]].run)
  <2>1. /\ \A b \in 1 .. n : f(b) \in Nat
        /\ \A b, c \in 1 .. n : b < c => f(b) < f(c)
        /\ f(m - 1) < f(a) /\ f(a) < f(m)
    BY <1>1, <1>14, <1>15 DEF rank, W, n
  <2> HIDE DEF f
  <2> QED
    BY <1>2, <2>1
<1> QED
  BY <1>1, <1>2, <1>13, <1>16

\* Hence what closes a link is unbroken.
LEMMA PassUnbroken ==
    ASSUME TypeOK, RunsAscend, PreviousIsLast, NEW recs, Sound(recs), Filed(recs),
           Attributed(recs), NEW l \in DOMAIN links, links[l].verify = "pending",
           Outcome(recs, l).stop = "passed"
    PROVE  \E P : Unbroken(recs, l, P)
<1> DEFINE rows == RowsOf(recs, l)
           W == WalkOrder(rows)
           n == Cardinality(by_version(rows))
           rank(s) == VersionRank[runs[s].ver]
<1>1. PICK truncated, e, q :
          /\ e \in 1 .. n /\ q \in 1 .. e
          /\ PureRun(rows, _agent_versions(recs, AgentOfLink(l)), truncated, e, q)
          /\ WalkRuns(recs, l, e, q) \subseteq PassesOf(recs, l)
          /\ Cardinality(VersionsOf(runs, WalkRuns(recs, l, e, q))) >= ClaimK
  BY PassRun
<1> DEFINE P == WalkRuns(recs, l, e, q)
           I == e - q + 1 .. e
<1>2. \A r \in P : runs[r].link = l /\ PurePass(r) /\ r \in {recs[i].run : i \in {j \in DOMAIN recs : recs[j].link = l}}
  BY <1>1 DEF PassesOf
<1>3. \A m \in I : recs[W[m]].run \in P
  BY DEF WalkRuns
<1>4. ASSUME NEW x \in DOMAIN runs, NEW r \in P, NEW s \in P, runs[x].link = l,
             rank(r) < rank(x), rank(x) < rank(s), NoneBetween(P, r, s),
             ~WalkedOutOfOrder(recs, l)
      PROVE  Masked(recs, l, s)
  <2>1. PICK a \in I, b \in I : r = recs[W[a]].run /\ s = recs[W[b]].run
    BY DEF WalkRuns
  <2>2. /\ n \in Nat /\ W \in [1 .. n -> by_version(rows)]
        /\ by_version(rows) \subseteq RecordsOf(recs, l)
        /\ \A c, d \in 1 .. n : c < d => rank(recs[W[c]].run) < rank(recs[W[d]].run)
    BY <1>4, WalkRises
  <2>3. \A c \in I : c \in 1 .. n /\ c \in 1 .. e
    <3> HIDE DEF n
    <3> QED
      BY <1>1, <2>2
  <2>4. \A c \in 1 .. n : recs[W[c]].run \in DOMAIN runs /\ rank(recs[W[c]].run) \in Nat
    <3>1. \A c \in 1 .. n : recs[W[c]].run \in DOMAIN runs
      BY <2>2, LinkRows
    <3> QED
      BY <3>1, RanksAreNat
  <2> DEFINE f(c) == rank(recs[W[c]].run)
  <2>5. \A c \in I : f(c) <= f(a) \/ f(b) <= f(c)
    BY <1>3, <1>4, <2>1 DEF NoneBetween
  <2>6. rank(x) \in Nat /\ f(a) < rank(x) /\ rank(x) < f(b)
    BY <1>4, <2>1, RanksAreNat
  <2>7. /\ \A c \in 1 .. n : f(c) \in Nat
        /\ \A c, d \in 1 .. n : c < d => f(c) < f(d)
    BY <2>2, <2>4
  <2> HIDE DEF f
  <2>8. a < b
    <3>1. PICK u : u = rank(x)
      OBVIOUS
    <3>2. u \in Nat /\ f(a) < u /\ u < f(b)
      BY <2>6, <3>1
    <3>3. a \in 1 .. n /\ b \in 1 .. n /\ f(a) \in Nat /\ f(b) \in Nat
      BY <2>3, <2>7
    <3>4. f(a) < f(b)
      BY <3>2, <3>3
    <3>5. b < a => f(b) < f(a)
      BY <2>7, <3>3
    <3>6. a # b
      BY <3>3, <3>4
    <3> HIDE DEF n
    <3>7. ~(b < a)
      BY <3>3, <3>4, <3>5
    <3> QED
      BY <2>2, <3>3, <3>6, <3>7
  <2>9. a + 1 \in I /\ a + 1 \in 1 .. n
    <3>1. a \in Nat /\ b \in Nat /\ e \in Nat /\ q \in Nat
      BY <1>1, <2>3
    <3>2. a + 1 \in I
      BY <2>8, <3>1
    <3> QED
      BY <2>3, <3>2
  <2>10. b = a + 1
    <3>1. a \in 1 .. n /\ b \in 1 .. n /\ a < a + 1 /\ a + 1 <= b
      BY <2>2, <2>3, <2>8
    <3>2. f(a) \in Nat /\ f(b) \in Nat /\ f(a + 1) \in Nat /\ f(a) < f(a + 1)
      BY <2>7, <2>9, <3>1
    <3>3. f(b) <= f(a + 1)
      BY <2>5, <2>9, <3>2
    <3>4. a + 1 < b => f(a + 1) < f(b)
      BY <2>7, <2>9, <3>1
    <3>5. ~(a + 1 < b)
      BY <3>2, <3>3, <3>4
    <3> HIDE DEF n
    <3> QED
      BY <2>2, <2>9, <3>1, <3>5
  <2>11. PICK i, j : i = W[b - 1] /\ j = W[b] /\ i = W[a]
    <3>1. b - 1 = a
      BY <2>3, <2>10
    <3> QED
      BY <3>1
  <2>12. runs[recs[i].run].link = l
    BY <1>2, <1>3, <2>11
  <2>13. ~Gap(rows[j], _agent_versions(recs, AgentOfLink(l)))
    BY <1>1, <2>3, <2>11 DEF PureRun
  <2>14. b \in 2 .. n
    <3> HIDE DEF n
    <3> QED
      BY <2>2, <2>3, <2>9, <2>10
  <2>15. rank(recs[i].run) < rank(x) /\ rank(x) < rank(recs[j].run) /\ s = recs[j].run
    BY <1>4, <2>1, <2>11
  <2> QED
    BY <1>4, <2>11, <2>12, <2>13, <2>14, <2>15, AdjacentInWalk
<1> HIDE DEF P
<1>5. Unbroken(recs, l, P)
  BY <1>1, <1>2, <1>4 DEF Unbroken, P
<1> QED
  BY <1>5

\* A received result is of a run, and is attributed to the pending link of its cluster.
LEMMA ResultFiled ==
    ASSUME TypeInv, [Next]_vars
    PROVE  \/ UNCHANGED records
           \/ \E r \in DOMAIN runs, row \in RecordRow :
                  /\ records' = Append(records, row)
                  /\ row.run = r /\ row.cluster = links[runs[r].link].cluster
                  /\ row.link = ORPHAN_LINK_ID \/ row.link \in PendingLinks(row.cluster)
<1>1. ASSUME NEW r \in DOMAIN runs, NEW judged \in BOOLEAN, record_regression_result(r, judged)
      PROVE  \E row \in RecordRow :
                  /\ records' = Append(records, row)
                  /\ row.run = r /\ row.cluster = links[runs[r].link].cluster
                  /\ row.link = ORPHAN_LINK_ID \/ row.link \in PendingLinks(row.cluster)
  <2> DEFINE c == links[runs[r].link].cluster
             l == _find_current_link(c)
             row == [link |-> l, cluster |-> c, run |-> r]
  <2>1. records' = Append(records, row)
    BY <1>1 DEF record_regression_result
  <2>2. l = ORPHAN_LINK_ID \/ l \in PendingLinks(c)
    BY CurrentLink
  <2>3. row \in RecordRow /\ row.link = l /\ row.cluster = c /\ row.run = r
    BY <2>2, RowTypes DEF TypeInv, RecordRow, ORPHAN_LINK_ID, PendingLinks
  <2> HIDE DEF row, l, c
  <2>4. /\ row.run = r /\ row.cluster = c /\ records' = Append(records, row)
        /\ row.link = ORPHAN_LINK_ID \/ row.link \in PendingLinks(row.cluster)
    BY <2>1, <2>2, <2>3
  <2> QED
    BY <2>3, <2>4 DEF c
<1>2. \/ UNCHANGED records
      \/ \E r \in DOMAIN runs, judged \in BOOLEAN : record_regression_result(r, judged)
  BY DEF Next, vars, merge_candidate, _apply_count, _open_cluster, assemble_cluster,
      apply_ack, auto_requeue_stuck, OfflineRun, _rejudge_batch
<1>3. CASE \E r \in DOMAIN runs, judged \in BOOLEAN : record_regression_result(r, judged)
  <2>1. PICK r \in DOMAIN runs, judged \in BOOLEAN : record_regression_result(r, judged)
    BY <1>3
  <2> QED
    BY <1>1, <2>1
<1> QED
  BY <1>2, <1>3

\* A cluster keeps its key, and a run is of the same agent ever after.
LEMMA AgentsKept ==
    ASSUME TypeInv, [Next]_vars
    PROVE  /\ \A c \in DOMAIN clusters : c \in DOMAIN clusters' /\ clusters'[c].key = clusters[c].key
           /\ \A l \in DOMAIN links : AgentOfLink(l)' = AgentOfLink(l)
           /\ \A r \in DOMAIN runs : AgentOfRun(r)' = AgentOfRun(r)
<1>0. TypeOK
  BY DEF TypeInv
<1>1. \A c \in DOMAIN clusters : c \in DOMAIN clusters' /\ clusters'[c].key = clusters[c].key
  <2>1. ASSUME NEW key \in Keys, NEW snapshot, NEW truncated, NEW reopen,
               merge_candidate(key, snapshot, truncated, reopen)
        PROVE  \A c \in DOMAIN clusters : c \in DOMAIN clusters' /\ clusters'[c].key = clusters[c].key
    <3>1. CASE _apply_count(key, snapshot, truncated)
      BY <1>0, <3>1, CountKept DEF ChainKept
    <3>2. CASE _open_cluster(key, snapshot, truncated, reopen)
      <4>1. PICK row : clusters' = Append(clusters, row)
        BY <3>2 DEF _open_cluster
      <4>2. clusters \in Seq(ClusterRow) /\ Len(clusters) \in Nat /\ DOMAIN clusters = 1 .. Len(clusters)
        BY <1>0, RowTypes DEF TypeOK
      <4> QED
        BY <4>1, <4>2
    <3> QED
      BY <2>1, <3>1, <3>2 DEF merge_candidate
  <2>2. ASSUME NEW passed, Settles(passed)
        PROVE  \A c \in DOMAIN clusters : c \in DOMAIN clusters' /\ clusters'[c].key = clusters[c].key
    BY <2>2 DEF Settles
  <2>3. ASSUME NEW r \in DOMAIN runs, NEW judged, record_regression_result(r, judged)
        PROVE  \A c \in DOMAIN clusters : c \in DOMAIN clusters' /\ clusters'[c].key = clusters[c].key
    BY <1>0, <2>2, <2>3, RecordSettles
  <2>4. ASSUME NEW raising, _rejudge_batch(raising)
        PROVE  \A c \in DOMAIN clusters : c \in DOMAIN clusters' /\ clusters'[c].key = clusters[c].key
    BY <1>0, <2>2, <2>4, RejudgeSettles
  <2> QED
    BY <2>1, <2>3, <2>4 DEF Next, vars, assemble_cluster, apply_ack, auto_requeue_stuck, OfflineRun
<1>2. \A l \in DOMAIN links : links[l].cluster \in DOMAIN clusters
                              /\ l \in DOMAIN links' /\ links'[l].cluster = links[l].cluster
  BY <1>0, RowTypes, LinksAreKept DEF LinksKept
<1>3. \A l \in DOMAIN links : AgentOfLink(l)' = AgentOfLink(l)
  BY <1>1, <1>2 DEF AgentOfLink
<1>4. \A r \in DOMAIN runs : runs[r].link \in DOMAIN links /\ runs'[r] = runs[r]
  BY <1>0, RowTypes, ResultsStay
<1> QED
  BY <1>1, <1>3, <1>4 DEF AgentOfRun

\* What a new run is: of the agent's last version again, or of a later one.
LEMMA RunAppended ==
    ASSUME TypeInv, RunsAscend, NEW l \in DOMAIN links, NEW v \in Versions,
           NEW o \in Outcomes, OfflineRun(l, v, o)
    PROVE  \E row \in RunRow :
               /\ runs' = Append(runs, row) /\ row.link = l
               /\ \A p \in DOMAIN runs : AgentOfRun(p) = AgentOfLink(l) =>
                      /\ \/ VersionRank[runs[p].ver] < VersionRank[row.ver]
                         \/ runs[p].ver = row.ver
                      /\ \E q \in DOMAIN runs : p <= q /\ AgentOfRun(q) = AgentOfLink(l)
                                                /\ row.prev = runs[q].ver
<1> DEFINE agent == AgentOfLink(l)
           last == LastVersion(agent)
           row == [link |-> l, ver |-> v, prev |-> last, pf |-> o.pf, na |-> o.na]
           q == Max(RunsOf(agent))
<1>0. TypeOK /\ TypeInv'
  BY TypeNext DEF TypeInv, Next
<1>1. runs' = Append(runs, row) /\ (last # NoVersion => VersionRank[last] < VersionRank[v] \/ last = v)
  BY DEF OfflineRun
<1>2. row.link = l /\ row.ver = v /\ row.prev = last
  OBVIOUS
<1>3. row \in RunRow
  <2> HIDE DEF row
  <2>1. runs \in Seq(RunRow) /\ runs' \in Seq(RunRow) /\ Len(runs) \in Nat
    BY <1>0, RowTypes DEF TypeInv, TypeOK
  <2>2. runs'[Len(runs) + 1] = row /\ Len(runs') = Len(runs) + 1
    BY <1>1, <2>1
  <2>3. Len(runs) + 1 \in 1 .. Len(runs')
    BY <2>1, <2>2
  <2> QED
    BY <2>1, <2>2, <2>3, ElementOfSeq
<1>4. ASSUME NEW p \in DOMAIN runs, AgentOfRun(p) = agent
      PROVE  /\ VersionRank[runs[p].ver] < VersionRank[v] \/ runs[p].ver = v
             /\ q \in DOMAIN runs /\ p <= q /\ AgentOfRun(q) = agent /\ last = runs[q].ver
  <2>1. p \in RunsOf(agent) /\ RunsOf(agent) \subseteq 0 .. Len(runs) /\ Len(runs) \in Nat
    BY <1>0, <1>4, RowTypes DEF RunsOf, AgentOfRun
  <2>2. q \in RunsOf(agent) /\ p <= q
    <3> HIDE DEF agent
    <3> QED
      BY <2>1, MaxOfBounded
  <2>3. q \in DOMAIN runs /\ AgentOfRun(q) = agent /\ last = runs[q].ver
    BY <2>1, <2>2 DEF RunsOf, AgentOfRun, LastVersion
  <2>4. /\ p \in Nat /\ q \in Nat /\ last # NoVersion
        /\ VersionRank[runs[p].ver] \in Nat /\ VersionRank[runs[q].ver] \in Nat /\ VersionRank[v] \in Nat
    BY <1>0, <2>3, RanksAreNat, VersionAssumption
  <2>5. VersionRank[runs[q].ver] < VersionRank[v] \/ runs[q].ver = v
    BY <1>1, <2>3, <2>4
  <2>6. runs[p].ver = runs[q].ver \/ VersionRank[runs[p].ver] < VersionRank[runs[q].ver]
    <3>1. p = q \/ p < q
      <4> HIDE DEF q
      <4> QED
        BY <2>2, <2>4
    <3> QED
      BY <1>4, <2>3, <3>1 DEF RunsAscend
  <2>7. VersionRank[runs[p].ver] < VersionRank[v] \/ runs[p].ver = v
    <3> HIDE DEF q
    <3> QED
      BY <2>4, <2>5, <2>6
  <2> QED
    BY <2>2, <2>3, <2>7
<1> HIDE DEF row, last, q
<1>5. \A p \in DOMAIN runs : AgentOfRun(p) = agent =>
          /\ VersionRank[runs[p].ver] < VersionRank[row.ver] \/ runs[p].ver = row.ver
          /\ \E y \in DOMAIN runs : p <= y /\ AgentOfRun(y) = agent /\ row.prev = runs[y].ver
  BY <1>2, <1>4
<1> QED
  BY <1>1, <1>2, <1>3, <1>5

\* The invariant under which what closes a link stays unbroken.
FixInv == /\ AgreeInv /\ GenerationChain /\ NoFalseFix
          /\ RunsAscend /\ PreviousIsLast /\ Filed(records) /\ Attributed(records)

LEMMA AscendNext ==
    ASSUME TypeInv, RunsAscend, PreviousIsLast, [Next]_vars
    PROVE  RunsAscend' /\ PreviousIsLast'
<1>0. TypeOK /\ TypeInv'
  BY TypeNext DEF TypeInv
<1>1. \A r \in DOMAIN runs : /\ r \in DOMAIN runs' /\ runs'[r] = runs[r]
                             /\ AgentOfRun(r)' = AgentOfRun(r)
  BY ResultsStay, AgentsKept
<1>2. CASE UNCHANGED runs
  BY <1>1, <1>2 DEF RunsAscend, PreviousIsLast
<1>3. CASE \E l \in DOMAIN links, v \in Versions, o \in Outcomes : OfflineRun(l, v, o)
  <2>1. PICK l \in DOMAIN links, v \in Versions, o \in Outcomes : OfflineRun(l, v, o)
    BY <1>3
  <2>2. PICK row \in RunRow :
            /\ runs' = Append(runs, row) /\ row.link = l
            /\ \A p \in DOMAIN runs : AgentOfRun(p) = AgentOfLink(l) =>
                   /\ VersionRank[runs[p].ver] < VersionRank[row.ver] \/ runs[p].ver = row.ver
                   /\ \E q \in DOMAIN runs : p <= q /\ AgentOfRun(q) = AgentOfLink(l)
                                             /\ row.prev = runs[q].ver
    BY <2>1, RunAppended
  <2>3. PICK new : new = Len(runs) + 1
    OBVIOUS
  <2>4. /\ Len(runs) \in Nat /\ DOMAIN runs = 1 .. Len(runs)
        /\ \A r \in DOMAIN runs' : r \in DOMAIN runs \/ r = new
        /\ runs'[new] = row
    <3>1. runs \in Seq(RunRow)
      BY <1>0 DEF TypeOK
    <3> QED
      BY <2>2, <2>3, <3>1
  <2>5. AgentOfRun(new)' = AgentOfLink(l)
    BY <2>2, <2>4, AgentsKept DEF AgentOfRun
  <2>6. \A r \in DOMAIN runs : r < new /\ ~(new < r)
    BY <2>3, <2>4
  <2>7. ASSUME NEW p \in DOMAIN runs', NEW r \in DOMAIN runs', p < r,
               AgentOfRun(p)' = AgentOfRun(r)'
        PROVE  /\ \/ VersionRank[runs'[p].ver] < VersionRank[runs'[r].ver]
                  \/ runs'[p].ver = runs'[r].ver
               /\ \E q \in DOMAIN runs' : /\ p <= q /\ q < r /\ AgentOfRun(q)' = AgentOfRun(r)'
                                          /\ runs'[r].prev = runs'[q].ver
    <3>1. p \in DOMAIN runs
      <4>1. ~(new < new)
        BY <2>3, <2>4
      <4> QED
        BY <2>4, <2>6, <2>7, <4>1
    <3>2. CASE r \in DOMAIN runs
      <4>1. AgentOfRun(p) = AgentOfRun(r)
        BY <1>1, <2>7, <3>1, <3>2
      <4>2. VersionRank[runs[p].ver] < VersionRank[runs[r].ver] \/ runs[p].ver = runs[r].ver
        BY <2>7, <3>1, <3>2, <4>1 DEF RunsAscend
      <4>3. PICK q \in DOMAIN runs : /\ p <= q /\ q < r /\ AgentOfRun(q) = AgentOfRun(r)
                                     /\ runs[r].prev = runs[q].ver
        BY <2>7, <3>1, <3>2, <4>1 DEF PreviousIsLast
      <4> QED
        BY <1>1, <3>1, <3>2, <4>2, <4>3
    <3>3. CASE r = new
      <4>1. AgentOfRun(p) = AgentOfLink(l)
        BY <1>1, <2>5, <2>7, <3>1, <3>3
      <4>2. VersionRank[runs[p].ver] < VersionRank[row.ver] \/ runs[p].ver = row.ver
        BY <2>2, <3>1, <4>1
      <4>3. PICK q \in DOMAIN runs : p <= q /\ AgentOfRun(q) = AgentOfLink(l) /\ row.prev = runs[q].ver
        BY <2>2, <3>1, <4>1
      <4> QED
        BY <1>1, <2>4, <2>5, <2>6, <3>1, <3>3, <4>2, <4>3
    <3> QED
      BY <2>4, <3>2, <3>3
  <2> QED
    BY <2>7 DEF RunsAscend, PreviousIsLast
<1> QED
  BY <1>2, <1>3 DEF Next, vars, merge_candidate, _apply_count, _open_cluster, assemble_cluster,
      apply_ack, auto_requeue_stuck, record_regression_result, _rejudge_batch
\* The two pending links of a key are one.
LEMMA OneCurrent ==
    ASSUME TypeOK, LinkClusterAgree, GenerationChain,
           NEW l \in DOMAIN links, NEW m \in DOMAIN links,
           links[l].verify = "pending", links[m].verify = "pending", KeyOfLink(l) = KeyOfLink(m)
    PROVE  l = m
<1> DEFINE c == links[l].cluster
           d == links[m].cluster
<1>1. c \in DOMAIN clusters /\ d \in DOMAIN clusters /\ c \in Nat /\ d \in Nat
  BY RowTypes
<1>2. clusters[c].status # "fixed" /\ clusters[d].status # "fixed"
  BY <1>1 DEF LinkClusterAgree, FixedByItsLink, PendingLinks
<1>3. clusters[c].key = clusters[d].key
  BY DEF KeyOfLink
<1>4. ~(c < d) /\ ~(d < c)
  BY <1>1, <1>2, <1>3 DEF GenerationChain
<1>5. c = d
  <2> HIDE DEF c, d
  <2> QED
    BY <1>1, <1>4
<1> QED
  BY <1>5 DEF LinkClusterAgree, OnePending

\* What the results say of the links and runs of before the step.
LEMMA FiledStay ==
    ASSUME FixInv, [Next]_vars, NEW recs, recs = records'
    PROVE  Sound(recs) /\ Filed(recs) /\ Attributed(recs)
<1>0. /\ TypeInv /\ TypeOK /\ LinkClusterAgree /\ GenerationChain
      /\ Filed(records) /\ Attributed(records)
  BY DEF FixInv, AgreeInv, TypeInv
<1>1. /\ records \in Seq(RecordRow) /\ Len(records) \in Nat /\ DOMAIN records = 1 .. Len(records)
      /\ \A i \in DOMAIN records : records[i].run \in DOMAIN runs
  BY <1>0, RowTypes DEF TypeOK
<1>2. CASE UNCHANGED records
  BY <1>0, <1>1, <1>2 DEF Sound
<1>3. ASSUME NEW r \in DOMAIN runs, NEW row \in RecordRow,
             records' = Append(records, row), row.run = r,
             row.cluster = links[runs[r].link].cluster,
             row.link = ORPHAN_LINK_ID \/ row.link \in PendingLinks(row.cluster)
      PROVE  Sound(recs) /\ Filed(recs) /\ Attributed(recs)
  <2>1. PICK new : new = Len(records) + 1
    OBVIOUS
  <2>2. /\ \A i \in DOMAIN recs : i \in DOMAIN records \/ i = new
        /\ \A i \in DOMAIN records : recs[i] = records[i]
        /\ recs[new] = row /\ recs \in Seq(RecordRow)
    BY <1>1, <1>3, <2>1
  <2>3. Sound(recs)
    BY <1>1, <1>3, <2>2 DEF Sound
  <2>4. Filed(recs)
    BY <1>0, <1>3, <2>2 DEF Filed, PendingLinks
  <2>5. ASSUME NEW i \in DOMAIN recs, NEW l \in DOMAIN links, recs[i].link # ORPHAN_LINK_ID,
               links[l].verify = "pending", clusters[recs[i].cluster].key = KeyOfLink(l),
               NEW p \in DOMAIN runs, runs[p].link = l, p <= recs[i].run
        PROVE  recs[i].link = l
    <3>1. CASE i \in DOMAIN records
      BY <1>0, <2>2, <2>5, <3>1 DEF Attributed
    <3>2. CASE i = new
      <4>1. row.link \in DOMAIN links /\ links[row.link].verify = "pending"
            /\ links[row.link].cluster = row.cluster
        BY <1>3, <2>2, <2>5, <3>2 DEF PendingLinks
      <4>2. KeyOfLink(row.link) = KeyOfLink(l)
        BY <2>2, <2>5, <3>2, <4>1 DEF KeyOfLink
      <4>3. row.link = l
        BY <1>0, <2>5, <4>1, <4>2, OneCurrent
      <4> QED
        BY <2>2, <3>2, <4>3
    <3> QED
      BY <2>2, <3>1, <3>2
  <2> QED
    BY <2>3, <2>4, <2>5 DEF Attributed
<1> QED
  BY <1>0, <1>2, <1>3, ResultFiled

\* What the results refer to is there, and stays.
LEMMA ResultsRefer ==
    ASSUME TypeInv, [Next]_vars, NEW recs, Sound(recs), Filed(recs)
    PROVE  \A i \in DOMAIN recs :
               /\ recs[i].run \in DOMAIN runs /\ runs'[recs[i].run] = runs[recs[i].run]
               /\ runs[recs[i].run].link \in DOMAIN links
               /\ links'[runs[recs[i].run].link].cluster = links[runs[recs[i].run].link].cluster
               /\ clusters'[recs[i].cluster].key = clusters[recs[i].cluster].key
               /\ recs[i].link # ORPHAN_LINK_ID =>
                      /\ recs[i].link \in DOMAIN links /\ recs[i].link \in DOMAIN links'
                      /\ links'[recs[i].link].cluster = links[recs[i].link].cluster
                      /\ AgentOfLink(recs[i].link)' = AgentOfLink(recs[i].link)
<1>0. TypeOK
  BY DEF TypeInv
<1>1. /\ \A l \in DOMAIN links : /\ l \in DOMAIN links' /\ links'[l].cluster = links[l].cluster
                                 /\ AgentOfLink(l)' = AgentOfLink(l)
                                 /\ links[l].cluster \in DOMAIN clusters
      /\ \A r \in DOMAIN runs : runs[r].link \in DOMAIN links /\ runs'[r] = runs[r]
      /\ \A c \in DOMAIN clusters : clusters'[c].key = clusters[c].key
  BY <1>0, RowTypes, LinksAreKept, AgentsKept, ResultsStay DEF LinksKept
<1> QED
  BY <1>1 DEF Sound, Filed

LEMMA FiledNext ==
    ASSUME FixInv, [Next]_vars
    PROVE  Filed(records)' /\ Attributed(records)'
<1>0. /\ AgreeInv /\ TypeInv /\ TypeOK /\ TypeInv' /\ TypeOK'
  BY TypeNext DEF FixInv, AgreeInv, TypeInv
<1>1. PICK recs : recs = records'
  OBVIOUS
<1>2. Sound(recs) /\ Filed(recs) /\ Attributed(recs)
  BY <1>1, FiledStay
<1>3. \A i \in DOMAIN recs :
          /\ recs[i].run \in DOMAIN runs /\ runs'[recs[i].run] = runs[recs[i].run]
          /\ runs[recs[i].run].link \in DOMAIN links
          /\ links'[runs[recs[i].run].link].cluster = links[runs[recs[i].run].link].cluster
          /\ clusters'[recs[i].cluster].key = clusters[recs[i].cluster].key
          /\ recs[i].link # ORPHAN_LINK_ID =>
                 /\ recs[i].link \in DOMAIN links /\ recs[i].link \in DOMAIN links'
                 /\ links'[recs[i].link].cluster = links[recs[i].link].cluster
  BY <1>0, <1>2, ResultsRefer
<1>4. /\ \A l \in DOMAIN links : /\ KeyOfLink(l)' = KeyOfLink(l)
                                 /\ links[l].verify # "pending" => links'[l].verify # "pending"
      /\ \A r \in DOMAIN runs : runs[r].link \in DOMAIN links /\ runs'[r] = runs[r]
  <2>1. \A l \in DOMAIN links : links[l].cluster \in DOMAIN clusters /\ links'[l].cluster = links[l].cluster
    BY <1>0, RowTypes, LinksAreKept DEF LinksKept
  <2>2. \A c \in DOMAIN clusters : clusters'[c].key = clusters[c].key
    BY <1>0, AgentsKept
  <2>3. \A l \in DOMAIN links : links[l].verify # "pending" => links'[l].verify # "pending"
    BY <1>0, VerdictsKept
  <2>4. \A r \in DOMAIN runs : runs[r].link \in DOMAIN links /\ runs'[r] = runs[r]
    BY <1>0, RowTypes, ResultsStay
  <2> QED
    BY <2>1, <2>2, <2>3, <2>4 DEF KeyOfLink
<1>5. Filed(records)'
  <2>1. ASSUME NEW i \in DOMAIN recs
        PROVE  /\ recs[i].cluster = links'[runs'[recs[i].run].link].cluster
               /\ recs[i].link # ORPHAN_LINK_ID =>
                      recs[i].link \in DOMAIN links' /\ links'[recs[i].link].cluster = recs[i].cluster
    BY <1>2, <1>3, <2>1 DEF Filed
  <2> QED
    BY <1>1, <2>1 DEF Filed, ORPHAN_LINK_ID
<1>6. ASSUME NEW i \in DOMAIN recs, NEW l \in DOMAIN links', NEW r \in DOMAIN runs',
             recs[i].link # ORPHAN_LINK_ID, links'[l].verify = "pending",
             runs'[r].link = l, r <= recs[i].run, clusters'[recs[i].cluster].key = KeyOfLink(l)'
      PROVE  recs[i].link = l
  <2>1. r \in DOMAIN runs
    <3>1. /\ Len(runs) \in Nat /\ DOMAIN runs = 1 .. Len(runs)
          /\ \E n \in Nat : DOMAIN runs' = 1 .. n
      BY <1>0, RowTypes DEF TypeOK
    <3>2. recs[i].run \in 1 .. Len(runs) /\ r \in Nat /\ r >= 1
      BY <1>3, <3>1
    <3> QED
      BY <1>6, <3>1, <3>2
  <2>2. l \in DOMAIN links /\ runs[r].link = l
    BY <1>4, <1>6, <2>1
  <2>3. links[l].verify = "pending" /\ clusters[recs[i].cluster].key = KeyOfLink(l)
    <3>1. links[l].verify = "pending"
      BY <1>4, <1>6, <2>2
    <3>2. KeyOfLink(l)' = KeyOfLink(l)
      BY <1>4, <2>2
    <3>3. clusters'[recs[i].cluster].key = clusters[recs[i].cluster].key
      BY <1>3
    <3> QED
      BY <1>6, <3>1, <3>2, <3>3
  <2> QED
    BY <1>2, <1>6, <2>1, <2>2, <2>3 DEF Attributed
<1>7. Attributed(records)'
  BY <1>1, <1>6 DEF Attributed, ORPHAN_LINK_ID
<1> QED
  BY <1>5, <1>7

LEMMA FixParts ==
    NoFalseFix <=> \A l \in DOMAIN links :
        links[l].verify = "passed" => \E P : Unbroken(records, l, P)
BY DEF NoFalseFix, Unbroken, VersionsOf, NoneBetween

\* What masked a gap is still there after the step.
LEMMA MaskedStays ==
    ASSUME TypeInv, [Next]_vars, NEW recs, Sound(recs), Filed(recs),
           NEW l \in DOMAIN links, NEW r \in DOMAIN runs, Masked(recs, l, r),
           \A i \in DOMAIN recs : i \in DOMAIN records' /\ records'[i] = recs[i]
    PROVE  Masked(records, l, r)'
<1>1. /\ runs'[r] = runs[r] /\ AgentOfLink(l)' = AgentOfLink(l)
      /\ clusters'[links'[l].cluster].key = clusters[links[l].cluster].key
  <2>1. links[l].cluster \in DOMAIN clusters /\ links'[l].cluster = links[l].cluster
    BY RowTypes, LinksAreKept DEF LinksKept, TypeInv
  <2> QED
    BY <2>1, AgentsKept, ResultsStay
<1>2. CASE runs[r].prev = runs[r].ver
  BY <1>1, <1>2 DEF Masked
<1>3. ASSUME NEW i \in DOMAIN recs,
             recs[i].link # ORPHAN_LINK_ID, AgentOfLink(recs[i].link) = AgentOfLink(l),
             clusters[recs[i].cluster].key # clusters[links[l].cluster].key,
             runs[recs[i].run].ver = runs[r].prev
      PROVE  Masked(records, l, r)'
  <2>1. /\ runs'[recs[i].run] = runs[recs[i].run]
        /\ clusters'[recs[i].cluster].key = clusters[recs[i].cluster].key
        /\ AgentOfLink(recs[i].link)' = AgentOfLink(recs[i].link)
    BY <1>3, ResultsRefer
  <2>2. i \in DOMAIN records' /\ records'[i] = recs[i]
    OBVIOUS
  <2>3. AgentOfLink(records[i].link)' = AgentOfLink(l)'
    BY <1>1, <1>3, <2>1, <2>2 DEF AgentOfLink
  <2>4. records'[i].link # ORPHAN_LINK_ID
    BY <1>3, <2>2
  <2>5. clusters'[records'[i].cluster].key # clusters'[links'[l].cluster].key
    BY <1>1, <1>3, <2>1, <2>2
  <2>6. runs'[records'[i].run].ver = runs'[r].prev
    BY <1>1, <1>3, <2>1, <2>2
  <2> QED
    BY <2>2, <2>3, <2>4, <2>5, <2>6 DEF Masked, ORPHAN_LINK_ID
<1> QED
  BY <1>2, <1>3 DEF Masked

\* The rows of a link that is decided are the same after the step.
LEMMA RowsStay ==
    ASSUME TypeInv, [Next]_vars, NEW recs, Sound(recs), NEW l,
           RecordsOf(records', l) = RecordsOf(recs, l),
           \A i \in RecordsOf(recs, l) : records'[i] = recs[i]
    PROVE  WalkedOutOfOrder(recs, l) => WalkedOutOfOrder(records, l)'
<1>1. \A i \in RecordsOf(recs, l) : runs'[records'[i].run] = runs[recs[i].run]
  BY ResultsStay DEF Sound, RecordsOf
<1>2. \A run : _x_pf_of(run, l)' = _x_pf_of(run, l)
  BY DEF _x_pf_of
<1>3. RowsOf(records, l)' = RowsOf(recs, l)
  BY <1>1, <1>2 DEF RowsOf
<1> QED
  BY <1>3 DEF WalkedOutOfOrder

\* No later run is between two passes: it is of the version of the later one, or of a
\* later version than either.
LEMMA UnbrokenStays ==
    ASSUME AgreeInv, RunsAscend, PreviousIsLast, Filed(records), [Next]_vars,
           NEW l \in DOMAIN links, links[l].verify # "pending", NEW P, Unbroken(records, l, P)
    PROVE  Unbroken(records, l, P)'
<1>0. TypeInv /\ TypeOK /\ TypeInv' /\ TypeOK' /\ RunsAscend'
  BY TypeNext, AscendNext DEF AgreeInv, TypeInv
<1>1. /\ \A i \in DOMAIN records : /\ i \in DOMAIN records' /\ records'[i] = records[i]
                                   /\ records[i].run \in DOMAIN runs
      /\ \A r \in DOMAIN runs : /\ r \in DOMAIN runs' /\ runs'[r] = runs[r]
                                /\ AgentOfRun(r)' = AgentOfRun(r)
      /\ Sound(records)
  BY <1>0, ResultsStay, AgentsKept DEF TypeOK, Sound
<1>2. \A r \in P : /\ r \in DOMAIN runs /\ runs[r].link = l
                   /\ \E i \in DOMAIN records : records[i].link = l /\ records[i].run = r
  BY <1>1 DEF Unbroken
<1>3. VersionsOf(runs', P) = VersionsOf(runs, P)
  BY <1>1, <1>2 DEF VersionsOf
<1>4. \A r \in DOMAIN runs : PurePass(r)' = PurePass(r)
  BY <1>1 DEF PurePass
<1>5. ASSUME NEW x \in DOMAIN runs', NEW r \in P, NEW s \in P, runs'[x].link = l,
             VersionRank[runs'[r].ver] < VersionRank[runs'[x].ver],
             VersionRank[runs'[x].ver] < VersionRank[runs'[s].ver],
             NoneBetween(P, r, s)'
      PROVE  WalkedOutOfOrder(records, l)' \/ Masked(records, l, s)'
  <2>1. runs[s].link = l /\ s \in DOMAIN runs /\ s \in DOMAIN runs'
        /\ runs'[s] = runs[s] /\ runs'[r] = runs[r] /\ r \in DOMAIN runs
    BY <1>1, <1>2
  <2>2. AgentOfRun(s)' = AgentOfRun(x)'
    BY <1>5, <2>1 DEF AgentOfRun
  <2>3. x \in DOMAIN runs
    <3>1. /\ Len(runs) \in Nat /\ DOMAIN runs = 1 .. Len(runs)
          /\ \E n \in Nat : DOMAIN runs' = 1 .. n
      BY <1>0, RowTypes DEF TypeOK
    <3>2. PICK u, v : u = VersionRank[runs'[s].ver] /\ v = VersionRank[runs'[x].ver]
      OBVIOUS
    <3>3. u \in Nat /\ v \in Nat
      <4>1. runs' \in Seq(RunRow)
        BY <1>0 DEF TypeOK
      <4>2. runs'[x] \in RunRow /\ runs'[s] \in RunRow
        BY <2>1, <4>1, ElementOfSeq
      <4> QED
        BY <3>2, <4>2, VersionAssumption DEF RunRow
    <3>4. s < x => u < v \/ u = v
      BY <1>0, <1>5, <2>1, <2>2, <3>2 DEF RunsAscend
    <3>5. v < u
      BY <1>5, <3>2
    <3>6. ~(s < x)
      BY <3>3, <3>4, <3>5
    <3>7. x \in Nat /\ x >= 1 /\ s \in 1 .. Len(runs)
      BY <2>1, <3>1
    <3> QED
      BY <3>1, <3>6, <3>7
  <2>4. NoneBetween(P, r, s)
    <3>1. \A w \in P : runs'[w] = runs[w]
      BY <1>1, <1>2
    <3> QED
      BY <1>5, <2>1, <3>1 DEF NoneBetween
  <2>5. runs'[x] = runs[x]
    BY <1>1, <2>3
  <2>6. WalkedOutOfOrder(records, l) \/ Masked(records, l, s)
    BY <1>5, <2>1, <2>3, <2>4, <2>5 DEF Unbroken
  <2>7. CASE WalkedOutOfOrder(records, l)
    <3>1. RecordsOf(records', l) = RecordsOf(records, l)
          /\ \A i \in RecordsOf(records, l) : records'[i] = records[i]
      BY <1>0, TerminalNext DEF TerminalKept
    <3> QED
      BY <1>0, <1>1, <2>7, <3>1, RowsStay
  <2>8. CASE Masked(records, l, s)
    BY <1>0, <1>1, <2>1, <2>8, MaskedStays
  <2> QED
    BY <2>6, <2>7, <2>8
<1>6. P \subseteq {records'[i].run : i \in {j \in DOMAIN records' : records'[j].link = l}}
  BY <1>1, <1>2
<1>7. \A r \in P : runs'[r].link = l /\ PurePass(r)'
  BY <1>1, <1>2, <1>4 DEF Unbroken
<1>8. Cardinality(VersionsOf(runs', P)) >= ClaimK
  BY <1>3 DEF Unbroken
<1> QED
  BY <1>5, <1>6, <1>7, <1>8 DEF Unbroken

LEMMA FixNext == FixInv /\ [Next]_vars => NoFalseFix'
<1> SUFFICES ASSUME FixInv, [Next]_vars PROVE NoFalseFix'
  OBVIOUS
<1>0. /\ AgreeInv /\ TypeInv /\ TypeOK /\ TypeInv' /\ TypeOK' /\ RunsAscend /\ PreviousIsLast
      /\ Filed(records) /\ NoFalseFix
  BY TypeNext DEF FixInv, AgreeInv, TypeInv
<1>1. ASSUME NEW l \in DOMAIN links, links[l].verify = "passed"
      PROVE  \E P : Unbroken(records, l, P)'
  <2>1. PICK P : Unbroken(records, l, P)
    BY <1>0, <1>1, FixParts
  <2> QED
    BY <1>0, <1>1, <2>1, UnbrokenStays
<1>2. ASSUME NEW l \in DOMAIN links, links[l].verify # "passed", links'[l].verify = "passed"
      PROVE  \E P : Unbroken(records, l, P)'
  <2>1. links[l].verify = "pending"
    BY <1>0, <1>2, VerdictsKept
  <2>2. PICK recs : Judging(recs)
    <3>1. ~Quiet /\ ~Opens
      BY <1>2 DEF Quiet, Opens
    <3> QED
      BY <1>0, <3>1, StepKinds
  <2>3. recs = records' /\ runs' = runs /\ Sound(recs) /\ Outcome(recs, l).stop = "passed"
    BY <1>2, <2>1, <2>2 DEF Judging, Judged
  <2>4. Filed(recs) /\ Attributed(recs)
    BY <2>3, FiledStay
  <2>5. PICK P : Unbroken(recs, l, P)
    BY <1>0, <2>1, <2>3, <2>4, PassUnbroken
  <2>6. \A r : PurePass(r)' = PurePass(r)
    BY <2>3 DEF PurePass
  <2>7. ASSUME NEW x \in DOMAIN runs, NEW r \in P, NEW s \in P, runs[x].link = l,
               VersionRank[runs[r].ver] < VersionRank[runs[x].ver],
               VersionRank[runs[x].ver] < VersionRank[runs[s].ver], NoneBetween(P, r, s)
        PROVE  WalkedOutOfOrder(records, l)' \/ Masked(records, l, s)'
    <3>1. CASE WalkedOutOfOrder(recs, l)
      BY <1>0, <2>3, <3>1, RowsStay
    <3>2. CASE Masked(recs, l, s)
      <4>1. s \in DOMAIN runs
        BY <2>3, <2>5 DEF Unbroken, Sound
      <4> QED
        BY <1>0, <2>3, <2>4, <3>2, <4>1, MaskedStays
    <3> QED
      BY <2>5, <2>7, <3>1, <3>2 DEF Unbroken
  <2>8. \A r, s : NoneBetween(P, r, s)' = NoneBetween(P, r, s)
    BY <2>3 DEF NoneBetween
  <2>9. /\ P \subseteq {records'[i].run : i \in {j \in DOMAIN records' : records'[j].link = l}}
        /\ Cardinality(VersionsOf(runs', P)) >= ClaimK
        /\ \A r \in P : runs'[r].link = l /\ PurePass(r)'
    BY <2>3, <2>5, <2>6 DEF Unbroken
  <2> QED
    BY <2>3, <2>7, <2>8, <2>9 DEF Unbroken
<1>3. ASSUME NEW l \in DOMAIN links', l \notin DOMAIN links PROVE links'[l].verify # "passed"
  BY <1>0, <1>3, StepKinds DEF Quiet, Opens, Judging, Judged, Settles
<1>4. \A l \in DOMAIN links' : links'[l].verify = "passed" => \E P : Unbroken(records, l, P)'
  BY <1>1, <1>2, <1>3
<1> QED
  BY <1>4 DEF NoFalseFix, Unbroken, VersionsOf, NoneBetween

\* No cluster is closed over a failure: whatever was lost, repeated or reordered, and
\* however versions are written, a link passes on K received pure passes of its own case,
\* and was run on no version between two that follow each other unless the gap before
\* the later one was masked or versions that compare equal came out of order.
THEOREM NoFixOverFailure == Spec => []NoFalseFix
<1>1. Init => FixInv
  <2> SUFFICES ASSUME Init
               PROVE  /\ GenerationChain /\ NoFalseFix
                      /\ RunsAscend /\ PreviousIsLast /\ Filed(records) /\ Attributed(records)
    BY TypeInit, AgreeInit DEF FixInv, AgreeInv
  <2>1. DOMAIN <<>> = {}
    OBVIOUS
  <2> QED
    BY <2>1 DEF Init, GenerationChain, NoFalseFix, RunsAscend, PreviousIsLast, Filed, Attributed
<1>2. FixInv /\ [Next]_vars => FixInv'
  BY TypeNext, AgreeNext, ChainNext, AscendNext, FiledNext, FixNext
  DEF FixInv, AgreeInv, ChainInv
<1>3. FixInv => NoFalseFix
  BY DEF FixInv
<1> QED
  BY <1>1, <1>2, <1>3, PTL DEF Spec

-----------------------------------------------------------------------------
(***************************************************************************)
(* Backflow implements Lifecycle.  The steps of the loop fall into four    *)
(* kinds: those that move no case, those that open one, those that put one *)
(* to the test, and those that settle some of the cases under test.        *)
(* TypeInv is the invariant it rests on: the reference of a link to its    *)
(* cluster and the status of a cluster decide where a case stands, and     *)
(* Untouched, ChainKept and Settles say what a step does to them.          *)
(***************************************************************************)
\* What the mapping sees of a state: the key of a case, and where it stands.
LEMMA CasesRow ==
    /\ DOMAIN Cases = DOMAIN clusters
    /\ \A c \in DOMAIN clusters : /\ Cases[c] = [key |-> clusters[c].key, state |-> CaseState(c)]
                                  /\ Cases[c].key = clusters[c].key
                                  /\ Cases[c].state = CaseState(c)
BY DEF Cases

\* Steps that keep keys, statuses and pending links move no case.
LEMMA CasesUntouched ==
    ASSUME Untouched, \A c \in DOMAIN clusters : clusters'[c].key = clusters[c].key
    PROVE  Cases' = Cases
<1>1. \A c : PendingLinks(c)' = PendingLinks(c)
  BY DEF Untouched, PendingLinks
<1>2. \A c \in DOMAIN clusters : CaseState(c)' = CaseState(c)
  BY <1>1 DEF Untouched, CaseState
<1> QED
  BY <1>2 DEF Untouched, Cases

LEMMA CountMoves ==
    ASSUME TypeOK, NEW key, NEW snapshot, NEW truncated, _apply_count(key, snapshot, truncated)
    PROVE  Cases' = Cases
BY CountUntouched, CountKept, CasesUntouched DEF ChainKept

LEMMA InitCases == Init => Abstract!Init
<1> SUFFICES ASSUME Init PROVE Cases = <<>>
  BY DEF Abstract!Init
<1>1. DOMAIN clusters = {}
  BY DEF Init
<1>2. Cases = [c \in {} |-> [key |-> clusters[c].key, state |-> CaseState(c)]]
  BY <1>1 DEF Cases
<1> QED
  BY <1>2

\* A new generation is a new case, opened when all cases of its key are fixed.
LEMMA OpenMoves ==
    ASSUME TypeOK, TypeOK', NEW key, NEW snapshot, NEW truncated, NEW reopen,
           _open_cluster(key, snapshot, truncated, reopen)
    PROVE  Abstract!Opened(key)
<1>0. PICK new : new = Len(clusters) + 1
  OBVIOUS
<1>1. /\ clusters' = Append(clusters, [key |-> key, generation |-> NextGeneration(key),
                         status |-> "open", snapshot |-> snapshot, truncated |-> truncated])
      /\ links' = links /\ CurrentClusters(key) = {}
  BY DEF _open_cluster
<1>2. /\ Len(clusters) \in Nat /\ DOMAIN clusters = 1 .. Len(clusters)
      /\ \A c \in DOMAIN clusters : clusters[c].status \in {"open", "fixed"}
      /\ \A l \in DOMAIN links : links[l].cluster \in DOMAIN clusters
  BY RowTypes DEF ClusterRow
<1>3. /\ DOMAIN clusters' = 1 .. new
      /\ clusters'[new].key = key /\ clusters'[new].status = "open"
      /\ \A c \in DOMAIN clusters : clusters'[c] = clusters[c]
  <2>1. /\ Len(clusters') = new
        /\ clusters'[new].key = key /\ clusters'[new].status = "open"
        /\ \A c \in DOMAIN clusters : clusters'[c] = clusters[c]
    BY <1>0, <1>1, <1>2 DEF TypeOK
  <2>2. DOMAIN clusters' = 1 .. Len(clusters')
    BY LenProperties DEF TypeOK
  <2> QED
    BY <2>1, <2>2
<1>4. \A c : PendingLinks(c)' = PendingLinks(c)
  BY <1>1 DEF PendingLinks
<1>5. PendingLinks(new) = {}
  BY <1>0, <1>2 DEF PendingLinks
<1>6. CaseState(new)' = "open" /\ \A c \in DOMAIN clusters : CaseState(c)' = CaseState(c)
  <2>1. CaseState(new)' = "open"
    BY <1>3, <1>4, <1>5 DEF CaseState
  <2>2. ASSUME NEW c \in DOMAIN clusters PROVE CaseState(c)' = CaseState(c)
    BY <1>3, <1>4, <2>2 DEF CaseState
  <2> QED
    BY <2>1, <2>2
<1>7. Cases' = [c \in 1 .. new |-> [key |-> clusters'[c].key, state |-> CaseState(c)']]
  BY <1>3 DEF Cases
<1>8. Cases' = Append(Cases, [key |-> key, state |-> "open"])
  <2> DEFINE row == [key |-> key, state |-> "open"]
           S == {Cases[c] : c \in 1 .. Len(clusters)} \cup {row}
  <2>1. Cases \in Seq(S) /\ Len(Cases) = Len(clusters)
    <3>1. DOMAIN Cases = DOMAIN clusters /\ Cases = [c \in DOMAIN clusters |-> Cases[c]]
      BY DEF Cases
    <3>2. \A c \in DOMAIN clusters : Cases[c] \in S
      BY <1>2
    <3>3. clusters \in Seq(ClusterRow)
      BY DEF TypeOK
    <3> HIDE DEF S
    <3> QED
      BY <3>1, <3>2, <3>3, TableUpdate
  <2>2. Append(Cases, row) = [c \in 1 .. new |-> IF c = new THEN row ELSE Cases[c]]
    <3>1. row \in S
      OBVIOUS
    <3> HIDE DEF S, row
    <3>2. /\ Append(Cases, row) \in Seq(S) /\ Len(Append(Cases, row)) = new
          /\ \A c \in DOMAIN Cases : Append(Cases, row)[c] = Cases[c]
          /\ Append(Cases, row)[new] = row /\ DOMAIN Cases = 1 .. Len(clusters)
      BY <1>0, <1>2, <2>1, <3>1, AppendRow, CasesRow
    <3>3. Append(Cases, row) = [c \in 1 .. new |-> Append(Cases, row)[c]]
      BY <3>2, LenProperties
    <3>4. \A c \in 1 .. new : Append(Cases, row)[c] = IF c = new THEN row ELSE Cases[c]
      BY <1>0, <1>2, <3>2
    <3> QED
      BY <3>3, <3>4
  <2>3. \A c \in 1 .. new : [key |-> clusters'[c].key, state |-> CaseState(c)'] =
                            IF c = new THEN row ELSE Cases[c]
    BY <1>0, <1>2, <1>3, <1>6, CasesRow
  <2>4. Cases' = [c \in 1 .. new |-> IF c = new THEN row ELSE Cases[c]]
    BY <1>7, <2>3
  <2> QED
    BY <2>2, <2>4
<1>9. \A c \in DOMAIN Cases : Cases[c].key = key => Cases[c].state = "fixed"
  BY <1>1, <1>2, CasesRow DEF CurrentClusters, ClustersOf, NON_TERMINAL_STATUSES, CaseState
<1> QED
  BY <1>8, <1>9 DEF Abstract!Opened

\* A link of its own puts an open case to the test, and no other case moves.
LEMMA AssembleMoves ==
    ASSUME TypeOK, NEW c \in DOMAIN clusters, assemble_cluster(c)
    PROVE  Abstract!Tested(c)
<1> DEFINE row == [cluster |-> c, offline |-> "assembled", reason |-> "none",
                   case |-> FALSE, verify |-> "pending", requeues |-> 0]
           new == Len(links) + 1
<1>1. /\ links' = Append(links, row) /\ clusters' = clusters
      /\ clusters[c].status = "open" /\ PendingLinks(c) = {}
  BY DEF assemble_cluster, NeedsLink
<1>2. links \in Seq(LinkRow) /\ row \in LinkRow /\ row.cluster = c /\ row.verify = "pending"
  BY RowTypes DEF TypeOK, LinkRow
<1> HIDE DEF row
<1>3. /\ DOMAIN links' = DOMAIN links \cup {new}
      /\ \A l \in DOMAIN links : links'[l] = links[l]
      /\ links'[new] = row
  BY <1>1, <1>2, AppendRow
<1> HIDE DEF new
<1>4. \A d : d # c => PendingLinks(d)' = PendingLinks(d)
  BY <1>2, <1>3 DEF PendingLinks
<1>5. new \in PendingLinks(c)'
  BY <1>2, <1>3 DEF PendingLinks
<1>6. CaseState(c) = "open" /\ CaseState(c)' = "tested"
      /\ \A d \in DOMAIN clusters : d # c => CaseState(d)' = CaseState(d)
  BY <1>1, <1>4, <1>5 DEF CaseState
<1>7. Cases' = [d \in DOMAIN clusters |-> [key |-> clusters[d].key, state |-> CaseState(d)']]
  BY <1>1 DEF Cases
<1>8. Cases' = [Cases EXCEPT ![c].state = "tested"]
  BY <1>6, <1>7 DEF Cases
<1> QED
  BY <1>6, <1>8, CasesRow DEF Abstract!Tested

\* Verdicts conclude the tests of the cases they settle: a case whose link passed
\* is fixed, one whose link failed is open again, the others stay under test.
LEMMA SettlesMoves ==
    ASSUME TypeOK, NEW passed \in SUBSET RejudgeCandidates, Settles(passed)
    PROVE  \E P, F \in SUBSET DOMAIN Cases : Abstract!Concluded(P, F)
<1> DEFINE failed == {c \in DOMAIN clusters \ passed : CaseState(c) = "tested" /\ PendingLinks(c)' = {}}
<1>1. \A c \in passed : c \in DOMAIN clusters /\ CaseState(c) = "tested"
  BY DEF RejudgeCandidates, CaseState
<1>2. \A l \in DOMAIN links : links'[l].verify = "pending" => links[l].verify = "pending"
  BY RowTypes DEF Settles, LinkRow
<1>3. \A c : PendingLinks(c)' \subseteq PendingLinks(c)
  BY <1>2 DEF PendingLinks, Settles
<1>4. \A c \in DOMAIN clusters : CaseState(c)' =
          IF c \in passed THEN "fixed" ELSE IF c \in failed THEN "open" ELSE CaseState(c)
  <2> TAKE c \in DOMAIN clusters
  <2>1. CASE c \in passed
    BY <2>1 DEF Settles, CaseState
  <2>2. CASE c \notin passed
    <3>1. clusters'[c] = clusters[c]
      BY <2>2 DEF Settles
    <3> QED
      BY <1>3, <2>2, <3>1 DEF CaseState
  <2> QED
    BY <2>1, <2>2
<1>5. /\ DOMAIN clusters' = DOMAIN clusters
      /\ \A c \in DOMAIN clusters : clusters'[c].key = clusters[c].key
  BY SettlesKept DEF ChainKept
<1>6. Cases' = [c \in DOMAIN clusters |-> [key |-> clusters[c].key, state |-> CaseState(c)']]
  BY <1>5 DEF Cases
<1>7. \A c \in failed : c \in DOMAIN clusters \ passed /\ CaseState(c) = "tested"
  OBVIOUS
<1> HIDE DEF failed
<1>8. \A c \in DOMAIN clusters : [key |-> clusters[c].key, state |-> CaseState(c)'] =
          IF c \in passed THEN [Cases[c] EXCEPT !.state = "fixed"]
          ELSE IF c \in failed THEN [Cases[c] EXCEPT !.state = "open"]
          ELSE Cases[c]
  BY <1>4, CasesRow
<1>9. Cases' = [c \in DOMAIN Cases |->
          IF c \in passed THEN [Cases[c] EXCEPT !.state = "fixed"]
          ELSE IF c \in failed THEN [Cases[c] EXCEPT !.state = "open"]
          ELSE Cases[c]]
  BY <1>6, <1>8, CasesRow
<1>10. passed \cap failed = {} /\ \A c \in passed \cup failed : Cases[c].state = "tested"
  BY <1>1, <1>7, CasesRow
<1>11. passed \in SUBSET DOMAIN Cases /\ failed \in SUBSET DOMAIN Cases
  BY <1>1, <1>7, CasesRow
<1>12. Abstract!Concluded(passed, failed)
  BY <1>9, <1>10 DEF Abstract!Concluded
<1> QED
  BY <1>11, <1>12

-----------------------------------------------------------------------------
LEMMA StepMoves == TypeInv /\ [Next]_vars => [Abstract!Next]_Cases
<1> SUFFICES ASSUME TypeInv, [Next]_vars PROVE Abstract!Next \/ Cases' = Cases
  OBVIOUS
<1>0. TypeOK /\ TypeOK'
  BY TypeNext DEF TypeInv
<1>1. ASSUME NEW key \in Keys, NEW o \in Occurrences, NEW reopen \in BOOLEAN,
             merge_candidate(key, o.snapshot, o.truncated, reopen)
      PROVE  Abstract!Next \/ Cases' = Cases
  <2>1. CASE _apply_count(key, o.snapshot, o.truncated)
    BY <1>0, <2>1, CountMoves
  <2>2. CASE _open_cluster(key, o.snapshot, o.truncated, reopen)
    <3>1. Abstract!Opened(key)
      BY <1>0, <2>2, OpenMoves
    <3> QED
      BY <3>1 DEF Abstract!Next
  <2> QED
    BY <1>1, <2>1, <2>2 DEF merge_candidate
<1>2. ASSUME NEW c \in DOMAIN clusters, assemble_cluster(c) PROVE Abstract!Next
  <2>1. Abstract!Tested(c) /\ c \in DOMAIN Cases
    BY <1>0, <1>2, AssembleMoves, CasesRow
  <2> QED
    BY <2>1 DEF Abstract!Next
<1>3. ASSUME NEW l \in DOMAIN links, NEW action \in {"draft", "active", "invalidated"},
             NEW has_case \in BOOLEAN, NEW reason \in REASON_CODES,
             apply_ack(l, action, has_case, reason)
      PROVE  Cases' = Cases
  <2>1. Untouched /\ clusters' = clusters
    BY <1>0, <1>3, AckUntouched DEF apply_ack
  <2> QED
    BY <2>1, CasesUntouched
<1>4. ASSUME NEW young, auto_requeue_stuck(young) PROVE Cases' = Cases
  <2>1. Untouched /\ clusters' = clusters
    BY <1>0, <1>4, RequeueUntouched DEF auto_requeue_stuck
  <2> QED
    BY <2>1, CasesUntouched
<1>5. ASSUME UNCHANGED <<clusters, links>> PROVE Cases' = Cases
  <2>1. Untouched
    BY <1>5 DEF Untouched
  <2> QED
    BY <1>5, <2>1, CasesUntouched
<1>6. ASSUME NEW passed \in SUBSET RejudgeCandidates, Settles(passed) PROVE Abstract!Next
  <2>1. \E P, F \in SUBSET DOMAIN Cases : Abstract!Concluded(P, F)
    BY <1>0, <1>6, SettlesMoves
  <2> QED
    BY <2>1 DEF Abstract!Next
<1>7. ASSUME NEW r \in DOMAIN runs, NEW judged \in BOOLEAN, record_regression_result(r, judged)
      PROVE  Abstract!Next
  BY <1>0, <1>6, <1>7, RecordSettles
<1>8. ASSUME NEW raising, _rejudge_batch(raising) PROVE Abstract!Next
  BY <1>0, <1>6, <1>8, RejudgeSettles
<1> QED
  BY <1>1, <1>2, <1>3, <1>4, <1>5, <1>7, <1>8 DEF Next, vars, OfflineRun

\* The regression loop implements the life cycle of an error: whatever the
\* evaluator acknowledges, repeats or loses, and whichever process judges, an
\* error is open, tested, and then fixed or open again, and it recurs as a new
\* case only when all its earlier cases are fixed.
THEOREM LoopImplementsLifecycle == Spec => ImplementsLifecycle
<1>1. Init => TypeInv /\ Abstract!Init
  BY TypeInit, InitCases
<1>2. TypeInv /\ [Next]_vars => TypeInv'
  BY TypeNext
<1>3. TypeInv /\ [Next]_vars => [Abstract!Next]_Cases
  BY StepMoves
<1> QED
  BY <1>1, <1>2, <1>3, PTL DEF Spec, ImplementsLifecycle, Abstract!Spec
=============================================================================
