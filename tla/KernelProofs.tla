---------------------------- MODULE KernelProofs ----------------------------
(***************************************************************************)
(* Theorems about the verdict kernel: for every sequence of results, every *)
(* K and every set of seen versions.  The first half are lemmas about the  *)
(* walk of _replay_k, which BackflowProofs uses; the second half shows     *)
(* that the walk computes what Kernel says of it.                          *)
(***************************************************************************)
EXTENDS Kernel, FiniteSetTheorems, SequenceTheorems, WellFoundedInduction, TLAPS

-----------------------------------------------------------------------------
(***************************************************************************)
(* The order of the walk.  The rows of a link, the first of each version,  *)
(* are walked one at a time in version order, so the walk is a bijection   *)
(* onto them that respects Before.                                         *)
(***************************************************************************)
\* What the kernel may rely on in the rows it is given.
Ranked(rows) ==
    /\ IsFiniteSet(DOMAIN rows) /\ DOMAIN rows \subseteq Nat
    /\ \A i \in DOMAIN rows : rows[i].ver \in Versions

LEMMA LeastOf ==
    ASSUME NEW S, S \subseteq Nat, S # {}
    PROVE  \E x \in S : \A y \in S : x <= y
<1> DEFINE R == OpToRel(<, Nat)
<1>1. IsWellFoundedOn(R, Nat)
  BY NatLessThanWellFounded
<1>2. PICK x \in S : \A y \in S : ~ (<<y, x>> \in R)
  <2> HIDE DEF R
  <2> QED
    BY <1>1, WFMin
<1>3. ASSUME NEW y \in S PROVE x <= y
  <2>1. x \in Nat /\ y \in Nat /\ ~ (<<y, x>> \in R)
    BY <1>2
  <2>2. ~ (y < x)
    BY <2>1 DEF OpToRel
  <2> HIDE DEF R
  <2> QED
    BY <2>1, <2>2
<1> QED
  BY <1>3

\* The first row of a version is a row of that version.
LEMMA FirstIsARow ==
    ASSUME NEW rows, Ranked(rows), NEW i \in DOMAIN rows
    PROVE  /\ FirstOf(rows, rows[i].ver) \in DOMAIN rows
           /\ rows[FirstOf(rows, rows[i].ver)].ver = rows[i].ver
<1> DEFINE S == {j \in DOMAIN rows : rows[j].ver = rows[i].ver}
<1>1. S \subseteq Nat /\ S # {}
  BY DEF Ranked
<1>2. \E x \in S : \A y \in S : x <= y
  <2> HIDE DEF S
  <2> QED
    BY <1>1, LeastOf
<1>3. \E x \in DOMAIN rows : rows[x].ver = rows[i].ver
          /\ \A y \in DOMAIN rows : rows[y].ver = rows[i].ver => x <= y
  BY <1>2
<1> QED
  BY <1>3 DEF FirstOf

\* The versions of a walk are in a strict total order.
LEMMA BeforeTotal ==
    ASSUME NEW rows, Ranked(rows)
    PROVE  /\ \A i \in by_version(rows) : ~Before(rows, i, i)
           /\ \A i, j \in by_version(rows) : i # j => Before(rows, i, j) \/ Before(rows, j, i)
           /\ \A i, j, m \in by_version(rows) :
                  Before(rows, i, j) /\ Before(rows, j, m) => Before(rows, i, m)
<1> DEFINE key(i) == _ver_key(rows[i].ver)
           first(i) == FirstOf(rows, rows[i].ver)
           V == by_version(rows)
<1>1. V \subseteq DOMAIN rows
  BY DEF by_version
<1>2. \A i \in V : key(i) \in Nat
  BY <1>1, VersionAssumption DEF Ranked, _ver_key
<1>3. \A i \in V : first(i) \in DOMAIN rows /\ rows[first(i)].ver = rows[i].ver
  BY <1>1, FirstIsARow
<1>4. \A i \in V : first(i) \in Nat
  BY <1>3 DEF Ranked
<1>5. \A i, j \in V : i # j => rows[i].ver # rows[j].ver
  <2> SUFFICES ASSUME NEW i \in V, NEW j \in V, i # j PROVE rows[i].ver # rows[j].ver
    OBVIOUS
  <2>1. i \in Nat /\ j \in Nat
    BY <1>1 DEF Ranked
  <2>2. i < j \/ j < i
    BY <2>1
  <2> QED
    BY <2>1, <2>2 DEF by_version
<1>6. \A i, j \in V : i # j => first(i) # first(j)
  BY <1>3, <1>5
<1>7. \A i, j : Before(rows, i, j) <=> key(i) < key(j) \/ (key(i) = key(j) /\ first(i) < first(j))
  BY DEF Before
<1> HIDE DEF key, first, V
<1>8. \A i \in V : ~Before(rows, i, i)
  BY <1>2, <1>4, <1>7
<1>9. \A i, j \in V : i # j => Before(rows, i, j) \/ Before(rows, j, i)
  BY <1>2, <1>4, <1>6, <1>7
<1>10. \A i, j, m \in V : Before(rows, i, j) /\ Before(rows, j, m) => Before(rows, i, m)
  BY <1>2, <1>4, <1>7
<1> QED
  BY <1>8, <1>9, <1>10 DEF V

\* A walk visits each version that counts once, in the order of Before.
LEMMA WalkOrderIs ==
    ASSUME NEW rows, Ranked(rows)
    PROVE  LET V == by_version(rows)
               N == Cardinality(V)
               W == WalkOrder(rows)
           IN  /\ N \in Nat /\ W \in [1 .. N -> V] /\ Len(W) = N
               /\ \A m, n \in 1 .. N : m < n => Before(rows, W[m], W[n])
               /\ \A i \in V : \E n \in 1 .. N : W[n] = i
<1> DEFINE V == by_version(rows)
           N == Cardinality(V)
           W == WalkOrder(rows)
           Ahead(i) == {j \in V \ {i} : Before(rows, j, i)}
           r == [i \in V |-> Cardinality(Ahead(i)) + 1]
<1>1. IsFiniteSet(V) /\ N \in Nat
  <2>1. V \in SUBSET DOMAIN rows
    BY DEF by_version
  <2> HIDE DEF V
  <2> QED
    BY <2>1, FS_Subset, FS_CardinalityType DEF Ranked
<1>2. /\ \A i \in V : ~Before(rows, i, i)
      /\ \A i, j \in V : i # j => Before(rows, i, j) \/ Before(rows, j, i)
      /\ \A i, j, m \in V : Before(rows, i, j) /\ Before(rows, j, m) => Before(rows, i, m)
  BY BeforeTotal
<1>3. WalkOrder(rows) = [n \in 1 .. N |-> CHOOSE i \in V : Cardinality(Ahead(i)) = n - 1]
  BY DEF WalkOrder
<1> HIDE DEF V
<1>4. \A i \in V : Ahead(i) \in SUBSET (V \ {i}) /\ IsFiniteSet(Ahead(i)) /\ Cardinality(Ahead(i)) \in 0 .. N - 1
  <2> SUFFICES ASSUME NEW i \in V
               PROVE  Ahead(i) \in SUBSET (V \ {i}) /\ IsFiniteSet(Ahead(i)) /\ Cardinality(Ahead(i)) \in 0 .. N - 1
    OBVIOUS
  <2>1. Ahead(i) \in SUBSET (V \ {i})
    OBVIOUS
  <2>2. IsFiniteSet(V \ {i}) /\ Cardinality(V \ {i}) = N - 1
    BY <1>1, FS_RemoveElement
  <2> HIDE DEF Ahead, N
  <2>3. IsFiniteSet(Ahead(i)) /\ Cardinality(Ahead(i)) <= N - 1 /\ Cardinality(Ahead(i)) \in Nat
    BY <2>1, <2>2, FS_Subset, FS_CardinalityType
  <2> QED
    BY <1>1, <2>1, <2>3
<1>5. r \in [V -> 1 .. N]
  <2>1. \A i \in V : Cardinality(Ahead(i)) + 1 \in 1 .. N
    <3> HIDE DEF Ahead, N
    <3> QED
      BY <1>1, <1>4
  <2> HIDE DEF Ahead, N
  <2> QED
    BY <2>1
<1>6. \A i, j \in V : Before(rows, i, j) => r[i] < r[j]
  <2> SUFFICES ASSUME NEW i \in V, NEW j \in V, Before(rows, i, j) PROVE r[i] < r[j]
    OBVIOUS
  <2>1. i # j
    BY <1>2
  <2>2. Ahead(i) \cup {i} \in SUBSET Ahead(j)
    BY <1>2, <2>1
  <2>3. i \notin Ahead(i)
    OBVIOUS
  <2> HIDE DEF Ahead, N
  <2>4. IsFiniteSet(Ahead(i)) /\ IsFiniteSet(Ahead(j)) /\ Cardinality(Ahead(i)) \in Nat /\ Cardinality(Ahead(j)) \in Nat
    BY <1>1, <1>4
  <2>5. Cardinality(Ahead(i) \cup {i}) = Cardinality(Ahead(i)) + 1
    BY <2>3, <2>4, FS_AddElement
  <2>6. Cardinality(Ahead(i) \cup {i}) <= Cardinality(Ahead(j))
    BY <2>2, <2>4, FS_Subset
  <2>7. r[i] = Cardinality(Ahead(i)) + 1 /\ r[j] = Cardinality(Ahead(j)) + 1
    OBVIOUS
  <2> QED
    BY <2>4, <2>5, <2>6, <2>7
<1> HIDE DEF r
<1>7. \A i, j \in V : r[i] = r[j] => i = j
  <2>1. \A i \in V : r[i] \in Int
    BY <1>1, <1>5
  <2> QED
    BY <1>2, <1>6, <2>1
<1>8. \A n \in 1 .. N : \E i \in V : r[i] = n
  <2>1. r \in Injection(V, 1 .. N)
    BY <1>5, <1>7 DEF Injection, IsInjective
  <2>2. IsFiniteSet(1 .. N) /\ Cardinality(1 .. N) = N
    <3> HIDE DEF N
    <3> QED
      BY <1>1, FS_Interval
  <2>3. r \in Surjection(V, 1 .. N)
    BY <2>1, <2>2, FS_Injection
  <2> QED
    BY <2>3 DEF Surjection
<1>9. \A n \in 1 .. N : W[n] \in V /\ r[W[n]] = n
  <2> SUFFICES ASSUME NEW n \in 1 .. N PROVE W[n] \in V /\ r[W[n]] = n
    OBVIOUS
  <2>1. W[n] = CHOOSE i \in V : Cardinality(Ahead(i)) = n - 1
    BY <1>3
  <2>2. \A i \in V : r[i] = Cardinality(Ahead(i)) + 1
    BY DEF r
  <2>3. \A i \in V : r[i] = n <=> Cardinality(Ahead(i)) = n - 1
    <3> HIDE DEF Ahead, W, N
    <3>1. n \in Int /\ \A i \in V : Cardinality(Ahead(i)) \in Int
      BY <1>1, <1>4
    <3> QED
      BY <2>2, <3>1
  <2>4. PICK i \in V : Cardinality(Ahead(i)) = n - 1
    BY <1>8, <2>3
  <2> HIDE DEF Ahead, W, N
  <2> QED
    BY <2>1, <2>3, <2>4
<1>10. W \in [1 .. N -> V]
  <2>1. W = [n \in 1 .. N |-> W[n]]
    BY <1>3
  <2> HIDE DEF W, N
  <2> QED
    BY <1>9, <2>1
<1>11. Len(W) = N
  <2> HIDE DEF W, N
  <2>1. W \in Seq(V)
    BY <1>1, <1>10, SeqDef
  <2>2. DOMAIN W = 1 .. Len(W) /\ Len(W) \in Nat
    BY <2>1, LenProperties
  <2> QED
    BY <1>1, <1>10, <2>2
<1>12. \A m, n \in 1 .. N : m < n => Before(rows, W[m], W[n])
  <2> SUFFICES ASSUME NEW m \in 1 .. N, NEW n \in 1 .. N, m < n PROVE Before(rows, W[m], W[n])
    OBVIOUS
  <2> HIDE DEF W, N
  <2>1. W[m] \in V /\ W[n] \in V /\ r[W[m]] = m /\ r[W[n]] = n
    BY <1>9
  <2>2. m \in Int /\ n \in Int
    BY <1>1
  <2>3. W[m] # W[n]
    BY <2>1, <2>2
  <2>4. ~Before(rows, W[n], W[m])
    <3>1. ~(n < m)
      BY <2>2
    <3> QED
      BY <1>6, <2>1, <3>1
  <2> QED
    BY <1>2, <2>1, <2>3, <2>4
<1>13. \A i \in V : \E n \in 1 .. N : W[n] = i
  <2> SUFFICES ASSUME NEW i \in V PROVE \E n \in 1 .. N : W[n] = i
    OBVIOUS
  <2> HIDE DEF W, N
  <2>1. r[i] \in 1 .. N
    BY <1>5
  <2>2. W[r[i]] = i
    BY <1>7, <1>9, <2>1
  <2> QED
    BY <2>1, <2>2
<1> QED
  BY <1>1, <1>10, <1>11, <1>12, <1>13 DEF V

-----------------------------------------------------------------------------
(***************************************************************************)
(* The walk.  What the loop does is a recursive function, so it is first   *)
(* shown that there is such a function; what holds after each version is   *)
(* then shown by a least counterexample.                                   *)
(***************************************************************************)
IsWalk(f, rows, seen, truncated, k, order, N) ==
    f = [n \in 0 .. N |-> IF n = 0 THEN ReplayStart
             ELSE ReplayStep(rows, seen, truncated, k, f[n - 1], order[n])]

LEMMA WalkExists ==
    ASSUME NEW rows, NEW seen, NEW truncated, NEW k, NEW order, NEW N \in Nat
    PROVE  \E f : IsWalk(f, rows, seen, truncated, k, order, N)
<1> DEFINE Is(f, m) == f = [n \in 0 .. m |-> IF n = 0 THEN ReplayStart
                          ELSE ReplayStep(rows, seen, truncated, k, f[n - 1], order[n])]
           Missing == {m \in Nat : ~ \E f : Is(f, m)}
<1>1. Is([n \in 0 .. 0 |-> ReplayStart], 0)
  <2> DEFINE f == [n \in 0 .. 0 |-> ReplayStart]
  <2>1. \A n \in 0 .. 0 : n = 0
    OBVIOUS
  <2>2. f = [n \in 0 .. 0 |-> IF n = 0 THEN ReplayStart
                          ELSE ReplayStep(rows, seen, truncated, k, f[n - 1], order[n])]
    BY <2>1
  <2> QED
    BY <2>2
<1>2. ASSUME NEW m \in Nat, m # 0, NEW f, Is(f, m - 1) PROVE \E g : Is(g, m)
  <2> DEFINE last == ReplayStep(rows, seen, truncated, k, f[m - 1], order[m])
             g == [n \in 0 .. m |-> IF n = m THEN last ELSE f[n]]
  <2>1. m - 1 \in Nat /\ m \in 0 .. m /\ 0 \in 0 .. m - 1 /\ m - 1 \in 0 .. m
    BY <1>2
  <2>2. f[0] = ReplayStart
    BY <1>2, <2>1
  <2>3. \A n \in 0 .. m : n # m => n \in 0 .. m - 1
    BY <2>1
  <2>4. \A n \in 0 .. m : n # 0 => n - 1 \in 0 .. m /\ n - 1 # m
    BY <2>1
  <2>5. g[m] = last /\ \A n \in 0 .. m : n # m => g[n] = f[n]
    BY <2>1
  <2>6. g[m - 1] = f[m - 1]
    BY <2>1, <2>5
  <2>7. \A n \in 0 .. m - 1 : n # 0 =>
            f[n] = ReplayStep(rows, seen, truncated, k, f[n - 1], order[n])
    BY <1>2
  <2>8. g = [n \in 0 .. m |-> g[n]]
    OBVIOUS
  <2> HIDE DEF g
  <2>9. \A n \in 0 .. m : g[n] = (IF n = 0 THEN ReplayStart
                          ELSE ReplayStep(rows, seen, truncated, k, g[n - 1], order[n]))
    <3> SUFFICES ASSUME NEW n \in 0 .. m
                 PROVE  g[n] = (IF n = 0 THEN ReplayStart
                          ELSE ReplayStep(rows, seen, truncated, k, g[n - 1], order[n]))
      OBVIOUS
    <3>1. CASE n = 0
      BY <1>2, <2>1, <2>2, <2>5, <3>1
    <3>2. CASE n # 0 /\ n = m
      BY <2>5, <2>6, <3>2
    <3>3. CASE n # 0 /\ n # m
      <4>1. g[n] = f[n] /\ g[n - 1] = f[n - 1]
        BY <2>4, <2>5, <3>3
      <4>2. f[n] = ReplayStep(rows, seen, truncated, k, f[n - 1], order[n])
        BY <2>3, <2>7, <3>3
      <4> QED
        BY <3>3, <4>1, <4>2
    <3> QED
      BY <3>1, <3>2, <3>3
  <2>10. Is(g, m)
    BY <2>8, <2>9
  <2> QED
    BY <2>10
<1>3. Missing = {}
  <2> SUFFICES ASSUME Missing # {} PROVE FALSE
    OBVIOUS
  <2>1. Missing \subseteq Nat
    OBVIOUS
  <2>2. PICK m \in Missing : \A y \in Missing : m <= y
    <3> HIDE DEF Missing
    <3> QED
      BY <2>1, LeastOf
  <2>3. m # 0
    BY <1>1, <2>2
  <2>4. m \in Nat /\ m - 1 \in Nat /\ ~(m <= m - 1)
    BY <2>1, <2>2, <2>3
  <2>5. PICK f : Is(f, m - 1)
    BY <2>2, <2>4
  <2>6. \E g : Is(g, m)
    BY <1>2, <2>3, <2>4, <2>5
  <2> QED
    BY <2>2, <2>6
<1>4. PICK f : Is(f, N)
  BY <1>3
<1>5. IsWalk(f, rows, seen, truncated, k, order, N)
  BY <1>4 DEF IsWalk
<1> QED
  BY <1>5

\* The verdict of a link is the state of its walk after the last version.
LEMMA ReplayIsTheWalk ==
    ASSUME NEW rows, Ranked(rows), NEW seen, NEW truncated, NEW k
    PROVE  LET N == Cardinality(by_version(rows))
               W == WalkOrder(rows)
           IN  \E f : /\ f[0] = ReplayStart
                      /\ \A n \in 1 .. N : f[n] = ReplayStep(rows, seen, truncated, k, f[n - 1], W[n])
                      /\ _replay_k(rows, seen, truncated, k) = f[N]
<1> DEFINE N == Cardinality(by_version(rows))
           W == WalkOrder(rows)
           Is(f) == IsWalk(f, rows, seen, truncated, k, W, N)
           walk == CHOOSE f : Is(f)
<1>1. N \in Nat /\ Len(W) = N
  BY WalkOrderIs
<1>2. _replay_k(rows, seen, truncated, k) = walk[N]
  BY <1>1 DEF _replay_k, IsWalk
<1>3. \E f : Is(f)
  <2> HIDE DEF N, W
  <2> QED
    BY <1>1, WalkExists
<1>4. Is(walk)
  <2> HIDE DEF Is
  <2> QED
    BY <1>3
<1> HIDE DEF walk, N, W
<1>5. walk[0] = ReplayStart /\ \A n \in 1 .. N : walk[n] =
          ReplayStep(rows, seen, truncated, k, walk[n - 1], W[n])
  BY <1>1, <1>4 DEF IsWalk
<1> QED
  BY <1>2, <1>5 DEF N, W

\* The states of a walk.
WalkState == [seq : Nat, pure : BOOLEAN, at : Nat, unclean : BOOLEAN,
              stop : {"none", "gap", "unjudgeable", "reopened", "passed"}]

Says(rows, truncated, i) == route_verdict(rows[i].pf, rows[i].na, truncated)

\* A version counts; nocases, which route_verdict would count, never gets there.
Counts(rows, truncated, i) ==
    rows[i].pf # "nocases" /\ Says(rows, truncated, i) = "count_k"

IsLast(rows, i) == \A j \in DOMAIN rows : j <= i

LEMMA StepIs ==
    ASSUME NEW rows, NEW seen, NEW truncated, NEW k, NEW s \in WalkState, NEW i \in Nat,
           NEW t, t = ReplayStep(rows, seen, truncated, k, s, i)
    PROVE  /\ t \in WalkState
           /\ s.stop # "none" => t = s
           /\ t.unclean => s.unclean \/ (Says(rows, truncated, i) = "unclean_run" /\ IsLast(rows, i))
           /\ s.stop = "none" /\ t.stop = "none" => ~Gap(rows[i], seen)
           /\ s.stop = "none" /\ t.stop = "none" /\ t.pure =>
                  /\ Counts(rows, truncated, i)
                  /\ t.seq = (IF s.pure THEN s.seq + 1 ELSE 1)
           /\ s.stop = "none" /\ t.stop = "reopened" => Says(rows, truncated, i) = "reopen"
           /\ s.stop = "none" /\ t.stop = "passed" =>
                  /\ ~Gap(rows[i], seen)
                  /\ Counts(rows, truncated, i)
                  /\ t.seq = (IF s.pure THEN s.seq + 1 ELSE 1)
                  /\ t.seq >= k
<1> DEFINE action == Says(rows, truncated, i)
           d == decide_k(s.seq, s.pure, action, k)
           hit == action = "unclean_run" /\ IsLast(rows, i)
<1>1. /\ s.seq \in Nat /\ s.pure \in BOOLEAN /\ s.at \in Nat /\ s.unclean \in BOOLEAN
      /\ s.stop \in {"none", "gap", "unjudgeable", "reopened", "passed"}
  BY DEF WalkState
<1>2. CASE s.stop # "none"
  <2>1. t = s
    BY <1>2 DEF ReplayStep
  <2> QED
    BY <1>2, <2>1
<1>3. CASE s.stop = "none" /\ Gap(rows[i], seen)
  <2>1. t = [s EXCEPT !.stop = "gap", !.at = i]
    BY <1>3 DEF ReplayStep
  <2>2. t \in WalkState /\ t.stop = "gap" /\ t.unclean = s.unclean
    BY <2>1 DEF WalkState
  <2> QED
    BY <1>3, <2>2
<1>4. CASE s.stop = "none" /\ ~Gap(rows[i], seen) /\ rows[i].pf = "nocases"
  <2>1. t = [s EXCEPT !.stop = "unjudgeable", !.at = i]
    BY <1>4 DEF ReplayStep
  <2>2. t \in WalkState /\ t.stop = "unjudgeable" /\ t.unclean = s.unclean
    BY <2>1 DEF WalkState
  <2> QED
    BY <1>4, <2>2
<1>5. CASE s.stop = "none" /\ ~Gap(rows[i], seen) /\ rows[i].pf # "nocases"
  <2>1. PICK u \in BOOLEAN : u = (s.unclean \/ hit)
    OBVIOUS
  <2>2. t = [seq |-> d.seq, pure |-> d.pure, stop |-> d.stop,
             at |-> IF d.stop = "none" THEN 0 ELSE i, unclean |-> u]
    BY <1>5, <2>1 DEF ReplayStep, Says, IsLast
  <2> HIDE DEF action
  <2>3. /\ d.seq \in Nat /\ d.pure \in BOOLEAN /\ d.stop \in {"none", "reopened", "passed"}
        /\ d.stop = "reopened" => action = "reopen"
        /\ d.stop = "none" /\ d.pure => action = "count_k" /\ d.seq = (IF s.pure THEN s.seq + 1 ELSE 1)
        /\ d.stop = "passed" => /\ action = "count_k" /\ d.seq >= k
                                /\ d.seq = (IF s.pure THEN s.seq + 1 ELSE 1)
    BY <1>1 DEF decide_k
  <2> HIDE DEF d
  <2>4. PICK at \in Nat : at = IF d.stop = "none" THEN 0 ELSE i
    OBVIOUS
  <2>5. t = [seq |-> d.seq, pure |-> d.pure, stop |-> d.stop, at |-> at, unclean |-> u]
    BY <2>2, <2>4
  <2>6. t \in WalkState /\ t.seq = d.seq /\ t.pure = d.pure /\ t.stop = d.stop /\ t.unclean = u
    BY <2>3, <2>5 DEF WalkState
  <2> QED
    BY <1>5, <2>1, <2>3, <2>6 DEF action, Counts
<1> QED
  BY <1>2, <1>3, <1>4, <1>5

\* What the walk has seen when it has come to its n-th version: why it closed
\* its link, why it failed it, what made it ask for a review.
PureRun(rows, seen, truncated, e, q) ==
    /\ q \in 1 .. e
    /\ \A m \in e - q + 1 .. e : Counts(rows, truncated, WalkOrder(rows)[m])
    /\ \A m \in 1 .. e : ~Gap(rows[WalkOrder(rows)[m]], seen)

Reasons(rows, seen, truncated, k, s, n) ==
    /\ s \in WalkState
    /\ s.unclean => \E i \in DOMAIN rows :
           IsLast(rows, i) /\ Says(rows, truncated, i) = "unclean_run"
    /\ s.stop = "reopened" => \E i \in DOMAIN rows : Says(rows, truncated, i) = "reopen"
    /\ s.stop = "none" => \A m \in 1 .. n : ~Gap(rows[WalkOrder(rows)[m]], seen)
    /\ s.stop = "none" /\ s.pure => PureRun(rows, seen, truncated, n, s.seq)
    /\ s.stop = "passed" => \E e \in 1 .. n : s.seq >= k /\ PureRun(rows, seen, truncated, e, s.seq)

LEMMA ReasonsStep ==
    ASSUME NEW rows, Ranked(rows), NEW seen, NEW truncated, NEW k \in Nat,
           NEW n \in 1 .. Cardinality(by_version(rows)), NEW s,
           Reasons(rows, seen, truncated, k, s, n - 1)
    PROVE  Reasons(rows, seen, truncated, k,
                   ReplayStep(rows, seen, truncated, k, s, WalkOrder(rows)[n]), n)
<1> DEFINE N == Cardinality(by_version(rows))
           W == WalkOrder(rows)
           i == W[n]
           t == ReplayStep(rows, seen, truncated, k, s, i)
<1>1. N \in Nat /\ i \in by_version(rows)
  BY WalkOrderIs
<1>2. i \in DOMAIN rows /\ i \in Nat
  BY <1>1 DEF Ranked, by_version
<1>3. s \in WalkState
  BY DEF Reasons
<1>4. /\ t \in WalkState
      /\ s.stop # "none" => t = s
      /\ t.unclean => s.unclean \/ (Says(rows, truncated, i) = "unclean_run" /\ IsLast(rows, i))
      /\ s.stop = "none" /\ t.stop = "none" => ~Gap(rows[i], seen)
      /\ s.stop = "none" /\ t.stop = "none" /\ t.pure =>
             /\ Counts(rows, truncated, i)
             /\ t.seq = (IF s.pure THEN s.seq + 1 ELSE 1)
      /\ s.stop = "none" /\ t.stop = "reopened" => Says(rows, truncated, i) = "reopen"
      /\ s.stop = "none" /\ t.stop = "passed" =>
             /\ ~Gap(rows[i], seen)
             /\ Counts(rows, truncated, i)
             /\ t.seq = (IF s.pure THEN s.seq + 1 ELSE 1)
             /\ t.seq >= k
  <2> HIDE DEF i
  <2> QED
    BY <1>2, <1>3, StepIs
<1> HIDE DEF t
<1>5. n \in Nat /\ n >= 1 /\ n - 1 \in Nat /\ s.seq \in Nat /\ t.seq \in Nat /\ s.pure \in BOOLEAN
  BY <1>1, <1>3, <1>4 DEF WalkState
<1>6. t.unclean => \E j \in DOMAIN rows :
          IsLast(rows, j) /\ Says(rows, truncated, j) = "unclean_run"
  BY <1>2, <1>4 DEF Reasons
<1>7. t.stop = "reopened" => \E j \in DOMAIN rows : Says(rows, truncated, j) = "reopen"
  BY <1>2, <1>4 DEF Reasons
<1>8. ASSUME s.stop = "none", ~Gap(rows[i], seen)
      PROVE  \A m \in 1 .. n : ~Gap(rows[W[m]], seen)
  <2>1. \A m \in 1 .. n - 1 : ~Gap(rows[W[m]], seen)
    BY <1>8 DEF Reasons
  <2>2. \A m \in 1 .. n : m = n \/ m \in 1 .. n - 1
    BY <1>5
  <2> QED
    BY <1>8, <2>1, <2>2
<1>9. ASSUME s.stop = "none", ~Gap(rows[i], seen), Counts(rows, truncated, i),
             t.seq = (IF s.pure THEN s.seq + 1 ELSE 1)
      PROVE  PureRun(rows, seen, truncated, n, t.seq)
  <2>1. CASE s.pure
    <3>1. PureRun(rows, seen, truncated, n - 1, s.seq)
      BY <1>9, <2>1 DEF Reasons
    <3>2. t.seq = s.seq + 1 /\ s.seq \in 1 .. n - 1
      BY <1>9, <2>1, <3>1 DEF PureRun
    <3>3. t.seq \in 1 .. n /\ n - t.seq + 1 = (n - 1) - s.seq + 1
      BY <1>5, <3>2
    <3>4. \A m \in n - t.seq + 1 .. n : m = n \/ m \in (n - 1) - s.seq + 1 .. n - 1
      BY <1>5, <3>2
    <3>5. \A m \in (n - 1) - s.seq + 1 .. n - 1 : Counts(rows, truncated, W[m])
      BY <3>1 DEF PureRun
    <3>6. \A m \in n - t.seq + 1 .. n : Counts(rows, truncated, W[m])
      BY <1>9, <3>4, <3>5
    <3> QED
      BY <1>8, <1>9, <3>3, <3>6 DEF PureRun
  <2>2. CASE ~s.pure
    <3>1. t.seq = 1 /\ n - t.seq + 1 = n /\ t.seq \in 1 .. n
      BY <1>5, <1>9, <2>2
    <3>2. \A m \in n - t.seq + 1 .. n : m = n
      BY <1>5, <3>1
    <3> QED
      BY <1>8, <1>9, <3>1, <3>2 DEF PureRun
  <2> QED
    BY <2>1, <2>2
<1>10. t.stop = "none" => \A m \in 1 .. n : ~Gap(rows[W[m]], seen)
  BY <1>4, <1>8
<1>11. t.stop = "none" /\ t.pure => PureRun(rows, seen, truncated, n, t.seq)
  BY <1>4, <1>9
<1>12. t.stop = "passed" => \E e \in 1 .. n : t.seq >= k /\ PureRun(rows, seen, truncated, e, t.seq)
  <2> SUFFICES ASSUME t.stop = "passed"
               PROVE  \E e \in 1 .. n : t.seq >= k /\ PureRun(rows, seen, truncated, e, t.seq)
    OBVIOUS
  <2>1. CASE s.stop = "none"
    <3>1. PureRun(rows, seen, truncated, n, t.seq) /\ t.seq >= k
      BY <1>4, <1>9, <2>1
    <3> QED
      BY <1>5, <3>1
  <2>2. CASE s.stop # "none"
    <3>1. PICK e \in 1 .. n - 1 : s.seq >= k /\ PureRun(rows, seen, truncated, e, s.seq)
      BY <1>4, <2>2 DEF Reasons
    <3>2. e \in 1 .. n /\ t = s
      BY <1>4, <1>5, <2>2
    <3> QED
      BY <3>1, <3>2
  <2> QED
    BY <2>1, <2>2
<1>13. Reasons(rows, seen, truncated, k, t, n)
  BY <1>4, <1>6, <1>7, <1>10, <1>11, <1>12 DEF Reasons
<1> QED
  BY <1>13 DEF t

\* What _replay_k answers has its reasons in the rows.
LEMMA ReplayReasons ==
    ASSUME NEW rows, Ranked(rows), NEW seen, NEW truncated, NEW k \in Nat
    PROVE  Reasons(rows, seen, truncated, k, _replay_k(rows, seen, truncated, k),
                   Cardinality(by_version(rows)))
<1> DEFINE N == Cardinality(by_version(rows))
           W == WalkOrder(rows)
<1>1. N \in Nat
  BY WalkOrderIs
<1>2. PICK f : /\ f[0] = ReplayStart
               /\ \A n \in 1 .. N : f[n] = ReplayStep(rows, seen, truncated, k, f[n - 1], W[n])
               /\ _replay_k(rows, seen, truncated, k) = f[N]
  BY ReplayIsTheWalk
<1> DEFINE Wrong == {n \in 0 .. N : ~Reasons(rows, seen, truncated, k, f[n], n)}
<1>3. Reasons(rows, seen, truncated, k, ReplayStart, 0)
  BY DEF Reasons, ReplayStart, WalkState
<1>4. Wrong = {}
  <2> SUFFICES ASSUME Wrong # {} PROVE FALSE
    OBVIOUS
  <2>1. Wrong \subseteq Nat
    BY <1>1
  <2>2. PICK n \in Wrong : \A y \in Wrong : n <= y
    <3> HIDE DEF Wrong
    <3> QED
      BY <2>1, LeastOf
  <2>3. n # 0
    BY <1>2, <1>3, <2>2
  <2>4. n \in 1 .. N /\ n - 1 \in 0 .. N /\ ~(n <= n - 1)
    BY <1>1, <2>2, <2>3
  <2>5. Reasons(rows, seen, truncated, k, f[n - 1], n - 1)
    BY <2>2, <2>4
  <2>6. Reasons(rows, seen, truncated, k, ReplayStep(rows, seen, truncated, k, f[n - 1], W[n]), n)
    BY <2>4, <2>5, ReasonsStep
  <2> QED
    BY <1>2, <2>2, <2>4, <2>6
<1>5. N \in 0 .. N
  BY <1>1
<1> QED
  BY <1>2, <1>4, <1>5

-----------------------------------------------------------------------------
(***************************************************************************)
(* What a link has received, and the positions of the walk over it.        *)
(***************************************************************************)
KernelTypeOK ==
    /\ pushed \in Seq(ResultRow)
    /\ cut \in BOOLEAN
    /\ wanted \in Nat \ {0}

LEMMA PushedRows ==
    ASSUME KernelTypeOK
    PROVE  /\ Len(pushed) \in Nat /\ DOMAIN pushed = 1 .. Len(pushed) /\ Ranked(pushed)
           /\ \A i \in DOMAIN pushed : /\ i \in Nat /\ i # 0 /\ pushed[i].pf \in PassFail
                                       /\ pushed[i].ver \in Versions
           /\ Standing = by_version(pushed) /\ Standing \subseteq DOMAIN pushed
<1>1. Len(pushed) \in Nat /\ DOMAIN pushed = 1 .. Len(pushed)
  BY DEF KernelTypeOK
<1>2. IsFiniteSet(1 .. Len(pushed))
  BY <1>1, FS_Interval
<1>3. ASSUME NEW i \in DOMAIN pushed
      PROVE  i \in Nat /\ i # 0 /\ pushed[i].pf \in PassFail /\ pushed[i].ver \in Versions
  <2>1. pushed[i] \in ResultRow
    BY <1>1, <1>3, ElementOfSeq DEF KernelTypeOK
  <2>2. PICK v \in Versions, p \in Previous, o \in Results :
            pushed[i] = [ver |-> v, prev |-> p, pf |-> o.pf, na |-> o.na]
    BY <2>1 DEF ResultRow
  <2> QED
    BY <1>1, <1>3, <2>2, KernelAssumption
<1>4. Ranked(pushed)
  BY <1>1, <1>2, <1>3 DEF Ranked
<1> QED
  BY <1>1, <1>3, <1>4 DEF Standing, by_version

\* The walk as a function of the position: Nth(n) is the n-th standing result.
Nth(n) == WalkOrder(pushed)[n]
Walked == Cardinality(by_version(pushed))

LEMMA Positions ==
    ASSUME KernelTypeOK
    PROVE  /\ Walked \in Nat
           /\ \A n \in 1 .. Walked : Nth(n) \in Standing /\ Nth(n) \in DOMAIN pushed /\ Nth(n) \in Nat /\ Nth(n) # 0
           /\ \A i \in Standing : \E n \in 1 .. Walked : Nth(n) = i
           /\ \A m, n \in 1 .. Walked : Nth(m) = Nth(n) => m = n
           /\ \A m, n \in 1 .. Walked : Nth(m) \in UpTo(Nth(n)) <=> m <= n
<1>1. Ranked(pushed) /\ Standing = by_version(pushed) /\ Standing \subseteq DOMAIN pushed
      /\ \A i \in DOMAIN pushed : i \in Nat /\ i # 0
  BY PushedRows
<1>2. /\ Walked \in Nat /\ \A n \in 1 .. Walked : Nth(n) \in Standing
      /\ \A m, n \in 1 .. Walked : m < n => Before(pushed, Nth(m), Nth(n))
      /\ \A i \in Standing : \E n \in 1 .. Walked : Nth(n) = i
  BY <1>1, WalkOrderIs DEF Nth, Walked
<1>3. /\ \A i \in Standing : ~Before(pushed, i, i)
      /\ \A i, j, m \in Standing : Before(pushed, i, j) /\ Before(pushed, j, m) => Before(pushed, i, m)
  BY <1>1, BeforeTotal
<1>4. ASSUME NEW m \in 1 .. Walked, NEW n \in 1 .. Walked
      PROVE  (Nth(m) = Nth(n) => m = n) /\ (Nth(m) \in UpTo(Nth(n)) <=> m <= n)
  <2>1. Nth(m) \in Standing /\ Nth(n) \in Standing
    BY <1>2
  <2>2. m \in Int /\ n \in Int
    BY <1>2
  <2>3. CASE m < n
    <3>1. Before(pushed, Nth(m), Nth(n)) /\ Nth(m) # Nth(n)
      BY <1>2, <1>3, <2>1, <2>3
    <3>2. m <= n
      BY <2>2, <2>3
    <3> QED
      BY <2>1, <3>1, <3>2 DEF UpTo
  <2>4. CASE m = n
    <3>1. m <= n
      BY <2>2, <2>4
    <3> QED
      BY <2>1, <2>4, <3>1 DEF UpTo
  <2>5. CASE n < m
    <3>1. Before(pushed, Nth(n), Nth(m)) /\ Nth(m) # Nth(n)
      BY <1>2, <1>3, <2>1, <2>5
    <3>2. ~Before(pushed, Nth(m), Nth(n))
      BY <1>3, <2>1, <3>1
    <3>3. ~(m <= n)
      BY <2>2, <2>5
    <3> QED
      BY <2>1, <3>1, <3>2, <3>3 DEF UpTo
  <2> QED
    BY <2>2, <2>3, <2>4, <2>5
<1> QED
  BY <1>1, <1>2, <1>4

\* The streak at the n-th position is q long.
StreakOf(n, q) ==
    /\ q \in 0 .. n
    /\ \A x \in n - q + 1 .. n : Pure(Nth(x))
    /\ q = n \/ ~Pure(Nth(n - q))

LEMMA StreakCount ==
    ASSUME KernelTypeOK, NEW n \in 1 .. Walked, NEW q, StreakOf(n, q)
    PROVE  Cardinality(Streak(Nth(n))) = q
<1> DEFINE I == n - q + 1 .. n
           S == Streak(Nth(n))
           f == [x \in I |-> Nth(x)]
<1>1. Walked \in Nat /\ n \in Nat /\ q \in Nat /\ q <= n /\ n <= Walked /\ I \subseteq 1 .. Walked
  BY Positions DEF StreakOf
<1>2. \A i \in Standing : \E m \in 1 .. Walked : Nth(m) = i
  BY Positions
<1>3. \A m \in 1 .. Walked, k \in 1 .. Walked : /\ Nth(m) \in Standing /\ (Nth(m) = Nth(k) => m = k)
                                      /\ Nth(m) \in UpTo(Nth(k)) <=> m <= k
  BY Positions
<1>4. ASSUME NEW x \in I PROVE Nth(x) \in S
  <2>1. x \in 1 .. Walked /\ x <= n
    BY <1>1
  <2>2. Nth(x) \in UpTo(Nth(n))
    BY <1>3, <2>1
  <2>3. ASSUME NEW i \in UpTo(Nth(n)), Nth(x) \in UpTo(i) PROVE Pure(i)
    <3>1. i \in Standing
      BY <2>3 DEF UpTo
    <3>2. PICK m \in 1 .. Walked : Nth(m) = i
      BY <1>2, <3>1
    <3>3. m <= n /\ x <= m
      BY <1>3, <2>1, <2>3, <3>2
    <3>4. m \in I
      BY <1>1, <3>2, <3>3
    <3> QED
      BY <3>2, <3>4 DEF StreakOf
  <2> QED
    BY <2>2, <2>3 DEF Streak
<1>5. ASSUME NEW i \in S PROVE \E x \in I : Nth(x) = i
  <2>1. i \in UpTo(Nth(n)) /\ i \in Standing
    BY <1>5 DEF Streak, UpTo
  <2>2. PICK x \in 1 .. Walked : Nth(x) = i
    BY <1>2, <2>1
  <2>3. x <= n
    BY <1>3, <2>1, <2>2
  <2>4. x \in I
    <3> SUFFICES ASSUME x \notin I PROVE FALSE
      OBVIOUS
    <3>1. q # n /\ x <= n - q /\ n - q \in 1 .. Walked /\ n - q <= n
      BY <1>1, <2>2, <2>3
    <3>2. ~Pure(Nth(n - q))
      BY <3>1 DEF StreakOf
    <3>3. Nth(n - q) \in UpTo(Nth(n)) /\ Nth(x) \in UpTo(Nth(n - q))
      BY <1>3, <2>2, <3>1
    <3> QED
      BY <1>5, <2>2, <3>2, <3>3 DEF Streak
  <2> QED
    BY <2>2, <2>4
<1> HIDE DEF S, I
<1>6. f \in Bijection(I, S)
  <2>1. f \in [I -> S]
    BY <1>4
  <2>2. \A x, y \in I : f[x] = f[y] => x = y
    BY <1>1, <1>3
  <2>3. \A i \in S : \E x \in I : f[x] = i
    BY <1>5
  <2> HIDE DEF f
  <2> QED
    BY <2>1, <2>2, <2>3 DEF Bijection, Injection, IsInjective, Surjection
<1>7. IsFiniteSet(I) /\ Cardinality(I) = q
  <2>1. n - q + 1 \in Int /\ n \in Int
    BY <1>1
  <2>2. IsFiniteSet(I) /\ Cardinality(I) = (IF n - q + 1 > n THEN 0 ELSE n - (n - q + 1) + 1)
    BY <2>1, FS_Interval DEF I
  <2> QED
    BY <1>1, <2>2
<1>8. ExistsBijection(I, S)
  BY <1>6 DEF ExistsBijection
<1>9. Cardinality(S) = Cardinality(I)
  BY <1>7, <1>8, FS_Bijection
<1> QED
  BY <1>7, <1>9 DEF S

-----------------------------------------------------------------------------
(***************************************************************************)
(* The fold computes the reference.  After n versions it has either found  *)
(* none that ends the walk, and knows the length of the streak, or it has  *)
(* stopped at the first one that does, for the reason the reference gives. *)
(***************************************************************************)
\* What one version adds to the fold.
LEMMA StepSays ==
    ASSUME NEW rows, NEW seen, NEW truncated, NEW k \in Nat, NEW s \in WalkState, NEW i \in Nat,
           NEW t, t = ReplayStep(rows, seen, truncated, k, s, i), s.stop = "none"
    PROVE  LET next == IF s.pure THEN s.seq + 1 ELSE 1
           IN  /\ Gap(rows[i], seen) => t.stop = "gap" /\ t.at = i
               /\ ~Gap(rows[i], seen) /\ rows[i].pf = "nocases" => t.stop = "unjudgeable" /\ t.at = i
               /\ ~Gap(rows[i], seen) /\ rows[i].pf # "nocases" =>
                      /\ Says(rows, truncated, i) = "reopen" => t.stop = "reopened" /\ t.at = i
                      /\ Says(rows, truncated, i) = "count_k" =>
                             /\ t.seq = next /\ t.pure
                             /\ next >= k => t.stop = "passed" /\ t.at = i
                             /\ ~(next >= k) => t.stop = "none" /\ t.at = 0
                      /\ Says(rows, truncated, i) \notin {"reopen", "count_k"} =>
                             ~t.pure /\ t.stop = "none" /\ t.at = 0
<1> DEFINE action == Says(rows, truncated, i)
           d == decide_k(s.seq, s.pure, action, k)
           next == IF s.pure THEN s.seq + 1 ELSE 1
<1>1. s.seq \in Nat /\ s.pure \in BOOLEAN /\ s = [seq |-> s.seq, pure |-> s.pure, at |-> s.at,
                                                  unclean |-> s.unclean, stop |-> s.stop]
  BY DEF WalkState
<1>2. CASE Gap(rows[i], seen)
  <2>1. t = [s EXCEPT !.stop = "gap", !.at = i]
    BY <1>2 DEF ReplayStep
  <2>2. t.stop = "gap" /\ t.at = i
    BY <1>1, <2>1
  <2> QED
    BY <1>2, <2>2
<1>3. CASE ~Gap(rows[i], seen) /\ rows[i].pf = "nocases"
  <2>1. t = [s EXCEPT !.stop = "unjudgeable", !.at = i]
    BY <1>3 DEF ReplayStep
  <2>2. t.stop = "unjudgeable" /\ t.at = i
    BY <1>1, <2>1
  <2> QED
    BY <1>3, <2>2
<1>4. CASE ~Gap(rows[i], seen) /\ rows[i].pf # "nocases"
  <2>1. PICK u : t = [seq |-> d.seq, pure |-> d.pure, stop |-> d.stop,
                      at |-> IF d.stop = "none" THEN 0 ELSE i, unclean |-> u]
    BY <1>4 DEF ReplayStep, Says
  <2>2. t.seq = d.seq /\ t.pure = d.pure /\ t.stop = d.stop /\ t.at = (IF d.stop = "none" THEN 0 ELSE i)
    BY <2>1
  <2> HIDE DEF action
  <2>3. /\ action = "reopen" => d.stop = "reopened"
        /\ action = "count_k" => d.seq = next /\ d.pure /\ d.stop = (IF next >= k THEN "passed" ELSE "none")
        /\ action \notin {"reopen", "count_k"} => ~d.pure /\ d.stop = "none"
    BY DEF decide_k
  <2> HIDE DEF d, next
  <2>4. /\ action = "reopen" => t.stop = "reopened" /\ t.at = i
        /\ action = "count_k" => /\ t.seq = next /\ t.pure
                                 /\ next >= k => t.stop = "passed" /\ t.at = i
                                 /\ ~(next >= k) => t.stop = "none" /\ t.at = 0
        /\ action \notin {"reopen", "count_k"} => ~t.pure /\ t.stop = "none" /\ t.at = 0
    BY <2>2, <2>3
  <2> QED
    BY <1>4, <2>4 DEF action, next
<1> QED
  BY <1>2, <1>3, <1>4

\* route_verdict in the words of the reference.
LEMMA RoutedAs ==
    ASSUME KernelTypeOK, NEW i \in DOMAIN pushed
    PROVE  /\ Says(pushed, cut, i) = "reopen" <=> pushed[i].pf = "fail"
           /\ pushed[i].pf # "nocases" => (Says(pushed, cut, i) = "count_k" <=> Pure(i))
           /\ pushed[i].pf \in {"fail", "nocases"} => ~Pure(i)
<1>1. pushed[i].pf \in PassFail /\ cut \in BOOLEAN
  BY PushedRows DEF KernelTypeOK
<1>2. env_na_types(pushed[i].na) = {} <=> pushed[i].na \subseteq CaseLevelTypes
  BY DEF env_na_types, classify_error_type
<1> DEFINE clean == env_na_types(pushed[i].na) = {}
           pf == pushed[i].pf
<1>3. /\ Pure(i) <=> pf = "pass" /\ clean /\ ~cut
      /\ Says(pushed, cut, i) =
             CASE pf = "missing" -> "missing"
               [] pf = "fail" -> "reopen"
               [] pf = "na" -> "needs_review"
               [] pf = "pass" /\ cut -> "needs_review"
               [] pf = "pass" /\ ~cut /\ ~clean -> "unclean_run"
               [] OTHER -> "count_k"
  BY <1>2 DEF Pure, Says, route_verdict
<1> HIDE DEF clean, pf
<1>4. /\ Says(pushed, cut, i) = "reopen" <=> pf = "fail"
      /\ pf # "nocases" => (Says(pushed, cut, i) = "count_k" <=> Pure(i))
      /\ pf \in {"fail", "nocases"} => ~Pure(i)
  BY <1>1, <1>3 DEF PassFail, pf
<1> QED
  BY <1>4 DEF pf

StreakIn(s) == IF s.pure THEN s.seq ELSE 0

Agreed(seen, s, n) ==
    /\ s \in WalkState
    /\ s.stop = "none" =>
           /\ s.at = 0
           /\ \A m \in 1 .. n : Why(Nth(m), seen) = "none"
           /\ StreakOf(n, StreakIn(s))
    /\ s.stop # "none" => \E e \in 1 .. n :
           /\ s.at = Nth(e) /\ Why(Nth(e), seen) = s.stop
           /\ \A m \in 1 .. e - 1 : Why(Nth(m), seen) = "none"

LEMMA AgreedStep ==
    ASSUME KernelTypeOK, NEW seen, NEW n \in 1 .. Walked, NEW s, Agreed(seen, s, n - 1)
    PROVE  Agreed(seen, ReplayStep(pushed, seen, cut, wanted, s, Nth(n)), n)
<1> DEFINE i == Nth(n)
           t == ReplayStep(pushed, seen, cut, wanted, s, i)
<1>1. /\ Walked \in Nat /\ n \in Nat /\ n >= 1 /\ n - 1 \in Nat
      /\ i \in DOMAIN pushed /\ i \in Nat /\ s \in WalkState /\ wanted \in Nat /\ wanted # 0
  BY Positions DEF Agreed, KernelTypeOK
<1>2. t \in WalkState /\ (s.stop # "none" => t = s)
  <2> HIDE DEF i
  <2> QED
    BY <1>1, StepIs
<1>3. CASE s.stop # "none"
  <2>1. PICK e \in 1 .. n - 1 : /\ s.at = Nth(e) /\ Why(Nth(e), seen) = s.stop
                                /\ \A m \in 1 .. e - 1 : Why(Nth(m), seen) = "none"
    BY <1>3 DEF Agreed
  <2>2. e \in 1 .. n
    BY <1>1
  <2> HIDE DEF t
  <2> QED
    BY <1>2, <1>3, <2>1, <2>2 DEF Agreed, t
<1>4. CASE s.stop = "none"
  <2> DEFINE q == StreakIn(s)
             gap == Gap(pushed[i], seen)
             next == IF s.pure THEN s.seq + 1 ELSE 1
  <2>1. (\A m \in 1 .. n - 1 : Why(Nth(m), seen) = "none") /\ StreakOf(n - 1, q)
    BY <1>4 DEF Agreed
  <2>2. q \in 0 .. n - 1 /\ q \in Nat /\ next = q + 1 /\ next \in Nat
    BY <1>1, <2>1 DEF StreakOf, StreakIn, WalkState
  <2>3. /\ gap => t.stop = "gap" /\ t.at = i
        /\ ~gap /\ pushed[i].pf = "nocases" => t.stop = "unjudgeable" /\ t.at = i
        /\ ~gap /\ pushed[i].pf # "nocases" =>
               /\ Says(pushed, cut, i) = "reopen" => t.stop = "reopened" /\ t.at = i
               /\ Says(pushed, cut, i) = "count_k" =>
                      /\ t.seq = next /\ t.pure
                      /\ next >= wanted => t.stop = "passed" /\ t.at = i
                      /\ ~(next >= wanted) => t.stop = "none" /\ t.at = 0
               /\ Says(pushed, cut, i) \notin {"reopen", "count_k"} =>
                      ~t.pure /\ t.stop = "none" /\ t.at = 0
    <3> HIDE DEF i
    <3> QED
      BY <1>1, <1>4, StepSays
  <2>4. /\ Says(pushed, cut, i) = "reopen" <=> pushed[i].pf = "fail"
        /\ pushed[i].pf # "nocases" => (Says(pushed, cut, i) = "count_k" <=> Pure(i))
    BY <1>1, RoutedAs
  <2>5. /\ Pure(i) => StreakOf(n, q + 1)
        /\ ~Pure(i) => StreakOf(n, 0)
    <3> DEFINE first == n - (q + 1) + 1
    <3>1. first = (n - 1) - q + 1 /\ first \in Int /\ n - (q + 1) = (n - 1) - q
      BY <1>1, <2>2
    <3>2. ASSUME Pure(i) PROVE \A x \in first .. n : Pure(Nth(x))
      <4>1. \A x \in first .. n : x = n \/ x \in first .. n - 1
        BY <1>1, <3>1
      <4>2. \A x \in first .. n - 1 : Pure(Nth(x))
        BY <2>1, <3>1 DEF StreakOf
      <4> QED
        BY <3>2, <4>1, <4>2
    <3>3. q = n - 1 \/ ~Pure(Nth((n - 1) - q))
      BY <2>1 DEF StreakOf
    <3>4. q + 1 \in 0 .. n /\ 0 \in 0 .. n /\ (q = n - 1 => q + 1 = n) /\ n - 0 = n
      BY <1>1, <2>2
    <3>5. \A x \in n - 0 + 1 .. n : FALSE
      BY <1>1
    <3>6. Pure(i) => StreakOf(n, q + 1)
      BY <3>1, <3>2, <3>3, <3>4 DEF StreakOf
    <3>7. ~Pure(i) => StreakOf(n, 0)
      BY <3>4, <3>5 DEF StreakOf
    <3> QED
      BY <3>6, <3>7
  <2>6. /\ Pure(i) => Cardinality(Streak(i)) = q + 1
        /\ ~Pure(i) => Cardinality(Streak(i)) = 0
    BY <2>5, StreakCount
  <2>7. /\ gap => Why(i, seen) = "gap"
        /\ ~gap /\ pushed[i].pf = "nocases" => Why(i, seen) = "unjudgeable"
        /\ ~gap /\ pushed[i].pf = "fail" => Why(i, seen) = "reopened"
        /\ ~gap /\ pushed[i].pf \notin {"fail", "nocases"} =>
               Why(i, seen) = (IF Cardinality(Streak(i)) >= wanted THEN "passed" ELSE "none")
    <3> HIDE DEF i
    <3> QED
      BY DEF Why, Gap
  <2> HIDE DEF t, q, gap, i
  <2>8. \A m \in 1 .. n : m = n \/ m \in 1 .. n - 1
    BY <1>1
  <2>9. ASSUME t.stop = "none" PROVE Agreed(seen, t, n)
    <3>1. ~gap /\ pushed[i].pf \notin {"fail", "nocases"}
      BY <2>3, <2>4, <2>9
    <3>2. CASE Pure(i)
      <4>1. Says(pushed, cut, i) = "count_k"
        BY <2>4, <3>1, <3>2
      <4>2. t.seq = q + 1 /\ t.pure /\ ~(q + 1 >= wanted) /\ t.at = 0
        <5> HIDE DEF next
        <5> QED
          BY <2>2, <2>3, <2>9, <3>1, <4>1
      <4>3. Why(i, seen) = "none"
        BY <2>6, <2>7, <3>1, <3>2, <4>2
      <4>4. StreakIn(t) = q + 1
        BY <4>2 DEF StreakIn
      <4>5. \A m \in 1 .. n : Why(Nth(m), seen) = "none"
        BY <2>1, <2>8, <4>3 DEF i
      <4> QED
        BY <1>2, <2>5, <2>9, <3>2, <4>2, <4>4, <4>5 DEF Agreed
    <3>3. CASE ~Pure(i)
      <4>1. Says(pushed, cut, i) \notin {"reopen", "count_k"}
        BY <2>4, <3>1, <3>3
      <4>2. ~t.pure /\ t.at = 0
        BY <2>3, <3>1, <4>1
      <4>3. Why(i, seen) = "none"
        <5>1. ~(0 >= wanted)
          BY <1>1
        <5> QED
          BY <2>6, <2>7, <3>1, <3>3, <5>1
      <4>4. StreakIn(t) = 0
        BY <4>2 DEF StreakIn
      <4>5. \A m \in 1 .. n : Why(Nth(m), seen) = "none"
        BY <2>1, <2>8, <4>3 DEF i
      <4> QED
        BY <1>2, <2>5, <2>9, <3>3, <4>2, <4>4, <4>5 DEF Agreed
    <3> QED
      BY <3>2, <3>3
  <2>10. ASSUME t.stop # "none" PROVE Agreed(seen, t, n)
    <3>1. t.at = i /\ Why(i, seen) = t.stop
      <4>1. CASE gap \/ pushed[i].pf \in {"fail", "nocases"}
        <5> HIDE DEF next
        <5> QED
          BY <2>3, <2>4, <2>7, <4>1
      <4>2. CASE ~gap /\ pushed[i].pf \notin {"fail", "nocases"}
        <5>1. Pure(i) /\ Says(pushed, cut, i) = "count_k"
          BY <2>3, <2>4, <2>10, <4>2
        <5>2. q + 1 >= wanted /\ t.stop = "passed" /\ t.at = i
          <6> HIDE DEF next
          <6> QED
            BY <2>2, <2>3, <2>10, <4>2, <5>1
        <5> QED
          BY <2>6, <2>7, <4>2, <5>1, <5>2
      <4> QED
        BY <4>1, <4>2
    <3>2. n \in 1 .. n
      BY <1>1
    <3> QED
      BY <1>2, <2>1, <2>10, <3>1, <3>2 DEF Agreed, i
  <2> QED
    BY <2>9, <2>10 DEF t, i
<1> QED
  BY <1>3, <1>4

LEMMA ReplayAgreed ==
    ASSUME KernelTypeOK, NEW seen
    PROVE  Agreed(seen, _replay_k(pushed, seen, cut, wanted), Walked)
<1>1. Walked \in Nat /\ Ranked(pushed) /\ wanted \in Nat
  BY Positions, PushedRows DEF KernelTypeOK
<1>2. PICK f : /\ f[0] = ReplayStart
               /\ \A n \in 1 .. Walked : f[n] = ReplayStep(pushed, seen, cut, wanted, f[n - 1], Nth(n))
               /\ _replay_k(pushed, seen, cut, wanted) = f[Walked]
  BY <1>1, ReplayIsTheWalk DEF Walked, Nth
<1> DEFINE Wrong == {n \in 0 .. Walked : ~Agreed(seen, f[n], n)}
<1>3. Agreed(seen, ReplayStart, 0)
  <2>1. ReplayStart \in WalkState /\ ReplayStart.stop = "none" /\ ReplayStart.at = 0 /\ StreakIn(ReplayStart) = 0
    BY DEF ReplayStart, WalkState, StreakIn
  <2>2. StreakOf(0, 0)
    BY DEF StreakOf
  <2> QED
    BY <2>1, <2>2 DEF Agreed
<1>4. Wrong = {}
  <2> SUFFICES ASSUME Wrong # {} PROVE FALSE
    OBVIOUS
  <2>1. Wrong \subseteq Nat
    BY <1>1
  <2>2. PICK n \in Wrong : \A y \in Wrong : n <= y
    <3> HIDE DEF Wrong
    <3> QED
      BY <2>1, LeastOf
  <2>3. n # 0
    BY <1>2, <1>3, <2>2
  <2>4. n \in 1 .. Walked /\ n - 1 \in 0 .. Walked /\ ~(n <= n - 1)
    BY <1>1, <2>2, <2>3
  <2>5. Agreed(seen, f[n - 1], n - 1)
    BY <2>2, <2>4
  <2>6. Agreed(seen, ReplayStep(pushed, seen, cut, wanted, f[n - 1], Nth(n)), n)
    BY <2>4, <2>5, AgreedStep
  <2> QED
    BY <1>2, <2>2, <2>4, <2>6
<1>5. Walked \in 0 .. Walked
  BY <1>1
<1> QED
  BY <1>2, <1>4, <1>5

\* A fold and its reference say the same.
LEMMA SaysReference ==
    ASSUME KernelTypeOK, NEW seen
    PROVE  LET v == Verdict(pushed, seen)
           IN  [stop |-> v.stop, ver |-> v.ver] = Reference(seen)
<1> DEFINE s == _replay_k(pushed, seen, cut, wanted)
           ends == {i \in Standing : Why(i, seen) # "none"}
           end == CHOOSE i \in ends : \A j \in ends : i \in UpTo(j)
<1>1. Agreed(seen, s, Walked)
  BY ReplayAgreed
<1>2. /\ Walked \in Nat
      /\ \A n \in 1 .. Walked : Nth(n) \in Standing /\ Nth(n) \in DOMAIN pushed /\ Nth(n) # 0
      /\ \A i \in Standing : \E n \in 1 .. Walked : Nth(n) = i
      /\ \A m, n \in 1 .. Walked : Nth(m) = Nth(n) => m = n
      /\ \A m, n \in 1 .. Walked : Nth(m) \in UpTo(Nth(n)) <=> m <= n
  BY Positions
<1>3. Verdict(pushed, seen).stop = s.stop
      /\ Verdict(pushed, seen).ver = (IF s.at = 0 THEN NoVersion ELSE pushed[s.at].ver)
  BY DEF Verdict
<1>4. Reference(seen) = IF ends = {} THEN [stop |-> "none", ver |-> NoVersion]
                        ELSE [stop |-> Why(end, seen), ver |-> pushed[end].ver]
  BY DEF Reference
<1> HIDE DEF s
<1>5. CASE s.stop = "none"
  <2>1. s.at = 0 /\ \A m \in 1 .. Walked : Why(Nth(m), seen) = "none"
    BY <1>1, <1>5 DEF Agreed
  <2>2. ends = {}
    BY <1>2, <2>1
  <2> QED
    BY <1>3, <1>4, <1>5, <2>1, <2>2
<1>6. CASE s.stop # "none"
  <2>1. PICK e \in 1 .. Walked : /\ s.at = Nth(e) /\ Why(Nth(e), seen) = s.stop
                                 /\ \A m \in 1 .. e - 1 : Why(Nth(m), seen) = "none"
    BY <1>1, <1>6 DEF Agreed
  <2>2. Nth(e) \in ends
    BY <1>2, <1>6, <2>1
  <2>3. ASSUME NEW j \in ends PROVE Nth(e) \in UpTo(j)
    <3>1. PICK n \in 1 .. Walked : Nth(n) = j
      BY <1>2
    <3>2. ~(n \in 1 .. e - 1)
      BY <2>1, <3>1
    <3>3. e <= n
      BY <1>2, <3>2
    <3> QED
      BY <1>2, <3>1, <3>3
  <2>4. ASSUME NEW i \in ends, \A j \in ends : i \in UpTo(j) PROVE i = Nth(e)
    <3>1. PICK n \in 1 .. Walked : Nth(n) = i
      BY <1>2
    <3>2. n <= e /\ e <= n
      BY <1>2, <2>2, <2>3, <2>4, <3>1
    <3>3. n = e
      BY <1>2, <3>2
    <3> QED
      BY <3>1, <3>3
  <2> HIDE DEF ends
  <2>5. end = Nth(e)
    BY <2>2, <2>3, <2>4
  <2> HIDE DEF end
  <2>6. Reference(seen) = [stop |-> s.stop, ver |-> pushed[Nth(e)].ver]
    BY <1>4, <2>1, <2>2, <2>5
  <2>7. Verdict(pushed, seen).ver = pushed[Nth(e)].ver
    BY <1>2, <1>3, <2>1
  <2> QED
    BY <1>3, <2>6, <2>7
<1> QED
  BY <1>5, <1>6

\* The first gap of the walk, for a fold that did not decide.
LEMMA SeesTheGap ==
    ASSUME KernelTypeOK, NEW seen, NEW s, s = _replay_k(pushed, seen, cut, wanted),
           s.stop \in {"none", "gap", "unjudgeable"},
           NEW missing, missing = {i \in Standing : Gap(pushed[i], seen)}
    PROVE  IF missing = {} THEN link_gap_version(pushed, seen) = NoVersion /\ s.stop # "gap"
           ELSE \E i \in missing :
                    /\ \A j \in missing : i \in UpTo(j)
                    /\ link_gap_version(pushed, seen) = pushed[i].prev
                    /\ \/ s.stop = "gap" /\ s.at = i
                       \/ s.stop = "unjudgeable" /\ s.at \in UpTo(i) \ {i}
<1> DEFINE order == WalkOrder(pushed)
           gaps == {n \in DOMAIN order : Gap(pushed[order[n]], seen)}
<1>1. Agreed(seen, s, Walked)
  BY ReplayAgreed
<1>2. Walked \in Nat /\ DOMAIN order = 1 .. Walked /\ \A n \in 1 .. Walked : order[n] = Nth(n)
  BY PushedRows, WalkOrderIs DEF Walked, Nth
<1>3. link_gap_version(pushed, seen) =
          IF gaps = {} THEN NoVersion ELSE pushed[order[Min(gaps)]].prev
  BY DEF link_gap_version
<1>4. \A i : (Why(i, seen) = "gap" <=> Gap(pushed[i], seen))
  BY DEF Why, Gap
<1>5. /\ \A n \in 1 .. Walked : Nth(n) \in Standing
      /\ \A i \in Standing : \E n \in 1 .. Walked : Nth(n) = i
      /\ \A m, n \in 1 .. Walked : Nth(m) = Nth(n) => m = n
      /\ \A m, n \in 1 .. Walked : Nth(m) \in UpTo(Nth(n)) <=> m <= n
  BY Positions
<1> HIDE DEF order
<1>6. gaps = {n \in 1 .. Walked : Why(Nth(n), seen) = "gap"}
  BY <1>2, <1>4
<1> HIDE DEF gaps
<1>7. missing = {} <=> gaps = {}
  BY <1>4, <1>5, <1>6
<1>8. s.stop = "gap" => gaps # {}
  BY <1>1, <1>6 DEF Agreed
<1>9. CASE gaps = {}
  BY <1>3, <1>7, <1>8, <1>9
<1>10. CASE gaps # {}
  <2>1. gaps \subseteq Nat
    BY <1>2, <1>6
  <2>2. PICK g \in gaps : \A x \in gaps : g <= x
    BY <1>10, <2>1, LeastOf
  <2>3. Min(gaps) = g
    <3>1. Min(gaps) = CHOOSE x \in gaps : \A y \in gaps : x <= y
      BY DEF Min
    <3>2. \A x \in gaps : (\A y \in gaps : x <= y) => x = g
      <4> SUFFICES ASSUME NEW x \in gaps, \A y \in gaps : x <= y PROVE x = g
        OBVIOUS
      <4>1. x <= g /\ g <= x /\ x \in Int /\ g \in Int
        BY <2>1, <2>2
      <4> QED
        BY <4>1
    <3> QED
      BY <2>2, <3>1, <3>2
  <2>4. g \in 1 .. Walked /\ Why(Nth(g), seen) = "gap" /\ Nth(g) \in missing
    BY <1>4, <1>5, <1>6, <2>2
  <2>5. ASSUME NEW j \in missing PROVE Nth(g) \in UpTo(j)
    <3>1. PICK n \in 1 .. Walked : Nth(n) = j
      BY <1>5
    <3>2. n \in gaps
      BY <1>4, <1>6, <2>5, <3>1
    <3> QED
      BY <1>5, <2>2, <2>4, <3>1, <3>2
  <2>6. link_gap_version(pushed, seen) = pushed[Nth(g)].prev
    BY <1>2, <1>3, <1>10, <2>3, <2>4
  <2>7. s.stop # "none"
    <3> SUFFICES ASSUME s.stop = "none" PROVE FALSE
      OBVIOUS
    <3>1. Why(Nth(g), seen) = "none"
      BY <1>1, <2>4 DEF Agreed
    <3> QED
      BY <2>4, <3>1
  <2>8. PICK e \in 1 .. Walked : /\ s.at = Nth(e) /\ Why(Nth(e), seen) = s.stop
                                 /\ \A m \in 1 .. e - 1 : Why(Nth(m), seen) = "none"
    BY <1>1, <2>7 DEF Agreed
  <2>9. e <= g
    <3>1. ~(g \in 1 .. e - 1)
      <4> SUFFICES ASSUME g \in 1 .. e - 1 PROVE FALSE
        OBVIOUS
      <4>1. Why(Nth(g), seen) = "none"
        BY <2>8
      <4> QED
        BY <2>4, <4>1
    <3> QED
      BY <1>2, <2>4, <2>8, <3>1
  <2>10. CASE s.stop = "gap"
    <3>1. e \in gaps
      BY <1>6, <2>8, <2>10
    <3>2. e \in Int /\ g \in Int /\ g <= e
      BY <1>2, <2>2, <2>4, <2>8, <3>1
    <3>3. e = g
      BY <2>9, <3>2
    <3> QED
      BY <1>7, <1>10, <2>4, <2>5, <2>6, <2>8, <2>10, <3>3
  <2>11. CASE s.stop = "unjudgeable"
    <3>1. e # g
      <4> SUFFICES ASSUME e = g PROVE FALSE
        OBVIOUS
      <4>1. s.stop = "gap"
        BY <2>4, <2>8
      <4> QED
        BY <2>11, <4>1
    <3>2. s.at \in UpTo(Nth(g)) \ {Nth(g)}
      BY <1>5, <2>4, <2>8, <2>9, <3>1
    <3> QED
      BY <1>7, <1>10, <2>4, <2>5, <2>6, <2>11, <3>2
  <2> QED
    BY <2>7, <2>10, <2>11
<1> QED
  BY <1>9, <1>10

\* What one version adds to the folds of two links that hold the same row.
SameFold(s, t) == s.stop = t.stop /\ s.seq = t.seq /\ s.pure = t.pure

LEMMA SameStep ==
    ASSUME NEW rows, NEW other, NEW seen, NEW truncated, NEW k, NEW i, NEW j, rows[i] = other[j],
           NEW s \in WalkState, NEW t \in WalkState, SameFold(s, t),
           NEW u, u = ReplayStep(rows, seen, truncated, k, s, i),
           NEW v, v = ReplayStep(other, seen, truncated, k, t, j)
    PROVE  /\ SameFold(u, v)
           /\ \/ u.at = s.at /\ v.at = t.at
              \/ u.at = 0 /\ v.at = 0
              \/ u.at = i /\ v.at = j
<1> DEFINE action == route_verdict(rows[i].pf, rows[i].na, truncated)
           d == decide_k(s.seq, s.pure, action, k)
<1>1. /\ s = [seq |-> s.seq, pure |-> s.pure, at |-> s.at, unclean |-> s.unclean, stop |-> s.stop]
      /\ t = [seq |-> t.seq, pure |-> t.pure, at |-> t.at, unclean |-> t.unclean, stop |-> t.stop]
      /\ s.seq = t.seq /\ s.pure = t.pure /\ s.stop = t.stop
  BY DEF WalkState, SameFold
<1>2. CASE s.stop # "none"
  <2>1. u = s /\ v = t
    BY <1>1, <1>2 DEF ReplayStep
  <2> QED
    BY <2>1
<1>3. CASE s.stop = "none" /\ Gap(rows[i], seen)
  <2>1. u = [s EXCEPT !.stop = "gap", !.at = i] /\ v = [t EXCEPT !.stop = "gap", !.at = j]
    BY <1>1, <1>3 DEF ReplayStep
  <2> QED
    BY <1>1, <2>1 DEF SameFold
<1>4. CASE s.stop = "none" /\ ~Gap(rows[i], seen) /\ rows[i].pf = "nocases"
  <2>1. u = [s EXCEPT !.stop = "unjudgeable", !.at = i] /\ v = [t EXCEPT !.stop = "unjudgeable", !.at = j]
    BY <1>1, <1>4 DEF ReplayStep
  <2> QED
    BY <1>1, <2>1 DEF SameFold
<1>5. CASE s.stop = "none" /\ ~Gap(rows[i], seen) /\ rows[i].pf # "nocases"
  <2>1. PICK x : u = [seq |-> d.seq, pure |-> d.pure, stop |-> d.stop,
                      at |-> IF d.stop = "none" THEN 0 ELSE i, unclean |-> x]
    BY <1>5 DEF ReplayStep
  <2>2. PICK y : v = [seq |-> d.seq, pure |-> d.pure, stop |-> d.stop,
                      at |-> IF d.stop = "none" THEN 0 ELSE j, unclean |-> y]
    BY <1>1, <1>5 DEF ReplayStep
  <2> HIDE DEF d
  <2> QED
    BY <2>1, <2>2 DEF SameFold
<1> QED
  BY <1>2, <1>3, <1>4, <1>5

\* A version that is no gap for the smaller set is none for the larger.
LEMMA DelayedStep ==
    ASSUME NEW rows, NEW seen, NEW more, seen \subseteq more, NEW truncated, NEW k,
           NEW s \in WalkState, NEW i
    PROVE  \/ ReplayStep(rows, seen, truncated, k, s, i).stop = "gap"
           \/ ReplayStep(rows, seen, truncated, k, s, i) = ReplayStep(rows, more, truncated, k, s, i)
<1>1. CASE s.stop = "none" /\ Gap(rows[i], seen)
  <2>1. ReplayStep(rows, seen, truncated, k, s, i) = [s EXCEPT !.stop = "gap", !.at = i]
    BY <1>1 DEF ReplayStep
  <2> QED
    BY <2>1 DEF WalkState
<1>2. CASE s.stop # "none" \/ ~Gap(rows[i], seen)
  <2>1. CASE s.stop # "none"
    BY <2>1 DEF ReplayStep
  <2>2. CASE s.stop = "none" /\ ~Gap(rows[i], seen)
    <3>1. ~Gap(rows[i], more)
      BY <2>2 DEF Gap
    <3> QED
      BY <2>2, <3>1 DEF ReplayStep
  <2> QED
    BY <1>2, <2>1, <2>2
<1> QED
  BY <1>1, <1>2

LEMMA OnlyDelays ==
    ASSUME KernelTypeOK, NEW seen, NEW more, seen \subseteq more
    PROVE  LET s == _replay_k(pushed, seen, cut, wanted)
           IN  s.stop = "gap" \/ s = _replay_k(pushed, more, cut, wanted)
<1>1. /\ Walked \in Nat /\ Ranked(pushed)
      /\ \A n \in 1 .. Walked : Nth(n) \in Nat
  BY Positions, PushedRows
<1>2. PICK f : /\ f[0] = ReplayStart
               /\ \A n \in 1 .. Walked : f[n] = ReplayStep(pushed, seen, cut, wanted, f[n - 1], Nth(n))
               /\ _replay_k(pushed, seen, cut, wanted) = f[Walked]
  BY <1>1, ReplayIsTheWalk DEF Walked, Nth
<1>3. PICK g : /\ g[0] = ReplayStart
               /\ \A n \in 1 .. Walked : g[n] = ReplayStep(pushed, more, cut, wanted, g[n - 1], Nth(n))
               /\ _replay_k(pushed, more, cut, wanted) = g[Walked]
  BY <1>1, ReplayIsTheWalk DEF Walked, Nth
<1> DEFINE Wrong == {n \in 0 .. Walked : ~(f[n] \in WalkState /\ (f[n].stop = "gap" \/ f[n] = g[n]))}
<1>4. Wrong = {}
  <2> SUFFICES ASSUME Wrong # {} PROVE FALSE
    OBVIOUS
  <2>1. Wrong \subseteq Nat
    BY <1>1
  <2>2. PICK n \in Wrong : \A y \in Wrong : n <= y
    <3> HIDE DEF Wrong
    <3> QED
      BY <2>1, LeastOf
  <2>3. n # 0
    <3>1. ReplayStart \in WalkState
      BY DEF ReplayStart, WalkState
    <3> QED
      BY <1>2, <1>3, <2>2, <3>1
  <2>4. n \in 1 .. Walked /\ n - 1 \in 0 .. Walked /\ ~(n <= n - 1)
    BY <1>1, <2>2, <2>3
  <2>5. f[n - 1] \in WalkState /\ (f[n - 1].stop = "gap" \/ f[n - 1] = g[n - 1])
    BY <2>2, <2>4
  <2>6. f[n] \in WalkState /\ (f[n - 1].stop # "none" => f[n] = f[n - 1])
    BY <1>1, <1>2, <2>4, <2>5, StepIs
  <2>7. f[n - 1] = g[n - 1] => f[n].stop = "gap" \/ f[n] = g[n]
    BY <1>2, <1>3, <2>4, <2>5, DelayedStep
  <2> QED
    BY <2>2, <2>5, <2>6, <2>7
<1>5. Walked \in 0 .. Walked
  BY <1>1
<1> QED
  BY <1>2, <1>3, <1>4, <1>5

-----------------------------------------------------------------------------
(***************************************************************************)
(* The order of arrival.  Results of which no two versions compare equal   *)
(* are walked in one order however they were pushed.                       *)
(***************************************************************************)
LEMMA DistinctOrder ==
    ASSUME NEW rows, Ranked(rows), AllSort(rows)
    PROVE  /\ by_version(rows) = DOMAIN rows
           /\ \A i, j \in DOMAIN rows :
                  Before(rows, i, j) <=> _ver_key(rows[i].ver) < _ver_key(rows[j].ver)
<1>1. \A i, j \in DOMAIN rows : j > i => rows[j].ver # rows[i].ver
  <2> SUFFICES ASSUME NEW i \in DOMAIN rows, NEW j \in DOMAIN rows, j > i, rows[j].ver = rows[i].ver PROVE FALSE
    OBVIOUS
  <2>1. i = j /\ i \in Nat
    BY DEF AllSort, Ranked
  <2> QED
    BY <2>1
<1>2. by_version(rows) = DOMAIN rows
  BY <1>1 DEF by_version
<1>3. ASSUME NEW i \in DOMAIN rows, NEW j \in DOMAIN rows
      PROVE  Before(rows, i, j) <=> _ver_key(rows[i].ver) < _ver_key(rows[j].ver)
  <2>1. rows[i].ver \in Versions /\ rows[j].ver \in Versions
    BY DEF Ranked
  <2>2. CASE i = j
    <3>1. ~Before(rows, i, i)
      BY <1>2, BeforeTotal
    <3>2. _ver_key(rows[i].ver) \in Nat
      BY <2>1, VersionAssumption DEF _ver_key
    <3> QED
      BY <2>2, <3>1, <3>2
  <2>3. CASE i # j
    <3>1. _ver_key(rows[i].ver) # _ver_key(rows[j].ver)
      BY <2>3 DEF AllSort
    <3> QED
      BY <3>1 DEF Before
  <2> QED
    BY <2>2, <2>3
<1> QED
  BY <1>2, <1>3

LEMMA SameVerdict ==
    ASSUME KernelTypeOK, AllSort(pushed), NEW seen,
           NEW p \in Bijection(DOMAIN pushed, DOMAIN pushed)
    PROVE  Verdict(Permuted(p), seen) = Verdict(pushed, seen)
<1> DEFINE D == DOMAIN pushed
           other == Permuted(p)
           key(i) == _ver_key(pushed[i].ver)
           There(n) == WalkOrder(other)[n]
<1>1. /\ p \in [D -> D] /\ \A i, j \in D : p[i] = p[j] => i = j
      /\ \A j \in D : \E i \in D : p[i] = j
  BY DEF Bijection, Injection, IsInjective, Surjection
<1>2. Ranked(pushed) /\ D \subseteq Nat /\ (\A i \in D : i # 0) /\ \A i \in D : pushed[i].ver \in Versions
  BY PushedRows DEF Ranked
<1>3. DOMAIN other = D /\ \A i \in D : other[i] = pushed[p[i]] /\ p[i] \in D
  BY <1>1 DEF Permuted
<1>4. Ranked(other)
  <2> HIDE DEF other
  <2> QED
    BY <1>2, <1>3 DEF Ranked
<1>5. AllSort(other)
  <2> HIDE DEF other
  <2> QED
    BY <1>1, <1>3 DEF AllSort
<1>6. by_version(pushed) = D /\ \A i, j \in D : Before(pushed, i, j) <=> key(i) < key(j)
  BY <1>2, DistinctOrder
<1>7. by_version(other) = D /\ \A i, j \in D : Before(other, i, j) <=> key(p[i]) < key(p[j])
  <2> HIDE DEF other
  <2> QED
    BY <1>3, <1>4, <1>5, DistinctOrder
<1>8. \A i \in D : key(i) \in Nat
  BY <1>2, VersionAssumption DEF _ver_key
<1>9. /\ Walked \in Nat
      /\ \A n \in 1 .. Walked : Nth(n) \in D
      /\ \A m, n \in 1 .. Walked : m < n => key(Nth(m)) < key(Nth(n))
      /\ \A i \in D : \E n \in 1 .. Walked : Nth(n) = i
  BY <1>2, <1>6, WalkOrderIs DEF Walked, Nth
<1>10. /\ \A n \in 1 .. Walked : There(n) \in D
       /\ \A m, n \in 1 .. Walked : m < n => key(p[There(m)]) < key(p[There(n)])
       /\ \A i \in D : \E n \in 1 .. Walked : There(n) = i
       /\ Cardinality(by_version(other)) = Walked
  <2>1. Cardinality(by_version(other)) = Walked
    BY <1>6, <1>7 DEF Walked
  <2>2. /\ \A n \in 1 .. Walked : There(n) \in by_version(other)
        /\ \A m, n \in 1 .. Walked : m < n => Before(other, There(m), There(n))
        /\ \A i \in by_version(other) : \E n \in 1 .. Walked : There(n) = i
    <3> HIDE DEF other
    <3> QED
      BY <1>4, <2>1, WalkOrderIs
  <2> HIDE DEF There, key, other
  <2> QED
    BY <1>7, <2>1, <2>2
<1> HIDE DEF There, other, key
<1>11. \A n \in 1 .. Walked : p[There(n)] = Nth(n)
  <2> DEFINE Wrong == {n \in 1 .. Walked : p[There(n)] # Nth(n)}
  <2> SUFFICES ASSUME Wrong # {} PROVE FALSE
    OBVIOUS
  <2>1. Wrong \subseteq Nat
    BY <1>9
  <2>2. PICK n \in Wrong : \A y \in Wrong : n <= y
    <3> HIDE DEF Wrong
    <3> QED
      BY <2>1, LeastOf
  <2>3. n \in 1 .. Walked /\ p[There(n)] # Nth(n) /\ p[There(n)] \in D /\ Nth(n) \in D
    BY <1>1, <1>9, <1>10, <2>2
  <2>4. PICK m \in 1 .. Walked : p[There(m)] = Nth(n)
    BY <1>1, <1>10, <2>3
  <2>5. PICK l \in 1 .. Walked : Nth(l) = p[There(n)]
    BY <1>9, <2>3
  <2>6. m \in Int /\ n \in Int /\ l \in Int /\ m # n /\ l # n
    BY <1>9, <2>3, <2>4, <2>5
  <2>7. \A x \in 1 .. Walked : x < n => p[There(x)] = Nth(x)
    <3> SUFFICES ASSUME NEW x \in 1 .. Walked, x < n, p[There(x)] # Nth(x) PROVE FALSE
      OBVIOUS
    <3>1. n <= x /\ x \in Int
      BY <1>9, <2>2
    <3> QED
      BY <2>6, <3>1
  <2> HIDE DEF Wrong
  <2>8. key(Nth(n)) \in Nat /\ key(Nth(l)) \in Nat
    BY <1>8, <1>9, <2>3
  <2>9. n < m
    <3> SUFFICES ASSUME m < n PROVE FALSE
      BY <2>6
    <3>1. Nth(m) = Nth(n)
      BY <2>4, <2>7
    <3>2. key(Nth(m)) < key(Nth(n))
      BY <1>9, <2>3
    <3> QED
      BY <2>8, <3>1, <3>2
  <2>10. key(Nth(l)) < key(Nth(n))
    BY <1>10, <2>3, <2>4, <2>5, <2>9
  <2>11. CASE l < n
    <3>1. p[There(l)] = p[There(n)]
      BY <2>5, <2>7, <2>11
    <3>2. key(p[There(l)]) < key(p[There(n)])
      BY <1>10, <2>3, <2>11
    <3> QED
      BY <2>5, <2>8, <3>1, <3>2
  <2>12. CASE n < l
    <3>1. key(Nth(n)) < key(Nth(l))
      BY <1>9, <2>3, <2>12
    <3> QED
      BY <2>8, <2>10, <3>1
  <2> QED
    BY <2>6, <2>11, <2>12
<1>12. PICK f : /\ f[0] = ReplayStart
                /\ \A n \in 1 .. Walked : f[n] = ReplayStep(pushed, seen, cut, wanted, f[n - 1], Nth(n))
                /\ _replay_k(pushed, seen, cut, wanted) = f[Walked]
  BY <1>2, ReplayIsTheWalk DEF Walked, Nth
<1>13. PICK g : /\ g[0] = ReplayStart
                /\ \A n \in 1 .. Walked : g[n] = ReplayStep(other, seen, cut, wanted, g[n - 1], There(n))
                /\ _replay_k(other, seen, cut, wanted) = g[Walked]
  BY <1>4, <1>10, ReplayIsTheWalk DEF There
<1> DEFINE Same(n) == /\ f[n] \in WalkState /\ g[n] \in WalkState /\ SameFold(f[n], g[n])
                      /\ \/ f[n].at = 0 /\ g[n].at = 0
                         \/ g[n].at \in D /\ f[n].at = p[g[n].at]
           Wrong == {n \in 0 .. Walked : ~Same(n)}
<1>14. Wrong = {}
  <2> SUFFICES ASSUME Wrong # {} PROVE FALSE
    OBVIOUS
  <2>1. Wrong \subseteq Nat
    BY <1>9
  <2>2. PICK n \in Wrong : \A y \in Wrong : n <= y
    <3> HIDE DEF Wrong
    <3> QED
      BY <2>1, LeastOf
  <2>3. n # 0
    <3>1. ReplayStart \in WalkState /\ ReplayStart.at = 0 /\ SameFold(ReplayStart, ReplayStart)
      BY DEF ReplayStart, WalkState, SameFold
    <3> QED
      BY <1>12, <1>13, <2>2, <3>1
  <2>4. n \in 1 .. Walked /\ n - 1 \in 0 .. Walked /\ ~(n <= n - 1)
    BY <1>9, <2>2, <2>3
  <2>5. Same(n - 1)
    BY <2>2, <2>4
  <2>6. /\ Nth(n) \in D /\ There(n) \in D /\ Nth(n) = p[There(n)] /\ other[There(n)] = pushed[Nth(n)]
        /\ Nth(n) \in Nat /\ There(n) \in Nat
    BY <1>2, <1>3, <1>9, <1>10, <1>11, <2>4
  <2>7. /\ f[n] = ReplayStep(pushed, seen, cut, wanted, f[n - 1], Nth(n))
        /\ g[n] = ReplayStep(other, seen, cut, wanted, g[n - 1], There(n))
    BY <1>12, <1>13, <2>4
  <2>8. f[n] \in WalkState /\ g[n] \in WalkState
    BY <2>5, <2>6, <2>7, StepIs
  <2>9. /\ SameFold(f[n], g[n])
        /\ \/ f[n].at = f[n - 1].at /\ g[n].at = g[n - 1].at
           \/ f[n].at = 0 /\ g[n].at = 0
           \/ f[n].at = Nth(n) /\ g[n].at = There(n)
    BY <2>5, <2>6, <2>7, SameStep
  <2>10. Same(n)
    BY <2>5, <2>6, <2>8, <2>9
  <2> QED
    BY <2>2, <2>10
<1>15. Same(Walked)
  <2>1. Walked \in 0 .. Walked
    BY <1>9
  <2> QED
    BY <1>14, <2>1
<1> DEFINE s == f[Walked]
           t == g[Walked]
<1>16. /\ Verdict(pushed, seen) = [stop |-> s.stop, seq |-> s.seq,
                                   ver |-> IF s.at = 0 THEN NoVersion ELSE pushed[s.at].ver]
       /\ Verdict(other, seen) = [stop |-> t.stop, seq |-> t.seq,
                                  ver |-> IF t.at = 0 THEN NoVersion ELSE other[t.at].ver]
  BY <1>12, <1>13 DEF Verdict
<1>17. /\ s.stop = t.stop /\ s.seq = t.seq
       /\ \/ s.at = 0 /\ t.at = 0
          \/ s.at # 0 /\ t.at # 0 /\ other[t.at] = pushed[s.at]
  BY <1>2, <1>3, <1>15 DEF SameFold
<1> HIDE DEF s, t
<1>18. Verdict(other, seen) = Verdict(pushed, seen)
  BY <1>16, <1>17
<1> QED
  BY <1>18 DEF other

-----------------------------------------------------------------------------
(***************************************************************************)
(* Theorems                                                                *)
(***************************************************************************)
\* What is pushed is a row, and the case's K and truncation do not change.
LEMMA KernelTyped == KernelSpec => []KernelTypeOK
<1>1. KernelInit => KernelTypeOK
  BY KernelAssumption DEF KernelInit, KernelTypeOK
<1>2. KernelTypeOK /\ [KernelNext]_kernelVars => KernelTypeOK'
  <2> SUFFICES ASSUME KernelTypeOK, [KernelNext]_kernelVars PROVE KernelTypeOK'
    OBVIOUS
  <2>1. CASE KernelNext
    <3>1. PICK row \in ResultRow : pushed' = Append(pushed, row)
      BY <2>1 DEF KernelNext
    <3>2. pushed' \in Seq(ResultRow)
      BY <3>1, AppendProperties DEF KernelTypeOK
    <3> QED
      BY <2>1, <3>2 DEF KernelNext, KernelTypeOK
  <2>2. CASE UNCHANGED kernelVars
    BY <2>2 DEF kernelVars, KernelTypeOK
  <2> QED
    BY <2>1, <2>2
<1> QED
  BY <1>1, <1>2, PTL DEF KernelSpec

\* The K fold computes the verdict that is said without a fold, for every
\* sequence of results, every K and every set of seen versions.
THEOREM FoldsToReference == KernelSpec => []KernelMatchesReference
<1>1. KernelTypeOK => KernelMatchesReference
  BY SaysReference DEF KernelMatchesReference
<1> QED
  BY <1>1, KernelTyped, PTL

\* A lost result makes the kernel wait or changes nothing, whatever the agent's
\* other links have received.
THEOREM LostOnlyDelays == KernelSpec => []GapOnlyDelays
<1>1. KernelTypeOK => GapOnlyDelays
  <2> SUFFICES ASSUME KernelTypeOK, NEW seen \in Seens, NEW more \in Seens, seen \subseteq more
               PROVE  Verdict(pushed, seen).stop = "gap" \/ Verdict(pushed, seen) = Verdict(pushed, more)
    BY DEF GapOnlyDelays
  <2>1. \/ _replay_k(pushed, seen, cut, wanted).stop = "gap"
        \/ _replay_k(pushed, seen, cut, wanted) = _replay_k(pushed, more, cut, wanted)
    BY OnlyDelays
  <2> QED
    BY <2>1 DEF Verdict
<1> QED
  BY <1>1, KernelTyped, PTL

\* The detail page shows the first missing version of every link that is not decided,
\* also where the kernel stopped before it at a result without cases[].
THEOREM PageSeesTheGap == KernelSpec => []GapViewAgrees
<1>1. KernelTypeOK => GapViewAgrees
  BY SeesTheGap DEF GapViewAgrees
<1> QED
  BY <1>1, KernelTyped, PTL

\* Results may be pushed in any order, if no two of their versions compare equal;
\* versions that do are walked as they arrived.
THEOREM AnyOrder == KernelSpec => []OrderIndependent
<1>1. KernelTypeOK => OrderIndependent
  BY SameVerdict DEF OrderIndependent
<1> QED
  BY <1>1, KernelTyped, PTL
=============================================================================
