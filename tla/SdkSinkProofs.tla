---------------------------- MODULE SdkSinkProofs ----------------------------
(***************************************************************************)
(* Theorems about SdkSink, for every value of its constants: whatever is   *)
(* emitted, however small the queue and the batches are, however often a   *)
(* send is tried, fails or the process restarts.                           *)
(***************************************************************************)
EXTENDS SdkSink, FiniteSetTheorems, SequenceTheorems, WellFoundedInduction, TLAPS

-----------------------------------------------------------------------------
(***************************************************************************)
(* Lemmas about queues, as what is in them.                                *)
(***************************************************************************)

\* A set of natural numbers that is not empty has a least element, whether it is
\* finite or not: the strict order of the natural numbers is well-founded.
LEMMA LeastOf ==
    ASSUME NEW S, S \subseteq Nat, S # {}
    PROVE  \E x \in S : \A y \in S : x <= y
<1> DEFINE R == OpToRel(<, Nat)
<1>1. IsWellFoundedOn(R, Nat)
  BY NatLessThanWellFounded
<1>2. PICK x \in S : \A y \in S : ~ (<<y, x>> \in R)
  <2> HIDE DEF R
  <2> QED
    BY <1>1, WFMin
<1>3. ASSUME NEW y \in S PROVE x <= y
  <2>1. x \in Nat /\ y \in Nat /\ ~ (<<y, x>> \in R)
    BY <1>2
  <2>2. ~ (y < x)
    BY <2>1 DEF OpToRel
  <2> HIDE DEF R
  <2> QED
    BY <2>1, <2>2
<1> QED
  BY <1>3

\* The items of a queue after an append.
LEMMA AppendItems ==
    ASSUME NEW S, NEW s \in Seq(S), NEW x \in S
    PROVE  /\ Append(s, x) \in Seq(S) /\ Append(s, x) # <<>>
           /\ Len(Append(s, x)) = Len(s) + 1
           /\ Range(Append(s, x)) = Range(s) \cup {x}
           /\ s # <<>> => Head(Append(s, x)) = Head(s)
           /\ IsInjective(s) /\ x \notin Range(s) => IsInjective(Append(s, x))
<1>1. Len(s) \in Nat /\ DOMAIN s = 1 .. Len(s) /\ (s # <<>> => Len(s) > 0)
  BY LenProperties, EmptySeq
<1>2. /\ Append(s, x) \in Seq(S) /\ Append(s, x) # <<>>
      /\ Len(Append(s, x)) = Len(s) + 1
      /\ \A i \in 1 .. Len(s) : Append(s, x)[i] = s[i]
      /\ Append(s, x)[Len(s) + 1] = x
  BY AppendProperties
<1> DEFINE t == Append(s, x)
<1>3. t \in Seq(S) /\ Len(t) = Len(s) + 1 /\ t[Len(s) + 1] = x /\ \A i \in 1 .. Len(s) : t[i] = s[i]
  BY <1>2
<1> HIDE DEF t
<1>4. DOMAIN t = 1 .. Len(s) + 1
  BY <1>3, LenProperties
<1>5. Range(t) = Range(s) \cup {x}
  BY <1>1, <1>3, <1>4 DEF Range
<1>6. IsInjective(s) /\ x \notin Range(s) => IsInjective(t)
  BY <1>1, <1>3, <1>4 DEF Range, IsInjective
<1>7. s # <<>> => Head(t) = Head(s)
  <2>1. t # <<>>
    BY <1>2 DEF t
  <2>2. Head(t) = t[1]
    BY <1>3, <2>1
  <2>3. s # <<>> => Head(s) = s[1]
    OBVIOUS
  <2> QED
    BY <1>1, <1>3, <2>2, <2>3
<1> QED
  BY <1>2, <1>5, <1>6, <1>7 DEF t

\* The items of a queue whose first is taken.
LEMMA TakeItems ==
    ASSUME NEW S, NEW s \in Seq(S), s # <<>>
    PROVE  /\ Head(s) \in S /\ Head(s) \in Range(s)
           /\ Tail(s) \in Seq(S) /\ Len(Tail(s)) = Len(s) - 1 /\ Len(s) \in Nat \ {0}
           /\ Range(s) = Range(Tail(s)) \cup {Head(s)}
           /\ IsInjective(s) => IsInjective(Tail(s)) /\ Head(s) \notin Range(Tail(s))
<1>1. Len(s) \in Nat \ {0} /\ DOMAIN s = 1 .. Len(s) /\ Head(s) = s[1]
  BY LenProperties, EmptySeq
<1>2. /\ Head(s) \in S /\ Tail(s) \in Seq(S) /\ Len(Tail(s)) = Len(s) - 1
      /\ \A i \in 1 .. Len(Tail(s)) : Tail(s)[i] = s[i + 1]
  BY HeadTailProperties
<1> DEFINE t == Tail(s)
           n == Len(s)
<1>3. DOMAIN t = 1 .. n - 1
  BY <1>2, LenProperties
<1>4. \A i \in 1 .. n - 1 : t[i] = s[i + 1]
  BY <1>2
<1>5. n \in Nat \ {0} /\ DOMAIN s = 1 .. n /\ Head(s) = s[1]
  BY <1>1
<1> HIDE DEF t, n
<1>6. Range(s) = Range(t) \cup {Head(s)}
  <2>1. ASSUME NEW i \in 1 .. n PROVE s[i] \in Range(t) \cup {Head(s)}
    <3>1. CASE i = 1
      BY <1>5, <3>1
    <3>2. CASE i # 1
      <4>1. i - 1 \in 1 .. n - 1 /\ t[i - 1] = s[i]
        BY <1>4, <1>5, <3>2
      <4> QED
        BY <1>3, <4>1 DEF Range
    <3> QED
      BY <3>1, <3>2
  <2>2. ASSUME NEW i \in 1 .. n - 1 PROVE t[i] \in Range(s)
    BY <1>4, <1>5 DEF Range
  <2>3. Head(s) \in Range(s)
    BY <1>5 DEF Range
  <2> QED
    BY <1>3, <1>5, <2>1, <2>2, <2>3 DEF Range
<1>7. ASSUME IsInjective(s) PROVE IsInjective(t) /\ Head(s) \notin Range(t)
  <2>1. \A i, j \in 1 .. n : s[i] = s[j] => i = j
    BY <1>5, <1>7 DEF IsInjective
  <2>2. \A i, j \in 1 .. n - 1 : t[i] = t[j] => i = j
    BY <1>4, <1>5, <2>1
  <2>3. \A i \in 1 .. n - 1 : t[i] # s[1]
    BY <1>4, <1>5, <2>1
  <2> QED
    BY <1>3, <1>5, <2>2, <2>3 DEF IsInjective, Range
<1>8. Head(s) \in Range(s)
  BY <1>6
<1> QED
  BY <1>1, <1>2, <1>6, <1>7, <1>8 DEF t

LEMMA NoItems == Range(<<>>) = {} /\ IsInjective(<<>>)
BY DEF Range, IsInjective

-----------------------------------------------------------------------------
(***************************************************************************)
(* The inductive invariant.  An item is in one place in memory; a line of  *)
(* the spool was counted; while one thread works alone, the lines that are *)
(* no longer in its hand were acknowledged.  Tried are the failed sends of *)
(* items that can never be sent: the clock ticks for each, and for each    *)
(* fault and each life.                                                    *)
(***************************************************************************)
Pcs == {"off", "gather", "send", "spool", "file", "lines"}

SenderRow == [pc : Pcs, batch : Seq(Items), attempt : 1 .. SEND_RETRY, path : Times,
              files : SUBSET Times, lines : Seq(Items)]

Types ==
    /\ queue \in Seq(Items) /\ Len(queue) <= QUEUE_MAX
    /\ senders \in [Threads -> SenderRow]
    /\ \A w \in Threads : Len(senders[w].batch) <= flush_batch
    /\ dropped \in [{"queue_full", "send_fail", "serialize"} -> SUBSET Items]
    /\ spool \in [Times -> Seq(Items)] /\ now \in Nat \ {0}
    /\ phase \in {"running", "stopping", "stopped"}
    /\ emitted \subseteq Items /\ perished \subseteq Items
    /\ broker \subseteq {"agent", "selfmonitor"} \X Items
    /\ faults \in 0 .. MaxFaults /\ lives \in 1 .. MaxLives

Batch(w) == senders[w].batch

RowShape(s) ==
    /\ s.pc \in {"off", "file", "lines"} => s.batch = <<>>
    /\ s.pc = "gather" \/ s.batch = <<>> => s.attempt = 1
    /\ s.pc = "spool" => s.batch # <<>> /\ Head(s.batch) \in dropped.send_fail
    /\ s.pc = "lines" => s.files # {}

Shape == \A w \in Threads : RowShape(senders[w])

\* The second thread works only in stop().
Alone == phase = "running" => At("stopper", "off")

OnePlace ==
    /\ IsInjective(queue) /\ \A w \in Threads : IsInjective(Batch(w))
    /\ \A w \in Threads : Range(queue) \cap Range(Batch(w)) = {}
    /\ \A w, x \in Threads : w # x => Range(Batch(w)) \cap Range(Batch(x)) = {}
    /\ InMemory \subseteq emitted

SpooledCounted == Spooled \subseteq dropped.send_fail

Told == {d[2] : d \in broker} \cup Counted \cup perished
AllTold == emitted \subseteq InMemory \cup Told

Spent == (Oversize \cap emitted) \ InMemory
TriedBy(w) ==
    {p \in Oversize \X (1 .. SEND_RETRY) :
        Batch(w) # <<>> /\ Current(w) = p[1] /\ p[2] < senders[w].attempt}
Tried == Spent \X (1 .. SEND_RETRY) \cup UNION {TriedBy(w) : w \in Threads}
Clocked == now <= lives + faults + Cardinality(Tried)

Replayed ==
    phase = "running" /\ At("flusher", "lines") =>
        \A e \in Range(spool[CurrentFile("flusher")]) :
            e \in Range(senders["flusher"].lines) \/ <<"agent", e>> \in broker

Inv ==
    /\ Types /\ Shape /\ Alone /\ OnePlace
    /\ SpooledCounted /\ AllTold /\ Clocked /\ Replayed

-----------------------------------------------------------------------------
(***************************************************************************)
(* The clock.  Times is long enough: no bound of the model stops the       *)
(* back-off.                                                               *)
(***************************************************************************)
LEMMA SinkConstants ==
    /\ IsFiniteSet(Oversize) /\ Cardinality(Oversize) \in Nat
    /\ SEND_RETRY \in Nat \ {0} /\ MaxFaults \in Nat /\ MaxLives \in Nat \ {0}
    /\ QUEUE_MAX \in Nat \ {0} /\ flush_batch \in Nat \ {0}
    /\ IsFiniteSet(Oversize \X (1 .. SEND_RETRY))
    /\ Cardinality(Oversize \X (1 .. SEND_RETRY)) = Cardinality(Oversize) * SEND_RETRY
    /\ Horizon \in Nat \ {0} /\ Times = 1 .. Horizon
<1>1. IsFiniteSet(Oversize) /\ Cardinality(Oversize) \in Nat
  BY SinkAssumption, FS_Subset, FS_CardinalityType
<1>2. SEND_RETRY \in Nat \ {0} /\ MaxFaults \in Nat /\ MaxLives \in Nat \ {0}
  BY SinkAssumption
<1>3. IsFiniteSet(1 .. SEND_RETRY) /\ Cardinality(1 .. SEND_RETRY) = SEND_RETRY
  BY <1>2, FS_Interval
<1>4. /\ IsFiniteSet(Oversize \X (1 .. SEND_RETRY))
      /\ Cardinality(Oversize \X (1 .. SEND_RETRY)) = Cardinality(Oversize) * SEND_RETRY
  BY <1>1, <1>3, FS_Product
<1>5. Cardinality(Oversize) * SEND_RETRY \in Nat
  BY <1>1, <1>2
<1> QED
  BY <1>1, <1>2, <1>4, <1>5, SinkAssumption DEF Horizon, Times

LEMMA TriedFinite ==
    /\ Tried \in SUBSET (Oversize \X (1 .. SEND_RETRY))
    /\ IsFiniteSet(Tried) /\ Cardinality(Tried) \in Nat
    /\ Cardinality(Tried) <= Cardinality(Oversize) * SEND_RETRY
<1>1. Tried \in SUBSET (Oversize \X (1 .. SEND_RETRY))
  BY DEF Tried, Spent, TriedBy
<1> QED
  BY <1>1, SinkConstants, FS_Subset, FS_CardinalityType

LEMMA InTimes == ASSUME Types, Clocked PROVE now \in Times
<1> DEFINE most == Cardinality(Oversize) * SEND_RETRY
<1>1. now \in Nat \ {0} /\ lives \in Nat /\ faults \in Nat /\ lives <= MaxLives /\ faults <= MaxFaults
  BY SinkConstants DEF Types
<1>2. now <= lives + faults + Cardinality(Tried)
  BY DEF Clocked
<1>3. Cardinality(Tried) \in Nat /\ Cardinality(Tried) <= most /\ most \in Nat
  BY TriedFinite, SinkConstants
<1>4. Horizon = MaxLives + MaxFaults + most /\ MaxLives \in Nat /\ MaxFaults \in Nat
  BY SinkConstants DEF Horizon
<1> HIDE DEF most
<1>5. now <= Horizon /\ Horizon \in Nat
  BY <1>1, <1>2, <1>3, <1>4
<1> QED
  BY <1>1, <1>5 DEF Times

\* The clock may go on by as much as faults, lives and failed sends do.
LEMMA ClockOn ==
    ASSUME Types, Types', Clocked, Tried \subseteq Tried',
           now' + faults + lives <= now + faults' + lives'
    PROVE  Clocked'
<1>1. IsFiniteSet(Tried') /\ Cardinality(Tried') \in Nat
  <2>1. Tried' \in SUBSET (Oversize \X (1 .. SEND_RETRY))
    BY DEF Tried, Spent, TriedBy
  <2> QED
    BY <2>1, SinkConstants, FS_Subset, FS_CardinalityType
<1>2. Cardinality(Tried) <= Cardinality(Tried') /\ Cardinality(Tried) \in Nat
  BY <1>1, TriedFinite, FS_Subset
<1>3. /\ now \in Nat /\ now' \in Nat /\ faults \in Nat /\ faults' \in Nat
      /\ lives \in Nat /\ lives' \in Nat
  BY SinkConstants DEF Types
<1>4. now <= lives + faults + Cardinality(Tried)
  BY DEF Clocked
<1>5. PICK c \in Nat : c = Cardinality(Tried)
  BY <1>2
<1>6. PICK d \in Nat : d = Cardinality(Tried')
  BY <1>1
<1>7. PICK n \in Nat, l \in Nat, f \in Nat : n = now' /\ l = lives' /\ f = faults'
  BY <1>3
<1>8. c <= d /\ now <= lives + faults + c /\ n + faults + lives <= now + f + l
  BY <1>2, <1>4, <1>5, <1>6, <1>7
<1>9. n <= l + f + d
  BY <1>3, <1>8
<1> QED
  BY <1>6, <1>7, <1>9 DEF Clocked

LEMMA ClockStill ==
    ASSUME Types, Types', Clocked, Tried \subseteq Tried', UNCHANGED <<now, faults, lives>>
    PROVE  Clocked'
<1>1. now \in Nat /\ faults \in Nat /\ lives \in Nat
  BY SinkConstants DEF Types
<1>2. now + faults + lives <= now + faults + lives
  BY <1>1
<1>3. now' + faults + lives <= now + faults' + lives'
  BY <1>2
<1> QED
  BY <1>3, ClockOn

-----------------------------------------------------------------------------
(***************************************************************************)
(* Steps of a thread that leave its batch alone.                           *)
(***************************************************************************)
LEMMA RowUpdate ==
    ASSUME Types, NEW w \in Threads, NEW s \in SenderRow, Becomes(w, s)
    PROVE  /\ senders' \in [Threads -> SenderRow]
           /\ \A x \in Threads : senders'[x] = IF x = w THEN s ELSE senders[x]
BY DEF Types, Becomes

\* What is in memory stays there, and what was tried is still tried.
LEMMA MemoryKept ==
    ASSUME Types, OnePlace, UNCHANGED <<queue, emitted>>,
           \A x \in Threads : /\ senders'[x].batch = senders[x].batch
                              /\ senders'[x].attempt >= senders[x].attempt
                              /\ senders'[x].attempt \in Nat /\ senders[x].attempt \in Nat
    PROVE  OnePlace' /\ InMemory' = InMemory /\ Spent' = Spent /\ Tried \subseteq Tried'
<1>1. \A x \in Threads : Batch(x)' = Batch(x) /\ (Current(x)' = Current(x))
  BY DEF Batch, Current
<1>2. InHand' = InHand
  BY DEF InHand
<1>3. InMemory' = InMemory
  BY <1>2 DEF InMemory
<1>4. OnePlace'
  BY <1>1, <1>3 DEF OnePlace
<1>5. Spent' = Spent
  BY <1>3 DEF Spent
<1>6. \A x \in Threads : TriedBy(x) \subseteq TriedBy(x)'
  <2> SUFFICES ASSUME NEW x \in Threads, NEW p \in TriedBy(x) PROVE p \in TriedBy(x)'
    OBVIOUS
  <2>1. /\ p \in Oversize \X (1 .. SEND_RETRY) /\ p[2] \in Nat
        /\ Batch(x) # <<>> /\ Current(x) = p[1] /\ p[2] < senders[x].attempt
    BY SinkConstants DEF TriedBy
  <2>2. p[2] < senders'[x].attempt
    BY <2>1
  <2> QED
    BY <1>1, <2>1, <2>2 DEF TriedBy
<1>7. Tried \subseteq Tried'
  BY <1>5, <1>6 DEF Tried
<1> QED
  BY <1>3, <1>4, <1>5, <1>7

LEMMA ToldGrows ==
    ASSUME broker \subseteq broker', perished \subseteq perished',
           dropped.queue_full \subseteq dropped'.queue_full,
           dropped.send_fail \subseteq dropped'.send_fail,
           dropped.serialize \subseteq dropped'.serialize
    PROVE  Told \subseteq Told' /\ Counted \subseteq Counted'
BY DEF Told, Counted

\* A running thread that is not off is the flusher, unless stop() was called.
LEMMA OnlyFlusher ==
    ASSUME Alone, phase = "running", NEW w \in Threads, ~At(w, "off")
    PROVE  w = "flusher"
BY DEF Alone, Threads

\* The common part of these steps: all of the invariant but the clock and the
\* lines in the flusher's hand.
LEMMA QuietStep ==
    ASSUME Inv, NEW w \in Threads, ~At(w, "off"), NEW s \in SenderRow, Becomes(w, s),
           s.batch = Batch(w), s.attempt >= senders[w].attempt, RowShape(s)',
           UNCHANGED <<queue, phase, emitted, perished, lives>>,
           broker \subseteq broker', broker' \subseteq {"agent", "selfmonitor"} \X Items,
           dropped' \in [{"queue_full", "send_fail", "serialize"} -> SUBSET Items],
           dropped.queue_full \subseteq dropped'.queue_full,
           dropped.send_fail \subseteq dropped'.send_fail,
           dropped.serialize \subseteq dropped'.serialize,
           spool' \in [Times -> Seq(Items)], Spooled' \subseteq Spooled,
           faults' \in 0 .. MaxFaults, now' \in Nat \ {0}
    PROVE  /\ Types' /\ Shape' /\ Alone' /\ OnePlace' /\ SpooledCounted' /\ AllTold'
           /\ Tried \subseteq Tried' /\ Spent' = Spent
<1>1. Types /\ OnePlace /\ Alone /\ Shape /\ AllTold /\ SpooledCounted
  BY DEF Inv
<1>2. /\ senders' \in [Threads -> SenderRow]
      /\ \A x \in Threads : senders'[x] = IF x = w THEN s ELSE senders[x]
  BY <1>1, RowUpdate
<1>3. \A x \in Threads : senders[x] \in SenderRow
  BY <1>1 DEF Types
<1>4. \A r \in SenderRow : r.attempt \in Nat
  BY SinkConstants DEF SenderRow
<1>5. \A x \in Threads : /\ senders'[x].batch = senders[x].batch
                         /\ senders'[x].attempt >= senders[x].attempt
                         /\ senders'[x].attempt \in Nat /\ senders[x].attempt \in Nat
  BY <1>2, <1>3, <1>4 DEF Batch
<1>6. Types'
  BY <1>1, <1>2, <1>5 DEF Types
<1>7. OnePlace' /\ InMemory' = InMemory /\ Spent' = Spent /\ Tried \subseteq Tried'
  BY <1>1, <1>5, MemoryKept
<1>8. Shape'
  <2> SUFFICES ASSUME NEW x \in Threads PROVE RowShape(senders[x])'
    BY DEF Shape
  <2>1. CASE x = w
    BY <1>2, <2>1
  <2>2. CASE x # w
    BY <1>1, <1>2, <2>2 DEF Shape, RowShape
  <2> QED
    BY <2>1, <2>2
<1>9. Alone'
  BY <1>1, <1>2, OnlyFlusher DEF Alone, At, Threads
<1>10. SpooledCounted'
  BY <1>1 DEF SpooledCounted
<1>11. AllTold'
  BY <1>1, <1>7, ToldGrows DEF AllTold
<1> QED
  BY <1>6, <1>7, <1>8, <1>9, <1>10, <1>11

\* A step after which the flusher has no lines in its hand.
LEMMA QuietEnd ==
    ASSUME Inv, NEW w \in Threads, ~At(w, "off"), NEW s \in SenderRow, Becomes(w, s),
           s.batch = Batch(w), s.attempt >= senders[w].attempt, RowShape(s)', s.pc # "lines",
           UNCHANGED <<queue, phase, emitted, perished, lives, now, spool>>,
           faults' \in 0 .. MaxFaults, faults' >= faults,
           broker \subseteq broker', broker' \subseteq {"agent", "selfmonitor"} \X Items,
           dropped' \in [{"queue_full", "send_fail", "serialize"} -> SUBSET Items],
           dropped.queue_full \subseteq dropped'.queue_full,
           dropped.send_fail \subseteq dropped'.send_fail,
           dropped.serialize \subseteq dropped'.serialize
    PROVE  Inv'
<1>1. Types
  BY DEF Inv
<1>2. Spooled' = Spooled
  BY DEF Spooled
<1>3. /\ Types' /\ Shape' /\ Alone' /\ OnePlace' /\ SpooledCounted' /\ AllTold'
      /\ Tried \subseteq Tried'
  BY <1>1, <1>2, QuietStep DEF Types
<1>4. now \in Nat /\ faults \in Nat /\ lives \in Nat /\ faults' \in Nat
  BY <1>1, SinkConstants DEF Types
<1>5. now' + faults + lives <= now + faults' + lives'
  <2>1. PICK f \in Nat : f = faults'
    BY <1>4
  <2>2. faults <= f
    BY <2>1
  <2>3. now \in Nat /\ faults \in Nat /\ lives \in Nat
    BY <1>4
  <2>4. now + faults + lives <= now + f + lives
    BY <2>2, <2>3
  <2> QED
    BY <2>1, <2>4
<1>6. Clocked'
  BY <1>1, <1>3, <1>5, ClockOn DEF Inv
<1>7. Replayed'
  <2>1. senders'[w].pc # "lines"
    BY <1>1, RowUpdate
  <2>2. phase = "running" => w = "flusher"
    BY OnlyFlusher DEF Inv
  <2> QED
    BY <2>1, <2>2 DEF Replayed, At
<1> QED
  BY <1>3, <1>6, <1>7 DEF Inv

LEMMA RowFields ==
    ASSUME Inv, NEW w \in Threads
    PROVE  /\ senders[w] \in SenderRow /\ RowShape(senders[w])
           /\ senders[w].pc \in Pcs /\ Batch(w) \in Seq(Items) /\ senders[w].attempt \in Nat
           /\ Batch(w) = senders[w].batch
           /\ senders[w].attempt \in 1 .. SEND_RETRY
           /\ senders[w].files \in SUBSET Times /\ senders[w].lines \in Seq(Items)
           /\ dropped \in [{"queue_full", "send_fail", "serialize"} -> SUBSET Items]
           /\ broker \subseteq {"agent", "selfmonitor"} \X Items
           /\ spool \in [Times -> Seq(Items)]
           /\ Batch(w) # <<>> => Current(w) \in Items
<1>1. senders[w] \in SenderRow /\ RowShape(senders[w])
  BY DEF Inv, Types, Shape
<1>2. Batch(w) \in Seq(Items)
  BY <1>1 DEF Batch, SenderRow
<1>3. Batch(w) # <<>> => Current(w) \in Items
  BY <1>2, TakeItems DEF Batch, Current
<1>4. \A n \in 1 .. SEND_RETRY : n \in Nat
  BY SinkConstants
<1> QED
  BY <1>1, <1>2, <1>3, <1>4 DEF Inv, Types, SenderRow, Batch

\* A failed send is a fault, or the item can never be sent.
LEMMA FailedSend ==
    ASSUME Inv, NEW topic \in {"agent", "selfmonitor"}, NEW e \in Items, Failed(topic, e)
    PROVE  /\ broker \subseteq broker' /\ broker' \subseteq {"agent", "selfmonitor"} \X Items
           /\ faults' \in 0 .. MaxFaults /\ faults' >= faults
           /\ e \notin Oversize => faults' = faults + 1
<1>1. faults \in 0 .. MaxFaults /\ broker \subseteq {"agent", "selfmonitor"} \X Items /\ MaxFaults \in Nat
  BY SinkConstants DEF Inv, Types
<1> QED
  BY <1>1 DEF Failed

LEMMA StepEndGather ==
    ASSUME Inv, NEW w \in Threads, EndGather(w) PROVE Inv'
<1>1. PICK s : s = [senders[w] EXCEPT !.pc = "send"]
  OBVIOUS
<1>2. /\ s \in SenderRow /\ s.batch = Batch(w) /\ s.attempt = senders[w].attempt
      /\ s.pc = "send"
  BY <1>1, RowFields DEF SenderRow, Pcs
<1>3. /\ Becomes(w, s) /\ ~At(w, "off") /\ senders[w].attempt = 1
      /\ UNCHANGED <<queue, dropped, spool, now, phase, emitted, perished, broker, faults, lives>>
  BY <1>1, RowFields DEF EndGather, At, RowShape
<1>4. RowShape(s)'
  BY <1>2, <1>3 DEF RowShape
<1>5. s.attempt >= senders[w].attempt /\ s.pc # "lines"
  BY <1>2, RowFields
<1>6. faults' \in 0 .. MaxFaults /\ faults' >= faults
  BY <1>3, SinkConstants DEF Inv, Types
<1> QED
  BY <1>2, <1>3, <1>4, <1>5, <1>6, RowFields, QuietEnd

LEMMA StepListSpool ==
    ASSUME Inv, NEW w \in Threads, ListSpool(w) PROVE Inv'
<1>1. PICK s : s = [senders[w] EXCEPT !.pc = "file", !.files = {t \in Times : spool[t] # <<>>}]
  OBVIOUS
<1>2. /\ s \in SenderRow /\ s.batch = Batch(w) /\ s.attempt = senders[w].attempt
      /\ s.pc = "file"
  BY <1>1, RowFields DEF SenderRow, Pcs
<1>3. /\ Becomes(w, s) /\ ~At(w, "off") /\ Batch(w) = <<>> /\ senders[w].attempt = 1
      /\ UNCHANGED <<queue, dropped, spool, now, phase, emitted, perished, broker, faults, lives>>
  BY <1>1, RowFields DEF ListSpool, At, Batch, RowShape
<1>4. RowShape(s)'
  BY <1>2, <1>3 DEF RowShape
<1>5. s.attempt >= senders[w].attempt /\ s.pc # "lines"
  BY <1>2, RowFields
<1>6. faults' \in 0 .. MaxFaults /\ faults' >= faults
  BY <1>3, SinkConstants DEF Inv, Types
<1> QED
  BY <1>2, <1>3, <1>4, <1>5, <1>6, RowFields, QuietEnd

\* A send that fails for good is counted before its line is written.
LEMMA StepGiveUp ==
    ASSUME Inv, NEW w \in Threads, GiveUp(w) PROVE Inv'
<1>1. PICK s : s = [senders[w] EXCEPT !.path = now, !.pc = "spool"]
  OBVIOUS
<1>2. now \in Times
  BY InTimes DEF Inv
<1>3. /\ s \in SenderRow /\ s.batch = Batch(w) /\ s.attempt = senders[w].attempt
      /\ s.pc = "spool"
  BY <1>1, <1>2, RowFields DEF SenderRow, Pcs
<1>4. /\ Becomes(w, s) /\ ~At(w, "off") /\ Batch(w) # <<>>
      /\ dropped' = [dropped EXCEPT !.send_fail = @ \cup {Current(w)}]
      /\ Failed(_target_topic(Current(w)), Current(w))
      /\ UNCHANGED <<queue, spool, now, phase, emitted, perished, lives>>
  BY <1>1 DEF GiveUp, ToSend, At, Batch
<1>5. Current(w) \in Items /\ Current(w) = Head(Batch(w))
  BY <1>4, RowFields DEF Current, Batch
<1>6. /\ dropped' \in [{"queue_full", "send_fail", "serialize"} -> SUBSET Items]
      /\ dropped.queue_full \subseteq dropped'.queue_full
      /\ dropped.send_fail \subseteq dropped'.send_fail
      /\ dropped.serialize \subseteq dropped'.serialize
      /\ Current(w) \in dropped'.send_fail
  BY <1>4, <1>5, RowFields
<1>7. RowShape(s)'
  BY <1>3, <1>4, <1>5, <1>6 DEF RowShape
<1>8. s.attempt >= senders[w].attempt /\ s.pc # "lines"
  BY <1>3, RowFields
<1>9. /\ broker \subseteq broker' /\ broker' \subseteq {"agent", "selfmonitor"} \X Items
      /\ faults' \in 0 .. MaxFaults /\ faults' >= faults
  BY <1>4, <1>5, FailedSend DEF _target_topic
<1> QED
  BY <1>3, <1>4, <1>6, <1>7, <1>8, <1>9, QuietEnd

\* A failed send of an item that can never be sent was not tried before: the item
\* is in no other place.
LEMMA TriedMore ==
    ASSUME Inv, NEW w \in Threads, Batch(w) # <<>>, Current(w) \in Oversize
    PROVE  <<Current(w), senders[w].attempt>> \notin Tried
<1> DEFINE e == Current(w)
           p == <<e, senders[w].attempt>>
<1>1. e \in Range(Batch(w))
  BY RowFields, TakeItems DEF Current, Batch
<1>2. p \notin Spent \X (1 .. SEND_RETRY)
  <2>1. e \in InMemory
    BY <1>1 DEF InMemory, InHand, Batch
  <2> QED
    BY <2>1 DEF Spent
<1>3. ASSUME NEW x \in Threads PROVE p \notin TriedBy(x)
  <2>1. CASE x = w
    <3>1. ~ (senders[w].attempt < senders[w].attempt)
      BY RowFields
    <3> QED
      BY <2>1, <3>1 DEF TriedBy
  <2>2. CASE x # w
    <3>1. Range(Batch(w)) \cap Range(Batch(x)) = {}
      BY <2>2 DEF Inv, OnePlace
    <3>2. Batch(x) # <<>> => Current(x) \in Range(Batch(x))
      BY RowFields, TakeItems DEF Current, Batch
    <3>3. Batch(x) # <<>> => Current(x) # e
      BY <1>1, <3>1, <3>2
    <3> QED
      BY <3>3 DEF TriedBy
  <2> QED
    BY <2>1, <2>2
<1> QED
  BY <1>2, <1>3 DEF Tried

LEMMA StepBackOff ==
    ASSUME Inv, NEW w \in Threads, BackOff(w) PROVE Inv'
<1> DEFINE e == Current(w)
<1>1. PICK s : s = [senders[w] EXCEPT !.attempt = @ + 1]
  OBVIOUS
<1>2. senders[w].attempt \in 1 .. SEND_RETRY /\ senders[w].attempt < SEND_RETRY /\ Batch(w) # <<>>
  BY RowFields DEF BackOff, ToSend, Batch
<1>3. senders[w].attempt + 1 \in 1 .. SEND_RETRY
  BY <1>2, SinkConstants
<1>4. /\ s \in SenderRow /\ s.batch = Batch(w) /\ s.attempt = senders[w].attempt + 1
      /\ s.pc = senders[w].pc
  BY <1>1, <1>3, RowFields DEF SenderRow, Pcs
<1>5. /\ Becomes(w, s) /\ ~At(w, "off") /\ senders[w].pc = "send"
      /\ Failed(_target_topic(e), e) /\ now' = now + 1
      /\ UNCHANGED <<queue, dropped, spool, phase, emitted, perished, lives>>
  BY <1>1 DEF BackOff, ToSend, At
<1>6. e \in Items
  BY <1>2, RowFields
<1>7. /\ broker \subseteq broker' /\ broker' \subseteq {"agent", "selfmonitor"} \X Items
      /\ faults' \in 0 .. MaxFaults /\ faults' >= faults
      /\ e \notin Oversize => faults' = faults + 1
  BY <1>5, <1>6, FailedSend DEF _target_topic
<1>8. RowShape(s)'
  BY <1>2, <1>4, <1>5 DEF RowShape
<1>9. s.attempt >= senders[w].attempt
  BY <1>2, <1>4, SinkConstants
<1>10. now \in Nat /\ now' \in Nat \ {0}
  BY <1>5 DEF Inv, Types
<1>11. /\ Types' /\ Shape' /\ Alone' /\ OnePlace' /\ SpooledCounted' /\ AllTold'
       /\ Tried \subseteq Tried' /\ Spent' = Spent
  <2>1. Spooled' = Spooled
    BY <1>5 DEF Spooled
  <2> QED
    BY <1>4, <1>5, <1>7, <1>8, <1>9, <1>10, <2>1, RowFields, QuietStep
<1>12. /\ Cardinality(Tried) \in Nat /\ Cardinality(Tried') \in Nat
       /\ IsFiniteSet(Tried) /\ IsFiniteSet(Tried')
       /\ Cardinality(Tried) <= Cardinality(Tried')
  <2>1. Tried' \in SUBSET (Oversize \X (1 .. SEND_RETRY))
    BY DEF Tried, Spent, TriedBy
  <2>2. IsFiniteSet(Tried') /\ Cardinality(Tried') \in Nat
    BY <2>1, SinkConstants, FS_Subset, FS_CardinalityType
  <2> QED
    BY <1>11, <2>2, TriedFinite, FS_Subset
<1>13. e \in Oversize => Cardinality(Tried) + 1 <= Cardinality(Tried')
  <2> SUFFICES ASSUME e \in Oversize PROVE Cardinality(Tried) + 1 <= Cardinality(Tried')
    OBVIOUS
  <2> DEFINE p == <<e, senders[w].attempt>>
  <2>1. p \notin Tried
    BY <1>2, TriedMore
  <2>2. p \in Tried'
    <3>1. senders'[w].batch = Batch(w) /\ senders'[w].attempt = senders[w].attempt + 1
      BY <1>4, <1>5, RowUpdate DEF Inv
    <3>2. senders[w].attempt < senders'[w].attempt
      BY <1>2, <3>1, SinkConstants
    <3>3. Batch(w)' = Batch(w) /\ Current(w)' = e
      BY <3>1 DEF Batch, Current
    <3>4. p \in Oversize \X (1 .. SEND_RETRY) /\ p[1] = e /\ p[2] = senders[w].attempt
      BY <1>2
    <3>5. p \in TriedBy(w)'
      <4> HIDE DEF p, e
      <4> QED
        BY <1>2, <3>2, <3>3, <3>4 DEF TriedBy
    <3> QED
      BY <3>5 DEF Tried
  <2>3. Tried \cup {p} \in SUBSET Tried'
    BY <1>11, <2>2
  <2>4. Cardinality(Tried \cup {p}) = Cardinality(Tried) + 1
    BY <1>12, <2>1, FS_AddElement
  <2>5. Cardinality(Tried \cup {p}) <= Cardinality(Tried')
    BY <1>12, <2>3, FS_Subset
  <2> QED
    BY <2>4, <2>5
<1>14. Clocked'
  <2>1. PICK c \in Nat, d \in Nat : c = Cardinality(Tried) /\ d = Cardinality(Tried')
    BY <1>12
  <2>2. faults \in Nat /\ lives \in Nat /\ now \in Nat /\ now <= lives + faults + c
    BY <2>1, SinkConstants DEF Inv, Types, Clocked
  <2>3. PICK f \in Nat : f = faults'
    BY <1>7, SinkConstants
  <2>4. c <= d /\ f >= faults /\ (c + 1 <= d \/ f = faults + 1)
    BY <1>7, <1>12, <1>13, <2>1, <2>3
  <2>5. now + 1 <= lives + f + d
    BY <2>2, <2>4
  <2> QED
    BY <1>5, <2>1, <2>3, <2>5 DEF Clocked
<1>15. Replayed'
  <2>1. senders'[w].pc # "lines"
    BY <1>4, <1>5, RowUpdate DEF Inv
  <2>2. phase = "running" => w = "flusher"
    BY <1>5, OnlyFlusher DEF Inv
  <2> QED
    BY <1>5, <2>1, <2>2 DEF Replayed, At
<1> QED
  BY <1>11, <1>14, <1>15 DEF Inv

-----------------------------------------------------------------------------
(***************************************************************************)
(* The replay of the spool.                                                *)
(***************************************************************************)
LEMMA FirstFile ==
    ASSUME Inv, NEW w \in Threads, senders[w].files # {}
    PROVE  CurrentFile(w) \in senders[w].files /\ CurrentFile(w) \in Times
<1>1. senders[w].files \in SUBSET Times /\ senders[w].files \subseteq Nat
  BY RowFields, SinkConstants
<1>2. \E t \in senders[w].files : \A u \in senders[w].files : t <= u
  BY <1>1, LeastOf
<1> QED
  BY <1>1, <1>2 DEF CurrentFile

\* A step of the replay leaves the clock and the queue alone.  What it must show
\* is that the lines not yet acknowledged are still in the thread's hand.
LEMMA ReplayStep ==
    ASSUME Inv, NEW w \in Threads, ~At(w, "off"), NEW s \in SenderRow, Becomes(w, s),
           s.batch = Batch(w), s.attempt = senders[w].attempt, RowShape(s),
           UNCHANGED <<queue, dropped, phase, emitted, perished, lives, now>>,
           broker \subseteq broker', broker' \subseteq {"agent", "selfmonitor"} \X Items,
           spool' \in [Times -> Seq(Items)], Spooled' \subseteq Spooled,
           faults' \in 0 .. MaxFaults, faults' >= faults,
           w = "flusher" => Replayed'
    PROVE  Inv'
<1>1. Types
  BY DEF Inv
<1>2. s.attempt >= senders[w].attempt
  BY RowFields
<1>3. RowShape(s)'
  BY DEF RowShape
<1>4. /\ Types' /\ Shape' /\ Alone' /\ OnePlace' /\ SpooledCounted' /\ AllTold'
      /\ Tried \subseteq Tried'
  BY <1>1, <1>2, <1>3, QuietStep DEF Types
<1>5. now' + faults + lives <= now + faults' + lives'
  <2>1. now \in Nat /\ faults \in Nat /\ lives \in Nat
    BY <1>1, SinkConstants DEF Types
  <2>2. PICK f \in Nat : f = faults'
    BY SinkConstants
  <2>3. faults <= f
    BY <2>2
  <2>4. now + faults + lives <= now + f + lives
    BY <2>1, <2>3
  <2> QED
    BY <2>2, <2>4
<1>6. Clocked'
  BY <1>1, <1>4, <1>5, ClockOn DEF Inv
<1>7. Replayed'
  <2>1. phase = "running" => w = "flusher"
    BY OnlyFlusher DEF Inv
  <2> QED
    BY <2>1 DEF Replayed
<1> QED
  BY <1>4, <1>6, <1>7 DEF Inv

LEMMA StepReadFile ==
    ASSUME Inv, NEW w \in Threads, ReadFile(w) PROVE Inv'
<1> DEFINE f == CurrentFile(w)
<1>1. PICK s : s = [senders[w] EXCEPT !.pc = "lines", !.lines = spool[f]]
  OBVIOUS
<1>2. /\ Becomes(w, s) /\ ~At(w, "off") /\ senders[w].pc = "file" /\ senders[w].files # {}
      /\ UNCHANGED <<queue, dropped, spool, now, phase, emitted, perished, broker, faults, lives>>
  BY <1>1 DEF ReadFile, FileThere, At
<1>3. f \in Times /\ spool[f] \in Seq(Items)
  BY <1>2, FirstFile, RowFields
<1>4. /\ s \in SenderRow /\ s.batch = Batch(w) /\ s.attempt = senders[w].attempt
      /\ s.pc = "lines" /\ s.files = senders[w].files /\ s.lines = spool[f]
  <2> HIDE DEF f
  <2> QED
    BY <1>1, <1>3, RowFields DEF SenderRow, Pcs
<1>5. RowShape(s)
  BY <1>2, <1>4, RowFields DEF RowShape
<1>6. Replayed'
  <2>1. senders'["flusher"].lines = spool[CurrentFile("flusher")] \/ w # "flusher"
    BY <1>2, <1>4, RowUpdate DEF Inv
  <2>2. CurrentFile(w)' = f
    <3>1. senders'[w].files = senders[w].files
      BY <1>2, <1>4, RowUpdate DEF Inv
    <3> QED
      BY <3>1 DEF CurrentFile
  <2>3. phase = "running" => w = "flusher"
    BY <1>2, OnlyFlusher DEF Inv
  <2> QED
    BY <1>2, <2>1, <2>2, <2>3 DEF Replayed
<1>7. /\ Spooled' \subseteq Spooled /\ spool' \in [Times -> Seq(Items)]
      /\ faults' \in 0 .. MaxFaults /\ faults' >= faults
      /\ broker \subseteq broker' /\ broker' \subseteq {"agent", "selfmonitor"} \X Items
  BY <1>2, RowFields, SinkConstants DEF Spooled, Inv, Types
<1> QED
  BY <1>2, <1>4, <1>5, <1>6, <1>7, ReplayStep

LEMMA FreshRows ==
    /\ Gathering = [pc |-> "gather", batch |-> <<>>, attempt |-> 1, path |-> 1, files |-> {},
                    lines |-> <<>>]
    /\ Off \in SenderRow /\ Gathering \in SenderRow
<1>1. 1 \in Times /\ 1 \in 1 .. SEND_RETRY /\ <<>> \in Seq(Items)
  BY SinkConstants, EmptySeq
<1>2. Gathering = [pc |-> "gather", batch |-> <<>>, attempt |-> 1, path |-> 1, files |-> {},
                   lines |-> <<>>]
  <2>1. \A b : [[pc |-> "off", batch |-> b, attempt |-> 1, path |-> 1, files |-> {},
                 lines |-> b] EXCEPT !.pc = "gather"] =
                [pc |-> "gather", batch |-> b, attempt |-> 1, path |-> 1, files |-> {},
                 lines |-> b]
    OBVIOUS
  <2> QED
    BY <2>1 DEF Gathering, Off
<1>3. Off \in SenderRow
  BY <1>1 DEF Off, SenderRow, Pcs
<1>4. Gathering \in SenderRow
  BY <1>1, <1>2 DEF SenderRow, Pcs
<1> QED
  BY <1>2, <1>3, <1>4

\* The next round of the flusher, or the end of a thread.
LEMMA RoundOver ==
    ASSUME Inv, NEW w \in Threads, senders[w].pc \in {"file", "lines"},
           NEW s, s = AfterRound(w)
    PROVE  /\ s \in SenderRow /\ s.batch = Batch(w) /\ s.attempt = senders[w].attempt
           /\ s.pc # "lines" /\ RowShape(s)
<1>1. s = Off \/ s = Gathering
  BY DEF AfterRound
<1>2. Batch(w) = <<>>
  BY RowFields DEF RowShape
<1>3. s \in SenderRow /\ s.batch = <<>> /\ s.attempt = 1 /\ s.pc \in {"off", "gather"}
  <2>1. CASE s = Off
    BY <2>1, FreshRows DEF Off
  <2>2. CASE s = Gathering
    BY <2>2, FreshRows
  <2> QED
    BY <1>1, <2>1, <2>2
<1>4. senders[w].attempt = 1
  BY <1>2, RowFields DEF RowShape
<1> QED
  BY <1>2, <1>3, <1>4 DEF RowShape

LEMMA StepEndRound ==
    ASSUME Inv, NEW w \in Threads, EndRound(w) \/ ReplayFails(w) PROVE Inv'
<1>1. PICK s : s = AfterRound(w)
  OBVIOUS
<1>2. /\ Becomes(w, s) /\ senders[w].pc \in {"file", "lines"} /\ ~At(w, "off")
      /\ UNCHANGED <<queue, dropped, spool, now, phase, emitted, perished, lives>>
  BY <1>1 DEF EndRound, ReplayFails, At
<1>3. /\ s \in SenderRow /\ s.batch = Batch(w) /\ s.attempt = senders[w].attempt
      /\ s.pc # "lines" /\ RowShape(s)
  BY <1>1, <1>2, RoundOver
<1>4. /\ broker \subseteq broker' /\ broker' \subseteq {"agent", "selfmonitor"} \X Items
      /\ faults' \in 0 .. MaxFaults /\ faults' >= faults
  <2>1. CASE EndRound(w)
    BY <2>1, RowFields, SinkConstants DEF EndRound, Inv, Types
  <2>2. CASE ReplayFails(w)
    <3>1. Head(senders[w].lines) \in Items /\ Failed("agent", Head(senders[w].lines))
      BY <2>2, RowFields, TakeItems DEF ReplayFails
    <3> QED
      BY <3>1, FailedSend
  <2> QED
    BY <1>2, <2>1, <2>2 DEF EndRound, ReplayFails
<1>5. w = "flusher" => Replayed'
  BY <1>2, <1>3, RowUpdate DEF Inv, Replayed, At
<1>6. Spooled' \subseteq Spooled /\ spool' \in [Times -> Seq(Items)]
  BY <1>2, RowFields DEF Spooled
<1> QED
  BY <1>2, <1>3, <1>4, <1>5, <1>6, ReplayStep

\* A line leaves the hand of the thread when Kafka has acknowledged it.
LEMMA StepSendOnce ==
    ASSUME Inv, NEW w \in Threads, _send_once(w) PROVE Inv'
<1> DEFINE lines == senders[w].lines
<1>1. PICK s : s = [senders[w] EXCEPT !.lines = Tail(@)]
  OBVIOUS
<1>2. /\ Becomes(w, s) /\ senders[w].pc = "lines" /\ ~At(w, "off") /\ lines # <<>>
      /\ broker' = broker \cup {<<"agent", Head(lines)>>}
      /\ UNCHANGED <<queue, dropped, spool, now, phase, emitted, perished, lives, faults>>
  BY <1>1 DEF _send_once, Acked, At
<1>3. /\ lines \in Seq(Items) /\ Head(lines) \in Items /\ Tail(lines) \in Seq(Items)
      /\ Range(lines) = Range(Tail(lines)) \cup {Head(lines)}
  BY <1>2, RowFields, TakeItems
<1>4. /\ s \in SenderRow /\ s.batch = Batch(w) /\ s.attempt = senders[w].attempt
      /\ s.pc = "lines" /\ s.files = senders[w].files /\ s.lines = Tail(lines)
  BY <1>1, <1>2, <1>3, RowFields DEF SenderRow, Pcs
<1>5. RowShape(s)
  BY <1>2, <1>4, RowFields DEF RowShape, Batch
<1>6. w = "flusher" => Replayed'
  <2> SUFFICES ASSUME w = "flusher", phase = "running",
                      NEW e \in Range(spool[CurrentFile("flusher")])
               PROVE  e \in Range(s.lines) \/ <<"agent", e>> \in broker'
    <3>1. senders'[w] = s
      BY <1>2, <1>4, RowUpdate DEF Inv
    <3>2. CurrentFile(w)' = CurrentFile(w)
      BY <1>4, <3>1 DEF CurrentFile
    <3> QED
      BY <1>2, <3>1, <3>2 DEF Replayed
  <2>1. e \in Range(lines) \/ <<"agent", e>> \in broker
    BY <1>2 DEF Inv, Replayed, At
  <2> QED
    BY <1>2, <1>3, <1>4, <2>1
<1>7. /\ broker \subseteq broker' /\ broker' \subseteq {"agent", "selfmonitor"} \X Items
      /\ faults' \in 0 .. MaxFaults /\ faults' >= faults
      /\ Spooled' \subseteq Spooled /\ spool' \in [Times -> Seq(Items)]
  BY <1>2, <1>3, RowFields, SinkConstants DEF Spooled, Inv, Types
<1> QED
  BY <1>2, <1>4, <1>5, <1>6, <1>7, ReplayStep

LEMMA StepRemoveFile ==
    ASSUME Inv, NEW w \in Threads, RemoveFile(w) PROVE Inv'
<1> DEFINE f == CurrentFile(w)
<1>1. /\ senders[w].pc = "lines" /\ ~At(w, "off") /\ senders[w].files # {}
      /\ spool' = [spool EXCEPT ![f] = <<>>]
      /\ UNCHANGED <<queue, dropped, now, phase, emitted, perished, broker, faults, lives>>
  BY RowFields DEF RemoveFile, At, RowShape
<1>2. PICK s : /\ Becomes(w, s)
               /\ \/ s = [senders[w] EXCEPT !.pc = "file", !.files = @ \ {f}]
                  \/ s = AfterRound(w)
  BY DEF RemoveFile
<1>3. /\ s \in SenderRow /\ s.batch = Batch(w) /\ s.attempt = senders[w].attempt
      /\ s.pc # "lines" /\ RowShape(s)
  <2>1. CASE s = AfterRound(w)
    BY <1>1, <2>1, RoundOver
  <2>2. CASE s = [senders[w] EXCEPT !.pc = "file", !.files = @ \ {f}]
    <3>1. /\ s \in SenderRow /\ s.batch = Batch(w) /\ s.attempt = senders[w].attempt
          /\ s.pc = "file"
      BY <2>2, RowFields DEF SenderRow, Pcs
    <3> QED
      BY <1>1, <3>1, RowFields DEF RowShape, Batch
  <2> QED
    BY <1>2, <2>1, <2>2
<1>4. f \in Times
  BY <1>1, FirstFile
<1>5. /\ spool' \in [Times -> Seq(Items)]
      /\ \A t \in Times : spool'[t] = IF t = f THEN <<>> ELSE spool[t]
  <2>1. <<>> \in Seq(Items)
    BY EmptySeq
  <2> HIDE DEF f
  <2> QED
    BY <1>1, <1>4, <2>1, RowFields
<1>6. Spooled' \subseteq Spooled
  BY <1>5, NoItems DEF Spooled
<1>7. w = "flusher" => Replayed'
  <2>1. Becomes(w, s) /\ s \in SenderRow /\ s.pc # "lines" /\ Types
    BY <1>2, <1>3 DEF Inv
  <2>2. senders'[w].pc # "lines"
    BY <2>1, RowUpdate
  <2> QED
    BY <2>2 DEF Replayed, At
<1>8. /\ broker \subseteq broker' /\ broker' \subseteq {"agent", "selfmonitor"} \X Items
      /\ faults' \in 0 .. MaxFaults /\ faults' >= faults
  BY <1>1, RowFields, SinkConstants DEF Inv, Types
<1> QED
  BY <1>1, <1>2, <1>3, <1>5, <1>6, <1>7, <1>8, ReplayStep

-----------------------------------------------------------------------------
(***************************************************************************)
(* Steps that move an item.                                                *)
(***************************************************************************)

\* What is in memory, by place.
LEMMA Places ==
    /\ InHand = Range(Batch("flusher")) \cup Range(Batch("stopper"))
    /\ \A w \in Threads : Range(Batch(w)) \subseteq InMemory
    /\ Range(queue) \subseteq InMemory
    /\ InMemory = Range(queue) \cup Range(Batch("flusher")) \cup Range(Batch("stopper"))
BY DEF InHand, InMemory, Batch, Threads

LEMMA PlacesNext ==
    /\ \A w \in Threads : Range(Batch(w)') \subseteq InMemory'
    /\ InMemory' = Range(queue') \cup Range(Batch("flusher")') \cup Range(Batch("stopper")')
BY DEF InHand, InMemory, Batch, Threads

\* The head of a batch is done with: it is told of, or was sent.
LEMMA DoneStep ==
    ASSUME Inv, NEW w \in Threads, Batch(w) # <<>>, senders[w].pc \in {"send", "spool"},
           Becomes(w, Done(senders[w])),
           UNCHANGED <<queue, now, phase, emitted, perished, lives, faults>>,
           broker \subseteq broker', broker' \subseteq {"agent", "selfmonitor"} \X Items,
           dropped' \in [{"queue_full", "send_fail", "serialize"} -> SUBSET Items],
           dropped.queue_full \subseteq dropped'.queue_full,
           dropped.send_fail \subseteq dropped'.send_fail,
           dropped.serialize \subseteq dropped'.serialize,
           spool' \in [Times -> Seq(Items)], SpooledCounted',
           Current(w) \in Told'
    PROVE  Inv'
<1> DEFINE e == Current(w)
<1>1. PICK s : s = Done(senders[w])
  OBVIOUS
<1>2. /\ Batch(w) \in Seq(Items) /\ e = Head(Batch(w)) /\ e \in Items
      /\ Tail(Batch(w)) \in Seq(Items) /\ Len(Tail(Batch(w))) = Len(Batch(w)) - 1
      /\ Len(Batch(w)) \in Nat \ {0}
      /\ Range(Batch(w)) = Range(Tail(Batch(w))) \cup {e}
      /\ IsInjective(Tail(Batch(w))) /\ e \notin Range(Tail(Batch(w)))
  <2>1. IsInjective(Batch(w))
    BY DEF Inv, OnePlace
  <2>2. Batch(w) \in Seq(Items) /\ e = Head(Batch(w))
    BY RowFields DEF Current, Batch
  <2> HIDE DEF e
  <2> QED
    BY <2>1, <2>2, TakeItems
<1>3. /\ s \in SenderRow /\ s.batch = Tail(Batch(w)) /\ s.attempt = 1 /\ s.pc = "send"
  <2>1. 1 \in 1 .. SEND_RETRY
    BY SinkConstants
  <2>2. s = [senders[w] EXCEPT !.batch = Tail(Batch(w)), !.attempt = 1, !.pc = "send"]
    BY <1>1 DEF Done, Batch
  <2> QED
    BY <1>2, <2>1, <2>2, RowFields DEF SenderRow, Pcs
<1>4. Types /\ OnePlace /\ Alone /\ Shape /\ AllTold
  BY DEF Inv
<1>5. /\ senders' \in [Threads -> SenderRow]
      /\ \A x \in Threads : senders'[x] = IF x = w THEN s ELSE senders[x]
  <2>1. Becomes(w, s)
    BY <1>1
  <2> QED
    BY <1>3, <1>4, <2>1, RowUpdate
<1>6. \A x \in Threads : Len(senders'[x].batch) <= flush_batch
  <2>1. Len(Tail(Batch(w))) <= flush_batch
    BY <1>2, <1>4, SinkConstants DEF Types, Batch
  <2> QED
    BY <1>3, <1>4, <1>5, <2>1 DEF Types
<1>7. Types'
  BY <1>4, <1>5, <1>6 DEF Types
<1>8. /\ Batch(w)' = Tail(Batch(w))
      /\ \A x \in Threads \ {w} : Batch(x)' = Batch(x) /\ Current(x)' = Current(x)
      /\ \A x \in Threads \ {w} : senders'[x].attempt = senders[x].attempt
  BY <1>3, <1>5 DEF Batch, Current
<1>9. /\ e \in InMemory /\ e \notin InMemory' /\ InMemory = InMemory' \cup {e}
  <2>1. e \in Range(Batch(w)) /\ e \notin Range(queue)
    BY <1>2, <1>4 DEF OnePlace
  <2>2. \A x \in Threads \ {w} : e \notin Range(Batch(x))
    BY <1>4, <2>1 DEF OnePlace
  <2>3. InMemory' = Range(queue) \cup Range(Batch("flusher")') \cup Range(Batch("stopper")')
    BY PlacesNext
  <2>4. CASE w = "flusher"
    <3>1. Batch("stopper")' = Batch("stopper") /\ e \notin Range(Batch("stopper"))
      BY <1>8, <2>2, <2>4 DEF Threads
    <3> HIDE DEF e
    <3> QED
      BY <1>2, <1>8, <2>1, <2>3, <2>4, <3>1, Places
  <2>5. CASE w = "stopper"
    <3>1. Batch("flusher")' = Batch("flusher") /\ e \notin Range(Batch("flusher"))
      BY <1>8, <2>2, <2>5 DEF Threads
    <3> HIDE DEF e
    <3> QED
      BY <1>2, <1>8, <2>1, <2>3, <2>5, <3>1, Places
  <2> QED
    BY <2>4, <2>5 DEF Threads
<1> HIDE DEF e
<1>10. OnePlace'
  <2>1. ASSUME NEW x \in Threads
        PROVE  Range(Batch(x)') \subseteq Range(Batch(x)) /\ IsInjective(Batch(x)')
    <3>1. CASE x = w
      BY <1>2, <1>8, <3>1
    <3>2. CASE x # w
      BY <1>4, <1>8, <3>2 DEF OnePlace
    <3> QED
      BY <3>1, <3>2
  <2>2. InMemory' \subseteq emitted
    BY <1>4, <1>9 DEF OnePlace
  <2> QED
    BY <1>4, <2>1, <2>2 DEF OnePlace
<1>11. AllTold'
  BY <1>4, <1>9, ToldGrows DEF AllTold, e
<1>12. Tried \subseteq Tried'
  <2>1. Spent \subseteq Spent' /\ (e \in Oversize => e \in Spent')
    BY <1>4, <1>9 DEF Spent, OnePlace
  <2>2. \A x \in Threads \ {w} : TriedBy(x) \subseteq TriedBy(x)'
    BY <1>8 DEF TriedBy
  <2>3. TriedBy(w) \subseteq Spent' \X (1 .. SEND_RETRY)
    BY <2>1 DEF TriedBy, e
  <2> QED
    BY <2>1, <2>2, <2>3 DEF Tried
<1>13. Clocked'
  BY <1>4, <1>7, <1>12, ClockStill DEF Inv
<1>14. Shape'
  <2> SUFFICES ASSUME NEW x \in Threads PROVE RowShape(senders[x])'
    BY DEF Shape
  <2>1. CASE x = w
    BY <1>3, <1>5, <2>1 DEF RowShape
  <2>2. CASE x # w
    BY <1>4, <1>5, <2>2 DEF Shape, RowShape
  <2> QED
    BY <2>1, <2>2
<1>15. phase = "running" => w = "flusher"
  BY <1>4, OnlyFlusher DEF At
<1>16. Alone' /\ Replayed'
  BY <1>3, <1>4, <1>5, <1>15 DEF Alone, Replayed, At, Threads
<1> QED
  BY <1>7, <1>10, <1>11, <1>13, <1>14, <1>16 DEF Inv

LEMMA StepUnserializable ==
    ASSUME Inv, NEW w \in Threads, Unserializable(w) PROVE Inv'
<1>1. /\ Batch(w) # <<>> /\ senders[w].pc = "send" /\ Becomes(w, Done(senders[w]))
      /\ dropped' = [dropped EXCEPT !.serialize = @ \cup {Current(w)}]
      /\ UNCHANGED <<queue, spool, now, phase, emitted, perished, broker, faults, lives>>
  BY DEF Unserializable, ToSend, At, Batch
<1>2. /\ dropped' \in [{"queue_full", "send_fail", "serialize"} -> SUBSET Items]
      /\ dropped.queue_full \subseteq dropped'.queue_full
      /\ dropped.send_fail = dropped'.send_fail
      /\ dropped.serialize \subseteq dropped'.serialize
      /\ Current(w) \in dropped'.serialize
  BY <1>1, RowFields
<1>3. Current(w) \in Told'
  BY <1>2 DEF Told, Counted
<1>4. SpooledCounted'
  BY <1>1, <1>2 DEF Inv, SpooledCounted, Spooled
<1>5. broker \subseteq broker' /\ broker' \subseteq {"agent", "selfmonitor"} \X Items
      /\ spool' \in [Times -> Seq(Items)]
  BY <1>1, RowFields
<1> QED
  BY <1>1, <1>2, <1>3, <1>4, <1>5, DoneStep

LEMMA StepSendAcked ==
    ASSUME Inv, NEW w \in Threads, SendAcked(w) PROVE Inv'
<1> DEFINE topic == _target_topic(Current(w))
<1>1. /\ Batch(w) # <<>> /\ senders[w].pc = "send" /\ Becomes(w, Done(senders[w]))
      /\ broker' = broker \cup {<<topic, Current(w)>>}
      /\ UNCHANGED <<queue, dropped, spool, now, phase, emitted, perished, faults, lives>>
  BY DEF SendAcked, Acked, ToSend, At, Batch
<1>2. topic \in {"agent", "selfmonitor"} /\ Current(w) \in Items
  BY <1>1, RowFields DEF _target_topic
<1> HIDE DEF topic
<1>3. broker \subseteq broker' /\ broker' \subseteq {"agent", "selfmonitor"} \X Items
  BY <1>1, <1>2, RowFields
<1>4. Current(w) \in Told'
  <2>1. PICK d : d = <<topic, Current(w)>>
    OBVIOUS
  <2>2. d \in broker' /\ d[2] = Current(w)
    BY <1>1, <2>1
  <2> QED
    BY <2>2 DEF Told
<1>5. SpooledCounted'
  BY <1>1 DEF Inv, SpooledCounted, Spooled
<1>6. /\ dropped' \in [{"queue_full", "send_fail", "serialize"} -> SUBSET Items]
      /\ dropped.queue_full \subseteq dropped'.queue_full
      /\ dropped.send_fail \subseteq dropped'.send_fail
      /\ dropped.serialize \subseteq dropped'.serialize
      /\ spool' \in [Times -> Seq(Items)]
  BY <1>1, RowFields
<1> QED
  BY <1>1, <1>3, <1>4, <1>5, <1>6, DoneStep

\* The line that is written was counted before.
LEMMA Step_spool_write ==
    ASSUME Inv, NEW w \in Threads, _spool_write(w) PROVE Inv'
<1> DEFINE e == Current(w)
           t == senders[w].path
<1>1. /\ Batch(w) # <<>> /\ senders[w].pc = "spool" /\ Becomes(w, Done(senders[w]))
      /\ e \in dropped.send_fail /\ e \in Items /\ t \in Times
      /\ spool' = [spool EXCEPT ![t] = Append(@, e)] \/ UNCHANGED spool
      /\ UNCHANGED <<queue, dropped, now, phase, emitted, perished, broker, faults, lives>>
  BY RowFields DEF _spool_write, At, RowShape, Batch, Current, SenderRow
<1> HIDE DEF e, t
<1>2. spool' \in [Times -> Seq(Items)] /\ Spooled' \subseteq Spooled \cup {e}
  <2>1. CASE UNCHANGED spool
    BY <2>1, RowFields DEF Spooled
  <2>2. CASE spool' = [spool EXCEPT ![t] = Append(@, e)]
    <3>1. spool \in [Times -> Seq(Items)] /\ spool[t] \in Seq(Items)
      BY <1>1, RowFields
    <3>2. PICK s : s = Append(spool[t], e)
      OBVIOUS
    <3>3. s \in Seq(Items) /\ Range(s) = Range(spool[t]) \cup {e}
      BY <1>1, <3>1, <3>2, AppendItems
    <3>4. \A u \in Times : spool'[u] = IF u = t THEN s ELSE spool[u]
      BY <2>2, <3>1, <3>2
    <3>5. spool' \in [Times -> Seq(Items)]
      BY <2>2, <3>1, <3>2, <3>3
    <3>6. Spooled' \subseteq Spooled \cup {e}
      BY <1>1, <3>3, <3>4 DEF Spooled
    <3> QED
      BY <3>5, <3>6
  <2> QED
    BY <1>1, <2>1, <2>2
<1>3. SpooledCounted'
  BY <1>1, <1>2 DEF Inv, SpooledCounted
<1>4. Current(w) \in Told'
  BY <1>1 DEF Told, Counted, e
<1>5. /\ broker \subseteq broker' /\ broker' \subseteq {"agent", "selfmonitor"} \X Items
      /\ dropped' \in [{"queue_full", "send_fail", "serialize"} -> SUBSET Items]
      /\ dropped.queue_full \subseteq dropped'.queue_full
      /\ dropped.send_fail \subseteq dropped'.send_fail
      /\ dropped.serialize \subseteq dropped'.serialize
  BY <1>1, RowFields
<1> QED
  BY <1>1, <1>2, <1>3, <1>4, <1>5, DoneStep

\* The first of the queue becomes the last of the batch.
LEMMA StepGather ==
    ASSUME Inv, NEW w \in Threads, Gather(w) PROVE Inv'
<1> DEFINE e == Head(queue)
<1>1. PICK s : s = [senders[w] EXCEPT !.batch = Append(@, e)]
  OBVIOUS
<1>2. /\ Becomes(w, s) /\ senders[w].pc = "gather" /\ ~At(w, "off")
      /\ queue # <<>> /\ queue' = Tail(queue) /\ Len(Batch(w)) < flush_batch
      /\ UNCHANGED <<dropped, spool, now, phase, emitted, perished, broker, faults, lives>>
  BY <1>1 DEF Gather, At, Batch
<1>3. Types /\ OnePlace /\ Alone /\ Shape /\ AllTold
  BY DEF Inv
<1>4. /\ e \in Items /\ e \in Range(queue) /\ Tail(queue) \in Seq(Items)
      /\ Len(Tail(queue)) = Len(queue) - 1 /\ Len(queue) \in Nat
      /\ Range(queue) = Range(Tail(queue)) \cup {e}
      /\ IsInjective(Tail(queue)) /\ e \notin Range(Tail(queue))
  <2>1. queue \in Seq(Items) /\ IsInjective(queue)
    BY <1>3 DEF Types, OnePlace
  <2> QED
    BY <1>2, <2>1, TakeItems
<1>5. \A x \in Threads : e \notin Range(Batch(x))
  BY <1>3, <1>4 DEF OnePlace
<1>6. PICK b : b = Append(Batch(w), e)
  OBVIOUS
<1>7. /\ b \in Seq(Items) /\ b # <<>> /\ Len(b) <= flush_batch
      /\ Range(b) = Range(Batch(w)) \cup {e} /\ IsInjective(b)
  <2>1. Batch(w) \in Seq(Items) /\ IsInjective(Batch(w))
    BY <1>3, RowFields DEF OnePlace
  <2>2. /\ b \in Seq(Items) /\ b # <<>> /\ Len(b) = Len(Batch(w)) + 1
        /\ Range(b) = Range(Batch(w)) \cup {e} /\ IsInjective(b)
    <3> HIDE DEF e
    <3> QED
      BY <1>4, <1>5, <1>6, <2>1, AppendItems
  <2>3. Len(Batch(w)) \in Nat
    BY <2>1, LenProperties
  <2> QED
    BY <1>2, <2>2, <2>3, SinkConstants
<1>8. /\ s \in SenderRow /\ s.batch = b /\ s.attempt = senders[w].attempt
      /\ s.attempt = 1 /\ s.pc = "gather"
  <2>1. s = [senders[w] EXCEPT !.batch = b]
    BY <1>1, <1>6 DEF Batch
  <2> HIDE DEF e
  <2> QED
    BY <1>2, <1>7, <2>1, RowFields DEF SenderRow, RowShape
<1>9. /\ senders' \in [Threads -> SenderRow]
      /\ \A x \in Threads : senders'[x] = IF x = w THEN s ELSE senders[x]
  BY <1>2, <1>3, <1>8, RowUpdate
<1>10. Types'
  <2>1. \A x \in Threads : Len(senders'[x].batch) <= flush_batch
    BY <1>3, <1>7, <1>8, <1>9 DEF Types
  <2>2. queue' \in Seq(Items) /\ Len(queue') <= QUEUE_MAX
    BY <1>2, <1>3, <1>4, SinkConstants DEF Types
  <2> QED
    BY <1>2, <1>3, <1>9, <2>1, <2>2 DEF Types
<1>11. /\ Batch(w)' = b
       /\ \A x \in Threads \ {w} : Batch(x)' = Batch(x) /\ Current(x)' = Current(x)
       /\ \A x \in Threads \ {w} : senders'[x].attempt = senders[x].attempt
  BY <1>8, <1>9 DEF Batch, Current
<1> HIDE DEF e
<1>12. InMemory' = InMemory
  <2>1. CASE w = "flusher"
    <3>1. Batch("stopper")' = Batch("stopper")
      BY <1>11, <2>1 DEF Threads
    <3> QED
      BY <1>2, <1>4, <1>7, <1>11, <2>1, <3>1, Places, PlacesNext
  <2>2. CASE w = "stopper"
    <3>1. Batch("flusher")' = Batch("flusher")
      BY <1>11, <2>2 DEF Threads
    <3> QED
      BY <1>2, <1>4, <1>7, <1>11, <2>2, <3>1, Places, PlacesNext
  <2> QED
    BY <2>1, <2>2 DEF Threads
<1>13. OnePlace'
  <2>1. ASSUME NEW x \in Threads
        PROVE  /\ Range(Batch(x)') \subseteq Range(Batch(x)) \cup {e} /\ IsInjective(Batch(x)')
               /\ x # w => Range(Batch(x)') = Range(Batch(x))
    <3>1. CASE x = w
      BY <1>7, <1>11, <3>1
    <3>2. CASE x # w
      BY <1>3, <1>11, <3>2 DEF OnePlace
    <3> QED
      BY <3>1, <3>2
  <2>2. \A x \in Threads : Range(queue') \cap Range(Batch(x)') = {}
    BY <1>2, <1>3, <1>4, <2>1 DEF OnePlace
  <2>3. \A x, y \in Threads : x # y => Range(Batch(x)') \cap Range(Batch(y)') = {}
    BY <1>3, <1>5, <2>1 DEF OnePlace
  <2>4. InMemory' \subseteq emitted' /\ IsInjective(queue')
    BY <1>2, <1>3, <1>4, <1>12 DEF OnePlace
  <2> QED
    BY <2>1, <2>2, <2>3, <2>4 DEF OnePlace
<1>14. AllTold' /\ SpooledCounted'
  BY <1>2, <1>3, <1>12 DEF AllTold, Told, Counted, SpooledCounted, Spooled, Inv
<1>15. Tried \subseteq Tried'
  <2>1. Spent' = Spent
    BY <1>2, <1>12 DEF Spent
  <2>2. \A x \in Threads \ {w} : TriedBy(x) \subseteq TriedBy(x)'
    BY <1>11 DEF TriedBy
  <2>3. TriedBy(w) = {}
    <3>1. \A n \in 1 .. SEND_RETRY : ~ (n < 1)
      BY SinkConstants
    <3> QED
      BY <1>8, <3>1 DEF TriedBy
  <2> QED
    BY <2>1, <2>2, <2>3 DEF Tried
<1>16. Clocked'
  BY <1>2, <1>3, <1>10, <1>15, ClockStill DEF Inv
<1>17. Shape'
  <2> SUFFICES ASSUME NEW x \in Threads PROVE RowShape(senders[x])'
    BY DEF Shape
  <2>1. CASE x = w
    BY <1>8, <1>9, <2>1 DEF RowShape
  <2>2. CASE x # w
    BY <1>2, <1>3, <1>9, <2>2 DEF Shape, RowShape
  <2> QED
    BY <2>1, <2>2
<1>18. phase = "running" => w = "flusher"
  BY <1>2, <1>3, OnlyFlusher
<1>19. Alone' /\ Replayed'
  BY <1>2, <1>3, <1>8, <1>9, <1>18 DEF Alone, Replayed, At, Threads
<1> QED
  BY <1>10, <1>13, <1>14, <1>16, <1>17, <1>19 DEF Inv

\* What the threads have in hand, after a step that leaves them alone.
LEMMA ThreadsKept ==
    ASSUME UNCHANGED senders
    PROVE  /\ \A x \in Threads : Batch(x)' = Batch(x) /\ TriedBy(x)' = TriedBy(x)
           /\ InHand' = InHand
BY DEF Batch, TriedBy, Current, InHand

\* An item that is emitted is queued or counted; it is nowhere yet.
LEMMA StepEmit ==
    ASSUME Inv, NEW e \in Items, emit(e) PROVE Inv'
<1>1. /\ e \notin emitted /\ emitted' = emitted \cup {e}
      /\ \/ Len(queue) < QUEUE_MAX /\ queue' = Append(queue, e) /\ UNCHANGED dropped
         \/ /\ dropped' = [dropped EXCEPT !.queue_full = @ \cup {e}] /\ UNCHANGED queue
      /\ UNCHANGED <<senders, spool, now, phase, perished, broker, faults, lives>>
  BY DEF emit
<1>2. Types /\ OnePlace /\ Alone /\ Shape /\ AllTold /\ SpooledCounted
  BY DEF Inv
<1>3. /\ \A x \in Threads : Batch(x)' = Batch(x) /\ TriedBy(x)' = TriedBy(x)
      /\ InHand' = InHand
  BY <1>1, ThreadsKept
<1>4. e \notin Range(queue) /\ \A x \in Threads : e \notin Range(Batch(x))
  BY <1>1, <1>2, Places DEF OnePlace
<1>5. /\ queue' \in Seq(Items) /\ Len(queue') <= QUEUE_MAX /\ IsInjective(queue')
      /\ \/ Range(queue') = Range(queue) \cup {e} /\ UNCHANGED dropped
         \/ Range(queue') = Range(queue) /\ e \in dropped'.queue_full
      /\ dropped' \in [{"queue_full", "send_fail", "serialize"} -> SUBSET Items]
      /\ dropped.queue_full \subseteq dropped'.queue_full
      /\ dropped.send_fail = dropped'.send_fail
      /\ dropped.serialize \subseteq dropped'.serialize
  <2>1. queue \in Seq(Items) /\ IsInjective(queue) /\ Len(queue) <= QUEUE_MAX
        /\ dropped \in [{"queue_full", "send_fail", "serialize"} -> SUBSET Items]
    BY <1>2 DEF Types, OnePlace
  <2>2. CASE Len(queue) < QUEUE_MAX /\ queue' = Append(queue, e) /\ UNCHANGED dropped
    <3>1. PICK q : q = Append(queue, e)
      OBVIOUS
    <3>2. /\ q \in Seq(Items) /\ Len(q) = Len(queue) + 1 /\ IsInjective(q)
          /\ Range(q) = Range(queue) \cup {e}
      BY <1>4, <2>1, <3>1, AppendItems
    <3>3. Len(q) <= QUEUE_MAX
      <4>1. Len(queue) \in Nat
        BY <2>1, LenProperties
      <4> QED
        BY <2>2, <3>2, <4>1, SinkConstants
    <3> QED
      BY <2>1, <2>2, <3>1, <3>2, <3>3
  <2>3. CASE dropped' = [dropped EXCEPT !.queue_full = @ \cup {e}] /\ UNCHANGED queue
    BY <2>1, <2>3
  <2> QED
    BY <1>1, <2>2, <2>3
<1>6. Types'
  BY <1>1, <1>2, <1>5 DEF Types
<1>7. OnePlace'
  <2>1. InMemory' \subseteq InMemory \cup {e}
    BY <1>3, <1>5 DEF InMemory
  <2>2. InMemory' \subseteq emitted'
    BY <1>1, <1>2, <2>1 DEF OnePlace
  <2>3. \A w \in Threads : Range(queue') \cap Range(Batch(w)') = {}
    BY <1>2, <1>3, <1>4, <1>5 DEF OnePlace
  <2>4. \A w, x \in Threads : w # x => Range(Batch(w)') \cap Range(Batch(x)') = {}
    BY <1>2, <1>3 DEF OnePlace
  <2>5. \A w \in Threads : IsInjective(Batch(w)')
    BY <1>2, <1>3 DEF OnePlace
  <2> QED
    BY <1>5, <2>2, <2>3, <2>4, <2>5 DEF OnePlace
<1>8. AllTold'
  <2>1. InMemory \subseteq InMemory' /\ Told \subseteq Told'
    BY <1>1, <1>3, <1>5, ToldGrows DEF InMemory
  <2>2. e \in InMemory' \cup Told'
    BY <1>5 DEF InMemory, Told, Counted
  <2> QED
    BY <1>1, <1>2, <2>1, <2>2 DEF AllTold
<1>9. SpooledCounted'
  BY <1>1, <1>2, <1>5 DEF SpooledCounted, Spooled
<1>10. Clocked'
  <2>1. Spent \subseteq Spent'
    <3>1. InMemory' \subseteq InMemory \cup {e}
      BY <1>3, <1>5 DEF InMemory
    <3> QED
      BY <1>1, <3>1 DEF Spent
  <2>2. Tried \subseteq Tried'
    BY <1>3, <2>1 DEF Tried
  <2> QED
    BY <1>1, <1>2, <1>6, <2>2, ClockStill DEF Inv
<1>11. Shape' /\ Alone' /\ Replayed'
  <2>1. Shape'
    BY <1>1, <1>2, <1>5 DEF Shape, RowShape
  <2>2. Replayed'
    BY <1>1 DEF Inv, Replayed, At, CurrentFile
  <2> QED
    BY <1>1, <1>2, <2>1, <2>2 DEF Alone, At
<1> QED
  BY <1>6, <1>7, <1>8, <1>9, <1>10, <1>11 DEF Inv

-----------------------------------------------------------------------------
(***************************************************************************)
(* The life of the process.                                                *)
(***************************************************************************)
\* The second thread starts with empty hands.
LEMMA StepStop == ASSUME Inv, stop PROVE Inv'
<1>1. PICK s : s = Gathering
  OBVIOUS
<1>2. /\ phase = "running" /\ phase' = "stopping" /\ Becomes("stopper", s)
      /\ UNCHANGED <<queue, dropped, spool, now, emitted, perished, broker, faults, lives>>
  BY <1>1 DEF stop
<1>3. "stopper" \in Threads /\ Types /\ OnePlace
  BY DEF Inv, Threads
<1>4. s \in SenderRow /\ s.pc = "gather" /\ s.batch = <<>> /\ s.attempt = 1
  BY <1>1, FreshRows
<1>5. senders["stopper"].batch = <<>> /\ senders["stopper"].attempt = 1
  <2>1. senders["stopper"].pc = "off"
    BY <1>2 DEF Inv, Alone, At
  <2> QED
    BY <1>3, <2>1, RowFields DEF RowShape
<1>6. /\ senders' \in [Threads -> SenderRow]
      /\ \A x \in Threads : senders'[x] = IF x = "stopper" THEN s ELSE senders[x]
  BY <1>2, <1>3, <1>4, RowUpdate
<1>7. \A x \in Threads : /\ senders'[x].batch = senders[x].batch
                         /\ senders'[x].attempt = senders[x].attempt
  BY <1>4, <1>5, <1>6
<1>8. \A x \in Threads : /\ senders'[x].attempt \in Nat /\ senders[x].attempt \in Nat
                         /\ senders'[x].attempt >= senders[x].attempt
  BY <1>7, RowFields
<1>9. OnePlace' /\ InMemory' = InMemory /\ Tried \subseteq Tried'
  BY <1>2, <1>3, <1>7, <1>8, MemoryKept
<1>10. Types'
  <2>1. \A x \in Threads : Len(senders'[x].batch) <= flush_batch
    BY <1>3, <1>7 DEF Types
  <2> QED
    BY <1>2, <1>3, <1>6, <2>1 DEF Types
<1>11. Clocked'
  BY <1>2, <1>3, <1>9, <1>10, ClockStill DEF Inv
<1>12. Shape'
  <2> SUFFICES ASSUME NEW x \in Threads PROVE RowShape(senders[x])'
    BY DEF Shape
  <2>1. CASE x = "stopper"
    BY <1>4, <1>6, <2>1 DEF RowShape
  <2>2. CASE x # "stopper"
    BY <1>2, <1>6, <2>2 DEF Inv, Shape, RowShape
  <2> QED
    BY <2>1, <2>2
<1>13. AllTold' /\ SpooledCounted' /\ Alone' /\ Replayed'
  BY <1>2, <1>9 DEF Inv, AllTold, Told, Counted, SpooledCounted, Spooled, Alone, Replayed
<1> QED
  BY <1>9, <1>10, <1>11, <1>12, <1>13 DEF Inv

LEMMA StepStopped == ASSUME Inv, Stopped PROVE Inv'
<1>1. /\ phase' = "stopped"
      /\ UNCHANGED <<queue, senders, dropped, spool, now, emitted, perished, broker,
                     faults, lives>>
  BY DEF Stopped
<1>2. /\ \A x \in Threads : Batch(x)' = Batch(x) /\ TriedBy(x)' = TriedBy(x)
      /\ InHand' = InHand
  BY <1>1, ThreadsKept
<1>3. InMemory' = InMemory /\ Spent' = Spent
  BY <1>1, <1>2 DEF InMemory, Spent
<1>4. Tried' = Tried
  BY <1>2, <1>3 DEF Tried
<1>5. Types' /\ OnePlace' /\ Shape'
  <2>1. Types'
    BY <1>1 DEF Inv, Types
  <2>2. OnePlace'
    BY <1>1, <1>2, <1>3 DEF Inv, OnePlace
  <2>3. Shape'
    BY <1>1 DEF Inv, Shape, RowShape
  <2> QED
    BY <2>1, <2>2, <2>3
<1>6. AllTold' /\ SpooledCounted' /\ Alone' /\ Replayed'
  BY <1>1, <1>3 DEF Inv, AllTold, Told, Counted, SpooledCounted, Spooled, Alone, Replayed
<1>7. Clocked'
  BY <1>1, <1>4, <1>5, ClockStill DEF Inv
<1> QED
  BY <1>5, <1>6, <1>7 DEF Inv

\* The process ends and another begins: what was in memory is gone, and what could
\* not be sent is not tried again.
LEMMA StepRestart == ASSUME Inv, Restart PROVE Inv'
<1>1. /\ lives < MaxLives /\ lives' = lives + 1 /\ now' = now + 1
      /\ perished' = perished \cup InMemory
      /\ queue' = <<>> /\ senders' = Started /\ phase' = "running"
      /\ UNCHANGED <<dropped, spool, emitted, broker, faults>>
  BY DEF Restart
<1>2. Types /\ OnePlace /\ AllTold /\ SpooledCounted /\ Clocked
  BY DEF Inv
<1>3. /\ senders' \in [Threads -> SenderRow]
      /\ \A x \in Threads : senders'[x].batch = <<>> /\ senders'[x].attempt = 1
      /\ senders'["stopper"].pc = "off" /\ senders'["flusher"].pc = "gather"
      /\ \A x \in Threads : senders'[x].pc \in {"off", "gather"}
  <2>1. /\ senders' \in [Threads -> SenderRow]
        /\ senders'["stopper"] = Off /\ senders'["flusher"] = Gathering
        /\ \A x \in Threads : senders'[x] \in {Off, Gathering}
    BY <1>1, FreshRows DEF Started, Threads
  <2>2. Off.pc = "off" /\ Off.batch = <<>> /\ Off.attempt = 1
    BY DEF Off
  <2>3. Gathering.pc = "gather" /\ Gathering.batch = <<>> /\ Gathering.attempt = 1
    BY FreshRows
  <2> QED
    BY <2>1, <2>2, <2>3
<1>4. InMemory' = {} /\ \A x \in Threads : Batch(x)' = <<>>
  <2>1. \A x \in Threads : Batch(x)' = <<>>
    BY <1>3 DEF Batch
  <2>2. "flusher" \in Threads /\ "stopper" \in Threads
    BY DEF Threads
  <2> QED
    BY <1>1, <2>1, <2>2, PlacesNext, NoItems
<1>5. Types'
  <2>1. <<>> \in Seq(Items) /\ Len(<<>>) = 0
    BY EmptySeq
  <2>2. /\ queue' \in Seq(Items) /\ Len(queue') <= QUEUE_MAX
        /\ \A x \in Threads : Len(senders'[x].batch) <= flush_batch
    BY <1>1, <1>3, <2>1, SinkConstants
  <2>3. InMemory \subseteq Items /\ perished' \subseteq Items
    BY <1>1, <1>2 DEF Types, OnePlace
  <2>4. now' \in Nat \ {0} /\ lives' \in 1 .. MaxLives
    BY <1>1, <1>2, SinkConstants DEF Types
  <2> QED
    BY <1>1, <1>2, <1>3, <2>2, <2>3, <2>4 DEF Types
<1>6. OnePlace'
  BY <1>1, <1>4, NoItems DEF OnePlace
<1>7. AllTold' /\ SpooledCounted'
  BY <1>1, <1>2 DEF AllTold, Told, Counted, SpooledCounted, Spooled
<1>8. Tried \subseteq Tried'
  <2>1. Spent \subseteq Spent' /\ Oversize \cap InMemory \subseteq Spent'
    BY <1>1, <1>2, <1>4 DEF Spent, OnePlace
  <2>2. ASSUME NEW x \in Threads, NEW p \in TriedBy(x) PROVE p \in Spent' \X (1 .. SEND_RETRY)
    <3>1. p \in Oversize \X (1 .. SEND_RETRY) /\ Batch(x) # <<>> /\ Current(x) = p[1]
      BY <2>2 DEF TriedBy
    <3>2. Current(x) \in Range(Batch(x))
      BY <3>1, RowFields, TakeItems DEF Current, Batch
    <3>3. p[1] \in Spent'
      BY <2>1, <3>1, <3>2, Places
    <3> QED
      BY <3>1, <3>3
  <2> QED
    BY <2>1, <2>2 DEF Tried
<1>9. Clocked'
  <2>1. now \in Nat /\ faults \in Nat /\ lives \in Nat
    BY <1>2, SinkConstants DEF Types
  <2>2. (now + 1) + faults + lives <= now + faults + (lives + 1)
    BY <2>1
  <2>3. now' + faults + lives <= now + faults' + lives'
    BY <1>1, <2>2
  <2> QED
    BY <1>2, <1>5, <1>8, <2>3, ClockOn
<1>10. Shape' /\ Alone' /\ Replayed'
  <2>1. Shape'
    BY <1>3 DEF Shape, RowShape
  <2> QED
    BY <1>3, <2>1 DEF Alone, Replayed, At
<1> QED
  BY <1>5, <1>6, <1>7, <1>9, <1>10 DEF Inv

-----------------------------------------------------------------------------
(***************************************************************************)
(* The theorems.                                                           *)
(***************************************************************************)
LEMMA InitInv == Init => Inv
<1> SUFFICES ASSUME Init PROVE Inv
  OBVIOUS
<1>1. <<>> \in Seq(Items) /\ Len(<<>>) = 0
  BY EmptySeq
<1>2. /\ senders \in [Threads -> SenderRow]
      /\ \A x \in Threads : senders[x].batch = <<>> /\ senders[x].attempt = 1
      /\ senders["stopper"].pc = "off" /\ senders["flusher"].pc = "gather"
      /\ \A x \in Threads : senders[x].pc \in {"off", "gather"}
  <2>1. /\ senders \in [Threads -> SenderRow]
        /\ senders["stopper"] = Off /\ senders["flusher"] = Gathering
        /\ \A x \in Threads : senders[x] \in {Off, Gathering}
    BY FreshRows DEF Init, Started, Threads
  <2>2. Off.pc = "off" /\ Off.batch = <<>> /\ Off.attempt = 1
    BY DEF Off
  <2>3. Gathering.pc = "gather" /\ Gathering.batch = <<>> /\ Gathering.attempt = 1
    BY FreshRows
  <2> QED
    BY <2>1, <2>2, <2>3
<1>3. Types
  <2>1. /\ queue \in Seq(Items) /\ Len(queue) <= QUEUE_MAX
        /\ \A x \in Threads : Len(senders[x].batch) <= flush_batch
    BY <1>1, <1>2, SinkConstants DEF Init
  <2>2. spool \in [Times -> Seq(Items)]
    BY <1>1 DEF Init
  <2>3. now \in Nat \ {0} /\ faults \in 0 .. MaxFaults /\ lives \in 1 .. MaxLives
    BY SinkConstants DEF Init
  <2> QED
    BY <1>2, <2>1, <2>2, <2>3 DEF Init, Types
<1>4. InMemory = {} /\ \A x \in Threads : Batch(x) = <<>>
  <2>1. \A x \in Threads : Batch(x) = <<>>
    BY <1>2 DEF Batch
  <2>2. "flusher" \in Threads /\ "stopper" \in Threads
    BY DEF Threads
  <2> QED
    BY <2>1, <2>2, Places, NoItems DEF Init
<1>5. OnePlace
  BY <1>4, NoItems DEF OnePlace, Init
<1>6. SpooledCounted
  <2>1. \A t \in Times : spool[t] = <<>>
    BY DEF Init
  <2> QED
    BY <2>1, NoItems DEF SpooledCounted, Spooled
<1>7. AllTold
  BY DEF Init, AllTold
<1>8. Clocked
  <2>1. PICK c \in Nat : c = Cardinality(Tried)
    BY TriedFinite
  <2> QED
    BY <2>1 DEF Init, Clocked
<1>9. Shape /\ Alone /\ Replayed
  <2>1. Shape
    BY <1>2 DEF Shape, RowShape
  <2> QED
    BY <1>2, <2>1 DEF Alone, Replayed, At
<1> QED
  BY <1>3, <1>5, <1>6, <1>7, <1>8, <1>9 DEF Inv

LEMMA NextInv == Inv /\ [Next]_vars => Inv'
<1> SUFFICES ASSUME Inv, [Next]_vars PROVE Inv'
  OBVIOUS
<1>1. CASE \E e \in Items : emit(e)
  BY <1>1, StepEmit
<1>2. ASSUME NEW w \in Threads, _flush_once(w) PROVE Inv'
  <2>1. CASE Gather(w)
    BY <2>1, StepGather
  <2>2. CASE EndGather(w)
    BY <2>2, StepEndGather
  <2>3. CASE Unserializable(w)
    BY <2>3, StepUnserializable
  <2>4. CASE SendAcked(w)
    BY <2>4, StepSendAcked
  <2>5. CASE BackOff(w)
    BY <2>5, StepBackOff
  <2>6. CASE GiveUp(w)
    BY <2>6, StepGiveUp
  <2>7. CASE _spool_write(w)
    BY <2>7, Step_spool_write
  <2>8. CASE ListSpool(w)
    BY <2>8, StepListSpool
  <2>9. CASE ReadFile(w)
    BY <2>9, StepReadFile
  <2>10. CASE EndRound(w) \/ ReplayFails(w)
    BY <2>10, StepEndRound
  <2>11. CASE _send_once(w)
    BY <2>11, StepSendOnce
  <2>12. CASE RemoveFile(w)
    BY <2>12, StepRemoveFile
  <2> QED
    BY <1>2, <2>1, <2>2, <2>3, <2>4, <2>5, <2>6, <2>7, <2>8, <2>9, <2>10, <2>11, <2>12
       DEF _flush_once
<1>3. CASE stop
  BY <1>3, StepStop
<1>4. CASE Stopped
  BY <1>4, StepStopped
<1>5. CASE Restart
  BY <1>5, StepRestart
<1>6. CASE UNCHANGED vars
  <2>1. UNCHANGED <<queue, senders, dropped, spool, now, phase, emitted, perished, broker,
                    faults, lives>>
    BY <1>6 DEF vars
  <2>2. /\ \A x \in Threads : Batch(x)' = Batch(x) /\ TriedBy(x)' = TriedBy(x)
        /\ InHand' = InHand
    BY <2>1, ThreadsKept
  <2>3. InMemory' = InMemory /\ Spent' = Spent
    BY <2>1, <2>2 DEF InMemory, Spent
  <2>4. Tried' = Tried
    BY <2>2, <2>3 DEF Tried
  <2>5. Types' /\ Shape' /\ Alone'
    BY <2>1 DEF Inv, Types, Shape, RowShape, Alone, At
  <2>6. OnePlace'
    BY <2>1, <2>2, <2>3 DEF Inv, OnePlace
  <2>7. AllTold' /\ SpooledCounted'
    BY <2>1, <2>3 DEF Inv, AllTold, Told, Counted, SpooledCounted, Spooled
  <2>8. Replayed'
    BY <2>1 DEF Inv, Replayed, At, CurrentFile
  <2>9. Clocked'
    BY <2>1, <2>4, <2>5, ClockStill DEF Inv
  <2> QED
    BY <2>5, <2>6, <2>7, <2>8, <2>9 DEF Inv
<1> QED
  BY <1>1, <1>2, <1>3, <1>4, <1>5, <1>6 DEF Next

LEMMA InvAlways == Spec => []Inv
BY InitInv, NextInv, PTL DEF Spec

\* The state of the sink is well-formed: emit never lets the queue grow past
\* QUEUE_MAX and no batch past flush_batch, whichever thread takes what; and the
\* clock of the model is never at its bound when a back-off wants it to tick.
THEOREM TypeCorrect == Spec => []TypeOK
<1>1. Inv => TypeOK
  <2> SUFFICES ASSUME Inv PROVE TypeOK
    OBVIOUS
  <2>1. now \in Times
    BY InTimes DEF Inv
  <2>2. \A w \in Threads : senders[w] \in SenderRow
    BY DEF Inv, Types
  <2> QED
    BY <2>1, <2>2 DEF Inv, Types, TypeOK, SenderRow, Pcs
<1> QED
  BY <1>1, InvAlways, PTL

\* Nothing that is emitted is lost without a word: it is in memory, in a topic or
\* in the spool, or a counter tells of it, or the process ended over it; for every
\* size of the queue and of a batch, every number of tries, faults and restarts, and
\* while both threads are in _flush_once.
THEOREM NothingSilent == Spec => []Accounted
<1>1. Inv => Accounted
  BY DEF Inv, AllTold, Told, Accounted
<1> QED
  BY <1>1, InvAlways, PTL

\* A step that is not the removal of a file leaves every line in the spool.
LEMMA SpoolGrows ==
    ASSUME Inv, [Next]_vars, \A w \in Threads : ~RemoveFile(w)
    PROVE  Spooled \subseteq Spooled'
<1>1. CASE UNCHANGED spool
  BY <1>1 DEF Spooled
<1>2. ASSUME NEW w \in Threads, _spool_write(w) PROVE Spooled \subseteq Spooled'
  <2> DEFINE e == Current(w)
             t == senders[w].path
  <2>1. /\ e \in Items /\ t \in Times /\ spool \in [Times -> Seq(Items)]
        /\ UNCHANGED spool \/ spool' = [spool EXCEPT ![t] = Append(@, e)]
    BY <1>2, RowFields DEF _spool_write, At, RowShape, Batch, Current, SenderRow
  <2> HIDE DEF e, t
  <2>2. ASSUME spool' = [spool EXCEPT ![t] = Append(@, e)] PROVE Spooled \subseteq Spooled'
    <3>1. PICK s : s = Append(spool[t], e)
      OBVIOUS
    <3>2. Range(spool[t]) \subseteq Range(s)
      BY <2>1, <3>1, AppendItems
    <3>3. \A u \in Times : spool'[u] = IF u = t THEN s ELSE spool[u]
      BY <2>1, <2>2, <3>1
    <3> QED
      BY <3>2, <3>3 DEF Spooled
  <2> QED
    BY <1>1, <2>1, <2>2
<1>3. UNCHANGED spool \/ \E w \in Threads : _spool_write(w)
  BY DEF Next, vars, _flush_once, emit, Gather, EndGather, Unserializable, SendAcked,
         BackOff, GiveUp, ListSpool, ReadFile, EndRound, _send_once, ReplayFails,
         stop, Stopped, Restart
<1> QED
  BY <1>1, <1>2, <1>3

\* While nobody has called stop(), no line leaves the spool before Kafka has
\* acknowledged it: the flusher removes a file when its hand is empty, and what left
\* its hand was acknowledged; nobody else writes into the file meanwhile.
THEOREM SpoolSafe == Spec => SpoolKept
<1>1. Inv /\ [Next]_vars =>
          (phase = "running" => \A e \in Spooled \ Spooled' : <<"agent", e>> \in broker)
  <2> SUFFICES ASSUME Inv, [Next]_vars, phase = "running", NEW e \in Spooled \ Spooled'
               PROVE  <<"agent", e>> \in broker
    OBVIOUS
  <2>1. PICK w \in Threads : RemoveFile(w)
    BY SpoolGrows
  <2>2. w = "flusher"
    BY <2>1, OnlyFlusher DEF Inv, RemoveFile, At
  <2> DEFINE f == CurrentFile(w)
  <2>3. /\ senders[w].pc = "lines" /\ senders[w].lines = <<>> /\ senders[w].files # {}
        /\ spool' = [spool EXCEPT ![f] = <<>>]
    BY <2>1, RowFields DEF RemoveFile, At, RowShape
  <2>4. f \in Times /\ spool \in [Times -> Seq(Items)]
    BY <2>3, FirstFile, RowFields
  <2>5. \A t \in Times \ {f} : spool'[t] = spool[t]
    <3> HIDE DEF f
    <3> QED
      BY <2>3, <2>4
  <2>6. e \in Range(spool[f])
    <3> HIDE DEF f
    <3> QED
      BY <2>5 DEF Spooled
  <2>7. e \notin Range(senders[w].lines)
    BY <2>3, NoItems
  <2> QED
    BY <2>2, <2>3, <2>6, <2>7 DEF Inv, Replayed, At
<1> QED
  BY <1>1, InvAlways, PTL DEF Spec, SpoolKept

=============================================================================
