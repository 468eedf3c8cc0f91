---------------------------- MODULE RollupProofs ----------------------------
(***************************************************************************)
(* Theorems about Rollup, for every value of its constants: whatever       *)
(* events and groups there are, however small a page and wide the window   *)
(* is, and however many rounds are lost.                                   *)
(***************************************************************************)
EXTENDS Rollup, FiniteSetTheorems, WellFoundedInduction, TLAPS

-----------------------------------------------------------------------------
(***************************************************************************)
(* Lemmas about numbers.                                                   *)
(***************************************************************************)

\* A set of natural numbers that is not empty has a least element, whether it is
\* finite or not: the strict order of the natural numbers is well-founded.
LEMMA LeastOf ==
    ASSUME NEW S, S \subseteq Nat, S # {}
    PROVE  \E x \in S : \A y \in S : x <= y
<1> DEFINE R == OpToRel(<, Nat)
<1>1. IsWellFoundedOn(R, Nat)
  BY NatLessThanWellFounded
<1>2. PICK x \in S : \A y \in S : ~ (<<y, x>> \in R)
  <2> HIDE DEF R
  <2> QED
    BY <1>1, WFMin
<1>3. ASSUME NEW y \in S PROVE x <= y
  <2>1. x \in Nat /\ y \in Nat /\ ~ (<<y, x>> \in R)
    BY <1>2
  <2>2. ~ (y < x)
    BY <2>1 DEF OpToRel
  <2> HIDE DEF R
  <2> QED
    BY <2>1, <2>2
<1> QED
  BY <1>3

\* What Min returns: the oldest hour that is left, the next group.
LEMMA MinOf ==
    ASSUME NEW S, S \subseteq Nat, S # {}
    PROVE  Min(S) \in S /\ \A y \in S : Min(S) <= y
BY LeastOf DEF Min

\* What Max returns on a finite set: the cursor behind a page.  The element with
\* the fewest elements above it has none above it.
LEMMA MaxOf ==
    ASSUME NEW S, S \subseteq Nat, S # {}, IsFiniteSet(S)
    PROVE  Max(S) \in S /\ \A y \in S : Max(S) >= y
<1> DEFINE Above(x) == {y \in S : y > x}
           C == {Cardinality(Above(x)) : x \in S}
<1>1. \A x \in S : IsFiniteSet(Above(x)) /\ Cardinality(Above(x)) \in Nat
  <2> TAKE x \in S
  <2>1. Above(x) \in SUBSET S
    OBVIOUS
  <2> HIDE DEF Above
  <2> QED
    BY <2>1, FS_Subset, FS_CardinalityType
<1>2. C \subseteq Nat /\ C # {}
  <2> HIDE DEF Above
  <2> QED
    BY <1>1
<1>3. PICK x \in S : \A y \in S : Cardinality(Above(x)) <= Cardinality(Above(y))
  <2> HIDE DEF Above
  <2>1. PICK c \in C : \A d \in C : c <= d
    <3> HIDE DEF C
    <3> QED
      BY <1>2, LeastOf
  <2> QED
    BY <2>1
<1>4. ASSUME NEW y \in S PROVE x >= y
  <2> SUFFICES ASSUME y > x PROVE FALSE
    OBVIOUS
  <2>1. Above(y) \in SUBSET Above(x) /\ y \in Above(x) /\ y \notin Above(y)
    <3>1. x \in Nat /\ y \in Nat /\ \A z \in S : z \in Nat
      OBVIOUS
    <3>2. ASSUME NEW z \in S, z > y PROVE z > x
      BY <3>1, <3>2
    <3> HIDE DEF C
    <3>3. y \in Above(x) /\ y \notin Above(y)
      BY <3>1
    <3> QED
      BY <3>2, <3>3
  <2>2. Above(y) # Above(x)
    BY <2>1
  <2>3. Cardinality(Above(y)) <= Cardinality(Above(x)) /\ Cardinality(Above(y)) # Cardinality(Above(x))
    <3> HIDE DEF Above
    <3> QED
      BY <1>1, <2>1, <2>2, FS_Subset
  <2> HIDE DEF Above
  <2> QED
    BY <1>1, <1>3, <2>3
<1> QED
  BY <1>4 DEF Max
-----------------------------------------------------------------------------
(***************************************************************************)
(* The inductive invariant of the rebuild.  A round that is under way has  *)
(* an hour; what a scan has passed it has seen, except for events that     *)
(* came late, and an event that is counted already is not late; so when    *)
(* the scan is over, every document may be overwritten.                    *)
(***************************************************************************)
Underway == round.step # "asleep"

RoundShape ==
    /\ ~Underway => round = Asleep
    /\ Underway => round.hour \in Hours /\ round.since \in Hours
    /\ round.step = "probe" => round.seen = {} /\ round.cursor = 0

SeenThere == Underway => round.seen \subseteq events[round.hour]

Scanned ==
    round.step = "scan" =>
        \A e \in events[round.hour] :
            e <= round.cursor /\ (round.quiet \/ e \in Counted(round.hour)) => e \in round.seen

Written ==
    round.step = "write" =>
        /\ \A e \in events[round.hour] :
               round.quiet \/ e \in Counted(round.hour) => e \in round.seen
        /\ \A g \in Groups \ round.todo : OfGroup(g) \subseteq docs[round.hour][g]

\* The documents count at least as many events as the meta document says, and as
\* any meta document said that a request has read.
CountsBacked == \A h \in Hours : meta[h] <= Cardinality(Counted(h))
ReadBacked == \A h \in Hours : reader.counts[h] <= Cardinality(Counted(h))

RebuildInv == RoundShape /\ SeenThere /\ Scanned /\ Written

Inv ==
    /\ TypeOK /\ RebuildInv
    /\ CountsBacked /\ ReadBacked
    /\ SettledComplete

-----------------------------------------------------------------------------
(***************************************************************************)
(* Lemmas about the documents.                                             *)
(***************************************************************************)
LEMMA EventTypes ==
    /\ Events \subseteq Nat /\ IsFiniteSet(Events)
    /\ \A e \in Events : e > 0 /\ GroupOf[e] \in Groups
    /\ Groups \subseteq Nat
    /\ Hours \subseteq Nat \ {0}
    /\ LateK \in Nat /\ Page \in Nat \ {0} /\ RoundHours \in Nat
    /\ \A S \in SUBSET Events : IsFiniteSet(S) /\ Cardinality(S) \in Nat
<1>1. Events \subseteq Nat /\ IsFiniteSet(Events) /\ \A e \in Events : e > 0
  BY RollupAssumption
<1>2. \A e \in Events : GroupOf[e] \in Groups
  BY DEF Groups
<1>3. Groups \subseteq Nat
  BY RollupAssumption DEF Groups
<1>4. Hours \subseteq Nat \ {0}
  BY RollupAssumption DEF Hours
<1>5. LateK \in Nat /\ Page \in Nat \ {0} /\ RoundHours \in Nat
  BY RollupAssumption
<1>6. \A S \in SUBSET Events : IsFiniteSet(S) /\ Cardinality(S) \in Nat
  BY <1>1, FS_Subset, FS_CardinalityType
<1> QED
  BY <1>1, <1>2, <1>3, <1>4, <1>5, <1>6

\* An event is counted in the document of its group or not at all.
LEMMA CountedByGroup ==
    ASSUME TypeOK, NEW h \in Hours
    PROVE  /\ Counted(h) \subseteq events[h]
           /\ events[h] \in SUBSET Events
           /\ Counted(h) \in SUBSET Events
           /\ \A e \in Events : e \in Counted(h) <=> e \in docs[h][GroupOf[e]]
<1>1. \A g \in Groups : docs[h][g] \subseteq {e \in events[h] : GroupOf[e] = g}
  BY DEF TypeOK
<1>2. events[h] \in SUBSET Events
  BY DEF TypeOK
<1>3. Counted(h) \subseteq events[h]
  BY <1>1 DEF Counted
<1>4. \A e \in Events : e \in docs[h][GroupOf[e]] => e \in Counted(h)
  BY EventTypes DEF Counted
<1>5. \A e \in Events : e \in Counted(h) => e \in docs[h][GroupOf[e]]
  BY <1>1 DEF Counted
<1> QED
  BY <1>2, <1>3, <1>4, <1>5

\* Documents that only gain events count at least what they counted.
LEMMA CountedGrows ==
    ASSUME TypeOK, TypeOK', \A h \in Hours, g \in Groups : docs[h][g] \subseteq docs'[h][g]
    PROVE  \A h \in Hours : /\ Counted(h) \subseteq Counted(h)'
                            /\ Cardinality(Counted(h)) <= Cardinality(Counted(h)')
<1> SUFFICES ASSUME NEW h \in Hours
             PROVE  /\ Counted(h) \subseteq Counted(h)'
                    /\ Cardinality(Counted(h)) <= Cardinality(Counted(h)')
  OBVIOUS
<1>1. Counted(h) \subseteq Counted(h)'
  BY DEF Counted
<1>2. IsFiniteSet(Counted(h)')
  <2>1. Counted(h)' \in SUBSET Events
    <3>1. \A g \in Groups : docs'[h][g] \subseteq Events
      BY DEF TypeOK
    <3> QED
      BY <3>1 DEF Counted
  <2> QED
    BY <2>1, EventTypes
<1> QED
  BY <1>1, <1>2, FS_Subset

\* The probe can be trusted in every state of the invariant.
LEMMA Probe ==
    ASSUME TypeOK, CountsBacked
    PROVE  MetaTells
<1> SUFFICES ASSUME NEW h \in Hours, meta[h] = Cardinality(events[h])
             PROVE  Counted(h) = events[h]
  BY DEF MetaTells
<1>1. Counted(h) \subseteq events[h] /\ events[h] \in SUBSET Events /\ Counted(h) \in SUBSET Events
  BY CountedByGroup
<1>2. /\ IsFiniteSet(events[h])
      /\ Cardinality(events[h]) \in Nat /\ Cardinality(Counted(h)) \in Nat
  BY <1>1, EventTypes
<1>3. Cardinality(Counted(h)) <= Cardinality(events[h])
  BY <1>1, <1>2, FS_Subset
<1>4. Cardinality(events[h]) <= Cardinality(Counted(h))
  BY DEF CountsBacked
<1>5. Cardinality(events[h]) = Cardinality(Counted(h))
  BY <1>2, <1>3, <1>4
<1> QED
  BY <1>1, <1>2, <1>5, FS_Subset

\* A page of the events B behind the cursor is what lies up to its last event, and
\* the page that is not full is the rest.
PageOf(B) == {e \in B : Cardinality({d \in B : d < e}) < Page}

LEMMA PageProperties ==
    ASSUME NEW B \in SUBSET Events, NEW P, P = PageOf(B)
    PROVE  /\ P \subseteq B /\ IsFiniteSet(P) /\ Cardinality(P) \in Nat
           /\ P # {} => Max(P) \in P /\ \A e \in B : e <= Max(P) => e \in P
           /\ Cardinality(P) < Page => P = B
<1> DEFINE Below(e) == {d \in B : d < e}
<1>1. /\ P \in SUBSET B /\ P \in SUBSET Events /\ IsFiniteSet(P) /\ Cardinality(P) \in Nat
      /\ P \subseteq Nat /\ B \subseteq Nat
  <2>1. P \in SUBSET Events /\ P \in SUBSET B /\ B \subseteq Nat
    BY EventTypes DEF PageOf
  <2> QED
    BY <2>1, EventTypes
<1>2. \A e \in B : IsFiniteSet(Below(e)) /\ Cardinality(Below(e)) \in Nat
  <2>1. \A e \in B : Below(e) \in SUBSET Events
    OBVIOUS
  <2> HIDE DEF Below
  <2> QED
    BY <2>1, EventTypes
<1>3. \A e \in B : e \in P <=> Cardinality(Below(e)) < Page
  BY DEF PageOf
<1>4. ASSUME P # {} PROVE Max(P) \in P /\ \A e \in B : e <= Max(P) => e \in P
  <2>1. Max(P) \in P
    BY <1>1, <1>4, MaxOf
  <2>2. ASSUME NEW e \in B, e <= Max(P) PROVE e \in P
    <3>1. Max(P) \in B /\ e \in Nat /\ Max(P) \in Nat
      BY <1>1, <2>1
    <3>2. \A d \in B : d < e => d < Max(P)
      BY <1>1, <2>2, <3>1
    <3>3. Below(e) \in SUBSET Below(Max(P))
      BY <3>2
    <3> HIDE DEF Below
    <3>4. Cardinality(Below(e)) <= Cardinality(Below(Max(P)))
      BY <1>2, <3>1, <3>3, FS_Subset
    <3>5. Cardinality(Below(Max(P))) < Page
      BY <1>3, <2>1, <3>1
    <3>6. Cardinality(Below(e)) < Page
      BY <1>2, <3>1, <3>4, <3>5, EventTypes
    <3> QED
      BY <1>3, <3>6
  <2> QED
    BY <2>1, <2>2
<1>5. ASSUME Cardinality(P) < Page PROVE P = B
  <2> SUFFICES ASSUME P # B PROVE FALSE
    OBVIOUS
  <2>1. B \ P \subseteq Nat /\ B \ P # {}
    BY <1>1
  <2>2. PICK e \in B \ P : \A y \in B \ P : e <= y
    BY <2>1, LeastOf
  <2>3. \A d \in B : d < e => d \in P
    BY <1>1, <2>2
  <2>4. Below(e) \in SUBSET P
    BY <2>3
  <2> HIDE DEF Below
  <2>5. Cardinality(Below(e)) <= Cardinality(P)
    BY <1>1, <2>4, FS_Subset
  <2>6. Cardinality(Below(e)) < Page
    BY <1>1, <1>2, <1>5, <2>2, <2>5, EventTypes
  <2> QED
    BY <1>3, <2>2, <2>6
<1> QED
  BY <1>1, <1>4, <1>5

-----------------------------------------------------------------------------
(***************************************************************************)
(* The steps of a round.                                                   *)
(***************************************************************************)
RoundRow ==
    [step : {"asleep", "probe", "scan", "write"}, hour : {0} \cup Hours,
     left : SUBSET Hours, since : {0} \cup Hours, cursor : {0} \cup Events,
     seen : SUBSET Events, todo : SUBSET Groups, quiet : BOOLEAN]

ReaderRow ==
    [step : {"none", "covered"}, from : Int, sharp : BOOLEAN,
     counts : [Hours -> Nat \cup {NoMeta}]]

\* A round takes the oldest hour that is left and looks at its meta document.
LEMMA NextHourShape ==
    ASSUME NEW left \in SUBSET Hours, left # {}, NEW since \in Hours
    PROVE  /\ NextHour(left, since) \in RoundRow
           /\ NextHour(left, since) =
                [step |-> "probe", hour |-> Min(left), left |-> left \ {Min(left)},
                 since |-> since, cursor |-> 0, seen |-> {}, todo |-> {}, quiet |-> TRUE]
           /\ Min(left) \in left
<1>1. Min(left) \in left
  BY EventTypes, MinOf
<1>2. NextHour(left, since) =
        [step |-> "probe", hour |-> Min(left), left |-> left \ {Min(left)},
         since |-> since, cursor |-> 0, seen |-> {}, todo |-> {}, quiet |-> TRUE]
  <2> DEFINE m == Min(left)
             rest == left \ {m}
  <2>1. NextHour(left, since) = [Asleep EXCEPT !.step = "probe", !.since = since,
                                                !.hour = m, !.left = rest]
    BY DEF NextHour
  <2> HIDE DEF m, rest
  <2>2. NextHour(left, since) =
          [step |-> "probe", hour |-> m, left |-> rest, since |-> since, cursor |-> 0,
           seen |-> {}, todo |-> {}, quiet |-> TRUE]
    BY <2>1 DEF Asleep
  <2> QED
    BY <2>2 DEF m, rest
<1>3. Min(left) \in Hours /\ left \ {Min(left)} \in SUBSET Hours
  BY <1>1
<1>4. NextHour(left, since) \in RoundRow
  BY <1>2, <1>3 DEF RoundRow
<1> QED
  BY <1>1, <1>2, <1>4

\* Between two rebuilds nothing has been scanned.
LEMMA BetweenRebuilds ==
    ASSUME round' = Asleep \/ \E left \in SUBSET Hours, since \in Hours :
                                  left # {} /\ round' = NextHour(left, since)
    PROVE  round' \in RoundRow /\ RebuildInv'
<1>1. CASE round' = Asleep
  BY <1>1 DEF Asleep, RoundRow, RebuildInv, RoundShape, Underway, SeenThere, Scanned, Written
<1>2. ASSUME NEW left \in SUBSET Hours, NEW since \in Hours,
             left # {}, round' = NextHour(left, since)
      PROVE  round' \in RoundRow /\ RebuildInv'
  <2>1. /\ round' \in RoundRow /\ Min(left) \in Hours
        /\ round' = [step |-> "probe", hour |-> Min(left), left |-> left \ {Min(left)},
                     since |-> since, cursor |-> 0, seen |-> {}, todo |-> {}, quiet |-> TRUE]
    BY <1>2, NextHourShape
  <2> QED
    BY <2>1 DEF RebuildInv, RoundShape, Underway, SeenThere, Scanned, Written
<1> QED
  BY <1>1, <1>2

\* The hour is done: the round goes on or is over.
LEMMA FinishShape ==
    ASSUME TypeOK, RebuildInv, Underway, NEW quiet \in BOOLEAN, Finish(quiet)
    PROVE  /\ round' \in RoundRow /\ RebuildInv' /\ wake' \in Nat
           /\ settled' \subseteq Hours
           /\ settled' = IF quiet THEN settled \cup {round.hour} ELSE settled
<1>1. round.left \in SUBSET Hours /\ round.since \in Hours /\ round.hour \in Hours
  BY DEF TypeOK, RebuildInv, RoundShape
<1>2. now \in Nat /\ wake \in Nat /\ settled \subseteq Hours
  BY EventTypes DEF TypeOK
<1>3. round' = Asleep \/ (round.left # {} /\ round' = NextHour(round.left, round.since))
  BY DEF Finish
<1>4. round' \in RoundRow /\ RebuildInv'
  BY <1>1, <1>3, BetweenRebuilds
<1> QED
  BY <1>1, <1>2, <1>4 DEF Finish

\* Steps that leave the events, the documents and the requests alone keep what
\* is said about them.
LEMMA DataUnchanged ==
    ASSUME Inv, UNCHANGED <<events, docs, meta, reader>>
    PROVE  /\ CountsBacked' /\ ReadBacked'
           /\ \A h \in Hours : Counted(h)' = Counted(h)
           /\ settled' \subseteq settled => SettledComplete'
           /\ events' \in [Hours -> SUBSET Events]
           /\ docs' \in [Hours -> [Groups -> SUBSET Events]]
           /\ \A h \in Hours, g \in Groups :
                  docs'[h][g] \subseteq {e \in events'[h] : GroupOf[e] = g}
           /\ meta' \in [Hours -> Nat \cup {NoMeta}]
           /\ reader' \in ReaderRow
<1>1. \A h \in Hours : Counted(h)' = Counted(h)
  BY DEF Counted
<1>2. CountsBacked' /\ ReadBacked'
  BY <1>1 DEF Inv, CountsBacked, ReadBacked
<1>3. settled' \subseteq settled => SettledComplete'
  BY <1>1 DEF Inv, SettledComplete, TypeOK
<1> QED
  BY <1>1, <1>2, <1>3 DEF Inv, TypeOK, ReaderRow

LEMMA StepBegin ==
    ASSUME Inv, run_rollup PROVE Inv'
<1>1. /\ UNCHANGED <<now, events, docs, meta, wake, reader, fails, lost, settled>>
      /\ round' = NextHour(_late_hour_starts(now), now) /\ _late_hour_starts(now) # {}
  BY DEF run_rollup
<1>2. _late_hour_starts(now) \in SUBSET Hours /\ now \in Hours
  BY DEF _late_hour_starts, Inv, TypeOK
<1>3. round' \in RoundRow /\ RebuildInv'
  BY <1>1, <1>2, BetweenRebuilds
<1>4. TypeOK'
  BY <1>1, <1>3, DataUnchanged DEF RoundRow, ReaderRow, Inv, TypeOK
<1> QED
  BY <1>1, <1>3, <1>4, DataUnchanged DEF Inv

LEMMA StepSkip ==
    ASSUME Inv, Skip PROVE Inv'
<1>1. /\ UNCHANGED <<now, events, docs, meta, reader, fails, lost>>
      /\ Finish(TRUE) /\ Underway /\ ~_decide_recompute(round.hour)
  BY DEF Skip, Underway
<1>2. /\ round' \in RoundRow /\ RebuildInv' /\ wake' \in Nat /\ settled' \subseteq Hours
      /\ settled' = settled \cup {round.hour}
  BY <1>1, FinishShape DEF Inv
<1>3. TypeOK'
  BY <1>1, <1>2, DataUnchanged DEF RoundRow, ReaderRow, Inv, TypeOK
<1>4. Counted(round.hour) = events[round.hour]
  <2>1. round.hour \in Hours
    BY <1>1 DEF Inv, RebuildInv, RoundShape
  <2>2. meta[round.hour] = Cardinality(events[round.hour])
    BY <1>1 DEF _decide_recompute
  <2> QED
    BY <2>1, <2>2, Probe DEF Inv, MetaTells
<1>5. SettledComplete'
  <2>1. \A h \in settled' : Counted(h) = events[h]
    BY <1>2, <1>4 DEF Inv, SettledComplete
  <2> QED
    BY <1>1, <1>2, <2>1, DataUnchanged DEF SettledComplete
<1> QED
  BY <1>1, <1>2, <1>3, <1>5, DataUnchanged DEF Inv

LEMMA StepRebuild ==
    ASSUME Inv, Rebuild PROVE Inv'
<1>1. /\ UNCHANGED <<now, events, docs, meta, wake, reader, fails, lost, settled>>
      /\ round.step = "probe" /\ round' = [round EXCEPT !.step = "scan"]
  BY DEF Rebuild
<1>2. round \in RoundRow
  BY DEF Inv, TypeOK, RoundRow
<1>3. /\ round' \in RoundRow /\ round'.step = "scan" /\ round'.hour = round.hour
      /\ round'.since = round.since /\ round'.seen = round.seen /\ round'.cursor = round.cursor
  BY <1>1, <1>2 DEF RoundRow
<1>4. round.hour \in Hours /\ round.since \in Hours /\ round.seen = {} /\ round.cursor = 0
  BY <1>1 DEF Inv, RebuildInv, RoundShape, Underway
<1>5. \A e \in events[round.hour] : ~ (e <= 0)
  <2>1. \A e \in events[round.hour] : e \in Events
    BY <1>4, CountedByGroup DEF Inv
  <2>2. \A e \in events[round.hour] : e \in Nat /\ e > 0
    BY <2>1, EventTypes
  <2> QED
    BY <2>2
<1>6. RebuildInv'
  BY <1>1, <1>3, <1>4, <1>5 DEF RebuildInv, RoundShape, Underway, SeenThere, Scanned, Written
<1>7. TypeOK'
  BY <1>1, <1>3, DataUnchanged DEF RoundRow, ReaderRow, Inv, TypeOK
<1> QED
  BY <1>1, <1>6, <1>7, DataUnchanged DEF Inv

\* The scan stays complete up to its cursor: a page leaves nothing out, and an
\* event that came after the page it belongs to is neither counted nor quiet.
LEMMA StepNextPage ==
    ASSUME Inv, NextPage PROVE Inv'
<1> DEFINE h == round.hour
           behind == {e \in events[h] : e > round.cursor}
           page == {e \in behind : Cardinality({d \in behind : d < e}) < Page}
<1>1. /\ UNCHANGED <<now, events, docs, meta, wake, reader, fails, lost, settled>>
      /\ round.step = "scan" /\ Underway
      /\ round' = IF page = {} THEN [round EXCEPT !.step = "write", !.todo = Groups]
                  ELSE [round EXCEPT !.seen = @ \cup page, !.cursor = Max(page),
                                     !.step = IF Cardinality(page) < Page THEN "write" ELSE "scan",
                                     !.todo = IF Cardinality(page) < Page THEN Groups ELSE {}]
  BY DEF NextPage, Underway
<1>2. round \in RoundRow /\ h \in Hours /\ round.since \in Hours
  BY <1>1 DEF Inv, TypeOK, RoundRow, RebuildInv, RoundShape
<1>3. events[h] \in SUBSET Events /\ behind \in SUBSET Events /\ page \in SUBSET events[h]
  BY <1>2 DEF Inv, TypeOK
<1>4. /\ page \subseteq behind /\ IsFiniteSet(page) /\ Cardinality(page) \in Nat
      /\ page # {} => Max(page) \in page /\ \A e \in behind : e <= Max(page) => e \in page
      /\ Cardinality(page) < Page => page = behind
  <2>1. page = PageOf(behind)
    BY DEF PageOf
  <2>2. behind \in SUBSET Events
    BY <1>3
  <2> HIDE DEF page, behind
  <2> QED
    BY <2>1, <2>2, PageProperties
<1>5. Cardinality(page) = 0 <=> page = {}
  BY <1>4, FS_EmptySet
<1>6. /\ round.seen \subseteq events[h]
      /\ \A e \in events[h] :
             e <= round.cursor /\ (round.quiet \/ e \in Counted(h)) => e \in round.seen
      /\ round.quiet \in BOOLEAN /\ round.cursor \in Nat
  BY <1>1, <1>2, EventTypes DEF Inv, RebuildInv, SeenThere, Scanned, Underway, RoundRow
<1>7. \A e \in events[h] : e \in Nat
  BY <1>3, EventTypes
<1>8. \A e \in events[h] : e \in behind \/ e <= round.cursor
  BY <1>6, <1>7
<1>9. Counted(h)' = Counted(h) /\ h' = round'.hour
  BY <1>1, <1>2, DataUnchanged
<1>10. round'.hour = h /\ round'.since = round.since /\ round'.quiet = round.quiet
  BY <1>1, <1>2 DEF RoundRow
<1>11. ASSUME Cardinality(page) < Page
       PROVE  round' \in RoundRow /\ RebuildInv'
  <2>1. page = behind
    BY <1>4, <1>11
  <2>2. /\ round' \in RoundRow /\ round'.step = "write" /\ round'.todo = Groups
        /\ round'.seen = round.seen \cup page
    <3>1. CASE page = {}
      BY <1>1, <1>2, <3>1 DEF RoundRow
    <3>2. CASE page # {}
      <4>1. Max(page) \in Events
        BY <1>3, <1>4, <3>2
      <4>2. round' = [round EXCEPT !.seen = @ \cup page, !.cursor = Max(page),
                                   !.step = "write", !.todo = Groups]
        BY <1>1, <1>11, <3>2
      <4> HIDE DEF page
      <4> QED
        BY <1>2, <1>3, <4>1, <4>2 DEF RoundRow
    <3> QED
      BY <3>1, <3>2
  <2>3. /\ round'.seen \subseteq events[h]
        /\ \A e \in events[h] : round.quiet \/ e \in Counted(h) => e \in round'.seen
    BY <1>3, <1>6, <1>8, <2>1, <2>2
  <2>4. RebuildInv'
    <3> HIDE DEF page, behind
    <3> QED
      BY <1>1, <1>2, <1>9, <1>10, <2>2, <2>3
      DEF RebuildInv, RoundShape, Underway, SeenThere, Scanned, Written
  <2> QED
    BY <2>2, <2>4
<1>12. ASSUME ~ (Cardinality(page) < Page)
       PROVE  round' \in RoundRow /\ RebuildInv'
  <2>1. page # {}
    BY <1>4, <1>5, <1>12, EventTypes
  <2>2. Max(page) \in Events /\ Max(page) \in behind
    BY <1>3, <1>4, <2>1
  <2>3. /\ round' \in RoundRow /\ round'.step = "scan" /\ round'.cursor = Max(page)
        /\ round'.seen = round.seen \cup page
    <3>1. round' = [round EXCEPT !.seen = @ \cup page, !.cursor = Max(page),
                                 !.step = "scan", !.todo = {}]
      BY <1>1, <1>12, <2>1
    <3> HIDE DEF page
    <3> QED
      BY <1>2, <1>3, <2>2, <3>1 DEF RoundRow
  <2>4. ASSUME NEW e \in events[h], e <= Max(page), round.quiet \/ e \in Counted(h)
        PROVE  e \in round'.seen
    BY <1>4, <1>6, <1>8, <2>1, <2>3, <2>4
  <2>5. round'.seen \subseteq events[h]
    BY <1>3, <1>6, <2>3
  <2>6. RebuildInv'
    <3> HIDE DEF page, behind
    <3> QED
      BY <1>1, <1>2, <1>9, <1>10, <2>3, <2>4, <2>5
      DEF RebuildInv, RoundShape, Underway, SeenThere, Scanned, Written
  <2> QED
    BY <2>3, <2>6
<1>13. round' \in RoundRow /\ RebuildInv'
  BY <1>11, <1>12
<1>14. TypeOK'
  <2> HIDE DEF page, behind
  <2> QED
    BY <1>1, <1>13, DataUnchanged DEF RoundRow, ReaderRow, Inv, TypeOK
<1> QED
  BY <1>1, <1>13, <1>14, DataUnchanged DEF Inv

\* What the meta documents, the requests and the settled hours rest on survives
\* documents that only gain events.
LEMMA DocsGrow ==
    ASSUME Inv, TypeOK', UNCHANGED <<events, meta, reader, settled>>,
           \A h \in Hours, g \in Groups : docs[h][g] \subseteq docs'[h][g]
    PROVE  CountsBacked' /\ ReadBacked' /\ SettledComplete'
<1>1. \A h \in Hours : /\ Counted(h) \subseteq Counted(h)'
                       /\ Cardinality(Counted(h)) <= Cardinality(Counted(h)')
  BY CountedGrows DEF Inv
<1>2. \A h \in Hours : Counted(h)' \subseteq events[h]
  <2>1. \A h \in Hours, g \in Groups : docs'[h][g] \subseteq events[h]
    BY DEF TypeOK
  <2> QED
    BY <2>1 DEF Counted
<1>3. \A h \in Hours : /\ Cardinality(Counted(h)) \in Nat /\ Cardinality(Counted(h)') \in Nat
                       /\ meta[h] \in Int /\ reader.counts[h] \in Int
  <2>1. \A h \in Hours : Counted(h) \in SUBSET Events /\ Counted(h)' \in SUBSET Events
    <3>1. \A h \in Hours : events[h] \in SUBSET Events
      BY DEF Inv, TypeOK
    <3> QED
      BY <1>2, <3>1, CountedByGroup DEF Inv
  <2>2. \A h \in Hours : meta[h] \in Int /\ reader.counts[h] \in Int
    BY DEF Inv, TypeOK, NoMeta
  <2> QED
    BY <2>1, <2>2, EventTypes
<1>4. CountsBacked'
  <2>1. \A h \in Hours : meta[h] <= Cardinality(Counted(h)')
    BY <1>1, <1>3 DEF Inv, CountsBacked
  <2> QED
    BY <2>1 DEF CountsBacked
<1>5. ReadBacked'
  <2>1. \A h \in Hours : reader.counts[h] <= Cardinality(Counted(h)')
    BY <1>1, <1>3 DEF Inv, ReadBacked
  <2> QED
    BY <2>1 DEF ReadBacked
<1>6. SettledComplete'
  <2>1. \A h \in settled : h \in Hours /\ Counted(h) = events[h]
    BY DEF Inv, SettledComplete, TypeOK
  <2>2. \A h \in settled : Counted(h)' = events[h]
    BY <1>1, <1>2, <2>1
  <2> QED
    BY <2>2 DEF SettledComplete
<1> QED
  BY <1>4, <1>5, <1>6

\* A document that is written again loses nothing: what it counted has been seen.
LEMMA StepWriteGroup ==
    ASSUME Inv, WriteGroup PROVE Inv'
<1> DEFINE h == round.hour
           todo == {x \in round.todo : OfGroup(x) # {}}
           g == Min(todo)
<1>1. /\ round.step = "write" /\ Underway /\ todo # {}
      /\ docs' = [docs EXCEPT ![h][g] = OfGroup(g)]
      /\ round' = [round EXCEPT !.todo = todo \ {g}]
      /\ UNCHANGED <<now, events, meta, wake, reader, fails, lost, settled>>
  BY DEF WriteGroup, Underway
<1>2. round \in RoundRow /\ h \in Hours /\ round.since \in Hours
  BY <1>1 DEF Inv, TypeOK, RoundRow, RebuildInv, RoundShape
<1>3. todo \subseteq Groups /\ g \in todo /\ g \in Groups
  <2>1. todo \subseteq Groups
    BY <1>2 DEF RoundRow
  <2> HIDE DEF todo
  <2> QED
    BY <1>1, <2>1, EventTypes, MinOf
<1>4. /\ round.seen \subseteq events[h]
      /\ \A e \in events[h] : round.quiet \/ e \in Counted(h) => e \in round.seen
      /\ \A x \in Groups \ round.todo : OfGroup(x) \subseteq docs[h][x]
  BY <1>1 DEF Inv, RebuildInv, SeenThere, Written
<1>5. OfGroup(g) \subseteq {e \in events[h] : GroupOf[e] = g}
  BY <1>4 DEF OfGroup
<1>6. docs[h][g] \subseteq OfGroup(g)
  <2> SUFFICES ASSUME NEW e \in docs[h][g] PROVE e \in OfGroup(g)
    OBVIOUS
  <2>1. e \in events[h] /\ GroupOf[e] = g
    BY <1>2, <1>3 DEF Inv, TypeOK
  <2>2. e \in Counted(h)
    BY <1>3 DEF Counted
  <2> QED
    BY <1>4, <2>1, <2>2 DEF OfGroup
<1> HIDE DEF g, todo, h
<1>7. docs \in [Hours -> [Groups -> SUBSET Events]] /\ events[h] \subseteq Events
  BY <1>2 DEF Inv, TypeOK
<1>8. /\ docs' \in [Hours -> [Groups -> SUBSET Events]]
      /\ \A i \in Hours, x \in Groups :
             docs'[i][x] = IF i = h /\ x = g THEN OfGroup(g) ELSE docs[i][x]
  <2>1. OfGroup(g) \in SUBSET Events
    BY <1>5, <1>7
  <2>2. docs' = [docs EXCEPT ![h][g] = OfGroup(g)]
    BY <1>1
  <2> QED
    BY <1>2, <1>3, <1>7, <2>1, <2>2
<1>9. \A i \in Hours, x \in Groups : docs'[i][x] \subseteq {e \in events[i] : GroupOf[e] = x}
  <2>1. \A i \in Hours, x \in Groups : docs[i][x] \subseteq {e \in events[i] : GroupOf[e] = x}
    BY DEF Inv, TypeOK
  <2> QED
    BY <1>5, <1>8, <2>1
<1>10. /\ round' \in RoundRow /\ round'.todo = todo \ {g}
       /\ round'.step = "write" /\ round'.hour = h /\ round'.since = round.since
       /\ round'.seen = round.seen /\ round'.quiet = round.quiet /\ round'.cursor = round.cursor
  BY <1>1, <1>2, <1>3 DEF RoundRow, h
<1>11. TypeOK'
  <2>1. \A i \in Hours, x \in Groups : docs'[i][x] \subseteq {e \in events'[i] : GroupOf[e] = x}
    BY <1>1, <1>9
  <2>2. docs' \in [Hours -> [Groups -> SUBSET Events]]
    BY <1>8
  <2> QED
    BY <1>1, <1>10, <2>1, <2>2 DEF Inv, TypeOK, RoundRow
<1>12. \A i \in Hours, x \in Groups : docs[i][x] \subseteq docs'[i][x]
  BY <1>6, <1>8
<1>13. \A x \in Groups \ round'.todo : OfGroup(x)' \subseteq docs'[h][x]
  <2> SUFFICES ASSUME NEW x \in Groups, x \notin todo \ {g} PROVE OfGroup(x)' \subseteq docs'[h][x]
    BY <1>10
  <2>1. OfGroup(x)' = OfGroup(x)
    BY <1>10 DEF OfGroup
  <2>2. CASE x = g
    BY <1>2, <1>8, <2>1, <2>2
  <2>3. CASE x # g /\ x \in round.todo
    <3>1. OfGroup(x) = {}
      BY <2>3 DEF todo
    <3> QED
      BY <2>1, <3>1
  <2>4. CASE x # g /\ x \notin round.todo
    BY <1>2, <1>4, <1>8, <2>1, <2>4
  <2> QED
    BY <2>2, <2>3, <2>4
<1>14. \A e \in events[h] : round.quiet \/ e \in Counted(h)' => e \in round.seen
  <2> SUFFICES ASSUME NEW e \in events[h], e \in Counted(h)' PROVE e \in round.seen
    BY <1>4
  <2>1. PICK x \in Groups : e \in docs'[h][x]
    BY <1>1 DEF Counted, h
  <2>2. CASE x = g
    <3>1. docs'[h][x] = OfGroup(g)
      BY <1>2, <1>8, <2>2
    <3> QED
      BY <2>1, <3>1 DEF OfGroup
  <2>3. CASE x # g
    <3>1. docs'[h][x] = docs[h][x]
      BY <1>2, <1>8, <2>3
    <3>2. e \in Counted(h)
      BY <2>1, <3>1 DEF Counted
    <3> QED
      BY <1>4, <3>2
  <2> QED
    BY <2>2, <2>3
<1>15. RebuildInv'
  <2>1. h' = h
    BY <1>10 DEF h
  <2> QED
    BY <1>1, <1>2, <1>4, <1>10, <1>13, <1>14, <2>1
    DEF RebuildInv, RoundShape, Underway, SeenThere, Scanned, Written, h
<1> QED
  BY <1>1, <1>11, <1>12, <1>15, DocsGrow DEF Inv

\* When the meta document is written, the documents count what was seen.
LEMMA StepWriteMeta ==
    ASSUME Inv, WriteMeta PROVE Inv'
<1> DEFINE h == round.hour
<1>1. /\ round.step = "write" /\ Underway
      /\ \A g \in round.todo : OfGroup(g) = {}
      /\ meta' = [meta EXCEPT ![h] = Cardinality(round.seen)]
      /\ Finish(round.quiet)
      /\ UNCHANGED <<now, events, docs, reader, fails, lost>>
  BY DEF WriteMeta, MetaLast, MetaCount, Underway
<1>2. round \in RoundRow /\ h \in Hours /\ round.quiet \in BOOLEAN
  BY <1>1 DEF Inv, TypeOK, RoundRow, RebuildInv, RoundShape
<1>3. /\ round.seen \subseteq events[h] /\ events[h] \subseteq Events
      /\ \A e \in events[h] : round.quiet \/ e \in Counted(h) => e \in round.seen
      /\ \A g \in Groups \ round.todo : OfGroup(g) \subseteq docs[h][g]
  BY <1>1, <1>2 DEF Inv, RebuildInv, SeenThere, Written, TypeOK
<1>4. /\ round' \in RoundRow /\ RebuildInv' /\ wake' \in Nat /\ settled' \subseteq Hours
      /\ settled' = IF round.quiet THEN settled \cup {h} ELSE settled
  BY <1>1, <1>2, FinishShape DEF Inv
<1>5. Counted(h) = round.seen
  <2>1. Counted(h) \subseteq round.seen
    BY <1>2, <1>3, CountedByGroup DEF Inv
  <2>2. ASSUME NEW e \in round.seen PROVE e \in Counted(h)
    <3>1. e \in Events /\ GroupOf[e] \in Groups
      BY <1>3, EventTypes
    <3>2. e \in OfGroup(GroupOf[e])
      BY DEF OfGroup
    <3>3. OfGroup(GroupOf[e]) \subseteq docs[h][GroupOf[e]]
      BY <1>1, <1>3, <3>1, <3>2
    <3> QED
      BY <3>1, <3>2, <3>3 DEF Counted
  <2> QED
    BY <2>1, <2>2
<1>6. \A i \in Hours : Counted(i)' = Counted(i)
  BY <1>1 DEF Counted
<1>7. Cardinality(round.seen) \in Nat
  BY <1>3, EventTypes
<1>8. meta \in [Hours -> Nat \cup {NoMeta}]
  BY DEF Inv, TypeOK
<1>9. /\ meta' \in [Hours -> Nat \cup {NoMeta}]
      /\ \A i \in Hours : meta'[i] = IF i = h THEN Cardinality(round.seen) ELSE meta[i]
  BY <1>1, <1>2, <1>7, <1>8
<1>10. TypeOK'
  <2> HIDE DEF h
  <2> QED
    BY <1>1, <1>4, <1>9 DEF RoundRow, Inv, TypeOK
<1>11. CountsBacked'
  <2>1. ASSUME NEW i \in Hours PROVE meta'[i] <= Cardinality(Counted(i)')
    <3>1. CASE i = h
      BY <1>5, <1>6, <1>7, <1>9, <3>1
    <3>2. CASE i # h
      BY <1>6, <1>9, <3>2 DEF Inv, CountsBacked
    <3> QED
      BY <3>1, <3>2
  <2> QED
    BY <2>1 DEF CountsBacked
<1>12. ReadBacked'
  BY <1>1, <1>6 DEF Inv, ReadBacked
<1>13. SettledComplete'
  <2>1. round.quiet => round.seen = events[h]
    BY <1>3
  <2>2. \A i \in settled' : i \in Hours /\ Counted(i) = events[i]
    BY <1>2, <1>4, <1>5, <2>1 DEF Inv, SettledComplete, TypeOK
  <2> QED
    BY <1>1, <1>6, <2>2 DEF SettledComplete
<1> QED
  BY <1>4, <1>10, <1>11, <1>12, <1>13 DEF Inv

LEMMA StepAbandon ==
    ASSUME Inv, Raise \/ Die PROVE Inv'
<1>1. /\ UNCHANGED <<now, events, docs, meta, reader, settled>>
      /\ round' = Asleep /\ wake' = now + 1
      /\ lost' = [h \in Hours |->
                      IF h \in {round.hour} \cup round.left /\ meta[h] = NoMeta THEN lost[h] + 1
                      ELSE lost[h]]
  BY DEF Raise, Die, Abandon
<1>2. fails' \in [raised : 0 .. MaxRaises, died : 0 .. MaxDeaths]
  <2>1. fails \in [raised : 0 .. MaxRaises, died : 0 .. MaxDeaths]
    BY DEF Inv, TypeOK
  <2>2. CASE Raise
    BY <2>1, <2>2, RollupAssumption DEF Raise
  <2>3. CASE Die
    BY <2>1, <2>3, RollupAssumption DEF Die
  <2> QED
    BY <2>2, <2>3
<1>3. round' \in RoundRow /\ RebuildInv'
  BY <1>1, BetweenRebuilds
<1>4. now' \in Hours /\ wake' \in Nat /\ lost' \in [Hours -> Nat]
  BY <1>1, EventTypes DEF Inv, TypeOK
<1>5. TypeOK'
  BY <1>1, <1>2, <1>3, <1>4, DataUnchanged DEF RoundRow, ReaderRow, Inv, TypeOK
<1> QED
  BY <1>1, <1>3, <1>5, DataUnchanged DEF Inv

\* A step that leaves the round and the index alone leaves the rebuild alone.
LEMMA RebuildUnchanged ==
    ASSUME Inv, UNCHANGED <<events, docs, round>>
    PROVE  RebuildInv' /\ \A h \in Hours : Counted(h)' = Counted(h)
<1>1. \A h \in Hours : Counted(h)' = Counted(h)
  BY DEF Counted
<1>2. \A g \in Groups : OfGroup(g)' = OfGroup(g)
  BY DEF OfGroup
<1>3. Underway => round.hour \in Hours
  BY DEF Inv, RebuildInv, RoundShape
<1> QED
  BY <1>1, <1>2, <1>3
  DEF Inv, RebuildInv, RoundShape, Underway, SeenThere, Scanned, Written

\* The reader's two steps: the counts it takes are backed by the documents then,
\* and still are when it reads them.
LEMMA StepCovered ==
    ASSUME Inv, NEW sharp \in BOOLEAN, NEW error \in BOOLEAN,
           _rollup_covered_hours(sharp, error)
    PROVE  Inv'
<1>1. /\ UNCHANGED <<now, events, docs, meta, round, wake, fails, lost, settled>>
      /\ reader' = IF error THEN [NoRequest EXCEPT !.step = "covered"]
                   ELSE [step |-> "covered", from |-> now - WindowHours, sharp |-> sharp,
                         counts |-> fetch_rollup_covered_hours]
  BY DEF _rollup_covered_hours
<1>2. /\ now - WindowHours \in Int
      /\ fetch_rollup_covered_hours \in [Hours -> Nat \cup {NoMeta}]
  <2>1. now \in Nat /\ WindowHours \in Nat /\ meta \in [Hours -> Nat \cup {NoMeta}]
    BY EventTypes, RollupAssumption DEF Inv, TypeOK
  <2> QED
    BY <2>1 DEF fetch_rollup_covered_hours
<1>3. reader' \in ReaderRow
  <2>1. CASE error
    <3> DEFINE none == [h \in Hours |-> NoMeta]
    <3>1. none \in [Hours -> Nat \cup {NoMeta}]
      OBVIOUS
    <3>2. reader' = [step |-> "covered", from |-> 0, sharp |-> FALSE, counts |-> none]
      BY <1>1, <2>1 DEF NoRequest
    <3> HIDE DEF none
    <3> QED
      BY <3>1, <3>2 DEF ReaderRow
  <2>2. CASE ~error
    BY <1>1, <1>2, <2>2 DEF ReaderRow
  <2> QED
    BY <2>1, <2>2
<1>4. \A h \in Hours : reader'.counts[h] = meta[h] \/ reader'.counts[h] = -1
  BY <1>1 DEF NoRequest, NoMeta, fetch_rollup_covered_hours
<1>5. RebuildInv' /\ \A h \in Hours : Counted(h)' = Counted(h)
  BY <1>1, RebuildUnchanged
<1>6. TypeOK'
  BY <1>1, <1>3 DEF Inv, TypeOK, ReaderRow
<1>7. CountsBacked' /\ SettledComplete'
  BY <1>1, <1>5 DEF Inv, CountsBacked, SettledComplete, TypeOK
<1>8. ReadBacked'
  <2>1. \A h \in Hours : Cardinality(Counted(h)) \in Nat /\ meta[h] <= Cardinality(Counted(h))
    BY CountedByGroup, EventTypes DEF Inv, CountsBacked
  <2>2. \A h \in Hours : reader'.counts[h] <= Cardinality(Counted(h))
    BY <1>4, <2>1
  <2> QED
    BY <1>5, <2>2 DEF ReadBacked
<1> QED
  BY <1>5, <1>6, <1>7, <1>8 DEF Inv

LEMMA StepAnswer ==
    ASSUME Inv, Answer PROVE Inv'
<1>1. /\ UNCHANGED <<now, events, docs, meta, round, wake, fails, lost, settled>>
      /\ reader' = NoRequest
  BY DEF Answer
<1>2. reader' \in ReaderRow /\ \A h \in Hours : reader'.counts[h] = -1
  BY <1>1 DEF NoRequest, ReaderRow, NoMeta
<1>3. RebuildInv' /\ \A h \in Hours : Counted(h)' = Counted(h)
  BY <1>1, RebuildUnchanged
<1>4. TypeOK'
  BY <1>1, <1>2 DEF Inv, TypeOK, ReaderRow
<1>5. CountsBacked' /\ SettledComplete'
  BY <1>1, <1>3 DEF Inv, CountsBacked, SettledComplete, TypeOK
<1>6. ReadBacked'
  <2>1. \A h \in Hours : Cardinality(Counted(h)) \in Nat
    BY CountedByGroup, EventTypes DEF Inv
  <2>2. \A h \in Hours : reader'.counts[h] <= Cardinality(Counted(h)')
    BY <1>2, <1>3, <2>1
  <2> QED
    BY <2>2 DEF ReadBacked
<1> QED
  BY <1>3, <1>4, <1>5, <1>6 DEF Inv

\* A late event is not counted yet, and takes the quiet of its hour away.
LEMMA StepArrive ==
    ASSUME Inv, NEW h \in Hours, NEW e \in Events, Arrive(h, e) PROVE Inv'
<1>1. /\ e \notin events[h]
      /\ events' = [events EXCEPT ![h] = @ \cup {e}]
      /\ settled' = settled \ {h}
      /\ round' = IF round.hour = h THEN [round EXCEPT !.quiet = FALSE] ELSE round
      /\ UNCHANGED <<now, docs, meta, wake, reader, fails, lost>>
  BY DEF Arrive
<1>2. /\ events \in [Hours -> SUBSET Events] /\ round \in RoundRow
      /\ \A i \in Hours, g \in Groups : docs[i][g] \subseteq {d \in events[i] : GroupOf[d] = g}
  BY DEF Inv, TypeOK, RoundRow
<1>3. /\ events' \in [Hours -> SUBSET Events]
      /\ \A i \in Hours : events'[i] = IF i = h THEN events[i] \cup {e} ELSE events[i]
  BY <1>1, <1>2
<1>4. /\ round' \in RoundRow
      /\ round'.step = round.step /\ round'.hour = round.hour /\ round'.since = round.since
      /\ round'.cursor = round.cursor /\ round'.seen = round.seen /\ round'.todo = round.todo
      /\ round'.quiet = (round.quiet /\ round.hour # h)
  BY <1>1, <1>2 DEF RoundRow
<1>5. \A i \in Hours : Counted(i)' = Counted(i)
  BY <1>1 DEF Counted
<1>6. \A g \in Groups : OfGroup(g)' = OfGroup(g)
  BY <1>4 DEF OfGroup
<1>7. \A i \in Hours, g \in Groups : docs'[i][g] \subseteq {d \in events'[i] : GroupOf[d] = g}
  BY <1>1, <1>2, <1>3
<1>8. TypeOK'
  BY <1>1, <1>3, <1>4, <1>7 DEF Inv, TypeOK, RoundRow
<1>9. RoundShape'
  <2>1. h # 0
    BY EventTypes
  <2>2. ~Underway => round'.step = "asleep" /\ round' = round
    BY <1>1, <2>1 DEF Inv, RebuildInv, RoundShape, Underway, Asleep
  <2> QED
    BY <1>4, <2>2 DEF Inv, RebuildInv, RoundShape, Underway
<1>10. e \notin Counted(h)
  BY <1>1, CountedByGroup DEF Inv
<1>11. ASSUME Underway
       PROVE  /\ round.hour \in Hours
              /\ round.seen \subseteq events'[round.hour]
              /\ \A d \in events'[round.hour] :
                     round'.quiet \/ d \in Counted(round.hour) =>
                         d \in events[round.hour] /\ (round.quiet \/ d \in Counted(round.hour))
  <2>1. round.hour \in Hours /\ round.seen \subseteq events[round.hour]
    BY <1>11 DEF Inv, RebuildInv, RoundShape, SeenThere
  <2>2. CASE round.hour = h
    BY <1>3, <1>4, <1>10, <2>1, <2>2
  <2>3. CASE round.hour # h
    BY <1>3, <1>4, <2>1, <2>3
  <2> QED
    BY <2>1, <2>2, <2>3
<1>12. SeenThere' /\ Scanned' /\ Written'
  <2>1. SeenThere'
    BY <1>4, <1>11 DEF SeenThere, Underway
  <2>2. Scanned'
    BY <1>4, <1>5, <1>11 DEF Inv, RebuildInv, Scanned, Underway
  <2>3. Written'
    BY <1>1, <1>4, <1>5, <1>6, <1>11 DEF Inv, RebuildInv, Written, Underway
  <2> QED
    BY <2>1, <2>2, <2>3
<1>13. CountsBacked' /\ ReadBacked'
  BY <1>1, <1>5 DEF Inv, CountsBacked, ReadBacked
<1>14. SettledComplete'
  <2>1. \A i \in settled' : i \in Hours /\ i # h /\ Counted(i) = events[i]
    BY <1>1 DEF Inv, SettledComplete, TypeOK
  <2>2. \A i \in settled' : Counted(i)' = events'[i]
    BY <1>3, <1>5, <2>1
  <2> QED
    BY <2>2 DEF SettledComplete
<1> QED
  BY <1>8, <1>9, <1>12, <1>13, <1>14 DEF Inv, RebuildInv

LEMMA StepIdle ==
    ASSUME Inv, Tick \/ UNCHANGED vars PROVE Inv'
<1>1. UNCHANGED <<events, docs, meta, round, wake, reader, fails, lost, settled>>
  BY DEF Tick, vars
<1>2. now' \in Hours
  <2>1. now \in Hours
    BY DEF Inv, TypeOK
  <2> QED
    BY <2>1, RollupAssumption DEF Tick, vars, Hours
<1>3. TypeOK'
  BY <1>1, <1>2 DEF Inv, TypeOK
<1> QED
  BY <1>1, <1>3, DataUnchanged, RebuildUnchanged DEF Inv

-----------------------------------------------------------------------------
(***************************************************************************)
(* The theorems.                                                           *)
(***************************************************************************)
LEMMA InitInv == Init => Inv
<1> SUFFICES ASSUME Init PROVE Inv
  OBVIOUS
<1>1. 1 \in Hours
  BY RollupAssumption DEF Hours
<1>2. round \in RoundRow /\ RebuildInv
  BY DEF Init, Asleep, RoundRow, RebuildInv, RoundShape, Underway, SeenThere, Scanned, Written
<1>3. fails \in [raised : 0 .. MaxRaises, died : 0 .. MaxDeaths]
  BY RollupAssumption DEF Init
<1>4. TypeOK
  <2>1. /\ now \in Hours /\ wake \in Nat /\ settled \subseteq Hours
        /\ meta \in [Hours -> Nat \cup {NoMeta}]
        /\ events \in [Hours -> SUBSET Events]
    BY <1>1 DEF Init
  <2>2. /\ docs \in [Hours -> [Groups -> SUBSET Events]]
        /\ \A h \in Hours, g \in Groups : docs[h][g] = {}
    BY DEF Init
  <2>3. reader \in ReaderRow
    BY DEF Init, NoRequest, ReaderRow
  <2>4. lost \in [Hours -> Nat]
    BY DEF Init
  <2> QED
    BY <1>2, <1>3, <2>1, <2>2, <2>3, <2>4 DEF TypeOK, RoundRow, ReaderRow
<1>5. \A h \in Hours : meta[h] = -1 /\ reader.counts[h] = -1
  BY DEF Init, NoRequest, NoMeta
<1>6. \A h \in Hours : Cardinality(Counted(h)) \in Nat
  <2>1. \A h \in Hours : Counted(h) \in SUBSET Events
    BY <1>4, CountedByGroup
  <2> QED
    BY <2>1, EventTypes
<1>7. CountsBacked /\ ReadBacked
  BY <1>5, <1>6 DEF CountsBacked, ReadBacked
<1> QED
  BY <1>2, <1>4, <1>7 DEF Init, Inv, SettledComplete, NoRequest

LEMMA NextInv == Inv /\ [Next]_vars => Inv'
<1> SUFFICES ASSUME Inv, [Next]_vars PROVE Inv'
  OBVIOUS
<1> QED
  BY StepBegin, StepSkip, StepRebuild, StepNextPage, StepWriteGroup, StepWriteMeta,
     StepAbandon, StepCovered, StepAnswer, StepArrive, StepIdle
  DEF Next

\* The variables keep their types, and a document counts nothing that is not in
\* the index.
THEOREM TypeCorrect == Spec => []TypeOK
<1>1. Inv => TypeOK
  BY DEF Inv
<1> QED
  BY <1>1, InitInv, NextInv, PTL DEF Spec

\* The probe of worker/rollup_job.py can be trusted, whatever page size cuts the
\* scan and wherever a round was lost: an hour whose meta document has the count
\* of its events has documents that count exactly these.
THEOREM ProbeTells == Spec => []MetaTells
<1>1. Inv => MetaTells
  BY Probe DEF Inv
<1> QED
  BY <1>1, InitInv, NextInv, PTL DEF Spec

\* An hour that was processed is complete until another event arrives.
THEOREM ProcessedComplete == Spec => []SettledComplete
<1>1. Inv => SettledComplete
  BY DEF Inv
<1> QED
  BY <1>1, InitInv, NextInv, PTL DEF Spec

-----------------------------------------------------------------------------
(***************************************************************************)
(* What the overview misses.  Only closed hours have a meta document, so   *)
(* of the hours that are covered the window cuts off the first at most.    *)
(***************************************************************************)
PastInv ==
    /\ \A h \in Hours : meta[h] # NoMeta => h < now
    /\ Underway => \A h \in {round.hour} \cup round.left : h < now
    /\ \A h \in Hours : reader.counts[h] # NoMeta =>
           reader.from <= h /\ h < reader.from + WindowHours

LEMMA StepPastRound ==
    ASSUME Inv, PastInv, run_rollup \/ Skip \/ WriteMeta PROVE PastInv'
<1>1. now' = now /\ reader' = reader /\ round \in RoundRow /\ now \in Hours
  BY DEF run_rollup, Skip, WriteMeta, Inv, TypeOK, RoundRow
<1>2. \A h \in Hours : meta'[h] # NoMeta => h < now
  <2>1. CASE WriteMeta
    <3>1. /\ meta' = [meta EXCEPT ![round.hour] = MetaCount(round.hour, round.seen)]
          /\ round.hour < now
      BY <2>1 DEF WriteMeta, Underway, PastInv
    <3> QED
      BY <3>1 DEF PastInv, Inv, TypeOK
  <2>2. CASE run_rollup \/ Skip
    BY <2>2 DEF run_rollup, Skip, PastInv
  <2> QED
    BY <2>1, <2>2
<1>3. ASSUME Underway' PROVE \A h \in {round'.hour} \cup round'.left : h < now
  <2>1. PICK left \in SUBSET Hours, since \in Hours :
            /\ left # {} /\ round' = NextHour(left, since)
            /\ \A h \in left : h < now
    <3>1. CASE run_rollup
      BY <1>1, <3>1 DEF run_rollup, _late_hour_starts
    <3>2. CASE Skip \/ WriteMeta
      <4>1. PICK quiet \in BOOLEAN : Finish(quiet)
        BY <3>2 DEF Skip, WriteMeta, Inv, TypeOK
      <4>2. round.left # {} /\ round' = NextHour(round.left, round.since)
        BY <1>3, <4>1 DEF Finish, Underway, Asleep
      <4>3. Underway /\ round.since \in Hours /\ round.left \in SUBSET Hours
        BY <1>1, <3>2 DEF Skip, WriteMeta, Underway, Inv, RebuildInv, RoundShape, RoundRow
      <4>4. \A h \in round.left : h < now
        BY <4>3 DEF PastInv
      <4> QED
        BY <4>2, <4>3, <4>4
    <3> QED
      BY <3>1, <3>2
  <2>2. round'.hour \in left /\ round'.left \subseteq left
    BY <2>1, NextHourShape
  <2> QED
    BY <2>1, <2>2
<1> QED
  BY <1>1, <1>2, <1>3 DEF PastInv

\* The window is fixed with the counts, and ends in the hour that is not covered.
LEMMA StepPastReader ==
    ASSUME Inv, PastInv,
           \/ \E sharp, error \in BOOLEAN : _rollup_covered_hours(sharp, error)
           \/ Answer
    PROVE  PastInv'
<1>1. UNCHANGED <<now, meta, round>>
  BY DEF _rollup_covered_hours, Answer
<1>2. \A h \in Hours : reader'.counts[h] # NoMeta =>
          reader'.from <= h /\ h < reader'.from + WindowHours
  <2>1. ASSUME NEW sharp \in BOOLEAN, NEW error \in BOOLEAN,
               _rollup_covered_hours(sharp, error),
               NEW h \in Hours, reader'.counts[h] # NoMeta
        PROVE  reader'.from <= h /\ h < reader'.from + WindowHours
    <3>1. ~error
      BY <2>1 DEF _rollup_covered_hours, NoRequest
    <3>2. reader'.from = now - WindowHours /\ reader'.counts = fetch_rollup_covered_hours
      BY <2>1, <3>1 DEF _rollup_covered_hours
    <3>3. now - WindowHours <= h /\ meta[h] # NoMeta
      BY <2>1, <3>2 DEF fetch_rollup_covered_hours
    <3>4. now \in Nat /\ WindowHours \in Nat /\ h \in Nat
      BY EventTypes, RollupAssumption DEF Inv, TypeOK
    <3> QED
      BY <3>2, <3>3, <3>4 DEF PastInv
  <2>2. CASE Answer
    BY <2>2 DEF Answer, NoRequest
  <2> QED
    BY <2>1, <2>2
<1> QED
  BY <1>1, <1>2 DEF PastInv, Underway

LEMMA StepPastOther ==
    ASSUME Inv, PastInv,
           \/ Rebuild \/ NextPage \/ WriteGroup \/ Raise \/ Die \/ Tick \/ UNCHANGED vars
           \/ \E h \in Hours, e \in Events : Arrive(h, e)
    PROVE  PastInv'
<1>1. round \in RoundRow
  BY DEF Inv, TypeOK, RoundRow
<1>2. meta' = meta /\ reader' = reader
  BY DEF Rebuild, NextPage, WriteGroup, Raise, Die, Abandon, Tick, vars, Arrive
<1>3. PICK n : n = now'
  OBVIOUS
<1>4. n = now \/ n = now + 1
  BY <1>3 DEF Rebuild, NextPage, WriteGroup, Raise, Die, Abandon, Tick, vars, Arrive
<1>5. ~Underway' \/ (/\ Underway /\ round'.hour = round.hour
                     /\ round'.left = round.left)
  <2>1. CASE Raise \/ Die
    BY <2>1 DEF Raise, Die, Abandon, Underway, Asleep
  <2>2. CASE Rebuild \/ NextPage \/ WriteGroup
    <3>1. round'.hour = round.hour /\ round'.left = round.left
      BY <1>1, <2>2 DEF Rebuild, NextPage, WriteGroup, RoundRow
    <3>2. Underway /\ round'.step # "asleep"
      BY <1>1, <2>2 DEF Rebuild, NextPage, WriteGroup, Underway, RoundRow
    <3> QED
      BY <3>1, <3>2 DEF Underway
  <2>3. CASE Tick \/ UNCHANGED vars \/ \E h \in Hours, e \in Events : Arrive(h, e)
    BY <1>1, <2>3 DEF Tick, vars, Arrive, Underway, RoundRow
  <2> QED
    BY <2>1, <2>2, <2>3
<1>6. now \in Nat /\ (Underway => {round.hour} \cup round.left \subseteq Hours)
  BY <1>1, EventTypes DEF Inv, TypeOK, RebuildInv, RoundShape, RoundRow
<1>7. \A h \in Hours : h < now => h < n
  BY <1>4, <1>6, EventTypes
<1> QED
  BY <1>2, <1>3, <1>5, <1>6, <1>7 DEF PastInv

LEMMA InitPast == Init => PastInv
BY DEF Init, Asleep, NoRequest, PastInv, Underway

LEMMA NextPast == Inv /\ PastInv /\ [Next]_vars => PastInv'
BY StepPastRound, StepPastReader, StepPastOther DEF Next

LEMMA MissedOnly == Inv /\ PastInv => CoveredComplete
<1> SUFFICES ASSUME Inv, PastInv, reader.step = "covered", NEW error \in BOOLEAN,
                    NEW h \in Hours
             PROVE  h \in Missed(error) <=>
                        /\ reader.counts[h] > 0
                        /\ error \/ (h = reader.from /\ ~reader.sharp)
  BY DEF CoveredComplete, Missed
<1> DEFINE read == _rollup_request_docs(error)[h]
<1>1. h \in Missed(error) <=> Cardinality(read) < reader.counts[h]
  BY DEF Missed
<1>2. read = IF ~error /\ h \in fetch_rollup_hits THEN Counted(h) ELSE {}
  BY DEF _rollup_request_docs
<1>3. /\ Cardinality(Counted(h)) \in Nat /\ reader.counts[h] <= Cardinality(Counted(h))
      /\ reader.counts[h] \in Nat \cup {-1}
      /\ reader.from \in Int /\ reader.sharp \in BOOLEAN /\ h \in Nat /\ WindowHours \in Nat
  BY CountedByGroup, EventTypes, RollupAssumption DEF Inv, ReadBacked, TypeOK, NoMeta
<1>4. Cardinality({}) = 0
  BY FS_EmptySet
<1>5. ASSUME reader.counts[h] > 0
      PROVE  h \in fetch_rollup_hits <=> ~ (h = reader.from /\ ~reader.sharp)
  <2>1. reader.from <= h /\ h < reader.from + WindowHours
    BY <1>3, <1>5 DEF PastInv, NoMeta
  <2>2. (h > reader.from \/ (h = reader.from /\ reader.sharp))
           <=> ~ (h = reader.from /\ ~reader.sharp)
    BY <1>3, <2>1
  <2> QED
    BY <2>1, <2>2 DEF fetch_rollup_hits
<1> HIDE DEF read
<1>6. CASE error \/ h \notin fetch_rollup_hits
  <2>1. Cardinality(read) = 0
    BY <1>2, <1>4, <1>6
  <2> QED
    BY <1>1, <1>3, <1>5, <1>6, <2>1
<1>7. CASE ~error /\ h \in fetch_rollup_hits
  <2>1. Cardinality(read) = Cardinality(Counted(h))
    BY <1>2, <1>7
  <2> QED
    BY <1>1, <1>3, <1>5, <1>7, <2>1
<1> QED
  BY <1>6, <1>7

\* Of the hours that the overview takes to be covered, it misses the one that its
\* window starts within, and all of them when the read of the documents fails;
\* it misses nothing else, however the two reads fall into a rebuild.
THEOREM ReadComplete == Spec => []CoveredComplete
BY InitInv, InitPast, NextInv, NextPast, MissedOnly, PTL DEF Spec

-----------------------------------------------------------------------------
(***************************************************************************)
(* No hour falls out of the window without documents.  Rounds start at     *)
(* most RoundHours + 1 hours apart, lost or not, so an hour without a meta *)
(* document has been missed by lost rounds that had it to do only, and the *)
(* next round that can take it comes before the window has passed it.      *)
(***************************************************************************)
Apart == RoundHours + 1

\* The latest start of a round for an hour that lost rounds have missed.
LatestStart(h) == h + (lost[h] + 1) * Apart

ClockInv == IF Underway THEN now <= round.since + RoundHours ELSE now <= wake

WindowInv ==
    \A h \in Hours : meta[h] = NoMeta /\ (lost[h] + 1) * Apart <= LateK =>
        IF ~Underway THEN wake <= LatestStart(h)
        ELSE IF h \in {round.hour} \cup round.left THEN round.since <= LatestStart(h)
        ELSE round.since <= h

GapInv == ClockInv /\ WindowInv

LEMMA LostTypes ==
    ASSUME TypeOK
    PROVE  /\ Apart \in Nat \ {0}
           /\ \A h \in Hours : /\ lost[h] \in Nat /\ (lost[h] + 1) * Apart \in Nat
                               /\ Apart <= (lost[h] + 1) * Apart
           /\ now \in Nat /\ wake \in Nat /\ round.since \in Nat
<1>1. Apart \in Nat \ {0} /\ \A h \in Hours : lost[h] \in Nat
  BY RollupAssumption DEF TypeOK, Apart
<1>2. \A l \in Nat : (l + 1) * Apart = l * Apart + Apart /\ l * Apart \in Nat
  BY <1>1
<1>3. now \in Nat /\ wake \in Nat /\ round.since \in Nat
  <2>1. now \in Hours /\ wake \in Nat /\ round \in RoundRow
    BY DEF TypeOK, RoundRow
  <2>2. round.since = 0 \/ round.since \in Hours
    BY <2>1 DEF RoundRow
  <2>3. \A h \in Hours : h \in Nat
    BY EventTypes
  <2> QED
    BY <2>1, <2>2, <2>3
<1>4. \A h \in Hours : (lost[h] + 1) * Apart \in Nat /\ Apart <= (lost[h] + 1) * Apart
  <2> SUFFICES ASSUME NEW h \in Hours
               PROVE  (lost[h] + 1) * Apart \in Nat /\ Apart <= (lost[h] + 1) * Apart
    OBVIOUS
  <2>1. PICK m \in Nat : m = lost[h] * Apart /\ (lost[h] + 1) * Apart = m + Apart
    BY <1>1, <1>2
  <2> QED
    BY <1>1, <2>1
<1> QED
  BY <1>1, <1>3, <1>4

\* A round that is lost costs the hours it had to do one more start.
LEMMA LostOneMore ==
    ASSUME TypeOK, Raise \/ Die, NEW h \in Hours, meta[h] = NoMeta
    PROVE  (lost'[h] + 1) * Apart =
               IF h \in {round.hour} \cup round.left THEN (lost[h] + 1) * Apart + Apart
               ELSE (lost[h] + 1) * Apart
<1>1. lost' = [i \in Hours |->
                   IF i \in {round.hour} \cup round.left /\ meta[i] = NoMeta THEN lost[i] + 1
                   ELSE lost[i]]
  BY DEF Raise, Die, Abandon
<1>2. PICK l : l = lost'[h]
  OBVIOUS
<1>3. l = IF h \in {round.hour} \cup round.left THEN lost[h] + 1 ELSE lost[h]
  BY <1>1, <1>2
<1>4. lost[h] \in Nat /\ Apart \in Nat
  BY LostTypes
<1>5. \A a, r \in Nat : (a + 1 + 1) * r = (a + 1) * r + r
  OBVIOUS
<1>6. (l + 1) * Apart = IF h \in {round.hour} \cup round.left THEN (lost[h] + 1) * Apart + Apart
                        ELSE (lost[h] + 1) * Apart
  BY <1>3, <1>4, <1>5
<1> QED
  BY <1>2, <1>6

LEMMA StepGapBegin ==
    ASSUME Inv, GapInv, run_rollup PROVE GapInv'
<1> DEFINE window == _late_hour_starts(now)
<1>1. /\ ~Underway /\ wake <= now /\ window # {}
      /\ UNCHANGED <<now, meta, wake, lost>>
      /\ round' = NextHour(window, now)
  BY LostTypes DEF run_rollup, Underway, Inv
<1>2. now \in Hours /\ window \in SUBSET Hours
  BY DEF Inv, TypeOK, _late_hour_starts
<1>3. /\ round' = [step |-> "probe", hour |-> Min(window), left |-> window \ {Min(window)},
                   since |-> now, cursor |-> 0, seen |-> {}, todo |-> {}, quiet |-> TRUE]
      /\ Min(window) \in window
  BY <1>1, <1>2, NextHourShape
<1>4. now \in Nat /\ wake \in Nat /\ RoundHours \in Nat /\ LateK \in Nat
  BY LostTypes, EventTypes DEF Inv
<1>5. now = wake
  BY <1>1, <1>4 DEF GapInv, ClockInv
<1>6. {round'.hour} \cup round'.left = window /\ round'.since = now /\ Underway'
  BY <1>1, <1>3 DEF Underway
<1>7. ClockInv'
  BY <1>1, <1>4, <1>6 DEF ClockInv
<1>8. ASSUME NEW h \in Hours, (lost[h] + 1) * Apart <= LateK, meta[h] = NoMeta
      PROVE  IF h \in window THEN now <= LatestStart(h) ELSE now <= h
  <2> DEFINE d == (lost[h] + 1) * Apart
  <2>1. d \in Nat /\ h \in Nat /\ d <= LateK
    BY <1>8, LostTypes, EventTypes DEF Inv
  <2>2. now <= h + d
    BY <1>1, <1>5, <1>8 DEF GapInv, WindowInv, LatestStart
  <2>3. h \notin window => ~ (now - LateK <= h /\ h < now)
    BY DEF _late_hour_starts
  <2>4. LatestStart(h) = h + d
    BY DEF LatestStart
  <2> HIDE DEF d
  <2> QED
    BY <1>4, <2>1, <2>2, <2>3, <2>4
<1>9. WindowInv'
  <2>1. \A h \in Hours : LatestStart(h)' = LatestStart(h)
    BY <1>1 DEF LatestStart, Apart
  <2> HIDE DEF window
  <2> QED
    BY <1>1, <1>6, <1>8, <2>1 DEF WindowInv, Apart
<1> QED
  BY <1>7, <1>9 DEF GapInv

\* An hour that is done has a meta document.
LEMMA StepGapFinish ==
    ASSUME Inv, GapInv, Skip \/ WriteMeta PROVE GapInv'
<1> DEFINE h == round.hour
<1>1. PICK quiet \in BOOLEAN : Finish(quiet)
  BY DEF Skip, WriteMeta, Inv, TypeOK
<1>2. Underway /\ UNCHANGED <<now, lost>> /\ h \in Hours /\ round.since \in Hours
  BY DEF Skip, WriteMeta, Underway, Inv, RebuildInv, RoundShape
<1>3. \A i \in Hours : meta'[i] = NoMeta => meta[i] = NoMeta /\ i # h
  <2>1. CASE Skip
    BY <2>1 DEF Skip, _decide_recompute
  <2>2. CASE WriteMeta
    <3>1. meta' = [meta EXCEPT ![h] = Cardinality(round.seen)]
      BY <2>2 DEF WriteMeta, MetaCount
    <3>2. Cardinality(round.seen) \in Nat
      BY EventTypes DEF Inv, TypeOK
    <3>3. Cardinality(round.seen) # NoMeta
      BY <3>2 DEF NoMeta
    <3> QED
      BY <1>2, <3>1, <3>3 DEF Inv, TypeOK
  <2> QED
    BY <2>1, <2>2
<1>4. /\ now \in Nat /\ wake \in Nat /\ RoundHours \in Nat /\ round.since \in Nat
      /\ Apart = RoundHours + 1
  BY LostTypes, EventTypes DEF Inv, Apart
<1>5. \A i \in Hours : LatestStart(i)' = LatestStart(i)
  BY <1>2 DEF LatestStart, Apart
<1>6. now <= round.since + RoundHours
  BY <1>2 DEF GapInv, ClockInv
<1>7. \A i \in Hours : /\ LatestStart(i) = i + (lost[i] + 1) * Apart /\ i \in Nat
                       /\ (lost[i] + 1) * Apart \in Nat /\ Apart <= (lost[i] + 1) * Apart
  BY LostTypes, EventTypes DEF LatestStart, Inv
<1>8. ASSUME round.left = {} PROVE GapInv'
  <2>1. ~Underway' /\ wake' = now + 1
    BY <1>1, <1>8 DEF Finish, Underway, Asleep
  <2>2. ClockInv'
    BY <1>2, <1>4, <2>1 DEF ClockInv
  <2>3. ASSUME NEW i \in Hours, (lost[i] + 1) * Apart <= LateK, meta'[i] = NoMeta
        PROVE  wake' <= LatestStart(i)
    <3>1. round.since <= i
      BY <1>2, <1>3, <1>8, <2>3 DEF GapInv, WindowInv
    <3> DEFINE d == (lost[i] + 1) * Apart
    <3>2. d \in Nat /\ RoundHours + 1 <= d /\ LatestStart(i) = i + d /\ i \in Nat
      BY <1>4, <1>7
    <3> HIDE DEF d
    <3> QED
      BY <1>4, <1>6, <2>1, <3>1, <3>2
  <2>4. WindowInv'
    BY <1>2, <1>5, <2>1, <2>3 DEF WindowInv, Apart
  <2> QED
    BY <2>2, <2>4 DEF GapInv
<1>9. ASSUME round.left # {} PROVE GapInv'
  <2>1. round.left \in SUBSET Hours
    BY DEF Inv, TypeOK
  <2>2. /\ Underway' /\ round'.since = round.since
        /\ {round'.hour} \cup round'.left = round.left
    <3>1. round' = NextHour(round.left, round.since)
      BY <1>1, <1>9 DEF Finish
    <3>2. /\ Min(round.left) \in round.left /\ round'.step = "probe"
          /\ round'.hour = Min(round.left) /\ round'.left = round.left \ {Min(round.left)}
          /\ round'.since = round.since
      BY <1>2, <1>9, <2>1, <3>1, NextHourShape
    <3> QED
      BY <3>2 DEF Underway
  <2>3. ClockInv'
    BY <1>2, <1>6, <2>2 DEF ClockInv
  <2>4. ASSUME NEW i \in Hours, (lost[i] + 1) * Apart <= LateK, meta'[i] = NoMeta
        PROVE  IF i \in round.left THEN round.since <= LatestStart(i) ELSE round.since <= i
    BY <1>2, <1>3, <2>4 DEF GapInv, WindowInv
  <2>5. WindowInv'
    BY <1>2, <1>5, <2>2, <2>4 DEF WindowInv, Apart
  <2> QED
    BY <2>3, <2>5 DEF GapInv
<1> QED
  BY <1>8, <1>9

LEMMA StepGapAbandon ==
    ASSUME Inv, GapInv, Raise \/ Die PROVE GapInv'
<1>1. Underway /\ UNCHANGED <<now, meta>> /\ ~Underway' /\ wake' = now + 1
  BY DEF Raise, Die, Abandon, Underway, Asleep
<1>2. /\ now \in Nat /\ wake \in Nat /\ RoundHours \in Nat /\ round.since \in Nat
      /\ Apart = RoundHours + 1 /\ LateK \in Nat
  BY LostTypes, EventTypes DEF Inv, Apart
<1>3. now <= round.since + RoundHours
  BY <1>1 DEF GapInv, ClockInv
<1>4. ASSUME NEW i \in Hours, meta[i] = NoMeta, NEW e, e = (lost'[i] + 1) * Apart, e <= LateK
      PROVE  wake' <= i + e
  <2> DEFINE d == (lost[i] + 1) * Apart
             had == i \in {round.hour} \cup round.left
  <2>1. d \in Nat /\ Apart <= d /\ i \in Nat
    BY LostTypes, EventTypes DEF Inv
  <2>2. e = IF had THEN d + Apart ELSE d
    BY <1>4, LostOneMore DEF Inv
  <2>3. d <= LateK
    <3> HIDE DEF d, had
    <3> QED
      BY <1>2, <1>4, <2>1, <2>2
  <2>4. IF had THEN round.since <= i + d ELSE round.since <= i
    BY <1>1, <1>4, <2>3 DEF GapInv, WindowInv, LatestStart
  <2> HIDE DEF d, had
  <2> QED
    BY <1>1, <1>2, <1>3, <2>1, <2>2, <2>4
<1>5. WindowInv'
  <2> SUFFICES ASSUME NEW i \in Hours, meta'[i] = NoMeta, (lost'[i] + 1) * Apart' <= LateK
               PROVE  wake' <= LatestStart(i)'
    BY <1>1 DEF WindowInv
  <2>1. PICK e : e = (lost'[i] + 1) * Apart
    OBVIOUS
  <2>2. Apart' = Apart /\ LatestStart(i)' = i + e
    BY <2>1 DEF LatestStart, Apart
  <2>3. e <= LateK /\ meta[i] = NoMeta
    BY <1>1, <2>1, <2>2
  <2> QED
    BY <1>4, <2>1, <2>2, <2>3
<1>6. ClockInv'
  BY <1>1, <1>2 DEF ClockInv
<1> QED
  BY <1>5, <1>6 DEF GapInv

\* No other step takes or ends a round; the clock waits for both.
LEMMA StepGapOther ==
    ASSUME Inv, GapInv,
           \/ Rebuild \/ NextPage \/ WriteGroup \/ Answer \/ Tick \/ UNCHANGED vars
           \/ \E sharp, error \in BOOLEAN : _rollup_covered_hours(sharp, error)
           \/ \E h \in Hours, e \in Events : Arrive(h, e)
    PROVE  GapInv'
<1>1. round \in RoundRow
  BY DEF Inv, TypeOK, RoundRow
<1>2. /\ UNCHANGED <<meta, wake, lost>>
      /\ Underway' = Underway /\ round'.hour = round.hour /\ round'.left = round.left
      /\ round'.since = round.since
  BY <1>1 DEF Rebuild, NextPage, WriteGroup, _rollup_covered_hours, Answer,
              Tick, vars, Arrive, Underway, RoundRow
<1>3. now' = now \/ Tick
  BY DEF Rebuild, NextPage, WriteGroup, _rollup_covered_hours, Answer, vars, Arrive
<1>4. ClockInv'
  BY <1>2, <1>3, LostTypes, EventTypes DEF GapInv, ClockInv, Tick, Underway, Inv
<1>5. WindowInv'
  BY <1>2 DEF GapInv, WindowInv, LatestStart, Apart
<1> QED
  BY <1>4, <1>5 DEF GapInv

LEMMA InitGap == Init => GapInv
<1> SUFFICES ASSUME Init PROVE GapInv
  OBVIOUS
<1>1. /\ ~Underway /\ now = 1 /\ wake = 2 /\ \A h \in Hours : lost[h] = 0
  BY DEF Init, Underway, Asleep
<1>2. Apart \in Nat \ {0} /\ \A h \in Hours : h \in Nat \ {0}
  BY EventTypes DEF Apart
<1>3. \A h \in Hours : LatestStart(h) = h + Apart
  BY <1>1, <1>2 DEF LatestStart
<1>4. \A h \in Hours : wake <= LatestStart(h)
  BY <1>1, <1>2, <1>3
<1> QED
  BY <1>1, <1>4 DEF GapInv, ClockInv, WindowInv

LEMMA NextGap == Inv /\ GapInv /\ [Next]_vars => GapInv'
BY StepGapBegin, StepGapFinish, StepGapAbandon, StepGapOther DEF Next

\* In every state of both invariants no hour has been passed over.
LEMMA GapClosed == Inv /\ GapInv => NoGap
<1> SUFFICES ASSUME Inv, GapInv,
                    NEW h \in Hours, h \notin {round.hour} \cup round.left,
                    h < now - LateK, lost[h] < LateK \div (RoundHours + 1), meta[h] = NoMeta
             PROVE  FALSE
  BY DEF NoGap
<1> DEFINE d == (lost[h] + 1) * Apart
<1>1. /\ lost[h] \in Nat /\ Apart \in Nat \ {0} /\ d \in Nat /\ Apart <= d
      /\ now \in Nat /\ wake \in Nat /\ round.since \in Nat
      /\ LateK \in Nat /\ RoundHours \in Nat /\ h \in Nat
  BY LostTypes, EventTypes DEF Inv
<1>2. lost[h] < LateK \div Apart
  BY DEF Apart
<1>3. d <= LateK
  <2>1. \A n, l \in Nat, r \in Nat \ {0} : l < n \div r => (l + 1) * r <= n
    OBVIOUS
  <2> QED
    BY <1>1, <1>2, <2>1
<1>4. ~Underway => now <= wake /\ wake <= h + d
  BY <1>3 DEF GapInv, ClockInv, WindowInv, LatestStart
<1>5. Underway => now <= round.since + RoundHours /\ round.since <= h
  BY <1>3 DEF GapInv, ClockInv, WindowInv, LatestStart
<1>6. Apart = RoundHours + 1
  BY DEF Apart
<1> HIDE DEF d
<1> QED
  BY <1>1, <1>3, <1>4, <1>5, <1>6

\* An hour that falls out of the window without documents has been lost by
\* LateK \div (RoundHours + 1) rounds that had it to do; rounds lost before the
\* hour or after it do not count, however many there were in the worker's life.
THEOREM NoHourLost == Spec => []NoGap
BY InitInv, InitGap, NextInv, NextGap, GapClosed, PTL DEF Spec

=============================================================================
