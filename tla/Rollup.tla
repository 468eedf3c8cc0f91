------------------------------- MODULE Rollup -------------------------------
(***************************************************************************)
(* Hourly aggregation of the event index (worker/rollup_job.py) and the    *)
(* page that reads it (api/metrics.py, window 7d).  A round looks at the   *)
(* last LateK closed hours.  An hour is rebuilt when the count in its meta *)
(* document is not the count of its events, by paging through the events   *)
(* and writing one document per group, then the meta document.             *)
(*                                                                         *)
(* The index only grows: an event that is delivered again overwrites       *)
(* itself.  Events of a closed hour may arrive late, also between two      *)
(* pages of the rebuild.                                                   *)
(***************************************************************************)
EXTENDS Integers, FiniteSets, FiniteSetsExt

CONSTANTS
    Events,         \* what may happen in an hour, numbered as search_after sorts
    GroupOf,        \* agent, interface, node and model of an event
    LateK,          \* rollup_late_k_h
    Page,           \* _PAGE
    RoundHours,     \* how many hours a round may take
    WindowHours,    \* the hours of the overview's window, 168 for 7d
    Busy,           \* the hours that have events, a bound
    MaxHour, MaxEvents, MaxRaises, MaxDeaths    \* bounds

Hours == 1 .. MaxHour
Groups == {GroupOf[e] : e \in Events}

ASSUME RollupAssumption ==
    /\ Events \subseteq Nat \ {0} /\ IsFiniteSet(Events)
    /\ GroupOf \in [Events -> Nat]
    /\ LateK \in Nat \ {0} /\ Page \in Nat \ {0} /\ RoundHours \in Nat
    /\ WindowHours \in Nat \ {0}
    /\ MaxHour \in Nat \ {0} /\ MaxEvents \in Nat
    /\ MaxRaises \in Nat /\ MaxDeaths \in Nat

VARIABLES
    now,        \* the hour that runs
    events,     \* the event index, by hour
    docs,       \* the group documents of an hour, as the events they count
    meta,       \* source_count of the hour's meta document, or NoMeta
    round,      \* the round that runs
    wake,       \* the hour of the next round
    reader,     \* a request of the 7d overview
    fails,      \* rounds in which a call raised, or the process died
    lost,       \* history: rounds that ended so and left an hour without documents
    settled     \* history: hours processed with no event since that began

vars == <<now, events, docs, meta, round, wake, reader, fails, lost, settled>>

NoMeta == -1
Asleep == [step |-> "asleep", hour |-> 0, left |-> {}, since |-> 0, cursor |-> 0, seen |-> {},
           todo |-> {}, quiet |-> TRUE]
NoRequest == [step |-> "none", from |-> 0, sharp |-> FALSE,
              counts |-> [h \in Hours |-> NoMeta]]

Init ==
    /\ now = 1
    /\ events = [h \in Hours |-> {}]
    /\ docs = [h \in Hours |-> [g \in Groups |-> {}]]
    /\ meta = [h \in Hours |-> NoMeta]
    /\ round = Asleep
    /\ wake = 2
    /\ reader = NoRequest
    /\ fails = [raised |-> 0, died |-> 0]
    /\ lost = [h \in Hours |-> 0]
    /\ settled = {}

Counted(h) == UNION {docs[h][g] : g \in Groups}

(***************************************************************************)
(* A round.  Its window is fixed when it starts, oldest hour first.        *)
(***************************************************************************)

\* A mutated window, one hour short.
Window_short(n) == {h \in Hours : n - LateK < h /\ h < n}

_late_hour_starts(n) == {h \in Hours : n - LateK <= h /\ h < n}

\* The oldest hour that is left.
NextHour(left, since) ==
    [Asleep EXCEPT !.step = "probe", !.since = since,
                   !.hour = Min(left), !.left = left \ {Min(left)}]

run_rollup ==
    /\ round.step = "asleep" /\ now >= wake
    /\ _late_hour_starts(now) # {}
    /\ round' = NextHour(_late_hour_starts(now), now)
    /\ UNCHANGED <<now, events, docs, meta, wake, reader, fails, lost, settled>>

\* The hour is done: on to the next one, or asleep until the next full hour.
Finish(quiet) ==
    /\ settled' = IF quiet THEN settled \cup {round.hour} ELSE settled
    /\ IF round.left = {}
       THEN round' = Asleep /\ wake' = now + 1
       ELSE round' = NextHour(round.left, round.since) /\ wake' = wake

\* A mutated probe: an hour with a meta document is done.
Recompute_missing(h) == meta[h] = NoMeta

_decide_recompute(h) == meta[h] = NoMeta \/ meta[h] # Cardinality(events[h])

Skip ==
    /\ round.step = "probe" /\ ~_decide_recompute(round.hour)
    /\ Finish(TRUE)
    /\ UNCHANGED <<now, events, docs, meta, reader, fails, lost>>

Rebuild ==
    /\ round.step = "probe" /\ _decide_recompute(round.hour)
    /\ round' = [round EXCEPT !.step = "scan"]
    /\ UNCHANGED <<now, events, docs, meta, wake, reader, fails, lost, settled>>

\* The next page: the first events behind the cursor.
NextPage ==
    LET behind == {e \in events[round.hour] : e > round.cursor}
        page == {e \in behind : Cardinality({d \in behind : d < e}) < Page}
    IN
    /\ round.step = "scan"
    /\ round' =
        IF page = {} THEN [round EXCEPT !.step = "write", !.todo = Groups]
        ELSE [round EXCEPT !.seen = @ \cup page, !.cursor = Max(page),
                           !.step = IF Cardinality(page) < Page THEN "write" ELSE "scan",
                           !.todo = IF Cardinality(page) < Page THEN Groups ELSE {}]
    /\ UNCHANGED <<now, events, docs, meta, wake, reader, fails, lost, settled>>

\* A mutated grouping.
OfGroup_or_later(g) == {e \in round.seen : GroupOf[e] >= g}

OfGroup(g) == {e \in round.seen : GroupOf[e] = g}

\* A mutated order of writing: the meta document whenever it is ready.
MetaLast_never(todo) == todo = todo

MetaLast(todo) == todo = {}

\* The groups of the scan in order; a group without events has no document.
WriteGroup ==
    LET todo == {g \in round.todo : OfGroup(g) # {}}
        g == Min(todo)
    IN
    /\ round.step = "write" /\ todo # {}
    /\ docs' = [docs EXCEPT ![round.hour][g] = OfGroup(g)]
    /\ round' = [round EXCEPT !.todo = todo \ {g}]
    /\ UNCHANGED <<now, events, meta, wake, reader, fails, lost, settled>>

\* A mutated count: the events are counted again.
MetaCount_again(h, seen) == Cardinality(events[h])

MetaCount(h, seen) == Cardinality(seen)

WriteMeta ==
    /\ round.step = "write"
    /\ MetaLast({g \in round.todo : OfGroup(g) # {}})
    /\ meta' = [meta EXCEPT ![round.hour] = MetaCount(round.hour, round.seen)]
    /\ Finish(round.quiet)
    /\ UNCHANGED <<now, events, docs, reader, fails, lost>>

\* The round is over, the worker sleeps until the next full hour: nothing
\* catches an exception of one hour.
Abandon ==
    /\ round.step # "asleep"
    /\ round' = Asleep
    /\ wake' = now + 1
    /\ lost' = [h \in Hours |->
                    IF h \in {round.hour} \cup round.left /\ meta[h] = NoMeta THEN lost[h] + 1
                    ELSE lost[h]]
    /\ UNCHANGED <<now, events, docs, meta, reader, settled>>

Raise ==
    /\ fails.raised < MaxRaises
    /\ fails' = [fails EXCEPT !.raised = @ + 1]
    /\ Abandon

Die ==
    /\ fails.died < MaxDeaths
    /\ fails' = [fails EXCEPT !.died = @ + 1]
    /\ Abandon

(***************************************************************************)
(* The overview of the last 7 days: which hours are covered, then the      *)
(* documents of the window.  The window ends when the request comes, as a  *)
(* rule within the hour `now` and exactly on the hour if it is `sharp`.    *)
(* Either read may fail, which the page takes for an empty answer.  Left   *)
(* out are the filter by agent and node, which selects whole groups, and   *)
(* the limit of 10000 documents.                                           *)
(***************************************************************************)

\* Meta documents are compared by the hours that the window starts and ends in.
fetch_rollup_covered_hours ==
    [h \in Hours |-> IF now - WindowHours <= h /\ h <= now THEN meta[h] ELSE NoMeta]

_rollup_covered_hours(sharp, error) ==
    /\ reader.step = "none"
    /\ reader' = IF error THEN [NoRequest EXCEPT !.step = "covered"]
                 ELSE [step |-> "covered", from |-> now - WindowHours, sharp |-> sharp,
                       counts |-> fetch_rollup_covered_hours]
    /\ UNCHANGED <<now, events, docs, meta, round, wake, fails, lost, settled>>

\* Group documents are compared by their time, the start of their hour.
fetch_rollup_hits ==
    LET until == reader.from + WindowHours IN
    {h \in Hours : /\ h > reader.from \/ (h = reader.from /\ reader.sharp)
                   /\ h < until \/ (h = until /\ ~reader.sharp)}

\* The events that the documents count which are read, by hour.
_rollup_request_docs(error) ==
    [h \in Hours |-> IF ~error /\ h \in fetch_rollup_hits THEN Counted(h) ELSE {}]

\* The documents are read, the percentiles merged from them, the page answered.
Answer ==
    /\ reader.step = "covered"
    /\ reader' = NoRequest
    /\ UNCHANGED <<now, events, docs, meta, round, wake, fails, lost, settled>>

(***************************************************************************)
(* Environment: events, in time or late, and the clock.  A round starts in *)
(* its hour and takes at most RoundHours; a request sees one full hour     *)
(* come, if any.                                                           *)
(***************************************************************************)
Arrive(h, e) ==
    /\ h \in Busy /\ h <= now /\ e \notin events[h]
    /\ Cardinality(UNION {{i} \X events[i] : i \in Hours}) < MaxEvents
    /\ events' = [events EXCEPT ![h] = @ \cup {e}]
    /\ settled' = settled \ {h}
    /\ round' = IF round.hour = h THEN [round EXCEPT !.quiet = FALSE] ELSE round
    /\ UNCHANGED <<now, docs, meta, wake, reader, fails, lost>>

Tick ==
    /\ now < MaxHour
    /\ IF round.step = "asleep" THEN now < wake ELSE now < round.since + RoundHours
    /\ reader.step = "covered" => now <= reader.from + WindowHours
    /\ now' = now + 1
    /\ UNCHANGED <<events, docs, meta, round, wake, reader, fails, lost, settled>>

Next ==
    \/ run_rollup \/ Skip \/ Rebuild \/ NextPage \/ WriteGroup \/ WriteMeta \/ Raise \/ Die
    \/ \E sharp, error \in BOOLEAN : _rollup_covered_hours(sharp, error)
    \/ Answer
    \/ \E h \in Hours, e \in Events : Arrive(h, e)
    \/ Tick

Spec == Init /\ [][Next]_vars

(***************************************************************************)
(* Properties                                                              *)
(***************************************************************************)

\* The variables keep their types; a document counts events of its own group
\* and nothing that is not in the index.
TypeOK ==
    /\ now \in Hours /\ wake \in Nat
    /\ events \in [Hours -> SUBSET Events]
    /\ docs \in [Hours -> [Groups -> SUBSET Events]]
    /\ \A h \in Hours, g \in Groups :
           docs[h][g] \subseteq {e \in events[h] : GroupOf[e] = g}
    /\ meta \in [Hours -> Nat \cup {NoMeta}]
    /\ round \in [step : {"asleep", "probe", "scan", "write"}, hour : {0} \cup Hours,
                  left : SUBSET Hours, since : {0} \cup Hours, cursor : {0} \cup Events,
                  seen : SUBSET Events, todo : SUBSET Groups, quiet : BOOLEAN]
    /\ reader \in [step : {"none", "covered"}, from : Int, sharp : BOOLEAN,
                   counts : [Hours -> Nat \cup {NoMeta}]]
    /\ fails \in [raised : 0 .. MaxRaises, died : 0 .. MaxDeaths]
    /\ lost \in [Hours -> Nat]
    /\ settled \subseteq Hours

\* The cheap probe can be trusted: when the meta document has the count of
\* the events, the group documents count exactly these, whatever arrived
\* between two pages and wherever an earlier round was cut off.
MetaTells ==
    \A h \in Hours : meta[h] = Cardinality(events[h]) => Counted(h) = events[h]

\* An hour that was processed is complete until another event arrives: no
\* late event of the window is passed over.
SettledComplete == \A h \in settled : Counted(h) = events[h]

\* However its two reads fall into a rebuild, the page misses events of an hour
\* it takes to be covered in two cases and no other: the read of the documents
\* fails, or the window starts within the hour, which counts as covered while its
\* documents lie before the window.
Missed(error) ==
    {h \in Hours : Cardinality(_rollup_request_docs(error)[h]) < reader.counts[h]}

CoveredComplete ==
    reader.step = "covered" =>
        \A error \in BOOLEAN :
            Missed(error) = {h \in Hours : /\ reader.counts[h] > 0
                                           /\ error \/ (h = reader.from /\ ~reader.sharp)}

\* An hour is in the window of so many rounds that it gets a meta document before
\* it leaves the window, unless LateK \div (RoundHours + 1) of these very rounds
\* were lost before they came to write it.
NoGap ==
    \A h \in Hours \ ({round.hour} \cup round.left) :
        h < now - LateK /\ lost[h] < LateK \div (RoundHours + 1) => meta[h] # NoMeta
=============================================================================
