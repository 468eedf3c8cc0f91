------------------------------ MODULE AckPull ------------------------------
(***************************************************************************)
(* The platform contract from the side of the rows: the worker's assemble  *)
(* loops put links on offer and offer rejected ones again, the offline     *)
(* evaluator pulls what is on offer page by page and acknowledges it.      *)
(* Every one of them is a transaction that reads a snapshot and writes     *)
(* later; an UPDATE that finds its row locked waits, and then reads the    *)
(* committed row (MySQL, REPEATABLE READ).                                 *)
(*                                                                         *)
(* Backflow has these operations as atomic steps, with the cluster around  *)
(* them; here a link's cluster stays non-terminal, and "settled" is any    *)
(* verdict on the link.                                                    *)
(***************************************************************************)
EXTENDS Integers, FiniteSets

CONSTANTS
    Links,          \* link ids, in the order of their insertion keys
    Workers,        \* assemble loops, numbered
    Answered,       \* bound: the links offline acknowledges
    MaxAcks,        \* bound: acknowledgements in flight at once
    Reasons,        \* REASON_CODES
    RequeueCap,     \* auto_requeue_max_default
    RequeueBatch,
    Debounce,       \* REQUEUE_DEBOUNCE_MINUTES
    TxnTicks,       \* bound: how long a loop's transaction may last
    PageLimit,
    MaxClock        \* bound: time stops there

ASSUME AckPullAssumption ==
    /\ Links \subseteq Nat \ {0} /\ IsFiniteSet(Links) /\ Workers \subseteq Nat
    /\ Answered \subseteq Links
    /\ Reasons \subseteq {"offline_cap_gap", "online_content_gap", "manual_invalidate"}
    /\ MaxAcks \in Nat /\ RequeueCap \in Nat /\ RequeueBatch \in Nat \ {0}
    /\ Debounce \in Nat \ {0} /\ TxnTicks \in 0..(Debounce - 1)
    /\ PageLimit \in Nat \ {0}
    /\ MaxClock \in Nat

VARIABLES
    links,      \* error_case_link: the committed row of each link
    works,      \* the transaction of each assemble loop
    acks,       \* the acknowledgements that have read their row
    client,     \* where the offline evaluator's pull stands
    clock,
    late        \* history: links committed behind the client's watermark

vars == <<links, works, acks, client, clock, late>>

Statuses == {"assembled", "draft", "active", "invalidated"}

Unmade == [offline |-> "unmade", reason |-> "none", ts |-> 0,
           settled |-> FALSE, requeues |-> 0]

\* done: the rows written and not committed, which are locked.
Idle == [state |-> "idle", now |-> 0, todo |-> {}, done |-> {}]

\* from: the watermark of this round; top: the latest assembled_ts seen;
\* at: the cursor <<assembled_ts, id>>; has: the links pulled since their
\* last offer; knows: the links ever pulled.
FreshClient == [from |-> 0, top |-> 0, at |-> <<0, 0>>, has |-> {}, knows |-> {}]

Init ==
    /\ links = [l \in Links |-> Unmade]
    /\ works = [w \in Workers |-> Idle]
    /\ acks = {}
    /\ client = FreshClient
    /\ clock = 0
    /\ late = {}

\* The loops are alike: the first idle one goes to work.
NextLoop(w) ==
    /\ works[w].state = "idle"
    /\ \A v \in Workers : works[v].state = "idle" => w <= v

Locked(l) == \E w \in Workers : l \in works[w].done

Tick ==
    /\ clock < MaxClock
    /\ \A w \in Workers : works[w].state # "idle" => clock < works[w].now + TxnTicks
    /\ clock' = clock + 1
    /\ UNCHANGED <<links, works, acks, client, late>>

(***************************************************************************)
(* run_assemble: first the requeue phase, then the batches of new links.   *)
(***************************************************************************)

Stuck == {l \in Links :
    /\ links[l].offline = "invalidated" /\ links[l].reason = "online_content_gap"
    /\ ~links[l].settled
    /\ links[l].ts + Debounce <= clock}

\* A mutated selection: the cap is off by one.
Candidates_past_cap == {l \in Stuck : links[l].requeues <= RequeueCap}

\* The LIMIT is taken before the cap is looked at.
Candidates ==
    LET batch == {l \in Stuck : Cardinality({m \in Stuck : m <= l}) <= RequeueBatch}
    IN {l \in batch : links[l].requeues < RequeueCap}

\* One SELECT for the links and one for their earlier requeues, in one snapshot.
RequeueScan(w) ==
    /\ NextLoop(w)
    /\ Candidates # {}
    /\ works' = [works EXCEPT ![w] = [Idle EXCEPT !.state = "requeue", !.now = clock,
                                                  !.todo = Candidates]]
    /\ UNCHANGED <<links, acks, client, clock, late>>

\* Mutated conditions: the scan is trusted on one column.
StillDue_whenever(l, now) == links[l].offline = "invalidated" /\ ~links[l].settled
StillDue_unverified(l, now) ==
    links[l].offline = "invalidated" /\ links[l].ts + Debounce <= now

\* The UPDATE's condition; the reason is not part of it.
StillDue(l, now) ==
    /\ links[l].offline = "invalidated" /\ ~links[l].settled
    /\ links[l].ts + Debounce <= now

RequeueLink(w, l) ==
    /\ works[w].state = "requeue"
    /\ l \in works[w].todo /\ \A m \in works[w].todo : l <= m
    /\ ~Locked(l)
    /\ works' = [works EXCEPT
           ![w].todo = @ \ {l},
           ![w].done = IF StillDue(l, works[w].now) THEN @ \cup {l} ELSE @]
    /\ UNCHANGED <<links, acks, client, clock, late>>

\* assembled_ts is the database's time at the INSERT.  uk_link_current lets
\* the second of two loops wait and fail.
AssembleLink(w, l) ==
    /\ NextLoop(w)
    /\ links[l].offline = "unmade" /\ ~Locked(l)
    /\ works' = [works EXCEPT ![w] = [Idle EXCEPT !.state = "assemble", !.now = clock,
                                                  !.done = {l}]]
    /\ UNCHANGED <<links, acks, client, clock, late>>

Offered(w, l) ==
    [links[l] EXCEPT !.offline = "assembled", !.reason = "none", !.ts = works[w].now,
                     !.requeues = IF works[w].state = "requeue" THEN @ + 1 ELSE @]

Commit(w) ==
    /\ works[w].state # "idle" /\ works[w].todo = {}
    /\ links' = [l \in Links |-> IF l \in works[w].done THEN Offered(w, l) ELSE links[l]]
    /\ late' = (late \ works[w].done) \cup
           IF works[w].now < client.top THEN works[w].done ELSE {}
    /\ client' = [client EXCEPT !.has = @ \ works[w].done]
    /\ works' = [works EXCEPT ![w] = Idle]
    /\ UNCHANGED <<acks, clock>>

\* An exception, or the end of the process.
Rollback(w) ==
    /\ works[w].state # "idle"
    /\ works' = [works EXCEPT ![w] = Idle]
    /\ UNCHANGED <<links, acks, client, clock, late>>

(***************************************************************************)
(* apply_ack                                                               *)
(***************************************************************************)

\* An active acknowledgement is one with a case id.
ack_decide(from, action, stored_reason) ==
    CASE action = "draft" -> from = "assembled"
      [] action = "active" -> \/ from \in {"assembled", "draft"}
                              \/ from = "invalidated" /\ stored_reason = "offline_cap_gap"
      [] action = "invalidated" -> from \in {"assembled", "draft"}

\* The row is read.  A repeated acknowledgement and a refused one change
\* nothing and are not followed further.
AckRead(l, action, reason) ==
    /\ Cardinality(acks) < MaxAcks
    /\ l \in client.knows \cap Answered    \* external: offline was given the payload
    /\ links[l].offline # action
    /\ ack_decide(links[l].offline, action, links[l].reason)
    /\ acks' = acks \cup {[link |-> l, action |-> action, reason |-> reason,
                            from |-> links[l].offline]}
    /\ UNCHANGED <<links, works, client, clock, late>>

\* A mutated UPDATE: by payload_id alone.
AckHits_always(ack) == ack.link \in Links

AckHits(ack) == links[ack.link].offline = ack.from

\* When the UPDATE hits no row, the row is read again: in the same session,
\* whose object the UPDATE has already set to the target, and in the same
\* snapshot.  Either way the answer is the target's 200.
AckWrite(ack) ==
    LET l == ack.link IN
    /\ ~Locked(l)
    /\ links' = IF ~AckHits(ack) THEN links
                ELSE [links EXCEPT
                         ![l].offline = ack.action,
                         ![l].reason = IF ack.action = "invalidated"
                                       THEN ack.reason ELSE "none"]
    /\ acks' = acks \ {ack}
    /\ UNCHANGED <<works, client, clock, late>>

\* A judgement gives the link its verdict.
Settle(l) ==
    /\ links[l].offline # "unmade" /\ ~links[l].settled
    /\ ~Locked(l)
    /\ links' = [links EXCEPT ![l].settled = TRUE]
    /\ UNCHANGED <<works, acks, client, clock, late>>

(***************************************************************************)
(* pull_payloads, and the client's watermark: the greatest assembled_ts it *)
(* was given, kept through an empty round.                                 *)
(***************************************************************************)

Before(k, m) == links[k].ts < links[m].ts \/ (links[k].ts = links[m].ts /\ k < m)

\* Mutated forms of the scan.
PastCursor_by_time(l) == links[l].ts > client.at[1]
InRange_after(l) == links[l].ts > client.from

PastCursor(l) == \/ links[l].ts > client.at[1]
                 \/ links[l].ts = client.at[1] /\ l > client.at[2]

InRange(l) == links[l].ts >= client.from

OnOffer == {l \in Links : links[l].offline = "assembled" /\ InRange(l) /\ PastCursor(l)}

\* At most PageLimit links; the next row is looked at, for next_token.
Page == {l \in OnOffer : Cardinality({k \in OnOffer : Before(k, l)}) < PageLimit}

Pull ==
    LET last == CHOOSE l \in Page : \A k \in Page : k = l \/ Before(k, l)
        top == IF Page = {} THEN client.top ELSE links[last].ts
    IN
    /\ client' =
           [from |-> IF Page = OnOffer THEN top ELSE client.from,
            top |-> top,
            at |-> IF Page = OnOffer THEN <<0, 0>> ELSE <<links[last].ts, last>>,
            has |-> client.has \cup Page,
            knows |-> client.knows \cup Page]
    /\ UNCHANGED <<links, works, acks, clock, late>>

Next ==
    \/ Tick
    \/ Pull
    \/ \E l \in Links : Settle(l)
    \/ \E w \in Workers :
          \/ RequeueScan(w)
          \/ \E l \in Links : RequeueLink(w, l) \/ AssembleLink(w, l)
          \/ Commit(w)
          \/ Rollback(w)
    \/ \E l \in Links :
          \/ AckRead(l, "draft", "none")
          \/ AckRead(l, "active", "none")
          \/ \E r \in Reasons : AckRead(l, "invalidated", r)
    \/ \E ack \in acks : AckWrite(ack)

Spec == Init /\ [][Next]_vars

\* The client is fair: it polls.  Nobody else has to be.
FairSpec == Spec /\ WF_vars(Pull)

(***************************************************************************)
(* Properties                                                              *)
(***************************************************************************)

\* The columns of a row, the transactions and the answers stay in their
\* ranges; a link that was never rejected or is no longer has no reason.
TypeOK ==
    /\ \A l \in Links :
          /\ links[l].offline \in Statuses \cup {"unmade"}
          /\ links[l].reason \in Reasons \cup {"none"}
          /\ links[l].reason # "none" <=> links[l].offline = "invalidated"
          /\ links[l].ts \in 0..clock
          /\ links[l].requeues \in 0..RequeueCap
    /\ \A w \in Workers :
          /\ works[w].state \in {"idle", "requeue", "assemble"}
          /\ works[w].now \in 0..clock
          /\ works[w].done \cap works[w].todo = {}
          /\ \A v \in Workers \ {w} : works[w].done \cap works[v].done = {}
    /\ acks \subseteq [link : Links, action : Statuses \ {"assembled"},
                       reason : Reasons \cup {"none"}, from : Statuses]
    /\ client.from <= client.top /\ client.top <= clock

\* A link is offered again only if, at the moment the requeue commits, its row
\* is one that requeue_guard_errors would let through and the cap is not
\* reached (requeue.py, 61-95 and 153-167), whatever other loops, verdicts and
\* acknowledgements did since the scan.  The UPDATE repeats neither the reason
\* nor the count: its condition on assembled_ts stands for both.
ReofferedWhenDue ==
    [][\A l \in Links :
          links'[l].requeues # links[l].requeues =>
              /\ l \in Stuck
              /\ links[l].requeues < RequeueCap]_vars

\* The status of a row moves only along the matrix and the requeue (ack.py,
\* 38-50), though acknowledgements decide on a snapshot: active is final, and
\* a link rejected for a capability gap leaves that state by offline's own
\* healing alone.
MovesByTheMatrix ==
    [][\A l \in Links :
          LET from == links[l].offline
              to == links'[l].offline
          IN from # to =>
                \/ to = "assembled" /\ (from = "unmade" \/ links[l].reason = "online_content_gap")
                \/ to \in {"draft", "active", "invalidated"}
                   /\ ack_decide(from, to, links[l].reason)]_vars

\* What stays on offer is pulled, with the payload of its last offer: paging by
\* (assembled_ts, id) and the watermark lose nothing, also when several rows
\* carry one time stamp and while links move to the end under the client
\* (ack.py, 230-268; solution_detail.md, 959).  Except for a link whose
\* transaction committed after the client had seen a later time stamp: nothing
\* brings that one back into range.
PulledInTheEnd ==
    \A l \in Links :
        []<>~(/\ links[l].offline = "assembled" /\ l \notin late
              /\ l \notin client.has)

\* What ack.py, 199, says of an acknowledgement that lost the race: 200 if the
\* other one has set the same target, an error with the current state if not.
AnswerIsTheRow ==
    [][\A ack \in acks \ acks' : links'[ack.link].offline = ack.action]_vars
=============================================================================
