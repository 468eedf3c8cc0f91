--------------------------- MODULE AckPullProofs ---------------------------
(***************************************************************************)
(* Theorems about AckPull, for any number of links, loops and              *)
(* acknowledgements, and for every cap, batch and debounce interval.  What *)
(* they rest on is not in the code of any one handler: a loop's            *)
(* transaction is shorter than the debounce interval (TxnTicks < Debounce).*)
(***************************************************************************)
EXTENDS AckPull, FiniteSetTheorems, WellFoundedInduction, TLAPS

-----------------------------------------------------------------------------
(***************************************************************************)
(* The invariant.  A row that a loop has locked is still what the loop     *)
(* took it for; a row it has yet to lock either is, or carries a time      *)
(* stamp so recent that the condition of the UPDATE refuses it.            *)
(***************************************************************************)
Row == [offline : Statuses \cup {"unmade"}, reason : Reasons \cup {"none"}, ts : Nat,
        settled : BOOLEAN, requeues : Nat]

Work == [state : {"idle", "requeue", "assemble"}, now : Nat,
         todo : SUBSET Links, done : SUBSET Links]

Ack == [link : Links, action : {"draft", "active", "invalidated"},
        reason : Reasons \cup {"none"}, from : Statuses]

Typed ==
    /\ links \in [Links -> Row]
    /\ works \in [Workers -> Work]
    /\ acks \subseteq Ack
    /\ clock \in Nat

\* Rejected for missing content, and below the cap.
Rejected(l) ==
    /\ links[l].offline = "invalidated" /\ links[l].reason = "online_content_gap"
    /\ links[l].requeues < RequeueCap

DueAt(l, now) == Rejected(l) /\ ~links[l].settled /\ links[l].ts + Debounce <= now

InTime == \A w \in Workers :
    works[w].state # "idle" => works[w].now <= clock /\ clock <= works[w].now + TxnTicks

LocksApart == \A v, w \in Workers : v # w => works[v].done \cap works[w].done = {}

Holds(w) ==
    /\ works[w].state # "requeue" => works[w].todo = {}
    /\ works[w].state = "idle" => works[w].done = {}
    /\ works[w].state = "assemble" => \A l \in works[w].done : links[l].offline = "unmade"
    /\ works[w].state = "requeue" => \A l \in works[w].done : DueAt(l, works[w].now)

Awaits(w) == works[w].state = "requeue" =>
    \A l \in works[w].todo : Rejected(l) \/ links[l].ts + Debounce > works[w].now

\* An acknowledgement in flight was allowed when its row was read; one that heals
\* a rejected link finds it rejected for the same reason, or already active.
Honest(a) ==
    /\ ack_decide(a.from, a.action, "offline_cap_gap")
    /\ a.from = "invalidated" =>
           \/ links[a.link].offline = "active"
           \/ links[a.link].offline = "invalidated" /\ links[a.link].reason = "offline_cap_gap"

Inv ==
    /\ Typed /\ InTime /\ LocksApart
    /\ \A w \in Workers : Holds(w) /\ Awaits(w)
    /\ \A a \in acks : Honest(a)

LEMMA Bounds == Debounce \in Nat /\ TxnTicks \in Nat /\ TxnTicks < Debounce
BY AckPullAssumption

LEMMA InitInv == Init => Inv
BY DEF Init, Inv, Typed, Row, Work, Ack, Unmade, Idle, InTime, LocksApart, Holds, Awaits

-----------------------------------------------------------------------------
(***************************************************************************)
(* Steps that leave the rows alone.                                        *)
(***************************************************************************)
LEMMA SameRows ==
    ASSUME Inv, UNCHANGED links, Typed', InTime', LocksApart',
           \A w \in Workers : (Holds(w) /\ Awaits(w))',
           \A a \in acks' : a \in acks \/ Honest(a)
    PROVE  Inv'
BY DEF Inv, Honest

LEMMA TickInv == ASSUME Inv, Tick PROVE Inv'
<1>1. Typed' /\ InTime'
  BY Bounds DEF Inv, Typed, Tick, InTime, Work
<1>2. LocksApart' /\ \A w \in Workers : (Holds(w) /\ Awaits(w))'
  BY DEF Inv, Tick, LocksApart, Holds, Awaits, DueAt, Rejected
<1> QED
  BY <1>1, <1>2, SameRows DEF Tick

\* Steps of a loop that is not done yet: its transaction goes on.
LEMMA LoopStep ==
    ASSUME Inv, NEW w \in Workers, NEW work \in Work,
           works' = [works EXCEPT ![w] = work], UNCHANGED <<links, acks, clock>>,
           work.state # "idle" => work.now <= clock /\ clock <= work.now + TxnTicks,
           \A v \in Workers \ {w} : works[v].done \cap work.done = {},
           Holds(w)', Awaits(w)'
    PROVE  Inv'
<1>1. works'[w] = work /\ \A v \in Workers \ {w} : works'[v] = works[v]
  BY DEF Inv, Typed
<1>2. Typed' /\ InTime' /\ LocksApart'
  BY <1>1 DEF Inv, Typed, InTime, LocksApart
<1>3. \A v \in Workers : (Holds(v) /\ Awaits(v))'
  BY <1>1 DEF Inv, Holds, Awaits, DueAt, Rejected
<1> QED
  BY <1>2, <1>3, SameRows

LEMMA ScanInv == ASSUME Inv, NEW w \in Workers, RequeueScan(w) PROVE Inv'
<1> DEFINE work == [Idle EXCEPT !.state = "requeue", !.now = clock, !.todo = Candidates]
<1>1. works' = [works EXCEPT ![w] = work] /\ UNCHANGED <<links, acks, clock>>
  BY DEF RequeueScan
<1>2. Candidates \subseteq Links /\ \A l \in Candidates : Rejected(l)
  BY DEF Candidates, Stuck, Rejected
<1>3. /\ work \in Work /\ work.state = "requeue" /\ work.now = clock
      /\ work.todo = Candidates /\ work.done = {}
  BY <1>2 DEF Inv, Typed, Work, Idle
<1> HIDE DEF work
<1>4. works'[w] = work
  BY <1>1 DEF Inv, Typed
<1>5. Holds(w)' /\ Awaits(w)'
  BY <1>1, <1>2, <1>3, <1>4 DEF Holds, Awaits, Rejected
<1>6. work.now <= clock /\ clock <= work.now + TxnTicks
  BY <1>3, Bounds DEF Inv, Typed
<1> QED
  BY <1>1, <1>3, <1>5, <1>6, LoopStep

\* The condition of the UPDATE repeats neither the reason nor the cap: Awaits says
\* that they hold of every row it lets through.
LEMMA RequeueLinkInv ==
    ASSUME Inv, NEW w \in Workers, NEW l \in Links, RequeueLink(w, l)
    PROVE  Inv'
<1> DEFINE todo == works[w].todo \ {l}
           done == IF StillDue(l, works[w].now) THEN works[w].done \cup {l} ELSE works[w].done
           work == [works[w] EXCEPT !.todo = todo, !.done = done]
<1>1. /\ works' = [works EXCEPT ![w] = work] /\ UNCHANGED <<links, acks, clock>>
      /\ works[w].state = "requeue" /\ l \in works[w].todo /\ ~Locked(l)
  BY DEF RequeueLink
<1>2. works[w] \in Work /\ todo \in SUBSET Links /\ done \in SUBSET Links
  BY DEF Inv, Typed, Work
<1>3. StillDue(l, works[w].now) => DueAt(l, works[w].now)
  <2>1. links[l].ts \in Nat /\ works[w].now \in Nat
    BY DEF Inv, Typed, Row, Work
  <2>2. Rejected(l) \/ links[l].ts + Debounce > works[w].now
    BY <1>1 DEF Inv, Awaits
  <2> QED
    BY <2>1, <2>2, Bounds DEF StillDue, DueAt
<1>4. \A m \in done : DueAt(m, works[w].now)
  BY <1>1, <1>3 DEF Inv, Holds
<1>5. \A v \in Workers \ {w} : works[v].done \cap done = {}
  BY <1>1 DEF Inv, LocksApart, Locked
<1> HIDE DEF todo, done
<1>6. /\ work \in Work /\ work.state = "requeue" /\ work.now = works[w].now
      /\ work.todo = todo /\ work.done = done
  BY <1>1, <1>2 DEF Work
<1>7. works'[w] = work
  BY <1>1 DEF Inv, Typed
<1> HIDE DEF work
<1>8. Holds(w)' /\ Awaits(w)'
  <2>1. Holds(w)'
    BY <1>1, <1>4, <1>6, <1>7 DEF Holds, DueAt, Rejected
  <2>2. todo \subseteq works[w].todo
    BY DEF todo
  <2>3. Awaits(w)'
    BY <1>1, <1>6, <1>7, <2>2 DEF Inv, Awaits, Rejected
  <2> QED
    BY <2>1, <2>3
<1>9. work.now <= clock /\ clock <= work.now + TxnTicks
  BY <1>1, <1>6 DEF Inv, InTime
<1> QED
  BY <1>1, <1>5, <1>6, <1>8, <1>9, LoopStep

LEMMA AssembleInv ==
    ASSUME Inv, NEW w \in Workers, NEW l \in Links, AssembleLink(w, l)
    PROVE  Inv'
<1> DEFINE work == [Idle EXCEPT !.state = "assemble", !.now = clock, !.done = {l}]
<1>1. /\ works' = [works EXCEPT ![w] = work] /\ UNCHANGED <<links, acks, clock>>
      /\ links[l].offline = "unmade" /\ ~Locked(l)
  BY DEF AssembleLink
<1>2. /\ work \in Work /\ work.state = "assemble" /\ work.now = clock
      /\ work.todo = {} /\ work.done = {l}
  BY DEF Inv, Typed, Work, Idle
<1> HIDE DEF work
<1>3. works'[w] = work
  BY <1>1 DEF Inv, Typed
<1>4. Holds(w)' /\ Awaits(w)'
  BY <1>1, <1>2, <1>3 DEF Holds, Awaits
<1>5. \A v \in Workers \ {w} : works[v].done \cap work.done = {}
  BY <1>1, <1>2 DEF Locked
<1>6. work.now <= clock /\ clock <= work.now + TxnTicks
  BY <1>2, Bounds DEF Inv, Typed
<1> QED
  BY <1>1, <1>2, <1>4, <1>5, <1>6, LoopStep

LEMMA RollbackInv == ASSUME Inv, NEW w \in Workers, Rollback(w) PROVE Inv'
<1>1. works' = [works EXCEPT ![w] = Idle] /\ UNCHANGED <<links, acks, clock>>
  BY DEF Rollback
<1>2. Idle \in Work /\ Idle.state = "idle" /\ Idle.todo = {} /\ Idle.done = {}
  BY DEF Idle, Work
<1>3. works'[w] = Idle
  BY <1>1 DEF Inv, Typed
<1>4. Holds(w)' /\ Awaits(w)'
  BY <1>2, <1>3 DEF Holds, Awaits
<1> QED
  BY <1>1, <1>2, <1>4, LoopStep

-----------------------------------------------------------------------------
(***************************************************************************)
(* Commit: the rows of one loop change, and every other loop that waits    *)
(* for one of them finds a time stamp less than TxnTicks old.              *)
(***************************************************************************)
LEMMA OfferedRow ==
    ASSUME Typed, NEW w \in Workers, NEW l \in Links
    PROVE  /\ Offered(w, l) \in Row
           /\ Offered(w, l).offline = "assembled"
           /\ Offered(w, l).ts = works[w].now
           /\ Offered(w, l).requeues =
                  IF works[w].state = "requeue" THEN links[l].requeues + 1 ELSE links[l].requeues
<1> DEFINE n == IF works[w].state = "requeue" THEN links[l].requeues + 1 ELSE links[l].requeues
<1>1. links[l] \in Row /\ works[w].now \in Nat /\ n \in Nat
  BY DEF Typed, Row, Work
<1>2. Offered(w, l) = [links[l] EXCEPT !.offline = "assembled", !.reason = "none",
                                       !.ts = works[w].now, !.requeues = n]
  BY DEF Offered
<1> HIDE DEF n
<1>3. Offered(w, l) \in Row /\ Offered(w, l).offline = "assembled"
      /\ Offered(w, l).ts = works[w].now /\ Offered(w, l).requeues = n
  BY <1>1, <1>2 DEF Row, Statuses
<1> QED
  BY <1>3 DEF n

LEMMA CommitInv == ASSUME Inv, NEW w \in Workers, Commit(w) PROVE Inv'
<1>1. /\ works[w].state # "idle" /\ works[w].todo = {}
      /\ links' = [l \in Links |-> IF l \in works[w].done THEN Offered(w, l) ELSE links[l]]
      /\ works' = [works EXCEPT ![w] = Idle] /\ UNCHANGED <<acks, clock>>
  BY DEF Commit
<1>2. /\ works'[w] = Idle /\ \A v \in Workers \ {w} : works'[v] = works[v]
      /\ works' \in [Workers -> Work]
  BY <1>1 DEF Inv, Typed, Idle, Work
<1>3. \A l \in Links : IF l \in works[w].done
          THEN links'[l] \in Row /\ links'[l].ts = works[w].now
          ELSE links'[l] = links[l]
  BY <1>1, OfferedRow DEF Inv
<1>4. Typed'
  <2>1. \A l \in Links : links'[l] \in Row
    BY <1>3 DEF Inv, Typed
  <2> QED
    BY <1>1, <1>2, <2>1 DEF Inv, Typed
<1>5. InTime' /\ LocksApart'
  BY <1>1, <1>2 DEF Inv, InTime, LocksApart, Idle
<1>6. ASSUME NEW v \in Workers PROVE Holds(v)' /\ Awaits(v)'
  <2>1. CASE v = w
    BY <1>2, <2>1 DEF Holds, Awaits, Idle
  <2>2. CASE v # w
    <3>1. works'[v] = works[v] /\ works[v] \in Work
      BY <1>2, <2>2 DEF Inv, Typed
    <3>2. \A l \in works[v].done : l \in Links /\ links'[l] = links[l]
      BY <1>3, <2>2, <3>1 DEF Inv, LocksApart, Work
    <3>3. Holds(v)'
      BY <3>1, <3>2 DEF Inv, Holds, DueAt, Rejected
    <3>4. ASSUME works[v].state = "requeue", NEW l \in works[v].todo
          PROVE  Rejected(l)' \/ links'[l].ts + Debounce > works[v].now
      <4>1. l \in Links
        BY <3>1 DEF Work
      <4>2. CASE l \in works[w].done
        <5>1. links'[l].ts = works[w].now
          BY <1>3, <4>1, <4>2
        <5>2. works[v].now <= clock /\ clock <= works[w].now + TxnTicks
          BY <1>1, <3>4 DEF Inv, InTime
        <5>3. works[v].now \in Nat /\ works[w].now \in Nat /\ clock \in Nat
          BY DEF Inv, Typed, Work
        <5> QED
          BY <5>1, <5>2, <5>3, Bounds
      <4>3. CASE l \notin works[w].done
        BY <1>3, <3>4, <4>1, <4>3 DEF Inv, Awaits, Rejected
      <4> QED
        BY <4>2, <4>3
    <3>5. Awaits(v)'
      BY <3>1, <3>4 DEF Awaits
    <3> QED
      BY <3>3, <3>5
  <2> QED
    BY <2>1, <2>2
<1>7. ASSUME NEW a \in acks' PROVE Honest(a)'
  <2>1. a \in acks /\ a \in Ack /\ a.link \in Links /\ Honest(a)
    BY <1>1, <1>7 DEF Inv, Typed, Ack
  <2>2. ASSUME a.from = "invalidated" PROVE a.link \notin works[w].done
    BY <1>1, <2>1, <2>2 DEF Inv, Holds, DueAt, Rejected, Honest, Typed, Work
  <2> QED
    BY <1>3, <2>1, <2>2 DEF Honest
<1> QED
  BY <1>4, <1>5, <1>6, <1>7 DEF Inv

-----------------------------------------------------------------------------
(***************************************************************************)
(* Acknowledgements and verdicts.  Both wait for the lock of a loop, so a  *)
(* locked row stays what it was.                                           *)
(***************************************************************************)
LEMMA AckReadInv ==
    ASSUME Inv, NEW l \in Links, NEW action \in {"draft", "active", "invalidated"},
           NEW reason \in Reasons \cup {"none"}, AckRead(l, action, reason)
    PROVE  Inv'
<1> DEFINE ack == [link |-> l, action |-> action, reason |-> reason, from |-> links[l].offline]
<1>1. /\ acks' = acks \cup {ack} /\ UNCHANGED <<links, works, clock>>
      /\ ack_decide(links[l].offline, action, links[l].reason)
  BY DEF AckRead
<1>2. links[l].offline \in Statuses
  BY <1>1 DEF ack_decide, Inv, Typed, Row
<1>3. ack \in Ack /\ ack.from = links[l].offline /\ ack.action = action /\ ack.link = l
  BY <1>2 DEF Ack
<1>4. ack_decide(links[l].offline, action, "offline_cap_gap")
      /\ (links[l].offline = "invalidated" => links[l].reason = "offline_cap_gap")
  BY <1>1 DEF ack_decide
<1> HIDE DEF ack
<1>5. Honest(ack)
  BY <1>3, <1>4 DEF Honest
<1>6. Typed' /\ InTime' /\ LocksApart'
  BY <1>1, <1>3 DEF Inv, Typed, InTime, LocksApart
<1>7. \A w \in Workers : (Holds(w) /\ Awaits(w))'
  BY <1>1 DEF Inv, Holds, Awaits, DueAt, Rejected
<1> QED
  BY <1>1, <1>5, <1>6, <1>7, SameRows

\* One unlocked row changes, and a row that was rejected for missing content
\* stays so.
LEMMA RowStep ==
    ASSUME Inv, NEW l \in Links, NEW row \in Row, ~Locked(l),
           links' = [links EXCEPT ![l] = row], UNCHANGED <<works, clock>>, acks' \subseteq acks,
           row.ts = links[l].ts, Rejected(l) => Rejected(l)',
           \A a \in acks : a.link = l => Honest(a)'
    PROVE  Inv'
<1>1. links'[l] = row /\ (\A m \in Links \ {l} : links'[m] = links[m]) /\ Typed'
  BY DEF Inv, Typed
<1>2. InTime' /\ LocksApart'
  BY DEF Inv, InTime, LocksApart
<1>3. ASSUME NEW w \in Workers PROVE Holds(w)' /\ Awaits(w)'
  <2>1. works'[w] = works[w] /\ works[w] \in Work
    BY DEF Inv, Typed
  <2>2. \A m \in works[w].done : m \in Links /\ m # l
    BY <2>1 DEF Locked, Work
  <2>3. Holds(w)'
    BY <1>1, <2>1, <2>2 DEF Inv, Holds, DueAt, Rejected
  <2>4. \A m \in Links : links'[m].ts = links[m].ts /\ (Rejected(m) => Rejected(m)')
    BY <1>1 DEF Rejected
  <2>5. Awaits(w)'
    BY <2>1, <2>4 DEF Inv, Awaits, Work
  <2> QED
    BY <2>3, <2>5
<1>4. ASSUME NEW a \in acks' PROVE Honest(a)'
  <2>1. a \in acks /\ a.link \in Links
    BY <1>4 DEF Inv, Typed, Ack
  <2>2. CASE a.link # l
    BY <1>1, <2>1, <2>2 DEF Inv, Honest
  <2> QED
    BY <2>1, <2>2
<1> QED
  BY <1>1, <1>2, <1>3, <1>4 DEF Inv

\* An acknowledgement that hits its row was allowed for the row as it is now.
LEMMA AckAllowed ==
    ASSUME Inv, NEW ack \in acks, AckHits(ack)
    PROVE  ack_decide(links[ack.link].offline, ack.action, links[ack.link].reason)
<1>1. ack \in Ack /\ Honest(ack) /\ links[ack.link].offline = ack.from
  BY DEF Inv, Typed, AckHits
<1> QED
  BY <1>1 DEF Honest, ack_decide, Ack

LEMMA AckWriteInv == ASSUME Inv, NEW ack \in acks, AckWrite(ack) PROVE Inv'
<1> DEFINE l == ack.link
<1>1. /\ ack \in Ack /\ l \in Links /\ ~Locked(l) /\ acks' = acks \ {ack}
      /\ UNCHANGED <<works, clock>> /\ links[l] \in Row /\ links \in [Links -> Row]
  BY DEF Inv, Typed, AckWrite, Ack
<1>2. CASE ~AckHits(ack)
  <2>1. links' = links
    BY <1>2 DEF AckWrite
  <2>2. Typed' /\ InTime' /\ LocksApart'
    BY <1>1, <2>1 DEF Inv, Typed, InTime, LocksApart
  <2>3. \A w \in Workers : (Holds(w) /\ Awaits(w))'
    BY <1>1, <2>1 DEF Inv, Holds, Awaits, DueAt, Rejected
  <2> QED
    BY <1>1, <2>1, <2>2, <2>3, SameRows
<1>3. CASE AckHits(ack)
  <2> DEFINE reason == IF ack.action = "invalidated" THEN ack.reason ELSE "none"
             row == [links[l] EXCEPT !.offline = ack.action, !.reason = reason]
  <2>1. links' = [links EXCEPT ![l] = row]
    BY <1>1, <1>3 DEF AckWrite
  <2>2. reason \in Reasons \cup {"none"} /\ ack.action \in Statuses
    BY <1>1 DEF Ack, Statuses
  <2> HIDE DEF reason
  <2>3. row \in Row /\ row.ts = links[l].ts /\ row.offline = ack.action
    BY <1>1, <2>2 DEF Row
  <2> HIDE DEF row
  <2>4. links'[l] = row
    BY <1>1, <2>1
  <2>5. ack_decide(links[l].offline, ack.action, links[l].reason)
    BY <1>3, AckAllowed
  <2>6. ~Rejected(l)
    BY <1>1, <2>5 DEF ack_decide, Rejected, Ack
  <2>7. ASSUME NEW a \in acks, a.link = l PROVE Honest(a)'
    <3>1. Honest(a)
      BY DEF Inv
    <3>2. ASSUME a.from = "invalidated" PROVE links'[l].offline = "active"
      BY <1>1, <2>3, <2>4, <2>5, <2>7, <3>1, <3>2 DEF Honest, ack_decide, Ack
    <3> QED
      BY <2>7, <3>1, <3>2 DEF Honest
  <2> HIDE DEF l
  <2> QED
    BY <1>1, <2>1, <2>3, <2>6, <2>7, RowStep
<1> QED
  BY <1>2, <1>3

LEMMA SettleInv == ASSUME Inv, NEW l \in Links, Settle(l) PROVE Inv'
<1> DEFINE row == [links[l] EXCEPT !.settled = TRUE]
<1>1. /\ links' = [links EXCEPT ![l] = row] /\ ~Locked(l) /\ UNCHANGED <<works, acks, clock>>
      /\ links[l] \in Row /\ links \in [Links -> Row]
  BY DEF Settle, Inv, Typed
<1>2. /\ row \in Row /\ row.ts = links[l].ts /\ row.offline = links[l].offline
      /\ row.reason = links[l].reason /\ row.requeues = links[l].requeues
  BY <1>1 DEF Row
<1> HIDE DEF row
<1>3. links'[l] = row
  BY <1>1
<1>4. Rejected(l) => Rejected(l)'
  BY <1>2, <1>3 DEF Rejected
<1>5. \A a \in acks : a.link = l => Honest(a)'
  BY <1>2, <1>3 DEF Inv, Honest
<1> QED
  BY <1>1, <1>2, <1>4, <1>5, RowStep

-----------------------------------------------------------------------------
LEMMA NextInv == Inv /\ [Next]_vars => Inv'
<1> SUFFICES ASSUME Inv, [Next]_vars PROVE Inv'
  OBVIOUS
<1>1. ASSUME NEW w \in Workers,
             RequeueScan(w) \/ (\E l \in Links : RequeueLink(w, l) \/ AssembleLink(w, l))
             \/ Commit(w) \/ Rollback(w)
      PROVE  Inv'
  BY <1>1, ScanInv, RequeueLinkInv, AssembleInv, CommitInv, RollbackInv
<1>2. ASSUME NEW l \in Links,
             AckRead(l, "draft", "none") \/ AckRead(l, "active", "none")
             \/ (\E r \in Reasons : AckRead(l, "invalidated", r))
      PROVE  Inv'
  BY <1>2, AckReadInv
<1>3. ASSUME Pull \/ UNCHANGED vars PROVE Inv'
  <2>1. UNCHANGED <<links, works, acks, clock>>
    BY <1>3 DEF Pull, vars
  <2> QED
    BY <2>1 DEF Inv, Typed, InTime, LocksApart, Holds, Awaits, DueAt, Rejected, Honest
<1> QED
  BY <1>1, <1>2, <1>3, TickInv, SettleInv, AckWriteInv DEF Next

-----------------------------------------------------------------------------
\* The rows a step can write: those a committing loop has locked, the one of an
\* acknowledgement that hits, the one that gets its verdict.
LEMMA Writes ==
    ASSUME Inv, [Next]_vars, NEW l \in Links, links'[l] # links[l]
    PROVE  \/ \E w \in Workers : Commit(w) /\ l \in works[w].done
           \/ \E ack \in acks : AckWrite(ack) /\ AckHits(ack) /\ l = ack.link
           \/ Settle(l)
<1>1. links \in [Links -> Row]
  BY DEF Inv, Typed
<1>2. CASE \E w \in Workers : Commit(w)
  BY <1>2 DEF Commit
<1>3. CASE \E ack \in acks : AckWrite(ack)
  BY <1>1, <1>3 DEF AckWrite
<1>4. CASE \E m \in Links : Settle(m)
  BY <1>1, <1>4 DEF Settle
<1> QED
  BY <1>2, <1>3, <1>4
  DEF Next, vars, Tick, Pull, RequeueScan, RequeueLink, AssembleLink, Rollback, AckRead

LEMMA CommitWrites ==
    ASSUME Inv, NEW w \in Workers, Commit(w), NEW l \in Links, l \in works[w].done
    PROVE  /\ links'[l].offline = "assembled"
           /\ works[w].state = "assemble" =>
                  links[l].offline = "unmade" /\ links'[l].requeues = links[l].requeues
           /\ works[w].state # "assemble" => Rejected(l) /\ l \in Stuck
<1>1. links'[l] = Offered(w, l) /\ works[w].state # "idle" /\ works[w] \in Work
  BY DEF Commit, Inv, Typed
<1>2. works[w].state = "assemble" \/ works[w].state = "requeue"
  BY <1>1 DEF Work
<1>3. works[w].state = "assemble" => links[l].offline = "unmade"
  BY DEF Inv, Holds
<1>4. works[w].state = "requeue" => DueAt(l, works[w].now) /\ works[w].now <= clock
  BY DEF Inv, Holds, InTime
<1>5. links[l].ts \in Nat /\ works[w].now \in Nat /\ clock \in Nat
  BY DEF Inv, Typed, Row, Work
<1>6. works[w].state = "requeue" => Rejected(l) /\ l \in Stuck
  BY <1>4, <1>5, Bounds DEF DueAt, Rejected, Stuck
<1>7. Offered(w, l).offline = "assembled"
      /\ (works[w].state = "assemble" => Offered(w, l).requeues = links[l].requeues)
  BY OfferedRow DEF Inv
<1> QED
  BY <1>1, <1>2, <1>3, <1>6, <1>7

LEMMA AckWrites ==
    ASSUME Inv, NEW ack \in acks, AckWrite(ack), AckHits(ack), NEW l \in Links, l = ack.link
    PROVE  /\ links'[l].offline = ack.action /\ links'[l].requeues = links[l].requeues
           /\ ack.action \in {"draft", "active", "invalidated"}
           /\ ack_decide(links[l].offline, ack.action, links[l].reason)
<1>1. links \in [Links -> Row] /\ links[l] \in Row /\ ack \in Ack
  BY DEF Inv, Typed
<1>2. links'[l].offline = ack.action /\ links'[l].requeues = links[l].requeues
  BY <1>1 DEF AckWrite, Row
<1> QED
  BY <1>1, <1>2, AckAllowed DEF Ack

LEMMA SettleWrites ==
    ASSUME Inv, NEW l \in Links, Settle(l)
    PROVE  links'[l].offline = links[l].offline /\ links'[l].requeues = links[l].requeues
<1>1. links \in [Links -> Row] /\ links[l] \in Row
  BY DEF Inv, Typed
<1> QED
  BY <1>1 DEF Settle, Row

\* A link is offered again only while it is rejected for missing content, has no
\* verdict, was last offered a debounce interval ago and is below the cap, although
\* the UPDATE tests neither the reason nor the cap, and although other loops,
\* acknowledgements and verdicts run between the scan and the UPDATE.
THEOREM RequeuesWhenDue == Spec => ReofferedWhenDue
<1>1. Inv /\ [Next]_vars =>
          \A l \in Links :
              links'[l].requeues # links[l].requeues =>
                  /\ l \in Stuck
                  /\ links[l].requeues < RequeueCap
  <2> SUFFICES ASSUME Inv, [Next]_vars, NEW l \in Links,
                      links'[l].requeues # links[l].requeues
               PROVE  l \in Stuck /\ links[l].requeues < RequeueCap
    OBVIOUS
  <2>1. PICK w \in Workers : Commit(w) /\ l \in works[w].done
    BY Writes, AckWrites, SettleWrites
  <2> QED
    BY <2>1, CommitWrites DEF Rejected
<1> QED
  BY <1>1, InitInv, NextInv, PTL DEF Spec, ReofferedWhenDue

\* The status of a link moves only along the acknowledgement matrix and the
\* requeue, although an acknowledgement is decided on a row that may have changed
\* before it is written: active is final, and a capability gap is left by offline's
\* own healing alone.
THEOREM StatusMovesByTheMatrix == Spec => MovesByTheMatrix
<1>1. Inv /\ [Next]_vars =>
          \A l \in Links :
              LET from == links[l].offline
                  to == links'[l].offline
              IN from # to =>
                    \/ to = "assembled" /\ (from = "unmade" \/ links[l].reason = "online_content_gap")
                    \/ to \in {"draft", "active", "invalidated"}
                       /\ ack_decide(from, to, links[l].reason)
  <2> SUFFICES ASSUME Inv, [Next]_vars, NEW l \in Links,
                      links[l].offline # links'[l].offline
               PROVE  \/ /\ links'[l].offline = "assembled"
                         /\ links[l].offline = "unmade" \/ links[l].reason = "online_content_gap"
                      \/ /\ links'[l].offline \in {"draft", "active", "invalidated"}
                         /\ ack_decide(links[l].offline, links'[l].offline, links[l].reason)
    OBVIOUS
  <2>1. CASE \E w \in Workers : Commit(w) /\ l \in works[w].done
    BY <2>1, CommitWrites DEF Rejected
  <2>2. CASE \E ack \in acks : AckWrite(ack) /\ AckHits(ack) /\ l = ack.link
    BY <2>2, AckWrites
  <2> QED
    BY <2>1, <2>2, Writes, SettleWrites
<1> QED
  BY <1>1, InitInv, NextInv, PTL DEF Spec, MovesByTheMatrix
-----------------------------------------------------------------------------
(***************************************************************************)
(* The ranges.  They are not needed for the theorems above; they need the  *)
(* invariant, for a requeue is below the cap and a commit is in time.      *)
(***************************************************************************)
\* A set of natural numbers that is not empty has a least element.
LEMMA LeastOf ==
    ASSUME NEW S, S \subseteq Nat, S # {}
    PROVE  \E x \in S : \A y \in S : x <= y
<1> DEFINE R == OpToRel(<, Nat)
<1>1. IsWellFoundedOn(R, Nat)
  BY NatLessThanWellFounded
<1>2. PICK x \in S : \A y \in S : ~ (<<y, x>> \in R)
  <2> HIDE DEF R
  <2> QED
    BY <1>1, WFMin
<1>3. ASSUME NEW y \in S PROVE x <= y
  <2>1. x \in Nat /\ y \in Nat /\ ~ (<<y, x>> \in R)
    BY <1>2
  <2>2. ~ (y < x)
    BY <2>1 DEF OpToRel
  <2> HIDE DEF R
  <2> QED
    BY <2>1, <2>2
<1> QED
  BY <1>3

\* A page has a last link: the one with the fewest links behind it.
LEMMA LastOf ==
    ASSUME Typed, NEW S \in SUBSET Links, S # {}
    PROVE  \E l \in S : \A k \in S : k = l \/ Before(k, l)
<1> DEFINE Behind(x) == {y \in S : Before(x, y)}
           C == {Cardinality(Behind(x)) : x \in S}
<1>1. IsFiniteSet(S) /\ S \subseteq Nat /\ \A l \in S : links[l].ts \in Nat
  BY AckPullAssumption, FS_Subset DEF Typed, Row
<1>2. \A x \in S : IsFiniteSet(Behind(x)) /\ Cardinality(Behind(x)) \in Nat
  <2> TAKE x \in S
  <2>1. Behind(x) \in SUBSET S
    OBVIOUS
  <2> HIDE DEF Behind
  <2> QED
    BY <1>1, <2>1, FS_Subset, FS_CardinalityType
<1>3. PICK x \in S : \A y \in S : Cardinality(Behind(x)) <= Cardinality(Behind(y))
  <2> HIDE DEF Behind
  <2>1. C \subseteq Nat /\ C # {}
    BY <1>2
  <2>2. PICK c \in C : \A d \in C : c <= d
    <3> HIDE DEF C
    <3> QED
      BY <2>1, LeastOf
  <2> QED
    BY <2>2
<1>4. ASSUME NEW y \in S, y # x PROVE Before(y, x)
  <2> SUFFICES ASSUME ~Before(y, x) PROVE FALSE
    OBVIOUS
  <2>1. Before(x, y)
    BY <1>1, <1>4 DEF Before
  <2>2. \A z \in S : Before(y, z) => Before(x, z)
    BY <1>1, <2>1 DEF Before
  <2>3. ~Before(y, y)
    BY <1>1 DEF Before
  <2>4. Behind(y) \in SUBSET Behind(x) /\ y \in Behind(x) /\ y \notin Behind(y)
    BY <2>1, <2>2, <2>3
  <2> HIDE DEF Behind
  <2>5. Cardinality(Behind(y)) < Cardinality(Behind(x))
    <3>1. Behind(y) # Behind(x)
      BY <2>4
    <3>2. Cardinality(Behind(y)) <= Cardinality(Behind(x))
          /\ Cardinality(Behind(y)) # Cardinality(Behind(x))
      BY <1>2, <2>4, <3>1, FS_Subset
    <3> QED
      BY <1>2, <3>2
  <2> QED
    BY <1>2, <1>3, <2>5
<1> QED
  BY <1>4

RowInRange(row, time) ==
    /\ row.reason # "none" <=> row.offline = "invalidated"
    /\ row.ts <= time /\ row.requeues <= RequeueCap

Ranges ==
    /\ \A l \in Links : RowInRange(links[l], clock)
    /\ \A w \in Workers : works[w].now <= clock /\ works[w].done \cap works[w].todo = {}
    /\ \A a \in acks : a.reason # "none" <=> a.action = "invalidated"
    /\ client.from \in Nat /\ client.top \in Nat
    /\ client.from <= client.top /\ client.top <= clock

LEMMA Sane ==
    ASSUME Inv
    PROVE  /\ clock \in Nat /\ RequeueCap \in Nat /\ "none" \notin Reasons
           /\ \A w \in Workers : works[w] \in Work /\ works[w].now \in Nat
           /\ \A l \in Links : links[l] \in Row /\ links[l].ts \in Nat /\ links[l].requeues \in Nat
BY AckPullAssumption DEF Inv, Typed, Work, Row

\* The rows that a step writes stay in their ranges.
LEMMA RowsInRange ==
    ASSUME Inv, Ranges, [Next]_vars, NEW l \in Links
    PROVE  RowInRange(links'[l], clock')
<1>1. clock \in Nat /\ (clock' = clock \/ clock' = clock + 1)
  BY Sane DEF Next, vars, Tick, Pull, Settle, RequeueScan, RequeueLink, AssembleLink, Commit,
     Rollback, AckRead, AckWrite
<1>2. RowInRange(links[l], clock) /\ links[l] \in Row /\ links[l].ts \in Nat
  BY Sane DEF Ranges
<1>3. CASE links'[l] = links[l]
  BY <1>1, <1>2, <1>3 DEF RowInRange
<1>4. ASSUME NEW w \in Workers, Commit(w), l \in works[w].done
      PROVE  RowInRange(links'[l], clock')
  <2>1. /\ clock' = clock /\ links'[l] = Offered(w, l) /\ works[w].now <= clock
        /\ works[w].state # "assemble" => links[l].requeues < RequeueCap
    BY <1>4, CommitWrites DEF Commit, Ranges, Rejected
  <2>2. /\ Offered(w, l).offline = "assembled" /\ Offered(w, l).ts = works[w].now
        /\ Offered(w, l).requeues =
               IF works[w].state = "requeue" THEN links[l].requeues + 1 ELSE links[l].requeues
    BY OfferedRow DEF Inv
  <2>3. Offered(w, l).reason = "none"
    BY <1>2 DEF Offered, Row
  <2>4. Offered(w, l).requeues <= RequeueCap
    BY <1>2, <2>1, <2>2, Sane DEF RowInRange
  <2> QED
    BY <2>1, <2>2, <2>3, <2>4 DEF RowInRange
<1>5. ASSUME NEW ack \in acks, AckWrite(ack), AckHits(ack), l = ack.link
      PROVE  RowInRange(links'[l], clock')
  <2> DEFINE reason == IF ack.action = "invalidated" THEN ack.reason ELSE "none"
  <2>1. /\ links' = [links EXCEPT ![l].offline = ack.action, ![l].reason = reason]
        /\ clock' = clock /\ links \in [Links -> Row]
    BY <1>5 DEF AckWrite, Inv, Typed
  <2>2. reason # "none" <=> ack.action = "invalidated"
    BY <1>5 DEF Ranges
  <2> HIDE DEF reason
  <2>3. /\ links'[l].offline = ack.action /\ links'[l].reason = reason
        /\ links'[l].ts = links[l].ts /\ links'[l].requeues = links[l].requeues
    BY <2>1 DEF Row
  <2> QED
    BY <1>2, <2>1, <2>2, <2>3 DEF RowInRange
<1>6. ASSUME Settle(l) PROVE RowInRange(links'[l], clock')
  <2>1. /\ links' = [links EXCEPT ![l].settled = TRUE] /\ clock' = clock
        /\ links \in [Links -> Row]
    BY <1>6 DEF Settle, Inv, Typed
  <2>2. /\ links'[l].offline = links[l].offline /\ links'[l].reason = links[l].reason
        /\ links'[l].ts = links[l].ts /\ links'[l].requeues = links[l].requeues
    BY <2>1 DEF Row
  <2> QED
    BY <1>2, <2>1, <2>2 DEF RowInRange
<1> QED
  BY <1>3, <1>4, <1>5, <1>6, Writes

\* The watermark never goes back, nor past the clock: a page begins at it.
LEMMA PullInRange ==
    ASSUME Inv, Ranges, Pull
    PROVE  /\ client'.from \in Nat /\ client'.top \in Nat
           /\ client'.from <= client'.top /\ client'.top <= clock
<1> DEFINE last == CHOOSE l \in Page : \A k \in Page : k = l \/ Before(k, l)
           top == IF Page = {} THEN client.top ELSE links[last].ts
<1>1. /\ client'.from = (IF Page = OnOffer THEN top ELSE client.from)
      /\ client'.top = top
  BY DEF Pull
<1>2. /\ client.from \in Nat /\ client.top \in Nat
      /\ client.from <= client.top /\ client.top <= clock
  BY DEF Ranges
<1>3. CASE Page = {}
  BY <1>1, <1>2, <1>3
<1>4. CASE Page # {}
  <2>1. Page \in SUBSET Links /\ Page \subseteq OnOffer
    BY DEF Page, OnOffer
  <2>2. \E l \in Page : \A k \in Page : k = l \/ Before(k, l)
    BY <1>4, <2>1, LastOf DEF Inv
  <2>3. last \in Page
    BY <2>2
  <2> HIDE DEF last
  <2>4. links[last].ts \in Nat /\ links[last].ts >= client.from /\ links[last].ts <= clock
    BY <2>1, <2>3, Sane DEF OnOffer, InRange, Ranges, RowInRange
  <2> QED
    BY <1>1, <1>2, <1>4, <2>4
<1> QED
  BY <1>3, <1>4

LEMMA RangesNext == Inv /\ Ranges /\ [Next]_vars => Ranges'
<1> SUFFICES ASSUME Inv, Ranges, [Next]_vars PROVE Ranges'
  OBVIOUS
<1>1. \A l \in Links : RowInRange(links[l], clock)'
  BY RowsInRange DEF RowInRange
<1>2. clock \in Nat /\ (clock' = clock \/ clock' = clock + 1)
  BY Sane DEF Next, vars, Tick, Pull, Settle, RequeueScan, RequeueLink, AssembleLink, Commit,
     Rollback, AckRead, AckWrite
<1>3. \A w \in Workers : works'[w].now <= clock' /\ works'[w].done \cap works'[w].todo = {}
  <2> SUFFICES ASSUME NEW v \in Workers
               PROVE  works'[v].now <= clock' /\ works'[v].done \cap works'[v].todo = {}
    OBVIOUS
  <2>1. /\ works \in [Workers -> Work] /\ works[v].now <= clock /\ works[v].now \in Nat
        /\ works[v].done \cap works[v].todo = {}
    BY Sane DEF Ranges, Inv, Typed
  <2>2. CASE works'[v] = works[v]
    BY <1>2, <2>1, <2>2
  <2>3. CASE RequeueScan(v) \/ (\E l \in Links : AssembleLink(v, l)) \/ Commit(v) \/ Rollback(v)
    <3>1. /\ Idle.now = 0 /\ Idle.done = {} /\ Idle.todo = {}
          /\ [Idle EXCEPT !.state = "requeue", !.now = clock, !.todo = Candidates].now = clock
          /\ [Idle EXCEPT !.state = "requeue", !.now = clock, !.todo = Candidates].done = {}
          /\ \A S : /\ [Idle EXCEPT !.state = "assemble", !.now = clock, !.done = S].now = clock
                    /\ [Idle EXCEPT !.state = "assemble", !.now = clock, !.done = S].todo = {}
      BY DEF Idle
    <3>2. /\ clock' = clock
          /\ \/ works' = [works EXCEPT ![v] = Idle]
             \/ works' = [works EXCEPT ![v] = [Idle EXCEPT !.state = "requeue", !.now = clock,
                                                          !.todo = Candidates]]
             \/ \E S : works' = [works EXCEPT ![v] = [Idle EXCEPT !.state = "assemble",
                                                     !.now = clock, !.done = S]]
      BY <2>3 DEF RequeueScan, AssembleLink, Commit, Rollback
    <3>3. PICK work : /\ works' = [works EXCEPT ![v] = work]
                      /\ work.now = 0 \/ work.now = clock
                      /\ work.done = {} \/ work.todo = {}
      BY <3>1, <3>2
    <3>4. works'[v] = work
      BY <2>1, <3>3
    <3>5. work.now <= clock /\ work.done \cap work.todo = {}
      <4>1. clock \in Nat
        BY <1>2
      <4> QED
        BY <3>3, <4>1
    <3> QED
      BY <3>2, <3>4, <3>5
  <2>4. ASSUME NEW l \in Links, RequeueLink(v, l)
        PROVE  works'[v].now <= clock' /\ works'[v].done \cap works'[v].todo = {}
    <3> DEFINE todo == works[v].todo \ {l}
               done == IF StillDue(l, works[v].now) THEN works[v].done \cup {l}
                       ELSE works[v].done
    <3>1. works' = [works EXCEPT ![v].todo = todo, ![v].done = done] /\ clock' = clock
      BY <2>4 DEF RequeueLink
    <3>2. todo \cap done = {}
      BY <2>1
    <3> HIDE DEF todo, done
    <3>3. works'[v].todo = todo /\ works'[v].done = done /\ works'[v].now = works[v].now
      BY <2>1, <3>1 DEF Work
    <3> QED
      BY <2>1, <3>1, <3>2, <3>3
  <2> QED
    BY <2>1, <2>2, <2>3, <2>4 DEF Next, vars, Tick, Pull, Settle, RequeueScan, RequeueLink,
       AssembleLink, Commit, Rollback, AckRead, AckWrite
<1>4. \A a \in acks' : a.reason # "none" <=> a.action = "invalidated"
  <2>1. acks' \subseteq acks \/ \E l \in Links : \/ AckRead(l, "draft", "none")
                                                 \/ AckRead(l, "active", "none")
                                                 \/ \E r \in Reasons : AckRead(l, "invalidated", r)
    BY DEF Next, vars, Tick, Pull, Settle, RequeueScan, RequeueLink, AssembleLink, Commit,
       Rollback, AckWrite
  <2> QED
    BY <2>1, Sane DEF Ranges, AckRead
<1>5. /\ client'.from \in Nat /\ client'.top \in Nat
      /\ client'.from <= client'.top /\ client'.top <= clock'
  <2>1. CASE client'.from = client.from /\ client'.top = client.top
    BY <1>2, <2>1 DEF Ranges
  <2>2. CASE Pull
    BY <2>2, PullInRange DEF Pull
  <2>3. ASSUME NEW w \in Workers, Commit(w) PROVE client'.from = client.from /\ client'.top = client.top
    BY <2>3 DEF Commit
  <2> QED
    BY <2>1, <2>2, <2>3 DEF Next, vars, Tick, Settle, RequeueScan, RequeueLink,
       AssembleLink, Rollback, AckRead, AckWrite
<1> QED
  BY <1>1, <1>3, <1>4, <1>5 DEF Ranges

\* The rows, transactions and answers stay in their ranges: a row has a reason
\* exactly while it is rejected, no link is offered more often than the cap allows,
\* no two loops hold one row, and the client's watermark never passes the clock.
THEOREM TypeCorrect == Spec => []TypeOK
<1>1. Init => Ranges
  BY AckPullAssumption DEF Init, Ranges, RowInRange, Unmade, Idle, FreshClient
<1>2. Inv /\ Ranges => TypeOK
  <2> SUFFICES ASSUME Inv, Ranges PROVE TypeOK
    OBVIOUS
  <2>1. ASSUME NEW l \in Links
        PROVE  /\ links[l].offline \in Statuses \cup {"unmade"}
               /\ links[l].reason \in Reasons \cup {"none"}
               /\ links[l].reason # "none" <=> links[l].offline = "invalidated"
               /\ links[l].ts \in 0 .. clock /\ links[l].requeues \in 0 .. RequeueCap
    BY Sane DEF Ranges, RowInRange, Row
  <2>2. ASSUME NEW w \in Workers
        PROVE  /\ works[w].state \in {"idle", "requeue", "assemble"}
               /\ works[w].now \in 0 .. clock
               /\ works[w].done \cap works[w].todo = {}
               /\ \A v \in Workers \ {w} : works[w].done \cap works[v].done = {}
    BY Sane DEF Ranges, Inv, LocksApart, Work
  <2>3. acks \subseteq [link : Links, action : Statuses \ {"assembled"},
                        reason : Reasons \cup {"none"}, from : Statuses]
    <3>1. {"draft", "active", "invalidated"} = Statuses \ {"assembled"}
      BY DEF Statuses
    <3> QED
      BY <3>1 DEF Inv, Typed, Ack
  <2> QED
    BY <2>1, <2>2, <2>3 DEF Ranges, TypeOK
<1> QED
  BY <1>1, <1>2, InitInv, NextInv, RangesNext, PTL DEF Spec

=============================================================================
