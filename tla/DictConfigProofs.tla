-------------------------- MODULE DictConfigProofs --------------------------
(***************************************************************************)
(* Theorems about DictConfig, for any number of keys, processes, requests  *)
(* and values, and for every TTL and length of a transaction.              *)
(***************************************************************************)
EXTENDS DictConfig, TLAPS

-----------------------------------------------------------------------------
(***************************************************************************)
(* Type correctness, a variable at a time.                                 *)
(***************************************************************************)
Entry == [cached : BOOLEAN, value : Values, age : 0 .. TTL, crossed : BOOLEAN]

Session == [state : {"closed", "open", "missed"}, key : GlobalKeys \cup {NoKey},
            seen : [GlobalKeys -> Counts], lag : 0 .. QueryTicks, crossed : BOOLEAN]

Put == [state : {"none", "read", "committed"}, key : Keys \cup {NoKey},
        value : Values, read : Counts]

RowsTyped == rows \in [Keys -> Counts] /\ \A k \in AgentKeys : rows[k].count <= 1
CacheTyped == cache \in [Processes -> [GlobalKeys -> Entry]]
SessionsTyped ==
    /\ sessions \in [Readers -> Session]
    /\ \A r \in Readers : sessions[r].state = "missed" => sessions[r].key \in GlobalKeys
PutsTyped ==
    /\ puts \in [Writers -> Put]
    /\ \A w \in Writers : puts[w].state = "read" => puts[w].key \in Keys
GoneTyped == gone \in [GlobalKeys -> [Values -> 0 .. TTL + QueryTicks]]
RestTyped ==
    /\ seeding \subseteq SUBSET GlobalKeys
    /\ bound \in [puts : 0 .. MaxPuts, restarts : 0 .. MaxRestarts]

Typed == RowsTyped /\ CacheTyped /\ SessionsTyped /\ PutsTyped /\ GoneTyped /\ RestTyped

LEMMA TypedIsTypeOK == Typed => TypeOK
BY DEF Typed, RowsTyped, CacheTyped, SessionsTyped, PutsTyped, GoneTyped, RestTyped, TypeOK,
       Entry, Session, Put

LEMMA Bounds ==
    /\ TTL \in Nat \ {0} /\ QueryTicks \in Nat /\ MaxPuts \in Nat /\ MaxRestarts \in Nat
    /\ Default \in Values /\ Api \in Processes /\ ProcessOf \in [Readers -> Processes]
    /\ GlobalKeys \cap AgentKeys = {} /\ Keys = GlobalKeys \cup AgentKeys
BY ConfigAssumption DEF Keys

LEMMA Blank ==
    /\ NoRow \in Counts /\ NoRow.value = Default /\ SeedRow \in Counts /\ SeedRow.value = Default
    /\ NoRow.count <= 1 /\ SeedRow.count <= 1
    /\ Nothing \in Entry /\ ~Nothing.cached
    /\ Closed \in Session /\ Closed.state = "closed"
    /\ NoPut \in Put /\ NoPut.state = "none"
BY Bounds DEF NoRow, SeedRow, Nothing, Closed, NoPut, Counts, Entry, Session, Put

LEMMA InitTyped == Init => Typed
<1> SUFFICES ASSUME Init PROVE Typed
  OBVIOUS
<1>1. RowsTyped
  <2>1. rows \in [Keys -> {NoRow, SeedRow}]
    BY DEF Init
  <2>2. \A k \in Keys : rows[k] = NoRow \/ rows[k] = SeedRow
    BY <2>1
  <2>3. AgentKeys \subseteq Keys
    BY Bounds
  <2> QED
    BY <2>1, <2>2, <2>3, Blank DEF RowsTyped
<1>2. CacheTyped /\ SessionsTyped /\ PutsTyped
  BY Blank DEF Init, CacheTyped, SessionsTyped, PutsTyped
<1>3. GoneTyped
  BY Bounds DEF Init, GoneTyped
<1>4. RestTyped
  BY Bounds DEF Init, RestTyped
<1> QED
  BY <1>1, <1>2, <1>3, <1>4 DEF Typed

\* What a write does to a row: its value changes only by a PUT, and only a key
\* without uk_dc can get a second row.
LEMMA InsertedRow ==
    ASSUME RowsTyped, NEW k \in Keys, NEW v \in Values
    PROVE  /\ Inserted(k, v) \in Counts
           /\ k \in AgentKeys /\ ~Refused(k) => Inserted(k, v).count <= 1
           /\ Inserted(k, v).value = IF rows[k].count > 0 THEN rows[k].value ELSE v
<1>1. rows[k] \in Counts
  BY DEF RowsTyped
<1> QED
  BY <1>1 DEF Inserted, Refused, Counts

LEMMA UpdatedRow ==
    ASSUME RowsTyped, NEW k \in Keys, NEW v \in Values, NEW read
    PROVE  Updated(k, v, read) \in Counts /\ Updated(k, v, read).count = rows[k].count
<1>1. rows[k] \in Counts
  BY DEF RowsTyped
<1> DEFINE value == IF v = read.value THEN rows[k].value ELSE v
<1>2. value \in Values
  BY <1>1 DEF Counts
<1>3. Updated(k, v, read) = [rows[k] EXCEPT !.value = value]
  BY DEF Updated
<1> HIDE DEF value
<1> QED
  BY <1>1, <1>2, <1>3 DEF Counts

-----------------------------------------------------------------------------
(***************************************************************************)
(* The invariant of the cache.  gone counts the ticks since a value was    *)
(* overwritten; a session lags at most that far behind the rows, and an    *)
(* entry at most its age more than the session that filled it.             *)
(***************************************************************************)
PresentIsCurrent == \A k \in GlobalKeys :
    gone[k][rows[k].value] = 0 /\ (rows[k].count = 0 => rows[k].value = Default)

\* Rows are never deleted: one that a PUT has read is there when it commits.
RowsStay == \A w \in Writers :
    puts[w].state = "read" /\ puts[w].read.count # 0 => rows[puts[w].key].count # 0

SessionLags == \A r \in Readers, k \in GlobalKeys :
    sessions[r].state # "closed" => gone[k][sessions[r].seen[k].value] <= sessions[r].lag

EntryAges == \A p \in Processes, k \in GlobalKeys :
    cache[p][k].cached => gone[k][cache[p][k].value] <= cache[p][k].age + QueryTicks

\* Unless a PUT is between its commit and its clearing, whatever the API process
\* has cached, or may yet cache from an open session, is current, but for the
\* sessions that a clearing crossed.
NoneCommitted == \A w \in Writers : puts[w].state # "committed"

ApiCurrent == NoneCommitted =>
    \A k \in GlobalKeys :
        /\ cache[Api][k].cached /\ ~cache[Api][k].crossed => cache[Api][k].value = rows[k].value
        /\ \A r \in Readers :
               ProcessOf[r] = Api /\ sessions[r].state # "closed" /\ ~sessions[r].crossed
                   => sessions[r].seen[k].value = rows[k].value

Inv == Typed /\ PresentIsCurrent /\ RowsStay /\ SessionLags /\ EntryAges /\ ApiCurrent

LEMMA InitInv == Init => Inv
<1> SUFFICES ASSUME Init PROVE Inv
  OBVIOUS
<1>1. Typed
  BY InitTyped
<1>2. \A k \in GlobalKeys : rows[k].value = Default
  BY Blank, Bounds DEF Init
<1>3. PresentIsCurrent /\ RowsStay
  BY <1>2, Blank, Bounds DEF Init, PresentIsCurrent, RowsStay
<1>4. SessionLags /\ EntryAges /\ ApiCurrent
  BY Blank, Bounds DEF Init, SessionLags, EntryAges, ApiCurrent
<1> QED
  BY <1>1, <1>3, <1>4 DEF Inv

LEMMA EntryTypes ==
    ASSUME Typed
    PROVE  /\ \A k \in GlobalKeys : k \in Keys /\ rows[k] \in Counts
           /\ \A p \in Processes, k \in GlobalKeys : cache[p][k] \in Entry
           /\ \A r \in Readers : sessions[r] \in Session
           /\ \A r \in Readers, k \in GlobalKeys : sessions[r].seen[k] \in Counts
           /\ \A k \in GlobalKeys, v \in Values : gone[k][v] \in 0 .. TTL + QueryTicks
BY Bounds DEF Typed, RowsTyped, CacheTyped, SessionsTyped, GoneTyped, Session

-----------------------------------------------------------------------------
(***************************************************************************)
(* Readers                                                                 *)
(***************************************************************************)
LEMMA SessionStep ==
    ASSUME Inv, NEW r \in Readers, NEW s \in Session,
           sessions' = [sessions EXCEPT ![r] = s],
           UNCHANGED <<rows, cache, puts, seeding, bound, gone>>,
           s.state = "missed" => s.key \in GlobalKeys,
           s.state # "closed" => \A k \in GlobalKeys :
               /\ gone[k][s.seen[k].value] <= s.lag
               /\ NoneCommitted /\ ProcessOf[r] = Api /\ ~s.crossed =>
                      s.seen[k].value = rows[k].value
    PROVE  Inv'
<1>1. sessions'[r] = s /\ \A q \in Readers \ {r} : sessions'[q] = sessions[q]
  BY DEF Inv, Typed, SessionsTyped
<1>2. SessionsTyped'
  BY <1>1 DEF Inv, Typed, SessionsTyped
<1>3. Typed' /\ PresentIsCurrent' /\ RowsStay' /\ EntryAges'
  BY <1>2 DEF Inv, Typed, RowsTyped, CacheTyped, PutsTyped, GoneTyped, RestTyped,
              PresentIsCurrent, RowsStay, EntryAges
<1>4. SessionLags'
  BY <1>1 DEF Inv, SessionLags
<1>5. ApiCurrent'
  BY <1>1 DEF Inv, ApiCurrent, NoneCommitted
<1> QED
  BY <1>3, <1>4, <1>5 DEF Inv

LEMMA OpenInv == ASSUME Inv, NEW r \in Readers, Open(r) PROVE Inv'
<1> DEFINE seen == [k \in GlobalKeys |-> rows[k]]
           s == [Closed EXCEPT !.state = "open", !.seen = seen]
<1>1. /\ sessions' = [sessions EXCEPT ![r] = s]
      /\ UNCHANGED <<rows, cache, puts, seeding, bound, gone>>
  BY DEF Open
<1>2. seen \in [GlobalKeys -> Counts]
  BY EntryTypes DEF Inv
<1>3. /\ s \in Session /\ s.state = "open" /\ s.lag = 0
      /\ \A k \in GlobalKeys : s.seen[k] = rows[k]
  BY <1>2, Blank, Bounds DEF Session, Closed
<1> HIDE DEF s
<1>4. \A k \in GlobalKeys : gone[k][s.seen[k].value] <= s.lag
  <2> SUFFICES ASSUME NEW k \in GlobalKeys PROVE gone[k][s.seen[k].value] <= s.lag
    OBVIOUS
  <2>1. gone[k][rows[k].value] = 0
    BY DEF Inv, PresentIsCurrent
  <2>2. s.seen[k] = rows[k] /\ s.lag = 0
    BY <1>3
  <2>3. gone[k][s.seen[k].value] = 0
    BY <2>1, <2>2
  <2> QED
    BY <2>2, <2>3
<1> QED
  BY <1>1, <1>3, <1>4, SessionStep

LEMMA DoneInv == ASSUME Inv, NEW r \in Readers, Done(r) PROVE Inv'
BY SessionStep, Blank DEF Done

LEMMA MissInv == ASSUME Inv, NEW r \in Readers, NEW k \in GlobalKeys, Miss(r, k) PROVE Inv'
<1> DEFINE s == [sessions[r] EXCEPT !.state = "missed", !.key = k]
<1>1. sessions[r] \in Session /\ sessions \in [Readers -> Session]
  BY DEF Inv, Typed, SessionsTyped
<1>2. /\ sessions' = [sessions EXCEPT ![r] = s]
      /\ UNCHANGED <<rows, cache, puts, seeding, bound, gone>> /\ sessions[r].state = "open"
  BY <1>1 DEF Miss
<1>3. /\ s \in Session /\ s.state = "missed" /\ s.key = k /\ s.lag = sessions[r].lag
      /\ s.seen = sessions[r].seen /\ s.crossed = sessions[r].crossed
  BY <1>1 DEF Session
<1> HIDE DEF s
<1>4. \A j \in GlobalKeys :
          /\ gone[j][s.seen[j].value] <= s.lag
          /\ NoneCommitted /\ ProcessOf[r] = Api /\ ~s.crossed => s.seen[j].value = rows[j].value
  BY <1>2, <1>3 DEF Inv, SessionLags, ApiCurrent
<1> QED
  BY <1>2, <1>3, <1>4, SessionStep

LEMMA FillInv == ASSUME Inv, NEW r \in Readers, Fill(r) PROVE Inv'
<1> DEFINE p == ProcessOf[r]
           k == sessions[r].key
           row == sessions[r].seen[k]
           e == [cached |-> TRUE, value |-> row.value, age |-> 0, crossed |-> sessions[r].crossed]
<1>1. /\ sessions[r].state = "missed" /\ k \in GlobalKeys /\ p \in Processes
      /\ sessions[r] \in Session /\ row \in Counts
  BY EntryTypes, Bounds DEF Fill, Inv, Typed, SessionsTyped
<1>2. /\ sessions' = [sessions EXCEPT ![r] = Closed]
      /\ UNCHANGED <<rows, puts, seeding, bound, gone>>
      /\ cache' = cache \/ cache' = [cache EXCEPT ![p][k] = e]
  BY DEF Fill
<1>3. e \in Entry /\ e.value = row.value /\ e.age = 0 /\ e.crossed = sessions[r].crossed
  BY <1>1, Bounds DEF Entry, Session, Counts
<1> HIDE DEF e
<1>4. /\ sessions'[r] = Closed /\ sessions' \in [Readers -> Session]
      /\ \A q \in Readers \ {r} : sessions'[q] = sessions[q]
  BY <1>2, Blank DEF Inv, Typed, SessionsTyped
<1>5. \A q \in Processes, j \in GlobalKeys :
          cache'[q][j] = cache[q][j] \/ (q = p /\ j = k /\ cache'[q][j] = e)
  BY <1>2 DEF Inv, Typed, CacheTyped
<1>6. CacheTyped'
  BY <1>1, <1>2, <1>3 DEF Inv, Typed, CacheTyped
<1>7. Typed' /\ PresentIsCurrent' /\ RowsStay' /\ SessionLags'
  BY <1>2, <1>4, <1>6, Blank DEF Inv, Typed, RowsTyped, SessionsTyped, PutsTyped, GoneTyped,
                                 RestTyped, PresentIsCurrent, RowsStay, SessionLags
<1>8. gone[k][row.value] <= QueryTicks
  <2>1. gone[k][row.value] <= sessions[r].lag
    BY <1>1 DEF Inv, SessionLags
  <2>2. sessions[r].lag \in 0 .. QueryTicks /\ gone[k][row.value] \in 0 .. TTL + QueryTicks
    BY <1>1, EntryTypes DEF Inv, Session, Counts
  <2> QED
    BY <2>1, <2>2, Bounds
<1>9. EntryAges'
  <2> SUFFICES ASSUME NEW q \in Processes, NEW j \in GlobalKeys, cache'[q][j].cached
               PROVE  gone[j][cache'[q][j].value] <= cache'[q][j].age + QueryTicks
    BY <1>2 DEF EntryAges
  <2>1. CASE cache'[q][j] = cache[q][j]
    BY <2>1 DEF Inv, EntryAges
  <2>2. CASE q = p /\ j = k /\ cache'[q][j] = e
    BY <1>3, <1>8, <2>2, Bounds
  <2> QED
    BY <1>5, <2>1, <2>2
<1>10. ApiCurrent'
  <2> SUFFICES ASSUME NoneCommitted, NEW j \in GlobalKeys
               PROVE  /\ cache'[Api][j].cached /\ ~cache'[Api][j].crossed =>
                             cache'[Api][j].value = rows[j].value
                      /\ \A q \in Readers :
                             ProcessOf[q] = Api /\ sessions'[q].state # "closed"
                                 /\ ~sessions'[q].crossed
                                 => sessions'[q].seen[j].value = rows[j].value
    BY <1>2 DEF ApiCurrent, NoneCommitted
  <2>1. CASE cache'[Api][j] = cache[Api][j]
    BY <1>4, <2>1, Blank DEF Inv, ApiCurrent
  <2>2. CASE Api = p /\ j = k /\ cache'[Api][j] = e
    <3>1. ~sessions[r].crossed => row.value = rows[k].value
      BY <1>1, <2>2 DEF Inv, ApiCurrent
    <3> QED
      BY <1>3, <1>4, <2>2, <3>1, Blank DEF Inv, ApiCurrent
  <2> QED
    BY <1>5, <2>1, <2>2, Bounds
<1> QED
  BY <1>7, <1>9, <1>10 DEF Inv

-----------------------------------------------------------------------------
(***************************************************************************)
(* Writers.  A PUT overwrites a row in one step and clears the cache in a  *)
(* later one; the seed script writes a value that readers saw already.     *)
(***************************************************************************)
\* Steps of a PUT that write no row: it is committed only where it was before.
LEMMA PutStep ==
    ASSUME Inv, NEW w \in Writers, NEW put \in Put, puts' = [puts EXCEPT ![w] = put],
           UNCHANGED <<rows, cache, sessions, seeding, gone>>, RestTyped',
           put.state = "read" => put.key \in Keys /\ (put.read.count # 0 => rows[put.key].count # 0),
           puts[w].state # "committed"
    PROVE  Inv'
<1>1. puts'[w] = put /\ \A x \in Writers \ {w} : puts'[x] = puts[x]
  BY DEF Inv, Typed, PutsTyped
<1>2. PutsTyped'
  BY <1>1 DEF Inv, Typed, PutsTyped
<1>3. NoneCommitted' => NoneCommitted
  BY <1>1 DEF NoneCommitted
<1>4. RowsStay'
  BY <1>1 DEF Inv, RowsStay
<1> QED
  BY <1>2, <1>3, <1>4 DEF Inv, Typed, RowsTyped, CacheTyped, SessionsTyped, GoneTyped,
                    PresentIsCurrent, SessionLags, EntryAges, ApiCurrent

LEMMA PutReadInv ==
    ASSUME Inv, NEW w \in Writers, NEW k \in Keys, NEW v \in Values, PutRead(w, k, v)
    PROVE  Inv'
<1> DEFINE put == [state |-> "read", key |-> k, value |-> v, read |-> rows[k]]
           n == bound.puts + 1
<1>1. /\ puts' = [puts EXCEPT ![w] = put] /\ bound' = [bound EXCEPT !.puts = n]
      /\ UNCHANGED <<rows, cache, sessions, seeding, gone>>
      /\ puts[w].state = "none" /\ bound.puts < MaxPuts
  BY DEF PutRead
<1>2. put \in Put /\ put.key = k /\ put.read = rows[k]
  BY DEF Put, Inv, Typed, RowsTyped
<1>3. bound \in [puts : 0 .. MaxPuts, restarts : 0 .. MaxRestarts] /\ n \in 0 .. MaxPuts
  BY <1>1, Bounds DEF Inv, Typed, RestTyped
<1> HIDE DEF put, n
<1>4. RestTyped'
  BY <1>1, <1>3 DEF Inv, Typed, RestTyped
<1> QED
  BY <1>1, <1>2, <1>4, PutStep

LEMMA PutRefusedInv == ASSUME Inv, NEW w \in Writers, PutRefused(w) PROVE Inv'
<1>1. RestTyped'
  BY DEF PutRefused, Inv, Typed, RestTyped
<1> QED
  BY <1>1, PutStep, Blank DEF PutRefused

LEMMA PutCommitInv == ASSUME Inv, NEW w \in Writers, PutCommit(w) PROVE Inv'
<1> DEFINE k == puts[w].key
           row == Written(puts[w])
           done == [NoPut EXCEPT !.state = "committed"]
<1>1. /\ k \in Keys /\ puts[w] \in Put /\ (puts[w].read.count = 0 => ~Refused(k))
      /\ rows' = [rows EXCEPT ![k] = row] /\ puts' = [puts EXCEPT ![w] = done]
      /\ gone' = IF k \in GlobalKeys THEN [gone EXCEPT ![k][row.value] = 0] ELSE gone
      /\ UNCHANGED <<cache, sessions, seeding, bound>>
  BY DEF PutCommit, Inv, Typed, PutsTyped
<1>2. row \in Counts /\ (k \in AgentKeys => row.count <= 1)
  <2>1. puts[w].value \in Values /\ RowsTyped
    BY <1>1 DEF Put, Inv, Typed
  <2>2. CASE puts[w].read.count = 0
    BY <1>1, <2>1, <2>2, InsertedRow DEF Written
  <2>3. CASE puts[w].read.count # 0
    BY <1>1, <2>1, <2>3, UpdatedRow DEF Written, RowsTyped
  <2> QED
    BY <2>2, <2>3
<1>3. done \in Put /\ done.state = "committed"
  BY Blank DEF Put, NoPut
<1>3a. row.count # 0
  <2>1. rows[k] \in Counts /\ RowsTyped
    BY <1>1 DEF Inv, Typed, RowsTyped
  <2>2. CASE puts[w].read.count = 0
    <3>1. row = Inserted(k, puts[w].value)
      BY <2>2 DEF Written
    <3> HIDE DEF row
    <3> QED
      BY <2>1, <3>1 DEF Inserted, Counts
  <2>3. CASE puts[w].read.count # 0
    <3>1. rows[k].count # 0
      BY <2>3 DEF PutCommit, Inv, RowsStay
    <3> QED
      BY <1>1, <2>1, <2>3, <3>1, UpdatedRow DEF Written, Put
  <2> QED
    BY <2>2, <2>3
<1> HIDE DEF row, done
<1>4. puts'[w] = done /\ PutsTyped'
  BY <1>1, <1>3 DEF Inv, Typed, PutsTyped
<1>5. ~NoneCommitted'
  BY <1>3, <1>4 DEF NoneCommitted
<1>6. RowsTyped' /\ rows'[k] = row /\ \A j \in Keys \ {k} : rows'[j] = rows[j]
  BY <1>1, <1>2 DEF Inv, Typed, RowsTyped
<1>7. row.value \in Values
  BY <1>2 DEF Counts
<1>8. /\ GoneTyped'
      /\ \A j \in GlobalKeys, v \in Values :
             gone'[j][v] = IF j = k /\ v = row.value THEN 0 ELSE gone[j][v]
  BY <1>1, <1>7, Bounds DEF Inv, Typed, GoneTyped
<1>9. \A j \in GlobalKeys, v \in Values : gone'[j][v] <= gone[j][v]
  BY <1>8, EntryTypes, Bounds DEF Inv
<1>10. Typed'
  BY <1>1, <1>4, <1>6, <1>8 DEF Inv, Typed, CacheTyped, SessionsTyped, RestTyped
<1>11. \A j \in GlobalKeys : rows'[j].count = 0 => rows'[j].value = Default
  <2> SUFFICES ASSUME NEW j \in GlobalKeys, rows'[j].count = 0 PROVE rows'[j].value = Default
    OBVIOUS
  <2>1. CASE j # k
    BY <1>6, <2>1, Bounds DEF Inv, PresentIsCurrent
  <2>2. CASE j = k
    BY <1>6, <1>3a, <2>2
  <2> QED
    BY <2>1, <2>2
<1>12. PresentIsCurrent'
  BY <1>6, <1>7, <1>8, <1>11, EntryTypes, Bounds DEF Inv, PresentIsCurrent, Counts
<1>13. SessionLags'
  <2> SUFFICES ASSUME NEW r \in Readers, NEW j \in GlobalKeys, sessions[r].state # "closed"
               PROVE  gone'[j][sessions[r].seen[j].value] <= sessions[r].lag
    BY <1>1 DEF SessionLags
  <2> DEFINE v == sessions[r].seen[j].value
  <2>1. v \in Values /\ sessions[r].lag \in 0 .. QueryTicks
    BY EntryTypes DEF Inv, Counts, Session
  <2>2. gone[j][v] <= sessions[r].lag
    BY DEF Inv, SessionLags
  <2> HIDE DEF v
  <2>3. gone'[j][v] \in 0 .. TTL + QueryTicks /\ gone[j][v] \in 0 .. TTL + QueryTicks
    BY <1>8, <2>1, EntryTypes DEF Inv, GoneTyped
  <2>4. gone'[j][v] <= gone[j][v]
    BY <1>9, <2>1
  <2>5. gone'[j][v] <= sessions[r].lag
    BY <2>1, <2>2, <2>3, <2>4, Bounds
  <2> QED
    BY <2>5 DEF v
<1>14. EntryAges'
  <2> SUFFICES ASSUME NEW p \in Processes, NEW j \in GlobalKeys, cache[p][j].cached
               PROVE  gone'[j][cache[p][j].value] <= cache[p][j].age + QueryTicks
    BY <1>1 DEF EntryAges
  <2> DEFINE v == cache[p][j].value
  <2>1. v \in Values /\ cache[p][j].age \in 0 .. TTL
    BY EntryTypes DEF Inv, Entry
  <2>2. gone[j][v] <= cache[p][j].age + QueryTicks
    BY DEF Inv, EntryAges
  <2> HIDE DEF v
  <2>3. gone'[j][v] \in 0 .. TTL + QueryTicks /\ gone[j][v] \in 0 .. TTL + QueryTicks
    BY <1>8, <2>1, EntryTypes DEF Inv, GoneTyped
  <2>4. gone'[j][v] <= gone[j][v]
    BY <1>9, <2>1
  <2>5. gone'[j][v] <= cache[p][j].age + QueryTicks
    BY <2>1, <2>2, <2>3, <2>4, Bounds
  <2> QED
    BY <2>5 DEF v
<1>15. RowsStay'
  <2> SUFFICES ASSUME NEW x \in Writers, puts'[x].state = "read", puts'[x].read.count # 0
               PROVE  rows'[puts'[x].key].count # 0
    BY DEF RowsStay
  <2>1. x # w /\ puts'[x] = puts[x] /\ puts[x].key \in Keys
    BY <1>1, <1>3, <1>4 DEF Inv, Typed, PutsTyped
  <2>2. rows[puts[x].key].count # 0
    BY <2>1 DEF Inv, RowsStay
  <2> QED
    BY <1>6, <1>3a, <2>1, <2>2
<1> QED
  BY <1>5, <1>10, <1>12, <1>13, <1>14, <1>15 DEF Inv, ApiCurrent

\* Clearing leaves nothing that was read before, and marks what is being read.
LEMMA ClearInv == ASSUME Inv, NEW w \in Writers, invalidate_cache(w) PROVE Inv'
<1>1. /\ puts' = [puts EXCEPT ![w] = NoPut]
      /\ cache' = [cache EXCEPT ![Api] = [k \in GlobalKeys |-> Nothing]]
      /\ sessions' = Crossed(Api) /\ UNCHANGED <<rows, seeding, bound, gone>>
  BY DEF invalidate_cache, Cleared
<1>2. \A r \in Readers :
          /\ sessions'[r] \in Session /\ sessions'[r].state = sessions[r].state
          /\ sessions'[r].key = sessions[r].key /\ sessions'[r].seen = sessions[r].seen
          /\ sessions'[r].lag = sessions[r].lag
          /\ ProcessOf[r] = Api /\ sessions'[r].state # "closed" => sessions'[r].crossed
  <2> TAKE r \in Readers
  <2>1. sessions[r] \in Session
    BY EntryTypes DEF Inv
  <2> QED
    BY <1>1, <2>1 DEF Crossed, Session
<1>3. SessionsTyped'
  <2>1. sessions' = [r \in Readers |-> sessions'[r]]
    BY <1>1 DEF Crossed
  <2> QED
    BY <1>2, <2>1 DEF Inv, Typed, SessionsTyped
<1>4. /\ CacheTyped' /\ \A k \in GlobalKeys : cache'[Api][k] = Nothing
      /\ \A p \in Processes \ {Api} : cache'[p] = cache[p]
  BY <1>1, Blank, Bounds DEF Inv, Typed, CacheTyped
<1>5. PutsTyped'
  BY <1>1, Blank DEF Inv, Typed, PutsTyped
<1>6. Typed' /\ PresentIsCurrent'
  BY <1>1, <1>3, <1>4, <1>5 DEF Inv, Typed, RowsTyped, GoneTyped, RestTyped, PresentIsCurrent
<1>6a. RowsStay'
  BY <1>1, Blank DEF Inv, Typed, PutsTyped, RowsStay
<1>7. SessionLags'
  BY <1>1, <1>2 DEF Inv, SessionLags
<1>8. EntryAges'
  BY <1>1, <1>4, Blank DEF Inv, EntryAges
<1>9. ApiCurrent'
  BY <1>2, <1>4, Blank DEF ApiCurrent
<1> QED
  BY <1>6, <1>7, <1>8, <1>9, <1>6a DEF Inv

\* Steps that change no value of a row, although they may insert it.
LEMMA SeedInv == ASSUME Inv, SeedRead \/ SeedCommit PROVE Inv'
<1>1. CASE SeedRead
  <2>1. UNCHANGED <<rows, cache, sessions, puts, bound, gone>> /\ RestTyped'
    BY <1>1 DEF SeedRead, Inv, Typed, RestTyped
  <2> QED
    BY <2>1 DEF Inv, Typed, RowsTyped, CacheTyped, SessionsTyped, PutsTyped, GoneTyped,
                PresentIsCurrent, RowsStay, SessionLags, EntryAges, ApiCurrent, NoneCommitted
<1>2. CASE SeedCommit
  <2>1. PICK absent \in seeding :
          /\ rows' = [k \in Keys |->
                 IF k \in absent \cup {j \in AgentKeys : ~Refused(j)}
                 THEN Inserted(k, Default) ELSE rows[k]]
          /\ seeding' = {} /\ UNCHANGED <<cache, sessions, puts, bound, gone>>
    BY <1>2 DEF SeedCommit
  <2>2. absent \subseteq GlobalKeys /\ RowsTyped
    BY DEF Inv, Typed, RestTyped
  <2>3. \A k \in Keys : rows'[k] \in Counts /\ (k \in AgentKeys => rows'[k].count <= 1)
    <3> TAKE k \in Keys
    <3>1. rows[k] \in Counts /\ (k \in AgentKeys => rows[k].count <= 1)
      BY <2>2 DEF RowsTyped
    <3> QED
      BY <2>1, <2>2, <3>1, InsertedRow, Bounds
  <2>4. RowsTyped'
    BY <2>1, <2>3, Bounds DEF RowsTyped
  <2>5. \A k \in GlobalKeys : rows'[k].value = rows[k].value
    <3> TAKE k \in GlobalKeys
    <3>1. k \in Keys /\ rows[k] \in Counts /\ (rows[k].count = 0 => rows[k].value = Default)
      BY EntryTypes DEF Inv, PresentIsCurrent
    <3>2. Inserted(k, Default).value = rows[k].value
      BY <2>2, <3>1, InsertedRow, Bounds DEF Counts
    <3> QED
      BY <2>1, <3>1, <3>2
  <2>6. \A k \in Keys : rows'[k].count = 0 => rows[k].count = 0
    <3> TAKE k \in Keys
    <3>1. rows[k] \in Counts
      BY <2>2 DEF RowsTyped
    <3> QED
      BY <2>1, <3>1 DEF Inserted
  <2>7. PresentIsCurrent'
    BY <2>1, <2>5, <2>6, Bounds DEF Inv, PresentIsCurrent
  <2>8. Typed'
    BY <2>1, <2>4 DEF Inv, Typed, CacheTyped, SessionsTyped, PutsTyped, GoneTyped, RestTyped
  <2>9. SessionLags' /\ EntryAges'
    BY <2>1 DEF Inv, SessionLags, EntryAges
  <2>10. ApiCurrent'
    BY <2>1, <2>5 DEF Inv, ApiCurrent, NoneCommitted
  <2>11. RowsStay'
    BY <2>1, <2>6 DEF Inv, Typed, PutsTyped, RowsStay
  <2> QED
    BY <2>7, <2>8, <2>9, <2>10, <2>11 DEF Inv
<1> QED
  BY <1>1, <1>2

-----------------------------------------------------------------------------
(***************************************************************************)
(* Time and restarts                                                       *)
(***************************************************************************)
LEMMA UptoValue ==
    ASSUME NEW max \in Nat, NEW n \in 0 .. max
    PROVE  Upto(n, max) \in 0 .. max /\ Upto(n, max) <= n + 1
           /\ (Upto(n, max) = n + 1 \/ Upto(n, max) = max)
BY DEF Upto

\* What a tick does to the counters.
LEMMA TickStep ==
    ASSUME Inv, Tick
    PROVE  /\ \A k \in GlobalKeys, v \in Values : gone'[k][v] =
                  IF v = rows[k].value THEN 0 ELSE Upto(gone[k][v], TTL + QueryTicks)
           /\ \A p \in Processes, k \in GlobalKeys : cache'[p][k] =
                  IF cache[p][k].cached
                  THEN [cache[p][k] EXCEPT !.age = Upto(cache[p][k].age, TTL)] ELSE Nothing
           /\ \A r \in Readers : sessions'[r] =
                  IF sessions[r].state = "closed" THEN Closed
                  ELSE [sessions[r] EXCEPT !.lag = sessions[r].lag + 1]
           /\ \A r \in Readers : sessions[r].state # "closed" => sessions[r].lag < QueryTicks
           /\ UNCHANGED <<rows, puts, seeding, bound>>
BY DEF Tick

LEMMA TickInv == ASSUME Inv, Tick PROVE Inv'
<1>1. ASSUME NEW k \in GlobalKeys, NEW v \in Values
      PROVE  gone'[k][v] \in 0 .. TTL + QueryTicks /\ gone'[k][v] <= gone[k][v] + 1
             /\ gone[k][v] \in 0 .. TTL + QueryTicks
  <2>1. gone[k][v] \in 0 .. TTL + QueryTicks /\ TTL + QueryTicks \in Nat
    BY EntryTypes, Bounds DEF Inv
  <2> QED
    BY <2>1, TickStep, UptoValue, Bounds
<1>2. ASSUME NEW r \in Readers
      PROVE  /\ sessions'[r] \in Session /\ sessions'[r].state = sessions[r].state
             /\ sessions[r].state # "closed" =>
                    /\ sessions'[r].lag = sessions[r].lag + 1 /\ sessions[r].lag \in Nat
                    /\ sessions'[r].seen = sessions[r].seen /\ sessions'[r].key = sessions[r].key
                    /\ sessions'[r].crossed = sessions[r].crossed
  <2>1. sessions[r] \in Session
    BY EntryTypes DEF Inv
  <2>2. CASE sessions[r].state = "closed"
    BY <2>2, TickStep, Blank
  <2>3. CASE sessions[r].state # "closed"
    <3> DEFINE n == sessions[r].lag + 1
    <3>1. n \in 0 .. QueryTicks /\ sessions[r].lag \in Nat
      BY <2>1, <2>3, TickStep, Bounds DEF Session
    <3>2. sessions'[r] = [sessions[r] EXCEPT !.lag = n]
      BY <2>3, TickStep
    <3>3. n = sessions[r].lag + 1
      OBVIOUS
    <3> HIDE DEF n
    <3> QED
      BY <2>1, <3>1, <3>2, <3>3 DEF Session
  <2> QED
    BY <2>2, <2>3
<1>3. ASSUME NEW p \in Processes, NEW k \in GlobalKeys
      PROVE  /\ cache'[p][k] \in Entry /\ cache'[p][k].cached = cache[p][k].cached
             /\ cache[p][k].cached =>
                    /\ cache'[p][k].value = cache[p][k].value
                    /\ cache'[p][k].crossed = cache[p][k].crossed
                    /\ cache'[p][k].age = Upto(cache[p][k].age, TTL)
  <2>1. cache[p][k] \in Entry
    BY EntryTypes DEF Inv
  <2>2. CASE ~cache[p][k].cached
    BY <2>1, <2>2, TickStep, Blank DEF Entry, Nothing
  <2>3. CASE cache[p][k].cached
    <3> DEFINE n == Upto(cache[p][k].age, TTL)
    <3>1. n \in 0 .. TTL
      BY <2>1, UptoValue, Bounds DEF Entry
    <3>2. cache'[p][k] = [cache[p][k] EXCEPT !.age = n]
      BY <2>3, TickStep
    <3>3. n = Upto(cache[p][k].age, TTL)
      OBVIOUS
    <3> HIDE DEF n
    <3> QED
      BY <2>1, <3>1, <3>2, <3>3 DEF Entry
  <2> QED
    BY <2>2, <2>3
<1>4. Typed'
  <2>1. GoneTyped'
    BY <1>1 DEF Tick, GoneTyped
  <2>2. SessionsTyped'
    <3>1. sessions' = [r \in Readers |-> sessions'[r]]
      BY DEF Tick
    <3>2. sessions' \in [Readers -> Session]
      BY <1>2, <3>1
    <3> QED
      BY <1>2, <3>2 DEF Inv, Typed, SessionsTyped
  <2>3. CacheTyped'
    BY <1>3 DEF Tick, CacheTyped
  <2> QED
    BY <2>1, <2>2, <2>3, TickStep DEF Inv, Typed, RowsTyped, PutsTyped, RestTyped
<1>5. PresentIsCurrent' /\ RowsStay'
  BY TickStep, EntryTypes DEF Inv, PresentIsCurrent, RowsStay, Counts
<1>6. SessionLags'
  <2> SUFFICES ASSUME NEW r \in Readers, NEW k \in GlobalKeys, sessions'[r].state # "closed"
               PROVE  gone'[k][sessions'[r].seen[k].value] <= sessions'[r].lag
    BY DEF SessionLags
  <2>1. sessions[r].state # "closed" /\ sessions'[r].seen = sessions[r].seen
        /\ sessions'[r].lag = sessions[r].lag + 1 /\ sessions[r].lag \in Nat
    BY <1>2
  <2> DEFINE v == sessions[r].seen[k].value
  <2>2. v \in Values
    BY EntryTypes DEF Inv, Counts
  <2>3. gone[k][v] <= sessions[r].lag
    BY <2>1 DEF Inv, SessionLags
  <2> HIDE DEF v
  <2>4. gone'[k][v] <= sessions[r].lag + 1
    BY <1>1, <2>1, <2>2, <2>3, Bounds
  <2> QED
    BY <2>1, <2>4 DEF v
<1>7. EntryAges'
  <2> SUFFICES ASSUME NEW p \in Processes, NEW k \in GlobalKeys, cache'[p][k].cached
               PROVE  gone'[k][cache'[p][k].value] <= cache'[p][k].age + QueryTicks
    BY DEF EntryAges
  <2> DEFINE v == cache[p][k].value
             age == cache[p][k].age
  <2>1. cache[p][k].cached /\ cache'[p][k].value = v /\ cache'[p][k].age = Upto(age, TTL)
    BY <1>3
  <2>2. v \in Values /\ age \in 0 .. TTL
    BY EntryTypes DEF Inv, Entry
  <2>3. gone[k][v] <= age + QueryTicks
    BY <2>1 DEF Inv, EntryAges
  <2> HIDE DEF v, age
  <2>4. Upto(age, TTL) \in 0 .. TTL /\ (Upto(age, TTL) = age + 1 \/ Upto(age, TTL) = TTL)
    BY <2>2, UptoValue, Bounds
  <2>5. gone'[k][v] \in 0 .. TTL + QueryTicks /\ gone'[k][v] <= gone[k][v] + 1
        /\ gone[k][v] \in 0 .. TTL + QueryTicks
    BY <1>1, <2>2
  <2>6. gone'[k][v] <= Upto(age, TTL) + QueryTicks
    BY <2>2, <2>3, <2>4, <2>5, Bounds
  <2> QED
    BY <2>1, <2>6
<1>8. ApiCurrent'
  <2> SUFFICES ASSUME NoneCommitted, NEW k \in GlobalKeys
               PROVE  /\ cache'[Api][k].cached /\ ~cache'[Api][k].crossed =>
                             cache'[Api][k].value = rows[k].value
                      /\ \A r \in Readers :
                             ProcessOf[r] = Api /\ sessions'[r].state # "closed"
                                 /\ ~sessions'[r].crossed
                                 => sessions'[r].seen[k].value = rows[k].value
    BY TickStep DEF ApiCurrent, NoneCommitted
  <2> QED
    BY <1>2, <1>3, Bounds DEF Inv, ApiCurrent
<1> QED
  BY <1>4, <1>5, <1>6, <1>7, <1>8 DEF Inv

LEMMA RestartInv == ASSUME Inv, NEW p \in Processes, Restart(p) PROVE Inv'
<1> DEFINE n == bound.restarts + 1
<1>1. /\ bound.restarts < MaxRestarts /\ bound' = [bound EXCEPT !.restarts = n]
      /\ cache' = [cache EXCEPT ![p] = [k \in GlobalKeys |-> Nothing]]
      /\ sessions' = [r \in Readers |-> IF ProcessOf[r] = p THEN Closed ELSE sessions[r]]
      /\ puts' = IF p = Api THEN [w \in Writers |-> NoPut] ELSE puts
      /\ UNCHANGED <<rows, seeding, gone>>
  BY DEF Restart
<1>2. bound \in [puts : 0 .. MaxPuts, restarts : 0 .. MaxRestarts] /\ n \in 0 .. MaxRestarts
  BY <1>1, Bounds DEF Inv, Typed, RestTyped
<1> HIDE DEF n
<1>3. RestTyped'
  BY <1>1, <1>2 DEF Inv, Typed, RestTyped
<1>4. /\ CacheTyped' /\ \A k \in GlobalKeys : cache'[p][k] = Nothing
      /\ \A q \in Processes \ {p} : cache'[q] = cache[q]
  BY <1>1, Blank DEF Inv, Typed, CacheTyped
<1>5. \A r \in Readers : sessions'[r] = IF ProcessOf[r] = p THEN Closed ELSE sessions[r]
  BY <1>1
<1>6. SessionsTyped' /\ PutsTyped'
  BY <1>1, <1>5, Blank DEF Inv, Typed, SessionsTyped, PutsTyped
<1>7. Typed' /\ PresentIsCurrent' /\ RowsStay'
  BY <1>1, <1>3, <1>4, <1>6, Blank
  DEF Inv, Typed, RowsTyped, GoneTyped, PresentIsCurrent, RowsStay
<1>8. SessionLags' /\ EntryAges'
  BY <1>1, <1>4, <1>5, Blank DEF Inv, SessionLags, EntryAges
<1>9. ApiCurrent'
  <2>1. CASE p = Api
    BY <1>4, <1>5, <2>1, Blank DEF ApiCurrent
  <2>2. CASE p # Api
    BY <1>1, <1>4, <1>5, <2>2, Blank, Bounds DEF Inv, ApiCurrent, NoneCommitted
  <2> QED
    BY <2>1, <2>2
<1> QED
  BY <1>7, <1>8, <1>9 DEF Inv

-----------------------------------------------------------------------------
LEMMA NextInv == Inv /\ [Next]_vars => Inv'
<1> SUFFICES ASSUME Inv, [Next]_vars PROVE Inv'
  OBVIOUS
<1>1. ASSUME NEW r \in Readers, Open(r) \/ Done(r) \/ Fill(r) \/ \E k \in GlobalKeys : Miss(r, k)
      PROVE  Inv'
  BY <1>1, OpenInv, DoneInv, FillInv, MissInv
<1>2. ASSUME NEW w \in Writers, PutCommit(w) \/ PutRefused(w) \/ invalidate_cache(w)
      PROVE  Inv'
  BY <1>2, PutCommitInv, PutRefusedInv, ClearInv
<1>3. CASE UNCHANGED vars
  BY <1>3 DEF vars, Inv, Typed, RowsTyped, CacheTyped, SessionsTyped, PutsTyped, GoneTyped,
              RestTyped, PresentIsCurrent, RowsStay, SessionLags, EntryAges, ApiCurrent,
              NoneCommitted
<1> QED
  BY <1>1, <1>2, <1>3, PutReadInv, SeedInv, TickInv, RestartInv DEF Next

LEMMA Invariance == Spec => []Inv
BY InitInv, NextInv, PTL DEF Spec

\* The rows, the caches and the requests keep their types; a per-agent key never
\* has a second row, whatever two PUTs and the seed script do at once.
THEOREM ConfigTypeCorrect == Spec => []TypeOK
<1>1. Inv => TypeOK
  BY TypedIsTypeOK DEF Inv
<1> QED
  BY <1>1, Invariance, PTL

\* When a PUT has cleared the cache of the API process, what that process serves
\* from its cache is the value in the table, unless the entry was filled by a
\* transaction that was open across the clearing.
THEOREM PutTakesEffect == Spec => []EffectiveUnlessCrossed
<1>1. Inv => EffectiveUnlessCrossed
  BY DEF Inv, ApiCurrent, NoneCommitted, EffectiveUnlessCrossed, Hit
<1> QED
  BY <1>1, Invariance, PTL

\* No process serves a value longer than the TTL and one transaction after it was
\* overwritten, whoever wrote it and whichever caches were cleared.
THEOREM StalenessBounded == Spec => []BoundedStale
<1>1. Inv => BoundedStale
  <2> SUFFICES ASSUME Inv, NEW p \in Processes, NEW k \in GlobalKeys, Hit(p, k)
               PROVE  gone[k][cache[p][k].value] < TTL + QueryTicks
    BY DEF BoundedStale
  <2>1. cache[p][k] \in Entry /\ cache[p][k].cached /\ cache[p][k].age < TTL
    BY EntryTypes DEF Inv, Hit
  <2>2. gone[k][cache[p][k].value] <= cache[p][k].age + QueryTicks
    BY <2>1 DEF Inv, EntryAges
  <2>3. gone[k][cache[p][k].value] \in 0 .. TTL + QueryTicks /\ cache[p][k].age \in 0 .. TTL
    BY <2>1, EntryTypes DEF Inv, Entry
  <2> QED
    BY <2>1, <2>2, <2>3, Bounds
<1> QED
  BY <1>1, Invariance, PTL
=============================================================================
