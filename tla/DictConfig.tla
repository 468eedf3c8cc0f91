----------------------------- MODULE DictConfig -----------------------------
(***************************************************************************)
(* Runtime configuration: rows of dict_config, written by PUT              *)
(* /admin/configs and by the seed script, read by every process through a  *)
(* cache of its own (core/dict_config.py).  A PUT clears the cache of the  *)
(* process it runs in, and of no other.                                    *)
(*                                                                         *)
(* A handler or job is interleaved with the others at every await, so a    *)
(* request that opened its transaction before a PUT can fill the cache     *)
(* after it.  Time passes in ticks; TTL of them make the 60 s.             *)
(***************************************************************************)
EXTENDS Integers

CONSTANTS
    GlobalKeys,     \* agent_id IS NULL: uk_dc does not hold them apart
    AgentKeys,      \* per-agent keys: unique, and read without the cache
    Values,
    Default,        \* the caller's default, which the seed inserts too
    Processes, Api, \* Api is the one that serves the admin pages
    Readers, ProcessOf,     \* requests and jobs that read a global key
    Writers,        \* PUT requests
    NoKey,
    TTL,
    QueryTicks,     \* bound: how long a reader's transaction may last
    MaxPuts, MaxRestarts    \* bounds

Keys == GlobalKeys \cup AgentKeys

ASSUME ConfigAssumption ==
    /\ GlobalKeys \cap AgentKeys = {}
    /\ NoKey \notin Keys
    /\ Default \in Values
    /\ Api \in Processes
    /\ ProcessOf \in [Readers -> Processes]
    /\ TTL \in Nat \ {0} /\ QueryTicks \in Nat
    /\ MaxPuts \in Nat /\ MaxRestarts \in Nat

VARIABLES
    rows,       \* dict_config: the rows of a key
    cache,      \* _cache of each process
    sessions,   \* the transaction of each reader
    puts,       \* the PUT requests that run
    seeding,    \* the seed script's transaction
    bound,      \* PUTs and restarts so far
    gone        \* history: ticks since a value ceased to be a key's, 0 while it is

vars == <<rows, cache, sessions, puts, seeding, bound, gone>>

\* count = 2: a global key with two rows, which scalar_one_or_none() refuses
\* to read; value is then the first row's.
NoRow == [count |-> 0, value |-> Default]
SeedRow == [count |-> 1, value |-> Default]

\* crossed is history: a PUT cleared the cache while the transaction that
\* filled it was open.
Nothing == [cached |-> FALSE, value |-> Default, age |-> 0, crossed |-> FALSE]

Closed == [state |-> "closed", key |-> NoKey, seen |-> [k \in GlobalKeys |-> NoRow],
           lag |-> 0, crossed |-> FALSE]
NoPut == [state |-> "none", key |-> NoKey, value |-> Default, read |-> NoRow]

Init ==
    /\ rows \in [Keys -> {NoRow, SeedRow}]
    /\ cache = [p \in Processes |-> [k \in GlobalKeys |-> Nothing]]
    /\ sessions = [r \in Readers |-> Closed]
    /\ puts = [w \in Writers |-> NoPut]
    /\ seeding = {}
    /\ bound = [puts |-> 0, restarts |-> 0]
    /\ gone = [k \in GlobalKeys |-> [v \in Values |-> IF v = Default THEN 0 ELSE TTL + QueryTicks]]

(***************************************************************************)
(* get_global_config                                                       *)
(***************************************************************************)

\* A mutated hit: an entry that is just as old as the TTL.
Hit_inclusive(p, k) == cache[p][k].cached /\ cache[p][k].age <= TTL

Hit(p, k) == cache[p][k].cached /\ cache[p][k].age < TTL

\* The first statement of the request or job fixes what its transaction sees.
Open(r) ==
    /\ sessions[r].state = "closed"
    /\ sessions' = [sessions EXCEPT ![r] =
           [Closed EXCEPT !.state = "open", !.seen = [k \in GlobalKeys |-> rows[k]]]]
    /\ UNCHANGED <<rows, cache, puts, seeding, bound, gone>>

\* A request that reads no key, or one whose key is in the cache, is done.
Done(r) ==
    /\ sessions[r].state = "open"
    /\ sessions' = [sessions EXCEPT ![r] = Closed]
    /\ UNCHANGED <<rows, cache, puts, seeding, bound, gone>>

Miss(r, k) ==
    /\ sessions[r].state = "open"
    /\ ~Hit(ProcessOf[r], k)
    /\ sessions' = [sessions EXCEPT ![r].state = "missed", ![r].key = k]
    /\ UNCHANGED <<rows, cache, puts, seeding, bound, gone>>

\* The row was read: store it, or the default when there is none.  With two
\* rows the read raises.
Fill(r) ==
    LET p == ProcessOf[r]
        k == sessions[r].key
        row == sessions[r].seen[k]
    IN
    /\ sessions[r].state = "missed"
    /\ sessions' = [sessions EXCEPT ![r] = Closed]
    /\ cache' = IF row.count > 1 THEN cache
                ELSE [cache EXCEPT ![p][k] =
                         [cached |-> TRUE, value |-> row.value, age |-> 0,
                          crossed |-> sessions[r].crossed]]
    /\ UNCHANGED <<rows, puts, seeding, bound, gone>>

(***************************************************************************)
(* put_config                                                              *)
(***************************************************************************)

\* The key and the shape of the value were checked; the row is read.
PutRead(w, k, v) ==
    /\ puts[w].state = "none"
    /\ bound.puts < MaxPuts
    /\ rows[k].count <= 1
    /\ puts' = [puts EXCEPT ![w] = [state |-> "read", key |-> k, value |-> v,
                                    read |-> rows[k]]]
    /\ bound' = [bound EXCEPT !.puts = @ + 1]
    /\ UNCHANGED <<rows, cache, sessions, seeding, gone>>

\* A mutated refusal: no unique key.
Refused_never(k) == k \in {} /\ rows[k].count > 0

\* An INSERT of a per-agent key that exists breaks uk_dc.
Refused(k) == k \in AgentKeys /\ rows[k].count > 0

Inserted(k, v) ==
    IF rows[k].count > 0 THEN [rows[k] EXCEPT !.count = 2]
    ELSE [count |-> 1, value |-> v]

\* The ORM writes the columns whose value differs from the one it read: the
\* value only if it is not the one that was read.
Updated(k, v, read) ==
    [rows[k] EXCEPT !.value = IF v = read.value THEN @ ELSE v]

Written(put) ==
    IF put.read.count = 0 THEN Inserted(put.key, put.value)
    ELSE Updated(put.key, put.value, put.read)

\* The row and its audit record are committed together.
PutCommit(w) ==
    LET k == puts[w].key
        row == Written(puts[w])
    IN
    /\ puts[w].state = "read"
    /\ puts[w].read.count = 0 => ~Refused(k)
    /\ rows' = [rows EXCEPT ![k] = row]
    /\ gone' = IF k \in GlobalKeys THEN [gone EXCEPT ![k][row.value] = 0] ELSE gone
    /\ puts' = [puts EXCEPT ![w] = [NoPut EXCEPT !.state = "committed"]]
    /\ UNCHANGED <<cache, sessions, seeding, bound>>

PutRefused(w) ==
    /\ puts[w].state = "read"
    /\ puts[w].read.count = 0 /\ Refused(puts[w].key)
    /\ puts' = [puts EXCEPT ![w] = NoPut]
    /\ UNCHANGED <<rows, cache, sessions, seeding, bound, gone>>

\* The reader's transactions of the process that are open now were crossed.
Crossed(p) ==
    [r \in Readers |->
        IF ProcessOf[r] = p /\ sessions[r].state # "closed"
        THEN [sessions[r] EXCEPT !.crossed = TRUE] ELSE sessions[r]]

\* A mutated clearing: the key that was written is not forgotten.
Cleared_nothing(p) == [cache EXCEPT ![p] = cache[p]]

Cleared(p) == [cache EXCEPT ![p] = [k \in GlobalKeys |-> Nothing]]

invalidate_cache(w) ==
    /\ puts[w].state = "committed"
    /\ puts' = [puts EXCEPT ![w] = NoPut]
    /\ cache' = Cleared(Api)
    /\ sessions' = Crossed(Api)
    /\ UNCHANGED <<rows, seeding, bound, gone>>

(***************************************************************************)
(* seed.py: the keys without a row get their default.  It looks for global *)
(* keys in its snapshot, and leaves the others to uk_dc.                   *)
(***************************************************************************)
SeedRead ==
    /\ seeding = {}
    /\ \E k \in Keys : rows[k].count = 0      \* else it changes nothing
    /\ seeding' = {{k \in GlobalKeys : rows[k].count = 0}}
    /\ UNCHANGED <<rows, cache, sessions, puts, bound, gone>>

SeedCommit ==
    \E absent \in seeding :
        LET missing == absent \cup {k \in AgentKeys : ~Refused(k)}
        IN
        /\ rows' = [k \in Keys |-> IF k \in missing THEN Inserted(k, Default) ELSE rows[k]]
        /\ seeding' = {}
        /\ UNCHANGED <<cache, sessions, puts, bound, gone>>

(***************************************************************************)
(* Environment: time, and processes that restart with an empty cache.      *)
(***************************************************************************)
Upto(n, max) == IF n < max THEN n + 1 ELSE max

Tick ==
    /\ \A r \in Readers : sessions[r].state # "closed" => sessions[r].lag < QueryTicks
    /\ sessions' = [r \in Readers |->
           IF sessions[r].state = "closed" THEN Closed
           ELSE [sessions[r] EXCEPT !.lag = @ + 1]]
    /\ cache' = [p \in Processes |-> [k \in GlobalKeys |->
           IF cache[p][k].cached THEN [cache[p][k] EXCEPT !.age = Upto(@, TTL)]
           ELSE Nothing]]
    /\ gone' = [k \in GlobalKeys |-> [v \in Values |->
           IF v = rows[k].value THEN 0 ELSE Upto(gone[k][v], TTL + QueryTicks)]]
    /\ UNCHANGED <<rows, puts, seeding, bound>>

Restart(p) ==
    /\ bound.restarts < MaxRestarts
    /\ bound' = [bound EXCEPT !.restarts = @ + 1]
    /\ cache' = [cache EXCEPT ![p] = [k \in GlobalKeys |-> Nothing]]
    /\ sessions' = [r \in Readers |-> IF ProcessOf[r] = p THEN Closed ELSE sessions[r]]
    /\ puts' = IF p = Api THEN [w \in Writers |-> NoPut] ELSE puts
    /\ UNCHANGED <<rows, seeding, gone>>

Next ==
    \/ \E r \in Readers : Open(r) \/ Done(r) \/ Fill(r) \/ \E k \in GlobalKeys : Miss(r, k)
    \/ \E w \in Writers, k \in Keys, v \in Values : PutRead(w, k, v)
    \/ \E w \in Writers : PutCommit(w) \/ PutRefused(w) \/ invalidate_cache(w)
    \/ SeedRead \/ SeedCommit \/ Tick
    \/ \E p \in Processes : Restart(p)

Spec == Init /\ [][Next]_vars

(***************************************************************************)
(* Properties                                                              *)
(***************************************************************************)
Counts == [count : 0 .. 2, value : Values]

\* The variables keep their types; a per-agent key never has a second row
\* (models/config.py uk_dc), whatever two PUTs and the seed do at once.
TypeOK ==
    /\ rows \in [Keys -> Counts] /\ \A k \in AgentKeys : rows[k].count <= 1
    /\ cache \in [Processes -> [GlobalKeys ->
           [cached : BOOLEAN, value : Values, age : 0 .. TTL, crossed : BOOLEAN]]]
    /\ sessions \in [Readers ->
           [state : {"closed", "open", "missed"}, key : GlobalKeys \cup {NoKey},
            seen : [GlobalKeys -> Counts], lag : 0 .. QueryTicks, crossed : BOOLEAN]]
    /\ puts \in [Writers -> [state : {"none", "read", "committed"}, key : Keys \cup {NoKey},
                             value : Values, read : Counts]]
    /\ seeding \subseteq SUBSET GlobalKeys
    /\ bound \in [puts : 0 .. MaxPuts, restarts : 0 .. MaxRestarts]
    /\ gone \in [GlobalKeys -> [Values -> 0 .. TTL + QueryTicks]]

\* After a PUT has cleared the cache, the API serves the new value ("变更即时
\* 生效", admin.py), unless the entry was filled by a transaction that was
\* already open when the cache was cleared.
EffectiveUnlessCrossed ==
    (\A w \in Writers : puts[w].state # "committed") =>
        \A k \in GlobalKeys :
            Hit(Api, k) /\ ~cache[Api][k].crossed /\ rows[k].count <= 1
                => cache[Api][k].value = rows[k].value

\* No process serves a value longer than the TTL after it was overwritten,
\* plus the time the transaction that read it was open: also not the worker,
\* which no PUT invalidates.
BoundedStale ==
    \A p \in Processes, k \in GlobalKeys :
        Hit(p, k) => gone[k][cache[p][k].value] < TTL + QueryTicks
=============================================================================
