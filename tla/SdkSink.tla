------------------------------ MODULE SdkSink ------------------------------
(***************************************************************************)
(* The SDK's way out of an agent's process (src/sdk/obs_sdk/_sink.py): a   *)
(* bounded queue that is never waited for, a daemon thread that sends it   *)
(* to Kafka in batches, and a directory of spool files for what could not  *)
(* be sent.  stop() runs one more _flush_once in the caller's thread while *)
(* the flusher may be in the middle of its own.                            *)
(*                                                                         *)
(* A spool file is named after the millisecond at which its path was       *)
(* computed.  Between two failures of one thread lies the back-off, so the *)
(* clock ticks there; two threads may share a millisecond and a file.      *)
(***************************************************************************)
EXTENDS Integers, Sequences, SequencesExt

CONSTANTS
    Items, Beats,        \* what is emitted; the heartbeats among it
    Oversize,            \* items that Kafka refuses for their size
    QUEUE_MAX, flush_batch, SEND_RETRY,
    MaxFaults, MaxLives  \* bounds: failed sends, and lives of the process

ASSUME SinkAssumption ==
    /\ Beats \subseteq Items /\ Oversize \subseteq Items
    /\ IsFiniteSet(Items)
    /\ QUEUE_MAX \in Nat \ {0} /\ flush_batch \in Nat \ {0} /\ SEND_RETRY \in Nat \ {0}
    /\ MaxFaults \in Nat /\ MaxLives \in Nat \ {0}

VARIABLES
    queue,     \* _queue
    senders,   \* the two threads that may be in _flush_once
    dropped,   \* what the counters of dropped counted, over all lives
    spool,     \* the lines of the spool file of each millisecond; <<>>: no file
    now,       \* now_ms()
    phase,     \* of the Sink: running, stopping (in stop()), stopped
    emitted,   \* history: what was handed to emit
    perished,  \* history: what was in memory when the process ended
    broker,    \* external: what the topics hold
    faults, lives

vars == <<queue, senders, dropped, spool, now, phase, emitted, perished,
          broker, faults, lives>>

Threads == {"flusher", "stopper"}

\* The clock ticks in a back-off and when a process is started.
Horizon == MaxLives + MaxFaults + Cardinality(Oversize) * SEND_RETRY
Times == 1..Horizon

_target_topic(e) == IF e \in Beats THEN "selfmonitor" ELSE "agent"

Off == [pc |-> "off", batch |-> <<>>, attempt |-> 1, path |-> 1, files |-> {}, lines |-> <<>>]
Gathering == [Off EXCEPT !.pc = "gather"]
Started == [w \in Threads |-> IF w = "flusher" THEN Gathering ELSE Off]

Init ==
    /\ queue = <<>> /\ senders = Started
    /\ dropped = [queue_full |-> {}, send_fail |-> {}, serialize |-> {}]
    /\ spool = [t \in Times |-> <<>>]
    /\ now = 1 /\ phase = "running"
    /\ emitted = {} /\ perished = {} /\ broker = {}
    /\ faults = 0 /\ lives = 1

InHand == UNION {Range(senders[w].batch) : w \in Threads}
InMemory == Range(queue) \cup InHand
Spooled == UNION {Range(spool[t]) : t \in Times}
Counted == dropped.queue_full \cup dropped.send_fail \cup dropped.serialize

(***************************************************************************)
(* emit, from the threads of the agent and the heartbeat thread; also      *)
(* while stop() runs.                                                      *)
(***************************************************************************)

\* A mutated emit: the bound is off by one.
emit_past_bound(e) ==
    /\ e \notin emitted /\ phase # "stopped"
    /\ emitted' = emitted \cup {e}
    /\ IF Len(queue) <= QUEUE_MAX
       THEN queue' = Append(queue, e) /\ UNCHANGED dropped
       ELSE dropped' = [dropped EXCEPT !.queue_full = @ \cup {e}] /\ UNCHANGED queue
    /\ UNCHANGED <<senders, spool, now, phase, perished, broker, faults, lives>>

emit(e) ==
    /\ e \notin emitted /\ phase # "stopped"
    /\ emitted' = emitted \cup {e}
    /\ IF Len(queue) < QUEUE_MAX
       THEN queue' = Append(queue, e) /\ UNCHANGED dropped
       ELSE dropped' = [dropped EXCEPT !.queue_full = @ \cup {e}] /\ UNCHANGED queue
    /\ UNCHANGED <<senders, spool, now, phase, perished, broker, faults, lives>>

(***************************************************************************)
(* _flush_once, by thread w: gather a batch.  The flusher waits for its    *)
(* deadline, so it takes at least one item if there is one; stop() takes   *)
(* what is there.                                                          *)
(***************************************************************************)
At(w, pc) == senders[w].pc = pc
Becomes(w, s) == senders' = [senders EXCEPT ![w] = s]

Gather(w) ==
    /\ At(w, "gather") /\ queue # <<>> /\ Len(senders[w].batch) < flush_batch
    /\ Becomes(w, [senders[w] EXCEPT !.batch = Append(@, Head(queue))])
    /\ queue' = Tail(queue)
    /\ UNCHANGED <<dropped, spool, now, phase, emitted, perished, broker, faults, lives>>

\* A mutated end: a round without items is over, whatever is in the spool.
EndGather_idle(w) ==
    /\ At(w, "gather")
    /\ IF w = "flusher" THEN senders[w].batch # <<>>
       ELSE Len(senders[w].batch) = flush_batch \/ queue = <<>>
    /\ Becomes(w, [senders[w] EXCEPT !.pc = "send"])
    /\ UNCHANGED <<queue, dropped, spool, now, phase, emitted, perished, broker,
                   faults, lives>>

EndGather(w) ==
    /\ At(w, "gather")
    /\ IF w = "flusher" THEN senders[w].batch # <<>> \/ queue = <<>>
       ELSE Len(senders[w].batch) = flush_batch \/ queue = <<>>
    /\ Becomes(w, [senders[w] EXCEPT !.pc = "send"])
    /\ UNCHANGED <<queue, dropped, spool, now, phase, emitted, perished, broker,
                   faults, lives>>

(***************************************************************************)
(* _send_with_retry.  External: a send is acknowledged, or fails with a    *)
(* KafkaError, after which nobody knows whether the topic holds the item.  *)
(***************************************************************************)
ToSend(w) == At(w, "send") /\ senders[w].batch # <<>>
Current(w) == Head(senders[w].batch)
Done(s) == [s EXCEPT !.batch = Tail(@), !.attempt = 1, !.pc = "send"]

Acked(topic, e) ==
    /\ e \notin Oversize
    /\ broker' = broker \cup {<<topic, e>>}
    /\ UNCHANGED faults

Failed(topic, e) ==
    \/ e \in Oversize /\ UNCHANGED <<broker, faults>>
    \/ /\ e \notin Oversize /\ faults < MaxFaults
       /\ faults' = faults + 1
       /\ \E arrived \in SUBSET {<<topic, e>>} : broker' = broker \cup arrived

Unserializable(w) ==
    /\ ToSend(w) /\ senders[w].attempt = 1
    /\ dropped' = [dropped EXCEPT !.serialize = @ \cup {Current(w)}]
    /\ Becomes(w, Done(senders[w]))
    /\ UNCHANGED <<queue, spool, now, phase, emitted, perished, broker, faults, lives>>

SendAcked(w) ==
    /\ ToSend(w) /\ Acked(_target_topic(Current(w)), Current(w))
    /\ Becomes(w, Done(senders[w]))
    /\ UNCHANGED <<queue, dropped, spool, now, phase, emitted, perished, lives>>

BackOff(w) ==
    /\ ToSend(w) /\ senders[w].attempt < SEND_RETRY
    /\ Failed(_target_topic(Current(w)), Current(w))
    /\ now' = now + 1
    /\ Becomes(w, [senders[w] EXCEPT !.attempt = @ + 1])
    /\ UNCHANGED <<queue, dropped, spool, phase, emitted, perished, lives>>

\* A mutated failure: only what reached the disk is counted, and the disk may fail.
GiveUp_uncounted(w) ==
    /\ ToSend(w) /\ senders[w].attempt = SEND_RETRY
    /\ Failed(_target_topic(Current(w)), Current(w))
    /\ Becomes(w, [senders[w] EXCEPT !.path = now, !.pc = "spool"])
    /\ UNCHANGED <<queue, dropped, spool, now, phase, emitted, perished, lives>>

GiveUp(w) ==
    /\ ToSend(w) /\ senders[w].attempt = SEND_RETRY
    /\ Failed(_target_topic(Current(w)), Current(w))
    /\ dropped' = [dropped EXCEPT !.send_fail = @ \cup {Current(w)}]
    /\ Becomes(w, [senders[w] EXCEPT !.path = now, !.pc = "spool"])
    /\ UNCHANGED <<queue, spool, now, phase, emitted, perished, lives>>

\* The line is appended to the file of its path, or the disk fails, or there is no spool_dir.
_spool_write(w) ==
    /\ At(w, "spool")
    /\ \/ spool' = [spool EXCEPT ![senders[w].path] = Append(@, Current(w))]
       \/ UNCHANGED spool
    /\ Becomes(w, Done(senders[w]))
    /\ UNCHANGED <<queue, dropped, now, phase, emitted, perished, broker, faults, lives>>

(***************************************************************************)
(* _replay_spool: the files by name; each is read, its lines are sent once *)
(* to the agent's topic, and it is removed.  An exception ends the round.  *)
(***************************************************************************)
ListSpool(w) ==
    /\ At(w, "send") /\ senders[w].batch = <<>>
    /\ Becomes(w, [senders[w] EXCEPT !.pc = "file", !.files = {t \in Times : spool[t] # <<>>}])
    /\ UNCHANGED <<queue, dropped, spool, now, phase, emitted, perished, broker,
                   faults, lives>>

CurrentFile(w) == CHOOSE t \in senders[w].files : \A u \in senders[w].files : t <= u
FileThere(w) == senders[w].files # {} /\ spool[CurrentFile(w)] # <<>>

\* The next round of the flusher, unless _stop is set; the end of stop()'s flush.
AfterRound(w) == IF w = "flusher" /\ phase = "running" THEN Gathering ELSE Off

ReadFile(w) ==
    /\ At(w, "file") /\ FileThere(w)
    /\ Becomes(w, [senders[w] EXCEPT !.pc = "lines", !.lines = spool[CurrentFile(w)]])
    /\ UNCHANGED <<queue, dropped, spool, now, phase, emitted, perished, broker,
                   faults, lives>>

\* Also when the other thread has removed the file.
EndRound(w) ==
    /\ At(w, "file") /\ ~FileThere(w)
    /\ Becomes(w, AfterRound(w))
    /\ UNCHANGED <<queue, dropped, spool, now, phase, emitted, perished, broker,
                   faults, lives>>

_send_once(w) ==
    /\ At(w, "lines") /\ senders[w].lines # <<>>
    /\ Acked("agent", Head(senders[w].lines))
    /\ Becomes(w, [senders[w] EXCEPT !.lines = Tail(@)])
    /\ UNCHANGED <<queue, dropped, spool, now, phase, emitted, perished, lives>>

\* A mutated failure: the line is skipped.
ReplayFails_skip(w) ==
    /\ At(w, "lines") /\ senders[w].lines # <<>>
    /\ Failed("agent", Head(senders[w].lines))
    /\ Becomes(w, [senders[w] EXCEPT !.lines = Tail(@)])
    /\ UNCHANGED <<queue, dropped, spool, now, phase, emitted, perished, lives>>

\* A mutated failure: the exception leaves the flusher's loop.
ReplayFails_dies(w) ==
    /\ At(w, "lines") /\ senders[w].lines # <<>>
    /\ Failed("agent", Head(senders[w].lines))
    /\ Becomes(w, Off)
    /\ UNCHANGED <<queue, dropped, spool, now, phase, emitted, perished, lives>>

ReplayFails(w) ==
    /\ At(w, "lines") /\ senders[w].lines # <<>>
    /\ Failed("agent", Head(senders[w].lines))
    /\ Becomes(w, AfterRound(w))
    /\ UNCHANGED <<queue, dropped, spool, now, phase, emitted, perished, lives>>

RemoveFile(w) ==
    LET f == CurrentFile(w) IN
    /\ At(w, "lines") /\ senders[w].lines = <<>>
    /\ IF spool[f] # <<>>
       THEN Becomes(w, [senders[w] EXCEPT !.pc = "file", !.files = @ \ {f}])
       ELSE Becomes(w, AfterRound(w))
    /\ spool' = [spool EXCEPT ![f] = <<>>]
    /\ UNCHANGED <<queue, dropped, now, phase, emitted, perished, broker, faults, lives>>

_flush_once(w) ==
    \/ Gather(w) \/ EndGather(w)
    \/ Unserializable(w) \/ SendAcked(w) \/ BackOff(w) \/ GiveUp(w) \/ _spool_write(w)
    \/ ListSpool(w) \/ ReadFile(w) \/ EndRound(w)
    \/ _send_once(w) \/ ReplayFails(w) \/ RemoveFile(w)

(***************************************************************************)
(* The life of the process.  shutdown() calls stop(flush=True) once; the   *)
(* join of the flusher may time out.  The threads are daemons: when the    *)
(* process ends, orderly or not, what is in memory is gone.                *)
(***************************************************************************)
stop ==
    /\ phase = "running"
    /\ phase' = "stopping"
    /\ Becomes("stopper", Gathering)
    /\ UNCHANGED <<queue, dropped, spool, now, emitted, perished, broker, faults, lives>>

Stopped ==
    /\ phase = "stopping" /\ At("stopper", "off")
    /\ phase' = "stopped"
    /\ UNCHANGED <<queue, senders, dropped, spool, now, emitted, perished, broker,
                   faults, lives>>

Restart ==
    /\ lives < MaxLives
    /\ lives' = lives + 1 /\ now' = now + 1
    /\ perished' = perished \cup InMemory
    /\ queue' = <<>> /\ senders' = Started /\ phase' = "running"
    /\ UNCHANGED <<dropped, spool, emitted, broker, faults>>

Next ==
    \/ \E e \in Items : emit(e)
    \/ \E w \in Threads : _flush_once(w)
    \/ stop \/ Stopped \/ Restart

Spec == Init /\ [][Next]_vars

(***************************************************************************)
(* The flusher is a loop that survives its exceptions, and every wait in   *)
(* it has a time limit.                                                    *)
(***************************************************************************)
Fairness == \A w \in Threads : WF_vars(_flush_once(w))

FairSpec == Spec /\ Fairness

(***************************************************************************)
(* Properties.                                                             *)
(***************************************************************************)
\* Types, with the bounds of the queue and of a batch: emit never lets the
\* queue grow past QUEUE_MAX, whoever takes from it.
TypeOK ==
    /\ queue \in Seq(Items) /\ Len(queue) <= QUEUE_MAX
    /\ \A w \in Threads :
           /\ senders[w].pc \in {"off", "gather", "send", "spool", "file", "lines"}
           /\ senders[w].batch \in Seq(Items) /\ Len(senders[w].batch) <= flush_batch
           /\ senders[w].attempt \in 1..SEND_RETRY
           /\ senders[w].path \in Times /\ senders[w].files \subseteq Times
           /\ senders[w].lines \in Seq(Items)
    /\ dropped \in [{"queue_full", "send_fail", "serialize"} -> SUBSET Items]
    /\ spool \in [Times -> Seq(Items)] /\ now \in Times
    /\ phase \in {"running", "stopping", "stopped"}
    /\ emitted \subseteq Items /\ perished \subseteq Items
    /\ broker \subseteq {"agent", "selfmonitor"} \X Items
    /\ faults \in 0..MaxFaults /\ lives \in 1..MaxLives

\* Nothing is lost silently: what was emitted is in memory, in a topic or in
\* the spool, or a counter tells of it, or the process ended over it.
Accounted ==
    emitted \subseteq InMemory \cup {d[2] : d \in broker} \cup Spooled \cup Counted \cup perished

\* While nobody has called stop(), a line leaves the spool only after Kafka
\* acknowledged it, whatever fails and after whatever restart.  (In stop() two
\* threads use the directory, and one may remove the file the other appends to.)
SpoolKept ==
    [][phase = "running" =>
           \A e \in Spooled \ Spooled' : <<"agent", e>> \in broker]_vars

\* What is queued in a running process leaves its memory, whatever fails.
MemoryDrains ==
    \A e \in Items : (e \in InMemory) ~> (e \notin InMemory \/ phase # "running")

\* What was spooled is sent by a later round, unless the spool holds an item
\* that can never be sent: the replay stops there at every round.
SpoolDrains ==
    \A e \in Items :
        (e \in Spooled) ~>
            (e \notin Spooled \/ phase # "running" \/ Spooled \cap Oversize # {})
=============================================================================
