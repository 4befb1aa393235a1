------------------------------ MODULE EventBus ------------------------------
(***************************************************************************)
(* Live observation of events (sdk/events.py): a bus that never waits for  *)
(* its subscribers, a bounded queue for each of them, and one byte budget  *)
(* they share.  A subscription has a callback and a task that feeds it, or *)
(* is read as a stream.  Whoever cannot keep up is ended with a gap.       *)
(***************************************************************************)
EXTENDS Integers, Sequences, FiniteSets, SequencesExt, Totals

CONSTANTS
    Subs,           \* subscriptions
    Callbacks,      \* those with a callback; the others are streams
    Capacity,       \* queue of a subscription (64)
    BusCapacity,    \* subscriptions of a bus (32)
    MaxBytes,       \* queued bytes of the bus (16 MiB)
    MaxEvents,      \* events published
    MaxFaults       \* callbacks that are cancelled

VARIABLES
    published,      \* every event handed to publish, in order
    phase,          \* of each subscription: "new", "open", "closed"
    want,           \* its names and include_recovered
    queue,          \* its queue, of indices of `published`; STOP ends a stream
    consumer,       \* its task or reader: "waits", "busy", "ended"
    gap,            \* subscriptions ended with subscription_gap
    queued_bytes, closed,
    \* history
    since, until,   \* publications when it began and when it ended
    seen,           \* what its callback or reader was given
    faults

vars == <<published, phase, want, queue, consumer, gap, queued_bytes, closed, since, until,
          seen, faults>>

STOP == 0

\* names: "*" or one event name; raw_only events go to "*" alone
Wishes == {[names |-> "*", recovered |-> TRUE], [names |-> "a", recovered |-> FALSE]}
\* an ordinary event, a large one of an unknown name, one found again after
\* a restart
Events == {[t |-> "a", raw |-> FALSE, recovered |-> FALSE, size |-> 1],
           [t |-> "b", raw |-> TRUE, recovered |-> FALSE, size |-> 2],
           [t |-> "a", raw |-> FALSE, recovered |-> TRUE, size |-> 1]}

Matches(w, e) ==
    /\ e.raw => w.names = "*"
    /\ w.names \in {"*", e.t}
    /\ e.recovered => w.recovered

Open == {s \in Subs : phase[s] = "open"}

\* The bytes in the queues of some subscriptions; an event is in a queue once.
Bytes(log, lines, subs) ==
    LET queued == {x \in subs \X DOMAIN log : x[2] \in Range(lines[x[1]])}
    IN  Total([x \in queued |-> log[x[2]].size], queued, MaxBytes)

Init ==
    /\ published = << >> /\ phase = [s \in Subs |-> "new"]
    /\ want = [s \in Subs |-> << >>]
    /\ queue = [s \in Subs |-> << >>] /\ consumer = [s \in Subs |-> "waits"]
    /\ gap = {} /\ queued_bytes = 0 /\ closed = FALSE
    /\ since = [s \in Subs |-> 0] /\ until = [s \in Subs |-> 0]
    /\ seen = [s \in Subs |-> << >>] /\ faults = 0

-----------------------------------------------------------------------------
(* The bus, as publish() and _stop() see it while they go through the      *)
(* subscriptions one after another.                                        *)

Now == [queue |-> queue, total |-> queued_bytes, ended |-> {}]

\* _stop: what is queued is thrown away; a stream is told in its queue.
Stopped(now, s) ==
    [queue |-> [now.queue EXCEPT ![s] = IF s \in Callbacks THEN << >> ELSE <<STOP>>],
     total |-> now.total - Bytes(published', now.queue, {s}), ended |-> now.ended \cup {s}]

Offered(now, s) ==
    LET n == Len(published')
        e == published'[n]
    IN  IF ~Matches(want[s], e) THEN now
        ELSE IF Len(now.queue[s]) = Capacity \/ now.total + e.size > MaxBytes THEN Stopped(now, s)
        ELSE [queue |-> [now.queue EXCEPT ![s] = Append(@, n)],
              total |-> now.total + e.size, ended |-> now.ended]

\* The bus afterwards; a cancelled callback's task has ended.
Becomes(now, reason) ==
    /\ queue' = now.queue /\ queued_bytes' = now.total
    /\ phase' = [s \in Subs |-> IF s \in now.ended THEN "closed" ELSE phase[s]]
    /\ until' = [s \in Subs |-> IF s \in now.ended THEN Len(published') ELSE until[s]]
    /\ gap' = IF reason THEN gap \cup now.ended ELSE gap

Cancels(now) ==
    consumer' = [s \in Subs |-> IF s \in now.ended \cap Callbacks THEN "ended" ELSE consumer[s]]

StoppedAll(subs) ==
    [queue |-> [s \in Subs |-> IF s \notin subs THEN queue[s]
                               ELSE IF s \in Callbacks THEN << >> ELSE <<STOP>>],
     total |-> queued_bytes - Bytes(published', queue, subs), ended |-> subs]

\* The subscriptions are offered the event one after another.
OfferedAll(order) ==
    LET now[k \in 0..Len(order)] == IF k = 0 THEN Now ELSE Offered(now[k - 1], order[k])
    IN  now[Len(order)]

-----------------------------------------------------------------------------
Subscribe(s) ==
    /\ phase[s] = "new" /\ ~closed /\ Cardinality(Open) < BusCapacity
    /\ phase' = [phase EXCEPT ![s] = "open"]
    /\ \E w \in Wishes : want' = [want EXCEPT ![s] = w]
    /\ since' = [since EXCEPT ![s] = Len(published)]
    /\ UNCHANGED <<published, queue, consumer, gap, queued_bytes, closed, until, seen, faults>>

\* publish goes through a set: in any order.
Publish ==
    /\ ~closed /\ Len(published) < MaxEvents
    /\ \E e \in Events : published' = Append(published, e)
    /\ \E order \in SetToSeqs(Open) :
          Becomes(OfferedAll(order), TRUE) /\ Cancels(OfferedAll(order))
    /\ UNCHANGED <<want, closed, since, seen, faults>>

\* close() of one subscription, also by its own callback, or close_owner.
CloseOwner ==
    \E mine \in SUBSET Open :
        /\ mine # {}
        /\ UNCHANGED published /\ Becomes(StoppedAll(mine), FALSE) /\ Cancels(StoppedAll(mine))
        /\ UNCHANGED <<want, closed, since, seen, faults>>

\* invalidate() and close().
Shutdown ==
    /\ ~closed /\ closed' = TRUE
    /\ UNCHANGED published /\ Becomes(StoppedAll(Open), FALSE) /\ Cancels(StoppedAll(Open))
    /\ UNCHANGED <<want, since, seen, faults>>

-----------------------------------------------------------------------------
(* Subscriptions                                                           *)

\* _run, and __aiter__ of a stream, take the next event.
Take(s) ==
    /\ phase[s] # "new" /\ consumer[s] = "waits" /\ queue[s] # << >> /\ Head(queue[s]) # STOP
    /\ queue' = [queue EXCEPT ![s] = Tail(@)]
    /\ queued_bytes' = queued_bytes - published[Head(queue[s])].size
    /\ consumer' = [consumer EXCEPT ![s] = "busy"]
    /\ seen' = [seen EXCEPT ![s] = Append(@, Head(queue[s]))]
    /\ UNCHANGED <<published, phase, want, gap, closed, since, until, faults>>

TakeStop(s) ==
    /\ consumer[s] = "waits" /\ queue[s] # << >> /\ Head(queue[s]) = STOP
    /\ queue' = [queue EXCEPT ![s] = Tail(@)] /\ consumer' = [consumer EXCEPT ![s] = "ended"]
    /\ UNCHANGED <<published, phase, want, gap, queued_bytes, closed, since, until, seen, faults>>

\* The callback returned, failed or timed out; the reader asks for more.
Done(s) ==
    /\ consumer[s] = "busy"
    /\ consumer' = [consumer EXCEPT ![s] = IF phase[s] = "closed" THEN "ended" ELSE "waits"]
    /\ UNCHANGED <<published, phase, want, queue, gap, queued_bytes, closed, since, until, seen,
                   faults>>

\* The reader leaves its loop: the stream closes itself.
Leaves(s) ==
    /\ s \notin Callbacks /\ phase[s] = "open" /\ consumer[s] \in {"waits", "busy"}
    /\ UNCHANGED published /\ Becomes(Stopped(Now, s), FALSE)
    /\ consumer' = [consumer EXCEPT ![s] = "ended"]
    /\ UNCHANGED <<want, closed, since, seen, faults>>

\* The task is cancelled from outside: the callback ends with a gap, a task
\* that waits for its queue leaves the subscription behind without one.
CancelTask(s) ==
    /\ s \in Callbacks /\ phase[s] = "open" /\ consumer[s] # "ended" /\ faults < MaxFaults
    /\ faults' = faults + 1 /\ UNCHANGED published
    /\ consumer' = [consumer EXCEPT ![s] = "ended"]
    /\ IF consumer[s] = "busy" THEN Becomes(Stopped(Now, s), TRUE)
       ELSE UNCHANGED <<phase, queue, gap, queued_bytes, until>>
    /\ UNCHANGED <<want, closed, since, seen>>

Consumes(s) == Take(s) \/ TakeStop(s) \/ Done(s)
Next ==
    \/ \E s \in Subs : Subscribe(s) \/ Consumes(s) \/ Leaves(s) \/ CancelTask(s)
    \/ CloseOwner \/ Publish \/ Shutdown

Spec == Init /\ [][Next]_vars

-----------------------------------------------------------------------------
Due(s) ==
    LET last == IF phase[s] = "open" THEN Len(published) ELSE until[s]
    IN  {i \in (since[s] + 1)..last : Matches(want[s], published[i])}
Rising(q) == \A i, j \in DOMAIN q : i < j => q[i] < q[j]

(* The type of the state. *)
TypeOK ==
    /\ phase \in [Subs -> {"new", "open", "closed"}]
    /\ \A s \in Subs : /\ want[s] \in {<< >>} \cup Wishes
                       /\ queue[s] \in Seq({STOP} \cup DOMAIN published)
                       /\ Len(queue[s]) <= Capacity
    /\ consumer \in [Subs -> {"waits", "busy", "ended"}]
    /\ gap \subseteq Subs /\ closed \in BOOLEAN /\ Cardinality(Open) <= BusCapacity

(* Until it ends a subscription is given every event it asked for since it  *)
(* began, once and in order, and after its end none: what it misses is a    *)
(* suffix, never a hole.  A neighbour that is slow, cancelled or closed     *)
(* half way through a publication changes nothing of that.  A stream that   *)
(* was ended finds out: its reader never waits for good.                    *)
NoHoles ==
    \A s \in Subs :
        /\ phase[s] = "open" => /\ Rising(seen[s] \o queue[s])
                               /\ Range(seen[s] \o queue[s]) = Due(s)
        /\ phase[s] = "closed" =>
              /\ Rising(seen[s]) /\ Range(seen[s]) \subseteq Due(s)
              /\ \A i \in Due(s), j \in Range(seen[s]) : i < j => i \in Range(seen[s])
        /\ phase[s] = "closed" /\ consumer[s] = "waits" => queue[s] = <<STOP>>

(* The shared byte budget counts exactly what is queued and never exceeds   *)
(* its limit, however subscriptions end.                                    *)
BytesCounted ==
    /\ queued_bytes <= MaxBytes
    /\ queued_bytes = Bytes(published, queue, Subs)
=============================================================================
