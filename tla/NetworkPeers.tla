---------------------------- MODULE NetworkPeers ----------------------------
(***************************************************************************)
(* The OneBot listener's WebSocket peers.  Each has a bounded queue that a *)
(* writer task empties, one action at a time, and a share of the bytes     *)
(* queued for all of them.  A peer that cannot keep up is disconnected;    *)
(* publishing never waits.  Frames are events, numbered as published, and  *)
(* replies (0); every frame counts one byte.                               *)
(***************************************************************************)
EXTENDS Integers, Sequences, FiniteSets, Functions, Totals

CONSTANTS Peers,        \* WebSocket connections
          Subscribers,  \* those that are not on /api
          MaxPeers, QueueFrames, TotalBytes,
          MaxEvents, MaxFaults

VARIABLES
    where,      \* [peer -> "out", "prepare", "open", "ending", "closing" or "gone"]
    queue, hand,    \* [peer -> frames queued], [peer -> the frame being sent, <<>> or <<f>>]
    writer,     \* set of peers with a live writer task
    failure,    \* set of peers with a failure
    bytes, queuedBytes,
    action,     \* set of peers that execute an action
    listening,
    events,     \* events published so far
    since,      \* [peer -> events published before it was added]
    got,        \* the client: [peer -> events it received]
    faults

queues == <<queue, hand, bytes, queuedBytes>>
vars == <<where, queues, writer, failure, action, listening, events, since, got, faults>>

Present == {p \in Peers : where[p] \in {"prepare", "open", "ending", "closing"}}

Init ==
    /\ where = [p \in Peers |-> "out"]
    /\ queue = [p \in Peers |-> <<>>] /\ hand = [p \in Peers |-> <<>>]
    /\ writer = {} /\ failure = {} /\ action = {}
    /\ bytes = [p \in Peers |-> 0] /\ queuedBytes = 0
    /\ listening = TRUE /\ events = 0
    /\ since = [p \in Peers |-> 0] /\ got = [p \in Peers |-> <<>>]
    /\ faults = 0

Full(p) == Len(queue[p]) >= QueueFrames
\* [Mutated] A frame that does not fit is left out and the peer stays.
PutIfRoom(P, f) ==
    LET fit == {p \in P \ failure : ~Full(p)}
    IN /\ Cardinality(fit) <= TotalBytes - queuedBytes
       /\ queue' = [p \in Peers |-> IF p \in fit THEN Append(queue[p], f) ELSE queue[p]]
       /\ bytes' = [p \in Peers |-> IF p \in fit THEN bytes[p] + 1 ELSE bytes[p]]
       /\ queuedBytes' = queuedBytes + Cardinality(fit)
       /\ UNCHANGED failure
\* Peer.put for the peers of P in some order: the ones with no room fail, the others queue f.
Put(P, f) ==
    LET open == P \ failure
        fit == {p \in open : ~Full(p)}
        room == TotalBytes - queuedBytes
    IN \E Q \in {Q \in SUBSET fit : Cardinality(Q) = IF Cardinality(fit) <= room
                                                     THEN Cardinality(fit) ELSE room} :
        /\ queue' = [p \in Peers |-> IF p \in Q THEN Append(queue[p], f) ELSE queue[p]]
        /\ bytes' = [p \in Peers |-> IF p \in Q THEN bytes[p] + 1 ELSE bytes[p]]
        /\ queuedBytes' = queuedBytes + Cardinality(Q)
        /\ failure' = failure \cup (open \ Q)

(***************************************************************************)
(* A connection.                                                           *)
(***************************************************************************)
Join(p) ==
    /\ where[p] = "out" /\ listening /\ Cardinality(Present) < MaxPeers
    /\ where' = [where EXCEPT ![p] = "prepare"] /\ since' = [since EXCEPT ![p] = events]
    /\ UNCHANGED <<queues, writer, failure, action, listening, events, got, faults>>

\* Writer and reader start; a subscriber is told that it is connected.
Opened(p) ==
    /\ where[p] = "prepare" /\ where' = [where EXCEPT ![p] = "open"]
    /\ writer' = writer \cup {p}
    /\ Put({p} \cap Subscribers, 0)
    /\ UNCHANGED <<hand, action, listening, events, since, got, faults>>
PrepareFails(p) ==
    /\ where[p] = "prepare" /\ where' = [where EXCEPT ![p] = "ending"]
    /\ UNCHANGED <<queues, writer, failure, action, listening, events, since, got, faults>>

\* The client leaves or is lost, or one of the two tasks ended: the handler closes the peer.
Ends(p) ==
    /\ where[p] = "open"
    /\ where' = [where EXCEPT ![p] = "ending"]
    /\ UNCHANGED <<queues, writer, failure, action, listening, events, since, got, faults>>

Publish ==
    /\ listening /\ events < MaxEvents /\ (Present \cap Subscribers) \ failure # {}
    /\ events' = events + 1
    /\ Put(Present \cap Subscribers, events + 1)
    /\ UNCHANGED <<where, hand, writer, action, listening, since, got, faults>>

\* read_peer starts one action at a time and refuses a second one while it executes.
Act(p) ==
    /\ where[p] = "open" /\ p \notin failure
    /\ IF p \in action THEN Put({p}, 0) /\ UNCHANGED action
       ELSE action' = action \cup {p} /\ UNCHANGED <<queue, bytes, queuedBytes, failure>>
    /\ UNCHANGED <<where, hand, writer, listening, events, since, got, faults>>
Answer(p) ==
    /\ p \in action /\ action' = action \ {p}
    /\ Put({p}, 0)
    /\ UNCHANGED <<where, hand, writer, listening, events, since, got, faults>>

(***************************************************************************)
(* The writer.  Its frame counts until it is sent, and a writer that is    *)
(* cancelled or fails gives its frame up.                                  *)
(***************************************************************************)
Counted(p, n) ==
    /\ bytes' = [bytes EXCEPT ![p] = @ - n] /\ queuedBytes' = queuedBytes - n
Take(p) ==
    /\ p \in writer \ failure /\ hand[p] = <<>> /\ queue[p] # <<>>
    /\ hand' = [hand EXCEPT ![p] = <<Head(queue[p])>>] /\ queue' = [queue EXCEPT ![p] = Tail(@)]
    /\ UNCHANGED <<where, writer, failure, action, bytes, queuedBytes, listening, events, since,
                   got, faults>>
Send(p) ==
    /\ p \in writer \ failure /\ hand[p] # <<>> /\ listening
    /\ got' = [got EXCEPT ![p] = IF hand[p] = <<0>> THEN @ ELSE @ \o hand[p]]
    /\ hand' = [hand EXCEPT ![p] = <<>>] /\ Counted(p, 1)
    /\ UNCHANGED <<where, queue, writer, failure, action, listening, events, since, faults>>
Stalls(p) ==
    /\ p \in writer \ failure /\ hand[p] # <<>> /\ faults < MaxFaults
    /\ failure' = failure \cup {p} /\ faults' = faults + 1
    /\ hand' = [hand EXCEPT ![p] = <<>>] /\ Counted(p, 1)
    /\ writer' = writer \ {p}
    /\ UNCHANGED <<where, queue, action, listening, events, since, got>>
\* The writer of a failed peer, or of one that is being closed, unwinds.
WriterEnds(p) ==
    /\ p \in writer /\ (p \in failure \/ where[p] = "ending")
    /\ writer' = writer \ {p}
    /\ hand' = [hand EXCEPT ![p] = <<>>] /\ Counted(p, Len(hand[p]))
    /\ UNCHANGED <<where, queue, failure, action, listening, events, since, got, faults>>

(***************************************************************************)
(* close_peer: its tasks are cancelled and awaited, the queue is cleared,  *)
(* the socket is closed.  A socket the client closed is closed already;    *)
(* closing any other takes a while, the peer being still listed.           *)
(***************************************************************************)
ActionCancelled(p) ==
    /\ where[p] = "ending" /\ p \in action /\ action' = action \ {p}
    /\ UNCHANGED <<where, queues, writer, failure, listening, events, since, got, faults>>
Clear(p) ==
    /\ where[p] = "ending" /\ p \notin writer \cup action
    /\ where' = [where EXCEPT ![p] = IF p \in failure THEN "closing" ELSE "gone"]
    /\ queue' = [queue EXCEPT ![p] = <<>>] /\ Counted(p, bytes[p])
    /\ UNCHANGED <<hand, writer, failure, action, listening, events, since, got, faults>>
Gone(p) ==
    /\ where[p] = "closing" /\ where' = [where EXCEPT ![p] = "gone"]
    /\ UNCHANGED <<queues, writer, failure, action, listening, events, since, got, faults>>

\* The instance was reloaded or the network switched off: every peer fails.
Revoke ==
    /\ listening /\ listening' = FALSE
    /\ failure' = failure \cup Present
    /\ UNCHANGED <<where, queues, writer, action, events, since, got, faults>>

Next ==
    \/ \E p \in Peers : \/ Join(p) \/ Opened(p) \/ PrepareFails(p) \/ Ends(p) \/ Act(p) \/ Answer(p)
                        \/ Take(p) \/ Send(p) \/ Stalls(p) \/ WriterEnds(p)
                        \/ ActionCancelled(p) \/ Clear(p) \/ Gone(p)
    \/ Publish \/ Revoke

Spec == Init /\ [][Next]_vars

(***************************************************************************)
(* Properties.                                                             *)
(***************************************************************************)
TypeOK ==
    /\ where \in [Peers -> {"out", "prepare", "open", "ending", "closing", "gone"}]
    /\ queuedBytes \in 0..TotalBytes /\ \A p \in Peers : Len(queue[p]) <= QueueFrames
    /\ writer \cup failure \cup action \subseteq Peers
    /\ events \in 0..MaxEvents

\* What all peers may queue together is what their queues and writers hold, so peers that came and
\* went, in whatever way, take nothing of the room of those that stay.
BytesCounted ==
    /\ \A p \in Peers : bytes[p] = Len(queue[p]) + Len(hand[p])
    /\ queuedBytes = Total(bytes, Peers, QueueFrames + 1)
    /\ \A p \in Peers : where[p] \in {"out", "closing", "gone"} => bytes[p] = 0 /\ p \notin writer \cup action

\* A subscriber that is not being disconnected has received, or will from its queue, every event
\* published since it joined, in order and once; a disconnected one has received the first of them.
Rising(q) == \A i, j \in DOMAIN q : i < j /\ q[i] # 0 /\ q[j] # 0 => q[i] < q[j]
NoHoles ==
    \A p \in Subscribers :
        LET last == since[p] + Len(got[p])
            coming == hand[p] \o queue[p]
        IN  /\ got[p] = [i \in 1..Len(got[p]) |-> since[p] + i] /\ last <= events
            /\ where[p] = "open" /\ p \notin failure =>
                  Rising(coming) /\ Range(coming) \ {0} = (last + 1)..events
=============================================================================
