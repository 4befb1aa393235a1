---------------------------- MODULE StreamFence ----------------------------
(***************************************************************************)
(* Streams a plugin writes fragment by fragment (post_c2c_stream_message): *)
(* every fragment is an operation of its own, and reserve_native of        *)
(* messaging/store.py decides from the rows of its source which one may    *)
(* follow which.  QQ is taken to believe whatever it is sent.              *)
(*                                                                         *)
(* The source's rows are younger than the day after which they are pruned: *)
(* a reply source expires long before.  An answer whose ref_idx is no text *)
(* id is left out: SendLedger models it (BadReceipt).                      *)
(***************************************************************************)
EXTENDS Integers, Sequences, FiniteSets

CONSTANTS
    Ops,            \* calls, by their operation ids
    MaxIndex,       \* highest index a plugin asks for
    OpCap           \* operation_capacity: rows that are finished, and pending

NoId == 0

VARIABLES
    rows,       \* operations of the source: state, native_stream, order of update
    asked,      \* ids used so far
    shown       \* QQ: the fragments of each stream, <<index, final>>, in order

vars == <<rows, asked, shown>>

Ids == DOMAIN shown
Unsettled == {"reserved", "in_flight", "unknown"}
History   == {"sent", "rejected", "not_sent"}
In(states) == {o \in DOMAIN rows : rows[o].state \in states}

Init == rows = << >> /\ asked = {} /\ shown = << >>

-----------------------------------------------------------------------------
(* reserve_native                                                          *)

Finished == {rows[o].id : o \in {p \in In({"sent", "history_evicted"}) : rows[p].finished}}

\* A new stream waits until no other is unfinished or uncertain.
MayStart ==
    /\ In(Unsettled) = {}
    /\ \A o \in In({"sent", "history_evicted"}) : rows[o].id \in Finished

\* A continuation follows the confirmed fragment with the index before it.
MayContinue(id, index) ==
    LET matching == {o \in DOMAIN rows : rows[o].id = id}
        latest == CHOOSE o \in matching : \A p \in matching : rows[p].index <= rows[o].index
    IN  /\ matching # {} /\ matching \cap In(Unsettled) = {}
        /\ rows[latest].state = "sent" /\ ~rows[latest].finished
        /\ rows[latest].index = index - 1

Reserve(o) ==
    /\ o \notin asked /\ asked' = asked \cup {o}
    /\ Cardinality(In(Unsettled)) < OpCap
    /\ \E index \in 0..MaxIndex, id \in {NoId} \cup Ids, final \in BOOLEAN :
          /\ IF index = 0 THEN id = NoId /\ MayStart ELSE id # NoId /\ MayContinue(id, index)
          /\ rows' = [p \in DOMAIN rows \cup {o} |->
                IF p = o THEN [state |-> "reserved", index |-> index, id |-> id,
                               asks |-> final, finished |-> FALSE, at |-> 0]
                ELSE rows[p]]
    /\ UNCHANGED shown

-----------------------------------------------------------------------------
(* send_native                                                             *)

Newest == CHOOSE n \in {0} \cup {rows[o].at : o \in DOMAIN rows} :
             \A o \in DOMAIN rows : rows[o].at <= n

\* _trim_operation_history makes room before a row becomes history: what was
\* sent keeps its stream's fence, the rest is deleted.
Trimmed ==
    LET old == {o \in In(History) : Cardinality({p \in In(History) : rows[p].at > rows[o].at})
                                       >= OpCap - 1}
    IN  [o \in {p \in DOMAIN rows : p \notin old \/ rows[p].state = "sent"} |->
            IF o \in old THEN [rows[o] EXCEPT !.state = "history_evicted"] ELSE rows[o]]

Settle(o, state, id, finished) ==
    LET kept == IF state = "unknown" THEN rows ELSE Trimmed
    IN  rows' = [kept EXCEPT ![o] = [@ EXCEPT !.state = state, !.id = id,
                                              !.finished = finished, !.at = Newest + 1]]

Submit(o) ==
    /\ o \in In({"reserved"})
    /\ rows' = [rows EXCEPT ![o].state = "in_flight"]
    /\ UNCHANGED <<asked, shown>>

\* Also what a restart makes of a row that is only reserved.
NotSent(o) ==
    /\ o \in In({"reserved"}) /\ Settle(o, "not_sent", rows[o].id, FALSE)
    /\ UNCHANGED <<asked, shown>>

Rejected(o) ==
    /\ o \in In({"in_flight"}) /\ Settle(o, "rejected", rows[o].id, FALSE)
    /\ UNCHANGED <<asked, shown>>

\* QQ takes it: a first fragment opens a stream.
Shows(o) ==
    LET id == IF rows[o].index = 0 THEN Cardinality(Ids) + 1 ELSE rows[o].id
        piece == <<rows[o].index, rows[o].asks>>
    IN  shown' = [i \in Ids \cup {id} |->
                    IF i # id THEN shown[i]
                    ELSE IF i \in Ids THEN Append(shown[i], piece) ELSE <<piece>>]

Sent(o) ==
    /\ o \in In({"in_flight"}) /\ Shows(o)
    /\ Settle(o, "sent", IF rows[o].index = 0 THEN Cardinality(Ids) + 1 ELSE rows[o].id,
              rows[o].asks)
    /\ UNCHANGED asked

\* No usable answer, another id than the stream's, or a crash: the restart
\* finds the row in flight.
Uncertain(o) ==
    /\ o \in In({"in_flight"}) /\ (Shows(o) \/ UNCHANGED shown)
    /\ Settle(o, "unknown", rows[o].id, FALSE)
    /\ UNCHANGED asked

Next == \E o \in Ops : Reserve(o) \/ Submit(o) \/ NotSent(o) \/ Rejected(o) \/ Sent(o) \/ Uncertain(o)

Spec == Init /\ [][Next]_vars

-----------------------------------------------------------------------------
(* The type of the state. *)
TypeOK ==
    /\ asked \subseteq Ops /\ DOMAIN rows \subseteq asked
    /\ \A o \in DOMAIN rows : rows[o].state \in Unsettled \cup History \cup {"history_evicted"}
    /\ Cardinality(In(History)) <= OpCap

Whole(s) == s[Len(s)][2]

(* QQ shows every stream of a source from its first fragment on without a   *)
(* hole or a repetition and nothing after its last one, and never two       *)
(* streams of the source that are both unfinished: whatever order a plugin  *)
(* calls in, with fragments rejected, lost or cut off by a crash, and when  *)
(* the rows of finished fragments have been evicted.                        *)
OneStreamAtATime ==
    /\ \A i \in Ids, n \in 1..Cardinality(asked) : n \in DOMAIN shown[i] =>
          /\ shown[i][n][1] = n - 1
          /\ shown[i][n][2] => n = Len(shown[i])
    /\ Cardinality({i \in Ids : ~Whole(shown[i])}) <= 1
=============================================================================
