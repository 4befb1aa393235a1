----------------------------- MODULE EventInbox -----------------------------
(***************************************************************************)
(* The receiving pipeline of one robot: transport intake (Ingress), the    *)
(* durable raw inbox (RawInbox, table `inbox`), the core consumer that      *)
(* publishes to SDK subscribers and settles notices (CoreConsumer), the    *)
(* chat consumer that hands messages to the AstrBot host queue             *)
(* (ChatConsumer, DeliverySlots) and the operator who discards retained    *)
(* records.                                                                *)
(*                                                                         *)
(* Everything runs on one asyncio thread and neither consumer awaits       *)
(* inside step(), so a step is one action.  What can cut a step short is   *)
(* the end of the process or an SQLite error between two of its            *)
(* transactions: the *Fault actions commit a proper prefix of a step's     *)
(* writes, and a process that dies there is a *Fault followed by Crash.    *)
(***************************************************************************)
EXTENDS Integers, FiniteSets, Sequences

CONSTANTS
    Events,         \* envelopes QQ may deliver (and deliver again)
    Kind,           \* Events -> Kinds, what convert/validate make of them
    Identified,     \* the events that carry an event_id (dedup key)
    Messages,       \* chat messages, the key of the delivery markers
    MsgOf,          \* Events -> Messages, read for chat events only
    MaxRows,        \* live rows the inbox takes (max_rows, 256 per owner)
    MaxTombstones,  \* settled rows kept as dedup keys (max_tombstones)
    TTL,            \* clock ticks a settled row stays a dedup key (300 s)
    QueueCap,       \* Ingress queue (32)
    SlotCap,        \* DeliverySlots.capacity (32)
    IntakeCap,      \* extension ACK/intake workers (8)
    MaxArrivals, MaxTicks, MaxFaults, MaxRestarts   \* bounds of the model

Kinds == {"chat", "ready", "interaction", "join", "notice", "unknown", "bad"}

\* What a consumer waits for: runtime_status()["message_ready"], room in the
\* message store (message_state_full), room in the extension table
\* (extension_state_full).
Troubles == {"gateway", "messages", "extensions"}

ASSUME EventsAssumption ==
    /\ Kind \in [Events -> Kinds]
    /\ MsgOf \in [Events -> Messages]
    /\ Identified \subseteq Events
ASSUME BoundsAssumption ==
    /\ MaxRows \in Nat \ {0} /\ MaxTombstones \in Nat \ {0} /\ TTL \in Nat \ {0}
    /\ QueueCap \in Nat \ {0} /\ SlotCap \in Nat \ {0} /\ IntakeCap \in Nat \ {0}
    /\ MaxArrivals \in Nat /\ MaxTicks \in Nat
    /\ MaxFaults \in Nat /\ MaxRestarts \in Nat

VARIABLES
    clock,              \* wall clock, in ticks
    \* durable
    rows,               \* table inbox: receipt (row_id) -> row
    delivered,          \* table deliveries: messages marked as handed over
    extEvents,          \* table extension_events: interactions taken in
    \* in memory, one generation of the adapter
    queue,              \* Ingress.queue
    recoveredThrough,   \* CoreConsumer.recovered_through
    published,          \* CoreConsumer.published (receipts)
    enqueued,           \* ChatConsumer.enqueued (receipts)
    intake,             \* ExtensionDispatcher.intake
    slots,              \* len(DeliverySlots.events); survives a reload
    \* the operator's page
    view,               \* last retained_summary it read
    \* history, never read by a guard of the code
    log,                \* arrival number -> what became of that envelope
    acked,              \* events whose sender got a positive receipt
    boot,               \* arrivals already in the inbox at construction
    bus,                \* what SDK subscribers saw in this generation
    given,              \* what the host queue got in this generation
    offered,            \* messages the host ever got
    faults, restarts,   \* budget spent
    shut                \* which Troubles hold now; other parts decide

durable  == <<rows, delivered, extEvents>>
volatile == <<queue, recoveredThrough, published, enqueued, intake, slots>>
history  == <<log, acked, boot, bus, given, offered>>
\* Everything but `shut`, which no step here changes.
vars == <<clock, durable, volatile, view, history, faults, restarts>>

-----------------------------------------------------------------------------
(* Rows.  `live` is body IS NOT NULL; a settled row is a tombstone whose   *)
(* only use is deduplication.  `arr` is received_at, told apart by arrival *)
(* number; `at` is the `delivered` time.  core "done" stands for done and  *)
(* degraded, which no reader tells apart.                                  *)
Fates == {"held", "host_admitted", "core_confirmed", "operator_discard"}

Row == [ev : Events, arr : Nat, live : BOOLEAN,
        disp : {"pending", "invalid", "extension", "discarded"},
        core : {"pending", "done", "invalid"}, at : Nat]

Envelope == [ev : Events, fate : Fates]

kind(t, r)  == Kind[t[r].ev]
Restriction(t, S) == [r \in S |-> t[r]]
Live(t)  == {r \in DOMAIN t : t[r].live}
Tombs(t) == {r \in DOMAIN t : ~t[r].live}
Waiting(t)  == {r \in Live(t) : t[r].disp = "pending"}
Retained(t) == {r \in Live(t) : t[r].disp \in {"invalid", "extension"}}

\* row_id is INTEGER PRIMARY KEY without AUTOINCREMENT: SQLite gives the
\* successor of the largest id present, and 1 again once the table is empty.
IsLast(m, t) == /\ \A r \in DOMAIN t : r <= m
                /\ m = 0 \/ m \in DOMAIN t

Expire(t) == Restriction(t, {r \in DOMAIN t : t[r].live \/ t[r].at + TTL > clock})

Newer(t, s, r) == t[s].at > t[r].at \/ (t[s].at = t[r].at /\ s > r)

\* [Mutated] the size bound forgets body IS NULL and evicts payloads too.
PruneAnything(t) ==
    LET u == Expire(t)
    IN  Restriction(u, {r \in DOMAIN u :
            Cardinality({s \in DOMAIN u : Newer(u, s, r)}) < MaxTombstones})

PruneDelivered(t) ==
    LET u == Expire(t)
    IN  Restriction(u, {r \in DOMAIN u :
            u[r].live \/ Cardinality({s \in Tombs(u) : Newer(u, s, r)}) < MaxTombstones})

\* The UPDATE of acknowledge and of discard_retained, and the history of it.
Settle(t, S, why) ==
    /\ rows' = PruneDelivered([r \in DOMAIN t |->
                  IF r \in S
                  THEN [t[r] EXCEPT !.live = FALSE, !.at = clock,
                          !.disp = IF why = "operator_discard" THEN "discarded" ELSE @]
                  ELSE t[r]])
    /\ log' = [a \in DOMAIN log |->
                  IF \E r \in S : t[r].arr = a
                  THEN [log[a] EXCEPT !.fate = why] ELSE log[a]]

SetCore(r, state) == [rows EXCEPT ![r].core = state]
Retain(t, r, d)   == [t EXCEPT ![r].disp = d]

Fail == faults < MaxFaults /\ faults' = faults + 1

-----------------------------------------------------------------------------
Init ==
    /\ clock = 0
    /\ rows = << >> /\ delivered = {} /\ extEvents = {}
    /\ queue = << >> /\ recoveredThrough = 0
    /\ published = {} /\ enqueued = {} /\ intake = {} /\ slots = 0
    /\ view = {}
    /\ log = << >> /\ acked = {} /\ boot = 0 /\ bus = << >> /\ given = << >>
    /\ offered = {}
    /\ faults = 0 /\ restarts = 0 /\ shut = {}

-----------------------------------------------------------------------------
(* Intake.  Webhook.handle and the gateway await Ingress.accept; one        *)
(* worker commits one envelope at a time and resolves the caller's future. *)

\* Ingress.accept: a full queue refuses without any change.
Offer(e) ==
    /\ Len(queue) < QueueCap
    /\ Len(log) + Len(queue) < MaxArrivals
    /\ queue' = Append(queue, e)
    /\ UNCHANGED <<clock, durable, recoveredThrough, published, enqueued, intake,
                   slots, view, history, faults, restarts, shut>>

\* [Mutated] settled rows are not looked up.
DuplicateLiveOnly(t, e) == e \in Identified /\ \E r \in Live(t) : t[r].ev = e

Duplicate(t, e) == e \in Identified /\ \E r \in DOMAIN t : t[r].ev = e

\* RawInbox.accept finds the event_id: nothing stored, a positive receipt.
ConsumeDuplicate ==
    /\ queue # << >>
    /\ Duplicate(Expire(rows), Head(queue))
    /\ queue' = Tail(queue)
    /\ rows' = Expire(rows)
    /\ acked' = acked \cup {Head(queue)}
    /\ UNCHANGED <<clock, delivered, extEvents, recoveredThrough, published, enqueued,
                   intake, slots, view, log, boot, bus, given, offered, faults, restarts, shut>>

\* RawInbox.accept inserts the row in the transaction that expired old ones.
ConsumeNew ==
    LET t == Expire(rows)
        e == Head(queue)
    IN  /\ queue # << >>
        /\ ~Duplicate(t, e)
        /\ Cardinality(Live(t)) < MaxRows
        /\ \E m \in 0 .. Len(log) :
              /\ IsLast(m, t)
              /\ rows' = [r \in DOMAIN t \cup {m + 1} |->
                            IF r = m + 1
                            THEN [ev |-> e, arr |-> Len(log) + 1, live |-> TRUE,
                                  disp |-> "pending", core |-> "pending", at |-> 0]
                            ELSE t[r]]
        /\ log' = Append(log, [ev |-> e, fate |-> "held"])
        /\ acked' = acked \cup {e}
        /\ queue' = Tail(queue)
        /\ UNCHANGED <<clock, delivered, extEvents, recoveredThrough, published, enqueued,
                       intake, slots, view, boot, bus, given, offered, faults, restarts, shut>>

\* [Mutated] the receipt is given before the commit is known.
ConsumeRefusedWithReceipt ==
    /\ queue # << >> /\ Fail
    /\ queue' = Tail(queue)
    /\ acked' = acked \cup {Head(queue)}
    /\ UNCHANGED <<clock, durable, recoveredThrough, published, enqueued, intake,
                   slots, view, log, boot, bus, given, offered, restarts, shut>>

\* inbox_full or inbox_unavailable: the transaction rolls back and the
\* sender is refused, so it will deliver the event again.
ConsumeRefused ==
    LET t == Expire(rows)
    IN  /\ queue # << >>
        /\ \/ ~Duplicate(t, Head(queue)) /\ Cardinality(Live(t)) >= MaxRows
              /\ UNCHANGED faults
           \/ Fail
        /\ queue' = Tail(queue)
        /\ UNCHANGED <<clock, durable, recoveredThrough, published, enqueued, intake,
                       slots, view, history, restarts, shut>>

-----------------------------------------------------------------------------
(* CoreConsumer.step: one row per step, interactions ahead of the rest.    *)

CorePending == {r \in Waiting(rows) : rows[r].core = "pending"}
Before(S, first(_)) ==   \* ORDER BY first DESC, row_id
    {r \in S : \A s \in S : \/ first(r) /\ ~first(s)
                            \/ first(r) = first(s) /\ r <= s}
IsInteraction(r) == kind(rows, r) = "interaction"
IsReady(r)       == kind(rows, r) = "ready"
IsChat(r)        == kind(rows, r) = "chat"

\* core_pending(owner, 1)
CoreHead == Before(CorePending, IsInteraction)

\* completed_nonchat: core settled it, the acknowledgement did not commit.
Completed ==
    Before({r \in Waiting(rows) : rows[r].core = "done" /\ ~IsChat(r)}, IsReady)

\* A step takes the head of core_pending unless a completed notice is left
\* over; an interaction at the head goes first even then.
CoreTakes(r) == r \in CoreHead /\ (IsInteraction(r) \/ Completed = {})

\* [Mutated] a row is published each time the core consumer comes by.
PublishUnfenced(r) ==
    bus' = Append(bus, [arr |-> rows[r].arr, recovered |-> r <= recoveredThrough])

\* EventContext.recovered and the `published` fence of one generation; at
\* least one subscription matches every event.
Publish(r) ==
    bus' = IF r \in published THEN bus
           ELSE Append(bus, [arr |-> rows[r].arr, recovered |-> r <= recoveredThrough])

\* ExtensionDispatcher.accept: an event the table knows starts no worker.
TakeIn(e) ==
    \/ e \in extEvents /\ UNCHANGED <<extEvents, intake>>
    \/ /\ e \notin extEvents
       /\ "extensions" \notin shut             \* else extension_state_full
       /\ Cardinality(intake) < IntakeCap      \* else extension_capacity
       /\ extEvents' = extEvents \cup {e}
       /\ intake' = intake \cup {e}

\* What a step does for the row before core_done; the chat branch's observe
\* and the profile merges live in other stores and change nothing here, but
\* a full store stops the step.
Apply(r) == IF kind(rows, r) \in {"interaction", "join"}
            THEN TakeIn(rows[r].ev)
            ELSE UNCHANGED <<extEvents, intake>>

coreFrame == <<clock, delivered, queue, recoveredThrough, enqueued, slots, view,
               acked, boot, given, offered, restarts, shut>>

\* [Mutated] left-overs wait for an idle lane.
CoreFinishWhenIdle(r) ==
    /\ r \in Completed /\ CorePending = {}
    /\ Settle(rows, {r}, "core_confirmed")
    /\ published' = published \ {r}
    /\ UNCHANGED <<coreFrame, extEvents, intake, bus, faults>>

\* A core-confirmed notice whose acknowledgement is still missing.
CoreFinish(r) ==
    /\ r \in Completed
    /\ ~\E h \in CoreHead : IsInteraction(h)
    /\ Settle(rows, {r}, "core_confirmed")
    /\ published' = published \ {r}
    /\ UNCHANGED <<coreFrame, extEvents, intake, bus, faults>>

\* invalid_dispatch, invalid_event_data, an event the handlers refuse, an
\* interaction past its ACK deadline: kept for the operator.
CoreQuarantine(r) ==
    /\ CoreTakes(r)
    /\ \/ kind(rows, r) = "bad"
       \/ IsInteraction(r) /\ rows[r].ev \notin extEvents
    /\ \/ rows' = Retain(SetCore(r, "invalid"), r, "invalid") /\ UNCHANGED faults
       \/ rows' = Retain(rows, r, "invalid") /\ Fail      \* core_done fails
    /\ UNCHANGED <<coreFrame, extEvents, published, intake, log, bus>>

CoreChat(r) ==
    /\ CoreTakes(r) /\ IsChat(r)
    /\ "messages" \notin shut                \* else message_state_full
    /\ Publish(r)
    /\ rows' = SetCore(r, "done")
    /\ published' = published \ {r}
    /\ UNCHANGED <<coreFrame, extEvents, intake, log, faults>>

\* core_done, then acknowledge(host=False).
CoreNotice(r) ==
    /\ CoreTakes(r) /\ kind(rows, r) \in {"ready", "interaction", "join", "notice"}
    /\ Apply(r)
    /\ Publish(r)
    /\ Settle(SetCore(r, "done"), {r}, "core_confirmed")
    /\ published' = published \ {r}
    /\ UNCHANGED <<coreFrame, faults>>

\* core_done, then retain("unknown_event").
CoreUnknown(r) ==
    /\ CoreTakes(r) /\ kind(rows, r) = "unknown"
    /\ Publish(r)
    /\ rows' = Retain(SetCore(r, "done"), r, "extension")
    /\ published' = published \ {r}
    /\ UNCHANGED <<coreFrame, extEvents, intake, log, faults>>

\* The step stops at core_done, or between core_done and the write after it.
CoreFault(r) ==
    /\ CoreTakes(r) /\ kind(rows, r) # "bad"
    /\ IsChat(r) => "messages" \notin shut
    /\ Apply(r)
    /\ Publish(r)
    /\ published' = published \cup {r}
    /\ \/ UNCHANGED rows
       \/ ~IsChat(r) /\ rows' = SetCore(r, "done")
    /\ Fail
    /\ UNCHANGED <<coreFrame, log>>

\* A step that nothing stops; that an interaction is refused is not counted on.
CoreStep == \E r \in DOMAIN rows :
    \/ CoreFinish(r) \/ CoreChat(r) \/ CoreNotice(r) \/ CoreUnknown(r)
    \/ kind(rows, r) = "bad" /\ CoreQuarantine(r)

\* process() leaves the ACK lane (the interaction module says how).
IntakeDone(e) ==
    /\ e \in intake
    /\ intake' = intake \ {e}
    /\ UNCHANGED <<clock, durable, queue, recoveredThrough, published, enqueued, slots,
                   view, history, faults, restarts, shut>>

-----------------------------------------------------------------------------
(* ChatConsumer.step: the oldest core-ready chat row.                      *)

ChatPending == {r \in Waiting(rows) : rows[r].core = "done" /\ IsChat(r)}
\* [Mutated] the ORDER BY is lost.
Whichever(S) == S
Oldest(S) == {r \in S : \A s \in S : r <= s}

\* ChatConsumer.run steps only while message_ready holds, and a step waits
\* while a READY the core settled is not yet acknowledged, since the core
\* consumer sets bot_id again before it acknowledges.
ChatTakes(r) == /\ "gateway" \notin shut
                /\ r \in Oldest(ChatPending)
                /\ ~\E c \in Completed : IsReady(c)

Msg(r) == MsgOf[rows[r].ev]
\* [Mutated] the in-memory fence is not consulted.
KnownByMarker(r) == Msg(r) \in delivered
Known(r) == Msg(r) \in delivered \/ r \in enqueued

\* The host has it: write a missing marker, then acknowledge.
ChatConfirm(r) ==
    /\ ChatTakes(r) /\ Known(r)
    /\ delivered' = delivered \cup {Msg(r)}
    /\ Settle(rows, {r}, "host_admitted")
    /\ enqueued' = enqueued \ {r}
    /\ UNCHANGED <<clock, extEvents, queue, recoveredThrough, published, intake, slots,
                   view, acked, boot, bus, given, offered, faults, restarts, shut>>

HandToHost(r) ==
    /\ slots < SlotCap                       \* else backpressured
    /\ "messages" \notin shut                \* else message_state_full
    /\ slots' = slots + 1
    /\ given' = Append(given, [msg |-> Msg(r), arr |-> rows[r].arr])
    /\ offered' = offered \cup {Msg(r)}

\* commit_event, mark_delivered, acknowledge.
ChatDeliver(r) ==
    /\ ChatTakes(r) /\ ~Known(r)
    /\ HandToHost(r)
    /\ delivered' = delivered \cup {Msg(r)}
    /\ Settle(rows, {r}, "host_admitted")
    /\ enqueued' = enqueued \ {r}
    /\ UNCHANGED <<clock, extEvents, queue, recoveredThrough, published, intake, view,
                   acked, boot, bus, faults, restarts, shut>>

\* [Mutated] acknowledge runs before mark_delivered.
ChatFaultAckFirst(r) ==
    /\ ChatTakes(r) /\ ~Known(r) /\ HandToHost(r)
    /\ Settle(rows, {r}, "host_admitted")
    /\ Fail
    /\ UNCHANGED <<clock, delivered, extEvents, queue, recoveredThrough, published,
                   enqueued, intake, view, acked, boot, bus, restarts, shut>>

\* The marker or the acknowledgement does not commit.
ChatFault(r) ==
    /\ ChatTakes(r)
    /\ \/ /\ Known(r) /\ Msg(r) \notin delivered
          /\ delivered' = delivered \cup {Msg(r)}
          /\ UNCHANGED <<enqueued, slots, given, offered>>
       \/ /\ ~Known(r) /\ HandToHost(r)
          /\ enqueued' = enqueued \cup {r}
          /\ delivered' \in {delivered, delivered \cup {Msg(r)}}
    /\ Fail
    /\ UNCHANGED <<clock, rows, extEvents, queue, recoveredThrough, published, intake,
                   view, log, acked, boot, bus, restarts, shut>>

ChatStep == \E r \in DOMAIN rows : ChatConfirm(r) \/ ChatDeliver(r)

\* [Mutated] the slot is released twice.
HostDoneTwice ==
    /\ slots > 0
    /\ slots' = slots - 2
    /\ UNCHANGED <<clock, durable, queue, recoveredThrough, published, enqueued, intake,
                   view, history, faults, restarts, shut>>

\* The host pipeline drops an event: delivery_finished.
HostDone ==
    /\ slots > 0
    /\ slots' = slots - 1
    /\ UNCHANGED <<clock, durable, queue, recoveredThrough, published, enqueued, intake,
                   view, history, faults, restarts, shut>>

-----------------------------------------------------------------------------
(* The operator's page reads a summary and later discards from it.         *)

\* The version is a hash over receipt, body, received time, reason and
\* disposition: here the parts of the row those columns stand for.
Entry(r) == [receipt |-> r, ev |-> rows[r].ev, arr |-> rows[r].arr, disp |-> rows[r].disp]

Inspect ==
    /\ Retained(rows) # {}
    /\ view' = {Entry(r) : r \in Retained(rows)}
    /\ UNCHANGED <<clock, durable, volatile, history, faults, restarts, shut>>

\* [Mutated] the version is not compared.
MatchesReceipt(item) == item.receipt \in Retained(rows)

\* All of the selection or none of it.
Matches(item) == item.receipt \in Retained(rows) /\ Entry(item.receipt) = item

Discard(selected) ==
    /\ selected # {} /\ selected \subseteq view
    /\ \A item \in selected : Matches(item)
    /\ Settle(rows, {item.receipt : item \in selected}, "operator_discard")
    /\ UNCHANGED <<clock, delivered, extEvents, volatile, view, acked, boot, bus, given,
                   offered, faults, restarts, shut>>

-----------------------------------------------------------------------------
(* Time, reloads and crashes.                                              *)

Tick ==
    /\ clock < MaxTicks
    /\ clock' = clock + 1
    /\ UNCHANGED <<durable, volatile, view, history, faults, restarts, shut>>

\* A new adapter on the same inbox: Ingress.close refuses what it queued,
\* the new CoreConsumer takes the largest receipt as recovered_through.
NewGeneration(t) ==
    /\ restarts < MaxRestarts /\ restarts' = restarts + 1
    /\ queue' = << >>
    /\ \E m \in 0 .. Len(log) : IsLast(m, t) /\ recoveredThrough' = m
    /\ published' = {} /\ enqueued' = {} /\ intake' = {}
    /\ boot' = Len(log) /\ bus' = << >> /\ given' = << >>

\* The platform is reloaded: the owner keeps the inbox and the host's slots.
Reload ==
    /\ NewGeneration(rows)
    /\ UNCHANGED <<clock, durable, slots, view, log, acked, offered, faults, shut>>

\* The process ends and starts again: RawInbox.__init__ prunes.
Crash ==
    /\ rows' = PruneDelivered(rows)
    /\ NewGeneration(rows')
    /\ slots' = 0
    /\ UNCHANGED <<clock, delivered, extEvents, view, log, acked, offered, faults, shut>>

-----------------------------------------------------------------------------
Next ==
    \/ \E e \in Events : Offer(e)
    \/ ConsumeDuplicate \/ ConsumeNew \/ ConsumeRefused
    \/ \E r \in DOMAIN rows : \/ CoreFinish(r) \/ CoreQuarantine(r) \/ CoreChat(r)
                              \/ CoreNotice(r) \/ CoreUnknown(r) \/ CoreFault(r)
                              \/ ChatConfirm(r) \/ ChatDeliver(r) \/ ChatFault(r)
    \/ \E e \in intake : IntakeDone(e)
    \/ HostDone
    \/ Inspect
    \/ \E selected \in SUBSET view : Discard(selected)
    \/ Tick \/ Reload \/ Crash

\* A step that leaves vars alone may change `shut`: the gateway comes and
\* goes, tables fill up and are pruned, whenever the other parts say so.
Spec == Init /\ [][Next]_vars

-----------------------------------------------------------------------------
(* Properties.                                                             *)

\* The tables and the sets hold what their columns may hold.
TablesOK ==
    /\ clock \in Nat
    /\ DOMAIN rows \subseteq 1 .. Len(log) /\ rows \in [DOMAIN rows -> Row]
    /\ log \in Seq(Envelope)
MemoryOK ==
    /\ delivered \subseteq Messages /\ extEvents \subseteq Events
    /\ queue \in Seq(Events) /\ recoveredThrough \in Nat
    /\ published \subseteq Nat /\ enqueued \subseteq Nat
    /\ intake \subseteq Events /\ slots \in Nat
    /\ view \subseteq [receipt : Nat, ev : Events, arr : Nat, disp : {"invalid", "extension"}]
    /\ faults \in Nat /\ restarts \in Nat
HistoryOK ==
    /\ acked \subseteq Events /\ boot \in Nat
    /\ bus \in Seq([arr : Nat, recovered : BOOLEAN])
    /\ given \in Seq([msg : Messages, arr : Nat])
    /\ offered \subseteq Messages
TypeOK == TablesOK /\ MemoryOK /\ HistoryOK

\* What a sender got a receipt for is in the log, and every envelope of the
\* log is a live row until a consumer or the operator settled exactly it:
\* pruning, restarts and the reuse of a receipt never drop or mix up a payload.
NothingLost ==
    /\ acked \subseteq {log[a].ev : a \in DOMAIN log}
    /\ \A a \in DOMAIN log :
          log[a].fate = "held" <=>
              \E r \in Live(rows) : rows[r].arr = a /\ rows[r].ev = log[a].ev

\* Settling follows the effect, across the three stores and any crash: an
\* admitted chat has its delivery marker, a marker means the host queue had
\* the message, a settled interaction is in the extension table.
EffectBeforeSettling ==
    /\ delivered \subseteq offered
    /\ \A a \in DOMAIN log :
        /\ log[a].fate = "host_admitted" => MsgOf[log[a].ev] \in delivered
        /\ log[a].fate = "core_confirmed" /\ Kind[log[a].ev] \in {"interaction", "join"}
              => log[a].ev \in extEvents

\* One generation hands a message to the host once, whatever envelopes carry
\* it and wherever an SQLite error stopped an earlier try.
HostedOnce ==
    \A i, j \in DOMAIN given : given[i].msg = given[j].msg => i = j

\* A chat reaches the host after every chat and every READY that arrived
\* before it and still waits; the priority of interactions and left-over
\* acknowledgements do not let it overtake.
HostInOrder ==
    [][Len(given') > Len(given) =>
          \A r \in Waiting(rows) : rows[r].arr < given'[Len(given')].arr =>
              ~IsChat(r) /\ ~IsReady(r)]_vars

\* Subscribers see an envelope at most once per generation, and only an
\* interaction is published ahead of something older.
BusOnceInOrder ==
    \A i, j \in DOMAIN bus : i < j =>
        /\ bus[i].arr # bus[j].arr
        /\ bus[j].arr < bus[i].arr => Kind[log[bus[i].arr].ev] = "interaction"

\* Core never settles a row its subscribers did not see: the fence of
\* receipts already published never covers a newer envelope that was given
\* the same receipt.
NoneSkipped ==
    [][\A r \in DOMAIN rows \cap DOMAIN rows' :
          /\ rows[r].arr = rows'[r].arr
          /\ rows[r].core = "pending" /\ rows'[r].core = "done"
          => \E i \in DOMAIN bus' : bus'[i].arr = rows[r].arr]_vars

\* An envelope that was in the inbox when the generation began is published
\* as recovered, so no stale source is used to reply.
OldIsRecovered ==
    \A i \in DOMAIN bus : bus[i].arr <= boot => bus[i].recovered

\* An event of a type the catalog lacks leaves the inbox by the operator only.
UnknownIsRetained ==
    \A a \in DOMAIN log : Kind[log[a].ev] = "unknown" => log[a].fate # "core_confirmed"

\* The operator discards only envelopes on the page it read, even when a
\* receipt of that page was reused since.
DiscardsWhatWasSeen ==
    [][\A a \in DOMAIN log :
          log[a].fate # log'[a].fate /\ log'[a].fate = "operator_discard" =>
              \E item \in view : item.arr = a]_vars

\* An event is stored again only when its last envelope was settled a full
\* TTL ago or displaced by newer tombstones.
DedupWindow ==
    [][Len(log') > Len(log) /\ log'[Len(log')].ev \in Identified =>
          \A r \in DOMAIN rows : rows[r].ev = log'[Len(log')].ev =>
              ~rows[r].live /\ rows[r].at + TTL <= clock]_vars

\* An envelope that no consumer and nobody else has settled or set aside.
Waits(a) == \E r \in Waiting(rows) : rows[r].arr = a
IsChatRow(a) == a \in DOMAIN log /\ Kind[log[a].ev] = "chat"

\* The promise to the senders, as an abstract specification.
Place(a) == IF log[a].fate = "operator_discard" THEN "removed"
            ELSE IF log[a].fate # "held" THEN "finished"
            ELSE IF \E r \in Retained(rows) : rows[r].arr = a THEN "shelf" ELSE "inbox"
Custody == INSTANCE EnvelopeCustody WITH
    book <- [a \in DOMAIN log |-> [ev |-> log[a].ev, place |-> Place(a)]],
    receipts <- acked
KeepsCustody == Custody!Spec
=============================================================================
