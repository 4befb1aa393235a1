# A TLA+ model of the QQ official v2 adapter

This directory models the adapter in `src/v2`: how an event of QQ becomes a
durable row and reaches SDK subscribers and the AstrBot host exactly as often as
promised, how a write to QQ is recorded so that nothing is sent twice and
nothing is called failed that may have arrived, and how the parts around these
two paths (sessions, tokens, streams, uploads, panels, rosters, settings) keep
their own promises.

The program runs on one asyncio thread per process and keeps its state in
SQLite. What makes it hard is not parallelism but everything that happens
between two `await`s of different tasks and between two transactions of one
step: QQ acting late, events delivered again, a clock set back, a full table, a
platform reload, the end of the process.

## 1. Inventory

| Part | State | Operations | Hard behaviour | What makes it correct | Model |
| --- | --- | --- | --- | --- | --- |
| Raw inbox, intake (`transport/inbox.py`) | table `inbox`, `Ingress.queue` | `accept`, `core_done`, `acknowledge`, `retain`, `discard_retained`, prune | duplicates, receipts reused by SQLite, bounds | no receipted envelope is lost; dedup window | `EventInbox` |
| Core consumer (`sdk/ingress.py`) | `recovered_through`, `published` | `step` | a step is several transactions; priorities | effect before settling; every subscriber sees a row once | `EventInbox`, `Roster` |
| Chat consumer, host slots (`messaging/delivery.py`) | `enqueued`, `DeliverySlots.events` | `step`, slot release | error after the host queue took the event | one hand-over per generation, in order | `EventInbox` |
| Message ledger (`messaging/store.py`) | tables `sources`, `operations`, `sdk_sequences`, `sdk_bindings`, clock high-water mark | `observe`, `reserve`, `reserve_native`, `finish`, `switch_*`, prune, recovery | retention under bounds, clock set back, recovery | the ledger tells the truth; sequences unique | `SendLedger`, `StreamFence` |
| Sending core, reply delivery (`messaging/outbound.py`, `reply.py`) | `tasks`, `storage_failed`, mode of the attempt | `send`, `send_native`, one conversion each way | waits between reserve, preflight, wire, answer | at most one copy at QQ; dead source never quoted | `SendLedger` |
| HTTP transport (`transport/http.py`) | token, refresh task, slots | `request`, `token`, `close` | one 401 refresh, deadline, shared refresh | phase of an error never claims too much; a good token is kept | `SendLedger`, `TokenRefresh` |
| Interactions (`extensions/interactions.py`, `state.py`) | `extension_events`, `extension_ops`, worker sets | `accept`, `acknowledge`, `process`, `reply_interaction` | ACK deadline against business worker | one ACK, unknown kept | `Interactions`, `ExtensionLedger` |
| Callback tickets (`extensions/callbacks.py`, `keyboard.py`) | ticket tables | issue, publish, consume, revoke | revoked while being sent | a ticket works once, for its audience | `Interactions` (use) |
| Join requests (`extensions/management.py`) | table `join_flags`, the ledger's rows | observe, approve | several callers, old flags, rows deleted with age, a crash | an answer is not given again while its fence stands | `JoinFlags` |
| Streams (`messaging/streaming.py`) | stream tasks, ledger rows | start, text, finish | uncertain fragment, mode switch half way | fragments in order and once, honest verdict | `NativeStream`, `StreamFence` |
| Gateway, shards (`transport/websocket.py`, `shards.py`) | session, sequence, identify budget | connect, resume, heartbeat, discover | missed heartbeat, close codes, cancelled accepts | no event skipped by a resume; budget kept | `Gateway`, `IdentifyBudget` |
| Event bus (`sdk/events.py`) | subscriptions, queues, byte budget | subscribe, publish, close | slow subscriber | a gap ends a subscription, never others | `EventBus` |
| Media (`media/`) | blob pool, parts, transfer slots | prepare, upload, drop, close | parts failing in several workers | a blob is released once, a part put once | `MediaUpload` |
| Profiles (`profiles/`) | membership rows, rosters, revisions, continuity | member events, queries, gaps | facts out of order, a roster read while it changes | older never replaces newer; a served roster is the group | `Roster` |
| Panels (`panels.py`) | row per robot and scene, pending and manual writes | sync, enable, disable, manual write | crash between pending and write, drift | never created twice; off stays off | `PanelSync` |
| Settings (`settings.py`) | draft, applied, versions | get, mutate, apply | stale page | no lost update | `SettingsDraft` |
| Onboarding (`onboarding.py`, `connections.py`) | bindings, secrets, the connection | start, poll, renew, cancel, commit | cancel against commit, host edits | a binding claims what it wrote; it ends | `Onboarding` |
| OneBot listener (`network.py`, `network_events.py`) | peers, queues, bytes | connect, act, publish, revoke | slow peer | bounded, no hole | `NetworkPeers` |

How they interact: a transport awaits `Ingress.accept`, whose worker commits
the envelope to the inbox and resolves the caller's future; `ShardIngress`
moves the gateway's cursor only then. `CoreConsumer` polls the inbox, stores
member events, publishes to the event bus, gives interactions to the extension
dispatcher, and settles notices. `ChatConsumer` polls the rows the core settled,
asks the message store whether the host already had the message, and puts it on
the host queue. Host handlers and plugins call the sending core, which writes
through the message ledger and the HTTP transport; management calls, panels,
uploads and acknowledgements write through the extension ledger. A reload
replaces every in-memory part but keeps the stores, the host's slots and the
Identify budget.

## 2. Modules

| Module | Role |
| --- | --- |
| `EventInbox` | inbox, intake, core consumer, chat consumer, operator: one state machine, since they share the table |
| `EnvelopeCustody` | abstract: what the receiving side promises whoever delivers an envelope |
| `SendLedger_proofs`, `ExtensionLedger_proofs` | theorems about the two ledgers |
| `Transport_proofs` | theorems about the three parts of `TransportMC` |
| `Interactions_proofs`, `Clicks_proofs` | theorems about `Interactions`, and about its three instances in `ClicksMC` |
| `Live_proofs` | theorems about `EventInbox` and about the bindings of `LiveMC` |
| `Flow_proofs`, `Services_proofs` | theorems about the ten services of `ServicesMC`: what flows through bus, media, listener and streams; settings, panels, join requests, roster, and what is written once |
| `Totals` | sums of bytes, as the number of cells below a graph, for the three byte budgets |
| `SendLedger` | message ledger, sending core, reply delivery, HTTP write path: one state machine for one route |
| `AtMostOnceSend` | abstract: what the caller of an operation id is promised |
| `ExtensionLedger` | the ledger of acknowledgements and management writes, and `execute` around it; implements `AtMostOnceSend` too |
| `Interactions` | clicks: intake, acknowledgement (an instance of `ExtensionLedger`), tickets, the host queue, callbacks, `reply_interaction` |
| `Gateway` | one shard: supervised loop, handshake, read and heartbeat tasks, cursor, and what QQ may do |
| `IdentifyBudget` | the shards of a group and the Identify budget they share |
| `TokenRefresh` | the access token of one transport, its refresh task, 401s, read retries, `close` |
| `EventBus` | subscriptions, their queues and the byte budget |
| `NativeStream`, `StreamFence` | a streamed reply, fragment by fragment; which fragment of a native stream may follow which |
| `MediaUpload` | blob pool, parts, transfer slots, receipts |
| `PanelSync` | one managed panel: synchronization, overrides, the operator |
| `JoinFlags` | answering one join request |
| `Roster` | what is believed of a group's members |
| `SettingsDraft` | drafts, versions and what runs |
| `Onboarding` | bindings of an account to a connection |
| `NetworkPeers` | WebSocket peers of the OneBot listener |
| `EventInboxMC`, `SendLedgerMC`, `InteractionsMC` | kinds, lanes and sources of the instances TLC uses |
| `ClicksMC`, `LiveMC`, `TransportMC`, `ServicesMC` | several instances in one run (section 3) |

Operators marked `[Mutated]` are deliberate bugs. No action uses them; replacing
the operator they follow (or precede) by one shows which property notices.

### EventInbox and the code

`rows` is the table (`live` is `body IS NOT NULL`), keyed by the receipt
(`row_id`), which SQLite gives again once the highest rows are gone
(`IsLast`). `arr` is the arrival number and stands for `received`; it makes
two envelopes with one receipt distinguishable. `log`, `acked`, `boot`, `bus`,
`given` and `offered` are history and no guard of the code reads them.

Neither consumer awaits inside `step`, so a step is one action. A step is
however several transactions, and `CoreFault` and `ChatFault` commit a proper
prefix of them, as an SQLite error does; a process that dies inside a step is
such a fault followed by `Crash`. `Reload` keeps the table and the host slots,
`Crash` loses the slots too and prunes, as `RawInbox.__init__` does.

Abstractions, each smaller than the code:

- `core_state` done and degraded are one value: no reader tells them apart.
- Whether a payload is convertible is a fact of the payload (`Kind`), so the
  second conversion in the chat consumer cannot fail where the first did not.
  Its branches for non-chat rows are unreachable while a core consumer runs.
- At least one subscription matches every event; the bus itself is a sequence.
- `recovered` is `receipt <= recovered_through`. `OldIsRecovered` says that an
  event from before the start is never taken for a new one. The converse does
  not hold: receipts are reused, so an event that arrives after the start may be
  published as recovered too.
- Delivery markers and `extension_events` are kept 24 h in the code and for
  ever here; a run is far shorter.
- `shut` is what a consumer's step needs and may not have: `message_ready`,
  without which `ChatConsumer.run` takes no step (`"gateway"`,
  `messaging/delivery.py:151`, `adapter.py:163`), room in the message store
  (`"messages"`) and room in the extension table (`"extensions"`), whose errors
  stop a step with nothing done (`ingress.py:178`). Other parts decide these: no
  step of `EventInbox` changes `shut`, and its `Spec` lets it change whenever no
  step is taken, which is what the proofs are about. In `LiveMC` it comes and
  goes at any time (`Turn`); in `inbox_safety` nothing is unavailable, since that
  would only take steps away.
- Webhook signature checks, its replay set and its 5 s answer only withhold a
  positive receipt; QQ then delivers again, which `Offer` already allows.
- `IntakeDone` stands for the acknowledgement worker; its own behaviour is
  `Interactions`.

### SendLedger and the code

One route of a group or C2C scene. `water` is `clock_guard`, written before the
transaction it opens, `ops` the table of operations, `seqs` and `bound` the
sequence claims and bindings. A send is a record in `tasks`: `ready` while it
waits for a connection slot or a token, `wire` while it waits for the answer,
`reauth` after a 401. `wire` is the list of every request and what QQ did with
it; QQ decides (`QQActs`) whether anyone still waits or not.

`Finish` is `MessageStore._finish` with the trimming it starts with; `Start`,
`PruneInto` and `ToActive` are the transactions of `reserve`, the shared prune
and `switch_active`. A reservation that is refused rolls its transaction back,
so it is no step. The operation's row, its binding and the sequence claim are
three tables that retention treats differently, and this is where the hazards
are.

Abstractions: one route; `charges` and `used` are never read; connection
refusals, a full attempts table and an unknown target are part of `GiveUp`;
streams, media and callback tickets are left out. The window of a source is
`born + Window` with QQ's send time not ahead of the receiver's clock.
`BadReceipts` says whether QQ may confirm a native send with a `ref_idx` that
`text_id` refuses; `LedgerTruth`, `SeqUnique` and `AtMostOnce` are checked
without it on the message's own operations; `ledger_receipt` shows what happens with it.

### ExtensionLedger and the code

`ops` is `extension_ops`; `begin`, `attempt` and `finish` are three transactions
around the waits of `ExtensionStore.execute`, so each is an action, and a send
is a record in `tasks` with the places `ready`, `wire` and `reauth` as in
`SendLedger`. Every transaction prunes as the code does: a finished row beyond
the newest `OpCap` keeps its id only (`history_evicted`), an unfinished one is
never evicted, and acknowledgements have a lane of their own (`AckCap`,
`AckTaskCap`). Left out: the claims of tools (`tool_ops`), the digests of
`sdk_bindings`, which refuse an id reused with another body, and the lane fence
between the two ledgers. An id has one body here.

### Interactions and the code

`events` is `extension_events`, `tickets` the two ticket tables, `procs` the
tasks of the dispatcher with the place `process` has reached, `replies` the
calls of `reply_interaction`, `hosted` what the host has of the commands. Code
between two awaits is not interrupted by other code, but it is several
transactions: `loop` names the click that holds the event loop, and while it
does, only its next transaction, QQ, the clock or a crash may happen. That is
how a crash between "ticket consumed" and "command queued" is reached.

The ledger is `L == INSTANCE ExtensionLedger WITH Ops <- Acks`. Every end of an
acknowledgement in the ledger is one step with `Continue`, the return of
`execute` into the waiting task. Abstractions: a ticket of another actor,
place or code is `RefuseClick`; publication, revocation and the capacity of the
ticket tables are not modelled; result codes of an acknowledgement are not told
apart; `Configure` stands for any change of the settings a ticket is bound to.

A queued command meets the contract once more when the host sets
`activated_handlers` (`HostAdmits`, `projection.py:36`); the host comes to the
handler later or never (`HostRuns`, external). Between the two the settings may
change, and nothing in the code asks again, so that a command admitted under
one contract may run under the next: no property says otherwise. `HostEnds` is
`completed`, which calls the click finished if the command was admitted, run or
not.

### Gateway, IdentifyBudget, TokenRefresh and the code

Each keeps the clock as differences (`beatIn` is `next_tick - clock()`), so time
is unbounded and the state space finite.

`Gateway` is one shard. `Lost` is the way every retried error of `_connect`
leaves the loop, `Fresh` what `_fresh` adds when the session cannot be resumed:
the cursor is forgotten and `on_fresh` announces the gap. `reading` is the read
task's `accept`, `intake` the queue of the shared intake worker: a cancelled
accept is still committed, and the cursor does not know. `slow` is a phase in
which a step may take longer than a tick; without it work is done before the
clock moves. QQ numbers events per session, replays after a Resume, and may
close, refuse, forget or fall silent. Left out: the length of back-offs, the
gateway's URL, intents, compression.

`IdentifyBudget` is the lock, the numbers of `session_start_limit` and the start
times of the last window. QQ's answer to `/gateway/bot` may be any number in the
middle of a period, since it lags. `promised` and `spent` are what QQ announced
at the start of a period and what was sent since.

In `TokenRefresh` a request waits for the refresh task it found, keeps the token
it was given, and answers one 401 with a refresh unless the token has changed
since. `close` cancels, waits a second and goes on; `late` and `survives` are
what did not end by then.

### EventBus and NetworkPeers and the code

Both publish without waiting. `EventBus!Publish` goes over the subscriptions as
they were when it began; a full queue or byte budget ends a subscription with a
gap. In `NetworkPeers` a peer's `hand` is the frame its writer took and still
counts. Every peer a client closed is closed at once; one that failed stays
listed while its socket closes. Frames are numbers, replies are 0.

### NativeStream and StreamFence and the code

`NativeStream` is the task of one logical operation: `frame` is before
`before_send`, `wire` waits for QQ, `pause` before the single retry of a busy
fragment, `ask` waits for the generator. The fragment's own row in the extension
ledger is seen through what `execute` returns or raises. `StreamFence` is
`reserve_native` for fragments, each an operation of its own: which rows of the
source allow which index under which stream id, also after eviction.

### MediaUpload, PanelSync, JoinFlags and the code

`MediaUpload`: a blob belongs to the upload that loads it; `held` are the
prepared blobs the service closes itself. A part is `lost` when nobody knows
whether it arrived.

`PanelSync` is one robot and scene. `row` is what is stored, `val` the copy the
holder of the robot's lock works on; `_save` keeps the stored `enabled`. `Sync`,
`List`, `Detail`, `ReadBack`, `Send` are the awaits of `sync`; the ledger may
lose a settled row with age (`Ages`), somebody else may change the panel
(`Outsider`). A panel is named by the operation that created it, as its remark
is. `StoreFails` says whether saving a row may fail; `services` runs without it,
`panel_store` with it.

`JoinFlags` has one request; a flag is the number of its issue. `observe_request`
deletes by age before it looks: a pending or retryable row once its flag has
expired, a settled one (`succeeded`, `observed_approved`) a day after it was
seen (`management.py:259-261`). It deletes the rows of every request, so another
request's observation may do it too (`ObserveOther`). `age` is 1 once the flag
has expired and 2 after the day. `lapsed` is the history of flags whose settled
row went this way: from then on the request may be listed and answered anew,
and `AnsweredOnce` speaks of the other flags. It adds that only an answer QQ
confirmed, or an applicant it let in, ever lapses: a row of an answer of unknown
fate stays `attempted` and is never deleted.

### Roster, SettingsDraft, Onboarding and the code

`Roster` has one group and its true membership. Member events, messages and
queries write `row` by second and sequence; a roster read takes pages while
events come in and is compared with the revision at its start. Times are
seconds, QQ's clock and the adapter's agree to the second, and nobody comes and
goes twice within one second (QQ's event times are whole seconds and the code
has nothing else to order them by when the receiver changed). `StoreFails` as
above, with run `roster_gap`.

`SettingsDraft`: each request is one transaction, so an operation is one action;
`web_api` checks the revision before and `mutate` within it. `Apply` includes
the update of every running instance in the same request.

`Onboarding`: times are in units of the lease, so a binding whose deadline has
passed by one unit stands for the minute after which it is dropped. A commit
holds the lock of the connections and awaits nothing while it does, so it is one
step; the reload that follows is not modelled.


## 3. Runs

All bounds are CONSTANTS named `Max...`; capacities (`QueueCap`, `SlotCap`,
`OpCap`, ...) are the code's own limits made small. Times are with two workers.

Several parts share no state but deserve a run. `ClicksMC`, `LiveMC`,
`TransportMC` and `ServicesMC` hold several instances each: a variable (`about`,
`part`, `service`) picks one in the initial state and only that one moves, so
the run is the union of the instances' state spaces and no product. A property
of such a run says for each instance what it must satisfy. Each instance has its
own variables, so that a theorem about one needs to know of the others only that
they stand still. `SendLedgerMC` is the exception: its two instances take turns
at the same variables.

What the proofs speak of is a CONSTANT of the MC module and gets its value in
the cfg: `LiveMC` the bindings' constants (`Bindings`, `Connections`, `Plain`,
`Life`, ...), `ServicesMC` those of all its services. The assumptions on them
(`BindAssumption`, `BusAssumption`, `PeersAssumption`, `MediaAssumption`,
`StreamAssumption`, `FenceAssumption`, `SettingsAssumption`, `PanelAssumption`,
`RosterAssumption`) are evaluated by TLC in the same runs.

| Run | Question | Bounds and why they suffice |
| --- | --- | --- |
| `inbox_safety` (4 min, 1.0 M states) | is anything lost, doubled, reordered, hidden or wrongly discarded? | two envelopes of one message (interchangeable, `MCSymmetry`), a second message, an interaction and an unknown type; capacities of one, one tombstone so that receipts are reused, ticks past the dedup window, a fault and a restart, so that a step can be cut and met again by another generation |
| `ledger_reply` (3 min, 1.4 M) | do a reply and a native send to one message stay truthful and unique, and does forgetting history ever allow a second copy? does an answer to a press respect the event's window? | `OpCap = 1`, `Day = 1`, three calls over two operations: the second evicts the first, the third meets what is left; clock forwards and back, a storage fault. Beside it an event source, with unusable receipts |
| `ledger_session` (3 min, 0.6 M) | is a session send with a fallback converted once, reported honestly across a crash, and does every send end? | a session send and a native send, one restart anywhere; both mode changes and a 401 within one behaviour |
| `clicks` (2 min, 1.0 M) | is a click answered once, does a button act once and after its acknowledgement, and is the table true? | `reply`: two ids for one click, one task and one row for acknowledgements, so that a click comes again after its row is gone; `press`: two presses of one execute ticket, a change of settings at any point, also between a command's admission and its handler; `menu`: an acknowledgement alone, with every way to fail; a restart anywhere in each |
| `live` (3 min, 0.2 M) | does everything that was begun end? | `inbox`: an interaction, a READY and a chat, each of which another waits for (the interaction jumps the lane, READY holds the chat back), slots and intake of one, a fault that leaves a step half done, and the gateway, the message store and the extension table unavailable at any time and for any time; no restart, which would not fit into the run's time: what a generation finds at its start, rows half done and rows waiting, the fault leaves too; `clicks`: two presses of a confirmation with room for one in intake and business; `binding`: two bindings of one connection, one failure, one host edit |
| `transport` (2 min, 0.4 M) | does a shard skip no event and come back? is the Identify budget kept and does every shard get in? is a token spared and no write repeated? | three sessions of two events and two faults (any of close, refusal, silence, slowness), so that a fault hits the recovery from another; two shards with two Identifies, one at a time, two faults; three requests for two slots, three tokens, two faults: a late 401 meets the second token |
| `services` (3 min, 1.8 M) | see section 1, last column: ten services, each by itself | two actors of each kind competing for capacities of one or two, one to three faults, a crash where state survives one; two flags and the day after which a fence is deleted; `MaxWrites = 2` writes of a panel, so that a create is followed by whatever may recreate it; two days of ledger time, so that retention ends |
| `inbox_unknown`, `ledger_receipt`, `click_fault`, `panel_store`, `roster_gap` | disagreements, section 6 | smallest that shows it |

`LiveMC` watches one row, click or binding at a time (`watch`), which is the
same as quantifying over all of them: the two clicks and the two bindings are
mirror images, so one of each is enough.

`KeepsCustody` and `KeepsPromise` are refinements: the detailed module with the
mapping given at its end implements the abstract one.

`CHECK_DEADLOCK FALSE` everywhere: an idle adapter really stops, and the bounded
environment runs out of arrivals, calls and ticks.

### Fairness

`LiveMC!InboxFairness`: both consumers and the intake worker are tasks of the
event loop that wake at least every 0.25 s (`run` waits on `inbox.changed` with
that timeout), so weak fairness of each of their steps is what the loop gives,
as long as the step is possible. It is not while `shut` holds what it needs:
`ChatTakes` has `message_ready` as a conjunct, and weak fairness of a step that
is not enabled asks for nothing. `CoreStep`, the fair part of the core lane,
does not count on an interaction being quarantined. Host handlers and
acknowledgement workers end. QQ, the operator, the clock, reloads, faults,
crashes and `Turn` have none: nothing makes the gateway come back or a full
table empty. `EverythingEnds` therefore speaks of behaviours in which, from some
time on, what the watched row needs stays available (`<>[]Served`): for a row
that is no chat the tables, for a chat the gateway as well. A row that is no
chat is thus handled although the gateway never comes back, and whatever happened
before that time, the row is handled after it. Arrivals are bounded: with interactions arriving for
ever a left-over acknowledgement could wait for ever, and nothing here claims
otherwise.

`LiveMC!ClickFairness`: code that holds the loop runs on and a created task is
scheduled (`RunsOn`); an acknowledgement ends at its deadline (`AckExpires`,
`asyncio.timeout_at` in `acknowledge`). Handlers of plugins, the sending of a
confirmation card, QQ and the host have no fairness.

`LiveMC!BindFairness`: every await of a binding's worker ends, since each
request has a timeout, and time passes.

`SendLedgerMC!OwnSpec`: `HTTPTransport.request` runs under
`asyncio.timeout(5 * timeout)`, before and on the wire. Only `GiveUp` and
`Uncertain`, the two ways that deadline ends, are weakly fair; QQ need never
answer.

`TransportMC!GatewayFairness`: tasks run, timers fire, time passes, a slow phase
ends, and QQ answers a login and a heartbeat on a socket that is not silent.
No fault is fair, and QQ need not send events. `TransportMC!BudgetFairness`:
`asyncio.Lock` wakes its waiters in the order they came, so a shard that may take
the lock again and again gets it, which is strong fairness of its steps; QQ
answers, time passes, and each period starts with at least one Identify.

## 4. Proofs

Every theorem holds for all values of the constants that meet the module's
named assumptions; a hypothesis beyond those is written in its `ASSUME`. Each
strengthening was model-checked before it was proved.

### The inbox (`Live_proofs`)

All nine properties of run `inbox_safety` are theorems, from `EventsAssumption`
and `BoundsAssumption`, whatever is unavailable when.

- `TypeCorrect`: `Spec => []TypeOK`.
- `NeverLost`: `Spec => []NothingLost`. `NothingLost` says which log entries
  have a live row, but a step could break it where two live rows shared an
  arrival number, or where a live row disagreed with its entry. The inductive
  invariant therefore adds `LogAgrees`: arrival numbers of live rows are
  distinct and within the log, a live row's event is its entry's, and the entry
  is held. Each action is one step of the proof; pruning, settling and
  inserting are lemmas about the row table used by several of them.
- `EffectsFirst`: `Spec => []EffectBeforeSettling`. A row is settled long after
  its effect, often by a later step or the next generation. `HostInv` says what
  a half-done step leaves behind: a row the host queue took without an
  acknowledgement is the oldest the core has handed on, so nothing but its own
  confirmation settles it (`FenceHolds`, which needs `CoreInOrder`: the core
  lane hands chats on in the order of their receipts), and a notice that is done
  in the core lane had its effect although it still waits (`LeftOversTaken`).
- `OnceAtTheHost`: `Spec => []HostedOnce`, with `GivenIsKnown`: whatever this
  generation gave to the host has its delivery marker or is fenced until it has,
  and the step looks at both before it hands a message over.
- `SeenBeforeDiscarded` (`Spec => DiscardsWhatWasSeen`) and `DuplicatesAreTold`
  (`Spec => DedupWindow`): action properties, from `TypeOK` and `LogAgrees`.
- `BusIsSound` (`Spec => []BusSound`) and `HostGetsInOrder` (`Spec =>
  HostOrder`). Receipts are reused, so neither order follows from the receipts
  alone. `BusInv` adds what relates them: a reused receipt is still larger than
  that of every older envelope (`ArrivalOrder`), the fence of published receipts
  names rows that still wait and the bus has seen (`FenceTold`), all of them
  that core has not settled (`SeenIsFenced`), only interactions were published
  ahead of a row still to come (`NoneOvertaken`), and `recovered_through` tells
  the envelopes of earlier generations (`OldKnown`).
- `CustodyIsKept`: `Spec => KeepsCustody`, the refinement of `EnvelopeCustody`.
  A step takes one envelope, confirms one that is known, finishes or shelves one
  row, or removes what the operator selected, one lemma per kind; every other
  step, pruning and a crash among them, leaves the book of envelopes as it is.

### The message ledger (`SendLedger_proofs`)

`Inv == RowsInv /\ SeqsInv /\ SourcesInv`. `RowsInv` says what operations owe to
the requests on the wire, `SeqsInv` what the sequence claims and bindings owe to
the rows, although retention drops the three tables at different times,
`SourcesInv` what is remembered of a source QQ refused, or whose window is over.

- `TypeCorrect`, and `CoreLanesSound`: without any hypothesis the core lanes
  keep truth, at-most-once and unique sequences, also when QQ confirms native
  sends with a `ref_idx` the code refuses.
- `LedgerIsTrue`, `SequencesUnique`, `SentAtMostOnce`: the three invariants of
  run `ledger_reply` for every lane. Hypothesis: `~BadReceipts`, that is, QQ's
  receipts parse; `ledger_receipt` shows that they fail otherwise.
- `DeadStaysDeadAlone`, `DoubtStaysAlone`, `PromiseKeptAlone`: the action
  properties and the refinement of `AtMostOnceSend`, for the configuration with
  one instance (`Parts = {"own"}`), where the composition of the runs is
  `SendLedger!Spec` itself. The general statements are `DeadSourcesStayDead`,
  `DoubtRemains`, `PromiseKept`. The promise is about one retention period:
  `MaxClock < Day` says that the clock stays within it, as after a day a
  pruned id may be used again by design.

- `SessionsAreSound`: the invariant of run `ledger_session`, with the fallback
  between passive and active sends. `ModesInv` adds to `Inv` that within one life
  of an operation a reply may only stop quoting its source, a session send only
  begin to, and a native send does neither (`MayFollow`), and that every request
  is past or no younger than its row (`Dated`). Hypotheses: `~BadReceipts`, and
  room in the history for every operation (`Cardinality(Ops) <= OpCap`), as in
  the run. Without room a finished row can be dropped within the second of its
  last request; the id's next life then starts at the same clock value, and
  `OfLife`, which tells lives by the clock, takes the two for one. In the code
  an id the caller does not give is a fresh UUID (`src/v2/messaging/outbound.py:276`),
  which has one life.

The refinement proof found an edge `AtMostOnceSend` lacked: when the history is
full, the transaction that settles an operation as failed may drop its row at
once, so that `pending` goes to `none` in one step, as long as no copy exists.

### The extension ledger (`ExtensionLedger_proofs`)

- `LedgerKeepsFaith`: `Spec => [](TypeOK /\ LedgerTruth /\ WriteOnce)`, from
  `LanesAssumption` and `LimitsAssumption`. Neither invariant is inductive: what
  forbids a second write is the row, and rows are pruned. `Fenced`: while a
  write is under way, every request of its id that may still reach QQ is its own
  or was sent a day before this life of the id began. `Remembered`: a request
  that may have reached QQ is a day old or has a row at least as young, so an id
  whose row `prune` took is free. A row is truthful when its claim is borne out
  by the requests (`Claims`), which no later decision of QQ can take back
  (`ClaimsKept`). `Pruning` says what `prune` may do to any rows and `Closing`
  covers every step that ends writes. The part `service = "ledger"` of
  `WritesOnce` in run `services` checks the same three on a small instance.
- `PromiseKept`: the refinement of `AtMostOnceSend`. Hypothesis: `MaxClock <
  Day`, the period the promise is about. `EvictedSettled` is the strengthening:
  when only the history mark of a row is left, QQ has accepted one of its
  requests or can accept none any more. Like the message ledger's, the proof needs an edge that no
  run had reached: a write that ends as failed while the history is full is
  evicted by the same transaction, so that its caller is told `none`.

### The transport (`Transport_proofs`)

The theorems are about `TransportSpec`, in which the three parts interleave,
from `TransportAssumption` and `BudgetAssumption`.

- `WithinBudget` (`[]BudgetKept`): `BudgetInv` counts the handshake the lock's
  holder has admitted but not sent (`Reserved`), so that spent, reserved and
  remaining never exceed what was promised, and bounds the recorded starts of
  the last window by what the sends of that window were admitted under
  (`Rates`). For this `Fresh` is the `popleft` loop it models, a prefix that is
  dropped, and `WithinLimits` counts the sends of the last window.
- `WritesOnceOnly` (`[]NoSecondCopy`) and `RefreshesAreSpared`
  (`SparesTokens`, which speaks of a new task, not of the slot it takes).
- `NoEventIsMissed` (`[]SessionSound`): `ShardInv` is what the cursor, the read
  task, the line from QQ and the intake agree on. The cursor is behind what the
  inbox has at every await, `LineOK` and `AttachedOK` say which numbers are
  still on their way, `EndsOK` what an ended session leaves, and `QuietInv`
  covers the times at which nothing may move.

### Clicks (`Interactions_proofs`, `Clicks_proofs`)

All five properties of run `clicks` are theorems. `Interactions_proofs` shows
them for `Interactions!Spec`, any clicks, tickets, intents and follow-up cards;
`Clicks_proofs` carries them to the specification the run checks, whose three
instances meet the assumptions of `Interactions` (`PressFits`, `MenuFits`).

- `ClicksAreSafe` and `ClicksStepSafely` need no bound on the clock. `ClickInv`
  relates four places that know where a click is: its row, the task that works
  on it, the caller of `reply_interaction` and the host queue. `Placed` says
  which combinations exist, `TasksFit` and `Awaited` that every write under way
  has somebody who waits for it and the other way round, `Confirmed` that
  whoever is past the acknowledgement has one on the wire that QQ accepted,
  `Redeemed` what each holder of a ticket may have started, and `Exclusive` that
  no two clicks hold one ticket. The ledger's part is the invariant of
  `ExtensionLedger_proofs`, used through an instance: an acknowledgement, its
  failure, a crash and every fault of SQLite are steps of that module, so what
  they do to rows and requests is not proved again. `FollowUsed` needs that each
  confirmation card gets a ticket of its own, which `confirm` does by drawing a
  fresh token (`ClicksAssumption`).
- `ClicksAreRecorded` and the two properties built on it assume
  `MaxClock < Day`, as `DayInv` does: both tables forget after a day. A click
  that left traces then has its row or is past its window (`Traced`), all its
  acknowledgements went under one id (`OneId`), and the row is true already in
  the steps between an outcome and its recording (`RowTrue`, `NotYet`). The
  hypothesis matters for `RecordTruth`: without it TLC finds a callback that is
  not answered for a day, its acknowledgement's row pruned, and a reload that
  records the click as `not_sent`. Whether `AckOnce` needs it is open.
- `ClicksKeepPromise`: under the same hypothesis the acknowledgements of the
  dispatcher implement `AtMostOnceSend`. The dispatcher's steps on the ledger
  are steps of `ExtensionLedger`, so this is its `PromiseKept` again. Run `live`
  checks the same property on the clicks of its own.

### Bindings (`Live_proofs`)

- `BindingsAreSound`: `LiveSpec => []BindingSound`, for every set of bindings
  and connections and every limit, from `BindAssumption`. The step that could
  break it is a worker that wakes up after its binding has ended. `Standing`
  says that there is none that may still write: a binding is under way exactly
  as long as its worker waits uncancelled, and one that is over holds no secret.
  With it `BindInv` has that a binding writes at most once, exactly when it is
  committed, and that a connection has one binding under way (`OneLease`).

### The services (`Flow_proofs`, `Services_proofs`)

Every property of run `services` is a theorem about `ServicesSpec`. Each is the
conjunction of what single services guarantee, from the assumptions of
`ServicesMC` and, for the ledger, those of `ExtensionLedger`. Another service's
step leaves a service's variables alone, so each has an invariant of its own.

- `EveryByteIsCounted` (`BytesCounted`). A sum of bytes is `Totals!Total`, the
  number of cells below the graph of the sizes; how it changes when one value
  changes is then a fact about finite sets (`TotalSplits`, `TotalMoves`) and needs
  no induction over a sequence. `PoolInv` says who holds a blob: a send between
  its load and its end, until the service is shut (`OpenTrue`), and which puts
  hold a transfer slot (`SlotsTrue`). `NetInv` counts a peer's queue and the frame
  its writer has in hand (`NetCounted`) and says what a connection has at each
  stage of its life, so that whichever of writer, failure, close and revoke comes
  first gives the bytes back and the others find none (`NetStages`). `BusCounted`
  says that the budget is the bytes of the events in queues.
- `NothingIsMissed` (`NoHoles`). `Fed`: what an open subscription was given and
  what is in its queue are together, in order, all that was published for it
  since it began; one that ended was given a beginning of that. `Received` says
  it of a peer, whose last event, frame in hand and queue follow one another
  (`Pending`).
- `DraftsAreNotLost` (`NothingOverwritten`), from `SettingsInv`: no page shows a
  revision newer than the store's (`PagesTrue`) and a revision names one draft
  (`HistoryTrue`), so the revision a save carries shows whether its page has seen
  what it replaces. `RetainedNewest` says what trimming leaves of the versions.
- `OperatorIsObeyed` (`OperatorObeyed`). Panels: a row that is enabled is one
  the operator wants enabled. A synchronization saves much later what it read
  before; `PanelHeld` says that only the switch may have moved meanwhile, which
  `_save` keeps as stored. The end of a plugin's own write brings back the switch
  it found, and `SwitchTrue` that it does so only if the operator's version of it
  (`cv`) is still the one it found. Settings (`CopiesTrue`, `HistoryTrue`):
  versions restore what was written, and running instances and bindings use what
  is applied.
- `NothingIsWrittenTwice` (`WritesOnce`): the ledger by `LedgerKeepsFaith`,
  which is about the module `ServicesMC` extends; parts and files of an upload by
  `MediaInv`, whose `PartTrue` follows a part from the pool through the worker
  that carries it to QQ and whose `OnceAsked` says who may begin; panels by
  `PanelInv`: the only panel at QQ is the one the row names, or the one its
  pending create may have made (`PanelKnown`).
  Panels are those of an adapter whose store can save (`StoreFails` is `FALSE`;
  run `panel_store` shows what happens otherwise).
- `JoinIsAnsweredOnce` (`AnswersOnce`). `OnlyTheRow`: while its fence stands, an
  answer QQ may have taken is under the flag the row has, and neither the row nor
  the ledger offers that flag again. `RowTells` says what is known when a row is
  settled, which is what lets only known answers lapse after their day, and
  `OneAnswers` that a flag is in one caller's hands.
- `StreamsAreSound` (`StreamSound`). `StreamInv`: what QQ took is the fragments
  before the current one, and the current one at most once, also across a retry,
  a change of mode, a new token and a crash; a fragment of unknown fate is the
  last. `FenceInv`: settled rows lose their result with time, so what the ledger
  remembers of a stream may have holes. `LastKnown` says that the last fragment
  of each stream has a confirmed row or is the one whose fate is unknown, and
  `OneOpen` that one stream and one row are open at a time, and belong together.
- `RosterIsTrue` (`RosterTrue`), for `StoreFails = FALSE` (`roster_gap` shows
  that it fails otherwise). `GroupInv` says what every reader may have seen. A
  row tells the truth as of its second or waits for an event (`RowStands`,
  `RowTold`). `ReadingTrue` splits the members a running read has seen from
  those still to come: a change among the former raises the revision when it is
  handled, or it is still on its way. `RosterRead` says the same of the stored
  roster, and `ServedTrue` that one that may be served was read within one
  connection without a gap. `RosterAssumption` numbers the connections.
  The proof also shows what the model leaves out: since nobody comes and goes
  twice within one second, two member events of one second never disagree (a
  message and an event may), and the branch of `Believe` that orders facts of
  one connection by their sequence number (`Comparable`) never decides.

Proving these also found the model ambiguous in five places: `CASE` arms that
overlap, of which TLC takes the first and TLA+ may take any, in
`PanelSync!Adopted`, `NativeStream!Verdict`, `Onboarding!Check`,
`SendLedger!ReplyMode` and `Interactions!Reload`. They are conditionals now, in
the order of the code's branches.

### What stays with TLC

- Liveness (`SendsEnd`, `EverythingEnds`, `CatchesUp`, `ShardsGetIn`) and
  `ENABLED` are out of the prover's reach.
- The five disagreements of section 6 are runs, not theorems.

## 5. What is not modelled

`PROJECT.json` lists every component. Left out on purpose: parsing, formatting
and message composition, typing notifications, profile fields and display
names, the SDK's one-method-per-endpoint surface, calls of OneBot clients over
plain HTTP, the control page's request handlers and the Vue dashboard.

Assumptions the models make about the world, beside the bounds: QQ's clock and
the adapter's agree to the second where both order facts (`Roster`,
`SendLedger`); QQ numbers the events of a session and replays them on Resume;
a socket the client has closed is closed at once by `ws.close`; SQLite commits a
transaction wholly or not at all.

The two ledgers share `sdk_bindings` and `tool_ops`, which keep an operation id
to one lane. Each is modelled with the ids of its own lane, so the hazard at
`messaging/store.py:520` has no property yet.

## 6. Disagreements found while modelling

1. `inbox_unknown`: an event of an unknown type is core-done in one transaction
   and retained in the next. When the second does not happen, the left-over
   path acknowledges it and its payload is erased, against
   `src/tests/test_messaging_delivery.py:88` and
   `src/docs/development/architecture.md:36`.
2. `ledger_receipt`: `send_native` treats an unusable `ref_idx` of a confirmed
   answer as `not_sent` and frees its sequence; `send` guards the same line. The
   test at `src/tests/test_sdk_native_writes.py:321` calls the reuse of a
   not-sent sequence a safe retry.
3. `click_fault`: when the ledger cannot store the end of an acknowledgement,
   `acknowledge` copies `in_flight` from the ledger into `extension_events`
   (`src/v2/extensions/interactions.py:119`). The store protects `pending` and
   `unknown` rows only, and its recovery turns only `pending` into `unknown`, so
   the row of an acknowledgement nobody knows the outcome of may be deleted.
4. `panel_store`: when the row of a confirmed create cannot be saved
   (`src/v2/panels.py:587`), it stays `writing`. A later read-back that fails
   with phase `not_sent` or `rejected` is taken for a failure of the write
   (line 598), the pending write is dropped, and the panel is created again,
   against the module's docstring "unknown writes reconcile without recreation."
5. `roster_gap`: a member event that cannot be stored while a group's first
   roster is read finds no row of `scopes` to mark
   (`src/v2/profiles/store.py:256`), and the roster is then served as complete
   and continuous, against the docstring of `cached_roster`
   (`src/v2/profiles/service.py:226`).

## 7. Plan

Modules, most important first:

1. `CallbackTickets`: issue, publish, revoke, consume and the bounds of the two
   ticket tables, which `Interactions` keeps small; `OpIdFence`: both ledgers
   over `sdk_bindings`, with tool claims.
2. Typing notifications and native reads on the ledger; session sources.
3. Profile fields with their own ordering; other scenes' rosters.
4. The start and shutdown order of the adapter over the stores.

Theorems: `SessionsAreSound` without room in the history, with a name of its own
for each life of an id; `AckOnce` without `MaxClock < Day`. Properties: the order
of facts within one second in `Roster`, with several connections that deliver
one group's events out of order.
