---------------------------- MODULE Interactions ----------------------------
(***************************************************************************)
(* Clicks on buttons and menus (ExtensionDispatcher, table                  *)
(* extension_events): intake with deduplication, the acknowledgement QQ     *)
(* wants within seconds, and after it the business of the click: a command  *)
(* handed to the host, a confirmation card, or a callback of a plugin, each *)
(* paid for with a single-use ticket (TicketStore, CallbackTickets).  The   *)
(* acknowledgement goes through ExtensionLedger.                            *)
(*                                                                         *)
(* Everything runs on one event loop: code between two awaits is not        *)
(* interrupted by other code, but it is several transactions and a crash    *)
(* may come between any two.  loop names the click whose code is inside     *)
(* such a stretch; then only its next transaction, QQ, time and a crash may *)
(* happen.                                                                 *)
(***************************************************************************)
EXTENDS Integers, FiniteSets, Sequences

CONSTANTS
    Clicks, NoClick,        \* interactions by d.id
    Kind,                   \* Clicks -> {"button", "menu", "other"}
    Tickets,
    Token,                  \* Clicks -> ticket its button carries, or NoTicket
    Intent,                 \* Tickets -> {"execute", "confirm", "callback"}
    Follow, NoTicket,       \* Tickets -> ticket on the confirmation card
    Acks, NoAck,            \* operation ids of acknowledgements
    Target,                 \* Acks -> the click they acknowledge
    AckDeadline, Window,    \* ticks: 3 s for the core's ACK, 300 s for others
    Ttl,                    \* ticks a ticket lives
    IntakeCap, BusinessCap, EventCap,
    OpCap, AckCap, AckTaskCap, Day,
    MaxEpoch, MaxClock, MaxCalls, MaxFaults, MaxRestarts   \* bounds of the model

ASSUME ClicksAssumption ==
    /\ NoClick \notin Clicks /\ NoTicket \notin Tickets /\ NoAck \notin Acks
    /\ Kind \in [Clicks -> {"button", "menu", "other"}]
    /\ Token \in [Clicks -> Tickets \cup {NoTicket}] /\ Target \in [Acks -> Clicks]
    /\ Intent \in [Tickets -> {"execute", "confirm", "callback"}]
    /\ Follow \in [Tickets -> Tickets \cup {NoTicket}]
    /\ \A k \in Clicks : Kind[k] = "button" <=> Token[k] # NoTicket
    \* every confirmation card gets a ticket of its own
    /\ \A t, u \in Tickets : Follow[t] = Follow[u] /\ Follow[t] # NoTicket => t = u
    \* the core acknowledges a button or a menu under one id made from d.id
    /\ \A k \in Clicks : Kind[k] # "other" => \E a \in Acks : Target[a] = k
    /\ \A a, b \in Acks : Target[a] = Target[b] /\ Kind[Target[a]] # "other" => a = b
ASSUME BoundsAssumption ==
    /\ AckDeadline \in Nat \ {0} /\ Window \in Nat \ {0} /\ Ttl \in Nat \ {0}
    /\ AckDeadline <= Window /\ Window <= Day
    /\ IntakeCap \in Nat \ {0} /\ BusinessCap \in Nat \ {0} /\ EventCap \in Nat \ {0}
    /\ OpCap \in Nat \ {0} /\ AckCap \in Nat \ {0} /\ AckTaskCap \in Nat \ {0}
    /\ Day \in Nat /\ MaxEpoch \in Nat /\ MaxClock \in Nat /\ MaxCalls \in Nat
    /\ MaxFaults \in Nat /\ MaxRestarts \in Nat

VARIABLES
    \* the ledger, as in ExtensionLedger
    clock, water, ops, tasks, storageFailed, wire, calls, faults, restarts,
    \* durable
    events,     \* table extension_events
    tickets,    \* tables keyboard_tickets and callback_tickets
    \* in memory
    procs,      \* dispatcher tasks, click -> where process is
    replies,    \* calls of reply_interaction under way, click -> where
    loop,       \* the click whose code holds the event loop, or NoClick
    hosted,     \* commands the host has, click -> "queued", "admitted", "running"
    epoch,      \* generation and applied settings a ticket is bound to
    \* history
    sent,       \* click -> when it was made, -1 before
    runs        \* click -> how often its command or handler was started

L == INSTANCE ExtensionLedger WITH Ops <- Acks, TaskCap <- 1

ledger  == <<clock, water, ops, tasks, storageFailed, wire, calls, faults, restarts>>
inQueue == <<procs, replies, loop>>
vars == <<ledger, events, tickets, inQueue, hosted, epoch, sent, runs>>

Restriction(f, S) == [x \in S |-> f[x]]
Extend(f, x, v) == [y \in DOMAIN f \cup {x} |-> IF y = x THEN v ELSE f[y]]
Now == L!Now

Managed(k) == Kind[k] # "other"
AckOp(k) == CHOOSE a \in Acks : Target[a] = k
Proc(k)  == IF k \in DOMAIN procs THEN procs[k] ELSE "none"
Reply(k) == IF k \in DOMAIN replies THEN replies[k] ELSE "none"

Intake   == {k \in DOMAIN procs : procs[k] \in {"new", "ack", "acked", "failed"}}
Business == {k \in DOMAIN procs : procs[k] \in {"click", "spent", "marked", "gate", "handler",
                                                  "confirm"}}

\* ExtensionDispatcher.update, which finds no row after the row was deleted.
Update(k, ack, business) ==
    /\ events' = IF k \notin DOMAIN events THEN events
                 ELSE [events EXCEPT ![k].ack = IF ack = "same" THEN @ ELSE ack,
                                     ![k].business = IF business = "same" THEN @ ELSE business,
                                     ![k].updated = Now]
Transaction == water' = Now /\ UNCHANGED <<clock, ops, tasks, storageFailed, wire,
                                           calls, faults, restarts>>
EndProc(k)  == procs' = Restriction(procs, DOMAIN procs \ {k})
Moves(k, at) == procs' = [procs EXCEPT ![k] = at]

-----------------------------------------------------------------------------
Init ==
    /\ L!Init
    /\ events = << >> /\ tickets = << >>
    /\ procs = << >> /\ replies = << >> /\ loop = NoClick /\ hosted = << >>
    /\ epoch = 0 /\ sent = [k \in Clicks |-> -1] /\ runs = [k \in Clicks |-> 0]

\* A card with the ticket is sent; a confirmation's ticket is not sent alone.
Issue(t) ==
    /\ loop = NoClick /\ t \notin DOMAIN tickets /\ \A u \in Tickets : Follow[u] # t
    /\ tickets' = Extend(tickets, t, [used |-> FALSE, expires |-> Now + Ttl, epoch |-> epoch])
    /\ Transaction
    /\ UNCHANGED <<events, inQueue, hosted, epoch, sent, runs>>

\* Somebody clicks; from here on the inbox may offer the event at any time
\* and again.  Who clicks a card has seen it.
Click(k) ==
    /\ sent[k] < 0 /\ sent' = [sent EXCEPT ![k] = clock]
    /\ Kind[k] = "button" => Token[k] \in DOMAIN tickets
    /\ UNCHANGED <<ledger, events, tickets, inQueue, hosted, epoch, runs>>

-----------------------------------------------------------------------------
(* accept                                                                  *)

\* [Mutated] what is uncertain makes room like the rest.
SettledOrUnknown(r) == r.ack # "pending" /\ r.business \notin {"pending", "queued", "admitted"}
Settled(r) == /\ r.ack \notin {"pending", "unknown"}
              /\ r.business \notin {"pending", "queued", "admitted", "unknown"}

Least(n) == IF n > 0 THEN n ELSE 0

\* The table after the day's prune and, when it is full, after room was made:
\* the oldest settled rows go, but none whose click could still be answered.
MadeRoom ==
    LET kept == Restriction(events, {k \in DOMAIN events :
                    ~(events[k].updated <= Now - Day /\ Settled(events[k]))})
        over == {k \in DOMAIN kept : Settled(kept[k]) /\ sent[k] <= Now - Window}
        need == Least(Cardinality(DOMAIN kept) - EventCap + 1)
        size == IF need < Cardinality(over) THEN need ELSE Cardinality(over)
    IN  {Restriction(kept, DOMAIN kept \ T) : T \in
            {T \in SUBSET over : /\ Cardinality(T) = size
                                 /\ \A x \in T, y \in over \ T : sent[x] <= sent[y]}}

Timely(k) == Managed(k) => sent[k] + AckDeadline > Now

\* A known click is answered at once and changes nothing; a late one is
\* refused; a full intake or table leaves the event to the inbox.
Accept(k) ==
    /\ loop = NoClick /\ sent[k] >= 0 /\ k \notin DOMAIN events
    /\ Timely(k)
    /\ Cardinality(Intake) < IntakeCap
    /\ \E e \in MadeRoom :
          /\ Cardinality(DOMAIN e) < EventCap
          /\ events' = Extend(e, k, [ack |-> IF Managed(k) THEN "pending" ELSE "not_required",
                                     business |-> "pending", op |-> NoAck, updated |-> Now])
    /\ procs' = Extend(procs, k, "new")
    /\ Transaction
    /\ UNCHANGED <<tickets, replies, loop, hosted, epoch, sent, runs>>

\* process for what needs no acknowledgement, and for a menu after it.
Notice(k) ==
    /\ \/ loop = NoClick /\ Proc(k) = "new" /\ Kind[k] = "other"
       \/ Proc(k) = "click" /\ Kind[k] = "menu"
    /\ Update(k, "same", "typed_notice") /\ Transaction
    /\ EndProc(k) /\ loop' = NoClick
    /\ UNCHANGED <<tickets, replies, hosted, epoch, sent, runs>>

-----------------------------------------------------------------------------
(* acknowledge                                                             *)

InTime(k) == Now < sent[k] + IF Managed(k) THEN AckDeadline ELSE Window

\* begin, up to the wait for a slot; without a task the outcome is recorded.
StartAck(k) ==
    /\ loop = NoClick /\ Proc(k) = "new" /\ Managed(k) /\ InTime(k)
    /\ L!Begin(AckOp(k)) \/ L!Refused(AckOp(k))
    /\ IF L!Task(AckOp(k))' = "ready" THEN Moves(k, "ack") /\ UNCHANGED loop
                                      ELSE Moves(k, "failed") /\ loop' = k
    /\ UNCHANGED <<events, tickets, replies, hosted, epoch, sent, runs>>

AckTooLate(k) ==
    /\ loop = NoClick /\ Proc(k) = "new" /\ Managed(k) /\ ~InTime(k)
    /\ Update(k, "not_sent", "not_executed") /\ Transaction
    /\ EndProc(k)
    /\ UNCHANGED <<tickets, replies, loop, hosted, epoch, sent, runs>>

\* before_send: the original deadline, again after the wait and after a 401.
SendAck(op) ==
    /\ loop = NoClick /\ InTime(Target[op]) /\ L!Submit(op)
    /\ UNCHANGED <<events, tickets, inQueue, hosted, epoch, sent, runs>>

\* A write ended: the code of the waiting click runs on.
Continue(op, at) ==
    LET k == Target[op]
    IN  /\ loop = NoClick /\ loop' = k
        /\ IF Managed(k) THEN procs' = [procs EXCEPT ![k] = at] /\ UNCHANGED replies
                         ELSE replies' = [replies EXCEPT ![k] = at] /\ UNCHANGED procs
        /\ UNCHANGED <<events, tickets, hosted, epoch, sent, runs>>

AckConfirmed(op) == L!Confirmed(op) /\ Continue(op, "acked")
\* The deadline, and every answer that does not confirm.
AckFails(op) == L!Fails(op) /\ Continue(op, "failed")
\* ack_timeout, the part of it that needs no answer of QQ.
AckExpires(op) == (L!GiveUp(op) \/ L!Uncertain(op)) /\ Continue(op, "failed")
AckRetried(op) == /\ loop = NoClick /\ L!Unauthorized(op)
                  /\ UNCHANGED <<events, tickets, inQueue, hosted, epoch, sent, runs>>

\* What the ledger says of a write that was not confirmed.
Outcome(op) == IF op \in DOMAIN ops THEN ops[op].state ELSE "not_sent"

\* [Mutated] a click is carried out although its acknowledgement is uncertain.
AckFailedProceeds(k) ==
    /\ Proc(k) = "failed"
    /\ Update(k, Outcome(AckOp(k)), "same") /\ Moves(k, "click")
    /\ Transaction /\ UNCHANGED <<tickets, replies, loop, hosted, epoch, sent, runs>>
\* A click that was not acknowledged is not carried out.
AckFailed(k) ==
    /\ Proc(k) = "failed"
    /\ Update(k, Outcome(AckOp(k)), "not_executed") /\ EndProc(k) /\ loop' = NoClick
    /\ Transaction /\ UNCHANGED <<tickets, replies, hosted, epoch, sent, runs>>

\* The intake slot is given back here, before the business; a full business
\* pool drops the click, acknowledged.
AckSucceeded(k) ==
    /\ Proc(k) = "acked"
    /\ LET full == Kind[k] = "button" /\ Cardinality(Business) >= BusinessCap
       IN  /\ Update(k, "succeeded",
                     IF full THEN "not_executed"
                     ELSE IF Kind[k] = "button" /\ Intent[Token[k]] = "callback" THEN "admitted"
                     ELSE "same")
           /\ IF full THEN EndProc(k) /\ loop' = NoClick
                      ELSE Moves(k, "click") /\ UNCHANGED loop
    /\ Transaction /\ UNCHANGED <<tickets, replies, hosted, epoch, sent, runs>>

\* SQLite fails in update: the task dies and the row stays as it is.
UpdateFails(k) ==
    /\ loop = k /\ Proc(k) \in {"acked", "failed"}
    /\ faults < MaxFaults /\ faults' = faults + 1
    /\ EndProc(k) /\ loop' = NoClick
    /\ UNCHANGED <<clock, water, ops, tasks, storageFailed, wire, calls, restarts,
                   events, tickets, replies, hosted, epoch, sent, runs>>

-----------------------------------------------------------------------------
(* The business of a button.                                               *)

Valid(t) == /\ t \in DOMAIN tickets /\ ~tickets[t].used
            /\ tickets[t].expires > Now /\ tickets[t].epoch = epoch

Ends(k, business) == /\ Update(k, "same", business) /\ Transaction
                     /\ EndProc(k) /\ loop' = NoClick
                     /\ UNCHANGED <<tickets, replies, hosted, epoch, sent, runs>>

\* No such ticket, another actor or place, or a full host queue: the ticket
\* stays as it is.
RefuseClick(k) == Proc(k) = "click" /\ Kind[k] = "button" /\ Ends(k, "rejected")

\* [Mutated] the ticket is looked at and not consumed.
RedeemKeeps(k) ==
    LET t == Token[k]
    IN  /\ Proc(k) = "click" /\ Kind[k] = "button" /\ Valid(t)
        /\ UNCHANGED tickets
        /\ Moves(k, CASE Intent[t] = "execute" -> "spent" [] Intent[t] = "confirm" -> "confirm"
                      [] OTHER -> "gate")
        /\ loop' = IF Intent[t] = "execute" THEN k ELSE NoClick
        /\ Transaction /\ UNCHANGED <<events, replies, hosted, epoch, sent, runs>>
\* redeem.  A confirmation goes on to make its card, with a ticket of its
\* own, and waits for it to be sent; a callback waits at the host's gates.
Redeem(k) ==
    LET t == Token[k]
        spent == [tickets EXCEPT ![t].used = TRUE]
    IN  /\ Proc(k) = "click" /\ Kind[k] = "button" /\ Valid(t)
        /\ tickets' = IF Intent[t] = "confirm" /\ Follow[t] # NoTicket
                      THEN Extend(spent, Follow[t], [used |-> FALSE, expires |-> Now + Ttl,
                                                     epoch |-> epoch])
                      ELSE spent
        /\ Moves(k, CASE Intent[t] = "execute" -> "spent" [] Intent[t] = "confirm" -> "confirm"
                      [] OTHER -> "gate")
        /\ loop' = IF Intent[t] = "execute" THEN k ELSE NoClick
        /\ Transaction /\ UNCHANGED <<events, replies, hosted, epoch, sent, runs>>

\* The marker comes before the queue; an event that makes no source ends here.
MarkQueued(k) ==
    /\ Proc(k) = "spent"
    /\ \/ Ends(k, "rejected")
       \/ /\ Update(k, "same", "queued") /\ Moves(k, "marked") /\ Transaction
          /\ UNCHANGED <<tickets, replies, loop, hosted, epoch, sent, runs>>

\* commit_event; when it raises, "not_executed" is overwritten at once.
Commit(k) ==
    /\ Proc(k) = "marked"
    /\ \/ \E state \in {"rejected", "unknown"} : Ends(k, state)
       \/ /\ hosted' = Extend(hosted, k, "queued") /\ EndProc(k) /\ loop' = NoClick
          /\ UNCHANGED <<ledger, events, tickets, replies, epoch, sent, runs>>

\* CommandProjection.set_extra("activated_handlers"): the contract once more.
HostAdmits(k) ==
    /\ loop = NoClick /\ k \in DOMAIN hosted /\ hosted[k] = "queued"
    /\ tickets[Token[k]].epoch = epoch
    /\ hosted' = [hosted EXCEPT ![k] = "admitted"]
    /\ UNCHANGED <<ledger, events, tickets, inQueue, epoch, sent, runs>>

\* The host comes to the handler later, or never, and asks no more: by then
\* the settings may be others.
HostRuns(k) ==
    /\ loop = NoClick /\ k \in DOMAIN hosted /\ hosted[k] = "admitted"
    /\ hosted' = [hosted EXCEPT ![k] = "running"]
    /\ runs' = [runs EXCEPT ![k] = @ + 1]
    /\ UNCHANGED <<ledger, events, tickets, inQueue, epoch, sent>>

\* completed: the host is through with the event, or never admitted it.
HostEnds(k) ==
    /\ loop = NoClick /\ k \in DOMAIN hosted
    /\ Update(k, "same", IF hosted[k] = "queued" THEN "rejected" ELSE "finished_unconfirmed")
    /\ hosted' = Restriction(hosted, DOMAIN hosted \ {k})
    /\ Transaction /\ UNCHANGED <<tickets, inQueue, epoch, sent, runs>>

\* CallbackTickets.dispatch after the host's gates: the contract once more.
HandlerStarts(k) ==
    /\ loop = NoClick /\ Proc(k) = "gate" /\ tickets[Token[k]].epoch = epoch
    /\ runs' = [runs EXCEPT ![k] = @ + 1] /\ Moves(k, "handler")
    /\ UNCHANGED <<ledger, events, tickets, replies, loop, hosted, epoch, sent>>

\* The handler is through, or one of its sends raised; the card was sent or
\* not; a gate is shut.
Leaves(k) ==
    /\ loop = NoClick
    /\ \E state \in CASE Proc(k) = "gate" -> {"rejected", "unknown"}
                      [] Proc(k) = "handler" -> {"finished_unconfirmed", "rejected", "unknown"}
                      [] Proc(k) = "confirm" -> {"confirmation_sent", "rejected", "unknown"}
                      [] OTHER -> {} :
          Ends(k, state)

-----------------------------------------------------------------------------
(* reply_interaction                                                       *)

\* [Mutated] a failed reply may be tried under a new id.
ClaimableAgain(k) == events[k].ack \in {"not_required", "unknown"}
\* One claim per click, whatever became of it.
Claimable(k) == events[k].op = NoAck /\ events[k].ack = "not_required"

\* The claim, then begin up to the wait for a slot.
ReplyClaims(op) ==
    LET k == Target[op]
    IN  /\ loop = NoClick /\ ~Managed(k) /\ k \in DOMAIN events /\ k \notin DOMAIN replies
        /\ Claimable(k) /\ InTime(k)
        /\ events' = [events EXCEPT ![k].ack = "pending", ![k].op = op, ![k].updated = Now]
        /\ L!Begin(op) \/ L!Refused(op)
        /\ IF L!Task(op)' = "ready" THEN replies' = Extend(replies, k, "ack") /\ UNCHANGED loop
                                    ELSE replies' = Extend(replies, k, "failed") /\ loop' = k
        /\ UNCHANGED <<tickets, procs, hosted, epoch, sent, runs>>

\* The outcome of a reply; what is not one of the ledger's three ends is
\* uncertain.
ReplyEnds(k) ==
    /\ Reply(k) \in {"acked", "failed"}
    /\ Update(k, IF Reply(k) = "acked" THEN "succeeded"
                 ELSE LET s == Outcome(events[k].op)
                      IN  IF s \in {"unknown", "not_sent", "rejected"} THEN s ELSE "unknown", "same")
    /\ replies' = Restriction(replies, DOMAIN replies \ {k}) /\ loop' = NoClick
    /\ Transaction /\ UNCHANGED <<tickets, procs, hosted, epoch, sent, runs>>

\* Asked again, an uncertain reply is settled by the ledger: confirmed_ack.
ReplyRecovers(k) ==
    /\ loop = NoClick /\ k \in DOMAIN events /\ events[k].op # NoAck /\ ~storageFailed
    /\ events[k].ack \in {"pending", "unknown"}
    /\ Outcome(events[k].op) = "succeeded"
    /\ Update(k, "succeeded", "same") /\ Transaction
    /\ UNCHANGED <<tickets, inQueue, hosted, epoch, sent, runs>>

-----------------------------------------------------------------------------
(* Reload and crash.                                                       *)

Configure == /\ epoch < MaxEpoch /\ epoch' = epoch + 1
             /\ UNCHANGED <<ledger, events, tickets, inQueue, hosted, sent, runs>>

\* dispatcher.close: every task is cancelled and awaited; a callback of the
\* task puts down what the ledger says of its acknowledgement.
Reload ==
    /\ loop = NoClick /\ epoch < MaxEpoch /\ epoch' = epoch + 1
    /\ L!Reload
    /\ events' = [k \in DOMAIN events |->
          IF Proc(k) # "none" /\ Managed(k)
          THEN [events[k] EXCEPT !.ack = Outcome(AckOp(k))', !.business = "unknown", !.updated = Now]
          ELSE IF Reply(k) # "none"
          THEN [events[k] EXCEPT !.ack = "unknown", !.updated = Now]
          ELSE events[k]]
    /\ procs' = << >> /\ replies' = << >>
    /\ UNCHANGED <<tickets, loop, hosted, sent, runs>>

\* [Mutated] what was queued is taken for not carried out.
RecoveredQueued(r) ==
    [r EXCEPT !.ack = IF @ = "pending" THEN "unknown" ELSE @,
              !.business = IF @ \in {"pending", "queued", "admitted"} THEN "not_executed" ELSE @]
\* ExtensionStore.__init__
Recovered(r) ==
    [r EXCEPT !.ack = IF @ = "pending" THEN "unknown" ELSE @,
              !.business = IF @ \in {"pending", "queued", "admitted"} THEN "unknown" ELSE @]

Crash ==
    /\ L!Crash /\ epoch < MaxEpoch /\ epoch' = epoch + 1
    /\ events' = [k \in DOMAIN events |-> Recovered(events[k])]
    /\ procs' = << >> /\ replies' = << >> /\ loop' = NoClick /\ hosted' = << >>
    /\ UNCHANGED <<tickets, sent, runs>>

\* The world around the dispatcher.
Around == /\ L!SetClock \/ L!Prune \/ \E i \in DOMAIN wire : L!QQActs(i)
          /\ UNCHANGED <<events, tickets, inQueue, hosted, epoch, sent, runs>>

Next ==
    \/ Around \/ Configure \/ Reload \/ Crash
    \/ \E t \in Tickets : Issue(t)
    \/ \E op \in Acks : SendAck(op) \/ AckConfirmed(op) \/ AckFails(op) \/ AckRetried(op)
                        \/ ReplyClaims(op)
    \/ \E k \in Clicks :
          \/ Click(k) \/ Accept(k) \/ Notice(k) \/ StartAck(k) \/ AckTooLate(k)
          \/ AckFailed(k) \/ AckSucceeded(k) \/ UpdateFails(k)
          \/ RefuseClick(k) \/ Redeem(k) \/ MarkQueued(k) \/ Commit(k)
          \/ HostAdmits(k) \/ HostRuns(k) \/ HostEnds(k) \/ HandlerStarts(k) \/ Leaves(k)
          \/ ReplyEnds(k) \/ ReplyRecovers(k)

Spec == Init /\ [][Next]_vars

\* The code of a click that holds the loop runs on, tasks get their turn, and
\* an acknowledgement has a deadline.  Handlers, sends and the host may hang.
RunsOn(k) == \/ StartAck(k) \/ AckTooLate(k) \/ AckFailed(k) \/ AckSucceeded(k)
             \/ RefuseClick(k) \/ Redeem(k) \/ MarkQueued(k) \/ Commit(k)
             \/ Notice(k) \/ ReplyEnds(k)
FairSpec == Spec /\ \A k \in Clicks : WF_vars(RunsOn(k))
                 /\ \A op \in Acks : WF_vars(AckExpires(op))

-----------------------------------------------------------------------------
(* Properties.                                                             *)

AckStates == {"pending", "not_required", "succeeded", "rejected", "not_sent", "unknown",
              "in_flight", "reserved", "history_evicted"}
BusinessStates == {"pending", "queued", "admitted", "unknown", "typed_notice", "not_executed",
                   "rejected", "confirmation_sent", "finished_unconfirmed"}

\* Rows hold the states the code writes; a write under way has somebody
\* waiting for it, and the one who holds the loop is at a place between awaits.
TypeOK ==
    /\ L!TypeOK
    /\ DOMAIN events \subseteq Clicks
    /\ events \in [DOMAIN events -> [ack : AckStates, business : BusinessStates,
                                     op : Acks \cup {NoAck}, updated : Nat]]
    /\ tickets \in [DOMAIN tickets -> [used : BOOLEAN, expires : Nat, epoch : Nat]]
    /\ \A op \in DOMAIN tasks : IF Managed(Target[op]) THEN Proc(Target[op]) = "ack"
                                                       ELSE Reply(Target[op]) = "ack"
    /\ DOMAIN procs \cup DOMAIN replies \subseteq DOMAIN events
    /\ \A k \in Clicks :
          k = loop <=> Proc(k) \in {"acked", "failed", "click", "spent", "marked"}
                       \/ Reply(k) \in {"acked", "failed"}
    /\ hosted \in [DOMAIN hosted -> {"queued", "admitted", "running"}]
    /\ runs \in [Clicks -> Nat]

AcksOf(k) == {i \in DOMAIN wire : Target[wire[i].op] = k}
Acked(k) == \E i \in AcksOf(k) : wire[i].fate = "accepted"

\* A click is acknowledged at most once: not again when the event comes again
\* after its row is gone, under another operation id, after a crash, or after
\* an answer that was lost.
AckOnce ==
    \A k \in Clicks : \A i, j \in AcksOf(k) : i = j \/ ~L!Possible(i) \/ ~L!Possible(j)

\* No click is carried out unless QQ took its acknowledgement: a wait, a
\* lost answer or a reload between the two never lets the business through.
EffectAfterAck == \A k \in Clicks : runs[k] > 0 => Acked(k)

\* One ticket starts one command or handler, once, whoever clicks how often
\* and whenever the process dies.
TicketOnce == \A k, l \in Clicks : Token[k] = Token[l] /\ runs[k] > 0 =>
                  runs[k] = 1 /\ (k = l \/ runs[l] = 0)

\* What the table says happened: a confirmed acknowledgement reached QQ, a
\* failed one never will, and a click called not executed, a notice or a
\* confirmation (a command also: rejected) started nothing.  A callback called
\* finished did start; a command called so was only admitted.
RecordTruth ==
    \A k \in DOMAIN events :
        /\ events[k].ack = "succeeded" => Acked(k)
        /\ events[k].ack \in {"not_sent", "rejected"} => \A i \in AcksOf(k) : ~L!Possible(i)
        /\ events[k].business \in {"not_executed", "typed_notice", "confirmation_sent"}
              => runs[k] = 0
        /\ events[k].business = "rejected" /\ Intent[Token[k]] = "execute" => runs[k] = 0
        /\ events[k].business = "finished_unconfirmed" /\ Intent[Token[k]] = "callback"
              => runs[k] = 1

\* The row of a click nobody knows the outcome of is never deleted, and an
\* uncertain acknowledgement changes only when the ledger confirms it.
UncertainRemains ==
    \A k \in DOMAIN events :
        /\ events[k].ack = "unknown" \/ events[k].business = "unknown" => k \in DOMAIN events'
        /\ events[k].ack = "unknown" =>
              events'[k].ack = "unknown" \/ (events'[k].ack = "succeeded" /\ Acked(k))
UncertainStays == [][UncertainRemains]_vars

\* An acknowledgement that may have reached QQ without a confirmation is on
\* record as pending or unknown: the row is protected.
UncertainIsProtected ==
    \A k \in DOMAIN events : Managed(k) /\ (\E i \in AcksOf(k) : L!Possible(i)) =>
        events[k].ack \in {"pending", "unknown", "succeeded"}

\* No acknowledgement stays pending, even when every handler hangs.
AckPending(k) == Managed(k) /\ k \in DOMAIN events /\ events[k].ack = "pending"
AckSettles == \A k \in Clicks : AckPending(k) ~> ~AckPending(k)
\* Acknowledgements keep the promise of AtMostOnceSend.
KeepsPromise == L!KeepsPromise
=============================================================================
