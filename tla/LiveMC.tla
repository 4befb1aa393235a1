------------------------------- MODULE LiveMC -------------------------------
(***************************************************************************)
(* What must come to an end: every row of the inbox (EventInbox), every    *)
(* acknowledgement (Interactions), every binding (Onboarding).  The three  *)
(* share no state, so one instance checks each by itself: `part` says       *)
(* which of them runs, and under which fairness.                            *)
(***************************************************************************)
EXTENDS EventInboxMC

CONSTANTS
    Trouble,    \* what may become unavailable to the inbox
    btn1, btn2, a1, a2, ask, run,
    \* those of Onboarding; b1, t1 and v1 are one of each
    Bindings, Connections, Plain, NoTarget, Life, MaxActive, MaxKept, MaxFailures, MaxTime,
    MaxEdits, b1, t1, v1

ASSUME TroubleAssumption == Trouble \subseteq Troubles
ASSUME BindAssumption == Plain # {} /\ MaxFailures \in Nat

VARIABLES
    part,
    watch,  \* the row (by arrival), click or binding whose end is awaited
    \* Interactions; its clock, faults and restarts are clickClock, ...
    clickClock, water, ops, tasks, storageFailed, wire, calls, clickFaults, clickRestarts,
    events, tickets, procs, replies, loop, hosted, epoch, sent, runs,
    \* Onboarding
    memory, disk, now, state, target, print, lease, deadline, holds, handle, committed, task,
    hit, failures, stopped, edits, writes

clickVars == <<clickClock, water, ops, tasks, storageFailed, wire, calls, clickFaults,
    clickRestarts, events, tickets, procs, replies, loop, hosted, epoch, sent, runs>>
inboxVars == <<vars, shut>>
bindVars == <<memory, disk, now, state, target, print, lease, deadline, holds, handle,
    committed, task, hit, failures, stopped, edits, writes>>

\* Two cards whose button asks for a confirmation.
Click == INSTANCE Interactions WITH
    clock <- clickClock, faults <- clickFaults, restarts <- clickRestarts,
    Clicks <- {btn1, btn2}, NoClick <- none, NoTicket <- none, NoAck <- none,
    Kind <- [k \in {btn1, btn2} |-> "button"],
    Tickets <- {ask, run}, Token <- [k \in {btn1, btn2} |-> ask],
    Intent <- [t \in {ask, run} |-> IF t = ask THEN "confirm" ELSE "execute"],
    Follow <- [t \in {ask, run} |-> IF t = ask THEN run ELSE none],
    Acks <- {a1, a2}, Target <- [a \in {a1, a2} |-> IF a = a1 THEN btn1 ELSE btn2],
    AckDeadline <- 1, Window <- 2, Ttl <- 1, IntakeCap <- 1, BusinessCap <- 1,
    EventCap <- 2, OpCap <- 2, AckCap <- 2, AckTaskCap <- 2, Day <- 3,
    MaxEpoch <- 0, MaxClock <- 1, MaxCalls <- 2, MaxFaults <- 0, MaxRestarts <- 0

\* Bindings of connections that a host edit may change under them.
Bind == INSTANCE Onboarding WITH Tickets <- Bindings, Targets <- Connections

\* The two clicks mirror each other, and so do the two bindings: one is watched.
LiveInit ==
    /\ Init /\ Click!Init /\ Bind!Init
    /\ \/ part = "inbox"   /\ watch \in 1 .. MaxArrivals /\ memory[t1] = v1
       \/ part = "clicks"  /\ watch = btn1               /\ memory[t1] = v1
       \/ part = "binding" /\ watch = b1

still == <<part, watch>>
InboxStep == part = "inbox"   /\ Next       /\ UNCHANGED <<still, clickVars, bindVars>>
\* The gateway comes and goes, tables fill up and are pruned.
Turn ==
    /\ part = "inbox" /\ \E s \in SUBSET Trouble : s # shut /\ shut' = s
    /\ UNCHANGED <<still, vars, clickVars, bindVars>>
ClickStep == part = "clicks"  /\ Click!Next /\ UNCHANGED <<still, inboxVars, bindVars>>
BindStep  == part = "binding" /\ Bind!Next  /\ UNCHANGED <<still, inboxVars, clickVars>>
LiveNext  == InboxStep \/ Turn \/ ClickStep \/ BindStep

\* The fairness of each part, for its own steps: only one part ever moves.
\* Of the inbox: both consumers and the intake worker are tasks of the event
\* loop that wake at least every 0.25 s, handlers of the host and ACK workers
\* end.  A consumer that `shut` stops is not enabled, and Turn is not fair:
\* nothing makes the gateway come back or a table empty.
all == <<still, inboxVars, clickVars, bindVars>>
InboxFairness ==
    /\ WF_vars(part = "inbox" /\ (ConsumeDuplicate \/ ConsumeNew \/ ConsumeRefused))
    /\ WF_vars(part = "inbox" /\ CoreStep)
    /\ WF_vars(part = "inbox" /\ ChatStep)
    /\ WF_vars(part = "inbox" /\ HostDone)
    /\ \A e \in Events : WF_vars(part = "inbox" /\ IntakeDone(e))
ClickFairness ==
    /\ \A k \in {btn1, btn2} : WF_clickVars(part = "clicks" /\ Click!RunsOn(k))
    /\ \A op \in {a1, a2} : WF_clickVars(part = "clicks" /\ Click!AckExpires(op))
BindFairness ==
    /\ WF_bindVars(part = "binding" /\ Bind!Tick)
    /\ \A b \in Bindings : WF_bindVars(part = "binding" /\ Bind!Work(b))

LiveSpec == LiveInit /\ [][LiveNext]_all /\ InboxFairness /\ ClickFairness /\ BindFairness

-----------------------------------------------------------------------------
(* Everything that was begun comes to an end.  No row of the inbox waits    *)
(* forever, whatever the mix of interactions, notices and full slots, once  *)
(* the gateway and the tables stay available; and a row that is no chat     *)
(* does not wait for the gateway.  No acknowledgement stays pending, even   *)
(* when handlers hang; and a binding nobody looks at any more ends and      *)
(* gives its secrets up.                                                    *)
Open == CASE part = "inbox"   -> Waits(watch)
          [] part = "clicks"  -> Click!AckPending(watch)
          [] part = "binding" -> state[watch] \in Bind!Active
Over == CASE part = "inbox"   -> ~Waits(watch)
          [] part = "clicks"  -> ~Click!AckPending(watch)
          [] part = "binding" -> Bind!Ended(watch)
\* What the awaited one needs is there; only a chat needs the gateway.
Served == shut \subseteq IF part = "inbox" /\ IsChatRow(watch) THEN {} ELSE {"gateway"}
EverythingEnds == <>[]Served => (Open ~> Over)

(* Acknowledgements keep the promise of AtMostOnceSend.                     *)
KeepsPromise == Click!KeepsPromise

(* What a binding claims, keeps and occupies is what it did.                *)
BindingSound == Bind!TypeOK /\ Bind!BindingSound
=============================================================================
