------------------------ MODULE Interactions_proofs ------------------------
(***************************************************************************)
(* Proofs about clicks for every set of clicks, tickets and bounds: what   *)
(* is recorded is true, a ticket starts one command, nothing is carried    *)
(* out before its acknowledgement, and a click is acknowledged once and in *)
(* time.  The ledger's own invariant comes from ExtensionLedger_proofs.    *)
(***************************************************************************)
EXTENDS Interactions, SequenceTheorems, FiniteSetTheorems, TLAPS

LP == INSTANCE ExtensionLedger_proofs WITH Ops <- Acks, TaskCap <- 1

-----------------------------------------------------------------------------
(* The invariant.                                                          *)

Inside   == {"acked", "failed", "click", "spent", "marked"}
Outside  == {"new", "ack", "gate", "handler", "confirm"}
Business0 == {"pending", "admitted", "queued"}
HostStates == {"queued", "admitted", "running"}

LedgerInv == LP!Inv /\ LP!Entire

Types ==
    /\ DOMAIN events \subseteq Clicks
    /\ events \in [DOMAIN events -> [ack : AckStates, business : BusinessStates,
                                     op : Acks \cup {NoAck}, updated : Nat]]
    /\ tickets \in [DOMAIN tickets -> [used : BOOLEAN, expires : Nat, epoch : Nat]]
    /\ DOMAIN tickets \subseteq Tickets
    /\ DOMAIN procs \subseteq Clicks /\ procs \in [DOMAIN procs -> Inside \cup Outside]
    /\ DOMAIN replies \subseteq Clicks /\ replies \in [DOMAIN replies -> {"ack", "acked", "failed"}]
    /\ DOMAIN hosted \subseteq Clicks /\ hosted \in [DOMAIN hosted -> HostStates]
    /\ loop \in Clicks \cup {NoClick} /\ epoch \in Nat
    /\ sent \in [Clicks -> Int] /\ runs \in [Clicks -> Nat]

\* Somebody waits for each write under way.
TasksFit ==
    \A op \in DOMAIN tasks :
        /\ op \in Acks
        /\ IF Managed(Target[op]) THEN Proc(Target[op]) = "ack"
           ELSE Reply(Target[op]) = "ack" /\ events[Target[op]].op = op

\* Who waits for a reply waits for a write under way.
Awaited == \A k \in Clicks : Reply(k) = "ack" => events[k].op \in DOMAIN tasks

\* The row, the task and the host agree on where the click is.
Placed(k) ==
    /\ Proc(k) # "none" => /\ k \in DOMAIN events /\ events[k].business \in Business0
                           /\ Managed(k) \/ Proc(k) = "new"
    /\ Managed(k) /\ Proc(k) \in {"new", "ack", "acked", "failed"} => events[k].ack = "pending"
    /\ Proc(k) \in {"click", "spent", "marked", "gate", "handler", "confirm"}
          => events[k].ack = "succeeded"
    /\ Proc(k) \in {"spent", "marked", "gate", "handler", "confirm"} => Kind[k] = "button"
    /\ Proc(k) = "marked" => events[k].business = "queued"
    /\ Reply(k) # "none" => /\ k \in DOMAIN events /\ ~Managed(k) /\ events[k].ack = "pending"
                            /\ events[k].op \in Acks /\ Target[events[k].op] = k
    /\ k \in DOMAIN events => /\ events[k].op \in Acks => Target[events[k].op] = k /\ ~Managed(k)
                              /\ ~Managed(k) /\ events[k].op = NoAck => events[k].ack = "not_required"
    /\ k \in DOMAIN hosted => /\ k \in DOMAIN events /\ events[k].business = "queued"
                              /\ Proc(k) = "none" /\ Kind[k] = "button"
    /\ k = loop <=> Proc(k) \in Inside \/ Reply(k) \in {"acked", "failed"}

\* Whoever is past its acknowledgement was acknowledged.
Confirmed(k) ==
    Proc(k) \in {"acked", "click", "spent", "marked", "gate", "handler", "confirm"}
    \/ Reply(k) = "acked" \/ k \in DOMAIN hosted \/ runs[k] > 0 => Acked(k)

\* Who holds a redeemed ticket, and what it was started for.
Paid(k) == Proc(k) \in {"spent", "marked", "gate", "handler"} \/ k \in DOMAIN hosted \/ runs[k] > 0
Redeemed(k) ==
    /\ Paid(k) => Kind[k] = "button" /\ Token[k] \in DOMAIN tickets /\ tickets[Token[k]].used
    /\ runs[k] \in {0, 1}
    /\ Proc(k) = "handler" \/ (k \in DOMAIN hosted /\ hosted[k] = "running") => runs[k] = 1
    /\ Proc(k) \in {"spent", "marked", "gate"} \/ (k \in DOMAIN hosted /\ hosted[k] # "running")
          => runs[k] = 0
    /\ Proc(k) \in {"gate", "handler"} => Intent[Token[k]] = "callback"
    /\ Proc(k) \in {"spent", "marked"} \/ k \in DOMAIN hosted => Intent[Token[k]] = "execute"

\* No two clicks hold one ticket.
Exclusive == \A k, l \in Clicks : Paid(k) /\ Paid(l) /\ Token[k] = Token[l] => k = l

\* A confirmation's ticket is there only after its card's was used.
FollowUsed == \A t \in Tickets : Follow[t] \in DOMAIN tickets => t \in DOMAIN tickets /\ tickets[t].used

ClickInv == /\ LedgerInv /\ Types /\ TasksFit /\ Awaited /\ FollowUsed /\ Exclusive
            /\ \A k \in Clicks : Placed(k) /\ Confirmed(k) /\ Redeemed(k)

-----------------------------------------------------------------------------
(* What holds while the clock stays within the day rows are kept.          *)

Past(k) == sent[k] + Window <= water

\* A click that left traces has its row or is too old to be answered.
Traced(k) ==
    /\ AcksOf(k) # {} \/ runs[k] > 0 => k \in DOMAIN events \/ Past(k)
    /\ sent[k] < 0 => AcksOf(k) = {} /\ runs[k] = 0 /\ k \notin DOMAIN events

\* All acknowledgements of a click go under one id, which a reply has claimed.
OneId(k) ==
    /\ \A i, j \in AcksOf(k) : wire[i].op = wire[j].op
    /\ Proc(k) = "new" /\ Managed(k) => AcksOf(k) = {}
    /\ ~Managed(k) /\ k \in DOMAIN events /\ AcksOf(k) # {} =>
          IF events[k].op = NoAck THEN Past(k) ELSE \A i \in AcksOf(k) : wire[i].op = events[k].op

\* Nothing was started before the ticket was redeemed.
NotYet(k) == Proc(k) \in {"new", "ack", "acked", "failed", "click", "confirm"} => runs[k] = 0

\* What a row with this outcome and this business says happened.
Says(k, ack, business) ==
    /\ ack = "succeeded" => Acked(k)
    /\ ack \in {"not_sent", "rejected"} => \A i \in AcksOf(k) : ~L!Possible(i)
    /\ business \in {"not_executed", "typed_notice", "confirmation_sent"} => runs[k] = 0
    /\ business = "rejected" => runs[k] = 0 \/ Intent[Token[k]] = "callback"
    /\ business = "finished_unconfirmed" => runs[k] = 1 \/ Intent[Token[k]] = "execute"
RowTrue(k) == k \in DOMAIN events => Says(k, events[k].ack, events[k].business)

DayInv == LP!Today /\ \A k \in Clicks : Traced(k) /\ OneId(k) /\ NotYet(k) /\ RowTrue(k)

-----------------------------------------------------------------------------
(* Interactions drives its own instance of the ledger: the same operators. *)

LEMMA NowIs == L!Now = LP!Now
BY Zenon DEF L!Now, LP!Now

LEMMA BeginIs == \A op \in Acks : L!Begin(op) <=> LP!Begin(op)
BY ZenonT(30) DEF L!Now, LP!Now, L!Pruned, LP!Pruned, L!Aged, LP!Aged, L!In, LP!In,
   L!History, LP!History, L!Unfinished, LP!Unfinished, L!Restriction,
   LP!Restriction, L!Cardinality, LP!Cardinality, L!Begin, LP!Begin, L!Extend,
   LP!Extend, L!Room, LP!Room, L!Lane, LP!Lane, L!LaneCap, LP!LaneCap,
   L!LaneTasks, LP!LaneTasks, Cardinality

LEMMA RefusedIs == \A op \in Acks : L!Refused(op) <=> LP!Refused(op)
BY Zenon DEF L!Now, LP!Now, L!Pruned, LP!Pruned, L!Aged, LP!Aged, L!In, LP!In,
   L!History, LP!History, L!Unfinished, LP!Unfinished, L!Restriction,
   LP!Restriction, L!Cardinality, LP!Cardinality, L!Refused, LP!Refused,
   L!Prune, LP!Prune, L!vars, LP!vars, L!budget, LP!budget, L!Room, LP!Room,
   L!Lane, LP!Lane, L!LaneCap, LP!LaneCap, Cardinality

LEMMA SubmitIs == \A op \in Acks : L!Submit(op) <=> LP!Submit(op)
BY Zenon DEF L!Now, LP!Now, L!Submit, LP!Submit, L!Task, LP!Task, L!budget,
   LP!budget

LEMMA ConfirmedIs == \A op \in Acks : L!Confirmed(op) <=> LP!Confirmed(op)
BY ZenonT(30) DEF L!Now, LP!Now, L!Pruned, LP!Pruned, L!Aged, LP!Aged, L!In, LP!In,
   L!History, LP!History, L!Unfinished, LP!Unfinished, L!Restriction,
   LP!Restriction, L!Cardinality, LP!Cardinality, L!Finish, LP!Finish,
   L!Finished, LP!Finished, L!Extend, LP!Extend, L!EndTask, LP!EndTask, L!Task,
   LP!Task, L!Verdict, LP!Verdict, L!budget, LP!budget, L!Confirmed,
   LP!Confirmed, Cardinality

LEMMA PrunedIs == \A o : L!Pruned(o) = LP!Pruned(o)
BY Zenon DEF L!Now, LP!Now, L!Pruned, LP!Pruned, L!Aged, LP!Aged, L!In, LP!In,
   L!History, LP!History, L!Unfinished, LP!Unfinished, L!Restriction,
   LP!Restriction, L!Cardinality, LP!Cardinality, Cardinality

LEMMA FinishIs == \A op, state : L!Finish(op, state) <=> LP!Finish(op, state)
<1>1. \A op, state : L!Finished(ops, op, state) = LP!Finished(ops, op, state)
  BY NowIs, Zenon DEF L!Finished, LP!Finished, L!Extend, LP!Extend
<1>2. \A op : L!EndTask(op) <=> LP!EndTask(op)
  BY Zenon DEF L!EndTask, LP!EndTask, L!Restriction, LP!Restriction
<1>3. L!budget = LP!budget
  BY DEF L!budget, LP!budget
<1> QED BY PrunedIs, NowIs, <1>1, <1>2, Zenon DEF L!Finish, LP!Finish, L!budget, LP!budget

LEMMA FailsIs == \A op \in Acks : /\ L!GiveUp(op) \/ L!Uncertain(op) => L!Fails(op)
                                 /\ L!Fails(op) <=> LP!Fails(op)
<1> TAKE op \in Acks
<1>1. L!GiveUp(op) <=> LP!GiveUp(op)
  BY FinishIs, Zenon DEF L!GiveUp, LP!GiveUp, L!Task, LP!Task
<1>2. L!Uncertain(op) <=> LP!Uncertain(op)
  BY FinishIs, Zenon DEF L!Uncertain, LP!Uncertain, L!Task, LP!Task
<1>3. L!Rejected(op) <=> LP!Rejected(op)
  BY FinishIs, Zenon DEF L!Rejected, LP!Rejected, L!Task, LP!Task, L!Verdict, LP!Verdict
<1>4. L!ConnectFailed(op) <=> LP!ConnectFailed(op)
  BY FinishIs, Zenon DEF L!ConnectFailed, LP!ConnectFailed, L!Task, LP!Task, L!Verdict, LP!Verdict
<1>5. L!StorageFault(op) <=> LP!StorageFault(op)
  BY Zenon DEF L!StorageFault, LP!StorageFault, L!Task, LP!Task, L!EndTask, LP!EndTask,
     L!Restriction, LP!Restriction
<1> QED BY <1>1, <1>2, <1>3, <1>4, <1>5, Zenon DEF L!Fails, LP!Fails

LEMMA UnauthorizedIs == \A op \in Acks : L!Unauthorized(op) <=> LP!Unauthorized(op)
BY Zenon DEF L!Unauthorized, LP!Unauthorized, L!Task, LP!Task, L!Verdict,
   LP!Verdict, L!budget, LP!budget

LEMMA WorldIs ==
    (L!SetClock \/ L!Prune \/ \E i \in DOMAIN wire : L!QQActs(i))
    <=> (LP!Prune \/ LP!SetClock \/ \E i \in DOMAIN wire : LP!QQActs(i))
BY Zenon DEF L!Now, LP!Now, L!Pruned, LP!Pruned, L!Aged, LP!Aged, L!In, LP!In,
   L!History, LP!History, L!Unfinished, LP!Unfinished, L!Restriction,
   LP!Restriction, L!Cardinality, LP!Cardinality, L!Prune, LP!Prune, L!SetClock,
   LP!SetClock, L!QQActs, LP!QQActs, L!Task, LP!Task, L!budget, LP!budget,
   Cardinality

LEMMA ReloadIs == L!Reload <=> LP!Reload
BY Zenon DEF L!Now, LP!Now, L!Pruned, LP!Pruned, L!Aged, LP!Aged, L!In, LP!In,
   L!History, LP!History, L!Unfinished, LP!Unfinished, L!Restriction,
   LP!Restriction, L!Cardinality, LP!Cardinality, L!Reload, LP!Reload,
   L!Restart, LP!Restart, L!Task, LP!Task, L!budget, LP!budget, Cardinality

LEMMA CrashIs == L!Crash <=> LP!Crash
BY Zenon DEF L!Now, LP!Now, L!Crash, LP!Crash, L!Restart, LP!Restart,
   L!Recovered, LP!Recovered

LEMMA InitIs == L!Init <=> LP!Init
BY Zenon DEF L!Init, LP!Init

LEMMA PossibleIs == \A i : L!Possible(i) <=> LP!Possible(i)
BY Zenon DEF L!Possible, LP!Possible

LEMMA TaskIs == \A op : L!Task(op) = LP!Task(op)
BY Zenon DEF L!Task, LP!Task


\* The ledger's assumptions hold of its instance.
LEMMA LimitsHold == LP!LanesAssumption /\ LP!LimitsAssumption
<1>1. Day # 0
  BY BoundsAssumption
<1> QED BY <1>1, BoundsAssumption DEF LP!LanesAssumption, LP!LimitsAssumption

LEMMA NowIsTime == LedgerInv => Now \in Nat /\ water <= Now /\ clock <= Now /\ clock \in Nat /\ water \in Nat
BY NowIs, LP!NowIsTime, LimitsHold DEF LedgerInv, LP!Inv, LP!TypeOK, LP!Now, Now

-----------------------------------------------------------------------------
(* What a step leaves alone.                                               *)

AckedStays == \A k \in Clicks : Acked(k) => Acked(k)'

LEMMA KeptStays == LP!WireKept => AckedStays
BY DEF LP!WireKept, AckedStays, Acked, AcksOf

\* A transaction of the dispatcher does nothing to the ledger.
LEMMA LedgerQuiet ==
    ASSUME LedgerInv, water' = Now \/ water' = water,
           UNCHANGED <<clock, ops, tasks, storageFailed, wire>>
    PROVE  LedgerInv' /\ AckedStays
BY NowIs, LimitsHold, KeptStays, LP!TransactionKeeps DEF LedgerInv, Now

TicketsStay == \A t \in DOMAIN tickets :
    t \in DOMAIN tickets' /\ (tickets[t].used => tickets'[t].used)

\* Nothing happens to a click, but its row may go when nobody is at it.
Untouched(x) ==
    /\ Proc(x)' = Proc(x) /\ Reply(x)' = Reply(x) /\ runs'[x] = runs[x]
    /\ x \in DOMAIN hosted' <=> x \in DOMAIN hosted
    /\ x \in DOMAIN hosted => hosted'[x] = hosted[x]
    /\ loop' = x <=> loop = x
    /\ x \in DOMAIN events' => x \in DOMAIN events /\ events'[x].ack = events[x].ack
          /\ events'[x].business = events[x].business /\ events'[x].op = events[x].op
    /\ Proc(x) # "none" \/ Reply(x) # "none" \/ x \in DOMAIN hosted => x \in DOMAIN events'

LEMMA PaidStays ==
    ASSUME NEW x \in Clicks, Untouched(x) PROVE Paid(x)' <=> Paid(x)
BY Zenon DEF Untouched, Paid

LEMMA PlacedStays ==
    ASSUME NEW x \in Clicks, Untouched(x), Placed(x) PROVE Placed(x)'
BY Zenon DEF Untouched, Placed

LEMMA ConfirmedStays ==
    ASSUME NEW x \in Clicks, Untouched(x), AckedStays, Confirmed(x) PROVE Confirmed(x)'
BY Zenon DEF Untouched, Confirmed, AckedStays

LEMMA RedeemedStays ==
    ASSUME NEW x \in Clicks, Untouched(x), TicketsStay, Redeemed(x) PROVE Redeemed(x)'
BY PaidStays, Zenon DEF Untouched, Redeemed, TicketsStay

\* Somebody waits for this write.
Fits(op) == /\ op \in Acks
            /\ IF Managed(Target[op]) THEN Proc(Target[op]) = "ack"
               ELSE Reply(Target[op]) = "ack" /\ events[Target[op]].op = op

\* A step that touches one click.
LEMMA OneClick ==
    ASSUME ClickInv, NEW k \in Clicks,
           \A x \in Clicks \ {k} : Untouched(x),
           LedgerInv', Types', FollowUsed', TicketsStay, AckedStays,
           \A op \in DOMAIN tasks' : (op \in DOMAIN tasks /\ Target[op] # k)
                                     \/ (Target[op] = k /\ Fits(op)'),
           \A op \in DOMAIN tasks : op \in DOMAIN tasks' \/ Target[op] = k,
           Reply(k)' = "ack" => events'[k].op \in DOMAIN tasks',
           Placed(k)', Confirmed(k)', Redeemed(k)',
           Paid(k)' => Paid(k) \/ \A l \in Clicks \ {k} : ~(Paid(l) /\ Token[l] = Token[k])
    PROVE  ClickInv'
<1>1. \A x \in Clicks : Placed(x)' /\ Confirmed(x)' /\ Redeemed(x)'
  BY PlacedStays, ConfirmedStays, RedeemedStays DEF ClickInv
<1>2. Exclusive'
  <2>1. \A x \in Clicks \ {k} : Paid(x)' <=> Paid(x)
    BY PaidStays
  <2> QED BY <2>1, Zenon DEF ClickInv, Exclusive
<1>3. TasksFit'
  <2> SUFFICES ASSUME NEW op \in DOMAIN tasks' PROVE Fits(op)'
    BY Zenon DEF TasksFit, Fits
  <2>1. CASE op \in DOMAIN tasks /\ Target[op] # k
    <3>1. Fits(op)
      BY <2>1, Zenon DEF ClickInv, TasksFit, Fits
    <3>2. Target[op] \in Clicks \ {k}
      BY <2>1, <3>1, ClicksAssumption DEF Fits
    <3>3. Untouched(Target[op])
      BY <3>2
    <3> QED BY <3>1, <3>3, Zenon DEF Fits, Untouched
  <2> QED BY <2>1
<1>4. Awaited'
  <2> SUFFICES ASSUME NEW x \in Clicks \ {k}, Reply(x)' = "ack"
               PROVE  events'[x].op \in DOMAIN tasks'
    BY DEF Awaited
  <2>1. Reply(x) = "ack" /\ events'[x].op = events[x].op
    <3>1. Untouched(x)
      OBVIOUS
    <3>2. Reply(x) = "ack"
      BY <3>1 DEF Untouched
    <3> QED BY <3>1, <3>2, Zenon DEF Untouched
  <2>2. events[x].op \in DOMAIN tasks /\ Target[events[x].op] = x
    BY <2>1 DEF ClickInv, Awaited, Placed
  <2> QED BY <2>1, <2>2
<1> QED BY <1>1, <1>2, <1>3, <1>4 DEF ClickInv

-----------------------------------------------------------------------------
(* What the dispatcher's pieces do.                                        *)

Row == [ack : AckStates, business : BusinessStates, op : Acks \cup {NoAck}, updated : Nat]

\* At most the row of k is written, and not its operation id.
RowWritten(k) ==
    /\ DOMAIN events' = DOMAIN events /\ events' \in [DOMAIN events -> Row]
    /\ \A x \in DOMAIN events \ {k} : events'[x] = events[x]
    /\ k \in DOMAIN events => events'[k].op = events[k].op

LEMMA Updating ==
    ASSUME ClickInv, NEW k, NEW ack \in AckStates \cup {"same"},
           NEW business \in BusinessStates \cup {"same"}, Update(k, ack, business)
    PROVE  /\ RowWritten(k)
           /\ k \in DOMAIN events =>
                 /\ events'[k].ack = IF ack = "same" THEN events[k].ack ELSE ack
                 /\ events'[k].business = IF business = "same" THEN events[k].business ELSE business
<1>1. events \in [DOMAIN events -> Row] /\ Now \in Nat
  BY NowIsTime DEF ClickInv, Types, Row
<1>2. CASE k \notin DOMAIN events
  BY <1>1, <1>2 DEF Update, RowWritten
<1>3. CASE k \in DOMAIN events
  <2> DEFINE a == IF ack = "same" THEN events[k].ack ELSE ack
             b == IF business = "same" THEN events[k].business ELSE business
             r == [events[k] EXCEPT !.ack = a, !.business = b, !.updated = Now]
  <2>1. events[k] \in Row /\ a \in AckStates /\ b \in BusinessStates
    BY <1>1, <1>3 DEF Row
  <2>2. events' = [events EXCEPT ![k] = r]
    <3>1. events' = [events EXCEPT ![k].ack = IF ack = "same" THEN @ ELSE ack,
                                   ![k].business = IF business = "same" THEN @ ELSE business,
                                   ![k].updated = Now]
      BY <1>3 DEF Update
    <3> QED BY <1>1, <1>3, <2>1, <3>1 DEF Row
  <2> HIDE DEF a, b
  <2>3. r \in Row /\ r.ack = a /\ r.business = b /\ r.op = events[k].op
    BY <1>1, <2>1 DEF Row
  <2> HIDE DEF r
  <2>4. RowWritten(k) /\ events'[k] = r
    BY <1>1, <1>3, <2>2, <2>3 DEF RowWritten
  <2> QED BY <1>3, <2>3, <2>4 DEF a, b
<1> QED BY <1>2, <1>3

\* Only the task of k moves.
Moved(k, at) ==
    /\ DOMAIN procs' \subseteq Clicks /\ procs' \in [DOMAIN procs' -> Inside \cup Outside]
    /\ Proc(k)' = at /\ \A x \in Clicks \ {k} : Proc(x)' = Proc(x)

LEMMA Ending == ASSUME Types, NEW k \in Clicks, EndProc(k) PROVE Moved(k, "none")
BY DEF Types, EndProc, Restriction, Moved, Proc

LEMMA Moving == ASSUME Types, NEW k \in Clicks, Proc(k) # "none",
                       NEW at \in Inside \cup Outside, Moves(k, at)
                PROVE  Moved(k, at)
BY DEF Types, Moves, Moved, Proc

LEMMA Staying == ASSUME Types, NEW k \in Clicks, UNCHANGED procs PROVE Moved(k, Proc(k))
BY DEF Types, Moved, Proc

\* Only the reply of k moves.
Answered(k, at) ==
    /\ DOMAIN replies' \subseteq Clicks /\ replies' \in [DOMAIN replies' -> {"ack", "acked", "failed"}]
    /\ Reply(k)' = at /\ \A x \in Clicks \ {k} : Reply(x)' = Reply(x)

LEMMA Unanswered == ASSUME Types, NEW k \in Clicks, UNCHANGED replies PROVE Answered(k, Reply(k))
BY DEF Types, Answered, Reply

\* Who is inside a stretch between awaits holds the loop.
LEMMA Holding == ASSUME ClickInv, NEW k \in Clicks
                 PROVE  /\ Proc(k) \in Inside \/ Reply(k) \in {"acked", "failed"} => loop = k
                        /\ loop = NoClick => Proc(k) \notin Inside /\ Reply(k) \notin {"acked", "failed"}
                        /\ Proc(k) \notin {"none", "new"} => Managed(k) /\ Reply(k) = "none"
                        /\ Proc(k) # "none" => k \notin DOMAIN hosted /\ k \in DOMAIN events
BY ClicksAssumption DEF ClickInv, Placed

-----------------------------------------------------------------------------
(* Steps of the dispatcher that the ledger takes no part in.               *)

\* A step at one click that leaves tickets and writes alone.
LEMMA QuietStep ==
    ASSUME ClickInv, NEW k \in Clicks,
           water' = Now \/ water' = water,
           UNCHANGED <<clock, ops, tasks, storageFailed, wire>>, UNCHANGED tickets,
           loop \in {k, NoClick}, loop' \in {k, NoClick},
           RowWritten(k),
           NEW at, Moved(k, at), Proc(k) # "ack", UNCHANGED <<epoch, sent>>,
           DOMAIN hosted' \subseteq Clicks, hosted' \in [DOMAIN hosted' -> HostStates],
           \A x \in Clicks \ {k} : /\ x \in DOMAIN hosted' <=> x \in DOMAIN hosted
                                   /\ x \in DOMAIN hosted => hosted'[x] = hosted[x],
           runs' \in [Clicks -> Nat], \A x \in Clicks \ {k} : runs'[x] = runs[x],
           NEW answer, Answered(k, answer), Reply(k) = "ack" <=> answer = "ack",
           Placed(k)', Confirmed(k)', Redeemed(k)', Paid(k)' => Paid(k)
    PROVE  ClickInv'
<1>1. LedgerInv' /\ AckedStays
  BY LedgerQuiet DEF ClickInv
<1>2. \A x \in Clicks \ {k} : Untouched(x)
  <2>1. \A x \in Clicks \ {k} : x \in DOMAIN events =>
           x \in DOMAIN events' /\ events'[x] = events[x]
    BY DEF RowWritten
  <2>2. \A x \in Clicks \ {k} : Proc(x) # "none" \/ Reply(x) # "none" \/ x \in DOMAIN hosted
           => x \in DOMAIN events
    BY DEF ClickInv, Placed
  <2>3. \A x \in Clicks \ {k} : (loop' = x <=> loop = x) /\ Proc(x)' = Proc(x) /\ Reply(x)' = Reply(x)
                                /\ (x \in DOMAIN events' => x \in DOMAIN events)
    BY ClicksAssumption DEF Moved, Answered, RowWritten
  <2> QED BY <2>1, <2>2, <2>3, Zenon DEF Untouched
<1>3. Types'
  <2>1. loop' \in Clicks \cup {NoClick} /\ epoch' \in Nat /\ sent' \in [Clicks -> Int]
    BY DEF ClickInv, Types
  <2>2. /\ tickets' \in [DOMAIN tickets' -> [used : BOOLEAN, expires : Nat, epoch : Nat]]
        /\ DOMAIN tickets' \subseteq Tickets
    BY DEF ClickInv, Types
  <2>3. DOMAIN events' \subseteq Clicks /\ events' \in [DOMAIN events' -> Row]
    BY DEF ClickInv, Types, RowWritten
  <2> QED BY <2>1, <2>2, <2>3, Zenon DEF Types, Moved, Answered, Row
<1>4. FollowUsed' /\ TicketsStay
  BY DEF ClickInv, FollowUsed, TicketsStay
<1>5. \A op \in DOMAIN tasks' : (op \in DOMAIN tasks /\ Target[op] # k)
                               \/ (Target[op] = k /\ Fits(op)')
  <2> TAKE op \in DOMAIN tasks'
  <2>1. op \in DOMAIN tasks /\ Fits(op)
    BY Zenon DEF ClickInv, TasksFit, Fits
  <2>2. CASE Target[op] = k
    <3>1. ~Managed(k) /\ Reply(k) = "ack" /\ events[k].op = op /\ k \in DOMAIN events
      BY <2>1, <2>2 DEF Fits, ClickInv, Placed
    <3>2. Reply(k)' = "ack" /\ events'[k].op = op
      BY <3>1 DEF Answered, RowWritten
    <3> QED BY <2>1, <2>2, <3>1, <3>2, Zenon DEF Fits
  <2> QED BY <2>1, <2>2
<1>6. Paid(k)' => Paid(k) \/ \A l \in Clicks \ {k} : ~(Paid(l) /\ Token[l] = Token[k])
  OBVIOUS
<1>8. Reply(k)' = "ack" => events'[k].op \in DOMAIN tasks'
  <2>1. Reply(k) = "ack" => events[k].op \in DOMAIN tasks /\ k \in DOMAIN events
    BY DEF ClickInv, Awaited, Placed
  <2> QED BY <2>1 DEF Answered, RowWritten
<1>9. \A op \in DOMAIN tasks : op \in DOMAIN tasks' \/ Target[op] = k
  OBVIOUS
<1>7. LedgerInv' /\ AckedStays /\ FollowUsed' /\ TicketsStay
  BY <1>1, <1>4
<1> QED BY <1>2, <1>3, <1>5, <1>6, <1>7, <1>8, <1>9, OneClick, SMTT(60)

\* The task of a click ends.
LEMMA ProcessEnds ==
    ASSUME ClickInv, NEW k \in Clicks, Proc(k) \notin {"none", "ack"},
           loop = NoClick \/ Proc(k) \in Inside,
           water' = Now \/ water' = water,
           UNCHANGED <<clock, ops, tasks, storageFailed, wire>>,
           RowWritten(k), Managed(k) \/ events'[k].ack = events[k].ack,
           EndProc(k), loop' = NoClick,
           UNCHANGED <<tickets, replies, hosted, epoch, sent, runs>>
    PROVE  ClickInv'
<1>1. loop \in {k, NoClick} /\ Reply(k) \notin {"acked", "failed"}
      /\ k \notin DOMAIN hosted /\ k \in DOMAIN events
  BY Holding DEF Inside
<1>2. Moved(k, "none") /\ Answered(k, Reply(k))
  BY Ending, Unanswered DEF ClickInv
<1>3. Placed(k)'
  <2>1. Placed(k)
    BY DEF ClickInv
  <2>2. Proc(k)' = "none" /\ Reply(k)' = Reply(k) /\ k \notin DOMAIN hosted' /\ k # NoClick
    BY <1>1, <1>2, ClicksAssumption DEF Moved, Answered
  <2>3. k \in DOMAIN events' /\ events'[k].op = events[k].op
    BY <1>1 DEF RowWritten
  <2> QED BY <1>1, <2>1, <2>2, <2>3 DEF Placed, Inside
<1>4. Confirmed(k)' /\ Redeemed(k)' /\ (Paid(k)' => Paid(k))
  <2>1. Proc(k)' = "none" /\ Reply(k)' = Reply(k)
    BY <1>2 DEF Moved, Answered
  <2>2. Confirmed(k)'
    BY <2>1 DEF ClickInv, Confirmed, Acked, AcksOf
  <2>3. Paid(k)' => Paid(k)
    BY <2>1 DEF Paid
  <2>4. Redeemed(k)'
    BY <1>1, <2>1, <2>3 DEF ClickInv, Redeemed
  <2> QED BY <2>2, <2>3, <2>4
<1>5. DOMAIN hosted' \subseteq Clicks /\ hosted' \in [DOMAIN hosted' -> HostStates]
      /\ runs' \in [Clicks -> Nat]
  BY DEF ClickInv, Types
<1> QED BY <1>1, <1>2, <1>3, <1>4, <1>5, QuietStep

\* process and its like, where the row gets its end.
LEMMA EndsKeeps ==
    ASSUME ClickInv, NEW k \in Clicks, Proc(k) \notin {"none", "ack"},
           loop = NoClick \/ Proc(k) \in Inside,
           NEW business \in BusinessStates, Ends(k, business)
    PROVE  ClickInv'
<1>1. Update(k, "same", business) /\ "same" \notin BusinessStates
  BY DEF Ends, BusinessStates
<1>2. RowWritten(k) /\ (k \in DOMAIN events => events'[k].ack = events[k].ack)
  BY <1>1, Updating
<1>3. k \in DOMAIN events
  BY Holding
<1> QED BY <1>2, <1>3, ProcessEnds DEF Ends, Transaction

LEMMA NoticeKeeps == ASSUME ClickInv, NEW k \in Clicks, Notice(k) PROVE ClickInv'
<1>1. Proc(k) \notin {"none", "ack"} /\ (loop = NoClick \/ Proc(k) \in Inside)
  BY DEF Notice, Inside
<1>2. Ends(k, "typed_notice")
  BY DEF Notice, Ends
<1> QED BY <1>1, <1>2, EndsKeeps DEF BusinessStates

LEMMA RefuseClickKeeps == ASSUME ClickInv, NEW k \in Clicks, RefuseClick(k) PROVE ClickInv'
<1>1. Proc(k) \notin {"none", "ack"} /\ Proc(k) \in Inside
  BY DEF RefuseClick, Inside
<1> QED BY <1>1, EndsKeeps DEF BusinessStates, RefuseClick

LEMMA LeavesKeeps == ASSUME ClickInv, NEW k \in Clicks, Leaves(k) PROVE ClickInv'
<1>1. PICK state \in BusinessStates : Ends(k, state) /\ Proc(k) \in {"gate", "handler", "confirm"}
  BY DEF Leaves, BusinessStates
<1>2. loop = NoClick
  BY DEF Leaves
<1> QED BY <1>1, <1>2, EndsKeeps

LEMMA AckTooLateKeeps == ASSUME ClickInv, NEW k \in Clicks, AckTooLate(k) PROVE ClickInv'
<1>1. Update(k, "not_sent", "not_executed") /\ loop = NoClick /\ Proc(k) = "new" /\ Managed(k)
  BY DEF AckTooLate
<1>2. RowWritten(k)
  BY <1>1, Updating DEF AckStates, BusinessStates
<1> QED BY <1>1, <1>2, ProcessEnds DEF AckTooLate, Transaction

LEMMA OutcomeIsState == ASSUME LedgerInv, NEW op PROVE Outcome(op) \in AckStates
BY DEF LedgerInv, LP!Inv, LP!TypeOK, LP!Row, LP!States, LP!Unfinished, LP!History, LP!Entire,
       Outcome, AckStates

LEMMA AckFailedKeeps == ASSUME ClickInv, NEW k \in Clicks, AckFailed(k) PROVE ClickInv'
<1>1. Update(k, Outcome(AckOp(k)), "not_executed") /\ Proc(k) = "failed"
  BY DEF AckFailed
<1>2. RowWritten(k)
  BY <1>1, Updating, OutcomeIsState DEF AckStates, BusinessStates, ClickInv
<1>3. Proc(k) \in Inside /\ Managed(k)
  BY <1>1, Holding DEF Inside
<1> QED BY <1>1, <1>2, <1>3, ProcessEnds DEF AckFailed, Transaction

LEMMA Unwritten == ASSUME ClickInv, UNCHANGED events, NEW k PROVE RowWritten(k)
BY DEF ClickInv, Types, RowWritten, Row

LEMMA UpdateFailsKeeps == ASSUME ClickInv, NEW k \in Clicks, UpdateFails(k) PROVE ClickInv'
<1>1. Proc(k) \in {"acked", "failed"}
  BY DEF UpdateFails
<1>2. RowWritten(k) /\ Proc(k) \in Inside /\ Managed(k)
  BY <1>1, Unwritten, Holding DEF UpdateFails, Inside
<1> QED BY <1>1, <1>2, ProcessEnds DEF UpdateFails

LEMMA AckSucceededKeeps == ASSUME ClickInv, NEW k \in Clicks, AckSucceeded(k) PROVE ClickInv'
<1>1. Proc(k) = "acked" /\ Managed(k) /\ loop = k /\ Reply(k) = "none" /\ k \in DOMAIN events
      /\ k \notin DOMAIN hosted
  BY Holding DEF AckSucceeded, Inside
<1>2. PICK business \in {"not_executed", "admitted", "same"} :
        /\ Update(k, "succeeded", business)
        /\ \/ EndProc(k) /\ loop' = NoClick
           \/ business # "not_executed" /\ Moves(k, "click") /\ UNCHANGED loop
  BY DEF AckSucceeded
<1>3. RowWritten(k) /\ events'[k].ack = "succeeded"
      /\ events'[k].business = IF business = "same" THEN events[k].business ELSE business
  <2>1. business \in BusinessStates \cup {"same"} /\ "succeeded" \in AckStates \cup {"same"}
    BY DEF BusinessStates, AckStates
  <2> QED BY <1>1, <1>2, <2>1, Updating
<1>4. CASE EndProc(k) /\ loop' = NoClick
  BY <1>1, <1>3, <1>4, ProcessEnds DEF AckSucceeded, Transaction, Inside
<1>5. CASE business # "not_executed" /\ Moves(k, "click") /\ UNCHANGED loop
  <2>9. UNCHANGED replies
    BY DEF AckSucceeded
  <2>1. Moved(k, "click") /\ Answered(k, Reply(k))
    BY <1>1, <1>5, <2>9, Moving, Unanswered DEF ClickInv, Inside, Outside
  <2>2. Proc(k)' = "click" /\ Reply(k)' = "none" /\ k \notin DOMAIN hosted' /\ loop' = k
    BY <1>1, <1>5, <2>1 DEF Moved, Answered, AckSucceeded
  <2>3. k \in DOMAIN events' /\ events'[k].op = events[k].op
    BY <1>1, <1>3 DEF RowWritten
  <2>4. Placed(k)'
    <3>1. events[k].business \in Business0 /\ events'[k].business \in Business0
      BY <1>1, <1>3, <1>5 DEF ClickInv, Placed, Business0
    <3> QED BY <1>1, <1>3, <2>2, <2>3, <3>1 DEF ClickInv, Placed, Inside
  <2>5. Confirmed(k)'
    BY <1>1, <2>2 DEF ClickInv, Confirmed, Acked, AcksOf, AckSucceeded, Transaction
  <2>6. Paid(k)' => Paid(k)
    BY <1>1, <2>2 DEF Paid, AckSucceeded
  <2>7. Redeemed(k)'
    BY <1>1, <2>2, <2>6 DEF ClickInv, Redeemed, AckSucceeded
  <2>8. DOMAIN hosted' \subseteq Clicks /\ hosted' \in [DOMAIN hosted' -> HostStates]
        /\ runs' \in [Clicks -> Nat]
    BY DEF ClickInv, Types, AckSucceeded
  <2> QED BY <1>1, <1>3, <1>5, <2>1, <2>2, <2>4, <2>5, <2>6, <2>7, <2>8, QuietStep
          DEF AckSucceeded, Transaction
<1> QED BY <1>2, <1>4, <1>5

LEMMA MarkQueuedKeeps == ASSUME ClickInv, NEW k \in Clicks, MarkQueued(k) PROVE ClickInv'
<1>1. Proc(k) = "spent" /\ Managed(k) /\ loop = k /\ Reply(k) = "none" /\ k \in DOMAIN events
      /\ k \notin DOMAIN hosted /\ Kind[k] = "button"
  BY Holding DEF MarkQueued, Inside, ClickInv, Placed
<1>2. CASE Ends(k, "rejected")
  BY <1>1, <1>2, EndsKeeps DEF Inside, BusinessStates
<1>3. CASE /\ Update(k, "same", "queued") /\ Moves(k, "marked") /\ Transaction
           /\ UNCHANGED <<tickets, replies, loop, hosted, epoch, sent, runs>>
  <2>1. RowWritten(k) /\ events'[k].ack = events[k].ack /\ events'[k].business = "queued"
    BY <1>1, <1>3, Updating DEF BusinessStates
  <2>2. Moved(k, "marked") /\ Answered(k, Reply(k))
    BY <1>1, <1>3, Moving, Unanswered DEF ClickInv, Inside, Outside
  <2>3. Proc(k)' = "marked" /\ Reply(k)' = "none" /\ k \notin DOMAIN hosted' /\ loop' = k
    BY <1>1, <1>3, <2>2 DEF Moved, Answered
  <2>4. k \in DOMAIN events' /\ events'[k].op = events[k].op
    BY <1>1, <2>1 DEF RowWritten
  <2>5. Placed(k)'
    BY <1>1, <2>1, <2>3, <2>4 DEF ClickInv, Placed, Inside, Business0
  <2>6. Confirmed(k)'
    BY <1>1, <1>3, <2>3 DEF ClickInv, Confirmed, Acked, AcksOf, Transaction
  <2>7. Paid(k) /\ (Paid(k)' => Paid(k))
    BY <1>1 DEF Paid
  <2>8. Redeemed(k)'
    BY <1>1, <1>3, <2>3, <2>7 DEF ClickInv, Redeemed, Paid
  <2>9. DOMAIN hosted' \subseteq Clicks /\ hosted' \in [DOMAIN hosted' -> HostStates]
        /\ runs' \in [Clicks -> Nat]
    BY <1>3 DEF ClickInv, Types
  <2> QED BY <1>1, <1>3, <2>1, <2>2, <2>3, <2>5, <2>6, <2>7, <2>8, <2>9, QuietStep DEF Transaction
<1> QED BY <1>2, <1>3 DEF MarkQueued

LEMMA CommitKeeps == ASSUME ClickInv, NEW k \in Clicks, Commit(k) PROVE ClickInv'
<1>1. Proc(k) = "marked" /\ Managed(k) /\ loop = k /\ Reply(k) = "none" /\ k \in DOMAIN events
      /\ k \notin DOMAIN hosted /\ Kind[k] = "button" /\ events[k].business = "queued"
  BY Holding DEF Commit, Inside, ClickInv, Placed
<1>2. CASE \E state \in {"rejected", "unknown"} : Ends(k, state)
  BY <1>1, <1>2, EndsKeeps DEF Inside, BusinessStates
<1>3. CASE /\ hosted' = Extend(hosted, k, "queued") /\ EndProc(k) /\ loop' = NoClick
           /\ UNCHANGED <<ledger, events, tickets, replies, epoch, sent, runs>>
  <2>1. RowWritten(k)
    BY <1>3, Unwritten
  <2>2. Moved(k, "none") /\ Answered(k, Reply(k))
    BY <1>3, Ending, Unanswered DEF ClickInv
  <2>3. /\ DOMAIN hosted' = DOMAIN hosted \cup {k} /\ hosted'[k] = "queued"
        /\ \A x \in Clicks \ {k} : /\ x \in DOMAIN hosted' <=> x \in DOMAIN hosted
                                   /\ x \in DOMAIN hosted => hosted'[x] = hosted[x]
    BY <1>3 DEF Extend
  <2>4. Proc(k)' = "none" /\ Reply(k)' = "none" /\ loop' = NoClick /\ k # NoClick
    BY <1>1, <1>3, <2>2, ClicksAssumption DEF Moved, Answered
  <2>5. Placed(k)'
    BY <1>1, <1>3, <2>3, <2>4 DEF ClickInv, Placed, Inside
  <2>6. Confirmed(k)'
    BY <1>1, <1>3 DEF ClickInv, Confirmed, Acked, AcksOf, ledger
  <2>7. Paid(k) /\ (Paid(k)' => Paid(k))
    BY <1>1 DEF Paid
  <2>8. Redeemed(k)'
    BY <1>1, <1>3, <2>3, <2>4, <2>7 DEF ClickInv, Redeemed, Paid
  <2>9. DOMAIN hosted' \subseteq Clicks /\ hosted' \in [DOMAIN hosted' -> HostStates]
        /\ runs' \in [Clicks -> Nat]
    BY <1>3, <2>3 DEF ClickInv, Types, Extend, HostStates
  <2> QED BY <1>1, <1>3, <2>1, <2>2, <2>3, <2>4, <2>5, <2>6, <2>7, <2>8, <2>9, QuietStep DEF ledger
<1> QED BY <1>2, <1>3 DEF Commit

LEMMA HostAdmitsKeeps == ASSUME ClickInv, NEW k \in Clicks, HostAdmits(k) PROVE ClickInv'
<1>1. k \in DOMAIN hosted /\ hosted[k] = "queued" /\ Proc(k) = "none" /\ loop = NoClick
      /\ Kind[k] = "button" /\ runs[k] = 0 /\ runs \in [Clicks -> Nat]
  BY DEF HostAdmits, ClickInv, Placed, Redeemed, Types
<1>2. UNCHANGED <<ledger, events, tickets, inQueue, epoch, sent, runs>>
      /\ hosted' = [hosted EXCEPT ![k] = "admitted"]
  BY DEF HostAdmits
<1>3. RowWritten(k) /\ Moved(k, Proc(k)) /\ Answered(k, Reply(k))
  BY <1>2, Unwritten, Staying, Unanswered DEF ClickInv, inQueue
<1>4. /\ DOMAIN hosted' = DOMAIN hosted /\ hosted'[k] = "admitted" /\ runs' = runs
      /\ \A x \in Clicks \ {k} : hosted'[x] = hosted[x]
      /\ runs' \in [Clicks -> Nat] /\ DOMAIN hosted' \subseteq Clicks
      /\ hosted' \in [DOMAIN hosted' -> HostStates]
  <2>1. DOMAIN hosted \subseteq Clicks /\ hosted \in [DOMAIN hosted -> HostStates]
    BY DEF ClickInv, Types
  <2> QED BY <1>1, <1>2, <2>1 DEF HostStates
<1>5. Proc(k)' = Proc(k) /\ Reply(k)' = Reply(k)
  BY <1>3 DEF Moved, Answered
<1>6. Placed(k)'
  BY <1>1, <1>2, <1>4, <1>5 DEF ClickInv, Placed, inQueue
<1>7. Confirmed(k)'
  BY <1>1, <1>2 DEF ClickInv, Confirmed, Acked, AcksOf, ledger
<1>8. Paid(k)' => Paid(k)
  BY <1>1 DEF Paid
<1>9. Redeemed(k)'
  BY <1>1, <1>2, <1>4, <1>5, <1>8 DEF ClickInv, Redeemed, Paid
<1> QED BY <1>1, <1>2, <1>3, <1>4, <1>6, <1>7, <1>8, <1>9, QuietStep DEF ledger, inQueue

LEMMA HostRunsKeeps == ASSUME ClickInv, NEW k \in Clicks, HostRuns(k) PROVE ClickInv'
<1>1. k \in DOMAIN hosted /\ hosted[k] = "admitted" /\ Proc(k) = "none" /\ loop = NoClick
      /\ Kind[k] = "button" /\ runs[k] = 0 /\ runs \in [Clicks -> Nat]
  BY DEF HostRuns, ClickInv, Placed, Redeemed, Types
<1>2. UNCHANGED <<ledger, events, tickets, inQueue, epoch, sent>>
      /\ hosted' = [hosted EXCEPT ![k] = "running"] /\ runs' = [runs EXCEPT ![k] = @ + 1]
  BY DEF HostRuns
<1>3. RowWritten(k) /\ Moved(k, Proc(k)) /\ Answered(k, Reply(k))
  BY <1>2, Unwritten, Staying, Unanswered DEF ClickInv, inQueue
<1>4. /\ DOMAIN hosted' = DOMAIN hosted /\ hosted'[k] = "running" /\ runs'[k] = 1
      /\ \A x \in Clicks \ {k} : hosted'[x] = hosted[x] /\ runs'[x] = runs[x]
      /\ runs' \in [Clicks -> Nat] /\ DOMAIN hosted' \subseteq Clicks
      /\ hosted' \in [DOMAIN hosted' -> HostStates]
  <2>1. DOMAIN hosted \subseteq Clicks /\ hosted \in [DOMAIN hosted -> HostStates]
    BY DEF ClickInv, Types
  <2> QED BY <1>1, <1>2, <2>1 DEF HostStates
<1>5. Proc(k)' = Proc(k) /\ Reply(k)' = Reply(k)
  BY <1>3 DEF Moved, Answered
<1>6. Placed(k)'
  BY <1>1, <1>2, <1>4, <1>5 DEF ClickInv, Placed, inQueue
<1>7. Confirmed(k)'
  BY <1>1, <1>2 DEF ClickInv, Confirmed, Acked, AcksOf, ledger
<1>8. Paid(k)' => Paid(k)
  BY <1>1 DEF Paid
<1>9. Redeemed(k)'
  BY <1>1, <1>2, <1>4, <1>5, <1>8 DEF ClickInv, Redeemed, Paid
<1> QED BY <1>1, <1>2, <1>3, <1>4, <1>6, <1>7, <1>8, <1>9, QuietStep DEF ledger, inQueue

LEMMA HostEndsKeeps == ASSUME ClickInv, NEW k \in Clicks, HostEnds(k) PROVE ClickInv'
<1>1. k \in DOMAIN hosted /\ Proc(k) = "none" /\ loop = NoClick /\ k \in DOMAIN events
      /\ Kind[k] = "button"
  BY DEF HostEnds, ClickInv, Placed
<1>2. /\ hosted' = Restriction(hosted, DOMAIN hosted \ {k}) /\ Transaction
      /\ UNCHANGED <<tickets, inQueue, epoch, sent, runs>>
      /\ \E business \in {"finished_unconfirmed", "rejected"} : Update(k, "same", business)
  BY DEF HostEnds
<1>3. RowWritten(k) /\ events'[k].ack = events[k].ack
  BY <1>1, <1>2, Updating DEF BusinessStates
<1>4. Moved(k, "none") /\ Answered(k, Reply(k))
  BY <1>1, <1>2, Staying, Unanswered DEF ClickInv, inQueue
<1>5. /\ DOMAIN hosted' = DOMAIN hosted \ {k}
      /\ \A x \in Clicks \ {k} : x \in DOMAIN hosted => hosted'[x] = hosted[x]
      /\ DOMAIN hosted' \subseteq Clicks /\ hosted' \in [DOMAIN hosted' -> HostStates]
      /\ runs' \in [Clicks -> Nat]
  BY <1>2 DEF Restriction, ClickInv, Types
<1>6. Proc(k)' = "none" /\ Reply(k)' = Reply(k) /\ Reply(k) = "none" /\ k # NoClick
  BY <1>1, <1>4, ClicksAssumption DEF Moved, Answered, ClickInv, Placed, Managed
<1>7. k \in DOMAIN events' /\ events'[k].op = events[k].op
  BY <1>1, <1>3 DEF RowWritten
<1>8. Placed(k)'
  BY <1>1, <1>2, <1>3, <1>5, <1>6, <1>7 DEF ClickInv, Placed, Inside, inQueue
<1>9. Confirmed(k)'
  BY <1>1, <1>2 DEF ClickInv, Confirmed, Acked, AcksOf, Transaction
<1>10. Paid(k) /\ (Paid(k)' => Paid(k))
  BY <1>1 DEF Paid
<1>11. Redeemed(k)'
  BY <1>1, <1>2, <1>5, <1>6, <1>10 DEF ClickInv, Redeemed, Paid
<1> QED BY <1>1, <1>2, <1>3, <1>4, <1>5, <1>6, <1>8, <1>9, <1>10, <1>11, QuietStep
        DEF Transaction, inQueue

LEMMA HandlerStartsKeeps == ASSUME ClickInv, NEW k \in Clicks, HandlerStarts(k) PROVE ClickInv'
<1>1. Proc(k) = "gate" /\ loop = NoClick /\ Managed(k) /\ Reply(k) = "none" /\ k \in DOMAIN events
      /\ k \notin DOMAIN hosted /\ Kind[k] = "button" /\ runs[k] = 0 /\ runs \in [Clicks -> Nat]
  BY Holding DEF HandlerStarts, ClickInv, Placed, Redeemed, Types
<1>2. UNCHANGED <<ledger, events, tickets, replies, loop, hosted, epoch, sent>>
      /\ runs' = [runs EXCEPT ![k] = @ + 1] /\ Moves(k, "handler")
  BY DEF HandlerStarts
<1>3. RowWritten(k) /\ Moved(k, "handler") /\ Answered(k, Reply(k))
  BY <1>1, <1>2, Unwritten, Moving, Unanswered DEF ClickInv, Outside
<1>4. runs'[k] = 1 /\ runs' \in [Clicks -> Nat] /\ \A x \in Clicks \ {k} : runs'[x] = runs[x]
  BY <1>1, <1>2
<1>5. Proc(k)' = "handler" /\ Reply(k)' = "none"
  BY <1>1, <1>3 DEF Moved, Answered
<1>6. Placed(k)'
  BY <1>1, <1>2, <1>5, ClicksAssumption DEF ClickInv, Placed, Inside
<1>7. Confirmed(k)'
  BY <1>1, <1>2 DEF ClickInv, Confirmed, Acked, AcksOf, ledger
<1>8. Paid(k) /\ (Paid(k)' => Paid(k))
  BY <1>1 DEF Paid
<1>9. Redeemed(k)'
  BY <1>1, <1>2, <1>4, <1>5, <1>8 DEF ClickInv, Redeemed, Paid
<1>10. DOMAIN hosted' \subseteq Clicks /\ hosted' \in [DOMAIN hosted' -> HostStates]
  BY <1>2 DEF ClickInv, Types
<1> QED BY <1>1, <1>2, <1>3, <1>4, <1>5, <1>6, <1>7, <1>8, <1>9, <1>10, QuietStep DEF ledger

\* reply_interaction keeps a reply's task and its row apart from the click's
\* own task.
LEMMA AnswerStep ==
    ASSUME ClickInv, NEW k \in Clicks, Transaction, RowWritten(k), k \in DOMAIN events,
           events'[k].business = events[k].business, events[k].op \in Acks,
           UNCHANGED <<tickets, procs, hosted, epoch, sent, runs>>,
           NEW answer, Answered(k, answer),
           loop \in {k, NoClick}, loop' = NoClick,
           \/ answer = "none" /\ Reply(k) \in {"acked", "failed"}
           \/ answer = Reply(k) /\ loop = NoClick /\ (Reply(k) # "none" => events'[k].ack = "pending")
    PROVE  ClickInv'
<1>1. ~Managed(k) /\ Target[events[k].op] = k /\ Proc(k) \in {"none", "new"} /\ Kind[k] # "button"
      /\ events[k].op # NoAck /\ k # NoClick /\ k \notin DOMAIN hosted /\ ~Paid(k)
  <2>1. Placed(k) /\ Redeemed(k)
    BY DEF ClickInv
  <2>2. ~Managed(k) /\ Target[events[k].op] = k /\ Kind[k] # "button"
    BY <2>1 DEF Placed, Managed
  <2>3. Proc(k) \in {"none", "new"} /\ k \notin DOMAIN hosted
    BY <2>1, <2>2 DEF Placed
  <2> QED BY <2>1, <2>2, <2>3, ClicksAssumption DEF Redeemed
<1>2. Moved(k, Proc(k))
  BY Staying DEF ClickInv
<1>3. Proc(k)' = Proc(k) /\ Reply(k)' = answer /\ answer \notin {"acked", "failed"}
  BY <1>2, Holding DEF Moved, Answered
<1>4. k \in DOMAIN events' /\ events'[k].op = events[k].op
  BY DEF RowWritten
<1>5. Placed(k)'
  <2>1. Placed(k)
    BY DEF ClickInv
  <2> QED BY <1>1, <1>3, <1>4, <2>1 DEF Placed, Inside
<1>6. Confirmed(k)'
  <2>1. Confirmed(k) /\ UNCHANGED wire
    BY DEF ClickInv, Transaction
  <2> QED BY <1>1, <1>3, <2>1 DEF Confirmed, Acked, AcksOf
<1>7. Paid(k)' => Paid(k)
  BY <1>3 DEF Paid
<1>8. Redeemed(k)'
  BY <1>1, <1>3, <1>7 DEF ClickInv, Redeemed, Paid
<1>9. DOMAIN hosted' \subseteq Clicks /\ hosted' \in [DOMAIN hosted' -> HostStates]
      /\ runs' \in [Clicks -> Nat]
  BY DEF ClickInv, Types
<1> QED BY <1>1, <1>2, <1>3, <1>5, <1>6, <1>7, <1>8, <1>9, QuietStep DEF Transaction

LEMMA ReplyEndsKeeps == ASSUME ClickInv, NEW k \in Clicks, ReplyEnds(k) PROVE ClickInv'
<1>1. Reply(k) \in {"acked", "failed"} /\ loop = k /\ k \in DOMAIN events /\ events[k].op \in Acks
      /\ Transaction /\ loop' = NoClick /\ UNCHANGED <<tickets, procs, hosted, epoch, sent, runs>>
  BY Holding DEF ReplyEnds, ClickInv, Placed
<1>2. PICK ack \in {"succeeded", "unknown", "not_sent", "rejected"} : Update(k, ack, "same")
  BY DEF ReplyEnds
<1>3. RowWritten(k) /\ events'[k].business = events[k].business
  <2>1. ack \in AckStates
    BY DEF AckStates
  <2> QED BY <1>1, <1>2, <2>1, Updating
<1>4. Answered(k, "none")
  BY DEF ReplyEnds, Restriction, ClickInv, Types, Answered, Reply
<1> QED BY <1>1, <1>3, <1>4, AnswerStep

LEMMA ReplyRecoversKeeps == ASSUME ClickInv, NEW k \in Clicks, ReplyRecovers(k) PROVE ClickInv'
<1>1. /\ loop = NoClick /\ k \in DOMAIN events /\ events[k].op # NoAck
      /\ Outcome(events[k].op) = "succeeded" /\ Update(k, "succeeded", "same") /\ Transaction
      /\ UNCHANGED <<tickets, inQueue, hosted, epoch, sent, runs>>
  BY DEF ReplyRecovers
<1>2. events[k].op \in Acks
  BY <1>1 DEF ClickInv, Types
<1>3. Reply(k) \notin {"acked", "failed"} /\ Reply(k) \in {"none", "ack", "acked", "failed"}
  BY <1>1, Holding DEF ClickInv, Types, Reply
<1>4. Reply(k) # "ack"
  <2>1. ASSUME Reply(k) = "ack" PROVE events[k].op \in DOMAIN tasks
    BY <2>1 DEF ClickInv, Awaited
  <2>2. \A op \in DOMAIN tasks : op \in DOMAIN ops /\ ops[op].state \in {"reserved", "in_flight"}
    BY DEF ClickInv, LedgerInv, LP!Inv, LP!TypeOK
  <2> QED BY <1>1, <2>1, <2>2 DEF Outcome
<1>5. RowWritten(k) /\ events'[k].business = events[k].business
  BY <1>1, Updating DEF AckStates
<1>6. Answered(k, Reply(k))
  BY <1>1, Unanswered DEF ClickInv, inQueue
<1> QED BY <1>1, <1>2, <1>3, <1>4, <1>5, <1>6, AnswerStep DEF inQueue

-----------------------------------------------------------------------------
(* Tickets.                                                                *)

Ticket == [used : BOOLEAN, expires : Nat, epoch : Nat]
TicketsFit == /\ tickets \in [DOMAIN tickets -> Ticket] /\ DOMAIN tickets \subseteq Tickets
              /\ FollowUsed

\* A new ticket that no card of a used one waits for, or the one that does.
LEMMA Extending ==
    ASSUME ClickInv, NEW s, DOMAIN s = DOMAIN tickets, s \in [DOMAIN tickets -> Ticket],
           \A u \in DOMAIN tickets : tickets[u].used => s[u].used,
           NEW t \in Tickets, t \notin DOMAIN tickets,
           \A u \in Tickets : Follow[u] = t => u \in DOMAIN tickets /\ s[u].used,
           tickets' = Extend(s, t, [used |-> FALSE, expires |-> Now + Ttl, epoch |-> epoch])
    PROVE  TicketsFit' /\ TicketsStay
<1> DEFINE new == [used |-> FALSE, expires |-> Now + Ttl, epoch |-> epoch]
<1>1. new \in Ticket
  <2>1. Now + Ttl \in Nat /\ epoch \in Nat
    BY NowIsTime, BoundsAssumption DEF ClickInv, Types
  <2> QED BY <2>1 DEF Ticket
<1> HIDE DEF new
<1>2. /\ DOMAIN tickets' = DOMAIN tickets \cup {t} /\ tickets'[t] = new
      /\ \A u \in DOMAIN tickets : tickets'[u] = s[u]
  BY DEF Extend, new
<1>3. tickets' \in [DOMAIN tickets' -> Ticket]
  <2>1. \A u \in DOMAIN tickets' : tickets'[u] \in Ticket
    BY <1>1, <1>2
  <2> QED BY <2>1 DEF Extend
<1>4. DOMAIN tickets' \subseteq Tickets
  BY <1>2 DEF ClickInv, Types
<1>5. FollowUsed'
  BY <1>2 DEF ClickInv, FollowUsed
<1>6. TicketsStay
  BY <1>2 DEF TicketsStay
<1> QED BY <1>3, <1>4, <1>5, <1>6 DEF TicketsFit

\* A click in the middle of its code, for what it does next.
LEMMA Redeeming ==
    ASSUME ClickInv, NEW k \in Clicks, Redeem(k)
    PROVE  /\ TicketsFit' /\ TicketsStay
           /\ Token[k] \in DOMAIN tickets' /\ tickets'[Token[k]].used
           /\ \A l \in Clicks : Token[l] = Token[k] => ~Paid(l)
<1> DEFINE t == Token[k]
           spent == [tickets EXCEPT ![t].used = TRUE]
<1>1. /\ t \in DOMAIN tickets /\ ~tickets[t].used /\ t \in Tickets
      /\ tickets \in [DOMAIN tickets -> Ticket] /\ DOMAIN tickets \subseteq Tickets /\ FollowUsed
  BY DEF Redeem, Valid, ClickInv, Types, Ticket
<1>2. \A l \in Clicks : Token[l] = t => ~Paid(l)
  BY <1>1 DEF ClickInv, Redeemed
<1>3. /\ DOMAIN spent = DOMAIN tickets /\ spent \in [DOMAIN tickets -> Ticket] /\ spent[t].used
      /\ \A u \in DOMAIN tickets : tickets[u].used => spent[u].used
  BY <1>1 DEF Ticket
<1>4. tickets' = IF Intent[t] = "confirm" /\ Follow[t] # NoTicket
                 THEN Extend(spent, Follow[t], [used |-> FALSE, expires |-> Now + Ttl,
                                                epoch |-> epoch])
                 ELSE spent
  BY DEF Redeem
<1> HIDE DEF spent
<1>5. CASE tickets' = spent
  <2>1. FollowUsed' /\ TicketsStay
    BY <1>1, <1>3, <1>5 DEF FollowUsed, TicketsStay
  <2> QED BY <1>1, <1>2, <1>3, <1>5, <2>1 DEF TicketsFit
<1>6. CASE /\ Follow[t] # NoTicket
           /\ tickets' = Extend(spent, Follow[t], [used |-> FALSE, expires |-> Now + Ttl,
                                                   epoch |-> epoch])
  <2>1. Follow[t] \in Tickets /\ Follow[t] \notin DOMAIN tickets
    BY <1>1, <1>6, ClicksAssumption DEF FollowUsed
  <2>2. \A u \in Tickets : Follow[u] = Follow[t] => u \in DOMAIN tickets /\ spent[u].used
    BY <1>1, <1>3, <1>6, ClicksAssumption
  <2>3. TicketsFit' /\ TicketsStay
    BY <1>3, <1>6, <2>1, <2>2, Extending
  <2>4. t \in DOMAIN tickets' /\ tickets'[t].used
    BY <1>1, <1>3, <1>6, <2>1 DEF Extend
  <2> QED BY <1>2, <2>3, <2>4
<1> QED BY <1>4, <1>5, <1>6

LEMMA RedeemKeepsInv == ASSUME ClickInv, NEW k \in Clicks, Redeem(k) PROVE ClickInv'
<1>1. Proc(k) = "click" /\ Managed(k) /\ loop = k /\ Reply(k) = "none" /\ k \in DOMAIN events
      /\ k \notin DOMAIN hosted /\ Kind[k] = "button"
  BY Holding DEF Redeem, Inside
<1>2. /\ TicketsFit' /\ TicketsStay /\ Token[k] \in DOMAIN tickets' /\ tickets'[Token[k]].used
      /\ \A l \in Clicks : Token[l] = Token[k] => ~Paid(l)
  BY Redeeming
<1>3. PICK at \in {"spent", "confirm", "gate"} :
        /\ Moves(k, at) /\ loop' = IF at = "spent" THEN k ELSE NoClick
        /\ at = "gate" => Intent[Token[k]] = "callback"
        /\ at = "spent" => Intent[Token[k]] = "execute"
  <2>1. Intent[Token[k]] \in {"execute", "confirm", "callback"}
    BY ClicksAssumption DEF Redeem, Valid, ClickInv, Types
  <2> QED BY <2>1 DEF Redeem
<1>4. Transaction /\ UNCHANGED <<events, replies, hosted, epoch, sent, runs>>
  BY DEF Redeem
<1>5. Moved(k, at) /\ Answered(k, "none")
  BY <1>1, <1>3, <1>4, Moving, Unanswered DEF ClickInv, Inside, Outside
<1>6. Proc(k)' = at /\ Reply(k)' = "none" /\ ~Paid(k) /\ runs[k] = 0
  <2>1. ~Paid(k) /\ runs[k] \in Nat
    BY <1>2 DEF ClickInv, Types
  <2> QED BY <1>5, <2>1 DEF Moved, Answered, Paid
<1>7. LedgerInv' /\ AckedStays
  BY <1>4, LedgerQuiet DEF Transaction, ClickInv
<1>8. \A x \in Clicks \ {k} : Untouched(x)
  <2>1. \A x \in Clicks \ {k} : (loop' = x <=> loop = x) /\ Proc(x)' = Proc(x) /\ Reply(x)' = Reply(x)
    BY <1>1, <1>3, <1>5, ClicksAssumption DEF Moved, Answered
  <2>2. \A x \in Clicks \ {k} : Proc(x) # "none" \/ Reply(x) # "none" \/ x \in DOMAIN hosted
           => x \in DOMAIN events
    BY DEF ClickInv, Placed
  <2> QED BY <1>4, <2>1, <2>2, Zenon DEF Untouched
<1>9. Types'
  <2>1. loop' \in Clicks \cup {NoClick} /\ epoch' \in Nat /\ sent' \in [Clicks -> Int]
        /\ runs' \in [Clicks -> Nat] /\ DOMAIN hosted' \subseteq Clicks
        /\ hosted' \in [DOMAIN hosted' -> HostStates]
        /\ DOMAIN events' \subseteq Clicks /\ events' \in [DOMAIN events' -> Row]
    BY <1>3, <1>4 DEF ClickInv, Types, Row
  <2> QED BY <1>2, <1>5, <2>1, Zenon DEF Types, Moved, Answered, Row, TicketsFit, Ticket
<1>10. Placed(k)'
  BY <1>1, <1>3, <1>4, <1>6, ClicksAssumption DEF ClickInv, Placed, Inside
<1>11. Confirmed(k)'
  BY <1>1, <1>4 DEF ClickInv, Confirmed, Acked, AcksOf, Transaction
<1>12. Redeemed(k)'
  BY <1>1, <1>2, <1>3, <1>4, <1>6 DEF Redeemed, Paid
<1>13. \A op \in DOMAIN tasks' : op \in DOMAIN tasks /\ Target[op] # k
  BY <1>1, <1>4 DEF Transaction, ClickInv, TasksFit
<1> QED BY <1>2, <1>4, <1>6, <1>7, <1>8, <1>9, <1>10, <1>11, <1>12, <1>13, OneClick
        DEF Transaction, TicketsFit

-----------------------------------------------------------------------------
(* Steps that touch no click: the world, cards, settings, requests.        *)

LEMMA NoClickMoves ==
    ASSUME ClickInv, UNCHANGED <<events, inQueue, hosted, runs>>,
           LedgerInv', AckedStays, DOMAIN tasks' = DOMAIN tasks,
           TicketsFit', TicketsStay, epoch' \in Nat, sent' \in [Clicks -> Int]
    PROVE  ClickInv'
<1>1. \A x \in Clicks : Untouched(x)
  <2>1. \A x \in Clicks : Proc(x) # "none" \/ Reply(x) # "none" \/ x \in DOMAIN hosted
           => x \in DOMAIN events
    BY DEF ClickInv, Placed
  <2>2. \A x \in Clicks : Proc(x)' = Proc(x) /\ Reply(x)' = Reply(x)
    BY DEF inQueue, Proc, Reply
  <2> QED BY <2>1, <2>2 DEF Untouched, inQueue
<1>2. \A x \in Clicks : Placed(x)' /\ Confirmed(x)' /\ Redeemed(x)'
  BY <1>1, PlacedStays, ConfirmedStays, RedeemedStays DEF ClickInv
<1>3. Exclusive'
  <2>1. \A x \in Clicks : Paid(x)' <=> Paid(x)
    BY <1>1, PaidStays
  <2> QED BY <2>1, Zenon DEF ClickInv, Exclusive
<1>4. TasksFit' /\ Awaited'
  BY DEF ClickInv, TasksFit, Awaited, Proc, Reply, inQueue
<1>5. Types'
  <2>1. /\ DOMAIN events' \subseteq Clicks /\ events' \in [DOMAIN events' -> Row]
        /\ DOMAIN procs' \subseteq Clicks /\ procs' \in [DOMAIN procs' -> Inside \cup Outside]
        /\ DOMAIN replies' \subseteq Clicks
        /\ replies' \in [DOMAIN replies' -> {"ack", "acked", "failed"}]
        /\ DOMAIN hosted' \subseteq Clicks /\ hosted' \in [DOMAIN hosted' -> HostStates]
        /\ loop' \in Clicks \cup {NoClick} /\ runs' \in [Clicks -> Nat]
    BY DEF ClickInv, Types, Row, inQueue
  <2> QED BY <2>1, Zenon DEF Types, TicketsFit, Ticket, Row
<1> QED BY <1>2, <1>3, <1>4, <1>5 DEF ClickInv, TicketsFit

LEMMA TicketsSame == ASSUME ClickInv, UNCHANGED tickets PROVE TicketsFit' /\ TicketsStay
BY DEF ClickInv, Types, FollowUsed, TicketsFit, TicketsStay, Ticket

LEMMA IssueKeeps == ASSUME ClickInv, NEW t \in Tickets, Issue(t) PROVE ClickInv'
<1>1. TicketsFit' /\ TicketsStay
  <2>1. /\ t \notin DOMAIN tickets /\ \A u \in Tickets : Follow[u] # t
        /\ tickets' = Extend(tickets, t, [used |-> FALSE, expires |-> Now + Ttl, epoch |-> epoch])
        /\ tickets \in [DOMAIN tickets -> Ticket]
    BY DEF Issue, ClickInv, Types, Ticket
  <2> QED BY <2>1, Extending
<1>2. LedgerInv' /\ AckedStays
  BY LedgerQuiet DEF Issue, Transaction, ClickInv
<1>3. epoch' \in Nat /\ sent' \in [Clicks -> Int]
  BY DEF Issue, ClickInv, Types
<1> QED BY <1>1, <1>2, <1>3, NoClickMoves DEF Issue, Transaction

LEMMA ClickKeeps == ASSUME ClickInv, NEW k \in Clicks, Click(k) PROVE ClickInv'
<1>1. TicketsFit' /\ TicketsStay
  BY TicketsSame DEF Click
<1>2. LedgerInv' /\ AckedStays
  BY LedgerQuiet DEF Click, ledger, ClickInv
<1>3. epoch' \in Nat /\ sent' \in [Clicks -> Int]
  <2>1. clock \in Int /\ sent \in [Clicks -> Int] /\ epoch \in Nat
    BY NowIsTime DEF ClickInv, Types
  <2> QED BY <2>1 DEF Click
<1> QED BY <1>1, <1>2, <1>3, NoClickMoves DEF Click, ledger

LEMMA ConfigureKeeps == ASSUME ClickInv, Configure PROVE ClickInv'
<1>1. TicketsFit' /\ TicketsStay
  BY TicketsSame DEF Configure
<1>2. LedgerInv' /\ AckedStays
  BY LedgerQuiet DEF Configure, ledger, ClickInv
<1>3. epoch' \in Nat /\ sent' \in [Clicks -> Int]
  BY DEF Configure, ClickInv, Types
<1> QED BY <1>1, <1>2, <1>3, NoClickMoves DEF Configure, ledger

LEMMA SameElsewhere == ASSUME ClickInv, UNCHANGED <<epoch, sent>>
                       PROVE  epoch' \in Nat /\ sent' \in [Clicks -> Int]
BY DEF ClickInv, Types

LEMMA AroundKeeps == ASSUME ClickInv, Around PROVE ClickInv'
<1>1. LP!Prune \/ LP!SetClock \/ \E i \in DOMAIN wire : LP!QQActs(i)
  BY WorldIs DEF Around
<1>2. LP!WireKept /\ UNCHANGED tasks /\ (LP!Entire => LP!Entire')
  BY <1>1, LP!WorldEffect, LimitsHold DEF ClickInv, LedgerInv
<1>3. LP!Inv'
  BY <1>1, LP!NextKeeps, LimitsHold DEF ClickInv, LedgerInv, LP!Next
<1>4. LedgerInv' /\ AckedStays
  BY <1>2, <1>3, KeptStays DEF LedgerInv, ClickInv
<1> QED BY <1>2, <1>4, TicketsSame, SameElsewhere, NoClickMoves DEF Around

LEMMA SubmitStays == ASSUME ClickInv, NEW op \in Acks, L!Submit(op)
                     PROVE  LedgerInv' /\ AckedStays /\ DOMAIN tasks' = DOMAIN tasks
<1>1. LP!Submit(op)
  BY SubmitIs
<1>2. /\ DOMAIN tasks' = DOMAIN tasks /\ (LP!Entire => LP!Entire')
      /\ wire \in Seq(LP!Request) /\ LP!Now \in Nat
      /\ wire' = Append(wire, [op |-> op, fate |-> "open", at |-> LP!Now])
  BY <1>1, LP!SubmitEffect, LimitsHold DEF ClickInv, LedgerInv
<1>3. LP!Inv'
  BY <1>1, LP!SubmitKeeps, LimitsHold DEF ClickInv, LedgerInv
<1>4. [op |-> op, fate |-> "open", at |-> LP!Now] \in LP!Request
  BY <1>2 DEF LP!Request
<1>5. /\ DOMAIN wire \subseteq DOMAIN wire' /\ \A i \in DOMAIN wire : wire'[i] = wire[i]
  BY <1>2, <1>4, AppendProperties
<1>6. AckedStays
  BY <1>5 DEF AckedStays, Acked, AcksOf
<1> QED BY <1>2, <1>3, <1>6 DEF LedgerInv, ClickInv

LEMMA SendAckKeeps == ASSUME ClickInv, NEW op \in Acks, SendAck(op) PROVE ClickInv'
BY SubmitStays, TicketsSame, SameElsewhere, NoClickMoves DEF SendAck

LEMMA AckRetriedKeeps == ASSUME ClickInv, NEW op \in Acks, AckRetried(op) PROVE ClickInv'
<1>1. LP!Unauthorized(op)
  BY UnauthorizedIs DEF AckRetried
<1>2. DOMAIN tasks' = DOMAIN tasks /\ UNCHANGED <<clock, water, ops, wire>>
  BY <1>1, LP!UnauthorizedEffect, LimitsHold DEF ClickInv, LedgerInv
<1>3. LP!Inv'
  BY <1>1, LP!UnauthorizedKeeps, LimitsHold DEF ClickInv, LedgerInv
<1>4. LedgerInv' /\ AckedStays
  BY <1>2, <1>3 DEF LedgerInv, ClickInv, LP!Entire, AckedStays, Acked, AcksOf
<1> QED BY <1>2, <1>4, TicketsSame, SameElsewhere, NoClickMoves DEF AckRetried

-----------------------------------------------------------------------------
(* Clicks come in and are acknowledged.                                    *)

\* Only rows that are settled make room, and they are a day old or of a click
\* nobody can answer any more.
LEMMA MakingRoom ==
    ASSUME NEW e \in MadeRoom
    PROVE  /\ DOMAIN e \subseteq DOMAIN events /\ \A x \in DOMAIN e : e[x] = events[x]
           /\ \A x \in DOMAIN events \ DOMAIN e :
                 Settled(events[x]) /\ (events[x].updated <= Now - Day \/ sent[x] <= Now - Window)
BY ZenonT(30) DEF MadeRoom, Restriction

LEMMA AcceptKeeps == ASSUME ClickInv, NEW k \in Clicks, Accept(k) PROVE ClickInv'
<1> DEFINE row == [ack |-> IF Managed(k) THEN "pending" ELSE "not_required",
                   business |-> "pending", op |-> NoAck, updated |-> Now]
<1>1. PICK e \in MadeRoom : events' = Extend(e, k, row)
  BY DEF Accept
<1>2. /\ loop = NoClick /\ k \notin DOMAIN events /\ procs' = Extend(procs, k, "new") /\ Transaction
      /\ UNCHANGED <<tickets, replies, loop, hosted, epoch, sent, runs>>
  BY DEF Accept
<1>3. /\ DOMAIN e \subseteq DOMAIN events /\ \A x \in DOMAIN e : e[x] = events[x]
      /\ \A x \in DOMAIN events \ DOMAIN e : Settled(events[x])
  BY MakingRoom
<1>4. row \in Row /\ row.op = NoAck /\ row.business = "pending"
      /\ row.ack = IF Managed(k) THEN "pending" ELSE "not_required"
  BY NowIsTime DEF ClickInv, Row, AckStates, BusinessStates
<1> HIDE DEF row
<1>5. /\ DOMAIN events' = DOMAIN e \cup {k} /\ events'[k] = row
      /\ \A x \in DOMAIN events' \ {k} : x \in DOMAIN events /\ events'[x] = events[x]
  BY <1>1, <1>2, <1>3 DEF Extend
<1>6. DOMAIN events' \subseteq Clicks /\ events' \in [DOMAIN events' -> Row]
  <2>1. DOMAIN events \subseteq Clicks /\ events \in [DOMAIN events -> Row]
    BY DEF ClickInv, Types, Row
  <2>2. \A x \in DOMAIN events' : x \in Clicks /\ events'[x] \in Row
    BY <1>4, <1>5, <2>1
  <2> QED BY <1>1, <2>2 DEF Extend
<1>7. Moved(k, "new") /\ Answered(k, Reply(k))
  <2>1. Moved(k, "new")
    BY <1>2 DEF ClickInv, Types, Extend, Moved, Proc, Outside
  <2> QED BY <1>2, <2>1, Unanswered DEF ClickInv
<1>8. Proc(k) = "none" /\ Reply(k) = "none" /\ k \notin DOMAIN hosted
  BY <1>2 DEF ClickInv, Placed
<1>9. \A x \in Clicks \ {k} : Untouched(x)
  <2> SUFFICES ASSUME NEW x \in Clicks \ {k} PROVE Untouched(x)
    OBVIOUS
  <2>1. ASSUME Proc(x) # "none" \/ Reply(x) # "none" \/ x \in DOMAIN hosted
        PROVE  x \in DOMAIN events'
    <3>1. x \in DOMAIN events
          /\ (events[x].business \in {"pending", "admitted", "queued"} \/ events[x].ack = "pending")
      BY <2>1 DEF ClickInv, Placed, Business0
    <3>2. ~Settled(events[x])
      BY <3>1 DEF Settled
    <3> QED BY <1>3, <1>5, <3>1, <3>2
  <2>2. Proc(x)' = Proc(x) /\ Reply(x)' = Reply(x)
    BY <1>7 DEF Moved, Answered
  <2> QED BY <1>2, <1>5, <2>1, <2>2, Zenon DEF Untouched
<1>10. LedgerInv' /\ AckedStays
  BY <1>2, LedgerQuiet DEF Transaction, ClickInv
<1>11. TicketsFit' /\ TicketsStay
  BY <1>2, TicketsSame
<1>12. Types'
  <2>1. loop' \in Clicks \cup {NoClick} /\ epoch' \in Nat /\ sent' \in [Clicks -> Int]
        /\ runs' \in [Clicks -> Nat] /\ DOMAIN hosted' \subseteq Clicks
        /\ hosted' \in [DOMAIN hosted' -> HostStates]
    BY <1>2 DEF ClickInv, Types
  <2> QED BY <1>6, <1>7, <1>11, <2>1, Zenon DEF Types, Moved, Answered, Row, TicketsFit, Ticket
<1>13. Proc(k)' = "new" /\ Reply(k)' = "none"
  BY <1>7, <1>8 DEF Moved, Answered
<1>14. Placed(k)'
  BY <1>2, <1>4, <1>5, <1>8, <1>13, ClicksAssumption DEF Placed, Inside, Business0
<1>15. Confirmed(k)'
  BY <1>2, <1>8, <1>13 DEF ClickInv, Confirmed, Acked, AcksOf, Transaction
<1>16. Paid(k)' => Paid(k)
  BY <1>2, <1>13 DEF Paid
<1>17. Redeemed(k)'
  BY <1>2, <1>8, <1>13, <1>16 DEF ClickInv, Redeemed
<1>18. \A op \in DOMAIN tasks' : op \in DOMAIN tasks /\ Target[op] # k
  BY <1>2, <1>8 DEF Transaction, ClickInv, TasksFit
<1> QED BY <1>2, <1>9, <1>10, <1>11, <1>12, <1>13, <1>14, <1>15, <1>16, <1>17, <1>18, OneClick
        DEF Transaction, TicketsFit

\* A write ended, and the code that waited for it runs on.
LEMMA ContinueKeeps ==
    ASSUME ClickInv, NEW op \in Acks, L!Fails(op) \/ L!Confirmed(op),
           NEW at \in {"acked", "failed"}, Continue(op, at),
           at = "acked" => Acked(Target[op])
    PROVE  ClickInv'
<1> DEFINE k == Target[op]
<1>1. k \in Clicks
  BY ClicksAssumption
<1>2. LP!Fails(op) \/ LP!Confirmed(op)
  BY FailsIs, ConfirmedIs
<1>3. LP!WireKept /\ (LP!Entire => LP!Entire') /\ op \in DOMAIN tasks
      /\ DOMAIN tasks' = DOMAIN tasks \ {op}
  BY <1>2, LP!EndingEnds, LimitsHold DEF ClickInv, LedgerInv, LP!Ended
<1>4. LP!Inv'
  BY <1>2, LP!FailsKeeps, LimitsHold DEF ClickInv, LedgerInv
<1>5. LedgerInv' /\ AckedStays
  BY <1>3, <1>4, KeptStays DEF LedgerInv, ClickInv
<1>6. /\ loop = NoClick /\ loop' = k /\ UNCHANGED <<events, tickets, hosted, epoch, sent, runs>>
      /\ IF Managed(k) THEN procs' = [procs EXCEPT ![k] = at] /\ UNCHANGED replies
                       ELSE replies' = [replies EXCEPT ![k] = at] /\ UNCHANGED procs
  BY DEF Continue
<1>7. IF Managed(k) THEN Proc(k) = "ack" ELSE Reply(k) = "ack" /\ events[k].op = op
  BY <1>3 DEF ClickInv, TasksFit
<1> HIDE DEF k
<1>8. /\ Moved(k, IF Managed(k) THEN at ELSE Proc(k))
      /\ Answered(k, IF Managed(k) THEN Reply(k) ELSE at)
  <2>1. CASE Managed(k)
    BY <1>1, <1>6, <1>7, <2>1, Moving, Unanswered DEF ClickInv, Moves, Inside
  <2>2. CASE ~Managed(k)
    <3>1. Answered(k, at)
      BY <1>1, <1>6, <1>7, <2>2 DEF ClickInv, Types, Answered, Reply
    <3> QED BY <1>1, <1>6, <2>2, <3>1, Staying DEF ClickInv
  <2> QED BY <2>1, <2>2
<1>9. \A x \in Clicks \ {k} : Untouched(x)
  <2>1. \A x \in Clicks \ {k} : (loop' = x <=> loop = x) /\ Proc(x)' = Proc(x) /\ Reply(x)' = Reply(x)
    BY <1>6, <1>8, ClicksAssumption DEF Moved, Answered
  <2>2. \A x \in Clicks \ {k} : Proc(x) # "none" \/ Reply(x) # "none" \/ x \in DOMAIN hosted
           => x \in DOMAIN events
    BY DEF ClickInv, Placed
  <2> QED BY <1>6, <2>1, <2>2, Zenon DEF Untouched
<1>10. TicketsFit' /\ TicketsStay
  BY <1>6, TicketsSame
<1>11. Types'
  <2>1. loop' \in Clicks \cup {NoClick} /\ epoch' \in Nat /\ sent' \in [Clicks -> Int]
        /\ runs' \in [Clicks -> Nat] /\ DOMAIN hosted' \subseteq Clicks
        /\ hosted' \in [DOMAIN hosted' -> HostStates]
        /\ DOMAIN events' \subseteq Clicks /\ events' \in [DOMAIN events' -> Row]
    BY <1>1, <1>6 DEF ClickInv, Types, Row
  <2> QED BY <1>8, <1>10, <2>1, Zenon DEF Types, Moved, Answered, Row, TicketsFit, Ticket
<1>12. \A o \in DOMAIN tasks' : o \in DOMAIN tasks /\ Target[o] # k
  <2> SUFFICES ASSUME NEW o \in DOMAIN tasks, Target[o] = k PROVE o = op
    BY <1>3
  <2>1. o \in Acks /\ (~Managed(k) => events[k].op = o)
    BY DEF ClickInv, TasksFit
  <2> QED BY <1>7, <2>1, ClicksAssumption DEF Managed, k
<1>13. Proc(k)' = (IF Managed(k) THEN at ELSE Proc(k))
       /\ Reply(k)' = (IF Managed(k) THEN Reply(k) ELSE at)
  BY <1>8 DEF Moved, Answered
<1>14. Placed(k)'
  <2>1. Placed(k)
    BY <1>1 DEF ClickInv
  <2> QED BY <1>1, <1>6, <1>7, <1>13, <2>1, ClicksAssumption DEF Placed, Inside
<1>15. Confirmed(k)'
  <2>1. Confirmed(k) /\ (Acked(k) => Acked(k)')
    BY <1>1, <1>5 DEF ClickInv, AckedStays
  <2>2. at = "acked" => Acked(k)
    BY DEF k
  <2> QED BY <1>6, <1>13, <2>1, <2>2 DEF Confirmed
<1>16. Paid(k)' => Paid(k)
  BY <1>6, <1>13 DEF Paid
<1>17. Redeemed(k)'
  BY <1>1, <1>6, <1>13, <1>16 DEF ClickInv, Redeemed
<1>18. \A o \in DOMAIN tasks : o \in DOMAIN tasks' \/ Target[o] = k
  BY <1>3 DEF k
<1>19. Reply(k)' # "ack"
  BY <1>7, <1>13, <1>1 DEF ClickInv, Placed
<1> QED BY <1>1, <1>5, <1>9, <1>10, <1>11, <1>12, <1>14, <1>15, <1>16, <1>17, <1>18, <1>19, OneClick
        DEF TicketsFit

LEMMA AckConfirmedKeeps == ASSUME ClickInv, NEW op \in Acks, AckConfirmed(op) PROVE ClickInv'
<1>1. Acked(Target[op])
  <2>1. LP!Task(op) = "wire" /\ LP!Verdict(op) = "accepted"
    BY ConfirmedIs DEF AckConfirmed, LP!Confirmed
  <2>2. op \in DOMAIN tasks /\ tasks[op].pc = "wire" /\ wire[tasks[op].req].fate = "accepted"
    BY <2>1 DEF LP!Task, LP!Verdict
  <2>3. tasks[op].req \in DOMAIN wire /\ wire[tasks[op].req].op = op
    BY <2>2 DEF ClickInv, LedgerInv, LP!Inv, LP!TypeOK
  <2> QED BY <2>2, <2>3 DEF Acked, AcksOf
<1> QED BY <1>1, ContinueKeeps DEF AckConfirmed

LEMMA AckFailsKeeps == ASSUME ClickInv, NEW op \in Acks, AckFails(op) PROVE ClickInv'
BY ContinueKeeps DEF AckFails

\* begin, for an id nobody has a write under way for.
LEMMA Starting ==
    ASSUME ClickInv, NEW op \in Acks, L!Begin(op) \/ L!Refused(op), op \notin DOMAIN tasks
    PROVE  /\ LedgerInv' /\ AckedStays
           /\ \/ DOMAIN tasks' = DOMAIN tasks \cup {op} /\ L!Task(op)' = "ready"
              \/ DOMAIN tasks' = DOMAIN tasks /\ L!Task(op)' = "idle"
<1>1. CASE L!Begin(op)
  <2>1. LP!Begin(op)
    BY <1>1, BeginIs
  <2>2. /\ LP!WireKept /\ (LP!Entire => LP!Entire')
        /\ \/ DOMAIN tasks' = DOMAIN tasks \cup {op} /\ LP!Task(op)' = "ready"
           \/ UNCHANGED tasks
    BY <2>1, LP!BeginEffect, LimitsHold DEF ClickInv, LedgerInv
  <2>3. LP!Inv'
    BY <2>1, LP!BeginKeeps, LimitsHold DEF ClickInv, LedgerInv
  <2> QED BY <2>2, <2>3, KeptStays DEF ClickInv, LedgerInv, L!Task, LP!Task
<1>2. CASE L!Refused(op)
  <2>1. LP!Prune \/ UNCHANGED LP!vars
    BY <1>2, RefusedIs DEF LP!Refused
  <2>2. LP!Inv'
    BY <2>1, LP!NextKeeps, LimitsHold DEF ClickInv, LedgerInv, LP!Next
  <2>3. LP!WireKept /\ UNCHANGED tasks /\ (LP!Entire => LP!Entire')
    <3>1. CASE LP!Prune
      BY <3>1, LP!WorldEffect, LimitsHold DEF ClickInv, LedgerInv
    <3>2. CASE UNCHANGED LP!vars
      BY <3>2, LP!WireSame, LimitsHold DEF ClickInv, LedgerInv, LP!Inv, LP!vars, LP!Entire
    <3> QED BY <2>1, <3>1, <3>2
  <2> QED BY <2>2, <2>3, KeptStays DEF ClickInv, LedgerInv, L!Task
<1> QED BY <1>1, <1>2

LEMMA StartAckKeeps == ASSUME ClickInv, NEW k \in Clicks, StartAck(k) PROVE ClickInv'
<1> DEFINE op == AckOp(k)
<1>1. /\ loop = NoClick /\ Proc(k) = "new" /\ Managed(k)
      /\ UNCHANGED <<events, tickets, replies, hosted, epoch, sent, runs>>
      /\ L!Begin(op) \/ L!Refused(op)
      /\ IF L!Task(op)' = "ready" THEN Moves(k, "ack") /\ UNCHANGED loop
                                  ELSE Moves(k, "failed") /\ loop' = k
  BY DEF StartAck
<1>2. op \in Acks /\ Target[op] = k
  BY <1>1, ClicksAssumption DEF AckOp, Managed
<1> HIDE DEF op
<1>3. \A o \in DOMAIN tasks : Target[o] # k
  BY <1>1 DEF ClickInv, TasksFit
<1>4. /\ LedgerInv' /\ AckedStays
      /\ \/ DOMAIN tasks' = DOMAIN tasks \cup {op} /\ L!Task(op)' = "ready"
         \/ DOMAIN tasks' = DOMAIN tasks /\ L!Task(op)' = "idle"
  BY <1>1, <1>2, <1>3, Starting
<1>5. PICK at \in {"ack", "failed"} :
        /\ Moves(k, at) /\ loop' = IF at = "ack" THEN NoClick ELSE k
        /\ DOMAIN tasks' = IF at = "ack" THEN DOMAIN tasks \cup {op} ELSE DOMAIN tasks
  BY <1>1, <1>4
<1>6. Moved(k, at) /\ Answered(k, Reply(k)) /\ Reply(k) = "none" /\ k \notin DOMAIN hosted
      /\ k \in DOMAIN events
  <2>1. Moved(k, at) /\ Answered(k, Reply(k))
    BY <1>1, <1>5, Moving, Unanswered DEF ClickInv, Inside, Outside
  <2> QED BY <1>1, <2>1 DEF ClickInv, Placed
<1>7. \A x \in Clicks \ {k} : Untouched(x)
  <2>1. \A x \in Clicks \ {k} : (loop' = x <=> loop = x) /\ Proc(x)' = Proc(x) /\ Reply(x)' = Reply(x)
    BY <1>1, <1>5, <1>6, ClicksAssumption DEF Moved, Answered
  <2>2. \A x \in Clicks \ {k} : Proc(x) # "none" \/ Reply(x) # "none" \/ x \in DOMAIN hosted
           => x \in DOMAIN events
    BY DEF ClickInv, Placed
  <2> QED BY <1>1, <2>1, <2>2, Zenon DEF Untouched
<1>8. TicketsFit' /\ TicketsStay
  BY <1>1, TicketsSame
<1>9. Types'
  <2>1. loop' \in Clicks \cup {NoClick} /\ epoch' \in Nat /\ sent' \in [Clicks -> Int]
        /\ runs' \in [Clicks -> Nat] /\ DOMAIN hosted' \subseteq Clicks
        /\ hosted' \in [DOMAIN hosted' -> HostStates]
        /\ DOMAIN events' \subseteq Clicks /\ events' \in [DOMAIN events' -> Row]
    BY <1>1, <1>5 DEF ClickInv, Types, Row
  <2> QED BY <1>6, <1>8, <2>1, Zenon DEF Types, Moved, Answered, Row, TicketsFit, Ticket
<1>10. Proc(k)' = at /\ Reply(k)' = "none"
  BY <1>6 DEF Moved, Answered
<1>11. Placed(k)'
  BY <1>1, <1>5, <1>6, <1>10, ClicksAssumption DEF ClickInv, Placed, Inside
<1>12. Confirmed(k)'
  BY <1>1, <1>4, <1>6, <1>10 DEF ClickInv, Confirmed, AckedStays
<1>13. Paid(k)' => Paid(k)
  BY <1>1, <1>10 DEF Paid
<1>14. Redeemed(k)'
  BY <1>1, <1>6, <1>10, <1>13 DEF ClickInv, Redeemed
<1>15. \A o \in DOMAIN tasks' : (o \in DOMAIN tasks /\ Target[o] # k) \/ (Target[o] = k /\ Fits(o)')
  BY <1>1, <1>2, <1>3, <1>5, <1>10 DEF Fits, Managed
<1>16. \A o \in DOMAIN tasks : o \in DOMAIN tasks'
  BY <1>5
<1> QED BY <1>4, <1>7, <1>8, <1>9, <1>10, <1>11, <1>12, <1>13, <1>14, <1>15, <1>16, OneClick
        DEF TicketsFit

LEMMA ReplyClaimsKeeps == ASSUME ClickInv, NEW op \in Acks, ReplyClaims(op) PROVE ClickInv'
<1> DEFINE k == Target[op]
           r == [events[k] EXCEPT !.ack = "pending", !.op = op, !.updated = Now]
<1>1. /\ loop = NoClick /\ ~Managed(k) /\ k \in DOMAIN events /\ k \notin DOMAIN replies
      /\ events' = [events EXCEPT ![k].ack = "pending", ![k].op = op, ![k].updated = Now]
      /\ L!Begin(op) \/ L!Refused(op)
      /\ IF L!Task(op)' = "ready" THEN replies' = Extend(replies, k, "ack") /\ UNCHANGED loop
                                  ELSE replies' = Extend(replies, k, "failed") /\ loop' = k
      /\ UNCHANGED <<tickets, procs, hosted, epoch, sent, runs>>
  BY DEF ReplyClaims
<1>2. k \in Clicks /\ events[k] \in Row /\ events \in [DOMAIN events -> Row]
      /\ DOMAIN events \subseteq Clicks /\ Now \in Nat
  BY <1>1, NowIsTime DEF ClickInv, Types, Row
<1>3. /\ DOMAIN events' = DOMAIN events /\ events' \in [DOMAIN events -> Row]
      /\ \A x \in DOMAIN events \ {k} : events'[x] = events[x]
      /\ events'[k].ack = "pending" /\ events'[k].op = op
      /\ events'[k].business = events[k].business
  <2>1. events' = [events EXCEPT ![k] = r]
    BY <1>1, <1>2 DEF Row
  <2>2. r \in Row /\ r.ack = "pending" /\ r.op = op /\ r.business = events[k].business
    BY <1>2 DEF Row, AckStates
  <2> HIDE DEF r
  <2> QED BY <1>1, <1>2, <2>1, <2>2
<1>4. Target[op] = k
  OBVIOUS
<1> HIDE DEF k, r
<1>5. Reply(k) = "none" /\ k \notin DOMAIN hosted /\ k # NoClick /\ Proc(k) \in {"none", "new"}
      /\ Kind[k] # "button"
  BY <1>1, <1>2, ClicksAssumption DEF Reply, ClickInv, Placed, Managed
<1>6. \A o \in DOMAIN tasks : Target[o] # k
  BY <1>1, <1>5 DEF ClickInv, TasksFit
<1>7. /\ LedgerInv' /\ AckedStays
      /\ \/ DOMAIN tasks' = DOMAIN tasks \cup {op} /\ L!Task(op)' = "ready"
         \/ DOMAIN tasks' = DOMAIN tasks /\ L!Task(op)' = "idle"
  BY <1>1, <1>4, <1>6, Starting
<1>8. PICK at \in {"ack", "failed"} :
        /\ replies' = Extend(replies, k, at) /\ loop' = IF at = "ack" THEN NoClick ELSE k
        /\ DOMAIN tasks' = IF at = "ack" THEN DOMAIN tasks \cup {op} ELSE DOMAIN tasks
  BY <1>1, <1>7
<1>9. Answered(k, at) /\ Moved(k, Proc(k))
  <2>1. Answered(k, at)
    BY <1>2, <1>8 DEF ClickInv, Types, Extend, Answered, Reply
  <2> QED BY <1>1, <1>2, <2>1, Staying DEF ClickInv
<1>10. \A x \in Clicks \ {k} : Untouched(x)
  <2>1. \A x \in Clicks \ {k} : (loop' = x <=> loop = x) /\ Proc(x)' = Proc(x) /\ Reply(x)' = Reply(x)
    BY <1>1, <1>8, <1>9, ClicksAssumption DEF Moved, Answered
  <2>2. \A x \in Clicks \ {k} : Proc(x) # "none" \/ Reply(x) # "none" \/ x \in DOMAIN hosted
           => x \in DOMAIN events
    BY DEF ClickInv, Placed
  <2>3. \A x \in Clicks \ {k} : x \in DOMAIN events =>
           x \in DOMAIN events' /\ events'[x] = events[x]
    BY <1>3
  <2> QED BY <1>1, <1>3, <2>1, <2>2, <2>3, Zenon DEF Untouched
<1>11. TicketsFit' /\ TicketsStay
  BY <1>1, TicketsSame
<1>12. Types'
  <2>1. loop' \in Clicks \cup {NoClick} /\ epoch' \in Nat /\ sent' \in [Clicks -> Int]
        /\ runs' \in [Clicks -> Nat] /\ DOMAIN hosted' \subseteq Clicks
        /\ hosted' \in [DOMAIN hosted' -> HostStates]
        /\ DOMAIN events' \subseteq Clicks /\ events' \in [DOMAIN events' -> Row]
    BY <1>1, <1>2, <1>3, <1>8 DEF ClickInv, Types
  <2> QED BY <1>9, <1>11, <2>1, Zenon DEF Types, Moved, Answered, Row, TicketsFit, Ticket
<1>13. Proc(k)' = Proc(k) /\ Reply(k)' = at
  BY <1>9 DEF Moved, Answered
<1>14. Placed(k)'
  <2>1. Placed(k)
    BY <1>2 DEF ClickInv
  <2> QED BY <1>1, <1>3, <1>4, <1>5, <1>8, <1>13, <2>1, ClicksAssumption DEF Placed, Inside
<1>15. Confirmed(k)'
  BY <1>1, <1>2, <1>5, <1>7, <1>13 DEF ClickInv, Confirmed, AckedStays
<1>16. Paid(k)' => Paid(k)
  BY <1>1, <1>13 DEF Paid
<1>17. Redeemed(k)'
  BY <1>1, <1>2, <1>13, <1>16 DEF ClickInv, Redeemed
<1>18. \A o \in DOMAIN tasks' : (o \in DOMAIN tasks /\ Target[o] # k) \/ (Target[o] = k /\ Fits(o)')
  BY <1>1, <1>3, <1>4, <1>6, <1>8, <1>13 DEF Fits, Managed
<1>19. Reply(k)' = "ack" => events'[k].op \in DOMAIN tasks'
  BY <1>3, <1>8, <1>13
<1>20. \A o \in DOMAIN tasks : o \in DOMAIN tasks'
  BY <1>8
<1> QED BY <1>2, <1>7, <1>10, <1>11, <1>12, <1>14, <1>15, <1>16, <1>17, <1>18, <1>19, <1>20, OneClick
        DEF TicketsFit

-----------------------------------------------------------------------------
(* Reload and crash: every task of the dispatcher ends.                    *)

LEMMA Restarting ==
    ASSUME ClickInv, L!Reload \/ L!Crash,
           procs' = << >>, replies' = << >>, loop' = NoClick,
           hosted' = hosted \/ hosted' = << >>,
           UNCHANGED <<tickets, sent, runs>>, epoch' = epoch + 1,
           DOMAIN events' = DOMAIN events,
           \A x \in DOMAIN events :
              /\ events'[x] \in Row /\ events'[x].op = events[x].op
              /\ ~Managed(x) /\ events[x].op = NoAck => events'[x].ack = events[x].ack
              /\ x \in DOMAIN hosted' => events'[x].business = events[x].business,
           events' \in [DOMAIN events -> Row]
    PROVE  ClickInv'
<1>1. LP!Reload \/ LP!Crash
  BY ReloadIs, CrashIs
<1>2. LP!WireKept /\ (LP!Entire => LP!Entire') /\ DOMAIN tasks' = {}
  BY <1>1, LP!RestartEffect, LimitsHold DEF ClickInv, LedgerInv
<1>3. LP!Inv'
  BY <1>1, LP!RestartKeeps, LimitsHold DEF ClickInv, LedgerInv
<1>4. LedgerInv' /\ AckedStays
  BY <1>2, <1>3, KeptStays DEF LedgerInv, ClickInv
<1>5. DOMAIN procs' = {} /\ DOMAIN replies' = {} /\ \A x : Proc(x)' = "none" /\ Reply(x)' = "none"
  BY EmptySeq DEF Proc, Reply
<1>6. /\ DOMAIN hosted' \subseteq DOMAIN hosted /\ \A x \in DOMAIN hosted' : hosted'[x] = hosted[x]
      /\ hosted' \in [DOMAIN hosted' -> HostStates]
  <2>1. hosted \in [DOMAIN hosted -> HostStates]
    BY DEF ClickInv, Types
  <2>2. CASE hosted' = << >>
    <3>1. << >> \in Seq(HostStates) /\ DOMAIN << >> = {}
      BY EmptySeq
    <3> QED BY <2>2, <3>1
  <2> QED BY <2>1, <2>2
<1>7. TicketsFit' /\ TicketsStay
  BY TicketsSame
<1>8. Types'
  <2>1. loop' \in Clicks \cup {NoClick} /\ epoch' \in Nat /\ sent' \in [Clicks -> Int]
        /\ runs' \in [Clicks -> Nat] /\ DOMAIN hosted' \subseteq Clicks
        /\ DOMAIN events' \subseteq Clicks /\ events' \in [DOMAIN events' -> Row]
    BY <1>6 DEF ClickInv, Types
  <2>2. procs' \in [DOMAIN procs' -> Inside \cup Outside]
        /\ replies' \in [DOMAIN replies' -> {"ack", "acked", "failed"}]
    <3>1. << >> \in Seq(Inside \cup Outside) /\ << >> \in Seq({"ack", "acked", "failed"})
      BY EmptySeq
    <3> QED BY <1>5, <3>1
  <2> QED BY <1>5, <1>6, <1>7, <2>1, <2>2, Zenon DEF Types, Row, TicketsFit, Ticket
<1>9. ASSUME NEW x \in Clicks
      PROVE  Placed(x)' /\ Confirmed(x)' /\ Redeemed(x)' /\ (Paid(x)' => Paid(x))
  <2>1. Placed(x) /\ Confirmed(x) /\ Redeemed(x) /\ (Acked(x) => Acked(x)')
    BY <1>4 DEF ClickInv, AckedStays
  <2>2. Proc(x)' = "none" /\ Reply(x)' = "none" /\ x # NoClick
    BY <1>5, ClicksAssumption
  <2>3. Placed(x)'
    BY <1>6, <2>1, <2>2, ClicksAssumption DEF Placed, Inside
  <2>4. Confirmed(x)'
    BY <1>6, <2>1, <2>2 DEF Confirmed
  <2>5. Paid(x)' => Paid(x)
    BY <1>6, <2>2 DEF Paid
  <2>6. Redeemed(x)'
    BY <1>6, <2>1, <2>2, <2>5 DEF Redeemed
  <2> QED BY <2>3, <2>4, <2>5, <2>6
<1>10. Exclusive'
  <2>1. \A x \in Clicks : Paid(x)' => Paid(x)
    BY <1>9
  <2> QED BY <2>1, Zenon DEF ClickInv, Exclusive
<1>11. TasksFit' /\ Awaited'
  BY SMTT(30), <1>2, <1>5 DEF TasksFit, Awaited
<1> QED BY <1>4, <1>7, <1>8, <1>9, <1>10, <1>11 DEF ClickInv, TicketsFit

LEMMA ReloadKeeps == ASSUME ClickInv, Reload PROVE ClickInv'
<1>1. /\ L!Reload /\ procs' = << >> /\ replies' = << >> /\ loop' = NoClick /\ epoch' = epoch + 1
      /\ UNCHANGED <<tickets, hosted, sent, runs>>
      /\ events' = [k \in DOMAIN events |->
            IF Proc(k) # "none" /\ Managed(k)
            THEN [events[k] EXCEPT !.ack = Outcome(AckOp(k))', !.business = "unknown", !.updated = Now]
            ELSE IF Reply(k) # "none"
            THEN [events[k] EXCEPT !.ack = "unknown", !.updated = Now]
            ELSE events[k]]
  BY DEF Reload
<1>2. LP!Inv' /\ LP!Entire'
  <2>1. LP!Reload
    BY <1>1, ReloadIs
  <2>2. LP!Entire'
    BY <2>1, LP!RestartEffect, LimitsHold DEF ClickInv, LedgerInv
  <2>3. LP!Inv'
    BY <2>1, LP!RestartKeeps, LimitsHold DEF ClickInv, LedgerInv
  <2> QED BY SMTT(30), <2>2, <2>3
<1>3. ASSUME NEW x \in DOMAIN events
      PROVE  /\ events'[x] \in Row /\ events'[x].op = events[x].op
             /\ ~Managed(x) /\ events[x].op = NoAck => events'[x].ack = events[x].ack
             /\ x \in DOMAIN hosted' => events'[x].business = events[x].business
  <2>1. events[x] \in Row /\ Now \in Nat /\ x \in Clicks
    BY SMTT(30), NowIsTime DEF ClickInv, Types, Row
  <2>2. CASE Proc(x) # "none" /\ Managed(x)
    <3>1. Reply(x) = "none"
      BY <2>1, <2>2 DEF ClickInv, Placed
    <3>2. Outcome(AckOp(x))' \in AckStates
      BY <1>2 DEF LP!Inv, LP!TypeOK, LP!Row, LP!States, LP!Unfinished, LP!History, LP!Entire,
                  Outcome, AckStates
    <3>3. PICK a \in AckStates :
             events'[x] = [events[x] EXCEPT !.ack = a, !.business = "unknown", !.updated = Now]
      BY <1>1, <2>2, <3>1, <3>2
    <3>4. events'[x] \in Row /\ events'[x].op = events[x].op
      BY <2>1, <3>3 DEF Row, BusinessStates
    <3>5. x \notin DOMAIN hosted
      BY <2>1, <2>2, Holding
    <3> QED BY <1>1, <2>2, <3>4, <3>5
  <2>3. CASE ~(Proc(x) # "none" /\ Managed(x)) /\ Reply(x) # "none"
    <3>1. events'[x] = [events[x] EXCEPT !.ack = "unknown", !.updated = Now]
      BY <1>1, <2>3
    <3>2. events'[x] \in Row /\ events'[x].op = events[x].op
          /\ events'[x].business = events[x].business
      BY <2>1, <3>1 DEF Row, AckStates
    <3>3. events[x].op # NoAck
      BY <2>1, <2>3, ClicksAssumption DEF ClickInv, Placed
    <3> QED BY <3>2, <3>3
  <2>4. CASE ~(Proc(x) # "none" /\ Managed(x)) /\ Reply(x) = "none"
    BY ZenonT(30), <1>1, <2>1, <2>4
  <2> QED BY <2>2, <2>3, <2>4
<1>4. DOMAIN events' = DOMAIN events /\ events' \in [DOMAIN events -> Row]
  BY <1>1, <1>3
<1> QED BY ZenonT(30), <1>1, <1>3, <1>4, Restarting

LEMMA CrashKeeps == ASSUME ClickInv, Crash PROVE ClickInv'
<1>1. /\ L!Crash /\ procs' = << >> /\ replies' = << >> /\ loop' = NoClick /\ epoch' = epoch + 1
      /\ hosted' = << >> /\ UNCHANGED <<tickets, sent, runs>>
      /\ events' = [k \in DOMAIN events |-> Recovered(events[k])]
  BY DEF Crash
<1>2. ASSUME NEW x \in DOMAIN events
      PROVE  /\ events'[x] \in Row /\ events'[x].op = events[x].op
             /\ ~Managed(x) /\ events[x].op = NoAck => events'[x].ack = events[x].ack
             /\ x \in DOMAIN hosted' => events'[x].business = events[x].business
  <2> DEFINE a == IF events[x].ack = "pending" THEN "unknown" ELSE events[x].ack
             b == IF events[x].business \in {"pending", "queued", "admitted"} THEN "unknown"
                  ELSE events[x].business
  <2>1. events[x] \in Row /\ x \in Clicks
    BY DEF ClickInv, Types, Row
  <2>2. a \in AckStates /\ b \in BusinessStates
    BY <2>1 DEF Row, AckStates, BusinessStates
  <2>3. events'[x] = [events[x] EXCEPT !.ack = a, !.business = b]
    BY <1>1, <2>1 DEF Recovered, Row
  <2>4. a = events[x].ack \/ events[x].ack = "pending"
    OBVIOUS
  <2> HIDE DEF a, b
  <2>5. events'[x] \in Row /\ events'[x].op = events[x].op /\ events'[x].ack = a
    BY <2>1, <2>2, <2>3 DEF Row
  <2>6. ~Managed(x) /\ events[x].op = NoAck => events[x].ack # "pending"
    BY <2>1 DEF ClickInv, Placed
  <2>7. DOMAIN hosted' = {}
    BY <1>1, EmptySeq
  <2> QED BY <2>4, <2>5, <2>6, <2>7
<1>3. DOMAIN events' = DOMAIN events /\ events' \in [DOMAIN events -> Row]
  BY <1>1, <1>2
<1> QED BY <1>1, <1>2, <1>3, Restarting

-----------------------------------------------------------------------------
(* The invariant holds.                                                    *)

LEMMA ClickInit == Init => ClickInv
<1> SUFFICES ASSUME Init PROVE ClickInv
  OBVIOUS
<1>1. LP!Init /\ events = << >> /\ tickets = << >> /\ procs = << >> /\ replies = << >>
      /\ loop = NoClick /\ hosted = << >> /\ epoch = 0 /\ sent = [k \in Clicks |-> -1]
      /\ runs = [k \in Clicks |-> 0]
  BY InitIs DEF Init
<1>2. /\ DOMAIN events = {} /\ DOMAIN tickets = {} /\ DOMAIN procs = {} /\ DOMAIN replies = {}
      /\ DOMAIN hosted = {} /\ \A S : << >> \in [{} -> S]
  <2>1. \A S : << >> \in Seq(S) /\ DOMAIN << >> = {}
    BY EmptySeq
  <2> QED BY <1>1, <2>1
<1>3. LP!Inv
  BY <1>1, LP!InitInv, LimitsHold
<1>4. DOMAIN ops = {} /\ DOMAIN tasks = {}
  BY <1>1, EmptySeq DEF LP!Init
<1>5. LedgerInv
  BY <1>3, <1>4 DEF LedgerInv, LP!Entire
<1>6. Types
  BY <1>1, <1>2 DEF Types
<1>7. \A k \in Clicks : Proc(k) = "none" /\ Reply(k) = "none" /\ runs[k] = 0 /\ ~Paid(k)
                        /\ k # NoClick
  BY <1>1, <1>2, ClicksAssumption DEF Proc, Reply, Paid
<1>8. TasksFit /\ Awaited /\ FollowUsed /\ Exclusive
  BY <1>2, <1>4, <1>7 DEF TasksFit, Awaited, FollowUsed, Exclusive
<1>9. \A k \in Clicks : Placed(k) /\ Confirmed(k) /\ Redeemed(k)
  BY <1>1, <1>2, <1>7 DEF Placed, Confirmed, Redeemed, Inside
<1> QED BY <1>5, <1>6, <1>8, <1>9 DEF ClickInv

LEMMA ClickNext == ClickInv /\ [Next]_vars => ClickInv'
<1> SUFFICES ASSUME ClickInv, [Next]_vars PROVE ClickInv'
  OBVIOUS
<1>1. CASE Around \/ Configure \/ Reload \/ Crash
  BY <1>1, AroundKeeps, ConfigureKeeps, ReloadKeeps, CrashKeeps
<1>2. CASE \E t \in Tickets : Issue(t)
  BY <1>2, IssueKeeps
<1>3. ASSUME NEW op \in Acks,
             SendAck(op) \/ AckConfirmed(op) \/ AckFails(op) \/ AckRetried(op) \/ ReplyClaims(op)
      PROVE  ClickInv'
  BY <1>3, SendAckKeeps, AckConfirmedKeeps, AckFailsKeeps, AckRetriedKeeps, ReplyClaimsKeeps
<1>4. ASSUME NEW k \in Clicks, \/ Click(k) \/ Accept(k) \/ Notice(k) \/ StartAck(k) \/ AckTooLate(k)
                               \/ AckFailed(k) \/ AckSucceeded(k) \/ UpdateFails(k)
      PROVE  ClickInv'
  BY <1>4, ClickKeeps, AcceptKeeps, NoticeKeeps, StartAckKeeps, AckTooLateKeeps, AckFailedKeeps,
     AckSucceededKeeps, UpdateFailsKeeps
<1>5. ASSUME NEW k \in Clicks, \/ RefuseClick(k) \/ Redeem(k) \/ MarkQueued(k) \/ Commit(k)
                               \/ HostAdmits(k) \/ HostRuns(k) \/ HostEnds(k)
                               \/ HandlerStarts(k) \/ Leaves(k)
                               \/ ReplyEnds(k) \/ ReplyRecovers(k)
      PROVE  ClickInv'
  BY <1>5, RefuseClickKeeps, RedeemKeepsInv, MarkQueuedKeeps, CommitKeeps, HostAdmitsKeeps,
     HostRunsKeeps,
     HostEndsKeeps, HandlerStartsKeeps, LeavesKeeps, ReplyEndsKeeps, ReplyRecoversKeeps
<1>6. CASE UNCHANGED vars
  <2>1. LedgerInv' /\ AckedStays
    BY <1>6, LedgerQuiet DEF vars, ledger, ClickInv
  <2> QED BY <1>6, <2>1, TicketsSame, SameElsewhere, NoClickMoves DEF vars, ledger
<1> QED BY <1>1, <1>2, <1>3, <1>4, <1>5, <1>6 DEF Next

-----------------------------------------------------------------------------
(* What every step may do to acknowledgements and runs.                    *)

\* What the ledger keeps, and the time, when no request leaves.
Kept == LP!WireKept /\ LP!RowsStay /\ water <= water'

LEMMA QuietKept ==
    ASSUME ClickInv, water' = Now \/ water' = water,
           UNCHANGED <<clock, ops, tasks, storageFailed, wire>>
    PROVE  Kept
BY NowIs, LimitsHold, LP!TransactionKeeps DEF ClickInv, LedgerInv, Now, Kept

\* Requests leave only in SendAck; whatever else happens, none comes or goes.
LEMMA OnlySendAck ==
    ASSUME ClickInv, [Next]_vars
    PROVE  Kept \/ \E op \in Acks : SendAck(op)
<1>1. CASE Around
  BY <1>1, WorldIs, LP!WorldEffect, LimitsHold DEF Around, ClickInv, LedgerInv, Kept
<1>2. CASE Reload \/ Crash
  <2>1. LP!Reload \/ LP!Crash
    BY <1>2, ReloadIs, CrashIs DEF Reload, Crash
  <2> QED BY SMTT(30), <2>1, LP!RestartEffect, LimitsHold DEF ClickInv, LedgerInv, Kept
<1>3. CASE UNCHANGED vars \/ Configure \/ \E t \in Tickets : Issue(t)
  BY <1>3, QuietKept DEF vars, ledger, Configure, Issue, Transaction
<1>4. ASSUME NEW op \in Acks, AckConfirmed(op) \/ AckFails(op) PROVE Kept
  <2>1. LP!Fails(op) \/ LP!Confirmed(op)
    BY <1>4, FailsIs, ConfirmedIs DEF AckConfirmed, AckFails
  <2> QED BY <2>1, LP!EndingEnds, LimitsHold DEF ClickInv, LedgerInv, LP!Ended, Kept
<1>5. ASSUME NEW op \in Acks, AckRetried(op) PROVE Kept
  <2>1. LP!Unauthorized(op)
    BY <1>5, UnauthorizedIs DEF AckRetried
  <2>2. UNCHANGED <<clock, water, ops, wire>>
    BY <2>1, LP!UnauthorizedEffect, LimitsHold DEF ClickInv, LedgerInv
  <2>3. LP!WireKept /\ water \in Nat
    BY <2>2, NowIsTime, LP!WireSame, LimitsHold DEF ClickInv, LedgerInv, LP!Inv
  <2> QED BY <2>2, <2>3 DEF Kept, LP!RowsStay
<1>6. ASSUME NEW op \in Acks, L!Begin(op) \/ L!Refused(op) PROVE Kept
  <2>1. CASE L!Begin(op)
    BY <2>1, BeginIs, LP!BeginEffect, LimitsHold DEF ClickInv, LedgerInv, Kept
  <2>2. CASE L!Refused(op)
    <3>1. LP!Prune \/ UNCHANGED LP!vars
      BY <2>2, RefusedIs DEF LP!Refused
    <3>2. CASE UNCHANGED LP!vars
      BY <3>2, QuietKept DEF LP!vars
    <3> QED BY <3>1, <3>2, LP!WorldEffect, LimitsHold DEF ClickInv, LedgerInv, Kept
  <2> QED BY <1>6, <2>1, <2>2
<1>7. ASSUME NEW op \in Acks, ReplyClaims(op) PROVE Kept
  BY <1>6, <1>7 DEF ReplyClaims
<1>8. ASSUME NEW k \in Clicks, StartAck(k) PROVE Kept
  <2>1. AckOp(k) \in Acks
    BY <1>8, ClicksAssumption DEF StartAck, AckOp, Managed
  <2> QED BY <1>6, <1>8, <2>1 DEF StartAck
<1>9. ASSUME NEW k \in Clicks, \/ Click(k) \/ Accept(k) \/ Notice(k) \/ AckTooLate(k)
                               \/ AckFailed(k) \/ AckSucceeded(k) \/ UpdateFails(k)
      PROVE  Kept
  BY <1>9, QuietKept DEF Click, Accept, Notice, AckTooLate, AckFailed, AckSucceeded, UpdateFails,
                         Transaction, ledger
<1>10. ASSUME NEW k \in Clicks, \/ RefuseClick(k) \/ Redeem(k) \/ MarkQueued(k) \/ Commit(k)
                                \/ HostAdmits(k) \/ HostRuns(k) \/ HostEnds(k)
                                \/ HandlerStarts(k) \/ Leaves(k)
                                \/ ReplyEnds(k) \/ ReplyRecovers(k)
       PROVE  Kept
  BY <1>10, QuietKept DEF RefuseClick, Redeem, MarkQueued, Commit, HostAdmits, HostRuns, HostEnds,
                          HandlerStarts, Leaves, ReplyEnds, ReplyRecovers, Ends, Transaction, ledger
<1> QED BY <1>1, <1>2, <1>3, <1>4, <1>5, <1>7, <1>8, <1>9, <1>10 DEF Next

\* A row that is written keeps its uncertainty, unless QQ is known to have
\* taken the acknowledgement.
LEMMA Rewriting ==
    ASSUME ClickInv, NEW x, NEW ack \in AckStates \cup {"same"},
           NEW business \in BusinessStates \cup {"same"}, Update(x, ack, business),
           \/ ack = "same"
           \/ x \in DOMAIN events => events[x].ack # "unknown"
           \/ ack = "succeeded" /\ Acked(x)
    PROVE  UncertainRemains
<1>1. RowWritten(x) /\ (x \in DOMAIN events =>
         events'[x].ack = IF ack = "same" THEN events[x].ack ELSE ack)
  BY Updating
<1>2. \A k \in DOMAIN events : k \in DOMAIN events' /\ (k # x => events'[k] = events[k])
  BY <1>1 DEF RowWritten
<1> QED BY <1>1, <1>2 DEF UncertainRemains

LEMMA Uncertainty == ClickInv /\ [Next]_vars => UncertainRemains
<1> SUFFICES ASSUME ClickInv, [Next]_vars PROVE UncertainRemains
  OBVIOUS
<1>1. CASE UNCHANGED events
  BY <1>1 DEF UncertainRemains
<1>2. ASSUME NEW k \in Clicks, NEW business \in BusinessStates,
             Update(k, "same", business)
      PROVE  UncertainRemains
  BY <1>2, Rewriting DEF AckStates
<1>3. CASE UNCHANGED vars \/ Around \/ Configure \/ \E t \in Tickets : Issue(t)
  BY <1>1, <1>3 DEF vars, Around, Configure, Issue
<1>4. CASE Reload
  <2> SUFFICES ASSUME NEW x \in DOMAIN events
               PROVE  x \in DOMAIN events' /\ (events[x].ack = "unknown" => events'[x].ack = "unknown")
    BY SMTT(30) DEF UncertainRemains
  <2>1. /\ DOMAIN events' = DOMAIN events /\ x \in Clicks /\ events[x] \in Row
        /\ Proc(x) # "none" /\ Managed(x) => events[x].ack # "unknown"
        /\ Reply(x) # "none" => events[x].ack # "unknown"
    <3>1. x \in Clicks /\ events[x] \in Row
      BY DEF ClickInv, Types, Row
    <3>2. Proc(x) \in {"none"} \cup Inside \cup Outside
      BY <3>1 DEF ClickInv, Types, Proc
    <3>3. /\ Proc(x) # "none" /\ Managed(x) => events[x].ack # "unknown"
          /\ Reply(x) # "none" => events[x].ack # "unknown"
      BY SMTT(30), <3>1, <3>2 DEF ClickInv, Placed, Inside, Outside
    <3> QED BY <1>4, <3>1, <3>3 DEF Reload
  <2>2. CASE Reply(x) = "none" /\ ~(Proc(x) # "none" /\ Managed(x))
    BY <1>4, <2>1, <2>2 DEF Reload
  <2> QED BY <2>1, <2>2
<1>5. CASE Crash
  <2>1. events' = [k \in DOMAIN events |-> Recovered(events[k])] /\ events \in [DOMAIN events -> Row]
    BY <1>5 DEF Crash, ClickInv, Types, Row
  <2>2. \A k \in DOMAIN events : events[k].ack = "unknown" => events'[k].ack = "unknown"
    BY <2>1 DEF Recovered, Row
  <2> QED BY <2>1, <2>2 DEF UncertainRemains
<1>6. ASSUME NEW op \in Acks, SendAck(op) \/ AckConfirmed(op) \/ AckFails(op) \/ AckRetried(op)
      PROVE  UncertainRemains
  BY <1>1, <1>6 DEF SendAck, AckConfirmed, AckFails, AckRetried, Continue
<1>7. ASSUME NEW op \in Acks, ReplyClaims(op) PROVE UncertainRemains
  <2> DEFINE k == Target[op]
  <2>1. k \in DOMAIN events /\ events[k].ack = "not_required" /\ DOMAIN events' = DOMAIN events
        /\ \A x \in DOMAIN events \ {k} : events'[x] = events[x]
    BY <1>7 DEF ReplyClaims, Claimable
  <2> QED BY <2>1 DEF UncertainRemains
<1>8. ASSUME NEW k \in Clicks, Click(k) \/ StartAck(k) \/ UpdateFails(k) \/ Redeem(k)
                               \/ HostAdmits(k) \/ HostRuns(k) \/ HandlerStarts(k)
      PROVE  UncertainRemains
  BY <1>1, <1>8 DEF Click, StartAck, UpdateFails, Redeem, HostAdmits, HostRuns, HandlerStarts
<1>9. ASSUME NEW k \in Clicks, Accept(k) PROVE UncertainRemains
  <2>1. PICK e \in MadeRoom : k \notin DOMAIN events /\ \E row : events' = Extend(e, k, row)
    BY <1>9 DEF Accept
  <2>2. /\ DOMAIN e \subseteq DOMAIN events /\ \A x \in DOMAIN e : e[x] = events[x]
        /\ \A x \in DOMAIN events \ DOMAIN e : Settled(events[x])
    BY MakingRoom
  <2> QED BY <2>1, <2>2 DEF Extend, Settled, UncertainRemains
<1>10. ASSUME NEW k \in Clicks, Notice(k) \/ RefuseClick(k) \/ HostEnds(k) \/ Leaves(k)
                                \/ MarkQueued(k) \/ Commit(k)
       PROVE  UncertainRemains
  <2>1. UNCHANGED events \/ \E business \in BusinessStates : Update(k, "same", business)
    <3>1. {"typed_notice", "rejected", "finished_unconfirmed", "queued", "unknown",
           "confirmation_sent"} \subseteq BusinessStates
      BY DEF BusinessStates
    <3>2. CASE Notice(k)
      BY <3>1, <3>2 DEF Notice
    <3>3. CASE RefuseClick(k)
      BY <3>1, <3>3 DEF RefuseClick, Ends
    <3>4. CASE HostEnds(k)
      BY <3>1, <3>4 DEF HostEnds
    <3>5. CASE Leaves(k)
      BY <3>1, <3>5 DEF Leaves, Ends
    <3>6. CASE MarkQueued(k) \/ Commit(k)
      BY <3>1, <3>6 DEF MarkQueued, Commit, Ends
    <3> QED BY <1>10, <3>2, <3>3, <3>4, <3>5, <3>6
  <2> QED BY <1>1, <1>2, <2>1
<1>11. ASSUME NEW k \in Clicks, AckTooLate(k) \/ AckFailed(k) \/ AckSucceeded(k)
       PROVE  UncertainRemains
  <2>1. PICK ack \in AckStates, business \in BusinessStates \cup {"same"} : Update(k, ack, business)
    <3>1. Outcome(AckOp(k)) \in AckStates /\ {"not_sent", "succeeded"} \subseteq AckStates
          /\ {"not_executed", "admitted"} \subseteq BusinessStates
      BY OutcomeIsState DEF ClickInv, AckStates, BusinessStates
    <3>2. CASE AckTooLate(k) \/ AckFailed(k)
      BY <3>1, <3>2 DEF AckTooLate, AckFailed
    <3>3. CASE AckSucceeded(k)
      BY <3>1, <3>3 DEF AckSucceeded
    <3> QED BY <1>11, <3>2, <3>3
  <2>2. Managed(k) /\ Proc(k) \in {"new", "failed", "acked"}
    BY <1>11, Holding DEF AckTooLate, AckFailed, AckSucceeded
  <2>3. events[k].ack # "unknown"
    BY <2>2 DEF ClickInv, Placed
  <2> QED BY <2>1, <2>3, Rewriting
<1>12. ASSUME NEW k \in Clicks, ReplyEnds(k) PROVE UncertainRemains
  <2>1. PICK ack \in {"succeeded", "unknown", "not_sent", "rejected"} : Update(k, ack, "same")
    BY <1>12 DEF ReplyEnds
  <2>2. events[k].ack # "unknown"
    BY <1>12 DEF ReplyEnds, ClickInv, Placed
  <2> QED BY <2>1, <2>2, Rewriting DEF AckStates
<1>13. ASSUME NEW k \in Clicks, ReplyRecovers(k) PROVE UncertainRemains
  <2> DEFINE op == events[k].op
  <2>1. k \in DOMAIN events /\ op # NoAck /\ Outcome(op) = "succeeded" /\ Update(k, "succeeded", "same")
    BY <1>13 DEF ReplyRecovers
  <2>2. op \in Acks /\ Target[op] = k
    BY <2>1 DEF ClickInv, Types, Placed
  <2>3. op \in DOMAIN ops /\ ops[op].state = "succeeded"
    BY <2>1 DEF Outcome
  <2>4. \E i \in DOMAIN wire : wire[i].op = op /\ wire[i].fate = "accepted"
    BY <2>3 DEF ClickInv, LedgerInv, LP!Inv, LP!LedgerTruth, LP!OfLife
  <2>5. Acked(k)
    BY <2>2, <2>4 DEF Acked, AcksOf
  <2> QED BY <2>1, <2>5, Rewriting DEF AckStates
<1> QED BY <1>3, <1>4, <1>5, <1>6, <1>7, <1>8, <1>9, <1>10, <1>11, <1>12, <1>13 DEF Next

-----------------------------------------------------------------------------
(* What the invariant says.                                                *)

LEMMA LedgerTypes == LP!TypeOK => L!TypeOK
BY Zenon DEF L!TypeOK, LP!TypeOK, L!Row, LP!Row, L!TaskRow, LP!TaskRow, L!Request, LP!Request,
   L!States, LP!States, L!Unfinished, LP!Unfinished, L!History, LP!History, L!Seq, LP!Seq, Seq

LEMMA ClickTypes == ClickInv => TypeOK
<1> SUFFICES ASSUME ClickInv PROVE TypeOK
  OBVIOUS
<1>1. L!TypeOK
  BY LedgerTypes DEF ClickInv, LedgerInv, LP!Inv
<1>2. /\ DOMAIN events \subseteq Clicks
      /\ events \in [DOMAIN events -> [ack : AckStates, business : BusinessStates,
                                       op : Acks \cup {NoAck}, updated : Nat]]
      /\ tickets \in [DOMAIN tickets -> [used : BOOLEAN, expires : Nat, epoch : Nat]]
      /\ hosted \in [DOMAIN hosted -> HostStates] /\ runs \in [Clicks -> Nat]
  BY DEF ClickInv, Types
<1>3. \A op \in DOMAIN tasks : IF Managed(Target[op]) THEN Proc(Target[op]) = "ack"
                                                      ELSE Reply(Target[op]) = "ack"
  BY DEF ClickInv, TasksFit
<1>4. DOMAIN procs \cup DOMAIN replies \subseteq DOMAIN events
  <2>1. ASSUME NEW k \in DOMAIN procs PROVE k \in DOMAIN events
    BY Holding DEF ClickInv, Types, Proc, Inside, Outside
  <2>2. ASSUME NEW k \in DOMAIN replies PROVE k \in DOMAIN events
    BY DEF ClickInv, Types, Placed, Reply
  <2> QED BY <2>1, <2>2
<1>5. \A k \in Clicks : k = loop <=> Proc(k) \in {"acked", "failed", "click", "spent", "marked"}
                                     \/ Reply(k) \in {"acked", "failed"}
  BY DEF ClickInv, Placed, Inside
<1> QED BY <1>1, <1>2, <1>3, <1>4, <1>5 DEF TypeOK, HostStates

LEMMA ClickEffects == ClickInv => EffectAfterAck /\ TicketOnce
<1> SUFFICES ASSUME ClickInv PROVE EffectAfterAck /\ TicketOnce
  OBVIOUS
<1>1. \A k \in Clicks : runs[k] \in Nat /\ Confirmed(k) /\ Redeemed(k)
  BY DEF ClickInv, Types
<1>2. EffectAfterAck
  BY <1>1 DEF EffectAfterAck, Confirmed
<1>3. TicketOnce
  BY <1>1 DEF TicketOnce, Redeemed, ClickInv, Exclusive, Paid
<1> QED BY <1>2, <1>3

-----------------------------------------------------------------------------
(* While the clock stays within the day rows are kept, what the table says *)
(* is true of all that ever happened.                                      *)

\* The clock and the time of transactions stay within the bound.
LEMMA Ticking ==
    ASSUME [Next]_vars
    PROVE  clock' \in {clock} \cup 0 .. MaxClock /\ water' \in {water, Now}
<1>1. CASE UNCHANGED vars \/ Around \/ Configure \/ Reload \/ Crash
  BY <1>1 DEF vars, ledger, Around, Configure, Reload, Crash, L!Reload, L!Crash, L!Restart,
              L!SetClock, L!Prune, L!QQActs, Now
<1>2. ASSUME NEW op \in Acks, L!Begin(op) \/ L!Refused(op)
      PROVE  clock' = clock /\ water' \in {water, Now}
  BY <1>2 DEF L!Begin, L!Refused, L!Prune, L!vars, Now
<1>3. ASSUME NEW op \in Acks, SendAck(op) \/ AckRetried(op) \/ ReplyClaims(op)
      PROVE  clock' = clock /\ water' \in {water, Now}
  BY <1>2, <1>3 DEF SendAck, AckRetried, ReplyClaims, L!Submit, L!Unauthorized, Now
<1>4. ASSUME NEW op \in Acks, AckConfirmed(op) \/ AckFails(op)
      PROVE  clock' = clock /\ water' \in {water, Now}
  BY <1>4 DEF AckConfirmed, AckFails, L!Confirmed, L!Fails, L!GiveUp, L!Uncertain, L!Rejected,
              L!ConnectFailed, L!StorageFault, L!Finish, Now
<1>5. ASSUME NEW t \in Tickets, Issue(t) PROVE clock' = clock /\ water' \in {water, Now}
  BY <1>5 DEF Issue, Transaction
<1>6. ASSUME NEW k \in Clicks, \/ Click(k) \/ Accept(k) \/ Notice(k) \/ AckTooLate(k)
                               \/ AckFailed(k) \/ AckSucceeded(k) \/ UpdateFails(k)
      PROVE  clock' = clock /\ water' \in {water, Now}
  BY <1>6 DEF Click, Accept, Notice, AckTooLate, AckFailed, AckSucceeded, UpdateFails,
              Transaction, ledger
<1>7. ASSUME NEW k \in Clicks, StartAck(k) PROVE clock' = clock /\ water' \in {water, Now}
  <2>1. AckOp(k) \in Acks
    BY <1>7, ClicksAssumption DEF StartAck, AckOp, Managed
  <2> QED BY <1>2, <1>7, <2>1 DEF StartAck
<1>8. ASSUME NEW k \in Clicks, \/ RefuseClick(k) \/ Redeem(k) \/ MarkQueued(k) \/ Commit(k)
                               \/ HostAdmits(k) \/ HostRuns(k) \/ HostEnds(k)
                               \/ HandlerStarts(k) \/ Leaves(k)
                               \/ ReplyEnds(k) \/ ReplyRecovers(k)
      PROVE  clock' = clock /\ water' \in {water, Now}
  BY <1>8 DEF RefuseClick, Redeem, MarkQueued, Commit, HostAdmits, HostRuns, HostEnds, HandlerStarts, Leaves,
              ReplyEnds, ReplyRecovers, Ends, Transaction, ledger
<1> QED BY <1>1, <1>3, <1>4, <1>5, <1>6, <1>7, <1>8 DEF Next

LEMMA NowToday == ASSUME LP!Today, MaxClock < Day PROVE Now \in 0 .. MaxClock /\ Now < Day
BY NowIs, LP!TodayNow, LimitsHold DEF Now

LEMMA TodayStays ==
    ASSUME ClickInv, LP!Today, MaxClock < Day, [Next]_vars
    PROVE  LP!Today'
<1>1. LP!ThisLife'
  <2>1. CASE Kept
    BY <2>1, LP!LifeStays, LimitsHold DEF ClickInv, LedgerInv, Kept
  <2>2. ASSUME NEW op \in Acks, SendAck(op) PROVE LP!ThisLife'
    <3>1. LP!Submit(op)
      BY <2>2, SubmitIs DEF SendAck
    <3> QED BY <3>1, LP!LifeSubmitted, LimitsHold DEF ClickInv, LedgerInv
  <2> QED BY <2>1, <2>2, OnlySendAck
<1>2. clock' \in 0 .. MaxClock /\ water' \in 0 .. MaxClock
  BY Ticking, NowToday DEF LP!Today
<1> QED BY <1>1, <1>2 DEF LP!Today

PreRun == {"new", "ack", "acked", "failed", "click", "confirm"}

\* What is known of a click while the step leaves its traces alone.
Trails(k) == Traced(k) /\ OneId(k) /\ NotYet(k)

Steady(k) == /\ LP!WireKept /\ water <= water' /\ sent'[k] = sent[k] /\ runs'[k] = runs[k]
             /\ Proc(k)' \in PreRun => Proc(k) \in PreRun
             /\ Proc(k)' = "new" => Proc(k) = "new"
             /\ k \in DOMAIN events' => k \in DOMAIN events /\ events'[k].op = events[k].op
             /\ k \in DOMAIN events \ DOMAIN events' => Past(k)'

LEMMA PastStays == ASSUME ClickInv, LedgerInv', NEW k \in Clicks, water <= water',
                          sent'[k] = sent[k], Past(k)
                   PROVE  Past(k)'
<1>1. sent[k] \in Int /\ Window \in Nat /\ water \in Nat /\ water' \in Nat
  BY NowIsTime, BoundsAssumption DEF ClickInv, Types, LedgerInv, LP!Inv, LP!TypeOK
<1> QED BY <1>1 DEF Past

LEMMA AcksStay == ASSUME LP!WireKept, NEW k
                  PROVE  /\ AcksOf(k)' = AcksOf(k) /\ \A i \in AcksOf(k) : wire'[i].op = wire[i].op
                         /\ \A i \in AcksOf(k) : L!Possible(i)' => L!Possible(i)
BY DEF LP!WireKept, AcksOf, L!Possible, LP!Possible

LEMMA TrailsStay == ASSUME ClickInv, LedgerInv', NEW k \in Clicks, Steady(k), Trails(k)
                    PROVE  Trails(k)'
<1>1. /\ AcksOf(k)' = AcksOf(k) /\ \A i \in AcksOf(k) : wire'[i].op = wire[i].op
      /\ (Past(k) => Past(k)') /\ sent'[k] = sent[k] /\ runs'[k] = runs[k]
  BY AcksStay, PastStays DEF Steady
<1>2. Traced(k)'
  BY <1>1 DEF Steady, Trails, Traced
<1>3. OneId(k)'
  BY <1>1 DEF Steady, Trails, OneId
<1>4. NotYet(k)'
  BY <1>1 DEF Steady, Trails, NotYet, PreRun
<1> QED BY <1>2, <1>3, <1>4 DEF Trails

\* What a row says stays true while nothing new of its click leaves.
LEMMA SaysStill ==
    ASSUME LP!WireKept, AckedStays, NEW k \in Clicks, runs'[k] = runs[k],
           NEW ack, NEW business, Says(k, ack, business),
           k \in DOMAIN events' => events'[k].ack = ack /\ events'[k].business = business
    PROVE  RowTrue(k)'
<1>1. /\ AcksOf(k)' = AcksOf(k) /\ (Acked(k) => Acked(k)')
      /\ \A i \in AcksOf(k) : L!Possible(i)' => L!Possible(i)
  BY AcksStay DEF AckedStays
<1> SUFFICES ASSUME k \in DOMAIN events' PROVE Says(k, events[k].ack, events[k].business)'
  BY DEF RowTrue
<1>2. events'[k].ack = ack /\ events'[k].business = business
  OBVIOUS
<1> QED BY <1>1, <1>2 DEF Says

\* The steps of a day, but for the one that sends.
Daily == /\ ClickInv /\ ClickInv' /\ DayInv /\ LP!Today' /\ Kept /\ MaxClock < Day

\* Nothing happens to this click, but its row may go when nobody can answer it.
Elsewhere(x) ==
    /\ sent'[x] = sent[x] /\ runs'[x] = runs[x] /\ Proc(x)' = Proc(x)
    /\ x \in DOMAIN events' => x \in DOMAIN events /\ events'[x].ack = events[x].ack
          /\ events'[x].business = events[x].business /\ events'[x].op = events[x].op
    /\ x \in DOMAIN events \ DOMAIN events' => Past(x)'

LEMMA DayElsewhere ==
    ASSUME Daily, NEW x \in Clicks, Elsewhere(x)
    PROVE  Trails(x)' /\ RowTrue(x)'
<1>1. Trails(x) /\ RowTrue(x) /\ LP!WireKept /\ AckedStays /\ LedgerInv'
  BY KeptStays DEF Daily, DayInv, Trails, Kept, ClickInv
<1>2. Steady(x)
  BY <1>1 DEF Daily, Kept, Elsewhere, Steady
<1>3. Trails(x)'
  BY <1>1, <1>2, TrailsStay DEF Daily
<1>4. RowTrue(x)'
  <2>1. CASE x \in DOMAIN events'
    <3>1. Says(x, events[x].ack, events[x].business)
      BY <1>1, <2>1 DEF Elsewhere, RowTrue
    <3> QED BY <1>1, <2>1, <3>1, SaysStill DEF Elsewhere
  <2>2. CASE x \notin DOMAIN events'
    BY <2>2 DEF RowTrue
  <2> QED BY <2>1, <2>2
<1> QED BY <1>3, <1>4

LEMMA DayApart ==
    ASSUME Daily, \A x \in Clicks : Elsewhere(x)
    PROVE  DayInv'
BY DayElsewhere DEF Daily, DayInv, Trails

\* A step at one click that starts nothing.
LEMMA DayStep ==
    ASSUME Daily, NEW k \in Clicks, UNCHANGED <<sent, runs>>,
           RowWritten(k), NEW at, Moved(k, at),
           at \in PreRun => Proc(k) \in PreRun, at = "new" => Proc(k) = "new",
           RowTrue(k)'
    PROVE  DayInv'
<1>1. \A x \in Clicks \ {k} : Trails(x)' /\ RowTrue(x)'
  <2>1. \A x \in Clicks \ {k} : Elsewhere(x)
    BY DEF RowWritten, Moved, Elsewhere
  <2> QED BY <2>1, DayElsewhere
<1>2. Trails(k)'
  <2>1. Steady(k)
    BY DEF Daily, Kept, Steady, RowWritten, Moved
  <2> QED BY <2>1, TrailsStay DEF Daily, ClickInv, DayInv, Trails
<1> QED BY <1>1, <1>2, Zenon DEF Daily, DayInv, Trails

\* A row written with what is true.
LEMMA DayUpdate ==
    ASSUME Daily, NEW k \in Clicks, UNCHANGED <<sent, runs>>,
           NEW ack \in AckStates \cup {"same"}, NEW business \in BusinessStates \cup {"same"},
           Update(k, ack, business),
           NEW at, Moved(k, at), at \in PreRun => Proc(k) \in PreRun, at = "new" => Proc(k) = "new",
           k \in DOMAIN events =>
              Says(k, IF ack = "same" THEN events[k].ack ELSE ack,
                      IF business = "same" THEN events[k].business ELSE business)
    PROVE  DayInv'
<1>1. /\ RowWritten(k)
      /\ k \in DOMAIN events =>
            /\ events'[k].ack = IF ack = "same" THEN events[k].ack ELSE ack
            /\ events'[k].business = IF business = "same" THEN events[k].business ELSE business
  BY Updating DEF Daily
<1>2. RowTrue(k)'
  <2>1. CASE k \in DOMAIN events
    <3>1. LP!WireKept /\ AckedStays
      BY KeptStays DEF Daily, Kept
    <3> QED BY <1>1, <2>1, <3>1, SaysStill
  <2>2. CASE k \notin DOMAIN events
    BY <1>1, <2>2 DEF RowWritten, RowTrue
  <2> QED BY <2>1, <2>2
<1> QED BY <1>1, <1>2, DayStep

\* A step that leaves the rows alone.
LEMMA DayMove ==
    ASSUME Daily, NEW k \in Clicks, UNCHANGED <<events, sent, runs>>,
           NEW at, Moved(k, at), at \in PreRun => Proc(k) \in PreRun, at = "new" => Proc(k) = "new"
    PROVE  DayInv'
<1>1. RowWritten(k)
  BY Unwritten DEF Daily
<1>2. RowTrue(k)'
  <2>1. LP!WireKept /\ AckedStays /\ RowTrue(k)
    BY KeptStays DEF Daily, Kept, DayInv
  <2>2. CASE k \in DOMAIN events
    <3>1. Says(k, events[k].ack, events[k].business)
      BY <2>1, <2>2 DEF RowTrue
    <3> QED BY <2>1, <3>1, SaysStill
  <2>3. CASE k \notin DOMAIN events
    BY <2>3 DEF RowTrue
  <2> QED BY <2>2, <2>3
<1> QED BY <1>1, <1>2, DayStep

\* What is known of a click in a day.
LEMMA DayFacts ==
    ASSUME Daily, NEW k \in Clicks
    PROVE  /\ Types /\ Placed(k) /\ Confirmed(k) /\ Redeemed(k) /\ Traced(k) /\ OneId(k) /\ NotYet(k)
           /\ k \in DOMAIN events => Says(k, events[k].ack, events[k].business)
BY DEF Daily, ClickInv, DayInv, RowTrue

LEMMA EndsDay ==
    ASSUME Daily, NEW k \in Clicks, NEW business \in BusinessStates, Ends(k, business),
           k \in DOMAIN events =>
              /\ business \in {"not_executed", "typed_notice", "confirmation_sent"} => runs[k] = 0
              /\ business = "rejected" => runs[k] = 0 \/ Intent[Token[k]] = "callback"
              /\ business = "finished_unconfirmed" => runs[k] = 1 \/ Intent[Token[k]] = "execute"
    PROVE  DayInv'
<1>1. Update(k, "same", business) /\ EndProc(k) /\ UNCHANGED <<sent, runs>> /\ business # "same"
  BY DEF Ends, BusinessStates
<1>2. Moved(k, "none")
  BY <1>1, DayFacts, Ending
<1>3. k \in DOMAIN events => Says(k, events[k].ack, business)
  BY DayFacts DEF Says
<1> QED BY <1>1, <1>2, <1>3, DayUpdate DEF PreRun

LEMMA NoticeDay == ASSUME Daily, NEW k \in Clicks, Notice(k) PROVE DayInv'
<1>1. Ends(k, "typed_notice") /\ Proc(k) \in {"new", "click"}
  BY DEF Notice, Ends
<1>2. runs[k] = 0
  BY <1>1, DayFacts DEF NotYet
<1> QED BY <1>1, <1>2, EndsDay DEF BusinessStates

LEMMA RefuseClickDay == ASSUME Daily, NEW k \in Clicks, RefuseClick(k) PROVE DayInv'
<1>1. runs[k] = 0
  BY DayFacts DEF NotYet, RefuseClick
<1> QED BY <1>1, EndsDay DEF BusinessStates, RefuseClick

LEMMA LeavesDay == ASSUME Daily, NEW k \in Clicks, Leaves(k) PROVE DayInv'
<1>1. PICK state \in CASE Proc(k) = "gate" -> {"rejected", "unknown"}
                       [] Proc(k) = "handler" -> {"finished_unconfirmed", "rejected", "unknown"}
                       [] Proc(k) = "confirm" -> {"confirmation_sent", "rejected", "unknown"}
                       [] OTHER -> {} : Ends(k, state)
  BY DEF Leaves
<1>2. /\ state \in BusinessStates
      /\ state \in {"not_executed", "typed_notice", "confirmation_sent"} => Proc(k) = "confirm"
      /\ state = "rejected" => Proc(k) \in {"gate", "handler", "confirm"}
      /\ state = "finished_unconfirmed" => Proc(k) = "handler"
  BY <1>1 DEF BusinessStates
<1>3. /\ Proc(k) = "confirm" => runs[k] = 0
      /\ Proc(k) = "handler" => runs[k] = 1
      /\ Proc(k) \in {"gate", "handler"} => Intent[Token[k]] = "callback"
  BY DayFacts DEF NotYet, Redeemed
<1> QED BY <1>1, <1>2, <1>3, EndsDay

LEMMA AckTooLateDay == ASSUME Daily, NEW k \in Clicks, AckTooLate(k) PROVE DayInv'
<1>1. /\ Proc(k) = "new" /\ Managed(k) /\ EndProc(k) /\ UNCHANGED <<sent, runs>>
      /\ Update(k, "not_sent", "not_executed")
  BY DEF AckTooLate
<1>2. AcksOf(k) = {} /\ runs[k] = 0
  BY <1>1, DayFacts DEF OneId, NotYet
<1>3. Moved(k, "none")
  BY <1>1, DayFacts, Ending
<1>4. Says(k, "not_sent", "not_executed")
  BY <1>2 DEF Says
<1> QED BY <1>1, <1>3, <1>4, DayUpdate DEF PreRun, AckStates, BusinessStates

LEMMA UpdateFailsDay == ASSUME Daily, NEW k \in Clicks, UpdateFails(k) PROVE DayInv'
<1>1. Moved(k, "none")
  BY DayFacts, Ending DEF UpdateFails
<1> QED BY <1>1, DayMove DEF UpdateFails, PreRun

LEMMA AckSucceededDay == ASSUME Daily, NEW k \in Clicks, AckSucceeded(k) PROVE DayInv'
<1>1. PICK business \in {"not_executed", "admitted", "same"} :
        /\ Update(k, "succeeded", business) /\ Proc(k) = "acked" /\ UNCHANGED <<sent, runs>>
        /\ EndProc(k) \/ Moves(k, "click")
  BY DEF AckSucceeded
<1>2. PICK at \in {"none", "click"} : Moved(k, at)
  <2>1. EndProc(k) => Moved(k, "none")
    BY DayFacts, Ending
  <2>2. Moves(k, "click") => Moved(k, "click")
    BY <1>1, DayFacts, Moving DEF Inside
  <2> QED BY <1>1, <2>1, <2>2
<1>3. Acked(k) /\ runs[k] = 0
  BY <1>1, DayFacts DEF Confirmed, NotYet
<1>4. k \in DOMAIN events =>
        Says(k, "succeeded", IF business = "same" THEN events[k].business ELSE business)
  BY <1>3, DayFacts DEF Says
<1>5. business \in BusinessStates \cup {"same"} /\ "succeeded" \in AckStates /\ Proc(k) \in PreRun
  BY <1>1 DEF BusinessStates, AckStates, PreRun
<1> QED BY <1>1, <1>2, <1>4, <1>5, DayUpdate

LEMMA RedeemDay == ASSUME Daily, NEW k \in Clicks, Redeem(k) PROVE DayInv'
<1>1. PICK at \in {"spent", "confirm", "gate"} : Moves(k, at)
  BY DEF Redeem
<1>2. Proc(k) = "click" /\ UNCHANGED <<events, sent, runs>>
  BY DEF Redeem
<1>3. Moved(k, at)
  BY <1>1, <1>2, DayFacts, Moving DEF Inside, Outside
<1> QED BY <1>2, <1>3, DayMove DEF PreRun

LEMMA MarkQueuedDay == ASSUME Daily, NEW k \in Clicks, MarkQueued(k) PROVE DayInv'
<1>1. Proc(k) = "spent" /\ runs[k] = 0
  BY DayFacts DEF MarkQueued, Redeemed
<1>2. CASE Ends(k, "rejected")
  BY <1>1, <1>2, EndsDay DEF BusinessStates
<1>3. CASE Update(k, "same", "queued") /\ Moves(k, "marked") /\ UNCHANGED <<sent, runs>>
  <2>1. Moved(k, "marked")
    BY <1>1, <1>3, DayFacts, Moving DEF Inside
  <2>2. k \in DOMAIN events => Says(k, events[k].ack, "queued")
    BY DayFacts DEF Says
  <2> QED BY <1>3, <2>1, <2>2, DayUpdate DEF PreRun, BusinessStates
<1> QED BY <1>2, <1>3 DEF MarkQueued

LEMMA CommitDay == ASSUME Daily, NEW k \in Clicks, Commit(k) PROVE DayInv'
<1>1. Proc(k) = "marked" /\ runs[k] = 0
  BY DayFacts DEF Commit, Redeemed
<1>2. CASE \E state \in {"rejected", "unknown"} : Ends(k, state)
  BY <1>1, <1>2, EndsDay DEF BusinessStates
<1>3. CASE EndProc(k) /\ UNCHANGED <<events, sent, runs>>
  <2>1. Moved(k, "none")
    BY <1>3, DayFacts, Ending
  <2> QED BY <1>3, <2>1, DayMove DEF PreRun
<1> QED BY <1>2, <1>3 DEF Commit

LEMMA HostEndsDay == ASSUME Daily, NEW k \in Clicks, HostEnds(k) PROVE DayInv'
<1>1. PICK business \in {"finished_unconfirmed", "rejected"} :
        /\ Update(k, "same", business) /\ UNCHANGED <<sent, runs>> /\ UNCHANGED procs
        /\ business = "rejected" <=> hosted[k] = "queued"
        /\ k \in DOMAIN hosted
  BY DEF HostEnds, inQueue
<1>2. Intent[Token[k]] = "execute" /\ (business = "rejected" => runs[k] = 0)
  BY <1>1, DayFacts DEF Redeemed
<1>3. Moved(k, Proc(k))
  BY <1>1, DayFacts, Staying
<1>4. k \in DOMAIN events => Says(k, events[k].ack, business)
  BY <1>1, <1>2, DayFacts DEF Says
<1>5. business \in BusinessStates /\ business # "same"
  BY DEF BusinessStates
<1> QED BY <1>1, <1>3, <1>4, <1>5, DayUpdate

-----------------------------------------------------------------------------
(* What the ledger says of the acknowledgements of a click.                *)

\* All requests of the click went under this id.
Under(k, op) == \A i \in AcksOf(k) : wire[i].op = op

\* The ledger's word for an id is the truth about the click.
Judged(k, op) ==
    /\ Outcome(op) \in {"not_sent", "rejected"} /\ Under(k, op)
          => \A i \in AcksOf(k) : ~L!Possible(i)
    /\ Outcome(op) = "succeeded" /\ Target[op] = k => Acked(k)
    /\ Under(k, op) => \A i, j \in AcksOf(k) : i = j \/ ~L!Possible(i) \/ ~L!Possible(j)

LEMMA LedgerJudges ==
    LP!Inv /\ LP!Today /\ MaxClock < Day => \A k \in Clicks, op \in Acks : Judged(k, op)
<1> SUFFICES ASSUME LP!Inv, LP!Today, MaxClock < Day, NEW k \in Clicks, NEW op \in Acks
             PROVE  Judged(k, op)
  OBVIOUS
<1>1. /\ (op \in DOMAIN ops => ops[op].state \in {"not_sent", "rejected", "reserved"}) =>
              \A i \in DOMAIN wire : wire[i].op = op => ~L!Possible(i)
      /\ \A i, j \in DOMAIN wire : wire[i].op = op /\ wire[j].op = op /\ L!Possible(i)
                                   /\ L!Possible(j) => i = j
  BY LP!TruthToday, LimitsHold, PossibleIs
<1>2. Outcome(op) = "succeeded" => \E i \in DOMAIN wire : wire[i].op = op /\ wire[i].fate = "accepted"
  BY DEF Outcome, LP!Inv, LP!LedgerTruth, LP!OfLife
<1>3. Outcome(op) \in {"not_sent", "rejected"} =>
         (op \in DOMAIN ops => ops[op].state \in {"not_sent", "rejected", "reserved"})
  BY DEF Outcome
<1> QED BY <1>1, <1>2, <1>3 DEF Judged, Under, AcksOf, Acked

LEMMA JudgedNext ==
    ASSUME LP!Inv', LP!Today', MaxClock < Day
    PROVE  (\A k \in Clicks, op \in Acks : Judged(k, op))'
<1>1. (LP!Inv /\ LP!Today /\ MaxClock < Day => \A k \in Clicks, op \in Acks : Judged(k, op))'
  BY LedgerJudges, PTL
<1> QED BY <1>1

\* The core acknowledges a click under one id.
LEMMA OwnId ==
    ASSUME LP!Inv, NEW k \in Clicks, Managed(k)
    PROVE  AckOp(k) \in Acks /\ Target[AckOp(k)] = k /\ Under(k, AckOp(k))
<1>1. AckOp(k) \in Acks /\ Target[AckOp(k)] = k
  BY ClicksAssumption DEF AckOp, Managed
<1>2. \A i \in DOMAIN wire : wire[i].op \in Acks
  <2>1. wire \in Seq(LP!Request)
    BY DEF LP!Inv, LP!TypeOK
  <2>2. \A i \in DOMAIN wire : wire[i] \in LP!Request
    BY <2>1
  <2> QED BY <2>2 DEF LP!Request
<1>3. ASSUME NEW i \in AcksOf(k) PROVE wire[i].op = AckOp(k)
  <2>1. wire[i].op \in Acks /\ Target[wire[i].op] = Target[AckOp(k)] /\ Kind[Target[wire[i].op]] # "other"
    BY <1>1, <1>2 DEF AcksOf, Managed
  <2> QED BY <1>1, <2>1, ClicksAssumption
<1> QED BY <1>1, <1>3 DEF Under

LEMMA StartAckDay == ASSUME Daily, NEW k \in Clicks, StartAck(k) PROVE DayInv'
<1>1. PICK at \in {"ack", "failed"} : Moves(k, at)
  BY DEF StartAck
<1>2. Proc(k) = "new" /\ UNCHANGED <<events, sent, runs>>
  BY DEF StartAck
<1>3. Moved(k, at)
  BY <1>1, <1>2, DayFacts, Moving DEF Inside, Outside
<1> QED BY <1>2, <1>3, DayMove DEF PreRun

\* A write ended.
LEMMA ContinueDay ==
    ASSUME Daily, NEW op \in Acks, L!Fails(op) \/ L!Confirmed(op),
           NEW at \in {"acked", "failed"}, Continue(op, at)
    PROVE  DayInv'
<1> DEFINE k == Target[op]
<1>1. k \in Clicks /\ UNCHANGED <<events, sent, runs>>
      /\ IF Managed(k) THEN procs' = [procs EXCEPT ![k] = at] ELSE UNCHANGED procs
  BY ClicksAssumption DEF Continue
<1>2. Managed(k) => Proc(k) = "ack"
  <2>1. op \in DOMAIN tasks
    <3>1. LP!Fails(op) \/ LP!Confirmed(op)
      BY FailsIs, ConfirmedIs
    <3> QED BY <3>1, LP!EndingEnds, LimitsHold DEF Daily, ClickInv, LedgerInv, LP!Ended
  <2> QED BY <2>1 DEF Daily, ClickInv, TasksFit
<1> HIDE DEF k
<1>3. CASE Managed(k)
  <2>1. Moved(k, at)
    BY <1>1, <1>2, <1>3, DayFacts, Moving DEF Moves, Inside
  <2> QED BY <1>1, <1>2, <1>3, <2>1, DayMove DEF PreRun
<1>4. CASE ~Managed(k)
  <2>1. Moved(k, Proc(k))
    BY <1>1, <1>4, DayFacts, Staying
  <2> QED BY <1>1, <2>1, DayMove
<1> QED BY <1>3, <1>4

LEMMA AckFailedDay == ASSUME Daily, NEW k \in Clicks, AckFailed(k) PROVE DayInv'
<1> DEFINE outcome == Outcome(AckOp(k))
<1>1. Update(k, outcome, "not_executed") /\ Proc(k) = "failed" /\ EndProc(k)
      /\ UNCHANGED <<sent, runs>>
  BY DEF AckFailed
<1>2. Managed(k) /\ runs[k] = 0
  BY <1>1, DayFacts DEF Placed, NotYet
<1>3. Moved(k, "none")
  BY <1>1, DayFacts, Ending
<1>4. outcome \in AckStates /\ "not_executed" \in BusinessStates
      /\ "same" \notin AckStates \cup BusinessStates
  BY OutcomeIsState DEF Daily, ClickInv, AckStates, BusinessStates
<1>5. Says(k, outcome, "not_executed")
  <2>1. Judged(k, AckOp(k)) /\ Under(k, AckOp(k)) /\ Target[AckOp(k)] = k
    BY <1>2, OwnId, LedgerJudges DEF Daily, ClickInv, LedgerInv, DayInv
  <2> QED BY <1>2, <2>1 DEF Says, Judged
<1> HIDE DEF outcome
<1> QED BY <1>1, <1>3, <1>4, <1>5, DayUpdate DEF PreRun

LEMMA ReplyEndsDay == ASSUME Daily, NEW k \in Clicks, ReplyEnds(k) PROVE DayInv'
<1> DEFINE op == events[k].op
           s == Outcome(op)
           ack == IF Reply(k) = "acked" THEN "succeeded"
                  ELSE IF s \in {"unknown", "not_sent", "rejected"} THEN s ELSE "unknown"
<1>1. Update(k, ack, "same") /\ UNCHANGED <<sent, runs>> /\ UNCHANGED procs
      /\ Reply(k) \in {"acked", "failed"}
  BY DEF ReplyEnds
<1>2. k \in DOMAIN events /\ ~Managed(k) /\ op \in Acks /\ Target[op] = k /\ op # NoAck
  BY <1>1, DayFacts, ClicksAssumption DEF Placed
<1>3. Judged(k, op) /\ Under(k, op)
  <2>1. Judged(k, op)
    BY <1>2, LedgerJudges DEF Daily, ClickInv, LedgerInv, DayInv
  <2> QED BY <1>2, <2>1, DayFacts DEF OneId, Under
<1>4. Says(k, ack, events[k].business)
  BY <1>1, <1>2, <1>3, DayFacts DEF Says, Judged, Confirmed
<1>5. ack \in AckStates /\ ack # "same"
  BY DEF AckStates
<1> HIDE DEF op, s, ack
<1>6. Moved(k, Proc(k))
  BY <1>1, DayFacts, Staying
<1> QED BY <1>1, <1>4, <1>5, <1>6, DayUpdate

LEMMA ReplyRecoversDay == ASSUME Daily, NEW k \in Clicks, ReplyRecovers(k) PROVE DayInv'
<1>1. /\ Update(k, "succeeded", "same") /\ UNCHANGED <<sent, runs>> /\ UNCHANGED procs
      /\ k \in DOMAIN events /\ events[k].op # NoAck /\ Outcome(events[k].op) = "succeeded"
  BY DEF ReplyRecovers, inQueue
<1>2. events[k].op \in Acks /\ Target[events[k].op] = k
  BY <1>1, DayFacts DEF Types, Placed
<1>3. Acked(k)
  <2>1. Judged(k, events[k].op)
    BY <1>2, LedgerJudges DEF Daily, ClickInv, LedgerInv, DayInv
  <2> QED BY <1>1, <1>2, <2>1 DEF Judged
<1>4. Says(k, "succeeded", events[k].business)
  BY <1>1, <1>3, DayFacts DEF Says
<1>5. Moved(k, Proc(k))
  BY <1>1, DayFacts, Staying
<1> QED BY <1>1, <1>4, <1>5, DayUpdate DEF AckStates

\* A claim of a reply: its click can still be answered, so it was not yet.
LEMMA ReplyClaimsDay == ASSUME Daily, NEW op \in Acks, ReplyClaims(op) PROVE DayInv'
<1> DEFINE k == Target[op]
           r == [events[k] EXCEPT !.ack = "pending", !.op = op, !.updated = Now]
<1>1. /\ k \in Clicks /\ ~Managed(k) /\ k \in DOMAIN events /\ Claimable(k) /\ InTime(k)
      /\ events' = [events EXCEPT ![k].ack = "pending", ![k].op = op, ![k].updated = Now]
      /\ UNCHANGED <<procs, sent, runs>>
  BY ClicksAssumption DEF ReplyClaims
<1>2. ~Past(k)
  <2>1. Now \in Nat /\ water \in Nat /\ water <= Now /\ sent[k] \in Int /\ Window \in Nat
    BY <1>1, NowIsTime, DayFacts, BoundsAssumption DEF Daily, ClickInv, Types
  <2> QED BY <1>1, <2>1 DEF InTime, Past
<1>3. AcksOf(k) = {}
  BY <1>1, <1>2, DayFacts DEF OneId, Claimable
<1> HIDE DEF k
<1>4. /\ DOMAIN events' = DOMAIN events /\ events'[k].ack = "pending"
      /\ events'[k].business = events[k].business
      /\ \A x \in DOMAIN events \ {k} : events'[x] = events[x]
  <2>1. events[k] \in Row /\ events \in [DOMAIN events -> Row]
    BY <1>1, DayFacts DEF Types, Row
  <2>2. events' = [events EXCEPT ![k] = r]
    BY <1>1, <2>1 DEF Row
  <2>3. r.ack = "pending" /\ r.business = events[k].business
    BY <2>1 DEF Row
  <2> HIDE DEF r
  <2> QED BY <1>1, <2>1, <2>2, <2>3
<1>5. Proc(k)' = Proc(k) /\ \A x \in Clicks : Proc(x)' = Proc(x)
  BY <1>1 DEF Proc
<1>6. \A x \in Clicks \ {k} : Trails(x)' /\ RowTrue(x)'
  <2>1. \A x \in Clicks \ {k} : Elsewhere(x)
    BY <1>1, <1>4, <1>5 DEF Elsewhere
  <2> QED BY <2>1, DayElsewhere
<1>7. AcksOf(k)' = {}
  BY <1>3, AcksStay DEF Daily, Kept
<1>8. Trails(k)'
  BY <1>1, <1>4, <1>5, <1>7, DayFacts DEF Trails, Traced, OneId, NotYet
<1>9. RowTrue(k)'
  <2>1. Says(k, "pending", events[k].business)
    BY <1>1, DayFacts DEF Says
  <2> QED BY <1>1, <1>4, <2>1, SaysStill, KeptStays DEF Daily, Kept
<1> QED BY <1>6, <1>8, <1>9, Zenon DEF Daily, DayInv, Trails

\* Steps that touch no row, no task and no run.
LEMMA ApartDay ==
    ASSUME Daily, UNCHANGED <<events, procs, sent, runs>>
    PROVE  DayInv'
<1>1. \A x \in Clicks : Elsewhere(x)
  BY DEF Elsewhere, Proc
<1> QED BY <1>1, DayApart

LEMMA ClickDay == ASSUME Daily, NEW k \in Clicks, Click(k) PROVE DayInv'
<1>1. /\ sent[k] < 0 /\ sent' = [sent EXCEPT ![k] = clock] /\ clock \in Nat
      /\ UNCHANGED <<wire, events, procs, runs>> /\ sent \in [Clicks -> Int]
  BY NowIsTime, DayFacts DEF Click, Daily, ClickInv, ledger, inQueue, Types
<1>2. \A x \in Clicks \ {k} : Trails(x)' /\ RowTrue(x)'
  <2>1. \A x \in Clicks \ {k} : Elsewhere(x)
    BY <1>1 DEF Elsewhere, Proc
  <2> QED BY <2>1, DayElsewhere
<1>3. AcksOf(k)' = {} /\ runs'[k] = 0 /\ k \notin DOMAIN events'
  BY <1>1, DayFacts DEF Traced, AcksOf
<1>4. Trails(k)' /\ RowTrue(k)'
  BY <1>1, <1>3 DEF Trails, Traced, OneId, NotYet, RowTrue
<1> QED BY <1>2, <1>4, Zenon DEF Daily, DayInv, Trails

\* A command or a handler starts: its click has its row, which says nothing yet.
LEMMA StartDay ==
    ASSUME Daily, NEW k \in Clicks, UNCHANGED <<wire, events, sent>>,
           runs' = [runs EXCEPT ![k] = @ + 1], k \in DOMAIN events,
           events[k].business \in Business0,
           Proc(k)' \notin PreRun, \A x \in Clicks \ {k} : Proc(x)' = Proc(x)
    PROVE  DayInv'
<1>1. runs \in [Clicks -> Nat] /\ sent \in [Clicks -> Int]
  BY DayFacts DEF Types
<1>2. \A x \in Clicks \ {k} : Trails(x)' /\ RowTrue(x)'
  <2>1. \A x \in Clicks \ {k} : Elsewhere(x)
    BY <1>1 DEF Elsewhere
  <2> QED BY <2>1, DayElsewhere
<1>3. Trails(k)'
  <2>1. Traced(k)'
    BY <1>1, DayFacts DEF Traced, AcksOf
  <2>2. OneId(k)'
    <3>1. AcksOf(k)' = AcksOf(k) /\ (Past(k) => Past(k)')
      <4>1. LedgerInv' /\ water <= water'
        BY DEF Daily, ClickInv, Kept
      <4> QED BY <4>1, PastStays DEF AcksOf, Daily
    <3> QED BY <3>1, DayFacts DEF OneId, PreRun
  <2>3. NotYet(k)'
    BY DEF NotYet, PreRun
  <2> QED BY <2>1, <2>2, <2>3 DEF Trails
<1>4. RowTrue(k)'
  <2>1. Says(k, events[k].ack, events[k].business)
    BY DayFacts
  <2>2. \A i \in AcksOf(k) : L!Possible(i)' <=> L!Possible(i)
    BY DEF L!Possible
  <2>3. AcksOf(k)' = AcksOf(k) /\ (Acked(k) => Acked(k)')
    BY DEF AcksOf, Acked
  <2> QED BY <2>1, <2>2, <2>3 DEF RowTrue, Says, Business0
<1> QED BY <1>2, <1>3, <1>4, Zenon DEF Daily, DayInv, Trails

LEMMA HostAdmitsDay == ASSUME Daily, NEW k \in Clicks, HostAdmits(k) PROVE DayInv'
<1>1. UNCHANGED <<procs, ledger, events, sent, runs>>
  BY DEF HostAdmits, inQueue
<1>2. Moved(k, Proc(k))
  BY <1>1, DayFacts, Staying
<1> QED BY <1>1, <1>2, DayMove DEF ledger

LEMMA HostRunsDay == ASSUME Daily, NEW k \in Clicks, HostRuns(k) PROVE DayInv'
<1>1. k \in DOMAIN hosted /\ runs' = [runs EXCEPT ![k] = @ + 1]
      /\ UNCHANGED <<wire, events, sent, procs>>
  BY DEF HostRuns, ledger, inQueue
<1>2. k \in DOMAIN events /\ events[k].business \in Business0 /\ Proc(k) = "none"
  BY <1>1, DayFacts DEF Placed, Business0
<1>3. \A x \in Clicks : Proc(x)' = Proc(x)
  BY <1>1 DEF Proc
<1> QED BY <1>1, <1>2, <1>3, StartDay DEF PreRun

LEMMA HandlerStartsDay == ASSUME Daily, NEW k \in Clicks, HandlerStarts(k) PROVE DayInv'
<1>1. Proc(k) = "gate" /\ runs' = [runs EXCEPT ![k] = @ + 1] /\ Moves(k, "handler")
      /\ UNCHANGED <<wire, events, sent>>
  BY DEF HandlerStarts, ledger
<1>2. k \in DOMAIN events /\ events[k].business \in Business0
  BY <1>1, DayFacts DEF Placed
<1>3. Proc(k)' = "handler" /\ \A x \in Clicks \ {k} : Proc(x)' = Proc(x)
  BY <1>1, DayFacts, Moving DEF Outside, Moved
<1> QED BY <1>1, <1>2, <1>3, StartDay DEF PreRun

\* Intake: the click can still be answered, so nothing of it is there yet; a
\* row that made room is of a click nobody can answer any more.
LEMMA AcceptDay == ASSUME Daily, NEW k \in Clicks, Accept(k) PROVE DayInv'
<1> DEFINE row == [ack |-> IF Managed(k) THEN "pending" ELSE "not_required",
                   business |-> "pending", op |-> NoAck, updated |-> Now]
<1>1. PICK e \in MadeRoom : events' = Extend(e, k, row)
  BY DEF Accept
<1>2. /\ k \notin DOMAIN events /\ procs' = Extend(procs, k, "new") /\ water' = Now
      /\ Timely(k) /\ sent[k] >= 0 /\ UNCHANGED <<sent, runs>>
  BY DEF Accept, Transaction
<1>3. row.op = NoAck /\ row.business = "pending"
      /\ row.ack = IF Managed(k) THEN "pending" ELSE "not_required"
  OBVIOUS
<1> HIDE DEF row
<1>4. /\ DOMAIN events' = DOMAIN e \cup {k} /\ events'[k] = row
      /\ \A x \in DOMAIN e : x \in DOMAIN events /\ x # k /\ events'[x] = events[x]
      /\ \A x \in DOMAIN events \ DOMAIN e :
            events[x].updated <= Now - Day \/ sent[x] <= Now - Window
  <2>1. /\ DOMAIN e \subseteq DOMAIN events /\ \A x \in DOMAIN e : e[x] = events[x]
        /\ \A x \in DOMAIN events \ DOMAIN e :
              events[x].updated <= Now - Day \/ sent[x] <= Now - Window
    BY MakingRoom
  <2>2. DOMAIN events' = DOMAIN e \cup {k} /\ events'[k] = row
        /\ \A x \in DOMAIN e : x # k => events'[x] = e[x]
    BY <1>1 DEF Extend
  <2> QED BY <1>2, <2>1, <2>2
<1>5. Proc(k)' = "new" /\ \A x \in Clicks \ {k} : Proc(x)' = Proc(x)
  BY <1>2 DEF Proc, Extend
<1>6. /\ Now \in Nat /\ Now < Day /\ Day \in Nat /\ Window \in Nat /\ AckDeadline \in Nat
      /\ AckDeadline <= Window /\ water \in Nat /\ water <= Now /\ sent \in [Clicks -> Int]
  BY NowToday, NowIsTime, BoundsAssumption, DayFacts DEF Daily, DayInv, ClickInv, Types
<1>7. \A x \in Clicks \ {k} : Trails(x)' /\ RowTrue(x)'
  <2> SUFFICES ASSUME NEW x \in Clicks \ {k} PROVE Elsewhere(x)
    BY DayElsewhere
  <2>1. x \in DOMAIN events \ DOMAIN events' => Past(x)'
    <3> SUFFICES ASSUME x \in DOMAIN events \ DOMAIN e PROVE Past(x)'
      BY <1>4
    <3>1. events[x].updated \in Nat
      BY DayFacts DEF Types
    <3>2. ~(events[x].updated <= Now - Day)
      BY <1>6, <3>1
    <3>3. sent[x] <= Now - Window /\ sent[x] \in Int
      BY <1>4, <1>6, <3>2
    <3> QED BY <1>2, <1>6, <3>3 DEF Past
  <2>2. x \in DOMAIN events' => x \in DOMAIN events /\ events'[x] = events[x]
    BY <1>4
  <2> QED BY <1>2, <1>5, <2>1, <2>2 DEF Elsewhere
<1>8. Managed(k) => ~Past(k)
  BY <1>2, <1>6 DEF Timely, Past
<1>9. AcksOf(k)' = AcksOf(k) /\ (\A i \in AcksOf(k) : wire'[i].op = wire[i].op)
      /\ (Past(k) => Past(k)')
  <2>1. LedgerInv' /\ water <= water' /\ LP!WireKept
    BY DEF Daily, ClickInv, Kept
  <2> QED BY <1>2, <2>1, AcksStay, PastStays DEF Daily
<1>10. runs[k] = 0
  <2>1. runs[k] \in Nat /\ (Kind[k] = "button" => Managed(k)) /\ (runs[k] > 0 => Kind[k] = "button")
    BY DayFacts DEF Types, Redeemed, Paid, Managed
  <2> QED BY <1>2, <1>8, <2>1, DayFacts DEF Traced
<1>11. Trails(k)'
  <2>1. Traced(k)'
    <3>1. sent'[k] \in Int /\ sent'[k] >= 0
      BY <1>2, <1>6
    <3> QED BY <1>4, <3>1 DEF Traced
  <2>2. OneId(k)'
    <3>1. AcksOf(k) # {} => Past(k)
      BY <1>2, DayFacts DEF Traced
    <3> QED BY <1>3, <1>4, <1>8, <1>9, <3>1, DayFacts DEF OneId
  <2>3. NotYet(k)'
    BY <1>2, <1>10 DEF NotYet
  <2> QED BY <2>1, <2>2, <2>3 DEF Trails
<1>12. RowTrue(k)'
  BY <1>3, <1>4 DEF RowTrue, Says
<1> QED BY <1>7, <1>11, <1>12, Zenon DEF Daily, DayInv, Trails

\* A request leaves under the id its click waits on.
LEMMA SendAckDay ==
    ASSUME ClickInv, DayInv, MaxClock < Day, LP!Today', NEW op \in Acks, SendAck(op), LedgerInv'
    PROVE  DayInv'
<1> DEFINE k == Target[op]
           new == [op |-> op, fate |-> "open", at |-> LP!Now]
<1>1. /\ op \in DOMAIN tasks /\ water <= water' /\ wire \in Seq(LP!Request)
      /\ LP!Now \in Nat /\ wire' = Append(wire, new)
  BY SubmitIs, LP!SubmitEffect, LimitsHold DEF SendAck, ClickInv, LedgerInv
<1>2. new \in LP!Request /\ new.op = op
  BY <1>1 DEF LP!Request
<1> HIDE DEF new
<1>3. /\ DOMAIN wire' = DOMAIN wire \cup {Len(wire) + 1} /\ wire'[Len(wire) + 1] = new
      /\ \A i \in DOMAIN wire : wire'[i] = wire[i]
  <2>1. /\ DOMAIN wire = 1 .. Len(wire) /\ DOMAIN wire' = 1 .. Len(wire) + 1 /\ Len(wire) \in Nat
        /\ wire'[Len(wire) + 1] = new /\ \A i \in DOMAIN wire : wire'[i] = wire[i]
    BY <1>1, <1>2, AppendProperties
  <2> QED BY <2>1
<1>4. k \in Clicks /\ UNCHANGED <<events, procs, replies, sent, runs>>
  BY ClicksAssumption DEF SendAck, inQueue
<1>5. \A x \in Clicks : Proc(x)' = Proc(x) /\ (Past(x) => Past(x)')
  BY <1>1, <1>4, PastStays DEF Proc
<1>6. ASSUME NEW x \in Clicks \ {k} PROVE Trails(x)' /\ RowTrue(x)'
  <2>1. Trails(x) /\ RowTrue(x)
    BY DEF DayInv, Trails
  <2>2. /\ AcksOf(x)' = AcksOf(x) /\ (Acked(x) => Acked(x)')
        /\ \A i \in AcksOf(x) : wire'[i] = wire[i] /\ (L!Possible(i)' => L!Possible(i))
    BY <1>2, <1>3 DEF AcksOf, Acked, L!Possible
  <2>3. Traced(x)' /\ NotYet(x)'
    BY <1>4, <1>5, <2>1, <2>2 DEF Trails, Traced, NotYet
  <2>4. OneId(x)'
    BY <1>4, <1>5, <2>1, <2>2 DEF Trails, OneId
  <2>5. RowTrue(x)'
    BY <1>4, <2>1, <2>2 DEF RowTrue, Says
  <2> QED BY <2>3, <2>4, <2>5 DEF Trails
<1>7. /\ Managed(k) => k \in DOMAIN events /\ events[k].ack = "pending" /\ Proc(k) # "new"
      /\ ~Managed(k) => k \in DOMAIN events /\ events[k].ack = "pending" /\ events[k].op = op
                        /\ op # NoAck
  <2>1. IF Managed(k) THEN Proc(k) = "ack" ELSE Reply(k) = "ack" /\ events[k].op = op
    BY <1>1 DEF ClickInv, TasksFit
  <2> QED BY <1>4, <2>1, ClicksAssumption DEF ClickInv, Placed
<1>8. AcksOf(k)' = AcksOf(k) \cup {Len(wire) + 1} /\ \A i \in AcksOf(k) : wire'[i].op = wire[i].op
  BY <1>2, <1>3 DEF AcksOf
<1>9. Under(k, op)'
  <2>1. Under(k, op)
    <3>1. CASE Managed(k)
      <4>1. AckOp(k) = op /\ Under(k, AckOp(k))
        BY <1>4, <3>1, OwnId, ClicksAssumption DEF Managed, ClickInv, LedgerInv
      <4> QED BY <4>1
    <3>2. CASE ~Managed(k)
      BY <1>4, <1>7, <3>2 DEF DayInv, OneId, Under
    <3> QED BY <3>1, <3>2
  <2> QED BY <1>2, <1>3, <1>8, <2>1 DEF Under
<1>10. Trails(k)' /\ RowTrue(k)'
  <2>1. Traced(k)'
    BY <1>4, <1>7 DEF DayInv, Traced
  <2>2. OneId(k)'
    BY <1>4, <1>5, <1>7, <1>9 DEF OneId, Under
  <2>3. NotYet(k)'
    BY <1>4, <1>5 DEF DayInv, NotYet
  <2>4. RowTrue(k)'
    BY <1>4, <1>7 DEF DayInv, RowTrue, Says
  <2> QED BY <2>1, <2>2, <2>3, <2>4 DEF Trails
<1> QED BY <1>6, <1>10, Zenon DEF DayInv, Trails

\* After a reload or a crash: rows stay, with their ids.
LEMMA RestartDay ==
    ASSUME Daily, procs' = << >>, UNCHANGED <<sent, runs>>, DOMAIN events' = DOMAIN events,
           \A x \in DOMAIN events : events'[x].op = events[x].op,
           \A x \in Clicks : RowTrue(x)'
    PROVE  DayInv'
<1>1. \A x : Proc(x)' = "none"
  BY EmptySeq DEF Proc
<1>2. \A x \in Clicks : Steady(x)
  BY <1>1 DEF Daily, Kept, Steady, PreRun
<1>3. \A x \in Clicks : Trails(x)'
  BY SMTT(30), <1>2, TrailsStay DEF Daily, DayInv, ClickInv, Trails
<1> QED BY <1>3, Zenon DEF Daily, DayInv, Trails

LEMMA ReloadDay == ASSUME Daily, Reload PROVE DayInv'
<1>1. /\ procs' = << >> /\ UNCHANGED <<sent, runs>>
      /\ events' = [k \in DOMAIN events |->
            IF Proc(k) # "none" /\ Managed(k)
            THEN [events[k] EXCEPT !.ack = Outcome(AckOp(k))', !.business = "unknown", !.updated = Now]
            ELSE IF Reply(k) # "none"
            THEN [events[k] EXCEPT !.ack = "unknown", !.updated = Now]
            ELSE events[k]]
  BY DEF Reload
<1>2. LP!WireKept /\ AckedStays
  BY KeptStays DEF Daily, Kept
<1>3. ASSUME NEW x \in DOMAIN events
      PROVE  events'[x].op = events[x].op /\ RowTrue(x)'
  <2>1. events[x] \in Row /\ x \in Clicks /\ x \in DOMAIN events'
    BY <1>1, DayFacts DEF Daily, ClickInv, Types, Row
  <2>2. CASE Proc(x) # "none" /\ Managed(x)
    <3>1. Reply(x) = "none"
      BY SMTT(30), <2>1, <2>2, DayFacts DEF Placed
    <3>2. events'[x] = [events[x] EXCEPT !.ack = Outcome(AckOp(x))', !.business = "unknown",
                                         !.updated = Now]
      BY <1>1, <2>2, <3>1
    <3>3. events'[x].op = events[x].op /\ events'[x].ack = Outcome(AckOp(x))'
          /\ events'[x].business = "unknown"
      BY <2>1, <3>2 DEF Row
    <3>4. AckOp(x) \in Acks /\ Target[AckOp(x)] = x /\ Under(x, AckOp(x))'
      <4>1. AckOp(x) \in Acks /\ Target[AckOp(x)] = x /\ Under(x, AckOp(x))
        BY <2>1, <2>2, OwnId DEF Daily, ClickInv, LedgerInv
      <4> QED BY <1>2, <4>1, AcksStay DEF Under
    <3>5. Judged(x, AckOp(x))'
      <4>1. LP!Inv' /\ LP!Today' /\ MaxClock < Day
        BY SMTT(30) DEF Daily, ClickInv, LedgerInv
      <4> QED BY <2>1, <3>4, <4>1, JudgedNext
    <3> QED BY <3>3, <3>4, <3>5 DEF RowTrue, Says, Judged
  <2>3. CASE ~(Proc(x) # "none" /\ Managed(x)) /\ Reply(x) # "none"
    <3>1. events'[x] = [events[x] EXCEPT !.ack = "unknown", !.updated = Now]
      BY <1>1, <2>3
    <3>2. events'[x].op = events[x].op /\ events'[x].ack = "unknown"
          /\ events'[x].business = events[x].business
      BY <2>1, <3>1 DEF Row
    <3>3. Says(x, "unknown", events[x].business)
      BY SMTT(30), <2>1, DayFacts DEF Says
    <3> QED BY ZenonT(30), <1>1, <1>2, <2>1, <3>2, <3>3, SaysStill
  <2>4. CASE ~(Proc(x) # "none" /\ Managed(x)) /\ Reply(x) = "none"
    <3>1. events'[x] = events[x]
      BY <1>1, <2>4
    <3>2. Says(x, events[x].ack, events[x].business)
      BY SMTT(30), <2>1, DayFacts
    <3> QED BY ZenonT(30), <1>1, <1>2, <2>1, <3>1, <3>2, SaysStill
  <2> QED BY <2>2, <2>3, <2>4
<1>4. DOMAIN events' = DOMAIN events
  BY <1>1
<1>5. \A x \in Clicks : RowTrue(x)'
  BY <1>3, <1>4 DEF RowTrue
<1> QED BY ZenonT(30), <1>1, <1>3, <1>4, <1>5, RestartDay

LEMMA CrashDay == ASSUME Daily, Crash PROVE DayInv'
<1>1. /\ procs' = << >> /\ UNCHANGED <<sent, runs>>
      /\ events' = [k \in DOMAIN events |-> Recovered(events[k])]
  BY DEF Crash
<1>2. LP!WireKept /\ AckedStays
  BY KeptStays DEF Daily, Kept
<1>3. ASSUME NEW x \in DOMAIN events
      PROVE  events'[x].op = events[x].op /\ RowTrue(x)'
  <2> DEFINE a == IF events[x].ack = "pending" THEN "unknown" ELSE events[x].ack
             b == IF events[x].business \in {"pending", "queued", "admitted"} THEN "unknown"
                  ELSE events[x].business
  <2>1. events[x] \in Row /\ x \in Clicks
    BY DEF Daily, ClickInv, Types, Row
  <2>2. events'[x] = [events[x] EXCEPT !.ack = a, !.business = b]
    BY <1>1, <2>1 DEF Recovered, Row
  <2>3. Says(x, a, b)
    BY <2>1, DayFacts DEF Says
  <2> HIDE DEF a, b
  <2>4. events'[x].op = events[x].op /\ events'[x].ack = a /\ events'[x].business = b
    BY <2>1, <2>2 DEF Row
  <2> QED BY <1>1, <1>2, <2>1, <2>3, <2>4, SaysStill
<1>4. DOMAIN events' = DOMAIN events
  BY <1>1
<1>5. \A x \in Clicks : RowTrue(x)'
  BY <1>3, <1>4 DEF RowTrue
<1> QED BY <1>1, <1>3, <1>4, <1>5, RestartDay

LEMMA DayInit == Init => DayInv
<1> SUFFICES ASSUME Init PROVE DayInv
  OBVIOUS
<1>1. events = << >> /\ procs = << >> /\ wire = << >> /\ clock = 0 /\ water = 0
      /\ runs = [k \in Clicks |-> 0]
  BY DEF Init, L!Init
<1>2. DOMAIN events = {} /\ DOMAIN procs = {} /\ DOMAIN wire = {}
  BY <1>1, EmptySeq
<1>3. LP!Today
  BY <1>1, <1>2, BoundsAssumption DEF LP!Today, LP!ThisLife
<1>4. \A k \in Clicks : AcksOf(k) = {} /\ runs[k] = 0 /\ k \notin DOMAIN events
  BY <1>1, <1>2 DEF AcksOf
<1> QED BY <1>3, <1>4 DEF DayInv, Traced, OneId, NotYet, RowTrue

LEMMA DayNext == ClickInv /\ ClickInv' /\ DayInv /\ MaxClock < Day /\ [Next]_vars => DayInv'
<1> SUFFICES ASSUME ClickInv, ClickInv', DayInv, MaxClock < Day, [Next]_vars PROVE DayInv'
  OBVIOUS
<1>1. LP!Today'
  BY TodayStays DEF DayInv
<1>2. CASE \E op \in Acks : SendAck(op)
  BY <1>1, <1>2, SendAckDay DEF ClickInv
<1>3. CASE Kept
  <2>1. Daily
    BY <1>1, <1>3 DEF Daily
  <2>2. CASE UNCHANGED vars \/ Around \/ Configure \/ \E t \in Tickets : Issue(t)
    BY <2>1, <2>2, ApartDay DEF vars, inQueue, Around, Configure, Issue
  <2>3. CASE Reload \/ Crash
    BY <2>1, <2>3, ReloadDay, CrashDay
  <2>4. ASSUME NEW op \in Acks, AckConfirmed(op) \/ AckFails(op) PROVE DayInv'
    BY <2>1, <2>4, ContinueDay DEF AckConfirmed, AckFails
  <2>5. ASSUME NEW op \in Acks, AckRetried(op) \/ ReplyClaims(op) PROVE DayInv'
    BY <2>1, <2>5, ApartDay, ReplyClaimsDay DEF AckRetried, inQueue
  <2>6. ASSUME NEW k \in Clicks, \/ Click(k) \/ Accept(k) \/ Notice(k) \/ StartAck(k)
                                 \/ AckTooLate(k) \/ AckFailed(k) \/ AckSucceeded(k)
                                 \/ UpdateFails(k)
        PROVE  DayInv'
    BY <2>1, <2>6, ClickDay, AcceptDay, NoticeDay, StartAckDay, AckTooLateDay, AckFailedDay,
       AckSucceededDay, UpdateFailsDay
  <2>7. ASSUME NEW k \in Clicks, \/ RefuseClick(k) \/ Redeem(k) \/ MarkQueued(k) \/ Commit(k)
                                 \/ HostAdmits(k) \/ HostRuns(k) \/ HostEnds(k)
                                 \/ HandlerStarts(k) \/ Leaves(k)
                                 \/ ReplyEnds(k) \/ ReplyRecovers(k)
        PROVE  DayInv'
    BY <2>1, <2>7, RefuseClickDay, RedeemDay, MarkQueuedDay, CommitDay, HostAdmitsDay, HostRunsDay, HostEndsDay,
       HandlerStartsDay, LeavesDay, ReplyEndsDay, ReplyRecoversDay
  <2> QED BY <1>2, <2>2, <2>3, <2>4, <2>5, <2>6, <2>7 DEF Next
<1> QED BY <1>2, <1>3, OnlySendAck

\* What the day's invariant says.
LEMMA DayTruth == ClickInv /\ DayInv /\ MaxClock < Day => RecordTruth /\ AckOnce
<1> SUFFICES ASSUME ClickInv, DayInv, MaxClock < Day PROVE RecordTruth /\ AckOnce
  OBVIOUS
<1>1. RecordTruth
  <2>1. \A k \in DOMAIN events : k \in Clicks
    BY DEF ClickInv, Types
  <2> QED BY <2>1 DEF DayInv, RowTrue, Says, RecordTruth
<1>2. ASSUME NEW k \in Clicks, NEW i \in AcksOf(k), NEW j \in AcksOf(k),
             L!Possible(i), L!Possible(j)
      PROVE  i = j
  <2>1. \A x, y \in AcksOf(k) : wire[x].op = wire[y].op
    BY DEF DayInv, OneId
  <2>2. wire[i].op \in Acks
    <3>1. wire \in Seq(LP!Request) /\ i \in DOMAIN wire
      BY DEF ClickInv, LedgerInv, LP!Inv, LP!TypeOK, AcksOf
    <3>2. wire[i] \in LP!Request
      BY <3>1
    <3> QED BY <3>2 DEF LP!Request
  <2>3. Judged(k, wire[i].op)
    BY <2>2, LedgerJudges DEF ClickInv, LedgerInv, DayInv
  <2>4. Under(k, wire[i].op)
    BY <2>1 DEF Under
  <2> QED BY <1>2, <2>3, <2>4 DEF Judged
<1> QED BY <1>1, <1>2 DEF AckOnce

\* Every step is a step of the ledger, or leaves its rows and requests alone.
LEMMA LedgerMoves ==
    ASSUME ClickInv, [Next]_vars
    PROVE  [LP!Next]_LP!vars \/ UNCHANGED <<ops, wire>>
<1>1. CASE Around
  BY SMTT(30), <1>1, WorldIs DEF Around, LP!Next
<1>2. CASE Reload \/ Crash
  BY <1>2, ReloadIs, CrashIs DEF Reload, Crash, LP!Next
<1>3. CASE UNCHANGED vars \/ Configure \/ \E t \in Tickets : Issue(t)
  BY <1>3 DEF vars, ledger, Configure, Issue, Transaction
<1>4. ASSUME NEW op \in Acks, SendAck(op) \/ AckConfirmed(op) \/ AckFails(op) \/ AckRetried(op)
      PROVE  LP!Next
  <2>1. LP!Submit(op) \/ LP!Confirmed(op) \/ LP!Fails(op) \/ LP!Unauthorized(op)
    BY <1>4, SubmitIs, FailsIs, ConfirmedIs, UnauthorizedIs
       DEF SendAck, AckConfirmed, AckFails, AckRetried
  <2> QED BY <2>1 DEF LP!Next
<1>5. ASSUME NEW op \in Acks, L!Begin(op) \/ L!Refused(op)
      PROVE  [LP!Next]_LP!vars
  BY <1>5, BeginIs, RefusedIs DEF LP!Refused, LP!Next
<1>6. ASSUME NEW op \in Acks, ReplyClaims(op) PROVE [LP!Next]_LP!vars
  BY <1>5, <1>6 DEF ReplyClaims
<1>7. ASSUME NEW k \in Clicks, StartAck(k) PROVE [LP!Next]_LP!vars
  <2>1. AckOp(k) \in Acks
    BY <1>7, ClicksAssumption DEF StartAck, AckOp, Managed
  <2> QED BY <1>5, <1>7, <2>1 DEF StartAck
<1>8. ASSUME NEW k \in Clicks, \/ Click(k) \/ Accept(k) \/ Notice(k) \/ AckTooLate(k)
                               \/ AckFailed(k) \/ AckSucceeded(k) \/ UpdateFails(k)
      PROVE  UNCHANGED <<ops, wire>>
  BY <1>8 DEF Click, Accept, Notice, AckTooLate, AckFailed, AckSucceeded, UpdateFails,
              Transaction, ledger
<1>9. ASSUME NEW k \in Clicks, \/ RefuseClick(k) \/ Redeem(k) \/ MarkQueued(k) \/ Commit(k)
                               \/ HostAdmits(k) \/ HostRuns(k) \/ HostEnds(k)
                               \/ HandlerStarts(k) \/ Leaves(k)
                               \/ ReplyEnds(k) \/ ReplyRecovers(k)
      PROVE  UNCHANGED <<ops, wire>>
  BY <1>9 DEF RefuseClick, Redeem, MarkQueued, Commit, HostAdmits, HostRuns, HostEnds,
              HandlerStarts, Leaves, ReplyEnds, ReplyRecovers, Ends, Transaction, ledger
<1> QED BY <1>1, <1>2, <1>3, <1>4, <1>6, <1>7, <1>8, <1>9 DEF Next

\* The refinement mapping of the ledger's Promise.
TheVerdict == [op \in Acks |->
    IF op \notin DOMAIN ops THEN "none"
    ELSE CASE ops[op].state \in {"reserved", "in_flight"} -> "pending"
           [] ops[op].state \in {"succeeded", "partial"} -> "sent"
           [] ops[op].state = "unknown" -> "unknown"
           [] ops[op].state = "history_evicted" ->
                 IF \E i \in L!OfLife(op) : wire[i].fate = "accepted" THEN "sent" ELSE "failed"
           [] OTHER -> "failed"]
TheCopies == [op \in Acks |->
    L!Cardinality({i \in DOMAIN wire : wire[i].op = op /\ wire[i].fate = "accepted"})]

\* So every step is one of the promise, or none.
LEMMA ClickPromised ==
    ASSUME ClickInv, ClickInv', DayInv, DayInv', MaxClock < Day, [Next]_vars
    PROVE  [L!Promise!Next]_<<TheVerdict, TheCopies>>
<1>1. [LP!Promise!Next]_<<LP!TheVerdict, LP!TheCopies>>
  <2>1. CASE [LP!Next]_LP!vars
    BY <2>1, LP!StepPromised, LimitsHold DEF ClickInv, LedgerInv, DayInv
  <2>2. CASE UNCHANGED <<ops, wire>>
    BY <2>2 DEF LP!TheVerdict, LP!TheCopies, LP!OfLife
  <2> QED BY <2>1, <2>2, LedgerMoves
<1>2. TheVerdict = LP!TheVerdict /\ TheVerdict' = LP!TheVerdict'
      /\ TheCopies = LP!TheCopies /\ TheCopies' = LP!TheCopies'
  <2>1. TheVerdict = LP!TheVerdict /\ TheCopies = LP!TheCopies
    BY Zenon DEF TheVerdict, TheCopies, LP!TheVerdict, LP!TheCopies, L!OfLife, LP!OfLife,
                 L!Cardinality, LP!Cardinality, Cardinality
  <2>2. TheVerdict' = LP!TheVerdict' /\ TheCopies' = LP!TheCopies'
    BY Zenon DEF TheVerdict, TheCopies, LP!TheVerdict, LP!TheCopies, L!OfLife, LP!OfLife,
                 L!Cardinality, LP!Cardinality, Cardinality
  <2> QED BY <2>1, <2>2
<1>3. LP!Promise!Next => L!Promise!Next
  BY Zenon DEF LP!Promise!Next, LP!Promise!Report, LP!Promise!Take, LP!Promise!May, LP!OfLife,
               L!Promise!Next, L!Promise!Report, L!Promise!Take, L!Promise!May, L!OfLife,
               L!Cardinality, LP!Cardinality, Cardinality
<1> QED BY <1>1, <1>2, <1>3

-----------------------------------------------------------------------------
(* The theorems.                                                           *)

\* No click is carried out unless QQ took its acknowledgement, and one ticket
\* starts one command or handler, once (process, TicketStore.redeem,
\* CallbackTickets): for every set of clicks, tickets, intents and follow-up
\* cards, with any number of reloads, crashes, lost answers and faults of
\* SQLite, however often QQ delivers a click, and whatever the clock does.
THEOREM ClicksAreSafe == Spec => [](TypeOK /\ EffectAfterAck /\ TicketOnce)
<1>1. ClickInv => TypeOK /\ EffectAfterAck /\ TicketOnce
  BY ClickTypes, ClickEffects
<1> QED BY <1>1, ClickInit, ClickNext, PTL DEF Spec

\* No step deletes or settles the row of a click whose outcome is unknown, but
\* a confirmation of the ledger (accept, confirmed_ack).
THEOREM ClicksStepSafely == Spec => UncertainStays
<1>1. ClickInv /\ [Next]_vars => ClickInv' /\ [UncertainRemains]_vars
  BY ClickNext, Uncertainty
<1> QED BY <1>1, ClickInit, PTL DEF Spec, UncertainStays

\* Within the day rows are kept, what extension_events says of a click is
\* true (update, the callback of a cancelled task, ExtensionStore.__init__,
\* confirmed_ack), and a click is acknowledged once, although its row may be
\* gone when the event comes again.
THEOREM ClicksAreRecorded == ASSUME MaxClock < Day PROVE Spec => [](RecordTruth /\ AckOnce)
<1>1. ClickInv /\ DayInv => RecordTruth /\ AckOnce
  BY DayTruth
<1>2. ClickInv /\ DayInv /\ [Next]_vars => ClickInv' /\ DayInv'
  BY ClickNext, DayNext
<1> QED BY <1>1, <1>2, ClickInit, DayInit, PTL DEF Spec

\* Within that day acknowledgements keep the promise made for messages: QQ
\* takes one at most once, what is called sent or failed is so, and a doubt is
\* never settled by a guess (execute, ExtensionStore).
THEOREM ClicksKeepPromise == ASSUME MaxClock < Day PROVE Spec => KeepsPromise
<1>1. Init => L!Promise!Init
  <2>1. Init => LP!Promise!Init
    BY InitIs, LP!InitPromised, LimitsHold DEF Init
  <2> QED BY <2>1 DEF LP!Promise!Init, L!Promise!Init, L!OfLife, LP!OfLife,
                   L!Cardinality, LP!Cardinality, Cardinality
<1>2. ClickInv /\ ClickInv' /\ DayInv /\ DayInv' /\ [Next]_vars
         => [L!Promise!Next]_<<TheVerdict, TheCopies>>
  BY ClickPromised
<1>3. ClickInv /\ DayInv /\ [Next]_vars => ClickInv' /\ DayInv'
  BY ClickNext, DayNext
<1> QED BY <1>1, <1>2, <1>3, ClickInit, DayInit, PTL
        DEF Spec, KeepsPromise, L!KeepsPromise, L!Promise!Spec, TheVerdict, TheCopies
=============================================================================
