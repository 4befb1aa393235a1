-------------------------- MODULE ExtensionLedger --------------------------
(***************************************************************************)
(* The ledger of every write that is no message: interaction                *)
(* acknowledgements, management calls, uploads, panels (ExtensionStore,     *)
(* table extension_ops, and execute, which brackets one HTTP request).      *)
(* Acknowledgements have a capacity and a task set of their own.            *)
(*                                                                         *)
(* begin, attempt and finish are separate transactions around the waits for *)
(* a slot, a token and the answer, so each is an action.                    *)
(***************************************************************************)
EXTENDS Integers, FiniteSets, Sequences

CONSTANTS
    Ops,                    \* operation ids
    Acks,                   \* those of kind interaction_ack
    OpCap, AckCap,          \* unfinished rows per lane; OpCap bounds history too
    TaskCap, AckTaskCap,    \* writes under way per lane
    Day,                    \* ticks finished rows are kept (24 h)
    MaxClock, MaxCalls, MaxFaults, MaxRestarts   \* bounds of the model

ASSUME LanesAssumption == Acks \subseteq Ops
ASSUME LimitsAssumption ==
    /\ OpCap \in Nat \ {0} /\ AckCap \in Nat \ {0} /\ Day \in Nat \ {0}
    /\ TaskCap \in Nat \ {0} /\ AckTaskCap \in Nat \ {0}
    /\ MaxClock \in Nat /\ MaxCalls \in Nat /\ MaxFaults \in Nat /\ MaxRestarts \in Nat

VARIABLES
    clock, water,      \* the wall clock; the highest time a transaction saw
    ops,               \* table extension_ops
    tasks,             \* the writes under way
    storageFailed,
    wire,              \* every request ever submitted, in order
    calls, faults, restarts

budget == <<calls, faults, restarts>>
vars == <<clock, water, ops, tasks, storageFailed, wire, budget>>

Unfinished == {"reserved", "in_flight", "unknown"}
History    == {"succeeded", "partial", "not_sent", "rejected"}
States     == Unfinished \cup History \cup {"history_evicted"}

Restriction(f, S) == [x \in S |-> f[x]]
Extend(f, x, v) == [y \in DOMAIN f \cup {x} |-> IF y = x THEN v ELSE f[y]]
In(o, states) == {op \in DOMAIN o : o[op].state \in states}

\* MessageStore.now
Now == IF water > clock THEN water ELSE clock

-----------------------------------------------------------------------------
(* prune                                                                   *)

Aged(o) == Restriction(o, {op \in DOMAIN o :
            o[op].state \in Unfinished \/ o[op].updated > Now - Day})

\* All but the newest OpCap finished rows keep nothing but their id; a tie
\* within a tick is any choice.
Pruned(o) ==
    LET H == In(Aged(o), History)
        n == Cardinality(H) - OpCap
        Oldest == {T \in SUBSET H : /\ Cardinality(T) = IF n > 0 THEN n ELSE 0
                                    /\ \A x \in T, y \in H \ T : o[x].updated <= o[y].updated}
    IN  {[op \in DOMAIN Aged(o) |-> IF op \in T THEN [o[op] EXCEPT !.state = "history_evicted"]
                                               ELSE o[op]] : T \in Oldest}

\* What begin does for an id it refuses, and claim_tool for the operations.
Prune == /\ ops' \in Pruned(ops) /\ water' = Now
         /\ UNCHANGED <<clock, tasks, storageFailed, wire, budget>>

-----------------------------------------------------------------------------
Init == /\ clock = 0 /\ water = 0 /\ ops = << >> /\ tasks = << >>
        /\ storageFailed = FALSE /\ wire = << >>
        /\ calls = 0 /\ faults = 0 /\ restarts = 0

Lane(op) == IF op \in Acks THEN Acks ELSE Ops \ Acks
LaneCap(op) == IF op \in Acks THEN AckCap ELSE OpCap
LaneTasks(op) == IF op \in Acks THEN AckTaskCap ELSE TaskCap

\* An id whose row is still there is never started again, and unfinished
\* rows are never evicted for room.
Room(o, op) ==
    /\ op \notin DOMAIN o
    /\ Cardinality(In(o, Unfinished) \cap Lane(op)) < LaneCap(op)

\* begin refused or answered from the ledger.
Refused(op) == (storageFailed \/ \E o \in Pruned(ops) : ~Room(o, op)) /\
               IF storageFailed THEN UNCHANGED vars ELSE Prune

\* begin, and finish at once when the lane's task set is full.
Begin(op) ==
    /\ ~storageFailed /\ calls < MaxCalls /\ calls' = calls + 1
    /\ \E o \in Pruned(ops) :
          LET row(state) == [state |-> state, started |-> Now, updated |-> Now]
          IN  /\ Room(o, op)
              /\ IF Cardinality(DOMAIN tasks \cap Lane(op)) < LaneTasks(op)
                 THEN /\ ops' = Extend(o, op, row("reserved"))
                      /\ tasks' = Extend(tasks, op, [pc |-> "ready", req |-> 0, again |-> FALSE])
                 ELSE ops' \in Pruned(Extend(o, op, row("not_sent"))) /\ UNCHANGED tasks
    /\ water' = Now
    /\ UNCHANGED <<clock, storageFailed, wire, faults, restarts>>

Task(op) == IF op \in DOMAIN tasks THEN tasks[op].pc ELSE "idle"
Verdict(op) == wire[tasks[op].req].fate

\* prepare: the caller's check, then attempt, right before each request.
Submit(op) ==
    /\ Task(op) \in {"ready", "reauth"}
    /\ ops' = [ops EXCEPT ![op].state = "in_flight", ![op].updated = Now]
    /\ wire' = Append(wire, [op |-> op, fate |-> "open", at |-> Now])
    /\ tasks' = [tasks EXCEPT ![op].pc = "wire", ![op].req = Len(wire) + 1]
    /\ water' = Now
    /\ UNCHANGED <<clock, storageFailed, budget>>

Finished(o, op, state) == Extend(o, op, [o[op] EXCEPT !.state = state, !.updated = Now])
EndTask(op) == tasks' = Restriction(tasks, DOMAIN tasks \ {op})

Finish(op, state) ==
    /\ ops' \in Pruned(Finished(ops, op, state))
    /\ water' = Now
    /\ EndTask(op)
    /\ UNCHANGED <<clock, storageFailed, budget>>

\* Refused by the caller's check, out of time, cancelled, or no token.  After
\* a 401 the deadline and the token service report a rejection, and an error
\* of another kind is taken for uncertain.
GiveUp(op) ==
    /\ Task(op) \in {"ready", "reauth"}
    /\ \/ Finish(op, "not_sent")
       \/ Task(op) = "reauth" /\ \E state \in {"rejected", "unknown"} : Finish(op, state)
    /\ UNCHANGED wire

Confirmed(op) == /\ Task(op) = "wire" /\ Verdict(op) = "accepted"
                 /\ Finish(op, "succeeded") /\ UNCHANGED wire

\* validate says that QQ took a part of a batch.
Partial(op) == /\ Task(op) = "wire" /\ Verdict(op) = "accepted" /\ op \notin Acks
               /\ Finish(op, "partial") /\ UNCHANGED wire

\* [Mutated] a timeout is taken for a failure.
UncertainIsFailure(op) == Task(op) = "wire" /\ Finish(op, "not_sent") /\ UNCHANGED wire
\* Timeout, cancellation, lost connection, 5xx, 408, an ambiguous code, an
\* answer validate refuses, a success that could not be stored at first.
Uncertain(op) == Task(op) = "wire" /\ Finish(op, "unknown") /\ UNCHANGED wire

Rejected(op) == /\ Task(op) = "wire" /\ Verdict(op) = "refused"
                /\ Finish(op, "rejected") /\ UNCHANGED wire

\* ClientConnectorError: the request never left.
ConnectFailed(op) ==
    /\ Task(op) = "wire" /\ Verdict(op) = "open"
    /\ wire' = [wire EXCEPT ![tasks[op].req].fate = "refused"]
    /\ Finish(op, "not_sent")

\* One 401 per request is answered with a new token and the same body.
Unauthorized(op) ==
    /\ Task(op) = "wire" /\ Verdict(op) = "refused" /\ ~tasks[op].again
    /\ tasks' = [tasks EXCEPT ![op].pc = "reauth", ![op].again = TRUE]
    /\ UNCHANGED <<clock, water, ops, storageFailed, wire, budget>>

\* finish fails twice: the row stays as it is and no further write begins.
StorageFault(op) ==
    /\ Task(op) # "idle" /\ faults < MaxFaults /\ faults' = faults + 1
    /\ storageFailed' = TRUE /\ EndTask(op)
    /\ UNCHANGED <<clock, water, ops, wire, calls, restarts>>

\* The ends of a write that is not confirmed.
Fails(op) == \/ GiveUp(op) \/ Uncertain(op) \/ Rejected(op) \/ ConnectFailed(op)
             \/ StorageFault(op)

-----------------------------------------------------------------------------
\* QQ decides whether or not anyone still waits; a refusal nobody waits for
\* is the same as no decision.
QQActs(i) ==
    /\ wire[i].fate = "open"
    /\ \E f \in {"accepted", "refused"} :
          /\ f = "refused" => \E op \in DOMAIN tasks : Task(op) = "wire" /\ tasks[op].req = i
          /\ wire' = [wire EXCEPT ![i].fate = f]
    /\ UNCHANGED <<clock, water, ops, tasks, storageFailed, budget>>

SetClock == /\ clock' \in {clock - 1, clock + 1} \cap 0 .. MaxClock
            /\ UNCHANGED <<water, ops, tasks, storageFailed, wire, budget>>

Restart == /\ restarts < MaxRestarts /\ restarts' = restarts + 1 /\ tasks' = << >>
           /\ UNCHANGED <<clock, wire, calls, faults>>

\* The transport closes: every write under way is cancelled.
Reload ==
    /\ Restart
    /\ LET o == [op \in DOMAIN ops |->
                    CASE Task(op) = "wire" -> [ops[op] EXCEPT !.state = "unknown", !.updated = Now]
                      [] Task(op) \in {"ready", "reauth"} ->
                            [ops[op] EXCEPT !.state = "not_sent", !.updated = Now]
                      [] OTHER -> ops[op]]
       IN  ops' \in IF tasks = << >> THEN {ops} ELSE Pruned(o)
    /\ water' = Now /\ UNCHANGED storageFailed

\* ExtensionStore.__init__, which leaves the row's time alone.
Recovered(state) == CASE state = "in_flight" -> "unknown" [] state = "reserved" -> "not_sent"
                      [] OTHER -> state

Crash ==
    /\ Restart
    /\ ops' = [op \in DOMAIN ops |-> [ops[op] EXCEPT !.state = Recovered(@)]]
    /\ water' = Now /\ storageFailed' = FALSE

Next ==
    \/ Prune \/ SetClock \/ Reload \/ Crash
    \/ \E op \in Ops : \/ Begin(op) \/ Submit(op) \/ Confirmed(op) \/ Partial(op)
                       \/ Unauthorized(op) \/ Fails(op)
    \/ \E i \in DOMAIN wire : QQActs(i)

Spec == Init /\ [][Next]_vars

-----------------------------------------------------------------------------
(* Properties.                                                             *)

Row == [state : States, started : Nat, updated : Nat]
TaskRow == [pc : {"ready", "wire", "reauth"}, req : Nat, again : BOOLEAN]
Request == [op : Ops, fate : {"open", "accepted", "refused"}, at : Nat]

\* A write under way has an unfinished row; on the wire it waits for a
\* request of its own.
TypeOK ==
    /\ clock \in Nat /\ water \in Nat /\ storageFailed \in BOOLEAN
    /\ DOMAIN ops \subseteq Ops /\ ops \in [DOMAIN ops -> Row]
    /\ tasks \in [DOMAIN tasks -> TaskRow]
    /\ \A op \in DOMAIN tasks : op \in DOMAIN ops /\ ops[op].state \in {"reserved", "in_flight"}
    /\ \A op \in DOMAIN tasks : tasks[op].pc = "wire" =>
          tasks[op].req \in DOMAIN wire /\ wire[tasks[op].req].op = op
    /\ wire \in Seq(Request)

Possible(i) == wire[i].fate \in {"open", "accepted"}   \* QQ has it or may yet
OfLife(op) == {i \in DOMAIN wire : wire[i].op = op /\ wire[i].at >= ops[op].started}

\* No id is written again within a day of a request that may have reached QQ:
\* not by a caller's retry, a refreshed token, a full ledger or a restart.
WriteOnce ==
    \A i, j \in DOMAIN wire :
        i < j /\ wire[i].op = wire[j].op /\ Possible(i) /\ Possible(j)
            => wire[j].at >= wire[i].at + Day

\* What the ledger calls succeeded or partial QQ took; what it calls not
\* sent, rejected or only reserved can never reach QQ.
LedgerTruth ==
    \A op \in DOMAIN ops :
        /\ ops[op].state \in {"succeeded", "partial"}
              => \E i \in OfLife(op) : wire[i].fate = "accepted"
        /\ ops[op].state \in {"not_sent", "rejected", "reserved"}
              => \A i \in OfLife(op) : ~Possible(i)

\* The promise the sending ledger keeps is kept here too, however small the
\* history is.
Promise == INSTANCE AtMostOnceSend WITH
    copies <- [op \in Ops |->
        Cardinality({i \in DOMAIN wire : wire[i].op = op /\ wire[i].fate = "accepted"})],
    verdict <- [op \in Ops |->
        IF op \notin DOMAIN ops THEN "none"
        ELSE CASE ops[op].state \in {"reserved", "in_flight"} -> "pending"
               [] ops[op].state \in {"succeeded", "partial"} -> "sent"
               [] ops[op].state = "unknown" -> "unknown"
               [] ops[op].state = "history_evicted" ->
                     IF \E i \in OfLife(op) : wire[i].fate = "accepted" THEN "sent" ELSE "failed"
               [] OTHER -> "failed"]
KeepsPromise == Promise!Spec
=============================================================================
