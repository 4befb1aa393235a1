----------------------------- MODULE SendLedger -----------------------------
(***************************************************************************)
(* Writing messages to QQ: the durable ledger (MessageStore, tables         *)
(* sources, operations, sdk_sequences, sdk_bindings), the two lanes that    *)
(* write through it (SendingCore.send and send_native), the reply delivery  *)
(* with its one change of mode (ReplyDelivery) and the HTTP exchange with   *)
(* its single re-authentication (HTTPTransport.request).                    *)
(*                                                                         *)
(* One route of a group or C2C scene.  Everything between two awaits is one *)
(* action: a send reserves, then waits for a connection slot and a token,   *)
(* then passes the preflight and puts a request on the wire, then waits for *)
(* the answer.  QQ acts on a request whenever it likes, even after the      *)
(* sender gave up or the process died.                                      *)
(***************************************************************************)
EXTENDS Integers, FiniteSets, Sequences

CONSTANTS
    Ops,            \* operation ids
    Sources,        \* messages and events a reply may quote
    NoSource,
    EventSources,   \* the sources quoted by event_id
    Lane,           \* Ops -> {"reply", "session", "native"}
    Src,            \* Ops -> source quoted, fixed candidate, or NoSource
    Want,           \* Ops -> msg_seq the native caller asks for, or 0
    BadReceipts,    \* QQ may confirm with a ref_idx the id check refuses
    OpCap,          \* operation_capacity
    Window, Day,    \* ticks a source lives; ticks history is kept (24 h)
    MaxClock, MaxCalls, MaxFaults, MaxRestarts   \* bounds of the model

ASSUME CallsAssumption ==
    /\ NoSource \notin Sources /\ EventSources \subseteq Sources
    /\ Lane \in [Ops -> {"reply", "session", "native"}]
    /\ Src \in [Ops -> Sources \cup {NoSource}]
    /\ \A op \in Ops : Lane[op] = "reply" => Src[op] \in Sources
    /\ \A op \in Ops : Lane[op] = "session" => Src[op] \notin EventSources
    /\ Want \in [Ops -> Nat] /\ BadReceipts \in BOOLEAN
ASSUME LimitsAssumption ==
    /\ OpCap \in Nat \ {0} /\ Window \in Nat \ {0} /\ Day \in Nat \ {0}
    /\ MaxClock \in Nat /\ MaxCalls \in Nat /\ MaxFaults \in Nat /\ MaxRestarts \in Nat

VARIABLES
    clock,      \* wall clock; it may be set back
    \* durable
    water,      \* clock_guard, the highest time a transaction saw
    sources,    \* table sources
    ops,        \* table operations
    seqs,       \* table sdk_sequences, op -> claimed msg_seq
    bound,      \* table sdk_bindings, op -> created
    \* in memory
    tasks,      \* the sends under way
    held,       \* sources whose event is alive in this generation
    storageFailed,
    \* QQ and history
    wire,       \* every request ever submitted, in order
    born,       \* source -> when it was first observed
    refusedSrc, \* sources QQ rejected as a reply source of the core lane
    calls, faults, restarts

ledger == <<water, sources, ops, seqs, bound>>
budget == <<calls, faults, restarts>>
vars == <<clock, ledger, tasks, held, storageFailed, wire, born, refusedSrc, budget>>

Unfinished == {"reserved", "in_flight", "unknown"}
Terminal   == {"sent", "rejected", "not_sent"}
States     == Unfinished \cup Terminal \cup {"history_evicted"}
Fates      == {"open", "accepted", "refused"}   \* refused: it never will

Restriction(f, S) == [x \in S |-> f[x]]
Extend(f, x, v) == [y \in DOMAIN f \cup {x} |-> IF y = x THEN v ELSE f[y]]
Highest(S) == IF S = {} THEN 0 ELSE CHOOSE m \in S : \A n \in S : n <= m

-----------------------------------------------------------------------------
(* Time and retention.                                                     *)

\* [Mutated] the wall clock is trusted.
NowUnguarded == clock
\* MessageStore.now: a clock set back does not bring time back.
Now == IF water > clock THEN water ELSE clock

In(o, states) == {op \in DOMAIN o : o[op].state \in states}

\* The rows _trim_operation_history picks: the oldest beyond the limit; ticks
\* are coarser than the code's times, so a tie is any choice.
Trims(o, keep) ==
    LET C == In(o, Terminal)
        n == Cardinality(C) - OpCap
    IN  {T \in SUBSET (C \ keep) :
            /\ Cardinality(T) = IF n > 0 THEN n ELSE 0
            /\ \A x \in T, y \in (C \ keep) \ T : o[x].updated <= o[y].updated}

\* [Mutated] a confirmed send is deleted like the others.
TrimmedDeletesSent(o, T) == Restriction(o, DOMAIN o \ T)
Trimmed(o, T) ==
    [op \in DOMAIN o \ {x \in T : o[x].state # "sent"} |->
        IF op \in T THEN [o[op] EXCEPT !.state = "history_evicted"] ELSE o[op]]

\* [Mutated] an uncertain row goes with the finished ones.
AgedUnknownToo == Restriction(ops, {op \in DOMAIN ops :
            ops[op].state \in {"reserved", "in_flight"} \/ ops[op].updated >= Now - Day})
\* _prune: a day after its last change a finished operation is forgotten.
Aged == Restriction(ops, {op \in DOMAIN ops :
            ops[op].state \in Unfinished \/ ops[op].updated >= Now - Day})

\* Expired sources go unless an unfinished operation, a final rejection or
\* the reservation at hand still needs them.
KeptSources(keep) ==
    Restriction(sources, {s \in DOMAIN sources :
        \/ sources[s].expires > Now
        \/ s = keep
        \/ sources[s].blocked = "final" /\ (sources[s].received > Now - Day
                                              \/ s \in held \ EventSources)
        \/ \E op \in DOMAIN ops : Src[op] = s /\ (ops[op].state \in Unfinished
                                                   \/ sources[s].blocked = "final")})

KeptSeqs == Restriction(seqs, DOMAIN seqs \cap DOMAIN bound)
KeptBound(o) == Restriction(bound, {op \in DOMAIN bound :
                    bound[op] >= Now - Day \/ op \in DOMAIN o})

-----------------------------------------------------------------------------
(* Sources and sequences.                                                  *)

Usable(src, s) == s \in DOMAIN src /\ src[s].blocked = "no" /\ src[s].expires > Now

\* MessageStore.reply_mode for a source held by its event.
ReplyMode(src, o, s) ==
    IF s \in DOMAIN src
    THEN IF src[s].blocked = "final" THEN "refused"
         ELSE IF src[s].blocked = "active" \/ src[s].expires <= Now THEN "active"
         ELSE "passive"
    ELSE IF /\ s \notin EventSources \/ \E op \in DOMAIN o : Src[op] = s
            /\ born[s] + Window <= Now
         THEN "active" ELSE "refused"

\* Sequences of source s that the operations still fence.
Fenced(o, s) == {o[op].seq : op \in {x \in DOMAIN o : /\ Src[x] = s /\ o[x].seq # 0
                                                       /\ o[x].state # "not_sent"}}
Claimed(s) == {KeptSeqs[op] : op \in {x \in DOMAIN KeptSeqs : Src[x] = s}}

\* _claim_source_seq
NextSeq(src, o, s) == Highest({src[s].seq} \cup Claimed(s) \cup Fenced(o, s)) + 1

\* claim_sequence: the native lane has no row of its own to consult; an
\* event's row is keyed otherwise and is not found.
NativeSeqs(src, o, op) ==
    LET s == Src[op]
        observed == IF s \in DOMAIN src /\ s \notin EventSources THEN {src[s].seq} ELSE {}
    IN  CASE s = NoSource -> {Want[op]}
          [] s # NoSource /\ op \in DOMAIN KeptSeqs ->
                {n \in {KeptSeqs[op]} : Want[op] \in {0, n}}
          [] OTHER -> IF Want[op] = 0
                      THEN {Highest(Claimed(s) \cup observed \cup Fenced(o, s)) + 1}
                      ELSE {Want[op]} \ (Claimed(s) \cup Fenced(o, s))

\* block_source: a final rejection overrides, a fallback one does not.
Blocked(s, verdict) ==
    [x \in DOMAIN sources |->
        IF x = s /\ (verdict = "final" \/ sources[x].blocked # "final")
        THEN [sources[x] EXCEPT !.blocked = verdict] ELSE sources[x]]

-----------------------------------------------------------------------------
Init ==
    /\ clock = 0 /\ water = 0
    /\ sources = << >> /\ ops = << >> /\ seqs = << >> /\ bound = << >>
    /\ tasks = << >> /\ held = {} /\ storageFailed = FALSE
    /\ wire = << >> /\ born = [s \in Sources |-> -1] /\ refusedSrc = {}
    /\ calls = 0 /\ faults = 0 /\ restarts = 0

\* The prune every writing transaction starts with.
PruneInto(o, src) ==
    /\ ops' = o /\ sources' = src
    /\ seqs' = KeptSeqs /\ bound' = KeptBound(o)
    /\ water' = Now

\* MessageStore.prune, and the calls that only reach it.
Prune ==
    /\ \E T \in Trims(Aged, {}) : PruneInto(Trimmed(Aged, T), KeptSources(NoSource))
    /\ UNCHANGED <<clock, tasks, held, storageFailed, wire, born, refusedSrc, budget>>

\* observe or register_event_source; QQ may deliver an event again, with the
\* send time it had.
Observe(s) ==
    LET first == IF born[s] < 0 THEN Now ELSE born[s]
        src   == KeptSources(NoSource)
    IN  /\ s \in EventSources => first + Window > Now
        /\ born' = [born EXCEPT ![s] = first]
        /\ held' = held \cup {s}
        /\ \E T \in Trims(Aged, {}) :
              PruneInto(Trimmed(Aged, T),
                  IF s \in DOMAIN src THEN src
                  ELSE Extend(src, s, [expires |-> first + Window, received |-> Now,
                                       seq |-> 0, blocked |-> "no"]))
        /\ UNCHANGED <<clock, tasks, storageFailed, wire, refusedSrc, budget>>

-----------------------------------------------------------------------------
(* Reserving.                                                              *)

MayCall(op) ==
    /\ op \notin DOMAIN tasks
    /\ ~storageFailed
    /\ calls < MaxCalls /\ calls' = calls + 1

\* An operation id whose record is still there is never started again, and
\* unfinished operations are never evicted for room.
Room(o, op) == op \notin DOMAIN o /\ Cardinality(In(o, Unfinished)) < OpCap

Start(op, o, mode, n) ==
    /\ ops' = Extend(o, op, [state |-> "reserved", seq |-> n, started |-> Now, updated |-> Now])
    /\ bound' = LET b == KeptBound(o) IN IF op \in DOMAIN b THEN b ELSE Extend(b, op, Now)
    /\ tasks' = Extend(tasks, op, [pc |-> "ready", mode |-> mode, seq |-> n, try |-> 1,
                                   reason |-> Lane[op] = "reply" /\ mode = "active",
                                   again |-> FALSE, req |-> 0])
    /\ water' = Now

\* SendingCore.send up to reserve.  A reply needs the source of an event of
\* this generation; a session send starts active and fixes its candidate.
Reserve(op) ==
    /\ Lane[op] # "native" /\ MayCall(op)
    /\ Src[op] # NoSource => Src[op] \in held
    /\ \E T \in Trims(Aged, {}) :
          LET o == Trimmed(Aged, T)
              s == Src[op]
              src == KeptSources(s)
              mode == IF Lane[op] = "reply" THEN ReplyMode(src, o, s) ELSE "active"
              n == IF mode = "passive" THEN NextSeq(src, o, s) ELSE 0
          IN  /\ Room(o, op) /\ mode # "refused"
              /\ Start(op, o, mode, n)
              /\ sources' = IF mode = "passive" THEN [src EXCEPT ![s].seq = n] ELSE src
              /\ seqs' = KeptSeqs
    /\ UNCHANGED <<clock, held, storageFailed, wire, born, refusedSrc, faults, restarts>>

\* SendingCore.send_native up to reserve_native: no observation is needed.
ReserveNative(op) ==
    /\ Lane[op] = "native" /\ MayCall(op)
    /\ \E T \in Trims(Aged, {}) :
          LET o == Trimmed(Aged, T)
              src == KeptSources(NoSource)
          IN  /\ Room(o, op)
              /\ \E n \in NativeSeqs(src, o, op) :
                    /\ Start(op, o, IF Src[op] = NoSource THEN "active" ELSE "passive", n)
                    /\ seqs' = IF Src[op] = NoSource THEN KeptSeqs ELSE Extend(KeptSeqs, op, n)
              /\ sources' = src
    /\ UNCHANGED <<clock, held, storageFailed, wire, born, refusedSrc, faults, restarts>>

-----------------------------------------------------------------------------
(* The end of a send: MessageStore._finish in a transaction of its own.    *)

EndTask(op) == tasks' = Restriction(tasks, DOMAIN tasks \ {op})

\* [Mutated] an uncertain result gives its sequence back too.
FinishFreesSeq(op, state) ==
    /\ \E T \in IF state = "unknown" THEN {{}} ELSE Trims(Extend(ops, op,
                    [ops[op] EXCEPT !.state = state]), {op}) :
          ops' = Trimmed(Extend(ops, op, [ops[op] EXCEPT !.state = state, !.updated = Now, !.seq = 0]), T)
    /\ seqs' = Restriction(seqs, DOMAIN seqs \ {op})
    /\ water' = Now
    /\ EndTask(op)

Finish(op, state) ==
    LET o == Extend(ops, op, [ops[op] EXCEPT !.state = state, !.updated = Now])
    IN  /\ \E T \in IF state = "unknown" THEN {{}} ELSE Trims(o, {op}) : ops' = Trimmed(o, T)
        /\ seqs' = IF state = "not_sent" THEN Restriction(seqs, DOMAIN seqs \ {op}) ELSE seqs
        /\ water' = Now
        /\ EndTask(op)

Task(op) == IF op \in DOMAIN tasks THEN tasks[op].pc ELSE "idle"
Verdict(op) == wire[tasks[op].req].fate
Quoted(op) == IF tasks[op].mode = "passive" THEN Src[op] ELSE NoSource

answerFrame == <<clock, bound, held, wire, born, calls, restarts>>

-----------------------------------------------------------------------------
(* Preflight: before_send, right before each request.                      *)

\* reply_mode and _source again, after the wait for a slot and a token.
MayGo(op) ==
    CASE Lane[op] = "native" -> TRUE
      [] Lane[op] = "reply" /\ tasks[op].mode = "passive" ->
            ReplyMode(sources, ops, Src[op]) = "passive"
      [] Lane[op] = "reply" /\ tasks[op].mode = "active" ->
            /\ ReplyMode(sources, ops, Src[op]) # "refused"
            /\ ~(tasks[op].pc = "reauth" /\ tasks[op].reason)
      [] OTHER -> tasks[op].mode = "active" \/ Usable(sources, Src[op])

Submit(op) ==
    /\ Task(op) \in {"ready", "reauth"} /\ ~storageFailed
    /\ MayGo(op)
    /\ ops' = [ops EXCEPT ![op].state = "in_flight", ![op].updated = Now]
    /\ wire' = Append(wire, [op |-> op, src |-> Quoted(op), seq |-> tasks[op].seq,
                             fate |-> "open", at |-> Now])
    /\ tasks' = [tasks EXCEPT ![op].pc = "wire", ![op].req = Len(wire) + 1]
    /\ water' = Now
    /\ UNCHANGED <<clock, sources, seqs, bound, held, storageFailed, born, refusedSrc, budget>>

\* switch_active: the sequence is dropped and the operation is reserved again.
ToActive(op) ==
    /\ ops' = [ops EXCEPT ![op].seq = 0, ![op].state = "reserved", ![op].updated = Now]
    /\ tasks' = [tasks EXCEPT ![op].pc = "ready", ![op].mode = "active", ![op].seq = 0,
                              ![op].try = 2, ![op].reason = TRUE, ![op].again = FALSE]
    /\ water' = Now

\* The window closed, or another send met the rejection, while this one waited.
SwitchBeforeWire(op) ==
    /\ Task(op) \in {"ready", "reauth"} /\ ~storageFailed
    /\ Lane[op] = "reply" /\ tasks[op].mode = "passive"
    /\ ReplyMode(sources, ops, Src[op]) = "active"
    /\ ToActive(op)
    /\ UNCHANGED <<clock, sources, seqs, bound, held, storageFailed, wire, born, refusedSrc, budget>>

\* Cancelled, out of time, not connected, refused by the preflight or by the
\* token service: nothing is on the wire now.  After a 401 the deadline and
\* the token service report a rejection, everything else says not_sent.
GiveUp(op) ==
    /\ Task(op) \in {"ready", "reauth"}
    /\ \/ Finish(op, "not_sent")
       \/ Task(op) = "reauth" /\ Finish(op, "rejected")
    /\ UNCHANGED <<answerFrame, sources, storageFailed, refusedSrc, faults>>

-----------------------------------------------------------------------------
(* QQ and its answers.                                                     *)

\* QQ decides on a request, no matter whether anyone still waits for it; a
\* refusal nobody waits for is the same as no decision.
QQActs(i) ==
    /\ wire[i].fate = "open"
    /\ \E f \in {"accepted", "refused"} :
          /\ f = "refused" => \E op \in DOMAIN tasks : Task(op) = "wire" /\ tasks[op].req = i
          /\ wire' = [wire EXCEPT ![i].fate = f]
    /\ UNCHANGED <<clock, ledger, tasks, held, storageFailed, born, refusedSrc, budget>>

Confirmed(op) ==
    /\ Task(op) = "wire" /\ Verdict(op) = "accepted"
    /\ Finish(op, "sent")
    /\ UNCHANGED <<answerFrame, sources, storageFailed, refusedSrc, faults>>

\* [Mutated] the sender waits for an answer without a deadline.
UncertainWhenAnswered(op) ==
    /\ Task(op) = "wire" /\ Verdict(op) # "open"
    /\ Finish(op, "unknown")
    /\ UNCHANGED <<answerFrame, sources, storageFailed, refusedSrc, faults>>
\* [Mutated] a timeout is taken for a failure.
UncertainIsFailure(op) ==
    /\ Task(op) = "wire"
    /\ Finish(op, "not_sent")
    /\ UNCHANGED <<answerFrame, sources, storageFailed, refusedSrc, faults>>

\* Timeout, lost connection, 5xx, 408, an ambiguous code, an answer without a
\* usable id, a cancellation, or a result that could not be stored at first.
Uncertain(op) ==
    /\ Task(op) = "wire"
    /\ Finish(op, "unknown")
    /\ UNCHANGED <<answerFrame, sources, storageFailed, refusedSrc, faults>>

\* send_native: text_id refuses the ref_idx of the confirmation, and its
\* error has the default phase not_sent.
BadReceipt(op) ==
    /\ BadReceipts
    /\ Task(op) = "wire" /\ Lane[op] = "native" /\ Verdict(op) = "accepted"
    /\ Finish(op, "not_sent")
    /\ UNCHANGED <<answerFrame, sources, storageFailed, refusedSrc, faults>>

\* ClientConnectorError: the request never left.
ConnectFailed(op) ==
    /\ Task(op) = "wire" /\ Verdict(op) = "open"
    /\ wire' = [wire EXCEPT ![tasks[op].req].fate = "refused"]
    /\ Finish(op, "not_sent")
    /\ UNCHANGED <<clock, bound, held, born, sources, storageFailed, refusedSrc, budget>>

\* [Mutated] the single refresh is taken for any failure.
ReauthWhileOpen(op) ==
    /\ Task(op) = "wire" /\ ~tasks[op].again
    /\ tasks' = [tasks EXCEPT ![op].pc = "reauth", ![op].again = TRUE]
    /\ UNCHANGED <<clock, ledger, held, storageFailed, wire, born, refusedSrc, budget>>

\* One 401 per request is answered with a new token and the same body.
Unauthorized(op) ==
    /\ Task(op) = "wire" /\ Verdict(op) = "refused" /\ ~tasks[op].again
    /\ tasks' = [tasks EXCEPT ![op].pc = "reauth", ![op].again = TRUE]
    /\ UNCHANGED <<clock, ledger, held, storageFailed, wire, born, refusedSrc, budget>>

Fallback(op) == Lane[op] = "reply" /\ tasks[op].mode = "passive"

\* A definite refusal.  A code that says the source is dead blocks it for
\* everyone; in the reply lane a fallback code changes the mode instead.
Rejected(op) ==
    /\ Task(op) = "wire" /\ Verdict(op) = "refused"
    /\ \/ UNCHANGED <<sources, refusedSrc>>
       \/ \E code \in {"final", "active"} :
             /\ Lane[op] # "native" /\ tasks[op].mode = "passive"
             /\ code = "active" => ~Fallback(op)
             /\ sources' = Blocked(Src[op], code)
             /\ refusedSrc' = refusedSrc \cup {Src[op]}
    /\ Finish(op, "rejected")
    /\ UNCHANGED <<answerFrame, storageFailed, faults>>

\* A fallback code: block_source, then switch_active, one more request.
SwitchActive(op) ==
    /\ Task(op) = "wire" /\ Verdict(op) = "refused" /\ Fallback(op)
    /\ sources' = Blocked(Src[op], "active")
    /\ refusedSrc' = refusedSrc \cup {Src[op]}
    /\ ToActive(op)
    /\ UNCHANGED <<answerFrame, seqs, storageFailed, faults>>

\* [Mutated] the conversion does not mark that it happened.
SwitchPassiveAgain(op) ==
    /\ Task(op) = "wire" /\ Verdict(op) = "refused"
    /\ Lane[op] = "session" /\ Src[op] # NoSource
    /\ LET back == tasks[op].mode = "passive"
           n == IF back \/ ~Usable(sources, Src[op]) THEN 0 ELSE NextSeq(sources, ops, Src[op])
       IN  /\ back \/ Usable(sources, Src[op])
           /\ sources' = IF back THEN sources ELSE [sources EXCEPT ![Src[op]].seq = n]
           /\ ops' = [ops EXCEPT ![op].seq = n, ![op].updated = Now]
           /\ tasks' = [tasks EXCEPT ![op].pc = "ready", ![op].seq = n, ![op].again = FALSE,
                                     ![op].mode = IF back THEN "active" ELSE "passive"]
    /\ water' = Now
    /\ UNCHANGED <<answerFrame, seqs, storageFailed, refusedSrc, faults>>

\* 40034105: an active session send may quote its fixed candidate, once.
SwitchPassive(op) ==
    /\ Task(op) = "wire" /\ Verdict(op) = "refused"
    /\ Lane[op] = "session" /\ tasks[op].mode = "active" /\ tasks[op].try = 1
    /\ Usable(sources, Src[op])
    /\ LET n == NextSeq(sources, ops, Src[op])
       IN  /\ sources' = [sources EXCEPT ![Src[op]].seq = n]
           /\ ops' = [ops EXCEPT ![op].seq = n, ![op].updated = Now]
           /\ tasks' = [tasks EXCEPT ![op].pc = "ready", ![op].mode = "passive", ![op].seq = n,
                                     ![op].try = 2, ![op].again = FALSE]
    /\ water' = Now
    /\ UNCHANGED <<answerFrame, seqs, storageFailed, refusedSrc, faults>>

\* The outcome cannot be stored: the row stays as it is and the core stops.
StorageFault(op) ==
    /\ Task(op) # "idle"
    /\ faults < MaxFaults /\ faults' = faults + 1
    /\ EndTask(op)
    /\ storageFailed' = TRUE
    /\ UNCHANGED <<answerFrame, water, sources, ops, seqs, refusedSrc>>

-----------------------------------------------------------------------------
(* Time, reloads and crashes.                                              *)

SetClock == /\ clock' \in {clock - 1, clock + 1} \cap 0 .. MaxClock
            /\ UNCHANGED <<ledger, tasks, held, storageFailed, wire, born, refusedSrc, budget>>

Restart == restarts < MaxRestarts /\ restarts' = restarts + 1 /\ held' = {}
           /\ storageFailed' = FALSE

\* The sends were cancelled and awaited; sources of the old generation end.
Reload == /\ DOMAIN tasks = {} /\ Restart
          /\ UNCHANGED <<clock, ledger, tasks, wire, born, refusedSrc, calls, faults>>

\* MessageStore.__init__: what was in flight is unknown, what was only
\* reserved was not sent.
Recovered(state) == CASE state = "in_flight" -> "unknown" [] state = "reserved" -> "not_sent"
                      [] OTHER -> state

Crash ==
    LET open == In(ops, {"reserved", "in_flight"})
        o == [op \in DOMAIN ops |->
                 IF op \in open THEN [ops[op] EXCEPT !.state = Recovered(@), !.updated = Now]
                                ELSE ops[op]]
    IN  /\ Restart
        /\ \E T \in IF In(ops, {"reserved"}) = {} THEN {{}} ELSE Trims(o, {}) :
              ops' = Trimmed(o, T)
        /\ seqs' = Restriction(seqs, DOMAIN seqs \ {op \in open : Recovered(ops[op].state) = "not_sent"})
        /\ tasks' = << >>
        /\ water' = Now
        /\ UNCHANGED <<clock, sources, bound, wire, born, refusedSrc, calls, faults>>

Next ==
    \/ Prune \/ \E s \in Sources : Observe(s)
    \/ \E op \in Ops : \/ Reserve(op) \/ ReserveNative(op) \/ Submit(op)
                       \/ SwitchBeforeWire(op) \/ GiveUp(op)
                       \/ Confirmed(op) \/ Uncertain(op) \/ BadReceipt(op)
                       \/ ConnectFailed(op) \/ Unauthorized(op) \/ Rejected(op)
                       \/ SwitchActive(op) \/ SwitchPassive(op) \/ StorageFault(op)
    \/ \E i \in DOMAIN wire : QQActs(i)
    \/ SetClock \/ Reload \/ Crash

Spec == Init /\ [][Next]_vars

\* The request has a deadline of five timeouts, before and on the wire.
FairSpec == /\ Spec
            /\ \A op \in Ops : WF_vars(GiveUp(op)) /\ WF_vars(Uncertain(op))

-----------------------------------------------------------------------------
(* Properties.                                                             *)

SourceRow == [expires : Nat, received : Nat, seq : Nat, blocked : {"no", "active", "final"}]
OpRow == [state : States, seq : Nat, started : Nat, updated : Nat]
TaskRow == [pc : {"ready", "wire", "reauth"}, mode : {"passive", "active"}, seq : Nat,
            try : {1, 2}, reason : BOOLEAN, again : BOOLEAN, req : Nat]
Request == [op : Ops, src : Sources \cup {NoSource}, seq : Nat, fate : Fates, at : Nat]

\* Columns hold what they may hold, a task has an unfinished row, and a task
\* on the wire waits for its own request.
TypeOK ==
    /\ clock \in Nat /\ water \in Nat
    /\ DOMAIN sources \subseteq Sources /\ sources \in [DOMAIN sources -> SourceRow]
    /\ DOMAIN ops \subseteq Ops /\ ops \in [DOMAIN ops -> OpRow]
    /\ DOMAIN seqs \subseteq Ops /\ seqs \in [DOMAIN seqs -> Nat]
    /\ DOMAIN bound \subseteq Ops /\ bound \in [DOMAIN bound -> Nat]
    /\ tasks \in [DOMAIN tasks -> TaskRow]
    /\ \A op \in DOMAIN tasks : op \in DOMAIN ops /\ ops[op].state \in {"reserved", "in_flight"}
    /\ \A op \in DOMAIN tasks : tasks[op].pc = "wire" =>
          tasks[op].req \in DOMAIN wire /\ wire[tasks[op].req].op = op
    /\ held \subseteq Sources /\ storageFailed \in BOOLEAN
    /\ wire \in Seq(Request) /\ refusedSrc \subseteq Sources
    /\ born \in [Sources -> Nat \cup {-1}]

Possible(i) == wire[i].fate \in {"open", "accepted"}   \* QQ has it or may yet
OfLife(op) == {i \in DOMAIN wire : wire[i].op = op /\ wire[i].at >= ops[op].started}

\* An operation is not written again while a request of it may have reached
\* QQ, for a day: not by a retry of the caller, a change of mode, a refreshed
\* token, a trimmed history or a restart.
AtMostOnce ==
    \A i, j \in DOMAIN wire :
        i < j /\ wire[i].op = wire[j].op /\ Possible(i) /\ Possible(j)
            => wire[j].at > wire[i].at + Day

\* The ledger tells the truth about the wire: sent means QQ has it, and what
\* is called not sent, rejected or only reserved can never reach QQ.
LedgerTruth ==
    \A op \in DOMAIN ops :
        /\ ops[op].state \in {"sent", "history_evicted"}
              => \E i \in OfLife(op) : wire[i].fate = "accepted"
        /\ ops[op].state \in {"not_sent", "rejected", "reserved"}
              => \A i \in OfLife(op) : ~Possible(i)

\* A message sent anew in place of one the ledger calls not_sent is no second
\* copy: what is called not_sent did not reach QQ.
RetryIsSafe ==
    \A op \in In(ops, {"not_sent"}) : \A i \in OfLife(op) : ~Possible(i)

\* Two requests that quote one source within a day never carry one msg_seq
\* when both may have reached QQ, whichever lanes they came from; QQ would
\* drop the second as a duplicate.
SeqUnique ==
    \A i, j \in DOMAIN wire :
        /\ i < j /\ Possible(i) /\ Possible(j)
        /\ wire[i].src = wire[j].src /\ wire[i].src # NoSource
        /\ wire[j].at <= wire[i].at + Day
        => wire[i].seq # wire[j].seq

\* The core lane quotes a source only inside its window and never after QQ
\* rejected it for any operation, however long the send waited in between
\* and even when the wall clock was set back.
QuotesLiveSource ==
    Len(wire') > Len(wire) =>
        LET r == wire'[Len(wire')]
        IN  Lane[r.op] # "native" /\ r.src # NoSource =>
               /\ r.src \notin refusedSrc
               /\ \A i \in DOMAIN wire : wire[i].at < born[r.src] + Window
               /\ clock < born[r.src] + Window
NeverRevived == [][QuotesLiveSource]_vars

\* One life of an operation changes between passive and active at most once.
ConvertsOnce ==
    \A op \in DOMAIN ops : LET life == OfLife(op) IN \A i, j, k \in life :
        i < j /\ j < k => wire[i].src = wire[j].src \/ wire[j].src = wire[k].src

\* An uncertain result stays in the ledger, through pruning, full tables and
\* clock steps.
UnknownRemains == In(ops, {"unknown"}) \subseteq In(ops', {"unknown"})
UnknownStays == [][UnknownRemains]_vars

\* No send waits forever.
SendsEnd == \A op \in Ops : Task(op) # "idle" ~> Task(op) = "idle"

\* Seen from the caller: an operation reaches QQ at most once and a failure
\* reported to it is final.
Promise == INSTANCE AtMostOnceSend WITH
    verdict <- [op \in Ops |->
        IF op \notin DOMAIN ops THEN "none"
        ELSE CASE ops[op].state \in {"reserved", "in_flight"} -> "pending"
               [] ops[op].state \in {"sent", "history_evicted"} -> "sent"
               [] ops[op].state = "unknown" -> "unknown"
               [] OTHER -> "failed"],
    copies <- [op \in Ops |->
        Cardinality({i \in DOMAIN wire : wire[i].op = op /\ wire[i].fate = "accepted"})]
KeepsPromise == Promise!Spec
=============================================================================
