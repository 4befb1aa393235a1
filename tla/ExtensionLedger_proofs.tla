----------------------- MODULE ExtensionLedger_proofs -----------------------
(***************************************************************************)
(* The extension ledger tells the truth and writes an id once a day, for   *)
(* every set of operations, every capacity and every retention.            *)
(***************************************************************************)
EXTENDS ExtensionLedger, FiniteSetTheorems, SequenceTheorems, TLAPS

\* While a write is under way nothing else of its id may still reach QQ,
\* except what was sent a day before this life of the id began.
Fenced ==
    \A op \in DOMAIN tasks :
        /\ ops[op].started <= water
        /\ tasks[op].pc = "wire" => ops[op].started <= wire[tasks[op].req].at
        /\ \A i \in DOMAIN wire : wire[i].op = op /\ Possible(i) =>
              \/ tasks[op].pc = "wire" /\ tasks[op].req = i
              \/ wire[i].at + Day <= ops[op].started

\* A request that may have reached QQ is a day old or has a row as young.
Remembered ==
    \A i \in DOMAIN wire :
        /\ wire[i].at <= water
        /\ Possible(i) => \/ wire[i].at + Day <= water
                          \/ /\ wire[i].op \in DOMAIN ops
                             /\ wire[i].at <= ops[wire[i].op].updated

\* A row that lost its result was settled when it did: QQ took the write, or
\* never will.
EvictedSettled ==
    \A op \in DOMAIN ops : ops[op].state = "history_evicted" =>
        \/ \E i \in OfLife(op) : wire[i].fate = "accepted"
        \/ \A i \in OfLife(op) : ~Possible(i)

Inv == TypeOK /\ Fenced /\ Remembered /\ LedgerTruth /\ EvictedSettled /\ WriteOnce

-----------------------------------------------------------------------------
(* Pruning.                                                                *)

\* The rows of p are those of o, less old finished ones; some lost their result.
Prunes(o, p) ==
    /\ DOMAIN p \subseteq DOMAIN o /\ p \in [DOMAIN p -> Row]
    /\ \A op \in DOMAIN p : /\ p[op].started = o[op].started /\ p[op].updated = o[op].updated
                            /\ \/ p[op].state = o[op].state
                               \/ p[op].state = "history_evicted" /\ o[op].state \in History
    /\ \A op \in DOMAIN o : o[op].state \in Unfinished
          => op \in DOMAIN p /\ p[op].state = o[op].state
    /\ \A op \in DOMAIN o \ DOMAIN p : o[op].updated <= Now - Day

\* A transaction's time never lies behind an earlier one's.
LEMMA NowIsTime == TypeOK => Now \in Nat /\ water <= Now
BY DEF TypeOK, Now

\* What prune may leave of the rows (ExtensionStore.prune).
LEMMA Pruning ==
    ASSUME TypeOK, NEW o, o \in [DOMAIN o -> Row], NEW p \in Pruned(o)
    PROVE  Prunes(o, p)
<1> DEFINE A == Aged(o)
           H == In(A, History)
<1>1. PICK T \in SUBSET H :
        p = [op \in DOMAIN A |-> IF op \in T THEN [o[op] EXCEPT !.state = "history_evicted"]
                                             ELSE o[op]]
  BY DEF Pruned
<1>2. DOMAIN A = {op \in DOMAIN o : o[op].state \in Unfinished \/ o[op].updated > Now - Day}
      /\ \A op \in DOMAIN A : A[op] = o[op]
  BY DEF Aged, Restriction
<1> HIDE DEF A
<1>3. \A op \in T : op \in DOMAIN A /\ A[op].state \in History
  BY <1>1 DEF In
<1>4. \A op \in T : o[op].state \notin Unfinished /\ o[op].state \in History
  BY <1>2, <1>3 DEF History, Unfinished
<1>5. \A x \in Row : LET y == [x EXCEPT !.state = "history_evicted"]
                     IN  y \in Row /\ y.started = x.started /\ y.updated = x.updated
                         /\ y.state = "history_evicted"
  BY DEF Row, States
<1>6. DOMAIN p = DOMAIN A /\ DOMAIN A \subseteq DOMAIN o
  BY <1>1, <1>2
<1>7. ASSUME NEW op \in DOMAIN p
      PROVE  /\ p[op] \in Row
             /\ p[op].started = o[op].started /\ p[op].updated = o[op].updated
             /\ \/ p[op].state = o[op].state
                \/ p[op].state = "history_evicted" /\ o[op].state \in History
             /\ op \notin T => p[op] = o[op]
  <2>1. o[op] \in Row
    BY <1>6
  <2>2. CASE op \in T
    <3>1. p[op] = [o[op] EXCEPT !.state = "history_evicted"]
      BY <1>1, <1>6, <2>2
    <3> QED BY <1>4, <1>5, <2>1, <2>2, <3>1
  <2>3. CASE op \notin T
    BY <1>1, <1>6, <2>1, <2>3
  <2> QED BY <2>2, <2>3
<1>8. \A op \in DOMAIN o : o[op].state \in Unfinished
        => op \in DOMAIN p /\ p[op].state = o[op].state
  BY <1>2, <1>4, <1>6, <1>7
<1>9. \A op \in DOMAIN o \ DOMAIN p : o[op].updated <= Now - Day
  <2>1. Now \in Nat /\ Day \in Nat /\ \A op \in DOMAIN o : o[op].updated \in Nat
    BY NowIsTime, LimitsAssumption DEF Row
  <2> QED BY <1>2, <1>6, <2>1
<1>10. p \in [DOMAIN p -> Row]
  BY <1>1, <1>6, <1>7
<1> QED BY <1>6, <1>7, <1>8, <1>9, <1>10 DEF Prunes

-----------------------------------------------------------------------------
(* Steps that end writes, or change nothing but the rows of ended ones.    *)

\* QQ may have decided on a request, and nothing else of the wire changed.
WireKept ==
    /\ wire' \in Seq(Request) /\ DOMAIN wire' = DOMAIN wire
    /\ \A i \in DOMAIN wire :
          /\ wire'[i].op = wire[i].op /\ wire'[i].at = wire[i].at
          /\ Possible(i)' => Possible(i)
          /\ wire[i].fate = "accepted" => wire'[i].fate = "accepted"

\* An untouched wire is kept.
LEMMA WireSame == TypeOK /\ UNCHANGED wire => WireKept
BY DEF WireKept, TypeOK, Possible

\* What a row in `state` since `started` claims of the requests of w.
Claims(w, state, op, started) ==
    /\ state \in {"succeeded", "partial"} =>
          \E i \in DOMAIN w : w[i].op = op /\ w[i].at >= started /\ w[i].fate = "accepted"
    /\ state \in {"not_sent", "rejected", "reserved"} =>
          \A i \in DOMAIN w : w[i].op = op /\ w[i].at >= started
             => w[i].fate \notin {"open", "accepted"}
    /\ state = "history_evicted" =>
          \/ \E i \in DOMAIN w : w[i].op = op /\ w[i].at >= started /\ w[i].fate = "accepted"
          \/ \A i \in DOMAIN w : w[i].op = op /\ w[i].at >= started
                => w[i].fate \notin {"open", "accepted"}

\* The ledger is truthful exactly when each row's claim is borne out.
Truthful == LedgerTruth /\ EvictedSettled

LEMMA TruthIsClaims ==
    /\ Truthful <=> \A op \in DOMAIN ops : Claims(wire, ops[op].state, op, ops[op].started)
    /\ Truthful' <=> \A op \in DOMAIN ops' :
                         Claims(wire', ops'[op].state, op, ops'[op].started)
<1> DEFINE Borne == \A op \in DOMAIN ops : Claims(wire, ops[op].state, op, ops[op].started)
<1>1. Truthful <=> Borne
  <2> SUFFICES ASSUME NEW op \in DOMAIN ops
               PROVE  /\ (/\ ops[op].state \in {"succeeded", "partial"}
                                => \E i \in OfLife(op) : wire[i].fate = "accepted"
                          /\ ops[op].state \in {"not_sent", "rejected", "reserved"}
                                => \A i \in OfLife(op) : ~Possible(i)
                          /\ ops[op].state = "history_evicted"
                                => \/ \E i \in OfLife(op) : wire[i].fate = "accepted"
                                   \/ \A i \in OfLife(op) : ~Possible(i))
                         <=> Claims(wire, ops[op].state, op, ops[op].started)
    BY DEF Truthful, LedgerTruth, EvictedSettled
  <2> QED BY DEF Claims, OfLife, Possible
<1>2. Truthful' <=> Borne'
  <2> HIDE DEF Borne
  <2> QED BY <1>1, PTL
<1> QED BY <1>1, <1>2 DEF Claims

\* A settled claim outlives the result it was made with.
LEMMA ClaimsEvicted ==
    ASSUME NEW w, NEW op, NEW started, NEW state \in History, Claims(w, state, op, started)
    PROVE  Claims(w, "history_evicted", op, started)
BY DEF Claims, History

\* No decision of QQ makes a borne out claim false.
LEMMA ClaimsKept ==
    ASSUME WireKept, NEW state, NEW op, NEW started, Claims(wire, state, op, started)
    PROVE  Claims(wire', state, op, started)
<1>1. \A i \in DOMAIN wire : wire'[i].fate \in {"open", "accepted"}
                                => wire[i].fate \in {"open", "accepted"}
  BY DEF WireKept, Possible
<1> QED BY <1>1 DEF WireKept, Claims

\* The tasks of K go on as they are, the others have ended.
TasksLeft(K) == tasks' \in [K -> TaskRow] /\ \A op \in K : tasks'[op] = tasks[op]

\* Some writes end.
LEMMA TasksRestricted ==
    ASSUME TypeOK, NEW K \in SUBSET DOMAIN tasks, tasks' = Restriction(tasks, K)
    PROVE  TasksLeft(K)
BY DEF TypeOK, Restriction, TasksLeft

\* No write ends.
LEMMA TasksSame == TypeOK /\ UNCHANGED tasks => TasksLeft(DOMAIN tasks)
BY DEF TypeOK, TasksLeft

\* All writes end.
LEMMA TasksGone == tasks' = << >> => TasksLeft({})
<1>1. << >> \in Seq(TaskRow) /\ DOMAIN << >> = {}
  BY EmptySeq
<1> QED BY <1>1 DEF TasksLeft

\* Rows whose write has ended may take any claim that is borne out, and be
\* pruned; the ledger stays as sound as it was.
LEMMA Closing ==
    ASSUME Inv, NEW o, o \in [DOMAIN ops -> Row],
           NEW K \in SUBSET DOMAIN tasks, TasksLeft(K),
           \A op \in DOMAIN ops :
              \/ o[op] = ops[op]
              \/ /\ op \notin K /\ o[op].started = ops[op].started
                 /\ o[op].updated = Now \/ o[op].updated = ops[op].updated
                 /\ Claims(wire', o[op].state, op, ops[op].started),
           WireKept,
           \/ ops' = o
           \/ Prunes(o, ops') /\ water' = Now,
           water' \in Nat, water <= water', clock' \in Nat, storageFailed' \in BOOLEAN
    PROVE  Inv'
<1>0. /\ \A op \in DOMAIN ops : ops[op] \in Row
      /\ \A op \in DOMAIN tasks : tasks[op] \in TaskRow
      /\ Now \in Nat /\ water \in Nat /\ water <= Now /\ Day \in Nat \ {0}
      /\ \A i \in DOMAIN wire : wire[i] \in Request
  BY SMTT(30), NowIsTime, LimitsAssumption DEF Inv, TypeOK
<1>1. /\ DOMAIN ops' \subseteq DOMAIN ops /\ ops' \in [DOMAIN ops' -> Row]
      /\ \A op \in DOMAIN ops' : /\ ops'[op].started = o[op].started
                                 /\ ops'[op].updated = o[op].updated
                                 /\ \/ ops'[op].state = o[op].state
                                    \/ ops'[op].state = "history_evicted" /\ o[op].state \in History
      /\ \A op \in DOMAIN ops : o[op].state \in Unfinished
            => op \in DOMAIN ops' /\ ops'[op].state = o[op].state
      /\ \A op \in DOMAIN ops \ DOMAIN ops' : o[op].updated <= water' - Day
  <2>1. CASE ops' = o
    BY <2>1
  <2>2. CASE Prunes(o, ops') /\ water' = Now
    BY <2>2 DEF Prunes
  <2> QED BY <2>1, <2>2
<1>2. /\ DOMAIN tasks' = K /\ tasks' \in [K -> TaskRow]
      /\ \A op \in K : tasks'[op] = tasks[op]
  BY DEF TasksLeft
<1>3. \A op \in K : /\ op \in DOMAIN ops /\ ops[op].state \in {"reserved", "in_flight"}
                    /\ o[op] = ops[op]
  BY DEF Inv, TypeOK
<1>4. \A op \in K : /\ op \in DOMAIN ops'
                    /\ ops'[op].state = ops[op].state /\ ops'[op].started = ops[op].started
  BY <1>1, <1>3 DEF Unfinished
<1>5. TypeOK'
  <2>1. DOMAIN ops' \subseteq Ops
    BY <1>1 DEF Inv, TypeOK
  <2>2. \A op \in DOMAIN tasks' :
           /\ op \in DOMAIN ops' /\ ops'[op].state \in {"reserved", "in_flight"}
           /\ tasks'[op].pc = "wire" =>
                 tasks'[op].req \in DOMAIN wire' /\ wire'[tasks'[op].req].op = op
    BY <1>2, <1>3, <1>4 DEF Inv, TypeOK, WireKept
  <2> QED BY <1>1, <1>2, <2>1, <2>2 DEF TypeOK, WireKept
<1>6. Fenced'
  <2> SUFFICES ASSUME NEW op \in K
               PROVE  /\ ops'[op].started <= water'
                      /\ tasks'[op].pc = "wire" => ops'[op].started <= wire'[tasks'[op].req].at
                      /\ \A i \in DOMAIN wire' : wire'[i].op = op /\ Possible(i)' =>
                            \/ tasks'[op].pc = "wire" /\ tasks'[op].req = i
                            \/ wire'[i].at + Day <= ops'[op].started
    BY <1>2 DEF Fenced
  <2>1. ops[op].started \in Nat
    BY <1>0, <1>3 DEF Row
  <2>2. ops'[op].started = ops[op].started /\ tasks'[op] = tasks[op]
    BY <1>2, <1>4
  <2>3. ops[op].started <= water
    BY DEF Inv, Fenced
  <2>4. ops'[op].started <= water'
    BY <1>0, <2>1, <2>2, <2>3
  <2>5. tasks[op].pc = "wire" => ops[op].started <= wire'[tasks[op].req].at
    BY DEF Inv, Fenced, TypeOK, WireKept
  <2>6. \A i \in DOMAIN wire' : wire'[i].op = op /\ Possible(i)' =>
           \/ tasks[op].pc = "wire" /\ tasks[op].req = i
           \/ wire'[i].at + Day <= ops[op].started
    BY DEF Inv, Fenced, WireKept
  <2> QED BY <2>2, <2>4, <2>5, <2>6
<1>7. Remembered'
  <2> SUFFICES ASSUME NEW i \in DOMAIN wire
               PROVE  /\ wire[i].at <= water'
                      /\ Possible(i) => \/ wire[i].at + Day <= water'
                                        \/ /\ wire[i].op \in DOMAIN ops'
                                           /\ wire[i].at <= ops'[wire[i].op].updated
    BY DEF Remembered, WireKept
  <2>1. wire[i].at \in Nat /\ wire[i].at <= water
    BY <1>0 DEF Inv, Remembered, Request
  <2>2. CASE wire[i].at + Day <= water
    BY <1>0, <2>1, <2>2
  <2>3. CASE wire[i].op \in DOMAIN ops /\ wire[i].at <= ops[wire[i].op].updated
    <3> DEFINE op == wire[i].op
    <3>1. ops[op].updated \in Nat /\ o[op].updated \in Nat
      BY <1>0, <2>3 DEF Row
    <3>2. wire[i].at <= o[op].updated
      BY <1>0, <2>1, <2>3, <3>1
    <3>3. CASE op \in DOMAIN ops'
      BY <1>0, <1>1, <2>1, <3>2, <3>3
    <3>4. CASE op \notin DOMAIN ops'
      BY <1>0, <1>1, <2>1, <2>3, <3>1, <3>2, <3>4
    <3> QED BY <3>3, <3>4
  <2>4. CASE ~Possible(i)
    BY <1>0, <2>1, <2>4
  <2> QED BY <2>2, <2>3, <2>4 DEF Inv, Remembered
<1>8. Truthful'
  <2> SUFFICES ASSUME NEW op \in DOMAIN ops'
               PROVE  Claims(wire', ops'[op].state, op, ops'[op].started)
    BY TruthIsClaims
  <2>1. op \in DOMAIN ops /\ ops'[op].started = ops[op].started
    BY <1>1
  <2>2. Claims(wire', o[op].state, op, ops[op].started)
    <3>1. CASE o[op] = ops[op]
      <4>1. Claims(wire, ops[op].state, op, ops[op].started)
        BY <2>1, TruthIsClaims DEF Inv, Truthful
      <4> QED BY <3>1, <4>1, ClaimsKept
    <3> QED BY <2>1, <3>1
  <2>3. CASE ops'[op].state = o[op].state
    BY <2>1, <2>2, <2>3
  <2>4. CASE ops'[op].state = "history_evicted" /\ o[op].state \in History
    BY <2>1, <2>2, <2>4, ClaimsEvicted
  <2> QED BY <1>1, <2>3, <2>4
<1>9. WriteOnce'
  BY DEF Inv, WriteOnce, WireKept
<1> QED BY <1>5, <1>6, <1>7, <1>8, <1>9 DEF Inv, Truthful

-----------------------------------------------------------------------------
(* The other steps.                                                        *)

\* The rows are well formed.
LEMMA Whole ==
    ASSUME TypeOK
    PROVE  ops \in [DOMAIN ops -> Row]
BY DEF TypeOK

\* A write starts: of what was sent under its id, all that may still count is
\* a day old.
LEMMA BeginKeeps ==
    ASSUME Inv, NEW op \in Ops, Begin(op)
    PROVE  Inv'
<1> DEFINE row(state) == [state |-> state, started |-> Now, updated |-> Now]
           task == [pc |-> "ready", req |-> 0, again |-> FALSE]
<1>0. /\ \A x \in DOMAIN ops : ops[x] \in Row
      /\ \A x \in DOMAIN tasks : tasks[x] \in TaskRow
      /\ Now \in Nat /\ water \in Nat /\ water <= Now /\ Day \in Nat \ {0}
      /\ \A i \in DOMAIN wire : wire[i] \in Request
  BY SMTT(30), NowIsTime, LimitsAssumption DEF Inv, TypeOK
<1>1. water' = Now /\ UNCHANGED <<clock, storageFailed, wire>>
  BY DEF Begin
<1>2. PICK o \in Pruned(ops) :
        /\ op \notin DOMAIN o
        /\ \/ ops' = Extend(o, op, row("reserved")) /\ tasks' = Extend(tasks, op, task)
           \/ ops' \in Pruned(Extend(o, op, row("not_sent"))) /\ UNCHANGED tasks
  BY DEF Begin, Room
<1>3. Prunes(ops, o)
  BY Whole, Pruning DEF Inv
<1>4. \A s \in {"reserved", "not_sent"} :
        /\ row(s) \in Row /\ row(s).started = Now /\ row(s).updated = Now /\ row(s).state = s
  BY <1>0 DEF Row, States, Unfinished, History
<1>5. task \in TaskRow /\ task.pc = "ready"
  BY DEF TaskRow
<1> HIDE DEF row, task
<1>6. ASSUME NEW s \in {"reserved", "not_sent"}
      PROVE  LET e == Extend(o, op, row(s))
             IN  /\ e \in [DOMAIN e -> Row] /\ DOMAIN e = DOMAIN o \cup {op}
                 /\ e[op] = row(s) /\ \A x \in DOMAIN o : e[x] = o[x]
  BY <1>2, <1>3, <1>4 DEF Extend, Prunes
<1>7. PICK s \in {"reserved", "not_sent"} :
        /\ DOMAIN ops' \subseteq DOMAIN o \cup {op} /\ ops' \in [DOMAIN ops' -> Row]
        /\ \A x \in DOMAIN o : x \in DOMAIN ops' =>
              /\ ops'[x].started = o[x].started /\ ops'[x].updated = o[x].updated
              /\ \/ ops'[x].state = o[x].state
                 \/ ops'[x].state = "history_evicted" /\ o[x].state \in History
        /\ \A x \in DOMAIN o : o[x].state \in Unfinished
              => x \in DOMAIN ops' /\ ops'[x].state = o[x].state
        /\ \A x \in DOMAIN o \ DOMAIN ops' : o[x].updated <= Now - Day
        /\ op \in DOMAIN ops' =>
              /\ ops'[op].started = Now
              /\ ops'[op].state = s \/ ops'[op].state = "history_evicted"
        /\ \/ s = "reserved" /\ op \in DOMAIN ops' /\ ops'[op].state = "reserved"
              /\ tasks' = Extend(tasks, op, task)
           \/ UNCHANGED tasks
  <2>1. CASE ops' = Extend(o, op, row("reserved")) /\ tasks' = Extend(tasks, op, task)
    BY <1>4, <1>6, <2>1
  <2>2. CASE ops' \in Pruned(Extend(o, op, row("not_sent"))) /\ UNCHANGED tasks
    <3> DEFINE e == Extend(o, op, row("not_sent"))
    <3>1. /\ e \in [DOMAIN e -> Row] /\ DOMAIN e = DOMAIN o \cup {op}
          /\ e[op] = row("not_sent") /\ \A x \in DOMAIN o : e[x] = o[x]
      BY <1>6
    <3>2. ops' \in Pruned(e)
      BY <2>2
    <3> HIDE DEF e
    <3>3. Prunes(e, ops')
      BY <3>1, <3>2, Pruning DEF Inv
    <3> QED BY <1>2, <1>4, <2>2, <3>1, <3>3 DEF Prunes
  <2> QED BY <1>2, <2>1, <2>2
<1>8. op \notin DOMAIN tasks
  BY <1>2, <1>3 DEF Inv, TypeOK, Prunes, Unfinished
<1>9. \A x \in DOMAIN ops : x \in DOMAIN ops' /\ x # op =>
        /\ ops'[x].started = ops[x].started /\ ops'[x].updated = ops[x].updated
        /\ \/ ops'[x].state = ops[x].state
           \/ ops'[x].state = "history_evicted" /\ ops[x].state \in History
  <2>1. ASSUME NEW x \in DOMAIN ops, x \in DOMAIN ops', x # op
        PROVE  /\ x \in DOMAIN o
               /\ o[x].started = ops[x].started /\ o[x].updated = ops[x].updated
               /\ \/ o[x].state = ops[x].state
                  \/ o[x].state = "history_evicted" /\ ops[x].state \in History
    BY <1>3, <1>7, <2>1 DEF Prunes
  <2> QED BY <1>7, <2>1 DEF History
<1>10. \A x \in DOMAIN ops : x = op \/ x \notin DOMAIN ops' => ops[x].updated <= Now - Day
  <2>1. \A x \in DOMAIN ops \ DOMAIN o : ops[x].updated <= Now - Day
    BY <1>3 DEF Prunes
  <2>2. \A x \in DOMAIN o : x \in DOMAIN ops /\ o[x].updated = ops[x].updated
    BY <1>3 DEF Prunes
  <2>3. \A x \in DOMAIN o \ DOMAIN ops' : o[x].updated <= Now - Day
    BY <1>7
  <2> QED BY <1>2, <2>1, <2>2, <2>3
<1>11. \A i \in DOMAIN wire : wire[i].op = op /\ Possible(i) => wire[i].at + Day <= Now
  <2> SUFFICES ASSUME NEW i \in DOMAIN wire, wire[i].op = op, Possible(i)
               PROVE  wire[i].at + Day <= Now
    OBVIOUS
  <2>1. wire[i].at \in Nat
    BY <1>0 DEF Request
  <2>2. CASE wire[i].at + Day <= water
    BY <1>0, <2>1, <2>2
  <2>3. CASE op \in DOMAIN ops /\ wire[i].at <= ops[op].updated
    <3>1. ops[op].updated \in Nat /\ ops[op].updated <= Now - Day
      BY <1>0, <1>10, <2>3 DEF Row
    <3> QED BY <1>0, <2>1, <2>3, <3>1
  <2> QED BY <2>2, <2>3 DEF Inv, Remembered
<1>12. /\ DOMAIN tasks' \subseteq DOMAIN tasks \cup {op} /\ tasks' \in [DOMAIN tasks' -> TaskRow]
       /\ \A x \in DOMAIN tasks : x \in DOMAIN tasks' /\ tasks'[x] = tasks[x] /\ x # op
       /\ op \in DOMAIN tasks' => op \in DOMAIN ops' /\ ops'[op].state = "reserved"
                                  /\ tasks'[op].pc = "ready"
  <2>1. CASE /\ op \in DOMAIN ops' /\ ops'[op].state = "reserved"
             /\ tasks' = Extend(tasks, op, task)
    <3>1. DOMAIN tasks' = DOMAIN tasks \cup {op} /\ tasks'[op] = task
          /\ \A x \in DOMAIN tasks : tasks'[x] = tasks[x]
      BY <1>8, <2>1 DEF Extend
    <3>2. tasks' \in [DOMAIN tasks' -> TaskRow]
      BY <1>0, <1>5, <2>1, <3>1 DEF Extend
    <3> QED BY <1>5, <1>8, <2>1, <3>1, <3>2
  <2>2. CASE UNCHANGED tasks
    BY <1>8, <2>2 DEF Inv, TypeOK
  <2> QED BY <1>7, <2>1, <2>2
<1>13. \A x \in DOMAIN tasks : /\ x \in DOMAIN ops' /\ x \in DOMAIN ops
                               /\ ops'[x].state = ops[x].state /\ ops'[x].started = ops[x].started
  <2>1. \A x \in DOMAIN tasks : x \in DOMAIN ops /\ ops[x].state \in Unfinished
    BY DEF Inv, TypeOK, Unfinished
  <2>2. \A x \in DOMAIN tasks : x \in DOMAIN o /\ o[x].state = ops[x].state
                                /\ o[x].started = ops[x].started
    BY <1>3, <2>1 DEF Prunes
  <2> QED BY <1>7, <2>1, <2>2
<1>14. TypeOK'
  <2>1. DOMAIN ops' \subseteq Ops
    BY <1>3, <1>7 DEF Inv, TypeOK, Prunes
  <2>2. \A x \in DOMAIN tasks' :
           /\ x \in DOMAIN ops' /\ ops'[x].state \in {"reserved", "in_flight"}
           /\ tasks'[x].pc = "wire" => tasks'[x].req \in DOMAIN wire' /\ wire'[tasks'[x].req].op = x
    BY <1>1, <1>12, <1>13 DEF Inv, TypeOK
  <2> QED BY <1>0, <1>1, <1>7, <1>12, <2>1, <2>2 DEF Inv, TypeOK
<1>15. Fenced'
  <2> SUFFICES ASSUME NEW x \in DOMAIN tasks'
               PROVE  /\ ops'[x].started <= water'
                      /\ tasks'[x].pc = "wire" => ops'[x].started <= wire'[tasks'[x].req].at
                      /\ \A i \in DOMAIN wire' : wire'[i].op = x /\ Possible(i)' =>
                            \/ tasks'[x].pc = "wire" /\ tasks'[x].req = i
                            \/ wire'[i].at + Day <= ops'[x].started
    BY DEF Fenced
  <2>1. CASE x = op
    <3>1. ops'[op].started = Now /\ tasks'[op].pc = "ready"
      BY <1>7, <1>12, <2>1
    <3>2. \A i \in DOMAIN wire : wire[i].op = op /\ Possible(i)' => wire[i].at + Day <= Now
      BY <1>1, <1>11 DEF Possible
    <3> QED BY <1>0, <1>1, <2>1, <3>1, <3>2
  <2>2. CASE x # op
    <3>1. x \in DOMAIN tasks /\ tasks'[x] = tasks[x] /\ ops'[x].started = ops[x].started
      BY <1>12, <1>13, <2>2
    <3>2. ops[x].started \in Nat /\ ops[x].started <= water
      BY <1>0, <1>13, <3>1 DEF Inv, Fenced, Row
    <3> QED BY <1>0, <1>1, <3>1, <3>2 DEF Inv, Fenced, Possible
  <2> QED BY <2>1, <2>2
<1>16. Remembered'
  <2> SUFFICES ASSUME NEW i \in DOMAIN wire
               PROVE  /\ wire[i].at <= Now
                      /\ Possible(i) => \/ wire[i].at + Day <= Now
                                        \/ /\ wire[i].op \in DOMAIN ops'
                                           /\ wire[i].at <= ops'[wire[i].op].updated
    BY <1>1 DEF Remembered, Possible
  <2>1. wire[i].at \in Nat /\ wire[i].at <= water
    BY <1>0 DEF Inv, Remembered, Request
  <2>2. CASE wire[i].op = op
    BY <1>0, <1>11, <2>1, <2>2
  <2>3. CASE wire[i].op # op /\ wire[i].at + Day <= water
    BY <1>0, <2>1, <2>3
  <2>4. CASE wire[i].op # op /\ wire[i].op \in DOMAIN ops /\ wire[i].at <= ops[wire[i].op].updated
    <3>1. ops[wire[i].op].updated \in Nat
      BY <1>0, <2>4 DEF Row
    <3>2. CASE wire[i].op \in DOMAIN ops'
      BY <1>0, <1>9, <2>1, <2>4, <3>2
    <3>3. CASE wire[i].op \notin DOMAIN ops'
      <4>1. ops[wire[i].op].updated <= Now - Day
        BY <1>10, <2>4, <3>3
      <4> QED BY <1>0, <2>1, <2>4, <3>1, <4>1
    <3> QED BY <3>2, <3>3
  <2>5. CASE ~Possible(i)
    BY <1>0, <2>1, <2>5
  <2> QED BY <2>2, <2>3, <2>4, <2>5 DEF Inv, Remembered
<1>17. Truthful'
  <2> SUFFICES ASSUME NEW x \in DOMAIN ops'
               PROVE  Claims(wire, ops'[x].state, x, ops'[x].started)
    BY <1>1, TruthIsClaims
  <2>1. CASE x = op
    <3>1. ops'[op].started = Now /\ ops'[op].state \in {"reserved", "not_sent", "history_evicted"}
      BY <1>7, <2>1
    <3>2. \A i \in DOMAIN wire : wire[i].op = op /\ wire[i].at >= Now
             => wire[i].fate \notin {"open", "accepted"}
      <4>1. \A i \in DOMAIN wire : wire[i].at \in Nat
        BY <1>0 DEF Request
      <4> QED BY <1>0, <1>11, <4>1 DEF Possible
    <3> QED BY <2>1, <3>1, <3>2 DEF Claims
  <2>2. CASE x # op
    <3>1. x \in DOMAIN ops /\ ops'[x].started = ops[x].started
          /\ \/ ops'[x].state = ops[x].state
             \/ ops'[x].state = "history_evicted" /\ ops[x].state \in History
      BY <1>3, <1>7, <1>9, <2>2 DEF Prunes
    <3>2. Claims(wire, ops[x].state, x, ops[x].started)
      BY <3>1, TruthIsClaims DEF Inv, Truthful
    <3>3. CASE ops'[x].state = ops[x].state
      BY <3>1, <3>2, <3>3
    <3>4. CASE ops'[x].state = "history_evicted" /\ ops[x].state \in History
      BY <3>1, <3>2, <3>4, ClaimsEvicted
    <3> QED BY <3>1, <3>3, <3>4
  <2> QED BY <2>1, <2>2
<1>18. WriteOnce'
  BY <1>1 DEF Inv, WriteOnce, Possible
<1> QED BY <1>14, <1>15, <1>16, <1>17, <1>18 DEF Inv, Truthful

\* QQ's decision on one open request.
LEMMA Decided ==
    ASSUME Inv, NEW k \in DOMAIN wire, wire[k].fate = "open",
           NEW f \in {"accepted", "refused"}, wire' = [wire EXCEPT ![k].fate = f]
    PROVE  WireKept /\ wire'[k].fate = f
<1> DEFINE r == [wire[k] EXCEPT !.fate = f]
<1>1. wire[k] \in Request /\ wire \in Seq(Request)
  BY DEF Inv, TypeOK
<1>2. r \in Request /\ r.op = wire[k].op /\ r.at = wire[k].at /\ r.fate = f
  BY <1>1 DEF Request
<1>3. wire' = [wire EXCEPT ![k] = r]
  OBVIOUS
<1> HIDE DEF r
<1>4. /\ wire' \in Seq(Request) /\ DOMAIN wire' = DOMAIN wire /\ wire'[k] = r
      /\ \A i \in DOMAIN wire : i # k => wire'[i] = wire[i]
  BY <1>1, <1>2, <1>3
<1> QED BY <1>2, <1>4 DEF WireKept, Possible

-----------------------------------------------------------------------------
(* A request leaves, and what becomes of it.                               *)

\* While an operation has a task that waits for no request, nothing of its
\* life may still reach QQ.
LEMMA NothingUnderWay ==
    ASSUME Inv, NEW op \in DOMAIN tasks, NEW i \in DOMAIN wire, wire[i].op = op, Possible(i),
           tasks[op].pc = "wire" => tasks[op].req # i
    PROVE  wire[i].at + Day <= ops[op].started
BY DEF Inv, Fenced

\* attempt fences the id by its row before the request leaves.
LEMMA SubmitKeeps ==
    ASSUME Inv, NEW op \in Ops, Submit(op)
    PROVE  Inv'
<1> DEFINE n == Len(wire) + 1
           new == [op |-> op, fate |-> "open", at |-> Now]
<1>0. /\ \A x \in DOMAIN ops : ops[x] \in Row
      /\ \A x \in DOMAIN tasks : tasks[x] \in TaskRow
      /\ Now \in Nat /\ water \in Nat /\ water <= Now /\ Day \in Nat \ {0}
      /\ \A i \in DOMAIN wire : wire[i] \in Request
  BY NowIsTime, LimitsAssumption DEF Inv, TypeOK
<1>1. op \in DOMAIN tasks /\ tasks[op].pc \in {"ready", "reauth"} /\ op \in DOMAIN ops
  BY DEF Submit, Task, Inv, TypeOK
<1>2. water' = Now /\ UNCHANGED <<clock, storageFailed>>
  BY DEF Submit
<1>3. new \in Request /\ new.op = op /\ new.fate = "open" /\ new.at = Now
  BY <1>0 DEF Request
<1>4. wire \in Seq(Request) /\ wire' = Append(wire, new)
  BY DEF Inv, TypeOK, Submit
<1> HIDE DEF new
<1>5. /\ wire' \in Seq(Request) /\ DOMAIN wire = 1 .. Len(wire) /\ DOMAIN wire' = 1 .. n
      /\ Len(wire) \in Nat /\ wire'[n] = new /\ \A i \in DOMAIN wire : wire'[i] = wire[i]
  BY <1>3, <1>4, AppendProperties
<1>6. DOMAIN wire' = DOMAIN wire \cup {n} /\ n \notin DOMAIN wire /\ n \in Nat
  BY <1>5
<1>7. /\ DOMAIN ops' = DOMAIN ops /\ ops'[op].state = "in_flight" /\ ops'[op].updated = Now
      /\ ops'[op].started = ops[op].started /\ ops' \in [DOMAIN ops' -> Row]
      /\ \A x \in DOMAIN ops : x # op => ops'[x] = ops[x]
  <2>1. ops' = [ops EXCEPT ![op] = [[@ EXCEPT !.state = "in_flight"] EXCEPT !.updated = Now]]
    BY DEF Submit
  <2>2. ops[op] \in Row
    BY <1>0, <1>1
  <2>3. LET r == [[ops[op] EXCEPT !.state = "in_flight"] EXCEPT !.updated = Now]
        IN  /\ r \in Row /\ r.state = "in_flight" /\ r.updated = Now
            /\ r.started = ops[op].started
    BY <1>0, <2>2 DEF Row, States, Unfinished
  <2> QED BY <1>0, <1>1, <2>1, <2>3 DEF Inv, TypeOK
<1>8. /\ DOMAIN tasks' = DOMAIN tasks /\ tasks'[op].pc = "wire" /\ tasks'[op].req = n
      /\ tasks' \in [DOMAIN tasks' -> TaskRow]
      /\ \A x \in DOMAIN tasks : x # op => tasks'[x] = tasks[x]
  <2>1. tasks' = [tasks EXCEPT ![op] = [[@ EXCEPT !.pc = "wire"] EXCEPT !.req = n]]
    BY DEF Submit
  <2>2. tasks[op] \in TaskRow
    BY <1>0, <1>1
  <2>3. LET r == [[tasks[op] EXCEPT !.pc = "wire"] EXCEPT !.req = n]
        IN  r \in TaskRow /\ r.pc = "wire" /\ r.req = n
    BY <1>6, <2>2 DEF TaskRow
  <2> QED BY <1>0, <1>1, <2>1, <2>3 DEF Inv, TypeOK
<1> HIDE DEF n
<1>9. \A i \in DOMAIN wire : wire[i].op = op /\ Possible(i) => wire[i].at + Day <= ops[op].started
  BY <1>1, NothingUnderWay
<1>10. ops[op].started \in Nat /\ ops[op].started <= Now
  BY <1>0, <1>1 DEF Inv, Fenced, Row
<1>11. TypeOK'
  <2>1. ASSUME NEW x \in DOMAIN tasks'
        PROVE  /\ x \in DOMAIN ops' /\ ops'[x].state \in {"reserved", "in_flight"}
               /\ tasks'[x].pc = "wire" => tasks'[x].req \in DOMAIN wire' /\ wire'[tasks'[x].req].op = x
    <3>1. CASE x = op
      BY <1>1, <1>3, <1>5, <1>6, <1>7, <1>8, <3>1
    <3>2. CASE x # op
      <4>1. /\ x \in DOMAIN tasks /\ x \in DOMAIN ops
            /\ ops[x].state \in {"reserved", "in_flight"}
            /\ tasks[x].pc = "wire" => tasks[x].req \in DOMAIN wire /\ wire[tasks[x].req].op = x
        BY <1>8 DEF Inv, TypeOK
      <4> QED BY <1>5, <1>6, <1>7, <1>8, <3>2, <4>1
    <3> QED BY <3>1, <3>2
  <2>2. DOMAIN ops' \subseteq Ops /\ water' \in Nat /\ clock' \in Nat /\ storageFailed' \in BOOLEAN
    BY <1>0, <1>2, <1>7 DEF Inv, TypeOK
  <2> QED BY <1>5, <1>7, <1>8, <2>1, <2>2 DEF TypeOK
<1>12. Fenced'
  <2> SUFFICES ASSUME NEW x \in DOMAIN tasks
               PROVE  /\ ops'[x].started <= water'
                      /\ tasks'[x].pc = "wire" => ops'[x].started <= wire'[tasks'[x].req].at
                      /\ \A i \in DOMAIN wire' : wire'[i].op = x /\ Possible(i)' =>
                            \/ tasks'[x].pc = "wire" /\ tasks'[x].req = i
                            \/ wire'[i].at + Day <= ops'[x].started
    BY <1>8 DEF Fenced
  <2>1. CASE x = op
    BY <1>2, <1>3, <1>5, <1>6, <1>7, <1>8, <1>9, <1>10, <2>1 DEF Possible
  <2>2. CASE x # op
    <3>1. tasks'[x] = tasks[x] /\ ops'[x] = ops[x] /\ x \in DOMAIN ops
      BY <1>7, <1>8, <2>2 DEF Inv, TypeOK
    <3>2. ops[x].started \in Nat /\ ops[x].started <= water
      BY <1>0, <3>1 DEF Inv, Fenced, Row
    <3>3. tasks[x].pc = "wire" => tasks[x].req \in DOMAIN wire
                                  /\ ops[x].started <= wire[tasks[x].req].at
      BY DEF Inv, Fenced, TypeOK
    <3>4. \A i \in DOMAIN wire : wire[i].op = x /\ Possible(i) =>
             \/ tasks[x].pc = "wire" /\ tasks[x].req = i
             \/ wire[i].at + Day <= ops[x].started
      BY DEF Inv, Fenced
    <3>5. \A i \in DOMAIN wire' : wire'[i].op = x /\ Possible(i)' => i \in DOMAIN wire /\ Possible(i)
      BY <1>3, <1>5, <1>6, <2>2 DEF Possible
    <3> QED BY <1>0, <1>2, <1>5, <3>1, <3>2, <3>3, <3>4, <3>5
  <2> QED BY <2>1, <2>2
<1>13. Remembered'
  <2> SUFFICES ASSUME NEW i \in DOMAIN wire'
               PROVE  /\ wire'[i].at <= Now
                      /\ Possible(i)' => \/ wire'[i].at + Day <= Now
                                         \/ /\ wire'[i].op \in DOMAIN ops'
                                            /\ wire'[i].at <= ops'[wire'[i].op].updated
    BY <1>2 DEF Remembered
  <2>1. CASE i = n
    BY <1>0, <1>1, <1>3, <1>5, <1>7, <2>1
  <2>2. CASE i \in DOMAIN wire
    <3>1. wire[i].at \in Nat /\ wire[i].at <= water /\ wire'[i] = wire[i]
      BY <1>0, <1>5, <2>2 DEF Inv, Remembered, Request
    <3>2. CASE wire[i].op \in DOMAIN ops /\ wire[i].at <= ops[wire[i].op].updated
      BY <1>0, <1>7, <3>1, <3>2
    <3>3. CASE wire[i].at + Day <= water
      BY <1>0, <3>1, <3>3
    <3>4. CASE ~Possible(i)
      BY <1>0, <3>1, <3>4 DEF Possible
    <3> QED BY <2>2, <3>2, <3>3, <3>4 DEF Inv, Remembered
  <2> QED BY <1>6, <2>1, <2>2
<1>14. Truthful'
  <2> SUFFICES ASSUME NEW x \in DOMAIN ops
               PROVE  Claims(wire', ops'[x].state, x, ops'[x].started)
    BY <1>7, TruthIsClaims
  <2>1. CASE x = op
    BY <1>7, <2>1 DEF Claims
  <2>2. CASE x # op
    <3>1. Claims(wire, ops[x].state, x, ops[x].started) /\ ops'[x] = ops[x]
      BY <1>7, <2>2, TruthIsClaims DEF Inv, Truthful
    <3>2. \A i \in DOMAIN wire' : wire'[i].op = x => i \in DOMAIN wire
      BY <1>3, <1>5, <1>6, <2>2
    <3> QED BY <1>5, <1>6, <3>1, <3>2 DEF Claims
  <2> QED BY <2>1, <2>2
<1>15. WriteOnce'
  <2> SUFFICES ASSUME NEW i \in DOMAIN wire', NEW j \in DOMAIN wire', i < j,
                      wire'[i].op = wire'[j].op, Possible(i)', Possible(j)'
               PROVE  wire'[j].at >= wire'[i].at + Day
    BY DEF WriteOnce
  <2>1. i \in DOMAIN wire /\ wire'[i] = wire[i] /\ Possible(i)
    BY <1>5 DEF n, Possible
  <2>2. CASE j \in DOMAIN wire
    BY <1>5, <2>1, <2>2 DEF Inv, WriteOnce, Possible
  <2>3. CASE j = n
    <3>1. wire[i].at + Day <= ops[op].started
      BY <1>3, <1>5, <1>9, <2>1, <2>3
    <3>2. wire[i].at \in Nat
      BY <1>0, <2>1 DEF Request
    <3> QED BY <1>0, <1>3, <1>5, <1>10, <2>1, <2>3, <3>1, <3>2
  <2> QED BY <1>6, <2>2, <2>3
<1> QED BY <1>11, <1>12, <1>13, <1>14, <1>15 DEF Inv, Truthful

\* The end of a write under `state`, when the requests bear that out.
LEMMA FinishKeeps ==
    ASSUME Inv, NEW op \in DOMAIN tasks, NEW state \in States, Finish(op, state), WireKept,
           Claims(wire', state, op, ops[op].started)
    PROVE  Inv'
<1> DEFINE o == Finished(ops, op, state)
           K == DOMAIN tasks \ {op}
<1>1. op \in DOMAIN ops /\ ops[op] \in Row /\ Now \in Nat /\ water \in Nat /\ water <= Now
  BY NowIsTime DEF Inv, TypeOK
<1>2. PICK r \in Row : /\ r.state = state /\ r.updated = Now /\ r.started = ops[op].started
                       /\ o = Extend(ops, op, r)
  <2> DEFINE r == [[ops[op] EXCEPT !.state = state] EXCEPT !.updated = Now]
  <2>1. /\ r \in Row /\ r.state = state /\ r.updated = Now /\ r.started = ops[op].started
    BY <1>1 DEF Row
  <2>2. o = Extend(ops, op, r)
    BY DEF Finished
  <2> HIDE DEF o, r
  <2> QED BY <2>1, <2>2
<1>3. /\ o \in [DOMAIN o -> Row] /\ DOMAIN o = DOMAIN ops
      /\ o[op].state = state /\ o[op].started = ops[op].started /\ o[op].updated = Now
      /\ \A x \in DOMAIN ops : x # op => o[x] = ops[x]
  <2>1. \A x \in DOMAIN ops : ops[x] \in Row
    BY DEF Inv, TypeOK
  <2> HIDE DEF o
  <2>2. DOMAIN o = DOMAIN ops /\ o[op] = r /\ \A x \in DOMAIN ops : x # op => o[x] = ops[x]
    BY <1>1, <1>2 DEF Extend
  <2>3. o \in [DOMAIN o -> Row]
    BY <1>1, <1>2, <2>1 DEF Extend
  <2> QED BY <1>2, <2>2, <2>3
<1>4. ops' \in Pruned(o) /\ water' = Now /\ UNCHANGED <<clock, storageFailed>>
  BY DEF Finish
<1>5. TasksLeft(K)
  BY TasksRestricted DEF Finish, EndTask, Inv
<1> HIDE DEF o
<1>6. Prunes(o, ops')
  BY <1>3, <1>4, Pruning DEF Inv
<1>7. \A x \in DOMAIN ops :
         \/ o[x] = ops[x]
         \/ /\ x \notin K /\ o[x].started = ops[x].started
            /\ o[x].updated = Now \/ o[x].updated = ops[x].updated
            /\ Claims(wire', o[x].state, x, ops[x].started)
  BY <1>3
<1>8. clock' \in Nat /\ storageFailed' \in BOOLEAN
  BY <1>4 DEF Inv, TypeOK
<1> QED BY <1>1, <1>3, <1>4, <1>5, <1>6, <1>7, <1>8, Closing

-----------------------------------------------------------------------------
(* Every step.                                                             *)

\* The answer 401 leaves the id free for the one repetition.
LEMMA UnauthorizedKeeps ==
    ASSUME Inv, NEW op \in Ops, Unauthorized(op)
    PROVE  Inv'
<1>1. op \in DOMAIN tasks /\ tasks[op] \in TaskRow /\ Verdict(op) = "refused" /\ tasks[op].pc = "wire"
  BY DEF Unauthorized, Task, Inv, TypeOK
<1>2. UNCHANGED <<clock, water, ops, storageFailed, wire>>
  BY DEF Unauthorized
<1>3. /\ DOMAIN tasks' = DOMAIN tasks /\ tasks'[op].pc = "reauth"
      /\ tasks' \in [DOMAIN tasks' -> TaskRow]
      /\ \A x \in DOMAIN tasks : x # op => tasks'[x] = tasks[x]
  <2> DEFINE r == [[tasks[op] EXCEPT !.pc = "reauth"] EXCEPT !.again = TRUE]
  <2>1. r \in TaskRow /\ r.pc = "reauth"
    BY <1>1 DEF TaskRow
  <2>2. tasks' = [tasks EXCEPT ![op] = r]
    BY DEF Unauthorized
  <2>3. tasks \in [DOMAIN tasks -> TaskRow]
    BY DEF Inv, TypeOK
  <2> HIDE DEF r
  <2> QED BY <1>1, <2>1, <2>2, <2>3
<1>4. TypeOK'
  <2>1. \A x \in DOMAIN tasks' : /\ x \in DOMAIN tasks
                                 /\ tasks'[x].pc = "wire" => tasks'[x] = tasks[x]
    BY <1>3
  <2> QED BY <1>2, <1>3, <2>1 DEF Inv, TypeOK
<1>5. ~Possible(tasks[op].req)
  BY <1>1 DEF Verdict, Possible
<1>6. Fenced'
  <2> SUFFICES ASSUME NEW x \in DOMAIN tasks
               PROVE  /\ ops[x].started <= water
                      /\ tasks'[x].pc = "wire" => ops[x].started <= wire[tasks'[x].req].at
                      /\ \A i \in DOMAIN wire : wire[i].op = x /\ Possible(i) =>
                            \/ tasks'[x].pc = "wire" /\ tasks'[x].req = i
                            \/ wire[i].at + Day <= ops[x].started
    BY <1>2, <1>3 DEF Fenced, Possible
  <2>1. CASE x = op
    BY <1>3, <1>5, <2>1 DEF Inv, Fenced
  <2>2. CASE x # op
    BY <1>3, <2>2 DEF Inv, Fenced
  <2> QED BY <2>1, <2>2
<1>7. Remembered' /\ LedgerTruth' /\ EvictedSettled' /\ WriteOnce'
  BY <1>2 DEF Inv, Remembered, LedgerTruth, EvictedSettled, WriteOnce, Possible, OfLife
<1> QED BY <1>4, <1>6, <1>7 DEF Inv

\* What the end of an operation may say of it, by what is known of its request.
LEMMA FailsKeeps ==
    ASSUME Inv, NEW op \in Ops, Fails(op) \/ Confirmed(op) \/ Partial(op)
    PROVE  Inv'
<1>0. /\ op \in DOMAIN tasks /\ op \in DOMAIN ops /\ ops[op] \in Row
      /\ ops[op].started \in Nat /\ Day \in Nat \ {0}
      /\ \A i \in DOMAIN wire : wire[i] \in Request /\ wire[i].at \in Nat
      /\ tasks[op].pc = "wire" =>
            /\ tasks[op].req \in DOMAIN wire /\ wire[tasks[op].req].op = op
            /\ ops[op].started <= wire[tasks[op].req].at
  <2>1. op \in DOMAIN tasks
    BY DEF Fails, Confirmed, Partial, GiveUp, Uncertain, Rejected, ConnectFailed, StorageFault, Task
  <2>2. op \in DOMAIN ops /\ ops[op] \in Row
    BY <2>1 DEF Inv, TypeOK
  <2>3. \A i \in DOMAIN wire : wire[i] \in Request
    BY DEF Inv, TypeOK
  <2> QED BY <2>1, <2>2, <2>3, LimitsAssumption DEF Inv, TypeOK, Fenced, Row, Request
<1>1. \A i \in DOMAIN wire : /\ wire[i].op = op /\ wire[i].at >= ops[op].started
                             /\ Possible(i)
                             => tasks[op].pc = "wire" /\ tasks[op].req = i
  <2> SUFFICES ASSUME NEW i \in DOMAIN wire, wire[i].op = op, wire[i].at >= ops[op].started,
                      Possible(i), ~(tasks[op].pc = "wire" /\ tasks[op].req = i)
               PROVE  FALSE
    OBVIOUS
  <2>1. wire[i].at + Day <= ops[op].started
    BY <1>0, NothingUnderWay
  <2> QED BY <1>0, <2>1
<1>2. ASSUME tasks[op].pc # "wire" \/ Verdict(op) = "refused"
      PROVE  \A i \in DOMAIN wire : wire[i].op = op /\ wire[i].at >= ops[op].started
                                       => wire[i].fate \notin {"open", "accepted"}
  BY <1>1, <1>2 DEF Verdict, Possible
<1>3. UNCHANGED wire => WireKept
  BY WireSame DEF Inv
<1>4. CASE GiveUp(op)
  <2>1. tasks[op].pc # "wire" /\ UNCHANGED wire
    BY <1>0, <1>4 DEF GiveUp, Task
  <2>2. PICK state \in {"not_sent", "rejected", "unknown"} : Finish(op, state)
    BY <1>4 DEF GiveUp
  <2>3. Claims(wire', state, op, ops[op].started)
    BY <1>2, <2>1 DEF Claims
  <2>4. state \in States
    BY DEF States, Unfinished, History
  <2> QED BY <1>0, <1>3, <2>1, <2>2, <2>3, <2>4, FinishKeeps
<1>5. CASE Uncertain(op)
  <2>1. Finish(op, "unknown") /\ UNCHANGED wire
    BY <1>5 DEF Uncertain
  <2>2. Claims(wire', "unknown", op, ops[op].started) /\ "unknown" \in States
    BY DEF Claims, States, Unfinished
  <2> QED BY <1>0, <1>3, <2>1, <2>2, FinishKeeps
<1>6. CASE Rejected(op)
  <2>1. Finish(op, "rejected") /\ UNCHANGED wire /\ Verdict(op) = "refused"
    BY <1>6 DEF Rejected
  <2>2. Claims(wire', "rejected", op, ops[op].started) /\ "rejected" \in States
    BY <1>2, <2>1 DEF Claims, States, History
  <2> QED BY <1>0, <1>3, <2>1, <2>2, FinishKeeps
<1>7. CASE Confirmed(op) \/ Partial(op)
  <2>1. PICK state \in {"succeeded", "partial"} : Finish(op, state)
    BY <1>7 DEF Confirmed, Partial
  <2>2. UNCHANGED wire /\ Verdict(op) = "accepted" /\ tasks[op].pc = "wire"
    BY <1>0, <1>7 DEF Confirmed, Partial, Task
  <2>3. Claims(wire', state, op, ops[op].started)
    BY <1>0, <2>2 DEF Claims, Verdict
  <2>4. state \in States
    BY DEF States, History
  <2> QED BY <1>0, <1>3, <2>1, <2>2, <2>3, <2>4, FinishKeeps
<1>8. CASE ConnectFailed(op)
  <2> DEFINE k == tasks[op].req
  <2>1. Finish(op, "not_sent") /\ tasks[op].pc = "wire" /\ k \in DOMAIN wire
    BY <1>0, <1>8 DEF ConnectFailed, Task
  <2>2. wire' = [wire EXCEPT ![k].fate = "refused"]
    BY <1>8 DEF ConnectFailed
  <2>3. wire[k].fate = "open"
    BY <1>8 DEF ConnectFailed, Verdict
  <2>4. WireKept /\ wire'[k].fate = "refused"
    BY <2>1, <2>2, <2>3, Decided
  <2>5. Claims(wire', "not_sent", op, ops[op].started) /\ "not_sent" \in States
    BY <1>1, <2>4 DEF Claims, WireKept, Possible, States, History
  <2> QED BY <1>0, <2>1, <2>4, <2>5, FinishKeeps
<1>9. CASE StorageFault(op)
  <2>1. UNCHANGED <<clock, water, ops, wire>> /\ storageFailed' = TRUE
    BY <1>9 DEF StorageFault
  <2>2. TasksLeft(DOMAIN tasks \ {op})
    BY <1>9, TasksRestricted DEF StorageFault, EndTask, Inv
  <2>3. water' \in Nat /\ clock' \in Nat /\ water <= water' /\ ops \in [DOMAIN ops -> Row]
    BY <2>1 DEF Inv, TypeOK
  <2>4. storageFailed' \in BOOLEAN /\ ops' = ops /\ WireKept
    BY <1>3, <2>1
  <2> QED BY <2>2, <2>3, <2>4, Closing
<1> QED BY <1>4, <1>5, <1>6, <1>7, <1>8, <1>9 DEF Fails

\* A restart ends every write: what it leaves of the rows.
LEMMA RestartKeeps ==
    ASSUME Inv, Reload \/ Crash
    PROVE  Inv'
<1>0. Now \in Nat /\ water \in Nat /\ water <= Now /\ clock \in Nat /\ storageFailed \in BOOLEAN
  BY NowIsTime DEF Inv, TypeOK
<1>1. tasks' = << >> /\ UNCHANGED <<clock, wire>> /\ water' = Now
  BY DEF Reload, Crash, Restart
<1>2. TasksLeft({}) /\ WireKept
  BY <1>1, TasksGone, WireSame DEF Inv
<1>3. \A op \in DOMAIN ops : ops[op] \in Row
  BY DEF Inv, TypeOK
<1>4. CASE Reload
  <2> DEFINE row(op, state) == [[ops[op] EXCEPT !.state = state] EXCEPT !.updated = Now]
             o == [op \in DOMAIN ops |->
                      CASE Task(op) = "wire" -> row(op, "unknown")
                        [] Task(op) \in {"ready", "reauth"} -> row(op, "not_sent")
                        [] OTHER -> ops[op]]
  <2>1. ops' \in IF tasks = << >> THEN {ops} ELSE Pruned(o)
    BY <1>4 DEF Reload
  <2>2. \A op \in DOMAIN ops : \A state \in {"unknown", "not_sent"} :
           /\ row(op, state) \in Row /\ row(op, state).state = state
           /\ row(op, state).started = ops[op].started /\ row(op, state).updated = Now
    BY <1>0, <1>3 DEF Row, States, Unfinished, History
  <2> HIDE DEF row
  <2>3. \A op \in DOMAIN ops :
           \/ Task(op) = "wire" /\ o[op] = row(op, "unknown")
           \/ Task(op) \in {"ready", "reauth"} /\ o[op] = row(op, "not_sent")
           \/ o[op] = ops[op]
    OBVIOUS
  <2>4. DOMAIN o = DOMAIN ops /\ o = [op \in DOMAIN ops |-> o[op]]
    OBVIOUS
  <2> HIDE DEF o
  <2>5. o \in [DOMAIN ops -> Row]
    <3>1. \A op \in DOMAIN ops : o[op] \in Row
      BY <1>3, <2>2, <2>3
    <3> QED BY <2>4, <3>1
  <2>6. ASSUME NEW op \in DOMAIN ops, Task(op) \in {"ready", "reauth"}
        PROVE  Claims(wire', "not_sent", op, ops[op].started)
    <3>1. op \in DOMAIN tasks /\ tasks[op].pc # "wire"
      BY <2>6 DEF Task
    <3>2. ops[op].started \in Nat /\ Day \in Nat \ {0} /\ \A i \in DOMAIN wire : wire[i].at \in Nat
      <4>1. \A i \in DOMAIN wire : wire[i] \in Request
        BY DEF Inv, TypeOK
      <4> QED BY <1>3, <4>1, LimitsAssumption DEF Row, Request
    <3>3. \A i \in DOMAIN wire : wire[i].op = op /\ Possible(i) => wire[i].at + Day <= ops[op].started
      BY <3>1, NothingUnderWay
    <3> QED BY <1>1, <3>2, <3>3 DEF Claims, Possible
  <2>7. \A op \in DOMAIN ops :
           \/ o[op] = ops[op]
           \/ /\ op \notin {} /\ o[op].started = ops[op].started
              /\ o[op].updated = Now \/ o[op].updated = ops[op].updated
              /\ Claims(wire', o[op].state, op, ops[op].started)
    <3>1. \A op \in DOMAIN ops : Claims(wire', "unknown", op, ops[op].started)
      BY DEF Claims
    <3> QED BY <2>2, <2>3, <2>6, <3>1
  <2>8. storageFailed' \in BOOLEAN /\ clock' \in Nat /\ water' \in Nat /\ water <= water'
    BY <1>0, <1>1, <1>4 DEF Reload
  <2>9. CASE tasks = << >>
    <3>1. ops' = ops /\ ops \in [DOMAIN ops -> Row]
      BY <2>1, <2>9 DEF Inv, TypeOK
    <3> QED BY <1>2, <2>8, <3>1, Closing
  <2>10. CASE tasks # << >>
    <3>1. Prunes(o, ops')
      BY <2>1, <2>4, <2>5, <2>10, Pruning DEF Inv
    <3> QED BY <1>1, <1>2, <2>5, <2>7, <2>8, <3>1, Closing
  <2> QED BY <2>9, <2>10
<1>5. CASE Crash
  <2> DEFINE row(op) == [ops[op] EXCEPT !.state = Recovered(ops[op].state)]
  <2>1. ops' = [op \in DOMAIN ops |-> row(op)]
    BY <1>5 DEF Crash
  <2>2. \A op \in DOMAIN ops :
           /\ row(op) \in Row /\ row(op).state = Recovered(ops[op].state)
           /\ row(op).started = ops[op].started /\ row(op).updated = ops[op].updated
    <3>1. \A op \in DOMAIN ops : Recovered(ops[op].state) \in States
      BY <1>3 DEF Recovered, Row, States, Unfinished, History
    <3> QED BY <1>3, <3>1 DEF Row
  <2> HIDE DEF row
  <2>3. ops' \in [DOMAIN ops -> Row]
    BY <2>1, <2>2
  <2>4. \A op \in DOMAIN ops : Claims(wire', Recovered(ops[op].state), op, ops[op].started)
    <3> SUFFICES ASSUME NEW op \in DOMAIN ops
                 PROVE  Claims(wire', Recovered(ops[op].state), op, ops[op].started)
      OBVIOUS
    <3>1. Claims(wire, ops[op].state, op, ops[op].started)
      BY TruthIsClaims DEF Inv, Truthful
    <3>2. Claims(wire', ops[op].state, op, ops[op].started)
      BY <1>2, <3>1, ClaimsKept
    <3> QED BY <3>2 DEF Claims, Recovered
  <2>5. \A op \in DOMAIN ops :
           \/ ops'[op] = ops[op]
           \/ /\ op \notin {} /\ ops'[op].started = ops[op].started
              /\ ops'[op].updated = Now \/ ops'[op].updated = ops[op].updated
              /\ Claims(wire', ops'[op].state, op, ops[op].started)
    BY <2>1, <2>2, <2>4
  <2>6. storageFailed' \in BOOLEAN /\ clock' \in Nat /\ water' \in Nat /\ water <= water'
    BY <1>0, <1>1, <1>5 DEF Crash
  <2> QED BY <1>2, <2>3, <2>5, <2>6, Closing
<1> QED BY <1>4, <1>5

\* Every step of the ledger, its callers, QQ and the clock keeps the invariant.
LEMMA NextKeeps ==
    ASSUME Inv, [Next]_vars
    PROVE  Inv'
<1>0. /\ Now \in Nat /\ water \in Nat /\ water <= Now /\ clock \in Nat
      /\ storageFailed \in BOOLEAN /\ ops \in [DOMAIN ops -> Row]
  BY NowIsTime DEF Inv, TypeOK
<1>1. UNCHANGED tasks => TasksLeft(DOMAIN tasks)
  BY TasksSame DEF Inv
<1>2. UNCHANGED wire => WireKept
  BY WireSame DEF Inv
<1>3. CASE Prune
  <2>1. /\ ops' \in Pruned(ops) /\ water' = Now
        /\ UNCHANGED <<clock, tasks, storageFailed, wire>>
    BY <1>3 DEF Prune
  <2>2. Prunes(ops, ops')
    BY <1>0, <2>1, Pruning DEF Inv
  <2>3. water' \in Nat /\ water <= water' /\ clock' \in Nat /\ storageFailed' \in BOOLEAN
    BY <1>0, <2>1
  <2> QED BY <1>0, <1>1, <1>2, <2>1, <2>2, <2>3, Closing
<1>4. CASE SetClock
  <2>1. UNCHANGED <<water, ops, tasks, storageFailed, wire>> /\ clock' \in Nat
    BY <1>4, LimitsAssumption DEF SetClock
  <2>2. water' \in Nat /\ water <= water' /\ ops' = ops /\ storageFailed' \in BOOLEAN
    BY <1>0, <2>1
  <2> QED BY <1>0, <1>1, <1>2, <2>1, <2>2, Closing
<1>5. CASE \E i \in DOMAIN wire : QQActs(i)
  <2>1. PICK i \in DOMAIN wire, f \in {"accepted", "refused"} :
           wire[i].fate = "open" /\ wire' = [wire EXCEPT ![i].fate = f]
    BY <1>5 DEF QQActs
  <2>2. UNCHANGED <<clock, water, ops, tasks, storageFailed>>
    BY <1>5 DEF QQActs
  <2>3. WireKept
    BY <2>1, Decided
  <2>4. water' \in Nat /\ water <= water' /\ clock' \in Nat /\ storageFailed' \in BOOLEAN
        /\ ops' = ops
    BY <1>0, <2>2
  <2> QED BY <1>0, <1>1, <2>2, <2>3, <2>4, Closing
<1>6. CASE UNCHANGED vars
  <2>1. /\ UNCHANGED <<clock, water, ops, tasks, storageFailed, wire>>
    BY <1>6 DEF vars
  <2>2. water' \in Nat /\ water <= water' /\ ops' = ops /\ clock' \in Nat
        /\ storageFailed' \in BOOLEAN
    BY <1>0, <2>1
  <2> QED BY <1>0, <1>1, <1>2, <2>1, <2>2, Closing
<1>7. CASE Reload \/ Crash
  BY <1>7, RestartKeeps
<1>8. ASSUME NEW op \in Ops, \/ Begin(op) \/ Submit(op) \/ Confirmed(op) \/ Partial(op)
                             \/ Unauthorized(op) \/ Fails(op)
      PROVE  Inv'
  BY <1>8, BeginKeeps, SubmitKeeps, UnauthorizedKeeps, FailsKeeps
<1> QED BY <1>3, <1>4, <1>5, <1>6, <1>7, <1>8 DEF Next

\* An empty ledger is sound.
LEMMA InitInv == Init => Inv
<1> SUFFICES ASSUME Init PROVE Inv
  OBVIOUS
<1>1. clock = 0 /\ water = 0 /\ ops = << >> /\ tasks = << >> /\ storageFailed = FALSE /\ wire = << >>
  BY DEF Init
<1>2. DOMAIN ops = {} /\ DOMAIN tasks = {} /\ DOMAIN wire = {}
  BY <1>1, EmptySeq
<1>3. wire \in Seq(Request) /\ ops \in [{} -> Row] /\ tasks \in [{} -> TaskRow]
  BY <1>1, EmptySeq
<1> QED BY <1>1, <1>2, <1>3 DEF Inv, TypeOK, Fenced, Remembered, LedgerTruth, EvictedSettled, WriteOnce

\* The extension ledger never misstates what QQ can have received, and no id
\* reaches QQ twice within the day its row is kept (ExtensionStore.begin,
\* attempt, finish, prune and recovery), however many operations, whatever the
\* capacities, the clock, the crashes and the order of QQ's answers.
THEOREM LedgerKeepsFaith == Spec => [](TypeOK /\ LedgerTruth /\ WriteOnce)
<1>1. Inv /\ [Next]_vars => Inv'
  BY NextKeeps
<1>2. Inv => TypeOK /\ LedgerTruth /\ WriteOnce
  BY DEF Inv
<1> QED BY <1>1, <1>2, InitInv, PTL DEF Spec

-----------------------------------------------------------------------------
(* What a step does to requests, writes and rows: for proofs about those   *)
(* who use the ledger.                                                     *)

\* Rows keep the life they are in, and none goes while the clock stays
\* within a day; acknowledgements are never confirmed in part.
RowsStay ==
    Now < Day => /\ DOMAIN ops \subseteq DOMAIN ops'
                 /\ \A op \in DOMAIN ops : ops'[op].started = ops[op].started
Entire == \A op \in DOMAIN ops : ops[op].state # "partial"

\* Rows that are rewritten and pruned stay.
LEMMA RewrittenStay ==
    ASSUME Inv, NEW o, o \in [DOMAIN ops -> Row],
           \A op \in DOMAIN ops : o[op].started = ops[op].started,
           ops' = o \/ Prunes(o, ops')
    PROVE  /\ RowsStay
           /\ (\A op \in DOMAIN ops : o[op].state # "partial") => Entire'
<1>1. Now \in Nat /\ Day \in Nat \ {0} /\ \A op \in DOMAIN ops : o[op].updated \in Nat
  BY NowIsTime, LimitsAssumption DEF Inv, Row
<1>2. CASE ops' = o
  BY <1>2 DEF RowsStay, Entire
<1>3. CASE Prunes(o, ops')
  <2>1. DOMAIN ops' \subseteq DOMAIN ops
    BY <1>3 DEF Prunes
  <2>2. ASSUME Now < Day, NEW op \in DOMAIN ops PROVE op \in DOMAIN ops'
    <3>1. ~(o[op].updated <= Now - Day)
      BY <1>1, <2>2
    <3> QED BY <1>3, <2>2, <3>1 DEF Prunes
  <2>3. \A op \in DOMAIN ops \cap DOMAIN ops' : ops'[op].started = ops[op].started
    BY <1>3 DEF Prunes
  <2>4. (\A op \in DOMAIN ops : o[op].state # "partial") => Entire'
    BY <1>3, <2>1 DEF Prunes, Entire
  <2> QED BY <2>2, <2>3, <2>4 DEF RowsStay
<1> QED BY <1>2, <1>3

\* The end of a write, as its caller sees it.
Ended(op) == /\ WireKept /\ water <= water' /\ clock' = clock /\ RowsStay /\ (Entire => Entire')
             /\ op \in DOMAIN tasks /\ DOMAIN tasks' = DOMAIN tasks \ {op}

LEMMA FinishEnds ==
    ASSUME Inv, NEW op \in DOMAIN tasks, NEW state \in States \ {"partial"}, Finish(op, state),
           WireKept
    PROVE  Ended(op)
<1> DEFINE o == Finished(ops, op, state)
           r == [ops[op] EXCEPT !.state = state, !.updated = Now]
<1>1. op \in DOMAIN ops /\ ops[op] \in Row /\ Now \in Nat /\ water <= Now /\ ops \in [DOMAIN ops -> Row]
  BY NowIsTime DEF Inv, TypeOK
<1>2. r \in Row /\ r.started = ops[op].started /\ r.state = state
  BY <1>1 DEF Row
<1>3. o = Extend(ops, op, r)
  BY DEF Finished
<1> HIDE DEF o, r
<1>4. /\ o \in [DOMAIN ops -> Row] /\ DOMAIN o = DOMAIN ops
      /\ \A x \in DOMAIN ops : o[x].started = ops[x].started
      /\ \A x \in DOMAIN ops : o[x].state = ops[x].state \/ o[x].state # "partial"
  BY <1>1, <1>2, <1>3 DEF Extend
<1>5. ops' \in Pruned(o) /\ water' = Now /\ UNCHANGED clock /\ EndTask(op)
  BY DEF Finish, o
<1>6. Prunes(o, ops')
  BY <1>4, <1>5, Pruning DEF Inv
<1>7. RowsStay /\ ((\A x \in DOMAIN ops : o[x].state # "partial") => Entire')
  BY <1>4, <1>6, RewrittenStay
<1>8. DOMAIN tasks' = DOMAIN tasks \ {op}
  BY <1>5 DEF EndTask, Restriction
<1> QED BY <1>1, <1>4, <1>5, <1>7, <1>8 DEF Ended, Entire

LEMMA EndingEnds ==
    ASSUME Inv, NEW op \in Ops, Fails(op) \/ Confirmed(op)
    PROVE  Ended(op)
<1>0. op \in DOMAIN tasks /\ WireKept
  <2>1. op \in DOMAIN tasks /\ (tasks[op].pc = "wire" => tasks[op].req \in DOMAIN wire)
    BY DEF Fails, Confirmed, GiveUp, Uncertain, Rejected, ConnectFailed, StorageFault, Task, Inv, TypeOK
  <2>2. CASE UNCHANGED wire
    BY <2>1, <2>2, WireSame DEF Inv
  <2>3. CASE ConnectFailed(op)
    <3>1. /\ tasks[op].req \in DOMAIN wire /\ wire[tasks[op].req].fate = "open"
          /\ wire' = [wire EXCEPT ![tasks[op].req].fate = "refused"]
      BY <2>1, <2>3 DEF ConnectFailed, Task, Verdict
    <3> QED BY <2>1, <3>1, Decided
  <2>4. ConnectFailed(op) \/ UNCHANGED wire
    BY DEF Fails, Confirmed, GiveUp, Uncertain, Rejected, StorageFault
  <2> QED BY <2>1, <2>2, <2>3, <2>4
<1>1. CASE StorageFault(op)
  <2>1. UNCHANGED <<clock, water, ops>> /\ EndTask(op)
    BY <1>1 DEF StorageFault
  <2>2. water <= water' /\ water \in Nat
    BY <2>1 DEF Inv, TypeOK
  <2>3. DOMAIN tasks' = DOMAIN tasks \ {op}
    BY <2>1 DEF EndTask, Restriction
  <2>4. RowsStay /\ (Entire => Entire')
    BY <2>1 DEF RowsStay, Entire
  <2> QED BY <1>0, <2>1, <2>2, <2>3, <2>4 DEF Ended
<1>2. CASE \E state \in States \ {"partial"} : Finish(op, state)
  BY <1>0, <1>2, FinishEnds
<1>3. StorageFault(op) \/ \E state \in States \ {"partial"} : Finish(op, state)
  <2>1. {"not_sent", "rejected", "unknown", "succeeded"} \subseteq States \ {"partial"}
    BY DEF States, Unfinished, History
  <2> QED BY <2>1 DEF Fails, Confirmed, GiveUp, Uncertain, Rejected, ConnectFailed
<1> QED BY <1>1, <1>2, <1>3

\* The other steps of a write, and of the world.
LEMMA BeginEffect ==
    ASSUME Inv, NEW op \in Ops, Begin(op)
    PROVE  /\ WireKept /\ water <= water' /\ clock' = clock /\ RowsStay /\ (Entire => Entire')
           /\ Now < Day => op \notin DOMAIN ops /\ \A x \in DOMAIN ops' \ DOMAIN ops : x = op
           /\ \/ DOMAIN tasks' = DOMAIN tasks \cup {op} /\ Task(op)' = "ready"
              \/ UNCHANGED tasks
<1> DEFINE row(state) == [state |-> state, started |-> Now, updated |-> Now]
           task == [pc |-> "ready", req |-> 0, again |-> FALSE]
<1>1. PICK o \in Pruned(ops) :
        /\ Room(o, op)
        /\ IF Cardinality(DOMAIN tasks \cap Lane(op)) < LaneTasks(op)
           THEN ops' = Extend(o, op, row("reserved")) /\ tasks' = Extend(tasks, op, task)
           ELSE ops' \in Pruned(Extend(o, op, row("not_sent"))) /\ UNCHANGED tasks
  BY DEF Begin
<1>2. water' = Now /\ UNCHANGED <<clock, storageFailed, wire>>
  BY DEF Begin
<1>3. /\ Now \in Nat /\ water <= Now /\ Day \in Nat \ {0} /\ ops \in [DOMAIN ops -> Row]
      /\ row("reserved") \in Row /\ row("not_sent") \in Row
  BY NowIsTime, LimitsAssumption DEF Inv, TypeOK, Row, States, Unfinished, History
<1>4. Prunes(ops, o)
  BY <1>1, <1>3, Pruning DEF Inv
<1>5. WireKept
  BY <1>2, WireSame DEF Inv
<1>6. \A x \in DOMAIN ops : ops[x].updated \in Nat
  BY <1>3 DEF Row
<1>7. Now < Day => DOMAIN o = DOMAIN ops
  <2>1. ASSUME Now < Day, NEW x \in DOMAIN ops PROVE ~(ops[x].updated <= Now - Day)
    BY <1>3, <1>6, <2>1
  <2> QED BY <1>4, <2>1 DEF Prunes
<1>8. /\ op \notin DOMAIN o /\ DOMAIN o \subseteq DOMAIN ops /\ o \in [DOMAIN o -> Row]
      /\ \A x \in DOMAIN o : o[x].started = ops[x].started
                             /\ (o[x].state = ops[x].state \/ o[x].state = "history_evicted")
  BY <1>1, <1>4 DEF Room, Prunes
<1>9. CASE /\ ops' = Extend(o, op, row("reserved")) /\ tasks' = Extend(tasks, op, task)
  <2>1. /\ DOMAIN ops' = DOMAIN o \cup {op} /\ ops'[op] = row("reserved")
        /\ \A x \in DOMAIN o : ops'[x] = o[x]
    BY <1>8, <1>9 DEF Extend
  <2>2. RowsStay
    BY <1>7, <1>8, <2>1 DEF RowsStay
  <2>3. Entire => Entire'
    BY <1>8, <2>1 DEF Entire
  <2>4. DOMAIN tasks' = DOMAIN tasks \cup {op} /\ Task(op)' = "ready"
    BY <1>9 DEF Extend, Task
  <2> QED BY <1>2, <1>3, <1>5, <1>7, <1>8, <2>1, <2>2, <2>3, <2>4
<1>10. CASE ops' \in Pruned(Extend(o, op, row("not_sent"))) /\ UNCHANGED tasks
  <2> DEFINE e == Extend(o, op, row("not_sent"))
  <2>1. DOMAIN e = DOMAIN o \cup {op} /\ e[op] = row("not_sent") /\ \A x \in DOMAIN o : e[x] = o[x]
    BY <1>8 DEF Extend
  <2>2. e \in [DOMAIN e -> Row]
    <3>1. \A x \in DOMAIN e : e[x] \in Row
      BY <1>3, <1>8, <2>1
    <3> QED BY <3>1 DEF Extend
  <2>3. ops' \in Pruned(e)
    BY <1>10
  <2> HIDE DEF e
  <2>4. Prunes(e, ops')
    BY <2>2, <2>3, Pruning DEF Inv
  <2>5. \A x \in DOMAIN e : e[x].updated \in Nat
    BY <2>2 DEF Row
  <2>6. Now < Day => DOMAIN ops' = DOMAIN e
    <3>1. ASSUME Now < Day, NEW x \in DOMAIN e PROVE ~(e[x].updated <= Now - Day)
      BY <1>3, <2>5, <3>1
    <3> QED BY <2>4, <3>1 DEF Prunes
  <2>7. RowsStay
    BY <1>7, <1>8, <2>1, <2>4, <2>6 DEF RowsStay, Prunes
  <2>8. Entire => Entire'
    BY <1>8, <2>1, <2>4 DEF Entire, Prunes
  <2> QED BY <1>2, <1>3, <1>5, <1>7, <1>8, <1>10, <2>1, <2>6, <2>7, <2>8
<1> QED BY <1>1, <1>9, <1>10

LEMMA SubmitEffect ==
    ASSUME Inv, NEW op \in Ops, Submit(op)
    PROVE  /\ op \in DOMAIN tasks /\ DOMAIN tasks' = DOMAIN tasks
           /\ water <= water' /\ clock' = clock /\ RowsStay /\ (Entire => Entire')
           /\ wire \in Seq(Request) /\ Now \in Nat
           /\ wire' = Append(wire, [op |-> op, fate |-> "open", at |-> Now])
           /\ DOMAIN ops' = DOMAIN ops
<1>1. op \in DOMAIN tasks /\ op \in DOMAIN ops /\ ops[op] \in Row
  BY DEF Submit, Task, Inv, TypeOK
<1>2. /\ DOMAIN tasks' = DOMAIN tasks /\ water' = Now /\ clock' = clock
      /\ wire' = Append(wire, [op |-> op, fate |-> "open", at |-> Now])
      /\ ops' = [ops EXCEPT ![op].state = "in_flight", ![op].updated = Now]
  BY DEF Submit
<1>3. water <= Now /\ wire \in Seq(Request) /\ Now \in Nat
  BY NowIsTime DEF Inv, TypeOK
<1>4. /\ DOMAIN ops' = DOMAIN ops
      /\ \A x \in DOMAIN ops : /\ ops'[x].started = ops[x].started
                               /\ ops'[x].state \in {ops[x].state, "in_flight"}
  <2> DEFINE r == [ops[op] EXCEPT !.state = "in_flight", !.updated = Now]
  <2>1. r.started = ops[op].started /\ r.state = "in_flight"
    BY <1>1 DEF Row
  <2>2. ops' = [ops EXCEPT ![op] = r]
    BY <1>2
  <2> HIDE DEF r
  <2> QED BY <1>1, <2>1, <2>2
<1>5. RowsStay /\ (Entire => Entire')
  BY <1>4 DEF RowsStay, Entire
<1> QED BY <1>1, <1>2, <1>3, <1>4, <1>5

LEMMA UnauthorizedEffect ==
    ASSUME Inv, NEW op \in Ops, Unauthorized(op)
    PROVE  op \in DOMAIN tasks /\ DOMAIN tasks' = DOMAIN tasks
           /\ UNCHANGED <<clock, water, ops, wire>>
BY DEF Unauthorized, Task

LEMMA WorldEffect ==
    ASSUME Inv, Prune \/ SetClock \/ \E i \in DOMAIN wire : QQActs(i)
    PROVE  /\ WireKept /\ water <= water' /\ RowsStay /\ (Entire => Entire')
           /\ UNCHANGED tasks /\ clock' \in {clock} \cup 0..MaxClock
<1>1. ops \in [DOMAIN ops -> Row] /\ Now \in Nat /\ water <= Now /\ water \in Nat
  BY NowIsTime DEF Inv, TypeOK
<1>2. CASE Prune
  <2>1. ops' \in Pruned(ops) /\ water' = Now /\ UNCHANGED <<clock, tasks, wire>>
    BY <1>2 DEF Prune
  <2>2. Prunes(ops, ops')
    BY <1>1, <2>1, Pruning DEF Inv
  <2>3. RowsStay /\ (Entire => Entire')
    BY <1>1, <2>2, RewrittenStay DEF Entire
  <2> QED BY <1>1, <2>1, <2>3, WireSame DEF Inv
<1>3. CASE SetClock
  <2>1. UNCHANGED <<water, ops, tasks, wire>> /\ clock' \in 0..MaxClock
    BY <1>3 DEF SetClock
  <2>2. RowsStay /\ (Entire => Entire')
    BY <2>1 DEF RowsStay, Entire
  <2>3. WireKept
    BY <2>1, WireSame DEF Inv
  <2> QED BY <1>1, <2>1, <2>2, <2>3
<1>4. CASE \E i \in DOMAIN wire : QQActs(i)
  <2>1. PICK i \in DOMAIN wire, f \in {"accepted", "refused"} :
           wire[i].fate = "open" /\ wire' = [wire EXCEPT ![i].fate = f]
    BY <1>4 DEF QQActs
  <2>2. UNCHANGED <<clock, water, ops, tasks>>
    BY <1>4 DEF QQActs
  <2>3. WireKept
    BY <2>1, Decided
  <2>4. RowsStay /\ (Entire => Entire')
    BY <2>2 DEF RowsStay, Entire
  <2> QED BY <1>1, <2>2, <2>3, <2>4
<1> QED BY <1>2, <1>3, <1>4

LEMMA RestartEffect ==
    ASSUME Inv, Reload \/ Crash
    PROVE  /\ WireKept /\ water <= water' /\ clock' = clock /\ RowsStay /\ (Entire => Entire')
           /\ DOMAIN tasks' = {}
<1>1. ops \in [DOMAIN ops -> Row] /\ Now \in Nat /\ water <= Now /\ water \in Nat
  BY NowIsTime DEF Inv, TypeOK
<1>2. tasks' = << >> /\ UNCHANGED <<clock, wire>> /\ water' = Now
  BY DEF Reload, Crash, Restart
<1>3. WireKept /\ DOMAIN tasks' = {}
  BY <1>2, WireSame, EmptySeq DEF Inv
<1>4. CASE Reload
  <2> DEFINE o == [op \in DOMAIN ops |->
                    CASE Task(op) = "wire" -> [ops[op] EXCEPT !.state = "unknown", !.updated = Now]
                      [] Task(op) \in {"ready", "reauth"} ->
                            [ops[op] EXCEPT !.state = "not_sent", !.updated = Now]
                      [] OTHER -> ops[op]]
  <2>1. ops' = ops \/ ops' \in Pruned(o)
    BY <1>4 DEF Reload
  <2>2. \A x \in Row : \A state \in {"unknown", "not_sent"} :
           LET y == [x EXCEPT !.state = state, !.updated = Now]
           IN  y \in Row /\ y.started = x.started /\ y.state # "partial"
    BY <1>1 DEF Row, States, Unfinished, History
  <2>3. \A op \in DOMAIN ops : /\ o[op] \in Row /\ o[op].started = ops[op].started
                               /\ o[op].state = ops[op].state \/ o[op].state # "partial"
    <3> SUFFICES ASSUME NEW op \in DOMAIN ops
                 PROVE  /\ o[op] \in Row /\ o[op].started = ops[op].started
                        /\ o[op].state = ops[op].state \/ o[op].state # "partial"
      OBVIOUS
    <3>1. ops[op] \in Row
      BY SMTT(30), <1>1
    <3>2. CASE Task(op) = "wire"
      BY ZenonT(30), <2>2, <3>1, <3>2
    <3>3. CASE Task(op) \in {"ready", "reauth"}
      BY <2>2, <3>1, <3>3
    <3>4. CASE Task(op) \notin {"wire", "ready", "reauth"}
      BY SMTT(30), <3>1, <3>4
    <3> QED BY <3>2, <3>3, <3>4
  <2>4. o \in [DOMAIN ops -> Row]
    BY <2>3
  <2> HIDE DEF o
  <2>5. CASE ops' = ops
    BY <1>1, <1>2, <1>3, <2>5 DEF RowsStay, Entire
  <2>6. CASE ops' \in Pruned(o)
    <3>1. Prunes(o, ops')
      BY <2>4, <2>6, Pruning DEF Inv
    <3>2. RowsStay /\ ((\A op \in DOMAIN ops : o[op].state # "partial") => Entire')
      BY <2>3, <2>4, <3>1, RewrittenStay
    <3> QED BY <1>1, <1>2, <1>3, <2>3, <3>2 DEF Entire
  <2> QED BY <2>1, <2>5, <2>6
<1>5. CASE Crash
  <2>1. /\ DOMAIN ops' = DOMAIN ops
        /\ \A op \in DOMAIN ops : ops'[op] = [ops[op] EXCEPT !.state = Recovered(ops[op].state)]
    BY <1>5 DEF Crash
  <2>2. \A op \in DOMAIN ops : ops'[op].started = ops[op].started
                               /\ ops'[op].state = Recovered(ops[op].state)
    BY <1>1, <2>1 DEF Row
  <2>3. RowsStay /\ (Entire => Entire')
    BY <2>1, <2>2 DEF RowsStay, Entire, Recovered
  <2> QED BY <1>1, <1>2, <1>3, <2>3
<1> QED BY <1>4, <1>5

\* A transaction of somebody else only moves the guarded clock.
LEMMA TransactionKeeps ==
    ASSUME Inv, water' = Now \/ water' = water,
           UNCHANGED <<clock, ops, tasks, storageFailed, wire>>
    PROVE  Inv' /\ WireKept /\ water <= water' /\ RowsStay /\ (Entire => Entire')
<1>1. ops \in [DOMAIN ops -> Row] /\ Now \in Nat /\ water <= Now /\ water \in Nat
      /\ clock \in Nat /\ storageFailed \in BOOLEAN
  BY NowIsTime DEF Inv, TypeOK
<1>2. WireKept /\ TasksLeft(DOMAIN tasks)
  BY WireSame, TasksSame DEF Inv
<1>3. water' \in Nat /\ water <= water' /\ clock' \in Nat /\ storageFailed' \in BOOLEAN /\ ops' = ops
  BY <1>1
<1>4. RowsStay /\ (Entire => Entire')
  BY <1>3 DEF RowsStay, Entire
<1>5. Inv'
  BY <1>1, <1>2, <1>3, Closing
<1> QED BY <1>2, <1>3, <1>4, <1>5

-----------------------------------------------------------------------------
(* While the clock stays within a day of its first tick no row goes, and   *)
(* the only life of an id is its first.                                    *)

ThisLife == \A i \in DOMAIN wire : Possible(i) =>
    wire[i].op \in DOMAIN ops /\ ops[wire[i].op].started <= wire[i].at
Today == ThisLife /\ clock \in 0..MaxClock /\ water \in 0..MaxClock

LEMMA TodayNow == ASSUME Today, MaxClock < Day
                  PROVE  Now \in 0..MaxClock /\ Now < Day
BY LimitsAssumption DEF Today, Now

LEMMA LifeStays ==
    ASSUME Inv, Today, MaxClock < Day, RowsStay, WireKept
    PROVE  ThisLife'
<1>1. Now < Day
  BY TodayNow
<1> QED BY <1>1 DEF Today, ThisLife, RowsStay, WireKept

LEMMA LifeSubmitted ==
    ASSUME Inv, Today, MaxClock < Day, NEW op \in Ops, Submit(op)
    PROVE  ThisLife'
<1> DEFINE new == [op |-> op, fate |-> "open", at |-> Now]
<1>1. /\ op \in DOMAIN ops /\ ops[op].started <= water /\ ops[op].started \in Nat
  BY DEF Submit, Task, Inv, TypeOK, Fenced, Row
<1>2. /\ RowsStay /\ wire \in Seq(Request) /\ Now \in Nat /\ water <= Now /\ water \in Nat
      /\ wire' = Append(wire, new) /\ new.op = op /\ new.at = Now
  BY SubmitEffect, NowIsTime DEF Inv, TypeOK
<1>3. new \in Request
  BY <1>2 DEF Request
<1> HIDE DEF new
<1>4. /\ DOMAIN wire' = DOMAIN wire \cup {Len(wire) + 1} /\ wire'[Len(wire) + 1] = new
      /\ \A i \in DOMAIN wire : wire'[i] = wire[i]
  <2>1. /\ DOMAIN wire = 1 .. Len(wire) /\ DOMAIN wire' = 1 .. Len(wire) + 1 /\ Len(wire) \in Nat
        /\ wire'[Len(wire) + 1] = new /\ \A i \in DOMAIN wire : wire'[i] = wire[i]
    BY <1>2, <1>3, AppendProperties
  <2> QED BY <2>1
<1>5. ops[op].started <= Now
  BY <1>1, <1>2
<1>6. Now < Day
  BY TodayNow
<1> SUFFICES ASSUME NEW i \in DOMAIN wire', Possible(i)'
             PROVE  wire'[i].op \in DOMAIN ops' /\ ops'[wire'[i].op].started <= wire'[i].at
  BY DEF ThisLife
<1>7. CASE i \in DOMAIN wire
  BY <1>2, <1>4, <1>6, <1>7 DEF Today, ThisLife, Possible, RowsStay
<1>8. CASE i = Len(wire) + 1
  BY <1>1, <1>2, <1>4, <1>5, <1>6, <1>8 DEF RowsStay
<1> QED BY <1>4, <1>7, <1>8

\* What the ledger says of an id is the whole truth: nothing of it can have
\* reached QQ, or it has, and once.
LEMMA TruthToday ==
    ASSUME Inv, Today, MaxClock < Day, NEW op
    PROVE  /\ (op \in DOMAIN ops => ops[op].state \in {"not_sent", "rejected", "reserved"}) =>
                  \A i \in DOMAIN wire : wire[i].op = op => ~Possible(i)
           /\ \A i, j \in DOMAIN wire : wire[i].op = op /\ wire[j].op = op /\ Possible(i)
                                        /\ Possible(j) => i = j
<1>1. ASSUME op \in DOMAIN ops => ops[op].state \in {"not_sent", "rejected", "reserved"},
             NEW i \in DOMAIN wire, wire[i].op = op, Possible(i)
      PROVE  FALSE
  <2>1. op \in DOMAIN ops /\ ops[op].started <= wire[i].at
    BY <1>1 DEF Today, ThisLife
  <2> QED BY <1>1, <2>1 DEF Inv, LedgerTruth, OfLife
<1>2. ASSUME NEW i \in DOMAIN wire, NEW j \in DOMAIN wire, wire[i].op = op, wire[j].op = op,
             Possible(i), Possible(j), i < j
      PROVE  FALSE
  <2>1. wire[j].at >= wire[i].at + Day
    BY <1>2 DEF Inv, WriteOnce
  <2>2. wire[j].at <= water /\ wire[i].at \in Nat /\ wire[j].at \in Nat
    <3>1. wire[i] \in Request /\ wire[j] \in Request
      BY <1>2 DEF Inv, TypeOK
    <3> QED BY <3>1 DEF Inv, Remembered, Request
  <2>3. water \in Nat /\ water <= MaxClock /\ Day \in Nat /\ MaxClock \in Nat
    BY LimitsAssumption DEF Today
  <2> QED BY <2>1, <2>2, <2>3
<1>3. \A i \in DOMAIN wire : i \in Nat
  BY DEF Inv, TypeOK
<1> QED BY <1>1, <1>2, <1>3

-----------------------------------------------------------------------------
(* What the caller is promised.                                            *)

\* How a step changes one row before anything is a day old: it stays as it is,
\* or it was under way, or its result is dropped.
Goes(op) ==
    /\ op \in DOMAIN ops =>
          /\ op \in DOMAIN ops' /\ ops'[op].started = ops[op].started
          /\ \/ ops'[op].state = ops[op].state
             \/ ops[op].state \in {"reserved", "in_flight"}
             \/ ops[op].state \in History /\ ops'[op].state = "history_evicted"
    /\ op \notin DOMAIN ops /\ op \in DOMAIN ops' =>
          ops'[op].state \in {"reserved", "not_sent", "history_evicted"}

\* No prune drops a row before anything is a day old.
LEMMA PrunesNone ==
    ASSUME Inv, Now < Day, NEW o, o \in [DOMAIN o -> Row], NEW p, Prunes(o, p)
    PROVE  /\ DOMAIN p = DOMAIN o
           /\ \A op \in DOMAIN o : /\ p[op].started = o[op].started
                                   /\ \/ p[op].state = o[op].state
                                      \/ p[op].state = "history_evicted" /\ o[op].state \in History
<1>1. Now \in Nat /\ Day \in Nat \ {0} /\ \A op \in DOMAIN o : o[op].updated \in Nat
  BY NowIsTime, LimitsAssumption DEF Inv, Row
<1>2. ASSUME NEW op \in DOMAIN o PROVE ~(o[op].updated <= Now - Day)
  BY <1>1, <1>2
<1> QED BY <1>2 DEF Prunes

\* Rows of ended writes are rewritten and pruned.
LEMMA RewrittenGo ==
    ASSUME Inv, Now < Day, NEW o, o \in [DOMAIN ops -> Row],
           \A op \in DOMAIN ops : /\ o[op].started = ops[op].started
                                  /\ \/ o[op].state = ops[op].state
                                     \/ ops[op].state \in {"reserved", "in_flight"},
           ops' = o \/ Prunes(o, ops'), NEW op
    PROVE  Goes(op)
<1>1. CASE ops' = o
  BY <1>1 DEF Goes
<1>2. CASE Prunes(o, ops')
  <2>1. /\ DOMAIN ops' = DOMAIN ops
        /\ \A x \in DOMAIN ops : /\ ops'[x].started = o[x].started
                                 /\ \/ ops'[x].state = o[x].state
                                    \/ ops'[x].state = "history_evicted" /\ o[x].state \in History
    BY <1>2, PrunesNone
  <2>2. \A x \in DOMAIN ops : ops'[x].state = "history_evicted" /\ o[x].state \in History =>
            ops[x].state \in History \/ ops[x].state \in {"reserved", "in_flight"}
    OBVIOUS
  <2> QED BY <2>1, <2>2 DEF Goes
<1> QED BY <1>1, <1>2

LEMMA FinishGo ==
    ASSUME Inv, Now < Day, NEW x \in DOMAIN tasks, NEW state \in States, Finish(x, state), NEW op
    PROVE  Goes(op)
<1> DEFINE o == Finished(ops, x, state)
           r == [ops[x] EXCEPT !.state = state, !.updated = Now]
<1>1. x \in DOMAIN ops /\ ops[x] \in Row /\ Now \in Nat /\ ops \in [DOMAIN ops -> Row]
      /\ ops[x].state \in {"reserved", "in_flight"}
  BY NowIsTime DEF Inv, TypeOK
<1>2. r \in Row /\ r.started = ops[x].started
  BY <1>1 DEF Row
<1>3. o = Extend(ops, x, r) /\ ops' \in Pruned(o)
  BY DEF Finished, Finish
<1> HIDE DEF o, r
<1>4. /\ o \in [DOMAIN ops -> Row]
      /\ \A y \in DOMAIN ops : /\ o[y].started = ops[y].started
                               /\ \/ o[y].state = ops[y].state
                                  \/ ops[y].state \in {"reserved", "in_flight"}
  BY <1>1, <1>2, <1>3 DEF Extend
<1>5. DOMAIN o = DOMAIN ops /\ Prunes(o, ops')
  BY <1>3, <1>4, Pruning DEF Inv
<1> QED BY <1>4, <1>5, RewrittenGo

LEMMA BeginGo ==
    ASSUME Inv, Now < Day, NEW x \in Ops, Begin(x), NEW op
    PROVE  Goes(op)
<1> DEFINE row(state) == [state |-> state, started |-> Now, updated |-> Now]
<1>1. PICK o \in Pruned(ops) :
        /\ x \notin DOMAIN o
        /\ \/ ops' = Extend(o, x, row("reserved"))
           \/ ops' \in Pruned(Extend(o, x, row("not_sent")))
  BY DEF Begin, Room
<1>2. Now \in Nat /\ ops \in [DOMAIN ops -> Row]
  BY NowIsTime DEF Inv, TypeOK
<1>3. Prunes(ops, o)
  BY <1>1, <1>2, Pruning DEF Inv
<1>4. /\ DOMAIN o = DOMAIN ops /\ o \in [DOMAIN o -> Row]
      /\ \A y \in DOMAIN ops : /\ o[y].started = ops[y].started
                               /\ \/ o[y].state = ops[y].state
                                  \/ o[y].state = "history_evicted" /\ ops[y].state \in History
  BY <1>2, <1>3, PrunesNone DEF Prunes
<1>5. \A s \in {"reserved", "not_sent"} : row(s) \in Row /\ row(s).state = s
  BY <1>2 DEF Row, States, Unfinished, History
<1> HIDE DEF row
<1>6. ASSUME NEW s \in {"reserved", "not_sent"}
      PROVE  LET e == Extend(o, x, row(s))
             IN  /\ e \in [DOMAIN e -> Row] /\ DOMAIN e = DOMAIN ops \cup {x}
                 /\ e[x] = row(s) /\ \A y \in DOMAIN ops : e[y] = o[y]
  BY <1>1, <1>4, <1>5 DEF Extend
<1>7. CASE ops' = Extend(o, x, row("reserved"))
  BY <1>4, <1>5, <1>6, <1>7 DEF Goes
<1>8. CASE ops' \in Pruned(Extend(o, x, row("not_sent")))
  <2> DEFINE e == Extend(o, x, row("not_sent"))
  <2>1. /\ e \in [DOMAIN e -> Row] /\ DOMAIN e = DOMAIN ops \cup {x}
        /\ e[x] = row("not_sent") /\ \A y \in DOMAIN ops : e[y] = o[y]
    BY <1>6
  <2>2. ops' \in Pruned(e)
    BY <1>8
  <2> HIDE DEF e
  <2>3. /\ DOMAIN ops' = DOMAIN e
        /\ \A y \in DOMAIN e : /\ ops'[y].started = e[y].started
                               /\ \/ ops'[y].state = e[y].state
                                  \/ ops'[y].state = "history_evicted" /\ e[y].state \in History
    BY <2>1, <2>2, Pruning, PrunesNone DEF Inv
  <2>4. op \in DOMAIN ops => Goes(op)
    BY <1>4, <2>1, <2>3 DEF Goes, History
  <2>5. op \notin DOMAIN ops => Goes(op)
    BY <1>5, <2>1, <2>3 DEF Goes
  <2> QED BY <2>4, <2>5
<1> QED BY <1>1, <1>7, <1>8

LEMMA RestartGo ==
    ASSUME Inv, Now < Day, Reload \/ Crash, NEW op
    PROVE  Goes(op)
<1>1. ops \in [DOMAIN ops -> Row] /\ Now \in Nat
      /\ \A x \in DOMAIN tasks : ops[x].state \in {"reserved", "in_flight"}
  BY NowIsTime DEF Inv, TypeOK
<1>2. CASE Reload
  <2> DEFINE o == [x \in DOMAIN ops |->
                    CASE Task(x) = "wire" -> [ops[x] EXCEPT !.state = "unknown", !.updated = Now]
                      [] Task(x) \in {"ready", "reauth"} ->
                            [ops[x] EXCEPT !.state = "not_sent", !.updated = Now]
                      [] OTHER -> ops[x]]
  <2>1. ops' = ops \/ ops' \in Pruned(o)
    BY <1>2 DEF Reload
  <2>2. \A y \in Row : \A state \in {"unknown", "not_sent"} :
           LET z == [y EXCEPT !.state = state, !.updated = Now]
           IN  z \in Row /\ z.started = y.started
    BY <1>1 DEF Row, States, Unfinished, History
  <2>3. ASSUME NEW x \in DOMAIN ops
        PROVE  /\ o[x] \in Row /\ o[x].started = ops[x].started
               /\ o[x].state = ops[x].state \/ ops[x].state \in {"reserved", "in_flight"}
    <3>1. ops[x] \in Row /\ (Task(x) \in {"wire", "ready", "reauth"} => x \in DOMAIN tasks)
      BY <1>1 DEF Task
    <3>2. CASE Task(x) = "wire"
      BY <1>1, <2>2, <3>1, <3>2
    <3>3. CASE Task(x) \in {"ready", "reauth"}
      BY <1>1, <2>2, <3>1, <3>3
    <3>4. CASE Task(x) \notin {"wire", "ready", "reauth"}
      BY SMTT(30), <3>1, <3>4
    <3> QED BY <3>2, <3>3, <3>4
  <2>4. o \in [DOMAIN ops -> Row] /\ DOMAIN o = DOMAIN ops
    BY <2>3
  <2> HIDE DEF o
  <2>5. CASE ops' = ops
    BY <2>5 DEF Goes
  <2>6. CASE ops' \in Pruned(o)
    <3>1. Prunes(o, ops')
      BY <2>4, <2>6, Pruning DEF Inv
    <3> QED BY <2>3, <2>4, <3>1, RewrittenGo
  <2> QED BY <2>1, <2>5, <2>6
<1>3. CASE Crash
  <2>1. /\ DOMAIN ops' = DOMAIN ops
        /\ \A x \in DOMAIN ops : ops'[x] = [ops[x] EXCEPT !.state = Recovered(ops[x].state)]
    BY <1>3 DEF Crash
  <2>2. \A x \in DOMAIN ops : ops'[x].started = ops[x].started
                              /\ ops'[x].state = Recovered(ops[x].state)
    BY <1>1, <2>1 DEF Row
  <2> QED BY <2>1, <2>2 DEF Goes, Recovered
<1> QED BY <1>2, <1>3

\* Every step changes rows so.
LEMMA RowsGo ==
    ASSUME Inv, Now < Day, [Next]_vars, NEW op
    PROVE  Goes(op)
<1>1. ops' = ops => Goes(op)
  BY DEF Goes
<1>2. CASE Prune
  <2>1. ops' \in Pruned(ops) /\ ops \in [DOMAIN ops -> Row]
    BY <1>2 DEF Prune, Inv, TypeOK
  <2>2. Prunes(ops, ops')
    BY <2>1, Pruning DEF Inv
  <2> QED BY <2>1, <2>2, RewrittenGo
<1>3. CASE SetClock \/ (\E i \in DOMAIN wire : QQActs(i)) \/ (\E x \in Ops : Unauthorized(x) \/ StorageFault(x)) \/ UNCHANGED vars
  BY <1>1, <1>3 DEF SetClock, QQActs, Unauthorized, StorageFault, vars
<1>4. CASE Reload \/ Crash
  BY <1>4, RestartGo
<1>5. ASSUME NEW x \in Ops, Begin(x) PROVE Goes(op)
  BY <1>5, BeginGo
<1>6. ASSUME NEW x \in Ops, Submit(x) PROVE Goes(op)
  <2> DEFINE r == [ops[x] EXCEPT !.state = "in_flight", !.updated = Now]
  <2>1. x \in DOMAIN tasks
    BY <1>6 DEF Submit, Task
  <2>2. x \in DOMAIN ops /\ ops[x] \in Row /\ ops[x].state \in {"reserved", "in_flight"}
    BY <2>1 DEF Inv, TypeOK
  <2>3. r.started = ops[x].started
    BY <2>2 DEF Row
  <2>4. ops' = [ops EXCEPT ![x] = r]
    BY <1>6 DEF Submit
  <2> HIDE DEF r
  <2> QED BY <2>2, <2>3, <2>4 DEF Goes
<1>7. ASSUME NEW x \in Ops, Fails(x) \/ Confirmed(x) \/ Partial(x), ~StorageFault(x)
      PROVE  Goes(op)
  <2>1. x \in DOMAIN tasks
    BY <1>7 DEF Fails, Confirmed, Partial, GiveUp, Uncertain, Rejected, ConnectFailed, Task
  <2>2. PICK state \in {"succeeded", "partial", "not_sent", "rejected", "unknown"} : Finish(x, state)
    BY <1>7 DEF Fails, Confirmed, Partial, GiveUp, Uncertain, Rejected, ConnectFailed
  <2>3. state \in States
    BY DEF States, Unfinished, History
  <2> QED BY <2>1, <2>2, <2>3, FinishGo
<1> QED BY <1>2, <1>3, <1>4, <1>5, <1>6, <1>7 DEF Next

Accepted(op) == {i \in DOMAIN wire : wire[i].op = op /\ wire[i].fate = "accepted"}

\* A request leaves, or QQ decides on one, or the wire stays as it is; only
\* QQ's own decision accepts one.
LEMMA WireMoves ==
    ASSUME Inv, [Next]_vars
    PROVE  /\ WireKept \/ \E x \in Ops : Submit(x)
           /\ (~ \E i \in DOMAIN wire : QQActs(i)) => \A op : Accepted(op)' = Accepted(op)
<1>1. UNCHANGED wire => WireKept /\ \A op : Accepted(op)' = Accepted(op)
  BY WireSame DEF Inv, Accepted
<1>2. CASE UNCHANGED vars \/ Prune \/ SetClock \/ Reload \/ Crash
  BY <1>1, <1>2 DEF vars, Prune, SetClock, Reload, Crash, Restart
<1>3. CASE \E i \in DOMAIN wire : QQActs(i)
  <2>1. PICK i \in DOMAIN wire, f \in {"accepted", "refused"} :
           wire[i].fate = "open" /\ wire' = [wire EXCEPT ![i].fate = f]
    BY <1>3 DEF QQActs
  <2> QED BY <1>3, <2>1, Decided
<1>4. ASSUME NEW x \in Ops, Submit(x)
      PROVE  \A op : Accepted(op)' = Accepted(op)
  <2> DEFINE q == [op |-> x, fate |-> "open", at |-> Now]
             n == Len(wire) + 1
  <2>1. wire' = Append(wire, q) /\ q.fate = "open" /\ wire \in Seq(Request)
    BY <1>4 DEF Submit, Inv, TypeOK
  <2> HIDE DEF q
  <2>2. /\ Len(wire) \in Nat /\ DOMAIN wire = 1 .. Len(wire) /\ DOMAIN wire' = 1 .. n
        /\ wire'[n] = q /\ \A i \in DOMAIN wire : wire'[i] = wire[i]
    BY <2>1
  <2>3. DOMAIN wire' = DOMAIN wire \cup {n} /\ n \notin DOMAIN wire
    BY <2>2
  <2> HIDE DEF n
  <2> QED BY <2>1, <2>2, <2>3 DEF Accepted
<1>5. ASSUME NEW x \in Ops, ConnectFailed(x)
      PROVE  WireKept /\ \A op : Accepted(op)' = Accepted(op)
  <2> DEFINE k == tasks[x].req
  <2>1. /\ x \in DOMAIN tasks /\ tasks[x].pc = "wire" /\ wire[k].fate = "open"
        /\ wire' = [wire EXCEPT ![k].fate = "refused"]
    BY <1>5 DEF ConnectFailed, Task, Verdict
  <2>2. k \in DOMAIN wire
    BY <2>1 DEF Inv, TypeOK
  <2> HIDE DEF k
  <2>3. WireKept /\ wire'[k].fate = "refused"
    BY <2>1, <2>2, Decided
  <2>4. DOMAIN wire' = DOMAIN wire /\ \A i \in DOMAIN wire : /\ wire'[i].op = wire[i].op
                                                             /\ i # k => wire'[i].fate = wire[i].fate
    BY <2>1, <2>3 DEF WireKept
  <2> QED BY <2>1, <2>3, <2>4 DEF Accepted
<1>6. CASE \E x \in Ops : \/ Begin(x) \/ Confirmed(x) \/ Partial(x) \/ Unauthorized(x) \/ GiveUp(x)
                          \/ Uncertain(x) \/ Rejected(x) \/ StorageFault(x)
  BY <1>1, <1>6 DEF Begin, Confirmed, Partial, Unauthorized, GiveUp, Uncertain, Rejected, StorageFault
<1> QED BY <1>2, <1>3, <1>4, <1>5, <1>6 DEF Next, Fails

\* The clock stays within its bound, and no transaction runs ahead of it.
LEMMA ClockMoves ==
    ASSUME [Next]_vars
    PROVE  water' \in {water, Now} /\ clock' \in {clock} \cup 0 .. MaxClock
<1>1. CASE UNCHANGED vars \/ Prune \/ SetClock \/ Reload \/ Crash \/ (\E i \in DOMAIN wire : QQActs(i))
  BY <1>1 DEF vars, Prune, SetClock, Reload, Crash, Restart, QQActs
<1>2. ASSUME NEW x \in Ops, Begin(x) \/ Submit(x) \/ Unauthorized(x) \/ StorageFault(x)
      PROVE  water' \in {water, Now} /\ clock' = clock
  BY <1>2 DEF Begin, Submit, Unauthorized, StorageFault
<1>3. ASSUME NEW x \in Ops, \/ Confirmed(x) \/ Partial(x) \/ GiveUp(x) \/ Uncertain(x)
                            \/ Rejected(x) \/ ConnectFailed(x)
      PROVE  water' \in {water, Now} /\ clock' = clock
  BY <1>3 DEF Confirmed, Partial, GiveUp, Uncertain, Rejected, ConnectFailed, Finish
<1> QED BY <1>1, <1>2, <1>3 DEF Next, Fails

\* Rows outlive the model's clock.
LEMMA TodayKept ==
    ASSUME Inv, Today, MaxClock < Day, [Next]_vars
    PROVE  Today'
<1>1. Now \in 0 .. MaxClock /\ Now < Day
  BY TodayNow
<1>2. clock' \in 0 .. MaxClock /\ water' \in 0 .. MaxClock
  BY <1>1, ClockMoves DEF Today
<1>3. CASE \E x \in Ops : Submit(x)
  BY <1>2, <1>3, LifeSubmitted DEF Today
<1>4. CASE WireKept
  <2>1. RowsStay
    <3>1. \A op : Goes(op)
      BY <1>1, RowsGo
    <3> QED BY <3>1 DEF Goes, RowsStay
  <2> QED BY <1>2, <1>4, <2>1, LifeStays DEF Today
<1> QED BY <1>3, <1>4, WireMoves

\* The refinement mapping of Promise.
TheVerdict == [op \in Ops |->
    IF op \notin DOMAIN ops THEN "none"
    ELSE CASE ops[op].state \in {"reserved", "in_flight"} -> "pending"
           [] ops[op].state \in {"succeeded", "partial"} -> "sent"
           [] ops[op].state = "unknown" -> "unknown"
           [] ops[op].state = "history_evicted" ->
                 IF \E i \in OfLife(op) : wire[i].fate = "accepted" THEN "sent" ELSE "failed"
           [] OTHER -> "failed"]
TheCopies == [op \in Ops |->
    Cardinality({i \in DOMAIN wire : wire[i].op = op /\ wire[i].fate = "accepted"})]

\* What each verdict stands for.
Meant(op) ==
    /\ TheVerdict[op] \in {"none", "pending", "sent", "failed", "unknown"}
    /\ TheVerdict[op] = "none" <=> op \notin DOMAIN ops
    /\ TheVerdict[op] = "pending" <=>
          op \in DOMAIN ops /\ ops[op].state \in {"reserved", "in_flight"}
    /\ TheVerdict[op] = "unknown" <=> op \in DOMAIN ops /\ ops[op].state = "unknown"
    /\ op \in DOMAIN ops /\ ops[op].state \in {"succeeded", "partial"} => TheVerdict[op] = "sent"
    /\ op \in DOMAIN ops /\ ops[op].state \in {"not_sent", "rejected"} => TheVerdict[op] = "failed"
    /\ op \in DOMAIN ops /\ ops[op].state = "history_evicted" => TheVerdict[op] =
          IF \E i \in OfLife(op) : wire[i].fate = "accepted" THEN "sent" ELSE "failed"
    /\ op \in DOMAIN ops => ops[op].state \in States

LEMMA VerdictMeans == ASSUME Inv, NEW op \in Ops PROVE Meant(op)
<1>1. op \in DOMAIN ops => ops[op].state \in States
  BY DEF Inv, TypeOK, Row
<1> QED BY <1>1 DEF Meant, TheVerdict, States, Unfinished, History

\* The same of the state after a step.
LEMMA MeantNext == ASSUME NEW op \in Ops PROVE Inv' => Meant(op)'
<1>1. Inv => Meant(op)
  BY VerdictMeans
<1> QED BY <1>1, PTL

\* Copies of what did not reach QQ, and of what did.
CopiesSay ==
    \A op \in Ops :
        /\ TheVerdict[op] \in {"none", "failed"} => TheCopies[op] = 0
        /\ TheVerdict[op] = "sent" => TheCopies[op] = 1

\* The verdict tells the number of copies.
LEMMA CopiesCounted ==
    ASSUME Inv, Today, MaxClock < Day
    PROVE  CopiesSay
<1> SUFFICES ASSUME NEW op \in Ops
             PROVE  /\ TheVerdict[op] \in {"none", "failed"} => TheCopies[op] = 0
                    /\ TheVerdict[op] = "sent" => TheCopies[op] = 1
  BY DEF CopiesSay
<1>1. TheCopies[op] = Cardinality(Accepted(op))
  BY DEF TheCopies, Accepted
<1>2. \A i \in Accepted(op) : op \in DOMAIN ops /\ i \in OfLife(op)
  <2> SUFFICES ASSUME NEW i \in Accepted(op)
               PROVE  op \in DOMAIN ops /\ i \in OfLife(op)
    OBVIOUS
  <2>1. i \in DOMAIN wire /\ wire[i].op = op /\ Possible(i)
    BY DEF Accepted, Possible
  <2>2. op \in DOMAIN ops /\ ops[op].started <= wire[i].at
    BY <2>1 DEF Today, ThisLife
  <2>3. ops[op].started \in Nat /\ wire[i].at \in Nat
    <3>1. ops[op] \in Row /\ wire[i] \in Request
      BY <2>1, <2>2 DEF Inv, TypeOK
    <3> QED BY <3>1 DEF Row, Request
  <2> QED BY <2>1, <2>2, <2>3 DEF OfLife
<1>3. CASE TheVerdict[op] \in {"none", "failed"}
  <2>1. op \in DOMAIN ops => \/ ops[op].state \in {"not_sent", "rejected"}
                             \/ ~ \E i \in OfLife(op) : wire[i].fate = "accepted"
    BY <1>3, VerdictMeans DEF Meant, States, Unfinished, History
  <2>2. ~(op \in DOMAIN ops /\ ~ \E i \in OfLife(op) : wire[i].fate = "accepted") => Accepted(op) = {}
    BY <2>1, TruthToday DEF Accepted, Possible
  <2>3. Accepted(op) = {}
    BY <1>2, <2>2 DEF Accepted
  <2> QED BY <1>1, <1>3, <2>3, FS_EmptySet
<1>4. CASE TheVerdict[op] = "sent"
  <2>1. op \in DOMAIN ops /\ \E i \in OfLife(op) : wire[i].fate = "accepted"
    <3>1. op \in DOMAIN ops /\ (\/ ops[op].state \in {"succeeded", "partial"}
                                \/ \E i \in OfLife(op) : wire[i].fate = "accepted")
      BY <1>4, VerdictMeans DEF Meant, States, Unfinished, History
    <3> QED BY <3>1 DEF Inv, LedgerTruth
  <2>2. \E i : i \in Accepted(op)
    BY <2>1 DEF OfLife, Accepted
  <2>3. \A i, j \in Accepted(op) : i = j
    BY TruthToday DEF Accepted, Possible
  <2>4. \E i : Accepted(op) = {i}
    BY <2>2, <2>3
  <2> QED BY <1>1, <1>4, <2>4, FS_Singleton
<1>5. CASE TheVerdict[op] \notin {"none", "failed", "sent"}
  BY <1>5
<1> QED BY <1>3, <1>4, <1>5

\* The same of the state after a step.
LEMMA CopiesCountedNext ==
    ASSUME MaxClock < Day
    PROVE  Inv' /\ Today' => CopiesSay'
<1>1. Inv /\ Today => CopiesSay
  BY CopiesCounted
<1> QED BY <1>1, PTL

\* A row's verdict moves along the promise's edges.
LEMMA VerdictMoves ==
    ASSUME Inv, Inv', Today, Today', MaxClock < Day, NEW op \in Ops, Goes(op),
           TheCopies'[op] = TheCopies[op]
    PROVE  \/ TheVerdict'[op] = TheVerdict[op]
           \/ TheVerdict[op] = "none" /\ TheVerdict'[op] = "pending"
           \/ TheVerdict[op] = "none" /\ TheVerdict'[op] = "failed" /\ TheCopies[op] = 0
           \/ TheVerdict[op] = "pending" /\ TheVerdict'[op] = "sent" /\ TheCopies[op] = 1
           \/ TheVerdict[op] = "pending" /\ TheVerdict'[op] \in {"failed", "none"} /\ TheCopies[op] = 0
           \/ TheVerdict[op] = "pending" /\ TheVerdict'[op] = "unknown"
           \/ TheVerdict[op] = "failed" /\ TheVerdict'[op] \in {"none", "pending"}
<1>1. /\ TheVerdict'[op] \in {"none", "failed"} => TheCopies'[op] = 0
      /\ TheVerdict'[op] = "sent" => TheCopies'[op] = 1
  BY CopiesCountedNext DEF CopiesSay
<1>2. /\ TheVerdict[op] \in {"none", "failed"} => TheCopies[op] = 0
      /\ TheVerdict[op] = "sent" => TheCopies[op] = 1
  BY CopiesCounted DEF CopiesSay
<1>3. TheVerdict[op] \in {"none", "pending", "sent", "failed", "unknown"}
  BY VerdictMeans DEF Meant
<1>4. Meant(op)'
  BY MeantNext
<1>5. CASE TheVerdict[op] = "none"
  <2>1. TheVerdict'[op] \notin {"sent", "unknown"}
    <3>1. op \notin DOMAIN ops
      BY <1>5, VerdictMeans DEF Meant
    <3>2. TheVerdict'[op] # "unknown"
      BY <1>4, <3>1 DEF Goes, Meant
    <3> QED BY <1>1, <1>2, <1>5, <3>2
  <2> QED BY <1>2, <1>4, <1>5, <2>1 DEF Meant
<1>6. CASE TheVerdict[op] = "pending"
  BY <1>1, <1>4, <1>6 DEF Meant
<1>7. CASE TheVerdict[op] \in {"sent", "failed"}
  <2>1. op \in DOMAIN ops /\ ops[op].state \in History \cup {"history_evicted"}
    BY <1>7, VerdictMeans DEF Meant, States, Unfinished
  <2>2. op \in DOMAIN ops' /\ ops'[op].state \in History \cup {"history_evicted"}
    BY <2>1 DEF Goes, History
  <2>3. TheVerdict'[op] \in {"sent", "failed"}
    BY <1>4, <2>2 DEF Meant, History
  <2> QED BY <1>1, <1>2, <1>7, <2>3
<1>8. CASE TheVerdict[op] = "unknown"
  <2>1. op \in DOMAIN ops /\ ops[op].state = "unknown"
    BY <1>8, VerdictMeans DEF Meant
  <2>2. op \in DOMAIN ops' /\ ops'[op].state = "unknown"
    BY <2>1 DEF Goes, History
  <2> QED BY <1>4, <1>8, <2>2 DEF Meant
<1> QED BY <1>3, <1>5, <1>6, <1>7, <1>8

LEMMA RequestOps == ASSUME Inv, NEW i \in DOMAIN wire PROVE wire[i].op \in Ops
<1>1. wire[i] \in Request
  BY DEF Inv, TypeOK
<1> QED BY <1>1 DEF Request

\* QQ's decision on request i.
LEMMA QQTakes ==
    ASSUME Inv, Today, MaxClock < Day, NEW i \in DOMAIN wire, QQActs(i)
    PROVE  \/ UNCHANGED <<TheVerdict, TheCopies>>
           \/ /\ TheVerdict[wire[i].op] \in {"pending", "unknown"} /\ TheCopies[wire[i].op] = 0
              /\ TheCopies' = [TheCopies EXCEPT ![wire[i].op] = 1]
              /\ UNCHANGED TheVerdict
<1>0. PICK op \in Ops : op = wire[i].op
  BY RequestOps
<1>1. PICK f \in {"accepted", "refused"} : wire' = [wire EXCEPT ![i].fate = f]
  BY DEF QQActs
<1>2. wire[i].fate = "open" /\ WireKept /\ wire'[i].fate = f /\ Possible(i) /\ ops' = ops
  BY <1>1, Decided DEF QQActs, Possible
<1>3. DOMAIN wire' = DOMAIN wire
      /\ \A k \in DOMAIN wire : /\ wire'[k].op = wire[k].op /\ wire'[k].at = wire[k].at
                                /\ k # i => wire'[k].fate = wire[k].fate
  BY <1>1, <1>2 DEF WireKept
<1>4. Accepted(op) = {}
  BY <1>0, <1>2, TruthToday DEF Accepted, Possible
<1>5. op \in DOMAIN ops /\ i \in OfLife(op)
  <2>1. op \in DOMAIN ops /\ ops[op].started <= wire[i].at
    BY <1>0, <1>2 DEF Today, ThisLife
  <2>2. ops[op].started \in Nat /\ wire[i].at \in Nat
    <3>1. ops[op] \in Row /\ wire[i] \in Request
      BY <2>1 DEF Inv, TypeOK
    <3> QED BY <3>1 DEF Row, Request
  <2> QED BY <1>0, <2>1, <2>2 DEF OfLife
<1>6. ops[op].state \in {"in_flight", "unknown"}
  <2>1. ops[op].state \notin {"not_sent", "rejected", "reserved"}
    BY <1>0, <1>2, TruthToday
  <2>2. \A k \in OfLife(op) : wire[k].fate # "accepted"
    BY <1>4 DEF OfLife, Accepted
  <2>3. ops[op].state \notin {"succeeded", "partial", "history_evicted"}
    BY <1>2, <1>5, <2>2 DEF Inv, LedgerTruth, EvictedSettled
  <2> QED BY <1>5, <2>1, <2>3, VerdictMeans DEF Meant, States, Unfinished, History
<1>7. \A x \in Ops : x # op => Accepted(x)' = Accepted(x)
  BY <1>0, <1>2, <1>3 DEF Accepted
<1>8. UNCHANGED TheVerdict
  <2>1. ASSUME NEW x \in Ops, x \in DOMAIN ops, ops[x].state = "history_evicted"
        PROVE  (\E k \in OfLife(x) : wire[k].fate = "accepted")
                  <=> \E k \in OfLife(x)' : wire'[k].fate = "accepted"
    <3>1. x # op
      BY <1>6, <2>1
    <3> QED BY <1>0, <1>2, <1>3, <3>1 DEF OfLife
  <2>2. ASSUME NEW x \in Ops PROVE TheVerdict'[x] = TheVerdict[x]
    BY <1>2, <2>1, <2>2 DEF TheVerdict
  <2>3. TheVerdict' = [x \in Ops |-> TheVerdict'[x]] /\ TheVerdict = [x \in Ops |-> TheVerdict[x]]
    BY DEF TheVerdict
  <2> QED BY <2>2, <2>3
<1>9. CASE f = "refused"
  <2>1. \A x \in Ops : Accepted(x)' = Accepted(x)
    BY <1>2, <1>3, <1>9 DEF Accepted
  <2>2. TheCopies' = TheCopies
    BY <2>1 DEF TheCopies, Accepted
  <2> QED BY <1>8, <2>2
<1>10. CASE f = "accepted"
  <2>1. Accepted(op)' = {i}
    BY <1>0, <1>2, <1>3, <1>4, <1>10 DEF Accepted
  <2>2. TheVerdict[op] \in {"pending", "unknown"}
    BY <1>5, <1>6, VerdictMeans DEF Meant
  <2>3. TheCopies[op] = 0 /\ TheCopies'[op] = 1
    <3>1. TheCopies[op] = Cardinality(Accepted(op)) /\ TheCopies'[op] = Cardinality(Accepted(op)')
      BY DEF TheCopies, Accepted
    <3> QED BY <1>4, <2>1, <3>1, FS_EmptySet, FS_Singleton
  <2>4. \A x \in Ops : x # op => TheCopies'[x] = TheCopies[x]
    BY <1>7 DEF TheCopies, Accepted
  <2>5. TheCopies' = [TheCopies EXCEPT ![op] = 1]
    <3>1. TheCopies' = [x \in Ops |-> TheCopies'[x]]
      BY DEF TheCopies
    <3>2. DOMAIN TheCopies = Ops
      BY DEF TheCopies
    <3>3. \A x \in Ops : TheCopies'[x] = IF x = op THEN 1 ELSE TheCopies[x]
      BY <2>3, <2>4
    <3>4. TheCopies' = [x \in Ops |-> IF x = op THEN 1 ELSE TheCopies[x]]
      BY <3>1, <3>3
    <3>5. [TheCopies EXCEPT ![op] = 1] = [x \in Ops |-> IF x = op THEN 1 ELSE TheCopies[x]]
      BY <3>2
    <3> QED BY <3>4, <3>5
  <2> QED BY <1>0, <1>8, <2>2, <2>3, <2>5
<1> QED BY <1>9, <1>10

\* A step of the ledger is a step of the promise, or none.
LEMMA StepPromised ==
    ASSUME Inv, Inv', Today, Today', MaxClock < Day, [Next]_vars
    PROVE  [Promise!Next]_<<TheVerdict, TheCopies>>
<1>1. CASE \E i \in DOMAIN wire : QQActs(i)
  <2>1. PICK i \in DOMAIN wire : QQActs(i)
    BY <1>1
  <2>2. wire[i].op \in Ops
    BY RequestOps
  <2> QED BY <2>1, <2>2, QQTakes DEF Promise!Next, Promise!Take, TheVerdict, TheCopies
<1>2. CASE ~ \E i \in DOMAIN wire : QQActs(i)
  <2>1. TheCopies' = TheCopies
    <3>1. \A op : Accepted(op)' = Accepted(op)
      BY <1>2, WireMoves
    <3> QED BY <3>1 DEF TheCopies, Accepted
  <2>2. TheVerdict' \in [Ops -> {"none", "pending", "sent", "failed", "unknown"}]
    <3>1. \A op \in Ops : TheVerdict'[op] \in {"none", "pending", "sent", "failed", "unknown"}
      BY MeantNext DEF Meant
    <3>2. TheVerdict' = [op \in Ops |-> TheVerdict'[op]]
      BY DEF TheVerdict
    <3> QED BY <3>1, <3>2
  <2>3. ASSUME NEW op \in Ops
        PROVE  Promise!May(op, TheVerdict'[op])
    <3>1. Goes(op) /\ TheCopies'[op] = TheCopies[op]
      BY <2>1, TodayNow, RowsGo
    <3> QED BY <3>1, VerdictMoves DEF Promise!May, TheVerdict, TheCopies
  <2>4. Promise!Report
    BY <2>1, <2>2, <2>3 DEF Promise!Report, TheVerdict, TheCopies
  <2> QED BY <2>4 DEF Promise!Next
<1> QED BY <1>1, <1>2

LEMMA InitPromised == Init => Promise!Init
<1> SUFFICES ASSUME Init PROVE Promise!Init
  OBVIOUS
<1>1. DOMAIN ops = {} /\ DOMAIN wire = {}
  BY DEF Init
<1>2. \A op \in Ops : Cardinality({i \in DOMAIN wire : wire[i].op = op /\ wire[i].fate = "accepted"}) = 0
  <2>1. \A op \in Ops : {i \in DOMAIN wire : wire[i].op = op /\ wire[i].fate = "accepted"} = {}
    BY <1>1
  <2> QED BY <2>1, FS_EmptySet
<1> QED BY <1>1, <1>2 DEF Promise!Init

\* The extension ledger keeps the promise of the sending ledger for writes that
\* are no message (ExtensionStore.begin, attempt, finish and prune): QQ takes
\* an id at most once, succeeded and not_sent are what QQ did, also of a row
\* that lost its result, and doubt stays doubt.  One hypothesis: history has
\* not come of age, after which a record may be forgotten and its id used again.
THEOREM PromiseKept == ASSUME MaxClock < Day
                       PROVE  Spec => KeepsPromise
<1>1. Init => Promise!Init
  BY InitPromised
<1>2. Init => Today
  BY LimitsAssumption DEF Init, Today, ThisLife
<1>3. Inv /\ Inv' /\ Today /\ Today' /\ [Next]_vars => [Promise!Next]_<<TheVerdict, TheCopies>>
  BY StepPromised
<1>4. Inv /\ Today /\ [Next]_vars => Today'
  BY TodayKept
<1>5. Inv /\ [Next]_vars => Inv'
  BY NextKeeps
<1> QED BY <1>1, <1>2, <1>3, <1>4, <1>5, InitInv, PTL
        DEF Spec, KeepsPromise, Promise!Spec, TheVerdict, TheCopies
=============================================================================
