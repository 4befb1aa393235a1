-------------------------- MODULE SendLedger_proofs --------------------------
(***************************************************************************)
(* What the message ledger promises, for every set of operations and        *)
(* sources, every capacity, window and retention.                           *)
(*                                                                         *)
(* The invariant has three layers: rows, sends and requests; sequences;     *)
(* sources.  Each is kept by every step given the ones before it.           *)
(***************************************************************************)
EXTENDS SendLedgerMC, FiniteSetTheorems, WellFoundedInduction, SequenceTheorems, TLAPS

\* The operations whose confirmations are readable.
Trusted == {op \in Ops : Lane[op] # "native" \/ ~BadReceipts}

-----------------------------------------------------------------------------
(* Rows, sends and requests.                                               *)

RowsTyped ==
    /\ clock \in Nat /\ water \in Nat
    /\ DOMAIN ops \subseteq Ops /\ ops \in [DOMAIN ops -> OpRow]
    /\ tasks \in [DOMAIN tasks -> TaskRow]
    /\ \A op \in DOMAIN tasks : op \in DOMAIN ops /\ ops[op].state \in {"reserved", "in_flight"}
    /\ \A op \in DOMAIN tasks : tasks[op].pc = "wire" =>
          tasks[op].req \in DOMAIN wire /\ wire[tasks[op].req].op = op
    /\ wire \in Seq(Request)

\* A task sends under its row's sequence, and one that quotes does so under a
\* sequence of its source.
TasksFit ==
    \A op \in DOMAIN tasks :
        /\ tasks[op].seq = ops[op].seq
        /\ tasks[op].mode = "passive" => Src[op] # NoSource /\ tasks[op].seq # 0

\* While a send is under way nothing else of its id may still reach QQ,
\* except what was sent more than a day before this life of the id began.
Guarded ==
    \A op \in DOMAIN tasks :
        /\ ops[op].started <= water
        /\ tasks[op].pc = "wire" => ops[op].started <= wire[tasks[op].req].at
        /\ op \in Trusted => \A i \in DOMAIN wire : wire[i].op = op /\ Possible(i) =>
              \/ tasks[op].pc = "wire" /\ tasks[op].req = i
              \/ wire[i].at + Day < ops[op].started

\* A request that may have reached QQ is more than a day old or its row is
\* still there, with the sequence it quoted its source under.
Lasting == {"in_flight", "unknown", "sent", "history_evicted"}
Kept(i) ==
    /\ wire[i].op \in DOMAIN ops
    /\ ops[wire[i].op].started <= wire[i].at /\ wire[i].at <= ops[wire[i].op].updated
    /\ ops[wire[i].op].state \in Lasting
    /\ wire[i].src # NoSource => wire[i].seq = ops[wire[i].op].seq
Remembered ==
    \A i \in DOMAIN wire :
        /\ wire[i].at <= water
        /\ wire[i].src # NoSource => wire[i].src = Src[wire[i].op] /\ wire[i].seq # 0
        /\ Possible(i) /\ wire[i].op \in Trusted => wire[i].at + Day < water \/ Kept(i)

OnceADay ==
    \A i, j \in DOMAIN wire :
        i < j /\ wire[i].op = wire[j].op /\ Possible(i) /\ Possible(j) /\ wire[i].op \in Trusted
            => wire[j].at > wire[i].at + Day

\* What a row in `state` since `started` claims of the requests of w.
Claims(w, state, op, started) ==
    /\ state \in {"sent", "history_evicted"} =>
          \E i \in DOMAIN w : w[i].op = op /\ w[i].at >= started /\ w[i].fate = "accepted"
    /\ state \in {"not_sent", "rejected", "reserved"} /\ op \in Trusted =>
          \A i \in DOMAIN w : w[i].op = op /\ w[i].at >= started
             => w[i].fate \notin {"open", "accepted"}
Honest == \A op \in DOMAIN ops : Claims(wire, ops[op].state, op, ops[op].started)

RowsInv == RowsTyped /\ TasksFit /\ Guarded /\ Remembered /\ OnceADay /\ Honest

-----------------------------------------------------------------------------
(* Sequences.                                                              *)

\* Sequences in use: those of the rows, and the claims that outlive them.
Holds(op) == ops[op].seq # 0 /\ ops[op].state # "not_sent"
Distinct ==
    /\ \A x, y \in DOMAIN ops : x # y /\ Holds(x) /\ Holds(y) /\ Src[x] = Src[y]
                                /\ Src[x] # NoSource => ops[x].seq # ops[y].seq
    /\ \A x \in DOMAIN KeptSeqs, y \in DOMAIN ops :
          x # y /\ Holds(y) /\ Src[x] = Src[y] => KeptSeqs[x] # ops[y].seq
    /\ \A x, y \in DOMAIN KeptSeqs : x # y /\ Src[x] = Src[y] => KeptSeqs[x] # KeptSeqs[y]
    /\ \A x \in DOMAIN seqs : seqs[x] # 0 /\ Src[x] # NoSource

SeqsTyped ==
    /\ DOMAIN seqs \subseteq Ops /\ seqs \in [DOMAIN seqs -> Nat]
    /\ DOMAIN bound \subseteq Ops /\ bound \in [DOMAIN bound -> Nat]
    /\ IsFiniteSet(DOMAIN ops) /\ IsFiniteSet(DOMAIN seqs)

\* SeqUnique, for requests whose outcome the ledger can know.
Unique ==
    \A i, j \in DOMAIN wire :
        /\ i < j /\ Possible(i) /\ Possible(j)
        /\ wire[i].op \in Trusted /\ wire[j].op \in Trusted
        /\ wire[i].src = wire[j].src /\ wire[i].src # NoSource
        /\ wire[j].at <= wire[i].at + Day
        => wire[i].seq # wire[j].seq

SeqsInv == SeqsTyped /\ Distinct /\ Unique

-----------------------------------------------------------------------------
(* Sources.                                                                *)

SourcesTyped ==
    /\ DOMAIN sources \subseteq Sources /\ sources \in [DOMAIN sources -> SourceRow]
    /\ held \subseteq Sources /\ storageFailed \in BOOLEAN /\ refusedSrc \subseteq Sources
    /\ born \in [Sources -> Nat \cup {-1}]

\* A source's window is that of its first observation; a quoting send keeps
\* its source; and a source QQ rejected stays blocked until its window ends.
SourcesTrue ==
    /\ \A s \in DOMAIN sources : born[s] >= 0 /\ sources[s].expires = born[s] + Window
    /\ \A op \in DOMAIN tasks : Lane[op] # "native" /\ tasks[op].mode = "passive"
          => Src[op] \in DOMAIN sources
    /\ \A s \in refusedSrc : born[s] >= 0 /\ \/ born[s] + Window <= water
                                             \/ s \in DOMAIN sources /\ sources[s].blocked # "no"

SourcesInv == SourcesTyped /\ SourcesTrue

Inv == RowsInv /\ SeqsInv /\ SourcesInv

-----------------------------------------------------------------------------
(* Retention.                                                              *)

\* The rows of p are those of o, less old and failed ones; a confirmed one
\* may have lost its result.
Ages(o, p) ==
    /\ DOMAIN p \subseteq DOMAIN o /\ p \in [DOMAIN p -> OpRow]
    /\ \A x \in DOMAIN p :
          /\ p[x].seq = o[x].seq /\ p[x].started = o[x].started /\ p[x].updated = o[x].updated
          /\ \/ p[x].state = o[x].state
             \/ o[x].state = "sent" /\ p[x].state = "history_evicted"
    /\ \A x \in DOMAIN o : o[x].state \in Unfinished => x \in DOMAIN p /\ p[x].state = o[x].state
    /\ \A x \in DOMAIN o \ DOMAIN p :
          o[x].updated + Day < Now \/ o[x].state \in {"not_sent", "rejected"}

\* A transaction's time never lies behind an earlier one's.
LEMMA NowIsTime ==
    ASSUME RowsTyped
    PROVE  Now \in Nat /\ water \in Nat /\ water <= Now /\ clock <= Now /\ Day \in Nat \ {0}
BY LimitsAssumption DEF RowsTyped, Now

\* Fields of a row.
LEMMA RowFields ==
    \A r \in OpRow : /\ r.state \in States /\ r.seq \in Nat /\ r.started \in Nat /\ r.updated \in Nat
BY DEF OpRow

\* Fields of a request.
LEMMA WireFields ==
    ASSUME RowsTyped
    PROVE  \A i \in DOMAIN wire : wire[i] \in Request /\ wire[i].op \in Ops
                                  /\ wire[i].fate \in Fates /\ wire[i].at \in Nat
<1>1. \A i \in DOMAIN wire : wire[i] \in Request
  BY DEF RowsTyped
<1>2. \A r \in Request : r.op \in Ops /\ r.fate \in Fates /\ r.at \in Nat
  BY DEF Request
<1> QED BY <1>1, <1>2

\* _trim_operation_history takes finished rows; a confirmed one leaves its id.
LEMMA Trimming ==
    ASSUME NEW o, o \in [DOMAIN o -> OpRow], NEW T, T \subseteq In(o, Terminal)
    PROVE  Ages(o, Trimmed(o, T))
<1> DEFINE p == Trimmed(o, T)
           E == {x \in T : o[x].state # "sent"}
<1>1. DOMAIN p = DOMAIN o \ E /\ \A x \in DOMAIN p :
        p[x] = IF x \in T THEN [o[x] EXCEPT !.state = "history_evicted"] ELSE o[x]
  BY DEF Trimmed
<1>2. \A x \in T : x \in DOMAIN o /\ o[x].state \in Terminal
  BY DEF In
<1>3. \A r \in OpRow : LET q == [r EXCEPT !.state = "history_evicted"]
                       IN  q \in OpRow /\ q.seq = r.seq /\ q.started = r.started
                           /\ q.updated = r.updated /\ q.state = "history_evicted"
  BY DEF OpRow, States
<1>4. p = [x \in DOMAIN p |-> p[x]]
  BY DEF Trimmed
<1> HIDE DEF p
<1>5. ASSUME NEW x \in DOMAIN p
      PROVE  /\ p[x] \in OpRow
             /\ p[x].seq = o[x].seq /\ p[x].started = o[x].started /\ p[x].updated = o[x].updated
             /\ \/ p[x] = o[x]
                \/ o[x].state = "sent" /\ p[x].state = "history_evicted"
  <2>1. x \in DOMAIN o /\ o[x] \in OpRow
    BY <1>1
  <2>2. CASE x \in T
    <3>1. o[x].state = "sent" /\ p[x] = [o[x] EXCEPT !.state = "history_evicted"]
      BY <1>1, <2>2
    <3> QED BY <1>3, <2>1, <3>1
  <2>3. CASE x \notin T
    BY <1>1, <2>1, <2>3
  <2> QED BY <2>2, <2>3
<1>6. \A x \in DOMAIN o : o[x].state \in Unfinished => x \in DOMAIN p /\ p[x].state = o[x].state
  BY <1>1, <1>2 DEF Unfinished, Terminal
<1>7. \A x \in DOMAIN o \ DOMAIN p : o[x].state \in {"not_sent", "rejected"}
  BY <1>1, <1>2 DEF Terminal
<1>8. p \in [DOMAIN p -> OpRow]
  BY <1>4, <1>5
<1>9. \A x \in DOMAIN p :
          /\ p[x].seq = o[x].seq /\ p[x].started = o[x].started /\ p[x].updated = o[x].updated
          /\ \/ p[x].state = o[x].state
             \/ o[x].state = "sent" /\ p[x].state = "history_evicted"
  BY <1>5
<1>10. DOMAIN p \subseteq DOMAIN o
  BY <1>1
<1>11. Ages(o, p)
  BY <1>6, <1>7, <1>8, <1>9, <1>10 DEF Ages
<1> QED BY <1>11 DEF p

\* _prune forgets what is finished and a day old.
LEMMA Aging ==
    ASSUME RowsTyped
    PROVE  Ages(ops, Aged)
<1>1. DOMAIN Aged = {x \in DOMAIN ops : ops[x].state \in Unfinished \/ ops[x].updated >= Now - Day}
      /\ (\A x \in DOMAIN Aged : Aged[x] = ops[x]) /\ Aged = [x \in DOMAIN Aged |-> Aged[x]]
  BY DEF Aged, Restriction
<1>2. \A x \in DOMAIN ops : ops[x] \in OpRow /\ ops[x].updated \in Nat
  BY RowFields DEF RowsTyped
<1> HIDE DEF Aged
<1>3. \A x \in DOMAIN ops \ DOMAIN Aged : ops[x].updated + Day < Now
  BY <1>1, <1>2, NowIsTime
<1> QED BY <1>1, <1>2, <1>3 DEF Ages

\* One retention rule after another.
LEMMA AgesTwice ==
    ASSUME NEW o, NEW p, NEW q, Ages(o, p), Ages(p, q)
    PROVE  Ages(o, q)
<1>1. \A x \in DOMAIN o \ DOMAIN q :
          o[x].updated + Day < Now \/ o[x].state \in {"not_sent", "rejected"}
  <2> SUFFICES ASSUME NEW x \in DOMAIN o \ DOMAIN q
               PROVE  o[x].updated + Day < Now \/ o[x].state \in {"not_sent", "rejected"}
    OBVIOUS
  <2>1. CASE x \in DOMAIN p
    BY <2>1 DEF Ages
  <2>2. CASE x \notin DOMAIN p
    BY <2>2 DEF Ages
  <2> QED BY <2>1, <2>2
<1>2. \A x \in DOMAIN q :
          /\ q[x].seq = o[x].seq /\ q[x].started = o[x].started /\ q[x].updated = o[x].updated
          /\ \/ q[x].state = o[x].state
             \/ o[x].state = "sent" /\ q[x].state = "history_evicted"
  BY DEF Ages
<1> QED BY <1>1, <1>2 DEF Ages

\* The prune every transaction starts with.
LEMMA Pruning ==
    ASSUME RowsTyped, NEW T \in Trims(Aged, {})
    PROVE  Ages(ops, Trimmed(Aged, T))
<1>1. Ages(ops, Aged)
  BY Aging
<1>2. T \subseteq In(Aged, Terminal)
  BY DEF Trims
<1>3. Aged \in [DOMAIN Aged -> OpRow]
  BY <1>1 DEF Ages
<1> HIDE DEF Aged
<1> QED BY <1>1, <1>2, <1>3, Trimming, AgesTwice

-----------------------------------------------------------------------------
(* Steps that end sends, or change nothing but the rows of ended ones.     *)

\* QQ may have decided on a request, and nothing else of the wire changed.
WireKept ==
    /\ wire' \in Seq(Request) /\ DOMAIN wire' = DOMAIN wire
    /\ \A i \in DOMAIN wire :
          /\ wire'[i].op = wire[i].op /\ wire'[i].at = wire[i].at
          /\ wire'[i].src = wire[i].src /\ wire'[i].seq = wire[i].seq
          /\ Possible(i)' => Possible(i)
          /\ wire[i].fate = "accepted" => wire'[i].fate = "accepted"

\* An untouched wire is kept.
LEMMA WireSame == RowsTyped /\ UNCHANGED wire => WireKept
BY DEF WireKept, RowsTyped, Possible

\* QQ's decision on one open request.
LEMMA Decided ==
    ASSUME RowsTyped, NEW k \in DOMAIN wire, wire[k].fate = "open",
           NEW f \in {"accepted", "refused"}, wire' = [wire EXCEPT ![k].fate = f]
    PROVE  WireKept /\ wire'[k].fate = f
<1> DEFINE r == [wire[k] EXCEPT !.fate = f]
<1>1. wire[k] \in Request /\ wire \in Seq(Request)
  BY DEF RowsTyped
<1>2. /\ r \in Request /\ r.op = wire[k].op /\ r.at = wire[k].at /\ r.src = wire[k].src
      /\ r.seq = wire[k].seq /\ r.fate = f
  BY <1>1 DEF Request, Fates
<1>3. wire' = [wire EXCEPT ![k] = r]
  OBVIOUS
<1> HIDE DEF r
<1>4. /\ wire' \in Seq(Request) /\ DOMAIN wire' = DOMAIN wire /\ wire'[k] = r
      /\ \A i \in DOMAIN wire : i # k => wire'[i] = wire[i]
  BY <1>1, <1>2, <1>3
<1>5. \A i \in DOMAIN wire :
          /\ wire'[i].op = wire[i].op /\ wire'[i].at = wire[i].at
          /\ wire'[i].src = wire[i].src /\ wire'[i].seq = wire[i].seq
          /\ wire'[i].fate = wire[i].fate \/ wire[i].fate = "open"
  BY <1>2, <1>4
<1> QED BY <1>2, <1>4, <1>5 DEF WireKept, Possible

\* No decision of QQ makes a borne out claim false.
LEMMA ClaimsKept ==
    ASSUME WireKept, NEW state, NEW op, NEW started, Claims(wire, state, op, started)
    PROVE  Claims(wire', state, op, started)
<1>1. \A i \in DOMAIN wire : wire'[i].fate \in {"open", "accepted"}
                                => wire[i].fate \in {"open", "accepted"}
  BY DEF WireKept, Possible
<1> QED BY <1>1 DEF WireKept, Claims

\* The tasks of K go on as they are, the others have ended.
TasksLeft(K) == tasks' \in [K -> TaskRow] /\ \A op \in K : tasks'[op] = tasks[op]

\* Some sends end.
LEMMA TasksRestricted ==
    ASSUME RowsTyped, NEW K \in SUBSET DOMAIN tasks, tasks' = Restriction(tasks, K)
    PROVE  TasksLeft(K)
BY DEF RowsTyped, Restriction, TasksLeft

\* No send ends.
LEMMA TasksSame == RowsTyped /\ UNCHANGED tasks => TasksLeft(DOMAIN tasks)
BY DEF RowsTyped, TasksLeft

\* All sends end.
LEMMA TasksGone == tasks' = << >> => TasksLeft({})
<1>1. << >> \in Seq(TaskRow) /\ DOMAIN << >> = {}
  BY EmptySeq
<1> QED BY <1>1 DEF TasksLeft

\* The row of an operation has ended as o says, and the requests bear it out.
EndsAs(o, op) ==
    /\ o[op].started = ops[op].started /\ o[op].seq = ops[op].seq
    /\ o[op].updated = Now \/ o[op].updated = ops[op].updated
    /\ Claims(wire', o[op].state, op, ops[op].started)
    /\ ops[op].state # "not_sent"
    /\ op \in Trusted => \A i \in DOMAIN wire :
          wire[i].op = op /\ Possible(i)' => o[op].state \in Lasting \/ wire[i].at + Day < water'

\* The rows go over into ops' by endings and retention.
Closes(o, K) ==
    /\ o \in [DOMAIN ops -> OpRow] /\ K \subseteq DOMAIN tasks /\ TasksLeft(K) /\ WireKept
    /\ \A op \in DOMAIN ops : o[op] = ops[op] \/ (op \notin K /\ EndsAs(o, op))
    /\ ops' = o \/ (Ages(o, ops') /\ water' = Now)
    /\ water' \in Nat /\ water <= water' /\ clock' \in Nat

\* Rows whose send has ended may take any claim that is borne out, and grow
\* old; rows, sends and requests stay as sound as they were.
LEMMA Closing ==
    ASSUME RowsInv, NEW o, NEW K, Closes(o, K)
    PROVE  RowsInv'
<1>0. /\ \A op \in DOMAIN ops : ops[op] \in OpRow /\ o[op] \in OpRow
      /\ \A op \in DOMAIN tasks : tasks[op] \in TaskRow
      /\ Now \in Nat /\ water \in Nat /\ water <= Now /\ Day \in Nat \ {0}
      /\ water' \in Nat /\ water <= water'
      /\ \A i \in DOMAIN wire : wire[i] \in Request
      /\ K \subseteq DOMAIN tasks
  BY NowIsTime DEF RowsInv, RowsTyped, Closes
<1>1. /\ DOMAIN ops' \subseteq DOMAIN ops /\ ops' \in [DOMAIN ops' -> OpRow]
      /\ \A op \in DOMAIN ops' :
            /\ ops'[op].seq = o[op].seq /\ ops'[op].started = o[op].started
            /\ ops'[op].updated = o[op].updated
            /\ \/ ops'[op].state = o[op].state
               \/ o[op].state = "sent" /\ ops'[op].state = "history_evicted"
      /\ \A op \in DOMAIN ops : o[op].state \in Unfinished
            => op \in DOMAIN ops' /\ ops'[op].state = o[op].state
      /\ \A op \in DOMAIN ops \ DOMAIN ops' :
            o[op].updated + Day < water' \/ o[op].state \in {"not_sent", "rejected"}
  <2>1. CASE ops' = o
    BY <2>1 DEF Closes
  <2>2. CASE Ages(o, ops') /\ water' = Now
    BY <2>2 DEF Ages, Closes
  <2> QED BY <2>1, <2>2 DEF Closes
<1>2. /\ DOMAIN tasks' = K /\ tasks' \in [K -> TaskRow]
      /\ \A op \in K : tasks'[op] = tasks[op]
  BY DEF TasksLeft, Closes
<1>3. \A op \in K : /\ op \in DOMAIN ops /\ ops[op].state \in {"reserved", "in_flight"}
                    /\ o[op] = ops[op]
  BY DEF RowsInv, RowsTyped, Closes
<1>4. \A op \in K : /\ op \in DOMAIN ops' /\ ops'[op].seq = ops[op].seq
                    /\ ops'[op].state = ops[op].state /\ ops'[op].started = ops[op].started
  BY <1>1, <1>3 DEF Unfinished
<1>5. /\ \A i \in DOMAIN wire : /\ wire'[i].op = wire[i].op /\ wire'[i].at = wire[i].at
                                /\ wire'[i].src = wire[i].src /\ wire'[i].seq = wire[i].seq
                                /\ Possible(i)' => Possible(i)
      /\ DOMAIN wire' = DOMAIN wire /\ wire' \in Seq(Request)
  BY DEF Closes, WireKept
<1>6. RowsTyped'
  <2>1. DOMAIN ops' \subseteq Ops /\ clock' \in Nat
    BY <1>1 DEF RowsInv, RowsTyped, Closes
  <2>2. \A op \in DOMAIN tasks' :
           /\ op \in DOMAIN ops' /\ ops'[op].state \in {"reserved", "in_flight"}
           /\ tasks'[op].pc = "wire" =>
                 tasks'[op].req \in DOMAIN wire' /\ wire'[tasks'[op].req].op = op
    BY <1>0, <1>2, <1>3, <1>4, <1>5 DEF RowsInv, RowsTyped
  <2>3. tasks' \in [DOMAIN tasks' -> TaskRow] /\ ops' \in [DOMAIN ops' -> OpRow]
    BY <1>1, <1>2
  <2> QED BY <1>0, <1>5, <2>1, <2>2, <2>3 DEF RowsTyped
<1>7. TasksFit'
  BY <1>0, <1>2, <1>4 DEF RowsInv, TasksFit
<1>8. Guarded'
  <2> SUFFICES ASSUME NEW op \in K
               PROVE  /\ ops'[op].started <= water'
                      /\ tasks'[op].pc = "wire" => ops'[op].started <= wire'[tasks'[op].req].at
                      /\ op \in Trusted => \A i \in DOMAIN wire' : wire'[i].op = op /\ Possible(i)' =>
                            \/ tasks'[op].pc = "wire" /\ tasks'[op].req = i
                            \/ wire'[i].at + Day < ops'[op].started
    BY <1>2 DEF Guarded
  <2>1. ops[op].started \in Nat /\ op \in DOMAIN tasks
    BY <1>0, <1>3, RowFields
  <2>2. ops'[op].started = ops[op].started /\ tasks'[op] = tasks[op]
    BY <1>2, <1>4
  <2>3. ops[op].started <= water
    BY <2>1 DEF RowsInv, Guarded
  <2>4. ops'[op].started <= water'
    BY <1>0, <2>1, <2>2, <2>3
  <2>5. tasks[op].pc = "wire" => ops[op].started <= wire'[tasks[op].req].at
    BY <1>5, <2>1 DEF RowsInv, Guarded, RowsTyped
  <2>6. op \in Trusted => \A i \in DOMAIN wire' : wire'[i].op = op /\ Possible(i)' =>
           \/ tasks[op].pc = "wire" /\ tasks[op].req = i
           \/ wire'[i].at + Day < ops[op].started
    BY <1>5, <2>1 DEF RowsInv, Guarded, Possible
  <2> QED BY <2>2, <2>4, <2>5, <2>6
<1>9. Remembered'
  <2> SUFFICES ASSUME NEW i \in DOMAIN wire
               PROVE  /\ wire'[i].at <= water'
                      /\ wire'[i].src # NoSource =>
                            wire'[i].src = Src[wire'[i].op] /\ wire'[i].seq # 0
                      /\ Possible(i)' /\ wire'[i].op \in Trusted
                            => wire'[i].at + Day < water' \/ Kept(i)'
    BY <1>5 DEF Remembered, Possible
  <2> DEFINE x == wire[i].op
  <2>1. wire[i].at \in Nat /\ wire[i].at <= water
    BY <1>0 DEF RowsInv, Remembered, Request
  <2>2. wire'[i].at <= water' /\ (wire'[i].src # NoSource =>
                            wire'[i].src = Src[wire'[i].op] /\ wire'[i].seq # 0)
    BY <1>0, <1>5, <2>1 DEF RowsInv, Remembered
  <2>3. ASSUME Possible(i)', x \in Trusted
        PROVE  wire[i].at + Day < water' \/ Kept(i)'
    <3>1. CASE wire[i].at + Day < water
      BY <1>0, <2>1, <3>1
    <3>2. CASE Kept(i)
      <4>1. /\ x \in DOMAIN ops /\ ops[x].started <= wire[i].at /\ wire[i].at <= ops[x].updated
            /\ ops[x].state \in Lasting
            /\ wire[i].src # NoSource => wire[i].seq = ops[x].seq
        BY <3>2 DEF Kept
      <4>2. /\ o[x].started = ops[x].started /\ o[x].seq = ops[x].seq
            /\ o[x].updated = Now \/ o[x].updated = ops[x].updated
            /\ o[x].state \in Lasting \/ wire[i].at + Day < water'
        BY <2>3, <4>1 DEF Closes, EndsAs
      <4>3. wire[i].at <= o[x].updated /\ o[x].updated \in Nat
        BY <1>0, <2>1, <4>1, <4>2, RowFields
      <4>4. CASE x \notin DOMAIN ops'
        <5>1. o[x].updated + Day < water' \/ o[x].state \in {"not_sent", "rejected"}
          BY <1>1, <4>1, <4>4
        <5> QED BY <1>0, <2>1, <4>2, <4>3, <5>1 DEF Lasting
      <4>5. CASE x \in DOMAIN ops' /\ o[x].state \in Lasting
        <5>1. ops'[x].state \in Lasting
          BY <1>1, <4>5 DEF Lasting
        <5> QED BY <1>1, <1>5, <4>1, <4>2, <4>3, <4>5, <5>1 DEF Kept
      <4> QED BY <4>2, <4>4, <4>5
    <3> QED BY <1>5, <2>3, <3>1, <3>2 DEF RowsInv, Remembered
  <2> QED BY <1>5, <2>2, <2>3
<1>10. Honest'
  <2> SUFFICES ASSUME NEW op \in DOMAIN ops'
               PROVE  Claims(wire', ops'[op].state, op, ops'[op].started)
    BY DEF Honest
  <2>1. op \in DOMAIN ops
    BY <1>1
  <2>2. Claims(wire', o[op].state, op, ops[op].started) /\ o[op].started = ops[op].started
    <3>1. CASE o[op] = ops[op]
      <4>1. Claims(wire, ops[op].state, op, ops[op].started)
        BY <2>1 DEF RowsInv, Honest
      <4> QED BY <3>1, <4>1, ClaimsKept DEF Closes
    <3>2. CASE EndsAs(o, op)
      BY <3>2 DEF EndsAs
    <3> QED BY <2>1, <3>1, <3>2 DEF Closes
  <2>3. ops'[op].started = ops[op].started
    BY <1>1, <2>2
  <2>4. CASE ops'[op].state = o[op].state
    BY <2>2, <2>3, <2>4
  <2>5. CASE o[op].state = "sent" /\ ops'[op].state = "history_evicted"
    BY <2>2, <2>3, <2>5 DEF Claims
  <2> QED BY <1>1, <2>4, <2>5
<1>11. OnceADay'
  BY <1>5 DEF RowsInv, OnceADay, Possible
<1> QED BY <1>6, <1>7, <1>8, <1>9, <1>10, <1>11 DEF RowsInv

-----------------------------------------------------------------------------
(* A send begins.                                                          *)

\* A row and a task for op appear, the row in what retention left of the rows, o.
Starts(op, o, mode, n) ==
    /\ Ages(ops, o) /\ op \notin DOMAIN o
    /\ ops' = Extend(o, op, [state |-> "reserved", seq |-> n, started |-> Now, updated |-> Now])
    /\ op \notin DOMAIN tasks
    /\ \E t \in TaskRow : /\ t.pc = "ready" /\ t.mode = mode /\ t.seq = n
                          /\ tasks' = Extend(tasks, op, t)
    /\ n \in Nat
    /\ mode = "passive" => Src[op] # NoSource /\ n # 0
    /\ water' = Now /\ UNCHANGED <<clock, wire>>

\* Once its row is gone, all that may still count of an id is a day old.
LEMMA StartKeeps ==
    ASSUME RowsInv, NEW op \in Ops, NEW o, NEW mode, NEW n, Starts(op, o, mode, n)
    PROVE  RowsInv'
<1> DEFINE row == [state |-> "reserved", seq |-> n, started |-> Now, updated |-> Now]
<1>0. /\ \A x \in DOMAIN ops : ops[x] \in OpRow
      /\ \A x \in DOMAIN tasks : tasks[x] \in TaskRow
      /\ Now \in Nat /\ water \in Nat /\ water <= Now /\ Day \in Nat \ {0}
      /\ \A i \in DOMAIN wire : wire[i] \in Request /\ wire[i].at \in Nat
      /\ n \in Nat
  <2>1. \A i \in DOMAIN wire : wire[i] \in Request /\ wire[i].at \in Nat
    BY WireFields DEF RowsInv
  <2> QED BY <2>1, NowIsTime DEF RowsInv, RowsTyped, Starts
<1>1. water' = Now /\ UNCHANGED <<clock, wire>>
  BY DEF Starts
<1>2. Ages(ops, o) /\ op \notin DOMAIN o /\ ops' = Extend(o, op, row)
  BY DEF Starts
<1>3. PICK t \in TaskRow : t.pc = "ready" /\ t.mode = mode /\ t.seq = n
                           /\ tasks' = Extend(tasks, op, t)
  BY DEF Starts
<1>4. op \notin DOMAIN tasks /\ (mode = "passive" => Src[op] # NoSource /\ n # 0)
  BY DEF Starts
<1>5. /\ row \in OpRow /\ row.started = Now /\ row.updated = Now /\ row.state = "reserved"
      /\ row.seq = n
  BY <1>0 DEF OpRow, States, Unfinished
<1> HIDE DEF row
<1>6. /\ DOMAIN ops' = DOMAIN o \cup {op} /\ ops' \in [DOMAIN ops' -> OpRow] /\ ops'[op] = row
      /\ \A x \in DOMAIN o : ops'[x] = o[x] /\ x # op
  BY <1>2, <1>5 DEF Extend, Ages
<1>7. /\ DOMAIN tasks' = DOMAIN tasks \cup {op} /\ tasks'[op] = t
      /\ \A x \in DOMAIN tasks : tasks'[x] = tasks[x] /\ x # op
      /\ tasks' \in [DOMAIN tasks' -> TaskRow]
  BY <1>0, <1>3, <1>4 DEF Extend
<1>8. \A x \in DOMAIN tasks : /\ x \in DOMAIN ops /\ x \in DOMAIN o /\ o[x].state = ops[x].state
                              /\ o[x].started = ops[x].started /\ o[x].seq = ops[x].seq
  BY <1>2 DEF RowsInv, RowsTyped, Ages, Unfinished
<1>9. ASSUME NEW i \in DOMAIN wire, Possible(i), wire[i].op = op, op \in Trusted
      PROVE  wire[i].at + Day < Now
  <2>1. CASE wire[i].at + Day < water
    BY <1>0, <2>1
  <2>2. CASE Kept(i)
    <3>1. op \in DOMAIN ops /\ wire[i].at <= ops[op].updated /\ ops[op].state \in Lasting
      BY <1>9, <2>2 DEF Kept
    <3>2. ops[op].updated + Day < Now
      BY <1>2, <3>1 DEF Ages, Lasting
    <3> QED BY <1>0, <3>1, <3>2, RowFields
  <2> QED BY <1>9, <2>1, <2>2 DEF RowsInv, Remembered
<1>10. RowsTyped'
  <2>1. DOMAIN ops' \subseteq Ops
    BY <1>2, <1>6 DEF RowsInv, RowsTyped, Ages
  <2>2. \A x \in DOMAIN tasks' :
           /\ x \in DOMAIN ops' /\ ops'[x].state \in {"reserved", "in_flight"}
           /\ tasks'[x].pc = "wire" => tasks'[x].req \in DOMAIN wire' /\ wire'[tasks'[x].req].op = x
    BY <1>1, <1>3, <1>5, <1>6, <1>7, <1>8 DEF RowsInv, RowsTyped
  <2>3. clock' \in Nat /\ water' \in Nat /\ wire' \in Seq(Request)
    BY <1>0, <1>1 DEF RowsInv, RowsTyped
  <2> QED BY <1>6, <1>7, <2>1, <2>2, <2>3 DEF RowsTyped
<1>11. TasksFit'
  <2> SUFFICES ASSUME NEW x \in DOMAIN tasks'
               PROVE  /\ tasks'[x].seq = ops'[x].seq
                      /\ tasks'[x].mode = "passive" => Src[x] # NoSource /\ tasks'[x].seq # 0
    BY DEF TasksFit
  <2>1. CASE x = op
    BY <1>3, <1>4, <1>5, <1>6, <1>7, <2>1
  <2>2. CASE x # op
    BY <1>6, <1>7, <1>8, <2>2 DEF RowsInv, TasksFit
  <2> QED BY <2>1, <2>2
<1>12. Guarded'
  <2> SUFFICES ASSUME NEW x \in DOMAIN tasks'
               PROVE  /\ ops'[x].started <= water'
                      /\ tasks'[x].pc = "wire" => ops'[x].started <= wire'[tasks'[x].req].at
                      /\ x \in Trusted => \A i \in DOMAIN wire' : wire'[i].op = x /\ Possible(i)' =>
                            \/ tasks'[x].pc = "wire" /\ tasks'[x].req = i
                            \/ wire'[i].at + Day < ops'[x].started
    BY DEF Guarded
  <2>1. CASE x = op
    <3>1. ops'[op].started = Now /\ tasks'[op].pc = "ready"
      BY <1>3, <1>5, <1>6, <1>7
    <3>2. op \in Trusted => \A i \in DOMAIN wire : wire[i].op = op /\ Possible(i)'
                               => wire[i].at + Day < Now
      BY <1>1, <1>9 DEF Possible
    <3> QED BY <1>0, <1>1, <2>1, <3>1, <3>2
  <2>2. CASE x # op
    <3>1. x \in DOMAIN tasks /\ tasks'[x] = tasks[x] /\ ops'[x].started = ops[x].started
      BY <1>6, <1>7, <1>8, <2>2
    <3>2. ops[x].started \in Nat /\ ops[x].started <= water
      BY <1>0, <1>8, <3>1, RowFields DEF RowsInv, Guarded
    <3> QED BY <1>0, <1>1, <3>1, <3>2 DEF RowsInv, Guarded, Possible
  <2> QED BY <2>1, <2>2
<1>13. Remembered'
  <2> SUFFICES ASSUME NEW i \in DOMAIN wire
               PROVE  /\ wire[i].at <= Now
                      /\ wire[i].src # NoSource => wire[i].src = Src[wire[i].op] /\ wire[i].seq # 0
                      /\ Possible(i) /\ wire[i].op \in Trusted
                            => wire[i].at + Day < Now \/ Kept(i)'
    BY <1>1 DEF Remembered, Possible
  <2>1. wire[i].at <= Now /\ (wire[i].src # NoSource => wire[i].src = Src[wire[i].op] /\ wire[i].seq # 0)
    BY <1>0 DEF RowsInv, Remembered
  <2>2. ASSUME Possible(i), wire[i].op \in Trusted
        PROVE  wire[i].at + Day < Now \/ Kept(i)'
    <3> DEFINE x == wire[i].op
    <3>1. CASE x = op
      BY <1>9, <2>2, <3>1
    <3>2. CASE wire[i].at + Day < water
      BY <1>0, <3>2
    <3>3. CASE x # op /\ Kept(i)
      <4>1. /\ x \in DOMAIN ops /\ ops[x].started <= wire[i].at /\ wire[i].at <= ops[x].updated
            /\ ops[x].state \in Lasting /\ (wire[i].src # NoSource => wire[i].seq = ops[x].seq)
        BY <3>3 DEF Kept
      <4>2. ops[x].updated \in Nat
        BY <1>0, <4>1, RowFields
      <4>3. CASE x \in DOMAIN o
        <5>1. /\ o[x].started = ops[x].started /\ o[x].updated = ops[x].updated
              /\ o[x].seq = ops[x].seq /\ o[x].state \in Lasting
          BY <1>2, <4>1, <4>3 DEF Ages, Lasting
        <5> QED BY <1>1, <1>6, <4>1, <4>3, <5>1 DEF Kept
      <4>4. CASE x \notin DOMAIN o
        <5>1. ops[x].updated + Day < Now
          BY <1>2, <4>1, <4>4 DEF Ages, Lasting
        <5> QED BY <1>0, <4>1, <4>2, <5>1
      <4> QED BY <4>3, <4>4
    <3> QED BY <2>2, <3>1, <3>2, <3>3 DEF RowsInv, Remembered
  <2> QED BY <2>1, <2>2
<1>14. Honest'
  <2> SUFFICES ASSUME NEW x \in DOMAIN ops'
               PROVE  Claims(wire, ops'[x].state, x, ops'[x].started)
    BY <1>1 DEF Honest
  <2>1. CASE x = op
    <3>1. ops'[op].started = Now /\ ops'[op].state = "reserved"
      BY <1>5, <1>6
    <3>2. op \in Trusted => \A i \in DOMAIN wire : wire[i].op = op /\ wire[i].at >= Now
                               => wire[i].fate \notin {"open", "accepted"}
      BY <1>0, <1>9 DEF Possible
    <3> QED BY <2>1, <3>1, <3>2 DEF Claims
  <2>2. CASE x # op
    <3>1. /\ x \in DOMAIN ops /\ ops'[x].started = ops[x].started
          /\ \/ ops'[x].state = ops[x].state
             \/ ops[x].state = "sent" /\ ops'[x].state = "history_evicted"
      BY <1>2, <1>6, <2>2 DEF Ages
    <3>2. Claims(wire, ops[x].state, x, ops[x].started)
      BY <3>1 DEF RowsInv, Honest
    <3>3. CASE ops'[x].state = ops[x].state
      BY <3>1, <3>2, <3>3
    <3>4. CASE ops[x].state = "sent" /\ ops'[x].state = "history_evicted"
      BY <3>1, <3>2, <3>4 DEF Claims
    <3> QED BY <3>1, <3>3, <3>4
  <2> QED BY <2>1, <2>2
<1>15. OnceADay'
  BY <1>1 DEF RowsInv, OnceADay, Possible
<1> QED BY <1>10, <1>11, <1>12, <1>13, <1>14, <1>15 DEF RowsInv

-----------------------------------------------------------------------------
(* A send goes on: it changes its mode, answers a 401, or makes a request. *)

\* While a send waits for no request that may have arrived, none of its life
\* may still reach QQ.
LEMMA NothingUnderWay ==
    ASSUME RowsInv, NEW op \in DOMAIN tasks, NEW i \in DOMAIN wire, wire[i].op = op, Possible(i),
           op \in Trusted, tasks[op].pc = "wire" => tasks[op].req # i
    PROVE  wire[i].at + Day < ops[op].started /\ ~(wire[i].at >= ops[op].started)
<1>1. wire[i].at + Day < ops[op].started
  BY DEF RowsInv, Guarded
<1>2. wire[i].at \in Nat /\ ops[op].started \in Nat /\ Day \in Nat
  <2>1. ops[op] \in OpRow
    BY DEF RowsInv, RowsTyped
  <2> QED BY <2>1, RowFields, WireFields, LimitsAssumption DEF RowsInv
<1> QED BY <1>1, <1>2

\* The row and the task of op change; it waits for no request.
Turns(op, r, t) ==
    /\ op \in DOMAIN tasks
    /\ tasks[op].pc = "wire" => wire[tasks[op].req].fate = "refused"
    /\ r \in OpRow /\ r.state \in {"reserved", "in_flight"}
    /\ r.started = ops[op].started
    /\ r.updated = Now \/ r.updated = ops[op].updated
    /\ t \in TaskRow /\ t.pc # "wire" /\ t.seq = r.seq
    /\ t.mode = "passive" => Src[op] # NoSource /\ t.seq # 0
    /\ ops' = [ops EXCEPT ![op] = r] /\ tasks' = [tasks EXCEPT ![op] = t]
    /\ water' = Now \/ water' = water
    /\ UNCHANGED <<clock, wire>>

\* No request of the current life counts, so the row may start over.
LEMMA TurnKeeps ==
    ASSUME RowsInv, NEW op, NEW r, NEW t, Turns(op, r, t)
    PROVE  RowsInv'
<1>0. /\ \A x \in DOMAIN ops : ops[x] \in OpRow
      /\ \A x \in DOMAIN tasks : tasks[x] \in TaskRow
      /\ Now \in Nat /\ water \in Nat /\ water <= Now /\ Day \in Nat \ {0}
      /\ \A i \in DOMAIN wire : wire[i] \in Request /\ wire[i].at \in Nat
      /\ water' \in Nat /\ water <= water'
      /\ op \in DOMAIN tasks /\ op \in DOMAIN ops
  <2>1. \A i \in DOMAIN wire : wire[i] \in Request /\ wire[i].at \in Nat
    BY WireFields DEF RowsInv
  <2>2. op \in DOMAIN tasks /\ op \in DOMAIN ops
    BY DEF RowsInv, RowsTyped, Turns
  <2>3. water' = Now \/ water' = water
    BY DEF Turns
  <2> QED BY <2>1, <2>2, <2>3, NowIsTime DEF RowsInv, RowsTyped
<1>1. UNCHANGED <<clock, wire>>
  BY DEF Turns
<1>2. /\ DOMAIN ops' = DOMAIN ops /\ ops'[op] = r /\ \A x \in DOMAIN ops : x # op => ops'[x] = ops[x]
      /\ ops' \in [DOMAIN ops' -> OpRow]
  BY <1>0 DEF Turns, RowsInv, RowsTyped
<1>3. /\ DOMAIN tasks' = DOMAIN tasks /\ tasks'[op] = t
      /\ \A x \in DOMAIN tasks : x # op => tasks'[x] = tasks[x]
      /\ tasks' \in [DOMAIN tasks' -> TaskRow]
  BY <1>0 DEF Turns, RowsInv, RowsTyped
<1>4. /\ r.state \in {"reserved", "in_flight"} /\ r.started = ops[op].started
      /\ t.pc # "wire" /\ t.seq = r.seq /\ (t.mode = "passive" => Src[op] # NoSource /\ t.seq # 0)
  BY DEF Turns
<1>5. ASSUME NEW i \in DOMAIN wire, wire[i].op = op, Possible(i), op \in Trusted
      PROVE  wire[i].at + Day < ops[op].started /\ ~(wire[i].at >= ops[op].started)
  <2>1. tasks[op].pc = "wire" => tasks[op].req # i
    BY <1>5 DEF Turns, Possible
  <2> QED BY <1>0, <1>5, <2>1, NothingUnderWay
<1>6. RowsTyped'
  <2>1. \A x \in DOMAIN tasks' :
           /\ x \in DOMAIN ops' /\ ops'[x].state \in {"reserved", "in_flight"}
           /\ tasks'[x].pc = "wire" => tasks'[x].req \in DOMAIN wire' /\ wire'[tasks'[x].req].op = x
    BY <1>1, <1>2, <1>3, <1>4 DEF RowsInv, RowsTyped
  <2>2. DOMAIN ops' \subseteq Ops /\ clock' \in Nat /\ wire' \in Seq(Request)
    BY <1>1, <1>2 DEF RowsInv, RowsTyped
  <2> QED BY <1>0, <1>2, <1>3, <2>1, <2>2 DEF RowsTyped
<1>7. TasksFit'
  BY <1>2, <1>3, <1>4 DEF RowsInv, RowsTyped, TasksFit
<1>8. Guarded'
  <2> SUFFICES ASSUME NEW x \in DOMAIN tasks
               PROVE  /\ ops'[x].started <= water'
                      /\ tasks'[x].pc = "wire" => ops'[x].started <= wire[tasks'[x].req].at
                      /\ x \in Trusted => \A i \in DOMAIN wire : wire[i].op = x /\ Possible(i) =>
                            \/ tasks'[x].pc = "wire" /\ tasks'[x].req = i
                            \/ wire[i].at + Day < ops'[x].started
    BY <1>1, <1>3 DEF Guarded, Possible
  <2>1. /\ x \in DOMAIN ops /\ ops[x].started \in Nat /\ ops[x].started <= water
        /\ ops'[x].started = ops[x].started
    BY <1>0, <1>2, <1>4, RowFields DEF RowsInv, RowsTyped, Guarded
  <2>2. ops'[x].started <= water'
    BY <1>0, <2>1
  <2>3. CASE x = op
    BY <1>3, <1>4, <1>5, <2>1, <2>2, <2>3
  <2>4. CASE x # op
    BY <1>3, <2>1, <2>2, <2>4 DEF RowsInv, Guarded
  <2> QED BY <2>3, <2>4
<1>9. Remembered'
  <2> SUFFICES ASSUME NEW i \in DOMAIN wire
               PROVE  /\ wire[i].at <= water'
                      /\ wire[i].src # NoSource => wire[i].src = Src[wire[i].op] /\ wire[i].seq # 0
                      /\ Possible(i) /\ wire[i].op \in Trusted
                            => wire[i].at + Day < water' \/ Kept(i)'
    BY <1>1 DEF Remembered, Possible
  <2>1. /\ wire[i].at <= water'
        /\ wire[i].src # NoSource => wire[i].src = Src[wire[i].op] /\ wire[i].seq # 0
    BY <1>0 DEF RowsInv, Remembered
  <2>2. ASSUME Possible(i), wire[i].op \in Trusted
        PROVE  wire[i].at + Day < water' \/ Kept(i)'
    <3>1. CASE wire[i].op = op
      <4>1. wire[i].at + Day < ops[op].started
        BY <1>5, <2>2, <3>1
      <4>2. ops[op].started \in Nat /\ ops[op].started <= water
        BY <1>0, RowFields DEF RowsInv, Guarded
      <4> QED BY <1>0, <4>1, <4>2
    <3>2. CASE wire[i].at + Day < water
      BY <1>0, <3>2
    <3>3. CASE wire[i].op # op /\ Kept(i)
      BY <1>1, <1>2, <3>3 DEF Kept
    <3> QED BY <2>2, <3>1, <3>2, <3>3 DEF RowsInv, Remembered
  <2> QED BY <2>1, <2>2
<1>10. Honest'
  <2> SUFFICES ASSUME NEW x \in DOMAIN ops
               PROVE  Claims(wire, ops'[x].state, x, ops'[x].started)
    BY <1>1, <1>2 DEF Honest
  <2>1. CASE x = op
    <3>1. op \in Trusted => \A i \in DOMAIN wire : wire[i].op = op /\ wire[i].at >= ops[op].started
                               => wire[i].fate \notin {"open", "accepted"}
      BY <1>5 DEF Possible
    <3> QED BY <1>2, <1>4, <2>1, <3>1 DEF Claims
  <2>2. CASE x # op
    BY <1>2, <2>2 DEF RowsInv, Honest
  <2> QED BY <2>1, <2>2
<1>11. OnceADay'
  BY <1>1 DEF RowsInv, OnceADay, Possible
<1> QED BY <1>6, <1>7, <1>8, <1>9, <1>10, <1>11 DEF RowsInv

\* A request is made while none of its life may still reach QQ.
LEMMA SubmitKeeps ==
    ASSUME RowsInv, NEW op \in Ops, Submit(op)
    PROVE  RowsInv'
<1> DEFINE n == Len(wire) + 1
           q == [op |-> op, src |-> Quoted(op), seq |-> tasks[op].seq, fate |-> "open", at |-> Now]
           r == [ops[op] EXCEPT !.state = "in_flight", !.updated = Now]
           t == [tasks[op] EXCEPT !.pc = "wire", !.req = n]
<1>0. /\ \A x \in DOMAIN ops : ops[x] \in OpRow
      /\ \A x \in DOMAIN tasks : tasks[x] \in TaskRow
      /\ Now \in Nat /\ water \in Nat /\ water <= Now /\ Day \in Nat \ {0}
      /\ \A i \in DOMAIN wire : wire[i] \in Request /\ wire[i].at \in Nat
      /\ water' = Now /\ UNCHANGED clock
  <2>1. \A i \in DOMAIN wire : wire[i] \in Request /\ wire[i].at \in Nat
    BY WireFields DEF RowsInv
  <2> QED BY <2>1, NowIsTime DEF RowsInv, RowsTyped, Submit
<1>1. /\ op \in DOMAIN tasks /\ tasks[op].pc # "wire" /\ op \in DOMAIN ops
      /\ ops[op].started \in Nat /\ ops[op].started <= water
  <2>1. op \in DOMAIN tasks /\ tasks[op].pc # "wire"
    BY DEF Submit, Task
  <2>2. op \in DOMAIN ops /\ ops[op].started <= water
    BY <2>1 DEF RowsInv, RowsTyped, Guarded
  <2> QED BY <1>0, <2>1, <2>2, RowFields
<1>2. /\ r \in OpRow /\ r.started = ops[op].started /\ r.seq = ops[op].seq
      /\ r.updated = Now /\ r.state = "in_flight"
  <2>1. ops[op] \in OpRow
    BY <1>0, <1>1
  <2> QED BY <1>0, <2>1 DEF OpRow, States, Unfinished
<1>3. n \in Nat /\ DOMAIN wire = 1 .. Len(wire) /\ n \notin DOMAIN wire
      /\ \A i \in DOMAIN wire : i \in Nat /\ i < n
  BY DEF RowsInv, RowsTyped
<1>4. /\ t \in TaskRow /\ t.pc = "wire" /\ t.req = n /\ t.seq = tasks[op].seq
      /\ t.mode = tasks[op].mode
  <2>1. tasks[op] \in TaskRow
    BY <1>0, <1>1
  <2> QED BY <1>3, <2>1 DEF TaskRow
<1>5. /\ q.op = op /\ q.at = Now /\ q.fate = "open" /\ q.src = Quoted(op)
      /\ q.seq = ops[op].seq
      /\ q.src # NoSource => q.src = Src[op] /\ q.seq # 0
      /\ q \in Request
  <2>1. tasks[op].seq = ops[op].seq /\ (tasks[op].mode = "passive" => tasks[op].seq # 0)
    BY <1>1 DEF RowsInv, TasksFit
  <2>2. Quoted(op) \in Sources \cup {NoSource} /\ ops[op].seq \in Nat
    BY <1>0, <1>1, RowFields, CallsAssumption DEF Quoted
  <2> QED BY <1>0, <2>1, <2>2 DEF Quoted, Request, Fates
<1>6. /\ ops' = [ops EXCEPT ![op] = r] /\ tasks' = [tasks EXCEPT ![op] = t]
      /\ wire' = Append(wire, q)
  BY DEF Submit
<1> HIDE DEF r, t, q
<1>7. /\ DOMAIN ops' = DOMAIN ops /\ ops'[op] = r /\ \A x \in DOMAIN ops : x # op => ops'[x] = ops[x]
      /\ ops' \in [DOMAIN ops' -> OpRow]
  BY <1>0, <1>1, <1>2, <1>6 DEF RowsInv, RowsTyped
<1>8. /\ DOMAIN tasks' = DOMAIN tasks /\ tasks'[op] = t
      /\ \A x \in DOMAIN tasks : x # op => tasks'[x] = tasks[x]
      /\ tasks' \in [DOMAIN tasks' -> TaskRow]
  BY <1>0, <1>1, <1>4, <1>6 DEF RowsInv, RowsTyped
<1>9. /\ wire' \in Seq(Request) /\ DOMAIN wire' = DOMAIN wire \cup {n} /\ wire'[n] = q
      /\ \A i \in DOMAIN wire : wire'[i] = wire[i]
  BY <1>3, <1>5, <1>6 DEF RowsInv, RowsTyped
<1> HIDE DEF n
<1>10. \A i \in DOMAIN wire : Possible(i)' <=> Possible(i)
  BY <1>9 DEF Possible
<1>11. \A i \in DOMAIN wire : wire[i].op = op /\ Possible(i) /\ op \in Trusted
          => wire[i].at + Day < ops[op].started /\ wire[i].at + Day < Now
  <2> SUFFICES ASSUME NEW i \in DOMAIN wire, wire[i].op = op, Possible(i), op \in Trusted
               PROVE  wire[i].at + Day < ops[op].started /\ wire[i].at + Day < Now
    OBVIOUS
  <2>1. wire[i].at + Day < ops[op].started
    BY <1>1, NothingUnderWay
  <2> QED BY <1>0, <1>1, <2>1
<1>12. RowsTyped'
  <2>1. \A x \in DOMAIN tasks' :
           /\ x \in DOMAIN ops' /\ ops'[x].state \in {"reserved", "in_flight"}
           /\ tasks'[x].pc = "wire" => tasks'[x].req \in DOMAIN wire' /\ wire'[tasks'[x].req].op = x
    BY <1>2, <1>4, <1>5, <1>7, <1>8, <1>9 DEF RowsInv, RowsTyped
  <2>2. DOMAIN ops' \subseteq Ops /\ clock' \in Nat /\ water' \in Nat
    BY <1>0, <1>7 DEF RowsInv, RowsTyped
  <2> QED BY <1>7, <1>8, <1>9, <2>1, <2>2 DEF RowsTyped
<1>13. TasksFit'
  BY <1>1, <1>2, <1>4, <1>7, <1>8 DEF RowsInv, RowsTyped, TasksFit
<1>14. Guarded'
  <2> SUFFICES ASSUME NEW x \in DOMAIN tasks
               PROVE  /\ ops'[x].started <= water'
                      /\ tasks'[x].pc = "wire" => ops'[x].started <= wire'[tasks'[x].req].at
                      /\ x \in Trusted => \A i \in DOMAIN wire' : wire'[i].op = x /\ Possible(i)' =>
                            \/ tasks'[x].pc = "wire" /\ tasks'[x].req = i
                            \/ wire'[i].at + Day < ops'[x].started
    BY <1>8 DEF Guarded
  <2>1. CASE x = op
    BY <1>0, <1>1, <1>2, <1>4, <1>5, <1>7, <1>8, <1>9, <1>10, <1>11, <2>1
  <2>2. CASE x # op
    <3>1. /\ x \in DOMAIN ops /\ ops'[x] = ops[x] /\ tasks'[x] = tasks[x]
          /\ ops[x].started <= water /\ ops[x].started \in Nat
          /\ tasks[x].pc = "wire" => tasks[x].req \in DOMAIN wire
      BY <1>0, <1>7, <1>8, <2>2, RowFields DEF RowsInv, RowsTyped, Guarded
    <3>2. \A i \in DOMAIN wire' : wire'[i].op = x => i \in DOMAIN wire /\ wire'[i] = wire[i]
      BY <1>5, <1>9, <2>2
    <3>3. ops'[x].started <= water'
      BY <1>0, <3>1
    <3>4. tasks'[x].pc = "wire" => ops'[x].started <= wire'[tasks'[x].req].at
      BY <1>9, <3>1 DEF RowsInv, Guarded
    <3>5. x \in Trusted => \A i \in DOMAIN wire' : wire'[i].op = x /\ Possible(i)' =>
                            \/ tasks'[x].pc = "wire" /\ tasks'[x].req = i
                            \/ wire'[i].at + Day < ops'[x].started
      BY <1>10, <3>1, <3>2 DEF RowsInv, Guarded
    <3> QED BY <3>3, <3>4, <3>5
  <2> QED BY <2>1, <2>2
<1>15. Remembered'
  <2> SUFFICES ASSUME NEW i \in DOMAIN wire'
               PROVE  /\ wire'[i].at <= water'
                      /\ wire'[i].src # NoSource =>
                            wire'[i].src = Src[wire'[i].op] /\ wire'[i].seq # 0
                      /\ Possible(i)' /\ wire'[i].op \in Trusted
                            => wire'[i].at + Day < water' \/ Kept(i)'
    BY DEF Remembered
  <2>1. CASE i = n
    <3>1. Kept(i)'
      BY <1>0, <1>1, <1>2, <1>5, <1>7, <1>9, <2>1 DEF Kept, Lasting
    <3> QED BY <1>0, <1>5, <1>9, <2>1, <3>1
  <2>2. CASE i \in DOMAIN wire
    <3>1. /\ wire'[i].at <= water' /\ wire'[i] = wire[i]
          /\ wire'[i].src # NoSource => wire'[i].src = Src[wire'[i].op] /\ wire'[i].seq # 0
      BY <1>0, <1>9, <2>2 DEF RowsInv, Remembered
    <3>2. ASSUME Possible(i), wire[i].op \in Trusted
          PROVE  wire[i].at + Day < water' \/ Kept(i)'
      <4>1. CASE wire[i].op = op
        BY <1>0, <1>11, <2>2, <3>2, <4>1
      <4>2. CASE wire[i].at + Day < water
        BY <1>0, <2>2, <4>2
      <4>3. CASE wire[i].op # op /\ Kept(i)
        BY <1>7, <3>1, <4>3 DEF Kept
      <4> QED BY <2>2, <3>2, <4>1, <4>2, <4>3 DEF RowsInv, Remembered
    <3> QED BY <1>10, <2>2, <3>1, <3>2
  <2> QED BY <1>9, <2>1, <2>2
<1>16. OnceADay'
  <2> SUFFICES ASSUME NEW i \in DOMAIN wire', NEW j \in DOMAIN wire', i < j,
                      wire'[i].op = wire'[j].op, Possible(i)', Possible(j)', wire'[i].op \in Trusted
               PROVE  wire'[j].at > wire'[i].at + Day
    BY DEF OnceADay
  <2>1. i \in DOMAIN wire /\ wire'[i] = wire[i] /\ Possible(i)
    <3>1. i # n
      BY <1>3, <1>9
    <3> QED BY <1>9, <1>10, <3>1
  <2>2. CASE j = n
    BY <1>0, <1>5, <1>9, <1>11, <2>1, <2>2
  <2>3. CASE j \in DOMAIN wire
    BY <1>9, <1>10, <2>1, <2>3 DEF RowsInv, OnceADay
  <2> QED BY <1>9, <2>2, <2>3
<1>17. Honest'
  <2> SUFFICES ASSUME NEW x \in DOMAIN ops
               PROVE  Claims(wire', ops'[x].state, x, ops'[x].started)
    BY <1>7 DEF Honest
  <2>1. CASE x = op
    BY <1>2, <1>7, <2>1 DEF Claims
  <2>2. CASE x # op
    <3>1. ops'[x] = ops[x] /\ Claims(wire, ops[x].state, x, ops[x].started)
      BY <1>7, <2>2 DEF RowsInv, Honest
    <3>2. \A i \in DOMAIN wire' : wire'[i].op = x => i \in DOMAIN wire /\ wire'[i] = wire[i]
      BY <1>5, <1>9, <2>2
    <3> QED BY <1>9, <3>1, <3>2 DEF Claims
  <2> QED BY <2>1, <2>2
<1> QED BY <1>12, <1>13, <1>14, <1>15, <1>16, <1>17 DEF RowsInv

\* What _finish makes of the row of op.
Ended(op, state) == Extend(ops, op, [ops[op] EXCEPT !.state = state, !.updated = Now])

\* _finish leaves the ended row and the others, less what history has no room for.
LEMMA Finishing ==
    ASSUME RowsTyped, NEW op \in DOMAIN tasks, NEW state \in Terminal \cup {"unknown"},
           Finish(op, state)
    PROVE  /\ Ended(op, state) \in [DOMAIN ops -> OpRow]
           /\ Ages(Ended(op, state), ops')
           /\ \A x \in DOMAIN ops : x # op => Ended(op, state)[x] = ops[x]
           /\ Ended(op, state)[op].state = state /\ Ended(op, state)[op].updated = Now
           /\ Ended(op, state)[op].seq = ops[op].seq
           /\ Ended(op, state)[op].started = ops[op].started
           /\ TasksLeft(DOMAIN tasks \ {op}) /\ water' = Now
           /\ seqs' = IF state = "not_sent" THEN Restriction(seqs, DOMAIN seqs \ {op}) ELSE seqs
           /\ op \in DOMAIN ops /\ ops[op].state \in {"reserved", "in_flight"}
<1> DEFINE o == Ended(op, state)
           r == [ops[op] EXCEPT !.state = state, !.updated = Now]
<1>1. op \in DOMAIN ops /\ ops[op].state \in {"reserved", "in_flight"} /\ ops[op] \in OpRow
  BY DEF RowsTyped
<1>2. /\ r \in OpRow /\ r.state = state /\ r.updated = Now /\ r.seq = ops[op].seq
      /\ r.started = ops[op].started
  BY <1>1, NowIsTime DEF OpRow, States, Unfinished
<1>3. o = Extend(ops, op, r)
  BY DEF Ended
<1> HIDE DEF r
<1>4. /\ o \in [DOMAIN ops -> OpRow] /\ DOMAIN o = DOMAIN ops /\ o[op] = r
      /\ \A x \in DOMAIN ops : x # op => o[x] = ops[x]
  BY <1>1, <1>2, <1>3 DEF Extend, RowsTyped
<1>5. \E T : T \subseteq In(o, Terminal) /\ ops' = Trimmed(o, T)
  BY DEF Finish, Ended, Trims
<1>6. Ages(o, ops')
  <2> HIDE DEF o
  <2> QED BY <1>4, <1>5, Trimming
<1>7. TasksLeft(DOMAIN tasks \ {op}) /\ water' = Now
  BY TasksRestricted DEF Finish, EndTask
<1>8. seqs' = IF state = "not_sent" THEN Restriction(seqs, DOMAIN seqs \ {op}) ELSE seqs
  BY DEF Finish
<1> QED BY <1>1, <1>2, <1>4, <1>6, <1>7, <1>8

\* A send ends in a way its requests bear out.
LEMMA FinishKeeps ==
    ASSUME RowsInv, NEW op \in DOMAIN tasks, NEW state \in Terminal \cup {"unknown"},
           Finish(op, state), WireKept, UNCHANGED clock,
           Claims(wire', state, op, ops[op].started),
           op \in Trusted => \A i \in DOMAIN wire :
              wire[i].op = op /\ Possible(i)' => state \in Lasting \/ wire[i].at + Day < ops[op].started
    PROVE  RowsInv'
<1> DEFINE o == Ended(op, state)
           K == DOMAIN tasks \ {op}
<1>1. RowsTyped
  BY DEF RowsInv
<1>2. /\ o \in [DOMAIN ops -> OpRow] /\ Ages(o, ops')
      /\ \A x \in DOMAIN ops : x # op => o[x] = ops[x]
      /\ o[op].state = state /\ o[op].updated = Now /\ o[op].seq = ops[op].seq
      /\ o[op].started = ops[op].started /\ TasksLeft(K) /\ water' = Now
      /\ op \in DOMAIN ops /\ ops[op].state \in {"reserved", "in_flight"}
  BY <1>1, Finishing
<1> HIDE DEF o
<1>3. EndsAs(o, op)
  <2>1. /\ ops[op].started \in Nat /\ ops[op].started <= water /\ water <= water'
        /\ water \in Nat /\ water' \in Nat
    <3>1. ops[op] \in OpRow /\ ops[op].started <= water
      BY <1>1, <1>2 DEF RowsInv, Guarded, RowsTyped
    <3> QED BY <1>1, <1>2, <3>1, NowIsTime, RowFields
  <2>2. \A i \in DOMAIN wire : wire[i].at + Day < ops[op].started => wire[i].at + Day < water'
    BY <1>1, <2>1, WireFields, NowIsTime
  <2> QED BY <1>2, <2>2 DEF EndsAs
<1>4. Closes(o, K)
  <2>1. water' \in Nat /\ water <= water' /\ clock' \in Nat
    BY <1>1, <1>2, NowIsTime DEF RowsTyped
  <2>2. \A x \in DOMAIN ops : o[x] = ops[x] \/ (x \notin K /\ EndsAs(o, x))
    BY <1>2, <1>3
  <2> QED BY <1>2, <2>1, <2>2 DEF Closes
<1> QED BY <1>4, Closing

-----------------------------------------------------------------------------
(* The next sequence.                                                      *)

\* A finite set of numbers has a highest one.
LEMMA HighestIsTop ==
    ASSUME NEW S \in SUBSET Nat, IsFiniteSet(S), S # {}
    PROVE  Highest(S) \in S /\ \A n \in S : n <= Highest(S)
<1> DEFINE Above(x) == {y \in S : y > x}
           T == {Above(x) : x \in S}
<1>1. T \subseteq FiniteSubsetsOf(S) /\ T # {}
  <2>1. ASSUME NEW x \in S PROVE Above(x) \in FiniteSubsetsOf(S)
    <3>1. Above(x) \in SUBSET S
      OBVIOUS
    <3> HIDE DEF Above
    <3> QED BY <3>1, FS_Subset DEF FiniteSubsetsOf
  <2> QED BY <2>1
<1>2. PICK m \in T : \A y \in T : ~ (<<y, m>> \in StrictSubsetOrdering(S))
  <2>1. IsWellFoundedOn(StrictSubsetOrdering(S), FiniteSubsetsOf(S))
    BY FS_StrictSubsetOrderingWellFounded
  <2> HIDE DEF T
  <2> QED BY <1>1, <2>1, WFMin
<1>3. PICK x \in S : m = Above(x)
  BY <1>2
<1>4. ASSUME NEW y \in S, y > x
      PROVE  FALSE
  <2>1. Above(y) \in SUBSET S /\ Above(x) \in SUBSET S
    OBVIOUS
  <2>2. x \in Nat /\ y \in Nat
    OBVIOUS
  <2>3. Above(y) \subseteq Above(x) /\ y \in Above(x) /\ y \notin Above(y)
    <3>1. \A z \in S : z \in Nat /\ (z > y => z > x)
      <4>1. \A z \in Nat : z > y => z > x
        BY <1>4, <2>2
      <4> QED BY <4>1
    <3>2. ~(y > y)
      BY <2>2
    <3> QED BY <1>4, <3>1, <3>2
  <2>4. \A A, B \in SUBSET S : A \subseteq B /\ A # B => <<A, B>> \in StrictSubsetOrdering(S)
    BY DEF StrictSubsetOrdering
  <2>5. <<Above(y), Above(x)>> \in StrictSubsetOrdering(S)
    <3> HIDE DEF Above
    <3> QED BY <2>1, <2>3, <2>4
  <2>6. Above(y) \in T
    OBVIOUS
  <2> HIDE DEF Above, T
  <2> QED BY <1>2, <1>3, <2>5, <2>6
<1>5. \A y \in S : y <= x
  <2> SUFFICES ASSUME NEW y \in S PROVE y <= x
    OBVIOUS
  <2>1. x \in Nat /\ y \in Nat /\ ~(y > x)
    BY <1>4
  <2> QED BY <2>1
<1> QED BY <1>5 DEF Highest

\* What a column of some rows holds is finite.
LEMMA ColumnFinite ==
    ASSUME NEW f, IsFiniteSet(DOMAIN f), NEW K \in SUBSET DOMAIN f
    PROVE  IsFiniteSet({f[x] : x \in K})
<1> DEFINE g == [x \in K |-> f[x]]
           R == {f[x] : x \in K}
<1>1. IsFiniteSet(K)
  BY FS_Subset
<1>2. g \in Surjection(K, R)
  BY DEF Surjection
<1> HIDE DEF g, R
<1>3. IsFiniteSet(R)
  BY <1>1, <1>2, FS_Surjection
<1> QED BY <1>3 DEF R

\* The sequences of a source that rows and claims hold.
InUse(o, s) == Claimed(s) \cup Fenced(o, s)

\* They are finitely many.
LEMMA InUseFinite ==
    ASSUME RowsTyped, SeqsTyped, NEW o, o \in [DOMAIN o -> OpRow], DOMAIN o \subseteq DOMAIN ops,
           NEW s
    PROVE  InUse(o, s) \in SUBSET Nat /\ IsFiniteSet(InUse(o, s))
<1>1. IsFiniteSet(DOMAIN o) /\ IsFiniteSet(DOMAIN KeptSeqs)
  <2>1. DOMAIN KeptSeqs \subseteq DOMAIN seqs
    BY DEF KeptSeqs, Restriction
  <2> QED BY <2>1, FS_Subset DEF SeqsTyped
<1>2. /\ \A x \in DOMAIN KeptSeqs : KeptSeqs[x] \in Nat
      /\ \A x \in DOMAIN o : o[x] \in OpRow /\ o[x].seq \in Nat
  <2>1. \A x \in DOMAIN KeptSeqs : KeptSeqs[x] \in Nat
    BY DEF KeptSeqs, Restriction, SeqsTyped
  <2> QED BY <2>1, RowFields
<1>3. IsFiniteSet(Claimed(s)) /\ Claimed(s) \in SUBSET Nat
  <2> HIDE DEF KeptSeqs
  <2> DEFINE K == {op \in DOMAIN KeptSeqs : Src[op] = s}
             R == {KeptSeqs[x] : x \in K}
  <2>1. IsFiniteSet(R)
    BY <1>1, ColumnFinite
  <2> QED BY <1>2, <2>1 DEF Claimed
<1>4. IsFiniteSet(Fenced(o, s)) /\ Fenced(o, s) \in SUBSET Nat
  <2> DEFINE f == [x \in DOMAIN o |-> o[x].seq]
             K == {x \in DOMAIN o : Src[x] = s /\ o[x].seq # 0 /\ o[x].state # "not_sent"}
             R == {f[x] : x \in K}
  <2>1. DOMAIN f = DOMAIN o /\ K \subseteq DOMAIN o
    OBVIOUS
  <2>2. Fenced(o, s) = R
    BY DEF Fenced
  <2> HIDE DEF f, K
  <2>3. IsFiniteSet(R)
    BY <1>1, <2>1, ColumnFinite
  <2>4. Fenced(o, s) \in SUBSET Nat
    BY <1>2 DEF Fenced
  <2> QED BY <2>2, <2>3, <2>4
<1> QED BY <1>3, <1>4, FS_Union DEF InUse

\* One more than the highest of some finite set is new.
LEMMA Beyond ==
    ASSUME NEW S \in SUBSET Nat, IsFiniteSet(S)
    PROVE  Highest(S) + 1 \in Nat \ {0} /\ Highest(S) + 1 \notin S
<1>1. CASE S = {}
  BY <1>1 DEF Highest
<1>2. CASE S # {}
  <2>1. Highest(S) \in Nat /\ \A n \in S : n <= Highest(S) /\ n \in Nat
    BY <1>2, HighestIsTop
  <2> HIDE DEF Highest
  <2> QED BY <2>1
<1> QED BY <1>1, <1>2

\* _claim_source_seq never gives out a sequence that a row or a claim holds.
LEMMA NextSeqIsNew ==
    ASSUME RowsTyped, SeqsTyped, NEW o, o \in [DOMAIN o -> OpRow], DOMAIN o \subseteq DOMAIN ops,
           NEW src, NEW s, src[s].seq \in Nat
    PROVE  NextSeq(src, o, s) \in Nat \ {0} /\ NextSeq(src, o, s) \notin InUse(o, s)
<1> DEFINE S == {src[s].seq} \cup Claimed(s) \cup Fenced(o, s)
<1>1. S = InUse(o, s) \cup {src[s].seq}
  BY DEF InUse
<1>2. InUse(o, s) \in SUBSET Nat /\ IsFiniteSet(InUse(o, s))
  BY InUseFinite
<1>3. S \in SUBSET Nat /\ IsFiniteSet(S) /\ InUse(o, s) \subseteq S
  BY <1>1, <1>2, FS_AddElement
<1>4. NextSeq(src, o, s) = Highest(S) + 1
  BY DEF NextSeq
<1> HIDE DEF S
<1> QED BY <1>3, <1>4, Beyond

\* claim_sequence gives an operation its own claim again, or a new sequence.
LEMMA NativeSeqIsNew ==
    ASSUME RowsTyped, SeqsTyped, Distinct, SourcesTyped, NEW op \in Ops,
           NEW o, o \in [DOMAIN o -> OpRow], DOMAIN o \subseteq DOMAIN ops,
           NEW src, \A s \in DOMAIN src : src[s].seq \in Nat, NEW n \in NativeSeqs(src, o, op)
    PROVE  /\ n \in Nat
           /\ Src[op] # NoSource => /\ n # 0
                                    /\ \/ op \in DOMAIN KeptSeqs /\ n = KeptSeqs[op]
                                       \/ op \notin DOMAIN KeptSeqs /\ n \notin InUse(o, Src[op])
<1> DEFINE s == Src[op]
           observed == IF s \in DOMAIN src /\ s \notin EventSources THEN {src[s].seq} ELSE {}
           S == Claimed(s) \cup observed \cup Fenced(o, s)
<1>1. InUse(o, s) \in SUBSET Nat /\ IsFiniteSet(InUse(o, s))
  BY InUseFinite
<1>2. Want[op] \in Nat
  BY CallsAssumption
<1>3. CASE s = NoSource
  BY <1>2, <1>3 DEF NativeSeqs
<1>4. CASE s # NoSource /\ op \in DOMAIN KeptSeqs
  <2>1. n = KeptSeqs[op]
    <3> HIDE DEF KeptSeqs
    <3> QED BY <1>4 DEF NativeSeqs
  <2>2. KeptSeqs[op] \in Nat /\ KeptSeqs[op] # 0
    BY <1>4 DEF KeptSeqs, Restriction, SeqsTyped, Distinct
  <2> QED BY <1>4, <2>1, <2>2
<1>5. CASE s # NoSource /\ op \notin DOMAIN KeptSeqs
  <2>1. n \in IF Want[op] = 0 THEN {Highest(S) + 1} ELSE {Want[op]} \ (Claimed(s) \cup Fenced(o, s))
    <3> HIDE DEF KeptSeqs
    <3> QED BY <1>5 DEF NativeSeqs
  <2>2. S \in SUBSET Nat /\ IsFiniteSet(S) /\ InUse(o, s) \subseteq S
    <3>1. observed \in SUBSET Nat /\ IsFiniteSet(observed)
      <4>1. CASE s \in DOMAIN src /\ s \notin EventSources
        <5>1. observed = {src[s].seq} /\ src[s].seq \in Nat
          BY <4>1
        <5> QED BY <5>1, FS_Singleton
      <4>2. CASE ~(s \in DOMAIN src /\ s \notin EventSources)
        <5>1. observed = {}
          BY <4>2
        <5> QED BY <5>1, FS_EmptySet
      <4> QED BY <4>1, <4>2
    <3>2. S = InUse(o, s) \cup observed
      BY DEF InUse
    <3> HIDE DEF S, observed
    <3> QED BY <1>1, <3>1, <3>2, FS_Union
  <2> HIDE DEF S
  <2>3. Highest(S) + 1 \in Nat \ {0} /\ Highest(S) + 1 \notin InUse(o, s)
    BY <2>2, Beyond
  <2> QED BY <1>2, <1>5, <2>1, <2>3 DEF InUse
<1> QED BY <1>3, <1>4, <1>5

-----------------------------------------------------------------------------
(* What the reservations do.                                               *)

\* _prune keeps columns as they are.
LEMMA KeptSourcesRows ==
    ASSUME SourcesTyped, NEW keep
    PROVE  /\ DOMAIN KeptSources(keep) \subseteq DOMAIN sources
           /\ KeptSources(keep) \in [DOMAIN KeptSources(keep) -> SourceRow]
           /\ \A s \in DOMAIN KeptSources(keep) : KeptSources(keep)[s] = sources[s]
           /\ \A s \in DOMAIN sources \ DOMAIN KeptSources(keep) :
                 /\ ~(sources[s].expires > Now) /\ s # keep
                 /\ \A op \in DOMAIN ops : Src[op] = s => ops[op].state \notin Unfinished
BY DEF KeptSources, Restriction, SourcesTyped

\* Fields of a source.
LEMMA SourceFields ==
    \A r \in SourceRow : r.expires \in Nat /\ r.seq \in Nat /\ r.blocked \in {"no", "active", "final"}
BY DEF SourceRow

\* n becomes the sequence of op, whose claim of a source is its own or new.
Claiming(op, o, n) ==
    /\ bound' = IF op \in DOMAIN KeptBound(o) THEN KeptBound(o) ELSE Extend(KeptBound(o), op, Now)
    /\ \/ /\ seqs' = KeptSeqs
          /\ n = 0 \/ Src[op] = NoSource \/ n \notin InUse(o, Src[op])
       \/ /\ seqs' = Extend(KeptSeqs, op, n) /\ Src[op] # NoSource /\ n # 0
          /\ \/ op \in DOMAIN KeptSeqs /\ n = KeptSeqs[op]
             \/ op \notin DOMAIN KeptSeqs /\ n \notin InUse(o, Src[op])

\* The core lane reserves what is new; a reply that quotes has its source.
LEMMA Reserving ==
    ASSUME Inv, NEW op \in Ops, Reserve(op)
    PROVE  \E o, mode, n :
              /\ Starts(op, o, mode, n) /\ Claiming(op, o, n)
              /\ IF mode = "passive"
                 THEN /\ Src[op] \in DOMAIN KeptSources(Src[op])
                      /\ sources' = [KeptSources(Src[op]) EXCEPT ![Src[op]].seq = n]
                 ELSE sources' = KeptSources(Src[op])
              /\ tasks'[op].mode = mode
<1> DEFINE s == Src[op]
           src == KeptSources(s)
<1>1. PICK T \in Trims(Aged, {}) :
          LET o == Trimmed(Aged, T)
              mode == IF Lane[op] = "reply" THEN ReplyMode(src, o, s) ELSE "active"
              n == IF mode = "passive" THEN NextSeq(src, o, s) ELSE 0
          IN  /\ Room(o, op) /\ mode # "refused"
              /\ Start(op, o, mode, n)
              /\ sources' = IF mode = "passive" THEN [src EXCEPT ![s].seq = n] ELSE src
              /\ seqs' = KeptSeqs
  BY DEF Reserve
<1> DEFINE o == Trimmed(Aged, T)
           mode == IF Lane[op] = "reply" THEN ReplyMode(src, o, s) ELSE "active"
           n == IF mode = "passive" THEN NextSeq(src, o, s) ELSE 0
<1>2. /\ op \notin DOMAIN o /\ mode # "refused" /\ Start(op, o, mode, n)
      /\ sources' = IF mode = "passive" THEN [src EXCEPT ![s].seq = n] ELSE src
      /\ seqs' = KeptSeqs
  BY <1>1 DEF Room
<1>3. Ages(ops, o)
  BY Pruning DEF Inv, RowsInv
<1>4. mode \in {"passive", "active"} /\ (mode = "passive" => s \in DOMAIN src)
  BY <1>2 DEF ReplyMode
<1>5. mode = "passive" => s \in Sources
  BY <1>4, KeptSourcesRows DEF Inv, SourcesInv, SourcesTyped
<1>6. n = IF mode = "passive" THEN NextSeq(src, o, s) ELSE 0
  OBVIOUS
<1> HIDE DEF o, mode, n
<1>7. n \in Nat /\ (mode = "passive" => n # 0 /\ n \notin InUse(o, s)) /\ (mode # "passive" => n = 0)
  <2>1. CASE mode = "passive"
    <3>1. src[s].seq \in Nat
      BY <1>4, <2>1, KeptSourcesRows, SourceFields DEF Inv, SourcesInv
    <3>2. o \in [DOMAIN o -> OpRow] /\ DOMAIN o \subseteq DOMAIN ops
      BY <1>3 DEF Ages
    <3> HIDE DEF src
    <3>3. NextSeq(src, o, s) \in Nat \ {0} /\ NextSeq(src, o, s) \notin InUse(o, s)
      BY <3>1, <3>2, NextSeqIsNew DEF Inv, RowsInv, SeqsInv
    <3> QED BY <1>6, <2>1, <3>3
  <2>2. CASE mode # "passive"
    BY <1>6, <2>2
  <2> QED BY <2>1, <2>2
<1> DEFINE t == [pc |-> "ready", mode |-> mode, seq |-> n, try |-> 1,
                 reason |-> Lane[op] = "reply" /\ mode = "active", again |-> FALSE, req |-> 0]
<1>8. t \in TaskRow /\ t.pc = "ready" /\ t.mode = mode /\ t.seq = n
  BY <1>4, <1>7 DEF TaskRow
<1>9. /\ ops' = Extend(o, op, [state |-> "reserved", seq |-> n, started |-> Now, updated |-> Now])
      /\ tasks' = Extend(tasks, op, t) /\ water' = Now
      /\ bound' = IF op \in DOMAIN KeptBound(o) THEN KeptBound(o) ELSE Extend(KeptBound(o), op, Now)
  BY <1>2 DEF Start
<1>10. op \notin DOMAIN tasks /\ UNCHANGED <<clock, wire>>
  BY DEF Reserve, MayCall
<1> HIDE DEF t
<1>11. mode = "passive" => Src[op] # NoSource /\ n # 0
  BY <1>5, <1>7, CallsAssumption
<1>12. Starts(op, o, mode, n)
  BY <1>2, <1>3, <1>7, <1>8, <1>9, <1>10, <1>11 DEF Starts
<1>13. Claiming(op, o, n)
  BY <1>2, <1>7, <1>9 DEF Claiming
<1>14. tasks'[op].mode = mode
  BY <1>8, <1>9 DEF Extend
<1>15. /\ mode = "passive" => s \in DOMAIN src /\ sources' = [src EXCEPT ![s].seq = n]
       /\ mode # "passive" => sources' = src
  BY <1>2, <1>4
<1> QED BY <1>12, <1>13, <1>14, <1>15

\* The native lane reserves what is its own or new.
LEMMA ReservingNative ==
    ASSUME Inv, NEW op \in Ops, ReserveNative(op)
    PROVE  \E o, mode, n : /\ Starts(op, o, mode, n) /\ Claiming(op, o, n)
                           /\ sources' = KeptSources(NoSource) /\ Lane[op] = "native"
<1> DEFINE src == KeptSources(NoSource)
           mode == IF Src[op] = NoSource THEN "active" ELSE "passive"
<1>1. PICK T \in Trims(Aged, {}) :
          LET o == Trimmed(Aged, T)
          IN  /\ Room(o, op)
              /\ \E n \in NativeSeqs(src, o, op) :
                    /\ Start(op, o, mode, n)
                    /\ seqs' = IF Src[op] = NoSource THEN KeptSeqs ELSE Extend(KeptSeqs, op, n)
              /\ sources' = src
  BY DEF ReserveNative
<1> DEFINE o == Trimmed(Aged, T)
<1>2. PICK n \in NativeSeqs(src, o, op) :
          /\ Start(op, o, mode, n)
          /\ seqs' = IF Src[op] = NoSource THEN KeptSeqs ELSE Extend(KeptSeqs, op, n)
  BY <1>1
<1>3. op \notin DOMAIN o /\ sources' = src
  BY <1>1 DEF Room
<1>4. Ages(ops, o)
  BY Pruning DEF Inv, RowsInv
<1>5. mode \in {"passive", "active"} /\ (mode = "passive" <=> Src[op] # NoSource)
  OBVIOUS
<1> HIDE DEF o, mode
<1>6. /\ n \in Nat
      /\ Src[op] # NoSource => /\ n # 0
                               /\ \/ op \in DOMAIN KeptSeqs /\ n = KeptSeqs[op]
                                  \/ op \notin DOMAIN KeptSeqs /\ n \notin InUse(o, Src[op])
  <2>1. \A s \in DOMAIN src : src[s].seq \in Nat
    BY KeptSourcesRows, SourceFields DEF Inv, SourcesInv
  <2>2. o \in [DOMAIN o -> OpRow] /\ DOMAIN o \subseteq DOMAIN ops
    BY <1>4 DEF Ages
  <2> HIDE DEF src
  <2> QED BY <2>1, <2>2, NativeSeqIsNew DEF Inv, RowsInv, SeqsInv, SourcesInv
<1> DEFINE t == [pc |-> "ready", mode |-> mode, seq |-> n, try |-> 1,
                 reason |-> Lane[op] = "reply" /\ mode = "active", again |-> FALSE, req |-> 0]
<1>7. t \in TaskRow /\ t.pc = "ready" /\ t.mode = mode /\ t.seq = n
  BY <1>5, <1>6 DEF TaskRow
<1>8. /\ ops' = Extend(o, op, [state |-> "reserved", seq |-> n, started |-> Now, updated |-> Now])
      /\ tasks' = Extend(tasks, op, t) /\ water' = Now
      /\ bound' = IF op \in DOMAIN KeptBound(o) THEN KeptBound(o) ELSE Extend(KeptBound(o), op, Now)
  BY <1>2 DEF Start
<1>9. op \notin DOMAIN tasks /\ UNCHANGED <<clock, wire>> /\ Lane[op] = "native"
  BY DEF ReserveNative, MayCall
<1> HIDE DEF t
<1>10. Starts(op, o, mode, n)
  BY <1>3, <1>4, <1>5, <1>6, <1>7, <1>8, <1>9 DEF Starts
<1>11. Claiming(op, o, n)
  BY <1>2, <1>6, <1>8 DEF Claiming
<1> QED BY <1>3, <1>9, <1>10, <1>11

-----------------------------------------------------------------------------
(* Every step keeps rows, sends and requests sound.                        *)

\* Rows and tasks of a send under way.
LEMMA UnderWay ==
    ASSUME RowsInv, NEW op \in DOMAIN tasks
    PROVE  /\ op \in DOMAIN ops /\ ops[op] \in OpRow /\ tasks[op] \in TaskRow
           /\ ops[op].state \in {"reserved", "in_flight"}
           /\ ops[op].started \in Nat /\ ops[op].started <= water /\ ops[op].seq \in Nat
           /\ tasks[op].seq \in Nat
           /\ tasks[op].pc = "wire" =>
                 /\ tasks[op].req \in DOMAIN wire /\ wire[tasks[op].req].op = op
                 /\ ops[op].started <= wire[tasks[op].req].at
<1>1. /\ op \in DOMAIN ops /\ ops[op] \in OpRow /\ tasks[op] \in TaskRow
      /\ ops[op].state \in {"reserved", "in_flight"}
  BY DEF RowsInv, RowsTyped
<1>2. ops[op].started \in Nat /\ ops[op].seq \in Nat /\ tasks[op].seq \in Nat
  BY <1>1, RowFields DEF TaskRow
<1> QED BY <1>1, <1>2 DEF RowsInv, RowsTyped, Guarded

\* switch_active drops the sequence and goes back to the slot and the token.
LEMMA ToActiveTurns ==
    ASSUME RowsInv, NEW op \in DOMAIN tasks, ToActive(op), UNCHANGED <<clock, wire>>,
           tasks[op].pc = "wire" => wire[tasks[op].req].fate = "refused"
    PROVE  \E r, t : Turns(op, r, t) /\ r.seq = 0 /\ t.mode = "active"
<1> DEFINE r == [ops[op] EXCEPT !.seq = 0, !.state = "reserved", !.updated = Now]
           t == [tasks[op] EXCEPT !.pc = "ready", !.mode = "active", !.seq = 0,
                                  !.try = 2, !.reason = TRUE, !.again = FALSE]
<1>1. ops[op] \in OpRow /\ tasks[op] \in TaskRow /\ Now \in Nat
  BY UnderWay, NowIsTime DEF RowsInv
<1>2. /\ r \in OpRow /\ r.state = "reserved" /\ r.started = ops[op].started /\ r.updated = Now
      /\ r.seq = 0
  BY <1>1 DEF OpRow, States, Unfinished
<1>3. t \in TaskRow /\ t.pc = "ready" /\ t.mode = "active" /\ t.seq = 0
  BY <1>1 DEF TaskRow
<1>4. ops' = [ops EXCEPT ![op] = r] /\ tasks' = [tasks EXCEPT ![op] = t] /\ water' = Now
  BY DEF ToActive
<1> HIDE DEF r, t
<1>5. Turns(op, r, t)
  BY <1>2, <1>3, <1>4 DEF Turns
<1> QED BY <1>2, <1>3, <1>5

\* A 401 sends the task back to the token service; its row does not change.
LEMMA UnauthorizedTurns ==
    ASSUME RowsInv, NEW op \in Ops, Unauthorized(op)
    PROVE  \E r, t : Turns(op, r, t) /\ r = ops[op] /\ t.mode = tasks[op].mode
<1> DEFINE t == [tasks[op] EXCEPT !.pc = "reauth", !.again = TRUE]
<1>1. op \in DOMAIN tasks /\ tasks[op].pc = "wire" /\ wire[tasks[op].req].fate = "refused"
  BY DEF Unauthorized, Task, Verdict
<1>2. /\ ops[op] \in OpRow /\ tasks[op] \in TaskRow /\ ops[op].state \in {"reserved", "in_flight"}
      /\ op \in DOMAIN ops
  BY <1>1, UnderWay
<1>3. t \in TaskRow /\ t.pc = "reauth" /\ t.mode = tasks[op].mode /\ t.seq = tasks[op].seq
  BY <1>2 DEF TaskRow
<1>4. /\ ops' = ops /\ tasks' = [tasks EXCEPT ![op] = t] /\ water' = water
      /\ UNCHANGED <<clock, wire>>
  BY DEF Unauthorized, ledger
<1>5. /\ tasks[op].seq = ops[op].seq
      /\ tasks[op].mode = "passive" => Src[op] # NoSource /\ tasks[op].seq # 0
  BY <1>1 DEF RowsInv, TasksFit
<1> HIDE DEF t
<1>6. ops' = [ops EXCEPT ![op] = ops[op]]
  BY <1>2, <1>4 DEF RowsInv, RowsTyped
<1>7. Turns(op, ops[op], t)
  BY <1>1, <1>2, <1>3, <1>4, <1>5, <1>6 DEF Turns
<1> QED BY <1>3, <1>7

\* A session send quotes its candidate under a new sequence.
LEMMA PassiveTurns ==
    ASSUME Inv, NEW op \in Ops, SwitchPassive(op)
    PROVE  \E r, t : /\ Turns(op, r, t) /\ r.seq \notin InUse(ops, Src[op])
                     /\ r.state = ops[op].state
                     /\ Src[op] \in DOMAIN sources /\ Lane[op] = "session"
                     /\ sources' = [sources EXCEPT ![Src[op]].seq = r.seq]
<1> DEFINE n == NextSeq(sources, ops, Src[op])
           r == [ops[op] EXCEPT !.seq = n, !.updated = Now]
           t == [tasks[op] EXCEPT !.pc = "ready", !.mode = "passive", !.seq = n,
                                  !.try = 2, !.again = FALSE]
<1>0. RowsInv
  BY DEF Inv
<1>1. /\ op \in DOMAIN tasks /\ tasks[op].pc = "wire" /\ wire[tasks[op].req].fate = "refused"
      /\ Lane[op] = "session" /\ Src[op] \in DOMAIN sources
  BY DEF SwitchPassive, Task, Verdict, Usable
<1>2. /\ ops[op] \in OpRow /\ tasks[op] \in TaskRow /\ op \in DOMAIN ops
      /\ ops[op].state \in {"reserved", "in_flight"} /\ Now \in Nat
  BY <1>0, <1>1, UnderWay, NowIsTime DEF RowsInv
<1>3. n \in Nat \ {0} /\ n \notin InUse(ops, Src[op])
  <2>1. sources[Src[op]].seq \in Nat
    BY <1>1, SourceFields DEF Inv, SourcesInv, SourcesTyped
  <2> QED BY <2>1, NextSeqIsNew DEF Inv, RowsInv, RowsTyped, SeqsInv
<1>4. /\ ops' = [ops EXCEPT ![op] = r] /\ tasks' = [tasks EXCEPT ![op] = t]
      /\ water' = Now /\ sources' = [sources EXCEPT ![Src[op]].seq = n]
      /\ UNCHANGED <<clock, wire>>
  BY DEF SwitchPassive, answerFrame
<1> HIDE DEF n
<1>5. /\ r \in OpRow /\ r.state = ops[op].state /\ r.started = ops[op].started
      /\ r.updated = Now /\ r.seq = n
  BY <1>2, <1>3 DEF OpRow, States, Unfinished
<1>6. t \in TaskRow /\ t.pc = "ready" /\ t.mode = "passive" /\ t.seq = n
  BY <1>2, <1>3 DEF TaskRow
<1>7. Src[op] # NoSource
  BY <1>1, CallsAssumption DEF Inv, SourcesInv, SourcesTyped
<1> HIDE DEF r, t
<1>8. Turns(op, r, t)
  BY <1>1, <1>2, <1>3, <1>4, <1>5, <1>6, <1>7 DEF Turns
<1> QED BY <1>1, <1>3, <1>4, <1>5, <1>8

\* Nothing of the life of op reached QQ, whatever it waits for was refused.
LEMMA NothingReached ==
    ASSUME RowsInv, NEW op \in DOMAIN tasks, NEW state \in {"not_sent", "rejected"},
           WireKept, tasks[op].pc = "wire" => wire'[tasks[op].req].fate = "refused"
    PROVE  /\ Claims(wire', state, op, ops[op].started)
           /\ op \in Trusted => \A i \in DOMAIN wire :
                wire[i].op = op /\ Possible(i)' => wire[i].at + Day < ops[op].started
<1>1. ASSUME NEW i \in DOMAIN wire, wire[i].op = op, Possible(i)', op \in Trusted
      PROVE  wire[i].at + Day < ops[op].started /\ ~(wire[i].at >= ops[op].started)
  <2>1. tasks[op].pc = "wire" => tasks[op].req # i
    BY <1>1 DEF Possible
  <2>2. Possible(i)
    BY <1>1 DEF WireKept
  <2> QED BY <1>1, <2>1, <2>2, NothingUnderWay
<1>2. Claims(wire', state, op, ops[op].started)
  BY <1>1 DEF Claims, WireKept, Possible
<1> QED BY <1>1, <1>2

\* Steps that leave every row under way to its send.
LEMMA OnlyRetention ==
    ASSUME RowsInv, TasksLeft(DOMAIN tasks), WireKept, ops' = ops \/ (Ages(ops, ops') /\ water' = Now),
           water' \in Nat, water <= water', clock' \in Nat
    PROVE  RowsInv'
<1>1. Closes(ops, DOMAIN tasks)
  BY DEF Closes, RowsInv, RowsTyped
<1> QED BY <1>1, Closing

\* MessageStore.__init__ after a crash: what was only reserved was never on
\* the wire, and what was in flight stays in doubt.
LEMMA CrashCloses ==
    ASSUME RowsInv, Crash
    PROVE  \E o : /\ Closes(o, {}) /\ Ages(o, ops') /\ DOMAIN o = DOMAIN ops
                  /\ \A x \in DOMAIN ops :
                        /\ o[x].seq = ops[x].seq
                        /\ ops[x].state = "not_sent" => o[x].state = "not_sent"
                        /\ ops[x].state = "unknown" => o[x].state = "unknown"
                        /\ ops[x].state \notin {"reserved", "in_flight"} => o[x] = ops[x]
<1> DEFINE open == In(ops, {"reserved", "in_flight"})
           r(op) == [ops[op] EXCEPT !.state = Recovered(@), !.updated = Now]
           o == [op \in DOMAIN ops |-> IF op \in open THEN r(op) ELSE ops[op]]
<1>1. RowsTyped /\ Now \in Nat /\ water \in Nat /\ water <= Now
  BY NowIsTime DEF RowsInv
<1>2. \E T : T \subseteq In(o, Terminal) /\ ops' = Trimmed(o, T)
  <2>1. \E T \in IF In(ops, {"reserved"}) = {} THEN {{}} ELSE Trims(o, {}) : ops' = Trimmed(o, T)
    BY DEF Crash
  <2> HIDE DEF o
  <2> QED BY <2>1 DEF Trims
<1>3. UNCHANGED <<clock, wire>> /\ tasks' = << >> /\ water' = Now
  BY DEF Crash
<1>4. \A op \in DOMAIN ops : op \in open <=> ops[op].state \in {"reserved", "in_flight"}
  BY DEF In
<1>5. \A op \in open :
         /\ op \in DOMAIN ops /\ r(op) \in OpRow /\ r(op).seq = ops[op].seq
         /\ r(op).started = ops[op].started /\ r(op).updated = Now
         /\ ops[op].state = "in_flight" => r(op).state = "unknown"
         /\ ops[op].state = "reserved" => r(op).state = "not_sent"
  <2> SUFFICES ASSUME NEW op \in open
               PROVE  /\ op \in DOMAIN ops /\ r(op) \in OpRow /\ r(op).seq = ops[op].seq
                      /\ r(op).started = ops[op].started /\ r(op).updated = Now
                      /\ ops[op].state = "in_flight" => r(op).state = "unknown"
                      /\ ops[op].state = "reserved" => r(op).state = "not_sent"
    OBVIOUS
  <2>1. op \in DOMAIN ops /\ ops[op].state \in {"reserved", "in_flight"}
    BY DEF In
  <2>2. ops[op] \in OpRow
    BY <1>1, <2>1 DEF RowsTyped
  <2>3. ops[op].state = "in_flight" => Recovered(ops[op].state) = "unknown"
    BY DEF Recovered
  <2>4. ops[op].state = "reserved" => Recovered(ops[op].state) = "not_sent"
    BY DEF Recovered
  <2>5. Recovered(ops[op].state) \in States
    BY <2>1, <2>3, <2>4 DEF States, Unfinished, Terminal
  <2>6. r(op) = [ops[op] EXCEPT !.state = Recovered(ops[op].state), !.updated = Now]
    BY <2>2 DEF OpRow
  <2>7. /\ r(op) \in OpRow /\ r(op).seq = ops[op].seq /\ r(op).started = ops[op].started
        /\ r(op).updated = Now /\ r(op).state = Recovered(ops[op].state)
    <3> HIDE DEF r
    <3> QED BY <1>1, <2>2, <2>5, <2>6 DEF OpRow
  <2> HIDE DEF r
  <2> QED BY <2>1, <2>3, <2>4, <2>7
<1>6. /\ DOMAIN o = DOMAIN ops /\ \A op \in open : o[op] = r(op)
      /\ \A op \in DOMAIN ops : op \notin open => o[op] = ops[op]
      /\ o = [op \in DOMAIN ops |-> o[op]]
  <2>1. \A op \in open : op \in DOMAIN ops
    BY DEF In
  <2> HIDE DEF open, r
  <2> QED BY <2>1
<1> HIDE DEF o, r, open
<1>7. o \in [DOMAIN ops -> OpRow]
  BY ZenonT(30), <1>1, <1>5, <1>6 DEF RowsTyped
<1>8. Ages(o, ops')
  BY <1>2, <1>6, <1>7, Trimming
<1>9. \A op \in DOMAIN ops : o[op] = ops[op] \/ EndsAs(o, op)
  <2> SUFFICES ASSUME NEW op \in open
               PROVE  EndsAs(o, op)
    BY <1>6
  <2>1. /\ op \in DOMAIN ops /\ o[op].seq = ops[op].seq /\ o[op].started = ops[op].started
        /\ o[op].updated = Now /\ ops[op].state \in {"reserved", "in_flight"}
    BY <1>4, <1>5, <1>6
  <2>2. CASE ops[op].state = "in_flight"
    <3>1. o[op].state = "unknown"
      BY <1>5, <1>6, <2>2
    <3> QED BY <2>1, <3>1 DEF EndsAs, Claims, Lasting
  <2>3. CASE ops[op].state = "reserved"
    <3>1. o[op].state = "not_sent"
      BY <1>5, <1>6, <2>3
    <3>2. Claims(wire, "reserved", op, ops[op].started)
      BY <2>1, <2>3 DEF RowsInv, Honest
    <3>3. Claims(wire', "not_sent", op, ops[op].started)
      BY <1>3, <3>2 DEF Claims
    <3>4. op \in Trusted => \A i \in DOMAIN wire : wire[i].op = op /\ Possible(i)'
                               => wire[i].at + Day < water'
      <4> SUFFICES ASSUME op \in Trusted, NEW i \in DOMAIN wire, wire[i].op = op, Possible(i)
                   PROVE  wire[i].at + Day < Now
        BY <1>3 DEF Possible
      <4>1. ~Kept(i)
        BY <2>3 DEF Kept, Lasting
      <4>2. wire[i].at + Day < water
        BY <4>1 DEF RowsInv, Remembered
      <4>3. wire[i].at \in Nat /\ Day \in Nat
        BY <1>1, WireFields, NowIsTime
      <4> QED BY <1>1, <4>2, <4>3
    <3> QED BY <2>1, <3>1, <3>3, <3>4 DEF EndsAs
  <2> QED BY <2>1, <2>2, <2>3
<1>10. Closes(o, {})
  <2>1. TasksLeft({}) /\ WireKept
    <3>1. WireKept
      BY <1>1, <1>3, WireSame
    <3>2. TasksLeft({})
      BY <1>3, TasksGone
    <3> QED BY <3>1, <3>2
  <2>2. water' \in Nat /\ water <= water' /\ clock' \in Nat
    BY <1>1, <1>3 DEF RowsTyped
  <2> QED BY <1>3, <1>7, <1>8, <1>9, <2>1, <2>2 DEF Closes
<1>11. ASSUME NEW x \in DOMAIN ops
       PROVE  /\ o[x].seq = ops[x].seq
              /\ ops[x].state = "not_sent" => o[x].state = "not_sent"
              /\ ops[x].state = "unknown" => o[x].state = "unknown"
              /\ ops[x].state \notin {"reserved", "in_flight"} => o[x] = ops[x]
  BY <1>4, <1>5, <1>6
<1> QED BY <1>6, <1>8, <1>10, <1>11

\* A crash keeps rows and requests sound.
LEMMA CrashKeeps ==
    ASSUME RowsInv, Crash
    PROVE  RowsInv'
BY CrashCloses, Closing

\* A crash loses no row in doubt and revives none.
LEMMA CrashRows ==
    ASSUME RowsInv, Crash
    PROVE  /\ \A x \in DOMAIN ops' : /\ x \in DOMAIN ops /\ ops'[x].seq = ops[x].seq
                                     /\ ops[x].state = "not_sent" => ops'[x].state = "not_sent"
           /\ \A x \in DOMAIN ops : ops[x].state = "unknown"
                => x \in DOMAIN ops' /\ ops'[x].state = "unknown"
<1>1. PICK o : /\ Closes(o, {}) /\ Ages(o, ops') /\ DOMAIN o = DOMAIN ops
               /\ \A x \in DOMAIN ops :
                     /\ o[x].seq = ops[x].seq
                     /\ ops[x].state = "not_sent" => o[x].state = "not_sent"
                     /\ ops[x].state = "unknown" => o[x].state = "unknown"
  BY CrashCloses
<1>2. \A x \in DOMAIN ops' : /\ x \in DOMAIN ops /\ ops'[x].seq = ops[x].seq
                             /\ ops[x].state = "not_sent" => ops'[x].state = "not_sent"
  BY <1>1 DEF Ages
<1>3. \A x \in DOMAIN ops : ops[x].state = "unknown" => x \in DOMAIN ops' /\ ops'[x].state = "unknown"
  BY <1>1 DEF Ages, Unfinished
<1> QED BY <1>2, <1>3

\* Every step of the ledger, the senders, QQ and time keeps the rows' layer.
LEMMA RowsKept ==
    ASSUME Inv, [Next]_vars
    PROVE  RowsInv'
<1>0. /\ RowsInv /\ RowsTyped /\ Now \in Nat /\ water \in Nat /\ water <= Now /\ clock \in Nat
  BY NowIsTime DEF Inv, RowsInv, RowsTyped
<1>1. CASE UNCHANGED vars
  <2>1. UNCHANGED <<ops, water, tasks, wire, clock>>
    BY <1>1 DEF vars, ledger
  <2>2. TasksLeft(DOMAIN tasks) /\ WireKept
    <3>1. WireKept
      BY <1>0, <2>1, WireSame
    <3>2. TasksLeft(DOMAIN tasks)
      BY <1>0, <2>1, TasksSame
    <3> QED BY <3>1, <3>2
  <2> QED BY <1>0, <2>1, <2>2, OnlyRetention
<1>2. ASSUME UNCHANGED <<clock, wire, tasks>>, ops' = ops \/ (Ages(ops, ops') /\ water' = Now),
             water' = Now
      PROVE  RowsInv'
  <2>1. WireKept
    BY <1>0, <1>2, WireSame
  <2>2. TasksLeft(DOMAIN tasks)
    BY <1>0, <1>2, TasksSame
  <2> QED BY <1>0, <1>2, <2>1, <2>2, OnlyRetention
<1>3. CASE Prune
  <2>1. Ages(ops, ops')
    BY <1>0, <1>3, Pruning DEF Prune, PruneInto
  <2> QED BY <1>2, <1>3, <2>1 DEF Prune, PruneInto
<1>4. ASSUME NEW s \in Sources, Observe(s)
      PROVE  RowsInv'
  <2>1. Ages(ops, ops')
    BY <1>0, <1>4, Pruning DEF Observe, PruneInto
  <2> QED BY <1>2, <1>4, <2>1 DEF Observe, PruneInto
<1>5. ASSUME NEW op \in Ops, Reserve(op)
      PROVE  RowsInv'
  <2>1. \E o, mode, n : Starts(op, o, mode, n)
    BY <1>5, Reserving
  <2> QED BY <1>0, <2>1, StartKeeps
<1>6. ASSUME NEW op \in Ops, ReserveNative(op)
      PROVE  RowsInv'
  <2>1. \E o, mode, n : Starts(op, o, mode, n)
    BY <1>6, ReservingNative
  <2> QED BY <1>0, <2>1, StartKeeps
<1>7. ASSUME NEW op \in Ops, Submit(op)
      PROVE  RowsInv'
  BY <1>0, <1>7, SubmitKeeps
<1>8. ASSUME NEW op \in Ops, SwitchBeforeWire(op)
      PROVE  RowsInv'
  <2>1. op \in DOMAIN tasks /\ tasks[op].pc # "wire" /\ ToActive(op) /\ UNCHANGED <<clock, wire>>
    BY <1>8 DEF SwitchBeforeWire, Task
  <2>2. \E r, t : Turns(op, r, t)
    BY <1>0, <2>1, ToActiveTurns
  <2> QED BY <1>0, <2>2, TurnKeeps
<1>9. ASSUME NEW op \in Ops, Unauthorized(op)
      PROVE  RowsInv'
  BY <1>0, <1>9, UnauthorizedTurns, TurnKeeps
<1>10. ASSUME NEW op \in Ops, SwitchActive(op)
       PROVE  RowsInv'
  <2>1. /\ op \in DOMAIN tasks /\ wire[tasks[op].req].fate = "refused" /\ ToActive(op)
        /\ UNCHANGED <<clock, wire>>
    BY <1>10 DEF SwitchActive, Task, Verdict, answerFrame
  <2>2. \E r, t : Turns(op, r, t)
    BY <1>0, <2>1, ToActiveTurns
  <2> QED BY <1>0, <2>2, TurnKeeps
<1>11. ASSUME NEW op \in Ops, SwitchPassive(op)
       PROVE  RowsInv'
  <2>1. \E r, t : Turns(op, r, t)
    BY <1>11, PassiveTurns
  <2> QED BY <1>0, <2>1, TurnKeeps
<1>12. ASSUME NEW op \in DOMAIN tasks, NEW state \in {"not_sent", "rejected"}, Finish(op, state),
              WireKept, UNCHANGED clock,
              tasks[op].pc = "wire" => wire'[tasks[op].req].fate = "refused"
       PROVE  RowsInv'
  <2>1. state \in Terminal \cup {"unknown"}
    BY DEF Terminal
  <2>2. /\ Claims(wire', state, op, ops[op].started)
        /\ op \in Trusted => \A i \in DOMAIN wire :
             wire[i].op = op /\ Possible(i)' => wire[i].at + Day < ops[op].started
    BY <1>0, <1>12, NothingReached
  <2> QED BY <1>0, <1>12, <2>1, <2>2, FinishKeeps
<1>13. ASSUME NEW op \in Ops, GiveUp(op)
       PROVE  RowsInv'
  <2>1. op \in DOMAIN tasks /\ tasks[op].pc # "wire" /\ UNCHANGED <<clock, wire>>
    BY <1>13 DEF GiveUp, Task, answerFrame
  <2>2. WireKept
    BY <1>0, <2>1, WireSame
  <2>3. \E state \in {"not_sent", "rejected"} : Finish(op, state)
    BY <1>13 DEF GiveUp
  <2> QED BY <1>12, <2>1, <2>2, <2>3
<1>14. ASSUME NEW op \in Ops, Rejected(op)
       PROVE  RowsInv'
  <2>1. /\ op \in DOMAIN tasks /\ wire[tasks[op].req].fate = "refused" /\ UNCHANGED <<clock, wire>>
        /\ Finish(op, "rejected")
    BY <1>14 DEF Rejected, Task, Verdict, answerFrame
  <2>2. WireKept
    BY <1>0, <2>1, WireSame
  <2> QED BY <1>12, <2>1, <2>2
<1>15. ASSUME NEW op \in Ops, ConnectFailed(op)
       PROVE  RowsInv'
  <2>1. /\ op \in DOMAIN tasks /\ tasks[op].pc = "wire" /\ wire[tasks[op].req].fate = "open"
        /\ wire' = [wire EXCEPT ![tasks[op].req].fate = "refused"]
        /\ Finish(op, "not_sent") /\ UNCHANGED clock
    BY <1>15 DEF ConnectFailed, Task, Verdict
  <2>2. tasks[op].req \in DOMAIN wire
    BY <1>0, <2>1, UnderWay
  <2>3. WireKept /\ wire'[tasks[op].req].fate = "refused"
    BY <1>0, <2>1, <2>2, Decided
  <2> QED BY <1>12, <2>1, <2>3
<1>16. ASSUME NEW op \in Ops, Confirmed(op)
       PROVE  RowsInv'
  <2>1. /\ op \in DOMAIN tasks /\ tasks[op].pc = "wire" /\ wire[tasks[op].req].fate = "accepted"
        /\ UNCHANGED <<clock, wire>> /\ Finish(op, "sent")
    BY <1>16 DEF Confirmed, Task, Verdict, answerFrame
  <2>2. WireKept
    BY <1>0, <2>1, WireSame
  <2>3. /\ tasks[op].req \in DOMAIN wire /\ wire[tasks[op].req].op = op
        /\ ops[op].started <= wire[tasks[op].req].at
        /\ ops[op].started \in Nat /\ wire[tasks[op].req].at \in Nat
    BY <1>0, <2>1, UnderWay, WireFields
  <2>4. Claims(wire', "sent", op, ops[op].started)
    <3>1. wire[tasks[op].req].at >= ops[op].started
      BY <2>3
    <3> QED BY <2>1, <2>3, <3>1 DEF Claims
  <2>5. "sent" \in Lasting /\ "sent" \in Terminal \cup {"unknown"}
    BY DEF Lasting, Terminal
  <2> QED BY <1>0, <2>1, <2>2, <2>4, <2>5, FinishKeeps
<1>17. ASSUME NEW op \in Ops, Uncertain(op)
       PROVE  RowsInv'
  <2>1. op \in DOMAIN tasks /\ UNCHANGED <<clock, wire>> /\ Finish(op, "unknown")
    BY <1>17 DEF Uncertain, Task, answerFrame
  <2>2. WireKept
    BY <1>0, <2>1, WireSame
  <2>3. Claims(wire', "unknown", op, ops[op].started)
    BY DEF Claims
  <2>4. "unknown" \in Lasting /\ "unknown" \in Terminal \cup {"unknown"}
    BY DEF Lasting, Terminal
  <2> QED BY <1>0, <2>1, <2>2, <2>3, <2>4, FinishKeeps
<1>18. ASSUME NEW op \in Ops, BadReceipt(op)
       PROVE  RowsInv'
  <2>1. op \in DOMAIN tasks /\ UNCHANGED <<clock, wire>> /\ Finish(op, "not_sent") /\ op \notin Trusted
    BY <1>18 DEF BadReceipt, Task, answerFrame, Trusted
  <2>2. WireKept
    BY <1>0, <2>1, WireSame
  <2>3. Claims(wire', "not_sent", op, ops[op].started)
    BY <2>1 DEF Claims
  <2>4. "not_sent" \in Terminal \cup {"unknown"}
    BY DEF Terminal
  <2> QED BY <1>0, <2>1, <2>2, <2>3, <2>4, FinishKeeps
<1>19. ASSUME NEW op \in Ops, StorageFault(op)
       PROVE  RowsInv'
  <2> DEFINE K == DOMAIN tasks \ {op}
  <2>1. UNCHANGED <<clock, wire, ops, water>> /\ tasks' = Restriction(tasks, K)
    BY <1>19 DEF StorageFault, EndTask, answerFrame
  <2>2. WireKept
    BY <1>0, <2>1, WireSame
  <2>3. TasksLeft(K)
    BY <1>0, <2>1, TasksRestricted
  <2>4. Closes(ops, K)
    BY <1>0, <2>1, <2>2, <2>3 DEF Closes, RowsTyped
  <2> QED BY <1>0, <2>4, Closing
<1>20. ASSUME NEW i \in DOMAIN wire, QQActs(i)
       PROVE  RowsInv'
  <2>1. UNCHANGED <<clock, ops, water, tasks>>
    BY <1>20 DEF QQActs, ledger
  <2>2. WireKept
    BY <1>0, <1>20, Decided DEF QQActs
  <2>3. TasksLeft(DOMAIN tasks)
    BY <1>0, <2>1, TasksSame
  <2> QED BY <1>0, <2>1, <2>2, <2>3, OnlyRetention
<1>21. CASE SetClock
  <2>1. UNCHANGED <<wire, ops, water, tasks>> /\ clock' \in Nat
    BY <1>21, LimitsAssumption DEF SetClock, ledger
  <2>2. WireKept
    BY <1>0, <2>1, WireSame
  <2>3. TasksLeft(DOMAIN tasks)
    BY <1>0, <2>1, TasksSame
  <2> QED BY <1>0, <2>1, <2>2, <2>3, OnlyRetention
<1>22. CASE Reload
  <2>1. UNCHANGED <<wire, ops, water, tasks, clock>>
    BY <1>22 DEF Reload, ledger
  <2>2. WireKept
    BY <1>0, <2>1, WireSame
  <2>3. TasksLeft(DOMAIN tasks)
    BY <1>0, <2>1, TasksSame
  <2> QED BY <1>0, <2>1, <2>2, <2>3, OnlyRetention
<1>23. CASE Crash
  BY <1>0, <1>23, CrashKeeps
<1> QED BY <1>1, <1>3, <1>4, <1>5, <1>6, <1>7, <1>8, <1>9, <1>10, <1>11, <1>13, <1>14, <1>15,
           <1>16, <1>17, <1>18, <1>19, <1>20, <1>21, <1>22, <1>23 DEF Next

-----------------------------------------------------------------------------
(* Every step keeps sequences distinct.                                    *)

\* A row that held a sequence may go or give it up; claims may go.
LeavesRow(x) ==
    /\ x \in DOMAIN ops
    /\ ops'[x].seq # 0 /\ ops'[x].state # "not_sent" => ops'[x].seq = ops[x].seq /\ Holds(x)
Shrinks ==
    /\ \A x \in DOMAIN ops' : LeavesRow(x)
    /\ seqs' \in [DOMAIN seqs' -> Nat] /\ bound' \in [DOMAIN bound' -> Nat]
    /\ DOMAIN bound' \subseteq DOMAIN bound
    /\ \A x \in DOMAIN seqs' : x \in DOMAIN seqs /\ seqs'[x] = seqs[x]

\* The claims a transaction still sees.
LEMMA KeptSeqsRows ==
    /\ DOMAIN KeptSeqs = DOMAIN seqs \cap DOMAIN bound
    /\ \A x \in DOMAIN KeptSeqs : KeptSeqs[x] = seqs[x]
BY DEF KeptSeqs, Restriction

\* The same after a step.
LEMMA KeptSeqsRowsNext ==
    /\ DOMAIN KeptSeqs' = DOMAIN seqs' \cap DOMAIN bound'
    /\ \A x \in DOMAIN KeptSeqs' : KeptSeqs'[x] = seqs'[x]
BY DEF KeptSeqs, Restriction

\* Whatever goes, the rest stays distinct.
LEMMA Shrinking ==
    ASSUME SeqsTyped, Distinct, Shrinks
    PROVE  SeqsTyped' /\ Distinct'
<1>1. \A x \in DOMAIN ops' : Holds(x)' => Holds(x) /\ ops'[x].seq = ops[x].seq /\ x \in DOMAIN ops
  BY DEF Shrinks, LeavesRow, Holds
<1>2. \A x \in DOMAIN KeptSeqs' : x \in DOMAIN KeptSeqs /\ KeptSeqs'[x] = KeptSeqs[x]
  <2>1. \A x \in DOMAIN seqs' \cap DOMAIN bound' :
           x \in DOMAIN seqs \cap DOMAIN bound /\ seqs'[x] = seqs[x]
    BY DEF Shrinks
  <2> QED BY <2>1, KeptSeqsRows, KeptSeqsRowsNext
<1>3. SeqsTyped'
  <2>1. DOMAIN seqs' \subseteq DOMAIN seqs /\ DOMAIN ops' \subseteq DOMAIN ops
    BY DEF Shrinks, LeavesRow
  <2>2. IsFiniteSet(DOMAIN seqs') /\ IsFiniteSet(DOMAIN ops')
    BY <2>1, FS_Subset DEF SeqsTyped
  <2> QED BY <2>1, <2>2 DEF Shrinks, SeqsTyped
<1> HIDE DEF KeptSeqs, Holds
<1>4. \A x, y \in DOMAIN ops' : x # y /\ Holds(x)' /\ Holds(y)' /\ Src[x] = Src[y]
                                /\ Src[x] # NoSource => ops'[x].seq # ops'[y].seq
  BY <1>1 DEF Distinct
<1>5. \A x \in DOMAIN KeptSeqs', y \in DOMAIN ops' :
          x # y /\ Holds(y)' /\ Src[x] = Src[y] => KeptSeqs'[x] # ops'[y].seq
  BY <1>1, <1>2 DEF Distinct
<1>6. \A x, y \in DOMAIN KeptSeqs' : x # y /\ Src[x] = Src[y] => KeptSeqs'[x] # KeptSeqs'[y]
  BY <1>2 DEF Distinct
<1>7. \A x \in DOMAIN seqs' : seqs'[x] # 0 /\ Src[x] # NoSource
  BY DEF Shrinks, Distinct
<1>8. Distinct'
  BY <1>4, <1>5, <1>6, <1>7 DEF Distinct
<1> QED BY <1>3, <1>8

\* op takes n, which no other row or claim of its source holds.
Takes(op, n) ==
    /\ \A x \in DOMAIN ops' : IF x = op THEN ops'[x].seq = n ELSE LeavesRow(x)
    /\ seqs' \in [DOMAIN seqs' -> Nat] /\ bound' \in [DOMAIN bound' -> Nat]
    /\ DOMAIN bound' \subseteq DOMAIN bound \cup {op}
    /\ \A x \in DOMAIN seqs' : x # op => x \in DOMAIN seqs /\ seqs'[x] = seqs[x]
    /\ op \in DOMAIN seqs' => \/ seqs'[op] = n /\ n # 0 /\ Src[op] # NoSource
                              \/ op \in DOMAIN KeptSeqs /\ seqs'[op] = KeptSeqs[op]
                              \/ op \in DOMAIN seqs /\ seqs'[op] = seqs[op] /\ bound' = bound
    /\ n # 0 /\ Src[op] # NoSource =>
          /\ \A x \in DOMAIN KeptSeqs : x # op /\ Src[x] = Src[op] => KeptSeqs[x] # n
          /\ \A y \in DOMAIN ops' : y # op /\ Holds(y)' /\ Src[y] = Src[op] => ops'[y].seq # n

\* A sequence that was free is a distinct one.
LEMMA Taking ==
    ASSUME SeqsTyped, Distinct, NEW op \in Ops, NEW n, Takes(op, n)
    PROVE  SeqsTyped' /\ Distinct'
<1>1. \A x \in DOMAIN ops' : x # op /\ Holds(x)' => Holds(x) /\ ops'[x].seq = ops[x].seq /\ x \in DOMAIN ops
  BY DEF Takes, LeavesRow, Holds
<1>2. \A x \in DOMAIN KeptSeqs' : x # op => x \in DOMAIN KeptSeqs /\ KeptSeqs'[x] = KeptSeqs[x]
  <2>1. \A x \in DOMAIN seqs' \cap DOMAIN bound' : x # op =>
           x \in DOMAIN seqs \cap DOMAIN bound /\ seqs'[x] = seqs[x]
    BY DEF Takes
  <2> QED BY <2>1, KeptSeqsRows, KeptSeqsRowsNext
<1>3. op \in DOMAIN KeptSeqs' => \/ KeptSeqs'[op] = n /\ n # 0 /\ Src[op] # NoSource
                                 \/ op \in DOMAIN KeptSeqs /\ KeptSeqs'[op] = KeptSeqs[op]
  <2> SUFFICES ASSUME op \in DOMAIN KeptSeqs'
               PROVE  \/ KeptSeqs'[op] = n /\ n # 0 /\ Src[op] # NoSource
                      \/ op \in DOMAIN KeptSeqs /\ KeptSeqs'[op] = KeptSeqs[op]
    OBVIOUS
  <2>1. op \in DOMAIN seqs' /\ op \in DOMAIN bound' /\ KeptSeqs'[op] = seqs'[op]
    BY KeptSeqsRowsNext
  <2> HIDE DEF KeptSeqs
  <2>2. CASE op \in DOMAIN seqs /\ seqs'[op] = seqs[op] /\ bound' = bound
    <3>1. op \in DOMAIN KeptSeqs /\ KeptSeqs[op] = seqs[op]
      BY <2>1, <2>2, KeptSeqsRows
    <3> QED BY <2>1, <2>2, <3>1
  <2> QED BY <2>1, <2>2 DEF Takes
<1>4. SeqsTyped'
  <2>1. DOMAIN seqs' \subseteq DOMAIN seqs \cup {op} /\ DOMAIN ops' \subseteq DOMAIN ops \cup {op}
    BY DEF Takes, LeavesRow
  <2>2. IsFiniteSet(DOMAIN seqs \cup {op}) /\ IsFiniteSet(DOMAIN ops \cup {op})
    BY FS_AddElement DEF SeqsTyped
  <2>3. IsFiniteSet(DOMAIN seqs') /\ IsFiniteSet(DOMAIN ops')
    BY <2>1, <2>2, FS_Subset
  <2> QED BY <2>1, <2>3 DEF Takes, SeqsTyped
<1>5. op \in DOMAIN ops' => ops'[op].seq = n /\ (Holds(op)' => n # 0)
  BY DEF Takes, Holds
<1>6. n # 0 /\ Src[op] # NoSource =>
          /\ \A x \in DOMAIN KeptSeqs : x # op /\ Src[x] = Src[op] => KeptSeqs[x] # n
          /\ \A y \in DOMAIN ops' : y # op /\ Holds(y)' /\ Src[y] = Src[op] => ops'[y].seq # n
  BY DEF Takes
<1>7. \A x \in DOMAIN KeptSeqs : Src[x] # NoSource
  BY KeptSeqsRows DEF Distinct
<1> HIDE DEF KeptSeqs, Holds
<1>8. \A x, y \in DOMAIN ops' : x # y /\ Holds(x)' /\ Holds(y)' /\ Src[x] = Src[y]
                                /\ Src[x] # NoSource => ops'[x].seq # ops'[y].seq
  <2> SUFFICES ASSUME NEW x \in DOMAIN ops', NEW y \in DOMAIN ops', x # y, Holds(x)', Holds(y)',
                      Src[x] = Src[y], Src[x] # NoSource
               PROVE  ops'[x].seq # ops'[y].seq
    OBVIOUS
  <2>1. CASE x = op
    BY <1>5, <1>6, <2>1
  <2>2. CASE y = op
    BY <1>5, <1>6, <2>2
  <2>3. CASE x # op /\ y # op
    BY <1>1, <2>3 DEF Distinct
  <2> QED BY <2>1, <2>2, <2>3
<1>9. \A x \in DOMAIN KeptSeqs', y \in DOMAIN ops' :
          x # y /\ Holds(y)' /\ Src[x] = Src[y] => KeptSeqs'[x] # ops'[y].seq
  <2> SUFFICES ASSUME NEW x \in DOMAIN KeptSeqs', NEW y \in DOMAIN ops', x # y, Holds(y)',
                      Src[x] = Src[y]
               PROVE  KeptSeqs'[x] # ops'[y].seq
    OBVIOUS
  <2>1. CASE y = op
    <3>1. x \in DOMAIN KeptSeqs /\ KeptSeqs'[x] = KeptSeqs[x] /\ Src[op] # NoSource
      BY <1>2, <1>7, <2>1
    <3> QED BY <1>5, <1>6, <2>1, <3>1
  <2>2. CASE y # op /\ x # op
    BY <1>1, <1>2, <2>2 DEF Distinct
  <2>3. CASE x = op /\ KeptSeqs'[op] = n /\ n # 0 /\ Src[op] # NoSource
    BY <1>6, <2>3
  <2>4. CASE x = op /\ op \in DOMAIN KeptSeqs /\ KeptSeqs'[op] = KeptSeqs[op]
    BY <1>1, <2>4 DEF Distinct
  <2> QED BY <1>3, <2>1, <2>2, <2>3, <2>4
<1>10. \A x, y \in DOMAIN KeptSeqs' : x # y /\ Src[x] = Src[y] => KeptSeqs'[x] # KeptSeqs'[y]
  <2>1. ASSUME NEW y \in DOMAIN KeptSeqs', y # op, op \in DOMAIN KeptSeqs', Src[y] = Src[op]
        PROVE  KeptSeqs'[op] # KeptSeqs'[y]
    <3>1. y \in DOMAIN KeptSeqs /\ KeptSeqs'[y] = KeptSeqs[y]
      BY <1>2, <2>1
    <3> QED BY <1>3, <1>6, <2>1, <3>1 DEF Distinct
  <2>2. \A x, y \in DOMAIN KeptSeqs' : x # y /\ x # op /\ y # op /\ Src[x] = Src[y]
                                          => KeptSeqs'[x] # KeptSeqs'[y]
    BY <1>2 DEF Distinct
  <2> QED BY <2>1, <2>2
<1>11. \A x \in DOMAIN seqs' : seqs'[x] # 0 /\ Src[x] # NoSource
  <2> SUFFICES ASSUME NEW x \in DOMAIN seqs' PROVE seqs'[x] # 0 /\ Src[x] # NoSource
    OBVIOUS
  <2>1. CASE x # op
    BY <2>1 DEF Takes, Distinct
  <2>2. CASE x = op
    <3>1. op \in DOMAIN KeptSeqs => op \in DOMAIN seqs /\ KeptSeqs[op] = seqs[op]
      BY KeptSeqsRows
    <3> QED BY <2>2, <3>1 DEF Takes, Distinct
  <2> QED BY <2>1, <2>2
<1>12. Distinct'
  BY <1>8, <1>9, <1>10, <1>11 DEF Distinct
<1> QED BY <1>4, <1>12

\* What is not in use of a source is held by no row of o and no claim.
LEMMA NotInUse ==
    ASSUME NEW o, NEW s, NEW n, n \notin InUse(o, s)
    PROVE  /\ \A x \in DOMAIN KeptSeqs : Src[x] = s => KeptSeqs[x] # n
           /\ \A y \in DOMAIN o : o[y].seq # 0 /\ o[y].state # "not_sent" /\ Src[y] = s => o[y].seq # n
BY DEF InUse, Claimed, Fenced

\* Retention gives back the sequences of what it drops, and takes none.
LEMMA AgesLeaves ==
    ASSUME NEW o, Ages(ops, o), NEW x \in DOMAIN ops', x \in DOMAIN o, ops'[x] = o[x]
    PROVE  LeavesRow(x)
<1>1. /\ x \in DOMAIN ops /\ o[x].seq = ops[x].seq
      /\ o[x].state = ops[x].state \/ ops[x].state = "sent"
  BY DEF Ages
<1> QED BY <1>1 DEF LeavesRow, Holds

\* The claims and bindings a transaction leaves.
LEMMA ClaimsPruned ==
    ASSUME SeqsTyped
    PROVE  /\ KeptSeqs \in [DOMAIN KeptSeqs -> Nat]
           /\ \A x \in DOMAIN KeptSeqs : x \in DOMAIN seqs /\ x \in DOMAIN bound /\ KeptSeqs[x] = seqs[x]
           /\ \A o : /\ DOMAIN KeptBound(o) \subseteq DOMAIN bound
                     /\ KeptBound(o) \in [DOMAIN KeptBound(o) -> Nat]
BY DEF SeqsTyped, KeptSeqs, KeptBound, Restriction

\* The claims that a set of operations loses.
LEMMA ClaimsRestricted ==
    ASSUME SeqsTyped, NEW K \in SUBSET DOMAIN seqs, seqs' = Restriction(seqs, K) \/ seqs' = seqs
    PROVE  seqs' \in [DOMAIN seqs' -> Nat] /\ \A x \in DOMAIN seqs' : x \in DOMAIN seqs /\ seqs'[x] = seqs[x]
BY DEF SeqsTyped, Restriction

\* A reservation takes a sequence nobody holds, or none.
LEMMA StartTakes ==
    ASSUME RowsInv, SeqsTyped, Distinct, NEW op \in Ops, NEW o, NEW mode, NEW n,
           Starts(op, o, mode, n), Claiming(op, o, n)
    PROVE  Takes(op, n)
<1> DEFINE row == [state |-> "reserved", seq |-> n, started |-> Now, updated |-> Now]
<1>1. /\ Ages(ops, o) /\ op \notin DOMAIN o /\ n \in Nat /\ Now \in Nat
      /\ ops' = Extend(o, op, row) /\ row.seq = n
  BY NowIsTime DEF Starts, RowsInv
<1> HIDE DEF row
<1>2. /\ DOMAIN ops' = DOMAIN o \cup {op} /\ ops'[op] = row
      /\ \A x \in DOMAIN ops' : x # op => x \in DOMAIN o /\ ops'[x] = o[x]
  BY <1>1 DEF Extend
<1>3. \A x \in DOMAIN ops' : x # op => LeavesRow(x)
  BY <1>1, <1>2, AgesLeaves
<1>4. /\ KeptSeqs \in [DOMAIN KeptSeqs -> Nat]
      /\ \A x \in DOMAIN KeptSeqs : x \in DOMAIN seqs /\ KeptSeqs[x] = seqs[x]
      /\ DOMAIN KeptBound(o) \subseteq DOMAIN bound
      /\ KeptBound(o) \in [DOMAIN KeptBound(o) -> Nat]
  BY ClaimsPruned
<1> HIDE DEF KeptSeqs, KeptBound
<1>5. bound' \in [DOMAIN bound' -> Nat] /\ DOMAIN bound' \subseteq DOMAIN bound \cup {op}
  BY <1>1, <1>4 DEF Claiming, Extend
<1>6. ASSUME n \notin InUse(o, Src[op]) \/ (op \in DOMAIN KeptSeqs /\ n = KeptSeqs[op])
      PROVE  /\ \A x \in DOMAIN KeptSeqs : x # op /\ Src[x] = Src[op] => KeptSeqs[x] # n
             /\ \A y \in DOMAIN ops' : y # op /\ Holds(y)' /\ Src[y] = Src[op] => ops'[y].seq # n
  <2>1. CASE n \notin InUse(o, Src[op])
    <3>1. /\ \A x \in DOMAIN KeptSeqs : Src[x] = Src[op] => KeptSeqs[x] # n
          /\ \A y \in DOMAIN o : o[y].seq # 0 /\ o[y].state # "not_sent" /\ Src[y] = Src[op] => o[y].seq # n
      BY <2>1, NotInUse
    <3> QED BY <1>2, <3>1 DEF Holds
  <2>2. CASE op \in DOMAIN KeptSeqs /\ n = KeptSeqs[op]
    <3>1. \A x \in DOMAIN KeptSeqs : x # op /\ Src[x] = Src[op] => KeptSeqs[x] # n
      BY <2>2 DEF Distinct
    <3>2. \A y \in DOMAIN ops' : y # op /\ Holds(y)' => y \in DOMAIN ops /\ Holds(y) /\ ops'[y].seq = ops[y].seq
      BY <1>3 DEF LeavesRow, Holds
    <3>3. \A y \in DOMAIN ops' : y # op /\ Holds(y)' /\ Src[y] = Src[op] => ops'[y].seq # n
      BY <2>2, <3>2 DEF Distinct
    <3> QED BY <3>1, <3>3
  <2> QED BY <1>6, <2>1, <2>2
<1>7. CASE seqs' = KeptSeqs /\ (n = 0 \/ Src[op] = NoSource \/ n \notin InUse(o, Src[op]))
  BY <1>1, <1>2, <1>3, <1>4, <1>5, <1>6, <1>7 DEF Takes
<1>8. CASE /\ seqs' = Extend(KeptSeqs, op, n) /\ Src[op] # NoSource /\ n # 0
           /\ \/ op \in DOMAIN KeptSeqs /\ n = KeptSeqs[op]
              \/ op \notin DOMAIN KeptSeqs /\ n \notin InUse(o, Src[op])
  <2>1. /\ seqs' \in [DOMAIN seqs' -> Nat] /\ seqs'[op] = n
        /\ \A x \in DOMAIN seqs' : x # op => x \in DOMAIN KeptSeqs /\ seqs'[x] = KeptSeqs[x]
    BY <1>1, <1>4, <1>8 DEF Extend
  <2>2. \A x \in DOMAIN seqs' : x # op => x \in DOMAIN seqs /\ seqs'[x] = seqs[x]
    BY <1>4, <2>1
  <2> QED BY <1>1, <1>2, <1>3, <1>5, <1>6, <1>8, <2>1, <2>2 DEF Takes
<1> QED BY <1>7, <1>8 DEF Claiming

\* An ended row keeps its sequence, or loses it with its claim.
LEMMA FinishShrinks ==
    ASSUME RowsInv, SeqsTyped, NEW op \in DOMAIN tasks, NEW state \in Terminal \cup {"unknown"},
           Finish(op, state), UNCHANGED bound
    PROVE  Shrinks
<1> DEFINE o == Ended(op, state)
<1>1. /\ Ages(o, ops') /\ \A x \in DOMAIN ops : x # op => o[x] = ops[x]
      /\ o[op].seq = ops[op].seq /\ DOMAIN o = DOMAIN ops
      /\ seqs' = IF state = "not_sent" THEN Restriction(seqs, DOMAIN seqs \ {op}) ELSE seqs
      /\ op \in DOMAIN ops /\ ops[op].state \in {"reserved", "in_flight"}
  BY Finishing DEF RowsInv
<1> HIDE DEF o
<1>2. ASSUME NEW x \in DOMAIN ops'
      PROVE  LeavesRow(x)
  <2>1. /\ x \in DOMAIN ops /\ ops'[x].seq = o[x].seq
        /\ ops'[x].state = o[x].state \/ o[x].state = "sent"
    BY <1>1 DEF Ages
  <2>2. CASE x = op
    BY <1>1, <2>1, <2>2 DEF LeavesRow, Holds
  <2>3. CASE x # op
    BY <1>1, <2>1, <2>3 DEF LeavesRow, Holds
  <2> QED BY <2>2, <2>3
<1>3. seqs' \in [DOMAIN seqs' -> Nat] /\ \A x \in DOMAIN seqs' : x \in DOMAIN seqs /\ seqs'[x] = seqs[x]
  BY <1>1, ClaimsRestricted
<1>4. bound' \in [DOMAIN bound' -> Nat] /\ DOMAIN bound' \subseteq DOMAIN bound
  BY DEF SeqsTyped
<1> QED BY <1>2, <1>3, <1>4 DEF Shrinks

\* A change of a send under way that gives its sequence up or keeps it.
LEMMA TurnShrinks ==
    ASSUME RowsInv, SeqsTyped, NEW op, NEW r, ops' = [ops EXCEPT ![op] = r], op \in DOMAIN tasks,
           r.seq = 0 \/ r.seq = ops[op].seq, UNCHANGED <<seqs, bound>>
    PROVE  Shrinks
<1>1. op \in DOMAIN ops /\ ops[op].state \in {"reserved", "in_flight"}
  BY UnderWay
<1>2. DOMAIN ops' = DOMAIN ops /\ ops'[op] = r /\ \A x \in DOMAIN ops : x # op => ops'[x] = ops[x]
  BY <1>1 DEF RowsInv, RowsTyped
<1>3. \A x \in DOMAIN ops' : LeavesRow(x)
  <2> SUFFICES ASSUME NEW x \in DOMAIN ops' PROVE LeavesRow(x)
    OBVIOUS
  <2>1. CASE x = op
    BY <1>1, <1>2, <2>1 DEF LeavesRow, Holds
  <2>2. CASE x # op
    BY <1>2, <2>2 DEF LeavesRow, Holds
  <2> QED BY <2>1, <2>2
<1> QED BY <1>3 DEF Shrinks, SeqsTyped

\* Ledgers that do not change take no sequence.
LEMMA SameShrinks == SeqsTyped /\ UNCHANGED <<ops, seqs, bound>> => Shrinks
BY DEF Shrinks, LeavesRow, SeqsTyped, Holds

\* A prune takes no sequence.
LEMMA PruneShrinks ==
    ASSUME SeqsTyped, Ages(ops, ops'), seqs' = KeptSeqs, NEW o, bound' = KeptBound(o)
    PROVE  Shrinks
<1>1. \A x \in DOMAIN ops' : LeavesRow(x)
  BY AgesLeaves
<1>2. /\ KeptSeqs \in [DOMAIN KeptSeqs -> Nat]
      /\ \A x \in DOMAIN KeptSeqs : x \in DOMAIN seqs /\ KeptSeqs[x] = seqs[x]
      /\ DOMAIN KeptBound(o) \subseteq DOMAIN bound
      /\ KeptBound(o) \in [DOMAIN KeptBound(o) -> Nat]
  BY ClaimsPruned
<1> HIDE DEF KeptSeqs, KeptBound
<1> QED BY <1>1, <1>2 DEF Shrinks

\* QQ's decisions, and time, bring no two requests under one sequence.
LEMMA UniqueKept ==
    ASSUME WireKept, Unique
    PROVE  Unique'
BY DEF WireKept, Unique, Possible

\* A request goes out under a sequence that whatever may have reached QQ
\* within the day for its source does not have.
LEMMA SubmitUnique ==
    ASSUME RowsInv, Distinct, Unique, NEW op \in Ops, Submit(op)
    PROVE  Unique'
<1> DEFINE n == Len(wire) + 1
           q == [op |-> op, src |-> Quoted(op), seq |-> tasks[op].seq, fate |-> "open", at |-> Now]
<1>0. /\ RowsTyped /\ Now \in Nat /\ water \in Nat /\ water <= Now /\ Day \in Nat
      /\ \A i \in DOMAIN wire : wire[i].at \in Nat
  BY NowIsTime, WireFields DEF RowsInv
<1>1. /\ op \in DOMAIN tasks /\ tasks[op].pc # "wire" /\ wire' = Append(wire, q)
  BY DEF Submit, Task
<1>2. /\ op \in DOMAIN ops /\ ops[op].state \in {"reserved", "in_flight"}
      /\ ops[op].started \in Nat /\ ops[op].started <= water
  BY <1>1, UnderWay
<1>3. /\ q.op = op /\ q.src = Quoted(op) /\ q.seq = ops[op].seq /\ q.at = Now
      /\ q.src # NoSource => q.src = Src[op] /\ q.seq # 0
  BY <1>1 DEF RowsInv, TasksFit, Quoted
<1>4. /\ n \in Nat /\ n \notin DOMAIN wire /\ \A i \in DOMAIN wire : i < n /\ i \in Nat
      /\ DOMAIN wire' = DOMAIN wire \cup {n} /\ wire'[n] = q
      /\ \A i \in DOMAIN wire : wire'[i] = wire[i]
  <2> HIDE DEF q
  <2> QED BY <1>0, <1>1 DEF RowsTyped
<1> HIDE DEF q, n
<1>5. \A i \in DOMAIN wire : Possible(i)' <=> Possible(i)
  BY <1>4 DEF Possible
<1>6. ASSUME NEW i \in DOMAIN wire, Possible(i), wire[i].op \in Trusted, op \in Trusted,
             wire[i].src = q.src, q.src # NoSource, Now <= wire[i].at + Day
      PROVE  wire[i].seq # q.seq
  <2> DEFINE x == wire[i].op
  <2>1. ~(wire[i].at + Day < water)
    BY <1>0, <1>6
  <2>2. Kept(i) /\ wire[i].src = Src[x] /\ wire[i].seq # 0
    BY <1>6, <2>1 DEF RowsInv, Remembered
  <2>3. x \in DOMAIN ops /\ ops[x].state \in Lasting /\ ops[x].seq = wire[i].seq
    BY <1>6, <2>2 DEF Kept
  <2>4. x # op
    <3> SUFFICES ASSUME x = op PROVE FALSE
      OBVIOUS
    <3>1. wire[i].at + Day < ops[op].started
      BY <1>1, <1>6, NothingUnderWay
    <3> QED BY <1>0, <1>2, <2>1, <3>1
  <2>5. Holds(x) /\ Holds(op) /\ Src[x] = Src[op] /\ Src[op] # NoSource
    BY <1>2, <1>3, <1>6, <2>2, <2>3 DEF Holds, Lasting
  <2> QED BY <1>2, <1>3, <2>3, <2>4, <2>5 DEF Distinct
<1>7. ASSUME NEW i \in DOMAIN wire', NEW j \in DOMAIN wire', i < j, Possible(i)', Possible(j)',
             wire'[i].op \in Trusted, wire'[j].op \in Trusted, wire'[i].src = wire'[j].src,
             wire'[i].src # NoSource, wire'[j].at <= wire'[i].at + Day
      PROVE  wire'[i].seq # wire'[j].seq
  <2>1. i \in DOMAIN wire
    <3>1. i # n
      BY <1>4, <1>7
    <3> QED BY <1>4, <3>1
  <2>2. CASE j = n
    BY <1>3, <1>4, <1>5, <1>6, <1>7, <2>1, <2>2
  <2>3. CASE j \in DOMAIN wire
    BY <1>4, <1>5, <1>7, <2>1, <2>3 DEF Unique
  <2> QED BY <1>4, <2>2, <2>3
<1> QED BY <1>7 DEF Unique

\* Requests are only ever added by Submit, and decided by QQ.
LEMMA WireMoves ==
    ASSUME RowsInv, [Next]_vars
    PROVE  WireKept \/ \E op \in Ops : Submit(op)
<1>0. RowsTyped
  BY DEF RowsInv
<1>1. UNCHANGED wire => WireKept
  BY <1>0, WireSame
<1>2. ASSUME NEW op \in Ops, ConnectFailed(op)
      PROVE  WireKept
  <2>1. /\ op \in DOMAIN tasks /\ tasks[op].pc = "wire" /\ wire[tasks[op].req].fate = "open"
        /\ wire' = [wire EXCEPT ![tasks[op].req].fate = "refused"]
    BY <1>2 DEF ConnectFailed, Task, Verdict
  <2>2. tasks[op].req \in DOMAIN wire
    BY <2>1, UnderWay
  <2> QED BY <1>0, <2>1, <2>2, Decided
<1>3. ASSUME NEW i \in DOMAIN wire, QQActs(i)
      PROVE  WireKept
  BY <1>0, <1>3, Decided DEF QQActs
<1>4. CASE UNCHANGED vars
  BY <1>1, <1>4 DEF vars
<1>5. CASE Prune \/ (\E s \in Sources : Observe(s)) \/ SetClock \/ Reload \/ Crash
  BY <1>1, <1>5 DEF Prune, Observe, SetClock, Reload, Crash
<1>6. CASE \E op \in Ops : Reserve(op) \/ ReserveNative(op) \/ SwitchBeforeWire(op) \/ Unauthorized(op)
  BY <1>1, <1>6 DEF Reserve, ReserveNative, SwitchBeforeWire, Unauthorized
<1>7. CASE \E op \in Ops : \/ GiveUp(op) \/ Confirmed(op) \/ Uncertain(op) \/ BadReceipt(op)
                           \/ Rejected(op) \/ SwitchActive(op) \/ SwitchPassive(op) \/ StorageFault(op)
  BY <1>1, <1>7 DEF answerFrame, GiveUp, Confirmed, Uncertain, BadReceipt, Rejected, SwitchActive,
                    SwitchPassive, StorageFault
<1> QED BY <1>2, <1>3, <1>4, <1>5, <1>6, <1>7 DEF Next

\* Every step keeps the sequences' layer.
LEMMA SeqsKept ==
    ASSUME Inv, [Next]_vars
    PROVE  SeqsInv'
<1>0. RowsInv /\ RowsTyped /\ SeqsTyped /\ Distinct /\ Unique
  BY DEF Inv, RowsInv, SeqsInv
<1>1. Unique'
  BY <1>0, WireMoves, UniqueKept, SubmitUnique
<1> SUFFICES SeqsTyped' /\ Distinct'
  BY <1>1 DEF SeqsInv
<1>2. Shrinks => SeqsTyped' /\ Distinct'
  BY <1>0, Shrinking
<1>3. CASE UNCHANGED vars
  BY <1>0, <1>2, <1>3, SameShrinks DEF vars, ledger
<1>4. CASE Prune
  <2>1. Ages(ops, ops') /\ seqs' = KeptSeqs /\ \E o : bound' = KeptBound(o)
    BY <1>0, <1>4, Pruning DEF Prune, PruneInto
  <2> QED BY <1>0, <1>2, <2>1, PruneShrinks
<1>5. ASSUME NEW s \in Sources, Observe(s)
      PROVE  SeqsTyped' /\ Distinct'
  <2>1. Ages(ops, ops') /\ seqs' = KeptSeqs /\ \E o : bound' = KeptBound(o)
    BY <1>0, <1>5, Pruning DEF Observe, PruneInto
  <2> QED BY <1>0, <1>2, <2>1, PruneShrinks
<1>6. ASSUME NEW op \in Ops, Reserve(op)
      PROVE  SeqsTyped' /\ Distinct'
  <2>1. PICK o, mode, n : Starts(op, o, mode, n) /\ Claiming(op, o, n)
    BY <1>6, Reserving
  <2>2. Takes(op, n)
    BY <1>0, <2>1, StartTakes
  <2> QED BY <1>0, <2>2, Taking
<1>7. ASSUME NEW op \in Ops, ReserveNative(op)
      PROVE  SeqsTyped' /\ Distinct'
  <2>1. PICK o, mode, n : Starts(op, o, mode, n) /\ Claiming(op, o, n)
    BY <1>7, ReservingNative
  <2>2. Takes(op, n)
    BY <1>0, <2>1, StartTakes
  <2> QED BY <1>0, <2>2, Taking
<1>8. ASSUME NEW op \in Ops, Submit(op)
      PROVE  SeqsTyped' /\ Distinct'
  <2> DEFINE r == [ops[op] EXCEPT !.state = "in_flight", !.updated = Now]
  <2>1. op \in DOMAIN tasks /\ ops' = [ops EXCEPT ![op] = r] /\ UNCHANGED <<seqs, bound>>
    BY <1>8 DEF Submit, Task
  <2>2. r.seq = ops[op].seq
    <3>1. ops[op] \in OpRow
      BY <1>0, <2>1, UnderWay
    <3> QED BY <3>1 DEF OpRow
  <2> HIDE DEF r
  <2> QED BY <1>0, <1>2, <2>1, <2>2, TurnShrinks
<1>9. ASSUME NEW op \in Ops, SwitchBeforeWire(op)
      PROVE  SeqsTyped' /\ Distinct'
  <2>1. /\ op \in DOMAIN tasks /\ tasks[op].pc # "wire" /\ ToActive(op)
        /\ UNCHANGED <<clock, wire, seqs, bound>>
    BY <1>9 DEF SwitchBeforeWire, Task
  <2>2. PICK r, t : Turns(op, r, t) /\ r.seq = 0
    BY <1>0, <2>1, ToActiveTurns
  <2> QED BY <1>0, <1>2, <2>1, <2>2, TurnShrinks DEF Turns
<1>10. ASSUME NEW op \in Ops, SwitchActive(op)
       PROVE  SeqsTyped' /\ Distinct'
  <2>1. /\ op \in DOMAIN tasks /\ wire[tasks[op].req].fate = "refused" /\ ToActive(op)
        /\ UNCHANGED <<clock, wire, seqs, bound>>
    BY <1>10 DEF SwitchActive, Task, Verdict, answerFrame
  <2>2. PICK r, t : Turns(op, r, t) /\ r.seq = 0
    BY <1>0, <2>1, ToActiveTurns
  <2> QED BY <1>0, <1>2, <2>1, <2>2, TurnShrinks DEF Turns
<1>11. ASSUME NEW op \in Ops, SwitchPassive(op)
       PROVE  SeqsTyped' /\ Distinct'
  <2>1. PICK r, t : Turns(op, r, t) /\ r.seq \notin InUse(ops, Src[op])
    BY <1>11, PassiveTurns
  <2>2. op \in DOMAIN tasks /\ ops' = [ops EXCEPT ![op] = r] /\ UNCHANGED <<seqs, bound>>
    BY <1>11, <2>1 DEF SwitchPassive, answerFrame, Turns
  <2>3. op \in DOMAIN ops
    BY <1>0, <2>2, UnderWay
  <2>4. DOMAIN ops' = DOMAIN ops /\ ops'[op] = r /\ \A x \in DOMAIN ops : x # op => ops'[x] = ops[x]
    BY <1>0, <2>2, <2>3 DEF RowsTyped
  <2>5. \A x \in DOMAIN ops' : IF x = op THEN ops'[x].seq = r.seq ELSE LeavesRow(x)
    BY <2>4 DEF LeavesRow, Holds
  <2>6. /\ \A x \in DOMAIN KeptSeqs : Src[x] = Src[op] => KeptSeqs[x] # r.seq
        /\ \A y \in DOMAIN ops' : y # op /\ Holds(y)' /\ Src[y] = Src[op] => ops'[y].seq # r.seq
    BY <2>1, <2>4, NotInUse DEF Holds
  <2> HIDE DEF KeptSeqs
  <2>7. Takes(op, r.seq)
    BY <1>0, <2>2, <2>5, <2>6 DEF Takes, SeqsTyped
  <2> QED BY <1>0, <2>7, Taking
<1>12. ASSUME NEW op \in Ops, \/ GiveUp(op) \/ Confirmed(op) \/ Uncertain(op) \/ BadReceipt(op)
                              \/ ConnectFailed(op) \/ Rejected(op)
       PROVE  SeqsTyped' /\ Distinct'
  <2>1. op \in DOMAIN tasks /\ UNCHANGED bound
    BY <1>12 DEF GiveUp, Confirmed, Uncertain, BadReceipt, ConnectFailed, Rejected, answerFrame, Task
  <2>2. \E state \in Terminal \cup {"unknown"} : Finish(op, state)
    BY <1>12 DEF GiveUp, Confirmed, Uncertain, BadReceipt, ConnectFailed, Rejected, Terminal
  <2> QED BY <1>0, <1>2, <2>1, <2>2, FinishShrinks
<1>13. ASSUME UNCHANGED <<ops, seqs, bound>>
       PROVE  SeqsTyped' /\ Distinct'
  BY <1>0, <1>2, <1>13, SameShrinks
<1>14. CASE \E op \in Ops : Unauthorized(op) \/ StorageFault(op)
  BY <1>13, <1>14 DEF Unauthorized, StorageFault, answerFrame, ledger
<1>15. CASE \/ (\E i \in DOMAIN wire : QQActs(i)) \/ SetClock \/ Reload
  BY <1>13, <1>15 DEF QQActs, SetClock, Reload, ledger
<1>16. CASE Crash
  <2>1. /\ \A x \in DOMAIN ops' : /\ x \in DOMAIN ops /\ ops'[x].seq = ops[x].seq
                                  /\ ops[x].state = "not_sent" => ops'[x].state = "not_sent"
    BY <1>0, <1>16, CrashRows
  <2>2. UNCHANGED bound /\ \E K \in SUBSET DOMAIN seqs : seqs' = Restriction(seqs, K)
    BY <1>16 DEF Crash
  <2>3. seqs' \in [DOMAIN seqs' -> Nat] /\ \A x \in DOMAIN seqs' : x \in DOMAIN seqs /\ seqs'[x] = seqs[x]
    BY <1>0, <2>2, ClaimsRestricted
  <2>4. Shrinks
    BY <1>0, <2>1, <2>2, <2>3 DEF Shrinks, LeavesRow, Holds, SeqsTyped
  <2> QED BY <1>2, <2>4
<1> QED
  BY <1>3, <1>4, <1>5, <1>6, <1>7, <1>8, <1>9, <1>10, <1>11, <1>12, <1>14, <1>15, <1>16 DEF Next

-----------------------------------------------------------------------------
(* Every step keeps sources.                                               *)

\* Sources go when their window is over; nothing revives a blocked one, and
\* a quoting send has its source.
SourcesAge ==
    /\ sources' \in [DOMAIN sources' -> SourceRow]
    /\ \A s \in DOMAIN sources' :
          /\ s \in DOMAIN sources /\ sources'[s].expires = sources[s].expires
          /\ sources[s].blocked # "no" => sources'[s].blocked # "no"
    /\ \A s \in DOMAIN sources : s \notin DOMAIN sources' => ~(sources[s].expires > water')
    /\ UNCHANGED born /\ held' \subseteq Sources /\ storageFailed' \in BOOLEAN
    /\ \A s \in refusedSrc' : s \in refusedSrc \/ (s \in DOMAIN sources' /\ sources'[s].blocked # "no")
    /\ \A op \in DOMAIN tasks' : Lane[op] # "native" /\ tasks'[op].mode = "passive"
          => Src[op] \in DOMAIN sources'
    /\ water \in Nat /\ water' \in Nat /\ water <= water'

\* Then what is known of sources stays true.
LEMMA SourcesAging ==
    ASSUME SourcesInv, SourcesAge
    PROVE  SourcesInv'
<1>1. SourcesTyped /\ SourcesTrue /\ Window \in Nat
  BY LimitsAssumption DEF SourcesInv
<1>2. \A s \in Sources : born[s] \in Nat \cup {-1} /\ born'[s] = born[s]
  BY <1>1 DEF SourcesTyped, SourcesAge
<1>3. refusedSrc' \subseteq Sources /\ DOMAIN sources' \subseteq Sources
  BY <1>1 DEF SourcesTyped, SourcesAge
<1>4. SourcesTyped'
  BY <1>1, <1>3 DEF SourcesTyped, SourcesAge
<1>5. \A s \in DOMAIN sources' : born'[s] >= 0 /\ sources'[s].expires = born'[s] + Window
  BY <1>1 DEF SourcesTrue, SourcesAge
<1>6. ASSUME NEW s \in refusedSrc'
      PROVE  born'[s] >= 0 /\ \/ born'[s] + Window <= water'
                              \/ s \in DOMAIN sources' /\ sources'[s].blocked # "no"
  <2>1. s \in Sources
    BY <1>3
  <2>2. CASE s \in DOMAIN sources' /\ sources'[s].blocked # "no"
    BY <1>5, <2>2
  <2>3. CASE s \in refusedSrc /\ ~(s \in DOMAIN sources' /\ sources'[s].blocked # "no")
    <3>1. born[s] >= 0 /\ \/ born[s] + Window <= water
                          \/ s \in DOMAIN sources /\ sources[s].blocked # "no"
      BY <1>1, <2>3 DEF SourcesTrue
    <3>2. CASE born[s] + Window <= water
      <4>1. born[s] \in Nat /\ water \in Nat /\ water' \in Nat /\ water <= water'
        BY <1>2, <2>1, <3>1 DEF SourcesAge
      <4> QED BY <1>1, <1>2, <2>1, <3>2, <4>1
    <3>3. CASE s \in DOMAIN sources /\ sources[s].blocked # "no"
      <4>1. ~(sources[s].expires > water') /\ sources[s].expires = born[s] + Window
        BY <1>1, <2>3, <3>3 DEF SourcesAge, SourcesTrue
      <4>2. born[s] \in Nat /\ water' \in Nat
        BY <1>2, <2>1, <3>1 DEF SourcesAge
      <4> QED BY <1>1, <1>2, <2>1, <4>1, <4>2
    <3> QED BY <3>1, <3>2, <3>3
  <2> QED BY <2>2, <2>3 DEF SourcesAge
<1>7. SourcesTrue'
  BY <1>5, <1>6 DEF SourcesTrue, SourcesAge
<1> QED BY <1>4, <1>7 DEF SourcesInv

\* The sends under way after the step all were before it, and quote no more.
TasksNoMore ==
    \A op \in DOMAIN tasks' : /\ op \in DOMAIN tasks
                              /\ tasks'[op].mode = "passive" => tasks[op].mode = "passive"

\* Such sends have their sources.
LEMMA NoMoreSources ==
    ASSUME SourcesInv, TasksNoMore
    PROVE  \A op \in DOMAIN tasks' : Lane[op] # "native" /\ tasks'[op].mode = "passive"
              => Src[op] \in DOMAIN sources
BY DEF SourcesInv, SourcesTrue, TasksNoMore

\* Steps that leave the sources alone.
LEMMA SourcesSame ==
    ASSUME SourcesInv, TasksNoMore, UNCHANGED <<sources, born, refusedSrc>>,
           held' \subseteq Sources, storageFailed' \in BOOLEAN,
           water \in Nat, water' \in Nat, water <= water'
    PROVE  SourcesAge
BY NoMoreSources DEF SourcesInv, SourcesTyped, SourcesAge

\* block_source blocks, and does not unblock.
LEMMA Blocking ==
    ASSUME SourcesTyped, NEW s \in DOMAIN sources, NEW code \in {"final", "active"},
           sources' = Blocked(s, code)
    PROVE  /\ DOMAIN sources' = DOMAIN sources /\ sources' \in [DOMAIN sources' -> SourceRow]
           /\ \A x \in DOMAIN sources : /\ sources'[x].expires = sources[x].expires
                                        /\ sources[x].blocked # "no" => sources'[x].blocked # "no"
           /\ sources'[s].blocked # "no"
<1>1. \A x \in DOMAIN sources : sources[x] \in SourceRow
  BY DEF SourcesTyped
<1>2. \A r \in SourceRow : LET q == [r EXCEPT !.blocked = code]
                           IN  q \in SourceRow /\ q.expires = r.expires /\ q.blocked = code
  BY DEF SourceRow
<1>3. ASSUME NEW x \in DOMAIN sources
      PROVE  /\ sources'[x] \in SourceRow /\ sources'[x].expires = sources[x].expires
             /\ sources[x].blocked # "no" => sources'[x].blocked # "no"
             /\ x = s => sources'[x].blocked # "no"
  <2>1. CASE x = s /\ (code = "final" \/ sources[x].blocked # "final")
    <3>1. sources'[x] = [sources[x] EXCEPT !.blocked = code]
      BY <2>1 DEF Blocked
    <3> QED BY <1>1, <1>2, <3>1
  <2>2. CASE ~(x = s /\ (code = "final" \/ sources[x].blocked # "final"))
    <3>1. sources'[x] = sources[x]
      BY <2>2 DEF Blocked
    <3> QED BY <1>1, <2>2, <3>1
  <2> QED BY <2>1, <2>2
<1>4. DOMAIN sources' = DOMAIN sources /\ sources' = [x \in DOMAIN sources |-> sources'[x]]
  BY DEF Blocked
<1> QED BY <1>3, <1>4

\* Steps in which QQ rejects the source of a quoting send.
LEMMA SourcesBlocked ==
    ASSUME SourcesInv, TasksNoMore, NEW s \in DOMAIN sources, NEW code \in {"final", "active"},
           sources' = Blocked(s, code), refusedSrc' = refusedSrc \cup {s}, UNCHANGED born,
           held' \subseteq Sources, storageFailed' \in BOOLEAN,
           water \in Nat, water' \in Nat, water <= water'
    PROVE  SourcesAge
<1>1. /\ DOMAIN sources' = DOMAIN sources /\ sources' \in [DOMAIN sources' -> SourceRow]
      /\ \A x \in DOMAIN sources : /\ sources'[x].expires = sources[x].expires
                                   /\ sources[x].blocked # "no" => sources'[x].blocked # "no"
      /\ sources'[s].blocked # "no"
  BY Blocking DEF SourcesInv
<1> QED BY <1>1, NoMoreSources DEF SourcesAge

\* Giving out a sequence changes nothing else of a source.
LEMMA Sequencing ==
    ASSUME NEW src, src \in [DOMAIN src -> SourceRow], NEW s \in DOMAIN src, NEW n \in Nat
    PROVE  LET q == [src EXCEPT ![s].seq = n]
           IN  /\ q \in [DOMAIN src -> SourceRow]
               /\ \A x \in DOMAIN src : q[x].expires = src[x].expires /\ q[x].blocked = src[x].blocked
<1> DEFINE r == [src[s] EXCEPT !.seq = n]
           q == [src EXCEPT ![s] = r]
<1>1. src[s] \in SourceRow
  OBVIOUS
<1>2. r \in SourceRow /\ r.expires = src[s].expires /\ r.blocked = src[s].blocked
  BY <1>1 DEF SourceRow
<1>3. q = [src EXCEPT ![s].seq = n]
  OBVIOUS
<1> HIDE DEF r
<1>4. q \in [DOMAIN src -> SourceRow] /\ \A x \in DOMAIN src : q[x] = IF x = s THEN r ELSE src[x]
  BY <1>2
<1> HIDE DEF q
<1>5. \A x \in DOMAIN src : q[x].expires = src[x].expires /\ q[x].blocked = src[x].blocked
  BY <1>2, <1>4
<1> QED BY <1>3, <1>4, <1>5

\* What a prune leaves of the sources, perhaps with a new sequence.
LEMMA SourcesPruned ==
    ASSUME RowsTyped, SourcesInv, water' = Now, NEW keep, NEW src, src = KeptSources(keep),
           \/ sources' = src
           \/ \E s \in DOMAIN src, n \in Nat : sources' = [src EXCEPT ![s].seq = n],
           UNCHANGED <<born, refusedSrc, held, storageFailed>>,
           \A op \in DOMAIN tasks' : Lane[op] # "native" /\ tasks'[op].mode = "passive"
              => Src[op] \in DOMAIN src
    PROVE  SourcesAge
<1>1. /\ SourcesTyped /\ Now \in Nat /\ water \in Nat /\ water <= Now
  BY NowIsTime DEF SourcesInv
<1>2. /\ DOMAIN src \subseteq DOMAIN sources /\ src \in [DOMAIN src -> SourceRow]
      /\ \A s \in DOMAIN src : src[s] = sources[s]
      /\ \A s \in DOMAIN sources \ DOMAIN src : ~(sources[s].expires > Now)
  BY <1>1, KeptSourcesRows
<1>3. /\ sources' \in [DOMAIN src -> SourceRow]
      /\ \A x \in DOMAIN src : sources'[x].expires = src[x].expires /\ sources'[x].blocked = src[x].blocked
  <2>1. CASE sources' = src
    BY <1>2, <2>1
  <2>2. CASE \E s \in DOMAIN src, n \in Nat : sources' = [src EXCEPT ![s].seq = n]
    BY <1>2, <2>2, Sequencing
  <2> QED BY <2>1, <2>2
<1>4. DOMAIN sources' = DOMAIN src
  BY <1>3
<1> QED BY <1>1, <1>2, <1>3, <1>4 DEF SourcesAge, SourcesTyped

\* A prune keeps the sources of the sends under way.
LEMMA PruneSources ==
    ASSUME RowsTyped, SourcesInv, NEW keep
    PROVE  \A op \in DOMAIN tasks : Lane[op] # "native" /\ tasks[op].mode = "passive"
              => Src[op] \in DOMAIN KeptSources(keep)
<1> SUFFICES ASSUME NEW op \in DOMAIN tasks, Lane[op] # "native", tasks[op].mode = "passive"
             PROVE  Src[op] \in DOMAIN KeptSources(keep)
  OBVIOUS
<1>1. Src[op] \in DOMAIN sources /\ op \in DOMAIN ops /\ ops[op].state \in Unfinished
  BY DEF SourcesInv, SourcesTrue, RowsTyped, Unfinished
<1> QED BY <1>1, KeptSourcesRows DEF SourcesInv

\* A first observation opens the window; a repeated one does not open it again.
LEMMA ObserveKeeps ==
    ASSUME RowsTyped, SourcesInv, NEW s \in Sources, Observe(s)
    PROVE  SourcesInv'
<1> DEFINE first == IF born[s] < 0 THEN Now ELSE born[s]
           src == KeptSources(NoSource)
           row == [expires |-> first + Window, received |-> Now, seq |-> 0, blocked |-> "no"]
<1>1. /\ SourcesTyped /\ SourcesTrue /\ Window \in Nat
      /\ Now \in Nat /\ water \in Nat /\ water <= Now /\ born[s] \in Nat \cup {-1}
  BY NowIsTime, LimitsAssumption DEF SourcesInv, SourcesTyped
<1>2. first \in Nat /\ (born[s] >= 0 => first = born[s])
  BY <1>1
<1>3. row \in SourceRow /\ row.expires = first + Window /\ row.blocked = "no"
  BY <1>1, <1>2 DEF SourceRow
<1>4. /\ born' = [born EXCEPT ![s] = first] /\ held' = held \cup {s} /\ water' = Now
      /\ sources' = IF s \in DOMAIN src THEN src ELSE Extend(src, s, row)
      /\ UNCHANGED <<tasks, storageFailed, refusedSrc>>
  BY DEF Observe, PruneInto
<1>5. /\ DOMAIN src \subseteq DOMAIN sources /\ src \in [DOMAIN src -> SourceRow]
      /\ \A x \in DOMAIN src : src[x] = sources[x]
      /\ \A x \in DOMAIN sources \ DOMAIN src : ~(sources[x].expires > Now)
  BY <1>1, KeptSourcesRows
<1>6. \A op \in DOMAIN tasks : Lane[op] # "native" /\ tasks[op].mode = "passive" => Src[op] \in DOMAIN src
  BY PruneSources
<1> HIDE DEF first, src, row
<1>7. /\ born' \in [Sources -> Nat \cup {-1}] /\ born'[s] = first
      /\ \A x \in Sources : x # s => born'[x] = born[x]
  BY <1>1, <1>2, <1>4 DEF SourcesTyped
<1>8. /\ sources' \in [DOMAIN sources' -> SourceRow] /\ DOMAIN sources' \subseteq DOMAIN src \cup {s}
      /\ DOMAIN src \subseteq DOMAIN sources'
      /\ \A x \in DOMAIN src : sources'[x] = sources[x]
      /\ s \notin DOMAIN src => s \in DOMAIN sources' /\ sources'[s] = row
  <2>1. CASE s \in DOMAIN src
    BY <1>4, <1>5, <2>1
  <2>2. CASE s \notin DOMAIN src
    BY <1>3, <1>4, <1>5, <2>2 DEF Extend
  <2> QED BY <2>1, <2>2
<1>9. SourcesTyped'
  BY <1>1, <1>4, <1>5, <1>7, <1>8 DEF SourcesTyped
<1>10. \A x \in DOMAIN sources' : born'[x] >= 0 /\ sources'[x].expires = born'[x] + Window
  <2> SUFFICES ASSUME NEW x \in DOMAIN sources'
               PROVE  born'[x] >= 0 /\ sources'[x].expires = born'[x] + Window
    OBVIOUS
  <2>1. CASE x \in DOMAIN src
    <3>1. born[x] >= 0 /\ sources[x].expires = born[x] + Window /\ x \in Sources
      BY <1>1, <1>5, <2>1 DEF SourcesTrue, SourcesTyped
    <3>2. born'[x] = born[x]
      BY <1>2, <1>7, <3>1
    <3> QED BY <1>8, <2>1, <3>1, <3>2
  <2>2. CASE x \notin DOMAIN src
    BY <1>2, <1>3, <1>7, <1>8, <2>2
  <2> QED BY <2>1, <2>2
<1>11. ASSUME NEW x \in refusedSrc
       PROVE  born'[x] >= 0 /\ \/ born'[x] + Window <= water'
                               \/ x \in DOMAIN sources' /\ sources'[x].blocked # "no"
  <2>1. /\ x \in Sources /\ born[x] >= 0 /\ born[x] \in Nat
        /\ \/ born[x] + Window <= water
           \/ x \in DOMAIN sources /\ sources[x].blocked # "no"
    BY <1>1, <1>11 DEF SourcesTrue, SourcesTyped
  <2>2. born'[x] = born[x]
    BY <1>2, <1>7, <2>1
  <2>3. CASE born[x] + Window <= water
    BY <1>1, <1>4, <2>1, <2>2, <2>3
  <2>4. CASE x \in DOMAIN src /\ sources[x].blocked # "no"
    BY <1>8, <2>1, <2>2, <2>4
  <2>5. CASE x \in DOMAIN sources \ DOMAIN src
    <3>1. ~(sources[x].expires > Now) /\ sources[x].expires = born[x] + Window
      BY <1>1, <1>5, <2>5 DEF SourcesTrue
    <3> QED BY <1>1, <1>4, <2>1, <2>2, <3>1
  <2> QED BY <2>1, <2>3, <2>4, <2>5
<1>12. \A op \in DOMAIN tasks' : Lane[op] # "native" /\ tasks'[op].mode = "passive"
          => Src[op] \in DOMAIN sources'
  BY <1>4, <1>6, <1>8
<1>13. SourcesTrue'
  BY <1>4, <1>10, <1>11, <1>12 DEF SourcesTrue
<1> QED BY <1>9, <1>13 DEF SourcesInv

\* Every step keeps the sources' layer.
LEMMA SourcesKept ==
    ASSUME Inv, [Next]_vars
    PROVE  SourcesInv'
<1>0. /\ RowsInv /\ RowsTyped /\ SourcesInv /\ SourcesTyped
      /\ Now \in Nat /\ water \in Nat /\ water <= Now
      /\ held \subseteq Sources /\ storageFailed \in BOOLEAN
  BY NowIsTime DEF Inv, RowsInv, SourcesInv, SourcesTyped
<1>1. ASSUME UNCHANGED <<sources, born, refusedSrc>>, TasksNoMore, water' = Now \/ water' = water,
             held' \subseteq Sources, storageFailed' \in BOOLEAN
      PROVE  SourcesInv'
  <2>1. water' \in Nat /\ water <= water'
    BY <1>0, <1>1
  <2> QED BY <1>0, <1>1, <2>1, SourcesSame, SourcesAging
<1>2. UNCHANGED tasks => TasksNoMore
  BY DEF TasksNoMore
<1>3. \A K \in SUBSET DOMAIN tasks : tasks' = Restriction(tasks, K) => TasksNoMore
  BY DEF TasksNoMore, Restriction
<1>4. ASSUME NEW op, NEW r, NEW t, Turns(op, r, t), t.mode = "passive" => tasks[op].mode = "passive"
      PROVE  TasksNoMore
  <2>1. op \in DOMAIN tasks /\ tasks' = [tasks EXCEPT ![op] = t]
    BY <1>4 DEF Turns
  <2>2. /\ DOMAIN tasks' = DOMAIN tasks /\ tasks'[op] = t
        /\ \A x \in DOMAIN tasks : x # op => tasks'[x] = tasks[x]
    BY <1>0, <2>1 DEF RowsTyped
  <2>3. ASSUME NEW x \in DOMAIN tasks', tasks'[x].mode = "passive"
        PROVE  tasks[x].mode = "passive"
    <3>1. CASE x = op
      BY <1>4, <2>2, <2>3, <3>1
    <3>2. CASE x # op
      BY <2>2, <2>3, <3>2
    <3> QED BY <3>1, <3>2
  <2> QED BY <2>2, <2>3 DEF TasksNoMore
<1>5. CASE UNCHANGED vars
  BY <1>0, <1>1, <1>2, <1>5 DEF vars, ledger
<1>6. CASE Prune
  <2>1. /\ sources' = KeptSources(NoSource) /\ water' = Now
        /\ UNCHANGED <<tasks, born, refusedSrc, held, storageFailed>>
    BY <1>6 DEF Prune, PruneInto
  <2>2. \A op \in DOMAIN tasks' : Lane[op] # "native" /\ tasks'[op].mode = "passive"
           => Src[op] \in DOMAIN KeptSources(NoSource)
    BY <1>0, <2>1, PruneSources
  <2>3. SourcesAge
    BY <1>0, <2>1, <2>2, SourcesPruned
  <2> QED BY <1>0, <2>3, SourcesAging
<1>7. ASSUME NEW s \in Sources, Observe(s)
      PROVE  SourcesInv'
  BY <1>0, <1>7, ObserveKeeps
<1>8. ASSUME NEW op \in Ops, Reserve(op)
      PROVE  SourcesInv'
  <2> DEFINE src == KeptSources(Src[op])
  <2>1. PICK o, mode, n :
           /\ Starts(op, o, mode, n)
           /\ IF mode = "passive" THEN Src[op] \in DOMAIN src /\ sources' = [src EXCEPT ![Src[op]].seq = n]
                                  ELSE sources' = src
           /\ tasks'[op].mode = mode
    BY <1>8, Reserving
  <2>2. /\ n \in Nat /\ op \notin DOMAIN tasks /\ water' = Now
        /\ \E t \in TaskRow : tasks' = Extend(tasks, op, t)
        /\ UNCHANGED <<born, refusedSrc, held, storageFailed>>
    BY <1>8, <2>1 DEF Starts, Reserve
  <2>3. \A x \in DOMAIN tasks : Lane[x] # "native" /\ tasks[x].mode = "passive" => Src[x] \in DOMAIN src
    BY <1>0, PruneSources
  <2>4. \A x \in DOMAIN tasks' : x = op \/ (x \in DOMAIN tasks /\ tasks'[x] = tasks[x])
    BY <2>2 DEF Extend
  <2> HIDE DEF src
  <2>5. \A x \in DOMAIN tasks' : Lane[x] # "native" /\ tasks'[x].mode = "passive" => Src[x] \in DOMAIN src
    <3> SUFFICES ASSUME NEW x \in DOMAIN tasks', Lane[x] # "native", tasks'[x].mode = "passive"
                 PROVE  Src[x] \in DOMAIN src
      OBVIOUS
    <3>1. CASE x = op
      BY <2>1, <3>1
    <3>2. CASE x \in DOMAIN tasks /\ tasks'[x] = tasks[x]
      BY <2>3, <3>2
    <3> QED BY <2>4, <3>1, <3>2
  <2>6. sources' = src \/ \E s \in DOMAIN src, k \in Nat : sources' = [src EXCEPT ![s].seq = k]
    BY <2>1, <2>2
  <2>7. SourcesAge
    BY <1>0, <2>2, <2>5, <2>6, SourcesPruned DEF src
  <2> QED BY <1>0, <2>7, SourcesAging
<1>9. ASSUME NEW op \in Ops, ReserveNative(op)
      PROVE  SourcesInv'
  <2> DEFINE src == KeptSources(NoSource)
  <2>1. PICK o, mode, n : Starts(op, o, mode, n) /\ sources' = src /\ Lane[op] = "native"
    BY <1>9, ReservingNative
  <2>2. /\ water' = Now /\ op \notin DOMAIN tasks
        /\ \E t \in TaskRow : tasks' = Extend(tasks, op, t)
        /\ UNCHANGED <<born, refusedSrc, held, storageFailed>>
    BY <1>9, <2>1 DEF Starts, ReserveNative
  <2>3. \A x \in DOMAIN tasks : Lane[x] # "native" /\ tasks[x].mode = "passive" => Src[x] \in DOMAIN src
    BY <1>0, PruneSources
  <2>4. \A x \in DOMAIN tasks' : x = op \/ (x \in DOMAIN tasks /\ tasks'[x] = tasks[x])
    BY <2>2 DEF Extend
  <2> HIDE DEF src
  <2>5. \A x \in DOMAIN tasks' : Lane[x] # "native" /\ tasks'[x].mode = "passive" => Src[x] \in DOMAIN src
    BY <2>1, <2>3, <2>4
  <2>6. SourcesAge
    BY <1>0, <2>1, <2>2, <2>5, SourcesPruned DEF src
  <2> QED BY <1>0, <2>6, SourcesAging
<1>10. ASSUME NEW op \in Ops, Submit(op)
       PROVE  SourcesInv'
  <2> DEFINE t == [tasks[op] EXCEPT !.pc = "wire", !.req = Len(wire) + 1]
  <2>1. /\ op \in DOMAIN tasks /\ tasks' = [tasks EXCEPT ![op] = t] /\ water' = Now
        /\ UNCHANGED <<sources, born, refusedSrc, held, storageFailed>>
    BY <1>10 DEF Submit, Task
  <2>2. t.mode = tasks[op].mode
    <3>1. tasks[op] \in TaskRow
      BY <1>0, <2>1, UnderWay
    <3> QED BY <3>1 DEF TaskRow
  <2> HIDE DEF t
  <2>3. \A x \in DOMAIN tasks' : x \in DOMAIN tasks /\ tasks'[x].mode = tasks[x].mode
    BY <1>0, <2>1, <2>2 DEF RowsTyped
  <2> QED BY <1>0, <1>1, <2>1, <2>3 DEF TasksNoMore
<1>11. ASSUME NEW op \in Ops, SwitchBeforeWire(op)
       PROVE  SourcesInv'
  <2>1. /\ op \in DOMAIN tasks /\ tasks[op].pc # "wire" /\ ToActive(op) /\ water' = Now
        /\ UNCHANGED <<clock, wire, sources, born, refusedSrc, held, storageFailed>>
    BY <1>11 DEF SwitchBeforeWire, Task, ToActive
  <2>2. TasksNoMore
    BY <1>0, <1>4, <2>1, ToActiveTurns
  <2> QED BY <1>0, <1>1, <2>1, <2>2
<1>12. ASSUME NEW op \in Ops, Unauthorized(op)
       PROVE  SourcesInv'
  <2>1. /\ water' = water
        /\ UNCHANGED <<sources, born, refusedSrc, held, storageFailed>>
    BY <1>12 DEF Unauthorized, ledger
  <2>2. TasksNoMore
    BY <1>0, <1>4, <1>12, UnauthorizedTurns
  <2> QED BY <1>0, <1>1, <2>1, <2>2
<1>13. ASSUME NEW op \in Ops, SwitchActive(op)
       PROVE  SourcesInv'
  <2>1. /\ op \in DOMAIN tasks /\ wire[tasks[op].req].fate = "refused" /\ ToActive(op)
        /\ Lane[op] = "reply" /\ tasks[op].mode = "passive" /\ water' = Now
        /\ sources' = Blocked(Src[op], "active") /\ refusedSrc' = refusedSrc \cup {Src[op]}
        /\ UNCHANGED <<clock, wire, born, held, storageFailed>>
    BY <1>13 DEF SwitchActive, Task, Verdict, answerFrame, Fallback, ToActive
  <2>2. TasksNoMore
    BY <1>0, <1>4, <2>1, ToActiveTurns
  <2>3. Src[op] \in DOMAIN sources
    BY <1>0, <2>1 DEF SourcesInv, SourcesTrue
  <2>4. SourcesAge
    BY <1>0, <2>1, <2>2, <2>3, SourcesBlocked
  <2> QED BY <1>0, <2>4, SourcesAging
<1>14. ASSUME NEW op \in Ops, SwitchPassive(op)
       PROVE  SourcesInv'
  <2>1. PICK r, t : /\ Turns(op, r, t) /\ Src[op] \in DOMAIN sources
                    /\ sources' = [sources EXCEPT ![Src[op]].seq = r.seq]
    BY <1>14, PassiveTurns
  <2>2. /\ op \in DOMAIN tasks /\ tasks' = [tasks EXCEPT ![op] = t] /\ r.seq \in Nat
        /\ water' = Now /\ UNCHANGED <<born, refusedSrc, held, storageFailed>>
    BY <1>14, <2>1, RowFields DEF SwitchPassive, answerFrame, Turns
  <2>3. /\ sources' \in [DOMAIN sources -> SourceRow]
        /\ \A x \in DOMAIN sources : /\ sources'[x].expires = sources[x].expires
                                     /\ sources'[x].blocked = sources[x].blocked
    BY <1>0, <2>1, <2>2, Sequencing DEF SourcesTyped
  <2>4. DOMAIN tasks' = DOMAIN tasks /\ \A x \in DOMAIN tasks : x # op => tasks'[x] = tasks[x]
    BY <1>0, <2>2 DEF RowsTyped
  <2>5. \A x \in DOMAIN tasks' : Lane[x] # "native" /\ tasks'[x].mode = "passive" => Src[x] \in DOMAIN sources
    BY <1>0, <2>1, <2>4 DEF SourcesInv, SourcesTrue
  <2>6. DOMAIN sources' = DOMAIN sources
    BY <2>3
  <2>7. SourcesAge
    BY <1>0, <2>2, <2>3, <2>5, <2>6 DEF SourcesAge
  <2> QED BY <1>0, <2>7, SourcesAging
<1>15. ASSUME NEW op \in Ops, \/ GiveUp(op) \/ Confirmed(op) \/ Uncertain(op) \/ BadReceipt(op)
                              \/ ConnectFailed(op)
       PROVE  SourcesInv'
  <2>1. /\ UNCHANGED <<sources, born, refusedSrc, held, storageFailed>>
        /\ \E state : Finish(op, state)
    BY <1>15 DEF GiveUp, Confirmed, Uncertain, BadReceipt, ConnectFailed, answerFrame
  <2>2. water' = Now /\ \E K \in SUBSET DOMAIN tasks : tasks' = Restriction(tasks, K)
    BY <2>1 DEF Finish, EndTask
  <2> QED BY <1>0, <1>1, <1>3, <2>1, <2>2
<1>16. ASSUME NEW op \in Ops, Rejected(op)
       PROVE  SourcesInv'
  <2>1. /\ UNCHANGED <<born, held, storageFailed>> /\ op \in DOMAIN tasks
        /\ \E K \in SUBSET DOMAIN tasks : tasks' = Restriction(tasks, K)
        /\ water' = Now
    BY <1>16 DEF Rejected, Finish, EndTask, answerFrame, Task
  <2>2. TasksNoMore
    BY <1>3, <2>1
  <2>3. CASE UNCHANGED <<sources, refusedSrc>>
    BY <1>0, <1>1, <2>1, <2>2, <2>3
  <2>4. CASE \E code \in {"final", "active"} :
                 /\ Lane[op] # "native" /\ tasks[op].mode = "passive"
                 /\ sources' = Blocked(Src[op], code)
                 /\ refusedSrc' = refusedSrc \cup {Src[op]}
    <3>1. Src[op] \in DOMAIN sources
      BY <1>0, <2>1, <2>4 DEF SourcesInv, SourcesTrue
    <3>2. SourcesAge
      BY <1>0, <2>1, <2>2, <2>4, <3>1, SourcesBlocked
    <3> QED BY <1>0, <3>2, SourcesAging
  <2> QED BY <1>16, <2>3, <2>4 DEF Rejected
<1>17. ASSUME NEW op \in Ops, StorageFault(op)
       PROVE  SourcesInv'
  <2>1. /\ UNCHANGED <<sources, born, refusedSrc, held, water>> /\ storageFailed' \in BOOLEAN
        /\ \E K \in SUBSET DOMAIN tasks : tasks' = Restriction(tasks, K)
    BY <1>17 DEF StorageFault, EndTask, answerFrame
  <2> QED BY <1>0, <1>1, <1>3, <2>1
<1>18. CASE (\E i \in DOMAIN wire : QQActs(i)) \/ SetClock
  BY <1>0, <1>1, <1>2, <1>18 DEF QQActs, SetClock, ledger
<1>19. CASE Reload
  <2>1. held' = {} /\ storageFailed' = FALSE /\ UNCHANGED <<tasks, sources, born, refusedSrc, water>>
    BY <1>19 DEF Reload, Restart, ledger
  <2> QED BY <1>1, <1>2, <2>1
<1>20. CASE Crash
  <2>1. /\ held' = {} /\ storageFailed' = FALSE /\ tasks' = << >> /\ water' = Now
        /\ UNCHANGED <<sources, born, refusedSrc>>
    BY <1>20 DEF Crash, Restart
  <2>2. TasksNoMore
    <3>1. DOMAIN tasks' = {}
      BY <2>1
    <3> QED BY <3>1 DEF TasksNoMore
  <2> QED BY <1>1, <2>1, <2>2
<1> QED BY <1>5, <1>6, <1>7, <1>8, <1>9, <1>10, <1>11, <1>12, <1>13, <1>14, <1>15, <1>16, <1>17,
           <1>18, <1>19, <1>20 DEF Next

-----------------------------------------------------------------------------
(* The theorems.                                                           *)

\* Nothing has happened yet.
LEMMA Initially == Init => Inv
<1> SUFFICES ASSUME Init PROVE Inv
  OBVIOUS
<1>1. /\ DOMAIN ops = {} /\ DOMAIN tasks = {} /\ DOMAIN wire = {} /\ DOMAIN sources = {}
      /\ DOMAIN seqs = {} /\ DOMAIN bound = {}
  BY DEF Init
<1>2. /\ ops \in [DOMAIN ops -> OpRow] /\ tasks \in [DOMAIN tasks -> TaskRow]
      /\ sources \in [DOMAIN sources -> SourceRow] /\ seqs \in [DOMAIN seqs -> Nat]
      /\ bound \in [DOMAIN bound -> Nat] /\ wire \in Seq(Request)
  BY <1>1 DEF Init
<1>3. clock = 0 /\ water = 0 /\ held = {} /\ storageFailed = FALSE /\ refusedSrc = {}
  BY DEF Init
<1>4. RowsInv
  BY <1>1, <1>2, <1>3 DEF RowsInv, RowsTyped, TasksFit, Guarded, Remembered, OnceADay, Honest
<1>5. SeqsInv
  <2>1. DOMAIN KeptSeqs = {}
    BY <1>1, KeptSeqsRows
  <2> HIDE DEF KeptSeqs
  <2> QED BY <1>1, <1>2, <2>1, FS_EmptySet DEF SeqsInv, SeqsTyped, Distinct, Unique
<1>6. SourcesInv
  <2>1. born \in [Sources -> Nat \cup {-1}]
    BY DEF Init
  <2> QED BY <1>1, <1>2, <1>3, <2>1 DEF SourcesInv, SourcesTyped, SourcesTrue
<1> QED BY <1>4, <1>5, <1>6 DEF Inv

\* The three layers hold each other up.
LEMMA Inductive == Inv /\ [Next]_vars => Inv'
BY RowsKept, SeqsKept, SourcesKept DEF Inv

\* The invariant holds of every behaviour.
LEMMA AlwaysInv == Spec => []Inv
BY Initially, Inductive, PTL DEF Spec

\* The layers' types are those of the model.
LEMMA InvIsTyped == Inv => TypeOK
BY DEF Inv, RowsInv, RowsTyped, SeqsInv, SeqsTyped, SourcesInv, SourcesTyped, TypeOK

\* Every column holds what it may hold, a task has an unfinished row, and one
\* on the wire waits for its own request (MessageStore, SendingCore).
THEOREM TypeCorrect == Spec => []TypeOK
BY InvIsTyped, AlwaysInv, PTL

\* The rows' layer tells the truth.
LEMMA TruthOfInv ==
    ASSUME Inv, ~BadReceipts
    PROVE  LedgerTruth
<1> SUFFICES ASSUME NEW op \in DOMAIN ops
             PROVE  /\ ops[op].state \in {"sent", "history_evicted"}
                          => \E i \in OfLife(op) : wire[i].fate = "accepted"
                    /\ ops[op].state \in {"not_sent", "rejected", "reserved"}
                          => \A i \in OfLife(op) : ~Possible(i)
  BY DEF LedgerTruth
<1>1. Claims(wire, ops[op].state, op, ops[op].started) /\ op \in Trusted
  BY DEF Inv, RowsInv, RowsTyped, Honest, Trusted
<1> QED BY <1>1 DEF Claims, OfLife, Possible

\* With readable receipts every operation is one whose outcome can be known.
LEMMA OnceOfInv ==
    ASSUME Inv, ~BadReceipts
    PROVE  AtMostOnce /\ SeqUnique
<1>1. \A i \in DOMAIN wire : wire[i].op \in Trusted
  BY WireFields DEF Inv, RowsInv, Trusted
<1>2. AtMostOnce
  BY <1>1 DEF Inv, RowsInv, OnceADay, AtMostOnce
<1>3. SeqUnique
  BY <1>1 DEF Inv, SeqsInv, Unique, SeqUnique
<1> QED BY <1>2, <1>3

\* In the ledger sent means that QQ has the message, and not sent, rejected or
\* reserved that no request of this life can reach it; of a native operation
\* this needs readable receipts (send_native, text_id).
THEOREM TruthHolds == ASSUME ~BadReceipts
                      PROVE  Spec => [](LedgerTruth /\ AtMostOnce /\ SeqUnique)
<1>1. Inv => LedgerTruth /\ AtMostOnce /\ SeqUnique
  BY TruthOfInv, OnceOfInv
<1> QED BY <1>1, AlwaysInv, PTL

\* Of the core lanes (reply and session): no operation written twice within a
\* day, no two requests of one source under one msg_seq, and no request of a
\* failed life that may reach QQ.
Core(i) == Lane[wire[i].op] # "native"
CoreOnce ==
    \A i, j \in DOMAIN wire :
        i < j /\ wire[i].op = wire[j].op /\ Core(i) /\ Possible(i) /\ Possible(j)
            => wire[j].at > wire[i].at + Day
CoreSeqs ==
    \A i, j \in DOMAIN wire :
        /\ i < j /\ Possible(i) /\ Possible(j) /\ Core(i) /\ Core(j)
        /\ wire[i].src = wire[j].src /\ wire[i].src # NoSource
        /\ wire[j].at <= wire[i].at + Day
        => wire[i].seq # wire[j].seq
CoreTruth ==
    \A op \in DOMAIN ops :
        Lane[op] # "native" /\ ops[op].state \in {"not_sent", "rejected", "reserved"}
            => \A i \in OfLife(op) : ~Possible(i)

\* Whatever the receipts of native sends, the core lanes never write an
\* operation twice within a day, nor two requests of one source under one
\* msg_seq, and their rows tell the truth (SendingCore.send, switch_passive).
THEOREM CoreLanesSound == Spec => [](CoreOnce /\ CoreSeqs /\ CoreTruth)
<1>1. Inv => CoreOnce /\ CoreSeqs /\ CoreTruth
  <2> SUFFICES ASSUME Inv PROVE CoreOnce /\ CoreSeqs /\ CoreTruth
    OBVIOUS
  <2>1. \A i \in DOMAIN wire : Core(i) => wire[i].op \in Trusted
    BY WireFields DEF Inv, RowsInv, Trusted, Core
  <2>2. CoreOnce
    BY <2>1 DEF Inv, RowsInv, OnceADay, CoreOnce
  <2>3. CoreSeqs
    BY <2>1 DEF Inv, SeqsInv, Unique, CoreSeqs
  <2>4. CoreTruth
    <3>1. ASSUME NEW op \in DOMAIN ops, Lane[op] # "native"
          PROVE  Claims(wire, ops[op].state, op, ops[op].started) /\ op \in Trusted
      BY <3>1 DEF Inv, RowsInv, RowsTyped, Honest, Trusted
    <3>2. SUFFICES ASSUME NEW op \in DOMAIN ops, Lane[op] # "native",
                          ops[op].state \in {"not_sent", "rejected", "reserved"}
                   PROVE  \A i \in OfLife(op) : ~Possible(i)
      BY DEF CoreTruth
    <3> QED BY <3>1, <3>2 DEF Claims, OfLife, Possible
  <2> QED BY <2>2, <2>3, <2>4
<1> QED BY <1>1, AlwaysInv, PTL

\* A source is quoted by the core lane only in its window, never after QQ
\* rejected it: however long the send waited, across reloads and crashes, and
\* when the wall clock was set back (before_send, reply_mode, block_source).
LEMMA QuotingLive == Inv /\ [Next]_vars => QuotesLiveSource
<1> SUFFICES ASSUME Inv, [Next]_vars, Len(wire') > Len(wire),
                    Lane[wire'[Len(wire')].op] # "native", wire'[Len(wire')].src # NoSource
             PROVE  LET r == wire'[Len(wire')]
                    IN  /\ r.src \notin refusedSrc
                        /\ \A i \in DOMAIN wire : wire[i].at < born[r.src] + Window
                        /\ clock < born[r.src] + Window
  BY DEF QuotesLiveSource
<1>0. /\ RowsInv /\ RowsTyped /\ SourcesTyped /\ SourcesTrue /\ Window \in Nat
      /\ Now \in Nat /\ water \in Nat /\ water <= Now /\ clock <= Now /\ clock \in Nat
      /\ \A i \in DOMAIN wire : wire[i].at \in Nat /\ wire[i].at <= water
  BY NowIsTime, WireFields, LimitsAssumption DEF Inv, RowsInv, RowsTyped, SourcesInv, Remembered
<1>1. PICK op \in Ops : Submit(op)
  <2>1. ~WireKept
    <3> SUFFICES ASSUME WireKept PROVE FALSE
      OBVIOUS
    <3>1. DOMAIN wire = 1 .. Len(wire) /\ DOMAIN wire' = 1 .. Len(wire')
          /\ Len(wire) \in Nat /\ Len(wire') \in Nat
      BY <1>0 DEF RowsTyped, WireKept
    <3>2. Len(wire') \in DOMAIN wire' /\ Len(wire') \notin DOMAIN wire
      BY <3>1
    <3> QED BY <3>2 DEF WireKept
  <2> QED BY <1>0, <2>1, WireMoves
<1> DEFINE q == [op |-> op, src |-> Quoted(op), seq |-> tasks[op].seq, fate |-> "open", at |-> Now]
<1>2. /\ op \in DOMAIN tasks /\ MayGo(op) /\ wire' = Append(wire, q)
      /\ tasks[op].pc \in {"ready", "reauth"}
  BY <1>1 DEF Submit, Task
<1>3. q.op = op /\ q.src = Quoted(op) /\ wire'[Len(wire')] = q
  <2> HIDE DEF q
  <2>1. wire'[Len(wire')] = q
    BY <1>0, <1>2 DEF RowsTyped
  <2> QED BY <2>1 DEF q
<1> HIDE DEF q
<1>4. Lane[op] # "native" /\ Quoted(op) # NoSource
  BY <1>3
<1>5. tasks[op].mode = "passive" /\ Quoted(op) = Src[op] /\ Lane[op] \in {"reply", "session"}
  <2>1. Lane[op] \in {"reply", "session", "native"}
    BY CallsAssumption
  <2> QED BY <1>4, <2>1 DEF Quoted
<1>6. Src[op] \in DOMAIN sources /\ sources[Src[op]].blocked = "no" /\ sources[Src[op]].expires > Now
  <2>1. CASE Lane[op] = "reply"
    <3>1. ReplyMode(sources, ops, Src[op]) = "passive"
      BY <1>2, <1>5, <2>1 DEF MayGo
    <3>2. Src[op] \in DOMAIN sources
      BY <3>1 DEF ReplyMode
    <3>3. sources[Src[op]] \in SourceRow
      BY <1>0, <3>2 DEF SourcesTyped
    <3>4. sources[Src[op]].blocked \notin {"final", "active"} /\ ~(sources[Src[op]].expires <= Now)
      BY <3>1, <3>2 DEF ReplyMode
    <3>5. sources[Src[op]].blocked = "no" /\ sources[Src[op]].expires \in Nat
      BY <3>3, <3>4, SourceFields
    <3> QED BY <1>0, <3>2, <3>4, <3>5
  <2>2. CASE Lane[op] = "session"
    <3>1. Usable(sources, Src[op])
      BY <1>2, <1>5, <2>2 DEF MayGo
    <3> QED BY <3>1 DEF Usable
  <2> QED BY <1>5, <2>1, <2>2
<1> DEFINE s == Src[op]
<1>7. /\ s \in Sources /\ born[s] \in Nat /\ sources[s].expires = born[s] + Window
      /\ Now < born[s] + Window
  <2>1. s \in Sources /\ born[s] >= 0 /\ sources[s].expires = born[s] + Window
    BY <1>0, <1>6 DEF SourcesTyped, SourcesTrue
  <2>2. born[s] \in Nat
    BY <1>0, <2>1 DEF SourcesTyped
  <2> QED BY <1>0, <1>6, <2>1, <2>2
<1>8. s \notin refusedSrc
  <2> SUFFICES ASSUME s \in refusedSrc PROVE FALSE
    OBVIOUS
  <2>1. \/ born[s] + Window <= water
        \/ s \in DOMAIN sources /\ sources[s].blocked # "no"
    BY <1>0 DEF SourcesTrue
  <2> QED BY <1>0, <1>6, <1>7, <2>1
<1>9. \A i \in DOMAIN wire : wire[i].at < born[s] + Window
  BY <1>0, <1>7
<1>10. clock < born[s] + Window
  BY <1>0, <1>7
<1> QED BY <1>3, <1>5, <1>8, <1>9, <1>10

\* The same of every behaviour.
THEOREM DeadSourcesStayDead == Spec => NeverRevived
<1>1. Inv /\ [Next]_vars => [QuotesLiveSource]_vars
  BY QuotingLive
<1> QED BY <1>1, AlwaysInv, PTL DEF Spec, NeverRevived

-----------------------------------------------------------------------------
(* Where rows go.                                                          *)

\* What a step may make of the row of x: a new row is reserved, a row in doubt
\* stays in doubt, one that was confirmed says so for a day, one that failed
\* may be dropped and reserved anew.
Goes(x) ==
    /\ x \in DOMAIN ops' => x \in DOMAIN ops \/ ops'[x].state = "reserved"
    /\ x \in DOMAIN ops /\ ops[x].state = "unknown" => x \in DOMAIN ops' /\ ops'[x].state = "unknown"
    /\ x \in DOMAIN ops /\ ops[x].state \in {"sent", "history_evicted"} =>
          \/ ops[x].updated + Day < Now
          \/ x \in DOMAIN ops' /\ ops'[x].state \in {"sent", "history_evicted"}
    /\ x \in DOMAIN ops' /\ x \in DOMAIN ops /\ ops[x].state \in {"not_sent", "rejected"} =>
          ops'[x].state \in {"not_sent", "rejected", "reserved"}

\* Retention takes no row in doubt, and a confirmed one only after a day.
LEMMA AgesGoes ==
    ASSUME NEW o, NEW p, Ages(o, p), NEW x
    PROVE  /\ x \in DOMAIN p => x \in DOMAIN o
           /\ x \in DOMAIN o /\ o[x].state = "unknown" => x \in DOMAIN p /\ p[x].state = "unknown"
           /\ x \in DOMAIN o /\ o[x].state \in {"sent", "history_evicted"} =>
                 \/ o[x].updated + Day < Now
                 \/ x \in DOMAIN p /\ p[x].state \in {"sent", "history_evicted"}
           /\ x \in DOMAIN p /\ o[x].state \in {"not_sent", "rejected"} => p[x].state = o[x].state
BY DEF Ages, Unfinished

\* The rows age, after that of an ended send changed.
LEMMA EndedGoes ==
    ASSUME NEW o, NEW E, E \subseteq DOMAIN ops, Ages(o, ops'), DOMAIN o = DOMAIN ops,
           \A x \in E : ops[x].state \in {"reserved", "in_flight"},
           \A x \in DOMAIN ops \ E : o[x] = ops[x],
           NEW x
    PROVE  Goes(x)
<1>1. CASE x \in E
  BY <1>1, AgesGoes DEF Goes
<1>2. CASE x \notin E
  <2>1. x \in DOMAIN ops => o[x] = ops[x]
    BY <1>2
  <2> QED BY <2>1, AgesGoes DEF Goes
<1> QED BY <1>1, <1>2

\* A row is reserved only where there is none, or no longer.
LEMMA StartGoes ==
    ASSUME NEW op, NEW o, NEW mode, NEW n, Starts(op, o, mode, n), NEW x
    PROVE  Goes(x)
<1> DEFINE r == [state |-> "reserved", seq |-> n, started |-> Now, updated |-> Now]
<1>1. /\ ops' = Extend(o, op, r) /\ r.state = "reserved"
      /\ Ages(ops, o) /\ op \notin DOMAIN o
  BY DEF Starts
<1> HIDE DEF r
<1>2. /\ DOMAIN ops' = DOMAIN o \cup {op} /\ ops'[op] = r
      /\ \A y \in DOMAIN o : ops'[y] = o[y]
  BY <1>1 DEF Extend
<1>3. CASE x = op
  BY <1>1, <1>2, <1>3, AgesGoes DEF Goes
<1>4. CASE x # op
  <2>1. x \in DOMAIN ops' <=> x \in DOMAIN o
    BY <1>2, <1>4
  <2> QED BY <1>1, <1>2, <2>1, AgesGoes DEF Goes
<1> QED BY <1>3, <1>4

\* The row of a send under way may change as it likes.
LEMMA TurnGoes ==
    ASSUME RowsTyped, NEW op \in DOMAIN tasks, NEW r, ops' = [ops EXCEPT ![op] = r], NEW x
    PROVE  Goes(x)
<1>1. op \in DOMAIN ops /\ ops[op].state \in {"reserved", "in_flight"}
  BY DEF RowsTyped
<1>2. DOMAIN ops' = DOMAIN ops /\ (x \in DOMAIN ops /\ x # op => ops'[x] = ops[x])
  OBVIOUS
<1>3. CASE x = op
  BY <1>1, <1>2, <1>3 DEF Goes
<1>4. CASE x # op
  BY <1>2, <1>4 DEF Goes
<1> QED BY <1>3, <1>4

\* Nothing happens to the rows.
LEMMA SameGoes == UNCHANGED ops => \A x : Goes(x)
BY DEF Goes

\* Every step moves every row so.
LEMMA RowsGo ==
    ASSUME Inv, [Next]_vars, NEW x
    PROVE  Goes(x)
<1>0. RowsInv /\ RowsTyped
  BY DEF Inv, RowsInv
<1>1. CASE UNCHANGED vars
  BY <1>1, SameGoes DEF vars, ledger
<1>2. ASSUME Ages(ops, ops')
      PROVE  Goes(x)
  BY <1>2, AgesGoes DEF Goes
<1>3. CASE Prune
  <2>1. Ages(ops, ops')
    BY <1>0, <1>3, Pruning DEF Prune, PruneInto
  <2> QED BY <1>2, <2>1
<1>4. ASSUME NEW s \in Sources, Observe(s)
      PROVE  Goes(x)
  <2>1. Ages(ops, ops')
    BY <1>0, <1>4, Pruning DEF Observe, PruneInto
  <2> QED BY <1>2, <2>1
<1>5. ASSUME NEW op \in Ops, Reserve(op) \/ ReserveNative(op)
      PROVE  Goes(x)
  <2>1. \E o, mode, n : Starts(op, o, mode, n)
    BY <1>5, Reserving, ReservingNative
  <2> QED BY <2>1, StartGoes
<1>6. ASSUME NEW op \in Ops, Submit(op) \/ SwitchBeforeWire(op) \/ SwitchActive(op) \/ SwitchPassive(op)
      PROVE  Goes(x)
  <2>1. op \in DOMAIN tasks
    BY <1>6 DEF Submit, SwitchBeforeWire, SwitchActive, SwitchPassive, Task
  <2>2. \E r : ops' = [ops EXCEPT ![op] = r]
    <3>1. CASE Submit(op)
      <4> DEFINE r == [ops[op] EXCEPT !.state = "in_flight", !.updated = Now]
      <4>1. ops' = [ops EXCEPT ![op] = r]
        BY <3>1 DEF Submit
      <4> HIDE DEF r
      <4> QED BY <4>1
    <3>2. CASE SwitchPassive(op)
      <4>1. \E t, u : Turns(op, t, u)
        BY <3>2, PassiveTurns
      <4> QED BY <4>1 DEF Turns
    <3>3. CASE ToActive(op)
      <4> DEFINE r == [ops[op] EXCEPT !.seq = 0, !.state = "reserved", !.updated = Now]
      <4>1. ops' = [ops EXCEPT ![op] = r]
        BY <3>3 DEF ToActive
      <4> HIDE DEF r
      <4> QED BY <4>1
    <3> QED BY <1>6, <3>1, <3>2, <3>3 DEF SwitchBeforeWire, SwitchActive
  <2> QED BY <1>0, <2>1, <2>2, TurnGoes
<1>7. ASSUME NEW op \in Ops, \/ GiveUp(op) \/ Confirmed(op) \/ Uncertain(op) \/ BadReceipt(op)
                             \/ ConnectFailed(op) \/ Rejected(op)
      PROVE  Goes(x)
  <2>1. op \in DOMAIN tasks /\ \E state \in Terminal \cup {"unknown"} : Finish(op, state)
    <3>1. op \in DOMAIN tasks
      BY <1>7 DEF GiveUp, Confirmed, Uncertain, BadReceipt, ConnectFailed, Rejected, Task
    <3>2. \E state \in {"sent", "rejected", "not_sent", "unknown"} : Finish(op, state)
      BY <1>7 DEF GiveUp, Confirmed, Uncertain, BadReceipt, ConnectFailed, Rejected
    <3> QED BY <3>1, <3>2 DEF Terminal
  <2>2. PICK state \in Terminal \cup {"unknown"} : Finish(op, state)
    BY <2>1
  <2> DEFINE o == Ended(op, state)
             E == {op}
  <2>3. /\ o \in [DOMAIN ops -> OpRow] /\ Ages(o, ops')
        /\ \A y \in DOMAIN ops : y # op => o[y] = ops[y]
        /\ op \in DOMAIN ops /\ ops[op].state \in {"reserved", "in_flight"}
    BY <1>0, <2>1, <2>2, Finishing
  <2> HIDE DEF o
  <2>4. /\ E \subseteq DOMAIN ops /\ DOMAIN o = DOMAIN ops
        /\ \A y \in E : ops[y].state \in {"reserved", "in_flight"}
        /\ \A y \in DOMAIN ops \ E : o[y] = ops[y]
    BY <2>3
  <2> HIDE DEF E
  <2> QED BY <2>3, <2>4, EndedGoes
<1>8. CASE (\E op \in Ops : Unauthorized(op) \/ StorageFault(op)) \/ (\E i \in DOMAIN wire : QQActs(i))
           \/ SetClock \/ Reload
  BY <1>8, SameGoes DEF Unauthorized, StorageFault, QQActs, SetClock, Reload, ledger
<1>9. CASE Crash
  <2> DEFINE E == In(ops, {"reserved", "in_flight"})
  <2>1. PICK o : /\ Ages(o, ops') /\ DOMAIN o = DOMAIN ops
                 /\ \A y \in DOMAIN ops : ops[y].state \notin {"reserved", "in_flight"} => o[y] = ops[y]
    BY <1>0, <1>9, CrashCloses
  <2>2. /\ E \subseteq DOMAIN ops
        /\ \A y \in E : ops[y].state \in {"reserved", "in_flight"}
        /\ \A y \in DOMAIN ops \ E : o[y] = ops[y]
    BY <2>1 DEF In
  <2> HIDE DEF E
  <2> QED BY <2>1, <2>2, EndedGoes
<1> QED BY <1>1, <1>3, <1>4, <1>5, <1>6, <1>7, <1>8, <1>9 DEF Next

\* What is in doubt stays in doubt.
LEMMA NoDoubtLost ==
    ASSUME Inv, [Next]_vars
    PROVE  UnknownRemains
<1> SUFFICES ASSUME NEW x \in In(ops, {"unknown"})
             PROVE  x \in In(ops', {"unknown"})
  BY DEF UnknownRemains
<1>1. Goes(x)
  BY RowsGo
<1> QED BY <1>1 DEF Goes, In

\* Nobody takes an uncertain send for settled: no prune, full table, retry,
\* restart or clock step removes or changes its row.
THEOREM DoubtRemains == Spec => UnknownStays
<1>1. Inv /\ [Next]_vars => [UnknownRemains]_vars
  BY NoDoubtLost
<1> QED BY <1>1, AlwaysInv, PTL DEF Spec, UnknownStays

-----------------------------------------------------------------------------
(* What the caller is promised.                                            *)

Accepted(op) == {i \in DOMAIN wire : wire[i].op = op /\ wire[i].fate = "accepted"}

\* The refinement mapping of Promise.
TheVerdict == [op \in Ops |->
    IF op \notin DOMAIN ops THEN "none"
    ELSE CASE ops[op].state \in {"reserved", "in_flight"} -> "pending"
           [] ops[op].state \in {"sent", "history_evicted"} -> "sent"
           [] ops[op].state = "unknown" -> "unknown"
           [] OTHER -> "failed"]
TheCopies == [op \in Ops |->
    Cardinality({i \in DOMAIN wire : wire[i].op = op /\ wire[i].fate = "accepted"})]

\* Less than a day has passed since the ledger was created.
Today == clock \in 0 .. MaxClock /\ water \in 0 .. MaxClock

\* The clock stays within its bound, and no transaction runs ahead of it.
LEMMA TodayKept ==
    ASSUME Today, [Next]_vars
    PROVE  Today'
<1>1. Now \in 0 .. MaxClock
  BY LimitsAssumption DEF Today, Now
<1>2. CASE water' \in {water, Now} /\ clock' = clock
  BY <1>1, <1>2 DEF Today
<1>3. CASE UNCHANGED vars
  BY <1>2, <1>3 DEF vars, ledger
<1>4. CASE Prune \/ (\E s \in Sources : Observe(s)) \/ Reload \/ Crash \/ (\E i \in DOMAIN wire : QQActs(i))
  BY <1>2, <1>4 DEF Prune, Observe, PruneInto, Reload, Crash, QQActs, ledger
<1>5. CASE SetClock
  BY SMTT(30), <1>5 DEF SetClock, Today, ledger
<1>6. ASSUME NEW op \in Ops, \/ Reserve(op) \/ ReserveNative(op) \/ Submit(op) \/ SwitchBeforeWire(op)
                             \/ SwitchActive(op) \/ SwitchPassive(op) \/ Unauthorized(op) \/ StorageFault(op)
      PROVE  water' \in {water, Now} /\ clock' = clock
  BY <1>6 DEF Reserve, ReserveNative, Start, Submit, SwitchBeforeWire, SwitchActive, SwitchPassive, ToActive,
              Unauthorized, StorageFault, answerFrame, ledger
<1>7. ASSUME NEW op \in Ops, \/ GiveUp(op) \/ Confirmed(op) \/ Uncertain(op) \/ BadReceipt(op)
                             \/ ConnectFailed(op) \/ Rejected(op)
      PROVE  water' \in {water, Now} /\ clock' = clock
  BY <1>7 DEF GiveUp, Confirmed, Uncertain, BadReceipt, ConnectFailed, Rejected, Finish, answerFrame
<1>8. CASE \E op \in Ops : water' \in {water, Now} /\ clock' = clock
  BY <1>2, <1>8
<1> QED BY <1>3, <1>4, <1>5, <1>6, <1>7, <1>8 DEF Next

\* With readable receipts, and before anything is a day old, a request that
\* may have reached QQ is the only one of its id and its row says so.
LEMMA OneCopy ==
    ASSUME Inv, Today, ~BadReceipts, MaxClock < Day
    PROVE  /\ \A i \in DOMAIN wire : Possible(i) =>
                 wire[i].op \in DOMAIN ops /\ ops[wire[i].op].state \in Lasting
           /\ \A i, j \in DOMAIN wire :
                 wire[i].op = wire[j].op /\ Possible(i) /\ Possible(j) => i = j
           /\ \A op \in DOMAIN ops : ops[op].state \in {"sent", "history_evicted"} =>
                 \E i \in Accepted(op) : Accepted(op) = {i}
<1>1. /\ RowsInv /\ RowsTyped /\ Day \in Nat /\ MaxClock \in Nat /\ MaxClock < Day
      /\ water \in Nat /\ water <= MaxClock
      /\ \A i \in DOMAIN wire : wire[i].at \in Nat /\ wire[i].at <= water /\ wire[i].op \in Trusted
  BY WireFields, LimitsAssumption DEF Inv, RowsInv, Remembered, Today, Trusted
<1>2. \A i \in DOMAIN wire : Possible(i) => Kept(i)
  BY <1>1 DEF RowsInv, Remembered
<1>3. DOMAIN wire \subseteq Nat
  BY <1>1 DEF RowsTyped
<1>4. \A i, j \in DOMAIN wire : wire[i].op = wire[j].op /\ Possible(i) /\ Possible(j) => ~(i < j)
  BY <1>1 DEF RowsInv, OnceADay
<1>5. \A i, j \in DOMAIN wire : wire[i].op = wire[j].op /\ Possible(i) /\ Possible(j) => i = j
  BY <1>3, <1>4
<1>6. ASSUME NEW op \in DOMAIN ops, ops[op].state \in {"sent", "history_evicted"}
      PROVE  \E i \in Accepted(op) : Accepted(op) = {i}
  <2>1. \E i \in DOMAIN wire : wire[i].op = op /\ wire[i].fate = "accepted"
    BY <1>1, <1>6 DEF RowsInv, Honest, Claims
  <2>2. \A i, j \in Accepted(op) : i = j
    BY <1>5 DEF Accepted, Possible
  <2> QED BY <2>1, <2>2 DEF Accepted
<1> QED BY <1>2, <1>5, <1>6 DEF Kept

\* Copies of what did not reach QQ, and of what was confirmed.
CopiesSay ==
    \A op \in Ops :
        /\ TheVerdict[op] \in {"none", "failed"} => TheCopies[op] = 0
        /\ TheVerdict[op] = "sent" => TheCopies[op] = 1
        /\ TheVerdict[op] \in {"none", "pending", "sent", "failed", "unknown"}

\* The verdict tells the number of copies.
LEMMA CopiesCounted ==
    ASSUME Inv, Today, ~BadReceipts, MaxClock < Day
    PROVE  CopiesSay
<1> SUFFICES ASSUME NEW op \in Ops
             PROVE  /\ TheVerdict[op] \in {"none", "failed"} => TheCopies[op] = 0
                    /\ TheVerdict[op] = "sent" => TheCopies[op] = 1
                    /\ TheVerdict[op] \in {"none", "pending", "sent", "failed", "unknown"}
  BY DEF CopiesSay
<1>1. TheCopies[op] = Cardinality(Accepted(op))
  BY DEF TheCopies, Accepted
<1>2. /\ TheVerdict[op] \in {"none", "pending", "sent", "failed", "unknown"}
      /\ TheVerdict[op] \in {"none", "failed"} => op \notin DOMAIN ops \/ ops[op].state \notin Lasting
      /\ TheVerdict[op] = "sent" => op \in DOMAIN ops /\ ops[op].state \in {"sent", "history_evicted"}
  BY DEF TheVerdict, Lasting
<1>3. CASE TheVerdict[op] \in {"none", "failed"}
  <2>1. Accepted(op) = {}
    BY <1>2, <1>3, OneCopy DEF Accepted, Possible
  <2> QED BY <1>1, <1>2, <1>3, <2>1, FS_EmptySet
<1>4. CASE TheVerdict[op] = "sent"
  <2>1. \E i : Accepted(op) = {i}
    BY <1>2, <1>4, OneCopy
  <2> QED BY <1>1, <1>2, <1>4, <2>1, FS_Singleton
<1> QED BY <1>2, <1>3, <1>4

\* The same of the state after a step.
LEMMA CopiesCountedNext ==
    ASSUME ~BadReceipts, MaxClock < Day
    PROVE  Inv' /\ Today' => CopiesSay'
<1>1. Inv /\ Today => CopiesSay
  BY CopiesCounted
<1> QED BY <1>1, PTL

\* A row's verdict moves along the promise's edges.
LEMMA VerdictMoves ==
    ASSUME Inv, Inv', Today, Today', ~BadReceipts, MaxClock < Day, NEW op \in Ops, Goes(op),
           TheCopies'[op] = TheCopies[op]
    PROVE  \/ TheVerdict'[op] = TheVerdict[op]
           \/ TheVerdict[op] = "none" /\ TheVerdict'[op] = "pending"
           \/ TheVerdict[op] = "pending" /\ TheVerdict'[op] = "sent" /\ TheCopies[op] = 1
           \/ TheVerdict[op] = "pending" /\ TheVerdict'[op] \in {"failed", "none"} /\ TheCopies[op] = 0
           \/ TheVerdict[op] = "pending" /\ TheVerdict'[op] = "unknown"
           \/ TheVerdict[op] = "failed" /\ TheVerdict'[op] \in {"none", "pending"}
<1>1. /\ TheVerdict'[op] \in {"none", "failed"} => TheCopies'[op] = 0
      /\ TheVerdict'[op] = "sent" => TheCopies'[op] = 1
      /\ TheVerdict'[op] \in {"none", "pending", "sent", "failed", "unknown"}
  BY CopiesCountedNext DEF CopiesSay
<1>2. TheVerdict[op] \in {"none", "pending", "sent", "failed", "unknown"}
  BY CopiesCounted DEF CopiesSay
<1>3. ~(op \in DOMAIN ops /\ ops[op].updated + Day < Now)
  <2> SUFFICES ASSUME op \in DOMAIN ops, ops[op].updated + Day < Now PROVE FALSE
    OBVIOUS
  <2>1. Now \in 0 .. MaxClock /\ MaxClock \in Nat /\ Day \in Nat
    BY LimitsAssumption DEF Today, Now
  <2>2. ops[op].updated \in Nat
    BY RowFields DEF Inv, RowsInv, RowsTyped
  <2> QED BY <2>1, <2>2
<1>4. CASE TheVerdict[op] = "none"
  <2>1. op \notin DOMAIN ops
    BY <1>4 DEF TheVerdict
  <2>2. op \in DOMAIN ops' => ops'[op].state = "reserved"
    BY <2>1 DEF Goes
  <2>3. TheVerdict'[op] \in {"none", "pending"}
    BY <2>2 DEF TheVerdict
  <2> QED BY <1>4, <2>3
<1>5. CASE TheVerdict[op] = "pending"
  BY <1>1, <1>5
<1>6. CASE TheVerdict[op] = "sent"
  <2>1. op \in DOMAIN ops /\ ops[op].state \in {"sent", "history_evicted"}
    BY <1>6 DEF TheVerdict
  <2>2. op \in DOMAIN ops' /\ ops'[op].state \in {"sent", "history_evicted"}
    BY <1>3, <2>1 DEF Goes
  <2>3. TheVerdict'[op] = "sent"
    BY <2>2 DEF TheVerdict
  <2> QED BY <1>6, <2>3
<1>7. CASE TheVerdict[op] = "unknown"
  <2>1. op \in DOMAIN ops /\ ops[op].state = "unknown"
    BY <1>7 DEF TheVerdict
  <2>2. op \in DOMAIN ops' /\ ops'[op].state = "unknown"
    BY <2>1 DEF Goes
  <2>3. TheVerdict'[op] = "unknown"
    BY <2>2 DEF TheVerdict
  <2> QED BY <1>7, <2>3
<1>8. CASE TheVerdict[op] = "failed"
  <2>1. op \in DOMAIN ops /\ ops[op].state \in {"not_sent", "rejected"}
    <3>1. op \in DOMAIN ops /\ ops[op].state \in States
      BY <1>8, RowFields DEF TheVerdict, Inv, RowsInv, RowsTyped
    <3>2. ops[op].state \notin {"reserved", "in_flight", "sent", "history_evicted", "unknown"}
      BY <1>8, <3>1 DEF TheVerdict
    <3> QED BY <3>1, <3>2 DEF States, Unfinished, Terminal
  <2>2. op \in DOMAIN ops' => ops'[op].state \in {"not_sent", "rejected", "reserved"}
    BY <2>1 DEF Goes
  <2>3. TheVerdict'[op] \in {"none", "failed", "pending"}
    BY <2>2 DEF TheVerdict
  <2> QED BY <1>8, <2>3
<1> QED BY <1>2, <1>4, <1>5, <1>6, <1>7, <1>8

\* Only QQ makes a request accepted; for the promise everything else is a report.
LEMMA CopiesStay ==
    ASSUME Inv, [Next]_vars, ~ \E i \in DOMAIN wire : QQActs(i)
    PROVE  \A op : Accepted(op)' = Accepted(op)
<1>0. RowsInv /\ RowsTyped
  BY DEF Inv, RowsInv
<1>1. UNCHANGED wire => \A op : Accepted(op)' = Accepted(op)
  BY DEF Accepted
<1>2. ASSUME NEW op \in Ops, ConnectFailed(op)
      PROVE  \A x : Accepted(x)' = Accepted(x)
  <2> DEFINE k == tasks[op].req
  <2>1. /\ op \in DOMAIN tasks /\ tasks[op].pc = "wire" /\ wire[k].fate = "open"
        /\ wire' = [wire EXCEPT ![k].fate = "refused"]
    BY <1>2 DEF ConnectFailed, Task, Verdict
  <2>2. k \in DOMAIN wire
    BY <1>0, <2>1, UnderWay
  <2> HIDE DEF k
  <2>3. WireKept /\ wire'[k].fate = "refused"
    BY <1>0, <2>1, <2>2, Decided
  <2>4. DOMAIN wire' = DOMAIN wire /\ \A i \in DOMAIN wire : /\ wire'[i].op = wire[i].op
                                                             /\ i # k => wire'[i].fate = wire[i].fate
    BY <2>1, <2>3 DEF WireKept
  <2> QED BY <2>1, <2>3, <2>4 DEF Accepted
<1>3. ASSUME NEW op \in Ops, Submit(op)
      PROVE  \A x : Accepted(x)' = Accepted(x)
  <2> DEFINE q == [op |-> op, src |-> Quoted(op), seq |-> tasks[op].seq, fate |-> "open", at |-> Now]
             n == Len(wire) + 1
  <2>1. wire' = Append(wire, q) /\ q.fate = "open" /\ wire \in Seq(Request)
    BY <1>0, <1>3 DEF Submit, RowsTyped
  <2> HIDE DEF q
  <2>2. /\ Len(wire) \in Nat /\ DOMAIN wire = 1 .. Len(wire) /\ DOMAIN wire' = 1 .. n
        /\ wire'[n] = q /\ \A i \in DOMAIN wire : wire'[i] = wire[i]
    BY <2>1
  <2>3. DOMAIN wire' = DOMAIN wire \cup {n} /\ n \notin DOMAIN wire
    BY <2>2
  <2> HIDE DEF n
  <2> QED BY <2>1, <2>2, <2>3 DEF Accepted
<1>4. CASE UNCHANGED vars
  BY <1>1, <1>4 DEF vars
<1>5. CASE Prune \/ (\E s \in Sources : Observe(s)) \/ SetClock \/ Reload \/ Crash
  BY <1>1, <1>5 DEF Prune, Observe, SetClock, Reload, Crash
<1>6. CASE \E op \in Ops : Reserve(op) \/ ReserveNative(op) \/ SwitchBeforeWire(op) \/ Unauthorized(op)
  BY <1>1, <1>6 DEF Reserve, ReserveNative, SwitchBeforeWire, Unauthorized
<1>7. CASE \E op \in Ops : \/ GiveUp(op) \/ Confirmed(op) \/ Uncertain(op) \/ BadReceipt(op)
                           \/ Rejected(op) \/ SwitchActive(op) \/ SwitchPassive(op) \/ StorageFault(op)
  BY <1>1, <1>7 DEF answerFrame, GiveUp, Confirmed, Uncertain, BadReceipt, Rejected, SwitchActive,
                    SwitchPassive, StorageFault
<1> QED BY <1>2, <1>3, <1>4, <1>5, <1>6, <1>7 DEF Next

\* QQ's decision on request i.
LEMMA QQTakes ==
    ASSUME Inv, Inv', Today, Today', ~BadReceipts, MaxClock < Day,
           NEW i \in DOMAIN wire, QQActs(i)
    PROVE  \/ UNCHANGED <<TheVerdict, TheCopies>>
           \/ /\ TheVerdict[wire[i].op] \in {"pending", "unknown"} /\ TheCopies[wire[i].op] = 0
              /\ TheCopies' = [TheCopies EXCEPT ![wire[i].op] = 1]
              /\ UNCHANGED TheVerdict
<1>a. RowsTyped /\ wire[i].op \in Ops
  BY WireFields DEF Inv, RowsInv
<1>0. PICK op \in Ops : op = wire[i].op
  BY <1>a
<1>1. PICK f \in {"accepted", "refused"} : wire' = [wire EXCEPT ![i].fate = f]
  BY DEF QQActs
<1>2. wire[i].fate = "open" /\ WireKept /\ wire'[i].fate = f
  BY <1>a, <1>1, Decided DEF QQActs
<1>3. DOMAIN wire' = DOMAIN wire /\ \A k \in DOMAIN wire : /\ wire'[k].op = wire[k].op
                                                           /\ k # i => wire'[k].fate = wire[k].fate
  BY <1>1, <1>2 DEF WireKept
<1>4. UNCHANGED TheVerdict
  BY DEF QQActs, ledger, TheVerdict
<1>5. \A x \in Ops : x # op => Accepted(x)' = Accepted(x)
  BY <1>0, <1>2, <1>3 DEF Accepted
<1>6. CASE f = "refused"
  <2>1. \A x \in Ops : Accepted(x)' = Accepted(x)
    BY <1>2, <1>3, <1>6 DEF Accepted
  <2>2. TheCopies' = TheCopies
    BY <2>1 DEF TheCopies, Accepted
  <2> QED BY <1>4, <2>2
<1>7. CASE f = "accepted"
  <2>1. Accepted(op) = {}
    BY <1>0, <1>2, OneCopy DEF Accepted, Possible
  <2>2. Accepted(op)' = {i}
    BY <1>0, <1>2, <1>3, <1>7, <2>1 DEF Accepted
  <2>3. op \in DOMAIN ops /\ ops[op].state \in {"in_flight", "unknown"}
    <3>1. op \in DOMAIN ops /\ ops[op].state \in Lasting
      BY <1>0, <1>2, OneCopy DEF Possible
    <3>2. ops[op].state \notin {"sent", "history_evicted"}
      BY <2>1, <3>1, OneCopy
    <3> QED BY <3>1, <3>2 DEF Lasting
  <2>4. TheVerdict[op] \in {"pending", "unknown"}
    BY <1>0, <2>3 DEF TheVerdict
  <2>5. TheCopies[op] = 0 /\ TheCopies'[op] = 1
    <3>1. TheCopies[op] = Cardinality(Accepted(op)) /\ TheCopies'[op] = Cardinality(Accepted(op)')
      BY <1>0 DEF TheCopies, Accepted
    <3> QED BY <2>1, <2>2, <3>1, FS_EmptySet, FS_Singleton
  <2>6. \A x \in Ops : x # op => TheCopies'[x] = TheCopies[x]
    BY <1>5 DEF TheCopies, Accepted
  <2>7. TheCopies' = [TheCopies EXCEPT ![op] = 1]
    <3>1. TheCopies' = [x \in Ops |-> TheCopies'[x]]
      BY DEF TheCopies
    <3>2. DOMAIN TheCopies = Ops
      BY DEF TheCopies
    <3>3. \A x \in Ops : TheCopies'[x] = IF x = op THEN 1 ELSE TheCopies[x]
      BY <2>5, <2>6
    <3>4. TheCopies' = [x \in Ops |-> IF x = op THEN 1 ELSE TheCopies[x]]
      BY <3>1, <3>3
    <3>5. [TheCopies EXCEPT ![op] = 1] = [x \in Ops |-> IF x = op THEN 1 ELSE TheCopies[x]]
      BY <3>2
    <3> QED BY <3>4, <3>5
  <2> QED BY <1>0, <1>4, <2>4, <2>5, <2>7
<1> QED BY <1>6, <1>7

\* A step of the ledger is a step of the promise, or none.
LEMMA StepPromised ==
    ASSUME Inv, Inv', Today, Today', ~BadReceipts, MaxClock < Day, [Next]_vars
    PROVE  [Promise!Next]_<<TheVerdict, TheCopies>>
<1>1. CASE \E i \in DOMAIN wire : QQActs(i)
  <2>1. PICK i \in DOMAIN wire : QQActs(i)
    BY <1>1
  <2>2. wire[i].op \in Ops
    BY WireFields DEF Inv, RowsInv
  <2> QED BY <2>1, <2>2, QQTakes DEF Promise!Next, Promise!Take, TheVerdict, TheCopies
<1>2. CASE ~ \E i \in DOMAIN wire : QQActs(i)
  <2>1. TheCopies' = TheCopies
    <3>1. \A op : Accepted(op)' = Accepted(op)
      BY <1>2, CopiesStay
    <3> QED BY <3>1 DEF TheCopies, Accepted
  <2>2. TheVerdict' \in [Ops -> {"none", "pending", "sent", "failed", "unknown"}]
    <3>1. \A op \in Ops : TheVerdict'[op] \in {"none", "pending", "sent", "failed", "unknown"}
      BY CopiesCountedNext DEF CopiesSay
    <3>2. TheVerdict' = [op \in Ops |-> TheVerdict'[op]]
      BY DEF TheVerdict
    <3> QED BY <3>1, <3>2
  <2>3. ASSUME NEW op \in Ops
        PROVE  Promise!May(op, TheVerdict'[op])
    <3>1. Goes(op) /\ TheCopies'[op] = TheCopies[op]
      BY <2>1, RowsGo
    <3> QED BY <3>1, VerdictMoves DEF Promise!May, TheVerdict, TheCopies
  <2>4. Promise!Report
    BY <2>1, <2>2, <2>3 DEF Promise!Report, TheVerdict, TheCopies
  <2> QED BY <2>4 DEF Promise!Next
<1> QED BY <1>1, <1>2

\* Seen from the caller the ledger keeps its promise: QQ takes an operation at
\* most once, sent and failed are what QQ did, and doubt stays doubt.  Two
\* hypotheses: receipts are readable, and history has not come of age, after
\* which a record may be forgotten and its id be used again.
THEOREM PromiseKept == ASSUME ~BadReceipts, MaxClock < Day
                       PROVE  Spec => KeepsPromise
<1>1. Init => Promise!Init
  <2> SUFFICES ASSUME Init PROVE Promise!Init
    OBVIOUS
  <2>1. DOMAIN ops = {} /\ DOMAIN wire = {}
    BY DEF Init
  <2>2. \A op \in Ops : Cardinality({i \in DOMAIN wire : wire[i].op = op /\ wire[i].fate = "accepted"}) = 0
    <3>1. \A op \in Ops : {i \in DOMAIN wire : wire[i].op = op /\ wire[i].fate = "accepted"} = {}
      BY <2>1
    <3> QED BY <3>1, FS_EmptySet
  <2> QED BY <2>1, <2>2 DEF Promise!Init
<1>2. Init => Today
  BY LimitsAssumption DEF Init, Today
<1>3. Inv /\ Inv' /\ Today /\ Today' /\ [Next]_vars => [Promise!Next]_<<TheVerdict, TheCopies>>
  BY StepPromised
<1>4. Today /\ [Next]_vars => Today'
  BY TodayKept
<1> QED BY <1>1, <1>2, <1>3, <1>4, AlwaysInv, PTL
        DEF Spec, KeepsPromise, Promise!Spec, TheVerdict, TheCopies

-----------------------------------------------------------------------------
(* The instance the runs check beside another one, which takes turns at the *)
(* variables.                                                              *)

OwnInv == part = "own" => Inv

\* The other instance never touches this one's behaviours.
LEMMA OwnInvAlways == LedgerSpec => []OwnInv
<1>1. LedgerInit => OwnInv
  BY Initially DEF LedgerInit, OwnInv
<1>2. OwnInv /\ [OwnStep \/ EventsStep]_<<part, vars>> => OwnInv'
  <2> SUFFICES ASSUME OwnInv, [OwnStep \/ EventsStep]_<<part, vars>>, part' = "own"
               PROVE  Inv'
    BY DEF OwnInv
  <2>1. part = "own" /\ [Next]_vars
    BY DEF OwnStep, EventsStep
  <2> QED BY <2>1, Inductive DEF OwnInv
<1> QED BY <1>1, <1>2, PTL DEF LedgerSpec

\* Columns keep their types, sent means that QQ has the message, and what is
\* called not sent, rejected or only reserved can never reach it.
THEOREM LedgerIsTrue == ASSUME ~BadReceipts
                        PROVE  LedgerSpec => []LedgerTrue
<1>1. OwnInv => LedgerTrue
  BY InvIsTyped, TruthOfInv DEF OwnInv, LedgerTrue
<1> QED BY <1>1, OwnInvAlways, PTL

\* The shared memory of every lane: no msg_seq is used twice for one source
\* within a day, whatever lanes, restarts, prunes and clock steps met.
THEOREM SequencesUnique == ASSUME ~BadReceipts
                           PROVE  LedgerSpec => []SeqsUnique
<1>1. OwnInv => SeqsUnique
  BY OnceOfInv DEF OwnInv, SeqsUnique
<1> QED BY <1>1, OwnInvAlways, PTL

\* No operation is written again within a day of a request that may have
\* reached QQ: by no retry, mode change, new token, trimmed history or restart.
THEOREM SentAtMostOnce == ASSUME ~BadReceipts
                          PROVE  LedgerSpec => []SentOnce
<1>1. OwnInv => SentOnce
  BY OnceOfInv DEF OwnInv, SentOnce
<1> QED BY <1>1, OwnInvAlways, PTL

Alone == part = "own"

\* Without a second instance the runs' specification is Spec.
LEMMA AloneIsSpec == ASSUME Parts = {"own"}
                     PROVE  LedgerSpec => Spec /\ []Alone
<1>1. LedgerInit => Init /\ Alone
  BY DEF LedgerInit, Alone
<1>2. Alone /\ [OwnStep \/ EventsStep]_<<part, vars>> => [Next]_vars /\ Alone'
  BY DEF OwnStep, EventsStep, Alone
<1> QED BY <1>1, <1>2, PTL DEF LedgerSpec, Spec

\* DeadSourcesStayDead, of the instance alone.
THEOREM DeadStaysDeadAlone == ASSUME Parts = {"own"}
                              PROVE  LedgerSpec => DeadStaysDead
<1>1. Alone /\ Inv /\ [Next]_vars =>
         [/\ part = "own"    => QuotesLiveSource
          /\ part = "events" => Events!QuotesLiveSource]_<<part, vars>>
  BY QuotingLive DEF Alone
<1> QED BY <1>1, AloneIsSpec, AlwaysInv, PTL DEF Spec, DeadStaysDead

\* DoubtRemains, of the instance alone.
THEOREM DoubtStaysAlone == ASSUME Parts = {"own"}
                           PROVE  LedgerSpec => DoubtStays
<1>1. Alone /\ Inv /\ [Next]_vars =>
         [/\ part = "own"    => UnknownRemains
          /\ part = "events" => Events!UnknownRemains]_<<part, vars>>
  BY NoDoubtLost DEF Alone
<1> QED BY <1>1, AloneIsSpec, AlwaysInv, PTL DEF Spec, DoubtStays

\* The promise to the caller, of the instance alone (see PromiseKept).
THEOREM PromiseKeptAlone == ASSUME Parts = {"own"},
                                   ~BadReceipts, MaxClock < Day
                            PROVE  LedgerSpec => KeepsPromise
<1>1. Spec => KeepsPromise
  BY PromiseKept
<1>2. LedgerSpec => Spec
  BY AloneIsSpec, PTL
<1> QED BY <1>1, <1>2, PTL

-----------------------------------------------------------------------------
(* The mode of a send.  What is one life of an operation is told by its      *)
(* times, so this needs that no row is dropped within a second, for room.    *)

Roomy == IsFiniteSet(Ops) /\ Cardinality(Ops) <= OpCap

\* A reply may stop quoting, a session send may begin to, and a native one
\* does neither.
MayFollow(op, earlier, later) ==
    /\ Lane[op] = "reply" /\ earlier = NoSource => later = NoSource
    /\ Lane[op] = "session" /\ later = NoSource => earlier = NoSource
    /\ Lane[op] = "native" => earlier = later

\* A row is as young as every request of its id, or the request is past.
Dated ==
    \A i \in DOMAIN wire :
        \/ wire[i].op \in DOMAIN ops /\ wire[i].at <= ops[wire[i].op].updated
        \/ wire[i].at < water

\* Within one life of an operation, every request may follow every earlier one,
\* and the attempt under way may follow them all.
ModesInv ==
    /\ Dated
    /\ \A op \in DOMAIN ops : \A i, j \in OfLife(op) :
          i < j => MayFollow(op, wire[i].src, wire[j].src)
    /\ \A op \in DOMAIN tasks : \A i \in OfLife(op) : MayFollow(op, wire[i].src, Quoted(op))

\* A finished row is only dropped for room when there are more rows than fit.
LEMMA NothingTrimmed ==
    ASSUME Roomy, NEW o, DOMAIN o \subseteq Ops, NEW keep, NEW T \in Trims(o, keep)
    PROVE  T = {}
<1> DEFINE C == In(o, Terminal)
<1>1. C \subseteq Ops
  BY DEF In
<1>2. IsFiniteSet(C) /\ Cardinality(C) \in Nat /\ Cardinality(C) <= Cardinality(Ops)
      /\ Cardinality(Ops) \in Nat
  BY <1>1, FS_Subset, FS_CardinalityType DEF Roomy
<1>3. Cardinality(C) <= OpCap /\ OpCap \in Nat
  BY <1>2, LimitsAssumption DEF Roomy
<1>4. T \subseteq C /\ Cardinality(T) = IF Cardinality(C) - OpCap > 0 THEN Cardinality(C) - OpCap ELSE 0
  BY DEF Trims
<1> HIDE DEF C
<1>5. Cardinality(T) = 0
  BY <1>2, <1>3, <1>4
<1>6. IsFiniteSet(T)
  BY <1>2, <1>4, FS_Subset
<1> QED BY <1>5, <1>6, FS_EmptySet

\* What retention leaves when nothing is trimmed.
Forgotten(o) == \A x \in DOMAIN ops \ DOMAIN o : ops[x].updated + Day < Now
LEMMA OnlyOldForgotten ==
    ASSUME Roomy, RowsTyped, NEW T \in Trims(Aged, {})
    PROVE  Forgotten(Trimmed(Aged, T))
<1>1. DOMAIN Aged = {x \in DOMAIN ops : ops[x].state \in Unfinished \/ ops[x].updated >= Now - Day}
  BY DEF Aged, Restriction
<1>2. \A x \in DOMAIN ops : ops[x].updated \in Nat
  BY RowFields DEF RowsTyped
<1>3. T = {}
  <2>1. DOMAIN Aged \subseteq Ops
    BY <1>1 DEF RowsTyped
  <2> HIDE DEF Aged
  <2> QED BY <2>1, NothingTrimmed
<1>4. DOMAIN Trimmed(Aged, T) = DOMAIN Aged
  <2> HIDE DEF Aged
  <2> QED BY <1>3 DEF Trimmed
<1> HIDE DEF Aged
<1>5. ASSUME NEW x \in DOMAIN ops \ DOMAIN Aged PROVE ops[x].updated + Day < Now
  BY <1>1, <1>2, NowIsTime
<1> QED BY <1>4, <1>5 DEF Forgotten

\* Sends go on as they are or end, rows grow older.
Quiet ==
    /\ WireKept
    /\ DOMAIN ops' \subseteq DOMAIN ops /\ Forgotten(ops')
    /\ \A x \in DOMAIN ops' : /\ ops'[x].started = ops[x].started
                              /\ ops'[x].updated \in {ops[x].updated, Now}
    /\ water' = Now \/ (water' = water /\ DOMAIN ops' = DOMAIN ops)
    /\ \A x \in DOMAIN tasks' : x \in DOMAIN tasks /\ x \in DOMAIN ops'
                                /\ tasks'[x].mode = tasks[x].mode

LEMMA QuietKeeps == ASSUME RowsInv, ModesInv, Quiet PROVE ModesInv'
<1>0. RowsTyped /\ Day \in Nat /\ Now \in Nat /\ water \in Nat /\ water <= Now
      /\ \A i \in DOMAIN wire : wire[i].at \in Nat /\ wire[i].at <= water
      /\ \A x \in DOMAIN ops : ops[x].updated \in Nat
  BY NowIsTime, WireFields, RowFields DEF RowsInv, RowsTyped, Remembered
<1>1. /\ DOMAIN wire' = DOMAIN wire
      /\ \A i \in DOMAIN wire : /\ wire'[i].op = wire[i].op /\ wire'[i].at = wire[i].at
                                /\ wire'[i].src = wire[i].src
  BY DEF Quiet, WireKept
<1>2. ASSUME NEW x \in DOMAIN ops'
      PROVE  OfLife(x)' = OfLife(x) /\ x \in DOMAIN ops
  BY <1>1 DEF Quiet, OfLife
<1>3. Dated'
  <2> SUFFICES ASSUME NEW i \in DOMAIN wire
               PROVE  \/ wire[i].op \in DOMAIN ops' /\ wire[i].at <= ops'[wire[i].op].updated
                      \/ wire[i].at < water'
    BY <1>1 DEF Dated
  <2>1. water <= water'
    BY <1>0 DEF Quiet
  <2>2. CASE wire[i].at < water
    BY <1>0, <2>1, <2>2 DEF Quiet
  <2>3. CASE wire[i].op \in DOMAIN ops /\ wire[i].at <= ops[wire[i].op].updated
    <3>1. CASE wire[i].op \in DOMAIN ops'
      BY <1>0, <2>3, <3>1 DEF Quiet
    <3>2. CASE wire[i].op \notin DOMAIN ops'
      BY <1>0, <2>3, <3>2 DEF Quiet, Forgotten
    <3> QED BY <3>1, <3>2
  <2> QED BY <2>2, <2>3 DEF ModesInv, Dated
<1>4. \A op \in DOMAIN ops' : \A i, j \in OfLife(op)' :
          i < j => MayFollow(op, wire'[i].src, wire'[j].src)
  <2> SUFFICES ASSUME NEW op \in DOMAIN ops', NEW i \in OfLife(op)', NEW j \in OfLife(op)', i < j
               PROVE  MayFollow(op, wire'[i].src, wire'[j].src)
    OBVIOUS
  <2>1. i \in OfLife(op) /\ j \in OfLife(op) /\ op \in DOMAIN ops
    BY <1>2
  <2>2. MayFollow(op, wire[i].src, wire[j].src)
    BY <2>1 DEF ModesInv
  <2>3. i \in DOMAIN wire /\ j \in DOMAIN wire
    BY <2>1 DEF OfLife
  <2> QED BY <1>1, <2>2, <2>3
<1>5. \A op \in DOMAIN tasks' : \A i \in OfLife(op)' : MayFollow(op, wire'[i].src, Quoted(op)')
  <2> SUFFICES ASSUME NEW op \in DOMAIN tasks', NEW i \in OfLife(op)'
               PROVE  MayFollow(op, wire'[i].src, Quoted(op)')
    OBVIOUS
  <2>1. op \in DOMAIN tasks /\ op \in DOMAIN ops' /\ tasks'[op].mode = tasks[op].mode
    BY DEF Quiet
  <2>2. i \in OfLife(op)
    BY <1>2, <2>1
  <2>3. MayFollow(op, wire[i].src, Quoted(op))
    BY <2>1, <2>2 DEF ModesInv
  <2>4. i \in DOMAIN wire
    BY <2>2 DEF OfLife
  <2>5. Quoted(op)' = Quoted(op)
    BY <2>1 DEF Quoted
  <2> QED BY <1>1, <2>3, <2>4, <2>5
<1> QED BY <1>3, <1>4, <1>5 DEF ModesInv

\* A life begins without a request: those of the last one are past.
LEMMA StartModes ==
    ASSUME RowsInv, ModesInv, NEW op \in Ops, NEW o, NEW mode, NEW n, Starts(op, o, mode, n),
           Forgotten(o)
    PROVE  ModesInv'
<1> DEFINE r == [state |-> "reserved", seq |-> n, started |-> Now, updated |-> Now]
<1>0. RowsTyped /\ Day \in Nat /\ Now \in Nat /\ water \in Nat /\ water <= Now /\ water' = Now
      /\ UNCHANGED wire
      /\ \A i \in DOMAIN wire : wire[i].at \in Nat /\ wire[i].at <= water
      /\ \A x \in DOMAIN ops : ops[x].updated \in Nat
  BY NowIsTime, WireFields, RowFields DEF RowsInv, RowsTyped, Remembered, Starts
<1>1. /\ ops' = Extend(o, op, r) /\ r.started = Now /\ r.updated = Now
      /\ op \notin DOMAIN o /\ op \notin DOMAIN tasks
  BY DEF Starts
<1> HIDE DEF r
<1>2. /\ DOMAIN ops' = DOMAIN o \cup {op} /\ ops'[op] = r
      /\ \A x \in DOMAIN o : /\ x \in DOMAIN ops /\ ops'[x].started = ops[x].started
                             /\ ops'[x].updated = ops[x].updated
  BY <1>1 DEF Starts, Extend, Ages
<1>3. PICK t \in TaskRow : t.mode = mode /\ tasks' = Extend(tasks, op, t)
  BY DEF Starts
<1>4. DOMAIN tasks' = DOMAIN tasks \cup {op} /\ \A x \in DOMAIN tasks : tasks'[x] = tasks[x]
  BY <1>1, <1>3 DEF Extend
<1>5. \A i \in DOMAIN wire : wire[i].op \notin DOMAIN o => wire[i].at < Now
  BY <1>0 DEF ModesInv, Dated, Forgotten
<1>6. OfLife(op)' = {}
  BY <1>0, <1>1, <1>2, <1>5 DEF OfLife
<1>7. ASSUME NEW x \in DOMAIN o PROVE OfLife(x)' = OfLife(x)
  BY <1>0, <1>2, <1>7 DEF OfLife
<1>8. Dated'
  BY <1>0, <1>2, <1>5 DEF ModesInv, Dated
<1>9. \A x \in DOMAIN ops' : \A i, j \in OfLife(x)' : i < j => MayFollow(x, wire'[i].src, wire'[j].src)
  BY <1>0, <1>2, <1>6, <1>7 DEF ModesInv
<1>10. \A x \in DOMAIN tasks' : \A i \in OfLife(x)' : MayFollow(x, wire'[i].src, Quoted(x)')
  <2> SUFFICES ASSUME NEW x \in DOMAIN tasks', NEW i \in OfLife(x)'
               PROVE  MayFollow(x, wire'[i].src, Quoted(x)')
    OBVIOUS
  <2>1. x # op /\ x \in DOMAIN tasks
    BY <1>4, <1>6
  <2>2. x \in DOMAIN o
    <3>1. x \in DOMAIN ops /\ ops[x].state \in Unfinished
      BY <1>0, <2>1 DEF RowsTyped, Unfinished
    <3> QED BY <3>1 DEF Starts, Ages
  <2>3. i \in OfLife(x) /\ Quoted(x)' = Quoted(x)
    BY <1>4, <1>7, <2>1, <2>2 DEF Quoted
  <2> QED BY <1>0, <2>1, <2>3 DEF ModesInv
<1> QED BY <1>8, <1>9, <1>10 DEF ModesInv

\* A change of mode that the lane may make.
LEMMA TurnModes ==
    ASSUME RowsInv, ModesInv, NEW op, NEW r, NEW t, Turns(op, r, t),
           \A a : MayFollow(op, a, Quoted(op)) => MayFollow(op, a, Quoted(op)')
    PROVE  ModesInv'
<1>0. RowsTyped /\ Now \in Nat /\ water \in Nat /\ water <= Now /\ op \in DOMAIN tasks
      /\ UNCHANGED wire
      /\ \A i \in DOMAIN wire : wire[i].at \in Nat /\ wire[i].at <= water
      /\ \A x \in DOMAIN ops : ops[x].updated \in Nat
  BY NowIsTime, WireFields, RowFields DEF RowsInv, RowsTyped, Remembered, Turns
<1>1. op \in DOMAIN ops
  BY <1>0 DEF RowsTyped
<1>2. /\ DOMAIN ops' = DOMAIN ops /\ DOMAIN tasks' = DOMAIN tasks
      /\ \A x \in DOMAIN ops : /\ ops'[x].started = ops[x].started
                               /\ ops'[x].updated \in {ops[x].updated, Now}
      /\ \A x \in DOMAIN tasks : x # op => tasks'[x] = tasks[x]
  BY <1>1 DEF Turns
<1>3. \A x \in DOMAIN ops : OfLife(x)' = OfLife(x)
  BY <1>0, <1>2 DEF OfLife
<1>4. Dated'
  <2>1. water <= water' /\ water' \in Nat
    BY <1>0 DEF Turns
  <2> QED BY <1>0, <1>2, <2>1 DEF ModesInv, Dated
<1>5. \A x \in DOMAIN ops' : \A i, j \in OfLife(x)' : i < j => MayFollow(x, wire'[i].src, wire'[j].src)
  BY <1>0, <1>2, <1>3 DEF ModesInv
<1>6. \A x \in DOMAIN tasks' : \A i \in OfLife(x)' : MayFollow(x, wire'[i].src, Quoted(x)')
  <2> SUFFICES ASSUME NEW x \in DOMAIN tasks, NEW i \in OfLife(x)
               PROVE  MayFollow(x, wire[i].src, Quoted(x)')
    BY <1>0, <1>2, <1>3 DEF RowsTyped
  <2>1. MayFollow(x, wire[i].src, Quoted(x))
    BY DEF ModesInv
  <2>2. CASE x = op
    BY <2>1, <2>2
  <2>3. CASE x # op
    <3>1. Quoted(x)' = Quoted(x)
      BY <1>2, <2>3 DEF Quoted
    <3> QED BY <2>1, <3>1
  <2> QED BY <2>2, <2>3
<1> QED BY <1>4, <1>5, <1>6 DEF ModesInv

\* The next request quotes what the mode says.
LEMMA SubmitModes ==
    ASSUME RowsInv, ModesInv, NEW op \in Ops, Submit(op)
    PROVE  ModesInv'
<1> DEFINE q == [op |-> op, src |-> Quoted(op), seq |-> tasks[op].seq, fate |-> "open", at |-> Now]
           r == [ops[op] EXCEPT !.state = "in_flight", !.updated = Now]
           t == [tasks[op] EXCEPT !.pc = "wire", !.req = Len(wire) + 1]
<1>0. RowsTyped /\ Now \in Nat /\ water \in Nat /\ water <= Now /\ water' = Now
      /\ \A i \in DOMAIN wire : wire[i].at \in Nat /\ wire[i].at <= water
      /\ \A x \in DOMAIN ops : ops[x].updated \in Nat
  BY NowIsTime, WireFields, RowFields DEF RowsInv, RowsTyped, Remembered, Submit
<1>1. op \in DOMAIN tasks /\ op \in DOMAIN ops /\ ops[op] \in OpRow /\ tasks[op] \in TaskRow
      /\ ops[op].started \in Nat /\ ops[op].started <= water
  <2>1. op \in DOMAIN tasks
    BY DEF Submit, Task
  <2> QED BY <2>1, UnderWay
<1>2. q.op = op /\ q.src = Quoted(op) /\ q.at = Now /\ wire' = Append(wire, q)
  BY DEF Submit
<1>3. r.started = ops[op].started /\ r.updated = Now /\ ops' = [ops EXCEPT ![op] = r]
  BY <1>1 DEF Submit, OpRow
<1>4. t.mode = tasks[op].mode /\ tasks' = [tasks EXCEPT ![op] = t]
  BY <1>1 DEF Submit, TaskRow
<1> DEFINE k == Len(wire) + 1
<1> HIDE DEF q, r, t
<1>5. /\ DOMAIN wire' = DOMAIN wire \cup {k} /\ wire'[k] = q
      /\ \A i \in DOMAIN wire : wire'[i] = wire[i] /\ i \in Nat /\ i < k
      /\ k \notin DOMAIN wire /\ k \in Nat
  BY <1>0, <1>2 DEF RowsTyped
<1> HIDE DEF k
<1>6. /\ DOMAIN ops' = DOMAIN ops /\ DOMAIN tasks' = DOMAIN tasks
      /\ \A x \in DOMAIN ops : /\ ops'[x].started = ops[x].started
                               /\ ops'[x].updated \in {ops[x].updated, Now}
      /\ \A x \in DOMAIN tasks : tasks'[x].mode = tasks[x].mode
      /\ ops'[op].updated = Now
  BY <1>1, <1>3, <1>4
<1>7. \A x \in DOMAIN ops : OfLife(x)' = OfLife(x) \cup IF x = op THEN {k} ELSE {}
  <2> SUFFICES ASSUME NEW x \in DOMAIN ops
               PROVE  OfLife(x)' = OfLife(x) \cup IF x = op THEN {k} ELSE {}
    OBVIOUS
  <2>1. \A i \in DOMAIN wire : i \in OfLife(x)' <=> i \in OfLife(x)
    BY <1>5, <1>6 DEF OfLife
  <2>2. k \in OfLife(x)' <=> x = op
    BY <1>0, <1>1, <1>2, <1>5, <1>6 DEF OfLife
  <2>3. OfLife(x)' \subseteq DOMAIN wire \cup {k} /\ OfLife(x) \subseteq DOMAIN wire
    BY <1>5 DEF OfLife
  <2> QED BY <2>1, <2>2, <2>3
<1>8. Dated'
  <2> SUFFICES ASSUME NEW i \in DOMAIN wire'
               PROVE  \/ wire'[i].op \in DOMAIN ops' /\ wire'[i].at <= ops'[wire'[i].op].updated
                      \/ wire'[i].at < water'
    BY DEF Dated
  <2>1. CASE i = k
    BY <1>0, <1>1, <1>2, <1>5, <1>6, <2>1
  <2>2. CASE i # k
    <3>1. i \in DOMAIN wire /\ wire'[i] = wire[i]
      BY <1>5, <2>2
    <3> QED BY <1>0, <1>6, <3>1 DEF ModesInv, Dated
  <2> QED BY <2>1, <2>2
<1>10. ASSUME NEW x \in DOMAIN ops', NEW i \in OfLife(x)', NEW j \in OfLife(x)', i < j
       PROVE  MayFollow(x, wire'[i].src, wire'[j].src)
  <2>1. i \in OfLife(x) /\ wire'[i] = wire[i] /\ x \in DOMAIN ops
    <3>1. x \in DOMAIN ops /\ i \in DOMAIN wire \cup {k} /\ j \in DOMAIN wire \cup {k}
      BY <1>5, <1>6 DEF OfLife
    <3>2. i # k
      BY <1>5, <1>10, <3>1
    <3> QED BY <1>5, <1>7, <3>1, <3>2
  <2>2. CASE j = k
    <3>1. x = op
      BY <1>5, <1>7, <2>1, <2>2 DEF OfLife
    <3> QED BY <1>1, <1>2, <1>5, <2>1, <2>2, <3>1 DEF ModesInv
  <2>3. CASE j # k
    <3>1. j \in OfLife(x) /\ wire'[j] = wire[j]
      BY <1>5, <1>7, <2>1, <2>3 DEF OfLife
    <3> QED BY <1>10, <2>1, <3>1 DEF ModesInv
  <2> QED BY <2>2, <2>3
<1>11. ASSUME NEW x \in DOMAIN tasks', NEW i \in OfLife(x)'
       PROVE  MayFollow(x, wire'[i].src, Quoted(x)')
  <2>1. x \in DOMAIN tasks /\ x \in DOMAIN ops /\ Quoted(x)' = Quoted(x)
    BY <1>0, <1>6 DEF Quoted, RowsTyped
  <2>2. CASE i = k
    <3>1. x = op
      BY <1>5, <1>7, <2>1, <2>2 DEF OfLife
    <3> QED BY <1>2, <1>5, <2>1, <2>2, <3>1 DEF MayFollow
  <2>3. CASE i # k
    <3>1. i \in OfLife(x) /\ wire'[i] = wire[i]
      BY <1>5, <1>7, <2>1, <2>3 DEF OfLife
    <3> QED BY <2>1, <3>1 DEF ModesInv
  <2> QED BY <2>2, <2>3
<1> QED BY <1>8, <1>10, <1>11 DEF ModesInv

LEMMA NothingTakenAway ==
    ASSUME NEW o PROVE DOMAIN Trimmed(o, {}) = DOMAIN o /\ \A x \in DOMAIN o : Trimmed(o, {})[x] = o[x]
BY DEF Trimmed

\* A send ends, whatever QQ did; its row stays.
LEMMA FinishQuiet ==
    ASSUME Roomy, RowsInv, NEW op \in DOMAIN tasks, NEW state \in Terminal \cup {"unknown"},
           Finish(op, state), WireKept
    PROVE  Quiet
<1> DEFINE o == Ended(op, state)
<1>1. /\ o \in [DOMAIN ops -> OpRow] /\ \A x \in DOMAIN ops : x # op => o[x] = ops[x]
      /\ o[op].updated = Now /\ o[op].started = ops[op].started
      /\ TasksLeft(DOMAIN tasks \ {op}) /\ water' = Now
  BY Finishing DEF RowsInv
<1>2. PICK T \in IF state = "unknown" THEN {{}} ELSE Trims(o, {op}) : ops' = Trimmed(o, T)
  BY DEF Finish, Ended
<1> HIDE DEF o
<1>3. T = {}
  <2>1. DOMAIN o \subseteq Ops
    BY <1>1 DEF RowsInv, RowsTyped
  <2> QED BY <1>2, <2>1, NothingTrimmed
<1>4. DOMAIN ops' = DOMAIN ops /\ \A x \in DOMAIN ops : ops'[x] = o[x]
  BY <1>1, <1>2, <1>3, NothingTakenAway
<1>5. Forgotten(ops')
  BY <1>4 DEF Forgotten
<1>6. \A x \in DOMAIN ops' : ops'[x].started = ops[x].started /\ ops'[x].updated \in {ops[x].updated, Now}
  BY <1>1, <1>4
<1>7. \A x \in DOMAIN tasks' : x \in DOMAIN tasks /\ x \in DOMAIN ops' /\ tasks'[x].mode = tasks[x].mode
  BY <1>1, <1>4 DEF TasksLeft, RowsInv, RowsTyped
<1> QED BY <1>1, <1>4, <1>5, <1>6, <1>7 DEF Quiet

\* The rows grow old.
LEMMA PruneQuiet ==
    ASSUME Roomy, RowsInv, NEW T \in Trims(Aged, {}), ops' = Trimmed(Aged, T), water' = Now,
           UNCHANGED <<tasks, wire>>
    PROVE  Quiet
<1>0. RowsTyped /\ WireKept
  BY WireSame DEF RowsInv
<1>1. Ages(ops, ops') /\ Forgotten(ops')
  BY <1>0, Pruning, OnlyOldForgotten
<1>2. \A x \in DOMAIN tasks : x \in DOMAIN ops'
  BY <1>0, <1>1 DEF RowsTyped, Ages, Unfinished
<1>3. DOMAIN ops' \subseteq DOMAIN ops
      /\ \A x \in DOMAIN ops' : ops'[x].started = ops[x].started /\ ops'[x].updated = ops[x].updated
  BY <1>1 DEF Ages
<1> QED BY <1>0, <1>1, <1>2, <1>3 DEF Quiet

\* No row changes.
LEMMA RestQuiet ==
    ASSUME RowsInv, UNCHANGED ops, WireKept, water' = Now \/ water' = water,
           \A x \in DOMAIN tasks' : x \in DOMAIN tasks /\ tasks'[x].mode = tasks[x].mode
    PROVE  Quiet
BY DEF Quiet, Forgotten, RowsInv, RowsTyped

\* A process that died: its rows are judged and stay.
LEMMA CrashQuiet == ASSUME Roomy, RowsInv, Crash PROVE Quiet
<1> DEFINE open == In(ops, {"reserved", "in_flight"})
           o == [op \in DOMAIN ops |->
                    IF op \in open THEN [ops[op] EXCEPT !.state = Recovered(@), !.updated = Now]
                                   ELSE ops[op]]
<1>0. RowsTyped /\ WireKept /\ water' = Now
  BY WireSame DEF RowsInv, Crash
<1>1. PICK T \in IF In(ops, {"reserved"}) = {} THEN {{}} ELSE Trims(o, {}) : ops' = Trimmed(o, T)
  BY DEF Crash
<1>2. DOMAIN o = DOMAIN ops /\ DOMAIN ops \subseteq Ops
  BY <1>0 DEF RowsTyped
<1>3. ASSUME NEW x \in DOMAIN ops
      PROVE  o[x].started = ops[x].started /\ o[x].updated \in {ops[x].updated, Now}
  <2>1. ops[x] \in OpRow
    BY <1>0 DEF RowsTyped
  <2> QED BY <2>1 DEF OpRow
<1> HIDE DEF o
<1>4. T = {}
  BY <1>1, <1>2, NothingTrimmed
<1>5. DOMAIN ops' = DOMAIN ops /\ \A x \in DOMAIN ops : ops'[x] = o[x]
  BY <1>1, <1>2, <1>4, NothingTakenAway
<1>6. DOMAIN tasks' = {}
  <2>1. tasks' = << >>
    BY DEF Crash
  <2> QED BY <2>1
<1> QED BY <1>0, <1>3, <1>5, <1>6 DEF Quiet, Forgotten

\* A send begins where no row is, or only one a day old.
LEMMA ReserveModes ==
    ASSUME Roomy, Inv, ModesInv, NEW op \in Ops, Reserve(op) \/ ReserveNative(op)
    PROVE  ModesInv'
<1>0. RowsInv /\ RowsTyped
  BY DEF Inv, RowsInv
<1>1. PICK o, mode, n : Starts(op, o, mode, n)
  BY Reserving, ReservingNative
<1>2. \E T \in Trims(Aged, {}) :
         op \notin DOMAIN Trimmed(Aged, T) /\ \E m, k : Start(op, Trimmed(Aged, T), m, k)
  <2>1. CASE Reserve(op)
    BY <2>1 DEF Reserve, Room
  <2>2. CASE ReserveNative(op)
    BY <2>2 DEF ReserveNative, Room
  <2> QED BY <2>1, <2>2
<1>3. PICK T \in Trims(Aged, {}) :
         op \notin DOMAIN Trimmed(Aged, T) /\ \E m, k : Start(op, Trimmed(Aged, T), m, k)
  BY <1>2
<1>4. Forgotten(Trimmed(Aged, T))
  BY <1>0, <1>3, OnlyOldForgotten
<1> DEFINE p == Trimmed(Aged, T)
<1>5. DOMAIN ops' = DOMAIN p \cup {op}
  BY <1>3 DEF Start, Extend
<1>6. DOMAIN ops' = DOMAIN o \cup {op} /\ op \notin DOMAIN o
  BY <1>1 DEF Starts, Extend
<1>7. Forgotten(o)
  <2> HIDE DEF p
  <2>1. DOMAIN o = DOMAIN p
    BY <1>3, <1>5, <1>6 DEF p
  <2> QED BY <1>4, <2>1 DEF Forgotten, p
<1> QED BY <1>0, <1>1, <1>7, StartModes

LEMMA ModesKept == ASSUME Roomy, Inv, ModesInv, [Next]_vars PROVE ModesInv'
<1>0. RowsInv /\ RowsTyped
  BY DEF Inv, RowsInv
<1>1. Quiet => ModesInv'
  BY <1>0, QuietKeeps
<1>2. UNCHANGED wire => WireKept
  BY <1>0, WireSame
<1>3. CASE UNCHANGED vars \/ SetClock \/ Reload
  <2>1. UNCHANGED <<ops, tasks, wire, water>>
    BY <1>3 DEF SetClock, Reload, vars, ledger
  <2> QED BY <1>0, <1>1, <1>2, <2>1, RestQuiet
<1>4. CASE Prune \/ \E s \in Sources : Observe(s)
  <2>1. \E T \in Trims(Aged, {}) : ops' = Trimmed(Aged, T) /\ water' = Now
    BY <1>4 DEF Prune, Observe, PruneInto
  <2>2. UNCHANGED <<tasks, wire>>
    BY <1>4 DEF Prune, Observe
  <2> QED BY <1>0, <1>1, <2>1, <2>2, PruneQuiet
<1>5. ASSUME NEW op \in Ops, Reserve(op) \/ ReserveNative(op) PROVE ModesInv'
  BY <1>5, ReserveModes
<1>6. ASSUME NEW op \in Ops, Submit(op) PROVE ModesInv'
  BY <1>0, <1>6, SubmitModes
<1>7. ASSUME NEW op \in Ops, SwitchBeforeWire(op) \/ SwitchActive(op) PROVE ModesInv'
  <2>1. /\ op \in DOMAIN tasks /\ Lane[op] = "reply" /\ ToActive(op) /\ UNCHANGED <<clock, wire>>
        /\ tasks[op].pc = "wire" => wire[tasks[op].req].fate = "refused"
    BY <1>7 DEF SwitchBeforeWire, SwitchActive, Fallback, Task, Verdict, answerFrame
  <2>2. PICK r, t : Turns(op, r, t) /\ t.mode = "active"
    BY <1>0, <2>1, ToActiveTurns
  <2>3. tasks'[op].mode = "active"
    BY <2>1, <2>2 DEF Turns
  <2>4. Quoted(op)' = NoSource
    BY <2>3 DEF Quoted
  <2>5. \A a : MayFollow(op, a, Quoted(op)')
    BY <2>1, <2>4 DEF MayFollow
  <2> QED BY <1>0, <2>2, <2>5, TurnModes
<1>8. ASSUME NEW op \in Ops, SwitchPassive(op) PROVE ModesInv'
  <2>1. PICK r, t : Turns(op, r, t) /\ Lane[op] = "session"
    BY <1>8, PassiveTurns
  <2>2. Quoted(op) = NoSource
    BY <1>8 DEF SwitchPassive, Quoted
  <2>3. \A a : MayFollow(op, a, Quoted(op)) => MayFollow(op, a, Quoted(op)')
    BY <2>1, <2>2 DEF MayFollow
  <2> QED BY <1>0, <2>1, <2>3, TurnModes
<1>9. ASSUME NEW op \in Ops, Unauthorized(op) PROVE ModesInv'
  <2>1. PICK r, t : Turns(op, r, t) /\ t.mode = tasks[op].mode
    BY <1>0, <1>9, UnauthorizedTurns
  <2>2. tasks'[op].mode = tasks[op].mode
    BY <2>1 DEF Turns
  <2>3. Quoted(op)' = Quoted(op)
    BY <2>2 DEF Quoted
  <2> QED BY <1>0, <2>1, <2>3, TurnModes
<1>10. ASSUME NEW op \in Ops, ConnectFailed(op) PROVE ModesInv'
  <2>1. /\ op \in DOMAIN tasks /\ tasks[op].pc = "wire" /\ wire[tasks[op].req].fate = "open"
        /\ wire' = [wire EXCEPT ![tasks[op].req].fate = "refused"] /\ Finish(op, "not_sent")
    BY <1>10 DEF ConnectFailed, Task, Verdict
  <2>2. tasks[op].req \in DOMAIN wire
    BY <1>0, <2>1, UnderWay
  <2>3. WireKept
    BY <1>0, <2>1, <2>2, Decided
  <2>4. "not_sent" \in Terminal
    BY DEF Terminal
  <2> QED BY <1>0, <1>1, <2>1, <2>3, <2>4, FinishQuiet
<1>11. ASSUME NEW op \in Ops, GiveUp(op) \/ Confirmed(op) \/ Uncertain(op) \/ BadReceipt(op) \/ Rejected(op)
       PROVE  ModesInv'
  <2>1. op \in DOMAIN tasks /\ UNCHANGED wire
    BY <1>11 DEF GiveUp, Confirmed, Uncertain, BadReceipt, Rejected, Task, answerFrame
  <2>2. \E state \in {"sent", "rejected", "not_sent", "unknown"} : Finish(op, state)
    BY <1>11 DEF GiveUp, Confirmed, Uncertain, BadReceipt, Rejected
  <2>3. PICK state \in Terminal \cup {"unknown"} : Finish(op, state)
    BY <2>2 DEF Terminal
  <2> QED BY <1>0, <1>1, <1>2, <2>1, <2>3, FinishQuiet
<1>12. ASSUME NEW op \in Ops, StorageFault(op) PROVE ModesInv'
  <2>1. UNCHANGED <<ops, wire, water>> /\ tasks' = Restriction(tasks, DOMAIN tasks \ {op})
    BY <1>12 DEF StorageFault, EndTask, answerFrame
  <2>2. \A x \in DOMAIN tasks' : x \in DOMAIN tasks /\ tasks'[x] = tasks[x]
    BY <2>1 DEF Restriction
  <2> QED BY <1>0, <1>1, <1>2, <2>1, <2>2, RestQuiet
<1>13. ASSUME NEW i \in DOMAIN wire, QQActs(i) PROVE ModesInv'
  <2>1. UNCHANGED <<ops, tasks, water>> /\ WireKept
    BY <1>0, <1>13, Decided DEF QQActs, ledger
  <2> QED BY <1>0, <1>1, <2>1, RestQuiet
<1>14. CASE Crash
  BY <1>0, <1>1, <1>14, CrashQuiet
<1> QED
  BY <1>3, <1>4, <1>5, <1>6, <1>7, <1>8, <1>9, <1>10, <1>11, <1>12, <1>13, <1>14 DEF Next

\* The mode of a life turns once at most, since quoting has two values.
LEMMA ModesConvertOnce == ASSUME Inv, ModesInv PROVE ConvertsOnce
<1> SUFFICES ASSUME NEW op \in DOMAIN ops, NEW i \in OfLife(op), NEW j \in OfLife(op),
                    NEW k \in OfLife(op), i < j, j < k
             PROVE  wire[i].src = wire[j].src \/ wire[j].src = wire[k].src
  BY DEF ConvertsOnce
<1>1. op \in Ops /\ Lane[op] \in {"reply", "session", "native"}
  BY CallsAssumption DEF Inv, RowsInv, RowsTyped
<1>2. MayFollow(op, wire[i].src, wire[j].src) /\ MayFollow(op, wire[j].src, wire[k].src)
  BY DEF ModesInv
<1>3. \A n \in {i, j, k} : wire[n].src \in {NoSource, Src[op]}
  <2>1. \A n \in {i, j, k} : n \in DOMAIN wire /\ wire[n].op = op
    BY DEF OfLife
  <2> QED BY <2>1 DEF Inv, RowsInv, Remembered
<1> QED BY <1>1, <1>2, <1>3 DEF MayFollow

\* A session send that falls back keeps the ledger truthful and its sequences
\* unique, and no life of a send, in any lane, changes its mode twice
\* (ReplyDelivery, switch_active, switch_passive): across crashes, new tokens
\* and clock steps, as long as the history has room for the operations.
THEOREM SessionsAreSound ==
    ASSUME ~BadReceipts, IsFiniteSet(Ops), Cardinality(Ops) <= OpCap
    PROVE  LedgerSpec => []SessionSound
<1> DEFINE OwnModes == part = "own" => Inv /\ ModesInv
<1>0. Roomy
  BY DEF Roomy
<1>1. LedgerInit => OwnModes
  <2> SUFFICES ASSUME LedgerInit, part = "own" PROVE Inv /\ ModesInv
    OBVIOUS
  <2>1. Init /\ Inv
    BY Initially DEF LedgerInit
  <2>2. DOMAIN wire = {} /\ DOMAIN ops = {} /\ DOMAIN tasks = {}
    BY <2>1 DEF Init
  <2>3. ModesInv
    BY <2>2 DEF ModesInv, Dated
  <2> QED BY <2>1, <2>3
<1>2. OwnModes /\ [OwnStep \/ EventsStep]_<<part, vars>> => OwnModes'
  <2> SUFFICES ASSUME OwnModes, [OwnStep \/ EventsStep]_<<part, vars>>, part' = "own"
               PROVE  Inv' /\ ModesInv'
    OBVIOUS
  <2>1. part = "own" /\ [Next]_vars
    BY DEF OwnStep, EventsStep
  <2> QED BY <1>0, <2>1, Inductive, ModesKept
<1>3. OwnModes => SessionSound
  BY InvIsTyped, TruthOfInv, OnceOfInv, ModesConvertOnce DEF SessionSound
<1> QED BY <1>1, <1>2, <1>3, PTL DEF LedgerSpec
=============================================================================
