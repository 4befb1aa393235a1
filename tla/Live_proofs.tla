----------------------------- MODULE Live_proofs -----------------------------
(***************************************************************************)
(* Proofs about the inbox and the bindings of LiveMC.                      *)
(*   Inbox, for every set of events and every bound: the types, that       *)
(* nothing taken in is lost, that what was settled had its effect first,   *)
(* that the host gets a message once per generation, that the operator     *)
(* discards what it saw, and that duplicates are told as long as they      *)
(* should be; then that SDK subscribers see each envelope once, in order,  *)
(* and know when it is old, that the host is handed the oldest message,    *)
(* and that the inbox implements the custody it promises to whoever        *)
(* delivers an envelope.                                                   *)
(*   Bindings, for every set of bindings and connections and every bound   *)
(* (BindAssumption): what a binding says it wrote it wrote, once; what has *)
(* ended keeps no secret; and no connection has two bindings under way.    *)
(***************************************************************************)
EXTENDS LiveMC, SequenceTheorems, WellFoundedInduction, TLAPS

\* The columns of a table whose receipts are bounded by the arrivals.
IsTable(t) == t \in [DOMAIN t -> Row] /\ DOMAIN t \subseteq 1 .. Len(log)

\* A pruned table keeps every live row and only loses tombstones.
LEMMA ExpireKeeps ==
    ASSUME NEW t
    PROVE  /\ DOMAIN Expire(t) \subseteq DOMAIN t
           /\ Live(t) \subseteq DOMAIN Expire(t)
           /\ \A r \in DOMAIN Expire(t) : Expire(t)[r] = t[r]
           /\ IsTable(t) => IsTable(Expire(t))
BY DEF Expire, Restriction, Live, IsTable

LEMMA PruneKeeps ==
    ASSUME NEW t
    PROVE  /\ DOMAIN PruneDelivered(t) \subseteq DOMAIN t
           /\ Live(t) \subseteq DOMAIN PruneDelivered(t)
           /\ \A r \in DOMAIN PruneDelivered(t) : PruneDelivered(t)[r] = t[r]
           /\ IsTable(t) => IsTable(PruneDelivered(t))
<1> DEFINE u == Expire(t)
           K == {r \in DOMAIN u : u[r].live \/
                   Cardinality({s \in Tombs(u) : Newer(u, s, r)}) < MaxTombstones}
<1>1. PruneDelivered(t) = [r \in K |-> u[r]]
  BY DEF PruneDelivered, Restriction
<1>2. K \subseteq DOMAIN u /\ Live(t) \subseteq K
  BY ExpireKeeps DEF Live
<1> HIDE DEF u, K
<1>3. DOMAIN PruneDelivered(t) = K /\ \A r \in K : PruneDelivered(t)[r] = u[r]
  BY <1>1
<1>4. /\ DOMAIN u \subseteq DOMAIN t
      /\ \A r \in DOMAIN u : u[r] = t[r]
      /\ IsTable(t) => IsTable(u)
  BY ExpireKeeps DEF u
<1> QED BY <1>1, <1>2, <1>3, <1>4 DEF IsTable

\* The log after a step that settles the rows of S.
LogSettled(t, S, why) ==
    /\ log' \in Seq(Envelope) /\ Len(log') = Len(log)
    /\ \A a \in DOMAIN log :
          /\ log'[a].ev = log[a].ev
          /\ \A r \in S : t[r].arr = a => log'[a].fate = why
          /\ (\A r \in S : t[r].arr # a) => log'[a] = log[a]

\* Settling rows of S takes exactly them out of the live rows, and the log
\* changes exactly for their arrivals.
LEMMA SettleEffect ==
    ASSUME TypeOK, NEW t, IsTable(t), NEW S \in SUBSET Live(t),
           NEW why \in Fates, Settle(t, S, why)
    PROVE  /\ rows' \in [DOMAIN rows' -> Row] /\ DOMAIN rows' \subseteq DOMAIN t
           /\ Live(rows)' = Live(t) \ S
           /\ \A r \in Live(t) \ S : rows'[r] = t[r]
           /\ \A r \in DOMAIN rows' : rows'[r].arr = t[r].arr /\ rows'[r].ev = t[r].ev
           /\ LogSettled(t, S, why)
<1> DEFINE w == [r \in DOMAIN t |->
                  IF r \in S
                  THEN [t[r] EXCEPT !.live = FALSE, !.at = clock,
                          !.disp = IF why = "operator_discard" THEN "discarded" ELSE @]
                  ELSE t[r]]
<1>1. IsTable(w) /\ DOMAIN w = DOMAIN t
  <2>1. ASSUME NEW r \in DOMAIN t PROVE w[r] \in Row
    <3> DEFINE d == IF why = "operator_discard" THEN "discarded" ELSE t[r].disp
    <3>1. clock \in Nat /\ t[r] \in Row
      BY DEF TypeOK, TablesOK, IsTable
    <3>2. d \in {"pending", "invalid", "extension", "discarded"}
      BY <3>1 DEF Row
    <3>3. [t[r] EXCEPT !.live = FALSE, !.at = clock, !.disp = d] \in Row
      BY <3>1, <3>2 DEF Row
    <3>4. w[r] = t[r] \/ w[r] = [t[r] EXCEPT !.live = FALSE, !.at = clock, !.disp = d]
      OBVIOUS
    <3> QED BY <3>1, <3>3, <3>4
  <2> QED BY <2>1 DEF IsTable
<1>2. \A r \in DOMAIN t : r \notin S => w[r] = t[r]
  OBVIOUS
<1>3. \A r \in DOMAIN t : r \in S => ~w[r].live
  BY DEF IsTable, Row
<1>a. \A r \in DOMAIN t : w[r].arr = t[r].arr /\ w[r].ev = t[r].ev
  BY DEF IsTable, Row
<1>4. rows' = PruneDelivered(w)
  BY DEF Settle
<1>5. S \subseteq DOMAIN t /\ Live(t) \subseteq DOMAIN t
  BY DEF Live
<1>6. Live(w) = Live(t) \ S
  BY <1>1, <1>2, <1>3, <1>5 DEF Live
<1> HIDE DEF w
<1>7. /\ rows' \in [DOMAIN rows' -> Row] /\ DOMAIN rows' \subseteq DOMAIN t
      /\ Live(w) \subseteq DOMAIN rows'
      /\ \A r \in DOMAIN rows' : rows'[r] = w[r]
  BY <1>1, <1>4, PruneKeeps DEF IsTable
<1>8. Live(rows)' = Live(w)
  BY <1>7, <1>1 DEF Live
<1>9. \A r \in Live(t) \ S : rows'[r] = t[r]
  BY <1>2, <1>5, <1>6, <1>7
<1>10. LogSettled(t, S, why)
  <2>1. log \in Seq(Envelope) /\ Len(log) \in Nat /\ DOMAIN log = 1 .. Len(log)
    BY DEF TypeOK, TablesOK
  <2>2. \A x \in Envelope : LET y == [x EXCEPT !.fate = why]
                          IN  y \in Envelope /\ y.ev = x.ev /\ y.fate = why
    BY DEF Envelope
  <2>3. log' = [a \in DOMAIN log |-> IF \E r \in S : t[r].arr = a
                                    THEN [log[a] EXCEPT !.fate = why] ELSE log[a]]
    BY DEF Settle
  <2>4. \A a \in 1 .. Len(log) : log[a] \in Envelope
    BY <2>1
  <2>5. log' \in [1 .. Len(log) -> Envelope]
    BY <2>1, <2>2, <2>3, <2>4
  <2>6. log' \in Seq(Envelope) /\ Len(log') = Len(log)
    BY <2>1, <2>5
  <2>7. ASSUME NEW a \in DOMAIN log
        PROVE  /\ log'[a].ev = log[a].ev
               /\ \A r \in S : t[r].arr = a => log'[a].fate = why
               /\ (\A r \in S : t[r].arr # a) => log'[a] = log[a]
    <3>1. CASE \E r \in S : t[r].arr = a
      <4>1. log'[a] = [log[a] EXCEPT !.fate = why]
        BY <2>3, <3>1
      <4> QED BY <2>1, <2>2, <2>4, <3>1, <4>1
    <3>2. CASE ~\E r \in S : t[r].arr = a
      BY <2>3, <3>2
    <3> QED BY <3>1, <3>2
  <2> QED BY <2>6, <2>7 DEF LogSettled
<1>b. \A r \in DOMAIN rows' : rows'[r].arr = t[r].arr /\ rows'[r].ev = t[r].ev
  BY <1>7, <1>a
<1> QED BY <1>6, <1>7, <1>8, <1>9, <1>10, <1>b

-----------------------------------------------------------------------------
(* Type correctness.  Each action's leaf expands that action and its       *)
(* frame; what it does to `rows` and `log` comes from the lemmas above.    *)

LEMMA InitType == Init => TypeOK
BY DEF Init, TypeOK, TablesOK, MemoryOK, HistoryOK, Row, Envelope

LEMMA SettleTables ==
    ASSUME TypeOK, NEW t, IsTable(t), NEW S \in SUBSET Live(t),
           NEW why \in Fates, Settle(t, S, why), UNCHANGED clock
    PROVE  TablesOK'
<1>1. /\ rows' \in [DOMAIN rows' -> Row] /\ DOMAIN rows' \subseteq DOMAIN t
      /\ log' \in Seq(Envelope) /\ Len(log') = Len(log)
  BY SettleEffect DEF LogSettled
<1> QED BY <1>1 DEF TypeOK, TablesOK, IsTable

\* Writing the core state or the disposition of a live row.
LEMMA EditTables ==
    ASSUME TypeOK, NEW r \in DOMAIN rows
    PROVE  /\ \A c \in {"done", "invalid"} : IsTable(SetCore(r, c))
           /\ \A d \in {"invalid", "extension"} :
                 /\ IsTable(Retain(rows, r, d))
                 /\ \A c \in {"done", "invalid"} : IsTable(Retain(SetCore(r, c), r, d))
<1>1. \A x \in Row : /\ \A c \in {"done", "invalid"} : [x EXCEPT !.core = c] \in Row
                     /\ \A d \in {"invalid", "extension"} : [x EXCEPT !.disp = d] \in Row
  BY DEF Row
<1>2. IsTable(rows)
  BY DEF TypeOK, TablesOK, IsTable
<1>3. \A t : IsTable(t) /\ r \in DOMAIN t =>
        /\ \A c \in {"done", "invalid"} : IsTable([t EXCEPT ![r].core = c])
        /\ \A d \in {"invalid", "extension"} : IsTable([t EXCEPT ![r].disp = d])
  BY <1>1 DEF IsTable
<1>4. \A c \in {"done", "invalid"} : IsTable(SetCore(r, c)) /\ r \in DOMAIN SetCore(r, c)
  BY <1>2, <1>3 DEF SetCore
<1> QED BY <1>2, <1>3, <1>4 DEF Retain

LEMMA PublishType ==
    ASSUME TypeOK, NEW r \in DOMAIN rows, Publish(r)
    PROVE  bus' \in Seq([arr : Nat, recovered : BOOLEAN])
<1> DEFINE note == [arr |-> rows[r].arr, recovered |-> r <= recoveredThrough]
           Note == [arr : Nat, recovered : BOOLEAN]
<1>1. rows[r] \in Row /\ bus \in Seq(Note)
  BY DEF TypeOK, TablesOK, HistoryOK
<1>2. note \in Note
  BY <1>1 DEF Row
<1>3. bus' = bus \/ bus' = Append(bus, note)
  BY DEF Publish
<1> HIDE DEF note, Note
<1>4. bus' \in Seq(Note)
  BY <1>1, <1>2, <1>3
<1> QED BY <1>4 DEF Note

LEMMA ApplyType ==
    ASSUME TypeOK, NEW r \in DOMAIN rows, Apply(r)
    PROVE  extEvents' \subseteq Events /\ intake' \subseteq Events
<1>1. rows[r].ev \in Events
  BY DEF TypeOK, TablesOK, Row
<1> QED BY <1>1 DEF Apply, TakeIn, TypeOK, MemoryOK

LEMMA TypeStep == TypeOK /\ [Next]_vars => TypeOK'
<1> SUFFICES ASSUME TypeOK, [Next]_vars PROVE TypeOK'
  OBVIOUS
<1> USE BoundsAssumption, EventsAssumption
<1>0. IsTable(rows) /\ IsTable(Expire(rows)) /\ Len(log) \in Nat
  BY SMTT(30), ExpireKeeps DEF IsTable, TypeOK, TablesOK
<1> DEFINE Tables == <<clock, rows, log>>
<1>a. UNCHANGED Tables => TablesOK'
  BY DEF TypeOK, TablesOK
<1>b. Fail => faults' \in Nat
  BY DEF Fail, TypeOK, MemoryOK
<1>1. CASE UNCHANGED vars
  BY <1>1, <1>a DEF vars, durable, volatile, history, TypeOK, MemoryOK, HistoryOK
<1>2. ASSUME NEW e \in Events, Offer(e) PROVE TypeOK'
  BY <1>a, <1>2 DEF Offer, durable, history, TypeOK, MemoryOK, HistoryOK
<1>3. CASE ConsumeDuplicate
  <2>1. queue \in Seq(Events) /\ queue # << >> => Head(queue) \in Events /\ Tail(queue) \in Seq(Events)
    OBVIOUS
  <2> QED BY <1>0, <1>3, <2>1 DEF ConsumeDuplicate, IsTable, TypeOK, TablesOK, MemoryOK, HistoryOK
<1>4. CASE ConsumeNew
  <2> DEFINE t == Expire(rows)
             e == Head(queue)
             new == [ev |-> e, arr |-> Len(log) + 1, live |-> TRUE,
                     disp |-> "pending", core |-> "pending", at |-> 0]
  <2>1. e \in Events /\ Tail(queue) \in Seq(Events)
    BY <1>4 DEF ConsumeNew, TypeOK, MemoryOK
  <2>2. new \in Row /\ [ev |-> e, fate |-> "held"] \in Envelope
    BY <1>0, <2>1 DEF Row, Envelope, Fates
  <2>3. IsTable(t)
    BY <1>0
  <2>4. PICK m \in 0 .. Len(log) :
          rows' = [r \in DOMAIN t \cup {m + 1} |-> IF r = m + 1 THEN new ELSE t[r]]
    BY <1>4 DEF ConsumeNew
  <2>5. log' = Append(log, [ev |-> e, fate |-> "held"])
    BY <1>4 DEF ConsumeNew
  <2>6. log' \in Seq(Envelope) /\ Len(log') = Len(log) + 1
    BY <2>2, <2>5 DEF TypeOK, TablesOK
  <2> HIDE DEF t, new, e
  <2>7. rows' \in [DOMAIN rows' -> Row] /\ DOMAIN rows' \subseteq 1 .. Len(log')
    BY SMTT(30), <1>0, <2>2, <2>3, <2>4, <2>6 DEF IsTable
  <2>8. TablesOK'
    BY <1>4, <2>6, <2>7 DEF ConsumeNew, TypeOK, TablesOK
  <2>9. acked' = acked \cup {e} /\ queue' = Tail(queue)
    BY <1>4 DEF ConsumeNew, e
  <2> QED BY <1>4, <2>1, <2>8, <2>9 DEF ConsumeNew, TypeOK, MemoryOK, HistoryOK
<1>5. CASE ConsumeRefused
  BY <1>a, <1>b, <1>5 DEF ConsumeRefused, durable, history, TypeOK, MemoryOK, HistoryOK
<1>6. ASSUME NEW r \in DOMAIN rows, CoreFinish(r) PROVE TypeOK'
  <2>1. r \in Live(rows)
    BY <1>6 DEF CoreFinish, Completed, Before, Waiting
  <2>2. TablesOK'
    <3>1. Settle(rows, {r}, "core_confirmed") /\ UNCHANGED clock
      BY <1>6 DEF CoreFinish, coreFrame
    <3> QED BY <1>0, <2>1, <3>1, SettleTables DEF Fates
  <2> QED BY <1>6, <2>2 DEF CoreFinish, coreFrame, TypeOK, MemoryOK, HistoryOK
<1>7. ASSUME NEW r \in DOMAIN rows, CoreQuarantine(r) PROVE TypeOK'
  <2>1. IsTable(rows') /\ UNCHANGED <<clock, log>>
    BY <1>7, EditTables DEF CoreQuarantine, coreFrame
  <2>2. TablesOK'
    BY <2>1 DEF IsTable, TypeOK, TablesOK
  <2> QED BY <1>7, <2>2 DEF CoreQuarantine, Fail, coreFrame, TypeOK, MemoryOK, HistoryOK
<1>8. ASSUME NEW r \in DOMAIN rows, CoreChat(r) PROVE TypeOK'
  <2>1. IsTable(rows') /\ UNCHANGED <<clock, log>>
    BY <1>8, EditTables DEF CoreChat, coreFrame
  <2>2. TablesOK'
    BY <2>1 DEF IsTable, TypeOK, TablesOK
  <2>3. bus' \in Seq([arr : Nat, recovered : BOOLEAN])
    BY <1>8, PublishType DEF CoreChat
  <2> QED BY <1>8, <2>2, <2>3 DEF CoreChat, coreFrame, TypeOK, MemoryOK, HistoryOK
<1>9. ASSUME NEW r \in DOMAIN rows, CoreNotice(r) PROVE TypeOK'
  <2> DEFINE t == SetCore(r, "done")
  <2>1. r \in Live(rows)
    BY <1>9 DEF CoreNotice, CoreTakes, CoreHead, CorePending, Before, Waiting
  <2>2. IsTable(t) /\ r \in Live(t)
    BY <2>1, EditTables DEF SetCore, Live, TypeOK, TablesOK, Row
  <2>3. Settle(t, {r}, "core_confirmed") /\ UNCHANGED clock
    BY <1>9 DEF CoreNotice, coreFrame
  <2> HIDE DEF t
  <2>4. TablesOK'
    BY <2>2, <2>3, SettleTables DEF Fates
  <2>5. /\ bus' \in Seq([arr : Nat, recovered : BOOLEAN])
        /\ extEvents' \subseteq Events /\ intake' \subseteq Events
    BY <1>9, PublishType, ApplyType DEF CoreNotice
  <2> QED BY <1>9, <2>4, <2>5 DEF CoreNotice, coreFrame, TypeOK, MemoryOK, HistoryOK
<1>10. ASSUME NEW r \in DOMAIN rows, CoreUnknown(r) PROVE TypeOK'
  <2>1. IsTable(rows') /\ UNCHANGED <<clock, log>>
    BY <1>10, EditTables DEF CoreUnknown, coreFrame
  <2>2. TablesOK'
    BY <2>1 DEF IsTable, TypeOK, TablesOK
  <2>3. bus' \in Seq([arr : Nat, recovered : BOOLEAN])
    BY <1>10, PublishType DEF CoreUnknown
  <2> QED BY <1>10, <2>2, <2>3 DEF CoreUnknown, coreFrame, TypeOK, MemoryOK, HistoryOK
<1>11. ASSUME NEW r \in DOMAIN rows, CoreFault(r) PROVE TypeOK'
  <2>1. IsTable(rows') /\ UNCHANGED <<clock, log>>
    BY <1>0, <1>11, EditTables DEF CoreFault, coreFrame
  <2>2. TablesOK'
    BY <2>1 DEF IsTable, TypeOK, TablesOK
  <2>3. /\ bus' \in Seq([arr : Nat, recovered : BOOLEAN])
        /\ extEvents' \subseteq Events /\ intake' \subseteq Events
    BY <1>11, PublishType, ApplyType DEF CoreFault
  <2>4. r \in Nat
    BY <1>0 DEF IsTable
  <2> QED BY <1>b, <1>11, <2>2, <2>3, <2>4 DEF CoreFault, coreFrame, TypeOK, MemoryOK, HistoryOK
<1>12. ASSUME NEW r \in DOMAIN rows PROVE
          /\ rows[r] \in Row /\ r \in Nat /\ Msg(r) \in Messages
          /\ [msg |-> Msg(r), arr |-> rows[r].arr] \in [msg : Messages, arr : Nat]
          /\ ChatTakes(r) => r \in Live(rows)
  <2>1. rows[r] \in Row /\ r \in Nat
    BY <1>0 DEF IsTable
  <2>2. rows[r].ev \in Events /\ rows[r].arr \in Nat
    BY <2>1 DEF Row
  <2>3. ChatTakes(r) => r \in Live(rows)
    BY DEF ChatTakes, Oldest, ChatPending, Waiting
  <2>4. Msg(r) \in Messages
    BY <2>2 DEF Msg
  <2> QED BY <2>1, <2>2, <2>3, <2>4
<1>13. ASSUME NEW r \in DOMAIN rows, HandToHost(r) PROVE
          /\ given' \in Seq([msg : Messages, arr : Nat])
          /\ offered' \subseteq Messages /\ slots' \in Nat
  <2>1. given \in Seq([msg : Messages, arr : Nat]) /\ slots \in Nat /\ offered \subseteq Messages
    BY DEF TypeOK, HistoryOK, MemoryOK
  <2> QED BY <1>12, <1>13, <2>1 DEF HandToHost
<1>14. ASSUME NEW r \in DOMAIN rows, ChatConfirm(r) PROVE TypeOK'
  <2>1. Settle(rows, {r}, "host_admitted") /\ UNCHANGED clock /\ r \in Live(rows)
    BY <1>12, <1>14 DEF ChatConfirm
  <2>2. TablesOK'
    BY <1>0, <2>1, SettleTables DEF Fates
  <2> QED BY <1>12, <1>14, <2>2 DEF ChatConfirm, TypeOK, MemoryOK, HistoryOK
<1>15. ASSUME NEW r \in DOMAIN rows, ChatDeliver(r) PROVE TypeOK'
  <2>1. Settle(rows, {r}, "host_admitted") /\ UNCHANGED clock /\ r \in Live(rows) /\ HandToHost(r)
    BY <1>12, <1>15 DEF ChatDeliver
  <2>2. TablesOK'
    BY <1>0, <2>1, SettleTables DEF Fates
  <2> QED BY <1>12, <1>13, <1>15, <2>1, <2>2 DEF ChatDeliver, TypeOK, MemoryOK, HistoryOK
<1>16. ASSUME NEW r \in DOMAIN rows, ChatFault(r) PROVE TypeOK'
  <2>1. CASE UNCHANGED <<enqueued, slots, given, offered>> /\ delivered' = delivered \cup {Msg(r)}
    BY <1>a, <1>b, <1>12, <1>16, <2>1 DEF ChatFault, TypeOK, MemoryOK, HistoryOK
  <2>2. CASE /\ HandToHost(r) /\ enqueued' = enqueued \cup {r}
             /\ delivered' \in {delivered, delivered \cup {Msg(r)}}
    BY <1>a, <1>b, <1>12, <1>13, <1>16, <2>2 DEF ChatFault, TypeOK, MemoryOK, HistoryOK
  <2> QED BY <1>16, <2>1, <2>2 DEF ChatFault
<1>17. ASSUME NEW e \in intake, IntakeDone(e) PROVE TypeOK'
  BY <1>a, <1>17 DEF IntakeDone, durable, history, TypeOK, MemoryOK, HistoryOK
<1>18. CASE HostDone
  BY <1>a, <1>18 DEF HostDone, durable, history, TypeOK, MemoryOK, HistoryOK
<1>19. CASE Inspect
  <2>1. ASSUME NEW r \in Retained(rows)
        PROVE  Entry(r) \in [receipt : Nat, ev : Events, arr : Nat, disp : {"invalid", "extension"}]
    BY <1>0 DEF Entry, Retained, Live, IsTable, Row
  <2> QED BY <1>19, <2>1 DEF Inspect, durable, volatile, history, TypeOK, TablesOK, MemoryOK, HistoryOK
<1>20. ASSUME NEW selected \in SUBSET view, Discard(selected) PROVE TypeOK'
  <2>1. {item.receipt : item \in selected} \subseteq Live(rows)
    BY <1>20 DEF Discard, Matches, Retained
  <2>2. Settle(rows, {item.receipt : item \in selected}, "operator_discard") /\ UNCHANGED clock
    BY <1>20 DEF Discard
  <2>3. TablesOK'
    BY <1>0, <2>1, <2>2, SettleTables DEF Fates
  <2> QED BY <1>20, <2>3 DEF Discard, volatile, TypeOK, MemoryOK, HistoryOK
<1>21. CASE Tick
  <2>1. TablesOK'
    BY <1>21 DEF Tick, durable, history, TypeOK, TablesOK
  <2> QED BY <1>21, <2>1 DEF Tick, durable, volatile, history, TypeOK, MemoryOK, HistoryOK
<1>22. CASE Reload
  BY <1>0, <1>a, <1>22 DEF Reload, NewGeneration, durable, TypeOK, MemoryOK, HistoryOK
<1>23. CASE Crash
  <2>1. IsTable(rows') /\ UNCHANGED <<clock, log>>
    BY <1>0, <1>23, PruneKeeps DEF Crash
  <2>2. TablesOK'
    BY <2>1 DEF IsTable, TypeOK, TablesOK
  <2> QED BY <1>0, <1>23, <2>2 DEF Crash, NewGeneration, TypeOK, MemoryOK, HistoryOK
<1> QED
  BY <1>1, <1>2, <1>3, <1>4, <1>5, <1>6, <1>7, <1>8, <1>9, <1>10, <1>11, <1>14, <1>15,
     <1>16, <1>17, <1>18, <1>19, <1>20, <1>21, <1>22, <1>23 DEF Next

\* Every reachable state is well typed, for every instance.
THEOREM TypeCorrect == Spec => []TypeOK
BY InitType, TypeStep, PTL DEF Spec

-----------------------------------------------------------------------------
(* NothingLost is not inductive: it does not say that two live rows never  *)
(* share an arrival, nor that a tombstone still names the envelope it came *)
(* from.  LogAgrees says both.                                             *)
LogAgrees ==
    /\ \A r \in DOMAIN rows :
          rows[r].arr \in DOMAIN log /\ log[rows[r].arr].ev = rows[r].ev
    /\ \A r \in Live(rows) : log[rows[r].arr].fate = "held"
    /\ \A r, s \in Live(rows) : rows[r].arr = rows[s].arr => r = s
    /\ \A a \in DOMAIN log : log[a].fate = "held" => \E r \in Live(rows) : rows[r].arr = a
    /\ \A e \in acked : \E a \in DOMAIN log : log[a].ev = e

LEMMA LogAgreesSuffices == LogAgrees => NothingLost
<1> SUFFICES ASSUME LogAgrees PROVE NothingLost
  OBVIOUS
<1>1. acked \subseteq {log[a].ev : a \in DOMAIN log}
  BY DEF LogAgrees
<1>2. ASSUME NEW a \in DOMAIN log, log[a].fate = "held"
      PROVE  \E r \in Live(rows) : rows[r].arr = a /\ rows[r].ev = log[a].ev
  BY <1>2 DEF LogAgrees, Live
<1>3. ASSUME NEW a \in DOMAIN log, NEW r \in Live(rows), rows[r].arr = a
      PROVE  log[a].fate = "held"
  BY <1>3 DEF LogAgrees
<1> QED BY <1>1, <1>2, <1>3 DEF NothingLost

\* A step that settles and stores nothing keeps the books.
LEMMA BooksKept ==
    ASSUME LogAgrees, UNCHANGED log, \A e \in acked' : \E a \in DOMAIN log : log[a].ev = e,
           DOMAIN rows' \subseteq DOMAIN rows, Live(rows)' = Live(rows),
           \A r \in DOMAIN rows' : rows'[r].arr = rows[r].arr /\ rows'[r].ev = rows[r].ev
    PROVE  LogAgrees'
<1>1. Live(rows) \subseteq DOMAIN rows'
  BY DEF Live
<1> QED BY <1>1 DEF LogAgrees

\* Settling live rows settles exactly their arrivals.
LEMMA BooksSettled ==
    ASSUME TypeOK, LogAgrees, NEW t, IsTable(t), DOMAIN t = DOMAIN rows, Live(t) = Live(rows),
           \A r \in DOMAIN t : t[r].arr = rows[r].arr /\ t[r].ev = rows[r].ev,
           NEW S \in SUBSET Live(t), NEW why \in Fates \ {"held"}, Settle(t, S, why),
           UNCHANGED acked
    PROVE  LogAgrees'
<1>1. /\ DOMAIN rows' \subseteq DOMAIN t
      /\ Live(rows)' = Live(t) \ S
      /\ \A r \in DOMAIN rows' : rows'[r].arr = t[r].arr /\ rows'[r].ev = t[r].ev
      /\ log' \in Seq(Envelope) /\ Len(log') = Len(log)
      /\ \A a \in DOMAIN log :
            /\ log'[a].ev = log[a].ev
            /\ \A r \in S : t[r].arr = a => log'[a].fate = why
            /\ (\A r \in S : t[r].arr # a) => log'[a] = log[a]
  <2>1. why \in Fates
    OBVIOUS
  <2>2. LogSettled(t, S, why)
    BY <2>1, SettleEffect
  <2>3. DOMAIN rows' \subseteq DOMAIN t /\ Live(rows)' = Live(t) \ S
    BY <2>1, SettleEffect
  <2>4. \A r \in DOMAIN rows' : rows'[r].arr = t[r].arr /\ rows'[r].ev = t[r].ev
    BY <2>1, SettleEffect
  <2> QED BY <2>2, <2>3, <2>4 DEF LogSettled
<1>2. DOMAIN log' = DOMAIN log
  BY <1>1 DEF TypeOK, TablesOK
<1>3. Live(t) \subseteq DOMAIN t /\ Live(rows)' \subseteq DOMAIN rows'
  BY DEF Live
<1>6. \A a \in DOMAIN log : log'[a].fate = "held" =>
         (\A r \in S : t[r].arr # a) /\ log'[a] = log[a]
  BY <1>1
<1>7. \A r \in DOMAIN rows' : rows'[r].arr \in DOMAIN log' /\ log'[rows'[r].arr].ev = rows'[r].ev
  BY <1>1, <1>2 DEF LogAgrees
<1>8. \A r \in Live(rows)' : log'[rows'[r].arr].fate = "held"
  <2> SUFFICES ASSUME NEW r \in Live(rows)' PROVE log'[rows'[r].arr].fate = "held"
    OBVIOUS
  <2>1. r \in Live(rows) /\ r \notin S /\ rows'[r].arr = rows[r].arr /\ rows[r].arr \in DOMAIN log
    BY <1>1, <1>3 DEF LogAgrees
  <2>2. ~\E s \in S : t[s].arr = rows[r].arr
    BY <1>3, <2>1 DEF LogAgrees
  <2>3. log'[rows[r].arr] = log[rows[r].arr]
    BY <1>1, <2>1, <2>2
  <2> QED BY <2>1, <2>3 DEF LogAgrees
<1>9. \A r, s \in Live(rows)' : rows'[r].arr = rows'[s].arr => r = s
  BY <1>1, <1>3 DEF LogAgrees
<1>10. \A a \in DOMAIN log' : log'[a].fate = "held" => \E r \in Live(rows)' : rows'[r].arr = a
  <2> SUFFICES ASSUME NEW a \in DOMAIN log', log'[a].fate = "held"
               PROVE  \E r \in Live(rows)' : rows'[r].arr = a
    OBVIOUS
  <2>1. (\A r \in S : t[r].arr # a) /\ a \in DOMAIN log /\ log[a].fate = "held"
    BY <1>2, <1>6
  <2>2. PICK r \in Live(rows) : rows[r].arr = a
    BY <1>2, <2>1 DEF LogAgrees
  <2>3. r \in Live(rows)' /\ rows'[r].arr = a
    BY <1>1, <1>3, <2>1, <2>2
  <2> QED BY <2>3
<1>11. \A e \in acked' : \E a \in DOMAIN log' : log'[a].ev = e
  BY <1>1, <1>2 DEF LogAgrees
<1> QED BY <1>7, <1>8, <1>9, <1>10, <1>11 DEF LogAgrees

\* SetCore and Retain leave the books alone.
LEMMA EditBooks ==
    ASSUME TypeOK, NEW r \in DOMAIN rows, NEW t,
           \/ t = rows
           \/ \E c \in {"done", "invalid"} : t = SetCore(r, c)
           \/ \E d \in {"invalid", "extension"} : t = Retain(rows, r, d)
           \/ \E c \in {"done", "invalid"}, d \in {"invalid", "extension"} :
                 t = Retain(SetCore(r, c), r, d)
    PROVE  /\ DOMAIN t = DOMAIN rows /\ Live(t) = Live(rows)
           /\ \A s \in DOMAIN t : t[s].arr = rows[s].arr /\ t[s].ev = rows[s].ev
           /\ \A s \in DOMAIN t : s # r => t[s] = rows[s]
<1>1. \A s \in DOMAIN rows : rows[s] \in Row
  BY DEF TypeOK, TablesOK
<1>2. \A x \in Row :
        /\ \A c : LET y == [x EXCEPT !.core = c] IN
                    y.arr = x.arr /\ y.ev = x.ev /\ y.live = x.live
        /\ \A d : LET y == [x EXCEPT !.disp = d] IN
                    y.arr = x.arr /\ y.ev = x.ev /\ y.live = x.live
        /\ \A c, d : LET y == [[x EXCEPT !.core = c] EXCEPT !.disp = d] IN
                    y.arr = x.arr /\ y.ev = x.ev /\ y.live = x.live
  BY DEF Row
<1>3. /\ DOMAIN t = DOMAIN rows
      /\ \A s \in DOMAIN rows : s # r => t[s] = rows[s]
      /\ t[r].arr = rows[r].arr /\ t[r].ev = rows[r].ev /\ t[r].live = rows[r].live
  <2>1. CASE t = rows
    BY <2>1
  <2>2. ASSUME NEW c, t = SetCore(r, c) PROVE <1>3
    BY ZenonT(30), <1>1, <1>2, <2>2 DEF SetCore
  <2>3. ASSUME NEW d, t = Retain(rows, r, d) PROVE <1>3
    BY ZenonT(30), <1>1, <1>2, <2>3 DEF Retain
  <2>4. ASSUME NEW c, NEW d, t = Retain(SetCore(r, c), r, d) PROVE <1>3
    <3>1. \A s \in DOMAIN rows : s # r => t[s] = rows[s]
      BY <2>4 DEF Retain, SetCore
    <3>2. DOMAIN t = DOMAIN rows /\ t[r] = [[rows[r] EXCEPT !.core = c] EXCEPT !.disp = d]
      BY <2>4 DEF Retain, SetCore
    <3> QED BY <1>1, <1>2, <3>1, <3>2
  <2> QED BY <2>1, <2>2, <2>3, <2>4
<1> QED BY <1>3 DEF Live

LEMMA InitLogAgrees == Init => LogAgrees
BY DEF Init, LogAgrees, Live

LEMMA LogAgreesStep == TypeOK /\ LogAgrees /\ [Next]_vars => LogAgrees'
<1> SUFFICES ASSUME TypeOK, LogAgrees, [Next]_vars PROVE LogAgrees'
  OBVIOUS
<1>0. /\ IsTable(rows) /\ Len(log) \in Nat /\ DOMAIN log = 1 .. Len(log)
      /\ \A e \in acked : \E a \in DOMAIN log : log[a].ev = e
  BY DEF IsTable, TypeOK, TablesOK, LogAgrees
<1>a. UNCHANGED <<rows, log, acked>> => LogAgrees'
  BY DEF LogAgrees, Live
<1>b. ASSUME NEW r \in DOMAIN rows, NEW t, UNCHANGED <<log, acked>>, rows' = t,
             \/ t = rows
             \/ \E c \in {"done", "invalid"} : t = SetCore(r, c)
             \/ \E d \in {"invalid", "extension"} : t = Retain(rows, r, d)
             \/ \E c \in {"done", "invalid"}, d \in {"invalid", "extension"} :
                   t = Retain(SetCore(r, c), r, d)
      PROVE  LogAgrees'
  <2>1. /\ DOMAIN t = DOMAIN rows /\ Live(t) = Live(rows)
        /\ \A s \in DOMAIN t : t[s].arr = rows[s].arr /\ t[s].ev = rows[s].ev
    BY <1>b, EditBooks
  <2>2. Live(rows)' = Live(rows)
    BY <1>b, <2>1 DEF Live
  <2> QED BY <1>0, <1>b, <2>1, <2>2, BooksKept
<1>1. CASE UNCHANGED vars
  BY <1>a, <1>1 DEF vars, durable, history
<1>2. ASSUME NEW e \in Events, Offer(e) PROVE LogAgrees'
  BY <1>a, <1>2 DEF Offer, durable, history
<1>3. CASE ConsumeDuplicate
  <2>1. rows' = Expire(rows) /\ UNCHANGED log /\ acked' = acked \cup {Head(queue)}
    BY <1>3 DEF ConsumeDuplicate
  <2>2. \E r \in DOMAIN rows : rows[r].ev = Head(queue)
    BY <1>3, ExpireKeeps DEF ConsumeDuplicate, Duplicate
  <2>3. \A e \in acked' : \E a \in DOMAIN log : log[a].ev = e
    BY <1>0, <2>1, <2>2 DEF LogAgrees
  <2>4. /\ DOMAIN rows' \subseteq DOMAIN rows
        /\ Live(rows) \subseteq DOMAIN rows'
        /\ \A r \in DOMAIN rows' : rows'[r] = rows[r]
    BY <2>1, ExpireKeeps
  <2>5. Live(rows)' = Live(rows)
    BY <2>4 DEF Live
  <2> QED BY <2>1, <2>3, <2>4, <2>5, BooksKept
<1>4. CASE ConsumeNew
  <2> DEFINE t == Expire(rows)
             e == Head(queue)
             n == Len(log) + 1
             new == [ev |-> e, arr |-> n, live |-> TRUE,
                     disp |-> "pending", core |-> "pending", at |-> 0]
  <2>1. PICK m \in 0 .. Len(log) :
          /\ IsLast(m, t)
          /\ rows' = [r \in DOMAIN t \cup {m + 1} |-> IF r = m + 1 THEN new ELSE t[r]]
    BY <1>4 DEF ConsumeNew
  <2>2. /\ log' = Append(log, [ev |-> e, fate |-> "held"])
        /\ acked' = acked \cup {e}
    BY <1>4 DEF ConsumeNew
  <2>3. /\ new.ev = e /\ new.arr = n /\ new.live
        /\ [ev |-> e, fate |-> "held"].ev = e /\ [ev |-> e, fate |-> "held"].fate = "held"
    OBVIOUS
  <2>4. /\ DOMAIN log' = DOMAIN log \cup {n} /\ n \notin DOMAIN log
        /\ log'[n].ev = e /\ log'[n].fate = "held"
        /\ \A a \in DOMAIN log : log'[a] = log[a]
    BY <1>0, <2>2, <2>3 DEF TypeOK, TablesOK
  <2>5. /\ DOMAIN t \subseteq DOMAIN rows /\ Live(rows) \subseteq DOMAIN t
        /\ \A r \in DOMAIN t : t[r] = rows[r]
        /\ DOMAIN t \subseteq Nat
    BY <1>0, ExpireKeeps DEF IsTable
  <2>6. m + 1 \notin DOMAIN t
    BY <1>0, <2>1, <2>5 DEF IsLast
  <2> HIDE DEF t, e, n, new
  <2>7. /\ DOMAIN rows' = DOMAIN t \cup {m + 1}
        /\ rows'[m + 1] = new
        /\ \A r \in DOMAIN t : rows'[r] = rows[r]
    BY <2>1, <2>5, <2>6
  <2>8. Live(rows)' = Live(rows) \cup {m + 1}
    BY <2>3, <2>5, <2>6, <2>7 DEF Live
  <2>9. \A r \in Live(rows) : rows'[r] = rows[r]
    BY <2>5, <2>7
  <2>10. \A r \in DOMAIN rows' : rows'[r].arr \in DOMAIN log' /\ log'[rows'[r].arr].ev = rows'[r].ev
    BY <2>3, <2>4, <2>5, <2>7 DEF LogAgrees
  <2>11. \A r \in Live(rows)' : log'[rows'[r].arr].fate = "held"
    <3>1. \A r \in Live(rows) : rows[r].arr \in DOMAIN log /\ log[rows[r].arr].fate = "held"
      BY DEF LogAgrees, Live
    <3> QED BY <2>3, <2>4, <2>7, <2>8, <2>9, <3>1
  <2>12. \A r, s \in Live(rows)' : rows'[r].arr = rows'[s].arr => r = s
    <3>1. \A r \in Live(rows) : rows[r].arr \in DOMAIN log
      BY DEF LogAgrees, Live
    <3>2. \A r \in Live(rows) : rows'[r].arr # n
      BY <2>4, <2>9, <3>1
    <3>3. rows'[m + 1].arr = n
      BY <2>3, <2>7
    <3> QED BY <2>8, <2>9, <3>2, <3>3 DEF LogAgrees
  <2>13. \A a \in DOMAIN log' : log'[a].fate = "held" => \E r \in Live(rows)' : rows'[r].arr = a
    BY <2>3, <2>4, <2>7, <2>8, <2>9 DEF LogAgrees
  <2>14. \A x \in acked' : \E a \in DOMAIN log' : log'[a].ev = x
    BY <1>0, <2>2, <2>4
  <2> QED BY <2>10, <2>11, <2>12, <2>13, <2>14 DEF LogAgrees
<1>5. CASE ConsumeRefused
  BY <1>a, <1>5 DEF ConsumeRefused, durable, history
<1>6. ASSUME NEW r \in DOMAIN rows, CoreFinish(r) PROVE LogAgrees'
  <2>1. r \in Live(rows) /\ Settle(rows, {r}, "core_confirmed") /\ UNCHANGED acked
    BY <1>6 DEF CoreFinish, Completed, Before, Waiting, coreFrame
  <2> QED BY <1>0, <2>1, BooksSettled DEF Fates
<1>7. ASSUME NEW r \in DOMAIN rows, CoreQuarantine(r) PROVE LogAgrees'
  BY <1>b, <1>7 DEF CoreQuarantine, coreFrame
<1>8. ASSUME NEW r \in DOMAIN rows, CoreChat(r) PROVE LogAgrees'
  BY <1>b, <1>8 DEF CoreChat, coreFrame
<1>9. ASSUME NEW r \in DOMAIN rows, CoreNotice(r) PROVE LogAgrees'
  <2> DEFINE t == SetCore(r, "done")
  <2>1. r \in Live(rows) /\ Settle(t, {r}, "core_confirmed") /\ UNCHANGED acked
    BY <1>9 DEF CoreNotice, CoreTakes, CoreHead, CorePending, Before, Waiting, coreFrame
  <2>2. /\ DOMAIN t = DOMAIN rows /\ Live(t) = Live(rows)
        /\ \A s \in DOMAIN t : t[s].arr = rows[s].arr /\ t[s].ev = rows[s].ev
    BY EditBooks
  <2>3. IsTable(t)
    BY EditTables
  <2> HIDE DEF t
  <2> QED BY <2>1, <2>2, <2>3, BooksSettled DEF Fates
<1>10. ASSUME NEW r \in DOMAIN rows, CoreUnknown(r) PROVE LogAgrees'
  BY <1>b, <1>10 DEF CoreUnknown, coreFrame
<1>11. ASSUME NEW r \in DOMAIN rows, CoreFault(r) PROVE LogAgrees'
  BY <1>b, <1>11 DEF CoreFault, coreFrame
<1>12. ASSUME NEW r \in DOMAIN rows, ChatConfirm(r) \/ ChatDeliver(r) PROVE LogAgrees'
  <2>1. r \in Live(rows) /\ Settle(rows, {r}, "host_admitted") /\ UNCHANGED acked
    BY <1>12 DEF ChatConfirm, ChatDeliver, ChatTakes, Oldest, ChatPending, Waiting
  <2> QED BY <1>0, <2>1, BooksSettled DEF Fates
<1>13. ASSUME NEW r \in DOMAIN rows, ChatFault(r) PROVE LogAgrees'
  BY <1>a, <1>13 DEF ChatFault
<1>14. ASSUME NEW e \in intake, IntakeDone(e) PROVE LogAgrees'
  BY <1>a, <1>14 DEF IntakeDone, durable, history
<1>15. CASE HostDone
  BY <1>a, <1>15 DEF HostDone, durable, history
<1>16. CASE Inspect
  BY <1>a, <1>16 DEF Inspect, durable, history
<1>17. ASSUME NEW selected \in SUBSET view, Discard(selected) PROVE LogAgrees'
  <2>1. {item.receipt : item \in selected} \subseteq Live(rows)
    BY <1>17 DEF Discard, Matches, Retained
  <2>2. Settle(rows, {item.receipt : item \in selected}, "operator_discard") /\ UNCHANGED acked
    BY <1>17 DEF Discard
  <2> QED BY <1>0, <2>1, <2>2, BooksSettled DEF Fates
<1>18. CASE Tick
  BY <1>a, <1>18 DEF Tick, durable, history
<1>19. CASE Reload
  BY <1>a, <1>19 DEF Reload, durable
<1>20. CASE Crash
  <2>1. rows' = PruneDelivered(rows) /\ UNCHANGED <<log, acked>>
    BY <1>20 DEF Crash
  <2>2. /\ DOMAIN rows' \subseteq DOMAIN rows
        /\ Live(rows) \subseteq DOMAIN rows'
        /\ \A r \in DOMAIN rows' : rows'[r] = rows[r]
    BY <2>1, PruneKeeps
  <2>3. Live(rows)' = Live(rows)
    BY <2>2 DEF Live
  <2> QED BY <1>0, <2>1, <2>2, <2>3, BooksKept
<1> QED
  BY <1>1, <1>2, <1>3, <1>4, <1>5, <1>6, <1>7, <1>8, <1>9, <1>10, <1>11, <1>12, <1>13,
     <1>14, <1>15, <1>16, <1>17, <1>18, <1>19, <1>20 DEF Next

\* No payload is ever lost, mixed up or settled twice, and no receipt is
\* given for an event that was not stored.
THEOREM NeverLost == Spec => []NothingLost
<1>1. Init => TypeOK /\ LogAgrees
  BY InitType, InitLogAgrees
<1>2. TypeOK /\ LogAgrees /\ [Next]_vars => (TypeOK /\ LogAgrees)'
  BY TypeStep, LogAgreesStep
<1> QED BY <1>1, <1>2, LogAgreesSuffices, PTL DEF Spec

-----------------------------------------------------------------------------

(* EffectBeforeSettling and HostedOnce are not inductive.  They rest on     *)
(* what a half-done step leaves: a fence in memory, or a row that is        *)
(* settled in the core lane and not yet acknowledged.                       *)
ReadyForHost(r) == r \in Waiting(rows) /\ rows[r].core = "done" /\ IsChat(r)

\* What the host queue took without an acknowledgement is at the head of the
\* chat lane, where nothing settles it but its own confirmation.
FenceHolds ==
    \A r \in enqueued : /\ ReadyForHost(r) /\ Msg(r) \in offered
                        /\ \A s \in DOMAIN rows : ReadyForHost(s) => r <= s

\* The core lane settles in the order of the receipts, interactions apart.
CoreInOrder ==
    \A r, s \in Waiting(rows) :
        ReadyForHost(r) /\ rows[s].core = "pending" /\ ~IsInteraction(s) => r < s

\* A notice the core settled had its effect, also before its acknowledgement.
LeftOversTaken ==
    \A r \in Waiting(rows) :
        rows[r].core = "done" /\ kind(rows, r) \in {"interaction", "join"}
            => rows[r].ev \in extEvents

\* What this generation gave the host is marked, or fenced until it is.
GivenIsKnown ==
    \A i \in DOMAIN given :
        given[i].msg \in delivered \/ \E r \in enqueued : Msg(r) = given[i].msg

HostInv == FenceHolds /\ CoreInOrder /\ LeftOversTaken

\* A step that takes the rows of S out of the lanes and leaves the rest alone.
Loses(S) == /\ Waiting(rows)' = Waiting(rows) \ S
            /\ \A r \in Waiting(rows)' : rows'[r] = rows[r]

LEMMA LosesKeeps ==
    ASSUME HostInv, NEW S, Loses(S), enqueued' \subseteq enqueued \ S,
           offered \subseteq offered', extEvents \subseteq extEvents'
    PROVE  HostInv' /\ \A r \in enqueued' : Msg(r)' = Msg(r)
<1>1. \A r \in Waiting(rows)' : r \in Waiting(rows) /\ rows'[r] = rows[r]
  BY DEF Loses
<1>2. \A r : ReadyForHost(r)' => ReadyForHost(r)
  BY <1>1 DEF ReadyForHost, IsChat, kind
<1>3. \A r \in enqueued' : r \in Waiting(rows)' /\ ReadyForHost(r)' /\ Msg(r)' = Msg(r)
  BY <1>1 DEF HostInv, FenceHolds, ReadyForHost, IsChat, kind, Msg, Loses
<1>4. FenceHolds'
  <2>1. \A r \in enqueued' : Msg(r)' \in offered'
    BY <1>3 DEF HostInv, FenceHolds
  <2>2. \A s \in DOMAIN rows' : ReadyForHost(s)' => s \in DOMAIN rows /\ ReadyForHost(s)
    BY <1>2 DEF ReadyForHost, Waiting, Live
  <2> QED BY <1>3, <2>1, <2>2 DEF HostInv, FenceHolds
<1>5. CoreInOrder'
  BY <1>1, <1>2 DEF HostInv, CoreInOrder, IsInteraction, kind
<1>6. LeftOversTaken'
  BY <1>1 DEF HostInv, LeftOversTaken, kind
<1> QED BY <1>3, <1>4, <1>5, <1>6 DEF HostInv

\* Rows that are settled or edited out of the lanes.
LEMMA SettleLoses ==
    ASSUME TypeOK, NEW r \in Waiting(rows), NEW t, t = rows \/ t = SetCore(r, "done"),
           NEW why \in Fates, Settle(t, {r}, why)
    PROVE  Loses({r}) /\ LogSettled(t, {r}, why)
<1>1. IsTable(rows) /\ r \in DOMAIN rows
  BY DEF TypeOK, TablesOK, IsTable, Waiting, Live
<1>2. IsTable(t)
  BY <1>1, EditTables
<1>3. /\ DOMAIN t = DOMAIN rows /\ Live(t) = Live(rows)
      /\ \A s \in DOMAIN t : s # r => t[s] = rows[s]
  BY <1>1, EditBooks
<1>4. {r} \in SUBSET Live(t)
  BY <1>3 DEF Waiting
<1>5. /\ Live(rows)' = Live(t) \ {r}
      /\ \A s \in Live(t) \ {r} : rows'[s] = t[s]
      /\ LogSettled(t, {r}, why)
  BY <1>2, <1>4, SettleEffect
<1>6. \A s \in Live(rows)' : s \in Live(rows) \ {r} /\ rows'[s] = rows[s]
  BY <1>3, <1>5 DEF Live
<1> QED BY <1>3, <1>5, <1>6 DEF Loses, Waiting

LEMMA EditLoses ==
    ASSUME TypeOK, NEW r \in DOMAIN rows, NEW d \in {"invalid", "extension"},
           \/ rows' = Retain(rows, r, d)
           \/ \E c \in {"done", "invalid"} : rows' = Retain(SetCore(r, c), r, d)
    PROVE  Loses({r})
<1>1. /\ DOMAIN rows' = DOMAIN rows /\ Live(rows)' = Live(rows)
      /\ \A s \in DOMAIN rows' : s # r => rows'[s] = rows[s]
  BY EditBooks
<1>2. rows'[r].disp = d
  <2>1. rows[r] \in Row
    BY DEF TypeOK, TablesOK
  <2>2. \A x \in Row : \A c : /\ [x EXCEPT !.disp = d].disp = d
                              /\ [[x EXCEPT !.core = c] EXCEPT !.disp = d].disp = d
    BY DEF Row
  <2> QED BY <2>1, <2>2 DEF Retain, SetCore
<1> QED BY <1>1, <1>2 DEF Loses, Waiting, Live

\* The core lane settles the row it takes, and the row stays in the inbox.
LEMMA AdvanceKeeps ==
    ASSUME TypeOK, HostInv, NEW r \in DOMAIN rows, CoreTakes(r), rows' = SetCore(r, "done"),
           UNCHANGED <<enqueued, offered>>, extEvents \subseteq extEvents',
           kind(rows, r) \in {"interaction", "join"} => rows[r].ev \in extEvents'
    PROVE  HostInv' /\ \A e \in enqueued' : Msg(e)' = Msg(e)
<1>1. /\ DOMAIN rows' = DOMAIN rows /\ Live(rows)' = Live(rows)
      /\ \A s \in DOMAIN rows' : rows'[s].arr = rows[s].arr /\ rows'[s].ev = rows[s].ev
      /\ \A s \in DOMAIN rows' : s # r => rows'[s] = rows[s]
  BY EditBooks
<1>2. rows'[r].core = "done" /\ rows'[r].disp = rows[r].disp
  BY DEF SetCore, TypeOK, TablesOK, Row
<1>3. \A s \in DOMAIN rows' : rows'[s].disp = rows[s].disp /\ (rows'[s].core = "pending" => s # r)
  BY <1>1, <1>2
<1>4. Waiting(rows)' = Waiting(rows)
  BY <1>1, <1>3 DEF Waiting, Live
<1>5. /\ r \in Waiting(rows) /\ rows[r].core = "pending"
      /\ ~IsInteraction(r) => \A s \in Waiting(rows) :
            rows[s].core = "pending" /\ ~IsInteraction(s) => r <= s
  BY DEF CoreTakes, CoreHead, CorePending, Before
<1>6. \A s : ReadyForHost(s)' => ReadyForHost(s) \/ (s = r /\ IsChat(r))
  BY <1>1, <1>4 DEF ReadyForHost, IsChat, kind, Waiting, Live
<1>7. \A e \in enqueued : e # r /\ ReadyForHost(e) /\ e \in DOMAIN rows /\ Msg(e) \in offered
  BY <1>5 DEF HostInv, FenceHolds, ReadyForHost, Waiting, Live
<1>8. \A e \in enqueued' : ReadyForHost(e)' /\ Msg(e)' = Msg(e)
  BY <1>1, <1>4, <1>7 DEF ReadyForHost, IsChat, kind, Msg, Waiting, Live
<1>9. IsChat(r) => ~IsInteraction(r)
  BY DEF IsChat, IsInteraction
<1>10. FenceHolds'
  <2>1. ASSUME NEW e \in enqueued, NEW s \in DOMAIN rows', ReadyForHost(s)' PROVE e <= s
    <3>1. CASE ReadyForHost(s)
      BY <1>1, <2>1, <3>1 DEF HostInv, FenceHolds
    <3>2. CASE s = r /\ IsChat(r)
      <4>1. e < r
        BY <1>5, <1>7, <1>9, <3>2 DEF HostInv, CoreInOrder, ReadyForHost
      <4>2. e \in Nat /\ r \in Nat
        BY <1>7 DEF TypeOK, TablesOK
      <4> QED BY <3>2, <4>1, <4>2
    <3> QED BY <1>6, <2>1, <3>1, <3>2
  <2>2. \A e \in enqueued' : Msg(e)' \in offered'
    BY <1>7, <1>8
  <2> QED BY <1>8, <2>1, <2>2 DEF FenceHolds
<1>11. CoreInOrder'
  <2> SUFFICES ASSUME NEW p \in Waiting(rows)', NEW s \in Waiting(rows)', ReadyForHost(p)',
                      rows'[s].core = "pending", ~IsInteraction(s)'
               PROVE  p < s
    BY DEF CoreInOrder
  <2>1. s \in Waiting(rows) /\ s # r /\ rows[s].core = "pending" /\ ~IsInteraction(s)
    BY <1>1, <1>3, <1>4 DEF IsInteraction, kind, Waiting, Live
  <2>2. CASE ReadyForHost(p)
    BY <1>4, <2>1, <2>2 DEF HostInv, CoreInOrder
  <2>3. CASE p = r /\ IsChat(r)
    <3>1. r <= s /\ r # s
      BY <1>5, <1>9, <2>1, <2>3
    <3>2. r \in Nat /\ s \in Nat
      BY <2>1 DEF TypeOK, TablesOK, Waiting, Live
    <3> QED BY <2>3, <3>1, <3>2
  <2> QED BY <1>6, <2>2, <2>3
<1>12. LeftOversTaken'
  <2>1. ASSUME NEW s \in Waiting(rows)', rows'[s].core = "done",
               kind(rows, s)' \in {"interaction", "join"}
        PROVE  rows'[s].ev \in extEvents'
    <3>1. s \in Waiting(rows) /\ s \in DOMAIN rows' /\ rows'[s].ev = rows[s].ev
          /\ kind(rows, s) \in {"interaction", "join"}
      BY <1>1, <1>4, <2>1 DEF kind, Waiting, Live
    <3>2. CASE s = r
      BY <3>1, <3>2
    <3>3. CASE s # r
      BY <1>1, <2>1, <3>1, <3>3 DEF HostInv, LeftOversTaken
    <3> QED BY <3>2, <3>3
  <2> QED BY <2>1 DEF LeftOversTaken
<1> QED BY <1>8, <1>10, <1>11, <1>12 DEF HostInv

\* A new envelope queues behind every other.
LEMMA NewRowKeeps ==
    ASSUME TypeOK, HostInv, ConsumeNew
    PROVE  HostInv' /\ \A e \in enqueued' : Msg(e)' = Msg(e)
<1> DEFINE t == Expire(rows)
           new == [ev |-> Head(queue), arr |-> Len(log) + 1, live |-> TRUE,
                   disp |-> "pending", core |-> "pending", at |-> 0]
<1>1. PICK m \in 0 .. Len(log) :
        /\ IsLast(m, t)
        /\ rows' = [r \in DOMAIN t \cup {m + 1} |-> IF r = m + 1 THEN new ELSE t[r]]
  BY DEF ConsumeNew
<1>2. UNCHANGED <<enqueued, offered, extEvents>>
  BY DEF ConsumeNew
<1>3. new.live /\ new.core = "pending" /\ new.disp = "pending"
  OBVIOUS
<1>4. /\ DOMAIN t \subseteq DOMAIN rows /\ Live(rows) \subseteq DOMAIN t
      /\ \A r \in DOMAIN t : t[r] = rows[r]
  BY ExpireKeeps
<1>5. DOMAIN rows \subseteq Nat /\ m \in Nat /\ \A r \in DOMAIN t : r <= m /\ r < m + 1
  <2>1. DOMAIN rows \subseteq Nat /\ Len(log) \in Nat
    BY DEF TypeOK, TablesOK
  <2>2. m \in Nat /\ \A r \in DOMAIN t : r <= m
    BY <1>1, <2>1 DEF IsLast
  <2> HIDE DEF t
  <2> QED BY <1>4, <2>1, <2>2
<1> HIDE DEF t, new
<1>6. /\ DOMAIN rows' = DOMAIN t \cup {m + 1} /\ m + 1 \notin DOMAIN t
      /\ rows'[m + 1] = new /\ \A r \in DOMAIN t : rows'[r] = rows[r]
  BY <1>1, <1>4, <1>5
<1>7. Waiting(rows)' = Waiting(rows) \cup {m + 1}
  <2>1. \A r \in Waiting(rows) : r \in DOMAIN t /\ rows'[r] = rows[r]
    BY <1>4, <1>6 DEF Waiting, Live
  <2>2. \A r \in Waiting(rows)' : r # m + 1 => r \in Waiting(rows)
    BY <1>4, <1>6 DEF Waiting, Live
  <2>3. m + 1 \in Waiting(rows)'
    BY <1>3, <1>6 DEF Waiting, Live
  <2>4. \A r \in Waiting(rows) : r \in Waiting(rows)'
    BY <1>6, <2>1 DEF Waiting, Live
  <2> QED BY <2>2, <2>3, <2>4
<1>8. \A r \in Waiting(rows) : r \in DOMAIN t /\ r < m + 1 /\ rows'[r] = rows[r]
  BY <1>4, <1>5, <1>6 DEF Waiting, Live
<1>9. \A s : ReadyForHost(s)' => ReadyForHost(s) /\ s # m + 1
  BY <1>3, <1>6, <1>7, <1>8 DEF ReadyForHost, IsChat, kind
<1>10. \A e \in enqueued' : e \in enqueued /\ ReadyForHost(e)' /\ Msg(e)' = Msg(e)
  BY <1>2, <1>7, <1>8 DEF HostInv, FenceHolds, ReadyForHost, IsChat, kind, Msg
<1>11. FenceHolds'
  <2>1. \A s : ReadyForHost(s)' => s \in DOMAIN rows /\ ReadyForHost(s)
    BY <1>9 DEF ReadyForHost, Waiting, Live
  <2>2. \A e \in enqueued' : Msg(e)' \in offered'
    BY <1>2, <1>10 DEF HostInv, FenceHolds
  <2>3. \A e \in enqueued' : \A s \in DOMAIN rows' : ReadyForHost(s)' => e <= s
    BY <1>10, <2>1 DEF HostInv, FenceHolds
  <2> QED BY <1>10, <2>2, <2>3 DEF FenceHolds
<1>12. CoreInOrder'
  <2> SUFFICES ASSUME NEW p \in Waiting(rows)', NEW s \in Waiting(rows)', ReadyForHost(p)',
                      rows'[s].core = "pending", ~IsInteraction(s)'
               PROVE  p < s
    BY DEF CoreInOrder
  <2>1. p \in Waiting(rows) /\ ReadyForHost(p)
    BY <1>9 DEF ReadyForHost
  <2>2. CASE s = m + 1
    BY <1>8, <2>1, <2>2
  <2>3. CASE s # m + 1
    BY <1>7, <1>8, <2>1, <2>3 DEF HostInv, CoreInOrder, IsInteraction, kind
  <2> QED BY <2>2, <2>3
<1>13. LeftOversTaken'
  <2>1. \A s \in Waiting(rows)' : rows'[s].core = "done" => s \in Waiting(rows) /\ rows'[s] = rows[s]
    BY <1>3, <1>6, <1>7, <1>8
  <2> QED BY <1>2, <2>1 DEF HostInv, LeftOversTaken, kind
<1> QED BY <1>10, <1>11, <1>12, <1>13 DEF HostInv

LEMMA CoreTaken ==
    ASSUME NEW r, CoreTakes(r)
    PROVE  r \in Waiting(rows) /\ r \in DOMAIN rows /\ rows[r].core = "pending"
BY DEF CoreTakes, CoreHead, CorePending, Before, Waiting, Live

LEMMA ApplyTakes ==
    ASSUME NEW r, Apply(r)
    PROVE  /\ extEvents \subseteq extEvents'
           /\ kind(rows, r) \in {"interaction", "join"} => rows[r].ev \in extEvents'
BY DEF Apply, TakeIn

\* Discarding takes nothing out of the lanes.
LEMMA DiscardLoses ==
    ASSUME TypeOK, NEW selected \in SUBSET view, Discard(selected)
    PROVE  LET S == {item.receipt : item \in selected}
           IN  /\ Loses(S) /\ S \subseteq Retained(rows)
               /\ LogSettled(rows, S, "operator_discard")
<1> DEFINE S == {item.receipt : item \in selected}
<1>1. S \subseteq Retained(rows) /\ Settle(rows, S, "operator_discard")
  BY DEF Discard, Matches
<1>2. S \in SUBSET Live(rows) /\ IsTable(rows)
  BY <1>1 DEF Retained, TypeOK, TablesOK, IsTable
<1> HIDE DEF S
<1>3. /\ Live(rows)' = Live(rows) \ S
      /\ \A s \in Live(rows) \ S : rows'[s] = rows[s]
      /\ LogSettled(rows, S, "operator_discard")
  <2>1. "operator_discard" \in Fates
    BY DEF Fates
  <2> QED BY <1>1, <1>2, <2>1, SettleEffect
<1>4. Loses(S)
  BY <1>3 DEF Loses, Waiting
<1> QED BY <1>1, <1>3, <1>4 DEF S

LEMMA HostStep ==
    ASSUME TypeOK, HostInv, [Next]_vars
    PROVE  HostInv' /\ \A e \in enqueued \cap enqueued' : Msg(e)' = Msg(e)
<1> DEFINE G == HostInv' /\ \A e \in enqueued \cap enqueued' : Msg(e)' = Msg(e)
<1>a. ASSUME UNCHANGED rows, enqueued' \subseteq enqueued, offered \subseteq offered',
             extEvents \subseteq extEvents'
      PROVE  G
  <2>1. Loses({}) /\ enqueued' \subseteq enqueued \ {}
    BY <1>a DEF Loses, Waiting, Live
  <2> QED BY <1>a, <2>1, LosesKeeps
<1>b. \A e \in enqueued : e \in Waiting(rows) /\ rows[e].core = "done" /\ IsChat(e)
  BY DEF HostInv, FenceHolds, ReadyForHost
<1>1. CASE UNCHANGED vars
  BY <1>a, <1>1 DEF vars, durable, volatile, history
<1>2. ASSUME NEW e \in Events, Offer(e) PROVE G
  BY <1>a, <1>2 DEF Offer, durable, history
<1>3. CASE ConsumeDuplicate
  <2>1. rows' = Expire(rows) /\ UNCHANGED <<enqueued, offered, extEvents>>
    BY <1>3 DEF ConsumeDuplicate
  <2>2. Loses({})
    BY <2>1, ExpireKeeps DEF Loses, Waiting, Live
  <2> QED BY <2>1, <2>2, LosesKeeps
<1>4. CASE ConsumeNew
  BY <1>4, NewRowKeeps
<1>5. CASE ConsumeRefused
  BY <1>a, <1>5 DEF ConsumeRefused, durable, history
<1>6. ASSUME NEW r \in DOMAIN rows, CoreFinish(r) PROVE G
  <2>1. r \in Waiting(rows) /\ r \notin enqueued
    BY <1>b, <1>6 DEF CoreFinish, Completed, Before
  <2>2. /\ Settle(rows, {r}, "core_confirmed") /\ "core_confirmed" \in Fates
        /\ UNCHANGED <<enqueued, offered, extEvents>>
    BY <1>6 DEF CoreFinish, coreFrame, Fates
  <2>3. Loses({r})
    BY <2>1, <2>2, SettleLoses
  <2> QED BY <2>1, <2>2, <2>3, LosesKeeps
<1>7. ASSUME NEW r \in DOMAIN rows, CoreQuarantine(r) \/ CoreUnknown(r) PROVE G
  <2>1. r \notin enqueued
    BY <1>b, <1>7, CoreTaken DEF CoreQuarantine, CoreUnknown
  <2>2. UNCHANGED <<enqueued, offered, extEvents>>
    BY <1>7 DEF CoreQuarantine, CoreUnknown, coreFrame
  <2>3. Loses({r})
    BY <1>7, EditLoses DEF CoreQuarantine, CoreUnknown
  <2> QED BY <2>1, <2>2, <2>3, LosesKeeps
<1>8. ASSUME NEW r \in DOMAIN rows, CoreChat(r) PROVE G
  <2>1. /\ CoreTakes(r) /\ rows' = SetCore(r, "done") /\ UNCHANGED <<enqueued, offered, extEvents>>
        /\ kind(rows, r) = "chat"
    BY <1>8 DEF CoreChat, coreFrame, IsChat
  <2> QED BY <2>1, AdvanceKeeps
<1>9. ASSUME NEW r \in DOMAIN rows, CoreNotice(r) PROVE G
  <2>1. r \in Waiting(rows) /\ r \notin enqueued
    BY <1>b, <1>9, CoreTaken DEF CoreNotice
  <2>2. /\ Settle(SetCore(r, "done"), {r}, "core_confirmed") /\ "core_confirmed" \in Fates
        /\ UNCHANGED <<enqueued, offered>> /\ extEvents \subseteq extEvents'
    BY <1>9, ApplyTakes DEF CoreNotice, coreFrame, Fates
  <2>3. Loses({r})
    BY <2>1, <2>2, SettleLoses
  <2> QED BY <2>1, <2>2, <2>3, LosesKeeps
<1>10. ASSUME NEW r \in DOMAIN rows, CoreFault(r) PROVE G
  <2>1. CoreTakes(r) /\ Apply(r) /\ UNCHANGED <<enqueued, offered>>
    BY <1>10 DEF CoreFault, coreFrame
  <2>2. CASE UNCHANGED rows
    BY <1>a, <2>1, <2>2, ApplyTakes
  <2>3. CASE rows' = SetCore(r, "done")
    BY <2>1, <2>3, ApplyTakes, AdvanceKeeps
  <2> QED BY <1>10, <2>2, <2>3 DEF CoreFault
<1>11. ASSUME NEW r \in DOMAIN rows, ChatConfirm(r) \/ ChatDeliver(r) PROVE G
  <2>1. r \in Waiting(rows)
    BY <1>11 DEF ChatConfirm, ChatDeliver, ChatTakes, Oldest, ChatPending
  <2>2. /\ Settle(rows, {r}, "host_admitted") /\ "host_admitted" \in Fates
        /\ enqueued' = enqueued \ {r} /\ offered \subseteq offered' /\ UNCHANGED extEvents
    BY <1>11 DEF ChatConfirm, ChatDeliver, HandToHost, Fates
  <2>3. Loses({r})
    BY <2>1, <2>2, SettleLoses
  <2> QED BY <2>2, <2>3, LosesKeeps
<1>12. ASSUME NEW r \in DOMAIN rows, ChatFault(r) PROVE G
  <2>1. UNCHANGED <<rows, extEvents>> /\ offered \subseteq offered'
    BY <1>12 DEF ChatFault, HandToHost
  <2>2. CASE UNCHANGED enqueued
    BY <1>a, <2>1, <2>2
  <2>3. CASE enqueued' = enqueued \cup {r} /\ Msg(r) \in offered'
    <3>1. ReadyForHost(r) /\ \A s \in DOMAIN rows : ReadyForHost(s) => r <= s
      BY <1>12 DEF ChatFault, ChatTakes, Oldest, ChatPending, ReadyForHost
    <3>2. \A s : ReadyForHost(s)' = ReadyForHost(s) /\ Msg(s)' = Msg(s)
      BY <2>1 DEF ReadyForHost, Waiting, Live, IsChat, kind, Msg
    <3>3. FenceHolds'
      BY <2>1, <2>3, <3>1, <3>2 DEF HostInv, FenceHolds
    <3>4. CoreInOrder' /\ LeftOversTaken'
      BY <2>1, <3>2 DEF HostInv, CoreInOrder, LeftOversTaken, Waiting, Live, IsInteraction, kind
    <3> QED BY <3>2, <3>3, <3>4 DEF HostInv
  <2> QED BY <1>12, <2>2, <2>3 DEF ChatFault, HandToHost
<1>13. ASSUME NEW e \in intake, IntakeDone(e) PROVE G
  BY <1>a, <1>13 DEF IntakeDone, durable, history
<1>14. CASE HostDone
  BY <1>a, <1>14 DEF HostDone, durable, history
<1>15. CASE Inspect
  BY <1>a, <1>15 DEF Inspect, durable, volatile, history
<1>16. ASSUME NEW selected \in SUBSET view, Discard(selected) PROVE G
  <2> DEFINE S == {item.receipt : item \in selected}
  <2>1. Loses(S) /\ S \subseteq Retained(rows)
    BY <1>16, DiscardLoses
  <2>2. UNCHANGED <<enqueued, offered, extEvents>>
    BY <1>16 DEF Discard, volatile
  <2> HIDE DEF S
  <2>3. enqueued' \subseteq enqueued \ S
    BY <1>b, <2>1, <2>2 DEF Retained, Waiting
  <2> QED BY <2>1, <2>2, <2>3, LosesKeeps
<1>17. CASE Tick
  BY <1>a, <1>17 DEF Tick, durable, volatile, history
<1>18. CASE Reload
  BY <1>a, <1>18 DEF Reload, NewGeneration, durable
<1>19. CASE Crash
  <2>1. rows' = PruneDelivered(rows) /\ enqueued' = {} /\ UNCHANGED <<offered, extEvents>>
    BY <1>19 DEF Crash, NewGeneration
  <2>2. Loses({})
    BY <2>1, PruneKeeps DEF Loses, Waiting, Live
  <2> QED BY <2>1, <2>2, LosesKeeps
<1> QED
  BY <1>1, <1>2, <1>3, <1>4, <1>5, <1>6, <1>7, <1>8, <1>9, <1>10, <1>11, <1>12, <1>13,
     <1>14, <1>15, <1>16, <1>17, <1>18, <1>19 DEF Next

-----------------------------------------------------------------------------
(* EffectBeforeSettling.                                                   *)

LEMMA EffectFrame ==
    ASSUME EffectBeforeSettling, UNCHANGED log, delivered \subseteq delivered',
           delivered' \subseteq offered', extEvents \subseteq extEvents'
    PROVE  EffectBeforeSettling'
BY DEF EffectBeforeSettling

LEMMA EffectSettled ==
    ASSUME TypeOK, LogAgrees, EffectBeforeSettling,
           NEW t, NEW S \in SUBSET DOMAIN rows, NEW why \in Fates, LogSettled(t, S, why),
           \A r \in S : t[r].arr = rows[r].arr,
           delivered \subseteq delivered', delivered' \subseteq offered',
           extEvents \subseteq extEvents',
           \A r \in S :
              /\ why = "host_admitted" => Msg(r) \in delivered'
              /\ why = "core_confirmed" /\ kind(rows, r) \in {"interaction", "join"}
                    => rows[r].ev \in extEvents'
    PROVE  EffectBeforeSettling'
<1>1. DOMAIN log' = DOMAIN log
  BY DEF LogSettled, TypeOK, TablesOK
<1>2. \A a \in DOMAIN log :
         \/ log'[a] = log[a]
         \/ \E r \in S : /\ log'[a].fate = why /\ log'[a].ev = log[a].ev
                         /\ rows[r].ev = log[a].ev
  <2> SUFFICES ASSUME NEW a \in DOMAIN log, NEW r \in S, t[r].arr = a
               PROVE  log'[a].fate = why /\ log'[a].ev = log[a].ev /\ rows[r].ev = log[a].ev
    BY DEF LogSettled
  <2>1. log'[a].fate = why /\ log'[a].ev = log[a].ev
    BY DEF LogSettled
  <2> QED BY <2>1 DEF LogAgrees
<1>3. ASSUME NEW a \in DOMAIN log'
      PROVE  /\ log'[a].fate = "host_admitted" => MsgOf[log'[a].ev] \in delivered'
             /\ log'[a].fate = "core_confirmed" /\ Kind[log'[a].ev] \in {"interaction", "join"}
                   => log'[a].ev \in extEvents'
  <2>1. CASE log'[a] = log[a]
    BY <1>1, <2>1 DEF EffectBeforeSettling
  <2>2. ASSUME NEW r \in S, log'[a].fate = why, log'[a].ev = log[a].ev, rows[r].ev = log[a].ev
        PROVE  <1>3!2
    BY <2>2 DEF Msg, kind
  <2> QED BY <1>1, <1>2, <2>1, <2>2
<1> QED BY <1>3 DEF EffectBeforeSettling

LEMMA EffectStep ==
    ASSUME TypeOK, LogAgrees, HostInv, EffectBeforeSettling, [Next]_vars
    PROVE  EffectBeforeSettling'
<1>0. delivered \subseteq offered
  BY DEF EffectBeforeSettling
<1>1. CASE UNCHANGED vars
  BY <1>0, <1>1, EffectFrame DEF vars, durable, history
<1>2. ASSUME NEW e \in Events, Offer(e) PROVE EffectBeforeSettling'
  BY <1>0, <1>2, EffectFrame DEF Offer, durable, history
<1>3. CASE ConsumeDuplicate
  BY <1>0, <1>3, EffectFrame DEF ConsumeDuplicate
<1>4. CASE ConsumeNew
  <2> DEFINE x == [ev |-> Head(queue), fate |-> "held"]
  <2>1. log' = Append(log, x) /\ UNCHANGED <<delivered, offered, extEvents>>
    BY <1>4 DEF ConsumeNew
  <2>2. x.fate = "held"
    OBVIOUS
  <2> HIDE DEF x
  <2>3. /\ DOMAIN log' = DOMAIN log \cup {Len(log) + 1} /\ log'[Len(log) + 1] = x
        /\ \A a \in DOMAIN log : log'[a] = log[a]
    BY <2>1 DEF TypeOK, TablesOK
  <2> QED BY <2>1, <2>2, <2>3 DEF EffectBeforeSettling
<1>5. CASE ConsumeRefused
  BY <1>0, <1>5, EffectFrame DEF ConsumeRefused, durable, history
<1>6. ASSUME NEW r \in DOMAIN rows, CoreFinish(r) PROVE EffectBeforeSettling'
  <2>1. r \in Waiting(rows) /\ rows[r].core = "done"
    BY <1>6 DEF CoreFinish, Completed, Before
  <2>2. /\ Settle(rows, {r}, "core_confirmed") /\ "core_confirmed" \in Fates
        /\ UNCHANGED <<delivered, offered, extEvents>>
    BY <1>6 DEF CoreFinish, coreFrame, Fates
  <2>3. LogSettled(rows, {r}, "core_confirmed")
    BY <2>1, <2>2, SettleLoses
  <2>4. kind(rows, r) \in {"interaction", "join"} => rows[r].ev \in extEvents'
    BY <2>1, <2>2 DEF HostInv, LeftOversTaken
  <2> QED BY <1>0, <2>2, <2>3, <2>4, EffectSettled
<1>7. ASSUME NEW r \in DOMAIN rows, CoreQuarantine(r) \/ CoreUnknown(r) \/ CoreChat(r)
      PROVE  EffectBeforeSettling'
  BY <1>0, <1>7, EffectFrame DEF CoreQuarantine, CoreUnknown, CoreChat, coreFrame
<1>8. ASSUME NEW r \in DOMAIN rows, CoreNotice(r) PROVE EffectBeforeSettling'
  <2> DEFINE t == SetCore(r, "done")
  <2>1. r \in Waiting(rows)
    BY <1>8, CoreTaken DEF CoreNotice
  <2>2. /\ Settle(t, {r}, "core_confirmed") /\ "core_confirmed" \in Fates
        /\ UNCHANGED <<delivered, offered>> /\ Apply(r)
    BY <1>8 DEF CoreNotice, coreFrame, Fates
  <2>3. LogSettled(t, {r}, "core_confirmed")
    BY <2>1, <2>2, SettleLoses
  <2>4. t[r].arr = rows[r].arr
    BY EditBooks
  <2> HIDE DEF t
  <2> QED BY <1>0, <2>2, <2>3, <2>4, ApplyTakes, EffectSettled
<1>9. ASSUME NEW r \in DOMAIN rows, CoreFault(r) PROVE EffectBeforeSettling'
  BY <1>0, <1>9, ApplyTakes, EffectFrame DEF CoreFault, coreFrame
<1>10. ASSUME NEW r \in DOMAIN rows, ChatConfirm(r) \/ ChatDeliver(r) PROVE EffectBeforeSettling'
  <2>1. r \in Waiting(rows)
    BY <1>10 DEF ChatConfirm, ChatDeliver, ChatTakes, Oldest, ChatPending
  <2>2. /\ Settle(rows, {r}, "host_admitted") /\ "host_admitted" \in Fates
        /\ delivered' = delivered \cup {Msg(r)} /\ offered \subseteq offered'
        /\ UNCHANGED extEvents
    BY <1>10 DEF ChatConfirm, ChatDeliver, HandToHost, Fates
  <2>3. LogSettled(rows, {r}, "host_admitted")
    BY <2>1, <2>2, SettleLoses
  <2>4. Msg(r) \in offered'
    <3>1. CASE ChatDeliver(r)
      BY <3>1 DEF ChatDeliver, HandToHost
    <3>2. CASE ChatConfirm(r) /\ Msg(r) \in delivered
      BY <1>0, <2>2, <3>2
    <3>3. CASE ChatConfirm(r) /\ r \in enqueued
      BY <2>2, <3>3 DEF HostInv, FenceHolds
    <3> QED BY <1>10, <3>1, <3>2, <3>3 DEF ChatConfirm, Known
  <2> QED BY <1>0, <2>2, <2>3, <2>4, EffectSettled
<1>11. ASSUME NEW r \in DOMAIN rows, ChatFault(r) PROVE EffectBeforeSettling'
  <2>1. UNCHANGED <<log, extEvents>>
    BY <1>11 DEF ChatFault
  <2>2. CASE /\ Known(r) /\ Msg(r) \notin delivered /\ UNCHANGED offered
             /\ delivered' = delivered \cup {Msg(r)}
    <3>1. Msg(r) \in offered
      BY <2>2 DEF Known, HostInv, FenceHolds
    <3> QED BY <1>0, <2>1, <2>2, <3>1, EffectFrame
  <2>3. CASE HandToHost(r) /\ delivered' \in {delivered, delivered \cup {Msg(r)}}
    <3>1. offered' = offered \cup {Msg(r)}
      BY <2>3 DEF HandToHost
    <3> QED BY <1>0, <2>1, <2>3, <3>1, EffectFrame
  <2> QED BY <1>11, <2>2, <2>3 DEF ChatFault
<1>12. ASSUME NEW e \in intake, IntakeDone(e) PROVE EffectBeforeSettling'
  BY <1>0, <1>12, EffectFrame DEF IntakeDone, durable, history
<1>13. CASE HostDone
  BY <1>0, <1>13, EffectFrame DEF HostDone, durable, history
<1>14. CASE Inspect
  BY <1>0, <1>14, EffectFrame DEF Inspect, durable, history
<1>15. ASSUME NEW selected \in SUBSET view, Discard(selected) PROVE EffectBeforeSettling'
  <2> DEFINE S == {item.receipt : item \in selected}
  <2>1. S \subseteq Retained(rows) /\ LogSettled(rows, S, "operator_discard")
    BY <1>15, DiscardLoses
  <2>2. UNCHANGED <<delivered, offered, extEvents>> /\ "operator_discard" \in Fates
    BY <1>15 DEF Discard, Fates
  <2> HIDE DEF S
  <2>3. S \in SUBSET DOMAIN rows
    BY <2>1 DEF Retained, Live
  <2> QED BY <1>0, <2>1, <2>2, <2>3, EffectSettled
<1>16. CASE Tick
  BY <1>0, <1>16, EffectFrame DEF Tick, durable, history
<1>17. CASE Reload \/ Crash
  BY <1>0, <1>17, EffectFrame DEF Reload, Crash, durable
<1> QED
  BY <1>1, <1>2, <1>3, <1>4, <1>5, <1>6, <1>7, <1>8, <1>9, <1>10, <1>11, <1>12, <1>13,
     <1>14, <1>15, <1>16, <1>17 DEF Next

\* Whatever fails or restarts between two transactions: an admitted chat has
\* its delivery marker, a marker means the host queue had the message, and a
\* settled interaction or join request was taken in.
THEOREM EffectsFirst == Spec => []EffectBeforeSettling
<1> DEFINE I == TypeOK /\ LogAgrees /\ HostInv /\ EffectBeforeSettling
<1>1. Init => I
  <2>1. Init => TypeOK /\ LogAgrees
    BY InitType, InitLogAgrees
  <2>2. Init => HostInv /\ EffectBeforeSettling
    BY DEF Init, HostInv, FenceHolds, CoreInOrder, LeftOversTaken, EffectBeforeSettling,
           Waiting, Live
  <2> QED BY <2>1, <2>2
<1>2. I /\ [Next]_vars => I'
  BY TypeStep, LogAgreesStep, HostStep, EffectStep
<1> QED BY <1>1, <1>2, PTL DEF Spec

-----------------------------------------------------------------------------
(* HostedOnce.                                                             *)

\* A row may be handed over only when nothing handed over still waits for its
\* marker, so what is known is marked.
LEMMA FreshMessage ==
    ASSUME TypeOK, HostInv, GivenIsKnown, NEW r \in DOMAIN rows, ChatTakes(r), ~Known(r)
    PROVE  \A i \in DOMAIN given : given[i].msg \in delivered /\ given[i].msg # Msg(r)
<1>1. ReadyForHost(r) /\ \A s : s \in DOMAIN rows /\ ReadyForHost(s) => r <= s
  BY DEF ChatTakes, Oldest, ChatPending, ReadyForHost
<1>2. ASSUME NEW e \in enqueued PROVE FALSE
  <2>1. e \in DOMAIN rows /\ e <= r /\ r <= e
    BY <1>1, <1>2 DEF HostInv, FenceHolds, ReadyForHost, Waiting, Live
  <2>2. e \in Nat /\ r \in Nat
    BY <2>1 DEF TypeOK, TablesOK
  <2> QED BY <1>2, <2>1, <2>2 DEF Known
<1> QED BY <1>2 DEF GivenIsKnown, Known

LEMMA HandedOver ==
    ASSUME TypeOK, HostInv, GivenIsKnown, HostedOnce, NEW r \in DOMAIN rows,
           ChatTakes(r), ~Known(r), HandToHost(r)
    PROVE  /\ HostedOnce'
           /\ \A i \in DOMAIN given' : given'[i].msg \in delivered \/ given'[i].msg = Msg(r)
<1> DEFINE x == [msg |-> Msg(r), arr |-> rows[r].arr]
<1>1. given' = Append(given, x) /\ x.msg = Msg(r)
  BY DEF HandToHost
<1> HIDE DEF x
<1>2. /\ DOMAIN given' = DOMAIN given \cup {Len(given) + 1} /\ given'[Len(given) + 1] = x
      /\ \A i \in DOMAIN given : given'[i] = given[i]
  BY <1>1 DEF TypeOK, HistoryOK
<1>3. \A i \in DOMAIN given : given[i].msg \in delivered /\ given[i].msg # Msg(r)
  BY FreshMessage
<1>4. HostedOnce'
  BY <1>1, <1>2, <1>3 DEF HostedOnce
<1> QED BY <1>1, <1>2, <1>3, <1>4

LEMMA GivenStep ==
    ASSUME TypeOK, HostInv, GivenIsKnown, HostedOnce, [Next]_vars
    PROVE  GivenIsKnown' /\ HostedOnce'
<1> DEFINE G == GivenIsKnown' /\ HostedOnce'
<1>a. \A e \in enqueued \cap enqueued' : Msg(e)' = Msg(e)
  BY HostStep
<1>b. UNCHANGED <<given, delivered, enqueued>> => G
  BY <1>a DEF GivenIsKnown, HostedOnce
<1>1. CASE UNCHANGED vars
  BY <1>b, <1>1 DEF vars, durable, volatile, history
<1>2. CASE \/ \E e \in Events : Offer(e)
           \/ ConsumeDuplicate \/ ConsumeNew \/ ConsumeRefused
           \/ \E e \in intake : IntakeDone(e)
           \/ HostDone \/ Inspect \/ Tick
  BY <1>b, <1>2 DEF Offer, ConsumeDuplicate, ConsumeNew, ConsumeRefused, IntakeDone, HostDone,
                    Inspect, Tick, durable, volatile, history
<1>3. ASSUME NEW r \in DOMAIN rows,
             \/ CoreFinish(r) \/ CoreQuarantine(r) \/ CoreChat(r) \/ CoreNotice(r)
             \/ CoreUnknown(r) \/ CoreFault(r)
      PROVE  G
  BY <1>b, <1>3 DEF CoreFinish, CoreQuarantine, CoreChat, CoreNotice, CoreUnknown, CoreFault,
                    coreFrame
<1>4. ASSUME NEW r \in DOMAIN rows, ChatConfirm(r) PROVE G
  <2>1. /\ UNCHANGED given /\ delivered' = delivered \cup {Msg(r)}
        /\ enqueued' = enqueued \ {r}
    BY <1>4 DEF ChatConfirm
  <2>2. GivenIsKnown'
    BY <1>a, <2>1 DEF GivenIsKnown
  <2> QED BY <2>1, <2>2 DEF HostedOnce
<1>5. ASSUME NEW r \in DOMAIN rows, ChatDeliver(r) PROVE G
  <2>1. ChatTakes(r) /\ ~Known(r) /\ HandToHost(r) /\ delivered' = delivered \cup {Msg(r)}
    BY <1>5 DEF ChatDeliver
  <2>2. /\ HostedOnce'
        /\ \A i \in DOMAIN given' : given'[i].msg \in delivered \/ given'[i].msg = Msg(r)
    BY <2>1, HandedOver
  <2> QED BY <2>1, <2>2 DEF GivenIsKnown
<1>6. ASSUME NEW r \in DOMAIN rows, ChatFault(r) PROVE G
  <2>1. ChatTakes(r) /\ Msg(r)' = Msg(r) /\ delivered \subseteq delivered'
    BY <1>6 DEF ChatFault, Msg
  <2>2. CASE UNCHANGED <<enqueued, given>>
    BY <1>a, <2>1, <2>2 DEF GivenIsKnown, HostedOnce
  <2>3. CASE ~Known(r) /\ HandToHost(r) /\ enqueued' = enqueued \cup {r}
    <3>1. /\ HostedOnce'
          /\ \A i \in DOMAIN given' : given'[i].msg \in delivered \/ given'[i].msg = Msg(r)
      BY <2>1, <2>3, HandedOver
    <3> QED BY <2>1, <2>3, <3>1 DEF GivenIsKnown
  <2> QED BY <1>6, <2>2, <2>3 DEF ChatFault
<1>7. ASSUME NEW selected \in SUBSET view, Discard(selected) PROVE G
  BY <1>b, <1>7 DEF Discard, volatile
<1>8. CASE Reload \/ Crash
  BY <1>8 DEF Reload, Crash, NewGeneration, GivenIsKnown, HostedOnce
<1> QED
  BY <1>1, <1>2, <1>3, <1>4, <1>5, <1>6, <1>7, <1>8 DEF Next

\* One generation of the adapter hands a message to the host once, whatever
\* envelopes carry it and wherever an SQLite error stopped an earlier try.
THEOREM OnceAtTheHost == Spec => []HostedOnce
<1> DEFINE I == TypeOK /\ HostInv /\ GivenIsKnown /\ HostedOnce
<1>1. Init => I
  <2>1. Init => TypeOK
    BY InitType
  <2>2. Init => HostInv /\ GivenIsKnown /\ HostedOnce
    BY DEF Init, HostInv, FenceHolds, CoreInOrder, LeftOversTaken, GivenIsKnown, HostedOnce,
           Waiting, Live
  <2> QED BY <2>1, <2>2
<1>2. I /\ [Next]_vars => I'
  BY TypeStep, HostStep, GivenStep
<1> QED BY <1>1, <1>2, PTL DEF Spec

-----------------------------------------------------------------------------
(* Action properties.                                                      *)

LEMMA DiscardStep ==
    ASSUME TypeOK, LogAgrees, [Next]_vars, NEW a \in DOMAIN log,
           log[a].fate # log'[a].fate, log'[a].fate = "operator_discard"
    PROVE  \E item \in view : item.arr = a
<1>1. UNCHANGED log => FALSE
  OBVIOUS
<1>2. ASSUME NEW t, NEW r \in Waiting(rows), t = rows \/ t = SetCore(r, "done"),
             NEW why \in {"core_confirmed", "host_admitted"}, Settle(t, {r}, why)
      PROVE  FALSE
  <2>1. why \in Fates
    BY DEF Fates
  <2>2. LogSettled(t, {r}, why)
    BY <1>2, <2>1, SettleLoses
  <2>3. log'[a].fate = why \/ log'[a] = log[a]
    BY <2>2 DEF LogSettled
  <2> QED BY <2>3
<1>3. CASE \/ UNCHANGED vars \/ \E e \in Events : Offer(e)
           \/ ConsumeDuplicate \/ ConsumeRefused
           \/ \E e \in intake : IntakeDone(e)
           \/ HostDone \/ Inspect \/ Tick \/ Reload \/ Crash
  BY <1>1, <1>3 DEF vars, Offer, ConsumeDuplicate, ConsumeRefused, IntakeDone, HostDone,
                    Inspect, Tick, Reload, Crash, history
<1>4. CASE ConsumeNew
  <2>1. \A x : log' = Append(log, x) => log'[a] = log[a]
    BY DEF TypeOK, TablesOK
  <2> QED BY <1>4, <2>1 DEF ConsumeNew
<1>5. ASSUME NEW r \in DOMAIN rows,
             \/ CoreQuarantine(r) \/ CoreChat(r) \/ CoreUnknown(r) \/ CoreFault(r)
             \/ ChatFault(r)
      PROVE  FALSE
  BY <1>1, <1>5 DEF CoreQuarantine, CoreChat, CoreUnknown, CoreFault, ChatFault
<1>6. ASSUME NEW r \in DOMAIN rows, CoreFinish(r) PROVE FALSE
  BY <1>2, <1>6 DEF CoreFinish, Completed, Before
<1>7. ASSUME NEW r \in DOMAIN rows, CoreNotice(r) PROVE FALSE
  BY <1>2, <1>7, CoreTaken DEF CoreNotice
<1>8. ASSUME NEW r \in DOMAIN rows, ChatConfirm(r) \/ ChatDeliver(r) PROVE FALSE
  BY <1>2, <1>8 DEF ChatConfirm, ChatDeliver, ChatTakes, Oldest, ChatPending
<1>9. ASSUME NEW selected \in SUBSET view, Discard(selected)
      PROVE  \E item \in view : item.arr = a
  <2>1. PICK r \in {item.receipt : item \in selected} : rows[r].arr = a
    BY <1>9, DiscardLoses DEF LogSettled
  <2>2. PICK item \in selected : item.receipt = r
    BY <2>1
  <2>3. item.arr = rows[r].arr
    BY <1>9, <2>2 DEF Discard, Matches, Entry
  <2> QED BY <2>1, <2>2, <2>3
<1> QED BY <1>3, <1>4, <1>5, <1>6, <1>7, <1>8, <1>9 DEF Next

\* The operator discards only envelopes on the page it read, also when a
\* receipt of that page was reused since.
THEOREM SeenBeforeDiscarded == Spec => DiscardsWhatWasSeen
<1>1. Init => TypeOK /\ LogAgrees
  BY InitType, InitLogAgrees
<1>2. TypeOK /\ LogAgrees /\ [Next]_vars => (TypeOK /\ LogAgrees)'
  BY TypeStep, LogAgreesStep
<1>3. TypeOK /\ LogAgrees /\ [Next]_vars =>
        [\A a \in DOMAIN log :
            log[a].fate # log'[a].fate /\ log'[a].fate = "operator_discard" =>
                \E item \in view : item.arr = a]_vars
  BY DiscardStep
<1> QED BY <1>1, <1>2, <1>3, PTL DEF Spec, DiscardsWhatWasSeen

LEMMA DedupStep ==
    ASSUME TypeOK, [Next]_vars, Len(log') > Len(log), log'[Len(log')].ev \in Identified,
           NEW r \in DOMAIN rows, rows[r].ev = log'[Len(log')].ev
    PROVE  ~rows[r].live /\ rows[r].at + TTL <= clock
<1>0. Len(log) \in Nat
  BY DEF TypeOK, TablesOK
<1>1. Len(log') = Len(log) => FALSE
  BY <1>0
<1>2. ASSUME NEW t, NEW q \in Waiting(rows), t = rows \/ t = SetCore(q, "done"),
             NEW why \in {"core_confirmed", "host_admitted"}, Settle(t, {q}, why)
      PROVE  FALSE
  <2>1. why \in Fates
    BY DEF Fates
  <2> QED BY <1>1, <1>2, <2>1, SettleLoses DEF LogSettled
<1>3. CASE \/ UNCHANGED vars \/ \E e \in Events : Offer(e)
           \/ ConsumeDuplicate \/ ConsumeRefused
           \/ \E e \in intake : IntakeDone(e)
           \/ HostDone \/ Inspect \/ Tick \/ Reload \/ Crash
  <2>1. UNCHANGED log
    BY <1>3 DEF vars, Offer, ConsumeDuplicate, ConsumeRefused, IntakeDone, HostDone,
                Inspect, Tick, Reload, Crash, history
  <2> QED BY <1>1, <2>1
<1>4. CASE ConsumeNew
  <2> DEFINE x == [ev |-> Head(queue), fate |-> "held"]
  <2>1. log' = Append(log, x) /\ x.ev = Head(queue) /\ ~Duplicate(Expire(rows), Head(queue))
    BY <1>4 DEF ConsumeNew
  <2> HIDE DEF x
  <2>2. log'[Len(log')] = x
    BY <2>1 DEF TypeOK, TablesOK
  <2>3. rows[r].ev = Head(queue) /\ Head(queue) \in Identified
    BY <2>1, <2>2
  <2>4. r \notin DOMAIN Expire(rows)
    BY <2>1, <2>3, ExpireKeeps DEF Duplicate
  <2>5. ~(rows[r].live \/ rows[r].at + TTL > clock)
    BY <2>4 DEF Expire, Restriction
  <2>6. rows[r].at \in Nat /\ TTL \in Nat /\ clock \in Nat
    BY BoundsAssumption DEF TypeOK, TablesOK, Row
  <2> QED BY <2>5, <2>6
<1>5. ASSUME NEW q \in DOMAIN rows,
             \/ CoreQuarantine(q) \/ CoreChat(q) \/ CoreUnknown(q) \/ CoreFault(q)
             \/ ChatFault(q)
      PROVE  FALSE
  BY <1>1, <1>5 DEF CoreQuarantine, CoreChat, CoreUnknown, CoreFault, ChatFault
<1>6. ASSUME NEW q \in DOMAIN rows, CoreFinish(q) PROVE FALSE
  BY <1>2, <1>6 DEF CoreFinish, Completed, Before
<1>7. ASSUME NEW q \in DOMAIN rows, CoreNotice(q) PROVE FALSE
  BY <1>2, <1>7, CoreTaken DEF CoreNotice
<1>8. ASSUME NEW q \in DOMAIN rows, ChatConfirm(q) \/ ChatDeliver(q) PROVE FALSE
  BY <1>2, <1>8 DEF ChatConfirm, ChatDeliver, ChatTakes, Oldest, ChatPending
<1>9. ASSUME NEW selected \in SUBSET view, Discard(selected) PROVE FALSE
  BY <1>1, <1>9, DiscardLoses DEF LogSettled
<1> QED BY <1>3, <1>4, <1>5, <1>6, <1>7, <1>8, <1>9 DEF Next

\* An event with an id is stored again only when every row of it was settled
\* a full TTL ago.
THEOREM DuplicatesAreTold == Spec => DedupWindow
<1>1. Init => TypeOK
  BY InitType
<1>2. TypeOK /\ [Next]_vars => TypeOK'
  BY TypeStep
<1>3. TypeOK /\ [Next]_vars =>
        [Len(log') > Len(log) /\ log'[Len(log')].ev \in Identified =>
            \A r \in DOMAIN rows : rows[r].ev = log'[Len(log')].ev =>
                ~rows[r].live /\ rows[r].at + TTL <= clock]_vars
  BY DedupStep
<1> QED BY <1>1, <1>2, <1>3, PTL DEF Spec, DedupWindow

-----------------------------------------------------------------------------
(* The bus, the host's order and custody.                                   *)

(* BusSound and HostOrder are not inductive.  They rest on receipts that    *)
(* grow with the arrivals although SQLite reuses them, and on what the      *)
(* fence of published receipts says of the rows it names.                   *)

Seen(a) == \E i \in DOMAIN bus : bus[i].arr = a

\* A reused receipt is still larger than every receipt of an older envelope.
ArrivalOrder == \A r, s \in DOMAIN rows : r < s => rows[r].arr < rows[s].arr

BusLogged == \A i \in DOMAIN bus : bus[i].arr \in DOMAIN log

\* The fence names rows that still wait, so no newer envelope gets their
\* receipt, and only ones the bus saw.
FenceTold ==
    \A r \in published : /\ r \in Waiting(rows) /\ Seen(rows[r].arr) /\ kind(rows, r) # "bad"
                         /\ rows[r].core = "pending" \/ ~IsChat(r)
                         /\ IsInteraction(r) => rows[r].ev \in extEvents

\* What the bus saw and core has not settled is fenced.
SeenIsFenced ==
    \A r \in Waiting(rows) : rows[r].core = "pending" /\ Seen(rows[r].arr) => r \in published

\* Only an interaction was published ahead of a row that is still to come.
NoneOvertaken ==
    \A r \in Waiting(rows), i \in DOMAIN bus :
        rows[r].core = "pending" /\ r \notin published /\ rows[r].arr < bus[i].arr =>
            Kind[log[bus[i].arr].ev] = "interaction"

\* recovered_through tells the envelopes of earlier generations.
OldKnown ==
    /\ boot <= Len(log)
    /\ \A r \in DOMAIN rows : rows[r].arr <= boot => r <= recoveredThrough

\* A row that core called invalid is out of the lanes.
LanesOnly == \A r \in Waiting(rows) : rows[r].core \in {"pending", "done"}

BusInv == /\ ArrivalOrder /\ BusLogged /\ FenceTold /\ SeenIsFenced /\ NoneOvertaken
          /\ OldKnown /\ LanesOnly /\ BusSound

\* Rows only go, the log only grows, and neither forgets an envelope.
Persists == /\ DOMAIN rows' \subseteq DOMAIN rows
            /\ \A r \in DOMAIN rows' : rows'[r].arr = rows[r].arr /\ rows'[r].ev = rows[r].ev
            /\ Len(log') = Len(log) /\ DOMAIN log' = DOMAIN log
            /\ \A a \in DOMAIN log : log'[a].ev = log[a].ev

\* What a step that publishes nothing must leave alone.
LEMMA BusKept ==
    ASSUME TypeOK, BusInv, Persists, UNCHANGED <<bus, boot, recoveredThrough>>,
           extEvents \subseteq extEvents', NEW S, Loses(S), published' = published \ S
    PROVE  BusInv'
<1>1. /\ \A r \in Waiting(rows)' : r \in Waiting(rows) /\ r \notin S /\ rows'[r] = rows[r]
      /\ \A r \in Waiting(rows) : r \notin S => r \in Waiting(rows)'
  BY DEF Loses
<1>2. \A a : Seen(a)' = Seen(a)
  BY DEF Seen
<1>3. ArrivalOrder'
  BY DEF BusInv, ArrivalOrder, Persists
<1>4. BusLogged'
  BY DEF BusInv, BusLogged, Persists
<1>5. FenceTold'
  <2> SUFFICES ASSUME NEW r \in published'
               PROVE  /\ r \in Waiting(rows)' /\ Seen(rows[r].arr)' /\ kind(rows, r)' # "bad"
                      /\ rows'[r].core = "pending" \/ ~IsChat(r)'
                      /\ IsInteraction(r)' => rows'[r].ev \in extEvents'
    BY DEF FenceTold
  <2>1. r \in published /\ r \notin S /\ r \in Waiting(rows) /\ rows'[r] = rows[r] /\ r \in Waiting(rows)'
    BY <1>1 DEF BusInv, FenceTold
  <2>2. Seen(rows[r].arr)'
    BY <2>1 DEF BusInv, FenceTold, Seen
  <2> QED BY <2>1, <2>2 DEF BusInv, FenceTold, kind, IsChat, IsInteraction
<1>6. SeenIsFenced'
  BY <1>1 DEF BusInv, SeenIsFenced, Seen
<1>7. NoneOvertaken'
  <2> SUFFICES ASSUME NEW r \in Waiting(rows)', NEW i \in DOMAIN bus, rows'[r].core = "pending",
                      r \notin published', rows'[r].arr < bus[i].arr
               PROVE  Kind[log'[bus[i].arr].ev] = "interaction"
    BY DEF NoneOvertaken
  <2>1. r \in Waiting(rows) /\ rows'[r] = rows[r] /\ r \notin published
    BY <1>1
  <2>2. bus[i].arr \in DOMAIN log
    BY DEF BusInv, BusLogged
  <2>3. log'[bus[i].arr].ev = log[bus[i].arr].ev
    BY <2>2 DEF Persists
  <2> QED BY <2>1, <2>3 DEF BusInv, NoneOvertaken
<1>8. OldKnown'
  BY DEF BusInv, OldKnown, Persists
<1>9. LanesOnly'
  BY <1>1 DEF BusInv, LanesOnly
<1>10. BusSound'
  <2>1. OldIsRecovered'
    BY DEF BusInv, BusSound, OldIsRecovered
  <2>2. ASSUME NEW i \in DOMAIN bus, NEW j \in DOMAIN bus, i < j
        PROVE  /\ bus[i].arr # bus[j].arr
               /\ bus[j].arr < bus[i].arr => Kind[log'[bus[i].arr].ev] = "interaction"
    <3>1. log'[bus[i].arr].ev = log[bus[i].arr].ev
      BY DEF BusInv, BusLogged, Persists
    <3> QED BY <2>2, <3>1 DEF BusInv, BusSound, BusOnceInOrder
  <2> QED BY <2>1, <2>2 DEF BusSound, BusOnceInOrder
<1> QED BY <1>3, <1>4, <1>5, <1>6, <1>7, <1>8, <1>9, <1>10 DEF BusInv

\* A row of the head is published unless the fence names it.
LEMMA PublishEffect ==
    ASSUME TypeOK, BusInv, NEW r \in DOMAIN rows, Publish(r)
    PROVE  /\ DOMAIN bus \subseteq DOMAIN bus'
           /\ \A i \in DOMAIN bus : bus'[i] = bus[i]
           /\ \A i \in DOMAIN bus' : i \notin DOMAIN bus =>
                 /\ r \notin published
                 /\ bus'[i].arr = rows[r].arr /\ bus'[i].recovered = (r <= recoveredThrough)
                 /\ \A j \in DOMAIN bus' : j <= i /\ (j # i => j \in DOMAIN bus)
           /\ \E i \in DOMAIN bus' : bus'[i].arr = rows[r].arr
<1> DEFINE x == [arr |-> rows[r].arr, recovered |-> r <= recoveredThrough]
<1>0. bus \in Seq([arr : Nat, recovered : BOOLEAN]) /\ Len(bus) \in Nat
  BY DEF TypeOK, HistoryOK
<1>1. CASE r \in published
  <2>1. bus' = bus
    BY <1>1 DEF Publish
  <2>2. \E i \in DOMAIN bus : bus[i].arr = rows[r].arr
    BY <1>1 DEF BusInv, FenceTold, Seen
  <2> QED BY <2>1, <2>2
<1>2. CASE r \notin published
  <2>1. bus' = Append(bus, x) /\ x.arr = rows[r].arr /\ x.recovered = (r <= recoveredThrough)
    BY <1>2 DEF Publish
  <2> HIDE DEF x
  <2>2. /\ DOMAIN bus = 1 .. Len(bus) /\ DOMAIN bus' = 1 .. (Len(bus) + 1)
        /\ bus'[Len(bus) + 1] = x /\ \A i \in DOMAIN bus : bus'[i] = bus[i]
    BY <1>0, <2>1
  <2>3. \A i \in DOMAIN bus' : i \notin DOMAIN bus => i = Len(bus) + 1
    BY <1>0, <2>2
  <2>4. \A j \in DOMAIN bus' : j <= Len(bus) + 1 /\ (j # Len(bus) + 1 => j \in DOMAIN bus)
    BY <1>0, <2>2
  <2>5. Len(bus) + 1 \in DOMAIN bus' /\ DOMAIN bus \subseteq DOMAIN bus'
    BY <1>0, <2>2
  <2> QED BY <1>2, <2>1, <2>2, <2>3, <2>4, <2>5
<1> QED BY <1>1, <1>2

\* A row that core takes is one the bus may see next.
LEMMA HeadIsNext ==
    ASSUME TypeOK, BusInv, NEW r, CoreTakes(r)
    PROVE  /\ r \in Waiting(rows) /\ r \in DOMAIN rows /\ rows[r].core = "pending"
           /\ \A s \in Waiting(rows) : rows[s].core = "pending" /\ rows[s].arr < rows[r].arr =>
                 IsInteraction(r)
<1>1. r \in Waiting(rows) /\ r \in DOMAIN rows /\ rows[r].core = "pending"
  BY CoreTaken
<1>2. ASSUME NEW s \in Waiting(rows), rows[s].core = "pending", rows[s].arr < rows[r].arr,
             ~IsInteraction(r)
      PROVE  FALSE
  <2>1. r <= s
    BY <1>2 DEF CoreTakes, CoreHead, CorePending, Before
  <2>2. r \in Nat /\ s \in Nat /\ s \in DOMAIN rows /\ rows[r].arr \in Nat /\ rows[s].arr \in Nat
    BY <1>1 DEF TypeOK, TablesOK, Row, Waiting, Live
  <2>3. r < s \/ r = s
    BY <2>1, <2>2
  <2>4. r < s => rows[r].arr < rows[s].arr
    BY <1>1, <2>2 DEF BusInv, ArrivalOrder
  <2> QED BY <1>2, <2>2, <2>3, <2>4
<1> QED BY <1>1, <1>2

\* A step of core that publishes the row at the head.
LEMMA BusTold ==
    ASSUME TypeOK, LogAgrees, BusInv, NEW r \in DOMAIN rows, CoreTakes(r), Publish(r),
           kind(rows, r) # "bad", Persists, UNCHANGED <<boot, recoveredThrough>>,
           extEvents \subseteq extEvents', IsInteraction(r) => rows[r].ev \in extEvents',
           bus' \in Seq([arr : Nat, recovered : BOOLEAN]),
           \A s \in Waiting(rows)' : s \in Waiting(rows) /\ (s # r => rows'[s] = rows[s]),
           \A s \in Waiting(rows) : s # r => s \in Waiting(rows)',
           r \in Waiting(rows)' => rows'[r].core \in {"pending", "done"},
           \/ /\ published' = published \ {r}
              /\ r \in Waiting(rows)' => rows'[r].core = "done"
           \/ /\ published' = published \cup {r}
              /\ r \in Waiting(rows)' /\ (rows'[r].core = "pending" \/ ~IsChat(r))
    PROVE  BusInv'
<1>1. /\ r \in Waiting(rows) /\ rows[r].core = "pending"
      /\ \A s \in Waiting(rows) : rows[s].core = "pending" /\ rows[s].arr < rows[r].arr =>
                 IsInteraction(r)
  BY HeadIsNext
<1>2. /\ DOMAIN bus \subseteq DOMAIN bus'
      /\ \A i \in DOMAIN bus : bus'[i] = bus[i]
      /\ \A i \in DOMAIN bus' : i \notin DOMAIN bus =>
            /\ r \notin published
            /\ bus'[i].arr = rows[r].arr /\ bus'[i].recovered = (r <= recoveredThrough)
            /\ \A j \in DOMAIN bus' : j <= i /\ (j # i => j \in DOMAIN bus)
      /\ \E i \in DOMAIN bus' : bus'[i].arr = rows[r].arr
  BY PublishEffect
<1>3. /\ rows[r].arr \in DOMAIN log /\ log[rows[r].arr].ev = rows[r].ev
      /\ \A s \in Waiting(rows) : s \in Live(rows) /\ s \in DOMAIN rows
      /\ \A s \in Waiting(rows)' : s \in DOMAIN rows'
  BY DEF LogAgrees, Waiting, Live
<1>4. \A s \in Waiting(rows) : s # r => rows[s].arr # rows[r].arr
  BY <1>1, <1>3 DEF LogAgrees
<1>5. \A i \in DOMAIN bus' : /\ bus'[i].arr \in DOMAIN log
                             /\ log'[bus'[i].arr].ev = log[bus'[i].arr].ev
  BY <1>2, <1>3 DEF BusInv, BusLogged, Persists
<1>6. ArrivalOrder'
  BY DEF BusInv, ArrivalOrder, Persists
<1>7. BusLogged'
  BY <1>5 DEF BusLogged, Persists
<1>8. FenceTold'
  <2> SUFFICES ASSUME NEW s \in published'
               PROVE  /\ s \in Waiting(rows)' /\ Seen(rows[s].arr)' /\ kind(rows, s)' # "bad"
                      /\ rows'[s].core = "pending" \/ ~IsChat(s)'
                      /\ IsInteraction(s)' => rows'[s].ev \in extEvents'
    BY DEF FenceTold
  <2>1. CASE s = r
    <3>1. r \in Waiting(rows)' /\ (rows'[r].core = "pending" \/ ~IsChat(r))
      BY <2>1
    <3>2. rows'[r].arr = rows[r].arr /\ rows'[r].ev = rows[r].ev
      BY <1>3, <3>1 DEF Persists
    <3>3. \E i \in DOMAIN bus' : bus'[i].arr = rows'[r].arr
      BY <1>2, <3>2
    <3> QED BY <2>1, <3>1, <3>2, <3>3 DEF Seen, kind, IsChat, IsInteraction
  <2>2. CASE s # r
    <3>1. s \in published /\ s \in Waiting(rows)' /\ rows'[s] = rows[s]
      BY <2>2 DEF BusInv, FenceTold
    <3>2. \E i \in DOMAIN bus' : bus'[i].arr = rows[s].arr
      BY <1>2, <3>1 DEF BusInv, FenceTold, Seen
    <3> QED BY <3>1, <3>2 DEF BusInv, FenceTold, Seen, kind, IsChat, IsInteraction
  <2> QED BY <2>1, <2>2
<1>9. SeenIsFenced'
  <2> SUFFICES ASSUME NEW s \in Waiting(rows)', rows'[s].core = "pending",
                      NEW i \in DOMAIN bus', bus'[i].arr = rows'[s].arr
               PROVE  s \in published'
    BY DEF SeenIsFenced, Seen
  <2>1. CASE s = r
    BY <2>1
  <2>2. CASE s # r
    <3>1. s \in Waiting(rows) /\ rows'[s] = rows[s] /\ rows[s].arr # rows[r].arr
      BY <1>4, <2>2
    <3>2. i \in DOMAIN bus /\ bus[i].arr = rows[s].arr
      BY <1>2, <3>1
    <3> QED BY <2>2, <3>1, <3>2 DEF BusInv, SeenIsFenced, Seen
  <2> QED BY <2>1, <2>2
<1>10. NoneOvertaken'
  <2> SUFFICES ASSUME NEW s \in Waiting(rows)', NEW i \in DOMAIN bus', rows'[s].core = "pending",
                      s \notin published', rows'[s].arr < bus'[i].arr
               PROVE  Kind[log'[bus'[i].arr].ev] = "interaction"
    BY DEF NoneOvertaken
  <2>1. s # r /\ s \in Waiting(rows) /\ rows'[s] = rows[s] /\ s \notin published
    OBVIOUS
  <2>2. CASE i \in DOMAIN bus
    BY <1>2, <1>5, <2>1, <2>2 DEF BusInv, NoneOvertaken
  <2>3. CASE i \notin DOMAIN bus
    <3>1. bus'[i].arr = rows[r].arr
      BY <1>2, <2>3
    <3>2. IsInteraction(r)
      BY <1>1, <2>1, <3>1
    <3> QED BY <1>3, <1>5, <3>1, <3>2 DEF IsInteraction, kind
  <2> QED BY <2>2, <2>3
<1>11. OldKnown'
  BY DEF BusInv, OldKnown, Persists
<1>12. LanesOnly'
  BY DEF BusInv, LanesOnly
<1>13. OldIsRecovered'
  <2> SUFFICES ASSUME NEW i \in DOMAIN bus', bus'[i].arr <= boot PROVE bus'[i].recovered
    BY DEF OldIsRecovered
  <2>1. CASE i \in DOMAIN bus
    BY <1>2, <2>1 DEF BusInv, BusSound, OldIsRecovered
  <2>2. CASE i \notin DOMAIN bus
    <3>1. rows[r].arr <= boot /\ bus'[i].recovered = (r <= recoveredThrough)
      BY <1>2, <2>2
    <3>2. r <= recoveredThrough
      BY <3>1 DEF BusInv, OldKnown
    <3> QED BY <3>1, <3>2
  <2> QED BY <2>1, <2>2
<1>14. BusOnceInOrder'
  <2> SUFFICES ASSUME NEW i \in DOMAIN bus', NEW j \in DOMAIN bus', i < j
               PROVE  /\ bus'[i].arr # bus'[j].arr
                      /\ bus'[j].arr < bus'[i].arr => Kind[log'[bus'[i].arr].ev] = "interaction"
    BY DEF BusOnceInOrder
  <2>0. i \in Nat /\ j \in Nat
    OBVIOUS
  <2>1. i \in DOMAIN bus
    <3>1. CASE i \notin DOMAIN bus
      BY <1>2, <2>0, <3>1
    <3> QED BY <3>1
  <2>2. CASE j \in DOMAIN bus
    BY <1>2, <1>5, <2>1, <2>2 DEF BusInv, BusSound, BusOnceInOrder
  <2>3. CASE j \notin DOMAIN bus
    <3>1. r \notin published /\ bus'[j].arr = rows[r].arr /\ bus'[i] = bus[i]
      BY <1>2, <2>1, <2>3
    <3>2. bus[i].arr # rows[r].arr
      BY <1>1, <2>1, <3>1 DEF BusInv, SeenIsFenced, Seen
    <3>3. rows[r].arr < bus[i].arr => Kind[log[bus[i].arr].ev] = "interaction"
      BY <1>1, <2>1, <3>1 DEF BusInv, NoneOvertaken
    <3> QED BY <1>5, <3>1, <3>2, <3>3
  <2> QED BY <2>2, <2>3
<1> QED BY <1>6, <1>7, <1>8, <1>9, <1>10, <1>11, <1>12, <1>13, <1>14 DEF BusInv, BusSound

LEMMA SettlePersists ==
    ASSUME TypeOK, NEW t, IsTable(t), DOMAIN t = DOMAIN rows,
           \A r \in DOMAIN t : t[r].arr = rows[r].arr /\ t[r].ev = rows[r].ev,
           NEW S \in SUBSET Live(t), NEW why \in Fates, Settle(t, S, why)
    PROVE  Persists
<1>1. /\ DOMAIN rows' \subseteq DOMAIN t /\ LogSettled(t, S, why)
      /\ \A r \in DOMAIN rows' : rows'[r].arr = t[r].arr /\ rows'[r].ev = t[r].ev
  BY SettleEffect
<1>2. DOMAIN log' = DOMAIN log
  BY <1>1 DEF LogSettled, TypeOK, TablesOK
<1> QED BY <1>1, <1>2 DEF Persists, LogSettled

\* Settling one waiting row, in the core lane or the chat lane.
LEMMA SettleOnePersists ==
    ASSUME TypeOK, NEW r \in Waiting(rows), NEW t, t = rows \/ t = SetCore(r, "done"),
           NEW why \in Fates, Settle(t, {r}, why)
    PROVE  Persists
<1>1. IsTable(rows) /\ r \in DOMAIN rows
  BY DEF TypeOK, TablesOK, IsTable, Waiting, Live
<1>2. IsTable(t)
  BY <1>1, EditTables
<1>3. /\ DOMAIN t = DOMAIN rows /\ Live(t) = Live(rows)
      /\ \A s \in DOMAIN t : t[s].arr = rows[s].arr /\ t[s].ev = rows[s].ev
  BY <1>1, EditBooks
<1>4. {r} \in SUBSET Live(t)
  BY <1>3 DEF Waiting
<1> QED BY <1>2, <1>3, <1>4, SettlePersists

LEMMA EditPersists ==
    ASSUME TypeOK, NEW r \in DOMAIN rows, UNCHANGED log,
           \/ UNCHANGED rows
           \/ \E c \in {"done", "invalid"} : rows' = SetCore(r, c)
           \/ \E d \in {"invalid", "extension"} : rows' = Retain(rows, r, d)
           \/ \E c \in {"done", "invalid"}, d \in {"invalid", "extension"} :
                 rows' = Retain(SetCore(r, c), r, d)
    PROVE  Persists
<1>1. /\ DOMAIN rows' = DOMAIN rows
      /\ \A s \in DOMAIN rows' : rows'[s].arr = rows[s].arr /\ rows'[s].ev = rows[s].ev
  BY EditBooks
<1> QED BY <1>1 DEF Persists

\* The core lane settles the row, and the row stays where it is.
LEMMA AdvanceWaits ==
    ASSUME TypeOK, NEW r \in Waiting(rows), rows' = SetCore(r, "done")
    PROVE  /\ Waiting(rows)' = Waiting(rows) /\ rows'[r].core = "done"
           /\ \A s \in Waiting(rows) : s # r => rows'[s] = rows[s]
<1>0. r \in DOMAIN rows
  BY DEF Waiting, Live
<1>1. /\ DOMAIN rows' = DOMAIN rows /\ Live(rows)' = Live(rows)
      /\ \A s \in DOMAIN rows' : s # r => rows'[s] = rows[s]
  BY <1>0, EditBooks
<1>2. rows'[r].core = "done" /\ rows'[r].disp = rows[r].disp
  BY <1>0 DEF SetCore, TypeOK, TablesOK, Row
<1> QED BY <1>1, <1>2 DEF Waiting, Live

\* A new envelope gets the largest receipt and the latest arrival.
LEMMA BusNewRow ==
    ASSUME TypeOK, LogAgrees, BusInv, ConsumeNew
    PROVE  BusInv'
<1> DEFINE t == Expire(rows)
           new == [ev |-> Head(queue), arr |-> Len(log) + 1, live |-> TRUE,
                   disp |-> "pending", core |-> "pending", at |-> 0]
           entry == [ev |-> Head(queue), fate |-> "held"]
<1>1. PICK m \in 0 .. Len(log) :
        /\ IsLast(m, t)
        /\ rows' = [r \in DOMAIN t \cup {m + 1} |-> IF r = m + 1 THEN new ELSE t[r]]
  BY DEF ConsumeNew
<1>2. UNCHANGED <<bus, boot, recoveredThrough, published, extEvents>> /\ log' = Append(log, entry)
  BY DEF ConsumeNew
<1>3. new.live /\ new.core = "pending" /\ new.disp = "pending" /\ new.arr = Len(log) + 1
  OBVIOUS
<1>4. /\ DOMAIN t \subseteq DOMAIN rows /\ Live(rows) \subseteq DOMAIN t
      /\ \A r \in DOMAIN t : t[r] = rows[r]
  BY ExpireKeeps
<1>5. /\ DOMAIN rows \subseteq Nat /\ Len(log) \in Nat /\ m \in Nat /\ boot \in Nat
      /\ DOMAIN log = 1 .. Len(log) /\ recoveredThrough \in Nat
  BY DEF TypeOK, TablesOK, MemoryOK, HistoryOK
<1>6. \A r \in DOMAIN t : r < m + 1
  BY <1>1, <1>4, <1>5 DEF IsLast
<1>7. /\ Len(log') = Len(log) + 1 /\ DOMAIN log \subseteq DOMAIN log'
      /\ \A a \in DOMAIN log : log'[a] = log[a]
  BY <1>2, <1>5 DEF TypeOK, TablesOK
<1> HIDE DEF t, new, entry
<1>8. /\ DOMAIN rows' = DOMAIN t \cup {m + 1} /\ m + 1 \notin DOMAIN t
      /\ rows'[m + 1] = new /\ \A r \in DOMAIN t : rows'[r] = rows[r]
  BY <1>1, <1>4, <1>5, <1>6
<1>9. \A r \in DOMAIN t : rows[r].arr \in DOMAIN log /\ rows[r].arr < new.arr
  BY <1>3, <1>4, <1>5 DEF LogAgrees
<1>10. /\ \A r \in Waiting(rows) : r \in DOMAIN t /\ r # m + 1 /\ rows'[r] = rows[r]
                                   /\ r \in Waiting(rows)'
       /\ \A r \in Waiting(rows)' : r = m + 1 \/ (r \in Waiting(rows) /\ r \in DOMAIN t)
  BY <1>4, <1>8 DEF Waiting, Live
<1>11. \A i \in DOMAIN bus : bus[i].arr \in DOMAIN log /\ bus[i].arr < new.arr
                             /\ log'[bus[i].arr] = log[bus[i].arr]
  BY <1>3, <1>5, <1>7 DEF BusInv, BusLogged
<1>12. ArrivalOrder'
  <2> SUFFICES ASSUME NEW r \in DOMAIN rows', NEW s \in DOMAIN rows', r < s
               PROVE  rows'[r].arr < rows'[s].arr
    BY DEF ArrivalOrder
  <2>1. CASE s = m + 1
    <3>1. r \in DOMAIN t
      BY <1>5, <1>8, <2>1
    <3> QED BY <1>8, <1>9, <2>1, <3>1
  <2>2. CASE s # m + 1
    <3>1. s \in DOMAIN t /\ s < m + 1
      BY <1>6, <1>8, <2>2
    <3>2. r \in DOMAIN t
      BY <1>4, <1>5, <1>8, <3>1
    <3> QED BY <1>4, <1>8, <3>1, <3>2 DEF BusInv, ArrivalOrder
  <2> QED BY <2>1, <2>2
<1>13. BusLogged'
  BY <1>2, <1>7, <1>11 DEF BusLogged
<1>14. FenceTold'
  <2> SUFFICES ASSUME NEW r \in published
               PROVE  /\ r \in Waiting(rows)' /\ Seen(rows[r].arr)' /\ kind(rows, r)' # "bad"
                      /\ rows'[r].core = "pending" \/ ~IsChat(r)'
                      /\ IsInteraction(r)' => rows'[r].ev \in extEvents'
    BY <1>2 DEF FenceTold
  <2>1. r \in Waiting(rows) /\ rows'[r] = rows[r] /\ r \in Waiting(rows)'
    BY <1>10 DEF BusInv, FenceTold
  <2> QED BY <1>2, <2>1 DEF BusInv, FenceTold, Seen, kind, IsChat, IsInteraction
<1>15. SeenIsFenced'
  <2> SUFFICES ASSUME NEW r \in Waiting(rows)', rows'[r].core = "pending",
                      NEW i \in DOMAIN bus, bus[i].arr = rows'[r].arr
               PROVE  r \in published
    BY <1>2 DEF SeenIsFenced, Seen
  <2>1. r # m + 1
    BY <1>3, <1>5, <1>8, <1>11
  <2>2. r \in Waiting(rows) /\ rows'[r] = rows[r]
    BY <1>10, <2>1
  <2> QED BY <2>2 DEF BusInv, SeenIsFenced, Seen
<1>16. NoneOvertaken'
  <2> SUFFICES ASSUME NEW r \in Waiting(rows)', NEW i \in DOMAIN bus, rows'[r].core = "pending",
                      r \notin published, rows'[r].arr < bus[i].arr
               PROVE  Kind[log[bus[i].arr].ev] = "interaction"
    BY <1>2, <1>11 DEF NoneOvertaken
  <2>1. r # m + 1
    BY <1>3, <1>5, <1>8, <1>11
  <2>2. r \in Waiting(rows) /\ rows'[r] = rows[r]
    BY <1>10, <2>1
  <2> QED BY <2>2 DEF BusInv, NoneOvertaken
<1>17. OldKnown'
  <2>1. boot <= Len(log)
    BY DEF BusInv, OldKnown
  <2>2. \A r \in DOMAIN t : rows[r].arr <= boot => r <= recoveredThrough
    BY <1>4 DEF BusInv, OldKnown
  <2>3. ~(new.arr <= boot) /\ boot <= Len(log) + 1
    BY <1>3, <1>5, <2>1
  <2> QED BY <1>2, <1>7, <1>8, <2>2, <2>3 DEF OldKnown
<1>18. LanesOnly'
  BY <1>3, <1>8, <1>10 DEF BusInv, LanesOnly
<1>19. OldIsRecovered' /\ BusOnceInOrder'
  BY <1>2, <1>11 DEF BusInv, BusSound, OldIsRecovered, BusOnceInOrder
<1> QED BY <1>12, <1>13, <1>14, <1>15, <1>16, <1>17, <1>18, <1>19 DEF BusInv, BusSound

\* A new generation knows every envelope it finds as old.
LEMMA BusRenewed ==
    ASSUME TypeOK, LogAgrees, BusInv, Persists, UNCHANGED log,
           Waiting(rows)' = Waiting(rows), \A r \in Waiting(rows) : rows'[r] = rows[r],
           \A r \in DOMAIN rows' : r <= recoveredThrough',
           published' = {}, boot' = Len(log), bus' = << >>
    PROVE  BusInv'
<1>1. ArrivalOrder'
  BY DEF BusInv, ArrivalOrder, Persists
<1>2. BusLogged' /\ FenceTold' /\ SeenIsFenced' /\ NoneOvertaken' /\ BusSound'
  BY DEF BusLogged, FenceTold, SeenIsFenced, Seen, NoneOvertaken, BusSound, OldIsRecovered,
         BusOnceInOrder
<1>3. OldKnown'
  <2>1. Len(log) \in Nat
    BY DEF TypeOK, TablesOK
  <2> QED BY <2>1 DEF OldKnown
<1>4. LanesOnly'
  BY DEF BusInv, LanesOnly
<1> QED BY <1>1, <1>2, <1>3, <1>4 DEF BusInv

LEMMA BusStep ==
    ASSUME TypeOK, LogAgrees, BusInv, [Next]_vars
    PROVE  BusInv'
<1>0. /\ published = published \ {} /\ TypeOK'
      /\ \A r \in published : r \in Waiting(rows) /\ (rows[r].core = "pending" \/ ~IsChat(r))
                              /\ kind(rows, r) # "bad"
                              /\ (IsInteraction(r) => rows[r].ev \in extEvents)
  BY TypeStep DEF BusInv, FenceTold
<1>a. ASSUME UNCHANGED <<rows, log, bus, boot, recoveredThrough, published, extEvents>>
      PROVE  BusInv'
  <2>1. Loses({}) /\ Persists
    BY <1>a DEF Loses, Persists, Waiting, Live
  <2> QED BY <1>0, <1>a, <2>1, BusKept
<1>1. CASE \/ UNCHANGED vars \/ \E e \in Events : Offer(e)
           \/ ConsumeRefused
           \/ \E e \in intake : IntakeDone(e)
           \/ HostDone \/ Inspect \/ Tick
  BY <1>a, <1>1 DEF vars, Offer, ConsumeRefused, IntakeDone, HostDone, Inspect, Tick, durable,
                    volatile, history
<1>2. CASE ConsumeDuplicate
  <2>1. rows' = Expire(rows) /\ UNCHANGED <<log, bus, boot, recoveredThrough, published, extEvents>>
    BY <1>2 DEF ConsumeDuplicate
  <2>2. Loses({}) /\ Persists
    BY <2>1, ExpireKeeps DEF Loses, Persists, Waiting, Live
  <2> QED BY <1>0, <2>1, <2>2, BusKept
<1>3. CASE ConsumeNew
  BY <1>3, BusNewRow
<1>4. ASSUME NEW r \in DOMAIN rows, CoreFinish(r) PROVE BusInv'
  <2>1. r \in Waiting(rows)
    BY <1>4 DEF CoreFinish, Completed, Before
  <2>2. /\ Settle(rows, {r}, "core_confirmed") /\ "core_confirmed" \in Fates
        /\ published' = published \ {r} /\ UNCHANGED <<bus, boot, recoveredThrough, extEvents>>
    BY <1>4 DEF CoreFinish, coreFrame, Fates
  <2>3. Loses({r}) /\ Persists
    BY <2>1, <2>2, SettleLoses, SettleOnePersists
  <2> QED BY <2>2, <2>3, BusKept
<1>5. ASSUME NEW r \in DOMAIN rows, CoreQuarantine(r) PROVE BusInv'
  <2>1. r \notin published
    BY <1>0, <1>5 DEF CoreQuarantine
  <2>2. published' = published \ {r} /\ UNCHANGED <<log, bus, boot, recoveredThrough, extEvents>>
    BY <1>5, <2>1 DEF CoreQuarantine, coreFrame
  <2>3. \/ rows' = Retain(SetCore(r, "invalid"), r, "invalid")
        \/ rows' = Retain(rows, r, "invalid")
    BY <1>5 DEF CoreQuarantine
  <2>4. Loses({r}) /\ Persists
    BY <2>2, <2>3, EditLoses, EditPersists
  <2> QED BY <2>2, <2>4, BusKept
\* What the steps that publish have in common.
<1>b. ASSUME NEW r \in DOMAIN rows, CoreChat(r) \/ CoreNotice(r) \/ CoreUnknown(r) \/ CoreFault(r)
      PROVE  /\ CoreTakes(r) /\ Publish(r) /\ kind(rows, r) # "bad" /\ r \in Waiting(rows)
             /\ UNCHANGED <<boot, recoveredThrough>> /\ extEvents \subseteq extEvents'
             /\ bus' \in Seq([arr : Nat, recovered : BOOLEAN])
             /\ rows[r].core = "pending"
  <2>1. CoreTakes(r) /\ Publish(r) /\ UNCHANGED <<boot, recoveredThrough>>
    BY <1>b DEF CoreChat, CoreNotice, CoreUnknown, CoreFault, coreFrame
  <2>2. kind(rows, r) # "bad"
    BY <1>b DEF CoreChat, CoreNotice, CoreUnknown, CoreFault, IsChat
  <2>3. extEvents \subseteq extEvents'
    BY <1>b, ApplyTakes DEF CoreChat, CoreNotice, CoreUnknown, CoreFault
  <2>4. bus' \in Seq([arr : Nat, recovered : BOOLEAN])
    BY <1>0 DEF TypeOK, HistoryOK
  <2> QED BY <2>1, <2>2, <2>3, <2>4, CoreTaken
<1>6. ASSUME NEW r \in DOMAIN rows, CoreChat(r) PROVE BusInv'
  <2>1. /\ rows' = SetCore(r, "done") /\ published' = published \ {r} /\ UNCHANGED log
        /\ ~IsInteraction(r)
    BY <1>6 DEF CoreChat, IsChat, IsInteraction
  <2>2. /\ Waiting(rows)' = Waiting(rows) /\ rows'[r].core = "done"
        /\ \A s \in Waiting(rows) : s # r => rows'[s] = rows[s]
    BY <1>b, <1>6, <2>1, AdvanceWaits
  <2>3. Persists
    BY <2>1, EditPersists
  <2> QED BY <1>b, <1>6, <2>1, <2>2, <2>3, BusTold
<1>7. ASSUME NEW r \in DOMAIN rows, CoreNotice(r) \/ CoreUnknown(r) PROVE BusInv'
  <2>1. published' = published \ {r} /\ (IsInteraction(r) => rows[r].ev \in extEvents')
    BY <1>7, ApplyTakes DEF CoreNotice, CoreUnknown, IsInteraction
  <2>2. Loses({r}) /\ Persists
    <3>1. CASE CoreNotice(r)
      <4>1. Settle(SetCore(r, "done"), {r}, "core_confirmed") /\ "core_confirmed" \in Fates
        BY <3>1 DEF CoreNotice, Fates
      <4> QED BY <1>b, <3>1, <4>1, SettleLoses, SettleOnePersists
    <3>2. CASE CoreUnknown(r)
      <4>1. rows' = Retain(SetCore(r, "done"), r, "extension") /\ UNCHANGED log
        BY <3>2 DEF CoreUnknown
      <4> QED BY <4>1, EditLoses, EditPersists
    <3> QED BY <1>7, <3>1, <3>2
  <2>3. /\ r \notin Waiting(rows)'
        /\ \A s \in Waiting(rows)' : s \in Waiting(rows) /\ (s # r => rows'[s] = rows[s])
        /\ \A s \in Waiting(rows) : s # r => s \in Waiting(rows)'
    BY <2>2 DEF Loses
  <2> QED BY <1>b, <1>7, <2>1, <2>2, <2>3, BusTold
<1>8. ASSUME NEW r \in DOMAIN rows, CoreFault(r) PROVE BusInv'
  <2>1. published' = published \cup {r} /\ (IsInteraction(r) => rows[r].ev \in extEvents')
        /\ UNCHANGED log
    BY <1>8, ApplyTakes DEF CoreFault, IsInteraction
  <2>2. CASE UNCHANGED rows
    <3>1. Persists
      BY <2>1, <2>2 DEF Persists
    <3>2. Waiting(rows)' = Waiting(rows) /\ \A s \in Waiting(rows) : rows'[s] = rows[s]
      BY <2>2 DEF Waiting, Live
    <3> QED BY <1>b, <1>8, <2>1, <2>2, <3>1, <3>2, BusTold
  <2>3. CASE ~IsChat(r) /\ rows' = SetCore(r, "done")
    <3>1. /\ Waiting(rows)' = Waiting(rows) /\ rows'[r].core = "done"
          /\ \A s \in Waiting(rows) : s # r => rows'[s] = rows[s]
      BY <1>b, <1>8, <2>3, AdvanceWaits
    <3>2. Persists
      BY <2>1, <2>3, EditPersists
    <3> QED BY <1>b, <1>8, <2>1, <2>3, <3>1, <3>2, BusTold
  <2> QED BY <1>8, <2>2, <2>3 DEF CoreFault
<1>9. ASSUME NEW r \in DOMAIN rows, ChatConfirm(r) \/ ChatDeliver(r) PROVE BusInv'
  <2>1. r \in Waiting(rows) /\ rows[r].core = "done" /\ IsChat(r)
    BY <1>9 DEF ChatConfirm, ChatDeliver, ChatTakes, Oldest, ChatPending
  <2>2. /\ Settle(rows, {r}, "host_admitted") /\ "host_admitted" \in Fates
        /\ UNCHANGED <<bus, boot, recoveredThrough, published, extEvents>>
    BY <1>9 DEF ChatConfirm, ChatDeliver, Fates
  <2>3. Loses({r}) /\ Persists
    BY <2>1, <2>2, SettleLoses, SettleOnePersists
  <2>4. r \notin published
    BY <1>0, <2>1
  <2>5. published' = published \ {r}
    BY <2>2, <2>4
  <2> QED BY <2>2, <2>3, <2>5, BusKept
<1>10. ASSUME NEW r \in DOMAIN rows, ChatFault(r) PROVE BusInv'
  BY <1>a, <1>10 DEF ChatFault
<1>11. ASSUME NEW selected \in SUBSET view, Discard(selected) PROVE BusInv'
  <2> DEFINE S == {item.receipt : item \in selected}
  <2>1. Loses(S) /\ S \subseteq Retained(rows)
    BY <1>11, DiscardLoses
  <2>2. /\ Settle(rows, S, "operator_discard") /\ "operator_discard" \in Fates
        /\ UNCHANGED <<bus, boot, recoveredThrough, published, extEvents>>
    BY <1>11 DEF Discard, volatile, Fates
  <2> HIDE DEF S
  <2>3. IsTable(rows) /\ S \in SUBSET Live(rows)
    BY <2>1 DEF TypeOK, TablesOK, IsTable, Retained
  <2>4. Persists
    BY <2>2, <2>3, SettlePersists
  <2>5. published' = published \ S
    BY <1>0, <2>1, <2>2 DEF Retained, Waiting
  <2> QED BY <2>1, <2>2, <2>4, <2>5, BusKept
<1>12. CASE Reload
  <2>1. /\ UNCHANGED <<rows, log>> /\ published' = {} /\ boot' = Len(log) /\ bus' = << >>
        /\ \A r \in DOMAIN rows : r <= recoveredThrough'
    BY <1>12 DEF Reload, NewGeneration, durable, IsLast
  <2>2. Persists /\ Waiting(rows)' = Waiting(rows)
    BY <2>1 DEF Persists, Waiting, Live
  <2> QED BY <2>1, <2>2, BusRenewed
<1>13. CASE Crash
  <2>1. /\ rows' = PruneDelivered(rows) /\ UNCHANGED log
        /\ published' = {} /\ boot' = Len(log) /\ bus' = << >>
        /\ \A r \in DOMAIN rows' : r <= recoveredThrough'
    BY <1>13 DEF Crash, NewGeneration, IsLast
  <2>2. /\ Persists /\ Waiting(rows)' = Waiting(rows)
        /\ \A r \in Waiting(rows) : rows'[r] = rows[r]
    BY <2>1, PruneKeeps DEF Persists, Waiting, Live
  <2> QED BY <2>1, <2>2, BusRenewed
<1> QED
  BY <1>1, <1>2, <1>3, <1>4, <1>5, <1>6, <1>7, <1>8, <1>9, <1>10, <1>11, <1>12, <1>13 DEF Next

LEMMA InitBus == Init => BusInv
BY DEF Init, BusInv, ArrivalOrder, BusLogged, FenceTold, SeenIsFenced, NoneOvertaken, OldKnown,
       LanesOnly, BusSound, OldIsRecovered, BusOnceInOrder, Waiting, Live

\* Subscribers of the SDK bus see an envelope at most once per generation,
\* in the order of arrival but for interactions, and one that was in the
\* inbox before this generation as recovered.
THEOREM BusIsSound == Spec => []BusSound
<1> DEFINE I == TypeOK /\ LogAgrees /\ BusInv
<1>1. Init => I
  BY InitType, InitLogAgrees, InitBus
<1>2. I /\ [Next]_vars => I'
  BY TypeStep, LogAgreesStep, BusStep
<1>3. I => BusSound
  BY DEF BusInv
<1> HIDE DEF I
<1> QED BY <1>1, <1>2, <1>3, PTL DEF Spec

-----------------------------------------------------------------------------
(* HostOrder.                                                              *)

LEMMA SmallestIs ==
    ASSUME NEW S \in SUBSET Nat, S # {}
    PROVE  \E x \in S : \A y \in S : x <= y
<1> DEFINE R == {p \in Nat \X Nat : p[1] < p[2]}
<1>1. IsWellFoundedOn(R, Nat)
  BY NatLessThanWellFounded DEF OpToRel
<1> HIDE DEF R
<1>2. PICK x \in S : \A y \in S : ~(<<y, x>> \in R)
  BY <1>1, WFMin
<1>3. \A y \in S : ~(y < x)
  BY <1>2 DEF R
<1> QED BY <1>3

\* A READY that core settled holds the chat lane back, whatever else is left
\* over beside it.
LEMMA ReadyHolds ==
    ASSUME TypeOK, NEW s \in Waiting(rows), rows[s].core = "done", IsReady(s)
    PROVE  \E c \in Completed : IsReady(c)
<1> DEFINE Left == {r \in Waiting(rows) : rows[r].core = "done" /\ ~IsChat(r)}
           R == {r \in Left : IsReady(r)}
<1>1. s \in R
  BY DEF IsReady, IsChat
<1>2. R \in SUBSET Nat
  BY DEF Waiting, Live, TypeOK, TablesOK
<1>3. PICK c \in R : \A y \in R : c <= y
  <2> HIDE DEF R
  <2> QED BY <1>1, <1>2, SmallestIs
<1>4. c \in Completed
  BY <1>3 DEF Completed, Before
<1> QED BY <1>3, <1>4

\* The row the chat lane takes arrived before every chat and every READY
\* that waits.
LEMMA OldestIsTaken ==
    ASSUME TypeOK, HostInv, BusInv, NEW r \in DOMAIN rows, ChatTakes(r),
           NEW s \in Waiting(rows), rows[s].arr < rows[r].arr
    PROVE  ~IsChat(s) /\ ~IsReady(s)
<1>1. /\ ReadyForHost(r) /\ r \in Waiting(rows) /\ s \in DOMAIN rows
      /\ \A x \in DOMAIN rows : ReadyForHost(x) => r <= x
      /\ ~\E c \in Completed : IsReady(c)
  BY DEF ChatTakes, Oldest, ChatPending, ReadyForHost, Waiting, Live
<1>2. r \in Nat /\ s \in Nat /\ rows[r].arr \in Nat /\ rows[s].arr \in Nat
  BY <1>1 DEF TypeOK, TablesOK, Row
<1>3. s < r
  <2>1. s # r
    BY <1>2
  <2>2. ~(r < s)
    BY <1>1, <1>2 DEF BusInv, ArrivalOrder
  <2> QED BY <1>2, <2>1, <2>2
<1>4. rows[s].core \in {"pending", "done"}
  BY DEF BusInv, LanesOnly
<1>5. ASSUME IsChat(s) \/ IsReady(s), rows[s].core = "pending" PROVE FALSE
  <2>1. ~IsInteraction(s)
    BY <1>5 DEF IsChat, IsReady, IsInteraction
  <2>2. r < s
    BY <1>1, <1>5, <2>1 DEF HostInv, CoreInOrder
  <2> QED BY <1>2, <1>3, <2>2
<1>6. ASSUME IsChat(s), rows[s].core = "done" PROVE FALSE
  <2>1. r <= s
    BY <1>1, <1>6 DEF ReadyForHost
  <2> QED BY <1>2, <1>3, <2>1
<1>7. ASSUME IsReady(s), rows[s].core = "done" PROVE FALSE
  BY <1>1, <1>7, ReadyHolds
<1> QED BY <1>4, <1>5, <1>6, <1>7

LEMMA OrderStep ==
    ASSUME TypeOK, HostInv, BusInv, [Next]_vars, Len(given') > Len(given),
           NEW s \in Waiting(rows), rows[s].arr < given'[Len(given')].arr
    PROVE  ~IsChat(s) /\ ~IsReady(s)
<1>0. given \in Seq([msg : Messages, arr : Nat]) /\ Len(given) \in Nat
  BY DEF TypeOK, HistoryOK
<1>1. UNCHANGED given => FALSE
  BY <1>0
<1>2. ASSUME NEW r \in DOMAIN rows, ChatTakes(r), HandToHost(r) PROVE ~IsChat(s) /\ ~IsReady(s)
  <2> DEFINE x == [msg |-> Msg(r), arr |-> rows[r].arr]
  <2>1. given' = Append(given, x) /\ x.arr = rows[r].arr
    BY <1>2 DEF HandToHost
  <2> HIDE DEF x
  <2>2. given'[Len(given')] = x
    BY <1>0, <2>1
  <2> QED BY <1>2, <2>1, <2>2, OldestIsTaken
<1>3. CASE \/ UNCHANGED vars \/ \E e \in Events : Offer(e)
           \/ ConsumeDuplicate \/ ConsumeNew \/ ConsumeRefused
           \/ \E e \in intake : IntakeDone(e)
           \/ HostDone \/ Inspect \/ Tick
  BY <1>1, <1>3 DEF vars, Offer, ConsumeDuplicate, ConsumeNew, ConsumeRefused, IntakeDone,
                    HostDone, Inspect, Tick, history
<1>4. ASSUME NEW r \in DOMAIN rows,
             \/ CoreFinish(r) \/ CoreQuarantine(r) \/ CoreChat(r) \/ CoreNotice(r)
             \/ CoreUnknown(r) \/ CoreFault(r) \/ ChatConfirm(r)
      PROVE  FALSE
  BY <1>1, <1>4 DEF CoreFinish, CoreQuarantine, CoreChat, CoreNotice, CoreUnknown, CoreFault,
                    ChatConfirm, coreFrame
<1>5. ASSUME NEW r \in DOMAIN rows, ChatDeliver(r) \/ ChatFault(r)
      PROVE  ~IsChat(s) /\ ~IsReady(s)
  <2>1. ChatTakes(r) /\ (HandToHost(r) \/ UNCHANGED given)
    BY <1>5 DEF ChatDeliver, ChatFault
  <2> QED BY <1>1, <1>2, <2>1
<1>6. ASSUME NEW selected \in SUBSET view, Discard(selected) PROVE FALSE
  BY <1>1, <1>6 DEF Discard
<1>7. CASE Reload \/ Crash
  <2>1. given' = << >>
    BY <1>7 DEF Reload, Crash, NewGeneration
  <2> QED BY <1>0, <2>1
<1> QED BY <1>3, <1>4, <1>5, <1>6, <1>7 DEF Next

\* Settling touches the core state of no row.
LEMMA SettleCore ==
    ASSUME NEW t, IsTable(t), NEW S, NEW why, Settle(t, S, why), NEW r \in DOMAIN rows'
    PROVE  r \in DOMAIN t /\ rows'[r].core = t[r].core
<1> DEFINE w == [x \in DOMAIN t |->
                  IF x \in S
                  THEN [t[x] EXCEPT !.live = FALSE, !.at = clock,
                          !.disp = IF why = "operator_discard" THEN "discarded" ELSE @]
                  ELSE t[x]]
<1>1. DOMAIN w = DOMAIN t /\ \A x \in DOMAIN t : w[x].core = t[x].core
  BY DEF IsTable, Row
<1>2. rows' = PruneDelivered(w)
  BY DEF Settle
<1> HIDE DEF w
<1>3. r \in DOMAIN w /\ rows'[r] = w[r]
  BY <1>2, PruneKeeps
<1> QED BY <1>1, <1>3

LEMMA SkipStep ==
    ASSUME TypeOK, LogAgrees, BusInv, [Next]_vars, NEW s \in DOMAIN rows, s \in DOMAIN rows',
           rows[s].arr = rows'[s].arr, rows[s].core = "pending", rows'[s].core = "done"
    PROVE  \E i \in DOMAIN bus' : bus'[i].arr = rows[s].arr
<1>0. IsTable(rows)
  BY DEF TypeOK, TablesOK, IsTable
<1>1. rows'[s].core = rows[s].core => FALSE
  OBVIOUS
<1>2. UNCHANGED rows => FALSE
  BY <1>1
\* The row core takes, and no other, is settled.
<1>a. ASSUME NEW r \in DOMAIN rows, Publish(r), s # r => rows'[s].core = rows[s].core
      PROVE  \E i \in DOMAIN bus' : bus'[i].arr = rows[s].arr
  BY <1>1, <1>a, PublishEffect
<1>3. CASE \/ UNCHANGED vars \/ \E e \in Events : Offer(e)
           \/ ConsumeRefused
           \/ \E e \in intake : IntakeDone(e)
           \/ HostDone \/ Inspect \/ Tick \/ Reload
  BY <1>2, <1>3 DEF vars, Offer, ConsumeRefused, IntakeDone, HostDone, Inspect, Tick, Reload,
                    durable
<1>4. CASE ConsumeDuplicate
  <2>1. rows' = Expire(rows)
    BY <1>4 DEF ConsumeDuplicate
  <2> QED BY <1>1, <2>1, ExpireKeeps
<1>5. CASE ConsumeNew
  <2> DEFINE t == Expire(rows)
             new == [ev |-> Head(queue), arr |-> Len(log) + 1, live |-> TRUE,
                     disp |-> "pending", core |-> "pending", at |-> 0]
  <2>1. PICK m \in 0 .. Len(log) :
           rows' = [r \in DOMAIN t \cup {m + 1} |-> IF r = m + 1 THEN new ELSE t[r]]
    BY <1>5 DEF ConsumeNew
  <2>2. new.core = "pending" /\ \A r \in DOMAIN t : t[r] = rows[r]
    BY ExpireKeeps
  <2> HIDE DEF t, new
  <2>3. rows'[s] = new \/ rows'[s] = rows[s]
    BY <2>1, <2>2
  <2> QED BY <1>1, <2>2, <2>3
<1>6. ASSUME NEW r \in DOMAIN rows, CoreFinish(r) \/ ChatConfirm(r) \/ ChatDeliver(r) PROVE FALSE
  <2>1. Settle(rows, {r}, "core_confirmed") \/ Settle(rows, {r}, "host_admitted")
    BY <1>6 DEF CoreFinish, ChatConfirm, ChatDeliver
  <2> QED BY <1>0, <1>1, <2>1, SettleCore
<1>7. ASSUME NEW r \in DOMAIN rows, CoreQuarantine(r) PROVE FALSE
  <2>1. \/ rows' = Retain(SetCore(r, "invalid"), r, "invalid")
        \/ rows' = Retain(rows, r, "invalid")
    BY <1>7 DEF CoreQuarantine
  <2>2. \A x \in DOMAIN rows' : x # r => rows'[x] = rows[x]
    BY <2>1, EditBooks
  <2>3. rows[r] \in Row /\ r \in DOMAIN rows
    BY DEF TypeOK, TablesOK
  <2>4. \A x \in Row : /\ [x EXCEPT !.disp = "invalid"].core = x.core
                       /\ [[x EXCEPT !.core = "invalid"] EXCEPT !.disp = "invalid"].core = "invalid"
    BY DEF Row
  <2>5. rows'[r].core = rows[r].core \/ rows'[r].core = "invalid"
    BY <2>1, <2>3, <2>4 DEF Retain, SetCore
  <2> QED BY <1>1, <2>2, <2>5
<1>8. ASSUME NEW r \in DOMAIN rows, CoreChat(r) \/ CoreUnknown(r) \/ CoreFault(r)
      PROVE  \E i \in DOMAIN bus' : bus'[i].arr = rows[s].arr
  <2>1. Publish(r)
    BY <1>8 DEF CoreChat, CoreUnknown, CoreFault
  <2>2. \/ UNCHANGED rows \/ rows' = SetCore(r, "done")
        \/ rows' = Retain(SetCore(r, "done"), r, "extension")
    BY <1>8 DEF CoreChat, CoreUnknown, CoreFault
  <2>3. s # r => rows'[s] = rows[s]
    BY <2>2, EditBooks
  <2> QED BY <1>a, <2>1, <2>3
<1>9. ASSUME NEW r \in DOMAIN rows, CoreNotice(r)
      PROVE  \E i \in DOMAIN bus' : bus'[i].arr = rows[s].arr
  <2>1. Publish(r) /\ Settle(SetCore(r, "done"), {r}, "core_confirmed")
    BY <1>9 DEF CoreNotice
  <2>2. rows'[s].core = SetCore(r, "done")[s].core
    BY <2>1, EditTables, SettleCore
  <2>3. s # r => SetCore(r, "done")[s] = rows[s]
    BY DEF SetCore
  <2> QED BY <1>a, <2>1, <2>2, <2>3
<1>10. ASSUME NEW r \in DOMAIN rows, ChatFault(r) PROVE FALSE
  BY <1>2, <1>10 DEF ChatFault
<1>11. ASSUME NEW selected \in SUBSET view, Discard(selected) PROVE FALSE
  BY <1>0, <1>1, <1>11, SettleCore DEF Discard
<1>12. CASE Crash
  <2>1. rows' = PruneDelivered(rows)
    BY <1>12 DEF Crash
  <2> QED BY <1>1, <2>1, PruneKeeps
<1> QED BY <1>3, <1>4, <1>5, <1>6, <1>7, <1>8, <1>9, <1>10, <1>11, <1>12 DEF Next

\* The host gets a chat after every chat and every READY that arrived before
\* it and still waits, and core settles no row its subscribers did not see,
\* also where an SQLite error split a step or a receipt was used again.
THEOREM HostGetsInOrder == Spec => HostOrder
<1> DEFINE I == TypeOK /\ LogAgrees /\ HostInv /\ BusInv
<1>1. Init => I
  <2>1. Init => HostInv
    BY DEF Init, HostInv, FenceHolds, CoreInOrder, LeftOversTaken, Waiting, Live
  <2> QED BY <2>1, InitType, InitLogAgrees, InitBus
<1>2. I /\ [Next]_vars => I'
  BY TypeStep, LogAgreesStep, HostStep, BusStep
<1>3. I /\ [Next]_vars =>
        [Len(given') > Len(given) =>
            \A r \in Waiting(rows) : rows[r].arr < given'[Len(given')].arr =>
                ~IsChat(r) /\ ~IsReady(r)]_vars
  BY OrderStep
<1>4. I /\ [Next]_vars =>
        [\A r \in DOMAIN rows \cap DOMAIN rows' :
            /\ rows[r].arr = rows'[r].arr
            /\ rows[r].core = "pending" /\ rows'[r].core = "done"
            => \E i \in DOMAIN bus' : bus'[i].arr = rows[r].arr]_vars
  BY SkipStep
<1> HIDE DEF I
<1> QED BY <1>1, <1>2, <1>3, <1>4, PTL DEF Spec, HostOrder, HostInOrder, NoneSkipped

-----------------------------------------------------------------------------
(* KeepsCustody: what the inbox promises to whoever delivers an envelope.  *)

\* The book of EnvelopeCustody, as the inbox keeps it.
Book == [a \in DOMAIN log |-> [ev |-> log[a].ev, place |-> Place(a)]]

Shelved(a) == \E r \in Retained(rows) : rows[r].arr = a

LEMMA PlaceKept ==
    ASSUME NEW a, log'[a].fate = log[a].fate, Shelved(a)' = Shelved(a)
    PROVE  Place(a)' = Place(a)
BY DEF Place, Shelved

\* A step after which the shelf has the same envelopes, and no envelope that
\* was in custody left it.
LEMMA BookKept ==
    ASSUME UNCHANGED <<log, acked>>, Retained(rows)' = Retained(rows),
           \A r \in Retained(rows) : rows'[r].arr = rows[r].arr
    PROVE  UNCHANGED <<Book, acked>>
<1>1. \A a : Shelved(a)' = Shelved(a)
  BY DEF Shelved
<1>2. \A a \in DOMAIN log : Place(a)' = Place(a)
  BY <1>1, PlaceKept
<1> QED BY <1>2 DEF Book

\* A step that moves the envelopes of S to one place.
LEMMA MoveIs ==
    ASSUME DOMAIN log' = DOMAIN log, \A a \in DOMAIN log : log'[a].ev = log[a].ev,
           UNCHANGED acked, NEW S, NEW p,
           \A a \in DOMAIN log \cap S : Place(a)' = p,
           \A a \in DOMAIN log \ S : Place(a)' = Place(a)
    PROVE  Custody!Move(S, p)
<1>1. Book' = [a \in DOMAIN Book |-> IF a \in S THEN [Book[a] EXCEPT !.place = p] ELSE Book[a]]
  <2>1. ASSUME NEW a \in DOMAIN log
        PROVE  [ev |-> log'[a].ev, place |-> Place(a)'] =
                  IF a \in S THEN [Book[a] EXCEPT !.place = p] ELSE Book[a]
    BY <2>1 DEF Book
  <2>2. DOMAIN Book = DOMAIN log
    BY DEF Book
  <2>3. Book' = [a \in DOMAIN log |-> [ev |-> log'[a].ev, place |-> Place(a)']]
    BY DEF Book
  <2> HIDE DEF Book
  <2> QED BY <2>1, <2>2, <2>3
<1> QED BY <1>1 DEF Custody!Move, Book

\* A live row's envelope is on the shelf if that row is, and else in the inbox.
LEMMA PlaceOfRow ==
    ASSUME LogAgrees, NEW r \in Live(rows)
    PROVE  /\ rows[r].arr \in DOMAIN log
           /\ r \in Waiting(rows) => Place(rows[r].arr) = "inbox"
           /\ r \in Retained(rows) => Place(rows[r].arr) = "shelf"
<1>1. /\ rows[r].arr \in DOMAIN log /\ log[rows[r].arr].fate = "held"
      /\ \A s \in Live(rows) : rows[s].arr = rows[r].arr => s = r
  BY DEF LogAgrees, Live
<1>2. Waiting(rows) \cap Retained(rows) = {} /\ Retained(rows) \subseteq Live(rows)
  BY DEF Waiting, Retained
<1> QED BY <1>1, <1>2 DEF Place

LEMMA InboxIs ==
    ASSUME LogAgrees, NEW r \in Waiting(rows)
    PROVE  rows[r].arr \in Custody!At("inbox")
<1>1. r \in Live(rows)
  BY DEF Waiting
<1>2. rows[r].arr \in DOMAIN log /\ Place(rows[r].arr) = "inbox"
  BY <1>1, PlaceOfRow
<1> QED BY <1>2 DEF Custody!At

\* Settling a waiting row finishes its envelope.
LEMMA FinishIs ==
    ASSUME TypeOK, LogAgrees, NEW r \in Waiting(rows), NEW t, t = rows \/ t = SetCore(r, "done"),
           NEW why \in {"core_confirmed", "host_admitted"}, Settle(t, {r}, why), UNCHANGED acked
    PROVE  Custody!Finish
<1>0. IsTable(rows) /\ r \in DOMAIN rows /\ r \in Live(rows) /\ why \in Fates
  BY DEF TypeOK, TablesOK, IsTable, Waiting, Live, Fates
<1>1. /\ DOMAIN t = DOMAIN rows /\ Live(t) = Live(rows)
      /\ \A s \in DOMAIN t : t[s].arr = rows[s].arr /\ t[s].ev = rows[s].ev
      /\ \A s \in DOMAIN t : s # r => t[s] = rows[s]
  BY <1>0, EditBooks
<1>2. IsTable(t)
  BY <1>0, EditTables
<1>3. /\ Live(rows)' = Live(t) \ {r} /\ \A s \in Live(t) \ {r} : rows'[s] = t[s]
      /\ LogSettled(t, {r}, why)
  BY ZenonT(30), <1>0, <1>1, <1>2, SettleEffect
<1>4. \A s \in Live(rows) \ {r} : rows'[s] = rows[s]
  BY <1>1, <1>3 DEF Live
<1>5. Retained(rows)' = Retained(rows)
  BY <1>1, <1>3, <1>4 DEF Retained, Waiting
<1>6. \A a : Shelved(a)' = Shelved(a)
  BY <1>4, <1>5 DEF Shelved, Retained, Waiting
<1>7. DOMAIN log' = DOMAIN log /\ \A a \in DOMAIN log : log'[a].ev = log[a].ev
  BY <1>3 DEF LogSettled, TypeOK, TablesOK
<1>8. PICK b \in DOMAIN log : b = rows[r].arr /\ log'[b].fate = why
  BY <1>0, <1>1, <1>3, PlaceOfRow DEF LogSettled
<1>9. \A a \in DOMAIN log \ {b} : log'[a] = log[a]
  BY <1>0, <1>1, <1>3, <1>8 DEF LogSettled
<1>10. Place(b)' = "finished"
  BY <1>8 DEF Place
<1>11. \A a \in DOMAIN log \ {b} : Place(a)' = Place(a)
  BY <1>6, <1>9, PlaceKept
<1>12. Custody!Move({b}, "finished")
  BY <1>7, <1>10, <1>11, MoveIs
<1> QED BY <1>8, <1>12, InboxIs DEF Custody!Finish

\* Keeping a waiting row for the operator puts its envelope on the shelf.
LEMMA ShelveIs ==
    ASSUME TypeOK, LogAgrees, NEW r \in Waiting(rows), NEW d \in {"invalid", "extension"},
           UNCHANGED <<log, acked>>,
           \/ rows' = Retain(rows, r, d)
           \/ \E c \in {"done", "invalid"} : rows' = Retain(SetCore(r, c), r, d)
    PROVE  Custody!Shelve
<1>0. r \in DOMAIN rows /\ r \in Live(rows)
  BY DEF Waiting, Live
<1>1. /\ DOMAIN rows' = DOMAIN rows /\ Live(rows)' = Live(rows)
      /\ \A s \in DOMAIN rows' : rows'[s].arr = rows[s].arr /\ rows'[s].ev = rows[s].ev
      /\ \A s \in DOMAIN rows' : s # r => rows'[s] = rows[s]
  BY <1>0, EditBooks
<1>2. rows'[r].disp = d
  <2>1. rows[r] \in Row
    BY <1>0 DEF TypeOK, TablesOK
  <2>2. \A x \in Row : \A c : /\ [x EXCEPT !.disp = d].disp = d
                              /\ [[x EXCEPT !.core = c] EXCEPT !.disp = d].disp = d
    BY DEF Row
  <2> QED BY <1>0, <2>1, <2>2 DEF Retain, SetCore
<1>3. Retained(rows)' = Retained(rows) \cup {r}
  <2>1. \A s \in Live(rows) : s \in DOMAIN rows'
    BY <1>1 DEF Live
  <2> QED BY <1>0, <1>1, <1>2, <2>1 DEF Retained
<1>4. PICK b \in DOMAIN log : b = rows[r].arr /\ log[b].fate = "held"
  BY <1>0 DEF LogAgrees
<1>5. \A a \in DOMAIN log \ {b} : Shelved(a)' = Shelved(a)
  <2>1. \A s \in Retained(rows) : s \in DOMAIN rows
    BY DEF Retained, Live
  <2> QED BY <1>0, <1>1, <1>3, <1>4, <2>1 DEF Shelved
<1>6. \A a \in DOMAIN log \ {b} : Place(a)' = Place(a)
  BY <1>5, PlaceKept
<1>7. Place(b)' = "shelf"
  <2>1. \E s \in Retained(rows)' : rows'[s].arr = b
    BY <1>0, <1>1, <1>3, <1>4
  <2> QED BY <1>4, <2>1 DEF Place
<1>8. Custody!Move({b}, "shelf")
  BY <1>6, <1>7, MoveIs
<1> QED BY <1>4, <1>8, InboxIs DEF Custody!Shelve

\* A discard takes what the operator selected off the shelf.
LEMMA RemoveIs ==
    ASSUME TypeOK, LogAgrees, NEW selected \in SUBSET view, Discard(selected)
    PROVE  Custody!Remove
<1> DEFINE S == {item.receipt : item \in selected}
           A == {rows[r].arr : r \in S}
<1>1. S \subseteq Retained(rows) /\ Settle(rows, S, "operator_discard") /\ UNCHANGED acked
  BY DEF Discard, Matches
<1>2. IsTable(rows) /\ S \in SUBSET Live(rows) /\ "operator_discard" \in Fates
  BY <1>1 DEF Retained, TypeOK, TablesOK, IsTable, Fates
<1> HIDE DEF S
<1>3. /\ Live(rows)' = Live(rows) \ S
      /\ \A s \in Live(rows) \ S : rows'[s] = rows[s]
      /\ LogSettled(rows, S, "operator_discard")
  BY <1>1, <1>2, SettleEffect
<1>4. Retained(rows)' = Retained(rows) \ S
  BY <1>3 DEF Retained
<1>5. DOMAIN log' = DOMAIN log /\ \A a \in DOMAIN log : log'[a].ev = log[a].ev
  BY <1>3 DEF LogSettled, TypeOK, TablesOK
<1>6. \A a \in A : a \in DOMAIN log /\ Place(a) = "shelf" /\ log'[a].fate = "operator_discard"
  <2> SUFFICES ASSUME NEW r \in S
               PROVE  /\ rows[r].arr \in DOMAIN log /\ Place(rows[r].arr) = "shelf"
                      /\ log'[rows[r].arr].fate = "operator_discard"
    OBVIOUS
  <2>1. r \in Live(rows) /\ r \in Retained(rows)
    BY <1>1, <1>2
  <2>2. rows[r].arr \in DOMAIN log /\ Place(rows[r].arr) = "shelf"
    BY <2>1, PlaceOfRow
  <2> QED BY <1>3, <2>2 DEF LogSettled
<1>7. \A a \in DOMAIN log \ A : log'[a] = log[a] /\ \A r \in S : rows[r].arr # a
  BY <1>3 DEF LogSettled
<1>8. \A a \in DOMAIN log \ A : Shelved(a)' = Shelved(a)
  <2>1. \A r \in Retained(rows) \ S : rows'[r].arr = rows[r].arr
    BY <1>3 DEF Retained
  <2> QED BY <1>4, <1>7, <2>1 DEF Shelved
<1> HIDE DEF A
<1>9. \A a \in DOMAIN log \cap A : Place(a)' = "removed"
  BY <1>6 DEF Place
<1>10. \A a \in DOMAIN log \ A : Place(a)' = Place(a)
  BY <1>7, <1>8, PlaceKept
<1>11. Custody!Move(A, "removed")
  BY <1>1, <1>5, <1>9, <1>10, MoveIs
<1>12. A \in SUBSET Custody!At("shelf")
  BY <1>6 DEF Custody!At
<1> QED BY <1>11, <1>12 DEF Custody!Remove

\* A stored envelope is a new page of the book.
LEMMA TakeIs ==
    ASSUME TypeOK, LogAgrees, ConsumeNew, NEW e \in Events, e = Head(queue)
    PROVE  Custody!Take(e)
<1> DEFINE t == Expire(rows)
           new == [ev |-> Head(queue), arr |-> Len(log) + 1, live |-> TRUE,
                   disp |-> "pending", core |-> "pending", at |-> 0]
           entry == [ev |-> Head(queue), fate |-> "held"]
           page == [ev |-> Head(queue), place |-> "inbox"]
<1>1. PICK m \in 0 .. Len(log) :
        /\ IsLast(m, t)
        /\ rows' = [r \in DOMAIN t \cup {m + 1} |-> IF r = m + 1 THEN new ELSE t[r]]
  BY DEF ConsumeNew
<1>2. log' = Append(log, entry) /\ acked' = acked \cup {Head(queue)}
  BY DEF ConsumeNew
<1>3. /\ new.live /\ new.disp = "pending"
      /\ entry.fate = "held" /\ entry.ev = Head(queue)
  OBVIOUS
<1>4. /\ DOMAIN t \subseteq DOMAIN rows /\ Live(rows) \subseteq DOMAIN t
      /\ \A r \in DOMAIN t : t[r] = rows[r]
  BY ExpireKeeps
<1>5. Len(log) \in Nat /\ DOMAIN log = 1 .. Len(log) /\ DOMAIN rows \subseteq Nat
  BY DEF TypeOK, TablesOK
<1>6. m + 1 \notin DOMAIN t
  BY <1>1, <1>4, <1>5 DEF IsLast
<1>7. /\ DOMAIN log' = 1 .. (Len(log) + 1) /\ log'[Len(log) + 1] = entry
      /\ \A a \in DOMAIN log : log'[a] = log[a]
  BY <1>2, <1>5 DEF TypeOK, TablesOK
<1> HIDE DEF t, new, entry
<1>8. /\ DOMAIN rows' = DOMAIN t \cup {m + 1} /\ rows'[m + 1] = new
      /\ \A r \in DOMAIN t : rows'[r] = rows[r]
  BY <1>1, <1>4, <1>6
<1>9. Retained(rows)' = Retained(rows) /\ \A r \in Retained(rows) : rows'[r] = rows[r]
  <2>1. \A r \in Retained(rows)' : r # m + 1
    BY <1>3, <1>8 DEF Retained
  <2>2. \A r \in Retained(rows)' : r \in Retained(rows)
    BY <1>4, <1>8, <2>1 DEF Retained, Live
  <2>3. \A r \in Retained(rows) : r \in DOMAIN t /\ rows'[r] = rows[r] /\ r \in DOMAIN rows'
    BY <1>4, <1>8 DEF Retained
  <2>4. \A r \in Retained(rows) : r \in Retained(rows)'
    BY <2>3 DEF Retained, Live
  <2> QED BY <2>2, <2>3, <2>4
<1>10. \A a : Shelved(a)' = Shelved(a)
  BY <1>9 DEF Shelved
<1>11. \A a \in DOMAIN log : Place(a)' = Place(a)
  BY <1>7, <1>10, PlaceKept
<1>12. PICK n \in Nat : n = Len(log) + 1
  BY <1>5
<1>13. Place(n)' = "inbox"
  <2>1. log'[n].fate = "held"
    BY <1>3, <1>7, <1>12
  <2>2. ~Shelved(n)
    <3>1. n \notin DOMAIN log
      BY <1>5, <1>12
    <3> QED BY <3>1 DEF Shelved, Retained, Live, LogAgrees
  <2>3. ~\E r \in Retained(rows)' : rows'[r].arr = n
    BY <1>9, <2>2 DEF Shelved
  <2> QED BY <2>1, <2>3 DEF Place
<1>14. PICK x : x = page
  OBVIOUS
<1>15. Book' = Append(Book, x)
  <2> DEFINE Page == [ev : Events, place : {"inbox", "shelf", "finished", "removed"}]
  <2>1. \A a \in DOMAIN log : log[a].ev \in Events
    <3>1. \A a \in 1 .. Len(log) : log[a] \in Envelope
      BY <1>5 DEF TypeOK, TablesOK
    <3> QED BY <1>5, <3>1 DEF Envelope
  <2>2. \A a : Place(a) \in {"inbox", "shelf", "finished", "removed"}
    BY DEF Place
  <2>3. Book \in [1 .. Len(log) -> Page]
    BY <1>5, <2>1, <2>2 DEF Book
  <2>4. x \in Page /\ x.ev = Head(queue) /\ x.place = "inbox"
    BY <1>14 DEF TypeOK, MemoryOK, ConsumeNew
  <2>5. \A a \in DOMAIN log : Book[a] = [ev |-> log[a].ev, place |-> Place(a)]
    BY DEF Book
  <2>6. Book' = [a \in 1 .. n |-> [ev |-> log'[a].ev, place |-> Place(a)']]
    BY <1>7, <1>12 DEF Book
  <2> HIDE DEF Page
  <2>7. Book \in Seq(Page) /\ Len(Book) = Len(log)
    BY <1>5, <2>3
  <2>8. /\ Append(Book, x) \in Seq(Page) /\ Len(Append(Book, x)) = n
        /\ \A a \in 1 .. Len(log) : Append(Book, x)[a] = Book[a]
        /\ Append(Book, x)[n] = x
    BY <1>12, <2>4, <2>7, AppendProperties
  <2>9. ASSUME NEW a \in 1 .. n
        PROVE  [ev |-> log'[a].ev, place |-> Place(a)'] = Append(Book, x)[a]
    <3>1. CASE a = n
      <4>1. log'[a].ev = Head(queue) /\ Place(a)' = "inbox"
        BY <1>3, <1>7, <1>12, <1>13, <3>1
      <4>2. [ev |-> log'[a].ev, place |-> Place(a)'] = page
        BY <4>1
      <4> QED BY <1>14, <2>8, <3>1, <4>2
    <3>2. CASE a # n
      <4>1. a \in DOMAIN log
        BY <1>5, <1>12, <3>2
      <4>2. log'[a].ev = log[a].ev /\ Place(a)' = Place(a)
        BY <1>7, <1>11, <4>1
      <4> QED BY <1>5, <2>5, <2>8, <4>1, <4>2
    <3> QED BY <3>1, <3>2
  <2>10. Append(Book, x) = [a \in 1 .. n |-> Append(Book, x)[a]]
    <3>1. Append(Book, x) \in [1 .. n -> Page]
      BY <2>8, LenProperties
    <3> QED BY <3>1
  <2> QED BY <2>6, <2>9, <2>10
<1>16. acked' = acked \cup {Head(queue)}
  BY <1>2
<1> QED BY <1>14, <1>15, <1>16 DEF Custody!Take, Book

LEMMA CustodyInit == Init => Custody!Init
<1> SUFFICES ASSUME Init PROVE Custody!Init
  OBVIOUS
<1>1. log = << >> /\ acked = {}
  BY DEF Init
<1>2. Book = << >>
  BY <1>1 DEF Book
<1> QED BY <1>1, <1>2 DEF Custody!Init, Book

LEMMA CustodyStep ==
    ASSUME TypeOK, LogAgrees, [Next]_vars
    PROVE  Custody!Next \/ UNCHANGED <<Book, acked>>
<1>a. UNCHANGED <<rows, log, acked>> => UNCHANGED <<Book, acked>>
  BY BookKept DEF Retained, Live
<1>1. CASE \/ UNCHANGED vars \/ \E e \in Events : Offer(e)
           \/ ConsumeRefused
           \/ \E e \in intake : IntakeDone(e)
           \/ HostDone \/ Inspect \/ Tick \/ Reload
  BY <1>a, <1>1 DEF vars, Offer, ConsumeRefused, IntakeDone, HostDone, Inspect, Tick, Reload,
                    durable, history
<1>2. CASE ConsumeDuplicate
  <2>1. /\ rows' = Expire(rows) /\ UNCHANGED log /\ acked' = acked \cup {Head(queue)}
        /\ queue # << >> /\ \E r \in DOMAIN rows : rows[r].ev = Head(queue)
    BY <1>2, ExpireKeeps DEF ConsumeDuplicate, Duplicate
  <2>2. /\ Retained(rows)' = Retained(rows)
        /\ \A r \in Retained(rows) : rows'[r] = rows[r]
    BY <2>1, ExpireKeeps DEF Retained, Live
  <2>3. \A a : Shelved(a)' = Shelved(a)
    BY <2>2 DEF Shelved
  <2>4. \A a \in DOMAIN log : Place(a)' = Place(a)
    BY <2>1, <2>3, PlaceKept
  <2>5. UNCHANGED Book
    BY <2>1, <2>4 DEF Book
  <2>6. Head(queue) \in Events
    BY <2>1 DEF TypeOK, MemoryOK
  <2>7. Head(queue) \in Custody!Booked
    BY <2>1 DEF LogAgrees, Custody!Booked
  <2>8. Custody!Again(Head(queue))
    BY <2>1, <2>5, <2>7 DEF Custody!Again, Book
  <2> QED BY <2>6, <2>8 DEF Custody!Next
<1>3. CASE ConsumeNew
  <2>1. PICK e \in Events : e = Head(queue)
    BY <1>3 DEF ConsumeNew, TypeOK, MemoryOK
  <2>2. Custody!Take(e)
    BY <1>3, <2>1, TakeIs
  <2> QED BY <2>2 DEF Custody!Next
<1>4. ASSUME NEW r \in DOMAIN rows,
             CoreFinish(r) \/ CoreNotice(r) \/ ChatConfirm(r) \/ ChatDeliver(r)
      PROVE  Custody!Next
  <2>1. r \in Waiting(rows) /\ UNCHANGED acked
    BY <1>4, CoreTaken DEF CoreFinish, Completed, Before, CoreNotice, ChatConfirm, ChatDeliver,
                           ChatTakes, Oldest, ChatPending, coreFrame
  <2>2. \/ Settle(rows, {r}, "core_confirmed") \/ Settle(SetCore(r, "done"), {r}, "core_confirmed")
        \/ Settle(rows, {r}, "host_admitted")
    BY <1>4 DEF CoreFinish, CoreNotice, ChatConfirm, ChatDeliver
  <2> QED BY <2>1, <2>2, FinishIs DEF Custody!Next
<1>5. ASSUME NEW r \in DOMAIN rows, CoreQuarantine(r) \/ CoreUnknown(r) PROVE Custody!Next
  <2>1. r \in Waiting(rows) /\ UNCHANGED <<log, acked>>
    BY <1>5, CoreTaken DEF CoreQuarantine, CoreUnknown, coreFrame
  <2>2. \/ rows' = Retain(SetCore(r, "invalid"), r, "invalid")
        \/ rows' = Retain(rows, r, "invalid")
        \/ rows' = Retain(SetCore(r, "done"), r, "extension")
    BY <1>5 DEF CoreQuarantine, CoreUnknown
  <2> QED BY <2>1, <2>2, ShelveIs DEF Custody!Next
<1>6. ASSUME NEW r \in DOMAIN rows, CoreChat(r) \/ CoreFault(r) PROVE UNCHANGED <<Book, acked>>
  <2>1. CoreTakes(r) /\ UNCHANGED <<log, acked>> /\ (UNCHANGED rows \/ rows' = SetCore(r, "done"))
    BY <1>6 DEF CoreChat, CoreFault, coreFrame
  <2>2. CASE rows' = SetCore(r, "done")
    <3>1. /\ DOMAIN rows' = DOMAIN rows /\ Live(rows)' = Live(rows)
          /\ \A s \in DOMAIN rows' : rows'[s].arr = rows[s].arr
          /\ \A s \in DOMAIN rows' : s # r => rows'[s] = rows[s]
      BY <2>2, EditBooks
    <3>2. rows'[r].disp = rows[r].disp
      BY <2>2 DEF SetCore, TypeOK, TablesOK, Row
    <3>3. Retained(rows)' = Retained(rows)
      BY <3>1, <3>2 DEF Retained, Live
    <3> QED BY <2>1, <3>1, <3>3, BookKept DEF Retained, Live
  <2> QED BY <1>a, <2>1, <2>2
<1>7. ASSUME NEW r \in DOMAIN rows, ChatFault(r) PROVE UNCHANGED <<Book, acked>>
  BY <1>a, <1>7 DEF ChatFault
<1>8. ASSUME NEW selected \in SUBSET view, Discard(selected) PROVE Custody!Next
  BY <1>8, RemoveIs DEF Custody!Next
<1>9. CASE Crash
  <2>1. rows' = PruneDelivered(rows) /\ UNCHANGED <<log, acked>>
    BY <1>9 DEF Crash
  <2>2. /\ Retained(rows)' = Retained(rows)
        /\ \A r \in Retained(rows) : rows'[r].arr = rows[r].arr
    BY <2>1, PruneKeeps DEF Retained, Live
  <2> QED BY <2>1, <2>2, BookKept
<1> QED BY <1>1, <1>2, <1>3, <1>4, <1>5, <1>6, <1>7, <1>8, <1>9 DEF Next

\* The inbox implements EnvelopeCustody: a receipt is given only for what is
\* or was in custody, an envelope is finished once and from the inbox, and
\* one that was shelved leaves by the operator's hand only.
THEOREM CustodyIsKept == Spec => KeepsCustody
<1> DEFINE I == TypeOK /\ LogAgrees
<1>1. Init => I /\ Custody!Init
  BY InitType, InitLogAgrees, CustodyInit
<1>2. I /\ [Next]_vars => I'
  BY TypeStep, LogAgreesStep
<1>3. I /\ [Next]_vars =>
         [Custody!Next]_<<[a \in DOMAIN log |-> [ev |-> log[a].ev, place |-> Place(a)]], acked>>
  BY CustodyStep DEF Book
<1> HIDE DEF I
<1> QED BY <1>1, <1>2, <1>3, PTL DEF Spec, KeepsCustody, Custody!Spec

-----------------------------------------------------------------------------
(* Bindings.                                                                *)

\* All columns have their types.  Failures are counted up to MaxFailures.
States == Bind!Active \cup {"none", "gone", "configured", "cancelled", "expired", "failed"}
Shaped ==
    /\ memory \in [Connections -> Bind!Contents] /\ disk \in [Connections -> Bind!Contents]
    /\ state \in [Bindings -> States]
    /\ task \in [Bindings -> Bind!Awaits \cup {"none", "done"}] /\ hit \in [Bindings -> BOOLEAN]
    /\ target \in [Bindings -> Connections \cup {NoTarget}] /\ print \in [Bindings -> Bind!Contents]
    /\ holds \in [Bindings -> SUBSET {"key", "credential"}]
    /\ failures \in [Bindings -> 0 .. MaxFailures]
    /\ committed \in [Bindings -> BOOLEAN] /\ writes \in [Bindings -> {0, 1}]

\* A binding is under way as long as its worker waits uncancelled.  No worker
\* outlives its binding but to wake up cancelled, so none can change a verdict.
Standing(b) ==
    /\ state[b] \in Bind!Active <=> task[b] \in Bind!Awaits /\ ~hit[b]
    /\ hit[b] => task[b] \in Bind!Awaits
    /\ state[b] = "none" => task[b] = "none"
    /\ state[b] = "gone" => Bind!Idle(b)
    /\ state[b] \notin Bind!Active => holds[b] = {}
    /\ committed[b] <=> writes[b] = 1
    /\ state[b] = "configured" => committed[b]
    /\ committed[b] => state[b] \in {"configured", "gone"}

BindInv == Shaped /\ Bind!OneLease /\ \A b \in Bindings : Standing(b)

-----------------------------------------------------------------------------
(* A step of one binding.                                                  *)

\* The step is about b: the others stay as they are, and b does not come to life.
Elsewhere(b) ==
    /\ \A x \in Bindings \ {b} :
          /\ state'[x] = state[x] /\ task'[x] = task[x] /\ hit'[x] = hit[x]
          /\ holds'[x] = holds[x] /\ committed'[x] = committed[x] /\ writes'[x] = writes[x]
    /\ UNCHANGED target
    /\ state'[b] \in Bind!Active => state[b] \in Bind!Active

LEMMA OneMoves ==
    ASSUME BindInv, NEW b \in Bindings, Shaped', Elsewhere(b), Standing(b)'
    PROVE  BindInv'
<1>1. Bind!OneLease'
  BY DEF BindInv, Bind!OneLease, Elsewhere
<1>2. \A x \in Bindings : Standing(x)'
  BY DEF BindInv, Standing, Elsewhere, Bind!Idle
<1> QED BY <1>1, <1>2 DEF BindInv

\* What is said of a binding stays true when its time, its lease or the host's
\* configuration change.
LEMMA Unmoved ==
    ASSUME BindInv, Shaped', UNCHANGED <<state, target, holds, committed, task, hit, writes>>
    PROVE  BindInv'
BY DEF BindInv, Bind!OneLease, Standing, Bind!Idle

\* Bindings that end keep the types of the columns.
LEMMA EndTyped ==
    ASSUME BindInv, NEW B \in SUBSET Bindings, NEW s \in States, Bind!End(B, s)
    PROVE  /\ state' \in [Bindings -> States] /\ hit' \in [Bindings -> BOOLEAN]
           /\ holds' \in [Bindings -> SUBSET {"key", "credential"}]
<1>1. state' \in [Bindings -> States] /\ holds' \in [Bindings -> SUBSET {"key", "credential"}]
  BY DEF Bind!End, BindInv, Shaped
<1>2. \A x \in Bindings : hit[x] \in BOOLEAN
  BY DEF BindInv, Shaped
<1>3. ASSUME NEW x \in Bindings PROVE (IF x \in B THEN task[x] \in Bind!Awaits ELSE hit[x]) \in BOOLEAN
  <2>1. CASE x \in B
    <3>1. (IF x \in B THEN task[x] \in Bind!Awaits ELSE hit[x]) = (task[x] \in Bind!Awaits)
      BY Zenon, <2>1
    <3>2. (task[x] \in Bind!Awaits) \in BOOLEAN
      OBVIOUS
    <3> QED BY Zenon, <3>1, <3>2
  <2>2. CASE x \notin B
    BY Zenon, <1>2, <2>2
  <2> QED BY <2>1, <2>2
<1>4. hit' = [x \in Bindings |-> IF x \in B THEN task[x] \in Bind!Awaits ELSE hit[x]]
  BY DEF Bind!End
<1>5. hit' \in [Bindings -> BOOLEAN]
  BY <1>3, <1>4
<1> QED BY <1>1, <1>5

\* A binding ends by a look, a cancellation or a commit.
LEMMA EndKeeps ==
    ASSUME BindInv, NEW b \in Bindings, NEW s \in {"cancelled", "expired"}, Bind!End({b}, s),
           state[b] \notin {"none", "gone", "configured"},
           UNCHANGED <<Bind!hostVars, target, print, committed, task, failures, writes>>
    PROVE  BindInv'
<1>1. Shaped'
  <2>1. s \in States
    BY DEF States
  <2> QED BY <2>1, EndTyped DEF BindInv, Shaped, Bind!hostVars
<1>2. /\ state'[b] = s /\ holds'[b] = {} /\ hit'[b] = (task[b] \in Bind!Awaits)
      /\ \A x \in Bindings \ {b} : state'[x] = state[x] /\ holds'[x] = holds[x] /\ hit'[x] = hit[x]
  BY DEF Bind!End
<1>3. Elsewhere(b)
  BY <1>2 DEF Elsewhere, Bind!Active
<1>4. Standing(b)'
  BY <1>2 DEF BindInv, Standing, Bind!Active, Bind!Idle
<1> QED BY <1>1, <1>3, <1>4, OneMoves

LEMMA CommitKeeps == ASSUME BindInv, NEW b \in Bindings, Bind!Commit(b) PROVE BindInv'
<1>1. /\ state[b] = "ready_to_commit" /\ ~committed[b] /\ writes[b] \in {0, 1}
      /\ committed' = [committed EXCEPT ![b] = TRUE] /\ writes' = [writes EXCEPT ![b] = @ + 1]
      /\ memory' = [memory EXCEPT ![target[b]] = b] /\ disk' = [disk EXCEPT ![target[b]] = b]
      /\ Bind!End({b}, "configured") /\ UNCHANGED <<target, print, task, failures>>
  BY DEF Bind!Commit, Bind!MayCommit, BindInv, Shaped
<1>2. writes[b] = 0
  BY <1>1 DEF BindInv, Standing
<1>3. Shaped'
  <2>1. /\ state' \in [Bindings -> States] /\ holds' \in [Bindings -> SUBSET {"key", "credential"}]
        /\ hit' \in [Bindings -> BOOLEAN]
    BY <1>1, EndTyped DEF States
  <2>2. /\ memory' \in [Connections -> Bind!Contents] /\ disk' \in [Connections -> Bind!Contents]
        /\ committed' \in [Bindings -> BOOLEAN]
    BY <1>1 DEF BindInv, Shaped, Bind!Contents
  <2>3. writes' \in [Bindings -> {0, 1}]
    BY <1>1, <1>2 DEF BindInv, Shaped
  <2> QED BY <1>1, <2>1, <2>2, <2>3 DEF BindInv, Shaped
<1>4. /\ state'[b] = "configured" /\ holds'[b] = {} /\ hit'[b] = (task[b] \in Bind!Awaits)
      /\ committed'[b] /\ writes'[b] = 1
      /\ \A x \in Bindings \ {b} : /\ state'[x] = state[x] /\ holds'[x] = holds[x] /\ hit'[x] = hit[x]
                                  /\ committed'[x] = committed[x] /\ writes'[x] = writes[x]
  BY <1>1, <1>2 DEF Bind!End, BindInv, Shaped
<1>5. Elsewhere(b)
  BY <1>1, <1>4 DEF Elsewhere, Bind!Active
<1>6. Standing(b)'
  BY <1>1, <1>4 DEF BindInv, Standing, Bind!Active, Bind!Idle
<1> QED BY <1>3, <1>5, <1>6, OneMoves

\* The administration closes: all that is under way is cancelled.
LEMMA CloseKeeps == ASSUME BindInv, Bind!Close PROVE BindInv'
<1>1. Shaped'
  BY DEF Bind!Close, BindInv, Shaped, States, Bind!hostVars
<1>2. \A b \in Bindings : /\ state'[b] = IF state[b] \in Bind!Active THEN "cancelled" ELSE state[b]
                         /\ holds'[b] = {} /\ hit'[b] = (task[b] \in Bind!Awaits)
  BY DEF Bind!Close
<1>3. UNCHANGED <<target, committed, task, writes>>
  BY DEF Bind!Close
<1>4. ASSUME NEW b \in Bindings PROVE Standing(b)'
  BY <1>2, <1>3 DEF BindInv, Standing, Bind!Active, Bind!Idle
<1>5. Bind!OneLease'
  BY <1>2, <1>3 DEF Bind!OneLease, Bind!Active
<1> QED BY <1>1, <1>4, <1>5 DEF BindInv

-----------------------------------------------------------------------------
(* A binding starts.                                                       *)

LEMMA StartKeeps == ASSUME BindInv, NEW b \in Bindings, NEW t \in Connections, Bind!Start(b, t) PROVE BindInv'
<1> DEFINE swept == Bind!Kept \ Bind!Dropped
           active == {x \in swept : state[x] \in Bind!Active /\ x \notin Bind!Stale}
           taken == \E x \in active : target[x] = t
<1>1. PICK gone \in SUBSET Bindings, starts \in BOOLEAN :
        /\ Bind!Dropped \subseteq gone /\ \A x \in gone : x \in Bind!Kept /\ Bind!Idle(x)
        /\ starts => ~taken
        /\ state' = [x \in Bindings |->
                       IF x = b /\ starts THEN "creating" ELSE IF x \in gone THEN "gone"
                       ELSE IF x \in Bind!Stale THEN "expired" ELSE state[x]]
        /\ holds' = [x \in Bindings |-> IF x = b /\ starts THEN {"key"}
                                       ELSE IF x \in gone \cup Bind!Stale THEN {} ELSE holds[x]]
        /\ hit' = [x \in Bindings |-> hit[x] \/ (x \in Bind!Stale /\ ~Bind!Idle(x))]
        /\ task' = IF starts THEN [task EXCEPT ![b] = "start"] ELSE task
        /\ target' = IF starts THEN [target EXCEPT ![b] = t] ELSE target
        /\ print' = IF starts THEN [print EXCEPT ![b] = memory[t]] ELSE print
  <2> DEFINE failed == {x \in swept \ Bind!Stale : state[x] \in {"cancelled", "failed", "expired"} /\ Bind!Idle(x)}
  <2>1. PICK r \in {{x} : x \in failed} \cup {{}} :
          LET gone == Bind!Dropped \cup (IF taken THEN {} ELSE r)
              starts == ~taken /\ Bind!Cardinality(swept \ r) < MaxKept
                        /\ Bind!Cardinality(active) < MaxActive
          IN /\ state' = [x \in Bindings |->
                            IF x = b /\ starts THEN "creating" ELSE IF x \in gone THEN "gone"
                            ELSE IF x \in Bind!Stale THEN "expired" ELSE state[x]]
             /\ holds' = [x \in Bindings |-> IF x = b /\ starts THEN {"key"}
                                            ELSE IF x \in gone \cup Bind!Stale THEN {} ELSE holds[x]]
             /\ hit' = [x \in Bindings |-> hit[x] \/ (x \in Bind!Stale /\ ~Bind!Idle(x))]
             /\ task' = IF starts THEN [task EXCEPT ![b] = "start"] ELSE task
             /\ target' = IF starts THEN [target EXCEPT ![b] = t] ELSE target
             /\ print' = IF starts THEN [print EXCEPT ![b] = memory[t]] ELSE print
    BY DEF Bind!Start
  <2>2. \A x \in r : x \in Bind!Kept /\ Bind!Idle(x)
    OBVIOUS
  <2>3. Bind!Dropped \subseteq Bind!Kept /\ Bind!Kept \subseteq Bindings /\ \A x \in Bind!Dropped : Bind!Idle(x)
    BY DEF Bind!Dropped, Bind!Kept
  <2> DEFINE g == Bind!Dropped \cup (IF taken THEN {} ELSE r)
             s == ~taken /\ Bind!Cardinality(swept \ r) < MaxKept /\ Bind!Cardinality(active) < MaxActive
  <2>4. g \in SUBSET Bindings /\ Bind!Dropped \subseteq g /\ \A x \in g : x \in Bind!Kept /\ Bind!Idle(x)
    BY <2>2, <2>3
  <2>5. s \in BOOLEAN /\ (s => ~taken)
    OBVIOUS
  <2>6. /\ state' = [x \in Bindings |->
                       IF x = b /\ s THEN "creating" ELSE IF x \in g THEN "gone"
                       ELSE IF x \in Bind!Stale THEN "expired" ELSE state[x]]
        /\ holds' = [x \in Bindings |-> IF x = b /\ s THEN {"key"}
                                       ELSE IF x \in g \cup Bind!Stale THEN {} ELSE holds[x]]
        /\ hit' = [x \in Bindings |-> hit[x] \/ (x \in Bind!Stale /\ ~Bind!Idle(x))]
        /\ task' = IF s THEN [task EXCEPT ![b] = "start"] ELSE task
        /\ target' = IF s THEN [target EXCEPT ![b] = t] ELSE target
        /\ print' = IF s THEN [print EXCEPT ![b] = memory[t]] ELSE print
    BY <2>1
  <2> HIDE DEF g, s, taken
  <2> QED BY <2>4, <2>5, <2>6
<1>2. state[b] = "none" /\ UNCHANGED <<Bind!hostVars, committed, failures, writes>>
  BY DEF Bind!Start
<1>3. /\ Bind!Kept = {x \in Bindings : state[x] \notin {"none", "gone"}}
      /\ Bind!Stale \subseteq {x \in Bind!Kept : state[x] \in Bind!Active} /\ "none" \notin Bind!Active
  BY DEF Bind!Kept, Bind!Stale, Bind!Active
<1>4. Shaped'
  <2>1. memory[t] \in Bind!Contents
    BY DEF BindInv, Shaped
  <2>2. /\ state' \in [Bindings -> States] /\ holds' \in [Bindings -> SUBSET {"key", "credential"}]
        /\ hit' \in [Bindings -> BOOLEAN]
    BY <1>1 DEF BindInv, Shaped, States, Bind!Active
  <2>3. /\ task' \in [Bindings -> Bind!Awaits \cup {"none", "done"}]
        /\ target' \in [Bindings -> Connections \cup {NoTarget}] /\ print' \in [Bindings -> Bind!Contents]
    BY <1>1, <2>1 DEF BindInv, Shaped, Bind!Awaits
  <2> QED BY <1>2, <2>2, <2>3 DEF BindInv, Shaped, Bind!hostVars
<1>5. ASSUME NEW x \in Bindings PROVE Standing(x)'
  <2>1. CASE x = b /\ starts
    <3>1. state'[b] = "creating" /\ task'[b] = "start" /\ hit'[b] = hit[b]
      BY <1>1, <1>2, <1>3, <2>1 DEF BindInv, Shaped
    <3> QED BY <1>2, <2>1, <3>1 DEF BindInv, Standing, Bind!Active, Bind!Awaits
  <2>2. CASE ~(x = b /\ starts)
    <3>1. task'[x] = task[x] /\ committed'[x] = committed[x] /\ writes'[x] = writes[x]
      BY <1>1, <1>2, <2>2 DEF BindInv, Shaped
    <3>2. CASE x \in gone
      <4>1. state'[x] = "gone" /\ holds'[x] = {} /\ Bind!Idle(x) /\ x \in Bind!Kept
        BY <1>1, <2>2, <3>2
      <4>2. hit'[x] <=> hit[x]
        <5>1. hit'[x] = (hit[x] \/ (x \in Bind!Stale /\ ~Bind!Idle(x)))
          BY <1>1
        <5> QED BY <4>1, <5>1
      <4> QED BY <3>1, <4>1, <4>2 DEF BindInv, Standing, Bind!Idle, Bind!Active
    <3>3. CASE x \notin gone /\ x \in Bind!Stale
      <4>1. state'[x] = "expired" /\ holds'[x] = {} /\ state[x] \in Bind!Active
            /\ hit'[x] = (hit[x] \/ ~Bind!Idle(x))
        BY <1>1, <1>3, <2>2, <3>3
      <4> QED BY <3>1, <4>1 DEF BindInv, Standing, Bind!Idle, Bind!Active
    <3>4. CASE x \notin gone /\ x \notin Bind!Stale
      <4>1. state'[x] = state[x] /\ holds'[x] = holds[x]
            /\ hit'[x] = (hit[x] \/ (x \in Bind!Stale /\ ~Bind!Idle(x)))
        BY <1>1, <2>2, <3>4
      <4>2. hit'[x] <=> hit[x]
        BY <3>4, <4>1
      <4> QED BY <3>1, <4>1, <4>2 DEF BindInv, Standing, Bind!Idle
    <3> QED BY <3>2, <3>3, <3>4
  <2> QED BY <2>1, <2>2
<1>6. Bind!OneLease'
  <2>1. \A x \in Bindings : state'[x] \in Bind!Active /\ ~(x = b /\ starts) =>
           state[x] \in Bind!Active /\ x \in active /\ target'[x] = target[x]
    <3> SUFFICES ASSUME NEW x \in Bindings, state'[x] \in Bind!Active, ~(x = b /\ starts)
                 PROVE  state[x] \in Bind!Active /\ x \in active /\ target'[x] = target[x]
      OBVIOUS
    <3>1. state'[x] = state[x] /\ x \notin gone /\ x \notin Bind!Stale
      BY <1>1 DEF Bind!Active
    <3>2. x \in Bind!Kept /\ x \notin Bind!Dropped
      BY <1>1, <1>3, <3>1 DEF Bind!Active
    <3>3. target'[x] = target[x]
      BY <1>1 DEF BindInv, Shaped
    <3> QED BY <3>1, <3>2, <3>3
  <2>2. starts => target'[b] = t
    BY <1>1 DEF BindInv, Shaped
  <2>3. starts => \A x \in active : target[x] # t
    BY <1>1
  <2> HIDE DEF active
  <2> QED BY <2>1, <2>2, <2>3 DEF BindInv, Bind!OneLease
<1> QED BY <1>4, <1>5, <1>6 DEF BindInv

-----------------------------------------------------------------------------
(* The worker.                                                             *)

\* A worker that is awake works for a binding under way.
LEMMA Awake == ASSUME BindInv, NEW b \in Bindings, NEW w \in Bind!Awaits, Bind!At(b, w) PROVE state[b] \in Bind!Active
BY DEF Bind!At, BindInv, Standing

\* It goes on to its next await ...
LEMMA WaitsAgain ==
    ASSUME BindInv, NEW b \in Bindings, state[b] \in Bind!Active, NEW w \in Bind!Awaits, NEW s \in Bind!Active,
           Bind!Worker(b, w, s), Bind!KeepRest(b), NEW h \in SUBSET {"key", "credential"},
           holds' \in {holds, [holds EXCEPT ![b] = h]}, failures' \in [Bindings -> 0 .. MaxFailures]
    PROVE  BindInv'
<1>1. /\ task' = [task EXCEPT ![b] = w] /\ state' = [state EXCEPT ![b] = s]
      /\ UNCHANGED <<memory, disk, target, print, committed, hit, writes>>
  BY DEF Bind!Worker, Bind!KeepRest, Bind!hostVars
<1>2. Shaped'
  BY <1>1 DEF BindInv, Shaped, States
<1>3. /\ state'[b] = s /\ task'[b] = w /\ hit'[b] = hit[b]
      /\ committed'[b] = committed[b] /\ writes'[b] = writes[b]
      /\ \A x \in Bindings \ {b} : /\ state'[x] = state[x] /\ task'[x] = task[x] /\ hit'[x] = hit[x]
                                  /\ holds'[x] = holds[x]
                                  /\ committed'[x] = committed[x] /\ writes'[x] = writes[x]
  BY <1>1 DEF BindInv, Shaped
<1>4. Elsewhere(b)
  BY <1>1, <1>3 DEF Elsewhere
<1>5. Standing(b)'
  BY <1>3 DEF BindInv, Standing, Bind!Active, Bind!Idle
<1> QED BY <1>2, <1>4, <1>5, OneMoves

\* ... or fails, and its binding with it.
LEMMA FailKeeps ==
    ASSUME BindInv, NEW b \in Bindings, state[b] \in Bind!Active, NEW s \in {"failed", "expired"}, Bind!Fails(b, s)
    PROVE  BindInv'
<1>1. /\ task' = [task EXCEPT ![b] = "done"] /\ state' = [state EXCEPT ![b] = s]
      /\ holds' = [holds EXCEPT ![b] = {}]
      /\ UNCHANGED <<memory, disk, target, print, committed, hit, writes, failures>>
  BY DEF Bind!Fails, Bind!Worker, Bind!KeepRest, Bind!hostVars
<1>2. Shaped'
  BY <1>1 DEF BindInv, Shaped, States
<1>3. /\ state'[b] = s /\ task'[b] = "done" /\ hit'[b] = hit[b] /\ holds'[b] = {}
      /\ committed'[b] = committed[b] /\ writes'[b] = writes[b]
      /\ \A x \in Bindings \ {b} : /\ state'[x] = state[x] /\ task'[x] = task[x] /\ hit'[x] = hit[x]
                                  /\ holds'[x] = holds[x]
                                  /\ committed'[x] = committed[x] /\ writes'[x] = writes[x]
  BY <1>1 DEF BindInv, Shaped
<1>4. Elsewhere(b)
  BY <1>1, <1>3 DEF Elsewhere, Bind!Active
<1>5. Standing(b)'
  BY <1>3 DEF BindInv, Standing, Bind!Active, Bind!Idle, Bind!Awaits
<1> QED BY <1>2, <1>4, <1>5, OneMoves

LEMMA GoKeeps ==
    ASSUME BindInv, NEW b \in Bindings, state[b] \in Bind!Active, NEW w \in Bind!Awaits, NEW s \in Bind!Active,
           Bind!Goes(b, w, s),
           failures' \in [Bindings -> 0 .. MaxFailures] /\ (Bind!Check(b) # "ok" => UNCHANGED failures)
    PROVE  BindInv'
<1>1. CASE Bind!Check(b) = "ok"
  BY <1>1, WaitsAgain DEF Bind!Goes
<1>2. CASE Bind!Check(b) # "ok"
  <2>1. Bind!Verdict(Bind!Check(b)) \in {"failed", "expired"}
    BY DEF Bind!Verdict
  <2>2. Bind!Fails(b, Bind!Verdict(Bind!Check(b)))
    BY <1>2 DEF Bind!Goes
  <2> QED BY <2>1, <2>2, FailKeeps
<1> QED BY <1>1, <1>2

LEMMA CancelledKeeps == ASSUME BindInv, NEW b \in Bindings, Bind!Cancelled(b) PROVE BindInv'
<1>1. /\ hit[b] /\ task[b] \in Bind!Awaits
      /\ task' = [task EXCEPT ![b] = "done"] /\ hit' = [hit EXCEPT ![b] = FALSE]
      /\ state' \in {state, [state EXCEPT ![b] = IF @ \in Bind!Active THEN "cancelled" ELSE @]}
      /\ holds' \in {holds, [holds EXCEPT ![b] = {}]}
      /\ UNCHANGED <<memory, disk, target, print, committed, failures, writes>>
  BY DEF Bind!Cancelled, Bind!hostVars
<1>2. state[b] \notin Bind!Active /\ state[b] # "none"
  BY <1>1 DEF BindInv, Standing, Bind!Awaits
<1>3. Shaped'
  BY <1>1, <1>2 DEF BindInv, Shaped
<1>4. /\ state'[b] = state[b] /\ task'[b] = "done" /\ ~hit'[b] /\ holds'[b] = {}
      /\ committed'[b] = committed[b] /\ writes'[b] = writes[b]
      /\ \A x \in Bindings \ {b} : /\ state'[x] = state[x] /\ task'[x] = task[x] /\ hit'[x] = hit[x]
                                  /\ holds'[x] = holds[x]
                                  /\ committed'[x] = committed[x] /\ writes'[x] = writes[x]
  BY <1>1, <1>2 DEF BindInv, Shaped, Standing
<1>5. Elsewhere(b)
  BY <1>1, <1>2, <1>4 DEF Elsewhere
<1>6. Standing(b)'
  BY <1>2, <1>4 DEF BindInv, Standing, Bind!Idle, Bind!Awaits
<1> QED BY <1>3, <1>5, <1>6, OneMoves

LEMMA WorkKeeps == ASSUME MaxFailures \in Nat, BindInv, NEW b \in Bindings, Bind!Work(b) PROVE BindInv'
<1> DEFINE Counted == failures' \in [Bindings -> 0 .. MaxFailures]
<1>1. failures \in [Bindings -> 0 .. MaxFailures] /\ [failures EXCEPT ![b] = 0] \in [Bindings -> 0 .. MaxFailures]
  BY DEF BindInv, Shaped
<1>2. \A w \in Bind!Awaits : Bind!At(b, w) => state[b] \in Bind!Active
  BY Awake
<1>3. {"create", "sleep", "poll", "backoff", "validate", "wait", "start"} = Bind!Awaits
      /\ {"pending", "ready_to_commit"} \subseteq Bind!Active
  BY DEF Bind!Awaits, Bind!Active
<1>4. Bind!Verdict(Bind!Check(b)) \in {"failed", "expired"}
  BY DEF Bind!Verdict
<1>5. CASE Bind!Cancelled(b)
  BY <1>5, CancelledKeeps
<1>6. CASE Bind!Begins(b)
  BY <1>1, <1>2, <1>3, <1>6, GoKeeps DEF Bind!Begins
<1>7. CASE Bind!Created(b)
  BY <1>1, <1>2, <1>3, <1>7, GoKeeps DEF Bind!Created
<1>8. CASE Bind!Slept(b)
  BY <1>1, <1>2, <1>3, <1>8, GoKeeps DEF Bind!Slept
<1>9. CASE Bind!BackedOff(b)
  BY <1>1, <1>2, <1>3, <1>9, GoKeeps DEF Bind!BackedOff
<1>10. CASE Bind!NotYet(b)
  BY <1>1, <1>2, <1>3, <1>10, GoKeeps DEF Bind!NotYet
<1>11. CASE Bind!PollFails(b)
  <2>1. state[b] \in Bind!Active
    BY <1>2, <1>3, <1>11 DEF Bind!PollFails
  <2>2. CASE failures[b] < MaxFailures
    <3>1. /\ Bind!Worker(b, "backoff", state[b]) /\ Bind!KeepRest(b)
          /\ failures' = [failures EXCEPT ![b] = @ + 1] /\ holds' = holds
      BY <1>11, <2>2 DEF Bind!PollFails
    <3>2. failures[b] \in 0 .. MaxFailures /\ failures[b] + 1 \in 0 .. MaxFailures
      BY <1>1, <2>2
    <3>3. Counted
      BY <1>1, <3>1, <3>2
    <3> QED BY <1>3, <2>1, <3>1, <3>3, WaitsAgain
  <2>3. CASE ~(failures[b] < MaxFailures)
    BY <1>11, <2>1, <2>3, FailKeeps DEF Bind!PollFails
  <2> QED BY <2>2, <2>3
<1>12. CASE Bind!Refused(b)
  BY <1>2, <1>3, <1>12, FailKeeps DEF Bind!Refused
<1>13. CASE Bind!PollRefused(b)
  BY <1>2, <1>3, <1>13, FailKeeps DEF Bind!PollRefused
<1>14. CASE Bind!Invalid(b)
  BY <1>2, <1>3, <1>14, FailKeeps DEF Bind!Invalid
<1>15. CASE Bind!Scanned(b)
  <2>1. state[b] \in Bind!Active
    BY <1>2, <1>3, <1>15 DEF Bind!Scanned
  <2>2. CASE Bind!Check(b) = "ok"
    <3>1. /\ Bind!Worker(b, "validate", state[b]) /\ Bind!KeepRest(b)
          /\ failures' = [failures EXCEPT ![b] = 0] /\ holds' = [holds EXCEPT ![b] = {"credential"}]
      BY <1>15, <2>2 DEF Bind!Scanned
    <3> QED BY <1>1, <1>3, <2>1, <3>1, WaitsAgain
  <2>3. CASE Bind!Check(b) # "ok"
    BY <1>4, <1>15, <2>1, <2>3, FailKeeps DEF Bind!Scanned
  <2> QED BY <2>2, <2>3
<1>16. CASE Bind!Validated(b)
  <2>1. state[b] \in Bind!Active
    BY <1>2, <1>3, <1>16 DEF Bind!Validated
  <2>2. CASE Bind!Check(b) = "ok"
    <3>1. /\ Bind!Worker(b, "wait", "ready_to_commit") /\ Bind!KeepRest(b)
          /\ failures' = failures /\ holds' = holds
      BY <1>16, <2>2 DEF Bind!Validated
    <3> QED BY <1>1, <1>3, <2>1, <3>1, WaitsAgain
  <2>3. CASE Bind!Check(b) # "ok"
    BY <1>4, <1>16, <2>1, <2>3, FailKeeps DEF Bind!Validated
  <2> QED BY <2>2, <2>3
<1>17. CASE Bind!Watches(b)
  BY <1>2, <1>3, <1>4, <1>17, FailKeeps DEF Bind!Watches
<1> QED BY <1>5, <1>6, <1>7, <1>8, <1>9, <1>10, <1>11, <1>12, <1>13, <1>14, <1>15, <1>16, <1>17
    DEF Bind!Work

-----------------------------------------------------------------------------
(* What the administrator may rely on.                                     *)

LEMMA BindBegins == ASSUME MaxFailures \in Nat, Plain # {} PROVE Bind!Init => BindInv
<1> SUFFICES ASSUME Bind!Init PROVE BindInv
  OBVIOUS
<1>1. (CHOOSE v \in Plain : TRUE) \in Plain
  OBVIOUS
<1>2. Shaped
  BY <1>1 DEF Bind!Init, Shaped, States, Bind!Contents, Bind!Awaits
<1> QED BY <1>2 DEF Bind!Init, BindInv, Bind!OneLease, Standing, Bind!Active, Bind!Awaits, Bind!Idle

LEMMA BindKeeps == ASSUME MaxFailures \in Nat, BindInv, [Bind!Next]_(Bind!vars) PROVE BindInv'
<1>1. ASSUME NEW b \in Bindings, Bind!LookExpired(b) PROVE BindInv'
  BY <1>1, EndKeeps DEF Bind!LookExpired, Bind!Expires, Bind!Active
<1>2. ASSUME NEW b \in Bindings, Bind!Cancel(b) PROVE BindInv'
  BY <1>2, EndKeeps DEF Bind!Cancel, Bind!Kept
<1>3. ASSUME NEW b \in Bindings, Bind!Renew(b) PROVE BindInv'
  <2>1. Shaped'
    BY <1>3 DEF Bind!Renew, BindInv, Shaped, Bind!hostVars
  <2> QED BY <1>3, <2>1, Unmoved DEF Bind!Renew
<1>4. ASSUME NEW b \in Bindings, Bind!CommitFails(b) PROVE BindInv'
  <2>1. Shaped'
    BY <1>4 DEF Bind!CommitFails, BindInv, Shaped, Bind!Contents
  <2> QED BY <1>4, <2>1, Unmoved DEF Bind!CommitFails
<1>5. ASSUME NEW t \in Connections, NEW v \in Plain, Bind!HostEdit(t, v) PROVE BindInv'
  <2>1. Shaped'
    BY <1>5 DEF Bind!HostEdit, BindInv, Shaped, Bind!Contents
  <2> QED BY <1>5, <2>1, Unmoved DEF Bind!HostEdit
<1>6. CASE Bind!Tick
  <2>1. Shaped'
    BY <1>6 DEF Bind!Tick, BindInv, Shaped, Bind!hostVars
  <2> QED BY <1>6, <2>1, Unmoved DEF Bind!Tick
<1>7. CASE UNCHANGED Bind!vars
  <2>1. Shaped'
    BY <1>7 DEF Bind!vars, BindInv, Shaped
  <2> QED BY <1>7, <2>1, Unmoved DEF Bind!vars
<1>8. ASSUME NEW b \in Bindings, NEW t \in Connections, Bind!Start(b, t) PROVE BindInv'
  BY <1>8, StartKeeps
<1>9. ASSUME NEW b \in Bindings, Bind!Commit(b) \/ Bind!Work(b) PROVE BindInv'
  BY <1>9, CommitKeeps, WorkKeeps
<1>10. CASE Bind!Close
  BY <1>10, CloseKeeps
<1> QED BY <1>1, <1>2, <1>3, <1>4, <1>5, <1>6, <1>7, <1>8, <1>9, <1>10 DEF Bind!Next


\* Each step is one of Onboarding or leaves the bindings alone, whichever part
\* runs.
LEMMA OnePart == ASSUME [LiveNext]_all PROVE [Bind!Next]_(Bind!vars)
<1>1. UNCHANGED bindVars => UNCHANGED Bind!vars
  BY DEF bindVars, Bind!vars, Bind!hostVars
<1> QED BY <1>1 DEF LiveNext, InboxStep, Turn, ClickStep, BindStep, all

\* Every binding is told from what it did: "configured" means that its credential was saved, once,
\* and nothing else means that; a binding that ended keeps neither key nor credential in memory; and
\* no connection has two bindings under way.  The worker, the commit, an expiry, a cancellation and
\* the close of the administration may come in any order, for any number of bindings.
THEOREM BindingsAreSound == LiveSpec => []BindingSound
<1>1. LiveInit => BindInv
  BY BindAssumption, BindBegins DEF LiveInit
<1>2. ASSUME BindInv, [LiveNext]_all PROVE BindInv'
  <2>1. [Bind!Next]_(Bind!vars)
    BY <1>2, OnePart
  <2> QED BY <1>2, <2>1, BindAssumption, BindKeeps
<1>3. BindInv => BindingSound
  BY DEF BindInv, Shaped, States, Standing, BindingSound, Bind!TypeOK, Bind!BindingSound,
         Bind!SaysWhatItWrote, Bind!EndedIsErased
<1> QED BY <1>1, <1>2, <1>3, PTL DEF LiveSpec
=============================================================================
