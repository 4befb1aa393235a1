--------------------------- MODULE IdentifyBudget ---------------------------
(***************************************************************************)
(* The shards of one robot and the Identify budget they share              *)
(* (GatewayGroup, IdentifyBudget of transport/shards.py).  The budget      *)
(* outlives a reload of the platform; the group and its shards do not.     *)
(*                                                                         *)
(* One asyncio.Lock serialises discovery and handshakes, but it is given   *)
(* back between a refused attempt and the next one, and every wait may be  *)
(* cancelled.  Times are differences to the clock.  What QQ answers may lag *)
(* behind what was sent: any number is possible in the middle of a period. *)
(***************************************************************************)
EXTENDS Integers, Sequences, FiniteSets

CONSTANTS
    Shards,             \* shards of the group
    Group,              \* the group itself, when it asks for /gateway/bot
    Total,              \* session_start_limit.total
    MaxConcurrency,     \* session_start_limit.max_concurrency
    Window,             \* the rate window of an Identify, in ticks (5 s)
    ResetAfter,         \* ticks between two resets of the total at QQ (a day)
    RefreshGap,         \* ticks between two refreshes (60 s)
    MaxFaults           \* failures, drops, cancellations

ASSUME BudgetAssumption ==
    /\ Total \in Nat \ {0} /\ MaxConcurrency \in Nat \ {0}
    /\ Window \in Nat \ {0} /\ ResetAfter \in Nat \ {0} /\ RefreshGap \in Nat
    /\ Group \notin Shards /\ "nobody" \notin Shards \cup {Group}

Actors == Shards \cup {Group}
Nobody == "nobody"

VARIABLES
    \* IdentifyBudget
    lock,               \* its holder
    known,              \* info is not None
    remaining,          \* remaining
    resetIn,            \* reset_at - clock()
    refreshIn,          \* what is left of the minute after last_refresh_at
    notBefore,          \* refresh_not_before - clock()
    starts,             \* clock() - start, oldest first
    \* GatewayGroup and its shards
    group,              \* _state
    place,              \* where each actor is
    wake,               \* what is left of a shard's sleep
    tired,              \* shards with three failures in a row or more
    reply,              \* QQ's answer to /gateway/bot on its way to the holder
    \* history
    sends,              \* clock() - send of the Identifies in the last window
    promised, spent,    \* announced at the start of the period, sent since
    faults

budget == <<lock, known, remaining, resetIn, refreshIn, notBefore, starts>>
shards == <<group, place, wake, tired>>
history == <<sends, promised, spent>>
vars   == <<budget, shards, reply, history, faults>>

\* out:     not started, cancelled or ended       refreshes: discover(refresh=True)
\* seeks:   in the loop of session_start           sleeps:  lock given back, delay
\* asks:    holds the lock, awaits /gateway/bot    asks_refresh: the same, refreshing
\* shakes:  holds the lock, socket and Hello       sent:    holds it, op 2 is out
\* up:      the shard runs on without the budget
Places == {"out", "refreshes", "seeks", "sleeps", "asks", "asks_refresh", "shakes", "sent", "up"}
Holding == {"asks", "asks_refresh", "shakes", "sent"}

Fail == faults < MaxFaults /\ faults' = faults + 1
Less(n) == IF n = 0 THEN 0 ELSE n - 1
Least(a, b) == IF a < b THEN a ELSE b
\* popleft() while the oldest has left the window: n of them go.
Leave(n, ages) == /\ \A i \in 1..n : ages[i] >= Window
                  /\ n = Len(ages) \/ ages[n + 1] < Window
Fresh(ages) == LET n == CHOOSE n \in 0..Len(ages) : Leave(n, ages)
               IN  SubSeq(ages, n + 1, Len(ages))
NoReply == <<>>

Init ==
    /\ lock = Nobody /\ known = FALSE /\ remaining = 0 /\ resetIn = 0
    /\ refreshIn = 0 /\ notBefore = 0 /\ starts = << >>
    /\ group = "idle" /\ place = [a \in Actors |-> "out"]
    /\ wake = [a \in Actors |-> 0] /\ tired = {}
    /\ reply = NoReply
    /\ sends = << >> /\ promised = 0 /\ spent = 0 /\ faults = 0

-----------------------------------------------------------------------------
(* IdentifyBudget                                                          *)

Expired == ~known \/ resetIn = 0

\* [Mutated] a refresh believes QQ, which may not have counted yet.
RemainingByReply(refresh) == reply[1]

\* A refresh within the period only ever lowers what is left.
RemainingAfter(refresh) ==
    IF refresh /\ known /\ resetIn > 0 THEN Least(remaining, reply[1]) ELSE reply[1]

\* A later answer of the same period does not start it again.
Adopt(refresh) ==
    /\ known' = TRUE /\ resetIn' = reply[2]
    /\ refreshIn' = RefreshGap /\ notBefore' = 0
    /\ reply' = NoReply
    /\ IF refresh /\ ~Expired THEN UNCHANGED <<promised, spent>>
       ELSE promised' = reply[1] /\ spent' = 0

SpentUp(left_) == left_ = 0

\* session_start with what it knows of the budget: a place, or a delay.
Decide(a, left_, resetIn_) ==
    /\ starts' = Fresh(starts)
    /\ IF SpentUp(left_)
       THEN /\ place' = [place EXCEPT ![a] = "sleeps"] /\ lock' = Nobody
            /\ wake' = [wake EXCEPT ![a] = resetIn_] /\ remaining' = left_
       ELSE IF Len(Fresh(starts)) >= MaxConcurrency
       THEN /\ place' = [place EXCEPT ![a] = "sleeps"] /\ lock' = Nobody
            /\ wake' = [wake EXCEPT ![a] = Window - Head(Fresh(starts))]
            /\ remaining' = left_
       ELSE /\ place' = [place EXCEPT ![a] = "shakes"] /\ lock' = a
            /\ remaining' = left_ - 1 /\ UNCHANGED wake

Acquire(a) ==
    /\ place[a] = "seeks" /\ lock = Nobody
    /\ IF Expired
       THEN /\ lock' = a /\ place' = [place EXCEPT ![a] = "asks"]
            /\ UNCHANGED <<remaining, starts, wake>>
       ELSE IF a = Group    \* discover() of the group: what is known will do
       THEN /\ place' = [b \in Actors |-> IF b \in Shards THEN "seeks" ELSE "out"]
            /\ UNCHANGED <<lock, remaining, starts, wake>>
       ELSE Decide(a, remaining, resetIn)
    /\ group' = IF a = Group /\ ~Expired THEN "running" ELSE group
    /\ UNCHANGED <<known, resetIn, refreshIn, notBefore, tired, reply, history, faults>>

\* discover(refresh=True) of a shard that failed three times in a row.
Refresh(a) ==
    /\ place[a] = "refreshes" /\ lock = Nobody
    /\ IF known /\ (refreshIn > 0 \/ notBefore > 0)
       THEN place' = [place EXCEPT ![a] = "seeks"] /\ UNCHANGED <<lock, refreshIn>>
       ELSE /\ lock' = a /\ place' = [place EXCEPT ![a] = "asks_refresh"]
            /\ refreshIn' = IF known THEN RefreshGap ELSE refreshIn
    /\ UNCHANGED <<known, remaining, resetIn, notBefore, starts, group, wake, tired, reply, history, faults>>

\* The answer arrives: the group starts its shards, a refresh goes on to
\* session_start, a shard in session_start decides at once.
Discovered(a) ==
    /\ lock = a /\ place[a] \in {"asks", "asks_refresh"} /\ reply # NoReply
    /\ \/ /\ a = Group
          /\ Adopt(FALSE) /\ remaining' = RemainingAfter(FALSE)
          /\ lock' = Nobody /\ group' = "running"
          /\ place' = [b \in Actors |-> IF b \in Shards THEN "seeks" ELSE "out"]
          /\ UNCHANGED <<starts, wake>>
       \/ /\ place[a] = "asks_refresh"
          /\ Adopt(TRUE) /\ remaining' = RemainingAfter(TRUE) /\ lock' = Nobody
          /\ place' = [place EXCEPT ![a] = "seeks"]
          /\ UNCHANGED <<starts, wake, group>>
       \/ /\ a \in Shards /\ place[a] = "asks"
          /\ Adopt(FALSE) /\ Decide(a, RemainingAfter(FALSE), reply[2])
          /\ UNCHANGED group
    /\ UNCHANGED <<tired, sends, faults>>

\* run() tries again; after three failures in a row it refreshes first.
Retries(a) ==
    \E third \in BOOLEAN :
        /\ tired' = IF third THEN tired \cup {a} ELSE tired
        /\ place' = [place EXCEPT ![a] = IF a \in tired' THEN "refreshes" ELSE "seeks"]

\* [Mutated] the lock is given back for answers only.
GiveBackAnswered == lock' = IF reply = NoReply THEN lock ELSE Nobody

\* `except BaseException: lock.release()`, and the lock of discover().
GiveBack == lock' = Nobody

\* /gateway/bot fails; Retry-After holds refreshes off.
AskFails(a) ==
    /\ lock = a /\ place[a] \in {"asks", "asks_refresh"} /\ Fail
    /\ GiveBack /\ reply' = NoReply
    /\ \E pause \in {0, RefreshGap} :
          notBefore' = IF place[a] = "asks_refresh" /\ known /\ pause > notBefore
                       THEN pause ELSE notBefore
    /\ \/ a \in Shards /\ Retries(a) /\ UNCHANGED group
       \/ /\ a = Group /\ group' \in {"connecting", "failed"}
          /\ place' = [place EXCEPT ![a] = IF group' = "failed" THEN "out" ELSE "seeks"]
          /\ UNCHANGED tired
    /\ UNCHANGED <<known, remaining, resetIn, refreshIn, starts, wake, history>>

\* The finally of session_start, however the handshake ended.
Stamp(a) == lock' = Nobody /\ starts' = Append(starts, 0)

SendIdentify(a) ==
    /\ place[a] = "shakes"
    /\ place' = [place EXCEPT ![a] = "sent"]
    /\ sends' = Append(Fresh(sends), 0) /\ spent' = spent + 1
    /\ UNCHANGED <<budget, group, wake, tired, reply, promised, faults>>

HandshakeDone(a) ==
    /\ place[a] = "sent" /\ Stamp(a)
    /\ place' = [place EXCEPT ![a] = "up"] /\ tired' = tired \ {a}
    /\ UNCHANGED <<known, remaining, resetIn, refreshIn, notBefore, group, wake, reply, history, faults>>

Wake(a) ==
    /\ place[a] = "sleeps" /\ wake[a] = 0
    /\ place' = [place EXCEPT ![a] = "seeks"]
    /\ UNCHANGED <<budget, group, wake, tired, reply, history, faults>>

-----------------------------------------------------------------------------
(* Gateway and GatewayGroup around it                                      *)

\* No Hello, no token, or a running shard lost its session.
ShardFails(a) ==
    /\ place[a] \in {"shakes", "sent", "up"} /\ Fail
    /\ IF lock = a THEN Stamp(a) ELSE UNCHANGED <<lock, starts>>
    /\ Retries(a)
    /\ UNCHANGED <<known, remaining, resetIn, refreshIn, notBefore, group, wake, reply, history>>

\* Every task of the group is cancelled: a shard loses its wait, or leaves
\* session_start through its finally.
Cancelled(how) ==
    /\ group' = how
    /\ place' = [a \in Actors |-> "out"] /\ wake' = [a \in Actors |-> 0] /\ tired' = {}
    /\ reply' = NoReply
    /\ lock' = Nobody
    /\ starts' = IF lock # Nobody /\ place[lock] \in {"shakes", "sent"}
                 THEN Append(starts, 0) ELSE starts
    /\ UNCHANGED <<known, remaining, resetIn, refreshIn, notBefore, history>>

\* A shard ends with a fatal error (run raises it), or the platform stops.
GroupEnds ==
    /\ group \notin {"idle", "failed", "stopped"} /\ Fail
    /\ \E how \in {"failed", "stopped"} : Cancelled(how)

\* A new group on the same budget.
Start ==
    /\ group \in {"idle", "failed", "stopped"}
    /\ group' = "connecting"
    /\ place' = [place EXCEPT ![Group] = "seeks"]
    /\ UNCHANGED <<budget, wake, tired, reply, history, faults>>

-----------------------------------------------------------------------------
(* QQ (external) and the clock                                             *)

Answer ==
    /\ lock # Nobody /\ place[lock] \in {"asks", "asks_refresh"} /\ reply = NoReply
    /\ \E left \in IF Expired THEN 1..Total ELSE 0..Total : reply' = <<left, ResetAfter>>
    /\ UNCHANGED <<budget, shards, history, faults>>

Aged(ages) == [i \in DOMAIN ages |-> IF ages[i] < Window THEN ages[i] + 1 ELSE ages[i]]

Tick ==
    /\ resetIn' = Less(resetIn) /\ refreshIn' = Less(refreshIn) /\ notBefore' = Less(notBefore)
    /\ starts' = Aged(starts) /\ wake' = [a \in Actors |-> Less(wake[a])]
    /\ sends' = Fresh(Aged(sends))
    /\ UNCHANGED <<lock, known, remaining, group, place, tired, reply, promised, spent, faults>>

Steps(a) == Acquire(a) \/ Refresh(a) \/ Discovered(a) \/ SendIdentify(a) \/ HandshakeDone(a)
            \/ Wake(a)
Next == \/ \E a \in Actors : Steps(a) \/ AskFails(a) \/ ShardFails(a)
        \/ GroupEnds \/ Start \/ Answer \/ Tick

(* asyncio.Lock wakes its waiters in order, so a waiter that may take it    *)
(* again and again gets it; tasks run, QQ answers, time passes.  QQ starts  *)
(* each period with at least one Identify (`Answer`).                       *)
Fairness ==
    /\ \A a \in Actors : SF_vars(Steps(a))
    /\ WF_vars(Answer) /\ WF_vars(Tick)

Spec == Init /\ [][Next]_vars /\ Fairness

-----------------------------------------------------------------------------
(* The type of the state. *)
TypeOK ==
    /\ lock \in Actors \cup {Nobody} /\ known \in BOOLEAN
    /\ remaining \in 0..Total /\ resetIn \in 0..ResetAfter
    /\ refreshIn \in 0..RefreshGap /\ notBefore \in 0..RefreshGap
    /\ starts \in Seq(0..Window)
    /\ group \in {"idle", "connecting", "running", "failed", "stopped"}
    /\ place \in [Actors -> Places] /\ wake \in [Actors -> Nat] /\ tired \subseteq Shards
    /\ reply \in {NoReply} \cup ((0..Total) \X {ResetAfter})
    /\ promised \in 0..Total /\ spent \in Nat
    /\ sends \in Seq(0..Window)

(* Between two periods of the budget no more Identifies are sent than QQ    *)
(* announced for the period, and in no window of five seconds more than     *)
(* max_concurrency: across shards, refreshes whose answer lags behind,      *)
(* aborted handshakes and reloads of the group.                             *)
WithinLimits ==
    /\ spent <= promised
    /\ Cardinality({i \in DOMAIN sends : sends[i] < Window}) <= MaxConcurrency

(* A shard that needs a session gets one, however many others need one and  *)
(* whatever was cancelled while it held the lock, unless its group ends.    *)
EveryShardGetsIn ==
    \A a \in Shards : place[a] \in {"seeks", "refreshes"} ~> place[a] \in {"up", "out"}
=============================================================================
