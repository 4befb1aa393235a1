------------------------------- MODULE Gateway -------------------------------
(***************************************************************************)
(* One shard of the WebSocket gateway: the supervised loop of Gateway.run, *)
(* the handshake of _connect, the read and heartbeat tasks, and the cursor *)
(* ShardIngress keeps between the socket and the durable inbox.            *)
(*                                                                         *)
(* Clocks are kept as differences (`beatIn` is next_tick - clock(), ...),  *)
(* so time need not be bounded.  QQ is modelled from what the code expects *)
(* of it: it numbers the events of a session, replays on Resume what       *)
(* follows the client's sequence, and may close, refuse, forget or go      *)
(* silent at any time.                                                     *)
(***************************************************************************)
EXTENDS Integers, Sequences

CONSTANTS
    Interval,       \* heartbeat_interval of Hello, in ticks
    HelloTimeout,   \* hello_timeout, in ticks
    MaxSessions,    \* sessions QQ creates
    MaxSeq,         \* events of one session, READY included
    QueueCap,       \* room of Ingress.queue (32)
    MaxLine,        \* frames on their way
    MaxFaults       \* closes, refusals, silences and intake failures

None == 0           \* no session id, no sequence: QQ numbers from 1

VARIABLES
    state,          \* Gateway.state
    connected,      \* Gateway.connected
    sid, seq,       \* Gateway.session_id, ShardIngress.last_sequence
    failures,       \* consecutive_failures, up to 1: only zero or not matters here
    reading,        \* the read task's accept(): <<>> or <<envelope, fate>>
    intake,         \* Ingress.queue: accepted by nobody yet, cancelled by nobody
    ackPending, ackAge,     \* ack_pending, clock() - ack_sent_at
    beatIn,         \* next_tick - clock() of the heartbeat task
    handIn,         \* what is left of hello_timeout in _connect or _read
    quietFor,       \* ticks since QQ last put anything on this socket
    \* QQ and the network
    up,             \* the socket: "none", "open", "silent" (half open)
    line,           \* frames on their way to the adapter
    login,          \* the op 2 or op 6 QQ has not answered
    beat,           \* a heartbeat QQ has not acknowledged
    live, attached, \* the session QQ keeps, and whether this socket carries it
    sent,           \* sent[s]: last sequence QQ gave out in session s
    \* history
    stored,         \* events the inbox has committed
    joined,         \* joined[s]: sent[s] when s was first connected, 0 before
    announced,      \* events that preceded a call of on_fresh
    \* the environment
    slow,           \* the loop, the disk or QQ takes longer than a tick for a step
    faults

clientVars == <<state, connected, sid, seq, failures, reading, intake>>
timerVars  == <<ackPending, ackAge, beatIn, handIn, quietFor>>
qqVars     == <<up, line, login, beat, live, attached, sent>>
history    == <<stored, joined, announced>>
env == <<slow, faults>>
vars == <<clientVars, timerVars, qqVars, history, env>>

Sessions == 1..MaxSessions
Emitted  == {<<s, q>> : s \in Sessions, q \in 1..MaxSeq} \cap
            {e \in Sessions \X (1..MaxSeq) : e[2] <= sent[e[1]]}

\* frames: dispatches carry their session and sequence, the rest their op
Dispatch(t, s, q) == [op |-> "dispatch", t |-> t, s |-> s, q |-> q]
Frame(op)         == [op |-> op]
Closes == {"close", "close_fresh", "close_fatal"}
FrameOps == {"hello", "ack", "beat", "reconnect", "invalid", "invalid_resumable"} \cup Closes

Tasks   == state \in {"authenticating", "online"}    \* _read and _heartbeat run
Ended   == state \in {"failed", "stopped"}
Resume  == sid # None /\ seq # None
Fail    == faults < MaxFaults /\ faults' = faults + 1 /\ UNCHANGED slow

Init ==
    /\ state = "idle" /\ connected = FALSE /\ sid = None /\ seq = None
    /\ failures = 0 /\ reading = << >> /\ intake = << >>
    /\ ackPending = FALSE /\ ackAge = 0 /\ beatIn = 0 /\ handIn = 0 /\ quietFor = 0
    /\ up = "none" /\ line = << >> /\ login = << >> /\ beat = FALSE
    /\ live = None /\ attached = FALSE /\ sent = [s \in Sessions |-> 0]
    /\ stored = {} /\ joined = [s \in Sessions |-> 0] /\ announced = {}
    /\ slow = FALSE /\ faults = 0

-----------------------------------------------------------------------------
(* Gateway: one pass of run().                                             *)

\* _disconnect and what the socket takes with it: both tasks are cancelled,
\* an accept() they wait for goes on without them.
Disconnect ==
    /\ connected' = FALSE /\ reading' = << >>
    /\ up' = "none" /\ line' = << >> /\ login' = << >> /\ beat' = FALSE
    /\ attached' = FALSE
    /\ ackPending' = FALSE /\ ackAge' = 0 /\ beatIn' = 0 /\ handIn' = 0 /\ quietFor' = 0

\* _fresh: the session is given up and the gap announced (mark_gap).
Fresh == sid' = None /\ seq' = None /\ announced' = announced \cup Emitted
Kept  == UNCHANGED <<sid, seq, announced>>

\* An error of _connect that run() retries: the session survives it.
Lost(session) ==
    /\ Disconnect /\ session
    /\ failures' = 1 /\ state' = "backoff"
    /\ UNCHANGED <<intake, live, sent, stored, joined>>

\* A fatal close code, a refused handshake, a stale generation, close().
End(how) ==
    /\ Disconnect /\ Kept
    /\ state' = how
    /\ UNCHANGED <<failures, intake, live, sent, stored, joined>>

\* The loop takes a place in the Identify budget only without a session.
Connect ==
    /\ state \in {"idle", "backoff"}
    /\ state' = IF Resume THEN "connecting" ELSE "waiting_identify"
    /\ UNCHANGED <<connected, sid, seq, failures, reading, intake, timerVars, qqVars,
                   history, env>>

\* session_start let it through: ws_connect, then Hello within hello_timeout.
Dial ==
    /\ state \in {"connecting", "waiting_identify"} /\ up = "none"
    /\ up' = "open" /\ line' = <<Frame("hello")>>
    /\ handIn' = HelloTimeout /\ quietFor' = 0
    /\ UNCHANGED <<clientVars, ackPending, ackAge, beatIn, login, beat, live, attached,
                   sent, history, env>>

Hello ==
    /\ ~Tasks /\ up = "open" /\ line # << >> /\ Head(line).op = "hello"
    /\ line' = Tail(line)
    /\ login' = IF Resume THEN <<sid, seq>> ELSE <<None, None>>
    /\ state' = "authenticating"
    /\ ackPending' = FALSE /\ ackAge' = 0
    /\ beatIn' = Interval /\ handIn' = HelloTimeout
    /\ UNCHANGED <<connected, sid, seq, failures, reading, intake, quietFor, up, beat,
                   live, attached, sent, history, env>>

\* A refused upgrade, no token, no /gateway/bot; or no Hello in time.
DialFails ==
    /\ state \in {"connecting", "waiting_identify"}
    /\ Fail /\ (Lost(Kept) \/ End("failed"))

HelloDeadline ==
    /\ state \in {"connecting", "waiting_identify"} /\ up # "none" /\ handIn = 0
    /\ Lost(Kept) /\ UNCHANGED env

-----------------------------------------------------------------------------
(* Gateway: the read task.                                                 *)

Take == Tasks /\ reading = << >> /\ up = "open" /\ line # << >>

\* [Mutated] the cursor moves when the event arrives, not when it is stored.
AcceptEarly(e) ==
    /\ seq' = IF e.t = "READY" \/ e.q > seq THEN e.q ELSE seq
    /\ reading' = <<e, "queued">> /\ intake' = Append(intake, e)

\* accept(): READY forgets the old cursor first; the commit comes later.
Accept(e) ==
    /\ seq' = IF e.t = "READY" THEN None ELSE seq
    /\ reading' = <<e, "queued">> /\ intake' = Append(intake, e)

ReadDispatch ==
    /\ Take /\ Head(line).op = "dispatch" /\ Len(intake) < QueueCap
    /\ line' = Tail(line) /\ Accept(Head(line))
    /\ UNCHANGED <<state, connected, sid, failures, timerVars, up, login, beat, live,
                   attached, sent, history, env>>

\* The intake worker; nobody may be waiting any more.
Store ==
    /\ intake # << >>
    /\ LET e == Head(intake)
           waits == reading # << >> /\ Len(intake) = 1
       IN  \/ /\ stored' = stored \cup {<<e.s, e.q>>}
              /\ reading' = IF waits THEN <<e, "stored">> ELSE reading
              /\ UNCHANGED env
           \/ /\ Fail /\ UNCHANGED stored
              /\ reading' = IF waits THEN <<e, "failed">> ELSE reading
    /\ intake' = Tail(intake)
    /\ UNCHANGED <<state, connected, sid, seq, failures, timerVars, qqVars, joined, announced>>

\* accept() returned: the cursor follows, READY and RESUMED go online.
Stored ==
    /\ reading # << >> /\ reading[2] = "stored"
    /\ LET e == reading[1]
           ready == e.t = "READY"
           opens == e.t \in {"READY", "RESUMED"}
       IN  IF e.t = "RESUMED" /\ sid = None
           THEN Lost(seq' = (IF e.q > seq THEN e.q ELSE seq) /\ UNCHANGED <<sid, announced>>)
           ELSE /\ seq' = IF e.q > seq THEN e.q ELSE seq
                /\ sid' = IF ready THEN e.s ELSE sid
                /\ connected' = (connected \/ opens)
                /\ state' = IF opens THEN "online" ELSE state
                /\ joined' = IF opens /\ joined[e.s] = 0
                             THEN [joined EXCEPT ![e.s] = sent[e.s]] ELSE joined
                /\ reading' = << >>
                /\ UNCHANGED <<failures, intake, timerVars, qqVars, stored, announced>>
    /\ UNCHANGED env

\* accept() refused: a full queue, or a commit that failed.
Refused ==
    /\ \/ reading # << >> /\ reading[2] = "failed" /\ Lost(Kept)
       \/ /\ Take /\ Head(line).op = "dispatch" /\ Len(intake) = QueueCap
          /\ Lost(seq' = (IF Head(line).t = "READY" THEN None ELSE seq)
                  /\ UNCHANGED <<sid, announced>>)
    /\ UNCHANGED env

ReadAck ==
    /\ Take /\ Head(line).op = "ack"
    /\ line' = Tail(line)
    /\ ackPending' = FALSE /\ ackAge' = 0 /\ failures' = 0
    /\ UNCHANGED <<state, connected, sid, seq, reading, intake, beatIn, handIn, quietFor,
                   up, login, beat, live, attached, sent, history, env>>

\* _send_heartbeat: one heartbeat is outstanding at a time.
SendHeartbeat ==
    IF ackPending THEN UNCHANGED <<ackPending, ackAge, beat>>
    ELSE /\ ackPending' = TRUE /\ ackAge' = 0
         /\ beat' = TRUE

ReadBeat ==
    /\ Take /\ Head(line).op = "beat"
    /\ line' = Tail(line) /\ SendHeartbeat
    /\ UNCHANGED <<clientVars, beatIn, handIn, quietFor, up, login, live, attached, sent,
                   history, env>>

\* [Mutated] op 9 is a disconnect like any other.
InvalidSessionKept(op) == Kept

\* op 9: whoever may not resume starts over.
InvalidSession(op) == IF op = "invalid" THEN Fresh ELSE Kept

ReadEnd ==
    /\ Take
    /\ \/ Head(line).op = "reconnect" /\ Lost(Kept)
       \/ Head(line).op \in {"invalid", "invalid_resumable"} /\ Lost(InvalidSession(Head(line).op))
       \/ Head(line).op = "close" /\ Lost(Kept)
       \/ Head(line).op = "close_fresh" /\ Lost(Fresh)
       \/ Head(line).op = "close_fatal" /\ End("failed")
    /\ UNCHANGED env

\* READY or RESUMED did not come in time.
ReadDeadline ==
    /\ Tasks /\ ~connected /\ reading = << >> /\ handIn = 0
    /\ Lost(Kept) /\ UNCHANGED env

-----------------------------------------------------------------------------
(* Gateway: the heartbeat task, and the end.                               *)

Heartbeat ==
    /\ Tasks /\ beatIn = 0
    /\ IF ackPending /\ ackAge >= Interval
       THEN Lost(Kept)
       ELSE /\ beatIn' = IF ackPending THEN Interval - ackAge ELSE Interval
            /\ SendHeartbeat
            /\ UNCHANGED <<clientVars, handIn, quietFor, up, line, login, live, attached,
                           sent, history>>
    /\ UNCHANGED env

\* close(), a cancelled task, or a guard that finds the generation stale.
Stop == ~Ended /\ Fail /\ \E how \in {"stopped", "failed"} : End(how)

Slows    == ~slow /\ faults < MaxFaults /\ faults' = faults + 1 /\ slow' = TRUE
            /\ UNCHANGED <<clientVars, timerVars, qqVars, history>>
Recovery == slow /\ slow' = FALSE
            /\ UNCHANGED <<clientVars, timerVars, qqVars, history, faults>>

\* Timers that are due run before the clock moves on.
Due == \/ Tasks /\ beatIn = 0
       \/ Tasks /\ ~connected /\ reading = << >> /\ handIn = 0
       \/ ~Tasks /\ up # "none" /\ handIn = 0

Less(n) == IF n = 0 THEN 0 ELSE n - 1

\* Work that takes less than a tick unless something is slow.
Pending == \/ up = "open" /\ (line # << >> \/ login # << >> \/ beat)
           \/ reading # << >> \/ intake # << >>

Tick ==
    /\ up # "none" /\ ~Due /\ (slow \/ ~Pending)
    /\ beatIn' = Less(beatIn) /\ handIn' = Less(handIn)
    /\ ackAge' = IF ackPending /\ ackAge < Interval THEN ackAge + 1 ELSE ackAge
    /\ quietFor' = IF up = "silent" THEN quietFor + 1 ELSE quietFor
    /\ UNCHANGED <<clientVars, ackPending, qqVars, history, env>>

-----------------------------------------------------------------------------
(* QQ and the network (external).                                          *)

Put(frames) == Len(line) < MaxLine /\ line' = line \o frames

\* A session the adapter never saw online and holds nothing of: its number
\* may stand for the next session (ids are not reused, the model forgets).
Unknown(n) == /\ joined[n] = 0 /\ sid # n
              /\ n \notin {intake[i].s : i \in DOMAIN intake}
              /\ n # (IF reading = << >> THEN None ELSE reading[1].s)

AnswerLogin ==
    /\ up = "open" /\ login # << >>
    /\ login' = << >>
    /\ LET s == login[1] IN
       \/ /\ s = None
          /\ \E n \in Sessions :
                /\ Unknown(n) /\ \A m \in Sessions : m < n => ~Unknown(m)
                /\ live' = n /\ sent' = [sent EXCEPT ![n] = 1]
                /\ stored' = {e \in stored : e[1] # n}
                /\ announced' = {e \in announced : e[1] # n}
                /\ Put(<<Dispatch("READY", n, 1)>>)
          /\ attached' = TRUE
       \/ /\ s # None /\ live = s
          /\ Put([i \in 1..(sent[s] - login[2]) |-> Dispatch("event", s, login[2] + i)]
                 \o <<Dispatch("RESUMED", s, sent[s])>>)
          /\ attached' = TRUE
          /\ UNCHANGED <<live, sent, stored, announced>>
       \/ /\ s # None /\ live # s
          /\ \E op \in {"invalid", "close_fresh"} : Put(<<Frame(op)>>)
          /\ UNCHANGED <<live, sent, attached, stored, announced>>
    /\ UNCHANGED <<clientVars, timerVars, up, beat, joined, env>>

\* An event happens; without a socket it waits for a Resume.
Emit ==
    /\ live # None /\ sent[live] < MaxSeq /\ login = << >>
    /\ sent' = [sent EXCEPT ![live] = @ + 1]
    /\ IF attached /\ up = "open" THEN Put(<<Dispatch("event", live, sent[live] + 1)>>)
       ELSE UNCHANGED line
    /\ UNCHANGED <<clientVars, timerVars, up, login, beat, live, attached, history, env>>

AnswerBeat ==
    /\ up = "open" /\ beat
    /\ beat' = FALSE /\ Put(<<Frame("ack")>>)
    /\ UNCHANGED <<clientVars, timerVars, up, login, live, attached, sent, history, env>>

AsksBeat ==
    /\ up = "open" /\ attached /\ Fail
    /\ Put(<<Frame("beat")>>)
    /\ UNCHANGED <<clientVars, timerVars, up, login, beat, live, attached, sent, history>>

\* QQ ends the connection, with or without the session.
Closing ==
    /\ up = "open" /\ state # "connecting" /\ state # "waiting_identify" /\ Fail
    /\ \E op \in FrameOps \ {"hello", "ack", "beat"} :
          /\ Put(<<Frame(op)>>)
          /\ live' = IF op \in {"invalid", "close_fresh", "close_fatal"} THEN None ELSE live
    /\ attached' = FALSE /\ login' = << >> /\ beat' = FALSE
    /\ UNCHANGED <<clientVars, timerVars, up, sent, history>>

\* QQ forgets a session nobody is connected to.
Forget ==
    /\ live # None /\ ~attached /\ Fail
    /\ live' = None
    /\ UNCHANGED <<clientVars, timerVars, up, line, login, beat, attached, sent, history>>

\* The connection breaks without a close: nothing more arrives.
Silence ==
    /\ up = "open" /\ Fail
    /\ up' = "silent" /\ line' = << >> /\ quietFor' = 0
    /\ UNCHANGED <<clientVars, ackPending, ackAge, beatIn, handIn, login, beat, live, attached,
                   sent, history>>

-----------------------------------------------------------------------------
Adapter == \/ Connect \/ Dial \/ Hello \/ HelloDeadline
           \/ ReadDispatch \/ Store \/ Stored \/ Refused \/ ReadAck \/ ReadBeat \/ ReadEnd
           \/ ReadDeadline \/ Heartbeat
QQ == AnswerLogin \/ AnswerBeat
Next == Adapter \/ DialFails \/ Slows \/ Recovery \/ Stop \/ Tick \/ QQ \/ Emit \/ AsksBeat \/ Closing \/ Forget
        \/ Silence

(* Tasks of the event loop run, timers fire and time passes; a slow phase   *)
(* ends; QQ answers a login and a heartbeat on a socket that is not silent. *)
(* Nothing obliges QQ to send events, and no fault has fairness.            *)
Fairness ==
    /\ WF_vars(Adapter) /\ WF_vars(Store) /\ WF_vars(QQ) /\ WF_vars(Tick) /\ WF_vars(Recovery)

Spec == Init /\ [][Next]_vars /\ Fairness

-----------------------------------------------------------------------------
Envelopes == [op : {"dispatch"}, t : {"READY", "RESUMED", "event"}, s : Sessions, q : 1..MaxSeq]

(* The type of the state. *)
TypeOK ==
    /\ state \in {"idle", "connecting", "waiting_identify", "authenticating", "online",
                  "backoff", "failed", "stopped"}
    /\ connected \in BOOLEAN /\ sid \in 0..MaxSessions /\ seq \in 0..MaxSeq
    /\ failures \in 0..1
    /\ reading = << >> \/ reading \in Envelopes \X {"queued", "stored", "failed"}
    /\ intake \in Seq(Envelopes)
    /\ ackPending \in BOOLEAN /\ ackAge \in 0..Interval
    /\ beatIn \in 0..Interval /\ handIn \in 0..HelloTimeout /\ quietFor \in Nat
    /\ up \in {"none", "open", "silent"}
    /\ \A i \in DOMAIN line : line[i] \in Envelopes \cup [op : FrameOps]
    /\ live \in 0..MaxSessions /\ attached \in BOOLEAN /\ beat \in BOOLEAN
    /\ sent \in [Sessions -> 0..MaxSeq] /\ joined \in [Sessions -> 0..MaxSeq]
    /\ stored \subseteq Sessions \X (1..MaxSeq) /\ announced \subseteq Sessions \X (1..MaxSeq)

Owed(e) == joined[e[1]] # 0 /\ e[2] > joined[e[1]]

(* An event QQ sent after this shard was online in its session is in the    *)
(* inbox, or the session is kept with a cursor that still lies before it,   *)
(* or the loss was announced by on_fresh.  The cursor of READY, the accept  *)
(* that is cancelled half way, heartbeats missed while the inbox is slow    *)
(* and every close code are covered by it.                                  *)
NoSilentGap ==
    \A e \in Emitted : Owed(e) =>
            \/ e \in stored \cup announced
            \/ sid = e[1] /\ (seq = None \/ seq < e[2])

(* A connection that has gone silent is given up within two heartbeat       *)
(* intervals, or within hello_timeout before it is online, however the      *)
(* read task is held up and whoever asked for the last heartbeat.           *)
SilenceIsNoticed == quietFor <= 2 * Interval \/ (~Tasks /\ quietFor <= HelloTimeout)

(* However often connections end, time out or are refused, the shard is     *)
(* online again with every event since it was first online stored or its    *)
(* loss announced, unless it ended for a reason that is final.              *)
CatchesUp ==
    []<>(\/ Ended
         \/ connected /\ \A e \in Emitted : Owed(e) => e \in stored \cup announced)
=============================================================================
