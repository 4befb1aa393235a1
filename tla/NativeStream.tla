---------------------------- MODULE NativeStream ----------------------------
(***************************************************************************)
(* One streamed reply in a private chat (messaging/streaming.py with       *)
(* messaging/reply.py): one logical operation, many fragments, each a      *)
(* write of its own.  QQ shows every fragment as it arrives, so a stream   *)
(* that breaks half way can neither be repeated nor called unsent.         *)
(*                                                                         *)
(* The streams of the model answer one source.  A fragment's own ledger    *)
(* row (ExtensionLedger) is seen through what execute returns or raises.   *)
(***************************************************************************)
EXTENDS Integers, Sequences, FiniteSets

CONSTANTS
    Streams,        \* logical operations
    Sourceless,     \* those that answer nothing
    MaxTasks,       \* streams under way (8)
    MaxFrags,       \* fragments of a generator (4096)
    MaxFaults       \* failures of QQ, the network, the generator, the process

VARIABLES
    source,     \* row of the source: "open", "expired", "active" (blocked, but
                \* a code that allows active delivery), "blocked"
    row,        \* operations.state of each stream, "none" before reserve
    pc,         \* where send() is
    mode,       \* ReplyDelivery: "passive", "active", "fallback" (active for a reason)
    index,      \* fragments QQ confirmed
    retry,      \* the second try of this fragment
    attempted, final,
    \* QQ and history
    took,       \* the fragments QQ took, in order
    doubt,      \* streams with a fragment whose fate send() could not learn
    faults

vars == <<source, row, pc, mode, index, retry, attempted, final, took, doubt, faults>>

\* ask: waits for the generator     frame: about to submit a fragment
\* wire: before_send is through     pause: waits to repeat a fragment
Places == {"idle", "ask", "frame", "wire", "pause", "done"}
Tasks  == {s \in Streams : pc[s] \notin {"idle", "done"}}

Fail     == faults < MaxFaults /\ faults' = faults + 1
LastId(s) == index[s] > 0
Passive(s) == mode[s] = "passive"
Put(f, s, v) == [f EXCEPT ![s] = v]

Init ==
    /\ source = "open" /\ row = [s \in Streams |-> "none"]
    /\ pc = [s \in Streams |-> "idle"] /\ mode = [s \in Streams |-> "active"]
    /\ index = [s \in Streams |-> 0] /\ retry = {} /\ attempted = {} /\ final = {}
    /\ took = [s \in Streams |-> << >>] /\ doubt = {} /\ faults = 0

-----------------------------------------------------------------------------
(* How send() ends.                                                        *)

\* [Mutated] the phase of the last error decides.
VerdictOfPhase(s, phase) ==
    CASE phase = "none" -> IF s \in attempted THEN "unknown" ELSE "not_sent"
      [] phase = "result_unknown" -> "unknown"
      [] OTHER -> phase

\* Once QQ has confirmed a fragment the whole stream can only be unknown; an
\* exception without a phase is judged by whether anything was submitted.
Verdict(s, phase) ==
    IF LastId(s) \/ phase = "result_unknown" THEN "unknown"
    ELSE IF phase # "none" THEN phase
    ELSE IF s \in attempted THEN "unknown" ELSE "not_sent"

Abort(s, phase) ==
    /\ pc' = Put(pc, s, "done")
    /\ row' = IF row[s] = "none" THEN row ELSE Put(row, s, Verdict(s, phase))
    /\ UNCHANGED <<mode, index, retry, attempted, final>>

\* switch(): the row gives its sequence back and is only reserved again.
Switch(s) ==
    /\ mode' = Put(mode, s, "fallback") /\ row' = Put(row, s, "reserved")
    /\ pc' = Put(pc, s, "frame") /\ attempted' = attempted \ {s} /\ retry' = retry \ {s}
    /\ UNCHANGED <<index, final>>

-----------------------------------------------------------------------------
Start(s) ==
    /\ pc[s] = "idle" /\ Cardinality(Tasks) < MaxTasks
    /\ pc' = Put(pc, s, "ask")
    /\ UNCHANGED <<source, row, mode, index, retry, attempted, final, took, doubt, faults>>

\* Text arrives; the first of it reserves the operation.
Text(s) ==
    /\ pc[s] = "ask" /\ index[s] < MaxFrags
    /\ IF row[s] = "none" /\ s \notin Sourceless /\ source = "blocked"
       THEN pc' = Put(pc, s, "done") /\ UNCHANGED <<row, mode>>
       ELSE /\ pc' = Put(pc, s, "frame")
            /\ row' = IF row[s] = "none" THEN Put(row, s, "reserved") ELSE row
            /\ mode' = IF row[s] # "none" \/ s \in Sourceless THEN mode
                       ELSE Put(mode, s, IF source = "open" THEN "passive" ELSE "fallback")
    /\ retry' = retry \ {s}
    /\ UNCHANGED <<source, index, attempted, final, took, doubt, faults>>

\* The generator is exhausted: one last fragment ends the stream at QQ.
Finish(s) ==
    /\ pc[s] = "ask" /\ LastId(s)
    /\ pc' = Put(pc, s, "frame") /\ final' = final \cup {s} /\ retry' = retry \ {s}
    /\ UNCHANGED <<source, row, mode, index, attempted, took, doubt, faults>>

\* A generator that fails or changes its format, a deadline, a cancelled
\* task, close(): with a phase or without.
Interrupted(s) ==
    /\ pc[s] \in {"ask", "frame", "pause"} /\ Fail
    /\ \E phase \in {"none", "not_sent"} : Abort(s, phase)
    /\ UNCHANGED <<source, took, doubt>>

\* before_send: the reply window is looked at until the first fragment is
\* confirmed; afterwards a passive stream needs its source to the end.
Submit(s) ==
    /\ pc[s] = "frame"
    /\ IF Passive(s) /\ ~LastId(s) /\ source \in {"expired", "active"} THEN Switch(s)
       ELSE IF Passive(s) /\ source # "open" THEN Abort(s, "not_sent")
       ELSE IF mode[s] = "fallback" /\ ~LastId(s) /\ source = "blocked" THEN Abort(s, "not_sent")
       ELSE /\ pc' = Put(pc, s, "wire") /\ row' = Put(row, s, "in_flight")
            /\ attempted' = attempted \cup {s}
            /\ UNCHANGED <<mode, index, retry, final>>
    /\ UNCHANGED <<source, took, doubt, faults>>

PauseEnds(s) ==
    /\ pc[s] = "pause"
    /\ pc' = Put(pc, s, "frame") /\ retry' = retry \cup {s}
    /\ UNCHANGED <<source, row, mode, index, attempted, final, took, doubt, faults>>

-----------------------------------------------------------------------------
(* What becomes of a submitted fragment.                                   *)

Frame(s) == [index |-> index[s], final |-> s \in final]

Confirmed(s) ==
    /\ pc[s] = "wire"
    /\ took' = Put(took, s, Append(took[s], Frame(s)))
    /\ index' = Put(index, s, index[s] + 1)
    /\ pc' = Put(pc, s, IF s \in final THEN "done" ELSE "ask")
    /\ row' = IF s \in final THEN Put(row, s, "sent") ELSE row
    /\ UNCHANGED <<source, mode, retry, attempted, final, doubt, faults>>

\* 429 or 50002: once more, the same fragment.
Busy(s) ==
    /\ pc[s] = "wire" /\ Fail
    /\ IF s \in retry THEN Abort(s, "rejected")
       ELSE pc' = Put(pc, s, "pause") /\ UNCHANGED <<row, mode, index, retry, attempted, final>>
    /\ UNCHANGED <<source, took, doubt>>

Refused(s) ==
    /\ pc[s] = "wire" /\ Fail /\ Abort(s, "rejected")
    /\ UNCHANGED <<source, took, doubt>>

\* QQ does not take the source any more: before the first fragment, and for
\* some codes, the stream goes on as an active message.
SourceRefused(s) ==
    /\ pc[s] = "wire" /\ Passive(s) /\ Fail
    /\ \E code \in {"active", "blocked"} :
          /\ source' = IF source = "blocked" THEN "blocked" ELSE code
          /\ IF code = "active" /\ ~LastId(s) THEN Switch(s) ELSE Abort(s, "rejected")
    /\ UNCHANGED <<took, doubt>>

\* A 401 within one execute: before_send runs again for the second exchange.
Unauthorized(s) ==
    /\ pc[s] = "wire" /\ Fail
    /\ IF mode[s] = "fallback" /\ ~LastId(s) THEN Abort(s, "rejected")
       ELSE IF Passive(s) /\ ~LastId(s) /\ source \in {"expired", "active"} THEN Switch(s)
       ELSE IF Passive(s) /\ source # "open" THEN Abort(s, "not_sent")
       ELSE UNCHANGED <<row, pc, mode, index, retry, attempted, final>>
    /\ UNCHANGED <<source, took, doubt>>

\* No usable answer: a timeout, a 5xx, 50001, no stable id, a cancelled task.
Uncertain(s) ==
    /\ pc[s] = "wire" /\ Fail
    /\ took' \in {took, Put(took, s, Append(took[s], Frame(s)))}
    /\ doubt' = doubt \cup {s}
    /\ Abort(s, "result_unknown") /\ UNCHANGED source

SourceExpires ==
    /\ source = "open" /\ source' = "expired"
    /\ UNCHANGED <<row, pc, mode, index, retry, attempted, final, took, doubt, faults>>

\* The process ends; the next one finds the rows (MessageStore.__init__).
Crash ==
    /\ Tasks # {} /\ Fail
    /\ pc' = [s \in Streams |-> IF s \in Tasks THEN "done" ELSE pc[s]]
    /\ row' = [s \in Streams |-> CASE row[s] = "in_flight" -> "unknown"
                                   [] row[s] = "reserved" -> "not_sent"
                                   [] OTHER -> row[s]]
    /\ \E lost \in SUBSET {s \in Streams : pc[s] = "wire"} :
          took' = [s \in Streams |-> IF s \in lost THEN Append(took[s], Frame(s)) ELSE took[s]]
    /\ doubt' = doubt \cup {s \in Streams : pc[s] = "wire"}
    /\ UNCHANGED <<source, mode, index, retry, attempted, final>>

Next ==
    \/ \E s \in Streams : Start(s) \/ Text(s) \/ Finish(s) \/ Interrupted(s) \/ Submit(s)
                          \/ PauseEnds(s) \/ Confirmed(s) \/ Busy(s) \/ Refused(s)
                          \/ SourceRefused(s) \/ Unauthorized(s) \/ Uncertain(s)
    \/ SourceExpires \/ Crash

Spec == Init /\ [][Next]_vars

-----------------------------------------------------------------------------
(* The type of the state. *)
TypeOK ==
    /\ source \in {"open", "expired", "active", "blocked"}
    /\ row \in [Streams -> {"none", "reserved", "in_flight", "sent", "not_sent", "rejected",
                            "unknown"}]
    /\ pc \in [Streams -> Places] /\ mode \in [Streams -> {"passive", "active", "fallback"}]
    /\ index \in [Streams -> 0..MaxFrags + 1]
    /\ retry \subseteq Streams /\ attempted \subseteq Streams /\ final \subseteq Streams

InOrder(s) == \A i \in DOMAIN took[s] : /\ took[s][i].index = i - 1
                                        /\ took[s][i].final => i = Len(took[s])
NothingAfterDoubt(s) == s \in doubt => pc[s] = "done" /\ row[s] = "unknown"
HonestVerdict(s) ==
    /\ row[s] = "sent" => took[s] # << >> /\ took[s][Len(took[s])].final
    /\ row[s] \in {"none", "reserved", "not_sent", "rejected"} => took[s] = << >>
    /\ pc[s] = "done" => row[s] \notin {"reserved", "in_flight"}

(* QQ is given the fragments of a stream in order, each once, and none      *)
(* after one whose fate is unknown; the ledger says not_sent or rejected    *)
(* only when QQ shows nothing of the stream, and sent only when it shows    *)
(* all of it: across retries, a switch of the delivery mode, a second       *)
(* authentication, deadlines and crashes.                                   *)
StreamHonest == \A s \in Streams : InOrder(s) /\ NothingAfterDoubt(s) /\ HonestVerdict(s)
=============================================================================
