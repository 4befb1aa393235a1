------------------------------ MODULE PanelSync ------------------------------
(***************************************************************************)
(* A command panel the adapter manages at QQ (panels.py): its row, the     *)
(* robot's lock with the one operation that holds it (a synchronization,   *)
(* the confirmation of an override, a plugin's own write), the operation   *)
(* ledger's rows of those writes, and the panels QQ has.                   *)
(*                                                                         *)
(* A panel is known by the operation that created it (its remark and its   *)
(* id are unique).  Its content is the list of items, and whether somebody *)
(* moved it to other targets.                                              *)
(***************************************************************************)
EXTENDS Integers, Sequences, FiniteSets

CONSTANTS
    Bodies,         \* contents a plan, an override or an outsider may give it
    MaxOps,         \* writes
    MaxControl,     \* switches by the operator
    StoreFails,     \* may a row fail to be saved
    MaxFaults       \* failures, cancellations, crashes, outsiders, evictions

VARIABLES
    row,        \* the panels row
    plan,       \* what the applied settings and the catalog ask for
    pc,         \* where the holder of the robot's lock is
    val, want,  \* its copy of the row, and its plan
    ledger,     \* outcome of each write in extension_ops
    remote,     \* QQ: its panels
    wants,      \* history: the operator's last word
    touched,    \* history: panels somebody else changed
    faults

vars == <<row, plan, pc, val, want, ledger, remote, wants, touched, faults>>

NoPanel   == 0
NoBody    == CHOOSE b \in Bodies : TRUE
NoPending == [kind |-> "none", body |-> NoBody, op |-> 0]
NoManual  == NoPending
Content(b) == [body |-> b, moved |-> FALSE]

\* send, msend: execute() has begun, before_send is still to come
\* wire, mwire: QQ has the request
Places == {"idle", "list", "detail", "readback", "send", "wire", "confirm", "msend", "mwire"}
Refuted == {"not_sent", "rejected"}
Fail    == faults < MaxFaults /\ faults' = faults + 1
Settled(op, outcome) == ledger' = [ledger EXCEPT ![op] = outcome]

Init ==
    /\ row = [state |-> "not_managed", enabled |-> FALSE, panel |-> NoPanel,
              prev |-> Content(NoBody), pending |-> NoPending, manual |-> NoManual, cv |-> 0]
    /\ plan \in Bodies /\ pc = "idle" /\ val = row /\ want = plan
    /\ ledger = << >> /\ remote = << >>
    /\ wants = FALSE /\ touched = {} /\ faults = 0

-----------------------------------------------------------------------------
(* How a row is written.                                                   *)

\* _save: what the operator switched meanwhile stays.
Save(v) == row' = [v EXCEPT !.enabled = row.enabled]

Failed(v)  == [v EXCEPT !.state = "failed", !.pending = NoPending]
Unknown(v) == [v EXCEPT !.state = "unknown"]
Synced(v, panel, content) ==
    [v EXCEPT !.state = "synced", !.panel = panel, !.prev = content, !.pending = NoPending]

\* `except V2Error` of sync(), for an error that says nothing was carried out.
Harmless(v) ==
    IF v.pending.kind = "none" \/ v.state = "writing" THEN Failed(v) ELSE Unknown(v)

Releases == pc' = "idle" /\ UNCHANGED <<val, want>>
Operator == UNCHANGED <<plan, wants>>

-----------------------------------------------------------------------------
(* sync()                                                                  *)

\* [Mutated] a write nobody can vouch for is taken for one that failed.
OutcomeHopeful(op) == IF ledger[op] = "unknown" THEN "not_sent" ELSE ledger[op]

Outcome(op) == ledger[op]

\* _reconcile: the ledger decides; where it lost the row, QQ is asked.
Reconcile ==
    LET outcome == Outcome(row.pending.op) IN
    IF outcome \in Refuted THEN pc' = "idle" /\ Save(Failed(row))
    ELSE IF outcome \in {"succeeded", "missing"} THEN pc' = "readback" /\ UNCHANGED row
    ELSE pc' = "idle" /\ Save(Unknown(row))

Sync ==
    /\ pc = "idle" /\ row.enabled
    /\ val' = row /\ want' = plan
    /\ IF row.pending.kind # "none" THEN Reconcile
       ELSE \/ pc' = (IF row.panel # NoPanel THEN "detail" ELSE "list") /\ UNCHANGED row
            \/ pc' = "idle" /\ Save(Failed(row))    \* no stable plan
    /\ Operator /\ UNCHANGED <<ledger, remote, touched, faults>>

\* The pending write is saved before it is sent.
Persist(kind) ==
    LET op == Len(ledger) + 1
        v  == [val EXCEPT !.state = "writing",
                          !.pending = [kind |-> kind, body |-> want, op |-> op]]
    IN  /\ op <= MaxOps /\ ledger' = Append(ledger, "reserved")
        /\ val' = v /\ Save(v) /\ pc' = "send" /\ UNCHANGED want

List ==
    /\ pc = "list" /\ Persist("create")
    /\ Operator /\ UNCHANGED <<remote, touched, faults>>

Detail ==
    /\ pc = "detail"
    /\ LET p == val.panel IN
       IF p \in DOMAIN remote /\ remote[p] = val.prev /\ remote[p].body # want
       THEN Persist("update")
       ELSE /\ Releases /\ UNCHANGED ledger
            /\ IF p \notin DOMAIN remote THEN Save(Failed(val))
               ELSE IF remote[p] # val.prev THEN Save([val EXCEPT !.state = "paused"])
               ELSE Save(Synced(val, p, val.prev))
    /\ Operator /\ UNCHANGED <<remote, touched, faults>>

\* The read-back of a write: only the exact content proves it.
ReadBack ==
    /\ pc = "readback" /\ Releases
    /\ LET p == IF val.pending.kind = "create" THEN val.pending.op ELSE val.panel IN
       IF p \in DOMAIN remote
       THEN IF remote[p] = Content(val.pending.body) THEN Save(Synced(val, p, remote[p]))
            ELSE Save(Unknown(val))
       ELSE IF val.pending.kind = "create" /\ Outcome(val.pending.op) = "missing"
            THEN Save(Unknown(val)) ELSE Save(Harmless(val))
    /\ Operator /\ UNCHANGED <<ledger, remote, touched, faults>>

ReadFails ==
    /\ pc \in {"list", "detail", "readback"} /\ Fail /\ Releases
    /\ \/ Save(Harmless(val))
       \/ pc = "readback" /\ Save(Unknown(val))
    /\ Operator /\ UNCHANGED <<ledger, remote, touched>>

\* before_send looks at the stored row and the plan once more.
Send ==
    /\ pc = "send"
    /\ IF row.enabled /\ plan = want
       THEN Settled(val.pending.op, "in_flight") /\ pc' = "wire" /\ UNCHANGED <<row, val, want>>
       ELSE Settled(val.pending.op, "not_sent") /\ Save(Failed(val)) /\ Releases
    /\ Operator /\ UNCHANGED <<remote, touched, faults>>

\* No token, no free slot, no connection.
SendFails ==
    /\ pc = "send" /\ Fail
    /\ Settled(val.pending.op, "not_sent") /\ Save(Failed(val)) /\ Releases
    /\ Operator /\ UNCHANGED <<remote, touched>>

\* QQ carries out the managed write.
Possible == val.pending.kind = "create" \/ val.panel \in DOMAIN remote
Written  == IF val.pending.kind = "create" THEN val.pending.op ELSE val.panel
Applied  == [p \in DOMAIN remote \cup {Written} |->
                IF p # Written THEN remote[p]
                ELSE IF p \in DOMAIN remote THEN [remote[p] EXCEPT !.body = val.pending.body]
                ELSE Content(val.pending.body)]

Answered ==
    /\ pc = "wire" /\ Possible /\ remote' = Applied
    /\ Settled(val.pending.op, "succeeded") /\ Releases
    /\ Save(Synced(val, Written, Content(val.pending.body)))
    /\ Operator /\ UNCHANGED <<touched, faults>>

Rejected ==
    /\ pc = "wire" /\ IF Possible THEN Fail ELSE UNCHANGED faults
    /\ Settled(val.pending.op, "rejected") /\ Save(Failed(val)) /\ Releases
    /\ Operator /\ UNCHANGED <<remote, touched>>

\* A 401: before_send runs again.
Unauthorized ==
    /\ pc = "wire" /\ Fail /\ pc' = "send"
    /\ Operator /\ UNCHANGED <<row, val, want, ledger, remote, touched>>

Uncertain ==
    /\ pc = "wire" /\ Fail
    /\ remote' \in {remote} \cup (IF Possible THEN {Applied} ELSE {})
    /\ Settled(val.pending.op, "unknown") /\ Save(Unknown(val)) /\ Releases
    /\ Operator /\ UNCHANGED touched

\* The answer is in the ledger, and its row cannot be saved.
SaveFails ==
    /\ StoreFails /\ pc = "wire" /\ Possible /\ Fail
    /\ remote' = Applied /\ Settled(val.pending.op, "succeeded") /\ Releases
    /\ Operator /\ UNCHANGED <<row, touched>>

-----------------------------------------------------------------------------
(* manual_write() and the operator                                         *)

ManualStart ==
    /\ pc = "idle" /\ row.panel # NoPanel /\ row.pending = NoPending /\ row.manual = NoManual
    /\ Len(ledger) < MaxOps /\ ledger' = Append(ledger, "reserved")
    /\ \E kind \in {"update", "delete", "target"}, b \in Bodies :
          /\ kind # "update" => b = NoBody
          /\ row' = [row EXCEPT !.enabled = FALSE, !.state = "paused",
                        !.manual = [kind |-> kind, body |-> b, op |-> Len(ledger) + 1]]
    /\ val' = row /\ pc' = "msend" /\ UNCHANGED want
    /\ Operator /\ UNCHANGED <<remote, touched, faults>>

\* [Mutated] what was there before comes back whatever happened meanwhile.
MayRestoreAlways == TRUE

MayRestore == row.cv = val.cv

\* _restore_failed_manual: for a write that provably changed nothing.
Restore ==
    IF MayRestore
    THEN row' = [row EXCEPT !.enabled = val.enabled, !.state = val.state, !.manual = NoManual]
    ELSE UNCHANGED row

ManualSend ==
    /\ pc = "msend"
    /\ \/ /\ Settled(row.manual.op, "in_flight") /\ pc' = "mwire"
          /\ UNCHANGED <<row, val, want, faults>>
       \/ Fail /\ Settled(row.manual.op, "not_sent") /\ Restore /\ Releases
    /\ Operator /\ UNCHANGED <<remote, touched>>

Overridden ==
    LET p == row.panel IN
    CASE row.manual.kind = "update" -> [remote EXCEPT ![p].body = row.manual.body]
      [] row.manual.kind = "target" -> [remote EXCEPT ![p].moved = TRUE]
      [] OTHER -> [q \in DOMAIN remote \ {p} |-> remote[q]]

ManualAnswered ==
    /\ pc = "mwire" /\ row.panel \in DOMAIN remote /\ remote' = Overridden
    /\ Settled(row.manual.op, "succeeded") /\ Releases
    /\ Operator /\ UNCHANGED <<row, touched, faults>>

ManualRejected ==
    /\ pc = "mwire" /\ IF row.panel \in DOMAIN remote THEN Fail ELSE UNCHANGED faults
    /\ Settled(row.manual.op, "rejected") /\ Restore /\ Releases
    /\ Operator /\ UNCHANGED <<remote, touched>>

ManualUncertain ==
    /\ pc = "mwire" /\ Fail
    /\ remote' \in {remote} \cup (IF row.panel \in DOMAIN remote THEN {Overridden} ELSE {})
    /\ Settled(row.manual.op, "unknown") /\ Releases
    /\ Operator /\ UNCHANGED <<row, touched>>

Enabled(v) ==
    /\ row' = [v EXCEPT !.enabled = TRUE, !.cv = @ + 1]
    /\ wants' = TRUE

\* An override must be proven by the ledger before it is adopted.
Provable == Outcome(row.manual.op) \in
                Refuted \cup (IF row.manual.kind = "target" THEN {} ELSE {"succeeded"})

Enable ==
    /\ pc = "idle" /\ row.cv < MaxControl /\ row.pending = NoPending
    /\ IF row.manual = NoManual THEN Enabled(row) /\ UNCHANGED <<pc, val, want>>
       ELSE /\ Provable /\ pc' = "confirm" /\ val' = row /\ want' = plan
            /\ UNCHANGED <<row, wants>>
    /\ UNCHANGED <<plan, ledger, remote, touched, faults>>

\* _confirm_manual: what QQ shows must be what the override left behind.
Adopted ==
    LET p == val.panel
        done == Outcome(val.manual.op) = "succeeded"
        v == [val EXCEPT !.manual = NoManual, !.state = "paused"]
    IN  IF val.manual.kind = "delete" /\ done
        THEN IF p \in DOMAIN remote THEN {} ELSE {[v EXCEPT !.panel = NoPanel]}
        ELSE IF p \notin DOMAIN remote THEN {}
        ELSE IF val.manual.kind = "update" /\ done
        THEN IF remote[p] # [val.prev EXCEPT !.body = val.manual.body] THEN {}
             ELSE {[v EXCEPT !.prev = remote[p]]}
        ELSE IF remote[p] # val.prev THEN {} ELSE {v}

Confirm ==
    /\ pc = "confirm" /\ Releases
    /\ \/ row = val /\ plan = want /\ \E v \in Adopted : Enabled(v)
       \/ UNCHANGED <<row, wants>>      \* refused, or the read failed
    /\ UNCHANGED <<plan, ledger, remote, touched, faults>>

\* disable() takes no lock.
Disable ==
    /\ row.cv < MaxControl
    /\ row' = [row EXCEPT !.enabled = FALSE, !.cv = @ + 1] /\ wants' = FALSE
    /\ UNCHANGED <<plan, pc, val, want, ledger, remote, touched, faults>>

Apply == /\ plan' \in Bodies \ {plan}
         /\ UNCHANGED <<row, pc, val, want, ledger, remote, wants, touched, faults>>

-----------------------------------------------------------------------------
(* Cancellation, crash, age, and the outside world.                        *)

\* What QQ may have made of the request the holder is waiting for.
Perhaps == {remote} \cup (IF pc = "wire" /\ Possible THEN {Applied}
                          ELSE IF pc = "mwire" /\ row.panel \in DOMAIN remote THEN {Overridden}
                          ELSE {})
Current == IF pc \in {"send", "wire"} THEN val.pending.op ELSE row.manual.op

Cancel ==
    /\ pc # "idle" /\ Fail /\ Releases /\ remote' \in Perhaps
    /\ ledger' = CASE pc \in {"send", "msend"} -> [ledger EXCEPT ![Current] = "not_sent"]
                   [] pc \in {"wire", "mwire"} -> [ledger EXCEPT ![Current] = "unknown"]
                   [] OTHER -> ledger
    /\ IF pc \in {"send", "wire", "readback"} THEN Save(Unknown(val)) ELSE UNCHANGED row
    /\ Operator /\ UNCHANGED touched

\* The end of the process, perhaps between the ledger's commit and the row's;
\* the next start settles the ledger and __init__ the row.
Crash ==
    /\ pc # "idle" /\ Fail /\ Releases /\ remote' \in Perhaps
    /\ ledger' \in IF pc \in {"send", "msend"}
                   THEN {[ledger EXCEPT ![Current] = o] : o \in {"not_sent", "missing"}}
                   ELSE IF pc \in {"wire", "mwire"}
                   THEN {[ledger EXCEPT ![Current] = o] :
                            o \in {"unknown"} \cup (IF remote' # remote THEN {"succeeded"} ELSE {})}
                   ELSE {ledger}
    /\ row' = IF row.state = "writing" THEN Unknown(row) ELSE row
    /\ Operator /\ UNCHANGED touched

\* A settled ledger row loses its result, and after a day is deleted.
Ages ==
    /\ Fail
    /\ \E op \in DOMAIN ledger, how \in {"evicted", "missing"} :
          ledger[op] \in Refuted \cup {"succeeded"} /\ Settled(op, how)
    /\ Operator /\ UNCHANGED <<row, pc, val, want, remote, touched>>

Outsider ==
    /\ Fail
    /\ \E p \in DOMAIN remote :
          /\ touched' = touched \cup {p}
          /\ \/ \E b \in Bodies \ {remote[p].body} : remote' = [remote EXCEPT ![p].body = b]
             \/ remote' = [q \in DOMAIN remote \ {p} |-> remote[q]]
    /\ Operator /\ UNCHANGED <<row, pc, val, want, ledger>>

Next ==
    \/ Sync \/ List \/ Detail \/ ReadBack \/ ReadFails \/ Send \/ SendFails
    \/ Answered \/ Rejected \/ Unauthorized \/ Uncertain \/ SaveFails
    \/ ManualStart \/ ManualSend \/ ManualAnswered \/ ManualRejected \/ ManualUncertain
    \/ Enable \/ Confirm \/ Disable \/ Apply
    \/ Cancel \/ Crash \/ Ages \/ Outsider

Spec == Init /\ [][Next]_vars

-----------------------------------------------------------------------------
Contents == [body : Bodies, moved : BOOLEAN]

(* The type of the state. *)
TypeOK ==
    /\ row.state \in {"not_managed", "synced", "writing", "unknown", "failed", "paused"}
    /\ row.enabled \in BOOLEAN /\ row.panel \in {NoPanel} \cup DOMAIN ledger
    /\ row.prev \in Contents /\ row.cv \in 0..MaxControl
    /\ row.pending.kind \in {"none", "create", "update"}
    /\ row.manual.kind \in {"none", "update", "delete", "target"}
    /\ pc \in Places /\ plan \in Bodies /\ want \in Bodies
    /\ DOMAIN remote \subseteq DOMAIN ledger /\ \A p \in DOMAIN remote : remote[p] \in Contents

(* The docstring of panels.py: "unknown writes reconcile without            *)
(* recreation".  QQ never has a second panel of the adapter's making.       *)
NeverRecreated == Cardinality(DOMAIN remote) <= 1

(* The panel is never created twice; and as long as no write is open in the *)
(* row, the row knows the panel there is and, unless somebody else changed  *)
(* it, its content: whatever was cancelled, cut off by a crash, answered by *)
(* nobody or forgotten by the ledger.                                       *)
KnowsItsPanel ==
    /\ NeverRecreated
    /\ row.pending = NoPending /\ row.manual = NoManual =>
         /\ DOMAIN remote \subseteq {row.panel}
         /\ \A p \in DOMAIN remote \ touched : remote[p] = row.prev

(* A panel the operator switched off stays off until the operator switches  *)
(* it on: a synchronization that was under way and the end of a plugin's    *)
(* own write do not switch it on again.                                     *)
OffStaysOff == row.enabled => wants
=============================================================================
