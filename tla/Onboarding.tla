----------------------------- MODULE Onboarding -----------------------------
(***************************************************************************)
(* Scanning a QR code to bind a robot: an administrator starts a binding   *)
(* for one connection, a worker asks QQ for a QR code and polls for the    *)
(* credential, the page keeps the lease alive, and a commit writes the     *)
(* credential into the connection, which must still be the one the         *)
(* administrator saw.  Requests run between the awaits of the workers.     *)
(* Times are in units of the lease; Life of them is the deadline.          *)
(***************************************************************************)
EXTENDS Integers, FiniteSets

CONSTANTS Tickets,     \* bindings that may be started
          Targets,     \* connections
          Plain,       \* contents of a connection without a bound credential
          NoTarget,
          Life,        \* a binding's deadline
          MaxActive, MaxKept, MaxFailures,
          MaxTime, MaxEdits

VARIABLES
    memory, disk,      \* [target -> content]: the host's configuration; ticket b: b's credential
    now,
    state,             \* [ticket -> binding.state]
    target, print,     \* [ticket -> platform_id, fingerprint of the content it started from]
    lease, deadline,
    holds,             \* [ticket -> subset of {"key", "credential"}]: secrets in memory
    handle, committed, \* [ticket -> BOOLEAN]
    task, hit,         \* [ticket -> what the worker awaits], [ticket -> cancelled and not yet awake]
    failures,          \* [ticket -> polls that failed in a row]
    stopped, edits,
    writes             \* history: [ticket -> commits that saved its credential]

hostVars == <<memory, disk, edits>>
vars == <<memory, disk, now, state, target, print, lease, deadline, holds, handle, committed,
          task, hit, failures, stopped, edits, writes>>

Active == {"creating", "pending", "ready_to_commit"}
Awaits == {"start", "create", "sleep", "poll", "backoff", "validate", "wait"}
Contents == Plain \cup Tickets

Init ==
    /\ \E v \in Plain : memory = [t \in Targets |-> v] /\ disk = [t \in Targets |-> v]
    /\ now = 0
    /\ state = [b \in Tickets |-> "none"] /\ target = [b \in Tickets |-> NoTarget]
    /\ print = [b \in Tickets |-> CHOOSE v \in Plain : TRUE]
    /\ lease = [b \in Tickets |-> 0] /\ deadline = [b \in Tickets |-> 0]
    /\ holds = [b \in Tickets |-> {}]
    /\ handle = [b \in Tickets |-> FALSE] /\ committed = [b \in Tickets |-> FALSE]
    /\ task = [b \in Tickets |-> "none"] /\ hit = [b \in Tickets |-> FALSE]
    /\ failures = [b \in Tickets |-> 0]
    /\ stopped = FALSE /\ edits = 0
    /\ writes = [b \in Tickets |-> 0]

RunOut(b) == now >= deadline[b] \/ now >= lease[b]

\* _check: what stops a binding at this moment, or "ok".
Check(b) == IF stopped \/ state[b] \notin Active THEN "binding_inactive"
            ELSE IF RunOut(b) THEN "binding_expired"
            ELSE IF memory[target[b]] # print[b] THEN "config_conflict"
            ELSE "ok"

(***************************************************************************)
(* Requests.  End(B, s): the bindings of B end as s, their secrets are     *)
(* erased and their workers cancelled; a worker that ended is not woken.   *)
(***************************************************************************)
End(B, s) ==
    /\ state' = [b \in Tickets |-> IF b \in B THEN s ELSE state[b]]
    /\ holds' = [b \in Tickets |-> IF b \in B THEN {} ELSE holds[b]]
    /\ hit' = [b \in Tickets |-> IF b \in B THEN task[b] \in Awaits ELSE hit[b]]

Kept == {b \in Tickets : state[b] \notin {"none", "gone"}}
Stale == {b \in Kept : state[b] \in Active /\ RunOut(b)}
Idle(b) == task[b] \notin Awaits
\* A minute after its deadline (the next unit here) an idle binding is dropped.
Dropped == {b \in Kept : now > deadline[b] /\ Idle(b)}

\* start: sweep, then refuse when the target is taken or nothing is free.
Start(b, t) ==
    LET swept == Kept \ Dropped
        active == {x \in swept : state[x] \in Active /\ x \notin Stale}
        failed == {x \in swept \ Stale : state[x] \in {"cancelled", "failed", "expired"} /\ Idle(x)}
        \* One completed failure makes room for a new binding.
        reclaimed == IF Cardinality(active) < MaxActive /\ Cardinality(swept) >= MaxKept
                     THEN {{x} : x \in failed} \cup {r \in {{}} : failed = {}} ELSE {{}}
        taken == \E x \in active : target[x] = t
    IN /\ ~stopped /\ memory[t] = disk[t] /\ state[b] = "none"
       /\ now + Life < MaxTime
       /\ \E r \in reclaimed :
            LET gone == Dropped \cup (IF taken THEN {} ELSE r)
                starts == ~taken /\ Cardinality(swept \ r) < MaxKept
                          /\ Cardinality(active) < MaxActive
            IN /\ state' = [x \in Tickets |->
                              IF x = b /\ starts THEN "creating" ELSE IF x \in gone THEN "gone"
                              ELSE IF x \in Stale THEN "expired" ELSE state[x]]
               /\ holds' = [x \in Tickets |-> IF x = b /\ starts THEN {"key"}
                                              ELSE IF x \in gone \cup Stale THEN {} ELSE holds[x]]
               /\ hit' = [x \in Tickets |-> hit[x] \/ (x \in Stale /\ ~Idle(x))]
               /\ task' = IF starts THEN [task EXCEPT ![b] = "start"] ELSE task
               /\ target' = IF starts THEN [target EXCEPT ![b] = t] ELSE target
               /\ print' = IF starts THEN [print EXCEPT ![b] = memory[t]] ELSE print
               /\ lease' = IF starts THEN [lease EXCEPT ![b] = now + 1] ELSE lease
               /\ deadline' = IF starts THEN [deadline EXCEPT ![b] = now + Life] ELSE deadline
    /\ UNCHANGED <<hostVars, now, handle, committed, failures, stopped, writes>>

\* _owned: any look at a binding whose time is over ends it.
Expires(b) == state[b] \in Active /\ RunOut(b)
LookExpired(b) ==
    /\ Expires(b)
    /\ End({b}, "expired")
    /\ UNCHANGED <<hostVars, now, target, print, lease, deadline, handle, committed, task,
                   failures, stopped, writes>>

\* status(renew=True)
Renew(b) ==
    /\ state[b] \in Active /\ Check(b) = "ok"
    /\ lease' = [lease EXCEPT ![b] = IF deadline[b] < now + 1 THEN deadline[b] ELSE now + 1]
    /\ UNCHANGED <<hostVars, now, state, target, print, deadline, holds, handle, committed, task,
                   hit, failures, stopped, writes>>

Cancel(b) ==
    /\ b \in Kept /\ state[b] # "configured" /\ ~Expires(b)
    /\ End({b}, "cancelled")
    /\ UNCHANGED <<hostVars, now, target, print, lease, deadline, handle, committed, task,
                   failures, stopped, writes>>

\* connections.save: memory and disk must both be what the fingerprint was taken of;
\* when the host cannot save, its configuration in memory is restored.
Saveable(b) == Check(b) = "ok" /\ disk[target[b]] = print[b]
MayCommit(b) == handle[b] /\ ~committed[b] /\ state[b] = "ready_to_commit" /\ Saveable(b)

\* [Mutated] The worker is left to find out by itself.
CommitNoCancel(b) ==
    /\ MayCommit(b)
    /\ memory' = [memory EXCEPT ![target[b]] = b] /\ disk' = [disk EXCEPT ![target[b]] = b]
    /\ committed' = [committed EXCEPT ![b] = TRUE]
    /\ writes' = [writes EXCEPT ![b] = @ + 1]
    /\ state' = [state EXCEPT ![b] = "configured"] /\ holds' = [holds EXCEPT ![b] = {}]
    /\ UNCHANGED <<edits, now, target, print, lease, deadline, handle, task, hit, failures, stopped>>
Commit(b) ==
    /\ MayCommit(b)
    /\ memory' = [memory EXCEPT ![target[b]] = b] /\ disk' = [disk EXCEPT ![target[b]] = b]
    /\ committed' = [committed EXCEPT ![b] = TRUE]
    /\ writes' = [writes EXCEPT ![b] = @ + 1]
    /\ End({b}, "configured")
    /\ UNCHANGED <<edits, now, target, print, lease, deadline, handle, task, failures, stopped>>

\* The host's save_config raises; the file may have been written all the same.
CommitFails(b) ==
    /\ MayCommit(b)
    /\ disk' = [disk EXCEPT ![target[b]] = b]
    /\ UNCHANGED <<memory, edits, now, state, target, print, lease, deadline, holds, handle,
                   committed, task, hit, failures, stopped, writes>>

Close ==
    /\ ~stopped /\ stopped' = TRUE
    /\ state' = [b \in Tickets |-> IF state[b] \in Active THEN "cancelled" ELSE state[b]]
    /\ holds' = [b \in Tickets |-> {}]
    /\ hit' = [b \in Tickets |-> task[b] \in Awaits]
    /\ UNCHANGED <<hostVars, now, target, print, lease, deadline, handle, committed, task,
                   failures, writes>>

(***************************************************************************)
(* The worker, one action per await it resumes from.  A cancelled worker   *)
(* resumes with CancelledError wherever it is.                             *)
(***************************************************************************)
Worker(b, w, s) == task' = [task EXCEPT ![b] = w] /\ state' = [state EXCEPT ![b] = s]
KeepRest(b) == UNCHANGED <<hostVars, now, target, print, lease, deadline, committed, hit,
                           stopped, writes>>
\* except V2Error, finally
Fails(b, s) ==
    /\ Worker(b, "done", s) /\ holds' = [holds EXCEPT ![b] = {}]
    /\ UNCHANGED <<handle, failures>> /\ KeepRest(b)
Verdict(code) == IF code = "binding_expired" THEN "expired" ELSE "failed"
\* _check, then the next await: the loops check before each sleep.
Goes(b, w, s) ==
    IF Check(b) = "ok" THEN Worker(b, w, s) /\ UNCHANGED <<holds, handle>> /\ KeepRest(b)
    ELSE Fails(b, Verdict(Check(b)))

Cancelled(b) ==
    /\ hit[b] /\ task[b] \in Awaits
    /\ task' = [task EXCEPT ![b] = "done"] /\ hit' = [hit EXCEPT ![b] = FALSE]
    \* A worker that never ran has no except and no finally.
    /\ IF task[b] = "start" THEN UNCHANGED <<state, holds>>
       ELSE /\ state' = [state EXCEPT ![b] = IF @ \in Active THEN "cancelled" ELSE @]
            /\ holds' = [holds EXCEPT ![b] = {}]
    /\ UNCHANGED <<hostVars, now, target, print, lease, deadline, handle, committed, failures,
                   stopped, writes>>

At(b, w) == task[b] = w /\ ~hit[b]
Begins(b)  == At(b, "start") /\ Goes(b, "create", state[b]) /\ UNCHANGED failures
Created(b) == At(b, "create") /\ Goes(b, "sleep", "pending") /\ UNCHANGED failures
Slept(b)   == At(b, "sleep") /\ Goes(b, "poll", state[b]) /\ UNCHANGED failures
\* While the state is "pending" the loop goes on; a wait that ended finds it ended.
BackedOff(b) == At(b, "backoff") /\ Goes(b, "sleep", state[b]) /\ UNCHANGED failures
NotYet(b)  == At(b, "poll") /\ Goes(b, "sleep", state[b])
              /\ failures' = IF Check(b) = "ok" THEN [failures EXCEPT ![b] = 0] ELSE failures
PollFails(b) ==
    /\ At(b, "poll")
    /\ IF failures[b] < MaxFailures
       THEN /\ Worker(b, "backoff", state[b]) /\ failures' = [failures EXCEPT ![b] = @ + 1]
            /\ UNCHANGED <<holds, handle>> /\ KeepRest(b)
       ELSE Fails(b, "failed")
\* A refused request, an unusable answer or a credential that does not decrypt or verify;
\* or QQ says that the code expired.
Refused(b) == At(b, "create") /\ Fails(b, "failed")
PollRefused(b) == At(b, "poll") /\ \E s \in {"failed", "expired"} : Fails(b, s)
Invalid(b) == At(b, "validate") /\ Fails(b, "failed")
Scanned(b) ==
    /\ At(b, "poll")
    /\ IF Check(b) # "ok" THEN Fails(b, Verdict(Check(b)))
       ELSE /\ Worker(b, "validate", state[b]) /\ holds' = [holds EXCEPT ![b] = {"credential"}]
            /\ failures' = [failures EXCEPT ![b] = 0]
            /\ UNCHANGED handle /\ KeepRest(b)
Validated(b) ==
    /\ At(b, "validate")
    /\ IF Check(b) # "ok" THEN Fails(b, Verdict(Check(b)))
       ELSE /\ Worker(b, "wait", "ready_to_commit") /\ handle' = [handle EXCEPT ![b] = TRUE]
            /\ UNCHANGED <<holds, failures>> /\ KeepRest(b)
Watches(b) == At(b, "wait") /\ Check(b) # "ok" /\ Fails(b, Verdict(Check(b)))

Work(b) ==
    \/ Cancelled(b) \/ Begins(b) \/ Created(b) \/ Slept(b) \/ BackedOff(b) \/ NotYet(b)
    \/ PollFails(b) \/ Refused(b) \/ PollRefused(b) \/ Invalid(b) \/ Scanned(b) \/ Validated(b)
    \/ Watches(b)

(***************************************************************************)
(* The host and the clock.                                                 *)
(***************************************************************************)
\* Another page or the host's editor changes a connection, on disk too or not yet.
HostEdit(t, v) ==
    /\ edits < MaxEdits /\ edits' = edits + 1 /\ v # memory[t]
    /\ memory' = [memory EXCEPT ![t] = v]
    /\ disk' \in {disk, [disk EXCEPT ![t] = v]}
    /\ UNCHANGED <<now, state, target, print, lease, deadline, holds, handle, committed, task, hit,
                   failures, stopped, writes>>
Tick == /\ now < MaxTime /\ now' = now + 1
        /\ UNCHANGED <<hostVars, state, target, print, lease, deadline, holds, handle, committed,
                       task, hit, failures, stopped, writes>>

Next ==
    \/ \E b \in Tickets : \/ \E t \in Targets : Start(b, t)
                          \/ LookExpired(b) \/ Renew(b) \/ Cancel(b) \/ Commit(b) \/ CommitFails(b)
                          \/ Work(b)
    \/ \E t \in Targets, v \in Plain : HostEdit(t, v)
    \/ Close \/ Tick

\* Every await of a worker ends (each request has a timeout), and time passes.
Fairness == WF_vars(Tick) /\ \A b \in Tickets : WF_vars(Work(b))
Spec == Init /\ [][Next]_vars /\ Fairness

(***************************************************************************)
(* Properties.                                                             *)
(***************************************************************************)
TypeOK ==
    /\ memory \in [Targets -> Contents] /\ disk \in [Targets -> Contents]
    /\ state \in [Tickets -> Active \cup {"none", "gone", "configured", "cancelled", "expired", "failed"}]
    /\ task \in [Tickets -> Awaits \cup {"none", "done"}] /\ hit \in [Tickets -> BOOLEAN]
    /\ target \in [Tickets -> Targets \cup {NoTarget}] /\ print \in [Tickets -> Contents]
    /\ holds \in [Tickets -> SUBSET {"key", "credential"}]
    /\ failures \in [Tickets -> 0..MaxFailures]

\* What the page is told of a binding (view, lines 90-93) is what happened to the connection: one
\* that says "configured" saved its credential, once, and one that says it is under way, cancelled,
\* expired or failed saved none, whichever of worker, commit and expiry came last.
SaysWhatItWrote ==
    \A b \in Tickets :
        /\ writes[b] <= 1
        /\ state[b] = "configured" => writes[b] = 1
        /\ state[b] \notin {"configured", "gone"} => writes[b] = 0

\* A binding that is over keeps neither key nor credential in memory, also when its worker was
\* cancelled before it ran or found the end by itself (erase in each place a binding ends).
EndedIsErased == \A b \in Tickets : state[b] \notin Active => holds[b] = {}

\* A connection has at most one binding under way, whatever expires while another is started.
OneLease ==
    \A a, b \in Tickets : a # b /\ state[a] \in Active /\ state[b] \in Active => target[a] # target[b]

\* The three together: what a binding claims, keeps and occupies.
BindingSound == SaysWhatItWrote /\ EndedIsErased /\ OneLease

\* A binding nobody looks at any more ends by itself and gives its secrets up, whatever its worker
\* was doing, however often the page renewed it.
Ended(b) == state[b] \notin Active /\ holds[b] = {}
EndsByItself == \A b \in Tickets : state[b] \in Active ~> Ended(b)
=============================================================================
