---------------------------- MODULE TokenRefresh ----------------------------
(***************************************************************************)
(* The access token of one HTTPTransport: a single refresh task that every *)
(* request waits for, the one 401 a request may answer with a refresh, the *)
(* retries of reads, and close() with everything still under way.          *)
(*                                                                         *)
(* A request waits for the task it found, not for whatever task is current *)
(* when it wakes up; requests keep the token they were given.              *)
(***************************************************************************)
EXTENDS Integers, FiniteSets

CONSTANTS
    Calls,          \* requests
    Writes,         \* those whose method is not GET or HEAD
    Slots,          \* HTTPTransport._slots (6)
    MaxActive,      \* outstanding requests (32)
    MaxAttempts,    \* max_attempts (3), of a read and of a refresh
    MaxTokens,      \* tokens QQ issues
    MaxFaults       \* failures, revocations, expiries

None == 0
Pending == 0
Lost == -1

VARIABLES
    token, fresh,       \* _token, and clock() < _expires
    refresh,            \* the number of the task _refresh points to
    tasks,              \* refresh tasks: Pending, Lost, or the token
    tries,              \* attempts of the running task
    place, tok,         \* of each request: where it is, with which token
    awaits,             \* the refresh task it waits for
    refreshed, attempts,
    closed, cleared,    \* closed; _close_owned has ended
    \* QQ
    issued, valid,      \* tokens issued; those QQ still takes
    \* history
    refused,            \* tokens QQ answered a request of ours with 401
    copies,             \* exchanges of each request QQ may have carried out
    faults

own  == <<token, fresh, refresh, tasks, tries>>
call == <<place, tok, awaits, refreshed, attempts>>
qq   == <<issued, valid>>
hist == <<refused, copies>>
vars == <<own, call, closed, cleared, qq, hist, faults>>

\* slot: waits for _slots; token, retoken: waits for a refresh, before the
\* first exchange or after a 401; pause: waits to repeat a read
Places == {"idle", "slot", "token", "retoken", "wire", "pause", "done", "failed"}
Active  == {c \in Calls : place[c] \notin {"idle", "done", "failed"}}
Slotted == Active \ {c \in Calls : place[c] = "slot"}
Fail    == faults < MaxFaults /\ faults' = faults + 1
Running == refresh # None /\ tasks[refresh] = Pending

Init ==
    /\ token = None /\ fresh = FALSE /\ refresh = None /\ tasks = << >> /\ tries = 0
    /\ place = [c \in Calls |-> "idle"] /\ tok = [c \in Calls |-> None]
    /\ awaits = [c \in Calls |-> None] /\ refreshed = {}
    /\ attempts = [c \in Calls |-> 0]
    /\ closed = FALSE /\ cleared = FALSE
    /\ issued = 0 /\ valid = {} /\ refused = {} /\ copies = [c \in Calls |-> 0]
    /\ faults = 0

-----------------------------------------------------------------------------
(* token()                                                                 *)

\* [Mutated] any 401 discards the token, whichever it was for.
StillFreshAny(rejected) == token # None /\ fresh /\ rejected = None

\* A rejected token is only discarded while it is the current one.
StillFresh(rejected) == token # None /\ fresh /\ token # rejected

\* Request c asks for a token, having had `rejected` refused.
AskToken(c, rejected, waiting) ==
    /\ fresh' = (fresh /\ token # rejected)
    /\ IF StillFresh(rejected)
       THEN /\ place' = [place EXCEPT ![c] = "wire"] /\ tok' = [tok EXCEPT ![c] = token]
            /\ UNCHANGED <<refresh, tasks, tries, awaits>>
       ELSE /\ place' = [place EXCEPT ![c] = waiting] /\ UNCHANGED tok
            /\ IF Running
               THEN /\ awaits' = [awaits EXCEPT ![c] = refresh]
                    /\ UNCHANGED <<refresh, tasks, tries>>
               ELSE /\ refresh' = Cardinality(DOMAIN tasks) + 1
                    /\ tasks' = [t \in 1..refresh' |-> IF t = refresh' THEN Pending ELSE tasks[t]]
                    /\ tries' = 0
                    /\ awaits' = [awaits EXCEPT ![c] = refresh']

\* The waiter of a finished refresh goes on with that task's token.
TokenReady(c) ==
    /\ place[c] \in {"token", "retoken"} /\ tasks[awaits[c]] # Pending
    /\ LET t == tasks[awaits[c]] IN
       IF t = Lost \/ closed
       THEN place' = [place EXCEPT ![c] = "failed"] /\ UNCHANGED tok
       ELSE place' = [place EXCEPT ![c] = "wire"] /\ tok' = [tok EXCEPT ![c] = t]
    /\ UNCHANGED <<own, awaits, refreshed, attempts, closed, cleared, qq, hist, faults>>

-----------------------------------------------------------------------------
(* _fetch_token                                                            *)

\* check() between the answer and the assignment.
Takes == ~closed

\* QQ issues a token; the answer is taken unless the transport was closed.
Fetched ==
    /\ Running /\ issued < MaxTokens
    /\ issued' = issued + 1 /\ valid' = valid \cup {issued + 1}
    /\ IF Takes
       THEN /\ token' = issued + 1 /\ fresh' = TRUE
            /\ tasks' = [tasks EXCEPT ![refresh] = issued + 1]
       ELSE /\ tasks' = [tasks EXCEPT ![refresh] = Lost] /\ UNCHANGED <<token, fresh>>
    /\ UNCHANGED <<refresh, tries, call, closed, cleared, hist, faults>>

FetchFails ==
    /\ Running /\ Fail
    /\ \/ tries + 1 < MaxAttempts /\ tries' = tries + 1 /\ UNCHANGED tasks
       \/ tasks' = [tasks EXCEPT ![refresh] = Lost] /\ UNCHANGED tries
    /\ UNCHANGED <<token, fresh, refresh, call, closed, cleared, qq, hist>>

-----------------------------------------------------------------------------
(* request()                                                               *)

Begin(c) ==
    /\ place[c] = "idle" /\ ~closed
    /\ place' = [place EXCEPT ![c] =
                    IF Cardinality(Active) >= MaxActive THEN "failed" ELSE "slot"]
    /\ UNCHANGED <<own, tok, awaits, refreshed, attempts, closed, cleared, qq, hist, faults>>

GetSlot(c) ==
    /\ place[c] = "slot" /\ Cardinality(Slotted) < Slots
    /\ IF closed THEN place' = [place EXCEPT ![c] = "failed"] /\ UNCHANGED <<own, tok, awaits>>
       ELSE AskToken(c, None, "token") /\ UNCHANGED token
    /\ UNCHANGED <<refreshed, attempts, closed, cleared, qq, hist, faults>>

\* [Mutated] every method is repeated.
MayRepeatAny(c) == attempts[c] + 1 < MaxAttempts

\* Only reads are repeated after an error.
MayRepeat(c) == c \notin Writes /\ attempts[c] + 1 < MaxAttempts

\* QQ answers 401 for a token it does not take: once, with a new token.
Unauthorized(c) ==
    /\ place[c] = "wire" /\ tok[c] \notin valid
    /\ refused' = refused \cup {tok[c]}
    /\ IF c \in refreshed \/ closed
       THEN place' = [place EXCEPT ![c] = "failed"] /\ UNCHANGED <<own, tok, awaits, refreshed>>
       ELSE /\ refreshed' = refreshed \cup {c}
            /\ AskToken(c, tok[c], "retoken") /\ UNCHANGED token
    /\ UNCHANGED <<attempts, closed, cleared, qq, copies, faults>>

Answered(c) ==
    /\ place[c] = "wire" /\ tok[c] \in valid
    /\ copies' = [copies EXCEPT ![c] = @ + 1]
    /\ place' = [place EXCEPT ![c] = "done"]
    /\ UNCHANGED <<own, tok, awaits, refreshed, attempts, closed, cleared, qq, refused, faults>>

\* A 5xx, a 429 or a broken connection; QQ may have carried it out.
Broken(c) ==
    /\ place[c] = "wire" /\ Fail
    /\ copies' \in {copies, [copies EXCEPT ![c] = @ + 1]}
    /\ IF MayRepeat(c) /\ ~closed
       THEN /\ place' = [place EXCEPT ![c] = "pause"]
            /\ attempts' = [attempts EXCEPT ![c] = @ + 1]
       ELSE place' = [place EXCEPT ![c] = "failed"] /\ UNCHANGED attempts
    /\ UNCHANGED <<own, tok, awaits, refreshed, closed, cleared, qq, refused>>

Repeat(c) ==
    /\ place[c] = "pause"
    /\ place' = [place EXCEPT ![c] = IF closed THEN "failed" ELSE "wire"]
    /\ UNCHANGED <<own, tok, awaits, refreshed, attempts, closed, cleared, qq, hist, faults>>

\* The deadline over all of it, or a cancelled caller: the refresh a request
\* waits for is shielded and goes on.
Deadline(c) ==
    /\ c \in Active /\ Fail
    /\ place' = [place EXCEPT ![c] = "failed"]
    /\ copies' \in {copies} \cup (IF place[c] = "wire" /\ tok[c] \in valid
                                  THEN {[copies EXCEPT ![c] = @ + 1]} ELSE {})
    /\ UNCHANGED <<own, tok, awaits, refreshed, attempts, closed, cleared, qq, refused>>

-----------------------------------------------------------------------------
(* close(), QQ and the clock                                               *)

\* closed is set first; the cancellations follow, and a task may take longer
\* than the second close() waits for it.
Close ==
    /\ ~closed /\ closed' = TRUE
    /\ UNCHANGED <<own, call, cleared, qq, hist, faults>>

CloseOwned ==
    /\ closed /\ ~cleared /\ cleared' = TRUE
    /\ \E late \in SUBSET Active :
          place' = [c \in Calls |-> IF c \in Active \ late THEN "failed" ELSE place[c]]
    /\ \E survives \in BOOLEAN :
          tasks' = IF Running /\ ~survives THEN [tasks EXCEPT ![refresh] = Lost] ELSE tasks
    /\ token' = None /\ fresh' = FALSE
    /\ UNCHANGED <<refresh, tries, tok, awaits, refreshed, attempts, closed, qq, hist, faults>>

Expires == /\ fresh /\ Fail /\ fresh' = FALSE
           /\ UNCHANGED <<token, refresh, tasks, tries, call, closed, cleared, qq, hist>>

\* QQ takes a token no longer, before the time it gave.
Revokes == /\ Fail /\ \E t \in valid : valid' = valid \ {t}
           /\ UNCHANGED <<own, call, closed, cleared, issued, hist>>

Next ==
    \/ \E c \in Calls : Begin(c) \/ GetSlot(c) \/ TokenReady(c) \/ Unauthorized(c)
                        \/ Answered(c) \/ Broken(c) \/ Repeat(c) \/ Deadline(c)
    \/ Fetched \/ FetchFails \/ Close \/ CloseOwned \/ Expires \/ Revokes

Spec == Init /\ [][Next]_vars

-----------------------------------------------------------------------------
(* The type of the state. *)
TypeOK ==
    /\ token \in 0..MaxTokens /\ fresh \in BOOLEAN
    /\ refresh \in {None} \cup DOMAIN tasks /\ tries \in 0..MaxAttempts
    /\ \A t \in DOMAIN tasks : tasks[t] \in {Pending, Lost} \cup 1..MaxTokens
    /\ place \in [Calls -> Places] /\ tok \in [Calls -> 0..MaxTokens]
    /\ awaits \in [Calls -> {None} \cup DOMAIN tasks]
    /\ valid \subseteq 1..issued /\ refused \subseteq 1..issued

(* A token is fetched again only when there is none, its time is over, or   *)
(* QQ itself refused it: a 401 that a slow request gets for an older token  *)
(* never costs the newer one, and requests that need one share a refresh.   *)
SparesTokens ==
    [][DOMAIN tasks' # DOMAIN tasks
        => (token = None \/ ~fresh \/ token \in refused') /\ ~Running]_vars

(* A write QQ may have carried out is never sent again, whatever its answer *)
(* was, and a closed transport holds no token again, however late a refresh *)
(* ends that close() did not wait for.                                      *)
NoSecondCopy ==
    /\ \A c \in Writes : copies[c] <= 1
    /\ cleared => token = None
=============================================================================
