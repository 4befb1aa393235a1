------------------------------ MODULE JoinFlags ------------------------------
(***************************************************************************)
(* Answering one request to join a group (extensions/management.py): the   *)
(* flag under which plugins see the request, its row in join_flags, the    *)
(* answers under way, and the row of each answer in the operation ledger,  *)
(* whose id is made from the flag.  A flag is known by its number.         *)
(***************************************************************************)
EXTENDS Naturals, FiniteSets

CONSTANTS
    Callers,    \* tasks answering: plugins, the console, a OneBot client
    MaxFlags,   \* flags issued
    MaxFaults   \* lost answers, refusals, cancellations, crashes

VARIABLES
    row,        \* join_flags: state, flag, and its age: 1 once expired, 2 a day old
    at, holds,  \* each caller's place, and the flag it read the row by
    ledger,     \* extension_ops, by flag
    reached,    \* history: what became of each answer at QQ
    letIn,      \* history: flags whose applicant was seen to be let in
    lapsed,     \* history: flags whose row was deleted after its day
    faults

vars == <<row, at, holds, ledger, reached, letIn, lapsed, faults>>
fates == <<letIn, lapsed>>

NoFlag == 0
Flags  == 1..MaxFlags
NoRow  == [state |-> "none", flag |-> NoFlag, age |-> 0]

Init ==
    /\ row = NoRow /\ at = [c \in Callers |-> "idle"] /\ holds = [c \in Callers |-> NoFlag]
    /\ ledger = [f \in Flags |-> "none"] /\ reached = [f \in Flags |-> "no"]
    /\ letIn = {} /\ lapsed = {} /\ faults = 0

Fail == faults < MaxFaults /\ faults' = faults + 1
Move(c, place) == at' = [at EXCEPT ![c] = place]
Settle(f, outcome) == ledger' = [ledger EXCEPT ![f] = outcome]
Reach(f, what) == reached' = [reached EXCEPT ![f] = what]

-----------------------------------------------------------------------------
(* Seeing the request                                                      *)

Live    == {"pending", "retryable"}
\* [Mutated] a day ends the fence of an answer of unknown fate, too.
SettledOrAttempted == {"succeeded", "observed_approved", "attempted"}
Settled == {"succeeded", "observed_approved"}

\* What the next observation deletes, of this request or of any other.
Gone == (row.state \in Live /\ row.age > 0) \/ (row.state \in Settled /\ row.age = 2)
Forgets == lapsed' = IF Gone /\ row.state \notin Live THEN lapsed \cup {row.flag} ELSE lapsed

Reissues(fresh) == row.state = "none" \/ Gone \/ (fresh /\ row.state \in Live)

\* observe_request: a listing shows the request (fresh), or an event that may be old.
Observe(fresh) ==
    /\ IF Reissues(fresh)
       THEN \E f \in Flags, age \in IF fresh THEN {0} ELSE 0..2 :
               /\ ledger[f] = "none" /\ \A g \in Flags : g < f => ledger[g] # "none"
               /\ row' = [state |-> "pending", flag |-> f, age |-> age]
               /\ Settle(f, "issued") /\ Forgets
       ELSE UNCHANGED <<row, ledger, lapsed>>
    /\ UNCHANGED <<at, holds, reached, letIn, faults>>

\* Another request is observed.
ObserveOther ==
    /\ Gone /\ row' = NoRow /\ Forgets
    /\ UNCHANGED <<at, holds, ledger, reached, letIn, faults>>

\* An event shows that QQ let the applicant in.
AutoApproved ==
    /\ row.state # "none"
    /\ row' = [row EXCEPT !.state = "observed_approved"] /\ letIn' = letIn \cup {row.flag}
    /\ UNCHANGED <<at, holds, ledger, reached, lapsed, faults>>

\* The flag expires; a day passes since the request was seen.
Expire ==
    /\ row.state # "none" /\ row.age < 2 /\ row' = [row EXCEPT !.age = @ + 1]
    /\ UNCHANGED <<at, holds, ledger, reached, fates, faults>>

-----------------------------------------------------------------------------
(* approve()                                                               *)

\* The flag is looked up, and the robot's role is asked for.
Approve(c) ==
    /\ at[c] = "idle" /\ row.state = "pending" /\ row.age = 0
    /\ holds' = [holds EXCEPT ![c] = row.flag] /\ Move(c, "role")
    /\ UNCHANGED <<row, ledger, reached, faults, fates>>

NotAdmin(c) ==
    /\ at[c] = "role" /\ Move(c, "idle")
    /\ UNCHANGED <<row, holds, ledger, reached, faults, fates>>

Mine(c, states) == row.flag = holds[c] /\ row.state \in states

\* except V2Error: only what provably did not happen.
MayRetry(phase) == phase \in {"not_sent", "rejected"}

\* approve() returns or raises: the ledger's outcome goes into the row.
Return(c, phase) ==
    /\ Move(c, "idle")
    /\ row' = IF phase = "succeeded"
              THEN IF Mine(c, {"attempted"}) THEN [row EXCEPT !.state = "succeeded"] ELSE row
              ELSE IF MayRetry(phase) /\ Mine(c, {"pending", "attempted"})
                   THEN [row EXCEPT !.state = "retryable"] ELSE row

\* ExtensionStore.begin under the flag's operation id.
Begin(c) ==
    /\ at[c] = "role"
    /\ LET f == holds[c] IN
       IF ledger[f] = "issued" THEN /\ Settle(f, "reserved") /\ Move(c, "begun") /\ UNCHANGED row
       ELSE /\ Return(c, CASE ledger[f] = "succeeded" -> "succeeded"
                           [] ledger[f] \in {"unknown", "in_flight"} -> "result_unknown"
                           [] OTHER -> "not_sent")
            /\ UNCHANGED ledger
    /\ UNCHANGED <<holds, reached, faults, fates>>

\* The condition of claim()'s UPDATE.
Claimable(c) == row.age = 0 /\ Mine(c, {"pending", "attempted"})

\* before_send: the row is claimed, then the ledger is in flight.
Send(c) ==
    /\ at[c] = "begun"
    /\ LET f == holds[c] IN
       IF Claimable(c)
       THEN /\ row' = [row EXCEPT !.state = "attempted"] /\ Settle(f, "in_flight")
            /\ Move(c, "wire") /\ Reach(f, "maybe")
       ELSE Settle(f, "not_sent") /\ Return(c, "not_sent") /\ UNCHANGED reached
    /\ UNCHANGED <<holds, faults, fates>>

\* No token, no slot, no connection; the switch was turned off; the service closes.
SendFails(c) ==
    /\ at[c] = "begun" /\ Fail
    /\ Settle(holds[c], "not_sent") /\ Return(c, "not_sent")
    /\ UNCHANGED <<holds, reached, fates>>

Answered(c) ==
    /\ at[c] = "wire" /\ Settle(holds[c], "succeeded") /\ Return(c, "succeeded")
    /\ Reach(holds[c], "taken") /\ UNCHANGED <<holds, faults, fates>>

Rejected(c) ==
    /\ at[c] = "wire" /\ Fail
    /\ Settle(holds[c], "rejected") /\ Return(c, "rejected") /\ Reach(holds[c], "refused")
    /\ UNCHANGED <<holds, fates>>

\* A 401: the token is renewed and before_send runs again.
Unauthorized(c) ==
    /\ at[c] = "wire" /\ Fail /\ Move(c, "begun") /\ Reach(holds[c], "refused")
    /\ UNCHANGED <<row, holds, ledger, fates>>

\* No answer, a 408 or 5xx, an answer that cannot be read.
Uncertain(c) ==
    /\ at[c] = "wire" /\ Fail
    /\ Settle(holds[c], "unknown") /\ Return(c, "result_unknown")
    /\ UNCHANGED <<holds, reached, fates>>

Interrupted(f) == [ledger EXCEPT ![f] = IF @ = "reserved" THEN "not_sent"
                                        ELSE IF @ = "in_flight" THEN "unknown" ELSE @]

\* A cancelled task does not touch the row.
Cancel(c) ==
    /\ at[c] # "idle" /\ Fail /\ Move(c, "idle")
    /\ ledger' = IF at[c] = "role" THEN ledger ELSE Interrupted(holds[c])
    /\ UNCHANGED <<row, holds, reached, fates>>

\* The process ends, perhaps between the ledger's commit and the row's.
Crash ==
    /\ Fail /\ at' = [c \in Callers |-> "idle"]
    /\ \/ ledger' = [f \in Flags |-> Interrupted(f)[f]] /\ UNCHANGED reached
       \/ \E c \in Callers, outcome \in {"succeeded", "rejected"} :
             /\ at[c] = "wire"
             /\ ledger' = [f \in Flags |-> IF f = holds[c] THEN outcome ELSE Interrupted(f)[f]]
             /\ Reach(holds[c], IF outcome = "succeeded" THEN "taken" ELSE "refused")
    /\ UNCHANGED <<row, holds, fates>>

Next ==
    \/ \E fresh \in BOOLEAN : Observe(fresh)
    \/ ObserveOther \/ AutoApproved \/ Expire \/ Crash
    \/ \E c \in Callers :
         \/ Approve(c) \/ NotAdmin(c) \/ Begin(c) \/ Send(c) \/ SendFails(c)
         \/ Answered(c) \/ Rejected(c) \/ Unauthorized(c) \/ Uncertain(c) \/ Cancel(c)

Spec == Init /\ [][Next]_vars

-----------------------------------------------------------------------------
(* An answer is never given twice: while QQ may have taken the answer under *)
(* one flag, the request is offered under no other, and no other answer     *)
(* goes out; whoever else holds an older flag, lists the requests again,    *)
(* lets a flag expire or is cancelled.  Only a day ends this, and only for  *)
(* an answer QQ confirmed or an applicant it let in: an answer of unknown   *)
(* fate is never followed by another.                                       *)
AnsweredOnce ==
    LET open == {f \in Flags : reached[f] \in {"maybe", "taken"}} \ lapsed IN
    /\ Cardinality(open) <= 1
    /\ row.state \in Live => open = {}
    /\ \A f \in lapsed : ledger[f] = "succeeded" \/ f \in letIn
=============================================================================
