--------------------------- MODULE AtMostOnceSend ---------------------------
(***************************************************************************)
(* What a caller of the sending API is promised for one operation id, for  *)
(* as long as its record is kept: QQ takes the message at most once; it is *)
(* called sent only when QQ took it and failed only when QQ did not and    *)
(* will not; when nobody can tell it is unknown, for good.                 *)
(***************************************************************************)
EXTENDS Integers

CONSTANT Ops
VARIABLES verdict,   \* what the ledger says of the operation
          copies     \* how many times QQ took the message

Init == verdict = [op \in Ops |-> "none"] /\ copies = [op \in Ops |-> 0]

\* QQ takes the message, while the sender waits or after it gave up.
Take(op) ==
    /\ verdict[op] \in {"pending", "unknown"} /\ copies[op] = 0
    /\ copies' = [copies EXCEPT ![op] = 1]
    /\ UNCHANGED verdict

\* A verdict may move along these edges; a failed operation can be dropped
\* from the record, in the step that settles it when a full history has no
\* room for it, and then be tried anew.  One refused because too many others
\* are under way fails in the step that records it.
May(op, new) ==
    \/ new = verdict[op]
    \/ verdict[op] = "none" /\ new = "pending"
    \/ verdict[op] = "none" /\ new = "failed" /\ copies[op] = 0
    \/ verdict[op] = "pending" /\ new = "sent" /\ copies[op] = 1
    \/ verdict[op] = "pending" /\ new \in {"failed", "none"} /\ copies[op] = 0
    \/ verdict[op] = "pending" /\ new = "unknown"
    \/ verdict[op] = "failed" /\ new \in {"none", "pending"}

\* A crash settles several operations in one step.
Report ==
    /\ verdict' \in [Ops -> {"none", "pending", "sent", "failed", "unknown"}]
    /\ \A op \in Ops : May(op, verdict'[op])
    /\ UNCHANGED copies

Next == Report \/ \E op \in Ops : Take(op)

Spec == Init /\ [][Next]_<<verdict, copies>>
=============================================================================
