---------------------------- MODULE EventInboxMC ----------------------------
(* Instances of EventInbox for TLC: event names tell their kind.            *)
EXTENDS EventInbox, TLC

CONSTANTS chatA, chatB, chatC, ready, click, join, notice, future, broken
CONSTANTS m1, m2, none

MCKind == [e \in Events |->
    CASE e \in {chatA, chatB, chatC} -> "chat"
      [] e = ready  -> "ready"   [] e = click  -> "interaction"
      [] e = join   -> "join"    [] e = notice -> "notice"
      [] e = future -> "unknown" [] e = broken -> "bad"]
\* Two envelopes of one message: GROUP_AT_MESSAGE_CREATE and GROUP_MESSAGE_CREATE.
MCMsgOf == [e \in Events |-> CASE e \in {chatA, chatB} -> m1 [] e = chatC -> m2
                               [] OTHER -> none]
\* Two envelopes of one message are interchangeable.
MCSymmetry == Permutations({chatA, chatB})

(* The bus sees an envelope once, in order, and knows when it is old.       *)
BusSound == OldIsRecovered /\ BusOnceInOrder

(* The host is handed the oldest message, and no row that waits is passed.  *)
HostOrder == HostInOrder /\ NoneSkipped
=============================================================================
