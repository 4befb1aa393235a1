------------------------------ MODULE ClicksMC ------------------------------
(***************************************************************************)
(* Three instances of Interactions that take turns at its variables:       *)
(* `about` says which runs.  "reply": a plugin's callback ticket and a      *)
(* click that a plugin answers by hand, under two ids, in tight queues.     *)
(* "press": two people press buttons that carry one ticket, under reloads.  *)
(* "menu": a menu entry, whose acknowledgement may fail in every way.       *)
(***************************************************************************)
EXTENDS InteractionsMC

VARIABLE about

\* The model values are different from each other, as far as it matters.
ASSUME NamesAssumption ==
    /\ btn1 # btn2 /\ a1 # a2 /\ NoTicket # run
    /\ NoClick \notin {btn1, btn2, menu} /\ NoAck \notin {a1, a2, aMenu}
\* The clock stays within the day rows are kept, in every instance.
ASSUME DayAssumption == AckDeadline <= 2 /\ 2 < Day /\ MaxClock < Day

\* Two cards with one ticket: the second press finds it spent.
Press == INSTANCE Interactions_proofs WITH
    Clicks <- {btn1, btn2}, Kind <- [k \in {btn1, btn2} |-> "button"],
    Tickets <- {run}, Token <- [k \in {btn1, btn2} |-> run],
    Intent <- [t \in {run} |-> "execute"], Follow <- [t \in {run} |-> NoTicket],
    Acks <- {a1, a2}, Target <- [a \in {a1, a2} |-> IF a = a1 THEN btn1 ELSE btn2],
    Window <- 2, IntakeCap <- 1, EventCap <- 2, AckTaskCap <- 2, MaxFaults <- 0

\* A menu entry carries no ticket: nothing follows its acknowledgement.
Menu == INSTANCE Interactions_proofs WITH
    Clicks <- {menu}, Kind <- [k \in {menu} |-> "menu"],
    Tickets <- {}, Token <- [k \in {menu} |-> NoTicket], Intent <- << >>, Follow <- << >>,
    Acks <- {aMenu}, Target <- [a \in {aMenu} |-> menu], MaxClock <- 2

ClicksInit == \/ about = "reply" /\ Init
              \/ about = "press" /\ Press!Init
              \/ about = "menu"  /\ Menu!Init

ReplyStep == about = "reply" /\ Next /\ UNCHANGED about
PressStep == about = "press" /\ Press!Next /\ UNCHANGED about
MenuStep  == about = "menu"  /\ Menu!Next /\ UNCHANGED about
ClicksNext == ReplyStep \/ PressStep \/ MenuStep
ClicksSpec == ClicksInit /\ [][ClicksNext]_<<about, vars>>

-----------------------------------------------------------------------------
(* Rows, tickets, queues and tasks keep their types in every instance, and  *)
(* the table tells the truth of what was acknowledged and carried out.      *)
RecordsTrue ==
    CASE about = "reply" -> TypeOK /\ RecordTruth
      [] about = "press" -> Press!TypeOK /\ Press!RecordTruth
      [] about = "menu"  -> Menu!TypeOK /\ Menu!RecordTruth

(* A click is acknowledged at most once.                                    *)
AcksOnce ==
    CASE about = "reply" -> AckOnce
      [] about = "press" -> Press!AckOnce
      [] about = "menu"  -> Menu!AckOnce

(* A ticket starts one command or handler, once.                            *)
TicketsOnce == /\ about = "reply" => TicketOnce
               /\ about = "press" => Press!TicketOnce

(* Nothing is carried out before QQ took the acknowledgement.               *)
EffectsAfterAcks == /\ about = "reply" => EffectAfterAck
                    /\ about = "press" => Press!EffectAfterAck

(* What is uncertain stays on record until it is settled.                   *)
UncertaintyStays ==
    [][/\ about = "reply" => UncertainRemains
       /\ about = "press" => Press!UncertainRemains
       /\ about = "menu"  => Menu!UncertainRemains]_<<about, vars>>
=============================================================================
