--------------------------- MODULE InteractionsMC ---------------------------
(* Instances of Interactions for TLC: names tell what a click is and which  *)
(* ticket its button carries.                                               *)
EXTENDS Interactions

CONSTANTS btn1, btn2, menu, note,   \* clicks
          run, ask, call,           \* tickets
          a1, a2, aMenu, n1, n2     \* operation ids

MCKind == [k \in Clicks |-> IF k \in {btn1, btn2} THEN "button" ELSE
                            IF k = menu THEN "menu" ELSE "other"]
\* Buttons carry one ticket, on a card issued alone.
MCToken == [k \in Clicks |-> IF k \in {btn1, btn2}
                             THEN CHOOSE t \in Tickets : ask \in Tickets => t = ask ELSE NoTicket]
MCIntent == [t \in Tickets |-> CASE t = run -> "execute" [] t = ask -> "confirm"
                                 [] OTHER -> "callback"]
MCFollow == [t \in Tickets |-> IF t = ask THEN run ELSE NoTicket]
MCTarget == [a \in Acks |-> CASE a = a1 -> btn1 [] a = a2 -> btn2 [] a = aMenu -> menu
                              [] OTHER -> note]
=============================================================================
