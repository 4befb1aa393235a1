-------------------------- MODULE EnvelopeCustody --------------------------
(***************************************************************************)
(* What the receiving side promises whoever delivers an envelope: a        *)
(* receipt is given only for an event that is in custody or was; an        *)
(* envelope in custody is finished, or shelved until the operator removes  *)
(* it; it never leaves the shelf for processing and is never forgotten.    *)
(***************************************************************************)
EXTENDS Integers, Sequences

CONSTANT Events
VARIABLES book,      \* arrival number -> the envelope and where it is
          receipts   \* events whose sender got a positive receipt

Booked == {book[a].ev : a \in DOMAIN book}
At(place) == {a \in DOMAIN book : book[a].place = place}

Init == book = << >> /\ receipts = {}

Take(e) ==
    /\ book' = Append(book, [ev |-> e, place |-> "inbox"])
    /\ receipts' = receipts \cup {e}

Again(e) == e \in Booked /\ receipts' = receipts \cup {e} /\ UNCHANGED book

Move(S, place) ==
    /\ book' = [a \in DOMAIN book |-> IF a \in S THEN [book[a] EXCEPT !.place = place]
                                                  ELSE book[a]]
    /\ UNCHANGED receipts

Shelve == \E a \in At("inbox") : Move({a}, "shelf")
Finish == \E a \in At("inbox") : Move({a}, "finished")
Remove == \E S \in SUBSET At("shelf") : Move(S, "removed")

Next == \/ \E e \in Events : Take(e) \/ Again(e)
        \/ Shelve \/ Finish \/ Remove

Spec == Init /\ [][Next]_<<book, receipts>>
=============================================================================
