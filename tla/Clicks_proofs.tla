--------------------------- MODULE Clicks_proofs ----------------------------
(***************************************************************************)
(* Proofs about the three instances of Interactions that ClicksMC checks:  *)
(* each theorem of Interactions_proofs holds in each of them, whatever the *)
(* names, the caps and the bounds.                                         *)
(***************************************************************************)
EXTENDS ClicksMC, Interactions_proofs

-----------------------------------------------------------------------------
(* The instances meet the assumptions of Interactions.                     *)

LEMMA PressFits == Press!ClicksAssumption /\ Press!BoundsAssumption
<1>1. Press!ClicksAssumption
  <2> DEFINE C == {btn1, btn2}
             T == [a \in {a1, a2} |-> IF a = a1 THEN btn1 ELSE btn2]
  <2>1. T[a1] = btn1 /\ T[a2] = btn2 /\ btn1 # btn2
    BY NamesAssumption
  <2>2. \A k \in C : \E a \in {a1, a2} : T[a] = k
    BY <2>1
  <2>3. \A a, b \in {a1, a2} : T[a] = T[b] => a = b
    BY <2>1
  <2> QED BY <2>2, <2>3, NamesAssumption DEF Press!ClicksAssumption
<1>2. Press!BoundsAssumption
  BY BoundsAssumption, DayAssumption DEF Press!BoundsAssumption
<1> QED BY <1>1, <1>2

LEMMA MenuFits == Menu!ClicksAssumption /\ Menu!BoundsAssumption
<1>1. Menu!ClicksAssumption
  <2>1. \A S : << >> \in [{} -> S]
    <3>1. \A S : << >> \in Seq(S) /\ DOMAIN << >> = {}
      BY EmptySeq
    <3> QED BY <3>1
  <2> QED BY <2>1, NamesAssumption DEF Menu!ClicksAssumption
<1>2. Menu!BoundsAssumption
  BY BoundsAssumption, DayAssumption DEF Menu!BoundsAssumption
<1> QED BY <1>1, <1>2

-----------------------------------------------------------------------------
(* The invariant of each, under its turn.                                  *)

ClicksInv ==
    /\ about \in {"reply", "press", "menu"}
    /\ about = "reply" => ClickInv /\ DayInv
    /\ about = "press" => Press!ClickInv /\ Press!DayInv
    /\ about = "menu"  => Menu!ClickInv /\ Menu!DayInv

LEMMA ClicksBegin == ClicksInit => ClicksInv
<1>1. CASE about = "reply" /\ Init
  BY <1>1, ClickInit, DayInit DEF ClicksInv
<1>2. CASE about = "press" /\ Press!Init
  BY <1>2, PressFits, Press!ClickInit, Press!DayInit DEF ClicksInv
<1>3. CASE about = "menu" /\ Menu!Init
  BY <1>3, MenuFits, Menu!ClickInit, Menu!DayInit DEF ClicksInv
<1> QED BY <1>1, <1>2, <1>3 DEF ClicksInit

\* A step is a step of the instance whose turn it is.
LEMMA OneTurn ==
    ASSUME [ClicksNext]_<<about, vars>>
    PROVE  /\ about' = about
           /\ about = "reply" => [Next]_vars
           /\ about = "press" => [Press!Next]_(Press!vars)
           /\ about = "menu"  => [Menu!Next]_(Menu!vars)
<1>1. CASE ClicksNext
  BY <1>1 DEF ClicksNext, ReplyStep, PressStep, MenuStep
<1>2. CASE UNCHANGED <<about, vars>>
  <2>1. UNCHANGED vars => UNCHANGED Press!vars /\ UNCHANGED Menu!vars
    BY DEF vars, ledger, inQueue, Press!vars, Press!ledger, Press!inQueue, Menu!vars,
           Menu!ledger, Menu!inQueue
  <2> QED BY <1>2, <2>1
<1> QED BY <1>1, <1>2

LEMMA ClicksKeep == ClicksInv /\ [ClicksNext]_<<about, vars>> => ClicksInv'
<1> SUFFICES ASSUME ClicksInv, [ClicksNext]_<<about, vars>> PROVE ClicksInv'
  OBVIOUS
<1>1. CASE about = "reply"
  BY <1>1, OneTurn, ClickNext, DayNext, DayAssumption DEF ClicksInv
<1>2. CASE about = "press"
  BY <1>2, OneTurn, PressFits, Press!ClickNext, Press!DayNext, DayAssumption DEF ClicksInv
<1>3. CASE about = "menu"
  BY <1>3, OneTurn, MenuFits, Menu!ClickNext, Menu!DayNext, DayAssumption DEF ClicksInv
<1> QED BY <1>1, <1>2, <1>3 DEF ClicksInv

LEMMA ClicksAlways == ClicksSpec => []ClicksInv
BY ClicksBegin, ClicksKeep, PTL DEF ClicksSpec

-----------------------------------------------------------------------------
(* The properties of the run.                                              *)

\* Nothing is carried out before QQ took the acknowledgement (process,
\* AckFailed), whoever clicks, however the ledger ends it.
THEOREM EffectsComeAfter == ClicksSpec => []EffectsAfterAcks
<1>1. ClicksInv => EffectsAfterAcks
  BY PressFits, ClickEffects, Press!ClickEffects DEF ClicksInv, EffectsAfterAcks
<1> QED BY <1>1, ClicksAlways, PTL

\* One ticket starts one command or handler, once (TicketStore.redeem).
THEOREM TicketsStartOne == ClicksSpec => []TicketsOnce
<1>1. ClicksInv => TicketsOnce
  BY PressFits, ClickEffects, Press!ClickEffects DEF ClicksInv, TicketsOnce
<1> QED BY <1>1, ClicksAlways, PTL

\* What extension_events says of a click is true (update, the callback of a
\* cancelled task, ExtensionStore.__init__, confirmed_ack).
THEOREM RecordsAreTrue == ClicksSpec => []RecordsTrue
<1>1. ClicksInv => RecordsTrue
  <2> SUFFICES ASSUME ClicksInv PROVE RecordsTrue
    OBVIOUS
  <2>1. CASE about = "reply"
    BY <2>1, ClickTypes, DayTruth, DayAssumption DEF ClicksInv, RecordsTrue
  <2>2. CASE about = "press"
    BY <2>2, PressFits, Press!ClickTypes, Press!DayTruth, DayAssumption DEF ClicksInv, RecordsTrue
  <2>3. CASE about = "menu"
    BY <2>3, MenuFits, Menu!ClickTypes, Menu!DayTruth, DayAssumption DEF ClicksInv, RecordsTrue
  <2> QED BY <2>1, <2>2, <2>3 DEF ClicksInv
<1> QED BY <1>1, ClicksAlways, PTL

\* A click is acknowledged once: not again when its event comes again after
\* its row is gone, under a second id, or after an answer was lost.
THEOREM AcksAreOnce == ClicksSpec => []AcksOnce
<1>1. ClicksInv => AcksOnce
  <2> SUFFICES ASSUME ClicksInv PROVE AcksOnce
    OBVIOUS
  <2>1. CASE about = "reply"
    BY <2>1, DayTruth, DayAssumption DEF ClicksInv, AcksOnce
  <2>2. CASE about = "press"
    BY <2>2, PressFits, Press!DayTruth, DayAssumption DEF ClicksInv, AcksOnce
  <2>3. CASE about = "menu"
    BY <2>3, MenuFits, Menu!DayTruth, DayAssumption DEF ClicksInv, AcksOnce
  <2> QED BY <2>1, <2>2, <2>3 DEF ClicksInv
<1> QED BY <1>1, ClicksAlways, PTL

\* What is uncertain stays on record until it is settled: intake makes room
\* for no new click at its cost, and only the ledger settles it.
THEOREM UncertainStaysRecorded == ClicksSpec => UncertaintyStays
<1>1. ClicksInv /\ [ClicksNext]_<<about, vars>> =>
         [/\ about = "reply" => UncertainRemains
          /\ about = "press" => Press!UncertainRemains
          /\ about = "menu"  => Menu!UncertainRemains]_<<about, vars>>
  BY OneTurn, PressFits, MenuFits, Uncertainty, Press!Uncertainty, Menu!Uncertainty
     DEF ClicksInv
<1> QED BY <1>1, ClicksAlways, PTL DEF ClicksSpec, UncertaintyStays
=============================================================================
