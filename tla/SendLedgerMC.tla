---------------------------- MODULE SendLedgerMC ----------------------------
(***************************************************************************)
(* Instances of SendLedger for TLC: the operation's name tells its lane.   *)
(* Beside the instance of the cfg ("own") a second one takes turns at the  *)
(* variables, if Parts has it: "events", an answer to an interaction and a *)
(* native send, whose receipts may be unreadable.                          *)
(***************************************************************************)
EXTENDS SendLedger

CONSTANTS reply1, reply2, tell, native1, native2, press, msg, click, Parts
VARIABLE part

MCLane == [op \in Ops |-> CASE op \in {reply1, reply2} -> "reply"
                            [] op = tell -> "session" [] OTHER -> "native"]
MCSrc == [op \in Ops |-> msg]
MCWant == [op \in Ops |-> IF op = native2 THEN 1 ELSE 0]

Events == INSTANCE SendLedger WITH
    Ops <- {press, native1}, Sources <- {click}, EventSources <- {click},
    Lane <- [op \in {press, native1} |-> IF op = press THEN "reply" ELSE "native"],
    Src <- [op \in {press, native1} |-> click], Want <- [op \in {press, native1} |-> 0],
    BadReceipts <- TRUE, OpCap <- 1, Window <- 2, Day <- 3,
    MaxClock <- 2, MaxCalls <- 2, MaxFaults <- 0, MaxRestarts <- 0

LedgerInit == part \in Parts /\ IF part = "own" THEN Init ELSE Events!Init
OwnStep    == part = "own" /\ Next /\ UNCHANGED part
EventsStep == part = "events" /\ Events!Next /\ UNCHANGED part
LedgerSpec == LedgerInit /\ [][OwnStep \/ EventsStep]_<<part, vars>>

\* For an instance without "events".
OwnSpec == /\ LedgerSpec
           /\ \A op \in Ops : WF_vars(GiveUp(op)) /\ WF_vars(Uncertain(op))

-----------------------------------------------------------------------------
(* Rows keep their types, and what the ledger says reached QQ or never can  *)
(* is so.                                                                   *)
LedgerTrue == part = "own" => TypeOK /\ LedgerTruth

(* No two requests of a day quote one source under one msg_seq.             *)
SeqsUnique == part = "own" => SeqUnique

(* No operation is written twice within a day.                              *)
SentOnce == part = "own" => AtMostOnce

(* The core lane never quotes a source that is over or was rejected.        *)
DeadStaysDead == [][/\ part = "own"    => QuotesLiveSource
                    /\ part = "events" => Events!QuotesLiveSource]_<<part, vars>>

(* A send in session mode: all of this, and a life of it changes between    *)
(* passive and active at most once.                                         *)
SessionSound == part = "own" => TypeOK /\ LedgerTruth /\ SeqUnique /\ ConvertsOnce

(* An uncertain result stays in the ledger.                                 *)
DoubtStays == [][/\ part = "own"    => UnknownRemains
                 /\ part = "events" => Events!UnknownRemains]_<<part, vars>>
=============================================================================
