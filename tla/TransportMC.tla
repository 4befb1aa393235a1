----------------------------- MODULE TransportMC -----------------------------
(***************************************************************************)
(* The three parts of the transport that guard something scarce: a shard's *)
(* session (Gateway), the Identify budget of all shards (IdentifyBudget,   *)
(* extended here), the access token (TokenRefresh).  They share no state,  *)
(* so one instance checks each by itself: `part` says which of them runs.  *)
(***************************************************************************)
EXTENDS IdentifyBudget

CONSTANTS Interval, HelloTimeout, MaxSessions, MaxSeq, QueueCap, MaxLine,
          Calls, Writes, Slots, MaxActive, MaxAttempts, MaxTokens

ASSUME TransportAssumption ==
    /\ Interval \in Nat /\ HelloTimeout \in Nat /\ MaxSessions \in Nat /\ MaxSeq \in Nat \ {0}
    /\ Writes \subseteq Calls /\ MaxAttempts \in Nat /\ MaxTokens \in Nat

VARIABLES
    part,
    \* Gateway; its faults are gatewayFaults
    state, connected, sid, seq, failures, reading, intake,
    ackPending, ackAge, beatIn, handIn, quietFor,
    up, line, login, beat, live, attached, sent, stored, joined, announced, slow, gatewayFaults,
    \* TokenRefresh; its place and faults are callPlace and tokenFaults
    token, fresh, refresh, tasks, tries, callPlace, tok, awaits, refreshed, attempts,
    closed, cleared, issued, valid, refused, copies, tokenFaults

gatewayVars == <<state, connected, sid, seq, failures, reading, intake,
    ackPending, ackAge, beatIn, handIn, quietFor, up, line, login, beat, live, attached,
    sent, stored, joined, announced, slow, gatewayFaults>>
tokenVars == <<token, fresh, refresh, tasks, tries, callPlace, tok, awaits, refreshed,
    attempts, closed, cleared, issued, valid, refused, copies, tokenFaults>>

G == INSTANCE Gateway WITH faults <- gatewayFaults
T == INSTANCE TokenRefresh WITH faults <- tokenFaults, place <- callPlace

TransportInit == part \in {"gateway", "budget", "token"} /\ G!Init /\ Init /\ T!Init

GatewayStep == part = "gateway" /\ G!Next /\ UNCHANGED <<part, vars, tokenVars>>
BudgetStep  == part = "budget" /\ Next /\ UNCHANGED <<part, gatewayVars, tokenVars>>
TokenStep   == part = "token" /\ T!Next /\ UNCHANGED <<part, gatewayVars, vars>>
TransportNext == GatewayStep \/ BudgetStep \/ TokenStep

(* The fairness of each part, for its own steps. *)
GatewayFairness ==
    /\ WF_gatewayVars(part = "gateway" /\ G!Adapter) /\ WF_gatewayVars(part = "gateway" /\ G!Store)
    /\ WF_gatewayVars(part = "gateway" /\ G!QQ) /\ WF_gatewayVars(part = "gateway" /\ G!Tick)
    /\ WF_gatewayVars(part = "gateway" /\ G!Recovery)
BudgetFairness ==
    /\ \A a \in Actors : SF_vars(part = "budget" /\ Steps(a))
    /\ WF_vars(part = "budget" /\ Answer) /\ WF_vars(part = "budget" /\ Tick)

TransportSpec == /\ TransportInit /\ [][TransportNext]_<<part, gatewayVars, vars, tokenVars>>
                 /\ GatewayFairness /\ BudgetFairness

-----------------------------------------------------------------------------
(* Every part keeps its types; every event since a shard was online is      *)
(* stored, announced as lost or still before the cursor of a session; and a *)
(* connection that has gone silent is given up in time.                     *)
SessionSound == G!TypeOK /\ G!NoSilentGap /\ G!SilenceIsNoticed

(* No more Identifies than QQ promised, or in a window than it allows.      *)
BudgetKept == TypeOK /\ WithinLimits

(* A write is not repeated after it may have reached QQ, and a closed       *)
(* transport holds no token.                                                *)
NoSecondCopy == T!TypeOK /\ T!NoSecondCopy

(* A good token is not thrown away.                                         *)
SparesTokens == T!SparesTokens

(* A shard comes online again, with what it missed stored or announced.     *)
CatchesUp == part = "gateway" => G!CatchesUp

(* A shard that needs a session gets one.                                   *)
ShardsGetIn == part = "budget" => EveryShardGetsIn
=============================================================================
