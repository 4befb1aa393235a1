----------------------------- MODULE Flow_proofs -----------------------------
(***************************************************************************)
(* What flows through the services of ServicesMC, for every value of their *)
(* constants that meets the assumptions made there: the pieces of a        *)
(* streamed reply and the fragments of a source, the parts of an upload,   *)
(* the bytes all uploads, peers and subscriptions hold, and the events     *)
(* peers and subscriptions wait for.  Nothing is shown out of order, no    *)
(* byte is lost from an account and no event is lost without a mark.       *)
(***************************************************************************)
EXTENDS ServicesMC, Totals, FiniteSetTheorems, WellFoundedInduction, SequenceTheorems, TLAPS

-----------------------------------------------------------------------------
(* Finite sets whose elements have a number.                               *)

\* Some element has the lowest.
LEMMA Lowest ==
    ASSUME NEW S, IsFiniteSet(S), S # {}, NEW key, \A v \in S : key[v] \in Int
    PROVE  \E v \in S : \A w \in S : key[v] <= key[w]
<1> DEFINE Below(v) == {w \in S : key[w] < key[v]}
           T == {Below(v) : v \in S}
<1>1. T \subseteq FiniteSubsetsOf(S) /\ T # {}
  <2>1. ASSUME NEW v \in S PROVE Below(v) \in FiniteSubsetsOf(S)
    <3>1. Below(v) \in SUBSET S
      OBVIOUS
    <3> HIDE DEF Below
    <3> QED BY <3>1, FS_Subset DEF FiniteSubsetsOf
  <2> QED BY <2>1
<1>2. PICK m \in T : \A b \in T : ~ (<<b, m>> \in StrictSubsetOrdering(S))
  <2>1. IsWellFoundedOn(StrictSubsetOrdering(S), FiniteSubsetsOf(S))
    BY FS_StrictSubsetOrderingWellFounded
  <2> HIDE DEF T
  <2> QED BY <1>1, <2>1, WFMin
<1>3. PICK v \in S : m = Below(v)
  BY <1>2
<1>4. SUFFICES ASSUME NEW w \in S, key[w] < key[v] PROVE FALSE
  OBVIOUS
<1>5. Below(w) \subseteq Below(v) /\ w \in Below(v) /\ w \notin Below(w)
  BY <1>4
<1>6. Below(w) \in T /\ Below(w) \in SUBSET S /\ Below(v) \in SUBSET S
  OBVIOUS
<1>7. \A A, B \in SUBSET S : A \subseteq B /\ A # B => <<A, B>> \in StrictSubsetOrdering(S)
  BY DEF StrictSubsetOrdering
<1> HIDE DEF Below, T
<1>8. <<Below(w), Below(v)>> \in StrictSubsetOrdering(S)
  BY <1>5, <1>6, <1>7
<1> QED BY <1>2, <1>3, <1>6, <1>8

\* Some element has the highest.
LEMMA Greatest ==
    ASSUME NEW S, IsFiniteSet(S), S # {}, NEW key, \A v \in S : key[v] \in Int
    PROVE  \E v \in S : \A w \in S : key[w] <= key[v]
<1> DEFINE minus == [v \in S |-> -key[v]]
<1>1. \A v \in S : minus[v] = -key[v]
  OBVIOUS
<1> HIDE DEF minus
<1>2. \A v \in S : minus[v] \in Int
  BY <1>1
<1>3. PICK v \in S : \A w \in S : minus[v] <= minus[w]
  BY <1>2, Lowest
<1> QED BY <1>1, <1>3

\* Those with fewer than k above them are at most k, if no two are equal.
Top(S, key, k) == {v \in S : Cardinality({w \in S : key[w] > key[v]}) < k}

LEMMA Ranked ==
    ASSUME NEW S, IsFiniteSet(S), NEW key, NEW k \in Nat,
           \A v \in S : key[v] \in Nat,
           \A v, w \in S : key[v] = key[w] => v = w
    PROVE  IsFiniteSet(Top(S, key, k)) /\ Cardinality(Top(S, key, k)) <= k
<1> DEFINE R == Top(S, key, k)
<1>1. IsFiniteSet(R)
  BY FS_Subset DEF Top
<1>2. CASE R = {}
  <2>1. Cardinality(R) = 0
    BY Zenon, <1>2, FS_EmptySet
  <2> QED BY <1>1, <2>1
<1>3. CASE R # {}
  <2>1. \A v \in R : v \in S /\ key[v] \in Nat /\ key[v] \in Int
    BY DEF Top
  <2>2. PICK v \in R : \A w \in R : key[v] <= key[w]
    BY <1>1, <1>3, <2>1, Lowest, Zenon
  <2> DEFINE Above == {w \in S : key[w] > key[v]}
  <2>3. IsFiniteSet(Above) /\ Cardinality(Above) < k
    BY FS_Subset DEF Top
  <2>4. R \ {v} \subseteq Above
    BY <2>2 DEF Top
  <2> HIDE DEF Above
  <2>5. Cardinality(R \ {v}) <= Cardinality(Above) /\ Cardinality(Above) \in Nat
    BY <2>3, <2>4, FS_Subset, FS_CardinalityType
  <2>6. Cardinality(R \ {v}) = Cardinality(R) - 1 /\ Cardinality(R) \in Nat
    BY <1>1, FS_RemoveElement, FS_CardinalityType
  <2> QED BY <1>1, <2>3, <2>5, <2>6
<1> QED BY <1>2, <1>3

-----------------------------------------------------------------------------
(* A streamed reply.                                                       *)

LEMMA StreamSteps == [ServicesNext]_allVars => [Stream!Next]_(Stream!vars)
<1>1. UNCHANGED streamVars => UNCHANGED Stream!vars
  BY DEF streamVars, Stream!vars
<1> QED BY <1>1
      DEF ServicesNext, LedgerStep, BusStep, StreamStep, FenceStep, MediaStep, NetStep,
          SettingsStep, PanelStep, JoinStep, GroupStep, allVars

RowStates == {"none", "reserved", "in_flight", "sent", "not_sent", "rejected", "unknown"}
Underway == {"ask", "frame", "wire", "pause"}
Pieces == [index : Nat, final : BOOLEAN]

StreamShaped ==
    /\ source \in {"open", "expired", "active", "blocked"}
    /\ streamRow \in [Streams -> RowStates]
    /\ streamAt \in [Streams -> Stream!Places]
    /\ mode \in [Streams -> {"passive", "active", "fallback"}]
    /\ index \in [Streams -> Nat]
    /\ retry \subseteq Streams /\ attempted \subseteq Streams /\ final \subseteq Streams
    /\ took \in [Streams -> Seq(Pieces)]

\* What QQ took is what the stream has confirmed, in order, and one more if its fate is unknown.
TookTrue(s) ==
    /\ Stream!InOrder(s)
    /\ s \notin doubt => Len(took[s]) = index[s]
    /\ s \in doubt => Len(took[s]) \in {index[s], index[s] + 1} /\ streamAt[s] = "done"
    /\ streamAt[s] # "done" => \A i \in DOMAIN took[s] : ~took[s][i].final

\* The row of a stream says how far it may have come.
RowTrue(s) ==
    /\ streamAt[s] = "idle" => streamRow[s] = "none"
    /\ streamAt[s] = "ask" => s \notin final /\ streamRow[s] \in {"none", "in_flight"}
    /\ streamAt[s] = "frame" => streamRow[s] \in {"reserved", "in_flight"}
    /\ streamAt[s] \in {"wire", "pause"} => streamRow[s] = "in_flight"
    /\ streamAt[s] = "done" => streamRow[s] \notin {"reserved", "in_flight"}
    /\ streamRow[s] \in {"none", "reserved", "not_sent", "rejected"} =>
          index[s] = 0 /\ s \notin doubt
    /\ streamRow[s] = "sent" => took[s] # << >> /\ took[s][Len(took[s])].final
    /\ s \in doubt => streamRow[s] = "unknown"

\* A stream ends before it has more than the fragments it may have and a last one.
NotTooLong(s) ==
    /\ s \in final => index[s] > 0
    /\ index[s] <= MaxFrags + 1
    /\ streamAt[s] # "done" => index[s] <= MaxFrags
    /\ s \notin final /\ streamAt[s] \in {"frame", "wire", "pause"} => index[s] < MaxFrags

StreamFine(s) == TookTrue(s) /\ RowTrue(s) /\ NotTooLong(s)
StreamInv == StreamShaped /\ \A s \in Streams : StreamFine(s)

\* A step of one stream leaves the others as they are.
LEMMA StreamAlone ==
    ASSUME StreamInv, NEW s \in Streams, StreamShaped', StreamFine(s)',
           \A t \in Streams : t # s =>
               /\ streamRow'[t] = streamRow[t] /\ streamAt'[t] = streamAt[t]
               /\ index'[t] = index[t] /\ took'[t] = took[t]
               /\ (t \in final' <=> t \in final) /\ (t \in doubt' <=> t \in doubt)
    PROVE  StreamInv'
<1>1. ASSUME NEW t \in Streams, t # s PROVE StreamFine(t)'
  <2>1. StreamFine(t)
    BY DEF StreamInv
  <2> QED BY <1>1, <2>1 DEF StreamFine, TookTrue, RowTrue, NotTooLong, Stream!InOrder
<1> QED BY <1>1 DEF StreamInv

\* send() ends with a verdict while nothing of the stream is in doubt.
LEMMA AbortKeeps ==
    ASSUME StreamInv, NEW s \in Streams, streamAt[s] \in Underway,
           NEW how \in {"none", "not_sent", "rejected"}, Stream!Abort(s, how),
           UNCHANGED <<took, doubt>>, source' \in {"open", "expired", "active", "blocked"}
    PROVE  StreamInv'
<1>1. /\ streamAt' = [streamAt EXCEPT ![s] = "done"]
      /\ UNCHANGED <<mode, index, retry, attempted, final>>
      /\ streamRow[s] = "none" => streamRow' = streamRow
      /\ streamRow[s] # "none" => /\ streamRow' = [streamRow EXCEPT ![s] = Stream!Verdict(s, how)]
                                  /\ Stream!Verdict(s, how) \in {"unknown", "not_sent", "rejected"}
                                  /\ index[s] > 0 => Stream!Verdict(s, how) = "unknown"
  BY DEF Stream!Abort, Stream!Put, Stream!Verdict, Stream!LastId
<1>2. StreamShaped'
  BY <1>1 DEF StreamInv, StreamShaped, RowStates, Stream!Places
<1>3. StreamFine(s) /\ index[s] \in Nat /\ s \notin doubt
  BY DEF StreamInv, StreamShaped, Underway, StreamFine, TookTrue
<1>4. streamAt'[s] = "done" /\ streamRow'[s] \in {"none", "unknown", "not_sent", "rejected"}
      /\ (index[s] > 0 /\ streamRow[s] # "none" => streamRow'[s] = "unknown")
  BY <1>1 DEF StreamInv, StreamShaped
<1>5. TookTrue(s)'
  BY <1>1, <1>3, <1>4 DEF StreamFine, TookTrue, Stream!InOrder
<1>6. RowTrue(s)'
  BY <1>1, <1>3, <1>4 DEF StreamFine, RowTrue
<1>7. NotTooLong(s)'
  BY <1>1, <1>3, <1>4, StreamAssumption DEF StreamFine, NotTooLong, Underway
<1>8. \A t \in Streams : t # s => streamRow'[t] = streamRow[t] /\ streamAt'[t] = streamAt[t]
  BY <1>1 DEF StreamInv, StreamShaped
<1> QED BY <1>1, <1>2, <1>5, <1>6, <1>7, <1>8, StreamAlone DEF StreamFine

\* Before the first fragment a stream goes on as an active message.
LEMMA SwitchKeeps ==
    ASSUME StreamInv, NEW s \in Streams, streamAt[s] \in {"frame", "wire"}, index[s] = 0,
           Stream!Switch(s),
           UNCHANGED <<took, doubt>>, source' \in {"open", "expired", "active", "blocked"}
    PROVE  StreamInv'
<1>1. /\ streamAt' = [streamAt EXCEPT ![s] = "frame"] /\ UNCHANGED <<index, final>>
      /\ streamRow' = [streamRow EXCEPT ![s] = "reserved"]
      /\ mode' = [mode EXCEPT ![s] = "fallback"]
      /\ attempted' = attempted \ {s} /\ retry' = retry \ {s}
  BY DEF Stream!Switch, Stream!Put
<1>2. StreamShaped'
  BY <1>1 DEF StreamInv, StreamShaped, RowStates, Stream!Places
<1>3. StreamFine(s) /\ s \notin doubt
  BY DEF StreamInv, StreamFine, TookTrue
<1>4. /\ streamAt'[s] = "frame" /\ streamRow'[s] = "reserved"
      /\ \A t \in Streams : t # s => streamRow'[t] = streamRow[t] /\ streamAt'[t] = streamAt[t]
  BY <1>1 DEF StreamInv, StreamShaped
<1>5. TookTrue(s)'
  BY <1>1, <1>3, <1>4 DEF StreamFine, TookTrue, Stream!InOrder
<1>6. RowTrue(s)'
  BY <1>1, <1>3, <1>4 DEF StreamFine, RowTrue
<1>7. NotTooLong(s)'
  BY <1>1, <1>3, <1>4, StreamAssumption DEF StreamFine, NotTooLong
<1> QED BY <1>1, <1>2, <1>4, <1>5, <1>6, <1>7, StreamAlone DEF StreamFine

\* A stream that goes on, with QQ and the ledger as they were or with a row that is reserved or
\* submitted.
LEMMA StreamGoes ==
    ASSUME StreamInv, NEW s \in Streams, streamAt[s] # "done", StreamShaped',
           UNCHANGED <<took, doubt, index>>,
           streamAt'[s] \in Underway, RowTrue(s)', NotTooLong(s)',
           \A t \in Streams : t # s => /\ streamRow'[t] = streamRow[t] /\ streamAt'[t] = streamAt[t]
                                       /\ (t \in final' <=> t \in final)
    PROVE  StreamInv'
<1>1. StreamFine(s)
  BY DEF StreamInv
<1>2. TookTrue(s)'
  BY <1>1 DEF StreamFine, TookTrue, Stream!InOrder, Underway
<1> QED BY <1>2, StreamAlone DEF StreamFine

LEMMA StreamStarts == ASSUME StreamInv, NEW s \in Streams, Stream!Start(s) PROVE StreamInv'
<1>1. /\ streamAt' = [streamAt EXCEPT ![s] = "ask"] /\ streamAt[s] = "idle"
      /\ UNCHANGED <<source, streamRow, mode, index, retry, attempted, final, took, doubt>>
  BY DEF Stream!Start, Stream!Put
<1>2. StreamFine(s)
  BY DEF StreamInv
<1>3. StreamShaped'
  BY <1>1 DEF StreamInv, StreamShaped, Stream!Places
<1>4. streamAt'[s] = "ask" /\ \A t \in Streams : t # s => streamAt'[t] = streamAt[t]
  BY <1>1 DEF StreamInv, StreamShaped
<1>5. s \notin doubt /\ index[s] = 0 /\ s \notin final
  BY <1>1, <1>2 DEF StreamFine, TookTrue, RowTrue, NotTooLong
<1>6. RowTrue(s)' /\ NotTooLong(s)'
  BY <1>1, <1>2, <1>4, <1>5, StreamAssumption DEF StreamFine, RowTrue, NotTooLong
<1> QED BY <1>1, <1>3, <1>4, <1>6, StreamGoes DEF Underway

LEMMA TextKeeps == ASSUME StreamInv, NEW s \in Streams, Stream!Text(s) PROVE StreamInv'
<1>1. /\ streamAt[s] = "ask" /\ index[s] < MaxFrags /\ retry' = retry \ {s}
      /\ UNCHANGED <<source, index, attempted, final, took, doubt>>
  BY DEF Stream!Text
<1>2. StreamFine(s) /\ index[s] \in Nat
  BY DEF StreamInv, StreamShaped
<1>3. CASE /\ streamAt' = [streamAt EXCEPT ![s] = "done"]
           /\ UNCHANGED <<streamRow, mode>> /\ streamRow[s] = "none"
  <2>1. StreamShaped'
    BY <1>1, <1>3 DEF StreamInv, StreamShaped, Stream!Places
  <2>2. streamAt'[s] = "done" /\ \A t \in Streams : t # s => streamAt'[t] = streamAt[t]
    BY <1>3 DEF StreamInv, StreamShaped
  <2>3. TookTrue(s)'
    BY <1>1, <1>2, <2>2 DEF StreamFine, TookTrue, Stream!InOrder
  <2>4. RowTrue(s)'
    BY <1>1, <1>2, <1>3, <2>2 DEF StreamFine, RowTrue
  <2>5. NotTooLong(s)'
    BY <1>1, <1>2, <2>2, StreamAssumption DEF StreamFine, NotTooLong
  <2> QED BY <1>1, <1>3, <2>1, <2>2, <2>3, <2>4, <2>5, StreamAlone DEF StreamFine
<1>4. CASE /\ streamAt' = [streamAt EXCEPT ![s] = "frame"]
           /\ streamRow' = IF streamRow[s] = "none" THEN [streamRow EXCEPT ![s] = "reserved"]
                           ELSE streamRow
           /\ mode' \in [Streams -> {"passive", "active", "fallback"}]
  <2>1. StreamShaped'
    BY <1>1, <1>4 DEF StreamInv, StreamShaped, Stream!Places, RowStates
  <2>2. /\ streamAt'[s] = "frame"
        /\ streamRow'[s] = IF streamRow[s] = "none" THEN "reserved" ELSE streamRow[s]
        /\ \A t \in Streams : t # s => streamRow'[t] = streamRow[t] /\ streamAt'[t] = streamAt[t]
    BY <1>4 DEF StreamInv, StreamShaped
  <2>3. RowTrue(s)' /\ s \notin final
    BY <1>1, <1>2, <2>2 DEF StreamFine, RowTrue, TookTrue
  <2>4. NotTooLong(s)'
    BY <1>1, <1>2, <2>2, <2>3, StreamAssumption DEF StreamFine, NotTooLong
  <2> QED BY <1>1, <2>1, <2>2, <2>3, <2>4, StreamGoes DEF Underway
<1>5. CASE streamRow[s] = "none" /\ s \notin Sourceless /\ source = "blocked"
  BY <1>3, <1>5 DEF Stream!Text, Stream!Put
<1>6. CASE ~(streamRow[s] = "none" /\ s \notin Sourceless /\ source = "blocked")
  <2>1. mode' \in [Streams -> {"passive", "active", "fallback"}]
    BY <1>6 DEF Stream!Text, Stream!Put, StreamInv, StreamShaped
  <2> QED BY <1>4, <1>6, <2>1 DEF Stream!Text, Stream!Put
<1> QED BY <1>5, <1>6

LEMMA StreamFinishes == ASSUME StreamInv, NEW s \in Streams, Stream!Finish(s) PROVE StreamInv'
<1>1. /\ streamAt[s] = "ask" /\ index[s] > 0 /\ retry' = retry \ {s} /\ final' = final \cup {s}
      /\ streamAt' = [streamAt EXCEPT ![s] = "frame"]
      /\ UNCHANGED <<source, streamRow, mode, index, attempted, took, doubt>>
  BY DEF Stream!Finish, Stream!LastId, Stream!Put
<1>2. StreamFine(s) /\ index[s] \in Nat
  BY DEF StreamInv, StreamShaped
<1>3. StreamShaped'
  BY <1>1 DEF StreamInv, StreamShaped, Stream!Places
<1>4. streamAt'[s] = "frame" /\ \A t \in Streams : t # s => streamAt'[t] = streamAt[t]
  BY <1>1 DEF StreamInv, StreamShaped
<1>5. RowTrue(s)'
  BY <1>1, <1>2, <1>4 DEF StreamFine, RowTrue
<1>6. NotTooLong(s)'
  BY <1>1, <1>2, <1>4 DEF StreamFine, NotTooLong
<1> QED BY <1>1, <1>3, <1>4, <1>5, <1>6, StreamGoes DEF Underway

LEMMA StreamPauses ==
    ASSUME StreamInv, NEW s \in Streams,
           \/ streamAt[s] = "wire" /\ streamAt' = [streamAt EXCEPT ![s] = "pause"] /\ retry' = retry
           \/ streamAt[s] = "pause" /\ streamAt' = [streamAt EXCEPT ![s] = "frame"]
              /\ retry' = retry \cup {s},
           UNCHANGED <<source, streamRow, mode, index, attempted, final, took, doubt>>
    PROVE  StreamInv'
<1>1. StreamFine(s) /\ index[s] \in Nat
  BY DEF StreamInv, StreamShaped
<1>2. StreamShaped'
  BY DEF StreamInv, StreamShaped, Stream!Places
<1>3. /\ streamAt'[s] \in {"pause", "frame"} /\ streamAt[s] \in {"wire", "pause"}
      /\ \A t \in Streams : t # s => streamAt'[t] = streamAt[t]
  BY DEF StreamInv, StreamShaped
<1>4. RowTrue(s)'
  BY <1>1, <1>3 DEF StreamFine, RowTrue
<1>5. NotTooLong(s)'
  BY <1>1, <1>3 DEF StreamFine, NotTooLong
<1> QED BY <1>2, <1>3, <1>4, <1>5, StreamGoes DEF Underway

LEMMA FragmentKeeps == ASSUME StreamInv, NEW s \in Streams, Stream!Submit(s) PROVE StreamInv'
<1>1. streamAt[s] = "frame" /\ UNCHANGED <<source, took, doubt>>
  BY DEF Stream!Submit
<1>2. StreamFine(s) /\ index[s] \in Nat /\ source \in {"open", "expired", "active", "blocked"}
  BY DEF StreamInv, StreamShaped
<1>3. CASE Stream!Switch(s) /\ index[s] = 0
  BY <1>1, <1>2, <1>3, SwitchKeeps
<1>4. CASE Stream!Abort(s, "not_sent")
  BY <1>1, <1>2, <1>4, AbortKeeps DEF Underway
<1>5. CASE /\ streamAt' = [streamAt EXCEPT ![s] = "wire"]
           /\ streamRow' = [streamRow EXCEPT ![s] = "in_flight"]
           /\ attempted' = attempted \cup {s} /\ UNCHANGED <<mode, index, retry, final>>
  <2>1. StreamShaped'
    BY <1>1, <1>5 DEF StreamInv, StreamShaped, Stream!Places, RowStates
  <2>2. /\ streamAt'[s] = "wire" /\ streamRow'[s] = "in_flight"
        /\ \A t \in Streams : t # s => streamRow'[t] = streamRow[t] /\ streamAt'[t] = streamAt[t]
    BY <1>5 DEF StreamInv, StreamShaped
  <2>3. RowTrue(s)'
    BY <1>1, <1>2, <1>5, <2>2 DEF StreamFine, RowTrue, TookTrue
  <2>4. NotTooLong(s)'
    BY <1>1, <1>2, <1>5, <2>2 DEF StreamFine, NotTooLong
  <2> QED BY <1>1, <1>5, <2>1, <2>2, <2>3, <2>4, StreamGoes DEF Underway
<1> QED BY <1>2, <1>3, <1>4, <1>5 DEF Stream!Submit, Stream!LastId, Stream!Put

\* QQ takes one more fragment.
LEMMA OneMore ==
    ASSUME StreamInv, NEW s \in Streams, streamAt[s] = "wire"
    PROVE  LET q == Append(took[s], Stream!Frame(s)) IN
           /\ q \in Seq(Pieces) /\ Len(q) = index[s] + 1 /\ Len(took[s]) = index[s]
           /\ q # << >> /\ (q[Len(q)].final <=> s \in final)
           /\ \A i \in DOMAIN q : q[i].index = i - 1
           /\ \A i \in DOMAIN q : q[i].final => i = Len(q) /\ s \in final
<1> DEFINE q == Append(took[s], Stream!Frame(s))
<1>1. /\ StreamFine(s) /\ took[s] \in Seq(Pieces) /\ index[s] \in Nat /\ Len(took[s]) = index[s]
      /\ \A i \in DOMAIN took[s] : took[s][i].index = i - 1 /\ ~took[s][i].final
  BY DEF StreamInv, StreamShaped, StreamFine, TookTrue, Stream!InOrder
<1>2. Stream!Frame(s).index = index[s] /\ (Stream!Frame(s).final <=> s \in final)
  BY Zenon DEF Stream!Frame
<1>3. Stream!Frame(s) \in Pieces
  <2>1. (s \in final) \in BOOLEAN
    OBVIOUS
  <2> QED BY Zenon, <1>1, <2>1 DEF Stream!Frame, Pieces
<1>4. /\ q \in Seq(Pieces) /\ Len(q) = index[s] + 1 /\ DOMAIN q = 1..index[s] + 1
      /\ \A i \in 1..index[s] : q[i] = took[s][i] /\ i \in DOMAIN took[s]
      /\ q[index[s] + 1] = Stream!Frame(s) /\ q # << >>
  <2> HIDE DEF Pieces
  <2>1. index[s] \in Nat /\ took[s] \in Seq(Pieces) /\ DOMAIN took[s] = 1..index[s]
        /\ Len(took[s]) = index[s]
    BY <1>1
  <2>2. /\ q \in Seq(Pieces) /\ q # << >> /\ Len(q) = Len(took[s]) + 1
        /\ \A i \in 1..Len(took[s]) : q[i] = took[s][i]
        /\ q[Len(took[s]) + 1] = Stream!Frame(s)
    <3>1. took[s] \in Seq(Pieces)
      BY <2>1
    <3> QED BY <1>3, <3>1, AppendProperties
  <2> HIDE DEF q
  <2>3. DOMAIN q = 1..Len(took[s]) + 1
    BY <2>2, LenProperties
  <2> QED BY <2>1, <2>2, <2>3
<1> HIDE DEF q
<1>5. \A i \in DOMAIN q : i = index[s] + 1 \/ i \in 1..index[s]
  BY <1>1, <1>4
<1>6. \A i \in DOMAIN q : q[i].index = i - 1
  BY <1>1, <1>2, <1>4, <1>5
<1>7. \A i \in DOMAIN q : q[i].final => i = Len(q) /\ s \in final
  BY <1>1, <1>2, <1>4, <1>5
<1>8. q[Len(q)].final <=> s \in final
  BY <1>2, <1>4
<1> QED BY <1>1, <1>4, <1>6, <1>7, <1>8 DEF q

LEMMA ConfirmedKeeps == ASSUME StreamInv, NEW s \in Streams, Stream!Confirmed(s) PROVE StreamInv'
<1> DEFINE q == Append(took[s], Stream!Frame(s))
<1>1. /\ streamAt[s] = "wire" /\ took' = [took EXCEPT ![s] = q]
      /\ index' = [index EXCEPT ![s] = index[s] + 1]
      /\ streamAt' = [streamAt EXCEPT ![s] = IF s \in final THEN "done" ELSE "ask"]
      /\ streamRow' = IF s \in final THEN [streamRow EXCEPT ![s] = "sent"] ELSE streamRow
      /\ UNCHANGED <<source, mode, retry, attempted, final, doubt>>
  BY DEF Stream!Confirmed, Stream!Put
<1>2. /\ q \in Seq(Pieces) /\ Len(q) = index[s] + 1
      /\ q # << >> /\ (q[Len(q)].final <=> s \in final)
      /\ \A i \in DOMAIN q : q[i].index = i - 1
      /\ \A i \in DOMAIN q : q[i].final => i = Len(q) /\ s \in final
  BY <1>1, OneMore
<1> HIDE DEF q
<1>3. StreamFine(s) /\ index[s] \in Nat
  BY DEF StreamInv, StreamShaped
<1>4. StreamShaped'
  BY <1>1, <1>2, <1>3 DEF StreamInv, StreamShaped, Stream!Places, RowStates
<1>5. /\ took'[s] = q /\ index'[s] = index[s] + 1
      /\ streamAt'[s] = (IF s \in final THEN "done" ELSE "ask")
      /\ streamRow'[s] = (IF s \in final THEN "sent" ELSE streamRow[s])
  BY <1>1 DEF StreamInv, StreamShaped
<1>6. \A t \in Streams : t # s =>
        /\ took'[t] = took[t] /\ index'[t] = index[t] /\ streamRow'[t] = streamRow[t]
        /\ streamAt'[t] = streamAt[t]
  BY <1>1 DEF StreamInv, StreamShaped
<1>7. s \notin doubt /\ streamRow[s] = "in_flight" /\ index[s] <= MaxFrags
      /\ (s \notin final => index[s] < MaxFrags)
  BY <1>1, <1>3 DEF StreamFine, TookTrue, RowTrue, NotTooLong
<1>8. TookTrue(s)'
  BY <1>1, <1>2, <1>5, <1>7 DEF TookTrue, Stream!InOrder
<1>9. RowTrue(s)'
  BY <1>1, <1>2, <1>5, <1>7 DEF RowTrue
<1>10. NotTooLong(s)'
  BY <1>1, <1>3, <1>5, <1>7, StreamAssumption DEF NotTooLong
<1> QED BY <1>1, <1>4, <1>6, <1>8, <1>9, <1>10, StreamAlone DEF StreamFine

\* No usable answer: QQ took the fragment or did not, and send() ends.
LEMMA UncertainStream == ASSUME StreamInv, NEW s \in Streams, Stream!Uncertain(s) PROVE StreamInv'
<1> DEFINE q == Append(took[s], Stream!Frame(s))
<1>1. /\ streamAt[s] = "wire" /\ took' \in {took, [took EXCEPT ![s] = q]}
      /\ doubt' = doubt \cup {s} /\ streamAt' = [streamAt EXCEPT ![s] = "done"]
      /\ streamRow' = IF streamRow[s] = "none" THEN streamRow
                      ELSE [streamRow EXCEPT ![s] = Stream!Verdict(s, "result_unknown")]
      /\ UNCHANGED <<source, mode, index, retry, attempted, final>>
  BY DEF Stream!Uncertain, Stream!Put, Stream!Abort
<1>2. /\ q \in Seq(Pieces) /\ Len(q) = index[s] + 1 /\ Len(took[s]) = index[s]
      /\ \A i \in DOMAIN q : q[i].index = i - 1
      /\ \A i \in DOMAIN q : q[i].final => i = Len(q)
  BY <1>1, OneMore
<1> HIDE DEF q
<1>3. StreamFine(s) /\ index[s] \in Nat /\ streamRow[s] = "in_flight"
  BY <1>1 DEF StreamInv, StreamShaped, StreamFine, RowTrue
<1>4. streamRow' = [streamRow EXCEPT ![s] = "unknown"]
  BY <1>1, <1>3 DEF Stream!Verdict
<1>5. StreamShaped'
  <2>1. took' \in [Streams -> Seq(Pieces)]
    BY <1>1, <1>2 DEF StreamInv, StreamShaped
  <2>2. streamAt' \in [Streams -> Stream!Places] /\ streamRow' \in [Streams -> RowStates]
    BY <1>1, <1>4 DEF StreamInv, StreamShaped, Stream!Places, RowStates
  <2> QED BY <1>1, <2>1, <2>2 DEF StreamInv, StreamShaped
<1>6. /\ took'[s] \in {took[s], q} /\ index'[s] = index[s]
      /\ streamAt'[s] = "done" /\ streamRow'[s] = "unknown" /\ s \in doubt'
  BY <1>1, <1>4 DEF StreamInv, StreamShaped
<1>7. \A t \in Streams : t # s =>
        /\ took'[t] = took[t] /\ streamRow'[t] = streamRow[t] /\ streamAt'[t] = streamAt[t]
  BY <1>1, <1>4 DEF StreamInv, StreamShaped
<1>8. TookTrue(s)'
  BY <1>1, <1>2, <1>3, <1>6 DEF StreamFine, TookTrue, Stream!InOrder
<1>9. RowTrue(s)'
  BY <1>6 DEF RowTrue
<1>10. NotTooLong(s)'
  BY <1>1, <1>3, <1>6 DEF StreamFine, NotTooLong
<1> QED BY <1>1, <1>5, <1>7, <1>8, <1>9, <1>10, StreamAlone DEF StreamFine

LEMMA StreamRefusals ==
    ASSUME StreamInv, NEW s \in Streams,
           \/ Stream!Interrupted(s) \/ Stream!Busy(s) \/ Stream!Refused(s)
           \/ Stream!SourceRefused(s) \/ Stream!Unauthorized(s)
    PROVE  StreamInv'
<1>1. /\ streamAt[s] \in Underway /\ UNCHANGED <<took, doubt>>
      /\ source' \in {"open", "expired", "active", "blocked"} /\ index[s] \in Nat
  BY DEF StreamInv, StreamShaped, Underway, Stream!Interrupted, Stream!Busy, Stream!Refused,
         Stream!SourceRefused, Stream!Unauthorized
<1>2. CASE \E how \in {"none", "not_sent", "rejected"} : Stream!Abort(s, how)
  BY <1>1, <1>2, AbortKeeps
<1>3. CASE streamAt[s] = "wire" /\ index[s] = 0 /\ Stream!Switch(s)
  BY <1>1, <1>3, SwitchKeeps
<1>4. CASE /\ streamAt[s] = "wire" /\ streamAt' = [streamAt EXCEPT ![s] = "pause"]
           /\ UNCHANGED <<source, streamRow, mode, index, retry, attempted, final>>
  BY <1>1, <1>4, StreamPauses
<1>5. CASE UNCHANGED <<source, streamRow, streamAt, mode, index, retry, attempted, final>>
  <2>1. ASSUME NEW t \in Streams PROVE StreamFine(t)'
    BY <1>1, <1>5
       DEF StreamInv, StreamFine, TookTrue, RowTrue, NotTooLong, Stream!InOrder
  <2> QED BY <1>1, <1>5, <2>1 DEF StreamInv, StreamShaped
<1>6. CASE Stream!Interrupted(s)
  BY <1>2, <1>6 DEF Stream!Interrupted
<1>7. CASE Stream!Busy(s)
  BY <1>2, <1>4, <1>7 DEF Stream!Busy, Stream!Put
<1>8. CASE Stream!Refused(s)
  BY <1>2, <1>8 DEF Stream!Refused
<1>9. CASE Stream!SourceRefused(s)
  BY <1>1, <1>2, <1>3, <1>9 DEF Stream!SourceRefused, Stream!LastId
<1>10. CASE Stream!Unauthorized(s)
  BY <1>1, <1>2, <1>3, <1>5, <1>10 DEF Stream!Unauthorized, Stream!LastId
<1> QED BY <1>6, <1>7, <1>8, <1>9, <1>10

\* A crash ends every stream under way; the next process judges the rows.
LEMMA StreamCrashes == ASSUME StreamInv, Stream!Crash PROVE StreamInv'
<1>1. PICK lost \in SUBSET {s \in Streams : streamAt[s] = "wire"} :
         took' = [s \in Streams |->
                    IF s \in lost THEN Append(took[s], Stream!Frame(s)) ELSE took[s]]
  BY DEF Stream!Crash
<1>2. /\ doubt' = doubt \cup {s \in Streams : streamAt[s] = "wire"}
      /\ streamAt' = [s \in Streams |-> IF s \in Stream!Tasks THEN "done" ELSE streamAt[s]]
      /\ streamRow' = [s \in Streams |-> CASE streamRow[s] = "in_flight" -> "unknown"
                                           [] streamRow[s] = "reserved" -> "not_sent"
                                           [] OTHER -> streamRow[s]]
      /\ UNCHANGED <<source, mode, index, retry, attempted, final>>
  BY DEF Stream!Crash
<1>3. ASSUME NEW s \in Streams
      PROVE  /\ took'[s] \in Seq(Pieces)
             /\ streamAt'[s] \in Stream!Places /\ streamRow'[s] \in RowStates
             /\ StreamFine(s)'
  <2>1. StreamFine(s) /\ index[s] \in Nat /\ streamRow[s] \in RowStates
        /\ streamAt[s] \in Stream!Places /\ took[s] \in Seq(Pieces)
    BY DEF StreamInv, StreamShaped
  <2>2. /\ streamAt'[s] = (IF streamAt[s] \notin {"idle", "done"} THEN "done" ELSE streamAt[s])
        /\ streamRow'[s] = (IF streamRow[s] = "in_flight" THEN "unknown"
                            ELSE IF streamRow[s] = "reserved" THEN "not_sent" ELSE streamRow[s])
        /\ (s \in doubt' <=> s \in doubt \/ streamAt[s] = "wire")
        /\ index'[s] = index[s] /\ (s \in final' <=> s \in final)
    BY <1>2 DEF Stream!Tasks
  <2>3. /\ streamAt'[s] \in Stream!Places /\ streamRow'[s] \in RowStates
    BY <2>1, <2>2 DEF Stream!Places, RowStates
  <2>4. RowTrue(s) /\ (streamAt[s] = "wire" => s \notin doubt)
    BY <2>1 DEF StreamFine, TookTrue
  <2>5. NotTooLong(s)'
    BY <2>1, <2>2, StreamAssumption DEF StreamFine, NotTooLong
  <2>6. CASE s \in lost
    <3> DEFINE q == Append(took[s], Stream!Frame(s))
    <3>1. streamAt[s] = "wire" /\ took'[s] = q /\ streamRow[s] = "in_flight"
      BY <1>1, <2>4, <2>6 DEF RowTrue
    <3>2. /\ q \in Seq(Pieces) /\ Len(q) = index[s] + 1
          /\ \A i \in DOMAIN q : q[i].index = i - 1
          /\ \A i \in DOMAIN q : q[i].final => i = Len(q)
      BY <3>1, OneMore
    <3> HIDE DEF q
    <3>3. TookTrue(s)'
      BY <2>1, <2>2, <3>1, <3>2 DEF TookTrue, Stream!InOrder
    <3>4. RowTrue(s)'
      BY <2>2, <3>1 DEF RowTrue
    <3> QED BY <2>3, <2>5, <3>1, <3>2, <3>3, <3>4 DEF StreamFine
  <2>7. CASE s \notin lost
    <3>1. took'[s] = took[s]
      BY <1>1, <2>7
    <3>2. TookTrue(s)'
      BY <2>1, <2>2, <2>4, <3>1 DEF StreamFine, TookTrue, Stream!InOrder
    <3>3. RowTrue(s)'
      BY <2>1, <2>2, <2>4, <3>1 DEF RowTrue, RowStates, Stream!Places
    <3> QED BY <2>1, <2>3, <2>5, <3>1, <3>2, <3>3 DEF StreamFine
  <2> QED BY <2>6, <2>7
<1>4. StreamShaped'
  BY <1>1, <1>2, <1>3 DEF StreamInv, StreamShaped
<1> QED BY <1>3, <1>4 DEF StreamInv

LEMMA StreamAlways == ServicesSpec => []StreamInv
<1>1. ServicesInit => StreamInv
  <2> SUFFICES ASSUME Stream!Init PROVE StreamInv
    BY DEF ServicesInit
  <2>1. StreamShaped
    BY DEF Stream!Init, StreamShaped, RowStates, Stream!Places
  <2>2. ASSUME NEW s \in Streams PROVE StreamFine(s)
    BY StreamAssumption DEF Stream!Init, StreamFine, TookTrue, RowTrue, NotTooLong, Stream!InOrder
  <2> QED BY <2>1, <2>2 DEF StreamInv
<1>2. StreamInv /\ [Stream!Next]_(Stream!vars) => StreamInv'
  <2> SUFFICES ASSUME StreamInv, [Stream!Next]_(Stream!vars) PROVE StreamInv'
    OBVIOUS
  <2>1. CASE UNCHANGED <<streamRow, streamAt, mode, index, retry, attempted, final, took, doubt>>
             /\ source' \in {"open", "expired", "active", "blocked"}
    <3>1. StreamShaped'
      BY <2>1 DEF StreamInv, StreamShaped
    <3>2. ASSUME NEW s \in Streams PROVE StreamFine(s)'
      BY <2>1 DEF StreamInv, StreamFine, TookTrue, RowTrue, NotTooLong, Stream!InOrder
    <3> QED BY <3>1, <3>2 DEF StreamInv
  <2>2. CASE UNCHANGED Stream!vars \/ Stream!SourceExpires
    BY <2>1, <2>2 DEF Stream!vars, Stream!SourceExpires, StreamInv, StreamShaped
  <2>3. ASSUME NEW s \in Streams, Stream!Busy(s) \/ Stream!PauseEnds(s) PROVE StreamInv'
    BY <2>3, StreamRefusals, StreamPauses DEF Stream!PauseEnds, Stream!Put
  <2>4. CASE Stream!Next
    BY <2>2, <2>3, <2>4, StreamStarts, TextKeeps, StreamFinishes, FragmentKeeps, ConfirmedKeeps,
       UncertainStream, StreamRefusals, StreamCrashes DEF Stream!Next
  <2> QED BY <2>2, <2>4
<1> QED BY <1>1, <1>2, StreamSteps, PTL DEF ServicesSpec

\* Fragments arrive in order and once, none after one in doubt, and the row's verdict is honest.
LEMMA StreamIsHonest == StreamInv => Stream!TypeOK /\ Stream!StreamHonest
<1> SUFFICES ASSUME StreamInv PROVE Stream!TypeOK /\ Stream!StreamHonest
  OBVIOUS
<1>1. index \in [Streams -> 0..MaxFrags + 1]
  <2>1. \A s \in Streams : index[s] \in Nat /\ index[s] <= MaxFrags + 1
    BY DEF StreamInv, StreamShaped, StreamFine, NotTooLong
  <2> QED BY <2>1, StreamAssumption DEF StreamInv, StreamShaped
<1>2. Stream!TypeOK
  BY <1>1 DEF StreamInv, StreamShaped, RowStates, Stream!TypeOK
<1>3. ASSUME NEW s \in Streams
      PROVE  Stream!InOrder(s) /\ Stream!NothingAfterDoubt(s) /\ Stream!HonestVerdict(s)
  <2>1. TookTrue(s) /\ RowTrue(s) /\ took[s] \in Seq(Pieces)
    BY DEF StreamInv, StreamFine, StreamShaped
  <2>2. streamRow[s] \in {"none", "reserved", "not_sent", "rejected"} => took[s] = << >>
    BY <2>1 DEF TookTrue, RowTrue
  <2> QED BY <2>1, <2>2 DEF TookTrue, RowTrue, Stream!NothingAfterDoubt, Stream!HonestVerdict
<1> QED BY <1>2, <1>3 DEF Stream!StreamHonest
-----------------------------------------------------------------------------
(* The fence of a source's fragments.                                      *)

LEMMA FenceSteps == [ServicesNext]_allVars => [Fence!Next]_(Fence!vars)
<1>1. UNCHANGED fenceVars => UNCHANGED Fence!vars
  BY DEF fenceVars, Fence!vars
<1> QED BY <1>1
      DEF ServicesNext, LedgerStep, BusStep, StreamStep, FenceStep, MediaStep, NetStep,
          SettingsStep, PanelStep, JoinStep, GroupStep, allVars

LEMMA FenceCounts == ASSUME NEW S PROVE Fence!Cardinality(S) = Cardinality(S)
BY DEF Fence!Cardinality, Cardinality

FenceStates == {"reserved", "in_flight", "unknown", "sent", "rejected", "not_sent",
                "history_evicted"}
FenceRows == [state : FenceStates, index : Nat, id : Nat, asks : BOOLEAN, finished : BOOLEAN,
              at : Nat]

FenceShaped ==
    /\ asked \subseteq Fragments /\ IsFiniteSet(asked) /\ DOMAIN rows \subseteq asked
    /\ rows \in [DOMAIN rows -> FenceRows]
    /\ \E k \in Nat : DOMAIN shown = 1..k
    /\ shown \in [DOMAIN shown -> Seq(Nat \X BOOLEAN)]

\* The rows that are history fit in, and no two were updated at once.
Past == Fence!In(Fence!History)
HistoryFits ==
    /\ Cardinality(Past) <= RowCap
    /\ \A o, p \in Past : rows[o].at = rows[p].at => o = p

\* Every stream is shown from its first fragment on, and nothing after its last.
Proper(s) == /\ s # << >>
             /\ \A n \in DOMAIN s : s[n][1] = n - 1 /\ (s[n][2] => n = Len(s))
ShownTrue == \A i \in DOMAIN shown : Proper(shown[i])

\* A row that says sent is of a fragment that is shown; other rows name streams that are.
Settled == Fence!In({"sent", "history_evicted"})
RowsTrue ==
    \A o \in DOMAIN rows :
        /\ rows[o].id \in {0} \cup DOMAIN shown
        /\ rows[o].index > 0 => rows[o].id # 0
        /\ o \in Settled =>
              /\ rows[o].id # 0 /\ rows[o].index + 1 \in DOMAIN shown[rows[o].id]
              /\ shown[rows[o].id][rows[o].index + 1][2] <=> rows[o].finished
        /\ o \notin Settled /\ rows[o].index = 0 => rows[o].id = 0
        /\ rows[o].state \in {"reserved", "in_flight"} /\ rows[o].index > 0 =>
              /\ Len(shown[rows[o].id]) = rows[o].index
              /\ ~Fence!Whole(shown[rows[o].id])

\* The stream an unknown first fragment may have opened: no row has its id.
Unnamed(i) == \A o \in DOMAIN rows : rows[o].id # i

\* The last fragment of a stream has a confirmed row, or the row that is unknown is of it.
LastKnown ==
    \A i \in DOMAIN shown :
        \/ \E o \in Settled : rows[o].id = i /\ rows[o].index + 1 = Len(shown[i])
        \/ \E o \in Fence!In({"unknown"}) : rows[o].id = i \/ Unnamed(i)

\* One row at a time is unsettled, one stream unfinished, and the row is of that stream.
OneOpen ==
    /\ \A o, p \in Fence!In(Fence!Unsettled) : o = p
    /\ \A i, j \in DOMAIN shown :
          ~Fence!Whole(shown[i]) /\ ~Fence!Whole(shown[j]) => i = j
    /\ \A o \in Fence!In(Fence!Unsettled), i \in DOMAIN shown :
          ~Fence!Whole(shown[i]) => rows[o].id = i \/ (rows[o].state = "unknown" /\ Unnamed(i))

FenceInv == FenceShaped /\ HistoryFits /\ ShownTrue /\ RowsTrue /\ LastKnown /\ OneOpen

LEMMA NewestTops ==
    ASSUME FenceInv
    PROVE  Fence!Newest \in Nat /\ \A o \in DOMAIN rows : rows[o].at <= Fence!Newest
<1> DEFINE key == [o \in DOMAIN rows |-> rows[o].at]
           S == {0} \cup {rows[o].at : o \in DOMAIN rows}
<1>1. IsFiniteSet(DOMAIN rows)
  BY FS_Subset DEF FenceInv, FenceShaped
<1>2. \A o \in DOMAIN rows : key[o] = rows[o].at /\ key[o] \in Nat /\ key[o] \in Int
  BY DEF FenceInv, FenceShaped, FenceRows
<1> HIDE DEF key
<1>3. \E n \in S : \A o \in DOMAIN rows : rows[o].at <= n
  <2>1. CASE DOMAIN rows = {}
    BY <2>1
  <2>2. CASE DOMAIN rows # {}
    <3>1. PICK o \in DOMAIN rows : \A p \in DOMAIN rows : key[p] <= key[o]
      BY <1>1, <1>2, <2>2, Greatest
    <3> QED BY <1>2, <3>1
  <2> QED BY <2>1, <2>2
<1>4. Fence!Newest \in S /\ \A o \in DOMAIN rows : rows[o].at <= Fence!Newest
  BY <1>3 DEF Fence!Newest
<1> QED BY <1>2, <1>4

\* Room is made before a row becomes history: what was sent stays and is evicted at most.
LEMMA TrimKeeps ==
    ASSUME FenceInv
    PROVE  /\ DOMAIN Fence!Trimmed \subseteq DOMAIN rows
           /\ \A o \in DOMAIN rows : o \notin Past \/ o \in Settled => o \in DOMAIN Fence!Trimmed
           /\ \A o \in DOMAIN Fence!Trimmed :
                 \/ Fence!Trimmed[o] = rows[o]
                 \/ /\ rows[o].state = "sent"
                    /\ Fence!Trimmed[o] = [rows[o] EXCEPT !.state = "history_evicted"]
           /\ LET kept == {o \in DOMAIN Fence!Trimmed : Fence!Trimmed[o].state \in Fence!History} IN
              kept \subseteq Past /\ IsFiniteSet(kept) /\ Cardinality(kept) <= RowCap - 1
<1> DEFINE over(o) == Cardinality({p \in Past : rows[p].at > rows[o].at})
           old == {o \in Past : over(o) >= RowCap - 1}
           trimmed == [o \in {p \in DOMAIN rows : p \notin old \/ rows[p].state = "sent"} |->
                          IF o \in old THEN [rows[o] EXCEPT !.state = "history_evicted"] ELSE rows[o]]
           kept == {o \in DOMAIN trimmed : trimmed[o].state \in Fence!History}
<1>1. Fence!Trimmed = trimmed
  BY FenceCounts DEF Fence!Trimmed, Past
<1>2. IsFiniteSet(Past) /\ Past \subseteq DOMAIN rows
  BY FS_Subset DEF FenceInv, FenceShaped, Past, Fence!In
<1>3. rows \in [DOMAIN rows -> FenceRows] /\ RowCap - 1 \in Nat
  BY FenceAssumption DEF FenceInv, FenceShaped
<1>4. \A o \in Past : rows[o].state \in {"sent", "rejected", "not_sent"}
  BY DEF Past, Fence!In, Fence!History
<1>5. \A o \in DOMAIN rows : o \notin Past \/ o \in Settled => o \in DOMAIN trimmed
  BY <1>4 DEF Settled, Fence!In
<1>6. \A o \in DOMAIN trimmed :
         \/ trimmed[o] = rows[o]
         \/ rows[o].state = "sent" /\ trimmed[o] = [rows[o] EXCEPT !.state = "history_evicted"]
  OBVIOUS
<1>7. \A o \in kept : o \in Past /\ o \notin old
  <2>1. ASSUME NEW o \in kept, o \in old PROVE FALSE
    <3>1. trimmed[o] = [rows[o] EXCEPT !.state = "history_evicted"] /\ rows[o] \in FenceRows
      BY <1>2, <1>3, <2>1
    <3>2. trimmed[o].state = "history_evicted"
      BY <3>1 DEF FenceRows
    <3> QED BY <3>2 DEF Fence!History
  <2>2. ASSUME NEW o \in kept, o \notin old PROVE o \in Past
    BY <2>2 DEF Past, Fence!In
  <2> QED BY <2>1, <2>2
<1>8. IsFiniteSet(kept) /\ Cardinality(kept) <= RowCap - 1
  <2> DEFINE key == [o \in Past |-> rows[o].at]
  <2>1. \A o \in Past : key[o] = rows[o].at /\ key[o] \in Nat
    BY <1>2, <1>3 DEF FenceRows
  <2>2. \A o, p \in Past : key[o] = key[p] => o = p
    BY <2>1 DEF FenceInv, HistoryFits
  <2>3. \A o \in Past : {p \in Past : rows[p].at > rows[o].at} = {p \in Past : key[p] > key[o]}
    BY <2>1
  <2> HIDE DEF key
  <2>4. /\ IsFiniteSet(Top(Past, key, RowCap - 1))
        /\ Cardinality(Top(Past, key, RowCap - 1)) <= RowCap - 1
    BY <1>2, <1>3, <2>1, <2>2, Ranked
  <2>5. \A o \in Past : over(o) \in Nat
    BY <1>2, FS_Subset, FS_CardinalityType
  <2>6. kept \subseteq Top(Past, key, RowCap - 1)
    <3> SUFFICES ASSUME NEW o \in kept PROVE o \in Top(Past, key, RowCap - 1)
      OBVIOUS
    <3>1. o \in Past /\ over(o) < RowCap - 1
      BY SMTT(30), <1>3, <1>7, <2>5
    <3> HIDE DEF kept
    <3>2. Cardinality({p \in Past : key[p] > key[o]}) < RowCap - 1
      BY <2>3, <3>1
    <3> QED BY <3>1, <3>2 DEF Top
  <2> HIDE DEF kept
  <2>7. Cardinality(kept) <= Cardinality(Top(Past, key, RowCap - 1)) /\ IsFiniteSet(kept)
    BY <2>4, <2>6, FS_Subset
  <2> QED BY <1>3, <2>4, <2>7, FS_CardinalityType
<1> HIDE DEF old
<1>9. DOMAIN trimmed \subseteq DOMAIN rows /\ kept \subseteq Past
  BY <1>7
<1> HIDE DEF trimmed, kept
<1>10. kept = {o \in DOMAIN trimmed : trimmed[o].state \in Fence!History}
  BY DEF kept
<1> QED BY Zenon, <1>1, <1>5, <1>6, <1>8, <1>9, <1>10

\* What settling a row does: room is made, and the row becomes the newest.
Updated(o) ==
    /\ rows' = [p \in DOMAIN rows' |-> rows'[p]] /\ o \in DOMAIN rows'
    /\ rows'[o] \in FenceRows /\ rows'[o].at = Fence!Newest + 1
    /\ rows'[o].index = rows[o].index /\ (rows'[o].asks <=> rows[o].asks)
    /\ \/ /\ rows'[o].state = "unknown" /\ DOMAIN rows' = DOMAIN rows
          /\ \A p \in DOMAIN rows : p # o => rows'[p] = rows[p]
       \/ /\ rows'[o].state \in {"sent", "rejected", "not_sent"}
          /\ DOMAIN rows' = DOMAIN Fence!Trimmed
          /\ \A p \in DOMAIN Fence!Trimmed : p # o => rows'[p] = Fence!Trimmed[p]

LEMMA SettlesRow ==
    ASSUME FenceInv, NEW o \in DOMAIN rows, rows[o].state \in {"reserved", "in_flight"}, Updated(o)
    PROVE  /\ DOMAIN rows' \subseteq DOMAIN rows /\ o \in DOMAIN rows'
           /\ rows' \in [DOMAIN rows' -> FenceRows]
           /\ \A p \in DOMAIN rows' : p # o =>
                 /\ rows'[p].index = rows[p].index /\ rows'[p].id = rows[p].id
                 /\ (rows'[p].finished <=> rows[p].finished)
                 /\ \/ rows'[p].state = rows[p].state
                    \/ rows[p].state = "sent" /\ rows'[p].state = "history_evicted"
           /\ \A p \in Settled : p \in DOMAIN rows' /\ p # o
           /\ HistoryFits'
<1> DEFINE unknown == rows'[o].state = "unknown"
           kept == IF unknown THEN rows ELSE Fence!Trimmed
           past == {p \in DOMAIN kept : kept[p].state \in Fence!History}
<1>1. /\ DOMAIN rows' = DOMAIN kept /\ \A p \in DOMAIN kept : p # o => rows'[p] = kept[p]
      /\ rows'[o].state \in {"sent", "rejected", "not_sent", "unknown"}
  BY DEF Updated
<1>2. /\ rows \in [DOMAIN rows -> FenceRows] /\ RowCap \in Nat \ {0}
      /\ o \notin Past /\ o \notin Settled /\ Settled \subseteq DOMAIN rows
  BY FenceAssumption DEF FenceInv, FenceShaped, Past, Settled, Fence!In, Fence!History
<1>3. /\ DOMAIN kept \subseteq DOMAIN rows /\ o \in DOMAIN kept
      /\ \A p \in Settled : p \in DOMAIN kept
      /\ \A p \in DOMAIN kept : \/ kept[p] = rows[p]
                                \/ /\ rows[p].state = "sent"
                                   /\ kept[p] = [rows[p] EXCEPT !.state = "history_evicted"]
      /\ past \subseteq Past
  <2>1. CASE unknown
    BY <1>2, <2>1 DEF Past, Fence!In
  <2>2. CASE ~unknown
    <3>1. kept = Fence!Trimmed
      BY <2>2
    <3> HIDE DEF kept
    <3> QED BY <1>2, <3>1, TrimKeeps
  <2> QED BY <2>1, <2>2
<1>4. /\ IsFiniteSet(past) /\ Cardinality(past) \in Nat
      /\ Cardinality(past) <= RowCap - (IF unknown THEN 0 ELSE 1)
  <2>1. IsFiniteSet(Past)
    BY FS_Subset DEF FenceInv, FenceShaped, Past, Fence!In
  <2>2. IsFiniteSet(past) /\ Cardinality(past) \in Nat
    BY <1>3, <2>1, FS_Subset, FS_CardinalityType
  <2>3. CASE unknown
    <3>1. past = Past
      BY <2>3 DEF Past, Fence!In
    <3>2. Cardinality(Past) <= RowCap
      BY DEF FenceInv, HistoryFits
    <3> HIDE DEF kept, past, unknown
    <3> QED BY <2>2, <2>3, <3>1, <3>2, <1>2
  <2>4. CASE ~unknown
    <3>1. kept = Fence!Trimmed
      BY <2>4
    <3>2. past = {p \in DOMAIN Fence!Trimmed : Fence!Trimmed[p].state \in Fence!History}
      BY <3>1
    <3> HIDE DEF kept, past, unknown
    <3>3. Cardinality(past) <= RowCap - 1
      BY <3>2, TrimKeeps
    <3> QED BY <2>2, <2>4, <3>3
  <2> QED BY <2>3, <2>4
<1>5. /\ Fence!Newest \in Nat /\ \A p \in DOMAIN rows : rows[p].at <= Fence!Newest
  BY NewestTops
<1>6. \A p \in DOMAIN kept :
         /\ kept[p] \in FenceRows /\ kept[p].index = rows[p].index /\ kept[p].id = rows[p].id
         /\ kept[p].at = rows[p].at /\ (kept[p].finished <=> rows[p].finished)
         /\ \/ kept[p].state = rows[p].state
            \/ rows[p].state = "sent" /\ kept[p].state = "history_evicted"
  <2> HIDE DEF kept, past
  <2> SUFFICES ASSUME NEW p \in DOMAIN kept
               PROVE  /\ kept[p] \in FenceRows /\ kept[p].index = rows[p].index
                      /\ kept[p].id = rows[p].id
                      /\ kept[p].at = rows[p].at /\ (kept[p].finished <=> rows[p].finished)
                      /\ \/ kept[p].state = rows[p].state
                         \/ rows[p].state = "sent" /\ kept[p].state = "history_evicted"
    OBVIOUS
  <2>1. rows[p] \in FenceRows
    BY <1>2, <1>3
  <2>2. \/ kept[p] = rows[p]
        \/ rows[p].state = "sent" /\ kept[p] = [rows[p] EXCEPT !.state = "history_evicted"]
    BY <1>3
  <2> QED BY <2>1, <2>2 DEF FenceRows, FenceStates
<1>7. past = {p \in DOMAIN kept : kept[p].state \in Fence!History}
  OBVIOUS
<1> HIDE DEF kept, past, unknown
<1>9. rows'[o] \in FenceRows /\ rows'[o].at = Fence!Newest + 1
  BY DEF Updated
<1>10. rows' \in [DOMAIN rows' -> FenceRows]
  <2>1. rows' = [p \in DOMAIN rows' |-> rows'[p]]
    BY DEF Updated
  <2> QED BY <1>1, <1>6, <1>9, <2>1
<1>11. HistoryFits'
  <2> DEFINE past2 == {p \in DOMAIN rows' : rows'[p].state \in Fence!History}
  <2>1. Past' = past2
    BY DEF Past, Fence!In
  <2>2. past2 \subseteq past \cup {o} /\ (unknown => past2 \subseteq past)
    BY <1>1, <1>7 DEF Fence!History, unknown
  <2> HIDE DEF past2
  <2>3. Cardinality(past2) <= RowCap
    <3>1. Cardinality(past \cup {o}) <= Cardinality(past) + 1 /\ IsFiniteSet(past \cup {o})
      BY <1>4, FS_AddElement
    <3>2. CASE unknown
      <4>1. Cardinality(past2) <= Cardinality(past) /\ Cardinality(past2) \in Nat
        BY <1>4, <2>2, <3>2, FS_Subset, FS_CardinalityType
      <4> QED BY <1>2, <1>4, <3>2, <4>1
    <3>3. CASE ~unknown
      <4>1. Cardinality(past2) <= Cardinality(past \cup {o}) /\ Cardinality(past2) \in Nat
        BY <2>2, <3>1, FS_Subset, FS_CardinalityType
      <4>2. Cardinality(past \cup {o}) \in Nat
        BY <3>1, FS_CardinalityType
      <4> QED BY <1>2, <1>4, <3>1, <3>3, <4>1, <4>2
    <3> QED BY <3>2, <3>3
  <2>4. ASSUME NEW p \in past2, NEW q \in past2, rows'[p].at = rows'[q].at PROVE p = q
    <3>1. \A r \in past2 : r # o => r \in Past /\ r \in DOMAIN kept /\ rows'[r].at = rows[r].at
      <4> SUFFICES ASSUME NEW r \in past2, r # o
                   PROVE  r \in Past /\ r \in DOMAIN kept /\ rows'[r].at = rows[r].at
        OBVIOUS
      <4>1. r \in past
        BY <2>2
      <4>2. r \in DOMAIN kept
        BY <1>7, <4>1
      <4> QED BY <1>1, <1>3, <1>6, <4>1, <4>2
    <3>2. \A r \in past2 : r # o => rows'[r].at <= Fence!Newest /\ rows'[r].at \in Nat
      BY <1>2, <1>3, <1>5, <3>1 DEF FenceRows
    <3>3. CASE p = o \/ q = o
      BY <1>5, <1>9, <2>4, <3>2, <3>3
    <3>4. CASE p # o /\ q # o
      BY <2>4, <3>1, <3>4 DEF FenceInv, HistoryFits
    <3> QED BY <3>3, <3>4
  <2>5. Cardinality(Past') <= RowCap /\ \A p, q \in Past' : rows'[p].at = rows'[q].at => p = q
    BY <2>1, <2>3, <2>4
  <2> QED BY <2>5 DEF HistoryFits
<1> QED BY <1>1, <1>2, <1>3, <1>6, <1>10, <1>11

\* A row is settled without being confirmed.
LEMMA SettlesUnshown ==
    ASSUME FenceInv, NEW o \in DOMAIN rows, rows[o].state \in {"reserved", "in_flight"},
           NEW st \in {"rejected", "not_sent", "unknown"}, Fence!Settle(o, st, rows[o].id, FALSE)
    PROVE  Updated(o) /\ rows'[o].state = st /\ rows'[o].id = rows[o].id
<1>1. rows[o] \in FenceRows /\ Fence!Newest + 1 \in Nat /\ o \notin Past
  BY NewestTops DEF FenceInv, FenceShaped, Past, Fence!In, Fence!History
<1>2. o \in DOMAIN Fence!Trimmed /\ Fence!Trimmed[o] = rows[o]
  BY <1>1, TrimKeeps
<1> DEFINE new == [rows[o] EXCEPT !.state = st, !.id = rows[o].id, !.finished = FALSE,
                                  !.at = Fence!Newest + 1]
<1>3. /\ new \in FenceRows /\ new.at = Fence!Newest + 1 /\ new.state = st /\ new.id = rows[o].id
      /\ new.index = rows[o].index /\ (new.asks <=> rows[o].asks)
  BY <1>1 DEF FenceRows, FenceStates
<1>4. CASE st = "unknown"
  <2>1. rows' = [rows EXCEPT ![o] = new]
    BY <1>4 DEF Fence!Settle
  <2> HIDE DEF new
  <2>2. rows'[o] = new /\ DOMAIN rows' = DOMAIN rows
        /\ rows' = [p \in DOMAIN rows' |-> rows'[p]]
        /\ \A p \in DOMAIN rows : p # o => rows'[p] = rows[p]
    BY <2>1
  <2> QED BY <1>3, <1>4, <2>2 DEF Updated
<1>5. CASE st # "unknown"
  <2>1. rows' = [Fence!Trimmed EXCEPT ![o] = new]
    BY <1>2, <1>5 DEF Fence!Settle
  <2> HIDE DEF new
  <2>2. rows'[o] = new /\ DOMAIN rows' = DOMAIN Fence!Trimmed
        /\ rows' = [p \in DOMAIN rows' |-> rows'[p]]
        /\ \A p \in DOMAIN Fence!Trimmed : p # o => rows'[p] = Fence!Trimmed[p]
    BY <1>2, <2>1
  <2> QED BY <1>2, <1>3, <1>5, <2>2 DEF Updated
<1> QED BY <1>4, <1>5

\* The stream a fragment goes to: a first one opens it.
Onto(o) == IF rows[o].index = 0 THEN Cardinality(DOMAIN shown) + 1 ELSE rows[o].id

\* A row is confirmed: it is of the stream QQ has shown its fragment in.
LEMMA SettlesShown ==
    ASSUME FenceInv, NEW o \in DOMAIN rows, rows[o].state = "in_flight",
           Onto(o) \in Nat, Fence!Settle(o, "sent", Onto(o), rows[o].asks)
    PROVE  /\ Updated(o) /\ rows'[o].state = "sent" /\ rows'[o].id = Onto(o)
           /\ rows'[o].finished <=> rows[o].asks
<1>1. rows[o] \in FenceRows /\ Fence!Newest + 1 \in Nat /\ o \notin Past
  BY NewestTops DEF FenceInv, FenceShaped, Past, Fence!In, Fence!History
<1>2. o \in DOMAIN Fence!Trimmed /\ Fence!Trimmed[o] = rows[o]
  BY <1>1, TrimKeeps
<1> DEFINE new == [rows[o] EXCEPT !.state = "sent", !.id = Onto(o), !.finished = rows[o].asks,
                                  !.at = Fence!Newest + 1]
<1>3. /\ new \in FenceRows /\ new.at = Fence!Newest + 1 /\ new.state = "sent" /\ new.id = Onto(o)
      /\ new.index = rows[o].index /\ (new.asks <=> rows[o].asks)
      /\ (new.finished <=> rows[o].asks)
  BY <1>1 DEF FenceRows, FenceStates
<1>4. rows' = [Fence!Trimmed EXCEPT ![o] = new]
  BY <1>2 DEF Fence!Settle
<1> HIDE DEF new
<1>5. rows'[o] = new /\ DOMAIN rows' = DOMAIN Fence!Trimmed
      /\ rows' = [p \in DOMAIN rows' |-> rows'[p]]
      /\ \A p \in DOMAIN Fence!Trimmed : p # o => rows'[p] = Fence!Trimmed[p]
  BY <1>2, <1>4
<1> QED BY <1>2, <1>3, <1>5 DEF Updated

\* QQ takes the fragment of a row that is on the wire: it opens a stream or goes on with one.
LEMMA ShowsFragment ==
    ASSUME FenceInv, NEW o \in DOMAIN rows, rows[o].state = "in_flight", Fence!Shows(o)
    PROVE  /\ Onto(o) \in Nat \ {0} /\ DOMAIN shown' = DOMAIN shown \cup {Onto(o)}
           /\ \E k \in Nat : DOMAIN shown' = 1..k
           /\ shown' \in [DOMAIN shown' -> Seq(Nat \X BOOLEAN)]
           /\ rows[o].index = 0 => Onto(o) \notin DOMAIN shown /\ Unnamed(Onto(o))
           /\ rows[o].index > 0 => Onto(o) = rows[o].id /\ Onto(o) \in DOMAIN shown
           /\ Len(shown'[Onto(o)]) = rows[o].index + 1
           /\ shown'[Onto(o)][rows[o].index + 1][2] <=> rows[o].asks
           /\ \A j \in DOMAIN shown : j # Onto(o) => shown'[j] = shown[j] /\ Fence!Whole(shown[j])
           /\ Onto(o) \in DOMAIN shown =>
                 \A n \in DOMAIN shown[Onto(o)] :
                    n \in DOMAIN shown'[Onto(o)] /\ shown'[Onto(o)][n] = shown[Onto(o)][n]
           /\ ShownTrue'
<1> DEFINE i == Onto(o)
           piece == <<rows[o].index, rows[o].asks>>
           T == Nat \X BOOLEAN
<1>1. /\ rows[o] \in FenceRows /\ shown \in [DOMAIN shown -> Seq(Nat \X BOOLEAN)]
      /\ o \in Fence!In(Fence!Unsettled)
  BY DEF FenceInv, FenceShaped, Fence!In, Fence!Unsettled
<1>2. PICK k \in Nat : DOMAIN shown = 1..k
  BY DEF FenceInv, FenceShaped
<1>3. Cardinality(DOMAIN shown) = k
  BY <1>2, FS_Interval
<1>4. piece \in Nat \X BOOLEAN /\ piece[1] = rows[o].index /\ (piece[2] <=> rows[o].asks)
  BY <1>1 DEF FenceRows
<1> HIDE DEF piece
<1>5. shown' = [j \in DOMAIN shown \cup {i} |->
                   IF j # i THEN shown[j]
                   ELSE IF j \in DOMAIN shown THEN Append(shown[j], piece) ELSE <<piece>>]
  BY FenceCounts DEF Fence!Shows, Onto, Fence!Ids, piece
<1>6. CASE rows[o].index = 0
  <2>1. i = k + 1 /\ i \notin DOMAIN shown /\ DOMAIN shown' = 1..k + 1
    BY <1>2, <1>3, <1>5, <1>6 DEF Onto
  <2>2. rows[o].id = 0 /\ \A p \in DOMAIN rows : rows[p].id \in {0} \cup DOMAIN shown
    BY <1>1, <1>6 DEF FenceInv, RowsTrue, Settled, Fence!In
  <2>3. Unnamed(i)
    BY <1>2, <2>1, <2>2 DEF Unnamed
  <2>4. \A j \in DOMAIN shown : Fence!Whole(shown[j]) /\ j # 0
    BY <1>1, <1>2, <2>2 DEF FenceInv, OneOpen
  <2> HIDE DEF i
  <2>5. shown'[i] = <<piece>> /\ \A j \in DOMAIN shown : shown'[j] = shown[j] /\ j # i
    BY <1>5, <2>1
  <2>6. <<piece>> \in Seq(Nat \X BOOLEAN) /\ Len(<<piece>>) = 1 /\ <<piece>>[1] = piece
        /\ DOMAIN <<piece>> = {1} /\ <<piece>> # << >>
    BY <1>4
  <2>7. shown' \in [DOMAIN shown' -> Seq(Nat \X BOOLEAN)]
    BY <1>1, <1>5, <2>5, <2>6
  <2>8. Proper(shown'[i])
    BY <1>4, <1>6, <2>5, <2>6 DEF Proper
  <2>9. ShownTrue'
    BY <1>5, <2>5, <2>8 DEF FenceInv, ShownTrue
  <2>10. Len(shown'[i]) = rows[o].index + 1 /\ shown'[i][rows[o].index + 1] = piece
    BY <1>6, <2>5, <2>6
  <2>11. i \in Nat \ {0} /\ DOMAIN shown' = DOMAIN shown \cup {i} /\ k + 1 \in Nat
    BY <1>2, <2>1
  <2>13. ~(rows[o].index > 0)
    BY <1>6
  <2>12. \E m \in Nat : DOMAIN shown' = 1..m
    BY <2>1, <2>11
  <2> QED BY Zenon, <1>4, <1>6, <2>1, <2>3, <2>4, <2>5, <2>7, <2>9, <2>10, <2>11, <2>12, <2>13 DEF i
<1>7. CASE rows[o].index # 0
  <2>1. /\ i = rows[o].id /\ i \in DOMAIN shown /\ rows[o].index > 0 /\ rows[o].index \in Nat
        /\ Len(shown[i]) = rows[o].index /\ ~Fence!Whole(shown[i])
    <3>1. i = rows[o].id /\ rows[o].index > 0 /\ rows[o].index \in Nat
      BY <1>1, <1>7 DEF Onto, FenceRows
    <3>2. rows[o].state \in {"reserved", "in_flight"} /\ RowsTrue
      BY DEF FenceInv
    <3> QED BY <3>1, <3>2 DEF RowsTrue
  <2>2. \A j \in DOMAIN shown : j # i => Fence!Whole(shown[j])
    BY <2>1 DEF FenceInv, OneOpen
  <2>3. Proper(shown[i])
    BY <2>1 DEF FenceInv, ShownTrue
  <2> HIDE DEF i
  <2> DEFINE q == Append(shown[i], piece)
  <2>4. shown'[i] = q /\ \A j \in DOMAIN shown : j # i => shown'[j] = shown[j]
    BY <1>5, <2>1
  <2>5. DOMAIN shown' = DOMAIN shown
    BY <1>5, <2>1
  <2>6. /\ q \in Seq(Nat \X BOOLEAN) /\ Len(q) = rows[o].index + 1 /\ q[rows[o].index + 1] = piece
        /\ DOMAIN q = 1..rows[o].index + 1 /\ q # << >>
        /\ DOMAIN shown[i] = 1..rows[o].index
        /\ \A n \in 1..rows[o].index : q[n] = shown[i][n]
    <3>1. shown[i] \in Seq(T) /\ piece \in T
      BY <1>1, <1>4, <2>1
    <3> HIDE DEF T
    <3>2. q \in Seq(T)
      BY <2>1, <3>1
    <3>3. /\ Len(q) = rows[o].index + 1 /\ q[rows[o].index + 1] = piece
          /\ DOMAIN q = 1..rows[o].index + 1 /\ q # << >>
          /\ DOMAIN shown[i] = 1..rows[o].index
          /\ \A n \in 1..rows[o].index : q[n] = shown[i][n]
      BY <2>1, <3>1
    <3> QED BY <3>2, <3>3 DEF T
  <2> HIDE DEF q
  <2>7. shown' \in [DOMAIN shown' -> Seq(Nat \X BOOLEAN)]
    BY <1>1, <1>5, <2>4, <2>5, <2>6
  <2>8. Proper(q)
    <3>1. \A n \in DOMAIN q : n = rows[o].index + 1 \/ n \in DOMAIN shown[i]
      BY <2>1, <2>6
    <3>2. \A n \in DOMAIN shown[i] : shown[i][n][1] = n - 1 /\ ~shown[i][n][2]
      BY <2>1, <2>3, <2>6 DEF Proper, Fence!Whole
    <3>3. \A n \in DOMAIN shown[i] : q[n][1] = n - 1 /\ ~q[n][2]
      BY <2>6, <3>2
    <3>4. ASSUME NEW n \in DOMAIN q PROVE q[n][1] = n - 1
      <4>1. CASE n \in DOMAIN shown[i]
        BY <3>3, <4>1
      <4>2. CASE n = rows[o].index + 1
        <5>1. q[n] = piece
          BY Zenon, <2>6, <4>2
        <5>2. n - 1 = rows[o].index
          BY <2>1, <4>2
        <5> QED BY <1>4, <5>1, <5>2
      <4> QED BY <3>1, <4>1, <4>2
    <3>5. ASSUME NEW n \in DOMAIN q, q[n][2] PROVE n = Len(q)
      BY <2>6, <3>1, <3>3, <3>5
    <3> QED BY <2>6, <3>4, <3>5 DEF Proper
  <2>9. ShownTrue'
    BY <2>4, <2>5, <2>8 DEF FenceInv, ShownTrue
  <2>10. Len(shown'[i]) = rows[o].index + 1 /\ shown'[i][rows[o].index + 1] = piece
    BY <2>4, <2>6
  <2>11. i \in Nat \ {0} /\ DOMAIN shown' = DOMAIN shown \cup {i}
    BY <1>2, <2>1, <2>5
  <2>12. \A n \in DOMAIN shown[i] : n \in DOMAIN shown'[i] /\ shown'[i][n] = shown[i][n]
    BY <2>1, <2>4, <2>6
  <2>13. \E m \in Nat : DOMAIN shown' = 1..m
    BY <1>2, <2>5
  <2> QED BY Zenon, <1>4, <1>7, <2>1, <2>2, <2>4, <2>7, <2>9, <2>10, <2>11, <2>12, <2>13 DEF i
<1> QED BY <1>6, <1>7

\* What has not reached QQ leaves what is shown, and no row is open.
LEMMA NotShownKeeps ==
    ASSUME FenceInv, NEW o \in DOMAIN rows, rows[o].state \in {"reserved", "in_flight"},
           NEW st \in {"rejected", "not_sent", "unknown"},
           Fence!Settle(o, st, rows[o].id, FALSE), UNCHANGED <<asked, shown>>
    PROVE  FenceInv'
<1> DEFINE i == rows[o].id
<1>1. /\ rows[o] \in FenceRows /\ i \in Nat /\ o \notin Settled
      /\ o \in Fence!In(Fence!Unsettled) /\ o \notin Fence!In({"unknown"})
  BY DEF FenceInv, FenceShaped, FenceRows, Settled, Fence!In, Fence!Unsettled
<1>2. /\ DOMAIN rows' \subseteq DOMAIN rows /\ o \in DOMAIN rows'
      /\ rows' \in [DOMAIN rows' -> FenceRows]
      /\ rows'[o].state = st /\ rows'[o].id = i /\ rows'[o].index = rows[o].index
      /\ \A p \in DOMAIN rows' : p # o =>
            /\ rows'[p].index = rows[p].index /\ rows'[p].id = rows[p].id
            /\ (rows'[p].finished <=> rows[p].finished)
            /\ \/ rows'[p].state = rows[p].state
               \/ rows[p].state = "sent" /\ rows'[p].state = "history_evicted"
      /\ \A p \in Settled : p \in DOMAIN rows' /\ p # o
      /\ HistoryFits'
  <2>1. Updated(o) /\ rows'[o].state = st /\ rows'[o].id = i
    BY SettlesUnshown
  <2>2. rows'[o].index = rows[o].index
    BY <2>1 DEF Updated
  <2> QED BY <2>1, <2>2, SettlesRow
<1>3. /\ \A p \in DOMAIN rows : p # o => rows[p].state \notin {"reserved", "in_flight", "unknown"}
  BY <1>1 DEF FenceInv, OneOpen, Fence!In, Fence!Unsettled
<1>4. \A p \in DOMAIN rows' : p \in Settled' <=> p \in Settled
  BY <1>1, <1>2 DEF Settled, Fence!In
<1>5. FenceShaped'
  BY <1>2 DEF FenceInv, FenceShaped
<1>6. ShownTrue'
  BY DEF FenceInv, ShownTrue
<1>7. RowsTrue'
  <2> SUFFICES ASSUME NEW p \in DOMAIN rows'
               PROVE  /\ rows'[p].id \in {0} \cup DOMAIN shown
                      /\ rows'[p].index > 0 => rows'[p].id # 0
                      /\ p \in Settled' =>
                            /\ rows'[p].id # 0 /\ rows'[p].index + 1 \in DOMAIN shown[rows'[p].id]
                            /\ shown[rows'[p].id][rows'[p].index + 1][2] <=> rows'[p].finished
                      /\ p \notin Settled' /\ rows'[p].index = 0 => rows'[p].id = 0
                      /\ rows'[p].state \notin {"reserved", "in_flight"}
    BY DEF RowsTrue
  <2>1. rows'[p].state \notin {"reserved", "in_flight"}
    BY <1>2, <1>3
  <2>2. rows'[p].id = rows[p].id /\ rows'[p].index = rows[p].index /\ p \in DOMAIN rows
        /\ (p # o => (rows'[p].finished <=> rows[p].finished))
    BY <1>2
  <2> QED BY <1>1, <1>4, <2>1, <2>2 DEF FenceInv, RowsTrue
<1>8. LastKnown'
  <2> SUFFICES ASSUME NEW j \in DOMAIN shown
               PROVE  \E p \in Settled' : rows'[p].id = j /\ rows'[p].index + 1 = Len(shown[j])
    BY DEF LastKnown
  <2>1. Fence!In({"unknown"}) = {}
    BY <1>1, <1>3 DEF Fence!In
  <2>2. PICK p \in Settled : rows[p].id = j /\ rows[p].index + 1 = Len(shown[j])
    BY <2>1 DEF FenceInv, LastKnown
  <2> QED BY <1>2, <1>4, <2>2
<1>9. OneOpen'
  <2>1. \A p \in Fence!In(Fence!Unsettled)' : p = o
    BY <1>2, <1>3 DEF Fence!In, Fence!Unsettled
  <2>2. \A j \in DOMAIN shown : ~Fence!Whole(shown[j]) => rows'[o].id = j
    BY <1>1, <1>2 DEF FenceInv, OneOpen
  <2> QED BY <2>1, <2>2 DEF FenceInv, OneOpen, Fence!Whole
<1> QED BY <1>2, <1>5, <1>6, <1>7, <1>8, <1>9 DEF FenceInv

\* A fragment QQ has taken: its row is confirmed, or nobody knows.
LEMMA FenceSent == ASSUME FenceInv, NEW o \in Fragments, Fence!Sent(o) PROVE FenceInv'
<1> DEFINE i == Onto(o)
<1>1. /\ o \in DOMAIN rows /\ rows[o].state = "in_flight" /\ Fence!Shows(o) /\ UNCHANGED asked
      /\ Fence!Settle(o, "sent", Onto(o), rows[o].asks)
  BY FenceCounts DEF Fence!Sent, Fence!In, Fence!Ids, Onto
<1>2. /\ i \in Nat \ {0} /\ DOMAIN shown' = DOMAIN shown \cup {i}
      /\ \E k \in Nat : DOMAIN shown' = 1..k
      /\ shown' \in [DOMAIN shown' -> Seq(Nat \X BOOLEAN)]
      /\ rows[o].index = 0 => i \notin DOMAIN shown /\ Unnamed(i)
      /\ rows[o].index > 0 => i = rows[o].id /\ i \in DOMAIN shown
      /\ Len(shown'[i]) = rows[o].index + 1
      /\ shown'[i][rows[o].index + 1][2] <=> rows[o].asks
      /\ \A j \in DOMAIN shown : j # i => shown'[j] = shown[j] /\ Fence!Whole(shown[j])
      /\ i \in DOMAIN shown =>
            \A n \in DOMAIN shown[i] : n \in DOMAIN shown'[i] /\ shown'[i][n] = shown[i][n]
      /\ ShownTrue'
  BY <1>1, ShowsFragment
<1>3. Updated(o) /\ rows'[o].state = "sent" /\ rows'[o].id = i
      /\ (rows'[o].finished <=> rows[o].asks)
  BY <1>1, <1>2, SettlesShown
<1> HIDE DEF i
<1>4. /\ DOMAIN rows' \subseteq DOMAIN rows /\ o \in DOMAIN rows'
      /\ rows' \in [DOMAIN rows' -> FenceRows] /\ rows'[o].index = rows[o].index
      /\ \A p \in DOMAIN rows' : p # o =>
            /\ rows'[p].index = rows[p].index /\ rows'[p].id = rows[p].id
            /\ (rows'[p].finished <=> rows[p].finished)
            /\ \/ rows'[p].state = rows[p].state
               \/ rows[p].state = "sent" /\ rows'[p].state = "history_evicted"
      /\ \A p \in Settled : p \in DOMAIN rows' /\ p # o
      /\ HistoryFits'
  BY <1>1, <1>3, SettlesRow DEF Updated
<1>5. /\ rows[o] \in FenceRows /\ rows[o].index \in Nat
      /\ o \in Fence!In(Fence!Unsettled) /\ o \notin Fence!In({"unknown"})
  BY <1>1 DEF FenceInv, FenceShaped, FenceRows, Fence!In, Fence!Unsettled
<1>6. \A p \in DOMAIN rows : p # o => rows[p].state \notin {"reserved", "in_flight", "unknown"}
  BY <1>5 DEF FenceInv, OneOpen, Fence!In, Fence!Unsettled
<1>7. \A p \in DOMAIN rows' : p \in Settled' <=> p \in Settled \/ p = o
  BY <1>3, <1>4 DEF Settled, Fence!In
<1>8. FenceShaped'
  BY <1>1, <1>2, <1>4 DEF FenceInv, FenceShaped
<1>9. RowsTrue'
  <2> SUFFICES ASSUME NEW p \in DOMAIN rows'
               PROVE  /\ rows'[p].id \in {0} \cup DOMAIN shown'
                      /\ rows'[p].index > 0 => rows'[p].id # 0
                      /\ p \in Settled' =>
                            /\ rows'[p].id # 0
                            /\ rows'[p].index + 1 \in DOMAIN shown'[rows'[p].id]
                            /\ shown'[rows'[p].id][rows'[p].index + 1][2] <=> rows'[p].finished
                      /\ p \notin Settled' /\ rows'[p].index = 0 => rows'[p].id = 0
                      /\ rows'[p].state \notin {"reserved", "in_flight"}
    BY DEF RowsTrue
  <2>1. CASE p = o
    <3>1. shown'[i] \in Seq(Nat \X BOOLEAN) /\ rows[o].index + 1 \in DOMAIN shown'[i]
      <4>1. shown'[i] \in Seq(Nat \X BOOLEAN)
        BY <1>2
      <4>2. DOMAIN shown'[i] = 1..Len(shown'[i])
        BY <4>1
      <4> QED BY SMTT(30), <1>2, <1>5, <4>1, <4>2
    <3>2. rows'[p].id = i /\ i \in DOMAIN shown' /\ i # 0 /\ rows'[p].index = rows[o].index
          /\ p \in Settled' /\ rows'[p].state = "sent"
      BY <1>2, <1>3, <1>4, <1>7, <2>1
    <3>3. shown'[rows'[p].id][rows'[p].index + 1][2] <=> rows'[p].finished
      BY <1>2, <1>3, <2>1, <3>2
    <3> QED BY <3>1, <3>2, <3>3
  <2>2. CASE p # o
    <3>1. /\ rows'[p].id = rows[p].id /\ rows'[p].index = rows[p].index /\ p \in DOMAIN rows
          /\ (rows'[p].finished <=> rows[p].finished) /\ (p \in Settled' <=> p \in Settled)
      BY <1>4, <1>7, <2>2
    <3>2. /\ rows[p].id \in {0} \cup DOMAIN shown /\ (rows[p].index > 0 => rows[p].id # 0)
          /\ p \in Settled => /\ rows[p].id # 0 /\ rows[p].index + 1 \in DOMAIN shown[rows[p].id]
                              /\ shown[rows[p].id][rows[p].index + 1][2] <=> rows[p].finished
          /\ (p \notin Settled /\ rows[p].index = 0 => rows[p].id = 0)
      BY <3>1 DEF FenceInv, RowsTrue
    <3>3. rows'[p].state \notin {"reserved", "in_flight"}
      BY <1>4, <1>6, <2>2
    <3>4. p \in Settled =>
             /\ rows[p].index + 1 \in DOMAIN shown'[rows[p].id]
             /\ shown'[rows[p].id][rows[p].index + 1] = shown[rows[p].id][rows[p].index + 1]
      BY <1>2, <3>2
    <3> QED BY <1>2, <3>1, <3>2, <3>3, <3>4
  <2> QED BY <2>1, <2>2
<1>10. LastKnown'
  <2> SUFFICES ASSUME NEW j \in DOMAIN shown'
               PROVE  \E p \in Settled' : rows'[p].id = j /\ rows'[p].index + 1 = Len(shown'[j])
    BY DEF LastKnown
  <2>1. CASE j = i
    BY <1>2, <1>3, <1>4, <1>7, <2>1
  <2>2. CASE j # i
    <3>1. Fence!In({"unknown"}) = {}
      BY <1>5, <1>6 DEF Fence!In
    <3>2. j \in DOMAIN shown /\ shown'[j] = shown[j]
      BY <1>2, <2>2
    <3>3. PICK p \in Settled : rows[p].id = j /\ rows[p].index + 1 = Len(shown[j])
      BY <3>1, <3>2 DEF FenceInv, LastKnown
    <3> QED BY <1>4, <1>7, <3>2, <3>3
  <2> QED BY <2>1, <2>2
<1>11. OneOpen'
  <2>1. Fence!In(Fence!Unsettled)' = {}
    BY <1>3, <1>4, <1>6 DEF Fence!In, Fence!Unsettled
  <2>2. \A j \in DOMAIN shown' : j # i => Fence!Whole(shown'[j])
    BY <1>2
  <2> QED BY <2>1, <2>2 DEF OneOpen, Fence!Whole
<1> QED BY <1>2, <1>4, <1>8, <1>9, <1>10, <1>11 DEF FenceInv

LEMMA FenceUncertain == ASSUME FenceInv, NEW o \in Fragments, Fence!Uncertain(o) PROVE FenceInv'
<1>0. PICK i : i = Onto(o)
  OBVIOUS
<1>1. /\ o \in DOMAIN rows /\ rows[o].state = "in_flight" /\ UNCHANGED asked
      /\ Fence!Settle(o, "unknown", rows[o].id, FALSE)
  BY DEF Fence!Uncertain, Fence!In
<1>2. CASE UNCHANGED shown
  BY <1>1, <1>2, NotShownKeeps
<1>3. CASE Fence!Shows(o)
  <2>1. /\ i \in Nat \ {0} /\ DOMAIN shown' = DOMAIN shown \cup {i}
        /\ \E k \in Nat : DOMAIN shown' = 1..k
        /\ shown' \in [DOMAIN shown' -> Seq(Nat \X BOOLEAN)]
        /\ rows[o].index = 0 => i \notin DOMAIN shown /\ Unnamed(i)
        /\ rows[o].index > 0 => i = rows[o].id /\ i \in DOMAIN shown
        /\ \A j \in DOMAIN shown : j # i => shown'[j] = shown[j] /\ Fence!Whole(shown[j])
        /\ i \in DOMAIN shown =>
              \A n \in DOMAIN shown[i] : n \in DOMAIN shown'[i] /\ shown'[i][n] = shown[i][n]
        /\ ShownTrue'
    BY <1>0, <1>1, <1>3, ShowsFragment
  <2>2. Updated(o) /\ rows'[o].state = "unknown" /\ rows'[o].id = rows[o].id
    BY <1>1, SettlesUnshown
  <2>3. /\ DOMAIN rows' = DOMAIN rows /\ rows'[o].index = rows[o].index
        /\ \A p \in DOMAIN rows : p # o => rows'[p] = rows[p]
        /\ rows' \in [DOMAIN rows' -> FenceRows] /\ HistoryFits'
    BY <1>1, <2>2, SettlesRow DEF Updated
  <2>4. /\ rows[o] \in FenceRows /\ rows[o].index \in Nat /\ o \notin Settled
        /\ o \in Fence!In(Fence!Unsettled) /\ o \notin Fence!In({"unknown"})
    BY <1>1 DEF FenceInv, FenceShaped, FenceRows, Settled, Fence!In, Fence!Unsettled
  <2>5. \A p \in DOMAIN rows : p # o => rows[p].state \notin {"reserved", "in_flight", "unknown"}
    BY <2>4 DEF FenceInv, OneOpen, Fence!In, Fence!Unsettled
  <2>6. \A p \in DOMAIN rows : p \in Settled' <=> p \in Settled
    BY <2>2, <2>3, <2>4 DEF Settled, Fence!In
  <2>7. FenceShaped'
    BY <1>1, <2>1, <2>3 DEF FenceInv, FenceShaped
  <2>8. RowsTrue'
    <3> SUFFICES ASSUME NEW p \in DOMAIN rows
                 PROVE  /\ rows'[p].id \in {0} \cup DOMAIN shown'
                        /\ rows'[p].index > 0 => rows'[p].id # 0
                        /\ p \in Settled' =>
                              /\ rows'[p].id # 0
                              /\ rows'[p].index + 1 \in DOMAIN shown'[rows'[p].id]
                              /\ shown'[rows'[p].id][rows'[p].index + 1][2] <=> rows'[p].finished
                        /\ p \notin Settled' /\ rows'[p].index = 0 => rows'[p].id = 0
                        /\ rows'[p].state \notin {"reserved", "in_flight"}
      BY <2>3 DEF RowsTrue
    <3>1. /\ rows[p].id \in {0} \cup DOMAIN shown /\ (rows[p].index > 0 => rows[p].id # 0)
          /\ p \in Settled => /\ rows[p].id # 0 /\ rows[p].index + 1 \in DOMAIN shown[rows[p].id]
                              /\ shown[rows[p].id][rows[p].index + 1][2] <=> rows[p].finished
          /\ (p \notin Settled /\ rows[p].index = 0 => rows[p].id = 0)
      BY DEF FenceInv, RowsTrue
    <3>2. CASE p = o
      BY <2>1, <2>2, <2>3, <2>4, <2>6, <3>1, <3>2
    <3>3. CASE p # o
      <4>1. rows'[p] = rows[p] /\ rows[p].state \notin {"reserved", "in_flight"}
        BY <2>3, <2>5, <3>3
      <4>2. p \in Settled =>
               /\ rows[p].index + 1 \in DOMAIN shown'[rows[p].id]
               /\ shown'[rows[p].id][rows[p].index + 1] = shown[rows[p].id][rows[p].index + 1]
        BY SMTT(30), <2>1, <3>1
      <4> QED BY <2>1, <2>6, <3>1, <4>1, <4>2
    <3> QED BY <3>2, <3>3
  <2>9. LastKnown'
    <3> SUFFICES ASSUME NEW j \in DOMAIN shown'
                 PROVE  \/ \E p \in Settled' : rows'[p].id = j /\ rows'[p].index + 1 = Len(shown'[j])
                        \/ \E p \in Fence!In({"unknown"})' : rows'[p].id = j \/ Unnamed(j)'
      BY DEF LastKnown
    <3>1. CASE j = i
      <4>1. o \in Fence!In({"unknown"})'
        BY <1>1, <2>2, <2>3 DEF Fence!In
      <4>2. Unnamed(i) => Unnamed(i)'
        BY <2>2, <2>3 DEF Unnamed
      <4> QED BY <2>1, <2>2, <2>4, <3>1, <4>1, <4>2
    <3>2. CASE j # i
      <4>1. Fence!In({"unknown"}) = {}
        BY <2>4, <2>5 DEF Fence!In
      <4>2. j \in DOMAIN shown /\ shown'[j] = shown[j]
        BY <2>1, <3>2
      <4>3. PICK p \in Settled : rows[p].id = j /\ rows[p].index + 1 = Len(shown[j])
        BY <4>1, <4>2 DEF FenceInv, LastKnown
      <4>4. p \in DOMAIN rows /\ p # o
        BY <2>4, <4>3 DEF Settled, Fence!In
      <4> QED BY <2>3, <2>6, <4>2, <4>3, <4>4
    <3> QED BY <3>1, <3>2
  <2>10. OneOpen'
    <3>1. \A p \in Fence!In(Fence!Unsettled)' : p = o
      BY <2>3, <2>5 DEF Fence!In, Fence!Unsettled
    <3>2. \A j \in DOMAIN shown' : ~Fence!Whole(shown'[j]) => j = i
      BY <2>1
    <3>3. rows'[o].id = i \/ (rows'[o].state = "unknown" /\ Unnamed(i)')
      <4>1. Unnamed(i) => Unnamed(i)'
        BY <2>2, <2>3 DEF Unnamed
      <4> QED BY <2>1, <2>2, <2>4, <4>1
    <3> QED BY <3>1, <3>2, <3>3 DEF OneOpen, Fence!Whole
  <2> QED BY <2>1, <2>3, <2>7, <2>8, <2>9, <2>10 DEF FenceInv
<1> QED BY <1>2, <1>3 DEF Fence!Uncertain

LEMMA FenceUnsent ==
    ASSUME FenceInv, NEW o \in Fragments, Fence!NotSent(o) \/ Fence!Rejected(o) PROVE FenceInv'
<1>1. CASE Fence!NotSent(o)
  <2>1. o \in DOMAIN rows /\ rows[o].state = "reserved"
        /\ Fence!Settle(o, "not_sent", rows[o].id, FALSE) /\ UNCHANGED <<asked, shown>>
    BY <1>1 DEF Fence!NotSent, Fence!In
  <2> QED BY <2>1, NotShownKeeps
<1>2. CASE Fence!Rejected(o)
  <2>1. o \in DOMAIN rows /\ rows[o].state = "in_flight"
        /\ Fence!Settle(o, "rejected", rows[o].id, FALSE) /\ UNCHANGED <<asked, shown>>
    BY <1>2 DEF Fence!Rejected, Fence!In
  <2> QED BY <2>1, NotShownKeeps
<1> QED BY <1>1, <1>2

\* A new stream starts only when all that is shown is whole.
LEMMA MayStartWhole ==
    ASSUME FenceInv, Fence!MayStart
    PROVE  Fence!In(Fence!Unsettled) = {} /\ \A i \in DOMAIN shown : Fence!Whole(shown[i])
<1>1. Fence!In(Fence!Unsettled) = {} /\ Fence!In({"unknown"}) = {}
  BY DEF Fence!MayStart, Fence!In, Fence!Unsettled
<1>2. ASSUME NEW i \in DOMAIN shown PROVE Fence!Whole(shown[i])
  <2>1. PICK o \in Settled : rows[o].id = i
    BY <1>1 DEF FenceInv, LastKnown
  <2>2. i \in Fence!Finished
    BY <2>1 DEF Fence!MayStart, Settled
  <2>3. PICK p \in Settled : rows[p].finished /\ rows[p].id = i
    BY <2>2 DEF Fence!Finished, Settled
  <2>4. p \in DOMAIN rows /\ rows[p].index \in Nat
    BY <2>3 DEF Settled, Fence!In, FenceInv, FenceShaped, FenceRows
  <2>5. rows[p].index + 1 \in DOMAIN shown[i] /\ shown[i][rows[p].index + 1][2]
    BY <2>3, <2>4 DEF FenceInv, RowsTrue
  <2>6. rows[p].index + 1 = Len(shown[i])
    BY <2>5 DEF FenceInv, ShownTrue, Proper
  <2> QED BY <2>5, <2>6 DEF Fence!Whole
<1> QED BY <1>1, <1>2

\* A stream goes on only after its last fragment, and while nothing is open.
LEMMA MayContinueOpen ==
    ASSUME FenceInv, NEW i \in DOMAIN shown, NEW x \in Nat, i # 0, Fence!MayContinue(i, x)
    PROVE  /\ Fence!In(Fence!Unsettled) = {} /\ Len(shown[i]) = x /\ ~Fence!Whole(shown[i])
<1> DEFINE matching == {o \in DOMAIN rows : rows[o].id = i}
           latest == CHOOSE o \in matching : \A p \in matching : rows[p].index <= rows[o].index
           key == [o \in matching |-> rows[o].index]
<1>1. /\ matching # {} /\ matching \cap Fence!In(Fence!Unsettled) = {}
      /\ rows[latest].state = "sent" /\ ~rows[latest].finished /\ rows[latest].index = x - 1
  BY DEF Fence!MayContinue
<1>2. rows \in [DOMAIN rows -> FenceRows] /\ IsFiniteSet(DOMAIN rows)
  BY FS_Subset DEF FenceInv, FenceShaped
<1>3. IsFiniteSet(matching)
  BY <1>2, FS_Subset
<1>4. \A o \in matching : key[o] = rows[o].index /\ key[o] \in Int
  BY <1>2 DEF FenceRows
<1>5. \E o \in matching : \A p \in matching : rows[p].index <= rows[o].index
  <2> HIDE DEF matching, key
  <2>1. PICK o \in matching : \A p \in matching : key[p] <= key[o]
    BY <1>1, <1>3, <1>4, Greatest
  <2> QED BY <1>4, <2>1
<1>6. latest \in matching /\ \A p \in matching : rows[p].index <= rows[latest].index
  BY <1>5
<1> HIDE DEF latest, key
<1>7. latest \in DOMAIN rows /\ rows[latest].id = i /\ rows[latest].index \in Nat
      /\ latest \in Settled
  BY <1>1, <1>2, <1>6 DEF FenceRows, Settled, Fence!In
<1>8. PICK o \in Settled : rows[o].id = i /\ rows[o].index + 1 = Len(shown[i])
  <2>1. ~ \E u \in Fence!In({"unknown"}) : rows[u].id = i \/ Unnamed(i)
    <3>1. Fence!In({"unknown"}) \subseteq Fence!In(Fence!Unsettled)
      BY DEF Fence!In, Fence!Unsettled
    <3>2. ~Unnamed(i)
      BY <1>7 DEF Unnamed
    <3>3. \A u \in Fence!In(Fence!Unsettled) : rows[u].id # i
      BY <1>1 DEF Fence!In
    <3> QED BY <3>1, <3>2, <3>3
  <2> QED BY <2>1 DEF FenceInv, LastKnown
<1>9. rows[latest].index + 1 \in DOMAIN shown[i]
      /\ (shown[i][rows[latest].index + 1][2] <=> rows[latest].finished)
  BY <1>7 DEF FenceInv, RowsTrue
<1>10. o \in matching /\ rows[o].index \in Nat
  BY <1>2, <1>8 DEF Settled, Fence!In, FenceRows
<1>11. shown[i] \in Seq(Nat \X BOOLEAN)
  BY DEF FenceInv, FenceShaped
<1>12. DOMAIN shown[i] = 1..Len(shown[i]) /\ Len(shown[i]) \in Nat
  BY <1>11
<1>13. Len(shown[i]) = x /\ rows[latest].index + 1 = Len(shown[i])
  <2>1. rows[latest].index + 1 <= Len(shown[i])
    BY <1>9, <1>12
  <2>2. rows[o].index <= rows[latest].index
    BY <1>6, <1>10
  <2>3. rows[o].index + 1 = Len(shown[i]) /\ rows[o].index \in Nat
    BY <1>8, <1>10
  <2>4. rows[latest].index = x - 1 /\ rows[latest].index \in Nat
    BY <1>1, <1>7
  <2>5. \A a, b, c \in Nat : a = x - 1 /\ b + 1 = c /\ a + 1 <= c /\ b <= a => c = x /\ a + 1 = c
    OBVIOUS
  <2> HIDE DEF matching
  <2> QED BY Zenon, <1>12, <2>1, <2>2, <2>3, <2>4, <2>5
<1>14. ~Fence!Whole(shown[i])
  BY <1>1, <1>9, <1>13 DEF Fence!Whole
<1>15. Fence!In(Fence!Unsettled) = {}
  <2>1. ~Unnamed(i)
    BY <1>7 DEF Unnamed
  <2> QED BY <1>1, <1>14, <2>1 DEF FenceInv, OneOpen, Fence!In
<1> QED BY <1>13, <1>14, <1>15

LEMMA FenceReserves == ASSUME FenceInv, NEW o \in Fragments, Fence!Reserve(o) PROVE FenceInv'
<1>1. /\ o \notin asked /\ asked' = asked \cup {o} /\ UNCHANGED shown /\ o \notin DOMAIN rows
  BY DEF Fence!Reserve, FenceInv, FenceShaped
<1>2. PICK x \in 0..MaxIndex, i \in {0} \cup DOMAIN shown, asks \in BOOLEAN :
         /\ IF x = 0 THEN i = 0 /\ Fence!MayStart ELSE i # 0 /\ Fence!MayContinue(i, x)
         /\ rows' = [p \in DOMAIN rows \cup {o} |->
               IF p = o THEN [state |-> "reserved", index |-> x, id |-> i,
                              asks |-> asks, finished |-> FALSE, at |-> 0]
               ELSE rows[p]]
  BY DEF Fence!Reserve, Fence!NoId, Fence!Ids
<1>3. /\ x \in Nat /\ i \in Nat /\ 0 \notin DOMAIN shown
      /\ rows \in [DOMAIN rows -> FenceRows] /\ DOMAIN rows \subseteq asked
      /\ asked \subseteq Fragments /\ IsFiniteSet(asked)
  BY FenceAssumption DEF FenceInv, FenceShaped
<1>4. /\ Fence!In(Fence!Unsettled) = {}
      /\ x = 0 => i = 0 /\ \A j \in DOMAIN shown : Fence!Whole(shown[j])
      /\ x # 0 => i \in DOMAIN shown /\ Len(shown[i]) = x /\ ~Fence!Whole(shown[i])
  BY <1>2, <1>3, MayStartWhole, MayContinueOpen
<1>5. \A j \in DOMAIN shown : ~Fence!Whole(shown[j]) => i = j
  BY <1>4 DEF FenceInv, OneOpen
<1>6. /\ DOMAIN rows' = DOMAIN rows \cup {o} /\ \A p \in DOMAIN rows : rows'[p] = rows[p] /\ p # o
      /\ rows'[o].state = "reserved" /\ rows'[o].index = x /\ rows'[o].id = i
      /\ rows'[o] \in FenceRows
  BY <1>1, <1>2, <1>3 DEF FenceRows, FenceStates
<1>7. FenceShaped'
  <2>1. IsFiniteSet(asked')
    BY <1>1, <1>3, FS_AddElement
  <2>2. rows' \in [DOMAIN rows' -> FenceRows]
    BY <1>2, <1>3, <1>6
  <2> QED BY <1>1, <1>3, <1>6, <2>1, <2>2 DEF FenceInv, FenceShaped
<1>8. /\ Past' = Past /\ \A p \in DOMAIN rows' : p \in Settled' <=> p \in Settled
      /\ Past \subseteq DOMAIN rows /\ Settled \subseteq DOMAIN rows
      /\ Fence!In({"unknown"})' = {} /\ Fence!In({"unknown"}) = {}
      /\ \A p \in Fence!In(Fence!Unsettled)' : p = o
  BY <1>4, <1>6 DEF Past, Settled, Fence!In, Fence!History, Fence!Unsettled
<1>9. HistoryFits'
  BY <1>6, <1>8 DEF FenceInv, HistoryFits
<1>10. ShownTrue'
  BY <1>1 DEF FenceInv, ShownTrue
<1>11. RowsTrue'
  <2> SUFFICES ASSUME NEW p \in DOMAIN rows'
               PROVE  /\ rows'[p].id \in {0} \cup DOMAIN shown
                      /\ rows'[p].index > 0 => rows'[p].id # 0
                      /\ p \in Settled' =>
                            /\ rows'[p].id # 0 /\ rows'[p].index + 1 \in DOMAIN shown[rows'[p].id]
                            /\ shown[rows'[p].id][rows'[p].index + 1][2] <=> rows'[p].finished
                      /\ p \notin Settled' /\ rows'[p].index = 0 => rows'[p].id = 0
                      /\ rows'[p].state \in {"reserved", "in_flight"} /\ rows'[p].index > 0 =>
                            /\ Len(shown[rows'[p].id]) = rows'[p].index
                            /\ ~Fence!Whole(shown[rows'[p].id])
    BY <1>1 DEF RowsTrue, Fence!Whole
  <2>1. CASE p = o
    <3>1. p \notin Settled'
      BY <1>1, <1>8, <2>1
    <3> QED BY <1>3, <1>4, <1>6, <2>1, <3>1
  <2>2. CASE p # o
    <3>1. p \in DOMAIN rows /\ rows'[p] = rows[p]
      BY <1>6, <2>2
    <3> QED BY <1>8, <3>1 DEF FenceInv, RowsTrue
  <2> QED BY <2>1, <2>2
<1>12. LastKnown'
  <2> SUFFICES ASSUME NEW j \in DOMAIN shown
               PROVE  \E p \in Settled' : rows'[p].id = j /\ rows'[p].index + 1 = Len(shown[j])
    BY <1>1 DEF LastKnown
  <2>1. PICK p \in Settled : rows[p].id = j /\ rows[p].index + 1 = Len(shown[j])
    BY <1>8 DEF FenceInv, LastKnown
  <2> QED BY <1>6, <1>8, <2>1
<1>13. OneOpen'
  BY <1>1, <1>5, <1>6, <1>8 DEF FenceInv, OneOpen, Fence!Whole
<1> QED BY <1>7, <1>9, <1>10, <1>11, <1>12, <1>13 DEF FenceInv

LEMMA FenceSubmits == ASSUME FenceInv, NEW o \in Fragments, Fence!Submit(o) PROVE FenceInv'
<1>1. /\ o \in DOMAIN rows /\ rows[o].state = "reserved" /\ UNCHANGED <<asked, shown>>
      /\ rows' = [rows EXCEPT ![o].state = "in_flight"]
      /\ rows \in [DOMAIN rows -> FenceRows]
  BY DEF Fence!Submit, Fence!In, FenceInv, FenceShaped
<1>2. /\ DOMAIN rows' = DOMAIN rows /\ rows' \in [DOMAIN rows -> FenceRows]
      /\ \A p \in DOMAIN rows : p # o => rows'[p] = rows[p]
      /\ rows'[o].state = "in_flight" /\ rows'[o].index = rows[o].index /\ rows'[o].id = rows[o].id
  BY <1>1 DEF FenceRows, FenceStates
<1>3. /\ Past' = Past /\ o \notin Past /\ Past \subseteq DOMAIN rows
      /\ Settled' = Settled /\ o \notin Settled /\ Settled \subseteq DOMAIN rows
      /\ Fence!In({"unknown"})' = Fence!In({"unknown"}) /\ o \notin Fence!In({"unknown"})
      /\ Fence!In({"unknown"}) \subseteq DOMAIN rows
      /\ Fence!In(Fence!Unsettled)' = Fence!In(Fence!Unsettled) /\ o \in Fence!In(Fence!Unsettled)
  BY <1>1, <1>2 DEF Past, Settled, Fence!In, Fence!History, Fence!Unsettled
<1>4. FenceShaped'
  BY <1>1, <1>2 DEF FenceInv, FenceShaped
<1>5. HistoryFits'
  BY <1>2, <1>3 DEF FenceInv, HistoryFits
<1>6. ShownTrue'
  BY <1>1 DEF FenceInv, ShownTrue
<1>7. RowsTrue'
  <2> SUFFICES ASSUME NEW p \in DOMAIN rows
               PROVE  /\ rows'[p].id \in {0} \cup DOMAIN shown
                      /\ rows'[p].index > 0 => rows'[p].id # 0
                      /\ p \in Settled =>
                            /\ rows'[p].id # 0 /\ rows'[p].index + 1 \in DOMAIN shown[rows'[p].id]
                            /\ shown[rows'[p].id][rows'[p].index + 1][2] <=> rows'[p].finished
                      /\ p \notin Settled /\ rows'[p].index = 0 => rows'[p].id = 0
                      /\ rows'[p].state \in {"reserved", "in_flight"} /\ rows'[p].index > 0 =>
                            /\ Len(shown[rows'[p].id]) = rows'[p].index
                            /\ ~Fence!Whole(shown[rows'[p].id])
    BY <1>1, <1>2, <1>3 DEF RowsTrue, Fence!Whole
  <2>1. CASE p = o
    BY <1>1, <1>2, <1>3, <2>1 DEF FenceInv, RowsTrue
  <2>2. CASE p # o
    BY <1>2, <2>2 DEF FenceInv, RowsTrue
  <2> QED BY SMTT(30), <2>1, <2>2
<1>8. LastKnown'
  BY <1>1, <1>2, <1>3 DEF FenceInv, LastKnown, Unnamed
<1>9. OneOpen'
  BY <1>1, <1>2, <1>3 DEF FenceInv, OneOpen, Unnamed, Fence!Whole
<1> QED BY <1>4, <1>5, <1>6, <1>7, <1>8, <1>9 DEF FenceInv

LEMMA FenceAlways == ServicesSpec => []FenceInv
<1>1. ServicesInit => FenceInv
  <2> SUFFICES ASSUME Fence!Init PROVE FenceInv
    BY DEF ServicesInit
  <2>1. rows = << >> /\ asked = {} /\ shown = << >> /\ DOMAIN rows = {} /\ DOMAIN shown = 1..0
    BY DEF Fence!Init
  <2>2. Past = {} /\ Cardinality(Past) = 0 /\ IsFiniteSet(asked)
    BY <2>1, FS_EmptySet DEF Past, Fence!In
  <2>3. FenceShaped
    <3>1. \E k \in Nat : DOMAIN shown = 1..k
      BY <2>1
    <3> QED BY <2>1, <2>2, <3>1 DEF FenceShaped
  <2>4. HistoryFits
    BY <2>2, FenceAssumption DEF HistoryFits
  <2> QED BY <2>1, <2>3, <2>4
          DEF FenceInv, ShownTrue, RowsTrue, LastKnown, OneOpen, Fence!In
<1>2. FenceInv /\ [Fence!Next]_(Fence!vars) => FenceInv'
  <2> SUFFICES ASSUME FenceInv, [Fence!Next]_(Fence!vars) PROVE FenceInv'
    OBVIOUS
  <2>1. CASE UNCHANGED Fence!vars
    BY <2>1 DEF Fence!vars, FenceInv, FenceShaped, HistoryFits, Past, ShownTrue, RowsTrue,
                Settled, LastKnown, Unnamed, OneOpen, Fence!In, Fence!Whole
  <2>2. CASE Fence!Next
    BY <2>2, FenceReserves, FenceSubmits, FenceUnsent, FenceSent, FenceUncertain DEF Fence!Next
  <2> QED BY <2>1, <2>2
<1> QED BY <1>1, <1>2, FenceSteps, PTL DEF ServicesSpec

LEMMA FenceKeepsOrder == FenceInv => Fence!TypeOK /\ Fence!OneStreamAtATime
<1> SUFFICES ASSUME FenceInv PROVE Fence!TypeOK /\ Fence!OneStreamAtATime
  OBVIOUS
<1>1. Fence!TypeOK
  <2>1. \A o \in DOMAIN rows : rows[o].state \in Fence!Unsettled \cup Fence!History \cup {"history_evicted"}
    BY DEF FenceInv, FenceShaped, FenceRows, FenceStates, Fence!Unsettled, Fence!History
  <2>2. Fence!Cardinality(Fence!In(Fence!History)) <= RowCap
    BY FenceCounts DEF FenceInv, HistoryFits, Past
  <2> QED BY <2>1, <2>2 DEF FenceInv, FenceShaped, Fence!TypeOK
<1>2. \A i \in DOMAIN shown, n \in 1..Fence!Cardinality(asked) : n \in DOMAIN shown[i] =>
         shown[i][n][1] = n - 1 /\ (shown[i][n][2] => n = Len(shown[i]))
  BY DEF FenceInv, ShownTrue, Proper
<1>3. Fence!Cardinality({i \in DOMAIN shown : ~Fence!Whole(shown[i])}) <= 1
  <2> DEFINE undone == {i \in DOMAIN shown : ~Fence!Whole(shown[i])}
  <2>1. \A i, j \in undone : i = j
    BY DEF FenceInv, OneOpen
  <2> HIDE DEF undone
  <2>2. Cardinality(undone) <= 1
    <3>1. CASE undone = {}
      <4>1. Cardinality(undone) = 0
        BY Zenon, <3>1, FS_EmptySet
      <4> QED BY <4>1
    <3>2. CASE undone # {}
      <4>1. PICK i \in undone : undone = {i}
        BY <2>1, <3>2
      <4>2. Cardinality(undone) = 1
        BY Zenon, <4>1, FS_Singleton
      <4> QED BY <4>2
    <3> QED BY <3>1, <3>2
  <2>3. Fence!Cardinality(undone) <= 1
    BY <2>2, FenceCounts
  <2> QED BY <2>3 DEF undone
<1> QED BY <1>1, <1>2, <1>3 DEF Fence!OneStreamAtATime, Fence!Ids

-----------------------------------------------------------------------------
\* A streamed reply is shown in order and once with an honest verdict, and of what a plugin
\* streams by itself QQ shows one unfinished stream at a time, without a hole.
THEOREM StreamsAreSound == ServicesSpec => []StreamSound
<1>1. StreamInv /\ FenceInv => StreamSound
  BY StreamIsHonest, FenceKeepsOrder DEF StreamSound
<1> QED BY <1>1, StreamAlways, FenceAlways, PTL

-----------------------------------------------------------------------------
(* An upload.                                                              *)

LEMMA MediaSteps == [ServicesNext]_allVars => [Media!Next]_(Media!vars)
<1>1. UNCHANGED mediaVars => UNCHANGED Media!vars
  BY DEF mediaVars, Media!vars, Media!blobVars, Media!partVars, Media!qqVars
<1> QED BY <1>1
      DEF ServicesNext, LedgerStep, BusStep, StreamStep, FenceStep, MediaStep, NetStep,
          SettingsStep, PanelStep, JoinStep, GroupStep, allVars

Uploading == {"asking", "parts", "filing"}
PartStates == Media!Working \cup {"todo", "backoff", "acked", "lost"}

MediaShaped ==
    /\ stage \in [Uploads -> Media!Busy \cup {"idle", "ready", "sent", "failed"}]
    /\ part \in [Uploads -> [Media!Parts -> PartStates]]
    /\ arrived \in [Uploads -> [Media!Parts -> {0, 1}]]
    /\ filed \in [Uploads -> {0, 1}]

\* What QQ's storage has of an upload, and what may still reach it.
Unput(u, i) == arrived[u][i] = 0 /\ <<u, i>> \notin flying
Stored(u, i) == arrived[u][i] = 1 /\ <<u, i>> \notin flying

\* An upload starts once, from nothing.
OnceAsked ==
    \A u \in Uploads :
        /\ u \notin prepared =>
              stage[u] \notin Uploading /\ filed[u] = 0 /\ \A i \in Media!Parts : Unput(u, i)
        /\ stage[u] = "asking" => \A i \in Media!Parts : Unput(u, i)
        /\ stage[u] \in Uploading => filed[u] = 0

\* A part is put again only if it cannot have arrived, and counts only if it has.
PartTrue(u, i) ==
    /\ <<u, i>> \in flying => arrived[u][i] = 0
    /\ stage[u] = "parts" /\ part[u][i] \in {"todo", "slot", "backoff"} => Unput(u, i)
    /\ stage[u] = "parts" /\ part[u][i] = "put" /\ <<u, i>> \notin flying => arrived[u][i] = 1
    /\ stage[u] = "parts" /\ part[u][i] \in {"finish", "acked"} => Stored(u, i)
    /\ stage[u] = "filing" \/ filed[u] = 1 => Stored(u, i)
PartsTrue == \A u \in Uploads, i \in Media!Parts : PartTrue(u, i)

MediaInv == MediaShaped /\ OnceAsked /\ PartsTrue

\* Steps that move a task and touch neither its parts nor QQ.
LEMMA MediaIdles ==
    ASSUME MediaInv, UNCHANGED <<part, flying, arrived, filed>>,
           stage' \in [Uploads -> Media!Busy \cup {"idle", "ready", "sent", "failed"}],
           \A u \in Uploads : stage'[u] \in Uploading => stage'[u] = stage[u],
           prepared \subseteq prepared'
    PROVE  MediaInv'
<1>1. MediaShaped'
  BY DEF MediaInv, MediaShaped
<1>2. OnceAsked'
  BY DEF MediaInv, OnceAsked, Unput, Uploading
<1>3. ASSUME NEW u \in Uploads, NEW i \in Media!Parts PROVE PartTrue(u, i)'
  <2>1. PartTrue(u, i) /\ (stage'[u] \in {"parts", "filing"} => stage'[u] = stage[u])
    BY DEF MediaInv, PartsTrue, Uploading
  <2> QED BY <2>1 DEF PartTrue, Unput, Stored
<1> QED BY <1>1, <1>2, <1>3 DEF MediaInv, PartsTrue

LEMMA MediaMoves ==
    ASSUME MediaInv,
           \/ \E u \in Uploads :
                \/ Media!Prepare(u) \/ Media!Append(u) \/ Media!Loaded(u) \/ Media!LoadStops(u)
                \/ Media!Drop(u) \/ Media!UploadRefused(u) \/ Media!Fails(u)
                \/ Media!ReceiptExpires(u) \/ Media!Unwound(u)
           \/ Media!Close \/ Media!Closed
    PROVE  MediaInv'
<1>1. UNCHANGED <<part, flying, arrived, filed, prepared>>
  BY DEF Media!Prepare, Media!Append, Media!Loaded, Media!LoadStops, Media!Drop,
         Media!UploadRefused, Media!Fails, Media!ReceiptExpires, Media!Unwound, Media!Close,
         Media!Closed, Media!partVars, Media!qqVars
<1>2. stage' \in [Uploads -> Media!Busy \cup {"idle", "ready", "sent", "failed"}]
  BY ZenonT(30) DEF MediaInv, MediaShaped, Media!Busy, Media!To, Media!Is,
         Media!Prepare, Media!Append, Media!Loaded, Media!LoadStops, Media!Drop,
         Media!UploadRefused, Media!Fails, Media!ReceiptExpires, Media!Unwound, Media!Close,
         Media!Closed
<1>3. \A u \in Uploads : stage'[u] \in Uploading => stage'[u] = stage[u]
  BY ZenonT(30) DEF MediaInv, MediaShaped, Uploading, Media!To, Media!Is,
         Media!Prepare, Media!Append, Media!Loaded, Media!LoadStops, Media!Drop,
         Media!UploadRefused, Media!Fails, Media!ReceiptExpires, Media!Unwound, Media!Close,
         Media!Closed
<1> QED BY <1>1, <1>2, <1>3, MediaIdles

LEMMA MediaAsks == ASSUME MediaInv, NEW u \in Uploads, Media!Upload(u) PROVE MediaInv'
<1>1. /\ UNCHANGED <<part, flying, arrived, filed>> /\ stage[u] = "ready"
      /\ stage' = [stage EXCEPT ![u] = IF u \in cache THEN "sent"
                                       ELSE IF u \in prepared THEN "failed" ELSE "asking"]
      /\ prepared' = IF u \in cache THEN prepared ELSE prepared \cup {u}
  BY DEF Media!Upload, Media!Is, Media!partVars, Media!qqVars
<1>2. stage' \in [Uploads -> Media!Busy \cup {"idle", "ready", "sent", "failed"}]
  BY <1>1 DEF MediaInv, MediaShaped, Media!Busy
<1>3. CASE u \in cache \/ u \in prepared
  <2>1. \A v \in Uploads : stage'[v] \in Uploading => stage'[v] = stage[v]
    BY <1>1, <1>3 DEF MediaInv, MediaShaped, Uploading
  <2>2. prepared \subseteq prepared'
    BY <1>1
  <2> QED BY <1>1, <1>2, <2>1, <2>2, MediaIdles
<1>4. CASE u \notin cache /\ u \notin prepared
  <2>1. MediaShaped'
    BY <1>1, <1>2 DEF MediaInv, MediaShaped
  <2>2. OnceAsked'
    BY <1>1, <1>4 DEF MediaInv, MediaShaped, OnceAsked, Unput, Uploading
  <2>3. PartsTrue'
    BY ZenonT(30), <1>1, <1>4 DEF MediaInv, MediaShaped, PartsTrue, PartTrue, Unput, Stored
  <2> QED BY <2>1, <2>2, <2>3 DEF MediaInv
<1> QED BY <1>3, <1>4

LEMMA MediaTicketed == ASSUME MediaInv, NEW u \in Uploads, Media!Ticketed(u) PROVE MediaInv'
<1>1. /\ UNCHANGED <<flying, arrived, filed, prepared>> /\ stage[u] = "asking"
      /\ stage' = [stage EXCEPT ![u] = "parts"]
      /\ part' = [part EXCEPT ![u] = [i \in Media!Parts |-> "todo"]]
  BY DEF Media!Ticketed, Media!Is, Media!To, Media!qqVars
<1>2. MediaShaped'
  BY <1>1 DEF MediaInv, MediaShaped, Media!Busy, PartStates
<1>3. OnceAsked'
  BY <1>1 DEF MediaInv, MediaShaped, OnceAsked, Unput, Uploading
<1>4. PartsTrue'
  BY ZenonT(30), <1>1 DEF MediaInv, MediaShaped, OnceAsked, PartsTrue, PartTrue, Unput, Stored
<1> QED BY <1>2, <1>3, <1>4 DEF MediaInv

\* A step of one part's worker.
LEMMA PartStep ==
    ASSUME MediaInv, NEW u \in Uploads, NEW i \in Media!Parts, NEW s \in PartStates,
           Media!Step(u, i, s)
    PROVE  /\ part' \in [Uploads -> [Media!Parts -> PartStates]]
           /\ part'[u][i] = s
           /\ \A v \in Uploads, j \in Media!Parts : <<v, j>> # <<u, i>> => part'[v][j] = part[v][j]
BY DEF MediaInv, MediaShaped, Media!Step

LEMMA PartStays ==
    ASSUME MediaInv, NEW u \in Uploads, NEW i \in Media!Parts, NEW s \in PartStates,
           Media!Step(u, i, s), UNCHANGED <<flying, arrived, filed, prepared>>,
           \/ stage' = stage
           \/ stage' = [stage EXCEPT ![u] = "failing"],
           \/ stage'[u] = "failing"
           \/ s = "slot" /\ part[u][i] \in {"todo", "backoff"}
           \/ s = "finish" /\ part[u][i] = "put" /\ <<u, i>> \notin flying
           \/ s = "acked" /\ part[u][i] = "finish"
    PROVE  MediaInv'
<1>1. /\ part' \in [Uploads -> [Media!Parts -> PartStates]] /\ part'[u][i] = s
      /\ \A v \in Uploads, j \in Media!Parts : <<v, j>> # <<u, i>> => part'[v][j] = part[v][j]
  BY PartStep
<1>2. MediaShaped'
  BY <1>1 DEF MediaInv, MediaShaped, Media!Busy
<1>3. \A v \in Uploads : stage'[v] = stage[v] \/ (v = u /\ stage'[v] = "failing")
  BY DEF MediaInv, MediaShaped
<1>4. OnceAsked'
  BY <1>3 DEF MediaInv, OnceAsked, Unput, Uploading
<1>5. ASSUME NEW v \in Uploads, NEW j \in Media!Parts PROVE PartTrue(v, j)'
  <2>1. PartTrue(v, j)
    BY DEF MediaInv, PartsTrue
  <2>2. CASE <<v, j>> = <<u, i>>
    BY <1>1, <1>3, <2>1, <2>2 DEF PartTrue, Unput, Stored
  <2>3. CASE <<v, j>> # <<u, i>>
    BY <1>1, <1>3, <2>1, <2>3 DEF PartTrue, Unput, Stored
  <2> QED BY <2>2, <2>3
<1> QED BY <1>2, <1>4, <1>5 DEF MediaInv, PartsTrue

LEMMA PartMoves ==
    ASSUME MediaInv, NEW u \in Uploads, NEW i \in Media!Parts,
           \/ Media!TakePart(u, i) \/ Media!PutDone(u, i) \/ Media!PutAgain(u, i)
           \/ Media!PartFails(u, i) \/ Media!PartCancelled(u, i) \/ Media!PartAcked(u, i)
    PROVE  MediaInv'
<1>1. /\ UNCHANGED <<flying, arrived, filed, prepared>>
      /\ {"slot", "finish", "acked", "lost"} \subseteq PartStates
  BY DEF Media!TakePart, Media!PutDone, Media!PutAgain, Media!PartFails, Media!PartCancelled,
         Media!PartAcked, Media!qqVars, PartStates, Media!Working
<1>2. CASE Media!TakePart(u, i) \/ Media!PutAgain(u, i)
  BY <1>1, <1>2, PartStays DEF Media!TakePart, Media!PutAgain
<1>3. CASE Media!PutDone(u, i)
  BY <1>1, <1>3, PartStays DEF Media!PutDone
<1>4. CASE Media!PartAcked(u, i)
  BY <1>1, <1>4, PartStays DEF Media!PartAcked
<1>5. CASE Media!PartFails(u, i)
  <2>1. stage' = [stage EXCEPT ![u] = "failing"] /\ stage'[u] = "failing"
    BY <1>5 DEF Media!PartFails, Media!To, MediaInv, MediaShaped
  <2> QED BY <1>1, <1>5, <2>1, PartStays DEF Media!PartFails
<1>6. CASE Media!PartCancelled(u, i)
  BY <1>1, <1>6, PartStays DEF Media!PartCancelled, Media!Is
<1> QED BY <1>2, <1>3, <1>4, <1>5, <1>6

\* A PUT goes out, reaches QQ's storage, or was never sent.
LEMMA PutKeeps == ASSUME MediaInv, NEW u \in Uploads, NEW i \in Media!Parts, Media!Put(u, i)
                  PROVE  MediaInv'
<1>1. /\ UNCHANGED <<stage, arrived, filed, prepared>> /\ stage[u] = "parts" /\ part[u][i] = "slot"
      /\ flying' = flying \cup {<<u, i>>} /\ Media!Step(u, i, "put") /\ "put" \in PartStates
  BY DEF Media!Put, Media!Is, Media!qqVars, PartStates, Media!Working
<1>2. /\ part' \in [Uploads -> [Media!Parts -> PartStates]] /\ part'[u][i] = "put"
      /\ \A v \in Uploads, j \in Media!Parts : <<v, j>> # <<u, i>> => part'[v][j] = part[v][j]
  BY <1>1, PartStep
<1>3. MediaShaped'
  BY <1>1, <1>2 DEF MediaInv, MediaShaped
<1>4. u \in prepared /\ filed[u] = 0
  BY <1>1 DEF MediaInv, OnceAsked, Uploading
<1>5. ASSUME NEW v \in Uploads PROVE /\ v \notin prepared => stage[v] \notin Uploading
                                     /\ v # u => \A j \in Media!Parts : Unput(v, j) => Unput(v, j)'
                                     /\ stage[v] = "asking" => v # u
  BY <1>1 DEF MediaInv, OnceAsked, Unput
<1>6. OnceAsked'
  BY <1>1, <1>4, <1>5 DEF MediaInv, OnceAsked
<1>7. ASSUME NEW v \in Uploads, NEW j \in Media!Parts PROVE PartTrue(v, j)'
  <2>1. PartTrue(v, j)
    BY DEF MediaInv, PartsTrue
  <2>2. CASE <<v, j>> = <<u, i>>
    BY <1>1, <1>2, <1>4, <2>1, <2>2 DEF PartTrue, Unput, Stored
  <2>3. CASE <<v, j>> # <<u, i>>
    BY <1>1, <1>2, <2>1, <2>3 DEF PartTrue, Unput, Stored
  <2> QED BY <2>2, <2>3
<1> QED BY <1>3, <1>6, <1>7 DEF MediaInv, PartsTrue

LEMMA StoredKeeps == ASSUME MediaInv, NEW u \in Uploads, NEW i \in Media!Parts, Media!Stored(u, i)
                     PROVE  MediaInv'
<1>1. /\ UNCHANGED <<stage, part, filed, prepared>> /\ <<u, i>> \in flying
      /\ flying' = flying \ {<<u, i>>} /\ arrived' = [arrived EXCEPT ![u][i] = @ + 1]
  BY DEF Media!Stored
<1>2. arrived[u][i] = 0
  BY <1>1 DEF MediaInv, PartsTrue, PartTrue
<1>3. /\ arrived' \in [Uploads -> [Media!Parts -> {0, 1}]] /\ arrived'[u][i] = 1
      /\ \A v \in Uploads, j \in Media!Parts :
            <<v, j>> # <<u, i>> => arrived'[v][j] = arrived[v][j]
  BY <1>1, <1>2 DEF MediaInv, MediaShaped
<1>4. MediaShaped'
  BY <1>1, <1>3 DEF MediaInv, MediaShaped
<1>5. u \in prepared /\ stage[u] # "asking"
  BY <1>1 DEF MediaInv, OnceAsked, Unput
<1>6. ASSUME NEW v \in Uploads, v # u, NEW j \in Media!Parts, Unput(v, j) PROVE Unput(v, j)'
  BY <1>1, <1>3, <1>6 DEF Unput
<1>7. OnceAsked'
  BY <1>1, <1>5, <1>6 DEF MediaInv, OnceAsked
<1>8. ASSUME NEW v \in Uploads, NEW j \in Media!Parts PROVE PartTrue(v, j)'
  <2>1. PartTrue(v, j)
    BY DEF MediaInv, PartsTrue
  <2>2. CASE <<v, j>> = <<u, i>>
    BY <1>1, <1>3, <2>1, <2>2 DEF PartTrue, Unput, Stored
  <2>3. CASE <<v, j>> # <<u, i>>
    BY <1>1, <1>3, <2>1, <2>3 DEF PartTrue, Unput, Stored
  <2> QED BY <2>2, <2>3
<1> QED BY <1>4, <1>7, <1>8 DEF MediaInv, PartsTrue

LEMMA PutRetriesKeeps ==
    ASSUME MediaInv, NEW u \in Uploads, NEW i \in Media!Parts, Media!PutRetries(u, i)
    PROVE  MediaInv'
<1>1. /\ UNCHANGED <<stage, arrived, filed, prepared>> /\ <<u, i>> \in flying
      /\ flying' = flying \ {<<u, i>>} /\ Media!Step(u, i, "backoff") /\ "backoff" \in PartStates
  BY DEF Media!PutRetries, Media!Repeatable, Media!qqVars, PartStates
<1>2. /\ part' \in [Uploads -> [Media!Parts -> PartStates]] /\ part'[u][i] = "backoff"
      /\ \A v \in Uploads, j \in Media!Parts : <<v, j>> # <<u, i>> => part'[v][j] = part[v][j]
  BY <1>1, PartStep
<1>3. MediaShaped'
  BY <1>1, <1>2 DEF MediaInv, MediaShaped
<1>4. OnceAsked'
  BY <1>1 DEF MediaInv, OnceAsked, Unput
<1>5. ASSUME NEW v \in Uploads, NEW j \in Media!Parts PROVE PartTrue(v, j)'
  <2>1. PartTrue(v, j)
    BY DEF MediaInv, PartsTrue
  <2>2. CASE <<v, j>> = <<u, i>>
    BY <1>1, <1>2, <2>1, <2>2 DEF PartTrue, Unput, Stored
  <2>3. CASE <<v, j>> # <<u, i>>
    BY <1>1, <1>2, <2>1, <2>3 DEF PartTrue, Unput, Stored
  <2> QED BY <2>2, <2>3
<1> QED BY <1>3, <1>4, <1>5 DEF MediaInv, PartsTrue

\* The file is made of parts that are all there.
LEMMA FileKeeps ==
    ASSUME MediaInv, NEW u \in Uploads, Media!PartsDone(u) \/ Media!Filed(u) PROVE MediaInv'
<1>1. UNCHANGED <<part, flying, arrived, prepared>>
  BY DEF Media!PartsDone, Media!Filed, Media!partVars, Media!qqVars
<1>2. /\ \A v \in Uploads : v # u => stage'[v] = stage[v] /\ filed'[v] = filed[v]
      /\ stage'[u] \notin {"asking", "parts"} /\ stage[u] \in Uploading
      /\ \A i \in Media!Parts : Stored(u, i)
      /\ filed'[u] \in {0, 1} /\ (stage'[u] = "filing" => filed'[u] = 0)
      /\ MediaShaped'
  <2>1. CASE Media!PartsDone(u)
    <3>1. /\ stage' = [stage EXCEPT ![u] = "filing"] /\ filed' = filed /\ stage[u] = "parts"
          /\ \A i \in Media!Parts : part[u][i] = "acked"
      BY <2>1 DEF Media!PartsDone, Media!Is, Media!To, Media!qqVars
    <3>2. filed[u] = 0 /\ \A i \in Media!Parts : Stored(u, i)
      BY <3>1 DEF MediaInv, OnceAsked, PartsTrue, PartTrue, Uploading
    <3>3. MediaShaped'
      BY <1>1, <3>1, <3>2 DEF MediaInv, MediaShaped, Media!Busy
    <3> QED BY <3>1, <3>2, <3>3 DEF MediaInv, MediaShaped, Uploading
  <2>2. CASE Media!Filed(u)
    <3>1. /\ stage[u] = "filing" /\ filed' = [filed EXCEPT ![u] = @ + 1]
          /\ stage' \in {[stage EXCEPT ![u] = s] : s \in {"sent", "failing"}}
      BY <2>2 DEF Media!Filed, Media!Is
    <3>2. filed[u] = 0 /\ \A i \in Media!Parts : Stored(u, i)
      BY <3>1 DEF MediaInv, OnceAsked, PartsTrue, PartTrue, Uploading
    <3>3. MediaShaped'
      BY <1>1, <3>1, <3>2 DEF MediaInv, MediaShaped, Media!Busy
    <3> QED BY <3>1, <3>2, <3>3 DEF MediaInv, MediaShaped, Uploading
  <2> QED BY <2>1, <2>2
<1>4. OnceAsked'
  BY <1>1, <1>2 DEF MediaInv, OnceAsked, Unput, Uploading
<1>5. ASSUME NEW v \in Uploads, NEW j \in Media!Parts PROVE PartTrue(v, j)'
  <2>1. PartTrue(v, j)
    BY DEF MediaInv, PartsTrue
  <2>2. CASE v = u
    <3>1. Stored(u, j)
      BY <1>2
    <3> QED BY <1>1, <1>2, <2>1, <2>2, <3>1 DEF PartTrue, Unput, Stored
  <2>3. CASE v # u
    BY <1>1, <1>2, <2>1, <2>3 DEF PartTrue, Unput, Stored
  <2> QED BY <2>2, <2>3
<1> QED BY <1>2, <1>4, <1>5 DEF MediaInv, PartsTrue

LEMMA MediaAlways == ServicesSpec => []MediaInv
<1>1. ServicesInit => MediaInv
  <2> SUFFICES ASSUME Media!Init PROVE MediaInv
    BY DEF ServicesInit
  <2> QED BY DEF Media!Init, MediaInv, MediaShaped, OnceAsked, PartsTrue, PartTrue, Unput, Stored,
                 Uploading, PartStates
<1>2. MediaInv /\ [Media!Next]_(Media!vars) => MediaInv'
  <2> SUFFICES ASSUME MediaInv, [Media!Next]_(Media!vars) PROVE MediaInv'
    OBVIOUS
  <2>1. CASE UNCHANGED Media!vars
    BY <2>1 DEF Media!vars, Media!partVars, Media!qqVars, MediaInv, MediaShaped, OnceAsked,
                PartsTrue, PartTrue, Unput, Stored
  <2>2. CASE Media!Next
    BY <2>2, MediaMoves, MediaAsks, MediaTicketed, PartMoves, PutKeeps, StoredKeeps,
       PutRetriesKeeps, FileKeeps DEF Media!Next
  <2> QED BY <2>1, <2>2
<1> QED BY <1>1, <1>2, MediaSteps, PTL DEF ServicesSpec

\* QQ's storage gets no part twice and makes at most one file of an operation.
LEMMA MediaPartsOnce == MediaInv => Media!PartsOnce
<1> SUFFICES ASSUME MediaInv, NEW u \in Uploads
             PROVE  /\ \A i \in Media!Parts : arrived[u][i] <= 1
                    /\ filed[u] <= 1
                    /\ filed[u] = 1 => \A i \in Media!Parts : arrived[u][i] = 1
  BY DEF Media!PartsOnce
<1>1. filed[u] \in {0, 1} /\ \A i \in Media!Parts : arrived[u][i] \in {0, 1}
  BY DEF MediaInv, MediaShaped
<1>2. \A i \in Media!Parts : PartTrue(u, i)
  BY DEF MediaInv, PartsTrue
<1>3. filed[u] = 1 => \A i \in Media!Parts : arrived[u][i] = 1
  BY <1>2 DEF PartTrue, Stored
<1>4. filed[u] <= 1 /\ \A i \in Media!Parts : arrived[u][i] <= 1
  BY <1>1
<1> QED BY <1>3, <1>4

-----------------------------------------------------------------------------
(* Sums of bytes.                                                          *)

LEMMA TotalIsNat ==
    ASSUME NEW f, NEW S, IsFiniteSet(S), NEW max \in Nat
    PROVE  IsFiniteSet(Cells(f, S, max)) /\ Total(f, S, max) \in Nat
<1>1. IsFiniteSet(1..max)
  BY FS_Interval
<1>2. IsFiniteSet(S \X (1..max))
  BY <1>1, FS_Product
<1>3. Cells(f, S, max) \in SUBSET (S \X (1..max))
  BY DEF Cells
<1>4. IsFiniteSet(Cells(f, S, max))
  BY <1>2, <1>3, FS_Subset
<1> QED BY <1>4, FS_CardinalityType DEF Total

\* A part and the rest make the whole.
LEMMA TotalSplits ==
    ASSUME NEW f, NEW S, IsFiniteSet(S), NEW T \in SUBSET S, NEW max \in Nat
    PROVE  /\ IsFiniteSet(T) /\ IsFiniteSet(S \ T)
           /\ Total(f, S, max) = Total(f, T, max) + Total(f, S \ T, max)
<1> DEFINE A == Cells(f, T, max)
           B == Cells(f, S \ T, max)
<1>1. IsFiniteSet(T) /\ IsFiniteSet(S \ T)
  BY FS_Subset, FS_Difference
<1>2. IsFiniteSet(A) /\ IsFiniteSet(B)
  BY <1>1, TotalIsNat
<1>3. Cells(f, S, max) = A \cup B /\ A \cap B = {}
  BY DEF Cells
<1> HIDE DEF A, B
<1>4. Cardinality(A \cup B) = Cardinality(A) + Cardinality(B) - Cardinality(A \cap B)
  BY <1>2, FS_Union
<1>5. Cardinality(A) \in Nat /\ Cardinality(B) \in Nat /\ Cardinality(A \cap B) = 0
  BY <1>2, <1>3, FS_CardinalityType, FS_EmptySet
<1>6. Cardinality(A \cup B) = Cardinality(A) + Cardinality(B)
  BY <1>4, <1>5
<1> QED BY <1>1, <1>3, <1>6 DEF Total, A, B

LEMMA TotalOfOne ==
    ASSUME NEW f, NEW x, NEW max \in Nat, f[x] \in 0..max
    PROVE  Total(f, {x}, max) = f[x]
<1>1. Cells(f, {x}, max) = {x} \X (1..f[x])
  <2>1. \A c : c \in Cells(f, {x}, max)
                 <=> c \in {x} \X (1..max) /\ c[2] <= f[c[1]]
    BY DEF Cells
  <2>2. \A c : c \in {x} \X (1..max) /\ c[2] <= f[c[1]] <=> c \in {x} \X (1..f[x])
    OBVIOUS
  <2> QED BY <2>1, <2>2
<1>2. IsFiniteSet(1..f[x]) /\ Cardinality(1..f[x]) = f[x]
  <2>1. f[x] \in Int /\ 1 \in Int
    OBVIOUS
  <2>2. IsFiniteSet(1..f[x]) /\ Cardinality(1..f[x]) = IF 1 > f[x] THEN 0 ELSE f[x] - 1 + 1
    BY <2>1, FS_Interval
  <2> QED BY <2>2
<1>3. IsFiniteSet({x}) /\ Cardinality({x}) = 1
  BY FS_Singleton
<1>4. Cardinality({x} \X (1..f[x])) = Cardinality({x}) * Cardinality(1..f[x])
  BY <1>2, <1>3, FS_Product
<1>5. 1 * f[x] = f[x]
  OBVIOUS
<1> QED BY <1>1, <1>2, <1>3, <1>4, <1>5, Zenon DEF Total

LEMMA TotalDepends ==
    ASSUME NEW f, NEW g, NEW S, NEW max, \A x \in S : f[x] = g[x]
    PROVE  Total(f, S, max) = Total(g, S, max)
<1>1. Cells(f, S, max) = Cells(g, S, max)
  BY DEF Cells
<1> QED BY <1>1 DEF Total

LEMMA TotalOfNone ==
    ASSUME NEW f, NEW S, NEW max \in Nat, \A x \in S : f[x] = 0
    PROVE  Total(f, S, max) = 0
<1>1. Cells(f, S, max) = {}
  BY DEF Cells
<1> QED BY <1>1, FS_EmptySet DEF Total

\* One value among the others, and what changes with it.
LEMMA TotalWithout ==
    ASSUME NEW f, NEW S, IsFiniteSet(S), NEW x \in S, NEW max \in Nat, f[x] \in 0..max
    PROVE  /\ Total(f, S, max) = f[x] + Total(f, S \ {x}, max)
           /\ Total(f, S \ {x}, max) \in Nat
           /\ f[x] <= Total(f, S, max)
<1>1. {x} \in SUBSET S
  OBVIOUS
<1>2. /\ Total(f, S, max) = Total(f, {x}, max) + Total(f, S \ {x}, max)
      /\ IsFiniteSet(S \ {x})
  BY <1>1, TotalSplits
<1>3. Total(f, {x}, max) = f[x]
  BY TotalOfOne
<1>4. Total(f, S \ {x}, max) \in Nat
  BY <1>2, TotalIsNat
<1> QED BY <1>2, <1>3, <1>4

LEMMA TotalMoves ==
    ASSUME NEW f, NEW g, NEW S, IsFiniteSet(S), NEW x \in S, NEW max \in Nat,
           f[x] \in 0..max, g[x] \in 0..max, \A y \in S \ {x} : g[y] = f[y]
    PROVE  Total(g, S, max) = Total(f, S, max) - f[x] + g[x]
<1>1. Total(f, S \ {x}, max) = Total(g, S \ {x}, max)
  BY TotalDepends
<1>2. Total(f, S, max) = f[x] + Total(f, S \ {x}, max) /\ Total(f, S \ {x}, max) \in Nat
  BY TotalWithout
<1>3. Total(g, S, max) = g[x] + Total(g, S \ {x}, max)
  BY TotalWithout
<1> QED BY <1>1, <1>2, <1>3

\* One more each for the members of Q.
LEMMA TotalGrows ==
    ASSUME NEW f, NEW g, NEW S, IsFiniteSet(S), NEW Q \in SUBSET S, NEW max \in Nat,
           \A y \in S : f[y] \in 0..max /\ g[y] \in 0..max,
           \A y \in S : g[y] = IF y \in Q THEN f[y] + 1 ELSE f[y]
    PROVE  Total(g, S, max) = Total(f, S, max) + Cardinality(Q)
<1> DEFINE A == Cells(f, S, max)
           B == {<<y, f[y] + 1>> : y \in Q}
<1>1. IsFiniteSet(A) /\ IsFiniteSet(Q) /\ Cardinality(A) \in Nat
  BY TotalIsNat, FS_Subset DEF Total
<1>2. Cells(g, S, max) = A \cup B /\ A \cap B = {}
  <2>1. \A y \in S, n \in 1..max :
           <<y, n>> \in B <=> y \in Q /\ n = f[y] + 1
    OBVIOUS
  <2>2. \A y \in S, n \in 1..max :
           /\ <<y, n>> \in Cells(g, S, max) <=> <<y, n>> \in A \/ <<y, n>> \in B
           /\ ~ (<<y, n>> \in A /\ <<y, n>> \in B)
    BY <2>1 DEF Cells
  <2>3. Cells(g, S, max) \subseteq S \X (1..max) /\ A \subseteq S \X (1..max)
    BY DEF Cells
  <2>4. B \subseteq S \X (1..max)
    OBVIOUS
  <2> HIDE DEF A, B
  <2> QED BY <2>2, <2>3, <2>4
<1>3. IsFiniteSet(B) /\ Cardinality(B) = Cardinality(Q)
  <2> DEFINE h == [y \in Q |-> <<y, f[y] + 1>>]
  <2>1. h \in [Q -> B] /\ \A y, z \in Q : h[y] = h[z] => y = z
    OBVIOUS
  <2>2. \A b \in B : \E y \in Q : h[y] = b
    OBVIOUS
  <2> HIDE DEF h, B
  <2>3. h \in Bijection(Q, B)
    BY <2>1, <2>2 DEF Bijection, Injection, Surjection, IsInjective
  <2>4. ExistsBijection(Q, B)
    BY <2>3 DEF ExistsBijection
  <2> QED BY <1>1, <2>4, FS_Bijection
<1> HIDE DEF A, B
<1>4. Cardinality(A \cup B) = Cardinality(A) + Cardinality(B) - Cardinality(A \cap B)
  BY <1>1, <1>3, FS_Union
<1>5. Cardinality(A \cap B) = 0 /\ Cardinality(Q) \in Nat
  BY <1>1, <1>2, FS_EmptySet, FS_CardinalityType
<1>6. Cardinality(A \cup B) = Cardinality(A) + Cardinality(Q)
  BY <1>1, <1>3, <1>4, <1>5
<1> QED BY <1>2, <1>6 DEF Total, A

-----------------------------------------------------------------------------
(* The pool of blobs, and the transfer slots.                              *)

LEMMA MediaTotals ==
    /\ \A f, S, max : Media!Total(f, S, max) = Total(f, S, max)
    /\ \A S : Media!Cardinality(S) = Cardinality(S)
BY DEF Media!Total, Media!Cells, Media!Cardinality, Total, Cells, Cardinality

PoolShaped ==
    /\ size \in [Uploads -> 0..Size] /\ used \in 0..PoolBytes
    /\ open \subseteq Uploads /\ held \subseteq open
    /\ used = Total(size, open, Size)

\* Who holds a blob: a send between its load and its end, until the service is shut.
OpenTrue ==
    /\ \A u \in Uploads :
          /\ stage[u] \in Media!Busy => u \in open
          /\ stage[u] = "ready" /\ ~shut => u \in open
          /\ u \in open => stage[u] # "idle" /\ (u \in held <=> stage[u] # "loading")
    /\ shut => closed /\ open = {}

Puts == {x \in Uploads \X Media!Parts : part[x[1]][x[2]] = "put"}
SlotsTrue ==
    /\ \A u \in Uploads, i \in Media!Parts :
          part[u][i] = "put" => stage[u] \in {"parts", "failing"}
    /\ free \in 0..Slots /\ free = Slots - Cardinality(Puts)

PoolInv == MediaInv /\ PoolShaped /\ OpenTrue /\ SlotsTrue

LEMMA PoolIsFinite == ASSUME PoolInv PROVE IsFiniteSet(open) /\ IsFiniteSet(Puts) /\ Size \in Nat
<1>1. IsFiniteSet(Uploads) /\ Size \in Nat
  BY MediaAssumption
<1>2. open \in SUBSET Uploads
  BY DEF PoolInv, PoolShaped
<1>3. IsFiniteSet(Media!Parts)
  BY <1>1, FS_Interval DEF Media!Parts
<1>4. IsFiniteSet(Uploads \X Media!Parts)
  BY <1>1, <1>3, FS_Product
<1>5. Puts \in SUBSET (Uploads \X Media!Parts)
  BY DEF Puts
<1> QED BY <1>1, <1>2, <1>4, <1>5, FS_Subset

\* A blob is closed once: its bytes are given back if it was open.
LEMMA PoolReleases ==
    ASSUME PoolInv, NEW U \in SUBSET Uploads, Media!Released(U), held' = held \ U
    PROVE  PoolShaped' /\ open' = open \ U
<1> DEFINE T == U \cap open
<1>1. open' = open \ U /\ size' = size /\ used' = used - Total(size, T, Size)
  BY MediaTotals DEF Media!Released
<1>2. IsFiniteSet(open) /\ Size \in Nat /\ T \in SUBSET open /\ open \ T = open \ U
  BY PoolIsFinite
<1> HIDE DEF T
<1>3. /\ IsFiniteSet(T) /\ IsFiniteSet(open \ T)
      /\ Total(size, open, Size) = Total(size, T, Size) + Total(size, open \ T, Size)
  BY <1>2, TotalSplits
<1>4. Total(size, T, Size) \in Nat /\ Total(size, open \ T, Size) \in Nat
  BY <1>2, <1>3, TotalIsNat
<1>5. used = Total(size, open, Size) /\ used \in 0..PoolBytes /\ PoolBytes \in Nat
  BY MediaAssumption DEF PoolInv, PoolShaped
<1>6. used' = Total(size, open \ T, Size) /\ used' \in 0..PoolBytes
  BY <1>1, <1>3, <1>4, <1>5
<1> QED BY <1>1, <1>2, <1>6 DEF PoolInv, PoolShaped

\* Steps of a task that hold or put nothing leave pool and slots alone.
LEMMA SlotsStay ==
    ASSUME PoolInv, UNCHANGED <<part, free>>,
           \A u \in Uploads : stage[u] \in {"parts", "failing"} =>
              \/ stage'[u] \in {"parts", "failing"}
              \/ \A i \in Media!Parts : part[u][i] # "put"
    PROVE  SlotsTrue'
<1>1. Puts' = Puts
  BY DEF Puts
<1> QED BY <1>1 DEF PoolInv, SlotsTrue

LEMMA PoolPrepares ==
    ASSUME PoolInv, NEW u \in Uploads, Media!Prepare(u)
    PROVE  PoolShaped' /\ OpenTrue' /\ SlotsTrue'
<1>1. /\ stage[u] = "idle" /\ ~closed /\ stage' = [stage EXCEPT ![u] = "loading"]
      /\ size' = [size EXCEPT ![u] = 0] /\ open' = open \cup {u}
      /\ UNCHANGED <<held, used, part, free, closed, shut>>
  BY DEF Media!Prepare, Media!Is, Media!To, Media!partVars
<1>2. stage \in [Uploads -> Media!Busy \cup {"idle", "ready", "sent", "failed"}]
  BY DEF PoolInv, MediaInv, MediaShaped
<1>3. OpenTrue'
  BY <1>1, <1>2 DEF PoolInv, OpenTrue, PoolShaped, Media!Busy
<1>4. u \notin open /\ u \in open' /\ open' \ {u} = open /\ IsFiniteSet(open)
  BY <1>1, PoolIsFinite DEF PoolInv, OpenTrue
<1>5. size' \in [Uploads -> 0..Size] /\ size'[u] = 0 /\ size'[u] \in 0..Size /\ Size \in Nat
      /\ \A v \in open : size'[v] = size[v]
  BY <1>1, <1>4, MediaAssumption DEF PoolInv, PoolShaped
<1>6. IsFiniteSet(open')
  BY <1>1, <1>4, FS_AddElement
<1>7. Total(size', open', Size) = 0 + Total(size', open, Size)
  BY <1>4, <1>5, <1>6, TotalWithout
<1>8. Total(size', open, Size) = Total(size, open, Size)
  BY <1>5, TotalDepends
<1>9. used = Total(size, open, Size) /\ used \in 0..PoolBytes
  BY DEF PoolInv, PoolShaped
<1>10. used' = Total(size', open', Size)
  BY <1>1, <1>7, <1>8, <1>9
<1>11. PoolShaped'
  BY <1>1, <1>5, <1>9, <1>10 DEF PoolInv, PoolShaped
<1>12. SlotsTrue'
  BY <1>1, <1>2, SlotsStay
<1> QED BY <1>3, <1>11, <1>12

LEMMA PoolAppends ==
    ASSUME PoolInv, NEW u \in Uploads, Media!Append(u)
    PROVE  PoolShaped' /\ OpenTrue' /\ SlotsTrue'
<1>1. /\ stage[u] = "loading" /\ size[u] < Size /\ used < PoolBytes
      /\ size' = [size EXCEPT ![u] = @ + 1] /\ used' = used + 1
      /\ UNCHANGED <<stage, open, held, part, free, closed, shut>>
  BY DEF Media!Append, Media!Is, Media!partVars
<1>2. u \in open /\ IsFiniteSet(open) /\ Size \in Nat /\ PoolBytes \in Nat
  BY <1>1, PoolIsFinite, MediaAssumption DEF PoolInv, OpenTrue, Media!Busy
<1>3. /\ size \in [Uploads -> 0..Size] /\ used = Total(size, open, Size) /\ used \in 0..PoolBytes
      /\ open \subseteq Uploads
  BY DEF PoolInv, PoolShaped
<1>4. /\ size' \in [Uploads -> 0..Size] /\ size[u] \in 0..Size /\ size'[u] \in 0..Size
      /\ size'[u] = size[u] + 1 /\ \A v \in open \ {u} : size'[v] = size[v]
  BY <1>1, <1>2, <1>3
<1>5. Total(size', open, Size) = Total(size, open, Size) - size[u] + size'[u]
  BY <1>2, <1>4, TotalMoves
<1>6. used' = Total(size', open, Size) /\ used' \in 0..PoolBytes
  BY <1>1, <1>2, <1>3, <1>4, <1>5
<1>7. PoolShaped'
  BY <1>1, <1>4, <1>6 DEF PoolInv, PoolShaped
<1>8. OpenTrue' /\ SlotsTrue'
  BY <1>1, SlotsStay DEF PoolInv, OpenTrue
<1> QED BY <1>7, <1>8

LEMMA PoolEnds ==
    ASSUME PoolInv, NEW u \in Uploads, Media!LoadStops(u) \/ Media!Drop(u)
    PROVE  PoolShaped' /\ OpenTrue' /\ SlotsTrue'
<1>1. /\ stage[u] \in {"loading", "ready", "sent", "failed"}
      /\ stage' = [stage EXCEPT ![u] = "idle"] /\ Media!Released({u})
      /\ UNCHANGED <<part, free, closed, shut>>
  BY DEF Media!LoadStops, Media!Drop, Media!Is, Media!To, Media!partVars
<1>2. stage \in [Uploads -> Media!Busy \cup {"idle", "ready", "sent", "failed"}]
  BY DEF PoolInv, MediaInv, MediaShaped
<1>3. CASE held' = held \ {u}
  <2>1. {u} \in SUBSET Uploads
    OBVIOUS
  <2>2. PoolShaped' /\ open' = open \ {u}
    BY <1>1, <1>3, <2>1, PoolReleases
  <2>3. OpenTrue'
    BY <1>1, <1>2, <1>3, <2>2 DEF PoolInv, OpenTrue, Media!Busy
  <2>4. SlotsTrue'
    BY <1>1, <1>2, SlotsStay
  <2> QED BY <2>2, <2>3, <2>4
<1>4. held' = held \ {u}
  <2>1. CASE Media!Drop(u)
    BY <2>1 DEF Media!Drop
  <2>2. CASE Media!LoadStops(u)
    <3>1. held' = held /\ stage[u] = "loading"
      BY <2>2 DEF Media!LoadStops, Media!Is
    <3> QED BY <3>1 DEF PoolInv, OpenTrue, PoolShaped
  <2> QED BY <2>1, <2>2
<1> QED BY <1>3, <1>4


\* Steps that leave the pool to its holders.
LEMMA PoolStays ==
    ASSUME PoolInv, UNCHANGED <<size, open, held, used>>,
           \A u \in Uploads :
              /\ stage'[u] \in Media!Busy => stage[u] \in Media!Busy \/ u \in open
              /\ stage'[u] = "ready" /\ ~shut' => u \in open
              /\ stage'[u] \in {"idle", "loading"} => stage'[u] = stage[u]
              /\ stage[u] = "loading" => stage'[u] = "loading",
           shut' = shut, shut => closed'
    PROVE  PoolShaped' /\ OpenTrue'
BY DEF PoolInv, PoolShaped, OpenTrue

LEMMA PoolLoaded ==
    ASSUME PoolInv, NEW u \in Uploads, Media!Loaded(u)
    PROVE  PoolShaped' /\ OpenTrue' /\ SlotsTrue'
<1>1. /\ stage[u] = "loading" /\ stage' = [stage EXCEPT ![u] = "ready"] /\ held' = held \cup {u}
      /\ UNCHANGED <<size, open, used, part, free, closed, shut>>
  BY DEF Media!Loaded, Media!Is, Media!To, Media!partVars
<1>2. stage \in [Uploads -> Media!Busy \cup {"idle", "ready", "sent", "failed"}]
  BY DEF PoolInv, MediaInv, MediaShaped
<1>3. u \in open
  BY <1>1 DEF PoolInv, OpenTrue, Media!Busy
<1>4. PoolShaped'
  BY <1>1, <1>3 DEF PoolInv, PoolShaped
<1>5. OpenTrue'
  BY <1>1, <1>2, <1>3 DEF PoolInv, OpenTrue, PoolShaped, Media!Busy
<1>6. SlotsTrue'
  BY <1>1, <1>2, SlotsStay
<1> QED BY <1>4, <1>5, <1>6

LEMMA PoolTasks ==
    ASSUME PoolInv, NEW u \in Uploads,
           \/ Media!Upload(u) \/ Media!UploadRefused(u) \/ Media!Fails(u) \/ Media!PartsDone(u)
           \/ Media!Filed(u) \/ Media!ReceiptExpires(u) \/ Media!Unwound(u)
    PROVE  PoolShaped' /\ OpenTrue' /\ SlotsTrue'
<1>1. UNCHANGED <<size, open, held, used, part, free, closed, shut>>
  BY DEF Media!Upload, Media!UploadRefused, Media!Fails, Media!PartsDone, Media!Filed,
         Media!ReceiptExpires, Media!Unwound, Media!blobVars, Media!partVars
<1>2. stage \in [Uploads -> Media!Busy \cup {"idle", "ready", "sent", "failed"}]
  BY DEF PoolInv, MediaInv, MediaShaped
<1>3. /\ \A v \in Uploads : v # u => stage'[v] = stage[v]
      /\ \/ stage[u] = "ready" /\ ~closed /\ stage'[u] \in {"sent", "failed", "asking"}
         \/ stage[u] = "ready" /\ stage'[u] = "failed"
         \/ stage[u] \in {"asking", "parts", "filing"} /\ stage'[u] = "failing"
         \/ /\ stage[u] = "parts" /\ stage'[u] = "filing"
            /\ \A i \in Media!Parts : part[u][i] # "put"
         \/ stage[u] = "filing" /\ stage'[u] \in {"sent", "failing"}
         \/ stage' = stage
         \/ /\ stage[u] = "failing" /\ stage'[u] = "failed"
            /\ \A i \in Media!Parts : part[u][i] # "put"
  <2>1. CASE Media!Upload(u)
    BY <1>2, <2>1 DEF Media!Upload, Media!Is
  <2>2. CASE Media!UploadRefused(u)
    BY <1>2, <2>2 DEF Media!UploadRefused, Media!Is, Media!To
  <2>3. CASE Media!Fails(u)
    BY <1>2, <2>3 DEF Media!Fails, Media!To
  <2>4. CASE Media!PartsDone(u)
    BY <1>2, <2>4 DEF Media!PartsDone, Media!Is, Media!To
  <2>5. CASE Media!Filed(u)
    BY <1>2, <2>5 DEF Media!Filed, Media!Is
  <2>6. CASE Media!ReceiptExpires(u)
    BY <2>6 DEF Media!ReceiptExpires
  <2>7. CASE Media!Unwound(u)
    <3> DEFINE Runs == {i \in Media!Parts : part[u][i] \in Media!Working \cup {"backoff"}}
    <3>1. /\ stage[u] = "failing" /\ stage' = [stage EXCEPT ![u] = "failed"]
          /\ Cardinality(Runs) = 0
      BY <2>7, MediaTotals DEF Media!Unwound, Media!Is, Media!To, Media!Running
    <3>2. IsFiniteSet(Media!Parts) /\ Runs \in SUBSET Media!Parts
      BY FS_Interval, MediaAssumption DEF Media!Parts
    <3>3. Runs = {}
      BY <3>1, <3>2, FS_Subset, FS_EmptySet
    <3>4. \A i \in Media!Parts : part[u][i] # "put"
      BY <3>3 DEF Media!Working
    <3> QED BY <1>2, <3>1, <3>4
  <2> QED BY <2>1, <2>2, <2>3, <2>4, <2>5, <2>6, <2>7
<1>4. ~closed => ~shut
  BY DEF PoolInv, OpenTrue
<1>5. \A v \in Uploads :
         /\ stage'[v] \in Media!Busy => stage[v] \in Media!Busy \/ v \in open
         /\ stage'[v] = "ready" /\ ~shut' => v \in open
         /\ stage'[v] \in {"idle", "loading"} => stage'[v] = stage[v]
         /\ stage[v] = "loading" => stage'[v] = "loading"
  BY <1>1, <1>3, <1>4 DEF PoolInv, OpenTrue, Media!Busy
<1>6. PoolShaped' /\ OpenTrue'
  BY <1>1, <1>5, PoolStays DEF PoolInv, OpenTrue
<1>7. SlotsTrue'
  BY <1>1, <1>3, SlotsStay
<1> QED BY <1>6, <1>7

LEMMA PoolCloses ==
    ASSUME PoolInv, Media!Close \/ Media!Closed
    PROVE  PoolShaped' /\ OpenTrue' /\ SlotsTrue'
<1>1. stage \in [Uploads -> Media!Busy \cup {"idle", "ready", "sent", "failed"}]
  BY DEF PoolInv, MediaInv, MediaShaped
<1>2. CASE Media!Close
  <2>1. /\ UNCHANGED <<size, open, held, used, part, free, shut>> /\ closed'
        /\ stage' = [u \in Uploads |-> IF stage[u] \in {"asking", "parts", "filing"}
                                       THEN "failing" ELSE stage[u]]
    BY <1>2 DEF Media!Close, Media!blobVars, Media!partVars
  <2>2. \A v \in Uploads :
           /\ stage'[v] \in Media!Busy => stage[v] \in Media!Busy \/ v \in open
           /\ stage'[v] = "ready" /\ ~shut' => v \in open
           /\ stage'[v] \in {"idle", "loading"} => stage'[v] = stage[v]
           /\ stage[v] = "loading" => stage'[v] = "loading"
    BY <2>1 DEF PoolInv, OpenTrue, Media!Busy
  <2>3. PoolShaped' /\ OpenTrue'
    BY <2>1, <2>2, PoolStays
  <2>4. SlotsTrue'
    BY <2>1, SlotsStay
  <2> QED BY <2>3, <2>4
<1>3. CASE Media!Closed
  <2>1. /\ closed /\ Media!Tasks = {} /\ shut' = TRUE /\ Media!Released(held) /\ held' = {}
        /\ UNCHANGED <<stage, part, free, closed>>
    BY <1>3 DEF Media!Closed, Media!partVars
  <2>2. held \in SUBSET Uploads /\ held' = held \ held
    BY <2>1 DEF PoolInv, PoolShaped
  <2>3. PoolShaped' /\ open' = open \ held
    BY <2>1, <2>2, PoolReleases
  <2>4. \A u \in Uploads : stage[u] \notin Media!Busy
    BY <2>1 DEF Media!Tasks
  <2>5. open' = {}
    BY <2>3, <2>4 DEF PoolInv, PoolShaped, OpenTrue, Media!Busy
  <2>6. OpenTrue'
    BY <2>1, <2>4, <2>5 DEF OpenTrue
  <2>7. SlotsTrue'
    BY <2>1, SlotsStay
  <2> QED BY <2>3, <2>6, <2>7
<1> QED BY <1>2, <1>3


LEMMA PoolTicketed ==
    ASSUME PoolInv, NEW u \in Uploads, Media!Ticketed(u)
    PROVE  PoolShaped' /\ OpenTrue' /\ SlotsTrue'
<1>1. /\ stage[u] = "asking" /\ stage' = [stage EXCEPT ![u] = "parts"]
      /\ part' = [part EXCEPT ![u] = [i \in Media!Parts |-> "todo"]]
      /\ UNCHANGED <<size, open, held, used, free, closed, shut>>
  BY DEF Media!Ticketed, Media!Is, Media!To, Media!blobVars
<1>2. /\ stage \in [Uploads -> Media!Busy \cup {"idle", "ready", "sent", "failed"}]
      /\ part \in [Uploads -> [Media!Parts -> PartStates]]
  BY DEF PoolInv, MediaInv, MediaShaped
<1>3. /\ \A v \in Uploads : v # u => stage'[v] = stage[v] /\ part'[v] = part[v]
      /\ \A i \in Media!Parts : part'[u][i] = "todo" /\ part[u][i] # "put"
  BY <1>1, <1>2 DEF PoolInv, SlotsTrue
<1>4. \A v \in Uploads :
         /\ stage'[v] \in Media!Busy => stage[v] \in Media!Busy \/ v \in open
         /\ stage'[v] = "ready" /\ ~shut' => v \in open
         /\ stage'[v] \in {"idle", "loading"} => stage'[v] = stage[v]
         /\ stage[v] = "loading" => stage'[v] = "loading"
  BY <1>1, <1>2 DEF PoolInv, OpenTrue, Media!Busy
<1>5. PoolShaped' /\ OpenTrue'
  BY <1>1, <1>4, PoolStays DEF PoolInv, OpenTrue
<1>6. \A v \in Uploads, i \in Media!Parts : part'[v][i] = "put" <=> part[v][i] = "put"
  BY <1>3
<1>7. Puts' = Puts
  BY <1>6 DEF Puts
<1>8. SlotsTrue'
  BY <1>1, <1>3, <1>6, <1>7 DEF PoolInv, SlotsTrue
<1> QED BY <1>5, <1>8

\* A worker's step: a PUT takes a slot, and its end gives the slot back.
LEMMA SlotsMove ==
    ASSUME PoolInv, NEW u \in Uploads, NEW i \in Media!Parts, NEW s,
           part' = [part EXCEPT ![u][i] = s],
           s = "put" => part[u][i] # "put" /\ free > 0 /\ free' = free - 1,
           s # "put" => free' = IF part[u][i] = "put" THEN free + 1 ELSE free,
           \A v \in Uploads : stage[v] \in {"parts", "failing"} => stage'[v] \in {"parts", "failing"},
           stage[u] \in {"parts", "failing"}
    PROVE  SlotsTrue'
<1>1. /\ part \in [Uploads -> [Media!Parts -> PartStates]]
      /\ free \in 0..Slots /\ free = Slots - Cardinality(Puts)
  BY DEF PoolInv, MediaInv, MediaShaped, SlotsTrue
<1>2. /\ part'[u][i] = s
      /\ \A v \in Uploads, j \in Media!Parts : <<v, j>> # <<u, i>> => part'[v][j] = part[v][j]
  BY <1>1
<1>3. IsFiniteSet(Puts) /\ Cardinality(Puts) \in Nat /\ Slots \in Nat
  BY PoolIsFinite, FS_CardinalityType, MediaAssumption
<1>4. <<u, i>> \in Puts <=> part[u][i] = "put"
  BY DEF Puts
<1>5. free' \in 0..Slots /\ free' = Slots - Cardinality(Puts')
  <2>1. CASE s = "put"
    <3>1. Puts' = Puts \cup {<<u, i>>}
      BY <1>2, <2>1 DEF Puts
    <3>2. Cardinality(Puts \cup {<<u, i>>})
            = IF <<u, i>> \in Puts THEN Cardinality(Puts) ELSE Cardinality(Puts) + 1
      BY <1>3, FS_AddElement
    <3> QED BY <1>1, <1>3, <1>4, <2>1, <3>1, <3>2
  <2>2. CASE s # "put"
    <3>1. Puts' = Puts \ {<<u, i>>}
      BY <1>2, <2>2 DEF Puts
    <3>2. Cardinality(Puts \ {<<u, i>>})
            = IF <<u, i>> \in Puts THEN Cardinality(Puts) - 1 ELSE Cardinality(Puts)
      BY <1>3, FS_RemoveElement
    <3>3. IsFiniteSet(Puts \ {<<u, i>>})
      BY <1>3, FS_RemoveElement
    <3>4. Cardinality(Puts \ {<<u, i>>}) \in Nat
      BY <3>3, FS_CardinalityType
    <3> QED BY <1>1, <1>3, <1>4, <2>2, <3>1, <3>2, <3>4
  <2> QED BY <2>1, <2>2
<1>6. \A v \in Uploads, j \in Media!Parts : part'[v][j] = "put" => stage'[v] \in {"parts", "failing"}
  <2> SUFFICES ASSUME NEW v \in Uploads, NEW j \in Media!Parts, part'[v][j] = "put"
               PROVE  stage[v] \in {"parts", "failing"}
    OBVIOUS
  <2>1. CASE <<v, j>> = <<u, i>>
    BY <2>1
  <2>2. CASE <<v, j>> # <<u, i>>
    BY <1>2, <2>2 DEF PoolInv, SlotsTrue
  <2> QED BY <2>1, <2>2
<1> QED BY <1>5, <1>6 DEF SlotsTrue

LEMMA PoolWorks ==
    ASSUME PoolInv, NEW u \in Uploads, NEW i \in Media!Parts,
           \/ Media!TakePart(u, i) \/ Media!Put(u, i) \/ Media!Stored(u, i) \/ Media!PutDone(u, i)
           \/ Media!PutRetries(u, i) \/ Media!PutAgain(u, i) \/ Media!PartFails(u, i)
           \/ Media!PartCancelled(u, i) \/ Media!PartAcked(u, i)
    PROVE  PoolShaped' /\ OpenTrue' /\ SlotsTrue'
<1>1. UNCHANGED <<size, open, held, used, closed, shut>>
  BY DEF Media!TakePart, Media!Put, Media!Stored, Media!PutDone, Media!PutRetries, Media!PutAgain,
         Media!PartFails, Media!PartCancelled, Media!PartAcked, Media!blobVars
<1>2. stage \in [Uploads -> Media!Busy \cup {"idle", "ready", "sent", "failed"}]
  BY DEF PoolInv, MediaInv, MediaShaped
<1>3. \/ stage' = stage
      \/ stage[u] = "parts" /\ stage' = [stage EXCEPT ![u] = "failing"]
  BY DEF Media!TakePart, Media!Put, Media!Stored, Media!PutDone, Media!PutRetries, Media!PutAgain,
         Media!PartFails, Media!PartCancelled, Media!PartAcked, Media!Is, Media!To
<1>4. \A v \in Uploads :
         /\ stage'[v] \in Media!Busy => stage[v] \in Media!Busy \/ v \in open
         /\ stage'[v] = "ready" /\ ~shut' => v \in open
         /\ stage'[v] \in {"idle", "loading"} => stage'[v] = stage[v]
         /\ stage[v] = "loading" => stage'[v] = "loading"
         /\ stage[v] \in {"parts", "failing"} => stage'[v] \in {"parts", "failing"}
  BY <1>1, <1>2, <1>3 DEF PoolInv, OpenTrue, Media!Busy
<1>5. PoolShaped' /\ OpenTrue'
  BY <1>1, <1>4, PoolStays DEF PoolInv, OpenTrue
<1>6. CASE Media!Stored(u, i)
  <2>1. UNCHANGED <<part, free>>
    BY <1>6 DEF Media!Stored
  <2> QED BY <1>4, <1>5, <2>1, SlotsStay
<1>7. CASE ~ Media!Stored(u, i)
  <2>1. /\ stage[u] \in {"parts", "failing"}
        /\ \E s : /\ part' = [part EXCEPT ![u][i] = s]
                  /\ s = "put" => part[u][i] # "put" /\ free > 0 /\ free' = free - 1
                  /\ s # "put" => free' = IF part[u][i] = "put" THEN free + 1 ELSE free
    <3>1. CASE Media!TakePart(u, i)
      BY <3>1 DEF Media!TakePart, Media!Step, Media!Is
    <3>2. CASE Media!Put(u, i)
      BY <3>2 DEF Media!Put, Media!Step, Media!Is
    <3>3. CASE Media!PutDone(u, i)
      BY <3>3 DEF Media!PutDone, Media!Step, Media!Is
    <3>4. CASE Media!PutRetries(u, i)
      BY <3>4 DEF Media!PutRetries, Media!Step, Media!Is
    <3>5. CASE Media!PutAgain(u, i)
      BY <3>5 DEF Media!PutAgain, Media!Step, Media!Is
    <3>6. CASE Media!PartFails(u, i)
      BY <3>6 DEF Media!PartFails, Media!Step, Media!Is
    <3>7. CASE Media!PartCancelled(u, i)
      BY <3>7 DEF Media!PartCancelled, Media!Step, Media!Is
    <3>8. CASE Media!PartAcked(u, i)
      BY <3>8 DEF Media!PartAcked, Media!Step, Media!Is
    <3> QED BY <1>7, <3>1, <3>2, <3>3, <3>4, <3>5, <3>6, <3>7, <3>8
  <2> QED BY <1>4, <1>5, <2>1, SlotsMove
<1> QED BY <1>6, <1>7

LEMMA PoolAlways == ServicesSpec => []PoolInv
<1>1. ServicesInit => PoolShaped /\ OpenTrue /\ SlotsTrue
  <2> SUFFICES ASSUME Media!Init PROVE PoolShaped /\ OpenTrue /\ SlotsTrue
    BY DEF ServicesInit
  <2>1. /\ stage = [u \in Uploads |-> "idle"] /\ size = [u \in Uploads |-> 0] /\ open = {}
        /\ held = {} /\ used = 0 /\ free = Slots /\ shut = FALSE
        /\ part = [u \in Uploads |-> [i \in Media!Parts |-> "todo"]]
    BY DEF Media!Init
  <2>2. Total(size, open, Size) = 0
    BY <2>1, TotalOfNone, MediaAssumption
  <2>3. Puts = {} /\ Cardinality({}) = 0
    BY <2>1, FS_EmptySet DEF Puts
  <2> QED BY <2>1, <2>2, <2>3, MediaAssumption
          DEF PoolShaped, OpenTrue, SlotsTrue, Media!Busy
<1>2. MediaInv' /\ PoolInv /\ [Media!Next]_(Media!vars) => PoolInv'
  <2> SUFFICES ASSUME PoolInv, [Media!Next]_(Media!vars)
               PROVE  PoolShaped' /\ OpenTrue' /\ SlotsTrue'
    BY DEF PoolInv
  <2>1. CASE UNCHANGED Media!vars
    <3>1. UNCHANGED <<stage, size, open, held, used, part, free, closed, shut>>
      BY <2>1 DEF Media!vars, Media!blobVars, Media!partVars
    <3> QED BY <3>1 DEF PoolInv, PoolShaped, OpenTrue, SlotsTrue, Puts
  <2>2. CASE Media!Next
    BY <2>2, PoolPrepares, PoolAppends, PoolEnds, PoolLoaded, PoolTasks, PoolCloses, PoolTicketed,
       PoolWorks DEF Media!Next
  <2> QED BY <2>1, <2>2
<1> QED BY <1>1, <1>2, MediaAlways, MediaSteps, PTL DEF ServicesSpec, PoolInv

LEMMA PoolIsCounted == PoolInv => Media!TypeOK /\ Media!BytesCounted
<1> SUFFICES ASSUME PoolInv PROVE Media!TypeOK /\ Media!BytesCounted
  OBVIOUS
<1>1. Media!TypeOK
  BY DEF Media!TypeOK, PoolInv, MediaInv, MediaShaped, PoolShaped, SlotsTrue, PartStates
<1>2. used = Total(size, open, Size) /\ used \in 0..PoolBytes /\ PoolBytes \in Nat /\ Size \in Nat
  BY MediaAssumption DEF PoolInv, PoolShaped
<1>3. shut => open = {} /\ used = 0
  <2> SUFFICES ASSUME shut PROVE open = {} /\ used = 0
    OBVIOUS
  <2>1. open = {}
    BY DEF PoolInv, OpenTrue
  <2>2. Total(size, open, Size) = 0
    BY <1>2, <2>1, TotalOfNone
  <2> QED BY <1>2, <2>1, <2>2
<1>4. free = Slots - Media!Cardinality({x \in Uploads \X Media!Parts : part[x[1]][x[2]] = "put"})
  BY MediaTotals DEF PoolInv, SlotsTrue, Puts
<1>5. \A u \in Uploads : stage[u] \in Media!Busy => u \in open
  BY DEF PoolInv, OpenTrue
<1>6. used = Media!Total(size, open, Size) /\ used <= PoolBytes
  BY <1>2, MediaTotals
<1> QED BY <1>1, <1>3, <1>4, <1>5, <1>6 DEF Media!BytesCounted

-----------------------------------------------------------------------------
(* Queues whose frames come in order.                                      *)

LEMMA NetTotals ==
    /\ \A f, S, max : Net!Total(f, S, max) = Total(f, S, max)
    /\ \A S : Net!Cardinality(S) = Cardinality(S)
BY DEF Net!Total, Net!Cells, Net!Cardinality, Total, Cells, Cardinality

LEMMA RisesWithLast ==
    ASSUME NEW q \in Seq(Nat), NEW f \in Nat, Net!Rising(q),
           \A x \in Net!Range(q) : f # 0 /\ x # 0 => x < f
    PROVE  /\ Append(q, f) \in Seq(Nat) /\ Net!Rising(Append(q, f))
           /\ Net!Range(Append(q, f)) = Net!Range(q) \cup {f}
<1> DEFINE r == Append(q, f)
<1>1. /\ r \in Seq(Nat) /\ Len(r) = Len(q) + 1 /\ r[Len(q) + 1] = f
      /\ \A i \in 1..Len(q) : r[i] = q[i]
  BY AppendProperties
<1>2. Len(q) \in Nat /\ DOMAIN q = 1..Len(q) /\ DOMAIN r = 1..(Len(q) + 1)
  BY <1>1, LenProperties
<1>3. \A i \in 1..Len(q) : q[i] \in Nat /\ q[i] \in Net!Range(q)
  BY <1>2, ElementOfSeq DEF Net!Range
<1> HIDE DEF r
<1>4. Net!Rising(r)
  <2> SUFFICES ASSUME NEW i \in DOMAIN r, NEW j \in DOMAIN r, i < j, r[i] # 0, r[j] # 0
               PROVE  r[i] < r[j]
    BY DEF Net!Rising
  <2>1. i \in 1..Len(q)
    BY <1>2
  <2>2. CASE j \in 1..Len(q)
    BY <1>1, <1>2, <2>1, <2>2 DEF Net!Rising
  <2>3. CASE j = Len(q) + 1
    BY <1>1, <1>3, <2>1, <2>3
  <2> QED BY <1>2, <2>2, <2>3
<1>5. Net!Range(r) = Net!Range(q) \cup {f}
  <2>1. Net!Range(r) \subseteq Net!Range(q) \cup {f}
    <3> SUFFICES ASSUME NEW i \in DOMAIN r PROVE r[i] \in Net!Range(q) \cup {f}
      BY DEF Net!Range
    <3> QED BY SMTT(30), <1>1, <1>2, <1>3
  <2>2. f \in Net!Range(r)
    BY <1>1, <1>2 DEF Net!Range
  <2>3. ASSUME NEW i \in DOMAIN q PROVE q[i] \in Net!Range(r)
    <3>1. i \in DOMAIN r /\ r[i] = q[i]
      BY <1>1, <1>2
    <3> QED BY <3>1 DEF Net!Range
  <2> QED BY <2>1, <2>2, <2>3 DEF Net!Range
<1> QED BY <1>1, <1>4, <1>5 DEF r

LEMMA RisesAfterFirst ==
    ASSUME NEW f \in Nat, NEW q \in Seq(Nat), Net!Rising(<<f>> \o q)
    PROVE  /\ Net!Rising(q) /\ Net!Range(<<f>> \o q) = {f} \cup Net!Range(q)
           /\ \A x \in Net!Range(q) : f # 0 /\ x # 0 => f < x
<1> DEFINE r == <<f>> \o q
<1>1. <<f>> \in Seq(Nat) /\ Len(<<f>>) = 1 /\ <<f>>[1] = f
  OBVIOUS
<1>2. /\ r \in Seq(Nat) /\ Len(r) = 1 + Len(q) /\ Len(q) \in Nat
      /\ \A i \in 1..(1 + Len(q)) : r[i] = IF i <= 1 THEN <<f>>[i] ELSE q[i - 1]
  BY <1>1, ConcatProperties, LenProperties
<1>3. DOMAIN q = 1..Len(q) /\ DOMAIN r = 1..(1 + Len(q)) /\ r[1] = f
  BY <1>1, <1>2, LenProperties
<1> HIDE DEF r
<1>4. \A i \in DOMAIN q : i + 1 \in DOMAIN r /\ r[i + 1] = q[i] /\ q[i] \in Nat
  <2> SUFFICES ASSUME NEW i \in DOMAIN q
               PROVE  i + 1 \in DOMAIN r /\ r[i + 1] = q[i] /\ q[i] \in Nat
    OBVIOUS
  <2>1. i \in 1..Len(q) /\ i + 1 \in 1..(1 + Len(q)) /\ ~ (i + 1 <= 1) /\ (i + 1) - 1 = i
    BY SMTT(30), <1>2, <1>3
  <2> QED BY <1>2, <1>3, <2>1, ElementOfSeq
<1>5. Net!Rising(q)
  <2> SUFFICES ASSUME NEW i \in DOMAIN q, NEW j \in DOMAIN q, i < j, q[i] # 0, q[j] # 0
               PROVE  q[i] < q[j]
    BY DEF Net!Rising
  <2>1. i + 1 < j + 1
    BY <1>2, <1>3
  <2> QED BY <1>4, <2>1 DEF Net!Rising, r
<1>6. \A i \in DOMAIN q : f # 0 /\ q[i] # 0 => f < q[i]
  <2> SUFFICES ASSUME NEW i \in DOMAIN q, f # 0, q[i] # 0 PROVE f < q[i]
    OBVIOUS
  <2>1. 1 \in DOMAIN r /\ 1 < i + 1
    BY <1>2, <1>3
  <2> QED BY <1>3, <1>4, <2>1 DEF Net!Rising, r
<1>7. Net!Range(r) = {f} \cup Net!Range(q)
  <2>1. \A i \in DOMAIN r : i = 1 \/ (i - 1 \in DOMAIN q /\ r[i] = q[i - 1])
    BY <1>2, <1>3
  <2>2. Net!Range(r) \subseteq {f} \cup Net!Range(q)
    BY <1>3, <2>1 DEF Net!Range
  <2>3. f \in Net!Range(r)
    <3>1. 1 \in DOMAIN r /\ r[1] = f
      BY <1>2, <1>3
    <3> QED BY <3>1, Zenon DEF Net!Range
  <2>4. Net!Range(q) \subseteq Net!Range(r)
    BY <1>4 DEF Net!Range
  <2> QED BY <2>2, <2>3, <2>4
<1> QED BY <1>5, <1>6, <1>7 DEF r, Net!Range

-----------------------------------------------------------------------------
(* The OneBot listener's peers.                                            *)

LEMMA NetSteps == [ServicesNext]_allVars => [Net!Next]_(Net!vars)
<1>1. UNCHANGED netVars => UNCHANGED Net!vars
  BY DEF netVars, Net!vars, Net!queues
<1> QED BY <1>1
      DEF ServicesNext, LedgerStep, BusStep, StreamStep, FenceStep, MediaStep, NetStep,
          SettingsStep, PanelStep, JoinStep, GroupStep, allVars

PeerPlaces == {"out", "prepare", "open", "ending", "closing", "gone"}
NetShaped ==
    /\ where \in [Peers -> PeerPlaces]
    /\ queue \in [Peers -> Seq(Nat)] /\ hand \in [Peers -> Seq(Nat)] /\ got \in [Peers -> Seq(Nat)]
    /\ writer \subseteq Peers /\ failure \subseteq Peers /\ action \subseteq Peers
    /\ joined \in [Peers -> Nat] /\ events \in 0..NetEvents

\* The counters are what is queued and in the writers' hands.
NetCounted ==
    /\ bytes \in [Peers -> 0..(QueueFrames + 1)] /\ queuedBytes \in 0..NetBytes
    /\ queuedBytes = Total(bytes, Peers, QueueFrames + 1)
    /\ \A p \in Peers : /\ bytes[p] = Len(queue[p]) + Len(hand[p])
                        /\ Len(queue[p]) <= QueueFrames /\ Len(hand[p]) <= 1

\* What a connection has at each stage of its life.
NetStages ==
    \A p \in Peers :
        /\ where[p] \in {"out", "closing", "gone"} => bytes[p] = 0
        /\ where[p] \notin {"open", "ending"} => p \notin writer /\ p \notin action
        /\ where[p] = "open" => p \in writer \/ p \in failure
        /\ p \notin writer => Len(hand[p]) = 0
        /\ where[p] \in {"out", "prepare"} => Len(got[p]) = 0
        /\ where[p] = "closing" => p \in failure

\* The events a peer has not received are all on their way to it.
Pending(p) ==
    LET last == joined[p] + Len(got[p])
        coming == hand[p] \o queue[p]
    IN  Net!Rising(coming) /\ Net!Range(coming) \ {0} = (last + 1)..events
Reached(p) ==
    p \notin failure /\ (where[p] = "prepare" \/ (where[p] \in {"open", "ending"} /\ p \in writer))
Received ==
    \A p \in Subscribers :
        /\ got[p] = [i \in 1..Len(got[p]) |-> joined[p] + i]
        /\ joined[p] + Len(got[p]) <= events
        /\ Reached(p) => Pending(p)

NetInv == NetShaped /\ NetCounted /\ NetStages /\ Received

\* A peer of P has room and queues the frame, or it fails.
LEMMA PutOffers ==
    ASSUME NetInv, NEW P \in SUBSET Peers, NEW f \in Nat, Net!Put(P, f), hand' = hand
    PROVE  /\ queue' \in [Peers -> Seq(Nat)] /\ failure' \subseteq Peers /\ NetCounted'
           /\ failure \subseteq failure'
           /\ \A p \in Peers : queue'[p] = queue[p] \/ queue'[p] = Append(queue[p], f)
           /\ \A p \in P : p \notin failure' => queue'[p] = Append(queue[p], f)
           /\ \A p \in Peers : p \notin P \/ p \in failure
                 => queue'[p] = queue[p] /\ bytes'[p] = bytes[p]
<1> DEFINE fit == {p \in P \ failure : ~ Net!Full(p)}
           room == NetBytes - queuedBytes
<1>1. PICK Q \in SUBSET fit :
         /\ Cardinality(Q) = IF Cardinality(fit) <= room THEN Cardinality(fit) ELSE room
         /\ queue' = [p \in Peers |-> IF p \in Q THEN Append(queue[p], f) ELSE queue[p]]
         /\ bytes' = [p \in Peers |-> IF p \in Q THEN bytes[p] + 1 ELSE bytes[p]]
         /\ queuedBytes' = queuedBytes + Cardinality(Q)
         /\ failure' = failure \cup ((P \ failure) \ Q)
  BY NetTotals DEF Net!Put
<1>2. /\ queue \in [Peers -> Seq(Nat)] /\ failure \subseteq Peers
      /\ bytes \in [Peers -> 0..(QueueFrames + 1)] /\ queuedBytes \in 0..NetBytes
      /\ queuedBytes = Total(bytes, Peers, QueueFrames + 1)
      /\ \A p \in Peers : /\ bytes[p] = Len(queue[p]) + Len(hand[p])
                          /\ Len(queue[p]) <= QueueFrames /\ Len(hand[p]) <= 1
      /\ \A p \in Peers : Len(hand[p]) \in Nat /\ Len(queue[p]) \in Nat
  BY LenProperties DEF NetInv, NetShaped, NetCounted
<1>3. IsFiniteSet(Peers) /\ QueueFrames \in Nat /\ NetBytes \in Nat /\ QueueFrames + 1 \in Nat
  BY PeersAssumption
<1>4. \A p \in Q : Len(queue[p]) < QueueFrames /\ p \in Peers /\ p \in P /\ p \notin failure
  BY <1>1, <1>2, <1>3 DEF Net!Full
<1>5. fit \in SUBSET Peers
  OBVIOUS
<1>6. IsFiniteSet(fit) /\ Cardinality(fit) \in Nat
  BY <1>3, <1>5, FS_Subset, FS_CardinalityType
<1>7. Q \in SUBSET Peers
  BY <1>1, <1>5
<1>8. IsFiniteSet(Q) /\ Cardinality(Q) \in Nat
  BY <1>3, <1>7, FS_Subset, FS_CardinalityType
<1>9. Cardinality(Q) <= room
  <2>1. room \in Int
    BY <1>2, <1>3
  <2>2. Cardinality(Q) = IF Cardinality(fit) <= room THEN Cardinality(fit) ELSE room
    BY <1>1
  <2> HIDE DEF fit, room
  <2> QED BY <1>6, <2>1, <2>2
<1>10. queuedBytes' \in 0..NetBytes
  BY <1>1, <1>2, <1>3, <1>8, <1>9
<1> HIDE DEF fit, room
<1>11. \A p \in Peers : queue'[p] = (IF p \in Q THEN Append(queue[p], f) ELSE queue[p])
                        /\ bytes'[p] = (IF p \in Q THEN bytes[p] + 1 ELSE bytes[p])
  BY <1>1
<1>12. \A p \in Peers : Append(queue[p], f) \in Seq(Nat)
                        /\ Len(Append(queue[p], f)) = Len(queue[p]) + 1
  BY <1>2, AppendProperties
<1>13. /\ queue' \in [Peers -> Seq(Nat)]
       /\ \A p \in Peers : /\ bytes'[p] \in 0..(QueueFrames + 1)
                           /\ bytes'[p] = Len(queue'[p]) + Len(hand'[p])
                           /\ Len(queue'[p]) <= QueueFrames /\ Len(hand'[p]) <= 1
  <2>1. queue' \in [Peers -> Seq(Nat)]
    BY <1>1, <1>2, <1>12
  <2>2. ASSUME NEW p \in Peers
        PROVE  /\ bytes'[p] \in 0..(QueueFrames + 1)
               /\ bytes'[p] = Len(queue'[p]) + Len(hand'[p])
               /\ Len(queue'[p]) <= QueueFrames /\ Len(hand'[p]) <= 1
    <3>1. hand'[p] = hand[p]
      OBVIOUS
    <3>2. CASE p \in Q
      <4>1. /\ queue'[p] = Append(queue[p], f) /\ bytes'[p] = bytes[p] + 1
            /\ Len(queue'[p]) = Len(queue[p]) + 1 /\ Len(queue[p]) < QueueFrames
        BY <1>4, <1>11, <1>12, <3>2
      <4>2. /\ bytes[p] = Len(queue[p]) + Len(hand[p]) /\ Len(hand[p]) <= 1
            /\ Len(hand[p]) \in Nat /\ Len(queue[p]) \in Nat
        BY <1>2
      <4>3. bytes'[p] = Len(queue'[p]) + Len(hand[p]) /\ bytes'[p] \in 0..(QueueFrames + 1)
        <5>1. \A a, b \in Nat : a < QueueFrames /\ b <= 1
                 => (a + b) + 1 = (a + 1) + b /\ (a + b) + 1 \in 0..(QueueFrames + 1)
          BY <1>3
        <5>2. bytes'[p] = (Len(queue[p]) + Len(hand[p])) + 1
          BY <4>1, <4>2, Zenon
        <5>3. Len(queue[p]) < QueueFrames /\ Len(queue'[p]) = Len(queue[p]) + 1
          BY <4>1
        <5> QED BY <4>2, <5>1, <5>2, <5>3, Zenon
      <4>4. Len(queue'[p]) <= QueueFrames
        BY <1>3, <4>1, <4>2
      <4> QED BY <3>1, <4>2, <4>3, <4>4
    <3>3. CASE p \notin Q
      BY <1>2, <1>3, <1>11, <3>1, <3>3
    <3> QED BY <3>2, <3>3
  <2> QED BY <2>1, <2>2
<1>14. bytes' \in [Peers -> 0..(QueueFrames + 1)]
  BY <1>1, <1>13
<1>15. \A p \in Peers : bytes[p] \in 0..(QueueFrames + 1)
  BY <1>2
<1>16. Total(bytes', Peers, QueueFrames + 1) = Total(bytes, Peers, QueueFrames + 1) + Cardinality(Q)
  <2>1. \A p \in Peers : bytes[p] \in 0..(QueueFrames + 1) /\ bytes'[p] \in 0..(QueueFrames + 1)
    BY <1>13, <1>15
  <2>2. \A p \in Peers : bytes'[p] = IF p \in Q THEN bytes[p] + 1 ELSE bytes[p]
    BY <1>11
  <2> DEFINE M == QueueFrames + 1
  <2>3. M \in Nat /\ \A p \in Peers : bytes[p] \in 0..M /\ bytes'[p] \in 0..M
    BY <1>3, <2>1
  <2> HIDE DEF M
  <2>4. Total(bytes', Peers, M) = Total(bytes, Peers, M) + Cardinality(Q)
    BY <1>3, <1>7, <2>2, <2>3, TotalGrows
  <2> QED BY <2>4 DEF M
<1>17. NetCounted'
  BY <1>1, <1>2, <1>10, <1>13, <1>14, <1>16 DEF NetCounted
<1> QED BY <1>1, <1>2, <1>4, <1>11, <1>13, <1>17


LEMMA CountsStay ==
    ASSUME NetCounted, UNCHANGED <<queue, hand, bytes, queuedBytes>> PROVE NetCounted'
BY DEF NetCounted

LEMMA ReceivedStays ==
    ASSUME Received, UNCHANGED <<queue, hand, got, joined, events>>,
           \A p \in Subscribers : Reached(p)' => Reached(p)
    PROVE  Received'
BY DEF Received, Pending

LEMMA ComingIsSeq ==
    ASSUME NetInv, NEW p \in Peers
    PROVE  /\ hand[p] \in Seq(Nat) /\ queue[p] \in Seq(Nat) /\ hand[p] \o queue[p] \in Seq(Nat)
           /\ joined[p] \in Nat /\ Len(got[p]) \in Nat /\ got[p] \in Seq(Nat) /\ events \in Nat
           /\ Len(queue[p]) \in Nat /\ Len(hand[p]) \in Nat
BY ConcatProperties, LenProperties, PeersAssumption DEF NetInv, NetShaped

LEMMA AppendBehind ==
    ASSUME NEW a \in Seq(Nat), NEW b \in Seq(Nat), NEW f \in Nat
    PROVE  a \o Append(b, f) = Append(a \o b, f)
<1>1. <<f>> \in Seq(Nat)
  OBVIOUS
<1>2. (a \o b) \o <<f>> = a \o (b \o <<f>>)
  BY SMTT(30), <1>1, ConcatAssociative
<1>3. a \o b \in Seq(Nat)
  BY ConcatProperties
<1>4. Append(b, f) = b \o <<f>> /\ Append(a \o b, f) = (a \o b) \o <<f>>
  BY <1>3, AppendIsConcat
<1> QED BY <1>2, <1>4

\* A frame behind those on their way: a reply, or the event that is published.
LEMMA PendingGrows ==
    ASSUME NetInv, NEW p \in Peers, NEW f \in Nat, Pending(p),
           UNCHANGED <<hand, got, joined>>, joined[p] + Len(got[p]) <= events,
           \/ f = 0 /\ events' = events /\ queue'[p] \in {queue[p], Append(queue[p], f)}
           \/ f = events + 1 /\ events' = events + 1 /\ queue'[p] = Append(queue[p], f)
    PROVE  Pending(p)'
<1> DEFINE coming == hand[p] \o queue[p]
           last == joined[p] + Len(got[p])
<1>1. /\ hand[p] \in Seq(Nat) /\ queue[p] \in Seq(Nat) /\ coming \in Seq(Nat)
      /\ last \in Nat /\ events \in Nat
  BY ComingIsSeq
<1>2. CASE queue'[p] = queue[p]
  <2>1. f = 0 /\ events' = events
    <3>1. Len(Append(queue[p], f)) = Len(queue[p]) + 1 /\ Len(queue[p]) \in Nat
      BY <1>1, AppendProperties, LenProperties
    <3> QED BY <1>2, <3>1
  <2> QED BY <1>2, <2>1 DEF Pending
<1>3. CASE queue'[p] = Append(queue[p], f)
  <2>1. hand[p] \o Append(queue[p], f) = Append(coming, f)
    BY <1>1, AppendBehind
  <2>2. Net!Rising(coming) /\ Net!Range(coming) \ {0} = (last + 1)..events
    BY DEF Pending
  <2> HIDE DEF coming, last
  <2>3. \A x \in Net!Range(coming) : f # 0 /\ x # 0 => x < f
    BY <1>1, <2>2
  <2>4. Net!Rising(Append(coming, f)) /\ Net!Range(Append(coming, f)) = Net!Range(coming) \cup {f}
    BY <1>1, <2>2, <2>3, RisesWithLast
  <2>5. Net!Range(Append(coming, f)) \ {0} = (last + 1)..events'
    <3>1. CASE f = 0
      <4>1. events' = events
        BY <1>1, <3>1
      <4> QED BY <2>2, <2>4, <3>1, <4>1
    <3>2. CASE f = events + 1
      <4>1. (last + 1)..(events + 1) = ((last + 1)..events) \cup {events + 1}
        BY <1>1 DEF last
      <4>2. events' = events + 1 /\ f # 0
        BY <1>1, <3>2
      <4> QED BY <2>2, <2>4, <3>2, <4>1, <4>2
    <3> QED BY <3>1, <3>2
  <2>6. (hand[p] \o queue[p])' = Append(coming, f) /\ (joined[p] + Len(got[p]))' = last
    BY <1>3, <2>1 DEF last
  <2> QED BY <2>4, <2>5, <2>6 DEF Pending
<1> QED BY <1>2, <1>3

\* A frame for some peers, which are being prepared, open or ending unless they failed.
LEMMA PutReaches ==
    ASSUME NetInv, NEW P \in SUBSET Peers, NEW f \in Nat, Net!Put(P, f),
           UNCHANGED <<hand, got, joined>>,
           \/ f = 0 /\ events' = events
           \/ f = events + 1 /\ events' = events + 1 /\ \A p \in Subscribers : Reached(p) => p \in P,
           \A p \in Subscribers : Reached(p)' => Reached(p)
    PROVE  Received'
<1> SUFFICES ASSUME NEW p \in Subscribers
             PROVE  /\ got[p] = [i \in 1..Len(got[p]) |-> joined[p] + i]
                    /\ joined[p] + Len(got[p]) <= events'
                    /\ Reached(p)' => Pending(p)'
  BY DEF Received
<1>1. p \in Peers
  BY PeersAssumption
<1>2. /\ got[p] = [i \in 1..Len(got[p]) |-> joined[p] + i]
      /\ joined[p] + Len(got[p]) <= events /\ (Reached(p) => Pending(p))
  BY DEF NetInv, Received
<1>3. joined[p] + Len(got[p]) <= events'
  BY <1>1, <1>2, ComingIsSeq
<1>4. ASSUME Reached(p)' PROVE Pending(p)'
  <2>1. Reached(p) /\ p \notin failure'
    BY <1>4 DEF Reached
  <2>2. /\ queue'[p] \in {queue[p], Append(queue[p], f)}
        /\ p \in P => queue'[p] = Append(queue[p], f)
    BY <1>1, <2>1, PutOffers
  <2> QED BY <1>1, <1>2, <2>1, <2>2, PendingGrows
<1> QED BY <1>2, <1>3, <1>4

-----------------------------------------------------------------------------
LEMMA NetJoins ==
    ASSUME NetInv, NEW p \in Peers, Net!Join(p) PROVE NetInv'
<1>1. /\ where[p] = "out" /\ where' = [where EXCEPT ![p] = "prepare"]
      /\ joined' = [joined EXCEPT ![p] = events]
      /\ UNCHANGED <<queue, hand, bytes, queuedBytes, writer, failure, action, events, got>>
  BY DEF Net!Join, Net!queues
<1>2. NetShaped'
  BY <1>1, ComingIsSeq DEF NetInv, NetShaped, PeerPlaces
<1>3. NetCounted'
  BY <1>1, CountsStay DEF NetInv
<1>4. NetStages'
  BY <1>1 DEF NetInv, NetShaped, NetStages
<1>5. Received'
  <2> SUFFICES ASSUME NEW q \in Subscribers
               PROVE  /\ got[q] = [i \in 1..Len(got[q]) |-> joined'[q] + i]
                      /\ joined'[q] + Len(got[q]) <= events
                      /\ Reached(q)' => Pending(q)'
    BY <1>1 DEF Received
  <2>1. q \in Peers
    BY PeersAssumption
  <2>2. CASE q = p
    <3>1. Len(got[q]) = 0 /\ bytes[q] = 0 /\ joined'[q] = events /\ events \in Nat
      BY <1>1, <2>2, ComingIsSeq DEF NetInv, NetShaped, NetStages
    <3>2. Len(queue[q]) = 0 /\ Len(hand[q]) = 0
      <4>1. bytes[q] = Len(queue[q]) + Len(hand[q])
        BY <2>1 DEF NetInv, NetCounted
      <4>2. Len(queue[q]) \in Nat /\ Len(hand[q]) \in Nat
        BY <2>1, ComingIsSeq
      <4>3. \A a, b \in Nat : a + b = 0 => a = 0 /\ b = 0
        OBVIOUS
      <4>4. Len(queue[q]) + Len(hand[q]) = 0
        BY <3>1, <4>1, <2>2
      <4> QED BY <4>2, <4>3, <4>4, Zenon
    <3>3. got[q] = << >> /\ queue[q] = << >> /\ hand[q] = << >>
      BY <2>1, <3>1, <3>2, ComingIsSeq, EmptySeq
    <3>4. hand[q] \o queue[q] = << >>
      BY <3>3, EmptySeq, ConcatEmptySeq
    <3>5. Net!Rising(<< >>) /\ Net!Range(<< >>) = {}
      BY DEF Net!Rising, Net!Range
    <3>6. (events + 0 + 1)..events = {}
      BY <3>1
    <3>7. Pending(q)'
      BY <1>1, <3>1, <3>4, <3>5, <3>6 DEF Pending
    <3> QED BY <3>1, <3>3, <3>7
  <2>3. CASE q # p
    <3>1. joined'[q] = joined[q] /\ where'[q] = where[q]
      BY <1>1, <2>1, <2>3 DEF NetInv, NetShaped
    <3> QED BY <1>1, <3>1 DEF NetInv, Received, Reached, Pending
  <2> QED BY <2>2, <2>3
<1> QED BY <1>2, <1>3, <1>4, <1>5 DEF NetInv

LEMMA NetPasses ==
    ASSUME NetInv, NEW p \in Peers,
           \/ Net!PrepareFails(p) \/ Net!Ends(p) \/ Net!ActionCancelled(p) \/ Net!Gone(p)
    PROVE  NetInv'
<1>1. UNCHANGED <<queue, hand, bytes, queuedBytes, writer, failure, events, joined, got>>
  BY DEF Net!PrepareFails, Net!Ends, Net!ActionCancelled, Net!Gone, Net!queues
<1>2. \/ where[p] = "prepare" /\ where' = [where EXCEPT ![p] = "ending"] /\ action' = action
      \/ where[p] = "open" /\ where' = [where EXCEPT ![p] = "ending"] /\ action' = action
      \/ where[p] = "ending" /\ where' = where /\ action' = action \ {p}
      \/ where[p] = "closing" /\ where' = [where EXCEPT ![p] = "gone"] /\ action' = action
  BY DEF Net!PrepareFails, Net!Ends, Net!ActionCancelled, Net!Gone
<1>3. NetShaped'
  BY <1>1, <1>2 DEF NetInv, NetShaped, PeerPlaces
<1>4. NetCounted'
  BY <1>1, CountsStay DEF NetInv
<1>5. NetStages'
  BY <1>1, <1>2 DEF NetInv, NetShaped, NetStages
<1>6. \A q \in Peers : Reached(q)' => Reached(q)
  BY <1>1, <1>2 DEF NetInv, NetShaped, NetStages, Reached
<1>7. Received'
  BY <1>1, <1>6, ReceivedStays, PeersAssumption DEF NetInv
<1> QED BY <1>3, <1>4, <1>5, <1>7 DEF NetInv

LEMMA NetRevoked == ASSUME NetInv, Net!Revoke PROVE NetInv'
<1>1. /\ failure' = failure \cup Net!Present /\ Net!Present \subseteq Peers
      /\ UNCHANGED <<where, queue, hand, bytes, queuedBytes, writer, action, events, joined, got>>
  BY DEF Net!Revoke, Net!queues, Net!Present
<1>2. NetShaped' /\ NetStages'
  BY <1>1 DEF NetInv, NetShaped, NetStages
<1>3. NetCounted'
  BY <1>1, CountsStay DEF NetInv
<1>4. \A q \in Peers : Reached(q)' => Reached(q)
  BY <1>1 DEF Reached
<1>5. Received'
  BY <1>1, <1>4, ReceivedStays, PeersAssumption DEF NetInv
<1> QED BY <1>2, <1>3, <1>5 DEF NetInv


\* What a Put leaves of the stages: it reaches no peer that is out, cleared or gone.
LEMMA PutStages ==
    ASSUME NetInv, NEW P \in SUBSET Peers, NEW f \in Nat, Net!Put(P, f), hand' = hand, got' = got,
           \A p \in P : where[p] \in {"prepare", "open", "ending"} \/ p \in failure,
           \A p \in Peers : /\ where'[p] = where[p] \/ (where[p] = "prepare" /\ where'[p] = "open"
                                                          /\ p \in writer')
                            /\ where'[p] \notin {"open", "ending"} => p \notin action',
           \A p \in Peers : p \in writer' => p \in writer \/ where'[p] = "open",
           writer \subseteq writer'
    PROVE  NetStages'
<1> SUFFICES ASSUME NEW p \in Peers
             PROVE  /\ where'[p] \in {"out", "closing", "gone"} => bytes'[p] = 0
                    /\ where'[p] \notin {"open", "ending"} => p \notin writer' /\ p \notin action'
                    /\ where'[p] = "open" => p \in writer' \/ p \in failure'
                    /\ p \notin writer' => Len(hand[p]) = 0
                    /\ where'[p] \in {"out", "prepare"} => Len(got[p]) = 0
                    /\ where'[p] = "closing" => p \in failure'
  BY DEF NetStages
<1>1. /\ where[p] \in {"out", "closing", "gone"} => bytes[p] = 0
      /\ where[p] \notin {"open", "ending"} => p \notin writer /\ p \notin action
      /\ where[p] = "open" => p \in writer \/ p \in failure
      /\ p \notin writer => Len(hand[p]) = 0
      /\ where[p] \in {"out", "prepare"} => Len(got[p]) = 0
      /\ where[p] = "closing" => p \in failure
  BY DEF NetInv, NetStages
<1>2. failure \subseteq failure' /\ (p \notin P \/ p \in failure => bytes'[p] = bytes[p])
  BY PutOffers
<1> QED BY <1>1, <1>2

LEMMA NetOpens == ASSUME NetInv, NEW p \in Peers, Net!Opened(p) PROVE NetInv'
<1> DEFINE P == {p} \cap Subscribers
<1>1. /\ where[p] = "prepare" /\ where' = [where EXCEPT ![p] = "open"]
      /\ writer' = writer \cup {p} /\ Net!Put(P, 0)
      /\ UNCHANGED <<hand, action, events, joined, got>>
  BY DEF Net!Opened
<1>2. P \in SUBSET Peers /\ 0 \in Nat /\ \A q \in P : q = p
  OBVIOUS
<1> HIDE DEF P
<1>3. /\ queue' \in [Peers -> Seq(Nat)] /\ failure' \subseteq Peers /\ NetCounted'
      /\ failure \subseteq failure'
  BY <1>1, <1>2, PutOffers
<1>4. where \in [Peers -> PeerPlaces] /\ p \notin action
  BY <1>1 DEF NetInv, NetShaped, NetStages
<1>5. NetShaped'
  BY <1>1, <1>3 DEF NetInv, NetShaped, PeerPlaces
<1>6. /\ \A q \in Peers : /\ where'[q] = where[q] \/ (where[q] = "prepare" /\ where'[q] = "open"
                                                       /\ q \in writer')
                          /\ where'[q] \notin {"open", "ending"} => q \notin action'
      /\ \A q \in Peers : q \in writer' => q \in writer \/ where'[q] = "open"
      /\ \A q \in Peers : Reached(q)' => Reached(q)
  BY <1>1, <1>3, <1>4 DEF NetInv, NetStages, Reached
<1>7. NetStages'
  BY <1>1, <1>2, <1>6, PutStages
<1>8. Received'
  BY <1>1, <1>2, <1>6, PutReaches, PeersAssumption
<1> QED BY <1>3, <1>5, <1>7, <1>8 DEF NetInv

LEMMA NetPublishes == ASSUME NetInv, Net!Publish PROVE NetInv'
<1> DEFINE P == Net!Present \cap Subscribers
<1>1. /\ events < NetEvents /\ events' = events + 1 /\ Net!Put(P, events + 1)
      /\ UNCHANGED <<where, hand, writer, action, joined, got>>
  BY DEF Net!Publish
<1>2. events \in 0..NetEvents /\ NetEvents \in Nat /\ events + 1 \in Nat
  BY PeersAssumption DEF NetInv, NetShaped
<1>3. /\ P \in SUBSET Peers
      /\ \A q \in P : where[q] \in {"prepare", "open", "ending"} \/ q \in failure
      /\ \A q \in Subscribers : Reached(q) => q \in P
  BY PeersAssumption DEF NetInv, NetStages, Reached, Net!Present
<1> HIDE DEF P
<1>4. /\ queue' \in [Peers -> Seq(Nat)] /\ failure' \subseteq Peers /\ NetCounted'
      /\ failure \subseteq failure'
  BY <1>1, <1>2, <1>3, PutOffers
<1>5. NetShaped'
  BY <1>1, <1>2, <1>4 DEF NetInv, NetShaped
<1>6. /\ \A q \in Peers : where'[q] \notin {"open", "ending"} => q \notin action'
      /\ \A q \in Peers : Reached(q)' => Reached(q)
  BY <1>1, <1>4 DEF NetInv, NetStages, Reached
<1>7. NetStages'
  BY <1>1, <1>2, <1>3, <1>6, PutStages
<1>8. Received'
  BY <1>1, <1>2, <1>3, <1>6, PutReaches, PeersAssumption
<1> QED BY <1>4, <1>5, <1>7, <1>8 DEF NetInv

\* Replies: the answer to an action, or that one is being executed already.
LEMMA NetReplies ==
    ASSUME NetInv, NEW p \in Peers, where[p] \in {"open", "ending"}, Net!Put({p}, 0),
           action' \subseteq action, UNCHANGED <<where, hand, writer, events, joined, got>>
    PROVE  NetInv'
<1>1. {p} \in SUBSET Peers /\ 0 \in Nat
  OBVIOUS
<1>2. /\ queue' \in [Peers -> Seq(Nat)] /\ failure' \subseteq Peers /\ NetCounted'
      /\ failure \subseteq failure'
  BY <1>1, PutOffers
<1>3. NetShaped'
  BY <1>2 DEF NetInv, NetShaped
<1>4. /\ \A q \in Peers : where'[q] \notin {"open", "ending"} => q \notin action'
      /\ \A q \in Peers : Reached(q)' => Reached(q)
  BY <1>2 DEF NetInv, NetStages, Reached
<1>5. \A q \in {p} : where[q] \in {"prepare", "open", "ending"} \/ q \in failure
  OBVIOUS
<1>6. NetStages'
  BY <1>1, <1>4, <1>5, PutStages
<1>7. Received'
  BY <1>1, <1>4, PutReaches, PeersAssumption
<1> QED BY <1>2, <1>3, <1>6, <1>7 DEF NetInv

LEMMA NetActs ==
    ASSUME NetInv, NEW p \in Peers, Net!Act(p) \/ Net!Answer(p) PROVE NetInv'
<1>1. CASE Net!Answer(p)
  <2>1. where[p] \in {"open", "ending"}
    BY <1>1 DEF Net!Answer, NetInv, NetStages
  <2> QED BY <1>1, <2>1, NetReplies DEF Net!Answer
<1>2. CASE Net!Act(p) /\ p \in action
  BY <1>2, NetReplies DEF Net!Act
<1>3. CASE Net!Act(p) /\ p \notin action
  <2>1. /\ where[p] = "open" /\ action' = action \cup {p}
        /\ UNCHANGED <<where, queue, hand, bytes, queuedBytes, writer, failure, events, joined, got>>
    BY <1>3 DEF Net!Act
  <2>2. NetShaped' /\ NetStages'
    BY <2>1 DEF NetInv, NetShaped, NetStages
  <2>3. NetCounted'
    BY <2>1, CountsStay DEF NetInv
  <2>4. Received'
    BY <2>1, ReceivedStays DEF NetInv, Reached
  <2> QED BY <2>2, <2>3, <2>4 DEF NetInv
<1> QED BY <1>1, <1>2, <1>3


\* Frames that are no longer held are counted off once.
LEMMA CountsOff ==
    ASSUME NetInv, NEW p \in Peers, NEW n \in Nat, n <= bytes[p], Net!Counted(p, n),
           \A q \in Peers \ {p} : Len(queue'[q]) = Len(queue[q]) /\ Len(hand'[q]) = Len(hand[q]),
           Len(queue'[p]) + Len(hand'[p]) = bytes[p] - n,
           Len(queue'[p]) <= QueueFrames, Len(hand'[p]) <= 1
    PROVE  NetCounted'
<1> DEFINE M == QueueFrames + 1
<1>1. /\ bytes \in [Peers -> 0..M] /\ queuedBytes \in 0..NetBytes /\ M \in Nat
      /\ queuedBytes = Total(bytes, Peers, M) /\ IsFiniteSet(Peers) /\ NetBytes \in Nat
      /\ \A q \in Peers : /\ bytes[q] = Len(queue[q]) + Len(hand[q])
                          /\ Len(queue[q]) <= QueueFrames /\ Len(hand[q]) <= 1
  <2>1. M \in Nat /\ IsFiniteSet(Peers) /\ NetBytes \in Nat
    BY PeersAssumption
  <2> QED BY <2>1 DEF NetInv, NetCounted
<1> HIDE DEF M
<1>2. bytes' = [bytes EXCEPT ![p] = @ - n] /\ queuedBytes' = queuedBytes - n
  BY DEF Net!Counted
<1>3. /\ bytes[p] \in 0..M /\ bytes'[p] = bytes[p] - n /\ bytes'[p] \in 0..M
      /\ \A q \in Peers \ {p} : bytes'[q] = bytes[q]
      /\ bytes' \in [Peers -> 0..M]
  <2>1. bytes[p] \in 0..M /\ bytes[p] - n \in 0..M
    BY <1>1
  <2> QED BY <1>1, <1>2, <2>1
<1>4. Total(bytes', Peers, M) = Total(bytes, Peers, M) - bytes[p] + bytes'[p]
  BY <1>1, <1>3, TotalMoves
<1>5. bytes[p] <= Total(bytes, Peers, M)
  BY <1>1, <1>3, TotalWithout
<1>6. queuedBytes' = Total(bytes', Peers, M) /\ queuedBytes' \in 0..NetBytes
  BY SMTT(30), <1>1, <1>2, <1>3, <1>4, <1>5
<1>7. ASSUME NEW q \in Peers
      PROVE  /\ bytes'[q] = Len(queue'[q]) + Len(hand'[q])
             /\ Len(queue'[q]) <= QueueFrames /\ Len(hand'[q]) <= 1
  <2>1. CASE q = p
    BY <1>3, <2>1
  <2>2. CASE q # p
    <3>1. bytes'[q] = bytes[q] /\ Len(queue'[q]) = Len(queue[q]) /\ Len(hand'[q]) = Len(hand[q])
      BY <1>3, <2>2
    <3> QED BY <1>1, <3>1
  <2> QED BY <2>1, <2>2
<1> QED BY <1>3, <1>6, <1>7 DEF NetCounted, M

LEMMA NetTakes == ASSUME NetInv, NEW p \in Peers, Net!Take(p) PROVE NetInv'
<1>1. /\ p \in writer \ failure /\ hand[p] = << >> /\ queue[p] # << >>
      /\ hand' = [hand EXCEPT ![p] = <<Head(queue[p])>>]
      /\ queue' = [queue EXCEPT ![p] = Tail(@)]
      /\ UNCHANGED <<where, bytes, queuedBytes, writer, failure, action, events, joined, got>>
  BY DEF Net!Take
<1>2. /\ hand \in [Peers -> Seq(Nat)] /\ queue \in [Peers -> Seq(Nat)] /\ queue[p] \in Seq(Nat)
      /\ Len(queue[p]) \in Nat
  BY ComingIsSeq DEF NetInv, NetShaped
<1>3. /\ Head(queue[p]) \in Nat /\ Tail(queue[p]) \in Seq(Nat)
      /\ Len(Tail(queue[p])) = Len(queue[p]) - 1
  BY <1>1, <1>2, HeadTailProperties
<1>4. /\ <<Head(queue[p])>> \in Seq(Nat) /\ Len(<<Head(queue[p])>>) = 1 /\ Len(<< >>) = 0
      /\ <<Head(queue[p])>> \o Tail(queue[p]) = queue[p]
  <2>1. <<Head(queue[p])>> \in Seq(Nat) /\ Len(<<Head(queue[p])>>) = 1
    BY <1>3
  <2>2. <<Head(queue[p])>>[1] = queue[p][1]
    BY <1>1, <1>2
  <2>3. /\ <<Head(queue[p])>> \o Tail(queue[p]) \in Seq(Nat)
        /\ Len(<<Head(queue[p])>> \o Tail(queue[p])) = 1 + Len(Tail(queue[p]))
        /\ \A i \in 1..(1 + Len(Tail(queue[p]))) : (<<Head(queue[p])>> \o Tail(queue[p]))[i]
             = IF i <= 1 THEN <<Head(queue[p])>>[i] ELSE Tail(queue[p])[i - 1]
    BY <1>3, <2>1, ConcatProperties
  <2>4. \A i \in 1..Len(Tail(queue[p])) : Tail(queue[p])[i] = queue[p][i + 1]
    BY <1>1, <1>2, HeadTailProperties
  <2>5. \A i \in 1..Len(queue[p]) : (<<Head(queue[p])>> \o Tail(queue[p]))[i] = queue[p][i]
    <3> SUFFICES ASSUME NEW i \in 1..Len(queue[p])
                 PROVE  (<<Head(queue[p])>> \o Tail(queue[p]))[i] = queue[p][i]
      OBVIOUS
    <3>1. i \in 1..(1 + Len(Tail(queue[p])))
      BY <1>2, <1>3
    <3>2. CASE i = 1
      BY <2>2, <2>3, <3>1, <3>2
    <3>3. CASE i # 1
      <4>1. ~ (i <= 1) /\ i - 1 \in 1..Len(Tail(queue[p])) /\ (i - 1) + 1 = i
        BY <1>2, <1>3, <3>3
      <4> QED BY <2>3, <2>4, <3>1, <4>1
    <3> QED BY <3>2, <3>3
  <2>6. Len(<<Head(queue[p])>> \o Tail(queue[p])) = Len(queue[p])
    BY <1>2, <1>3, <2>3
  <2> QED BY <1>2, <2>1, <2>3, <2>5, <2>6, SeqEqual, EmptySeq
<1>5. /\ hand'[p] = <<Head(queue[p])>> /\ queue'[p] = Tail(queue[p])
      /\ \A q \in Peers : q # p => hand'[q] = hand[q] /\ queue'[q] = queue[q]
  BY <1>1, <1>2
<1>6. NetShaped'
  BY <1>1, <1>2, <1>3, <1>4 DEF NetInv, NetShaped
<1>7. NetCounted'
  <2>1. /\ bytes \in [Peers -> 0..(QueueFrames + 1)] /\ queuedBytes \in 0..NetBytes
        /\ queuedBytes = Total(bytes, Peers, QueueFrames + 1)
        /\ \A q \in Peers : /\ bytes[q] = Len(queue[q]) + Len(hand[q])
                            /\ Len(queue[q]) <= QueueFrames /\ Len(hand[q]) <= 1
    BY DEF NetInv, NetCounted
  <2>2. QueueFrames \in Nat
    BY PeersAssumption
  <2>3. /\ bytes[p] = Len(queue'[p]) + Len(hand'[p])
        /\ Len(queue'[p]) <= QueueFrames /\ Len(hand'[p]) <= 1
    <3>1. Len(queue'[p]) = Len(queue[p]) - 1 /\ Len(hand'[p]) = 1 /\ Len(hand[p]) = 0
      BY <1>1, <1>3, <1>4, <1>5
    <3>2. bytes[p] = Len(queue[p]) + Len(hand[p]) /\ Len(queue[p]) <= QueueFrames
      BY <2>1
    <3>3. \A n \in Nat : n + 0 = (n - 1) + 1 /\ (n <= QueueFrames => n - 1 <= QueueFrames)
      BY <2>2
    <3> QED BY <1>2, <3>1, <3>2, <3>3
  <2>4. \A q \in Peers : /\ bytes[q] = Len(queue'[q]) + Len(hand'[q])
                         /\ Len(queue'[q]) <= QueueFrames /\ Len(hand'[q]) <= 1
    BY <1>5, <2>1, <2>3
  <2> QED BY <1>1, <2>1, <2>4 DEF NetCounted
<1>8. NetStages'
  <2>1. \A q \in Peers : q \notin writer => hand'[q] = hand[q]
    BY <1>1, <1>5
  <2> QED BY <1>1, <2>1 DEF NetInv, NetStages
<1>9. \A q \in Peers : hand'[q] \o queue'[q] = hand[q] \o queue[q]
  <2>1. << >> \o queue[p] = queue[p]
    BY <1>2, ConcatEmptySeq
  <2> QED BY <1>1, <1>4, <1>5, <2>1
<1>10. Received'
  BY <1>1, <1>9, PeersAssumption DEF NetInv, Received, Reached, Pending
<1> QED BY <1>6, <1>7, <1>8, <1>10 DEF NetInv

\* A writer gives up what it holds, or a closed peer its queue.
LEMMA NetGivesUp ==
    ASSUME NetInv, NEW p \in Peers, Net!Stalls(p) \/ Net!WriterEnds(p) \/ Net!Clear(p)
    PROVE  NetInv'
<1>1. UNCHANGED <<action, events, joined, got>>
  BY DEF Net!Stalls, Net!WriterEnds, Net!Clear
<1>2. /\ Len(queue[p]) \in Nat /\ Len(hand[p]) \in Nat /\ bytes[p] = Len(queue[p]) + Len(hand[p])
      /\ Len(queue[p]) <= QueueFrames /\ Len(hand[p]) <= 1 /\ Len(<< >>) = 0 /\ << >> \in Seq(Nat)
      /\ hand \in [Peers -> Seq(Nat)] /\ queue \in [Peers -> Seq(Nat)]
      /\ where \in [Peers -> PeerPlaces] /\ QueueFrames \in Nat
  BY ComingIsSeq, EmptySeq, PeersAssumption DEF NetInv, NetCounted, NetShaped
<1>3. CASE Net!Stalls(p) \/ Net!WriterEnds(p)
  <2>1. /\ p \in writer /\ writer' = writer \ {p} /\ hand' = [hand EXCEPT ![p] = << >>]
        /\ Net!Counted(p, Len(hand[p])) /\ UNCHANGED <<where, queue>>
        /\ failure' \subseteq failure \cup {p} /\ failure \subseteq failure'
        /\ p \in failure' \/ where[p] = "ending"
    <3>1. CASE Net!Stalls(p)
      <4>1. Len(hand[p]) = 1
        <5>1. Len(hand[p]) # 0
          BY <3>1, <1>2, EmptySeq DEF Net!Stalls
        <5>2. \A n \in Nat : n <= 1 /\ n # 0 => n = 1
          OBVIOUS
        <5> QED BY <1>2, <5>1, <5>2, Zenon
      <4> QED BY <3>1, <4>1 DEF Net!Stalls
    <3>2. CASE Net!WriterEnds(p)
      BY <3>2 DEF Net!WriterEnds
    <3> QED BY <1>3, <3>1, <3>2
  <2>2. hand'[p] = << >> /\ \A q \in Peers \ {p} : hand'[q] = hand[q]
    BY <1>2, <2>1
  <2>3. NetShaped'
    BY <1>1, <1>2, <2>1 DEF NetInv, NetShaped
  <2>4. NetCounted'
    <3>1. /\ Len(hand[p]) <= bytes[p] /\ Len(hand'[p]) = 0
          /\ Len(queue[p]) + 0 = bytes[p] - Len(hand[p])
      BY <1>2, <2>2
    <3> QED BY <1>2, <2>1, <2>2, <3>1, CountsOff
  <2>5. \A q \in Peers : bytes[q] = 0 => bytes'[q] = 0
    <3>1. bytes' = [bytes EXCEPT ![p] = @ - Len(hand[p])] /\ bytes \in [Peers -> 0..(QueueFrames + 1)]
      BY <2>1 DEF Net!Counted, NetInv, NetCounted
    <3>2. bytes[p] = 0 => Len(hand[p]) = 0
      BY <1>2
    <3> QED BY <3>1, <3>2
  <2>6. NetStages'
    BY <1>1, <1>2, <2>1, <2>2, <2>5 DEF NetInv, NetStages
  <2>7. \A q \in Peers : Reached(q)' => Reached(q) /\ q # p
    BY <2>1 DEF NetInv, NetStages, Reached
  <2>8. Received'
    BY <1>1, <2>1, <2>2, <2>7, PeersAssumption DEF NetInv, Received, Pending
  <2> QED BY <2>3, <2>4, <2>6, <2>8 DEF NetInv
<1>4. CASE Net!Clear(p)
  <2>1. /\ where[p] = "ending" /\ p \notin writer
        /\ p \notin action
        /\ where' = [where EXCEPT ![p] = IF p \in failure THEN "closing" ELSE "gone"]
        /\ queue' = [queue EXCEPT ![p] = << >>] /\ Net!Counted(p, bytes[p])
        /\ UNCHANGED <<hand, writer, failure>>
    BY <1>4 DEF Net!Clear
  <2>2. queue'[p] = << >> /\ \A q \in Peers \ {p} : queue'[q] = queue[q]
    BY <1>2, <2>1
  <2>3. NetShaped'
    BY <1>1, <1>2, <2>1 DEF NetInv, NetShaped, PeerPlaces
  <2>4. NetCounted'
    <3>1. Len(hand[p]) = 0
      BY <2>1 DEF NetInv, NetStages
    <3>2. /\ bytes[p] \in Nat /\ bytes[p] <= bytes[p] /\ Len(queue'[p]) = 0
          /\ Len(queue'[p]) + Len(hand[p]) = bytes[p] - bytes[p] /\ Len(queue'[p]) <= QueueFrames
      BY <1>2, <2>2, <3>1
    <3> QED BY <1>2, <2>1, <2>2, <3>2, CountsOff
  <2>5. bytes'[p] = 0 /\ \A q \in Peers \ {p} : bytes'[q] = bytes[q]
    BY <2>1 DEF Net!Counted, NetInv, NetCounted
  <2>6. NetStages'
    BY <1>1, <1>2, <2>1, <2>5 DEF NetInv, NetStages
  <2>7. \A q \in Peers : Reached(q)' => Reached(q) /\ q # p
    BY <1>2, <2>1 DEF Reached
  <2>8. Received'
    BY <1>1, <2>1, <2>2, <2>7, PeersAssumption DEF NetInv, Received, Pending
  <2> QED BY <2>3, <2>4, <2>6, <2>8 DEF NetInv
<1> QED BY <1>3, <1>4


LEMMA NetSends == ASSUME NetInv, NEW p \in Peers, Net!Send(p) PROVE NetInv'
<1>1. /\ p \in writer \ failure /\ hand[p] # << >>
      /\ got' = [got EXCEPT ![p] = IF hand[p] = << 0 >> THEN @ ELSE @ \o hand[p]]
      /\ hand' = [hand EXCEPT ![p] = << >>] /\ Net!Counted(p, 1)
      /\ UNCHANGED <<where, queue, writer, failure, action, events, joined>>
  BY DEF Net!Send
<1>2. /\ hand[p] \in Seq(Nat) /\ queue[p] \in Seq(Nat) /\ got[p] \in Seq(Nat)
      /\ hand \in [Peers -> Seq(Nat)] /\ got \in [Peers -> Seq(Nat)]
      /\ Len(queue[p]) \in Nat /\ Len(hand[p]) \in Nat /\ Len(got[p]) \in Nat
      /\ joined[p] \in Nat /\ events \in Nat /\ << >> \in Seq(Nat) /\ Len(<< >>) = 0
  BY ComingIsSeq, EmptySeq DEF NetInv, NetShaped
<1>3. Len(hand[p]) = 1
  <2>1. Len(hand[p]) # 0 /\ Len(hand[p]) <= 1
    BY <1>1, <1>2, EmptySeq DEF NetInv, NetCounted
  <2>2. \A n \in Nat : n <= 1 /\ n # 0 => n = 1
    OBVIOUS
  <2> QED BY <1>2, <2>1, <2>2, Zenon
<1>4. PICK f \in Nat : hand[p] = <<f>>
  <2>1. hand[p][1] \in Nat
    <3>1. 1 \in 1..Len(hand[p])
      BY <1>3
    <3> QED BY <1>2, <3>1, ElementOfSeq
  <2>2. /\ <<hand[p][1]>> \in Seq(Nat) /\ Len(<<hand[p][1]>>) = 1
        /\ <<hand[p][1]>>[1] = hand[p][1]
    BY <2>1
  <2>3. hand[p] = <<hand[p][1]>>
    BY <1>2, <1>3, <2>2, SeqEqual
  <2> QED BY <2>1, <2>3
<1>5. /\ got'[p] = IF f = 0 THEN got[p] ELSE got[p] \o <<f>>
      /\ \A q \in Peers \ {p} : got'[q] = got[q] /\ hand'[q] = hand[q]
      /\ hand'[p] = << >>
  <2>1. <<f>> = << 0 >> <=> f = 0
    OBVIOUS
  <2> QED BY <1>1, <1>2, <1>4, <2>1
<1>6. /\ <<f>> \in Seq(Nat) /\ Len(<<f>>) = 1 /\ <<f>>[1] = f
      /\ got[p] \o <<f>> \in Seq(Nat) /\ Len(got[p] \o <<f>>) = Len(got[p]) + 1
      /\ \A i \in 1..(Len(got[p]) + 1) : (got[p] \o <<f>>)[i]
            = IF i <= Len(got[p]) THEN got[p][i] ELSE <<f>>[i - Len(got[p])]
  <2>1. <<f>> \in Seq(Nat) /\ Len(<<f>>) = 1 /\ <<f>>[1] = f
    BY <1>4
  <2> QED BY <1>2, <2>1, ConcatProperties
<1>7. NetShaped'
  <2>1. got' \in [Peers -> Seq(Nat)] /\ hand' \in [Peers -> Seq(Nat)]
    BY <1>1, <1>2, <1>4, <1>6
  <2> QED BY <1>1, <2>1 DEF NetInv, NetShaped
<1>8. bytes[p] \in Nat /\ bytes[p] = Len(queue[p]) + 1 /\ Len(queue[p]) <= QueueFrames
  <2>1. bytes[p] = Len(queue[p]) + Len(hand[p]) /\ Len(queue[p]) <= QueueFrames
    BY DEF NetInv, NetCounted
  <2> QED BY <1>2, <1>3, <2>1
<1>9. NetCounted'
  <2>1. 1 <= bytes[p] /\ Len(queue'[p]) + Len(hand'[p]) = bytes[p] - 1 /\ Len(hand'[p]) <= 1
    BY <1>1, <1>2, <1>5, <1>8
  <2>2. \A q \in Peers \ {p} : Len(queue'[q]) = Len(queue[q]) /\ Len(hand'[q]) = Len(hand[q])
    BY <1>1, <1>5
  <2>3. Len(queue'[p]) <= QueueFrames
    BY <1>1, <1>8
  <2> QED BY <1>1, <2>1, <2>2, <2>3, CountsOff
<1>10. NetStages'
  <2>1. \A q \in Peers : bytes[q] = 0 => bytes'[q] = 0
    BY <1>1, <1>8 DEF Net!Counted, NetInv, NetCounted
  <2>2. where[p] \in {"open", "ending"}
    BY <1>1 DEF NetInv, NetStages
  <2> QED BY <1>1, <1>2, <1>5, <2>1, <2>2 DEF NetInv, NetStages
<1>11. Received'
  <2> SUFFICES ASSUME NEW q \in Subscribers
               PROVE  /\ got'[q] = [i \in 1..Len(got'[q]) |-> joined[q] + i]
                      /\ joined[q] + Len(got'[q]) <= events
                      /\ Reached(q)' => Pending(q)'
    BY ZenonT(30), <1>1 DEF Received
  <2>1. q \in Peers
    BY PeersAssumption
  <2>2. /\ got[q] = [i \in 1..Len(got[q]) |-> joined[q] + i]
        /\ joined[q] + Len(got[q]) <= events
        /\ Reached(q) => Pending(q)
    BY DEF NetInv, Received
  <2>3. CASE q # p
    BY <1>1, <1>5, <2>1, <2>2, <2>3 DEF Reached, Pending
  <2>4. CASE q = p
    <3> DEFINE last == joined[p] + Len(got[p])
    <3>0. last \in Nat /\ last = joined[p] + Len(got[p])
      BY <1>2
    <3> HIDE DEF last
    <3>1. Pending(p)
      BY <1>1, <2>2, <2>4 DEF Reached, NetInv, NetStages
    <3>2. Net!Rising(<<f>> \o queue[p]) /\ Net!Range(<<f>> \o queue[p]) \ {0} = (last + 1)..events
      BY <1>4, <3>1 DEF Pending, last
    <3>3. /\ Net!Rising(queue[p]) /\ Net!Range(<<f>> \o queue[p]) = {f} \cup Net!Range(queue[p])
          /\ \A x \in Net!Range(queue[p]) : f # 0 /\ x # 0 => f < x
      BY <1>2, <3>2, RisesAfterFirst
    <3>4. (hand[p] \o queue[p])' = queue[p]
      BY <1>1, <1>2, <1>5, ConcatEmptySeq
    <3>5. CASE f = 0
      <4>1. Net!Range(queue[p]) \ {0} = (last + 1)..events /\ got'[p] = got[p]
        BY <1>5, <3>2, <3>3, <3>5
      <4> QED BY <1>1, <2>2, <2>4, <3>3, <3>4, <4>1 DEF Pending, last
    <3>6. CASE f # 0
      <4>1. /\ last \in Nat /\ f \in (last + 1)..events
            /\ \A x \in (last + 1)..events : x = f \/ x \in Net!Range(queue[p])
            /\ Net!Range(queue[p]) \ {0} \subseteq (last + 1)..events
        BY <3>0, <3>2, <3>3, <3>6
      <4>2. \A x \in Net!Range(queue[p]) : x # 0 => f < x
        BY <3>3, <3>6
      <4>3. last + 1 \in (last + 1)..events
        <5>1. f \in Int /\ last + 1 <= f /\ f <= events
          BY <1>2, <3>0, <4>1
        <5> QED BY <1>2, <3>0, <5>1
      <4>4. f = last + 1
        <5>1. CASE last + 1 = f
          BY <5>1
        <5>2. CASE last + 1 \in Net!Range(queue[p])
          <6>1. f < last + 1 /\ f >= last + 1
            BY <4>1, <4>2, <5>2
          <6> QED BY <1>4, <4>1, <6>1
        <5> QED BY <4>1, <4>3, <5>1, <5>2
      <4>5. Net!Range(queue[p]) \ {0} = (last + 1 + 1)..events
        <5>1. \A x \in Net!Range(queue[p]) \ {0} : x \in (last + 1 + 1)..events
          BY SMTT(30), <1>2, <3>0, <4>1, <4>2, <4>4
        <5>2. \A x \in (last + 1 + 1)..events : x \in Net!Range(queue[p]) \ {0}
          <6>1. ASSUME NEW x \in (last + 1 + 1)..events
                PROVE  x \in (last + 1)..events /\ x # last + 1 /\ x # 0
            BY SMTT(30), <1>2, <3>0
          <6> QED BY <4>1, <4>4, <6>1
        <5> QED BY <5>1, <5>2
      <4>6. got'[p] = got[p] \o <<f>> /\ Len(got'[p]) = Len(got[p]) + 1
        BY <1>5, <1>6, <3>6
      <4>7. joined[p] + Len(got'[p]) = last + 1 /\ last + 1 <= events
        <5>1. last + 1 <= events
          BY <1>2, <3>0, <4>3
        <5>2. \A a, b \in Nat : a + (b + 1) = (a + b) + 1
          OBVIOUS
        <5>3. joined[p] + (Len(got[p]) + 1) = last + 1
          <6>1. joined[p] \in Nat /\ Len(got[p]) \in Nat
            BY <1>2
          <6>2. joined[p] + (Len(got[p]) + 1) = (joined[p] + Len(got[p])) + 1
            BY <5>2, <6>1
          <6> QED BY <3>0, <6>2, Zenon
        <5> QED BY <4>6, <5>1, <5>3, Zenon
      <4>8. got'[p] = [i \in 1..Len(got'[p]) |-> joined[p] + i]
        <5> DEFINE r == [i \in 1..(Len(got[p]) + 1) |-> joined[p] + i]
        <5>1. r \in Seq(Nat) /\ Len(r) = Len(got[p]) + 1
          BY <1>2
        <5>2. ASSUME NEW i \in 1..(Len(got[p]) + 1) PROVE (got[p] \o <<f>>)[i] = r[i]
          <6>1. r[i] = joined[p] + i
            OBVIOUS
          <6>2. CASE i <= Len(got[p])
            <7>1. i \in 1..Len(got[p]) /\ (got[p] \o <<f>>)[i] = got[p][i]
              BY <1>2, <1>6, <6>2
            <7>2. got[p][i] = joined[p] + i
              BY <2>2, <2>4, <7>1
            <7> QED BY <6>1, <7>1, <7>2
          <6>3. CASE i = Len(got[p]) + 1
            <7>1. ~ (i <= Len(got[p])) /\ i - Len(got[p]) = 1
              BY <1>2, <6>3
            <7>2. (got[p] \o <<f>>)[i] = f
              BY <1>6, <7>1
            <7>3. f = joined[p] + (Len(got[p]) + 1)
              <8>1. \A a, b \in Nat : (a + b) + 1 = a + (b + 1)
                OBVIOUS
              <8> QED BY <1>2, <3>0, <4>4, <8>1
            <7> QED BY <6>1, <6>3, <7>2, <7>3
          <6> QED BY <1>2, <6>2, <6>3
        <5>3. got[p] \o <<f>> = r
          <6> HIDE DEF r
          <6> QED BY <1>6, <5>1, <5>2, SeqEqual
        <5> QED BY <4>6, <5>3
      <4>9. Pending(p)'
        BY <1>1, <3>3, <3>4, <4>5, <4>7 DEF Pending
      <4> QED BY <2>4, <4>7, <4>8, <4>9
    <3> QED BY <3>5, <3>6
  <2> QED BY <2>3, <2>4
<1> QED BY <1>7, <1>9, <1>10, <1>11 DEF NetInv

LEMMA NetAlways == ServicesSpec => []NetInv
<1>1. ServicesInit => NetInv
  <2> SUFFICES ASSUME Net!Init PROVE NetInv
    BY DEF ServicesInit
  <2>1. /\ where = [p \in Peers |-> "out"] /\ queue = [p \in Peers |-> << >>]
        /\ hand = [p \in Peers |-> << >>] /\ writer = {} /\ failure = {} /\ action = {}
        /\ bytes = [p \in Peers |-> 0] /\ queuedBytes = 0 /\ events = 0
        /\ joined = [p \in Peers |-> 0] /\ got = [p \in Peers |-> << >>]
    BY DEF Net!Init
  <2>2. << >> \in Seq(Nat) /\ Len(<< >>) = 0 /\ << >> = [i \in 1..0 |-> 0 + i]
    BY EmptySeq
  <2>3. IsFiniteSet(Peers) /\ QueueFrames \in Nat /\ NetBytes \in Nat /\ NetEvents \in Nat
        /\ QueueFrames + 1 \in Nat
    BY PeersAssumption
  <2>4. Total(bytes, Peers, QueueFrames + 1) = 0
    BY <2>1, <2>3, TotalOfNone
  <2>5. NetShaped /\ NetCounted /\ NetStages
    BY <2>1, <2>2, <2>3, <2>4 DEF NetShaped, NetCounted, NetStages, PeerPlaces
  <2>6. ASSUME NEW p \in Subscribers
        PROVE  /\ got[p] = [i \in 1..Len(got[p]) |-> joined[p] + i]
               /\ joined[p] + Len(got[p]) <= events /\ ~ Reached(p)
    <3>1. p \in Peers /\ got[p] = << >> /\ joined[p] = 0 /\ where[p] = "out"
      BY <2>1, PeersAssumption
    <3> QED BY <2>1, <2>2, <3>1 DEF Reached
  <2> QED BY <2>5, <2>6 DEF NetInv, Received
<1>2. NetInv /\ [Net!Next]_(Net!vars) => NetInv'
  <2> SUFFICES ASSUME NetInv, [Net!Next]_(Net!vars) PROVE NetInv'
    OBVIOUS
  <2>1. CASE UNCHANGED Net!vars
    BY <2>1 DEF Net!vars, Net!queues, NetInv, NetShaped, NetCounted, NetStages, Received, Reached,
                Pending
  <2>2. CASE Net!Next
    BY <2>2, NetJoins, NetPasses, NetRevoked, NetOpens, NetPublishes, NetActs, NetTakes, NetGivesUp,
       NetSends DEF Net!Next
  <2> QED BY <2>1, <2>2
<1> QED BY <1>1, <1>2, NetSteps, PTL DEF ServicesSpec

LEMMA NetIsSound == NetInv => Net!TypeOK /\ Net!BytesCounted /\ Net!NoHoles
<1> SUFFICES ASSUME NetInv PROVE Net!TypeOK /\ Net!BytesCounted /\ Net!NoHoles
  OBVIOUS
<1>1. Net!TypeOK
  BY DEF Net!TypeOK, NetInv, NetShaped, NetCounted, PeerPlaces
<1>2. Net!BytesCounted
  <2>1. \A p \in Peers : where[p] \in {"out", "closing", "gone"}
           => bytes[p] = 0 /\ p \notin writer \cup action
    BY DEF NetInv, NetStages
  <2> QED BY <2>1, NetTotals DEF Net!BytesCounted, NetInv, NetCounted
<1>3. ASSUME NEW p \in Subscribers, where[p] = "open", p \notin failure PROVE Pending(p)
  BY <1>3, PeersAssumption DEF NetInv, NetStages, Received, Reached
<1>4. Net!NoHoles
  BY <1>3 DEF Net!NoHoles, NetInv, Received, Pending
<1> QED BY <1>1, <1>2, <1>4

-----------------------------------------------------------------------------
(* Sequences of events that rise.                                          *)

\* What holds at 0 and goes from each number to the next holds up to n.
LEMMA UpTo ==
    ASSUME NEW n \in Nat, NEW T, 0 \in T, \A k \in 0..n : k \in T /\ k < n => k + 1 \in T
    PROVE  \A k \in 0..n : k \in T
<1> DEFINE S == {k \in 0..n : k \notin T}
           key == [k \in S |-> k]
<1>1. S \in SUBSET (0..n) /\ IsFiniteSet(0..n)
  BY FS_Interval
<1>2. IsFiniteSet(S) /\ \A k \in S : key[k] = k /\ key[k] \in Int
  BY <1>1, FS_Subset
<1>3. SUFFICES ASSUME S # {} PROVE FALSE
  OBVIOUS
<1> HIDE DEF key
<1>4. PICK m \in S : \A k \in S : key[m] <= key[k]
  BY <1>2, <1>3, Lowest
<1>5. m \in 0..n /\ m \notin T /\ \A k \in S : m <= k
  BY <1>2, <1>4
<1>6. m - 1 \in 0..n /\ m - 1 < n /\ (m - 1) + 1 = m /\ m - 1 \notin S
  BY <1>5
<1> QED BY <1>5, <1>6

LEMMA HeadAndTail ==
    ASSUME NEW q \in Seq(Nat), q # << >>
    PROVE  /\ Head(q) \in Nat /\ Tail(q) \in Seq(Nat) /\ Len(Tail(q)) = Len(q) - 1
           /\ <<Head(q)>> \o Tail(q) = q
<1> DEFINE h == Head(q)
           t == Tail(q)
<1>1. /\ h \in Nat /\ t \in Seq(Nat) /\ Len(t) = Len(q) - 1 /\ Len(q) \in Nat
      /\ \A i \in 1..Len(t) : t[i] = q[i + 1]
  BY HeadTailProperties, LenProperties
<1>2. h = q[1]
  OBVIOUS
<1> HIDE DEF h, t
<1>3. <<h>> \in Seq(Nat) /\ Len(<<h>>) = 1 /\ <<h>>[1] = h
  BY <1>1
<1>4. /\ <<h>> \o t \in Seq(Nat) /\ Len(<<h>> \o t) = 1 + Len(t)
      /\ \A i \in 1..(1 + Len(t)) : (<<h>> \o t)[i] = IF i <= 1 THEN <<h>>[i] ELSE t[i - 1]
  BY <1>1, <1>3, ConcatProperties
<1>5. Len(<<h>> \o t) = Len(q)
  BY <1>1, <1>4
<1>6. ASSUME NEW i \in 1..Len(q) PROVE (<<h>> \o t)[i] = q[i]
  <2>1. i \in 1..(1 + Len(t))
    BY <1>1
  <2>2. CASE i = 1
    BY <1>2, <1>3, <1>4, <2>1, <2>2
  <2>3. CASE i # 1
    <3>1. ~ (i <= 1) /\ i - 1 \in 1..Len(t) /\ (i - 1) + 1 = i
      BY <1>1, <2>3
    <3> QED BY <1>1, <1>4, <2>1, <3>1
  <2> QED BY <2>2, <2>3
<1>7. <<h>> \o t = q
  BY <1>4, <1>5, <1>6, SeqEqual
<1> QED BY <1>1, <1>7 DEF h, t

LEMMA LineOver ==
    ASSUME NEW q \in Seq(Nat), NEW X, Bus!Range(q) \subseteq X PROVE q \in Seq(X)
<1>1. Len(q) \in Nat /\ q \in [1..Len(q) -> Nat]
  BY LenProperties
<1>2. \A i \in 1..Len(q) : q[i] \in X
  BY <1>1 DEF Bus!Range
<1> HIDE DEF Bus!Range
<1>3. q \in [1..Len(q) -> X]
  BY <1>1, <1>2
<1> QED BY <1>1, <1>3, SeqDef

LEMMA RangeOfTwo ==
    ASSUME NEW a \in Seq(Nat), NEW b \in Seq(Nat)
    PROVE  Bus!Range(a \o b) = Bus!Range(a) \cup Bus!Range(b)
<1> DEFINE c == a \o b
<1>1. /\ c \in Seq(Nat) /\ Len(c) = Len(a) + Len(b) /\ Len(a) \in Nat /\ Len(b) \in Nat
      /\ \A i \in 1..(Len(a) + Len(b)) : c[i] = IF i <= Len(a) THEN a[i] ELSE b[i - Len(a)]
  BY ConcatProperties, LenProperties
<1>2. DOMAIN a = 1..Len(a) /\ DOMAIN b = 1..Len(b) /\ DOMAIN c = 1..(Len(a) + Len(b))
  BY <1>1, LenProperties
<1> HIDE DEF c
<1>3. ASSUME NEW i \in DOMAIN c PROVE c[i] \in Bus!Range(a) \cup Bus!Range(b)
  <2>1. CASE i <= Len(a)
    <3>1. i \in DOMAIN a /\ c[i] = a[i]
      BY <1>1, <1>2, <2>1
    <3> QED BY <3>1 DEF Bus!Range
  <2>2. CASE ~ (i <= Len(a))
    <3>1. i - Len(a) \in DOMAIN b /\ c[i] = b[i - Len(a)]
      BY <1>1, <1>2, <2>2
    <3> QED BY <3>1 DEF Bus!Range
  <2> QED BY <2>1, <2>2
<1>4. ASSUME NEW i \in DOMAIN a PROVE a[i] \in Bus!Range(c)
  <2>1. i \in DOMAIN c /\ c[i] = a[i]
    BY <1>1, <1>2
  <2> QED BY <2>1 DEF Bus!Range
<1>5. ASSUME NEW i \in DOMAIN b PROVE b[i] \in Bus!Range(c)
  <2>1. i + Len(a) \in DOMAIN c /\ ~ (i + Len(a) <= Len(a)) /\ (i + Len(a)) - Len(a) = i
    BY SMTT(30), <1>1, <1>2
  <2>2. c[i + Len(a)] = b[i]
    BY <1>1, <1>2, <2>1
  <2> QED BY <2>1, <2>2 DEF Bus!Range
<1> QED BY <1>3, <1>4, <1>5 DEF Bus!Range, c

LEMMA RisingOfTwo ==
    ASSUME NEW a \in Seq(Nat), NEW b \in Seq(Nat), Bus!Rising(a \o b)
    PROVE  Bus!Rising(a) /\ Bus!Rising(b) /\ \A x \in Bus!Range(a), y \in Bus!Range(b) : x < y
<1> DEFINE c == a \o b
<1>1. /\ c \in Seq(Nat) /\ Len(c) = Len(a) + Len(b) /\ Len(a) \in Nat /\ Len(b) \in Nat
      /\ \A i \in 1..(Len(a) + Len(b)) : c[i] = IF i <= Len(a) THEN a[i] ELSE b[i - Len(a)]
  BY ConcatProperties, LenProperties
<1>2. DOMAIN a = 1..Len(a) /\ DOMAIN b = 1..Len(b) /\ DOMAIN c = 1..(Len(a) + Len(b))
  BY <1>1, LenProperties
<1>3. Bus!Rising(c)
  OBVIOUS
<1> HIDE DEF c
<1>4. \A i \in DOMAIN a : i \in DOMAIN c /\ c[i] = a[i] /\ i <= Len(a)
  BY <1>1, <1>2
<1>5. ASSUME NEW i \in DOMAIN b
      PROVE  i + Len(a) \in DOMAIN c /\ c[i + Len(a)] = b[i] /\ i + Len(a) > Len(a)
  <2>1. i + Len(a) \in DOMAIN c /\ ~ (i + Len(a) <= Len(a)) /\ (i + Len(a)) - Len(a) = i
    BY SMTT(30), <1>1, <1>2
  <2> QED BY SMTT(30), <1>1, <1>2, <2>1
<1>6. Bus!Rising(a)
  BY <1>3, <1>4 DEF Bus!Rising
<1>7. Bus!Rising(b)
  <2> SUFFICES ASSUME NEW i \in DOMAIN b, NEW j \in DOMAIN b, i < j PROVE b[i] < b[j]
    BY DEF Bus!Rising
  <2>1. i + Len(a) < j + Len(a)
    BY <1>1, <1>2
  <2> QED BY <1>3, <1>5, <2>1 DEF Bus!Rising
<1>8. ASSUME NEW i \in DOMAIN a, NEW j \in DOMAIN b PROVE a[i] < b[j]
  <2>1. i < j + Len(a)
    BY <1>1, <1>2
  <2> QED BY <1>3, <1>4, <1>5, <2>1 DEF Bus!Rising
<1> QED BY <1>6, <1>7, <1>8 DEF Bus!Range

LEMMA RisingWithLast ==
    ASSUME NEW q \in Seq(Nat), NEW f \in Nat, Bus!Rising(q), \A x \in Bus!Range(q) : x < f
    PROVE  Bus!Rising(Append(q, f)) /\ Bus!Range(Append(q, f)) = Bus!Range(q) \cup {f}
<1> DEFINE r == Append(q, f)
<1>1. /\ r \in Seq(Nat) /\ Len(r) = Len(q) + 1 /\ r[Len(q) + 1] = f
      /\ \A i \in 1..Len(q) : r[i] = q[i]
  BY AppendProperties
<1>2. Len(q) \in Nat /\ DOMAIN q = 1..Len(q) /\ DOMAIN r = 1..(Len(q) + 1)
  BY <1>1, LenProperties
<1>3. \A i \in 1..Len(q) : q[i] < f
  BY <1>2 DEF Bus!Range
<1> HIDE DEF r
<1>4. Bus!Rising(r)
  <2> SUFFICES ASSUME NEW i \in DOMAIN r, NEW j \in DOMAIN r, i < j PROVE r[i] < r[j]
    BY DEF Bus!Rising
  <2>1. i \in 1..Len(q)
    BY <1>2
  <2>2. CASE j \in 1..Len(q)
    BY <1>1, <1>2, <2>1, <2>2 DEF Bus!Rising
  <2>3. CASE j = Len(q) + 1
    BY <1>1, <1>3, <2>1, <2>3
  <2> QED BY <1>2, <2>2, <2>3
<1>5. Bus!Range(r) = Bus!Range(q) \cup {f}
  <2>1. <<f>> \in Seq(Nat) /\ Bus!Range(<<f>>) = {f}
    BY DEF Bus!Range
  <2>2. r = q \o <<f>>
    BY AppendIsConcat DEF r
  <2> QED BY <2>1, <2>2, RangeOfTwo
<1> QED BY <1>4, <1>5 DEF r

-----------------------------------------------------------------------------
(* The bytes of the bus.                                                   *)

BusHeld(log, lines, S) == {x \in S \X DOMAIN log : x[2] \in Bus!Range(lines[x[1]])}
BusSizes(log) == [x \in Subs \X DOMAIN log |-> log[x[2]].size]

LEMMA BusTotals ==
    /\ \A f, S, max : Bus!Total(f, S, max) = Total(f, S, max)
    /\ \A S : Bus!Cardinality(S) = Cardinality(S)
BY DEF Bus!Total, Bus!Cells, Bus!Cardinality, Total, Cells, Cardinality

LEMMA BusBytesAre ==
    ASSUME NEW log \in Seq(Bus!Events), NEW lines, NEW S \in SUBSET Subs
    PROVE  /\ IsFiniteSet(BusHeld(log, lines, S))
           /\ Bus!Bytes(log, lines, S) = Total(BusSizes(log), BusHeld(log, lines, S), BusBytes)
           /\ Bus!Bytes(log, lines, S) \in Nat
<1> DEFINE H == BusHeld(log, lines, S)
           f == [x \in H |-> log[x[2]].size]
<1>1. /\ BusBytes \in Nat /\ IsFiniteSet(Subs) /\ IsFiniteSet(S)
      /\ DOMAIN log = 1..Len(log) /\ Len(log) \in Nat
  BY BusAssumption, FS_Subset, LenProperties
<1>2. IsFiniteSet(DOMAIN log) /\ IsFiniteSet(S \X DOMAIN log)
  <2>1. IsFiniteSet(1..Len(log))
    BY <1>1, FS_Interval
  <2>2. IsFiniteSet(S \X (1..Len(log)))
    BY <1>1, <2>1, FS_Product
  <2> QED BY <1>1, <2>1, <2>2, Zenon
<1>3. H \in SUBSET (S \X DOMAIN log)
  BY DEF BusHeld
<1>4. IsFiniteSet(H)
  BY <1>2, <1>3, FS_Subset
<1>5. \A x \in H : x \in Subs \X DOMAIN log
  BY <1>3
<1>6. \A x \in H : f[x] = BusSizes(log)[x]
  BY <1>5 DEF BusSizes
<1>7. Bus!Bytes(log, lines, S) = Total(f, H, BusBytes)
  BY BusTotals DEF Bus!Bytes, BusHeld
<1> HIDE DEF f
<1>8. Total(f, H, BusBytes) = Total(BusSizes(log), H, BusBytes)
  <2> HIDE DEF H
  <2> QED BY <1>6, TotalDepends
<1> QED BY <1>1, <1>4, <1>7, <1>8, TotalIsNat

\* The subscriptions of E lose their queues.
LEMMA BytesOfStopped ==
    ASSUME NEW log \in Seq(Bus!Events), NEW lines, NEW later, NEW E \in SUBSET Subs,
           \A s \in E : Bus!Range(later[s]) \cap DOMAIN log = {},
           \A s \in Subs \ E : later[s] = lines[s]
    PROVE  /\ Bus!Bytes(log, later, Subs) = Bus!Bytes(log, lines, Subs) - Bus!Bytes(log, lines, E)
           /\ Bus!Bytes(log, later, Subs) <= Bus!Bytes(log, lines, Subs)
           /\ Bus!Bytes(log, later, Subs) \in Nat
<1> DEFINE H == BusHeld(log, lines, Subs)
           T == BusHeld(log, lines, E)
           f == BusSizes(log)
<1>1. Subs \in SUBSET Subs /\ BusBytes \in Nat
  BY BusAssumption
<1>2. T \in SUBSET H /\ BusHeld(log, later, Subs) = H \ T
  BY DEF BusHeld
<1>3. /\ IsFiniteSet(H)
      /\ Bus!Bytes(log, lines, Subs) = Total(f, H, BusBytes)
      /\ Bus!Bytes(log, lines, E) = Total(f, T, BusBytes)
      /\ Bus!Bytes(log, later, Subs) = Total(f, H \ T, BusBytes)
      /\ Bus!Bytes(log, lines, E) \in Nat /\ Bus!Bytes(log, later, Subs) \in Nat
  BY <1>1, <1>2, BusBytesAre
<1> HIDE DEF H, T, f
<1>4. Total(f, H, BusBytes) = Total(f, T, BusBytes) + Total(f, H \ T, BusBytes)
  BY <1>1, <1>2, <1>3, TotalSplits
<1> QED BY <1>3, <1>4

\* One event more in the queue of s, or one less in the other direction.
OneEventMore(lines, later, s, n) ==
    /\ n \notin Bus!Range(lines[s]) /\ Bus!Range(later[s]) = Bus!Range(lines[s]) \cup {n}
    /\ \A t \in Subs \ {s} : later[t] = lines[t]
LEMMA BytesOfOne ==
    ASSUME NEW log \in Seq(Bus!Events), NEW lines, NEW later, NEW s \in Subs, NEW n \in DOMAIN log,
           OneEventMore(lines, later, s, n), log[n].size \in 0..BusBytes
    PROVE  Bus!Bytes(log, later, Subs) = Bus!Bytes(log, lines, Subs) + log[n].size
<1> DEFINE H == BusHeld(log, later, Subs)
           x == <<s, n>>
           f == BusSizes(log)
<1>1. Subs \in SUBSET Subs /\ BusBytes \in Nat
  BY BusAssumption
<1>2. x \in H /\ BusHeld(log, lines, Subs) = H \ {x}
  <2>1. x \in H
    BY DEF BusHeld, OneEventMore
  <2>2. BusHeld(log, lines, Subs) \subseteq H \ {x}
    BY DEF BusHeld, OneEventMore
  <2>3. ASSUME NEW y \in H \ {x} PROVE y \in BusHeld(log, lines, Subs)
    <3>1. y \in Subs \X DOMAIN log /\ y[2] \in Bus!Range(later[y[1]]) /\ ~ (y[1] = s /\ y[2] = n)
      BY DEF BusHeld
    <3>2. y[2] \in Bus!Range(lines[y[1]])
      BY <3>1 DEF OneEventMore
    <3> QED BY <3>1, <3>2 DEF BusHeld
  <2> QED BY <2>1, <2>2, <2>3
<1>3. f[x] = log[n].size
  BY DEF BusSizes
<1>4. /\ IsFiniteSet(H)
      /\ Bus!Bytes(log, later, Subs) = Total(f, H, BusBytes)
      /\ Bus!Bytes(log, lines, Subs) = Total(f, H \ {x}, BusBytes)
      /\ Bus!Bytes(log, lines, Subs) \in Nat
  BY <1>1, <1>2, BusBytesAre
<1> HIDE DEF H, x, f
<1>5. Total(f, H, BusBytes) = f[x] + Total(f, H \ {x}, BusBytes)
  BY <1>1, <1>2, <1>3, <1>4, TotalWithout
<1> QED BY <1>3, <1>4, <1>5

\* A publication that nobody has queued yet.
LEMMA BytesOfLonger ==
    ASSUME NEW log \in Seq(Bus!Events), NEW e \in Bus!Events, NEW lines,
           \A s \in Subs : Bus!Range(lines[s]) \subseteq {0} \cup DOMAIN log
    PROVE  Bus!Bytes(Append(log, e), lines, Subs) = Bus!Bytes(log, lines, Subs)
<1> DEFINE longer == Append(log, e)
           H == BusHeld(log, lines, Subs)
<1>1. /\ longer \in Seq(Bus!Events) /\ Len(longer) = Len(log) + 1
      /\ \A i \in 1..Len(log) : longer[i] = log[i]
  BY AppendProperties
<1>2. Len(log) \in Nat /\ DOMAIN log = 1..Len(log) /\ DOMAIN longer = 1..(Len(log) + 1)
  BY <1>1, LenProperties
<1> HIDE DEF longer
<1>3. Subs \in SUBSET Subs
  OBVIOUS
<1>4. BusHeld(longer, lines, Subs) = H
  <2>1. ASSUME NEW s \in Subs, NEW i \in Bus!Range(lines[s]) PROVE i \in DOMAIN longer <=> i \in DOMAIN log
    BY <1>2
  <2>2. \A x \in Subs \X DOMAIN longer : x[2] \in Bus!Range(lines[x[1]]) => x[2] \in DOMAIN log
    BY <2>1
  <2>3. \A x \in Subs \X DOMAIN log : x[2] \in DOMAIN longer
    BY <1>2
  <2> QED BY <2>2, <2>3 DEF BusHeld
<1>5. \A x \in H : BusSizes(longer)[x] = BusSizes(log)[x]
  <2> SUFFICES ASSUME NEW x \in H PROVE BusSizes(longer)[x] = BusSizes(log)[x]
    OBVIOUS
  <2>1. x \in Subs \X DOMAIN log /\ x \in Subs \X DOMAIN longer
    BY <1>2 DEF BusHeld
  <2>2. longer[x[2]] = log[x[2]]
    BY <1>1, <1>2, <2>1
  <2> QED BY <2>1, <2>2 DEF BusSizes
<1> HIDE DEF H
<1>6. Total(BusSizes(longer), H, BusBytes) = Total(BusSizes(log), H, BusBytes)
  BY <1>5, TotalDepends
<1> QED BY <1>1, <1>3, <1>4, <1>6, BusBytesAre DEF longer, H

-----------------------------------------------------------------------------
(* A publication goes through the subscriptions in some order.            *)

LEMMA OfferedInOrder ==
    ASSUME NEW N \in Nat, NEW order, Len(order) = N
    PROVE  \E g : /\ g[0] = Bus!Now
                  /\ \A k \in 1..N : g[k] = Bus!Offered(g[k - 1], order[k])
                  /\ Bus!OfferedAll(order) = g[N]
<1> DEFINE Step(g, k) == IF k = 0 THEN Bus!Now ELSE Bus!Offered(g[k - 1], order[k])
           T == {m \in 0..N : \E g : g = [k \in 0..m |-> Step(g, k)]}
<1>1. 0 \in T
  <2> DEFINE g == [k \in 0..0 |-> Bus!Now]
  <2>1. g = [k \in 0..0 |-> Step(g, k)]
    OBVIOUS
  <2>2. 0 \in 0..N
    OBVIOUS
  <2> HIDE DEF g, Step
  <2> QED BY <2>1, <2>2
<1>2. ASSUME NEW m \in 0..N, m \in T, m < N PROVE m + 1 \in T
  <2>1. PICK g : g = [k \in 0..m |-> Step(g, k)]
    BY <1>2
  <2> DEFINE h == [k \in 0..(m + 1) |-> IF k = m + 1 THEN Bus!Offered(g[m], order[m + 1]) ELSE g[k]]
  <2>2. \A k \in 0..(m + 1) : h[k] = Step(h, k)
    <3> SUFFICES ASSUME NEW k \in 0..(m + 1) PROVE h[k] = Step(h, k)
      OBVIOUS
    <3>1. CASE k = m + 1
      <4>1. h[k] = Bus!Offered(g[m], order[k]) /\ k # 0 /\ k - 1 = m /\ m \in 0..(m + 1) /\ m # m + 1
        BY <3>1
      <4>2. h[k - 1] = g[m]
        BY <4>1
      <4> HIDE DEF h
      <4> QED BY <4>1, <4>2, Zenon
    <3>2. CASE k # m + 1
      <4>1. k \in 0..m /\ h[k] = g[k]
        BY <3>2
      <4>2. g[k] = Step(g, k)
        BY <2>1, <4>1
      <4>3. CASE k = 0
        <5> HIDE DEF h
        <5> QED BY <4>1, <4>2, <4>3
      <4>4. CASE k # 0
        <5>1. k - 1 \in 0..(m + 1) /\ k - 1 # m + 1
          BY <4>1, <4>4
        <5>2. h[k - 1] = g[k - 1]
          BY <5>1
        <5> HIDE DEF h
        <5> QED BY <4>1, <4>2, <4>4, <5>2, Zenon
      <4> QED BY <4>3, <4>4
    <3> QED BY <3>1, <3>2
  <2>3. h = [k \in 0..(m + 1) |-> h[k]]
    OBVIOUS
  <2>4. m + 1 \in 0..N
    BY <1>2
  <2> HIDE DEF h
  <2>5. h = [k \in 0..(m + 1) |-> Step(h, k)]
    <3> HIDE DEF Step
    <3> QED BY <2>2, <2>3
  <2> QED BY <2>4, <2>5
<1> HIDE DEF T
<1>3. N \in T
  <2>1. N \in 0..N
    OBVIOUS
  <2>2. \A m \in 0..N : m \in T /\ m < N => m + 1 \in T
    BY <1>2
  <2> QED BY <1>1, <2>1, <2>2, UpTo
<1>4. PICK g : g = [k \in 0..N |-> Step(g, k)]
  BY <1>3 DEF T
<1> DEFINE c == CHOOSE now : now = [k \in 0..N |-> Step(now, k)]
<1>5. c = [k \in 0..N |-> Step(c, k)]
  BY <1>4, Zenon
<1>6. Bus!OfferedAll(order) = c[N]
  BY Zenon DEF Bus!OfferedAll
<1> HIDE DEF c
<1>7. c[0] = Bus!Now /\ \A k \in 1..N : c[k] = Bus!Offered(c[k - 1], order[k])
  BY <1>5
<1> QED BY <1>6, <1>7


-----------------------------------------------------------------------------
(* The event bus.                                                          *)

LEMMA BusSteps == [ServicesNext]_allVars => [Bus!Next]_(Bus!vars)
<1>1. UNCHANGED busVars => UNCHANGED Bus!vars
  BY DEF busVars, Bus!vars
<1> QED BY <1>1
      DEF ServicesNext, LedgerStep, BusStep, StreamStep, FenceStep, MediaStep, NetStep,
          SettingsStep, PanelStep, JoinStep, GroupStep, allVars

BusShaped ==
    /\ published \in Seq(Bus!Events) /\ busClosed \in BOOLEAN /\ ended \subseteq Subs
    /\ phase \in [Subs -> {"new", "open", "closed"}]
    /\ consumer \in [Subs -> {"waits", "busy", "ended"}]
    /\ wish \in [Subs -> {<< >>} \cup Bus!Wishes]
    /\ line \in [Subs -> Seq(Nat)] /\ given \in [Subs -> Seq(Nat)]
    /\ begun \in [Subs -> Nat] /\ until \in [Subs -> Nat]
    /\ \A s \in Subs : /\ begun[s] <= Len(published) /\ until[s] <= Len(published)
                       /\ Len(line[s]) <= LineCap
    /\ Cardinality(Bus!Open) <= BusCap

\* The budget counts what is queued, and nothing is queued that it has no room for.
BusCounted ==
    /\ queued_bytes \in 0..BusBytes
    /\ queued_bytes = Bus!Bytes(published, line, Subs)
    /\ \A s \in Subs : \A i \in Bus!Range(line[s]) \cap DOMAIN published :
          published[i].size <= BusBytes

\* An open subscription has been given or has queued what it asked for; one
\* that ended keeps what it was given, and a stream its last word.
Fed(s) ==
    /\ phase[s] = "new" => line[s] = << >> /\ given[s] = << >> /\ consumer[s] = "waits"
    /\ phase[s] = "open" => /\ Bus!Rising(given[s] \o line[s])
                            /\ Bus!Range(given[s] \o line[s]) = Bus!Due(s)
    /\ phase[s] = "closed" =>
          /\ Bus!Rising(given[s]) /\ Bus!Range(given[s]) \subseteq Bus!Due(s)
          /\ \A i \in Bus!Due(s), j \in Bus!Range(given[s]) : i < j => i \in Bus!Range(given[s])
          /\ s \in Callbacks => line[s] = << >> /\ consumer[s] = "ended"
          /\ line[s] \in {<< >>, << 0 >>}
          /\ consumer[s] = "waits" => line[s] = << 0 >>

BusInv == BusShaped /\ BusCounted /\ \A s \in Subs : Fed(s)

LEMMA BusTypes ==
    ASSUME BusInv, NEW s \in Subs
    PROVE  /\ line[s] \in Seq(Nat) /\ given[s] \in Seq(Nat) /\ given[s] \o line[s] \in Seq(Nat)
           /\ Len(published) \in Nat /\ DOMAIN published = 1..Len(published)
           /\ begun[s] \in Nat /\ until[s] \in Nat
           /\ begun[s] <= Len(published) /\ until[s] <= Len(published)
           /\ Bus!Due(s) \subseteq DOMAIN published
<1>1. /\ line[s] \in Seq(Nat) /\ given[s] \in Seq(Nat)
      /\ begun[s] \in Nat /\ until[s] \in Nat /\ published \in Seq(Bus!Events)
      /\ begun[s] <= Len(published) /\ until[s] <= Len(published)
  BY DEF BusInv, BusShaped
<1>2. /\ given[s] \o line[s] \in Seq(Nat) /\ Len(published) \in Nat
      /\ DOMAIN published = 1..Len(published)
  BY <1>1, ConcatProperties, LenProperties
<1>3. Bus!Due(s) \subseteq DOMAIN published
  BY <1>1, <1>2 DEF Bus!Due
<1> QED BY <1>1, <1>2, <1>3

\* Nothing but events that were published is queued, and the last word of a stream.
LEMMA BusQueues ==
    ASSUME BusInv, NEW s \in Subs
    PROVE  /\ Bus!Range(line[s]) \subseteq {0} \cup DOMAIN published
           /\ phase[s] = "open" => Bus!Range(line[s]) \subseteq DOMAIN published
<1>1. line[s] \in Seq(Nat) /\ given[s] \in Seq(Nat) /\ Bus!Due(s) \subseteq DOMAIN published
  BY BusTypes
<1>2. CASE phase[s] = "open"
  BY <1>1, <1>2, RangeOfTwo DEF BusInv, Fed
<1>3. CASE phase[s] # "open"
  <2>1. line[s] \in {<< >>, << 0 >>}
    BY <1>3 DEF BusInv, BusShaped, Fed
  <2>2. Bus!Range(<< >>) = {} /\ Bus!Range(<< 0 >>) = {0}
    BY DEF Bus!Range
  <2> QED BY <1>3, <2>1, <2>2
<1> QED BY <1>2, <1>3

LEMMA BusIsSound == BusInv => Bus!TypeOK /\ Bus!BytesCounted /\ Bus!NoHoles
<1> SUFFICES ASSUME BusInv PROVE Bus!TypeOK /\ Bus!BytesCounted /\ Bus!NoHoles
  OBVIOUS
<1>1. ASSUME NEW s \in Subs PROVE line[s] \in Seq({0} \cup DOMAIN published)
  BY BusTypes, BusQueues, LineOver
<1>2. Bus!TypeOK
  BY <1>1, BusTotals DEF Bus!TypeOK, Bus!STOP, BusInv, BusShaped
<1>3. Bus!BytesCounted
  BY BusAssumption DEF Bus!BytesCounted, BusInv, BusCounted
<1>4. Bus!NoHoles
  BY DEF Bus!NoHoles, Bus!STOP, BusInv, Fed
<1> QED BY <1>2, <1>3, <1>4

\* The subscriptions of E end, and nothing else happens.
LEMMA BusEnds ==
    ASSUME BusInv, NEW E \in SUBSET Bus!Open, UNCHANGED <<published, wish, begun, given>>,
           line' = [s \in Subs |-> IF s \notin E THEN line[s]
                                   ELSE IF s \in Callbacks THEN << >> ELSE << 0 >>],
           queued_bytes' = queued_bytes - Bus!Bytes(published, line, E),
           phase' = [s \in Subs |-> IF s \in E THEN "closed" ELSE phase[s]],
           until' = [s \in Subs |-> IF s \in E THEN Len(published) ELSE until[s]],
           consumer' \in [Subs -> {"waits", "busy", "ended"}],
           \A s \in Subs \ E : consumer'[s] = consumer[s],
           \A s \in E \cap Callbacks : consumer'[s] = "ended",
           ended' \subseteq Subs, busClosed' \in BOOLEAN
    PROVE  BusInv'
<1>1. /\ E \subseteq Subs /\ IsFiniteSet(Subs) /\ LineCap \in Nat /\ 1 <= LineCap
      /\ \A s \in E : phase[s] = "open"
  BY BusAssumption DEF Bus!Open
<1>2. /\ << >> \in Seq(Nat) /\ << 0 >> \in Seq(Nat) /\ Len(<< >>) = 0 /\ Len(<< 0 >>) = 1
      /\ Bus!Range(<< >>) = {} /\ Bus!Range(<< 0 >>) = {0}
  BY DEF Bus!Range
<1>3. \A s \in Subs :
         /\ s \in E => /\ phase'[s] = "closed" /\ until'[s] = Len(published)
                       /\ line'[s] = IF s \in Callbacks THEN << >> ELSE << 0 >>
         /\ s \notin E => phase'[s] = phase[s] /\ until'[s] = until[s] /\ line'[s] = line[s]
  BY <1>1
<1>4. published \in Seq(Bus!Events) /\ Len(published) \in Nat /\ DOMAIN published = 1..Len(published)
  BY LenProperties DEF BusInv, BusShaped
<1>5. BusShaped'
  <2>1. Cardinality(Bus!Open') <= BusCap
    <3>1. Bus!Open' \subseteq Bus!Open /\ Bus!Open \subseteq Subs
      BY <1>3 DEF Bus!Open
    <3>2. IsFiniteSet(Bus!Open) /\ Cardinality(Bus!Open') <= Cardinality(Bus!Open)
      BY <1>1, <3>1, FS_Subset
    <3>3. /\ Cardinality(Bus!Open) \in Nat /\ Cardinality(Bus!Open') \in Nat /\ BusCap \in Nat
          /\ Cardinality(Bus!Open) <= BusCap
      BY <3>1, <3>2, FS_Subset, FS_CardinalityType, BusAssumption DEF BusInv, BusShaped
    <3> QED BY <3>2, <3>3
  <2>2. line' \in [Subs -> Seq(Nat)]
    BY <1>1, <1>2 DEF BusInv, BusShaped
  <2>3. /\ phase' \in [Subs -> {"new", "open", "closed"}] /\ until' \in [Subs -> Nat]
        /\ \A s \in Subs : until'[s] <= Len(published)
    BY <1>1, <1>4 DEF BusInv, BusShaped
  <2>4. \A s \in Subs : Len(line'[s]) <= LineCap
    <3> SUFFICES ASSUME NEW s \in Subs PROVE Len(line'[s]) <= LineCap
      OBVIOUS
    <3>1. CASE s \in E
      BY <1>1, <1>2, <1>3, <3>1
    <3>2. CASE s \notin E
      BY <1>3, <3>2 DEF BusInv, BusShaped
    <3> QED BY <3>1, <3>2
  <2> QED BY <2>1, <2>2, <2>3, <2>4 DEF BusInv, BusShaped
<1>6. BusCounted'
  <2>1. /\ Bus!Bytes(published, line', Subs)
              = Bus!Bytes(published, line, Subs) - Bus!Bytes(published, line, E)
        /\ Bus!Bytes(published, line', Subs) <= Bus!Bytes(published, line, Subs)
        /\ Bus!Bytes(published, line', Subs) \in Nat
    <3>1. \A s \in E : Bus!Range(line'[s]) \cap DOMAIN published = {}
      BY <1>1, <1>2, <1>3, <1>4
    <3>2. \A s \in Subs \ E : line'[s] = line[s]
      BY <1>3
    <3> DEFINE later == line'
    <3>3. /\ E \in SUBSET Subs /\ published \in Seq(Bus!Events)
          /\ \A s \in E : Bus!Range(later[s]) \cap DOMAIN published = {}
          /\ \A s \in Subs \ E : later[s] = line[s]
      BY <1>1, <1>4, <3>1, <3>2
    <3> HIDE DEF later
    <3>4. /\ Bus!Bytes(published, later, Subs)
                = Bus!Bytes(published, line, Subs) - Bus!Bytes(published, line, E)
          /\ Bus!Bytes(published, later, Subs) <= Bus!Bytes(published, line, Subs)
          /\ Bus!Bytes(published, later, Subs) \in Nat
      BY <3>3, BytesOfStopped
    <3> QED BY <3>4 DEF later
  <2>2. queued_bytes \in 0..BusBytes /\ queued_bytes = Bus!Bytes(published, line, Subs)
        /\ BusBytes \in Nat
    BY BusAssumption DEF BusInv, BusCounted
  <2>3. queued_bytes' = Bus!Bytes(published, line', Subs) /\ queued_bytes' \in 0..BusBytes
    BY <2>1, <2>2
  <2>4. ASSUME NEW s \in Subs, NEW i \in Bus!Range(line'[s]) \cap DOMAIN published
        PROVE  published[i].size <= BusBytes
    <3>1. CASE s \in E
      BY <1>1, <1>2, <1>3, <1>4, <2>4, <3>1
    <3>2. CASE s \notin E
      BY <1>3, <2>4, <3>2 DEF BusInv, BusCounted
    <3> QED BY <3>1, <3>2
  <2> QED BY <2>3, <2>4 DEF BusCounted
<1>7. ASSUME NEW s \in Subs PROVE Fed(s)'
  <2>1. CASE s \notin E
    <3>1. Bus!Due(s)' = Bus!Due(s)
      BY <1>3, <2>1 DEF Bus!Due
    <3> QED BY <1>3, <2>1, <3>1 DEF BusInv, Fed
  <2>2. CASE s \in E
    <3>1. phase[s] = "open" /\ phase'[s] = "closed" /\ until'[s] = Len(published)
      BY <1>1, <1>3, <2>2
    <3>2. Bus!Due(s)' = Bus!Due(s)
      BY <3>1 DEF Bus!Due
    <3>3. /\ given[s] \in Seq(Nat) /\ line[s] \in Seq(Nat)
          /\ Bus!Rising(given[s] \o line[s])
          /\ Bus!Range(given[s] \o line[s]) = Bus!Due(s)
      BY <3>1, BusTypes DEF BusInv, Fed
    <3>4. /\ Bus!Rising(given[s])
          /\ \A x \in Bus!Range(given[s]), y \in Bus!Range(line[s]) : x < y
          /\ Bus!Due(s) = Bus!Range(given[s]) \cup Bus!Range(line[s])
      BY <3>3, RisingOfTwo, RangeOfTwo
    <3>5. ASSUME NEW i \in Bus!Due(s), NEW j \in Bus!Range(given[s]), i < j
          PROVE  i \in Bus!Range(given[s])
      <4>1. i \in Nat /\ j \in Nat
        BY <1>4, <3>4, BusTypes
      <4>2. i \in Bus!Range(line[s]) => j < i
        BY <3>4
      <4> QED BY <3>4, <3>5, <4>1, <4>2
    <3>6. /\ s \in Callbacks => line'[s] = << >> /\ consumer'[s] = "ended"
          /\ line'[s] \in {<< >>, << 0 >>}
          /\ consumer'[s] = "waits" => line'[s] = << 0 >>
      BY <1>3, <2>2
    <3> QED BY <3>1, <3>2, <3>4, <3>5, <3>6 DEF Fed
  <2> QED BY <2>1, <2>2
<1> QED BY <1>5, <1>6, <1>7 DEF BusInv


LEMMA BusClosesOwn == ASSUME BusInv, Bus!CloseOwner \/ Bus!Shutdown PROVE BusInv'
<1>1. PICK E \in SUBSET Bus!Open :
         /\ UNCHANGED published
         /\ Bus!Becomes(Bus!StoppedAll(E), FALSE) /\ Bus!Cancels(Bus!StoppedAll(E))
         /\ UNCHANGED <<wish, begun, given>> /\ busClosed' \in {busClosed, TRUE}
  BY DEF Bus!CloseOwner, Bus!Shutdown
<1>2. /\ line' = [s \in Subs |-> IF s \notin E THEN line[s]
                                 ELSE IF s \in Callbacks THEN << >> ELSE << 0 >>]
      /\ queued_bytes' = queued_bytes - Bus!Bytes(published, line, E)
      /\ phase' = [s \in Subs |-> IF s \in E THEN "closed" ELSE phase[s]]
      /\ until' = [s \in Subs |-> IF s \in E THEN Len(published) ELSE until[s]]
      /\ ended' = ended
  BY <1>1 DEF Bus!Becomes, Bus!StoppedAll, Bus!STOP
<1>3. consumer' = [s \in Subs |-> IF s \in E \cap Callbacks THEN "ended" ELSE consumer[s]]
  BY <1>1 DEF Bus!Cancels, Bus!StoppedAll
<1>4. /\ consumer' \in [Subs -> {"waits", "busy", "ended"}]
      /\ \A s \in Subs \ E : consumer'[s] = consumer[s]
      /\ \A s \in E \cap Callbacks : consumer'[s] = "ended"
      /\ ended' \subseteq Subs /\ busClosed' \in BOOLEAN
  BY <1>1, <1>2, <1>3 DEF BusInv, BusShaped, Bus!Open
<1> QED BY <1>1, <1>2, <1>4, BusEnds

\* A stream whose reader leaves, a callback whose task is cancelled.
LEMMA BusLosesOne ==
    ASSUME BusInv, NEW s \in Subs, Bus!Leaves(s) \/ Bus!CancelTask(s) PROVE BusInv'
<1>1. /\ phase[s] = "open" /\ UNCHANGED <<published, wish, busClosed, begun, given>>
      /\ consumer' = [consumer EXCEPT ![s] = "ended"]
      /\ \/ Bus!Becomes(Bus!Stopped(Bus!Now, s), FALSE)
         \/ Bus!Becomes(Bus!Stopped(Bus!Now, s), TRUE)
         \/ UNCHANGED <<phase, line, ended, queued_bytes, until>>
  BY DEF Bus!Leaves, Bus!CancelTask
<1>2. /\ consumer' \in [Subs -> {"waits", "busy", "ended"}] /\ consumer'[s] = "ended"
      /\ \A t \in Subs \ {s} : consumer'[t] = consumer[t]
      /\ busClosed \in BOOLEAN /\ ended \subseteq Subs
      /\ line \in [Subs -> Seq(Nat)]
  BY <1>1 DEF BusInv, BusShaped
<1>3. CASE UNCHANGED <<phase, line, ended, queued_bytes, until>>
  <2>1. BusShaped' /\ BusCounted'
    BY <1>1, <1>2, <1>3 DEF BusInv, BusShaped, BusCounted, Bus!Open
  <2>2. ASSUME NEW t \in Subs PROVE Fed(t)'
    <3>1. Fed(t) /\ Bus!Due(t)' = Bus!Due(t)
      BY <1>1, <1>3 DEF BusInv, Bus!Due
    <3> QED BY <1>1, <1>2, <1>3, <3>1 DEF Fed
  <2> QED BY <2>1, <2>2 DEF BusInv
<1>4. CASE ~ UNCHANGED <<phase, line, ended, queued_bytes, until>>
  <2> DEFINE E == {s}
             now == Bus!Stopped(Bus!Now, s)
  <2>1. /\ now.ended = E
        /\ now.queue = [line EXCEPT ![s] = IF s \in Callbacks THEN << >> ELSE << 0 >>]
        /\ now.total = queued_bytes - Bus!Bytes(published, line, E)
    BY <1>1 DEF Bus!Stopped, Bus!Now, Bus!STOP
  <2>2. \/ Bus!Becomes(now, FALSE)
        \/ Bus!Becomes(now, TRUE)
    BY <1>1, <1>4
  <2> HIDE DEF now
  <2>3. /\ line' = now.queue /\ queued_bytes' = now.total
        /\ phase' = [t \in Subs |-> IF t \in now.ended THEN "closed" ELSE phase[t]]
        /\ until' = [t \in Subs |-> IF t \in now.ended THEN Len(published) ELSE until[t]]
        /\ ended' \in {ended, ended \cup now.ended}
    BY <1>1, <2>2 DEF Bus!Becomes
  <2>4. line' = [t \in Subs |-> IF t \notin E THEN line[t]
                                ELSE IF t \in Callbacks THEN << >> ELSE << 0 >>]
    BY <1>2, <2>1, <2>3
  <2>5. E \in SUBSET Bus!Open /\ ended' \subseteq Subs
    BY <1>1, <1>2, <2>1, <2>3 DEF Bus!Open
  <2>6. /\ queued_bytes' = queued_bytes - Bus!Bytes(published, line, E)
        /\ phase' = [t \in Subs |-> IF t \in E THEN "closed" ELSE phase[t]]
        /\ until' = [t \in Subs |-> IF t \in E THEN Len(published) ELSE until[t]]
    BY <2>1, <2>3
  <2>7. /\ \A t \in Subs \ E : consumer'[t] = consumer[t]
        /\ \A t \in E \cap Callbacks : consumer'[t] = "ended"
    BY <1>2
  <2> HIDE DEF E
  <2> QED BY <1>1, <1>2, <2>4, <2>5, <2>6, <2>7, BusEnds
<1> QED BY <1>3, <1>4

LEMMA BusSubscribes == ASSUME BusInv, NEW s \in Subs, Bus!Subscribe(s) PROVE BusInv'
<1>1. /\ phase[s] = "new" /\ Cardinality(Bus!Open) < BusCap
      /\ phase' = [phase EXCEPT ![s] = "open"] /\ begun' = [begun EXCEPT ![s] = Len(published)]
      /\ UNCHANGED <<published, line, consumer, ended, queued_bytes, busClosed, until, given>>
  BY BusTotals DEF Bus!Subscribe
<1>2. PICK w \in Bus!Wishes : wish' = [wish EXCEPT ![s] = w]
  BY DEF Bus!Subscribe
<1>3. /\ line[s] = << >> /\ given[s] = << >> /\ Len(published) \in Nat
      /\ phase \in [Subs -> {"new", "open", "closed"}]
      /\ wish \in [Subs -> {<< >>} \cup Bus!Wishes] /\ begun \in [Subs -> Nat]
  BY <1>1, BusTypes DEF BusInv, BusShaped, Fed
<1>4. BusShaped'
  <2>1. Bus!Open' = Bus!Open \cup {s} /\ s \notin Bus!Open /\ Bus!Open \subseteq Subs
    BY <1>1, <1>3 DEF Bus!Open
  <2>2. IsFiniteSet(Bus!Open)
    BY <2>1, BusAssumption, FS_Subset
  <2>3. Cardinality(Bus!Open') = Cardinality(Bus!Open) + 1 /\ Cardinality(Bus!Open) \in Nat
    BY <2>1, <2>2, FS_AddElement, FS_CardinalityType
  <2>4. Cardinality(Bus!Open') <= BusCap
    BY <1>1, <2>3, BusAssumption
  <2>5. /\ phase' \in [Subs -> {"new", "open", "closed"}]
        /\ wish' \in [Subs -> {<< >>} \cup Bus!Wishes] /\ begun' \in [Subs -> Nat]
        /\ \A t \in Subs : begun'[t] <= Len(published)
    BY <1>1, <1>2, <1>3 DEF BusInv, BusShaped
  <2> QED BY <1>1, <2>4, <2>5 DEF BusInv, BusShaped
<1>5. BusCounted'
  BY <1>1 DEF BusInv, BusCounted
<1>6. ASSUME NEW t \in Subs PROVE Fed(t)'
  <2>1. CASE t = s
    <3>1. phase'[s] = "open" /\ begun'[s] = Len(published)
      BY <1>1, <1>3
    <3>2. Bus!Due(s)' = {}
      <4>1. (Len(published) + 1)..Len(published) = {}
        BY <1>3
      <4> QED BY <1>1, <3>1, <4>1 DEF Bus!Due
    <3>3. << >> \o << >> = << >> /\ Bus!Rising(<< >>) /\ Bus!Range(<< >>) = {}
      BY DEF Bus!Rising, Bus!Range
    <3> QED BY <1>1, <1>3, <2>1, <3>1, <3>2, <3>3 DEF Fed
  <2>2. CASE t # s
    <3>1. /\ phase'[t] = phase[t] /\ begun'[t] = begun[t] /\ wish'[t] = wish[t]
          /\ published' = published /\ until' = until
      BY <1>1, <1>2, <1>3, <2>2
    <3>2. Bus!Due(t)' = Bus!Due(t) /\ Fed(t)
      BY <3>1 DEF Bus!Due, BusInv
    <3> QED BY <1>1, <3>1, <3>2 DEF Fed
  <2> QED BY <2>1, <2>2
<1> QED BY <1>4, <1>5, <1>6 DEF BusInv

LEMMA AppendBefore ==
    ASSUME NEW a \in Seq(Nat), NEW b \in Seq(Nat), NEW f \in Nat
    PROVE  Append(a, f) \in Seq(Nat) /\ Append(a, f) \o b = a \o (<<f>> \o b)
<1>1. <<f>> \in Seq(Nat)
  OBVIOUS
<1>2. (a \o <<f>>) \o b = a \o (<<f>> \o b)
  BY <1>1, ConcatAssociative
<1>3. Append(a, f) = a \o <<f>> /\ Append(a, f) \in Seq(Nat)
  BY AppendIsConcat, AppendProperties
<1> QED BY <1>2, <1>3

LEMMA BusTakes == ASSUME BusInv, NEW s \in Subs, Bus!Take(s) PROVE BusInv'
<1> DEFINE h == Head(line[s])
           rest == Tail(line[s])
<1>1. /\ phase[s] # "new" /\ line[s] # << >> /\ h # 0
      /\ line' = [line EXCEPT ![s] = rest] /\ given' = [given EXCEPT ![s] = Append(given[s], h)]
      /\ queued_bytes' = queued_bytes - published[h].size
      /\ consumer' = [consumer EXCEPT ![s] = "busy"]
      /\ UNCHANGED <<published, phase, wish, ended, busClosed, begun, until>>
  BY DEF Bus!Take, Bus!STOP
<1>2. /\ line[s] \in Seq(Nat) /\ given[s] \in Seq(Nat) /\ DOMAIN published = 1..Len(published)
      /\ Len(published) \in Nat /\ Len(line[s]) \in Nat
  BY BusTypes, LenProperties
<1>3. /\ h \in Nat /\ rest \in Seq(Nat) /\ Len(rest) = Len(line[s]) - 1
      /\ <<h>> \o rest = line[s]
  BY <1>1, <1>2, HeadAndTail
<1>4. Head(<< 0 >>) = 0
  OBVIOUS
<1>5. phase[s] = "open"
  BY <1>1, <1>4 DEF BusInv, BusShaped, Fed
<1> HIDE DEF h, rest
<1>6. <<h>> \in Seq(Nat) /\ Bus!Range(<<h>>) = {h}
  BY <1>3 DEF Bus!Range
<1>7. /\ Bus!Rising(given[s] \o line[s]) /\ Bus!Range(given[s] \o line[s]) = Bus!Due(s)
      /\ Bus!Rising(line[s])
  BY <1>2, <1>5, RisingOfTwo DEF BusInv, Fed
<1>8. Bus!Range(line[s]) = {h} \cup Bus!Range(rest) /\ h \notin Bus!Range(rest)
  <2>1. Bus!Range(line[s]) = Bus!Range(<<h>>) \cup Bus!Range(rest)
    BY <1>3, <1>6, RangeOfTwo
  <2>2. \A x \in Bus!Range(<<h>>), y \in Bus!Range(rest) : x < y
    BY <1>3, <1>6, <1>7, RisingOfTwo
  <2>3. h \in Bus!Range(rest) => h < h
    BY <1>6, <2>2
  <2>4. ~ (h < h)
    BY <1>3
  <2> QED BY <1>6, <2>1, <2>3, <2>4
<1>9. h \in DOMAIN published
  BY <1>5, <1>8, BusQueues
<1>10. published[h].size \in 0..BusBytes
  <2>1. published[h] \in Bus!Events
    BY <1>2, <1>9, ElementOfSeq DEF BusInv, BusShaped
  <2>2. published[h].size \in Nat
    BY <2>1 DEF Bus!Events
  <2>3. published[h].size <= BusBytes
    BY <1>8, <1>9 DEF BusInv, BusCounted
  <2> QED BY <2>2, <2>3, BusAssumption
<1>11. /\ line'[s] = rest /\ given'[s] = Append(given[s], h)
       /\ \A t \in Subs \ {s} : line'[t] = line[t] /\ given'[t] = given[t] /\ consumer'[t] = consumer[t]
  BY <1>1 DEF BusInv, BusShaped
<1>12. Append(given[s], h) \in Seq(Nat) /\ Append(given[s], h) \o rest = given[s] \o line[s]
  <2>1. /\ Append(given[s], h) \in Seq(Nat)
        /\ Append(given[s], h) \o rest = given[s] \o (<<h>> \o rest)
    BY <1>2, <1>3, AppendBefore
  <2>2. \A b, c, d : c = d => b \o c = b \o d
    OBVIOUS
  <2>3. given[s] \o (<<h>> \o rest) = given[s] \o line[s]
    BY <1>3, <2>2
  <2> QED BY <2>1, <2>3, Zenon
<1>13. BusShaped'
  <2>1. /\ line' \in [Subs -> Seq(Nat)] /\ given' \in [Subs -> Seq(Nat)]
        /\ consumer' \in [Subs -> {"waits", "busy", "ended"}]
    BY <1>1, <1>3, <1>12 DEF BusInv, BusShaped
  <2>2. Len(line'[s]) <= LineCap
    <3>1. Len(line[s]) <= LineCap /\ LineCap \in Nat
      BY BusAssumption DEF BusInv, BusShaped
    <3>2. \A a, b \in Nat : a <= b => a - 1 <= b
      OBVIOUS
    <3>3. Len(line[s]) - 1 <= LineCap
      BY <1>2, <3>1, <3>2, Zenon
    <3> QED BY <1>3, <1>11, <3>3
  <2>3. \A t \in Subs : Len(line'[t]) <= LineCap
    BY <1>11, <2>2 DEF BusInv, BusShaped
  <2> QED BY <1>1, <2>1, <2>3 DEF BusInv, BusShaped, Bus!Open
<1>14. BusCounted'
  <2> DEFINE later == line'
  <2>1. /\ h \notin Bus!Range(later[s]) /\ Bus!Range(line[s]) = Bus!Range(later[s]) \cup {h}
        /\ \A t \in Subs \ {s} : line[t] = later[t]
        /\ published \in Seq(Bus!Events)
    BY <1>8, <1>11 DEF BusInv, BusShaped
  <2> HIDE DEF later
  <2>2. Bus!Bytes(published, line, Subs) = Bus!Bytes(published, later, Subs) + published[h].size
    <3>1. OneEventMore(later, line, s, h)
      BY <2>1 DEF OneEventMore
    <3> QED BY <1>9, <1>10, <2>1, <3>1, BytesOfOne
  <2>3. Subs \in SUBSET Subs
    OBVIOUS
  <2>4. Bus!Bytes(published, later, Subs) \in Nat
    BY <2>1, <2>3, BusBytesAre
  <2>5. queued_bytes \in 0..BusBytes /\ queued_bytes = Bus!Bytes(published, line, Subs)
    BY DEF BusInv, BusCounted
  <2>6. queued_bytes' = Bus!Bytes(published, later, Subs) /\ queued_bytes' \in 0..BusBytes
    BY SMTT(30), <1>1, <1>10, <2>2, <2>4, <2>5, BusAssumption
  <2>7. \A t \in Subs : Bus!Range(later[t]) \subseteq Bus!Range(line[t])
    BY <2>1
  <2>8. \A t \in Subs : \A i \in Bus!Range(later[t]) \cap DOMAIN published :
           published[i].size <= BusBytes
    BY <2>7 DEF BusInv, BusCounted
  <2> QED BY <1>1, <2>6, <2>8 DEF BusCounted, later
<1>15. ASSUME NEW t \in Subs PROVE Fed(t)'
  <2>1. Bus!Due(t)' = Bus!Due(t)
    BY <1>1 DEF Bus!Due
  <2>2. CASE t = s
    BY <1>1, <1>5, <1>7, <1>11, <1>12, <2>1, <2>2 DEF Fed
  <2>3. CASE t # s
    BY <1>1, <1>11, <2>1, <2>3 DEF BusInv, Fed
  <2> QED BY <2>2, <2>3
<1> QED BY <1>13, <1>14, <1>15 DEF BusInv

LEMMA BusTakesStop == ASSUME BusInv, NEW s \in Subs, Bus!TakeStop(s) PROVE BusInv'
<1>1. /\ line[s] # << >> /\ Head(line[s]) = 0
      /\ line' = [line EXCEPT ![s] = Tail(line[s])]
      /\ consumer' = [consumer EXCEPT ![s] = "ended"]
      /\ UNCHANGED <<published, phase, wish, ended, queued_bytes, busClosed, begun, until, given>>
  BY DEF Bus!TakeStop, Bus!STOP
<1>2. line[s] \in Seq(Nat) /\ DOMAIN published = 1..Len(published) /\ Len(published) \in Nat
  BY BusTypes
<1>3. phase[s] = "closed" /\ line[s] = << 0 >>
  <2>1. 0 \in Bus!Range(line[s])
    <3>1. <<Head(line[s])>> \o Tail(line[s]) = line[s] /\ Tail(line[s]) \in Seq(Nat)
      BY <1>1, <1>2, HeadAndTail
    <3>2. << 0 >> \in Seq(Nat) /\ Bus!Range(<< 0 >>) = {0}
      BY DEF Bus!Range
    <3> QED BY ZenonT(30), <1>1, <3>1, <3>2, RangeOfTwo
  <2>2. phase[s] # "open"
    BY <1>2, <2>1, BusQueues
  <2>3. phase[s] # "new"
    BY <1>1 DEF BusInv, Fed
  <2>4. phase[s] = "closed"
    BY <2>2, <2>3 DEF BusInv, BusShaped
  <2> QED BY <1>1, <2>4 DEF BusInv, Fed
<1>4. Tail(<< 0 >>) = << >> /\ << >> \in Seq(Nat) /\ Len(<< >>) = 0 /\ Bus!Range(<< >>) = {}
  BY DEF Bus!Range
<1>5. /\ line'[s] = << >> /\ consumer'[s] = "ended"
      /\ \A t \in Subs \ {s} : line'[t] = line[t] /\ consumer'[t] = consumer[t]
  BY <1>1, <1>3, <1>4 DEF BusInv, BusShaped
<1>6. BusShaped'
  <2>1. line' \in [Subs -> Seq(Nat)] /\ consumer' \in [Subs -> {"waits", "busy", "ended"}]
    BY <1>1, <1>3, <1>4 DEF BusInv, BusShaped
  <2>2. ASSUME NEW t \in Subs PROVE Len(line'[t]) <= LineCap
    <3>1. 0 <= LineCap
      BY BusAssumption
    <3>2. CASE t = s
      BY <1>4, <1>5, <3>1, <3>2
    <3>3. CASE t # s
      BY <1>5, <3>3 DEF BusInv, BusShaped
    <3> QED BY <3>2, <3>3
  <2> QED BY <1>1, <2>1, <2>2 DEF BusInv, BusShaped, Bus!Open
<1>7. BusCounted'
  <2> DEFINE later == line'
  <2>1. /\ BusHeld(published, later, Subs) = BusHeld(published, line, Subs)
        /\ \A t \in Subs : Bus!Range(later[t]) \subseteq Bus!Range(line[t])
        /\ published \in Seq(Bus!Events)
    <3>1. Bus!Range(<< 0 >>) = {0} /\ 0 \notin DOMAIN published
      BY <1>2 DEF Bus!Range
    <3>2. /\ later[s] = << >> /\ line[s] = << 0 >>
          /\ \A t \in Subs \ {s} : later[t] = line[t]
      BY <1>3, <1>5
    <3> HIDE DEF later
    <3>3. \A t \in Subs : Bus!Range(later[t]) \cap DOMAIN published = Bus!Range(line[t]) \cap DOMAIN published
      BY <1>4, <3>1, <3>2
    <3> QED BY <1>4, <3>1, <3>2, <3>3 DEF BusHeld, BusInv, BusShaped
  <2> HIDE DEF later
  <2>2. Subs \in SUBSET Subs
    OBVIOUS
  <2>3. Bus!Bytes(published, later, Subs) = Bus!Bytes(published, line, Subs)
    BY <2>1, <2>2, BusBytesAre
  <2> QED BY <1>1, <2>1, <2>3 DEF BusInv, BusCounted, later
<1>8. ASSUME NEW t \in Subs PROVE Fed(t)'
  <2>1. Bus!Due(t)' = Bus!Due(t)
    BY <1>1 DEF Bus!Due
  <2>2. CASE t = s
    BY <1>1, <1>3, <1>5, <2>1, <2>2 DEF BusInv, Fed
  <2>3. CASE t # s
    BY <1>1, <1>5, <2>1, <2>3 DEF BusInv, Fed
  <2> QED BY <2>2, <2>3
<1> QED BY <1>6, <1>7, <1>8 DEF BusInv

LEMMA BusIsDone == ASSUME BusInv, NEW s \in Subs, Bus!Done(s) PROVE BusInv'
<1>1. /\ consumer[s] = "busy"
      /\ consumer' = [consumer EXCEPT ![s] = IF phase[s] = "closed" THEN "ended" ELSE "waits"]
      /\ UNCHANGED <<published, phase, wish, line, ended, queued_bytes, busClosed, begun, until, given>>
  BY DEF Bus!Done
<1>2. BusShaped' /\ BusCounted'
  BY <1>1 DEF BusInv, BusShaped, BusCounted, Bus!Open
<1>3. ASSUME NEW t \in Subs PROVE Fed(t)'
  <2>1. Bus!Due(t)' = Bus!Due(t) /\ Fed(t)
    BY <1>1 DEF Bus!Due, BusInv
  <2>2. CASE t = s
    <3>1. consumer'[s] = IF phase[s] = "closed" THEN "ended" ELSE "waits"
      BY <1>1 DEF BusInv, BusShaped
    <3> QED BY <1>1, <2>1, <2>2, <3>1 DEF Fed
  <2>3. CASE t # s
    <3>1. consumer'[t] = consumer[t]
      BY <1>1, <2>3 DEF BusInv, BusShaped
    <3> QED BY <1>1, <2>1, <3>1 DEF Fed
  <2> QED BY <2>2, <2>3
<1> QED BY <1>2, <1>3 DEF BusInv


-----------------------------------------------------------------------------
(* A publication.  The subscriptions of D were offered event n, the last   *)
(* of the log; the rest were not.                                          *)

Publishing(e) == published' = Append(published, e)
LastWord(s) == IF s \in Callbacks THEN << >> ELSE << 0 >>
OfferedTo(log, n, now, D) ==
    /\ now \in [queue : [Subs -> Seq(Nat)], total : 0..BusBytes, ended : SUBSET Subs]
    /\ now.ended \subseteq D /\ now.total = Bus!Bytes(log, now.queue, Subs)
    /\ \A s \in Subs :
          /\ s \in now.ended => now.queue[s] = LastWord(s)
          /\ s \notin now.ended => now.queue[s] = IF s \in D /\ Bus!Matches(wish[s], log[n])
                                                  THEN Append(line[s], n) ELSE line[s]
          /\ Len(now.queue[s]) <= LineCap
          /\ n \in Bus!Range(now.queue[s]) => log[n].size <= BusBytes

LEMMA RangeWithLast ==
    ASSUME NEW q \in Seq(Nat), NEW f \in Nat
    PROVE  /\ Append(q, f) \in Seq(Nat) /\ Len(Append(q, f)) = Len(q) + 1
           /\ Bus!Range(Append(q, f)) = Bus!Range(q) \cup {f}
<1>1. <<f>> \in Seq(Nat) /\ Bus!Range(<<f>>) = {f}
  BY DEF Bus!Range
<1>2. Bus!Range(q \o <<f>>) = Bus!Range(q) \cup Bus!Range(<<f>>)
  BY <1>1, RangeOfTwo
<1>3. Append(q, f) = q \o <<f>>
  BY AppendIsConcat
<1> QED BY <1>1, <1>2, <1>3, AppendProperties

LEMMA OfferStarts ==
    ASSUME BusInv, NEW e \in Bus!Events, published' = Append(published, e)
    PROVE  OfferedTo(published', Len(published'), Bus!Now, {})
<1> DEFINE n == Len(published')
<1>1. /\ published \in Seq(Bus!Events) /\ Len(published) \in Nat /\ n = Len(published) + 1
      /\ DOMAIN published = 1..Len(published)
  BY AppendProperties, LenProperties DEF BusInv, BusShaped
<1>2. /\ Bus!Now = [queue |-> line, total |-> queued_bytes, ended |-> {}]
      /\ line \in [Subs -> Seq(Nat)] /\ queued_bytes \in 0..BusBytes
      /\ queued_bytes = Bus!Bytes(published, line, Subs)
      /\ \A s \in Subs : Len(line[s]) <= LineCap
  BY DEF Bus!Now, BusInv, BusShaped, BusCounted
<1>3. \A s \in Subs : Bus!Range(line[s]) \subseteq {0} \cup DOMAIN published
  BY BusQueues
<1>4. Bus!Bytes(published', line, Subs) = queued_bytes
  BY <1>1, <1>2, <1>3, BytesOfLonger
<1>5. \A s \in Subs : n \notin Bus!Range(line[s])
  <2>1. n \notin {0} \cup DOMAIN published
    BY <1>1
  <2> QED BY <1>3, <2>1
<1> HIDE DEF n
<1>6. Bus!Now \in [queue : [Subs -> Seq(Nat)], total : 0..BusBytes, ended : SUBSET Subs]
  BY <1>2
<1>7. Bus!Now.queue = line /\ Bus!Now.total = queued_bytes /\ Bus!Now.ended = {}
  BY <1>2
<1> QED BY <1>2, <1>4, <1>5, <1>6, <1>7 DEF OfferedTo, n

LEMMA OfferGoesOn ==
    ASSUME BusInv, NEW e \in Bus!Events, Publishing(e),
           NEW D \in SUBSET Subs, NEW s \in Bus!Open, s \notin D,
           NEW now, OfferedTo(published', Len(published'), now, D)
    PROVE  OfferedTo(published', Len(published'), Bus!Offered(now, s), D \cup {s})
<1> DEFINE log == published'
           n == Len(published')
           r == Bus!Offered(now, s)
<1>1. /\ published \in Seq(Bus!Events) /\ Len(published) \in Nat /\ n = Len(published) + 1
      /\ DOMAIN published = 1..Len(published) /\ log \in Seq(Bus!Events)
      /\ DOMAIN log = 1..n /\ log[n] = e /\ n \in Nat /\ n \in DOMAIN log
  BY AppendProperties, LenProperties DEF Publishing, BusInv, BusShaped
<1>2. /\ s \in Subs /\ line[s] \in Seq(Nat) /\ Len(line[s]) \in Nat
      /\ phase[s] = "open" /\ Bus!Range(line[s]) \subseteq DOMAIN published
      /\ LineCap \in Nat /\ 1 <= LineCap /\ BusBytes \in Nat /\ e.size \in Nat
  BY BusTypes, BusQueues, LenProperties, BusAssumption DEF Bus!Open, Bus!Events
<1>3. /\ now = [queue |-> now.queue, total |-> now.total, ended |-> now.ended]
      /\ now.queue \in [Subs -> Seq(Nat)] /\ now.total \in 0..BusBytes /\ now.ended \in SUBSET Subs
      /\ now.ended \subseteq D /\ now.total = Bus!Bytes(log, now.queue, Subs)
  BY DEF OfferedTo
<1>4. \A t \in Subs :
         /\ t \in now.ended => now.queue[t] = LastWord(t)
         /\ t \notin now.ended => now.queue[t] = IF t \in D /\ Bus!Matches(wish[t], e)
                                                 THEN Append(line[t], n) ELSE line[t]
         /\ Len(now.queue[t]) <= LineCap
         /\ n \in Bus!Range(now.queue[t]) => e.size <= BusBytes
  BY <1>1 DEF OfferedTo
<1>5. s \notin now.ended /\ now.queue[s] = line[s] /\ Len(line[s]) <= LineCap
  BY <1>2, <1>3, <1>4
<1>6. n \notin Bus!Range(line[s]) /\ 0 \notin DOMAIN log
  BY <1>1, <1>2
<1>7. \/ ~ Bus!Matches(wish[s], e) /\ r = now
      \/ /\ Bus!Matches(wish[s], e)
         /\ r = [queue |-> [now.queue EXCEPT ![s] = LastWord(s)],
                 total |-> now.total - Bus!Bytes(log, now.queue, {s}),
                 ended |-> now.ended \cup {s}]
      \/ /\ Bus!Matches(wish[s], e) /\ Len(line[s]) # LineCap /\ now.total + e.size <= BusBytes
         /\ r = [queue |-> [now.queue EXCEPT ![s] = Append(line[s], n)],
                 total |-> now.total + e.size, ended |-> now.ended]
  <2> DEFINE more == [queue |-> [now.queue EXCEPT ![s] = Append(now.queue[s], n)],
                      total |-> now.total + e.size, ended |-> now.ended]
  <2>1. /\ r = IF ~ Bus!Matches(wish[s], e) THEN now
               ELSE IF Len(now.queue[s]) = LineCap \/ now.total + e.size > BusBytes
                    THEN Bus!Stopped(now, s)
                    ELSE more
        /\ Bus!Stopped(now, s) = [queue |-> [now.queue EXCEPT ![s] = LastWord(s)],
                                  total |-> now.total - Bus!Bytes(log, now.queue, {s}),
                                  ended |-> now.ended \cup {s}]
    BY <1>1 DEF Bus!Offered, Bus!Stopped, Bus!STOP, LastWord
  <2>2. more = [queue |-> [now.queue EXCEPT ![s] = Append(line[s], n)],
                total |-> now.total + e.size, ended |-> now.ended]
    BY <1>5
  <2>3. now.total + e.size > BusBytes \/ now.total + e.size <= BusBytes
    BY <1>2, <1>3
  <2> HIDE DEF r, log, n, more
  <2> QED BY <1>5, <2>1, <2>2, <2>3
<1> HIDE DEF log, n, r
<1>8. CASE ~ Bus!Matches(wish[s], e) /\ r = now
  <2>1. \A t \in Subs : t \in D \cup {s} /\ Bus!Matches(wish[t], e) <=> t \in D /\ Bus!Matches(wish[t], e)
    BY <1>8
  <2>2. OfferedTo(log, n, now, D \cup {s})
    BY <1>1, <1>3, <1>4, <2>1 DEF OfferedTo
  <2> QED BY <1>8, <2>2 DEF log, n, r
<1>9. CASE /\ Bus!Matches(wish[s], e)
           /\ r = [queue |-> [now.queue EXCEPT ![s] = LastWord(s)],
                   total |-> now.total - Bus!Bytes(log, now.queue, {s}),
                   ended |-> now.ended \cup {s}]
  <2> DEFINE before == now.queue
             later == r.queue
             E == {s}
  <2>1. /\ LastWord(s) \in Seq(Nat) /\ Len(LastWord(s)) <= LineCap
        /\ Bus!Range(LastWord(s)) \subseteq {0}
    BY <1>2 DEF LastWord, Bus!Range
  <2>2. /\ later \in [Subs -> Seq(Nat)] /\ later[s] = LastWord(s)
        /\ \A t \in Subs \ {s} : later[t] = before[t]
        /\ r.ended = now.ended \cup {s} /\ r.total = now.total - Bus!Bytes(log, before, E)
        /\ r = [queue |-> later, total |-> r.total, ended |-> r.ended]
    BY <1>2, <1>3, <1>9, <2>1
  <2>3. /\ E \in SUBSET Subs /\ \A t \in E : Bus!Range(later[t]) \cap DOMAIN log = {}
        /\ \A t \in Subs \ E : later[t] = before[t]
    BY <1>2, <1>6, <2>1, <2>2
  <2>4. now.total = Bus!Bytes(log, before, Subs)
    BY <1>3
  <2> HIDE DEF before, later, E
  <2>5. /\ Bus!Bytes(log, later, Subs) = Bus!Bytes(log, before, Subs) - Bus!Bytes(log, before, E)
        /\ Bus!Bytes(log, later, Subs) <= Bus!Bytes(log, before, Subs)
        /\ Bus!Bytes(log, later, Subs) \in Nat
    BY <1>1, <2>3, BytesOfStopped
  <2>6. r.total = Bus!Bytes(log, later, Subs) /\ r.total \in 0..BusBytes
    BY <1>2, <1>3, <2>2, <2>4, <2>5
  <2>7. /\ r \in [queue : [Subs -> Seq(Nat)], total : 0..BusBytes, ended : SUBSET Subs]
        /\ r.ended \subseteq D \cup {s}
    BY <1>2, <1>3, <2>2, <2>6
  <2>8. ASSUME NEW t \in Subs
        PROVE  /\ t \in r.ended => later[t] = LastWord(t)
               /\ t \notin r.ended => later[t] = IF t \in D \cup {s} /\ Bus!Matches(wish[t], e)
                                                 THEN Append(line[t], n) ELSE line[t]
               /\ Len(later[t]) <= LineCap
               /\ n \in Bus!Range(later[t]) => e.size <= BusBytes
    <3>1. CASE t = s
      <4>1. n \notin Bus!Range(later[s])
        BY <1>1, <2>1, <2>2
      <4> QED BY <2>1, <2>2, <3>1, <4>1
    <3>2. CASE t # s
      <4>1. later[t] = now.queue[t]
        BY <2>2, <3>2 DEF before
      <4>2. t \in r.ended <=> t \in now.ended
        BY <2>2, <3>2
      <4> QED BY <1>4, <3>2, <4>1, <4>2
    <3> QED BY <3>1, <3>2
  <2>9. OfferedTo(log, n, r, D \cup {s})
    BY <1>1, <2>6, <2>7, <2>8 DEF OfferedTo, later
  <2> QED BY <2>9 DEF log, n, r
<1>10. CASE /\ Bus!Matches(wish[s], e) /\ Len(line[s]) # LineCap /\ now.total + e.size <= BusBytes
            /\ r = [queue |-> [now.queue EXCEPT ![s] = Append(line[s], n)],
                    total |-> now.total + e.size, ended |-> now.ended]
  <2> DEFINE before == now.queue
             later == r.queue
  <2>1. /\ Append(line[s], n) \in Seq(Nat) /\ Len(Append(line[s], n)) = Len(line[s]) + 1
        /\ Bus!Range(Append(line[s], n)) = Bus!Range(line[s]) \cup {n}
    BY <1>1, <1>2, RangeWithLast
  <2>2. Len(Append(line[s], n)) <= LineCap
    <3>1. \A a, b \in Nat : a <= b /\ a # b => a + 1 <= b
      OBVIOUS
    <3>2. Len(line[s]) + 1 <= LineCap
      BY <1>2, <1>5, <1>10, <3>1, Zenon
    <3> QED BY <2>1, <3>2
  <2>3. /\ later \in [Subs -> Seq(Nat)] /\ later[s] = Append(line[s], n)
        /\ \A t \in Subs \ {s} : later[t] = before[t]
        /\ r.ended = now.ended /\ r.total = now.total + e.size
        /\ r = [queue |-> later, total |-> r.total, ended |-> r.ended]
    BY <1>2, <1>3, <1>10, <2>1
  <2>4. /\ n \notin Bus!Range(before[s]) /\ Bus!Range(later[s]) = Bus!Range(before[s]) \cup {n}
        /\ \A t \in Subs \ {s} : later[t] = before[t]
        /\ now.total = Bus!Bytes(log, before, Subs)
    BY <1>3, <1>5, <1>6, <2>1, <2>3
  <2>5. log[n].size \in 0..BusBytes
    BY <1>1, <1>2, <1>3, <1>10
  <2> HIDE DEF before, later
  <2>6. Bus!Bytes(log, later, Subs) = Bus!Bytes(log, before, Subs) + log[n].size
    <3>1. log \in Seq(Bus!Events) /\ s \in Subs /\ n \in DOMAIN log
      BY <1>1, <1>2
    <3>2. OneEventMore(before, later, s, n)
      BY <2>4 DEF OneEventMore
    <3> QED BY <2>5, <3>1, <3>2, BytesOfOne
  <2>7. r.total = Bus!Bytes(log, later, Subs) /\ r.total \in 0..BusBytes
    BY SMTT(30), <1>1, <1>2, <1>3, <1>10, <2>3, <2>4, <2>6
  <2>8. /\ r \in [queue : [Subs -> Seq(Nat)], total : 0..BusBytes, ended : SUBSET Subs]
        /\ r.ended \subseteq D \cup {s}
    BY <1>3, <2>3, <2>7
  <2>9. ASSUME NEW t \in Subs
        PROVE  /\ t \in r.ended => later[t] = LastWord(t)
               /\ t \notin r.ended => later[t] = IF t \in D \cup {s} /\ Bus!Matches(wish[t], e)
                                                 THEN Append(line[t], n) ELSE line[t]
               /\ Len(later[t]) <= LineCap
               /\ n \in Bus!Range(later[t]) => e.size <= BusBytes
    <3>1. CASE t = s
      BY SMTT(30), <1>1, <1>5, <1>10, <2>2, <2>3, <2>5, <3>1
    <3>2. CASE t # s
      <4>1. later[t] = now.queue[t]
        BY <2>3, <3>2 DEF before
      <4> QED BY <1>4, <2>3, <3>2, <4>1
    <3> QED BY <3>1, <3>2
  <2>10. OfferedTo(log, n, r, D \cup {s})
    BY <1>1, <2>7, <2>8, <2>9 DEF OfferedTo, later
  <2> QED BY <2>10 DEF log, n, r
<1> QED BY <1>7, <1>8, <1>9, <1>10

LEMMA OfferEnds ==
    ASSUME BusInv, NEW e \in Bus!Events, published' = Append(published, e),
           NEW order \in Bus!SetToSeqs(Bus!Open)
    PROVE  OfferedTo(published', Len(published'), Bus!OfferedAll(order), Bus!Open)
<1> DEFINE N == Cardinality(Bus!Open)
           D(k) == {order[i] : i \in 1..k}
<1>1. Bus!Open \in SUBSET Subs /\ IsFiniteSet(Bus!Open) /\ N \in Nat
  BY BusAssumption, FS_Subset, FS_CardinalityType DEF Bus!Open
<1>2. order \in [1..N -> Bus!Open] /\ \A i, j \in 1..N : i # j => order[i] # order[j]
  BY BusTotals DEF Bus!SetToSeqs
<1> HIDE DEF N
<1>3. Len(order) = N
  <2>1. order \in Seq(Bus!Open)
    BY <1>1, <1>2
  <2> QED BY <1>1, <1>2, <2>1, LenProperties
<1>4. PICK now : /\ now[0] = Bus!Now
                 /\ \A k \in 1..N : now[k] = Bus!Offered(now[k - 1], order[k])
                 /\ Bus!OfferedAll(order) = now[N]
  BY <1>1, <1>3, OfferedInOrder
<1> DEFINE T == {k \in 0..N : OfferedTo(published', Len(published'), now[k], D(k))}
<1>5. 0 \in T
  <2>1. D(0) = {} /\ 0 \in 0..N
    BY <1>1
  <2> QED BY <1>4, <2>1, OfferStarts
<1>6. ASSUME NEW k \in 0..N, k \in T, k < N PROVE k + 1 \in T
  <2>1. /\ k + 1 \in 1..N /\ k + 1 \in 0..N /\ (k + 1) - 1 = k
        /\ 1..(k + 1) = (1..k) \cup {k + 1} /\ 1..k \subseteq 1..N /\ k + 1 \notin 1..k
    BY <1>1, <1>6
  <2>2. now[k + 1] = Bus!Offered(now[k], order[k + 1])
    BY <1>4, <2>1
  <2>3. D(k + 1) = D(k) \cup {order[k + 1]}
    BY <2>1
  <2>4. order[k + 1] \in Bus!Open /\ order[k + 1] \notin D(k) /\ D(k) \in SUBSET Subs
    BY <1>1, <1>2, <2>1
  <2>5. OfferedTo(published', Len(published'), now[k], D(k))
    BY <1>6
  <2> DEFINE E == D(k)
             s == order[k + 1]
  <2>6. /\ s \in Bus!Open /\ s \notin E /\ E \in SUBSET Subs
        /\ OfferedTo(published', Len(published'), now[k], E)
    BY <2>4, <2>5
  <2> HIDE DEF E, s, D
  <2>7. OfferedTo(published', Len(published'), Bus!Offered(now[k], s), E \cup {s})
    BY <2>6, OfferGoesOn DEF Publishing
  <2>8. OfferedTo(published', Len(published'), now[k + 1], D(k + 1))
    BY <2>2, <2>3, <2>7 DEF E, s
  <2> QED BY <2>1, <2>8
<1> HIDE DEF T, D
<1>7. N \in T
  <2>1. N \in 0..N /\ \A k \in 0..N : k \in T /\ k < N => k + 1 \in T
    BY <1>1, <1>6
  <2> QED BY <1>1, <1>5, <2>1, UpTo
<1>8. D(N) = Bus!Open
  <2>1. order \in Injection(1..N, Bus!Open)
    BY <1>2 DEF Injection, IsInjective
  <2>2. IsFiniteSet(1..N) /\ Cardinality(1..N) = N
    <3>1. 1 \in Int /\ N \in Int
      BY <1>1
    <3>2. IsFiniteSet(1..N) /\ Cardinality(1..N) = IF 1 > N THEN 0 ELSE N - 1 + 1
      BY <3>1, FS_Interval
    <3> QED BY <1>1, <3>2
  <2>3. order \in Surjection(1..N, Bus!Open)
    BY <1>1, <2>1, <2>2, FS_Injection DEF N
  <2> QED BY <1>2, <2>3 DEF Surjection, D
<1> QED BY <1>4, <1>7, <1>8 DEF T


LEMMA BusPublishes == ASSUME BusInv, Bus!Publish PROVE BusInv'
<1>1. PICK e \in Bus!Events, order \in Bus!SetToSeqs(Bus!Open) :
         /\ published' = Append(published, e)
         /\ Bus!Becomes(Bus!OfferedAll(order), TRUE) /\ Bus!Cancels(Bus!OfferedAll(order))
         /\ UNCHANGED <<wish, busClosed, begun, given>>
  BY DEF Bus!Publish
<1> DEFINE now == Bus!OfferedAll(order)
           log == published'
           n == Len(published')
<1>2. OfferedTo(log, n, now, Bus!Open)
  BY <1>1, OfferEnds
<1>3. /\ line' = now.queue /\ queued_bytes' = now.total
      /\ phase' = [s \in Subs |-> IF s \in now.ended THEN "closed" ELSE phase[s]]
      /\ until' = [s \in Subs |-> IF s \in now.ended THEN n ELSE until[s]]
      /\ ended' = ended \cup now.ended
      /\ consumer' = [s \in Subs |-> IF s \in now.ended \cap Callbacks THEN "ended" ELSE consumer[s]]
      /\ UNCHANGED <<wish, busClosed, begun, given>>
  BY <1>1 DEF Bus!Becomes, Bus!Cancels
<1>4. /\ published \in Seq(Bus!Events) /\ Len(published) \in Nat /\ n = Len(published) + 1
      /\ DOMAIN published = 1..Len(published) /\ log \in Seq(Bus!Events)
      /\ DOMAIN log = 1..n /\ log[n] = e /\ n \in Nat /\ n \in DOMAIN log
      /\ \A i \in DOMAIN published : i \in DOMAIN log /\ log[i] = published[i] /\ i < n
  BY <1>1, AppendProperties, LenProperties DEF BusInv, BusShaped
<1> HIDE DEF now, log, n
<1>5. /\ now.queue \in [Subs -> Seq(Nat)] /\ now.total \in 0..BusBytes /\ now.ended \in SUBSET Subs
      /\ now.ended \subseteq Bus!Open /\ now.total = Bus!Bytes(log, now.queue, Subs)
      /\ \A s \in Subs :
            /\ s \in now.ended => line'[s] = LastWord(s)
            /\ s \notin now.ended => line'[s] = IF s \in Bus!Open /\ Bus!Matches(wish[s], e)
                                                THEN Append(line[s], n) ELSE line[s]
            /\ Len(line'[s]) <= LineCap
            /\ n \in Bus!Range(line'[s]) => e.size <= BusBytes
  BY <1>2, <1>3, <1>4 DEF OfferedTo
<1>6. \A s \in Subs :
         /\ s \in now.ended => phase[s] = "open" /\ phase'[s] = "closed" /\ until'[s] = n
         /\ s \notin now.ended => phase'[s] = phase[s] /\ until'[s] = until[s]
         /\ consumer'[s] = IF s \in now.ended \cap Callbacks THEN "ended" ELSE consumer[s]
         /\ s \in Bus!Open <=> phase[s] = "open"
  BY <1>3, <1>5 DEF Bus!Open
<1>7. BusShaped'
  <2>1. Cardinality(Bus!Open') <= BusCap
    <3>1. Bus!Open' \subseteq Bus!Open /\ Bus!Open \subseteq Subs
      BY <1>6 DEF Bus!Open
    <3>2. /\ IsFiniteSet(Bus!Open) /\ Cardinality(Bus!Open') <= Cardinality(Bus!Open)
          /\ IsFiniteSet(Bus!Open')
      BY <3>1, FS_Subset, BusAssumption
    <3>3. /\ Cardinality(Bus!Open) \in Nat /\ Cardinality(Bus!Open') \in Nat /\ BusCap \in Nat
          /\ Cardinality(Bus!Open) <= BusCap
      BY <3>2, FS_CardinalityType, BusAssumption DEF BusInv, BusShaped
    <3> QED BY <3>2, <3>3
  <2>2. /\ phase' \in [Subs -> {"new", "open", "closed"}] /\ until' \in [Subs -> Nat]
        /\ consumer' \in [Subs -> {"waits", "busy", "ended"}]
        /\ ended' \subseteq Subs /\ line' \in [Subs -> Seq(Nat)]
    BY <1>3, <1>4, <1>5 DEF BusInv, BusShaped
  <2>3. ASSUME NEW s \in Subs PROVE begun[s] <= n /\ until'[s] <= n
    <3>1. /\ begun[s] \in Nat /\ until[s] \in Nat
          /\ begun[s] <= Len(published) /\ until[s] <= Len(published)
      BY BusTypes
    <3> QED BY <1>4, <1>6, <3>1
  <2> QED BY <1>3, <1>4, <1>5, <2>1, <2>2, <2>3 DEF BusInv, BusShaped, log, n
<1>8. ASSUME NEW s \in Subs PROVE Bus!Range(line'[s]) \subseteq Bus!Range(line[s]) \cup {0, n}
  <2>1. Bus!Range(LastWord(s)) \subseteq {0}
    BY DEF LastWord, Bus!Range
  <2>2. Bus!Range(Append(line[s], n)) = Bus!Range(line[s]) \cup {n}
    BY <1>4, BusTypes, RangeWithLast
  <2> QED BY <1>5, <2>1, <2>2
<1>9. BusCounted'
  <2>1. ASSUME NEW s \in Subs, NEW i \in Bus!Range(line'[s]) \cap DOMAIN log
        PROVE  log[i].size <= BusBytes
    <3>1. CASE i = n
      BY <1>4, <1>5, <2>1, <3>1
    <3>2. CASE i # n
      <4>1. i \in Bus!Range(line[s]) /\ i \in DOMAIN published
        BY <1>4, <1>8, <2>1, <3>2
      <4> QED BY <1>4, <4>1 DEF BusInv, BusCounted
    <3> QED BY <3>1, <3>2
  <2>2. queued_bytes' \in 0..BusBytes /\ queued_bytes' = Bus!Bytes(log, line', Subs)
    BY <1>3, <1>5
  <2> QED BY <2>1, <2>2 DEF BusCounted, log
<1>10. ASSUME NEW s \in Subs PROVE Fed(s)'
  <2> DEFINE due == Bus!Due(s)
             g == given[s]
             q == line[s]
  <2>1. /\ g \in Seq(Nat) /\ q \in Seq(Nat) /\ g \o q \in Seq(Nat)
        /\ begun[s] \in Nat /\ until[s] \in Nat /\ begun[s] <= Len(published)
        /\ until[s] <= Len(published) /\ due \subseteq DOMAIN published
        /\ given'[s] = g /\ wish'[s] = wish[s] /\ begun'[s] = begun[s]
    BY <1>3, BusTypes
  <2>2. \A a, b \in Nat : a <= b => (a + 1)..(b + 1) = ((a + 1)..b) \cup {b + 1}
    OBVIOUS
  <2>3. (begun[s] + 1)..n = ((begun[s] + 1)..Len(published)) \cup {n}
    BY <1>4, <2>1, <2>2
  <2>4. phase[s] = "open"
           => Bus!Due(s)' = IF Bus!Matches(wish[s], e) THEN due \cup {n} ELSE due
    <3> SUFFICES ASSUME phase[s] = "open"
                 PROVE  Bus!Due(s)' = IF Bus!Matches(wish[s], e) THEN due \cup {n} ELSE due
      OBVIOUS
    <3>1. (IF phase'[s] = "open" THEN Len(published') ELSE until'[s]) = n
      BY <1>6 DEF n
    <3>2. Bus!Due(s)' = {i \in (begun[s] + 1)..n : Bus!Matches(wish[s], log[i])}
      BY <2>1, <3>1 DEF Bus!Due, Bus!Matches, log
    <3>3. due = {i \in (begun[s] + 1)..Len(published) : Bus!Matches(wish[s], published[i])}
      BY DEF Bus!Due
    <3>4. \A i \in (begun[s] + 1)..Len(published) : log[i] = published[i] /\ i # n
      BY <1>4, <2>1
    <3> QED BY <1>4, <2>3, <3>2, <3>3, <3>4
  <2>5. phase[s] # "open" => Bus!Due(s)' = due
    <3> SUFFICES ASSUME phase[s] # "open" PROVE Bus!Due(s)' = due
      OBVIOUS
    <3>1. phase'[s] # "open" /\ until'[s] = until[s]
      BY <1>6
    <3>2. Bus!Due(s)' = {i \in (begun[s] + 1)..until[s] : Bus!Matches(wish[s], log[i])}
      BY <2>1, <3>1 DEF Bus!Due, Bus!Matches, log
    <3>3. due = {i \in (begun[s] + 1)..until[s] : Bus!Matches(wish[s], published[i])}
      BY DEF Bus!Due
    <3>4. ASSUME NEW i \in (begun[s] + 1)..until[s] PROVE log[i] = published[i]
      <4>1. i \in DOMAIN published
        BY <1>4, <2>1
      <4> QED BY <1>4, <4>1
    <3> QED BY <3>2, <3>3, <3>4
  <2> HIDE DEF due
  <2>6. CASE phase[s] # "open"
    <3>1. /\ phase'[s] = phase[s] /\ line'[s] = line[s] /\ consumer'[s] = consumer[s]
          /\ Bus!Due(s)' = Bus!Due(s) /\ Fed(s)
      BY <1>5, <1>6, <2>5, <2>6 DEF due, BusInv
    <3> QED BY <2>1, <2>6, <3>1 DEF Fed
  <2>7. CASE phase[s] = "open"
    <3>1. Bus!Rising(g \o q) /\ Bus!Range(g \o q) = due
      BY <2>7 DEF BusInv, Fed, due
    <3>2. CASE s \notin now.ended /\ ~ Bus!Matches(wish[s], e)
      <4>1. phase'[s] = "open" /\ line'[s] = q /\ Bus!Due(s)' = due
        BY <1>5, <1>6, <2>4, <2>7, <3>2
      <4> QED BY <2>1, <3>1, <4>1 DEF Fed
    <3>3. CASE s \notin now.ended /\ Bus!Matches(wish[s], e)
      <4>1. phase'[s] = "open" /\ line'[s] = Append(q, n) /\ Bus!Due(s)' = due \cup {n}
        BY ZenonT(30), <1>5, <1>6, <2>4, <2>7, <3>3
      <4>2. g \o Append(q, n) = Append(g \o q, n)
        BY <1>4, <2>1, AppendBehind
      <4>3. \A x \in Bus!Range(g \o q) : x < n
        BY <1>4, <2>1, <3>1
      <4>4. /\ Bus!Rising(Append(g \o q, n))
            /\ Bus!Range(Append(g \o q, n)) = Bus!Range(g \o q) \cup {n}
        BY <1>4, <2>1, <3>1, <4>3, RisingWithLast
      <4> QED BY <2>1, <3>1, <4>1, <4>2, <4>4 DEF Fed
    <3>4. CASE s \in now.ended
      <4>1. /\ phase'[s] = "closed" /\ line'[s] = LastWord(s)
            /\ Bus!Due(s)' \in {due, due \cup {n}}
            /\ s \in Callbacks => consumer'[s] = "ended"
        BY <1>5, <1>6, <2>4, <2>7, <3>4
      <4>2. /\ Bus!Rising(g) /\ \A x \in Bus!Range(g), y \in Bus!Range(q) : x < y
            /\ due = Bus!Range(g) \cup Bus!Range(q)
        BY <2>1, <3>1, RisingOfTwo, RangeOfTwo
      <4>3. ASSUME NEW i \in Bus!Due(s)', NEW j \in Bus!Range(g), i < j PROVE i \in Bus!Range(g)
        <5>1. j \in DOMAIN published /\ (i = n \/ i \in due)
          BY <2>1, <4>1, <4>2
        <5>2. i # n
          BY <1>4, <4>3, <5>1
        <5>3. i \in Nat /\ j \in Nat /\ (i \in Bus!Range(q) => j < i)
          BY <1>4, <2>1, <4>2, <5>1
        <5> QED BY <4>2, <4>3, <5>1, <5>2, <5>3
      <4>4. /\ s \in Callbacks => line'[s] = << >> /\ consumer'[s] = "ended"
            /\ line'[s] \in {<< >>, << 0 >>}
            /\ consumer'[s] = "waits" => line'[s] = << 0 >>
        BY <4>1 DEF LastWord
      <4>5. Bus!Range(g) \subseteq Bus!Due(s)'
        BY <4>1, <4>2
      <4> QED BY <2>1, <4>1, <4>2, <4>3, <4>4, <4>5 DEF Fed
    <3> QED BY <3>2, <3>3, <3>4
  <2> QED BY <2>6, <2>7
<1> QED BY <1>7, <1>9, <1>10 DEF BusInv

LEMMA BusAlways == ServicesSpec => []BusInv
<1>1. ServicesInit => BusInv
  <2> SUFFICES ASSUME Bus!Init PROVE BusInv
    BY DEF ServicesInit
  <2>1. /\ published = << >> /\ phase = [s \in Subs |-> "new"] /\ wish = [s \in Subs |-> << >>]
        /\ line = [s \in Subs |-> << >>] /\ consumer = [s \in Subs |-> "waits"]
        /\ ended = {} /\ queued_bytes = 0 /\ busClosed = FALSE
        /\ begun = [s \in Subs |-> 0] /\ until = [s \in Subs |-> 0]
        /\ given = [s \in Subs |-> << >>]
    BY DEF Bus!Init
  <2>2. /\ << >> \in Seq(Nat) /\ Len(<< >>) = 0 /\ << >> \in Seq(Bus!Events)
        /\ DOMAIN << >> = {} /\ Bus!Range(<< >>) = {}
    BY DEF Bus!Range
  <2>3. LineCap \in Nat /\ BusCap \in Nat /\ BusBytes \in Nat
    BY BusAssumption
  <2>4. Bus!Open = {} /\ Cardinality({}) = 0
    BY <2>1, FS_EmptySet DEF Bus!Open
  <2>5. BusShaped
    <3>1. /\ published \in Seq(Bus!Events) /\ busClosed \in BOOLEAN /\ ended \subseteq Subs
          /\ phase \in [Subs -> {"new", "open", "closed"}]
          /\ consumer \in [Subs -> {"waits", "busy", "ended"}]
          /\ wish \in [Subs -> {<< >>} \cup Bus!Wishes]
      BY <2>1, <2>2
    <3>2. /\ line \in [Subs -> Seq(Nat)] /\ given \in [Subs -> Seq(Nat)]
          /\ begun \in [Subs -> Nat] /\ until \in [Subs -> Nat]
      BY <2>1, <2>2
    <3>3. ASSUME NEW s \in Subs
          PROVE  begun[s] <= Len(published) /\ until[s] <= Len(published) /\ Len(line[s]) <= LineCap
      <4>1. begun[s] = 0 /\ until[s] = 0 /\ Len(published) = 0 /\ Len(line[s]) = 0
        BY <2>1, <2>2
      <4> QED BY <2>3, <4>1
    <3>4. Cardinality(Bus!Open) <= BusCap
      BY <2>3, <2>4
    <3> QED BY <3>1, <3>2, <3>3, <3>4 DEF BusShaped
  <2>6. Bus!Bytes(published, line, Subs) = 0
    <3>1. Subs \in SUBSET Subs /\ published \in Seq(Bus!Events)
      BY <2>1, <2>2
    <3>2. Bus!Bytes(published, line, Subs)
            = Total(BusSizes(published), BusHeld(published, line, Subs), BusBytes)
      BY <3>1, BusBytesAre
    <3>3. BusHeld(published, line, Subs) = {}
      BY <2>1, <2>2 DEF BusHeld
    <3> QED BY <2>3, <3>2, <3>3, TotalOfNone
  <2>7. BusCounted
    BY <2>1, <2>2, <2>3, <2>6 DEF BusCounted
  <2>8. \A s \in Subs : Fed(s)
    BY <2>1 DEF Fed
  <2> QED BY <2>5, <2>7, <2>8 DEF BusInv
<1>2. BusInv /\ [Bus!Next]_(Bus!vars) => BusInv'
  <2> SUFFICES ASSUME BusInv, [Bus!Next]_(Bus!vars) PROVE BusInv'
    OBVIOUS
  <2>1. CASE UNCHANGED Bus!vars
    BY <2>1 DEF Bus!vars, BusInv, BusShaped, BusCounted, Fed, Bus!Open, Bus!Due, Bus!Bytes
  <2>2. CASE Bus!Next
    BY <2>2, BusSubscribes, BusTakes, BusTakesStop, BusIsDone, BusLosesOne, BusClosesOwn,
       BusPublishes DEF Bus!Next, Bus!Consumes
  <2> QED BY <2>1, <2>2
<1> QED BY <1>1, <1>2, BusSteps, PTL DEF ServicesSpec

-----------------------------------------------------------------------------
(* The byte budget of the event bus, of the media blobs and of the OneBot   *)
(* connections counts exactly what is queued or held, at every moment and   *)
(* within its limit (EventBus.publish and _stop, BlobStore, _put and        *)
(* _sender): every byte is given back once, for any subscriptions, uploads, *)
(* connections, sizes and limits.                                           *)
THEOREM EveryByteIsCounted == ServicesSpec => []BytesCounted
<1>1. BusInv /\ PoolInv /\ NetInv => BytesCounted
  BY BusIsSound, PoolIsCounted, NetIsSound DEF BytesCounted
<1> QED BY <1>1, BusAlways, PoolAlways, NetAlways, PTL

(* A subscriber of the bus and a OneBot client are given every event they   *)
(* asked for since they began, once and in order, until they end (publish,  *)
(* _stop and the readers of the queues): who cannot keep up is ended with a *)
(* gap or closed, and misses a suffix, never one event in between.          *)
THEOREM NothingIsMissed == ServicesSpec => []NoHoles
<1>1. BusInv /\ NetInv => NoHoles
  BY BusIsSound, NetIsSound DEF NoHoles
<1> QED BY <1>1, BusAlways, NetAlways, PTL
=============================================================================
