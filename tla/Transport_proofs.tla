-------------------------- MODULE Transport_proofs --------------------------
(***************************************************************************)
(* Proofs about the transport, for any number of shards, sessions, events  *)
(* and requests, any windows, totals, tokens and timings                   *)
(* (TransportAssumption, BudgetAssumption): the Identify budget, the       *)
(* access token, and the session of a shard.                               *)
(***************************************************************************)
EXTENDS TransportMC, FiniteSetTheorems, WellFoundedInduction, SequenceTheorems, TLAPS

Ages == 0..Window

-----------------------------------------------------------------------------
(* Sequences of ages, oldest first.                                        *)

Sorted(s) == \A i, j \in DOMAIN s : i <= j => s[j] <= s[i]

(* With k handshakes under way, at most MaxConcurrency stamps are fresh.    *)
Few(st, k) ==
    \A i \in DOMAIN st : st[i] < Window => Len(st) - i + 1 + k <= MaxConcurrency

(* Every Identify, but for the last d that are not stamped yet, has a stamp *)
(* that is no older: counted from the end, the same one.                    *)
Match(st, sd, d) ==
    \A i \in DOMAIN sd : (i <= Len(sd) - d /\ sd[i] < Window) =>
        /\ Len(st) - (Len(sd) - d) + i \in DOMAIN st
        /\ st[Len(st) - (Len(sd) - d) + i] <= sd[i]

Rates(st, sd, k, d) == Sorted(st) /\ Sorted(sd) /\ Few(st, k) /\ Match(st, sd, d)

LEMMA SuffixIs ==
    ASSUME NEW S, NEW s \in Seq(S), NEW n \in 0..Len(s)
    PROVE  /\ SubSeq(s, n + 1, Len(s)) \in Seq(S)
           /\ Len(SubSeq(s, n + 1, Len(s))) = Len(s) - n
           /\ \A i \in 1..(Len(s) - n) : SubSeq(s, n + 1, Len(s))[i] = s[n + i]
OBVIOUS

(* What has left the window is dropped from the front, and nothing else.    *)
LEMMA FreshDrops ==
    ASSUME NEW s \in Seq(Ages)
    PROVE  \E n \in 0..Len(s) :
              /\ Fresh(s) \in Seq(Ages) /\ Len(Fresh(s)) = Len(s) - n
              /\ \A i \in 1..(Len(s) - n) : Fresh(s)[i] = s[n + i]
              /\ \A i \in 1..n : s[i] >= Window
              /\ n = Len(s) \/ s[n + 1] < Window
<1> DEFINE Stops == {n \in Nat : n <= Len(s) /\ (n = Len(s) \/ s[n + 1] < Window)}
<1>1. Len(s) \in Nat /\ Window \in Nat /\ \A i \in 1..Len(s) : s[i] \in Ages
  BY BudgetAssumption DEF Ages
<1>2. Stops \subseteq Nat /\ Len(s) \in Stops
  BY <1>1
<1>3. PICK n \in Stops : \A m \in Stops : n <= m
  <2> DEFINE Less_ == OpToRel(<, Nat)
  <2>1. IsWellFoundedOn(Less_, Nat)
    BY NatLessThanWellFounded
  <2>2. \A a, b \in Nat : a < b => <<a, b>> \in Less_
    BY DEF OpToRel
  <2> HIDE DEF Less_
  <2>3. PICK n \in Stops : \A m \in Stops : ~(<<m, n>> \in Less_)
    <3> HIDE DEF Stops
    <3> QED BY <1>2, <2>1, WFMin
  <2>4. \A m \in Stops : m \in Nat /\ n \in Nat /\ ~(m < n)
    BY <2>2, <2>3
  <2> QED BY <2>4
<1>4. n \in 0..Len(s) /\ (n = Len(s) \/ s[n + 1] < Window)
  BY <1>1, <1>3
<1>5. ASSUME NEW i \in 1..n PROVE s[i] >= Window
  <2>1. i - 1 \notin Stops
    BY SMTT(30), <1>3, <1>4
  <2>2. i - 1 \in Nat /\ i - 1 < Len(s) /\ i \in 1..Len(s) /\ (i - 1) + 1 = i
    BY <1>1, <1>4
  <2> QED BY <1>1, <2>1, <2>2 DEF Ages
<1>6. Leave(n, s) /\ n \in 0..Len(s)
  BY <1>4, <1>5 DEF Leave
<1> DEFINE c == CHOOSE k \in 0..Len(s) : Leave(k, s)
<1>7. c \in 0..Len(s) /\ Leave(c, s)
  BY <1>6
<1>8. Fresh(s) = SubSeq(s, c + 1, Len(s))
  BY DEF Fresh
<1> HIDE DEF c
<1>9. /\ Fresh(s) \in Seq(Ages) /\ Len(Fresh(s)) = Len(s) - c
      /\ \A i \in 1..(Len(s) - c) : Fresh(s)[i] = s[c + i]
  BY <1>7, <1>8, SuffixIs
<1> QED BY <1>7, <1>9 DEF Leave

(* What a suffix keeps.                                                     *)
LEMMA SuffixSorted ==
    ASSUME NEW s \in Seq(Nat), NEW f \in Seq(Nat), NEW n \in 0..Len(s), Sorted(s),
           Len(f) = Len(s) - n, \A i \in 1..(Len(s) - n) : f[i] = s[n + i]
    PROVE  Sorted(f)
<1> DEFINE L == Len(s)
<1>1. L \in Nat /\ n \in 0..L /\ DOMAIN s = 1..L /\ DOMAIN f = 1..(L - n)
  OBVIOUS
<1>2. \A k \in 1..(L - n) : f[k] = s[n + k]
  OBVIOUS
<1> HIDE DEF L
<1>3. ASSUME NEW i \in 1..(L - n), NEW j \in 1..(L - n), i <= j
      PROVE  f[j] <= f[i]
  <2>1. n + i \in 1..L /\ n + j \in 1..L /\ n + i <= n + j
    BY <1>1, <1>3
  <2>2. s[n + j] <= s[n + i]
    BY <1>1, <2>1 DEF Sorted
  <2> QED BY <1>2, <2>2
<1> QED BY <1>1, <1>3 DEF Sorted

(* A new youngest element keeps the order.                                  *)
LEMMA AppendSorted ==
    ASSUME NEW s \in Seq(Nat), Sorted(s)
    PROVE  Sorted(Append(s, 0))
<1> DEFINE g == Append(s, 0)
<1>1. /\ g \in Seq(Nat) /\ Len(g) = Len(s) + 1 /\ g[Len(s) + 1] = 0
      /\ \A i \in 1..Len(s) : g[i] = s[i]
  OBVIOUS
<1> HIDE DEF g
<1>2. ASSUME NEW i \in DOMAIN g, NEW j \in DOMAIN g, i <= j
      PROVE  g[j] <= g[i]
  <2>1. CASE j = Len(s) + 1
    BY <1>1, <2>1
  <2>2. CASE j # Len(s) + 1
    <3>1. i \in DOMAIN s /\ j \in DOMAIN s
      BY <1>1, <1>2, <2>2
    <3>2. s[j] <= s[i]
      BY <1>2, <3>1 DEF Sorted
    <3> QED BY SMTT(30), <1>1, <3>1, <3>2
  <2> QED BY <2>1, <2>2
<1> QED BY <1>2 DEF Sorted, g

(* An admitted handshake leaves no more than MaxConcurrency of them.        *)
LEMMA RatesDecide ==
    ASSUME NEW st \in Seq(Ages), NEW sd \in Seq(Ages), Rates(st, sd, 0, 0)
    PROVE  /\ Rates(Fresh(st), sd, 0, 0)
           /\ Len(Fresh(st)) < MaxConcurrency => Rates(Fresh(st), sd, 1, 0)
           /\ Fresh(st) # << >> => Window - Head(Fresh(st)) \in Nat
<1>1. Window \in Nat /\ MaxConcurrency \in Nat
  BY BudgetAssumption
<1>2. PICK n \in 0..Len(st) :
              /\ Fresh(st) \in Seq(Ages) /\ Len(Fresh(st)) = Len(st) - n
              /\ \A i \in 1..(Len(st) - n) : Fresh(st)[i] = st[n + i]
              /\ \A i \in 1..n : st[i] >= Window
              /\ n = Len(st) \/ st[n + 1] < Window
  BY FreshDrops
<1> DEFINE f == Fresh(st)
<1> HIDE DEF f
<1>3. /\ f \in Seq(Ages) /\ Len(f) = Len(st) - n
      /\ \A i \in 1..(Len(st) - n) : f[i] = st[n + i]
  BY <1>2 DEF f
<1>31. st \in Seq(Nat) /\ f \in Seq(Nat)
  BY <1>1, <1>3 DEF Ages
<1>4. Sorted(f)
  BY <1>3, <1>31, SuffixSorted DEF Rates
<1>5. Few(f, 0)
  <2> SUFFICES ASSUME NEW i \in DOMAIN f, f[i] < Window
               PROVE  Len(f) - i + 1 + 0 <= MaxConcurrency
    BY DEF Few
  <2>1. n + i \in DOMAIN st /\ f[i] = st[n + i]
    BY <1>3
  <2>2. Len(st) - (n + i) + 1 + 0 <= MaxConcurrency
    BY <2>1 DEF Rates, Few
  <2> QED BY <1>1, <1>3, <2>2
<1>6. Match(f, sd, 0)
  <2> SUFFICES ASSUME NEW i \in DOMAIN sd, i <= Len(sd) - 0, sd[i] < Window
               PROVE  /\ Len(f) - (Len(sd) - 0) + i \in DOMAIN f
                      /\ f[Len(f) - (Len(sd) - 0) + i] <= sd[i]
    BY DEF Match
  <2> DEFINE j == Len(st) - Len(sd) + i
  <2>1. j \in DOMAIN st /\ st[j] <= sd[i]
    BY DEF Rates, Match
  <2>2. j > n
    BY SMTT(30), <1>1, <1>2, <2>1 DEF Ages
  <2>3. /\ Len(f) - (Len(sd) - 0) + i = j - n /\ j - n \in 1..(Len(st) - n)
        /\ n + (j - n) = j
    BY <1>3, <2>1, <2>2
  <2>4. f[j - n] = st[j]
    BY <1>3, <2>3
  <2> QED BY SMTT(30), <1>3, <2>1, <2>3, <2>4
<1>7. Len(f) < MaxConcurrency => Few(f, 1)
  <2> SUFFICES ASSUME Len(f) < MaxConcurrency, NEW i \in DOMAIN f
               PROVE  Len(f) - i + 1 + 1 <= MaxConcurrency
    BY DEF Few
  <2> QED BY <1>1, <1>3
<1>8. Sorted(sd)
  BY DEF Rates
<1>9. f # << >> => Window - Head(f) \in Nat
  BY <1>1, <1>3 DEF Ages
<1> QED BY <1>4, <1>5, <1>6, <1>7, <1>8, <1>9 DEF Rates, f

(* The Identify of an admitted handshake leaves.                            *)
LEMMA RatesSend ==
    ASSUME NEW st \in Seq(Ages), NEW sd \in Seq(Ages), Rates(st, sd, 1, 0)
    PROVE  Append(Fresh(sd), 0) \in Seq(Ages) /\ Rates(st, Append(Fresh(sd), 0), 1, 1)
<1>1. Window \in Nat /\ 0 \in Ages
  BY BudgetAssumption DEF Ages
<1>2. PICK n \in 0..Len(sd) :
              /\ Fresh(sd) \in Seq(Ages) /\ Len(Fresh(sd)) = Len(sd) - n
              /\ \A i \in 1..(Len(sd) - n) : Fresh(sd)[i] = sd[n + i]
  BY FreshDrops
<1> DEFINE f == Fresh(sd)
           g == Append(f, 0)
<1> HIDE DEF f
<1>3. /\ f \in Seq(Ages) /\ Len(f) = Len(sd) - n
      /\ \A i \in 1..(Len(sd) - n) : f[i] = sd[n + i]
  BY <1>2 DEF f
<1>4. /\ g \in Seq(Ages) /\ Len(g) = Len(f) + 1 /\ g[Len(f) + 1] = 0
      /\ \A i \in 1..Len(f) : g[i] = f[i]
  BY <1>1, <1>3
<1> HIDE DEF g
<1>5. Sorted(g)
  <2>1. sd \in Seq(Nat) /\ f \in Seq(Nat)
    BY <1>1, <1>3 DEF Ages
  <2>2. Sorted(f)
    BY <1>3, <2>1, SuffixSorted DEF Rates
  <2> QED BY <2>1, <2>2, AppendSorted DEF g
<1>6. Match(st, g, 1)
  <2> SUFFICES ASSUME NEW i \in DOMAIN g, i <= Len(g) - 1, g[i] < Window
               PROVE  /\ Len(st) - (Len(g) - 1) + i \in DOMAIN st
                      /\ st[Len(st) - (Len(g) - 1) + i] <= g[i]
    BY DEF Match
  <2>1. n + i \in DOMAIN sd /\ g[i] = sd[n + i] /\ n + i <= Len(sd) - 0
    BY <1>3, <1>4
  <2>2. /\ Len(st) - (Len(sd) - 0) + (n + i) \in DOMAIN st
        /\ st[Len(st) - (Len(sd) - 0) + (n + i)] <= sd[n + i]
    BY <2>1 DEF Rates, Match
  <2>3. Len(st) - (Len(sd) - 0) + (n + i) = Len(st) - (Len(g) - 1) + i
    BY <1>3, <1>4
  <2> QED BY <2>1, <2>2, <2>3
<1> QED BY <1>4, <1>5, <1>6 DEF Rates, f, g

(* The end of a handshake is stamped, whether or not its Identify left.     *)
LEMMA RatesStamp ==
    ASSUME NEW st \in Seq(Ages), NEW sd \in Seq(Ages), NEW d \in {0, 1}, Rates(st, sd, 1, d)
    PROVE  Append(st, 0) \in Seq(Ages) /\ Rates(Append(st, 0), sd, 0, 0)
<1>1. Window \in Nat /\ 0 \in Ages /\ MaxConcurrency \in Nat \ {0}
  BY BudgetAssumption DEF Ages
<1> DEFINE g == Append(st, 0)
<1>2. /\ g \in Seq(Ages) /\ Len(g) = Len(st) + 1 /\ g[Len(st) + 1] = 0
      /\ \A i \in 1..Len(st) : g[i] = st[i]
  BY <1>1
<1> HIDE DEF g
<1>3. Sorted(g)
  <2>1. st \in Seq(Nat)
    BY <1>1 DEF Ages
  <2> QED BY <2>1, AppendSorted DEF Rates, g
<1>4. Few(g, 0)
  <2> SUFFICES ASSUME NEW i \in DOMAIN g, g[i] < Window
               PROVE  Len(g) - i + 1 + 0 <= MaxConcurrency
    BY DEF Few
  <2>1. CASE i = Len(st) + 1
    BY <1>1, <1>2, <2>1
  <2>2. CASE i # Len(st) + 1
    <3>1. i \in DOMAIN st /\ st[i] < Window
      BY <1>2, <2>2
    <3>2. Len(st) - i + 1 + 1 <= MaxConcurrency
      BY <3>1 DEF Rates, Few
    <3> QED BY <1>1, <1>2, <3>1, <3>2
  <2> QED BY <2>1, <2>2
<1>5. Match(g, sd, 0)
  <2> SUFFICES ASSUME NEW i \in DOMAIN sd, i <= Len(sd) - 0, sd[i] < Window
               PROVE  /\ Len(g) - (Len(sd) - 0) + i \in DOMAIN g
                      /\ g[Len(g) - (Len(sd) - 0) + i] <= sd[i]
    BY DEF Match
  <2>1. sd[i] \in Ages
    OBVIOUS
  <2>2. CASE i = Len(sd)
    BY <1>1, <1>2, <2>1, <2>2 DEF Ages
  <2>3. CASE i < Len(sd)
    <3> DEFINE j == Len(st) - (Len(sd) - d) + i
    <3>1. j \in DOMAIN st /\ st[j] <= sd[i]
      BY <2>3 DEF Rates, Match
    <3>2. Len(g) - (Len(sd) - 0) + i = IF d = 0 THEN j + 1 ELSE j
      BY <1>2
    <3>3. j \in DOMAIN g /\ j + 1 \in DOMAIN g /\ j <= j + 1
      BY <1>2, <3>1
    <3>4. g[j + 1] <= g[j] /\ g[j] = st[j]
      BY <1>2, <1>3, <3>1, <3>3 DEF Sorted
    <3>5. g[j + 1] \in Ages /\ g[j] \in Ages
      BY <1>2, <3>3
    <3> HIDE DEF j
    <3>6. g[j] <= sd[i] /\ g[j + 1] <= sd[i]
      BY SMTT(30), <1>1, <2>1, <3>1, <3>4, <3>5 DEF Ages
    <3> QED BY <3>2, <3>3, <3>6
  <2> QED BY <2>2, <2>3
<1>6. Sorted(sd)
  BY DEF Rates
<1> QED BY <1>2, <1>3, <1>4, <1>5, <1>6 DEF Rates, g

(* Time passes.                                                             *)
LEMMA RatesTick ==
    ASSUME NEW st \in Seq(Ages), NEW sd \in Seq(Ages), NEW k \in {0, 1}, NEW d \in {0, 1},
           Rates(st, sd, k, d)
    PROVE  /\ Aged(st) \in Seq(Ages) /\ Fresh(Aged(sd)) \in Seq(Ages)
           /\ Rates(Aged(st), Fresh(Aged(sd)), k, d)
<1>1. Window \in Nat /\ MaxConcurrency \in Nat
  BY BudgetAssumption
<1>2. ASSUME NEW s \in Seq(Ages)
      PROVE  /\ Aged(s) \in Seq(Ages) /\ Len(Aged(s)) = Len(s)
             /\ \A i \in 1..Len(s) : Aged(s)[i] = IF s[i] < Window THEN s[i] + 1 ELSE s[i]
             /\ \A i \in 1..Len(s) : s[i] \in Ages /\ Aged(s)[i] \in Ages
  <2>0. DOMAIN s = 1..Len(s) /\ Len(s) \in Nat /\ \A i \in 1..Len(s) : s[i] \in Ages
    OBVIOUS
  <2>1. DOMAIN s = 1..Len(s) /\ Len(s) \in Nat /\ \A i \in 1..Len(s) : s[i] \in 0..Window
    BY <2>0 DEF Ages
  <2>2. \A i \in 1..Len(s) : (IF s[i] < Window THEN s[i] + 1 ELSE s[i]) \in 0..Window
    BY <1>1, <2>1
  <2> QED BY <2>1, <2>2 DEF Aged, Ages
<1> DEFINE a == Aged(st)
           b == Aged(sd)
<1>3. /\ a \in Seq(Ages) /\ Len(a) = Len(st)
      /\ \A i \in 1..Len(st) : a[i] = IF st[i] < Window THEN st[i] + 1 ELSE st[i]
      /\ \A i \in 1..Len(st) : st[i] \in 0..Window /\ a[i] \in 0..Window
  BY <1>2 DEF Ages
<1>4. /\ b \in Seq(Ages) /\ Len(b) = Len(sd)
      /\ \A i \in 1..Len(sd) : b[i] = IF sd[i] < Window THEN sd[i] + 1 ELSE sd[i]
      /\ \A i \in 1..Len(sd) : sd[i] \in 0..Window /\ b[i] \in 0..Window
  BY <1>2 DEF Ages
<1> HIDE DEF a, b
<1>5. PICK n \in 0..Len(b) :
              /\ Fresh(b) \in Seq(Ages) /\ Len(Fresh(b)) = Len(b) - n
              /\ \A i \in 1..(Len(b) - n) : Fresh(b)[i] = b[n + i]
  BY <1>4, FreshDrops
<1> DEFINE f == Fresh(b)
<1> HIDE DEF f
<1>6. /\ f \in Seq(Ages) /\ Len(f) = Len(sd) - n /\ n \in 0..Len(sd)
      /\ \A i \in 1..(Len(sd) - n) : f[i] = b[n + i]
  BY <1>4, <1>5 DEF f
<1>7. Sorted(a) /\ Sorted(b)
  <2>1. ASSUME NEW i \in DOMAIN st, NEW j \in DOMAIN st, i <= j PROVE a[j] <= a[i]
    <3>1. st[j] <= st[i]
      BY <2>1 DEF Rates, Sorted
    <3>2. i \in 1..Len(st) /\ j \in 1..Len(st)
      BY <2>1
    <3>3. /\ a[i] = (IF st[i] < Window THEN st[i] + 1 ELSE st[i]) /\ st[i] \in 0..Window
          /\ a[j] = (IF st[j] < Window THEN st[j] + 1 ELSE st[j]) /\ st[j] \in 0..Window
      BY <1>3, <3>2
    <3> QED BY SMTT(30), <1>1, <3>1, <3>3
  <2>2. ASSUME NEW i \in DOMAIN sd, NEW j \in DOMAIN sd, i <= j PROVE b[j] <= b[i]
    <3>1. sd[j] <= sd[i]
      BY <2>2 DEF Rates, Sorted
    <3>2. i \in 1..Len(sd) /\ j \in 1..Len(sd)
      BY <2>2
    <3>3. /\ b[i] = (IF sd[i] < Window THEN sd[i] + 1 ELSE sd[i]) /\ sd[i] \in 0..Window
          /\ b[j] = (IF sd[j] < Window THEN sd[j] + 1 ELSE sd[j]) /\ sd[j] \in 0..Window
      BY <1>4, <3>2
    <3> QED BY SMTT(30), <1>1, <3>1, <3>3
  <2>3. DOMAIN a = DOMAIN st /\ DOMAIN b = DOMAIN sd
    BY <1>3, <1>4
  <2>4. Sorted(a)
    BY <2>1, <2>3 DEF Sorted
  <2>5. Sorted(b)
    BY <2>2, <2>3 DEF Sorted
  <2> QED BY <2>4, <2>5
<1>8. Sorted(f)
  <2>1. b \in Seq(Nat) /\ f \in Seq(Nat) /\ n \in 0..Len(b) /\ Len(f) = Len(b) - n
    BY <1>1, <1>4, <1>6 DEF Ages
  <2>2. \A i \in 1..(Len(b) - n) : f[i] = b[n + i]
    BY <1>4, <1>6
  <2> QED BY <1>7, <2>1, <2>2, SuffixSorted
<1>9. Few(a, k)
  <2> SUFFICES ASSUME NEW i \in DOMAIN a, a[i] < Window
               PROVE  Len(a) - i + 1 + k <= MaxConcurrency
    BY DEF Few
  <2>1. i \in DOMAIN st /\ st[i] < Window
    BY <1>1, <1>3
  <2> QED BY <1>3, <2>1 DEF Rates, Few
<1>10. Match(a, f, d)
  <2> SUFFICES ASSUME NEW i \in DOMAIN f, i <= Len(f) - d, f[i] < Window
               PROVE  /\ Len(a) - (Len(f) - d) + i \in DOMAIN a
                      /\ a[Len(a) - (Len(f) - d) + i] <= f[i]
    BY DEF Match
  <2> DEFINE j == Len(st) - (Len(sd) - d) + (n + i)
  <2>0. i \in 1..(Len(sd) - n) /\ i <= Len(sd) - n - d /\ Len(sd) \in Nat
    BY <1>6
  <2>1. n + i \in DOMAIN sd /\ f[i] = b[n + i] /\ n + i <= Len(sd) - d
    BY SMTT(30), <1>6, <2>0
  <2>2. sd[n + i] < Window /\ b[n + i] = sd[n + i] + 1
    BY SMTT(30), <1>1, <1>4, <2>1
  <2>3. j \in DOMAIN st /\ st[j] <= sd[n + i]
    BY <2>1, <2>2 DEF Rates, Match
  <2>4. j = Len(a) - (Len(f) - d) + i
    BY <1>3, <1>6
  <2> HIDE DEF j
  <2>5. j \in DOMAIN a /\ a[j] <= st[j] + 1 /\ st[j] \in Nat /\ sd[n + i] \in Nat /\ a[j] \in Nat
    BY SMTT(30), <1>1, <1>3, <1>4, <2>1, <2>3
  <2>6. a[j] <= f[i]
    BY <2>1, <2>2, <2>3, <2>5
  <2> QED BY <2>4, <2>5, <2>6
<1> QED BY <1>3, <1>6, <1>7, <1>8, <1>9, <1>10 DEF Rates, a, b, f

(* What the stamps say bounds what was sent.                                *)
LEMMA RatesLimit ==
    ASSUME NEW st \in Seq(Ages), NEW sd \in Seq(Ages), NEW k \in {0, 1}, NEW d \in {0, 1},
           d <= k, Rates(st, sd, k, d)
    PROVE  Cardinality({i \in DOMAIN sd : sd[i] < Window}) <= MaxConcurrency
<1>1. Window \in Nat /\ MaxConcurrency \in Nat \ {0} /\ Len(sd) \in Nat /\ Len(st) \in Nat
  BY BudgetAssumption
<1> DEFINE N == Len(sd)
           low == N - MaxConcurrency + 1
           S == {i \in DOMAIN sd : sd[i] < Window}
<1>2. ASSUME NEW i \in DOMAIN sd, sd[i] < Window PROVE i \in low..N
  <2>1. CASE i <= N - d
    <3> DEFINE j == Len(st) - (N - d) + i
    <3>1. j \in DOMAIN st /\ st[j] <= sd[i]
      BY <1>2, <2>1 DEF Rates, Match
    <3>2. st[j] < Window
      <4>1. st[j] \in Ages /\ sd[i] \in Ages
        BY <3>1
      <4> QED BY <1>1, <1>2, <3>1, <4>1 DEF Ages
    <3>3. Len(st) - j + 1 + k <= MaxConcurrency
      BY <3>1, <3>2 DEF Rates, Few
    <3> QED BY SMTT(30), <1>1, <3>1, <3>3
  <2>2. CASE i > N - d
    BY <1>1, <2>2
  <2> QED BY <1>1, <2>1, <2>2
<1>3. low \in Int /\ N \in Int /\ S \subseteq low..N
  BY <1>1, <1>2
<1> HIDE DEF low, S
<1>4. IsFiniteSet(low..N) /\ Cardinality(low..N) = IF low > N THEN 0 ELSE N - low + 1
  BY <1>3, FS_Interval
<1>5. Cardinality(S) <= Cardinality(low..N) /\ Cardinality(S) \in Nat
  BY <1>3, <1>4, FS_Subset, FS_CardinalityType
<1>6. Cardinality(low..N) <= MaxConcurrency
  BY <1>1, <1>4 DEF low
<1>7. Cardinality(low..N) \in Nat
  BY <1>4, FS_CardinalityType
<1>8. Cardinality(S) <= MaxConcurrency
  BY <1>1, <1>5, <1>6, <1>7
<1> QED BY <1>8 DEF S

-----------------------------------------------------------------------------
(* The Identify budget.                                                    *)

HeldAt(places) == lock \in Actors /\ place[lock] \in places
InFlight == IF HeldAt({"shakes", "sent"}) THEN 1 ELSE 0
OnWire   == IF HeldAt({"sent"}) THEN 1 ELSE 0
Reserved == IF HeldAt({"shakes"}) THEN 1 ELSE 0

(* Whoever is in a place that needs the lock holds it, and only then.       *)
LockHeld  == \A a \in Actors : place[a] \in Holding <=> lock = a
GroupAt   == /\ place[Group] \in {"out", "seeks", "asks"}
             /\ place[Group] # "out" => group = "connecting"
ReplyHeld == reply # NoReply => HeldAt({"asks", "asks_refresh"})
Holders   == LockHeld /\ GroupAt /\ ReplyHeld
(* What was announced covers what was sent, what is admitted and the rest.  *)
Account   == spent + Reserved + remaining <= promised
RatesNow  == Rates(starts, sends, InFlight, OnWire)
BudgetInv == TypeOK /\ Holders /\ Account /\ RatesNow

LEMMA ActorsAre == Group \in Actors /\ Shards \subseteq Actors /\ Nobody \notin Actors /\ Group \notin Shards
BY BudgetAssumption DEF Actors, Nobody

LEMMA BudgetInit == Init => BudgetInv
<1> SUFFICES ASSUME Init PROVE BudgetInv
  OBVIOUS
<1>1. /\ Total \in Nat /\ MaxConcurrency \in Nat \ {0} /\ Window \in Nat \ {0}
      /\ ResetAfter \in Nat /\ RefreshGap \in Nat
  BY BudgetAssumption
<1>2. TypeOK
  <2>1. << >> \in Seq(0..Window)
    OBVIOUS
  <2>2. /\ [a \in Actors |-> "out"] \in [Actors -> Places]
        /\ [a \in Actors |-> 0] \in [Actors -> Nat]
    BY DEF Places
  <2>3. 0 \in 0..Total /\ 0 \in 0..ResetAfter /\ 0 \in 0..RefreshGap /\ 0 \in Nat
    BY <1>1
  <2> QED BY <2>1, <2>2, <2>3 DEF Init, TypeOK
<1>3. Holders
  BY <1>1, ActorsAre DEF Init, Holders, LockHeld, GroupAt, ReplyHeld, Holding
<1>4. Account
  BY <1>1, ActorsAre DEF Init, Account, Reserved, HeldAt
<1>5. RatesNow
  BY <1>1, ActorsAre DEF Init, RatesNow, Rates, Sorted, Few, Match, InFlight, OnWire, HeldAt
<1> QED BY <1>2, <1>3, <1>4, <1>5 DEF BudgetInv

(* session_start decides: a place within the rate and the total, or a wait. *)
LEMMA Decides ==
    ASSUME TypeOK, LockHeld, GroupAt, RatesNow, NEW a \in Shards,
           NEW left \in 0..Total, NEW r \in 0..ResetAfter,
           lock = Nobody \/ (lock = a /\ place[a] = "asks"),
           place[a] \in {"asks", "seeks"},
           Decide(a, left, r), UNCHANGED <<sends, group>>
    PROVE  /\ lock' \in Actors \cup {Nobody} /\ place' \in [Actors -> Places]
           /\ wake' \in [Actors -> Nat] /\ starts' \in Seq(Ages) /\ remaining' \in 0..Total
           /\ LockHeld' /\ GroupAt' /\ RatesNow' /\ Reserved' + remaining' = left
<1>1. /\ Total \in Nat /\ MaxConcurrency \in Nat \ {0} /\ Window \in Nat \ {0}
      /\ ResetAfter \in Nat /\ RefreshGap \in Nat
  BY BudgetAssumption
<1>2. /\ a \in Actors /\ a # Group /\ a # Nobody /\ Nobody \notin Actors /\ Group \in Actors
      /\ place \in [Actors -> Places] /\ wake \in [Actors -> Nat]
      /\ starts \in Seq(Ages) /\ sends \in Seq(Ages)
  BY ActorsAre DEF TypeOK, Ages
<1>3. InFlight = 0 /\ OnWire = 0
  BY <1>2 DEF InFlight, OnWire, HeldAt
<1>4. /\ Rates(Fresh(starts), sends, 0, 0)
      /\ Len(Fresh(starts)) < MaxConcurrency => Rates(Fresh(starts), sends, 1, 0)
      /\ Fresh(starts) # << >> => Window - Head(Fresh(starts)) \in Nat
  BY <1>2, <1>3, RatesDecide DEF RatesNow
<1>5. Fresh(starts) \in Seq(Ages)
  BY <1>2, FreshDrops
<1>6. starts' = Fresh(starts)
  BY DEF Decide
<1>7. CASE SpentUp(left)
  <2>1. /\ place' = [place EXCEPT ![a] = "sleeps"] /\ lock' = Nobody
        /\ wake' = [wake EXCEPT ![a] = r] /\ remaining' = left
    BY <1>7 DEF Decide
  <2>2. LockHeld'
    BY <1>2, <2>1 DEF LockHeld, Holding
  <2>3. InFlight' = 0 /\ OnWire' = 0 /\ Reserved' = 0
    BY <1>2, <2>1 DEF InFlight, OnWire, Reserved, HeldAt
  <2>4. RatesNow'
    BY <1>4, <1>6, <2>3 DEF RatesNow
  <2>5. place' \in [Actors -> Places] /\ GroupAt'
    BY <1>2, <2>1 DEF Places, GroupAt
  <2>6. wake' \in [Actors -> Nat]
    BY <1>1, <1>2, <2>1
  <2> QED BY <1>5, <1>6, <2>1, <2>2, <2>3, <2>4, <2>5, <2>6
<1>8. CASE ~SpentUp(left) /\ Len(Fresh(starts)) >= MaxConcurrency
  <2>1. /\ place' = [place EXCEPT ![a] = "sleeps"] /\ lock' = Nobody
        /\ wake' = [wake EXCEPT ![a] = Window - Head(Fresh(starts))]
        /\ remaining' = left
    BY <1>8 DEF Decide
  <2>2. LockHeld'
    BY <1>2, <2>1 DEF LockHeld, Holding
  <2>3. InFlight' = 0 /\ OnWire' = 0 /\ Reserved' = 0
    BY <1>2, <2>1 DEF InFlight, OnWire, Reserved, HeldAt
  <2>4. RatesNow'
    BY <1>4, <1>6, <2>3 DEF RatesNow
  <2>5. place' \in [Actors -> Places] /\ GroupAt'
    BY <1>2, <2>1 DEF Places, GroupAt
  <2>6. wake' \in [Actors -> Nat]
    <3>1. Fresh(starts) # << >>
      BY <1>1, <1>5, <1>8
    <3> QED BY <1>2, <1>4, <2>1, <3>1
  <2> QED BY <1>5, <1>6, <2>1, <2>2, <2>3, <2>4, <2>5, <2>6
<1>9. CASE ~SpentUp(left) /\ ~(Len(Fresh(starts)) >= MaxConcurrency)
  <2>1. /\ place' = [place EXCEPT ![a] = "shakes"] /\ lock' = a
        /\ remaining' = left - 1 /\ wake' = wake
    BY <1>9 DEF Decide
  <2>2. LockHeld'
    BY <1>2, <2>1 DEF LockHeld, Holding
  <2>3. InFlight' = 1 /\ OnWire' = 0 /\ Reserved' = 1
    BY <1>2, <2>1 DEF InFlight, OnWire, Reserved, HeldAt
  <2>4. RatesNow'
    <3>1. Len(Fresh(starts)) < MaxConcurrency
      BY <1>1, <1>5, <1>9
    <3> QED BY <1>4, <1>6, <2>3, <3>1 DEF RatesNow
  <2>5. place' \in [Actors -> Places] /\ GroupAt'
    BY <1>2, <2>1 DEF Places, GroupAt
  <2>6. remaining' \in 0..Total /\ Reserved' + remaining' = left
    BY <1>1, <1>9, <2>1, <2>3 DEF SpentUp
  <2> QED BY <1>2, <1>5, <1>6, <2>1, <2>2, <2>3, <2>4, <2>5, <2>6
<1> QED BY <1>7, <1>8, <1>9

LEMMA Regroup == \A x, y, z \in Nat : x + (y + z) = x + y + z
OBVIOUS

(* What the type and the lock say, for the steps below.                     *)
LEMMA BudgetFacts ==
    ASSUME BudgetInv
    PROVE  /\ Total \in Nat /\ MaxConcurrency \in Nat \ {0} /\ Window \in Nat \ {0}
           /\ ResetAfter \in Nat /\ RefreshGap \in Nat
           /\ Group \in Actors /\ Shards \subseteq Actors /\ Nobody \notin Actors /\ Group \notin Shards
           /\ Actors = Shards \cup {Group}
           /\ lock \in Actors \cup {Nobody}
           /\ place \in [Actors -> Places] /\ wake \in [Actors -> Nat]
           /\ starts \in Seq(Ages) /\ sends \in Seq(Ages)
           /\ remaining \in 0..Total /\ promised \in 0..Total /\ spent \in Nat
           /\ resetIn \in 0..ResetAfter
           /\ refreshIn \in 0..RefreshGap /\ notBefore \in 0..RefreshGap
           /\ InFlight \in {0, 1} /\ OnWire \in {0, 1} /\ Reserved \in {0, 1}
           /\ OnWire <= InFlight
           /\ reply # NoReply => reply[1] \in 0..Total /\ reply[2] = ResetAfter
BY BudgetAssumption, ActorsAre
   DEF BudgetInv, TypeOK, Ages, Actors, InFlight, OnWire, Reserved, HeldAt, NoReply

(* A step that changes nothing the rates and the account are about.         *)
LEMMA BudgetStill ==
    ASSUME BudgetInv, TypeOK', Holders',
           UNCHANGED <<starts, sends, spent, promised, remaining>>,
           InFlight' = InFlight, OnWire' = OnWire, Reserved' = Reserved
    PROVE  BudgetInv'
<1>1. RatesNow' /\ Account'
  BY DEF BudgetInv, RatesNow, Account
<1> QED BY <1>1 DEF BudgetInv

LEMMA AcquireKeeps ==
    ASSUME BudgetInv, NEW a \in Actors, Acquire(a)
    PROVE  BudgetInv'
<1>1. /\ place[a] = "seeks" /\ lock = Nobody
      /\ UNCHANGED <<known, resetIn, refreshIn, notBefore, tired, reply, sends, promised, spent>>
      /\ group' = IF a = Group /\ ~Expired THEN "running" ELSE group
  BY DEF Acquire, history
<1>2. reply = NoReply /\ LockHeld /\ GroupAt /\ RatesNow /\ TypeOK /\ Account
  BY <1>1, BudgetFacts DEF BudgetInv, Holders, ReplyHeld, HeldAt
<1>3. ReplyHeld'
  BY <1>1, <1>2 DEF ReplyHeld
<1>4. group' \in {"idle", "connecting", "running", "failed", "stopped"}
  BY <1>1, <1>2 DEF TypeOK
<1>5. CASE Expired
  <2>1. /\ lock' = a /\ place' = [place EXCEPT ![a] = "asks"]
        /\ UNCHANGED <<remaining, starts, wake>>
    BY <1>5 DEF Acquire
  <2>2. LockHeld' /\ GroupAt'
    <3>1. LockHeld'
      BY <1>1, <1>2, <2>1, BudgetFacts DEF LockHeld, Holding
    <3>2. group' = group
      BY <1>1, <1>5
    <3>3. a = Group => group = "connecting"
      BY <1>1, <1>2 DEF GroupAt
    <3>4. GroupAt'
      BY <1>2, <2>1, <3>2, <3>3, BudgetFacts DEF GroupAt
    <3> QED BY <3>1, <3>4
  <2>3. place' \in [Actors -> Places] /\ lock' \in Actors \cup {Nobody}
    BY <2>1, BudgetFacts DEF Places
  <2>4. TypeOK'
    BY <1>1, <1>2, <1>4, <2>1, <2>3 DEF TypeOK
  <2>5. InFlight' = InFlight /\ OnWire' = OnWire /\ Reserved' = Reserved
    BY <1>1, <2>1, BudgetFacts DEF InFlight, OnWire, Reserved, HeldAt
  <2> QED BY <1>1, <1>3, <2>1, <2>2, <2>4, <2>5, BudgetStill DEF Holders
<1>6. CASE ~Expired /\ a = Group
  <2>1. /\ place' = [b \in Actors |-> IF b \in Shards THEN "seeks" ELSE "out"]
        /\ UNCHANGED <<lock, remaining, starts, wake>>
    BY <1>6 DEF Acquire
  <2>2. LockHeld' /\ GroupAt'
    BY <1>1, <1>2, <2>1, BudgetFacts DEF LockHeld, GroupAt, Holding
  <2>3. place' \in [Actors -> Places]
    BY <2>1, BudgetFacts DEF Places
  <2>4. TypeOK'
    BY <1>1, <1>2, <1>4, <2>1, <2>3 DEF TypeOK
  <2>5. InFlight' = InFlight /\ OnWire' = OnWire /\ Reserved' = Reserved
    BY <1>1, <2>1, BudgetFacts DEF InFlight, OnWire, Reserved, HeldAt
  <2> QED BY <1>1, <1>3, <2>1, <2>2, <2>4, <2>5, BudgetStill DEF Holders
<1>7. CASE ~Expired /\ a # Group
  <2>1. Decide(a, remaining, resetIn) /\ a \in Shards
    BY <1>7, BudgetFacts DEF Acquire
  <2>2. /\ lock' \in Actors \cup {Nobody} /\ place' \in [Actors -> Places]
        /\ wake' \in [Actors -> Nat] /\ starts' \in Seq(Ages) /\ remaining' \in 0..Total
        /\ LockHeld' /\ GroupAt' /\ RatesNow' /\ Reserved' + remaining' = remaining
    <3>1. /\ remaining \in 0..Total /\ resetIn \in 0..ResetAfter
          /\ UNCHANGED <<sends, group>>
      BY <1>1, <1>7, BudgetFacts
    <3> QED BY <1>1, <1>2, <2>1, <3>1, Decides
  <2>3. TypeOK'
    BY <1>1, <1>2, <1>4, <2>2 DEF TypeOK, Ages
  <2>4. Account'
    <3>1. Reserved = 0
      BY <1>1, BudgetFacts DEF Reserved, HeldAt
    <3>2. Reserved' \in {0, 1}
      BY DEF Reserved
    <3>3. spent + Reserved + remaining <= promised /\ spent' = spent /\ promised' = promised
      BY <1>1, <1>2 DEF Account
    <3>4. spent \in Nat /\ promised \in Nat /\ remaining \in Nat /\ remaining' \in Nat
      BY <2>2, BudgetFacts
    <3>5. spent + (Reserved' + remaining') <= promised
      BY <2>2, <3>1, <3>3, <3>4
    <3>6. spent' + Reserved' + remaining' <= promised'
      <4>1. Reserved' \in Nat
        BY <3>2
      <4> QED BY ZenonT(30), <3>3, <3>4, <3>5, <4>1, Regroup
    <3> QED BY <3>6 DEF Account
  <2> QED BY <1>3, <2>2, <2>3, <2>4 DEF BudgetInv, Holders
<1> QED BY <1>5, <1>6, <1>7

LEMMA RefreshKeeps ==
    ASSUME BudgetInv, NEW a \in Actors, Refresh(a)
    PROVE  BudgetInv'
<1>1. /\ place[a] = "refreshes" /\ lock = Nobody
      /\ UNCHANGED <<known, remaining, resetIn, notBefore, starts, group, wake, tired, reply,
                     sends, promised, spent>>
  BY DEF Refresh, history
<1>2. reply = NoReply /\ LockHeld /\ GroupAt /\ RatesNow /\ TypeOK /\ Account
  BY <1>1, BudgetFacts DEF BudgetInv, Holders, ReplyHeld, HeldAt
<1>3. \/ place' = [place EXCEPT ![a] = "seeks"] /\ UNCHANGED <<lock, refreshIn>>
      \/ /\ lock' = a /\ place' = [place EXCEPT ![a] = "asks_refresh"]
         /\ refreshIn' = IF known THEN RefreshGap ELSE refreshIn
  BY DEF Refresh
<1>4. a # Group
  BY <1>1, <1>2 DEF GroupAt
<1>5. ReplyHeld'
  BY <1>1, <1>2 DEF ReplyHeld
<1>6. LockHeld' /\ GroupAt'
  BY SMTT(30), <1>1, <1>2, <1>3, <1>4, BudgetFacts DEF LockHeld, GroupAt, Holding
<1>7. place' \in [Actors -> Places] /\ lock' \in Actors \cup {Nobody} /\ refreshIn' \in 0..RefreshGap
  <2>1. place' \in [Actors -> Places]
    BY <1>3, BudgetFacts DEF Places
  <2>2. lock' \in Actors \cup {Nobody}
    BY <1>1, <1>3
  <2>3. refreshIn' \in 0..RefreshGap
    BY SMTT(30), <1>3, BudgetFacts
  <2> QED BY <2>1, <2>2, <2>3
<1>8. TypeOK'
  BY <1>1, <1>2, <1>7 DEF TypeOK
<1>9. InFlight' = InFlight /\ OnWire' = OnWire /\ Reserved' = Reserved
  BY <1>1, <1>3, BudgetFacts DEF InFlight, OnWire, Reserved, HeldAt
<1> QED BY <1>1, <1>5, <1>6, <1>8, <1>9, BudgetStill DEF Holders

(* A new answer of QQ, taken while nothing is admitted.                     *)
LEMMA AdoptKeeps ==
    ASSUME BudgetInv, NEW anew \in BOOLEAN, reply # NoReply, Adopt(anew)
    PROVE  /\ known' = TRUE /\ resetIn' = ResetAfter /\ refreshIn' = RefreshGap
           /\ notBefore' = 0 /\ reply' = NoReply
           /\ promised' \in 0..Total /\ spent' \in Nat
           /\ RemainingAfter(anew) \in 0..Total
           /\ Reserved = 0 => spent' + RemainingAfter(anew) <= promised'
<1>1. reply[1] \in 0..Total /\ reply[2] = ResetAfter
  BY BudgetFacts
<1>2. Least(remaining, reply[1]) \in 0..Total /\ Least(remaining, reply[1]) <= remaining
  BY SMTT(30), <1>1, BudgetFacts DEF Least
<1>3. CASE anew /\ ~Expired
  <2>1. UNCHANGED <<promised, spent>>
    BY <1>3 DEF Adopt
  <2>2. RemainingAfter(anew) = Least(remaining, reply[1])
    BY SMTT(30), <1>3, BudgetFacts DEF RemainingAfter, Expired
  <2>3. Reserved = 0 => spent + remaining <= promised
    BY BudgetFacts DEF BudgetInv, Account
  <2>4. Reserved = 0 => spent + Least(remaining, reply[1]) <= promised
    BY SMTT(30), <1>2, <2>3, BudgetFacts
  <2> QED BY <1>1, <1>2, <2>1, <2>2, <2>4, BudgetFacts DEF Adopt
<1>4. CASE ~(anew /\ ~Expired)
  <2>1. promised' = reply[1] /\ spent' = 0
    BY <1>4 DEF Adopt
  <2>2. RemainingAfter(anew) = reply[1]
    BY <1>4, BudgetFacts DEF RemainingAfter, Expired
  <2> QED BY SMTT(30), <1>1, <2>1, <2>2, BudgetFacts DEF Adopt
<1> QED BY <1>3, <1>4

LEMMA DiscoveredKeeps ==
    ASSUME BudgetInv, NEW a \in Actors, Discovered(a)
    PROVE  BudgetInv'
<1>1. /\ lock = a /\ place[a] \in {"asks", "asks_refresh"} /\ reply # NoReply
      /\ UNCHANGED <<tired, sends, faults>>
  BY DEF Discovered
<1>2. LockHeld /\ GroupAt /\ RatesNow /\ TypeOK /\ Account
  BY DEF BudgetInv, Holders
<1>3. Reserved = 0 /\ InFlight = 0 /\ OnWire = 0
  BY <1>1, BudgetFacts DEF Reserved, InFlight, OnWire, HeldAt
<1>4. ASSUME Adopt(TRUE) \/ Adopt(FALSE), lock' \in Actors \cup {Nobody}, remaining' \in 0..Total,
             starts' \in Seq(Ages), place' \in [Actors -> Places], wake' \in [Actors -> Nat],
             group' \in {"idle", "connecting", "running", "failed", "stopped"}
      PROVE  TypeOK' /\ ReplyHeld'
  <2>1. /\ known' = TRUE /\ resetIn' = ResetAfter /\ refreshIn' = RefreshGap
        /\ notBefore' = 0 /\ reply' = NoReply
        /\ promised' \in 0..Total /\ spent' \in Nat
    BY <1>1, <1>4, AdoptKeeps
  <2>2. resetIn' \in 0..ResetAfter /\ refreshIn' \in 0..RefreshGap /\ notBefore' \in 0..RefreshGap
    BY SMTT(30), <2>1, BudgetFacts
  <2> QED BY <1>1, <1>2, <1>4, <2>1, <2>2 DEF TypeOK, Ages, ReplyHeld
<1>31. ASSUME NEW r \in BOOLEAN, Adopt(r)
       PROVE  /\ RemainingAfter(r) \in 0..Total /\ RemainingAfter(r) \in Nat
              /\ spent' \in Nat /\ promised' \in Nat
              /\ spent' + RemainingAfter(r) <= promised'
  <2>1. /\ promised' \in 0..Total /\ spent' \in Nat
        /\ RemainingAfter(r) \in 0..Total
        /\ Reserved = 0 => spent' + RemainingAfter(r) <= promised'
    BY <1>1, <1>31, AdoptKeeps
  <2> QED BY <1>3, <2>1, BudgetFacts
<1>5. CASE /\ a = Group
           /\ Adopt(FALSE) /\ remaining' = RemainingAfter(FALSE)
           /\ lock' = Nobody /\ group' = "running"
           /\ place' = [b \in Actors |-> IF b \in Shards THEN "seeks" ELSE "out"]
           /\ UNCHANGED <<starts, wake>>
  <2>1. /\ remaining' \in 0..Total /\ spent' + remaining' <= promised'
        /\ spent' \in Nat /\ promised' \in Nat /\ remaining' \in Nat
    BY <1>31, <1>5
  <2>2. LockHeld' /\ GroupAt'
    BY <1>5, BudgetFacts DEF LockHeld, GroupAt, Holding
  <2>3. place' \in [Actors -> Places]
    BY <1>5, BudgetFacts DEF Places
  <2>4. TypeOK' /\ ReplyHeld'
    BY <1>4, <1>5, <2>1, <2>3, BudgetFacts
  <2>5. InFlight' = 0 /\ OnWire' = 0 /\ Reserved' = 0
    BY <1>5, BudgetFacts DEF InFlight, OnWire, Reserved, HeldAt
  <2>6. RatesNow'
    BY <1>1, <1>2, <1>3, <1>5, <2>5 DEF RatesNow
  <2>7. Account'
    <3>0. Reserved' = 0
      BY <2>5
    <3>2. \A x, y \in Nat : x + 0 + y = x + y
      OBVIOUS
    <3>3. spent' + 0 + remaining' = spent' + remaining'
      BY <2>1, <3>2
    <3>1. spent' + Reserved' + remaining' <= promised'
      BY <2>1, <3>0, <3>3
    <3> QED BY <3>1 DEF Account
  <2> QED BY <2>2, <2>4, <2>6, <2>7 DEF BudgetInv, Holders
<1>6. CASE /\ place[a] = "asks_refresh"
           /\ Adopt(TRUE) /\ remaining' = RemainingAfter(TRUE) /\ lock' = Nobody
           /\ place' = [place EXCEPT ![a] = "seeks"]
           /\ UNCHANGED <<starts, wake, group>>
  <2>1. /\ remaining' \in 0..Total /\ spent' + remaining' <= promised'
        /\ spent' \in Nat /\ promised' \in Nat /\ remaining' \in Nat
    BY <1>31, <1>6
  <2>2. LockHeld' /\ GroupAt'
    BY <1>1, <1>2, <1>6, BudgetFacts DEF LockHeld, GroupAt, Holding
  <2>3. place' \in [Actors -> Places]
    BY <1>6, BudgetFacts DEF Places
  <2>4. TypeOK' /\ ReplyHeld'
    BY <1>2, <1>4, <1>6, <2>1, <2>3, BudgetFacts DEF TypeOK
  <2>5. InFlight' = 0 /\ OnWire' = 0 /\ Reserved' = 0
    BY <1>6, BudgetFacts DEF InFlight, OnWire, Reserved, HeldAt
  <2>6. RatesNow'
    BY <1>1, <1>2, <1>3, <1>6, <2>5 DEF RatesNow
  <2>7. Account'
    <3>0. Reserved' = 0
      BY <2>5
    <3>2. \A x, y \in Nat : x + 0 + y = x + y
      OBVIOUS
    <3>3. spent' + 0 + remaining' = spent' + remaining'
      BY <2>1, <3>2
    <3>1. spent' + Reserved' + remaining' <= promised'
      BY <2>1, <3>0, <3>3
    <3> QED BY <3>1 DEF Account
  <2> QED BY <2>2, <2>4, <2>6, <2>7 DEF BudgetInv, Holders
<1>7. CASE /\ a \in Shards /\ place[a] = "asks"
           /\ Adopt(FALSE) /\ Decide(a, RemainingAfter(FALSE), reply[2])
           /\ UNCHANGED group
  <2> DEFINE left == RemainingAfter(FALSE)
  <2>1. /\ left \in 0..Total /\ spent' + left <= promised'
        /\ spent' \in Nat /\ promised' \in Nat
    BY <1>31, <1>7
  <2>2. /\ lock' \in Actors \cup {Nobody} /\ place' \in [Actors -> Places]
        /\ wake' \in [Actors -> Nat] /\ starts' \in Seq(Ages) /\ remaining' \in 0..Total
        /\ LockHeld' /\ GroupAt' /\ RatesNow' /\ Reserved' + remaining' = left
    <3>1. reply[2] \in 0..ResetAfter
      BY SMTT(30), <1>1, BudgetFacts
    <3> HIDE DEF left
    <3>2. Decide(a, left, reply[2])
      BY <1>7 DEF left
    <3> QED BY <1>1, <1>2, <1>7, <2>1, <3>1, <3>2, Decides
  <2>3. TypeOK' /\ ReplyHeld'
    BY <1>2, <1>4, <1>7, <2>2, BudgetFacts DEF TypeOK
  <2>4. Account'
    <3>1. Reserved' \in {0, 1}
      BY DEF Reserved
    <3>2. remaining' \in Nat
      BY <2>2, BudgetFacts
    <3> HIDE DEF left
    <3>3. spent' + (Reserved' + remaining') <= promised'
      BY <2>1, <2>2
    <3>4. spent' + Reserved' + remaining' <= promised'
      <4>1. Reserved' \in Nat
        BY <3>1
      <4> QED BY ZenonT(30), <2>1, <3>2, <3>3, <4>1, Regroup
    <3> QED BY <3>4 DEF Account
  <2> QED BY <2>2, <2>3, <2>4 DEF BudgetInv, Holders
<1> QED BY <1>5, <1>6, <1>7 DEF Discovered

LEMMA RetriesFacts ==
    ASSUME BudgetInv, NEW a \in Shards, Retries(a)
    PROVE  /\ tired' \subseteq Shards /\ place' \in [Actors -> Places]
           /\ \/ place' = [place EXCEPT ![a] = "refreshes"]
              \/ place' = [place EXCEPT ![a] = "seeks"]
<1>1. place' = [place EXCEPT ![a] = "refreshes"] \/ place' = [place EXCEPT ![a] = "seeks"]
  BY DEF Retries
<1>2. tired' \subseteq Shards
  BY DEF Retries, BudgetInv, TypeOK
<1> QED BY <1>1, <1>2, BudgetFacts DEF Places

LEMMA AskFailsKeeps ==
    ASSUME BudgetInv, NEW a \in Actors, AskFails(a)
    PROVE  BudgetInv'
<1>1. /\ lock = a /\ place[a] \in {"asks", "asks_refresh"}
      /\ lock' = Nobody /\ reply' = NoReply
      /\ UNCHANGED <<known, remaining, resetIn, refreshIn, starts, wake, sends, promised, spent>>
  BY DEF AskFails, GiveBack, history
<1>2. LockHeld /\ GroupAt /\ RatesNow /\ TypeOK /\ Account
  BY DEF BudgetInv, Holders
<1>3. notBefore' \in 0..RefreshGap
  <2>1. PICK pause \in {0, RefreshGap} :
            notBefore' = IF place[a] = "asks_refresh" /\ known /\ pause > notBefore
                         THEN pause ELSE notBefore
    BY DEF AskFails
  <2> QED BY SMTT(30), <2>1, BudgetFacts
<1>4. /\ tired' \subseteq Shards /\ place' \in [Actors -> Places]
      /\ \A b \in Actors : place'[b] \in Holding => b # a /\ place'[b] = place[b]
      /\ \A b \in Actors \ {a} : place'[b] = place[b]
      /\ group' \in {"idle", "connecting", "running", "failed", "stopped"}
      /\ GroupAt'
  <2>1. CASE a \in Shards /\ Retries(a) /\ UNCHANGED group
    <3>1. \/ place' = [place EXCEPT ![a] = "refreshes"]
          \/ place' = [place EXCEPT ![a] = "seeks"]
      BY <2>1, RetriesFacts
    <3>2. tired' \subseteq Shards /\ place' \in [Actors -> Places]
      BY <2>1, RetriesFacts
    <3>3. place'[Group] = place[Group] /\ \A b \in Actors \ {a} : place'[b] = place[b]
      BY ZenonT(30), <2>1, <3>1, BudgetFacts
    <3>4. place'[a] \notin Holding
      BY <3>1, BudgetFacts DEF Holding
    <3> QED BY <1>2, <2>1, <3>2, <3>3, <3>4 DEF TypeOK, GroupAt
  <2>2. CASE /\ a = Group /\ group' \in {"connecting", "failed"}
             /\ place' = [place EXCEPT ![a] = IF group' = "failed" THEN "out" ELSE "seeks"]
             /\ UNCHANGED tired
    <3>1. \A b \in Actors \ {a} : place'[b] = place[b]
      BY <2>2, BudgetFacts
    <3>2. place'[a] \in {"out", "seeks"} /\ (place'[a] # "out" => group' = "connecting")
      BY <2>2, BudgetFacts
    <3>3. place' \in [Actors -> Places]
      BY <2>2, BudgetFacts DEF Places
    <3> QED BY <1>2, <2>2, <3>1, <3>2, <3>3 DEF TypeOK, GroupAt, Holding
  <2> QED BY <2>1, <2>2 DEF AskFails
<1>5. LockHeld'
  BY <1>1, <1>2, <1>4, BudgetFacts DEF LockHeld
<1>6. ReplyHeld'
  BY <1>1 DEF ReplyHeld
<1>7. TypeOK'
  BY <1>1, <1>2, <1>3, <1>4 DEF TypeOK
<1>8. InFlight' = InFlight /\ OnWire' = OnWire /\ Reserved' = Reserved
  BY <1>1, BudgetFacts DEF InFlight, OnWire, Reserved, HeldAt
<1> QED BY <1>1, <1>4, <1>5, <1>6, <1>7, <1>8, BudgetStill DEF Holders

LEMMA SendIdentifyKeeps ==
    ASSUME BudgetInv, NEW a \in Actors, SendIdentify(a)
    PROVE  BudgetInv'
<1>1. /\ place[a] = "shakes" /\ place' = [place EXCEPT ![a] = "sent"]
      /\ sends' = Append(Fresh(sends), 0) /\ spent' = spent + 1
      /\ UNCHANGED <<lock, known, remaining, resetIn, refreshIn, notBefore, starts,
                     group, wake, tired, reply, promised>>
  BY DEF SendIdentify, budget
<1>2. LockHeld /\ GroupAt /\ ReplyHeld /\ RatesNow /\ TypeOK /\ Account
  BY DEF BudgetInv, Holders
<1>3. lock = a /\ a # Group
  BY <1>1, <1>2, BudgetFacts DEF LockHeld, GroupAt, Holding
<1>4. InFlight = 1 /\ OnWire = 0 /\ Reserved = 1
  BY <1>1, <1>3 DEF InFlight, OnWire, Reserved, HeldAt
<1>5. InFlight' = 1 /\ OnWire' = 1 /\ Reserved' = 0
  BY <1>1, <1>3, BudgetFacts DEF InFlight, OnWire, Reserved, HeldAt
<1>6. sends' \in Seq(Ages) /\ RatesNow'
  <2>1. Rates(starts, sends, 1, 0)
    BY <1>2, <1>4 DEF RatesNow
  <2>2. Append(Fresh(sends), 0) \in Seq(Ages) /\ Rates(starts, Append(Fresh(sends), 0), 1, 1)
    BY <2>1, BudgetFacts, RatesSend
  <2> QED BY <1>1, <1>5, <2>2 DEF RatesNow
<1>7. Account'
  <2>1. \A x, y \in Nat : x + 1 + 0 + y = x + 1 + y
    OBVIOUS
  <2>2. spent + 1 + remaining <= promised /\ spent \in Nat /\ remaining \in Nat
    BY <1>2, <1>4, BudgetFacts DEF Account
  <2>3. spent + 1 + 0 + remaining <= promised
    BY <2>1, <2>2
  <2>4. spent' + Reserved' + remaining' <= promised'
    BY <1>1, <1>5, <2>3
  <2> QED BY <2>4 DEF Account
<1>8. LockHeld' /\ GroupAt' /\ ReplyHeld'
  BY <1>1, <1>2, <1>3, BudgetFacts DEF LockHeld, GroupAt, ReplyHeld, HeldAt, Holding
<1>9. TypeOK'
  <2>1. place \in [Actors -> Places] /\ "sent" \in Places /\ spent \in Nat
    BY BudgetFacts DEF Places
  <2>2. place' \in [Actors -> Places]
    BY <1>1, <2>1
  <2>3. spent' \in Nat
    BY <1>1, <2>1
  <2> QED BY <1>1, <1>2, <1>6, <2>2, <2>3 DEF TypeOK, Ages
<1> QED BY <1>6, <1>7, <1>8, <1>9 DEF BudgetInv, Holders

(* A handshake that ends, however it ends, is stamped.                      *)
LEMMA StampKeeps ==
    ASSUME BudgetInv, HeldAt({"shakes", "sent"}), lock' = Nobody, starts' = Append(starts, 0),
           UNCHANGED <<remaining, sends, promised, spent>>
    PROVE  starts' \in Seq(Ages) /\ RatesNow' /\ Account'
<1>1. InFlight = 1 /\ InFlight' = 0 /\ OnWire' = 0 /\ Reserved' = 0
  BY BudgetFacts DEF InFlight, OnWire, Reserved, HeldAt
<1>2. Rates(starts, sends, 1, OnWire)
  BY <1>1 DEF BudgetInv, RatesNow
<1>3. Append(starts, 0) \in Seq(Ages) /\ Rates(Append(starts, 0), sends, 0, 0)
  BY <1>2, BudgetFacts, RatesStamp
<1>4. RatesNow'
  BY <1>1, <1>3 DEF RatesNow
<1>5. Account'
  <2>1. spent + Reserved + remaining <= promised
    BY DEF BudgetInv, Account
  <2>2. spent \in Nat /\ remaining \in Nat /\ promised \in Nat /\ Reserved \in {0, 1}
    BY BudgetFacts
  <2>3. spent + 0 + remaining <= promised
    BY <2>1, <2>2
  <2>4. spent' + Reserved' + remaining' <= promised'
    BY <1>1, <2>3
  <2> QED BY <2>4 DEF Account
<1> QED BY <1>3, <1>4, <1>5

LEMMA HandshakeDoneKeeps ==
    ASSUME BudgetInv, NEW a \in Actors, HandshakeDone(a)
    PROVE  BudgetInv'
<1>1. /\ place[a] = "sent" /\ lock' = Nobody /\ starts' = Append(starts, 0)
      /\ place' = [place EXCEPT ![a] = "up"] /\ tired' = tired \ {a}
      /\ UNCHANGED <<known, remaining, resetIn, refreshIn, notBefore, group, wake, reply,
                     sends, promised, spent>>
  BY DEF HandshakeDone, Stamp, history
<1>2. LockHeld /\ GroupAt /\ ReplyHeld /\ RatesNow /\ TypeOK /\ Account
  BY DEF BudgetInv, Holders
<1>3. lock = a /\ a # Group
  BY <1>1, <1>2, BudgetFacts DEF LockHeld, GroupAt, Holding
<1>4. starts' \in Seq(Ages) /\ RatesNow' /\ Account'
  BY <1>1, <1>3, StampKeeps DEF HeldAt
<1>5. LockHeld' /\ GroupAt'
  BY <1>1, <1>2, <1>3, BudgetFacts DEF LockHeld, GroupAt, Holding
<1>6. ReplyHeld'
  BY <1>1, <1>2, <1>3 DEF ReplyHeld, HeldAt
<1>7. TypeOK'
  <2>1. place' \in [Actors -> Places]
    BY <1>1, BudgetFacts DEF Places
  <2> QED BY <1>1, <1>2, <1>4, <2>1 DEF TypeOK, Ages
<1> QED BY <1>4, <1>5, <1>6, <1>7 DEF BudgetInv, Holders

LEMMA ShardFailsKeeps ==
    ASSUME BudgetInv, NEW a \in Actors, ShardFails(a)
    PROVE  BudgetInv'
<1>1. /\ place[a] \in {"shakes", "sent", "up"} /\ Retries(a)
      /\ UNCHANGED <<known, remaining, resetIn, refreshIn, notBefore, group, wake, reply,
                     sends, promised, spent>>
  BY DEF ShardFails, history
<1>2. LockHeld /\ GroupAt /\ ReplyHeld /\ RatesNow /\ TypeOK /\ Account
  BY DEF BudgetInv, Holders
<1>3. a # Group /\ a \in Shards
  BY <1>1, <1>2, BudgetFacts DEF GroupAt
<1>4. /\ tired' \subseteq Shards /\ place' \in [Actors -> Places]
      /\ \/ place' = [place EXCEPT ![a] = "refreshes"]
         \/ place' = [place EXCEPT ![a] = "seeks"]
  BY <1>1, <1>3, RetriesFacts
<1>5. GroupAt'
  BY <1>1, <1>2, <1>3, <1>4, BudgetFacts DEF GroupAt
<1>6. CASE lock = a
  <2>1. lock' = Nobody /\ starts' = Append(starts, 0)
    BY <1>6 DEF ShardFails, Stamp
  <2>2. place[a] \in {"shakes", "sent"}
    BY <1>1, <1>2, <1>6 DEF LockHeld, Holding
  <2>3. starts' \in Seq(Ages) /\ RatesNow' /\ Account'
    BY <1>1, <1>6, <2>1, <2>2, StampKeeps DEF HeldAt
  <2>4. LockHeld'
    BY <1>2, <1>4, <1>6, <2>1, BudgetFacts DEF LockHeld, Holding
  <2>5. ReplyHeld'
    BY <1>1, <1>2, <1>6, <2>2 DEF ReplyHeld, HeldAt
  <2>6. TypeOK'
    BY <1>1, <1>2, <1>4, <2>1, <2>3 DEF TypeOK, Ages
  <2> QED BY <1>5, <2>3, <2>4, <2>5, <2>6 DEF BudgetInv, Holders
<1>7. CASE lock # a
  <2>1. UNCHANGED <<lock, starts>>
    BY <1>7 DEF ShardFails
  <2>2. \A b \in Actors \ {a} : place'[b] = place[b]
    BY <1>4, BudgetFacts
  <2>3. place'[a] \notin Holding
    BY <1>4, BudgetFacts DEF Holding
  <2>4. LockHeld'
    BY <1>2, <1>7, <2>1, <2>2, <2>3 DEF LockHeld
  <2>5. ReplyHeld'
    BY <1>1, <1>2, <1>7, <2>1, <2>2 DEF ReplyHeld, HeldAt
  <2>6. TypeOK'
    BY <1>1, <1>2, <1>4, <2>1 DEF TypeOK
  <2>7. InFlight' = InFlight /\ OnWire' = OnWire /\ Reserved' = Reserved
    BY <1>7, <2>1, <2>2 DEF InFlight, OnWire, Reserved, HeldAt
  <2> QED BY <1>1, <1>5, <2>1, <2>4, <2>5, <2>6, <2>7, BudgetStill DEF Holders
<1> QED BY <1>6, <1>7

LEMMA WakeKeeps ==
    ASSUME BudgetInv, NEW a \in Actors, Wake(a)
    PROVE  BudgetInv'
<1>1. /\ place[a] = "sleeps" /\ place' = [place EXCEPT ![a] = "seeks"]
      /\ UNCHANGED <<lock, known, remaining, resetIn, refreshIn, notBefore, starts,
                     group, wake, tired, reply, sends, promised, spent>>
  BY DEF Wake, budget, history
<1>2. LockHeld /\ GroupAt /\ ReplyHeld /\ TypeOK
  BY DEF BudgetInv, Holders
<1>3. lock # a /\ a # Group
  BY <1>1, <1>2, BudgetFacts DEF LockHeld, GroupAt, Holding
<1>4. LockHeld' /\ GroupAt' /\ ReplyHeld'
  BY <1>1, <1>2, <1>3, BudgetFacts DEF LockHeld, GroupAt, ReplyHeld, HeldAt, Holding
<1>5. TypeOK'
  <2>1. place' \in [Actors -> Places]
    BY <1>1, BudgetFacts DEF Places
  <2> QED BY <1>1, <1>2, <2>1 DEF TypeOK
<1>6. InFlight' = InFlight /\ OnWire' = OnWire /\ Reserved' = Reserved
  BY <1>1, <1>3, BudgetFacts DEF InFlight, OnWire, Reserved, HeldAt
<1> QED BY <1>1, <1>4, <1>5, <1>6, BudgetStill DEF Holders

LEMMA GroupEndsKeeps ==
    ASSUME BudgetInv, GroupEnds
    PROVE  BudgetInv'
<1>1. PICK how \in {"failed", "stopped"} : Cancelled(how)
  BY DEF GroupEnds
<1>2. /\ group' = how /\ place' = [b \in Actors |-> "out"]
      /\ wake' = [b \in Actors |-> 0] /\ tired' = {} /\ reply' = NoReply /\ lock' = Nobody
      /\ starts' = IF lock # Nobody /\ place[lock] \in {"shakes", "sent"}
                   THEN Append(starts, 0) ELSE starts
      /\ UNCHANGED <<known, remaining, resetIn, refreshIn, notBefore, sends, promised, spent>>
  BY <1>1 DEF Cancelled, history
<1>3. LockHeld /\ RatesNow /\ TypeOK /\ Account
  BY DEF BudgetInv, Holders
<1>4. LockHeld' /\ GroupAt' /\ ReplyHeld'
  BY <1>2, BudgetFacts DEF LockHeld, GroupAt, ReplyHeld, Holding
<1>5. place' \in [Actors -> Places] /\ wake' \in [Actors -> Nat] /\ tired' \subseteq Shards
  BY <1>2 DEF Places
<1>6. CASE HeldAt({"shakes", "sent"})
  <2>1. starts' = Append(starts, 0)
    BY <1>2, <1>6, BudgetFacts DEF HeldAt
  <2>2. starts' \in Seq(Ages) /\ RatesNow' /\ Account'
    BY <1>2, <1>6, <2>1, StampKeeps
  <2>3. TypeOK'
    BY <1>2, <1>3, <1>5, <2>2 DEF TypeOK, Ages
  <2> QED BY <1>4, <2>2, <2>3 DEF BudgetInv, Holders
<1>7. CASE ~HeldAt({"shakes", "sent"})
  <2>1. starts' = starts
    BY <1>2, <1>7, BudgetFacts DEF HeldAt
  <2>2. TypeOK'
    BY <1>2, <1>3, <1>5, <2>1 DEF TypeOK
  <2>3. InFlight' = InFlight /\ OnWire' = OnWire /\ Reserved' = Reserved
    BY <1>2, <1>7, BudgetFacts DEF InFlight, OnWire, Reserved, HeldAt
  <2> QED BY <1>2, <1>4, <2>1, <2>2, <2>3, BudgetStill DEF Holders
<1> QED BY <1>6, <1>7

LEMMA StartKeeps ==
    ASSUME BudgetInv, Start
    PROVE  BudgetInv'
<1>1. /\ group \in {"idle", "failed", "stopped"} /\ group' = "connecting"
      /\ place' = [place EXCEPT ![Group] = "seeks"]
      /\ UNCHANGED <<lock, known, remaining, resetIn, refreshIn, notBefore, starts,
                     wake, tired, reply, sends, promised, spent>>
  BY DEF Start, budget, history
<1>2. LockHeld /\ GroupAt /\ ReplyHeld /\ TypeOK
  BY DEF BudgetInv, Holders
<1>3. lock # Group
  BY <1>1, <1>2, BudgetFacts DEF LockHeld, GroupAt, Holding
<1>4. LockHeld' /\ GroupAt' /\ ReplyHeld'
  BY <1>1, <1>2, <1>3, BudgetFacts DEF LockHeld, GroupAt, ReplyHeld, HeldAt, Holding
<1>5. TypeOK'
  <2>1. place' \in [Actors -> Places]
    BY <1>1, BudgetFacts DEF Places
  <2> QED BY <1>1, <1>2, <2>1 DEF TypeOK
<1>6. InFlight' = InFlight /\ OnWire' = OnWire /\ Reserved' = Reserved
  BY <1>1, <1>3, BudgetFacts DEF InFlight, OnWire, Reserved, HeldAt
<1> QED BY <1>1, <1>4, <1>5, <1>6, BudgetStill DEF Holders

LEMMA AnswerKeeps ==
    ASSUME BudgetInv, Answer
    PROVE  BudgetInv'
<1>1. /\ lock # Nobody /\ place[lock] \in {"asks", "asks_refresh"}
      /\ UNCHANGED <<lock, known, remaining, resetIn, refreshIn, notBefore, starts,
                     group, place, wake, tired, sends, promised, spent>>
  BY DEF Answer, budget, shards, history
<1>2. LockHeld /\ GroupAt /\ TypeOK
  BY DEF BudgetInv, Holders
<1>3. PICK left \in 0..Total : reply' = <<left, ResetAfter>>
  <2>1. PICK left \in IF Expired THEN 1..Total ELSE 0..Total : reply' = <<left, ResetAfter>>
    BY DEF Answer
  <2>2. left \in 0..Total
    BY <2>1, BudgetFacts
  <2> QED BY <2>1, <2>2
<1>4. LockHeld' /\ GroupAt' /\ ReplyHeld'
  BY <1>1, <1>2, BudgetFacts DEF LockHeld, GroupAt, ReplyHeld, HeldAt
<1>5. TypeOK'
  BY <1>1, <1>2, <1>3 DEF TypeOK
<1>6. InFlight' = InFlight /\ OnWire' = OnWire /\ Reserved' = Reserved
  BY <1>1 DEF InFlight, OnWire, Reserved, HeldAt
<1> QED BY <1>1, <1>4, <1>5, <1>6, BudgetStill DEF Holders

LEMMA TickKeeps ==
    ASSUME BudgetInv, Tick
    PROVE  BudgetInv'
<1>1. /\ resetIn' = Less(resetIn) /\ refreshIn' = Less(refreshIn) /\ notBefore' = Less(notBefore)
      /\ starts' = Aged(starts) /\ wake' = [a \in Actors |-> Less(wake[a])]
      /\ sends' = Fresh(Aged(sends))
      /\ UNCHANGED <<lock, known, remaining, group, place, tired, reply, promised, spent>>
  BY DEF Tick
<1>2. LockHeld /\ GroupAt /\ ReplyHeld /\ RatesNow /\ TypeOK /\ Account
  BY DEF BudgetInv, Holders
<1>3. LockHeld' /\ GroupAt' /\ ReplyHeld'
  BY <1>1, <1>2 DEF LockHeld, GroupAt, ReplyHeld, HeldAt
<1>4. InFlight' = InFlight /\ OnWire' = OnWire /\ Reserved' = Reserved
  BY <1>1 DEF InFlight, OnWire, Reserved, HeldAt
<1>5. starts' \in Seq(Ages) /\ sends' \in Seq(Ages) /\ RatesNow'
  <2>1. /\ Aged(starts) \in Seq(Ages) /\ Fresh(Aged(sends)) \in Seq(Ages)
        /\ Rates(Aged(starts), Fresh(Aged(sends)), InFlight, OnWire)
    BY SMTT(30), <1>2, BudgetFacts, RatesTick DEF RatesNow
  <2> QED BY <1>1, <1>4, <2>1 DEF RatesNow
<1>6. Account'
  BY <1>1, <1>2, <1>4 DEF Account
<1>7. ASSUME NEW n \in Nat, NEW m \in 0..n
      PROVE  Less(m) \in 0..n /\ Less(m) \in Nat
  BY DEF Less
<1>8. \A m \in Nat : Less(m) \in Nat
  BY DEF Less
<1>9. /\ resetIn' \in 0..ResetAfter /\ refreshIn' \in 0..RefreshGap /\ notBefore' \in 0..RefreshGap
      /\ wake' \in [Actors -> Nat]
  BY <1>1, <1>7, <1>8, BudgetFacts
<1>10. TypeOK'
  BY <1>1, <1>2, <1>5, <1>9 DEF TypeOK, Ages
<1> QED BY <1>3, <1>5, <1>6, <1>10 DEF BudgetInv, Holders

LEMMA BudgetNext ==
    ASSUME BudgetInv, Next
    PROVE  BudgetInv'
<1>1. ASSUME NEW a \in Actors, Steps(a) \/ AskFails(a) \/ ShardFails(a)
      PROVE  BudgetInv'
  BY <1>1, AcquireKeeps, RefreshKeeps, DiscoveredKeeps, SendIdentifyKeeps, HandshakeDoneKeeps,
     WakeKeeps, AskFailsKeeps, ShardFailsKeeps DEF Steps
<1> QED BY <1>1, GroupEndsKeeps, StartKeeps, AnswerKeeps, TickKeeps DEF Next

LEMMA BudgetUnchanged ==
    ASSUME BudgetInv, UNCHANGED vars
    PROVE  BudgetInv'
<1>1. UNCHANGED <<lock, known, remaining, resetIn, refreshIn, notBefore, starts, group, place,
                  wake, tired, reply, sends, promised, spent>>
  BY DEF vars, budget, shards, history
<1>2. Holders' /\ TypeOK'
  BY <1>1 DEF BudgetInv, Holders, LockHeld, GroupAt, ReplyHeld, HeldAt, TypeOK
<1>3. InFlight' = InFlight /\ OnWire' = OnWire /\ Reserved' = Reserved
  BY <1>1 DEF InFlight, OnWire, Reserved, HeldAt
<1> QED BY <1>1, <1>2, <1>3, BudgetStill

LEMMA BudgetImplies ==
    ASSUME BudgetInv
    PROVE  TypeOK /\ WithinLimits
<1>1. spent <= promised
  <2>1. spent + Reserved + remaining <= promised
    BY DEF BudgetInv, Account
  <2>2. spent \in Nat /\ promised \in Nat /\ remaining \in Nat /\ Reserved \in {0, 1}
    BY BudgetFacts
  <2> QED BY <2>1, <2>2
<1>2. Cardinality({i \in DOMAIN sends : sends[i] < Window}) <= MaxConcurrency
  BY BudgetFacts, RatesLimit DEF BudgetInv, RatesNow
<1> QED BY <1>1, <1>2 DEF WithinLimits, BudgetInv

(* In any run of any number of shards, between two periods of the budget no *)
(* more Identifies leave than QQ announced, and none leaves a window too    *)
(* full, whatever is cancelled, refused or refreshed in between.            *)
THEOREM WithinBudget == TransportSpec => []BudgetKept
<1>1. TransportInit => BudgetInv
  BY BudgetInit DEF TransportInit
<1>2. BudgetInv /\ [TransportNext]_<<part, gatewayVars, vars, tokenVars>> => BudgetInv'
  <2> SUFFICES ASSUME BudgetInv, [TransportNext]_<<part, gatewayVars, vars, tokenVars>>
               PROVE  BudgetInv'
    OBVIOUS
  <2>1. Next \/ UNCHANGED vars
    BY DEF TransportNext, GatewayStep, BudgetStep, TokenStep
  <2> QED BY <2>1, BudgetNext, BudgetUnchanged
<1>3. BudgetInv => BudgetKept
  BY BudgetImplies DEF BudgetKept
<1> QED BY <1>1, <1>2, <1>3, PTL DEF TransportSpec

-----------------------------------------------------------------------------
(* The access token.                                                       *)

\* Slots of tasks hold what a refresh came to: nothing yet, nothing, a token.
OwnOK ==
    /\ issued \in 0..MaxTokens /\ token \in 0..issued /\ fresh \in BOOLEAN
    /\ refresh \in {0} \cup DOMAIN tasks /\ tries \in 0..MaxAttempts
    /\ \E n \in Nat : DOMAIN tasks = 1..n
    /\ \A t \in DOMAIN tasks : tasks[t] \in {0, -1} \cup 1..issued
(* A request on the wire has a token that was issued; a write may have been *)
(* carried out only once it has ended, and is never about to be repeated.   *)
CallOK(c) ==
    /\ callPlace[c] \in {"wire", "pause"} => tok[c] \in 1..issued
    /\ callPlace[c] \in {"token", "retoken"} => awaits[c] \in DOMAIN tasks
    /\ c \in Writes => \/ copies[c] = 0 /\ callPlace[c] # "pause"
                       \/ copies[c] = 1 /\ callPlace[c] \in {"done", "failed"}
CallsOK ==
    /\ callPlace \in [Calls -> T!Places] /\ tok \in [Calls -> 0..MaxTokens]
    /\ awaits \in [Calls -> {0} \cup DOMAIN tasks] /\ copies \in [Calls -> Nat]
    /\ \A c \in Calls : CallOK(c)
TakenOK == valid \subseteq 1..issued /\ refused \subseteq 1..issued
ClosedOK == closed \in BOOLEAN /\ (cleared => closed /\ token = 0)
TokenInv == OwnOK /\ CallsOK /\ TakenOK /\ ClosedOK

LEMMA TokenInit == T!Init => TokenInv
<1> SUFFICES ASSUME T!Init PROVE TokenInv
  OBVIOUS
<1>1. MaxTokens \in Nat /\ MaxAttempts \in Nat
  BY TransportAssumption
<1>2. DOMAIN tasks = {} /\ 1..0 = {}
  BY DEF T!Init
<1>3. OwnOK
  <2>1. 0 \in Nat /\ DOMAIN tasks = 1..0
    BY <1>2
  <2>2. \E n \in Nat : DOMAIN tasks = 1..n
    BY <2>1
  <2>3. \A t \in DOMAIN tasks : tasks[t] \in {0, -1} \cup 1..issued
    BY <1>2
  <2>4. token = 0 /\ fresh = FALSE /\ refresh = 0 /\ tries = 0 /\ issued = 0
    BY DEF T!Init, T!None
  <2>5. issued \in 0..MaxTokens /\ token \in 0..issued /\ tries \in 0..MaxAttempts
    BY <1>1, <2>4
  <2>6. fresh \in BOOLEAN /\ refresh \in {0} \cup DOMAIN tasks
    BY <2>4
  <2> QED BY <2>2, <2>3, <2>5, <2>6 DEF OwnOK
<1>4. CallsOK
  BY <1>1, <1>2 DEF T!Init, T!None, CallsOK, CallOK, T!Places
<1> QED BY <1>1, <1>3, <1>4 DEF T!Init, T!None, TokenInv, TakenOK, ClosedOK

LEMMA TokenImplies == TokenInv => T!TypeOK /\ T!NoSecondCopy
<1> SUFFICES ASSUME TokenInv PROVE T!TypeOK /\ T!NoSecondCopy
  OBVIOUS
<1>1. MaxTokens \in Nat /\ MaxAttempts \in Nat /\ Writes \subseteq Calls
  BY TransportAssumption
<1>2. issued \in 0..MaxTokens /\ 0..issued \subseteq 0..MaxTokens /\ 1..issued \subseteq 1..MaxTokens
  BY <1>1 DEF TokenInv, OwnOK
<1>3. T!TypeOK
  BY <1>1, <1>2 DEF TokenInv, OwnOK, CallsOK, TakenOK, T!TypeOK, T!None, T!Pending, T!Lost
<1>4. T!NoSecondCopy
  BY <1>1 DEF TokenInv, CallsOK, CallOK, ClosedOK, T!NoSecondCopy, T!None
<1> QED BY <1>3, <1>4

\* The count of TokenRefresh is the count.
LEMMA SameCount ==
    ASSUME NEW S
    PROVE  T!Cardinality(S) = Cardinality(S)
BY DEF T!Cardinality, Cardinality

LEMMA TaskCount ==
    ASSUME OwnOK
    PROVE  /\ Cardinality(DOMAIN tasks) \in Nat
           /\ DOMAIN tasks = 1..Cardinality(DOMAIN tasks)
<1>1. PICK n \in Nat : DOMAIN tasks = 1..n
  BY DEF OwnOK
<1>2. Cardinality(1..n) = IF 1 > n THEN 0 ELSE n - 1 + 1
  BY FS_Interval
<1>3. Cardinality(1..n) = n
  BY <1>2
<1> QED BY <1>1, <1>3

(* A request that asks for a token goes on with a fresh one, joins the       *)
(* refresh that runs, or starts one, which only happens for want of one.    *)
LEMMA AskToken ==
    ASSUME OwnOK, NEW c \in Calls, NEW rejected \in 0..MaxTokens, NEW waiting,
           T!AskToken(c, rejected, waiting), token' = token, issued' = issued,
           callPlace \in [Calls -> T!Places], tok \in [Calls -> 0..MaxTokens],
           awaits \in [Calls -> {0} \cup DOMAIN tasks]
    PROVE  /\ OwnOK' /\ DOMAIN tasks \subseteq DOMAIN tasks'
           /\ awaits' \in [Calls -> {0} \cup DOMAIN tasks']
           /\ \A d \in Calls \ {c} : awaits'[d] = awaits[d]
           /\ \/ /\ callPlace' = [callPlace EXCEPT ![c] = "wire"]
                 /\ tok' = [tok EXCEPT ![c] = token] /\ token \in 1..issued
              \/ /\ callPlace' = [callPlace EXCEPT ![c] = waiting]
                 /\ tok' = tok /\ awaits'[c] \in DOMAIN tasks'
           /\ DOMAIN tasks' # DOMAIN tasks
                => (token = 0 \/ ~fresh \/ token = rejected) /\ ~T!Running
<1>1. fresh' \in BOOLEAN
  BY DEF T!AskToken, OwnOK
<1>2. CASE T!StillFresh(rejected)
  <2>1. /\ callPlace' = [callPlace EXCEPT ![c] = "wire"] /\ tok' = [tok EXCEPT ![c] = token]
        /\ UNCHANGED <<refresh, tasks, tries, awaits>>
    BY <1>2 DEF T!AskToken
  <2>2. token \in 1..issued
    BY <1>2, TransportAssumption DEF T!StillFresh, T!None, OwnOK
  <2>3. OwnOK'
    BY <1>1, <2>1 DEF OwnOK
  <2>4. DOMAIN tasks' = DOMAIN tasks
    BY <2>1
  <2> QED BY <2>1, <2>2, <2>3, <2>4
<1>3. CASE ~T!StillFresh(rejected) /\ T!Running
  <2>1. /\ callPlace' = [callPlace EXCEPT ![c] = waiting] /\ tok' = tok
        /\ awaits' = [awaits EXCEPT ![c] = refresh] /\ UNCHANGED <<refresh, tasks, tries>>
    BY <1>3 DEF T!AskToken
  <2>2. refresh \in DOMAIN tasks
    BY <1>3 DEF T!Running, T!None, OwnOK
  <2>3. OwnOK'
    BY <1>1, <2>1 DEF OwnOK
  <2>4. DOMAIN tasks' = DOMAIN tasks
    BY <2>1
  <2>5. awaits' \in [Calls -> {0} \cup DOMAIN tasks']
    BY <2>1, <2>2
  <2>6. awaits'[c] \in DOMAIN tasks' /\ \A d \in Calls \ {c} : awaits'[d] = awaits[d]
    BY <2>1, <2>2
  <2> QED BY <2>1, <2>3, <2>4, <2>5, <2>6
<1>4. CASE ~T!StillFresh(rejected) /\ ~T!Running
  <2> DEFINE n == Cardinality(DOMAIN tasks)
  <2>1. /\ callPlace' = [callPlace EXCEPT ![c] = waiting] /\ tok' = tok
        /\ refresh' = n + 1
        /\ tasks' = [t \in 1..refresh' |-> IF t = refresh' THEN T!Pending ELSE tasks[t]]
        /\ tries' = 0 /\ awaits' = [awaits EXCEPT ![c] = refresh']
    BY <1>4, SameCount, Zenon DEF T!AskToken
  <2>2. n \in Nat /\ DOMAIN tasks = 1..n
    BY TaskCount
  <2> HIDE DEF n
  <2>3. DOMAIN tasks' = 1..(n + 1) /\ n + 1 \in Nat /\ n + 1 \in DOMAIN tasks'
    BY <2>1, <2>2
  <2>4. DOMAIN tasks \subseteq DOMAIN tasks'
    BY <2>2, <2>3
  <2>5. \A t \in DOMAIN tasks' : tasks'[t] \in {0, -1} \cup 1..issued'
    <3>1. ASSUME NEW t \in 1..(n + 1) PROVE tasks'[t] \in {0, -1} \cup 1..issued'
      <4>1. CASE t = n + 1
        BY <2>1, <4>1 DEF T!Pending
      <4>2. CASE t # n + 1
        <5>1. t \in DOMAIN tasks /\ tasks'[t] = tasks[t]
          BY <2>1, <2>2, <4>2
        <5> QED BY <5>1 DEF OwnOK
      <4> QED BY <4>1, <4>2
    <3> QED BY <2>3, <3>1
  <2>6. tries' \in 0..MaxAttempts
    BY <2>1, TransportAssumption
  <2>7. OwnOK'
    BY <1>1, <2>1, <2>3, <2>5, <2>6 DEF OwnOK
  <2>8. awaits' \in [Calls -> {0} \cup DOMAIN tasks'] /\ awaits'[c] \in DOMAIN tasks'
        /\ \A d \in Calls \ {c} : awaits'[d] = awaits[d]
    BY <2>1, <2>3, <2>4
  <2>9. token = 0 \/ ~fresh \/ token = rejected
    BY <1>4 DEF T!StillFresh, T!None
  <2> QED BY <1>4, <2>1, <2>4, <2>7, <2>8, <2>9
<1> QED BY <1>2, <1>3, <1>4

(* A step that leaves the refresh and what QQ issued alone, and that moves   *)
(* one request, keeps the others right.                                     *)
LEMMA OthersKept ==
    ASSUME CallsOK, NEW c \in Calls, DOMAIN tasks \subseteq DOMAIN tasks', issued \in Nat,
           issued' \in Nat, issued <= issued',
           callPlace' \in [Calls -> T!Places], tok' \in [Calls -> 0..MaxTokens],
           awaits' \in [Calls -> {0} \cup DOMAIN tasks'], copies' \in [Calls -> Nat],
           \A d \in Calls \ {c} : /\ callPlace'[d] = callPlace[d] /\ tok'[d] = tok[d]
                                  /\ awaits'[d] = awaits[d] /\ copies'[d] = copies[d],
           CallOK(c)'
    PROVE  CallsOK'
<1>1. ASSUME NEW d \in Calls \ {c} PROVE CallOK(d)'
  <2>1. CallOK(d)
    BY DEF CallsOK
  <2>2. 1..issued \subseteq 1..issued'
    OBVIOUS
  <2> QED BY <2>1, <2>2 DEF CallOK
<1>2. \A d \in Calls : CallOK(d)'
  BY <1>1
<1> QED BY <1>2 DEF CallsOK

LEMMA BeginKeeps ==
    ASSUME TokenInv, NEW c \in Calls, T!Begin(c)
    PROVE  TokenInv'
<1>1. /\ callPlace[c] = "idle"
      /\ callPlace' = [callPlace EXCEPT ![c] =
             IF Cardinality(T!Active) >= MaxActive THEN "failed" ELSE "slot"]
      /\ UNCHANGED <<token, fresh, refresh, tasks, tries, tok, awaits, closed, cleared,
                     issued, valid, refused, copies>>
  BY SameCount, Zenon DEF T!Begin, T!own, T!qq, T!hist
<1>2. callPlace' \in [Calls -> T!Places] /\ callPlace'[c] \in {"failed", "slot"}
  BY <1>1 DEF TokenInv, CallsOK, T!Places
<1>3. CallOK(c)'
  BY <1>1, <1>2 DEF TokenInv, CallsOK, CallOK
<1>4. \A d \in Calls \ {c} : callPlace'[d] = callPlace[d]
  BY <1>1 DEF TokenInv, CallsOK
<1>5. issued \in Nat /\ CallsOK
  BY TransportAssumption DEF TokenInv, OwnOK
<1>6. CallsOK'
  BY <1>1, <1>2, <1>3, <1>4, <1>5, OthersKept DEF CallsOK
<1> QED BY <1>1, <1>6 DEF TokenInv, OwnOK, TakenOK, ClosedOK

(* The two steps that ask for a token.                                      *)
LEMMA AskKeeps ==
    ASSUME TokenInv, NEW c \in Calls, NEW rejected \in 0..MaxTokens,
           NEW waiting \in {"token", "retoken"},
           T!AskToken(c, rejected, waiting),
           UNCHANGED <<token, issued, copies>>,
           callPlace[c] \in {"slot", "wire"}
    PROVE  OwnOK' /\ CallsOK'
<1>1. /\ OwnOK /\ CallsOK /\ issued \in Nat
      /\ callPlace \in [Calls -> T!Places] /\ tok \in [Calls -> 0..MaxTokens]
      /\ awaits \in [Calls -> {0} \cup DOMAIN tasks] /\ copies \in [Calls -> Nat]
  BY SMTT(30), TransportAssumption DEF TokenInv, OwnOK, CallsOK
<1>2. /\ OwnOK' /\ DOMAIN tasks \subseteq DOMAIN tasks'
      /\ awaits' \in [Calls -> {0} \cup DOMAIN tasks']
      /\ \A d \in Calls \ {c} : awaits'[d] = awaits[d]
      /\ \/ /\ callPlace' = [callPlace EXCEPT ![c] = "wire"]
            /\ tok' = [tok EXCEPT ![c] = token] /\ token \in 1..issued
         \/ /\ callPlace' = [callPlace EXCEPT ![c] = waiting]
            /\ tok' = tok /\ awaits'[c] \in DOMAIN tasks'
  BY <1>1, AskToken
<1>3. c \in Writes => copies[c] = 0
  BY <1>1 DEF CallsOK, CallOK
<1>4. 1..issued \subseteq 0..MaxTokens
  BY <1>1, TransportAssumption DEF OwnOK
<1>5. /\ callPlace' \in [Calls -> T!Places] /\ tok' \in [Calls -> 0..MaxTokens]
      /\ \A d \in Calls \ {c} : callPlace'[d] = callPlace[d] /\ tok'[d] = tok[d]
  BY <1>1, <1>2, <1>4 DEF T!Places
<1>6. CallOK(c)'
  <2>1. CASE /\ callPlace' = [callPlace EXCEPT ![c] = "wire"]
             /\ tok' = [tok EXCEPT ![c] = token] /\ token \in 1..issued
    <3>1. callPlace'[c] = "wire" /\ tok'[c] \in 1..issued'
      BY <1>1, <2>1
    <3> QED BY <1>3, <3>1 DEF CallOK
  <2>2. CASE /\ callPlace' = [callPlace EXCEPT ![c] = waiting]
             /\ tok' = tok /\ awaits'[c] \in DOMAIN tasks'
    <3>1. callPlace'[c] \in {"token", "retoken"}
      BY <1>1, <2>2
    <3> QED BY <1>3, <2>2, <3>1 DEF CallOK
  <2> QED BY <1>2, <2>1, <2>2
<1>7. CallsOK'
  BY <1>1, <1>2, <1>5, <1>6, OthersKept
<1> QED BY <1>2, <1>7

LEMMA GetSlotKeeps ==
    ASSUME TokenInv, NEW c \in Calls, T!GetSlot(c)
    PROVE  TokenInv'
<1>1. /\ callPlace[c] = "slot"
      /\ UNCHANGED <<token, closed, cleared, issued, valid, refused, copies>>
  BY DEF T!GetSlot, T!own, T!qq, T!hist
<1>2. CASE T!AskToken(c, 0, "token")
  <2>1. 0 \in 0..MaxTokens
    BY TransportAssumption
  <2>2. OwnOK' /\ CallsOK'
    BY <1>1, <1>2, <2>1, AskKeeps
  <2> QED BY <1>1, <2>2 DEF TokenInv, TakenOK, ClosedOK
<1>3. CASE ~T!AskToken(c, 0, "token")
  <2>1. /\ callPlace' = [callPlace EXCEPT ![c] = "failed"]
        /\ UNCHANGED <<token, fresh, refresh, tasks, tries, tok, awaits>>
    BY <1>3 DEF T!GetSlot, T!None, T!own
  <2>2. callPlace' \in [Calls -> T!Places] /\ callPlace'[c] = "failed"
    BY <2>1 DEF TokenInv, CallsOK, T!Places
  <2>3. CallOK(c)'
    BY <1>1, <2>1, <2>2 DEF TokenInv, CallsOK, CallOK
  <2>4. \A d \in Calls \ {c} : callPlace'[d] = callPlace[d]
    BY <2>1 DEF TokenInv, CallsOK
  <2>5. issued \in Nat /\ CallsOK
    BY TransportAssumption DEF TokenInv, OwnOK
  <2>6. CallsOK'
    BY <1>1, <2>1, <2>2, <2>3, <2>4, <2>5, OthersKept DEF CallsOK
  <2> QED BY <1>1, <2>1, <2>6 DEF TokenInv, OwnOK, TakenOK, ClosedOK
<1> QED BY <1>2, <1>3

LEMMA UnauthorizedKeeps ==
    ASSUME TokenInv, NEW c \in Calls, T!Unauthorized(c)
    PROVE  TokenInv'
<1>1. /\ callPlace[c] = "wire" /\ refused' = refused \cup {tok[c]}
      /\ UNCHANGED <<token, closed, cleared, issued, valid, copies>>
  BY DEF T!Unauthorized, T!own, T!qq
<1>2. tok[c] \in 1..issued /\ tok[c] \in 0..MaxTokens
  BY <1>1 DEF TokenInv, CallsOK, CallOK
<1>3. TakenOK' /\ ClosedOK'
  BY <1>1, <1>2 DEF TokenInv, TakenOK, ClosedOK
<1>4. CASE T!AskToken(c, tok[c], "retoken")
  <2>1. OwnOK' /\ CallsOK'
    BY <1>1, <1>2, <1>4, AskKeeps
  <2> QED BY <1>3, <2>1 DEF TokenInv
<1>5. CASE ~T!AskToken(c, tok[c], "retoken")
  <2>1. /\ callPlace' = [callPlace EXCEPT ![c] = "failed"]
        /\ UNCHANGED <<token, fresh, refresh, tasks, tries, tok, awaits>>
    BY <1>5 DEF T!Unauthorized, T!own
  <2>2. callPlace' \in [Calls -> T!Places] /\ callPlace'[c] = "failed"
    BY <2>1 DEF TokenInv, CallsOK, T!Places
  <2>3. CallOK(c)'
    BY <1>1, <2>1, <2>2 DEF TokenInv, CallsOK, CallOK
  <2>4. \A d \in Calls \ {c} : callPlace'[d] = callPlace[d]
    BY <2>1 DEF TokenInv, CallsOK
  <2>5. issued \in Nat /\ CallsOK
    BY TransportAssumption DEF TokenInv, OwnOK
  <2>6. CallsOK'
    BY <1>1, <2>1, <2>2, <2>3, <2>4, <2>5, OthersKept DEF CallsOK
  <2> QED BY <1>1, <1>3, <2>1, <2>6 DEF TokenInv, OwnOK
<1> QED BY <1>4, <1>5

(* A step that moves request c and nothing else of the transport.           *)
LEMMA MoveKeeps ==
    ASSUME TokenInv, NEW c \in Calls, NEW p \in T!Places, NEW t \in 0..MaxTokens,
           callPlace' = [callPlace EXCEPT ![c] = p], tok' = [tok EXCEPT ![c] = t],
           copies' \in [Calls -> Nat], \A d \in Calls \ {c} : copies'[d] = copies[d],
           UNCHANGED <<token, fresh, refresh, tasks, tries, awaits, closed, cleared,
                       issued, valid, refused>>,
           p = "wire" => t \in 1..issued,
           p \in {"pause", "done", "failed"},
           p = "pause" => c \notin Writes /\ t \in 1..issued,
           c \in Writes => copies'[c] \in {0, 1}
    PROVE  TokenInv'
<1>1. /\ callPlace' \in [Calls -> T!Places] /\ callPlace'[c] = p
      /\ tok' \in [Calls -> 0..MaxTokens] /\ tok'[c] = t
      /\ \A d \in Calls \ {c} : callPlace'[d] = callPlace[d] /\ tok'[d] = tok[d]
  BY DEF TokenInv, CallsOK
<1>2. issued \in Nat /\ CallsOK
  BY TransportAssumption DEF TokenInv, OwnOK
<1>3. CallOK(c)'
  BY <1>1 DEF CallOK
<1>4. CallsOK'
  BY <1>1, <1>2, <1>3, OthersKept DEF CallsOK
<1> QED BY <1>4 DEF TokenInv, OwnOK, TakenOK, ClosedOK

(* The same for a request that goes out on the wire.                        *)
LEMMA GoesOut ==
    ASSUME TokenInv, NEW c \in Calls, NEW t \in 1..issued,
           callPlace[c] \notin {"done", "failed"},
           callPlace' = [callPlace EXCEPT ![c] = "wire"], tok' = [tok EXCEPT ![c] = t],
           UNCHANGED <<token, fresh, refresh, tasks, tries, awaits, closed, cleared,
                       issued, valid, refused, copies>>
    PROVE  TokenInv'
<1>1. t \in 0..MaxTokens /\ issued \in Nat /\ CallsOK
  BY TransportAssumption DEF TokenInv, OwnOK
<1>2. /\ callPlace' \in [Calls -> T!Places] /\ callPlace'[c] = "wire"
      /\ tok' \in [Calls -> 0..MaxTokens] /\ tok'[c] = t
      /\ \A d \in Calls \ {c} : callPlace'[d] = callPlace[d] /\ tok'[d] = tok[d]
  BY <1>1 DEF CallsOK, T!Places
<1>3. CallOK(c)'
  BY <1>1, <1>2 DEF CallsOK, CallOK
<1>4. CallsOK'
  BY <1>1, <1>2, <1>3, OthersKept DEF CallsOK
<1> QED BY <1>4 DEF TokenInv, OwnOK, TakenOK, ClosedOK

(* What every request looks like, for the steps below.                      *)
LEMMA CallFacts ==
    ASSUME TokenInv, NEW c \in Calls
    PROVE  /\ callPlace \in [Calls -> T!Places] /\ tok \in [Calls -> 0..MaxTokens]
           /\ copies \in [Calls -> Nat] /\ tok[c] \in 0..MaxTokens /\ copies[c] \in Nat
           /\ tok = [tok EXCEPT ![c] = tok[c]]
           /\ callPlace[c] \in {"wire", "pause"} => tok[c] \in 1..issued
           /\ c \in Writes => copies[c] = 0 \/ callPlace[c] \in {"done", "failed"}
           /\ c \in Writes => copies[c] \in {0, 1}
           /\ {"wire", "pause", "done", "failed"} \subseteq T!Places
BY DEF TokenInv, CallsOK, CallOK, T!Places

LEMMA TokenReadyKeeps ==
    ASSUME TokenInv, NEW c \in Calls, T!TokenReady(c)
    PROVE  TokenInv'
<1>1. /\ callPlace[c] \in {"token", "retoken"} /\ tasks[awaits[c]] # 0
      /\ UNCHANGED <<token, fresh, refresh, tasks, tries, awaits, closed, cleared,
                     issued, valid, refused, copies>>
  BY Zenon DEF T!TokenReady, T!own, T!qq, T!hist, T!Pending
<1> DEFINE t == tasks[awaits[c]]
<1>2. \/ callPlace' = [callPlace EXCEPT ![c] = "failed"] /\ tok' = tok
      \/ /\ ~(t = -1 \/ closed)
         /\ callPlace' = [callPlace EXCEPT ![c] = "wire"] /\ tok' = [tok EXCEPT ![c] = t]
  BY DEF T!TokenReady, T!Lost
<1>3. awaits[c] \in DOMAIN tasks
  BY <1>1 DEF TokenInv, CallsOK, CallOK
<1>4. t \in {0, -1} \cup 1..issued
  BY <1>3 DEF TokenInv, OwnOK
<1>5. t # 0
  BY <1>1
<1> HIDE DEF t
<1>6. CASE callPlace' = [callPlace EXCEPT ![c] = "failed"] /\ tok' = tok
  BY <1>1, <1>6, CallFacts, MoveKeeps
<1>7. CASE /\ ~(t = -1 \/ closed)
           /\ callPlace' = [callPlace EXCEPT ![c] = "wire"] /\ tok' = [tok EXCEPT ![c] = t]
  <2>1. t \in 1..issued
    BY <1>4, <1>5, <1>7
  <2>2. callPlace[c] \notin {"done", "failed"}
    BY <1>1
  <2> QED BY <1>1, <1>7, <2>1, <2>2, GoesOut
<1> QED BY <1>2, <1>6, <1>7

LEMMA AnsweredKeeps ==
    ASSUME TokenInv, NEW c \in Calls, T!Answered(c)
    PROVE  TokenInv'
<1>1. /\ callPlace[c] = "wire" /\ copies' = [copies EXCEPT ![c] = @ + 1]
      /\ callPlace' = [callPlace EXCEPT ![c] = "done"] /\ tok' = tok
      /\ UNCHANGED <<token, fresh, refresh, tasks, tries, awaits, closed, cleared,
                     issued, valid, refused>>
  BY Zenon DEF T!Answered, T!own, T!qq
<1>2. /\ copies' \in [Calls -> Nat] /\ \A d \in Calls \ {c} : copies'[d] = copies[d]
      /\ c \in Writes => copies'[c] \in {0, 1}
  BY <1>1, CallFacts
<1> QED BY <1>1, <1>2, CallFacts, MoveKeeps

LEMMA BrokenKeeps ==
    ASSUME TokenInv, NEW c \in Calls, T!Broken(c)
    PROVE  TokenInv'
<1>1. /\ callPlace[c] = "wire" /\ copies' \in {copies, [copies EXCEPT ![c] = @ + 1]}
      /\ tok' = tok
      /\ UNCHANGED <<token, fresh, refresh, tasks, tries, awaits, closed, cleared,
                     issued, valid, refused>>
  BY Zenon DEF T!Broken, T!own, T!qq
<1>2. \/ c \notin Writes /\ callPlace' = [callPlace EXCEPT ![c] = "pause"]
      \/ callPlace' = [callPlace EXCEPT ![c] = "failed"]
  BY DEF T!Broken, T!MayRepeat
<1>3. /\ copies' \in [Calls -> Nat] /\ \A d \in Calls \ {c} : copies'[d] = copies[d]
      /\ c \in Writes => copies'[c] \in {0, 1}
  BY <1>1, CallFacts
<1>4. tok[c] \in 1..issued
  BY <1>1, CallFacts
<1>5. CASE c \notin Writes /\ callPlace' = [callPlace EXCEPT ![c] = "pause"]
  BY <1>1, <1>3, <1>4, <1>5, CallFacts, MoveKeeps
<1>6. CASE callPlace' = [callPlace EXCEPT ![c] = "failed"]
  BY <1>1, <1>3, <1>6, CallFacts, MoveKeeps
<1> QED BY <1>2, <1>5, <1>6

LEMMA RepeatKeeps ==
    ASSUME TokenInv, NEW c \in Calls, T!Repeat(c)
    PROVE  TokenInv'
<1>1. /\ callPlace[c] = "pause" /\ tok' = tok
      /\ callPlace' = [callPlace EXCEPT ![c] = IF closed THEN "failed" ELSE "wire"]
      /\ UNCHANGED <<token, fresh, refresh, tasks, tries, awaits, closed, cleared,
                     issued, valid, refused, copies>>
  BY Zenon DEF T!Repeat, T!own, T!qq, T!hist
<1>2. CASE closed
  BY <1>1, <1>2, CallFacts, MoveKeeps
<1>3. CASE ~closed
  <2>1. tok[c] \in 1..issued /\ tok' = [tok EXCEPT ![c] = tok[c]]
    BY <1>1, CallFacts
  <2> QED BY <1>1, <1>3, <2>1, GoesOut
<1> QED BY <1>2, <1>3

LEMMA DeadlineKeeps ==
    ASSUME TokenInv, NEW c \in Calls, T!Deadline(c)
    PROVE  TokenInv'
<1>1. /\ c \in T!Active /\ callPlace' = [callPlace EXCEPT ![c] = "failed"] /\ tok' = tok
      /\ copies' = copies \/ copies' = [copies EXCEPT ![c] = @ + 1]
      /\ UNCHANGED <<token, fresh, refresh, tasks, tries, awaits, closed, cleared,
                     issued, valid, refused>>
  BY DEF T!Deadline, T!own, T!qq
<1>2. callPlace[c] \notin {"done", "failed"}
  BY <1>1 DEF T!Active
<1>3. /\ copies' \in [Calls -> Nat] /\ \A d \in Calls \ {c} : copies'[d] = copies[d]
      /\ c \in Writes => copies'[c] \in {0, 1}
  BY <1>1, <1>2, CallFacts
<1> QED BY <1>1, <1>3, CallFacts, MoveKeeps

(* A step that leaves the requests alone, while tokens are only added.      *)
LEMMA CallsLeft ==
    ASSUME CallsOK, issued \in Nat, issued' \in Nat, issued <= issued', DOMAIN tasks' = DOMAIN tasks,
           UNCHANGED <<callPlace, tok, awaits, copies>>
    PROVE  CallsOK'
<1>1. 1..issued \subseteq 1..issued'
  OBVIOUS
<1>2. ASSUME NEW c \in Calls PROVE CallOK(c)'
  BY <1>1 DEF CallsOK, CallOK
<1> QED BY <1>2 DEF CallsOK

LEMMA FetchedKeeps ==
    ASSUME TokenInv, T!Fetched
    PROVE  TokenInv'
<1>1. /\ T!Running /\ issued < MaxTokens
      /\ issued' = issued + 1 /\ valid' = valid \cup {issued + 1}
      /\ UNCHANGED <<refresh, tries, callPlace, tok, awaits, closed, cleared, refused, copies>>
  BY DEF T!Fetched, T!call, T!hist
<1>2. \/ /\ ~closed /\ token' = issued + 1 /\ fresh' = TRUE
         /\ tasks' = [tasks EXCEPT ![refresh] = issued + 1]
      \/ tasks' = [tasks EXCEPT ![refresh] = -1] /\ UNCHANGED <<token, fresh>>
  BY DEF T!Fetched, T!Takes, T!Lost
<1>3. /\ issued \in Nat /\ MaxTokens \in Nat /\ issued' \in 0..MaxTokens /\ issued <= issued'
      /\ issued' \in Nat /\ issued + 1 \in 1..issued' /\ 1..issued \subseteq 1..issued'
      /\ 0..issued \subseteq 0..issued'
  BY <1>1, TransportAssumption DEF TokenInv, OwnOK
<1>4. DOMAIN tasks' = DOMAIN tasks
  BY <1>2
<1>5. \A t \in DOMAIN tasks' : tasks'[t] \in {0, -1} \cup 1..issued'
  <2> SUFFICES ASSUME NEW t \in DOMAIN tasks PROVE tasks'[t] \in {0, -1} \cup 1..issued'
    BY <1>4
  <2>1. tasks[t] \in {0, -1} \cup 1..issued
    BY DEF TokenInv, OwnOK
  <2>2. tasks'[t] \in {tasks[t], issued + 1, -1}
    BY <1>2
  <2> QED BY <1>3, <2>1, <2>2
<1>6. token' \in 0..issued' /\ fresh' \in BOOLEAN
  <2>1. token \in 0..issued' /\ fresh \in BOOLEAN
    BY <1>3 DEF TokenInv, OwnOK
  <2>2. issued + 1 \in 0..issued'
    BY <1>3
  <2>3. token' \in {token, issued + 1} /\ fresh' \in {fresh, TRUE}
    BY <1>2
  <2> QED BY <2>1, <2>2, <2>3
<1>7. OwnOK'
  BY <1>1, <1>3, <1>4, <1>5, <1>6 DEF TokenInv, OwnOK
<1>8. CallsOK'
  BY <1>1, <1>3, <1>4, CallsLeft DEF TokenInv
<1>9. TakenOK'
  BY <1>1, <1>3 DEF TokenInv, TakenOK
<1>10. ClosedOK'
  BY <1>1, <1>2 DEF TokenInv, ClosedOK
<1> QED BY <1>7, <1>8, <1>9, <1>10 DEF TokenInv

LEMMA FetchFailsKeeps ==
    ASSUME TokenInv, T!FetchFails
    PROVE  TokenInv'
<1>1. UNCHANGED <<token, fresh, refresh, callPlace, tok, awaits, closed, cleared, issued, valid,
                  refused, copies>>
  BY DEF T!FetchFails, T!call, T!qq, T!hist
<1>2. \/ tries + 1 < MaxAttempts /\ tries' = tries + 1 /\ tasks' = tasks
      \/ tasks' = [tasks EXCEPT ![refresh] = -1] /\ tries' = tries
  BY DEF T!FetchFails, T!Lost
<1>3. DOMAIN tasks' = DOMAIN tasks /\ issued \in Nat
  BY <1>2, TransportAssumption DEF TokenInv, OwnOK
<1>4. \A t \in DOMAIN tasks : tasks'[t] \in {tasks[t], -1}
  BY <1>2
<1>5. tries' \in 0..MaxAttempts
  BY <1>2, TransportAssumption DEF TokenInv, OwnOK
<1>6. OwnOK'
  BY <1>1, <1>3, <1>4, <1>5 DEF TokenInv, OwnOK
<1>7. CallsOK'
  BY <1>1, <1>3, CallsLeft DEF TokenInv
<1> QED BY <1>1, <1>6, <1>7 DEF TokenInv, TakenOK, ClosedOK

LEMMA CloseKeeps ==
    ASSUME TokenInv, T!Close
    PROVE  TokenInv'
<1>1. /\ ~closed /\ closed' = TRUE
      /\ UNCHANGED <<token, fresh, refresh, tasks, tries, callPlace, tok, awaits, cleared, issued,
                     valid, refused, copies>>
  BY DEF T!Close, T!own, T!call, T!qq, T!hist
<1>2. CallsOK'
  BY <1>1 DEF TokenInv, CallsOK, CallOK
<1> QED BY <1>1, <1>2 DEF TokenInv, OwnOK, TakenOK, ClosedOK

LEMMA CloseOwnedKeeps ==
    ASSUME TokenInv, T!CloseOwned
    PROVE  TokenInv'
<1>1. /\ closed /\ cleared' = TRUE /\ token' = 0 /\ fresh' = FALSE
      /\ UNCHANGED <<refresh, tries, tok, awaits, closed, issued, valid, refused, copies>>
  BY DEF T!CloseOwned, T!None, T!qq, T!hist
<1>2. PICK late \in SUBSET T!Active :
          callPlace' = [c \in Calls |-> IF c \in T!Active \ late THEN "failed" ELSE callPlace[c]]
  BY DEF T!CloseOwned
<1>3. tasks' = tasks \/ tasks' = [tasks EXCEPT ![refresh] = -1]
  BY DEF T!CloseOwned, T!Lost
<1>4. DOMAIN tasks' = DOMAIN tasks /\ \A t \in DOMAIN tasks : tasks'[t] \in {tasks[t], -1}
  BY <1>3
<1>5. 0 \in 0..issued /\ issued \in Nat
  BY TransportAssumption DEF TokenInv, OwnOK
<1>6. OwnOK'
  BY <1>1, <1>4, <1>5 DEF TokenInv, OwnOK
<1>7. callPlace' \in [Calls -> T!Places]
  BY <1>2 DEF TokenInv, CallsOK, T!Places
<1>8. ASSUME NEW c \in Calls PROVE CallOK(c)'
  <2>1. callPlace'[c] = callPlace[c] \/ (callPlace'[c] = "failed" /\ c \in T!Active)
    BY <1>2
  <2>2. CallOK(c) /\ (c \in T!Active => callPlace[c] \notin {"done", "failed"})
    BY DEF TokenInv, CallsOK, T!Active
  <2> QED BY <1>1, <1>4, <2>1, <2>2 DEF CallOK
<1>9. CallsOK'
  BY <1>1, <1>4, <1>7, <1>8 DEF TokenInv, CallsOK
<1> QED BY <1>1, <1>6, <1>9 DEF TokenInv, TakenOK, ClosedOK

LEMMA ExpiresKeeps ==
    ASSUME TokenInv, T!Expires
    PROVE  TokenInv'
<1>1. /\ fresh' = FALSE
      /\ UNCHANGED <<token, refresh, tasks, tries, callPlace, tok, awaits, closed, cleared, issued,
                     valid, refused, copies>>
  BY DEF T!Expires, T!call, T!qq, T!hist
<1>2. CallsOK'
  BY <1>1 DEF TokenInv, CallsOK, CallOK
<1> QED BY <1>1, <1>2 DEF TokenInv, OwnOK, TakenOK, ClosedOK

LEMMA RevokesKeeps ==
    ASSUME TokenInv, T!Revokes
    PROVE  TokenInv'
<1>1. /\ valid' \subseteq valid
      /\ UNCHANGED <<token, fresh, refresh, tasks, tries, callPlace, tok, awaits, closed, cleared,
                     issued, refused, copies>>
  BY DEF T!Revokes, T!own, T!call, T!hist
<1>2. CallsOK'
  BY <1>1 DEF TokenInv, CallsOK, CallOK
<1> QED BY <1>1, <1>2 DEF TokenInv, OwnOK, TakenOK, ClosedOK

LEMMA TokenUnchanged ==
    ASSUME TokenInv, UNCHANGED tokenVars
    PROVE  TokenInv'
<1>1. UNCHANGED <<token, fresh, refresh, tasks, tries, callPlace, tok, awaits, closed, cleared,
                  issued, valid, refused, copies>>
  BY DEF tokenVars
<1>2. CallsOK'
  BY <1>1 DEF TokenInv, CallsOK, CallOK
<1> QED BY <1>1, <1>2 DEF TokenInv, OwnOK, TakenOK, ClosedOK

LEMMA TokenNext ==
    ASSUME TokenInv, T!Next
    PROVE  TokenInv'
<1>1. ASSUME NEW c \in Calls,
             \/ T!Begin(c) \/ T!GetSlot(c) \/ T!TokenReady(c) \/ T!Unauthorized(c)
             \/ T!Answered(c) \/ T!Broken(c) \/ T!Repeat(c) \/ T!Deadline(c)
      PROVE  TokenInv'
  BY <1>1, BeginKeeps, GetSlotKeeps, TokenReadyKeeps, UnauthorizedKeeps, AnsweredKeeps,
     BrokenKeeps, RepeatKeeps, DeadlineKeeps
<1> QED BY <1>1, FetchedKeeps, FetchFailsKeeps, CloseKeeps, CloseOwnedKeeps, ExpiresKeeps,
           RevokesKeeps DEF T!Next

LEMMA TokenStepKeeps ==
    TokenInv /\ [TransportNext]_<<part, gatewayVars, vars, tokenVars>> => TokenInv'
<1> SUFFICES ASSUME TokenInv, [TransportNext]_<<part, gatewayVars, vars, tokenVars>>
             PROVE  TokenInv'
  OBVIOUS
<1>1. T!Next \/ UNCHANGED tokenVars
  BY DEF TransportNext, GatewayStep, BudgetStep, TokenStep
<1> QED BY <1>1, TokenNext, TokenUnchanged

(* A write that QQ may have carried out is never sent again, and a closed   *)
(* transport holds no token, for any number of requests, tokens, retries    *)
(* and faults.                                                              *)
THEOREM WritesOnceOnly == TransportSpec => []NoSecondCopy
<1>1. TransportInit => TokenInv
  BY TokenInit DEF TransportInit
<1>2. TokenInv => NoSecondCopy
  BY TokenImplies DEF NoSecondCopy
<1> QED BY <1>1, <1>2, TokenStepKeeps, PTL DEF TransportSpec

-----------------------------------------------------------------------------
(* Refreshes                                                               *)

\* Another refresh is started for want of a good token, and none runs.
Sparing == DOMAIN tasks' # DOMAIN tasks
               => (token = T!None \/ ~fresh \/ token \in refused') /\ ~T!Running

LEMMA NoNewTask ==
    ASSUME DOMAIN tasks' = DOMAIN tasks
    PROVE  Sparing
BY DEF Sparing

LEMMA CallSpares ==
    ASSUME TokenInv, NEW c \in Calls,
           \/ T!Begin(c) \/ T!GetSlot(c) \/ T!TokenReady(c) \/ T!Unauthorized(c)
           \/ T!Answered(c) \/ T!Broken(c) \/ T!Repeat(c) \/ T!Deadline(c)
    PROVE  Sparing
<1>1. /\ OwnOK /\ callPlace \in [Calls -> T!Places] /\ tok \in [Calls -> 0..MaxTokens]
      /\ awaits \in [Calls -> {0} \cup DOMAIN tasks]
  BY DEF TokenInv, CallsOK
<1>2. CASE T!GetSlot(c)
  <2>1. CASE T!AskToken(c, 0, "token") /\ token' = token
    <3>1. 0 \in 0..MaxTokens /\ issued' = issued
      BY <1>2, TransportAssumption DEF T!GetSlot, T!qq
    <3>2. DOMAIN tasks' # DOMAIN tasks
              => (token = 0 \/ ~fresh \/ token = 0) /\ ~T!Running
      BY <1>1, <2>1, <3>1, AskToken
    <3> QED BY <3>2 DEF Sparing, T!None
  <2>2. CASE ~(T!AskToken(c, 0, "token") /\ token' = token)
    <3>1. tasks' = tasks
      BY <1>2, <2>2 DEF T!GetSlot, T!None, T!own
    <3> QED BY <1>1, <3>1, NoNewTask
  <2> QED BY <2>1, <2>2
<1>3. CASE T!Unauthorized(c)
  <2>1. CASE T!AskToken(c, tok[c], "retoken") /\ token' = token
    <3>1. tok[c] \in 0..MaxTokens /\ issued' = issued /\ tok[c] \in refused'
      BY <1>1, <1>3 DEF T!Unauthorized, T!qq
    <3>2. DOMAIN tasks' # DOMAIN tasks
              => (token = 0 \/ ~fresh \/ token = tok[c]) /\ ~T!Running
      BY <1>1, <2>1, <3>1, AskToken
    <3> QED BY <3>1, <3>2 DEF Sparing, T!None
  <2>2. CASE ~(T!AskToken(c, tok[c], "retoken") /\ token' = token)
    <3>1. tasks' = tasks
      BY <1>3, <2>2 DEF T!Unauthorized, T!own
    <3> QED BY <1>1, <3>1, NoNewTask
  <2> QED BY <2>1, <2>2
<1>4. CASE \/ T!Begin(c) \/ T!TokenReady(c) \/ T!Answered(c) \/ T!Broken(c) \/ T!Repeat(c)
           \/ T!Deadline(c)
  <2>1. tasks' = tasks
    BY <1>4, Zenon DEF T!Begin, T!TokenReady, T!Answered, T!Broken, T!Repeat, T!Deadline, T!own
  <2> QED BY <1>1, <2>1, NoNewTask
<1> QED BY <1>2, <1>3, <1>4

(* A token is fetched again only when there is none, its time is over or QQ *)
(* refused it, and requests that need one at a time share the refresh.      *)
THEOREM RefreshesAreSpared == TransportSpec => SparesTokens
<1>1. TransportInit => TokenInv
  BY TokenInit DEF TransportInit
<1>2. TokenInv /\ [TransportNext]_<<part, gatewayVars, vars, tokenVars>> => [Sparing]_(T!vars)
  <2> SUFFICES ASSUME TokenInv, [TransportNext]_<<part, gatewayVars, vars, tokenVars>>,
                      ~UNCHANGED T!vars
               PROVE  Sparing
    OBVIOUS
  <2>1. T!Next
    BY DEF TransportNext, GatewayStep, BudgetStep, TokenStep, tokenVars, T!vars, T!own, T!call,
           T!qq, T!hist
  <2>2. CASE \E c \in Calls :
                \/ T!Begin(c) \/ T!GetSlot(c) \/ T!TokenReady(c) \/ T!Unauthorized(c)
                \/ T!Answered(c) \/ T!Broken(c) \/ T!Repeat(c) \/ T!Deadline(c)
    BY <2>2, CallSpares
  <2>3. CASE T!Fetched \/ T!FetchFails \/ T!Close \/ T!CloseOwned \/ T!Expires \/ T!Revokes
    <3>1. DOMAIN tasks' = DOMAIN tasks
      <4>1. T!Fetched => DOMAIN tasks' = DOMAIN tasks
        BY DEF T!Fetched
      <4>2. T!FetchFails => DOMAIN tasks' = DOMAIN tasks
        BY DEF T!FetchFails
      <4>3. T!CloseOwned => DOMAIN tasks' = DOMAIN tasks
        BY DEF T!CloseOwned
      <4>4. T!Close \/ T!Expires \/ T!Revokes => DOMAIN tasks' = DOMAIN tasks
        BY DEF T!Close, T!Expires, T!Revokes, T!own
      <4> QED BY <2>3, <4>1, <4>2, <4>3, <4>4
    <3> QED BY <3>1, NoNewTask DEF TokenInv
  <2> QED BY <2>1, <2>2, <2>3 DEF T!Next
<1>3. TokenInv /\ [TransportNext]_<<part, gatewayVars, vars, tokenVars>>
      => [DOMAIN tasks' # DOMAIN tasks
          => (token = T!None \/ ~fresh \/ token \in refused') /\ ~T!Running]_(T!vars)
  BY <1>2 DEF Sparing
<1> QED BY <1>1, <1>3, TokenStepKeeps, PTL DEF TransportSpec, SparesTokens, T!SparesTokens

-----------------------------------------------------------------------------
(* The session of a shard.                                                  *)

Frames == G!Envelopes \cup [op : G!FrameOps]
Fates == {"queued", "stored", "failed"}

-----------------------------------------------------------------------------
(* The inductive invariant.                                                *)

ShardTypes ==
    /\ state \in {"idle", "connecting", "waiting_identify", "authenticating", "online",
                  "backoff", "failed", "stopped"}
    /\ connected \in BOOLEAN /\ sid \in 0..MaxSessions /\ seq \in 0..MaxSeq
    /\ failures \in 0..1
    /\ reading = << >> \/ reading \in G!Envelopes \X Fates
    /\ intake \in Seq(G!Envelopes) /\ line \in Seq(Frames)
    /\ live \in 0..MaxSessions /\ attached \in BOOLEAN /\ beat \in BOOLEAN
    /\ sent \in [G!Sessions -> 0..MaxSeq] /\ joined \in [G!Sessions -> 0..MaxSeq]
    /\ stored \subseteq G!Sessions \X (1..MaxSeq)
    /\ announced \subseteq G!Sessions \X (1..MaxSeq)

\* Event p of session s lies behind the cursor, is in the hands of the read
\* task, or is one of the first k - 1 frames.
Shows(f, s, p) == f.op = "dispatch" /\ f.t # "RESUMED" /\ f.s = s /\ f.q = p
Known(s, p) == \/ sid = s /\ p <= seq
               \/ reading # << >> /\ Shows(reading[1], s, p)
Covered(s, p, k) == Known(s, p) \/ \E j \in 1..(k - 1) : Shows(line[j], s, p)
Brought(s, p) == Known(s, p) \/ \E j \in 1..Len(line) : Shows(line[j], s, p)

NoDispatch == \A i \in 1..Len(line) : line[i].op # "dispatch"

\* The socket, the handshake and the cursor belong together.
LinkOK ==
    /\ reading # << >> => G!Tasks
    /\ up # "none" => G!Tasks \/ state \in {"connecting", "waiting_identify"}
    /\ sid = 0 <=> seq = 0
    /\ login # << >> => login = <<sid, seq>> /\ ~attached /\ reading = << >> /\ NoDispatch
    /\ ~G!Tasks => /\ login = << >> /\ ~attached
                   /\ \A i \in 1..Len(line) : line[i].op \in {"hello", "ack"}

\* What the read task waits for is the last the intake worker will store,
\* and follows the cursor.
ReadOK == reading # << >> =>
    /\ reading[2] = "queued" => intake # << >> /\ intake[Len(intake)] = reading[1]
    /\ reading[2] # "queued" => intake = << >>
    /\ reading[2] = "stored" => <<reading[1].s, reading[1].q>> \in stored
    /\ reading[1].q <= sent[reading[1].s]
    /\ reading[1].t = "READY" => reading[1].q = 1 /\ sid = 0
    /\ reading[1].t = "event" => sid = reading[1].s /\ reading[1].q <= seq + 1
    /\ reading[1].t = "RESUMED" => sid = reading[1].s /\ reading[1].q <= seq

\* A dispatch comes after everything it follows in its session: READY is the
\* first, an event follows its predecessors, RESUMED all that were replayed.
EntryOK(f, i) ==
    /\ f.q <= sent[f.s]
    /\ f.t = "READY" => /\ sid = 0 /\ f.q = 1 /\ reading = << >>
                        /\ \A j \in 1..(i - 1) : line[j].op # "dispatch"
    /\ f.t # "READY" =>
            \A p \in 1..f.q : f.t = "RESUMED" \/ p < f.q => Covered(f.s, p, i)
    /\ f.t = "event" => f.q > 1
LineOK == \A i \in 1..Len(line), f \in G!Envelopes : line[i] = f => EntryOK(f, i)

\* A socket that carries a session has brought, or brings, all of it.
AttachedOK ==
    /\ attached => live # 0
    /\ \A s \in G!Sessions, p \in 1..MaxSeq :
            attached /\ up = "open" /\ live = s /\ p <= sent[s] => Brought(s, p)

\* A session QQ still keeps and the shard was online in is the one it holds.
LiveOK ==
    live # 0 => /\ sent[live] # 0
                /\ sid = live => seq <= sent[live]
                /\ joined[live] # 0 => sid = live

\* QQ takes a session away only when it does not keep it any more.
EndsOK ==
    (\E i \in 1..Len(line) : line[i].op \in {"invalid", "close_fresh"}) =>
        /\ login = << >> /\ ~attached
        /\ live = 0 \/ (joined[live] = 0 /\ reading = << >> /\ NoDispatch)

CursorInv == /\ ShardTypes /\ LinkOK /\ ReadOK /\ LineOK /\ AttachedOK /\ LiveOK /\ EndsOK
             /\ G!NoSilentGap

Larger(a, b) == IF a > b THEN a ELSE b

\* How long a silent socket can go unnoticed from here.
QuietInv ==
    /\ ackPending \in BOOLEAN /\ ackAge \in 0..Interval
    /\ beatIn \in 0..Interval /\ handIn \in 0..HelloTimeout /\ quietFor \in Nat
    /\ up \in {"none", "open", "silent"}
    /\ up # "silent" => quietFor = 0
    /\ up = "silent" /\ ~G!Tasks => quietFor + handIn <= HelloTimeout
    /\ up = "silent" /\ G!Tasks /\ ~ackPending => quietFor + beatIn <= Interval
    /\ up = "silent" /\ G!Tasks /\ ackPending =>
            quietFor + Larger(beatIn, Interval - ackAge) <= 2 * Interval

ShardInv == CursorInv /\ QuietInv

-----------------------------------------------------------------------------
(* The timers: a connection that has gone silent is given up in time.      *)

LEMMA Timings == Interval \in Nat /\ HelloTimeout \in Nat
BY TransportAssumption

LEMMA QuietStill ==
    ASSUME QuietInv, UNCHANGED <<ackPending, ackAge, beatIn, handIn, quietFor, up>>,
           G!Tasks' = G!Tasks
    PROVE  QuietInv'
BY DEF QuietInv, Larger

\* While the socket is open only the types matter.
LEMMA QuietOpen ==
    ASSUME ackPending' \in BOOLEAN, ackAge' \in 0..Interval, beatIn' \in 0..Interval,
           handIn' \in 0..HelloTimeout, quietFor' = 0, up' \in {"none", "open"}
    PROVE  QuietInv'
BY DEF QuietInv

LEMMA QuietGone ==
    ASSUME G!Disconnect
    PROVE  QuietInv'
<1>1. /\ up' = "none" /\ ackPending' = FALSE /\ ackAge' = 0 /\ beatIn' = 0 /\ handIn' = 0
      /\ quietFor' = 0
  BY DEF G!Disconnect
<1>2. 0 \in 0..Interval /\ 0 \in 0..HelloTimeout
  BY Timings
<1> QED BY <1>1, <1>2, QuietOpen

LEMMA QuietBeat ==
    ASSUME QuietInv, G!Heartbeat
    PROVE  QuietInv'
<1>1. CASE G!Lost(G!Kept)
  BY <1>1, QuietGone DEF G!Lost
<1>2. CASE /\ ~(ackPending /\ ackAge >= Interval)
           /\ beatIn' = (IF ackPending THEN Interval - ackAge ELSE Interval)
           /\ G!SendHeartbeat
           /\ UNCHANGED <<G!clientVars, handIn, quietFor, up, line, login, live, attached,
                          sent, G!history>>
  <2>1. UNCHANGED <<state, handIn, quietFor, up>> /\ G!Tasks /\ G!Tasks'
    BY <1>2 DEF G!Heartbeat, G!Tasks, G!clientVars
  <2>2. CASE ackPending
    <3>1. UNCHANGED <<ackPending, ackAge>> /\ beatIn' = Interval - ackAge
      BY <1>2, <2>2 DEF G!SendHeartbeat
    <3>2. ackAge \in 0..Interval /\ ackAge < Interval
      BY <1>2, <2>2, Timings DEF QuietInv
    <3>3. beatIn' \in 0..Interval
      BY <3>1, <3>2, Timings
    <3>4. up = "silent" => quietFor + (Interval - ackAge) <= 2 * Interval
      <4> SUFFICES ASSUME up = "silent" PROVE quietFor + (Interval - ackAge) <= 2 * Interval
        OBVIOUS
      <4>1. quietFor + Larger(beatIn, Interval - ackAge) <= 2 * Interval
        BY <2>1, <2>2 DEF QuietInv
      <4>2. beatIn = 0 /\ quietFor \in Nat
        BY DEF QuietInv, G!Heartbeat
      <4> QED BY <3>2, <4>1, <4>2, Timings DEF Larger
    <3> QED BY <2>1, <2>2, <3>1, <3>2, <3>3, <3>4 DEF QuietInv, Larger
  <2>3. CASE ~ackPending
    <3>1. ackPending' = TRUE /\ ackAge' = 0 /\ beatIn' = Interval /\ beatIn = 0
      BY <1>2, <2>3 DEF G!SendHeartbeat, G!Heartbeat
    <3>2. up = "silent" => quietFor <= Interval
      BY <2>1, <2>3, <3>1 DEF QuietInv
    <3> QED BY <2>1, <3>1, <3>2, Timings DEF QuietInv, Larger
  <2> QED BY <2>2, <2>3
<1> QED BY <1>1, <1>2 DEF G!Heartbeat

LEMMA QuietTick ==
    ASSUME QuietInv, G!Tick
    PROVE  QuietInv'
<1>1. /\ ~G!Due /\ UNCHANGED <<state, up, ackPending>>
      /\ beatIn' = G!Less(beatIn) /\ handIn' = G!Less(handIn)
      /\ ackAge' = (IF ackPending /\ ackAge < Interval THEN ackAge + 1 ELSE ackAge)
      /\ quietFor' = (IF up = "silent" THEN quietFor + 1 ELSE quietFor)
  BY DEF G!Tick, G!clientVars, G!qqVars
<1>2. /\ ackPending \in BOOLEAN /\ ackAge \in 0..Interval /\ quietFor \in Nat
      /\ beatIn \in 0..Interval /\ handIn \in 0..HelloTimeout
      /\ up \in {"none", "open", "silent"}
  BY DEF QuietInv
<1>3. beatIn' \in 0..Interval /\ handIn' \in 0..HelloTimeout /\ ackAge' \in 0..Interval
  BY <1>1, <1>2, Timings DEF G!Less
<1>4. G!Tasks' = G!Tasks
  BY <1>1 DEF G!Tasks
<1>5. CASE up # "silent"
  BY <1>1, <1>2, <1>3, <1>5, Timings, QuietOpen DEF QuietInv
<1>6. CASE up = "silent" /\ ~G!Tasks
  <2>1. handIn # 0 /\ quietFor + handIn <= HelloTimeout
    BY <1>1, <1>6 DEF G!Due, QuietInv
  <2>2. quietFor' + handIn' <= HelloTimeout /\ quietFor' \in Nat
    BY <1>1, <1>2, <1>6, <2>1, Timings DEF G!Less
  <2> QED BY <1>1, <1>2, <1>3, <1>4, <1>6, <2>2 DEF QuietInv
<1>7. CASE up = "silent" /\ G!Tasks /\ ~ackPending
  <2>1. beatIn # 0 /\ quietFor + beatIn <= Interval
    BY <1>1, <1>7 DEF G!Due, QuietInv
  <2>2. quietFor' + beatIn' <= Interval /\ quietFor' \in Nat
    BY <1>1, <1>2, <1>7, <2>1, Timings DEF G!Less
  <2> QED BY <1>1, <1>2, <1>3, <1>4, <1>7, <2>2 DEF QuietInv
<1>8. CASE up = "silent" /\ G!Tasks /\ ackPending
  <2>1. beatIn # 0 /\ quietFor + Larger(beatIn, Interval - ackAge) <= 2 * Interval
    BY <1>1, <1>8 DEF G!Due, QuietInv
  <2>2. beatIn' = beatIn - 1 /\ quietFor' = quietFor + 1 /\ quietFor' \in Nat
    BY <1>1, <1>2, <1>8, <2>1 DEF G!Less
  <2>3. Larger(beatIn', Interval - ackAge') <= Larger(beatIn, Interval - ackAge) - 1
    BY <1>1, <1>2, <1>8, <2>1, <2>2, Timings DEF Larger
  <2>4. /\ Larger(beatIn', Interval - ackAge') \in Int
        /\ Larger(beatIn, Interval - ackAge) \in Int
    <3>1. /\ Interval - ackAge \in Int /\ Interval - ackAge' \in Int
          /\ beatIn \in Int /\ beatIn' \in Int
      BY <1>2, <1>3, Timings
    <3> QED BY <3>1 DEF Larger
  <2>5. quietFor' + Larger(beatIn', Interval - ackAge') <= 2 * Interval
    BY <1>2, <2>1, <2>2, <2>3, <2>4, Timings
  <2> QED BY <1>1, <1>2, <1>3, <1>4, <1>8, <2>2, <2>5 DEF QuietInv, Larger
<1> QED BY <1>2, <1>5, <1>6, <1>7, <1>8

LEMMA LostOrEnded ==
    ASSUME \/ G!HelloDeadline \/ G!Refused \/ G!ReadEnd \/ G!ReadDeadline \/ G!DialFails \/ G!Stop
    PROVE  G!Disconnect /\ state' \in {"backoff", "failed", "stopped"}
<1>1. CASE G!HelloDeadline
  BY <1>1 DEF G!HelloDeadline, G!Lost
<1>2. CASE G!Refused
  BY <1>2 DEF G!Refused, G!Lost
<1>3. CASE G!ReadEnd
  BY <1>3 DEF G!ReadEnd, G!Lost, G!End
<1>4. CASE G!ReadDeadline
  BY <1>4 DEF G!ReadDeadline, G!Lost
<1>5. CASE G!DialFails
  BY <1>5 DEF G!DialFails, G!Lost, G!End
<1>6. CASE G!Stop
  BY <1>6 DEF G!Stop, G!End
<1> QED BY <1>1, <1>2, <1>3, <1>4, <1>5, <1>6

LEMMA QuietNext ==
    ASSUME QuietInv, LinkOK, G!Next
    PROVE  QuietInv'
<1>1. CASE \/ G!HelloDeadline \/ G!Refused \/ G!ReadEnd \/ G!ReadDeadline \/ G!DialFails \/ G!Stop
  BY <1>1, LostOrEnded, QuietGone
<1>2. CASE G!Connect
  <2>1. UNCHANGED <<ackPending, ackAge, beatIn, handIn, quietFor, up>> /\ G!Tasks' = G!Tasks
    BY <1>2 DEF G!Connect, G!timerVars, G!qqVars, G!Tasks
  <2> QED BY <2>1, QuietStill
<1>3. CASE G!Dial
  <2>1. UNCHANGED <<ackPending, ackAge, beatIn>>
        /\ up' = "open" /\ quietFor' = 0 /\ handIn' = HelloTimeout
    BY <1>3 DEF G!Dial
  <2> QED BY <2>1, Timings, QuietOpen DEF QuietInv
<1>4. CASE G!Hello
  <2>1. /\ ackPending' = FALSE /\ ackAge' = 0 /\ beatIn' = Interval /\ handIn' = HelloTimeout
        /\ UNCHANGED <<quietFor, up>> /\ up = "open"
    BY <1>4 DEF G!Hello
  <2>2. 0 \in 0..Interval /\ Interval \in 0..Interval /\ HelloTimeout \in 0..HelloTimeout
    BY Timings
  <2> QED BY <2>1, <2>2, QuietOpen DEF QuietInv
<1>5. CASE G!ReadDispatch \/ G!Store
  <2>1. UNCHANGED <<ackPending, ackAge, beatIn, handIn, quietFor, up>> /\ G!Tasks' = G!Tasks
    BY <1>5 DEF G!ReadDispatch, G!Store, G!timerVars, G!qqVars, G!Tasks
  <2> QED BY <2>1, QuietStill
<1>6. CASE G!Stored
  <2>1. CASE UNCHANGED <<G!timerVars, G!qqVars>> /\ state' \in {state, "online"}
    <3>1. G!Tasks /\ G!Tasks'
      BY <1>6, <2>1 DEF LinkOK, G!Stored, G!Tasks
    <3> QED BY <2>1, <3>1, QuietStill DEF G!timerVars, G!qqVars
  <2>2. CASE G!Disconnect
    BY <2>2, QuietGone
  <2> QED BY <1>6, <2>1, <2>2 DEF G!Stored, G!Lost
<1>7. CASE G!ReadAck
  <2>1. /\ ackPending' = FALSE /\ ackAge' = 0 /\ UNCHANGED <<beatIn, handIn, quietFor, up>>
        /\ up = "open"
    BY <1>7 DEF G!ReadAck, G!Take
  <2>2. 0 \in 0..Interval
    BY Timings
  <2> QED BY <2>1, <2>2, QuietOpen DEF QuietInv
<1>8. CASE G!ReadBeat
  <2>1. UNCHANGED <<beatIn, handIn, quietFor, up>> /\ up = "open"
    BY <1>8 DEF G!ReadBeat, G!Take
  <2>2. ackPending' \in BOOLEAN /\ ackAge' \in 0..Interval
    <3>1. CASE ackPending
      <4>1. ackPending' = ackPending /\ ackAge' = ackAge
        BY <1>8, <3>1, Zenon DEF G!ReadBeat, G!SendHeartbeat
      <4> QED BY <4>1 DEF QuietInv
    <3>2. CASE ~ackPending
      BY <1>8, <3>2, Timings DEF G!ReadBeat, G!SendHeartbeat
    <3> QED BY <3>1, <3>2
  <2> QED BY <2>1, <2>2, QuietOpen DEF QuietInv
<1>9. CASE G!Slows \/ G!Recovery
  BY <1>9, QuietStill DEF G!Slows, G!Recovery, G!clientVars, G!timerVars, G!qqVars, G!Tasks
<1>10. CASE \/ G!AnswerLogin \/ G!Emit \/ G!AnswerBeat \/ G!AsksBeat \/ G!Closing \/ G!Forget
  <2>1. UNCHANGED <<G!clientVars, G!timerVars, up>>
    BY <1>10, Zenon DEF G!AnswerLogin, G!Emit, G!AnswerBeat, G!AsksBeat, G!Closing, G!Forget
  <2> QED BY <2>1, QuietStill DEF G!clientVars, G!timerVars, G!Tasks
<1>11. CASE G!Silence
  <2>1. /\ UNCHANGED <<state, ackPending, ackAge, beatIn, handIn>>
        /\ up' = "silent" /\ quietFor' = 0
    BY <1>11 DEF G!Silence, G!clientVars
  <2>2. /\ ackPending \in BOOLEAN /\ ackAge \in 0..Interval
        /\ beatIn \in 0..Interval /\ handIn \in 0..HelloTimeout
    BY DEF QuietInv
  <2>3. 0 + handIn <= HelloTimeout /\ 0 + beatIn <= Interval
    BY <2>2, Timings
  <2>4. 0 + Larger(beatIn, Interval - ackAge) <= 2 * Interval
    BY <2>2, Timings DEF Larger
  <2> QED BY <2>1, <2>2, <2>3, <2>4 DEF QuietInv, Larger
<1> QED BY <1>1, <1>2, <1>3, <1>4, <1>5, <1>6, <1>7, <1>8, <1>9, <1>10, <1>11, QuietBeat, QuietTick
        DEF G!Next, G!Adapter, G!QQ

LEMMA QuietEnough == QuietInv => G!SilenceIsNoticed
<1> SUFFICES ASSUME QuietInv PROVE G!SilenceIsNoticed
  OBVIOUS
<1>1. /\ ackPending \in BOOLEAN /\ ackAge \in 0..Interval /\ quietFor \in Nat
      /\ beatIn \in 0..Interval /\ handIn \in 0..HelloTimeout
  BY DEF QuietInv
<1>2. CASE up # "silent"
  BY <1>1, <1>2, Timings DEF QuietInv, G!SilenceIsNoticed
<1>3. CASE up = "silent" /\ ~G!Tasks
  <2>1. quietFor + handIn <= HelloTimeout
    BY <1>3 DEF QuietInv
  <2> QED BY <1>1, <1>3, <2>1, Timings DEF G!SilenceIsNoticed
<1>4. CASE up = "silent" /\ G!Tasks /\ ~ackPending
  <2>1. quietFor + beatIn <= Interval
    BY <1>4 DEF QuietInv
  <2> QED BY <1>1, <2>1, Timings DEF G!SilenceIsNoticed
<1>5. CASE up = "silent" /\ G!Tasks /\ ackPending
  <2>1. quietFor + Larger(beatIn, Interval - ackAge) <= 2 * Interval
    BY <1>5 DEF QuietInv
  <2>2. Larger(beatIn, Interval - ackAge) \in Nat
    BY <1>1, Timings DEF Larger
  <2> QED BY <1>1, <2>1, <2>2, Timings DEF G!SilenceIsNoticed
<1> QED BY <1>1, <1>2, <1>3, <1>4, <1>5

-----------------------------------------------------------------------------
(* Frames and cursors.                                                     *)

LEMMA EnvelopeIs ==
    ASSUME NEW f \in G!Envelopes
    PROVE  /\ f.op = "dispatch" /\ f.t \in {"READY", "RESUMED", "event"}
           /\ f.s \in G!Sessions /\ f.q \in 1..MaxSeq /\ f.q \in Nat /\ f \in Frames
BY TransportAssumption DEF G!Envelopes, Frames

LEMMA FrameIs ==
    ASSUME NEW f \in Frames
    PROVE  (f.op = "dispatch" /\ f \in G!Envelopes) \/ f.op \in G!FrameOps
BY DEF Frames, G!Envelopes

LEMMA PlainIs ==
    ASSUME NEW op \in G!FrameOps
    PROVE  G!Frame(op) \in Frames /\ G!Frame(op).op = op /\ op # "dispatch"
BY DEF Frames, G!Frame, G!FrameOps, G!Closes

LEMMA DispatchIs ==
    ASSUME NEW t \in {"READY", "RESUMED", "event"}, NEW s \in G!Sessions, NEW q \in 1..MaxSeq
    PROVE  /\ G!Dispatch(t, s, q) \in G!Envelopes /\ G!Dispatch(t, s, q) \in Frames
           /\ G!Dispatch(t, s, q).op = "dispatch" /\ G!Dispatch(t, s, q).t = t
           /\ G!Dispatch(t, s, q).s = s /\ G!Dispatch(t, s, q).q = q
BY DEF G!Dispatch, G!Envelopes, Frames

LEMMA EmittedIs ==
    ASSUME NEW e
    PROVE  e \in G!Emitted <=> e \in G!Sessions \X (1..MaxSeq) /\ e[2] <= sent[e[1]]
BY DEF G!Emitted

LEMMA TailIs ==
    ASSUME NEW S, NEW l \in Seq(S), l # << >>
    PROVE  /\ Tail(l) \in Seq(S) /\ Len(Tail(l)) = Len(l) - 1 /\ Len(l) >= 1
           /\ Head(l) = l[1] /\ l[1] \in S
           /\ \A i \in 1..Len(Tail(l)) : Tail(l)[i] = l[i + 1]
OBVIOUS

LEMMA JoinIs ==
    ASSUME NEW S, NEW l \in Seq(S), NEW m \in Seq(S)
    PROVE  /\ l \o m \in Seq(S) /\ Len(l \o m) = Len(l) + Len(m)
           /\ \A i \in 1..Len(l) : (l \o m)[i] = l[i]
           /\ \A i \in 1..Len(m) : (l \o m)[Len(l) + i] = m[i]
OBVIOUS

LEMMA Singleton ==
    ASSUME NEW S, NEW x \in S
    PROVE  <<x>> \in Seq(S) /\ Len(<<x>>) = 1 /\ <<x>>[1] = x
OBVIOUS

LEMMA FunctionIsSeq ==
    ASSUME NEW S, NEW n \in Nat, NEW f \in [1..n -> S]
    PROVE  f \in Seq(S) /\ Len(f) = n
OBVIOUS

\* A frame that is still on its way, perhaps with fewer before it.
LEMMA EntryMoves ==
    ASSUME NEW f \in G!Envelopes, NEW i \in Nat, NEW k \in Nat, EntryOK(f, i),
           sent[f.s] \in Nat, sent'[f.s] \in Nat, sent[f.s] <= sent'[f.s],
           f.t = "READY" => /\ sid' = sid /\ reading' = << >>
                            /\ \A j \in 1..(k - 1) : line'[j].op # "dispatch",
           \A p \in Nat : Covered(f.s, p, i) => Covered(f.s, p, k)'
    PROVE  EntryOK(f, k)'
<1>1. f.q \in Nat /\ 1..f.q \subseteq Nat
  BY EnvelopeIs
<1>2. f.q <= sent'[f.s]
  BY <1>1 DEF EntryOK
<1>3. f.t # "READY" =>
        \A p \in 1..f.q : f.t = "RESUMED" \/ p < f.q => Covered(f.s, p, k)'
  BY <1>1 DEF EntryOK
<1> QED BY <1>2, <1>3 DEF EntryOK

LEMMA CoveredKept ==
    ASSUME NEW s, NEW p, NEW k \in Nat, Covered(s, p, k), Known(s, p) => Known(s, p)',
           \A j \in 1..(k - 1) : line'[j] = line[j]
    PROVE  Covered(s, p, k)'
BY DEF Covered

LEMMA CoveredTail ==
    ASSUME NEW s, NEW p, NEW k \in Nat, k <= Len(line), line \in Seq(Frames), line # << >>,
           line' = Tail(line), Covered(s, p, k + 1),
           Known(s, p) \/ Shows(line[1], s, p) => Known(s, p)'
    PROVE  Covered(s, p, k)'
<1>1. CASE Known(s, p) \/ Shows(line[1], s, p)
  BY <1>1 DEF Covered
<1>2. CASE \E j \in 1..k : j # 1 /\ Shows(line[j], s, p)
  <2>1. PICK j \in 1..k : j # 1 /\ Shows(line[j], s, p)
    BY <1>2
  <2>2. j - 1 \in 1..(k - 1) /\ j - 1 \in 1..Len(Tail(line)) /\ (j - 1) + 1 = j
    BY <2>1, TailIs
  <2>3. line'[j - 1] = line[j]
    BY <2>2, TailIs
  <2> QED BY <2>1, <2>2, <2>3 DEF Covered, Shows
<1> QED BY <1>1, <1>2 DEF Covered

LEMMA BroughtAll ==
    ASSUME NEW s, NEW p, Len(line) \in Nat
    PROVE  Brought(s, p) <=> Covered(s, p, Len(line) + 1)
BY DEF Brought, Covered

\* What neither moves a cursor nor adds an event leaves no gap.
LEMMA GapStill ==
    ASSUME G!NoSilentGap, UNCHANGED <<sid, seq, sent, joined, stored, announced>>
    PROVE  G!NoSilentGap'
BY DEF G!NoSilentGap, G!Emitted, G!Owed

-----------------------------------------------------------------------------
(* The cursor: steps that leave it, or take the socket away.               *)

LEMMA CursorInit == G!Init => CursorInv /\ QuietInv
<1> SUFFICES ASSUME G!Init PROVE CursorInv /\ QuietInv
  OBVIOUS
<1>1. /\ state = "idle" /\ connected = FALSE /\ sid = 0 /\ seq = 0 /\ failures = 0
      /\ reading = << >> /\ intake = << >> /\ ackPending = FALSE /\ ackAge = 0 /\ beatIn = 0
      /\ handIn = 0 /\ quietFor = 0 /\ up = "none" /\ line = << >> /\ login = << >>
      /\ beat = FALSE /\ live = 0 /\ attached = FALSE /\ stored = {} /\ announced = {}
      /\ sent = [s \in G!Sessions |-> 0] /\ joined = [s \in G!Sessions |-> 0]
  BY DEF G!Init, G!None
<1>2. << >> \in Seq(G!Envelopes) /\ << >> \in Seq(Frames) /\ Len(line) = 0 /\ ~G!Tasks
  BY <1>1 DEF G!Tasks
<1>3. 0 \in 0..MaxSessions /\ 0 \in 0..MaxSeq
  BY TransportAssumption
<1>4. ShardTypes
  <2>1. sent \in [G!Sessions -> 0..MaxSeq] /\ joined \in [G!Sessions -> 0..MaxSeq]
    BY <1>1, <1>3
  <2>2. connected \in BOOLEAN /\ attached \in BOOLEAN /\ beat \in BOOLEAN
    BY <1>1, Zenon
  <2>5. failures \in 0..1
    BY <1>1
  <2>3. sid \in 0..MaxSessions /\ seq \in 0..MaxSeq /\ live \in 0..MaxSessions
    BY <1>1, <1>3
  <2>4. intake \in Seq(G!Envelopes) /\ line \in Seq(Frames)
    BY <1>1, <1>2
  <2> QED BY <1>1, <2>1, <2>2, <2>3, <2>4, <2>5 DEF ShardTypes
<1>5. LinkOK /\ ReadOK /\ LiveOK
  BY <1>1, <1>2 DEF LinkOK, ReadOK, LiveOK
<1>6. LineOK /\ AttachedOK /\ EndsOK
  BY <1>1, <1>2 DEF LineOK, AttachedOK, EndsOK
<1>7. G!NoSilentGap
  BY <1>1, EmittedIs, TransportAssumption DEF G!NoSilentGap, G!Owed
<1>8. QuietInv
  <2>1. 0 \in 0..Interval /\ 0 \in 0..HelloTimeout
    BY Timings
  <2> QED BY <1>1, <2>1 DEF QuietInv
<1> QED BY <1>4, <1>5, <1>6, <1>7, <1>8 DEF CursorInv

LEMMA CursorStill ==
    ASSUME CursorInv, ShardTypes', G!Tasks' = G!Tasks,
           UNCHANGED <<sid, seq, reading, intake, up, line, login, live, attached, sent,
                       joined, stored, announced>>,
           up # "none" => G!Tasks \/ state' \in {"connecting", "waiting_identify"}
    PROVE  CursorInv'
<1>1. LinkOK'
  BY DEF CursorInv, LinkOK, NoDispatch
<1>2. ReadOK'
  BY DEF CursorInv, ReadOK
<1>3. LineOK'
  BY DEF CursorInv, LineOK, EntryOK, Covered, Known
<1>4. AttachedOK'
  BY DEF CursorInv, AttachedOK, Brought, Known
<1>5. LiveOK'
  BY DEF CursorInv, LiveOK
<1>6. EndsOK'
  BY DEF CursorInv, EndsOK, NoDispatch
<1>7. G!NoSilentGap'
  BY GapStill DEF CursorInv
<1> QED BY <1>1, <1>2, <1>3, <1>4, <1>5, <1>6, <1>7 DEF CursorInv

\* An end of the connection; with the session given up, its loss announced.
LEMMA CursorGone ==
    ASSUME CursorInv, G!Disconnect, state' \in {"backoff", "failed", "stopped"},
           failures' \in {0, 1}, UNCHANGED <<intake, live, sent, stored, joined>>,
           \/ UNCHANGED <<sid, seq, announced>>
           \/ /\ sid' = 0 /\ seq' = 0 /\ announced' = announced \cup G!Emitted
              /\ live = 0 \/ joined[live] = 0
    PROVE  CursorInv'
<1>1. /\ connected' = FALSE /\ reading' = << >> /\ up' = "none" /\ line' = << >>
      /\ login' = << >> /\ beat' = FALSE /\ attached' = FALSE
  BY DEF G!Disconnect
<1>2. << >> \in Seq(Frames) /\ Len(line') = 0 /\ ~G!Tasks'
  BY <1>1 DEF G!Tasks
<1>3. G!Emitted \subseteq G!Sessions \X (1..MaxSeq)
  BY EmittedIs
<1>4. 0 \in 0..MaxSessions /\ 0 \in 0..MaxSeq
  BY TransportAssumption
<1>5. ShardTypes'
  <2>1. sid' \in 0..MaxSessions /\ seq' \in 0..MaxSeq
    BY <1>4 DEF CursorInv, ShardTypes
  <2>2. announced' \subseteq G!Sessions \X (1..MaxSeq)
    BY <1>3 DEF CursorInv, ShardTypes
  <2>3. connected' \in BOOLEAN /\ attached' \in BOOLEAN /\ beat' \in BOOLEAN
    BY <1>1, Zenon
  <2>4. failures' \in 0..1
    OBVIOUS
  <2> QED BY <1>1, <1>2, <2>1, <2>2, <2>3, <2>4 DEF CursorInv, ShardTypes
<1>6. LinkOK'
  BY <1>1, <1>2 DEF CursorInv, LinkOK
<1>7. ReadOK' /\ LineOK'
  BY <1>1, <1>2 DEF ReadOK, LineOK
<1>8. AttachedOK' /\ EndsOK'
  BY <1>1, <1>2 DEF AttachedOK, EndsOK
<1>9. LiveOK'
  BY <1>4 DEF CursorInv, LiveOK
<1>10. G!NoSilentGap'
  <2>1. CASE UNCHANGED <<sid, seq, announced>>
    BY <2>1, GapStill DEF CursorInv
  <2>2. CASE announced' = announced \cup G!Emitted
    BY <2>2 DEF G!NoSilentGap, G!Emitted
  <2> QED BY <2>1, <2>2
<1> QED BY <1>5, <1>6, <1>7, <1>8, <1>9, <1>10 DEF CursorInv

\* A frame that was last on the line takes the session away for good.
LEMMA FreshIsFinal ==
    ASSUME CursorInv, G!Take, Head(line).op \in {"invalid", "close_fresh"}
    PROVE  live = 0 \/ joined[live] = 0
<1>1. line \in Seq(Frames) /\ line # << >>
  BY DEF CursorInv, ShardTypes, G!Take
<1>2. 1 \in 1..Len(line) /\ line[1].op \in {"invalid", "close_fresh"}
  BY <1>1, TailIs
<1> QED BY <1>2 DEF CursorInv, EndsOK

LEMMA EndKeeps ==
    ASSUME CursorInv,
           \/ G!HelloDeadline \/ G!Refused \/ G!ReadEnd \/ G!ReadDeadline \/ G!DialFails \/ G!Stop
    PROVE  CursorInv'
<1>1. G!Disconnect /\ state' \in {"backoff", "failed", "stopped"}
  BY LostOrEnded
<1>2. failures' \in {0, 1} /\ UNCHANGED <<intake, live, sent, stored, joined>>
  <2>1. failures \in {0, 1}
    BY DEF CursorInv, ShardTypes
  <2>2. CASE G!HelloDeadline \/ G!ReadDeadline
    BY <2>2 DEF G!HelloDeadline, G!ReadDeadline, G!Lost
  <2>3. CASE G!Refused
    BY <2>3 DEF G!Refused, G!Lost
  <2>4. CASE G!ReadEnd
    BY <2>1, <2>4 DEF G!ReadEnd, G!Lost, G!End
  <2>5. CASE G!DialFails
    BY <2>1, <2>5 DEF G!DialFails, G!Lost, G!End
  <2>6. CASE G!Stop
    BY <2>1, <2>6 DEF G!Stop, G!End
  <2> QED BY <2>2, <2>3, <2>4, <2>5, <2>6
<1>3. \/ UNCHANGED <<sid, seq, announced>>
      \/ /\ sid' = 0 /\ seq' = 0 /\ announced' = announced \cup G!Emitted
         /\ live = 0 \/ joined[live] = 0
  <2>1. CASE G!HelloDeadline \/ G!ReadDeadline
    BY <2>1 DEF G!HelloDeadline, G!ReadDeadline, G!Lost, G!Kept
  <2>2. CASE G!Refused
    <3>1. CASE G!Lost(G!Kept)
      BY <3>1 DEF G!Lost, G!Kept
    <3>2. CASE /\ G!Take /\ Head(line).op = "dispatch"
               /\ seq' = (IF Head(line).t = "READY" THEN 0 ELSE seq)
               /\ UNCHANGED <<sid, announced>>
      <4>1. line \in Seq(Frames) /\ line # << >>
        BY <3>2 DEF CursorInv, ShardTypes, G!Take
      <4>2. 1 \in 1..Len(line) /\ Head(line) = line[1] /\ line[1] \in G!Envelopes
        BY <3>2, <4>1, TailIs, FrameIs DEF G!FrameOps, G!Closes
      <4>3. EntryOK(line[1], 1)
        BY <4>2 DEF CursorInv, LineOK
      <4>4. line[1].t = "READY" => sid = 0 /\ seq = 0
        BY <4>3 DEF CursorInv, LinkOK, EntryOK
      <4> QED BY <3>2, <4>2, <4>4
    <3> QED BY <2>2, <3>1, <3>2 DEF G!Refused, G!Lost, G!None
  <2>3. CASE G!ReadEnd
    <3>1. CASE G!Kept
      BY <3>1 DEF G!Kept
    <3>2. CASE G!Fresh /\ Head(line).op \in {"invalid", "close_fresh"} /\ G!Take
      BY <3>2, FreshIsFinal DEF G!Fresh, G!None
    <3> QED BY <2>3, <3>1, <3>2 DEF G!ReadEnd, G!Lost, G!End, G!InvalidSession
  <2>4. CASE G!DialFails
    BY <2>4 DEF G!DialFails, G!Lost, G!End, G!Kept
  <2>5. CASE G!Stop
    BY <2>5 DEF G!Stop, G!End, G!Kept
  <2> QED BY <2>1, <2>2, <2>3, <2>4, <2>5
<1> QED BY <1>1, <1>2, <1>3, CursorGone

-----------------------------------------------------------------------------
(* The cursor: frames come and go.                                         *)

\* The first frame is read; what it shows is known from then on.
LEMMA LineTail ==
    ASSUME CursorInv, line # << >>, line' = Tail(line), UNCHANGED <<sid, sent>>,
           reading' = reading \/ line[1].op = "dispatch",
           \A s, p : Known(s, p) \/ Shows(line[1], s, p) => Known(s, p)'
    PROVE  /\ LineOK' /\ line' \in Seq(Frames) /\ Len(line') = Len(line) - 1
           /\ \A i \in 1..Len(line') : i + 1 \in 1..Len(line) /\ line'[i] = line[i + 1]
           /\ \A s, p : Brought(s, p) => Brought(s, p)'
<1>1. /\ line \in Seq(Frames) /\ sent \in [G!Sessions -> 0..MaxSeq]
  BY DEF CursorInv, ShardTypes
<1>2. /\ line' \in Seq(Frames) /\ Len(line') = Len(line) - 1 /\ Len(line) \in Nat
      /\ \A i \in 1..Len(line') : i + 1 \in 1..Len(line) /\ line'[i] = line[i + 1]
  BY <1>1, TailIs
<1>3. ASSUME NEW s, NEW p PROVE Known(s, p) \/ Shows(line[1], s, p) => Known(s, p)'
  OBVIOUS
<1>4. ASSUME NEW s, NEW p, Brought(s, p) PROVE Brought(s, p)'
  <2>1. Covered(s, p, Len(line) + 1)
    BY <1>2, <1>4 DEF Covered, Brought
  <2>2. PICK k \in Nat : k = Len(line)
    BY <1>2
  <2>3. Covered(s, p, k)'
    BY <1>1, <1>3, <2>1, <2>2, CoveredTail
  <2>4. Known(s, p)' \/ \E j \in 1..(k - 1) : Shows(line'[j], s, p)
    BY <2>3 DEF Covered, Shows
  <2> QED BY <1>2, <2>2, <2>4 DEF Brought, Shows
<1>5. ASSUME NEW k \in 1..Len(line'), NEW f \in G!Envelopes, line'[k] = f PROVE EntryOK(f, k)'
  <2>1. k \in Nat /\ k + 1 \in Nat /\ k <= Len(line) /\ k + 1 \in 1..Len(line) /\ line[k + 1] = f
    BY <1>2, <1>5
  <2>2. EntryOK(f, k + 1)
    BY <2>1 DEF CursorInv, LineOK
  <2>3. sent[f.s] \in Nat /\ sent'[f.s] = sent[f.s]
    BY <1>1, EnvelopeIs, TransportAssumption
  <2>4. f.t = "READY" => /\ sid' = sid /\ reading' = << >>
                         /\ \A j \in 1..(k - 1) : line'[j].op # "dispatch"
    <3> SUFFICES ASSUME f.t = "READY", NEW j \in 1..(k - 1)
                 PROVE  line'[j].op # "dispatch"
      <4>1. 1 \in 1..((k + 1) - 1)
        BY <2>1
      <4> QED BY <2>2, <4>1 DEF EntryOK
    <3>1. j + 1 \in 1..((k + 1) - 1) /\ j \in 1..Len(line')
      BY <2>1, <1>2
    <3> QED BY <1>2, <2>2, <3>1 DEF EntryOK
  <2>5. \A p \in Nat : Covered(f.s, p, k + 1) => Covered(f.s, p, k)'
    BY <1>1, <1>3, <2>1, CoveredTail
  <2> QED BY <2>1, <2>2, <2>3, <2>4, <2>5, EntryMoves
<1> QED BY <1>2, <1>4, <1>5 DEF LineOK

\* QQ puts frames on the line.
LEMMA LineGrows ==
    ASSUME CursorInv, NEW l \in Seq(Frames), line' = line \o l, UNCHANGED <<sid, seq, reading>>,
           sent' \in [G!Sessions -> 0..MaxSeq],
           \A s \in G!Sessions : NoDispatch \/ sent[s] <= sent'[s]
    PROVE  /\ line' \in Seq(Frames) /\ Len(line') = Len(line) + Len(l) /\ Len(line) \in Nat
           /\ \A i \in 1..Len(line) : line'[i] = line[i]
           /\ \A i \in 1..Len(l) : line'[Len(line) + i] = l[i]
           /\ \A i \in 1..Len(line), f \in G!Envelopes : line'[i] = f => EntryOK(f, i)'
           /\ \A s, p : Brought(s, p) => Brought(s, p)'
<1>1. line \in Seq(Frames) /\ sent \in [G!Sessions -> 0..MaxSeq]
  BY DEF CursorInv, ShardTypes
<1>2. /\ line' \in Seq(Frames) /\ Len(line') = Len(line) + Len(l) /\ Len(line) \in Nat
      /\ Len(l) \in Nat
      /\ \A i \in 1..Len(line) : line'[i] = line[i]
      /\ \A i \in 1..Len(l) : line'[Len(line) + i] = l[i]
  BY <1>1, JoinIs
<1>3. ASSUME NEW s, NEW p PROVE Known(s, p) => Known(s, p)'
  BY DEF Known
<1>4. ASSUME NEW s, NEW p, Brought(s, p) PROVE Brought(s, p)'
  <2>1. CASE Known(s, p)
    BY <1>3, <2>1 DEF Brought
  <2>2. ASSUME NEW j \in 1..Len(line), Shows(line[j], s, p) PROVE Brought(s, p)'
    <3>1. j \in 1..Len(line') /\ line'[j] = line[j]
      BY <1>2
    <3> QED BY <2>2, <3>1 DEF Brought, Shows
  <2> QED BY <1>4, <2>1, <2>2 DEF Brought
<1>5. ASSUME NEW k \in 1..Len(line), NEW f \in G!Envelopes, line'[k] = f PROVE EntryOK(f, k)'
  <2>1. k \in Nat /\ line[k] = f /\ 1..(k - 1) \subseteq 1..Len(line) /\ f.op = "dispatch"
    BY <1>2, <1>5, EnvelopeIs
  <2>2. EntryOK(f, k)
    BY <2>1 DEF CursorInv, LineOK
  <2>3. sent[f.s] \in Nat /\ sent'[f.s] \in Nat /\ sent[f.s] <= sent'[f.s]
    BY <1>1, <2>1, EnvelopeIs, TransportAssumption DEF NoDispatch
  <2>4. f.t = "READY" => /\ sid' = sid /\ reading' = << >>
                         /\ \A j \in 1..(k - 1) : line'[j].op # "dispatch"
    BY <1>2, <2>1, <2>2 DEF EntryOK
  <2>5. \A p \in Nat : Covered(f.s, p, k) => Covered(f.s, p, k)'
    <3> SUFFICES ASSUME NEW p \in Nat, Covered(f.s, p, k) PROVE Covered(f.s, p, k)'
      OBVIOUS
    <3>1. \A j \in 1..(k - 1) : line'[j] = line[j]
      BY <1>2, <2>1
    <3> QED BY <1>3, <2>1, <3>1, CoveredKept
  <2> QED BY <2>1, <2>2, <2>3, <2>4, <2>5, EntryMoves
<1> QED BY <1>2, <1>4, <1>5

LEMMA StillKeeps ==
    ASSUME CursorInv, G!Connect \/ G!Heartbeat \/ G!Slows \/ G!Recovery \/ G!Tick
    PROVE  CursorInv'
<1>1. CASE G!Heartbeat /\ G!Lost(G!Kept)
  BY <1>1, CursorGone DEF G!Lost, G!Kept
<1>2. CASE \/ G!Connect \/ G!Slows \/ G!Recovery \/ G!Tick
           \/ /\ G!Heartbeat /\ G!SendHeartbeat
              /\ UNCHANGED <<G!clientVars, handIn, quietFor, up, line, login, live, attached,
                             sent, G!history>>
  <2>1. /\ UNCHANGED <<connected, sid, seq, failures, reading, intake, up, line, login, live,
                       attached, sent, joined, stored, announced>>
        /\ beat' \in {beat, TRUE}
        /\ \/ state' = state
           \/ state \in {"idle", "backoff"} /\ state' \in {"connecting", "waiting_identify"}
    <3>1. CASE G!Connect
      BY <3>1 DEF G!Connect, G!qqVars, G!history
    <3>2. CASE G!Slows
      BY <3>2 DEF G!Slows, G!clientVars, G!qqVars, G!history
    <3>3. CASE G!Recovery
      BY <3>3 DEF G!Recovery, G!clientVars, G!qqVars, G!history
    <3>4. CASE G!Tick
      BY <3>4 DEF G!Tick, G!clientVars, G!qqVars, G!history
    <3>5. CASE /\ G!SendHeartbeat
               /\ UNCHANGED <<G!clientVars, handIn, quietFor, up, line, login, live, attached,
                              sent, G!history>>
      BY <3>5 DEF G!SendHeartbeat, G!clientVars, G!history
    <3> QED BY <1>2, <3>1, <3>2, <3>3, <3>4, <3>5
  <2>2. ShardTypes'
    <3>1. beat' \in BOOLEAN
      BY <2>1 DEF CursorInv, ShardTypes
    <3>2. state' \in {"idle", "connecting", "waiting_identify", "authenticating", "online",
                      "backoff", "failed", "stopped"}
      BY <2>1 DEF CursorInv, ShardTypes
    <3> QED BY <2>1, <3>1, <3>2 DEF CursorInv, ShardTypes
  <2>3. /\ G!Tasks' = G!Tasks
        /\ up # "none" => G!Tasks \/ state' \in {"connecting", "waiting_identify"}
    BY <2>1 DEF G!Tasks, CursorInv, LinkOK
  <2> QED BY <2>1, <2>2, <2>3, CursorStill
<1> QED BY <1>1, <1>2 DEF G!Heartbeat

\* The read task takes a frame that is not a dispatch.
LEMMA ReadPlainKeeps ==
    ASSUME CursorInv, G!ReadAck \/ G!ReadBeat
    PROVE  CursorInv'
<1>1. /\ line # << >> /\ Head(line).op # "dispatch" /\ line' = Tail(line) /\ G!Tasks
      /\ UNCHANGED <<state, connected, sid, seq, reading, intake, up, login, live, attached,
                     sent, joined, stored, announced>>
      /\ failures' \in {failures, 0}
  <2>1. CASE G!ReadAck
    BY <2>1 DEF G!ReadAck, G!Take, G!history
  <2>2. CASE G!ReadBeat
    BY <2>2 DEF G!ReadBeat, G!Take, G!clientVars, G!history
  <2> QED BY <2>1, <2>2
<1>2. beat' \in BOOLEAN
  <2>1. beat' = beat \/ beat' = TRUE
    BY Zenon DEF G!ReadAck, G!ReadBeat, G!SendHeartbeat
  <2> QED BY <2>1 DEF CursorInv, ShardTypes
<1>3. /\ LineOK' /\ line' \in Seq(Frames) /\ Len(line') = Len(line) - 1
      /\ \A i \in 1..Len(line') : i + 1 \in 1..Len(line) /\ line'[i] = line[i + 1]
      /\ \A s, p : Brought(s, p) => Brought(s, p)'
  <2>1. line[1].op # "dispatch"
    BY <1>1, TailIs DEF CursorInv, ShardTypes
  <2>2. \A s, p : Known(s, p) \/ Shows(line[1], s, p) => Known(s, p)'
    BY <1>1, <2>1 DEF Known, Shows
  <2> QED BY <1>1, <2>2, LineTail
<1>4. ShardTypes'
  <2>1. failures' \in 0..1
    BY <1>1 DEF CursorInv, ShardTypes
  <2> QED BY <1>1, <1>2, <1>3, <2>1 DEF CursorInv, ShardTypes
<1>5. NoDispatch => NoDispatch'
  BY <1>3 DEF NoDispatch
<1>6. LinkOK'
  BY <1>1, <1>5 DEF CursorInv, LinkOK, G!Tasks
<1>7. ReadOK' /\ LiveOK'
  BY <1>1 DEF CursorInv, ReadOK, LiveOK
<1>8. AttachedOK'
  BY <1>1, <1>3 DEF CursorInv, AttachedOK
<1>9. EndsOK'
  BY <1>1, <1>3, <1>5 DEF CursorInv, EndsOK
<1>10. G!NoSilentGap'
  BY <1>1, GapStill DEF CursorInv
<1> QED BY <1>3, <1>4, <1>6, <1>7, <1>8, <1>9, <1>10 DEF CursorInv

LEMMA HelloKeeps ==
    ASSUME CursorInv, G!Hello
    PROVE  CursorInv'
<1>1. /\ ~G!Tasks /\ line # << >> /\ Head(line).op # "dispatch" /\ line' = Tail(line)
      /\ state' = "authenticating" /\ G!Tasks'
      /\ UNCHANGED <<connected, sid, seq, failures, reading, intake, up, beat, live, attached,
                     sent, joined, stored, announced>>
      /\ login' = IF G!Resume THEN <<sid, seq>> ELSE <<0, 0>>
  BY DEF G!Hello, G!history, G!Tasks, G!None
<1>2. /\ LineOK' /\ line' \in Seq(Frames) /\ Len(line') = Len(line) - 1
      /\ \A i \in 1..Len(line') : i + 1 \in 1..Len(line) /\ line'[i] = line[i + 1]
  <2>1. line[1].op # "dispatch"
    BY <1>1, TailIs DEF CursorInv, ShardTypes
  <2>2. \A s, p : Known(s, p) \/ Shows(line[1], s, p) => Known(s, p)'
    BY <1>1, <2>1 DEF Known, Shows
  <2> QED BY <1>1, <2>2, LineTail
<1>3. ShardTypes'
  BY <1>1, <1>2 DEF CursorInv, ShardTypes
<1>4. \A i \in 1..Len(line') : line'[i].op \in {"hello", "ack"}
  BY <1>1, <1>2 DEF CursorInv, LinkOK
<1>5. ~attached /\ reading = << >> /\ login' = <<sid, seq>> /\ NoDispatch'
  BY <1>1, <1>4 DEF CursorInv, LinkOK, NoDispatch, G!Resume, G!None
<1>6. LinkOK'
  BY <1>1, <1>5 DEF CursorInv, LinkOK
<1>7. ReadOK' /\ LiveOK'
  BY <1>1 DEF CursorInv, ReadOK, LiveOK
<1>8. AttachedOK' /\ EndsOK'
  BY <1>1, <1>4, <1>5 DEF AttachedOK, EndsOK
<1>9. G!NoSilentGap'
  BY <1>1, GapStill DEF CursorInv
<1> QED BY <1>2, <1>3, <1>6, <1>7, <1>8, <1>9 DEF CursorInv

\* A new socket brings Hello; a silent one brings nothing more.
LEMMA DialKeeps ==
    ASSUME CursorInv, G!Dial \/ G!Silence
    PROVE  CursorInv'
<1>1. /\ UNCHANGED <<state, connected, sid, seq, failures, reading, intake, login, beat, live,
                     attached, sent, joined, stored, announced>>
      /\ \/ /\ line' = << >> /\ up' = "silent" /\ up = "open"
         \/ /\ line' = <<G!Frame("hello")>> /\ up' = "open"
            /\ state \in {"connecting", "waiting_identify"}
  <2>1. CASE G!Dial
    BY <2>1 DEF G!Dial, G!clientVars, G!history
  <2>2. CASE G!Silence
    BY <2>2 DEF G!Silence, G!clientVars, G!history
  <2> QED BY <2>1, <2>2
<1>2. /\ line' \in Seq(Frames) /\ Len(line') \in Nat
      /\ \A i \in 1..Len(line') : line'[i].op = "hello" /\ line'[i] \notin G!Envelopes
  <2>1. G!Frame("hello") \in Frames /\ G!Frame("hello").op = "hello"
    BY PlainIs DEF G!FrameOps
  <2>2. G!Frame("hello") \notin G!Envelopes
    BY <2>1, EnvelopeIs
  <2>3. CASE line' = << >>
    BY <2>3
  <2>4. CASE line' = <<G!Frame("hello")>>
    BY <2>1, <2>2, <2>4
  <2> QED BY <1>1, <2>3, <2>4
<1>3. G!Tasks' = G!Tasks /\ (up' = "open" => ~G!Tasks)
  BY <1>1 DEF G!Tasks
<1>4. ShardTypes'
  BY <1>1, <1>2 DEF CursorInv, ShardTypes
<1>5. LinkOK'
  BY <1>1, <1>2, <1>3 DEF CursorInv, LinkOK, NoDispatch
<1>6. ReadOK' /\ LiveOK'
  BY <1>1 DEF CursorInv, ReadOK, LiveOK
<1>7. LineOK' /\ EndsOK'
  BY <1>2 DEF LineOK, EndsOK
<1>8. AttachedOK'
  BY <1>1, <1>3 DEF CursorInv, AttachedOK, LinkOK
<1>9. G!NoSilentGap'
  BY <1>1, GapStill DEF CursorInv
<1> QED BY <1>4, <1>5, <1>6, <1>7, <1>8, <1>9 DEF CursorInv

LEMMA ForgetKeeps ==
    ASSUME CursorInv, G!Forget
    PROVE  CursorInv'
<1>1. /\ ~attached /\ live' = 0
      /\ UNCHANGED <<state, connected, sid, seq, failures, reading, intake, up, line, login,
                     beat, attached, sent, joined, stored, announced>>
  BY DEF G!Forget, G!clientVars, G!history, G!None
<1>2. ShardTypes'
  <2>1. live' \in 0..MaxSessions
    BY <1>1, TransportAssumption
  <2> QED BY <1>1, <2>1 DEF CursorInv, ShardTypes
<1>3. LinkOK' /\ ReadOK' /\ LiveOK'
  BY <1>1 DEF CursorInv, LinkOK, ReadOK, LiveOK, NoDispatch, G!Tasks
<1>4. LineOK'
  BY <1>1 DEF CursorInv, LineOK, EntryOK, Covered, Known
<1>5. AttachedOK' /\ EndsOK'
  BY <1>1 DEF CursorInv, AttachedOK, EndsOK
<1>6. G!NoSilentGap'
  BY <1>1, GapStill DEF CursorInv
<1> QED BY <1>2, <1>3, <1>4, <1>5, <1>6 DEF CursorInv

\* QQ puts a frame on the line that is not a dispatch.
LEMMA PutKeeps ==
    ASSUME CursorInv, NEW f \in Frames, f.op # "dispatch", line' = line \o <<f>>,
           UNCHANGED <<state, connected, sid, seq, failures, reading, intake, up, sent,
                       joined, stored, announced>>,
           beat' \in BOOLEAN, login' = login \/ login' = << >>,
           attached' = attached \/ attached' = FALSE,
           live' = live \/ (live' = 0 /\ ~attached'),
           ~G!Tasks => f.op = "ack",
           f.op \in {"invalid", "close_fresh"} =>
                /\ login' = << >> /\ ~attached'
                /\ live' = 0 \/ (live' = live /\ joined[live] = 0 /\ reading = << >> /\ NoDispatch)
    PROVE  CursorInv'
<1>1. /\ <<f>> \in Seq(Frames) /\ Len(<<f>>) = 1 /\ <<f>>[1] = f
      /\ sent \in [G!Sessions -> 0..MaxSeq]
      /\ \A s \in G!Sessions : sent[s] <= sent[s]
  <2>1. sent \in [G!Sessions -> 0..MaxSeq]
    BY DEF CursorInv, ShardTypes
  <2>2. \A s \in G!Sessions : sent[s] \in Nat
    BY <2>1, TransportAssumption
  <2> QED BY <2>1, <2>2
<1>2. /\ line' \in Seq(Frames) /\ Len(line') = Len(line) + 1 /\ Len(line) \in Nat
      /\ \A i \in 1..Len(line) : line'[i] = line[i]
      /\ line'[Len(line) + 1] = f
      /\ \A i \in 1..Len(line), g \in G!Envelopes : line'[i] = g => EntryOK(g, i)'
      /\ \A s, p : Brought(s, p) => Brought(s, p)'
  <2>1. PICK l \in Seq(Frames) : l = <<f>> /\ Len(l) = 1 /\ l[1] = f
    BY <1>1
  <2>2. line' = line \o l /\ sent' \in [G!Sessions -> 0..MaxSeq]
        /\ \A s \in G!Sessions : NoDispatch \/ sent[s] <= sent'[s]
    BY <1>1, <2>1
  <2>3. 1 \in 1..Len(l)
    BY <2>1
  <2>4. /\ line' \in Seq(Frames) /\ Len(line') = Len(line) + Len(l) /\ Len(line) \in Nat
        /\ \A i \in 1..Len(line) : line'[i] = line[i]
        /\ \A i \in 1..Len(l) : line'[Len(line) + i] = l[i]
        /\ \A i \in 1..Len(line), g \in G!Envelopes : line'[i] = g => EntryOK(g, i)'
        /\ \A s, p : Brought(s, p) => Brought(s, p)'
    BY <2>2, LineGrows
  <2> QED BY <2>1, <2>3, <2>4
<1>3. \A i \in 1..Len(line') : i \in 1..Len(line) \/ (i = Len(line) + 1 /\ line'[i] = f)
  BY <1>2
<1>4. ShardTypes'
  <2>1. live' \in 0..MaxSessions
    BY TransportAssumption DEF CursorInv, ShardTypes
  <2>2. attached' \in BOOLEAN
    BY DEF CursorInv, ShardTypes
  <2> QED BY <1>2, <2>1, <2>2 DEF CursorInv, ShardTypes
<1>5. NoDispatch => NoDispatch'
  BY <1>2, <1>3 DEF NoDispatch
<1>6. G!Tasks' = G!Tasks
  BY DEF G!Tasks
<1>7. LinkOK'
  <2>1. ~G!Tasks => \A i \in 1..Len(line') : line'[i].op \in {"hello", "ack"}
    BY <1>2, <1>3 DEF CursorInv, LinkOK
  <2>2. login' # << >> => login' = <<sid, seq>> /\ ~attached' /\ reading = << >> /\ NoDispatch'
    BY <1>5 DEF CursorInv, LinkOK
  <2>3. ~G!Tasks => login' = << >> /\ ~attached'
    BY DEF CursorInv, LinkOK
  <2> QED BY <1>6, <2>1, <2>2, <2>3 DEF CursorInv, LinkOK
<1>8. ReadOK'
  BY DEF CursorInv, ReadOK
<1>9. LineOK'
  <2> SUFFICES ASSUME NEW i \in 1..Len(line'), NEW g \in G!Envelopes, line'[i] = g
               PROVE  EntryOK(g, i)'
    BY DEF LineOK
  <2>1. g # f
    BY EnvelopeIs
  <2> QED BY <1>2, <1>3, <2>1
<1>10. AttachedOK'
  BY <1>2 DEF CursorInv, AttachedOK
<1>11. LiveOK'
  BY DEF CursorInv, LiveOK
<1>12. EndsOK'
  <2>1. CASE \E i \in 1..Len(line) : line[i].op \in {"invalid", "close_fresh"}
    BY <1>5, <2>1 DEF CursorInv, EndsOK
  <2>2. CASE f.op \in {"invalid", "close_fresh"}
    BY <1>5, <2>2 DEF EndsOK
  <2>3. (\E i \in 1..Len(line') : line'[i].op \in {"invalid", "close_fresh"})
        => \/ \E i \in 1..Len(line) : line[i].op \in {"invalid", "close_fresh"}
           \/ f.op \in {"invalid", "close_fresh"}
    BY <1>2, <1>3
  <2> QED BY <2>1, <2>2, <2>3 DEF EndsOK
<1>13. G!NoSilentGap'
  BY GapStill DEF CursorInv
<1> QED BY <1>4, <1>7, <1>8, <1>9, <1>10, <1>11, <1>12, <1>13 DEF CursorInv

LEMMA BeatsKeep ==
    ASSUME CursorInv, G!AnswerBeat \/ G!AsksBeat \/ G!Closing
    PROVE  CursorInv'
<1>1. CASE G!AnswerBeat
  <2>1. /\ line' = line \o <<G!Frame("ack")>> /\ beat' = FALSE
        /\ UNCHANGED <<state, connected, sid, seq, failures, reading, intake, up, sent,
                       joined, stored, announced, login, live, attached>>
    BY <1>1 DEF G!AnswerBeat, G!Put, G!clientVars, G!history
  <2>2. G!Frame("ack") \in Frames /\ G!Frame("ack").op = "ack"
    BY PlainIs DEF G!FrameOps
  <2> QED BY <2>1, <2>2, PutKeeps
<1>2. CASE G!AsksBeat
  <2>1. /\ line' = line \o <<G!Frame("beat")>> /\ attached
        /\ UNCHANGED <<state, connected, sid, seq, failures, reading, intake, up, sent,
                       joined, stored, announced, login, live, attached, beat>>
    BY <1>2 DEF G!AsksBeat, G!Put, G!clientVars, G!history
  <2>2. G!Frame("beat") \in Frames /\ G!Frame("beat").op = "beat"
    BY PlainIs DEF G!FrameOps
  <2>3. G!Tasks /\ beat \in BOOLEAN
    BY <2>1 DEF CursorInv, LinkOK, ShardTypes
  <2> QED BY <2>1, <2>2, <2>3, PutKeeps
<1>3. CASE G!Closing
  <2>1. PICK op \in G!FrameOps \ {"hello", "ack", "beat"} :
              /\ line' = line \o <<G!Frame(op)>>
              /\ live' = IF op \in {"invalid", "close_fresh", "close_fatal"} THEN 0 ELSE live
    BY <1>3 DEF G!Closing, G!Put, G!None
  <2>2. /\ attached' = FALSE /\ login' = << >> /\ beat' = FALSE /\ up = "open"
        /\ state # "connecting" /\ state # "waiting_identify"
        /\ UNCHANGED <<state, connected, sid, seq, failures, reading, intake, up, sent,
                       joined, stored, announced>>
    BY <1>3 DEF G!Closing, G!clientVars, G!history
  <2>3. G!Frame(op) \in Frames /\ G!Frame(op).op = op /\ op # "dispatch"
    BY PlainIs
  <2>4. G!Tasks
    BY <2>2 DEF CursorInv, LinkOK
  <2> QED BY <2>1, <2>2, <2>3, <2>4, PutKeeps
<1> QED BY <1>1, <1>2, <1>3

-----------------------------------------------------------------------------
(* The cursor: an event is read, stored, and counted.                      *)

LEMMA ReadDispatchKeeps ==
    ASSUME CursorInv, G!ReadDispatch
    PROVE  CursorInv'
<1>1. PICK e \in G!Envelopes : /\ Head(line) = e /\ line # << >> /\ line[1] = e
                               /\ 1 \in 1..Len(line)
  <2>1. line \in Seq(Frames) /\ line # << >> /\ Head(line).op = "dispatch"
    BY DEF G!ReadDispatch, G!Take, CursorInv, ShardTypes
  <2>2. Head(line) = line[1] /\ line[1] \in Frames /\ 1 \in 1..Len(line)
    BY <2>1, TailIs
  <2> QED BY <2>1, <2>2, FrameIs DEF G!FrameOps, G!Closes
<1>2. /\ e.op = "dispatch" /\ e.s \in G!Sessions /\ e.q \in Nat /\ e.q >= 1
      /\ e.t \in {"READY", "RESUMED", "event"} /\ e.s # 0
  BY EnvelopeIs DEF G!Sessions
<1>3. EntryOK(e, 1)
  BY <1>1 DEF CursorInv, LineOK
<1>4. /\ reading = << >> /\ G!Tasks /\ G!Tasks' = G!Tasks
      /\ line' = Tail(line) /\ reading' = <<e, "queued">> /\ intake' = Append(intake, e)
      /\ seq' = IF e.t = "READY" THEN 0 ELSE seq
      /\ UNCHANGED <<state, connected, sid, failures, up, login, beat, live, attached, sent,
                     stored, joined, announced>>
  BY <1>1 DEF G!ReadDispatch, G!Accept, G!Take, G!Tasks, G!history, G!None
<1>5. seq' = seq
  BY <1>3, <1>4 DEF EntryOK, CursorInv, LinkOK
<1>6. reading' # << >> /\ reading'[1] = e /\ reading'[2] = "queued"
  BY <1>4
<1>7. /\ LineOK' /\ line' \in Seq(Frames) /\ Len(line') = Len(line) - 1
      /\ \A i \in 1..Len(line') : i + 1 \in 1..Len(line) /\ line'[i] = line[i + 1]
      /\ \A s, p : Brought(s, p) => Brought(s, p)'
  <2>1. \A s, p : Known(s, p) \/ Shows(line[1], s, p) => Known(s, p)'
    BY <1>1, <1>4, <1>5, <1>6 DEF Known, Shows
  <2> QED BY <1>1, <1>2, <1>4, <2>1, LineTail
<1>8. intake' \in Seq(G!Envelopes) /\ intake' # << >> /\ intake'[Len(intake')] = e
  <2>1. intake \in Seq(G!Envelopes)
    BY DEF CursorInv, ShardTypes
  <2> QED BY <1>4, <2>1
<1>9. ShardTypes'
  <2>1. reading' \in G!Envelopes \X Fates
    BY <1>4 DEF Fates
  <2> QED BY <1>4, <1>5, <1>7, <1>8, <2>1 DEF CursorInv, ShardTypes
<1>10. login = << >>
  BY <1>1, <1>2 DEF CursorInv, LinkOK, NoDispatch
<1>11. LinkOK'
  BY <1>4, <1>5, <1>10 DEF CursorInv, LinkOK
<1>12. ReadOK'
  <2>1. e.t = "event" => sid = e.s /\ e.q <= seq + 1
    <3> SUFFICES ASSUME e.t = "event" PROVE sid = e.s /\ e.q <= seq + 1
      OBVIOUS
    <3>1. e.q > 1 /\ e.q - 1 \in 1..e.q /\ e.q - 1 < e.q
      BY <1>2, <1>3 DEF EntryOK
    <3>2. Covered(e.s, e.q - 1, 1)
      BY <1>3, <3>1 DEF EntryOK
    <3>3. sid = e.s /\ e.q - 1 <= seq
      BY <1>4, <3>2 DEF Covered, Known
    <3>4. seq \in Nat
      BY TransportAssumption DEF CursorInv, ShardTypes
    <3> QED BY <1>2, <3>3, <3>4
  <2>2. e.t = "RESUMED" => sid = e.s /\ e.q <= seq
    <3> SUFFICES ASSUME e.t = "RESUMED" PROVE sid = e.s /\ e.q <= seq
      OBVIOUS
    <3>1. e.q \in 1..e.q
      BY <1>2
    <3>2. Covered(e.s, e.q, 1)
      BY <1>3, <3>1 DEF EntryOK
    <3> QED BY <1>4, <3>2 DEF Covered, Known
  <2>3. e.q <= sent[e.s] /\ (e.t = "READY" => e.q = 1 /\ sid = 0)
    BY <1>3 DEF EntryOK
  <2> QED BY <1>4, <1>5, <1>6, <1>8, <2>1, <2>2, <2>3 DEF ReadOK
<1>13. AttachedOK'
  BY <1>4, <1>7 DEF CursorInv, AttachedOK
<1>14. LiveOK'
  BY <1>4, <1>5 DEF CursorInv, LiveOK
<1>15. EndsOK'
  <2>1. ~NoDispatch
    BY <1>1, <1>2 DEF NoDispatch
  <2> QED BY <1>4, <1>7, <2>1 DEF CursorInv, EndsOK
<1>16. G!NoSilentGap'
  BY <1>4, <1>5, GapStill DEF CursorInv
<1> QED BY <1>7, <1>9, <1>11, <1>12, <1>13, <1>14, <1>15, <1>16 DEF CursorInv

LEMMA StoreKeeps ==
    ASSUME CursorInv, G!Store
    PROVE  CursorInv'
<1> DEFINE e == Head(intake)
<1>1. /\ intake # << >> /\ intake' = Tail(intake) /\ intake \in Seq(G!Envelopes)
      /\ UNCHANGED <<state, connected, sid, seq, failures, up, line, login, beat, live,
                     attached, sent, joined, announced>>
  BY DEF G!Store, G!qqVars, CursorInv, ShardTypes
<1>2. /\ e \in G!Envelopes /\ e = intake[1] /\ intake' \in Seq(G!Envelopes)
      /\ Len(intake') = Len(intake) - 1 /\ Len(intake) >= 1 /\ Len(intake) \in Nat
      /\ \A i \in 1..Len(intake') : intake'[i] = intake[i + 1]
  BY <1>1, TailIs
<1>3. e.s \in G!Sessions /\ e.q \in 1..MaxSeq
  BY <1>2, EnvelopeIs
<1>4. \/ /\ stored' = stored \cup {<<e.s, e.q>>}
         /\ reading' = IF reading # << >> /\ Len(intake) = 1 THEN <<e, "stored">> ELSE reading
      \/ /\ stored' = stored
         /\ reading' = IF reading # << >> /\ Len(intake) = 1 THEN <<e, "failed">> ELSE reading
  BY DEF G!Store
<1> HIDE DEF e
<1>5. reading # << >> => reading[2] = "queued" /\ intake[Len(intake)] = reading[1]
  BY <1>1 DEF CursorInv, ReadOK
<1>6. /\ stored \subseteq stored' /\ (reading' = << >> <=> reading = << >>)
      /\ reading # << >> => reading'[1] = reading[1]
  BY <1>2, <1>4, <1>5
<1>7. ShardTypes'
  <2>1. stored' \subseteq G!Sessions \X (1..MaxSeq)
    BY <1>3, <1>4 DEF CursorInv, ShardTypes
  <2>2. reading' = << >> \/ reading' \in G!Envelopes \X Fates
    BY <1>2, <1>4 DEF CursorInv, ShardTypes, Fates
  <2> QED BY <1>1, <1>2, <2>1, <2>2 DEF CursorInv, ShardTypes
<1>8. LinkOK'
  BY <1>1, <1>6 DEF CursorInv, LinkOK, NoDispatch, G!Tasks
<1>9. ReadOK'
  <2> SUFFICES ASSUME reading # << >> PROVE ReadOK'
    BY <1>6 DEF ReadOK
  <2>1. CASE Len(intake) = 1
    <3>1. intake' = << >> /\ reading'[2] \in {"stored", "failed"} /\ reading[1] = e
      BY <1>2, <1>4, <1>5, <2>1
    <3>2. reading'[2] = "stored" => <<reading[1].s, reading[1].q>> \in stored'
      BY <1>4, <2>1, <3>1
    <3> QED BY <1>1, <1>6, <3>1, <3>2 DEF CursorInv, ReadOK
  <2>2. CASE Len(intake) # 1
    <3>1. reading' = reading /\ Len(intake') \in 1..Len(intake') /\ Len(intake') + 1 = Len(intake)
      BY <1>2, <1>4, <2>2
    <3>2. intake' # << >> /\ intake'[Len(intake')] = intake[Len(intake)]
      BY <1>2, <3>1
    <3> QED BY <1>1, <1>5, <3>1, <3>2 DEF CursorInv, ReadOK
  <2> QED BY <2>1, <2>2
<1>10. LineOK'
  <2>1. ASSUME NEW s, NEW p, NEW k, Covered(s, p, k) PROVE Covered(s, p, k)'
    BY <1>1, <1>6, <2>1 DEF Covered, Known, Shows
  <2>2. ASSUME NEW f, NEW i, EntryOK(f, i) PROVE EntryOK(f, i)'
    BY <1>1, <1>6, <2>1, <2>2 DEF EntryOK
  <2> QED BY <1>1, <2>2 DEF CursorInv, LineOK
<1>11. AttachedOK'
  BY <1>1, <1>6 DEF CursorInv, AttachedOK, Brought, Known, Shows
<1>12. LiveOK' /\ EndsOK'
  BY <1>1, <1>6 DEF CursorInv, LiveOK, EndsOK, NoDispatch
<1>13. G!NoSilentGap'
  BY <1>1, <1>6 DEF CursorInv, G!NoSilentGap, G!Emitted, G!Owed
<1> QED BY <1>7, <1>8, <1>9, <1>10, <1>11, <1>12, <1>13 DEF CursorInv

LEMMA StoredKeeps ==
    ASSUME CursorInv, G!Stored
    PROVE  CursorInv'
<1>1. PICK e \in G!Envelopes : reading[1] = e
  BY DEF G!Stored, CursorInv, ShardTypes
<1>2. /\ e.s \in G!Sessions /\ e.s # 0 /\ e.q \in Nat /\ e.q >= 1 /\ e.q \in 1..MaxSeq
      /\ e.t \in {"READY", "RESUMED", "event"} /\ e.op = "dispatch"
  BY EnvelopeIs DEF G!Sessions
<1>3. /\ reading # << >> /\ G!Tasks /\ login = << >> /\ <<e.s, e.q>> \in stored
      /\ e.q <= sent[e.s]
      /\ e.t = "READY" => e.q = 1 /\ sid = 0 /\ seq = 0
      /\ e.t = "event" => sid = e.s /\ e.q <= seq + 1
      /\ e.t = "RESUMED" => sid = e.s /\ e.q <= seq
  BY <1>1 DEF G!Stored, CursorInv, LinkOK, ReadOK
<1>4. /\ seq \in 0..MaxSeq /\ seq \in Nat /\ sid \in 0..MaxSessions
      /\ sent \in [G!Sessions -> 0..MaxSeq] /\ joined \in [G!Sessions -> 0..MaxSeq]
      /\ \A s \in G!Sessions : sent[s] \in Nat /\ joined[s] \in Nat
  <2>1. /\ seq \in 0..MaxSeq /\ sid \in 0..MaxSessions
        /\ sent \in [G!Sessions -> 0..MaxSeq] /\ joined \in [G!Sessions -> 0..MaxSeq]
    BY DEF CursorInv, ShardTypes
  <2> QED BY <2>1, TransportAssumption
<1>5. /\ seq' = IF e.q > seq THEN e.q ELSE seq
      /\ sid' = IF e.t = "READY" THEN e.s ELSE sid
      /\ connected' = (connected \/ e.t \in {"READY", "RESUMED"})
      /\ state' = IF e.t \in {"READY", "RESUMED"} THEN "online" ELSE state
      /\ joined' = IF e.t \in {"READY", "RESUMED"} /\ joined[e.s] = 0
                   THEN [joined EXCEPT ![e.s] = sent[e.s]] ELSE joined
      /\ reading' = << >>
      /\ UNCHANGED <<failures, intake, G!timerVars, G!qqVars, stored, announced>>
  <2>1. ~(e.t = "RESUMED" /\ sid = 0)
    BY <1>2, <1>3
  <2> QED BY <1>1, <2>1 DEF G!Stored, G!None
<1>6. UNCHANGED <<up, line, login, beat, live, attached, sent>>
  BY <1>5 DEF G!qqVars
<1>7. /\ sid' \in 0..MaxSessions /\ seq' \in 0..MaxSeq /\ seq <= seq' /\ e.q <= seq' /\ seq' \in Nat
      /\ sid' # 0 /\ seq' # 0 /\ sid' = e.s
      /\ e.t # "READY" => sid' = sid
  <2>1. e.s \in 0..MaxSessions
    BY <1>2, TransportAssumption DEF G!Sessions
  <2>2. e.t # "READY" => sid = e.s
    BY <1>2, <1>3
  <2>3. sid' = e.s /\ (e.t # "READY" => sid' = sid)
    BY <1>5, <2>2
  <2>4. seq' = e.q \/ seq' = seq
    BY <1>5
  <2>5. seq' \in 0..MaxSeq /\ seq' \in Nat
    BY <1>2, <1>4, <2>4
  <2>6. seq <= seq' /\ e.q <= seq'
    BY <1>2, <1>4, <1>5
  <2>7. seq' # 0
    BY <1>2, <2>5, <2>6
  <2> QED BY <1>2, <2>1, <2>3, <2>5, <2>6, <2>7
<1>8. \A s \in G!Sessions : joined'[s] = joined[s] \/ (s = e.s /\ joined'[s] = sent[s] /\ joined[s] = 0)
  BY <1>2, <1>4, <1>5
<1>9. ShardTypes'
  <2>1. joined' \in [G!Sessions -> 0..MaxSeq]
    BY <1>2, <1>4, <1>5
  <2>2. connected' \in BOOLEAN
    BY <1>5
  <2>3. state' \in {"idle", "connecting", "waiting_identify", "authenticating", "online",
                    "backoff", "failed", "stopped"}
    BY <1>5 DEF CursorInv, ShardTypes
  <2>4. reading' = << >>
    BY <1>5
  <2> QED BY <1>5, <1>6, <1>7, <2>1, <2>2, <2>3, <2>4 DEF CursorInv, ShardTypes
<1>10. LinkOK'
  <2>1. G!Tasks'
    BY <1>3, <1>5 DEF G!Tasks
  <2> QED BY <1>3, <1>5, <1>6, <1>7, <2>1 DEF LinkOK
<1>11. ReadOK'
  BY <1>5 DEF ReadOK
<1>12. ASSUME NEW s \in G!Sessions, NEW p \in Nat, Known(s, p) PROVE Known(s, p)'
  <2>1. CASE sid = s /\ p <= seq
    <3>1. sid' = sid
      BY <1>2, <1>3, <1>7, <2>1 DEF G!Sessions
    <3> QED BY <1>4, <1>7, <2>1, <3>1 DEF Known
  <2>2. CASE Shows(e, s, p)
    BY <1>2, <1>7, <2>2 DEF Known, Shows
  <2> QED BY <1>1, <1>12, <2>1, <2>2 DEF Known
<1>13. LineOK'
  <2> SUFFICES ASSUME NEW i \in 1..Len(line), NEW f \in G!Envelopes, line[i] = f
               PROVE  EntryOK(f, i)'
    BY <1>6 DEF LineOK
  <2>1. EntryOK(f, i) /\ i \in Nat /\ f.s \in G!Sessions
    BY EnvelopeIs DEF CursorInv, LineOK
  <2>2. f.t # "READY"
    BY <1>3, <2>1 DEF EntryOK
  <2>3. \A p \in Nat : Covered(f.s, p, i) => Covered(f.s, p, i)'
    BY <1>6, <1>12, <2>1, CoveredKept
  <2>4. sent[f.s] \in Nat /\ sent'[f.s] = sent[f.s]
    BY <1>4, <1>6, <2>1
  <2> QED BY <2>1, <2>2, <2>3, <2>4, EntryMoves
<1>14. AttachedOK'
  <2> SUFFICES ASSUME NEW s \in G!Sessions, NEW p \in 1..MaxSeq, Brought(s, p)
               PROVE  Brought(s, p)'
    BY <1>6 DEF CursorInv, AttachedOK
  <2>1. p \in Nat
    BY TransportAssumption
  <2> QED BY <1>6, <1>12, <2>1 DEF Brought, Shows
<1>15. LiveOK'
  <2> SUFFICES ASSUME live # 0
               PROVE  /\ sent[live] # 0 /\ (sid' = live => seq' <= sent[live])
                      /\ (joined'[live] # 0 => sid' = live)
    BY <1>6 DEF LiveOK
  <2>1. live \in G!Sessions
    BY TransportAssumption DEF CursorInv, ShardTypes, G!Sessions
  <2>2. sent[live] # 0 /\ (sid = live => seq <= sent[live]) /\ (joined[live] # 0 => sid = live)
    BY DEF CursorInv, LiveOK
  <2>3. sid' = live => seq' <= sent[live]
    BY <1>2, <1>3, <1>4, <1>5, <1>7, <2>1, <2>2
  <2>4. joined'[live] # 0 => sid' = live
    BY <1>2, <1>3, <1>7, <1>8, <2>1, <2>2
  <2> QED BY <2>2, <2>3, <2>4
<1>16. EndsOK'
  BY <1>3, <1>6 DEF CursorInv, EndsOK
<1>17. G!NoSilentGap'
  <2> SUFFICES ASSUME NEW x \in G!Sessions \X (1..MaxSeq), x[2] <= sent[x[1]],
                      joined'[x[1]] # 0, x[2] > joined'[x[1]], x \notin stored \cup announced
               PROVE  sid' = x[1] /\ seq' < x[2]
    BY <1>5, <1>6, <1>7 DEF G!NoSilentGap, G!Emitted, G!Owed
  <2>1. x[1] \in G!Sessions /\ x[2] \in 1..MaxSeq /\ x[2] \in Nat /\ x = <<x[1], x[2]>> /\ x[1] # 0
    BY TransportAssumption DEF G!Sessions
  <2>2. joined'[x[1]] = joined[x[1]]
    BY <1>4, <1>8, <2>1
  <2>3. sid = x[1] /\ (seq = 0 \/ seq < x[2])
    BY <2>2, EmittedIs DEF CursorInv, G!NoSilentGap, G!Owed, G!None
  <2>4. e.t # "READY" /\ sid' = sid /\ seq < x[2]
    BY <1>3, <1>7, <2>1, <2>3 DEF CursorInv, LinkOK
  <2>5. e.q # x[2]
    BY <1>3, <1>7, <2>1, <2>3, <2>4
  <2>6. seq' < x[2]
    BY <1>2, <1>3, <1>4, <1>5, <2>1, <2>4, <2>5
  <2> QED BY <2>3, <2>4, <2>6
<1> QED BY <1>9, <1>10, <1>11, <1>13, <1>14, <1>15, <1>16, <1>17 DEF CursorInv

-----------------------------------------------------------------------------
(* The cursor: QQ answers a login, and events happen.                      *)

LEMMA LoginFacts ==
    ASSUME CursorInv, G!AnswerLogin
    PROVE  /\ login = <<sid, seq>> /\ ~attached /\ reading = << >> /\ NoDispatch /\ G!Tasks
           /\ ~(\E i \in 1..Len(line) : line[i].op \in {"invalid", "close_fresh"})
           /\ login' = << >>
           /\ UNCHANGED <<state, connected, sid, seq, failures, reading, intake, up, beat,
                          joined>>
BY DEF G!AnswerLogin, CursorInv, LinkOK, EndsOK, G!clientVars

\* A new session: READY is the first frame of it.
LEMMA IdentifyKeeps ==
    ASSUME CursorInv, G!AnswerLogin, sid = 0, NEW n \in G!Sessions, joined[n] = 0,
           live' = n, sent' = [sent EXCEPT ![n] = 1],
           stored' = {e \in stored : e[1] # n}, announced' = {e \in announced : e[1] # n},
           line' = line \o <<G!Dispatch("READY", n, 1)>>, attached' = TRUE
    PROVE  CursorInv'
<1>1. /\ login = <<sid, seq>> /\ ~attached /\ reading = << >> /\ NoDispatch /\ G!Tasks
      /\ ~(\E i \in 1..Len(line) : line[i].op \in {"invalid", "close_fresh"})
      /\ login' = << >>
      /\ UNCHANGED <<state, connected, sid, seq, failures, reading, intake, up, beat, joined>>
  BY LoginFacts
<1>2. PICK f \in G!Envelopes : f = G!Dispatch("READY", n, 1)
  BY DispatchIs, TransportAssumption
<1>3. f.op = "dispatch" /\ f.t = "READY" /\ f.s = n /\ f.q = 1 /\ f \in Frames
  BY <1>2, DispatchIs, TransportAssumption
<1>4. /\ sent \in [G!Sessions -> 0..MaxSeq] /\ sent' \in [G!Sessions -> 0..MaxSeq]
      /\ sent'[n] = 1 /\ n # 0 /\ n \in 0..MaxSessions
  <2>1. sent \in [G!Sessions -> 0..MaxSeq]
    BY DEF CursorInv, ShardTypes
  <2>2. 1 \in 0..MaxSeq
    BY TransportAssumption
  <2>3. n # 0 /\ n \in 0..MaxSessions
    BY TransportAssumption DEF G!Sessions
  <2> QED BY <2>1, <2>2, <2>3
<1>5. /\ line' \in Seq(Frames) /\ Len(line') = Len(line) + 1 /\ Len(line) \in Nat
      /\ \A i \in 1..Len(line) : line'[i] = line[i]
      /\ line'[Len(line) + 1] = f
      /\ \A i \in 1..Len(line), g \in G!Envelopes : line'[i] = g => EntryOK(g, i)'
  <2>1. PICK l \in Seq(Frames) : l = <<f>> /\ Len(l) = 1 /\ l[1] = f
    BY <1>3, Singleton
  <2>2. line' = line \o l /\ \A s \in G!Sessions : NoDispatch \/ sent[s] <= sent'[s]
    BY <1>1, <1>2, <2>1
  <2>3. 1 \in 1..Len(l)
    BY <2>1
  <2>4. /\ line' \in Seq(Frames) /\ Len(line') = Len(line) + Len(l) /\ Len(line) \in Nat
        /\ \A i \in 1..Len(line) : line'[i] = line[i]
        /\ \A i \in 1..Len(l) : line'[Len(line) + i] = l[i]
        /\ \A i \in 1..Len(line), g \in G!Envelopes : line'[i] = g => EntryOK(g, i)'
    BY <1>1, <1>4, <2>2, LineGrows
  <2> QED BY <2>1, <2>3, <2>4
<1>6. \A i \in 1..Len(line') : i \in 1..Len(line) \/ (i = Len(line) + 1 /\ line'[i] = f)
  BY <1>5
<1>7. ShardTypes'
  <2>1. /\ stored' \subseteq G!Sessions \X (1..MaxSeq)
        /\ announced' \subseteq G!Sessions \X (1..MaxSeq)
    BY DEF CursorInv, ShardTypes
  <2>2. live' \in 0..MaxSessions /\ attached' \in BOOLEAN
    BY <1>4
  <2> QED BY <1>1, <1>4, <1>5, <2>1, <2>2 DEF CursorInv, ShardTypes
<1>8. LinkOK'
  BY <1>1 DEF CursorInv, LinkOK, G!Tasks
<1>9. ReadOK'
  BY <1>1 DEF ReadOK
<1>10. LineOK'
  <2> SUFFICES ASSUME NEW i \in 1..Len(line'), i \notin 1..Len(line) PROVE EntryOK(f, i)'
    BY <1>5, <1>6 DEF LineOK
  <2>1. i = Len(line) + 1 /\ 1..(i - 1) \subseteq 1..Len(line)
    BY <1>5, <1>6
  <2>2. \A j \in 1..(i - 1) : line'[j].op # "dispatch"
    BY <1>1, <1>5, <2>1 DEF NoDispatch
  <2> QED BY <1>1, <1>3, <1>4, <2>2 DEF EntryOK
<1>11. AttachedOK'
  <2>1. Shows(f, n, 1)
    BY <1>3 DEF Shows
  <2>2. Len(line) + 1 \in 1..Len(line')
    BY <1>5
  <2>3. Brought(n, 1)'
    BY <1>5, <2>1, <2>2 DEF Brought, Shows
  <2>4. \A p \in 1..MaxSeq : p <= 1 => p = 1
    BY TransportAssumption
  <2> QED BY <1>4, <2>3, <2>4 DEF AttachedOK
<1>12. LiveOK'
  BY <1>1, <1>4 DEF LiveOK
<1>13. EndsOK'
  BY <1>1, <1>3, <1>5, <1>6 DEF EndsOK
<1>14. G!NoSilentGap'
  <2> SUFFICES ASSUME NEW x \in G!Sessions \X (1..MaxSeq), x[2] <= sent'[x[1]],
                      joined[x[1]] # 0, x[2] > joined[x[1]]
               PROVE  \/ x \in stored' \cup announced'
                      \/ sid = x[1] /\ (seq = 0 \/ seq < x[2])
    BY <1>1 DEF G!NoSilentGap, G!Emitted, G!Owed, G!None
  <2>1. x[1] # n /\ x[1] \in G!Sessions
    OBVIOUS
  <2>2. sent'[x[1]] = sent[x[1]]
    BY <1>4, <2>1
  <2>3. x \in stored \cup announced \/ (sid = x[1] /\ (seq = 0 \/ seq < x[2]))
    BY <2>2, EmittedIs DEF CursorInv, G!NoSilentGap, G!Owed, G!None
  <2> QED BY <2>1, <2>3
<1> QED BY <1>7, <1>8, <1>9, <1>10, <1>11, <1>12, <1>13, <1>14 DEF CursorInv

\* What a Resume brings: the events that follow the cursor, then RESUMED.
Replay(s, q, m) == [i \in 1..(m - q) |-> G!Dispatch("event", s, q + i)]
                   \o <<G!Dispatch("RESUMED", s, m)>>

\* l is the replay of the d events that follow q.
ReplayedAs(l, s, q, d) ==
    /\ l = Replay(s, q, q + d)
    /\ Len(l) = d + 1
    /\ \A i \in 1..d : /\ l[i].op = "dispatch" /\ l[i].t = "event"
                       /\ l[i].s = s /\ l[i].q = q + i
    /\ l[d + 1].op = "dispatch" /\ l[d + 1].t = "RESUMED"
    /\ l[d + 1].s = s /\ l[d + 1].q = q + d

LEMMA ReplayIs ==
    ASSUME NEW s \in G!Sessions, NEW q \in Nat, NEW d \in Nat, q >= 1, q + d <= MaxSeq
    PROVE  \E l \in Seq(Frames) : ReplayedAs(l, s, q, d)
<1> DEFINE ev == [i \in 1..d |-> G!Dispatch("event", s, q + i)]
<1>1. \A i \in 1..d : ev[i] = G!Dispatch("event", s, q + i)
  OBVIOUS
<1>2. ASSUME NEW i \in 1..d
      PROVE  /\ ev[i] \in Frames /\ ev[i].op = "dispatch" /\ ev[i].t = "event"
             /\ ev[i].s = s /\ ev[i].q = q + i
  <2>1. q + i \in 1..MaxSeq
    BY TransportAssumption
  <2> HIDE DEF ev
  <2> QED BY <1>1, <2>1, DispatchIs
<1>3. ev \in [1..d -> Frames]
  BY <1>2
<1> HIDE DEF ev
<1>4. ev \in Seq(Frames) /\ Len(ev) = d
  BY <1>3, FunctionIsSeq
<1>5. PICK last \in Frames : /\ last = G!Dispatch("RESUMED", s, q + d)
                             /\ last.op = "dispatch" /\ last.t = "RESUMED"
                             /\ last.s = s /\ last.q = q + d
  <2>1. q + d \in 1..MaxSeq
    BY TransportAssumption
  <2> QED BY <2>1, DispatchIs
<1>6. PICK z \in Seq(Frames) : z = <<last>> /\ Len(z) = 1 /\ z[1] = last
  BY Singleton
<1>7. /\ ev \o z \in Seq(Frames) /\ Len(ev \o z) = d + 1
      /\ \A i \in 1..d : (ev \o z)[i] = ev[i]
      /\ \A i \in 1..1 : (ev \o z)[d + i] = z[i]
  BY <1>4, <1>6, JoinIs
<1>8. 1 \in 1..1
  OBVIOUS
<1>9. PICK l \in Seq(Frames) : /\ l = ev \o z /\ Len(l) = d + 1 /\ l[d + 1] = last
                               /\ \A i \in 1..d : l[i] = ev[i]
  BY <1>6, <1>7, <1>8
<1>10. l = Replay(s, q, q + d)
  <2>1. (q + d) - q = d
    OBVIOUS
  <2> QED BY <1>5, <1>6, <1>9, <2>1 DEF ev, Replay
<1>11. \A i \in 1..d : /\ l[i].op = "dispatch" /\ l[i].t = "event" /\ l[i].s = s /\ l[i].q = q + i
  BY <1>2, <1>9
<1>12. l[d + 1].op = "dispatch" /\ l[d + 1].t = "RESUMED" /\ l[d + 1].s = s /\ l[d + 1].q = q + d
  BY <1>5, <1>9
<1>13. ReplayedAs(l, s, q, d)
  BY <1>9, <1>10, <1>11, <1>12 DEF ReplayedAs
<1> QED BY <1>13

\* An event up to the last one replayed comes before the end of the replay.
LEMMA BeforeEnd ==
    ASSUME NEW b \in Nat, NEW q \in Nat, NEW d \in Nat, NEW p \in Nat, NEW k \in Nat,
           p <= q + d, k = b + (d + 1) + 1
    PROVE  b + (p - q) < k
  OBVIOUS

LEMMA ReplayKeeps ==
    ASSUME CursorInv, G!AnswerLogin, attached' = TRUE, UNCHANGED <<live, sent, stored, announced>>,
           NEW s \in G!Sessions, NEW q \in Nat, NEW d \in Nat, NEW m \in Nat,
           q >= 1, m = q + d, m <= MaxSeq, sid = s, seq = q, live = s, sent[s] = m,
           NEW l \in Seq(Frames), line' = line \o l, Len(l) = d + 1,
           \A i \in 1..d : /\ l[i].op = "dispatch" /\ l[i].t = "event"
                           /\ l[i].s = s /\ l[i].q = q + i,
           l[d + 1].op = "dispatch", l[d + 1].t = "RESUMED", l[d + 1].s = s, l[d + 1].q = m
    PROVE  CursorInv'
<1>1. /\ login = <<sid, seq>> /\ ~attached /\ reading = << >> /\ NoDispatch /\ G!Tasks
      /\ ~(\E i \in 1..Len(line) : line[i].op \in {"invalid", "close_fresh"})
      /\ login' = << >>
      /\ UNCHANGED <<state, connected, sid, seq, failures, reading, intake, up, beat, joined>>
  BY LoginFacts
<1>2. PICK b \in Nat : b = Len(line)
  BY DEF CursorInv, ShardTypes
<1>3. /\ line' \in Seq(Frames) /\ Len(line') = b + (d + 1)
      /\ \A i \in 1..b : line'[i] = line[i]
      /\ \A i \in 1..(d + 1) : line'[b + i] = l[i]
      /\ \A i \in 1..b, g \in G!Envelopes : line'[i] = g => EntryOK(g, i)'
  <2>1. sent \in [G!Sessions -> 0..MaxSeq]
    BY DEF CursorInv, ShardTypes
  <2>2. /\ sent' \in [G!Sessions -> 0..MaxSeq]
        /\ \A x \in G!Sessions : NoDispatch \/ sent[x] <= sent'[x]
    BY <1>1, <2>1
  <2>3. /\ line' \in Seq(Frames) /\ Len(line') = Len(line) + Len(l) /\ Len(line) \in Nat
        /\ \A i \in 1..Len(line) : line'[i] = line[i]
        /\ \A i \in 1..Len(l) : line'[Len(line) + i] = l[i]
        /\ \A i \in 1..Len(line), g \in G!Envelopes : line'[i] = g => EntryOK(g, i)'
    BY <1>1, <2>2, LineGrows
  <2> QED BY <1>2, <2>3
<1>4. \A i \in 1..Len(line') : \/ i \in 1..b
                               \/ \E j \in 1..d : i = b + j /\ line'[i] = l[j]
                               \/ i = b + (d + 1) /\ line'[i] = l[d + 1]
  <2> SUFFICES ASSUME NEW i \in 1..(b + (d + 1)), i \notin 1..b
               PROVE  \/ \E j \in 1..d : i = b + j /\ line'[i] = l[j]
                      \/ i = b + (d + 1) /\ line'[i] = l[d + 1]
    BY <1>3
  <2>1. i - b \in 1..(d + 1) /\ i = b + (i - b)
    BY SMTT(30)
  <2>2. line'[i] = l[i - b]
    BY <1>3, <2>1
  <2>3. i - b \in 1..d \/ i - b = d + 1
    BY <2>1
  <2> QED BY <2>1, <2>2, <2>3
\* Everything up to an event is known, or replayed before what follows it.
<1>5. ASSUME NEW p \in Nat, p >= 1, NEW k \in Nat, p <= q \/ (p <= m /\ b + (p - q) < k)
      PROVE  Covered(s, p, k)'
  <2>1. CASE p <= q
    <3>1. Known(s, p)'
      BY <1>1, <2>1 DEF Known
    <3> QED BY <3>1 DEF Covered
  <2>2. CASE ~(p <= q)
    <3>1. p - q \in 1..d /\ q + (p - q) = p /\ b + (p - q) \in 1..(k - 1) /\ p - q \in 1..(d + 1)
      BY <1>5, <2>2
    <3>2. line'[b + (p - q)] = l[p - q]
      BY <1>3, <3>1
    <3>3. Shows(l[p - q], s, p)
      BY <3>1 DEF Shows
    <3> QED BY <3>1, <3>2, <3>3 DEF Covered, Shows
  <2> QED BY <2>1, <2>2
<1>6. LineOK'
  <2> SUFFICES ASSUME NEW i \in 1..Len(line'), NEW f \in G!Envelopes, line'[i] = f
               PROVE  EntryOK(f, i)'
    BY DEF LineOK
  <2>1. CASE i \in 1..b
    BY <1>3, <2>1
  <2>2. ASSUME NEW j \in 1..d, i = b + j, line'[i] = l[j] PROVE EntryOK(f, i)'
    <3>1. /\ f.t = "event" /\ f.s = s /\ f.q = q + j /\ i \in Nat /\ j \in Nat
          /\ f.q \in Nat /\ f.q <= m /\ f.q > 1
      <4>1. f = l[j]
        BY <2>2, Zenon
      <4>3. j \in Nat /\ i \in Nat
        BY <2>2
      <4>2. f.t = "event" /\ f.s = s /\ f.q = q + j
        BY <4>1
      <4> QED BY SMTT(30), <4>1, <4>2, <4>3
    <3>2. \A p \in 1..f.q : p < f.q => Covered(f.s, p, i)'
      <4> SUFFICES ASSUME NEW p \in 1..f.q, p < f.q PROVE Covered(f.s, p, i)'
        OBVIOUS
      <4>1. p \in Nat /\ p >= 1 /\ p <= m /\ b + (p - q) < i
        BY <2>2, <3>1
      <4> QED BY <1>5, <3>1, <4>1
    <3>3. f.q <= sent'[f.s]
      BY <3>1
    <3> QED BY <3>1, <3>2, <3>3 DEF EntryOK
  <2>3. CASE i = b + (d + 1) /\ line'[i] = l[d + 1]
    <3>1. f.t = "RESUMED" /\ f.s = s /\ f.q = m /\ i \in Nat
      <4>1. f = l[d + 1]
        BY <2>3, Zenon
      <4>2. i \in Nat
        BY <2>3
      <4> QED BY <4>1, <4>2
    <3>2. \A p \in 1..f.q : Covered(f.s, p, i)'
      <4> SUFFICES ASSUME NEW p \in 1..f.q PROVE Covered(f.s, p, i)'
        OBVIOUS
      <4>1. p \in Nat /\ p >= 1 /\ p <= m /\ b + (p - q) < i
        BY <2>3, <3>1
      <4> QED BY <1>5, <3>1, <4>1
    <3>3. f.q <= sent'[f.s]
      BY <3>1
    <3> QED BY <3>1, <3>2, <3>3 DEF EntryOK
  <2> QED BY <1>4, <2>1, <2>2, <2>3
<1>7. AttachedOK'
  <2>1. ASSUME NEW p \in 1..MaxSeq, p <= m PROVE Brought(s, p)'
    <3>1. PICK k \in Nat : k = b + (d + 1) + 1
      OBVIOUS
    <3>2. p \in Nat /\ p >= 1
      BY <2>1, TransportAssumption
    <3>5. b + (p - q) < k
      BY <2>1, <3>1, <3>2, BeforeEnd
    <3>3. Covered(s, p, k)'
      BY <1>5, <2>1, <3>1, <3>2, <3>5
    <3>4. 1..(k - 1) = 1..Len(line')
      BY <1>3, <3>1
    <3> QED BY <3>3, <3>4 DEF Covered, Brought, Shows
  <2>2. s # 0
    BY DEF G!Sessions
  <2> QED BY <2>1, <2>2 DEF AttachedOK
<1>8. ShardTypes'
  <2>1. attached' \in BOOLEAN
    OBVIOUS
  <2> QED BY <1>1, <1>3, <2>1 DEF CursorInv, ShardTypes
<1>9. LinkOK' /\ ReadOK'
  BY <1>1 DEF CursorInv, LinkOK, ReadOK, G!Tasks
<1>10. LiveOK'
  BY <1>1 DEF CursorInv, LiveOK
<1>11. EndsOK'
  <2>1. ASSUME NEW i \in 1..Len(line') PROVE line'[i].op \notin {"invalid", "close_fresh"}
    BY <1>1, <1>2, <1>3, <1>4
  <2> QED BY <2>1 DEF EndsOK
<1>12. G!NoSilentGap'
  BY <1>1, GapStill DEF CursorInv
<1> QED BY <1>6, <1>7, <1>8, <1>9, <1>10, <1>11, <1>12 DEF CursorInv

\* The replayed frames are what QQ puts on the line.
LEMMA ResumeKeeps ==
    ASSUME CursorInv, G!AnswerLogin, sid # 0, live = sid, attached' = TRUE,
           UNCHANGED <<live, sent, stored, announced>>,
           line' = line \o Replay(sid, seq, sent[sid])
    PROVE  CursorInv'
<1>1. PICK s \in G!Sessions, q \in Nat, m \in Nat :
            s = sid /\ q = seq /\ m = sent[sid] /\ m <= MaxSeq
  <2>1. sid \in G!Sessions /\ seq \in Nat
    BY TransportAssumption DEF CursorInv, ShardTypes, G!Sessions
  <2>2. sent[sid] \in 0..MaxSeq
    BY <2>1 DEF CursorInv, ShardTypes
  <2>3. sent[sid] \in Nat /\ sent[sid] <= MaxSeq
    BY <2>2, TransportAssumption
  <2> QED BY <2>1, <2>3
<1>2. q >= 1 /\ q <= m /\ sent[s] = m /\ live = s
  <2>1. q # 0 /\ q <= m
    BY <1>1 DEF CursorInv, LinkOK, LiveOK
  <2> QED BY <1>1, <2>1
<1>3. PICK d \in Nat : d = m - q /\ m = q + d
  BY <1>2
<1>4. PICK l \in Seq(Frames) : ReplayedAs(l, s, q, d)
  <2>1. q >= 1
    BY <1>2
  <2>2. q + d <= MaxSeq
    BY <1>1, <1>3
  <2>3. s \in G!Sessions /\ q \in Nat /\ d \in Nat
    BY <1>1, <1>3
  <2> QED BY <2>1, <2>2, <2>3, ReplayIs, Zenon
<1>5. line' = line \o l
  <2>1. l = Replay(s, q, q + d)
    BY <1>4 DEF ReplayedAs
  <2> QED BY <1>1, <1>3, <2>1
<1>6. /\ sid = s /\ seq = q /\ m = q + d /\ m <= MaxSeq /\ q >= 1 /\ live = s /\ sent[s] = m
  BY <1>1, <1>2, <1>3
<1>7. /\ Len(l) = d + 1
      /\ \A i \in 1..d : /\ l[i].op = "dispatch" /\ l[i].t = "event"
                         /\ l[i].s = s /\ l[i].q = q + i
      /\ l[d + 1].op = "dispatch" /\ l[d + 1].t = "RESUMED"
      /\ l[d + 1].s = s /\ l[d + 1].q = m
  BY <1>3, <1>4 DEF ReplayedAs
<1> QED BY SMTT(30), <1>5, <1>6, <1>7, ReplayKeeps

LEMMA AnswerLoginKeeps ==
    ASSUME CursorInv, G!AnswerLogin
    PROVE  CursorInv'
<1>1. /\ login = <<sid, seq>> /\ ~attached /\ reading = << >> /\ NoDispatch /\ G!Tasks
      /\ login' = << >>
      /\ UNCHANGED <<state, connected, sid, seq, failures, reading, intake, up, beat, joined>>
  BY LoginFacts
<1>2. login[1] = sid /\ login[2] = seq
  BY <1>1
<1>3. CASE sid = 0
  <2>1. PICK n \in G!Sessions :
              /\ joined[n] = 0 /\ live' = n /\ sent' = [sent EXCEPT ![n] = 1]
              /\ stored' = {e \in stored : e[1] # n}
              /\ announced' = {e \in announced : e[1] # n}
              /\ line' = line \o <<G!Dispatch("READY", n, 1)>> /\ attached' = TRUE
    BY <1>2, <1>3 DEF G!AnswerLogin, G!None, G!Put, G!Unknown
  <2> QED BY <1>3, <2>1, IdentifyKeeps
<1>4. CASE sid # 0 /\ live = sid
  <2>1. /\ line' = line \o Replay(sid, seq, sent[sid]) /\ attached' = TRUE
        /\ UNCHANGED <<live, sent, stored, announced>>
    BY <1>2, <1>4 DEF G!AnswerLogin, G!None, G!Put, Replay
  <2> QED BY <1>4, <2>1, ResumeKeeps
<1>5. CASE sid # 0 /\ live # sid
  <2>1. PICK op \in {"invalid", "close_fresh"} : line' = line \o <<G!Frame(op)>>
    BY <1>2, <1>5 DEF G!AnswerLogin, G!None, G!Put
  <2>2. UNCHANGED <<live, sent, attached, stored, announced>>
    BY <1>2, <1>5 DEF G!AnswerLogin, G!None
  <2>3. G!Frame(op) \in Frames /\ G!Frame(op).op = op /\ op # "dispatch"
    BY PlainIs DEF G!FrameOps, G!Closes
  <2>4. live = 0 \/ joined[live] = 0
    BY <1>5 DEF CursorInv, LiveOK
  <2>5. beat' \in BOOLEAN /\ attached' = attached /\ live' = live
    BY <1>1, <2>2 DEF CursorInv, ShardTypes
  <2> QED BY <1>1, <2>1, <2>2, <2>3, <2>4, <2>5, PutKeeps
<1> QED BY <1>3, <1>4, <1>5

\* What an event changes besides the line.
LEMMA EmitFacts ==
    ASSUME CursorInv, G!Emit
    PROVE  /\ live \in G!Sessions /\ live # 0 /\ sent[live] \in Nat /\ sent[live] >= 1
           /\ sent[live] + 1 \in 1..MaxSeq
           /\ sent' = [sent EXCEPT ![live] = sent[live] + 1]
           /\ sent' \in [G!Sessions -> 0..MaxSeq] /\ sent'[live] = sent[live] + 1
           /\ \A s \in G!Sessions : sent[s] \in Nat /\ sent'[s] \in Nat /\ sent[s] <= sent'[s]
           /\ \A s \in G!Sessions : s # live => sent'[s] = sent[s]
           /\ UNCHANGED <<state, connected, sid, seq, failures, reading, intake, up, login, beat,
                          live, attached, stored, joined, announced>>
<1>1. /\ sent' = [sent EXCEPT ![live] = sent[live] + 1] /\ live # 0 /\ sent[live] < MaxSeq
      /\ UNCHANGED <<state, connected, sid, seq, failures, reading, intake, up, login, beat,
                     live, attached, stored, joined, announced>>
  BY DEF G!Emit, G!clientVars, G!history, G!None
<1>2. sent \in [G!Sessions -> 0..MaxSeq] /\ live \in G!Sessions /\ sent[live] # 0
  BY <1>1, TransportAssumption DEF CursorInv, ShardTypes, LiveOK, G!Sessions
<1>3. \A s \in G!Sessions : sent[s] \in Nat
  BY <1>2, TransportAssumption
<1>4. sent[live] >= 1 /\ sent[live] + 1 \in 1..MaxSeq /\ sent[live] + 1 \in 0..MaxSeq
  BY <1>1, <1>2, <1>3, TransportAssumption
<1>5. sent' \in [G!Sessions -> 0..MaxSeq] /\ sent'[live] = sent[live] + 1
      /\ \A s \in G!Sessions : s # live => sent'[s] = sent[s]
  BY <1>1, <1>2, <1>4
<1>6. \A s \in G!Sessions : sent'[s] \in Nat /\ sent[s] <= sent'[s]
  <2> SUFFICES ASSUME NEW s \in G!Sessions PROVE sent'[s] \in Nat /\ sent[s] <= sent'[s]
    OBVIOUS
  <2>1. sent[s] \in Nat
    BY <1>3
  <2> QED BY <1>5, <2>1
<1> QED BY <1>1, <1>2, <1>3, <1>4, <1>5, <1>6

\* What holds after an event whether or not a socket brings it.
LEMMA EmitRest ==
    ASSUME CursorInv, G!Emit, line' \in Seq(Frames)
    PROVE  ShardTypes' /\ ReadOK' /\ LiveOK' /\ G!NoSilentGap'
<1>1. ShardTypes'
  BY EmitFacts DEF CursorInv, ShardTypes
<1>2. ReadOK'
  <2> SUFFICES ASSUME reading # << >> PROVE ReadOK'
    BY EmitFacts DEF ReadOK
  <2>1. PICK e \in G!Envelopes : reading[1] = e
    BY DEF CursorInv, ShardTypes
  <2>2. e.s \in G!Sessions /\ e.q \in Nat
    BY EnvelopeIs
  <2>3. e.q <= sent'[e.s]
    <3>1. e.q <= sent[e.s]
      BY <2>1 DEF CursorInv, ReadOK
    <3>2. sent[e.s] \in Nat /\ sent'[e.s] \in Nat /\ sent[e.s] <= sent'[e.s]
      BY <2>2, EmitFacts
    <3> QED BY <2>2, <3>1, <3>2
  <2> QED BY SMTT(30), <2>1, <2>3, EmitFacts DEF CursorInv, ReadOK
<1>3. LiveOK'
  <2>1. /\ sent[live] # 0 /\ (sid = live => seq <= sent[live]) /\ (joined[live] # 0 => sid = live)
    BY EmitFacts DEF CursorInv, LiveOK
  <2>2. seq \in Nat
    BY TransportAssumption DEF CursorInv, ShardTypes
  <2>3. sent'[live] # 0 /\ (sid = live => seq <= sent'[live])
    BY <2>1, <2>2, EmitFacts
  <2> QED BY <2>1, <2>3, EmitFacts DEF LiveOK
<1>4. G!NoSilentGap'
  <2> SUFFICES ASSUME NEW x \in G!Sessions \X (1..MaxSeq), x[2] <= sent'[x[1]],
                      joined[x[1]] # 0, x[2] > joined[x[1]]
               PROVE  \/ x \in stored \cup announced
                      \/ sid = x[1] /\ (seq = 0 \/ seq < x[2])
    <3>1. UNCHANGED <<sid, seq, joined, stored, announced>>
      BY EmitFacts
    <3> QED BY <3>1 DEF G!NoSilentGap, G!Emitted, G!Owed, G!None
  <2>1. x[1] \in G!Sessions /\ x[2] \in Nat
    BY TransportAssumption
  <2>2. CASE x[2] <= sent[x[1]]
    BY <2>2, EmittedIs DEF CursorInv, G!NoSilentGap, G!Owed, G!None
  <2>3. CASE ~(x[2] <= sent[x[1]])
    <3>1. x[1] = live
      BY <2>1, <2>3, EmitFacts
    <3>2. sid = live /\ seq <= sent[live]
      BY <3>1, EmitFacts DEF CursorInv, LiveOK
    <3>3. sent[live] < x[2] /\ seq \in Nat
      BY <2>1, <2>3, <3>1, EmitFacts, TransportAssumption DEF CursorInv, ShardTypes
    <3> QED BY <2>1, <3>1, <3>2, <3>3, EmitFacts
  <2> QED BY <2>2, <2>3
<1> QED BY <1>1, <1>2, <1>3, <1>4

LEMMA EmitKeeps ==
    ASSUME CursorInv, G!Emit
    PROVE  CursorInv'
<1>1. line \in Seq(Frames) /\ Len(line) \in Nat
  BY DEF CursorInv, ShardTypes
<1>2. CASE ~(attached /\ up = "open")
  <2>1. line' = line
    BY <1>2 DEF G!Emit
  <2>2. ShardTypes' /\ ReadOK' /\ LiveOK' /\ G!NoSilentGap'
    BY <1>1, <2>1, EmitRest
  <2>3. LinkOK'
    BY <2>1, EmitFacts DEF CursorInv, LinkOK, NoDispatch, G!Tasks
  <2>4. LineOK'
    <3>1. ASSUME NEW s, NEW p, NEW k, Covered(s, p, k) PROVE Covered(s, p, k)'
      BY <2>1, <3>1, EmitFacts DEF Covered, Known
    <3>2. ASSUME NEW i \in 1..Len(line), NEW f \in G!Envelopes, line[i] = f PROVE EntryOK(f, i)'
      <4>1. EntryOK(f, i) /\ i \in Nat /\ f.s \in G!Sessions
        BY <3>2, EnvelopeIs DEF CursorInv, LineOK
      <4>2. f.t = "READY" => /\ sid' = sid /\ reading' = << >>
                             /\ \A j \in 1..(i - 1) : line'[j].op # "dispatch"
        BY <2>1, <4>1, EmitFacts DEF EntryOK
      <4>3. sent[f.s] \in Nat /\ sent'[f.s] \in Nat /\ sent[f.s] <= sent'[f.s]
        BY <4>1, EmitFacts
      <4> QED BY <3>1, <4>1, <4>2, <4>3, EntryMoves
    <3> QED BY <2>1, <3>2 DEF LineOK
  <2>5. AttachedOK' /\ EndsOK'
    BY <1>2, <2>1, EmitFacts DEF CursorInv, AttachedOK, EndsOK, NoDispatch
  <2> QED BY <2>2, <2>3, <2>4, <2>5 DEF CursorInv
<1>3. CASE attached /\ up = "open"
  <2>1. PICK s \in G!Sessions, q \in Nat : s = live /\ q = sent[live] + 1 /\ q \in 1..MaxSeq /\ q > 1
    BY EmitFacts
  <2>2. PICK f \in G!Envelopes : /\ f = G!Dispatch("event", s, q) /\ f.op = "dispatch"
                                 /\ f.t = "event" /\ f.s = s /\ f.q = q /\ f \in Frames
    BY <2>1, DispatchIs
  <2>3. PICK l \in Seq(Frames) : l = <<f>> /\ Len(l) = 1 /\ l[1] = f
    BY <2>2, Singleton
  <2>4. line' = line \o l
    BY <1>3, <2>1, <2>2, <2>3 DEF G!Emit, G!Put
  <2>5. /\ line' \in Seq(Frames) /\ Len(line') = Len(line) + 1
        /\ \A i \in 1..Len(line) : line'[i] = line[i]
        /\ line'[Len(line) + 1] = f
        /\ \A i \in 1..Len(line), g \in G!Envelopes : line'[i] = g => EntryOK(g, i)'
        /\ \A x, p : Brought(x, p) => Brought(x, p)'
    <3>1. 1 \in 1..Len(l)
      BY <2>3
    <3>2. /\ line' \in Seq(Frames) /\ Len(line') = Len(line) + Len(l) /\ Len(line) \in Nat
          /\ \A i \in 1..Len(line) : line'[i] = line[i]
          /\ \A i \in 1..Len(l) : line'[Len(line) + i] = l[i]
          /\ \A i \in 1..Len(line), g \in G!Envelopes : line'[i] = g => EntryOK(g, i)'
          /\ \A x, p : Brought(x, p) => Brought(x, p)'
      BY <2>4, EmitFacts, LineGrows
    <3> QED BY <2>3, <3>1, <3>2
  <2>6. ShardTypes' /\ ReadOK' /\ LiveOK' /\ G!NoSilentGap'
    BY <2>5, EmitRest
  <2>7. /\ G!Tasks /\ login = << >>
        /\ ~(\E i \in 1..Len(line) : line[i].op \in {"invalid", "close_fresh"})
    BY <1>3 DEF CursorInv, LinkOK, EndsOK, G!Emit
  <2>8. LinkOK'
    BY <2>7, EmitFacts DEF CursorInv, LinkOK, G!Tasks
  <2>9. ASSUME NEW p \in 1..MaxSeq, p < q PROVE Brought(s, p)
    <3>1. p <= sent[s]
      BY <2>1, <2>9, EmitFacts, TransportAssumption
    <3> QED BY <1>3, <2>1, <3>1 DEF CursorInv, AttachedOK
  <2>10. LineOK'
    <3> SUFFICES ASSUME NEW i \in 1..Len(line'), i \notin 1..Len(line) PROVE EntryOK(f, i)'
      BY <2>5 DEF LineOK
    <3>1. i = Len(line) + 1 /\ 1..(i - 1) = 1..Len(line)
      BY <1>1, <2>5
    <3>2. \A p \in 1..q : p < q => Covered(s, p, i)'
      <4> SUFFICES ASSUME NEW p \in 1..q, p < q PROVE Covered(s, p, i)'
        OBVIOUS
      <4>1. p \in 1..MaxSeq
        BY <2>1, TransportAssumption
      <4>2. Known(s, p) \/ \E j \in 1..(i - 1) : Shows(line[j], s, p)
        BY <2>9, <3>1, <4>1 DEF Brought
      <4>3. Known(s, p) => Known(s, p)'
        BY EmitFacts DEF Known
      <4>4. \A j \in 1..(i - 1) : line'[j] = line[j]
        BY <2>5, <3>1
      <4> QED BY <4>2, <4>3, <4>4 DEF Covered
    <3>3. q <= sent'[s]
      BY <2>1, EmitFacts
    <3> QED BY <2>1, <2>2, <3>2, <3>3 DEF EntryOK
  <2>11. AttachedOK'
    <3>1. Brought(s, q)'
      <4>1. Shows(f, s, q) /\ Len(line) + 1 \in 1..Len(line')
        BY <1>1, <2>2, <2>5 DEF Shows
      <4> QED BY <2>5, <4>1 DEF Brought, Shows
    <3>2. ASSUME NEW p \in 1..MaxSeq, p <= q PROVE Brought(s, p)'
      <4>1. p = q \/ p < q
        BY <3>2, TransportAssumption
      <4> QED BY <2>5, <2>9, <3>1, <4>1
    <3>3. live' = s /\ s # 0 /\ sent'[s] = q
      BY <2>1, EmitFacts
    <3> QED BY <3>2, <3>3 DEF AttachedOK
  <2>12. EndsOK'
    <3>1. ASSUME NEW i \in 1..Len(line') PROVE line'[i].op \notin {"invalid", "close_fresh"}
      <4>1. i \in 1..Len(line) \/ i = Len(line) + 1
        BY <1>1, <2>5
      <4> QED BY <2>2, <2>5, <2>7, <4>1
    <3> QED BY <3>1 DEF EndsOK
  <2> QED BY <2>6, <2>8, <2>10, <2>11, <2>12 DEF CursorInv
<1> QED BY <1>2, <1>3

-----------------------------------------------------------------------------
(* The session of a shard.                                                 *)

LEMMA ShardNext == ShardInv /\ G!Next => ShardInv'
<1> SUFFICES ASSUME ShardInv, G!Next PROVE ShardInv'
  OBVIOUS
<1>1. CursorInv /\ QuietInv /\ LinkOK
  BY DEF ShardInv, CursorInv
<1>2. QuietInv'
  BY <1>1, QuietNext
<1>3. CursorInv'
  BY <1>1, StillKeeps, EndKeeps, ReadPlainKeeps, HelloKeeps, DialKeeps, ForgetKeeps, BeatsKeep,
     ReadDispatchKeeps, StoreKeeps, StoredKeeps, AnswerLoginKeeps, EmitKeeps
     DEF G!Next, G!Adapter, G!QQ
<1> QED BY <1>2, <1>3 DEF ShardInv

LEMMA ShardStepKeeps ==
    ShardInv /\ [TransportNext]_<<part, gatewayVars, vars, tokenVars>> => ShardInv'
<1> SUFFICES ASSUME ShardInv, [TransportNext]_<<part, gatewayVars, vars, tokenVars>>
             PROVE  ShardInv'
  OBVIOUS
<1>1. CASE G!Next
  BY <1>1, ShardNext
<1>2. CASE UNCHANGED gatewayVars
  <2>1. UNCHANGED <<ackPending, ackAge, beatIn, handIn, quietFor, up>> /\ G!Tasks' = G!Tasks
    BY <1>2 DEF gatewayVars, G!Tasks
  <2>2. QuietInv'
    BY <2>1, QuietStill DEF ShardInv
  <2>3. UNCHANGED <<state, connected, sid, seq, failures, reading, intake, up, line, login, beat,
                    live, attached, sent, joined, stored, announced>>
    BY <1>2 DEF gatewayVars
  <2>4. ShardTypes' /\ CursorInv
    BY <2>3 DEF ShardInv, CursorInv, ShardTypes
  <2>5. up # "none" => G!Tasks \/ state' \in {"connecting", "waiting_identify"}
    BY <2>3, <2>4 DEF CursorInv, LinkOK
  <2>6. CursorInv'
    BY <2>1, <2>3, <2>4, <2>5, CursorStill
  <2> QED BY <2>2, <2>6 DEF ShardInv
<1> QED BY <1>1, <1>2 DEF TransportNext, GatewayStep, BudgetStep, TokenStep

LEMMA ShardEnough == ShardInv => SessionSound
<1> SUFFICES ASSUME ShardInv PROVE SessionSound
  OBVIOUS
<1>1. ShardTypes /\ QuietInv
  BY DEF ShardInv, CursorInv
<1>2. \A i \in DOMAIN line : line[i] \in G!Envelopes \cup [op : G!FrameOps]
  BY <1>1 DEF ShardTypes, Frames
<1>3. G!TypeOK
  BY <1>1, <1>2 DEF ShardTypes, QuietInv, Fates, G!TypeOK
<1> QED BY <1>1, <1>3, QuietEnough DEF ShardInv, CursorInv, SessionSound

(* Every event QQ sent since a shard was online in its session is stored,   *)
(* still before the cursor, or announced as lost, and a connection that has *)
(* gone silent is given up in time: ShardIngress and Gateway, whatever QQ,  *)
(* the network and the inbox do, and however their steps interleave.        *)
THEOREM NoEventIsMissed == TransportSpec => []SessionSound
<1>1. TransportInit => ShardInv
  BY CursorInit DEF TransportInit, ShardInv
<1> QED BY <1>1, ShardStepKeeps, ShardEnough, PTL DEF TransportSpec
=============================================================================
