--------------------------- MODULE RateLimiter_proofs ---------------------------
(***************************************************************************)
(* Proofs about RateLimiter for any clients, limits, windows and intervals, *)
(* under the assumption OneAtATime: the event loop runs one check at a      *)
(* time.  With several threads SweepKeepsLiveHits is false.                 *)
(***************************************************************************)
EXTENDS RateLimiter, SequenceTheorems, WellFoundedInduction, TLAPS

-----------------------------------------------------------------------------
(* Whole seconds. *)

\* Rounded down and one more is more.
LEMMA RoundedUp ==
    ASSUME NEW x \in Int, NEW p \in Nat \ {0}
    PROVE  x \div p \in Int /\ (x \div p + 1) * p > x
OBVIOUS

-----------------------------------------------------------------------------
(* Sequences of stamps and what is left of them. *)

InOrder(h) == \A i, j \in 1 .. Len(h) : i <= j => h[i] <= h[j]

\* The first d stamps of h are out of the window at time n, the others are in e.
Cut(h, w, n, d, e) ==
    /\ d \in 0 .. Len(h)
    /\ e \in Seq(Nat)
    /\ Len(e) = Len(h) - d
    /\ \A i \in 1 .. Len(e) : e[i] = h[i + d]
    /\ \A i \in 1 .. d : h[i] + w <= n
    /\ \A i \in (d + 1) .. Len(h) : h[i] + w > n

\* A nonempty set of numbers has a smallest one.
LEMMA SmallestExists ==
    ASSUME NEW S \in SUBSET Nat, S # {}
    PROVE  \E i \in S : \A j \in S : i <= j
<1>1. PICK i \in S : \A j \in S : ~ (<<j, i>> \in OpToRel(<, Nat))
  BY WFMin, NatLessThanWellFounded
<1>2. \A j \in S : ~ (j < i)
  BY <1>1 DEF OpToRel
<1> QED BY <1>2

\* Evicted cuts a sequence that is in order.
LEMMA EvictedCuts ==
    ASSUME NEW h \in Seq(Nat), NEW w \in Nat, NEW n \in Nat, InOrder(h)
    PROVE  \E d \in 0 .. Len(h) : Cut(h, w, n, d, Evicted(h, w, n))
<1> DEFINE live == {i \in 1 .. Len(h) : h[i] + w > n}
           first == CHOOSE i \in live : \A j \in live : i <= j
<1>1. Len(h) \in Nat /\ \A i \in 1 .. Len(h) : h[i] \in Nat
  OBVIOUS
<1>2. CASE live = {}
  <2>1. Evicted(h, w, n) = <<>>
    BY <1>2 DEF Evicted
  <2>2. ASSUME NEW i \in 1 .. Len(h) PROVE h[i] + w <= n
    <3>1. ~ (h[i] + w > n)
      BY <1>2
    <3> QED BY <1>1, <3>1
  <2>3. Cut(h, w, n, Len(h), <<>>)
    BY <1>1, <2>2 DEF Cut
  <2> QED BY <1>1, <2>1, <2>3
<1>3. CASE live # {}
  <2>1. first \in live /\ \A j \in live : first <= j
    <3>1. live \in SUBSET Nat
      OBVIOUS
    <3>2. \E i \in live : \A j \in live : i <= j
      BY <3>1, <1>3, SmallestExists
    <3> QED BY <3>2
  <2>2. Evicted(h, w, n) = SubSeq(h, first, Len(h))
    BY <1>3 DEF Evicted
  <2> HIDE DEF first
  <2>3. first \in 1 .. Len(h) /\ h[first] + w > n
    BY <2>1
  <2>4. ASSUME NEW i \in 1 .. (first - 1) PROVE h[i] + w <= n
    <3>1. i \in 1 .. Len(h) /\ ~ (first <= i)
      BY <1>1, <2>3
    <3>2. ~ (h[i] + w > n)
      BY <2>1, <3>1
    <3> QED BY <1>1, <3>1, <3>2
  <2>5. \A i \in first .. Len(h) : h[i] + w > n
    <3> SUFFICES ASSUME NEW i \in first .. Len(h) PROVE h[i] + w > n
      OBVIOUS
    <3>1. i \in 1 .. Len(h) /\ h[first] <= h[i] /\ h[i] \in Nat /\ h[first] \in Nat
      BY <1>1, <2>3 DEF InOrder
    <3> QED BY <2>3, <3>1
  <2> DEFINE e == SubSeq(h, first, Len(h))
  <2>6. /\ e \in Seq(Nat) /\ Len(e) = Len(h) - (first - 1)
        /\ \A i \in 1 .. Len(e) : e[i] = h[i + (first - 1)]
    BY <1>1, <2>3, SubSeqProperties
  <2> HIDE DEF e
  <2>7. Cut(h, w, n, first - 1, e)
    BY <1>1, <2>3, <2>4, <2>5, <2>6 DEF Cut
  <2>8. first - 1 \in 0 .. Len(h)
    BY <1>1, <2>3
  <2> QED BY <2>2, <2>7, <2>8 DEF e
<1> QED BY <1>2, <1>3

\* There is one way to cut a sequence.
LEMMA OneCut ==
    ASSUME NEW h \in Seq(Nat), NEW w \in Nat, NEW n \in Nat,
           NEW d1 \in Nat, NEW e1, Cut(h, w, n, d1, e1),
           NEW d2 \in Nat, NEW e2, Cut(h, w, n, d2, e2)
    PROVE  e1 = e2
<1>1. Len(h) \in Nat /\ \A i \in 1 .. Len(h) : h[i] \in Nat
  OBVIOUS
<1>2. d1 = d2
  <2>1. ~ (d1 < d2)
    <3> SUFFICES ASSUME d1 < d2 PROVE FALSE
      OBVIOUS
    <3>1. d2 \in 1 .. d2 /\ d2 \in (d1 + 1) .. Len(h) /\ h[d2] \in Nat
      BY <1>1 DEF Cut
    <3> QED BY <3>1 DEF Cut
  <2>2. ~ (d2 < d1)
    <3> SUFFICES ASSUME d2 < d1 PROVE FALSE
      OBVIOUS
    <3>1. d1 \in 1 .. d1 /\ d1 \in (d2 + 1) .. Len(h) /\ h[d1] \in Nat
      BY <1>1 DEF Cut
    <3> QED BY <3>1 DEF Cut
  <2> QED BY <2>1, <2>2
<1>3. /\ e1 \in Seq(Nat) /\ e2 \in Seq(Nat) /\ Len(e1) = Len(e2)
      /\ \A i \in 1 .. Len(e1) : e1[i] = e2[i]
  BY <1>2 DEF Cut
<1> QED BY <1>3, SeqEqual

\* A cut leaves stamps in order, none of them new.
LEMMA CutInOrder ==
    ASSUME NEW h \in Seq(Nat), NEW w \in Nat, NEW n \in Nat, InOrder(h),
           NEW d \in Nat, NEW e, Cut(h, w, n, d, e)
    PROVE  /\ InOrder(e) /\ Len(e) <= Len(h)
           /\ \A i \in 1 .. Len(e) : \E j \in 1 .. Len(h) : e[i] = h[j] /\ e[i] + w > n
           /\ e # <<>> => h # <<>> /\ e[Len(e)] = h[Len(h)]
<1>1. Len(h) \in Nat /\ Len(e) \in Nat /\ Len(e) = Len(h) - d
  BY DEF Cut
<1>2. \A i \in 1 .. Len(e) : i + d \in 1 .. Len(h) /\ e[i] = h[i + d]
                             /\ i + d \in (d + 1) .. Len(h)
  BY <1>1 DEF Cut
<1>3. InOrder(e)
  <2> SUFFICES ASSUME NEW i \in 1 .. Len(e), NEW j \in 1 .. Len(e), i <= j
               PROVE  e[i] <= e[j]
    BY DEF InOrder
  <2>1. i + d <= j + d
    BY <1>1
  <2> QED BY <1>2, <2>1 DEF InOrder
<1>4. \A i \in 1 .. Len(e) : \E j \in 1 .. Len(h) : e[i] = h[j] /\ e[i] + w > n
  BY <1>2 DEF Cut
<1>5. ASSUME e # <<>> PROVE h # <<>> /\ e[Len(e)] = h[Len(h)]
  <2> DEFINE last == Len(e)
  <2>1. last \in 1 .. Len(e)
    BY <1>1, <1>5, EmptySeq DEF Cut
  <2>2. last + d = Len(h) /\ Len(h) # 0
    BY <1>1, <2>1
  <2> HIDE DEF last
  <2>3. e[last] = h[last + d]
    BY <1>2, <2>1
  <2>4. h # <<>>
    BY <2>2, EmptySeq
  <2> QED BY <2>2, <2>3, <2>4 DEF last
<1> QED BY <1>1, <1>3, <1>4, <1>5

\* What is cut at one time and again at a later one is cut at the later one.
LEMMA EvictTwice ==
    ASSUME NEW h \in Seq(Nat), NEW w \in Nat, NEW n \in Nat, NEW m \in Nat, InOrder(h),
           n <= m
    PROVE  Evicted(Evicted(h, w, n), w, m) = Evicted(h, w, m)
<1> DEFINE e == Evicted(h, w, n)
           f == Evicted(e, w, m)
<1>1. PICK d \in 0 .. Len(h) : Cut(h, w, n, d, e)
  BY EvictedCuts
<1> HIDE DEF e
<1>2. e \in Seq(Nat) /\ InOrder(e)
  <2>1. d \in Nat /\ e \in Seq(Nat)
    BY <1>1 DEF Cut
  <2> QED BY <1>1, <2>1, CutInOrder
<1>3. PICK c \in 0 .. Len(e) : Cut(e, w, m, c, f)
  BY <1>2, EvictedCuts
<1>4. PICK b \in 0 .. Len(h) : Cut(h, w, m, b, Evicted(h, w, m))
  BY EvictedCuts
<1> HIDE DEF f
<1>5. Cut(h, w, m, c + d, f)
  <2>1. /\ Len(h) \in Nat /\ d \in Nat /\ c \in Nat /\ Len(e) = Len(h) - d
        /\ c + d \in 0 .. Len(h) /\ Len(f) = Len(h) - (c + d) /\ f \in Seq(Nat)
    BY <1>1, <1>3 DEF Cut
  <2>2. \A i \in 1 .. Len(f) : f[i] = h[i + (c + d)]
    <3> SUFFICES ASSUME NEW i \in 1 .. Len(f) PROVE f[i] = h[i + (c + d)]
      OBVIOUS
    <3>1. i + c \in 1 .. Len(e) /\ f[i] = e[i + c]
      BY <1>3, <2>1 DEF Cut
    <3>2. e[i + c] = h[(i + c) + d]
      BY <1>1, <3>1 DEF Cut
    <3>3. (i + c) + d = i + (c + d)
      BY <2>1
    <3> QED BY <3>1, <3>2, <3>3
  <2>3. ASSUME NEW i \in 1 .. (c + d) PROVE h[i] + w <= m
    <3>1. CASE i \in 1 .. d
      <4>1. h[i] + w <= n
        BY <1>1, <3>1 DEF Cut
      <4>2. i \in 1 .. Len(h) /\ h[i] \in Nat
        BY <1>1, <3>1
      <4> QED BY <4>1, <4>2
    <3>2. CASE i \notin 1 .. d
      <4>1. i - d \in 1 .. c /\ i - d \in 1 .. Len(e) /\ (i - d) + d = i
        BY <1>3, <2>1, <3>2
      <4>2. e[i - d] = h[i] /\ e[i - d] + w <= m
        BY <1>1, <1>3, <4>1 DEF Cut
      <4> QED BY <4>2
    <3> QED BY <3>1, <3>2
  <2>4. ASSUME NEW i \in (c + d + 1) .. Len(h) PROVE h[i] + w > m
    <3>1. i - d \in (c + 1) .. Len(e) /\ i - d \in 1 .. Len(e) /\ (i - d) + d = i
      BY <2>1
    <3>2. e[i - d] = h[i] /\ e[i - d] + w > m
      BY <1>1, <1>3, <3>1 DEF Cut
    <3> QED BY <3>2
  <2> QED BY <2>1, <2>2, <2>3, <2>4 DEF Cut
<1>6. c + d \in Nat /\ b \in Nat
  BY <1>1, <1>3, <1>4
<1>7. f = Evicted(h, w, m)
  BY <1>4, <1>5, <1>6, OneCut
<1> QED BY <1>7 DEF e, f

\* A stamp that comes last may be added before or after the older ones go.
LEMMA EvictAppend ==
    ASSUME NEW h \in Seq(Nat), NEW w \in Nat, NEW n \in Nat, NEW m \in Nat, InOrder(h),
           n <= m, NEW s \in Nat, InOrder(Append(h, s))
    PROVE  /\ InOrder(Append(Evicted(h, w, n), s))
           /\ Evicted(Append(Evicted(h, w, n), s), w, m) = Evicted(Append(h, s), w, m)
<1> DEFINE e == Evicted(h, w, n)
           k == Append(h, s)
           g == Append(e, s)
           f == Evicted(g, w, m)
<1>1. PICK d \in 0 .. Len(h) : Cut(h, w, n, d, e)
  BY EvictedCuts
<1> HIDE DEF e
<1>2. /\ Len(h) \in Nat /\ d \in Nat /\ e \in Seq(Nat) /\ Len(e) = Len(h) - d
      /\ Len(e) \in Nat
  BY <1>1 DEF Cut
<1>3. /\ k \in Seq(Nat) /\ Len(k) = Len(h) + 1 /\ k[Len(h) + 1] = s
      /\ \A i \in 1 .. Len(h) : k[i] = h[i]
  BY <1>2, AppendProperties
<1>4. /\ g \in Seq(Nat) /\ Len(g) = Len(e) + 1 /\ g[Len(e) + 1] = s
      /\ \A i \in 1 .. Len(e) : g[i] = e[i]
  BY <1>2, AppendProperties
<1>5. ASSUME NEW i \in 1 .. Len(g) PROVE i + d \in 1 .. Len(k) /\ g[i] = k[i + d]
  <2>1. CASE i \in 1 .. Len(e)
    <3>1. g[i] = e[i] /\ e[i] = h[i + d] /\ i + d \in 1 .. Len(h)
      BY <1>1, <1>2, <1>4, <2>1 DEF Cut
    <3> QED BY <1>2, <1>3, <3>1
  <2>2. CASE i \notin 1 .. Len(e)
    <3>1. i = Len(e) + 1 /\ i + d = Len(h) + 1
      BY <1>2, <1>4, <2>2
    <3> QED BY <1>2, <1>3, <1>4, <3>1
  <2> QED BY <2>1, <2>2
<1>6. InOrder(g)
  <2> SUFFICES ASSUME NEW i \in 1 .. Len(g), NEW j \in 1 .. Len(g), i <= j
               PROVE  g[i] <= g[j]
    BY DEF InOrder
  <2>1. /\ i + d \in 1 .. Len(k) /\ g[i] = k[i + d]
        /\ j + d \in 1 .. Len(k) /\ g[j] = k[j + d]
    BY <1>5
  <2>2. i + d <= j + d
    BY <1>2
  <2> QED BY <2>1, <2>2 DEF InOrder
<1> HIDE DEF k, g
<1>7. PICK c \in 0 .. Len(g) : Cut(g, w, m, c, f)
  BY <1>4, <1>6, EvictedCuts
<1>8. PICK b \in 0 .. Len(k) : Cut(k, w, m, b, Evicted(k, w, m))
  BY <1>3, EvictedCuts DEF k
<1> HIDE DEF f
<1>9. Cut(k, w, m, c + d, f)
  <2>1. /\ Len(k) \in Nat /\ c \in Nat /\ Len(g) = Len(k) - d
        /\ c + d \in 0 .. Len(k) /\ Len(f) = Len(k) - (c + d) /\ f \in Seq(Nat)
    BY <1>2, <1>3, <1>4, <1>7 DEF Cut
  <2>2. \A i \in 1 .. Len(f) : f[i] = k[i + (c + d)]
    <3> SUFFICES ASSUME NEW i \in 1 .. Len(f) PROVE f[i] = k[i + (c + d)]
      OBVIOUS
    <3>1. i + c \in 1 .. Len(g) /\ f[i] = g[i + c]
      BY <1>7, <2>1 DEF Cut
    <3>2. g[i + c] = k[(i + c) + d]
      BY <1>5, <3>1
    <3>3. (i + c) + d = i + (c + d)
      BY <1>2, <2>1
    <3> QED BY <3>1, <3>2, <3>3
  <2>3. ASSUME NEW i \in 1 .. (c + d) PROVE k[i] + w <= m
    <3>1. CASE i \in 1 .. d
      <4>1. h[i] + w <= n
        BY <1>1, <3>1 DEF Cut
      <4>2. i \in 1 .. Len(h)
        BY <1>1, <1>2, <3>1
      <4>3. h[i] \in Nat /\ k[i] = h[i]
        BY <1>3, <4>2
      <4> QED BY <4>1, <4>3
    <3>2. CASE i \notin 1 .. d
      <4>1. i - d \in 1 .. c /\ i - d \in 1 .. Len(g) /\ (i - d) + d = i
        BY <1>2, <2>1, <3>2
      <4>2. g[i - d] = k[i]
        BY <1>5, <4>1
      <4>3. g[i - d] + w <= m
        BY <1>7, <4>1 DEF Cut
      <4> QED BY <4>2, <4>3
    <3> QED BY <3>1, <3>2
  <2>4. ASSUME NEW i \in (c + d + 1) .. Len(k) PROVE k[i] + w > m
    <3>1. i - d \in (c + 1) .. Len(g) /\ i - d \in 1 .. Len(g) /\ (i - d) + d = i
      BY <1>2, <2>1
    <3>2. g[i - d] = k[i]
      BY <1>5, <3>1
    <3>3. g[i - d] + w > m
      BY <1>7, <3>1 DEF Cut
    <3> QED BY <3>2, <3>3
  <2> QED BY <2>1, <2>2, <2>3, <2>4 DEF Cut
<1>10. c + d \in Nat /\ b \in Nat
  BY <1>2, <1>7, <1>8, <1>3, <1>4
<1>11. f = Evicted(k, w, m)
  BY <1>3, <1>8, <1>9, <1>10, OneCut
<1> QED BY <1>6, <1>11 DEF e, f, g, k

-----------------------------------------------------------------------------
(* The inductive invariant. *)

OneAtATime == \A s, t \in Threads : s = t

\* The stamps of a bucket are in order, none ahead of the check that is running.
StampsInOrder ==
    /\ lastCleanup <= clock
    /\ \A t \in Threads : pending[t].on =>
         pending[t].now <= clock /\ lastCleanup <= pending[t].now
    /\ \A k \in DOMAIN buckets :
         /\ InOrder(buckets[k])
         /\ \A i \in 1 .. Len(buckets[k]) :
              /\ buckets[k][i] <= clock
              /\ \A t \in Threads : pending[t].on => buckets[k][i] <= pending[t].now

\* A bucket is neither empty nor over its limit, the horizon covers its window, and
\* it was in use when the last sweep passed.
BucketsAreUsed ==
    \A k \in DOMAIN buckets :
      /\ buckets[k] # <<>>
      /\ Len(buckets[k]) <= LimitOf(k)
      /\ WindowOf(k) <= maxWindow
      /\ buckets[k][Len(buckets[k])] + maxWindow > lastCleanup

\* The stamps a check to come may have.
MayCome(n) ==
    clock <= n \/ \E t \in Threads : pending[t].on /\ pending[t].now <= n

\* So are those of the hits that were allowed.
LogInOrder ==
    \A k \in Keys :
      /\ InOrder(log[k])
      /\ \A i \in 1 .. Len(log[k]) :
           /\ log[k][i] <= clock
           /\ \A t \in Threads : pending[t].on => log[k][i] <= pending[t].now

\* For every check to come, what the limiter counts is what was allowed.
NothingIsLost ==
    \A k \in Keys, n \in Nat :
      MayCome(n) => Evicted(log[k], WindowOf(k), n) = Evicted(Hits(k), WindowOf(k), n)

IInv ==
    /\ LimiterTypeOK
    /\ StampsInOrder
    /\ BucketsAreUsed
    /\ LogInOrder
    /\ NothingIsLost
    /\ WindowLimit
    /\ RetryAfterSuffices

-----------------------------------------------------------------------------
(* What holds while a check runs. *)

\* The limit and the window of a key.
LEMMA Budget ==
    ASSUME NEW k \in Keys
    PROVE  LimitOf(k) \in Nat \ {0} /\ WindowOf(k) \in Nat \ {0}
BY RateLimiterAssumption DEF Keys, LimitOf, WindowOf

\* The stamps of a key are a sequence in order.
LEMMA HitsInOrder ==
    ASSUME LimiterTypeOK, StampsInOrder, NEW k \in Keys
    PROVE  /\ Hits(k) \in Seq(Nat) /\ InOrder(Hits(k))
           /\ \A i \in 1 .. Len(Hits(k)) :
                /\ Hits(k)[i] <= clock
                /\ \A t \in Threads : pending[t].on => Hits(k)[i] <= pending[t].now
<1>1. CASE k \in DOMAIN buckets
  BY <1>1 DEF LimiterTypeOK, StampsInOrder, Hits
<1>2. CASE k \notin DOMAIN buckets
  BY <1>2 DEF Hits, InOrder
<1> QED BY <1>1, <1>2

\* A thread that runs a check has a key and a stamp.
LEMMA RunningCheck ==
    ASSUME LimiterTypeOK, NEW t \in Threads, pending[t].on
    PROVE  pending[t] \in Check
BY DEF LimiterTypeOK, NoCheck

\* A stamp that is not older than the others may come last.
LEMMA AppendInOrder ==
    ASSUME NEW h \in Seq(Nat), InOrder(h), NEW n \in Nat, \A i \in 1 .. Len(h) : h[i] <= n
    PROVE  Append(h, n) \in Seq(Nat) /\ InOrder(Append(h, n))
<1>1. /\ Append(h, n) \in Seq(Nat) /\ Len(Append(h, n)) = Len(h) + 1
      /\ Append(h, n)[Len(h) + 1] = n
      /\ \A i \in 1 .. Len(h) : Append(h, n)[i] = h[i]
  BY AppendProperties
<1> SUFFICES ASSUME NEW i \in 1 .. (Len(h) + 1), NEW j \in 1 .. (Len(h) + 1), i <= j
             PROVE  Append(h, n)[i] <= Append(h, n)[j]
  BY <1>1 DEF InOrder
<1>2. Len(h) \in Nat
  OBVIOUS
<1>3. CASE j \in 1 .. Len(h)
  <2>1. i \in 1 .. Len(h)
    BY <1>2, <1>3
  <2> QED BY <1>1, <1>3, <2>1 DEF InOrder
<1>4. CASE j \notin 1 .. Len(h)
  <2>1. j = Len(h) + 1
    BY <1>2, <1>4
  <2>2. CASE i \in 1 .. Len(h)
    BY <1>1, <2>1, <2>2
  <2>3. CASE i \notin 1 .. Len(h)
    <3>1. i = Len(h) + 1
      BY <1>2, <2>3
    <3> QED BY <1>1, <2>1, <3>1
  <2> QED BY <2>2, <2>3
<1> QED BY <1>3, <1>4

\* What is left of the bucket, with and without the new stamp.
LEMMA LiveInOrder ==
    ASSUME LimiterTypeOK, StampsInOrder, NEW t \in Threads, pending[t].on
    PROVE  LET k   == pending[t].key
               now == pending[t].now
               w   == WindowOf(pending[t].key)
               h   == Hits(pending[t].key)
           IN  /\ Live(t) \in Seq(Nat) /\ InOrder(Live(t)) /\ Len(Live(t)) <= Len(h)
               /\ Append(Live(t), now) \in Seq(Nat) /\ InOrder(Append(Live(t), now))
               /\ Live(t) # <<>> => h # <<>> /\ Live(t)[Len(Live(t))] = h[Len(h)]
               /\ \A n \in Nat : now <= n => Evicted(Live(t), w, n) = Evicted(h, w, n)
               /\ \A i \in 1 .. Len(Live(t)) : \E j \in 1 .. Len(h) : Live(t)[i] = h[j]
<1> DEFINE k   == pending[t].key
           now == pending[t].now
           w   == WindowOf(k)
           h   == Hits(k)
<1>1. k \in Keys /\ now \in Nat /\ now <= clock /\ clock \in Nat
  BY RunningCheck DEF Check, StampsInOrder, LimiterTypeOK
<1>2. w \in Nat
  BY <1>1, Budget
<1>3. /\ h \in Seq(Nat) /\ InOrder(h)
      /\ \A i \in 1 .. Len(h) : h[i] <= now
  BY <1>1, HitsInOrder
<1>4. Live(t) = Evicted(h, w, now)
  BY DEF Live
<1> HIDE DEF k, now, w, h
<1>5. PICK d \in 0 .. Len(h) : Cut(h, w, now, d, Live(t))
  BY <1>1, <1>2, <1>3, <1>4, EvictedCuts
<1>6. d \in Nat /\ Live(t) \in Seq(Nat)
  BY <1>3, <1>5 DEF Cut
<1>7. /\ InOrder(Live(t)) /\ Len(Live(t)) <= Len(h)
      /\ \A i \in 1 .. Len(Live(t)) : \E j \in 1 .. Len(h) : Live(t)[i] = h[j]
      /\ Live(t) # <<>> => h # <<>> /\ Live(t)[Len(Live(t))] = h[Len(h)]
  BY <1>1, <1>2, <1>3, <1>5, <1>6, CutInOrder
<1>8. \A i \in 1 .. Len(Live(t)) : Live(t)[i] <= now
  BY <1>3, <1>7
<1>9. Append(Live(t), now) \in Seq(Nat) /\ InOrder(Append(Live(t), now))
  BY <1>1, <1>6, <1>7, <1>8, AppendInOrder
<1>10. \A n \in Nat : now <= n => Evicted(Live(t), w, n) = Evicted(h, w, n)
  BY <1>1, <1>2, <1>3, <1>4, EvictTwice
<1> QED
  BY <1>6, <1>7, <1>9, <1>10 DEF k, now, w, h

\* A hit that is allowed: what is counted and what is remembered stay the same for every
\* check to come.
LEMMA LogGrows ==
    ASSUME LimiterTypeOK, StampsInOrder, LogInOrder, NothingIsLost, NEW t \in Threads, pending[t].on
    PROVE  LET now == pending[t].now
               w   == WindowOf(pending[t].key)
               a   == Append(log[pending[t].key], now)
           IN  /\ Evicted(a, w, now) \in Seq(Nat) /\ InOrder(Evicted(a, w, now))
               /\ \A i \in 1 .. Len(Evicted(a, w, now)) : Evicted(a, w, now)[i] <= now
               /\ Len(Evicted(a, w, now)) <= Len(Live(t)) + 1
               /\ \A n \in Nat : now <= n =>
                    Evicted(Evicted(a, w, now), w, n) = Evicted(Append(Live(t), now), w, n)
<1> DEFINE k   == pending[t].key
           now == pending[t].now
           w   == WindowOf(k)
           h   == Hits(k)
           x   == log[k]
           a   == Append(x, now)
           g   == Evicted(a, w, now)
           e   == Live(t)
           b   == Append(e, now)
<1>1. k \in Keys /\ now \in Nat /\ MayCome(now)
  <2>1. k \in Keys /\ now \in Nat
    BY RunningCheck DEF Check
  <2>2. now <= now
    BY <2>1
  <2> QED BY <2>1, <2>2 DEF MayCome
<1>2. w \in Nat
  BY <1>1, Budget
<1>3. x \in Seq(Nat) /\ InOrder(x) /\ \A i \in 1 .. Len(x) : x[i] <= now
  BY <1>1 DEF LimiterTypeOK, LogInOrder
<1>4. e = Evicted(x, w, now)
  BY <1>1 DEF NothingIsLost, Live
<1>5. e \in Seq(Nat) /\ b \in Seq(Nat) /\ InOrder(b)
  BY LiveInOrder
<1> HIDE DEF k, now, w, h, x, e
<1>6. a \in Seq(Nat) /\ InOrder(a)
  BY <1>1, <1>3, AppendInOrder
<1>7. \A n \in Nat : now <= n => Evicted(b, w, n) = Evicted(a, w, n)
  BY <1>1, <1>2, <1>3, <1>4, <1>6, EvictAppend
<1>8. \A i \in 1 .. Len(a) : a[i] <= now
  <2>1. /\ Len(a) = Len(x) + 1 /\ a[Len(x) + 1] = now /\ Len(x) \in Nat
        /\ \A i \in 1 .. Len(x) : a[i] = x[i]
    BY <1>1, <1>3, AppendProperties
  <2> HIDE DEF a
  <2>2. ASSUME NEW i \in 1 .. Len(a) PROVE a[i] <= now
    <3>1. i \in 1 .. Len(x) \/ i = Len(x) + 1
      BY <2>1
    <3> QED BY <1>1, <1>3, <2>1, <3>1
  <2> QED BY <2>2
<1>9. Len(b) = Len(e) + 1
  BY <1>1, <1>5, AppendProperties
<1> HIDE DEF a, b
<1>10. \A n \in Nat : now <= n => Evicted(g, w, n) = Evicted(b, w, n)
  BY <1>1, <1>2, <1>6, <1>7, EvictTwice
<1>11. g = Evicted(b, w, now)
  BY <1>1, <1>7
<1>12. PICK d \in 0 .. Len(a) : Cut(a, w, now, d, g)
  BY <1>1, <1>2, <1>6, EvictedCuts
<1>13. PICK c \in 0 .. Len(b) : Cut(b, w, now, c, g)
  BY <1>1, <1>2, <1>5, <1>11, EvictedCuts
<1> HIDE DEF g
<1>14. d \in Nat /\ g \in Seq(Nat)
  BY <1>6, <1>12 DEF Cut
<1>15. /\ InOrder(g)
       /\ \A i \in 1 .. Len(g) : \E j \in 1 .. Len(a) : g[i] = a[j]
  BY <1>1, <1>2, <1>6, <1>12, <1>14, CutInOrder
<1>16. Len(g) <= Len(e) + 1
  <2>1. Len(g) = Len(b) - c /\ c \in Nat /\ Len(e) \in Nat
    BY <1>5, <1>13 DEF Cut
  <2> QED BY <1>9, <2>1
<1>17. \A i \in 1 .. Len(g) : g[i] <= now
  BY <1>8, <1>15
<1> QED
  BY <1>10, <1>14, <1>15, <1>16, <1>17 DEF k, now, w, x, a, b, e, g

\* Nothing is left of stamps that are all out of the window.
LEMMA AllOut ==
    ASSUME NEW h \in Seq(Nat), NEW w \in Nat, NEW n \in Nat,
           \A i \in 1 .. Len(h) : h[i] + w <= n
    PROVE  Evicted(h, w, n) = <<>>
<1>1. ASSUME NEW i \in 1 .. Len(h) PROVE ~ (h[i] + w > n)
  <2>1. h[i] \in Nat
    OBVIOUS
  <2> QED BY <2>1
<1>2. {i \in 1 .. Len(h) : h[i] + w > n} = {}
  BY <1>1
<1> QED BY <1>2 DEF Evicted

LEMMA NothingOut ==
    ASSUME NEW w \in Nat, NEW n \in Nat
    PROVE  Evicted(<<>>, w, n) = <<>>
<1>1. {i \in 1 .. Len(<<>>) : <<>>[i] + w > n} = {}
  OBVIOUS
<1> QED BY <1>1 DEF Evicted

\* The largest window covers the one of the check.
LEMMA Horizon ==
    ASSUME NEW a \in Nat, NEW b \in Nat
    PROVE  LargerOf(a, b) \in Nat /\ a <= LargerOf(a, b) /\ b <= LargerOf(a, b)
BY DEF LargerOf

\* The bucket of one key is replaced.
LEMMA StoredBucket ==
    ASSUME LimiterTypeOK, NEW k \in Keys, NEW h \in Seq(Nat)
    PROVE  /\ DOMAIN Stored(k, h) = DOMAIN buckets \cup {k}
           /\ DOMAIN Stored(k, h) \subseteq Keys
           /\ Stored(k, h) \in [DOMAIN Stored(k, h) -> Seq(Nat)]
           /\ Stored(k, h)[k] = h
           /\ \A l \in DOMAIN buckets : l # k => Stored(k, h)[l] = buckets[l]
BY DEF LimiterTypeOK, Stored

-----------------------------------------------------------------------------
(* The steps. *)

LEMMA InitIInv == LimiterInit => IInv
<1> SUFFICES ASSUME LimiterInit PROVE IInv
  OBVIOUS
<1> USE DEF LimiterInit
<1>1. LimiterTypeOK
  BY DEF LimiterTypeOK
<1>2. DOMAIN buckets = {}
  OBVIOUS
<1>3. StampsInOrder /\ BucketsAreUsed
  BY <1>2 DEF StampsInOrder, BucketsAreUsed, NoCheck
<1>4. NothingIsLost
  BY <1>2 DEF NothingIsLost, Hits
<1>5. RetryAfterSuffices
  BY DEF RetryAfterSuffices
<1>6. LogInOrder
  BY DEF LogInOrder, InOrder
<1>7. WindowLimit
  BY Budget DEF WindowLimit
<1> QED BY <1>1, <1>3, <1>4, <1>5, <1>6, <1>7 DEF IInv

\* A request comes in.
LEMMA ArriveKeepsIInv ==
    ASSUME IInv, NEW t \in Threads, NEW c \in Clients, NEW login \in BOOLEAN,
           Arrive(t, c, login)
    PROVE  IInv'
<1> DEFINE request == [on |-> TRUE, key |-> <<"ip", c>>, login |-> login, now |-> clock]
<1>1. /\ pending' = [pending EXCEPT ![t] = request]
      /\ UNCHANGED <<clock, buckets, lastCleanup, maxWindow, log, advice>>
  BY DEF Arrive
<1>2. request \in Check
  BY DEF IInv, LimiterTypeOK, Check, Keys, Budgets
<1> HIDE DEF request
<1>3. LimiterTypeOK'
  BY <1>1, <1>2 DEF IInv, LimiterTypeOK
<1>4. request.now = clock
  BY DEF request
<1>5. \A v \in Threads : pending'[v] = pending[v] \/ pending'[v].now = clock
  BY <1>1, <1>4 DEF IInv, LimiterTypeOK
<1>6. StampsInOrder'
  <2>1. clock \in Nat /\ lastCleanup <= clock
    BY DEF IInv, LimiterTypeOK, StampsInOrder
  <2>2. \A v \in Threads : pending'[v].on =>
          pending'[v].now <= clock /\ lastCleanup <= pending'[v].now
    BY <1>5, <2>1 DEF IInv, StampsInOrder
  <2>3. \A k \in DOMAIN buckets : \A i \in 1 .. Len(buckets[k]) :
          \A v \in Threads : pending'[v].on => buckets[k][i] <= pending'[v].now
    BY <1>5 DEF IInv, StampsInOrder
  <2> QED BY <1>1, <2>1, <2>2, <2>3 DEF IInv, StampsInOrder
<1>7. BucketsAreUsed' /\ WindowLimit' /\ RetryAfterSuffices'
  BY <1>1 DEF IInv, BucketsAreUsed, WindowLimit, RetryAfterSuffices, Hits
<1>8. LogInOrder'
  BY <1>1, <1>5 DEF IInv, LogInOrder
<1>9. \A n \in Nat : MayCome(n)' => MayCome(n)
  BY <1>1, <1>5 DEF MayCome
<1>10. NothingIsLost'
  BY <1>1, <1>9 DEF IInv, NothingIsLost, Hits
<1> QED BY <1>3, <1>6, <1>7, <1>8, <1>10 DEF IInv

\* Time passes.
LEMMA TickKeepsIInv ==
    ASSUME IInv, Tick
    PROVE  IInv'
<1>1. /\ clock' = clock + 1 /\ clock \in Nat
      /\ UNCHANGED <<buckets, lastCleanup, maxWindow, pending, log, advice>>
  BY DEF Tick, IInv, LimiterTypeOK
<1>2. LimiterTypeOK'
  BY <1>1 DEF IInv, LimiterTypeOK
<1>3. \A n \in Nat : n <= clock => n <= clock'
  BY <1>1
<1>4. StampsInOrder'
  <2>1. lastCleanup <= clock'
    BY <1>1, <1>3 DEF IInv, LimiterTypeOK, StampsInOrder
  <2>2. ASSUME NEW v \in Threads, pending[v].on PROVE pending[v].now <= clock'
    <3>1. pending[v].now \in Nat /\ pending[v].now <= clock
      BY <2>2, RunningCheck DEF IInv, StampsInOrder, Check
    <3> QED BY <1>3, <3>1
  <2>3. ASSUME NEW k \in DOMAIN buckets, NEW i \in 1 .. Len(buckets[k])
        PROVE  buckets[k][i] <= clock'
    <3>1. buckets[k][i] \in Nat /\ buckets[k][i] <= clock
      BY <2>3 DEF IInv, LimiterTypeOK, StampsInOrder
    <3> QED BY <1>3, <3>1
  <2> QED BY <1>1, <2>1, <2>2, <2>3 DEF IInv, StampsInOrder
<1>5. LogInOrder'
  <2>1. ASSUME NEW k \in Keys, NEW i \in 1 .. Len(log[k]) PROVE log[k][i] <= clock'
    <3>1. log[k][i] \in Nat /\ log[k][i] <= clock
      BY DEF IInv, LimiterTypeOK, LogInOrder
    <3> QED BY <1>3, <3>1
  <2> QED BY <1>1, <2>1 DEF IInv, LogInOrder
<1>6. \A n \in Nat : MayCome(n)' => MayCome(n)
  BY <1>1 DEF MayCome
<1>7. NothingIsLost'
  BY <1>1, <1>6 DEF IInv, NothingIsLost, Hits
<1>8. BucketsAreUsed' /\ WindowLimit' /\ RetryAfterSuffices'
  BY <1>1 DEF IInv, BucketsAreUsed, WindowLimit, RetryAfterSuffices, Hits
<1> QED BY <1>2, <1>4, <1>5, <1>7, <1>8 DEF IInv

\* The time a refusal names is when the first live hit is out, or later.
LEMMA AdviceIsLate ==
    ASSUME NEW e \in Seq(Nat), 1 \in 1 .. Len(e), NEW w \in Nat, NEW now \in Nat,
           e[1] + w > now
    PROVE  /\ now + RetryAfter(e, w, now) * PerSecond \in Nat
           /\ e[1] + w <= now + RetryAfter(e, w, now) * PerSecond
<1> USE RateLimiterAssumption
<1> DEFINE x == e[1] + w - now
           q == x \div PerSecond + 1
<1>1. e[1] \in Nat
  OBVIOUS
<1>2. x \in Int /\ x > 0 /\ now + x = e[1] + w
  BY <1>1
<1>3. RetryAfter(e, w, now) = LargerOf(q, 1)
  BY DEF RetryAfter
<1> HIDE DEF x
<1>4. q \in Int /\ q * PerSecond > x
  BY <1>2, RoundedUp
<1> HIDE DEF q
<1>5. q >= 1
  <2>1. q <= 0 => q * PerSecond <= 0
    BY <1>4
  <2> QED BY <1>2, <1>4, <2>1
<1>6. RetryAfter(e, w, now) = q
  BY <1>3, <1>4, <1>5 DEF LargerOf
<1>7. q * PerSecond \in Int
  BY <1>4
<1>8. now + q * PerSecond \in Nat /\ e[1] + w <= now + q * PerSecond
  <2> DEFINE y == q * PerSecond
  <2>1. y \in Int /\ y > x
    BY <1>4, <1>7
  <2> HIDE DEF y
  <2>2. now + y \in Nat /\ e[1] + w <= now + y
    BY <1>1, <1>2, <2>1
  <2> QED BY <2>2 DEF y
<1> QED BY <1>6, <1>8

\* What the running check sees: its key, its stamp, the bucket and what is live.
LEMMA TheCheck ==
    ASSUME IInv, NEW t \in Threads, pending[t].on
    PROVE  \E k \in Keys, now \in Nat, h \in Seq(Nat), e \in Seq(Nat) :
             /\ k = pending[t].key /\ now = pending[t].now
             /\ h = Hits(k) /\ e = Live(t)
             /\ now <= clock /\ lastCleanup <= now
             /\ h # <<>> => k \in DOMAIN buckets /\ h = buckets[k]
             /\ \A i \in 1 .. Len(e) : e[i] <= clock /\ e[i] + WindowOf(k) > now
<1> DEFINE k   == pending[t].key
           now == pending[t].now
           w   == WindowOf(k)
           h   == Hits(k)
           e   == Live(t)
<1>1. /\ k \in Keys /\ now \in Nat /\ now <= clock /\ clock \in Nat /\ lastCleanup <= now
      /\ w \in Nat
  BY RunningCheck, Budget DEF IInv, Check, StampsInOrder, LimiterTypeOK
<1>2. /\ h \in Seq(Nat) /\ InOrder(h) /\ \A i \in 1 .. Len(h) : h[i] <= clock
  BY <1>1, HitsInOrder DEF IInv
<1>3. e = Evicted(h, w, now)
  BY DEF Live
<1>4. h # <<>> => k \in DOMAIN buckets /\ h = buckets[k]
  BY DEF Hits
<1> HIDE DEF k, now, w, h, e
<1>5. PICK d \in 0 .. Len(h) : Cut(h, w, now, d, e)
  BY <1>1, <1>2, <1>3, EvictedCuts
<1>6. d \in Nat /\ e \in Seq(Nat)
  BY <1>2, <1>5 DEF Cut
<1>7. \A i \in 1 .. Len(e) : \E j \in 1 .. Len(h) : e[i] = h[j] /\ e[i] + w > now
  BY <1>1, <1>2, <1>5, <1>6, CutInOrder
<1>8. \A i \in 1 .. Len(e) : e[i] <= clock /\ e[i] + w > now
  BY <1>2, <1>7
<1> QED
  BY <1>1, <1>2, <1>4, <1>6, <1>8 DEF k, now, w, h, e

\* A refusal keeps what is live, and the time it names is when the first of these
\* is out.
LEMMA RefuseKeepsIInv ==
    ASSUME IInv, OneAtATime, NEW t \in Threads, Refuse(t)
    PROVE  IInv'
<1> USE RateLimiterAssumption
<1>1. PICK k \in Keys, now \in Nat, h \in Seq(Nat), e \in Seq(Nat) :
        /\ k = pending[t].key /\ now = pending[t].now
        /\ h = Hits(k) /\ e = Live(t)
        /\ now <= clock /\ lastCleanup <= now
        /\ h # <<>> => k \in DOMAIN buckets /\ h = buckets[k]
        /\ \A i \in 1 .. Len(e) : e[i] <= clock /\ e[i] + WindowOf(k) > now
  BY TheCheck DEF Refuse
<1>2. /\ Len(e) >= LimitOf(k)
      /\ maxWindow' = LargerOf(maxWindow, WindowOf(k))
      /\ buckets' = Stored(k, e)
      /\ advice' = [advice EXCEPT ![k] = now + RetryAfter(e, WindowOf(k), now) * PerSecond]
      /\ pending' = [pending EXCEPT ![t] = NoCheck]
      /\ UNCHANGED <<clock, lastCleanup, log>>
  BY <1>1 DEF Refuse
<1>3. PICK w \in Nat \ {0} : w = WindowOf(k)
  BY Budget
<1>4. LimitOf(k) \in Nat \ {0} /\ clock \in Nat
  BY Budget DEF IInv, LimiterTypeOK
<1>5. /\ InOrder(e) /\ Len(e) <= Len(h)
      /\ e # <<>> => h # <<>> /\ e[Len(e)] = h[Len(h)]
      /\ \A n \in Nat : now <= n => Evicted(e, w, n) = Evicted(h, w, n)
  BY <1>1, <1>3, LiveInOrder DEF IInv, Refuse
<1>6. Len(e) \in Nat /\ e # <<>> /\ h # <<>> /\ 1 \in 1 .. Len(e)
  <2>1. Len(e) \in Nat /\ Len(e) # 0
    BY <1>2, <1>4
  <2>2. e # <<>>
    BY <2>1, EmptySeq
  <2> QED BY <1>5, <2>1, <2>2
<1>7. k \in DOMAIN buckets /\ h = buckets[k] /\ e[Len(e)] = h[Len(h)]
  BY <1>1, <1>5, <1>6
<1>8. PICK adv \in Nat : /\ adv = now + RetryAfter(e, w, now) * PerSecond
                         /\ e[1] + w <= adv
  BY <1>1, <1>3, <1>6, AdviceIsLate
<1>9. /\ maxWindow' \in Nat /\ maxWindow <= maxWindow' /\ w <= maxWindow'
  BY <1>2, <1>3, Horizon DEF IInv, LimiterTypeOK
<1>10. /\ DOMAIN buckets' = DOMAIN buckets /\ DOMAIN buckets' \subseteq Keys
       /\ buckets' \in [DOMAIN buckets' -> Seq(Nat)]
       /\ buckets'[k] = e
       /\ \A l \in DOMAIN buckets : l # k => buckets'[l] = buckets[l]
  <2>1. DOMAIN buckets \cup {k} = DOMAIN buckets
    BY <1>7
  <2>2. /\ DOMAIN Stored(k, e) = DOMAIN buckets \cup {k}
        /\ DOMAIN Stored(k, e) \subseteq Keys
        /\ Stored(k, e) \in [DOMAIN Stored(k, e) -> Seq(Nat)]
        /\ Stored(k, e)[k] = e
        /\ \A l \in DOMAIN buckets : l # k => Stored(k, e)[l] = buckets[l]
    BY StoredBucket DEF IInv
  <2> QED BY <1>2, <2>1, <2>2
<1>11. LimiterTypeOK'
  BY <1>2, <1>3, <1>8, <1>9, <1>10 DEF IInv, LimiterTypeOK
<1>12. StampsInOrder'
  <2>1. \A v \in Threads : ~pending'[v].on
    BY <1>2 DEF IInv, LimiterTypeOK, NoCheck, OneAtATime
  <2>2. \A l \in DOMAIN buckets' :
          InOrder(buckets'[l]) /\ \A i \in 1 .. Len(buckets'[l]) : buckets'[l][i] <= clock
    BY <1>1, <1>5, <1>10 DEF IInv, StampsInOrder
  <2>3. lastCleanup <= clock
    BY DEF IInv, StampsInOrder
  <2> QED BY <1>2, <2>1, <2>2, <2>3 DEF StampsInOrder
<1>13. BucketsAreUsed'
  <2> SUFFICES ASSUME NEW l \in DOMAIN buckets
               PROVE  /\ buckets'[l] # <<>>
                      /\ Len(buckets'[l]) <= LimitOf(l)
                      /\ WindowOf(l) <= maxWindow'
                      /\ buckets'[l][Len(buckets'[l])] + maxWindow' > lastCleanup
    BY <1>2, <1>10 DEF BucketsAreUsed
  <2>1. /\ buckets[l] # <<>> /\ Len(buckets[l]) <= LimitOf(l)
        /\ WindowOf(l) <= maxWindow
        /\ buckets[l][Len(buckets[l])] + maxWindow > lastCleanup
    BY DEF IInv, BucketsAreUsed
  <2>2. /\ l \in Keys /\ buckets[l] \in Seq(Nat) /\ maxWindow \in Nat
        /\ lastCleanup \in Nat /\ LimitOf(l) \in Nat /\ WindowOf(l) \in Nat
    BY Budget DEF IInv, LimiterTypeOK
  <2>3. PICK last \in Nat : last = buckets[l][Len(buckets[l])]
    <3>1. Len(buckets[l]) \in 1 .. Len(buckets[l])
      BY <2>1, <2>2, EmptySeq
    <3> QED BY <2>2, <3>1
  <2>4. WindowOf(l) <= maxWindow' /\ last + maxWindow' > lastCleanup
    <3>1. last + maxWindow > lastCleanup
      BY <2>1, <2>3
    <3>2. last + maxWindow' > lastCleanup
      <4>1. maxWindow \in Nat /\ maxWindow' \in Nat /\ lastCleanup \in Nat
            /\ maxWindow <= maxWindow'
        BY <1>9, <2>2
      <4> QED BY <2>3, <3>1, <4>1
    <3>3. WindowOf(l) <= maxWindow'
      BY <1>9, <2>1, <2>2
    <3> QED BY <3>2, <3>3
  <2>5. CASE l # k
    BY <1>10, <2>1, <2>3, <2>4, <2>5
  <2>6. CASE l = k
    <3>1. Len(e) <= LimitOf(l)
      BY <1>5, <1>6, <1>7, <2>1, <2>2, <2>6
    <3>2. e[Len(e)] = last
      BY <1>7, <2>3, <2>6
    <3> QED BY <1>6, <1>10, <2>4, <2>6, <3>1, <3>2
  <2> QED BY <2>5, <2>6
<1>14. /\ Hits(k)' = e
       /\ \A l \in Keys : l # k => Hits(l)' = Hits(l)
  BY <1>7, <1>10 DEF Hits
<1>15. NothingIsLost'
  <2>1. \A v \in Threads : ~pending'[v].on
    BY <1>2 DEF IInv, LimiterTypeOK, NoCheck, OneAtATime
  <2> SUFFICES ASSUME NEW l \in Keys, NEW n \in Nat, clock <= n
               PROVE  Evicted(log[l], WindowOf(l), n) = Evicted(Hits(l)', WindowOf(l), n)
    BY <1>2, <2>1 DEF NothingIsLost, MayCome
  <2>2. Evicted(log[l], WindowOf(l), n) = Evicted(Hits(l), WindowOf(l), n)
    BY DEF IInv, NothingIsLost, MayCome
  <2>3. CASE l = k
    <3>1. now <= n
      BY <1>1, <1>4
    <3> QED BY <1>1, <1>3, <1>5, <1>14, <2>2, <2>3, <3>1
  <2>4. CASE l # k
    BY <1>14, <2>2, <2>4
  <2> QED BY <2>3, <2>4
<1>16. RetryAfterSuffices'
  <2>1. Len(Evicted(e, w, adv)) < LimitOf(k)
    <3>1. PICK c \in 0 .. Len(e) : Cut(e, w, adv, c, Evicted(e, w, adv))
      BY <1>5, EvictedCuts
    <3>2. c # 0
      <4> SUFFICES ASSUME c = 0 PROVE FALSE
        OBVIOUS
      <4>1. 1 \in (c + 1) .. Len(e)
        BY <1>6
      <4>2. e[1] + w > adv
        BY <3>1, <4>1 DEF Cut
      <4>3. e[1] \in Nat
        BY <1>6
      <4> QED BY <1>8, <4>2, <4>3
    <3>3. Len(Evicted(e, w, adv)) = Len(e) - c
      BY <3>1 DEF Cut
    <3>4. Len(h) <= LimitOf(k) /\ Len(h) \in Nat
      BY <1>7 DEF IInv, BucketsAreUsed
    <3> QED BY <1>4, <1>5, <1>6, <3>1, <3>2, <3>3, <3>4
  <2>2. advice'[k] = adv /\ \A l \in Keys : l # k => advice'[l] = advice[l]
    BY <1>2, <1>3, <1>8 DEF IInv, LimiterTypeOK
  <2> SUFFICES ASSUME NEW l \in Keys, advice'[l] # 0
               PROVE  Len(Evicted(Hits(l)', WindowOf(l), advice'[l])) < LimitOf(l)
    BY DEF RetryAfterSuffices
  <2>3. CASE l = k
    BY <1>3, <1>14, <2>1, <2>2, <2>3
  <2>4. CASE l # k
    BY <1>14, <2>2, <2>4 DEF IInv, RetryAfterSuffices
  <2> QED BY <2>3, <2>4
<1>17. LogInOrder'
  <2>1. \A v \in Threads : ~pending'[v].on
    BY <1>2 DEF IInv, LimiterTypeOK, NoCheck, OneAtATime
  <2> QED BY <1>2, <2>1 DEF IInv, LogInOrder
<1>18. WindowLimit'
  BY <1>2 DEF IInv, WindowLimit
<1> QED BY <1>11, <1>12, <1>13, <1>15, <1>16, <1>17, <1>18 DEF IInv

\* A stamp added at the end of a bucket.
LEMMA Appended ==
    ASSUME NEW e \in Seq(Nat), NEW n \in Nat
    PROVE  /\ Append(e, n) \in Seq(Nat) /\ Append(e, n) # <<>>
           /\ Len(Append(e, n)) = Len(e) + 1 /\ Append(e, n)[Len(e) + 1] = n
           /\ \A i \in 1 .. Len(e) : Append(e, n)[i] = e[i]
BY AppendProperties

\* A hit that is allowed: its bucket stays, and those the sweep drops have nothing
\* in the largest window.
AllowLeaves(t, k, now) ==
    /\ maxWindow' \in Nat /\ maxWindow <= maxWindow' /\ WindowOf(k) <= maxWindow'
    /\ lastCleanup' \in Nat /\ lastCleanup' <= now
    /\ now < lastCleanup' + Interval \/ lastCleanup' = now
    /\ k \in DOMAIN buckets' /\ DOMAIN buckets' \subseteq DOMAIN buckets \cup {k}
    /\ buckets' \in [DOMAIN buckets' -> Seq(Nat)]
    /\ buckets'[k] = Append(Live(t), now)
    /\ \A l \in DOMAIN buckets' :
         /\ l # k => buckets'[l] = buckets[l]
         /\ buckets'[l][Len(buckets'[l])] + maxWindow' > lastCleanup'
    /\ \A l \in DOMAIN buckets \ DOMAIN buckets' :
         l # k /\ ~ (buckets[l][Len(buckets[l])] + maxWindow' > now)

LEMMA AllowEffect ==
    ASSUME IInv, NEW t \in Threads, Allow(t),
           NEW k \in Keys, k = pending[t].key, NEW now \in Nat, now = pending[t].now
    PROVE  AllowLeaves(t, k, now)
<1> USE RateLimiterAssumption
<1>1. /\ maxWindow \in Nat /\ lastCleanup \in Nat /\ lastCleanup <= now
      /\ WindowOf(k) \in Nat \ {0}
  BY Budget DEF IInv, LimiterTypeOK, StampsInOrder, Allow
<1>2. maxWindow' = LargerOf(maxWindow, WindowOf(k))
  BY DEF Allow
<1>3. PICK m \in Nat : m = maxWindow' /\ maxWindow <= m /\ WindowOf(k) <= m
  BY <1>1, <1>2, Horizon
<1>4. PICK h \in Seq(Nat) : /\ h = Append(Live(t), now) /\ Len(h) \in Nat
                            /\ h # <<>> /\ h[Len(h)] = now
  <2>1. PICK e \in Seq(Nat) : e = Live(t)
    BY LiveInOrder DEF IInv, Allow
  <2>2. /\ Append(e, now) \in Seq(Nat) /\ Append(e, now) # <<>>
        /\ Len(Append(e, now)) = Len(e) + 1 /\ Append(e, now)[Len(e) + 1] = now
    BY Appended
  <2>3. PICK g \in Seq(Nat) : g = Append(e, now)
    BY <2>2
  <2>4. g # <<>> /\ g[Len(g)] = now /\ Len(g) \in Nat
    BY <2>2, <2>3
  <2> QED BY <2>1, <2>3, <2>4
<1>5. PICK b : b = Stored(k, h)
  OBVIOUS
<1>6. /\ DOMAIN b = DOMAIN buckets \cup {k} /\ DOMAIN b \subseteq Keys
      /\ b \in [DOMAIN b -> Seq(Nat)]
      /\ b[k] = h
      /\ \A l \in DOMAIN buckets : l # k => b[l] = buckets[l]
  <2>1. /\ DOMAIN Stored(k, h) = DOMAIN buckets \cup {k}
        /\ DOMAIN Stored(k, h) \subseteq Keys
        /\ Stored(k, h) \in [DOMAIN Stored(k, h) -> Seq(Nat)]
        /\ Stored(k, h)[k] = h
        /\ \A l \in DOMAIN buckets : l # k => Stored(k, h)[l] = buckets[l]
    BY <1>4, StoredBucket DEF IInv
  <2> QED BY <1>5, <2>1
<1>7. now + m > now
  BY <1>1, <1>3
<1>8. \A l \in DOMAIN b : b[l] # <<>>
  BY <1>4, <1>6 DEF IInv, BucketsAreUsed
<1> SUFFICES /\ lastCleanup' \in Nat /\ lastCleanup' <= now
             /\ now < lastCleanup' + Interval \/ lastCleanup' = now
             /\ k \in DOMAIN buckets' /\ DOMAIN buckets' \subseteq DOMAIN buckets \cup {k}
             /\ buckets' \in [DOMAIN buckets' -> Seq(Nat)]
             /\ buckets'[k] = h
             /\ \A l \in DOMAIN buckets' :
                  /\ l # k => buckets'[l] = buckets[l]
                  /\ buckets'[l][Len(buckets'[l])] + m > lastCleanup'
             /\ \A l \in DOMAIN buckets \ DOMAIN buckets' :
                  l # k /\ ~ (buckets[l][Len(buckets[l])] + m > now)
  BY <1>3, <1>4 DEF AllowLeaves
<1>9. CASE now - lastCleanup >= Interval
  <2>1. buckets' = Swept(b, now, m) /\ lastCleanup' = now
    BY <1>3, <1>4, <1>5, <1>9 DEF Allow
  <2>2. /\ DOMAIN buckets' = {l \in DOMAIN b : b[l] # <<>> /\ b[l][Len(b[l])] + m > now}
        /\ \A l \in DOMAIN buckets' : buckets'[l] = b[l]
        /\ buckets' \in [DOMAIN buckets' -> Seq(Nat)]
    <3>1. \A l \in DOMAIN b : b[l] \in Seq(Nat)
      BY <1>6
    <3> QED BY <2>1, <3>1 DEF Swept
  <2>3. k \in DOMAIN buckets'
    BY <1>4, <1>6, <1>7, <2>2
  <2>4. \A l \in DOMAIN buckets' :
          /\ l # k => buckets'[l] = buckets[l]
          /\ buckets'[l][Len(buckets'[l])] + m > now
    BY <1>6, <2>2
  <2>5. \A l \in DOMAIN buckets \ DOMAIN buckets' :
          l # k /\ ~ (buckets[l][Len(buckets[l])] + m > now)
    BY <1>6, <1>8, <2>2, <2>3
  <2>6. DOMAIN buckets' \subseteq DOMAIN buckets \cup {k} /\ buckets'[k] = h
    BY <1>6, <2>2, <2>3
  <2> QED BY <2>1, <2>2, <2>3, <2>4, <2>5, <2>6
<1>10. CASE ~ (now - lastCleanup >= Interval)
  <2>1. buckets' = b /\ lastCleanup' = lastCleanup
    BY <1>4, <1>5, <1>10 DEF Allow
  <2>2. now < lastCleanup + Interval
    BY <1>1, <1>10
  <2>3. ASSUME NEW l \in DOMAIN b PROVE b[l][Len(b[l])] + m > lastCleanup
    <3>1. CASE l = k
      <4>1. b[l][Len(b[l])] = now
        BY <1>4, <1>6, <3>1
      <4>2. now + m > lastCleanup
        BY <1>1, <1>3
      <4> QED BY <4>1, <4>2
    <3>2. CASE l # k
      <4>1. /\ b[l] = buckets[l] /\ buckets[l] \in Seq(Nat) /\ buckets[l] # <<>>
            /\ buckets[l][Len(buckets[l])] + maxWindow > lastCleanup
        BY <1>6, <3>2 DEF IInv, LimiterTypeOK, BucketsAreUsed
      <4>2. PICK last \in Nat : last = buckets[l][Len(buckets[l])]
        <5>1. Len(buckets[l]) \in 1 .. Len(buckets[l])
          BY <4>1, EmptySeq
        <5> QED BY <4>1, <5>1
      <4>3. last + maxWindow > lastCleanup
        BY <4>1, <4>2
      <4>4. last + m > lastCleanup
        BY <1>1, <1>3, <4>2, <4>3
      <4> QED BY <4>1, <4>2, <4>4
    <3> QED BY <3>1, <3>2
  <2>4. DOMAIN buckets \ DOMAIN buckets' = {}
    BY <1>6, <2>1
  <2> QED BY <1>1, <1>6, <2>1, <2>2, <2>3, <2>4
<1> QED BY <1>9, <1>10

\* A stamp of a bucket is at most its last one.
LEMMA LastIsLargest ==
    ASSUME IInv, NEW l \in DOMAIN buckets, NEW i \in 1 .. Len(buckets[l])
    PROVE  /\ buckets[l][i] \in Nat /\ buckets[l][Len(buckets[l])] \in Nat
           /\ buckets[l][i] <= buckets[l][Len(buckets[l])]
<1>1. buckets[l] \in Seq(Nat) /\ InOrder(buckets[l])
  BY DEF IInv, LimiterTypeOK, StampsInOrder
<1>2. Len(buckets[l]) \in 1 .. Len(buckets[l]) /\ i <= Len(buckets[l])
  BY <1>1
<1> QED BY <1>1, <1>2 DEF InOrder

\* What the sweep drops is out of its own window.
LEMMA DroppedIsDead ==
    ASSUME IInv, NEW t \in Threads, Allow(t), NEW l \in DOMAIN buckets \ DOMAIN buckets',
           NEW i \in 1 .. Len(buckets[l])
    PROVE  buckets[l][i] + WindowOf(l) <= clock
<1>1. PICK k \in Keys, now \in Nat, h \in Seq(Nat), e \in Seq(Nat) :
        /\ k = pending[t].key /\ now = pending[t].now /\ now <= clock
  BY TheCheck DEF Allow
<1>2. /\ maxWindow' \in Nat /\ maxWindow <= maxWindow'
      /\ ~ (buckets[l][Len(buckets[l])] + maxWindow' > now)
  <2>1. AllowLeaves(t, k, now)
    BY <1>1, AllowEffect DEF Allow
  <2> QED BY <2>1 DEF AllowLeaves
<1>3. PICK m \in Nat : m = maxWindow' /\ maxWindow <= m
  BY <1>2
<1>4. WindowOf(l) \in Nat /\ WindowOf(l) <= maxWindow /\ maxWindow \in Nat /\ clock \in Nat
  BY Budget DEF IInv, LimiterTypeOK, BucketsAreUsed
<1>5. PICK s \in Nat, last \in Nat : /\ s = buckets[l][i]
                                     /\ last = buckets[l][Len(buckets[l])] /\ s <= last
  BY LastIsLargest
<1>6. ~ (last + m > now) /\ now <= clock /\ now \in Nat
  BY <1>1, <1>2, <1>3, <1>5
<1>7. s + WindowOf(l) <= clock
  BY <1>3, <1>4, <1>5, <1>6
<1> QED BY <1>5, <1>7

\* A hit that is allowed is counted, and nothing that counts is lost.
LEMMA AllowKeepsIInv ==
    ASSUME IInv, OneAtATime, NEW t \in Threads, Allow(t)
    PROVE  IInv'
<1> USE RateLimiterAssumption
<1>1. PICK k \in Keys, now \in Nat, h \in Seq(Nat), e \in Seq(Nat) :
        /\ k = pending[t].key /\ now = pending[t].now
        /\ h = Hits(k) /\ e = Live(t)
        /\ now <= clock /\ lastCleanup <= now
        /\ h # <<>> => k \in DOMAIN buckets /\ h = buckets[k]
        /\ \A i \in 1 .. Len(e) : e[i] <= clock /\ e[i] + WindowOf(k) > now
  BY TheCheck DEF Allow
<1>2. PICK w \in Nat \ {0} : w = WindowOf(k)
  BY Budget
<1>3. PICK g \in Seq(Nat) : /\ g = Append(e, now) /\ InOrder(g) /\ Len(g) = Len(e) + 1
                            /\ g # <<>> /\ \A i \in 1 .. Len(g) : g[i] <= clock
  <2>1. InOrder(Append(e, now))
    BY <1>1, LiveInOrder DEF IInv, Allow
  <2>2. /\ Append(e, now) \in Seq(Nat) /\ Len(Append(e, now)) = Len(e) + 1
        /\ Append(e, now) # <<>> /\ Append(e, now)[Len(e) + 1] = now
        /\ \A i \in 1 .. Len(e) : Append(e, now)[i] = e[i]
    BY <1>1, Appended
  <2>3. ASSUME NEW i \in 1 .. (Len(e) + 1) PROVE Append(e, now)[i] <= clock
    <3>1. i \in 1 .. Len(e) \/ i = Len(e) + 1
      OBVIOUS
    <3> QED BY <1>1, <2>2, <3>1
  <2> QED BY <2>1, <2>2, <2>3
<1>4. /\ Len(e) < LimitOf(k)
      /\ log' = [log EXCEPT ![k] = Evicted(Append(@, now), w, now)]
      /\ advice' = [advice EXCEPT ![k] = 0]
      /\ Proceed(t) /\ clock' = clock
  BY <1>1, <1>2 DEF Allow
<1>5. /\ maxWindow' \in Nat /\ maxWindow <= maxWindow' /\ w <= maxWindow'
      /\ lastCleanup' \in Nat /\ lastCleanup' <= now
      /\ k \in DOMAIN buckets' /\ DOMAIN buckets' \subseteq DOMAIN buckets \cup {k}
      /\ buckets' \in [DOMAIN buckets' -> Seq(Nat)]
      /\ buckets'[k] = g
      /\ \A l \in DOMAIN buckets' :
           /\ l # k => buckets'[l] = buckets[l]
           /\ buckets'[l][Len(buckets'[l])] + maxWindow' > lastCleanup'
  <2>1. /\ maxWindow' \in Nat /\ maxWindow <= maxWindow' /\ WindowOf(k) <= maxWindow'
        /\ lastCleanup' \in Nat /\ lastCleanup' <= now
        /\ k \in DOMAIN buckets' /\ DOMAIN buckets' \subseteq DOMAIN buckets \cup {k}
        /\ buckets' \in [DOMAIN buckets' -> Seq(Nat)]
        /\ buckets'[k] = Append(Live(t), now)
        /\ \A l \in DOMAIN buckets' :
             /\ l # k => buckets'[l] = buckets[l]
             /\ buckets'[l][Len(buckets'[l])] + maxWindow' > lastCleanup'
    <3>1. AllowLeaves(t, k, now)
      BY <1>1, AllowEffect
    <3> QED BY <3>1 DEF AllowLeaves
  <2>2. WindowOf(k) = w /\ Append(Live(t), now) = g
    BY <1>1, <1>2, <1>3
  <2> QED BY <2>1, <2>2
<1>6. clock \in Nat /\ LimitOf(k) \in Nat \ {0} /\ Len(e) \in Nat
  BY Budget DEF IInv, LimiterTypeOK
<1>7. /\ pending' \in [Threads -> {NoCheck} \cup Check]
      /\ \A v \in Threads : pending'[v].on => pending'[v].now = clock
  <2>1. pending[t] \in Check
    BY RunningCheck DEF IInv, Allow
  <2>2. [on |-> TRUE, key |-> <<"login", pending[t].key[2]>>, login |-> FALSE,
         now |-> clock] \in Check
    BY <1>6, <2>1 DEF Check, Keys, Budgets
  <2>3. pending' = [pending EXCEPT ![t] =
                      IF pending[t].login
                        THEN [on |-> TRUE, key |-> <<"login", pending[t].key[2]>>,
                              login |-> FALSE, now |-> clock]
                        ELSE NoCheck]
    BY <1>4 DEF Proceed
  <2>4. pending \in [Threads -> {NoCheck} \cup Check]
    BY DEF IInv, LimiterTypeOK
  <2>5. pending' \in [Threads -> {NoCheck} \cup Check]
    BY <2>2, <2>3, <2>4
  <2>6. \A v \in Threads : v = t
    BY DEF OneAtATime
  <2>7. pending'[t].on => pending'[t].now = clock
    BY <2>3, <2>4 DEF NoCheck
  <2> QED BY <2>5, <2>6, <2>7
<1>8. log'[k] = Evicted(Append(log[k], now), w, now)
  BY <1>4 DEF IInv, LimiterTypeOK
<1>9. /\ log'[k] \in Seq(Nat) /\ InOrder(log'[k])
      /\ \A i \in 1 .. Len(log'[k]) : log'[k][i] <= now
      /\ Len(log'[k]) <= Len(e) + 1
      /\ \A n \in Nat : now <= n => Evicted(log'[k], w, n) = Evicted(g, w, n)
  <2> DEFINE x == Evicted(Append(log[k], now), w, now)
  <2>1. pending[t].on /\ k = pending[t].key /\ now = pending[t].now /\ w = WindowOf(k)
        /\ e = Live(t) /\ g = Append(Live(t), now)
    BY <1>1, <1>2, <1>3 DEF Allow
  <2>2. /\ x \in Seq(Nat) /\ InOrder(x)
        /\ \A i \in 1 .. Len(x) : x[i] <= now
        /\ Len(x) <= Len(Live(t)) + 1
        /\ \A n \in Nat : now <= n => Evicted(x, w, n) = Evicted(Append(Live(t), now), w, n)
    BY <2>1, LogGrows DEF IInv
  <2>3. log'[k] = x
    BY <1>8
  <2> HIDE DEF x
  <2> QED BY <2>1, <2>2, <2>3
<1>10. \A l \in Keys : l # k => log'[l] = log[l] /\ advice'[l] = advice[l]
  BY <1>4 DEF IInv, LimiterTypeOK
<1>11. LimiterTypeOK'
  <2>2. log' \in [Keys -> Seq(Nat)] /\ advice' \in [Keys -> Nat]
    BY <1>4, <1>8, <1>9 DEF IInv, LimiterTypeOK
  <2>3. DOMAIN buckets' \subseteq Keys
    BY <1>5 DEF IInv, LimiterTypeOK
  <2> QED BY <1>4, <1>5, <1>6, <1>7, <2>2, <2>3 DEF LimiterTypeOK
<1>12. StampsInOrder'
  <2>1. lastCleanup' <= clock
    BY <1>1, <1>5, <1>6
  <2>2. ASSUME NEW l \in DOMAIN buckets'
        PROVE  /\ InOrder(buckets'[l])
               /\ \A i \in 1 .. Len(buckets'[l]) : buckets'[l][i] <= clock
    <3>1. CASE l = k
      BY <1>3, <1>5, <3>1
    <3>2. CASE l # k
      BY <1>5, <3>2 DEF IInv, StampsInOrder
    <3> QED BY <3>1, <3>2
  <2>3. ASSUME NEW v \in Threads, pending'[v].on
        PROVE  lastCleanup' <= pending'[v].now /\ pending'[v].now <= clock
    BY <1>6, <1>7, <2>1, <2>3
  <2>4. ASSUME NEW l \in DOMAIN buckets', NEW i \in 1 .. Len(buckets'[l]),
               NEW v \in Threads, pending'[v].on
        PROVE  buckets'[l][i] <= pending'[v].now
    BY <1>7, <2>2, <2>4
  <2>5. clock' = clock
    BY <1>4
  <2> QED BY <2>1, <2>2, <2>3, <2>4, <2>5 DEF StampsInOrder
<1>13. BucketsAreUsed'
  <2> SUFFICES ASSUME NEW l \in DOMAIN buckets'
               PROVE  /\ buckets'[l] # <<>>
                      /\ Len(buckets'[l]) <= LimitOf(l)
                      /\ WindowOf(l) <= maxWindow'
    BY <1>5 DEF BucketsAreUsed
  <2>1. CASE l = k
    BY <1>2, <1>3, <1>4, <1>5, <1>6, <2>1
  <2>2. CASE l # k
    <3>1. l \in DOMAIN buckets /\ buckets'[l] = buckets[l]
      BY <1>5, <2>2
    <3>2. /\ buckets[l] # <<>> /\ Len(buckets[l]) <= LimitOf(l)
          /\ WindowOf(l) <= maxWindow
      BY <3>1 DEF IInv, BucketsAreUsed
    <3>3. WindowOf(l) \in Nat /\ maxWindow \in Nat
      BY <3>1, Budget DEF IInv, LimiterTypeOK
    <3>4. WindowOf(l) <= maxWindow'
      BY <1>5, <3>2, <3>3
    <3> QED BY <3>1, <3>2, <3>4
  <2> QED BY <2>1, <2>2
<1>14. ASSUME NEW l \in Keys, l # k, Hits(l)' # Hits(l)
       PROVE  Hits(l)' = <<>> /\ l \in DOMAIN buckets \ DOMAIN buckets'
  BY <1>5, <1>14 DEF Hits
<1>15. NothingIsLost'
  <2>1. ASSUME NEW n \in Nat, MayCome(n)' PROVE clock <= n
    BY <1>4, <1>7, <2>1 DEF MayCome
  <2> SUFFICES ASSUME NEW l \in Keys, NEW n \in Nat, clock <= n
               PROVE  Evicted(log'[l], WindowOf(l), n) = Evicted(Hits(l)', WindowOf(l), n)
    BY <2>1 DEF NothingIsLost
  <2>2. CASE l = k
    <3>1. now <= n
      BY <1>1, <1>6
    <3> QED BY <1>2, <1>5, <1>9, <2>2, <3>1 DEF Hits
  <2>3. l # k => Evicted(log'[l], WindowOf(l), n) = Evicted(Hits(l), WindowOf(l), n)
    BY <1>10 DEF IInv, NothingIsLost, MayCome
  <2>4. CASE l # k /\ Hits(l)' = Hits(l)
    BY <2>3, <2>4
  <2>5. CASE l # k /\ Hits(l)' # Hits(l)
    <3>1. Hits(l)' = <<>> /\ l \in DOMAIN buckets \ DOMAIN buckets'
      BY <1>14, <2>5
    <3>2. buckets[l] \in Seq(Nat) /\ WindowOf(l) \in Nat
      BY <3>1, Budget DEF IInv, LimiterTypeOK
    <3>3. ASSUME NEW i \in 1 .. Len(buckets[l]) PROVE buckets[l][i] + WindowOf(l) <= n
      <4>1. buckets[l][i] + WindowOf(l) <= clock /\ buckets[l][i] \in Nat
        BY <3>1, <3>2, DroppedIsDead
      <4> QED BY <1>6, <3>2, <4>1
    <3>4. Evicted(buckets[l], WindowOf(l), n) = <<>>
      BY <3>2, <3>3, AllOut
    <3>5. Evicted(log'[l], WindowOf(l), n) = <<>>
      BY <2>3, <2>5, <3>1, <3>4 DEF Hits
    <3>6. Evicted(<<>>, WindowOf(l), n) = <<>>
      BY <3>2, NothingOut
    <3> QED BY <3>1, <3>5, <3>6
  <2> QED BY <2>2, <2>4, <2>5
<1>16. RetryAfterSuffices'
  <2> SUFFICES ASSUME NEW l \in Keys, advice'[l] # 0
               PROVE  Len(Evicted(Hits(l)', WindowOf(l), advice'[l])) < LimitOf(l)
    BY DEF RetryAfterSuffices
  <2>1. l # k /\ advice'[l] = advice[l] /\ advice[l] \in Nat
    BY <1>4, <1>10 DEF IInv, LimiterTypeOK
  <2>2. CASE Hits(l)' = Hits(l)
    BY <2>1, <2>2 DEF IInv, RetryAfterSuffices
  <2>3. CASE Hits(l)' # Hits(l)
    <3>1. Hits(l)' = <<>>
      BY <1>14, <2>1, <2>3
    <3>2. WindowOf(l) \in Nat /\ LimitOf(l) \in Nat \ {0}
      BY Budget
    <3>3. Evicted(<<>>, WindowOf(l), advice[l]) = <<>>
      BY <2>1, <3>2, NothingOut
    <3> QED BY <2>1, <3>1, <3>2, <3>3
  <2> QED BY <2>2, <2>3
<1>17. LogInOrder'
  <2>1. ASSUME NEW l \in Keys
        PROVE  InOrder(log'[l]) /\ \A i \in 1 .. Len(log'[l]) : log'[l][i] <= clock
    <3>1. CASE l = k
      <4>1. ASSUME NEW i \in 1 .. Len(log'[k]) PROVE log'[k][i] <= clock
        <5>1. log'[k][i] \in Nat /\ log'[k][i] <= now
          BY <1>9
        <5> QED BY <1>1, <1>6, <5>1
      <4> QED BY <1>9, <3>1, <4>1
    <3>2. CASE l # k
      BY <1>10, <3>2 DEF IInv, LogInOrder
    <3> QED BY <3>1, <3>2
  <2> QED BY <1>4, <1>7, <2>1 DEF LogInOrder
<1>18. WindowLimit'
  <2>1. Len(log'[k]) <= LimitOf(k)
    <3>1. Len(log'[k]) \in Nat
      BY <1>9
    <3> QED BY <1>4, <1>6, <1>9, <3>1
  <2> QED BY <1>10, <2>1 DEF IInv, WindowLimit
<1> QED BY <1>11, <1>12, <1>13, <1>15, <1>16, <1>17, <1>18 DEF IInv

-----------------------------------------------------------------------------
(* Every step. *)

LEMMA NextKeepsIInv ==
    ASSUME OneAtATime
    PROVE  IInv /\ [LimiterNext]_limiterVars => IInv'
<1> SUFFICES ASSUME IInv, [LimiterNext]_limiterVars PROVE IInv'
  OBVIOUS
<1>1. ASSUME NEW t \in Threads, NEW c \in Clients, NEW login \in BOOLEAN,
             Arrive(t, c, login)
      PROVE  IInv'
  BY <1>1, ArriveKeepsIInv
<1>2. ASSUME NEW t \in Threads, Allow(t) PROVE IInv'
  BY <1>2, AllowKeepsIInv
<1>3. ASSUME NEW t \in Threads, Refuse(t) PROVE IInv'
  BY <1>3, RefuseKeepsIInv
<1>4. CASE Tick
  BY <1>4, TickKeepsIInv
<1>5. CASE UNCHANGED limiterVars
  <2> USE <1>5 DEF limiterVars, IInv
  <2>1. LimiterTypeOK'
    BY DEF LimiterTypeOK
  <2>2. StampsInOrder' /\ BucketsAreUsed'
    BY DEF StampsInOrder, BucketsAreUsed
  <2>3. NothingIsLost' /\ RetryAfterSuffices'
    BY DEF NothingIsLost, MayCome, RetryAfterSuffices, Hits
  <2>4. LogInOrder' /\ WindowLimit'
    BY DEF LogInOrder, WindowLimit
  <2> QED BY <2>1, <2>2, <2>3, <2>4
<1> QED BY <1>1, <1>2, <1>3, <1>4, <1>5 DEF LimiterNext

\* The inductive invariant holds in every reachable state of one event loop.
THEOREM IInvHolds ==
    ASSUME OneAtATime
    PROVE  LimiterSpec => []IInv
<1>1. IInv /\ [LimiterNext]_limiterVars => IInv'
  BY NextKeepsIInv
<1> QED BY <1>1, InitIInv, PTL DEF LimiterSpec

\* The limiter's state is always well typed.
THEOREM TypeCorrect ==
    ASSUME OneAtATime
    PROVE  LimiterSpec => []LimiterTypeOK
<1>1. IInv => LimiterTypeOK
  BY DEF IInv
<1> QED BY <1>1, IInvHolds, PTL

\* The limit holds over every window, for any limits, windows and sweeps.
THEOREM WindowLimitHolds ==
    ASSUME OneAtATime
    PROVE  LimiterSpec => []WindowLimit
<1>1. IInv => WindowLimit
  BY DEF IInv
<1> QED BY <1>1, IInvHolds, PTL

\* Retry-After is never too short.
THEOREM RetryAfterHolds ==
    ASSUME OneAtATime
    PROVE  LimiterSpec => []RetryAfterSuffices
<1>1. IInv => RetryAfterSuffices
  BY DEF IInv
<1> QED BY <1>1, IInvHolds, PTL

-----------------------------------------------------------------------------
(* The ideal limiter, which forgets nothing that counts. *)

\* The window is full when as many stamps are left as the limit.
LEMMA FullMeansMany ==
    ASSUME NEW h \in Seq(Nat), InOrder(h), NEW w \in Nat, NEW n \in Nat, NEW m \in Nat \ {0}
    PROVE  Len(h) >= m /\ h[Len(h) - m + 1] + w > n <=> Len(Evicted(h, w, n)) >= m
<1>1. PICK d \in 0 .. Len(h) : Cut(h, w, n, d, Evicted(h, w, n))
  BY EvictedCuts
<1>2. Len(Evicted(h, w, n)) = Len(h) - d /\ Len(h) \in Nat
  BY <1>1 DEF Cut
<1>3. ASSUME Len(h) - d >= m PROVE Len(h) >= m /\ h[Len(h) - m + 1] + w > n
  <2>1. Len(h) >= m /\ Len(h) - m + 1 \in (d + 1) .. Len(h)
    BY <1>2, <1>3
  <2> QED BY <1>1, <2>1 DEF Cut
<1>4. ASSUME ~(Len(h) - d >= m), Len(h) >= m PROVE ~(h[Len(h) - m + 1] + w > n)
  <2>1. Len(h) - m + 1 \in 1 .. d /\ Len(h) - m + 1 \in 1 .. Len(h)
    BY <1>2, <1>4
  <2> DEFINE j == Len(h) - m + 1
  <2>2. j \in 1 .. d /\ j \in 1 .. Len(h)
    BY <2>1
  <2> HIDE DEF j
  <2>3. h[j] + w <= n
    BY <1>1, <2>2 DEF Cut
  <2>4. h[j] \in Nat
    BY <2>2
  <2>5. ~(h[j] + w > n)
    BY <2>3, <2>4
  <2> QED BY <2>5 DEF j
<1> QED BY <1>2, <1>3, <1>4

\* For a check to come, the ideal window is full when the bucket is.
LEMMA FullSeen ==
    ASSUME IInv, NEW k \in Keys, NEW n \in Nat, MayCome(n)
    PROVE  Ideal!Full(k, n) <=> Len(Evicted(Hits(k), WindowOf(k), n)) >= LimitOf(k)
<1>1. log[k] \in Seq(Nat) /\ InOrder(log[k])
  BY DEF IInv, LimiterTypeOK, LogInOrder
<1>2. WindowOf(k) \in Nat /\ LimitOf(k) \in Nat \ {0}
  BY Budget
<1>3. Len(log[k]) >= LimitOf(k) /\ log[k][Len(log[k]) - LimitOf(k) + 1] + WindowOf(k) > n
        <=> Len(Evicted(log[k], WindowOf(k), n)) >= LimitOf(k)
  BY <1>1, <1>2, FullMeansMany
<1>4. Evicted(log[k], WindowOf(k), n) = Evicted(Hits(k), WindowOf(k), n)
  BY DEF IInv, NothingIsLost
<1>5. Limits[k] = LimitOf(k) /\ Windows[k] = WindowOf(k)
  BY DEF Limits, Windows
<1> QED BY <1>3, <1>4, <1>5 DEF Ideal!Full

\* What the window of a new stamp leaves is a part of the stamps and the new one.
LEMMA EvictedIsSuffix ==
    ASSUME NEW x \in Seq(Nat), InOrder(x), NEW w \in Nat \ {0}, NEW n \in Nat,
           \A i \in 1 .. Len(x) : x[i] <= n
    PROVE  \E d \in 0 .. Len(x) :
             /\ \A i \in 1 .. d : x[i] + w <= n
             /\ Evicted(Append(x, n), w, n) = SubSeq(Append(x, n), d + 1, Len(x) + 1)
<1> DEFINE a == Append(x, n)
           g == Evicted(a, w, n)
<1>1. /\ a \in Seq(Nat) /\ InOrder(a) /\ Len(a) = Len(x) + 1 /\ a[Len(x) + 1] = n
      /\ \A i \in 1 .. Len(x) : a[i] = x[i]
  BY AppendInOrder, Appended
<1> HIDE DEF a
<1>2. PICK d \in 0 .. Len(a) : Cut(a, w, n, d, g)
  BY <1>1, EvictedCuts
<1> HIDE DEF g
<1>3. Len(x) \in Nat
  OBVIOUS
<1>4. d \in 0 .. Len(x)
  <2> SUFFICES ASSUME d = Len(x) + 1 PROVE FALSE
    BY <1>1, <1>2, <1>3
  <2>1. Len(x) + 1 \in 1 .. d
    BY <1>3
  <2>2. a[Len(x) + 1] + w <= n
    BY <1>2, <2>1 DEF Cut
  <2> QED BY <1>1, <2>2
<1>5. ASSUME NEW i \in 1 .. d PROVE x[i] + w <= n
  <2>1. i \in 1 .. Len(x)
    BY <1>3, <1>4
  <2>2. a[i] + w <= n
    BY <1>2 DEF Cut
  <2> QED BY <1>1, <2>1, <2>2
<1>6. g = SubSeq(a, d + 1, Len(x) + 1)
  <2> DEFINE r == SubSeq(a, d + 1, Len(a))
  <2>1. /\ r \in Seq(Nat) /\ Len(r) = Len(a) - d
        /\ \A i \in 1 .. Len(r) : r[i] = a[i + d]
    BY <1>1, <1>3, <1>4, SubSeqProperties
  <2> HIDE DEF r
  <2>2. g \in Seq(Nat) /\ Len(g) = Len(a) - d /\ \A i \in 1 .. Len(g) : g[i] = a[i + d]
    BY <1>2 DEF Cut
  <2>3. g = r
    BY <2>1, <2>2, SeqEqual
  <2> QED BY <1>1, <2>3 DEF r
<1> QED BY <1>4, <1>5, <1>6 DEF a, g

\* An allowed hit is a hit granted.
LEMMA AllowGrants ==
    ASSUME IInv, NEW t \in Threads, Allow(t)
    PROVE  \E k \in Keys, s \in 0 .. clock : Ideal!Grant(k, s)
<1>1. PICK k \in Keys, now \in Nat, h \in Seq(Nat), e \in Seq(Nat) :
        /\ k = pending[t].key /\ now = pending[t].now
        /\ h = Hits(k) /\ e = Live(t)
        /\ now <= clock
  BY TheCheck DEF Allow
<1>2. /\ pending[t].on /\ Len(e) < LimitOf(k)
      /\ log' = [log EXCEPT ![k] = Evicted(Append(@, now), WindowOf(k), now)]
      /\ advice' = [advice EXCEPT ![k] = 0]
      /\ clock' = clock
  BY <1>1 DEF Allow
<1>3. MayCome(now)
  <2>1. now <= now
    OBVIOUS
  <2> QED BY <1>1, <1>2, <2>1 DEF MayCome
<1>4. ~Ideal!Full(k, now)
  <2>1. Evicted(h, WindowOf(k), now) = e
    BY <1>1 DEF Live
  <2>2. Len(e) \in Nat /\ LimitOf(k) \in Nat
    BY Budget
  <2> QED BY <1>1, <1>2, <1>3, <2>1, <2>2, FullSeen
<1>5. PICK x \in Seq(Nat) : /\ x = log[k] /\ InOrder(x)
                            /\ \A i \in 1 .. Len(x) : x[i] <= now
  BY <1>1, <1>2 DEF IInv, LimiterTypeOK, LogInOrder
<1>6. WindowOf(k) \in Nat \ {0} /\ Windows[k] = WindowOf(k)
  BY Budget DEF Windows
<1>7. PICK d \in 0 .. Len(x) :
        /\ \A i \in 1 .. d : x[i] + WindowOf(k) <= now
        /\ Evicted(Append(x, now), WindowOf(k), now) = SubSeq(Append(x, now), d + 1, Len(x) + 1)
  BY <1>5, <1>6, EvictedIsSuffix
<1>8. log' = [log EXCEPT ![k] = SubSeq(Append(@, now), d + 1, Len(@) + 1)]
  BY <1>2, <1>5, <1>7
<1>9. Ideal!Grant(k, now)
  BY <1>2, <1>4, <1>5, <1>6, <1>7, <1>8 DEF Ideal!Grant
<1>10. clock \in Nat /\ now \in 0 .. clock
  BY <1>1 DEF IInv, LimiterTypeOK
<1> QED BY <1>9, <1>10

\* A refused one is a hit denied.
LEMMA RefuseDenies ==
    ASSUME IInv, IInv', NEW t \in Threads, Refuse(t)
    PROVE  \E k \in Keys, s \in 0 .. clock : Ideal!Deny(k, s)
<1>1. PICK k \in Keys, now \in Nat, h \in Seq(Nat), e \in Seq(Nat) :
        /\ k = pending[t].key /\ now = pending[t].now
        /\ h = Hits(k) /\ e = Live(t)
        /\ now <= clock
        /\ \A i \in 1 .. Len(e) : e[i] + WindowOf(k) > now
  BY TheCheck DEF Refuse
<1>2. PICK w \in Nat : w = WindowOf(k)
  BY Budget
<1>3. /\ pending[t].on /\ Len(e) >= LimitOf(k) /\ LimitOf(k) \in Nat \ {0}
      /\ buckets' = Stored(k, e)
      /\ advice' = [advice EXCEPT ![k] = now + RetryAfter(e, w, now) * PerSecond]
      /\ UNCHANGED <<clock, log>>
  BY <1>1, <1>2, Budget DEF Refuse
<1>4. Len(e) \in Nat /\ 1 \in 1 .. Len(e) /\ e[1] \in Nat /\ e[1] + w > now
  BY <1>1, <1>2, <1>3
<1>5. PICK r \in Nat : r = now + RetryAfter(e, w, now) * PerSecond /\ r > now
  <2>1. /\ now + RetryAfter(e, w, now) * PerSecond \in Nat
        /\ e[1] + w <= now + RetryAfter(e, w, now) * PerSecond
    BY <1>4, AdviceIsLate
  <2>2. PICK r \in Nat : r = now + RetryAfter(e, w, now) * PerSecond
    BY <2>1
  <2>3. e[1] + w <= r
    BY <2>1, <2>2
  <2>4. r > now
    BY <1>4, <2>3
  <2> QED BY <2>2, <2>4
<1>6. MayCome(now) /\ MayCome(r)
  <2>1. now <= now /\ now <= r
    BY <1>5
  <2> QED BY <1>1, <1>3, <2>1 DEF MayCome
<1>7. Ideal!Full(k, now)
  <2>1. Evicted(h, w, now) = e
    BY <1>1, <1>2 DEF Live
  <2> QED BY <1>1, <1>2, <1>3, <1>6, <2>1, FullSeen
<1>8. advice'[k] = r /\ advice' = [advice EXCEPT ![k] = r]
  BY <1>3, <1>5 DEF IInv, LimiterTypeOK
<1>9. ~Ideal!Full(k, r)
  <2>1. Evicted(e, w, r) = Evicted(h, w, r)
    <3>1. now <= r
      BY <1>5
    <3> QED BY <1>1, <1>2, <1>3, <3>1, LiveInOrder DEF IInv
  <2>2. Hits(k)' = e
    BY <1>3 DEF Hits, Stored
  <2>3. r # 0
    BY <1>5
  <2>4. Len(Evicted(e, w, r)) < LimitOf(k)
    BY <1>2, <1>8, <2>2, <2>3 DEF IInv, RetryAfterSuffices
  <2>5. PICK d \in 0 .. Len(e) : Cut(e, w, r, d, Evicted(e, w, r))
    <3>1. InOrder(e)
      BY <1>1, <1>3, LiveInOrder DEF IInv
    <3> QED BY <3>1, EvictedCuts
  <2>6. Len(Evicted(e, w, r)) \in Nat
    BY <2>5 DEF Cut
  <2> QED BY <1>1, <1>2, <1>3, <1>6, <2>1, <2>4, <2>6, FullSeen
<1>10. Ideal!Deny(k, now)
  BY <1>3, <1>5, <1>7, <1>8, <1>9 DEF Ideal!Deny
<1>11. clock \in Nat /\ now \in 0 .. clock
  BY <1>1 DEF IInv, LimiterTypeOK
<1> QED BY <1>10, <1>11

\* Every step of the limiter is one of the ideal limiter, or none.
LEMMA StepActsAsSlidingWindow ==
    ASSUME IInv, IInv', [LimiterNext]_limiterVars
    PROVE  [Ideal!Next]_<<clock, log, advice>>
<1>1. ASSUME NEW t \in Threads, NEW c \in Clients, NEW login \in BOOLEAN,
             Arrive(t, c, login)
      PROVE  UNCHANGED <<clock, log, advice>>
  BY <1>1 DEF Arrive
<1>2. ASSUME NEW t \in Threads, Allow(t) PROVE Ideal!Answer \/ UNCHANGED <<clock, log, advice>>
  <2>1. clock' = clock
    BY <1>2 DEF Allow
  <2> QED BY <1>2, <2>1, AllowGrants DEF Ideal!Answer
<1>3. ASSUME NEW t \in Threads, Refuse(t) PROVE Ideal!Answer \/ UNCHANGED <<clock, log, advice>>
  <2>1. clock' = clock
    BY <1>3 DEF Refuse
  <2> QED BY <1>3, <2>1, RefuseDenies DEF Ideal!Answer
<1>4. CASE Tick
  BY <1>4 DEF Tick, Ideal!Next, Ideal!Tick
<1>5. CASE UNCHANGED limiterVars
  BY <1>5 DEF limiterVars
<1> QED BY <1>1, <1>2, <1>3, <1>4, <1>5 DEF LimiterNext, Ideal!Next

\* With its eviction, its sweeps and its horizon the limiter decides as one that remembers
\* every hit: it refuses exactly what is over the limit, and names a time that suffices.
THEOREM LimiterActsAsSlidingWindow ==
    ASSUME OneAtATime
    PROVE  LimiterSpec => ActsAsSlidingWindow
<1>1. LimiterInit => Ideal!Init
  BY DEF LimiterInit, Ideal!Init
<1>2. IInv /\ IInv' /\ [LimiterNext]_limiterVars => [Ideal!Next]_<<clock, log, advice>>
  BY StepActsAsSlidingWindow
<1> QED BY <1>1, <1>2, IInvHolds, PTL DEF LimiterSpec, ActsAsSlidingWindow, Ideal!Spec

-----------------------------------------------------------------------------
(* What a sweep drops. *)

\* Only an allowed hit drops buckets.
LEMMA OnlyAllowDrops ==
    ASSUME IInv, [LimiterNext]_limiterVars, NEW l \in DOMAIN buckets \ DOMAIN buckets'
    PROVE  \E t \in Threads : Allow(t)
<1>1. ASSUME NEW t \in Threads, NEW c \in Clients, NEW login \in BOOLEAN,
             Arrive(t, c, login)
      PROVE  FALSE
  BY <1>1 DEF Arrive
<1>2. ASSUME NEW t \in Threads, Refuse(t) PROVE FALSE
  <2>1. buckets' = Stored(pending[t].key, Live(t))
    BY <1>2 DEF Refuse
  <2> QED BY <2>1 DEF Stored
<1>3. ~ Tick /\ ~ UNCHANGED limiterVars
  BY DEF Tick, limiterVars
<1> QED BY <1>1, <1>2, <1>3 DEF LimiterNext

\* No bucket is dropped while one of its hits could still count.
THEOREM SweepIsSafe ==
    ASSUME OneAtATime
    PROVE  LimiterSpec => SweepKeepsLiveHits
<1>1. ASSUME IInv, [LimiterNext]_limiterVars, NEW k \in DOMAIN buckets \ DOMAIN buckets',
             NEW i \in 1 .. Len(buckets[k])
      PROVE  buckets[k][i] + WindowOf(k) <= clock
  BY <1>1, OnlyAllowDrops, DroppedIsDead
<1>2. IInv /\ [LimiterNext]_limiterVars =>
        [\A k \in DOMAIN buckets \ DOMAIN buckets' : \A i \in 1 .. Len(buckets[k]) :
           buckets[k][i] + WindowOf(k) <= clock]_limiterVars
  BY <1>1
<1> QED BY <1>2, IInvHolds, PTL DEF LimiterSpec, SweepKeepsLiveHits

-----------------------------------------------------------------------------
(* NoCheck buckets. *)

LEMMA AdmittedIsAllowed ==
    ASSUME OneAtATime, IInv, LimiterNext, NEW t \in Threads, Admitted(t)
    PROVE  Allow(t)
<1>1. pending[t].on /\ pending'[t] # pending[t] /\ Len(Live(t)) < LimitOf(pending[t].key)
  BY DEF Admitted
<1>2. ASSUME NEW u \in Threads, NEW c \in Clients, NEW login \in BOOLEAN,
             Arrive(u, c, login)
      PROVE  FALSE
  <2>1. u = t
    BY DEF OneAtATime
  <2> QED BY <1>1, <1>2, <2>1 DEF Arrive, NoCheck
<1>3. ASSUME NEW u \in Threads, Refuse(u) PROVE FALSE
  <2>1. u = t
    BY DEF OneAtATime
  <2>2. PICK k \in Keys, e \in Seq(Nat) : k = pending[t].key /\ e = Live(t)
    BY <1>1, TheCheck
  <2>3. Len(e) >= LimitOf(k) /\ Len(e) < LimitOf(k)
    BY <1>1, <1>3, <2>1, <2>2 DEF Refuse
  <2>4. Len(e) \in Nat /\ LimitOf(k) \in Nat
    BY <2>2, Budget
  <2> QED BY <2>3, <2>4
<1>4. ~ Tick
  BY <1>1 DEF Tick
<1>5. ASSUME NEW u \in Threads, Allow(u) PROVE u = t
  BY DEF OneAtATime
<1> QED BY <1>2, <1>3, <1>4, <1>5 DEF LimiterNext

LEMMA WithinAnInterval ==
    ASSUME NEW p \in Nat, NEW i \in Nat, NEW s \in Nat, NEW n \in Nat,
           p > s, n < s + i \/ s = n
    PROVE  p + i > n
OBVIOUS

LEMMA AllowLeavesNoIdleBucket ==
    ASSUME IInv, NEW t \in Threads, Allow(t), NEW k \in DOMAIN buckets'
    PROVE  /\ buckets'[k] # <<>>
           /\ buckets'[k][Len(buckets'[k])] + maxWindow' + Interval > pending[t].now
<1> USE RateLimiterAssumption
<1>1. PICK j \in Keys, now \in Nat, h \in Seq(Nat), e \in Seq(Nat) :
        j = pending[t].key /\ now = pending[t].now /\ e = Live(t)
  BY TheCheck DEF Allow
<1>2. /\ maxWindow' \in Nat /\ lastCleanup' \in Nat
      /\ now < lastCleanup' + Interval \/ lastCleanup' = now
      /\ DOMAIN buckets' \subseteq DOMAIN buckets \cup {j}
      /\ buckets' \in [DOMAIN buckets' -> Seq(Nat)]
      /\ buckets'[j] = Append(Live(t), now)
      /\ \A l \in DOMAIN buckets' :
           /\ l # j => buckets'[l] = buckets[l]
           /\ buckets'[l][Len(buckets'[l])] + maxWindow' > lastCleanup'
  <2>1. AllowLeaves(t, j, now)
    BY <1>1, AllowEffect
  <2> QED BY <2>1 DEF AllowLeaves
<1>3. PICK b \in Seq(Nat), m \in Nat, s \in Nat :
        b = buckets'[k] /\ m = maxWindow' /\ s = lastCleanup'
  BY <1>2
<1>4. b # <<>>
  <2>1. CASE k = j
    <3>1. Append(e, now) # <<>>
      BY <1>1, Appended
    <3> QED BY <1>1, <1>2, <1>3, <2>1, <3>1
  <2>2. CASE k # j
    BY <1>2, <1>3, <2>2 DEF IInv, BucketsAreUsed
  <2> QED BY <2>1, <2>2
<1>5. PICK last \in Nat : last = b[Len(b)]
  <2>1. Len(b) \in 1 .. Len(b)
    BY <1>3, <1>4, EmptySeq
  <2> QED BY <1>3, <2>1
<1>6. last + m > s /\ (now < s + Interval \/ s = now) /\ Interval \in Nat
  BY <1>2, <1>3, <1>5
<1>7. last + m + Interval > now
  <2>1. last + m \in Nat
    BY <1>3, <1>5
  <2> QED BY <1>1, <1>3, <1>6, <2>1, WithinAnInterval
<1> QED BY <1>1, <1>3, <1>4, <1>5, <1>7

\* An allowed hit leaves no bucket that was idle for longer than the horizon and an
\* interval.
THEOREM IdleGo ==
    ASSUME OneAtATime
    PROVE  LimiterSpec => IdleBucketsGo
<1>1. ASSUME IInv, [LimiterNext]_limiterVars, ~ UNCHANGED limiterVars, NEW t \in Threads, Admitted(t),
             NEW k \in DOMAIN buckets'
      PROVE  /\ buckets'[k] # <<>>
             /\ buckets'[k][Len(buckets'[k])] + maxWindow' + Interval > pending[t].now
  BY <1>1, AdmittedIsAllowed, AllowLeavesNoIdleBucket
<1>2. IInv /\ [LimiterNext]_limiterVars =>
        [\A t \in Threads : Admitted(t) =>
           \A k \in DOMAIN buckets' :
             /\ buckets'[k] # <<>>
             /\ buckets'[k][Len(buckets'[k])] + maxWindow' + Interval > pending[t].now]_limiterVars
  BY <1>1
<1> QED BY <1>2, IInvHolds, PTL DEF LimiterSpec, IdleBucketsGo

================================================================================
