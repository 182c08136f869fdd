------------------------ MODULE SlidingWindowProofs -------------------------
(***************************************************************************)
(* Proofs about the sliding window, for every set of hosts and             *)
(* configurations, every skew, delay and number of resends that            *)
(* CallsAssumption and BufferAssumption allow.                             *)
(***************************************************************************)
EXTENDS SlidingWindow, ScriptCallsProofs, FiniteSetTheorems, WellFoundedInduction

-----------------------------------------------------------------------------
(* Counting *)

\* Numbered requests are a finite set that one request more makes one larger; the
\* new one is unlike all before, and the numbers stay without a gap.
LEMMA CountOne ==
  ASSUME NEW S, S \subseteq Counted, IsFiniteSet(S), Numbered(S), NEW x \in Int
  PROVE  LET e == <<x, Cardinality(Of(S, x)) + 1>>
         IN  /\ e \in Counted /\ e \notin S /\ Count(S, x) = S \cup {e}
             /\ Count(S, x) \subseteq Counted /\ IsFiniteSet(Count(S, x))
             /\ Cardinality(Count(S, x)) = Cardinality(S) + 1
             /\ Numbered(Count(S, x))
<1> DEFINE n == Cardinality(Of(S, x))
           e == <<x, n + 1>>
           T == S \cup {e}
<1>1. Of(S, x) \subseteq S /\ IsFiniteSet(Of(S, x)) /\ n \in Nat
  BY FS_Subset, FS_CardinalityType DEF Of
<1>2. e \in Counted /\ e[1] = x /\ e[2] = n + 1
  BY <1>1 DEF Counted, Positive
<1>3. e \notin S
  <2>1. SUFFICES ASSUME e \in S PROVE FALSE
    OBVIOUS
  <2>2. e[2] <= Cardinality(Of(S, e[1]))
    BY <2>1 DEF Numbered
  <2> QED
    BY <1>1, <1>2, <2>2
<1>4. Count(S, x) = T
  BY DEF Count
<1>5. IsFiniteSet(T) /\ Cardinality(T) = Cardinality(S) + 1
  BY <1>3, FS_AddElement
<1>6. ASSUME NEW h \in T PROVE h[2] <= Cardinality(Of(T, h[1]))
  <2>1. CASE h[1] = x
    <3>1. Of(T, x) = Of(S, x) \cup {e}
      BY <1>2 DEF Of
    <3>2. e \notin Of(S, x)
      BY <1>3 DEF Of
    <3>3. Cardinality(Of(T, x)) = n + 1
      BY <1>1, <3>1, <3>2, FS_AddElement
    <3>4. CASE h \in S
      <4>1. h[2] <= n /\ h[2] \in Int
        BY <2>1, <3>4 DEF Numbered, Counted, Positive
      <4> QED
        BY <1>1, <2>1, <3>3, <4>1
    <3>5. CASE h = e
      BY <1>1, <1>2, <2>1, <3>3, <3>5
    <3> QED
      BY <3>4, <3>5
  <2>2. CASE h[1] # x
    <3>1. h \in S
      BY <1>2, <2>2
    <3>2. Of(T, h[1]) = Of(S, h[1])
      BY <1>2, <2>2 DEF Of
    <3> QED
      BY <3>1, <3>2 DEF Numbered
  <2> QED
    BY <2>1, <2>2
<1> QED
  BY <1>2, <1>3, <1>4, <1>5, <1>6 DEF Numbered

\* Dropping whole seconds or stamps, as those before a moment, leaves no gap.
LEMMA DropOld ==
  ASSUME NEW S, S \subseteq Counted, IsFiniteSet(S), Numbered(S),
         NEW T, T \subseteq S, \A h \in T : Of(T, h[1]) = Of(S, h[1])
  PROVE  T \subseteq Counted /\ IsFiniteSet(T) /\ Numbered(T)
<1>1. IsFiniteSet(T)
  BY FS_Subset
<1>2. Numbered(T)
  BY DEF Numbered
<1> QED
  BY <1>1, <1>2

\* A non-empty set of whole numbers that are not below a bound has a least.
LEMMA LeastOf ==
  ASSUME NEW S \in SUBSET Int, S # {}, NEW low \in Int, \A x \in S : low <= x
  PROVE  \E b \in S : \A other \in S : b <= other
<1> DEFINE D == {x - low : x \in S}
<1>1. D \subseteq Nat /\ D # {}
  <2>1. ASSUME NEW x \in S PROVE x - low \in Nat
    OBVIOUS
  <2>2. D # {}
    OBVIOUS
  <2> QED
    BY <2>1, <2>2
<1>2. PICK m \in D : \A d \in D : ~(<<d, m>> \in OpToRel(<, Nat))
  <2> HIDE DEF D
  <2> QED
    BY <1>1, NatLessThanWellFounded, WFMin
<1>3. PICK b \in S : m = b - low
  OBVIOUS
<1>4. ASSUME NEW other \in S PROVE b <= other
  <2>1. other - low \in D
    OBVIOUS
  <2>2. ~(other - low < b - low) /\ other \in Int /\ b \in Int
    BY <1>1, <1>2, <1>3, <2>1 DEF OpToRel
  <2> QED
    BY <2>2
<1> QED
  BY <1>4

-----------------------------------------------------------------------------
(* The operators of the script *)

\* The second of a stamp contains it, and is a whole second.
LEMMA BucketBounds ==
  ASSUME NEW now \in Int
  PROVE  /\ BucketOf(now) \in Int /\ BucketOf(now) % Sec = 0
         /\ BucketOf(now) <= now /\ now < BucketOf(now) + Sec
<1> DEFINE n == now \div Sec
<1>1. Sec \in Positive /\ Sec \in Int
  BY CallsAssumption DEF Positive
<1>2. n \in Int /\ Sec * n <= now /\ now < Sec * n + Sec
  BY <1>1, DivBounds
<1>3. BucketOf(now) = n * Sec
  BY DEF BucketOf
<1> HIDE DEF n
<1>4. (n * Sec) % Sec = 0 /\ n * Sec \in Int /\ n * Sec = Sec * n
  BY <1>1, <1>2, MultipleMod
<1> QED
  BY <1>2, <1>3, <1>4

\* A key outlives its window by what stamps can be late and hosts apart.
LEMMA TtlCovers ==
  ASSUME NEW k \in WindowConfig
  PROVE  Ttl(k) \in Int /\ k.windowSize + MaxDelay + 2 * Skew <= Ttl(k)
<1> DEFINE q == CeilDiv(k.windowSize, Sec)
<1>1. Sec \in Positive /\ Sec \in Int /\ Sec \in Nat /\ Buffer \in Int /\ k.windowSize \in Int
      /\ MaxDelay \in Int /\ Skew \in Int
  BY CallsAssumption DEF Positive, WindowConfig
<1>2. q \in Int /\ k.windowSize <= Sec * q
  BY <1>1, CeilDivCovers
<1>3. Ttl(k) = Sec * (q + Buffer)
  BY DEF Ttl
<1> HIDE DEF q
<1>4. Sec * q + Sec * Buffer = Sec * (q + Buffer) /\ Sec * q \in Int /\ Sec * Buffer \in Int
      /\ Sec * Buffer = Buffer * Sec
  BY <1>1, <1>2, Distribute
<1>5. MaxDelay + 2 * Skew <= Buffer * Sec
  BY BufferAssumption
<1> QED
  BY <1>1, <1>2, <1>3, <1>4, <1>5

\* What a call under way finds: the counters of its window, which are whole
\* seconds of its own configuration.
LEMMA FoundHits ==
  ASSUME SlidingInv, NEW c \in Callers, call[c].pending,
         NEW k, k = conf[c], NEW now, now = Stamp(c)
  PROVE  /\ k \in Configs /\ k \in WindowConfig /\ clock \in Int
         /\ k.limit \in Int /\ k.limit >= 1 /\ k.windowSize \in Int /\ k.windowSize >= 1
         /\ now \in Int /\ clock - MaxDelay - Skew <= now /\ now <= clock + Skew
         /\ InWindow(k, now) \subseteq Counted /\ IsFiniteSet(InWindow(k, now))
         /\ Numbered(InWindow(k, now)) /\ Total(k, now) \in Nat
         /\ \A h \in InWindow(k, now) :
              /\ h[1] \in Int /\ h[1] % Sec = 0 /\ now - k.windowSize <= h[1]
              /\ key # NoKey /\ key.hash = k /\ h \in key.hits
         /\ Fresh(k) => InWindow(k, now) = {}
         /\ ~Fresh(k) => InWindow(k, now) = {h \in key.hits : h[1] >= now - k.windowSize}
<1>1. k \in Configs /\ k \in WindowConfig /\ clock \in Int
  BY SlidingAssumption DEF SlidingInv, TypeOK, CallsTypeOK
<1>2. now \in Int /\ clock - MaxDelay - Skew <= now /\ now <= clock + Skew
  BY StampRange DEF SlidingInv, TypeOK
<1>3. k.limit \in Int /\ k.limit >= 1 /\ k.windowSize \in Int /\ k.windowSize >= 1
  BY <1>1 DEF WindowConfig, Positive
<1> DEFINE S == InWindow(k, now)
<1>4. CASE Fresh(k)
  <2>1. S = {}
    BY <1>4 DEF InWindow, Kept
  <2>2. IsFiniteSet({}) /\ Cardinality({}) = 0
    BY FS_EmptySet
  <2> QED
    BY <1>1, <1>2, <1>3, <1>4, <2>1, <2>2 DEF Numbered, Total
<1>5. CASE ~Fresh(k)
  <2>1. key # NoKey /\ key.hash = k /\ S = {h \in key.hits : h[1] >= now - k.windowSize}
    BY <1>5 DEF Fresh, InWindow, Kept
  <2>2. /\ key.hits \subseteq Counted /\ IsFiniteSet(key.hits) /\ Numbered(key.hits)
        /\ \A h \in key.hits : h[1] % Sec = 0 /\ h[1] \in Int
    BY <2>1 DEF SlidingInv, TypeOK, Counters, Counted
  <2>3. S \subseteq key.hits
    BY <2>1
  <2>4. \A h \in S : Of(S, h[1]) = Of(key.hits, h[1])
    BY <2>1 DEF Of
  <2>5. S \subseteq Counted /\ IsFiniteSet(S) /\ Numbered(S)
    <3> HIDE DEF S
    <3> QED
      BY <2>2, <2>3, <2>4, DropOld
  <2>6. Total(k, now) \in Nat
    BY <2>5, FS_CardinalityType DEF Total
  <2>7. \A h \in S : /\ h[1] \in Int /\ h[1] % Sec = 0 /\ now - k.windowSize <= h[1]
                     /\ key # NoKey /\ key.hash = k /\ h \in key.hits
    <3>1. TAKE h \in S
    <3>2. h \in key.hits /\ h[1] >= now - k.windowSize
      BY <2>1
    <3> QED
      BY <1>2, <1>3, <2>1, <2>2, <3>2
  <2> QED
    BY <1>1, <1>2, <1>3, <1>5, <2>1, <2>5, <2>6, <2>7
<1> QED
  BY <1>4, <1>5

\* A refused call has the whole limit before it, all of it in its window.
LEMMA FullWindow ==
  ASSUME SlidingInv, NEW c \in Callers, call[c].pending,
         NEW k, k = conf[c], NEW now, now = Stamp(c), ~Admits(k, now)
  PROVE  /\ key # NoKey /\ key.hash = k /\ InWindow(k, now) = key.hits
         /\ Cardinality(key.hits) = k.limit /\ key.hits # {} /\ ~Fresh(k)
<1>1. /\ k.limit \in Int /\ k.limit >= 1 /\ Total(k, now) \in Nat
      /\ Fresh(k) => InWindow(k, now) = {}
      /\ ~Fresh(k) => InWindow(k, now) = {h \in key.hits : h[1] >= now - k.windowSize}
  BY FoundHits
<1>2. Total(k, now) >= k.limit
  BY <1>1 DEF Admits
<1>3. ~Fresh(k)
  <2>1. SUFFICES ASSUME Fresh(k) PROVE FALSE
    OBVIOUS
  <2>2. Total(k, now) = 0
    BY <1>1, <2>1, FS_EmptySet DEF Total
  <2> QED
    BY <1>1, <1>2, <2>2
<1>4. /\ key # NoKey /\ key.hash = k /\ IsFiniteSet(key.hits)
      /\ Cardinality(key.hits) \in 1..k.limit
  BY <1>3 DEF Fresh, SlidingInv, TypeOK
<1>5. InWindow(k, now) \in SUBSET key.hits
  BY <1>1, <1>3
<1>6. Total(k, now) <= Cardinality(key.hits)
      /\ (Cardinality(key.hits) = Total(k, now) => key.hits = InWindow(k, now))
  BY <1>4, <1>5, FS_Subset DEF Total
<1>7. Cardinality(key.hits) = k.limit /\ Total(k, now) = k.limit
  BY <1>1, <1>2, <1>4, <1>6
<1>8. key.hits # {}
  <2>1. SUFFICES ASSUME key.hits = {} PROVE FALSE
    OBVIOUS
  <2>2. Cardinality(key.hits) = 0
    BY <2>1, FS_EmptySet
  <2> QED
    BY <1>1, <1>7, <2>2
<1> QED
  BY <1>3, <1>4, <1>6, <1>7, <1>8

-----------------------------------------------------------------------------
(* A grant *)

\* What is remembered of the grants before, and what a grant adds.
Remembered(k, now) ==
  {s \in IF watch # NoWatch /\ watch.conf = k THEN watch.stamps ELSE {} :
     s[1] > now - k.windowSize - Lag}
NewHit(k, now)   == <<BucketOf(now), Cardinality(Of(InWindow(k, now), BucketOf(now))) + 1>>
NewStamp(k, now) == <<now, Cardinality(Of(Remembered(k, now), now)) + 1>>

\* The grants that are remembered and that nothing has cleaned up.
StillCounted(k, now) ==
  {s \in Remembered(k, now) : BucketOf(s[1]) >= clock + Skew - k.windowSize}

\* What is remembered was granted under the same configuration.
LEMMA RememberedType ==
  ASSUME SlidingInv, NEW k \in WindowConfig, NEW now \in Int
  PROVE  LET T == Remembered(k, now)
         IN  /\ T \subseteq Counted /\ IsFiniteSet(T) /\ Numbered(T)
             /\ T # {} => watch # NoWatch /\ watch.conf = k
             /\ \A s \in T : s \in watch.stamps /\ s[1] \in Int /\ s[1] <= clock + Skew
<1> DEFINE T == Remembered(k, now)
<1>1. CASE watch # NoWatch /\ watch.conf = k
  <2>1. T = {s \in watch.stamps : s[1] > now - k.windowSize - Lag}
    BY <1>1 DEF Remembered
  <2>2. watch.stamps \subseteq Counted /\ IsFiniteSet(watch.stamps) /\ Numbered(watch.stamps)
    BY <1>1 DEF SlidingInv, TypeOK, Watch
  <2>3. T \subseteq watch.stamps /\ \A h \in T : Of(T, h[1]) = Of(watch.stamps, h[1])
    BY <2>1 DEF Of
  <2>4. T \subseteq Counted /\ IsFiniteSet(T) /\ Numbered(T)
    <3> HIDE DEF T
    <3> QED
      BY <2>2, <2>3, DropOld
  <2>5. \A s \in T : s \in watch.stamps /\ s[1] \in Int /\ s[1] <= clock + Skew
    BY <1>1, <2>2, <2>3 DEF SlidingInv, KeyInTime, Counted
  <2> QED
    BY <1>1, <2>4, <2>5
<1>2. CASE ~(watch # NoWatch /\ watch.conf = k)
  <2>1. T = {}
    BY <1>2 DEF Remembered
  <2> QED
    BY <2>1, FS_EmptySet DEF Numbered
<1> QED
  BY <1>1, <1>2

\* What a grant does to the key and to the history, and what it does not.
LEMMA GrantEffect ==
  ASSUME SlidingInv, NEW c \in Callers, Grant(c)
  PROVE  LET k == conf[c]
             now == Stamp(c)
             S == InWindow(k, now)
             T == Remembered(k, now)
         IN  /\ verdict' = TRUE /\ Total(k, now) < k.limit
             /\ CallsTypeOK' /\ StampsInTime' /\ clock' = clock
             /\ key' = [hash |-> k, hits |-> S \cup {NewHit(k, now)},
                        expireAt |-> clock + Ttl(k)]
             /\ watch' = [conf |-> k, stamps |-> T \cup {NewStamp(k, now)}]
             /\ key' \in Counters /\ key' # NoKey /\ watch' \in Watch /\ watch' # NoWatch
             /\ IsFiniteSet(key'.hits) /\ Numbered(key'.hits)
             /\ Cardinality(key'.hits) = Total(k, now) + 1
             /\ IsFiniteSet(watch'.stamps) /\ Numbered(watch'.stamps)
             /\ NewHit(k, now) \notin S /\ NewStamp(k, now) \notin T
             /\ NewHit(k, now)[1] = BucketOf(now) /\ NewStamp(k, now)[1] = now
<1> DEFINE k == conf[c]
           now == Stamp(c)
           S == InWindow(k, now)
           T == Remembered(k, now)
           b == BucketOf(now)
<1>1. /\ call[c].pending /\ Total(k, now) < k.limit /\ verdict' = TRUE
      /\ key' = [hash |-> k, hits |-> Count(S, b), expireAt |-> clock + Ttl(k)]
      /\ watch' = [conf |-> k, stamps |-> Count(T, now)] /\ Replied(c)
  BY DEF Grant, Admits, Watched, Remembered
<1>2. CallsTypeOK' /\ StampsInTime' /\ clock' = clock
  BY <1>1, CallsStep DEF SlidingInv, TypeOK
<1>3. /\ k \in Configs /\ k \in WindowConfig /\ clock \in Int /\ now \in Int
      /\ S \subseteq Counted /\ IsFiniteSet(S) /\ Numbered(S)
  BY <1>1, FoundHits
<1>4. T \subseteq Counted /\ IsFiniteSet(T) /\ Numbered(T)
  BY <1>3, RememberedType
<1>5. b \in Int
  BY <1>3, BucketBounds
<1>6. /\ NewHit(k, now) \notin S /\ Count(S, b) = S \cup {NewHit(k, now)}
      /\ Count(S, b) \subseteq Counted /\ IsFiniteSet(Count(S, b)) /\ Numbered(Count(S, b))
      /\ Cardinality(Count(S, b)) = Total(k, now) + 1
  <2> HIDE DEF S, b
  <2>1. LET e == <<b, Cardinality(Of(S, b)) + 1>>
        IN  /\ e \in Counted /\ e \notin S /\ Count(S, b) = S \cup {e}
            /\ Count(S, b) \subseteq Counted /\ IsFiniteSet(Count(S, b))
            /\ Cardinality(Count(S, b)) = Cardinality(S) + 1
            /\ Numbered(Count(S, b))
    BY <1>3, <1>5, CountOne
  <2> QED
    BY <2>1 DEF NewHit, Total, S, b
<1>7. /\ NewStamp(k, now) \notin T /\ Count(T, now) = T \cup {NewStamp(k, now)}
      /\ Count(T, now) \subseteq Counted /\ IsFiniteSet(Count(T, now))
      /\ Numbered(Count(T, now))
  <2> HIDE DEF T
  <2>1. LET e == <<now, Cardinality(Of(T, now)) + 1>>
        IN  /\ e \in Counted /\ e \notin T /\ Count(T, now) = T \cup {e}
            /\ Count(T, now) \subseteq Counted /\ IsFiniteSet(Count(T, now))
            /\ Numbered(Count(T, now))
    BY <1>3, <1>4, CountOne
  <2> QED
    BY <2>1 DEF NewStamp, T
<1>8. Ttl(k) \in Int
  BY <1>3, TtlCovers
<1>9. key' \in Counters /\ key' # NoKey /\ watch' \in Watch /\ watch' # NoWatch
  <2> HIDE DEF S, T, b
  <2>1. clock + Ttl(k) \in Int
    BY <1>3, <1>8
  <2>2. key' \in Counters /\ watch' \in Watch
    BY <1>1, <1>3, <1>6, <1>7, <2>1 DEF Counters, Watch
  <2> QED
    BY <2>2, SlidingAssumption
<1>10. NewHit(k, now)[1] = BucketOf(now) /\ NewStamp(k, now)[1] = now
  BY DEF NewHit, NewStamp
<1> QED
  BY <1>1, <1>2, <1>6, <1>7, <1>9, <1>10

\* Each grant that no call can have cleaned up has a hit of its own in the window.
LEMMA OwnHits ==
  ASSUME SlidingInv, NEW c \in Callers, call[c].pending,
         NEW k, k = conf[c], NEW now, now = Stamp(c)
  PROVE  \E f \in Injection(StillCounted(k, now), InWindow(k, now)) :
           \A s \in StillCounted(k, now) : f[s][1] = BucketOf(s[1])
<1> DEFINE S == InWindow(k, now)
           R == StillCounted(k, now)
<1>1. /\ k \in WindowConfig /\ clock \in Int /\ k.windowSize \in Int
      /\ now \in Int /\ now <= clock + Skew
      /\ ~Fresh(k) => S = {h \in key.hits : h[1] >= now - k.windowSize}
  BY FoundHits
<1>2. \A s \in R : /\ watch # NoWatch /\ watch.conf = k /\ s \in watch.stamps
                   /\ s[1] \in Int /\ BucketOf(s[1]) >= clock + Skew - k.windowSize
  BY <1>1, RememberedType DEF StillCounted
<1>3. CASE R = {}
  <2> DEFINE f == [s \in R |-> s]
  <2>1. f \in Injection(R, S)
    BY <1>3 DEF Injection, IsInjective
  <2> QED
    BY <1>3, <2>1
<1>4. CASE R # {}
  <2>1. watch # NoWatch /\ watch.conf = k /\ R \subseteq Recent
    BY <1>2, <1>4 DEF Recent
  <2>2. key # NoKey
    BY <1>4, <2>1 DEF SlidingInv, RecentCounted
  <2>3. PICK f \in Injection(Recent, key.hits) : \A s \in Recent : f[s][1] = BucketOf(s[1])
    BY <2>1, <2>2 DEF SlidingInv, RecentCounted
  <2>4. ~Fresh(k)
    BY <2>1, <2>2 DEF Fresh, SlidingInv, KeyInTime
  <2> DEFINE g == [s \in R |-> f[s]]
  <2>5. ASSUME NEW s \in R PROVE g[s] \in S /\ g[s][1] = BucketOf(s[1])
    <3>1. f[s] \in key.hits /\ f[s][1] = BucketOf(s[1])
      BY <2>1, <2>3 DEF Injection, IsInjective
    <3>2. BucketOf(s[1]) \in Int /\ BucketOf(s[1]) >= clock + Skew - k.windowSize
      BY <1>2, BucketBounds
    <3>3. f[s][1] >= now - k.windowSize
      BY <1>1, <3>1, <3>2, CallsAssumption
    <3> QED
      BY <1>1, <2>4, <3>1, <3>3
  <2>6. \A r, s \in R : g[r] = g[s] => r = s
    BY <2>1, <2>3 DEF Injection, IsInjective
  <2>7. g \in Injection(R, S)
    <3> HIDE DEF R, S
    <3> QED
      BY <2>5, <2>6 DEF Injection, IsInjective
  <2> QED
    BY <2>5, <2>7
<1> QED
  BY <1>3, <1>4

\* A grant gives the new stamp a hit of its own too.
LEMMA GrantRecent ==
  ASSUME SlidingInv, NEW c \in Callers, Grant(c)
  PROVE  RecentCounted'
<1> DEFINE k == conf[c]
           now == Stamp(c)
           S == InWindow(k, now)
           R == StillCounted(k, now)
           hit == NewHit(k, now)
           new == NewStamp(k, now)
<1>1. /\ clock' = clock /\ key' # NoKey /\ key'.hits = S \cup {hit}
      /\ watch'.conf = k /\ watch'.stamps = Remembered(k, now) \cup {new}
      /\ hit \notin S /\ new \notin Remembered(k, now)
      /\ hit[1] = BucketOf(now) /\ new[1] = now
  <2>1. /\ key' = [hash |-> k, hits |-> S \cup {NewHit(k, now)},
                   expireAt |-> clock + Ttl(k)]
        /\ watch' = [conf |-> k, stamps |-> Remembered(k, now) \cup {NewStamp(k, now)}]
        /\ key' # NoKey
    BY GrantEffect
  <2>2. /\ clock' = clock /\ hit \notin S /\ new \notin Remembered(k, now)
        /\ hit[1] = BucketOf(now) /\ new[1] = now
    BY GrantEffect
  <2> QED
    BY <2>1, <2>2
<1>2. PICK g \in Injection(R, S) : \A s \in R : g[s][1] = BucketOf(s[1])
  BY OwnHits DEF Grant
<1> DEFINE Q == {s \in watch'.stamps : BucketOf(s[1]) >= clock + Skew - k.windowSize}
           f == [s \in Q |-> IF s = new THEN hit ELSE g[s]]
<1>3. Recent' = Q
  BY <1>1 DEF Recent, BucketOf
<1>4. ASSUME NEW s \in Q, s # new PROVE s \in R
  BY <1>1, <1>4 DEF StillCounted
<1>5. new \notin R
  BY <1>1 DEF StillCounted
<1> HIDE DEF S, R, Q
<1>6. \A s \in R : g[s] \in S
  BY <1>2 DEF Injection
<1>7. \A r, s \in R : g[r] = g[s] => r = s
  BY <1>2 DEF Injection, IsInjective
<1>8. f \in Injection(Q, S \cup {hit})
  <2>1. f \in [Q -> S \cup {hit}]
    BY <1>4, <1>6
  <2>2. ASSUME NEW r \in Q, NEW s \in Q, f[r] = f[s] PROVE r = s
    <3>1. CASE r = new /\ s # new
      BY <1>1, <1>4, <1>6, <2>2, <3>1 DEF S
    <3>2. CASE r # new /\ s = new
      BY <1>1, <1>4, <1>6, <2>2, <3>2 DEF S
    <3>3. CASE r # new /\ s # new
      BY <1>4, <1>7, <2>2, <3>3
    <3> QED
      BY <3>1, <3>2, <3>3
  <2> QED
    BY <2>1, <2>2 DEF Injection, IsInjective
<1>9. \A s \in Q : f[s][1] = BucketOf(s[1])
  BY <1>1, <1>2, <1>4
<1>10. \A s \in Q : f[s][1] = (s[1] \div Sec) * Sec
  BY <1>9 DEF BucketOf
<1>11. f \in Injection(Recent', key'.hits)
  BY <1>1, <1>3, <1>8 DEF S
<1> HIDE DEF f
<1> QED
  BY <1>1, <1>3, <1>10, <1>11 DEF RecentCounted, BucketOf

\* A grant keeps every span within the limit: the grants of a span it falls into,
\* before its end and after it, are all still in its own window.
LEMMA GrantTrailing ==
  ASSUME SlidingInv, NEW c \in Callers, Grant(c)
  PROVE  TrailingBound'
<1> DEFINE k == conf[c]
           now == Stamp(c)
           S == InWindow(k, now)
           T == Remembered(k, now)
           new == NewStamp(k, now)
           span == k.windowSize - Sec - Lag
<1>1. /\ clock' = clock /\ Total(k, now) < k.limit
      /\ watch' # NoWatch /\ watch'.conf = k /\ watch'.stamps = T \cup {new}
      /\ IsFiniteSet(watch'.stamps) /\ new \notin T /\ new[1] = now
  <2>1. /\ key' = [hash |-> k, hits |-> S \cup {NewHit(k, now)},
                   expireAt |-> clock + Ttl(k)]
        /\ watch' = [conf |-> k, stamps |-> Remembered(k, now) \cup {NewStamp(k, now)}]
        /\ watch' # NoWatch
    BY GrantEffect
  <2>2. /\ clock' = clock /\ Total(k, now) < k.limit /\ IsFiniteSet(watch'.stamps)
        /\ new \notin T /\ new[1] = now
    BY GrantEffect
  <2> QED
    BY <2>1, <2>2
<1>2. /\ k \in Configs /\ k \in WindowConfig /\ clock \in Int
      /\ k.limit \in Int /\ k.limit >= 1 /\ k.windowSize \in Int
      /\ now \in Int /\ clock - MaxDelay - Skew <= now /\ now <= clock + Skew
      /\ IsFiniteSet(S) /\ Total(k, now) \in Nat
  BY FoundHits DEF Grant
<1>3. /\ T # {} => watch # NoWatch /\ watch.conf = k
      /\ \A s \in T : s \in watch.stamps /\ s[1] \in Int
  BY <1>2, RememberedType
<1>4. PICK g \in Injection(StillCounted(k, now), S) : TRUE
  BY OwnHits DEF Grant
<1>5. /\ Sec \in Int /\ Sec >= 1 /\ MaxDelay \in Int /\ Skew \in Int
      /\ MaxDelay >= 0 /\ Skew >= 0 /\ Lag = MaxDelay + 2 * Skew /\ Lag \in Int
      /\ span \in Int
  BY <1>2, CallsAssumption DEF Lag
<1> SUFFICES ASSUME NEW t \in watch'.stamps
             PROVE  Cardinality({s \in watch'.stamps : t[1] - span < s[1] /\ s[1] <= t[1]})
                      <= k.limit
  BY <1>1 DEF TrailingBound, Stamped, Lag
<1> DEFINE A == {s \in watch'.stamps : t[1] - span < s[1] /\ s[1] <= t[1]}
<1>6. t[1] \in Int
  BY <1>1, <1>2, <1>3
<1>7. A \in SUBSET watch'.stamps /\ IsFiniteSet(A) /\ Cardinality(A) \in Nat
  <2>1. A \in SUBSET watch'.stamps
    OBVIOUS
  <2> HIDE DEF A
  <2> QED
    BY <1>1, <2>1, FS_Subset, FS_CardinalityType
<1>8. CASE new \in A
  <2> DEFINE B == A \ {new}
  <2>1. ASSUME NEW s \in B PROVE s \in StillCounted(k, now)
    <3>1. s \in T /\ s[1] \in Int /\ t[1] - span < s[1]
      BY <1>1, <1>3
    <3>2. now <= t[1]
      BY <1>1, <1>8
    <3>3. /\ BucketOf(s[1]) \in Int /\ s[1] < BucketOf(s[1]) + Sec
      BY <3>1, BucketBounds
    <3>4. BucketOf(s[1]) >= clock + Skew - k.windowSize
      <4> HIDE DEF A, B, T, now, k
      <4> QED
        BY <1>2, <1>5, <1>6, <3>1, <3>2, <3>3 DEF span
    <3> QED
      BY <3>1, <3>4 DEF StillCounted
  <2>2. IsFiniteSet(B) /\ Cardinality(B) = Cardinality(A) - 1
    <3> HIDE DEF A
    <3> QED
      BY <1>7, <1>8, FS_RemoveElement
  <2> DEFINE f == [s \in B |-> g[s]]
  <2>3. f \in Injection(B, S)
    <3> HIDE DEF B, S
    <3>1. \A s \in B : s \in StillCounted(k, now) /\ g[s] \in S
      BY <1>4, <2>1 DEF Injection
    <3>2. \A r, s \in B : g[r] = g[s] => r = s
      BY <1>4, <3>1 DEF Injection, IsInjective
    <3> QED
      BY <3>1, <3>2 DEF Injection, IsInjective
  <2>4. Cardinality(B) <= Total(k, now)
    <3> HIDE DEF B, S, f
    <3>1. Cardinality(B) <= Cardinality(S)
      BY <1>2, <2>3, FS_Injection
    <3> QED
      BY <3>1 DEF Total, S
  <2> HIDE DEF A, B
  <2> QED
    BY <1>1, <1>2, <1>7, <2>2, <2>4 DEF A
<1>9. CASE new \notin A /\ t = new
  <2>1. span <= 0
    BY <1>1, <1>2, <1>5, <1>9
  <2>2. ASSUME NEW s \in A PROVE FALSE
    <3>1. s[1] \in Int /\ t[1] - span < s[1] /\ s[1] <= t[1]
      BY <1>1, <1>2, <1>3
    <3> QED
      BY <1>5, <1>6, <2>1, <3>1
  <2>3. A = {}
    BY <2>2
  <2>4. Cardinality(A) = 0
    BY <2>3, FS_EmptySet
  <2> HIDE DEF A
  <2> QED
    BY <1>2, <2>4 DEF A
<1>10. CASE new \notin A /\ t # new
  <2>1. t \in T /\ watch # NoWatch /\ watch.conf = k /\ t \in watch.stamps
    BY <1>1, <1>3, <1>10
  <2> DEFINE A0 == Stamped(t[1] - span, t[1])
  <2>2. Cardinality(A0) <= k.limit
    BY <2>1 DEF SlidingInv, TrailingBound
  <2>3. A \in SUBSET A0
    BY <1>1, <1>3, <1>10 DEF Stamped
  <2>4. IsFiniteSet(A0) /\ Cardinality(A0) \in Nat
    <3>1. A0 \in SUBSET watch.stamps /\ IsFiniteSet(watch.stamps)
      BY <2>1 DEF Stamped, SlidingInv, TypeOK
    <3> HIDE DEF A0
    <3> QED
      BY <3>1, FS_Subset, FS_CardinalityType
  <2>5. Cardinality(A) <= Cardinality(A0)
    <3> HIDE DEF A, A0
    <3> QED
      BY <2>3, <2>4, FS_Subset
  <2> HIDE DEF A, A0
  <2> QED
    BY <1>2, <1>7, <2>2, <2>4, <2>5 DEF A
<1> QED
  BY <1>8, <1>9, <1>10

\* A grant keeps the inductive invariant.
LEMMA GrantStep ==
  ASSUME SlidingInv, NEW c \in Callers, Grant(c)
  PROVE  SlidingInv'
<1> DEFINE k == conf[c]
           now == Stamp(c)
           S == InWindow(k, now)
           T == Remembered(k, now)
<1>1. /\ key' = [hash |-> k, hits |-> S \cup {NewHit(k, now)},
                 expireAt |-> clock + Ttl(k)]
      /\ watch' = [conf |-> k, stamps |-> T \cup {NewStamp(k, now)}]
      /\ NewHit(k, now)[1] = BucketOf(now) /\ NewStamp(k, now)[1] = now
  BY GrantEffect
<1>2. /\ verdict' = TRUE /\ CallsTypeOK' /\ StampsInTime' /\ clock' = clock
      /\ key' \in Counters /\ key' # NoKey /\ watch' \in Watch /\ watch' # NoWatch
      /\ IsFiniteSet(key'.hits) /\ Numbered(key'.hits)
      /\ Cardinality(key'.hits) = Total(k, now) + 1 /\ Total(k, now) < k.limit
      /\ IsFiniteSet(watch'.stamps) /\ Numbered(watch'.stamps)
  BY GrantEffect
<1>3. /\ k \in Configs /\ k \in WindowConfig /\ clock \in Int /\ k.limit \in Int
      /\ now \in Int /\ now <= clock + Skew /\ Total(k, now) \in Nat
      /\ \A h \in S : /\ h[1] \in Int /\ h[1] % Sec = 0
                      /\ key # NoKey /\ key.hash = k /\ h \in key.hits
  BY FoundHits DEF Grant
<1>4. BucketOf(now) \in Int /\ BucketOf(now) % Sec = 0 /\ BucketOf(now) <= now
  BY <1>3, BucketBounds
<1>5. Ttl(k) \in Int
  BY <1>3, TtlCovers
<1>6. /\ key'.hash = k /\ key'.expireAt = clock + Ttl(k) /\ watch'.conf = k
      /\ key'.hits = S \cup {NewHit(k, now)} /\ watch'.stamps = T \cup {NewStamp(k, now)}
  BY <1>1
<1>7. TypeOK'
  <2>1. Cardinality(key'.hits) \in 1..k.limit
    BY <1>2, <1>3
  <2>2. \A h \in key'.hits : h[1] % Sec = 0
    BY <1>1, <1>3, <1>4, <1>6
  <2> QED
    BY <1>2, <1>3, <1>6, <2>1, <2>2 DEF TypeOK
<1>8. KeyInTime'
  <2>1. \A s \in watch'.stamps : s[1] <= clock + Skew
    <3>1. \A s \in T : s[1] <= clock + Skew
      BY <1>3, RememberedType
    <3> QED
      BY <1>1, <1>3, <1>6, <3>1
  <2>2. \A h \in key'.hits : h[1] <= clock + Skew
    <3>1. ASSUME NEW h \in S PROVE h[1] <= clock + Skew
      <4>1. /\ key # NoKey /\ key.hash = k /\ h \in key.hits /\ h[1] \in Int
        BY <1>3
      <4>2. h[1] <= (key.expireAt - Ttl(k)) + Skew /\ key.expireAt - Ttl(k) <= clock
        BY <4>1 DEF SlidingInv, KeyInTime
      <4>3. key.expireAt \in Int
        BY <4>1 DEF SlidingInv, TypeOK, Counters
      <4> QED
        BY <1>3, <1>5, <4>1, <4>2, <4>3, CallsAssumption
    <3>2. BucketOf(now) <= clock + Skew
      BY <1>3, <1>4, CallsAssumption
    <3> QED
      BY <1>1, <1>6, <3>1, <3>2
  <2>3. (clock + Ttl(k)) - Ttl(k) = clock
    BY <1>3, <1>5
  <2> HIDE DEF k, now, S, T
  <2> QED
    BY <1>2, <1>3, <1>6, <2>1, <2>2, <2>3 DEF KeyInTime, Ttl
<1> QED
  BY <1>2, <1>7, <1>8, GrantRecent, GrantTrailing DEF SlidingInv

\* A step that leaves the key, the verdict's type and the history alone.
LEMMA OtherStep ==
  ASSUME SlidingInv, NEW c \in Callers,
         Begin(c) \/ Replied(c) \/ Lose(c) \/ Redeploy(c),
         UNCHANGED <<key, watch>>, verdict' \in BOOLEAN
  PROVE  SlidingInv'
<1>1. CallsTypeOK' /\ StampsInTime' /\ clock' = clock
  BY CallsStep DEF SlidingInv, TypeOK
<1>2. TypeOK'
  BY <1>1 DEF SlidingInv, TypeOK
<1>3. KeyInTime'
  BY <1>1 DEF SlidingInv, KeyInTime, Ttl
<1>4. Recent' = Recent
  BY <1>1 DEF Recent, BucketOf
<1>5. RecentCounted'
  BY <1>4 DEF SlidingInv, RecentCounted, BucketOf
<1>6. TrailingBound'
  BY DEF SlidingInv, TrailingBound, Stamped
<1> QED
  BY <1>1, <1>2, <1>3, <1>5, <1>6 DEF SlidingInv

\* A refusal leaves the key as it is: there is nothing to clean up.
LEMMA RefuseKeeps ==
  ASSUME SlidingInv, NEW c \in Callers, Refuse(c)
  PROVE  UNCHANGED <<key, watch>> /\ verdict' = FALSE /\ Replied(c)
<1>1. /\ call[c].pending /\ ~Admits(conf[c], Stamp(c)) /\ Replied(c)
      /\ key' = [key EXCEPT !.hits = InWindow(conf[c], Stamp(c))]
      /\ verdict' = FALSE /\ watch' = watch
  BY DEF Refuse
<1>2. key # NoKey /\ InWindow(conf[c], Stamp(c)) = key.hits
  BY <1>1, FullWindow
<1>3. key \in Counters
  BY <1>2 DEF SlidingInv, TypeOK
<1>4. key' = key
  BY <1>1, <1>2, <1>3 DEF Counters
<1> QED
  BY <1>1, <1>4

\* Time passing keeps the inductive invariant: when a key expires, all it counted
\* is a window back.
LEMMA TickStep ==
  ASSUME SlidingInv, Tick
  PROVE  SlidingInv'
<1>1. CallsTypeOK' /\ StampsInTime' /\ clock' = clock + 1 /\ clock \in Int
  BY CallsTick DEF Tick, SlidingInv, TypeOK, CallsTypeOK
<1>2. watch' = watch /\ verdict' = verdict /\ (key' = key \/ key' = NoKey)
  BY DEF Tick
<1>3. TypeOK'
  BY <1>1, <1>2 DEF SlidingInv, TypeOK
<1>4. TrailingBound'
  BY <1>2 DEF SlidingInv, TrailingBound, Stamped
<1>5. ASSUME watch # NoWatch
      PROVE  /\ watch.conf \in WindowConfig /\ watch.conf.windowSize \in Int
             /\ \A s \in watch.stamps : s[1] \in Int /\ BucketOf(s[1]) \in Int
                                          /\ BucketOf(s[1]) <= s[1]
  BY <1>5, BucketBounds DEF SlidingInv, TypeOK, Watch, Counted, WindowConfig, Positive
<1>6. Skew \in Int /\ Skew >= 0 /\ MaxDelay \in Int /\ MaxDelay >= 0
  BY CallsAssumption
<1>7. key # NoKey => Ttl(key.hash) \in Int /\ key.expireAt \in Int
                     /\ key.hash.windowSize + MaxDelay + 2 * Skew <= Ttl(key.hash)
  BY TtlCovers DEF SlidingInv, TypeOK, Counters
<1>8. KeyInTime'
  <2>1. watch # NoWatch => \A s \in watch.stamps : s[1] <= clock' + Skew
    BY <1>1, <1>5, <1>6 DEF SlidingInv, KeyInTime
  <2>2. CASE key' = NoKey
    BY <1>2, <2>1, <2>2 DEF KeyInTime
  <2>3. CASE key' = key
    <3>1. key # NoKey => key.expireAt - Ttl(key.hash) <= clock'
      BY <1>1, <1>7 DEF SlidingInv, KeyInTime
    <3> QED
      BY <1>2, <2>1, <2>3, <3>1 DEF SlidingInv, KeyInTime, Ttl
  <2> QED
    BY <1>2, <2>2, <2>3
<1>9. watch # NoWatch =>
        Recent' = {s \in watch.stamps : BucketOf(s[1]) >= clock' + Skew - watch.conf.windowSize}
  BY <1>2 DEF Recent, BucketOf
<1>10. watch # NoWatch => Recent' \subseteq Recent
  <2>1. SUFFICES ASSUME watch # NoWatch, NEW s \in Recent' PROVE s \in Recent
    OBVIOUS
  <2>2. /\ s \in watch.stamps /\ BucketOf(s[1]) \in Int /\ watch.conf.windowSize \in Int
        /\ BucketOf(s[1]) >= clock' + Skew - watch.conf.windowSize
    BY <1>5, <1>9, <2>1
  <2>3. BucketOf(s[1]) >= clock + Skew - watch.conf.windowSize
    BY <1>1, <1>6, <2>2
  <2> QED
    BY <2>2, <2>3 DEF Recent
<1>11. RecentCounted'
  <2>1. SUFFICES ASSUME watch # NoWatch
                 PROVE  /\ key' = NoKey => Recent' = {}
                        /\ key' # NoKey =>
                             \E f \in Injection(Recent', key'.hits) :
                               \A s \in Recent' : f[s][1] = (s[1] \div Sec) * Sec
    BY <1>2 DEF RecentCounted, BucketOf
  <2>2. CASE key = NoKey
    <3>1. Recent = {} /\ key' = NoKey
      BY <1>2, <2>1, <2>2 DEF SlidingInv, RecentCounted
    <3> QED
      BY <1>10, <2>1, <3>1
  <2>3. CASE key # NoKey /\ key' = NoKey
    <3>1. clock' > key.expireAt /\ watch.conf = key.hash
      BY <2>1, <2>3 DEF Tick, SlidingInv, KeyInTime
    <3>2. ASSUME NEW s \in Recent' PROVE FALSE
      <4>1. /\ s \in watch.stamps /\ s[1] \in Int /\ BucketOf(s[1]) \in Int
            /\ BucketOf(s[1]) <= s[1] /\ watch.conf.windowSize \in Int
            /\ BucketOf(s[1]) >= clock' + Skew - watch.conf.windowSize
        BY <1>5, <1>9, <2>1, <3>2
      <4>2. s[1] <= (key.expireAt - Ttl(key.hash)) + Skew
        BY <2>3, <4>1 DEF SlidingInv, KeyInTime
      <4> QED
        BY <1>1, <1>6, <1>7, <2>3, <3>1, <4>1, <4>2
    <3> QED
      BY <2>3, <3>2
  <2>4. CASE key # NoKey /\ key' = key
    <3>1. PICK f \in Injection(Recent, key.hits) : \A s \in Recent : f[s][1] = BucketOf(s[1])
      BY <2>1, <2>4 DEF SlidingInv, RecentCounted
    <3> DEFINE g == [s \in Recent' |-> f[s]]
    <3>2. g \in Injection(Recent', key.hits)
      BY <1>10, <2>1, <3>1 DEF Injection, IsInjective
    <3>3. \A s \in Recent' : g[s][1] = (s[1] \div Sec) * Sec
      BY <1>10, <2>1, <3>1 DEF BucketOf
    <3> HIDE DEF g
    <3> QED
      BY <2>4, <3>2, <3>3
  <2> QED
    BY <1>2, <2>2, <2>3, <2>4
<1> QED
  BY <1>1, <1>3, <1>4, <1>8, <1>11 DEF SlidingInv

-----------------------------------------------------------------------------
(* The theorems *)

\* Before the first request the inductive invariant holds.
THEOREM SlidingInvInit == Init => SlidingInv
<1> SUFFICES ASSUME Init PROVE SlidingInv
  OBVIOUS
<1>1. call = [c \in Callers |-> Idle] /\ clock \in Int /\ conf \in [Callers -> Configs]
      /\ key = NoKey /\ watch = NoWatch /\ verdict = FALSE
  BY CallsAssumption DEF Init, CallsInit
<1>2. call \in [Callers -> [pending : BOOLEAN, at : Int, tries : 0..MaxRetries]]
  BY <1>1, IdleType
<1>3. StampsInTime
  BY <1>1 DEF StampsInTime, Idle
<1> QED
  BY <1>1, <1>2, <1>3
     DEF SlidingInv, TypeOK, CallsTypeOK, KeyInTime, RecentCounted, TrailingBound

\* Every step of callers, scripts, time and Redis keeps the inductive
\* invariant.
THEOREM SlidingInvNext == SlidingInv /\ [Next]_vars => SlidingInv'
<1> SUFFICES ASSUME SlidingInv, [Next]_vars PROVE SlidingInv'
  OBVIOUS
<1>1. ASSUME NEW c \in Callers, Send(c) \/ Drop(c) \/ Restart(c) PROVE SlidingInv'
  BY <1>1, OtherStep DEF Send, Drop, Restart, SlidingInv, TypeOK
<1>2. ASSUME NEW c \in Callers, Grant(c) PROVE SlidingInv'
  BY <1>2, GrantStep
<1>3. ASSUME NEW c \in Callers, Refuse(c) PROVE SlidingInv'
  BY <1>3, RefuseKeeps, OtherStep
<1>4. CASE Tick
  BY <1>4, TickStep
<1>5. CASE RedisRestart
  BY <1>5 DEF RedisRestart, callVars, SlidingInv, TypeOK, CallsTypeOK, StampsInTime,
              KeyInTime, RecentCounted, TrailingBound
<1>6. CASE UNCHANGED vars
  <2>1. UNCHANGED <<clock, conf, call, key, verdict, watch>>
    BY <1>6 DEF vars, callVars
  <2>2. Recent' = Recent
    BY <2>1 DEF Recent, BucketOf
  <2>3. RecentCounted'
    BY <2>1, <2>2 DEF SlidingInv, RecentCounted, BucketOf
  <2>4. KeyInTime' /\ TrailingBound'
    BY <2>1 DEF SlidingInv, KeyInTime, Ttl, TrailingBound, Stamped
  <2>5. TypeOK' /\ StampsInTime'
    BY <2>1 DEF SlidingInv, TypeOK, CallsTypeOK, StampsInTime
  <2> QED
    BY <2>3, <2>4, <2>5 DEF SlidingInv
<1> QED
  BY <1>1, <1>2, <1>3, <1>4, <1>5, <1>6 DEF Next

\* The inductive invariant holds in every reachable state.
THEOREM SlidingInvariance == Spec => []SlidingInv
BY SlidingInvInit, SlidingInvNext, PTL DEF Spec

\* Type correctness of the sliding window: its counters never hold more than the
\* limit, and only whole seconds.
THEOREM TypeCorrect == Spec => []TypeOK
<1>1. SlidingInv => TypeOK
  BY DEF SlidingInv
<1> QED
  BY <1>1, SlidingInvariance, PTL

\* No span of the window less a second and less the lag of stamps sees more grants
\* than the limit, whatever arrives late, is resent, cleaned up or expires.
THEOREM TrailingBounded == Spec => []TrailingBound
<1>1. SlidingInv => TrailingBound
  BY DEF SlidingInv
<1> QED
  BY <1>1, SlidingInvariance, PTL

\* The oldest second of a window is that of a hit or the present, and no hit of the
\* window is older.
LEMMA OldestFound ==
  ASSUME SlidingInv, NEW c \in Callers, call[c].pending,
         NEW k, k = conf[c], NEW now, now = Stamp(c)
  PROVE  /\ Oldest(k, now) \in Int /\ Oldest(k, now) <= now
         /\ now - k.windowSize <= Oldest(k, now)
         /\ Oldest(k, now) = now \/ \E h \in InWindow(k, now) : h[1] = Oldest(k, now)
         /\ \A h \in InWindow(k, now) : Oldest(k, now) <= h[1]
<1> DEFINE S == InWindow(k, now)
           seconds == {now} \cup {h[1] : h \in S}
<1>1. /\ now \in Int /\ k.windowSize \in Int /\ k.windowSize >= 1
      /\ \A h \in S : h[1] \in Int /\ now - k.windowSize <= h[1]
  BY FoundHits
<1>2. seconds \in SUBSET Int /\ \A x \in seconds : now - k.windowSize <= x
  BY <1>1
<1>3. seconds # {} /\ now - k.windowSize \in Int
  BY <1>1
<1>4. \E b \in seconds : \A other \in seconds : b <= other
  <2> HIDE DEF seconds
  <2> QED
    BY <1>2, <1>3, LeastOf
<1>5. Oldest(k, now) = CHOOSE b \in seconds : \A other \in seconds : b <= other
  BY DEF Oldest
<1> DEFINE old == Oldest(k, now)
<1>6. old \in seconds /\ \A other \in seconds : old <= other
  <2> HIDE DEF seconds, old
  <2> QED
    BY <1>4, <1>5 DEF old
<1> HIDE DEF old
<1> QED
  BY <1>1, <1>2, <1>6 DEF old

\* From a refusal on, all stored hits stay in the window until retry_after is over,
\* and the oldest of them is outside a unit and the lag later.
LEMMA SlidingInvRetry == SlidingInv => RetryWithin
<1> SUFFICES ASSUME SlidingInv, NEW c \in Callers, call[c].pending,
                    ~Admits(conf[c], Stamp(c))
             PROVE  LET k == conf[c]
                        later == Stamp(c) + RetryAfter(k, Stamp(c))
                    IN  /\ \A t \in Stamp(c)..later : ~Admits(k, t)
                        /\ Admits(k, later + 1 + Lag)
  BY DEF RetryWithin
<1> DEFINE k == conf[c]
           now == Stamp(c)
           later == now + RetryAfter(k, now)
           old == Oldest(k, now)
<1>1. /\ key # NoKey /\ key.hash = k /\ InWindow(k, now) = key.hits /\ ~Fresh(k)
      /\ Cardinality(key.hits) = k.limit /\ key.hits # {}
  BY FullWindow
<1>2. /\ k \in WindowConfig /\ clock \in Int /\ k.limit \in Int /\ k.windowSize \in Int
      /\ k.windowSize >= 1 /\ now \in Int /\ clock - MaxDelay - Skew <= now
      /\ \A h \in key.hits : h[1] \in Int
  BY <1>1, FoundHits
<1>3. /\ old \in Int /\ old <= now /\ now - k.windowSize <= old
      /\ old = now \/ \E h \in key.hits : h[1] = old
      /\ \A h \in key.hits : old <= h[1]
  BY <1>1, OldestFound
<1>4. /\ Skew \in Int /\ MaxDelay \in Int /\ Skew >= 0 /\ MaxDelay >= 0
      /\ Lag = MaxDelay + 2 * Skew /\ Lag \in Int
  BY CallsAssumption DEF Lag
<1> HIDE DEF k, now, old
<1>5. later = old + k.windowSize
  BY <1>2, <1>3 DEF RetryAfter, old
<1>6. \A t : InWindow(k, t) = {h \in key.hits : h[1] >= t - k.windowSize}
  BY <1>1 DEF InWindow, Kept
<1> HIDE DEF later
<1>7. ASSUME NEW t \in now..later PROVE ~Admits(k, t)
  <2>1. \A h \in key.hits : h[1] >= t - k.windowSize
    BY <1>2, <1>3, <1>5, <1>7
  <2>2. InWindow(k, t) = key.hits
    BY <1>6, <2>1
  <2> QED
    BY <1>1, <1>2, <2>2 DEF Admits, Total
<1>8. Admits(k, later + 1 + Lag)
  <2> DEFINE t == later + 1 + Lag
             S == InWindow(k, t)
  <2>1. PICK h \in key.hits : h[1] <= old + Lag
    <3>1. CASE \E h \in key.hits : h[1] = old
      BY <1>2, <1>3, <1>4, <3>1
    <3>2. CASE old = now
      <4>1. PICK h \in key.hits : TRUE
        BY <1>1
      <4>2. h[1] <= (key.expireAt - Ttl(k)) + Skew /\ key.expireAt - Ttl(k) <= clock
        BY <1>1, <4>1 DEF SlidingInv, KeyInTime
      <4>3. key.expireAt \in Int /\ Ttl(k) \in Int
        BY <1>1, <1>2, TtlCovers DEF SlidingInv, TypeOK, Counters
      <4>4. h[1] <= clock + Skew
        BY <1>2, <1>4, <4>1, <4>2, <4>3
      <4>5. h[1] <= old + Lag
        BY <1>2, <1>4, <3>2, <4>1, <4>4
      <4> QED
        BY <4>1, <4>5
    <3> QED
      BY <1>3, <3>1, <3>2
  <2>2. ~(h[1] >= t - k.windowSize)
    BY <1>2, <1>3, <1>4, <1>5, <2>1
  <2>3. S \in SUBSET key.hits /\ S # key.hits
    BY <1>6, <2>1, <2>2
  <2>4. IsFiniteSet(key.hits)
    BY <1>1 DEF SlidingInv, TypeOK
  <2>5. Cardinality(S) \in Nat /\ Cardinality(S) < k.limit
    <3> HIDE DEF S
    <3>1. IsFiniteSet(S) /\ Cardinality(S) <= Cardinality(key.hits)
          /\ Cardinality(key.hits) # Cardinality(S)
      BY <2>3, <2>4, FS_Subset
    <3>2. Cardinality(S) \in Nat
      BY <3>1, FS_CardinalityType
    <3> QED
      BY <1>1, <1>2, <3>1, <3>2
  <2> QED
    BY <2>5 DEF Admits, Total
<1> QED
  BY <1>7, <1>8 DEF k, now, later

\* The wait a refused call is told is never too long, and too short by a unit and
\* the lag at most.
THEOREM RetryIsWithin == Spec => []RetryWithin
BY SlidingInvRetry, SlidingInvariance, PTL

\* A key that expires counts nothing a stamp to come could still see.
THEOREM ExpiryLosesNothing == Spec => ExpiryForgetsNothing
<1>1. SlidingInv /\ [Next]_vars =>
        [key # NoKey /\ key' = NoKey /\ clock' # clock =>
           \A h \in key.hits :
             h[1] < clock' - MaxDelay - Skew - key.hash.windowSize]_vars
  <2> SUFFICES ASSUME SlidingInv, [Next]_vars, key # NoKey, key' = NoKey, clock' # clock,
                      NEW h \in key.hits
               PROVE  h[1] < clock' - MaxDelay - Skew - key.hash.windowSize
    OBVIOUS
  <2>1. Tick
    <3>1. ASSUME NEW c \in Callers,
                 Send(c) \/ Grant(c) \/ Refuse(c) \/ Drop(c) \/ Restart(c)
          PROVE  clock' = clock
      BY <3>1 DEF Send, Grant, Refuse, Drop, Restart, Begin, Replied, Lose, Redeploy
    <3> QED
      BY <3>1 DEF Next, vars, callVars, RedisRestart
  <2>2. clock' > key.expireAt /\ clock' \in Int
    BY <2>1, CallsTick DEF Tick, SlidingInv, TypeOK, CallsTypeOK
  <2>3. /\ key.hash \in WindowConfig /\ key.expireAt \in Int /\ h[1] \in Int
        /\ key.hash.windowSize \in Int
    BY DEF SlidingInv, TypeOK, Counters, Counted, WindowConfig, Positive
  <2>4. h[1] <= (key.expireAt - Ttl(key.hash)) + Skew
    BY DEF SlidingInv, KeyInTime
  <2>5. Ttl(key.hash) \in Int
        /\ key.hash.windowSize + MaxDelay + 2 * Skew <= Ttl(key.hash)
    BY <2>3, TtlCovers
  <2> QED
    BY <2>2, <2>3, <2>4, <2>5, CallsAssumption
<1> QED
  BY <1>1, SlidingInvariance, PTL DEF Spec, ExpiryForgetsNothing

\* A grant of the script is a grant of the contract, and a refusal a denial.
LEMMA ContractStep ==
  ASSUME SlidingInv, NEW c \in Callers, Grant(c) \/ Refuse(c)
  PROVE  Contract!Grant(conf[c]) \/ Contract!Deny(conf[c])
<1> DEFINE k == conf[c]
           now == Stamp(c)
           spentBy == IF (IF key = NoKey THEN NoKey ELSE key.hash) = k
                      THEN IF key = NoKey THEN 0 ELSE Cardinality(key.hits) ELSE 0
<1>1. call[c].pending
  BY DEF Grant, Refuse
<1>2. /\ k \in Configs /\ k.limit \in Int /\ Total(k, now) \in Nat
      /\ Fresh(k) => InWindow(k, now) = {}
      /\ ~Fresh(k) => InWindow(k, now) = {h \in key.hits : h[1] >= now - k.windowSize}
  BY <1>1, FoundHits
<1>3. CASE Grant(c)
  <2>1. /\ verdict' = TRUE /\ Total(k, now) < k.limit /\ key' # NoKey
        /\ Cardinality(key'.hits) = Total(k, now) + 1
    BY <1>3, GrantEffect
  <2>2. key'.hash = k
    BY <1>3 DEF Grant
  <2>3. key # NoKey => IsFiniteSet(key.hits) /\ Cardinality(key.hits) \in Nat
    BY FS_CardinalityType DEF SlidingInv, TypeOK
  <2>4. Total(k, now) <= spentBy /\ spentBy \in Nat
    <3>1. CASE Fresh(k)
      BY <1>2, <2>3, <3>1, FS_EmptySet DEF Total
    <3>2. CASE ~Fresh(k)
      <4>1. key # NoKey /\ key.hash = k /\ InWindow(k, now) \in SUBSET key.hits
        BY <1>2, <3>2 DEF Fresh
      <4>2. Total(k, now) <= Cardinality(key.hits)
        BY <2>3, <4>1, FS_Subset DEF Total
      <4> QED
        BY <2>3, <4>1, <4>2
    <3> QED
      BY <3>1, <3>2
  <2>5. Total(k, now) \in 0..spentBy
    BY <1>2, <2>4
  <2> QED
    BY <1>2, <2>1, <2>2, <2>5 DEF Contract!Grant, Contract!SpentBy
<1>4. CASE Refuse(c)
  <2>1. UNCHANGED <<key, watch>> /\ verdict' = FALSE
    BY <1>4, RefuseKeeps
  <2>2. ~Admits(k, now)
    BY <1>4 DEF Refuse
  <2>3. key # NoKey /\ key.hash = k /\ Cardinality(key.hits) = k.limit
    BY <1>1, <2>2, FullWindow
  <2> QED
    BY <1>2, <2>1, <2>3 DEF Contract!Deny, Contract!SpentBy
<1> QED
  BY <1>3, <1>4

\* The sliding window implements the contract of a limiter key.
THEOREM ImplementsQuota == Spec => IsQuota
<1>1. Init => Contract!Init
  BY DEF Init, Contract!Init
<1>2. SlidingInv /\ [Next]_vars => [Contract!Next]_(Contract!vars)
  <2> SUFFICES ASSUME SlidingInv, [Next]_vars PROVE [Contract!Next]_(Contract!vars)
    OBVIOUS
  <2>1. ASSUME NEW c \in Callers, Send(c) \/ Drop(c) \/ Restart(c)
        PROVE  UNCHANGED Contract!vars
    BY <2>1 DEF Send, Drop, Restart, Contract!vars
  <2>2. ASSUME NEW c \in Callers, Grant(c) \/ Refuse(c) PROVE Contract!Next
    BY <2>2, ContractStep DEF Contract!Next, SlidingInv, TypeOK, CallsTypeOK
  <2>3. CASE Tick
    <3>1. (key' = NoKey /\ verdict' = verdict) \/ UNCHANGED <<key, verdict>>
      BY <2>3 DEF Tick
    <3>2. CASE key' = NoKey /\ verdict' = verdict
      BY <3>2 DEF Contract!Next, Contract!Forget
    <3>3. CASE UNCHANGED <<key, verdict>>
      BY <3>3 DEF Contract!vars
    <3> QED
      BY <3>1, <3>2, <3>3
  <2>4. CASE RedisRestart
    BY <2>4 DEF RedisRestart, Contract!Next, Contract!Forget
  <2>5. CASE UNCHANGED vars
    BY <2>5 DEF vars, Contract!vars
  <2> QED
    BY <2>1, <2>2, <2>3, <2>4, <2>5 DEF Next
<1> QED
  BY <1>1, <1>2, SlidingInvariance, PTL DEF Spec, IsQuota, Contract!Spec
=============================================================================
