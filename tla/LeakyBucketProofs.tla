------------------------- MODULE LeakyBucketProofs --------------------------
(***************************************************************************)
(* Proofs about the leaky bucket, for every set of hosts and               *)
(* configurations and every offset, delay and number of resends.           *)
(***************************************************************************)
EXTENDS LeakyBucket, ScriptCallsProofs

-----------------------------------------------------------------------------
(* The operators of the script *)

\* The parameters of a configuration are positive numbers.
LEMMA ConfigPositive ==
  ASSUME NEW k \in LeakyConfig
  PROVE  /\ k.capacity \in Nat /\ k.capacity >= 1
         /\ k.leakRate \in Nat /\ k.leakRate >= 1
         /\ k.leakPeriod \in Positive /\ k.leakPeriod \in Nat
BY DEF LeakyConfig, Positive

\* The level a call finds, after the reset or the leak, is that of the bucket or
\* less, and within its bounds; nothing leaks beyond the stamp.
LEMMA LevelBounds ==
  ASSUME NEW k \in LeakyConfig, NEW now \in Int,
         ~Fresh(k) => /\ key.level \in Nat /\ key.level <= k.capacity
                      /\ key.last_leak \in Int
  PROVE  /\ Level(k, now) \in Nat /\ Level(k, now) <= k.capacity
         /\ LastLeak(k, now) \in Int
         /\ LastLeak(k, now) <= now \/ (~Fresh(k) /\ LastLeak(k, now) = key.last_leak)
<1>1. CASE Fresh(k)
  <2>1. Level(k, now) = 0 /\ LastLeak(k, now) = now
    BY <1>1 DEF Level, LastLeak
  <2> QED
    BY <2>1, ConfigPositive
<1>2. CASE ~Fresh(k)
  <2> DEFINE p == Periods(k, now)
  <2>1. p \in Int /\ k.leakPeriod * p <= now - key.last_leak
    BY <1>2, ConfigPositive, DivBounds DEF Periods
  <2>2. Level(k, now) = IF p > 0 THEN AtLeast(key.level - p * k.leakRate, 0) ELSE key.level
    BY <1>2 DEF Level
  <2>3. LastLeak(k, now) = IF p > 0 THEN key.last_leak + p * k.leakPeriod ELSE key.last_leak
    BY <1>2 DEF LastLeak
  <2> HIDE DEF p
  <2>4. p > 0 => p * k.leakRate \in Nat /\ p * k.leakPeriod \in Int
    BY <2>1, ConfigPositive
  <2>5. p > 0 => key.last_leak + p * k.leakPeriod <= now
    BY <1>2, <2>1, <2>4, ConfigPositive
  <2>6. CASE p > 0
    <3>1. LastLeak(k, now) = key.last_leak + p * k.leakPeriod
      BY <2>3, <2>6
    <3>2. LastLeak(k, now) \in Int /\ LastLeak(k, now) <= now
      BY <1>2, <2>4, <2>5, <2>6, <3>1
    <3>3. Level(k, now) \in Nat /\ Level(k, now) <= k.capacity
      BY <1>2, <2>2, <2>4, <2>6, ConfigPositive DEF AtLeast
    <3> QED
      BY <3>2, <3>3
  <2>7. CASE ~(p > 0)
    BY <1>2, <2>2, <2>3, <2>7
  <2> QED
    BY <2>6, <2>7
<1> QED
  BY <1>1, <1>2

\* The lifetime of a key is a whole number of clock units, and lasts for a period
\* and the buffer where a period leaks no more than the capacity.
LEMMA TtlCovers ==
  ASSUME NEW k \in LeakyConfig
  PROVE  /\ Ttl(k) \in Int
         /\ k.leakRate <= k.capacity => k.leakPeriod + MaxDelay + 2 * Skew <= Ttl(k)
<1>1. k.capacity \in Positive /\ k.leakRate \in Positive /\ k.leakPeriod \in Positive
  BY DEF LeakyConfig
<1> QED
  BY <1>1, LifetimeCovers DEF Ttl

\* The bucket a call finds.
LEMMA FoundLevel ==
  ASSUME LevelInv, NEW c \in Callers, NEW k, k = conf[c], NEW now, now = Stamp(c)
  PROVE  /\ k \in Configs /\ k \in LeakyConfig /\ now \in Int /\ clock \in Int
         /\ Level(k, now) \in Nat /\ Level(k, now) <= k.capacity
         /\ LastLeak(k, now) \in Int
         /\ ~Fresh(k) => /\ key # NoKey /\ key.hash = k /\ key.level \in Nat
                         /\ key.level <= k.capacity /\ key.last_leak \in Int
                         /\ key.last_leak <= clock + Skew
         /\ call[c].pending => LastLeak(k, now) <= clock + Skew
<1>1. k \in Configs /\ k \in LeakyConfig /\ clock \in Int
  BY LeakyAssumption DEF LevelInv, TypeOK, CallsTypeOK
<1>2. now \in Int
  <2>1. Offset[c] \in Int /\ call[c].at \in Int
    BY CallsAssumption DEF LevelInv, TypeOK, CallsTypeOK
  <2> QED
    BY <2>1 DEF Stamp
<1>3. ~Fresh(k) => /\ key # NoKey /\ key.hash = k /\ key.level \in Nat
                   /\ key.level <= k.capacity /\ key.last_leak \in Int
                   /\ key.last_leak <= clock + Skew
  BY DEF Fresh, LevelInv, TypeOK, Bucket
<1>4. call[c].pending => now <= clock + Skew
  BY StampRange DEF LevelInv, TypeOK
<1>5. clock + Skew \in Int
  BY <1>1, CallsAssumption
<1>6. /\ Level(k, now) \in Nat /\ Level(k, now) <= k.capacity
      /\ LastLeak(k, now) \in Int
      /\ LastLeak(k, now) <= now \/ (~Fresh(k) /\ LastLeak(k, now) = key.last_leak)
  BY <1>1, <1>2, <1>3, LevelBounds
<1> QED
  BY <1>1, <1>2, <1>3, <1>4, <1>5, <1>6

-----------------------------------------------------------------------------
(* The inductive invariant *)

\* The script that runs leaves a bucket that does not overflow.
LEMMA ScriptStep ==
  ASSUME LevelInv, NEW c \in Callers, Grant(c) \/ Refuse(c)
  PROVE  LevelInv'
<1> DEFINE k == conf[c]
           now == Stamp(c)
           level == Level(k, now)
<1>1. /\ k \in Configs /\ k \in LeakyConfig /\ clock \in Int
      /\ level \in Nat /\ level <= k.capacity /\ LastLeak(k, now) \in Int
      /\ LastLeak(k, now) <= clock + Skew
  BY FoundLevel DEF Grant, Refuse
<1>2. \E n \in Nat : n <= k.capacity /\ key' = Stored(k, now, n)
  <2>1. CASE Grant(c)
    <3>1. level < k.capacity /\ key' = Stored(k, now, level + 1)
      BY <2>1 DEF Grant, HasRoom
    <3>2. level + 1 \in Nat /\ level + 1 <= k.capacity
      BY <1>1, <3>1, ConfigPositive
    <3> QED
      BY <3>1, <3>2
  <2>2. CASE Refuse(c)
    BY <1>1, <2>2 DEF Refuse
  <2> QED
    BY <2>1, <2>2
<1>3. PICK n \in Nat : n <= k.capacity /\ key' = Stored(k, now, n)
  BY <1>2
<1>4. key' \in Bucket /\ key'.level <= key'.hash.capacity
      /\ key'.last_leak <= clock + Skew
  <2>1. clock + Ttl(k) \in Int
    BY <1>1, TtlCovers
  <2> QED
    BY <1>1, <1>3, <2>1 DEF Stored, Bucket
<1>5. watch' \in Watch \cup {NoWatch} /\ verdict' \in BOOLEAN
  <2>1. CASE Refuse(c)
    BY <2>1 DEF Refuse, LevelInv, TypeOK
  <2>2. CASE Grant(c)
    <3>1. verdict' = TRUE /\ Watched(k, now)
      BY <2>2 DEF Grant
    <3>2. CASE watch # NoWatch /\ watch' = [watch EXCEPT !.charged = @ + 1]
      BY <3>1, <3>2 DEF LevelInv, TypeOK, Watch
    <3>3. CASE watch' = [conf |-> k, start |-> LastLeak(k, now), charged |-> 1]
      BY <1>1, <3>1, <3>3 DEF Watch
    <3> QED
      BY <3>1, <3>2, <3>3 DEF Watched
  <2> QED
    BY <2>1, <2>2
<1>6. CallsTypeOK' /\ StampsInTime' /\ clock' = clock
  BY CallsStep DEF Grant, Refuse, LevelInv, TypeOK
<1> QED
  BY <1>4, <1>5, <1>6 DEF LevelInv, TypeOK

\* A step that leaves the key, or takes it away, keeps the inductive invariant.
LEMMA OtherStep ==
  ASSUME LevelInv, CallsTypeOK', StampsInTime', clock <= clock', key' \in {key, NoKey},
         watch' \in {watch, NoWatch}, verdict' = verdict
  PROVE  LevelInv'
<1>1. clock \in Int /\ clock' \in Int /\ Skew \in Int
  BY CallsAssumption DEF LevelInv, TypeOK, CallsTypeOK
<1>2. key # NoKey => key.last_leak \in Int /\ key.last_leak <= clock + Skew
  BY DEF LevelInv, TypeOK, Bucket
<1>3. key' # NoKey => key' = key /\ key'.last_leak <= clock' + Skew
  BY <1>1, <1>2
<1> QED
  BY <1>3 DEF LevelInv, TypeOK

\* Before the first request the inductive invariant holds.
THEOREM LevelInvInit == Init => LevelInv
<1> SUFFICES ASSUME Init PROVE LevelInv
  OBVIOUS
<1>1. call = [c \in Callers |-> Idle] /\ clock \in Int /\ conf \in [Callers -> Configs]
      /\ key = NoKey /\ watch = NoWatch /\ verdict = FALSE
  BY CallsAssumption DEF Init, CallsInit
<1>2. call \in [Callers -> [pending : BOOLEAN, at : Int, tries : 0..MaxRetries]]
  BY <1>1, IdleType
<1>3. StampsInTime
  BY <1>1 DEF StampsInTime, Idle
<1> QED
  BY <1>1, <1>2, <1>3 DEF LevelInv, TypeOK, CallsTypeOK

\* Every step of callers, scripts, time and Redis keeps the inductive
\* invariant.
THEOREM LevelInvNext == LevelInv /\ [Next]_vars => LevelInv'
<1> SUFFICES ASSUME LevelInv, [Next]_vars PROVE LevelInv'
  OBVIOUS
<1>1. ASSUME NEW c \in Callers, Send(c) \/ Drop(c) \/ Restart(c) PROVE LevelInv'
  <2>1. CallsTypeOK' /\ StampsInTime' /\ clock <= clock'
    BY <1>1, CallsStep DEF Send, Drop, Restart, LevelInv, TypeOK, CallsTypeOK
  <2> QED
    BY <1>1, <2>1, OtherStep DEF Send, Drop, Restart
<1>2. ASSUME NEW c \in Callers, Grant(c) \/ Refuse(c) PROVE LevelInv'
  BY <1>2, ScriptStep
<1>3. CASE Tick
  <2>1. CallsTypeOK' /\ StampsInTime' /\ clock <= clock'
    BY <1>3, CallsTick DEF Tick, LevelInv, TypeOK, CallsTypeOK
  <2> QED
    BY <1>3, <2>1, OtherStep DEF Tick
<1>4. CASE RedisRestart
  <2>1. CallsTypeOK' /\ StampsInTime' /\ clock <= clock'
    BY <1>4 DEF RedisRestart, callVars, LevelInv, TypeOK, CallsTypeOK, StampsInTime
  <2> QED
    BY <1>4, <2>1, OtherStep DEF RedisRestart
<1>5. CASE UNCHANGED vars
  <2>1. CallsTypeOK' /\ StampsInTime' /\ clock <= clock'
    BY <1>5 DEF vars, callVars, LevelInv, TypeOK, CallsTypeOK, StampsInTime
  <2> QED
    BY <1>5, <2>1, OtherStep DEF vars
<1> QED
  BY <1>1, <1>2, <1>3, <1>4, <1>5 DEF Next

\* The inductive invariant holds in every reachable state.
THEOREM LevelInvariance == Spec => []LevelInv
BY LevelInvInit, LevelInvNext, PTL DEF Spec

\* Type correctness of the leaky bucket.
THEOREM TypeCorrect == Spec => []TypeOK
<1>1. LevelInv => TypeOK
  BY DEF LevelInv
<1> QED
  BY <1>1, LevelInvariance, PTL

-----------------------------------------------------------------------------
(* What a refused call is told *)

\* At any stamp the stored bucket is as full as it is, less the leaks since.
LEMMA LevelAt ==
  ASSUME NEW k \in LeakyConfig, NEW t \in Int, ~Fresh(k),
         key.level = k.capacity, key.last_leak \in Int
  PROVE  /\ HasRoom(k, t) <=> t >= key.last_leak + k.leakPeriod
         /\ ~HasRoom(k, t) => LastLeak(k, t) = key.last_leak
<1> DEFINE p == Periods(k, t)
           size == k.leakPeriod
<1>1. t - key.last_leak \in Int /\ size \in Positive /\ size \in Nat
  BY ConfigPositive
<1>2. p \in Int /\ size * p <= t - key.last_leak /\ t - key.last_leak < size * p + size
  BY <1>1, DivBounds DEF Periods
<1>3. /\ Level(k, t) = IF p > 0 THEN AtLeast(key.level - p * k.leakRate, 0) ELSE key.level
      /\ LastLeak(k, t) = IF p > 0 THEN key.last_leak + p * size ELSE key.last_leak
  BY DEF Level, LastLeak
<1> HIDE DEF p, size
<1>4. CASE p > 0
  <2>1. p * k.leakRate >= 1 /\ p * k.leakRate \in Int
    BY <1>2, <1>4, ConfigPositive
  <2>2. Level(k, t) < k.capacity
    BY <1>3, <1>4, <2>1, ConfigPositive DEF AtLeast
  <2>3. size * 1 <= size * p /\ size * p \in Int /\ size * 1 = size
    BY <1>1, <1>2, <1>4, ScaleLeq
  <2>4. t >= key.last_leak + size
    BY <1>1, <1>2, <2>3
  <2> QED
    BY <2>2, <2>4 DEF HasRoom, size
<1>5. CASE ~(p > 0)
  <2>1. ~HasRoom(k, t) /\ LastLeak(k, t) = key.last_leak
    BY <1>3, <1>5, ConfigPositive DEF HasRoom
  <2>2. size * p <= size * 0 /\ size * p \in Int /\ size * 0 = 0
    BY <1>1, <1>2, <1>5, ScaleLeq
  <2>3. t < key.last_leak + size
    BY <1>1, <1>2, <2>2
  <2> QED
    BY <1>1, <2>1, <2>3 DEF size
<1> QED
  BY <1>4, <1>5

\* The inductive invariant makes the reported wait exact, but for an expiry.
LEMMA LevelInvRetry == LevelInv => RetryExact
<1> SUFFICES ASSUME LevelInv, NEW c \in Callers, call[c].pending,
                    ~HasRoom(conf[c], Stamp(c))
             PROVE  LET k == conf[c]
                        later == Stamp(c) + RetryAfter(k, Stamp(c))
                    IN  /\ HasRoom(k, later)
                        /\ \A t \in Stamp(c)..(later - 1), late \in 0..MaxDelay :
                             /\ RetryGranted(c, t, late) => Forgotten(c, t, late)
                             /\ k.leakRate <= k.capacity => ~RetryGranted(c, t, late)
  BY DEF RetryExact
<1> DEFINE k == conf[c]
           now == Stamp(c)
           next == key.last_leak + k.leakPeriod
<1>1. /\ k \in LeakyConfig /\ now \in Int
      /\ Level(k, now) \in Nat /\ Level(k, now) <= k.capacity
      /\ ~Fresh(k) => /\ key.level \in Nat /\ key.level <= k.capacity
                      /\ key.last_leak \in Int /\ key.last_leak <= clock + Skew
      /\ clock \in Int
  BY FoundLevel
<1>2. ~Fresh(k)
  BY <1>1, ConfigPositive DEF HasRoom, Level
<1>3. key.level = k.capacity
  <2> DEFINE p == Periods(k, now)
  <2>1. p \in Int
    BY <1>1, <1>2, ConfigPositive, DivBounds DEF Periods
  <2>2. Level(k, now) = IF p > 0 THEN AtLeast(key.level - p * k.leakRate, 0) ELSE key.level
    BY <1>2 DEF Level
  <2>3. ~(Level(k, now) < k.capacity)
    BY DEF HasRoom
  <2> HIDE DEF p
  <2>4. p > 0 => p * k.leakRate >= 1 /\ p * k.leakRate \in Int
    BY <1>1, <2>1, ConfigPositive
  <2> QED
    BY <1>1, <1>2, <2>2, <2>3, <2>4, ConfigPositive DEF AtLeast
<1>4. now < next /\ LastLeak(k, now) = key.last_leak /\ next \in Int
  BY <1>1, <1>2, <1>3, LevelAt, ConfigPositive
<1>5. now + RetryAfter(k, now) = next
  BY <1>1, <1>2, <1>4, ConfigPositive DEF RetryAfter
<1>6. HasRoom(k, next)
  BY <1>1, <1>2, <1>3, <1>4, LevelAt
<1>7. ASSUME NEW t \in now..(next - 1) PROVE ~HasRoom(k, t)
  <2>1. t \in Int /\ t < next
    BY <1>1, <1>4
  <2>2. HasRoom(k, t) <=> t >= next
    BY <1>1, <1>2, <1>3, <2>1, LevelAt
  <2> QED
    BY <1>4, <2>1, <2>2
<1>8. ASSUME NEW t \in now..(next - 1), NEW late \in 0..MaxDelay, k.leakRate <= k.capacity
      PROVE  ~Forgotten(c, t, late)
  <2>1. Ttl(k) \in Int /\ k.leakPeriod + MaxDelay + 2 * Skew <= Ttl(k)
    BY <1>1, <1>8, TtlCovers
  <2>2. Offset[c] \in Int /\ -Skew <= Offset[c] /\ Skew \in Nat /\ MaxDelay \in Nat
    BY CallsAssumption
  <2>3. t \in Int /\ late \in Int /\ t < next /\ late <= MaxDelay
    BY <1>1, <1>4, <2>2
  <2>4. t - Offset[c] + late <= clock + Ttl(k)
    BY <1>1, <1>2, <2>1, <2>2, <2>3, ConfigPositive
  <2>5. ~(t - Offset[c] + late > clock + Ttl(k))
    BY <1>1, <2>1, <2>2, <2>3, <2>4
  <2> QED
    BY <2>5 DEF Forgotten
<1> QED
  BY <1>5, <1>6, <1>7, <1>8 DEF RetryGranted

\* After the wait it is told a refused call is granted; before that only if its key
\* has expired, which it never has where the rate is at most the capacity.
THEOREM RetryIsExact == Spec => []RetryExact
BY LevelInvariance, LevelInvRetry, PTL

-----------------------------------------------------------------------------
(* The token bucket upside down *)

\* Different leaky buckets are different token buckets.
LEMMA AsTokenInjective ==
  ASSUME NEW k \in LeakyConfig, NEW j \in LeakyConfig
  PROVE  AsToken(k) = AsToken(j) <=> k = j
BY DEF AsToken, LeakyConfig

\* The parameters of the token bucket.
LEMMA AsTokenFields ==
  ASSUME NEW k
  PROVE  /\ AsToken(k).capacity = k.capacity
         /\ AsToken(k).refillRate = k.leakRate
         /\ AsToken(k).refillPeriod = k.leakPeriod
BY DEF AsToken

\* The key as the token bucket sees it.
TokenKey ==
  IF key = NoKey THEN NoKey
  ELSE [hash |-> AsToken(key.hash),
        tokens |-> key.hash.capacity - key.level,
        last_refill |-> key.last_leak,
        expireAt |-> key.expireAt]

\* A stored key is stored for the token bucket too, and has the fields it reads.
LEMMA TokenKeyStored ==
  ASSUME key \in Bucket, key.level <= key.hash.capacity
  PROVE  TokenKey # NoKey /\ key # NoKey
<1>1. /\ key.hash \in Configs /\ key.level \in Nat /\ key.last_leak \in Int
      /\ key.expireAt \in Int
  BY DEF Bucket
<1>2. key.hash.capacity \in Nat
  BY <1>1, LeakyAssumption, ConfigPositive
<1>3. key.hash.capacity - key.level \in Nat
  BY <1>1, <1>2
<1>4. AsToken(key.hash) \in {AsToken(k) : k \in Configs}
  BY <1>1
<1>5. key # NoKey
  BY LeakyAssumption
<1>6. TokenKey \in Dual!Bucket
  BY <1>1, <1>3, <1>4, <1>5 DEF TokenKey, Dual!Bucket
<1> QED
  BY <1>5, <1>6, DualAssumption

\* The script of the token bucket finds what the script of the leaky bucket
\* finds: as many tokens as there is room.
LEMMA DualScript ==
  ASSUME LevelInv, NEW k \in Configs, NEW now \in Int
  PROVE  /\ Dual!Fresh(AsToken(k)) <=> Fresh(k)
         /\ Dual!Tokens(AsToken(k), now) = k.capacity - Level(k, now)
         /\ Dual!LastRefill(AsToken(k), now) = LastLeak(k, now)
         /\ Dual!Ttl(AsToken(k)) = Ttl(k)
<1>1. k \in LeakyConfig
  BY LeakyAssumption
<1>2. key # NoKey => /\ key \in Bucket /\ key.hash \in LeakyConfig
                     /\ key.level \in Nat /\ key.level <= key.hash.capacity
                     /\ key.last_leak \in Int
  BY LeakyAssumption DEF LevelInv, TypeOK, Bucket
<1>3. TokenKey = NoKey <=> key = NoKey
  BY <1>2, TokenKeyStored DEF TokenKey
<1>4. key # NoKey => /\ TokenKey.hash = AsToken(key.hash)
                     /\ TokenKey.tokens = key.hash.capacity - key.level
                     /\ TokenKey.last_refill = key.last_leak
  BY DEF TokenKey
<1>5. Dual!Fresh(AsToken(k)) <=> TokenKey = NoKey \/ TokenKey.hash # AsToken(k)
  BY DEF Dual!Fresh, TokenKey
<1>6. Dual!Fresh(AsToken(k)) <=> Fresh(k)
  BY <1>1, <1>2, <1>3, <1>4, <1>5, AsTokenInjective DEF Fresh
<1>7. Dual!Ttl(AsToken(k)) = Ttl(k)
  BY AsTokenFields DEF Dual!Ttl, Dual!CeilDiv, Ttl, CeilDiv
<1>8. CASE Fresh(k)
  <2>1. Dual!Tokens(AsToken(k), now) = k.capacity /\ Level(k, now) = 0
    BY <1>6, <1>8, AsTokenFields DEF Dual!Tokens, Level
  <2>2. Dual!LastRefill(AsToken(k), now) = now /\ LastLeak(k, now) = now
    BY <1>6, <1>8 DEF Dual!LastRefill, LastLeak
  <2> QED
    BY <1>1, <1>6, <1>7, <2>1, <2>2, ConfigPositive
<1>9. CASE ~Fresh(k)
  <2> DEFINE p == Periods(k, now)
  <2>1. key # NoKey /\ key.hash = k
    BY <1>9 DEF Fresh
  <2>2. Dual!Periods(AsToken(k), now) = p
    BY <1>4, <2>1, AsTokenFields DEF Dual!Periods, TokenKey, Periods
  <2>3. p \in Int
    BY <1>1, <1>2, <2>1, ConfigPositive, DivBounds DEF Periods
  <2>4. Level(k, now) = IF p > 0 THEN AtLeast(key.level - p * k.leakRate, 0) ELSE key.level
    BY <1>9 DEF Level
  <2>5. LastLeak(k, now) = IF p > 0 THEN key.last_leak + p * k.leakPeriod ELSE key.last_leak
    BY <1>9 DEF LastLeak
  <2>6. Dual!Tokens(AsToken(k), now)
          = IF p > 0 THEN Dual!AtMost((k.capacity - key.level) + p * k.leakRate, k.capacity)
            ELSE k.capacity - key.level
    BY <1>6, <1>9, <2>1, <2>2, AsTokenFields DEF Dual!Tokens
  <2>7. Dual!LastRefill(AsToken(k), now)
          = IF p > 0 THEN key.last_leak + p * k.leakPeriod ELSE key.last_leak
    BY <1>6, <1>9, <2>1, <2>2, AsTokenFields DEF Dual!LastRefill
  <2> HIDE DEF p
  <2>8. p > 0 => p * k.leakRate \in Nat
    BY <1>1, <2>3, ConfigPositive
  <2>9. Dual!Tokens(AsToken(k), now) = k.capacity - Level(k, now)
    BY <1>1, <1>2, <2>1, <2>4, <2>6, <2>8, ConfigPositive DEF AtLeast, Dual!AtMost
  <2> QED
    BY <1>6, <1>7, <2>5, <2>7, <2>9
<1> QED
  BY <1>8, <1>9

\* The configuration and the stamp of a call are the same for both.
LEMMA DualCall ==
  ASSUME NEW c \in Callers
  PROVE  /\ [d \in Callers |-> AsToken(conf[d])][c] = AsToken(conf[c])
         /\ Dual!Stamp(c) = Stamp(c)
BY DEF Dual!Stamp, Stamp

\* What the leaky bucket writes is what the token bucket writes.
LEMMA DualStored ==
  ASSUME LevelInv, LevelInv', NEW k \in Configs, NEW now \in Int, NEW n \in Nat,
         key' = Stored(k, now, n)
  PROVE  TokenKey' = Dual!Stored(AsToken(k), now, k.capacity - n)
<1>1. key'.hash = k /\ key'.level = n /\ key'.last_leak = LastLeak(k, now)
      /\ key'.expireAt = clock + Ttl(k)
  BY DEF Stored
<1>2. key' # NoKey
  <2>1. k \in LeakyConfig /\ clock \in Int
    BY LeakyAssumption DEF LevelInv, TypeOK, CallsTypeOK
  <2>2. LastLeak(k, now) \in Int
    BY <2>1, LevelBounds DEF LevelInv, TypeOK, Bucket, Fresh
  <2>3. clock + Ttl(k) \in Int
    BY <2>1, TtlCovers
  <2>4. key' \in Bucket
    BY <2>2, <2>3 DEF Stored, Bucket
  <2> QED
    BY <2>4, LeakyAssumption
<1>3. TokenKey' = [hash |-> AsToken(k), tokens |-> k.capacity - n,
                   last_refill |-> LastLeak(k, now), expireAt |-> clock + Ttl(k)]
  BY <1>1, <1>2 DEF TokenKey, AsToken
<1> QED
  BY <1>3, DualScript DEF Dual!Stored

\* The history as the token bucket sees it.
TokenWatch ==
  IF watch = NoWatch THEN NoWatch
  ELSE [conf |-> AsToken(watch.conf), start |-> watch.start, charged |-> watch.charged]

\* A grant is watched alike.
LEMMA DualWatched ==
  ASSUME LevelInv, NEW k \in Configs, NEW now \in Int, LastLeak(k, now) \in Int,
         Watched(k, now)
  PROVE  Dual!Watched(AsToken(k), now)
<1>1. CASE watch # NoWatch /\ watch.conf = k /\ watch' = [watch EXCEPT !.charged = @ + 1]
  <2>1. watch \in Watch
    BY <1>1 DEF LevelInv, TypeOK
  <2>2. watch' \in Watch /\ watch'.conf = k /\ watch'.start = watch.start
        /\ watch'.charged = watch.charged + 1 /\ watch.charged \in Nat
    BY <1>1, <2>1 DEF Watch
  <2>3. watch' # NoWatch
    BY <2>2, LeakyAssumption
  <2>4. TokenWatch = [conf |-> AsToken(k), start |-> watch.start, charged |-> watch.charged]
    BY <1>1 DEF TokenWatch
  <2>5. TokenWatch' = [conf |-> AsToken(k), start |-> watch.start,
                       charged |-> watch.charged + 1]
    BY <2>2, <2>3 DEF TokenWatch, AsToken
  <2>6. TokenWatch \in Dual!Watch
    <3>1. watch.start \in Int /\ AsToken(k) \in {AsToken(j) : j \in Configs}
      BY <2>1 DEF Watch
    <3> QED
      BY <2>2, <2>4, <3>1 DEF Dual!Watch
  <2>7. TokenWatch # NoWatch
    BY <2>6, DualAssumption
  <2>8. TokenWatch.conf = AsToken(k) /\ TokenWatch' = [TokenWatch EXCEPT !.charged = @ + 1]
    BY <2>4, <2>5
  <2> QED
    BY <2>7, <2>8 DEF Dual!Watched, TokenWatch
<1>2. CASE watch' = [conf |-> k, start |-> LastLeak(k, now), charged |-> 1]
  <2>1. watch' \in Watch
    BY <1>2 DEF Watch
  <2>2. watch' # NoWatch
    BY <2>1, LeakyAssumption
  <2>3. TokenWatch' = [conf |-> AsToken(k), start |-> LastLeak(k, now), charged |-> 1]
    BY <1>2, <2>2 DEF TokenWatch, AsToken
  <2>4. Dual!LastRefill(AsToken(k), now) = LastLeak(k, now)
    BY DualScript
  <2> QED
    BY <2>3, <2>4 DEF Dual!Watched, TokenWatch
<1> QED
  BY <1>1, <1>2 DEF Watched

\* Whatever the client makes of a run, it is the same for both.
LEMMA DualReplied == ASSUME NEW c \in Callers, Replied(c) PROVE Dual!Replied(c)
BY DEF Replied, Answered, Resent, Idle, Dual!Replied, Dual!Answered, Dual!Resent, Dual!Idle

\* A grant of the leaky bucket is a grant of the token bucket.
LEMMA DualGrant ==
  ASSUME LevelInv, LevelInv', NEW c \in Callers, Grant(c)
  PROVE  Dual!Grant(c)
<1> DEFINE k == conf[c]
           now == Stamp(c)
           level == Level(k, now)
<1>1. /\ call[c].pending /\ level < k.capacity /\ verdict' = TRUE
      /\ key' = Stored(k, now, level + 1) /\ Watched(k, now) /\ Replied(c)
  BY DEF Grant, HasRoom
<1>2. /\ k \in Configs /\ k \in LeakyConfig /\ now \in Int
      /\ level \in Nat /\ LastLeak(k, now) \in Int /\ k.capacity \in Nat
  BY FoundLevel, ConfigPositive
<1>3. Dual!Tokens(AsToken(k), now) = k.capacity - level
  BY <1>2, DualScript
<1>4. Dual!Admits(AsToken(k), now)
  BY <1>1, <1>2, <1>3 DEF Dual!Admits
<1>5. TokenKey' = Dual!Stored(AsToken(k), now, Dual!Tokens(AsToken(k), now) - 1)
  <2>1. TokenKey' = Dual!Stored(AsToken(k), now, k.capacity - (level + 1))
    BY <1>1, <1>2, DualStored
  <2>2. k.capacity - (level + 1) = (k.capacity - level) - 1
    BY <1>2
  <2> QED
    BY <1>3, <2>1, <2>2
<1>6. Dual!Watched(AsToken(k), now) /\ Dual!Replied(c)
  BY <1>1, <1>2, DualWatched, DualReplied
<1> QED
  BY <1>1, <1>4, <1>5, <1>6, DualCall DEF Dual!Grant, TokenKey

\* A refusal of the leaky bucket is a refusal of the token bucket.
LEMMA DualRefuse ==
  ASSUME LevelInv, LevelInv', NEW c \in Callers, Refuse(c)
  PROVE  Dual!Refuse(c)
<1> DEFINE k == conf[c]
           now == Stamp(c)
           level == Level(k, now)
<1>1. /\ call[c].pending /\ ~(level < k.capacity) /\ verdict' = FALSE
      /\ key' = Stored(k, now, level) /\ watch' = watch /\ Replied(c)
  BY DEF Refuse, HasRoom
<1>2. /\ k \in Configs /\ k \in LeakyConfig /\ now \in Int
      /\ level \in Nat /\ k.capacity \in Nat
  BY FoundLevel, ConfigPositive
<1>3. Dual!Tokens(AsToken(k), now) = k.capacity - level
  BY <1>2, DualScript
<1>4. ~Dual!Admits(AsToken(k), now)
  BY <1>1, <1>2, <1>3 DEF Dual!Admits
<1>5. TokenKey' = Dual!Stored(AsToken(k), now, Dual!Tokens(AsToken(k), now))
  BY <1>1, <1>2, <1>3, DualStored
<1>6. TokenWatch' = TokenWatch
  BY <1>1 DEF TokenWatch, AsToken
<1>7. Dual!Replied(c)
  BY <1>1, DualReplied
<1> QED
  BY <1>1, <1>4, <1>5, <1>6, <1>7, DualCall DEF Dual!Refuse, TokenKey, TokenWatch

\* What happens around the script is the same for both.
LEMMA DualOther ==
  ASSUME LevelInv, NEW c \in Callers, Send(c) \/ Drop(c) \/ Restart(c)
  PROVE  Dual!Send(c) \/ Dual!Drop(c) \/ Dual!Restart(c)
<1>1. CASE Send(c)
  BY <1>1 DEF Send, Begin, Dual!Send, Dual!Begin, AsToken
<1>2. CASE Drop(c)
  BY <1>2 DEF Drop, Lose, Idle, Dual!Drop, Dual!Lose, Dual!Idle, AsToken
<1>3. CASE Restart(c)
  <2> DEFINE tconf == [d \in Callers |-> AsToken(conf[d])]
  <2>1. PICK other \in Configs \ {conf[c]} : conf' = [conf EXCEPT ![c] = other]
    BY <1>3 DEF Restart, Redeploy
  <2>2. conf \in [Callers -> Configs]
    BY DEF LevelInv, TypeOK, CallsTypeOK
  <2>3. AsToken(other) \in {AsToken(k) : k \in Configs} \ {tconf[c]}
    BY <2>1, <2>2, AsTokenInjective, LeakyAssumption
  <2>4. [d \in Callers |-> AsToken(conf'[d])] = [tconf EXCEPT ![c] = AsToken(other)]
    BY <2>1, <2>2
  <2>5. call' = [call EXCEPT ![c] = Idle] /\ clock' = clock
        /\ UNCHANGED <<key, verdict, watch>>
    BY <1>3 DEF Restart, Redeploy
  <2>6. Dual!Redeploy(c)
    BY <2>3, <2>4, <2>5 DEF Dual!Redeploy, Dual!Idle, Idle, AsToken
  <2> QED
    BY <2>5, <2>6 DEF Dual!Restart, AsToken
<1> QED
  BY <1>1, <1>2, <1>3

\* The leaky bucket implements the token bucket: whatever the calls, the two
\* algorithms admit and refuse the same requests.
THEOREM ImplementsTokenBucket == Spec => IsTokenBucket
<1>1. Init => Dual!Init
  <2> SUFFICES ASSUME Init PROVE Dual!Init
    OBVIOUS
  <2>1. [c \in Callers |-> AsToken(conf[c])] \in [Callers -> {AsToken(k) : k \in Configs}]
    BY DEF Init, CallsInit
  <2> QED
    BY <2>1 DEF Init, CallsInit, Idle, Dual!Init, Dual!CallsInit, Dual!Idle
<1>2. LevelInv /\ LevelInv' /\ [Next]_vars => [Dual!Next]_(Dual!vars)
  <2> SUFFICES ASSUME LevelInv, LevelInv', [Next]_vars PROVE [Dual!Next]_(Dual!vars)
    OBVIOUS
  <2>1. ASSUME NEW c \in Callers, Send(c) \/ Drop(c) \/ Restart(c) PROVE Dual!Next
    BY <2>1, DualOther DEF Dual!Next
  <2>2. ASSUME NEW c \in Callers, Grant(c) PROVE Dual!Next
    BY <2>2, DualGrant DEF Dual!Next
  <2>3. ASSUME NEW c \in Callers, Refuse(c) PROVE Dual!Next
    BY <2>3, DualRefuse DEF Dual!Next
  <2>4. CASE Tick
    <3>1. Dual!TimePasses
      BY <2>4 DEF Tick, TimePasses, Dual!TimePasses, AsToken
    <3>2. verdict' = verdict /\ TokenWatch' = TokenWatch
      BY <2>4 DEF Tick, TokenWatch, AsToken
    <3>3. TokenKey' = IF TokenKey # NoKey /\ clock' > TokenKey.expireAt THEN NoKey
                      ELSE TokenKey
      <4>1. TokenKey # NoKey <=> key # NoKey
        BY TokenKeyStored DEF TokenKey, LevelInv, TypeOK
      <4>2. key # NoKey => TokenKey.expireAt = key.expireAt
        BY DEF TokenKey
      <4>3. CASE key' = NoKey /\ key # NoKey /\ clock' > key.expireAt
        BY <4>1, <4>2, <4>3 DEF TokenKey
      <4>4. CASE key' = key /\ ~(key # NoKey /\ clock' > key.expireAt)
        BY <4>1, <4>2, <4>4 DEF TokenKey, AsToken
      <4> QED
        BY <2>4, <4>3, <4>4 DEF Tick
    <3>4. Dual!Tick
      BY <3>1, <3>2, <3>3 DEF Dual!Tick, TokenKey, TokenWatch
    <3> QED
      BY <3>4 DEF Dual!Next
  <2>5. CASE RedisRestart
    <3>1. TokenKey # NoKey
      BY <2>5, TokenKeyStored DEF RedisRestart, LevelInv, TypeOK
    <3>2. Dual!RedisRestart
      BY <2>5, <3>1
         DEF RedisRestart, callVars, Dual!RedisRestart, Dual!callVars, TokenKey, AsToken
    <3> QED
      BY <3>2 DEF Dual!Next
  <2>6. CASE UNCHANGED vars
    BY <2>6 DEF vars, callVars, Dual!vars, Dual!callVars, AsToken
  <2> QED
    BY <2>1, <2>2, <2>3, <2>4, <2>5, <2>6 DEF Next
<1> QED
  BY <1>1, <1>2, LevelInvariance, PTL DEF Spec, IsTokenBucket, Dual!Spec
=============================================================================
