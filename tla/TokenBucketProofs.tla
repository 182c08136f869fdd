------------------------- MODULE TokenBucketProofs --------------------------
(***************************************************************************)
(* Proofs about the token bucket, for every set of hosts and               *)
(* configurations, every skew, delay and number of resends that            *)
(* CallsAssumption and BufferAssumption allow.                             *)
(***************************************************************************)
EXTENDS TokenBucket, ScriptCallsProofs

-----------------------------------------------------------------------------
(* The operators of the script *)

\* The lifetime of a key lasts for a full refill and the buffer, and for a period
\* and the buffer where a period brings no more tokens than fit.
LEMMA TtlCovers ==
  ASSUME NEW k \in TokenConfig
  PROVE  /\ Ttl(k) \in Int
         /\ k.capacity * k.refillPeriod + k.refillRate * (MaxDelay + 2 * Skew)
              <= k.refillRate * Ttl(k)
         /\ k.refillRate <= k.capacity => k.refillPeriod + MaxDelay + 2 * Skew <= Ttl(k)
<1>1. k.capacity \in Positive /\ k.refillRate \in Positive /\ k.refillPeriod \in Positive
  BY DEF TokenConfig
<1> QED
  BY <1>1, LifetimeCovers DEF Ttl

\* A fresh bucket is full and starts its period now.
LEMMA FreshBucket ==
  ASSUME NEW k, NEW now, Fresh(k)
  PROVE  Tokens(k, now) = k.capacity /\ LastRefill(k, now) = now
BY DEF Tokens, LastRefill

\* Refilling a stored bucket adds whole periods: the refill instant moves
\* neither back nor past the stamp, and the tokens added are those of the
\* periods it moves by, or fewer when the bucket fills up.
LEMMA Refill ==
  ASSUME NEW k \in TokenConfig, NEW now \in Int, ~Fresh(k),
         key.tokens \in Nat, key.tokens <= k.capacity, key.last_refill \in Int
  PROVE  /\ Tokens(k, now) \in Nat
         /\ key.tokens <= Tokens(k, now) /\ Tokens(k, now) <= k.capacity
         /\ \E n \in Nat :
              /\ LastRefill(k, now) = key.last_refill + n * k.refillPeriod
              /\ Tokens(k, now) <= key.tokens + n * k.refillRate
              /\ n = 0 \/ LastRefill(k, now) <= now
<1> DEFINE p == Periods(k, now)
<1>1. k.refillPeriod \in Positive /\ k.refillRate \in Positive /\ k.capacity \in Positive
  BY DEF TokenConfig
<1>2. p \in Int /\ k.refillPeriod * p <= now - key.last_refill
  BY <1>1, DivBounds DEF Periods
<1>3. CASE p > 0
  <2>1. Tokens(k, now) = AtMost(key.tokens + p * k.refillRate, k.capacity)
    BY <1>3 DEF Tokens
  <2>2. LastRefill(k, now) = key.last_refill + p * k.refillPeriod
    BY <1>3 DEF LastRefill
  <2> HIDE DEF p
  <2>3. p \in Nat /\ p * k.refillRate \in Nat /\ p * k.refillPeriod \in Nat
    BY <1>1, <1>2, <1>3 DEF Positive
  <2>4. p * k.refillPeriod <= now - key.last_refill
    BY <1>1, <1>2, <2>3 DEF Positive
  <2>5. /\ Tokens(k, now) \in Nat
        /\ key.tokens <= Tokens(k, now) /\ Tokens(k, now) <= k.capacity
        /\ Tokens(k, now) <= key.tokens + p * k.refillRate
    BY <1>1, <2>1, <2>3 DEF AtMost, Positive
  <2>6. LastRefill(k, now) <= now
    BY <1>1, <2>2, <2>3, <2>4
  <2> QED
    BY <2>2, <2>3, <2>5, <2>6
<1>4. CASE ~(p > 0)
  <2>1. Tokens(k, now) = key.tokens /\ LastRefill(k, now) = key.last_refill
    BY <1>4 DEF Tokens, LastRefill
  <2>2. key.last_refill = key.last_refill + 0 * k.refillPeriod
        /\ key.tokens <= key.tokens + 0 * k.refillRate
    BY <1>1 DEF Positive
  <2> QED
    BY <2>1, <2>2
<1> QED
  BY <1>3, <1>4

-----------------------------------------------------------------------------
(* The steps *)

\* The bucket a call finds, after the reset or the refill: within bounds, and
\* still paying for the grants of the run it belongs to.
LEMMA FoundBucket ==
  ASSUME RateInv, NEW c \in Callers, call[c].pending,
         NEW k, k = conf[c], NEW now, now = Stamp(c)
  PROVE  /\ k \in Configs /\ k \in TokenConfig
         /\ now \in Int /\ clock - MaxDelay - Skew <= now
         /\ Tokens(k, now) \in Nat /\ Tokens(k, now) <= k.capacity
         /\ LastRefill(k, now) \in Int /\ LastRefill(k, now) <= clock + Skew
         /\ ~Fresh(k) =>
              /\ key # NoKey /\ key.hash = k /\ watch # NoWatch /\ watch.conf = k
              /\ (watch.charged + Tokens(k, now)) * k.refillPeriod
                   <= k.capacity * k.refillPeriod
                      + k.refillRate * (LastRefill(k, now) - watch.start)
<1>1. k \in Configs /\ k \in TokenConfig
  BY TokenAssumption DEF RateInv, TypeOK, CallsTypeOK
<1>2. now \in Int /\ clock - MaxDelay - Skew <= now /\ now <= clock + Skew
  BY StampRange DEF RateInv, TypeOK
<1>3. k.capacity \in Positive /\ k.refillRate \in Positive /\ k.refillPeriod \in Positive
  BY <1>1 DEF TokenConfig
<1>4. CASE Fresh(k)
  BY <1>1, <1>2, <1>3, <1>4, FreshBucket DEF Positive
<1>5. CASE ~Fresh(k)
  <2>1. key \in Bucket /\ key.hash = k /\ key # NoKey
    BY <1>5 DEF Fresh, RateInv, TypeOK
  <2>2. key.tokens \in Nat /\ key.last_refill \in Int /\ key.expireAt \in Int
    BY <2>1 DEF Bucket
  <2>3. /\ key.tokens <= k.capacity
        /\ key.expireAt - Ttl(k) <= clock
        /\ key.last_refill <= key.expireAt - Ttl(k) + Skew
        /\ watch # NoWatch /\ watch.conf = k
    BY <2>1 DEF RateInv, KeyInTime
  <2>4. key.last_refill <= clock + Skew
    BY <1>1, <2>2, <2>3, TtlCovers, CallsAssumption DEF RateInv, TypeOK, CallsTypeOK
  <2>5. watch.charged \in Nat /\ watch.start \in Int
    BY <2>3 DEF RateInv, TypeOK, Watch
  <2>6. (watch.charged + key.tokens) * k.refillPeriod
          <= k.capacity * k.refillPeriod + k.refillRate * (key.last_refill - watch.start)
    BY <2>1 DEF RateInv, LiveRate
  <2>7. Tokens(k, now) \in Nat /\ Tokens(k, now) <= k.capacity
    BY <1>1, <1>2, <1>5, <2>2, <2>3, Refill
  <2>8. PICK n \in Nat :
          /\ LastRefill(k, now) = key.last_refill + n * k.refillPeriod
          /\ Tokens(k, now) <= key.tokens + n * k.refillRate
          /\ n = 0 \/ LastRefill(k, now) <= now
    BY <1>1, <1>2, <1>5, <2>2, <2>3, Refill
  <2>9. n * k.refillPeriod \in Nat /\ n * k.refillRate \in Nat
    BY <1>3 DEF Positive
  <2>10. LastRefill(k, now) \in Int /\ LastRefill(k, now) <= clock + Skew
    <3>1. CASE n = 0
      BY <1>3, <2>2, <2>4, <2>8, <3>1 DEF Positive
    <3>2. CASE LastRefill(k, now) <= now
      BY <1>2, <2>2, <2>8, <2>9, <3>2, CallsAssumption DEF RateInv, TypeOK, CallsTypeOK
    <3> QED
      BY <2>8, <3>1, <3>2
  <2>11. (watch.charged + Tokens(k, now)) * k.refillPeriod
           <= (watch.charged + key.tokens + n * k.refillRate) * k.refillPeriod
    <3>1. watch.charged + Tokens(k, now) <= watch.charged + key.tokens + n * k.refillRate
      BY <2>2, <2>5, <2>7, <2>8, <2>9
    <3>2. watch.charged + Tokens(k, now) \in Int
          /\ watch.charged + key.tokens + n * k.refillRate \in Int
      BY <2>2, <2>5, <2>7, <2>9
    <3> QED
      BY <1>3, <3>1, <3>2, ScaleLeq DEF Positive
  <2>12. (watch.charged + key.tokens + n * k.refillRate) * k.refillPeriod
           = (watch.charged + key.tokens) * k.refillPeriod
             + k.refillRate * (n * k.refillPeriod)
    BY <1>3, <2>2, <2>5, <2>9 DEF Positive
  <2>13. k.refillRate * (key.last_refill - watch.start) + k.refillRate * (n * k.refillPeriod)
           = k.refillRate * (LastRefill(k, now) - watch.start)
    <3> DEFINE old == key.last_refill - watch.start
               gained == n * k.refillPeriod
    <3>1. LastRefill(k, now) - watch.start = old + gained
      BY <2>2, <2>5, <2>8, <2>9
    <3>2. old \in Int /\ gained \in Int /\ k.refillRate \in Int
      BY <1>3, <2>2, <2>5, <2>9 DEF Positive
    <3> HIDE DEF old, gained
    <3>3. k.refillRate * old + k.refillRate * gained = k.refillRate * (old + gained)
      BY <3>2, Distribute
    <3> QED
      BY <3>1, <3>3 DEF old, gained
  <2>14. (watch.charged + Tokens(k, now)) * k.refillPeriod
           <= k.capacity * k.refillPeriod
              + k.refillRate * (LastRefill(k, now) - watch.start)
    BY <1>3, <2>2, <2>5, <2>6, <2>7, <2>9, <2>10, <2>11, <2>12, <2>13 DEF Positive
  <2> QED
    BY <1>1, <1>2, <2>1, <2>3, <2>7, <2>10, <2>14
<1> QED
  BY <1>4, <1>5

\* Writing the bucket back with its lifetime.
LEMMA StoredKey ==
  ASSUME NEW k \in Configs, NEW now, NEW tokens \in Nat,
         clock \in Int, LastRefill(k, now) \in Int, key' = Stored(k, now, tokens)
  PROVE  /\ key' \in Bucket /\ key' # NoKey
         /\ key'.hash = k /\ key'.tokens = tokens /\ key'.last_refill = LastRefill(k, now)
         /\ key'.expireAt = clock + Ttl(k) /\ Ttl(k) \in Int
<1>1. Ttl(k) \in Int
  BY TokenAssumption, TtlCovers
<1>2. key' \in Bucket /\ key'.hash = k /\ key'.tokens = tokens
      /\ key'.last_refill = LastRefill(k, now) /\ key'.expireAt = clock + Ttl(k)
  BY <1>1 DEF Stored, Bucket
<1> QED
  BY <1>1, <1>2, TokenAssumption

\* The bucket a script writes satisfies the time bounds of a stored key.
LEMMA StoredBucket ==
  ASSUME NEW k \in Configs, NEW now, NEW tokens \in Nat, tokens <= k.capacity,
         clock \in Int, LastRefill(k, now) \in Int, LastRefill(k, now) <= clock + Skew,
         key' = Stored(k, now, tokens), clock' = clock,
         watch' # NoWatch, watch'.conf = k
  PROVE  /\ key' \in Bucket /\ key' # NoKey
         /\ key'.hash = k /\ key'.tokens = tokens /\ key'.last_refill = LastRefill(k, now)
         /\ KeyInTime'
BY StoredKey, CallsAssumption DEF KeyInTime, Ttl

\* A grant keeps the inductive invariant: the token it hands out was paid for.
LEMMA GrantStep ==
  ASSUME RateInv, NEW c \in Callers, Grant(c)
  PROVE  RateInv'
<1> DEFINE k == conf[c]
           now == Stamp(c)
           found == Tokens(k, now)
           last == LastRefill(k, now)
<1>1. /\ call[c].pending /\ found >= 1 /\ verdict' = TRUE
      /\ key' = Stored(k, now, found - 1)
      /\ Watched(k, now) /\ Replied(c)
  BY DEF Grant, Admits
<1>2. CallsTypeOK' /\ StampsInTime' /\ clock' = clock /\ clock \in Int
  BY <1>1, CallsStep DEF RateInv, TypeOK, CallsTypeOK
<1>3. /\ k \in Configs /\ k \in TokenConfig
      /\ now \in Int /\ clock - MaxDelay - Skew <= now
      /\ found \in Nat /\ found <= k.capacity
      /\ last \in Int /\ last <= clock + Skew
      /\ ~Fresh(k) =>
           /\ key # NoKey /\ key.hash = k /\ watch # NoWatch /\ watch.conf = k
           /\ (watch.charged + found) * k.refillPeriod
                <= k.capacity * k.refillPeriod + k.refillRate * (last - watch.start)
  BY <1>1, FoundBucket
<1>4. k.capacity \in Positive /\ k.refillRate \in Positive /\ k.refillPeriod \in Positive
  BY <1>3 DEF TokenConfig
<1>5. Fresh(k) => found = k.capacity /\ last = now
  BY FreshBucket
<1>6. found - 1 \in Nat /\ found - 1 <= k.capacity
  BY <1>1, <1>3, <1>4 DEF Positive
<1>7. watch' \in Watch /\ watch' # NoWatch /\ watch'.conf = k
  <2>1. CASE watch # NoWatch /\ watch.conf = k
             /\ watch' = [watch EXCEPT !.charged = @ + 1]
    <3>1. watch \in Watch
      BY <2>1 DEF RateInv, TypeOK
    <3>2. watch' \in Watch /\ watch'.conf = k
      BY <2>1, <3>1 DEF Watch
    <3> QED
      BY <3>2, TokenAssumption
  <2>2. CASE watch' = [conf |-> k, start |-> last, charged |-> 1]
    BY <1>3, <2>2, TokenAssumption DEF Watch
  <2> QED
    BY <1>1, <2>1, <2>2 DEF Watched
<1>8. /\ key' \in Bucket /\ key' # NoKey /\ KeyInTime'
      /\ key'.hash = k /\ key'.tokens = found - 1 /\ key'.last_refill = last
  BY <1>1, <1>2, <1>3, <1>6, <1>7, StoredBucket
<1> DEFINE paid(w) == (w.charged + (found - 1)) * k.refillPeriod
                        <= k.capacity * k.refillPeriod + k.refillRate * (last - w.start)
<1>9. ASSUME watch # NoWatch, watch.conf = k,
             watch' = [watch EXCEPT !.charged = @ + 1]
      PROVE  paid(watch')
  <2>1. watch \in Watch /\ watch.charged \in Nat /\ watch.start \in Int
    BY <1>9 DEF RateInv, TypeOK, Watch
  <2>2. watch'.charged = watch.charged + 1 /\ watch'.start = watch.start
    BY <1>9, <2>1 DEF Watch
  <2>3. watch'.charged + (found - 1) = watch.charged + found
    BY <1>3, <2>1, <2>2
  <2>4. (watch.charged + found) * k.refillPeriod
          <= k.capacity * k.refillPeriod + k.refillRate * (last - watch.start)
    <3>1. CASE ~Fresh(k)
      BY <1>3, <3>1
    <3>2. CASE Fresh(k)
      <4>1. key = NoKey
        BY <1>9, <3>2 DEF Fresh, RateInv, KeyInTime
      <4>2. watch.charged * k.refillPeriod
              <= k.refillRate * (clock - MaxDelay - Skew - watch.start)
        BY <1>9, <4>1 DEF RateInv, ExpiredRate
      <4>3. clock - MaxDelay - Skew - watch.start \in Int /\ now - watch.start \in Int
            /\ clock - MaxDelay - Skew - watch.start <= now - watch.start
        BY <1>2, <1>3, <2>1, CallsAssumption
      <4>4. k.refillRate * (clock - MaxDelay - Skew - watch.start) \in Int
            /\ k.refillRate * (now - watch.start) \in Int
            /\ k.refillRate * (clock - MaxDelay - Skew - watch.start)
                 <= k.refillRate * (now - watch.start)
        BY <1>4, <4>3, ScaleLeq DEF Positive
      <4>5. (watch.charged + k.capacity) * k.refillPeriod
              = watch.charged * k.refillPeriod + k.capacity * k.refillPeriod
            /\ watch.charged * k.refillPeriod \in Int /\ k.capacity * k.refillPeriod \in Int
        BY <1>4, <2>1 DEF Positive
      <4>6. (watch.charged + k.capacity) * k.refillPeriod
              <= k.capacity * k.refillPeriod + k.refillRate * (now - watch.start)
        BY <4>2, <4>4, <4>5
      <4> QED
        BY <1>5, <3>2, <4>6
    <3> QED
      BY <3>1, <3>2
  <2> QED
    BY <2>2, <2>3, <2>4
<1>10. ASSUME watch' = [conf |-> k, start |-> last, charged |-> 1]
       PROVE  paid(watch')
  <2>1. watch'.charged + (found - 1) = found /\ last - watch'.start = 0
    BY <1>3, <1>10
  <2>2. found * k.refillPeriod <= k.capacity * k.refillPeriod
        /\ k.capacity * k.refillPeriod \in Int
    BY <1>3, <1>4 DEF Positive
  <2>3. k.refillRate * 0 = 0
    BY <1>4 DEF Positive
  <2> QED
    BY <2>1, <2>2, <2>3
<1>11. paid(watch')
  BY <1>1, <1>9, <1>10 DEF Watched
<1>12. LiveRate' /\ ExpiredRate'
  BY <1>8, <1>11 DEF LiveRate, ExpiredRate
<1>13. TypeOK'
  BY <1>1, <1>2, <1>7, <1>8 DEF TypeOK
<1> QED
  BY <1>2, <1>8, <1>12, <1>13 DEF RateInv

\* A refusal keeps the inductive invariant.
LEMMA RefuseStep ==
  ASSUME RateInv, NEW c \in Callers, Refuse(c)
  PROVE  RateInv'
<1> DEFINE k == conf[c]
           now == Stamp(c)
           found == Tokens(k, now)
           last == LastRefill(k, now)
<1>1. /\ call[c].pending /\ ~(found >= 1) /\ verdict' = FALSE
      /\ key' = Stored(k, now, found)
      /\ watch' = watch /\ Replied(c)
  BY DEF Refuse, Admits
<1>2. CallsTypeOK' /\ StampsInTime' /\ clock' = clock /\ clock \in Int
  BY <1>1, CallsStep DEF RateInv, TypeOK, CallsTypeOK
<1>3. /\ k \in Configs /\ k \in TokenConfig
      /\ found \in Nat /\ found <= k.capacity
      /\ last \in Int /\ last <= clock + Skew
      /\ ~Fresh(k) =>
           /\ key # NoKey /\ key.hash = k /\ watch # NoWatch /\ watch.conf = k
           /\ (watch.charged + found) * k.refillPeriod
                <= k.capacity * k.refillPeriod + k.refillRate * (last - watch.start)
  BY <1>1, FoundBucket
<1>4. ~Fresh(k)
  BY <1>1, <1>3, FreshBucket DEF TokenConfig, Positive
<1>5. /\ key' \in Bucket /\ key' # NoKey /\ KeyInTime'
      /\ key'.hash = k /\ key'.tokens = found /\ key'.last_refill = last
  BY <1>1, <1>2, <1>3, <1>4, StoredBucket
<1>6. LiveRate' /\ ExpiredRate'
  BY <1>1, <1>3, <1>4, <1>5 DEF LiveRate, ExpiredRate
<1>7. TypeOK'
  BY <1>1, <1>2, <1>5 DEF TypeOK, RateInv
<1> QED
  BY <1>2, <1>5, <1>6, <1>7 DEF RateInv

\* The lifetime has passed: the refills since the last one have paid for a
\* full bucket, late and skewed stamps included.
LEMMA Expiry ==
  ASSUME TypeOK, KeyInTime, key # NoKey, clock' = clock + 1, clock' > key.expireAt
  PROVE  LET k == key.hash
         IN  k.capacity * k.refillPeriod
               <= k.refillRate * (clock' - MaxDelay - Skew - key.last_refill)
<1> DEFINE k == key.hash
           cap == k.capacity * k.refillPeriod
           slack == MaxDelay + 2 * Skew
           wait == clock' - MaxDelay - Skew - key.last_refill
<1>1. k \in TokenConfig /\ key.last_refill \in Int /\ key.expireAt \in Int /\ clock \in Int
  BY TokenAssumption DEF TypeOK, CallsTypeOK, Bucket
<1>2. k.refillRate \in Nat /\ cap \in Int
  BY <1>1 DEF TokenConfig, Positive
<1>3. Ttl(k) \in Int /\ cap + k.refillRate * slack <= k.refillRate * Ttl(k)
  BY <1>1, TtlCovers
<1>4. slack \in Int /\ wait \in Int
  BY <1>1, CallsAssumption
<1>5. Ttl(k) - slack <= wait
  BY <1>1, <1>3, CallsAssumption DEF KeyInTime
<1> HIDE DEF k, cap, slack, wait
<1>6. k.refillRate * (Ttl(k) - slack) + k.refillRate * slack = k.refillRate * Ttl(k)
  <2>1. Ttl(k) - slack \in Int /\ (Ttl(k) - slack) + slack = Ttl(k)
    BY <1>3, <1>4
  <2> QED
    BY <1>2, <1>4, <2>1, Distribute
<1>7. k.refillRate * (Ttl(k) - slack) \in Int /\ k.refillRate * wait \in Int
      /\ k.refillRate * (Ttl(k) - slack) <= k.refillRate * wait
  BY <1>2, <1>3, <1>4, <1>5, ScaleLeq
<1>8. k.refillRate * slack \in Int
  BY <1>2, <1>4
<1>9. cap <= k.refillRate * wait
  BY <1>2, <1>3, <1>6, <1>7, <1>8
<1> QED
  BY <1>9 DEF k, cap, wait

\* The passing of time, with or without the expiry of the key, keeps the
\* inductive invariant.
LEMMA TickStep ==
  ASSUME RateInv, Tick
  PROVE  RateInv'
<1>1. CallsTypeOK' /\ StampsInTime' /\ clock' = clock + 1 /\ clock \in Int
  BY CallsTick DEF Tick, RateInv, TypeOK, CallsTypeOK
<1>2. watch' = watch /\ verdict' = verdict
  BY DEF Tick
<1>3. CASE key # NoKey /\ clock' > key.expireAt
  <2>1. key' = NoKey
    BY <1>3 DEF Tick
  <2> DEFINE k == key.hash
             cap == k.capacity * k.refillPeriod
             now == clock' - MaxDelay - Skew
  <2>2. cap <= k.refillRate * (now - key.last_refill)
    BY <1>1, <1>3, Expiry DEF RateInv
  <2>3. watch # NoWatch /\ watch.conf = k
    BY <1>3 DEF RateInv, KeyInTime
  <2>4. /\ watch.charged \in Nat /\ watch.start \in Int
        /\ key.tokens \in Nat /\ key.last_refill \in Int /\ k \in TokenConfig
    BY <1>3, <2>3, TokenAssumption DEF RateInv, TypeOK, Watch, Bucket
  <2>5. (watch.charged + key.tokens) * k.refillPeriod
          <= cap + k.refillRate * (key.last_refill - watch.start)
    BY <1>3 DEF RateInv, LiveRate
  <2>6. k.refillRate \in Nat /\ k.refillPeriod \in Nat /\ cap \in Int
    BY <2>4 DEF TokenConfig, Positive
  <2>7. now \in Int /\ now - key.last_refill \in Int /\ key.last_refill - watch.start \in Int
    BY <1>1, <2>4, CallsAssumption
  <2> HIDE DEF k, cap, now
  <2>8. watch.charged * k.refillPeriod <= (watch.charged + key.tokens) * k.refillPeriod
        /\ watch.charged * k.refillPeriod \in Int
        /\ (watch.charged + key.tokens) * k.refillPeriod \in Int
    BY <2>4, <2>6
  <2>9. k.refillRate * (now - key.last_refill) + k.refillRate * (key.last_refill - watch.start)
          = k.refillRate * (now - watch.start)
    <3>1. (now - key.last_refill) + (key.last_refill - watch.start) = now - watch.start
      BY <2>4, <2>7
    <3> QED
      BY <2>6, <2>7, <3>1, Distribute
  <2>10. k.refillRate * (now - key.last_refill) \in Int
         /\ k.refillRate * (key.last_refill - watch.start) \in Int
    BY <2>6, <2>7
  <2>11. watch.charged * k.refillPeriod <= k.refillRate * (now - watch.start)
    <3> DEFINE a == (watch.charged + key.tokens) * k.refillPeriod
               b == watch.charged * k.refillPeriod
    <3> QED
      BY <2>2, <2>5, <2>6, <2>8, <2>9, <2>10
  <2>12. ExpiredRate'
    BY <1>2, <2>3, <2>11 DEF ExpiredRate, now, k
  <2> QED
    BY <1>1, <1>2, <2>1, <2>12 DEF RateInv, TypeOK, KeyInTime, LiveRate
<1>4. CASE ~(key # NoKey /\ clock' > key.expireAt)
  <2>1. key' = key
    BY <1>4 DEF Tick
  <2>2. TypeOK'
    BY <1>1, <1>2, <2>1 DEF RateInv, TypeOK
  <2>3. LiveRate'
    BY <1>2, <2>1 DEF RateInv, LiveRate
  <2>4. KeyInTime'
    <3>1. ASSUME key # NoKey
          PROVE  Ttl(key.hash) \in Int /\ key.expireAt \in Int
      BY <3>1, TtlCovers, TokenAssumption DEF RateInv, TypeOK, Bucket
    <3> QED
      BY <1>1, <1>2, <2>1, <3>1 DEF RateInv, KeyInTime, Ttl
  <2>5. ExpiredRate'
    <3>1. SUFFICES ASSUME key = NoKey, watch # NoWatch
                   PROVE  watch.charged * watch.conf.refillPeriod
                            <= watch.conf.refillRate * (clock' - MaxDelay - Skew - watch.start)
      BY <1>2, <2>1 DEF ExpiredRate
    <3> DEFINE now == clock - MaxDelay - Skew - watch.start
               then == clock' - MaxDelay - Skew - watch.start
               rate == watch.conf.refillRate
    <3>2. watch.charged \in Nat /\ watch.start \in Int
          /\ rate \in Nat /\ watch.conf.refillPeriod \in Nat
      BY <3>1, TokenAssumption DEF RateInv, TypeOK, Watch, TokenConfig, Positive
    <3>3. now \in Int /\ then \in Int /\ now <= then
      BY <1>1, <3>2, CallsAssumption
    <3>4. watch.charged * watch.conf.refillPeriod <= rate * now
      BY <3>1 DEF RateInv, ExpiredRate
    <3> HIDE DEF now, then, rate
    <3>5. rate * now \in Int /\ rate * then \in Int /\ rate * now <= rate * then
      BY <3>2, <3>3, ScaleLeq
    <3>6. watch.charged * watch.conf.refillPeriod <= rate * then
      BY <3>2, <3>4, <3>5
    <3> QED
      BY <3>6 DEF then, rate
  <2> QED
    BY <1>1, <2>2, <2>3, <2>4, <2>5 DEF RateInv
<1> QED
  BY <1>3, <1>4

\* A step of the calls that leaves the key alone.
LEMMA OtherStep ==
  ASSUME RateInv, NEW c \in Callers, Begin(c) \/ Lose(c) \/ Redeploy(c),
         UNCHANGED <<key, verdict, watch>>
  PROVE  RateInv'
<1>1. CallsTypeOK' /\ StampsInTime' /\ clock' = clock
  BY CallsStep DEF RateInv, TypeOK
<1>2. KeyInTime' /\ LiveRate' /\ ExpiredRate'
  BY <1>1 DEF RateInv, KeyInTime, LiveRate, ExpiredRate, Ttl
<1>3. TypeOK'
  BY <1>1 DEF RateInv, TypeOK
<1> QED
  BY <1>1, <1>2, <1>3 DEF RateInv

-----------------------------------------------------------------------------
(* The theorems *)

\* Before the first request the inductive invariant holds.
THEOREM RateInvInit == Init => RateInv
<1> SUFFICES ASSUME Init PROVE RateInv
  OBVIOUS
<1>1. call = [c \in Callers |-> Idle] /\ clock \in Int /\ conf \in [Callers -> Configs]
      /\ key = NoKey /\ watch = NoWatch /\ verdict = FALSE
  BY CallsAssumption DEF Init, CallsInit
<1>2. call \in [Callers -> [pending : BOOLEAN, at : Int, tries : 0..MaxRetries]]
  BY <1>1, IdleType
<1>3. StampsInTime
  BY <1>1 DEF StampsInTime, Idle
<1> QED
  BY <1>1, <1>2, <1>3
     DEF RateInv, TypeOK, CallsTypeOK, KeyInTime, LiveRate, ExpiredRate

\* Every step of callers, scripts, time and Redis keeps the inductive
\* invariant.
THEOREM RateInvNext == RateInv /\ [Next]_vars => RateInv'
<1> SUFFICES ASSUME RateInv, [Next]_vars PROVE RateInv'
  OBVIOUS
<1>1. ASSUME NEW c \in Callers, Send(c) \/ Drop(c) \/ Restart(c) PROVE RateInv'
  BY <1>1, OtherStep DEF Send, Drop, Restart
<1>2. ASSUME NEW c \in Callers, Grant(c) PROVE RateInv'
  BY <1>2, GrantStep
<1>3. ASSUME NEW c \in Callers, Refuse(c) PROVE RateInv'
  BY <1>3, RefuseStep
<1>4. CASE Tick
  BY <1>4, TickStep
<1>5. CASE RedisRestart
  BY <1>5 DEF RedisRestart, callVars, RateInv, TypeOK, CallsTypeOK, StampsInTime,
              KeyInTime, LiveRate, ExpiredRate
<1>6. CASE UNCHANGED vars
  BY <1>6 DEF vars, callVars, RateInv, TypeOK, CallsTypeOK, StampsInTime,
              KeyInTime, LiveRate, ExpiredRate, Ttl
<1> QED
  BY <1>1, <1>2, <1>3, <1>4, <1>5, <1>6 DEF Next

\* The inductive invariant holds in every reachable state.
THEOREM RateInvariance == Spec => []RateInv
BY RateInvInit, RateInvNext, PTL DEF Spec

\* Type correctness of the token bucket.
THEOREM TypeCorrect == Spec => []TypeOK
<1>1. RateInv => TypeOK
  BY DEF RateInv
<1> QED
  BY <1>1, RateInvariance, PTL

\* The inductive invariant bounds the grants of a run.
LEMMA RateInvBound == RateInv => RateBound
<1> SUFFICES ASSUME RateInv, watch # NoWatch
             PROVE  watch.charged * watch.conf.refillPeriod
                      <= watch.conf.capacity * watch.conf.refillPeriod
                         + watch.conf.refillRate * (clock + Skew - watch.start)
  BY DEF RateBound
<1> DEFINE k == watch.conf
           spend == watch.charged * k.refillPeriod
           cap == k.capacity * k.refillPeriod
           span == clock + Skew - watch.start
<1>1. /\ watch.charged \in Nat /\ watch.start \in Int /\ clock \in Int
      /\ k \in Configs /\ k \in TokenConfig
  BY TokenAssumption DEF RateInv, TypeOK, CallsTypeOK, Watch
<1>2. k.refillRate \in Nat /\ k.refillPeriod \in Nat /\ k.capacity \in Nat
  BY <1>1 DEF TokenConfig, Positive
<1>3. spend \in Nat /\ cap \in Nat /\ span \in Int
  BY <1>1, <1>2, CallsAssumption
<1>4. CASE key # NoKey
  <2> DEFINE left == key.tokens * k.refillPeriod
             upto == key.last_refill - watch.start
  <2>1. key.hash = k
    BY <1>4 DEF RateInv, KeyInTime
  <2>2. key.tokens \in Nat /\ key.last_refill \in Int /\ key.expireAt \in Int /\ Ttl(k) \in Int
    BY <1>1, <1>4, TtlCovers DEF RateInv, TypeOK, Bucket
  <2>3. upto \in Int /\ upto <= span
    BY <1>1, <1>4, <2>1, <2>2, CallsAssumption DEF RateInv, KeyInTime
  <2>4. (watch.charged + key.tokens) * k.refillPeriod = spend + left /\ left \in Nat
    BY <1>1, <1>2, <2>2
  <2>5. spend + left <= cap + k.refillRate * upto
    BY <1>4, <2>1, <2>4 DEF RateInv, LiveRate
  <2> HIDE DEF left, upto, spend, cap, span, k
  <2>6. k.refillRate * upto \in Int /\ k.refillRate * span \in Int
        /\ k.refillRate * upto <= k.refillRate * span
    BY <1>2, <1>3, <2>3, ScaleLeq
  <2>7. spend <= cap + k.refillRate * span
    BY <1>3, <2>4, <2>5, <2>6
  <2> QED
    BY <2>7 DEF spend, cap, span, k
<1>5. CASE key = NoKey
  <2> DEFINE upto == clock - MaxDelay - Skew - watch.start
  <2>1. upto \in Int /\ upto <= span
    BY <1>1, CallsAssumption
  <2>2. spend <= k.refillRate * upto
    BY <1>5 DEF RateInv, ExpiredRate
  <2> HIDE DEF upto, spend, cap, span, k
  <2>3. k.refillRate * upto \in Int /\ k.refillRate * span \in Int
        /\ k.refillRate * upto <= k.refillRate * span
    BY <1>2, <1>3, <2>1, ScaleLeq
  <2>4. spend <= cap + k.refillRate * span
    BY <1>3, <2>2, <2>3
  <2> QED
    BY <2>4 DEF spend, cap, span, k
<1> QED
  BY <1>4, <1>5

\* One configuration never grants more than its capacity and the refills of
\* the elapsed time, across late stamps, skewed hosts, resends and expiries.
THEOREM RateBounded == Spec => []RateBound
BY RateInvariance, RateInvBound, PTL

\* A key that expires has already earned back every token it was short of.
THEOREM ExpiryEarned == Spec => ExpiryIsEarned
<1>1. RateInv /\ [Next]_vars =>
        [key # NoKey /\ key' = NoKey /\ clock' # clock =>
           LET k == key.hash
               earliest == clock' - MaxDelay - Skew
           IN  key.tokens * k.refillPeriod + k.refillRate * (earliest - key.last_refill)
                 >= k.capacity * k.refillPeriod]_vars
  <2> SUFFICES ASSUME RateInv, [Next]_vars, key # NoKey, key' = NoKey, clock' # clock
               PROVE  LET k == key.hash
                          earliest == clock' - MaxDelay - Skew
                      IN  key.tokens * k.refillPeriod
                            + k.refillRate * (earliest - key.last_refill)
                              >= k.capacity * k.refillPeriod
    OBVIOUS
  <2>1. Tick
    <3>1. ASSUME NEW c \in Callers, Send(c) \/ Drop(c) \/ Restart(c) PROVE FALSE
      BY <3>1 DEF Send, Drop, Restart, Begin, Lose, Redeploy
    <3>2. ASSUME NEW c \in Callers, Grant(c) \/ Refuse(c) PROVE FALSE
      BY <3>2 DEF Grant, Refuse, Replied
    <3> QED
      BY <3>1, <3>2 DEF Next, RedisRestart, vars, callVars
  <2>2. clock' = clock + 1 /\ clock' > key.expireAt
    BY <2>1 DEF Tick, TimePasses
  <2> DEFINE k == key.hash
             wait == clock' - MaxDelay - Skew - key.last_refill
  <2>3. k.capacity * k.refillPeriod <= k.refillRate * wait
    BY <2>2, Expiry DEF RateInv
  <2>4. /\ key.tokens \in Nat /\ key.last_refill \in Int /\ clock' \in Int
        /\ k \in TokenConfig
    BY <2>2, TokenAssumption DEF RateInv, TypeOK, CallsTypeOK, Bucket
  <2>5. key.tokens * k.refillPeriod \in Nat /\ k.capacity * k.refillPeriod \in Int
        /\ k.refillRate \in Nat
    BY <2>4 DEF TokenConfig, Positive
  <2>6. wait \in Int
    BY <2>4, CallsAssumption
  <2> QED
    BY <2>3, <2>5, <2>6
<1> QED
  BY <1>1, RateInvariance, PTL DEF Spec, ExpiryIsEarned

-----------------------------------------------------------------------------
(* What a refused call is told *)

\* A call is refused only with an empty bucket before its next refill.
LEMMA EmptyBucket ==
  ASSUME RateInv, NEW c \in Callers, call[c].pending,
         ~Admits(conf[c], Stamp(c))
  PROVE  LET k == conf[c]
         IN  /\ ~Fresh(k) /\ key # NoKey /\ key.hash = k
             /\ key.tokens = 0 /\ key.last_refill \in Int
             /\ Stamp(c) < key.last_refill + k.refillPeriod
             /\ Tokens(k, Stamp(c)) = 0
             /\ LastRefill(k, Stamp(c)) = key.last_refill
<1> DEFINE k == conf[c]
           now == Stamp(c)
<1>1. k \in TokenConfig /\ now \in Int /\ ~Fresh(k) /\ Tokens(k, now) = 0
  <2>1. k \in TokenConfig /\ now \in Int /\ Tokens(k, now) \in Nat
    BY FoundBucket
  <2>2. ~(Tokens(k, now) >= 1)
    BY DEF Admits
  <2> QED
    BY <2>1, <2>2, FreshBucket DEF TokenConfig, Positive
<1>2. k.capacity \in Positive /\ k.refillRate \in Positive /\ k.refillPeriod \in Positive
  BY <1>1 DEF TokenConfig
<1>3. key # NoKey /\ key.hash = k /\ key.tokens \in Nat /\ key.last_refill \in Int
  BY <1>1 DEF Fresh, RateInv, TypeOK, Bucket
<1> DEFINE p == Periods(k, now)
<1>4. p \in Int /\ now - key.last_refill < k.refillPeriod * p + k.refillPeriod
  BY <1>1, <1>2, <1>3, DivBounds DEF Periods
<1>5. ~(p > 0)
  <2>1. SUFFICES ASSUME p > 0 PROVE FALSE
    OBVIOUS
  <2>2. Tokens(k, now) = AtMost(key.tokens + p * k.refillRate, k.capacity)
    BY <1>1, <2>1 DEF Tokens
  <2> HIDE DEF p
  <2>3. p * k.refillRate >= 1 /\ p * k.refillRate \in Int
    BY <1>2, <1>4, <2>1 DEF Positive
  <2> QED
    BY <1>1, <1>2, <1>3, <2>2, <2>3 DEF AtMost, Positive
<1>6. Tokens(k, now) = key.tokens /\ LastRefill(k, now) = key.last_refill
  BY <1>1, <1>5 DEF Tokens, LastRefill
<1> HIDE DEF p
<1>7. k.refillPeriod * p <= 0 /\ k.refillPeriod * p \in Int
  BY <1>2, <1>4, <1>5 DEF Positive
<1>8. now < key.last_refill + k.refillPeriod
  BY <1>1, <1>2, <1>3, <1>4, <1>7 DEF Positive
<1> QED
  BY <1>1, <1>3, <1>6, <1>8

\* The inductive invariant makes the reported wait exact, but for an expiry.
LEMMA RateInvRetry == RateInv => RetryExact
<1> SUFFICES ASSUME RateInv, NEW c \in Callers, call[c].pending,
                    ~Admits(conf[c], Stamp(c))
             PROVE  LET k == conf[c]
                        later == Stamp(c) + RetryAfter(k, Stamp(c))
                    IN  /\ Admits(k, later)
                        /\ \A t \in Stamp(c)..(later - 1), late \in 0..MaxDelay :
                             /\ RetryGranted(c, t, late) => Forgotten(c, t, late)
                             /\ k.refillRate <= k.capacity => ~RetryGranted(c, t, late)
  BY DEF RetryExact
<1> DEFINE k == conf[c]
           now == Stamp(c)
           next == key.last_refill + k.refillPeriod
<1>1. /\ ~Fresh(k) /\ key.tokens = 0 /\ key.last_refill \in Int /\ now < next
      /\ LastRefill(k, now) = key.last_refill
  BY EmptyBucket
<1>2. k \in TokenConfig /\ now \in Int
  BY FoundBucket
<1>3. k.capacity \in Positive /\ k.refillRate \in Positive /\ k.refillPeriod \in Positive
  BY <1>2 DEF TokenConfig
<1>4. now + RetryAfter(k, now) = next
  BY <1>1, <1>2, <1>3 DEF RetryAfter, Positive
<1>5. Admits(k, next)
  <2> DEFINE p == Periods(k, next)
  <2>1. p \in Int /\ k.refillPeriod < k.refillPeriod * p + k.refillPeriod
    <3>1. next - key.last_refill = k.refillPeriod /\ k.refillPeriod \in Int
      BY <1>1, <1>3 DEF Positive
    <3> QED
      BY <1>3, <3>1, DivBounds DEF Periods
  <2>2. p > 0 => Tokens(k, next) = AtMost(p * k.refillRate, k.capacity)
    <3>1. p > 0 => Tokens(k, next) = AtMost(0 + p * k.refillRate, k.capacity)
      BY <1>1 DEF Tokens
    <3> QED
      BY <1>3, <2>1, <3>1 DEF Positive
  <2> HIDE DEF p
  <2>3. p > 0
    BY <1>3, <2>1 DEF Positive
  <2>4. p * k.refillRate >= 1 /\ p * k.refillRate \in Int
    BY <1>3, <2>1, <2>3 DEF Positive
  <2> QED
    BY <1>3, <2>2, <2>3, <2>4 DEF Admits, AtMost, Positive
<1>6. ASSUME NEW t \in now..(next - 1) PROVE ~Admits(k, t)
  <2> DEFINE p == Periods(k, t)
  <2>1. t \in Int /\ t - key.last_refill < k.refillPeriod /\ t - key.last_refill \in Int
    BY <1>1, <1>2, <1>3 DEF Positive
  <2>2. p \in Int /\ k.refillPeriod * p <= t - key.last_refill
    BY <1>3, <2>1, DivBounds DEF Periods
  <2>3. ~(p > 0) => Tokens(k, t) = 0
    BY <1>1 DEF Tokens
  <2> HIDE DEF p
  <2>4. k.refillPeriod * p < k.refillPeriod * 1
    BY <1>3, <2>1, <2>2 DEF Positive
  <2>5. ~(p > 0)
    BY <1>3, <2>2, <2>4, ScaleLeq DEF Positive
  <2> QED
    BY <2>3, <2>5 DEF Admits
<1>7. ASSUME NEW t \in now..(next - 1), NEW late \in 0..MaxDelay, k.refillRate <= k.capacity
      PROVE  ~Forgotten(c, t, late)
  <2>1. key.last_refill <= clock + Skew /\ clock \in Int
    <3>1. LastRefill(k, now) <= clock + Skew
      BY FoundBucket
    <3> QED
      BY <1>1, <3>1 DEF RateInv, TypeOK, CallsTypeOK
  <2>2. Ttl(k) \in Int /\ k.refillPeriod + MaxDelay + 2 * Skew <= Ttl(k)
    BY <1>2, <1>7, TtlCovers
  <2>3. Offset[c] \in Int /\ -Skew <= Offset[c] /\ Skew \in Nat /\ MaxDelay \in Nat
    BY CallsAssumption
  <2>4. t \in Int /\ late \in Int /\ t < next /\ late <= MaxDelay
    BY <1>1, <1>2, <1>3, <2>3 DEF Positive
  <2>5. t - Offset[c] + late <= clock + Ttl(k)
    BY <1>1, <1>3, <2>1, <2>2, <2>3, <2>4 DEF Positive
  <2>6. ~(t - Offset[c] + late > clock + Ttl(k))
    BY <2>1, <2>2, <2>3, <2>4, <2>5
  <2> QED
    BY <2>6 DEF Forgotten
<1> QED
  BY <1>4, <1>5, <1>6, <1>7 DEF RetryGranted

\* After the wait it is told a refused call is granted; before that only if its key
\* has expired, which it never has where the rate is at most the capacity.
THEOREM RetryIsExact == Spec => []RetryExact
BY RateInvariance, RateInvRetry, PTL

-----------------------------------------------------------------------------
(* The refill grid and the quota *)

\* What a call does to a bucket of its own configuration.
LEMMA CallOnOwnKey ==
  ASSUME RateInv, NEW c \in Callers, Grant(c) \/ Refuse(c), ~Fresh(conf[c])
  PROVE  /\ key'.last_refill >= key.last_refill
         /\ (key'.last_refill - key.last_refill) % key.hash.refillPeriod = 0
<1> DEFINE k == conf[c]
           now == Stamp(c)
<1>1. key'.last_refill = LastRefill(k, now) /\ call[c].pending
  BY DEF Grant, Refuse, Stored
<1>2. k \in TokenConfig /\ now \in Int
  BY <1>1, FoundBucket
<1>3. key # NoKey /\ key.hash = k /\ key.tokens \in Nat /\ key.last_refill \in Int
      /\ key.tokens <= k.capacity
  BY DEF Fresh, RateInv, TypeOK, Bucket, KeyInTime
<1>4. PICK n \in Nat : LastRefill(k, now) = key.last_refill + n * k.refillPeriod
  BY <1>2, <1>3, Refill
<1>5. k.refillPeriod \in Positive /\ n * k.refillPeriod \in Nat
  BY <1>2 DEF TokenConfig, Positive
<1>6. (n * k.refillPeriod) % k.refillPeriod = 0
  BY <1>5, MultipleMod
<1>7. key'.last_refill - key.last_refill = n * k.refillPeriod
      /\ key'.last_refill >= key.last_refill
  BY <1>1, <1>3, <1>4, <1>5
<1> QED
  BY <1>3, <1>6, <1>7

\* Refills stay on the grid of the first request, whatever stamps arrive.
THEOREM GridKept == Spec => RefillsStayOnGrid
<1>1. RateInv /\ [Next]_vars =>
        [key # NoKey /\ key' # NoKey /\ key'.hash = key.hash =>
           /\ key'.last_refill >= key.last_refill
           /\ (key'.last_refill - key.last_refill) % key.hash.refillPeriod = 0]_vars
  <2> SUFFICES ASSUME RateInv, [Next]_vars,
                      key # NoKey, key' # NoKey, key'.hash = key.hash
               PROVE  /\ key'.last_refill >= key.last_refill
                      /\ (key'.last_refill - key.last_refill) % key.hash.refillPeriod = 0
    OBVIOUS
  <2>1. CASE \E c \in Callers : Grant(c) \/ Refuse(c)
    <3>1. PICK c \in Callers : Grant(c) \/ Refuse(c)
      BY <2>1
    <3>2. ~Fresh(conf[c])
      BY <3>1 DEF Fresh, Grant, Refuse, Stored
    <3> QED
      BY <3>1, <3>2, CallOnOwnKey
  <2>2. CASE key' = key
    <3>1. key.last_refill \in Int /\ key.hash.refillPeriod \in Positive
      BY TokenAssumption DEF RateInv, TypeOK, Bucket, TokenConfig
    <3>2. (0 * key.hash.refillPeriod) % key.hash.refillPeriod = 0
      BY <3>1, MultipleMod
    <3>3. key.last_refill - key.last_refill = 0 /\ 0 * key.hash.refillPeriod = 0
      BY <3>1 DEF Positive
    <3> QED
      BY <2>2, <3>1, <3>2, <3>3
  <2> QED
    BY <2>1, <2>2 DEF Next, Send, Drop, Restart, Tick, RedisRestart, vars
<1> QED
  BY <1>1, RateInvariance, PTL DEF Spec, RefillsStayOnGrid

\* A grant of the script is a grant of the contract: one more unit is spent.
LEMMA GrantSpends ==
  ASSUME RateInv, NEW c \in Callers, Grant(c)
  PROVE  Contract!Grant(conf[c])
<1> DEFINE k == conf[c]
           now == Stamp(c)
           found == Tokens(k, now)
           left == k.capacity - found
<1>1. /\ k \in TokenConfig /\ now \in Int /\ found \in Nat /\ found >= 1
      /\ found <= k.capacity /\ k.capacity \in Nat /\ call[c].pending
  BY FoundBucket DEF Grant, Admits, TokenConfig, Positive
<1>2. key' # NoKey /\ key'.hash = k /\ key'.tokens = found - 1 /\ verdict' = TRUE
  <2>1. key' = Stored(k, now, found - 1) /\ verdict' = TRUE
    BY DEF Grant
  <2>2. k \in Configs /\ found - 1 \in Nat /\ clock \in Int /\ LastRefill(k, now) \in Int
    BY <1>1, FoundBucket DEF RateInv, TypeOK, CallsTypeOK
  <2> QED
    BY <2>1, <2>2, StoredKey
<1>3. k \in Configs
  BY <1>1, FoundBucket
<1> DEFINE owner == IF key = NoKey THEN NoKey ELSE key.hash
           spent == IF key = NoKey THEN 0 ELSE key.hash.capacity - key.tokens
           spentBy == IF owner = k THEN spent ELSE 0
<1>4. left \in 0..spentBy
  <2>1. CASE Fresh(k)
    <3>1. left = 0
      BY <1>1, <2>1, FreshBucket
    <3>2. spentBy = 0
      BY <2>1 DEF Fresh
    <3> QED
      BY <3>1, <3>2
  <2>2. CASE ~Fresh(k)
    <3>1. key # NoKey /\ key.hash = k /\ key.tokens \in Nat /\ key.last_refill \in Int
          /\ key.tokens <= k.capacity
      BY <2>2 DEF Fresh, RateInv, TypeOK, Bucket, KeyInTime
    <3>2. key.tokens <= found
      BY <1>1, <2>2, <3>1, Refill
    <3>3. spentBy = k.capacity - key.tokens
      BY <3>1
    <3> QED
      BY <1>1, <3>1, <3>2, <3>3
  <2> QED
    BY <2>1, <2>2
<1>5. left < k.capacity /\ k.capacity - (found - 1) = left + 1
  BY <1>1
<1> HIDE DEF left
<1> QED
  BY <1>2, <1>3, <1>4, <1>5 DEF Contract!Grant, Contract!SpentBy

\* A refusal of the script is a denial of the contract: nothing is spent, and
\* nothing was left.
LEMMA RefuseDenies ==
  ASSUME RateInv, NEW c \in Callers, Refuse(c)
  PROVE  Contract!Deny(conf[c])
<1> DEFINE k == conf[c]
           now == Stamp(c)
<1>1. call[c].pending /\ ~Admits(k, now) /\ verdict' = FALSE /\ watch' = watch
      /\ key' = Stored(k, now, Tokens(k, now))
  BY DEF Refuse
<1>2. key # NoKey /\ key.hash = k /\ key.tokens = 0 /\ Tokens(k, now) = 0 /\ ~Fresh(k)
  BY <1>1, EmptyBucket
<1>3. key'.hash = k /\ key'.tokens = 0
  BY <1>1, <1>2 DEF Stored
<1>4. k \in Configs /\ k.capacity \in Nat
  BY <1>1, FoundBucket DEF TokenConfig, Positive
<1>5. key' # NoKey
  <2>1. clock \in Int /\ LastRefill(k, now) \in Int /\ Tokens(k, now) \in Nat
    BY <1>1, FoundBucket DEF RateInv, TypeOK, CallsTypeOK
  <2> QED
    BY <1>1, <1>4, <2>1, StoredKey
<1> QED
  BY <1>1, <1>2, <1>3, <1>4, <1>5 DEF Contract!Deny, Contract!SpentBy

\* The token bucket implements the contract of a limiter key.
THEOREM ImplementsQuota == Spec => IsQuota
<1>1. Init => Contract!Init
  BY DEF Init, Contract!Init
<1>2. RateInv /\ [Next]_vars => [Contract!Next]_(Contract!vars)
  <2> SUFFICES ASSUME RateInv, [Next]_vars PROVE [Contract!Next]_(Contract!vars)
    OBVIOUS
  <2>1. ASSUME NEW c \in Callers, Send(c) \/ Drop(c) \/ Restart(c)
        PROVE  UNCHANGED Contract!vars
    BY <2>1 DEF Send, Drop, Restart, Contract!vars
  <2>2. ASSUME NEW c \in Callers, Grant(c) PROVE Contract!Next
    BY <2>2, GrantSpends DEF Contract!Next, RateInv, TypeOK, CallsTypeOK
  <2>3. ASSUME NEW c \in Callers, Refuse(c) PROVE Contract!Next
    BY <2>3, RefuseDenies DEF Contract!Next, RateInv, TypeOK, CallsTypeOK
  <2>4. CASE Tick
    <3>1. (key' = NoKey /\ verdict' = verdict) \/ UNCHANGED <<key, verdict>>
      BY <2>4 DEF Tick
    <3>2. CASE key' = NoKey /\ verdict' = verdict
      BY <3>2 DEF Contract!Next, Contract!Forget
    <3>3. CASE UNCHANGED <<key, verdict>>
      BY <3>3 DEF Contract!vars
    <3> QED
      BY <3>1, <3>2, <3>3
  <2>5. CASE RedisRestart
    BY <2>5 DEF RedisRestart, Contract!Next, Contract!Forget
  <2>6. CASE UNCHANGED vars
    BY <2>6 DEF vars, Contract!vars
  <2> QED
    BY <2>1, <2>2, <2>3, <2>4, <2>5, <2>6 DEF Next
<1> QED
  BY <1>1, <1>2, RateInvariance, PTL DEF Spec, IsQuota, Contract!Spec
=============================================================================
