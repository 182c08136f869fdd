------------------------- MODULE ScriptCallsProofs --------------------------
(***************************************************************************)
(* What the proofs about the limiters share: facts about whole numbers, and *)
(* about the calls and their stamps, for every set of hosts, every skew,    *)
(* delay and number of resends that CallsAssumption allows.                 *)
(***************************************************************************)
EXTENDS ScriptCalls, TLAPS

-----------------------------------------------------------------------------
(* Whole numbers *)

\* Integer division rounds down.
LEMMA DivBounds ==
  ASSUME NEW a \in Int, NEW b \in Positive
  PROVE  /\ a \div b \in Int
         /\ b * (a \div b) <= a
         /\ a < b * (a \div b) + b
BY SMT DEF Positive

\* The remainder is what integer division leaves.
LEMMA ModByDiv ==
  ASSUME NEW a \in Int, NEW b \in Positive
  PROVE  a % b = a - b * (a \div b)
BY SMT DEF Positive

\* The rounded-up quotient of a lifetime in seconds covers the dividend.
LEMMA CeilDivCovers ==
  ASSUME NEW a \in Int, NEW b \in Positive
  PROVE  CeilDiv(a, b) \in Int /\ a <= b * CeilDiv(a, b)
<1>1. a + b - 1 \in Int
  BY DEF Positive
<1> DEFINE q == (a + b - 1) \div b
<1>2. q \in Int /\ a + b - 1 < b * q + b
  BY <1>1, DivBounds
<1>3. b * q \in Int
  BY <1>2 DEF Positive
<1> HIDE DEF q
<1>4. a <= b * q
  BY <1>2, <1>3 DEF Positive
<1> QED
  BY <1>2, <1>4 DEF CeilDiv, q

\* Scaling by a natural number keeps an order.
LEMMA ScaleLeq ==
  ASSUME NEW n \in Nat, NEW a \in Int, NEW b \in Int, a <= b
  PROVE  n * a \in Int /\ n * b \in Int /\ n * a <= n * b
BY SMT

\* Periods times a rate add up.
LEMMA Distribute ==
  ASSUME NEW n \in Int, NEW a \in Int, NEW b \in Int
  PROVE  n * a + n * b = n * (a + b)
BY SMT

\* A multiple of a period leaves no remainder.
LEMMA MultipleMod ==
  ASSUME NEW n \in Int, NEW b \in Positive
  PROVE  (n * b) % b = 0
<1> DEFINE a == n * b
           q == a \div b
<1>1. a \in Int /\ b \in Int
  BY DEF Positive
<1>2. q \in Int /\ b * q <= a /\ a < b * q + b /\ a % b = a - b * q
  <2> HIDE DEF a
  <2> QED
    BY <1>1, DivBounds, ModByDiv
<1>3. q = n
  <2> HIDE DEF q
  <2>1. ~(q < n)
    <3>1. SUFFICES ASSUME q + 1 <= n PROVE FALSE
      BY <1>2
    <3>2. b * (q + 1) <= b * n /\ b * (q + 1) = b * q + b
      BY <1>2, <3>1, ScaleLeq, Distribute DEF Positive
    <3> QED
      BY <1>1, <1>2, <3>2
  <2>2. ~(n < q)
    <3>1. SUFFICES ASSUME n + 1 <= q PROVE FALSE
      BY <1>2
    <3>2. b * (n + 1) <= b * q /\ b * (n + 1) = b * n + b
      BY <1>2, <3>1, ScaleLeq, Distribute DEF Positive
    <3> QED
      BY <1>1, <1>2, <3>2 DEF Positive
  <2> QED
    BY <1>2, <2>1, <2>2
<1> QED
  BY <1>1, <1>2, <1>3

-----------------------------------------------------------------------------
(* The lifetimes *)

\* The lifetime that both buckets give their key lasts for a full refill and the
\* buffer, which covers the delay and the skew; and for a whole period and the
\* buffer where a period refills no more than the capacity.
LEMMA LifetimeCovers ==
  ASSUME NEW capacity \in Positive, NEW rate \in Positive, NEW period \in Positive
  PROVE  LET ttl == Sec * (CeilDiv(capacity * period, rate * Sec) + Buffer)
         IN  /\ ttl \in Int
             /\ capacity * period + rate * (MaxDelay + 2 * Skew) <= rate * ttl
             /\ rate <= capacity => period + MaxDelay + 2 * Skew <= ttl
<1> DEFINE full == capacity * period
           secs == CeilDiv(full, rate * Sec)
           ttl  == Sec * (secs + Buffer)
           lag  == MaxDelay + 2 * Skew
<1>1. full \in Int /\ Sec \in Positive /\ Buffer \in Nat /\ lag \in Nat
  BY CallsAssumption DEF Positive
<1>2. rate * Sec \in Positive
  BY <1>1 DEF Positive
<1>3. secs \in Int /\ full <= (rate * Sec) * secs
  BY <1>1, <1>2, CeilDivCovers
<1>4. rate * lag <= rate * (Buffer * Sec)
  BY <1>1, BufferAssumption, ScaleLeq DEF Positive
<1>5. rate <= capacity => rate * period <= full
  <2>1. rate <= capacity => period * rate <= period * capacity
    BY ScaleLeq DEF Positive
  <2> QED
    BY <2>1 DEF Positive
<1> HIDE DEF full, secs, lag
<1>6. rate * (Sec * (secs + Buffer)) = (rate * Sec) * secs + rate * (Buffer * Sec)
  BY <1>1, <1>3 DEF Positive
<1>7. ttl \in Int /\ (rate * Sec) * secs \in Int /\ rate * (Buffer * Sec) \in Int
      /\ rate * lag \in Int /\ rate * ttl \in Int
  BY <1>1, <1>3 DEF Positive
<1>8. full + rate * lag <= rate * ttl
  BY <1>1, <1>3, <1>4, <1>6, <1>7
<1> HIDE DEF ttl
<1>9. rate <= capacity => period + lag <= ttl
  <2>1. SUFFICES ASSUME rate <= capacity, ttl + 1 <= period + lag PROVE FALSE
    BY <1>1, <1>7 DEF Positive
  <2>2. rate * (ttl + 1) <= rate * (period + lag)
    BY <1>1, <1>7, <2>1, ScaleLeq DEF Positive
  <2>3. rate * (ttl + 1) = rate * ttl + rate /\ rate * (period + lag) = rate * period + rate * lag
    BY <1>1, <1>7 DEF Positive
  <2>4. rate * period + rate * lag <= rate * ttl /\ rate * period \in Int
    BY <1>1, <1>5, <1>7, <1>8, <2>1 DEF Positive
  <2> QED
    BY <1>7, <2>2, <2>3, <2>4 DEF Positive
<1>10. period + MaxDelay + 2 * Skew = period + lag
  BY CallsAssumption DEF lag, Positive
<1> QED
  BY <1>7, <1>8, <1>9, <1>10 DEF ttl, full, secs, lag

-----------------------------------------------------------------------------
(* The calls *)

\* A stamp under way is within the delay and the skew of the clock of Redis.
LEMMA StampRange ==
  ASSUME CallsTypeOK, StampsInTime, NEW c \in Callers, call[c].pending
  PROVE  /\ Stamp(c) \in Int
         /\ clock - MaxDelay - Skew <= Stamp(c)
         /\ Stamp(c) <= clock + Skew
<1>1. Offset[c] \in Int /\ -Skew <= Offset[c] /\ Offset[c] <= Skew
  BY CallsAssumption
<1>2. call[c].at \in Int /\ clock \in Int
  BY DEF CallsTypeOK
<1>3. clock - MaxDelay <= call[c].at /\ call[c].at <= clock
  BY DEF StampsInTime
<1> QED
  BY <1>1, <1>2, <1>3, CallsAssumption DEF Stamp

\* A caller without a script under way is well-formed.
LEMMA IdleType == Idle \in [pending : BOOLEAN, at : Int, tries : 0..MaxRetries]
BY CallsAssumption DEF Idle

\* What the client does keeps the calls well-formed and in time.
LEMMA CallsStep ==
  ASSUME CallsTypeOK, StampsInTime, NEW c \in Callers,
         Begin(c) \/ Replied(c) \/ Lose(c) \/ Redeploy(c)
  PROVE  CallsTypeOK' /\ StampsInTime' /\ clock' = clock
<1> DEFINE T == [pending : BOOLEAN, at : Int, tries : 0..MaxRetries]
<1>1. call \in [Callers -> T] /\ conf \in [Callers -> Configs] /\ clock \in Int
  BY DEF CallsTypeOK
<1>2. CASE call' = [call EXCEPT ![c] = Idle] /\ clock' = clock
           /\ conf' \in [Callers -> Configs]
  <2>1. call' \in [Callers -> T]
    BY <1>1, <1>2, IdleType
  <2>2. \A d \in Callers : call'[d].pending => call'[d] = call[d]
    BY <1>1, <1>2 DEF Idle
  <2> QED
    BY <1>1, <1>2, <2>1, <2>2 DEF CallsTypeOK, StampsInTime
<1>3. CASE Begin(c)
  <2> DEFINE new == [pending |-> TRUE, at |-> clock, tries |-> 0]
  <2>1. new \in T
    BY <1>1, CallsAssumption
  <2>2. call' = [call EXCEPT ![c] = new] /\ clock' = clock /\ conf' = conf
    BY <1>3 DEF Begin
  <2>3. call' \in [Callers -> T]
    BY <1>1, <2>1, <2>2
  <2>4. \A d \in Callers : call'[d] = IF d = c THEN new ELSE call[d]
    BY <1>1, <2>2
  <2>5. StampsInTime'
    BY <1>1, <2>2, <2>4, CallsAssumption DEF StampsInTime
  <2> QED
    BY <1>1, <2>2, <2>3, <2>5 DEF CallsTypeOK
<1>4. CASE Replied(c) /\ Resent(c)
  <2>1. call' = [call EXCEPT ![c].tries = @ + 1] /\ call[c].tries < MaxRetries
        /\ clock' = clock /\ conf' = conf
    BY <1>4 DEF Replied, Resent
  <2>2. call[c] \in T
    BY <1>1
  <2>3. [call[c] EXCEPT !.tries = @ + 1] \in T
    BY <2>1, <2>2, CallsAssumption
  <2>4. call' \in [Callers -> T]
    BY <1>1, <2>1, <2>3
  <2>5. \A d \in Callers : call'[d].pending = call[d].pending /\ call'[d].at = call[d].at
    BY <1>1, <2>1
  <2> QED
    BY <1>1, <2>1, <2>4, <2>5 DEF CallsTypeOK, StampsInTime
<1>5. CASE Replied(c) /\ Answered(c)
  BY <1>1, <1>2, <1>5 DEF Replied, Answered
<1>6. CASE Lose(c)
  BY <1>1, <1>2, <1>6 DEF Lose
<1>7. CASE Redeploy(c)
  <2>1. PICK other \in Configs \ {conf[c]} : conf' = [conf EXCEPT ![c] = other]
    BY <1>7 DEF Redeploy
  <2>2. conf' \in [Callers -> Configs]
    BY <1>1, <2>1
  <2> QED
    BY <1>2, <1>7, <2>2 DEF Redeploy
<1> QED
  BY <1>3, <1>4, <1>5, <1>6, <1>7 DEF Replied

\* Time passing keeps the calls well-formed and in time.
LEMMA CallsTick ==
  ASSUME CallsTypeOK, StampsInTime, TimePasses
  PROVE  CallsTypeOK' /\ StampsInTime' /\ clock' = clock + 1
BY CallsAssumption DEF CallsTypeOK, StampsInTime, TimePasses
=============================================================================
