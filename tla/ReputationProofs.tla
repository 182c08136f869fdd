-------------------------- MODULE ReputationProofs --------------------------
(***************************************************************************)
(* Proofs about the reputation of a tenant, for every set of concurrent    *)
(* requests, every skew and delay of their reports, every number of resent  *)
(* scripts and every number of reports.                                     *)
(***************************************************************************)
EXTENDS Reputation, WellFoundedInduction, TLAPS

-----------------------------------------------------------------------------
(* The inductive invariant *)

\* What a record says of itself, with before good requests counted when its
\* first violation was.
Earned(r, before) ==
  /\ r.violation_count = 0 <=> r.last_violation = Never
  /\ r.violation_count = 0 => r.score = Full
  /\ r.violation_count = 1 => 20 * r.score >= 17 * Full
  /\ r.violation_count = 2 => 40 * r.score >= 17 * Full
  /\ r.violation_count > 0 => before <= r.good_requests
  /\ r.violation_count \in 1..20 =>
       r.score + r.violation_count * (Full \div 20)
         <= Full + (r.good_requests - before) * (Full \div 200)

\* The stamp of the last violation is not ahead of its run by more than the
\* skew, unless it is too far back for that to matter.
Traced(r, run) ==
  r.last_violation # Never =>
    /\ run # Never
    /\ r.last_violation <= run + Skew \/ r.last_violation <= 0 - ViolationHorizon

\* A request k of c: its stamp is no older than the request, and the request no
\* older than what is known of the last one that got in.
CallOK(c, k, shut) ==
  /\ k \in Request
  /\ k.report # "none" =>
       /\ k.stage # "idle"
       /\ Offset[c] - (MaxDelay - k.left) <= k.stamp /\ k.stamp <= Offset[c]
  /\ k.stage # "idle" => shut + k.left <= MaxDelay

\* The record of a banned tenant outlives the hour and no more than the longest
\* lifetime.
BanKept ==
  Banned => /\ rec.ttl + watch.written >= Hour
            /\ rec.ttl + watch.shut <= Longest + MaxDelay

RepInv ==
  /\ TypeOK
  /\ rec # NoKey => Earned(rec, watch.before) /\ Traced(rec, watch.violation)
  /\ \A c \in Callers : CallOK(c, call[c], watch.shut)
  /\ BanKept

-----------------------------------------------------------------------------
(* The parts of a score *)

\* A two-thousandth of a full score.
Part == Full \div 2000

\* The shares of a score the script works with are whole.
LEMMA Parts ==
  /\ Part \in Nat /\ Part > 0 /\ Full = 2000 * Part
  /\ Full \div 5 = 400 * Part /\ Full \div 10 = 200 * Part /\ Full \div 20 = 100 * Part
  /\ Full \div 50 = 40 * Part /\ Full \div 200 = 10 * Part
  /\ (3 * Full) \div 20 = 300 * Part /\ (3 * Full) \div 10 = 600 * Part
  /\ (7 * Full) \div 10 = 1400 * Part
<1>1. Full \in Nat /\ Full > 0 /\ Full % 2000 = 0
  BY ReputationAssumption
<1>2. Part \in Nat /\ Full = 2000 * Part
  BY <1>1 DEF Part
<1>3. Part > 0
  BY <1>1, <1>2
<1> HIDE DEF Part
<1>4. Full \div 5 = 400 * Part /\ Full \div 10 = 200 * Part /\ Full \div 20 = 100 * Part
  BY <1>2
<1>5. Full \div 50 = 40 * Part /\ Full \div 200 = 10 * Part
  BY <1>2
<1>6. /\ (3 * Full) \div 20 = 300 * Part /\ (3 * Full) \div 10 = 600 * Part
      /\ (7 * Full) \div 10 = 1400 * Part
  BY <1>2
<1> QED
  BY <1>2, <1>3, <1>4, <1>5, <1>6

\* The products of the proofs below.
LEMMA Product == ASSUME NEW a \in Nat, NEW b \in Nat PROVE a * b \in Nat
BY SMT

LEMMA Scaled ==
  ASSUME NEW a \in Nat, NEW b \in Nat, NEW n \in Nat, a <= b
  PROVE  a * n <= b * n
BY SMT

LEMMA OneMore == ASSUME NEW a \in Int, NEW n \in Int PROVE (a + 1) * n = a * n + n
BY SMT

\* The gain of a good request is a whole number of parts, a two-hundredth of a
\* full score at most: the root the script takes exists.
LEMMA GainRange ==
  ASSUME NEW n \in Nat, n > 0
  PROVE  Gain(n) \in 0..(Full \div 200)
<1> DEFINE q == (Full \div 2000) * (10 - Least(8, n))
           U == Full \div 200
           Over == {g \in Nat : (g + 1) * (g + 1) * n > q * q}
<1>1. Least(8, n) \in 1..8
  BY DEF Least
<1>2. q \in Nat /\ q <= U /\ U \in Nat
  <2> DEFINE m == 10 - Least(8, n)
  <2>1. m \in Nat /\ m <= 10
    BY <1>1
  <2> HIDE DEF m
  <2>2. q = Part * m
    BY DEF Part, m
  <2>3. m * Part <= 10 * Part /\ m * Part = Part * m /\ Part * m \in Nat
    BY <2>1, Scaled, Product, Parts
  <2> HIDE DEF q
  <2> QED
    BY <2>2, <2>3, Parts
<1> HIDE DEF q, U
<1>3. U \in Over
  <2>1. (U + 1) * (U + 1) * n >= (U + 1) * (U + 1)
    <3> DEFINE s == (U + 1) * (U + 1)
    <3>1. s \in Nat
      BY <1>2, Product
    <3> HIDE DEF s
    <3>2. 1 * s <= n * s
      BY <3>1, Scaled
    <3>3. n * s = s * n
      BY <3>1
    <3> QED
      BY <3>1, <3>2, <3>3 DEF s
  <2>2. q * q <= q * (U + 1) /\ q * (U + 1) < (U + 1) * (U + 1)
    <3>1. q * q <= (U + 1) * q
      BY <1>2, Scaled
    <3>2. (q + 1) * (U + 1) <= (U + 1) * (U + 1)
      BY <1>2, Scaled
    <3>3. (q + 1) * (U + 1) = q * (U + 1) + (U + 1)
      BY <1>2, OneMore
    <3>4. q * (U + 1) \in Nat /\ (U + 1) * (U + 1) \in Nat /\ q * q \in Nat
      BY <1>2, Product
    <3>5. (U + 1) * q = q * (U + 1)
      BY <1>2
    <3> QED
      BY <1>2, <3>1, <3>2, <3>3, <3>4, <3>5
  <2>3. q * q \in Nat /\ q * (U + 1) \in Nat /\ (U + 1) * (U + 1) \in Nat
        /\ (U + 1) * (U + 1) * n \in Nat
    BY <1>2, Product
  <2>4. (U + 1) * (U + 1) * n > q * q
    BY <2>1, <2>2, <2>3
  <2> QED
    BY <1>2, <2>4
<1>4. PICK g \in Over : \A h \in Over : ~(<<h, g>> \in OpToRel(<, Nat))
  BY <1>3, NatLessThanWellFounded, WFMin
<1>5. \A h \in Over : ~(h < g)
  BY <1>4 DEF OpToRel
<1>6. g \in 0..U
  BY <1>2, <1>3, <1>5
<1>7. g * g * n <= q * q
  <2>1. CASE g = 0
    BY <1>2, <2>1, Product
  <2>2. CASE g # 0
    <3> DEFINE h == g - 1
    <3>1. h \in Nat /\ h < g /\ h + 1 = g
      BY <1>6, <2>2
    <3>2. h \notin Over
      BY <1>5, <3>1
    <3>3. ~((h + 1) * (h + 1) * n > q * q)
      BY <3>1, <3>2
    <3>4. ~(g * g * n > q * q)
      BY <3>1, <3>3
    <3>5. g * g * n \in Nat /\ q * q \in Nat
      BY <1>2, <1>6, Product
    <3> QED
      BY <3>4, <3>5
  <2> QED
    BY <2>1, <2>2
<1>8. (g + 1) * (g + 1) * n > q * q
  BY <1>4
<1>9. \E x \in 0..U : x * x * n <= q * q /\ (x + 1) * (x + 1) * n > q * q
  BY <1>6, <1>7, <1>8
<1>10. Gain(n) = CHOOSE x \in 0..U : x * x * n <= q * q /\ (x + 1) * (x + 1) * n > q * q
  BY DEF Gain, q, U
<1> QED
  BY <1>9, <1>10 DEF U

-----------------------------------------------------------------------------
(* What the script does to a record *)

\* A good request raises a score, but not past full, and with a violation on
\* record by a two-hundredth of a full score at most.
LEMMA RecoveredRange ==
  ASSUME NEW score \in 0..Full, NEW n \in Nat
  PROVE  /\ Recovered(score, n) \in score..Full
         /\ n > 0 => Recovered(score, n) <= score + Full \div 200
<1>1. CASE n = 0
  BY <1>1, Parts DEF Recovered, Least
<1>2. CASE n > 0
  <2> DEFINE gain == Gain(n)
  <2>1. gain \in 0..(Full \div 200)
    BY <1>2, GainRange
  <2> HIDE DEF gain
  <2>2. Recovered(score, n) = Least(Full, score + Least(Full \div 50, gain))
    BY <1>2 DEF Recovered, gain
  <2> QED
    BY <1>2, <2>1, <2>2, Parts DEF Least
<1> QED
  BY <1>1, <1>2

\* A violation costs a twentieth of a full score or more; the first no more
\* than three twentieths, the second no more than half as much again.
LEMMA ImpactRange ==
  ASSUME NEW r \in Stored
  PROVE  /\ Impact(r) \in Int /\ Impact(r) >= Full \div 20
         /\ r.violation_count = 0 => 20 * Impact(r) <= 3 * Full
         /\ r.violation_count = 1 => 40 * Impact(r) <= 9 * Full
<1>1. r.violation_count \in Nat /\ r.good_requests \in Nat
  BY DEF Stored
<1> DEFINE base == BaseImpact(r.good_requests)
           share == Full \div (r.good_requests + 1)
<1>2. share \in Int
  BY <1>1, Parts
<1>3. base = Greatest(Full \div 20, Least((3 * Full) \div 20, share))
  BY DEF BaseImpact
<1> HIDE DEF base, share
<1>4. base \in Int /\ 100 * Part <= base /\ base <= 300 * Part
  BY <1>2, <1>3, Parts DEF Greatest, Least
<1>5. Impact(r) = IF r.violation_count + 1 >= Persistent THEN 2 * base
                  ELSE IF r.violation_count + 1 >= Repeated THEN (3 * base) \div 2 ELSE base
  BY DEF Impact, base
<1>6. (3 * base) \div 2 \in Int /\ base <= (3 * base) \div 2 /\ 2 * ((3 * base) \div 2) <= 3 * base
  BY <1>4, Parts
<1>7. /\ Repeated \in Nat /\ Persistent \in Nat /\ 1 < Repeated /\ Repeated < Persistent
      /\ 2 < Persistent
  BY ReputationAssumption
<1> QED
  BY <1>1, <1>4, <1>5, <1>6, <1>7, Parts

\* A record lives for an hour or more if its tenant is banned, and never longer
\* than the longest lifetime.
LEMMA TtlRange ==
  ASSUME NEW r, r.score \in Int, r.violation_count \in Nat
  PROVE  /\ Ttl(r) \in 1..Longest
         /\ r.score <= Threshold => Ttl(r) >= Hour
<1>1. /\ Hour \in Nat /\ Hour >= 2 /\ Hour % 2 = 0 /\ Persistent \in Nat
  BY ReputationAssumption
<1>2. Hour \div 2 \in Nat /\ Hour \div 2 >= 1 /\ Hour \div 2 <= Hour
  BY <1>1
<1> DEFINE base == IF r.score < Full \div 10 THEN 4 * Hour
                   ELSE IF r.score < (3 * Full) \div 10 THEN 2 * Hour
                   ELSE IF r.score < (7 * Full) \div 10 THEN Hour
                   ELSE Hour \div 2
<1>3. base \in Nat /\ base >= 1 /\ base <= 4 * Hour
  BY <1>1, <1>2
<1>4. r.score <= Threshold => base >= Hour
  BY <1>1, Parts DEF Threshold
<1>5. Ttl(r) = IF r.violation_count >= Persistent THEN 2 * base ELSE base
  BY DEF Ttl
<1> HIDE DEF base
<1> QED
  BY <1>1, <1>3, <1>4, <1>5 DEF Longest

\* A score without a violation is full and one with a violation does not
\* recover by itself.
LEMMA NoRecoveryByTime ==
  ASSUME NEW r \in Stored, NEW now, NEW before, Earned(r, before)
  PROVE  TimeRecovered(r, now) = r.score
BY Parts DEF Stored, Earned, TimeRecovered

\* A good request leaves a record as well earned as it was.
LEMMA GoodKeeps ==
  ASSUME NEW r \in Stored, NEW now \in Int, NEW before \in Nat, Earned(r, before)
  PROVE  LET n == AfterGood(r, now)
         IN  /\ n \in Stored /\ Earned(n, before)
             /\ n.last_violation = r.last_violation
<1> DEFINE n == AfterGood(r, now)
           score == Recovered(r.score, r.violation_count)
<1>1. /\ r.score \in 0..Full /\ r.violation_count \in Nat /\ r.good_requests \in Nat
      /\ r.last_violation \in Int \cup {Never} /\ r.ttl \in Nat
  BY DEF Stored
<1>2. n = [r EXCEPT !.score = score, !.good_requests = @ + 1, !.last_activity = now]
  BY NoRecoveryByTime DEF AfterGood
<1>3. /\ score \in r.score..Full
      /\ r.violation_count > 0 => score <= r.score + Full \div 200
  BY <1>1, RecoveredRange
<1> HIDE DEF score
<1>4. /\ n \in Stored
      /\ n.score = score /\ n.violation_count = r.violation_count
      /\ n.good_requests = r.good_requests + 1 /\ n.last_violation = r.last_violation
  <2>1. score \in 0..Full /\ r.good_requests + 1 \in Nat
    BY <1>1, <1>3, Parts
  <2>2. n \in Stored
    BY <1>2, <2>1 DEF Stored
  <2>3. n.score = score /\ n.violation_count = r.violation_count
        /\ n.good_requests = r.good_requests + 1
    BY <1>2 DEF Stored
  <2>4. n.last_violation = r.last_violation
    BY <1>2 DEF Stored
  <2> QED
    BY <2>2, <2>3, <2>4
<1> HIDE DEF n
<1>5. Earned(n, before)
  <2>1. /\ n.violation_count = 0 <=> n.last_violation = Never
        /\ n.violation_count = 0 => n.score = Full
        /\ n.violation_count = 1 => 20 * n.score >= 17 * Full
        /\ n.violation_count = 2 => 40 * n.score >= 17 * Full
        /\ n.violation_count > 0 => before <= n.good_requests
    BY <1>1, <1>3, <1>4, Parts DEF Earned
  <2>2. ASSUME r.violation_count \in 1..20
        PROVE  n.score + n.violation_count * (Full \div 20)
                 <= Full + (n.good_requests - before) * (Full \div 200)
    <3> DEFINE cost == r.violation_count * (Full \div 20)
               goods == r.good_requests - before
               bought == goods * (Full \div 200)
    <3>1. cost \in Nat /\ goods \in Nat /\ bought \in Nat
      <4>1. cost \in Nat
        BY <1>1, Product, Parts
      <4>2. goods \in Nat
        <5>1. r.violation_count > 0
          BY <2>2
        <5>2. before <= r.good_requests
          BY <5>1 DEF Earned
        <5> QED
          BY <1>1, <5>2
      <4> HIDE DEF goods
      <4>3. bought \in Nat
        BY <4>2, Product, Parts
      <4> QED
        BY <4>1, <4>2, <4>3
    <3>2. r.score + cost <= Full + bought
      BY <2>2 DEF Earned
    <3>3. (goods + 1) * (Full \div 200) = bought + Full \div 200
      BY <3>1, OneMore, Parts
    <3>4. n.good_requests - before = goods + 1
      BY <1>1, <1>4
    <3>5. n.violation_count * (Full \div 20) = cost
      BY <1>4
    <3>6. score <= r.score + Full \div 200
      BY <1>3, <2>2
    <3> HIDE DEF cost, goods, bought
    <3> QED
      BY <1>1, <1>3, <1>4, <3>1, <3>2, <3>3, <3>4, <3>5, <3>6, Parts
  <2> QED
    BY <1>4, <2>1, <2>2 DEF Earned
<1> QED
  BY <1>4, <1>5 DEF n

\* A violation leaves a record well earned, and no score higher than it was.
LEMMA ViolationKeeps ==
  ASSUME NEW r \in Stored, NEW now \in Int, NEW before \in Nat, Earned(r, before)
  PROVE  LET n == AfterViolation(r, now)
             b == IF r.violation_count = 0 THEN n.good_requests ELSE before
         IN  /\ n \in Stored /\ Earned(n, b) /\ b \in Nat
             /\ n.last_violation = now /\ n.score <= r.score
<1> DEFINE n == AfterViolation(r, now)
           b == IF r.violation_count = 0 THEN n.good_requests ELSE before
           impact == Impact(r)
           penalty == Penalty(r, now)
           score == Greatest(0, Greatest(0, r.score - impact) - penalty)
<1>1. /\ r.score \in 0..Full /\ r.violation_count \in Nat /\ r.good_requests \in Nat
      /\ r.last_violation \in Int \cup {Never} /\ r.ttl \in Nat
  BY DEF Stored
<1>2. n = [r EXCEPT !.score = score, !.violation_count = @ + 1, !.last_violation = now,
                    !.last_activity = now]
  BY NoRecoveryByTime DEF AfterViolation
<1>3. /\ impact \in Int /\ impact >= Full \div 20
      /\ r.violation_count = 0 => 20 * impact <= 3 * Full
      /\ r.violation_count = 1 => 40 * impact <= 9 * Full
  BY ImpactRange
<1>4. /\ penalty \in {0, Full \div 5}
      /\ r.violation_count = 0 => penalty = 0
  BY DEF Penalty, IsRapid, Earned
<1> HIDE DEF impact, penalty
<1>5. /\ score \in 0..Full /\ score <= r.score /\ score >= r.score - impact - penalty
      /\ score = 0 \/ score = r.score - impact - penalty
  BY <1>1, <1>3, <1>4, Parts DEF Greatest
<1> HIDE DEF score
<1>6. /\ n \in Stored
      /\ n.score = score /\ n.violation_count = r.violation_count + 1
      /\ n.good_requests = r.good_requests /\ n.last_violation = now
  <2>1. r.violation_count + 1 \in Nat /\ now \in Int \cup {Never}
    BY <1>1
  <2>2. n \in Stored
    BY <1>2, <1>5, <2>1 DEF Stored
  <2>3. n.score = score /\ n.violation_count = r.violation_count + 1
        /\ n.good_requests = r.good_requests
    BY <1>2 DEF Stored
  <2>4. n.last_violation = now
    BY <1>2 DEF Stored
  <2> QED
    BY <2>2, <2>3, <2>4
<1> HIDE DEF n
<1>7. b \in Nat /\ b <= n.good_requests
  BY <1>1, <1>6 DEF Earned
<1>8. Earned(n, b)
  <2>1. /\ n.violation_count # 0 /\ n.last_violation # Never
        /\ n.violation_count = 1 => 20 * n.score >= 17 * Full
        /\ n.violation_count = 2 => 40 * n.score >= 17 * Full
    <3>1. n.violation_count # 0 /\ n.last_violation # Never
      BY <1>1, <1>6, ReputationAssumption
    <3>2. CASE r.violation_count = 0
      <4>1. r.score = Full
        BY <3>2 DEF Earned
      <4> QED
        BY <1>3, <1>4, <1>5, <1>6, <3>1, <3>2, <4>1, Parts
    <3>3. CASE r.violation_count = 1
      <4>1. 20 * r.score >= 17 * Full
        BY <3>3 DEF Earned
      <4>2. 40 * (r.score - impact - penalty) >= 17 * Full
        BY <1>1, <1>3, <1>4, <3>3, <4>1, Parts
      <4> QED
        BY <1>1, <1>3, <1>4, <1>5, <1>6, <3>1, <3>3, <4>2, Parts
    <3>4. CASE r.violation_count \notin {0, 1}
      BY <1>1, <1>6, <3>1, <3>4
    <3> QED
      BY <3>2, <3>3, <3>4
  <2>2. ASSUME n.violation_count \in 1..20
        PROVE  n.score + n.violation_count * (Full \div 20)
                 <= Full + (n.good_requests - b) * (Full \div 200)
    <3> DEFINE cost == n.violation_count * (Full \div 20)
               goods == n.good_requests - b
               bought == goods * (Full \div 200)
    <3>1. cost \in Nat /\ goods \in Nat /\ bought \in Nat
      BY <1>1, <1>6, <1>7, <2>2, Product, Parts
    <3>2. cost <= Full
      <4>1. n.violation_count * (Full \div 20) <= 20 * (Full \div 20)
        BY <2>2, Scaled, Parts
      <4> QED
        BY <4>1, Parts
    <3>3. CASE score = 0
      <4> HIDE DEF cost, bought
      <4>1. score + cost <= Full + bought
        BY <3>1, <3>2, <3>3, Parts
      <4> QED
        BY <1>6, <4>1 DEF cost, bought
    <3>4. CASE score = r.score - impact - penalty /\ r.violation_count = 0
      <4>1. cost = Full \div 20
        BY <1>6, <3>4, Parts
      <4> HIDE DEF cost, bought
      <4>2. score + cost <= Full + bought
        BY <1>1, <1>3, <1>4, <3>1, <3>4, <4>1, Parts
      <4> QED
        BY <1>6, <4>2 DEF cost, bought
    <3>5. CASE score = r.score - impact - penalty /\ r.violation_count # 0
      <4> DEFINE before_cost == r.violation_count * (Full \div 20)
      <4>1. before_cost \in Nat
        BY <1>1, Product, Parts
      <4>2. cost = before_cost + Full \div 20
        BY <1>1, <1>6, OneMore, Parts
      <4>3. r.violation_count \in 1..20
        BY <1>1, <1>6, <2>2, <3>5
      <4>4. r.score + before_cost <= Full + bought
        BY <1>6, <3>5, <4>3 DEF Earned
      <4> HIDE DEF cost, bought, before_cost
      <4>5. score + cost <= Full + bought
        BY <1>1, <1>3, <1>4, <3>1, <3>5, <4>1, <4>2, <4>4, Parts
      <4> QED
        BY <1>6, <4>5 DEF cost, bought
    <3> QED
      BY <1>5, <3>3, <3>4, <3>5
  <2> HIDE DEF b
  <2> QED
    BY <1>7, <2>1, <2>2 DEF Earned
<1> QED
  BY <1>5, <1>6, <1>7, <1>8 DEF n, b

-----------------------------------------------------------------------------
(* The script, for a report *)

Watch == [written : 0..Hour, violation : Int \cup {Never}, before : Nat,
          shut : 0..(Longest + MaxDelay + 1)]

\* What the inductive invariant says of the types.
LEMMA RepTypes ==
  ASSUME RepInv
  PROVE  /\ rec # NoKey => rec \in Stored /\ rec.ttl \in 1..Longest
         /\ watch \in Watch /\ watch.written \in 0..Hour
         /\ watch.violation \in Int \cup {Never} /\ watch.before \in Nat
         /\ watch.shut \in 0..(Longest + MaxDelay + 1)
         /\ call \in [Callers -> Request] /\ reports \in 0..MaxReports
<1>1. watch \in Watch
  BY DEF RepInv, TypeOK, Watch
<1>2. /\ rec # NoKey => rec \in Stored /\ rec.ttl \in 1..Longest
      /\ call \in [Callers -> Request] /\ reports \in 0..MaxReports
  BY DEF RepInv, TypeOK
<1>3. /\ watch.written \in 0..Hour
      /\ watch.violation \in Int \cup {Never} /\ watch.before \in Nat
      /\ watch.shut \in 0..(Longest + MaxDelay + 1)
  BY <1>1 DEF Watch
<1> QED
  BY <1>1, <1>2, <1>3

\* What the script finds is a record in order, if only the one it starts with.
LEMMA FoundOK ==
  ASSUME RepInv, NEW now \in Int
  PROVE  /\ Found(now) \in Stored /\ Earned(Found(now), watch.before)
         /\ Traced(Found(now), watch.violation)
         /\ rec # NoKey => Found(now) = rec
<1>1. CASE rec # NoKey
  BY <1>1, RepTypes DEF RepInv, Found
<1>2. CASE rec = NoKey
  <2> DEFINE new == [score |-> Full, violation_count |-> 0, good_requests |-> 0,
                     last_violation |-> Never, last_activity |-> now, ttl |-> 0]
  <2>1. new \in Stored
    BY Parts DEF Stored
  <2>2. Earned(new, watch.before) /\ Traced(new, watch.violation)
    BY DEF Earned, Traced
  <2>3. Found(now) = new
    BY <1>2 DEF Found
  <2> QED
    BY <1>2, <2>1, <2>2, <2>3
<1> QED
  BY <1>1, <1>2

\* A report leaves a record that is well earned, traced to the last violation
\* that was run, and kept for long enough if it is one of a banned tenant.
LEMMA ScriptStep ==
  ASSUME RepInv, NEW c \in Callers, call[c].report # "none", Script(c)
  PROVE  /\ rec' \in Stored /\ rec' # NoKey /\ rec'.ttl \in 1..Longest
         /\ Earned(rec', watch'.before) /\ Traced(rec', watch'.violation)
         /\ BanKept' /\ watch' \in Watch /\ watch'.shut = watch.shut
         /\ call[c].report = "violation" /\ rec # NoKey => rec'.score <= rec.score
<1> DEFINE now == call[c].stamp
           bad == call[c].report = "violation"
           f == Found(now)
           new == IF bad THEN AfterViolation(f, now) ELSE AfterGood(f, now)
           run == IF bad THEN 0 ELSE watch.violation
           before == IF bad /\ f.violation_count = 0 THEN new.good_requests ELSE watch.before
<1>1. CallOK(c, call[c], watch.shut) /\ call[c] \in Request
  BY DEF RepInv, CallOK
<1>2. now \in Int /\ now <= Skew /\ Skew \in Nat /\ Offset[c] \in Int
  <2>1. now \in Int
    BY <1>1 DEF Request
  <2>2. now <= Offset[c]
    BY <1>1 DEF CallOK
  <2>3. Offset[c] \in Int /\ Offset[c] <= Skew /\ Skew \in Nat
    BY ReputationAssumption
  <2> QED
    BY <2>1, <2>2, <2>3
<1>3. watch.shut + call[c].left <= MaxDelay /\ call[c].left \in 0..MaxDelay
  BY <1>1 DEF CallOK, Request
<1>4. rec' = [new EXCEPT !.ttl = Ttl(new)]
  BY DEF Script
<1>5. watch' = [watch EXCEPT !.written = 0, !.violation = run, !.before = before]
  BY DEF Script
<1> HIDE DEF now
<1>6. /\ f \in Stored /\ Earned(f, watch.before) /\ Traced(f, watch.violation)
      /\ rec # NoKey => f = rec
  BY <1>2, FoundOK
<1> HIDE DEF f
<1>7. /\ new \in Stored /\ Earned(new, before) /\ before \in Nat
      /\ Traced(new, run) /\ run \in Int \cup {Never}
      /\ bad => new.score <= f.score
  <2>1. CASE bad
    <3>1. /\ new \in Stored /\ Earned(new, before) /\ before \in Nat
          /\ new.last_violation = now /\ new.score <= f.score
      BY <1>2, <1>6, <2>1, ViolationKeeps, RepTypes
    <3>2. run = 0 /\ run # Never
      BY <2>1, ReputationAssumption
    <3> HIDE DEF new, before, run
    <3> QED
      BY <1>2, <3>1, <3>2 DEF Traced
  <2>2. CASE ~bad
    <3>1. new = AfterGood(f, now) /\ run = watch.violation /\ before = watch.before
      BY <2>2
    <3>2. /\ new \in Stored /\ Earned(new, before) /\ before \in Nat
          /\ new.last_violation = f.last_violation
      BY <1>2, <1>6, <3>1, GoodKeeps, RepTypes
    <3> HIDE DEF new, before, run, bad
    <3> QED
      BY <1>6, <2>2, <3>1, <3>2, RepTypes DEF Traced
  <2> QED
    BY <2>1, <2>2
<1> HIDE DEF new, run, before, bad
<1>8. new.score \in Int /\ new.violation_count \in Nat
  BY <1>7 DEF Stored
<1>9. Ttl(new) \in 1..Longest /\ (new.score <= Threshold => Ttl(new) >= Hour)
  BY <1>8, TtlRange
<1>10. Longest \in Nat /\ Hour \in Nat /\ MaxDelay \in Nat
  BY ReputationAssumption DEF Longest
<1> DEFINE ttl == Ttl(new)
<1>11. ttl \in Nat /\ ttl \in 1..Longest /\ (new.score <= Threshold => ttl >= Hour)
  BY <1>9, <1>10
<1> HIDE DEF ttl
<1>12. rec' = [new EXCEPT !.ttl = ttl]
  BY <1>4 DEF ttl
<1>13. /\ rec' \in Stored /\ rec'.ttl = ttl
       /\ rec'.score = new.score /\ rec'.violation_count = new.violation_count
       /\ rec'.good_requests = new.good_requests
  BY <1>7, <1>11, <1>12 DEF Stored
<1>14. rec'.last_violation = new.last_violation
  BY <1>7, <1>12 DEF Stored
<1>15. /\ watch' \in Watch /\ watch'.written = 0 /\ watch'.before = before
       /\ watch'.shut = watch.shut
  <2>1. watch \in Watch /\ 0 \in 0..Hour
    BY <1>10, RepTypes
  <2>2. watch' \in Watch
    BY <1>5, <1>7, <2>1 DEF Watch
  <2>3. watch'.written = 0 /\ watch'.before = before /\ watch'.shut = watch.shut
    BY <1>5, <2>1 DEF Watch
  <2> QED
    BY <2>2, <2>3
<1>16. watch'.violation = run
  BY <1>5, RepTypes DEF Watch
<1>17. rec' # NoKey
  BY <1>13, ReputationAssumption
<1>18. Earned(rec', watch'.before)
  BY <1>7, <1>13, <1>14, <1>15 DEF Earned
<1>19. Traced(rec', watch'.violation)
  BY <1>7, <1>14, <1>16 DEF Traced
<1>20. BanKept'
  BY <1>3, <1>10, <1>11, <1>13, <1>15, RepTypes DEF BanKept, Banned
<1> QED
  BY <1>6, <1>7, <1>11, <1>13, <1>15, <1>17, <1>18, <1>19, <1>20 DEF bad

-----------------------------------------------------------------------------
(* The requests *)

\* A request that does nothing is in order.
LEMMA IdleOK ==
  ASSUME NEW c \in Callers, NEW shut
  PROVE  CallOK(c, Idle, shut)
BY ReputationAssumption DEF CallOK, Idle, Request

\* So is one that a layer has passed on.
LEMMA PassedOnOK ==
  ASSUME RepInv, NEW c \in Callers
  PROVE  CallOK(c, PassedOn(c), watch.shut)
<1>1. CallOK(c, call[c], watch.shut)
  BY DEF RepInv
<1>2. CASE call[c].stage = "tenant" /\ call[c].report # "violation"
  <2> DEFINE k == [call[c] EXCEPT !.stage = "endpoint", !.report = "none", !.stamp = 0,
                                  !.tries = 0]
  <2>1. /\ k \in Request /\ k.stage = "endpoint" /\ k.report = "none"
        /\ k.left = call[c].left
    <3>1. call[c] \in Request /\ 0 \in 0..MaxRetries
      BY <1>1, ReputationAssumption DEF CallOK
    <3>2. k \in Request
      <4> DEFINE q == call[c]
                 near == [q EXCEPT !.stage = "endpoint", !.report = "none"]
      <4>1. q \in Request
        BY <3>1
      <4> HIDE DEF q
      <4>2. near \in Request
        BY <4>1 DEF Request
      <4>3. k = [near EXCEPT !.stamp = 0, !.tries = 0]
        BY DEF q
      <4> HIDE DEF near, k
      <4>4. [near EXCEPT !.stamp = 0] \in Request
        BY <4>2 DEF Request
      <4> QED
        BY <3>1, <4>2, <4>3, <4>4 DEF Request
    <3>3. k.stage = "endpoint" /\ k.report = "none" /\ k.left = call[c].left
      BY <3>1 DEF Request
    <3> QED
      BY <3>2, <3>3
  <2>2. PassedOn(c) = k
    BY <1>2 DEF PassedOn
  <2> HIDE DEF k
  <2> QED
    BY <1>1, <1>2, <2>1, <2>2 DEF CallOK
<1>3. CASE ~(call[c].stage = "tenant" /\ call[c].report # "violation")
  BY <1>3, IdleOK DEF PassedOn
<1> QED
  BY <1>2, <1>3

\* A step of one request leaves the others in order.
LEMMA CallsStep ==
  ASSUME RepInv, NEW c \in Callers, NEW k, call' = [call EXCEPT ![c] = k],
         CallOK(c, k, watch'.shut), watch'.shut \in Nat, watch'.shut <= watch.shut
  PROVE  /\ call' \in [Callers -> Request]
         /\ \A d \in Callers : CallOK(d, call'[d], watch'.shut)
<1>1. k \in Request
  BY DEF CallOK
<1>2. call' \in [Callers -> Request] /\ call'[c] = k
      /\ \A d \in Callers \ {c} : call'[d] = call[d]
  BY <1>1, RepTypes
<1>3. ASSUME NEW d \in Callers, d # c
      PROVE  CallOK(d, call'[d], watch'.shut)
  <2>1. CallOK(d, call[d], watch.shut) /\ call'[d] = call[d]
    BY <1>2, <1>3 DEF RepInv
  <2>2. call[d].left \in Nat /\ watch.shut \in Nat /\ MaxDelay \in Nat
    BY <2>1, RepTypes, ReputationAssumption DEF CallOK, Request
  <2> QED
    BY <2>1, <2>2 DEF CallOK
<1> QED
  BY <1>2, <1>3

\* A step that touches neither the record nor the history.
LEMMA QuietStep ==
  ASSUME RepInv, NEW c \in Callers, NEW k, call' = [call EXCEPT ![c] = k],
         CallOK(c, k, watch.shut), UNCHANGED <<rec, watch>>, reports' \in 0..MaxReports
  PROVE  RepInv'
<1>1. watch' = watch /\ rec' = rec /\ watch.shut \in Nat
  BY RepTypes
<1>2. /\ call' \in [Callers -> Request]
      /\ \A d \in Callers : CallOK(d, call'[d], watch'.shut)
  <2>1. watch'.shut = watch.shut
    BY <1>1
  <2>2. CallOK(c, k, watch'.shut) /\ watch'.shut \in Nat /\ watch'.shut <= watch.shut
    BY <1>1, <2>1
  <2> QED
    BY <2>2, CallsStep
<1>3. TypeOK'
  BY <1>1, <1>2 DEF RepInv, TypeOK, CallOK
<1>4. BanKept'
  BY <1>1 DEF RepInv, BanKept, Banned
<1> QED
  BY <1>1, <1>2, <1>3, <1>4 DEF RepInv

\* A request arrives, or is turned away.
LEMMA ArriveStep ==
  ASSUME RepInv, NEW c \in Callers, Arrive(c)
  PROVE  RepInv'
<1>1. CASE UNCHANGED vars
  <2>1. rec' = rec /\ call' = call /\ reports' = reports /\ watch' = watch
    BY <1>1 DEF vars
  <2> QED
    BY <2>1 DEF RepInv, TypeOK, BanKept, Banned
<1>2. CASE GetsIn(c)
  <2>1. PICK layer \in {"tenant", "endpoint"} :
          call' = [call EXCEPT ![c] = [Idle EXCEPT !.stage = layer, !.left = MaxDelay]]
    BY <1>2 DEF GetsIn
  <2> DEFINE k == [Idle EXCEPT !.stage = layer, !.left = MaxDelay]
  <2>2. rec' = rec /\ reports' = reports /\ watch' = [watch EXCEPT !.shut = 0]
    BY <1>2 DEF GetsIn
  <2>3. MaxDelay \in Nat /\ MaxRetries \in Nat /\ Longest \in Nat
    BY ReputationAssumption DEF Longest
  <2>4. Idle \in Request /\ Idle.report = "none"
    BY <2>3 DEF Idle, Request
  <2>5. k \in Request /\ k.report = "none" /\ k.left = MaxDelay
    <3> DEFINE idle == Idle
    <3>1. idle \in Request /\ idle.report = "none" /\ MaxDelay \in 0..MaxDelay
      BY <2>3, <2>4
    <3>2. k = [idle EXCEPT !.stage = layer, !.left = MaxDelay]
      OBVIOUS
    <3> HIDE DEF idle, k
    <3> QED
      BY <3>1, <3>2 DEF Request
  <2> HIDE DEF k
  <2>6. 0 \in 0..(Longest + MaxDelay + 1)
    BY <2>3
  <2>7. /\ watch' \in Watch /\ watch'.shut = 0 /\ watch'.written = watch.written
        /\ watch'.before = watch.before
    BY <2>2, <2>6, RepTypes DEF Watch
  <2>8. watch'.violation = watch.violation
    BY <2>2, RepTypes DEF Watch
  <2>9. CallOK(c, k, watch'.shut)
    BY <2>3, <2>5, <2>7 DEF CallOK
  <2>10. watch'.shut \in Nat /\ watch'.shut <= watch.shut
    BY <2>3, <2>7, RepTypes
  <2>11. call' = [call EXCEPT ![c] = k]
    BY <2>1 DEF k
  <2>12. /\ call' \in [Callers -> Request]
         /\ \A d \in Callers : CallOK(d, call'[d], watch'.shut)
    BY <2>9, <2>10, <2>11, CallsStep
  <2>13. TypeOK'
    BY <2>2, <2>7, <2>12 DEF RepInv, TypeOK, CallOK, Watch
  <2>14. BanKept'
    BY <2>2, <2>3, <2>7, RepTypes DEF RepInv, BanKept, Banned
  <2>15. rec' # NoKey => Earned(rec', watch'.before) /\ Traced(rec', watch'.violation)
    BY <2>2, <2>7, <2>8 DEF RepInv
  <2> QED
    BY <2>12, <2>13, <2>14, <2>15 DEF RepInv
<1> QED
  BY <1>1, <1>2 DEF Arrive

\* A layer lets a request through without a report, or a report is lost.
LEMMA LetThroughStep ==
  ASSUME RepInv, NEW c \in Callers, FailOpen(c) \/ Lose(c)
  PROVE  RepInv'
<1>1. call' = [call EXCEPT ![c] = PassedOn(c)] /\ UNCHANGED <<rec, watch>>
      /\ reports' = reports
  BY DEF FailOpen, Lose
<1>2. reports' \in 0..MaxReports
  BY <1>1, RepTypes
<1> QED
  BY <1>1, <1>2, PassedOnOK, QuietStep

\* A layer reports its verdict with a fresh stamp.
LEMMA ReportStep ==
  ASSUME RepInv, NEW c \in Callers, Report(c)
  PROVE  RepInv'
<1>1. PICK verdict \in {"good", "violation"} :
        call' = [call EXCEPT ![c].report = verdict, ![c].stamp = Offset[c]]
  BY DEF Report
<1> DEFINE q == call[c]
           k == [q EXCEPT !.report = verdict, !.stamp = Offset[c]]
<1>2. /\ q.stage # "idle" /\ UNCHANGED <<rec, watch>>
      /\ reports < MaxReports /\ reports' = reports + 1
  BY DEF Report
<1>3. CallOK(c, q, watch.shut) /\ q \in Request
  BY DEF RepInv, CallOK
<1>4. q.left \in 0..MaxDelay /\ MaxDelay \in Nat /\ Offset[c] \in Int
  BY <1>3, ReputationAssumption DEF Request
<1>5. call' = [call EXCEPT ![c] = k]
  BY <1>1, RepTypes DEF Request
<1> HIDE DEF q
<1>6. k \in Request /\ k.stage = q.stage /\ k.left = q.left /\ k.stamp = Offset[c]
  BY <1>3, <1>4 DEF Request
<1> HIDE DEF k
<1>7. CallOK(c, k, watch.shut)
  BY <1>2, <1>3, <1>4, <1>6 DEF CallOK
<1>8. reports' \in 0..MaxReports
  BY <1>2, RepTypes, ReputationAssumption
<1> QED
  BY <1>2, <1>5, <1>7, <1>8, QuietStep

\* A report runs, once or not for the last time.
LEMMA UpdateStep ==
  ASSUME RepInv, NEW c \in Callers, UpdateReputation(c)
  PROVE  RepInv'
<1>1. /\ call[c].report # "none" /\ Script(c) /\ reports' = reports
      /\ \/ call' = [call EXCEPT ![c] = PassedOn(c)]
         \/ call[c].tries < MaxRetries /\ call' = [call EXCEPT ![c].tries = @ + 1]
  BY DEF UpdateReputation
<1>2. /\ rec' \in Stored /\ rec' # NoKey /\ rec'.ttl \in 1..Longest
      /\ Earned(rec', watch'.before) /\ Traced(rec', watch'.violation)
      /\ BanKept' /\ watch' \in Watch /\ watch'.shut = watch.shut
  BY <1>1, ScriptStep
<1>3. watch'.shut \in Nat /\ watch'.shut <= watch.shut
  BY <1>2, RepTypes
<1>4. /\ call' \in [Callers -> Request]
      /\ \A d \in Callers : CallOK(d, call'[d], watch'.shut)
  <2>1. CASE call' = [call EXCEPT ![c] = PassedOn(c)]
    <3>1. CallOK(c, PassedOn(c), watch'.shut)
      BY <1>2, PassedOnOK
    <3> QED
      BY <1>3, <2>1, <3>1, CallsStep
  <2>2. CASE call[c].tries < MaxRetries /\ call' = [call EXCEPT ![c].tries = @ + 1]
    <3> DEFINE q == call[c]
               k == [q EXCEPT !.tries = @ + 1]
    <3>1. call' = [call EXCEPT ![c] = k] /\ q.tries < MaxRetries
      BY <2>2
    <3>2. CallOK(c, q, watch'.shut) /\ q \in Request
      BY <1>2 DEF RepInv, CallOK
    <3> HIDE DEF q
    <3>3. q.tries + 1 \in 0..MaxRetries
      BY <3>1, <3>2, ReputationAssumption DEF Request
    <3>4. /\ k \in Request /\ k.stage = q.stage /\ k.report = q.report
          /\ k.left = q.left /\ k.stamp = q.stamp
      BY <3>2, <3>3 DEF Request
    <3> HIDE DEF k
    <3>5. CallOK(c, k, watch'.shut)
      BY <3>2, <3>4 DEF CallOK
    <3> QED
      BY <1>3, <3>1, <3>5, CallsStep
  <2> QED
    BY <1>1, <2>1, <2>2
<1>5. TypeOK'
  BY <1>1, <1>2, <1>4 DEF RepInv, TypeOK, CallOK, Watch
<1> QED
  BY <1>2, <1>4, <1>5 DEF RepInv

-----------------------------------------------------------------------------
(* Time *)

\* An instant stays an instant as it recedes.
LEMMA RecedeType ==
  ASSUME NEW i \in Int \cup {Never}, NEW h \in Nat
  PROVE  /\ Recede(i, h) \in Int \cup {Never}
         /\ Recede(i, h) = Never <=> i = Never
         /\ i # Never => Recede(i, h) = IF i - 1 < 0 - h THEN 0 - h ELSE i - 1
<1>1. Never \notin Int
  BY ReputationAssumption
<1>2. CASE i = Never
  BY <1>1, <1>2 DEF Recede
<1>3. CASE i # Never
  <2>1. i \in Int /\ -h = 0 - h /\ 0 - h \in Int
    BY <1>3
  <2>2. Recede(i, h) = IF i - 1 < 0 - h THEN 0 - h ELSE i - 1
    BY <1>3, <2>1 DEF Recede, Greatest
  <2>3. Recede(i, h) \in Int
    BY <2>1, <2>2
  <2> QED
    BY <1>1, <1>3, <2>2, <2>3
<1> QED
  BY <1>2, <1>3

\* Time passes: the record ages with what is known of it.
LEMMA LaterOK ==
  ASSUME RepInv, rec # NoKey, rec.ttl # 1
  PROVE  /\ Later(rec) \in Stored /\ Later(rec).ttl = rec.ttl - 1
         /\ Later(rec).ttl \in 1..Longest /\ Later(rec).score = rec.score
         /\ Earned(Later(rec), watch.before)
         /\ Traced(Later(rec), Recede(watch.violation, ViolationHorizon))
<1> DEFINE lv == Recede(rec.last_violation, ViolationHorizon)
           la == Recede(rec.last_activity, ActivityHorizon)
           run == Recede(watch.violation, ViolationHorizon)
           n == [rec EXCEPT !.ttl = @ - 1, !.last_violation = lv, !.last_activity = la]
<1>1. /\ rec \in Stored /\ rec.ttl \in 1..Longest /\ Longest \in Nat
      /\ Earned(rec, watch.before) /\ Traced(rec, watch.violation)
      /\ watch.violation \in Int \cup {Never}
  BY RepTypes, ReputationAssumption DEF RepInv, Longest
<1>2. /\ rec.last_violation \in Int \cup {Never} /\ rec.last_activity \in Int
      /\ rec.violation_count \in Nat
  BY <1>1 DEF Stored
<1>3. ViolationHorizon \in Nat /\ ActivityHorizon \in Nat /\ Skew \in Nat /\ Never \notin Int
  BY ReputationAssumption DEF ViolationHorizon, ActivityHorizon
<1>4. /\ lv \in Int \cup {Never} /\ (lv = Never <=> rec.last_violation = Never)
      /\ rec.last_violation # Never =>
           lv = IF rec.last_violation - 1 < 0 - ViolationHorizon THEN 0 - ViolationHorizon
                ELSE rec.last_violation - 1
  BY <1>2, <1>3, RecedeType
<1>5. la \in Int
  BY <1>2, <1>3, RecedeType
<1>6. /\ run \in Int \cup {Never} /\ (run = Never <=> watch.violation = Never)
      /\ watch.violation # Never =>
           run = IF watch.violation - 1 < 0 - ViolationHorizon THEN 0 - ViolationHorizon
                 ELSE watch.violation - 1
  BY <1>1, <1>3, RecedeType
<1>7. n = Later(rec)
  BY DEF Later
<1> HIDE DEF lv, la, run
<1>8. rec.ttl - 1 \in 1..Longest /\ rec.ttl - 1 \in Nat
  BY <1>1
<1>9. n \in Stored
  <2> DEFINE near == [rec EXCEPT !.ttl = @ - 1]
  <2>1. near \in Stored
    BY <1>1, <1>8 DEF Stored
  <2>2. n = [near EXCEPT !.last_violation = lv, !.last_activity = la]
    OBVIOUS
  <2> HIDE DEF near, n
  <2> QED
    BY <1>4, <1>5, <2>1, <2>2 DEF Stored
<1>10. /\ n.ttl = rec.ttl - 1 /\ n.score = rec.score
       /\ n.violation_count = rec.violation_count /\ n.good_requests = rec.good_requests
  BY <1>1 DEF Stored
<1>11. n.last_violation = lv
  BY <1>1 DEF Stored
<1> HIDE DEF n
<1>12. Earned(n, watch.before)
  BY <1>1, <1>4, <1>10, <1>11 DEF Earned
<1>13. Traced(n, run)
  <2> SUFFICES ASSUME lv # Never
               PROVE  run # Never
                      /\ (lv <= run + Skew \/ lv <= 0 - ViolationHorizon)
    BY <1>11 DEF Traced
  <2>1. rec.last_violation # Never /\ rec.last_violation \in Int
    BY <1>2, <1>4
  <2>2. /\ watch.violation # Never /\ watch.violation \in Int
        /\ \/ rec.last_violation <= watch.violation + Skew
           \/ rec.last_violation <= 0 - ViolationHorizon
    BY <1>1, <2>1 DEF Traced
  <2> QED
    BY <1>3, <1>4, <1>6, <2>1, <2>2
<1> QED
  BY <1>7, <1>8, <1>9, <1>10, <1>12, <1>13 DEF run

\* One unit of time.
LEMMA TickStep ==
  ASSUME RepInv, Tick
  PROVE  RepInv'
<1> DEFINE run == Recede(watch.violation, ViolationHorizon)
           written == Least(watch.written + 1, Hour)
           shut == IF Banned' THEN Least(watch.shut + 1, Longest + MaxDelay + 1) ELSE 0
<1>1. rec' = IF rec = NoKey \/ rec.ttl = 1 THEN NoKey ELSE Later(rec)
  BY DEF Tick
<1>2. watch' = [watch EXCEPT !.written = written, !.violation = run, !.shut = shut]
  BY DEF Tick
<1>3. /\ Hour \in Nat /\ Longest \in Nat /\ MaxDelay \in Nat /\ ViolationHorizon \in Nat
      /\ MaxRetries \in Nat
  BY ReputationAssumption DEF Longest, ViolationHorizon
<1>4. run \in Int \cup {Never}
  BY <1>3, RepTypes, RecedeType
<1>5. /\ written \in 0..Hour /\ (written = Hour \/ written = watch.written + 1)
  BY <1>3, RepTypes DEF Least
<1>6. shut \in 0..(Longest + MaxDelay + 1) /\ shut <= watch.shut + 1
  <2>1. Least(watch.shut + 1, Longest + MaxDelay + 1) \in 0..(Longest + MaxDelay + 1)
        /\ Least(watch.shut + 1, Longest + MaxDelay + 1) <= watch.shut + 1
    BY <1>3, RepTypes DEF Least
  <2> QED
    BY <1>3, <2>1, RepTypes
<1> HIDE DEF run, written, shut
<1>7. watch' \in Watch /\ watch'.written = written /\ watch'.shut = shut
      /\ watch'.before = watch.before
  <2> DEFINE near == [watch EXCEPT !.written = written]
  <2>1. near \in Watch
    BY <1>5, RepTypes DEF Watch
  <2>2. watch' = [near EXCEPT !.violation = run, !.shut = shut]
    BY <1>2
  <2>3. near.written = written /\ near.before = watch.before
    BY RepTypes DEF Watch
  <2> HIDE DEF near
  <2>4. watch' \in Watch
    BY <1>4, <1>6, <2>1, <2>2 DEF Watch
  <2>5. watch'.written = near.written /\ watch'.shut = shut /\ watch'.before = near.before
    BY <2>1, <2>2 DEF Watch
  <2> QED
    BY <2>3, <2>4, <2>5
<1>8. watch'.violation = run
  BY <1>2, RepTypes DEF Watch
<1>9. ASSUME NEW c \in Callers
      PROVE  CallOK(c, call'[c], watch'.shut)
  <2> DEFINE q == call[c]
             stamp == IF q.report = "none" THEN 0 ELSE q.stamp - 1
             k == [q EXCEPT !.left = @ - 1, !.stamp = stamp]
  <2>1. CASE q.stage = "idle"
    <3>1. call'[c] = Idle
      BY <2>1 DEF Tick
    <3> QED
      BY <3>1, IdleOK
  <2>2. CASE q.stage # "idle"
    <3>1. call'[c] = k /\ q.left > 0
      BY <2>2 DEF Tick
    <3>2. CallOK(c, q, watch.shut) /\ q \in Request
      BY DEF RepInv, CallOK
    <3>3. q.left \in 0..MaxDelay /\ q.stamp \in Int /\ Offset[c] \in Int
      BY <3>2, ReputationAssumption DEF Request
    <3> HIDE DEF q
    <3>4. q.left - 1 \in 0..MaxDelay /\ stamp \in Int
      BY <1>3, <3>1, <3>3
    <3> HIDE DEF stamp
    <3>5. /\ k \in Request /\ k.stage = q.stage /\ k.report = q.report
          /\ k.left = q.left - 1 /\ k.stamp = stamp
      BY <3>2, <3>4 DEF Request
    <3> HIDE DEF k
    <3>6. q.report # "none" => stamp = q.stamp - 1
      BY DEF stamp
    <3>7. watch.shut \in Nat /\ shut \in Nat
      BY <1>3, <1>6, RepTypes
    <3>8. CallOK(c, k, shut)
      BY <1>3, <1>6, <3>2, <3>3, <3>5, <3>6, <3>7 DEF CallOK
    <3> QED
      BY <1>7, <3>1, <3>8
  <2> QED
    BY <2>1, <2>2
<1>10. call' \in [Callers -> Request]
  <2>1. \A c \in Callers : call'[c] \in Request
    BY <1>9 DEF CallOK
  <2>2. call' = [c \in Callers |-> call'[c]]
    BY DEF Tick
  <2> QED
    BY <2>1, <2>2
<1>11. rec' # NoKey =>
         /\ rec # NoKey /\ rec' \in Stored /\ rec'.ttl = rec.ttl - 1 /\ rec'.ttl \in 1..Longest
         /\ rec'.score = rec.score
         /\ Earned(rec', watch.before) /\ Traced(rec', run)
  BY <1>1, LaterOK DEF run
<1>12. BanKept'
  <2> SUFFICES ASSUME Banned'
               PROVE  /\ rec'.ttl + watch'.written >= Hour
                      /\ rec'.ttl + watch'.shut <= Longest + MaxDelay
    BY DEF BanKept
  <2>1. rec' # NoKey /\ rec'.score <= Threshold
    BY DEF Banned, Threshold
  <2>2. Banned /\ rec \in Stored /\ rec.ttl \in 1..Longest
    BY <1>11, <2>1, RepTypes DEF Banned
  <2>3. rec.ttl + watch.written >= Hour /\ rec.ttl + watch.shut <= Longest + MaxDelay
    BY <2>2 DEF RepInv, BanKept
  <2>4. rec'.ttl = rec.ttl - 1 /\ rec'.ttl \in Nat /\ rec.ttl \in Nat
        /\ watch.written \in Nat /\ watch.shut \in Nat /\ written \in Nat /\ shut \in Nat
    BY <1>3, <1>5, <1>6, <1>11, <2>1, <2>2, RepTypes
  <2> QED
    BY <1>3, <1>5, <1>6, <1>7, <2>3, <2>4
<1>13. TypeOK'
  <2>1. reports' = reports
    BY DEF Tick
  <2>2. rec' \in Stored \cup {NoKey}
    BY <1>11
  <2> QED
    BY <1>7, <1>9, <1>10, <1>11, <2>1, <2>2, RepTypes DEF TypeOK, CallOK, Watch
<1> QED
  BY <1>7, <1>8, <1>9, <1>11, <1>12, <1>13 DEF RepInv

-----------------------------------------------------------------------------
(* The theorems *)

\* A tenant starts without a record, or with good requests alone on it.
THEOREM RepInvInit == Init => RepInv
<1> SUFFICES ASSUME Init
             PROVE  RepInv
  OBVIOUS
<1> DEFINE blank == [written |-> 0, violation |-> Never, before |-> 0, shut |-> 0]
<1>1. /\ call = [c \in Callers |-> Idle] /\ reports = 0 /\ watch = blank
  BY DEF Init
<1>2. /\ Hour \in Nat /\ Hour >= 2 /\ Hour % 2 = 0 /\ MaxDelay \in Nat /\ MaxReports \in Nat
      /\ Never \notin Int /\ NoKey \notin Stored /\ Longest \in Nat /\ Goods \subseteq Nat
  BY ReputationAssumption DEF Longest
<1>3. blank \in Watch
  BY <1>2 DEF Watch
<1>4. \A c \in Callers : CallOK(c, call[c], watch.shut)
  BY <1>1, IdleOK
<1>5. call \in [Callers -> Request]
  BY <1>1, <1>4 DEF CallOK
<1>6. rec # NoKey =>
        /\ rec \in Stored /\ rec.ttl \in 1..Longest /\ rec.score = Full
        /\ Earned(rec, watch.before) /\ Traced(rec, watch.violation)
  <2> SUFFICES ASSUME rec # NoKey
               PROVE  /\ rec \in Stored /\ rec.ttl \in 1..Longest /\ rec.score = Full
                      /\ Earned(rec, watch.before) /\ Traced(rec, watch.violation)
    OBVIOUS
  <2>1. PICK g \in Goods :
          rec = [score |-> Full, violation_count |-> 0, good_requests |-> g,
                 last_violation |-> Never, last_activity |-> 0, ttl |-> Hour \div 2]
    BY DEF Init
  <2>2. Hour \div 2 \in 1..Longest /\ Hour \div 2 \in Nat
    BY <1>2 DEF Longest
  <2> DEFINE half == Hour \div 2
  <2>3. half \in 1..Longest /\ half \in Nat /\ g \in Nat /\ Full \in 0..Full
    BY <1>2, <2>2, Parts
  <2>4. rec = [score |-> Full, violation_count |-> 0, good_requests |-> g,
               last_violation |-> Never, last_activity |-> 0, ttl |-> half]
    BY <2>1
  <2> HIDE DEF half
  <2>5. rec \in Stored /\ rec.ttl \in 1..Longest /\ rec.score = Full
    BY <2>3, <2>4 DEF Stored
  <2>6. rec.violation_count = 0 /\ rec.last_violation = Never
    BY <2>4
  <2> QED
    BY <2>5, <2>6 DEF Earned, Traced
<1>7. TypeOK
  <2>1. rec \in Stored \cup {NoKey}
    BY <1>6
  <2>2. watch \in Watch /\ reports \in 0..MaxReports
    BY <1>1, <1>2, <1>3
  <2> QED
    BY <1>4, <1>5, <1>6, <2>1, <2>2 DEF TypeOK, CallOK, Watch
<1>8. ~Banned
  BY <1>6, Parts DEF Banned, Threshold
<1> QED
  BY <1>4, <1>6, <1>7, <1>8 DEF RepInv, BanKept

\* Reports, lost or repeated, late or early, time and restarts keep it.
THEOREM RepInvNext == RepInv /\ [Next]_vars => RepInv'
<1> SUFFICES ASSUME RepInv, [Next]_vars
             PROVE  RepInv'
  OBVIOUS
<1>1. ASSUME NEW c \in Callers, Arrive(c)
      PROVE  RepInv'
  BY <1>1, ArriveStep
<1>2. ASSUME NEW c \in Callers, FailOpen(c) \/ Lose(c)
      PROVE  RepInv'
  BY <1>2, LetThroughStep
<1>3. ASSUME NEW c \in Callers, Report(c)
      PROVE  RepInv'
  BY <1>3, ReportStep
<1>4. ASSUME NEW c \in Callers, UpdateReputation(c)
      PROVE  RepInv'
  BY <1>4, UpdateStep
<1>5. CASE Tick
  BY <1>5, TickStep
<1>6. CASE RedisRestart
  <2>1. rec' = NoKey /\ call' = call /\ reports' = reports /\ watch' = [watch EXCEPT !.shut = 0]
    BY <1>6 DEF RedisRestart
  <2>2. Longest \in Nat /\ MaxDelay \in Nat
    BY ReputationAssumption DEF Longest
  <2>3. watch' \in Watch /\ watch'.shut = 0
    BY <2>1, <2>2, RepTypes DEF Watch
  <2>4. \A c \in Callers : CallOK(c, call'[c], watch'.shut)
    <3>1. ASSUME NEW c \in Callers
          PROVE  CallOK(c, call[c], 0)
      <4>1. CallOK(c, call[c], watch.shut) /\ call[c] \in Request
        BY DEF RepInv, CallOK
      <4>2. call[c].left \in 0..MaxDelay
        BY <4>1 DEF Request
      <4> QED
        BY <2>2, <4>1, <4>2 DEF CallOK
    <3> QED
      BY <2>1, <2>3, <3>1
  <2>5. TypeOK'
    BY <2>1, <2>3 DEF RepInv, TypeOK, Watch
  <2> QED
    BY <2>1, <2>4, <2>5 DEF RepInv, BanKept, Banned
<1>7. CASE UNCHANGED vars
  <2>1. rec' = rec /\ call' = call /\ reports' = reports /\ watch' = watch
    BY <1>7 DEF vars
  <2> QED
    BY <2>1 DEF RepInv, TypeOK, BanKept, Banned
<1> QED
  BY <1>1, <1>2, <1>3, <1>4, <1>5, <1>6, <1>7 DEF Next

\* The invariant holds for as long as the tenant is served.
THEOREM RepInvariance == Spec => []RepInv
<1> QED
  BY RepInvInit, RepInvNext, PTL DEF Spec

\* A record and the requests that write it keep their types.
THEOREM TypeCorrect == Spec => []TypeOK
<1>1. RepInv => TypeOK
  BY DEF RepInv
<1> QED
  BY <1>1, RepInvariance, PTL

\* A score is what its record has counted: without a violation it is full, with
\* two the tenant is not banned, and violations are not bought back cheaply.
THEOREM ScoresAreEarned == Spec => []ScoreIsEarned
<1>1. RepInv => ScoreIsEarned
  <2> SUFFICES ASSUME RepInv
               PROVE  ScoreIsEarned
    OBVIOUS
  <2>1. CleanIsPerfect
    BY DEF RepInv, CleanIsPerfect, Earned
  <2>2. BanNeedsThree
    <3> SUFFICES ASSUME Banned
                 PROVE  rec.violation_count >= 3
      BY DEF BanNeedsThree
    <3>1. rec # NoKey /\ rec.score <= 600 * Part /\ rec \in Stored /\ Earned(rec, watch.before)
      BY RepTypes, Parts DEF RepInv, Banned, Threshold
    <3>2. rec.violation_count \in Nat /\ rec.score \in Int
      BY <3>1 DEF Stored
    <3>3. rec.violation_count # 0 /\ rec.violation_count # 1 /\ rec.violation_count # 2
      BY <3>1, <3>2, Parts DEF Earned
    <3> QED
      BY <3>2, <3>3
  <2>3. NotBoughtBack
    BY DEF RepInv, NotBoughtBack, Earned
  <2> QED
    BY <2>1, <2>2, <2>3 DEF ScoreIsEarned
<1> QED
  BY <1>1, RepInvariance, PTL

\* Rapid fire is never found between violations that were run further apart
\* than late stamps and clocks that disagree account for.
THEOREM RapidFireIsNear == Spec => []RapidWithin
<1>1. RepInv => RapidWithin
  <2> SUFFICES ASSUME RepInv, NEW c \in Callers, rec # NoKey,
                      call[c].report = "violation", IsRapid(rec, call[c].stamp)
               PROVE  /\ watch.violation # Never
                      /\ 0 - watch.violation < Rapid + MaxDelay + 2 * Skew
    BY DEF RapidWithin
  <2> DEFINE q == call[c]
  <2>1. CallOK(c, q, watch.shut) /\ q \in Request /\ q.report # "none"
    BY DEF RepInv, CallOK
  <2>2. q.left \in 0..MaxDelay /\ q.stamp \in Int
    BY <2>1 DEF Request
  <2>3. /\ Offset[c] \in Int /\ 0 - Skew <= Offset[c] /\ Skew \in Nat /\ MaxDelay \in Nat
        /\ Rapid \in Nat /\ 0 < Rapid
    BY ReputationAssumption
  <2>4. Offset[c] - (MaxDelay - q.left) <= q.stamp
    BY <2>1 DEF CallOK
  <2>5. rec.last_violation # Never /\ q.stamp - rec.last_violation < Rapid
    BY DEF IsRapid
  <2>6. rec.last_violation \in Int
    BY <2>5, RepTypes DEF Stored
  <2>7. /\ watch.violation # Never
        /\ \/ rec.last_violation <= watch.violation + Skew
           \/ rec.last_violation <= 0 - ViolationHorizon
    BY <2>5 DEF RepInv, Traced
  <2>8. watch.violation \in Int
    BY <2>7, RepTypes
  <2> HIDE DEF q
  <2> QED
    BY <2>2, <2>3, <2>4, <2>5, <2>6, <2>7, <2>8 DEF ViolationHorizon
<1> QED
  BY <1>1, RepInvariance, PTL

\* A ban does not outlast the longest lifetime of a record once no request of
\* the tenant gets in.
THEOREM BansAreFinite == Spec => []BanIsFinite
<1>1. RepInv => BanIsFinite
  <2> SUFFICES ASSUME RepInv, Banned
               PROVE  watch.shut <= Longest + MaxDelay
    BY DEF BanIsFinite
  <2>1. rec.ttl + watch.shut <= Longest + MaxDelay
    BY DEF RepInv, BanKept
  <2>2. rec.ttl \in 1..Longest /\ Longest \in Nat /\ watch.shut \in Nat /\ MaxDelay \in Nat
    BY RepTypes, ReputationAssumption DEF Banned, Longest
  <2> QED
    BY <2>1, <2>2
<1> QED
  BY <1>1, RepInvariance, PTL

\* A ban ends by a good request or because Redis forgets the tenant, no sooner
\* than an hour after its last report.
THEOREM PardonsAreEarned == Spec => PardonIsEarned
<1>1. RepInv /\ [Next]_vars => [Banned /\ ~Banned' => BanEndsInOneOfTwoWays]_vars
  <2> SUFFICES ASSUME RepInv, Next, Banned, ~Banned'
               PROVE  BanEndsInOneOfTwoWays
    OBVIOUS
  <2>1. rec # NoKey /\ rec.score <= Threshold /\ rec \in Stored /\ rec.ttl \in 1..Longest
    BY RepTypes DEF Banned
  <2>2. rec' # rec
    BY DEF Banned, Threshold
  <2>3. ASSUME NEW c \in Callers,
               Arrive(c) \/ FailOpen(c) \/ Report(c) \/ Lose(c)
        PROVE  FALSE
    BY <2>2, <2>3 DEF Arrive, GetsIn, FailOpen, Report, Lose, vars
  <2>4. ASSUME NEW c \in Callers, UpdateReputation(c)
        PROVE  BanEndsInOneOfTwoWays
    <3>1. CASE call[c].report = "good"
      BY <2>4, <3>1 DEF BanEndsInOneOfTwoWays
    <3>2. CASE call[c].report # "good"
      <4>1. call[c] \in Request /\ call[c].report # "none" /\ Script(c)
        BY <2>4, RepTypes DEF UpdateReputation
      <4>2. call[c].report = "violation"
        BY <3>2, <4>1 DEF Request
      <4>3. rec' # NoKey /\ rec'.score <= rec.score /\ rec' \in Stored
        BY <2>1, <4>1, <4>2, ScriptStep
      <4>4. rec'.score \in Int /\ rec.score \in Int /\ Threshold \in Int
        BY <2>1, <4>3, Parts DEF Stored, Threshold
      <4>5. rec'.score <= Threshold
        BY <2>1, <4>3, <4>4
      <4> QED
        BY <4>3, <4>5 DEF Banned, Threshold
    <3> QED
      BY <3>1, <3>2
  <2>5. CASE Tick
    <3>1. rec' = NoKey /\ rec.ttl = 1
      <4>1. rec' = IF rec = NoKey \/ rec.ttl = 1 THEN NoKey ELSE Later(rec)
        BY <2>5 DEF Tick
      <4>2. ASSUME rec.ttl # 1
            PROVE  FALSE
        <5>1. rec' = Later(rec) /\ rec' # NoKey /\ rec'.score = rec.score
          BY <2>1, <4>1, <4>2, LaterOK, ReputationAssumption
        <5> QED
          BY <2>1, <5>1 DEF Banned, Threshold
      <4> QED
        BY <4>1, <4>2
    <3>2. rec.ttl + watch.written >= Hour
      BY DEF RepInv, BanKept
    <3>3. watch.written \in Int /\ Hour \in Int
      BY RepTypes, ReputationAssumption
    <3> QED
      BY <3>1, <3>2, <3>3 DEF BanEndsInOneOfTwoWays
  <2>6. CASE RedisRestart
    BY <2>6 DEF BanEndsInOneOfTwoWays
  <2> QED
    BY <2>3, <2>4, <2>5, <2>6 DEF Next
<1> QED
  BY <1>1, RepInvariance, PTL DEF Spec, PardonIsEarned
=============================================================================
