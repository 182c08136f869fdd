---------------------------- MODULE TokenBucket -----------------------------
(***************************************************************************)
(* The token-bucket limiter: tokenBucketScript and TokenBucketLimiter of   *)
(* internal/limiter/token_bucket.go on one Redis key.  The key carries the *)
(* hash of the configuration that wrote it, the tokens left, the instant   *)
(* of the last refill and a lifetime.  The hash stands for the             *)
(* configuration itself (SHA-256 of its JSON).                             *)
(***************************************************************************)
EXTENDS ScriptCalls

CONSTANTS
  NoKey,     \* value of a key that is not stored
  NoWatch    \* no grant is being watched

\* What the validator accepts: positive capacity, rate and period.
TokenConfig == [capacity : Positive, refillRate : Positive, refillPeriod : Positive]

Bucket == [hash : Configs, tokens : Nat, last_refill : Int, expireAt : Int]
Watch  == [conf : Configs, start : Int, charged : Nat]

ASSUME TokenAssumption ==
  /\ Configs \subseteq TokenConfig
  /\ NoKey \notin Bucket
  /\ NoWatch \notin Watch

VARIABLES
  key,       \* the Redis hash, or NoKey
  verdict,   \* Allowed of the most recent answer
  watch      \* history: grants under one configuration since some grant

vars == <<callVars, key, verdict, watch>>

TypeOK ==
  /\ CallsTypeOK
  /\ key \in Bucket \cup {NoKey}
  /\ verdict \in BOOLEAN
  /\ watch \in Watch \cup {NoWatch}

Init ==
  /\ CallsInit
  /\ key = NoKey
  /\ verdict = FALSE
  /\ watch = NoWatch

-----------------------------------------------------------------------------
(* The script *)

\* Mutant of Ttl: no buffer after the full refill.
TtlBare(k) == Sec * CeilDiv(k.capacity * k.refillPeriod, k.refillRate * Sec)

\* EXPIRE: the time a full refill takes, rounded up to seconds, plus a buffer.
Ttl(k) == Sec * (CeilDiv(k.capacity * k.refillPeriod, k.refillRate * Sec) + Buffer)

AtMost(n, limit) == IF n < limit THEN n ELSE limit

\* Mutant of Fresh: the stored hash is not compared.
FreshAnyHash(k) == key = NoKey

\* A missing bucket, or one written under another configuration, is full.
Fresh(k) == key = NoKey \/ key.hash # k

\* Whole periods since the last refill; none, or fewer, for a late stamp.
Periods(k, now) == (now - key.last_refill) \div k.refillPeriod

\* Mutant of Tokens: the refill is not capped at the capacity.
TokensUncapped(k, now) ==
  IF Fresh(k) THEN k.capacity
  ELSE IF Periods(k, now) > 0
       THEN key.tokens + Periods(k, now) * k.refillRate
       ELSE key.tokens

Tokens(k, now) ==
  IF Fresh(k) THEN k.capacity
  ELSE IF Periods(k, now) > 0
       THEN AtMost(key.tokens + Periods(k, now) * k.refillRate, k.capacity)
       ELSE key.tokens

\* Mutant of LastRefill: every call restarts the period.
LastRefillNow(k, now) == now

LastRefill(k, now) ==
  IF Fresh(k) THEN now
  ELSE IF Periods(k, now) > 0
       THEN key.last_refill + Periods(k, now) * k.refillPeriod
       ELSE key.last_refill

\* Mutant of Admits: the last token is lent out twice.
AdmitsAtZero(k, now) == Tokens(k, now) >= 0

Admits(k, now) == Tokens(k, now) >= 1

\* Mutant of RetryAfter: a whole period, wherever in the period the call is.
RetryAfterPeriod(k, now) == k.refillPeriod

\* The answer of a refusal: milliseconds until the next refill.
RetryAfter(k, now) ==
  LET wait == LastRefill(k, now) + k.refillPeriod - now
  IN  IF wait > 0 THEN wait ELSE 0

Stored(k, now, tokens) ==
  [hash |-> k, tokens |-> tokens, last_refill |-> LastRefill(k, now),
   expireAt |-> clock + Ttl(k)]

\* History only: a grant extends the watched run of grants if it comes from
\* the same configuration, or becomes the first of a new one.
Watched(k, now) ==
  \/ /\ watch # NoWatch
     /\ watch.conf = k
     /\ watch' = [watch EXCEPT !.charged = @ + 1]
  \/ watch' = [conf |-> k, start |-> LastRefill(k, now), charged |-> 1]

Grant(c) ==
  /\ call[c].pending
  /\ Admits(conf[c], Stamp(c))
  /\ key' = Stored(conf[c], Stamp(c), Tokens(conf[c], Stamp(c)) - 1)
  /\ verdict' = TRUE
  /\ Watched(conf[c], Stamp(c))
  /\ Replied(c)

Refuse(c) ==
  /\ call[c].pending
  /\ ~Admits(conf[c], Stamp(c))
  /\ key' = Stored(conf[c], Stamp(c), Tokens(conf[c], Stamp(c)))
  /\ verdict' = FALSE
  /\ Replied(c)
  /\ UNCHANGED watch

-----------------------------------------------------------------------------
(* Around the script *)

Send(c)    == Begin(c) /\ UNCHANGED <<key, verdict, watch>>
Drop(c)    == Lose(c) /\ UNCHANGED <<key, verdict, watch>>
Restart(c) == Redeploy(c) /\ UNCHANGED <<key, verdict, watch>>

\* Redis removes a key once its clock has passed the time EXPIRE set.
Tick ==
  /\ TimePasses
  /\ key' = IF key # NoKey /\ clock' > key.expireAt THEN NoKey ELSE key
  /\ UNCHANGED <<verdict, watch>>

\* Redis restarts without the key: what was granted before is forgotten.
RedisRestart ==
  /\ key # NoKey
  /\ key' = NoKey
  /\ watch' = NoWatch
  /\ UNCHANGED <<callVars, verdict>>

Next ==
  \/ \E c \in Callers : Send(c) \/ Grant(c) \/ Refuse(c) \/ Drop(c) \/ Restart(c)
  \/ Tick
  \/ RedisRestart

Spec == Init /\ [][Next]_vars

-----------------------------------------------------------------------------
(* Properties *)

\* The last write set the lifetime and refilled no further than a stamp of
\* that moment can reach; the run of grants is of the configuration in the key.
KeyInTime ==
  key # NoKey =>
    /\ key.tokens <= key.hash.capacity
    /\ key.expireAt - Ttl(key.hash) <= clock
    /\ key.last_refill <= key.expireAt - Ttl(key.hash) + Skew
    /\ watch # NoWatch /\ watch.conf = key.hash

\* Grants made and tokens still to grant are paid for by one full bucket and
\* the refills up to the last one.
LiveRate ==
  key # NoKey =>
    LET k == key.hash
    IN  (watch.charged + key.tokens) * k.refillPeriod
          <= k.capacity * k.refillPeriod
             + k.refillRate * (key.last_refill - watch.start)

\* Once the key has expired the grants are paid for by refills alone, so that
\* the next bucket may start full.
ExpiredRate ==
  key = NoKey /\ watch # NoWatch =>
    LET k == watch.conf
    IN  watch.charged * k.refillPeriod
          <= k.refillRate * (clock - MaxDelay - Skew - watch.start)

\* Why RateBound holds: the inductive invariant of the proof.
RateInv == TypeOK /\ StampsInTime /\ KeyInTime /\ LiveRate /\ ExpiredRate

\* However grants, late stamps, resent scripts and expiries of the key
\* interleave: counted from any grant, one configuration never grants more
\* than its capacity plus refillRate for every refillPeriod since the refill
\* that this grant drew on.
RateBound ==
  watch # NoWatch =>
    LET k == watch.conf
    IN  watch.charged * k.refillPeriod
          <= k.capacity * k.refillPeriod
             + k.refillRate * (clock + Skew - watch.start)

\* What becomes of a call that c's host stamps t and Redis runs late units
\* afterwards, if nobody else calls once c is refused: the refusal renewed the
\* lifetime, and when Redis' clock has passed it the call finds a full bucket.
Forgotten(c, t, late)    == t - Offset[c] + late > clock + Ttl(conf[c])
RetryGranted(c, t, late) == Forgotten(c, t, late) \/ Admits(conf[c], t)

\* What retry_after is worth to a refused call, if nobody else comes: the same
\* host asking again after that wait is granted, whether its key is still there
\* or not.  A call before that is granted only when the key has expired in the
\* meantime, and never where the rate is at most the capacity: there the key
\* outlives the wait, whatever the delay and the skew.
RetryExact ==
  \A c \in Callers :
    LET k == conf[c]
        later == Stamp(c) + RetryAfter(k, Stamp(c))
    IN  call[c].pending /\ ~Admits(k, Stamp(c)) =>
          /\ Admits(k, later)
          /\ \A t \in Stamp(c)..(later - 1), late \in 0..MaxDelay :
               /\ RetryGranted(c, t, late) => Forgotten(c, t, late)
               /\ k.refillRate <= k.capacity => ~RetryGranted(c, t, late)

\* Expiry gives nothing away: when Redis drops the key by its lifetime, the
\* time since its last refill has earned every missing token at the configured
\* rate, even for the earliest stamp that may still arrive.  (Not always in
\* whole periods: capacity 3 at 2 tokens a period is full after 2 periods, and
\* the lifetime is 1.5 periods and the buffer.)
ExpiryIsEarned ==
  [][key # NoKey /\ key' = NoKey /\ clock' # clock =>
       LET k == key.hash
           earliest == clock' - MaxDelay - Skew
       IN  key.tokens * k.refillPeriod + k.refillRate * (earliest - key.last_refill)
             >= k.capacity * k.refillPeriod]_vars

\* While a configuration owns the key, refills happen on the grid its first
\* request set: a late stamp never takes a refill back, and neither a refusal
\* nor a grant between two refills moves the next one.
RefillsStayOnGrid ==
  [][key # NoKey /\ key' # NoKey /\ key'.hash = key.hash =>
       /\ key'.last_refill >= key.last_refill
       /\ (key'.last_refill - key.last_refill) % key.hash.refillPeriod = 0]_vars

\* The bucket is a quota of capacity units per configuration.
Contract == INSTANCE Quota WITH
  Owners  <- Configs,
  Limit   <- [k \in Configs |-> k.capacity],
  NoOwner <- NoKey,
  owner   <- IF key = NoKey THEN NoKey ELSE key.hash,
  spent   <- IF key = NoKey THEN 0 ELSE key.hash.capacity - key.tokens

\* Tokens are never below none or above the capacity, a grant takes exactly
\* one, and a refusal means that the caller's own configuration has none left.
IsQuota == Contract!Spec
=============================================================================
