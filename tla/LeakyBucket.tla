---------------------------- MODULE LeakyBucket -----------------------------
(***************************************************************************)
(* The leaky-bucket limiter: leakyBucketScript and LeakyBucketLimiter of   *)
(* internal/limiter/leaky_bucket.go on one Redis key.  The key carries the *)
(* hash of the configuration, the level of the bucket, the instant of the  *)
(* last leak and a lifetime.  Nothing is queued: a request that fits is    *)
(* let through at once, so that the bucket is a token bucket upside down,  *)
(* and this module is shown to implement TokenBucket.                      *)
(***************************************************************************)
EXTENDS ScriptCalls

CONSTANTS
  NoKey,     \* value of a key that is not stored
  NoWatch    \* no grant is being watched

LeakyConfig == [capacity : Positive, leakRate : Positive, leakPeriod : Positive]

Bucket == [hash : Configs, level : Nat, last_leak : Int, expireAt : Int]
Watch  == [conf : Configs, start : Int, charged : Nat]

ASSUME LeakyAssumption ==
  /\ Configs \subseteq LeakyConfig
  /\ NoKey \notin Bucket
  /\ NoWatch \notin Watch

VARIABLES
  key,       \* the Redis hash, or NoKey
  verdict,   \* Allowed of the most recent answer
  watch      \* history: grants under one configuration since some grant

vars == <<callVars, key, verdict, watch>>

TypeOK ==
  /\ CallsTypeOK
  /\ key \in Bucket \cup {NoKey}
  /\ verdict \in BOOLEAN
  /\ watch \in Watch \cup {NoWatch}

Init ==
  /\ CallsInit
  /\ key = NoKey
  /\ verdict = FALSE
  /\ watch = NoWatch

-----------------------------------------------------------------------------
(* The script *)

\* EXPIRE: the time a full bucket takes to drain, in seconds, plus a buffer.
Ttl(k) == Sec * (CeilDiv(k.capacity * k.leakPeriod, k.leakRate * Sec) + Buffer)

AtLeast(n, limit) == IF n > limit THEN n ELSE limit

\* A missing bucket, or one written under another configuration, is empty.
Fresh(k) == key = NoKey \/ key.hash # k

\* Whole periods since the last leak; none, or fewer, for a late stamp.
Periods(k, now) == (now - key.last_leak) \div k.leakPeriod

\* Mutant of Level: more leaks out than is in the bucket.
LevelBelowEmpty(k, now) ==
  IF Fresh(k) THEN 0
  ELSE IF Periods(k, now) > 0
       THEN key.level - Periods(k, now) * k.leakRate
       ELSE key.level

Level(k, now) ==
  IF Fresh(k) THEN 0
  ELSE IF Periods(k, now) > 0
       THEN AtLeast(key.level - Periods(k, now) * k.leakRate, 0)
       ELSE key.level

LastLeak(k, now) ==
  IF Fresh(k) THEN now
  ELSE IF Periods(k, now) > 0
       THEN key.last_leak + Periods(k, now) * k.leakPeriod
       ELSE key.last_leak

\* Mutant of HasRoom: one request more than the capacity.
HasRoomForOneMore(k, now) == Level(k, now) <= k.capacity

HasRoom(k, now) == Level(k, now) < k.capacity

\* Mutant of RetryAfter: the wait until the bucket is empty.
RetryWhenDrained(k, now) ==
  LastLeak(k, now) + CeilDiv(k.capacity, k.leakRate) * k.leakPeriod - now

\* The answer of a refusal: milliseconds until the next leak.
RetryAfter(k, now) ==
  LET wait == LastLeak(k, now) + k.leakPeriod - now
  IN  IF wait > 0 THEN wait ELSE 0

Stored(k, now, level) ==
  [hash |-> k, level |-> level, last_leak |-> LastLeak(k, now),
   expireAt |-> clock + Ttl(k)]

\* History only, as in TokenBucket.
Watched(k, now) ==
  \/ /\ watch # NoWatch
     /\ watch.conf = k
     /\ watch' = [watch EXCEPT !.charged = @ + 1]
  \/ watch' = [conf |-> k, start |-> LastLeak(k, now), charged |-> 1]

\* The branch for a changed configuration writes level 1 without the check;
\* a fresh bucket has room for one as the capacity is positive.
Grant(c) ==
  /\ call[c].pending
  /\ HasRoom(conf[c], Stamp(c))
  /\ key' = Stored(conf[c], Stamp(c), Level(conf[c], Stamp(c)) + 1)
  /\ verdict' = TRUE
  /\ Watched(conf[c], Stamp(c))
  /\ Replied(c)

Refuse(c) ==
  /\ call[c].pending
  /\ ~HasRoom(conf[c], Stamp(c))
  /\ key' = Stored(conf[c], Stamp(c), Level(conf[c], Stamp(c)))
  /\ verdict' = FALSE
  /\ Replied(c)
  /\ UNCHANGED watch

-----------------------------------------------------------------------------
(* Around the script *)

Send(c)    == Begin(c) /\ UNCHANGED <<key, verdict, watch>>
Drop(c)    == Lose(c) /\ UNCHANGED <<key, verdict, watch>>
Restart(c) == Redeploy(c) /\ UNCHANGED <<key, verdict, watch>>

\* Redis removes a key once its clock has passed the time EXPIRE set.
Tick ==
  /\ TimePasses
  /\ key' = IF key # NoKey /\ clock' > key.expireAt THEN NoKey ELSE key
  /\ UNCHANGED <<verdict, watch>>

\* Redis restarts without the key: what was granted before is forgotten.
RedisRestart ==
  /\ key # NoKey
  /\ key' = NoKey
  /\ watch' = NoWatch
  /\ UNCHANGED <<callVars, verdict>>

Next ==
  \/ \E c \in Callers : Send(c) \/ Grant(c) \/ Refuse(c) \/ Drop(c) \/ Restart(c)
  \/ Tick
  \/ RedisRestart

Spec == Init /\ [][Next]_vars

-----------------------------------------------------------------------------
(* Properties *)

\* Why RetryExact holds: what is stored never overflows the bucket, and the
\* last write renewed the lifetime and let nothing leak beyond a stamp of then.
LevelInv ==
  /\ TypeOK
  /\ StampsInTime
  /\ key # NoKey =>
       /\ key.level <= key.hash.capacity
       /\ key.last_leak <= clock + Skew

\* What becomes of a call that c's host stamps t and Redis runs late units
\* afterwards, if nobody else calls once c is refused: the refusal renewed the
\* lifetime, and when Redis' clock has passed it the call finds an empty bucket.
Forgotten(c, t, late)    == t - Offset[c] + late > clock + Ttl(conf[c])
RetryGranted(c, t, late) == Forgotten(c, t, late) \/ HasRoom(conf[c], t)

\* What retry_after is worth to a refused call, if nobody else comes: the same
\* host asking again after that wait is granted, whether its key is still there
\* or not.  A call before that is granted only when the key has expired in the
\* meantime, and never where the rate is at most the capacity: there the key
\* outlives the wait, whatever the delay and the skew.
RetryExact ==
  \A c \in Callers :
    LET k == conf[c]
        later == Stamp(c) + RetryAfter(k, Stamp(c))
    IN  call[c].pending /\ ~HasRoom(k, Stamp(c)) =>
          /\ HasRoom(k, later)
          /\ \A t \in Stamp(c)..(later - 1), late \in 0..MaxDelay :
               /\ RetryGranted(c, t, late) => Forgotten(c, t, late)
               /\ k.leakRate <= k.capacity => ~RetryGranted(c, t, late)

AsToken(k) ==
  [capacity |-> k.capacity, refillRate |-> k.leakRate, refillPeriod |-> k.leakPeriod]

Dual == INSTANCE TokenBucket WITH
  Configs <- {AsToken(k) : k \in Configs},
  conf    <- [c \in Callers |-> AsToken(conf[c])],
  key     <- IF key = NoKey THEN NoKey
             ELSE [hash |-> AsToken(key.hash),
                   tokens |-> key.hash.capacity - key.level,
                   last_refill |-> key.last_leak,
                   expireAt |-> key.expireAt],
  watch   <- IF watch = NoWatch THEN NoWatch
             ELSE [conf |-> AsToken(watch.conf), start |-> watch.start,
                   charged |-> watch.charged]

ASSUME DualAssumption == NoKey \notin Dual!Bucket /\ NoWatch \notin Dual!Watch

\* The room left in the bucket is a token bucket: whatever the calls, the two
\* algorithms admit and refuse the same requests.
IsTokenBucket == Dual!Spec
=============================================================================
