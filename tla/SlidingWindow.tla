--------------------------- MODULE SlidingWindow ----------------------------
(***************************************************************************)
(* The sliding-window limiter: slidingWindowScript and                     *)
(* SlidingWindowLimiter of internal/limiter/sliding_window.go on one Redis *)
(* key.  The key carries the hash of the configuration and one counter per *)
(* second in which a request was granted; a call counts the seconds that   *)
(* are in its window and removes the others.  A counter is the set of the  *)
(* requests it has counted: second b at n is {<<b, 1>>, ..., <<b, n>>}.    *)
(***************************************************************************)
EXTENDS ScriptCalls, FiniteSets, Functions

CONSTANTS
  NoKey,     \* value of a key that is not stored
  NoWatch    \* no grant is remembered

WindowConfig == [limit : Positive, windowSize : Positive]

Counted  == Int \X Positive     \* a second or a stamp, and which of its requests
Counters == [hash : WindowConfig, hits : SUBSET Counted, expireAt : Int]
Watch    == [conf : WindowConfig, stamps : SUBSET Counted]

ASSUME SlidingAssumption ==
  /\ Configs \subseteq WindowConfig
  /\ NoKey \notin Counters
  /\ NoWatch \notin Watch

VARIABLES
  key,       \* the Redis hash, or NoKey
  verdict,   \* Allowed of the most recent answer
  watch      \* history: the stamps one configuration has granted

vars == <<callVars, key, verdict, watch>>

\* How far a stamp can lag behind another that reached Redis before it.
Lag == MaxDelay + 2 * Skew

Of(counted, x) == {h \in counted : h[1] = x}

\* HINCRBY: x is counted once more.
Count(counted, x) == counted \cup {<<x, Cardinality(Of(counted, x)) + 1>>}

\* What is counted of each x has the numbers from 1 on, and no others.
Numbered(counted) == \A h \in counted : h[2] <= Cardinality(Of(counted, h[1]))

\* What is stored was stored by grants within the limit, in whole seconds.
TypeOK ==
  /\ CallsTypeOK
  /\ key # NoKey =>
       /\ key \in Counters /\ key.hash \in Configs
       /\ IsFiniteSet(key.hits) /\ Cardinality(key.hits) \in 1..key.hash.limit
       /\ Numbered(key.hits) /\ \A h \in key.hits : h[1] % Sec = 0
  /\ verdict \in BOOLEAN
  /\ watch # NoWatch =>
       /\ watch \in Watch /\ watch.conf \in Configs
       /\ IsFiniteSet(watch.stamps) /\ Numbered(watch.stamps)

Init ==
  /\ CallsInit
  /\ key = NoKey
  /\ verdict = FALSE
  /\ watch = NoWatch

-----------------------------------------------------------------------------
(* The script *)

\* The 1-second bucket a stamp falls in: current_bucket.
BucketOf(now) == (now \div Sec) * Sec

\* Mutant of Fresh: the stored hash is not compared.
FreshAnyHash(k) == key = NoKey

\* No counters, or counters kept under another configuration.
Fresh(k) == key = NoKey \/ key.hash # k

\* The counters that survive a change of configuration.
Kept(k) == IF Fresh(k) THEN {} ELSE key.hits

\* Mutant of InWindow: the buckets at the edge of the window are dropped.
InsideWindow(k, now) == {h \in Kept(k) : h[1] > now - k.windowSize + Sec}

\* The counters of the window that ends now: bucket_time >= window_start.
InWindow(k, now) == {h \in Kept(k) : h[1] >= now - k.windowSize}

Total(k, now) == Cardinality(InWindow(k, now))

\* Mutant of Admits: one request more than the limit.
AdmitsOneMore(k, now) == Total(k, now) <= k.limit

Admits(k, now) == Total(k, now) < k.limit

\* The oldest bucket of the window, or now if there is none older.
Oldest(k, now) ==
  LET seconds == {now} \cup {h[1] : h \in InWindow(k, now)}
  IN  CHOOSE b \in seconds : \A other \in seconds : b <= other

\* Mutant of RetryAfter: counted from the newest bucket.
RetryFromNow(k, now) == k.windowSize

\* The answer of a refusal: milliseconds until the oldest bucket is one window
\* old.
RetryAfter(k, now) ==
  LET wait == Oldest(k, now) + k.windowSize - now
  IN  IF wait > 0 THEN wait ELSE 0

\* Mutant of Ttl: no buffer after the window.
TtlBare(k) == 0

Ttl(k) == Sec * (CeilDiv(k.windowSize, Sec) + Buffer)

\* History only: the grants of the configuration now in force.  Stamps older
\* than a window and the lag bear on no property and are dropped.
Watched(k, now) ==
  LET old == IF watch # NoWatch /\ watch.conf = k THEN watch.stamps ELSE {}
      recent == {s \in old : s[1] > now - k.windowSize - Lag}
  IN  watch' = [conf |-> k, stamps |-> Count(recent, now)]

Grant(c) ==
  LET k == conf[c]
      now == Stamp(c)
  IN  /\ call[c].pending
      /\ Admits(k, now)
      /\ key' = [hash |-> k, hits |-> Count(InWindow(k, now), BucketOf(now)),
                 expireAt |-> clock + Ttl(k)]
      /\ verdict' = TRUE
      /\ Watched(k, now)
      /\ Replied(c)

\* A refusal renews no lifetime and removes nothing: what is stored never
\* exceeds the limit, so all of it is in the window of a refused call.
Refuse(c) ==
  LET k == conf[c]
      now == Stamp(c)
  IN  /\ call[c].pending
      /\ ~Admits(k, now)
      /\ key' = [key EXCEPT !.hits = InWindow(k, now)]
      /\ verdict' = FALSE
      /\ Replied(c)
      /\ UNCHANGED watch

-----------------------------------------------------------------------------
(* Around the script *)

Send(c)    == Begin(c) /\ UNCHANGED <<key, verdict, watch>>
Drop(c)    == Lose(c) /\ UNCHANGED <<key, verdict, watch>>
Restart(c) == Redeploy(c) /\ UNCHANGED <<key, verdict, watch>>

\* Redis removes a key once its clock has passed the time EXPIRE set.
Tick ==
  /\ TimePasses
  /\ key' = IF key # NoKey /\ clock' > key.expireAt THEN NoKey ELSE key
  /\ UNCHANGED <<verdict, watch>>

\* Redis restarts without the key: what was granted before is forgotten.
RedisRestart ==
  /\ key # NoKey
  /\ key' = NoKey
  /\ watch' = NoWatch
  /\ UNCHANGED <<callVars, verdict>>

Next ==
  \/ \E c \in Callers : Send(c) \/ Grant(c) \/ Refuse(c) \/ Drop(c) \/ Restart(c)
  \/ Tick
  \/ RedisRestart

Spec == Init /\ [][Next]_vars

-----------------------------------------------------------------------------
(* Properties *)

Stamped(from, upto) == {s \in watch.stamps : from < s[1] /\ s[1] <= upto}

\* The key and the history are of one configuration, and no stamp in them is
\* ahead of the clock, as it was at the last grant, by more than the skew.
KeyInTime ==
  /\ watch # NoWatch => \A s \in watch.stamps : s[1] <= clock + Skew
  /\ key # NoKey =>
       /\ watch # NoWatch /\ watch.conf = key.hash
       /\ LET last == key.expireAt - Ttl(key.hash)
          IN  /\ last <= clock
              /\ \A h \in key.hits : h[1] <= last + Skew
              /\ \A s \in watch.stamps : s[1] <= last + Skew

\* The grants that no call so far can have cleaned up.
Recent ==
  {s \in watch.stamps : BucketOf(s[1]) >= clock + Skew - watch.conf.windowSize}

\* Each of them is still counted by a hit of its own, in its second; once the key
\* has expired there are none.
RecentCounted ==
  watch # NoWatch =>
    /\ key = NoKey => Recent = {}
    /\ key # NoKey =>
         \E f \in Injection(Recent, key.hits) :
           \A s \in Recent : f[s][1] = BucketOf(s[1])

\* What the counters guarantee: while one configuration is in force, no span
\* of the window less the second a counter blurs and less the lag of stamps
\* sees more grants than the limit, across late stamps, clean-ups by hosts
\* whose clock is ahead, resends and expiries.
TrailingBound ==
  watch # NoWatch =>
    LET k == watch.conf
    IN  \A t \in watch.stamps :
          Cardinality(Stamped(t[1] - (k.windowSize - Sec - Lag), t[1])) <= k.limit

\* Why TrailingBound, RetryWithin and ExpiryForgetsNothing hold: the inductive
\* invariant of the proof.
SlidingInv == TypeOK /\ StampsInTime /\ KeyInTime /\ RecentCounted /\ TrailingBound

\* The key expires only when no stamp that may still arrive counts any of it.
ExpiryForgetsNothing ==
  [][key # NoKey /\ key' = NoKey /\ clock' # clock =>
       \A h \in key.hits :
         h[1] < clock' - MaxDelay - Skew - key.hash.windowSize]_vars

\* A refused call is never told to wait too long, and too short a time by one
\* clock unit and the lag at most: it is refused until retry_after is over, and
\* granted once the unit and the lag have passed too, if nobody else comes.
\* (ExpiryForgetsNothing: no call before that finds the key expired.  That the
\* wait alone is enough is the claim of RetryIsEnough.)
RetryWithin ==
  \A c \in Callers :
    LET k == conf[c]
        later == Stamp(c) + RetryAfter(k, Stamp(c))
    IN  call[c].pending /\ ~Admits(k, Stamp(c)) =>
          /\ \A t \in Stamp(c)..later : ~Admits(k, t)
          /\ Admits(k, later + 1 + Lag)

\* The window is a quota of limit units per configuration.
Contract == INSTANCE Quota WITH
  Owners  <- Configs,
  Limit   <- [k \in Configs |-> k.limit],
  NoOwner <- NoKey,
  owner   <- IF key = NoKey THEN NoKey ELSE key.hash,
  spent   <- IF key = NoKey THEN 0 ELSE Cardinality(key.hits)

\* A grant counts one and only below the limit; a refusal means that the
\* caller's own configuration has its limit counted.
IsQuota == Contract!Spec

\* docs/limiter_package.md:25 calls retry_after the time until the next allowed
\* request: after exactly that wait a refused call is granted, if nobody else
\* comes.  The oldest bucket is then one window old and still counts.
RetryIsEnough ==
  \A c \in Callers :
    LET k == conf[c]
        now == Stamp(c)
    IN  call[c].pending /\ ~Admits(k, now) => Admits(k, now + RetryAfter(k, now))

\* docs/limiter_package.md:229 calls limit the most requests in any sliding
\* window period: no span of windowSize sees more grants than that.
AnyWindowBound ==
  watch # NoWatch =>
    \A t \in watch.stamps :
      Cardinality(Stamped(t[1] - watch.conf.windowSize, t[1])) <= watch.conf.limit
=============================================================================
