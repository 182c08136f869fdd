---------------------------- MODULE FixedWindow -----------------------------
(***************************************************************************)
(* The fixed-window limiter: fixedWindowScript and FixedWindowLimiter of   *)
(* internal/limiter/fixed_window.go on one Redis key.  The key carries the *)
(* hash of the configuration, the start of the newest window any stamp has *)
(* opened and the requests counted in it.  A stamp of an older window is   *)
(* counted in the newest one.                                              *)
(***************************************************************************)
EXTENDS ScriptCalls

CONSTANTS
  NoKey,     \* value of a key that is not stored
  NoWatch    \* no window has been granted in

WindowConfig == [limit : Positive, windowSize : Positive]

Window == [hash : Configs, count : Nat, window_start : Int, expireAt : Int]
Watch  == [conf : Configs, window : Int, charged : Nat]

ASSUME WindowAssumption ==
  /\ Configs \subseteq WindowConfig
  /\ NoKey \notin Window
  /\ NoWatch \notin Watch

VARIABLES
  key,       \* the Redis hash, or NoKey
  verdict,   \* Allowed of the most recent answer
  watch      \* history: all grants in the window of the last grant

vars == <<callVars, key, verdict, watch>>

\* Whatever is stored was stored by a grant within the limit.
TypeOK ==
  /\ CallsTypeOK
  /\ key \in Window \cup {NoKey}
  /\ key # NoKey => key.count \in 1..key.hash.limit
  /\ verdict \in BOOLEAN
  /\ watch \in Watch \cup {NoWatch}

Init ==
  /\ CallsInit
  /\ key = NoKey
  /\ verdict = FALSE
  /\ watch = NoWatch

-----------------------------------------------------------------------------
(* The script *)

\* The window a stamp falls in: window_start of the script.
WindowOf(k, now) == (now \div k.windowSize) * k.windowSize

\* Mutant of OpensWindow: the stored hash is not compared.
OpensAnyHash(k, now) == key = NoKey \/ key.window_start < WindowOf(k, now)

\* Mutant of OpensWindow: an older window is opened again.
OpensAnyOther(k, now) ==
  key = NoKey \/ key.hash # k \/ key.window_start # WindowOf(k, now)

\* The stored count is void: no key, another configuration, or an old window.
OpensWindow(k, now) ==
  key = NoKey \/ key.hash # k \/ key.window_start < WindowOf(k, now)

\* current_count and stored_window_start once the resets are done.
Count(k, now) == IF OpensWindow(k, now) THEN 0 ELSE key.count
Start(k, now) == IF OpensWindow(k, now) THEN WindowOf(k, now) ELSE key.window_start

WindowEnd(k, now) == Start(k, now) + k.windowSize

\* Mutant of Admits: one request more than the limit.
AdmitsOneMore(k, now) == Count(k, now) <= k.limit

Admits(k, now) == Count(k, now) < k.limit

\* Mutant of RetryAfter: the end of the stamp's own window.
RetryOwnWindow(k, now) == WindowOf(k, now) + k.windowSize - now

\* The answer of a refusal: milliseconds until the window ends.
RetryAfter(k, now) ==
  LET wait == WindowEnd(k, now) - now
  IN  IF wait > 0 THEN wait ELSE 0

\* Mutant of Ttl: no buffer after the end of the window.
TtlBare(k, now) == Sec * CeilDiv(WindowEnd(k, now) - now, Sec)

\* EXPIRE: what the stamp has left of the window, in seconds, plus a buffer.
Ttl(k, now) == Sec * (CeilDiv(WindowEnd(k, now) - now, Sec) + Buffer)

\* History only: a grant in the window of the last one adds to its total.
Watched(k, now) ==
  LET same == watch # NoWatch /\ watch.conf = k /\ watch.window = Start(k, now)
  IN  watch' = [conf |-> k, window |-> Start(k, now),
                charged |-> IF same THEN watch.charged + 1 ELSE 1]

Grant(c) ==
  LET k == conf[c]
      now == Stamp(c)
  IN  /\ call[c].pending
      /\ Admits(k, now)
      /\ key' = [hash |-> k, count |-> Count(k, now) + 1,
                 window_start |-> Start(k, now), expireAt |-> clock + Ttl(k, now)]
      /\ verdict' = TRUE
      /\ Watched(k, now)
      /\ Replied(c)

\* A refusal writes nothing: a reset leaves the count below the limit.
Refuse(c) ==
  /\ call[c].pending
  /\ ~Admits(conf[c], Stamp(c))
  /\ verdict' = FALSE
  /\ Replied(c)
  /\ UNCHANGED <<key, watch>>

-----------------------------------------------------------------------------
(* Around the script *)

Send(c)    == Begin(c) /\ UNCHANGED <<key, verdict, watch>>
Drop(c)    == Lose(c) /\ UNCHANGED <<key, verdict, watch>>
Restart(c) == Redeploy(c) /\ UNCHANGED <<key, verdict, watch>>

\* Redis removes a key once its clock has passed the time EXPIRE set.
Tick ==
  /\ TimePasses
  /\ key' = IF key # NoKey /\ clock' > key.expireAt THEN NoKey ELSE key
  /\ UNCHANGED <<verdict, watch>>

\* Redis restarts without the key: what was granted before is forgotten.
RedisRestart ==
  /\ key # NoKey
  /\ key' = NoKey
  /\ watch' = NoWatch
  /\ UNCHANGED <<callVars, verdict>>

Next ==
  \/ \E c \in Callers : Send(c) \/ Grant(c) \/ Refuse(c) \/ Drop(c) \/ Restart(c)
  \/ Tick
  \/ RedisRestart

Spec == Init /\ [][Next]_vars

-----------------------------------------------------------------------------
(* Properties *)

\* The stored window is the watched one, starts on the grid of its size, and is
\* kept until no stamp of it can arrive any more.
KeyWatched ==
  key # NoKey =>
    /\ watch # NoWatch
    /\ watch.conf = key.hash
    /\ watch.window = key.window_start
    /\ watch.charged = key.count
    /\ WindowOf(key.hash, key.window_start) = key.window_start
    /\ key.window_start + key.hash.windowSize + MaxDelay + Skew <= key.expireAt

\* Once the key has expired every stamp to come is of a later window.
WindowClosed ==
  key = NoKey /\ watch # NoWatch =>
    /\ watch.charged <= watch.conf.limit
    /\ watch.window + watch.conf.windowSize <= clock - MaxDelay - Skew

\* Why WindowBound holds: the inductive invariant of the proof.
WindowInv == TypeOK /\ StampsInTime /\ KeyWatched /\ WindowClosed

\* While one configuration is in force, a window never grants more than its
\* limit: not when a stamp of the window arrives after a later window was
\* opened, and not when the key expired in between.
WindowBound == watch # NoWatch => watch.charged <= watch.conf.limit

\* While one configuration is in force, the window that requests are counted
\* in never moves back, not even across an expiry of the key.
WindowsOnlyAdvance ==
  [][watch # NoWatch /\ watch' # NoWatch /\ watch'.conf = watch.conf =>
       watch'.window >= watch.window]_vars

\* A refused call is told the exact wait: if nobody else comes, the same host
\* asking again after retry_after is granted, and refused at any time sooner,
\* even when its stamp is of a window that is over for others.
RetryExact ==
  \A c \in Callers :
    LET k == conf[c]
        later == Stamp(c) + RetryAfter(k, Stamp(c))
    IN  call[c].pending /\ ~Admits(k, Stamp(c)) =>
          /\ Admits(k, later)
          /\ \A t \in Stamp(c)..(later - 1) : ~Admits(k, t)

\* The window is a quota of limit units per configuration.
Contract == INSTANCE Quota WITH
  Owners  <- Configs,
  Limit   <- [k \in Configs |-> k.limit],
  NoOwner <- NoKey,
  owner   <- IF key = NoKey THEN NoKey ELSE key.hash,
  spent   <- IF key = NoKey THEN 0 ELSE key.count

\* A grant counts one and only below the limit; a refusal means that the
\* caller's own configuration has counted its limit.
IsQuota == Contract!Spec
=============================================================================
