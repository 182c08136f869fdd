------------------------- MODULE FixedWindowProofs --------------------------
(***************************************************************************)
(* Proofs about the fixed window, for every set of hosts and               *)
(* configurations, every skew, delay and number of resends that            *)
(* CallsAssumption and BufferAssumption allow.                             *)
(***************************************************************************)
EXTENDS FixedWindow, ScriptCallsProofs

-----------------------------------------------------------------------------
(* The windows *)

\* The window of a stamp contains it, and is on the grid of its size.
LEMMA WindowContains ==
  ASSUME NEW k \in WindowConfig, NEW now \in Int
  PROVE  /\ WindowOf(k, now) \in Int
         /\ WindowOf(k, now) <= now /\ now < WindowOf(k, now) + k.windowSize
         /\ WindowOf(k, WindowOf(k, now)) = WindowOf(k, now)
<1> DEFINE size == k.windowSize
           n == now \div size
           m == (n * size) \div size
<1>1. size \in Positive /\ size \in Int
  BY DEF WindowConfig, Positive
<1>2. n \in Int /\ size * n <= now /\ now < size * n + size
  BY <1>1, DivBounds
<1>3. WindowOf(k, now) = n * size /\ WindowOf(k, n * size) = m * size
  BY DEF WindowOf
<1> HIDE DEF n
<1>4. n * size \in Int /\ n * size = size * n
  BY <1>1, <1>2
<1>5. m \in Int /\ (n * size) % size = (n * size) - size * m
  <2> DEFINE a == n * size
  <2>1. a \in Int
    BY <1>4
  <2> HIDE DEF a
  <2>2. a \div size \in Int /\ a % size = a - size * (a \div size)
    BY <1>1, <2>1, DivBounds, ModByDiv
  <2> QED
    BY <2>2 DEF a
<1>6. (n * size) % size = 0
  BY <1>1, <1>2, MultipleMod
<1> HIDE DEF m
<1>7. m * size = n * size
  BY <1>1, <1>4, <1>5, <1>6
<1> QED
  BY <1>1, <1>2, <1>3, <1>4, <1>7

\* A stamp before the end of a window on the grid is in it or in an older one.
LEMMA WindowBefore ==
  ASSUME NEW k \in WindowConfig, NEW t \in Int, NEW start \in Int,
         WindowOf(k, start) = start, t < start + k.windowSize
  PROVE  WindowOf(k, t) <= start
<1> DEFINE size == k.windowSize
           n == start \div size
           m == t \div size
<1>1. size \in Positive /\ size \in Int
  BY DEF WindowConfig, Positive
<1>2. n \in Int /\ m \in Int /\ size * m <= t
  BY <1>1, DivBounds
<1>3. WindowOf(k, t) = m * size /\ start = n * size
  BY DEF WindowOf
<1> HIDE DEF n, m
<1>4. m * size = size * m /\ n * size = size * n /\ m * size \in Int /\ n * size \in Int
  BY <1>1, <1>2
<1>5. ~(n < m)
  <2>1. SUFFICES ASSUME n + 1 <= m PROVE FALSE
    BY <1>2
  <2>2. size * (n + 1) <= size * m /\ size * (n + 1) = size * n + size
    BY <1>1, <1>2, <2>1, ScaleLeq, Distribute DEF Positive
  <2>3. size * n + size <= t
    BY <1>1, <1>2, <1>4, <2>2
  <2> QED
    BY <1>1, <1>3, <1>4, <2>3
<1>6. size * m <= size * n
  BY <1>1, <1>2, <1>5, ScaleLeq DEF Positive
<1> QED
  BY <1>3, <1>4, <1>6

\* The lifetime of a key lasts to the end of its window and the buffer.
LEMMA TtlCovers ==
  ASSUME NEW k \in WindowConfig, NEW now \in Int, WindowEnd(k, now) \in Int
  PROVE  /\ Ttl(k, now) \in Int
         /\ WindowEnd(k, now) - now + MaxDelay + 2 * Skew <= Ttl(k, now)
<1> DEFINE rest == WindowEnd(k, now) - now
           secs == CeilDiv(rest, Sec)
<1>1. rest \in Int /\ Sec \in Positive /\ Buffer \in Nat
  BY CallsAssumption DEF Positive
<1>2. secs \in Int /\ rest <= Sec * secs
  BY <1>1, CeilDivCovers
<1>3. Ttl(k, now) = Sec * (secs + Buffer)
  BY DEF Ttl
<1> HIDE DEF rest, secs
<1>4. Sec * (secs + Buffer) = Sec * secs + Buffer * Sec
      /\ Sec * secs \in Int /\ Buffer * Sec \in Int
  BY <1>1, <1>2 DEF Positive
<1>5. rest + MaxDelay + 2 * Skew <= Sec * (secs + Buffer)
  BY <1>1, <1>2, <1>4, CallsAssumption, BufferAssumption
<1> QED
  BY <1>3, <1>4, <1>5 DEF rest

-----------------------------------------------------------------------------
(* The steps *)

\* The window a call is counted in.  A window that is kept is the watched one
\* and not over for any stamp; one that is opened is later than every window
\* watched for the configuration.
LEMMA FoundWindow ==
  ASSUME WindowInv, NEW c \in Callers, call[c].pending,
         NEW k, k = conf[c], NEW now, now = Stamp(c)
  PROVE  /\ k \in Configs /\ k \in WindowConfig /\ clock \in Int
         /\ now \in Int /\ now <= clock + Skew
         /\ Start(k, now) \in Int /\ Count(k, now) \in 0..k.limit
         /\ WindowOf(k, Start(k, now)) = Start(k, now)
         /\ now < WindowEnd(k, now) /\ WindowEnd(k, now) \in Int
         /\ OpensWindow(k, now) =>
              /\ Count(k, now) = 0
              /\ watch # NoWatch /\ watch.conf = k => watch.window < Start(k, now)
         /\ ~OpensWindow(k, now) =>
              /\ key # NoKey /\ key.hash = k
              /\ Count(k, now) = key.count /\ Start(k, now) = key.window_start
              /\ watch # NoWatch /\ watch.conf = k
              /\ watch.window = Start(k, now) /\ watch.charged = Count(k, now)
<1>1. k \in Configs /\ k \in WindowConfig /\ clock \in Int
  BY WindowAssumption DEF WindowInv, TypeOK, CallsTypeOK
<1>2. now \in Int /\ clock - MaxDelay - Skew <= now /\ now <= clock + Skew
  BY StampRange DEF WindowInv, TypeOK
<1>3. k.windowSize \in Nat /\ k.limit \in Nat /\ k.limit >= 1
  BY <1>1 DEF WindowConfig, Positive
<1>4. /\ WindowOf(k, now) \in Int /\ WindowOf(k, now) <= now
      /\ now < WindowOf(k, now) + k.windowSize
      /\ WindowOf(k, WindowOf(k, now)) = WindowOf(k, now)
  BY <1>1, <1>2, WindowContains
<1>5. CASE OpensWindow(k, now)
  <2>1. Count(k, now) = 0 /\ Start(k, now) = WindowOf(k, now)
    BY <1>5 DEF Count, Start
  <2>2. ASSUME watch # NoWatch, watch.conf = k
        PROVE  watch.window < WindowOf(k, now)
    <3>1. watch.window \in Int
      BY <2>2 DEF WindowInv, TypeOK, Watch
    <3>2. CASE key = NoKey
      <4>1. watch.window + k.windowSize <= clock - MaxDelay - Skew
        BY <2>2, <3>2 DEF WindowInv, WindowClosed
      <4> QED
        BY <1>1, <1>2, <1>3, <1>4, <3>1, <4>1, CallsAssumption
    <3>3. CASE key # NoKey
      <4>1. key.hash = k /\ watch.window = key.window_start
        BY <2>2, <3>3 DEF WindowInv, KeyWatched
      <4> QED
        BY <1>5, <3>3, <4>1 DEF OpensWindow
    <3> QED
      BY <3>2, <3>3
  <2> QED
    BY <1>1, <1>2, <1>3, <1>4, <1>5, <2>1, <2>2 DEF WindowEnd
<1>6. CASE ~OpensWindow(k, now)
  <2>1. key # NoKey /\ key.hash = k /\ ~(key.window_start < WindowOf(k, now))
    BY <1>6 DEF OpensWindow
  <2>2. Count(k, now) = key.count /\ Start(k, now) = key.window_start
    BY <1>6 DEF Count, Start
  <2>3. key.window_start \in Int /\ key.count \in 1..k.limit
    BY <2>1 DEF WindowInv, TypeOK, Window
  <2>4. /\ watch # NoWatch /\ watch.conf = k
        /\ watch.window = key.window_start /\ watch.charged = key.count
        /\ WindowOf(k, key.window_start) = key.window_start
    BY <2>1 DEF WindowInv, KeyWatched
  <2>5. now < key.window_start + k.windowSize
    BY <1>2, <1>3, <1>4, <2>1, <2>3
  <2> QED
    BY <1>1, <1>2, <1>3, <1>6, <2>1, <2>2, <2>3, <2>4, <2>5 DEF WindowEnd
<1> QED
  BY <1>5, <1>6

\* A grant keeps the inductive invariant: it is counted with all the grants of
\* its window.
LEMMA GrantStep ==
  ASSUME WindowInv, NEW c \in Callers, Grant(c)
  PROVE  WindowInv'
<1> DEFINE k == conf[c]
           now == Stamp(c)
           n == Count(k, now)
           start == Start(k, now)
<1>1. /\ call[c].pending /\ n < k.limit /\ verdict' = TRUE
      /\ key' = [hash |-> k, count |-> n + 1, window_start |-> start,
                 expireAt |-> clock + Ttl(k, now)]
      /\ Watched(k, now) /\ Replied(c)
  BY DEF Grant, Admits
<1>2. CallsTypeOK' /\ StampsInTime' /\ clock' = clock
  BY <1>1, CallsStep DEF WindowInv, TypeOK
<1>3. /\ k \in Configs /\ k \in WindowConfig /\ clock \in Int
      /\ now \in Int /\ now <= clock + Skew
      /\ start \in Int /\ n \in 0..k.limit
      /\ WindowOf(k, start) = start
      /\ now < WindowEnd(k, now) /\ WindowEnd(k, now) \in Int
      /\ OpensWindow(k, now) =>
           n = 0 /\ (watch # NoWatch /\ watch.conf = k => watch.window < start)
      /\ ~OpensWindow(k, now) =>
           /\ watch # NoWatch /\ watch.conf = k
           /\ watch.window = start /\ watch.charged = n
  BY <1>1, FoundWindow
<1>4. k.limit \in Nat
  BY <1>3 DEF WindowConfig, Positive
<1>5. n + 1 \in 1..k.limit /\ n + 1 \in Nat
  BY <1>1, <1>3, <1>4
<1>6. Ttl(k, now) \in Int /\ WindowEnd(k, now) + MaxDelay + Skew <= clock + Ttl(k, now)
  <2>1. Ttl(k, now) \in Int
        /\ WindowEnd(k, now) - now + MaxDelay + 2 * Skew <= Ttl(k, now)
    BY <1>3, TtlCovers
  <2> QED
    BY <1>3, <2>1, CallsAssumption
<1>7. watch' = [conf |-> k, window |-> start, charged |-> n + 1]
  <2> DEFINE same == watch # NoWatch /\ watch.conf = k /\ watch.window = start
  <2>1. watch' = [conf |-> k, window |-> start,
                  charged |-> IF same THEN watch.charged + 1 ELSE 1]
    BY <1>1 DEF Watched
  <2>2. CASE OpensWindow(k, now)
    <3>1. ~same
      <4>1. SUFFICES ASSUME same PROVE FALSE
        OBVIOUS
      <4>2. watch.window < start /\ watch.window = start
        BY <1>3, <2>2, <4>1
      <4> QED
        BY <1>3, <4>2
    <3> QED
      BY <1>3, <2>1, <2>2, <3>1
  <2>3. CASE ~OpensWindow(k, now)
    BY <1>3, <2>1, <2>3
  <2> QED
    BY <2>2, <2>3
<1> HIDE DEF n, start
<1>8. watch' \in Watch /\ watch' # NoWatch
  BY <1>3, <1>5, <1>7, WindowAssumption DEF Watch
<1>9. key' \in Window /\ key' # NoKey
  <2>1. clock + Ttl(k, now) \in Int
    BY <1>3, <1>6
  <2> QED
    BY <1>1, <1>3, <1>5, <2>1, WindowAssumption DEF Window
<1>10. KeyWatched'
  <2>1. /\ key'.hash = k /\ key'.window_start = start /\ key'.count = n + 1
        /\ key'.expireAt = clock + Ttl(k, now)
    BY <1>1
  <2>2. /\ watch'.conf = k /\ watch'.window = start /\ watch'.charged = n + 1
    BY <1>7
  <2>3. start + k.windowSize + MaxDelay + Skew <= clock + Ttl(k, now)
    BY <1>6 DEF WindowEnd, start
  <2>4. (start \div k.windowSize) * k.windowSize = start
    BY <1>3 DEF WindowOf
  <2> QED
    BY <1>8, <2>1, <2>2, <2>3, <2>4 DEF KeyWatched, WindowOf
<1> QED
  BY <1>1, <1>2, <1>5, <1>8, <1>9, <1>10 DEF WindowInv, TypeOK, WindowClosed

\* A step that leaves the key, the verdict's type and the history alone.
LEMMA OtherStep ==
  ASSUME WindowInv, NEW c \in Callers,
         Begin(c) \/ Replied(c) \/ Lose(c) \/ Redeploy(c),
         UNCHANGED <<key, watch>>, verdict' \in BOOLEAN
  PROVE  WindowInv'
<1>1. CallsTypeOK' /\ StampsInTime' /\ clock' = clock
  BY CallsStep DEF WindowInv, TypeOK
<1> QED
  BY <1>1 DEF WindowInv, TypeOK, KeyWatched, WindowClosed, WindowOf

\* Time passing keeps the inductive invariant: a key that expires leaves a
\* window that no later stamp can be in.
LEMMA TickStep ==
  ASSUME WindowInv, Tick
  PROVE  WindowInv'
<1>1. CallsTypeOK' /\ StampsInTime' /\ clock' = clock + 1 /\ clock \in Int
  BY CallsTick DEF Tick, WindowInv, TypeOK, CallsTypeOK
<1>2. watch' = watch /\ verdict' = verdict
  BY DEF Tick
<1>3. ASSUME watch # NoWatch
      PROVE  watch.window + watch.conf.windowSize \in Int
  BY <1>3, WindowAssumption DEF WindowInv, TypeOK, Watch, WindowConfig, Positive
<1>4. CASE key # NoKey /\ clock' > key.expireAt
  <2>1. key' = NoKey
    BY <1>4 DEF Tick
  <2>2. /\ watch # NoWatch /\ watch.charged = key.count /\ watch.conf = key.hash
        /\ watch.window + watch.conf.windowSize + MaxDelay + Skew <= key.expireAt
        /\ key.expireAt \in Int /\ key.count <= key.hash.limit
        /\ key.hash.limit \in Nat
    BY <1>4, WindowAssumption
       DEF WindowInv, KeyWatched, TypeOK, Window, WindowConfig, Positive
  <2>3. watch.window + watch.conf.windowSize <= clock' - MaxDelay - Skew
    BY <1>1, <1>3, <1>4, <2>2, CallsAssumption
  <2> QED
    BY <1>1, <1>2, <2>1, <2>2, <2>3 DEF WindowInv, TypeOK, KeyWatched, WindowClosed
<1>5. CASE ~(key # NoKey /\ clock' > key.expireAt)
  <2>1. key' = key
    BY <1>5 DEF Tick
  <2>2. WindowClosed'
    BY <1>1, <1>2, <1>3, <2>1, CallsAssumption DEF WindowInv, WindowClosed
  <2> QED
    BY <1>1, <1>2, <2>1, <2>2 DEF WindowInv, TypeOK, KeyWatched, WindowOf
<1> QED
  BY <1>4, <1>5

-----------------------------------------------------------------------------
(* The theorems *)

\* Before the first request the inductive invariant holds.
THEOREM WindowInvInit == Init => WindowInv
<1> SUFFICES ASSUME Init PROVE WindowInv
  OBVIOUS
<1>1. call = [c \in Callers |-> Idle] /\ clock \in Int /\ conf \in [Callers -> Configs]
      /\ key = NoKey /\ watch = NoWatch /\ verdict = FALSE
  BY CallsAssumption DEF Init, CallsInit
<1>2. call \in [Callers -> [pending : BOOLEAN, at : Int, tries : 0..MaxRetries]]
  BY <1>1, IdleType
<1>3. StampsInTime
  BY <1>1 DEF StampsInTime, Idle
<1> QED
  BY <1>1, <1>2, <1>3 DEF WindowInv, TypeOK, CallsTypeOK, KeyWatched, WindowClosed

\* Every step of callers, scripts, time and Redis keeps the inductive
\* invariant.
THEOREM WindowInvNext == WindowInv /\ [Next]_vars => WindowInv'
<1> SUFFICES ASSUME WindowInv, [Next]_vars PROVE WindowInv'
  OBVIOUS
<1>1. ASSUME NEW c \in Callers, Send(c) \/ Drop(c) \/ Restart(c) PROVE WindowInv'
  BY <1>1, OtherStep DEF Send, Drop, Restart, WindowInv, TypeOK
<1>2. ASSUME NEW c \in Callers, Grant(c) PROVE WindowInv'
  BY <1>2, GrantStep
<1>3. ASSUME NEW c \in Callers, Refuse(c) PROVE WindowInv'
  BY <1>3, OtherStep DEF Refuse
<1>4. CASE Tick
  BY <1>4, TickStep
<1>5. CASE RedisRestart
  BY <1>5 DEF RedisRestart, callVars, WindowInv, TypeOK, CallsTypeOK, StampsInTime,
              KeyWatched, WindowClosed
<1>6. CASE UNCHANGED vars
  BY <1>6 DEF vars, callVars, WindowInv, TypeOK, CallsTypeOK, StampsInTime,
              KeyWatched, WindowClosed, WindowOf
<1> QED
  BY <1>1, <1>2, <1>3, <1>4, <1>5, <1>6 DEF Next

\* The inductive invariant holds in every reachable state.
THEOREM WindowInvariance == Spec => []WindowInv
BY WindowInvInit, WindowInvNext, PTL DEF Spec

\* Type correctness of the fixed window, with the stored count within the limit.
THEOREM TypeCorrect == Spec => []TypeOK
<1>1. WindowInv => TypeOK
  BY DEF WindowInv
<1> QED
  BY <1>1, WindowInvariance, PTL

\* A window never grants more than its limit, across late stamps, skewed hosts,
\* resends and expiries.
THEOREM WindowBounded == Spec => []WindowBound
<1>1. WindowInv => WindowBound
  <2> SUFFICES ASSUME WindowInv, watch # NoWatch PROVE watch.charged <= watch.conf.limit
    BY DEF WindowBound
  <2>1. CASE key = NoKey
    BY <2>1 DEF WindowInv, WindowClosed
  <2>2. CASE key # NoKey
    <3>1. key.count \in 1..key.hash.limit /\ watch.charged = key.count
          /\ watch.conf = key.hash
      BY <2>2 DEF WindowInv, TypeOK, KeyWatched
    <3> QED
      BY <3>1
  <2> QED
    BY <2>1, <2>2
<1> QED
  BY <1>1, WindowInvariance, PTL

\* The window requests are counted in never moves back, not even across an
\* expiry.
THEOREM WindowsAdvance == Spec => WindowsOnlyAdvance
<1>1. WindowInv /\ [Next]_vars =>
        [watch # NoWatch /\ watch' # NoWatch /\ watch'.conf = watch.conf =>
           watch'.window >= watch.window]_vars
  <2> SUFFICES ASSUME WindowInv, [Next]_vars, watch # NoWatch, watch' # NoWatch,
                      watch'.conf = watch.conf
               PROVE  watch'.window >= watch.window
    OBVIOUS
  <2>1. watch.window \in Int
    BY DEF WindowInv, TypeOK, Watch
  <2>2. ASSUME NEW c \in Callers, Grant(c)
        PROVE  watch'.window >= watch.window
    <3> DEFINE k == conf[c]
               now == Stamp(c)
    <3>1. call[c].pending /\ watch'.conf = k /\ watch'.window = Start(k, now)
      BY <2>2 DEF Grant, Watched
    <3>2. Start(k, now) \in Int /\ (watch.window < Start(k, now)
                                    \/ watch.window = Start(k, now))
      BY <3>1, FoundWindow
    <3> QED
      BY <2>1, <3>1, <3>2
  <2>3. CASE watch' = watch
    BY <2>1, <2>3
  <2> QED
    BY <2>2, <2>3 DEF Next, Send, Refuse, Drop, Restart, Tick, RedisRestart, vars
<1> QED
  BY <1>1, WindowInvariance, PTL DEF Spec, WindowsOnlyAdvance

-----------------------------------------------------------------------------
(* What a refused call is told *)

\* A call is refused only in a stored window that has counted its limit.
LEMMA FullWindow ==
  ASSUME WindowInv, NEW c \in Callers, call[c].pending, ~Admits(conf[c], Stamp(c))
  PROVE  LET k == conf[c]
         IN  /\ ~OpensWindow(k, Stamp(c)) /\ key # NoKey /\ key.hash = k
             /\ key.count = k.limit /\ Count(k, Stamp(c)) = k.limit
             /\ Start(k, Stamp(c)) = key.window_start
<1> DEFINE k == conf[c]
           now == Stamp(c)
<1>1. /\ k \in WindowConfig /\ Count(k, now) \in 0..k.limit
      /\ OpensWindow(k, now) => Count(k, now) = 0
      /\ ~OpensWindow(k, now) => /\ key # NoKey /\ key.hash = k
                                 /\ Count(k, now) = key.count
                                 /\ Start(k, now) = key.window_start
  BY FoundWindow
<1>2. k.limit \in Nat /\ k.limit >= 1
  BY <1>1 DEF WindowConfig, Positive
<1>3. Count(k, now) = k.limit
  BY <1>1, <1>2 DEF Admits
<1> QED
  BY <1>1, <1>2, <1>3

\* The inductive invariant makes the reported wait exact.
LEMMA WindowInvRetry == WindowInv => RetryExact
<1> SUFFICES ASSUME WindowInv, NEW c \in Callers, call[c].pending,
                    ~Admits(conf[c], Stamp(c))
             PROVE  LET k == conf[c]
                        later == Stamp(c) + RetryAfter(k, Stamp(c))
                    IN  /\ Admits(k, later)
                        /\ \A t \in Stamp(c)..(later - 1) : ~Admits(k, t)
  BY DEF RetryExact
<1> DEFINE k == conf[c]
           now == Stamp(c)
           end == key.window_start + k.windowSize
<1>1. /\ ~OpensWindow(k, now) /\ key # NoKey /\ key.hash = k /\ key.count = k.limit
      /\ Start(k, now) = key.window_start
  BY FullWindow
<1>2. /\ k \in WindowConfig /\ now \in Int /\ now < WindowEnd(k, now)
      /\ WindowEnd(k, now) \in Int
  BY FoundWindow
<1>3. k.windowSize \in Nat /\ k.limit \in Nat /\ k.limit >= 1
  BY <1>2 DEF WindowConfig, Positive
<1>4. key.window_start \in Int /\ WindowOf(k, key.window_start) = key.window_start
  BY <1>1 DEF WindowInv, TypeOK, Window, KeyWatched
<1>5. WindowEnd(k, now) = end /\ end \in Int /\ now < end
  BY <1>1, <1>2 DEF WindowEnd
<1>6. now + RetryAfter(k, now) = end
  BY <1>2, <1>5 DEF RetryAfter
<1>7. Admits(k, end)
  <2>1. WindowOf(k, end) \in Int /\ end < WindowOf(k, end) + k.windowSize
    BY <1>2, <1>5, WindowContains
  <2>2. key.window_start < WindowOf(k, end)
    BY <1>3, <1>4, <2>1
  <2>3. Count(k, end) = 0
    BY <2>2 DEF Count, OpensWindow
  <2> QED
    BY <1>3, <2>3 DEF Admits
<1>8. ASSUME NEW t \in now..(end - 1) PROVE ~Admits(k, t)
  <2>1. t \in Int /\ t < end
    BY <1>2, <1>5
  <2>2. WindowOf(k, t) <= key.window_start /\ WindowOf(k, t) \in Int
    BY <1>2, <1>4, <2>1, WindowBefore, WindowContains
  <2>3. ~OpensWindow(k, t)
    BY <1>1, <1>4, <2>2 DEF OpensWindow
  <2>4. Count(k, t) = k.limit
    BY <1>1, <2>3 DEF Count
  <2> QED
    BY <1>3, <2>4 DEF Admits
<1> QED
  BY <1>6, <1>7, <1>8

\* The wait a refused call is told is exact: granted then, refused before.
THEOREM RetryIsExact == Spec => []RetryExact
BY WindowInvariance, WindowInvRetry, PTL

-----------------------------------------------------------------------------
(* The quota *)

\* A grant stores the key, with one request more.
LEMMA GrantStores ==
  ASSUME WindowInv, NEW c \in Callers, Grant(c)
  PROVE  /\ key' # NoKey /\ key'.hash = conf[c]
         /\ key'.count = Count(conf[c], Stamp(c)) + 1
<1> DEFINE k == conf[c]
           now == Stamp(c)
           n == Count(k, now)
<1>1. /\ call[c].pending
      /\ key' = [hash |-> k, count |-> n + 1, window_start |-> Start(k, now),
                 expireAt |-> clock + Ttl(k, now)]
  BY DEF Grant
<1>2. /\ k \in Configs /\ k \in WindowConfig /\ clock \in Int /\ now \in Int
      /\ Start(k, now) \in Int /\ n \in 0..k.limit /\ WindowEnd(k, now) \in Int
  BY <1>1, FoundWindow
<1>3. n + 1 \in Nat /\ clock + Ttl(k, now) \in Int
  BY <1>2, TtlCovers DEF WindowConfig, Positive
<1>4. key' \in Window
  BY <1>1, <1>2, <1>3 DEF Window
<1> QED
  BY <1>1, <1>4, WindowAssumption

\* A grant of the script is a grant of the contract: one more unit is spent.
LEMMA GrantSpends ==
  ASSUME WindowInv, NEW c \in Callers, Grant(c)
  PROVE  Contract!Grant(conf[c])
<1> DEFINE k == conf[c]
           now == Stamp(c)
           n == Count(k, now)
           spentBy == IF (IF key = NoKey THEN NoKey ELSE key.hash) = k
                      THEN IF key = NoKey THEN 0 ELSE key.count ELSE 0
<1>1. call[c].pending /\ n < k.limit /\ verdict' = TRUE
  BY DEF Grant, Admits
<1>2. key' # NoKey /\ key'.hash = k /\ key'.count = n + 1
  BY GrantStores
<1>3. /\ k \in Configs /\ n \in 0..k.limit
      /\ OpensWindow(k, now) => n = 0
      /\ ~OpensWindow(k, now) => key # NoKey /\ key.hash = k /\ n = key.count
  BY <1>1, FoundWindow
<1>4. n \in 0..spentBy
  <2>1. key # NoKey => key.count \in Nat
    BY DEF WindowInv, TypeOK, Window
  <2>2. spentBy \in Nat
    BY <2>1
  <2>3. CASE OpensWindow(k, now)
    BY <1>3, <2>2, <2>3
  <2>4. CASE ~OpensWindow(k, now)
    BY <1>3, <2>1, <2>4
  <2> QED
    BY <2>3, <2>4
<1> HIDE DEF n
<1> QED
  BY <1>1, <1>2, <1>3, <1>4 DEF Contract!Grant, Contract!SpentBy

\* A refusal of the script is a denial of the contract: nothing is spent, and
\* nothing was left.
LEMMA RefuseDenies ==
  ASSUME WindowInv, NEW c \in Callers, Refuse(c)
  PROVE  Contract!Deny(conf[c])
<1>1. call[c].pending /\ ~Admits(conf[c], Stamp(c)) /\ verdict' = FALSE /\ key' = key
  BY DEF Refuse
<1>2. key # NoKey /\ key.hash = conf[c] /\ key.count = conf[c].limit
  BY <1>1, FullWindow
<1>3. conf[c] \in Configs /\ conf[c].limit \in Nat
  BY <1>1, FoundWindow DEF WindowConfig, Positive
<1> QED
  BY <1>1, <1>2, <1>3 DEF Contract!Deny, Contract!SpentBy

\* The fixed window implements the contract of a limiter key.
THEOREM ImplementsQuota == Spec => IsQuota
<1>1. Init => Contract!Init
  BY DEF Init, Contract!Init
<1>2. WindowInv /\ [Next]_vars => [Contract!Next]_(Contract!vars)
  <2> SUFFICES ASSUME WindowInv, [Next]_vars PROVE [Contract!Next]_(Contract!vars)
    OBVIOUS
  <2>1. ASSUME NEW c \in Callers, Send(c) \/ Drop(c) \/ Restart(c)
        PROVE  UNCHANGED Contract!vars
    BY <2>1 DEF Send, Drop, Restart, Contract!vars
  <2>2. ASSUME NEW c \in Callers, Grant(c) PROVE Contract!Next
    BY <2>2, GrantSpends DEF Contract!Next, WindowInv, TypeOK, CallsTypeOK
  <2>3. ASSUME NEW c \in Callers, Refuse(c) PROVE Contract!Next
    BY <2>3, RefuseDenies DEF Contract!Next, WindowInv, TypeOK, CallsTypeOK
  <2>4. CASE Tick
    <3>1. (key' = NoKey /\ verdict' = verdict) \/ UNCHANGED <<key, verdict>>
      BY <2>4 DEF Tick
    <3>2. CASE key' = NoKey /\ verdict' = verdict
      BY <3>2 DEF Contract!Next, Contract!Forget
    <3>3. CASE UNCHANGED <<key, verdict>>
      BY <3>3 DEF Contract!vars
    <3> QED
      BY <3>1, <3>2, <3>3
  <2>5. CASE RedisRestart
    BY <2>5 DEF RedisRestart, Contract!Next, Contract!Forget
  <2>6. CASE UNCHANGED vars
    BY <2>6 DEF vars, Contract!vars
  <2> QED
    BY <2>1, <2>2, <2>3, <2>4, <2>5, <2>6 DEF Next
<1> QED
  BY <1>1, <1>2, WindowInvariance, PTL DEF Spec, IsQuota, Contract!Spec
=============================================================================
