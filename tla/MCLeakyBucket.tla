--------------------------- MODULE MCLeakyBucket ----------------------------
\* The leaky bucket on a small instance; the clock counts seconds.
EXTENDS LeakyBucket

\* The second host runs ahead of Redis by the whole skew, the first behind.
MCOffset == [c \in Callers |-> IF c = 1 THEN 0 - Skew ELSE Skew]

\* Full again after one period.
Even == [capacity |-> 1, leakRate |-> 1, leakPeriod |-> 2]

\* Full again after two periods, of which the lifetime without the buffer lasts
\* one and a half.
Fast == [capacity |-> 3, leakRate |-> 2, leakPeriod |-> 3]

\* Leaks more in a period than the bucket holds: its key lives for 5 seconds
\* and is gone before the period is over.
Steep == [capacity |-> 1, leakRate |-> 4, leakPeriod |-> 8]

MCConfigs == {Even, Fast, Steep}
=============================================================================
