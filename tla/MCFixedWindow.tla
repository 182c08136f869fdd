--------------------------- MODULE MCFixedWindow ----------------------------
\* The fixed window on a small instance; the clock counts seconds.
EXTENDS FixedWindow

\* The first host runs behind Redis by the whole skew, the others ahead.
MCOffset == [c \in Callers |-> IF c = 1 THEN 0 - Skew ELSE Skew]

Wide   == [limit |-> 2, windowSize |-> 3]
Narrow == [limit |-> 1, windowSize |-> 2]
MCConfigs == {Wide, Narrow}
=============================================================================
