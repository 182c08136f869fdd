-------------------------- MODULE MCSlidingWindow ---------------------------
\* The sliding window on a small instance; a second is Sec clock units.
EXTENDS SlidingWindow

\* The first host runs behind Redis by the whole skew, the others ahead.
MCOffset == [c \in Callers |-> IF c = 1 THEN 0 - Skew ELSE Skew]

Wide   == [limit |-> 2, windowSize |-> 8]
Narrow == [limit |-> 1, windowSize |-> 4]
MCConfigs == {Wide, Narrow}
=============================================================================
