---------------------------- MODULE MCReputation ----------------------------
\* The reputation of a tenant with two concurrent requests on hosts whose clocks
\* lie behind and ahead of Redis.
EXTENDS Reputation

MCOffset == [c \in Callers |-> IF c = 1 THEN 0 - Skew ELSE Skew]
=============================================================================
