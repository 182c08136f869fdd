------------------------------- MODULE Quota --------------------------------
(***************************************************************************)
(* What one rate-limiter key promises, whatever algorithm stands behind    *)
(* it: LimitResult.Allowed is true only while fewer than the limit of the  *)
(* asking configuration is spent, every grant spends exactly one unit, and *)
(* a request is refused only when that configuration's own limit is spent. *)
(* The units come back (a refill, a leak, a new window, old requests       *)
(* leaving a sliding window) at a time this specification leaves open; the *)
(* four algorithm modules say when, and are shown to implement this one.   *)
(***************************************************************************)
EXTENDS Integers

CONSTANTS
  Owners,    \* the limiter configurations that may ask (AlgorithmConfig)
  Limit,     \* Limit[o]: Capacity or Limit of configuration o
  NoOwner    \* owner of a key that is not stored

VARIABLES
  owner,     \* the configuration whose hash the key carries
  spent,     \* units of its limit that are spent
  verdict    \* Allowed of the most recent answer

vars == <<owner, spent, verdict>>

Init == owner = NoOwner /\ spent = 0 /\ verdict = FALSE

\* Units spent under another configuration do not count for this one.
SpentBy(o) == IF owner = o THEN spent ELSE 0

Grant(o) ==
  /\ \E left \in 0..SpentBy(o) : left < Limit[o] /\ spent' = left + 1
  /\ owner' = o
  /\ verdict' = TRUE

Deny(o) ==
  /\ SpentBy(o) >= Limit[o]
  /\ verdict' = FALSE
  /\ UNCHANGED <<owner, spent>>

\* The key expires, or Redis restarts without it.
Forget ==
  /\ owner' = NoOwner
  /\ spent' = 0
  /\ UNCHANGED verdict

Next == Forget \/ \E o \in Owners : Grant(o) \/ Deny(o)

Spec == Init /\ [][Next]_vars
=============================================================================
