----------------------------- MODULE Reputation -----------------------------
(***************************************************************************)
(* The reputation of one tenant: improvedReputationScript, UpdateReputation *)
(* and GetTenantReputation of internal/limiter/reputation.go, with the      *)
(* requests of the tenant that read it in the global layer and report to it *)
(* in the tenant and endpoint layers.  A report carries a stamp of its      *)
(* host's clock and runs later in Redis, perhaps twice, perhaps never.      *)
(* The score is a whole number of parts of Full.  The record lives long, so *)
(* there is no clock: instants are kept relative to the present, and those  *)
(* too far back to make a difference are not told apart.                    *)
(***************************************************************************)
EXTENDS Integers

CONSTANTS
  Callers,      \* concurrent requests of the tenant, each on a host
  Offset,       \* Offset[c]: clock of c's host minus the clock of Redis
  Skew,         \* bound on |Offset[c]|
  MaxDelay,     \* the time all Redis calls of a request share (5 s)
  MaxRetries,   \* times the client resends a script (3)
  Full,         \* a score of 1.0
  Rapid,        \* violations closer than this are rapid fire (1 s)
  Quiet,        \* idle time after which a score recovers by itself (10 min)
  Hour,
  Repeated,     \* violations from which punishment is half as hard again (5)
  Persistent,   \* violations from which it is twice as hard (10)
  Goods,        \* good requests the tenant may have behind it at the start
  MaxReports,   \* bound on the reports of a behaviour
  NoKey,        \* value of a record that is not stored
  Never         \* an instant that never was

Stored == [score : 0..Full, violation_count : Nat, good_requests : Nat,
           last_violation : Int \cup {Never}, last_activity : Int, ttl : Nat]

ASSUME ReputationAssumption ==
  /\ Skew \in Nat /\ MaxDelay \in Nat /\ MaxRetries \in Nat /\ MaxReports \in Nat
  /\ Offset \in [Callers -> (-Skew)..Skew]
  /\ Full \in Nat /\ Full > 0 /\ Full % 2000 = 0
  /\ Rapid \in Nat /\ Quiet \in Nat /\ Hour \in Nat
  /\ 0 < Rapid /\ Rapid <= Quiet /\ 2 * Quiet <= Hour /\ Hour % 2 = 0
  /\ Repeated \in Nat /\ Persistent \in Nat /\ 1 < Repeated /\ Repeated < Persistent
  /\ 2 < Persistent
  /\ Goods \subseteq Nat
  /\ NoKey \notin Stored /\ Never \notin Int

VARIABLES
  rec,       \* the Redis hash of the tenant, or NoKey
  call,      \* call[c]: how far the request c is
  reports,   \* reports made so far, bounded by MaxReports
  watch      \* history: when the record was last written, and other instants

vars == <<rec, call, reports, watch>>

Least(a, b)    == IF a < b THEN a ELSE b
Greatest(a, b) == IF a < b THEN b ELSE a

\* GetReputationThreshold: 0.3
Threshold == (3 * Full) \div 10
Banned == rec # NoKey /\ rec.score <= Threshold

Longest == 8 * Hour     \* the longest lifetime of a record

Request ==
  [stage  : {"idle", "tenant", "endpoint"},       \* the layer c is at
   report : {"none", "good", "violation"},        \* what it is telling Redis
   stamp  : Int,                                  \* argument "now" of the report
   left   : 0..MaxDelay,                          \* what is left of its time
   tries  : 0..MaxRetries]

Idle == [stage |-> "idle", report |-> "none", stamp |-> 0, left |-> 0, tries |-> 0]

TypeOK ==
  /\ rec \in Stored \cup {NoKey}
  /\ rec # NoKey => rec.ttl \in 1..Longest
  /\ call \in [Callers -> Request]
  /\ \A c \in Callers : call[c].report # "none" => call[c].stage # "idle"
  /\ reports \in 0..MaxReports
  /\ watch \in [written : 0..Hour,          \* time since the last run of the script
                violation : Int \cup {Never}, \* when a violation was last run
                before : Nat,             \* good requests before the first violation
                \* how long the tenant has been banned and none of its requests got in
                shut : 0..(Longest + MaxDelay + 1)]

-----------------------------------------------------------------------------
(* improvedReputationScript *)

\* A score that fell below 1.0 without a violation recovers by itself.
TimeRecovered(r, now) ==
  LET idle == now - r.last_activity
  IN  IF r.violation_count = 0 /\ r.score < Full /\ idle > Quiet
      THEN Least(Full, r.score + Least(Full \div 20, (idle * Full) \div (10 * Hour)))
      ELSE r.score

\* What a violation costs, by the good requests and violations before it.
BaseImpact(good) == Greatest(Full \div 20, Least((3 * Full) \div 20, Full \div (good + 1)))

Impact(r) ==
  LET nth == r.violation_count + 1
      base == BaseImpact(r.good_requests)
  IN  IF nth >= Persistent THEN 2 * base
      ELSE IF nth >= Repeated THEN (3 * base) \div 2 ELSE base

\* Also for a stamp older than the last one: the difference is negative.
IsRapid(r, now) == r.last_violation # Never /\ now - r.last_violation < Rapid

Penalty(r, now) == IF IsRapid(r, now) THEN Full \div 5 ELSE 0

\* Mutant of AfterViolation: the extra penalty is not floored.
AfterViolationUnfloored(r, now) ==
  [r EXCEPT !.score = Greatest(0, TimeRecovered(r, now) - Impact(r)) - Penalty(r, now),
            !.violation_count = @ + 1,
            !.last_violation = now,
            !.last_activity = now]

AfterViolation(r, now) ==
  LET hit == Greatest(0, TimeRecovered(r, now) - Impact(r))
  IN  [r EXCEPT !.score = Greatest(0, hit - Penalty(r, now)),
                !.violation_count = @ + 1,
                !.last_violation = now,
                !.last_activity = now]

\* 0.005 * (1 - min(0.8, 0.1 n)) / sqrt(n), rounded down.
Gain(n) ==
  LET q == (Full \div 2000) * (10 - Least(8, n))
  IN  CHOOSE g \in 0..(Full \div 200) : g * g * n <= q * q /\ (g + 1) * (g + 1) * n > q * q

\* Mutant of Recovered: violators recover as fast as the others.
RecoveredFast(score, n) == Least(Full, score + Full \div 50)

\* What a good request makes of a score with n violations.
Recovered(score, n) ==
  Least(Full, score + (IF n > 0 THEN Least(Full \div 50, Gain(n)) ELSE Full \div 50))

\* Mutant of AfterGood: both branches write the same fields.
AfterGoodMarks(r, now) ==
  [r EXCEPT !.score = Recovered(TimeRecovered(r, now), r.violation_count),
            !.good_requests = @ + 1,
            !.last_violation = now,
            !.last_activity = now]

AfterGood(r, now) ==
  [r EXCEPT !.score = Recovered(TimeRecovered(r, now), r.violation_count),
            !.good_requests = @ + 1,
            !.last_activity = now]

\* Mutant of Ttl: the order of the comparisons hides the lowest scores.
TtlGoodFirst(r) ==
  IF r.score < (7 * Full) \div 10 /\ r.score >= Full \div 10 THEN Hour ELSE Hour \div 2

\* EXPIRE
Ttl(r) ==
  LET base == IF r.score < Full \div 10 THEN 4 * Hour
              ELSE IF r.score < (3 * Full) \div 10 THEN 2 * Hour
              ELSE IF r.score < (7 * Full) \div 10 THEN Hour
              ELSE Hour \div 2
  IN  IF r.violation_count >= Persistent THEN 2 * base ELSE base

\* What the script finds.
Found(now) ==
  IF rec = NoKey
  THEN [score |-> Full, violation_count |-> 0, good_requests |-> 0,
        last_violation |-> Never, last_activity |-> now, ttl |-> 0]
  ELSE rec

\* The whole script, for a report of c.
Script(c) ==
  LET now == call[c].stamp
      bad == call[c].report = "violation"
      new == IF bad THEN AfterViolation(Found(now), now) ELSE AfterGood(Found(now), now)
  IN  /\ rec' = [new EXCEPT !.ttl = Ttl(new)]
      /\ watch' = [watch EXCEPT !.written = 0,
                                !.violation = IF bad THEN 0 ELSE @,
                                !.before = IF bad /\ Found(now).violation_count = 0
                                           THEN new.good_requests ELSE @]

-----------------------------------------------------------------------------
(* The requests of the tenant *)

Init ==
  /\ \/ rec = NoKey
     \/ \E g \in Goods :
          rec = [score |-> Full, violation_count |-> 0, good_requests |-> g,
                 last_violation |-> Never, last_activity |-> 0, ttl |-> Hour \div 2]
  /\ call = [c \in Callers |-> Idle]
  /\ reports = 0
  /\ watch = [written |-> 0, violation |-> Never, before |-> 0, shut |-> 0]

\* GetTenantReputation; an error reads as 1.0.
Standing(unread) == IF unread \/ rec = NoKey THEN Full ELSE rec.score

\* c gets past the global layer.
GetsIn(c) ==
  /\ \E layer \in {"tenant", "endpoint"} :    \* the tenant layer may be off
       call' = [call EXCEPT ![c] = [Idle EXCEPT !.stage = layer, !.left = MaxDelay]]
  /\ watch' = [watch EXCEPT !.shut = 0]
  /\ UNCHANGED <<rec, reports>>

\* Mutant of Arrive: turning a request away is reported as a violation.
ArriveReports(c) ==
  /\ call[c].stage = "idle"
  /\ \E over, unread \in BOOLEAN :
       IF over /\ Standing(unread) <= Threshold
       THEN /\ reports < MaxReports
            /\ reports' = reports + 1
            /\ call' = [call EXCEPT ![c] = [stage |-> "endpoint", report |-> "violation",
                          stamp |-> Offset[c], left |-> MaxDelay, tries |-> 0]]
            /\ UNCHANGED <<rec, watch>>
       ELSE GetsIn(c)

\* The global layer.  Over the limit, and if the check did not fail, a tenant of
\* low standing is turned away.
Arrive(c) ==
  /\ call[c].stage = "idle"
  /\ \E over, unread \in BOOLEAN :
       IF over /\ Standing(unread) <= Threshold THEN UNCHANGED vars ELSE GetsIn(c)

\* Where c goes when its layer is done with it.
PassedOn(c) ==
  IF call[c].stage = "tenant" /\ call[c].report # "violation"
  THEN [call[c] EXCEPT !.stage = "endpoint", !.report = "none", !.stamp = 0, !.tries = 0]
  ELSE Idle

\* The check of a limit failed: the layer lets c through and reports nothing.
FailOpen(c) ==
  /\ call[c].stage # "idle" /\ call[c].report = "none"
  /\ call' = [call EXCEPT ![c] = PassedOn(c)]
  /\ UNCHANGED <<rec, reports, watch>>

\* The verdict of the layer's limit, whatever it is, is sent with a stamp.
Report(c) ==
  /\ call[c].stage # "idle" /\ call[c].report = "none"
  /\ reports < MaxReports
  /\ reports' = reports + 1
  /\ \E verdict \in {"good", "violation"} :
       call' = [call EXCEPT ![c].report = verdict, ![c].stamp = Offset[c]]
  /\ UNCHANGED <<rec, watch>>

\* The script runs and answers; or its answer is lost and the client sends it
\* again with the stamp it had.
UpdateReputation(c) ==
  /\ call[c].report # "none"
  /\ Script(c)
  /\ \/ call' = [call EXCEPT ![c] = PassedOn(c)]
     \/ call[c].tries < MaxRetries /\ call' = [call EXCEPT ![c].tries = @ + 1]
  /\ UNCHANGED reports

\* The script does not run; the error is only logged.
Lose(c) ==
  /\ call[c].report # "none"
  /\ call' = [call EXCEPT ![c] = PassedOn(c)]
  /\ UNCHANGED <<rec, reports, watch>>

-----------------------------------------------------------------------------
(* Time *)

\* An instant, seen one unit later.  A stamp under way is at most MaxDelay + Skew
\* back, so a violation Rapid before that is not rapid fire for any of them.
Recede(i, horizon) == IF i = Never THEN Never ELSE Greatest(i - 1, -horizon)

ViolationHorizon == Rapid + MaxDelay + 2 * Skew
ActivityHorizon  == Hour + MaxDelay + Skew

Later(r) == [r EXCEPT !.ttl = @ - 1,
                      !.last_violation = Recede(@, ViolationHorizon),
                      !.last_activity = Recede(@, ActivityHorizon)]

\* One unit of time passes in Redis and on the hosts.
Tick ==
  /\ \A c \in Callers : call[c].stage # "idle" => call[c].left > 0
  /\ call' = [c \in Callers |->
                IF call[c].stage = "idle" THEN Idle
                ELSE [call[c] EXCEPT !.left = @ - 1,
                        !.stamp = IF call[c].report = "none" THEN 0 ELSE @ - 1]]
  /\ rec' = IF rec = NoKey \/ rec.ttl = 1 THEN NoKey ELSE Later(rec)
  /\ watch' = [watch EXCEPT
                 !.written = Least(@ + 1, Hour),
                 !.violation = Recede(@, ViolationHorizon),
                 !.shut = IF Banned' THEN Least(@ + 1, Longest + MaxDelay + 1) ELSE 0]
  /\ UNCHANGED reports

\* Redis restarts without the record.
RedisRestart ==
  /\ rec # NoKey
  /\ rec' = NoKey
  /\ watch' = [watch EXCEPT !.shut = 0]
  /\ UNCHANGED <<call, reports>>

-----------------------------------------------------------------------------

Next ==
  \/ \E c \in Callers : Arrive(c) \/ FailOpen(c) \/ Report(c)
                        \/ UpdateReputation(c) \/ Lose(c)
  \/ Tick \/ RedisRestart

Spec == Init /\ [][Next]_vars

-----------------------------------------------------------------------------
(* Properties *)

\* A score is lowered by violations alone: without one it is full, however late,
\* often or seldom the script ran.  Both branches that let a score without
\* violations recover are therefore never taken, contrary to what documents
\* promise a tenant that has kept quiet (RecoversWithTime).
CleanIsPerfect == rec # NoKey /\ rec.violation_count = 0 => rec.score = Full

\* Two violations, rapid fire or not, leave a tenant above the threshold.
BanNeedsThree == Banned => rec.violation_count >= 3

\* What a violation costs takes ten good requests or more to buy back: the score
\* lies a twentieth below full for each violation, but for a two-hundredth per
\* good request since the first of them.
NotBoughtBack ==
  rec # NoKey /\ rec.violation_count \in 1..20 =>
    rec.score + rec.violation_count * (Full \div 20)
      <= Full + (rec.good_requests - watch.before) * (Full \div 200)

\* The score is explained by what the same record has counted.
ScoreIsEarned == CleanIsPerfect /\ BanNeedsThree /\ NotBoughtBack

\* Rapid fire is measured between stamps that come late, out of order and from
\* clocks that disagree, yet is never found between violations that were run
\* further apart than those two can account for.
RapidWithin ==
  \A c \in Callers :
    /\ rec # NoKey /\ call[c].report = "violation"
    /\ IsRapid(rec, call[c].stamp)
    => watch.violation # Never /\ 0 - watch.violation < Rapid + MaxDelay + 2 * Skew

\* A ban ends by a good request or by Redis forgetting the tenant, and Redis
\* forgets it no sooner than an hour after the last report; not by a violation,
\* by a request that is turned away or by mere time.
BanEndsInOneOfTwoWays ==
  \/ \E c \in Callers : call[c].report = "good" /\ UpdateReputation(c)
  \/ rec' = NoKey /\ watch.written + 1 >= Hour
  \/ RedisRestart
PardonIsEarned == [][Banned /\ ~Banned' => BanEndsInOneOfTwoWays]_vars

\* A tenant whose requests are all turned away is not banned for ever: its
\* record is gone after the time of the requests under way and the longest
\* lifetime.
BanIsFinite == Banned => watch.shut <= Longest + MaxDelay

\* reputation.go:32 and docs/limiter_package.md:293 promise that a score below
\* 1.0 recovers by itself after ten minutes without violations.  The script asks
\* for a record without any violation instead, and such a score is never low.
RecoversWithTime ==
  \A c \in Callers :
    LET now == call[c].stamp
    IN  /\ rec # NoKey /\ call[c].report # "none"
        /\ rec.score < Full /\ now - rec.last_activity > Quiet
        => TimeRecovered(rec, now) > rec.score
=============================================================================
