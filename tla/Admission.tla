----------------------------- MODULE Admission ------------------------------
(***************************************************************************)
(* The middleware chain of internal/middleware as StartServer builds it:   *)
(* Recovery, Metadata, Classifier, DryRun, Global, Tenant, Endpoint, proxy.*)
(* Requests go through it concurrently, one goroutine each, and share what *)
(* Redis holds: a limiter key per level and tenant, of which only the      *)
(* contract of module Quota matters here, and the reputation of a tenant,   *)
(* of which only what a request adds to it is kept: its score may be any.  *)
(* Every Redis call is a step of its own: it may be run again because its  *)
(* answer was lost, run without an answer, or fail without being run.  Any *)
(* of the calls of a request may fail, so that every way its 5 s for all   *)
(* of them can run out, or its client go away, is among the behaviours.    *)
(***************************************************************************)
EXTENDS Integers, FiniteSets

CONSTANTS
  Requests,       \* requests, each served once
  Tenants,        \* tenant keys
  TenantOf,       \* TenantOf[r]: the tenant of request r
  Limit,          \* Limit[l]: units of a key at level l
  Configs,        \* configurations the server may be started with
  Resends         \* bound on the answers lost to a request whose script is resent

Levels == {"global", "tenant", "endpoint"}

ASSUME AdmissionAssumption ==
  /\ IsFiniteSet(Requests)
  /\ TenantOf \in [Requests -> Tenants]
  /\ Limit \in [Levels -> Nat \ {0}]
  /\ Configs \subseteq [dryRun : BOOLEAN, global : BOOLEAN, tenant : BOOLEAN]
  /\ Resends \in Nat

\* A global key is shared; the other levels have a key for each tenant.
KeyOf(l, t) == IF l = "global" THEN <<l>> ELSE <<l, t>>
Keys == {KeyOf(l, t) : l \in Levels, t \in Tenants}

Verdicts == {"granted", "denied", "error"}

Stages == {"new", "dry_global", "dry_tenant", "dry_endpoint",
           "global", "standing", "tenant", "tenant_bad", "tenant_good",
           "endpoint", "endpoint_bad", "endpoint_good",
           "proxy", "upstream", "done"}

VARIABLES
  cfg,        \* the configuration the server was started with
  req,        \* req[r]: where r is in the chain and what its context carries
  spent,      \* spent[k]: units of limiter key k that are spent
  rep,        \* rep[r]: what r added to the reputation of its tenant
  metrics,    \* counters of metrics.go
  seen        \* history: what happened to each request on the way

vars == <<cfg, req, spent, rep, metrics, seen>>

Request == [stage : Stages,
            bypass : BOOLEAN,      \* BypassKey
            tracked : BOOLEAN,     \* counted by TrackRequest, not yet undone
            over : BOOLEAN,        \* the global script denied it
            broken : BOOLEAN,      \* a dry-run result is nil
            fallback : BOOLEAN,    \* served by the fallback of Recovery
            answer : {"none", "backend", "aborted"} \cup Levels]   \* level of a 429

Counters == {"total", "inflight", "allowed", "denied"}

TypeOK ==
  /\ cfg \in Configs
  /\ req \in [Requests -> Request]
  /\ spent \in [Keys -> Nat]
  /\ \A t \in Tenants : \A l \in Levels : spent[KeyOf(l, t)] <= Limit[l]
  /\ rep \in [Requests -> [good : Nat, violations : Nat]]
  /\ metrics \in [Counters -> Nat]
  /\ seen \in [Requests -> [charged : SUBSET Levels, denied : SUBSET Levels,
                            lost : 0..Resends, faulted : SUBSET Levels, forwards : 0..2]]

Arriving ==
  [stage |-> "new", bypass |-> FALSE, tracked |-> FALSE, over |-> FALSE,
   broken |-> FALSE, fallback |-> FALSE, answer |-> "none"]

Init ==
  /\ cfg \in Configs
  /\ req = [r \in Requests |-> Arriving]
  /\ spent = [k \in Keys |-> 0]
  /\ rep = [r \in Requests |-> [good |-> 0, violations |-> 0]]
  /\ metrics = [m \in Counters |-> 0]
  /\ seen = [r \in Requests |-> [charged |-> {}, denied |-> {}, lost |-> 0,
                                 faulted |-> {}, forwards |-> 0]]

-----------------------------------------------------------------------------
(* The order of the chain: where a request goes next, with the layers that  *)
(* are switched off or bypassed left out.                                   *)

ToEndpoint == "endpoint"
ToTenant   == IF cfg.tenant THEN "tenant" ELSE ToEndpoint
ToGlobal   == IF cfg.global THEN "global" ELSE ToTenant

\* Past the Classifier with a tenant key; dry run ignores the enabled flags.
ToLimits   == IF cfg.dryRun THEN "dry_global" ELSE ToGlobal

Move(r, stage) == req' = [req EXCEPT ![r].stage = stage]

\* The counters in up grow by one, the in-flight gauge shrinks if r leaves it.
Count(up, leaves) ==
  metrics' = [m \in Counters |->
    metrics[m] + (IF m \in up THEN 1 ELSE 0)
               - (IF m = "inflight" /\ leaves THEN 1 ELSE 0)]

-----------------------------------------------------------------------------
(* Redis *)

\* The script of level l, if it ran for r, found a unit to spend.
Spends(r, l, ran) == ran /\ spent[KeyOf(l, TenantOf[r])] < Limit[l]

\* Mutant of Script: a denied request is counted too.
ScriptCountsDenied(r, l, ran, past) ==
  /\ spent' = [spent EXCEPT ![KeyOf(l, TenantOf[r])] = IF ran THEN @ + 1 ELSE @]
  /\ seen' = [seen EXCEPT ![r] = past]

\* What the script of level l leaves if it ran for r: one unit is spent if there
\* is one.  The history of r goes on from past.
Script(r, l, ran, past) ==
  /\ spent' = [spent EXCEPT ![KeyOf(l, TenantOf[r])] =
                 IF Spends(r, l, ran) THEN @ + 1 ELSE @]
  /\ seen' = [seen EXCEPT ![r] =
                [past EXCEPT !.charged = IF Spends(r, l, ran) THEN @ \cup {l} ELSE @]]

\* Mutant of Answer: the script looks at what is left after it has counted.
AnswerAfterCounting(r, l, verdict) ==
  LET units == spent[KeyOf(l, TenantOf[r])] + 1
  IN  CASE verdict = "granted" -> units < Limit[l]
        [] verdict = "denied"  -> units >= Limit[l]
        [] verdict = "error"   -> TRUE

Answer(r, l, verdict) ==
  LET units == spent[KeyOf(l, TenantOf[r])]
  IN  CASE verdict = "granted" -> units < Limit[l]
        [] verdict = "denied"  -> units = Limit[l]
        [] verdict = "error"   -> TRUE

\* The last attempt of a limiter call: an error says nothing of the script.  The
\* history keeps the levels whose check failed without spending a unit.
Check(r, l, verdict) ==
  /\ Answer(r, l, verdict)
  /\ \E ran \in BOOLEAN :
       /\ verdict # "error" => ran
       /\ Script(r, l, ran,
            [seen[r] EXCEPT
               !.denied = IF verdict = "denied" THEN @ \cup {l} ELSE @,
               !.faulted = IF verdict = "error" /\ ~Spends(r, l, ran) THEN @ \cup {l} ELSE @])

\* A run of the reputation script.
Rate(r, violation) ==
  rep' = [rep EXCEPT ![r].good = IF violation THEN @ ELSE @ + 1,
                     ![r].violations = IF violation THEN @ + 1 ELSE @]

\* The last attempt of UpdateReputation, whose errors are only logged.
UpdateReputation(r, violation) ==
  /\ Rate(r, violation) \/ UNCHANGED rep
  /\ UNCHANGED seen

\* The script of each stage.
LevelAt == [dry_global |-> "global", dry_tenant |-> "tenant", dry_endpoint |-> "endpoint",
            global |-> "global", tenant |-> "tenant", endpoint |-> "endpoint"]
IsViolation == [tenant_bad |-> TRUE, endpoint_bad |-> TRUE,
                tenant_good |-> FALSE, endpoint_good |-> FALSE]

\* A script runs but its answer is lost, and the client sends it again.
AnswerLost(r) ==
  LET at == req[r].stage
      past == [seen[r] EXCEPT !.lost = @ + 1]
  IN  /\ seen[r].lost < Resends
      /\ \/ /\ at \in DOMAIN LevelAt
            /\ Script(r, LevelAt[at], TRUE, past)
            /\ UNCHANGED rep
         \/ /\ at \in DOMAIN IsViolation
            /\ Rate(r, IsViolation[at])
            /\ seen' = [seen EXCEPT ![r] = past]
            /\ UNCHANGED spent
      /\ UNCHANGED <<cfg, req, metrics>>

-----------------------------------------------------------------------------
(* The layers *)

\* No rule matched, a rule with the bypass flag, or no tenant key.
Bypassed(r) ==
  /\ req[r].stage = "new"
  /\ req' = [req EXCEPT ![r].stage = "proxy", ![r].bypass = TRUE]
  /\ UNCHANGED <<cfg, spent, rep, metrics, seen>>

Classified(r) ==
  /\ req[r].stage = "new"
  /\ req' = [req EXCEPT ![r].stage = ToLimits, ![r].tracked = TRUE]
  /\ Count({"total", "inflight"}, FALSE)
  /\ UNCHANGED <<cfg, spent, rep, seen>>

\* The first two checks of a dry run: an error is logged and leaves a nil.
DryCheck(r, from, l, to) ==
  /\ req[r].stage = from
  /\ \E verdict \in Verdicts :
       /\ Check(r, l, verdict)
       /\ req' = [req EXCEPT ![r].stage = to, ![r].broken = @ \/ verdict = "error"]
  /\ UNCHANGED <<cfg, rep, metrics>>

\* Mutant of DryVerdict: the limits are enforced as well.
DryVerdictAndLimits(r) ==
  /\ req[r].stage = "dry_endpoint"
  /\ \E verdict \in Verdicts : Check(r, "endpoint", verdict)
  /\ Move(r, ToGlobal)
  /\ UNCHANGED <<cfg, rep, metrics>>

\* The last check, and the look at the results: all of them are dereferenced.
\* A nil panics and Recovery serves the request by its fallback;
\* the in-flight gauge is undone on the way up.
DryVerdict(r) ==
  /\ req[r].stage = "dry_endpoint"
  /\ \E verdict \in Verdicts :
       LET panics == req[r].broken \/ verdict = "error"
       IN  /\ Check(r, "endpoint", verdict)
           /\ req' = [req EXCEPT ![r].stage = "proxy",
                                 ![r].bypass = ~panics, ![r].broken = FALSE,
                                 ![r].fallback = panics,
                                 ![r].tracked = ~panics]
           /\ Count({}, panics)
  /\ UNCHANGED <<cfg, rep>>

\* Mutant of GlobalCheck: an error is retried for ever.
GlobalCheckAgain(r) ==
  /\ req[r].stage = "global"
  /\ \E verdict \in Verdicts :
       /\ Check(r, "global", verdict)
       /\ req' = [req EXCEPT ![r].stage = IF verdict = "error" THEN @ ELSE "standing",
                             ![r].over = verdict = "denied"]
  /\ UNCHANGED <<cfg, rep, metrics>>

\* Mutant of GlobalCheck: an error opens the whole chain.
GlobalCheckOpensAll(r) ==
  /\ req[r].stage = "global"
  /\ \E verdict \in Verdicts :
       /\ Check(r, "global", verdict)
       /\ req' = [req EXCEPT ![r].stage = IF verdict = "error" THEN "proxy" ELSE "standing",
                             ![r].over = verdict = "denied"]
  /\ UNCHANGED <<cfg, rep, metrics>>

GlobalCheck(r) ==
  /\ req[r].stage = "global"
  /\ \E verdict \in Verdicts :
       /\ Check(r, "global", verdict)
       /\ req' = [req EXCEPT
            ![r].stage = IF verdict = "error" THEN ToTenant ELSE "standing",
            ![r].over = verdict = "denied"]
  /\ UNCHANGED <<cfg, rep, metrics>>

\* Mutant of Reject: the rejection does not end the chain.
RejectAndGoOn(r, l) ==
  /\ req' = [req EXCEPT ![r].stage = "proxy", ![r].answer = l]
  /\ Count({"denied"}, FALSE)

\* 429: the chain ends here.
Reject(r, l) ==
  /\ req' = [req EXCEPT ![r].stage = "done", ![r].tracked = FALSE,
                        ![r].over = FALSE, ![r].answer = l]
  /\ Count({"denied"}, TRUE)

\* GetTenantReputation, whose errors read as a score of 1.0.  Over the global
\* limit only the tenants at or below the threshold are turned away.
ReadStanding(r) ==
  /\ req[r].stage = "standing"
  /\ \E low \in BOOLEAN :
       IF req[r].over /\ low
       THEN Reject(r, "global")
       ELSE /\ req' = [req EXCEPT ![r].stage = ToTenant, ![r].over = FALSE]
            /\ UNCHANGED metrics
  /\ UNCHANGED <<cfg, spent, rep, seen>>

TenantCheck(r) ==
  /\ req[r].stage = "tenant"
  /\ \E verdict \in Verdicts :
       /\ Check(r, "tenant", verdict)
       /\ Move(r, CASE verdict = "error"   -> ToEndpoint
                    [] verdict = "denied"  -> "tenant_bad"
                    [] verdict = "granted" -> "tenant_good")
  /\ UNCHANGED <<cfg, rep, metrics>>

\* Mutant of TenantRejects: the rejection counts as a good request.
TenantRejectsAsGood(r) ==
  /\ req[r].stage = "tenant_bad"
  /\ UpdateReputation(r, FALSE)
  /\ Reject(r, "tenant")
  /\ UNCHANGED <<cfg, spent>>

TenantRejects(r) ==
  /\ req[r].stage = "tenant_bad"
  /\ UpdateReputation(r, TRUE)
  /\ Reject(r, "tenant")
  /\ UNCHANGED <<cfg, spent>>

TenantPasses(r) ==
  /\ req[r].stage = "tenant_good"
  /\ UpdateReputation(r, FALSE)
  /\ Move(r, ToEndpoint)
  /\ UNCHANGED <<cfg, spent, metrics>>

EndpointCheck(r) ==
  /\ req[r].stage = "endpoint"
  /\ \E verdict \in Verdicts :
       /\ Check(r, "endpoint", verdict)
       /\ Move(r, CASE verdict = "error"   -> "proxy"
                    [] verdict = "denied"  -> "endpoint_bad"
                    [] verdict = "granted" -> "endpoint_good")
       /\ Count(IF verdict = "granted" THEN {"allowed"} ELSE {}, FALSE)
  /\ UNCHANGED <<cfg, rep>>

EndpointRejects(r) ==
  /\ req[r].stage = "endpoint_bad"
  /\ UpdateReputation(r, TRUE)
  /\ Reject(r, "endpoint")
  /\ UNCHANGED <<cfg, spent>>

EndpointPasses(r) ==
  /\ req[r].stage = "endpoint_good"
  /\ UpdateReputation(r, FALSE)
  /\ Move(r, "proxy")
  /\ UNCHANGED <<cfg, spent, metrics>>

-----------------------------------------------------------------------------
(* The proxy *)

Forward(r) ==
  /\ req[r].stage = "proxy"
  /\ Move(r, "upstream")
  /\ seen' = [seen EXCEPT ![r].forwards = @ + 1]
  /\ UNCHANGED <<cfg, spent, rep, metrics>>

Respond(r) ==
  /\ req[r].stage = "upstream"
  /\ req' = [req EXCEPT ![r].stage = "done", ![r].tracked = FALSE,
                        ![r].answer = IF @ = "none" THEN "backend" ELSE @]
  /\ Count({}, req[r].tracked)
  /\ UNCHANGED <<cfg, spent, rep, seen>>

\* Mutant of Abort: the gauge is undone only on a normal return.
AbortSkipsGauge(r) ==
  /\ req[r].stage = "upstream"
  /\ req' = [req EXCEPT ![r].stage = IF req[r].fallback THEN "done" ELSE "proxy",
                        ![r].answer = IF req[r].fallback THEN "aborted" ELSE @,
                        ![r].fallback = TRUE,
                        ![r].tracked = FALSE]
  /\ UNCHANGED <<cfg, spent, rep, metrics, seen>>

\* The copy of the backend's answer breaks off and ReverseProxy panics with
\* http.ErrAbortHandler.  Recovery catches that like any panic and forwards the
\* request once more; a panic of the fallback itself ends in net/http.
Abort(r) ==
  /\ req[r].stage = "upstream"
  /\ req' = [req EXCEPT ![r].stage = IF req[r].fallback THEN "done" ELSE "proxy",
                        ![r].answer = IF req[r].fallback THEN "aborted" ELSE @,
                        ![r].fallback = TRUE,
                        ![r].tracked = FALSE]
  /\ Count({}, req[r].tracked)
  /\ UNCHANGED <<cfg, spent, rep, seen>>

-----------------------------------------------------------------------------
(* What else happens in Redis *)

\* Units of a key come back: a refill, a leak, a new window, an expiry.
Replenish(k) ==
  /\ \E left \in 0..Limit[k[1]] : left < spent[k] /\ spent' = [spent EXCEPT ![k] = left]
  /\ UNCHANGED <<cfg, req, rep, metrics, seen>>

-----------------------------------------------------------------------------

\* What the goroutine of r does by itself.
Serve(r) ==
  \/ DryCheck(r, "dry_global", "global", "dry_tenant")
  \/ DryCheck(r, "dry_tenant", "tenant", "dry_endpoint")
  \/ DryVerdict(r)
  \/ GlobalCheck(r) \/ ReadStanding(r)
  \/ TenantCheck(r) \/ TenantRejects(r) \/ TenantPasses(r)
  \/ EndpointCheck(r) \/ EndpointRejects(r) \/ EndpointPasses(r)
  \/ Forward(r) \/ Respond(r) \/ Abort(r)

Next ==
  \/ \E r \in Requests :
       Bypassed(r) \/ Classified(r) \/ Serve(r) \/ AnswerLost(r)
  \/ \E k \in Keys : Replenish(k)

\* A goroutine that can go on does: it is scheduled, every Redis call ends by
\* its context, and the backend answers or breaks off.
Spec == Init /\ [][Next]_vars /\ \A r \in Requests : WF_vars(Serve(r))

-----------------------------------------------------------------------------
(* Properties *)

\* A request has one fate: a 429 and no trace at the backend, or the backend
\* and no 429; and the backend sees it twice only after its first answer broke
\* off.
OneFate ==
  \A r \in Requests :
    /\ req[r].answer \in Levels => seen[r].forwards = 0
    /\ req[r].stage = "done" /\ req[r].answer \notin Levels => seen[r].forwards > 0
    /\ seen[r].forwards > 1 => req[r].fallback

\* Nothing slips through, and a level fails open for itself alone: at the tenant
\* and endpoint levels that are on, a request that is forwarded has spent a unit
\* or its check failed there, and globally it has spent or been denied one or its
\* check failed, whatever failed at the other levels and whatever others did.
Enforced ==
  \A r \in Requests :
    seen[r].forwards > 0 /\ ~req[r].bypass /\ ~cfg.dryRun
    => /\ "endpoint" \in seen[r].charged \cup seen[r].faulted
       /\ cfg.tenant => "tenant" \in seen[r].charged \cup seen[r].faulted
       /\ cfg.global => "global" \in seen[r].charged \cup seen[r].denied \cup seen[r].faulted

\* A 429 rests on a denial by Redis at its own level and, unless a script was
\* run twice, on units that other requests spent: a request is not turned away
\* for a unit it holds itself.
NoSelfRejection ==
  \A r \in Requests : req[r].answer \in Levels =>
    /\ req[r].answer \in seen[r].denied
    /\ seen[r].lost = 0 => req[r].answer \notin seen[r].charged

\* A rejected request spends only at broader levels than the one that rejects
\* it, and leaves on its tenant's record no good request that a layer behind
\* the rejecting one counts: none when the tenant layer rejects it.
RejectedLeavesNoTrace ==
  \A r \in Requests :
    /\ req[r].answer = "global" =>
         seen[r].charged \subseteq {"global"} /\ rep[r].good + rep[r].violations = 0
    /\ req[r].answer = "tenant" =>
         "endpoint" \notin seen[r].charged /\ rep[r].good = 0
    /\ req[r].answer = "endpoint" /\ seen[r].lost = 0 =>
         rep[r].good <= (IF cfg.tenant THEN 1 ELSE 0) /\ rep[r].violations <= 1

\* A dry run turns nobody away and leaves no reputation behind.
DryRunTransparent ==
  cfg.dryRun =>
    \A r \in Requests : /\ req[r].answer \notin Levels
                        /\ rep[r].good + rep[r].violations = 0

\* The in-flight gauge counts the requests under way even if they panic, and
\* every classified request is counted as allowed or denied at most once.
MetricsBalance ==
  /\ metrics["inflight"] = Cardinality({r \in Requests : req[r].tracked})
  /\ metrics["denied"] = Cardinality({r \in Requests : req[r].answer \in Levels})
  /\ metrics["allowed"] + metrics["denied"] <= metrics["total"]

\* Every request that enters the chain is answered or its connection dropped.
EveryRequestAnswered ==
  \A r \in Requests : req[r].stage # "new" ~> req[r].stage = "done"

\* docs/middleware_package.md:191 says of a dry run that in all cases the
\* request is forwarded to the next handler: it does not take the fallback of
\* Recovery to get it to the backend.
DryRunPassesOn ==
  cfg.dryRun =>
    \A r \in Requests : req[r].stage = "proxy" /\ seen[r].forwards = 0 => ~req[r].fallback
=============================================================================
