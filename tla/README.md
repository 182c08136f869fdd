# TrafficCTRL: specification, model checking and proofs

TrafficCTRL is a reverse proxy that limits the rate of requests. Several proxy
hosts share their state through one Redis; a Redis key per limit is updated by
Lua scripts that run atomically. This directory holds TLA+ modules for the
limiters, the reputation of tenants, the middleware chain, the intake of
configurations and requests and the life of the process, TLC configurations that
check them on small instances, and TLAPS proofs for every instance.

## The system

| Component | State | Operations | Talks to |
| --- | --- | --- | --- |
| Limiters (`internal/limiter/{token_bucket,leaky_bucket,fixed_window,sliding_window}.go`) | one Redis hash per key: configuration hash, tokens / level / count / one counter per second, instant of the last refill, lifetime | one script call per check; the stamp `now` is taken on the host before the call | Redis, through go-redis |
| Dispatch (`limiter.go`) | none | picks the algorithm, builds the key of a level, hashes the configuration | limiters |
| Redis client (`client.go`) | a pool | resends a script whose answer was lost, with its default options | Redis |
| Reputation (`reputation.go`) | per tenant: score, violations, good requests, time stamps, lifetime | `UpdateReputation`, `GetTenantReputation` | Redis |
| Middleware (`internal/middleware`) | the context of each request: bypass flag, rule, tenant key, Redis context | Recovery, Metadata, Classifier, DryRun, Global, Tenant, Endpoint, in this order | dispatch, reputation, metrics, proxy |
| Proxy (`internal/proxy/proxy.go`) | none | forwards, copies the answer, panics when the copy breaks off | backend |
| Server (`server.go`, `cmd/ctrl/main.go`) | two HTTP servers, signal and error channels | start, graceful shutdown | everything |
| Rules and tenants (`internal/shared`) | none | first matching rule, tenant key of a request | classifier |
| Configuration (`config`) | a snapshot, fixed at the start of the process | load, validate | everything |
| Metrics, logger | counters | increments | - |

What is hard in it:

- Stamps. `now` is read on the host, the script runs later in Redis, and the
  hosts' clocks differ. Scripts see stamps late and out of order, while the
  lifetime of a key is counted by Redis' own clock.
- Calls that are run twice (go-redis resends; the scripts are not idempotent),
  not at all, or without an answer. All errors fail open.
- Rolling deployments: hosts with different configurations share a key and each
  resets what the other wrote.
- Requests of one tenant race through three levels, each level a separate Redis
  call; what a narrower level rejects has been charged at the broader ones.
- Panics: a nil result in a dry run, or an aborted copy of the backend's answer,
  end in the Recovery layer, which forwards the request again.

What makes each part correct: a limiter never grants more than its configuration
pays for, tells a refused caller the right wait, and forgets a key only when that
gives nothing away; the chain gives each request one fate, lets none through
without the checks that are on, and keeps its counters straight; the reputation
follows what happened to the requests; the server ends when it is told to.

## The modules

| Module | What it is |
| --- | --- |
| `Quota` | the abstract contract of a limiter key: a grant spends one unit below the limit of the asking configuration, a denial means its limit is spent, units come back at some time |
| `ScriptCalls` | the environment all four limiters share: clock, stamps, delay, skew, resends, lost calls, redeployments. No Next of its own; the limiters extend it |
| `TokenBucket`, `LeakyBucket`, `FixedWindow`, `SlidingWindow` | one limiter each: the key, what the script does to it, expiry, a Redis restart |
| `ScriptCallsProofs` | lemmas about arithmetic, stamps and calls that the proofs about the limiters share |
| `TokenBucketProofs`, `LeakyBucketProofs`, `FixedWindowProofs`, `SlidingWindowProofs` | the theorems about these limiters |
| `AdmissionProofs`, `ReputationProofs` | the theorems about the chain and the reputation |
| `ProcessProofs` | the theorems about the process: its life, and the configuration and requests it takes in |
| `Admission` | the middleware chain: concurrent requests, Redis calls that fail or repeat, reputation updates, metrics, panics, the proxy |
| `Reputation` | the record of one tenant: its script, lifetime, readers and reports |
| `Intake` | what becomes of a configuration and of a request before a limit is asked: validation, the rule, the tenant, the Redis keys |
| `Lifecycle` | `main`, `StartServer` and the two listeners: start, signals, errors, shutdown, exit |
| `Process` | the two together: where `main` loads the configuration and the proxy takes in requests |
| `MC...` | values for the constants of the runs |

`LeakyBucket` is shown to implement `TokenBucket`, and `TokenBucket`,
`FixedWindow` and `SlidingWindow` to implement `Quota`. `Admission` uses what
`Quota` promises, with the units of a key as a number, in place of an algorithm.

### How the limiters correspond to the code

`Begin(c)` is the line `now := time.Now().UnixMilli()` of each limiter and the
sending of `Eval`; `call[c].at` is Redis' time at that moment and `Stamp(c)` the
`now` the script receives. `Grant` and `Refuse` are a whole run of the script,
one for each verdict, as Redis runs it atomically. Both include what happens to
the reply: it arrives, or is lost for good (the request then fails open), or is
lost and the client sends the same script again. `Drop` is a call that never
reaches Redis. `Restart` is a host that comes back with another configuration,
its calls gone. `Tick` is a unit of Redis' clock, with the removal of a key whose
lifetime is over; `RedisRestart` loses the key.

The operators of each module are the steps of its script: `Fresh` / `OpensWindow`
the branches for a missing key and for a changed hash, `Periods`, `Tokens` and
`LastRefill` (`Level`, `LastLeak`; `Count`, `Start`; `Kept`, `InWindow`) what is
found after the refill or the clean-up, `Admits` the comparison, `Ttl` the
argument of `EXPIRE`, `RetryAfter` the third value of the answer. The branch of
the bucket scripts for a changed hash writes and returns on its own; as a fresh
bucket refills nothing and has room for one request, it is the same step as the
general path. The hash of a configuration stands for the configuration (SHA-256
of its JSON). `Remaining` is left out: nothing in the program depends on it.

`watch` is history, read by properties only. In the bucket modules it counts the
grants of one configuration from a nondeterministically chosen grant on, so that
the bound on it is a bound for every starting point. In the window modules it
keeps the grants the properties need.

The hash of `SlidingWindow` has a field per second, with the number of requests it
counts. The model keeps the requests instead, numbered within their second: second
`b` at 2 is `{<<b, 1>>, <<b, 2>>}`. `Count` is `HINCRBY`, the sum of the fields of
a window is the cardinality of what is in it, and the stamps of `watch` are counted
in the same way. `TypeOK` says that the numbers of a second run from 1 without a
gap, so that set and field say the same.

### How Admission corresponds to the code

A request is at a `stage`; each stage up to its next Redis call or to the proxy
is one action of the request's goroutine, with all the code between. `Check` is
the last attempt of a limiter call: it grants, denies, or fails, and when it
fails the script may have run. `AnswerLost` is an earlier attempt that ran. The
5 s context all calls share is not a clock here: any call may fail, and so every
way the context can end is among the behaviours. The score of a reputation is
any: `ReadStanding` may find a tenant above or below the threshold. `rep[r]`
keeps what was added for `r` to the record of its tenant. The fields `charged`,
`denied`, `lost`, `faulted` and `forwards` of `seen` are history; `faulted` has
the levels whose check failed without spending a unit.

The layers that are off or bypassed do nothing but call the next one, so they
are part of the step before (`ToLimits`, `ToGlobal`, `ToTenant`). Recovery is
part of the steps that panic: `DryVerdict` after an error of a check, and `Abort`.
`Bypassed` is each of the three ways in which Classifier sets the bypass flag.

### How Reputation corresponds to the code

`Script(c)` is one run of `improvedReputationScript` for the report of request
`c`, with the branches `AfterViolation` and `AfterGood`, the recovery over time
`TimeRecovered` in front of them, and `Ttl` for `EXPIRE`. `Arrive` is the global
layer, which reads the record (`Standing`, where an error reads as a score of 1)
and turns a tenant away when the global limit is spent. `Report` is the verdict of
the tenant or of the endpoint layer with the stamp it takes, `UpdateReputation` a
run of the script whose answer arrives or is lost and resent with the same stamp,
`Lose` a report that does not run, `FailOpen` a layer whose check failed and that
reports nothing.

A score is a whole number of parts of `Full`; the gain of a good request, a
quotient by a square root in the code, is rounded down. The record lives for
hours while the calls live for seconds, so there is no clock: instants are kept
relative to the present, and `Recede` stops them where no comparison of the script
can tell them apart any more (`ViolationHorizon`, `ActivityHorizon`). `watch` is
history: when the script last ran, when a violation last ran, the good requests
before the first violation, and how long the tenant has been banned without one
of its requests getting in.

### How Intake corresponds to the code

`LoadConfigs` takes the values of a file, lets the environment override the ports
and the dry run, validates, and refuses or runs. A file that is missing or is no
YAML is refused before that and is left out. `Classify` is Classifier for one
request: the first rule that matches, the tenant by the strategy of the rule, and
with them the keys and parameters that the limiters are asked with. `served`
holds two requests to compare. Texts are sequences of tokens, so that prefixes,
suffixes, joining, sanitising and cutting are the code's own operations; each
kind of place a tenant is looked for (header, cookie, parameter) is one place.
Nothing is assumed about the paths of requests: `http.ServeMux` redirects most that
are not canonical, but an encoded slash can leave an empty segment. The operators
of `Intake` that describe its behaviour are `IntakeInit`, `IntakeNext` and
`IntakeSpec`, as its proofs share a module with those of `Lifecycle`.

### How Lifecycle corresponds to the code

`main` and `starter` are the program counters of the two goroutines, `listener`
those of the goroutines that serve. The channels are `quit` (room for one signal;
more are dropped by `signal.Notify`), `shutdown` (closed is `main = "stopping"`),
`errChan` and `serverErrChan` (`result`). A `select` with several ready cases is a
choice. `Shutdown` waits for the requests of a server until the shared deadline;
the requests that are left are `cut` when the process exits. After a return of
`main` the Redis client is closed by a deferred call before the process ends
(`closed`), after `os.Exit` it is not. A signal before `signal.Notify` kills the
process.

### How Process corresponds to the code

`Start` is the one step that belongs to both: `main` calls `LoadConfigs` and panics
on its error, and `NewLogger` may fail after it. `TakeIn` classifies a request only
while the proxy is served; every other step of either leaves the other alone
(`Alone`). `Followed` is a bound. With the configurations in it the process may be
disturbed by signals, failures and connections as long as no request is watched;
with any other it starts, takes in the two watched requests, and nothing else
happens to it. Nothing is lost by that: the steps of the one neither read nor write
what the other has, but for `Start` and the guard of `TakeIn`.

## The runs

| Run | Shows | Bounds |
| --- | --- | --- |
| `token_bucket` | type invariant; the proof's invariant `RateInv`; `RateBound`: grants within capacity plus refills from any grant on; `RetryExact`: the answered wait suffices, a call before its end is granted only if the key has expired, and never where the rate is at most the capacity; `ExpiryIsEarned`; `RefillsStayOnGrid`; `IsQuota` | 2 hosts, clocks one unit behind and ahead of Redis, delay 1, one resend, 3 configurations (capacity 1, 1 per 2; capacity 3, 2 per 3; capacity 1, 4 per 8), clock 4..16 |
| `leaky_bucket` | `IsTokenBucket`: refinement of the token bucket, step by step; `RetryExact` | as above, clock 4..13 |
| `fixed_window` | `WindowBound`: no window over its limit, whatever arrives late and across expiry; `WindowsOnlyAdvance`; `RetryExact`; `IsQuota` | 3 hosts, skew 1, delay 1, one resend, windows of 3 and 2, clock 6..18 |
| `sliding_window` | `TrailingBound`: what one-second counters do guarantee; `RetryWithin`; `ExpiryForgetsNothing`; `IsQuota` | 2 hosts, skew and delay of half a second, one resend, windows of 4 s and 2 s, clock 8..24 |
| `admission` | `OneFate`, `Enforced` (each level enforces its limit or fails open, whatever fails at the others), `NoSelfRejection`, `RejectedLeavesNoTrace`, `DryRunTransparent`, `MetricsBalance` | 2 requests of one tenant, one unit per key, one lost answer per request; dry run, all levels on, only endpoint on; symmetry of the requests |
| `admission_ends` | `EveryRequestAnswered` | 1 request, every configuration, one lost answer |
| `reputation` | `ScoreIsEarned`: a score without violations is full, a ban takes three, and what a violation costs takes ten good requests to buy back; `RapidWithin`; `PardonIsEarned`: how a ban ends; `BanIsFinite` | 2 requests on hosts one unit behind and ahead, delay 1, one resend, 3 reports; rapid fire within 2, an hour of 4, escalation from 2 and 4 violations, 0, 7 or 18 good requests before |
| `process` | `BucketsFit`: no bucket belongs to two rules or two tenants, no spelling gets a second one; `CheckedIsValid`; `GraceGiven`, `ExitTellsWhy`, `ProcessEnds` | all pairs of 25 requests under two rules of 6 paths and 2 method lists each, one limit of 26 shapes at any level, on or off, dry run or not, one rule of any strategy, ports in files and environment; tenant keys of 3 tokens; the whole life with one configuration, 2 connections to the proxy, 1 to the metrics |
| `sliding_limit`, `sliding_retry`, `reputation_recovery`, `dry_run_panics` | violations, see below | smaller; exact clocks, no delay and no resend in those of limiters and reputation |

Why the bounds are enough. The clock runs for longer than a full refill, the
lifetime of a key and a second filling after it, so that every run includes an
expiry with late stamps around it. The configurations of the buckets have a rate
equal to the capacity, below it (and not dividing it, so that the lifetime is not
whole periods) and above it (so that the key dies before the wait of a refusal is
over); two of them suffice for one host to undo what another wrote. Skew and delay
of one unit each already reorder stamps by three units, more than the shortest
period. One resend
runs a script twice; a third run adds nothing the second does not. In `Admission`
one unit per key makes two requests compete for the last unit at every level.
The buffer of the lifetime, 60 s in the code, is the fewest whole seconds that
`BufferAssumption` allows, so that nothing holds because the buffer is generous.

In `Reputation` three reports with a resend each are up to six violations, which
is more than any threshold of that run; `Full` is 2000, the fewest parts in which
the constants of the script are whole. The durations keep the order they have in
the code (rapid fire < idle time < half an hour < an hour) but not their ratio.
The run has no bound on time, because instants are relative. In `Intake` a rule is
compared with one other, which is all that an injective key is about.

In `Lifecycle` weak fairness is assumed of `main`, of `StartServer`, of the
goroutines of the two servers and of the timer of the deadline: the scheduler of
Go runs what can run. Nothing is assumed of signals, failures and requests, and a
request may hang for ever. Deadlock checking is off in `process` because it ends.

In `Admission` the bound `Resends` counts the answers lost to a request over all
its calls. Deadlock checking is off in its runs, because the requests end and then
nothing is left to do; it is on in the runs of the limiters and the reputation.
With the number of lost answers bounded only `admission_ends` needs a fairness
assumption: weak fairness of `Serve(r)`. A goroutine that can go on is scheduled;
each Redis call ends by the 5 s context of Classifier; the backend answers or its
connection breaks. The code has no deadline for a backend that is silent for ever,
so this last part is an assumption about the backend. The first step of a request
is not fair: it need not come. That run has one request, as no request ever waits
for another; its other script runs stand for the requests that use up its units.

### Where documents and code differ

Each of the first four is a run that ends in a violation; the others follow from
passing runs or are plain from the code.

- `sliding_limit`: a grant is counted in its second, floored, and so leaves the
  window up to a second too early. docs/limiter_package.md:229 promises the limit
  in any window. `TrailingBound` states what holds: the limit in any span of the
  window less a second and less the lag.
- `sliding_retry`: docs/limiter_package.md:25 calls `retry_after` the time until
  the next allowed request. The sliding window includes its lower edge and
  `retry_after` ends on it, so that a caller who waits exactly as told is refused
  once more. `RetryWithin` states what holds: one unit more is enough, plus the lag
  of stamps if a clock ahead has cleaned up.
- `reputation_recovery`: the comment of reputation.go:32 and
  docs/limiter_package.md:293 promise that a score below 1.0 recovers over time
  after ten minutes without violations; docs/limiter_package.md:289 and :309 and
  reputation_test.go:176-183 speak of users without violations whose score is low.
  The code asks for a record that never had a violation, and the score of such a
  record is full (`CleanIsPerfect` in `ScoreIsEarned`), so neither recovery is ever
  granted: only good requests buy a score back.
- `dry_run_panics`: after a failed check the dry run dereferences a nil result.
  docs/middleware_package.md:191 promises that it passes every request to the
  next handler; it panics, and Recovery's fallback forwards the request.
- docs/limiter_package.md:25 again, of the token bucket and from the other side:
  the next allowed request may come sooner. The validator accepts a rate above
  the capacity (config/validator.go:125-130), and then the lifetime of the key, a
  full refill and 60 s, may be shorter than the period that the wait runs to.
  With capacity 1, rate 100 and a period of an hour the key is gone after 96 s
  and a fresh bucket grants, while `retry_after` was up to an hour. The leaky
  bucket does the same. `RetryExact` states what holds of both: the wait is
  always enough, nothing but an expiry ends it sooner, and none does where the
  rate is at most the capacity. `RateBound` is not affected: the tokens of the
  fresh bucket have been earned by then.
- docs/limiter_package.md:247 calls `GoodRequests` the total of successful
  requests. The tenant and the endpoint layer both report a good request
  (tenant_limit.go:53, endpoint_limit.go:52), so that a success counts twice.
- docs/limiter_package.md:282 speaks of multiple violations within a second. A
  violation that is resent has the stamp of its first run and counts as rapid
  fire, so one refused request can cost three violations, which may be a ban.
- The comment of limiter.go:101 shows an endpoint key with `|` between its parts;
  the code joins them with `:`, which tenants may hold and, as nothing checks
  them, paths too. `BucketsFit` therefore asks that no path of a rule has a colon:
  without that, rule `/a` for the tenant `b:c` and rule `/a:b` for `c` share a
  bucket.
- A tenant value of characters that sanitising drops gives the empty tenant, as
  the fallback to the address is decided before; all such clients share it.

## What is proved

`TokenBucketProofs` proves, for all sets of callers and configurations and all
values of the constants that the assumptions allow:

| Theorem | Property |
| --- | --- |
| `RateInvariance` | `RateInv`, the inductive invariant |
| `TypeCorrect` | `TypeOK` |
| `RateBounded` | `RateBound` |
| `RetryIsExact` | `RetryExact` |
| `ExpiryEarned` | `ExpiryIsEarned` |
| `GridKept` | `RefillsStayOnGrid` |
| `ImplementsQuota` | `IsQuota` |

Assumptions. `CallsAssumption` gives the constants their types; an offset is
within the skew. `TokenAssumption` is what the validator demands of a token
bucket (positive capacity, rate and period), with values for a missing key.
`BufferAssumption`, `MaxDelay + 2 * Skew <= Buffer * Sec`, is what the lifetime
of a key rests on: 60 s of buffer against a call that ends within 5 s, which
leaves room for clocks that are 27 s off. Nothing in the code bounds the skew of
hosts; beyond that, a key may expire before it is full.

The argument. `RateBound` is not inductive: it says nothing about the tokens that
are still in the bucket, nor about what is left once the key has expired. `RateInv`
adds, beside types and stamps, `LiveRate` (grants made *and tokens left* are paid
for by one capacity and by refills up to the last one), `ExpiredRate` (with no key,
grants are paid for by refills alone, counted up to the earliest stamp that may
still arrive, so that a new full bucket may be handed out) and `KeyInTime` (the
refill instant is not ahead of the skew, the lifetime is that of the last write). A
grant moves one unit from tokens to grants; a refill adds at most its rate per
period; the step from `LiveRate` to `ExpiredRate` at an expiry is lemma `Expiry`,
where the lifetime (`TtlCovers`) and the buffer are used; the step back is a fresh
bucket in `FoundBucket`. `RetryExact` and `ExpiryIsEarned` follow from `RateInv`.
That the wait is enough is arithmetic on the refill (`EmptyBucket`: a refused call
finds the bucket empty until its period is over); that no key expires before it
where the rate is at most the capacity is `LifetimeCovers`: the lifetime is then at
least a period, the delay and twice the skew. `ImplementsQuota` maps the initial
state to the initial state and each action to a `Grant`, a `Deny`, `Forget` or a
stutter.

The other modules are proved in the same way: an invariant that is inductive, one
lemma per action or group of like actions, and the properties from it. Divisions,
remainders and the calls under way are dealt with once, in `ScriptCallsProofs`
(`DivBounds`, `MultipleMod`, `LifetimeCovers`, `StampRange`, `CallsStep`,
`CallsTick`).

| Module | Theorem | Property |
| --- | --- | --- |
| `FixedWindowProofs` | `TypeCorrect`, `WindowBounded`, `WindowsAdvance`, `RetryIsExact`, `ImplementsQuota` | `TypeOK`, `WindowBound`, `WindowsOnlyAdvance`, `RetryExact`, `IsQuota` |
| `SlidingWindowProofs` | `TypeCorrect`, `TrailingBounded`, `RetryIsWithin`, `ExpiryLosesNothing`, `ImplementsQuota` | `TypeOK`, `TrailingBound`, `RetryWithin`, `ExpiryForgetsNothing`, `IsQuota` |
| `LeakyBucketProofs` | `TypeCorrect`, `RetryIsExact`, `ImplementsTokenBucket` | `TypeOK`, `RetryExact`, `IsTokenBucket` |
| `AdmissionProofs` | `TypeCorrect`, `OneFateEach`, `LimitsEnforced`, `NobodyRejectsItself`, `RejectionLeavesNoTrace`, `DryRunIsTransparent`, `MetricsAreBalanced` | `TypeOK`, `OneFate`, `Enforced`, `NoSelfRejection`, `RejectedLeavesNoTrace`, `DryRunTransparent`, `MetricsBalance` |
| `ReputationProofs` | `TypeCorrect`, `ScoresAreEarned`, `RapidFireIsNear`, `BansAreFinite`, `PardonsAreEarned` | `TypeOK`, `ScoreIsEarned`, `RapidWithin`, `BanIsFinite`, `PardonIsEarned` |
| `ProcessProofs` (`Lifecycle`) | `TypeCorrect`, `GraceIsGiven`, `ExitCodeTellsWhy` | `TypeOK`, `GraceGiven`, `ExitTellsWhy` |
| `ProcessProofs` (`Process`) | `ProcessIsBoth` | the process implements `Lifecycle` and `Intake`, so that it has their properties |
| `ProcessProofs` (`Intake`) | `IntakeTypeCorrect`, `BucketsAlwaysFit`, `OnlyValidIsAsked` | `IntakeTypeOK`, `BucketsFit`, `CheckedIsValid` |

`FixedWindowProofs` rests on `CallsAssumption`, `WindowAssumption` and
`BufferAssumption`. `WindowBound` speaks of the grants of a window that may be long
over, so `WindowInv` ties them to the key: while the key lives its count is the
number of grants, its window is on the grid and it outlives every stamp of its
window (`KeyWatched`); once it is gone, every stamp that can still arrive is of a
later window (`WindowClosed`). Expiry leads from the one to the other, and there
the buffer is used. `WindowsAdvance` needs both: an open window is only left for a
later one, and after an expiry there is no earlier one to open.

`SlidingWindowProofs` rests on `CallsAssumption` and `SlidingAssumption` (positive
limits and windows, values for a missing key) and needs `BufferAssumption` for
`ExpiryLosesNothing` and for the steps of `Tick`. `TrailingBound` is about grants
whose counters may be cleaned up, by callers whose clocks disagree, so it is not
inductive. `SlidingInv` adds `KeyInTime` (the key and the history are of one
configuration and no stamp is ahead of the last grant by more than the skew) and
`RecentCounted`: each grant whose second no call so far can have cleaned up is
counted by a hit of its own in that second, and once the key is gone there is no
such grant. A hit of its own is an injection from these grants into the hits, which
says of all seconds at once what a sum per second would say, and needs no induction
over seconds. A clean-up removes only hits outside it (`GrantEffect`, `DropOld`), a
grant adds one pair (`GrantRecent`), time only makes its domain smaller
(`TickStep`). When a request is granted, the other grants of its span are all in
the domain and their hits in the window that was just counted (`OwnHits`), hence
fewer than the limit (`GrantTrailing`); a span that ends at an earlier stamp loses
nothing by it. For `RetryIsWithin`, `OldestFound` shows that the oldest second
exists by the well-foundedness of the naturals, and `FullWindow` that a refusal
finds the whole limit in the window and so removes nothing.

`LeakyBucketProofs` needs the buffer for `RetryIsExact`. `LevelInv` is types,
stamps, a level within the capacity, and a leak instant that is not ahead of Redis
by more than the skew; `RetryExact` follows from it as in the token bucket.
`ImplementsTokenBucket` maps the level to the room that is left and each call to
itself; `DualScript` shows that the refill of the one is the leak of the other.
Both use the same lifetime, so that the key expires in both at once. It carries no
claim about rates by itself; `RateBounded` of the token bucket holds of what it is
mapped to.

`AdmissionProofs` assumes finitely many requests, positive limits and any number of
resends. `OneFate` and `Enforced` speak of the end of a request, so `ChainInv` says
what each stage has left behind: `Configured` (which stages the configuration
allows), `Fate` (when it has been forwarded), `Denied` and `Passed` (what the
broader levels answered it, each on its own, unless its check failed), `NoTrace`
and `NoTraceOnce` (what it cannot have touched yet). These speak of one request at
a time, so that a step of another request cannot disturb them: `OneStep` reduces
every action to the request that takes it. What is shared is in `KeysOK`, no key
over its limit, and `CountersOK`. The counters are cardinalities, and `CountChange`
says how one request entering or leaving a set changes it. `MetricsBalance` needs a
fact that no property states: requests that are still open are counted by `total`
and by nothing else.

`ReputationProofs` rests on `ReputationAssumption`, which keeps of the durations of
the script only their order, that an hour is at least twice the idle time, and
that the shares of a score are whole parts. `RepInv` adds what a record says of
itself (`Earned`: no violations means a full score, one leaves 17/20, two leave
17/40, and above that a bound that each violation and each good request moves by
its share), what the last violation's stamp can be (`Traced`), how old calls can
be (`CallOK`) and that a banned record lives for an hour after the last report
and no longer than the longest lifetime (`BanKept`). The gain of a good request
contains the integer root of a count; `GainRange` shows that it exists by the
well-foundedness of the naturals and bounds the gain by a two-hundredth.
`RapidWithin` is where skew and delay enter: a stamp is as old as its run but for
`MaxDelay + Skew`.

The first half of `ProcessProofs` allows any number of connections and any capacity
of `errChan`, and so does not depend on the capacity being 2 (that none of its
senders blocks is not needed for safety; that the process ends is checked by TLC).
`LifeInv` adds `Startup` (nothing runs before `StartServer`), `Draining` (who has
been shut down at each point, and that `main` ends only after `StartServer` did)
and `Causes` (what is in a channel was sent for a reason).

The second half is about every set of configurations and requests, with texts of
any length. `IntakeAssumption` only gives them their types, and says that `Nil` is
none of the values it stands beside. `IntakeInv` adds `Validated` (what runs has
passed the validator) and `Classified` (what became of a request is what its rule
says, under the configuration that is still the one that runs). What it takes to
get from there to the properties is about texts:

- `ReadJoined`: a text that is joined by a colon to one without a colon is read in
  one way. A list of methods has none, the path of a rule is asked to have none,
  and the tenant comes last and may have any (`EndpointKeyInjective`). That methods
  can be read back from their joined text is `JoinInjective`: each is one token, so
  it stands at an odd place. `KeyRead` puts the three kinds of key together.
- `SameRule`: of two rules with one path and one list of methods the first takes
  every request of both. So a bucket is of one rule although a key is made of the
  path and the methods of a rule only.
- `SlashNormalized`: `NormalizePath` takes off a slash that is added at the end,
  whether the path begins with one or not. Hence a respelled request matches the
  same rules and is of the same tenant (`SameRequest`).
- `CleanedText` and `SanitizedText`: what the sanitiser keeps is a text that fits
  the key. Its recursion over the text has no induction theorem to rest on, so the
  proof takes the least place where it would fail (`LeastNat`).

`OnlyValidIsAsked` needs `RuleOfRequest`: the rule of a request is one of those the
validator has looked at, and one that does not bypass has valid parameters and a
strategy that is known, so that the error of an unknown strategy never occurs.

### What is only model-checked

- `EveryRequestAnswered` and `ProcessEnds`: liveness under fairness is beyond the
  prover.
- The runs that end in a violation.

## What is not modelled

- Periods and windows below a millisecond, which the validator accepts and
  `Milliseconds()` turns into 0; `Retry-After` cut to seconds; headers.
- Doubles: the scores of `Reputation` are exact fractions, rounded down.
- Lua's limits: doubles beyond 2^53 and the number of arguments of `unpack` in
  the clean-up of the sliding window.
- The settings of Redis and the logger, the URL of the backend, YAML, TLS, the
  pool of the client, logging, histograms: input, output and libraries.

`PROJECT.json` lists every component and hazard with its line, and says of each
hazard which property covers it.

## Plan

Done, in this order: the environment of the scripts and the token bucket with its
proofs; the other limiters and their contract; the chain; reputation, intake and
lifecycle; the proofs about all of them.

Left, by what it would add:

1. What the chain and the limiters promise together: that the units `Admission`
   counts are those of `Quota`, as a theorem rather than by construction.
2. Durations below a millisecond, which the scripts divide by, and `Retry-After`
   of less than a second, once there is a promise in the documents to hold against.
3. The limit of `unpack` in the clean-up of the sliding window.
4. The loading of the settings of Redis and the logger.
