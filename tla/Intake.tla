------------------------------- MODULE Intake --------------------------------
(***************************************************************************)
(* What becomes of a configuration and of a request before a limit is       *)
(* asked: LoadConfigs and the validator (config/init.go, validator.go), the *)
(* first rule that matches (internal/shared/map.go), the tenant key         *)
(* (internal/shared/tenant_parser.go), Classifier, and the Redis keys and   *)
(* parameters with which the limits are then asked (internal/limiter).      *)
(* A text is a sequence of tokens, of which only those the code looks at    *)
(* are told apart: "/", "*", ":", "_", a space, and "#" for what sanitising *)
(* drops; all others are whole words.                                       *)
(***************************************************************************)
EXTENDS Integers, SequencesExt

CONSTANTS
  Configs,      \* what the files and the environment may hold
  Requests,     \* requests that may come
  KeyLength,    \* tokens of a tenant key (128)
  Nil           \* no pointer, no rule, no configuration

Levels     == {"global", "tenant", "endpoint"}
Parameters == {"capacity", "refill_rate", "refill_period", "leak_rate",
               "leak_period", "limit", "window_size"}

Tokens  == {"/", "*", ":", "_", " ", "#", "a", "b", "ip1", "ip2"}
Texts   == Seq(Tokens)
Methods == {"GET", "get", "POST", "FETCH"}

\* The parameters an algorithm needs; of no other algorithm there is one.
Needs ==
  [token_bucket   |-> {"capacity", "refill_rate", "refill_period"},
   leaky_bucket   |-> {"capacity", "leak_rate", "leak_period"},
   fixed_window   |-> {"limit", "window_size"},
   sliding_window |-> {"limit", "window_size"}]
Algorithms == DOMAIN Needs

AlgorithmConfig == [algorithm : Algorithms \cup {"", "other"},
                    given : [Parameters -> {"nil", "zero", "positive"}]]
Level           == [enabled : BOOLEAN, limit : AlgorithmConfig]
TenantStrategy  == [type : {"ip", "header", "cookie", "query_parameter", "other"},
                    key : BOOLEAN]      \* it names what to look for
EndpointRule    == [path : Texts, methods : Seq(Methods), bypass : BOOLEAN,
                    strategy : TenantStrategy \cup {Nil}, limit : AlgorithmConfig]

Ports == 0..65535

\* In the environment a port that is not set, no number or no 16 bits is -1.
ProxyConfig == [proxyPort : Ports, metricsPort : Ports, dryRun : BOOLEAN]
Environment == [proxyPort : Ports \cup {-1}, metricsPort : Ports \cup {-1},
                dryRun : {"", "true", "other"}]

Config  == [proxy : ProxyConfig, global : Level, tenant : Level, rules : Seq(EndpointRule)]

Request == [path : Texts, method : Methods,
            \* what is found where the strategy of a rule looks for the tenant
            sent : [{"header", "cookie", "query_parameter"} -> Texts],
            realIP : Texts,              \* X-Real-IP
            forwarded : Seq(Texts),      \* X-Forwarded-For, split at commas
            remote : Texts]              \* the host of RemoteAddr

Faults == {"unknown", "panic", "zero", "none"}

\* What becomes of a request: the rule is 0 if none matched.
Outcome == [request : Requests, rule : Nat, tenant : Texts,
            fate : {"unmatched", "bypass", "no_tenant", "limited"},
            asked : SUBSET Levels, fault : [Levels -> Faults]]

ASSUME IntakeAssumption ==
  /\ \A c \in Configs : c.file \in Config /\ c.env \in Environment
  /\ Requests \subseteq Request
  /\ KeyLength \in Nat
  /\ Nil \notin Config \cup TenantStrategy \cup Outcome

VARIABLES
  cfg,       \* the configuration the process runs with; Nil before, or if refused
  status,    \* "loading", "refused" or "running"
  served     \* served[i]: what became of the i-th request that is watched, or Nil

intakeVars == <<cfg, status, served>>

-----------------------------------------------------------------------------
(* Configuration *)

\* loadProxyConfig: what the environment sets takes the place of the file's value.
Overridden(file, env) ==
  [proxyPort   |-> IF env.proxyPort = -1 THEN file.proxyPort ELSE env.proxyPort,
   metricsPort |-> IF env.metricsPort = -1 THEN file.metricsPort ELSE env.metricsPort,
   dryRun      |-> IF env.dryRun = "" THEN file.dryRun ELSE env.dryRun = "true"]

ValidProxy(p) ==
  /\ p.proxyPort \in 1024..65535 /\ p.metricsPort \in 1024..65535
  /\ p.proxyPort # p.metricsPort

\* Mutant of ValidAlgorithm: zero passes.
ValidAlgorithmIfGiven(a) ==
  /\ a.algorithm \in Algorithms
  /\ \A p \in Needs[a.algorithm] : a.given[p] # "nil"

ValidAlgorithm(a) ==
  /\ a.algorithm \in Algorithms
  /\ \A p \in Needs[a.algorithm] : a.given[p] = "positive"

ValidStrategy(t) == t.type # "other" /\ (t.type # "ip" => t.key)

Upper(m) == IF m = "get" THEN "GET" ELSE m

\* A rule that bypasses the limits is not looked at further.
ValidRule(e) ==
  /\ e.path # <<>>
  /\ ~e.bypass =>
       /\ \A m \in Range(e.methods) : Upper(m) # "FETCH"
       /\ e.strategy # Nil => ValidStrategy(e.strategy)
       /\ ValidAlgorithm(e.limit)

\* Nor is a level that is switched off.
ValidLimiter(c) ==
  /\ c.global.enabled => ValidAlgorithm(c.global.limit)
  /\ c.tenant.enabled => ValidAlgorithm(c.tenant.limit)
  /\ \A e \in Range(c.rules) : ValidRule(e)

-----------------------------------------------------------------------------
(* The rule of a request *)

NormalizePath(path) ==
  LET rooted == IF path # <<>> /\ Head(path) = "/" THEN path ELSE <<"/">> \o path
  IN  IF Len(rooted) > 1 /\ Last(rooted) = "/" THEN Front(rooted) ELSE rooted

\* A bare "*" has become "/*", which is every path.
PathMatches(rulePath, requestPath) ==
  LET rule == NormalizePath(rulePath)
      request == NormalizePath(requestPath)
      prefix == SubSeq(rule, 1, Len(rule) - 2)
  IN  \/ rule = request
      \/ /\ IsSuffix(<<"/", "*">>, rule)
         /\ IsPrefix(prefix \o <<"/">>, request) \/ request = prefix

MethodMatches(methods, method) ==
  methods = <<>> \/ \E m \in Range(methods) : Upper(m) = Upper(method)

Matches(e, req) == PathMatches(e.path, req.path) /\ MethodMatches(e.methods, req.method)

\* The first rule that matches, by its index; 0 if none does.
MapRequestToEndpointConfig(req, rules) == SelectInSeq(rules, LAMBDA e : Matches(e, req))

-----------------------------------------------------------------------------
(* The tenant of a request *)

\* strings.Map on the first n tokens: ":" is kept, and so is every word.
Cleaned(text) ==
  LET kept[n \in 0..Len(text)] ==
        IF n = 0 THEN <<>>
        ELSE IF text[n] \in {" ", "#", "/", "*"} THEN kept[n - 1]
        ELSE Append(kept[n - 1], text[n])
  IN  kept

\* Mutant of Sanitize: a long text is not cut.
SanitizeUncut(text) == Cleaned(text)[Len(text)]

Sanitize(text) ==
  LET cleaned == Cleaned(text)[Len(text)]
  IN  SubSeq(cleaned, 1, IF Len(cleaned) > KeyLength THEN KeyLength ELSE Len(cleaned))

ExtractIP(req) ==
  IF req.realIP # <<>> THEN req.realIP
  ELSE IF req.forwarded # <<>> /\ req.forwarded[1] # <<>> THEN req.forwarded[1]
  ELSE req.remote

\* What the strategy finds; a header is trimmed.
Found(req, strategy) ==
  CASE strategy.type = "ip"     -> ExtractIP(req)
    [] strategy.type = "header" ->
         IF Range(req.sent["header"]) \subseteq {" "} THEN <<>> ELSE req.sent["header"]
    [] OTHER -> req.sent[strategy.type]

\* An absent value falls back to the address, before anything is dropped of it.
TenantKey(req, strategy) ==
  IF strategy = Nil \/ Found(req, strategy) = <<>>
  THEN Sanitize(ExtractIP(req))
  ELSE Sanitize(Found(req, strategy))

-----------------------------------------------------------------------------
(* What the limits are asked *)

\* strings.Join(methods, "_")
JoinMethods(methods) ==
  [i \in 1..2 * Len(methods) - 1 |-> IF i % 2 = 0 THEN "_" ELSE methods[(i + 1) \div 2]]

\* Texts with a colon between them.
Joined(text, rest) == text \o (<<":">> \o rest)

\* Mutant of RedisKey: rules for the same path share a key.
RedisKeyOfPath(level, e, tenant) ==
  CASE level = "global"   -> <<"global">>
    [] level = "tenant"   -> Joined(<<"pertenant">>, tenant)
    [] level = "endpoint" -> Joined(<<"perendpoint">>, Joined(e.path, tenant))

\* constructRedisKey, without the prefix all keys have
RedisKey(level, e, tenant) ==
  CASE level = "global"   -> <<"global">>
    [] level = "tenant"   -> Joined(<<"pertenant">>, tenant)
    [] level = "endpoint" ->
         Joined(<<"perendpoint">>, Joined(JoinMethods(e.methods), Joined(e.path, tenant)))

LimitOf(level, e) ==
  CASE level = "global"   -> cfg.global.limit
    [] level = "tenant"   -> cfg.tenant.limit
    [] level = "endpoint" -> e.limit

\* The levels that are asked: in a dry run all of them, whether on or not.
Asked ==
  IF cfg.proxy.dryRun THEN Levels
  ELSE {"endpoint"} \cup (IF cfg.global.enabled THEN {"global"} ELSE {})
                    \cup (IF cfg.tenant.enabled THEN {"tenant"} ELSE {})

\* checkLimit and the start of the limiters: an algorithm there is none of is an
\* error, a parameter that is not there a panic; zero goes to the script.
Fault(a) ==
  IF a.algorithm \notin Algorithms THEN "unknown"
  ELSE IF \E p \in Needs[a.algorithm] : a.given[p] = "nil" THEN "panic"
  ELSE IF \E p \in Needs[a.algorithm] : a.given[p] = "zero" THEN "zero"
  ELSE "none"

-----------------------------------------------------------------------------

NoFault == [l \in Levels |-> "none"]

IntakeTypeOK ==
  /\ status \in {"loading", "refused", "running"}
  /\ cfg # Nil <=> status = "running"
  /\ status = "running" => cfg \in Config
  /\ served \in [1..2 -> Outcome \cup {Nil}]
  /\ \A i \in 1..2 : served[i] # Nil => Len(served[i].tenant) <= KeyLength

IntakeInit == cfg = Nil /\ status = "loading" /\ served = [i \in 1..2 |-> Nil]

\* LoadConfigs: a configuration that is not valid ends the process.
LoadConfigs ==
  /\ status = "loading"
  /\ \E raw \in Configs :
       LET loaded == [raw.file EXCEPT !.proxy = Overridden(@, raw.env)]
       IN  IF ValidProxy(loaded.proxy) /\ ValidLimiter(loaded)
           THEN cfg' = loaded /\ status' = "running"
           ELSE cfg' = Nil /\ status' = "refused"
  /\ UNCHANGED served

\* A request without a rule, or with one that bypasses the limits, is passed on.
Bypass(i, req) ==
  LET n == MapRequestToEndpointConfig(req, cfg.rules)
  IN  /\ n # 0 => cfg.rules[n].bypass
      /\ served' = [served EXCEPT ![i] =
           [request |-> req, rule |-> n, fate |-> IF n = 0 THEN "unmatched" ELSE "bypass",
            tenant |-> <<>>, asked |-> {}, fault |-> NoFault]]

\* The tenant is found and the limits are asked; no strategy of an unknown type.
Limit(i, req) ==
  LET n == MapRequestToEndpointConfig(req, cfg.rules)
      e == cfg.rules[n]
      lost == e.strategy # Nil /\ e.strategy.type = "other"
  IN  /\ n # 0 /\ ~e.bypass
      /\ served' = [served EXCEPT ![i] =
           IF lost
           THEN [request |-> req, rule |-> n, fate |-> "no_tenant",
                 tenant |-> <<>>, asked |-> {}, fault |-> NoFault]
           ELSE [request |-> req, rule |-> n, fate |-> "limited",
                 tenant |-> TenantKey(req, e.strategy), asked |-> Asked,
                 fault |-> [l \in Levels |->
                              IF l \in Asked THEN Fault(LimitOf(l, e)) ELSE "none"]]]

\* ClassifierMiddleware and what it hands the limits.
Classify(i) ==
  /\ status = "running" /\ served[i] = Nil
  /\ \E req \in Requests : Bypass(i, req) \/ Limit(i, req)
  /\ UNCHANGED <<cfg, status>>

IntakeNext == LoadConfigs \/ \E i \in 1..2 : Classify(i)

IntakeSpec == IntakeInit /\ [][IntakeNext]_intakeVars

-----------------------------------------------------------------------------
(* Properties *)

Keys(o) == {<<l, RedisKey(l, cfg.rules[o.rule], o.tenant)>> : l \in o.asked}

\* What the validator let pass is what the process runs with.
Validated ==
  status = "running" => ValidProxy(cfg.proxy) /\ ValidLimiter(cfg)

\* What became of a request is what its rule says, whenever it came.
Classified ==
  \A i \in 1..2 : served[i] # Nil =>
    LET o == served[i]
        e == cfg.rules[o.rule]
    IN  /\ status = "running"
        /\ o.rule = MapRequestToEndpointConfig(o.request, cfg.rules)
        /\ o.fate = "unmatched" <=> o.rule = 0
        /\ o.fate = "bypass" <=> o.rule # 0 /\ e.bypass
        /\ o.fate = "no_tenant" => e.strategy # Nil /\ e.strategy.type = "other"
        /\ o.fate # "limited" => o.asked = {} /\ o.fault = NoFault
        /\ o.fate = "limited" =>
             /\ o.asked = Asked /\ o.tenant = TenantKey(o.request, e.strategy)
             /\ \A l \in Levels :
                  o.fault[l] = IF l \in Asked THEN Fault(LimitOf(l, e)) ELSE "none"

\* Why BucketsFit and CheckedIsValid hold: the inductive invariant of the proof.
IntakeInv == IntakeTypeOK /\ Validated /\ Classified

\* Two requests draw on one endpoint key only by the same rule and for the same
\* tenant, whatever signs the tenant has, if no path of a rule has a colon; and
\* no key of one level is one of another.
BucketsSeparate ==
  (status = "running" /\ \A e \in Range(cfg.rules) : ":" \notin Range(e.path)) =>
    \A i, j \in 1..2 :
      (served[i] # Nil /\ served[j] # Nil) =>
        \A k \in Keys(served[i]), k2 \in Keys(served[j]) :
          k[2] = k2[2] =>
            /\ k[1] = k2[1]
            /\ k[1] = "endpoint" => served[i].rule = served[j].rule
            /\ k[1] # "global" => served[i].tenant = served[j].tenant

\* q differs from r only by the case of its method and by one slash more at the end
\* of its path.
Respelled(r, q) ==
  /\ r.path # <<>> /\ Last(r.path) # "/"
  /\ q.path \in {r.path, r.path \o <<"/">>}
  /\ [q EXCEPT !.path = r.path, !.method = Upper(@)] = [r EXCEPT !.method = Upper(@)]

\* A request that is spelled in another way meets the same limits: nobody gets past
\* a rule or to another bucket by it.
SpellingDoesNotMatter ==
  \A i, j \in 1..2 :
    (served[i] # Nil /\ served[j] # Nil /\ Respelled(served[i].request, served[j].request)) =>
      /\ served[i].fate = served[j].fate
      /\ Keys(served[i]) = Keys(served[j])

\* Each bucket belongs to one rule and tenant, and no spelling evades it.
BucketsFit == BucketsSeparate /\ SpellingDoesNotMatter

\* A running process asks no limit whose parameters are missing, zero or of an
\* unknown algorithm, but for a level that is switched off, in a dry run; and it
\* finds a tenant for each request that is to be limited.  Its ports are two and
\* may be bound by a user, whatever the environment has set.
CheckedIsValid ==
  /\ status = "running" => ValidProxy(cfg.proxy)
  /\ \A i \in 1..2 : served[i] # Nil =>
       /\ served[i].fate # "no_tenant"
       /\ \A l \in Levels : served[i].fault[l] # "none" =>
            /\ cfg.proxy.dryRun
            /\ \/ l = "global" /\ ~cfg.global.enabled
               \/ l = "tenant" /\ ~cfg.tenant.enabled
=============================================================================
