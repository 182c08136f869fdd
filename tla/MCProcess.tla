------------------------------ MODULE MCProcess -----------------------------
\* Configurations of four families around one that is valid, and requests that
\* differ in path, method and what they say of their tenant.  The life of the
\* process is followed with the valid one, with three connections, two of them to
\* the proxy.
EXTENDS Process

MCServerOf == [r \in Connections |-> IF r = 3 THEN "metrics" ELSE "proxy"]

Only(a, bad, what) ==
  [algorithm |-> a, given |-> [p \in Parameters |->
     IF a \notin Algorithms THEN "nil" ELSE IF p \in bad THEN what
     ELSE IF p \in Needs[a] THEN "positive" ELSE "nil"]]
Sound == Only("token_bucket", {}, "nil")
Limits ==
  {Only(a, {}, "nil") : a \in Algorithms \cup {"", "other"}}
    \cup UNION {{Only(a, {p}, what) : p \in Needs[a], what \in {"nil", "zero"}} : a \in Algorithms}

ByHeader == [type |-> "header", key |-> TRUE]
Rule(path, methods, strategy) ==
  [path |-> path, methods |-> methods, bypass |-> FALSE, strategy |-> strategy, limit |-> Sound]
CatchAll == Rule(<<"*">>, <<>>, ByHeader)

File == [proxy  |-> [proxyPort |-> 8080, metricsPort |-> 8090, dryRun |-> FALSE],
         global |-> [enabled |-> TRUE, limit |-> Sound],
         tenant |-> [enabled |-> TRUE, limit |-> Sound],
         rules  |-> <<CatchAll>>]
Unset == [proxyPort |-> -1, metricsPort |-> -1, dryRun |-> ""]

\* Two rules of any paths and methods, the first perhaps a bypass.
Paths == {<<"/">>, <<"*">>, <<"/", "a">>, <<"/", "a", "/">>, <<"/", "a", "/", "*">>, <<"/", "a", ":", "b">>}
RulePairs ==
  {[File EXCEPT !.rules = <<[Rule(p1, m1, ByHeader) EXCEPT !.bypass = by], Rule(p2, m2, Nil)>>] :
     p1 \in Paths, p2 \in Paths, by \in BOOLEAN,
     m1 \in {<<"GET">>, <<"POST", "get">>}, m2 \in {<<>>, <<"GET">>}}

\* One level or rule whose parameters may be anything.
OneLimit ==
  UNION {{[File EXCEPT !.global.enabled = on, !.global.limit = a, !.proxy.dryRun = dry],
          [File EXCEPT !.tenant.enabled = on, !.tenant.limit = a, !.proxy.dryRun = dry],
          [File EXCEPT !.rules[1].limit = a, !.rules[1].bypass = ~on, !.proxy.dryRun = dry]} :
           on \in BOOLEAN, dry \in BOOLEAN, a \in Limits}

\* One rule of any strategy, methods or path.
OneRule ==
  {[File EXCEPT !.rules[1].strategy = [type |-> t, key |-> k], !.rules[1].bypass = by] :
     t \in {"ip", "header", "cookie", "query_parameter", "other"},
     k \in BOOLEAN, by \in BOOLEAN}
  \cup {[File EXCEPT !.rules[1].methods = <<"FETCH">>, !.rules[1].bypass = by] : by \in BOOLEAN}
  \cup {[File EXCEPT !.rules[1].path = p] : p \in {<<>>, <<"a">>, <<"/", "a", "/", "*", "/">>}}
  \cup {[File EXCEPT !.rules = <<>>]}

MCConfigs ==
  [file : RulePairs \cup OneLimit \cup OneRule, env : {Unset}]
  \cup [file : {File, [File EXCEPT !.proxy.proxyPort = 80]},
        env : [proxyPort : {-1, 80, 8080, 8090}, metricsPort : {-1, 8080, 9090},
               dryRun : {"", "true", "other"}]]

MCFollowed == {File}

Silent == [header |-> <<>>, cookie |-> <<>>, query_parameter |-> <<>>]
From(path, method, text) ==
  [path |-> path, method |-> method, sent |-> [f \in DOMAIN Silent |-> text],
   realIP |-> <<>>, forwarded |-> <<>>, remote |-> <<"ip1">>]
AtA == From(<<"/", "a">>, "GET", <<>>)

MCRequests ==
  {From(p, "GET", t) : p \in {<<"/">>, <<"/", "a">>, <<"/", "a", "/">>, <<"/", "a", "/", "b">>,
                              <<"/", "a", ":", "b">>},
                       t \in {<<"a">>, <<"b", ":", "a">>}}
  \cup {From(p, m, <<"a">>) : p \in {<<"/", "a">>, <<"/", "a", "/">>}, m \in {"get", "POST"}}
  \cup {From(<<"/", "a">>, "GET", t) :
          t \in {<<"ip1">>, <<" ">>, <<"#", " ">>, <<"a", " ", ":", "b", "b">>}}
  \cup {AtA, [AtA EXCEPT !.path = <<"/", "a", "/", "/">>],
        [AtA EXCEPT !.realIP = <<"ip2">>], [AtA EXCEPT !.realIP = <<"#">>],
        [AtA EXCEPT !.realIP = <<"b", ":", "a">>],
        [AtA EXCEPT !.forwarded = <<<<"ip2">>, <<"a">>>>],
        [AtA EXCEPT !.forwarded = <<<<>>, <<"ip2">>>>]}
=============================================================================
