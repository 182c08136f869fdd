-------------------------- MODULE ProcessProofs -----------------------------
(***************************************************************************)
(* Proofs about the life of the process, for every set of connections and  *)
(* every capacity of errChan; and about the intake, for every set of       *)
(* configurations and of requests and every length of a tenant key.  The   *)
(* last theorem carries both over to the process as a whole.               *)
(***************************************************************************)
EXTENDS Process, SequenceTheorems, WellFoundedInduction, TLAPS

-----------------------------------------------------------------------------
(* The start and the end *)

\* A request talks to one of the two servers.
LEMMA ServerOfRequest ==
  ASSUME NEW r \in Connections PROVE ServerOf[r] \in {"proxy", "metrics"}
BY LifecycleAssumption DEF Servers

\* A server that has no request under way, or whose time is over, stays so as
\* long as it takes no new one and the deadline is not taken back.
LEMMA DrainedStays ==
  ASSUME NEW s \in Servers, Drained(s), deadline = "over" => deadline' = "over",
         \A r \in Connections : ServerOf[r] = s /\ request'[r] = "active"
                               => request[r] = "active"
  PROVE  Drained(s)'
BY DEF Drained, Active

\* The requests of both servers are done, or the deadline is over.
LEMMA AllDrained ==
  ASSUME Drained("proxy"), Drained("metrics"), NEW r \in Connections,
         request[r] = "active"
  PROVE  deadline = "over"
BY ServerOfRequest DEF Drained, Active

\* Before the process does anything the inductive invariant holds.
THEOREM LifeInvInit == Init => LifeInv
<1> SUFFICES ASSUME Init PROVE LifeInv
  OBVIOUS
<1>1. TypeOK
  <2>1. errChan \in Seq(Servers) /\ Len(errChan) = 0
    BY DEF Init
  <2>2. request \in [Connections -> {"new", "active", "served", "cut"}]
        /\ listener \in [Servers -> {"off", "binding", "serving", "failing", "over"}]
    BY DEF Init
  <2>3. Len(errChan) <= ErrRoom
    BY <2>1, LifecycleAssumption
  <2>4. quit \in 0..1
    BY DEF Init
  <2>5. runErr \in BOOLEAN
    BY DEF Init
  <2>6. happened \subseteq {"signal", "failure"}
    BY DEF Init
  <2>7. /\ main = "loading" /\ starter = "off" /\ result = "empty"
        /\ deadline = "unset"
    BY DEF Init
  <2> QED
    BY <2>1, <2>2, <2>3, <2>4, <2>5, <2>6, <2>7 DEF TypeOK
<1>2. Startup /\ Draining /\ Causes
  BY DEF Init, Startup, Draining, Causes, Servers, Drained
<1> QED
  BY <1>1, <1>2 DEF LifeInv

\* A start that fails and a signal before the start end a process that has no
\* request.
LEMMA EarlyExit ==
  ASSUME LifeInv, starter = "off", NEW how, Exit(how)
  PROVE  request' = request
BY DEF LifeInv, TypeOK, Startup, Exit

-----------------------------------------------------------------------------
(* main *)

\* Starting, or failing to, keeps the inductive invariant.
LEMMA StartStep ==
  ASSUME LifeInv, Load \/ Ping
  PROVE  LifeInv'
<1>1. starter = "off"
  BY DEF Load, Ping, LifeInv, Startup
<1>2. request' = request
  BY <1>1, EarlyExit DEF Load, Ping, Failed
<1>3. CASE Load
  BY <1>1, <1>2, <1>3
     DEF Load, Failed, Exit, channels, LifeInv, TypeOK, Startup, Draining, Causes,
         Endings, Servers, Drained, Active
<1>4. CASE Ping
  BY <1>1, <1>2, <1>4
     DEF Ping, Failed, Exit, channels, LifeInv, TypeOK, Startup, Draining, Causes,
         Endings, Servers, Drained, Active
<1> QED
  BY <1>3, <1>4

\* The select of main keeps the inductive invariant.
LEMMA MainStep ==
  ASSUME LifeInv, TakeSignal \/ TakeResult
  PROVE  LifeInv'
<1>1. CASE TakeSignal
  BY <1>1 DEF TakeSignal, LifeInv, TypeOK, Startup, Draining, Causes,
         Endings, Servers, Drained, Active
<1>2. CASE TakeResult
  BY <1>2 DEF TakeResult, LifeInv, TypeOK, Startup, Draining, Causes,
         Endings, Servers, Drained, Active
<1> QED
  BY <1>1, <1>2

\* Leaving main keeps the inductive invariant: a request that is cut off then has
\* had its time.
LEMMA LeaveStep ==
  ASSUME LifeInv, Leave
  PROVE  LifeInv'
<1>1. main \in {"failing", "returning", "closed"} /\ starter = "returned"
  BY DEF Leave, LifeInv, Draining
<1>2. Drained("proxy") /\ Drained("metrics")
  BY <1>1 DEF LifeInv, Draining
<1>3. request' \in [Connections -> {"new", "active", "served", "cut"}]
      /\ \A r \in Connections : request'[r] # request[r] =>
           request[r] = "active" /\ request'[r] = "cut"
  BY DEF Leave, Exit, LifeInv, TypeOK
<1>4. \A r \in Connections : request'[r] = "cut" => deadline = "over"
  BY <1>2, <1>3, AllDrained DEF LifeInv, Draining
<1>5. UNCHANGED <<starter, listener, quit, errChan, runErr, result, deadline, happened>>
  BY DEF Leave, channels
<1>6. Drained("proxy")' /\ Drained("metrics")'
  BY <1>2, <1>3, <1>5, DrainedStays DEF Servers
<1>7. main' \in {"failed", "closed", "stopped"}
      /\ (main' = "failed" <=> main = "failing")
  BY <1>1 DEF Leave, Exit
<1>8. TypeOK'
  BY <1>3, <1>5, <1>7 DEF LifeInv, TypeOK, Endings
<1>9. Startup'
  BY <1>1, <1>5, <1>7 DEF LifeInv, Startup
<1>10. Draining'
  BY <1>1, <1>4, <1>5, <1>6 DEF Draining
<1>11. Causes'
  BY <1>1, <1>5, <1>7 DEF LifeInv, Causes
<1> QED
  BY <1>8, <1>9, <1>10, <1>11 DEF LifeInv

-----------------------------------------------------------------------------
(* The servers *)

\* The goroutine of a server keeps the inductive invariant.
LEMMA ListenerStep ==
  ASSUME LifeInv, NEW s \in Servers, Listen(s) \/ SendError(s) \/ Break(s)
  PROVE  LifeInv'
<1>1. UNCHANGED <<main, starter, quit, runErr, result, deadline, request>>
  BY DEF Listen, SendError, Break, channels
<1>2. starter # "off"
  BY DEF Listen, SendError, Break, LifeInv, Startup
<1>3. listener' \in [Servers -> {"off", "binding", "serving", "failing", "over"}]
      /\ happened' \subseteq {"signal", "failure"}
      /\ happened \subseteq happened'
  BY DEF Listen, SendError, Break, LifeInv, TypeOK
<1>4. errChan' \in Seq(Servers) /\ Len(errChan') <= ErrRoom
  <2>1. CASE errChan' = errChan
    BY <2>1 DEF LifeInv, TypeOK
  <2>2. CASE errChan' = Append(errChan, s) /\ Len(errChan) < ErrRoom
    <3>1. errChan \in Seq(Servers) /\ Len(errChan) \in Nat
      BY DEF LifeInv, TypeOK
    <3>2. errChan' \in Seq(Servers) /\ Len(errChan') = Len(errChan) + 1
      BY <2>2, <3>1
    <3> QED
      BY <2>2, <3>1, <3>2, LifecycleAssumption
  <2> QED
    BY <2>1, <2>2 DEF Listen, SendError, Break, channels
<1>5. (\E q \in Servers : listener'[q] = "failing") => "failure" \in happened'
  BY <1>3 DEF Listen, SendError, Break, LifeInv, TypeOK, Causes
<1>6. errChan' # <<>> => "failure" \in happened'
  <2>1. errChan' = errChan \/ listener[s] = "failing"
    BY DEF Listen, SendError, Break, channels
  <2> QED
    BY <1>3, <2>1 DEF LifeInv, Causes
<1>7. Drained("proxy")' = Drained("proxy") /\ Drained("metrics")' = Drained("metrics")
  BY <1>1 DEF Drained, Active
<1>8. TypeOK'
  BY <1>1, <1>3, <1>4 DEF LifeInv, TypeOK
<1>9. Startup'
  BY <1>1, <1>2 DEF LifeInv, Startup
<1>10. Draining'
  BY <1>1, <1>7 DEF LifeInv, Draining
<1>11. Causes'
  BY <1>1, <1>3, <1>5, <1>6 DEF LifeInv, Causes
<1> QED
  BY <1>8, <1>9, <1>10, <1>11 DEF LifeInv

\* Leaving the select of StartServer keeps the inductive invariant.
LEMMA SelectStep ==
  ASSUME LifeInv, Select
  PROVE  LifeInv'
<1>1. /\ starter = "selecting" /\ starter' = "proxy" /\ deadline' = "running"
      /\ UNCHANGED <<main, listener, quit, result, request, happened>>
  BY DEF Select
<1>2. \/ errChan # <<>> /\ errChan' = Tail(errChan) /\ runErr' = TRUE
      \/ main = "stopping" /\ errChan' = errChan /\ runErr' = runErr
  BY DEF Select
<1>3. errChan' \in Seq(Servers) /\ Len(errChan') <= ErrRoom
  <2>1. errChan \in Seq(Servers) /\ Len(errChan) \in Nat /\ Len(errChan) <= ErrRoom
    BY DEF LifeInv, TypeOK
  <2>2. errChan # <<>> =>
          Tail(errChan) \in Seq(Servers) /\ Len(Tail(errChan)) = Len(errChan) - 1
    BY <2>1
  <2> QED
    BY <1>2, <2>1, <2>2, LifecycleAssumption
<1>4. TypeOK'
  BY <1>1, <1>2, <1>3 DEF LifeInv, TypeOK, Servers
<1>5. Startup'
  BY <1>1 DEF LifeInv, Startup
<1>6. Draining'
  <2>1. deadline # "over" /\ result = "empty"
        /\ main \notin {"failing", "returning", "closed", "stopped"}
    BY <1>1 DEF LifeInv, Startup, Draining
  <2> QED
    BY <1>1, <2>1 DEF LifeInv, Draining
<1>7. Causes'
  <2>1. result = "empty" /\ main \notin {"failing", "returning", "closed", "stopped"}
    BY <1>1 DEF LifeInv, Draining
  <2>2. errChan' # <<>> \/ runErr' => "failure" \in happened
    BY <1>2 DEF LifeInv, Causes, TypeOK
  <2> QED
    BY <1>1, <1>2, <2>1, <2>2 DEF LifeInv, Causes
<1> QED
  BY <1>4, <1>5, <1>6, <1>7 DEF LifeInv

\* Shutting a server down keeps the inductive invariant.
LEMMA ShutdownStep ==
  ASSUME LifeInv, Shutdown
  PROVE  LifeInv'
<1>1. UNCHANGED <<main, listener, quit, errChan, runErr, deadline, request, happened>>
  BY DEF Shutdown
<1>2. Drained("proxy")' = Drained("proxy") /\ Drained("metrics")' = Drained("metrics")
  BY <1>1 DEF Drained, Active
<1>3. CASE starter = "proxy" /\ Drained("proxy") /\ starter' = "metrics" /\ result' = result
  BY <1>1, <1>2, <1>3 DEF LifeInv, TypeOK, Startup, Draining, Causes, Servers
<1>4. CASE /\ starter = "metrics" /\ Drained("metrics") /\ starter' = "returned"
           /\ result' = IF runErr THEN "error" ELSE "closed"
  BY <1>1, <1>2, <1>4 DEF LifeInv, TypeOK, Startup, Draining, Causes, Servers
<1> QED
  BY <1>3, <1>4 DEF Shutdown

-----------------------------------------------------------------------------
(* The environment *)

\* A signal keeps the inductive invariant.
LEMMA SignalStep ==
  ASSUME LifeInv, Signal
  PROVE  LifeInv'
<1>1. /\ happened' = happened \cup {"signal"} /\ main \notin Endings
      /\ UNCHANGED <<starter, listener, errChan, runErr, result, deadline>>
  BY DEF Signal, Running
<1>2. request' = request
  BY EarlyExit DEF Signal, LifeInv, Startup
<1>3. Drained("proxy")' = Drained("proxy") /\ Drained("metrics")' = Drained("metrics")
  BY <1>1, <1>2 DEF Drained, Active
<1>4. \/ main \in {"loading", "pinging"} /\ main' = "killed" /\ quit' = quit
      \/ main \notin {"loading", "pinging"} /\ quit' = 1 /\ main' = main
  BY DEF Signal, Exit
<1>5. TypeOK'
  BY <1>1, <1>2, <1>4 DEF LifeInv, TypeOK, Endings
<1>6. Startup'
  BY <1>1, <1>2, <1>4 DEF LifeInv, Startup, Endings
<1>7. Draining'
  BY <1>1, <1>2, <1>3, <1>4 DEF LifeInv, Draining
<1>8. Causes'
  <2>1. main \in {"loading", "pinging"} => starter = "off"
    BY DEF LifeInv, Startup
  <2> QED
    BY <1>1, <1>4, <2>1 DEF LifeInv, Causes, Servers
<1> QED
  BY <1>5, <1>6, <1>7, <1>8 DEF LifeInv

\* The end of the 5 s keeps the inductive invariant.
LEMMA DeadlineStep ==
  ASSUME LifeInv, DeadlineOver
  PROVE  LifeInv'
BY DEF DeadlineOver, LifeInv, TypeOK, Startup, Draining, Causes, Drained

\* A request that is taken or served keeps the inductive invariant: no server
\* that is shut down takes one.
LEMMA RequestStep ==
  ASSUME LifeInv, NEW r \in Connections, Accept(r) \/ Serve(r)
  PROVE  LifeInv'
<1>1. UNCHANGED <<main, starter, listener, quit, errChan, runErr, result, deadline, happened>>
  BY DEF Accept, Serve, channels
<1>2. /\ request' \in [Connections -> {"new", "active", "served", "cut"}]
      /\ \A q \in Connections : request'[q] = "cut" => request[q] = "cut"
      /\ starter # "off"
  <2>1. request' \in [Connections -> {"new", "active", "served", "cut"}]
        /\ \A q \in Connections : request'[q] = "cut" => request[q] = "cut"
    BY DEF Accept, Serve, LifeInv, TypeOK
  <2>2. CASE Accept(r)
    BY <2>1, <2>2, ServerOfRequest DEF Accept, LifeInv, Startup, Servers
  <2>3. CASE Serve(r)
    BY <2>1, <2>3 DEF Serve, LifeInv, Startup
  <2> QED
    BY <2>1, <2>2, <2>3
<1>3. ASSUME NEW s \in Servers, Closing(s), Drained(s)
      PROVE  Drained(s)'
  <2>1. \A q \in Connections : ServerOf[q] = s /\ request'[q] = "active" => request[q] = "active"
    BY <1>3 DEF Accept, Serve, LifeInv, TypeOK
  <2> QED
    BY <1>1, <1>3, <2>1, DrainedStays
<1>4. starter \in {"metrics", "returned"} => Closing("proxy")
  BY DEF Closing, Servers
<1>5. starter = "returned" => Closing("metrics")
  BY DEF Closing
<1>6. Draining'
  BY <1>1, <1>2, <1>3, <1>4, <1>5 DEF LifeInv, Draining, Servers
<1>7. TypeOK' /\ Startup' /\ Causes'
  BY <1>1, <1>2 DEF LifeInv, TypeOK, Startup, Causes
<1> QED
  BY <1>6, <1>7 DEF LifeInv

-----------------------------------------------------------------------------
(* The theorems *)

\* Every step of main, the servers and the environment keeps the inductive
\* invariant.
THEOREM LifeInvNext == LifeInv /\ [Next]_vars => LifeInv'
<1> SUFFICES ASSUME LifeInv, [Next]_vars PROVE LifeInv'
  OBVIOUS
<1>1. CASE Main
  BY <1>1, StartStep, MainStep, LeaveStep DEF Main
<1>2. CASE StartServer
  BY <1>2, SelectStep, ShutdownStep DEF StartServer
<1>3. CASE Signal \/ DeadlineOver
  BY <1>3, SignalStep, DeadlineStep
<1>4. CASE \E s \in Servers : Listen(s) \/ SendError(s) \/ Break(s)
  BY <1>4, ListenerStep
<1>5. CASE \E r \in Connections : Accept(r) \/ Serve(r)
  BY <1>5, RequestStep
<1>6. CASE UNCHANGED vars
  BY <1>6 DEF vars, channels, LifeInv, TypeOK, Startup, Draining, Causes, Drained, Active
<1> QED
  BY <1>1, <1>2, <1>3, <1>4, <1>5, <1>6 DEF Next

\* The inductive invariant holds in every reachable state.
THEOREM LifeInvariance == Spec => []LifeInv
BY LifeInvInit, LifeInvNext, PTL DEF Spec

\* Type correctness of the channels and states.
THEOREM TypeCorrect == Spec => []TypeOK
<1>1. LifeInv => TypeOK
  BY DEF LifeInv
<1> QED
  BY <1>1, LifeInvariance, PTL

\* No request is cut off, or left without Redis, before its 5 s are over.
THEOREM GraceIsGiven == Spec => []GraceGiven
<1>1. LifeInv => GraceGiven
  BY AllDrained DEF LifeInv, Draining, GraceGiven
<1> QED
  BY <1>1, LifeInvariance, PTL

\* The exit code tells why the process ended.
THEOREM ExitCodeTellsWhy == Spec => []ExitTellsWhy
<1>1. LifeInv => ExitTellsWhy
  BY DEF LifeInv, Startup, Causes, ExitTellsWhy, Running, Endings
<1> QED
  BY <1>1, LifeInvariance, PTL
-----------------------------------------------------------------------------
(* Intake: the texts of the keys *)

\* What the texts of the keys consist of.
Letters == Tokens \cup Methods \cup {"_", "global", "pertenant", "perendpoint"}

\* A text that is set after one token begins with it and is longer by one.
LEMMA TokenThenText ==
  ASSUME NEW w \in Letters, NEW b \in Seq(Letters)
  PROVE  /\ <<w>> \o b \in Seq(Letters)
         /\ Len(<<w>> \o b) = 1 + Len(b) /\ Len(b) \in Nat
         /\ (<<w>> \o b)[1] = w
<1> DEFINE h == <<w>>
<1>1. h \in Seq(Letters) /\ Len(h) = 1 /\ h[1] = w
  OBVIOUS
<1> HIDE DEF h
<1>2. /\ h \o b \in Seq(Letters) /\ Len(h \o b) = Len(h) + Len(b)
      /\ \A i \in 1..Len(h) + Len(b) :
           (h \o b)[i] = IF i <= Len(h) THEN h[i] ELSE b[i - Len(h)]
  BY <1>1, ConcatProperties
<1>3. Len(b) \in Nat /\ 1 \in 1..Len(h) + Len(b)
  BY <1>1, LenProperties
<1>4. h \o b \in Seq(Letters) /\ Len(h \o b) = 1 + Len(b) /\ (h \o b)[1] = w
  BY <1>1, <1>2, <1>3
<1> QED
  BY <1>3, <1>4 DEF h

\* Joining texts gives a text.
LEMMA JoinedText ==
  ASSUME NEW a \in Seq(Letters), NEW b \in Seq(Letters)
  PROVE  Joined(a, b) \in Seq(Letters)
<1> DEFINE r == <<":">> \o b
<1>1. r \in Seq(Letters)
  <2>1. ":" \in Letters
    BY DEF Letters, Tokens
  <2> QED
    BY <2>1, TokenThenText
<1> HIDE DEF r
<1>2. a \o r \in Seq(Letters)
  BY <1>1, ConcatProperties
<1> QED
  BY <1>2 DEF Joined, r

\* Texts that are joined are read in one way, if the first holds no colon.
LEMMA ReadJoined ==
  ASSUME NEW a \in Seq(Letters), NEW b \in Seq(Letters),
         NEW c \in Seq(Letters), NEW d \in Seq(Letters),
         \A i \in 1..Len(a) : a[i] # ":", \A i \in 1..Len(c) : c[i] # ":",
         Joined(a, b) = Joined(c, d)
  PROVE  a = c /\ b = d
<1> DEFINE m == <<":">>
           s == a \o (m \o b)
           t == c \o (m \o d)
<1>1. /\ m \in Seq(Letters) /\ Len(m) = 1 /\ m[1] = ":"
      /\ Len(a) \in Nat /\ Len(b) \in Nat /\ Len(c) \in Nat /\ Len(d) \in Nat
  <2>1. ":" \in Letters
    BY DEF Letters, Tokens
  <2> QED
    BY <2>1
<1> HIDE DEF m
<1>2. /\ m \o b \in Seq(Letters) /\ Len(m \o b) = 1 + Len(b) /\ (m \o b)[1] = ":"
      /\ m \o d \in Seq(Letters) /\ Len(m \o d) = 1 + Len(d) /\ (m \o d)[1] = ":"
  <2>1. ":" \in Letters
    BY DEF Letters, Tokens
  <2> QED
    BY <2>1, TokenThenText DEF m
<1>3. (\A i \in 1..Len(a) : s[i] = a[i]) /\ s[Len(a) + 1] = ":"
  <2>1. \A i \in 1..Len(a) + Len(m \o b) :
          s[i] = IF i <= Len(a) THEN a[i] ELSE (m \o b)[i - Len(a)]
    BY <1>2, ConcatProperties
  <2> QED
    BY <1>1, <1>2, <2>1
<1>4. (\A i \in 1..Len(c) : t[i] = c[i]) /\ t[Len(c) + 1] = ":"
  <2>1. \A i \in 1..Len(c) + Len(m \o d) :
          t[i] = IF i <= Len(c) THEN c[i] ELSE (m \o d)[i - Len(c)]
    BY <1>2, ConcatProperties
  <2> QED
    BY <1>1, <1>2, <2>1
<1>5. s = t
  BY DEF Joined, m
<1>6. Len(a) = Len(c)
  <2> HIDE DEF s, t
  <2>1. ASSUME Len(a) < Len(c) PROVE FALSE
    <3>1. Len(a) + 1 \in 1..Len(c)
      BY <1>1, <2>1
    <3> QED
      BY <1>3, <1>4, <1>5, <3>1
  <2>2. ASSUME Len(c) < Len(a) PROVE FALSE
    <3>1. Len(c) + 1 \in 1..Len(a)
      BY <1>1, <2>2
    <3> QED
      BY <1>3, <1>4, <1>5, <3>1
  <2> QED
    BY <1>1, <2>1, <2>2
<1>7. a = c
  <2> HIDE DEF s, t
  <2>1. \A i \in 1..Len(a) : a[i] = c[i]
    BY <1>3, <1>4, <1>5, <1>6
  <2> QED
    BY <1>6, <2>1, SeqEqual
<1>8. m \o b = m \o d
  BY <1>2, <1>5, <1>7, ConcatSimplifications
<1>9. b = d
  BY <1>1, <1>8, ConcatSimplifications
<1> QED
  BY <1>7, <1>9

\* The text of the methods of a rule is one, and holds no colon.
LEMMA MethodsJoined ==
  ASSUME NEW m \in Seq(Methods)
  PROVE  /\ JoinMethods(m) \in Seq(Letters)
         /\ \A i \in 1..Len(JoinMethods(m)) : JoinMethods(m)[i] # ":"
<1> DEFINE j == JoinMethods(m)
           n == 2 * Len(m) - 1
<1>1. Len(m) \in Nat /\ n \in Int /\ (Len(m) = 0 \/ n \in Nat)
  BY LenProperties
<1>2. ASSUME NEW i \in 1..n PROVE j[i] \in Methods \cup {"_"}
  <2>1. CASE i % 2 = 0
    BY <2>1 DEF JoinMethods
  <2>2. CASE i % 2 # 0
    <3>1. (i + 1) \div 2 \in 1..Len(m)
      BY <1>1, <2>2
    <3>2. m[(i + 1) \div 2] \in Methods
      BY <3>1, ElementOfSeq
    <3> QED
      BY <2>2, <3>2 DEF JoinMethods
  <2> QED
    BY <2>1, <2>2
<1>3. j \in [1..n -> Letters] /\ \A i \in 1..n : j[i] # ":"
  <2>1. j = [i \in 1..n |-> j[i]]
    BY DEF JoinMethods
  <2> HIDE DEF j
  <2> QED
    BY <1>2, <2>1 DEF Letters, Methods
<1> HIDE DEF j
<1>4. PICK k \in Nat : 1..n = 1..k
  <2>1. CASE n \in Nat
    BY <2>1
  <2>2. CASE Len(m) = 0
    <3>1. 1..n = 1..0
      BY <2>2
    <3> QED
      BY <3>1
  <2> QED
    BY <1>1, <2>1, <2>2
<1> HIDE DEF n
<1>5. j \in [1..k -> Letters] /\ \A i \in 1..k : j[i] # ":"
  BY <1>3, <1>4
<1>6. j \in Seq(Letters)
  BY <1>5, SeqDef
<1>7. DOMAIN j = 1..Len(j) /\ DOMAIN j = 1..k
  BY <1>5, <1>6, LenProperties
<1>8. \A i \in 1..Len(j) : j[i] # ":"
  BY <1>5, <1>7
<1> QED
  BY <1>6, <1>8 DEF j

\* Lists of methods with one text are one list.
LEMMA JoinInjective ==
  ASSUME NEW m \in Seq(Methods), NEW n \in Seq(Methods), JoinMethods(m) = JoinMethods(n)
  PROVE  m = n
<1>1. 1..2 * Len(m) - 1 = 1..2 * Len(n) - 1
  BY DEF JoinMethods
<1>2. Len(m) \in Nat /\ Len(n) \in Nat
  BY LenProperties
<1>3. Len(m) = Len(n)
  <2>1. ASSUME Len(m) < Len(n) PROVE FALSE
    <3>1. 2 * Len(n) - 1 \in 1..2 * Len(n) - 1
      BY <1>2, <2>1
    <3>2. 2 * Len(n) - 1 <= 2 * Len(m) - 1
      BY <1>1, <1>2, <3>1
    <3> QED
      BY <1>2, <2>1, <3>2
  <2>2. ASSUME Len(n) < Len(m) PROVE FALSE
    <3>1. 2 * Len(m) - 1 \in 1..2 * Len(m) - 1
      BY <1>2, <2>2
    <3>2. 2 * Len(m) - 1 <= 2 * Len(n) - 1
      BY <1>1, <1>2, <3>1
    <3> QED
      BY <1>2, <2>2, <3>2
  <2> QED
    BY <1>2, <2>1, <2>2
<1>4. ASSUME NEW i \in 1..Len(m) PROVE m[i] = n[i]
  <2>1. /\ 2 * i - 1 \in 1..2 * Len(m) - 1
        /\ (2 * i - 1) % 2 # 0 /\ ((2 * i - 1) + 1) \div 2 = i
    BY <1>2
  <2>2. JoinMethods(m)[2 * i - 1] = m[i]
    BY <2>1 DEF JoinMethods
  <2>3. JoinMethods(n)[2 * i - 1] = n[i]
    BY <1>3, <2>1 DEF JoinMethods
  <2> QED
    BY <2>2, <2>3
<1> QED
  BY <1>3, <1>4, SeqEqual

\* The path and the methods of a rule and the tenant can be read from an endpoint
\* key, if the path holds no colon.
LEMMA EndpointKeyInjective ==
  ASSUME NEW m \in Seq(Methods), NEW p \in Texts, NEW t \in Texts,
         NEW n \in Seq(Methods), NEW q \in Texts, NEW u \in Texts,
         \A i \in 1..Len(p) : p[i] # ":", \A i \in 1..Len(q) : q[i] # ":",
         Joined(<<"perendpoint">>, Joined(JoinMethods(m), Joined(p, t)))
           = Joined(<<"perendpoint">>, Joined(JoinMethods(n), Joined(q, u)))
  PROVE  m = n /\ p = q /\ t = u
<1> DEFINE a == JoinMethods(m)
           b == JoinMethods(n)
           w == <<"perendpoint">>
<1>1. /\ a \in Seq(Letters) /\ b \in Seq(Letters)
      /\ \A i \in 1..Len(a) : a[i] # ":"
      /\ \A i \in 1..Len(b) : b[i] # ":"
  BY MethodsJoined
<1>2. /\ p \in Seq(Letters) /\ q \in Seq(Letters) /\ t \in Seq(Letters) /\ u \in Seq(Letters)
      /\ w \in Seq(Letters) /\ \A i \in 1..Len(w) : w[i] # ":"
  <2>1. Tokens \subseteq Letters /\ "perendpoint" \in Letters /\ ":" \in Letters
    BY DEF Letters, Tokens
  <2> QED
    BY <2>1, SeqMonotonic DEF Texts
<1> HIDE DEF a, b, w
<1>3. /\ Joined(p, t) \in Seq(Letters) /\ Joined(q, u) \in Seq(Letters)
      /\ Joined(a, Joined(p, t)) \in Seq(Letters)
      /\ Joined(b, Joined(q, u)) \in Seq(Letters)
  BY <1>1, <1>2, JoinedText
<1>4. Joined(a, Joined(p, t)) = Joined(b, Joined(q, u))
  <2> DEFINE x == Joined(a, Joined(p, t))
             y == Joined(b, Joined(q, u))
  <2>1. Joined(w, x) = Joined(w, y)
    BY DEF w, a, b
  <2>2. x \in Seq(Letters) /\ y \in Seq(Letters)
    BY <1>3
  <2> HIDE DEF x, y
  <2>3. w \in Seq(Letters) /\ \A i \in 1..Len(w) : w[i] # ":"
    BY <1>2
  <2>4. x = y
    BY <2>1, <2>2, <2>3, ReadJoined
  <2> QED
    BY <2>4 DEF x, y
<1>5. a = b /\ Joined(p, t) = Joined(q, u)
  BY <1>1, <1>3, <1>4, ReadJoined
<1>6. p = q /\ t = u
  BY <1>2, <1>5, ReadJoined
<1> QED
  BY <1>5, <1>6, JoinInjective DEF a, b

-----------------------------------------------------------------------------
(* Intake: the rule and the tenant of a request *)

\* A set of natural numbers has a least one.
LEMMA LeastNat ==
  ASSUME NEW S \in SUBSET Nat, S # {}
  PROVE  \E m \in S : \A n \in S : m <= n
<1>1. PICK m \in S : \A n \in S : ~(<<n, m>> \in OpToRel(<, Nat))
  BY NatLessThanWellFounded, WFMin
<1>2. ASSUME NEW n \in S PROVE m <= n
  <2>1. m \in Nat /\ n \in Nat /\ ~(n < m)
    BY <1>1 DEF OpToRel
  <2> QED
    BY <2>1
<1> QED
  BY <1>2

\* The rule of a request is the first one that matches.
LEMMA RuleFound ==
  ASSUME NEW rules \in Seq(EndpointRule), NEW req,
         NEW n, n = MapRequestToEndpointConfig(req, rules)
  PROVE  /\ n \in 0..Len(rules)
         /\ n # 0 => Matches(rules[n], req)
         /\ \A m \in 1..Len(rules) : Matches(rules[m], req) => n # 0 /\ n <= m
<1> DEFINE I == {i \in 1..Len(rules) : Matches(rules[i], req)}
<1>1. n = IF I # {} THEN Min(I) ELSE 0
  BY DEF MapRequestToEndpointConfig, SelectInSeq
<1>2. Len(rules) \in Nat
  BY LenProperties
<1>3. CASE I = {}
  BY <1>1, <1>2, <1>3
<1>4. CASE I # {}
  <2>1. I \in SUBSET Nat
    BY <1>2
  <2> HIDE DEF I
  <2>2. Min(I) \in I /\ \A m \in I : Min(I) <= m
    BY <1>4, <2>1, LeastNat DEF Min
  <2>3. n \in I /\ \A m \in I : n <= m
    BY <1>1, <1>4, <2>2
  <2> QED
    BY <1>2, <2>3 DEF I
<1> QED
  BY <1>3, <1>4

\* Two rules of one path and methods are never both the rule of a request.
LEMMA SameRule ==
  ASSUME NEW rules \in Seq(EndpointRule), NEW r, NEW q,
         NEW n, n = MapRequestToEndpointConfig(r, rules), n # 0,
         NEW m, m = MapRequestToEndpointConfig(q, rules), m # 0,
         rules[n].path = rules[m].path, rules[n].methods = rules[m].methods
  PROVE  n = m
<1>1. /\ n \in 1..Len(rules) /\ m \in 1..Len(rules)
      /\ Matches(rules[n], r) /\ Matches(rules[m], q)
  BY RuleFound
<1>2. Matches(rules[m], r) /\ Matches(rules[n], q)
  BY <1>1 DEF Matches
<1>3. n <= m /\ m <= n
  BY <1>1, <1>2, RuleFound
<1> QED
  BY <1>1, <1>3

\* What is kept of a text is a text.
LEMMA CleanedText ==
  ASSUME NEW text \in Texts
  PROVE  Cleaned(text)[Len(text)] \in Texts
<1> DEFINE L == Len(text)
           Kept(f, n) == IF n = 0 THEN <<>>
                         ELSE IF text[n] \in {" ", "#", "/", "*"} THEN f[n - 1]
                         ELSE Append(f[n - 1], text[n])
           IsKept(f, k) == f = [n \in 0..k |-> Kept(f, n)]
<1>1. L \in Nat /\ \A n \in 1..L : text[n] \in Tokens
  BY LenProperties, ElementOfSeq DEF Texts
<1> HIDE DEF L, Kept, IsKept
<1>2. \E f : IsKept(f, L)
  <2> DEFINE Bad == {k \in 0..L : ~\E f : IsKept(f, k)}
  <2> SUFFICES ASSUME Bad # {} PROVE FALSE
    BY <1>1
  <2>1. PICK k \in Bad : \A i \in Bad : k <= i
    <3>1. Bad \in SUBSET Nat
      BY <1>1
    <3> HIDE DEF Bad
    <3> QED
      BY <3>1, LeastNat
  <2>2. k \in Nat /\ k \in 0..L /\ ~\E f : IsKept(f, k)
    BY <1>1, <2>1
  <2>3. k # 0
    <3> DEFINE h == [n \in 0..0 |-> <<>>]
    <3>1. \A n \in 0..0 : Kept(h, n) = <<>>
      BY DEF Kept
    <3>2. IsKept(h, 0)
      BY <3>1, Zenon DEF IsKept
    <3> HIDE DEF h
    <3> QED
      BY <2>2, <3>2
  <2>4. PICK f : IsKept(f, k - 1)
    <3>1. k - 1 \in 0..L /\ ~(k <= k - 1)
      BY <1>1, <2>2, <2>3
    <3>2. k - 1 \notin Bad
      BY <2>1, <3>1
    <3> QED
      BY <3>1, <3>2
  <2> HIDE DEF Bad
  <2> DEFINE g == [n \in 0..k |-> Kept(f, n)]
  <2>5. \A n \in 0..(k - 1) : f[n] = g[n]
    <3> TAKE n \in 0..(k - 1)
    <3>1. n \in 0..k
      BY <2>2
    <3> QED
      BY <2>4, <3>1 DEF IsKept
  <2>6. ASSUME NEW n \in 0..k PROVE Kept(f, n) = Kept(g, n)
    <3>1. n # 0 => n - 1 \in 0..(k - 1)
      BY <2>2
    <3> HIDE DEF g
    <3> QED
      BY <2>5, <3>1 DEF Kept
  <2>7. IsKept(g, k)
    <3>1. g = [n \in 0..k |-> Kept(g, n)]
      BY <2>6
    <3> HIDE DEF g
    <3> QED
      BY <3>1 DEF IsKept
  <2> HIDE DEF g
  <2> QED
    BY <2>2, <2>7
<1> DEFINE f == Cleaned(text)
<1>3. IsKept(f, L)
  <2>1. f = CHOOSE h : IsKept(h, L)
    BY DEF Cleaned, IsKept, Kept, L
  <2> HIDE DEF f
  <2> QED
    BY <1>2, <2>1
<1> HIDE DEF f
<1>4. \A n \in 0..L : f[n] \in Texts
  <2> DEFINE Bad == {n \in 0..L : f[n] \notin Texts}
  <2> SUFFICES ASSUME Bad # {} PROVE FALSE
    OBVIOUS
  <2>1. PICK k \in Bad : \A i \in Bad : k <= i
    <3>1. Bad \in SUBSET Nat
      BY <1>1
    <3> HIDE DEF Bad
    <3> QED
      BY <3>1, LeastNat
  <2>2. f[k] = Kept(f, k) /\ k \in 0..L /\ k \in Nat /\ f[k] \notin Texts
    BY <1>1, <1>3, <2>1 DEF IsKept
  <2>3. CASE k = 0
    BY <2>2, <2>3, EmptySeq DEF Texts, Kept
  <2>4. CASE k # 0
    <3>1. k - 1 \in 0..L /\ k \in 1..L /\ ~(k <= k - 1)
      BY <1>1, <2>2, <2>4
    <3>2. f[k - 1] \in Texts /\ text[k] \in Tokens
      BY <1>1, <2>1, <3>1
    <3>3. Kept(f, k) \in Texts
      BY <2>4, <3>2, AppendProperties DEF Texts, Kept
    <3> QED
      BY <2>2, <3>3
  <2> QED
    BY <2>3, <2>4
<1> QED
  BY <1>1, <1>4 DEF f, L

\* What is left of a text is a text that fits a key.
LEMMA SanitizedText ==
  ASSUME NEW text \in Texts
  PROVE  Sanitize(text) \in Texts /\ Len(Sanitize(text)) <= KeyLength
<1> DEFINE c == Cleaned(text)[Len(text)]
           n == IF Len(c) > KeyLength THEN KeyLength ELSE Len(c)
<1>1. c \in Texts
  BY CleanedText
<1> HIDE DEF c
<1>2. KeyLength \in Nat /\ Len(c) \in Nat
  BY <1>1, IntakeAssumption, LenProperties DEF Texts
<1>3. n \in Nat /\ n <= Len(c) /\ n <= KeyLength
  BY <1>2
<1> HIDE DEF n
<1>4. \A i \in 1..n : c[i] \in Tokens
  BY <1>1, <1>2, <1>3, ElementOfSeq DEF Texts
<1>5. SubSeq(c, 1, n) \in Seq(Tokens) /\ Len(SubSeq(c, 1, n)) = IF 1 <= n THEN n - 1 + 1 ELSE 0
  BY <1>3, <1>4, SubSeqProperties
<1>6. Sanitize(text) = SubSeq(c, 1, n)
  BY DEF Sanitize, c, n
<1> QED
  BY <1>2, <1>3, <1>5, <1>6 DEF Texts

\* The address of a request is a text, and so is what a strategy finds.
LEMMA FoundText ==
  ASSUME NEW r \in Requests
  PROVE  /\ ExtractIP(r) \in Texts
         /\ \A t \in TenantStrategy : t.type # "other" => Found(r, t) \in Texts
<1>1. /\ r.realIP \in Texts /\ r.forwarded \in Seq(Texts) /\ r.remote \in Texts
      /\ r.sent \in [{"header", "cookie", "query_parameter"} -> Texts]
  BY IntakeAssumption DEF Request
<1>2. ExtractIP(r) \in Texts
  <2>1. CASE r.forwarded = <<>>
    BY <1>1, <2>1 DEF ExtractIP
  <2>2. CASE r.forwarded # <<>>
    <3>1. r.forwarded[1] \in Texts
      BY <1>1, <2>2, LenProperties, EmptySeq, ElementOfSeq
    <3> QED
      BY <1>1, <3>1 DEF ExtractIP
  <2> QED
    BY <2>1, <2>2
<1>3. ASSUME NEW t \in TenantStrategy, t.type # "other"
      PROVE  Found(r, t) \in Texts
  <2>1. <<>> \in Texts
    BY EmptySeq DEF Texts
  <2>2. t.type \in {"ip", "header", "cookie", "query_parameter"}
    BY <1>3 DEF TenantStrategy
  <2> QED
    BY <1>1, <1>2, <2>1, <2>2 DEF Found
<1> QED
  BY <1>2, <1>3

\* The tenant of a request is a text that fits a key.
LEMMA TenantText ==
  ASSUME NEW r \in Requests, NEW t \in TenantStrategy \cup {Nil},
         t # Nil => t.type # "other"
  PROVE  TenantKey(r, t) \in Texts /\ Len(TenantKey(r, t)) <= KeyLength
<1>1. ExtractIP(r) \in Texts /\ (t # Nil => Found(r, t) \in Texts)
  BY FoundText
<1>2. CASE t = Nil \/ Found(r, t) = <<>>
  BY <1>1, <1>2, SanitizedText DEF TenantKey
<1>3. CASE t # Nil /\ Found(r, t) # <<>>
  BY <1>1, <1>3, SanitizedText DEF TenantKey
<1> QED
  BY <1>2, <1>3

-----------------------------------------------------------------------------
(* Intake: the inductive invariant *)

\* Before the configuration is loaded the inductive invariant holds.
LEMMA IntakeInvInit == IntakeInit => IntakeInv
<1> SUFFICES ASSUME IntakeInit PROVE IntakeInv
  OBVIOUS
<1>1. cfg = Nil /\ status = "loading" /\ served = [i \in 1..2 |-> Nil]
  BY DEF IntakeInit
<1> QED
  BY <1>1 DEF IntakeInv, IntakeTypeOK, Validated, Classified

\* A configuration that runs is one that the validator has let pass, with what
\* the environment sets.
LEMMA LoadStep ==
  ASSUME IntakeInv, LoadConfigs
  PROVE  IntakeInv'
<1>1. PICK raw \in Configs :
        LET loaded == [raw.file EXCEPT !.proxy = Overridden(@, raw.env)]
        IN  IF ValidProxy(loaded.proxy) /\ ValidLimiter(loaded)
            THEN cfg' = loaded /\ status' = "running"
            ELSE cfg' = Nil /\ status' = "refused"
  BY DEF LoadConfigs
<1> DEFINE loaded == [raw.file EXCEPT !.proxy = Overridden(@, raw.env)]
<1>2. raw.file \in Config /\ raw.env \in Environment
  BY IntakeAssumption
<1>3. Overridden(raw.file.proxy, raw.env) \in ProxyConfig
  <2> DEFINE file == raw.file.proxy
             env == raw.env
  <2>1. file \in ProxyConfig /\ env \in Environment
    BY <1>2 DEF Config
  <2> HIDE DEF file, env
  <2>2. file.proxyPort \in Ports /\ file.metricsPort \in Ports /\ file.dryRun \in BOOLEAN
    BY <2>1 DEF ProxyConfig
  <2>3. env.proxyPort \in Ports \cup {-1} /\ env.metricsPort \in Ports \cup {-1}
    BY <2>1 DEF Environment
  <2>4. Overridden(file, env) \in ProxyConfig
    BY <2>2, <2>3 DEF Overridden, ProxyConfig
  <2> QED
    BY <2>4 DEF file, env
<1>4. loaded \in Config /\ loaded # Nil
  <2>1. loaded \in Config
    BY <1>2, <1>3 DEF Config
  <2> QED
    BY <2>1, IntakeAssumption
<1> HIDE DEF loaded
<1>5. \/ cfg' = loaded /\ status' = "running" /\ ValidProxy(loaded.proxy) /\ ValidLimiter(loaded)
      \/ cfg' = Nil /\ status' = "refused"
  BY <1>1 DEF loaded
<1>6. served' = served /\ \A i \in 1..2 : served[i] = Nil
  BY DEF LoadConfigs, IntakeInv, Classified
<1>7. IntakeTypeOK'
  BY <1>4, <1>5, <1>6 DEF IntakeInv, IntakeTypeOK
<1>8. Validated'
  BY <1>5 DEF Validated
<1>9. Classified'
  BY <1>6 DEF Classified
<1> QED
  BY <1>7, <1>8, <1>9 DEF IntakeInv

\* What is true of the rule of a request while the configuration is a valid one.
LEMMA RuleOfRequest ==
  ASSUME IntakeInv, status = "running", NEW r \in Requests,
         NEW n, n = MapRequestToEndpointConfig(r, cfg.rules)
  PROVE  /\ n \in Nat
         /\ n # 0 =>
              /\ n \in 1..Len(cfg.rules) /\ cfg.rules[n] \in EndpointRule
              /\ ~cfg.rules[n].bypass =>
                   /\ cfg.rules[n].strategy # Nil => cfg.rules[n].strategy.type # "other"
                   /\ ValidAlgorithm(cfg.rules[n].limit)
<1>1. cfg \in Config /\ cfg.rules \in Seq(EndpointRule) /\ ValidLimiter(cfg)
  BY DEF IntakeInv, IntakeTypeOK, Validated, Config
<1>2. n \in 0..Len(cfg.rules) /\ Len(cfg.rules) \in Nat
  BY <1>1, RuleFound, LenProperties
<1>3. ASSUME n # 0
      PROVE  /\ n \in 1..Len(cfg.rules) /\ cfg.rules[n] \in EndpointRule
             /\ ValidRule(cfg.rules[n])
  <2>1. n \in 1..Len(cfg.rules)
    BY <1>2, <1>3
  <2>2. cfg.rules[n] \in EndpointRule
    BY <1>1, <2>1, ElementOfSeq
  <2>3. cfg.rules[n] \in Range(cfg.rules)
    BY <1>1, <2>1, RangeEquality
  <2> QED
    BY <1>1, <2>1, <2>2, <2>3 DEF ValidLimiter
<1> QED
  BY <1>2, <1>3 DEF ValidRule, ValidStrategy

\* The faults of a level are one of four.
LEMMA FaultType == \A a : Fault(a) \in Faults
BY DEF Fault, Faults

\* A request that is passed on, or for which limits are asked, keeps the
\* inductive invariant.
LEMMA ClassifyStep ==
  ASSUME IntakeInv, NEW i \in 1..2, Classify(i)
  PROVE  IntakeInv'
<1>1. status = "running" /\ UNCHANGED <<cfg, status>> /\ served[i] = Nil
  BY DEF Classify
<1>2. PICK r \in Requests : Bypass(i, r) \/ Limit(i, r)
  BY DEF Classify
<1> DEFINE n == MapRequestToEndpointConfig(r, cfg.rules)
           e == cfg.rules[n]
<1>3. /\ n \in Nat
      /\ n # 0 => /\ e \in EndpointRule /\ e.strategy \in TenantStrategy \cup {Nil}
                  /\ ~e.bypass => (e.strategy # Nil => e.strategy.type # "other")
  BY <1>1, RuleOfRequest DEF EndpointRule
<1>4. NoFault \in [Levels -> Faults]
  BY DEF NoFault, Faults
<1>5. PICK o \in Outcome :
        /\ served' = [served EXCEPT ![i] = o]
        /\ Len(o.tenant) <= KeyLength
        /\ o.request = r /\ o.rule = n
        /\ o.fate = "unmatched" <=> n = 0
        /\ o.fate = "bypass" <=> n # 0 /\ e.bypass
        /\ o.fate # "no_tenant"
        /\ o.fate # "limited" => o.asked = {} /\ o.fault = NoFault
        /\ o.fate = "limited" =>
             /\ o.asked = Asked /\ o.tenant = TenantKey(r, e.strategy)
             /\ \A l \in Levels :
                  o.fault[l] = IF l \in Asked THEN Fault(LimitOf(l, e)) ELSE "none"
  <2>1. CASE Bypass(i, r)
    <3> DEFINE o == [request |-> r, rule |-> n,
                     fate |-> IF n = 0 THEN "unmatched" ELSE "bypass",
                     tenant |-> <<>>, asked |-> {}, fault |-> NoFault]
    <3>1. served' = [served EXCEPT ![i] = o] /\ (n # 0 => e.bypass)
      BY <2>1 DEF Bypass
    <3>2. <<>> \in Texts /\ Len(<<>>) = 0 /\ KeyLength \in Nat
      BY EmptySeq, IntakeAssumption DEF Texts
    <3> HIDE DEF n, e
    <3>3. o \in Outcome
      BY <1>3, <1>4, <3>2 DEF Outcome
    <3>4. Len(o.tenant) <= KeyLength
      BY <3>2
    <3> QED
      BY <3>1, <3>3, <3>4
  <2>2. CASE Limit(i, r)
    <3> DEFINE o == [request |-> r, rule |-> n, fate |-> "limited",
                     tenant |-> TenantKey(r, e.strategy), asked |-> Asked,
                     fault |-> [l \in Levels |->
                                  IF l \in Asked THEN Fault(LimitOf(l, e)) ELSE "none"]]
    <3>1. n # 0 /\ ~e.bypass
      BY <2>2 DEF Limit
    <3>2. ~(e.strategy # Nil /\ e.strategy.type = "other")
      BY <1>3, <3>1
    <3>3. served' = [served EXCEPT ![i] = o]
      BY <2>2, <3>2 DEF Limit
    <3> HIDE DEF n, e
    <3>4. TenantKey(r, e.strategy) \in Texts /\ Len(TenantKey(r, e.strategy)) <= KeyLength
      BY <1>3, <3>1, <3>2, TenantText
    <3>5. Asked \in SUBSET Levels
      BY DEF Asked, Levels
    <3>6. [l \in Levels |-> IF l \in Asked THEN Fault(LimitOf(l, e)) ELSE "none"]
            \in [Levels -> Faults]
      BY FaultType DEF Faults
    <3>7. o \in Outcome
      BY <1>3, <3>4, <3>5, <3>6 DEF Outcome
    <3> QED
      BY <3>1, <3>3, <3>4, <3>7
  <2> QED
    BY <1>2, <2>1, <2>2
<1> HIDE DEF n, e
<1>6. o # Nil
  BY <1>5, IntakeAssumption
<1>7. /\ served' \in [1..2 -> Outcome \cup {Nil}] /\ served'[i] = o
      /\ \A j \in 1..2 : j # i => served'[j] = served[j]
  BY <1>5 DEF IntakeInv, IntakeTypeOK
<1>8. IntakeTypeOK'
  BY <1>1, <1>5, <1>7 DEF IntakeInv, IntakeTypeOK
<1>9. Validated'
  BY <1>1 DEF IntakeInv, Validated
<1>10. Asked' = Asked /\ \A l, a : LimitOf(l, a)' = LimitOf(l, a)
  BY <1>1 DEF Asked, LimitOf
<1>11. ASSUME NEW j \in 1..2, served'[j] # Nil
       PROVE  LET p == served'[j]
                  a == cfg.rules[p.rule]
              IN  /\ status = "running"
                  /\ p.rule = MapRequestToEndpointConfig(p.request, cfg.rules)
                  /\ p.fate = "unmatched" <=> p.rule = 0
                  /\ p.fate = "bypass" <=> p.rule # 0 /\ a.bypass
                  /\ p.fate = "no_tenant" => a.strategy # Nil /\ a.strategy.type = "other"
                  /\ p.fate # "limited" => p.asked = {} /\ p.fault = NoFault
                  /\ p.fate = "limited" =>
                       /\ p.asked = Asked /\ p.tenant = TenantKey(p.request, a.strategy)
                       /\ \A l \in Levels :
                            p.fault[l] = IF l \in Asked THEN Fault(LimitOf(l, a)) ELSE "none"
  <2>1. CASE j = i
    BY <1>1, <1>5, <1>7, <2>1 DEF n, e
  <2>2. CASE j # i
    BY <1>7, <1>11, <2>2 DEF IntakeInv, Classified
  <2> QED
    BY <2>1, <2>2
<1>12. Classified'
  BY <1>1, <1>10, <1>11 DEF Classified, LimitOf, Asked
<1> QED
  BY <1>8, <1>9, <1>12 DEF IntakeInv

-----------------------------------------------------------------------------
(* Intake: what the keys of requests have in common *)

\* A text that is joined to one token begins with it.
LEMMA JoinedHead ==
  ASSUME NEW w \in Letters, NEW b \in Seq(Letters)
  PROVE  Joined(<<w>>, b)[1] = w
<1>1. <<":">> \o b \in Seq(Letters)
  <2>1. ":" \in Letters
    BY DEF Letters, Tokens
  <2> QED
    BY <2>1, TokenThenText
<1>2. (<<w>> \o (<<":">> \o b))[1] = w
  BY <1>1, TokenThenText
<1> QED
  BY <1>2 DEF Joined

\* One key is of one level, of the rules with one path and one list of methods,
\* and of one tenant, if no path holds a colon.
LEMMA KeyRead ==
  ASSUME NEW l \in Levels, NEW e \in EndpointRule, NEW t \in Texts,
         NEW k \in Levels, NEW a \in EndpointRule, NEW u \in Texts,
         ":" \notin Range(e.path), ":" \notin Range(a.path),
         RedisKey(l, e, t) = RedisKey(k, a, u)
  PROVE  /\ l = k
         /\ l = "endpoint" => e.path = a.path /\ e.methods = a.methods
         /\ l # "global" => t = u
<1>1. /\ e.path \in Texts /\ a.path \in Texts
      /\ e.methods \in Seq(Methods) /\ a.methods \in Seq(Methods)
  BY DEF EndpointRule
<1>2. /\ \A i \in 1..Len(e.path) : e.path[i] # ":"
      /\ \A i \in 1..Len(a.path) : a.path[i] # ":"
  BY <1>1, RangeEquality DEF Texts
<1>3. /\ Tokens \subseteq Letters
      /\ "global" \in Letters /\ "pertenant" \in Letters /\ "perendpoint" \in Letters
  BY DEF Letters
<1>4. ASSUME NEW x \in EndpointRule, NEW s \in Texts, x.path \in Texts, x.methods \in Seq(Methods)
      PROVE  /\ RedisKey("global", x, s)[1] = "global"
             /\ RedisKey("tenant", x, s)[1] = "pertenant"
             /\ RedisKey("endpoint", x, s)[1] = "perendpoint"
  <2>1. s \in Seq(Letters) /\ x.path \in Seq(Letters)
    BY <1>3, <1>4, SeqMonotonic DEF Texts
  <2>2. JoinMethods(x.methods) \in Seq(Letters)
    BY <1>4, MethodsJoined
  <2>3. Joined(JoinMethods(x.methods), Joined(x.path, s)) \in Seq(Letters)
    BY <2>1, <2>2, JoinedText
  <2>4. RedisKey("tenant", x, s)[1] = "pertenant"
    BY <1>3, <2>1, JoinedHead DEF RedisKey
  <2>5. RedisKey("endpoint", x, s)[1] = "perendpoint"
    BY <1>3, <2>3, JoinedHead DEF RedisKey
  <2> QED
    BY <2>4, <2>5 DEF RedisKey
<1>5. l = k
  BY <1>1, <1>4 DEF Levels
<1>6. CASE l = "global"
  BY <1>5, <1>6
<1>7. CASE l = "tenant"
  <2>1. Joined(<<"pertenant">>, t) = Joined(<<"pertenant">>, u)
    BY <1>5, <1>7 DEF RedisKey
  <2> DEFINE w == <<"pertenant">>
  <2>2. w \in Seq(Letters) /\ \A i \in 1..Len(w) : w[i] # ":"
    BY <1>3
  <2>3. t \in Seq(Letters) /\ u \in Seq(Letters)
    BY <1>3, SeqMonotonic DEF Texts
  <2> HIDE DEF w
  <2>4. t = u
    BY <2>1, <2>2, <2>3, ReadJoined DEF w
  <2> QED
    BY <1>5, <1>7, <2>4
<1>8. CASE l = "endpoint"
  <2>1. Joined(<<"perendpoint">>, Joined(JoinMethods(e.methods), Joined(e.path, t)))
          = Joined(<<"perendpoint">>, Joined(JoinMethods(a.methods), Joined(a.path, u)))
    BY <1>5, <1>8 DEF RedisKey
  <2>2. e.methods = a.methods /\ e.path = a.path /\ t = u
    BY <1>1, <1>2, <2>1, EndpointKeyInjective
  <2> QED
    BY <1>5, <2>2
<1> QED
  BY <1>6, <1>7, <1>8 DEF Levels

\* What is known of a request whose limits are asked.
LEMMA AskedOutcome ==
  ASSUME IntakeInv, NEW i \in 1..2, served[i] # Nil, served[i].asked # {},
         NEW o, o = served[i]
  PROVE  /\ status = "running" /\ o.request \in Requests
         /\ o.rule = MapRequestToEndpointConfig(o.request, cfg.rules) /\ o.rule # 0
         /\ cfg.rules \in Seq(EndpointRule) /\ o.rule \in 1..Len(cfg.rules)
         /\ cfg.rules[o.rule] \in EndpointRule
         /\ o.tenant \in Texts /\ o.asked \subseteq Levels
<1>1. /\ o \in Outcome /\ o.request \in Requests /\ o.tenant \in Texts /\ o.asked \subseteq Levels
      /\ o.fate \in {"unmatched", "bypass", "no_tenant", "limited"}
  BY DEF IntakeInv, IntakeTypeOK, Outcome
<1>2. /\ status = "running" /\ o.rule = MapRequestToEndpointConfig(o.request, cfg.rules)
      /\ o.fate = "limited" /\ o.rule # 0
  BY DEF IntakeInv, Classified
<1>3. cfg.rules \in Seq(EndpointRule)
  BY <1>2 DEF IntakeInv, IntakeTypeOK, Config
<1>4. o.rule \in 1..Len(cfg.rules) /\ cfg.rules[o.rule] \in EndpointRule
  BY <1>1, <1>2, RuleOfRequest
<1> QED
  BY <1>1, <1>2, <1>3, <1>4

\* The buckets of different rules, tenants and levels are different ones.
LEMMA KeysSeparate == IntakeInv => BucketsSeparate
<1> SUFFICES ASSUME IntakeInv, status = "running",
                    \A e \in Range(cfg.rules) : ":" \notin Range(e.path),
                    NEW i \in 1..2, NEW j \in 1..2, served[i] # Nil, served[j] # Nil,
                    NEW k \in Keys(served[i]), NEW k2 \in Keys(served[j]), k[2] = k2[2]
             PROVE  /\ k[1] = k2[1]
                    /\ k[1] = "endpoint" => served[i].rule = served[j].rule
                    /\ k[1] # "global" => served[i].tenant = served[j].tenant
  BY DEF BucketsSeparate
<1> DEFINE o == served[i]
           p == served[j]
<1>1. PICK l \in o.asked : k = <<l, RedisKey(l, cfg.rules[o.rule], o.tenant)>>
  BY DEF Keys
<1>2. PICK m \in p.asked : k2 = <<m, RedisKey(m, cfg.rules[p.rule], p.tenant)>>
  BY DEF Keys
<1>3. /\ l \in Levels /\ o.tenant \in Texts /\ cfg.rules[o.rule] \in EndpointRule
      /\ o.rule \in 1..Len(cfg.rules) /\ cfg.rules \in Seq(EndpointRule)
      /\ o.rule = MapRequestToEndpointConfig(o.request, cfg.rules) /\ o.rule # 0
  BY <1>1, AskedOutcome
<1>4. /\ m \in Levels /\ p.tenant \in Texts /\ cfg.rules[p.rule] \in EndpointRule
      /\ p.rule \in 1..Len(cfg.rules)
      /\ p.rule = MapRequestToEndpointConfig(p.request, cfg.rules) /\ p.rule # 0
  BY <1>2, AskedOutcome
<1>5. /\ ":" \notin Range(cfg.rules[o.rule].path)
      /\ ":" \notin Range(cfg.rules[p.rule].path)
  BY <1>3, <1>4, RangeEquality
<1>6. RedisKey(l, cfg.rules[o.rule], o.tenant) = RedisKey(m, cfg.rules[p.rule], p.tenant)
  BY <1>1, <1>2
<1> HIDE DEF o, p
<1>7. /\ l = m
      /\ l = "endpoint" => /\ cfg.rules[o.rule].path = cfg.rules[p.rule].path
                           /\ cfg.rules[o.rule].methods = cfg.rules[p.rule].methods
      /\ l # "global" => o.tenant = p.tenant
  BY <1>3, <1>4, <1>5, <1>6, KeyRead
<1>8. l = "endpoint" => o.rule = p.rule
  BY <1>3, <1>4, <1>7, SameRule
<1> QED
  BY <1>1, <1>2, <1>7, <1>8 DEF o, p

-----------------------------------------------------------------------------
(* Intake: the spelling of a request *)

\* A text that has a slash more at its end is one longer, begins as before, and
\* is what it was without it.
LEMMA SlashAtEnd ==
  ASSUME NEW s \in Texts, s # <<>>, NEW u, u = s \o <<"/">>
  PROVE  /\ u \in Texts /\ u # <<>> /\ Len(s) \in Nat /\ Len(s) >= 1 /\ Len(u) = Len(s) + 1
         /\ \A i \in 1..Len(s) : u[i] = s[i]
         /\ Head(u) = Head(s) /\ Last(u) = "/" /\ Front(u) = s
<1> DEFINE m == <<"/">>
<1>1. m \in Seq(Tokens) /\ Len(m) = 1 /\ m[1] = "/"
  <2>1. "/" \in Tokens
    BY DEF Tokens
  <2> QED
    BY <2>1
<1>2. u = s \o m
  OBVIOUS
<1> HIDE DEF m
<1>3. Len(s) \in Nat /\ Len(s) >= 1 /\ s \in Seq(Tokens)
  BY LenProperties, EmptySeq DEF Texts
<1>4. /\ u \in Seq(Tokens) /\ Len(u) = Len(s) + Len(m)
      /\ \A i \in 1..Len(s) + Len(m) : u[i] = IF i <= Len(s) THEN s[i] ELSE m[i - Len(s)]
  BY <1>1, <1>2, <1>3, ConcatProperties
<1>5. /\ Len(u) = Len(s) + 1 /\ u # <<>>
      /\ \A i \in 1..Len(s) : u[i] = s[i]
      /\ u[Len(u)] = "/"
  BY <1>1, <1>3, <1>4
<1>6. Front(u) = s
  <2>1. /\ Front(u) \in Seq(Tokens) /\ Len(Front(u)) = Len(s)
        /\ \A i \in 1..Len(s) : Front(u)[i] = s[i]
    <3>1. \A i \in 1..Len(s) : u[i] \in Tokens
      BY <1>3, <1>4, <1>5, ElementOfSeq
    <3>2. /\ SubSeq(u, 1, Len(s)) \in Seq(Tokens)
          /\ Len(SubSeq(u, 1, Len(s))) = IF 1 <= Len(s) THEN Len(s) - 1 + 1 ELSE 0
          /\ \A i \in 1..Len(s) - 1 + 1 : SubSeq(u, 1, Len(s))[i] = u[1 + i - 1]
      BY <1>3, <3>1, SubSeqProperties
    <3>3. Front(u) = SubSeq(u, 1, Len(s))
      BY <1>3, <1>5 DEF Front
    <3> QED
      BY <1>3, <1>5, <3>2, <3>3
  <2> QED
    BY <1>3, <2>1, SeqEqual
<1>7. Head(u) = u[1] /\ Head(s) = s[1]
  OBVIOUS
<1> QED
  BY <1>3, <1>4, <1>5, <1>6, <1>7 DEF Last, Texts

\* A text after a slash begins with it and ends as it did.
LEMMA SlashAtHead ==
  ASSUME NEW s \in Texts, s # <<>>, NEW u, u = <<"/">> \o s
  PROVE  /\ u \in Texts /\ Len(s) \in Nat /\ Len(u) = Len(s) + 1 /\ u # <<>>
         /\ u[1] = "/" /\ \A i \in 1..Len(s) : u[i + 1] = s[i]
         /\ Last(u) = Last(s)
<1> DEFINE m == <<"/">>
<1>1. m \in Seq(Tokens) /\ Len(m) = 1 /\ m[1] = "/"
  <2>1. "/" \in Tokens
    BY DEF Tokens
  <2> QED
    BY <2>1
<1>2. u = m \o s
  OBVIOUS
<1> HIDE DEF m
<1>3. Len(s) \in Nat /\ Len(s) >= 1 /\ s \in Seq(Tokens)
  BY LenProperties, EmptySeq DEF Texts
<1>4. /\ u \in Seq(Tokens) /\ Len(u) = Len(m) + Len(s)
      /\ \A i \in 1..Len(m) + Len(s) : u[i] = IF i <= Len(m) THEN m[i] ELSE s[i - Len(m)]
  BY <1>1, <1>2, <1>3, ConcatProperties
<1>5. /\ Len(u) = Len(s) + 1 /\ u # <<>> /\ u[1] = "/"
      /\ \A i \in 1..Len(s) : u[i + 1] = s[i]
  BY <1>1, <1>3, <1>4
<1> QED
  BY <1>3, <1>4, <1>5 DEF Last, Texts

\* A slash more at the end of a path is normalised away.
LEMMA SlashNormalized ==
  ASSUME NEW p \in Texts, p # <<>>, Last(p) # "/"
  PROVE  NormalizePath(p \o <<"/">>) = NormalizePath(p)
<1> DEFINE q == p \o <<"/">>
           rp == <<"/">> \o p
           rq == <<"/">> \o q
<1>1. /\ q \in Texts /\ q # <<>> /\ Len(p) \in Nat /\ Len(p) >= 1 /\ Len(q) = Len(p) + 1
      /\ \A i \in 1..Len(p) : q[i] = p[i]
      /\ Head(q) = Head(p) /\ Last(q) = "/" /\ Front(q) = p
  BY SlashAtEnd
<1>2. /\ rp \in Texts /\ Len(rp) = Len(p) + 1 /\ rp # <<>>
      /\ rp[1] = "/" /\ \A i \in 1..Len(p) : rp[i + 1] = p[i]
      /\ Last(rp) = Last(p)
  BY SlashAtHead
<1> HIDE DEF q
<1>3. /\ rq \in Texts /\ Len(rq) = Len(q) + 1 /\ rq[1] = "/" /\ Last(rq) = Last(q)
      /\ \A i \in 1..Len(q) : rq[i + 1] = q[i]
  BY <1>1, SlashAtHead
<1> HIDE DEF rp, rq
<1>4. CASE Head(p) = "/"
  <2>1. NormalizePath(p) = p
    BY <1>4 DEF NormalizePath
  <2>2. NormalizePath(q) = Front(q)
    BY <1>1, <1>4 DEF NormalizePath
  <2> QED
    BY <1>1, <2>1, <2>2 DEF q
<1>5. CASE Head(p) # "/"
  <2>1. NormalizePath(p) = rp
    BY <1>2, <1>5 DEF NormalizePath, rp
  <2>2. NormalizePath(q) = Front(rq)
    BY <1>1, <1>3, <1>5 DEF NormalizePath, rq
  <2>3. rq = rp \o <<"/">>
    <3> DEFINE t == rp \o <<"/">>
    <3>1. /\ t \in Texts /\ Len(t) = Len(rp) + 1 /\ Last(t) = "/"
          /\ \A i \in 1..Len(rp) : t[i] = rp[i]
      BY <1>2, SlashAtEnd
    <3> HIDE DEF t
    <3>2. Len(rq) = Len(t)
      BY <1>1, <1>2, <1>3, <3>1
    <3>3. ASSUME NEW i \in 1..Len(rq) PROVE rq[i] = t[i]
      <4>1. CASE i = 1
        BY <1>1, <1>2, <1>3, <3>1, <4>1
      <4>2. CASE i \in 2..Len(p) + 1
        <5>1. i - 1 \in 1..Len(p) /\ i - 1 \in 1..Len(q) /\ i \in 1..Len(rp)
          BY <1>1, <1>2, <4>2
        <5>2. rq[(i - 1) + 1] = q[i - 1] /\ rp[(i - 1) + 1] = p[i - 1]
          BY <1>2, <1>3, <5>1
        <5> QED
          BY <1>1, <3>1, <4>2, <5>1, <5>2
      <4>3. CASE i = Len(p) + 2
        BY <1>1, <1>2, <1>3, <3>1, <4>3 DEF Last
      <4> QED
        BY <1>1, <1>3, <4>1, <4>2, <4>3
    <3> QED
      BY <1>3, <3>1, <3>2, <3>3, SeqEqual DEF t, Texts
  <2>4. Front(rq) = rp
    BY <1>2, <2>3, SlashAtEnd
  <2> QED
    BY <2>1, <2>2, <2>4 DEF q
<1> QED
  BY <1>4, <1>5

\* The fate of a request is what its rule says; that no tenant is found for it
\* does not happen.
LEMMA FateOfRequest ==
  ASSUME IntakeInv, NEW i \in 1..2, served[i] # Nil, NEW o, o = served[i]
  PROVE  /\ o \in Outcome /\ status = "running" /\ o.request \in Requests
         /\ o.rule = MapRequestToEndpointConfig(o.request, cfg.rules)
         /\ o.fate = IF o.rule = 0 THEN "unmatched"
                     ELSE IF cfg.rules[o.rule].bypass THEN "bypass" ELSE "limited"
<1>1. /\ o \in Outcome /\ o.request \in Requests
      /\ o.fate \in {"unmatched", "bypass", "no_tenant", "limited"}
  BY DEF IntakeInv, IntakeTypeOK, Outcome
<1>2. /\ status = "running" /\ o.rule = MapRequestToEndpointConfig(o.request, cfg.rules)
      /\ o.fate = "unmatched" <=> o.rule = 0
      /\ o.fate = "bypass" <=> o.rule # 0 /\ cfg.rules[o.rule].bypass
      /\ o.fate = "no_tenant" =>
           cfg.rules[o.rule].strategy # Nil /\ cfg.rules[o.rule].strategy.type = "other"
  BY DEF IntakeInv, Classified
<1>3. o.rule # 0 /\ ~cfg.rules[o.rule].bypass => o.fate # "no_tenant"
  BY <1>1, <1>2, RuleOfRequest
<1> QED
  BY <1>1, <1>2, <1>3

\* Two spellings of a request are from one tenant, whatever the strategy, and of
\* one rule.
LEMMA SameRequest ==
  ASSUME NEW r \in Requests, NEW q \in Requests, Respelled(r, q)
  PROVE  /\ \A t : TenantKey(r, t) = TenantKey(q, t)
         /\ \A rules \in Seq(EndpointRule) :
              MapRequestToEndpointConfig(r, rules) = MapRequestToEndpointConfig(q, rules)
<1>1. r \in Request /\ q \in Request
  BY IntakeAssumption
<1>2. /\ r.sent = q.sent /\ r.realIP = q.realIP /\ r.forwarded = q.forwarded
      /\ r.remote = q.remote /\ Upper(r.method) = Upper(q.method)
  <2> DEFINE a == [q EXCEPT !.path = r.path, !.method = Upper(@)]
             b == [r EXCEPT !.method = Upper(@)]
  <2>1. /\ a.sent = q.sent /\ a.realIP = q.realIP /\ a.forwarded = q.forwarded
        /\ a.remote = q.remote /\ a.method = Upper(q.method)
    BY <1>1 DEF Request
  <2>2. /\ b.sent = r.sent /\ b.realIP = r.realIP /\ b.forwarded = r.forwarded
        /\ b.remote = r.remote /\ b.method = Upper(r.method)
    BY <1>1 DEF Request
  <2>3. a = b
    BY DEF Respelled
  <2> HIDE DEF a, b
  <2> QED
    BY <2>1, <2>2, <2>3
<1>3. ExtractIP(r) = ExtractIP(q) /\ \A t : Found(r, t) = Found(q, t)
  BY <1>2 DEF ExtractIP, Found
<1>4. \A t : TenantKey(r, t) = TenantKey(q, t)
  BY <1>3 DEF TenantKey
<1>5. NormalizePath(r.path) = NormalizePath(q.path)
  <2>1. r.path \in Texts /\ r.path # <<>> /\ Last(r.path) # "/"
    BY <1>1 DEF Respelled, Request
  <2>2. q.path = r.path \/ q.path = r.path \o <<"/">>
    BY DEF Respelled
  <2> QED
    BY <2>1, <2>2, SlashNormalized
<1>6. \A e : Matches(e, r) = Matches(e, q)
  <2>1. \A p : PathMatches(p, r.path) = PathMatches(p, q.path)
    BY <1>5 DEF PathMatches
  <2>2. \A m : MethodMatches(m, r.method) = MethodMatches(m, q.method)
    BY <1>2 DEF MethodMatches
  <2> QED
    BY <2>1, <2>2 DEF Matches
<1>7. ASSUME NEW rules \in Seq(EndpointRule)
      PROVE  MapRequestToEndpointConfig(r, rules) = MapRequestToEndpointConfig(q, rules)
  <2> DEFINE n == MapRequestToEndpointConfig(r, rules)
             m == MapRequestToEndpointConfig(q, rules)
  <2>1. /\ n \in 0..Len(rules) /\ (n # 0 => Matches(rules[n], r))
        /\ \A k \in 1..Len(rules) : Matches(rules[k], r) => n # 0 /\ n <= k
    BY RuleFound
  <2>2. /\ m \in 0..Len(rules) /\ (m # 0 => Matches(rules[m], q))
        /\ \A k \in 1..Len(rules) : Matches(rules[k], q) => m # 0 /\ m <= k
    BY RuleFound
  <2>3. Len(rules) \in Nat
    BY LenProperties
  <2> HIDE DEF n, m
  <2>4. n # 0 => m # 0 /\ m <= n
    BY <1>6, <2>1, <2>2, <2>3
  <2>5. m # 0 => n # 0 /\ n <= m
    BY <1>6, <2>1, <2>2, <2>3
  <2>6. n = m
    BY <2>1, <2>2, <2>3, <2>4, <2>5
  <2> QED
    BY <2>6 DEF n, m
<1> QED
  BY <1>4, <1>7

\* Nobody gets past a rule, or to another bucket, by the spelling of a request.
LEMMA SpellingIsOne == IntakeInv => SpellingDoesNotMatter
<1> SUFFICES ASSUME IntakeInv, NEW i \in 1..2, NEW j \in 1..2, served[i] # Nil, served[j] # Nil,
                    Respelled(served[i].request, served[j].request)
             PROVE  served[i].fate = served[j].fate /\ Keys(served[i]) = Keys(served[j])
  BY DEF SpellingDoesNotMatter
<1> DEFINE o == served[i]
           p == served[j]
<1>1. /\ o \in Outcome /\ status = "running" /\ o.request \in Requests
      /\ o.rule = MapRequestToEndpointConfig(o.request, cfg.rules)
      /\ o.fate = IF o.rule = 0 THEN "unmatched"
                  ELSE IF cfg.rules[o.rule].bypass THEN "bypass" ELSE "limited"
  BY FateOfRequest
<1>2. /\ p \in Outcome /\ p.request \in Requests
      /\ p.rule = MapRequestToEndpointConfig(p.request, cfg.rules)
      /\ p.fate = IF p.rule = 0 THEN "unmatched"
                  ELSE IF cfg.rules[p.rule].bypass THEN "bypass" ELSE "limited"
  BY FateOfRequest
<1>3. cfg.rules \in Seq(EndpointRule)
  BY <1>1 DEF IntakeInv, IntakeTypeOK, Config
<1>4. /\ o.fate # "limited" => o.asked = {}
      /\ o.fate = "limited" =>
           o.asked = Asked /\ o.tenant = TenantKey(o.request, cfg.rules[o.rule].strategy)
  BY DEF IntakeInv, Classified
<1>5. /\ p.fate # "limited" => p.asked = {}
      /\ p.fate = "limited" =>
           p.asked = Asked /\ p.tenant = TenantKey(p.request, cfg.rules[p.rule].strategy)
  BY DEF IntakeInv, Classified
<1>6. Respelled(o.request, p.request)
  OBVIOUS
<1> HIDE DEF o, p
<1>7. /\ \A t : TenantKey(o.request, t) = TenantKey(p.request, t)
      /\ o.rule = p.rule
  BY <1>1, <1>2, <1>3, <1>6, SameRequest
<1>8. o.fate = p.fate
  BY <1>1, <1>2, <1>7
<1>9. Keys(o) = Keys(p)
  <2>1. CASE o.fate = "limited"
    <3>1. o.asked = p.asked /\ o.tenant = p.tenant
      BY <1>4, <1>5, <1>7, <1>8, <2>1
    <3> QED
      BY <1>7, <3>1 DEF Keys
  <2>2. CASE o.fate # "limited"
    <3>1. o.asked = {} /\ p.asked = {}
      BY <1>4, <1>5, <1>8, <2>2
    <3> QED
      BY <3>1 DEF Keys
  <2> QED
    BY <2>1, <2>2
<1> QED
  BY <1>8, <1>9 DEF o, p

-----------------------------------------------------------------------------
(* Intake: what is asked has been checked *)

\* A level that is asked with a faulty limit is off, and the run is a dry one.
LEMMA AskedIsChecked == IntakeInv => CheckedIsValid
<1> SUFFICES ASSUME IntakeInv PROVE CheckedIsValid
  OBVIOUS
<1>1. status = "running" => ValidProxy(cfg.proxy) /\ ValidLimiter(cfg)
  BY DEF IntakeInv, Validated
<1>2. ASSUME NEW i \in 1..2, served[i] # Nil
      PROVE  /\ served[i].fate # "no_tenant"
             /\ \A l \in Levels : served[i].fault[l] # "none" =>
                  /\ cfg.proxy.dryRun
                  /\ \/ l = "global" /\ ~cfg.global.enabled
                     \/ l = "tenant" /\ ~cfg.tenant.enabled
  <2> DEFINE o == served[i]
             e == cfg.rules[o.rule]
  <2>1. /\ status = "running" /\ o.request \in Requests
        /\ o.rule = MapRequestToEndpointConfig(o.request, cfg.rules)
        /\ o.fate = IF o.rule = 0 THEN "unmatched"
                    ELSE IF e.bypass THEN "bypass" ELSE "limited"
    BY <1>2, FateOfRequest
  <2>2. /\ o.fate # "limited" => o.fault = NoFault
        /\ o.fate = "limited" =>
             \A l \in Levels :
               o.fault[l] = IF l \in Asked THEN Fault(LimitOf(l, e)) ELSE "none"
    BY <1>2 DEF IntakeInv, Classified
  <2>3. o.fate = "limited" => ValidAlgorithm(e.limit)
    BY <2>1, RuleOfRequest
  <2>4. \A a : ValidAlgorithm(a) => Fault(a) = "none"
    BY DEF ValidAlgorithm, Fault
  <2>5. ASSUME NEW l \in Levels, o.fault[l] # "none"
        PROVE  /\ cfg.proxy.dryRun
               /\ \/ l = "global" /\ ~cfg.global.enabled
                  \/ l = "tenant" /\ ~cfg.tenant.enabled
    <3>1. o.fate = "limited" /\ l \in Asked /\ ~ValidAlgorithm(LimitOf(l, e))
      BY <2>2, <2>4, <2>5 DEF NoFault
    <3> HIDE DEF e, o
    <3>2. l # "endpoint"
      BY <2>3, <3>1 DEF LimitOf
    <3>3. /\ l = "global" => ~cfg.global.enabled
          /\ l = "tenant" => ~cfg.tenant.enabled
      BY <1>1, <2>1, <3>1 DEF LimitOf, ValidLimiter
    <3> QED
      BY <3>1, <3>2, <3>3 DEF Asked, Levels
  <2> QED
    BY <2>1, <2>5
<1> QED
  BY <1>1, <1>2 DEF CheckedIsValid

\* Every step keeps the inductive invariant of the intake.
THEOREM IntakeInvNext == IntakeInv /\ [IntakeNext]_intakeVars => IntakeInv'
<1> SUFFICES ASSUME IntakeInv, [IntakeNext]_intakeVars PROVE IntakeInv'
  OBVIOUS
<1>1. CASE LoadConfigs
  BY <1>1, LoadStep
<1>2. ASSUME NEW i \in 1..2, Classify(i) PROVE IntakeInv'
  BY <1>2, ClassifyStep
<1>3. CASE UNCHANGED intakeVars
  <2>1. cfg' = cfg /\ status' = status /\ served' = served
    BY <1>3 DEF intakeVars
  <2> QED
    BY <2>1 DEF IntakeInv, IntakeTypeOK, Validated, Classified, Asked, LimitOf
<1> QED
  BY <1>1, <1>2, <1>3 DEF IntakeNext

\* The inductive invariant of the intake always holds, whatever the files and the
\* environment hold and whichever requests come.
THEOREM IntakeInvariance == IntakeSpec => []IntakeInv
BY IntakeInvInit, IntakeInvNext, PTL DEF IntakeSpec

\* A configuration is there exactly while the process runs with it, every request
\* has an outcome of the described kind, and a tenant key is never longer than the
\* sanitiser lets it be.
THEOREM IntakeTypeCorrect == IntakeSpec => []IntakeTypeOK
<1>1. IntakeInv => IntakeTypeOK
  BY DEF IntakeInv
<1> QED
  BY <1>1, IntakeInvariance, PTL

\* The Redis keys of constructRedisKey separate what the limits are to keep apart:
\* one endpoint key is of one rule and one tenant, one tenant key of one tenant, no
\* key of two levels; and neither the case of the method nor a slash at the end of
\* the path changes the rule or the bucket of a request.
THEOREM BucketsAlwaysFit == IntakeSpec => []BucketsFit
<1>1. IntakeInv => BucketsFit
  BY KeysSeparate, SpellingIsOne DEF BucketsFit
<1> QED
  BY <1>1, IntakeInvariance, PTL

\* What the validator has let pass is enough for the limiters: none is asked with
\* a missing or zero parameter or an algorithm there is none of, but for a level
\* that is off, in a dry run; and each request to be limited has a tenant.
THEOREM OnlyValidIsAsked == IntakeSpec => []CheckedIsValid
<1>1. IntakeInv => CheckedIsValid
  BY AskedIsChecked
<1> QED
  BY <1>1, IntakeInvariance, PTL

-----------------------------------------------------------------------------
(* The process as a whole *)

\* Each step of the process is one of its life and one of its intake, or leaves
\* the other alone: whatever holds of either by itself holds of the process.
THEOREM ProcessIsBoth == ProcessSpec => Spec /\ IntakeSpec
<1>1. ProcessInit => Init /\ IntakeInit
  BY DEF ProcessInit
<1>2. [ProcessNext]_processVars => [Next]_vars /\ [IntakeNext]_intakeVars
  <2> SUFFICES ASSUME [ProcessNext]_processVars
               PROVE  [Next]_vars /\ [IntakeNext]_intakeVars
    OBVIOUS
  <2>1. CASE Start
    BY <2>1 DEF Start, Next, Main, IntakeNext
  <2>2. CASE \/ Alone(Ping) \/ Alone(TakeSignal) \/ Alone(TakeResult) \/ Alone(Leave)
             \/ Alone(Select) \/ Alone(Shutdown) \/ Alone(Signal) \/ Alone(DeadlineOver)
    BY <2>2 DEF Alone, Next, Main, StartServer
  <2>3. ASSUME NEW s \in Servers,
               Alone(Listen(s)) \/ Alone(SendError(s)) \/ Alone(Break(s))
        PROVE  [Next]_vars /\ [IntakeNext]_intakeVars
    BY <2>3 DEF Alone, Next
  <2>4. ASSUME NEW r \in Connections, Alone(Accept(r)) \/ Alone(Serve(r))
        PROVE  [Next]_vars /\ [IntakeNext]_intakeVars
    BY <2>4 DEF Alone, Next
  <2>5. ASSUME NEW i \in 1..2, TakeIn(i)
        PROVE  [Next]_vars /\ [IntakeNext]_intakeVars
    BY <2>5 DEF TakeIn, IntakeNext
  <2>6. CASE UNCHANGED processVars
    BY <2>6 DEF processVars
  <2> QED
    BY <2>1, <2>2, <2>3, <2>4, <2>5, <2>6 DEF ProcessNext
<1> QED
  BY <1>1, <1>2, PTL DEF ProcessSpec, Spec, IntakeSpec
=============================================================================
