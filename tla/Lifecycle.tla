----------------------------- MODULE Lifecycle ------------------------------
(***************************************************************************)
(* The life of the process: main of cmd/ctrl/main.go, StartServer of        *)
(* internal/proxy/server.go in a goroutine of its own, and the two          *)
(* goroutines that serve the proxy and the metrics.  They talk through four *)
(* channels: quit (a signal, room for one), shutdown (closed once, when     *)
(* main is stopping), errChan (room for two) and serverErrChan (room for    *)
(* one).  A select with several ready cases takes any of them.  Requests,   *)
(* signals and failures of the start and of a listener are the environment. *)
(***************************************************************************)
EXTENDS Naturals, Sequences

CONSTANTS
  Connections,  \* each with one request
  ServerOf,     \* ServerOf[r]: the server r talks to
  ErrRoom       \* capacity of errChan (2)

Servers == {"proxy", "metrics"}

ASSUME LifecycleAssumption ==
  /\ ServerOf \in [Connections -> Servers]
  /\ ErrRoom \in Nat

VARIABLES
  main,       \* where main is, or how the process ended
  starter,    \* where StartServer is: at its select, or at a server's Shutdown
  listener,   \* listener[s]: where the goroutine of server s is
  quit,       \* the signals waiting in quit
  errChan,    \* the servers whose error is waiting in errChan
  runErr,     \* StartServer has received an error
  result,     \* what is waiting in serverErrChan
  deadline,   \* the 5 s both servers share to shut down
  request,    \* request[r]: what becomes of r
  happened    \* history: what the environment has done

channels == <<quit, errChan, runErr, result, deadline>>
vars == <<main, starter, listener, channels, request, happened>>

Endings == {"stopped", "failed", "killed"}

TypeOK ==
  /\ main \in Endings \cup {"loading", "pinging", "waiting", "stopping",
                            "failing", "returning", "closed"}
  /\ starter \in Servers \cup {"off", "selecting", "returned"}
  /\ listener \in [Servers -> {"off", "binding", "serving", "failing", "over"}]
  /\ quit \in 0..1
  /\ errChan \in Seq(Servers) /\ Len(errChan) <= ErrRoom
  /\ runErr \in BOOLEAN
  /\ result \in {"empty", "closed", "error"}
  /\ deadline \in {"unset", "running", "over"}
  /\ request \in [Connections -> {"new", "active", "served", "cut"}]
  /\ happened \subseteq {"signal", "failure"}

Init ==
  /\ main = "loading" /\ starter = "off"
  /\ listener = [s \in Servers |-> "off"]
  /\ quit = 0 /\ errChan = <<>> /\ runErr = FALSE /\ result = "empty"
  /\ deadline = "unset"
  /\ request = [r \in Connections |-> "new"]
  /\ happened = {}

\* The process has not ended.
Running == main \notin Endings

Active(s) == {r \in Connections : ServerOf[r] = s /\ request[r] = "active"}

\* Shutdown of s has been called: it does not listen any more.
Closing(s) == starter \in (IF s = "proxy" THEN Servers ELSE {"metrics"}) \cup {"returned"}

\* The process ends, whatever its goroutines are doing.
Exit(how) ==
  /\ main' = how
  /\ request' = [r \in Connections |-> IF request[r] = "active" THEN "cut" ELSE request[r]]

-----------------------------------------------------------------------------
(* main *)

Failed == Exit("failed") /\ happened' = happened \cup {"failure"}

\* LoadConfigs and NewLogger: an error panics.
Load ==
  /\ main = "loading"
  /\ \/ main' = "pinging" /\ UNCHANGED <<request, happened>>
     \/ Failed
  /\ UNCHANGED <<starter, listener, channels>>

\* Ping within 3 s, or the process ends; then signals are caught, StartServer
\* runs, and with it the two servers.
Ping ==
  /\ main = "pinging"
  /\ \/ /\ main' = "waiting" /\ starter' = "selecting"
        /\ listener' = [s \in Servers |-> "binding"]
        /\ UNCHANGED <<request, happened>>
     \/ Failed /\ UNCHANGED <<starter, listener>>
  /\ UNCHANGED channels

\* Mutant of TakeSignal: main returns without waiting for StartServer.
TakeSignalAndReturn ==
  /\ main = "waiting" /\ quit > 0
  /\ quit' = quit - 1
  /\ main' = "returning"
  /\ UNCHANGED <<starter, listener, errChan, runErr, result, deadline, request, happened>>

\* The select of main, first case: a signal closes shutdown.
TakeSignal ==
  /\ main = "waiting" /\ quit > 0
  /\ quit' = quit - 1
  /\ main' = "stopping"
  /\ UNCHANGED <<starter, listener, errChan, runErr, result, deadline, request, happened>>

\* Mutant of TakeResult: after a signal the result is not looked at.
TakeResultUnseen ==
  /\ main \in {"waiting", "stopping"} /\ result # "empty"
  /\ result' = "empty"
  /\ main' = IF main = "waiting" THEN "failing" ELSE "returning"
  /\ UNCHANGED <<starter, listener, quit, errChan, runErr, deadline, request, happened>>

\* Its second case, and the wait after the first: StartServer has returned.
TakeResult ==
  /\ main \in {"waiting", "stopping"} /\ result # "empty"
  /\ result' = "empty"
  /\ main' = IF main = "waiting" \/ result = "error" THEN "failing" ELSE "returning"
  /\ UNCHANGED <<starter, listener, quit, errChan, runErr, deadline, request, happened>>

\* os.Exit(1) makes none of the deferred calls; a return closes the Redis client
\* first, and the requests that are still served find it closed.
Leave ==
  /\ \/ main = "failing" /\ Exit("failed")
     \/ main = "returning" /\ main' = "closed" /\ UNCHANGED request
     \/ main = "closed" /\ Exit("stopped")
  /\ UNCHANGED <<starter, listener, channels, happened>>

Main == Load \/ Ping \/ TakeSignal \/ TakeResult \/ Leave

-----------------------------------------------------------------------------
(* The goroutines of the two servers: ListenAndServe *)

\* The port is bound, or is not to be had; a server that is shut down stops to
\* listen, or does not begin to, and that is no error.
Listen(s) ==
  /\ Running
  /\ \/ /\ listener[s] \in {"binding", "serving"} /\ Closing(s)
        /\ listener' = [listener EXCEPT ![s] = "over"]
        /\ UNCHANGED happened
     \/ /\ listener[s] = "binding" /\ ~Closing(s)
        /\ listener' = [listener EXCEPT ![s] = "serving"]
        /\ UNCHANGED happened
     \/ /\ listener[s] = "binding" /\ ~Closing(s)
        /\ listener' = [listener EXCEPT ![s] = "failing"]
        /\ happened' = happened \cup {"failure"}
  /\ UNCHANGED <<main, starter, channels, request>>

\* An error goes to errChan.
SendError(s) ==
  /\ Running
  /\ listener[s] = "failing" /\ Len(errChan) < ErrRoom
  /\ errChan' = Append(errChan, s)
  /\ listener' = [listener EXCEPT ![s] = "over"]
  /\ UNCHANGED <<main, starter, quit, runErr, result, deadline, request, happened>>

-----------------------------------------------------------------------------
(* StartServer *)

\* The first error of a server, or shutdown; the deadline of both servers starts
\* and the proxy is shut down.
Select ==
  /\ Running
  /\ starter = "selecting"
  /\ \/ errChan # <<>> /\ errChan' = Tail(errChan) /\ runErr' = TRUE
     \/ main = "stopping" /\ UNCHANGED <<errChan, runErr>>
  /\ starter' = "proxy"
  /\ deadline' = "running"
  /\ UNCHANGED <<main, listener, quit, result, request, happened>>

\* Mutant of Drained: Shutdown without a deadline.
DrainedAtLast(s) == Active(s) = {}

\* Shutdown waits for the requests of a server as long as the deadline lets it.
Drained(s) == Active(s) = {} \/ deadline = "over"

\* Then the metrics server is shut down, and the result goes to serverErrChan.
Shutdown ==
  /\ Running
  /\ \/ /\ starter = "proxy" /\ Drained("proxy")
        /\ starter' = "metrics"
        /\ UNCHANGED result
     \/ /\ starter = "metrics" /\ Drained("metrics") /\ result = "empty"
        /\ starter' = "returned"
        /\ result' = IF runErr THEN "error" ELSE "closed"
  /\ UNCHANGED <<main, listener, quit, errChan, runErr, deadline, request, happened>>

StartServer == Select \/ Shutdown

-----------------------------------------------------------------------------
(* The environment *)

\* Mutant of Signal: quit holds every signal.
SignalQueued ==
  /\ Running
  /\ happened' = happened \cup {"signal"}
  /\ quit' = quit + 1
  /\ UNCHANGED <<main, starter, listener, errChan, runErr, result, deadline, request>>

\* A signal kills a process that does not catch it yet; later it is put in
\* quit, unless there is one already.
Signal ==
  /\ Running
  /\ happened' = happened \cup {"signal"}
  /\ IF main \in {"loading", "pinging"}
     THEN Exit("killed") /\ UNCHANGED quit
     ELSE quit' = 1 /\ UNCHANGED <<main, request>>
  /\ UNCHANGED <<starter, listener, errChan, runErr, result, deadline>>

\* A listener that served fails.
Break(s) ==
  /\ Running
  /\ listener[s] = "serving" /\ ~Closing(s)
  /\ listener' = [listener EXCEPT ![s] = "failing"]
  /\ happened' = happened \cup {"failure"}
  /\ UNCHANGED <<main, starter, channels, request>>

DeadlineOver ==
  /\ Running
  /\ deadline = "running" /\ deadline' = "over"
  /\ UNCHANGED <<main, starter, listener, quit, errChan, runErr, result, request, happened>>

Accept(r) ==
  /\ Running
  /\ request[r] = "new" /\ listener[ServerOf[r]] = "serving" /\ ~Closing(ServerOf[r])
  /\ request' = [request EXCEPT ![r] = "active"]
  /\ UNCHANGED <<main, starter, listener, channels, happened>>

Serve(r) ==
  /\ Running
  /\ request[r] = "active"
  /\ request' = [request EXCEPT ![r] = "served"]
  /\ UNCHANGED <<main, starter, listener, channels, happened>>

-----------------------------------------------------------------------------

Next ==
  \/ Main \/ StartServer \/ Signal \/ DeadlineOver
  \/ \E s \in Servers : Listen(s) \/ SendError(s) \/ Break(s)
  \/ \E r \in Connections : Accept(r) \/ Serve(r)

\* The goroutines of the program are scheduled and the 5 s pass; nobody has to
\* send a signal or a request, and a request may take for ever.
Scheduled ==
  /\ WF_vars(Main) /\ WF_vars(StartServer) /\ WF_vars(DeadlineOver)
  /\ \A s \in Servers : WF_vars(Listen(s)) /\ WF_vars(SendError(s))

Spec == Init /\ [][Next]_vars /\ Scheduled

-----------------------------------------------------------------------------
(* Properties *)

\* Nothing has been started before the servers are, and the deadline starts when
\* StartServer has left its select.
Startup ==
  /\ main \in {"loading", "pinging", "killed"} => starter = "off"
  /\ starter = "off" =>
       /\ main \in {"loading", "pinging", "failed", "killed"}
       /\ ~runErr
       /\ \A s \in Servers : listener[s] = "off"
       /\ \A r \in Connections : request[r] = "new"
  /\ deadline = "unset" <=> starter \in {"off", "selecting"}

\* A server that has been shut down has no request left, or the deadline is over;
\* main ends with a result of StartServer, which has shut down both.
Draining ==
  /\ starter \in {"metrics", "returned"} => Drained("proxy")
  /\ starter = "returned" => Drained("metrics")
  /\ result # "empty" \/ main \in {"failing", "returning", "closed", "stopped"} =>
       starter = "returned"
  /\ \A r \in Connections : request[r] = "cut" => deadline = "over"

\* What is waiting in a channel, and what was made of it, has a cause.
Causes ==
  /\ quit > 0 => "signal" \in happened
  /\ main \in {"stopping", "returning", "closed", "stopped"} => "signal" \in happened
  /\ (\E s \in Servers : listener[s] = "failing") => "failure" \in happened
  /\ errChan # <<>> \/ runErr \/ main = "failed" => "failure" \in happened
  /\ starter \in Servers \cup {"returned"} /\ ~runErr =>
       main \in {"stopping", "returning", "closed", "stopped"}
  /\ main = "failing" \/ result = "error" => runErr
  /\ main \in {"returning", "closed", "stopped"} \/ result = "closed" => ~runErr

\* Why GraceGiven and ExitTellsWhy hold: the inductive invariant of the proof.
LifeInv == TypeOK /\ Startup /\ Draining /\ Causes

\* A request is cut off, or finds the Redis client closed and is let through
\* without limits, only after the 5 s the servers were given to finish
\* (docs/proxy_package.md:249), in whatever order signals and errors came.
GraceGiven ==
  \A r \in Connections :
    request[r] = "cut" \/ (request[r] = "active" /\ main = "closed") => deadline = "over"

\* The exit code tells why: a process that ends well was told to, one that fails
\* did not end because of a signal alone, and an error that StartServer received
\* is not lost because a signal came as well.
ExitTellsWhy ==
  /\ main = "stopped" => "signal" \in happened
  /\ main = "failed" => "failure" \in happened
  /\ ~Running /\ runErr => main = "failed"

\* After a signal, and after a failure at the start or of either server, the
\* process ends, even if requests hang and no matter who waits for whom.
ProcessEnds == happened # {} ~> ~Running
=============================================================================
