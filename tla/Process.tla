------------------------------ MODULE Process -------------------------------
(***************************************************************************)
(* The process as a whole: the life of Lifecycle with the intake of Intake *)
(* inside it.  They meet where main loads the configuration, and where the *)
(* handler of the proxy classifies what its server has accepted.           *)
(***************************************************************************)
EXTENDS Lifecycle, Intake

CONSTANT
  Followed  \* bound: configurations whose process may be disturbed; with the
            \* others it starts and classifies, and nothing else happens to it

processVars == <<vars, intakeVars>>

ProcessInit == Init /\ IntakeInit

\* No signal, no failure and no connection so far.
Undisturbed == happened = {} /\ \A r \in Connections : request[r] = "new"

\* main panics on the error of LoadConfigs; NewLogger may fail after it.
Start ==
  /\ Load /\ LoadConfigs
  /\ status' = "refused" => main' = "failed"

\* A step of the process that takes in nothing.
Alone(step) ==
  /\ step
  /\ \/ main = "loading" \/ Undisturbed'                             \* bound
     \/ cfg \in Followed /\ served = [i \in 1..2 |-> Nil]
  /\ UNCHANGED intakeVars

\* A request reaches Classifier while the proxy is served.  The two that are
\* watched are numbered as they come.
TakeIn(i) ==
  /\ Running /\ listener["proxy"] = "serving"
  /\ Undisturbed /\ listener["metrics"] = "serving"                   \* bound
  /\ i = 2 => served[1] # Nil
  /\ Classify(i)
  /\ UNCHANGED vars

ProcessNext ==
  \/ Start
  \/ Alone(Ping) \/ Alone(TakeSignal) \/ Alone(TakeResult) \/ Alone(Leave)
  \/ Alone(Select) \/ Alone(Shutdown) \/ Alone(Signal) \/ Alone(DeadlineOver)
  \/ \E s \in Servers : Alone(Listen(s)) \/ Alone(SendError(s)) \/ Alone(Break(s))
  \/ \E r \in Connections : Alone(Accept(r)) \/ Alone(Serve(r))
  \/ \E i \in 1..2 : TakeIn(i)

ProcessSpec == ProcessInit /\ [][ProcessNext]_processVars /\ Scheduled
=============================================================================
