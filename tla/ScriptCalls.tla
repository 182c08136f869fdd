---------------------------- MODULE ScriptCalls -----------------------------
(***************************************************************************)
(* How a limiter script on one Redis key is reached, common to the four    *)
(* algorithms.  A caller is a request on one proxy host: it samples its    *)
(* host's clock (now := time.Now().UnixMilli()), and only then sends the   *)
(* script, which runs later and atomically in Redis with that stamp in its *)
(* arguments.  Stamps therefore reach Redis late, out of order and from    *)
(* clocks that disagree.  The client library resends a script whose reply  *)
(* was lost, with the same arguments, and Redis may run it twice.  A host  *)
(* may restart with another configuration while the others keep the old    *)
(* one.  The module has no Next of its own: the algorithm modules extend   *)
(* it and add the key and what the script does to it.                      *)
(***************************************************************************)
EXTENDS Integers

CONSTANTS
  Callers,      \* concurrent requests, each on a host
  Configs,      \* algorithm configurations (AlgorithmConfig) in use
  Offset,       \* Offset[c]: clock of c's host minus the clock of Redis
  Skew,         \* bound on |Offset[c]|
  MaxDelay,     \* longest time from the stamp to the run of the script
  MaxRetries,   \* times the client resends a script (MaxRetries of go-redis)
  Sec,          \* clock units in a second, the unit of EXPIRE (1000)
  Buffer,       \* seconds every script adds to the lifetime of its key (60)
  StartClock, MaxClock   \* the clock runs from the one to the other

ASSUME CallsAssumption ==
  /\ Skew \in Nat /\ MaxDelay \in Nat /\ MaxRetries \in Nat
  /\ StartClock \in Nat /\ MaxClock \in Nat
  /\ Sec \in Nat \ {0} /\ Buffer \in Nat
  /\ Offset \in [Callers -> (-Skew)..Skew]

\* The buffer on the lifetime of a key covers the late and skewed stamps: 60 s
\* against the 5 s that Classifier gives all Redis calls of a request.
ASSUME BufferAssumption == MaxDelay + 2 * Skew <= Buffer * Sec

VARIABLES
  clock,     \* the clock of Redis
  conf,      \* conf[c]: the configuration c's host was started with
  call       \* call[c]: the script call of c, if one is under way

callVars == <<clock, conf, call>>

Idle == [pending |-> FALSE, at |-> 0, tries |-> 0]

CallsTypeOK ==
  /\ clock \in Int
  /\ conf \in [Callers -> Configs]
  /\ call \in [Callers -> [pending : BOOLEAN, at : Int, tries : 0..MaxRetries]]

CallsInit ==
  /\ clock = StartClock
  /\ conf \in [Callers -> Configs]
  /\ call = [c \in Callers |-> Idle]

\* The argument "now" of c's script.
Stamp(c) == call[c].at + Offset[c]

\* A request samples the clock and sends its script.
Begin(c) ==
  /\ ~call[c].pending
  /\ call' = [call EXCEPT ![c] = [pending |-> TRUE, at |-> clock, tries |-> 0]]
  /\ UNCHANGED <<clock, conf>>

\* The script ran and c has the reply, or it gave up waiting for it.
Answered(c) == call' = [call EXCEPT ![c] = Idle]

\* The script ran but the reply was lost: the client sends the same script
\* with the same stamp once more.
Resent(c) ==
  /\ call[c].tries < MaxRetries
  /\ call' = [call EXCEPT ![c].tries = @ + 1]

\* What the client makes of a run of c's script.
Replied(c) ==
  /\ Answered(c) \/ Resent(c)
  /\ UNCHANGED <<clock, conf>>

\* The script never reaches Redis: Eval returns an error and the request is
\* let through unlimited.
Lose(c) ==
  /\ call[c].pending
  /\ call' = [call EXCEPT ![c] = Idle]
  /\ UNCHANGED <<clock, conf>>

\* c's host restarts with another configuration; its calls die with it.
Redeploy(c) ==
  /\ \E other \in Configs \ {conf[c]} : conf' = [conf EXCEPT ![c] = other]
  /\ call' = [call EXCEPT ![c] = Idle]
  /\ UNCHANGED clock

\* Time passes, but no call is under way for longer than MaxDelay.
TimePasses ==
  /\ clock < MaxClock
  /\ \A c \in Callers : call[c].pending => clock < call[c].at + MaxDelay
  /\ clock' = clock + 1
  /\ UNCHANGED <<conf, call>>

Positive == Nat \ {0}

CeilDiv(a, b) == (a + b - 1) \div b

\* What the proofs need of the calls: a stamp under way was sampled at most
\* MaxDelay ago.
StampsInTime ==
  \A c \in Callers : call[c].pending =>
    clock - MaxDelay <= call[c].at /\ call[c].at <= clock
=============================================================================
