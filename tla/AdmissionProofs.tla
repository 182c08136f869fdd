-------------------------- MODULE AdmissionProofs ---------------------------
(***************************************************************************)
(* Proofs about the middleware chain, for every finite set of requests and *)
(* tenants, every limit and every number of resent scripts.  The inductive *)
(* invariant says of each request by itself what the stages behind it have *)
(* left in Redis, and of the counters what the requests add up to.         *)
(***************************************************************************)
EXTENDS Admission, FiniteSetTheorems, TLAPS

-----------------------------------------------------------------------------
(* The inductive invariant: a request q under configuration c, with history *)
(* s and its entry p in the reputation.                                     *)

History == [charged : SUBSET Levels, denied : SUBSET Levels,
            lost : 0..Resends, faulted : SUBSET Levels, forwards : 0..2]

Record == [good : Nat, violations : Nat]

\* Where a request is that was classified and neither admitted nor turned away.
Undecided(q) == q.stage \in {"dry_global", "dry_tenant", "dry_endpoint", "global",
                             "standing", "tenant", "tenant_bad", "tenant_good",
                             "endpoint", "endpoint_bad"}

\* At the backend, or back from it.
Admitted(q) == q.stage \in {"proxy", "upstream"} \/ (q.stage = "done" /\ q.answer \notin Levels)

\* What the configuration lets happen to a request.
Configured(c, q, p) ==
  /\ q.stage \in {"dry_global", "dry_tenant", "dry_endpoint"} => c.dryRun
  /\ c.dryRun =>
       /\ q.stage \in {"new", "dry_global", "dry_tenant", "dry_endpoint",
                       "proxy", "upstream", "done"}
       /\ q.answer \notin Levels /\ p.good = 0 /\ p.violations = 0
  /\ q.stage \in {"tenant", "tenant_bad", "tenant_good"} => c.tenant
  /\ Undecided(q) \/ q.stage = "endpoint_good" => q.tracked
  /\ q.stage = "new" => ~q.tracked

\* The one fate of a request, and how often the backend has seen it.
Fate(q, s) ==
  /\ q.stage # "done" => q.answer = "none"
  /\ q.stage \notin {"proxy", "upstream", "done"} => s.forwards = 0
  /\ q.stage = "proxy" => s.forwards = 0 \/ (s.forwards = 1 /\ q.fallback)
  /\ q.stage = "upstream" => s.forwards = 1 \/ (s.forwards = 2 /\ q.fallback)
  /\ q.stage = "done" =>
       /\ q.answer \in Levels => s.forwards = 0
       /\ q.answer \notin Levels => s.forwards \in 1..2 /\ (s.forwards = 2 => q.fallback)

\* The denials that turn a request away, or are about to.
Denied(q, s) ==
  /\ q.over => q.stage = "standing" /\ "global" \in s.denied
  /\ q.stage = "tenant_bad" => "tenant" \in s.denied
  /\ q.stage = "endpoint_bad" => "endpoint" \in s.denied
  /\ q.answer \in Levels => q.answer \in s.denied

\* What a request that goes on has left at the levels behind it, unless the check
\* of that very level failed.
Passed(c, q, s) ==
  ~q.bypass /\ ~c.dryRun =>
    /\ c.global /\ q.stage \notin {"new", "global"}
         => "global" \in s.charged \cup s.denied \cup s.faulted
    /\ c.tenant /\ (Admitted(q) \/ q.stage \in {"tenant_good", "endpoint", "endpoint_bad",
                                                 "endpoint_good"})
         => "tenant" \in s.charged \cup s.faulted
    /\ Admitted(q) \/ q.stage = "endpoint_good" => "endpoint" \in s.charged \cup s.faulted

\* What it has not left at the levels it has not come to.
NoTrace(q, s, p) ==
  /\ q.stage = "new" => s.charged = {}
  /\ q.stage \in {"new", "global", "standing"} \/ q.answer = "global" =>
       s.charged \subseteq {"global"} /\ p.good = 0 /\ p.violations = 0
  /\ q.stage \in {"tenant", "tenant_bad"} \/ q.answer = "tenant" =>
       "endpoint" \notin s.charged /\ p.good = 0

\* The same while no script of the request was run twice.
NoTraceOnce(c, q, s, p) ==
  s.lost = 0 =>
    /\ q.stage = "global" \/ q.over => "global" \notin s.charged
    /\ q.stage \in {"new", "global", "standing", "tenant", "tenant_bad"} =>
         "tenant" \notin s.charged
    /\ q.stage \in {"tenant", "tenant_bad", "tenant_good"} =>
         p.good = 0 /\ p.violations = 0
    /\ q.stage \in {"tenant_good", "endpoint", "endpoint_bad"} => "endpoint" \notin s.charged
    /\ q.stage \in {"endpoint", "endpoint_bad"} \/ q.answer = "endpoint" =>
         p.good <= (IF c.tenant THEN 1 ELSE 0)
    /\ q.stage \in {"endpoint", "endpoint_bad"} => p.violations = 0
    /\ q.answer = "endpoint" => p.violations <= 1
    /\ q.answer \in Levels => q.answer \notin s.charged

RequestOK(c, q, s, p) ==
  /\ q \in Request /\ s \in History /\ p \in Record
  /\ Configured(c, q, p) /\ Fate(q, s) /\ Denied(q, s) /\ Passed(c, q, s)
  /\ NoTrace(q, s, p) /\ NoTraceOnce(c, q, s, p)

RequestsOK ==
  /\ req \in [Requests -> Request] /\ seen \in [Requests -> History]
  /\ rep \in [Requests -> Record]
  /\ \A r \in Requests : RequestOK(cfg, req[r], seen[r], rep[r])

KeysOK ==
  /\ spent \in [Keys -> Nat]
  /\ \A t \in Tenants : \A l \in Levels : spent[KeyOf(l, t)] <= Limit[l]

Tracked == {r \in Requests : req[r].tracked}
Rejected == {r \in Requests : req[r].answer \in Levels}
Open == {r \in Requests : Undecided(req[r])}

\* The counters: nobody is counted as allowed or denied who is still open.
CountersOK ==
  /\ metrics \in [Counters -> Int]
  /\ metrics["allowed"] >= 0
  /\ metrics["inflight"] = Cardinality(Tracked)
  /\ metrics["denied"] = Cardinality(Rejected)
  /\ metrics["allowed"] + metrics["denied"] + Cardinality(Open) <= metrics["total"]

ChainInv == cfg \in Configs /\ RequestsOK /\ KeysOK /\ CountersOK

-----------------------------------------------------------------------------
(* Counting *)

Num(b) == IF b THEN 1 ELSE 0

\* Two sets of requests that differ at most in r differ in size by r.
LEMMA CountChange ==
  ASSUME NEW P \in SUBSET Requests, NEW Q \in SUBSET Requests, NEW r \in Requests,
         \A q \in Requests \ {r} : q \in P <=> q \in Q
  PROVE  /\ Cardinality(P) \in Nat /\ Cardinality(Q) \in Nat
         /\ Cardinality(Q) = Cardinality(P) - Num(r \in P) + Num(r \in Q)
<1> DEFINE R == P \ {r}
<1>1. IsFiniteSet(P) /\ IsFiniteSet(Q) /\ IsFiniteSet(R)
  BY AdmissionAssumption, FS_Subset
<1>2. Cardinality(P) \in Nat /\ Cardinality(Q) \in Nat /\ Cardinality(R) \in Nat
  BY <1>1, FS_CardinalityType
<1>3. Cardinality(R \cup {r}) = Cardinality(R) + 1
  BY <1>1, FS_AddElement
<1>4. Cardinality(P) = Cardinality(R) + Num(r \in P)
  <2>1. CASE r \in P
    <3>1. P = R \cup {r}
      BY <2>1
    <3> QED
      BY <1>3, <2>1, <3>1 DEF Num
  <2>2. CASE r \notin P
    <3>1. P = R
      BY <2>2
    <3> QED
      BY <1>2, <2>2, <3>1 DEF Num
  <2> QED
    BY <2>1, <2>2
<1>5. Cardinality(Q) = Cardinality(R) + Num(r \in Q)
  <2>1. CASE r \in Q
    <3>1. Q = R \cup {r}
      BY <2>1
    <3> QED
      BY <1>3, <2>1, <3>1 DEF Num
  <2>2. CASE r \notin Q
    <3>1. Q = R
      BY <2>2
    <3> QED
      BY <1>2, <2>2, <3>1 DEF Num
  <2> QED
    BY <2>1, <2>2
<1> HIDE DEF R
<1>6. Num(r \in P) \in Int
  BY DEF Num
<1> QED
  BY <1>2, <1>4, <1>5, <1>6

-----------------------------------------------------------------------------
(* A step of one request *)

\* What a step leaves alone of the requests other than r.
Only(r) ==
  /\ req' \in [Requests -> Request] /\ seen' \in [Requests -> History]
  /\ rep' \in [Requests -> Record] /\ cfg' = cfg
  /\ \A q \in Requests \ {r} : req'[q] = req[q] /\ seen'[q] = seen[q] /\ rep'[q] = rep[q]

\* What the counters do as r goes from q to n.
Counted(q, n) ==
  /\ metrics' \in [Counters -> Int]
  /\ metrics'["allowed"] >= metrics["allowed"]
  /\ metrics'["inflight"] = metrics["inflight"] - Num(q.tracked) + Num(n.tracked)
  /\ metrics'["denied"] = metrics["denied"] - Num(q.answer \in Levels) + Num(n.answer \in Levels)
  /\ (metrics'["allowed"] - metrics["allowed"])
       + (Num(n.answer \in Levels) - Num(q.answer \in Levels))
       + (Num(Undecided(n)) - Num(Undecided(q)))
         <= metrics'["total"] - metrics["total"]

\* A step of r that leaves r, the keys and the counters in order keeps the
\* inductive invariant.
LEMMA OneStep ==
  ASSUME ChainInv, NEW r \in Requests, Only(r), KeysOK',
         RequestOK(cfg, req'[r], seen'[r], rep'[r]), Counted(req[r], req'[r])
  PROVE  ChainInv'
<1>1. RequestsOK'
  <2>1. \A q \in Requests : RequestOK(cfg, req'[q], seen'[q], rep'[q])
    <3>1. ASSUME NEW q \in Requests, q # r
          PROVE  RequestOK(cfg, req'[q], seen'[q], rep'[q])
      <4>1. req'[q] = req[q] /\ seen'[q] = seen[q] /\ rep'[q] = rep[q]
        BY <3>1 DEF Only
      <4> QED
        BY <4>1 DEF ChainInv, RequestsOK
    <3> QED
      BY <3>1
  <2> QED
    BY <2>1 DEF Only, RequestsOK
<1>2. \A q \in Requests \ {r} : req'[q] = req[q]
  BY DEF Only
<1>3. /\ Cardinality(Tracked) \in Nat /\ Cardinality(Tracked') \in Nat
      /\ Cardinality(Tracked') = Cardinality(Tracked) - Num(r \in Tracked) + Num(r \in Tracked')
  <2>1. \A q \in Requests \ {r} : q \in Tracked <=> q \in Tracked'
    BY <1>2 DEF Tracked
  <2> QED
    BY <2>1, CountChange DEF Tracked
<1>4. /\ Cardinality(Rejected) \in Nat /\ Cardinality(Rejected') \in Nat
      /\ Cardinality(Rejected')
           = Cardinality(Rejected) - Num(r \in Rejected) + Num(r \in Rejected')
  <2>1. \A q \in Requests \ {r} : q \in Rejected <=> q \in Rejected'
    BY <1>2 DEF Rejected
  <2> QED
    BY <2>1, CountChange DEF Rejected
<1>5. /\ Cardinality(Open) \in Nat /\ Cardinality(Open') \in Nat
      /\ Cardinality(Open') = Cardinality(Open) - Num(r \in Open) + Num(r \in Open')
  <2>1. \A q \in Requests \ {r} : q \in Open <=> q \in Open'
    BY <1>2 DEF Open
  <2> QED
    BY <2>1, CountChange DEF Open
<1>6. /\ r \in Tracked <=> req[r].tracked
      /\ r \in Tracked' <=> req'[r].tracked
      /\ r \in Rejected <=> req[r].answer \in Levels
      /\ r \in Rejected' <=> req'[r].answer \in Levels
      /\ r \in Open <=> Undecided(req[r])
      /\ r \in Open' <=> Undecided(req'[r])
  BY DEF Tracked, Rejected, Open
<1>7. CountersOK'
  <2> DEFINE before == [t |-> Num(req[r].tracked), d |-> Num(req[r].answer \in Levels),
                        o |-> Num(Undecided(req[r]))]
             after == [t |-> Num(req'[r].tracked), d |-> Num(req'[r].answer \in Levels),
                       o |-> Num(Undecided(req'[r]))]
  <2>1. before \in [t : Int, d : Int, o : Int] /\ after \in [t : Int, d : Int, o : Int]
    BY DEF Num
  <2>2. /\ Cardinality(Tracked') = Cardinality(Tracked) - before.t + after.t
        /\ Cardinality(Rejected') = Cardinality(Rejected) - before.d + after.d
        /\ Cardinality(Open') = Cardinality(Open) - before.o + after.o
    BY <1>3, <1>4, <1>5, <1>6 DEF Num
  <2>3. /\ metrics' \in [Counters -> Int]
        /\ metrics'["allowed"] >= metrics["allowed"]
        /\ metrics'["inflight"] = metrics["inflight"] - before.t + after.t
        /\ metrics'["denied"] = metrics["denied"] - before.d + after.d
        /\ (metrics'["allowed"] - metrics["allowed"]) + (after.d - before.d)
             + (after.o - before.o) <= metrics'["total"] - metrics["total"]
    BY DEF Counted
  <2> HIDE DEF before, after
  <2>4. /\ metrics \in [Counters -> Int] /\ metrics["allowed"] >= 0
        /\ metrics["inflight"] = Cardinality(Tracked)
        /\ metrics["denied"] = Cardinality(Rejected)
        /\ metrics["allowed"] + metrics["denied"] + Cardinality(Open) <= metrics["total"]
    BY DEF ChainInv, CountersOK
  <2>5. /\ metrics["allowed"] \in Int /\ metrics["denied"] \in Int
        /\ metrics["inflight"] \in Int /\ metrics["total"] \in Int
        /\ metrics'["allowed"] \in Int /\ metrics'["denied"] \in Int
        /\ metrics'["inflight"] \in Int /\ metrics'["total"] \in Int
    BY <2>3, <2>4 DEF Counters
  <2>6. /\ metrics'["allowed"] >= 0
        /\ metrics'["inflight"] = Cardinality(Tracked')
        /\ metrics'["denied"] = Cardinality(Rejected')
        /\ metrics'["allowed"] + metrics'["denied"] + Cardinality(Open') <= metrics'["total"]
    BY <1>3, <1>4, <1>5, <2>1, <2>2, <2>3, <2>4, <2>5
  <2> QED
    BY <2>3, <2>6 DEF CountersOK
<1> QED
  BY <1>1, <1>7 DEF ChainInv, Only

\* The counters of a step that counts nothing and changes neither the gauge nor
\* the answer.
LEMMA Uncounted ==
  ASSUME ChainInv, NEW q \in Request, NEW n \in Request, metrics' = metrics,
         n.tracked = q.tracked, n.answer \in Levels <=> q.answer \in Levels,
         Undecided(n) => Undecided(q)
  PROVE  Counted(q, n)
<1>1. metrics \in [Counters -> Int]
  BY DEF ChainInv, CountersOK
<1>2. metrics["allowed"] \in Int /\ metrics["denied"] \in Int
      /\ metrics["inflight"] \in Int /\ metrics["total"] \in Int
  BY <1>1 DEF Counters
<1> QED
  BY <1>1, <1>2 DEF Counted, Num

\* What Count does to each counter.
LEMMA CountEffect ==
  ASSUME ChainInv, NEW up \in SUBSET Counters, NEW leaves \in BOOLEAN, Count(up, leaves)
  PROVE  /\ metrics \in [Counters -> Int] /\ metrics' \in [Counters -> Int]
         /\ metrics'["total"] = metrics["total"] + Num("total" \in up)
         /\ metrics'["allowed"] = metrics["allowed"] + Num("allowed" \in up)
         /\ metrics'["denied"] = metrics["denied"] + Num("denied" \in up)
         /\ metrics'["inflight"]
              = metrics["inflight"] + Num("inflight" \in up) - Num(leaves)
<1>1. metrics \in [Counters -> Int]
  BY DEF ChainInv, CountersOK
<1>2. metrics' = [m \in Counters |->
        metrics[m] + (IF m \in up THEN 1 ELSE 0) - (IF m = "inflight" /\ leaves THEN 1 ELSE 0)]
  BY DEF Count
<1>3. metrics' \in [Counters -> Int]
  BY <1>1, <1>2
<1> QED
  BY <1>1, <1>2, <1>3 DEF Counters, Num

-----------------------------------------------------------------------------
(* What a script leaves in Redis *)

\* The tenant of a request and the limit of a level are in order.
LEMMA KeyBounds ==
  ASSUME NEW r \in Requests, NEW l \in Levels
  PROVE  /\ KeyOf(l, TenantOf[r]) \in Keys
         /\ \A j \in Levels : \A t \in Tenants :
              KeyOf(j, t) = KeyOf(l, TenantOf[r]) => j = l
<1>1. TenantOf[r] \in Tenants
  BY AdmissionAssumption
<1>2. KeyOf(l, TenantOf[r]) \in Keys
  BY <1>1 DEF Keys
<1>3. ASSUME NEW j \in Levels, NEW t \in Tenants, KeyOf(j, t) = KeyOf(l, TenantOf[r])
      PROVE  j = l
  BY <1>3 DEF KeyOf
<1> QED
  BY <1>2, <1>3

\* A run of a script keeps the keys within their limits; the request is charged
\* at its level if there was a unit, and never for less.
LEMMA ScriptKeys ==
  ASSUME ChainInv, NEW r \in Requests, NEW l \in Levels, NEW ran \in BOOLEAN,
         NEW past, Script(r, l, ran, past), past \in History
  PROVE  /\ KeysOK'
         /\ seen' = [seen EXCEPT ![r] = [past EXCEPT !.charged =
              IF Spends(r, l, ran) THEN @ \cup {l} ELSE @]]
<1> DEFINE k == KeyOf(l, TenantOf[r])
<1>1. /\ spent \in [Keys -> Nat] /\ k \in Keys /\ Limit[l] \in Nat
      /\ \A t \in Tenants : \A j \in Levels : spent[KeyOf(j, t)] <= Limit[j]
  BY KeyBounds, AdmissionAssumption DEF ChainInv, KeysOK
<1>2. spent' = [spent EXCEPT ![k] = IF ran /\ spent[k] < Limit[l] THEN @ + 1 ELSE @]
  BY DEF Script, Spends
<1>3. spent' \in [Keys -> Nat]
  BY <1>1, <1>2
<1>4. ASSUME NEW t \in Tenants, NEW j \in Levels
      PROVE  spent'[KeyOf(j, t)] <= Limit[j]
  <2>1. KeyOf(j, t) \in Keys
    BY DEF Keys
  <2>2. CASE KeyOf(j, t) = k
    <3>1. j = l
      BY <2>2, KeyBounds
    <3> QED
      BY <1>1, <1>2, <2>2, <3>1
  <2>3. CASE KeyOf(j, t) # k
    BY <1>1, <1>2, <2>1, <2>3
  <2> QED
    BY <2>2, <2>3
<1> QED
  BY <1>3, <1>4 DEF KeysOK, Script

\* What the last attempt of a limiter call leaves in the history of r.
Checked(s, n, l, verdict) ==
  /\ n \in History
  /\ n.lost = s.lost /\ n.forwards = s.forwards
  /\ n.faulted = s.faulted \/ n.faulted = s.faulted \cup {l}
  /\ n.denied = IF verdict = "denied" THEN s.denied \cup {l} ELSE s.denied
  /\ n.charged = s.charged \/ n.charged = s.charged \cup {l}
  /\ verdict = "granted" => l \in n.charged
  /\ verdict = "error" => l \in n.charged \cup n.faulted
  /\ verdict = "denied" => n.charged = s.charged

\* A call that is answered granted has spent a unit, one that is denied none; one
\* that fails has spent a unit or is on record as failed.
LEMMA CheckEffect ==
  ASSUME ChainInv, NEW r \in Requests, NEW l \in Levels, NEW verdict \in Verdicts,
         Check(r, l, verdict)
  PROVE  /\ KeysOK' /\ Checked(seen[r], seen'[r], l, verdict)
         /\ seen' \in [Requests -> History]
         /\ \A q \in Requests \ {r} : seen'[q] = seen[q]
<1> DEFINE s == seen[r]
           k == KeyOf(l, TenantOf[r])
           past(ran) == [s EXCEPT
             !.denied = IF verdict = "denied" THEN @ \cup {l} ELSE @,
             !.faulted = IF verdict = "error" /\ ~Spends(r, l, ran) THEN @ \cup {l} ELSE @]
<1>1. seen \in [Requests -> History] /\ s \in History
  BY DEF ChainInv, RequestsOK
<1>2. PICK ran \in BOOLEAN : (verdict # "error" => ran) /\ Script(r, l, ran, past(ran))
  BY DEF Check
<1> DEFINE spends == Spends(r, l, ran)
           before == [s EXCEPT
             !.denied = IF verdict = "denied" THEN @ \cup {l} ELSE @,
             !.faulted = IF verdict = "error" /\ ~spends THEN @ \cup {l} ELSE @]
           new == [before EXCEPT !.charged = IF spends THEN @ \cup {l} ELSE @]
<1>3. Script(r, l, ran, before) /\ (spends <=> ran /\ spent[k] < Limit[l])
  BY <1>2 DEF Spends
<1>4. before \in History
  BY <1>1 DEF History
<1>5. /\ before.charged = s.charged /\ before.lost = s.lost /\ before.forwards = s.forwards
      /\ before.denied = (IF verdict = "denied" THEN s.denied \cup {l} ELSE s.denied)
  BY <1>1 DEF History
<1>6. before.faulted = IF verdict = "error" /\ ~spends THEN s.faulted \cup {l} ELSE s.faulted
  BY <1>1 DEF History
<1> HIDE DEF before
<1>7. KeysOK' /\ seen' = [seen EXCEPT ![r] = new]
  BY <1>3, <1>4, ScriptKeys
<1> HIDE DEF spends
<1>8. /\ new \in History
      /\ new.lost = before.lost /\ new.forwards = before.forwards
      /\ new.denied = before.denied
      /\ new.charged = IF spends THEN before.charged \cup {l} ELSE before.charged
  BY <1>4 DEF History
<1>9. new.faulted = before.faulted
  BY <1>4 DEF History
<1> HIDE DEF new
<1>10. seen' \in [Requests -> History] /\ seen'[r] = new
       /\ \A q \in Requests \ {r} : seen'[q] = seen[q]
  BY <1>1, <1>7, <1>8
<1>11. (verdict = "granted" => spends) /\ (verdict = "denied" => ~spends)
  <2>1. spent[k] \in Nat /\ Limit[l] \in Nat
    BY KeyBounds, AdmissionAssumption DEF ChainInv, KeysOK
  <2>2. Answer(r, l, verdict)
    BY DEF Check
  <2>3. CASE verdict = "granted"
    BY <1>2, <1>3, <2>2, <2>3 DEF Answer
  <2>4. CASE verdict = "denied"
    BY <1>3, <2>1, <2>2, <2>4 DEF Answer
  <2> QED
    BY <2>3, <2>4
<1> QED
  BY <1>5, <1>6, <1>7, <1>8, <1>9, <1>10, <1>11 DEF Checked

\* What the last attempt of a reputation call leaves on the record of r.
LEMMA ReputationEffect ==
  ASSUME ChainInv, NEW r \in Requests, NEW violation \in BOOLEAN,
         Rate(r, violation) \/ UNCHANGED rep
  PROVE  /\ rep' \in [Requests -> Record]
         /\ \A q \in Requests \ {r} : rep'[q] = rep[q]
         /\ IF violation
            THEN /\ rep'[r].good = rep[r].good
                 /\ rep'[r].violations \in {rep[r].violations, rep[r].violations + 1}
            ELSE /\ rep'[r].violations = rep[r].violations
                 /\ rep'[r].good \in {rep[r].good, rep[r].good + 1}
<1>1. rep \in [Requests -> Record]
  BY DEF ChainInv, RequestsOK
<1>2. rep[r].good \in Nat /\ rep[r].violations \in Nat
  BY <1>1 DEF Record
<1> DEFINE bad == [rep[r] EXCEPT !.violations = @ + 1]
           good == [rep[r] EXCEPT !.good = @ + 1]
<1>3. bad \in Record /\ good \in Record
  BY <1>1, <1>2 DEF Record
<1>4. CASE Rate(r, violation) /\ violation
  <2>1. rep' = [rep EXCEPT ![r] = bad]
    BY <1>1, <1>2, <1>4 DEF Rate, Record
  <2> QED
    BY <1>1, <1>2, <1>3, <1>4, <2>1 DEF Record
<1>5. CASE Rate(r, violation) /\ ~violation
  <2>1. rep' = [rep EXCEPT ![r] = good]
    BY <1>1, <1>2, <1>5 DEF Rate, Record
  <2> QED
    BY <1>1, <1>2, <1>3, <1>5, <2>1 DEF Record
<1>6. CASE rep' = rep
  BY <1>1, <1>6
<1> QED
  BY <1>4, <1>5, <1>6

\* The types of what belongs to a request.
LEMMA RequestTypes ==
  ASSUME ChainInv, NEW r \in Requests
  PROVE  /\ req \in [Requests -> Request] /\ seen \in [Requests -> History]
         /\ rep \in [Requests -> Record] /\ cfg \in Configs
         /\ cfg \in [dryRun : BOOLEAN, global : BOOLEAN, tenant : BOOLEAN]
         /\ req[r] \in Request /\ seen[r] \in History /\ rep[r] \in Record
         /\ rep[r].good \in Nat /\ rep[r].violations \in Nat
         /\ RequestOK(cfg, req[r], seen[r], rep[r])
<1>1. /\ req \in [Requests -> Request] /\ seen \in [Requests -> History]
      /\ rep \in [Requests -> Record] /\ cfg \in Configs
      /\ RequestOK(cfg, req[r], seen[r], rep[r])
  BY DEF ChainInv, RequestsOK
<1>2. rep[r] \in Record
  BY <1>1
<1> QED
  BY <1>1, <1>2, AdmissionAssumption DEF Record

-----------------------------------------------------------------------------
(* The layers: every step of a request keeps the inductive invariant. *)

\* Past the limits from the start.
LEMMA BypassedStep ==
  ASSUME ChainInv, NEW r \in Requests, Bypassed(r)
  PROVE  ChainInv'
<1> DEFINE q == req[r]
           n == [q EXCEPT !.stage = "proxy", !.bypass = TRUE]
<1>1. q.stage = "new" /\ req' = [req EXCEPT ![r] = n]
      /\ UNCHANGED <<cfg, spent, rep, metrics, seen>>
  BY DEF Bypassed
<1>2. n \in Request /\ n.stage = "proxy" /\ n.answer = q.answer /\ n.over = q.over
  BY RequestTypes DEF Request, Stages
<1>3. n.bypass = TRUE
  BY RequestTypes DEF Request
<1>4. n.tracked = q.tracked
  BY RequestTypes DEF Request
<1>5. Only(r) /\ req'[r] = n /\ KeysOK'
  BY <1>1, <1>2, RequestTypes DEF Only, ChainInv, KeysOK
<1> HIDE DEF n
<1>6. RequestOK(cfg, n, seen[r], rep[r])
  BY <1>1, <1>2, <1>3, RequestTypes
     DEF RequestOK, Configured, Fate, Denied, Passed, NoTrace, NoTraceOnce, Undecided,
         Admitted, Levels
<1>7. Counted(q, n)
  BY <1>1, <1>2, <1>4, Uncounted, RequestTypes DEF Undecided
<1> QED
  BY <1>1, <1>5, <1>6, <1>7, OneStep

\* Into the layers that are on, and counted.
LEMMA ClassifiedStep ==
  ASSUME ChainInv, NEW r \in Requests, Classified(r)
  PROVE  ChainInv'
<1> DEFINE q == req[r]
           n == [q EXCEPT !.stage = ToLimits, !.tracked = TRUE]
<1>1. q.stage = "new" /\ req' = [req EXCEPT ![r] = n]
      /\ Count({"total", "inflight"}, FALSE) /\ UNCHANGED <<cfg, spent, rep, seen>>
  BY DEF Classified
<1>2. ToLimits \in {"dry_global", "global", "tenant", "endpoint"}
      /\ (ToLimits = "dry_global" <=> cfg.dryRun)
      /\ (ToLimits = "tenant" => cfg.tenant)
      /\ (ToLimits # "dry_global" /\ cfg.global => ToLimits = "global")
      /\ (ToLimits = "endpoint" => ~cfg.tenant)
  BY DEF ToLimits, ToGlobal, ToTenant, ToEndpoint
<1>3. n \in Request /\ n.stage = ToLimits /\ n.answer = q.answer /\ n.over = q.over
  BY <1>2, RequestTypes DEF Request, Stages
<1>4. n.tracked = TRUE
  BY RequestTypes DEF Request
<1>5. Only(r) /\ req'[r] = n /\ KeysOK'
  BY <1>1, <1>3, RequestTypes DEF Only, ChainInv, KeysOK
<1> HIDE DEF n
<1>6. RequestOK(cfg, n, seen[r], rep[r])
  BY <1>1, <1>2, <1>3, <1>4, RequestTypes
     DEF RequestOK, Configured, Fate, Denied, Passed, NoTrace, NoTraceOnce, Undecided,
         Admitted, Levels
<1>7. Counted(q, n)
  <2>1. /\ metrics' \in [Counters -> Int] /\ metrics \in [Counters -> Int]
        /\ metrics'["total"] = metrics["total"] + 1
        /\ metrics'["allowed"] = metrics["allowed"] /\ metrics'["denied"] = metrics["denied"]
        /\ metrics'["inflight"] = metrics["inflight"] + 1
    <3> DEFINE up == {"total", "inflight"}
    <3>1. /\ up \in SUBSET Counters /\ "total" \in up /\ "inflight" \in up
          /\ "allowed" \notin up /\ "denied" \notin up
      BY DEF Counters
    <3> HIDE DEF up
    <3>2. /\ metrics' \in [Counters -> Int] /\ metrics \in [Counters -> Int]
          /\ metrics'["total"] = metrics["total"] + Num("total" \in up)
          /\ metrics'["allowed"] = metrics["allowed"] + Num("allowed" \in up)
          /\ metrics'["denied"] = metrics["denied"] + Num("denied" \in up)
          /\ metrics'["inflight"] = metrics["inflight"] + Num("inflight" \in up) - Num(FALSE)
      <4>1. Count(up, FALSE)
        BY <1>1 DEF up
      <4> QED
        BY <3>1, <4>1, CountEffect
    <3> QED
      BY <3>1, <3>2 DEF Num, Counters
  <2>2. ~q.tracked
    BY <1>1, RequestTypes DEF RequestOK, Configured
  <2>3. Num(q.tracked) = 0 /\ Num(n.tracked) = 1
    BY <1>4, <2>2 DEF Num
  <2>4. Num(Undecided(n)) \in 0..1 /\ Num(Undecided(q)) = 0
    BY <1>1 DEF Num, Undecided
  <2>5. Num(n.answer \in Levels) = Num(q.answer \in Levels)
        /\ Num(q.answer \in Levels) \in Int
    BY <1>3 DEF Num
  <2>6. /\ metrics["total"] \in Int /\ metrics["allowed"] \in Int
        /\ metrics["denied"] \in Int /\ metrics["inflight"] \in Int
    BY <2>1 DEF Counters
  <2> QED
    BY <2>1, <2>3, <2>4, <2>5, <2>6 DEF Counted
<1> QED
  BY <1>1, <1>5, <1>6, <1>7, OneStep

\* A dry check: the checks go on, whatever they say.
LEMMA DryCheckStep ==
  ASSUME ChainInv, NEW r \in Requests, NEW from, NEW l \in Levels, NEW to,
         from \in {"dry_global", "dry_tenant"}, to \in {"dry_tenant", "dry_endpoint"},
         DryCheck(r, from, l, to)
  PROVE  ChainInv'
<1> DEFINE q == req[r]
<1>1. PICK verdict \in Verdicts :
        /\ Check(r, l, verdict)
        /\ req' = [req EXCEPT ![r].stage = to, ![r].broken = @ \/ verdict = "error"]
  BY DEF DryCheck
<1>2. q.stage = from /\ UNCHANGED <<cfg, rep, metrics>>
  BY DEF DryCheck
<1> DEFINE n == [q EXCEPT !.stage = to, !.broken = @ \/ verdict = "error"]
<1>3. n \in Request
  <2>1. (q.broken \/ verdict = "error") \in BOOLEAN
    OBVIOUS
  <2> QED
    BY <2>1, RequestTypes DEF Request, Stages
<1>4. n.stage = to /\ n.answer = q.answer /\ n.over = q.over
  BY RequestTypes DEF Request
<1>5. n.tracked = q.tracked
  BY RequestTypes DEF Request
<1>6. KeysOK' /\ seen' \in [Requests -> History]
      /\ (\A o \in Requests \ {r} : seen'[o] = seen[o])
      /\ Checked(seen[r], seen'[r], l, verdict)
  BY <1>1, CheckEffect
<1>7. req' = [req EXCEPT ![r] = n]
  BY <1>1
<1> HIDE DEF n
<1>8. Only(r) /\ req'[r] = n
  BY <1>2, <1>3, <1>6, <1>7, RequestTypes DEF Only
<1>9. RequestOK(cfg, n, seen'[r], rep[r])
  <2>1. cfg.dryRun /\ q.tracked
    BY <1>2, RequestTypes DEF RequestOK, Configured, Undecided
  <2> QED
    BY <1>2, <1>3, <1>4, <1>5, <1>6, <2>1, RequestTypes
       DEF RequestOK, Configured, Fate, Denied, Passed, NoTrace, NoTraceOnce, Undecided,
           Admitted, Levels, Checked
<1>10. Counted(q, n)
  BY <1>2, <1>3, <1>4, <1>5, Uncounted, RequestTypes DEF Undecided
<1> QED
  BY <1>2, <1>6, <1>8, <1>9, <1>10, OneStep

\* The end of a dry run: past the limits, or by the fallback of Recovery.
LEMMA DryVerdictStep ==
  ASSUME ChainInv, NEW r \in Requests, DryVerdict(r)
  PROVE  ChainInv'
<1> DEFINE q == req[r]
<1>1. PICK verdict \in Verdicts :
        LET panics == q.broken \/ verdict = "error"
        IN  /\ Check(r, "endpoint", verdict)
            /\ req' = [req EXCEPT ![r].stage = "proxy",
                                  ![r].bypass = ~panics, ![r].broken = FALSE,
                                  ![r].fallback = panics,
                                  ![r].tracked = ~panics]
            /\ Count({}, panics)
  BY DEF DryVerdict
<1> DEFINE panics == q.broken \/ verdict = "error"
<1>2. q.stage = "dry_endpoint" /\ UNCHANGED <<cfg, rep>>
  BY DEF DryVerdict
<1>3. panics \in BOOLEAN /\ Count({}, panics) /\ Check(r, "endpoint", verdict)
  BY <1>1
<1>4. req' = [req EXCEPT ![r] = [q EXCEPT !.stage = "proxy", !.bypass = ~panics,
                !.broken = FALSE, !.fallback = panics, !.tracked = ~panics]]
  BY <1>1
<1> HIDE DEF panics
<1> DEFINE n == [q EXCEPT !.stage = "proxy", !.bypass = ~panics,
                !.broken = FALSE, !.fallback = panics, !.tracked = ~panics]
<1>5. n \in Request /\ n.stage = "proxy" /\ n.answer = q.answer /\ n.over = q.over
  BY <1>3, RequestTypes DEF Request, Stages
<1>6. n.tracked = ~panics
  BY RequestTypes DEF Request
<1>7. KeysOK' /\ seen' \in [Requests -> History]
      /\ (\A o \in Requests \ {r} : seen'[o] = seen[o])
      /\ Checked(seen[r], seen'[r], "endpoint", verdict)
  BY <1>3, CheckEffect DEF Levels
<1>8. req' = [req EXCEPT ![r] = n]
  BY <1>4
<1> HIDE DEF n
<1>9. Only(r) /\ req'[r] = n
  BY <1>2, <1>5, <1>7, <1>8, RequestTypes DEF Only
<1>10. cfg.dryRun /\ q.tracked
  BY <1>2, RequestTypes DEF RequestOK, Configured, Undecided
<1>11. RequestOK(cfg, n, seen'[r], rep[r])
  BY <1>2, <1>5, <1>7, <1>10, RequestTypes
     DEF RequestOK, Configured, Fate, Denied, Passed, NoTrace, NoTraceOnce, Undecided,
         Admitted, Levels, Checked
<1>12. Counted(q, n)
  <2> DEFINE up == {}
  <2>1. Count(up, panics) /\ up \in SUBSET Counters
    BY <1>3
  <2>2. \A m \in Counters : m \notin up
    OBVIOUS
  <2> HIDE DEF up
  <2>3. /\ metrics' \in [Counters -> Int] /\ metrics \in [Counters -> Int]
        /\ metrics'["total"] = metrics["total"] + Num("total" \in up)
        /\ metrics'["allowed"] = metrics["allowed"] + Num("allowed" \in up)
        /\ metrics'["denied"] = metrics["denied"] + Num("denied" \in up)
        /\ metrics'["inflight"] = metrics["inflight"] + Num("inflight" \in up) - Num(panics)
    BY <1>3, <2>1, CountEffect
  <2>4. /\ Num("total" \in up) = 0 /\ Num("allowed" \in up) = 0
        /\ Num("denied" \in up) = 0 /\ Num("inflight" \in up) = 0
    BY <2>2 DEF Num, Counters
  <2>5. Num(q.tracked) = 1 /\ Num(n.tracked) = 1 - Num(panics) /\ Num(panics) \in Int
    <3>1. CASE panics
      <4>1. ~n.tracked
        BY <1>6, <3>1
      <4> QED
        BY <1>10, <3>1, <4>1 DEF Num
    <3>2. CASE ~panics
      <4>1. n.tracked
        BY <1>6, <3>2
      <4> QED
        BY <1>10, <3>2, <4>1 DEF Num
    <3> QED
      BY <3>1, <3>2
  <2>6. Num(Undecided(n)) = 0 /\ Num(Undecided(q)) = 1
    BY <1>2, <1>5 DEF Num, Undecided
  <2>7. Num(n.answer \in Levels) = Num(q.answer \in Levels)
        /\ Num(q.answer \in Levels) \in Int
    BY <1>5 DEF Num
  <2>8. /\ metrics["total"] \in Int /\ metrics["allowed"] \in Int
        /\ metrics["denied"] \in Int /\ metrics["inflight"] \in Int
    BY <2>3 DEF Counters
  <2> QED
    BY <2>3, <2>4, <2>5, <2>6, <2>7, <2>8 DEF Counted
<1> QED
  BY <1>2, <1>7, <1>9, <1>11, <1>12, OneStep

\* The global layer asks Redis; only an error skips the tenant's standing.
LEMMA GlobalCheckStep ==
  ASSUME ChainInv, NEW r \in Requests, GlobalCheck(r)
  PROVE  ChainInv'
<1> DEFINE q == req[r]
<1>1. PICK verdict \in Verdicts :
        /\ Check(r, "global", verdict)
        /\ req' = [req EXCEPT
             ![r].stage = IF verdict = "error" THEN ToTenant ELSE "standing",
             ![r].over = verdict = "denied"]
  BY DEF GlobalCheck
<1>2. q.stage = "global" /\ UNCHANGED <<cfg, rep, metrics>>
  BY DEF GlobalCheck
<1> DEFINE to == IF verdict = "error" THEN ToTenant ELSE "standing"
           over == verdict = "denied"
           n == [q EXCEPT !.stage = to, !.over = over]
<1>3. /\ to \in {"standing", "tenant", "endpoint"}
      /\ to = "standing" <=> verdict # "error"
      /\ to = "tenant" => cfg.tenant
      /\ to = "endpoint" => ~cfg.tenant
  BY DEF ToTenant, ToEndpoint
<1>4. over \in BOOLEAN /\ req' = [req EXCEPT ![r] = n]
  BY <1>1
<1>5. over <=> verdict = "denied"
  OBVIOUS
<1> HIDE DEF to, over
<1>6. n \in Request /\ n.stage = to /\ n.answer = q.answer
  BY <1>3, <1>4, RequestTypes DEF Request, Stages
<1>7. n.tracked = q.tracked
  BY RequestTypes DEF Request
<1>8. n.over = over
  BY RequestTypes DEF Request
<1>9. n.bypass = q.bypass
  BY RequestTypes DEF Request
<1>10. KeysOK' /\ seen' \in [Requests -> History]
      /\ (\A o \in Requests \ {r} : seen'[o] = seen[o])
      /\ Checked(seen[r], seen'[r], "global", verdict)
  BY <1>1, CheckEffect DEF Levels
<1> HIDE DEF n
<1>11. Only(r) /\ req'[r] = n
  BY <1>2, <1>4, <1>6, <1>10, RequestTypes DEF Only
<1>12. ~cfg.dryRun /\ q.tracked
  BY <1>2, RequestTypes DEF RequestOK, Configured, Undecided
<1>13. RequestOK(cfg, n, seen'[r], rep[r])
  <2>1. Configured(cfg, n, rep[r]) /\ Fate(n, seen'[r])
    BY <1>2, <1>3, <1>6, <1>7, <1>10, <1>12, RequestTypes
       DEF RequestOK, Configured, Fate, Undecided, Checked
  <2>2. Denied(n, seen'[r])
    BY <1>2, <1>3, <1>5, <1>6, <1>8, <1>10, RequestTypes
       DEF RequestOK, Fate, Denied, Checked, Levels
  <2>3. Passed(cfg, n, seen'[r])
    BY <1>2, <1>3, <1>6, <1>9, <1>10, RequestTypes
       DEF RequestOK, Passed, Checked, Admitted, Verdicts
  <2>4. NoTrace(n, seen'[r], rep[r]) /\ NoTraceOnce(cfg, n, seen'[r], rep[r])
    BY <1>2, <1>3, <1>5, <1>6, <1>8, <1>10, RequestTypes
       DEF RequestOK, Fate, NoTrace, NoTraceOnce, Checked, Verdicts, Levels
  <2> QED
    BY <1>6, <1>10, <2>1, <2>2, <2>3, <2>4, RequestTypes DEF RequestOK, Checked
<1>14. Counted(q, n)
  BY <1>2, <1>6, <1>7, Uncounted, RequestTypes DEF Undecided
<1> QED
  BY <1>2, <1>10, <1>11, <1>13, <1>14, OneStep

\* A rejection ends the chain for a request that was still open.
LEMMA RejectEffect ==
  ASSUME ChainInv, NEW r \in Requests, NEW l \in Levels, Reject(r, l),
         req[r].stage \in {"standing", "tenant_bad", "endpoint_bad"}
  PROVE  /\ req' \in [Requests -> Request]
         /\ \A o \in Requests \ {r} : req'[o] = req[o]
         /\ req'[r].stage = "done" /\ req'[r].answer = l
         /\ ~req'[r].over /\ ~req'[r].tracked
         /\ Counted(req[r], req'[r])
<1> DEFINE q == req[r]
           n == [q EXCEPT !.stage = "done", !.tracked = FALSE, !.over = FALSE, !.answer = l]
           up == {"denied"}
<1>1. req' = [req EXCEPT ![r] = n] /\ Count(up, TRUE)
  BY DEF Reject
<1>2. n \in Request /\ n.stage = "done" /\ n.answer = l
  BY RequestTypes DEF Request, Stages
<1>3. ~n.over
  BY RequestTypes DEF Request
<1>4. ~n.tracked
  BY RequestTypes DEF Request
<1>5. /\ up \in SUBSET Counters /\ "denied" \in up
      /\ "total" \notin up /\ "allowed" \notin up /\ "inflight" \notin up
  BY DEF Counters
<1> HIDE DEF n, up
<1>6. req' \in [Requests -> Request] /\ req'[r] = n
      /\ \A o \in Requests \ {r} : req'[o] = req[o]
  BY <1>1, <1>2, RequestTypes
<1>7. q.tracked /\ q.answer \notin Levels /\ Undecided(q)
  BY RequestTypes DEF RequestOK, Configured, Fate, Undecided, Levels
<1>8. Counted(q, n)
  <2>1. /\ metrics' \in [Counters -> Int] /\ metrics \in [Counters -> Int]
        /\ metrics'["total"] = metrics["total"] + Num("total" \in up)
        /\ metrics'["allowed"] = metrics["allowed"] + Num("allowed" \in up)
        /\ metrics'["denied"] = metrics["denied"] + Num("denied" \in up)
        /\ metrics'["inflight"] = metrics["inflight"] + Num("inflight" \in up) - Num(TRUE)
    BY <1>1, <1>5, CountEffect
  <2>2. /\ metrics["total"] \in Int /\ metrics["allowed"] \in Int
        /\ metrics["denied"] \in Int /\ metrics["inflight"] \in Int
    BY <2>1 DEF Counters
  <2>3. /\ metrics'["total"] = metrics["total"] /\ metrics'["allowed"] = metrics["allowed"]
        /\ metrics'["denied"] = metrics["denied"] + 1
        /\ metrics'["inflight"] = metrics["inflight"] - 1
    BY <1>5, <2>1, <2>2 DEF Num
  <2>4. Num(q.tracked) = 1 /\ Num(n.tracked) = 0
    BY <1>4, <1>7 DEF Num
  <2>5. Num(q.answer \in Levels) = 0 /\ Num(n.answer \in Levels) = 1
    BY <1>2, <1>7 DEF Num
  <2>6. Num(Undecided(q)) = 1 /\ Num(Undecided(n)) = 0
    BY <1>2, <1>7 DEF Num, Undecided
  <2>7. metrics' \in [Counters -> Int]
    BY <2>1
  <2>8. metrics'["total"] = metrics["total"]
    BY <1>5, <2>1, <2>2 DEF Num
  <2> QED
    BY <2>2, <2>3, <2>4, <2>5, <2>6, <2>7, <2>8 DEF Counted
<1> QED
  BY <1>2, <1>3, <1>4, <1>6, <1>8

\* Over the global limit the standing decides; within it the request goes on.
LEMMA ReadStandingStep ==
  ASSUME ChainInv, NEW r \in Requests, ReadStanding(r)
  PROVE  ChainInv'
<1> DEFINE q == req[r]
<1>1. q.stage = "standing" /\ UNCHANGED <<cfg, spent, rep, seen>>
  BY DEF ReadStanding
<1>2. ~cfg.dryRun /\ q.tracked
  BY <1>1, RequestTypes DEF RequestOK, Configured, Undecided
<1>3. KeysOK'
  BY <1>1 DEF ChainInv, KeysOK
<1>4. CASE q.over /\ Reject(r, "global")
  <2>1. /\ req' \in [Requests -> Request]
        /\ \A o \in Requests \ {r} : req'[o] = req[o]
        /\ req'[r].stage = "done" /\ req'[r].answer = "global"
        /\ ~req'[r].over /\ ~req'[r].tracked /\ Counted(q, req'[r])
    BY <1>1, <1>4, RejectEffect DEF Levels
  <2> DEFINE n == req'[r]
  <2>2. RequestOK(cfg, n, seen[r], rep[r])
    BY <1>1, <1>2, <1>4, <2>1, RequestTypes
       DEF RequestOK, Configured, Fate, Denied, Passed, NoTrace, NoTraceOnce, Undecided,
           Admitted, Levels
  <2> QED
    BY <1>1, <1>3, <2>1, <2>2, OneStep, RequestTypes DEF Only
<1>5. CASE req' = [req EXCEPT ![r].stage = ToTenant, ![r].over = FALSE] /\ metrics' = metrics
  <2> DEFINE to == ToTenant
             n == [q EXCEPT !.stage = to, !.over = FALSE]
  <2>1. to \in {"tenant", "endpoint"} /\ (to = "tenant" <=> cfg.tenant)
    BY RequestTypes DEF ToTenant, ToEndpoint
  <2>2. req' = [req EXCEPT ![r] = n]
    BY <1>5
  <2> HIDE DEF to
  <2>3. n \in Request /\ n.stage = to /\ n.answer = q.answer
    BY <2>1, RequestTypes DEF Request, Stages
  <2>4. n.tracked = q.tracked
    BY RequestTypes DEF Request
  <2>5. ~n.over
    BY RequestTypes DEF Request
  <2>6. n.bypass = q.bypass
    BY RequestTypes DEF Request
  <2> HIDE DEF n
  <2>7. Only(r) /\ req'[r] = n
    BY <1>1, <2>2, <2>3, RequestTypes DEF Only
  <2>8. RequestOK(cfg, n, seen[r], rep[r])
    BY <1>1, <1>2, <2>1, <2>3, <2>4, <2>5, <2>6, RequestTypes
       DEF RequestOK, Configured, Fate, Denied, Passed, NoTrace, NoTraceOnce, Undecided,
           Admitted, Levels
  <2>9. Counted(q, n)
    BY <1>1, <1>5, <2>3, <2>4, Uncounted, RequestTypes DEF Undecided
  <2> QED
    BY <1>1, <1>3, <2>7, <2>8, <2>9, OneStep
<1> QED
  BY <1>4, <1>5 DEF ReadStanding

\* The tenant layer asks Redis, and an error lets the request past the layer.
LEMMA TenantCheckStep ==
  ASSUME ChainInv, NEW r \in Requests, TenantCheck(r)
  PROVE  ChainInv'
<1> DEFINE q == req[r]
<1>1. PICK verdict \in Verdicts :
        /\ Check(r, "tenant", verdict)
        /\ Move(r, CASE verdict = "error"   -> ToEndpoint
                     [] verdict = "denied"  -> "tenant_bad"
                     [] verdict = "granted" -> "tenant_good")
  BY DEF TenantCheck
<1>2. q.stage = "tenant" /\ UNCHANGED <<cfg, rep, metrics>>
  BY DEF TenantCheck
<1> DEFINE to == CASE verdict = "error"   -> ToEndpoint
                   [] verdict = "denied"  -> "tenant_bad"
                   [] verdict = "granted" -> "tenant_good"
           n == [q EXCEPT !.stage = to]
<1>3. /\ verdict = "error" => to = "endpoint"
      /\ verdict = "denied" => to = "tenant_bad"
      /\ verdict = "granted" => to = "tenant_good"
  BY DEF ToEndpoint
<1>4. req' = [req EXCEPT ![r] = n]
  BY <1>1 DEF Move
<1> HIDE DEF to
<1>5. n \in Request /\ n.stage = to /\ n.answer = q.answer
  BY <1>3, RequestTypes DEF Request, Stages, Verdicts
<1>6. n.tracked = q.tracked
  BY RequestTypes DEF Request
<1>7. n.over = q.over
  BY RequestTypes DEF Request
<1>8. n.bypass = q.bypass
  BY RequestTypes DEF Request
<1>9. KeysOK' /\ seen' \in [Requests -> History]
      /\ (\A o \in Requests \ {r} : seen'[o] = seen[o])
      /\ Checked(seen[r], seen'[r], "tenant", verdict)
  BY <1>1, CheckEffect DEF Levels
<1> HIDE DEF n
<1>10. Only(r) /\ req'[r] = n
  BY <1>2, <1>4, <1>5, <1>9, RequestTypes DEF Only
<1>11. ~cfg.dryRun /\ q.tracked /\ cfg.tenant /\ ~q.over
  BY <1>2, RequestTypes DEF RequestOK, Configured, Undecided, Denied
<1>12. RequestOK(cfg, n, seen'[r], rep[r])
  <2>1. Configured(cfg, n, rep[r]) /\ Fate(n, seen'[r]) /\ Denied(n, seen'[r])
    BY <1>2, <1>3, <1>5, <1>6, <1>7, <1>9, <1>11, RequestTypes
       DEF RequestOK, Configured, Fate, Denied, Undecided, Checked, Levels, Verdicts
  <2>2. Passed(cfg, n, seen'[r])
    BY <1>2, <1>3, <1>5, <1>8, <1>9, RequestTypes
       DEF RequestOK, Passed, Checked, Admitted, Verdicts
  <2>3. NoTrace(n, seen'[r], rep[r]) /\ NoTraceOnce(cfg, n, seen'[r], rep[r])
    BY <1>2, <1>3, <1>5, <1>7, <1>9, <1>11, RequestTypes
       DEF RequestOK, Fate, NoTrace, NoTraceOnce, Checked, Verdicts, Levels
  <2> QED
    BY <1>5, <1>9, <2>1, <2>2, <2>3, RequestTypes DEF RequestOK, Checked
<1>13. Counted(q, n)
  BY <1>2, <1>5, <1>6, Uncounted, RequestTypes DEF Undecided
<1> QED
  BY <1>2, <1>9, <1>10, <1>12, <1>13, OneStep

\* A move along the chain changes the stage and nothing else of the request.
LEMMA MoveEffect ==
  ASSUME ChainInv, NEW r \in Requests, NEW to \in Stages, Move(r, to)
  PROVE  /\ req' \in [Requests -> Request]
         /\ \A o \in Requests \ {r} : req'[o] = req[o]
         /\ req'[r] \in Request
         /\ req'[r].stage = to /\ req'[r].answer = req[r].answer
         /\ req'[r].tracked = req[r].tracked /\ req'[r].over = req[r].over
         /\ req'[r].bypass = req[r].bypass /\ req'[r].fallback = req[r].fallback
<1> DEFINE n == [req[r] EXCEPT !.stage = to]
<1>1. req' = [req EXCEPT ![r] = n]
  BY DEF Move
<1>2. n \in Request /\ n.stage = to /\ n.answer = req[r].answer
  BY RequestTypes DEF Request
<1>3. n.tracked = req[r].tracked
  BY RequestTypes DEF Request
<1>4. n.over = req[r].over
  BY RequestTypes DEF Request
<1>5. n.bypass = req[r].bypass
  BY RequestTypes DEF Request
<1>6. n.fallback = req[r].fallback
  BY RequestTypes DEF Request
<1> HIDE DEF n
<1> QED
  BY <1>1, <1>2, <1>3, <1>4, <1>5, <1>6, RequestTypes

\* The tenant layer rejects: one violation at most is added, no good request.
LEMMA TenantRejectsStep ==
  ASSUME ChainInv, NEW r \in Requests, TenantRejects(r)
  PROVE  ChainInv'
<1> DEFINE q == req[r]
           n == req'[r]
<1>1. /\ q.stage = "tenant_bad" /\ Reject(r, "tenant")
      /\ (Rate(r, TRUE) \/ UNCHANGED rep) /\ UNCHANGED <<cfg, spent, seen>>
  BY DEF TenantRejects, UpdateReputation
<1>2. /\ req' \in [Requests -> Request]
      /\ \A o \in Requests \ {r} : req'[o] = req[o]
      /\ n.stage = "done" /\ n.answer = "tenant" /\ ~n.over /\ ~n.tracked
      /\ Counted(q, n)
  BY <1>1, RejectEffect DEF Levels
<1>3. /\ rep' \in [Requests -> Record]
      /\ \A o \in Requests \ {r} : rep'[o] = rep[o]
      /\ rep'[r].good = rep[r].good
  BY <1>1, ReputationEffect
<1>4. ~cfg.dryRun
  BY <1>1, RequestTypes DEF RequestOK, Configured
<1>5. n \in Request /\ rep'[r] \in Record
  BY <1>2, <1>3
<1> HIDE DEF n
<1>6. RequestOK(cfg, n, seen[r], rep'[r])
  <2>1. Configured(cfg, n, rep'[r]) /\ Fate(n, seen[r]) /\ Denied(n, seen[r])
    BY <1>1, <1>2, <1>4, RequestTypes
       DEF RequestOK, Configured, Fate, Denied, Undecided, Levels
  <2>2. Passed(cfg, n, seen[r])
    <3>1. ~Admitted(n)
      BY <1>2 DEF Admitted, Levels
    <3>2. \/ q.bypass
          \/ cfg.global => "global" \in seen[r].charged \cup seen[r].denied \cup seen[r].faulted
      BY <1>1, <1>4, RequestTypes DEF RequestOK, Passed
    <3>3. n.bypass = q.bypass
      BY <1>1, RequestTypes DEF Reject, Request, n
    <3> QED
      BY <1>2, <1>4, <3>1, <3>2, <3>3 DEF Passed
  <2>3. NoTrace(n, seen[r], rep'[r]) /\ NoTraceOnce(cfg, n, seen[r], rep'[r])
    BY <1>1, <1>2, <1>3, RequestTypes
       DEF RequestOK, Denied, NoTrace, NoTraceOnce, Levels
  <2> QED
    BY <1>5, <2>1, <2>2, <2>3, RequestTypes DEF RequestOK
<1>7. KeysOK'
  BY <1>1 DEF ChainInv, KeysOK
<1> QED
  BY <1>1, <1>2, <1>3, <1>6, <1>7, OneStep, RequestTypes DEF Only, n

\* The tenant layer lets the request on.
LEMMA TenantPassesStep ==
  ASSUME ChainInv, NEW r \in Requests, TenantPasses(r)
  PROVE  ChainInv'
<1> DEFINE q == req[r]
           n == req'[r]
<1>1. /\ q.stage = "tenant_good" /\ Move(r, "endpoint")
      /\ (Rate(r, FALSE) \/ UNCHANGED rep) /\ UNCHANGED <<cfg, spent, metrics, seen>>
  BY DEF TenantPasses, UpdateReputation, ToEndpoint
<1>2. /\ req' \in [Requests -> Request] /\ n \in Request
      /\ \A o \in Requests \ {r} : req'[o] = req[o]
      /\ n.stage = "endpoint" /\ n.answer = q.answer /\ n.tracked = q.tracked
      /\ n.over = q.over /\ n.bypass = q.bypass
  BY <1>1, MoveEffect DEF Stages
<1>3. /\ rep' \in [Requests -> Record]
      /\ \A o \in Requests \ {r} : rep'[o] = rep[o]
      /\ rep'[r].violations = rep[r].violations
      /\ rep'[r].good \in {rep[r].good, rep[r].good + 1}
  BY <1>1, ReputationEffect
<1>4. ~cfg.dryRun /\ q.tracked /\ cfg.tenant /\ ~q.over
  BY <1>1, RequestTypes DEF RequestOK, Configured, Undecided, Denied
<1>5. rep'[r] \in Record
  BY <1>3
<1> HIDE DEF n
<1>6. RequestOK(cfg, n, seen[r], rep'[r])
  <2>1. Configured(cfg, n, rep'[r]) /\ Fate(n, seen[r]) /\ Denied(n, seen[r])
    BY <1>1, <1>2, <1>4, RequestTypes
       DEF RequestOK, Configured, Fate, Denied, Undecided, Levels
  <2>2. Passed(cfg, n, seen[r])
    BY <1>1, <1>2, <1>4, RequestTypes DEF RequestOK, Passed, Admitted
  <2>3. NoTrace(n, seen[r], rep'[r]) /\ NoTraceOnce(cfg, n, seen[r], rep'[r])
    BY <1>1, <1>2, <1>3, <1>4, RequestTypes
       DEF RequestOK, Fate, NoTrace, NoTraceOnce, Levels
  <2> QED
    BY <1>2, <1>5, <2>1, <2>2, <2>3, RequestTypes DEF RequestOK
<1>7. KeysOK'
  BY <1>1 DEF ChainInv, KeysOK
<1>8. Counted(q, n)
  BY <1>1, <1>2, Uncounted, RequestTypes DEF Undecided
<1> QED
  BY <1>1, <1>2, <1>3, <1>6, <1>7, <1>8, OneStep, RequestTypes DEF Only, n

\* The endpoint layer asks Redis; a grant is counted as allowed at once.
LEMMA EndpointCheckStep ==
  ASSUME ChainInv, NEW r \in Requests, EndpointCheck(r)
  PROVE  ChainInv'
<1> DEFINE q == req[r]
           n == req'[r]
<1>1. PICK verdict \in Verdicts :
        /\ Check(r, "endpoint", verdict)
        /\ Move(r, CASE verdict = "error"   -> "proxy"
                     [] verdict = "denied"  -> "endpoint_bad"
                     [] verdict = "granted" -> "endpoint_good")
        /\ Count(IF verdict = "granted" THEN {"allowed"} ELSE {}, FALSE)
  BY DEF EndpointCheck
<1>2. q.stage = "endpoint" /\ UNCHANGED <<cfg, rep>>
  BY DEF EndpointCheck
<1> DEFINE to == CASE verdict = "error"   -> "proxy"
                   [] verdict = "denied"  -> "endpoint_bad"
                   [] verdict = "granted" -> "endpoint_good"
           up == IF verdict = "granted" THEN {"allowed"} ELSE {}
<1>3. /\ verdict = "error" => to = "proxy"
      /\ verdict = "denied" => to = "endpoint_bad"
      /\ verdict = "granted" => to = "endpoint_good"
  OBVIOUS
<1>4. /\ up \in SUBSET Counters
      /\ "total" \notin up /\ "denied" \notin up /\ "inflight" \notin up
      /\ "allowed" \in up <=> verdict = "granted"
  BY DEF Counters
<1>5. Move(r, to) /\ Count(up, FALSE)
  BY <1>1
<1> HIDE DEF to, up
<1>6. to \in Stages
  BY <1>3 DEF Stages, Verdicts
<1>7. /\ req' \in [Requests -> Request] /\ n \in Request
      /\ \A o \in Requests \ {r} : req'[o] = req[o]
      /\ n.stage = to /\ n.answer = q.answer /\ n.tracked = q.tracked
      /\ n.over = q.over /\ n.bypass = q.bypass
  BY <1>5, <1>6, MoveEffect
<1>8. /\ KeysOK' /\ seen' \in [Requests -> History]
      /\ \A o \in Requests \ {r} : seen'[o] = seen[o]
      /\ Checked(seen[r], seen'[r], "endpoint", verdict)
  BY <1>1, CheckEffect DEF Levels
<1>9. ~cfg.dryRun /\ q.tracked /\ ~q.over
  BY <1>2, RequestTypes DEF RequestOK, Configured, Undecided, Denied
<1> HIDE DEF n
<1>10. RequestOK(cfg, n, seen'[r], rep[r])
  <2>1. Configured(cfg, n, rep[r]) /\ Fate(n, seen'[r]) /\ Denied(n, seen'[r])
    BY <1>2, <1>3, <1>7, <1>8, <1>9, RequestTypes
       DEF RequestOK, Configured, Fate, Denied, Undecided, Checked, Levels, Verdicts
  <2>2. Passed(cfg, n, seen'[r])
    BY <1>2, <1>3, <1>7, <1>8, RequestTypes
       DEF RequestOK, Passed, Checked, Admitted, Verdicts
  <2>3. NoTrace(n, seen'[r], rep[r]) /\ NoTraceOnce(cfg, n, seen'[r], rep[r])
    BY <1>2, <1>3, <1>7, <1>8, <1>9, RequestTypes
       DEF RequestOK, Fate, NoTrace, NoTraceOnce, Checked, Verdicts, Levels
  <2> QED
    BY <1>7, <1>8, <2>1, <2>2, <2>3, RequestTypes DEF RequestOK, Checked
<1>11. Counted(q, n)
  <2>1. /\ metrics' \in [Counters -> Int] /\ metrics \in [Counters -> Int]
        /\ metrics'["total"] = metrics["total"] + Num("total" \in up)
        /\ metrics'["allowed"] = metrics["allowed"] + Num("allowed" \in up)
        /\ metrics'["denied"] = metrics["denied"] + Num("denied" \in up)
        /\ metrics'["inflight"] = metrics["inflight"] + Num("inflight" \in up) - Num(FALSE)
    BY <1>4, <1>5, CountEffect
  <2>2. /\ metrics["total"] \in Int /\ metrics["allowed"] \in Int
        /\ metrics["denied"] \in Int /\ metrics["inflight"] \in Int
    BY <2>1 DEF Counters
  <2> DEFINE granted == Num("allowed" \in up)
             before == Num(Undecided(q))
             after == Num(Undecided(n))
             tracked == Num(q.tracked)
             rejected == Num(q.answer \in Levels)
  <2>3. /\ metrics'["total"] = metrics["total"]
        /\ metrics'["denied"] = metrics["denied"]
        /\ metrics'["inflight"] = metrics["inflight"]
    BY <1>4, <2>1, <2>2 DEF Num
  <2>4. metrics'["allowed"] = metrics["allowed"] + granted
    BY <2>1
  <2>5. /\ granted \in {0, 1} /\ before = 1 /\ after \in {0, 1}
        /\ granted = 1 => after = 0
    BY <1>2, <1>3, <1>4, <1>7 DEF Num, Undecided, Verdicts
  <2>6. tracked \in Int /\ rejected \in Int
    BY DEF Num
  <2>7. Num(n.tracked) = tracked
    BY <1>7
  <2>8. Num(n.answer \in Levels) = rejected
    BY <1>7
  <2> HIDE DEF granted, after, tracked, rejected
  <2>9. metrics'["allowed"] >= metrics["allowed"]
    BY <2>2, <2>4, <2>5
  <2>10. (metrics'["allowed"] - metrics["allowed"]) + (rejected - rejected) + (after - before)
           <= metrics'["total"] - metrics["total"]
    BY <2>2, <2>3, <2>4, <2>5, <2>6
  <2>11. /\ metrics'["inflight"] = metrics["inflight"] - tracked + tracked
         /\ metrics'["denied"] = metrics["denied"] - rejected + rejected
    BY <2>2, <2>3, <2>6
  <2> QED
    BY <2>1, <2>7, <2>8, <2>9, <2>10, <2>11 DEF Counted, after, tracked, rejected
<1> QED
  BY <1>2, <1>7, <1>8, <1>10, <1>11, OneStep, RequestTypes DEF Only, n

\* The endpoint layer rejects: one violation at most, and the good request of
\* the tenant layer if there is one.
LEMMA EndpointRejectsStep ==
  ASSUME ChainInv, NEW r \in Requests, EndpointRejects(r)
  PROVE  ChainInv'
<1> DEFINE q == req[r]
           n == req'[r]
<1>1. /\ q.stage = "endpoint_bad" /\ Reject(r, "endpoint")
      /\ (Rate(r, TRUE) \/ UNCHANGED rep) /\ UNCHANGED <<cfg, spent, seen>>
  BY DEF EndpointRejects, UpdateReputation
<1>2. /\ req' \in [Requests -> Request]
      /\ \A o \in Requests \ {r} : req'[o] = req[o]
      /\ n.stage = "done" /\ n.answer = "endpoint" /\ ~n.over /\ ~n.tracked
      /\ Counted(q, n)
  BY <1>1, RejectEffect DEF Levels
<1>3. /\ rep' \in [Requests -> Record]
      /\ \A o \in Requests \ {r} : rep'[o] = rep[o]
      /\ rep'[r].good = rep[r].good
      /\ rep'[r].violations \in {rep[r].violations, rep[r].violations + 1}
  BY <1>1, ReputationEffect
<1>4. ~cfg.dryRun
  BY <1>1, RequestTypes DEF RequestOK, Configured
<1>5. n \in Request /\ rep'[r] \in Record
  BY <1>2, <1>3
<1>6. n.bypass = q.bypass
  BY <1>1, RequestTypes DEF Reject, Request
<1> HIDE DEF n
<1>7. RequestOK(cfg, n, seen[r], rep'[r])
  <2>1. Configured(cfg, n, rep'[r]) /\ Fate(n, seen[r]) /\ Denied(n, seen[r])
    BY <1>1, <1>2, <1>4, RequestTypes
       DEF RequestOK, Configured, Fate, Denied, Undecided, Levels
  <2>2. Passed(cfg, n, seen[r])
    BY <1>1, <1>2, <1>4, <1>6, RequestTypes DEF RequestOK, Passed, Admitted, Levels
  <2>3. NoTrace(n, seen[r], rep'[r]) /\ NoTraceOnce(cfg, n, seen[r], rep'[r])
    BY <1>1, <1>2, <1>3, RequestTypes
       DEF RequestOK, Denied, NoTrace, NoTraceOnce, Levels
  <2> QED
    BY <1>5, <2>1, <2>2, <2>3, RequestTypes DEF RequestOK
<1>8. KeysOK'
  BY <1>1 DEF ChainInv, KeysOK
<1> QED
  BY <1>1, <1>2, <1>3, <1>7, <1>8, OneStep, RequestTypes DEF Only, n

\* The endpoint layer hands the request to the proxy.
LEMMA EndpointPassesStep ==
  ASSUME ChainInv, NEW r \in Requests, EndpointPasses(r)
  PROVE  ChainInv'
<1> DEFINE q == req[r]
           n == req'[r]
<1>1. /\ q.stage = "endpoint_good" /\ Move(r, "proxy")
      /\ (Rate(r, FALSE) \/ UNCHANGED rep) /\ UNCHANGED <<cfg, spent, metrics, seen>>
  BY DEF EndpointPasses, UpdateReputation
<1>2. /\ req' \in [Requests -> Request] /\ n \in Request
      /\ \A o \in Requests \ {r} : req'[o] = req[o]
      /\ n.stage = "proxy" /\ n.answer = q.answer /\ n.tracked = q.tracked
      /\ n.over = q.over /\ n.bypass = q.bypass
  BY <1>1, MoveEffect DEF Stages
<1>3. /\ rep' \in [Requests -> Record]
      /\ \A o \in Requests \ {r} : rep'[o] = rep[o]
  BY <1>1, ReputationEffect
<1>4. ~cfg.dryRun /\ ~q.over
  BY <1>1, RequestTypes DEF RequestOK, Configured, Denied
<1>5. rep'[r] \in Record
  BY <1>3
<1> HIDE DEF n
<1>6. RequestOK(cfg, n, seen[r], rep'[r])
  <2>1. Configured(cfg, n, rep'[r]) /\ Fate(n, seen[r]) /\ Denied(n, seen[r])
    BY <1>1, <1>2, <1>4, RequestTypes
       DEF RequestOK, Configured, Fate, Denied, Undecided, Levels
  <2>2. Passed(cfg, n, seen[r])
    BY <1>1, <1>2, RequestTypes DEF RequestOK, Passed, Admitted
  <2>3. NoTrace(n, seen[r], rep'[r]) /\ NoTraceOnce(cfg, n, seen[r], rep'[r])
    BY <1>1, <1>2, <1>4, RequestTypes
       DEF RequestOK, Fate, NoTrace, NoTraceOnce, Levels
  <2> QED
    BY <1>2, <1>5, <2>1, <2>2, <2>3, RequestTypes DEF RequestOK
<1>7. KeysOK'
  BY <1>1 DEF ChainInv, KeysOK
<1>8. Counted(q, n)
  BY <1>1, <1>2, Uncounted, RequestTypes DEF Undecided
<1> QED
  BY <1>1, <1>2, <1>3, <1>6, <1>7, <1>8, OneStep, RequestTypes DEF Only, n

-----------------------------------------------------------------------------
(* The proxy *)

\* The backend sees a request a second time only after Recovery took over.
LEMMA ForwardStep ==
  ASSUME ChainInv, NEW r \in Requests, Forward(r)
  PROVE  ChainInv'
<1> DEFINE q == req[r]
           n == req'[r]
           s == seen[r]
           after == [s EXCEPT !.forwards = @ + 1]
<1>1. /\ q.stage = "proxy" /\ Move(r, "upstream") /\ UNCHANGED <<cfg, spent, rep, metrics>>
      /\ seen' = [seen EXCEPT ![r].forwards = @ + 1]
  BY DEF Forward
<1>2. /\ req' \in [Requests -> Request] /\ n \in Request
      /\ \A o \in Requests \ {r} : req'[o] = req[o]
      /\ n.stage = "upstream" /\ n.answer = q.answer /\ n.tracked = q.tracked
      /\ n.over = q.over /\ n.bypass = q.bypass /\ n.fallback = q.fallback
  BY <1>1, MoveEffect DEF Stages
<1>3. s.forwards = 0 \/ (s.forwards = 1 /\ q.fallback)
  BY <1>1, RequestTypes DEF RequestOK, Fate
<1>4. seen' = [seen EXCEPT ![r] = after]
  BY <1>1, RequestTypes DEF History
<1>5. /\ after \in History /\ after.forwards = s.forwards + 1
      /\ after.charged = s.charged /\ after.denied = s.denied /\ after.lost = s.lost
  <2>1. s.forwards + 1 \in 0..2
    BY <1>3
  <2> QED
    BY <2>1, RequestTypes DEF History
<1>6. after.faulted = s.faulted
  BY RequestTypes DEF History
<1> HIDE DEF after
<1>7. /\ seen' \in [Requests -> History] /\ seen'[r] = after
      /\ \A o \in Requests \ {r} : seen'[o] = seen[o]
  BY <1>4, <1>5, RequestTypes
<1> HIDE DEF n
<1>8. RequestOK(cfg, n, after, rep[r])
  <2>1. Configured(cfg, n, rep[r])
    BY <1>1, <1>2, RequestTypes DEF RequestOK, Configured, Undecided
  <2>2. Fate(n, after)
    BY <1>1, <1>2, <1>3, <1>5, RequestTypes DEF RequestOK, Fate
  <2>3. Denied(n, after) /\ Passed(cfg, n, after)
    BY <1>1, <1>2, <1>5, <1>6, RequestTypes DEF RequestOK, Fate, Denied, Passed, Admitted, Levels
  <2>4. NoTrace(n, after, rep[r]) /\ NoTraceOnce(cfg, n, after, rep[r])
    BY <1>1, <1>2, <1>5, RequestTypes
       DEF RequestOK, Fate, Denied, NoTrace, NoTraceOnce, Levels
  <2> QED
    BY <1>2, <1>5, <2>1, <2>2, <2>3, <2>4, RequestTypes DEF RequestOK
<1>9. KeysOK'
  BY <1>1 DEF ChainInv, KeysOK
<1>10. Counted(q, n)
  BY <1>1, <1>2, Uncounted, RequestTypes DEF Undecided
<1> QED
  BY <1>1, <1>2, <1>7, <1>8, <1>9, <1>10, OneStep, RequestTypes DEF Only, n

\* The counters as a request comes back from the backend: the gauge is undone
\* if it had been raised.
LEMMA BackCounted ==
  ASSUME ChainInv, NEW q \in Request, NEW n \in Request, Count({}, q.tracked),
         ~n.tracked, q.answer \notin Levels, n.answer \notin Levels,
         ~Undecided(q), ~Undecided(n)
  PROVE  Counted(q, n)
<1> DEFINE up == {}
           leaves == q.tracked
<1>1. leaves \in BOOLEAN /\ up \in SUBSET Counters /\ Count(up, leaves)
  BY DEF Request
<1>2. \A m \in Counters : m \notin up
  OBVIOUS
<1> HIDE DEF up, leaves
<1>3. /\ metrics' \in [Counters -> Int] /\ metrics \in [Counters -> Int]
      /\ metrics'["total"] = metrics["total"] + Num("total" \in up)
      /\ metrics'["allowed"] = metrics["allowed"] + Num("allowed" \in up)
      /\ metrics'["denied"] = metrics["denied"] + Num("denied" \in up)
      /\ metrics'["inflight"] = metrics["inflight"] + Num("inflight" \in up) - Num(leaves)
  BY <1>1, CountEffect
<1>4. /\ metrics["total"] \in Int /\ metrics["allowed"] \in Int
      /\ metrics["denied"] \in Int /\ metrics["inflight"] \in Int
  BY <1>3 DEF Counters
<1>5. /\ Num("total" \in up) = 0 /\ Num("allowed" \in up) = 0
      /\ Num("denied" \in up) = 0 /\ Num("inflight" \in up) = 0
  BY <1>2 DEF Num, Counters
<1>6. Num(leaves) \in Int
  BY DEF Num
<1>7. /\ metrics'["total"] = metrics["total"] /\ metrics'["allowed"] = metrics["allowed"]
      /\ metrics'["denied"] = metrics["denied"]
      /\ metrics'["inflight"] = metrics["inflight"] - Num(leaves)
  BY <1>3, <1>4, <1>5, <1>6
<1>8. Num(n.tracked) = 0 /\ Num(q.tracked) = Num(leaves)
  BY DEF Num, leaves
<1>9. /\ Num(Undecided(q)) = 0 /\ Num(Undecided(n)) = 0
      /\ Num(q.answer \in Levels) = 0 /\ Num(n.answer \in Levels) = 0
  BY DEF Num
<1>10. metrics' \in [Counters -> Int]
  BY <1>3
<1> QED
  BY <1>4, <1>6, <1>7, <1>8, <1>9, <1>10 DEF Counted

\* A step in which a request that is back from the backend changes only its
\* stage, its answer and what Recovery and the gauge keep of it.
LEMMA BackStep ==
  ASSUME ChainInv, NEW r \in Requests, NEW n \in Request,
         req[r].stage = "upstream", UNCHANGED <<cfg, spent, rep, seen>>,
         req' = [req EXCEPT ![r] = n], Count({}, req[r].tracked),
         ~n.tracked, n.over = req[r].over, n.bypass = req[r].bypass,
         Fate(n, seen[r]), n.stage \in {"proxy", "done"}, n.answer \notin Levels
  PROVE  ChainInv'
<1> DEFINE q == req[r]
<1>1. q.answer = "none" /\ q.answer \notin Levels /\ ~Undecided(q) /\ ~Undecided(n)
  BY RequestTypes DEF RequestOK, Fate, Levels, Undecided
<1>2. Counted(q, n)
  BY <1>1, BackCounted, RequestTypes
<1>3. RequestOK(cfg, n, seen[r], rep[r])
  <2>1. Configured(cfg, n, rep[r])
    BY RequestTypes DEF RequestOK, Configured, Undecided
  <2>2. Denied(n, seen[r]) /\ Passed(cfg, n, seen[r])
    BY RequestTypes DEF RequestOK, Denied, Passed, Admitted
  <2>3. NoTrace(n, seen[r], rep[r]) /\ NoTraceOnce(cfg, n, seen[r], rep[r])
    BY RequestTypes DEF RequestOK, Denied, NoTrace, NoTraceOnce, Levels
  <2> QED
    BY <2>1, <2>2, <2>3, RequestTypes DEF RequestOK
<1>4. Only(r) /\ req'[r] = n
  BY RequestTypes DEF Only
<1>5. KeysOK'
  BY DEF ChainInv, KeysOK
<1> QED
  BY <1>2, <1>3, <1>4, <1>5, OneStep

\* The backend answers.
LEMMA RespondStep ==
  ASSUME ChainInv, NEW r \in Requests, Respond(r)
  PROVE  ChainInv'
<1> DEFINE q == req[r]
           answer == IF q.answer = "none" THEN "backend" ELSE q.answer
           n == [q EXCEPT !.stage = "done", !.tracked = FALSE, !.answer = answer]
<1>1. /\ q.stage = "upstream" /\ Count({}, q.tracked) /\ UNCHANGED <<cfg, spent, rep, seen>>
      /\ req' = [req EXCEPT ![r] = n]
  BY DEF Respond
<1>2. q.answer = "none" /\ answer = "backend"
  BY <1>1, RequestTypes DEF RequestOK, Fate
<1> HIDE DEF answer
<1>3. n \in Request /\ n.stage = "done" /\ n.answer = "backend"
  BY <1>2, RequestTypes DEF Request, Stages
<1>4. ~n.tracked
  BY RequestTypes DEF Request
<1>5. n.over = q.over
  BY RequestTypes DEF Request
<1>6. n.bypass = q.bypass
  BY RequestTypes DEF Request
<1>7. n.fallback = q.fallback
  BY RequestTypes DEF Request
<1> HIDE DEF n
<1>8. Fate(n, seen[r])
  BY <1>1, <1>3, <1>7, RequestTypes DEF RequestOK, Fate, Levels
<1> QED
  BY <1>1, <1>3, <1>4, <1>5, <1>6, <1>8, BackStep DEF Levels

\* The backend's answer breaks off: once, and Recovery forwards the request
\* again; the second time it is dropped.
LEMMA AbortStep ==
  ASSUME ChainInv, NEW r \in Requests, Abort(r)
  PROVE  ChainInv'
<1> DEFINE q == req[r]
           to == IF q.fallback THEN "done" ELSE "proxy"
           answer == IF q.fallback THEN "aborted" ELSE q.answer
           n == [q EXCEPT !.stage = to, !.answer = answer, !.fallback = TRUE,
                          !.tracked = FALSE]
<1>1. /\ q.stage = "upstream" /\ Count({}, q.tracked) /\ UNCHANGED <<cfg, spent, rep, seen>>
      /\ req' = [req EXCEPT ![r] = n]
  BY DEF Abort
<1>2. /\ q.fallback => to = "done" /\ answer = "aborted"
      /\ ~q.fallback => to = "proxy" /\ answer = "none"
  BY <1>1, RequestTypes DEF RequestOK, Fate
<1> HIDE DEF to, answer
<1>3. to \in {"done", "proxy"} /\ answer \in {"aborted", "none"}
  BY <1>2
<1>4. n \in Request /\ n.stage = to /\ n.answer = answer
  BY <1>3, RequestTypes DEF Request, Stages
<1>5. ~n.tracked
  BY RequestTypes DEF Request
<1>6. n.over = q.over
  BY RequestTypes DEF Request
<1>7. n.bypass = q.bypass
  BY RequestTypes DEF Request
<1>8. n.fallback
  BY RequestTypes DEF Request
<1> HIDE DEF n
<1>9. Fate(n, seen[r])
  BY <1>1, <1>2, <1>4, <1>8, RequestTypes DEF RequestOK, Fate, Levels
<1> QED
  BY <1>1, <1>3, <1>4, <1>5, <1>6, <1>7, <1>9, BackStep DEF Levels

-----------------------------------------------------------------------------
(* Redis *)

\* A script that is run again may charge the request a second time or add to
\* its record once more; it moves nothing else.
LEMMA AnswerLostStep ==
  ASSUME ChainInv, NEW r \in Requests, AnswerLost(r)
  PROVE  ChainInv'
<1> DEFINE q == req[r]
           s == seen[r]
           past == [s EXCEPT !.lost = @ + 1]
<1>1. s.lost < Resends /\ UNCHANGED <<cfg, req, metrics>>
  BY DEF AnswerLost
<1>2. /\ past \in History /\ past.lost > 0 /\ past.forwards = s.forwards
      /\ past.charged = s.charged /\ past.denied = s.denied
  <2>1. s.lost + 1 \in 0..Resends /\ s.lost \in Nat
    BY <1>1, AdmissionAssumption, RequestTypes DEF History
  <2> QED
    BY <2>1, RequestTypes DEF History
<1>3. past.faulted = s.faulted
  BY RequestTypes DEF History
<1>4. Counted(q, q)
  BY <1>1, Uncounted, RequestTypes
<1>5. CASE q.stage \in DOMAIN LevelAt /\ Script(r, LevelAt[q.stage], TRUE, past) /\ UNCHANGED rep
  <2> DEFINE l == LevelAt[q.stage]
             ran == TRUE
             new == [past EXCEPT !.charged =
                       IF Spends(r, l, ran) THEN @ \cup {l} ELSE @]
  <2>1. l \in Levels
    BY <1>5 DEF LevelAt, Levels
  <2>2. /\ q.stage \in {"dry_global", "dry_tenant", "dry_endpoint", "global", "tenant",
                        "endpoint"}
        /\ q.stage = "global" => l = "global"
        /\ q.stage = "tenant" => l = "tenant"
    BY <1>5 DEF LevelAt
  <2>0. Script(r, l, ran, past) /\ ran \in BOOLEAN
    BY <1>5
  <2> HIDE DEF l, past, ran
  <2>3. KeysOK' /\ seen' = [seen EXCEPT ![r] = new]
    BY <1>2, <2>1, <2>0, ScriptKeys
  <2>4. /\ new \in History /\ new.lost = past.lost /\ new.forwards = past.forwards
        /\ new.denied = past.denied
        /\ new.charged \in {past.charged, past.charged \cup {l}}
    BY <1>2, <2>1 DEF History
  <2>5. new.faulted = past.faulted
    BY <1>2 DEF History
  <2> HIDE DEF new
  <2>6. Only(r) /\ seen'[r] = new /\ req'[r] = q /\ rep'[r] = rep[r]
    BY <1>1, <1>5, <2>3, <2>4, RequestTypes DEF Only
  <2>7. RequestOK(cfg, q, new, rep[r])
    <3>1. Configured(cfg, q, rep[r]) /\ Fate(q, new) /\ Denied(q, new)
      BY <1>2, <2>4, RequestTypes DEF RequestOK, Fate, Denied
    <3>2. Passed(cfg, q, new)
      BY <1>2, <1>3, <2>2, <2>4, <2>5, RequestTypes DEF RequestOK, Passed
    <3>3. NoTrace(q, new, rep[r]) /\ NoTraceOnce(cfg, q, new, rep[r])
      BY <1>2, <2>2, <2>4, RequestTypes DEF RequestOK, Fate, NoTrace, NoTraceOnce
    <3> QED
      BY <2>4, <3>1, <3>2, <3>3, RequestTypes DEF RequestOK
  <2> QED
    BY <1>4, <2>3, <2>6, <2>7, OneStep
<1>6. CASE /\ q.stage \in DOMAIN IsViolation /\ Rate(r, IsViolation[q.stage])
           /\ seen' = [seen EXCEPT ![r] = past] /\ UNCHANGED spent
  <2>1. q.stage \in {"tenant_bad", "endpoint_bad", "tenant_good", "endpoint_good"}
    BY <1>6 DEF IsViolation
  <2>2. /\ rep' \in [Requests -> Record]
        /\ \A o \in Requests \ {r} : rep'[o] = rep[o]
        /\ q.stage = "tenant_bad" => rep'[r].good = rep[r].good
    <3>1. CASE q.stage = "tenant_bad"
      <4>1. IsViolation[q.stage]
        BY <3>1 DEF IsViolation
      <4>2. Rate(r, TRUE)
        BY <1>6, <4>1 DEF Rate
      <4> QED
        BY <4>2, ReputationEffect
    <3>2. CASE q.stage = "endpoint_bad"
      <4>1. IsViolation[q.stage]
        BY <3>2 DEF IsViolation
      <4>2. Rate(r, TRUE)
        BY <1>6, <4>1 DEF Rate
      <4> QED
        BY <3>2, <4>2, ReputationEffect
    <3>3. CASE q.stage \in {"tenant_good", "endpoint_good"}
      <4>1. ~IsViolation[q.stage]
        BY <3>3 DEF IsViolation
      <4>2. Rate(r, FALSE)
        BY <1>6, <4>1 DEF Rate
      <4> QED
        BY <3>3, <4>2, ReputationEffect
    <3> QED
      BY <2>1, <3>1, <3>2, <3>3
  <2> HIDE DEF past
  <2>3. Only(r) /\ seen'[r] = past /\ req'[r] = q
    BY <1>1, <1>2, <1>6, <2>2, RequestTypes DEF Only
  <2>4. ~cfg.dryRun /\ rep'[r] \in Record
    BY <2>1, <2>2, RequestTypes DEF RequestOK, Configured
  <2>5. RequestOK(cfg, q, past, rep'[r])
    <3>1. Configured(cfg, q, rep'[r]) /\ Fate(q, past) /\ Denied(q, past)
      BY <1>2, <2>4, RequestTypes DEF RequestOK, Configured, Fate, Denied
    <3>2. Passed(cfg, q, past)
      BY <1>2, <1>3, RequestTypes DEF RequestOK, Passed
    <3>3. NoTrace(q, past, rep'[r]) /\ NoTraceOnce(cfg, q, past, rep'[r])
      BY <1>2, <2>1, <2>2, RequestTypes DEF RequestOK, Fate, NoTrace, NoTraceOnce
    <3> QED
      BY <1>2, <2>4, <3>1, <3>2, <3>3, RequestTypes DEF RequestOK
  <2>6. KeysOK'
    BY <1>6 DEF ChainInv, KeysOK
  <2> QED
    BY <1>4, <2>3, <2>5, <2>6, OneStep
<1> QED
  BY <1>5, <1>6 DEF AnswerLost

\* Units that come back concern no request.
LEMMA ReplenishStep ==
  ASSUME ChainInv, NEW k \in Keys, Replenish(k)
  PROVE  ChainInv'
<1>1. PICK left \in 0..Limit[k[1]] : left < spent[k] /\ spent' = [spent EXCEPT ![k] = left]
  BY DEF Replenish
<1>2. UNCHANGED <<cfg, req, rep, metrics, seen>>
  BY DEF Replenish
<1>3. PICK l \in Levels, t \in Tenants : k = KeyOf(l, t)
  BY DEF Keys
<1>4. left \in Nat
  BY <1>1
<1>5. /\ spent \in [Keys -> Nat]
      /\ \A u \in Tenants : \A j \in Levels : spent[KeyOf(j, u)] <= Limit[j] /\ Limit[j] \in Nat
  BY AdmissionAssumption DEF ChainInv, KeysOK
<1>6. KeysOK'
  <2>1. spent' \in [Keys -> Nat]
    BY <1>1, <1>4, <1>5
  <2>2. ASSUME NEW u \in Tenants, NEW j \in Levels
        PROVE  spent'[KeyOf(j, u)] <= Limit[j]
    <3>1. KeyOf(j, u) \in Keys
      BY DEF Keys
    <3>2. CASE KeyOf(j, u) = k
      <4>1. spent[k] <= Limit[j] /\ Limit[j] \in Nat /\ spent[k] \in Nat
        BY <1>5, <3>2
      <4>2. spent'[KeyOf(j, u)] = left
        BY <1>1, <1>5, <3>2
      <4> QED
        BY <1>1, <1>4, <4>1, <4>2
    <3>3. CASE KeyOf(j, u) # k
      BY <1>1, <1>5, <3>1, <3>3
    <3> QED
      BY <3>2, <3>3
  <2> QED
    BY <2>1, <2>2 DEF KeysOK
<1>7. RequestsOK' /\ CountersOK' /\ cfg' \in Configs
  BY <1>2 DEF ChainInv, RequestsOK, CountersOK, Tracked, Rejected, Open
<1> QED
  BY <1>6, <1>7 DEF ChainInv

-----------------------------------------------------------------------------
(* The theorems *)

\* The server starts with every request still to come.
THEOREM ChainInvInit == Init => ChainInv
<1> SUFFICES ASSUME Init
             PROVE  ChainInv
  OBVIOUS
<1> DEFINE blank == [charged |-> {}, denied |-> {}, lost |-> 0, faulted |-> {},
                     forwards |-> 0]
           nothing == [good |-> 0, violations |-> 0]
<1>1. /\ cfg \in Configs /\ req = [r \in Requests |-> Arriving]
      /\ spent = [k \in Keys |-> 0] /\ rep = [r \in Requests |-> nothing]
      /\ metrics = [m \in Counters |-> 0] /\ seen = [r \in Requests |-> blank]
  BY DEF Init
<1>2. Arriving \in Request
  BY DEF Arriving, Request, Stages
<1>3. blank \in History /\ nothing \in Record
  BY AdmissionAssumption DEF History, Record
<1>4. RequestOK(cfg, Arriving, blank, nothing)
  <2>1. Configured(cfg, Arriving, nothing) /\ Fate(Arriving, blank) /\ Denied(Arriving, blank)
    BY DEF Arriving, Configured, Fate, Denied, Undecided, Levels
  <2>2. Passed(cfg, Arriving, blank)
    BY DEF Arriving, Passed, Admitted
  <2>3. NoTrace(Arriving, blank, nothing) /\ NoTraceOnce(cfg, Arriving, blank, nothing)
    BY DEF Arriving, NoTrace, NoTraceOnce, Levels
  <2> QED
    BY <1>2, <1>3, <2>1, <2>2, <2>3 DEF RequestOK
<1> HIDE DEF blank, nothing
<1>5. RequestsOK
  BY <1>1, <1>2, <1>3, <1>4 DEF RequestsOK
<1>6. KeysOK
  <2>1. \A t \in Tenants : \A l \in Levels : spent[KeyOf(l, t)] = 0
    BY <1>1 DEF Keys
  <2> QED
    BY <1>1, <2>1, AdmissionAssumption DEF KeysOK
<1>7. Tracked = {} /\ Rejected = {} /\ Open = {}
  BY <1>1 DEF Tracked, Rejected, Open, Arriving, Undecided, Levels
<1>8. CountersOK
  BY <1>1, <1>7, FS_EmptySet DEF CountersOK, Counters
<1> QED
  BY <1>1, <1>5, <1>6, <1>8 DEF ChainInv

\* Every layer, the proxy, a resent script and a refill keep the invariant.
THEOREM ChainInvNext == ChainInv /\ [Next]_vars => ChainInv'
<1> SUFFICES ASSUME ChainInv, [Next]_vars
             PROVE  ChainInv'
  OBVIOUS
<1>1. ASSUME NEW r \in Requests, Bypassed(r) \/ Classified(r) \/ AnswerLost(r)
      PROVE  ChainInv'
  BY <1>1, BypassedStep, ClassifiedStep, AnswerLostStep
<1>2. ASSUME NEW r \in Requests, Serve(r)
      PROVE  ChainInv'
  <2>1. CASE DryCheck(r, "dry_global", "global", "dry_tenant")
    BY <2>1, DryCheckStep DEF Levels
  <2>2. CASE DryCheck(r, "dry_tenant", "tenant", "dry_endpoint")
    BY <2>2, DryCheckStep DEF Levels
  <2>3. CASE DryVerdict(r)
    BY <2>3, DryVerdictStep
  <2>4. CASE GlobalCheck(r) \/ ReadStanding(r)
    BY <2>4, GlobalCheckStep, ReadStandingStep
  <2>5. CASE TenantCheck(r) \/ TenantRejects(r) \/ TenantPasses(r)
    BY <2>5, TenantCheckStep, TenantRejectsStep, TenantPassesStep
  <2>6. CASE EndpointCheck(r) \/ EndpointRejects(r) \/ EndpointPasses(r)
    BY <2>6, EndpointCheckStep, EndpointRejectsStep, EndpointPassesStep
  <2>7. CASE Forward(r) \/ Respond(r) \/ Abort(r)
    BY <2>7, ForwardStep, RespondStep, AbortStep
  <2> QED
    BY <1>2, <2>1, <2>2, <2>3, <2>4, <2>5, <2>6, <2>7 DEF Serve
<1>3. ASSUME NEW k \in Keys, Replenish(k)
      PROVE  ChainInv'
  BY <1>3, ReplenishStep
<1>4. CASE UNCHANGED vars
  BY <1>4 DEF vars, ChainInv, RequestsOK, KeysOK, CountersOK, Tracked, Rejected, Open
<1> QED
  BY <1>1, <1>2, <1>3, <1>4 DEF Next

\* The invariant holds for as long as the server runs.
THEOREM ChainInvariance == Spec => []ChainInv
<1> QED
  BY ChainInvInit, ChainInvNext, PTL DEF Spec

\* Every variable keeps its type; no limiter key is spent past its limit and no
\* counter falls below zero.
THEOREM TypeCorrect == Spec => []TypeOK
<1>1. ChainInv => TypeOK
  <2> SUFFICES ASSUME ChainInv
               PROVE  TypeOK
    OBVIOUS
  <2>1. /\ IsFiniteSet(Tracked) /\ IsFiniteSet(Rejected) /\ IsFiniteSet(Open)
    BY AdmissionAssumption, FS_Subset DEF Tracked, Rejected, Open
  <2>2. /\ Cardinality(Tracked) \in Nat /\ Cardinality(Rejected) \in Nat
        /\ Cardinality(Open) \in Nat
    BY <2>1, FS_CardinalityType
  <2>3. metrics \in [Counters -> Int]
    BY DEF ChainInv, CountersOK
  <2>4. \A m \in Counters : metrics[m] \in Int
    BY <2>3
  <2>5. /\ metrics["inflight"] >= 0 /\ metrics["denied"] >= 0
        /\ metrics["allowed"] >= 0 /\ metrics["total"] >= 0
    BY <2>2, <2>4 DEF ChainInv, CountersOK, Counters
  <2>6. \A m \in Counters : metrics[m] \in Nat
    BY <2>4, <2>5 DEF Counters
  <2>7. metrics \in [Counters -> Nat]
    BY <2>3, <2>6
  <2> QED
    BY <2>7 DEF ChainInv, RequestsOK, KeysOK, TypeOK, History, Record
<1> QED
  BY <1>1, ChainInvariance, PTL

\* A request gets a 429 or the backend, never both, and the backend sees it
\* twice only after Recovery took over.
THEOREM OneFateEach == Spec => []OneFate
<1>1. ChainInv => OneFate
  <2> SUFFICES ASSUME ChainInv, NEW r \in Requests
               PROVE  /\ req[r].answer \in Levels => seen[r].forwards = 0
                      /\ req[r].stage = "done" /\ req[r].answer \notin Levels
                           => seen[r].forwards > 0
                      /\ seen[r].forwards > 1 => req[r].fallback
    BY DEF OneFate
  <2>1. req[r].stage \in Stages /\ seen[r].forwards \in 0..2 /\ Fate(req[r], seen[r])
    BY RequestTypes DEF RequestOK, Request, History
  <2> QED
    BY <2>1 DEF Fate, Levels, Stages
<1> QED
  BY <1>1, ChainInvariance, PTL

\* What is forwarded has been through every limit that is on and whose own check
\* did not fail, whatever failed before and whatever the other requests do.
THEOREM LimitsEnforced == Spec => []Enforced
<1>1. ChainInv => Enforced
  <2> SUFFICES ASSUME ChainInv, NEW r \in Requests,
                      seen[r].forwards > 0, ~req[r].bypass, ~cfg.dryRun
               PROVE  /\ "endpoint" \in seen[r].charged \cup seen[r].faulted
                      /\ cfg.tenant => "tenant" \in seen[r].charged \cup seen[r].faulted
                      /\ cfg.global =>
                           "global" \in seen[r].charged \cup seen[r].denied \cup seen[r].faulted
    BY DEF Enforced
  <2>1. /\ req[r].stage \in Stages /\ seen[r].forwards \in 0..2
        /\ Fate(req[r], seen[r]) /\ Passed(cfg, req[r], seen[r])
    BY RequestTypes DEF RequestOK, Request, History
  <2>2. req[r].stage \in {"proxy", "upstream", "done"} /\ Admitted(req[r])
    BY <2>1 DEF Fate, Admitted
  <2> QED
    BY <2>1, <2>2 DEF Passed
<1> QED
  BY <1>1, ChainInvariance, PTL

\* A 429 rests on a denial at its level, and on units of others unless a
\* script was run twice.
THEOREM NobodyRejectsItself == Spec => []NoSelfRejection
<1>1. ChainInv => NoSelfRejection
  BY RequestTypes DEF NoSelfRejection, RequestOK, Denied, NoTraceOnce
<1> QED
  BY <1>1, ChainInvariance, PTL

\* A rejection leaves nothing at the layers behind it.
THEOREM RejectionLeavesNoTrace == Spec => []RejectedLeavesNoTrace
<1>1. ChainInv => RejectedLeavesNoTrace
  <2> SUFFICES ASSUME ChainInv, NEW r \in Requests
               PROVE  /\ req[r].answer = "global" =>
                           seen[r].charged \subseteq {"global"}
                             /\ rep[r].good + rep[r].violations = 0
                      /\ req[r].answer = "tenant" =>
                           "endpoint" \notin seen[r].charged /\ rep[r].good = 0
                      /\ req[r].answer = "endpoint" /\ seen[r].lost = 0 =>
                           rep[r].good <= (IF cfg.tenant THEN 1 ELSE 0)
                             /\ rep[r].violations <= 1
    BY DEF RejectedLeavesNoTrace
  <2>1. NoTrace(req[r], seen[r], rep[r]) /\ NoTraceOnce(cfg, req[r], seen[r], rep[r])
    BY RequestTypes DEF RequestOK
  <2> QED
    BY <2>1 DEF NoTrace, NoTraceOnce
<1> QED
  BY <1>1, ChainInvariance, PTL

\* A dry run rejects nobody and writes no reputation.
THEOREM DryRunIsTransparent == Spec => []DryRunTransparent
<1>1. ChainInv => DryRunTransparent
  BY RequestTypes DEF DryRunTransparent, RequestOK, Configured
<1> QED
  BY <1>1, ChainInvariance, PTL

\* The gauge and the counters tell how many requests are under way, rejected
\* and, at most, allowed.
THEOREM MetricsAreBalanced == Spec => []MetricsBalance
<1>1. ChainInv => MetricsBalance
  <2> SUFFICES ASSUME ChainInv
               PROVE  MetricsBalance
    OBVIOUS
  <2>1. IsFiniteSet(Open)
    BY AdmissionAssumption, FS_Subset DEF Open
  <2>2. Cardinality(Open) \in Nat
    BY <2>1, FS_CardinalityType
  <2>3. CountersOK /\ \A m \in Counters : metrics[m] \in Int
    BY DEF ChainInv, CountersOK
  <2>4. metrics["allowed"] + metrics["denied"] <= metrics["total"]
    BY <2>2, <2>3 DEF CountersOK, Counters
  <2> QED
    BY <2>3, <2>4 DEF MetricsBalance, CountersOK, Tracked, Rejected
<1> QED
  BY <1>1, ChainInvariance, PTL
=============================================================================
