--------------------------- MODULE FailoverProofs ---------------------------
(* What is proved of Failover for every value of its constants. *)
EXTENDS Failover, FiniteSetTheorems, TLAPS

---------------------------------------------------------------------------
(* Type correctness. *)

\* What a request's own variables hold.
LEMMA HealthTypes ==
    ASSUME NEW h \in Health
    PROVE  /\ Fresh \in Health
           /\ Recovered(h) \in Health
           /\ Older(h) \in Health
           /\ \A c \in Class, ra \in Nat : Failed(h, c, ra) \in Health
<1>1. Fresh \in Health
  BY KeyHealthAssumption DEF Fresh, Health
<1>2. /\ h.cool \in Nat /\ h.fails \in 0 .. AuthThreshold /\ h.shut \in 0 .. HalfOpen
      /\ AuthThreshold \in Nat /\ HalfOpen \in Nat /\ CooldownFloor \in Nat
  BY KeyHealthAssumption DEF Health
<1>3. Older(h) \in Health
  <2>1. Before(h.cool) \in Nat /\ Before(h.shut) \in 0 .. HalfOpen
    BY <1>2 DEF Before
  <2>2. QED
    BY <2>1 DEF Older, Health
<1>4. ASSUME NEW c \in Class, NEW ra \in Nat
      PROVE  Failed(h, c, ra) \in Health
  <2>1. RateLimited(h, ra) \in Health
    <3>1. Max2(ra, CooldownFloor) \in Nat
      BY <1>2 DEF Max2
    <3>2. QED
      BY <3>1 DEF RateLimited, Health
  <2>2. AuthFailed(h) \in Health
    <3>1. CASE h.fails + 1 >= AuthThreshold
      <4>1. AuthThreshold \in 0 .. AuthThreshold /\ HalfOpen \in 0 .. HalfOpen
        BY <1>2
      <4>2. QED
        BY <3>1, <4>1 DEF AuthFailed, Health
    <3>2. CASE ~ (h.fails + 1 >= AuthThreshold)
      <4>1. h.fails + 1 \in 0 .. AuthThreshold
        BY <1>2, <3>2
      <4>2. QED
        BY <3>2, <4>1 DEF AuthFailed, Health
    <3>3. QED
      BY <3>1, <3>2
  <2>3. QED
    BY <2>1, <2>2 DEF Failed, Class
<1>5. QED
  BY <1>1, <1>3, <1>4 DEF Recovered

\* The initial state is typed.
LEMMA InitTypes == Init => TypeOK
  BY HealthTypes, FailoverAssumption, KeyHealthAssumption
  DEF Init, TypeOK, Attempt, NoAttempt, Starting, Location, Row, Holding, None, Fresh, Health

\* Planning changes the request's own variables only, and keeps their types.
LEMMA PlanTypes ==
    ASSUME TypeOK, NEW r \in Requests, NEW left \in Nat, PlanOrWait(r, left)
    PROVE  /\ pc' \in [Requests -> Location]
           /\ pc'[r] \in {"next", "cool", "done"}
           /\ \A q \in Requests : q # r => pc'[q] = pc[q]
           /\ plan' \in [Requests -> SUBSET Candidate]
           /\ elapsed' \in [Requests -> Nat]
           /\ timer' \in [Requests -> Nat]
           /\ slack' \in [Requests -> Nat]
           /\ row' \in [Requests -> Row \cup {None}]
<1> USE DEF TypeOK
<1>1. PICK order \in Orders, failover \in BOOLEAN :
        \/ StartPlan(r, BuildPlan(order, failover))
        \/ \E t \in RetryTimes(order) : t <= left /\ SleepUntilRetry(r, left, t)
        \/ Write(r, "NO_ROUTE")
  BY DEF PlanOrWait
<1>2. BuildPlan(order, failover) \subseteq Candidate
  BY FailoverAssumption DEF BuildPlan, UsableRoutes, Candidate
<1>3. CASE StartPlan(r, BuildPlan(order, failover))
  BY <1>2, <1>3 DEF StartPlan, Budgeted, Location
<1>4. CASE \E t \in RetryTimes(order) : t <= left /\ SleepUntilRetry(r, left, t)
  <2>1. RetryTimes(order) \subseteq Nat
    BY FailoverAssumption DEF RetryTimes, Health
  <2>2. PICK t \in Nat : t <= left /\ SleepUntilRetry(r, left, t)
    BY <1>4, <2>1
  <2>3. QED
    BY <2>2 DEF SleepUntilRetry, Location
<1>5. CASE Write(r, "NO_ROUTE")
  BY <1>5 DEF Write, Location, Row
<1>6. QED
  BY <1>1, <1>3, <1>4, <1>5

\* What a step of request r leaves alone in the others.
OthersKeep(r) ==
    /\ DOMAIN pc' = Requests /\ DOMAIN try' = Requests /\ DOMAIN row' = Requests
    /\ \A q \in Requests : q # r => pc'[q] = pc[q] /\ try'[q] = try[q] /\ row'[q] = row[q]

\* The permit of r goes back, or is kept for the same candidate.
GivesBack(r) == pc'[r] \notin Holding /\ Release(HostOf(try[r].cand))
KeepsPermit(r) ==
    /\ pc'[r] \in Holding
    /\ try'[r].cand = try[r].cand
    /\ UNCHANGED inFlight

\* How an attempt of r that is over leaves the request.
AttemptOver(r) ==
    /\ TypeOK'
    /\ OthersKeep(r)
    /\ GivesBack(r) \/ KeepsPermit(r)
    /\ pc'[r] \in {"next", "pause", "done"}
    /\ pc'[r] # "done" => row'[r] = row[r] /\ ~ try'[r].delivered

\* Giving a permit back leaves the counts typed.
LEMMA ReleaseType ==
    ASSUME inFlight \in [Providers -> Nat], NEW p, Release(p)
    PROVE  inFlight' \in [Providers -> Nat]
<1>1. CASE p \in Providers
  <2>1. Before(inFlight[p]) \in Nat
    BY <1>1 DEF Before
  <2>2. QED
    BY <1>1, <2>1 DEF Release
<1>2. CASE p \notin Providers
  BY <1>2 DEF Release
<1>3. QED
  BY <1>1, <1>2

\* A new attempt on a candidate is an attempt.
LEMMA StartingType ==
    ASSUME NEW c \in Candidate
    PROVE  Starting(c) \in Attempt /\ Starting(c).cand = c /\ ~ Starting(c).delivered
<1>1. 0 \in 0 .. Redials
  BY FailoverAssumption
<1>2. Starting(c) \in Attempt
  BY <1>1 DEF Starting, Attempt
<1>3. Starting(c).cand = c /\ ~ Starting(c).delivered
  BY DEF Starting
<1>4. QED
  BY <1>2, <1>3

\* A failed attempt that moves on, pauses, or ends the request keeps every type.
LEMMA MoveOnTypes ==
    ASSUME TypeOK, NEW r \in Requests, pc[r] \in Holding, MoveOn(r)
    PROVE  /\ pc' \in [Requests -> Location] /\ pc' = [pc EXCEPT ![r] = "next"]
           /\ inFlight' \in [Providers -> Nat]
           /\ timer' \in [Requests -> Nat]
           /\ elapsed' \in [Requests -> Nat] /\ slack' \in [Requests -> Nat]
           /\ row' = row
           /\ Release(HostOf(try[r].cand))
  BY ReleaseType DEF MoveOn, TypeOK, Location

\* A request that goes into a pause stays typed.
LEMMA PauseTypes ==
    ASSUME TypeOK, NEW r \in Requests, pc[r] \in Holding, NEW wait \in Nat, Pause(r, wait)
    PROVE  /\ pc' \in [Requests -> Location] /\ pc' = [pc EXCEPT ![r] = "pause"]
           /\ timer' \in [Requests -> Nat]
           /\ elapsed' \in [Requests -> Nat] /\ slack' \in [Requests -> Nat]
           /\ row' = row /\ inFlight' = inFlight /\ plan' = plan
  BY DEF Pause, TypeOK, Location

\* A request that ends stays typed.
LEMMA EndTypes ==
    ASSUME TypeOK, NEW r \in Requests, pc[r] \in Holding, NEW class \in Row, End(r, class)
    PROVE  /\ pc' \in [Requests -> Location] /\ pc' = [pc EXCEPT ![r] = "done"]
           /\ inFlight' \in [Providers -> Nat]
           /\ plan' \in [Requests -> SUBSET Candidate]
           /\ timer' \in [Requests -> Nat]
           /\ elapsed' \in [Requests -> Nat] /\ slack' \in [Requests -> Nat]
           /\ row' \in [Requests -> Row \cup {None}] /\ row' = [row EXCEPT ![r] = class]
           /\ Release(HostOf(try[r].cand))
<1>1. inFlight' \in [Providers -> Nat]
  BY ReleaseType DEF End, TypeOK
<1>2. QED
  BY <1>1 DEF End, Write, TypeOK, Location

\* The three ways on after an error that delivered nothing.
LEMMA AdvanceTypes ==
    ASSUME TypeOK, NEW r \in Requests, pc[r] \in Holding,
           NEW c \in Class, NEW ra \in Nat, Advance(r, c, ra)
    PROVE  /\ pc' \in [Requests -> Location]
           /\ inFlight' \in [Providers -> Nat]
           /\ plan' \in [Requests -> SUBSET Candidate]
           /\ timer' \in [Requests -> Nat]
           /\ elapsed' \in [Requests -> Nat] /\ slack' \in [Requests -> Nat]
           /\ row' = row
           /\ \/ pc' = [pc EXCEPT ![r] = "next"] /\ Release(HostOf(try[r].cand))
              \/ pc' = [pc EXCEPT ![r] = "pause"] /\ inFlight' = inFlight
<1>1. Backoff \in Nat /\ ServerWait(ra) \in Nat
  BY FailoverAssumption, KeyHealthAssumption DEF ServerWait, Max2
<1>2. CASE MoveOn(r) /\ plan' \in [Requests -> SUBSET Candidate]
  BY <1>2, MoveOnTypes
<1>3. CASE \E wait \in Nat : Pause(r, wait)
  BY <1>3, PauseTypes DEF TypeOK
<1>4. CASE c = "Network" /\ OtherHosts(r) # {}
  <2>1. PICK last \in plan[r] : plan' = [plan EXCEPT ![r] = Deferred(r, last.rank)]
    BY <1>4 DEF Advance, AfterNetworkError
  <2>2. Deferred(r, last.rank) \subseteq Candidate
    <3>1. plan[r] \subseteq Candidate
      BY DEF TypeOK
    <3>2. ASSUME NEW d \in plan[r] PROVE [d EXCEPT !.rank = @ + last.rank] \in Candidate
      <4>1. d \in Candidate /\ last \in Candidate
        BY <3>1
      <4>2. d.rank + last.rank \in Nat
        BY <4>1 DEF Candidate
      <4>3. QED
        BY <4>1, <4>2 DEF Candidate
    <3>3. QED
      BY <3>1, <3>2 DEF Deferred, OtherHosts, SameHost
  <2>3. MoveOn(r)
    BY <1>4 DEF Advance, AfterNetworkError
  <2>4. QED
    BY <1>2, <2>1, <2>2, <2>3 DEF TypeOK
<1>5. CASE ~ (c = "Network" /\ OtherHosts(r) # {})
  <2>1. \/ MoveOn(r) /\ UNCHANGED plan
        \/ Pause(r, Backoff)
        \/ Pause(r, ServerWait(ra))
    <3>1. CASE c = "ServerError"
      BY <3>1 DEF Advance, AfterServerError
    <3>2. CASE c = "Network"
      BY <1>5, <3>2 DEF Advance, AfterNetworkError
    <3>3. CASE c # "ServerError" /\ c # "Network"
      BY <3>3 DEF Advance
    <3>4. QED
      BY <3>1, <3>2, <3>3
  <2>2. CASE MoveOn(r) /\ UNCHANGED plan
    BY <1>2, <2>2 DEF TypeOK
  <2>3. QED
    BY <1>1, <1>3, <2>1, <2>2
<1>6. QED
  BY <1>4, <1>5

\* A failed attempt keeps the types, and with them either its permit or the account of it.
LEMMA AttemptFailsOver ==
    ASSUME TypeOK, NEW r \in Requests, pc[r] \in Holding,
           NEW c \in Class, NEW ra \in Nat, AttemptFails(r, c, ra)
    PROVE  /\ AttemptOver(r)
           /\ try[r].delivered => pc'[r] = "done" /\ try' = try /\ row'[r] = "NETWORK"
           /\ ~ try[r].delivered =>
                 /\ ~ try'[r].delivered
                 /\ pc'[r] = "done" => row'[r] = "CANCELLED"
<1>1. try[r].cand \in Candidate /\ KeyOf(r) \in Keys
  <2>1. try[r].cand \in Candidate
    BY DEF TypeOK, Tried, Attempt
  <2>2. QED
    BY <2>1 DEF KeyOf, Candidate
<1>2. CASE try[r].delivered
  <2>1. End(r, "NETWORK") /\ UNCHANGED <<health, try, cap, cancelled>>
    BY <1>2 DEF AttemptFails, Emitted
  <2>2. "NETWORK" \in Row
    BY DEF Row
  <2>3. /\ pc' = [pc EXCEPT ![r] = "done"] /\ row' = [row EXCEPT ![r] = "NETWORK"]
        /\ Release(HostOf(try[r].cand))
    BY <2>1, <2>2, EndTypes
  <2>4. TypeOK'
    <3>1. /\ pc' \in [Requests -> Location]
          /\ inFlight' \in [Providers -> Nat]
          /\ plan' \in [Requests -> SUBSET Candidate]
          /\ timer' \in [Requests -> Nat]
          /\ elapsed' \in [Requests -> Nat] /\ slack' \in [Requests -> Nat]
          /\ row' \in [Requests -> Row \cup {None}]
      BY <2>1, <2>2, EndTypes
    <3>2. \A q \in Requests : pc'[q] \in Holding => Tried(q)'
      BY <2>1, <2>3 DEF TypeOK, Tried, Holding
    <3>3. QED
      BY <2>1, <3>1, <3>2 DEF TypeOK
  <2>5. OthersKeep(r) /\ GivesBack(r)
    BY <2>1, <2>3 DEF OthersKeep, GivesBack, Holding, TypeOK
  <2>6. pc'[r] = "done" /\ row'[r] = "NETWORK"
    BY <2>3 DEF TypeOK
  <2>7. QED
    BY <1>2, <2>1, <2>4, <2>5, <2>6 DEF AttemptOver
<1>3. CASE ~ try[r].delivered
  <2>1. /\ Record(r, Failed(health[KeyOf(r)], c, ra))
        /\ try' = [try EXCEPT ![r] = [Starting(@.cand) EXCEPT !.lost = (c = "Network")]]
        /\ End(r, "CANCELLED") \/ Advance(r, c, ra)
        /\ UNCHANGED <<cap, cancelled>>
    BY <1>3 DEF AttemptFails, Emitted
  <2>2. health' \in [Keys -> Health]
    BY <1>1, <2>1, HealthTypes DEF Record, TypeOK
  <2>3. /\ try' \in [Requests -> Attempt]
        /\ try'[r].cand = try[r].cand /\ ~ try'[r].delivered
        /\ \A q \in Requests : q # r => try'[q] = try[q]
    <3>1. [Starting(try[r].cand) EXCEPT !.lost = (c = "Network")] \in Attempt
      <4>1. Starting(try[r].cand) \in Attempt /\ (c = "Network") \in BOOLEAN
        BY <1>1, StartingType
      <4>2. QED
        BY <4>1 DEF Attempt
    <3>2. /\ [Starting(try[r].cand) EXCEPT !.lost = (c = "Network")].cand = try[r].cand
          /\ ~ [Starting(try[r].cand) EXCEPT !.lost = (c = "Network")].delivered
      BY DEF Starting
    <3>3. QED
      BY <2>1, <3>1, <3>2 DEF TypeOK
  <2>4. /\ pc' \in [Requests -> Location]
        /\ inFlight' \in [Providers -> Nat]
        /\ plan' \in [Requests -> SUBSET Candidate]
        /\ timer' \in [Requests -> Nat]
        /\ elapsed' \in [Requests -> Nat] /\ slack' \in [Requests -> Nat]
        /\ row' \in [Requests -> Row \cup {None}]
        /\ \/ /\ pc' = [pc EXCEPT ![r] = "done"] /\ row' = [row EXCEPT ![r] = "CANCELLED"]
              /\ Release(HostOf(try[r].cand))
           \/ /\ row' = row
              /\ \/ pc' = [pc EXCEPT ![r] = "next"] /\ Release(HostOf(try[r].cand))
                 \/ pc' = [pc EXCEPT ![r] = "pause"] /\ inFlight' = inFlight
    <3>1. CASE End(r, "CANCELLED")
      <4>1. "CANCELLED" \in Row
        BY DEF Row
      <4>2. QED
        BY <3>1, <4>1, EndTypes
    <3>2. CASE Advance(r, c, ra)
      <4>1. row \in [Requests -> Row \cup {None}]
        BY DEF TypeOK
      <4>2. QED
        BY <3>2, <4>1, AdvanceTypes
    <3>3. QED
      BY <2>1, <3>1, <3>2
  <2>5. /\ pc'[r] \in {"next", "pause", "done"}
        /\ \A q \in Requests : q # r => pc'[q] = pc[q] /\ row'[q] = row[q]
        /\ pc'[r] = "done" => row'[r] = "CANCELLED"
        /\ pc'[r] # "done" => row'[r] = row[r]
    BY <2>4 DEF TypeOK
  <2>6. \A q \in Requests : pc'[q] \in Holding => Tried(q)'
    BY <1>1, <2>3, <2>5 DEF TypeOK, Tried
  <2>7. TypeOK'
    BY <2>1, <2>2, <2>3, <2>4, <2>6 DEF TypeOK
  <2>8. GivesBack(r) \/ KeepsPermit(r)
    BY <2>3, <2>4 DEF GivesBack, KeepsPermit, Holding, TypeOK
  <2>9. OthersKeep(r)
    BY <2>3, <2>4, <2>5 DEF OthersKeep
  <2>10. QED
    BY <1>3, <2>3, <2>5, <2>7, <2>8, <2>9 DEF AttemptOver
<1>4. QED
  BY <1>2, <1>3

\* So does an attempt whose stream ended cleanly.
LEMMA ServedOver ==
    ASSUME TypeOK, NEW r \in Requests, pc[r] \in Holding, Served(r)
    PROVE  /\ AttemptOver(r)
           /\ pc'[r] = "done"
           /\ try'[r].delivered = try[r].delivered
           /\ try'[r].cand = try[r].cand
           /\ IF try[r].delivered THEN row'[r] = "ok"
              ELSE row'[r] \in {"CANCELLED", "NO_OUTPUT", "PARSE_ERROR"}
<1>1. try[r].cand \in Candidate /\ KeyOf(r) \in Keys /\ try[r].delivered \in BOOLEAN
  <2>1. try[r].cand \in Candidate
    BY DEF TypeOK, Tried, Attempt
  <2>2. QED
    BY <2>1 DEF KeyOf, Candidate, TypeOK, Attempt
<1>2. PICK class \in IF try[r].delivered THEN {"ok"} ELSE DrainedRow(r) : End(r, class)
  BY DEF Served
<1>3. /\ class \in Row
      /\ IF try[r].delivered THEN class = "ok"
         ELSE class \in {"CANCELLED", "NO_OUTPUT", "PARSE_ERROR"}
  BY <1>2 DEF DrainedRow, Row
<1>4. health' \in [Keys -> Health]
  BY <1>1, HealthTypes DEF Served, Record, TypeOK
<1>5. /\ try' \in [Requests -> Attempt]
      /\ try'[r].cand = try[r].cand /\ try'[r].delivered = try[r].delivered
      /\ \A q \in Requests : q # r => try'[q] = try[q]
  <2> DEFINE rest == [Starting(try[r].cand) EXCEPT !.delivered = try[r].delivered]
  <2>1. rest \in Attempt
    BY <1>1, StartingType DEF Attempt
  <2>2. rest.cand = try[r].cand /\ rest.delivered = try[r].delivered
    BY DEF Starting
  <2>3. try' = [try EXCEPT ![r] = rest]
    BY DEF Served
  <2> HIDE DEF rest
  <2>4. QED
    BY <2>1, <2>2, <2>3 DEF TypeOK
<1>6. /\ pc' \in [Requests -> Location]
      /\ inFlight' \in [Providers -> Nat]
      /\ plan' \in [Requests -> SUBSET Candidate]
      /\ timer' \in [Requests -> Nat]
      /\ elapsed' \in [Requests -> Nat] /\ slack' \in [Requests -> Nat]
      /\ row' \in [Requests -> Row \cup {None}]
      /\ pc' = [pc EXCEPT ![r] = "done"] /\ row' = [row EXCEPT ![r] = class]
      /\ Release(HostOf(try[r].cand))
  BY <1>2, <1>3, EndTypes
<1>7. /\ pc'[r] = "done" /\ row'[r] = class
      /\ \A q \in Requests : q # r => pc'[q] = pc[q] /\ row'[q] = row[q]
  BY <1>6 DEF TypeOK
<1>8. TypeOK'
  <2>1. \A q \in Requests : pc'[q] \in Holding => Tried(q)'
    BY <1>5, <1>7 DEF TypeOK, Tried, Holding
  <2>2. QED
    BY <1>4, <1>5, <1>6, <2>1 DEF TypeOK, Served
<1>9. OthersKeep(r) /\ GivesBack(r)
  BY <1>5, <1>6, <1>7 DEF OthersKeep, GivesBack, Holding
<1>10. QED
  BY <1>3, <1>5, <1>7, <1>8, <1>9 DEF AttemptOver

---------------------------------------------------------------------------
(* What one step of a request does to the permits, whatever else it does.  *)

TakesPermit(r) ==
    /\ pc[r] \notin Holding /\ pc'[r] \in Holding
    /\ HostOf(try'[r].cand) \in Providers
    /\ Acquire(HostOf(try'[r].cand))

StepOK(r) ==
    /\ TypeOK'
    /\ OthersKeep(r)
    /\ \/ pc[r] \in Holding /\ (GivesBack(r) \/ KeepsPermit(r))
       \/ TakesPermit(r)
       \/ pc[r] \notin Holding /\ pc'[r] \notin Holding /\ UNCHANGED inFlight

\* Steps that plan or wait.
LEMMA PlanSteps ==
    ASSUME TypeOK, NEW r \in Requests, Begin(r) \/ WakeUp(r)
    PROVE  StepOK(r)
<1>1. PICK left \in Nat : PlanOrWait(r, left)
  BY FailoverAssumption DEF Begin, WakeUp, TypeOK
<1>2. UNCHANGED <<health, inFlight, try, cancelled>> /\ cap' \in Caps /\ pc[r] \in {"idle", "cool"}
  BY DEF Begin, WakeUp, TypeOK, shared
<1>3. /\ \A q \in Requests : q # r => row'[q] = row[q]
  BY <1>1 DEF PlanOrWait, StartPlan, SleepUntilRetry, Write, TypeOK
<1>4. TypeOK'
  BY <1>1, <1>2, PlanTypes DEF TypeOK, Tried, Holding
<1>5. QED
  BY <1>1, <1>2, <1>3, <1>4, PlanTypes DEF StepOK, OthersKeep, Holding, TypeOK

\* Steps of the candidate loop that start no attempt.
LEMMA LoopSteps ==
    ASSUME TypeOK, NEW r \in Requests,
           StopCancelled(r) \/ SkipSaturated(r) \/ OverBudget(r) \/ Exhausted(r)
    PROVE  StepOK(r)
<1>1. CASE SkipSaturated(r)
  <2>1. PICK c \in plan[r] : Pop(r, c)
    BY <1>1 DEF SkipSaturated
  <2>2. plan' \in [Requests -> SUBSET Candidate]
    BY <2>1 DEF Pop, TypeOK
  <2>3. UNCHANGED <<shared, pc, try, elapsed, timer, slack, cancelled, row>> /\ pc[r] = "next"
    BY <1>1 DEF SkipSaturated
  <2>4. TypeOK'
    BY <2>2, <2>3 DEF TypeOK, shared, Tried
  <2>5. QED
    BY <2>3, <2>4 DEF StepOK, OthersKeep, Holding, TypeOK, shared
<1>2. CASE StopCancelled(r) \/ OverBudget(r) \/ Exhausted(r)
  <2>1. PICK class \in {"CANCELLED", "SPENT"} : Write(r, class)
    BY <1>2 DEF StopCancelled, OverBudget, Exhausted
  <2>2. UNCHANGED <<shared, try, cancelled>> /\ pc[r] = "next"
    BY <1>2 DEF StopCancelled, OverBudget, Exhausted
  <2>3. /\ pc' = [pc EXCEPT ![r] = "done"] /\ pc' \in [Requests -> Location]
        /\ row' = [row EXCEPT ![r] = class] /\ row' \in [Requests -> Row \cup {None}]
        /\ plan' \in [Requests -> SUBSET Candidate]
        /\ elapsed' \in [Requests -> Nat] /\ timer' \in [Requests -> Nat]
        /\ slack' \in [Requests -> Nat]
    BY <2>1 DEF Write, TypeOK, Location, Row
  <2>4. TypeOK'
    BY <2>2, <2>3 DEF TypeOK, shared, Tried, Holding
  <2>5. QED
    BY <2>2, <2>3, <2>4 DEF StepOK, OthersKeep, Holding, TypeOK, shared
<1>3. QED
  BY <1>1, <1>2

\* The head of the loop keeps the types, and takes the permit that an attempt holds.
LEMMA StartSteps ==
    ASSUME TypeOK, NEW r \in Requests, StartAttempt(r)
    PROVE  StepOK(r) /\ ~ try'[r].delivered /\ row'[r] = row[r]
<1>1. PICK c \in plan[r] : Pop(r, c) /\ Acquire(HostOf(c)) /\ Enter(r, c)
  BY DEF StartAttempt
<1>2. c \in Candidate /\ HostOf(c) \in Providers
  BY FailoverAssumption DEF TypeOK, Candidate, HostOf
<1>3. plan' \in [Requests -> SUBSET Candidate]
  BY <1>1 DEF Pop, TypeOK
<1>4. /\ try' \in [Requests -> Attempt]
      /\ try'[r].cand = c /\ ~ try'[r].delivered
      /\ \A q \in Requests : q # r => try'[q] = try[q]
  BY <1>1, <1>2, StartingType DEF Enter, TypeOK
<1>5. inFlight' \in [Providers -> Nat]
  BY <1>1, <1>2 DEF Acquire, TypeOK
<1>6. /\ pc[r] = "next"
      /\ pc' = [pc EXCEPT ![r] = "adapter"]
      /\ UNCHANGED <<health, cap, elapsed, timer, slack, cancelled, row>>
  BY DEF StartAttempt
<1>7. /\ pc' \in [Requests -> Location] /\ pc'[r] = "adapter"
      /\ \A q \in Requests : q # r => pc'[q] = pc[q]
  BY <1>6 DEF TypeOK, Location
<1>8. c # NoCandidate
  BY <1>2, NoCandidateAssumption
<1>9. \A q \in Requests : pc'[q] \in Holding => Tried(q)'
  BY <1>4, <1>7, <1>8 DEF TypeOK, Tried
<1>10. TypeOK'
  BY <1>3, <1>4, <1>5, <1>6, <1>7, <1>9 DEF TypeOK
<1>11. QED
  BY <1>1, <1>2, <1>4, <1>6, <1>7, <1>10
  DEF StepOK, OthersKeep, TakesPermit, Holding, TypeOK

\* Steps that end an attempt.
LEMMA EndSteps ==
    ASSUME TypeOK, NEW r \in Requests,
           \/ Refused(r) \/ HeaderTimesOut(r) \/ FirstByteTimesOut(r)
           \/ StreamBreaks(r) \/ OutputTimesOut(r) \/ StreamEnds(r) \/ CancelCuts(r)
    PROVE  StepOK(r)
<1>1. pc[r] \in Holding
  BY DEF Refused, HeaderTimesOut, HeadersOverdue, FirstByteTimesOut, FirstByteOverdue,
         StreamBreaks, OutputTimesOut, OutputOverdue, StreamEnds, CancelCuts, Holding
<1>2. AttemptOver(r)
  <2>1. CASE \E c \in Class, ra \in Nat : AttemptFails(r, c, ra)
    BY <1>1, <2>1, AttemptFailsOver
  <2>2. CASE Served(r)
    BY <1>1, <2>2, ServedOver
  <2>3. QED
    BY <2>1, <2>2, KeyHealthAssumption
    DEF Refused, HeaderTimesOut, FirstByteTimesOut, StreamBreaks, OutputTimesOut, StreamEnds, CancelCuts,
    Class
<1>3. QED
  BY <1>1, <1>2 DEF AttemptOver, StepOK

\* So do the steps of an adapter that is built, or fails to be.
LEMMA AdapterSteps ==
    ASSUME TypeOK, NEW r \in Requests, AdapterReady(r) \/ AdapterFails(r)
    PROVE  /\ StepOK(r)
           /\ try' = try
           /\ pc'[r] \in {"dial", "unary", "next", "done"}
           /\ row'[r] = IF pc'[r] = "done" THEN "CANCELLED" ELSE row[r]
<1>1. pc[r] = "adapter" /\ pc[r] \in Holding
  BY DEF AdapterReady, AdapterFails, Holding
<1>2. CASE AdapterReady(r)
  <2>1. /\ pc' = [pc EXCEPT ![r] = "dial"] \/ pc' = [pc EXCEPT ![r] = "unary"]
        /\ UNCHANGED <<health, cap, inFlight, plan, try, elapsed, timer, slack, cancelled, row>>
    BY <1>2 DEF AdapterReady, shared
  <2>2. TypeOK'
    BY <1>1, <2>1 DEF TypeOK, Location, Tried, Holding
  <2>3. QED
    BY <1>1, <2>1, <2>2 DEF StepOK, KeepsPermit, OthersKeep, Holding, TypeOK
<1>3. CASE AdapterFails(r)
  <2>1. KeyOf(r) \in Keys
    BY <1>1 DEF TypeOK, Tried, Attempt, KeyOf, Candidate
  <2>2. health' \in [Keys -> Health] /\ UNCHANGED <<cap, try, cancelled>>
    BY <1>3, <2>1, HealthTypes DEF AdapterFails, Record, TypeOK, Class
  <2>3. /\ pc' \in [Requests -> Location]
        /\ inFlight' \in [Providers -> Nat]
        /\ plan' \in [Requests -> SUBSET Candidate]
        /\ timer' \in [Requests -> Nat]
        /\ elapsed' \in [Requests -> Nat] /\ slack' \in [Requests -> Nat]
        /\ row' \in [Requests -> Row \cup {None}]
        /\ \/ /\ pc' = [pc EXCEPT ![r] = "done"] /\ row' = [row EXCEPT ![r] = "CANCELLED"]
              /\ Release(HostOf(try[r].cand))
           \/ /\ row' = row
              /\ pc' = [pc EXCEPT ![r] = "next"] /\ Release(HostOf(try[r].cand))
    <3>1. CASE End(r, "CANCELLED")
      <4>1. "CANCELLED" \in Row
        BY DEF Row
      <4>2. QED
        BY <1>1, <3>1, <4>1, EndTypes
    <3>2. CASE MoveOn(r) /\ UNCHANGED plan
      <4>1. row \in [Requests -> Row \cup {None}] /\ plan \in [Requests -> SUBSET Candidate]
        BY DEF TypeOK
      <4>2. QED
        BY <1>1, <3>2, <4>1, MoveOnTypes
    <3>3. QED
      BY <1>3, <3>1, <3>2 DEF AdapterFails
  <2>4. /\ \A q \in Requests : q # r => pc'[q] = pc[q] /\ row'[q] = row[q]
        /\ pc'[r] \in {"next", "done"}
        /\ row'[r] = IF pc'[r] = "done" THEN "CANCELLED" ELSE row[r]
    BY <2>3 DEF TypeOK
  <2>5. TypeOK'
    <3>1. \A q \in Requests : pc'[q] \in Holding => Tried(q)'
      BY <2>2, <2>4 DEF TypeOK, Tried, Holding
    <3>2. QED
      BY <2>2, <2>3, <3>1 DEF TypeOK
  <2>6. QED
    BY <1>1, <2>2, <2>3, <2>4, <2>5 DEF StepOK, GivesBack, OthersKeep, Holding, TypeOK
<1>4. QED
  BY <1>2, <1>3

\* Steps of the upstream that leave the attempt running.
LEMMA StreamSteps ==
    ASSUME TypeOK, NEW r \in Requests,
           Redial(r) \/ Headers(r) \/ FirstByte(r) \/ Reasoning(r) \/ Output(r)
    PROVE  /\ StepOK(r)
           /\ try'[r].cand = try[r].cand
           /\ pc'[r] \in {"dial", "stream"}
           /\ row' = row
           /\ \/ try'[r].delivered = try[r].delivered
              \/ try'[r].delivered /\ pc[r] = "stream" /\ pc'[r] = "stream"
<1>1. /\ pc[r] \in {"dial", "stream"} /\ pc[r] \in Holding
      /\ UNCHANGED <<health, cap, inFlight, plan, elapsed, timer, slack, cancelled, row>>
  BY DEF Redial, Headers, FirstByte, Reasoning, Output, Holding, shared
<1>2. try[r] \in Attempt
  BY DEF TypeOK
<1>3. CASE Headers(r)
  <2>1. pc' = [pc EXCEPT ![r] = "stream"] /\ try' = try
    BY <1>3 DEF Headers
  <2>2. TypeOK'
    BY <1>1, <2>1 DEF TypeOK, Location, Tried, Holding
  <2>3. QED
    BY <1>1, <2>1, <2>2 DEF StepOK, KeepsPermit, OthersKeep, Holding, TypeOK
<1>4. CASE ~ Headers(r)
  <2>1. PICK a \in Attempt :
          /\ try' = [try EXCEPT ![r] = a]
          /\ a.cand = try[r].cand
          /\ a.delivered = try[r].delivered \/ (a.delivered /\ pc[r] = "stream")
    <3>1. CASE Redial(r)
      <4> DEFINE a == [try[r] EXCEPT !.redials = @ + 1, !.sent = 0]
      <4>1. try[r].redials + 1 \in 0 .. Redials
        BY <1>2, <3>1, FailoverAssumption DEF Redial, Attempt
      <4>2. a \in Attempt
        BY <1>2, <4>1 DEF Attempt
      <4>3. a.cand = try[r].cand /\ a.delivered = try[r].delivered
        BY <1>2 DEF Attempt
      <4>4. try' = [try EXCEPT ![r] = a]
        BY <3>1 DEF Redial
      <4>5. QED
        BY <4>2, <4>3, <4>4
    <3>2. CASE FirstByte(r)
      <4> DEFINE a == [try[r] EXCEPT !.byte = TRUE, !.sent = 0]
      <4>1. a \in Attempt /\ a.cand = try[r].cand /\ a.delivered = try[r].delivered
        BY <1>2 DEF Attempt
      <4>2. try' = [try EXCEPT ![r] = a]
        BY <3>2 DEF FirstByte
      <4>3. QED
        BY <4>1, <4>2
    <3>3. CASE Reasoning(r)
      <4> DEFINE a == [try[r] EXCEPT !.flowed = TRUE, !.silent = 0]
      <4>1. a \in Attempt /\ a.cand = try[r].cand /\ a.delivered = try[r].delivered
        BY <1>2 DEF Attempt
      <4>2. try' = [try EXCEPT ![r] = a]
        BY <3>3 DEF Reasoning
      <4>3. QED
        BY <4>1, <4>2
    <3>4. CASE Output(r)
      <4> DEFINE a == [try[r] EXCEPT !.flowed = TRUE, !.silent = 0, !.delivered = TRUE]
      <4>1. a \in Attempt /\ a.cand = try[r].cand /\ a.delivered
        BY <1>2 DEF Attempt
      <4>2. try' = [try EXCEPT ![r] = a] /\ pc[r] = "stream"
        BY <3>4 DEF Output
      <4>3. QED
        BY <4>1, <4>2
    <3>5. QED
      BY <1>4, <3>1, <3>2, <3>3, <3>4
  <2>2. pc' = pc
    BY <1>4 DEF Redial, FirstByte, Reasoning, Output
  <2>3. /\ try' \in [Requests -> Attempt]
        /\ try'[r] = a
        /\ \A q \in Requests : q # r => try'[q] = try[q]
    BY <2>1 DEF TypeOK
  <2>4. \A q \in Requests : pc'[q] \in Holding => Tried(q)'
    BY <2>1, <2>2, <2>3 DEF TypeOK, Tried
  <2>5. TypeOK'
    BY <1>1, <2>2, <2>3, <2>4 DEF TypeOK
  <2>6. QED
    BY <1>1, <2>1, <2>2, <2>3, <2>5 DEF StepOK, KeepsPermit, OthersKeep, TypeOK
<1>5. QED
  BY <1>3, <1>4

\* Steps of an upstream whose answer is read whole.
LEMMA WholeSteps ==
    ASSUME TypeOK, NEW r \in Requests, ErrorStatus(r) \/ UnaryAnswers(r)
    PROVE  /\ StepOK(r)
           /\ try'[r].cand = try[r].cand
           /\ try'[r].delivered = try[r].delivered
           /\ pc[r] \in {"dial", "unary"} /\ pc'[r] \in {"refusal", "stream"}
           /\ row' = row
<1>1. /\ pc[r] \in {"dial", "unary"} /\ pc[r] \in Holding
      /\ UNCHANGED <<health, cap, inFlight, plan, elapsed, timer, slack, cancelled, row>>
  BY DEF ErrorStatus, UnaryAnswers, Holding, shared
<1>2. CASE ErrorStatus(r)
  <2>1. pc' = [pc EXCEPT ![r] = "refusal"] /\ try' = try
    BY <1>2 DEF ErrorStatus
  <2>2. TypeOK'
    BY <1>1, <2>1 DEF TypeOK, Location, Tried, Holding
  <2>3. QED
    BY <1>1, <2>1, <2>2 DEF StepOK, KeepsPermit, OthersKeep, Holding, TypeOK
<1>3. CASE UnaryAnswers(r)
  <2> DEFINE a == [try[r] EXCEPT !.byte = TRUE]
  <2>1. a \in Attempt /\ a.cand = try[r].cand /\ a.delivered = try[r].delivered
    BY DEF TypeOK, Attempt
  <2>2. try' = [try EXCEPT ![r] = a] /\ pc' = [pc EXCEPT ![r] = "stream"]
    BY <1>3 DEF UnaryAnswers
  <2> HIDE DEF a
  <2>3. /\ try' \in [Requests -> Attempt]
        /\ try'[r] = a
        /\ \A q \in Requests : q # r => try'[q] = try[q]
    BY <2>1, <2>2 DEF TypeOK
  <2>4. \A q \in Requests : pc'[q] \in Holding => Tried(q)'
    BY <1>1, <2>1, <2>2, <2>3 DEF TypeOK, Tried
  <2>5. pc' \in [Requests -> Location]
    BY <2>2 DEF TypeOK, Location
  <2>6. TypeOK'
    BY <1>1, <2>3, <2>4, <2>5 DEF TypeOK
  <2>7. QED
    BY <1>1, <2>1, <2>2, <2>3, <2>6 DEF StepOK, KeepsPermit, OthersKeep, Holding, TypeOK
<1>4. QED
  BY <1>2, <1>3

\* A pause that ends gives its permit back.
LEMMA PauseSteps ==
    ASSUME TypeOK, NEW r \in Requests, PauseEnds(r)
    PROVE  StepOK(r) /\ try' = try /\ row' = row /\ pc'[r] = "next" /\ pc[r] = "pause"
<1>1. pc[r] = "pause" /\ pc[r] \in Holding /\ MoveOn(r)
  BY DEF PauseEnds, Holding
<1>2. [try[r].cand EXCEPT !.round = @ + 1] \in Candidate
  <2>1. try[r].cand \in Candidate
    BY <1>1 DEF TypeOK, Tried, Attempt
  <2>2. QED
    BY <2>1 DEF Candidate
<1>3. plan' \in [Requests -> SUBSET Candidate]
  BY <1>2 DEF PauseEnds, TypeOK
<1>4. /\ pc' \in [Requests -> Location] /\ pc' = [pc EXCEPT ![r] = "next"]
      /\ inFlight' \in [Providers -> Nat]
      /\ timer' \in [Requests -> Nat]
      /\ elapsed' \in [Requests -> Nat] /\ slack' \in [Requests -> Nat]
      /\ row' = row
      /\ Release(HostOf(try[r].cand))
  BY <1>1, MoveOnTypes
<1>5. UNCHANGED <<health, cap, try, cancelled>>
  BY DEF PauseEnds
<1>6. TypeOK'
  BY <1>3, <1>4, <1>5 DEF TypeOK, Tried, Holding
<1>7. QED
  BY <1>1, <1>4, <1>5, <1>6 DEF StepOK, GivesBack, OthersKeep, Holding, TypeOK

\* What the caller does to a slot touches no permit.
LEMMA SlotSteps ==
    ASSUME TypeOK, NEW r \in Requests, Cancel(r) \/ Retire(r)
    PROVE  StepOK(r)
<1>1. CASE Cancel(r)
  <2>1. UNCHANGED <<health, cap, inFlight, pc, plan, try, elapsed, timer, slack, row>>
    BY <1>1 DEF Cancel, shared
  <2>2. cancelled' \in [Requests -> BOOLEAN]
    BY <1>1 DEF Cancel, TypeOK
  <2>3. TypeOK'
    BY <2>1, <2>2 DEF TypeOK, Tried
  <2>4. QED
    BY <2>1, <2>3 DEF StepOK, KeepsPermit, OthersKeep, TypeOK
<1>2. CASE Retire(r)
  <2>1. NoAttempt \in Attempt
    <3>1. 0 \in 0 .. Redials
      BY FailoverAssumption
    <3>2. QED
      BY <3>1 DEF NoAttempt, Starting, Attempt
  <2>2. /\ pc[r] = "done" /\ pc' = [pc EXCEPT ![r] = "idle"]
        /\ try' = [try EXCEPT ![r] = NoAttempt]
        /\ row' = [row EXCEPT ![r] = None]
        /\ UNCHANGED <<health, cap, inFlight, plan, elapsed, timer, slack>>
    BY <1>2 DEF Retire, shared
  <2>3. cancelled' \in [Requests -> BOOLEAN]
    BY <1>2 DEF Retire, TypeOK
  <2>4. TypeOK'
    BY <2>1, <2>2, <2>3 DEF TypeOK, Location, Tried, Holding
  <2>5. QED
    BY <2>2, <2>4 DEF StepOK, OthersKeep, Holding, TypeOK
<1>3. QED
  BY <1>1, <1>2

\* Time keeps the types.
LEMMA TickTypes ==
    ASSUME TypeOK, Tick
    PROVE  /\ TypeOK'
           /\ \A r \in Requests : /\ try'[r].cand = try[r].cand
                                  /\ try'[r].delivered = try[r].delivered
           /\ UNCHANGED <<inFlight, pc, row>>
<1>1. health' \in [Keys -> Health]
  BY HealthTypes DEF Tick, TypeOK
<1>2. ASSUME NEW r \in Requests
      PROVE  /\ Aged(r) \in Attempt
             /\ Aged(r).cand = try[r].cand
             /\ Aged(r).delivered = try[r].delivered
  <2> DEFINE sent == IF pc[r] \in {"dial", "stream"} /\ ~ try[r].byte
                     THEN try[r].sent + 1 ELSE try[r].sent
             silent == IF pc[r] = "stream" /\ ~ try[r].flowed
                       THEN try[r].silent + 1 ELSE try[r].silent
  <2>1. try[r] \in Attempt
    BY DEF TypeOK
  <2>2. sent \in Nat /\ silent \in Nat
    BY <2>1 DEF Attempt
  <2>3. Aged(r) = [try[r] EXCEPT !.sent = sent, !.silent = silent]
    BY DEF Aged
  <2> HIDE DEF sent, silent
  <2>4. QED
    BY <2>1, <2>2, <2>3 DEF Attempt
<1>3. try' \in [Requests -> Attempt] /\ \A r \in Requests : try'[r] = Aged(r)
  BY <1>2 DEF Tick
<1>4. elapsed' \in [Requests -> Nat] /\ timer' \in [Requests -> Nat]
  <2>1. \A t \in Nat : Before(t) \in Nat
    BY DEF Before
  <2>2. \A r \in Requests : elapsed[r] + 1 \in Nat /\ elapsed[r] \in Nat /\ timer[r] \in Nat
    BY DEF TypeOK
  <2>3. QED
    BY <2>1, <2>2 DEF Tick
<1>5. UNCHANGED <<cap, inFlight, pc, plan, slack, cancelled, row>>
  BY DEF Tick
<1>6. \A r \in Requests : pc'[r] \in Holding => Tried(r)'
  BY <1>2, <1>3, <1>5 DEF TypeOK, Tried
<1>7. QED
  BY <1>1, <1>2, <1>3, <1>4, <1>5, <1>6 DEF TypeOK

\* Every step of a request is one of the above.
LEMMA RequestSteps ==
    ASSUME TypeOK, NEW r \in Requests, Caller(r) \/ Engine(r) \/ Upstream(r)
    PROVE  StepOK(r)
  BY PlanSteps, LoopSteps, StartSteps, EndSteps, AdapterSteps, StreamSteps, WholeSteps, PauseSteps,
     SlotSteps
  DEF Caller, Engine, Upstream

\* Types are kept by every step.
LEMMA NextTypes ==
    ASSUME TypeOK, [Next]_vars
    PROVE  TypeOK'
<1>1. CASE Next
  <2>1. CASE Tick
    BY <2>1, TickTypes
  <2>2. ASSUME NEW r \in Requests, Caller(r) \/ Engine(r) \/ Upstream(r)
        PROVE  TypeOK'
    BY <2>2, RequestSteps DEF StepOK
  <2>3. QED
    BY <1>1, <2>1, <2>2 DEF Next
<1>2. CASE UNCHANGED vars
  BY <1>2 DEF vars, TypeOK, Tried
<1>3. QED
  BY <1>1, <1>2

\* Every variable keeps its type, and whoever holds a permit has a candidate to return it for.
THEOREM TypeCorrect == Spec => []TypeOK
<1>1. TypeOK /\ [Next]_vars => TypeOK'
  BY NextTypes
<1>2. QED
  BY InitTypes, <1>1, PTL DEF Spec

---------------------------------------------------------------------------
(* The limiter's books. *)

\* A step that keeps the candidates of all holders keeps every set of permits.
LEMMA PermitsSame ==
    ASSUME PermitsConserved, UNCHANGED inFlight,
           \A q \in Requests :
               /\ pc'[q] \in Holding <=> pc[q] \in Holding
               /\ pc[q] \in Holding => try'[q].cand = try[q].cand
    PROVE  PermitsConserved'
<1>1. \A p \in Providers : Permits(p)' = Permits(p)
  BY DEF Permits, HostOf
<1>2. QED
  BY <1>1 DEF PermitsConserved

\* The holders of a provider's permits are finitely many, so they can be counted.
LEMMA PermitsFinite ==
    ASSUME NEW p
    PROVE  /\ IsFiniteSet(Permits(p))
           /\ Cardinality(Permits(p)) \in Nat
<1>1. Permits(p) \subseteq Requests
  BY DEF Permits
<1>2. QED
  BY <1>1, FailoverAssumption, FS_Subset, FS_CardinalityType

\* The count follows the set of holders through every step of a request.
LEMMA PermitsStep ==
    ASSUME TypeOK, PermitsConserved, NEW r \in Requests, StepOK(r)
    PROVE  PermitsConserved'
<1>1. \A q \in Requests : q # r => pc'[q] = pc[q] /\ try'[q] = try[q]
  BY DEF StepOK, OthersKeep
<1>2. CASE pc[r] \in Holding /\ GivesBack(r)
  <2>1. PICK h \in Providers : h = HostOf(try[r].cand)
    BY <1>2, FailoverAssumption DEF TypeOK, Tried, Attempt, Candidate, HostOf
  <2>2. pc'[r] \notin Holding /\ inFlight' = [inFlight EXCEPT ![h] = Before(@)]
    BY <1>2, <2>1 DEF GivesBack, Release
  <2>3. \A p \in Providers : p # h => Permits(p)' = Permits(p)
    BY <1>1, <1>2, <2>1, <2>2 DEF Permits, HostOf
  <2>4. Permits(h)' = Permits(h) \ {r} /\ r \in Permits(h)
    BY <1>1, <1>2, <2>1, <2>2 DEF Permits, HostOf
  <2>5. Cardinality(Permits(h)') = Cardinality(Permits(h)) - 1 /\ Cardinality(Permits(h)') \in Nat
    <3>1. IsFiniteSet(Permits(h)) /\ r \in Permits(h)
      BY <2>4, PermitsFinite
    <3>2. /\ IsFiniteSet(Permits(h) \ {r})
          /\ Cardinality(Permits(h) \ {r}) = Cardinality(Permits(h)) - 1
      BY <3>1, FS_RemoveElement
    <3>3. Cardinality(Permits(h) \ {r}) \in Nat
      BY <3>2, FS_CardinalityType
    <3>4. QED
      BY <2>4, <3>2, <3>3
  <2>6. inFlight'[h] = Cardinality(Permits(h)')
    <3>1. inFlight[h] = Cardinality(Permits(h)) /\ inFlight'[h] = Before(inFlight[h])
      BY <2>1, <2>2 DEF PermitsConserved, TypeOK
    <3>2. QED
      BY <2>5, <3>1, PermitsFinite DEF Before
  <2>7. \A p \in Providers : p # h => inFlight'[p] = inFlight[p]
    BY <2>2 DEF TypeOK
  <2>8. QED
    BY <2>3, <2>6, <2>7 DEF PermitsConserved
<1>3. CASE pc[r] \in Holding /\ KeepsPermit(r)
  BY <1>1, <1>3, PermitsSame DEF KeepsPermit
<1>4. CASE TakesPermit(r)
  <2>1. PICK h \in Providers :
          h = HostOf(try'[r].cand) /\ pc[r] \notin Holding /\ pc'[r] \in Holding
    BY <1>4 DEF TakesPermit
  <2>2. inFlight' = [inFlight EXCEPT ![h] = @ + 1]
    BY <1>4, <2>1 DEF TakesPermit, Acquire
  <2>3. \A p \in Providers : p # h => Permits(p)' = Permits(p)
    BY <1>1, <2>1 DEF Permits, HostOf
  <2>4. Permits(h)' = Permits(h) \cup {r} /\ r \notin Permits(h)
    BY <1>1, <2>1 DEF Permits, HostOf
  <2>5. Cardinality(Permits(h)') = Cardinality(Permits(h)) + 1
    <3>1. IsFiniteSet(Permits(h)) /\ r \notin Permits(h)
      BY <2>4, PermitsFinite
    <3>2. Cardinality(Permits(h) \cup {r}) = Cardinality(Permits(h)) + 1
      BY <3>1, FS_AddElement
    <3>3. QED
      BY <2>4, <3>2
  <2>6. inFlight'[h] = Cardinality(Permits(h)')
    BY <2>1, <2>2, <2>5 DEF PermitsConserved, TypeOK
  <2>7. \A p \in Providers : p # h => inFlight'[p] = inFlight[p]
    BY <2>2 DEF TypeOK
  <2>8. QED
    BY <2>3, <2>6, <2>7 DEF PermitsConserved
<1>5. CASE pc[r] \notin Holding /\ pc'[r] \notin Holding /\ UNCHANGED inFlight
  BY <1>1, <1>5, PermitsSame
<1>6. QED
  BY <1>2, <1>3, <1>4, <1>5 DEF StepOK

\* The limiter counts exactly the requests that hold a permit, whatever end each attempt takes.
THEOREM PermitsAreConserved == Spec => []PermitsConserved
<1>1. Init => PermitsConserved
  <2> SUFFICES ASSUME Init PROVE PermitsConserved
    OBVIOUS
  <2>1. \A p \in Providers : Permits(p) = {} /\ inFlight[p] = 0
    BY DEF Init, Permits, Holding
  <2>2. QED
    BY <2>1, FS_EmptySet DEF PermitsConserved
<1>2. TypeOK /\ PermitsConserved /\ [Next]_vars => PermitsConserved'
  <2> SUFFICES ASSUME TypeOK, PermitsConserved, [Next]_vars PROVE PermitsConserved'
    OBVIOUS
  <2>1. CASE Tick
    BY <2>1, TickTypes, PermitsSame
  <2>2. ASSUME NEW r \in Requests, Caller(r) \/ Engine(r) \/ Upstream(r)
        PROVE  PermitsConserved'
    BY <2>2, RequestSteps, PermitsStep
  <2>3. CASE UNCHANGED vars
    BY <2>3, PermitsSame DEF vars
  <2>4. QED
    BY <2>1, <2>2, <2>3 DEF Next
<1>3. QED
  BY TypeCorrect, <1>1, <1>2, PTL DEF Spec

---------------------------------------------------------------------------
(* The engine implements Delivery. *)

\* The inductive part: who has been booked, and where a request with output can be.
ShapeAt(r) ==
    /\ pc[r] # "done" => row[r] = None
    /\ try[r].delivered => pc[r] \in {"stream", "done"}

Shape == \A r \in Requests : ShapeAt(r)

\* The steps of Delivery, seen at one request.
Stays(r)    == PhaseOf(r)' = PhaseOf(r) /\ SourceOf(r)' = SourceOf(r) /\ row'[r] = row[r]
Accepts(r)  == /\ PhaseOf(r) = "idle" /\ PhaseOf(r)' = "trying"
               /\ SourceOf(r)' = SourceOf(r) /\ row'[r] = row[r]
Refuses(r)  == /\ PhaseOf(r) = "idle" /\ PhaseOf(r)' = "booked"
               /\ SourceOf(r)' = SourceOf(r) /\ row'[r] = "NO_ROUTE"
Delivers(r) == /\ PhaseOf(r) = "trying" /\ PhaseOf(r)' = "delivering"
               /\ SourceOf(r)' \in {{k} : k \in Keys} /\ row'[r] = row[r]
Books(r)    == /\ \/ PhaseOf(r) = "delivering" /\ row'[r] \in {"ok", "NETWORK"}
                  \/ PhaseOf(r) = "trying" /\ row'[r] \in Promise!Empty
               /\ PhaseOf(r)' = "booked"
               /\ SourceOf(r)' = SourceOf(r)
Forgets(r)  == /\ PhaseOf(r) = "booked" /\ PhaseOf(r)' = "idle"
               /\ SourceOf(r)' = {} /\ row'[r] = None

Maps(r) == Stays(r) \/ Accepts(r) \/ Refuses(r) \/ Delivers(r) \/ Books(r) \/ Forgets(r)

\* A step that keeps one request's shape and leaves alone the others keeps the shape of all.
LEMMA ShapeElsewhere ==
    ASSUME Shape, NEW r \in Requests, OthersKeep(r), ShapeAt(r)'
    PROVE  Shape'
  BY DEF Shape, ShapeAt, OthersKeep

\* A change at one request is a step of Delivery.
LEMMA MapsToStep ==
    ASSUME TypeOK, TypeOK', NEW r \in Requests, OthersKeep(r), Maps(r)
    PROVE  [Promise!Next]_(Promise!dvars)
<1> DEFINE phase == [q \in Requests |-> PhaseOf(q)]
           source == [q \in Requests |-> SourceOf(q)]
<1>1. \A q \in Requests : q # r => /\ PhaseOf(q)' = PhaseOf(q)
                                  /\ SourceOf(q)' = SourceOf(q)
                                  /\ row'[q] = row[q]
  BY DEF OthersKeep, PhaseOf, SourceOf, KeyOf
<1>2. /\ phase' = [phase EXCEPT ![r] = PhaseOf(r)']
      /\ source' = [source EXCEPT ![r] = SourceOf(r)']
      /\ row' = [row EXCEPT ![r] = row'[r]]
      /\ phase[r] = PhaseOf(r) /\ source[r] = SourceOf(r)
  BY <1>1 DEF TypeOK
<1>3. /\ SourceOf(r)' = SourceOf(r) => source' = source
      /\ row'[r] = row[r] => row' = row
  <2>1. SourceOf(r)' = SourceOf(r) => \A q \in Requests : SourceOf(q)' = SourceOf(q)
    BY <1>1
  <2>2. SourceOf(r)' = SourceOf(r) => source' = source
    BY <2>1
  <2>3. row'[r] = row[r] => row' = row
    BY <1>2 DEF TypeOK
  <2>4. QED
    BY <2>2, <2>3
<1>4. PhaseOf(r)' = PhaseOf(r) => phase' = phase
  <2>1. PhaseOf(r)' = PhaseOf(r) => \A q \in Requests : PhaseOf(q)' = PhaseOf(q)
    BY <1>1
  <2>2. QED
    BY <2>1
<1>5. CASE Stays(r)
  BY <1>3, <1>4, <1>5 DEF Stays, Promise!dvars
<1>6. CASE Accepts(r)
  <2>1. Promise!Accept(r)
    BY <1>2, <1>6, <1>3 DEF Accepts, Promise!Accept
  <2>2. QED
    BY <2>1 DEF Promise!Next
<1>7. CASE Refuses(r)
  <2>1. Promise!Refuse(r)
    BY <1>2, <1>7 DEF Refuses, Promise!Refuse
  <2>2. QED
    BY <2>1 DEF Promise!Next
<1>8. CASE Delivers(r)
  <2>1. PICK k \in Keys : SourceOf(r)' = {k}
    BY <1>8 DEF Delivers
  <2>2. Promise!Deliver(r, k)
    BY <1>2, <1>8, <2>1 DEF Delivers, TypeOK, Promise!Deliver
  <2>3. QED
    BY <2>2 DEF Promise!Next
<1>9. CASE Books(r)
  <2>1. Promise!Book(r, row'[r]) /\ row'[r] \in Promise!Empty \cup {"ok", "NETWORK"}
    BY <1>2, <1>9 DEF Books, Promise!Book
  <2>2. QED
    BY <2>1 DEF Promise!Next
<1>10. CASE Forgets(r)
  <2>1. Promise!Forget(r)
    BY <1>2, <1>10 DEF Forgets, None, Promise!Forget, Promise!None
  <2>2. QED
    BY <2>1 DEF Promise!Next
<1>11. QED
  BY <1>5, <1>6, <1>7, <1>8, <1>9, <1>10 DEF Maps

\* An attempt that ends books the request or keeps trying.
LEMMA EndMaps ==
    ASSUME TypeOK, Shape, NEW r \in Requests,
           \/ Refused(r) \/ HeaderTimesOut(r) \/ FirstByteTimesOut(r)
           \/ StreamBreaks(r) \/ OutputTimesOut(r) \/ StreamEnds(r) \/ CancelCuts(r)
    PROVE  ShapeAt(r)' /\ Maps(r)
<1>1. pc[r] \in {"dial", "refusal", "unary", "stream"} /\ pc[r] \in Holding
  BY DEF Refused, HeaderTimesOut, HeadersOverdue, FirstByteTimesOut, FirstByteOverdue,
         StreamBreaks, OutputTimesOut, OutputOverdue, StreamEnds, CancelCuts, Holding
<1>2. CASE \E c \in Class, ra \in Nat : AttemptFails(r, c, ra)
  <2>1. /\ AttemptOver(r)
        /\ try[r].delivered => pc'[r] = "done" /\ try' = try /\ row'[r] = "NETWORK"
        /\ ~ try[r].delivered =>
              /\ ~ try'[r].delivered
              /\ pc'[r] = "done" => row'[r] = "CANCELLED"
    BY <1>1, <1>2, AttemptFailsOver
  <2>2. QED
    BY <1>1, <2>1
    DEF AttemptOver, Shape, ShapeAt, Maps, Books, Stays, PhaseOf, SourceOf, KeyOf, Promise!Empty
<1>3. CASE Served(r)
  <2>1. /\ pc'[r] = "done"
        /\ try'[r].delivered = try[r].delivered
        /\ try'[r].cand = try[r].cand
        /\ IF try[r].delivered THEN row'[r] = "ok"
           ELSE row'[r] \in {"CANCELLED", "NO_OUTPUT", "PARSE_ERROR"}
    BY <1>1, <1>3, ServedOver
  <2>2. QED
    BY <1>1, <2>1 DEF ShapeAt, Maps, Books, PhaseOf, SourceOf, KeyOf, Promise!Empty
<1>4. QED
  BY <1>2, <1>3, KeyHealthAssumption
  DEF Refused, HeaderTimesOut, FirstByteTimesOut, StreamBreaks, OutputTimesOut, StreamEnds, CancelCuts,
    Class

\* Planning maps to accepting, to refusing, or to nothing.
LEMMA PlanMaps ==
    ASSUME TypeOK, Shape, NEW r \in Requests, Begin(r) \/ WakeUp(r)
    PROVE  ShapeAt(r)' /\ Maps(r)
<1>1. PICK left \in Nat : PlanOrWait(r, left)
  BY FailoverAssumption DEF Begin, WakeUp, TypeOK
<1>2. try' = try /\ pc[r] \in {"idle", "cool"}
  BY DEF Begin, WakeUp
<1>3. ~ try[r].delivered /\ row[r] = None
  BY <1>2 DEF Shape, ShapeAt
<1>4. \/ pc'[r] \in {"next", "cool"} /\ row'[r] = row[r]
      \/ pc'[r] = "done" /\ row'[r] = "NO_ROUTE"
  BY <1>1 DEF PlanOrWait, StartPlan, SleepUntilRetry, Write, TypeOK
<1>5. QED
  BY <1>2, <1>3, <1>4
  DEF ShapeAt, Maps, Stays, Accepts, Refuses, PhaseOf, SourceOf

\* The head of the candidate loop maps to nothing, or to a booking.
LEMMA LoopMaps ==
    ASSUME TypeOK, Shape, NEW r \in Requests,
           \/ StopCancelled(r) \/ SkipSaturated(r) \/ OverBudget(r) \/ Exhausted(r)
           \/ StartAttempt(r) \/ AdapterReady(r) \/ AdapterFails(r) \/ PauseEnds(r)
    PROVE  ShapeAt(r)' /\ Maps(r)
<1>1. pc[r] \in {"next", "adapter", "pause"}
  BY DEF StopCancelled, SkipSaturated, OverBudget, Exhausted, StartAttempt, AdapterReady,
         AdapterFails, PauseEnds
<1>2. ~ try[r].delivered /\ row[r] = None /\ PhaseOf(r) = "trying" /\ SourceOf(r) = {}
  BY <1>1 DEF Shape, ShapeAt, PhaseOf, SourceOf
<1>3. /\ ~ try'[r].delivered
      /\ \/ pc'[r] \in {"next", "adapter", "dial", "unary"} /\ row'[r] = row[r]
         \/ pc'[r] = "done" /\ row'[r] \in {"CANCELLED", "SPENT"}
  <2>1. CASE SkipSaturated(r)
    BY <1>2, <2>1 DEF SkipSaturated
  <2>2. CASE StopCancelled(r) \/ OverBudget(r) \/ Exhausted(r)
    BY <1>2, <2>2 DEF StopCancelled, OverBudget, Exhausted, Write, TypeOK
  <2>3. CASE StartAttempt(r)
    <3>1. pc'[r] = "adapter"
      BY <2>3 DEF StartAttempt, TypeOK
    <3>2. QED
      BY <2>3, <3>1, StartSteps
  <2>4. CASE AdapterReady(r) \/ AdapterFails(r)
    BY <1>2, <2>4, AdapterSteps
  <2>5. CASE PauseEnds(r)
    BY <1>2, <2>5, PauseSteps
  <2>6. QED
    BY <2>1, <2>2, <2>3, <2>4, <2>5
<1>4. QED
  BY <1>2, <1>3 DEF ShapeAt, Maps, Stays, Books, PhaseOf, SourceOf, Promise!Empty

\* A stream's steps map to a delivery, to a booking, or to nothing.
LEMMA StreamMaps ==
    ASSUME TypeOK, Shape, NEW r \in Requests,
           Redial(r) \/ Headers(r) \/ FirstByte(r) \/ Reasoning(r) \/ Output(r)
    PROVE  ShapeAt(r)' /\ Maps(r)
<1>1. pc[r] \in {"dial", "stream"} /\ pc[r] \in Holding
  BY DEF Redial, Headers, FirstByte, Reasoning, Output, Holding
<1>2. /\ try'[r].cand = try[r].cand
      /\ pc'[r] \in {"dial", "stream"}
      /\ row' = row
      /\ \/ try'[r].delivered = try[r].delivered
         \/ try'[r].delivered /\ pc[r] = "stream" /\ pc'[r] = "stream"
  BY StreamSteps
<1>3. KeyOf(r) \in Keys /\ row[r] = None
  BY <1>1 DEF TypeOK, Tried, Attempt, Candidate, KeyOf, Shape, ShapeAt
<1>4. try[r].delivered => pc[r] = "stream" /\ pc'[r] = "stream"
  <2>1. ~ Redial(r) /\ ~ Headers(r) => pc[r] = "stream" /\ pc' = pc
    BY DEF FirstByte, Reasoning, Output
  <2>2. try[r].delivered => pc[r] = "stream"
    BY <1>1 DEF Shape, ShapeAt
  <2>3. QED
    BY <2>1, <2>2 DEF Redial, Headers
<1>5. QED
  BY <1>1, <1>2, <1>3, <1>4 DEF ShapeAt, Maps, Stays, Delivers, PhaseOf, SourceOf, KeyOf

\* An answer that is read whole maps to nothing, or to a booking.
LEMMA WholeMaps ==
    ASSUME TypeOK, Shape, NEW r \in Requests, ErrorStatus(r) \/ UnaryAnswers(r)
    PROVE  ShapeAt(r)' /\ Maps(r)
<1>1. /\ try'[r].delivered = try[r].delivered
      /\ pc[r] \in {"dial", "unary"} /\ pc'[r] \in {"refusal", "stream"}
      /\ row' = row
  BY WholeSteps
<1>2. ~ try[r].delivered /\ row[r] = None
  BY <1>1 DEF Shape, ShapeAt
<1>3. QED
  BY <1>1, <1>2 DEF ShapeAt, Maps, Stays, PhaseOf, SourceOf

\* Cancelling maps to nothing, and a slot that is free again to forgetting.
LEMMA SlotMaps ==
    ASSUME TypeOK, Shape, NEW r \in Requests, Cancel(r) \/ Retire(r)
    PROVE  ShapeAt(r)' /\ Maps(r)
<1>1. CASE Cancel(r)
  BY <1>1 DEF Cancel, Shape, ShapeAt, Maps, Stays, PhaseOf, SourceOf, KeyOf
<1>2. CASE Retire(r)
  <2>1. pc[r] = "done" /\ pc'[r] = "idle" /\ ~ try'[r].delivered /\ row'[r] = None
    BY <1>2 DEF Retire, TypeOK, NoAttempt, Starting
  <2>2. QED
    BY <2>1 DEF ShapeAt, Maps, Forgets, PhaseOf, SourceOf
<1>3. QED
  BY <1>1, <1>2

\* Every step of Failover is a step of Delivery, or none.
LEMMA StepMaps ==
    ASSUME TypeOK, Shape, [Next]_vars
    PROVE  Shape' /\ [Promise!Next]_(Promise!dvars)
<1>1. CASE Tick
  <2>1. \A r \in Requests : PhaseOf(r)' = PhaseOf(r) /\ SourceOf(r)' = SourceOf(r)
    BY <1>1, TickTypes DEF PhaseOf, SourceOf, KeyOf
  <2>2. QED
    BY <1>1, <2>1, TickTypes DEF Shape, ShapeAt, Promise!dvars
<1>2. ASSUME NEW r \in Requests, Caller(r) \/ Engine(r) \/ Upstream(r)
      PROVE  Shape' /\ [Promise!Next]_(Promise!dvars)
  <2>1. TypeOK' /\ OthersKeep(r)
    BY <1>2, RequestSteps DEF StepOK
  <2>2. ShapeAt(r)' /\ Maps(r)
    BY <1>2, EndMaps, PlanMaps, LoopMaps, StreamMaps, WholeMaps, SlotMaps
    DEF Caller, Engine, Upstream
  <2>3. QED
    BY <2>1, <2>2, ShapeElsewhere, MapsToStep
<1>3. CASE UNCHANGED vars
  BY <1>3 DEF vars, Shape, ShapeAt, Promise!dvars, PhaseOf, SourceOf, KeyOf
<1>4. QED
  BY <1>1, <1>2, <1>3 DEF Next

\* The initial states of Failover are initial states of Delivery.
LEMMA InitMaps == Init => Shape /\ Promise!Init
  BY DEF Init, Shape, ShapeAt, PhaseOf, SourceOf, NoAttempt, Starting, None,
         Promise!Init, Promise!None

\* Whatever is tried, paused, redialled or cut, the caller sees what Delivery promises.
THEOREM ImplementsDelivery == Spec => KeepsPromise
<1>1. TypeOK /\ Shape /\ [Next]_vars => Shape' /\ [Promise!Next]_(Promise!dvars)
  BY StepMaps
<1>2. QED
  BY TypeCorrect, InitMaps, <1>1, PTL DEF Spec, KeepsPromise, Promise!Spec

\* Output that was delivered keeps a request out of the candidate loop.
LEMMA StepKeepsStream ==
    ASSUME TypeOK, Shape, [Next]_vars,
           NEW r \in Requests, try[r].delivered, pc[r] = "stream"
    PROVE  pc'[r] \in {"stream", "done"}
<1>1. CASE Tick
  BY <1>1, TickTypes
<1>2. ASSUME NEW q \in Requests, Caller(q) \/ Engine(q) \/ Upstream(q)
      PROVE  pc'[r] \in {"stream", "done"}
  <2>1. CASE q = r
    <3>1. PhaseOf(r) = "delivering"
      BY DEF PhaseOf
    <3>2. ShapeAt(r)' /\ Maps(r)
      BY <1>2, <2>1, EndMaps, PlanMaps, LoopMaps, StreamMaps, WholeMaps, SlotMaps
      DEF Caller, Engine, Upstream
    <3>3. PhaseOf(r)' \in {"delivering", "booked"}
      BY <3>1, <3>2 DEF Maps, Stays, Accepts, Refuses, Delivers, Books, Forgets
    <3>4. QED
      BY <3>2, <3>3 DEF PhaseOf, ShapeAt
  <2>2. CASE q # r
    BY <1>2, <2>2, RequestSteps DEF StepOK, OthersKeep
  <2>3. QED
    BY <2>1, <2>2
<1>3. CASE UNCHANGED vars
  BY <1>3 DEF vars
<1>4. QED
  BY <1>1, <1>2, <1>3 DEF Next

\* Failover is over once a chunk or a tool call reached the caller.
THEOREM OutputEndsFailover == Spec => NoDialAfterOutput
<1>1. TypeOK /\ Shape /\ [Next]_vars => Shape'
  BY StepMaps
<1>2. TypeOK /\ Shape /\ [Next]_vars =>
        [\A r \in Requests :
            try[r].delivered /\ pc[r] = "stream" => pc'[r] \in {"stream", "done"}]_vars
  BY StepKeepsStream
<1>3. QED
  BY TypeCorrect, InitMaps, <1>1, <1>2, PTL DEF Spec, NoDialAfterOutput
=============================================================================
