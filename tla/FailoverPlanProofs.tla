------------------------- MODULE FailoverPlanProofs -------------------------
(***************************************************************************)
(* The candidate loop of Failover, for every value of its constants: who   *)
(* is dialled next, how late an attempt may still wait for its first byte, *)
(* what the breaker remembers, and how many dials a request has left.      *)
(***************************************************************************)
EXTENDS FailoverProofs

\* What is owed to the plan's budget.  The clock starts with the plan.  An attempt that is not the
\* first was funded with a header timeout, of which `sent' is spent since its last dial, and every
\* redial brought another.
DeadlineAt(r) ==
    /\ pc[r] \in {"idle", "cool", "done"} => elapsed[r] = 0
    /\ pc[r] = "next" /\ ~ Tried(r) => elapsed[r] = 0
    /\ pc[r] \in {"adapter", "dial"} => ~ try[r].byte
    /\ pc[r] = "adapter" => try[r].sent = 0 /\ try[r].redials = 0
    /\ pc[r] = "dial" => try[r].sent <= HeaderTimeout
    /\ pc[r] = "stream" /\ ~ try[r].byte => try[r].sent <= FirstByteTimeout
    /\ pc[r] = "adapter" \/ WaitingForByte(r) =>
          elapsed[r] + HeaderTimeout <= PlanBudget + try[r].redials * HeaderTimeout + try[r].sent

\* After a NETWORK failure every candidate of another host comes before every one of the same.
HostOrderAt(r) ==
    try[r].lost =>
        /\ pc[r] \in {"next", "pause", "done"}
        /\ pc[r] = "pause" => OtherHosts(r) = {}
        /\ pc[r] = "next" => \A o \in OtherHosts(r), d \in SameHost(r) : o.rank < d.rank

PlanInv == \A r \in Requests : DeadlineAt(r) /\ HostOrderAt(r)

\* A step of r touches no other plan and no other clock, and an attempt begins in StartAttempt.
Apart(r) ==
    /\ \A q \in Requests : q # r => plan'[q] = plan[q] /\ elapsed'[q] = elapsed[q]
    /\ pc[r] # "adapter" /\ pc'[r] = "adapter" => StartAttempt(r)

\* A step of r keeps its part of the invariant, and everybody else's.
Keeps(r) == DeadlineAt(r)' /\ HostOrderAt(r)' /\ Apart(r)

---------------------------------------------------------------------------
(* The steps. *)

\* A request whose row is written owes nothing (core/router.rs, execute_text's end).
LEMMA WriteKeeps ==
    ASSUME TypeOK, NEW r \in Requests, NEW class, Write(r, class), try'[r].lost \in BOOLEAN
    PROVE  Keeps(r)
<1>1. /\ pc'[r] = "done" /\ elapsed'[r] = 0
      /\ \A q \in Requests : q # r => plan'[q] = plan[q] /\ elapsed'[q] = elapsed[q]
  BY DEF Write, TypeOK
<1>2. DeadlineAt(r)'
  BY <1>1 DEF DeadlineAt, WaitingForByte
<1>3. HostOrderAt(r)'
  BY <1>1 DEF HostOrderAt
<1>4. QED
  BY <1>1, <1>2, <1>3 DEF Keeps, Apart

\* Planning starts the clock, and waits for a cooldown do not count (engine/text.rs:261).
LEMMA PlanKeeps ==
    ASSUME TypeOK, NEW r \in Requests, DeadlineAt(r), HostOrderAt(r), Begin(r) \/ WakeUp(r)
    PROVE  Keeps(r)
<1>1. pc[r] \in {"idle", "cool"} /\ try' = try /\ elapsed[r] = 0 /\ ~ try[r].lost
  BY DEF Begin, WakeUp, DeadlineAt, HostOrderAt, TypeOK, Attempt
<1>2. PICK left \in Nat : PlanOrWait(r, left)
  BY FailoverAssumption DEF Begin, WakeUp, TypeOK
<1>3. pc'[r] \in {"next", "cool", "done"}
  BY <1>2, PlanTypes
<1>4. elapsed'[r] = 0 /\ \A q \in Requests : q # r => plan'[q] = plan[q] /\ elapsed'[q] = elapsed[q]
  BY <1>1, <1>2 DEF PlanOrWait, StartPlan, SleepUntilRetry, Write, TypeOK
<1>5. DeadlineAt(r)'
  BY <1>3, <1>4 DEF DeadlineAt, WaitingForByte
<1>6. HostOrderAt(r)'
  BY <1>1 DEF HostOrderAt
<1>7. QED
  BY <1>3, <1>4, <1>5, <1>6 DEF Keeps, Apart

\* A candidate that is passed over takes no time and leaves the order of the others
\* (engine/text.rs:278-285).
LEMMA LoopKeeps ==
    ASSUME TypeOK, NEW r \in Requests, DeadlineAt(r), HostOrderAt(r),
           StopCancelled(r) \/ SkipSaturated(r) \/ OverBudget(r) \/ Exhausted(r)
    PROVE  Keeps(r)
<1>1. CASE SkipSaturated(r)
  <2>1. PICK c \in plan[r] : plan' = [plan EXCEPT ![r] = @ \ {c}]
    BY <1>1 DEF SkipSaturated, Pop
  <2>2. UNCHANGED <<pc, try, elapsed>> /\ pc[r] = "next"
    BY <1>1 DEF SkipSaturated
  <2>3. plan'[r] \subseteq plan[r] /\ \A q \in Requests : q # r => plan'[q] = plan[q]
    BY <2>1 DEF TypeOK
  <2>4. DeadlineAt(r)'
    BY <2>2 DEF DeadlineAt, WaitingForByte, Tried
  <2>5. HostOrderAt(r)'
    BY <2>2, <2>3 DEF HostOrderAt, OtherHosts, SameHost
  <2>6. QED
    BY <2>2, <2>3, <2>4, <2>5 DEF Keeps, Apart
<1>2. CASE StopCancelled(r) \/ OverBudget(r) \/ Exhausted(r)
  <2>1. \E class : Write(r, class)
    BY <1>2 DEF StopCancelled, OverBudget, Exhausted
  <2>2. try' = try /\ try[r].lost \in BOOLEAN
    BY <1>2 DEF StopCancelled, OverBudget, Exhausted, TypeOK, Attempt
  <2>3. QED
    BY <2>1, <2>2, WriteKeeps
<1>3. QED
  BY <1>1, <1>2

\* The first candidate starts with the clock; a later one has a header timeout left of the budget
\* (engine/attempt.rs:181-183, engine/text.rs:296-299).
LEMMA StartKeeps ==
    ASSUME TypeOK, NEW r \in Requests, DeadlineAt(r), StartAttempt(r)
    PROVE  Keeps(r)
<1>1. PICK c \in plan[r] : /\ plan' = [plan EXCEPT ![r] = @ \ {c}]
                           /\ try' = [try EXCEPT ![r] = Starting(c)]
  BY DEF StartAttempt, Pop, Enter
<1>2. /\ pc[r] = "next" /\ pc'[r] = "adapter" /\ elapsed' = elapsed
      /\ elapsed[r] \in Nat /\ Affordable(elapsed[r], ~ Tried(r))
      /\ HeaderTimeout \in Nat /\ PlanBudget \in Nat /\ FirstByteTimeout \in Nat
  BY FailoverAssumption DEF StartAttempt, TypeOK
<1>3. try'[r] = Starting(c)
  BY <1>1 DEF TypeOK
<1>4. ~ try'[r].byte /\ try'[r].sent = 0 /\ try'[r].redials = 0 /\ ~ try'[r].lost
  BY <1>3 DEF Starting
<1>5. elapsed[r] + HeaderTimeout <= PlanBudget
  BY <1>2, DeadlineAssumption DEF Affordable, DeadlineAt
<1>6. DeadlineAt(r)'
  BY <1>2, <1>4, <1>5 DEF DeadlineAt, WaitingForByte
<1>7. HostOrderAt(r)'
  BY <1>4 DEF HostOrderAt
<1>8. QED
  BY <1>1, <1>2, <1>6, <1>7 DEF Keeps, Apart, TypeOK

\* prefer_different_providers puts the failed host's candidates behind all the others
\* (engine/text.rs:198-214).
LEMMA DeferOrder ==
    ASSUME TypeOK, NEW r \in Requests, NEW last \in plan[r], \A d \in plan[r] : d.rank <= last.rank,
           NEW host, host = HostOf(try[r].cand)
    PROVE  \A o, d \in Deferred(r, last.rank) :
              HostOf(o) # host /\ HostOf(d) = host => o.rank < d.rank
<1>1. plan[r] \subseteq Candidate
  BY DEF TypeOK
<1>2. ASSUME NEW d \in Deferred(r, last.rank)
      PROVE  \/ d \in plan[r] /\ HostOf(d) # host
             \/ \E e \in plan[r] : /\ HostOf(e) = host /\ HostOf(d) = host
                                   /\ d.rank = e.rank + last.rank
  <2>1. CASE d \in OtherHosts(r)
    BY <2>1 DEF OtherHosts
  <2>2. CASE d \in {[e EXCEPT !.rank = @ + last.rank] : e \in SameHost(r)}
    <3>1. PICK e \in SameHost(r) : d = [e EXCEPT !.rank = @ + last.rank]
      BY <2>2
    <3>2. e \in plan[r] /\ HostOf(e) = host /\ e \in Candidate
      BY <1>1 DEF SameHost, OtherHosts
    <3>3. d.key = e.key /\ d.rank = e.rank + last.rank
      BY <3>1, <3>2 DEF Candidate
    <3>4. QED
      BY <3>2, <3>3 DEF HostOf
  <2>3. QED
    BY <2>1, <2>2 DEF Deferred
<1>3. SUFFICES ASSUME NEW o \in Deferred(r, last.rank), NEW d \in Deferred(r, last.rank),
                      HostOf(o) # host, HostOf(d) = host
               PROVE  o.rank < d.rank
  OBVIOUS
<1>4. o \in plan[r] /\ o.rank \in Nat /\ last.rank \in Nat /\ o.rank <= last.rank
  BY <1>1, <1>2, <1>3 DEF Candidate
<1>5. PICK e \in plan[r] : d.rank = e.rank + last.rank
  BY <1>2, <1>3
<1>6. e.rank \in Nat /\ e.rank > 0
  BY <1>1 DEF Candidate
<1>7. QED
  BY <1>4, <1>5, <1>6

\* A failed attempt leaves the loop, goes on with the plan in its order - or with the other hosts in
\* front, if the failure was the network's - or waits to try the same candidate again
\* (engine/text.rs:484-660).
LEMMA FailKeeps ==
    ASSUME TypeOK, NEW r \in Requests, pc[r] \in Holding, DeadlineAt(r), HostOrderAt(r),
           NEW c \in Class, NEW ra \in Nat, AttemptFails(r, c, ra)
    PROVE  Keeps(r)
<1>1. try[r] \in Attempt /\ try[r].cand \in Candidate /\ Tried(r)
  BY DEF TypeOK, Tried, Attempt
<1>2. CASE try[r].delivered
  <2>1. Write(r, "NETWORK") /\ try' = try
    BY <1>2 DEF AttemptFails, Emitted, End
  <2>2. QED
    BY <1>1, <2>1, WriteKeeps DEF Attempt
<1>3. CASE ~ try[r].delivered
  <2> DEFINE after == [Starting(try[r].cand) EXCEPT !.lost = (c = "Network")]
  <2>1. try' = [try EXCEPT ![r] = after] /\ (End(r, "CANCELLED") \/ Advance(r, c, ra))
    BY <1>3 DEF AttemptFails, Emitted
  <2>2. try'[r].lost = (c = "Network") /\ try'[r].cand = try[r].cand
    <3>1. try'[r] = after
      BY <2>1 DEF TypeOK
    <3>2. QED
      BY <3>1 DEF Starting
  <2> HIDE DEF after
  <2>3. CASE End(r, "CANCELLED")
    BY <2>2, <2>3, WriteKeeps DEF End
  <2>4. ASSUME elapsed' = elapsed, \A q \in Requests : q # r => plan'[q] = plan[q],
               pc'[r] \in {"next", "pause"}, HostOrderAt(r)'
        PROVE  Keeps(r)
    <3>1. DeadlineAt(r)'
      BY <1>1, <2>2, <2>4 DEF DeadlineAt, WaitingForByte, Tried
    <3>2. QED
      BY <2>4, <3>1 DEF Keeps, Apart
  <2>5. CASE Advance(r, c, ra)
    <3>1. CASE c = "Network" /\ OtherHosts(r) # {}
      <4>1. PICK last \in plan[r] : /\ \A d \in plan[r] : d.rank <= last.rank
                                    /\ plan' = [plan EXCEPT ![r] = Deferred(r, last.rank)]
        BY <2>5, <3>1 DEF Advance, AfterNetworkError
      <4>2. MoveOn(r)
        BY <2>5, <3>1 DEF Advance, AfterNetworkError
      <4>3. pc'[r] = "next" /\ elapsed' = elapsed
        BY <4>2 DEF MoveOn, TypeOK
      <4>4. plan'[r] = Deferred(r, last.rank) /\ \A q \in Requests : q # r => plan'[q] = plan[q]
        BY <4>1 DEF TypeOK
      <4>5. HostOrderAt(r)'
        <5> DEFINE host == HostOf(try[r].cand)
        <5>1. \A o, d \in plan'[r] : HostOf(o) # host /\ HostOf(d) = host => o.rank < d.rank
          BY <4>1, <4>4, DeferOrder
        <5>2. HostOf(try'[r].cand) = host
          BY <2>2
        <5>3. QED
          BY <4>3, <5>1, <5>2 DEF HostOrderAt, OtherHosts, SameHost
      <4>6. QED
        BY <2>4, <4>3, <4>4, <4>5
    <3>2. CASE ~ (c = "Network" /\ OtherHosts(r) # {})
      <4>1. /\ UNCHANGED plan
            /\ MoveOn(r) \/ Pause(r, Backoff) \/ Pause(r, ServerWait(ra))
        <5>1. CASE c = "ServerError"
          BY <2>5, <5>1 DEF Advance, AfterServerError, Pause
        <5>2. CASE c = "Network"
          BY <2>5, <3>2, <5>2 DEF Advance, AfterNetworkError, Pause
        <5>3. CASE c # "ServerError" /\ c # "Network"
          BY <2>5, <5>3 DEF Advance
        <5>4. QED
          BY <5>1, <5>2, <5>3
      <4>2. pc'[r] \in {"next", "pause"} /\ elapsed' = elapsed
        BY <4>1 DEF MoveOn, Pause, TypeOK
      <4>3. OtherHosts(r)' = OtherHosts(r)
        BY <2>2, <4>1 DEF OtherHosts
      <4>4. HostOrderAt(r)'
        BY <2>2, <3>2, <4>2, <4>3 DEF HostOrderAt
      <4>5. QED
        BY <2>4, <4>1, <4>2, <4>4
    <3>3. QED
      BY <3>1, <3>2
  <2>6. QED
    BY <2>1, <2>3, <2>5
<1>4. QED
  BY <1>2, <1>3

\* A stream that ended cleanly ends the request (engine/text.rs:435-483).
LEMMA EndKeeps ==
    ASSUME TypeOK, NEW r \in Requests, DeadlineAt(r), HostOrderAt(r),
           \/ Refused(r) \/ HeaderTimesOut(r) \/ FirstByteTimesOut(r)
           \/ StreamBreaks(r) \/ OutputTimesOut(r) \/ StreamEnds(r) \/ CancelCuts(r)
    PROVE  Keeps(r)
<1>1. pc[r] \in Holding
  BY DEF Refused, HeaderTimesOut, HeadersOverdue, FirstByteTimesOut, FirstByteOverdue,
         StreamBreaks, OutputTimesOut, OutputOverdue, StreamEnds, CancelCuts, Holding
<1>2. CASE \E c \in Class, ra \in Nat : AttemptFails(r, c, ra)
  BY <1>1, <1>2, FailKeeps
<1>3. CASE Served(r)
  <2>1. \E class : Write(r, class)
    BY <1>3 DEF Served, End
  <2>2. try' = [try EXCEPT ![r] = [Starting(@.cand) EXCEPT !.delivered = try[r].delivered]]
    BY <1>3 DEF Served
  <2>3. try'[r] = [Starting(try[r].cand) EXCEPT !.delivered = try[r].delivered]
    BY <2>2 DEF TypeOK
  <2>4. try'[r].lost = FALSE
    BY <2>3 DEF Starting
  <2>5. QED
    BY <2>1, <2>4, WriteKeeps
<1>4. QED
  BY <1>2, <1>3, KeyHealthAssumption
  DEF Refused, HeaderTimesOut, FirstByteTimesOut, StreamBreaks, OutputTimesOut, StreamEnds, CancelCuts,
    Class

\* Building an adapter takes none of the plan's time (engine/text.rs:300-330).
LEMMA AdapterKeeps ==
    ASSUME TypeOK, NEW r \in Requests, DeadlineAt(r), HostOrderAt(r),
           AdapterReady(r) \/ AdapterFails(r)
    PROVE  Keeps(r)
<1>1. /\ pc[r] = "adapter" /\ try' = try /\ ~ try[r].lost /\ Tried(r)
      /\ try[r].lost \in BOOLEAN /\ HeaderTimeout \in Nat
  BY FailoverAssumption
  DEF AdapterReady, AdapterFails, HostOrderAt, TypeOK, Attempt, Holding
<1>2. HostOrderAt(r)'
  BY <1>1 DEF HostOrderAt
<1>3. CASE AdapterReady(r)
  <2>1. pc'[r] \in {"dial", "unary"} /\ UNCHANGED <<plan, elapsed>>
    BY <1>3 DEF AdapterReady, TypeOK
  <2>2. DeadlineAt(r)'
    BY <1>1, <2>1 DEF DeadlineAt, WaitingForByte, Tried
  <2>3. QED
    BY <1>2, <2>1, <2>2 DEF Keeps, Apart
<1>4. CASE AdapterFails(r)
  <2>1. CASE \E class : Write(r, class)
    BY <1>1, <2>1, WriteKeeps
  <2>2. CASE MoveOn(r) /\ UNCHANGED plan
    <3>1. pc'[r] = "next" /\ UNCHANGED <<plan, elapsed>>
      BY <2>2 DEF MoveOn, TypeOK
    <3>2. DeadlineAt(r)'
      BY <1>1, <3>1 DEF DeadlineAt, WaitingForByte, Tried
    <3>3. QED
      BY <1>2, <3>1, <3>2 DEF Keeps, Apart
  <2>3. QED
    BY <1>4, <2>1, <2>2 DEF AdapterFails, End
<1>5. QED
  BY <1>3, <1>4

\* A redial brings a fresh header timeout, and with it the one that its clock starts again for;
\* the headers stop neither clock (egress.rs:706-745).
LEMMA StreamKeeps ==
    ASSUME TypeOK, NEW r \in Requests, DeadlineAt(r), HostOrderAt(r),
           Redial(r) \/ Headers(r) \/ FirstByte(r) \/ Reasoning(r) \/ Output(r)
    PROVE  Keeps(r)
<1>1. /\ pc[r] \in {"dial", "stream"} /\ pc'[r] \in {"dial", "stream"}
      /\ UNCHANGED <<plan, elapsed>> /\ ~ try[r].lost
      /\ try[r] \in Attempt /\ elapsed[r] \in Nat
      /\ HeaderTimeout \in Nat /\ PlanBudget \in Nat /\ FirstByteTimeout \in Nat
  BY FailoverAssumption
  DEF Redial, Headers, FirstByte, Reasoning, Output, HostOrderAt, TypeOK
<1>2. /\ try[r].sent \in Nat /\ try[r].redials \in Nat /\ try[r].byte \in BOOLEAN
      /\ try[r].lost \in BOOLEAN
  BY <1>1, FailoverAssumption DEF Attempt
<1>3. CASE Redial(r)
  <2> DEFINE a == [try[r] EXCEPT !.redials = @ + 1, !.sent = 0]
  <2>1. try' = [try EXCEPT ![r] = a] /\ pc' = pc /\ pc[r] = "dial"
    BY <1>3 DEF Redial
  <2>2. /\ a.redials = try[r].redials + 1 /\ a.sent = 0 /\ a.byte = try[r].byte
        /\ a.lost = try[r].lost
    BY <1>1 DEF Attempt
  <2>3. try'[r] = a
    BY <2>1 DEF TypeOK
  <2> HIDE DEF a
  <2>4. (try[r].redials + 1) * HeaderTimeout = try[r].redials * HeaderTimeout + HeaderTimeout
    BY <1>1, <1>2
  <2>5. try[r].redials * HeaderTimeout \in Nat
    BY <1>1, <1>2
  <2>6. elapsed[r] + HeaderTimeout <= PlanBudget + (try[r].redials * HeaderTimeout + HeaderTimeout)
    BY <1>1, <1>2, <2>1, <2>5 DEF DeadlineAt, WaitingForByte
  <2>7. DeadlineAt(r)'
    <3>1. /\ pc'[r] = "dial" /\ ~ try'[r].byte /\ try'[r].sent = 0 /\ elapsed'[r] = elapsed[r]
          /\ try'[r].redials = try[r].redials + 1
      BY <1>1, <2>1, <2>2, <2>3 DEF DeadlineAt
    <3>2. elapsed'[r] + HeaderTimeout
             <= PlanBudget + try'[r].redials * HeaderTimeout + try'[r].sent
      <4>1. try'[r].redials * HeaderTimeout = try[r].redials * HeaderTimeout + HeaderTimeout
        BY <2>4, <3>1
      <4>2. PlanBudget + (try[r].redials * HeaderTimeout + HeaderTimeout)
               = PlanBudget + try'[r].redials * HeaderTimeout + try'[r].sent
        BY <1>1, <2>5, <3>1, <4>1
      <4>3. QED
        BY <2>6, <3>1, <4>2
    <3>3. QED
      BY <1>1, <3>1, <3>2 DEF DeadlineAt
  <2>8. QED
    BY <1>1, <2>1, <2>2, <2>3, <2>7 DEF Keeps, Apart, HostOrderAt
<1>4. CASE Headers(r)
  <2>1. try' = try /\ pc'[r] = "stream" /\ pc[r] = "dial"
    BY <1>4 DEF Headers, TypeOK
  <2>2. DeadlineAt(r)'
    BY <1>1, <1>2, <2>1, DeadlineAssumption DEF DeadlineAt, WaitingForByte
  <2>3. QED
    BY <1>1, <2>1, <2>2 DEF Keeps, Apart, HostOrderAt
<1>5. CASE FirstByte(r) \/ Reasoning(r) \/ Output(r)
  <2>1. pc' = pc /\ pc[r] = "stream"
    BY <1>5 DEF FirstByte, Reasoning, Output
  <2>2. try'[r].byte /\ try'[r].lost = try[r].lost
    BY <1>1, <1>5 DEF FirstByte, Reasoning, Output, TypeOK, Attempt
  <2>3. DeadlineAt(r)'
    BY <2>1, <2>2 DEF DeadlineAt, WaitingForByte
  <2>4. QED
    BY <1>1, <2>1, <2>2, <2>3 DEF Keeps, Apart, HostOrderAt
<1>6. QED
  BY <1>3, <1>4, <1>5

\* An answer read whole has no first byte to wait for (egress.rs:725-733).
LEMMA WholeKeeps ==
    ASSUME TypeOK, NEW r \in Requests, DeadlineAt(r), HostOrderAt(r),
           ErrorStatus(r) \/ UnaryAnswers(r)
    PROVE  Keeps(r)
<1>1. /\ pc[r] \in {"dial", "unary"} /\ UNCHANGED <<plan, elapsed>> /\ ~ try[r].lost
      /\ try[r] \in Attempt
  BY DEF ErrorStatus, UnaryAnswers, HostOrderAt, TypeOK
<1>2. CASE ErrorStatus(r)
  <2>1. pc'[r] = "refusal" /\ try' = try
    BY <1>2 DEF ErrorStatus, TypeOK
  <2>2. QED
    BY <1>1, <2>1 DEF Keeps, Apart, DeadlineAt, HostOrderAt, WaitingForByte
<1>3. CASE UnaryAnswers(r)
  <2>1. pc'[r] = "stream" /\ try'[r].byte /\ try'[r].lost = try[r].lost
    BY <1>1, <1>3 DEF UnaryAnswers, TypeOK, Attempt
  <2>2. QED
    BY <1>1, <2>1 DEF Keeps, Apart, DeadlineAt, HostOrderAt, WaitingForByte
<1>4. QED
  BY <1>2, <1>3

\* A candidate that is put back after a pause is of the failed host: the plan still has no other
\* if the network failed it (engine/text.rs:575-621).
LEMMA PauseKeeps ==
    ASSUME TypeOK, NEW r \in Requests, DeadlineAt(r), HostOrderAt(r), PauseEnds(r)
    PROVE  Keeps(r)
<1> DEFINE again == [try[r].cand EXCEPT !.round = @ + 1]
<1>1. /\ pc[r] = "pause" /\ pc'[r] = "next" /\ UNCHANGED <<try, elapsed>>
      /\ plan' = [plan EXCEPT ![r] = @ \cup {again}]
  BY DEF PauseEnds, MoveOn, TypeOK
<1>2. Tried(r) /\ try[r].cand \in Candidate
  BY <1>1 DEF TypeOK, Tried, Attempt, Holding
<1>3. HostOf(again) = HostOf(try[r].cand)
  BY <1>2 DEF HostOf, Candidate
<1>4. plan'[r] = plan[r] \cup {again} /\ \A q \in Requests : q # r => plan'[q] = plan[q]
  BY <1>1 DEF TypeOK
<1> HIDE DEF again
<1>5. OtherHosts(r)' = OtherHosts(r)
  BY <1>1, <1>3, <1>4 DEF OtherHosts
<1>6. HostOrderAt(r)'
  BY <1>1, <1>5 DEF HostOrderAt
<1>7. DeadlineAt(r)'
  BY <1>1, <1>2 DEF DeadlineAt, WaitingForByte, Tried
<1>8. QED
  BY <1>1, <1>4, <1>6, <1>7 DEF Keeps, Apart

\* A cancellation changes nothing the loop reads but the flag; a slot that is free has no attempt
\* (core/router.rs).
LEMMA SlotKeeps ==
    ASSUME TypeOK, NEW r \in Requests, DeadlineAt(r), HostOrderAt(r), Cancel(r) \/ Retire(r)
    PROVE  Keeps(r)
<1>1. CASE Cancel(r)
  <2>1. UNCHANGED <<pc, plan, try, elapsed>>
    BY <1>1 DEF Cancel
  <2>2. QED
    BY <2>1 DEF Keeps, Apart, DeadlineAt, HostOrderAt, WaitingForByte, Tried, OtherHosts, SameHost
<1>2. CASE Retire(r)
  <2>1. pc[r] = "done" /\ pc'[r] = "idle" /\ UNCHANGED <<plan, elapsed>> /\ try'[r] = NoAttempt
    BY <1>2 DEF Retire, TypeOK
  <2>2. ~ NoAttempt.lost
    BY DEF NoAttempt, Starting
  <2>3. QED
    BY <2>1, <2>2 DEF Keeps, Apart, DeadlineAt, HostOrderAt, WaitingForByte
<1>3. QED
  BY <1>1, <1>2

\* Time moves the plan's clock no further than the clock of an attempt that waits, and a deadline
\* that is due stops it (egress.rs:706-780).
LEMMA TickKeeps ==
    ASSUME TypeOK, PlanInv, Tick
    PROVE  PlanInv'
<1> SUFFICES ASSUME NEW r \in Requests PROVE DeadlineAt(r)' /\ HostOrderAt(r)'
  BY DEF PlanInv
<1>1. /\ UNCHANGED <<pc, plan>> /\ try[r] \in Attempt /\ elapsed[r] \in Nat
      /\ DeadlineAt(r) /\ HostOrderAt(r) /\ Waiting(r)
      /\ HeaderTimeout \in Nat /\ PlanBudget \in Nat /\ FirstByteTimeout \in Nat
  BY FailoverAssumption DEF Tick, TypeOK, PlanInv
<1>2. /\ try[r].sent \in Nat /\ try[r].redials \in Nat /\ try[r].byte \in BOOLEAN
      /\ try[r].lost \in BOOLEAN
  BY <1>1, FailoverAssumption DEF Attempt
<1>3. /\ try'[r].sent = IF pc[r] \in {"dial", "stream"} /\ ~ try[r].byte
                        THEN try[r].sent + 1 ELSE try[r].sent
      /\ try'[r].redials = try[r].redials /\ try'[r].byte = try[r].byte
      /\ try'[r].lost = try[r].lost /\ try'[r].cand = try[r].cand
  <2>1. try'[r] = Aged(r)
    BY DEF Tick
  <2>2. QED
    BY <1>1, <2>1 DEF Aged, Attempt
<1>4. /\ elapsed'[r] \in {elapsed[r], elapsed[r] + 1}
      /\ pc[r] \in {"idle", "cool", "done"} => elapsed'[r] = elapsed[r]
  BY DEF Tick, Planned
<1>5. pc[r] \notin {"next", "adapter"}
  BY <1>1 DEF Waiting
<1>6. HostOrderAt(r)'
  BY <1>1, <1>3 DEF HostOrderAt, OtherHosts, SameHost
<1>7. try[r].redials * HeaderTimeout \in Nat
  BY <1>1, <1>2
<1>8. CASE WaitingForByte(r)
  <2>1. pc[r] \in {"dial", "stream"} /\ ~ try[r].byte
    BY <1>1, <1>8 DEF WaitingForByte, DeadlineAt
  <2>2. try'[r].sent = try[r].sent + 1
    BY <1>3, <2>1
  <2>3. /\ pc[r] = "dial" => try[r].sent + 1 <= HeaderTimeout
        /\ pc[r] = "stream" => try[r].sent + 1 <= FirstByteTimeout
    BY <1>1, <1>2, <2>1 DEF Waiting, HeadersOverdue, FirstByteOverdue
  <2>4. elapsed'[r] + HeaderTimeout
           <= PlanBudget + try[r].redials * HeaderTimeout + (try[r].sent + 1)
    BY <1>1, <1>2, <1>4, <1>7, <1>8 DEF DeadlineAt
  <2>5. DeadlineAt(r)'
    BY <1>1, <1>3, <2>1, <2>2, <2>3, <2>4 DEF DeadlineAt
  <2>6. QED
    BY <1>6, <2>5
<1>9. CASE ~ WaitingForByte(r)
  <2>1. DeadlineAt(r)'
    BY <1>1, <1>3, <1>4, <1>5, <1>9 DEF DeadlineAt, WaitingForByte
  <2>2. QED
    BY <1>6, <2>1
<1>10. QED
  BY <1>8, <1>9

\* Every step of a request keeps its part.
LEMMA RequestKeeps ==
    ASSUME TypeOK, NEW r \in Requests, DeadlineAt(r), HostOrderAt(r),
           Caller(r) \/ Engine(r) \/ Upstream(r)
    PROVE  Keeps(r)
  BY PlanKeeps, LoopKeeps, StartKeeps, EndKeeps, AdapterKeeps, StreamKeeps, WholeKeeps, PauseKeeps,
     SlotKeeps
  DEF Caller, Engine, Upstream

\* Every step keeps the invariant.
LEMMA NextPlanInv ==
    ASSUME TypeOK, PlanInv, [Next]_vars
    PROVE  PlanInv'
<1>1. CASE Tick
  BY <1>1, TickKeeps
<1>2. ASSUME NEW q \in Requests, Caller(q) \/ Engine(q) \/ Upstream(q)
      PROVE  PlanInv'
  <2>1. Keeps(q) /\ OthersKeep(q)
    BY <1>2, RequestKeeps, RequestSteps DEF PlanInv, StepOK
  <2>2. ASSUME NEW r \in Requests, r # q
        PROVE  DeadlineAt(r)' /\ HostOrderAt(r)'
    <3>1. /\ pc'[r] = pc[r] /\ try'[r] = try[r] /\ plan'[r] = plan[r] /\ elapsed'[r] = elapsed[r]
          /\ DeadlineAt(r) /\ HostOrderAt(r)
      BY <2>1, <2>2 DEF Keeps, Apart, OthersKeep, PlanInv
    <3>2. QED
      BY <3>1 DEF DeadlineAt, HostOrderAt, WaitingForByte, Tried, OtherHosts, SameHost
  <2>3. QED
    BY <2>1, <2>2 DEF Keeps, PlanInv
<1>3. CASE UNCHANGED vars
  BY <1>3 DEF vars, PlanInv, DeadlineAt, HostOrderAt, WaitingForByte, Tried, OtherHosts, SameHost
<1>4. QED
  BY <1>1, <1>2, <1>3 DEF Next

\* At the start every clock stands and nothing has been tried.
LEMMA InitPlanInv == Init => PlanInv
  BY DEF Init, PlanInv, DeadlineAt, HostOrderAt, WaitingForByte, NoAttempt, Starting

---------------------------------------------------------------------------
(* The theorems. *)

\* The part of the invariant that TypeCorrect does not say holds in every behaviour.
LEMMA PlanInvariance == Spec => []PlanInv
<1>1. TypeOK /\ PlanInv /\ [Next]_vars => PlanInv'
  BY NextPlanInv
<1>2. QED
  BY TypeCorrect, InitPlanInv, <1>1, PTL DEF Spec

\* How late an attempt may still wait for its first byte.  The plan funds a candidate with one header
\* timeout; each redial takes another that nothing funds, and a first byte may take longer than the
\* headers.
PlanOverrun ==
    \A r \in Requests :
        WaitingForByte(r) =>
            elapsed[r] <= PlanBudget + try[r].redials * HeaderTimeout
                                     + (FirstByteTimeout - HeaderTimeout)

\* The bound the code does keep, under nothing but the ordering that its test pins
\* (egress.rs:2087-2131): a plan's budget is overrun by at most a header timeout for each redial of the
\* attempt, and by what the first byte may take longer than the headers.
THEOREM OverrunIsBounded == Spec => []PlanOverrun
<1>1. TypeOK /\ PlanInv => PlanOverrun
  <2> SUFFICES ASSUME TypeOK, PlanInv, NEW r \in Requests, WaitingForByte(r)
               PROVE  elapsed[r] <= PlanBudget + try[r].redials * HeaderTimeout
                                              + (FirstByteTimeout - HeaderTimeout)
    BY DEF PlanOverrun
  <2>1. /\ try[r] \in Attempt /\ elapsed[r] \in Nat
        /\ HeaderTimeout \in Nat /\ PlanBudget \in Nat /\ FirstByteTimeout \in Nat
    BY FailoverAssumption DEF TypeOK
  <2>2. try[r].sent \in Nat /\ try[r].redials \in Nat
    BY <2>1, FailoverAssumption DEF Attempt
  <2>3. try[r].redials * HeaderTimeout \in Nat
    BY <2>1, <2>2
  <2>4. elapsed[r] + HeaderTimeout <= PlanBudget + try[r].redials * HeaderTimeout + try[r].sent
    BY DEF PlanInv, DeadlineAt
  <2>5. try[r].sent <= FirstByteTimeout
    BY <2>1, <2>2, DeadlineAssumption DEF PlanInv, DeadlineAt, WaitingForByte
  <2>6. QED
    BY <2>1, <2>2, <2>3, <2>4, <2>5
<1>2. QED
  BY TypeCorrect, PlanInvariance, <1>1, PTL

\* What candidate_is_affordable asked for when the candidate was taken, or put back, is still there
\* while its first dial waits (engine/attempt.rs:176-183).
THEOREM FundingHolds == Spec => []FundedInFull
<1>1. TypeOK /\ PlanInv => FundedInFull
  <2> SUFFICES ASSUME TypeOK, PlanInv, NEW r \in Requests, WaitingForByte(r), try[r].redials = 0
               PROVE  elapsed[r] + HeaderTimeout <= PlanBudget + try[r].sent
    BY DEF FundedInFull
  <2>1. try[r].redials * HeaderTimeout = 0 /\ PlanBudget \in Nat
    BY FailoverAssumption
  <2>2. elapsed[r] + HeaderTimeout <= PlanBudget + try[r].redials * HeaderTimeout + try[r].sent
    BY DEF PlanInv, DeadlineAt
  <2>3. PlanBudget + try[r].redials * HeaderTimeout = PlanBudget
    BY <2>1
  <2>4. QED
    BY <2>2, <2>3
<1>2. QED
  BY TypeCorrect, PlanInvariance, <1>1, PTL

\* An attempt begins in StartAttempt, whoever's step it is.
LEMMA DialsStart ==
    ASSUME TypeOK, PlanInv, [Next]_vars, NEW r \in Requests,
           pc[r] # "adapter", pc'[r] = "adapter"
    PROVE  StartAttempt(r)
<1>1. ~ Tick /\ ~ UNCHANGED vars
  BY DEF Tick, vars
<1>2. PICK q \in Requests : Caller(q) \/ Engine(q) \/ Upstream(q)
  BY <1>1 DEF Next
<1>3. q = r
  BY <1>2, RequestSteps DEF StepOK, OthersKeep
<1>4. QED
  BY <1>2, <1>3, RequestKeeps DEF PlanInv, Keeps, Apart

\* The front of a plan that a NETWORK failure reordered is another host's.
LEMMA NextHostIsOther ==
    ASSUME TypeOK, PlanInv, [Next]_vars, NEW r \in Requests,
           pc[r] = "next", pc'[r] = "adapter", try[r].lost, OtherHosts(r) # {}
    PROVE  HostOf(try'[r].cand) # HostOf(try[r].cand)
<1>1. StartAttempt(r)
  BY DialsStart
<1>2. PICK c \in plan[r] : Front(r, c) /\ try' = [try EXCEPT ![r] = Starting(c)]
  BY <1>1 DEF StartAttempt, Enter
<1>3. try'[r].cand = c
  BY <1>2 DEF TypeOK, Starting
<1>4. PICK o \in OtherHosts(r) : TRUE
  OBVIOUS
<1>5. o \in plan[r] /\ o.rank \in Nat /\ c.rank \in Nat /\ c.rank <= o.rank
  BY <1>2, <1>4 DEF OtherHosts, Front, TypeOK, Candidate
<1>6. c \notin SameHost(r)
  BY <1>4, <1>5 DEF PlanInv, HostOrderAt
<1>7. QED
  BY <1>2, <1>3, <1>6 DEF SameHost, OtherHosts

\* After a NETWORK failure the next candidate to be dialled is another provider's, when the plan
\* has one left (engine/text.rs:198-214, 622-628).
THEOREM NetworkFailureChangesHost == Spec => OtherHostNext
<1>1. TypeOK /\ PlanInv /\ [Next]_vars =>
        [\A r \in Requests :
            /\ pc[r] = "next" /\ pc'[r] = "adapter"
            /\ try[r].lost
            /\ OtherHosts(r) # {}
            => HostOf(try'[r].cand) # HostOf(try[r].cand)]_vars
  BY NextHostIsOther
<1>2. QED
  BY TypeCorrect, PlanInvariance, <1>1, PTL DEF Spec, OtherHostNext

---------------------------------------------------------------------------
(* The breaker. *)

\* A failure never lowers the count, and time leaves it (engine/health.rs:196-236).
LEMMA FailuresCount ==
    ASSUME NEW h \in Health
    PROVE  /\ Older(h).fails = h.fails
           /\ \A c \in Class, ra \in Nat : Failed(h, c, ra).fails >= h.fails
<1>1. h.fails \in 0 .. AuthThreshold /\ AuthThreshold \in Nat
  BY KeyHealthAssumption DEF Health
<1>2. Older(h).fails = h.fails
  BY DEF Older, Health
<1>3. ASSUME NEW c \in Class, NEW ra \in Nat
      PROVE  Failed(h, c, ra).fails >= h.fails
  <2>1. RateLimited(h, ra).fails = h.fails
    BY DEF RateLimited, Health
  <2>2. AuthFailed(h).fails >= h.fails
    BY <1>1 DEF AuthFailed, Health
  <2>3. QED
    BY <1>1, <2>1, <2>2 DEF Failed, Class
<1>4. QED
  BY <1>2, <1>3

\* A step that records a failure of r's key lowers nobody's count.
LEMMA FailureRemembers ==
    ASSUME TypeOK, NEW r \in Requests, pc[r] \in Holding, NEW c \in Class, NEW ra \in Nat,
           Record(r, Failed(health[KeyOf(r)], c, ra)), NEW k \in Keys
    PROVE  ~ (health'[k].fails < health[k].fails)
<1>1. /\ health[k] \in Health /\ KeyOf(r) \in Keys
      /\ health' = [health EXCEPT ![KeyOf(r)] = Failed(health[KeyOf(r)], c, ra)]
  BY DEF TypeOK, Tried, Attempt, Candidate, KeyOf, Record
<1>2. health[k].fails \in Nat /\ AuthThreshold \in Nat
  BY <1>1, KeyHealthAssumption DEF Health
<1>3. CASE k = KeyOf(r)
  <2>1. health'[k] = Failed(health[k], c, ra)
    BY <1>1, <1>3 DEF TypeOK
  <2>2. health'[k] \in Health /\ health'[k].fails >= health[k].fails
    BY <1>1, <2>1, HealthTypes, FailuresCount
  <2>3. health'[k].fails \in Nat
    BY <1>2, <2>2 DEF Health
  <2>4. QED
    BY <1>2, <2>2, <2>3
<1>4. CASE k # KeyOf(r)
  <2>1. health'[k] = health[k]
    BY <1>1, <1>4 DEF TypeOK
  <2>2. QED
    BY <1>2, <2>1
<1>5. QED
  BY <1>3, <1>4

\* Only a step that serves a request lowers a count, and it is that of the key that served.
LEMMA StepRemembers ==
    ASSUME TypeOK, [Next]_vars, NEW k \in Keys, health'[k].fails < health[k].fails
    PROVE  \E r \in Requests : pc[r] = "stream" /\ pc'[r] = "done" /\ KeyOf(r) = k
<1>1. health[k] \in Health /\ health[k].fails \in Nat
  BY KeyHealthAssumption DEF TypeOK, Health
<1>2. health' # health
  BY <1>1
<1>3. ~ Tick
  <2>1. SUFFICES ASSUME Tick PROVE FALSE
    OBVIOUS
  <2>2. health'[k].fails = health[k].fails
    BY <1>1, <2>1, FailuresCount DEF Tick
  <2>3. QED
    BY <1>1, <2>2
<1>4. PICK r \in Requests : Caller(r) \/ Engine(r) \/ Upstream(r)
  BY <1>2, <1>3 DEF Next, vars
<1>5. \/ AdapterFails(r) \/ Refused(r) \/ HeaderTimesOut(r) \/ FirstByteTimesOut(r)
      \/ StreamBreaks(r) \/ OutputTimesOut(r) \/ StreamEnds(r) \/ CancelCuts(r)
  BY <1>2, <1>4
  DEF Caller, Engine, Upstream, Begin, WakeUp, StopCancelled, SkipSaturated, OverBudget,
      StartAttempt, Exhausted, AdapterReady, PauseEnds, ErrorStatus, UnaryAnswers, Redial, Headers,
      FirstByte, Reasoning, Output, Cancel, Retire, shared
<1>6. ~ (pc[r] \in Holding
         /\ \E c \in Class, ra \in Nat : Record(r, Failed(health[KeyOf(r)], c, ra)))
  BY FailureRemembers
<1>7. Served(r) /\ pc[r] = "stream"
  <2>1. CASE AdapterFails(r)
    BY <1>6, <2>1 DEF AdapterFails, Holding, Class
  <2>2. CASE \/ Refused(r) \/ HeaderTimesOut(r) \/ FirstByteTimesOut(r) \/ StreamBreaks(r)
             \/ CancelCuts(r) /\ pc[r] # "stream"
    <3>1. /\ pc[r] \in Holding
          /\ \E c \in Class, ra \in Nat : AttemptFails(r, c, ra)
      BY <2>2, KeyHealthAssumption
      DEF Refused, HeaderTimesOut, HeadersOverdue, FirstByteTimesOut, FirstByteOverdue,
          StreamBreaks, CancelCuts, Holding, Class
    <3>2. QED
      BY <1>2, <1>6, <3>1 DEF AttemptFails
  <2>3. QED
    BY <1>5, <2>1, <2>2 DEF OutputTimesOut, OutputOverdue, StreamEnds, CancelCuts
<1>8. pc'[r] = "done"
  BY <1>7, ServedOver DEF Holding
<1>9. KeyOf(r) = k
  <2>1. health' = [health EXCEPT ![KeyOf(r)] = Recovered(health[KeyOf(r)])]
    BY <1>7 DEF Served, Record
  <2>2. SUFFICES ASSUME KeyOf(r) # k PROVE FALSE
    OBVIOUS
  <2>3. health'[k] = health[k]
    BY <2>1, <2>2 DEF TypeOK
  <2>4. QED
    BY <1>1, <2>3
<1>10. QED
  BY <1>7, <1>8, <1>9

\* The breaker forgets nothing but by a success with that very key (engine/health.rs:196-236).
THEOREM FailuresAreRemembered == Spec => BreakerRemembers
<1>1. TypeOK /\ [Next]_vars =>
        [\A k \in Keys :
            health'[k].fails < health[k].fails
            => \E r \in Requests : pc[r] = "stream" /\ pc'[r] = "done" /\ KeyOf(r) = k]_vars
  BY StepRemembers
<1>2. QED
  BY TypeCorrect, <1>1, PTL DEF Spec, BreakerRemembers
---------------------------------------------------------------------------
(* How often a request dials.  *)

\* A candidate is dialled once, and again for as many server errors or network failures as the
\* larger of the two limits allows (engine/attempt.rs:260, :277).
Reprobes == Max2(ServerReprobes, NetworkReprobes)

\* What a candidate dials: a key, for a model.
Route(c) == <<c.key, c.model>>

\* A route has one candidate, which waits in the queue or is at work, and a pause is followed by a
\* dial that the limits still allow.
QueueAt(r) ==
    /\ \A c, d \in plan[r] : Route(c) = Route(d) => c = d
    /\ \A c \in plan[r] : c.round <= Reprobes
    /\ pc[r] \in Holding => /\ \A c \in plan[r] : Route(c) # Route(try[r].cand)
                            /\ try[r].cand.round <= Reprobes
    /\ pc[r] = "pause" => try[r].cand.round < Reprobes

\* The routes a request may still dial, and the one it is at.
RoutesLeft(r) ==
    {t \in Keys \X Models : \/ \E c \in plan[r] : Route(c) = t
                            \/ pc[r] \in Holding /\ Route(try[r].cand) = t}

\* The dials a request may still start: a route, and how often it will have been re-probed.
DialsAhead(r) ==
    {p \in (Keys \X Models) \X (0 .. Reprobes) :
        \/ \E c \in plan[r] : Route(c) = p[1] /\ c.round <= p[2]
        \/ pc[r] \in Holding /\ Route(try[r].cand) = p[1] /\ try[r].cand.round < p[2]}

\* What a step of r does with its queue: it plans anew, or leaves the queue and the candidate,
\* drops some of the queue and the candidate, dials one of the queue, puts the candidate's host
\* last, or puts the candidate back.
Plans(r) ==
    /\ pc[r] \in {"idle", "cool"} /\ pc'[r] = "next"
    /\ \E order \in Orders, failover \in BOOLEAN : plan'[r] = Budgeted(BuildPlan(order, failover))
Stands(r) ==
    /\ plan'[r] = plan[r] /\ try'[r].cand = try[r].cand
    /\ pc'[r] \in Holding <=> pc[r] \in Holding
    /\ pc'[r] = "pause" => pc[r] = "pause" \/ try[r].cand.round < Reprobes
Drops(r) == plan'[r] \subseteq plan[r] /\ pc'[r] \notin Holding
Dials(r) ==
    /\ pc[r] = "next" /\ pc'[r] = "adapter"
    /\ \E c \in plan[r] : plan'[r] = plan[r] \ {c} /\ try'[r].cand = c
PutsLast(r) == \E last \in Nat : plan'[r] = Deferred(r, last) /\ pc'[r] \notin Holding
PutsBack(r) ==
    /\ pc[r] = "pause" /\ pc'[r] \notin Holding
    /\ plan'[r] = plan[r] \cup {[try[r].cand EXCEPT !.round = @ + 1]}

Queues(r) == Plans(r) \/ Stands(r) \/ Drops(r) \/ Dials(r) \/ PutsLast(r) \/ PutsBack(r)

\* A request whose row is written has no queue (core/router.rs).
LEMMA WriteQueues ==
    ASSUME TypeOK, NEW r \in Requests, NEW class, Write(r, class)
    PROVE  Queues(r)
  BY DEF Write, TypeOK, Queues, Drops, Holding

\* Planning fills the queue, or leaves it while the request waits (engine/text.rs:222-261).
LEMMA PlanQueues ==
    ASSUME TypeOK, NEW r \in Requests, Begin(r) \/ WakeUp(r)
    PROVE  Queues(r)
<1>1. pc[r] \in {"idle", "cool"}
  BY DEF Begin, WakeUp
<1>2. PICK left \in Nat : PlanOrWait(r, left)
  BY FailoverAssumption DEF Begin, WakeUp, TypeOK
<1>3. CASE \E class : Write(r, class)
  BY <1>3, WriteQueues
<1>4. CASE \E t : SleepUntilRetry(r, left, t)
  <2>1. pc'[r] = "cool" /\ plan' = plan
    BY <1>4 DEF SleepUntilRetry, TypeOK
  <2>2. QED
    BY <2>1 DEF Queues, Drops, Holding
<1>5. CASE \E order \in Orders, failover \in BOOLEAN : StartPlan(r, BuildPlan(order, failover))
  <2>1. PICK order \in Orders, failover \in BOOLEAN : StartPlan(r, BuildPlan(order, failover))
    BY <1>5
  <2>2. pc'[r] = "next" /\ plan'[r] = Budgeted(BuildPlan(order, failover))
    BY <2>1 DEF StartPlan, TypeOK
  <2>3. QED
    BY <1>1, <2>2 DEF Queues, Plans
<1>6. QED
  BY <1>2, <1>3, <1>4, <1>5 DEF PlanOrWait

\* The head of the loop takes candidates from the queue (engine/text.rs:268-299).
LEMMA LoopQueues ==
    ASSUME TypeOK, NEW r \in Requests,
           \/ StopCancelled(r) \/ SkipSaturated(r) \/ OverBudget(r) \/ Exhausted(r)
           \/ StartAttempt(r)
    PROVE  Queues(r)
<1>1. CASE StopCancelled(r) \/ OverBudget(r) \/ Exhausted(r)
  BY <1>1, WriteQueues DEF StopCancelled, OverBudget, Exhausted
<1>2. CASE SkipSaturated(r)
  <2>1. PICK c \in plan[r] : plan' = [plan EXCEPT ![r] = @ \ {c}]
    BY <1>2 DEF SkipSaturated, Pop
  <2>2. pc'[r] = "next" /\ plan'[r] \subseteq plan[r]
    BY <1>2, <2>1 DEF SkipSaturated, TypeOK
  <2>3. QED
    BY <2>2 DEF Queues, Drops, Holding
<1>3. CASE StartAttempt(r)
  <2>1. PICK c \in plan[r] : /\ plan' = [plan EXCEPT ![r] = @ \ {c}]
                             /\ try' = [try EXCEPT ![r] = Starting(c)]
    BY <1>3 DEF StartAttempt, Pop, Enter
  <2>2. pc[r] = "next" /\ pc'[r] = "adapter" /\ plan'[r] = plan[r] \ {c} /\ try'[r] = Starting(c)
    BY <1>3, <2>1 DEF StartAttempt, TypeOK
  <2>3. try'[r].cand = c
    BY <2>2 DEF Starting
  <2>4. QED
    BY <2>2, <2>3 DEF Queues, Dials
<1>4. QED
  BY <1>1, <1>2, <1>3

\* A failed attempt leaves the queue, puts its host last, or pauses while the limit allows another
\* dial (engine/text.rs:484-660).
LEMMA FailQueues ==
    ASSUME TypeOK, NEW r \in Requests, pc[r] \in Holding,
           NEW c \in Class, NEW ra \in Nat, AttemptFails(r, c, ra)
    PROVE  Queues(r)
<1>1. try[r] \in Attempt /\ try[r].cand \in Candidate
  BY DEF TypeOK, Tried, Attempt
<1>2. CASE \E class : Write(r, class)
  BY <1>2, WriteQueues
<1>3. CASE ~ Emitted(r) /\ Advance(r, c, ra)
  <2>1. try' = [try EXCEPT ![r] = [Starting(@.cand) EXCEPT !.lost = (c = "Network")]]
    BY <1>3 DEF AttemptFails
  <2>2. try'[r].cand = try[r].cand
    <3>1. try'[r] = [Starting(try[r].cand) EXCEPT !.lost = (c = "Network")]
      BY <2>1 DEF TypeOK
    <3>2. QED
      BY <3>1 DEF Starting
  <2>3. CASE MoveOn(r) /\ UNCHANGED plan
    BY <2>3 DEF MoveOn, TypeOK, Queues, Drops, Holding
  <2>4. CASE \E last \in plan[r] : MoveOn(r) /\ plan' = [plan EXCEPT ![r] = Deferred(r, last.rank)]
    <3>1. PICK last \in plan[r] : MoveOn(r) /\ plan' = [plan EXCEPT ![r] = Deferred(r, last.rank)]
      BY <2>4
    <3>2. pc'[r] = "next" /\ plan'[r] = Deferred(r, last.rank)
      BY <3>1 DEF MoveOn, TypeOK
    <3>3. last.rank \in Nat
      BY DEF TypeOK, Candidate
    <3>4. QED
      BY <3>2, <3>3 DEF Queues, PutsLast, Holding
  <2>5. CASE \E max \in {ServerReprobes, NetworkReprobes} :
                try[r].cand.round < max /\ \E wait : Pause(r, wait)
    <3>1. PICK max \in {ServerReprobes, NetworkReprobes} :
                  try[r].cand.round < max /\ \E wait : Pause(r, wait)
      BY <2>5
    <3>2. PICK wait : Pause(r, wait)
      BY <3>1
    <3>3. pc'[r] = "pause" /\ plan' = plan
      BY <3>2 DEF Pause, TypeOK
    <3>4. try[r].cand.round \in Nat /\ max \in Nat /\ max <= Reprobes /\ Reprobes \in Nat
      BY <1>1, FailoverAssumption DEF Candidate, Reprobes, Max2
    <3>5. try[r].cand.round < Reprobes
      BY <3>1, <3>4
    <3>6. QED
      BY <2>2, <3>3, <3>5 DEF Queues, Stands, Holding
  <2>6. QED
    <3>1. CASE c = "ServerError"
      BY <1>3, <2>3, <2>5, <3>1 DEF Advance, AfterServerError, MayReprobe
    <3>2. CASE c = "Network"
      BY <1>3, <2>3, <2>4, <2>5, <3>2 DEF Advance, AfterNetworkError, MayReprobe
    <3>3. CASE c # "ServerError" /\ c # "Network"
      BY <1>3, <2>3, <3>3 DEF Advance
    <3>4. QED
      BY <3>1, <3>2, <3>3
<1>4. QED
  BY <1>2, <1>3 DEF AttemptFails, End

\* The end of an attempt, however it comes (engine/text.rs:435-660).
LEMMA EndQueues ==
    ASSUME TypeOK, NEW r \in Requests,
           \/ Refused(r) \/ HeaderTimesOut(r) \/ FirstByteTimesOut(r) \/ AdapterFails(r)
           \/ StreamBreaks(r) \/ OutputTimesOut(r) \/ StreamEnds(r) \/ CancelCuts(r)
    PROVE  Queues(r)
<1>1. pc[r] \in Holding
  BY DEF Refused, HeaderTimesOut, HeadersOverdue, FirstByteTimesOut, FirstByteOverdue,
         AdapterFails, StreamBreaks, OutputTimesOut, OutputOverdue, StreamEnds, CancelCuts, Holding
<1>2. CASE \E c \in Class, ra \in Nat : AttemptFails(r, c, ra)
  BY <1>1, <1>2, FailQueues
<1>3. CASE Served(r)
  BY <1>3, WriteQueues DEF Served, End
<1>4. CASE AdapterFails(r)
  <2>1. CASE MoveOn(r) /\ UNCHANGED plan
    BY <2>1 DEF MoveOn, TypeOK, Queues, Drops, Holding
  <2>2. QED
    BY <1>4, <2>1, WriteQueues DEF AdapterFails, End
<1>5. QED
  BY <1>2, <1>3, <1>4, KeyHealthAssumption
  DEF Refused, HeaderTimesOut, FirstByteTimesOut, StreamBreaks, OutputTimesOut, StreamEnds, CancelCuts,
    Class

\* What an attempt goes through while it lasts leaves the queue (egress.rs:706-780).
LEMMA AttemptQueues ==
    ASSUME TypeOK, NEW r \in Requests,
           \/ AdapterReady(r) \/ ErrorStatus(r) \/ UnaryAnswers(r) \/ Headers(r)
           \/ Redial(r) \/ FirstByte(r) \/ Reasoning(r) \/ Output(r)
    PROVE  Queues(r)
<1>1. try[r] \in Attempt
  BY DEF TypeOK
<1>2. plan' = plan /\ pc[r] \in Holding /\ pc'[r] \in Holding \ {"pause"}
  BY DEF AdapterReady, ErrorStatus, UnaryAnswers, Headers, Redial, FirstByte, Reasoning, Output,
         TypeOK, Holding
<1>3. try'[r].cand = try[r].cand
  BY <1>1 DEF AdapterReady, ErrorStatus, UnaryAnswers, Headers, Redial, FirstByte, Reasoning,
              Output, TypeOK, Attempt
<1>4. QED
  BY <1>2, <1>3 DEF Queues, Stands

\* The pause is over, the caller cancels, the slot is freed.
LEMMA SlotQueues ==
    ASSUME TypeOK, NEW r \in Requests, PauseEnds(r) \/ Cancel(r) \/ Retire(r)
    PROVE  Queues(r)
<1>1. CASE PauseEnds(r)
  BY <1>1 DEF PauseEnds, MoveOn, TypeOK, Queues, PutsBack, Holding
<1>2. CASE Cancel(r)
  BY <1>2 DEF Cancel, Queues, Stands
<1>3. CASE Retire(r)
  BY <1>3 DEF Retire, TypeOK, Queues, Drops, Holding
<1>4. QED
  BY <1>1, <1>2, <1>3

LEMMA RequestQueues ==
    ASSUME TypeOK, NEW r \in Requests, Caller(r) \/ Engine(r) \/ Upstream(r)
    PROVE  Queues(r)
  BY PlanQueues, LoopQueues, EndQueues, AttemptQueues, SlotQueues DEF Caller, Engine, Upstream
\* The limits are numbers.
LEMMA ReprobesType == Reprobes \in Nat
  BY FailoverAssumption DEF Reprobes, Max2

\* A candidate that is put last keeps its route and its round (engine/text.rs:198-214).
LEMMA DeferredIsOld ==
    ASSUME TypeOK, NEW r \in Requests, NEW last \in Nat, NEW d \in Deferred(r, last)
    PROVE  \E e \in plan[r] :
              /\ Route(d) = Route(e) /\ d.round = e.round
              /\ d = IF e \in OtherHosts(r) THEN e ELSE [e EXCEPT !.rank = @ + last]
<1>1. CASE d \in OtherHosts(r)
  BY <1>1 DEF OtherHosts
<1>2. CASE d \notin OtherHosts(r)
  <2>1. PICK e \in SameHost(r) : d = [e EXCEPT !.rank = @ + last]
    BY <1>2 DEF Deferred
  <2>2. e \in plan[r] /\ e \notin OtherHosts(r) /\ e \in Candidate
    BY DEF SameHost, TypeOK
  <2>3. Route(d) = Route(e) /\ d.round = e.round
    BY <2>1, <2>2 DEF Candidate, Route
  <2>4. QED
    BY <2>1, <2>2, <2>3
<1>3. QED
  BY <1>1, <1>2

\* Every way of going on but planning keeps one candidate a route and takes no dial back: a dial
\* that starts is spent.
LEMMA QueueSpent ==
    ASSUME TypeOK, NEW r \in Requests, QueueAt(r), Queues(r), ~ Plans(r)
    PROVE  /\ QueueAt(r)'
           /\ RoutesLeft(r)' \subseteq RoutesLeft(r)
           /\ DialsAhead(r)' \subseteq DialsAhead(r)
           /\ pc[r] = "next" /\ pc'[r] = "adapter" => DialsAhead(r)' # DialsAhead(r)
<1>1. /\ plan[r] \subseteq Candidate /\ Reprobes \in Nat
      /\ pc[r] \in Holding => try[r].cand \in Candidate
  BY ReprobesType DEF TypeOK, Tried, Attempt
<1>2. "next" \notin Holding /\ "adapter" \in Holding /\ "pause" \in Holding
  BY DEF Holding
<1>3. CASE Stands(r)
  <2>1. QueueAt(r)'
    BY <1>2, <1>3 DEF Stands, QueueAt
  <2>2. RoutesLeft(r)' \subseteq RoutesLeft(r) /\ DialsAhead(r)' \subseteq DialsAhead(r)
    BY <1>3 DEF Stands, RoutesLeft, DialsAhead
  <2>3. QED
    BY <1>2, <1>3, <2>1, <2>2 DEF Stands
<1>4. CASE Drops(r)
  <2>1. QueueAt(r)'
    BY <1>2, <1>4 DEF Drops, QueueAt
  <2>2. RoutesLeft(r)' \subseteq RoutesLeft(r) /\ DialsAhead(r)' \subseteq DialsAhead(r)
    BY <1>4 DEF Drops, RoutesLeft, DialsAhead
  <2>3. QED
    BY <1>2, <1>4, <2>1, <2>2 DEF Drops
<1>5. CASE Dials(r)
  <2>1. PICK c \in plan[r] : plan'[r] = plan[r] \ {c} /\ try'[r].cand = c
    BY <1>5 DEF Dials
  <2>2. /\ pc[r] \notin Holding /\ pc'[r] \in Holding /\ pc'[r] # "pause"
        /\ c \in Candidate /\ c.round \in 0 .. Reprobes /\ Route(c) \in Keys \X Models
    BY <1>1, <1>2, <1>5, <2>1 DEF Dials, QueueAt, Candidate, Route
  <2>3. QueueAt(r)'
    BY <2>1, <2>2 DEF QueueAt
  <2>4. RoutesLeft(r)' \subseteq RoutesLeft(r)
    BY <2>1, <2>2 DEF RoutesLeft
  <2>5. DialsAhead(r)' \subseteq DialsAhead(r)
    BY <2>1, <2>2 DEF DialsAhead
  <2>6. <<Route(c), c.round>> \in DialsAhead(r)
    BY <2>2 DEF DialsAhead, Candidate
  <2>7. <<Route(c), c.round>> \notin DialsAhead(r)'
    BY <2>1, <2>2 DEF DialsAhead, QueueAt
  <2>8. QED
    BY <2>3, <2>4, <2>5, <2>6, <2>7
<1>6. CASE PutsLast(r)
  <2>1. PICK last \in Nat : plan'[r] = Deferred(r, last) /\ pc'[r] \notin Holding
    BY <1>6 DEF PutsLast
  <2>2. \A d \in plan'[r] : \E e \in plan[r] : Route(d) = Route(e) /\ d.round = e.round
    BY <2>1, DeferredIsOld
  <2>3. ASSUME NEW c \in plan'[r], NEW d \in plan'[r], Route(c) = Route(d)
        PROVE  c = d
    <3>1. PICK e \in plan[r] :
             /\ Route(c) = Route(e)
             /\ c = IF e \in OtherHosts(r) THEN e ELSE [e EXCEPT !.rank = @ + last]
      BY <2>1, DeferredIsOld
    <3>2. PICK f \in plan[r] :
             /\ Route(d) = Route(f)
             /\ d = IF f \in OtherHosts(r) THEN f ELSE [f EXCEPT !.rank = @ + last]
      BY <2>1, DeferredIsOld
    <3>3. e = f
      BY <2>3, <3>1, <3>2 DEF QueueAt
    <3>4. QED
      BY <3>1, <3>2, <3>3
  <2>4. QueueAt(r)'
    BY <1>2, <2>1, <2>2, <2>3 DEF QueueAt
  <2>5. RoutesLeft(r)' \subseteq RoutesLeft(r)
    BY <2>1, <2>2 DEF RoutesLeft
  <2>6. DialsAhead(r)' \subseteq DialsAhead(r)
    BY <2>1, <2>2 DEF DialsAhead
  <2>7. QED
    BY <1>2, <2>1, <2>4, <2>5, <2>6
<1>7. CASE PutsBack(r)
  <2> DEFINE again == [try[r].cand EXCEPT !.round = @ + 1]
  <2>1. /\ plan'[r] = plan[r] \cup {again} /\ pc'[r] \notin Holding
        /\ pc[r] = "pause" /\ try[r].cand \in Candidate
    BY <1>1, <1>2, <1>7 DEF PutsBack
  <2>2. /\ Route(again) = Route(try[r].cand) /\ again.round = try[r].cand.round + 1
        /\ try[r].cand.round \in Nat
    BY <2>1 DEF Candidate, Route
  <2> HIDE DEF again
  <2>3. try[r].cand.round < Reprobes /\ \A c \in plan[r] : Route(c) # Route(again)
    BY <1>2, <2>1, <2>2 DEF QueueAt
  <2>4. QueueAt(r)'
    BY <1>1, <1>2, <2>1, <2>2, <2>3 DEF QueueAt
  <2>5. RoutesLeft(r)' \subseteq RoutesLeft(r)
    BY <1>2, <2>1, <2>2 DEF RoutesLeft
  <2>6. DialsAhead(r)' \subseteq DialsAhead(r)
    <3>1. SUFFICES ASSUME NEW t \in Keys \X Models, NEW n \in 0 .. Reprobes,
                          <<t, n>> \in DialsAhead(r)'
                   PROVE  <<t, n>> \in DialsAhead(r)
      BY DEF DialsAhead
    <3>2. PICK c \in plan[r] \cup {again} : Route(c) = t /\ c.round <= n
      BY <2>1, <3>1 DEF DialsAhead
    <3>3. CASE c \in plan[r]
      BY <3>2, <3>3 DEF DialsAhead
    <3>4. CASE c = again
      <4>1. Route(try[r].cand) = t /\ try[r].cand.round < n
        BY <2>2, <3>2, <3>4
      <4>2. QED
        BY <1>2, <2>1, <4>1 DEF DialsAhead
    <3>5. QED
      BY <3>2, <3>3, <3>4
  <2>7. QED
    BY <1>2, <2>1, <2>4, <2>5, <2>6
<1>8. QED
  BY <1>3, <1>4, <1>5, <1>6, <1>7 DEF Queues
\* The planner makes one candidate of a route, on its first round (planner.rs:164-180).
LEMMA PlannedOnce ==
    ASSUME NEW order \in Orders, NEW failover \in BOOLEAN, NEW c \in BuildPlan(order, failover)
    PROVE  /\ Route(c) \in DOMAIN order
           /\ c.round = 0 /\ c.rank = order[Route(c)]
           /\ \A d \in BuildPlan(order, failover) : Route(c) = Route(d) => c = d
<1>1. ASSUME NEW d \in BuildPlan(order, failover)
      PROVE  /\ Route(d) \in DOMAIN order
             /\ d = [key |-> Route(d)[1], model |-> Route(d)[2], round |-> 0,
                     rank |-> order[Route(d)]]
  <2>1. PICK p \in DOMAIN order : d = [key |-> p[1], model |-> p[2], round |-> 0, rank |-> order[p]]
    BY DEF BuildPlan, UsableRoutes
  <2>2. p \in Keys \X Models
    BY FailoverAssumption
  <2>3. Route(d) = p
    BY <2>1, <2>2 DEF Route
  <2>4. QED
    BY <2>1, <2>3
<1>2. QED
  BY <1>1

\* The routes of a plan are cut to the attempts the request may have: each has its place in the
\* queue, and the candidates before it are fewer (engine/attempt.rs:311-313).
LEMMA BudgetedRoutes ==
    ASSUME NEW order \in Orders, NEW failover \in BOOLEAN,
           NEW B, B = Budgeted(BuildPlan(order, failover)),
           NEW T, T = {Route(c) : c \in B}
    PROVE  IsFiniteSet(T) /\ Cardinality(T) <= MaxAttempts
<1> DEFINE p == BuildPlan(order, failover)
           Ahead(t) == {d \in p : d.rank < order[t]}
           place == [t \in T |-> Cardinality(Ahead(t))]
<1>1. /\ MaxAttempts \in Nat /\ order \in [DOMAIN order -> Nat \ {0}] /\ IsFiniteSet(DOMAIN order)
      /\ \A s, t \in DOMAIN order : order[s] = order[t] => s = t
  BY FailoverAssumption, QueueAssumption
<1>2. /\ \A c \in p : Route(c) \in DOMAIN order /\ c.rank = order[Route(c)]
      /\ \A c, d \in p : Route(c) = Route(d) => c = d
  BY PlannedOnce
<1>3. IsFiniteSet(p)
  <2> DEFINE f == [c \in p |-> Route(c)]
  <2>1. f \in [p -> DOMAIN order]
    BY <1>2
  <2>2. IsInjective(f)
    BY <1>2 DEF IsInjective
  <2>3. QED
    BY <1>1, <2>1, <2>2, FS_Injection DEF Injection
<1>4. \A t \in T : IsFiniteSet(Ahead(t)) /\ Cardinality(Ahead(t)) \in Nat
  BY <1>3, FS_Subset, FS_CardinalityType
<1>5. ASSUME NEW t \in T
      PROVE  /\ t \in DOMAIN order
             /\ \E c \in p : c.rank = order[t]
             /\ Cardinality(Ahead(t)) < MaxAttempts
  <2>1. PICK c \in B : Route(c) = t
    OBVIOUS
  <2>2. c \in p /\ Cardinality({d \in p : d.rank < c.rank}) < MaxAttempts
    BY DEF Budgeted
  <2>3. QED
    BY <1>2, <2>1, <2>2
<1>6. ASSUME NEW s \in T, NEW t \in T, order[s] < order[t]
      PROVE  place[s] # place[t]
  <2>1. order[s] \in Nat /\ order[t] \in Nat /\ \A d \in p : d.rank \in Nat
    BY <1>1, <1>2, <1>5
  <2>2. Ahead(s) \subseteq Ahead(t)
    BY <1>6, <2>1
  <2>3. Ahead(s) # Ahead(t)
    <3>1. PICK c \in p : c.rank = order[s]
      BY <1>5
    <3>2. c \in Ahead(t) /\ c \notin Ahead(s)
      BY <1>6, <2>1, <3>1
    <3>3. QED
      BY <3>2
  <2>4. Cardinality(Ahead(s)) # Cardinality(Ahead(t))
    BY <1>4, <2>2, <2>3, FS_Subset
  <2>5. QED
    BY <2>4
<1>7. place \in Injection(T, 0 .. MaxAttempts - 1)
  <2>1. place \in [T -> 0 .. MaxAttempts - 1]
    <3>1. SUFFICES ASSUME NEW t \in T
                   PROVE  Cardinality(Ahead(t)) \in 0 .. MaxAttempts - 1
      OBVIOUS
    <3>2. Cardinality(Ahead(t)) \in Nat /\ Cardinality(Ahead(t)) < MaxAttempts
      BY <1>4, <1>5
    <3> HIDE DEF Ahead
    <3>3. QED
      BY <1>1, <3>2
  <2>2. ASSUME NEW s \in T, NEW t \in T, place[s] = place[t]
        PROVE  s = t
    <3>1. order[s] \in Nat /\ order[t] \in Nat /\ s \in DOMAIN order /\ t \in DOMAIN order
      BY <1>1, <1>5
    <3>2. ~ (order[s] < order[t]) /\ ~ (order[t] < order[s])
      BY <1>6, <2>2
    <3> HIDE DEF place
    <3>3. order[s] = order[t]
      BY <3>1, <3>2
    <3>4. QED
      BY <1>1, <3>1, <3>3
  <2>3. IsInjective(place)
    BY <2>2 DEF IsInjective
  <2>4. QED
    BY <2>1, <2>3 DEF Injection
<1>8. /\ IsFiniteSet(0 .. MaxAttempts - 1)
      /\ Cardinality(0 .. MaxAttempts - 1) = MaxAttempts
  <2>1. 0 \in Int /\ MaxAttempts - 1 \in Int /\ MaxAttempts \in Nat
    BY <1>1
  <2>2. QED
    BY <2>1, FS_Interval
<1> HIDE DEF place
<1>9. QED
  BY <1>7, <1>8, FS_Injection

\* The part of the invariant that is r's.
SizedAt(r) ==
    /\ QueueAt(r)
    /\ IsFiniteSet(RoutesLeft(r)) /\ Cardinality(RoutesLeft(r)) <= MaxAttempts

\* A step of r keeps its part: it plans within the limit, or only spends.
LEMMA RequestSized ==
    ASSUME TypeOK, NEW r \in Requests, SizedAt(r), Queues(r)
    PROVE  SizedAt(r)'
<1>1. CASE Plans(r)
  <2>1. PICK order \in Orders, failover \in BOOLEAN :
           plan'[r] = Budgeted(BuildPlan(order, failover))
    BY <1>1 DEF Plans
  <2>2. pc'[r] \notin Holding /\ pc'[r] # "pause" /\ Reprobes \in Nat
    BY <1>1, ReprobesType DEF Plans, Holding
  <2>3. QueueAt(r)'
    <3>1. \A c, d \in plan'[r] : Route(c) = Route(d) => c = d
      BY <2>1, PlannedOnce DEF Budgeted
    <3>2. \A c \in plan'[r] : c.round = 0
      BY <2>1, PlannedOnce DEF Budgeted
    <3>3. \A c \in plan'[r] : c.round <= Reprobes
      BY <2>2, <3>2
    <3>4. QED
      BY <2>2, <3>1, <3>3 DEF QueueAt
  <2>4. RoutesLeft(r)' = {Route(c) : c \in plan'[r]}
    <3>1. \A c \in plan'[r] : Route(c) \in Keys \X Models
      BY <2>1, PlannedOnce, FailoverAssumption DEF Budgeted
    <3>2. QED
      BY <2>2, <3>1 DEF RoutesLeft
  <2>5. IsFiniteSet(RoutesLeft(r)') /\ Cardinality(RoutesLeft(r)') <= MaxAttempts
    BY <2>1, <2>4, BudgetedRoutes
  <2>6. QED
    BY <2>3, <2>5 DEF SizedAt
<1>2. CASE ~ Plans(r)
  <2>1. /\ QueueAt(r)' /\ RoutesLeft(r)' \subseteq RoutesLeft(r)
        /\ IsFiniteSet(RoutesLeft(r)) /\ Cardinality(RoutesLeft(r)) <= MaxAttempts
    BY <1>2, QueueSpent DEF SizedAt
  <2>2. /\ IsFiniteSet(RoutesLeft(r)')
        /\ Cardinality(RoutesLeft(r)') <= Cardinality(RoutesLeft(r))
    BY <2>1, FS_Subset
  <2>3. /\ Cardinality(RoutesLeft(r)) \in Nat /\ Cardinality(RoutesLeft(r)') \in Nat
        /\ MaxAttempts \in Nat
    BY <2>1, <2>2, FS_CardinalityType, FailoverAssumption
  <2>4. Cardinality(RoutesLeft(r)') <= MaxAttempts
    BY <2>1, <2>2, <2>3
  <2>5. QED
    BY <2>1, <2>2, <2>4 DEF SizedAt
<1>3. QED
  BY <1>1, <1>2

\* A request whose queue, attempt and place do not change keeps its part.
LEMMA SizedElsewhere ==
    ASSUME NEW r \in Requests, SizedAt(r),
           plan'[r] = plan[r], pc'[r] = pc[r], try'[r].cand = try[r].cand
    PROVE  SizedAt(r)' /\ DialsAhead(r)' = DialsAhead(r)
<1>1. RoutesLeft(r)' = RoutesLeft(r) /\ DialsAhead(r)' = DialsAhead(r)
  BY DEF RoutesLeft, DialsAhead
<1>2. QueueAt(r)'
  BY DEF SizedAt, QueueAt
<1>3. QED
  BY <1>1, <1>2 DEF SizedAt

\* What a step of the system does to the queue of r.
LEMMA SystemQueues ==
    ASSUME TypeOK, PlanInv, [Next]_vars, NEW r \in Requests
    PROVE  \/ Queues(r)
           \/ plan'[r] = plan[r] /\ pc'[r] = pc[r] /\ try'[r].cand = try[r].cand
<1>1. CASE Tick
  <2>1. UNCHANGED <<pc, plan>> /\ try'[r] = Aged(r) /\ try[r] \in Attempt
    BY <1>1 DEF Tick, TypeOK
  <2>2. QED
    BY <2>1 DEF Aged, Attempt
<1>2. ASSUME NEW q \in Requests, Caller(q) \/ Engine(q) \/ Upstream(q)
      PROVE  \/ Queues(r)
             \/ plan'[r] = plan[r] /\ pc'[r] = pc[r] /\ try'[r].cand = try[r].cand
  <2>1. CASE q = r
    BY <1>2, <2>1, RequestQueues
  <2>2. CASE q # r
    <3>1. Keeps(q) /\ OthersKeep(q)
      BY <1>2, RequestKeeps, RequestSteps DEF PlanInv, StepOK
    <3>2. QED
      BY <2>2, <3>1 DEF Keeps, Apart, OthersKeep
  <2>3. QED
    BY <2>1, <2>2
<1>3. CASE UNCHANGED vars
  BY <1>3 DEF vars
<1>4. QED
  BY <1>1, <1>2, <1>3 DEF Next

QueueInv == \A r \in Requests : SizedAt(r)

\* At the start the queues are empty.
LEMMA InitQueueInv == Init => QueueInv
<1> SUFFICES ASSUME Init, NEW r \in Requests PROVE SizedAt(r)
  BY DEF QueueInv
<1>1. plan[r] = {} /\ pc[r] = "idle"
  BY DEF Init
<1>2. RoutesLeft(r) = {}
  BY <1>1 DEF RoutesLeft, Holding
<1>3. IsFiniteSet(RoutesLeft(r)) /\ Cardinality(RoutesLeft(r)) <= MaxAttempts
  BY <1>2, FS_EmptySet, FailoverAssumption
<1>4. QED
  BY <1>1, <1>3 DEF SizedAt, QueueAt, Holding

LEMMA QueueInvariance == Spec => []QueueInv
<1>1. TypeOK /\ PlanInv /\ QueueInv /\ [Next]_vars => QueueInv'
  BY SystemQueues, RequestSized, SizedElsewhere DEF QueueInv
<1>2. QED
  BY TypeCorrect, PlanInvariance, InitQueueInv, <1>1, PTL DEF Spec

\* What a plan may still cost: no more dials than the attempts it was cut to, each with its
\* re-probes.
DialsBounded ==
    \A r \in Requests :
        /\ IsFiniteSet(DialsAhead(r))
        /\ Cardinality(DialsAhead(r)) <= MaxAttempts * (Reprobes + 1)

\* However the attempts end, a plan has MaxAttempts routes to dial and Reprobes dials more of each
\* (engine/attempt.rs:260, :277, :311-313).
THEOREM DialsAreBounded == Spec => []DialsBounded
<1>1. TypeOK /\ QueueInv => DialsBounded
  <2> SUFFICES ASSUME TypeOK, QueueInv, NEW r \in Requests
               PROVE  /\ IsFiniteSet(DialsAhead(r))
                      /\ Cardinality(DialsAhead(r)) <= MaxAttempts * (Reprobes + 1)
    BY DEF DialsBounded
  <2> DEFINE rounds == 0 .. Reprobes
             all == RoutesLeft(r) \X rounds
  <2>1. IsFiniteSet(rounds) /\ Cardinality(rounds) = Reprobes + 1 /\ Reprobes + 1 \in Nat
    <3>1. 0 \in Int /\ Reprobes \in Int /\ Reprobes \in Nat
      BY ReprobesType
    <3>2. QED
      BY <3>1, FS_Interval
  <2>2. IsFiniteSet(RoutesLeft(r)) /\ Cardinality(RoutesLeft(r)) \in Nat
    BY FS_CardinalityType DEF QueueInv, SizedAt
  <2>3. IsFiniteSet(all) /\ Cardinality(all) = Cardinality(RoutesLeft(r)) * (Reprobes + 1)
    BY <2>1, <2>2, FS_Product
  <2>4. DialsAhead(r) \in SUBSET all
    BY DEF DialsAhead, RoutesLeft
  <2>5. /\ IsFiniteSet(DialsAhead(r))
        /\ Cardinality(DialsAhead(r)) <= Cardinality(all)
    BY <2>3, <2>4, FS_Subset
  <2>6. Cardinality(DialsAhead(r)) \in Nat
    BY <2>5, FS_CardinalityType
  <2>7. Cardinality(RoutesLeft(r)) <= MaxAttempts /\ MaxAttempts \in Nat
    BY FailoverAssumption DEF QueueInv, SizedAt
  <2>8. ASSUME NEW a \in Nat, NEW b \in Nat, NEW n \in Nat, a <= b
        PROVE  a * n <= b * n
    <3>1. (b - a) * n >= 0
      BY <2>8
    <3>2. (b - a) * n = b * n - a * n
      BY <2>8
    <3>3. a * n \in Nat /\ b * n \in Nat
      BY <2>8
    <3>4. QED
      BY <3>1, <3>2, <3>3
  <2>9. Cardinality(RoutesLeft(r)) * (Reprobes + 1) <= MaxAttempts * (Reprobes + 1)
    BY <2>1, <2>2, <2>7, <2>8
  <2>10. Cardinality(DialsAhead(r)) <= Cardinality(RoutesLeft(r)) * (Reprobes + 1)
    BY <2>3, <2>5
  <2>11. Cardinality(RoutesLeft(r)) * (Reprobes + 1) \in Nat /\ MaxAttempts * (Reprobes + 1) \in Nat
    BY <2>1, <2>2, <2>7
  <2>12. QED
    BY <2>5, <2>6, <2>9, <2>10, <2>11
<1>2. QED
  BY TypeCorrect, QueueInvariance, <1>1, PTL

\* Once the request is planned no step gives a dial back, and every dial it starts is one less:
\* the reason why the candidate loop comes to its end (engine/text.rs:268-299).
DialsSpent ==
    [][\A r \in Requests :
          pc[r] \notin {"idle", "cool"} =>
              /\ DialsAhead(r)' \subseteq DialsAhead(r)
              /\ pc[r] = "next" /\ pc'[r] = "adapter" => DialsAhead(r)' # DialsAhead(r)]_vars

\* The set DialsAhead is a variant of the candidate loop (engine/text.rs:273-679).
THEOREM DialsAreSpent == Spec => DialsSpent
<1>1. TypeOK /\ PlanInv /\ QueueInv /\ [Next]_vars =>
        [\A r \in Requests :
            pc[r] \notin {"idle", "cool"} =>
                /\ DialsAhead(r)' \subseteq DialsAhead(r)
                /\ pc[r] = "next" /\ pc'[r] = "adapter" => DialsAhead(r)' # DialsAhead(r)]_vars
  <2> SUFFICES ASSUME TypeOK, PlanInv, QueueInv, [Next]_vars, NEW r \in Requests,
                      pc[r] \notin {"idle", "cool"}
               PROVE  /\ DialsAhead(r)' \subseteq DialsAhead(r)
                      /\ pc[r] = "next" /\ pc'[r] = "adapter" => DialsAhead(r)' # DialsAhead(r)
    OBVIOUS
  <2>1. SizedAt(r) /\ ~ Plans(r)
    BY DEF QueueInv, Plans
  <2>2. CASE Queues(r)
    BY <2>1, <2>2, QueueSpent DEF SizedAt
  <2>3. CASE plan'[r] = plan[r] /\ pc'[r] = pc[r] /\ try'[r].cand = try[r].cand
    BY <2>1, <2>3, SizedElsewhere
  <2>4. QED
    BY <2>2, <2>3, SystemQueues
<1>2. QED
  BY TypeCorrect, PlanInvariance, QueueInvariance, <1>1, PTL DEF Spec, DialsSpent
=============================================================================
