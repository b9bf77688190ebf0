------------------------------ MODULE Failover ------------------------------
(***************************************************************************)
(* One text request after another through the failover engine:             *)
(* ModelRouter::generate_text (core/router.rs) and execute_text            *)
(* (core/engine/text.rs), with the shared state they run over - the        *)
(* HealthTracker, and the ProviderLimiter of core/limiter.rs.  Requests    *)
(* run concurrently: an element of Requests is a bridge slot that serves   *)
(* one request after another.                                              *)
(*                                                                         *)
(* A plan is a queue of candidates.  It is a set here, each candidate with *)
(* a rank: pop_front takes the least rank, push_front puts a candidate     *)
(* back under the rank it was popped with, and                             *)
(* prefer_different_providers gives new ranks behind the last one.         *)
(*                                                                         *)
(* Time is a set of counters that Tick moves together.  It passes while    *)
(* every request waits (for the upstream, a pause, a cooldown); the        *)
(* engine's own steps take none, and a deadline that is due fires before   *)
(* time moves on.                                                          *)
(***************************************************************************)
EXTENDS KeyHealth, FiniteSets

CONSTANTS
    Requests,         \* bridge slots
    Keys, Providers,
    Models,           \* the models a request's name may stand for
    ProviderOf,       \* the provider a key belongs to
    Unary,            \* providers whose manifest describes no stream
    Denied,           \* keys whose stored status is revoked or disabled
    Orders,           \* what the planner may order: routes (key and model), with places from 1
    MaxAttempts,      \* max_attempts, or MAX_ATTEMPTS_DEFAULT
    Caps,             \* values of per_provider_concurrency, 0 for unlimited
    HeaderTimeout,    \* egress::UPSTREAM_HEADER_TIMEOUT
    FirstByteTimeout, \* egress::UPSTREAM_FIRST_BYTE_TIMEOUT
    OutputTimeout,    \* egress::UPSTREAM_FIRST_OUTPUT_TIMEOUT
    PlanBudget,       \* engine::PLAN_BUDGET
    Backoff,          \* SERVER_ERROR_RETRY_BACKOFF and NETWORK_RETRY_BACKOFF
    ServerReprobes,   \* SERVER_ERROR_REPROBES_MAX
    NetworkReprobes,  \* NETWORK_REPROBES_MAX
    Redials,          \* egress::UPSTREAM_TRANSPORT_RETRIES
    CooldownWait,     \* COOLDOWN_WAIT_BUDGET_MS
    NoCandidate       \* the candidate of a request that has tried none

ASSUME FailoverAssumption ==
    /\ IsFiniteSet(Requests)
    /\ Denied \subseteq Keys
    /\ Unary \subseteq Providers
    /\ ProviderOf \in [Keys -> Providers]
    /\ \A order \in Orders : /\ DOMAIN order \subseteq Keys \X Models
                            /\ order \in [DOMAIN order -> Nat \ {0}]
    /\ Caps \subseteq Nat
    /\ {MaxAttempts, HeaderTimeout, FirstByteTimeout, OutputTimeout, PlanBudget, Backoff,
        ServerReprobes, NetworkReprobes, Redials, CooldownWait} \subseteq Nat

\* A queue is finite, and has one candidate in each place.
ASSUME QueueAssumption ==
    \A order \in Orders :
        /\ IsFiniteSet(DOMAIN order)
        /\ \A p, q \in DOMAIN order : order[p] = order[q] => p = q

\* The ordering that egress.rs pins with a test: the wait for the headers is part of the wait for
\* the first byte, which fits into a plan.
ASSUME DeadlineAssumption ==
    HeaderTimeout <= FirstByteTimeout /\ FirstByteTimeout <= PlanBudget

VARIABLES
    health,     \* HealthTracker.keys
    cap,        \* LimiterInner.max_per_provider
    inFlight,   \* LimiterInner.in_flight
    pc,         \* where a request is
    plan,       \* its queue of candidates
    try,        \* its current attempt, or the last one
    elapsed,    \* plan_started.elapsed(), counted up to Horizon
    timer,      \* what is left of a pause or of a cooldown wait
    slack,      \* what is left of the cooldown budget after this wait
    cancelled,  \* its Cancel flag
    row         \* the class of the ledger row it wrote

shared == <<health, cap, inFlight>>
vars == <<health, cap, inFlight, pc, plan, try, elapsed, timer, slack, cancelled, row>>

None == "none"

\* A candidate of a plan: a key, the model it is asked for, how often this plan re-probed it, its
\* place.
Candidate == [key : Keys, model : Models, round : Nat, rank : Nat \ {0}]

\* An attempt: its candidate, the egress redials it used, the time since the request was sent
\* and since the headers came, whether a body byte came, whether any output flowed, whether a
\* chunk or a tool call was delivered, and whether it was lost to a NETWORK failure.
Attempt == [cand : Candidate \cup {NoCandidate}, redials : 0 .. Redials, sent : Nat, silent : Nat,
            byte : BOOLEAN, flowed : BOOLEAN, delivered : BOOLEAN, lost : BOOLEAN]

ASSUME NoCandidateAssumption == NoCandidate \notin Candidate

\* A new attempt on candidate c.
Starting(c) == [cand |-> c, redials |-> 0, sent |-> 0, silent |-> 0,
                byte |-> FALSE, flowed |-> FALSE, delivered |-> FALSE, lost |-> FALSE]

NoAttempt == Starting(NoCandidate)

\* The ledger classes a text request can end with.  SPENT stands for the class of the last
\* attempt of an exhausted chain.
Row == {"ok", "CANCELLED", "NO_OUTPUT", "PARSE_ERROR", "NETWORK", "SPENT", "NO_ROUTE"}

Horizon == PlanBudget + Redials * HeaderTimeout + 1

Tried(r) == try[r].cand # NoCandidate
KeyOf(r) == try[r].cand.key
HostOf(c) == ProviderOf[c.key]

\* The states in which a request holds a permit of the limiter.
Holding == {"adapter", "dial", "refusal", "unary", "stream", "pause"}
Permits(p) == {r \in Requests : pc[r] \in Holding /\ HostOf(try[r].cand) = p}

Init ==
    /\ health = [k \in Keys |-> Fresh]
    /\ cap \in Caps
    /\ inFlight = [p \in Providers |-> 0]
    /\ pc = [r \in Requests |-> "idle"]
    /\ plan = [r \in Requests |-> {}]
    /\ try = [r \in Requests |-> NoAttempt]
    /\ elapsed = [r \in Requests |-> 0]
    /\ timer = [r \in Requests |-> 0]
    /\ slack = [r \in Requests |-> 0]
    /\ cancelled = [r \in Requests |-> FALSE]
    /\ row = [r \in Requests |-> None]

---------------------------------------------------------------------------
(* Planning: build_plan, the failover switch, and the cooldown wait. *)

UsableRoutes(order) == {p \in DOMAIN order : p[1] \notin Denied /\ Usable(health[p[1]])}

\* build_plan: a candidate for each usable key of each carrier, so that a name for two models of one
\* provider plans a key twice; with failover off, only the first provider's.
BuildPlan(order, failover) ==
    LET all == {[key |-> p[1], model |-> p[2], round |-> 0, rank |-> order[p]] :
                   p \in UsableRoutes(order)}
    IN  {c \in all : failover \/ \E f \in all : /\ \A d \in all : f.rank <= d.rank
                                                /\ HostOf(c) = HostOf(f)}

\* attempt_budget: no more than MaxAttempts candidates are taken from the plan.
Budgeted(p) == {c \in p : Cardinality({d \in p : d.rank < c.rank}) < MaxAttempts}

\* earliest_key_retry_at
RetryTimes(order) ==
    {health[p[1]].cool : p \in {p \in DOMAIN order : p[1] \notin Denied /\ Retriable(health[p[1]])}}
Soonest(order, t) == t \in RetryTimes(order) /\ \A u \in RetryTimes(order) : t <= u

\* The request ends with its one ledger row; what only the loop needed is dropped.
Write(r, class) ==
    /\ pc' = [pc EXCEPT ![r] = "done"]
    /\ row' = [row EXCEPT ![r] = class]
    /\ plan' = [plan EXCEPT ![r] = {}]
    /\ elapsed' = [elapsed EXCEPT ![r] = 0]
    /\ timer' = [timer EXCEPT ![r] = 0]
    /\ slack' = [slack EXCEPT ![r] = 0]

StartPlan(r, p) ==
    /\ pc' = [pc EXCEPT ![r] = "next"]
    /\ plan' = [plan EXCEPT ![r] = Budgeted(p)]
    /\ UNCHANGED <<elapsed, timer, slack, row>>

SleepUntilRetry(r, left, t) ==
    /\ pc' = [pc EXCEPT ![r] = "cool"]
    /\ timer' = [timer EXCEPT ![r] = t]
    /\ slack' = [slack EXCEPT ![r] = left - t]
    /\ UNCHANGED <<plan, elapsed, row>>

\* One round of plan_waiting_out_cooldown, with `left' of the wait budget to spend.
PlanOrWait(r, left) ==
    \E order \in Orders, failover \in BOOLEAN :
        \/ /\ BuildPlan(order, failover) # {}
           /\ StartPlan(r, BuildPlan(order, failover))
        \/ /\ BuildPlan(order, failover) = {}
           /\ ~ cancelled[r]
           /\ \E t \in RetryTimes(order) : /\ Soonest(order, t)
                                           /\ t <= left
                                           /\ SleepUntilRetry(r, left, t)
        \/ /\ BuildPlan(order, failover) = {}
           /\ cancelled[r] \/ \A t \in RetryTimes(order) : Soonest(order, t) => t > left
           /\ Write(r, "NO_ROUTE")

\* generate_text: take the cap from the settings of the moment, then plan.
Begin(r) ==
    /\ pc[r] = "idle"
    /\ cap' \in Caps
    /\ PlanOrWait(r, CooldownWait)
    /\ UNCHANGED <<health, inFlight, try, cancelled>>

WakeUp(r) ==
    /\ pc[r] = "cool"
    /\ timer[r] = 0
    /\ PlanOrWait(r, slack[r])
    /\ UNCHANGED <<shared, try, cancelled>>

---------------------------------------------------------------------------
(* The candidate loop: the head of execute_text's while. *)

Front(r, c) == c \in plan[r] /\ \A d \in plan[r] : c.rank <= d.rank

\* candidate_is_affordable: the first candidate always, a later one if it is funded in full.
AffordableToStart(at, first) == first \/ at <= PlanBudget
Affordable(at, first) == first \/ at + HeaderTimeout <= PlanBudget

Saturated(p) == cap # 0 /\ inFlight[p] >= cap

Acquire(p) == inFlight' = [inFlight EXCEPT ![p] = @ + 1]
Release(p) == inFlight' = [inFlight EXCEPT ![p] = Before(@)]

\* The state of an attempt lives in the loop's body: a new one starts from nothing.
EnterStale(r, c) == UNCHANGED try
Enter(r, c) == try' = [try EXCEPT ![r] = Starting(c)]

Pop(r, c) == plan' = [plan EXCEPT ![r] = @ \ {c}]

\* The loop looks at the flag after each pop.
CancelSeen(r) == cancelled[r]

StopCancelled(r) ==
    /\ pc[r] = "next"
    /\ plan[r] # {}
    /\ CancelSeen(r)
    /\ Write(r, "CANCELLED")
    /\ UNCHANGED <<shared, try, cancelled>>

\* A saturated provider costs its candidate its turn: nothing puts it back.
SkipSaturated(r) ==
    /\ pc[r] = "next"
    /\ ~ CancelSeen(r)
    /\ \E c \in plan[r] : /\ Front(r, c)
                          /\ Saturated(HostOf(c))
                          /\ Pop(r, c)
    /\ UNCHANGED <<shared, pc, try, elapsed, timer, slack, cancelled, row>>

\* The permit is taken before the budget is asked, and dropped with the refusal.
OverBudget(r) ==
    /\ pc[r] = "next"
    /\ ~ CancelSeen(r)
    /\ \E c \in plan[r] : Front(r, c) /\ ~ Saturated(HostOf(c))
    /\ ~ Affordable(elapsed[r], ~ Tried(r))
    /\ Write(r, "SPENT")
    /\ UNCHANGED <<shared, try, cancelled>>

StartAttempt(r) ==
    /\ pc[r] = "next"
    /\ ~ CancelSeen(r)
    /\ Affordable(elapsed[r], ~ Tried(r))
    /\ \E c \in plan[r] : /\ Front(r, c)
                          /\ ~ Saturated(HostOf(c))
                          /\ Pop(r, c)
                          /\ Acquire(HostOf(c))
                          /\ Enter(r, c)
    /\ pc' = [pc EXCEPT ![r] = "adapter"]
    /\ UNCHANGED <<health, cap, elapsed, timer, slack, cancelled, row>>

Exhausted(r) ==
    /\ pc[r] = "next"
    /\ plan[r] = {}
    /\ Write(r, "SPENT")
    /\ UNCHANGED <<shared, try, cancelled>>

---------------------------------------------------------------------------
(* One attempt: adapter.generate_text, the egress stream under it, and what *)
(* execute_text does with its end.                                          *)

Record(r, h) == health' = [health EXCEPT ![KeyOf(r)] = h]

OtherHosts(r) == {d \in plan[r] : HostOf(d) # HostOf(try[r].cand)}
SameHost(r) == plan[r] \ OtherHosts(r)

\* prefer_different_providers: candidates of the failed provider go behind all the others.
DeferredNone(r, last) == plan[r]
Deferred(r, last) ==
    OtherHosts(r) \cup {[d EXCEPT !.rank = @ + last] : d \in SameHost(r)}

\* (Mutant: the permit outlives the iteration.)
MoveOnHolding(r) ==
    /\ pc' = [pc EXCEPT ![r] = "next"]
    /\ UNCHANGED <<inFlight, elapsed, timer, slack, row>>

\* The attempt is over and the loop goes on: the permit is dropped with the iteration.
MoveOn(r) ==
    /\ pc' = [pc EXCEPT ![r] = "next"]
    /\ Release(HostOf(try[r].cand))
    /\ UNCHANGED <<elapsed, timer, slack, row>>

\* A re-probe: the permit is kept through the pause before the candidate is put back.
Pause(r, wait) ==
    /\ pc' = [pc EXCEPT ![r] = "pause"]
    /\ timer' = [timer EXCEPT ![r] = wait]
    /\ UNCHANGED <<inFlight, plan, elapsed, slack, row>>

End(r, class) ==
    /\ Write(r, class)
    /\ Release(HostOf(try[r].cand))

\* The wait before a server error is re-probed: the Retry-After it named, or the backoff.
ServerWait(ra) == IF ra > 0 THEN Max2(ra, CooldownFloor) ELSE Backoff

MayReprobe(r, wait, max) ==
    /\ try[r].cand.round < max
    /\ Affordable(elapsed[r] + wait, FALSE)

AfterServerError(r, ra) ==
    IF plan[r] = {} /\ MayReprobe(r, ServerWait(ra), ServerReprobes)
    THEN Pause(r, ServerWait(ra))
    ELSE MoveOn(r) /\ UNCHANGED plan

AfterNetworkError(r) ==
    \/ /\ OtherHosts(r) # {}
       /\ \E last \in plan[r] :
             /\ \A d \in plan[r] : d.rank <= last.rank
             /\ plan' = [plan EXCEPT ![r] = Deferred(r, last.rank)]
       /\ MoveOn(r)
    \/ /\ OtherHosts(r) = {}
       /\ IF MayReprobe(r, Backoff, NetworkReprobes)
          THEN Pause(r, Backoff)
          ELSE MoveOn(r) /\ UNCHANGED plan

\* AttemptDisposition::Next
Advance(r, c, ra) ==
    CASE c = "ServerError" -> AfterServerError(r, ra)
      [] c = "Network"     -> AfterNetworkError(r)
      [] OTHER             -> MoveOn(r) /\ UNCHANGED plan

\* attempt_disposition's `emitted': chunks or tool calls.
Emitted(r) == try[r].delivered

\* An attempt ended in an error.  Output that was delivered ends the request and leaves the
\* key's health alone; an abort ends it; anything else moves on to the next candidate.
AttemptFails(r, c, ra) ==
    /\ IF Emitted(r)
       THEN End(r, "NETWORK") /\ UNCHANGED <<health, try>>
       ELSE /\ Record(r, Failed(health[KeyOf(r)], c, ra))
            /\ try' = [try EXCEPT ![r] = [Starting(@.cand) EXCEPT !.lost = (c = "Network")]]
            /\ IF cancelled[r] THEN End(r, "CANCELLED") ELSE Advance(r, c, ra)
    /\ UNCHANGED <<cap, cancelled>>

\* A stream that ended cleanly.  The engine records success whether or not it carried output;
\* the router files one that carried none as an error.
DrainedRowOk(r) == {"ok"}
DrainedRow(r) ==
    IF cancelled[r] THEN {"CANCELLED"}
    ELSE IF try[r].flowed THEN {"NO_OUTPUT"} ELSE {"PARSE_ERROR"}

Served(r) ==
    /\ Record(r, Recovered(health[KeyOf(r)]))
    /\ \E class \in IF try[r].delivered THEN {"ok"} ELSE DrainedRow(r) : End(r, class)
    /\ try' = [try EXCEPT ![r] = [Starting(@.cand) EXCEPT !.delivered = try[r].delivered]]
    /\ UNCHANGED <<cap, cancelled>>

\* adapters.for_provider, awaited with the permit held; then the request is sent.  An adapter
\* with no stream to read asks for its answer in one piece.
AdapterReady(r) ==
    /\ pc[r] = "adapter"
    /\ pc' = [pc EXCEPT ![r] = IF HostOf(try[r].cand) \in Unary THEN "unary" ELSE "dial"]
    /\ UNCHANGED <<shared, plan, try, elapsed, timer, slack, cancelled, row>>

AdapterFails(r) ==
    /\ pc[r] = "adapter"
    /\ Record(r, Failed(health[KeyOf(r)], "Network", 0))
    /\ IF cancelled[r] THEN End(r, "CANCELLED") ELSE MoveOn(r) /\ UNCHANGED plan
    /\ UNCHANGED <<cap, try, cancelled>>

\* The headers of a refusal come: its body is read to the end, and no deadline bounds that.
ErrorStatus(r) ==
    /\ pc[r] = "dial"
    /\ pc' = [pc EXCEPT ![r] = "refusal"]
    /\ UNCHANGED <<shared, plan, try, elapsed, timer, slack, cancelled, row>>

\* The upstream refuses: an HTTP status and its body, or a transport error before any response.
Refused(r) ==
    /\ pc[r] \in {"dial", "refusal", "unary"}
    /\ \E c \in Class, ra \in RetryAfters :
          /\ ra > 0 => c \in {"RateLimited", "ServerError"}
          /\ AttemptFails(r, c, ra)

\* egress::stream: a transport error before any response is dialled again, on a fresh
\* connection and a fresh header budget.
Redial(r) ==
    /\ pc[r] = "dial"
    /\ try[r].redials < Redials
    /\ try' = [try EXCEPT ![r].redials = @ + 1, ![r].sent = 0]
    /\ UNCHANGED <<shared, pc, plan, elapsed, timer, slack, cancelled, row>>

HeadersOverdue(r) == pc[r] = "dial" /\ try[r].sent >= HeaderTimeout

HeaderTimesOut(r) ==
    /\ HeadersOverdue(r)
    /\ AttemptFails(r, "Network", 0)

\* An answer in one piece is there, after a wait that nothing bounds and no cancellation ends.
UnaryAnswers(r) ==
    /\ pc[r] = "unary"
    /\ pc' = [pc EXCEPT ![r] = "stream"]
    /\ try' = [try EXCEPT ![r].byte = TRUE]
    /\ UNCHANGED <<shared, plan, elapsed, timer, slack, cancelled, row>>

\* The response begins: execute_text gets the stream and arms the output deadline.
Headers(r) ==
    /\ pc[r] = "dial"
    /\ pc' = [pc EXCEPT ![r] = "stream"]
    /\ UNCHANGED <<shared, plan, try, elapsed, timer, slack, cancelled, row>>

\* The first body byte ends the egress's phase; a keep-alive line counts as one.
FirstByte(r) ==
    /\ pc[r] = "stream"
    /\ ~ try[r].byte
    /\ try' = [try EXCEPT ![r].byte = TRUE, ![r].sent = 0]
    /\ UNCHANGED <<shared, pc, plan, elapsed, timer, slack, cancelled, row>>

FirstByteOverdue(r) == pc[r] = "stream" /\ ~ try[r].byte /\ try[r].sent >= FirstByteTimeout

FirstByteTimesOut(r) ==
    /\ FirstByteOverdue(r)
    /\ AttemptFails(r, "Network", 0)

Reasoning(r) ==
    /\ pc[r] = "stream"
    /\ try[r].byte
    /\ try' = [try EXCEPT ![r].flowed = TRUE, ![r].silent = 0]
    /\ UNCHANGED <<shared, pc, plan, elapsed, timer, slack, cancelled, row>>

\* A text chunk or a tool call reaches the caller.
Output(r) ==
    /\ pc[r] = "stream"
    /\ try[r].byte
    /\ try' = [try EXCEPT ![r].flowed = TRUE, ![r].silent = 0,
                                 ![r].delivered = TRUE]
    /\ UNCHANGED <<shared, pc, plan, elapsed, timer, slack, cancelled, row>>

OutputOverdue(r) == pc[r] = "stream" /\ ~ try[r].flowed /\ try[r].silent >= OutputTimeout

\* The output deadline ends the attempt as a drained one, not as a failed one.
OutputTimesOut(r) ==
    /\ OutputOverdue(r)
    /\ Served(r)

StreamEnds(r) ==
    /\ pc[r] = "stream"
    /\ Served(r)

StreamBreaks(r) ==
    /\ pc[r] = "stream"
    /\ \E c \in {"Network", "Other"} : AttemptFails(r, c, 0)

\* (Mutant: the watcher leaves when the headers come.)
WatchedDial(r) == pc[r] = "dial" /\ HostOf(try[r].cand) \notin Unary

\* streaming's watcher: it lives as long as the driver it would abort.  A request for an answer in one
\* piece has none.
Watched(r) == pc[r] \in {"dial", "refusal", "stream"} /\ HostOf(try[r].cand) \notin Unary

CutDue(r) == cancelled[r] /\ Watched(r)

\* The watcher aborts the egress.  A dial then ends as a transport error, a refusal goes by its
\* status, and a stream looks as if it had ended.
CancelCuts(r) ==
    /\ CutDue(r)
    /\ \/ pc[r] = "dial" /\ AttemptFails(r, "Network", 0)
       \/ pc[r] = "refusal" /\ Refused(r)
       \/ pc[r] = "stream" /\ Served(r)

PauseEnds(r) ==
    /\ pc[r] = "pause"
    /\ timer[r] = 0
    /\ plan' = [plan EXCEPT ![r] = @ \cup {[try[r].cand EXCEPT !.round = @ + 1]}]
    /\ MoveOn(r)
    /\ UNCHANGED <<health, cap, try, cancelled>>

---------------------------------------------------------------------------

Cancel(r) ==
    /\ pc[r] \notin {"idle", "done"}
    /\ ~ cancelled[r]
    /\ cancelled' = [cancelled EXCEPT ![r] = TRUE]
    /\ UNCHANGED <<shared, pc, plan, try, elapsed, timer, slack, row>>

\* The slot is free for another request.
Retire(r) ==
    /\ pc[r] = "done"
    /\ pc' = [pc EXCEPT ![r] = "idle"]
    /\ try' = [try EXCEPT ![r] = NoAttempt]
    /\ cancelled' = [cancelled EXCEPT ![r] = FALSE]
    /\ row' = [row EXCEPT ![r] = None]
    /\ UNCHANGED <<shared, plan, elapsed, timer, slack>>

Waiting(r) ==
    /\ ~ CutDue(r)
    /\ \/ pc[r] \in {"idle", "done"}
       \/ pc[r] \in {"cool", "pause"} /\ timer[r] > 0
       \/ pc[r] = "dial" /\ ~ HeadersOverdue(r)
       \/ pc[r] \in {"refusal", "unary"}
       \/ pc[r] = "stream" /\ ~ FirstByteOverdue(r) /\ ~ OutputOverdue(r)

\* (Mutant: the first byte, a keep-alive even, stops the clock of the output deadline.)
AgedUntilByte(r) ==
    [try[r] EXCEPT
        !.sent   = IF pc[r] \in {"dial", "stream"} /\ ~ try[r].byte THEN @ + 1 ELSE @,
        !.silent = IF pc[r] = "stream" /\ ~ try[r].byte THEN @ + 1 ELSE @]

\* An attempt's clocks run while something still watches them.
Aged(r) ==
    [try[r] EXCEPT
        !.sent   = IF pc[r] \in {"dial", "stream"} /\ ~ try[r].byte THEN @ + 1 ELSE @,
        !.silent = IF pc[r] = "stream" /\ ~ try[r].flowed THEN @ + 1 ELSE @]

Planned(r) == pc[r] \notin {"idle", "cool", "done"} /\ ~ try[r].delivered

Tick ==
    /\ \A r \in Requests : Waiting(r)
    /\ health' = [k \in Keys |-> Older(health[k])]
    /\ try' = [r \in Requests |-> Aged(r)]
    /\ elapsed' = [r \in Requests |->
                      IF Planned(r) /\ elapsed[r] < Horizon THEN elapsed[r] + 1 ELSE elapsed[r]]
    /\ timer' = [r \in Requests |-> Before(timer[r])]
    /\ UNCHANGED <<cap, inFlight, pc, plan, slack, cancelled, row>>

\* What the engine itself goes on to do, and the deadlines that drive it.
Engine(r) ==
    \/ WakeUp(r)
    \/ StopCancelled(r)
    \/ SkipSaturated(r)
    \/ OverBudget(r)
    \/ StartAttempt(r)
    \/ Exhausted(r)
    \/ AdapterReady(r)
    \/ AdapterFails(r)
    \/ HeaderTimesOut(r)
    \/ FirstByteTimesOut(r)
    \/ OutputTimesOut(r)
    \/ CancelCuts(r)
    \/ PauseEnds(r)

\* What an upstream may do to an attempt.
Upstream(r) ==
    \/ Refused(r)
    \/ ErrorStatus(r)
    \/ UnaryAnswers(r)
    \/ Redial(r)
    \/ Headers(r)
    \/ FirstByte(r)
    \/ Reasoning(r)
    \/ Output(r)
    \/ StreamEnds(r)
    \/ StreamBreaks(r)

\* What the caller does.
Caller(r) ==
    \/ Begin(r)
    \/ Cancel(r)
    \/ Retire(r)

Next == (\E r \in Requests : Caller(r) \/ Engine(r) \/ Upstream(r)) \/ Tick

Spec == Init /\ [][Next]_vars

\* The runtime schedules the engine and its timers, and time is never stopped by the work
\* of other requests.  Nothing is assumed of the upstream or of the caller.
CodeSpec == Spec /\ SF_vars(Tick) /\ \A r \in Requests : WF_vars(Engine(r))

\* Besides, an upstream that refuses, or that answers in one piece, finishes its answer: the
\* code does not see to that.
WholeAnswer(r) ==
    \/ pc[r] \in {"refusal", "unary"} /\ (Refused(r) \/ UnaryAnswers(r))
    \/ pc[r] = "stream" /\ HostOf(try[r].cand) \in Unary /\ StreamEnds(r)
FairSpec == CodeSpec /\ \A r \in Requests : WF_vars(WholeAnswer(r))

---------------------------------------------------------------------------
(* Properties. *)

Location ==
    {"idle", "cool", "next", "adapter", "dial", "refusal", "unary", "stream", "pause", "done"}

\* Every variable has its type; a request that holds a permit has a candidate, and every
\* candidate names a key, so that the permit belongs to a provider.
TypeOK ==
    /\ health \in [Keys -> Health]
    /\ cap \in Caps
    /\ inFlight \in [Providers -> Nat]
    /\ pc \in [Requests -> Location]
    /\ plan \in [Requests -> SUBSET Candidate]
    /\ try \in [Requests -> Attempt]
    /\ elapsed \in [Requests -> Nat]
    /\ timer \in [Requests -> Nat]
    /\ slack \in [Requests -> Nat]
    /\ cancelled \in [Requests -> BOOLEAN]
    /\ row \in [Requests -> Row \cup {None}]
    /\ \A r \in Requests : pc[r] \in Holding => Tried(r)

\* The limiter's count for a provider is the number of requests that hold one of its permits:
\* no exit of the candidate loop keeps one, and none gives one back twice (limiter.rs:222-263,
\* whose release clamps at zero and would hide the second).
PermitsConserved == \A p \in Providers : inFlight[p] = Cardinality(Permits(p))

\* Failover ends with the first output: a request that has delivered a chunk or a tool call
\* never goes back to the candidate loop (engine/text.rs:484-514).
NoDialAfterOutput ==
    [][\A r \in Requests :
          try[r].delivered /\ pc[r] = "stream" => pc'[r] \in {"stream", "done"}]_vars

\* After a NETWORK failure the next candidate to be dialled is another provider's, when the
\* plan has one (engine/text.rs:198-214, 622-628).
OtherHostNext ==
    [][\A r \in Requests :
          /\ pc[r] = "next" /\ pc'[r] = "adapter"
          /\ try[r].lost
          /\ OtherHosts(r) # {}
          => HostOf(try'[r].cand) # HostOf(try[r].cand)]_vars

\* A cancelled request ends, wherever the cancellation found it: behind the look at the flag, in an
\* adapter, a pause or a redial, under an upstream that goes quiet or never stops talking
\* (engine/text.rs:275-277, 485; egress_port.rs:168-182).
CancelledEnds == \A r \in Requests : cancelled[r] ~> pc[r] = "done"

WaitingForByte(r) == pc[r] = "dial" \/ (pc[r] = "stream" /\ ~ try[r].byte)

\* "a candidate admitted here is guaranteed a whole UPSTREAM_HEADER_TIMEOUT inside the budget"
\* (engine/attempt.rs:176-178): what is left of the header timeout of a streamed attempt's first dial
\* fits into what is left of the plan.
FundedInFull ==
    \A r \in Requests :
        WaitingForByte(r) /\ try[r].redials = 0
        => elapsed[r] + HeaderTimeout <= PlanBudget + try[r].sent

\* "so the plan cannot exceed it" (engine/attempt.rs:178; egress.rs:650-652): no streamed attempt
\* waits for its first byte beyond the plan's budget.
PlanWithinBudget == \A r \in Requests : WaitingForByte(r) => elapsed[r] <= PlanBudget

\* The breaker forgets nothing but by a success: the count of auth failures falls only in a
\* step that served a request with that key, so a key at the threshold is shut again by the
\* first failed probe (engine/health.rs:196-236).
BreakerRemembers ==
    [][\A k \in Keys :
          health'[k].fails < health[k].fails
          => \E r \in Requests : pc[r] = "stream" /\ pc'[r] = "done" /\ KeyOf(r) = k]_vars

\* A planned request ends or its output starts to flow, if upstreams finish what they answer
\* whole.
Answered ==
    \A r \in Requests : pc[r] = "next" ~> (pc[r] = "done" \/ try[r].flowed)

\* "a genuine stall now ends in two minutes instead of never" (egress.rs:484-486), whatever the
\* upstream does.
StallsEnd ==
    \A r \in Requests : pc[r] = "next" ~> (pc[r] = "done" \/ try[r].flowed)

\* The planner's doc: core::engine re-checks a key's health per attempt (planner.rs:17-18).
RecheckedPerAttempt ==
    [][\A r \in Requests :
          pc[r] = "next" /\ pc'[r] = "adapter" => Usable(health[try'[r].cand.key])]_vars

PhaseOf(r) ==
    IF pc[r] \in {"idle", "cool"} THEN "idle"
    ELSE IF pc[r] = "done" THEN "booked"
    ELSE IF try[r].delivered THEN "delivering" ELSE "trying"

SourceOf(r) == IF try[r].delivered THEN {KeyOf(r)} ELSE {}

Promise == INSTANCE Delivery WITH
    phase   <- [r \in Requests |-> PhaseOf(r)],
    source  <- [r \in Requests |-> SourceOf(r)],
    booking <- row

\* The engine keeps what Delivery promises: one source, one booking, and no ok without output.
KeepsPromise == Promise!Spec
=============================================================================
