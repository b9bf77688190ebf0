----------------------------- MODULE AgentLoop -----------------------------
(***************************************************************************)
(* One turn of the Assistant's agent loop (lib/tools/agentLoop.ts): rounds *)
(* of a model call and the tool calls it asks for, approved one after the  *)
(* other and then run together, with the sub-agents a call may start, the  *)
(* one approval dialog of the screen (lib/chat/turn/controller.ts,         *)
(* screens/Assistant.tsx), plan mode and the user's Stop.  JavaScript runs *)
(* one piece of code at a time: a step is what happens between two awaits. *)
(*                                                                         *)
(* A call is its kind; its id is its place in the batch.  The transcript   *)
(* is kept from its last assistant turn with calls on.  A turn without a   *)
(* step budget is this one without its final round.                        *)
(***************************************************************************)
EXTENDS Naturals, Sequences, FiniteSets

CONSTANTS
    Kinds,         \* the kinds of call the model makes
    MaxBatch,      \* calls per model reply (bound)
    Bound,         \* maxIterations
    Concurrency,   \* SUBAGENT_CONCURRENCY
    DemandCap,     \* verificationNudgeMax, clamped
    CutRetries,    \* TRUNCATION_RETRIES
    ShortRetries,  \* TRUNCATED_TOOL_CALL_RETRIES
    BlankRetries,  \* NO_OUTPUT_RETRIES
    Mode           \* the approval mode: "ask", "auto-reads" or "yolo"

AllKinds == {"write", "check", "look", "agent", "enter", "exit", "broken"}

ASSUME AgentLoopAssumption ==
    /\ Kinds \subseteq AllKinds
    /\ MaxBatch \in Nat \ {0} /\ Bound \in Nat \ {0} /\ Concurrency \in Nat \ {0}
    /\ DemandCap \in Nat
    /\ CutRetries \in Nat /\ ShortRetries \in Nat /\ BlankRetries \in Nat
    /\ Mode \in {"ask", "auto-reads", "yolo"}

VARIABLES
    at,        \* where the loop is
    iter,      \* the round
    batch,     \* the calls of the round's reply
    verdicts,  \* of the first calls of the batch
    call,      \* each call of the batch: waiting to run, busy, or its result
    child,     \* each call's sub-agent
    free,      \* childPermits: free
    dialog,    \* pendingConfirm: whom the dialog on the screen would answer
    planMode,
    trusted,   \* the kinds that run unasked by the user's "always" or "this session"
    stopped,   \* the turn's abort signal
    tail,      \* the transcript since the last assistant turn with calls
    mutated, verified, demands,  \* the verification gate
    cuts, shorts, blanks,        \* truncationRetries, truncatedToolCallRetries, noOutputRetries
    ending,    \* how the turn ended
    requests,  \* history: model calls of the loop itself
    ran        \* history: the kinds of the calls that changed something

gate == <<mutated, verified, demands>>
retries == <<cuts, shorts, blanks>>
consent == <<planMode, trusted>>
vars == <<at, iter, batch, verdicts, call, child, free, dialog, consent, stopped, tail,
          gate, retries, ending, requests, ran>>

Slots == 1 .. MaxBatch

\* Who can wait for the dialog: the loop itself (0) and the sub-agents.
Askers == 0 .. MaxBatch

NoChild == [at |-> "none", aborted |-> FALSE]

Child == [at : {"none", "queued", "think", "asking", "work", "over"}, aborted : BOOLEAN]

\* plan: the gate decided it under plan mode.  note: the sentence a plan-mode call is settled
\* with, and whether it is a success.
Verdict == [allow : BOOLEAN, plan : BOOLEAN, note : {"none", "good", "bad"}]

Message == [role : {"assistant", "tool", "user"}, id : Askers]

Init ==
    /\ at = "top" /\ iter = 1 /\ batch = <<>> /\ verdicts = <<>>
    /\ call = [i \in Slots |-> "idle"]
    /\ child = [i \in Slots |-> NoChild]
    /\ free = Concurrency /\ dialog = {}
    /\ planMode \in BOOLEAN /\ trusted = {} /\ stopped = FALSE
    /\ tail = <<>>
    /\ mutated = FALSE /\ verified = FALSE /\ demands = 0
    /\ cuts = 0 /\ shorts = 0 /\ blanks = 0
    /\ ending = "none" /\ requests = 0 /\ ran = {}

---------------------------------------------------------------------------
(* The approval policy (lib/tools/approval.ts). *)

Mutates(k) == k \in {"write", "check"}

Verifies(k) == k = "check"

\* (Mutant: what the user trusted comes before plan mode.)
DecideTrustFirst(k) ==
    IF k \in trusted \/ Mode = "yolo" \/ (Mode = "auto-reads" /\ ~ Mutates(k)) THEN "allow"
    ELSE IF planMode THEN IF Mutates(k) THEN "deny" ELSE "allow" ELSE "ask"

Decide(k) ==
    IF planMode
    THEN IF Mutates(k) THEN "deny" ELSE "allow"
    ELSE IF k \in trusted \/ Mode = "yolo" \/ (Mode = "auto-reads" /\ ~ Mutates(k))
         THEN "allow" ELSE "ask"

\* What the user may answer, and what the answer lets run unasked from now on.
Trusts(k) == {trusted, trusted \cup {k}, Kinds}

---------------------------------------------------------------------------
(* The rounds. *)

IsFinalRound == iter = Bound

Ended == at = "over"

Ends(how) == at' = "over" /\ ending' = how

\* A new round: the abort check, then the model call.
Ask ==
    /\ at = "top"
    /\ IF stopped THEN Ends("thrown") /\ UNCHANGED requests
                  ELSE at' = "stream" /\ requests' = requests + 1 /\ UNCHANGED ending
    /\ UNCHANGED <<iter, batch, verdicts, call, child, free, dialog, consent, stopped, tail,
                   gate, retries, ran>>

AskFails ==
    /\ at = "stream" /\ Ends("thrown")
    /\ UNCHANGED <<iter, batch, verdicts, call, child, free, dialog, consent, stopped, tail,
                   gate, retries, requests, ran>>

Batches == UNION {[1 .. n -> Kinds] : n \in Slots}

\* A reply: its calls, how the stream said it ended ("cut": a declared finish that never came),
\* and what its text is worth.
Reply == [calls : Batches \cup {<<>>}, finish : {"stop", "cut", "length"},
          text : {"claim", "plain", "thoughts"}]

\* (Mutant: the retry is not counted.)
AgainUncounted(n) ==
    n' = n /\ at' = "top" /\ UNCHANGED <<iter, batch, verdicts, call, tail, gate, ending>>

\* The round is run again, by its own number.
Again(n) == n' = n + 1 /\ at' = "top" /\ UNCHANGED <<iter, batch, verdicts, call, tail, gate, ending>>

Demanded(r) ==
    /\ mutated /\ ~ verified /\ demands < DemandCap /\ ~ IsFinalRound /\ r.text = "claim"

\* A reply without calls.
Answers(r) ==
    LET truncated == r.finish = "cut"
        noAnswer == r.text = "thoughts"
    IN  \/ truncated /\ cuts < CutRetries /\ Again(cuts) /\ UNCHANGED <<shorts, blanks>>
        \/ ~ (truncated /\ cuts < CutRetries) /\ noAnswer /\ blanks < BlankRetries /\ Again(blanks) /\ UNCHANGED <<cuts, shorts>>
        \/ /\ ~ (truncated /\ cuts < CutRetries) /\ noAnswer /\ blanks >= BlankRetries
           /\ Ends("thrown")
           /\ UNCHANGED <<iter, batch, verdicts, call, tail, gate, retries>>
        \/ /\ ~ (truncated /\ cuts < CutRetries) /\ ~ noAnswer /\ Demanded(r)
           /\ demands' = demands + 1
           /\ tail' = tail \o <<[role |-> "assistant", id |-> 0], [role |-> "user", id |-> 0]>>
           /\ iter' = iter + 1 /\ at' = "top"
           /\ UNCHANGED <<batch, verdicts, call, mutated, verified, retries, ending>>
        \/ /\ ~ (truncated /\ cuts < CutRetries) /\ ~ noAnswer /\ ~ Demanded(r)
           /\ Ends(IF r.text = "claim" THEN "claimed" ELSE "answered")
           /\ UNCHANGED <<iter, batch, verdicts, call, tail, gate, retries>>

\* A reply with calls: one that was cut at the output cap is asked for once more.
Calls(r) ==
    \/ r.finish = "length" /\ shorts < ShortRetries /\ Again(shorts) /\ UNCHANGED <<cuts, blanks>>
    \/ /\ ~ (r.finish = "length" /\ shorts < ShortRetries)
       /\ batch' = r.calls
       /\ tail' = <<[role |-> "assistant", id |-> Len(r.calls)]>>
       /\ at' = "approve"
       /\ UNCHANGED <<iter, verdicts, call, gate, retries, ending>>

Receive ==
    /\ at = "stream"
    /\ \E r \in Reply : IF r.calls = <<>> THEN Answers(r) ELSE Calls(r)
    /\ UNCHANGED <<child, free, dialog, consent, stopped, requests, ran>>

---------------------------------------------------------------------------
(* Approvals, one at a time. *)

Upcoming == Len(verdicts) + 1

\* (Mutant: the verdict is pushed again after the branch that pushed it.)
RulesTwice(allow, plan, note) ==
    LET v == [allow |-> allow, plan |-> plan, note |-> note] IN verdicts' = verdicts \o <<v, v>>

Rules(allow, plan, note) ==
    verdicts' = Append(verdicts, [allow |-> allow, plan |-> plan, note |-> note])

Parks == at' = "asking"

\* The next call of the batch: a broken one is not asked about, a plan-mode call is its own
\* dialog or, out of place or without a plan, a failure, any other goes through the gate.
Approve ==
    /\ at = "approve" /\ Upcoming <= Len(batch) /\ ~ stopped
    /\ LET k == batch[Upcoming]
       IN  \/ k = "broken" /\ Rules(TRUE, FALSE, "none") /\ UNCHANGED <<at, dialog>>
           \/ k \in {"enter", "exit"} /\ planMode /\ Rules(TRUE, TRUE, "bad") /\ UNCHANGED <<at, dialog>>
           \/ k = "exit" /\ ~ planMode /\ Rules(TRUE, FALSE, "bad") /\ UNCHANGED <<at, dialog>>
           \/ k = "enter" /\ ~ planMode /\ Parks /\ UNCHANGED <<verdicts, dialog>>
           \/ k = "exit" /\ planMode /\ Parks /\ UNCHANGED <<verdicts, dialog>>
           \/ /\ k \notin {"broken", "enter", "exit"} /\ Decide(k) # "ask"
              /\ Rules(Decide(k) = "allow", planMode, "none") /\ UNCHANGED <<at, dialog>>
           \/ /\ k \notin {"broken", "enter", "exit"} /\ Decide(k) = "ask"
              /\ Parks /\ dialog' = {0} /\ UNCHANGED verdicts
    /\ UNCHANGED <<iter, batch, call, child, free, consent, stopped, tail, gate, retries,
                   ending, requests, ran>>

\* The user settles a plan dialog: declines, or enters the mode, or approves the plan and ends it.
SettlePlan ==
    /\ at = "asking" /\ batch[Upcoming] \in {"enter", "exit"}
    /\ Rules(TRUE, FALSE, "good") /\ at' = "approve"
    /\ planMode' \in {planMode, batch[Upcoming] = "enter"}
    /\ UNCHANGED <<iter, batch, call, child, free, dialog, trusted, stopped, tail, gate,
                   retries, ending, requests, ran>>

\* The abort checks of the approval phase.
Abandon ==
    /\ at = "approve" /\ stopped /\ Ends("thrown")
    /\ UNCHANGED <<iter, batch, verdicts, call, child, free, dialog, consent, stopped, tail,
                   gate, retries, requests, ran>>

---------------------------------------------------------------------------
(* Execution, all calls of the batch together. *)

\* What becomes of call i at once: the refusals and the settled sentences are results already.
Begun(i) ==
    IF i \notin DOMAIN batch THEN "idle"
    ELSE IF batch[i] = "broken" \/ ~ verdicts[i].allow \/ verdicts[i].note = "bad" THEN "fail"
    ELSE IF verdicts[i].note = "good" THEN "ok"
    ELSE "busy"

Delegated == {i \in DOMAIN batch : Begun(i) = "busy" /\ batch[i] = "agent"}

Lower(a, b) == IF a <= b THEN a ELSE b

\* The sub-agents that find a permit free: as many as there are, in call order.
FirstPermits(H) ==
    /\ Cardinality(H) = Lower(Concurrency, Cardinality(Delegated))
    /\ \A i \in H, j \in Delegated \ H : i < j

\* (Mutant: the abort is not looked at again after the last dialog.)
RunAnyway ==
    /\ at = "approve" /\ Upcoming > Len(batch)
    /\ call' = [i \in Slots |-> Begun(i)]
    /\ \E H \in SUBSET Delegated :
        /\ FirstPermits(H)
        /\ child' = [i \in Slots |-> [NoChild EXCEPT !.at = CASE i \in H -> "think"
                                                              [] i \in Delegated \ H -> "queued"
                                                              [] i \notin Delegated -> "none"]]
        /\ free' = Concurrency - Cardinality(H)
    /\ at' = "run"
    /\ UNCHANGED <<iter, batch, verdicts, dialog, consent, stopped, tail, gate, retries, ending,
                   requests, ran>>

Run ==
    /\ at = "approve" /\ Upcoming > Len(batch) /\ ~ stopped
    /\ call' = [i \in Slots |-> Begun(i)]
    /\ \E H \in SUBSET Delegated :
        /\ FirstPermits(H)
        /\ child' = [i \in Slots |-> [NoChild EXCEPT !.at = CASE i \in H -> "think"
                                                              [] i \in Delegated \ H -> "queued"
                                                              [] i \notin Delegated -> "none"]]
        /\ free' = Concurrency - Cardinality(H)
    /\ at' = "run"
    /\ UNCHANGED <<iter, batch, verdicts, dialog, consent, stopped, tail, gate, retries, ending,
                   requests, ran>>

Settles(i, result) ==
    /\ call' = [call EXCEPT ![i] = result]
    /\ ran' = IF result = "ok" /\ Mutates(batch[i]) THEN ran \cup {batch[i]} ELSE ran

\* A tool returns, fails or throws.
CallReturns(i) ==
    /\ at = "run" /\ call[i] = "busy" /\ batch[i] # "agent"
    /\ \E result \in {"ok", "fail"} : Settles(i, result)
    /\ UNCHANGED <<at, iter, batch, verdicts, child, free, dialog, consent, stopped, tail,
                   gate, retries, ending, requests>>

---------------------------------------------------------------------------
(* The sub-agents: the same loop, with the turn's gate and a watchdog of their own. *)

IsAt(i, where) == at = "run" /\ child[i].at = where

Now(i, where) == child' = [child EXCEPT ![i].at = where]

Waiters == {i \in Slots : child[i].at = "queued"}

\* The sub-agents of a batch queue in call order, and nobody joins them later.
First == CHOOSE i \in Waiters : \A j \in Waiters : i <= j

\* (Mutant: the counter is bumped, and the waiter woken as well.)
ChildOverBumping(i, result) ==
    /\ Settles(i, result) /\ free' = free + 1
    /\ IF Waiters = {} THEN Now(i, "over")
       ELSE child' = [child EXCEPT ![i].at = "over", ![First].at = "think"]


\* The child is over: its permit goes to the next in line, or back.
ChildOver(i, result) ==
    /\ Settles(i, result)
    /\ IF Waiters = {}
       THEN Now(i, "over") /\ free' = free + 1
       ELSE child' = [child EXCEPT ![i].at = "over", ![First].at = "think"] /\ UNCHANGED free

\* A round of the child: the abort check, then an answer, an error, or a look at something.  No
\* number of rounds ends it: SUBAGENT_MAX_ITERATIONS is none.
ChildThinks(i) ==
    /\ IsAt(i, "think")
    /\ \/ ChildOver(i, "fail") /\ UNCHANGED dialog
       \/ ~ child[i].aborted /\ ChildOver(i, "ok") /\ UNCHANGED dialog
       \/ /\ ~ child[i].aborted
          /\ \/ Decide("look") = "allow" /\ Now(i, "work") /\ UNCHANGED dialog
             \/ Decide("look") = "ask" /\ Now(i, "asking") /\ dialog' = {i}
          /\ UNCHANGED <<call, free, ran>>
    /\ UNCHANGED <<at, iter, batch, verdicts, consent, stopped, tail, gate, retries, ending, requests>>

ChildReads(i) ==
    /\ IsAt(i, "work")
    /\ Now(i, "think")
    /\ UNCHANGED <<at, iter, batch, verdicts, call, free, dialog, consent, stopped, tail,
                   gate, retries, ending, requests, ran>>

Watched == {"queued", "think", "asking", "work"}

\* No event of the child for SUBAGENT_INACTIVITY_TIMEOUT_MS: its own signal is aborted.
Watchdog(i) ==
    /\ at = "run" /\ child[i].at \in Watched /\ ~ child[i].aborted
    /\ child' = [child EXCEPT ![i].aborted = TRUE]
    /\ UNCHANGED <<at, iter, batch, verdicts, call, free, dialog, consent, stopped, tail,
                   gate, retries, ending, requests, ran>>

---------------------------------------------------------------------------
(* The user. *)

\* The dialog on the screen is answered.  Each request for approval has put itself into the same
\* place on the screen (Assistant.tsx:2836), so the answer goes to the last that asked.
Answer ==
    /\ \/ /\ dialog = {0}
          /\ \E allow \in BOOLEAN : Rules(allow, FALSE, "none")
                 /\ \/ ~ allow /\ UNCHANGED trusted
                    \/ allow /\ trusted' \in Trusts(batch[Upcoming])
          /\ at' = "approve" /\ UNCHANGED child
       \/ \E i \in Slots :
          /\ dialog = {i}
          /\ \/ Now(i, IF child[i].aborted THEN "think" ELSE "work") /\ trusted' \in Trusts("look")
             \/ Now(i, "think") /\ UNCHANGED trusted
          /\ UNCHANGED <<at, verdicts>>
    /\ dialog' = {}
    /\ UNCHANGED <<iter, batch, call, free, planMode, stopped, tail, gate, retries, ending,
                   requests, ran>>

\* The user switches plan mode while the turn runs.
TogglePlan ==
    /\ ~ Ended /\ planMode' = ~ planMode
    /\ UNCHANGED <<at, iter, batch, verdicts, call, child, free, dialog, trusted, stopped,
                   tail, gate, retries, ending, requests, ran>>

\* (Mutant: the parked approvals are not raced against the signal.)
StopUnheard ==
    /\ ~ Ended /\ ~ stopped /\ stopped' = TRUE
    /\ child' = [i \in Slots |-> IF child[i].at \in {"none", "over"} THEN child[i]
                                 ELSE [child[i] EXCEPT !.aborted = TRUE]]
    /\ UNCHANGED <<at, iter, batch, verdicts, call, free, dialog, consent, tail, gate,
                   retries, ending, requests, ran>>

\* Stop: every parked approval is denied, every sub-agent's signal is aborted.
Stop ==
    /\ ~ Ended /\ ~ stopped /\ stopped' = TRUE
    /\ dialog' = {}
    /\ child' = [i \in Slots |-> IF child[i].at \in {"none", "over"} THEN child[i]
                                 ELSE [child[i] EXCEPT !.aborted = TRUE,
                                         !.at = IF @ = "asking" THEN "think" ELSE @]]
    /\ \/ at = "asking" /\ Rules(FALSE, FALSE, "none") /\ at' = "approve"
       \/ at # "asking" /\ UNCHANGED <<at, verdicts>>
    /\ UNCHANGED <<iter, batch, call, free, consent, tail, gate, retries, ending, requests, ran>>

---------------------------------------------------------------------------
(* The end of a round. *)

\* (Mutant: a check that failed is a check, too.)
Attempted == {batch[i] : i \in DOMAIN batch}

\* The kinds that did what they were asked for.
Succeeded == {batch[i] : i \in {j \in DOMAIN batch : call[j] = "ok"}}

Images == {i \in DOMAIN batch : batch[i] = "look" /\ call[i] = "ok"}

\* The numbers of S in order.
Listings(S) ==
    {f \in UNION {[1 .. n -> S] : n \in 0 .. Cardinality(S)} :
        /\ \A i, j \in DOMAIN f : i < j => f[i] < f[j]
        /\ \A x \in S : \E i \in DOMAIN f : f[i] = x}

\* (Mutant: the images of the first call go out with its result.)
ResultsInline(images) ==
    [n \in 1 .. Len(batch) + Len(images) |->
        IF n = 1 THEN [role |-> "tool", id |-> 1]
        ELSE IF n <= 1 + Len(images) THEN [role |-> "user", id |-> images[n - 1]]
        ELSE [role |-> "tool", id |-> n - Len(images)]]

\* The results in call order, then the images.
Results(images) ==
    [n \in 1 .. Len(batch) + Len(images) |->
        IF n <= Len(batch) THEN [role |-> "tool", id |-> n]
        ELSE [role |-> "user", id |-> images[n - Len(batch)]]]

Collect ==
    /\ at = "run" /\ \A i \in DOMAIN batch : call[i] \in {"ok", "fail"}
    /\ mutated' = (mutated \/ \E k \in Succeeded : Mutates(k))
    /\ verified' = (verified \/ \E k \in Succeeded : Verifies(k))
    /\ \E images \in Listings(Images) : tail' = tail \o Results(images)
    /\ batch' = <<>> /\ verdicts' = <<>>
    /\ call' = [i \in Slots |-> "idle"] /\ child' = [i \in Slots |-> NoChild]
    /\ \/ /\ IsFinalRound /\ ~ stopped
          /\ at' = "wrap" /\ requests' = requests + 1 /\ UNCHANGED <<iter, ending>>
       \/ IsFinalRound /\ stopped /\ Ends("ceiling") /\ UNCHANGED <<iter, requests>>
       \/ ~ IsFinalRound /\ iter' = iter + 1 /\ at' = "top" /\ UNCHANGED <<ending, requests>>
    /\ UNCHANGED <<free, dialog, consent, stopped, demands, retries, ran>>

\* The wrap-up round, without tools: its text, or the ceiling's own.
WrapUp ==
    /\ at = "wrap" /\ Ends("ceiling")
    /\ UNCHANGED <<iter, batch, verdicts, call, child, free, dialog, consent, stopped, tail,
                   gate, retries, requests, ran>>

---------------------------------------------------------------------------

Loop == Ask \/ AskFails \/ Receive \/ Approve \/ Abandon \/ Run \/ Collect \/ WrapUp

Work(i) == CallReturns(i) \/ ChildThinks(i) \/ ChildReads(i)

\* The sub-agent's model answers without a call, or fails.
ChildConcludes(i) == ChildThinks(i) /\ child'[i].at = "over"

Next ==
    \/ Loop \/ SettlePlan \/ Answer \/ TogglePlan \/ Stop
    \/ \E i \in Slots : Work(i) \/ Watchdog(i)

\* The model and the tools come back: the gateway bounds a model call and the sandbox a tool.
\* Each event of a child resets its watchdog, whose timer is promised to fire in a child alone that
\* stays where it is.
Fairness ==
    /\ WF_vars(Loop)
    /\ \A i \in Slots :
        /\ WF_vars(Work(i))
        /\ \A where \in Watched : WF_vars(child[i].at = where /\ Watchdog(i))

Spec == Init /\ [][Next]_vars /\ Fairness

---------------------------------------------------------------------------
(* Properties. *)

\* Every variable has its type.
TypeOK ==
    /\ at \in {"top", "stream", "approve", "asking", "run", "wrap", "over"}
    /\ iter \in 1 .. Bound
    /\ batch \in Seq(Kinds) /\ Len(batch) <= MaxBatch
    /\ verdicts \in Seq(Verdict) /\ Len(verdicts) <= Len(batch)
    /\ call \in [Slots -> {"idle", "busy", "ok", "fail"}]
    /\ child \in [Slots -> Child]
    /\ free \in 0 .. Concurrency
    /\ dialog \subseteq Askers
    /\ planMode \in BOOLEAN /\ trusted \subseteq Kinds \cup {"look"} /\ stopped \in BOOLEAN
    /\ tail \in Seq(Message)
    /\ mutated \in BOOLEAN /\ verified \in BOOLEAN /\ demands \in 0 .. DemandCap
    /\ cuts \in 0 .. CutRetries /\ shorts \in 0 .. ShortRetries /\ blanks \in 0 .. BlankRetries
    /\ ending \in {"none", "thrown", "claimed", "answered", "ceiling"}
    /\ requests \in Nat /\ ran \subseteq Kinds

Holders == {i \in Slots : child[i].at \in {"think", "asking", "work"}}

\* agentLoop.ts:1069-1096: a permit is free or it is one running sub-agent's, whoever ends, is
\* aborted or fails, and a sub-agent waits in line only while none is free.
PermitsConserved ==
    /\ free + Cardinality(Holders) = Concurrency
    /\ Waiters # {} => free = 0

\* agentLoop.ts:1930-1947: whatever became of the calls, when the model is asked again each call
\* of its last turn is answered once, in order, and no other message comes between the results.
ResultsFollow ==
    (at \in {"stream", "wrap"} /\ tail # <<>>) =>
        LET n == tail[1].id
        IN  /\ Len(tail) > n /\ tail[1].role = "assistant"
            /\ \A i \in 1 .. n : tail[i + 1] = [role |-> "tool", id |-> i]
            /\ \A i \in n + 2 .. Len(tail) : tail[i].role # "tool"

\* approval.ts:52-56: no write runs that was asked for while plan mode was on, whatever the mode
\* underneath and whatever the user trusted before.
PlanHoldsWrites ==
    \A i \in DOMAIN batch :
        at = "run" /\ Mutates(batch[i]) /\ verdicts[i].plan => call[i] = "fail"

\* agentLoop.ts:100-153, 925-958: a turn that changed the workspace, ran no check and ends with a
\* claim of success has been asked for the proof as often as configured, or is in its last round.
ClaimIsHeld ==
    (ending = "claimed" /\ (\E k \in ran : Mutates(k)) /\ ~ (\E k \in ran : Verifies(k)))
        => demands = DemandCap \/ IsFinalRound

\* agentLoop.ts:773-787, 2016-2066: the retries re-run a round without counting it, and still a
\* budget bounds the model calls: one per round and per retry, and the wrap-up.
RequestsBounded == requests <= Bound + CutRetries + ShortRetries + BlankRetries + 1

\* agentLoop.ts:788, 1018, 1066: after the user's Stop nothing is started any more, neither a call
\* of the batch nor one of a sub-agent.
NothingStartsAfterStop ==
    [][stopped => \A i \in Slots : /\ (call'[i] = "busy" => call[i] = "busy")
                                   /\ (child'[i].at = "work" => child[i].at = "work")]_vars

\* controller.ts:10-12: Stop ends the turn, also one that is parked on a dialog nobody answers.
StopEnds == stopped ~> Ended


\* agentLoop.ts:1256-1257: a sub-agent that "produces no event ... is aborted": none waits on an
\* approval for ever, if the user answers what is on the screen.
ChildrenEnd ==
    WF_vars(Answer) =>
        \A i \in Slots : child[i].at = "asking" ~> (child[i].at # "asking" \/ Ended)
=============================================================================
