-------------------------- MODULE AgentLoopProofs --------------------------
(***************************************************************************)
(* Proofs about AgentLoop, for any kinds of call, any size of a batch, any *)
(* budget, retries and concurrency, and every approval mode.               *)
(*                                                                         *)
(* Outside a round's execution nothing is in flight and every permit is    *)
(* free; during it a sub-agent belongs to a call of the batch that is not  *)
(* over, and whoever may be asked about is parked where the answer finds   *)
(* it.  The rest follows the facts of a turn from the place where they     *)
(* are made to the place where they are read.                              *)
(***************************************************************************)
EXTENDS AgentLoop, TLAPS, FiniteSetTheorems, WellFoundedInduction

Active(i) == child[i].at \in {"queued", "think", "asking", "work"}

\* Outside "run" nothing runs.
Quiet == at # "run" => free = Concurrency /\ \A i \in Slots : call[i] = "idle" /\ child[i] = NoChild

Aligned ==
    /\ at = "asking" => Len(verdicts) < Len(batch)
    /\ at = "run" => Len(verdicts) = Len(batch)
    /\ \A i \in Slots : call[i] = "busy" => at = "run" /\ i \in DOMAIN batch
    /\ at \in {"top", "stream", "wrap"} => verdicts = <<>> /\ batch = <<>>

\* A sub-agent that is not over belongs to a call that is not over.
Children ==
    \A i \in Slots :
        Active(i) => at = "run" /\ i \in DOMAIN batch /\ batch[i] = "agent" /\ call[i] = "busy"

\* The dialog on the screen answers one who is parked on it.
Dialogs ==
    \/ dialog = {}
    \/ dialog = {0} /\ at = "asking" /\ ~ stopped /\ batch[Upcoming] \notin {"enter", "exit"}
    \/ \E i \in Slots : dialog = {i} /\ child[i].at = "asking" /\ ~ stopped

\* After Stop nobody is parked, and every sub-agent's signal is aborted.
Halted ==
    stopped => /\ at # "asking"
               /\ \A i \in Slots : Active(i) => child[i].aborted /\ child[i].at # "asking"

\* What plan mode refused was not allowed, and what is settled by a sentence writes nothing.
Judged ==
    \A i \in DOMAIN verdicts :
        /\ Mutates(batch[i]) /\ verdicts[i].plan => ~ verdicts[i].allow
        /\ verdicts[i].note = "good" => ~ Mutates(batch[i])

\* The rounds that were run again.
Retried == cuts + shorts + blanks

\* The model calls so far against the rounds and the retries.
Counted ==
    /\ at = "top" => requests < iter + Retried
    /\ at \in {"stream", "approve", "asking", "run"} => requests <= iter + Retried
    /\ requests <= iter + Retried + 1

\* What the verification gate knows against what has run.
Known ==
    /\ \A k \in ran : Mutates(k) => mutated \/ (at = "run" /\ k \in Succeeded)
    /\ verified => \E k \in ran : Verifies(k)
    /\ at = "run" => \A k \in Succeeded : Mutates(k) => k \in ran

\* Each call of the last assistant turn is answered, in order, and nothing comes between.
Complete(t) ==
    LET n == t[1].id
    IN  /\ Len(t) > n /\ t[1].role = "assistant"
        /\ \A i \in 1 .. n : t[i + 1] = [role |-> "tool", id |-> i]
        /\ \A i \in n + 2 .. Len(t) : t[i].role # "tool"

Told ==
    /\ at \in {"approve", "asking", "run"} => tail = <<[role |-> "assistant", id |-> Len(batch)]>>
    /\ at \in {"top", "stream", "wrap"} => tail = <<>> \/ Complete(tail)

\* An ending is an end.
Settled == ending = "none" \/ at = "over"

IInv ==
    /\ TypeOK
    /\ Quiet /\ Aligned /\ Children /\ Dialogs /\ Halted
    /\ PermitsConserved
    /\ Judged /\ PlanHoldsWrites
    /\ Counted
    /\ Known /\ Settled /\ ClaimIsHeld
    /\ Told
-----------------------------------------------------------------------------
(* Facts that several steps use. *)

\* The permits are where they were if nobody takes, leaves or awaits one.
LEMMA SamePermits ==
    ASSUME PermitsConserved, UNCHANGED free,
           \A i \in Slots : /\ child'[i].at \in {"think", "asking", "work"} <=> child[i].at \in {"think", "asking", "work"}
                            /\ child'[i].at = "queued" <=> child[i].at = "queued"
    PROVE  PermitsConserved'
<1>1. Holders' = Holders /\ Waiters' = Waiters
  BY DEF Holders, Waiters
<1> QED
  BY <1>1 DEF PermitsConserved

LEMMA SlotsFinite == IsFiniteSet(Slots) /\ \A S \in SUBSET Slots : IsFiniteSet(S) /\ Cardinality(S) \in Nat
<1>1. IsFiniteSet(Slots)
  BY AgentLoopAssumption, FS_Interval DEF Slots
<1>2. ASSUME NEW S \in SUBSET Slots PROVE IsFiniteSet(S) /\ Cardinality(S) \in Nat
  <2>1. IsFiniteSet(S)
    BY <1>1, FS_Subset
  <2> QED
    BY <2>1, FS_CardinalityType
<1> QED
  BY <1>1, <1>2

\* Outside a round's execution all permits are free.
LEMMA QuietPermits ==
    ASSUME free' = Concurrency, \A i \in Slots : child'[i] = NoChild
    PROVE  PermitsConserved'
<1>1. Holders' = {} /\ Waiters' = {}
  BY DEF Holders, Waiters, NoChild
<1>2. Cardinality(Holders') = 0
  BY <1>1, FS_EmptySet
<1> QED
  BY <1>1, <1>2, AgentLoopAssumption DEF PermitsConserved

-----------------------------------------------------------------------------
(* The loop's own steps. *)

LEMMA AskKeeps == ASSUME IInv, Ask PROVE IInv'
<1>1. TypeOK'
  BY DEF IInv, TypeOK, Ask, Ends, consent, gate, retries
<1>2. Quiet' /\ Aligned' /\ Children' /\ Dialogs' /\ Halted'
  BY DEF IInv, Quiet, Aligned, Children, Dialogs, Halted, Active, Ask, Ends, consent, gate, retries
<1>3. PermitsConserved'
  BY DEF IInv, PermitsConserved, Holders, Waiters, Ask, Ends, consent, gate, retries
<1>4. Judged' /\ PlanHoldsWrites'
  BY DEF IInv, Judged, PlanHoldsWrites, Ask, Ends, consent, gate, retries
<1>5. Counted'
  <2>1. requests \in Nat /\ iter \in Nat /\ Retried \in Nat
    BY AgentLoopAssumption DEF IInv, TypeOK, Retried
  <2> QED
    BY <2>1 DEF IInv, TypeOK, Ask, Ends, Counted, Retried, consent, gate, retries
<1>6. Known' /\ Settled' /\ ClaimIsHeld'
  BY DEF IInv, Known, Settled, ClaimIsHeld, Succeeded, IsFinalRound, Ask, Ends, consent, gate, retries
<1>7. Told'
  BY DEF IInv, Told, Complete, Ask, Ends, consent, gate, retries
<1> QED
  BY <1>1, <1>2, <1>3, <1>4, <1>5, <1>6, <1>7 DEF IInv

LEMMA AskFailsKeeps == ASSUME IInv, AskFails PROVE IInv'
<1>1. TypeOK'
  BY DEF IInv, TypeOK, AskFails, Ends, consent, gate, retries
<1>2. Quiet' /\ Aligned' /\ Children' /\ Dialogs' /\ Halted'
  BY DEF IInv, Quiet, Aligned, Children, Dialogs, Halted, Active, AskFails, Ends, consent, gate, retries
<1>3. PermitsConserved'
  BY DEF IInv, PermitsConserved, Holders, Waiters, AskFails, Ends, consent, gate, retries
<1>4. Judged' /\ PlanHoldsWrites'
  BY DEF IInv, Judged, PlanHoldsWrites, AskFails, Ends, consent, gate, retries
<1>5. Counted'
  BY DEF IInv, Counted, Retried, AskFails, Ends, consent, gate, retries
<1>6. Known' /\ Settled' /\ ClaimIsHeld'
  BY DEF IInv, Known, Settled, ClaimIsHeld, Succeeded, IsFinalRound, AskFails, Ends, consent, gate, retries
<1>7. Told'
  BY DEF IInv, Told, Complete, AskFails, Ends, consent, gate, retries
<1> QED
  BY <1>1, <1>2, <1>3, <1>4, <1>5, <1>6, <1>7 DEF IInv

LEMMA AbandonKeeps == ASSUME IInv, Abandon PROVE IInv'
<1>1. TypeOK'
  BY DEF IInv, TypeOK, Abandon, Ends, consent, gate, retries
<1>2. Quiet' /\ Aligned' /\ Children' /\ Dialogs' /\ Halted'
  BY DEF IInv, Quiet, Aligned, Children, Dialogs, Halted, Active, Abandon, Ends, consent, gate, retries
<1>3. PermitsConserved'
  BY DEF IInv, PermitsConserved, Holders, Waiters, Abandon, Ends, consent, gate, retries
<1>4. Judged' /\ PlanHoldsWrites'
  BY DEF IInv, Judged, PlanHoldsWrites, Abandon, Ends, consent, gate, retries
<1>5. Counted'
  BY DEF IInv, Counted, Retried, Abandon, Ends, consent, gate, retries
<1>6. Known' /\ Settled' /\ ClaimIsHeld'
  BY DEF IInv, Known, Settled, ClaimIsHeld, Succeeded, IsFinalRound, Abandon, Ends, consent, gate, retries
<1>7. Told'
  BY DEF IInv, Told, Complete, Abandon, Ends, consent, gate, retries
<1> QED
  BY <1>1, <1>2, <1>3, <1>4, <1>5, <1>6, <1>7 DEF IInv

LEMMA WrapUpKeeps == ASSUME IInv, WrapUp PROVE IInv'
<1>1. TypeOK'
  BY DEF IInv, TypeOK, WrapUp, Ends, consent, gate, retries
<1>2. Quiet' /\ Aligned' /\ Children' /\ Dialogs' /\ Halted'
  BY DEF IInv, Quiet, Aligned, Children, Dialogs, Halted, Active, WrapUp, Ends, consent, gate, retries
<1>3. PermitsConserved'
  BY DEF IInv, PermitsConserved, Holders, Waiters, WrapUp, Ends, consent, gate, retries
<1>4. Judged' /\ PlanHoldsWrites'
  BY DEF IInv, Judged, PlanHoldsWrites, WrapUp, Ends, consent, gate, retries
<1>5. Counted'
  BY DEF IInv, Counted, Retried, WrapUp, Ends, consent, gate, retries
<1>6. Known' /\ Settled' /\ ClaimIsHeld'
  BY DEF IInv, Known, Settled, ClaimIsHeld, Succeeded, IsFinalRound, WrapUp, Ends, consent, gate, retries
<1>7. Told'
  BY DEF IInv, Told, Complete, WrapUp, Ends, consent, gate, retries
<1> QED
  BY <1>1, <1>2, <1>3, <1>4, <1>5, <1>6, <1>7 DEF IInv

LEMMA TogglePlanKeeps == ASSUME IInv, TogglePlan PROVE IInv'
<1>1. TypeOK'
  BY DEF IInv, TypeOK, TogglePlan, Ended, consent, gate, retries
<1>2. Quiet' /\ Aligned' /\ Children' /\ Dialogs' /\ Halted'
  <2>1. UNCHANGED <<at, call, child, free, batch, verdicts, dialog, stopped>>
    BY DEF TogglePlan
  <2> QED
    BY <2>1 DEF IInv, Quiet, Aligned, Children, Dialogs, Halted, Active, Upcoming
<1>3. PermitsConserved'
  BY DEF IInv, PermitsConserved, Holders, Waiters, TogglePlan, Ended, consent, gate, retries
<1>4. Judged' /\ PlanHoldsWrites'
  BY DEF IInv, Judged, PlanHoldsWrites, TogglePlan, Ended, consent, gate, retries
<1>5. Counted'
  BY DEF IInv, Counted, Retried, TogglePlan, Ended, consent, gate, retries
<1>6. Known' /\ Settled' /\ ClaimIsHeld'
  BY DEF IInv, Known, Settled, ClaimIsHeld, Succeeded, IsFinalRound, TogglePlan, Ended, consent, gate, retries
<1>7. Told'
  BY DEF IInv, Told, Complete, TogglePlan, Ended, consent, gate, retries
<1> QED
  BY <1>1, <1>2, <1>3, <1>4, <1>5, <1>6, <1>7 DEF IInv

LEMMA SettlePlanKeeps == ASSUME IInv, SettlePlan PROVE IInv'
<1> DEFINE v == [allow |-> TRUE, plan |-> FALSE, note |-> "good"]
<1>v. v \in Verdict /\ verdicts' = Append(verdicts, v) /\ Len(verdicts) \in Nat
  BY DEF SettlePlan, Rules, IInv, TypeOK, Verdict
<1>a. at = "asking" /\ Len(verdicts) < Len(batch) /\ batch[Upcoming] \in {"enter", "exit"} /\ UNCHANGED batch
  BY DEF SettlePlan, IInv, Aligned
<1>1. TypeOK'
  <2>1. verdicts' \in Seq(Verdict) /\ Len(verdicts') <= Len(batch)
    BY <1>v, <1>a DEF IInv, TypeOK
  <2>2. planMode' \in BOOLEAN
    BY <1>a, Zenon DEF SettlePlan, IInv, TypeOK
  <2> QED
    BY <2>1, <2>2 DEF IInv, TypeOK, SettlePlan, consent, gate, retries
<1>2. Quiet' /\ Aligned' /\ Children' /\ Dialogs' /\ Halted'
  BY DEF IInv, Quiet, Aligned, Children, Dialogs, Halted, Active, SettlePlan, Rules, Upcoming, consent, gate, retries
<1>3. PermitsConserved'
  BY DEF IInv, PermitsConserved, Holders, Waiters, SettlePlan, Rules, Upcoming, consent, gate, retries
<1>4. Judged' /\ PlanHoldsWrites'
  <2>1. ASSUME NEW i \in DOMAIN verdicts' PROVE verdicts'[i] = IF i = Upcoming THEN v ELSE verdicts[i]
    BY <1>v DEF IInv, TypeOK, Upcoming
  <2>2. Judged'
    BY <1>v, <1>a, <2>1 DEF IInv, TypeOK, Judged, Mutates, Upcoming
  <2>3. PlanHoldsWrites'
    BY <1>a DEF SettlePlan, PlanHoldsWrites
  <2> QED
    BY <2>2, <2>3
<1>5. Counted'
  BY DEF IInv, Counted, Retried, SettlePlan, Rules, Upcoming, consent, gate, retries
<1>6. Known' /\ Settled' /\ ClaimIsHeld'
  BY DEF IInv, Known, Settled, ClaimIsHeld, Succeeded, IsFinalRound, SettlePlan, Rules, Upcoming, consent, gate, retries
<1>7. Told'
  BY DEF IInv, Told, Complete, SettlePlan, Rules, Upcoming, consent, gate, retries
<1> QED
  BY <1>1, <1>2, <1>3, <1>4, <1>5, <1>6, <1>7 DEF IInv

-----------------------------------------------------------------------------
(* The sub-agents' steps. *)

LEMMA ChildReadsKeeps == ASSUME IInv, NEW i \in Slots, ChildReads(i) PROVE IInv'
<1> DEFINE c == [child[i] EXCEPT !.at = "think"]
<1>c. child' = [child EXCEPT ![i] = c] /\ child[i].at = "work" /\ at = "run"
  BY DEF ChildReads, IsAt, Now
<1>r. child[i] \in Child
  BY DEF IInv, TypeOK
<1>t. c \in Child /\ c.at = "think" /\ c.aborted = child[i].aborted
  BY <1>r DEF Child
<1>s. /\ child' \in [Slots -> Child] /\ child'[i] = c
      /\ \A j \in Slots \ {i} : child'[j] = child[j]
  BY <1>c, <1>t DEF IInv, TypeOK
<1>u. UNCHANGED <<at, iter, batch, verdicts, call, free, dialog, stopped>>
  BY DEF ChildReads
<1> HIDE DEF c
<1>1. TypeOK'
  BY <1>s DEF IInv, TypeOK, ChildReads, consent, gate, retries
<1>2. Quiet' /\ Aligned' /\ Children' /\ Dialogs' /\ Halted'
  BY <1>c, <1>t, <1>s, <1>u DEF IInv, Quiet, Aligned, Children, Dialogs, Halted, Active, Upcoming
<1>3. PermitsConserved'
  BY <1>c, <1>t, <1>s, <1>u, SamePermits DEF IInv
<1>4. Judged' /\ PlanHoldsWrites'
  BY DEF IInv, Judged, PlanHoldsWrites, ChildReads, IsAt, consent, gate, retries
<1>5. Counted'
  BY DEF IInv, Counted, Retried, ChildReads, IsAt, consent, gate, retries
<1>6. Known' /\ Settled' /\ ClaimIsHeld'
  BY DEF IInv, Known, Settled, ClaimIsHeld, Succeeded, IsFinalRound, ChildReads, IsAt, consent, gate, retries
<1>7. Told'
  BY DEF IInv, Told, Complete, ChildReads, IsAt, consent, gate, retries
<1> QED
  BY <1>1, <1>2, <1>3, <1>4, <1>5, <1>6, <1>7 DEF IInv

LEMMA WatchdogKeeps == ASSUME IInv, NEW i \in Slots, Watchdog(i) PROVE IInv'
<1> DEFINE c == [child[i] EXCEPT !.aborted = TRUE]
<1>c. child' = [child EXCEPT ![i] = c] /\ at = "run"
  BY DEF Watchdog
<1>t. c \in Child /\ c.at = child[i].at /\ c.aborted
  BY <1>c DEF IInv, TypeOK, Child
<1>s. /\ child' \in [Slots -> Child] /\ child'[i] = c
      /\ \A j \in Slots \ {i} : child'[j] = child[j]
  BY <1>c, <1>t DEF IInv, TypeOK
<1>u. UNCHANGED <<at, iter, batch, verdicts, call, free, dialog, stopped>>
  BY DEF Watchdog
<1> HIDE DEF c
<1>1. TypeOK'
  BY <1>s DEF IInv, TypeOK, Watchdog, consent, gate, retries
<1>2. Quiet' /\ Aligned' /\ Children' /\ Dialogs' /\ Halted'
  BY <1>c, <1>t, <1>s, <1>u DEF IInv, Quiet, Aligned, Children, Dialogs, Halted, Active, Upcoming
<1>3. PermitsConserved'
  BY <1>c, <1>t, <1>s, <1>u, SamePermits DEF IInv
<1>4. Judged' /\ PlanHoldsWrites'
  BY DEF IInv, Judged, PlanHoldsWrites, Watchdog, consent, gate, retries
<1>5. Counted'
  BY DEF IInv, Counted, Retried, Watchdog, consent, gate, retries
<1>6. Known' /\ Settled' /\ ClaimIsHeld'
  BY DEF IInv, Known, Settled, ClaimIsHeld, Succeeded, IsFinalRound, Watchdog, consent, gate, retries
<1>7. Told'
  BY DEF IInv, Told, Complete, Watchdog, consent, gate, retries
<1> QED
  BY <1>1, <1>2, <1>3, <1>4, <1>5, <1>6, <1>7 DEF IInv

-----------------------------------------------------------------------------
(* Verdicts. *)

\* The next verdict, if plan mode did not let a write through by it.
LEMMA Ruled ==
    ASSUME IInv, NEW v \in Verdict, verdicts' = Append(verdicts, v), Len(verdicts) < Len(batch),
           Mutates(batch[Upcoming]) /\ v.plan => ~ v.allow,
           v.note = "good" => ~ Mutates(batch[Upcoming]),
           UNCHANGED batch, at' # "run"
    PROVE  /\ verdicts' \in Seq(Verdict) /\ Len(verdicts') <= Len(batch)
           /\ Judged' /\ PlanHoldsWrites'
<1>1. verdicts \in Seq(Verdict) /\ Len(verdicts) \in Nat /\ Len(batch) \in Nat
  BY DEF IInv, TypeOK
<1>2. verdicts' \in Seq(Verdict) /\ Len(verdicts') <= Len(batch)
  BY <1>1
<1>3. ASSUME NEW i \in DOMAIN verdicts'
      PROVE  /\ verdicts'[i] = IF i = Upcoming THEN v ELSE verdicts[i]
             /\ i # Upcoming => i \in DOMAIN verdicts
  BY <1>1, <1>3 DEF Upcoming
<1>4. Judged'
  BY <1>3 DEF IInv, Judged, Mutates
<1>5. PlanHoldsWrites'
  BY DEF PlanHoldsWrites
<1> QED
  BY <1>2, <1>4, <1>5

LEMMA ApproveKeeps == ASSUME IInv, Approve PROVE IInv'
<1>a. /\ at = "approve" /\ ~ stopped /\ Len(verdicts) < Len(batch)
      /\ batch[Upcoming] \in Kinds
      /\ UNCHANGED <<batch, call, child, free, stopped>>
  BY DEF Approve, Upcoming, IInv, TypeOK
<1>d. dialog = {}
  BY <1>a DEF IInv, Dialogs, Children, Active
<1> DEFINE Says == /\ at' = "approve" /\ dialog' = {}
                   /\ verdicts' \in Seq(Verdict) /\ Len(verdicts') <= Len(batch)
                   /\ Judged' /\ PlanHoldsWrites'
           Waits == /\ at' = "asking" /\ verdicts' = verdicts
                    /\ \/ dialog' = {}
                       \/ dialog' = {0} /\ batch[Upcoming] \notin {"enter", "exit"}
<1>b. Says \/ Waits
  <2> DEFINE k == batch[Upcoming]
  <2>1. ASSUME NEW allow \in BOOLEAN, NEW plan \in BOOLEAN, NEW note \in {"none", "good", "bad"},
               Rules(allow, plan, note), UNCHANGED <<at, dialog>>,
               Mutates(k) /\ plan => ~ allow, note = "good" => ~ Mutates(k)
        PROVE  Says
    <3> DEFINE v == [allow |-> allow, plan |-> plan, note |-> note]
    <3>1. v \in Verdict /\ v.allow = allow /\ v.plan = plan /\ v.note = note
      BY DEF Verdict
    <3>2. verdicts' = Append(verdicts, v)
      BY <2>1 DEF Rules
    <3> HIDE DEF v
    <3> QED
      BY <1>a, <1>d, <2>1, <3>1, <3>2, Ruled
  <2>2. planMode \in BOOLEAN /\ (Decide(k) = "allow") \in BOOLEAN
    BY Zenon DEF IInv, TypeOK
  <2>3. CASE k = "broken" /\ Rules(TRUE, FALSE, "none") /\ UNCHANGED <<at, dialog>>
    BY <2>1, <2>3
  <2>4. CASE k \in {"enter", "exit"} /\ planMode /\ Rules(TRUE, TRUE, "bad") /\ UNCHANGED <<at, dialog>>
    BY <2>1, <2>4 DEF Mutates
  <2>5. CASE k = "exit" /\ ~ planMode /\ Rules(TRUE, FALSE, "bad") /\ UNCHANGED <<at, dialog>>
    BY <2>1, <2>5
  <2>6. CASE Parks /\ UNCHANGED <<verdicts, dialog>>
    BY <1>d, <2>6 DEF Parks
  <2>7. CASE Rules(Decide(k) = "allow", planMode, "none") /\ UNCHANGED <<at, dialog>>
    <3>1. Mutates(k) /\ planMode => Decide(k) # "allow"
      BY DEF Decide
    <3> QED
      BY <2>1, <2>2, <2>7, <3>1
  <2>8. CASE k \notin {"broken", "enter", "exit"} /\ Parks /\ dialog' = {0} /\ UNCHANGED verdicts
    BY <2>8 DEF Parks
  <2> QED
    BY <2>3, <2>4, <2>5, <2>6, <2>7, <2>8 DEF Approve
<1>u. UNCHANGED <<iter, consent, tail, gate, retries, ending, requests, ran>>
  BY DEF Approve
<1>1. TypeOK'
  <2>1. dialog' \subseteq Askers
    BY <1>b, AgentLoopAssumption DEF Askers
  <2>2. verdicts' \in Seq(Verdict) /\ Len(verdicts') <= Len(batch) /\ at' \in {"approve", "asking"}
    BY <1>a, <1>b DEF IInv, TypeOK
  <2> QED
    BY <1>a, <1>u, <2>1, <2>2 DEF IInv, TypeOK, consent, gate, retries
<1>2. Quiet' /\ Aligned' /\ Children' /\ Dialogs' /\ Halted'
  BY <1>a, <1>b DEF IInv, Quiet, Aligned, Children, Dialogs, Halted, Active, Upcoming
<1>3. PermitsConserved'
  BY <1>a DEF IInv, PermitsConserved, Holders, Waiters
<1>4. Judged' /\ PlanHoldsWrites'
  BY <1>a, <1>b DEF IInv, Judged, PlanHoldsWrites
<1>5. Counted'
  BY <1>a, <1>b, <1>u DEF IInv, Counted, Retried, retries
<1>6. Known' /\ Settled' /\ ClaimIsHeld'
  BY <1>a, <1>b, <1>u DEF IInv, Known, Settled, ClaimIsHeld, Succeeded, IsFinalRound, gate
<1>7. Told'
  BY <1>a, <1>b, <1>u DEF IInv, Told
<1> QED
  BY <1>1, <1>2, <1>3, <1>4, <1>5, <1>6, <1>7 DEF IInv

-----------------------------------------------------------------------------
(* The results of the calls. *)

\* A call is over: what it did is known where the gate looks for it.
LEMMA Settled1 ==
    ASSUME IInv, NEW i \in Slots, NEW result \in {"ok", "fail"}, Settles(i, result),
           at = "run", i \in DOMAIN batch, call[i] = "busy",
           UNCHANGED <<at, batch, verdicts, mutated, verified, ending>>
    PROVE  /\ call' \in [Slots -> {"idle", "busy", "ok", "fail"}] /\ ran' \subseteq Kinds
           /\ call'[i] = result /\ \A j \in Slots \ {i} : call'[j] = call[j]
           /\ Judged' /\ PlanHoldsWrites'
           /\ Known' /\ Settled' /\ ClaimIsHeld'
<1>1. /\ call' \in [Slots -> {"idle", "busy", "ok", "fail"}]
      /\ call'[i] = result /\ \A j \in Slots \ {i} : call'[j] = call[j]
  BY DEF IInv, TypeOK, Settles
<1>2. batch[i] \in Kinds /\ DOMAIN batch \subseteq Slots
  <2>1. batch \in Seq(Kinds) /\ Len(batch) \in Nat /\ Len(batch) <= MaxBatch /\ MaxBatch \in Nat
    BY AgentLoopAssumption DEF IInv, TypeOK
  <2> QED
    BY <2>1 DEF Slots
<1>3. ran' \subseteq Kinds
  BY <1>2 DEF IInv, TypeOK, Settles
<1>4. Judged'
  BY DEF IInv, Judged
<1>5. PlanHoldsWrites'
  BY <1>1, <1>2 DEF IInv, PlanHoldsWrites
<1>6. Succeeded' = IF result = "ok" THEN Succeeded \cup {batch[i]} ELSE Succeeded
  BY <1>1, <1>2 DEF Succeeded
<1>7. Known'
  BY <1>6 DEF IInv, Known, Settles
<1>8. Settled' /\ ClaimIsHeld'
  BY DEF IInv, Settled, ClaimIsHeld
<1> QED
  BY <1>1, <1>3, <1>4, <1>5, <1>7, <1>8

LEMMA CallReturnsKeeps == ASSUME IInv, NEW i \in Slots, CallReturns(i) PROVE IInv'
<1>a. /\ at = "run" /\ i \in DOMAIN batch /\ call[i] = "busy" /\ batch[i] # "agent"
      /\ UNCHANGED <<at, batch, verdicts, child, free, dialog, stopped, mutated, verified, ending>>
  BY DEF CallReturns, IInv, Aligned, gate
<1>s. PICK result \in {"ok", "fail"} : Settles(i, result)
  BY DEF CallReturns
<1>c. /\ call' \in [Slots -> {"idle", "busy", "ok", "fail"}] /\ ran' \subseteq Kinds
      /\ call'[i] = result /\ \A j \in Slots \ {i} : call'[j] = call[j]
      /\ Judged' /\ PlanHoldsWrites'
      /\ Known' /\ Settled' /\ ClaimIsHeld'
  BY <1>a, <1>s, Settled1
<1>1. TypeOK'
  BY <1>c DEF IInv, TypeOK, CallReturns, consent, gate, retries
<1>2. Quiet' /\ Aligned' /\ Children' /\ Dialogs' /\ Halted'
  BY <1>a, <1>c DEF IInv, Quiet, Aligned, Children, Dialogs, Halted, Active, Upcoming
<1>3. PermitsConserved'
  BY <1>a DEF IInv, PermitsConserved, Holders, Waiters
<1>4. Judged' /\ PlanHoldsWrites'
  BY <1>c
<1>5. Counted'
  BY DEF IInv, CallReturns, Counted, Retried, retries
<1>6. Known' /\ Settled' /\ ClaimIsHeld'
  BY <1>c
<1>7. Told'
  BY DEF IInv, CallReturns, Told
<1> QED
  BY <1>1, <1>2, <1>3, <1>4, <1>5, <1>6, <1>7 DEF IInv

\* The next in line is in the line.
LEMMA FirstWaits == ASSUME Waiters # {} PROVE First \in Waiters
<1>1. ASSUME NEW S \in SUBSET Nat, S # {} PROVE \E i \in S : \A j \in S : i <= j
  <2> DEFINE R == {ss \in Nat \X Nat : ss[1] < ss[2]}
  <2>1. IsWellFoundedOn(R, Nat)
    BY ONLY NatLessThanWellFounded, Zenon DEF OpToRel
  <2>2. PICK i \in S : \A j \in S : ~ <<j, i>> \in R
    <3> HIDE DEF R
    <3> QED
      BY <1>1, <2>1, WFMin
  <2>3. ASSUME NEW j \in S, j < i PROVE FALSE
    <3>1. <<j, i>> \in Nat \X Nat /\ <<j, i>>[1] < <<j, i>>[2]
      BY <1>1, <2>3
    <3>2. <<j, i>> \in R
      BY <3>1, Zenon
    <3> QED
      BY <2>2, <3>2
  <2>4. \A j \in S : i <= j
    <3> HIDE DEF R
    <3> QED
      BY <1>1, <2>3
  <2> QED
    BY <2>4
<1>2. Waiters \in SUBSET Nat
  BY DEF Waiters, Slots
<1>3. \E i \in Waiters : \A j \in Waiters : i <= j
  BY <1>1, <1>2
<1> QED
  BY <1>3 DEF First

LEMMA ChildOverKeeps ==
    ASSUME IInv, NEW i \in Slots, NEW result \in {"ok", "fail"}, IsAt(i, "think"),
           ChildOver(i, result), UNCHANGED dialog,
           UNCHANGED <<at, iter, batch, verdicts, consent, stopped, tail, gate, retries, ending, requests>>
    PROVE  IInv'
<1>a. /\ at = "run" /\ i \in DOMAIN batch /\ call[i] = "busy" /\ batch[i] = "agent" /\ child[i].at = "think"
      /\ child[i] \in Child
  BY DEF IsAt, IInv, Children, Active, TypeOK
<1>c. /\ call' \in [Slots -> {"idle", "busy", "ok", "fail"}] /\ ran' \subseteq Kinds
      /\ call'[i] = result /\ \A j \in Slots \ {i} : call'[j] = call[j]
      /\ Judged' /\ PlanHoldsWrites'
      /\ Known' /\ Settled' /\ ClaimIsHeld'
  <2>1. Settles(i, result) /\ UNCHANGED <<at, batch, verdicts, mutated, verified, ending>>
    BY DEF ChildOver, gate
  <2> QED
    BY <1>a, <2>1, Settled1
<1>f. IsFiniteSet(Holders) /\ Cardinality(Holders) \in Nat /\ i \in Holders /\ Holders \subseteq Slots
  BY <1>a, SlotsFinite DEF Holders
<1>g. free \in Nat /\ free + Cardinality(Holders) = Concurrency /\ Concurrency \in Nat
  BY AgentLoopAssumption DEF IInv, TypeOK, PermitsConserved
<1>h. IsFiniteSet(Holders \ {i}) /\ Cardinality(Holders \ {i}) = Cardinality(Holders) - 1
  BY <1>f, FS_RemoveElement
<1>i. Cardinality(Holders \ {i}) \in Nat
  BY <1>h, FS_CardinalityType
<1> DEFINE over == [child[i] EXCEPT !.at = "over"]
<1>o. over \in Child /\ over.at = "over"
  BY <1>a DEF Child
\* Whom the permit goes to, if anyone, goes on as it was.
<1> DEFINE Rest == /\ child' \in [Slots -> Child] /\ child'[i].at = "over"
                   /\ \A j \in Slots \ {i} :
                        \/ child'[j] = child[j]
                        \/ /\ child[j].at = "queued" /\ child'[j].at = "think"
                           /\ child'[j].aborted = child[j].aborted
                   /\ free' \in 0 .. Concurrency
<1>w. Rest /\ PermitsConserved'
  <2>1. CASE Waiters = {}
    <3>1. child' = [child EXCEPT ![i] = over] /\ free' = free + 1
      BY <2>1 DEF ChildOver, Now
    <3> HIDE DEF over
    <3>2. /\ child' \in [Slots -> Child] /\ child'[i] = over
          /\ \A j \in Slots \ {i} : child'[j] = child[j]
      BY <1>o, <3>1 DEF IInv, TypeOK
    <3>3. Holders' = Holders \ {i} /\ Waiters' = {}
      BY <1>o, <2>1, <3>2 DEF Holders, Waiters
    <3>4. free' + Cardinality(Holders') = Concurrency /\ free' \in 0 .. Concurrency
      BY <1>f, <1>g, <1>h, <1>i, <3>1, <3>3
    <3> QED
      BY <1>o, <3>2, <3>3, <3>4 DEF PermitsConserved
  <2>2. CASE Waiters # {}
    <3> DEFINE next == [child[First] EXCEPT !.at = "think"]
    <3>1. First \in Slots /\ child[First].at = "queued" /\ First # i /\ child[First] \in Child
      BY <1>a, <2>2, FirstWaits DEF Waiters, IInv, TypeOK
    <3>2. next \in Child /\ next.at = "think" /\ next.aborted = child[First].aborted
      BY <3>1 DEF Child
    <3>3. child' = [child EXCEPT ![i].at = "over", ![First].at = "think"] /\ free' = free
      BY <2>2 DEF ChildOver
    <3>4. child' = [child EXCEPT ![i] = over, ![First] = next]
      BY <3>1, <3>3 DEF IInv, TypeOK
    <3> HIDE DEF over, next
    <3>5. /\ child' \in [Slots -> Child] /\ child'[i] = over /\ child'[First] = next
          /\ \A j \in Slots \ {i, First} : child'[j] = child[j]
      BY <1>o, <3>1, <3>2, <3>4 DEF IInv, TypeOK
    <3>6. Holders' = (Holders \ {i}) \cup {First}
      BY <1>o, <3>1, <3>2, <3>5 DEF Holders
    <3>7. First \notin Holders \ {i}
      BY <3>1 DEF Holders
    <3>8. Cardinality(Holders') = Cardinality(Holders)
      <4>1. Cardinality(Holders') = Cardinality(Holders \ {i}) + 1
        BY <1>h, <3>6, <3>7, FS_AddElement
      <4> QED
        BY <1>f, <1>h, <4>1
    <3>9. free = 0
      BY <2>2 DEF IInv, PermitsConserved
    <3>10. free' \in 0 .. Concurrency
      BY <1>g, <3>3, <3>9
    <3> QED
      BY <1>g, <1>o, <3>1, <3>2, <3>3, <3>5, <3>8, <3>9, <3>10 DEF PermitsConserved
  <2> QED
    BY <2>1, <2>2
<1> HIDE DEF over
<1>1. TypeOK'
  BY <1>c, <1>w DEF IInv, TypeOK, consent, gate, retries
<1>2. Quiet' /\ Aligned' /\ Children' /\ Dialogs' /\ Halted'
  <2>1. Quiet' /\ Aligned'
    BY <1>a, <1>c DEF IInv, Quiet, Aligned
  <2>2. Children'
    BY <1>a, <1>c, <1>w DEF IInv, Children, Active
  <2>3. Dialogs' /\ Halted'
    BY <1>a, <1>w DEF IInv, Dialogs, Halted, Active, Upcoming
  <2> QED
    BY <2>1, <2>2, <2>3
<1>3. Counted' /\ Told'
  BY DEF IInv, Counted, Retried, Told, retries
<1> QED
  BY <1>c, <1>w, <1>1, <1>2, <1>3 DEF IInv

LEMMA ChildMovesKeeps ==
    ASSUME IInv, NEW i \in Slots, NEW where \in {"think", "asking", "work"},
           at = "run", child[i].at \in {"think", "asking"}, Now(i, where),
           where = "asking" => ~ child[i].aborted,
           \/ dialog' = {}
           \/ dialog' = {i} /\ where = "asking" /\ ~ stopped
           \/ dialog' = dialog /\ child[i].at = "think",
           trusted' \subseteq Kinds \cup {"look"},
           UNCHANGED <<at, iter, batch, verdicts, call, free, planMode, stopped, tail, gate,
                       retries, ending, requests, ran>>
    PROVE  IInv'
<1> DEFINE c == [child[i] EXCEPT !.at = where]
<1>c. child' = [child EXCEPT ![i] = c] /\ child[i] \in Child
  BY DEF Now, IInv, TypeOK
<1>t. c \in Child /\ c.at = where /\ c.aborted = child[i].aborted
  BY <1>c DEF Child
<1> HIDE DEF c
<1>s. /\ child' \in [Slots -> Child] /\ child'[i] = c
      /\ \A j \in Slots \ {i} : child'[j] = child[j]
  BY <1>c, <1>t DEF IInv, TypeOK
<1>1. TypeOK'
  <2>1. dialog \subseteq Askers
    BY DEF IInv, TypeOK
  <2>2. i \in Askers
    BY AgentLoopAssumption DEF Askers, Slots
  <2>3. dialog' \subseteq Askers
    BY <2>1, <2>2
  <2> QED
    BY <1>s, <2>3 DEF IInv, TypeOK, gate, retries
<1>2. Quiet' /\ Aligned' /\ Children' /\ Dialogs' /\ Halted'
  <2>1. Quiet' /\ Aligned'
    BY DEF IInv, Quiet, Aligned
  <2>2. Children' /\ Halted'
    BY <1>t, <1>s DEF IInv, Children, Halted, Active
  <2>3. Dialogs'
    BY <1>t, <1>s DEF IInv, Dialogs, Upcoming
  <2> QED
    BY <2>1, <2>2, <2>3
<1>3. PermitsConserved'
  BY <1>t, <1>s, SamePermits DEF IInv
<1>4. Judged' /\ PlanHoldsWrites'
  BY DEF IInv, Judged, PlanHoldsWrites, gate, retries
<1>5. Counted'
  BY DEF IInv, Counted, Retried, gate, retries
<1>6. Known' /\ Settled' /\ ClaimIsHeld'
  BY DEF IInv, Known, Settled, ClaimIsHeld, Succeeded, IsFinalRound, gate, retries
<1>7. Told'
  BY DEF IInv, Told, Complete, gate, retries
<1> QED
  BY <1>1, <1>2, <1>3, <1>4, <1>5, <1>6, <1>7 DEF IInv

LEMMA ChildThinksKeeps == ASSUME IInv, NEW i \in Slots, ChildThinks(i) PROVE IInv'
<1>a. /\ IsAt(i, "think") /\ at = "run" /\ child[i].at = "think"
      /\ UNCHANGED <<at, iter, batch, verdicts, consent, stopped, tail, gate, retries, ending, requests>>
  BY DEF ChildThinks, IsAt
<1>1. CASE \E result \in {"ok", "fail"} : ChildOver(i, result) /\ UNCHANGED dialog
  BY <1>a, <1>1, ChildOverKeeps
<1>2. CASE /\ ~ child[i].aborted
           /\ \/ Now(i, "work") /\ UNCHANGED dialog
              \/ Now(i, "asking") /\ dialog' = {i}
           /\ UNCHANGED <<call, free, ran>>
  <2>1. ~ stopped
    BY <1>a, <1>2 DEF IInv, Halted, Active
  <2>2. trusted' \subseteq Kinds \cup {"look"} /\ UNCHANGED planMode
    BY <1>a DEF IInv, TypeOK, consent
  <2>3. CASE Now(i, "asking") /\ dialog' = {i}
    BY <1>a, <1>2, <2>1, <2>2, <2>3, ChildMovesKeeps
  <2>4. CASE Now(i, "work") /\ UNCHANGED dialog
    BY <1>a, <1>2, <2>2, <2>4, ChildMovesKeeps
  <2> QED
    BY <1>2, <2>3, <2>4
<1> QED
  BY <1>1, <1>2 DEF ChildThinks

-----------------------------------------------------------------------------
(* The execution of a round. *)

LEMMA BatchFacts ==
    ASSUME IInv
    PROVE  /\ batch \in Seq(Kinds) /\ Len(batch) \in Nat /\ Len(batch) <= MaxBatch
           /\ DOMAIN batch = 1 .. Len(batch) /\ DOMAIN batch \subseteq Slots
           /\ verdicts \in Seq(Verdict) /\ Len(verdicts) \in Nat /\ Len(verdicts) <= Len(batch)
           /\ DOMAIN verdicts = 1 .. Len(verdicts)
<1>1. /\ batch \in Seq(Kinds) /\ Len(batch) \in Nat /\ Len(batch) <= MaxBatch /\ MaxBatch \in Nat
      /\ verdicts \in Seq(Verdict) /\ Len(verdicts) \in Nat /\ Len(verdicts) <= Len(batch)
  BY AgentLoopAssumption DEF IInv, TypeOK
<1>2. DOMAIN batch = 1 .. Len(batch) /\ DOMAIN verdicts = 1 .. Len(verdicts)
  BY <1>1
<1>3. DOMAIN batch \subseteq Slots
  BY <1>1, <1>2 DEF Slots
<1> QED
  BY <1>1, <1>2, <1>3

\* The round starts with as many sub-agents as there are permits, the first ones.
LEMMA FirstPermitsFacts ==
    ASSUME IInv, NEW H \in SUBSET Delegated, FirstPermits(H),
           free' = Concurrency - Cardinality(H),
           \A i \in Slots : child'[i].at = CASE i \in H -> "think"
                                             [] i \in Delegated \ H -> "queued"
                                             [] i \notin Delegated -> "none"
    PROVE  free' \in 0 .. Concurrency /\ PermitsConserved'
<1>1. Delegated \subseteq Slots /\ H \subseteq Slots
  BY BatchFacts DEF Delegated
<1>2. IsFiniteSet(Delegated) /\ Cardinality(Delegated) \in Nat /\ Cardinality(H) \in Nat
  BY <1>1, SlotsFinite
<1>3. Concurrency \in Nat /\ Cardinality(H) = Lower(Concurrency, Cardinality(Delegated))
  BY AgentLoopAssumption DEF FirstPermits
<1>4. Holders' = H
  BY <1>1 DEF Holders
<1>5. Waiters' = Delegated \ H
  BY <1>1 DEF Waiters
<1>6. H # Delegated => Cardinality(H) # Cardinality(Delegated)
  BY <1>2, FS_Subset
<1>7. free' \in 0 .. Concurrency /\ free' + Cardinality(H) = Concurrency
  BY <1>2, <1>3 DEF Lower
<1>8. H # Delegated => free' = 0
  BY <1>2, <1>3, <1>6 DEF Lower
<1> QED
  BY <1>4, <1>5, <1>7, <1>8 DEF PermitsConserved

LEMMA RunKeeps == ASSUME IInv, Run PROVE IInv'
<1>a. /\ at = "approve" /\ at' = "run" /\ Len(verdicts) = Len(batch) /\ ~ stopped
      /\ call' = [i \in Slots |-> Begun(i)]
      /\ UNCHANGED <<iter, batch, verdicts, dialog, consent, stopped, tail, gate, retries, ending,
                     requests, ran>>
  <2>1. Upcoming > Len(batch) /\ Len(verdicts) \in Nat /\ Len(batch) \in Nat /\ Len(verdicts) <= Len(batch)
    BY BatchFacts DEF Run
  <2>2. Len(verdicts) = Len(batch)
    BY <2>1 DEF Upcoming
  <2> QED
    BY <2>2 DEF Run
<1>p. PICK H \in SUBSET Delegated :
        /\ FirstPermits(H)
        /\ child' = [i \in Slots |-> [NoChild EXCEPT !.at = CASE i \in H -> "think"
                                                              [] i \in Delegated \ H -> "queued"
                                                              [] i \notin Delegated -> "none"]]
        /\ free' = Concurrency - Cardinality(H)
  BY DEF Run
<1> DEFINE Where(i) == CASE i \in H -> "think"
                         [] i \in Delegated \ H -> "queued"
                         [] i \notin Delegated -> "none"
<1>w. ASSUME NEW i \in Slots PROVE Where(i) \in {"none", "queued", "think"} /\ (Where(i) # "none" => i \in Delegated)
  OBVIOUS
<1>c. ASSUME NEW i \in Slots
      PROVE  /\ child'[i] = [at |-> Where(i), aborted |-> FALSE]
             /\ child'[i].at = Where(i)
             /\ child'[i] \in Child
  <2>1. child'[i] = [NoChild EXCEPT !.at = Where(i)]
    BY <1>p
  <2> HIDE DEF Where
  <2>2. child'[i] = [at |-> Where(i), aborted |-> FALSE]
    BY <2>1 DEF NoChild
  <2> QED
    BY <1>w, <2>2 DEF Child
<1>f. free' \in 0 .. Concurrency /\ PermitsConserved'
  <2>1. \A i \in Slots : child'[i].at = Where(i)
    BY <1>c
  <2> QED
    BY <1>p, <2>1, FirstPermitsFacts
<1>d. dialog = {}
  BY <1>a DEF IInv, Dialogs, Children, Active
<1>t. child' \in [Slots -> Child]
  <2>1. child' = [i \in Slots |-> child'[i]]
    BY <1>p
  <2> QED
    BY <1>c, <2>1
<1>b. call' \in [Slots -> {"idle", "busy", "ok", "fail"}] /\ \A i \in Slots : call'[i] = Begun(i)
  BY <1>a DEF Begun
<1>e. \A i \in Delegated : i \in DOMAIN batch /\ batch[i] = "agent" /\ Begun(i) = "busy"
  BY DEF Delegated
<1> HIDE DEF Where
<1>1. TypeOK'
  BY <1>a, <1>b, <1>f, <1>t DEF IInv, TypeOK, consent, gate, retries
<1>2. Quiet' /\ Aligned' /\ Children' /\ Dialogs' /\ Halted'
  <2>1. Quiet' /\ Aligned'
    BY <1>a, <1>b, BatchFacts DEF Quiet, Aligned, Begun
  <2>2. Children' /\ Halted'
    BY <1>a, <1>b, <1>c, <1>e, <1>w DEF Children, Halted, Active
  <2>3. Dialogs'
    BY <1>a, <1>d DEF Dialogs
  <2> QED
    BY <2>1, <2>2, <2>3
<1>3. PermitsConserved'
  BY <1>f
<1>4. Judged' /\ PlanHoldsWrites'
  <2>1. Judged'
    BY <1>a DEF IInv, Judged
  <2>2. \A i \in DOMAIN batch : i \in DOMAIN verdicts /\ i \in Slots
    BY <1>a, BatchFacts
  <2>3. PlanHoldsWrites'
    BY <1>a, <1>b, <2>2 DEF IInv, PlanHoldsWrites, Judged, Begun
  <2> QED
    BY <2>1, <2>3
<1>5. Counted'
  BY <1>a DEF IInv, Counted, Retried, retries
<1>6. Known' /\ Settled' /\ ClaimIsHeld'
  <2>1. \A i \in DOMAIN batch : i \in DOMAIN verdicts /\ i \in Slots
    BY <1>a, BatchFacts
  <2>2. ASSUME NEW k \in Succeeded' PROVE ~ Mutates(k)
    <3>1. PICK i \in DOMAIN batch : k = batch[i] /\ Begun(i) = "ok"
      BY <1>a, <1>b, <2>1 DEF Succeeded
    <3>2. verdicts[i].note = "good"
      BY <3>1 DEF Begun
    <3> QED
      BY <2>1, <3>1, <3>2 DEF IInv, Judged
  <2>3. Known'
    BY <1>a, <2>2 DEF IInv, Known, gate
  <2>4. Settled' /\ ClaimIsHeld'
    BY <1>a DEF IInv, Settled, ClaimIsHeld
  <2> QED
    BY <2>3, <2>4
<1>7. Told'
  BY <1>a DEF IInv, Told
<1> QED
  BY <1>1, <1>2, <1>3, <1>4, <1>5, <1>6, <1>7 DEF IInv

LEMMA Glued ==
    ASSUME NEW M, NEW s \in Seq(M), NEW t \in Seq(M)
    PROVE  /\ s \o t \in Seq(M) /\ Len(s \o t) = Len(s) + Len(t)
           /\ \A j \in 1 .. Len(s) : (s \o t)[j] = s[j]
           /\ \A j \in 1 .. Len(t) : (s \o t)[j + Len(s)] = t[j]
  OBVIOUS

LEMMA GluedOne ==
    ASSUME NEW M, NEW x \in M, NEW t \in Seq(M), NEW j \in 1 .. Len(t)
    PROVE  (<<x>> \o t)[j + 1] = t[j]
  OBVIOUS

LEMMA SlotsAsk == Slots \subseteq Askers
  BY AgentLoopAssumption DEF Slots, Askers

\* The results and the images after them answer the last assistant turn.
LEMMA ResultsFacts ==
    ASSUME IInv, at = "run", NEW images \in Listings(Images), tail' = tail \o Results(images)
    PROVE  tail' \in Seq(Message) /\ Complete(tail')
<1> DEFINE n == Len(batch)
           m == Len(images)
<1>1. PICK k \in 0 .. Cardinality(Images) : images \in [1 .. k -> Images]
  BY DEF Listings
<1>2. k \in Nat
  <2>1. Images \subseteq Slots
    BY BatchFacts DEF Images
  <2>2. Cardinality(Images) \in Nat
    BY <2>1, SlotsFinite
  <2> QED
    BY <2>2
<1>3. m = k /\ m \in Nat /\ \A j \in 1 .. m : images[j] \in Images
  BY <1>1, <1>2
<1>4. n \in Nat /\ n <= MaxBatch /\ Images \subseteq Slots
  BY BatchFacts DEF Images
<1>5. tail = <<[role |-> "assistant", id |-> n]>>
  BY DEF IInv, Told
<1> DEFINE R == Results(images)
<1> HIDE DEF n, m
<1>6. /\ R = [j \in 1 .. n + m |-> IF j <= n THEN [role |-> "tool", id |-> j]
                                   ELSE [role |-> "user", id |-> images[j - n]]]
  BY DEF Results, n, m
<1>7. ASSUME NEW j \in 1 .. n + m
      PROVE  R[j] \in Message /\ (j <= n => R[j] = [role |-> "tool", id |-> j]) /\ (j > n => R[j].role = "user")
  <2>1. CASE j <= n
    <3>1. R[j] = [role |-> "tool", id |-> j] /\ j \in Askers
      BY <1>4, <1>6, <2>1, AgentLoopAssumption DEF Askers
    <3> QED
      BY <2>1, <3>1, <1>4 DEF Message
  <2>2. CASE ~ (j <= n)
    <3>1. R[j] = [role |-> "user", id |-> images[j - n]] /\ j - n \in 1 .. m
      BY <1>3, <1>4, <1>6, <2>2
    <3>2. images[j - n] \in Slots /\ Slots \subseteq Askers
      BY <1>3, <1>4, <3>1, SlotsAsk
    <3> QED
      BY <2>2, <3>1, <3>2 DEF Message
  <2> QED
    BY <2>1, <2>2
<1> HIDE DEF R
<1>8. R \in Seq(Message) /\ Len(R) = n + m
  BY <1>3, <1>4, <1>6, <1>7
<1>9. [role |-> "assistant", id |-> n] \in Message
  BY <1>4, AgentLoopAssumption DEF Message, Askers
<1>10. tail \in Seq(Message) /\ Len(tail) = 1 /\ tail' = tail \o R
  BY <1>5, <1>9 DEF R
<1> HIDE DEF R
<1>11. tail' \in Seq(Message) /\ Len(tail') = 1 + n + m /\ tail'[1] = [role |-> "assistant", id |-> n]
  <2>1. tail' \in Seq(Message) /\ Len(tail') = Len(tail) + Len(R) /\ \A j \in 1 .. Len(tail) : tail'[j] = tail[j]
    <3>1. /\ tail \o R \in Seq(Message) /\ Len(tail \o R) = Len(tail) + Len(R)
          /\ \A j \in 1 .. Len(tail) : (tail \o R)[j] = tail[j]
      BY <1>8, <1>10, Glued
    <3> QED
      BY <1>10, <3>1
  <2>2. 1 \in 1 .. Len(tail) /\ tail[1] = [role |-> "assistant", id |-> n]
    BY <1>5, <1>10
  <2> QED
    BY <1>3, <1>4, <1>8, <1>10, <2>1, <2>2
<1>12. \A j \in 1 .. n + m : tail'[j + 1] = R[j]
  <2>1. ASSUME NEW j \in 1 .. n + m PROVE tail'[j + 1] = R[j]
    <3>1. j \in 1 .. Len(R)
      BY <1>8
    <3> QED
      BY <1>5, <1>8, <1>9, <1>10, <3>1, GluedOne
  <2> QED
    BY <2>1
<1>13. ASSUME NEW i \in 1 .. n PROVE tail'[i + 1] = [role |-> "tool", id |-> i]
  <2>1. i \in 1 .. n + m /\ i <= n
    BY <1>3, <1>4
  <2> QED
    BY <1>7, <1>12, <2>1
<1>14. \A i \in n + 2 .. Len(tail') : tail'[i].role # "tool"
  <2>1. ASSUME NEW i \in n + 2 .. Len(tail') PROVE tail'[i].role # "tool"
    <3>1. i - 1 \in 1 .. n + m /\ i - 1 > n /\ (i - 1) + 1 = i
      BY <1>3, <1>4, <1>11
    <3>2. tail'[i] = R[i - 1]
      BY <1>12, <3>1
    <3> QED
      BY <1>7, <3>1, <3>2
  <2> QED
    BY <2>1
<1> QED
  BY <1>3, <1>4, <1>11, <1>13, <1>14 DEF Complete

LEMMA CollectKeeps == ASSUME IInv, Collect PROVE IInv'
<1>a. /\ at = "run" /\ at' \in {"wrap", "over", "top"}
      /\ \A i \in DOMAIN batch : call[i] \in {"ok", "fail"}
      /\ batch' = <<>> /\ verdicts' = <<>>
      /\ call' = [i \in Slots |-> "idle"] /\ child' = [i \in Slots |-> NoChild]
      /\ UNCHANGED <<free, dialog, consent, stopped, demands, retries, ran>>
  BY DEF Collect, Ends
<1>r. tail' \in Seq(Message) /\ Complete(tail')
  BY <1>a, ResultsFacts DEF Collect
<1>q. \A i \in Slots : ~ Active(i)
  BY <1>a DEF IInv, Children
<1>f. free = Concurrency
  <2>1. Holders = {}
    BY <1>q DEF Holders, Active
  <2>2. Cardinality(Holders) = 0 /\ free \in Nat /\ Concurrency \in Nat
    BY <2>1, FS_EmptySet, AgentLoopAssumption DEF IInv, TypeOK
  <2> QED
    BY <2>2 DEF IInv, PermitsConserved
<1>d. dialog = {}
  BY <1>a, <1>q DEF IInv, Dialogs, Active
<1>n. NoChild \in Child
  BY AgentLoopAssumption DEF NoChild, Child
<1>c. child' \in [Slots -> Child] /\ \A i \in Slots : child'[i] = NoChild /\ call'[i] = "idle"
  BY <1>a, <1>n
<1>e. ending = "none" /\ (at' # "over" => ending' = "none") /\ ending' \in {"none", "ceiling"}
  BY <1>a DEF IInv, Settled, Collect, Ends
<1>g. mutated' \in BOOLEAN /\ verified' \in BOOLEAN
  BY Zenon DEF Collect
<1>i. /\ iter \in 1 .. Bound /\ requests \in Nat /\ Bound \in Nat
      /\ Retried \in Nat
  BY AgentLoopAssumption DEF IInv, TypeOK, Retried
<1>j. /\ iter' \in 1 .. Bound /\ requests' \in Nat
      /\ \/ at' = "wrap" /\ iter' = iter /\ requests' = requests + 1
         \/ at' = "over" /\ iter' = iter /\ requests' = requests
         \/ at' = "top" /\ iter' = iter + 1 /\ requests' = requests
  BY <1>i DEF Collect, Ends, IsFinalRound
<1>1. TypeOK'
  <2>1. <<>> \in Seq(Kinds) /\ <<>> \in Seq(Verdict) /\ Len(<<>>) = 0 /\ MaxBatch \in Nat
    BY AgentLoopAssumption
  <2>2. demands' \in 0 .. DemandCap /\ demands' = demands
    BY <1>a DEF IInv, TypeOK
  <2> QED
    BY <1>a, <1>c, <1>d, <1>e, <1>g, <1>j, <1>r, <2>1, <2>2 DEF IInv, TypeOK, consent, retries
<1>2. Quiet' /\ Aligned' /\ Children' /\ Dialogs' /\ Halted'
  <2>1. Quiet'
    BY <1>a, <1>c, <1>f DEF Quiet
  <2>2. Aligned'
    BY <1>a, <1>c DEF Aligned
  <2>3. Children' /\ Halted'
    BY <1>a, <1>c DEF Children, Halted, Active, NoChild
  <2>4. Dialogs'
    BY <1>a, <1>d DEF Dialogs
  <2> QED
    BY <2>1, <2>2, <2>3, <2>4
<1>3. PermitsConserved'
  BY <1>a, <1>c, <1>f, QuietPermits
<1>4. Judged' /\ PlanHoldsWrites'
  BY <1>a DEF Judged, PlanHoldsWrites
<1>5. Counted'
  <2>1. requests <= iter + Retried
    BY <1>a DEF IInv, Counted
  <2>2. Retried' = Retried
    BY <1>a DEF retries, Retried
  <2>3. requests' <= iter' + Retried + 1 /\ (at' = "top" => requests' < iter' + Retried)
    <3>1. CASE at' = "wrap"
      BY <1>i, <1>j, <2>1, <3>1
    <3>2. CASE at' = "over"
      BY <1>i, <1>j, <2>1, <3>2
    <3>3. CASE at' = "top"
      BY <1>i, <1>j, <2>1, <3>3
    <3> QED
      BY <1>a, <3>1, <3>2, <3>3
  <2> QED
    BY <1>a, <2>2, <2>3 DEF Counted
<1>6. Known' /\ Settled' /\ ClaimIsHeld'
  <2>1. ASSUME NEW k \in ran', Mutates(k) PROVE mutated'
    BY <1>a, <2>1 DEF IInv, Known, Collect
  <2>2. verified' => \E k \in ran' : Verifies(k)
    BY <1>a DEF IInv, Known, Collect, Mutates, Verifies
  <2>3. Known'
    BY <1>a, <2>1, <2>2 DEF Known
  <2>4. Settled' /\ ClaimIsHeld'
    BY <1>e DEF Settled, ClaimIsHeld
  <2> QED
    BY <2>3, <2>4
<1>7. Told'
  BY <1>a, <1>r DEF Told
<1> QED
  BY <1>1, <1>2, <1>3, <1>4, <1>5, <1>6, <1>7 DEF IInv

-----------------------------------------------------------------------------
(* A reply. *)

\* The round is run again: what is not counted against the budget is counted as a retry.
LEMMA AgainKeeps ==
    ASSUME IInv, at = "stream", at' = "top",
           UNCHANGED <<iter, batch, verdicts, call, tail, gate, ending>>,
           UNCHANGED <<child, free, dialog, consent, stopped, requests, ran>>,
           cuts' \in 0 .. CutRetries, shorts' \in 0 .. ShortRetries, blanks' \in 0 .. BlankRetries,
           cuts' + shorts' + blanks' = cuts + shorts + blanks + 1
    PROVE  IInv'
<1>1. TypeOK'
  BY DEF IInv, TypeOK, consent, gate
<1>2. Quiet' /\ Aligned' /\ Children' /\ Dialogs' /\ Halted'
  BY DEF IInv, Quiet, Aligned, Children, Dialogs, Halted, Active, Upcoming
<1>3. PermitsConserved' /\ Judged' /\ PlanHoldsWrites' /\ Told'
  BY DEF IInv, PermitsConserved, Holders, Waiters, Judged, PlanHoldsWrites, Told
<1>4. Counted'
  <2>1. requests \in Nat /\ iter \in Nat /\ Retried \in Nat
    BY AgentLoopAssumption DEF IInv, TypeOK, Retried
  <2>2. requests <= iter + Retried
    BY DEF IInv, Counted
  <2>3. Retried' = Retried + 1
    BY DEF Retried
  <2>4. requests < iter + Retried' /\ requests <= iter + Retried' + 1
    BY <2>1, <2>2, <2>3
  <2> QED
    BY <2>4 DEF Counted
<1>5. Known' /\ Settled' /\ ClaimIsHeld'
  BY DEF IInv, Known, Settled, ClaimIsHeld, gate
<1> QED
  BY <1>1, <1>2, <1>3, <1>4, <1>5 DEF IInv

\* A claim of success that is not asked for its proof is the last, or has none to give.
LEMMA EndsKeeps ==
    ASSUME IInv, at = "stream", NEW how \in {"thrown", "claimed", "answered"}, Ends(how),
           how = "claimed" => ~ mutated \/ verified \/ demands >= DemandCap \/ IsFinalRound,
           UNCHANGED <<iter, batch, verdicts, call, tail, gate, retries>>,
           UNCHANGED <<child, free, dialog, consent, stopped, requests, ran>>
    PROVE  IInv'
<1>a. at' = "over" /\ ending' = how
  BY DEF Ends
<1>1. TypeOK'
  BY <1>a DEF IInv, TypeOK, consent, gate, retries
<1>2. Quiet' /\ Aligned' /\ Children' /\ Dialogs' /\ Halted'
  BY <1>a DEF IInv, Quiet, Aligned, Children, Dialogs, Halted, Active, Upcoming
<1>3. PermitsConserved' /\ Judged' /\ PlanHoldsWrites' /\ Told' /\ Counted'
  BY <1>a DEF IInv, PermitsConserved, Holders, Waiters, Judged, PlanHoldsWrites, Told, Counted, Retried, retries
<1>4. Known' /\ Settled'
  BY <1>a DEF IInv, Known, Settled, gate
<1>5. ClaimIsHeld'
  <2>1. demands \in Nat /\ DemandCap \in Nat /\ demands <= DemandCap
    BY AgentLoopAssumption DEF IInv, TypeOK
  <2>2. ASSUME how = "claimed", \E k \in ran : Mutates(k), ~ \E k \in ran : Verifies(k)
        PROVE  demands = DemandCap \/ IsFinalRound
    <3>1. mutated /\ ~ verified
      BY <2>2 DEF IInv, Known
    <3> QED
      BY <2>1, <2>2, <3>1
  <2> QED
    BY <1>a, <2>2 DEF ClaimIsHeld, gate, IsFinalRound
<1> QED
  BY <1>1, <1>2, <1>3, <1>4, <1>5 DEF IInv

\* The proof is asked for, in a round of its own.
LEMMA DemandKeeps ==
    ASSUME IInv, at = "stream", at' = "top", NEW r \in Reply, Demanded(r), demands' = demands + 1,
           tail' = tail \o <<[role |-> "assistant", id |-> 0], [role |-> "user", id |-> 0]>>,
           iter' = iter + 1,
           UNCHANGED <<batch, verdicts, call, mutated, verified, retries, ending>>,
           UNCHANGED <<child, free, dialog, consent, stopped, requests, ran>>
    PROVE  IInv'
<1> DEFINE more == <<[role |-> "assistant", id |-> 0], [role |-> "user", id |-> 0]>>
<1>a. /\ iter \in 1 .. Bound /\ Bound \in Nat /\ iter # Bound
      /\ demands \in 0 .. DemandCap /\ DemandCap \in Nat /\ demands < DemandCap
  BY AgentLoopAssumption DEF IInv, TypeOK, Demanded, IsFinalRound
<1>b. iter' \in 1 .. Bound /\ demands' \in 0 .. DemandCap
  BY <1>a
<1>m. /\ more[1].id = 0 /\ more[1].role = "assistant" /\ more[2].role = "user" /\ Len(more) = 2
  OBVIOUS
<1>c. more \in Seq(Message) /\ Len(more) = 2 /\ \A j \in 1 .. 2 : more[j].role # "tool"
  BY AgentLoopAssumption DEF Message, Askers
<1>d. tail \in Seq(Message) /\ tail' = tail \o more /\ (tail = <<>> \/ Complete(tail))
  BY DEF IInv, TypeOK, Told
<1>t. tail' \in Seq(Message) /\ Complete(tail')
  <2>1. CASE tail = <<>>
    <3>1. tail' = more
      BY <1>c, <1>d, <2>1
    <3>2. tail'[1].id = 0 /\ tail'[1].role = "assistant" /\ tail'[2].role = "user" /\ Len(tail') = 2
      BY <1>m, <3>1
    <3>3. \A i \in 0 + 2 .. Len(tail') : i = 2
      BY <3>2
    <3>4. tail' \in Seq(Message)
      BY <1>c, <3>1
    <3> QED
      BY <3>2, <3>3, <3>4 DEF Complete
  <2>2. CASE tail # <<>> /\ Complete(tail)
    <3> DEFINE n == tail[1].id
    <3> HIDE DEF more
    <3>1. /\ tail' \in Seq(Message) /\ Len(tail') = Len(tail) + 2 /\ Len(tail) \in Nat
          /\ \A j \in 1 .. Len(tail) : tail'[j] = tail[j]
          /\ \A j \in 1 .. 2 : tail'[j + Len(tail)] = more[j]
      BY <1>c, <1>d, Glued
    <3>2. Len(tail) > n /\ tail[1].role = "assistant"
      BY <2>2 DEF Complete
    <3>3. 1 \in 1 .. Len(tail) /\ n \in Nat
      <4>1. 1 \in 1 .. Len(tail)
        BY <1>d, <2>2
      <4>2. tail[1] \in Message
        BY <1>d, <4>1
      <4> QED
        BY <4>1, <4>2, AgentLoopAssumption DEF Message, Askers
    <3>4. tail'[1] = tail[1]
      BY <3>1, <3>3
    <3>5. ASSUME NEW i \in 1 .. n PROVE tail'[i + 1] = [role |-> "tool", id |-> i]
      <4>1. i + 1 \in 1 .. Len(tail)
        BY <3>1, <3>2, <3>3
      <4> QED
        BY <2>2, <3>1, <4>1 DEF Complete
    <3>6. ASSUME NEW i \in n + 2 .. Len(tail') PROVE tail'[i].role # "tool"
      <4>1. CASE i <= Len(tail)
        <5>1. i \in n + 2 .. Len(tail) /\ i \in 1 .. Len(tail)
          BY <3>1, <3>3, <4>1
        <5> QED
          BY <2>2, <3>1, <5>1 DEF Complete
      <4>2. CASE ~ (i <= Len(tail))
        <5>1. i - Len(tail) \in 1 .. 2 /\ (i - Len(tail)) + Len(tail) = i
          BY <3>1, <3>3, <4>2
        <5> QED
          BY <1>c, <3>1, <5>1
      <4> QED
        BY <4>1, <4>2
    <3>7. Len(tail') > n
      BY <3>1, <3>2, <3>3
    <3> QED
      BY <3>1, <3>2, <3>4, <3>5, <3>6, <3>7 DEF Complete
  <2> QED
    BY <1>d, <2>1, <2>2
<1>1. TypeOK'
  BY <1>b, <1>t DEF IInv, TypeOK, consent, retries
<1>2. Quiet' /\ Aligned' /\ Children' /\ Dialogs' /\ Halted'
  BY DEF IInv, Quiet, Aligned, Children, Dialogs, Halted, Active, Upcoming
<1>3. PermitsConserved' /\ Judged' /\ PlanHoldsWrites'
  BY DEF IInv, PermitsConserved, Holders, Waiters, Judged, PlanHoldsWrites
<1>4. Counted'
  <2>1. requests \in Nat /\ Retried \in Nat
    BY AgentLoopAssumption DEF IInv, TypeOK, Retried
  <2>2. requests <= iter + Retried
    BY DEF IInv, Counted
  <2>3. Retried' = Retried
    BY DEF Retried, retries
  <2>4. requests < iter + 1 + Retried /\ requests <= iter + 1 + Retried + 1
    BY <1>a, <2>1, <2>2
  <2> QED
    BY <2>3, <2>4 DEF Counted
<1>5. Known' /\ Settled' /\ ClaimIsHeld'
  BY DEF IInv, Known, Settled, ClaimIsHeld
<1>6. Told'
  BY <1>t DEF Told
<1> QED
  BY <1>1, <1>2, <1>3, <1>4, <1>5, <1>6 DEF IInv

\* The calls of a reply are taken up.
LEMMA TakenKeeps ==
    ASSUME IInv, at = "stream", at' = "approve", NEW calls \in Batches, batch' = calls,
           tail' = <<[role |-> "assistant", id |-> Len(calls)]>>,
           UNCHANGED <<iter, verdicts, call, gate, retries, ending>>,
           UNCHANGED <<child, free, dialog, consent, stopped, requests, ran>>
    PROVE  IInv'
<1>a. calls \in Seq(Kinds) /\ Len(calls) \in Nat /\ Len(calls) <= MaxBatch
  <2>1. PICK n \in Slots : calls \in [1 .. n -> Kinds]
    BY DEF Batches
  <2>2. n \in Nat /\ n <= MaxBatch
    BY <2>1, AgentLoopAssumption DEF Slots
  <2> QED
    BY <2>1, <2>2
<1>v. verdicts' = <<>> /\ verdicts = <<>>
  BY DEF IInv, Aligned
<1>t. tail' \in Seq(Message)
  <2>1. [role |-> "assistant", id |-> Len(calls)] \in Message
    BY <1>a, AgentLoopAssumption DEF Message, Askers
  <2> QED
    BY <2>1
<1>1. TypeOK'
  <2>1. verdicts' \in Seq(Verdict) /\ Len(verdicts') <= Len(batch')
    BY <1>a, <1>v
  <2> QED
    BY <1>a, <1>t, <2>1 DEF IInv, TypeOK, consent, gate, retries
<1>2. Quiet' /\ Aligned' /\ Children' /\ Dialogs' /\ Halted'
  BY DEF IInv, Quiet, Aligned, Children, Dialogs, Halted, Active, Upcoming
<1>3. PermitsConserved' /\ Counted'
  BY DEF IInv, PermitsConserved, Holders, Waiters, Counted, Retried, retries
<1>4. Judged' /\ PlanHoldsWrites'
  BY <1>v DEF Judged, PlanHoldsWrites
<1>5. Known' /\ Settled' /\ ClaimIsHeld'
  BY DEF IInv, Known, Settled, ClaimIsHeld, gate
<1>6. Told'
  BY DEF Told
<1> QED
  BY <1>1, <1>2, <1>3, <1>4, <1>5, <1>6 DEF IInv

LEMMA ReceiveKeeps == ASSUME IInv, Receive PROVE IInv'
<1>a. at = "stream" /\ UNCHANGED <<child, free, dialog, consent, stopped, requests, ran>>
  BY DEF Receive
<1>b. /\ cuts \in 0 .. CutRetries /\ shorts \in 0 .. ShortRetries /\ blanks \in 0 .. BlankRetries
      /\ CutRetries \in Nat /\ ShortRetries \in Nat /\ BlankRetries \in Nat
      /\ demands \in 0 .. DemandCap /\ DemandCap \in Nat
  BY AgentLoopAssumption DEF IInv, TypeOK
<1>r. PICK r \in Reply : IF r.calls = <<>> THEN Answers(r) ELSE Calls(r)
  BY DEF Receive
<1>1. CASE cuts < CutRetries /\ Again(cuts) /\ UNCHANGED <<shorts, blanks>>
  <2>1. cuts' = cuts + 1 /\ at' = "top" /\ UNCHANGED <<iter, batch, verdicts, call, tail, gate, ending>>
    BY <1>1 DEF Again
  <2> QED
    BY <1>a, <1>b, <1>1, <2>1, AgainKeeps
<1>2. CASE blanks < BlankRetries /\ Again(blanks) /\ UNCHANGED <<cuts, shorts>>
  <2>1. blanks' = blanks + 1 /\ at' = "top" /\ UNCHANGED <<iter, batch, verdicts, call, tail, gate, ending>>
    BY <1>2 DEF Again
  <2> QED
    BY <1>a, <1>b, <1>2, <2>1, AgainKeeps
<1>3. CASE shorts < ShortRetries /\ Again(shorts) /\ UNCHANGED <<cuts, blanks>>
  <2>1. shorts' = shorts + 1 /\ at' = "top" /\ UNCHANGED <<iter, batch, verdicts, call, tail, gate, ending>>
    BY <1>3 DEF Again
  <2> QED
    BY <1>a, <1>b, <1>3, <2>1, AgainKeeps
<1>4. CASE Ends("thrown") /\ UNCHANGED <<iter, batch, verdicts, call, tail, gate, retries>>
  BY <1>a, <1>4, EndsKeeps
<1>5. CASE /\ ~ Demanded(r) /\ Ends(IF r.text = "claim" THEN "claimed" ELSE "answered")
           /\ UNCHANGED <<iter, batch, verdicts, call, tail, gate, retries>>
  <2>1. r.text = "claim" => ~ mutated \/ verified \/ demands >= DemandCap \/ IsFinalRound
    BY <1>b, <1>5 DEF Demanded
  <2>2. CASE r.text = "claim"
    BY <1>a, <1>5, <2>1, <2>2, EndsKeeps
  <2>3. CASE r.text # "claim"
    BY <1>a, <1>5, <2>3, EndsKeeps
  <2> QED
    BY <2>2, <2>3
<1>6. CASE /\ Demanded(r) /\ demands' = demands + 1
           /\ tail' = tail \o <<[role |-> "assistant", id |-> 0], [role |-> "user", id |-> 0]>>
           /\ iter' = iter + 1 /\ at' = "top"
           /\ UNCHANGED <<batch, verdicts, call, mutated, verified, retries, ending>>
  BY <1>a, <1>6, DemandKeeps
<1>7. CASE /\ r.calls # <<>> /\ batch' = r.calls
           /\ tail' = <<[role |-> "assistant", id |-> Len(r.calls)]>> /\ at' = "approve"
           /\ UNCHANGED <<iter, verdicts, call, gate, retries, ending>>
  <2>1. r.calls \in Batches
    BY <1>7 DEF Reply
  <2> QED
    BY <1>a, <1>7, <2>1, TakenKeeps
<1>8. CASE r.calls = <<>>
  BY <1>r, <1>1, <1>2, <1>4, <1>5, <1>6, <1>8 DEF Answers
<1>9. CASE r.calls # <<>>
  BY <1>r, <1>3, <1>7, <1>9 DEF Calls
<1> QED
  BY <1>8, <1>9

-----------------------------------------------------------------------------
(* The user. *)

LEMMA AnswerKeeps == ASSUME IInv, Answer PROVE IInv'
<1>a. /\ dialog' = {}
      /\ UNCHANGED <<iter, batch, call, free, planMode, stopped, tail, gate, retries, ending, requests, ran>>
  BY DEF Answer
<1>1. ASSUME NEW allow \in BOOLEAN, dialog = {0}, Rules(allow, FALSE, "none"),
             UNCHANGED trusted \/ trusted' \in Trusts(batch[Upcoming]),
             at' = "approve", UNCHANGED child
      PROVE  IInv'
  <2>a. at = "asking" /\ ~ stopped /\ Len(verdicts) < Len(batch)
    BY <1>1 DEF IInv, Dialogs, Aligned, Slots
  <2> DEFINE v == [allow |-> allow, plan |-> FALSE, note |-> "none"]
  <2>v. v \in Verdict /\ v.plan = FALSE /\ v.note = "none" /\ verdicts' = Append(verdicts, v)
    BY <1>1 DEF Verdict, Rules
  <2> HIDE DEF v
  <2>r. verdicts' \in Seq(Verdict) /\ Len(verdicts') <= Len(batch) /\ Judged' /\ PlanHoldsWrites'
    BY <1>a, <1>1, <2>a, <2>v, Ruled
  <2>k. batch[Upcoming] \in Kinds
    BY <2>a, BatchFacts DEF Upcoming
  <2>t. trusted' \subseteq Kinds \cup {"look"}
    BY <1>1, <2>k DEF IInv, TypeOK, Trusts
  <2>1. TypeOK'
    BY <1>a, <1>1, <2>r, <2>t DEF IInv, TypeOK, gate, retries
  <2>2. Quiet' /\ Aligned' /\ Children' /\ Dialogs' /\ Halted'
    BY <1>a, <1>1, <2>a DEF IInv, Quiet, Aligned, Children, Dialogs, Halted, Active
  <2>3. PermitsConserved'
    BY <1>a, <1>1 DEF IInv, PermitsConserved, Holders, Waiters
  <2>4. Counted' /\ Told'
    BY <1>a, <1>1, <2>a DEF IInv, Counted, Retried, Told, retries
  <2>5. Known' /\ Settled' /\ ClaimIsHeld'
    BY <1>a, <1>1, <2>a DEF IInv, Known, Settled, ClaimIsHeld, gate
  <2> QED
    BY <2>r, <2>1, <2>2, <2>3, <2>4, <2>5 DEF IInv
<1>2. ASSUME NEW i \in Slots, dialog = {i}, NEW where \in {"think", "work"}, Now(i, where),
             UNCHANGED trusted \/ trusted' \in Trusts("look"), UNCHANGED <<at, verdicts>>
      PROVE  IInv'
  <2>1. child[i].at = "asking" /\ at = "run"
    <3>1. 0 \notin Slots
      BY DEF Slots
    <3> QED
      BY <1>2, <3>1 DEF IInv, Dialogs, Children, Active
  <2>3. trusted' \subseteq Kinds \cup {"look"}
    BY <1>2 DEF IInv, TypeOK, Trusts
  <2> QED
    BY <1>a, <1>2, <2>1, <2>3, ChildMovesKeeps
<1>3. CASE /\ dialog = {0}
           /\ \E allow \in BOOLEAN : Rules(allow, FALSE, "none")
                 /\ \/ ~ allow /\ UNCHANGED trusted
                    \/ allow /\ trusted' \in Trusts(batch[Upcoming])
           /\ at' = "approve" /\ UNCHANGED child
  BY <1>1, <1>3
<1>4. CASE \E i \in Slots :
             /\ dialog = {i}
             /\ \/ Now(i, IF child[i].aborted THEN "think" ELSE "work") /\ trusted' \in Trusts("look")
                \/ Now(i, "think") /\ UNCHANGED trusted
             /\ UNCHANGED <<at, verdicts>>
  BY <1>2, <1>4
<1> QED
  BY <1>3, <1>4 DEF Answer

\* Stop denies whoever is parked.
LEMMA StopKeeps == ASSUME IInv, Stop PROVE IInv'
<1>a. /\ at # "over" /\ ~ stopped /\ stopped' = TRUE /\ dialog' = {}
      /\ UNCHANGED <<iter, batch, call, free, consent, tail, gate, retries, ending, requests, ran>>
  BY DEF Stop, Ended
<1>c. ASSUME NEW i \in Slots
      PROVE  /\ child'[i] \in Child
             /\ child[i].at = "asking" => child'[i].at = "think" /\ child'[i].aborted
             /\ child[i].at \in {"queued", "think", "work"} => child'[i].at = child[i].at /\ child'[i].aborted
             /\ child[i].at \in {"none", "over"} => child'[i] = child[i]
  <2> DEFINE c == [child[i] EXCEPT !.aborted = TRUE, !.at = IF @ = "asking" THEN "think" ELSE @]
  <2>1. child[i] \in Child
    BY DEF IInv, TypeOK
  <2>2. /\ c \in Child /\ c.aborted
        /\ c.at = IF child[i].at = "asking" THEN "think" ELSE child[i].at
    BY <2>1 DEF Child
  <2>3. child'[i] = IF child[i].at \in {"none", "over"} THEN child[i] ELSE c
    BY DEF Stop
  <2> HIDE DEF c
  <2> QED
    BY <2>1, <2>2, <2>3 DEF Child
<1>t. child' \in [Slots -> Child]
  <2>1. child' = [i \in Slots |-> child'[i]]
    BY DEF Stop
  <2> QED
    BY <1>c, <2>1
<1>s. \A i \in Slots : child[i].at \in {"none", "queued", "think", "asking", "work", "over"}
  BY DEF IInv, TypeOK, Child
<1> DEFINE Denied == /\ at' # "asking" /\ (at = "asking" => at' = "approve") /\ (at # "asking" => at' = at)
                     /\ verdicts' \in Seq(Verdict) /\ Len(verdicts') <= Len(batch)
                     /\ (at # "asking" => verdicts' = verdicts)
                     /\ Judged' /\ PlanHoldsWrites'
<1>v. Denied
  <2>1. CASE at = "asking" /\ Rules(FALSE, FALSE, "none") /\ at' = "approve"
    <3> DEFINE v == [allow |-> FALSE, plan |-> FALSE, note |-> "none"]
    <3>1. v \in Verdict /\ v.plan = FALSE /\ v.note = "none" /\ verdicts' = Append(verdicts, v)
      BY <2>1 DEF Verdict, Rules
    <3> HIDE DEF v
    <3>2. Len(verdicts) < Len(batch)
      BY <2>1 DEF IInv, Aligned
    <3> QED
      BY <1>a, <2>1, <3>1, <3>2, Ruled
  <2>2. CASE at # "asking" /\ UNCHANGED <<at, verdicts>>
    BY <1>a, <2>2 DEF IInv, TypeOK, Judged, PlanHoldsWrites
  <2> QED
    BY <2>1, <2>2 DEF Stop
<1>1. TypeOK'
  <2>1. at' \in {"top", "stream", "approve", "asking", "run", "wrap", "over"}
    BY <1>v DEF IInv, TypeOK
  <2> QED
    BY <1>a, <1>t, <1>v, <2>1 DEF IInv, TypeOK, consent, gate, retries
<1>2. Quiet' /\ Aligned' /\ Children' /\ Dialogs' /\ Halted'
  <2>1. Quiet'
    BY <1>a, <1>c, <1>v DEF IInv, Quiet, NoChild
  <2>2. Aligned'
    BY <1>a, <1>v DEF IInv, Aligned
  <2>3. Children'
    BY <1>a, <1>c, <1>s, <1>v DEF IInv, Children, Active
  <2>4. Dialogs' /\ Halted'
    BY <1>a, <1>c, <1>s, <1>v DEF Dialogs, Halted, Active
  <2> QED
    BY <2>1, <2>2, <2>3, <2>4
<1>3. PermitsConserved'
  BY <1>a, <1>c, <1>s, SamePermits DEF IInv
<1>4. Counted' /\ Told'
  BY <1>a, <1>v DEF IInv, Counted, Retried, Told, retries
<1>5. Known' /\ Settled' /\ ClaimIsHeld'
  <2>1. ending = "none" /\ ending' = "none" /\ (at = "run" <=> at' = "run") /\ Succeeded' = Succeeded
    BY <1>a, <1>v DEF IInv, Settled, Succeeded
  <2> QED
    BY <1>a, <2>1 DEF IInv, Known, Settled, ClaimIsHeld, gate
<1> QED
  BY <1>v, <1>1, <1>2, <1>3, <1>4, <1>5 DEF IInv

-----------------------------------------------------------------------------
(* The invariant. *)

LEMMA Initially == ASSUME Init PROVE IInv
<1>n. NoChild \in Child
  BY AgentLoopAssumption DEF NoChild, Child
<1>c. child \in [Slots -> Child] /\ \A i \in Slots : child[i] = NoChild /\ call[i] = "idle"
  BY <1>n DEF Init
<1>1. TypeOK
  <2>1. /\ <<>> \in Seq(Kinds) /\ <<>> \in Seq(Verdict) /\ <<>> \in Seq(Message) /\ Len(<<>>) = 0
        /\ MaxBatch \in Nat /\ Bound \in Nat \ {0} /\ Concurrency \in Nat /\ DemandCap \in Nat
        /\ CutRetries \in Nat /\ ShortRetries \in Nat /\ BlankRetries \in Nat
    BY AgentLoopAssumption
  <2>2. planMode \in BOOLEAN /\ stopped \in BOOLEAN /\ mutated \in BOOLEAN /\ verified \in BOOLEAN
    BY Zenon DEF Init
  <2>3. call \in [Slots -> {"idle", "busy", "ok", "fail"}]
    BY DEF Init
  <2>4. /\ iter \in 1 .. Bound /\ free \in 0 .. Concurrency /\ demands \in 0 .. DemandCap
        /\ cuts \in 0 .. CutRetries /\ shorts \in 0 .. ShortRetries /\ blanks \in 0 .. BlankRetries
        /\ requests \in Nat
    BY <2>1 DEF Init
  <2> QED
    BY <1>c, <2>1, <2>2, <2>3, <2>4 DEF Init, TypeOK
<1>2. Quiet /\ Aligned /\ Children /\ Dialogs /\ Halted
  BY <1>c DEF Init, Quiet, Aligned, Children, Dialogs, Halted, Active, NoChild
<1>3. PermitsConserved
  <2>1. Holders = {} /\ Waiters = {} /\ free = Concurrency
    BY <1>c DEF Init, Holders, Waiters, NoChild
  <2> QED
    BY <2>1, FS_EmptySet, AgentLoopAssumption DEF PermitsConserved
<1>4. Judged /\ PlanHoldsWrites /\ Counted /\ Told
  <2>1. Retried = 0
    BY DEF Init, Retried
  <2> QED
    BY <2>1 DEF Init, Judged, PlanHoldsWrites, Counted, Told
<1>5. Known /\ Settled /\ ClaimIsHeld
  BY DEF Init, Known, Settled, ClaimIsHeld, Succeeded
<1> QED
  BY <1>1, <1>2, <1>3, <1>4, <1>5 DEF IInv

LEMMA StepKeeps == ASSUME IInv, [Next]_vars PROVE IInv'
<1>1. CASE Loop
  BY <1>1, AskKeeps, AskFailsKeeps, ReceiveKeeps, ApproveKeeps, AbandonKeeps, RunKeeps,
     CollectKeeps, WrapUpKeeps DEF Loop
<1>2. CASE SettlePlan \/ Answer \/ TogglePlan \/ Stop
  BY <1>2, SettlePlanKeeps, AnswerKeeps, TogglePlanKeeps, StopKeeps
<1>3. ASSUME NEW i \in Slots, Work(i) \/ Watchdog(i) PROVE IInv'
  BY <1>3, CallReturnsKeeps, ChildThinksKeeps, ChildReadsKeeps, WatchdogKeeps DEF Work
<1>4. CASE UNCHANGED vars
  <2>1. TypeOK'
    BY <1>4 DEF IInv, TypeOK, vars, consent, gate, retries
  <2>2. Quiet' /\ Aligned' /\ Children' /\ Dialogs' /\ Halted' /\ PermitsConserved'
    BY <1>4 DEF IInv, Quiet, Aligned, Children, Dialogs, Halted, Active, Upcoming, PermitsConserved,
       Holders, Waiters, vars, consent
  <2>3. Judged' /\ PlanHoldsWrites' /\ Counted' /\ Told'
    BY <1>4 DEF IInv, Judged, PlanHoldsWrites, Counted, Retried, Told, vars, retries
  <2>4. Known' /\ Settled' /\ ClaimIsHeld'
    BY <1>4 DEF IInv, Known, Settled, ClaimIsHeld, Succeeded, IsFinalRound, vars, gate
  <2> QED
    BY <2>1, <2>2, <2>3, <2>4 DEF IInv
<1> QED
  BY <1>1, <1>2, <1>3, <1>4 DEF Next

\* The invariant holds of every behaviour.
THEOREM Invariance == Spec => []IInv
<1>1. Init => IInv
  BY Initially
<1>2. IInv /\ [Next]_vars => IInv'
  BY StepKeeps
<1> QED
  BY <1>1, <1>2, PTL DEF Spec

\* Every variable of a turn has its type.
THEOREM TypeCorrect == Spec => []TypeOK
<1>1. IInv => TypeOK
  BY DEF IInv
<1> QED
  BY <1>1, Invariance, PTL

\* agentLoop.ts:1069-1096: no permit of the sub-agents is lost or made, whoever ends, fails or is
\* aborted, for any number of them and of permits.
THEOREM PermitsAreConserved == Spec => []PermitsConserved
<1>1. IInv => PermitsConserved
  BY DEF IInv
<1> QED
  BY <1>1, Invariance, PTL

\* approval.ts:52-56: plan mode holds the writes of a batch, whatever the mode underneath.
THEOREM PlanModeHolds == Spec => []PlanHoldsWrites
<1>1. IInv => PlanHoldsWrites
  BY DEF IInv
<1> QED
  BY <1>1, Invariance, PTL

\* agentLoop.ts:925-958: a claim of success without a check is the demanded one, or the last.
THEOREM ClaimsAreHeld == Spec => []ClaimIsHeld
<1>1. IInv => ClaimIsHeld
  BY DEF IInv
<1> QED
  BY <1>1, Invariance, PTL

\* agentLoop.ts:773-787: every model call is a round of the budget, a counted retry or the wrap-up.
THEOREM RequestsAreBounded == Spec => []RequestsBounded
<1>1. IInv => RequestsBounded
  <2>1. ASSUME IInv PROVE RequestsBounded
    <3>1. /\ requests \in Nat /\ iter \in 1 .. Bound /\ Bound \in Nat
          /\ cuts \in 0 .. CutRetries /\ shorts \in 0 .. ShortRetries /\ blanks \in 0 .. BlankRetries
          /\ CutRetries \in Nat /\ ShortRetries \in Nat /\ BlankRetries \in Nat
      BY <2>1, AgentLoopAssumption DEF IInv, TypeOK
    <3>2. requests <= iter + Retried + 1
      BY <2>1 DEF IInv, Counted
    <3>3. Retried \in Nat /\ Retried <= CutRetries + ShortRetries + BlankRetries
      BY <3>1 DEF Retried
    <3> QED
      BY <3>1, <3>2, <3>3 DEF RequestsBounded
  <2> QED
    BY <2>1
<1> QED
  BY <1>1, Invariance, PTL

\* agentLoop.ts:1920-1935: the model is asked again with every call of its last turn answered.
THEOREM ResultsFollowCalls == Spec => []ResultsFollow
<1>1. IInv => ResultsFollow
  BY DEF IInv, Told, Complete, ResultsFollow
<1> QED
  BY <1>1, Invariance, PTL

\* After Stop no step starts anything.
LEMMA StepStartsNothing ==
    ASSUME IInv, [Next]_vars, stopped
    PROVE  \A i \in Slots : /\ (call'[i] = "busy" => call[i] = "busy")
                            /\ (child'[i].at = "work" => child[i].at = "work")
<1> DEFINE A == \A i \in Slots : /\ (call'[i] = "busy" => call[i] = "busy")
                                 /\ (child'[i].at = "work" => child[i].at = "work")
<1>1. CASE UNCHANGED <<call, child>>
  BY <1>1
<1>2. CASE Loop
  <2>1. CASE Ask \/ AskFails \/ Approve \/ Abandon \/ WrapUp \/ Receive
    <3>1. UNCHANGED child
      BY <2>1 DEF Ask, AskFails, Approve, Abandon, WrapUp, Receive
    <3>2. UNCHANGED call
      BY <2>1 DEF Ask, AskFails, Approve, Abandon, WrapUp, Receive, Answers, Calls, Again
    <3> QED
      BY <3>1, <3>2
  <2>2. CASE Run
    BY <2>2 DEF Run
  <2>3. CASE Collect
    BY <2>3 DEF Collect, NoChild
  <2> QED
    BY <1>2, <2>1, <2>2, <2>3 DEF Loop
<1>3. CASE SettlePlan \/ TogglePlan
  BY <1>3 DEF SettlePlan, TogglePlan
<1>4. CASE Answer
  <2>1. dialog # {0} /\ \A i \in Slots : dialog # {i}
    <3>1. 0 \notin Slots
      BY DEF Slots
    <3> QED
      BY <3>1 DEF IInv, Dialogs
  <2> QED
    BY <1>4, <2>1 DEF Answer
<1>5. CASE Stop
  BY <1>5 DEF Stop
<1>6. ASSUME NEW j \in Slots, Work(j) \/ Watchdog(j) PROVE A
  <2>1. child \in [Slots -> Child] /\ child[j] \in Child /\ call \in [Slots -> {"idle", "busy", "ok", "fail"}]
    BY DEF IInv, TypeOK
  <2>2. ASSUME NEW result \in {"ok", "fail"}, Settles(j, result)
        PROVE  \A i \in Slots : call'[i] = "busy" => call[i] = "busy"
    BY <2>1, <2>2 DEF Settles
  <2>3. CASE CallReturns(j)
    BY <2>2, <2>3 DEF CallReturns
  <2>4. CASE ChildThinks(j)
    <3>1. child[j].at = "think" /\ child[j].aborted
      BY <2>4 DEF ChildThinks, IsAt, IInv, Halted, Active
    <3>2. PICK result \in {"ok", "fail"} : ChildOver(j, result)
      BY <2>4, <3>1 DEF ChildThinks
    <3>3. ASSUME NEW i \in Slots, child'[i].at = "work" PROVE child[i].at = "work"
      <4>1. CASE Waiters = {}
        <5>1. child' = [child EXCEPT ![j].at = "over"]
          BY <3>2, <4>1 DEF ChildOver, Now
        <5> QED
          BY <2>1, <3>3, <5>1
      <4>2. CASE Waiters # {}
        <5>1. child' = [child EXCEPT ![j].at = "over", ![First].at = "think"]
          BY <3>2, <4>2 DEF ChildOver
        <5>2. First \in Slots
          BY <4>2, FirstWaits DEF Waiters
        <5> QED
          BY <2>1, <3>3, <5>1, <5>2 DEF Child
      <4> QED
        BY <4>1, <4>2
    <3>4. Settles(j, result)
      BY <3>2 DEF ChildOver
    <3> QED
      BY <2>2, <3>3, <3>4
  <2>5. CASE ChildReads(j)
    BY <2>1, <2>5 DEF ChildReads, Now, Child
  <2>6. CASE Watchdog(j)
    BY <2>1, <2>6 DEF Watchdog, Child
  <2> QED
    BY <1>6, <2>3, <2>4, <2>5, <2>6 DEF Work
<1>7. CASE UNCHANGED vars
  BY <1>7 DEF vars
<1> QED
  BY <1>2, <1>3, <1>4, <1>5, <1>6, <1>7 DEF Next

\* agentLoop.ts:788, 1018, 1066: nothing of a turn is started after the user's Stop.
THEOREM StopStartsNothing == Spec => NothingStartsAfterStop
<1>1. IInv /\ [Next]_vars =>
        [stopped => \A i \in Slots : /\ (call'[i] = "busy" => call[i] = "busy")
                                     /\ (child'[i].at = "work" => child[i].at = "work")]_vars
  BY StepStartsNothing
<1> QED
  BY <1>1, Invariance, PTL DEF Spec, NothingStartsAfterStop

=============================================================================
