------------------------------ MODULE Capture ------------------------------
(***************************************************************************)
(* The write path of the memory: finished turns are queued in the table    *)
(* memory_pending (core/capture.rs) and the app's one webview distils them *)
(* (lib/memory/drain.ts), through a model call of its own and one store    *)
(* write per atom.  Every command of the host runs under the store's lock, *)
(* so a command is one step; between two commands the webview can be       *)
(* reloaded or closed, and any command can fail.                           *)
(*                                                                         *)
(* Times are ages in ticks, capped where the code stops telling them       *)
(* apart; a claim of age Window and a claimed_at of NULL are the same.     *)
(***************************************************************************)
EXTENDS Naturals, FiniteSets

CONSTANTS
    MaxRows,      \* how many turns are ever queued (bound)
    Budget,       \* DISTILL_BUDGET_PER_HOUR
    ClaimLimit,   \* CLAIM_LIMIT
    MaxAttempts,  \* after how many attempts a failing row is retired: 3
    StaleAfter,   \* STALE_CLAIM_MS
    Window,       \* DISTILL_WINDOW_MS
    Retain,       \* RETENTION_DAYS
    Callers,      \* who starts a pass: the interval, the Memory screen's button
    MaxFaults     \* failing commands, failing store writes and lost webviews (bound)

ASSUME CaptureAssumption ==
    /\ MaxRows \in Nat /\ Budget \in Nat \ {0} /\ ClaimLimit \in Nat \ {0}
    /\ MaxAttempts \in Nat \ {0} /\ MaxFaults \in Nat
    /\ StaleAfter \in Nat /\ Window \in Nat /\ Retain \in Nat
    /\ StaleAfter < Window /\ Window < Retain

VARIABLES
    rows,       \* memory_pending, by id
    up,         \* the webview is loaded and its interval is set
    running,    \* drain.ts's `running'
    pass,       \* the drain passes: where each caller's is, and its rows still to do
    purging,    \* the start's capturePurgeFinished has not run yet
    stored,     \* history: how many distillations of a row stored all they yielded
    faults      \* how many faults there were

vars == <<rows, up, running, pass, purging, stored, faults>>

Ids == 1 .. MaxRows

Row == [status : {"absent", "queued", "processing", "done", "failed", "gone"},
        attempts : Nat, claimed : 0 .. Window, age : 0 .. Retain + 1]

NoRow(status) == [status |-> status, attempts |-> 0, claimed |-> Window, age |-> 0]

Pass == [at : {"idle", "requeue", "claim", "distil", "complete", "release"}, batch : SUBSET Ids]

Idle == [at |-> "idle", batch |-> {}]

With(status) == {i \in Ids : rows[i].status = status}

Least(S) == CHOOSE i \in S : \A j \in S : i <= j

Lower(a, b) == IF a <= b THEN a ELSE b

Init ==
    /\ rows = [i \in Ids |-> NoRow("absent")]
    /\ up = FALSE /\ running = FALSE /\ purging = FALSE
    /\ pass = [c \in Callers |-> Idle]
    /\ stored = [i \in Ids |-> 0]
    /\ faults = 0

\* A command or a store write fails, or the webview is lost.
Fault == faults < MaxFaults /\ faults' = faults + 1

---------------------------------------------------------------------------
(* The host's commands. *)

\* A turn as enqueue sees it.
Exchange == [internal : BOOLEAN, writes : BOOLEAN, tools : BOOLEAN, prose : BOOLEAN]

\* The drain's own model call: a prose turn through the same gateway, sent with AIP-Memory: off
\* and without the internal mark.
OwnCall == [internal |-> FALSE, writes |-> FALSE, tools |-> FALSE, prose |-> TRUE]

Capturable(x) == ~ x.internal /\ x.writes /\ ~ x.tools /\ x.prose

\* enqueue: a new row, or the table as it is.
Offered(x) ==
    IF Capturable(x) /\ With("absent") # {}
    THEN [rows EXCEPT ![Least(With("absent"))] = NoRow("queued")]
    ELSE rows

\* budget_left: rows claimed in the window count, whatever became of them.
Used == {i \in Ids : rows[i].claimed < Window}

BudgetLeft == IF Cardinality(Used) >= Budget THEN 0 ELSE Budget - Cardinality(Used)

\* claim's batch: the first queued rows, as many as the limit and the budget allow.
Batches ==
    {T \in SUBSET With("queued") :
        /\ Cardinality(T) = Lower(Lower(ClaimLimit, BudgetLeft), Cardinality(With("queued")))
        /\ \A i \in T, j \in With("queued") \ T : i < j}

Claimed(T) ==
    [i \in Ids |-> IF i \in T
                   THEN [rows[i] EXCEPT !.status = "processing", !.attempts = @ + 1, !.claimed = 0]
                   ELSE rows[i]]

Completed(i) ==
    IF rows[i].status = "processing" THEN [rows EXCEPT ![i].status = "done"] ELSE rows

\* (Mutant: a status that no statement reads.)
ReleasedAsError(i) ==
    IF rows[i].status = "processing"
    THEN [rows EXCEPT ![i].status = IF rows[i].attempts >= MaxAttempts THEN "error" ELSE "queued"]
    ELSE rows

Released(i) ==
    IF rows[i].status = "processing"
    THEN [rows EXCEPT ![i].status = IF rows[i].attempts >= MaxAttempts THEN "failed" ELSE "queued"]
    ELSE rows

Stale == {i \in With("processing") : rows[i].claimed > StaleAfter}

Requeued ==
    [i \in Ids |-> IF i \in Stale THEN [rows[i] EXCEPT !.status = "queued", !.claimed = Window]
                   ELSE rows[i]]

\* (Mutant: what is still queued or claimed expires, too.)
ExpiredAny == {i \in Ids : rows[i].status \notin {"absent", "gone"} /\ rows[i].age > Retain}
Expired == {i \in With("done") \cup With("failed") : rows[i].age > Retain}

Purged == [i \in Ids |-> IF i \in Expired THEN NoRow("gone") ELSE rows[i]]

---------------------------------------------------------------------------
(* A client's turn ends, and is offered to the queue. *)

Enqueue ==
    /\ \E x \in Exchange : rows' = Offered(x)
    /\ UNCHANGED <<up, running, pass, purging, stored, faults>>

---------------------------------------------------------------------------
(* The drain. *)

At(c, at) == up /\ pass[c].at = at

\* The pass goes on with these rows, or is over.
GoesOn(c, batch) ==
    /\ pass' = [pass EXCEPT ![c] = IF batch = {} THEN Idle ELSE [at |-> "distil", batch |-> batch]]
    /\ running' = (batch # {})

\* (Mutant: a pass does not look whether one is running.)
BeginAnyway(c) ==
    /\ At(c, "idle")
    /\ running' = TRUE
    /\ pass' = [pass EXCEPT ![c].at = "requeue"]
    /\ UNCHANGED <<rows, up, purging, stored, faults>>

\* A tick of the interval, or the button, while no pass runs.  No model, no pass.
Begin(c) ==
    /\ At(c, "idle") /\ ~ running
    /\ running' = TRUE
    /\ pass' = [pass EXCEPT ![c].at = "requeue"]
    /\ UNCHANGED <<rows, up, purging, stored, faults>>

Requeue(c) ==
    /\ At(c, "requeue")
    /\ \/ rows' = Requeued /\ UNCHANGED faults
       \/ UNCHANGED rows /\ Fault
    /\ pass' = [pass EXCEPT ![c].at = "claim"]
    /\ UNCHANGED <<up, running, purging, stored>>

\* A claim that fails half-way leaves the rows it has marked behind, in nobody's batch.
Claim(c) ==
    /\ At(c, "claim")
    /\ \E T \in Batches :
        \/ rows' = Claimed(T) /\ GoesOn(c, T) /\ UNCHANGED faults
        \/ /\ \E P \in SUBSET T : (\A i \in P, j \in T \ P : i < j) /\ rows' = Claimed(P)
           /\ GoesOn(c, {}) /\ Fault
    /\ UNCHANGED <<up, purging, stored>>

Current(c) == Least(pass[c].batch)

\* distilExchange returns: the model answered and each atom was offered to the memory.  A write
\* that fails is swallowed (captureAndRecord's catch), and the pass goes on to complete the row as
\* if its atoms were stored.  The gateway offers the drain's own turn to the queue as it does
\* every other, and the queue declines it.
Distil(c) ==
    /\ At(c, "distil")
    /\ rows' = Offered(OwnCall)
    /\ \/ stored' = [stored EXCEPT ![Current(c)] = @ + 1] /\ UNCHANGED faults
       \/ UNCHANGED stored /\ Fault
    /\ pass' = [pass EXCEPT ![c].at = "complete"]
    /\ UNCHANGED <<up, running, purging>>

\* distilExchange throws.
DistilFails(c) ==
    /\ At(c, "distil")
    /\ pass' = [pass EXCEPT ![c].at = "release"]
    /\ UNCHANGED <<rows, up, running, purging, stored, faults>>

Report(c, at, table) ==
    /\ At(c, at)
    /\ \/ rows' = table /\ UNCHANGED faults
       \/ UNCHANGED rows /\ Fault
    /\ GoesOn(c, pass[c].batch \ {Current(c)})
    /\ UNCHANGED <<up, purging, stored>>

Complete(c) == Report(c, "complete", Completed(Current(c)))

Release(c) == Report(c, "release", Released(Current(c)))

---------------------------------------------------------------------------
(* The webview and the clock. *)

\* startCaptureDrain: the purge and the interval.
Start ==
    /\ ~ up /\ up' = TRUE /\ purging' = TRUE
    /\ UNCHANGED <<rows, running, pass, stored, faults>>

Purge ==
    /\ up /\ purging /\ purging' = FALSE
    /\ \/ rows' = Purged /\ UNCHANGED faults
       \/ UNCHANGED rows /\ Fault
    /\ UNCHANGED <<up, running, pass, stored>>

\* The webview is closed, reloaded or killed; what it held in memory is gone.
Lose ==
    /\ up /\ Fault
    /\ up' = FALSE /\ running' = FALSE /\ purging' = FALSE
    /\ pass' = [c \in Callers |-> Idle]
    /\ UNCHANGED <<rows, stored>>

Tick ==
    /\ rows' = [i \in Ids |-> [rows[i] EXCEPT
                  !.claimed = Lower(@ + 1, Window),
                  !.age = IF rows[i].status \in {"absent", "gone"} THEN @ ELSE Lower(@ + 1, Retain + 1)]]
    /\ UNCHANGED <<up, running, pass, purging, stored, faults>>

Drain(c) ==
    \/ Begin(c) \/ Requeue(c) \/ Claim(c) \/ Distil(c) \/ DistilFails(c)
    \/ Complete(c) \/ Release(c)

Next ==
    \/ Enqueue \/ Start \/ Purge \/ Lose \/ Tick
    \/ \E c \in Callers : Drain(c)

\* The interval keeps calling (drain.ts:122), each command and each model call comes back
\* (the gateway bounds the wait for an answer), time passes and the app is opened again.
Fairness ==
    /\ WF_vars(Start) /\ WF_vars(Tick)
    /\ WF_vars(\E c \in Callers : Drain(c))

Spec == Init /\ [][Next]_vars /\ Fairness

---------------------------------------------------------------------------
(* Properties. *)

\* Every variable has its type.
TypeOK ==
    /\ rows \in [Ids -> Row]
    /\ up \in BOOLEAN /\ running \in BOOLEAN /\ purging \in BOOLEAN
    /\ pass \in [Callers -> Pass]
    /\ stored \in [Ids -> Nat]
    /\ faults \in 0 .. MaxFaults

\* drain.ts:56-64: a row that a pass still has to do is that pass's alone: it is marked processing,
\* no other pass holds it, and no recovery of stale claims has put it back into the queue, however
\* long the batch takes.
HeldIsProcessing ==
    \A c \in Callers : \A i \in pass[c].batch :
        /\ rows[i].status = "processing"
        /\ \A d \in Callers \ {c} : i \notin pass[d].batch

\* drain.ts:14-15, drain.test.ts:3: a row is only completed after its atoms are stored.  Kept by
\* hand (MCCaptureLost.cfg): a store write that fails is swallowed and the row completed.
AtomsBeforeDone == \A i \in Ids : rows[i].status = "done" => stored[i] > 0

\* drain.ts:14, drain.test.ts:4: nothing is distilled twice.  Kept by hand (MCCaptureTwice.cfg): a
\* completion that fails, or a webview lost before it, leaves the row to be claimed again.
NeverTwice == \A i \in Ids : stored[i] <= 1

Promise ==
    [i \in Ids |-> CASE rows[i].status = "absent" -> "new"
                     [] rows[i].status \in {"queued", "processing"} -> "waiting"
                     [] rows[i].status \in {"done", "failed"} -> "settled"
                     [] rows[i].status = "gone" -> "swept"]

Queue == INSTANCE Errands WITH errand <- Promise

\* drain.ts:12-14, capture.rs:688-689: nothing that was queued is lost: a turn stays in the queue
\* until it is done or retired, no purge takes it before, and in the end it is one of the two.
NothingLost == Queue!Spec
=============================================================================
