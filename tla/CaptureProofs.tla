--------------------------- MODULE CaptureProofs ---------------------------
(***************************************************************************)
(* Proofs about Capture, for any numbers of turns, of callers and of       *)
(* faults, and any budget and deadlines.                                   *)
(*                                                                         *)
(* What protects a batch is that one pass runs at a time and that it puts  *)
(* stale claims back before it claims its own: while a pass holds rows no  *)
(* statement but its own reports touches a claimed row.                    *)
(***************************************************************************)
EXTENDS Capture, TLAPS, WellFoundedInduction

OnePass ==
    /\ \A c, d \in Callers : pass[c].at # "idle" /\ pass[d].at # "idle" => c = d
    /\ \A c \in Callers : pass[c].at # "idle" => running /\ up
    /\ \A c \in Callers : pass[c].at \in {"idle", "requeue", "claim"} <=> pass[c].batch = {}

RowsHeld == \A c \in Callers : \A i \in pass[c].batch : rows[i].status = "processing"

IInv == TypeOK /\ OnePass /\ RowsHeld

-----------------------------------------------------------------------------
(* Facts about the operators. *)

\* A set of ids that is not empty has a least one.
LEMMA LeastIsIn ==
    ASSUME NEW S \in SUBSET Ids, S # {}
    PROVE  Least(S) \in S
<1> DEFINE R == {ss \in Nat \X Nat : ss[1] < ss[2]}
<1>1. IsWellFoundedOn(R, Nat)
  BY ONLY NatLessThanWellFounded, Zenon DEF OpToRel
<1>2. S \subseteq Nat
  BY DEF Ids
<1>3. PICK i \in S : \A j \in S : ~ <<j, i>> \in R
  <2> HIDE DEF R
  <2> QED
    BY <1>1, <1>2, WFMin
<1>4. ASSUME NEW j \in S, j < i PROVE FALSE
  <2>1. <<j, i>> \in Nat \X Nat /\ <<j, i>>[1] < <<j, i>>[2]
    BY <1>2, <1>4
  <2>2. <<j, i>> \in R
    BY <2>1, Zenon
  <2> QED
    BY <1>3, <2>2
<1>5. \A j \in S : i <= j
  <2> HIDE DEF R
  <2> QED
    BY <1>2, <1>4
<1> QED
  BY <1>5 DEF Least

Rows == [Ids -> Row]

\* A row that was never written, is new, or is gone.
LEMMA NewRow == \A st \in {"absent", "queued", "gone"} : NoRow(st) \in Row /\ NoRow(st).status = st
BY CaptureAssumption DEF NoRow, Row

\* enqueue adds one queued row or none.
LEMMA OfferedFacts ==
    ASSUME rows \in Rows, NEW x
    PROVE  /\ Offered(x) \in Rows
           /\ \/ Offered(x) = rows
              \/ \E i \in Ids : /\ rows[i].status = "absent" /\ Offered(x)[i].status = "queued"
                               /\ \A j \in Ids \ {i} : Offered(x)[j] = rows[j]
<1>1. CASE Capturable(x) /\ With("absent") # {}
  <2>1. PICK i \in With("absent") : i = Least(With("absent"))
    <3>1. With("absent") \in SUBSET Ids
      BY DEF With
    <3> QED
      BY <1>1, <3>1, LeastIsIn
  <2>2. Offered(x) = [rows EXCEPT ![i] = NoRow("queued")]
    BY <1>1, <2>1 DEF Offered
  <2>3. i \in Ids /\ rows[i].status = "absent"
    BY <2>1 DEF With
  <2> QED
    BY <2>2, <2>3, NewRow DEF Rows
<1>2. CASE ~ (Capturable(x) /\ With("absent") # {})
  BY <1>2 DEF Offered
<1> QED
  BY <1>1, <1>2

\* claim marks the rows of its batch, and those alone.
LEMMA ClaimedFacts ==
    ASSUME rows \in Rows, NEW T \in SUBSET Ids
    PROVE  /\ Claimed(T) \in Rows
           /\ \A i \in T : Claimed(T)[i].status = "processing"
           /\ \A i \in Ids \ T : Claimed(T)[i] = rows[i]
<1>1. 0 \in 0 .. Window
  BY CaptureAssumption
<1>2. ASSUME NEW i \in T
      PROVE  Claimed(T)[i] = [rows[i] EXCEPT !.status = "processing", !.attempts = @ + 1, !.claimed = 0]
  BY DEF Claimed
<1>3. ASSUME NEW i \in T PROVE Claimed(T)[i] \in Row /\ Claimed(T)[i].status = "processing"
  <2>1. rows[i] \in Row /\ rows[i].attempts + 1 \in Nat
    BY DEF Rows, Row
  <2> QED
    BY <1>1, <1>2, <2>1 DEF Row
<1>4. \A i \in Ids \ T : Claimed(T)[i] = rows[i]
  BY DEF Claimed
<1>5. Claimed(T) \in Rows
  <2>1. \A i \in Ids : Claimed(T)[i] \in Row
    BY <1>3, <1>4 DEF Rows
  <2> QED
    BY <2>1 DEF Claimed, Rows
<1> QED
  BY <1>3, <1>4, <1>5

\* A report concerns the row it is about.
LEMMA ReportFacts ==
    ASSUME rows \in Rows, NEW i \in Ids
    PROVE  /\ Completed(i) \in Rows /\ Released(i) \in Rows
           /\ \A j \in Ids \ {i} : Completed(i)[j] = rows[j] /\ Released(i)[j] = rows[j]
           /\ rows[i].status = "processing" =>
                 /\ Completed(i)[i].status = "done"
                 /\ Released(i)[i].status \in {"queued", "failed"}
<1>1. \A st \in {"done", "failed", "queued"} :
         [rows EXCEPT ![i].status = st] \in Rows /\ [rows EXCEPT ![i].status = st][i].status = st
  <2> TAKE st \in {"done", "failed", "queued"}
  <2>1. [rows[i] EXCEPT !.status = st] \in Row /\ [rows[i] EXCEPT !.status = st].status = st
    BY DEF Rows, Row
  <2>2. [rows EXCEPT ![i].status = st] = [rows EXCEPT ![i] = [rows[i] EXCEPT !.status = st]]
    OBVIOUS
  <2> QED
    BY <2>1, <2>2 DEF Rows
<1>2. Completed(i) = rows \/ Completed(i) = [rows EXCEPT ![i].status = "done"]
  BY DEF Completed
<1>3. \E st \in {"failed", "queued"} : Released(i) = rows \/ Released(i) = [rows EXCEPT ![i].status = st]
  BY DEF Released
<1>4. rows[i].status = "processing" =>
         /\ Completed(i) = [rows EXCEPT ![i].status = "done"]
         /\ \E st \in {"failed", "queued"} : Released(i) = [rows EXCEPT ![i].status = st]
  BY DEF Completed, Released
<1>5. \A j \in Ids \ {i} : Completed(i)[j] = rows[j] /\ Released(i)[j] = rows[j]
  BY <1>2, <1>3 DEF Rows
<1>6. Completed(i) \in Rows /\ Released(i) \in Rows
  BY <1>1, <1>2, <1>3
<1>7. rows[i].status = "processing" =>
         Completed(i)[i].status = "done" /\ Released(i)[i].status \in {"queued", "failed"}
  BY <1>1, <1>4
<1> QED
  BY <1>5, <1>6, <1>7

\* The recovery of stale claims concerns claimed rows, the purge what is settled.
LEMMA SweepFacts ==
    ASSUME rows \in Rows
    PROVE  /\ Requeued \in Rows /\ Purged \in Rows
           /\ \A i \in Ids : \/ Requeued[i] = rows[i]
                             \/ rows[i].status = "processing" /\ Requeued[i].status = "queued"
           /\ Expired \subseteq Ids
           /\ \A i \in Expired : rows[i].status \in {"done", "failed"} /\ Purged[i].status = "gone"
           /\ \A i \in Ids \ Expired : Purged[i] = rows[i]
<1>1. Window \in 0 .. Window
  BY CaptureAssumption
<1>2. ASSUME NEW i \in Ids
      PROVE  /\ Requeued[i] \in Row
             /\ Requeued[i] = rows[i] \/ (rows[i].status = "processing" /\ Requeued[i].status = "queued")
  <2>1. rows[i] \in Row
    BY DEF Rows
  <2>2. CASE i \in Stale
    <3>1. Requeued[i] = [rows[i] EXCEPT !.status = "queued", !.claimed = Window]
      BY <2>2 DEF Requeued
    <3>2. rows[i].status = "processing"
      BY <2>2 DEF Stale, With
    <3> QED
      BY <1>1, <2>1, <3>1, <3>2 DEF Row
  <2>3. CASE i \notin Stale
    BY <2>1, <2>3 DEF Requeued
  <2> QED
    BY <2>2, <2>3
<1>3. Expired \subseteq Ids /\ \A i \in Expired : rows[i].status \in {"done", "failed"}
  BY DEF Expired, With
<1>4. \A i \in Ids : Purged[i] = IF i \in Expired THEN NoRow("gone") ELSE rows[i]
  BY DEF Purged
<1>5. \A i \in Ids : Purged[i] \in Row
  BY <1>4, NewRow DEF Rows
<1>6. Requeued \in Rows
  BY <1>2 DEF Requeued, Rows
<1>7. Purged \in Rows
  BY <1>5 DEF Purged, Rows
<1> QED
  BY <1>2, <1>3, <1>4, <1>6, <1>7, NewRow

-----------------------------------------------------------------------------
(* What a step of the rows is to the promise. *)

\* The rows are as they were, or a row that waits has changed how it waits.
StillWaits ==
    \A i \in Ids : \/ rows'[i].status = rows[i].status
                   \/ rows[i].status \in {"queued", "processing"} /\ rows'[i].status \in {"queued", "processing"}

Accepted(i) ==
    /\ rows[i].status = "absent" /\ rows'[i].status = "queued"
    /\ \A j \in Ids \ {i} : rows'[j].status = rows[j].status

Settled(i) ==
    /\ rows[i].status = "processing" /\ rows'[i].status \in {"done", "failed"}
    /\ \A j \in Ids \ {i} : rows'[j].status = rows[j].status

Swept ==
    \A i \in Ids : \/ rows'[i].status = rows[i].status
                   \/ rows[i].status \in {"done", "failed"} /\ rows'[i].status = "gone"

LEMMA PromiseOf ==
    ASSUME rows \in Rows, NEW i \in Ids
    PROVE  /\ rows[i].status = "absent" <=> Promise[i] = "new"
           /\ rows[i].status \in {"queued", "processing"} <=> Promise[i] = "waiting"
           /\ rows[i].status \in {"done", "failed"} <=> Promise[i] = "settled"
           /\ rows[i].status = "gone" <=> Promise[i] = "swept"
<1>1. rows[i].status \in {"absent", "queued", "processing", "done", "failed", "gone"}
  BY DEF Rows, Row
<1> QED
  BY <1>1 DEF Promise

LEMMA Promised ==
    ASSUME rows \in Rows, rows' \in Rows,
           StillWaits \/ (\E i \in Ids : Accepted(i) \/ Settled(i)) \/ Swept
    PROVE  [Queue!Next]_Promise
<1>1. \A i \in Ids : /\ rows[i].status = "absent" <=> Promise[i] = "new"
                     /\ rows[i].status \in {"queued", "processing"} <=> Promise[i] = "waiting"
                     /\ rows[i].status \in {"done", "failed"} <=> Promise[i] = "settled"
                     /\ rows[i].status = "gone" <=> Promise[i] = "swept"
                     /\ rows[i].status \in {"absent", "queued", "processing", "done", "failed", "gone"}
  BY PromiseOf DEF Rows, Row
<1>2. \A i \in Ids : /\ rows'[i].status = "absent" <=> Promise'[i] = "new"
                     /\ rows'[i].status \in {"queued", "processing"} <=> Promise'[i] = "waiting"
                     /\ rows'[i].status \in {"done", "failed"} <=> Promise'[i] = "settled"
                     /\ rows'[i].status = "gone" <=> Promise'[i] = "swept"
                     /\ rows'[i].status \in {"absent", "queued", "processing", "done", "failed", "gone"}
  <2>1. \A i \in Ids : rows'[i].status \in {"absent", "queued", "processing", "done", "failed", "gone"}
    BY DEF Rows, Row
  <2> QED
    BY <2>1 DEF Promise
<1>3. Promise \in [Ids -> Queue!State] /\ Promise' \in [Ids -> Queue!State]
  <2>1. \A i \in Ids : /\ rows[i].status \in {"absent", "queued", "processing", "done", "failed", "gone"}
                       /\ rows'[i].status \in {"absent", "queued", "processing", "done", "failed", "gone"}
    BY <1>1, <1>2
  <2> QED
    BY <2>1 DEF Promise, Queue!State
<1>4. CASE StillWaits
  <2>1. \A i \in Ids : Promise'[i] = Promise[i]
    BY <1>1, <1>2, <1>4 DEF StillWaits
  <2>2. Promise' = Promise
    BY <1>3, <2>1
  <2> QED
    BY <2>2
<1>5. ASSUME NEW i \in Ids, Accepted(i) PROVE Queue!Accept(i)
  <2>1. Promise[i] = "new" /\ Promise'[i] = "waiting" /\ \A j \in Ids \ {i} : Promise'[j] = Promise[j]
    BY <1>1, <1>2, <1>5 DEF Accepted
  <2>2. Promise' = [Promise EXCEPT ![i] = "waiting"]
    BY <1>3, <2>1
  <2> QED
    BY <2>1, <2>2 DEF Queue!Accept
<1>6. ASSUME NEW i \in Ids, Settled(i) PROVE Queue!Settle(i)
  <2>1. Promise[i] = "waiting" /\ Promise'[i] = "settled" /\ \A j \in Ids \ {i} : Promise'[j] = Promise[j]
    BY <1>1, <1>2, <1>6 DEF Settled
  <2>2. Promise' = [Promise EXCEPT ![i] = "settled"]
    BY <1>3, <2>1
  <2> QED
    BY <2>1, <2>2 DEF Queue!Settle
<1>7. CASE Swept
  <2> DEFINE S == {i \in Ids : rows[i].status # rows'[i].status}
  <2>1. S \in SUBSET {i \in Ids : Promise[i] = "settled"}
    BY <1>1, <1>7 DEF Swept
  <2>2. \A i \in Ids : Promise'[i] = IF i \in S THEN "swept" ELSE Promise[i]
    BY <1>1, <1>2, <1>7 DEF Swept
  <2> HIDE DEF S
  <2>3. Promise' = [i \in Ids |-> IF i \in S THEN "swept" ELSE Promise[i]]
    BY <1>3, <2>2
  <2>4. Queue!Sweep
    BY <2>1, <2>3 DEF Queue!Sweep
  <2> QED
    BY <2>4 DEF Queue!Next
<1> QED
  BY <1>4, <1>5, <1>6, <1>7 DEF Queue!Next

-----------------------------------------------------------------------------
(* The steps.  Each keeps the invariant and the promise. *)

Kept == StillWaits \/ (\E i \in Ids : Accepted(i) \/ Settled(i)) \/ Swept

LEMMA Initially == Init => IInv
<1> SUFFICES ASSUME Init PROVE IInv
  OBVIOUS
<1>2. TypeOK
  <2>1. rows \in [Ids -> Row]
    BY NewRow DEF Init
  <2>2. pass \in [Callers -> Pass]
    BY DEF Init, Idle, Pass
  <2>3. up \in BOOLEAN /\ running \in BOOLEAN /\ purging \in BOOLEAN
    BY Zenon DEF Init
  <2>4. faults \in 0 .. MaxFaults /\ stored \in [Ids -> Nat]
    BY CaptureAssumption DEF Init
  <2> QED
    BY <2>1, <2>2, <2>3, <2>4 DEF TypeOK
<1>3. OnePass /\ RowsHeld
  BY DEF Init, Idle, OnePass, RowsHeld
<1> QED
  BY <1>2, <1>3 DEF IInv

\* Steps that leave the passes alone: a client's turn, the purge, the start, the clock.
LEMMA RowsStep ==
    ASSUME IInv, rows' \in Rows, UNCHANGED <<running, pass, stored>>, up => up',
           faults' \in {faults, faults + 1}, faults' \in 0 .. MaxFaults,
           up' \in BOOLEAN, purging' \in BOOLEAN,
           \A i \in Ids : rows[i].status = "processing" => rows'[i].status = "processing"
    PROVE  IInv'
<1>1. faults \in Nat /\ rows \in Rows /\ pass \in [Callers -> Pass] /\ stored \in [Ids -> Nat]
  BY DEF IInv, TypeOK, Rows
<1>2. TypeOK'
  BY DEF IInv, TypeOK, Rows
<1>3. OnePass'
  BY DEF IInv, OnePass
<1>4. RowsHeld'
  BY <1>1 DEF IInv, RowsHeld, Pass
<1> QED
  BY <1>2, <1>3, <1>4 DEF IInv

LEMMA EnqueueKeeps == ASSUME IInv, Enqueue PROVE IInv' /\ Kept
<1>1. /\ rows \in Rows /\ UNCHANGED <<up, running, pass, purging, stored, faults>>
      /\ up \in BOOLEAN /\ purging \in BOOLEAN /\ faults \in 0 .. MaxFaults
  BY DEF Enqueue, IInv, TypeOK, Rows
<1>2. PICK x : rows' = Offered(x)
  BY DEF Enqueue
<1>3. /\ rows' \in Rows
      /\ \/ rows' = rows
         \/ \E i \in Ids : /\ rows[i].status = "absent" /\ rows'[i].status = "queued"
                          /\ \A j \in Ids \ {i} : rows'[j] = rows[j]
  BY <1>1, <1>2, OfferedFacts
<1>4. Kept
  BY <1>3 DEF Kept, StillWaits, Accepted
<1>5. \A i \in Ids : rows[i].status = "processing" => rows'[i].status = "processing"
  BY <1>3
<1> QED
  BY <1>1, <1>3, <1>4, <1>5, RowsStep

LEMMA TickKeeps == ASSUME IInv, Tick PROVE IInv' /\ Kept
<1>1. /\ rows \in Rows /\ UNCHANGED <<up, running, pass, purging, stored, faults>>
      /\ up \in BOOLEAN /\ purging \in BOOLEAN /\ faults \in 0 .. MaxFaults
  BY DEF Tick, IInv, TypeOK, Rows
<1>2. ASSUME NEW i \in Ids PROVE rows'[i] \in Row /\ rows'[i].status = rows[i].status
  <2> DEFINE cl == Lower(rows[i].claimed + 1, Window)
             ag == IF rows[i].status \in {"absent", "gone"} THEN rows[i].age
                   ELSE Lower(rows[i].age + 1, Retain + 1)
  <2>1. rows[i] \in Row
    BY <1>1 DEF Rows
  <2>2. rows'[i] = [rows[i] EXCEPT !.claimed = cl, !.age = ag]
    BY DEF Tick
  <2>3. cl \in 0 .. Window
    BY <2>1, CaptureAssumption DEF Lower, Row
  <2>4. ag \in 0 .. Retain + 1
    BY <2>1, CaptureAssumption DEF Lower, Row
  <2> HIDE DEF cl, ag
  <2> QED
    BY <2>1, <2>2, <2>3, <2>4 DEF Row
<1>3. rows' \in Rows
  BY <1>2 DEF Tick, Rows
<1>4. Kept
  BY <1>2 DEF Kept, StillWaits
<1>5. \A i \in Ids : rows[i].status = "processing" => rows'[i].status = "processing"
  BY <1>2
<1> QED
  BY <1>1, <1>3, <1>4, <1>5, RowsStep

LEMMA StartKeeps == ASSUME IInv, Start \/ Purge PROVE IInv' /\ Kept
<1>1. /\ rows \in Rows /\ UNCHANGED <<running, pass, stored>>
      /\ up \in BOOLEAN /\ faults \in 0 .. MaxFaults /\ faults \in Nat
  BY DEF Start, Purge, IInv, TypeOK, Rows
<1>2. up' \in BOOLEAN /\ purging' \in BOOLEAN /\ (up => up')
  BY <1>1, Zenon DEF Start, Purge
<1>3. faults' \in {faults, faults + 1} /\ faults' \in 0 .. MaxFaults
  BY <1>1, CaptureAssumption DEF Start, Purge, Fault
<1>4. rows' = rows \/ rows' = Purged
  BY DEF Start, Purge
<1>5. /\ Purged \in Rows
      /\ \A i \in Ids : \/ Purged[i] = rows[i]
                        \/ rows[i].status \in {"done", "failed"} /\ Purged[i].status = "gone"
  BY <1>1, SweepFacts
<1>6. rows' \in Rows /\ Kept
  BY <1>1, <1>4, <1>5 DEF Kept, StillWaits, Swept
<1>7. \A i \in Ids : rows[i].status = "processing" => rows'[i].status = "processing"
  BY <1>4, <1>5
<1> QED
  BY <1>1, <1>2, <1>3, <1>6, <1>7, RowsStep

\* Steps of the one pass that runs, or begins to: what it goes on with is processing.
LEMMA PassStep ==
    ASSUME IInv, NEW c \in Callers, NEW p \in Pass, up, UNCHANGED up,
           \A d \in Callers \ {c} : pass[d].at = "idle",
           pass' = [pass EXCEPT ![c] = p], p.at # "idle" => running',
           p.at \in {"idle", "requeue", "claim"} <=> p.batch = {},
           \A i \in p.batch : rows'[i].status = "processing"
    PROVE  OnePass' /\ RowsHeld' /\ pass' \in [Callers -> Pass]
<1>1. pass \in [Callers -> Pass]
  BY DEF IInv, TypeOK
<1>2. pass'[c] = p /\ \A d \in Callers \ {c} : pass'[d] = pass[d] /\ pass[d].batch = {}
  BY <1>1 DEF IInv, OnePass
<1>3. pass' \in [Callers -> Pass]
  BY <1>1
<1>4. OnePass'
  BY <1>2 DEF IInv, OnePass
<1>5. RowsHeld'
  BY <1>2 DEF RowsHeld
<1> QED
  BY <1>3, <1>4, <1>5

LEMMA LoseKeeps == ASSUME IInv, Lose PROVE IInv' /\ Kept
<1>1. /\ UNCHANGED <<rows, stored>> /\ pass' = [c \in Callers |-> Idle]
      /\ faults \in 0 .. MaxFaults /\ faults < MaxFaults /\ faults' = faults + 1
  BY DEF Lose, Fault, IInv, TypeOK
<1>2. up' \in BOOLEAN /\ running' \in BOOLEAN /\ purging' \in BOOLEAN
  BY Zenon DEF Lose
<1>3. \A c \in Callers : pass'[c] = Idle
  BY <1>1
<1>4. TypeOK'
  <2>1. pass' \in [Callers -> Pass]
    BY <1>1 DEF Idle, Pass
  <2>2. faults' \in 0 .. MaxFaults
    BY <1>1, CaptureAssumption
  <2> QED
    BY <1>1, <1>2, <2>1, <2>2 DEF IInv, TypeOK
<1>5. OnePass' /\ RowsHeld'
  BY <1>3 DEF OnePass, RowsHeld, Idle
<1>6. Kept
  BY <1>1 DEF Kept, StillWaits
<1> QED
  BY <1>4, <1>5, <1>6 DEF IInv

LEMMA BeginKeeps == ASSUME IInv, NEW c \in Callers, Begin(c) PROVE IInv' /\ Kept
<1> DEFINE p == [pass[c] EXCEPT !.at = "requeue"]
<1>1. /\ UNCHANGED <<rows, up, purging, stored, faults>> /\ up /\ ~ running
      /\ pass' = [pass EXCEPT ![c] = p] /\ pass[c].at = "idle"
      /\ pass \in [Callers -> Pass] /\ faults \in Nat
  BY DEF Begin, At, IInv, TypeOK
<1>2. \A d \in Callers : pass[d].at = "idle"
  BY <1>1 DEF IInv, OnePass
<1>3. p \in Pass /\ p.at = "requeue" /\ p.batch = {}
  BY <1>1 DEF Pass, IInv, OnePass
<1>4. running' = TRUE /\ running' \in BOOLEAN
  BY Zenon DEF Begin
<1> HIDE DEF p
<1>5. OnePass' /\ RowsHeld' /\ pass' \in [Callers -> Pass]
  BY <1>1, <1>2, <1>3, <1>4, PassStep
<1>6. TypeOK'
  BY <1>1, <1>4, <1>5 DEF IInv, TypeOK
<1>7. Kept
  BY <1>1 DEF Kept, StillWaits
<1> QED
  BY <1>5, <1>6, <1>7 DEF IInv

\* While a pass runs it is the only one, and what it has in hand is a row of its batch.
LEMMA TheOnePass ==
    ASSUME IInv, NEW c \in Callers, pass[c].at # "idle"
    PROVE  /\ \A d \in Callers \ {c} : pass[d].at = "idle"
           /\ up /\ running
           /\ pass[c].at \in {"distil", "complete", "release"} =>
                 /\ Current(c) \in pass[c].batch /\ Current(c) \in Ids
                 /\ rows[Current(c)].status = "processing"
<1>1. pass[c] \in Pass
  BY DEF IInv, TypeOK
<1>2. /\ \A d \in Callers \ {c} : pass[d].at = "idle"
      /\ up /\ running
  BY DEF IInv, OnePass
<1>3. ASSUME pass[c].at \in {"distil", "complete", "release"}
      PROVE  Current(c) \in pass[c].batch
  <2>1. pass[c].batch # {} /\ pass[c].batch \in SUBSET Ids
    BY <1>1, <1>3 DEF IInv, OnePass, Pass
  <2> QED
    BY <2>1, LeastIsIn DEF Current
<1> QED
  BY <1>1, <1>2, <1>3 DEF IInv, RowsHeld, Pass

LEMMA RequeueKeeps == ASSUME IInv, NEW c \in Callers, Requeue(c) PROVE IInv' /\ Kept
<1> DEFINE p == [pass[c] EXCEPT !.at = "claim"]
<1>1. /\ UNCHANGED <<up, running, purging, stored>> /\ pass' = [pass EXCEPT ![c] = p]
      /\ pass[c].at = "requeue" /\ pass[c] \in Pass /\ rows \in Rows /\ faults \in 0 .. MaxFaults
  BY DEF Requeue, At, IInv, TypeOK, Rows
<1>2. /\ \A d \in Callers \ {c} : pass[d].at = "idle"
      /\ up /\ running
  BY <1>1, TheOnePass
<1>3. p \in Pass /\ p.at = "claim" /\ p.batch = {}
  BY <1>1 DEF Pass, IInv, OnePass
<1> HIDE DEF p
<1>4. OnePass' /\ RowsHeld' /\ pass' \in [Callers -> Pass]
  BY <1>1, <1>2, <1>3, PassStep
<1>5. /\ rows' \in Rows
      /\ \A i \in Ids : rows'[i] = rows[i] \/ (rows[i].status = "processing" /\ rows'[i].status = "queued")
  <2>1. rows' = Requeued \/ rows' = rows
    BY DEF Requeue
  <2> QED
    BY <1>1, <2>1, SweepFacts
<1>6. Kept
  BY <1>5 DEF Kept, StillWaits
<1>7. faults' \in 0 .. MaxFaults
  BY <1>1, CaptureAssumption DEF Requeue, Fault
<1>8. TypeOK'
  BY <1>1, <1>4, <1>5, <1>7 DEF IInv, TypeOK, Rows
<1> QED
  BY <1>4, <1>6, <1>8 DEF IInv

\* What a pass goes on with.
LEMMA GoesOnFacts ==
    ASSUME NEW c \in Callers, NEW B \in SUBSET Ids, pass \in [Callers -> Pass], GoesOn(c, B)
    PROVE  /\ running' \in BOOLEAN /\ (B # {} => running')
           /\ \E p \in Pass : /\ pass' = [pass EXCEPT ![c] = p]
                              /\ p.batch = B /\ p.at = IF B = {} THEN "idle" ELSE "distil"
<1> DEFINE p == IF B = {} THEN Idle ELSE [at |-> "distil", batch |-> B]
<1>1. p \in Pass /\ p.batch = B /\ p.at = IF B = {} THEN "idle" ELSE "distil"
  BY DEF Pass, Idle
<1>2. running' \in BOOLEAN /\ (B # {} => running')
  BY Zenon DEF GoesOn
<1>3. pass' = [pass EXCEPT ![c] = p]
  BY DEF GoesOn
<1> QED
  BY <1>1, <1>2, <1>3

LEMMA ClaimKeeps == ASSUME IInv, NEW c \in Callers, Claim(c) PROVE IInv' /\ Kept
<1>1. /\ UNCHANGED <<up, purging, stored>> /\ pass[c].at = "claim"
      /\ pass \in [Callers -> Pass] /\ rows \in Rows /\ faults \in 0 .. MaxFaults
  BY DEF Claim, At, IInv, TypeOK, Rows
<1>2. /\ \A d \in Callers \ {c} : pass[d].at = "idle"
      /\ up
  BY <1>1, TheOnePass
<1>3. PICK S, B : /\ S \subseteq With("queued") /\ B \in {S, {}} /\ rows' = Claimed(S) /\ GoesOn(c, B)
                  /\ \/ UNCHANGED faults
                     \/ Fault
  <2>1. PICK T \in Batches :
          \/ rows' = Claimed(T) /\ GoesOn(c, T) /\ UNCHANGED faults
          \/ /\ \E P \in SUBSET T : (\A i \in P, j \in T \ P : i < j) /\ rows' = Claimed(P)
             /\ GoesOn(c, {}) /\ Fault
    BY DEF Claim
  <2>2. T \subseteq With("queued")
    BY DEF Batches
  <2> QED
    BY <2>1, <2>2
<1>4. S \in SUBSET Ids /\ B \in SUBSET Ids /\ \A i \in S : rows[i].status = "queued"
  BY <1>3 DEF With
<1>5. /\ rows' \in Rows
      /\ \A i \in S : rows'[i].status = "processing"
      /\ \A i \in Ids \ S : rows'[i] = rows[i]
  BY <1>1, <1>3, <1>4, ClaimedFacts
<1>6. PICK p \in Pass : /\ pass' = [pass EXCEPT ![c] = p]
                        /\ p.batch = B /\ p.at = IF B = {} THEN "idle" ELSE "distil"
  BY <1>1, <1>3, <1>4, GoesOnFacts
<1>7. running' \in BOOLEAN /\ (B # {} => running')
  BY <1>1, <1>3, <1>4, GoesOnFacts
<1>8. OnePass' /\ RowsHeld' /\ pass' \in [Callers -> Pass]
  <2>1. \A i \in p.batch : rows'[i].status = "processing"
    BY <1>3, <1>5, <1>6
  <2>2. p.at # "idle" => running'
    BY <1>6, <1>7
  <2>3. p.at \in {"idle", "requeue", "claim"} <=> p.batch = {}
    BY <1>6
  <2> QED
    BY <1>1, <1>2, <1>6, <2>1, <2>2, <2>3, PassStep
<1>9. Kept
  BY <1>4, <1>5 DEF Kept, StillWaits
<1>10. faults' \in 0 .. MaxFaults
  BY <1>1, <1>3, CaptureAssumption DEF Fault
<1>11. TypeOK'
  BY <1>1, <1>5, <1>7, <1>8, <1>10 DEF IInv, TypeOK, Rows
<1> QED
  BY <1>8, <1>9, <1>11 DEF IInv

LEMMA DistilKeeps == ASSUME IInv, NEW c \in Callers, Distil(c) PROVE IInv' /\ Kept
<1> DEFINE p == [pass[c] EXCEPT !.at = "complete"]
<1>1. /\ UNCHANGED <<up, running, purging>> /\ pass' = [pass EXCEPT ![c] = p]
      /\ pass[c].at = "distil" /\ pass[c] \in Pass /\ rows \in Rows
      /\ faults \in 0 .. MaxFaults /\ stored \in [Ids -> Nat] /\ rows' = Offered(OwnCall)
  BY DEF Distil, At, IInv, TypeOK, Rows
<1>2. /\ \A d \in Callers \ {c} : pass[d].at = "idle"
      /\ up /\ running
      /\ Current(c) \in Ids /\ rows[Current(c)].status = "processing"
  BY <1>1, TheOnePass
<1>3. p \in Pass /\ p.at = "complete" /\ p.batch = pass[c].batch /\ p.batch # {}
  BY <1>1 DEF Pass, IInv, OnePass
<1> HIDE DEF p
<1>4. /\ rows' \in Rows
      /\ \/ rows' = rows
         \/ \E i \in Ids : /\ rows[i].status = "absent" /\ rows'[i].status = "queued"
                          /\ \A j \in Ids \ {i} : rows'[j] = rows[j]
  BY <1>1, OfferedFacts
<1>5. Kept
  BY <1>4 DEF Kept, StillWaits, Accepted
<1>6. \A i \in Ids : rows[i].status = "processing" => rows'[i].status = "processing"
  BY <1>4
<1>7. \A i \in p.batch : rows'[i].status = "processing"
  BY <1>1, <1>3, <1>6 DEF IInv, RowsHeld, Pass
<1>8. OnePass' /\ RowsHeld' /\ pass' \in [Callers -> Pass]
  BY <1>1, <1>2, <1>3, <1>7, PassStep
<1>9. stored' \in [Ids -> Nat] /\ faults' \in 0 .. MaxFaults
  <2>1. CASE stored' = [stored EXCEPT ![Current(c)] = @ + 1] /\ UNCHANGED faults
    BY <1>1, <1>2, <2>1
  <2>2. CASE UNCHANGED stored /\ Fault
    BY <1>1, <2>2, CaptureAssumption DEF Fault
  <2> QED
    BY <2>1, <2>2 DEF Distil
<1>10. TypeOK'
  BY <1>1, <1>4, <1>8, <1>9 DEF IInv, TypeOK, Rows
<1> QED
  BY <1>5, <1>8, <1>10 DEF IInv

LEMMA DistilFailsKeeps == ASSUME IInv, NEW c \in Callers, DistilFails(c) PROVE IInv' /\ Kept
<1> DEFINE p == [pass[c] EXCEPT !.at = "release"]
<1>1. /\ UNCHANGED <<rows, up, running, purging, stored, faults>>
      /\ pass' = [pass EXCEPT ![c] = p] /\ pass[c].at = "distil" /\ pass[c] \in Pass /\ rows \in Rows
  BY DEF DistilFails, At, IInv, TypeOK, Rows
<1>2. /\ \A d \in Callers \ {c} : pass[d].at = "idle"
      /\ up /\ running
  BY <1>1, TheOnePass
<1>3. p \in Pass /\ p.at = "release" /\ p.batch = pass[c].batch /\ p.batch # {}
  BY <1>1 DEF Pass, IInv, OnePass
<1> HIDE DEF p
<1>4. \A i \in p.batch : rows'[i].status = "processing"
  BY <1>1, <1>3 DEF IInv, RowsHeld
<1>5. OnePass' /\ RowsHeld' /\ pass' \in [Callers -> Pass]
  BY <1>1, <1>2, <1>3, <1>4, PassStep
<1>6. TypeOK'
  BY <1>1, <1>5 DEF IInv, TypeOK
<1>7. Kept
  BY <1>1 DEF Kept, StillWaits
<1> QED
  BY <1>5, <1>6, <1>7 DEF IInv

LEMMA ReportKeeps ==
    ASSUME IInv, NEW c \in Callers, Complete(c) \/ Release(c)
    PROVE  IInv' /\ Kept
<1> DEFINE k == Current(c)
           B == pass[c].batch \ {k}
<1>1. /\ UNCHANGED <<up, purging, stored>> /\ pass[c].at \in {"complete", "release"}
      /\ GoesOn(c, B) /\ pass \in [Callers -> Pass] /\ rows \in Rows /\ faults \in 0 .. MaxFaults
  BY DEF Complete, Release, Report, At, IInv, TypeOK, Rows
<1>2. \/ UNCHANGED rows /\ Fault
      \/ UNCHANGED faults /\ rows' = Completed(k)
      \/ UNCHANGED faults /\ rows' = Released(k) /\ pass[c].at = "release"
  BY DEF Complete, Release, Report, At
<1>3. /\ \A d \in Callers \ {c} : pass[d].at = "idle"
      /\ up /\ k \in pass[c].batch /\ k \in Ids /\ rows[k].status = "processing"
  BY <1>1, TheOnePass
<1>4. B \in SUBSET Ids /\ k \notin B /\ \A i \in B : rows[i].status = "processing"
  BY <1>1 DEF Pass, IInv, RowsHeld
<1> HIDE DEF k, B
<1>5. /\ Completed(k) \in Rows /\ Released(k) \in Rows
      /\ \A j \in Ids \ {k} : Completed(k)[j] = rows[j] /\ Released(k)[j] = rows[j]
      /\ Completed(k)[k].status = "done" /\ Released(k)[k].status \in {"queued", "failed"}
  BY <1>1, <1>3, ReportFacts
<1>6. rows' \in Rows /\ \A j \in Ids \ {k} : rows'[j] = rows[j]
  BY <1>1, <1>2, <1>5
<1>7. PICK p \in Pass : /\ pass' = [pass EXCEPT ![c] = p]
                        /\ p.batch = B /\ p.at = IF B = {} THEN "idle" ELSE "distil"
  BY <1>1, <1>4, GoesOnFacts
<1>8. running' \in BOOLEAN /\ (B # {} => running')
  BY <1>1, <1>4, GoesOnFacts
<1>9. OnePass' /\ RowsHeld' /\ pass' \in [Callers -> Pass]
  <2>1. \A i \in p.batch : rows'[i].status = "processing"
    BY <1>4, <1>6, <1>7
  <2>2. p.at # "idle" => running'
    BY <1>7, <1>8
  <2>3. p.at \in {"idle", "requeue", "claim"} <=> p.batch = {}
    BY <1>7
  <2> QED
    BY <1>1, <1>3, <1>7, <2>1, <2>2, <2>3, PassStep
<1>10. faults' \in 0 .. MaxFaults
  BY <1>1, <1>2, CaptureAssumption DEF Fault
<1>11. TypeOK'
  BY <1>1, <1>6, <1>8, <1>9, <1>10 DEF IInv, TypeOK, Rows
<1>12. Kept
  <2>1. rows' = rows => StillWaits
    BY DEF StillWaits
  <2>2. rows' = Completed(k) => Settled(k)
    BY <1>3, <1>5 DEF Settled
  <2>3. rows' = Released(k) => StillWaits \/ Settled(k)
    BY <1>3, <1>5 DEF Settled, StillWaits
  <2> QED
    BY <1>2, <1>3, <2>1, <2>2, <2>3 DEF Kept
<1> QED
  BY <1>9, <1>11, <1>12 DEF IInv

LEMMA StepKeeps == ASSUME IInv, [Next]_vars PROVE IInv' /\ Kept
<1>1. CASE Enqueue
  BY <1>1, EnqueueKeeps
<1>2. CASE Start \/ Purge
  BY <1>2, StartKeeps
<1>3. CASE Lose
  BY <1>3, LoseKeeps
<1>4. CASE Tick
  BY <1>4, TickKeeps
<1>5. ASSUME NEW c \in Callers, Drain(c) PROVE IInv' /\ Kept
  BY <1>5, BeginKeeps, RequeueKeeps, ClaimKeeps, DistilKeeps, DistilFailsKeeps, ReportKeeps DEF Drain
<1>6. CASE UNCHANGED vars
  <2>1. Kept
    BY <1>6 DEF vars, Kept, StillWaits
  <2>2. /\ rows' = rows /\ up' = up /\ running' = running /\ pass' = pass
        /\ purging' = purging /\ stored' = stored /\ faults' = faults
    BY <1>6 DEF vars
  <2>3. TypeOK' /\ OnePass' /\ RowsHeld'
    BY <2>2 DEF IInv, TypeOK, OnePass, RowsHeld
  <2> QED
    BY <2>1, <2>3 DEF IInv
<1> QED
  BY <1>1, <1>2, <1>3, <1>4, <1>5, <1>6 DEF Next

-----------------------------------------------------------------------------
(* The theorems. *)

\* The invariant of the capture queue: one pass, and its rows processing.
THEOREM Invariance == Spec => []IInv
<1>1. Init => IInv
  BY Initially
<1>2. IInv /\ [Next]_vars => IInv'
  BY StepKeeps
<1> QED
  BY <1>1, <1>2, PTL DEF Spec

\* Every variable has its type.
THEOREM TypeCorrect == Spec => []TypeOK
<1>1. IInv => TypeOK
  BY DEF IInv
<1> QED
  BY <1>1, Invariance, PTL

\* drain.ts:56-64: whatever a pass still has to do is marked processing and is that pass's alone,
\* for any number of callers and however long a pass takes.
THEOREM BatchIsHeld == Spec => []HeldIsProcessing
<1>1. IInv => HeldIsProcessing
  BY DEF IInv, OnePass, RowsHeld, HeldIsProcessing
<1> QED
  BY <1>1, Invariance, PTL

\* drain.ts:12-14, capture.rs:688-689: the table keeps the safety half of the queue's promise: a
\* turn waits until it is settled, is settled once, and is swept away only afterwards.
THEOREM KeepsThePromise == Spec => Queue!Safe
<1>1. Init => Queue!Init
  <2> SUFFICES ASSUME Init PROVE Queue!Init
    OBVIOUS
  <2>1. \A i \in Ids : rows[i].status = "absent"
    BY NewRow DEF Init
  <2> QED
    BY <2>1 DEF Queue!Init, Promise
<1>2. IInv /\ IInv' /\ [Next]_vars => [Queue!Next]_Promise
  <2> SUFFICES ASSUME IInv, IInv', [Next]_vars PROVE [Queue!Next]_Promise
    OBVIOUS
  <2>1. rows \in Rows /\ rows' \in Rows
    BY DEF IInv, TypeOK, Rows
  <2>2. Kept
    BY StepKeeps
  <2> QED
    BY <2>1, <2>2, Promised DEF Kept
<1> QED
  BY <1>1, <1>2, Invariance, PTL DEF Spec, Queue!Safe
=============================================================================
