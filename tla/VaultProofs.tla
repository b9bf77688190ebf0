----------------------------- MODULE VaultProofs -----------------------------
(***************************************************************************)
(* The secrets file under any number of processes and accounts: one writer *)
(* at a time, a write that lands, and no write that costs another process  *)
(* an account.                                                             *)
(*                                                                         *)
(* Between the load and the save of a write nothing moves: the file lock   *)
(* keeps the file as it was read, and `ops' keeps the copy as it was       *)
(* changed.  Saving says so, and both action properties follow from it.    *)
(***************************************************************************)
EXTENDS Vault, TLAPS

Saving ==
    \A p \in Procs :
        call[p].pc = "save" =>
            /\ map[p][call[p].account] = call[p].value
            /\ ~ call[p].blind => seen[p] = file

Inv == TypeOK /\ Saving

\* The records the steps build have their types.
LEMMA Shapes ==
    /\ NoSecrets \in Map
    /\ NoFile \in Bytes /\ NoFile.map = NoSecrets
    /\ NoCall \in Call /\ NoCall.pc = "idle"
    /\ [NoCall EXCEPT !.pc = "ok"] \in Call /\ [NoCall EXCEPT !.pc = "ok"].pc = "ok"
    /\ \A m \in Map : Encodings(m) \subseteq Bytes /\ \A b \in Encodings(m) : b.map = m
<1>1. NoSecrets \in Map
  BY DEF NoSecrets, Map
<1>2. NoFile \in Bytes /\ NoFile.map = NoSecrets
  BY <1>1, VaultAssumption DEF NoFile, Bytes
<1>3. (CHOOSE a \in Accounts : TRUE) \in Accounts
  BY VaultAssumption
<1>4. NoCall \in Call /\ NoCall.pc = "idle"
  BY <1>3 DEF NoCall, Call
<1>5. [NoCall EXCEPT !.pc = "ok"] \in Call /\ [NoCall EXCEPT !.pc = "ok"].pc = "ok"
  BY <1>3 DEF NoCall, Call
<1>6. \A m \in Map : Encodings(m) \subseteq Bytes /\ \A b \in Encodings(m) : b.map = m
  <2>1. {1} \subseteq 0 .. Orders /\ 1 .. Orders \subseteq 0 .. Orders
    BY VaultAssumption
  <2>2. QED
    BY <2>1 DEF Encodings, Bytes
<1>7. QED
  BY <1>1, <1>2, <1>4, <1>5, <1>6

\* The invariant holds before any operation.
LEMMA InitInv == Init => Inv
  BY Shapes, VaultAssumption DEF Init, Inv, TypeOK, Saving

---------------------------------------------------------------------------
(* What each step changes. *)

\* A reader takes no step while its process is in a write.
LEMMA GetStep ==
    ASSUME Inv, NEW p \in Procs, Get(p)
    PROVE  Inv'
<1>1. PICK m \in {map[p], file.map} : Reload(p, m) /\ map' = [map EXCEPT ![p] = m]
  BY DEF Get
<1>2. m \in Map /\ UNCHANGED <<file, lock, call>> /\ call[p].pc \notin {"load", "save"}
  BY <1>1 DEF Get, OpsFree, Inv, TypeOK, Bytes
<1>3. map' \in [Procs -> Map] /\ seen' \in [Procs -> Bytes]
  BY <1>1, <1>2 DEF Reload, Inv, TypeOK
<1>4. TypeOK'
  BY <1>2, <1>3 DEF Inv, TypeOK
<1>5. \A q \in Procs : q # p => map'[q] = map[q] /\ seen'[q] = seen[q]
  BY <1>1 DEF Reload, Inv, TypeOK
<1>6. Saving'
  BY <1>2, <1>5 DEF Inv, Saving
<1>7. QED
  BY <1>4, <1>6 DEF Inv

\* Beginning a write and taking the lock for it keep the invariant.
LEMMA BeginStep ==
    ASSUME Inv, NEW p \in Procs, Begin(p) \/ Lock(p)
    PROVE  Inv'
<1>1. PICK c \in Call : c = call[p]
  BY DEF Inv, TypeOK
<1>2. UNCHANGED <<file, map, seen>>
  BY DEF Begin, Lock
<1>3. CASE Begin(p)
  <2>1. PICK a \in Accounts, v \in Secrets \cup {Absent} :
          call' = [call EXCEPT ![p] = [pc |-> "lock", account |-> a, value |-> v, blind |-> FALSE]]
    BY <1>3 DEF Begin
  <2>2. call' \in [Procs -> Call] /\ call'[p].pc = "lock"
    BY <2>1 DEF Inv, TypeOK, Call
  <2>3. \A q \in Procs : q # p => call'[q] = call[q]
    BY <2>1 DEF Inv, TypeOK
  <2>4. lock # p /\ lock' = lock
    BY <1>3 DEF Begin, Inv, TypeOK
  <2>5. QED
    BY <1>2, <2>2, <2>3, <2>4 DEF Inv, TypeOK, Saving
<1>4. CASE Lock(p)
  <2>1. call'[p] = [c EXCEPT !.pc = "load"] /\ \A q \in Procs : q # p => call'[q] = call[q]
    BY <1>1, <1>4 DEF Lock, Inv, TypeOK
  <2>2. call'[p] \in Call /\ call'[p].pc = "load"
    BY <1>1, <2>1 DEF Call
  <2>3. call' \in [Procs -> Call]
    BY <1>4, <2>1, <2>2 DEF Lock, Inv, TypeOK
  <2>4. lock = Nobody /\ lock' = p
    BY <1>4 DEF Lock, LockFree
  <2>5. \A q \in Procs : call'[q].pc \in {"load", "save"} <=> lock' = q
    BY <2>1, <2>2, <2>4, VaultAssumption DEF Inv, TypeOK
  <2>6. QED
    BY <1>2, <2>1, <2>2, <2>3, <2>4, <2>5 DEF Inv, TypeOK, Saving
<1>5. QED
  BY <1>3, <1>4

\* So does the reload under the lock: the copy then is the file's, but for one account.
LEMMA LoadStep ==
    ASSUME Inv, NEW p \in Procs, Load(p)
    PROVE  Inv'
<1>1. PICK m \in {map[p], file.map}, blind \in BOOLEAN :
        /\ IF blind THEN m = map[p] /\ UNCHANGED seen ELSE Reload(p, m)
        /\ map' = [map EXCEPT ![p] = [m EXCEPT ![call[p].account] = call[p].value]]
        /\ call' = [call EXCEPT ![p].pc = "save", ![p].blind = blind]
  BY DEF Load
<1>2. PICK c \in Call : c = call[p]
  BY DEF Inv, TypeOK
<1>3. call'[p] = [c EXCEPT !.pc = "save", !.blind = blind]
  BY <1>1, <1>2 DEF Inv, TypeOK
<1>4. /\ call'[p] \in Call /\ call'[p].pc = "save" /\ call'[p].blind = blind
      /\ call'[p].account = c.account /\ call'[p].value = c.value
      /\ c.account \in Accounts /\ c.value \in Secrets \cup {Absent}
  BY <1>2, <1>3 DEF Call
<1>5. m \in Map
  BY DEF Inv, TypeOK, Bytes
<1>6. [m EXCEPT ![c.account] = c.value] \in Map
  BY <1>4, <1>5 DEF Map
<1>7. /\ map' \in [Procs -> Map]
      /\ map'[p][c.account] = c.value
      /\ \A q \in Procs : q # p => map'[q] = map[q]
  <2>1. map' = [map EXCEPT ![p] = [m EXCEPT ![c.account] = c.value]]
    BY <1>1, <1>2
  <2>2. [m EXCEPT ![c.account] = c.value][c.account] = c.value
    BY <1>4, <1>5 DEF Map
  <2>3. QED
    BY <1>6, <2>1, <2>2 DEF Inv, TypeOK
<1>8. /\ seen' \in [Procs -> Bytes]
      /\ ~ blind => seen'[p] = file
      /\ \A q \in Procs : q # p => seen'[q] = seen[q]
  BY <1>1 DEF Reload, Inv, TypeOK
<1>9. call' \in [Procs -> Call] /\ \A q \in Procs : q # p => call'[q] = call[q]
  BY <1>1, <1>4 DEF Inv, TypeOK
<1>10. UNCHANGED <<file, lock>> /\ lock = p
  BY DEF Load, Inv, TypeOK
<1>11. TypeOK'
  BY <1>4, <1>7, <1>8, <1>9, <1>10 DEF Inv, TypeOK
<1>12. Saving'
  BY <1>2, <1>4, <1>7, <1>8, <1>9, <1>10 DEF Inv, Saving
<1>13. QED
  BY <1>11, <1>12 DEF Inv

\* The save lands what the reload prepared.
LEMMA SaveStep ==
    ASSUME Inv, NEW p \in Procs, Save(p)
    PROVE  Inv' /\ file'.map = map[p] /\ call[p].pc = "save"
<1>1. /\ file' \in Bytes /\ file'.map = map[p]
      /\ call[p].pc = "save" /\ lock = p /\ lock' = Nobody /\ UNCHANGED <<map, seen>>
  BY Shapes DEF Save, Inv, TypeOK
<1>2. /\ call' \in [Procs -> Call] /\ call'[p].pc = "ok"
      /\ \A q \in Procs : q # p => call'[q] = call[q] /\ call[q].pc \notin {"load", "save"}
  BY <1>1, Shapes DEF Save, Inv, TypeOK
<1>3. TypeOK'
  BY <1>1, <1>2, VaultAssumption DEF Inv, TypeOK
<1>4. Saving'
  BY <1>1, <1>2 DEF Inv, Saving
<1>5. QED
  BY <1>1, <1>3, <1>4 DEF Inv

\* A failure or a crash gives the lock back.
LEMMA StopStep ==
    ASSUME Inv, NEW p \in Procs, Fail(p) \/ Crash(p)
    PROVE  Inv' /\ call'[p].pc = "idle" /\ \A q \in Procs : q # p => call'[q] = call[q]
<1>1. /\ call' = [call EXCEPT ![p] = NoCall] /\ UNCHANGED file
      /\ lock' = IF lock = p THEN Nobody ELSE lock
  BY DEF Fail, Crash, Release
<1>2. /\ map' \in [Procs -> Map] /\ seen' \in [Procs -> Bytes]
      /\ \A q \in Procs : q # p => map'[q] = map[q] /\ seen'[q] = seen[q]
  BY Shapes DEF Fail, Crash, Inv, TypeOK
<1>3. /\ call' \in [Procs -> Call] /\ call'[p].pc = "idle"
      /\ \A q \in Procs : q # p => call'[q] = call[q]
  BY <1>1, Shapes DEF Inv, TypeOK
<1>4. TypeOK'
  BY <1>1, <1>2, <1>3, VaultAssumption DEF Inv, TypeOK
<1>5. Saving'
  BY <1>1, <1>2, <1>3 DEF Inv, Saving
<1>6. QED
  BY <1>3, <1>4, <1>5 DEF Inv

---------------------------------------------------------------------------

\* What the two action properties say of one process.
Keeps(p) ==
    call[p].pc = "save" /\ call'[p].pc = "ok" =>
        /\ file'.map[call[p].account] = call[p].value
        /\ ~ call[p].blind =>
              \A a \in Accounts \ Unsynced(p) : file'.map[a] = file.map[a]

\* Every step keeps the invariant and both promises of a write.
LEMMA InvStep == Inv /\ [Next]_vars => Inv' /\ \A p \in Procs : Keeps(p)
<1> SUFFICES ASSUME Inv, [Next]_vars PROVE Inv' /\ \A p \in Procs : Keeps(p)
  OBVIOUS
<1>1. ASSUME NEW p \in Procs, Save(p) PROVE Inv' /\ \A q \in Procs : Keeps(q)
  <2>1. Inv' /\ file'.map = map[p] /\ call[p].pc = "save"
    BY <1>1, SaveStep
  <2>2. \A q \in Procs : call[q].pc = "save" => q = p
    BY <1>1 DEF Save, Inv, TypeOK
  <2>3. Keeps(p)
    BY <2>1 DEF Keeps, Unsynced, Inv, Saving
  <2>4. QED
    BY <2>1, <2>2, <2>3 DEF Keeps
<1>2. ASSUME NEW p \in Procs, Fail(p) \/ Crash(p) PROVE Inv' /\ \A q \in Procs : Keeps(q)
  BY <1>2, StopStep DEF Keeps
<1>3. ASSUME NEW p \in Procs, Get(p) PROVE Inv' /\ \A q \in Procs : Keeps(q)
  BY <1>3, GetStep DEF Get, Keeps
<1>4. ASSUME NEW p \in Procs, Begin(p) \/ Lock(p) \/ Load(p)
      PROVE  Inv' /\ \A q \in Procs : Keeps(q)
  <2>1. Inv'
    BY <1>4, BeginStep, LoadStep
  <2>2. \A q \in Procs : q # p => call'[q] = call[q]
    BY <1>4 DEF Begin, Lock, Load, Inv, TypeOK
  <2>3. call[p].pc # "save"
    BY <1>4 DEF Begin, Lock, Load
  <2>4. QED
    BY <2>1, <2>2, <2>3 DEF Keeps
<1>5. CASE UNCHANGED vars
  BY <1>5 DEF vars, Inv, TypeOK, Saving, Keeps
<1>6. QED
  BY <1>1, <1>2, <1>3, <1>4, <1>5 DEF Next, Write

\* The file lock is held by the one process that is past taking it.
THEOREM OneWriter == Spec => []TypeOK
  BY InitInv, InvStep, PTL DEF Spec, Inv

\* A write that returned Ok is in the file.
THEOREM WritesLand == Spec => WriteLands
<1>1. Inv /\ [Next]_vars =>
        [\A p \in Procs :
            call[p].pc = "save" /\ call'[p].pc = "ok"
            => file'.map[call[p].account] = call[p].value]_vars
  BY InvStep DEF Keeps
<1>2. QED
  BY InitInv, InvStep, <1>1, PTL DEF Spec, WriteLands

\* No write of one process costs another one an account.
THEOREM NoLostUpdate == Spec => OthersSurvive
<1>1. Inv /\ [Next]_vars =>
        [\A p \in Procs :
            call[p].pc = "save" /\ call'[p].pc = "ok" /\ ~ call[p].blind
            => \A a \in Accounts \ Unsynced(p) : file'.map[a] = file.map[a]]_vars
  BY InvStep DEF Keeps
<1>2. QED
  BY InitInv, InvStep, <1>1, PTL DEF Spec, OthersSurvive
=============================================================================
