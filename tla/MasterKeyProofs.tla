--------------------------- MODULE MasterKeyProofs ---------------------------
(***************************************************************************)
(* The cache of the master key, for any number of processes, requests and  *)
(* writes: one load at a time, no step back, and no answer older than what *)
(* this process had settled when the call began.                           *)
(*                                                                         *)
(* The argument is about stamps.  A value carries the generation that was  *)
(* read before it was loaded.  A rotation writes the file, then moves the  *)
(* generation: whoever read the generation after that loads at least what  *)
(* the rotation wrote, and whatever was loaded earlier carries an earlier  *)
(* stamp.                                                                  *)
(***************************************************************************)
EXTENDS MasterKeyCache, TLAPS

\* The versions grow from the cache to the file.
OrderInv ==
    \A p \in Procs :
        /\ state[p].value <= read[p]
        /\ read[p] <= file
        /\ settled[p] <= read[p]
        /\ writer[p] <= read[p]
        /\ writer[p] # 0 => settled[p] <= writer[p]

\* One load at a time, and what it found is not older than what the cache has.
LoadInv ==
    \A t \in Callers :
        loader[t].pc # "idle" =>
            /\ state[ProcOf[t]].loading
            /\ loader[t].generation <= generation[ProcOf[t]]
            /\ loader[t].pc = "store" =>
                  /\ state[ProcOf[t]].value <= loader[t].found
                  /\ loader[t].found <= read[ProcOf[t]]
                  /\ loader[t].generation = generation[ProcOf[t]]
                        => settled[ProcOf[t]] <= loader[t].found

\* A stamp of this generation means a value that has everything settled by now.
StampInv ==
    \A p \in Procs :
        /\ state[p].generation <= generation[p]
        /\ state[p].generation = generation[p] => settled[p] <= state[p].value

\* A caller that holds a generation may take any value with that stamp.
CallInv ==
    \A t \in Callers :
        /\ caller[t].asked[ProcOf[t]] <= settled[ProcOf[t]]
        /\ caller[t].pc = "lock" =>
              /\ state[ProcOf[t]].generation = caller[t].generation
                    => caller[t].asked[ProcOf[t]] <= state[ProcOf[t]].value
              /\ \A u \in Callers :
                    /\ ProcOf[u] = ProcOf[t]
                    /\ loader[u].pc = "store"
                    /\ loader[u].generation = caller[t].generation
                    => caller[t].asked[ProcOf[t]] <= loader[u].found
              /\ caller[t].generation <= generation[ProcOf[t]]

Inv == TypeOK /\ SingleFlight /\ OrderInv /\ LoadInv /\ StampInv /\ CallInv /\ RotationKillsOldKey

\* The invariant holds of a cache that has loaded nothing.
LEMMA InitInv == Init => Inv
  BY MasterKeyAssumption
  DEF Init, Inv, TypeOK, SingleFlight, OrderInv, LoadInv, StampInv, CallInv,
      RotationKillsOldKey, NoLoader, Idle, Loader, CacheState, Caller, Never

---------------------------------------------------------------------------
(* Types. *)

\* What the steps of a call change.
LEMMA CallerMoves ==
    ASSUME TypeOK, NEW t \in Callers,
           \/ Get(t) \/ ReadGeneration(t) \/ Answer(t) \/ Wake(t)
           \/ DeadlinePasses(t) \/ Return(t)
    PROVE  /\ UNCHANGED <<file, read, generation, state, loader, writer, settled>>
           /\ caller' = [caller EXCEPT ![t] = caller'[t]]
           /\ caller'[t] \in Caller
           /\ \/ caller'[t].asked = caller[t].asked
              \/ caller'[t].asked = settled
              \/ caller'[t].asked = [p \in Procs |-> 0]
           /\ caller'[t].pc = "lock" =>
                 /\ caller'[t].asked = caller[t].asked
                 /\ \/ caller'[t].generation = generation[ProcOf[t]]
                    \/ caller'[t].generation = caller[t].generation /\ caller[t].pc = "lock"
           /\ \/ caller'[t].answer = {}
              \/ caller'[t].answer = caller[t].answer /\ caller'[t].asked = caller[t].asked
              \/ /\ caller[t].pc = "lock" /\ Cached(t)
                 /\ caller'[t].answer = {state[ProcOf[t]].value}
                 /\ caller'[t].asked = caller[t].asked
<1> USE MasterKeyAssumption
<1>1. PICK c \in Caller : c = caller[t]
  BY DEF TypeOK
<1>2. ProcOf[t] \in Procs /\ settled \in [Procs -> Nat] /\ caller \in [Callers -> Caller]
  BY DEF TypeOK
<1>3. Idle \in Caller /\ Idle.answer = {} /\ Idle.pc = "idle" /\ Idle.asked = [p \in Procs |-> 0]
  BY DEF Idle, Caller
<1>4. CASE Get(t)
  <2>1. caller'[t] = [Idle EXCEPT !.pc = "look", !.asked = settled]
    BY <1>2, <1>4 DEF Get
  <2>2. /\ caller'[t] \in Caller /\ caller'[t].answer = {}
        /\ caller'[t].pc = "look" /\ caller'[t].asked = settled
    BY <1>2, <1>3, <2>1 DEF Caller
  <2>3. QED
    BY <1>2, <1>4, <2>2 DEF Get
<1>5. CASE ReadGeneration(t)
  <2>1. caller'[t] = [c EXCEPT !.pc = "lock", !.generation = generation[ProcOf[t]]]
    BY <1>1, <1>2, <1>5 DEF ReadGeneration
  <2>2. /\ caller'[t] \in Caller /\ caller'[t].answer = c.answer
        /\ caller'[t].generation = generation[ProcOf[t]] /\ caller'[t].asked = c.asked
    <3>1. generation[ProcOf[t]] \in Nat
      BY <1>2 DEF TypeOK
    <3>2. QED
      BY <1>1, <2>1, <3>1 DEF Caller
  <2>3. QED
    BY <1>1, <1>2, <1>5, <2>2 DEF ReadGeneration
<1>6. CASE Answer(t)
  <2>1. caller'[t] = [c EXCEPT !.pc = "done", !.answer = {state[ProcOf[t]].value}]
    BY <1>1, <1>2, <1>6 DEF Answer
  <2>2. {state[ProcOf[t]].value} \in SUBSET Nat
    BY <1>2 DEF TypeOK, CacheState
  <2>3. /\ caller'[t] \in Caller /\ caller'[t].answer = {state[ProcOf[t]].value}
        /\ caller'[t].pc = "done" /\ caller'[t].asked = c.asked
    BY <1>1, <2>1, <2>2 DEF Caller
  <2>4. QED
    BY <1>1, <1>2, <1>6, <2>3 DEF Answer
<1>7. CASE Wake(t)
  <2>1. caller'[t] = [c EXCEPT !.pc = "look"]
    BY <1>1, <1>2, <1>7 DEF Wake
  <2>2. /\ caller'[t] \in Caller /\ caller'[t].answer = c.answer
        /\ caller'[t].pc = "look" /\ caller'[t].asked = c.asked
    BY <1>1, <2>1 DEF Caller
  <2>3. QED
    BY <1>1, <1>2, <1>7, <2>2 DEF Wake
<1>8. CASE DeadlinePasses(t)
  <2>1. caller'[t] = [c EXCEPT !.expired = TRUE]
    BY <1>1, <1>2, <1>8 DEF DeadlinePasses
  <2>2. /\ caller'[t] \in Caller /\ caller'[t].answer = c.answer
        /\ caller'[t].pc = c.pc /\ caller'[t].asked = c.asked
        /\ caller'[t].generation = c.generation
    BY <1>1, <2>1 DEF Caller
  <2>3. QED
    BY <1>1, <1>2, <1>8, <2>2 DEF DeadlinePasses
<1>9. CASE Return(t)
  BY <1>2, <1>3, <1>9 DEF Return
<1>10. QED
  BY <1>4, <1>5, <1>6, <1>7, <1>8, <1>9

\* What a caller does that has nothing to answer with.
LEMMA LoadMoves ==
    ASSUME TypeOK, NEW t \in Callers, LoadOrWait(t)
    PROVE  LET own == ProcOf[t]
           IN  /\ UNCHANGED <<file, read, generation, writer, settled>>
               /\ caller' = [caller EXCEPT ![t] = caller'[t]]
               /\ caller'[t] \in Caller
               /\ caller'[t].pc # "lock"
               /\ caller'[t].asked = caller[t].asked
               /\ caller'[t].answer = caller[t].answer
               /\ \/ UNCHANGED <<state, loader>>
                  \/ /\ ~ state[own].loading /\ caller[t].pc = "lock"
                     /\ state' = [state EXCEPT ![own] = state'[own]]
                     /\ state'[own] \in CacheState
                     /\ state'[own].value = state[own].value
                     /\ state'[own].generation = state[own].generation
                     /\ state'[own].loading
                     /\ loader' = [loader EXCEPT ![t] = [pc |-> "read", found |-> 0,
                                                        generation |-> caller[t].generation]]
<1> USE MasterKeyAssumption
<1>1. PICK c \in Caller : c = caller[t]
  BY DEF TypeOK
<1>2. caller'[t] = [c EXCEPT !.pc = IF OutOfTime(t) THEN "done" ELSE "wait"]
  BY <1>1 DEF LoadOrWait, TypeOK
<1>3. /\ caller'[t] \in Caller /\ caller'[t].pc # "lock"
      /\ caller'[t].asked = c.asked /\ caller'[t].answer = c.answer
  BY <1>1, <1>2 DEF Caller
<1>4. caller' = [caller EXCEPT ![t] = caller'[t]]
  BY <1>2 DEF LoadOrWait, TypeOK
<1>5. PICK s \in CacheState : s = state[ProcOf[t]]
  BY DEF TypeOK
<1>6. /\ [s EXCEPT !.loading = TRUE] \in CacheState
      /\ [s EXCEPT !.loading = TRUE].value = s.value
      /\ [s EXCEPT !.loading = TRUE].generation = s.generation
      /\ [s EXCEPT !.loading = TRUE].loading
  BY <1>5 DEF CacheState
<1>7. CASE MayLoad(t)
  <2>1. state' = [state EXCEPT ![ProcOf[t]] = [s EXCEPT !.loading = TRUE]]
    BY <1>5, <1>7 DEF LoadOrWait, Load, TypeOK
  <2>2. state'[ProcOf[t]] = [s EXCEPT !.loading = TRUE]
    BY <2>1 DEF TypeOK
  <2>3. QED
    BY <1>1, <1>3, <1>4, <1>5, <1>6, <1>7, <2>1, <2>2 DEF LoadOrWait, Load, MayLoad
<1>8. CASE ~ MayLoad(t)
  BY <1>1, <1>3, <1>4, <1>8 DEF LoadOrWait, Load
<1>9. QED
  BY <1>7, <1>8

\* What a loader finds.
LEMMA ReadMoves ==
    ASSUME TypeOK, NEW t \in Callers, LoaderReads(t)
    PROVE  /\ UNCHANGED <<file, generation, state, caller, writer, settled>>
           /\ read' \in [Procs -> Nat]
           /\ \A p \in Procs : read'[p] \in {read[p], file}
           /\ loader[t].pc = "read"
           /\ loader' = [loader EXCEPT ![t] = loader'[t]]
           /\ loader'[t] \in Loader
           /\ loader'[t].pc = "store"
           /\ loader'[t].found = read'[ProcOf[t]]
           /\ loader'[t].generation = loader[t].generation
<1> USE MasterKeyAssumption
<1>1. read' \in [Procs -> Nat] /\ \A p \in Procs : read'[p] \in {read[p], file}
  BY DEF LoaderReads, TypeOK
<1>2. PICK l \in Loader : l = loader[t]
  BY DEF TypeOK
<1>3. loader' = [loader EXCEPT ![t] = [l EXCEPT !.pc = "store", !.found = read'[ProcOf[t]]]]
  BY <1>2 DEF LoaderReads, TypeOK
<1>4. loader'[t] = [l EXCEPT !.pc = "store", !.found = read'[ProcOf[t]]]
  BY <1>3 DEF TypeOK
<1>5. /\ loader'[t] \in Loader
      /\ loader'[t].pc = "store"
      /\ loader'[t].found = read'[ProcOf[t]]
      /\ loader'[t].generation = l.generation
  BY <1>1, <1>2, <1>4 DEF Loader
<1>6. QED
  BY <1>1, <1>2, <1>3, <1>4, <1>5 DEF LoaderReads

\* Types are kept by every step.
LEMMA TypeStep == TypeOK /\ [Next]_vars => TypeOK'
<1> SUFFICES ASSUME TypeOK, [Next]_vars PROVE TypeOK'
  OBVIOUS
<1> USE MasterKeyAssumption DEF TypeOK
<1>1. ASSUME NEW p \in Procs, WriteKey(p) PROVE TypeOK'
  BY <1>1 DEF WriteKey
<1>2. ASSUME NEW p \in Procs, Invalidate(p) PROVE TypeOK'
  BY <1>2 DEF Invalidate
<1>3. ASSUME NEW t \in Callers,
             \/ Get(t) \/ ReadGeneration(t) \/ Answer(t) \/ Wake(t)
             \/ DeadlinePasses(t) \/ Return(t)
      PROVE TypeOK'
  BY <1>3, CallerMoves
<1>4. ASSUME NEW t \in Callers, LoadOrWait(t) PROVE TypeOK'
  <2>1. caller[t].generation \in Nat
    BY DEF Caller
  <2>2. [pc |-> "read", found |-> 0, generation |-> caller[t].generation] \in Loader
    BY <2>1 DEF Loader
  <2>3. QED
    BY <1>4, <2>2, LoadMoves
<1>5. ASSUME NEW t \in Callers, LoaderReads(t) PROVE TypeOK'
  BY <1>5, ReadMoves
<1>6. ASSUME NEW t \in Callers, LoaderStores(t) PROVE TypeOK'
  BY <1>6 DEF LoaderStores, Loader, CacheState, NoLoader, Stamp
<1>7. CASE UNCHANGED vars
  BY <1>7 DEF vars
<1>8. QED
  BY <1>1, <1>2, <1>3, <1>4, <1>5, <1>6, <1>7 DEF Next, Call

---------------------------------------------------------------------------
(* Each action keeps the invariant. *)

\* A rotation or revocation keeps the invariant: it writes a key no one has seen.
LEMMA WriteStep ==
    ASSUME Inv, TypeOK', NEW p \in Procs, WriteKey(p) \/ Invalidate(p)
    PROVE  Inv'
<1> USE MasterKeyAssumption
<1>1. /\ state' = state /\ loader' = loader /\ caller' = caller
      /\ SingleFlight' /\ RotationKillsOldKey'
  BY DEF WriteKey, Invalidate, Inv, SingleFlight, RotationKillsOldKey
<1>2. \A q \in Procs : /\ read[q] <= read'[q] /\ settled[q] <= settled'[q]
                       /\ generation[q] <= generation'[q]
                       /\ generation'[q] = generation[q] => settled'[q] = settled[q]
  BY DEF WriteKey, Invalidate, Inv, TypeOK, OrderInv
<1>3. OrderInv'
  BY <1>1 DEF WriteKey, Invalidate, Inv, TypeOK, CacheState, OrderInv
<1>4. LoadInv'
  <2>1. \A t \in Callers : loader[t] \in Loader /\ ProcOf[t] \in Procs
    BY DEF Inv, TypeOK, CacheState
  <2>2. \A q \in Procs : /\ {read[q], read'[q], settled[q], settled'[q]} \subseteq Nat
                         /\ {generation[q], generation'[q]} \subseteq Nat
    BY DEF Inv, TypeOK, CacheState
  <2>3. QED
    BY <1>1, <1>2, <2>1, <2>2 DEF Inv, LoadInv, Loader
<1>5. StampInv'
  <2>1. \A q \in Procs : /\ {generation[q], generation'[q]} \subseteq Nat
                         /\ state[q].generation \in Nat \cup {Never}
    BY DEF Inv, TypeOK, CacheState
  <2>2. QED
    BY <1>1, <1>2, <2>1 DEF Inv, StampInv, Never
<1>6. CallInv'
  BY <1>1, <1>2 DEF Inv, CallInv, TypeOK, Caller
<1>7. QED
  BY <1>1, <1>3, <1>4, <1>5, <1>6 DEF Inv

\* The steps of a caller that load nothing keep it.
LEMMA CallStep ==
    ASSUME Inv, TypeOK', NEW t \in Callers,
           \/ Get(t) \/ ReadGeneration(t) \/ Answer(t) \/ Wake(t)
           \/ DeadlinePasses(t) \/ Return(t)
    PROVE  Inv'
<1> USE MasterKeyAssumption
<1>1. /\ UNCHANGED <<file, read, generation, state, loader, writer, settled>>
      /\ \A u \in Callers : u # t => caller'[u] = caller[u]
  BY CallerMoves DEF Inv, TypeOK, CacheState
<1>2. SingleFlight' /\ OrderInv' /\ LoadInv' /\ StampInv'
  BY <1>1 DEF Inv, SingleFlight, OrderInv, LoadInv, StampInv
<1>3. caller'[t].asked[ProcOf[t]] <= settled[ProcOf[t]]
  BY CallerMoves DEF Inv, CallInv, TypeOK
<1>4. CallInv'
  <2>1. \A u \in Callers : u # t => caller'[u] = caller[u]
    BY <1>1
  <2>2. /\ caller[t].asked[ProcOf[t]] \in Nat /\ settled[ProcOf[t]] \in Nat
        /\ state[ProcOf[t]].value \in Nat /\ generation[ProcOf[t]] \in Nat
    BY DEF Inv, TypeOK, Caller, CacheState
  <2>3. \A u \in Callers : loader[u] \in Loader
    BY DEF Inv, TypeOK, CacheState
  <2>4. CASE caller'[t].pc = "lock" /\ caller'[t].generation = generation[ProcOf[t]]
    <3>1. caller'[t].asked = caller[t].asked
      BY <2>4, CallerMoves DEF Inv
    <3>2. QED
      BY <1>1, <1>3, <2>2, <2>3, <2>4, <3>1 DEF Inv, CallInv, StampInv, LoadInv, Loader
  <2>5. CASE caller'[t].pc = "lock" /\ caller[t].pc = "lock"
             /\ caller'[t].generation = caller[t].generation
    <3>1. caller'[t].asked = caller[t].asked
      BY <2>5, CallerMoves DEF Inv
    <3>2. QED
      BY <1>1, <1>3, <2>5, <3>1 DEF Inv, CallInv
  <2>6. CASE caller'[t].pc # "lock"
    BY <1>1, <1>3, <2>6 DEF Inv, CallInv
  <2>7. QED
    BY <2>4, <2>5, <2>6, CallerMoves DEF Inv
<1>5. RotationKillsOldKey'
  <2>1. /\ caller[t].asked[ProcOf[t]] \in Nat /\ state[ProcOf[t]].value \in Nat
    BY DEF Inv, TypeOK, Caller, CacheState
  <2>2. \A key \in caller'[t].answer : key >= caller'[t].asked[ProcOf[t]]
    BY <2>1, CallerMoves DEF Inv, CallInv, Cached, RotationKillsOldKey
  <2>3. QED
    BY <1>1, <2>2 DEF Inv, RotationKillsOldKey
<1>6. QED
  BY <1>2, <1>4, <1>5 DEF Inv

\* Spawning a loader keeps it: there was none in this process.
LEMMA LoadStep ==
    ASSUME Inv, TypeOK', NEW t \in Callers, LoadOrWait(t)
    PROVE  Inv'
<1> USE MasterKeyAssumption
<1>1. /\ UNCHANGED <<file, read, generation, writer, settled>>
      /\ \A u \in Callers : /\ u # t => caller'[u] = caller[u] /\ loader'[u] = loader[u]
                            /\ caller'[u].asked = caller[u].asked
                            /\ caller'[u].answer = caller[u].answer
      /\ caller'[t].pc # "lock"
      /\ \A p \in Procs : /\ state'[p].value = state[p].value
                          /\ state'[p].generation = state[p].generation
                          /\ state[p].loading => state'[p].loading
  BY LoadMoves DEF Inv, TypeOK, CacheState
<1>2. \/ loader' = loader
      \/ /\ ~ state[ProcOf[t]].loading /\ state'[ProcOf[t]].loading
         /\ loader'[t].pc = "read" /\ loader'[t].generation = caller[t].generation
         /\ caller[t].pc = "lock"
  BY LoadMoves DEF Inv, TypeOK, CacheState
<1>3. OrderInv' /\ StampInv' /\ RotationKillsOldKey'
  BY <1>1 DEF Inv, OrderInv, StampInv, RotationKillsOldKey
<1>4. SingleFlight'
  BY <1>1, <1>2 DEF Inv, SingleFlight, LoadInv
<1>5. LoadInv'
  BY <1>1, <1>2 DEF Inv, LoadInv, CallInv
<1>6. CallInv'
  BY <1>1, <1>2 DEF Inv, CallInv
<1>7. QED
  BY <1>3, <1>4, <1>5, <1>6 DEF Inv

\* What a loader finds is no older than what its process has settled.
LEMMA LoaderReadStep ==
    ASSUME Inv, TypeOK', NEW t \in Callers, LoaderReads(t)
    PROVE  Inv'
<1> USE MasterKeyAssumption
<1>1. /\ UNCHANGED <<file, generation, state, caller, writer, settled>>
      /\ \A p \in Procs : read[p] <= read'[p] /\ read'[p] <= file
      /\ \A u \in Callers : u # t => loader'[u] = loader[u]
      /\ loader[t].pc = "read"
      /\ loader'[t].generation = loader[t].generation
      /\ loader'[t].found = read'[ProcOf[t]]
  BY ReadMoves DEF Inv, TypeOK, OrderInv
<1>2. SingleFlight' /\ StampInv' /\ RotationKillsOldKey'
  BY <1>1 DEF Inv, SingleFlight, StampInv, RotationKillsOldKey
<1>3. OrderInv'
  BY <1>1 DEF Inv, OrderInv, TypeOK, CacheState
<1>4. LoadInv'
  BY <1>1, <1>3 DEF Inv, LoadInv, OrderInv, TypeOK, Loader, CacheState
<1>5. CallInv'
  <2>1. \A u \in Callers : /\ caller[u].asked[ProcOf[u]] \in Nat
                            /\ settled[ProcOf[u]] \in Nat
                            /\ read'[ProcOf[u]] \in Nat
    BY DEF Inv, TypeOK, Caller
  <2>2. \A u \in Callers : caller[u].asked[ProcOf[u]] <= read'[ProcOf[u]]
    BY <1>1, <1>3, <2>1 DEF Inv, CallInv, OrderInv
  <2>3. QED
    BY <1>1, <2>2 DEF Inv, CallInv
<1>6. QED
  BY <1>2, <1>3, <1>4, <1>5 DEF Inv

\* What a loader stores is stamped with the generation it was spawned for.
LEMMA StoreStep ==
    ASSUME Inv, TypeOK', NEW t \in Callers, LoaderStores(t)
    PROVE  Inv' /\ \A p \in Procs : state'[p].value >= state[p].value
<1> USE MasterKeyAssumption
<1> DEFINE own == ProcOf[t]
<1>1. /\ UNCHANGED <<file, read, generation, caller, writer, settled>>
      /\ \A p \in Procs : p # own => state'[p] = state[p]
      /\ state'[own] = [value |-> loader[t].found, generation |-> loader[t].generation,
                        loading |-> FALSE]
      /\ \A u \in Callers : u # t => loader'[u] = loader[u]
      /\ loader[t].pc = "store" /\ loader'[t].pc = "idle"
  BY DEF LoaderStores, Stamp, NoLoader, Inv, TypeOK
<1>2. \A u \in Callers : loader'[u].pc # "idle" => ProcOf[u] # own
  BY <1>1 DEF Inv, SingleFlight
<1>3. SingleFlight' /\ RotationKillsOldKey'
  BY <1>1 DEF Inv, SingleFlight, RotationKillsOldKey
<1>4. OrderInv'
  BY <1>1 DEF Inv, OrderInv, LoadInv
<1>5. LoadInv'
  BY <1>1, <1>2 DEF Inv, LoadInv
<1>6. StampInv'
  BY <1>1 DEF Inv, StampInv, LoadInv
<1>7. CallInv'
  BY <1>1, <1>2 DEF Inv, CallInv
<1>8. \A p \in Procs : state'[p].value >= state[p].value
  <2>1. loader[t].found \in Nat /\ \A p \in Procs : state[p].value \in Nat
    BY DEF Inv, TypeOK, Loader, CacheState
  <2>2. state[own].value <= loader[t].found
    BY <1>1 DEF Inv, LoadInv
  <2>3. QED
    BY <1>1, <2>1, <2>2
<1>9. QED
  BY <1>3, <1>4, <1>5, <1>6, <1>7, <1>8 DEF Inv

---------------------------------------------------------------------------

\* Every step keeps the invariant, and moves the cached key forward.
LEMMA InvStep ==
    Inv /\ [Next]_vars => Inv' /\ [\A p \in Procs : state'[p].value >= state[p].value]_vars
<1> SUFFICES ASSUME Inv, [Next]_vars
             PROVE  Inv' /\ (UNCHANGED vars \/ \A p \in Procs : state'[p].value >= state[p].value)
  OBVIOUS
<1>1. TypeOK'
  BY TypeStep DEF Inv
<1>2. \A p \in Procs : state[p].value \in Nat
  BY DEF Inv, TypeOK, CacheState
<1>3. ASSUME NEW p \in Procs, WriteKey(p) \/ Invalidate(p)
      PROVE  Inv' /\ state' = state
  BY <1>1, <1>3, WriteStep DEF WriteKey, Invalidate
<1>4. ASSUME NEW t \in Callers,
             \/ Get(t) \/ ReadGeneration(t) \/ Answer(t) \/ Wake(t)
             \/ DeadlinePasses(t) \/ Return(t)
      PROVE  Inv' /\ state' = state
  BY <1>1, <1>4, CallStep DEF Get, ReadGeneration, Answer, Wake, DeadlinePasses, Return
<1>5. ASSUME NEW t \in Callers, LoadOrWait(t)
      PROVE  Inv' /\ \A p \in Procs : state'[p].value = state[p].value
  <2>1. state \in [Procs -> CacheState]
    BY DEF Inv, TypeOK
  <2>2. \A p \in Procs : state'[p].value = state[p].value
    BY <1>5, <2>1, LoadMoves, MasterKeyAssumption DEF Inv
  <2>3. QED
    BY <1>1, <1>5, <2>2, LoadStep
<1>6. ASSUME NEW t \in Callers, LoaderReads(t)
      PROVE  Inv' /\ state' = state
  BY <1>1, <1>6, LoaderReadStep DEF LoaderReads
<1>7. ASSUME NEW t \in Callers, LoaderStores(t)
      PROVE  Inv' /\ \A p \in Procs : state'[p].value >= state[p].value
  BY <1>1, <1>7, StoreStep
<1>8. CASE UNCHANGED vars
  BY <1>8 DEF vars, Inv, TypeOK, SingleFlight, OrderInv, LoadInv, StampInv, CallInv,
              RotationKillsOldKey
<1>9. QED
  BY <1>2, <1>3, <1>4, <1>5, <1>6, <1>7, <1>8 DEF Next, Call

\* The inductive invariant holds throughout.
THEOREM Invariance == Spec => []Inv
  BY InitInv, InvStep, PTL DEF Spec

\* The types of the caches, the loaders and the callers; and a cache that loads has a loader that
\* will end the load (gateway.rs:248-265).
THEOREM TypeCorrect == Spec => []TypeOK
  BY Invariance, PTL DEF Inv

\* A vault that hangs costs each process one thread.
THEOREM OneLoadAtATime == Spec => []SingleFlight
  BY Invariance, PTL DEF Inv

\* What a process has rotated or revoked, it no longer answers with.
THEOREM OldKeyIsDead == Spec => []RotationKillsOldKey
  BY Invariance, PTL DEF Inv

\* The cache moves forward only.
THEOREM CacheMovesForward == Spec => CacheNeverGoesBack
  BY InitInv, InvStep, PTL DEF Spec, CacheNeverGoesBack
=============================================================================
