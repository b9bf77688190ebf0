--------------------------- MODULE MasterKeyCache ---------------------------
(***************************************************************************)
(* The master key as the gateway sees it: MasterKeyCache in                *)
(* core/gateway.rs, in every process that runs a gateway (the app and      *)
(* aiproviderd), over the one secrets file they share.                     *)
(*                                                                         *)
(* A key is the number of the write - a rotation, which leaves a key, or a *)
(* revocation, which leaves none - that put it there: a cached absence is  *)
(* a value like any other.  `read' is the entry in a process's own copy of *)
(* the file (vault.rs): a lookup refreshes it, unless the file cannot be   *)
(* read just then.  Requests are callers of get, each of one process; a    *)
(* loader thread is named after its spawner.                               *)
(***************************************************************************)
EXTENDS Integers

CONSTANTS
    Procs,      \* processes that run a gateway
    Callers,    \* request threads
    ProcOf,     \* the process of a caller
    ReadsFail,  \* whether reading the secrets file may fail
    MaxWrites   \* bound: how often the key is written

ASSUME MasterKeyAssumption ==
    /\ ProcOf \in [Callers -> Procs]
    /\ ReadsFail \in BOOLEAN
    /\ MaxWrites \in Nat

VARIABLES
    file,        \* the key in the secrets file
    read,        \* the key in a process's copy of the file
    generation,  \* MasterKeyCache.generation
    state,       \* CacheState
    loader,      \* the thread a caller spawned
    caller,      \* where a call of get is
    writer,      \* the version a process wrote and has not invalidated for, or 0
    settled      \* the last version for which a process finished a rotation or revocation

vars == <<file, read, generation, state, loader, caller, writer, settled>>

\* The stamp of a cache that has loaded nothing: u64::MAX in the code.
Never == -1

\* A call of get: `asked' is what each process had settled when it began, `answer' the key it
\* returned, or nothing.
Caller == [pc : {"idle", "look", "lock", "wait", "done"}, generation : Nat, expired : BOOLEAN,
           asked : [Procs -> Nat], answer : SUBSET Nat]

Idle == [pc |-> "idle", generation |-> 0, expired |-> FALSE,
         asked |-> [p \in Procs |-> 0], answer |-> {}]

CacheState == [value : Nat, generation : Nat \cup {Never}, loading : BOOLEAN]

Loader == [pc : {"idle", "read", "store"}, generation : Nat, found : Nat]
NoLoader == [pc |-> "idle", generation |-> 0, found |-> 0]

Init ==
    /\ file = 0
    /\ read = [p \in Procs |-> 0]
    /\ generation = [p \in Procs |-> 0]
    /\ state = [p \in Procs |-> [value |-> 0, generation |-> Never, loading |-> FALSE]]
    /\ loader = [t \in Callers |-> NoLoader]
    /\ caller = [t \in Callers |-> Idle]
    /\ writer = [p \in Procs |-> 0]
    /\ settled = [p \in Procs |-> 0]

---------------------------------------------------------------------------
(* rotate_master_key and revoke_master_key: the file first, then the cache. *)

WriteKey(p) ==
    /\ writer[p] = 0
    /\ file < MaxWrites
    /\ file' = file + 1
    /\ read' = [read EXCEPT ![p] = file']
    /\ writer' = [writer EXCEPT ![p] = file']
    /\ UNCHANGED <<generation, state, loader, caller, settled>>

Invalidate(p) ==
    /\ writer[p] # 0
    /\ generation' = [generation EXCEPT ![p] = @ + 1]
    /\ settled' = [settled EXCEPT ![p] = writer[p]]
    /\ writer' = [writer EXCEPT ![p] = 0]
    /\ UNCHANGED <<file, read, state, loader, caller>>

---------------------------------------------------------------------------
(* MasterKeyCache::get. *)

Get(t) ==
    /\ caller[t].pc = "idle"
    /\ caller' = [caller EXCEPT ![t] = [Idle EXCEPT !.pc = "look", !.asked = settled]]
    /\ UNCHANGED <<file, read, generation, state, loader, writer, settled>>

\* Every pass of the loop reads the generation again, before it takes the lock.
ReadGeneration(t) ==
    /\ caller[t].pc = "look"
    /\ caller' = [caller EXCEPT ![t].pc = "lock", ![t].generation = generation[ProcOf[t]]]
    /\ UNCHANGED <<file, read, generation, state, loader, writer, settled>>

Cached(t) ==
    /\ ~ state[ProcOf[t]].loading
    /\ state[ProcOf[t]].generation = caller[t].generation

Answer(t) ==
    /\ caller[t].pc = "lock"
    /\ Cached(t)
    /\ caller' = [caller EXCEPT ![t].pc = "done", ![t].answer = {state[ProcOf[t]].value}]
    /\ UNCHANGED <<file, read, generation, state, loader, writer, settled>>

\* (Mutant: a caller that finds a load under way starts one of its own.)
MayLoadAnyway(t) == loader[t].pc = "idle"
MayLoad(t) == ~ state[ProcOf[t]].loading

\* (Mutant: the mark is set and the thread is not spawned.)
LoadUnspawned(t) ==
    /\ state' = [state EXCEPT ![ProcOf[t]].loading = TRUE]
    /\ UNCHANGED loader

Load(t) ==
    IF MayLoad(t)
    THEN /\ state' = [state EXCEPT ![ProcOf[t]].loading = TRUE]
         /\ loader' = [loader EXCEPT ![t] = [pc |-> "read", generation |-> caller[t].generation,
                                             found |-> 0]]
    ELSE UNCHANGED <<state, loader>>

\* (Mutant: an untimed wait.)
NoDeadline(t) == FALSE
OutOfTime(t) == caller[t].expired

\* Nothing to answer with: see that a load is under way, then wait for it or give up.
LoadOrWait(t) ==
    /\ caller[t].pc = "lock"
    /\ ~ Cached(t)
    /\ Load(t)
    /\ caller' = [caller EXCEPT ![t].pc = IF OutOfTime(t) THEN "done" ELSE "wait"]
    /\ UNCHANGED <<file, read, generation, writer, settled>>

\* The condition variable wakes a caller for a notification, for its deadline, or for nothing.
Wake(t) ==
    /\ caller[t].pc = "wait"
    /\ caller' = [caller EXCEPT ![t].pc = "look"]
    /\ UNCHANGED <<file, read, generation, state, loader, writer, settled>>

DeadlinePasses(t) ==
    /\ caller[t].pc \in {"look", "lock", "wait"}
    /\ ~ caller[t].expired
    /\ caller' = [caller EXCEPT ![t].expired = TRUE]
    /\ UNCHANGED <<file, read, generation, state, loader, writer, settled>>

Return(t) ==
    /\ caller[t].pc = "done"
    /\ caller' = [caller EXCEPT ![t] = Idle]
    /\ UNCHANGED <<file, read, generation, state, loader, writer, settled>>

---------------------------------------------------------------------------
(* The loader thread. *)

\* The provider asks the vault.  A file that cannot be read leaves the process's copy as it was.
LoaderReads(t) ==
    /\ loader[t].pc = "read"
    /\ \/ read' = [read EXCEPT ![ProcOf[t]] = file]
       \/ ReadsFail /\ UNCHANGED read
    /\ loader' = [loader EXCEPT ![t].pc = "store", ![t].found = read'[ProcOf[t]]]
    /\ UNCHANGED <<file, generation, state, caller, writer, settled>>

\* (Mutant: the value is stamped with the generation of the moment it is stored.)
StampNow(t) == generation[ProcOf[t]]
Stamp(t) == loader[t].generation

LoaderStores(t) ==
    /\ loader[t].pc = "store"
    /\ state' = [state EXCEPT ![ProcOf[t]] = [value |-> loader[t].found, generation |-> Stamp(t),
                                              loading |-> FALSE]]
    /\ loader' = [loader EXCEPT ![t] = NoLoader]
    /\ UNCHANGED <<file, read, generation, caller, writer, settled>>

Call(t) ==
    \/ ReadGeneration(t)
    \/ Answer(t)
    \/ LoadOrWait(t)
    \/ Wake(t)

Next ==
    \/ \E p \in Procs : WriteKey(p) \/ Invalidate(p)
    \/ \E t \in Callers : \/ Get(t)
                          \/ Call(t)
                          \/ DeadlinePasses(t)
                          \/ Return(t)
                          \/ LoaderReads(t)
                          \/ LoaderStores(t)

Spec == Init /\ [][Next]_vars

\* Callers run and their deadlines pass.  Nothing is assumed of the loader: the vault may hang.
FairSpec == Spec /\ \A t \in Callers : WF_vars(Call(t)) /\ WF_vars(DeadlinePasses(t))

---------------------------------------------------------------------------

\* Every variable has its type, and a load that is marked as under way has a thread that will
\* clear the mark.
TypeOK ==
    /\ file \in Nat
    /\ read \in [Procs -> Nat]
    /\ generation \in [Procs -> Nat]
    /\ state \in [Procs -> CacheState]
    /\ loader \in [Callers -> Loader]
    /\ caller \in [Callers -> Caller]
    /\ writer \in [Procs -> Nat]
    /\ settled \in [Procs -> Nat]
    /\ \A p \in Procs :
          state[p].loading => \E t \in Callers : ProcOf[t] = p /\ loader[t].pc # "idle"

\* A stuck vault holds one thread of a process, not one for each request (gateway.rs:206-208).
SingleFlight ==
    \A t, u \in Callers :
        /\ loader[t].pc # "idle" /\ loader[u].pc # "idle" /\ ProcOf[t] = ProcOf[u]
        => t = u

\* A call that began after this process had rotated or revoked the key is not answered with what
\* was there before (gateway.rs:201-203, 1037-1053).
RotationKillsOldKey ==
    \A t \in Callers : \A key \in caller[t].answer : key >= caller[t].asked[ProcOf[t]]

\* A process never forgets a newer key for an older one: loads are stored in the order in which
\* they read (gateway.rs:248-265).
CacheNeverGoesBack ==
    [][\A p \in Procs : state'[p].value >= state[p].value]_vars

\* Every call returns, though the vault never answers (gateway.rs:204-205).
CallsReturn == \A t \in Callers : caller[t].pc = "look" ~> caller[t].pc = "done"

\* "Rotation kills the old key instantly" (docs/dev-book/03-contracts.md:22), whichever process
\* of the two rotated it.
RotationKillsOldKeyEverywhere ==
    \A t \in Callers, p \in Procs : \A key \in caller[t].answer : key >= caller[t].asked[p]
=============================================================================
