-------------------------------- MODULE Vault --------------------------------
(***************************************************************************)
(* The secrets file and the processes that share it: core/vault.rs.        *)
(*                                                                         *)
(* Each process holds a copy of the file and the bytes it last read.  Every *)
(* operation first reads the file and, when its bytes are not the ones     *)
(* seen, replaces the copy.  A write does so under two locks - the         *)
(* process's own `ops', which every operation takes, and the file lock,    *)
(* which writers of all processes take - then changes the copy and writes  *)
(* it out whole.  A process is inside at most one operation, so its place  *)
(* in a write is also the state of its `ops'.                              *)
(*                                                                         *)
(* Bytes are a map and the order in which a fresh HashMap happened to      *)
(* list it; a map of one entry has one order.                              *)
(***************************************************************************)
EXTENDS Naturals, FiniteSets

CONSTANTS
    Procs,      \* the app and aiproviderd
    Accounts,
    Secrets,
    Orders,     \* how many orders a map of several entries may be written in
    Fails,      \* whether a read of the file or a step of a write may fail
    Absent,     \* no secret
    Nobody      \* no process

ASSUME VaultAssumption ==
    /\ Accounts # {}
    /\ Absent \notin Secrets
    /\ Nobody \notin Procs
    /\ Orders \in Nat \ {0}
    /\ Fails \in BOOLEAN

VARIABLES
    file,   \* the bytes of .secrets.json
    lock,   \* the process that holds .secrets.lock
    map,    \* Cache.map of a process
    seen,   \* Cache.seen of a process
    call    \* the last write of a process: where it is, and what it writes

vars == <<file, lock, map, seen, call>>

Map == [Accounts -> Secrets \cup {Absent}]
NoSecrets == [a \in Accounts |-> Absent]

\* Order 0 is a missing file, which reads as no secrets.
Bytes == [map : Map, order : 0 .. Orders]
NoFile == [map |-> NoSecrets, order |-> 0]

Entries(m) == {a \in Accounts : m[a] # Absent}

\* serde_json::to_string_pretty of a HashMap.
Encodings(m) == [map : {m}, order : IF Cardinality(Entries(m)) < 2 THEN {1} ELSE 1 .. Orders]

\* The value to write is Absent for a delete; `blind' when the write could not read the file.
Call == [pc : {"idle", "lock", "load", "save", "ok"}, account : Accounts,
         value : Secrets \cup {Absent}, blind : BOOLEAN]

NoCall == [pc |-> "idle", account |-> CHOOSE a \in Accounts : TRUE,
           value |-> Absent, blind |-> FALSE]

Init ==
    /\ file = NoFile
    /\ lock = Nobody
    /\ map = [p \in Procs |-> NoSecrets]
    /\ seen = [p \in Procs |-> NoFile]
    /\ call = [p \in Procs |-> NoCall]

---------------------------------------------------------------------------

\* (Mutant: readers do not take `ops'.)
OpsIgnored(p) == TRUE
OpsFree(p) == call[p].pc \in {"idle", "ok"}

\* (Mutant: the lock excludes nobody.)
LockIgnored == TRUE
LockFree == lock = Nobody

\* (Mutant: only a write that went through gives the lock back.)
ReleaseNothing(p) == UNCHANGED lock
Release(p) == lock' = IF lock = p THEN Nobody ELSE lock

\* reload_if_changed, for a file that could be read.
Reload(p, m) ==
    /\ seen' = [seen EXCEPT ![p] = file]
    /\ m = IF seen[p] = file THEN map[p] ELSE file.map

Get(p) ==
    /\ OpsFree(p)
    /\ \E m \in {map[p], file.map} : Reload(p, m) /\ map' = [map EXCEPT ![p] = m]
    /\ UNCHANGED <<file, lock, call>>

Begin(p) ==
    /\ call[p].pc \in {"idle", "ok"}
    /\ \E a \in Accounts, v \in Secrets \cup {Absent} :
          call' = [call EXCEPT ![p] = [pc |-> "lock", account |-> a, value |-> v,
                                       blind |-> FALSE]]
    /\ UNCHANGED <<file, lock, map, seen>>

Lock(p) ==
    /\ call[p].pc = "lock"
    /\ LockFree
    /\ lock' = p
    /\ call' = [call EXCEPT ![p].pc = "load"]
    /\ UNCHANGED <<file, map, seen>>

\* Read the file, then change the copy.  A read that fails says nothing, and the write goes on.
Load(p) ==
    /\ call[p].pc = "load"
    /\ \E m \in {map[p], file.map}, blind \in BOOLEAN :
          /\ IF blind THEN Fails /\ m = map[p] /\ UNCHANGED seen ELSE Reload(p, m)
          /\ map' = [map EXCEPT ![p] = [m EXCEPT ![call[p].account] = call[p].value]]
          /\ call' = [call EXCEPT ![p].pc = "save", ![p].blind = blind]
    /\ UNCHANGED <<file, lock>>

\* The whole copy goes to a temporary file that is renamed over the old one.
Save(p) ==
    /\ call[p].pc = "save"
    /\ file' \in Encodings(map[p])
    /\ call' = [call EXCEPT ![p] = [NoCall EXCEPT !.pc = "ok"]]
    /\ lock' = Nobody
    /\ UNCHANGED <<map, seen>>

\* The lock cannot be taken, or the copy cannot be written: it keeps the change all the same.
Fail(p) ==
    /\ Fails
    /\ call[p].pc \in {"lock", "save"}
    /\ call' = [call EXCEPT ![p] = NoCall]
    /\ Release(p)
    /\ UNCHANGED <<file, map, seen>>

\* The process dies, and another takes its place.  The kernel frees the lock of a dead holder.
Crash(p) ==
    /\ call' = [call EXCEPT ![p] = NoCall]
    /\ map' = [map EXCEPT ![p] = NoSecrets]
    /\ seen' = [seen EXCEPT ![p] = NoFile]
    /\ Release(p)
    /\ UNCHANGED file

Write(p) == Lock(p) \/ Load(p) \/ Save(p) \/ Fail(p)

Next == \E p \in Procs : Get(p) \/ Begin(p) \/ Write(p) \/ Crash(p)

Spec == Init /\ [][Next]_vars

\* A process that holds the lock runs on, or dies.
FairSpec == Spec /\ \A p \in Procs : WF_vars(Load(p)) /\ WF_vars(Save(p))

---------------------------------------------------------------------------

\* Every variable has its type, and the lock is held by the one process that is past taking it.
TypeOK ==
    /\ file \in Bytes
    /\ lock \in Procs \cup {Nobody}
    /\ map \in [Procs -> Map]
    /\ seen \in [Procs -> Bytes]
    /\ call \in [Procs -> Call]
    /\ \A p \in Procs : call[p].pc \in {"load", "save"} <=> lock = p

\* What a process changed in its copy since it last replaced it.
Unsynced(p) == {a \in Accounts : map[p][a] # seen[p].map[a]}

\* A write leaves the other accounts of the file alone, however the writes of two processes
\* interleave (vault.rs:208-220) - but for what its own process wrote or failed to write since it
\* last replaced its copy, and if it could read the file.
OthersSurvive ==
    [][\A p \in Procs :
          call[p].pc = "save" /\ call'[p].pc = "ok" /\ ~ call[p].blind
          => \A a \in Accounts \ Unsynced(p) : file'.map[a] = file.map[a]]_vars

\* A write that returned Ok is in the file: no reader of its own process undid it between the
\* change and the save (vault.rs:222-227).
WriteLands ==
    [][\A p \in Procs :
          call[p].pc = "save" /\ call'[p].pc = "ok"
          => file'.map[call[p].account] = call[p].value]_vars

\* Nobody keeps the file lock, not even by dying (vault.rs:229-234).
LockComesFree == \A p \in Procs : lock = p ~> lock # p

\* A process does not bring back an account another one deleted: "a merge would resurrect an
\* account another process deleted" (vault.rs:131-132).
DeletedStaysDeleted ==
    [][\A a \in Accounts, p \in Procs :
          /\ call[p].pc = "save" /\ call'[p].pc = "ok"
          /\ a # call[p].account
          /\ file.map[a] = Absent
          => file'.map[a] = Absent]_vars
=============================================================================
