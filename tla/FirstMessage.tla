---------------------------- MODULE FirstMessage ----------------------------
(***************************************************************************)
(* The failover engine under the gateway's bound on a first message:       *)
(* Slot::recv in core/gateway.rs waits FIRST_MSG_TIMEOUT for anything the  *)
(* bridge sends - a delta, reasoning, a tool call, a retry notice, the     *)
(* failure of the request - and abandons the request otherwise; dropping   *)
(* the Slot cancels the engine.                                            *)
(***************************************************************************)
EXTENDS Failover

CONSTANT FirstMessageTimeout   \* gateway::FIRST_MSG_TIMEOUT

VARIABLES
    silence,    \* how long the slot has been waiting for its first message
    heard,      \* Slot.started: a first message came
    abandoned   \* the wait expired

slots == <<silence, heard, abandoned>>

FirstMessageInit ==
    /\ Init
    /\ silence = [r \in Requests |-> 0]
    /\ heard = [r \in Requests |-> FALSE]
    /\ abandoned = [r \in Requests |-> FALSE]

Awaited(r) == pc[r] # "idle" /\ ~ heard[r] /\ ~ abandoned[r]

Overdue(r) == Awaited(r) /\ silence[r] >= FirstMessageTimeout

\* Whether a step of the engine sends something: output flowed, it is about to re-probe and
\* says so, or the request ended.
Speaks(r) == try'[r].flowed \/ pc'[r] \in {"pause", "done"}

Listen(r) ==
    /\ heard' = [heard EXCEPT ![r] = @ \/ Speaks(r)]
    /\ silence' = [silence EXCEPT ![r] = IF Speaks(r) THEN 0 ELSE @]
    /\ UNCHANGED abandoned

\* The bound fires: the client gets a 503 and Drop cancels the request.
Abandon(r) ==
    /\ Overdue(r)
    /\ abandoned' = [abandoned EXCEPT ![r] = TRUE]
    /\ silence' = [silence EXCEPT ![r] = 0]
    /\ cancelled' = [cancelled EXCEPT ![r] = TRUE]
    /\ UNCHANGED <<shared, pc, plan, try, elapsed, timer, slack, row, heard>>

Reopen(r) ==
    /\ Retire(r)
    /\ heard' = [heard EXCEPT ![r] = FALSE]
    /\ abandoned' = [abandoned EXCEPT ![r] = FALSE]
    /\ UNCHANGED silence

\* An answer that is read whole is taken to be there at once: StallsEnd is about one that is not.
Pass ==
    /\ Tick
    /\ \A r \in Requests : ~ Overdue(r) /\ pc[r] \notin {"refusal", "unary"}
    /\ silence' = [r \in Requests |-> IF Awaited(r) THEN silence[r] + 1 ELSE silence[r]]
    /\ UNCHANGED <<heard, abandoned>>

FirstMessageNext ==
    \/ \E r \in Requests :
          \/ (Begin(r) \/ Cancel(r) \/ Engine(r) \/ Upstream(r)) /\ Listen(r)
          \/ Abandon(r)
          \/ Reopen(r)
    \/ Pass

FirstMessageSpec == FirstMessageInit /\ [][FirstMessageNext]_<<vars, slots>>

---------------------------------------------------------------------------

\* "The engine must give up first, so the request carries the real error class from the
\* attempt chain instead of being cancelled here" (gateway.rs:1450-1453; egress.rs:618-621).
EngineFailsFirst == \A r \in Requests : ~ abandoned[r]
=============================================================================
