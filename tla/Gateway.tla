------------------------------- MODULE Gateway -------------------------------
(***************************************************************************)
(* A chat request through the gateway: chat_h (core/gateway_handlers.rs)   *)
(* with its idempotency slot (core/persist.rs), try_slot, Slot and         *)
(* ReplyHandle (core/gateway.rs), and the job that the bridge runs for it  *)
(* (core/router_bridge.rs).                                                *)
(*                                                                         *)
(* The client may leave at any await of the handler: its future is dropped *)
(* there and the Slot with it.  The job is a task of its own.  Handler and *)
(* job meet in the reply channel, whose sender is the request's            *)
(* registration: without it the channel is closed, and what is queued can  *)
(* still be read.                                                          *)
(*                                                                         *)
(* Request ids are never reused.  A connection here has one name for all   *)
(* its requests, so it begins another only when the job of the last one is *)
(* gone.  Authentication and the gates before it are left out.             *)
(***************************************************************************)
EXTENDS Naturals, FiniteSets, SequencesExt

CONSTANTS
    Requests,   \* connections
    Keys,       \* Idempotency-Key values of one caller
    NoKey,
    Bodies,     \* request bodies
    Permits,    \* MAX_TOTAL: admitted at once
    Routes,     \* MAX_CONCURRENT: dispatched at once
    Capacity,   \* REPLY_QUEUE_CAPACITY
    Faults      \* what may fail: a call of the idempotency store, the process

ASSUME GatewayAssumption ==
    /\ IsFiniteSet(Requests)
    /\ NoKey \notin Keys
    /\ Bodies # {}
    /\ {Permits, Routes, Capacity} \subseteq Nat \ {0}
    /\ Faults \subseteq {"begin", "complete", "crash"}

VARIABLES
    running,     \* GatewayCore.running
    permits,     \* what is left of the admission semaphore
    routes,      \* what is left of the dispatch semaphore
    line,        \* who waits for the dispatch semaphore, in order
    call,        \* a request: where its handler is, what it asks, what it was answered
    registered,  \* ReplyHandle.pending
    queue,       \* the reply channel of a request
    job,         \* where its job is
    active,      \* RouterBridge.active
    cancelled,   \* jobs whose Cancel flag is raised
    table        \* idempotency_keys

bridge == <<job, active, cancelled>>
vars == <<running, permits, routes, line, call, registered, queue, job, active, cancelled, table>>

None == "none"

\* What a job says: text, a liveness frame or anything else that does not end the request; tool
\* calls for the client to run; the two terminal messages.
Message == {"chunk", "calls", "done", "error"}

\* What a client is told: an answer that is whole or, wrongly, cut short; an earlier answer;
\* 409 for a key in flight or used for another body; 429 or 503; an upstream error; a stream that
\* ends without its last chunk.  "left" is a client that did not wait.
Reply == {"whole", "short", "replayed", "busy", "conflict", "refused", "error", "cut", "left"}

\* `heard' is Slot.started.
Call == [pc : {"idle", "admit", "queue", "serve", "keep", "over"}, key : Keys \cup {NoKey},
         body : Bodies, stream : BOOLEAN, heard : BOOLEAN, reply : Reply \cup {None}]

Idle == [pc |-> "idle", key |-> NoKey, body |-> CHOOSE b \in Bodies : TRUE, stream |-> FALSE,
         heard |-> FALSE, reply |-> None]

\* A row of the table: the fingerprint it was reserved with, and the request its answer is for.
Row == [fingerprint : SUBSET Bodies, answer : SUBSET Bodies]
NoRow == [fingerprint |-> {}, answer |-> {}]

Init ==
    /\ running = FALSE
    /\ permits = Permits
    /\ routes = Routes
    /\ line = <<>>
    /\ call = [r \in Requests |-> Idle]
    /\ registered = {}
    /\ queue = [r \in Requests |-> <<>>]
    /\ job = [r \in Requests |-> "none"]
    /\ active = {}
    /\ cancelled = {}
    /\ table = [k \in Keys |-> NoRow]

At(r, loc) == call[r].pc = loc

---------------------------------------------------------------------------
(* The idempotency slot: idempotency_begin, idempotency_complete, the daily prune. *)

Go(r, loc) == call' = [call EXCEPT ![r].pc = loc]
Say(r, what) == call' = [call EXCEPT ![r] = [Idle EXCEPT !.pc = "over", !.reply = what]]

\* What a client may ask: a streaming request may not bring a key, and without a key no two
\* bodies are told apart.
Asks == {[Idle EXCEPT !.stream = s] : s \in BOOLEAN}
            \cup UNION {{[Idle EXCEPT !.key = k, !.body = b] : b \in Bodies} : k \in Keys}

\* (Mutant: a row that has no answer yet is taken over.)
FreeUntilAnswered(row) == row.answer = {}
Free(row) == row = NoRow

\* (Mutant: the key alone names the request.)
MatchesAny(row, body) == TRUE
Matches(row, body) == row.fingerprint = {body}

\* A request without a key, or with one the store cannot look up.
Undeduplicated(r, ask) ==
    /\ ask.key = NoKey \/ "begin" \in Faults
    /\ call' = [call EXCEPT ![r] = [ask EXCEPT !.pc = "admit"]]
    /\ UNCHANGED table

Reserve(r, ask) ==
    /\ ask.key # NoKey
    /\ Free(table[ask.key])
    /\ call' = [call EXCEPT ![r] = [ask EXCEPT !.pc = "admit"]]
    /\ table' = [table EXCEPT ![ask.key] = [fingerprint |-> {ask.body}, answer |-> {}]]

\* What a row says to a request that is not the first with its key.
Verdict(row, body) ==
    IF ~ Matches(row, body) THEN "conflict" ELSE IF row.answer = {} THEN "busy" ELSE "replayed"

Repeat(r, ask) ==
    /\ ask.key # NoKey
    /\ ~ Free(table[ask.key])
    /\ call' = [call EXCEPT ![r] = [ask EXCEPT !.pc = "over",
                                              !.reply = Verdict(table[ask.key], ask.body)]]
    /\ UNCHANGED table

\* chat_h, up to the slot.
Arrive(r) ==
    /\ At(r, "idle")
    /\ job[r] = "none"
    /\ \E ask \in Asks : Undeduplicated(r, ask) \/ Reserve(r, ask) \/ Repeat(r, ask)
    /\ UNCHANGED <<running, permits, routes, line, registered, queue, bridge>>

\* A whole answer is stored, if the store can: the row is found by its key alone.
Keep(r) ==
    /\ At(r, "keep")
    /\ Say(r, call[r].reply)
    /\ \/ table' = [table EXCEPT ![call[r].key].answer =
                       IF table[call[r].key] = NoRow THEN {} ELSE {call[r].body}]
       \/ "complete" \in Faults /\ UNCHANGED table
    /\ UNCHANGED <<running, permits, routes, line, registered, queue, bridge>>

\* retention_job deletes rows that are a day old.  No request lasts a day.
Prune(k) ==
    /\ table[k] # NoRow
    /\ \A r \in Requests : call[r].key = k => call[r].pc \in {"idle", "over"}
    /\ table' = [table EXCEPT ![k] = NoRow]
    /\ UNCHANGED <<running, permits, routes, line, call, registered, queue, bridge>>

---------------------------------------------------------------------------
(* try_slot, and the Slot's end. *)

Refuse(r) ==
    /\ At(r, "admit")
    /\ ~ running \/ permits = 0
    /\ Say(r, "refused")
    /\ UNCHANGED <<running, permits, routes, line, registered, queue, bridge, table>>

Admit(r) ==
    /\ At(r, "admit")
    /\ running
    /\ permits > 0
    /\ permits' = permits - 1
    /\ line' = Append(line, r)
    /\ Go(r, "queue")
    /\ UNCHANGED <<running, routes, registered, queue, bridge, table>>

\* The semaphore serves its waiters in order.  Registering and dispatching follow with no await.
Route(r) ==
    /\ routes > 0
    /\ line # <<>>
    /\ r = Head(line)
    /\ line' = Tail(line)
    /\ routes' = routes - 1
    /\ registered' = registered \cup {r}
    /\ job' = [job EXCEPT ![r] = "work"]
    /\ active' = active \cup {r}
    /\ Go(r, "serve")
    /\ UNCHANGED <<running, permits, queue, cancelled, table>>

\* (Mutant: the entry is removed and the flag is not raised.)
CancelLost(r) ==
    /\ active' = active \ {r}
    /\ UNCHANGED cancelled

\* RouterBridge::cancel: the flag is found in the map, taken out of it, and raised.
CancelJob(r) ==
    /\ active' = active \ {r}
    /\ cancelled' = IF r \in active THEN cancelled \cup {r} ELSE cancelled

\* (Mutant: the routing permit was dropped when the first message came.)
GiveBackEarly(r) ==
    /\ permits' = permits + 1
    /\ routes' = IF call[r].heard THEN routes ELSE routes + 1

\* The Slot's two permits.
GiveBack(r) ==
    /\ permits' = permits + 1
    /\ routes' = routes + 1

\* (Mutant: the sender stays in the map.)
CloseNothing(r) == UNCHANGED registered
Close(r) == registered' = registered \ {r}

\* Drop for Slot: the registration, the job, then the permits.
DropSlot(r) ==
    /\ Close(r)
    /\ CancelJob(r)
    /\ GiveBack(r)
    /\ queue' = [queue EXCEPT ![r] = <<>>]
    /\ UNCHANGED <<running, line, job>>

\* The client goes while its request is queued or served: the handler's future is dropped.
LeaveQueue(r) ==
    /\ At(r, "queue")
    /\ Say(r, "left")
    /\ permits' = permits + 1
    /\ \E i \in DOMAIN line : line[i] = r /\ line' = RemoveAt(line, i)
    /\ UNCHANGED <<running, routes, registered, queue, bridge, table>>

Leave(r) ==
    /\ At(r, "serve")
    /\ Say(r, "left")
    /\ DropSlot(r)
    /\ UNCHANGED table

---------------------------------------------------------------------------
(* The handler's loop over Slot::recv. *)

Upcoming(r, m) == At(r, "serve") /\ queue[r] # <<>> /\ Head(queue[r]) = m

Take(r) == queue' = [queue EXCEPT ![r] = Tail(@)]

\* A message that does not end the request.  Tool calls end one that is not streamed.
Hear(r) ==
    /\ Upcoming(r, "chunk") \/ (Upcoming(r, "calls") /\ call[r].stream)
    /\ Take(r)
    /\ call' = [call EXCEPT ![r].heard = TRUE]
    /\ UNCHANGED <<running, permits, routes, line, registered, bridge, table>>

\* An answer that is not streamed is stored under its key, if it has one.
Answer(r, what) ==
    call' = [call EXCEPT ![r].reply = what,
                         ![r].pc = IF call[r].key # NoKey THEN "keep" ELSE "over"]

Finish(r) ==
    /\ Upcoming(r, "done") \/ (Upcoming(r, "calls") /\ ~ call[r].stream)
    /\ Answer(r, "whole")
    /\ DropSlot(r)
    /\ UNCHANGED table

Fail(r) ==
    /\ Upcoming(r, "error")
    /\ Say(r, "error")
    /\ DropSlot(r)
    /\ UNCHANGED table

\* The channel is closed and empty: recv answers None, and the loop ends as it does after Done.
Closed(r) ==
    /\ At(r, "serve")
    /\ queue[r] = <<>>
    /\ r \notin registered
    /\ IF call[r].stream THEN Say(r, "cut") ELSE Answer(r, "short")
    /\ DropSlot(r)
    /\ UNCHANGED table

\* FIRST_MSG_TIMEOUT: nothing came.
FirstMessageOverdue(r) ==
    /\ At(r, "serve")
    /\ ~ call[r].heard
    /\ queue[r] = <<>>
    /\ r \in registered
    /\ Say(r, "error")
    /\ DropSlot(r)
    /\ UNCHANGED table

---------------------------------------------------------------------------
(* The job, and ReplyHandle::reply. *)

Fits(r) == r \in registered /\ Len(queue[r]) < Capacity

\* (Mutant: a message that does not fit is dropped, and the registration stays.)
PostKeeping(r, m) ==
    /\ queue' = IF Fits(r) THEN [queue EXCEPT ![r] = Append(@, m)] ELSE queue
    /\ registered' = IF m \in {"done", "error"} THEN registered \ {r} ELSE registered

\* A full queue is a dead consumer: the registration goes.  So it does after a terminal message.
Post(r, m) ==
    /\ queue' = IF Fits(r) THEN [queue EXCEPT ![r] = Append(@, m)] ELSE queue
    /\ registered' = IF Fits(r) /\ m \notin {"done", "error"} THEN registered
                     ELSE registered \ {r}

\* Text, reasoning and retry notices look at reply's answer, and raise the flag if nobody
\* listens; usage, attribution and the finish reason do not look.
Speak(r) ==
    /\ job[r] \in {"work", "close"}
    /\ Post(r, "chunk")
    /\ \/ job[r] = "work" /\ ~ Fits(r) /\ cancelled' = cancelled \cup {r}
       \/ UNCHANGED cancelled
    /\ UNCHANGED <<running, permits, routes, line, call, job, active, table>>

\* Pass-through: the calls are handed over, and Done follows.
PassCalls(r) ==
    /\ job[r] = "work"
    /\ r \notin cancelled
    /\ Post(r, "calls")
    /\ job' = [job EXCEPT ![r] = "close"]
    /\ UNCHANGED <<running, permits, routes, line, call, active, cancelled, table>>

\* The turn ends: Done after an answer, Error for a failure, nothing if it was cancelled.
Conclude(r) ==
    /\ \/ job[r] = "work" /\ r \notin cancelled /\ \E m \in {"done", "error"} : Post(r, m)
       \/ job[r] = "close" /\ Post(r, "done")
       \/ job[r] = "work" /\ r \in cancelled /\ UNCHANGED <<queue, registered>>
    /\ job' = [job EXCEPT ![r] = "end"]
    /\ UNCHANGED <<running, permits, routes, line, call, active, cancelled, table>>

\* The task forgets its flag.
Exit(r) ==
    /\ job[r] = "end"
    /\ job' = [job EXCEPT ![r] = "none"]
    /\ active' = active \ {r}
    /\ cancelled' = cancelled \ {r}
    /\ UNCHANGED <<running, permits, routes, line, call, registered, queue, table>>

---------------------------------------------------------------------------

\* The connection's next request.
Again(r) ==
    /\ At(r, "over")
    /\ call' = [call EXCEPT ![r] = Idle]
    /\ UNCHANGED <<running, permits, routes, line, registered, queue, bridge, table>>

\* set_running, from the Control screen.
Switch ==
    /\ running' = ~ running
    /\ UNCHANGED <<permits, routes, line, call, registered, queue, bridge, table>>

\* The process dies and is started again.  The table is on disk.
Crash ==
    /\ "crash" \in Faults
    /\ running' = FALSE
    /\ permits' = Permits
    /\ routes' = Routes
    /\ line' = <<>>
    /\ call' = [r \in Requests |-> Idle]
    /\ registered' = {}
    /\ queue' = [r \in Requests |-> <<>>]
    /\ job' = [r \in Requests |-> "none"]
    /\ active' = {}
    /\ cancelled' = {}
    /\ UNCHANGED table

Handler(r) == Refuse(r) \/ Admit(r) \/ Hear(r) \/ Finish(r) \/ Fail(r) \/ Closed(r) \/ Keep(r)
Client(r) == Arrive(r) \/ LeaveQueue(r) \/ Leave(r) \/ Again(r)
Job(r) == Speak(r) \/ PassCalls(r) \/ Conclude(r) \/ Exit(r)

Next ==
    \/ \E r \in Requests : \/ Client(r)
                           \/ Handler(r)
                           \/ Route(r)
                           \/ FirstMessageOverdue(r)
                           \/ Job(r)
    \/ \E k \in Keys : Prune(k)
    \/ Switch
    \/ Crash

Spec == Init /\ [][Next]_vars

---------------------------------------------------------------------------

Location == {"idle", "admit", "queue", "serve", "keep", "over"}
In(loc) == {r \in Requests : At(r, loc)}

\* Every variable has its type, and the bridge's two maps hold what is alive: a registration
\* has a handler that waits, a flag has a job.
TypeOK ==
    /\ running \in BOOLEAN
    /\ permits \in 0 .. Permits
    /\ routes \in 0 .. Routes
    /\ line \in Seq(Requests)
    /\ call \in [Requests -> Call]
    /\ queue \in [Requests -> Seq(Message)]
    /\ job \in [Requests -> {"none", "work", "close", "end"}]
    /\ cancelled \subseteq Requests
    /\ table \in [Keys -> Row]
    /\ registered \subseteq In("serve")
    /\ active \subseteq {r \in Requests : job[r] # "none"}

\* Each semaphore's count and the requests that hold one of its permits add up: none is lost or
\* doubled, at whichever await a client leaves (gateway.rs:1461-1468, 1578-1581).
SlotsConserved ==
    /\ permits + Cardinality(In("queue") \cup In("serve")) = Permits
    /\ routes + Cardinality(In("serve")) = Routes

Working == {r \in Requests : job[r] \in {"work", "close"} /\ r \notin cancelled}

\* No more jobs than routing slots are at work, but for those that have been told to stop:
\* "dropping it earlier would let a ninth request dispatch" (gateway.rs:1466-1467).
RoutesBound == Cardinality(Working) <= Routes

InFlight(r) == call[r].pc \in {"admit", "queue", "serve", "keep"}

\* Two requests with one key are never both on their way, if the store could look the key up
\* (gateway_handlers.rs:73-80, persist.rs:1326-1377).
OneExecution ==
    \A r, s \in Requests :
        r # s /\ InFlight(r) /\ InFlight(s) /\ call[r].key # NoKey => call[r].key # call[s].key

\* "Byte comparison cannot silently equate two different requests" (gateway_handlers.rs:75-76): what
\* is replayed is the answer to the same body, whatever the store could not do.
ReplaysMatch ==
    [][\A r \in Requests :
          call'[r].reply = "replayed" /\ call[r].reply # "replayed"
          => table[call'[r].key].answer = {call'[r].body}]_vars

\* A handler waits at an open and empty channel only for a job that is at work and will speak:
\* a queue that overflows, a job that ends or is told to stop closes it (gateway.rs:770-772).
NobodyWaitsInVain ==
    \A r \in registered : At(r, "serve") /\ queue[r] = <<>> => r \in Working

\* "Errors are never cached (a failed request's retry re-executes)" (persist.rs:1305-1306): who
\* is told of a failure finds its key free again.
FailedRetryReexecutes ==
    [][\A r \in Requests :
          call[r].key # NoKey /\ call[r].reply = None /\ call'[r].reply = "error"
          => Free(table'[call[r].key])]_vars

\* No client is given a part as the whole: a closed channel "looks like a successful empty
\* answer" and must be an error (gateway.rs:1489-1491).
OkIsWhole == \A r \in Requests : call[r].reply # "short"

---------------------------------------------------------------------------
(* The refinement: what a key is for. *)

\* The requests on their way with a key.
Holder(k) == {r \in Requests : InFlight(r) /\ call[r].key = k}

Slot == INSTANCE Once WITH
    holder <- [k \in Keys |-> Holder(k)],
    body   <- [k \in Keys |-> table[k].fingerprint],
    answer <- [k \in Keys |-> table[k].answer]

\* The request of a key is executed by one at a time and, once its answer is stored, not again
\* before the key is forgotten; the stored answer is to the body the key was taken for.  No retry, no
\* departure, no crash and no write that fails breaks that (persist.rs:1296-1395).  A store that
\* cannot look a key up "degrades to no dedup" (gateway_handlers.rs:98-99), and is not promised
\* anything here.
ExecutesOnce == Slot!Spec
=============================================================================
