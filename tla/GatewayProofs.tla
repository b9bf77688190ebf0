---------------------------- MODULE GatewayProofs ----------------------------
(***************************************************************************)
(* For any numbers of connections, keys and permits: the two semaphores    *)
(* and the requests that hold their permits add up, no more jobs are at    *)
(* work than there are routing slots, and no handler waits at a channel    *)
(* that nobody will write to.  And, if the idempotency store can look keys *)
(* up, the slots implement Once: the request of a key is executed by one   *)
(* at a time, and not again once its answer is stored.                     *)
(***************************************************************************)
EXTENDS Gateway, FiniteSetTheorems, SequenceTheorems, TLAPS

\* TypeOK but for the two counters, whose ranges follow from SlotsConserved.
Typed ==
    /\ running \in BOOLEAN
    /\ permits \in Nat
    /\ routes \in Nat
    /\ line \in Seq(Requests)
    /\ call \in [Requests -> Call]
    /\ queue \in [Requests -> Seq(Message)]
    /\ job \in [Requests -> {"none", "work", "close", "end"}]
    /\ cancelled \subseteq Requests
    /\ table \in [Keys -> Row]
    /\ registered \subseteq In("serve")
    /\ active \subseteq {r \in Requests : job[r] # "none"}

\* Who waits for a routing permit waits once.
LineInv ==
    \A i \in DOMAIN line : /\ At(line[i], "queue")
                           /\ \A j \in DOMAIN line : line[i] = line[j] => i = j

\* A job is there from the routing on; it can be found and told to stop as long as its handler is
\* there, and is told when the handler goes; and the channel is open only while it is at work.
JobInv ==
    \A r \in Requests :
        /\ call[r].pc \in {"admit", "queue"} => job[r] = "none"
        /\ At(r, "serve") /\ job[r] # "none" => r \in active
        /\ job[r] = "none" => r \notin cancelled
        /\ job[r] \in {"work", "close"} => At(r, "serve") \/ r \in cancelled
        /\ r \in registered => r \in Working

IInv == Typed /\ LineInv /\ JobInv /\ SlotsConserved

\* What a step of request r does to the permits: nothing, or it takes or gives back what r's new
\* place says.
Account(r) ==
    /\ \A s \in Requests \ {r} : call'[s].pc = call[s].pc
    /\ \/ /\ permits' = permits /\ routes' = routes
          /\ At(r, "queue")' = At(r, "queue")
          /\ At(r, "serve")' = At(r, "serve")
       \/ /\ permits > 0 /\ permits' = permits - 1 /\ routes' = routes
          /\ ~ At(r, "queue") /\ ~ At(r, "serve") /\ At(r, "queue")'
       \/ /\ permits' = permits /\ routes > 0 /\ routes' = routes - 1
          /\ At(r, "queue") /\ At(r, "serve")'
       \/ /\ permits' = permits + 1 /\ routes' = routes
          /\ At(r, "queue") /\ ~ At(r, "queue")' /\ ~ At(r, "serve")'
       \/ /\ permits' = permits + 1 /\ routes' = routes + 1
          /\ At(r, "serve") /\ ~ At(r, "queue")' /\ ~ At(r, "serve")'

---------------------------------------------------------------------------
(* Calls and what they ask. *)

\* The fresh call is a call (gateway_handlers.rs:25-77).
LEMMA IdleType == Idle \in Call /\ Idle.pc = "idle" /\ Idle.key = NoKey
<1>1. (CHOOSE b \in Bodies : TRUE) \in Bodies
  BY GatewayAssumption
<1> QED BY <1>1 DEF Idle, Call, Reply, None

\* Whatever a client asks is a call wherever it is put (gateway_handlers.rs:78-93).
LEMMA AskType ==
  ASSUME NEW ask \in Asks
  PROVE  /\ [ask EXCEPT !.pc = "admit"] \in Call
         /\ \A what \in Reply : [ask EXCEPT !.pc = "over", !.reply = what] \in Call
         /\ ask.key \in Keys \cup {NoKey}
         /\ ask.body \in Bodies
<1>1. CASE \E s \in BOOLEAN : ask = [Idle EXCEPT !.stream = s]
  <2>1. PICK s \in BOOLEAN : ask = [Idle EXCEPT !.stream = s]
    BY <1>1
  <2>2. ask \in Call
    BY <2>1, IdleType DEF Call
  <2> QED BY <2>2 DEF Call
<1>2. CASE \E k \in Keys, b \in Bodies : ask = [Idle EXCEPT !.key = k, !.body = b]
  <2>1. PICK k \in Keys, b \in Bodies : ask = [Idle EXCEPT !.key = k, !.body = b]
    BY <1>2
  <2>2. ask \in Call
    BY <2>1, IdleType DEF Call
  <2> QED BY <2>2 DEF Call
<1>3. CASE ask \in {[Idle EXCEPT !.stream = s] : s \in BOOLEAN}
  BY <1>1, <1>3
<1>4. CASE ask \in UNION {{[Idle EXCEPT !.key = k, !.body = b] : b \in Bodies} : k \in Keys}
  <2>1. PICK k \in Keys : ask \in {[Idle EXCEPT !.key = k, !.body = b] : b \in Bodies}
    BY <1>4
  <2> QED BY <1>2, <2>1
<1> QED BY <1>3, <1>4 DEF Asks

\* A request that is over says what it was answered (gateway_handlers.rs:94-131).
LEMMA SayStep ==
  ASSUME Typed, NEW r \in Requests, NEW what \in Reply, Say(r, what)
  PROVE  /\ call' \in [Requests -> Call]
         /\ call'[r].pc = "over"
         /\ \A s \in Requests \ {r} : call'[s] = call[s]
<1>1. [Idle EXCEPT !.pc = "over", !.reply = what] \in Call
  BY IdleType DEF Call
<1>2. [Idle EXCEPT !.pc = "over", !.reply = what].pc = "over"
  BY IdleType DEF Call
<1> QED BY <1>1, <1>2 DEF Say, Typed

\* A request that goes on only moves (gateway.rs:1556-1606).
LEMMA GoStep ==
  ASSUME Typed, NEW r \in Requests, NEW loc \in {"admit", "queue", "serve"}, Go(r, loc)
  PROVE  /\ call' \in [Requests -> Call]
         /\ call'[r].pc = loc
         /\ \A s \in Requests \ {r} : call'[s] = call[s]
<1>1. call[r] \in Call
  BY DEF Typed
<1>2. [call[r] EXCEPT !.pc = loc] \in Call /\ [call[r] EXCEPT !.pc = loc].pc = loc
  BY <1>1 DEF Call
<1> QED BY <1>2 DEF Go, Typed

\* A whole or short answer ends the request or goes on to be kept (gateway_handlers.rs:417-456).
LEMMA AnswerStep ==
  ASSUME Typed, NEW r \in Requests, NEW what \in Reply, Answer(r, what)
  PROVE  /\ call' \in [Requests -> Call]
         /\ call'[r].pc \in {"keep", "over"}
         /\ \A s \in Requests \ {r} : call'[s] = call[s]
<1> DEFINE c == [call[r] EXCEPT !.reply = what,
                                !.pc = IF call[r].key # NoKey THEN "keep" ELSE "over"]
<1>1. call[r] \in Call
  BY DEF Typed
<1>2. c \in Call /\ c.pc \in {"keep", "over"}
  BY <1>1 DEF Call
<1>3. call' = [call EXCEPT ![r] = c]
  BY DEF Answer
<1> QED BY <1>2, <1>3 DEF Typed

---------------------------------------------------------------------------
(* The steps.  Each keeps the types and both invariants of places, and has an account. *)

\* The end of a slot, in every way a handler ends: nothing of it is left but, perhaps, its job,
\* which has been told (gateway.rs:1540-1545).
LEMMA DropStep ==
  ASSUME Typed, LineInv, JobInv, NEW r \in Requests, At(r, "serve"), DropSlot(r),
         call' \in [Requests -> Call], call'[r].pc \in {"keep", "over"},
         \A s \in Requests \ {r} : call'[s] = call[s],
         table' = table
  PROVE  Typed' /\ LineInv' /\ JobInv' /\ Account(r)
<1> USE DEF Typed, LineInv, JobInv
<1>1. /\ registered' = registered \ {r}
      /\ active' = active \ {r}
      /\ cancelled' = IF r \in active THEN cancelled \cup {r} ELSE cancelled
      /\ permits' = permits + 1
      /\ routes' = routes + 1
      /\ queue' = [queue EXCEPT ![r] = <<>>]
      /\ UNCHANGED <<running, line, job>>
  BY DEF DropSlot, Close, CancelJob, GiveBack
<1>2. Typed'
  <2>1. queue' \in [Requests -> Seq(Message)]
    BY <1>1
  <2>2. registered' \subseteq In("serve")'
    BY <1>1 DEF In, At
  <2> QED BY <1>1, <2>1, <2>2
<1>3. LineInv'
  <2>1. \A i \in DOMAIN line : line[i] \in Requests /\ line[i] # r
    BY DEF At
  <2> QED BY <1>1, <2>1 DEF At
<1>4. JobInv'
  BY <1>1 DEF At, Working
<1>5. Account(r)
  BY <1>1 DEF Account, At
<1> QED BY <1>2, <1>3, <1>4, <1>5

\* A client leaves while it is served (gateway.rs:1461-1462).
LEMMA LeaveStep ==
  ASSUME IInv, NEW r \in Requests, Leave(r)
  PROVE  Typed' /\ LineInv' /\ JobInv' /\ Account(r)
<1>1. "left" \in Reply
  BY DEF Reply
<1> QED BY <1>1, SayStep, DropStep DEF IInv, Leave

\* Done, or the calls that end an answer (gateway_handlers.rs:367-381).
LEMMA FinishStep ==
  ASSUME IInv, NEW r \in Requests, Finish(r)
  PROVE  Typed' /\ LineInv' /\ JobInv' /\ Account(r)
<1>1. "whole" \in Reply
  BY DEF Reply
<1> QED BY <1>1, AnswerStep, DropStep DEF IInv, Finish, Upcoming

\* An error message (gateway_handlers.rs:373-376).
LEMMA FailStep ==
  ASSUME IInv, NEW r \in Requests, Fail(r)
  PROVE  Typed' /\ LineInv' /\ JobInv' /\ Account(r)
<1>1. "error" \in Reply
  BY DEF Reply
<1> QED BY <1>1, SayStep, DropStep DEF IInv, Fail, Upcoming

\* The channel is closed (gateway_handlers.rs:175, 357, 417-437).
LEMMA ClosedStep ==
  ASSUME IInv, NEW r \in Requests, Closed(r)
  PROVE  Typed' /\ LineInv' /\ JobInv' /\ Account(r)
<1>1. {"cut", "short"} \subseteq Reply
  BY DEF Reply
<1>2. CASE call[r].stream
  BY <1>1, <1>2, SayStep, DropStep DEF IInv, Closed
<1>3. CASE ~ call[r].stream
  BY <1>1, <1>3, AnswerStep, DropStep DEF IInv, Closed
<1> QED BY <1>2, <1>3

\* Nothing came in time (gateway.rs:1515-1535).
LEMMA OverdueStep ==
  ASSUME IInv, NEW r \in Requests, FirstMessageOverdue(r)
  PROVE  Typed' /\ LineInv' /\ JobInv' /\ Account(r)
<1>1. "error" \in Reply
  BY DEF Reply
<1> QED BY <1>1, SayStep, DropStep DEF IInv, FirstMessageOverdue

\* A step that moves neither permits nor jobs nor the channel, from one place without permits to
\* another (gateway_handlers.rs:25-131, 447-456).
LEMMA OutsideStep ==
  ASSUME Typed, LineInv, JobInv, NEW r \in Requests,
         call[r].pc \notin {"queue", "serve"},
         call' \in [Requests -> Call], call'[r].pc \notin {"queue", "serve"},
         call'[r].pc = "admit" => job[r] = "none",
         \A s \in Requests \ {r} : call'[s] = call[s],
         table' \in [Keys -> Row],
         UNCHANGED <<running, permits, routes, line, registered, queue, bridge>>
  PROVE  Typed' /\ LineInv' /\ JobInv' /\ Account(r)
<1> USE DEF Typed, LineInv, JobInv, bridge
<1>1. \A s \in Requests : /\ At(s, "queue")' = At(s, "queue")
                          /\ At(s, "serve")' = At(s, "serve")
  BY DEF At
<1>2. Typed'
  BY <1>1 DEF In
<1>3. LineInv'
  <2>1. \A i \in DOMAIN line : line[i] \in Requests
    OBVIOUS
  <2> QED BY <1>1, <2>1
<1>4. JobInv'
  <2> SUFFICES ASSUME NEW s \in Requests
               PROVE  /\ call'[s].pc \in {"admit", "queue"} => job[s] = "none"
                      /\ At(s, "serve") /\ job[s] # "none" => s \in active
                      /\ job[s] = "none" => s \notin cancelled
                      /\ job[s] \in {"work", "close"} => At(s, "serve") \/ s \in cancelled
                      /\ s \in registered => s \in Working
    BY <1>1 DEF Working
  <2>1. call'[s].pc \in {"admit", "queue"} => job[s] = "none"
    BY DEF At
  <2> QED BY <2>1
<1>5. Account(r)
  BY <1>1 DEF Account
<1> QED BY <1>2, <1>3, <1>4, <1>5

\* chat_h up to its slot: only the table of keys and the request change.
LEMMA ArriveStep ==
  ASSUME IInv, NEW r \in Requests, Arrive(r)
  PROVE  Typed' /\ LineInv' /\ JobInv' /\ Account(r)
<1>1. /\ At(r, "idle") /\ job[r] = "none"
      /\ UNCHANGED <<running, permits, routes, line, registered, queue, bridge>>
  BY DEF Arrive
<1>2. PICK ask \in Asks : Undeduplicated(r, ask) \/ Reserve(r, ask) \/ Repeat(r, ask)
  BY DEF Arrive
<1>3. /\ call' \in [Requests -> Call]
      /\ call'[r].pc \in {"admit", "over"}
      /\ \A s \in Requests \ {r} : call'[s] = call[s]
  <2>1. CASE Undeduplicated(r, ask) \/ Reserve(r, ask)
    <3>1. call' = [call EXCEPT ![r] = [ask EXCEPT !.pc = "admit"]]
      BY <2>1 DEF Undeduplicated, Reserve
    <3>2. [ask EXCEPT !.pc = "admit"] \in Call
      BY AskType
    <3>3. [ask EXCEPT !.pc = "admit"].pc = "admit"
      BY <3>2 DEF Call
    <3> QED BY <3>1, <3>2, <3>3 DEF IInv, Typed
  <2>2. CASE Repeat(r, ask)
    <3> DEFINE what == Verdict(table[ask.key], ask.body)
    <3>1. call' = [call EXCEPT ![r] = [ask EXCEPT !.pc = "over", !.reply = what]]
      BY <2>2 DEF Repeat
    <3>2. what \in Reply
      BY DEF Verdict, Reply
    <3>3. [ask EXCEPT !.pc = "over", !.reply = what] \in Call
      BY <3>2, AskType
    <3>4. [ask EXCEPT !.pc = "over", !.reply = what].pc = "over"
      BY <3>3 DEF Call
    <3> QED BY <3>1, <3>3, <3>4 DEF IInv, Typed
  <2> QED BY <1>2, <2>1, <2>2
<1>4. table' \in [Keys -> Row]
  <2>1. CASE UNCHANGED table
    BY <2>1 DEF IInv, Typed
  <2>2. CASE Reserve(r, ask)
    <3>1. table' = [table EXCEPT ![ask.key] = [fingerprint |-> {ask.body}, answer |-> {}]]
      BY <2>2 DEF Reserve
    <3>2. [fingerprint |-> {ask.body}, answer |-> {}] \in Row
      BY AskType DEF Row
    <3> QED BY <3>1, <3>2 DEF IInv, Typed
  <2> QED BY <1>2, <2>1, <2>2 DEF Undeduplicated, Repeat
<1>5. call[r].pc \notin {"queue", "serve"} /\ call'[r].pc \notin {"queue", "serve"}
  BY <1>1, <1>3 DEF At
<1> QED BY <1>1, <1>3, <1>4, <1>5, OutsideStep DEF IInv

\* The answer is kept (gateway_handlers.rs:447-456).
LEMMA KeepStep ==
  ASSUME IInv, NEW r \in Requests, Keep(r)
  PROVE  Typed' /\ LineInv' /\ JobInv' /\ Account(r)
<1>1. call[r] \in Call /\ call[r].pc = "keep"
  BY DEF IInv, Typed, Keep, At
<1>2. [Idle EXCEPT !.pc = "over", !.reply = call[r].reply] \in Call
  BY <1>1, IdleType DEF Call
<1>3. [Idle EXCEPT !.pc = "over", !.reply = call[r].reply].pc = "over"
  BY <1>2 DEF Call
<1>4. /\ call' \in [Requests -> Call]
      /\ call'[r].pc = "over"
      /\ \A s \in Requests \ {r} : call'[s] = call[s]
  BY <1>2, <1>3 DEF IInv, Typed, Keep, Say
<1>5. table' \in [Keys -> Row]
  <2> DEFINE k == call[r].key
  <2>1. CASE UNCHANGED table
    BY <2>1 DEF IInv, Typed
  <2>2. CASE table' = [table EXCEPT ![k].answer =
                          IF table[k] = NoRow THEN {} ELSE {call[r].body}]
    <3>1. \A row \in Row : [row EXCEPT !.answer =
                              IF row = NoRow THEN {} ELSE {call[r].body}] \in Row
      BY <1>1 DEF Call, Row
    <3> QED BY <2>2, <3>1 DEF IInv, Typed
  <2> QED BY <2>1, <2>2 DEF Keep
<1>6. UNCHANGED <<running, permits, routes, line, registered, queue, bridge>>
  BY DEF Keep
<1> QED BY <1>1, <1>4, <1>5, <1>6, OutsideStep DEF IInv

\* 429 or 503 (gateway.rs:1565-1578).
LEMMA RefuseStep ==
  ASSUME IInv, NEW r \in Requests, Refuse(r)
  PROVE  Typed' /\ LineInv' /\ JobInv' /\ Account(r)
<1>1. "refused" \in Reply
  BY DEF Reply
<1> QED BY <1>1, SayStep, OutsideStep DEF IInv, Typed, Refuse, At

\* The connection begins again.
LEMMA AgainStep ==
  ASSUME IInv, NEW r \in Requests, Again(r)
  PROVE  Typed' /\ LineInv' /\ JobInv' /\ Account(r)
<1>1. call' \in [Requests -> Call] /\ call'[r].pc = "idle"
  BY IdleType DEF IInv, Typed, Again
<1>2. \A s \in Requests \ {r} : call'[s] = call[s]
  BY DEF IInv, Typed, Again
<1> QED BY <1>1, <1>2, OutsideStep DEF IInv, Typed, Again, At

\* Admission takes a permit and the last place of the line (gateway.rs:1571-1578).
LEMMA AdmitStep ==
  ASSUME IInv, NEW r \in Requests, Admit(r)
  PROVE  Typed' /\ LineInv' /\ JobInv' /\ Account(r)
<1> USE DEF IInv, Typed, bridge
<1>1. /\ call[r].pc = "admit" /\ permits > 0 /\ permits' = permits - 1
      /\ line' = Append(line, r)
      /\ UNCHANGED <<running, routes, registered, queue, job, active, cancelled, table>>
  BY DEF Admit, At
<1>2. /\ call' \in [Requests -> Call]
      /\ call'[r].pc = "queue"
      /\ \A s \in Requests \ {r} : call'[s] = call[s]
  BY GoStep DEF Admit
<1>3. Typed'
  <2>1. registered' \subseteq In("serve")'
    BY <1>1, <1>2 DEF In, At
  <2> QED BY <1>1, <1>2, <2>1
<1>4. LineInv'
  <2>1. \A i \in DOMAIN line : line[i] \in Requests /\ line[i] # r
    BY <1>1 DEF LineInv, At
  <2>2. /\ DOMAIN line' = 1 .. Len(line) + 1
        /\ \A i \in DOMAIN line' : line'[i] = IF i \in DOMAIN line THEN line[i] ELSE r
    BY <1>1
  <2>3. \A i \in DOMAIN line' : i \notin DOMAIN line => i = Len(line) + 1
    BY <2>2
  <2> QED BY <1>2, <2>1, <2>2, <2>3 DEF LineInv, At
<1>5. JobInv'
  BY <1>1, <1>2 DEF JobInv, At, Working
<1>6. Account(r)
  BY <1>1, <1>2 DEF Account, At
<1> QED BY <1>3, <1>4, <1>5, <1>6

\* The first of the line is routed and its job begins (gateway.rs:1579-1605,
\* router_bridge.rs:190-201).
LEMMA RouteStep ==
  ASSUME IInv, NEW r \in Requests, Route(r)
  PROVE  Typed' /\ LineInv' /\ JobInv' /\ Account(r)
<1> USE DEF IInv, Typed
<1>1. /\ routes > 0 /\ line # <<>> /\ r = Head(line) /\ line' = Tail(line)
      /\ routes' = routes - 1
      /\ registered' = registered \cup {r}
      /\ job' = [job EXCEPT ![r] = "work"]
      /\ active' = active \cup {r}
      /\ UNCHANGED <<running, permits, queue, cancelled, table>>
  BY DEF Route
<1>2. /\ call' \in [Requests -> Call]
      /\ call'[r].pc = "serve"
      /\ \A s \in Requests \ {r} : call'[s] = call[s]
  BY GoStep DEF Route
<1>3. 1 \in DOMAIN line /\ line[1] = r /\ At(r, "queue")
  BY <1>1 DEF LineInv
<1>4. Typed'
  <2>1. registered' \subseteq In("serve")'
    BY <1>1, <1>2 DEF In, At
  <2>2. line' \in Seq(Requests)
    BY <1>1
  <2>3. job' \in [Requests -> {"none", "work", "close", "end"}] /\ job'[r] = "work"
    BY <1>1
  <2>4. active' \subseteq {s \in Requests : job'[s] # "none"}
    BY <1>1, <2>3
  <2>5. routes' \in Nat
    BY <1>1
  <2> QED BY <1>1, <1>2, <2>1, <2>2, <2>3, <2>4, <2>5
<1>5. LineInv'
  <2>1. /\ DOMAIN line' = 1 .. Len(line) - 1
        /\ \A i \in DOMAIN line' : line'[i] = line[i + 1] /\ i + 1 \in DOMAIN line /\ i + 1 # 1
    BY <1>1
  <2>2. \A i \in DOMAIN line' : line'[i] # r /\ line'[i] \in Requests
    BY <1>3, <2>1 DEF LineInv
  <2>3. \A i \in DOMAIN line' : call'[line'[i]].pc = "queue"
    <3>1. \A i \in DOMAIN line' : call[line'[i]].pc = "queue"
      BY <2>1 DEF LineInv, At
    <3> QED BY <1>2, <2>2, <3>1
  <2>4. \A i, j \in DOMAIN line' : line'[i] = line'[j] => i = j
    BY <2>1 DEF LineInv
  <2> QED BY <2>3, <2>4 DEF LineInv, At
<1>6. JobInv'
  BY <1>1, <1>2, <1>3 DEF JobInv, At, Working
<1>7. Account(r)
  BY <1>1, <1>2, <1>3 DEF Account, At
<1> QED BY <1>4, <1>5, <1>6, <1>7

\* A client leaves the line (gateway.rs:1579-1582).
LEMMA LeaveQueueStep ==
  ASSUME IInv, NEW r \in Requests, LeaveQueue(r)
  PROVE  Typed' /\ LineInv' /\ JobInv' /\ Account(r)
<1> USE DEF IInv, Typed, bridge
<1>1. /\ call[r].pc = "queue" /\ permits' = permits + 1
      /\ UNCHANGED <<running, routes, registered, queue, job, active, cancelled, table>>
  BY DEF LeaveQueue, At
<1>2. "left" \in Reply
  BY DEF Reply
<1>3. /\ call' \in [Requests -> Call]
      /\ call'[r].pc = "over"
      /\ \A s \in Requests \ {r} : call'[s] = call[s]
  BY <1>2, SayStep DEF LeaveQueue
<1>4. PICK i \in DOMAIN line : line[i] = r /\ line' = RemoveAt(line, i)
  BY DEF LeaveQueue
<1>5. /\ line' \in Seq(Requests)
      /\ DOMAIN line' = 1 .. Len(line) - 1
      /\ \A j \in DOMAIN line' : line'[j] = IF j < i THEN line[j] ELSE line[j + 1]
  <2>1. i \in 1 .. Len(line)
    BY <1>4
  <2> DEFINE before == SubSeq(line, 1, i - 1)
             after == SubSeq(line, i + 1, Len(line))
  <2>2. /\ before \in Seq(Requests) /\ Len(before) = i - 1
        /\ \A j \in 1 .. i - 1 : before[j] = line[j]
    BY <2>1
  <2>3. /\ after \in Seq(Requests) /\ Len(after) = Len(line) - i
        /\ \A j \in 1 .. Len(line) - i : after[j] = line[i + j]
    BY <2>1
  <2>4. line' = before \o after
    BY <1>4 DEF RemoveAt
  <2> HIDE DEF before, after
  <2>5. \A j \in 1 .. Len(before) + Len(after) :
            line'[j] = IF j <= Len(before) THEN before[j] ELSE after[j - Len(before)]
    BY <2>2, <2>3, <2>4, ConcatProperties
  <2>6. Len(line') = Len(line) - 1 /\ line' \in Seq(Requests)
    <3>1. line' \in Seq(Requests) /\ Len(line') = Len(before) + Len(after)
      BY <2>2, <2>3, <2>4, ConcatProperties
    <3>2. Len(line) \in Nat /\ Len(before) + Len(after) = Len(line) - 1
      BY <2>1, <2>2, <2>3
    <3> QED BY <3>1, <3>2
  <2>7. \A j \in 1 .. Len(line) - 1 : line'[j] = IF j < i THEN line[j] ELSE line[j + 1]
    <3> SUFFICES ASSUME NEW j \in 1 .. Len(line) - 1
                 PROVE  line'[j] = IF j < i THEN line[j] ELSE line[j + 1]
      OBVIOUS
    <3>1. CASE j < i
      <4>1. j \in 1 .. i - 1 /\ j \in 1 .. Len(before) + Len(after) /\ j <= Len(before)
        <5>1. i \in Nat /\ Len(before) = i - 1 /\ Len(after) = Len(line) - i
          BY <2>1, <2>2, <2>3
        <5>2. j \in Nat /\ 1 <= j /\ j <= Len(line) - 1
          OBVIOUS
        <5> HIDE DEF IInv, Typed
        <5> QED BY <3>1, <5>1, <5>2
      <4>2. line'[j] = before[j]
        BY <2>5, <4>1
      <4>3. before[j] = line[j]
        BY <2>2, <4>1
      <4> QED BY <3>1, <4>2, <4>3
    <3>2. CASE ~ (j < i)
      <4>1. j \in Len(before) + 1 .. Len(before) + Len(after) /\ Len(line) \in Nat
        <5>1. i \in Nat /\ Len(line) \in Nat /\ Len(before) = i - 1 /\ Len(after) = Len(line) - i
          BY <2>1, <2>2, <2>3
        <5>2. j \in Nat /\ 1 <= j /\ j <= Len(line) - 1
          OBVIOUS
        <5> HIDE DEF IInv, Typed
        <5> QED BY <3>2, <5>1, <5>2
      <4>2. line'[j] = after[j - Len(before)]
        BY <2>2, <2>3, <2>5, <4>1
      <4>3. j - (i - 1) \in 1 .. Len(line) - i /\ i + (j - (i - 1)) = j + 1
        BY <2>1, <3>2, <4>1
      <4>4. after[j - (i - 1)] = line[j + 1]
        BY <2>3, <4>3
      <4> QED BY <2>2, <3>2, <4>2, <4>4
    <3> QED BY <3>1, <3>2
  <2>8. DOMAIN line' = 1 .. Len(line')
    BY <2>6
  <2> QED BY <2>1, <2>6, <2>7, <2>8
<1>6. Typed'
  <2>1. registered' \subseteq In("serve")'
    BY <1>1, <1>3 DEF In, At
  <2> QED BY <1>1, <1>3, <1>5, <2>1
<1>7. LineInv'
  <2>1. \A j \in DOMAIN line' : \E m \in DOMAIN line : /\ line'[j] = line[m] /\ m # i
                                                     /\ m = IF j < i THEN j ELSE j + 1
    <3> SUFFICES ASSUME NEW j \in DOMAIN line'
                 PROVE  \E m \in DOMAIN line : /\ line'[j] = line[m] /\ m # i
                                               /\ m = IF j < i THEN j ELSE j + 1
      OBVIOUS
    <3> DEFINE m == IF j < i THEN j ELSE j + 1
    <3>1. DOMAIN line = 1 .. Len(line) /\ Len(line) \in Nat
      OBVIOUS
    <3>2. j \in 1 .. Len(line) - 1 /\ i \in 1 .. Len(line)
      BY <1>5, <3>1
    <3>3. m \in 1 .. Len(line) /\ m # i
      BY <3>1, <3>2
    <3>4. line'[j] = line[m]
      BY <1>5
    <3> QED BY <3>1, <3>3, <3>4
  <2>2. \A j \in DOMAIN line' : line'[j] # r /\ line'[j] \in Requests
    BY <1>4, <2>1 DEF LineInv
  <2>3. \A j \in DOMAIN line' : call'[line'[j]].pc = "queue"
    <3>1. \A j \in DOMAIN line' : call[line'[j]].pc = "queue"
      BY <2>1 DEF LineInv, At
    <3> QED BY <1>3, <2>2, <3>1
  <2>4. ASSUME NEW j \in DOMAIN line', NEW k \in DOMAIN line', line'[j] = line'[k]
        PROVE  j = k
    <3>1. j \in Nat /\ k \in Nat /\ i \in Nat
      BY <1>4, <1>5
    <3>2. (IF j < i THEN j ELSE j + 1) = (IF k < i THEN k ELSE k + 1)
      BY <2>1, <2>4 DEF LineInv
    <3> QED BY <3>1, <3>2
  <2> QED BY <2>3, <2>4 DEF LineInv, At
<1>8. JobInv'
  BY <1>1, <1>3 DEF JobInv, At, Working
<1>9. Account(r)
  BY <1>1, <1>3 DEF Account, At
<1> QED BY <1>6, <1>7, <1>8, <1>9

\* A message that does not end the request is taken (gateway_handlers.rs:175-242, 357-366).
LEMMA HearStep ==
  ASSUME IInv, NEW r \in Requests, Hear(r)
  PROVE  Typed' /\ LineInv' /\ JobInv' /\ Account(r)
<1> USE DEF IInv, Typed, bridge
<1>1. /\ At(r, "serve") /\ queue[r] # <<>>
      /\ queue' = [queue EXCEPT ![r] = Tail(@)]
      /\ UNCHANGED <<running, permits, routes, line, registered, job, active, cancelled, table>>
  BY DEF Hear, Upcoming, Take
<1>2. /\ call' \in [Requests -> Call]
      /\ \A s \in Requests : call'[s].pc = call[s].pc
  <2>1. call' = [call EXCEPT ![r].heard = TRUE]
    BY DEF Hear
  <2>2. \A c \in Call : [c EXCEPT !.heard = TRUE] \in Call /\ [c EXCEPT !.heard = TRUE].pc = c.pc
    BY DEF Call
  <2> QED BY <2>1, <2>2
<1>3. \A s \in Requests : /\ At(s, "queue")' = At(s, "queue")
                          /\ At(s, "serve")' = At(s, "serve")
  BY <1>2 DEF At
<1>4. Typed'
  <2>1. queue' \in [Requests -> Seq(Message)]
    BY <1>1
  <2> QED BY <1>1, <1>2, <1>3, <2>1 DEF In
<1>5. LineInv'
  <2>1. \A i \in DOMAIN line : line[i] \in Requests
    OBVIOUS
  <2> QED BY <1>1, <1>3, <2>1 DEF LineInv
<1>6. JobInv'
  BY <1>1, <1>2, <1>3 DEF JobInv, Working
<1>7. Account(r)
  BY <1>1, <1>2, <1>3 DEF Account
<1> QED BY <1>4, <1>5, <1>6, <1>7

\* What is posted is queued or not; the registration stays or goes, and goes after a terminal
\* message (gateway.rs:773-796).
LEMMA PostStep ==
  ASSUME Typed, NEW r \in Requests, NEW m \in Message, Post(r, m)
  PROVE  /\ queue' \in [Requests -> Seq(Message)]
         /\ registered' \in {registered, registered \ {r}}
         /\ m \in {"done", "error"} \/ ~ Fits(r) => registered' = registered \ {r}
<1>1. Append(queue[r], m) \in Seq(Message)
  BY DEF Typed
<1> QED BY <1>1 DEF Post, Typed

\* A step of the job that moves neither requests nor permits (router_bridge.rs:190-565).
LEMMA JobSideStep ==
  ASSUME Typed, LineInv, NEW r \in Requests,
         UNCHANGED <<running, permits, routes, line, call, table>>,
         queue' \in [Requests -> Seq(Message)],
         registered' \in {registered, registered \ {r}},
         job' \in [Requests -> {"none", "work", "close", "end"}],
         cancelled' \subseteq Requests,
         active' \subseteq {s \in Requests : job'[s] # "none"},
         JobInv'
  PROVE  Typed' /\ LineInv' /\ JobInv' /\ Account(r)
<1>1. \A s : /\ At(s, "queue")' = At(s, "queue")
            /\ At(s, "serve")' = At(s, "serve")
  BY DEF At
<1>2. Typed'
  BY <1>1 DEF Typed, In
<1>3. LineInv'
  BY <1>1 DEF LineInv
<1>4. Account(r)
  BY <1>1 DEF Account
<1> QED BY <1>2, <1>3, <1>4

\* A chunk (router_bridge.rs:325-415).
LEMMA SpeakStep ==
  ASSUME IInv, NEW r \in Requests, Speak(r)
  PROVE  Typed' /\ LineInv' /\ JobInv' /\ Account(r)
<1>1. /\ job[r] \in {"work", "close"} /\ Post(r, "chunk")
      /\ UNCHANGED <<running, permits, routes, line, call, job, active, table>>
  BY DEF Speak
<1>2. UNCHANGED cancelled \/ (~ Fits(r) /\ cancelled' = cancelled \cup {r})
  BY DEF Speak
<1>3. /\ queue' \in [Requests -> Seq(Message)]
      /\ registered' \in {registered, registered \ {r}}
      /\ ~ Fits(r) => registered' = registered \ {r}
  BY <1>1, PostStep DEF IInv, Message
<1>4. JobInv'
  BY <1>1, <1>2, <1>3 DEF IInv, JobInv, At, Working
<1> QED BY <1>1, <1>2, <1>3, <1>4, JobSideStep DEF IInv, Typed

\* The calls that are passed through (router_bridge.rs:511-520).
LEMMA PassCallsStep ==
  ASSUME IInv, NEW r \in Requests, PassCalls(r)
  PROVE  Typed' /\ LineInv' /\ JobInv' /\ Account(r)
<1>1. /\ job[r] = "work" /\ Post(r, "calls") /\ job' = [job EXCEPT ![r] = "close"]
      /\ UNCHANGED <<running, permits, routes, line, call, active, cancelled, table>>
  BY DEF PassCalls
<1>2. /\ queue' \in [Requests -> Seq(Message)]
      /\ registered' \in {registered, registered \ {r}}
  BY <1>1, PostStep DEF IInv, Message
<1>3. job' \in [Requests -> {"none", "work", "close", "end"}]
  BY <1>1 DEF IInv, Typed
<1>4. active' \subseteq {s \in Requests : job'[s] # "none"}
  BY <1>1 DEF IInv, Typed
<1>5. JobInv'
  BY <1>1, <1>2 DEF IInv, Typed, JobInv, At, Working
<1> QED BY <1>1, <1>2, <1>3, <1>4, <1>5, JobSideStep DEF IInv, Typed

\* The end of the turn (router_bridge.rs:240-255, 497-565): whoever ends closes the channel, or
\* was told to stop and has no channel any more.
LEMMA ConcludeStep ==
  ASSUME IInv, NEW r \in Requests, Conclude(r)
  PROVE  Typed' /\ LineInv' /\ JobInv' /\ Account(r)
<1>1. /\ job[r] \in {"work", "close"} /\ job' = [job EXCEPT ![r] = "end"]
      /\ UNCHANGED <<running, permits, routes, line, call, active, cancelled, table>>
  BY DEF Conclude
<1>2. /\ queue' \in [Requests -> Seq(Message)]
      /\ registered' = registered \ {r}
  <2>1. CASE \E m \in {"done", "error"} : Post(r, m)
    BY <2>1, PostStep DEF IInv, Message
  <2>2. CASE r \in cancelled /\ UNCHANGED <<queue, registered>>
    <3>1. r \notin registered
      BY <2>2 DEF IInv, JobInv, Working
    <3> QED BY <2>2, <3>1 DEF IInv, Typed
  <2> QED BY <2>1, <2>2 DEF Conclude
<1>3. job' \in [Requests -> {"none", "work", "close", "end"}]
  BY <1>1 DEF IInv, Typed
<1>4. active' \subseteq {s \in Requests : job'[s] # "none"}
  BY <1>1 DEF IInv, Typed
<1>5. JobInv'
  BY <1>1, <1>2 DEF IInv, Typed, JobInv, At, Working
<1> QED BY <1>1, <1>2, <1>3, <1>4, <1>5, JobSideStep DEF IInv, Typed

\* The task forgets its flag (router_bridge.rs:196-200).
LEMMA ExitStep ==
  ASSUME IInv, NEW r \in Requests, Exit(r)
  PROVE  Typed' /\ LineInv' /\ JobInv' /\ Account(r)
<1>1. /\ job[r] = "end" /\ job' = [job EXCEPT ![r] = "none"]
      /\ active' = active \ {r} /\ cancelled' = cancelled \ {r}
      /\ UNCHANGED <<running, permits, routes, line, call, registered, queue, table>>
  BY DEF Exit
<1>2. r \notin registered
  BY <1>1 DEF IInv, JobInv, Working
<1>3. job' \in [Requests -> {"none", "work", "close", "end"}]
  BY <1>1 DEF IInv, Typed
<1>4. active' \subseteq {s \in Requests : job'[s] # "none"}
  BY <1>1 DEF IInv, Typed
<1>5. JobInv'
  BY <1>1, <1>2 DEF IInv, Typed, JobInv, At, Working
<1> QED BY <1>1, <1>3, <1>4, <1>5, JobSideStep DEF IInv, Typed

---------------------------------------------------------------------------
(* Counting. *)

\* The holders of permits are finitely many.
LEMMA HoldersFinite ==
  /\ IsFiniteSet(In("queue")) /\ IsFiniteSet(In("serve"))
  /\ IsFiniteSet(In("queue") \cup In("serve"))
  /\ Cardinality(In("queue") \cup In("serve")) \in Nat
  /\ Cardinality(In("serve")) \in Nat
<1>1. /\ In("queue") \subseteq Requests /\ In("serve") \subseteq Requests
      /\ In("queue") \cup In("serve") \subseteq Requests
  BY DEF In
<1> QED BY <1>1, GatewayAssumption, FS_Subset, FS_CardinalityType

\* A step with an account keeps both sums (gateway.rs:1461-1468, 1571-1592).
LEMMA SlotsStep ==
  ASSUME Typed, SlotsConserved, NEW r \in Requests, Account(r)
  PROVE  SlotsConserved'
<1> DEFINE Q == In("queue")
           S == In("serve")
           H == Q \cup S
<1>1. /\ IsFiniteSet(H) /\ IsFiniteSet(S)
      /\ Cardinality(H) \in Nat /\ Cardinality(S) \in Nat
      /\ permits + Cardinality(H) = Permits /\ routes + Cardinality(S) = Routes
      /\ permits \in Nat /\ routes \in Nat /\ Permits \in Nat /\ Routes \in Nat
  BY HoldersFinite, GatewayAssumption DEF SlotsConserved, Typed
<1>2. \A s \in Requests \ {r} : (s \in Q' <=> s \in Q) /\ (s \in S' <=> s \in S)
  BY DEF Account, In, At
<1>3. Q \subseteq Requests /\ S \subseteq Requests /\ Q' \subseteq Requests /\ S' \subseteq Requests
  BY DEF In
<1>4. /\ (r \in Q <=> At(r, "queue")) /\ (r \in S <=> At(r, "serve"))
      /\ (r \in Q' <=> At(r, "queue")') /\ (r \in S' <=> At(r, "serve")')
      /\ ~ (r \in Q /\ r \in S) /\ ~ (r \in Q' /\ r \in S')
  BY DEF In, At
<1> SUFFICES /\ permits' + Cardinality(H') = Permits
             /\ routes' + Cardinality(S') = Routes
  BY GatewayAssumption DEF SlotsConserved
<1> HIDE DEF Q, S
<1>5. CASE permits' = permits /\ routes' = routes /\ (r \in Q' <=> r \in Q) /\ (r \in S' <=> r \in S)
  <2>1. H' = H /\ S' = S
    BY <1>2, <1>3, <1>5
  <2> QED BY <1>1, <1>5, <2>1
<1>6. CASE permits' = permits - 1 /\ routes' = routes /\ r \notin H /\ r \in Q'
  <2>1. H' = H \cup {r} /\ S' = S
    BY <1>2, <1>3, <1>4, <1>6
  <2>2. Cardinality(H') = Cardinality(H) + 1
    BY <1>1, <1>6, <2>1, FS_AddElement
  <2> QED BY <1>1, <1>6, <2>1, <2>2
<1>7. CASE permits' = permits /\ routes' = routes - 1 /\ r \in Q /\ r \in S'
  <2>1. H' = H /\ S' = S \cup {r} /\ r \notin S
    BY <1>2, <1>3, <1>4, <1>7
  <2>2. Cardinality(S') = Cardinality(S) + 1
    BY <1>1, <2>1, FS_AddElement
  <2>3. Cardinality(H') = Cardinality(H)
    BY <2>1
  <2> QED BY <1>1, <1>7, <2>2, <2>3
<1>8. CASE permits' = permits + 1 /\ routes' = routes /\ r \in Q /\ r \notin H'
  <2>1. H' = H \ {r} /\ S' = S
    BY <1>2, <1>3, <1>4, <1>8
  <2>2. Cardinality(H \ {r}) = Cardinality(H) - 1
    BY <1>1, <1>8, FS_RemoveElement
  <2>3. Cardinality(H') = Cardinality(H) - 1
    BY <2>1, <2>2
  <2> QED BY <1>1, <1>8, <2>1, <2>3
<1>9. CASE permits' = permits + 1 /\ routes' = routes + 1 /\ r \in S /\ r \notin H'
  <2>1. H' = H \ {r} /\ S' = S \ {r}
    BY <1>2, <1>3, <1>4, <1>9
  <2>2. Cardinality(H \ {r}) = Cardinality(H) - 1
    BY <1>1, <1>9, FS_RemoveElement
  <2>3. Cardinality(S \ {r}) = Cardinality(S) - 1
    BY <1>1, <1>9, FS_RemoveElement
  <2>4. Cardinality(H') = Cardinality(H) - 1 /\ Cardinality(S') = Cardinality(S) - 1
    BY <2>1, <2>2, <2>3
  <2> HIDE DEF H
  <2> QED BY <1>1, <1>9, <2>4
<1> QED BY <1>4, <1>5, <1>6, <1>7, <1>8, <1>9 DEF Account

---------------------------------------------------------------------------
(* The invariant. *)

\* Nothing runs at first.
LEMMA InitIInv == Init => IInv
<1> SUFFICES ASSUME Init PROVE IInv
  OBVIOUS
<1>1. call \in [Requests -> Call] /\ \A r \in Requests : call[r].pc = "idle"
  BY IdleType DEF Init
<1>2. In("queue") = {} /\ In("serve") = {}
  BY <1>1 DEF In, At
<1>3. SlotsConserved
  <2>1. In("queue") \cup In("serve") = {} /\ Cardinality({}) = 0
    BY <1>2, FS_EmptySet
  <2>2. Cardinality(In("queue") \cup In("serve")) = 0 /\ Cardinality(In("serve")) = 0
    BY <1>2, <2>1
  <2>3. permits = Permits /\ routes = Routes /\ Permits \in Nat /\ Routes \in Nat
    BY GatewayAssumption DEF Init
  <2> QED BY <2>2, <2>3 DEF SlotsConserved
<1>4. Typed
  <2>1. NoRow \in Row
    BY DEF NoRow, Row
  <2>2. running \in BOOLEAN
    BY Zenon DEF Init
  <2>3. /\ permits \in Nat /\ routes \in Nat /\ line \in Seq(Requests)
        /\ call \in [Requests -> Call]
        /\ queue \in [Requests -> Seq(Message)]
        /\ job \in [Requests -> {"none", "work", "close", "end"}]
        /\ cancelled \subseteq Requests
        /\ table \in [Keys -> Row]
        /\ registered \subseteq In("serve")
        /\ active \subseteq {r \in Requests : job[r] # "none"}
    BY <1>1, <2>1, GatewayAssumption DEF Init
  <2> QED BY <2>2, <2>3 DEF Typed
<1>5. LineInv /\ JobInv
  BY <1>1 DEF LineInv, JobInv, Init, At, Working
<1> QED BY <1>3, <1>4, <1>5 DEF IInv

\* A death and a restart: nothing runs again (gateway.rs:980-1000).
LEMMA CrashStep ==
  ASSUME IInv, Crash
  PROVE  IInv'
<1>1. call' \in [Requests -> Call] /\ \A r \in Requests : call'[r].pc = "idle"
  BY IdleType DEF Crash
<1>2. In("queue")' = {} /\ In("serve")' = {}
  BY <1>1 DEF In, At
<1>3. SlotsConserved'
  <2>1. In("queue")' \cup In("serve")' = {} /\ Cardinality({}) = 0
    BY <1>2, FS_EmptySet
  <2>2. Cardinality(In("queue") \cup In("serve"))' = 0 /\ Cardinality(In("serve"))' = 0
    BY <1>2, <2>1
  <2>3. permits' = Permits /\ routes' = Routes /\ Permits \in Nat /\ Routes \in Nat
    BY GatewayAssumption DEF Crash
  <2> QED BY <2>2, <2>3 DEF SlotsConserved
<1>4. Typed'
  <2>1. running' \in BOOLEAN
    BY Zenon DEF Crash
  <2>2. /\ permits' \in Nat /\ routes' \in Nat /\ line' \in Seq(Requests)
        /\ call' \in [Requests -> Call]
        /\ queue' \in [Requests -> Seq(Message)]
        /\ job' \in [Requests -> {"none", "work", "close", "end"}]
        /\ cancelled' \subseteq Requests
        /\ table' \in [Keys -> Row]
        /\ registered' \subseteq In("serve")'
        /\ active' \subseteq {r \in Requests : job'[r] # "none"}
    BY <1>1, GatewayAssumption DEF IInv, Typed, Crash
  <2> QED BY <2>1, <2>2 DEF Typed
<1>5. LineInv' /\ JobInv'
  BY <1>1 DEF LineInv, JobInv, Crash, At, Working
<1> QED BY <1>3, <1>4, <1>5 DEF IInv

\* Steps of the switch and of the prune see no request (gateway.rs:1351-1353, persist.rs:793-797).
LEMMA ApartStep ==
  ASSUME IInv, running' \in BOOLEAN, table' \in [Keys -> Row],
         UNCHANGED <<permits, routes, line, call, registered, queue, bridge>>
  PROVE  IInv'
<1>1. \A s : /\ At(s, "queue")' = At(s, "queue")
            /\ At(s, "serve")' = At(s, "serve")
  BY DEF At
<1>2. In("queue")' = In("queue") /\ In("serve")' = In("serve")
  BY <1>1 DEF In
<1>3. Typed' /\ SlotsConserved'
  BY <1>2 DEF IInv, Typed, SlotsConserved, bridge
<1>4. LineInv' /\ JobInv'
  BY <1>1 DEF IInv, LineInv, JobInv, Working, bridge
<1> QED BY <1>3, <1>4 DEF IInv

\* Every step keeps the invariant.
LEMMA NextIInv == IInv /\ [Next]_vars => IInv'
<1> SUFFICES ASSUME IInv, [Next]_vars PROVE IInv'
  OBVIOUS
<1>1. ASSUME NEW r \in Requests, Client(r) \/ Handler(r) \/ Route(r) \/ FirstMessageOverdue(r) \/ Job(r)
      PROVE  IInv'
  <2>1. Typed' /\ LineInv' /\ JobInv' /\ Account(r)
    <3>1. CASE Client(r)
      BY <3>1, ArriveStep, LeaveQueueStep, LeaveStep, AgainStep DEF Client
    <3>2. CASE Handler(r)
      BY <3>2, RefuseStep, AdmitStep, HearStep, FinishStep, FailStep, ClosedStep, KeepStep
      DEF Handler
    <3>3. CASE Job(r)
      BY <3>3, SpeakStep, PassCallsStep, ConcludeStep, ExitStep DEF Job
    <3> QED BY <1>1, <3>1, <3>2, <3>3, RouteStep, OverdueStep
  <2>2. SlotsConserved'
    BY <2>1, SlotsStep DEF IInv
  <2> QED BY <2>1, <2>2 DEF IInv
<1>2. ASSUME NEW k \in Keys, Prune(k)
      PROVE  IInv'
  <2>1. table' \in [Keys -> Row]
    <3>1. NoRow \in Row
      BY DEF NoRow, Row
    <3> QED BY <1>2, <3>1 DEF Prune, IInv, Typed
  <2> QED BY <1>2, <2>1, ApartStep DEF Prune, IInv, Typed
<1>3. CASE Switch
  BY <1>3, ApartStep DEF Switch, IInv, Typed
<1>4. CASE Crash
  BY <1>4, CrashStep
<1>5. CASE UNCHANGED vars
  BY <1>5, ApartStep DEF vars, bridge, IInv, Typed
<1> QED BY <1>1, <1>2, <1>3, <1>4, <1>5 DEF Next

\* The invariant is one.
LEMMA Invariance == Spec => []IInv
BY InitIInv, NextIInv, PTL DEF Spec

---------------------------------------------------------------------------
(* The theorems. *)

\* The types, and that a registration has a handler and a flag has a job (gateway.rs:752-800,
\* router_bridge.rs:190-208).
THEOREM TypeCorrect == Spec => []TypeOK
<1>1. IInv => TypeOK
  <2> SUFFICES ASSUME IInv PROVE TypeOK
    OBVIOUS
  <2>1. permits \in 0 .. Permits /\ routes \in 0 .. Routes
    BY HoldersFinite, GatewayAssumption DEF IInv, Typed, SlotsConserved
  <2> QED BY <2>1 DEF IInv, Typed, TypeOK
<1> QED BY <1>1, Invariance, PTL

\* No permit of either semaphore is lost or doubled, wherever a client leaves (gateway.rs:1461-1484,
\* 1571-1592).
THEOREM SlotsAreConserved == Spec => []SlotsConserved
<1>1. IInv => SlotsConserved
  BY DEF IInv
<1> QED BY <1>1, Invariance, PTL

\* A handler waits at an open and empty channel only for a job that is at work
\* (gateway.rs:768-796).
THEOREM NobodyIsForgotten == Spec => []NobodyWaitsInVain
<1>1. IInv => NobodyWaitsInVain
  BY DEF IInv, Typed, In, JobInv, NobodyWaitsInVain
<1> QED BY <1>1, Invariance, PTL

\* At most Routes jobs are at work that have not been told to stop (gateway.rs:1466-1467).
THEOREM RoutesAreBounded == Spec => []RoutesBound
<1>1. IInv => RoutesBound
  <2> SUFFICES ASSUME IInv PROVE RoutesBound
    OBVIOUS
  <2>1. Working \subseteq In("serve")
    BY DEF IInv, JobInv, Working, In
  <2>2. Cardinality(Working) <= Cardinality(In("serve")) /\ Cardinality(Working) \in Nat
    BY <2>1, HoldersFinite, FS_Subset, FS_CardinalityType
  <2>3. Cardinality(In("serve")) <= Routes
    BY HoldersFinite, GatewayAssumption DEF IInv, Typed, SlotsConserved
  <2> QED BY <2>2, <2>3, HoldersFinite, GatewayAssumption DEF RoutesBound
<1> QED BY <1>1, Invariance, PTL

---------------------------------------------------------------------------
(* One execution for a key. *)

\* What a row keeps is the answer to the body it was reserved with (persist.rs:1326-1377).
RowsMatch == \A k \in Keys : table[k].answer \subseteq table[k].fingerprint

\* A request with a key on its way has the row of that key: reserved for its body, unanswered.
Reserved ==
    \A r \in Requests :
        InFlight(r) /\ call[r].key # NoKey
        => table[call[r].key] = [fingerprint |-> {call[r].body}, answer |-> {}]

KeyInv == RowsMatch /\ Reserved /\ OneExecution

\* A step of r that leaves the table alone, and in which r ends or goes on with the same ask.
GoesOn(r) ==
    /\ UNCHANGED table
    /\ \A s \in Requests \ {r} : call'[s] = call[s]
    /\ \/ call'[r].pc \in {"idle", "over"}
       \/ InFlight(r) /\ call'[r].key = call[r].key /\ call'[r].body = call[r].body

\* Who ends or goes on keeps the slots' invariant (gateway_handlers.rs:94-131).
LEMMA GoesOnKeeps ==
  ASSUME KeyInv, NEW r \in Requests, GoesOn(r)
  PROVE  KeyInv'
<1>1. RowsMatch'
  BY DEF KeyInv, RowsMatch, GoesOn
<1>2. ASSUME NEW s \in Requests, InFlight(s)'
      PROVE  InFlight(s) /\ call'[s].key = call[s].key /\ call'[s].body = call[s].body
  BY <1>2 DEF GoesOn, InFlight
<1>3. Reserved'
  BY <1>2 DEF KeyInv, Reserved, GoesOn
<1>4. OneExecution'
  BY <1>2 DEF KeyInv, OneExecution
<1> QED BY <1>1, <1>3, <1>4 DEF KeyInv

\* A request that is told how it ended goes on, in the sense above (gateway_handlers.rs:94-131).
LEMMA SayGoesOn ==
  ASSUME Typed, NEW r \in Requests, NEW what, Say(r, what), UNCHANGED table
  PROVE  GoesOn(r)
<1>1. call' = [call EXCEPT ![r] = [Idle EXCEPT !.pc = "over", !.reply = what]]
  BY DEF Say
<1>2. call'[r] = [Idle EXCEPT !.pc = "over", !.reply = what]
  BY <1>1 DEF Typed
<1>3. call'[r].pc = "over"
  BY <1>2 DEF Idle
<1> QED BY <1>1, <1>3 DEF GoesOn, Typed

\* So does one that moves on from a place on the way (gateway.rs:1556-1606).
LEMMA GoGoesOn ==
  ASSUME Typed, NEW r \in Requests, NEW loc \in {"queue", "serve"}, Go(r, loc), InFlight(r),
         UNCHANGED table
  PROVE  GoesOn(r)
<1>1. call[r] \in Call
  BY DEF Typed
<1>2. call'[r].key = call[r].key /\ call'[r].body = call[r].body
  BY <1>1 DEF Go, Typed, Call
<1> QED BY <1>2 DEF GoesOn, Go, Typed

\* So does one whose answer is there (gateway_handlers.rs:417-456).
LEMMA AnswerGoesOn ==
  ASSUME Typed, NEW r \in Requests, NEW what, Answer(r, what), InFlight(r),
         UNCHANGED table
  PROVE  GoesOn(r)
<1>1. call[r] \in Call
  BY DEF Typed
<1>2. call'[r].key = call[r].key /\ call'[r].body = call[r].body
  BY <1>1 DEF Answer, Typed, Call
<1> QED BY <1>2 DEF GoesOn, Answer, Typed

\* The handler's, the client's and the job's steps between the slot's reservation and the answer's
\* being kept: none of them touches the table (gateway_handlers.rs:94-131, 417-456).
LEMMA BetweenGoesOn ==
  ASSUME Typed, LineInv, NEW r \in Requests,
         \/ Refuse(r) \/ Admit(r) \/ Route(r) \/ LeaveQueue(r) \/ Leave(r) \/ Hear(r)
         \/ Finish(r) \/ Fail(r) \/ Closed(r) \/ FirstMessageOverdue(r) \/ Again(r) \/ Job(r)
  PROVE  GoesOn(r)
<1>1. CASE Refuse(r)
  BY <1>1, SayGoesOn DEF Refuse, Reply
<1>2. CASE LeaveQueue(r) \/ Leave(r)
  BY <1>2, SayGoesOn DEF LeaveQueue, Leave, Reply
<1>3. CASE Fail(r) \/ FirstMessageOverdue(r)
  BY <1>3, SayGoesOn DEF Fail, FirstMessageOverdue, Reply
<1>4. CASE Admit(r)
  BY <1>4, GoGoesOn DEF Admit, InFlight, At
<1>5. CASE Route(r)
  <2>1. line # <<>> /\ line \in Seq(Requests) /\ r = Head(line)
    BY <1>5 DEF Route, Typed
  <2>2. 1 \in DOMAIN line /\ line[1] = r
    BY <2>1
  <2>3. At(r, "queue")
    BY <2>2 DEF LineInv
  <2> QED BY <1>5, <2>3, GoGoesOn DEF Route, InFlight, At
<1>6. CASE Finish(r)
  BY <1>6, AnswerGoesOn DEF Finish, Upcoming, InFlight, At, Reply
<1>7. CASE Closed(r)
  BY <1>7, SayGoesOn, AnswerGoesOn DEF Closed, InFlight, At, Reply
<1>8. CASE Hear(r)
  <2>1. call[r] \in Call /\ InFlight(r)
    BY <1>8 DEF Typed, Hear, Upcoming, InFlight, At
  <2>2. call'[r].key = call[r].key /\ call'[r].body = call[r].body
    BY <1>8, <2>1 DEF Hear, Typed, Call
  <2> QED BY <1>8, <2>1, <2>2 DEF GoesOn, Hear, Typed
<1>9. CASE Again(r)
  <2>1. call' = [call EXCEPT ![r] = Idle] /\ UNCHANGED table
    BY <1>9 DEF Again
  <2>2. call'[r].pc = "idle"
    BY <2>1 DEF Idle, Typed
  <2> QED BY <2>1, <2>2 DEF GoesOn, Typed
<1>10. CASE Job(r)
  <2>1. UNCHANGED <<call, table>>
    BY <1>10 DEF Job, Speak, PassCalls, Conclude, Exit
  <2>2. call[r] \in Call
    BY DEF Typed
  <2>3. call[r].pc \in {"idle", "over"} \/ InFlight(r)
    BY <2>2 DEF Call, InFlight
  <2> QED BY <2>1, <2>3 DEF GoesOn
<1> QED BY <1>1, <1>2, <1>3, <1>4, <1>5, <1>6, <1>7, <1>8, <1>9, <1>10

\* What a client asks has its fields, and no answer yet.
LEMMA AskReply ==
  ASSUME NEW ask \in Asks
  PROVE  /\ ask.reply = None
         /\ \A loc : /\ [ask EXCEPT !.pc = loc].pc = loc
                     /\ [ask EXCEPT !.pc = loc].key = ask.key
                     /\ [ask EXCEPT !.pc = loc].body = ask.body
                     /\ [ask EXCEPT !.pc = loc].reply = ask.reply
         /\ \A loc, what : /\ [ask EXCEPT !.pc = loc, !.reply = what].pc = loc
                           /\ [ask EXCEPT !.pc = loc, !.reply = what].key = ask.key
                           /\ [ask EXCEPT !.pc = loc, !.reply = what].body = ask.body
                           /\ [ask EXCEPT !.pc = loc, !.reply = what].reply = what
<1>1. ask \in Call /\ ask.reply = None
  <2>1. CASE ask \in {[Idle EXCEPT !.stream = s] : s \in BOOLEAN}
    <3>1. PICK s \in BOOLEAN : ask = [Idle EXCEPT !.stream = s]
      BY <2>1
    <3>2. [Idle EXCEPT !.stream = s] \in Call
      BY IdleType DEF Call
    <3>3. [Idle EXCEPT !.stream = s].reply = None
      BY DEF Idle
    <3> QED BY <3>1, <3>2, <3>3
  <2>2. CASE ask \in UNION {{[Idle EXCEPT !.key = k, !.body = b] : b \in Bodies} : k \in Keys}
    <3>1. PICK k \in Keys : ask \in {[Idle EXCEPT !.key = k, !.body = b] : b \in Bodies}
      BY <2>2
    <3>2. PICK b \in Bodies : ask = [Idle EXCEPT !.key = k, !.body = b]
      BY <3>1
    <3>3. [Idle EXCEPT !.key = k, !.body = b] \in Call
      BY IdleType DEF Call
    <3>4. [Idle EXCEPT !.key = k, !.body = b].reply = None
      BY DEF Idle
    <3> QED BY <3>2, <3>3, <3>4
  <2> QED BY <2>1, <2>2 DEF Asks
<1>2. ask = [f \in {"pc", "key", "body", "stream", "heard", "reply"} |-> ask[f]]
  BY <1>1 DEF Call
<1> QED BY <1>1, <1>2 DEF Call

\* The slot: a key that is new is reserved for its body, and one that is not sends the request
\* away (persist.rs:1326-1377).
LEMMA ArriveKeys ==
  ASSUME "begin" \notin Faults, Typed, KeyInv, NEW r \in Requests, Arrive(r)
  PROVE  KeyInv'
<1>1. PICK ask \in Asks : Undeduplicated(r, ask) \/ Reserve(r, ask) \/ Repeat(r, ask)
  BY DEF Arrive
<1>2. ask.key \in Keys \cup {NoKey} /\ ask.body \in Bodies /\ ask.reply = None
  BY AskType, AskReply
<1> DEFINE admitted == [ask EXCEPT !.pc = "admit"]
<1>3. /\ admitted.pc = "admit" /\ admitted.key = ask.key /\ admitted.body = ask.body
      /\ admitted.reply = None
  BY <1>2, AskReply
<1>4. ~ InFlight(r)
  BY DEF Arrive, At, InFlight
<1>5. CASE Undeduplicated(r, ask)
  <2>1. call' = [call EXCEPT ![r] = admitted] /\ UNCHANGED table /\ ask.key = NoKey
    BY <1>5 DEF Undeduplicated
  <2>2. call'[r] = admitted /\ \A s \in Requests \ {r} : call'[s] = call[s]
    BY <2>1 DEF Typed
  <2> HIDE DEF admitted
  <2>3. call'[r].key = NoKey
    BY <1>3, <2>1, <2>2
  <2>4. RowsMatch' /\ Reserved'
    BY <2>1, <2>2, <2>3 DEF KeyInv, RowsMatch, Reserved, InFlight
  <2>5. OneExecution'
    BY <2>2, <2>3 DEF KeyInv, OneExecution, InFlight
  <2> QED BY <2>4, <2>5 DEF KeyInv
<1>6. CASE Reserve(r, ask)
  <2> DEFINE new == [fingerprint |-> {ask.body}, answer |-> {}]
  <2>1. /\ call' = [call EXCEPT ![r] = admitted] /\ table' = [table EXCEPT ![ask.key] = new]
        /\ ask.key \in Keys /\ table[ask.key] = NoRow
    BY <1>2, <1>6 DEF Reserve, Free
  <2>2. call'[r] = admitted /\ \A s \in Requests \ {r} : call'[s] = call[s]
    BY <2>1 DEF Typed
  <2>3. table'[ask.key] = new /\ \A k \in Keys \ {ask.key} : table'[k] = table[k]
    BY <2>1 DEF Typed
  <2> HIDE DEF admitted
  <2>4. call'[r].key = ask.key /\ call'[r].body = ask.body
    BY <1>3, <2>2
  <2>5. ASSUME NEW s \in Requests \ {r}, InFlight(s), call[s].key # NoKey
        PROVE  call[s].key # ask.key
    <3>1. table[call[s].key].fingerprint = {call[s].body}
      <4>1. table[call[s].key] = [fingerprint |-> {call[s].body}, answer |-> {}]
        BY <2>5 DEF KeyInv, Reserved
      <4> QED BY <4>1
    <3>2. table[ask.key].fingerprint = {}
      BY <2>1 DEF NoRow
    <3> QED BY <3>1, <3>2
  <2>6. RowsMatch'
    BY <2>3 DEF KeyInv, RowsMatch
  <2>7. Reserved'
    <3> SUFFICES ASSUME NEW s \in Requests, InFlight(s)', call'[s].key # NoKey
                 PROVE  table'[call'[s].key] = [fingerprint |-> {call'[s].body}, answer |-> {}]
      BY DEF Reserved
    <3>1. CASE s = r
      BY <2>3, <2>4, <3>1
    <3>2. CASE s # r
      <4>1. call'[s] = call[s] /\ call[s].key \in Keys /\ InFlight(s)
        BY <2>2, <3>2 DEF Typed, Call, InFlight
      <4>2. table'[call[s].key] = table[call[s].key]
        BY <2>3, <2>5, <3>2, <4>1
      <4> QED BY <4>1, <4>2 DEF KeyInv, Reserved
    <3> QED BY <3>1, <3>2
  <2>8. OneExecution'
    <3> SUFFICES ASSUME NEW p \in Requests, NEW q \in Requests,
                        p # q, InFlight(p)', InFlight(q)', call'[p].key # NoKey
                 PROVE  call'[p].key # call'[q].key
      BY DEF OneExecution
    <3>1. CASE p # r /\ q # r
      BY <2>2, <3>1 DEF KeyInv, OneExecution, InFlight
    <3>2. CASE p = r
      BY <2>2, <2>4, <2>5, <3>2 DEF InFlight
    <3>3. CASE q = r
      BY <2>2, <2>4, <2>5, <3>3 DEF InFlight
    <3> QED BY <3>1, <3>2, <3>3
  <2> QED BY <2>6, <2>7, <2>8 DEF KeyInv
<1>7. CASE Repeat(r, ask)
  <2> DEFINE said == Verdict(table[ask.key], ask.body)
             sent == [ask EXCEPT !.pc = "over", !.reply = said]
  <2>1. call' = [call EXCEPT ![r] = sent] /\ UNCHANGED table /\ ask.key \in Keys
    BY <1>2, <1>7 DEF Repeat
  <2>2. call'[r] = sent /\ \A s \in Requests \ {r} : call'[s] = call[s]
    BY <2>1 DEF Typed
  <2>3. sent.pc = "over"
    BY AskReply
  <2>4. GoesOn(r)
    BY <2>1, <2>2, <2>3 DEF GoesOn
  <2> QED BY <2>4, GoesOnKeeps
<1> QED BY <1>1, <1>5, <1>6, <1>7

\* Keeping an answer puts it in the row of its own body, and leaves every other row and every
\* other request's alone (persist.rs:1381-1392).
LEMMA KeepKeys ==
  ASSUME Typed, KeyInv, NEW r \in Requests, Keep(r)
  PROVE  KeyInv'
<1> DEFINE k == call[r].key
<1>1. InFlight(r) /\ call[r] \in Call
  BY DEF Keep, At, InFlight, Typed
<1>2. call' = [call EXCEPT ![r] = [Idle EXCEPT !.pc = "over", !.reply = call[r].reply]]
  BY DEF Keep, Say
<1>3. /\ call'[r] = [Idle EXCEPT !.pc = "over", !.reply = call[r].reply]
      /\ \A s \in Requests \ {r} : call'[s] = call[s]
  BY <1>2 DEF Typed
<1>4. call'[r].pc = "over"
  BY <1>3 DEF Idle
<1>5. ASSUME NEW s \in Requests, InFlight(s)'
      PROVE  s # r /\ InFlight(s) /\ call'[s] = call[s]
  BY <1>3, <1>4, <1>5 DEF InFlight
<1>6. OneExecution'
  BY <1>5 DEF KeyInv, OneExecution
<1>7. \A j \in Keys \ {k} : table'[j] = table[j]
  BY DEF Keep, Typed
<1>8. Reserved'
  <2> SUFFICES ASSUME NEW s \in Requests, InFlight(s)', call'[s].key # NoKey
               PROVE  table'[call'[s].key] = [fingerprint |-> {call'[s].body}, answer |-> {}]
    BY DEF Reserved
  <2>1. s # r /\ InFlight(s) /\ call'[s] = call[s] /\ call[s].key \in Keys
    BY <1>5 DEF Typed, Call
  <2>2. call[s].key # k
    BY <1>1, <2>1 DEF KeyInv, OneExecution
  <2> QED BY <1>7, <2>1, <2>2 DEF KeyInv, Reserved
<1>9. RowsMatch'
  <2>1. CASE UNCHANGED table
    BY <2>1 DEF KeyInv, RowsMatch
  <2>2. CASE k = NoKey
    BY <1>7, <2>2, GatewayAssumption DEF KeyInv, RowsMatch
  <2>3. CASE k # NoKey /\ ~ UNCHANGED table
    <3> DEFINE kept == IF table[k] = NoRow THEN {} ELSE {call[r].body}
    <3>1. table' = [table EXCEPT ![k].answer = kept]
      BY <2>3 DEF Keep
    <3>2. k \in Keys /\ table[k] \in Row
      BY <1>1, <2>3 DEF Typed, Call
    <3>3. table'[k].answer = kept /\ table'[k].fingerprint = table[k].fingerprint
      BY <3>1, <3>2 DEF Typed, Row
    <3>4. table[k].fingerprint = {call[r].body}
      <4>1. table[k] = [fingerprint |-> {call[r].body}, answer |-> {}]
        BY <1>1, <2>3 DEF KeyInv, Reserved
      <4> QED BY <4>1
    <3> QED BY <1>7, <3>2, <3>3, <3>4 DEF KeyInv, RowsMatch
  <2> QED BY <2>1, <2>2, <2>3
<1> QED BY <1>6, <1>8, <1>9 DEF KeyInv

\* Pruning forgets a key that nobody on the way has (persist.rs:793-797).
LEMMA PruneKeys ==
  ASSUME Typed, KeyInv, NEW k \in Keys, Prune(k)
  PROVE  KeyInv'
<1>1. UNCHANGED call /\ table' = [table EXCEPT ![k] = NoRow]
  BY DEF Prune
<1>2. table'[k] = NoRow /\ \A j \in Keys \ {k} : table'[j] = table[j]
  BY <1>1 DEF Typed
<1>3. RowsMatch'
  BY <1>2 DEF KeyInv, RowsMatch, NoRow
<1>4. ASSUME NEW s \in Requests, InFlight(s)
      PROVE  call[s].key # k /\ call[s].key \in Keys \cup {NoKey}
  BY <1>4 DEF Prune, InFlight, Typed, Call
<1>5. Reserved'
  BY <1>1, <1>2, <1>4 DEF KeyInv, Reserved, InFlight
<1>6. OneExecution'
  BY <1>1 DEF KeyInv, OneExecution, InFlight
<1> QED BY <1>3, <1>5, <1>6 DEF KeyInv

\* After a restart nobody is on the way; the rows are on disk (gateway.rs:980-1000).
LEMMA CrashKeys ==
  ASSUME KeyInv, Crash
  PROVE  KeyInv'
<1>1. UNCHANGED table /\ \A r \in Requests : call'[r] = Idle
  BY DEF Crash
<1>2. Idle.pc = "idle"
  BY DEF Idle
<1>3. \A r \in Requests : ~ InFlight(r)'
  BY <1>1, <1>2 DEF InFlight
<1> QED BY <1>1, <1>2, <1>3 DEF KeyInv, RowsMatch, Reserved, OneExecution

\* Every step keeps the slots' invariant, if the store can look keys up.
LEMMA NextKeys ==
  ASSUME "begin" \notin Faults, IInv, KeyInv, [Next]_vars
  PROVE  KeyInv'
<1>1. Typed /\ LineInv
  BY DEF IInv
<1>2. ASSUME NEW r \in Requests,
             Client(r) \/ Handler(r) \/ Route(r) \/ FirstMessageOverdue(r) \/ Job(r)
      PROVE  KeyInv'
  <2>1. CASE Arrive(r)
    BY <1>1, <2>1, ArriveKeys
  <2>2. CASE Keep(r)
    BY <1>1, <2>2, KeepKeys
  <2>3. CASE ~ Arrive(r) /\ ~ Keep(r)
    BY <1>1, <1>2, <2>3, BetweenGoesOn, GoesOnKeeps DEF Client, Handler
  <2> QED BY <2>1, <2>2, <2>3
<1>4. CASE \E r \in Requests :
             Client(r) \/ Handler(r) \/ Route(r) \/ FirstMessageOverdue(r) \/ Job(r)
  BY <1>2, <1>4
<1>5. CASE \E k \in Keys : Prune(k)
  BY <1>1, <1>5, PruneKeys DEF Prune
<1>6. CASE Switch \/ UNCHANGED vars
  <2>1. UNCHANGED <<call, table>>
    BY <1>6 DEF Switch, vars
  <2> QED BY <2>1 DEF KeyInv, RowsMatch, Reserved, OneExecution, InFlight
<1>7. CASE Crash
  BY <1>7, CrashKeys
<1> QED BY <1>4, <1>5, <1>6, <1>7 DEF Next

\* At the start no key has been used.
LEMMA InitKeys == Init => KeyInv
<1> SUFFICES ASSUME Init PROVE KeyInv
  OBVIOUS
<1>1. \A r \in Requests : ~ InFlight(r)
  BY IdleType DEF Init, InFlight
<1> QED BY <1>1 DEF Init, KeyInv, RowsMatch, Reserved, OneExecution, NoRow

\* If the store can look a key up, two requests with one key are never both on their way: the
\* second finds the row of the first, which neither a crash nor the prune takes from it
\* (gateway_handlers.rs:73-80, persist.rs:1326-1377).
THEOREM KeysAreExclusive ==
  ASSUME "begin" \notin Faults
  PROVE  Spec => []OneExecution
<1>1. IInv /\ KeyInv /\ [Next]_vars => KeyInv'
  BY NextKeys
<1>2. KeyInv => OneExecution
  BY DEF KeyInv
<1> QED BY <1>1, <1>2, InitKeys, Invariance, PTL DEF Spec

---------------------------------------------------------------------------
(* The slot implements Once: one executor at a time, and none once there is an answer. *)

\* Who holds a key after a step of r: the others as before.
LEMMA OthersHold ==
  ASSUME NEW r \in Requests, \A s \in Requests \ {r} : call'[s] = call[s], NEW k
  PROVE  /\ ~ InFlight(r)' \/ call'[r].key # k => Holder(k)' = Holder(k) \ {r}
         /\ InFlight(r)' /\ call'[r].key = k => Holder(k)' = Holder(k) \cup {r}
  BY DEF Holder, InFlight

\* The holder of a key holds it alone, and the key's row is its reservation.
LEMMA HolderIsAlone ==
  ASSUME KeyInv, NEW k \in Keys, NEW r \in Holder(k)
  PROVE  Holder(k) = {r} /\ table[k] = [fingerprint |-> {call[r].body}, answer |-> {}]
<1>1. k # NoKey
  BY GatewayAssumption
<1> QED BY <1>1 DEF KeyInv, OneExecution, Reserved, Holder

\* Who ends lets go of its key; who goes on holds it (gateway_handlers.rs:94-131).
LEMMA GoesOnMaps ==
  ASSUME KeyInv, NEW r \in Requests, GoesOn(r)
  PROVE  Slot!Next
<1> DEFINE lost == {k \in Keys : r \in Holder(k) /\ ~ InFlight(r)'}
<1>1. UNCHANGED table /\ \A s \in Requests \ {r} : call'[s] = call[s]
  BY DEF GoesOn
<1>2. ASSUME NEW k \in Keys
      PROVE  Holder(k)' = IF k \in lost THEN {} ELSE Holder(k)
  <2>1. CASE InFlight(r)'
    <3>1. InFlight(r) /\ call'[r].key = call[r].key
      BY <2>1 DEF GoesOn, InFlight
    <3> QED BY <1>1, <2>1, <3>1 DEF Holder, InFlight
  <2>2. CASE ~ InFlight(r)'
    <3>1. Holder(k)' = Holder(k) \ {r}
      BY <1>1, <2>2, OthersHold
    <3>2. r \in Holder(k) => Holder(k) = {r}
      BY HolderIsAlone
    <3> QED BY <2>2, <3>1, <3>2
  <2> QED BY <2>1, <2>2
<1> HIDE DEF lost
<1>3. Slot!LetGo(lost)
  BY <1>1, <1>2 DEF Slot!LetGo
<1> QED BY <1>3 DEF Slot!Next, lost

\* The reservation takes the key; the rest of the slot's answers take nothing
\* (persist.rs:1326-1377).
LEMMA ArriveMaps ==
  ASSUME "begin" \notin Faults, Typed, KeyInv, NEW r \in Requests, Arrive(r)
  PROVE  Slot!Next
<1>1. PICK ask \in Asks : Undeduplicated(r, ask) \/ Reserve(r, ask) \/ Repeat(r, ask)
  BY DEF Arrive
<1>2. ask.key \in Keys \cup {NoKey} /\ ask.body \in Bodies
  BY AskType
<1>3. ~ InFlight(r)
  BY DEF Arrive, At, InFlight
<1>4. CASE Undeduplicated(r, ask)
  <2> DEFINE admitted == [ask EXCEPT !.pc = "admit"]
  <2>1. call' = [call EXCEPT ![r] = admitted] /\ UNCHANGED table /\ ask.key = NoKey
    BY <1>4 DEF Undeduplicated
  <2>2. admitted.key = NoKey
    BY <2>1, AskReply
  <2> HIDE DEF admitted
  <2>3. call'[r].key = NoKey /\ \A s \in Requests \ {r} : call'[s] = call[s]
    BY <2>1, <2>2 DEF Typed
  <2>4. ASSUME NEW k \in Keys PROVE Holder(k)' = Holder(k)
    BY <1>3, <2>3, OthersHold, GatewayAssumption DEF Holder
  <2>5. Slot!LetGo({})
    BY <2>1, <2>4 DEF Slot!LetGo
  <2> QED BY <2>5 DEF Slot!Next
<1>5. CASE Reserve(r, ask)
  <2> DEFINE admitted == [ask EXCEPT !.pc = "admit"]
             new == [fingerprint |-> {ask.body}, answer |-> {}]
  <2>1. /\ call' = [call EXCEPT ![r] = admitted] /\ table' = [table EXCEPT ![ask.key] = new]
        /\ ask.key \in Keys /\ table[ask.key] = NoRow
    BY <1>2, <1>5 DEF Reserve, Free
  <2>2. admitted.key = ask.key /\ admitted.pc = "admit"
    BY AskReply
  <2> HIDE DEF admitted
  <2>3. /\ call'[r].key = ask.key /\ InFlight(r)'
        /\ \A s \in Requests \ {r} : call'[s] = call[s]
    BY <2>1, <2>2 DEF Typed, InFlight
  <2>4. table'[ask.key] = new /\ \A k \in Keys \ {ask.key} : table'[k] = table[k]
    BY <2>1 DEF Typed
  <2>5. Holder(ask.key) = {} /\ table[ask.key].fingerprint = {} /\ table[ask.key].answer = {}
    <3>1. table[ask.key].fingerprint = {} /\ table[ask.key].answer = {}
      BY <2>1 DEF NoRow
    <3>2. ASSUME NEW s \in Holder(ask.key) PROVE FALSE
      <4>1. table[ask.key] = [fingerprint |-> {call[s].body}, answer |-> {}]
        BY <2>1, HolderIsAlone
      <4>2. table[ask.key].fingerprint = {call[s].body}
        BY <4>1
      <4> QED BY <3>1, <4>2
    <3> QED BY <3>1, <3>2
  <2>6. Holder(ask.key)' = {r} /\ \A k \in Keys \ {ask.key} : Holder(k)' = Holder(k)
    <3>1. Holder(ask.key)' = {r}
      BY <2>3, <2>5, OthersHold
    <3>2. ASSUME NEW k \in Keys \ {ask.key} PROVE Holder(k)' = Holder(k)
      BY <1>3, <2>3, OthersHold DEF Holder
    <3> QED BY <3>1, <3>2
  <2>7. /\ table'[ask.key].fingerprint = {ask.body} /\ table'[ask.key].answer = {}
        /\ \A k \in Keys \ {ask.key} : /\ table'[k].fingerprint = table[k].fingerprint
                                      /\ table'[k].answer = table[k].answer
    BY <2>4
  <2>8. Slot!Take(ask.key, r, ask.body)
    <3>1. [k \in Keys |-> Holder(k)]' = [[k \in Keys |-> Holder(k)] EXCEPT ![ask.key] = {r}]
      BY <2>1, <2>6
    <3>2. [k \in Keys |-> table[k].fingerprint]'
            = [[k \in Keys |-> table[k].fingerprint] EXCEPT ![ask.key] = {ask.body}]
      BY <2>1, <2>7
    <3>3. [k \in Keys |-> table[k].answer]' = [k \in Keys |-> table[k].answer]
      BY <2>1, <2>5, <2>7
    <3> QED BY <2>1, <2>5, <3>1, <3>2, <3>3 DEF Slot!Take
  <2> QED BY <1>2, <2>1, <2>8 DEF Slot!Next
<1>6. CASE Repeat(r, ask)
  <2> DEFINE said == Verdict(table[ask.key], ask.body)
             sent == [ask EXCEPT !.pc = "over", !.reply = said]
  <2>1. call' = [call EXCEPT ![r] = sent] /\ UNCHANGED table
    BY <1>6 DEF Repeat
  <2>2. call'[r] = sent /\ \A s \in Requests \ {r} : call'[s] = call[s]
    BY <2>1 DEF Typed
  <2>3. sent.pc = "over"
    BY AskReply
  <2>4. GoesOn(r)
    BY <2>1, <2>2, <2>3 DEF GoesOn
  <2> QED BY <2>4, GoesOnMaps
<1> QED BY <1>1, <1>4, <1>5, <1>6

\* The holder stores its answer, or lets go without one (persist.rs:1381-1392).
LEMMA KeepMaps ==
  ASSUME Typed, KeyInv, NEW r \in Requests, Keep(r)
  PROVE  Slot!Next
<1> PICK k : k = call[r].key
  OBVIOUS
<1>1. InFlight(r) /\ call[r] \in Call
  BY DEF Keep, At, InFlight, Typed
<1>2. call' = [call EXCEPT ![r] = [Idle EXCEPT !.pc = "over", !.reply = call[r].reply]]
  BY DEF Keep, Say
<1>3. call'[r].pc = "over" /\ \A s \in Requests \ {r} : call'[s] = call[s]
  BY <1>2 DEF Typed, Idle
<1>4. CASE UNCHANGED table
  <2>1. GoesOn(r)
    BY <1>3, <1>4 DEF GoesOn
  <2> QED BY <2>1, GoesOnMaps
<1>5. CASE ~ UNCHANGED table
  <2> DEFINE kept == IF table[k] = NoRow THEN {} ELSE {call[r].body}
  <2>1. table' = [table EXCEPT ![k].answer = kept]
    BY <1>5 DEF Keep
  <2>2. k \in Keys /\ r \in Holder(k)
    <3>1. CASE k \notin Keys
      <4>1. table' = table
        BY <2>1, <3>1 DEF Typed
      <4> QED BY <1>5, <4>1
    <3>2. CASE k \in Keys
      BY <1>1, <3>2 DEF Holder
    <3> QED BY <3>1, <3>2
  <2>3. Holder(k) = {r} /\ table[k] = [fingerprint |-> {call[r].body}, answer |-> {}]
    BY <2>2, HolderIsAlone
  <2>4. table[k].fingerprint = {call[r].body} /\ table[k].answer = {} /\ table[k] # NoRow
    <3>1. table[k].fingerprint = {call[r].body} /\ table[k].answer = {}
      BY <2>3
    <3> QED BY <3>1 DEF NoRow
  <2>5. /\ table'[k].answer = {call[r].body} /\ table'[k].fingerprint = table[k].fingerprint
        /\ \A j \in Keys \ {k} : table'[j] = table[j]
    BY <2>1, <2>2, <2>4 DEF Typed, Row
  <2>6. Holder(k)' = {}
    BY <1>3, <2>3, OthersHold DEF InFlight
  <2>7. ASSUME NEW j \in Keys \ {k} PROVE Holder(j)' = Holder(j)
    BY <1>3, OthersHold DEF InFlight, Holder
  <2>8. [j \in Keys |-> Holder(j)]' = [[j \in Keys |-> Holder(j)] EXCEPT ![k] = {}]
    BY <2>2, <2>6, <2>7
  <2>9. [j \in Keys |-> table[j].answer]'
          = [[j \in Keys |-> table[j].answer] EXCEPT ![k] = table[k].fingerprint]
    BY <2>2, <2>4, <2>5
  <2>10. [j \in Keys |-> table[j].fingerprint]' = [j \in Keys |-> table[j].fingerprint]
    BY <2>2, <2>5
  <2>11. Slot!Store(k)
    BY <2>2, <2>3, <2>8, <2>9, <2>10 DEF Slot!Store
  <2> QED BY <2>2, <2>11 DEF Slot!Next
<1> QED BY <1>4, <1>5

\* Pruning forgets a key, and only one that nobody holds (persist.rs:793-797).
LEMMA PruneMaps ==
  ASSUME Typed, NEW k \in Keys, Prune(k)
  PROVE  Slot!Next
<1>1. UNCHANGED call /\ table' = [table EXCEPT ![k] = NoRow]
  BY DEF Prune
<1>2. /\ table'[k].fingerprint = {} /\ table'[k].answer = {}
      /\ \A j \in Keys \ {k} : table'[j] = table[j]
  <2>1. table'[k] = NoRow /\ \A j \in Keys \ {k} : table'[j] = table[j]
    BY <1>1 DEF Typed
  <2> QED BY <2>1 DEF NoRow
<1>3. Holder(k) = {} /\ \A j \in Keys : Holder(j)' = Holder(j)
  BY <1>1 DEF Prune, Holder, InFlight
<1>4. [j \in Keys |-> table[j].fingerprint]'
        = [[j \in Keys |-> table[j].fingerprint] EXCEPT ![k] = {}]
  BY <1>2
<1>5. [j \in Keys |-> table[j].answer]' = [[j \in Keys |-> table[j].answer] EXCEPT ![k] = {}]
  BY <1>2
<1>6. Slot!Forget(k)
  BY <1>3, <1>4, <1>5 DEF Slot!Forget
<1> QED BY <1>6 DEF Slot!Next

\* When the process dies every holder lets go, and no row is lost (gateway.rs:980-1000).
LEMMA CrashMaps ==
  ASSUME Crash
  PROVE  Slot!Next
<1>1. UNCHANGED table /\ \A r \in Requests : call'[r] = Idle
  BY DEF Crash
<1>2. ASSUME NEW k \in Keys PROVE Holder(k)' = {}
  BY <1>1, IdleType DEF Holder, InFlight
<1>3. Slot!LetGo(Keys)
  BY <1>1, <1>2 DEF Slot!LetGo
<1> QED BY <1>3 DEF Slot!Next

\* Every step is one of Once, or none.
LEMMA NextMaps ==
  ASSUME "begin" \notin Faults, IInv, KeyInv, [Next]_vars
  PROVE  [Slot!Next]_(Slot!ovars)
<1>1. Typed /\ LineInv
  BY DEF IInv
<1>2. ASSUME NEW r \in Requests,
             Client(r) \/ Handler(r) \/ Route(r) \/ FirstMessageOverdue(r) \/ Job(r)
      PROVE  Slot!Next
  <2>1. CASE Arrive(r)
    BY <1>1, <2>1, ArriveMaps
  <2>2. CASE Keep(r)
    BY <1>1, <2>2, KeepMaps
  <2>3. CASE ~ Arrive(r) /\ ~ Keep(r)
    BY <1>1, <1>2, <2>3, BetweenGoesOn, GoesOnMaps DEF Client, Handler
  <2> QED BY <2>1, <2>2, <2>3
<1>3. CASE \E k \in Keys : Prune(k)
  BY <1>1, <1>3, PruneMaps
<1>4. CASE Switch \/ UNCHANGED vars
  <2>1. UNCHANGED <<call, table>>
    BY <1>4 DEF Switch, vars
  <2>2. UNCHANGED Slot!ovars
    BY <2>1 DEF Slot!ovars, Holder, InFlight
  <2> QED BY <2>2
<1>5. CASE Crash
  BY <1>5, CrashMaps
<1> QED BY <1>2, <1>3, <1>4, <1>5 DEF Next

\* At the start nobody holds a key and none has been used.
LEMMA InitMaps == Init => Slot!Init
<1> SUFFICES ASSUME Init PROVE Slot!Init
  OBVIOUS
<1>1. ASSUME NEW k \in Keys PROVE Holder(k) = {}
  BY IdleType DEF Init, Holder, InFlight
<1>2. ASSUME NEW k \in Keys PROVE table[k].fingerprint = {} /\ table[k].answer = {}
  BY DEF Init, NoRow
<1> QED BY <1>1, <1>2 DEF Slot!Init

\* If the store can look keys up, a key's request is executed by one at a time, and not again once it
\* is answered, whatever is retried, refused, left, pruned or lost in a crash, and also when an answer
\* cannot be stored (persist.rs:1296-1395, gateway_handlers.rs:73-80).
THEOREM ImplementsOnce ==
  ASSUME "begin" \notin Faults
  PROVE  Spec => ExecutesOnce
<1>1. IInv /\ KeyInv /\ [Next]_vars => KeyInv' /\ [Slot!Next]_(Slot!ovars)
  BY NextKeys, NextMaps
<1> QED BY <1>1, InitKeys, InitMaps, Invariance, PTL DEF Spec, ExecutesOnce, Slot!Spec
=============================================================================
