-------------------------------- MODULE Once --------------------------------
(***************************************************************************)
(* What an Idempotency-Key is for, with the slots, channels and jobs of    *)
(* the gateway left out: the request of a key is executed by one at a      *)
(* time, and never again once it is answered.                              *)
(*   - A key that nobody holds and that has no answer is taken by one      *)
(*     request, for one body.                                              *)
(*   - The holder stores an answer to that body, or lets go without one,   *)
(*     so that a failed request may be executed again; several let go      *)
(*     together when the process dies.                                     *)
(*   - A key that is answered is taken again only when it was forgotten,   *)
(*     and nobody forgets a key that is held.                              *)
(***************************************************************************)
CONSTANTS Requests, Keys, Bodies

VARIABLES
    holder,   \* who executes the request of a key: one request at most
    body,     \* the body it was taken for
    answer    \* the body its stored answer is for

ovars == <<holder, body, answer>>

Init ==
    /\ holder = [k \in Keys |-> {}]
    /\ body = [k \in Keys |-> {}]
    /\ answer = [k \in Keys |-> {}]

Take(k, r, b) ==
    /\ holder[k] = {}
    /\ answer[k] = {}
    /\ holder' = [holder EXCEPT ![k] = {r}]
    /\ body' = [body EXCEPT ![k] = {b}]
    /\ UNCHANGED answer

Store(k) ==
    /\ holder[k] # {}
    /\ holder' = [holder EXCEPT ![k] = {}]
    /\ answer' = [answer EXCEPT ![k] = body[k]]
    /\ UNCHANGED body

LetGo(lost) ==
    /\ holder' = [k \in Keys |-> IF k \in lost THEN {} ELSE holder[k]]
    /\ UNCHANGED <<body, answer>>

Forget(k) ==
    /\ holder[k] = {}
    /\ body' = [body EXCEPT ![k] = {}]
    /\ answer' = [answer EXCEPT ![k] = {}]
    /\ UNCHANGED holder

Next ==
    \/ \E lost \in SUBSET Keys : LetGo(lost)
    \/ \E k \in Keys : \/ \E r \in Requests, b \in Bodies : Take(k, r, b)
                       \/ Store(k)
                       \/ Forget(k)

Spec == Init /\ [][Next]_ovars
=============================================================================
