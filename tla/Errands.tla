------------------------------ MODULE Errands ------------------------------
(***************************************************************************)
(* What the capture queue promises of every turn it has accepted           *)
(* (drain.ts:9-17, capture.rs:555-603): the turn waits until it is settled *)
(* for good, only a settled turn is swept away, and every turn that waits  *)
(* is settled in the end.  How often it is claimed, given back or          *)
(* recovered from a crash in between is none of the promise's business.    *)
(***************************************************************************)
CONSTANT Ids

VARIABLE errand

State == {"new", "waiting", "settled", "swept"}

Init == errand = [i \in Ids |-> "new"]

Accept(i) == errand[i] = "new" /\ errand' = [errand EXCEPT ![i] = "waiting"]

Settle(i) == errand[i] = "waiting" /\ errand' = [errand EXCEPT ![i] = "settled"]

\* One sweep takes any number of settled errands.
Sweep ==
    \E S \in SUBSET {i \in Ids : errand[i] = "settled"} :
        errand' = [i \in Ids |-> IF i \in S THEN "swept" ELSE errand[i]]

Next == (\E i \in Ids : Accept(i) \/ Settle(i)) \/ Sweep

Safe == Init /\ [][Next]_errand

Spec == Safe /\ \A i \in Ids : WF_errand(Settle(i))
=============================================================================
