------------------------------ MODULE Delivery ------------------------------
(***************************************************************************)
(* What a caller of ModelRouter::generate_text is promised, with the       *)
(* candidates, permits, deadlines and re-probes left out:                  *)
(*   - however many keys are tried, output comes from one key at most;     *)
(*   - once output has come, the only ends are a clean one, which is       *)
(*     booked as ok, and a break, which is booked as NETWORK;              *)
(*   - before output has come, no end is booked as ok;                     *)
(*   - each request is booked once.                                        *)
(***************************************************************************)
CONSTANTS Requests, Keys

VARIABLES
    phase,    \* idle, trying, delivering or booked
    source,   \* the key whose output the caller has seen
    booking   \* the class of the request's ledger row

None == "none"
Empty == {"CANCELLED", "NO_OUTPUT", "PARSE_ERROR", "SPENT", "NO_ROUTE"}

dvars == <<phase, source, booking>>

Init ==
    /\ phase = [r \in Requests |-> "idle"]
    /\ source = [r \in Requests |-> {}]
    /\ booking = [r \in Requests |-> None]

Accept(r) ==
    /\ phase[r] = "idle"
    /\ phase' = [phase EXCEPT ![r] = "trying"]
    /\ UNCHANGED <<source, booking>>

Refuse(r) ==
    /\ phase[r] = "idle"
    /\ phase' = [phase EXCEPT ![r] = "booked"]
    /\ booking' = [booking EXCEPT ![r] = "NO_ROUTE"]
    /\ UNCHANGED source

Deliver(r, k) ==
    /\ phase[r] = "trying"
    /\ phase' = [phase EXCEPT ![r] = "delivering"]
    /\ source' = [source EXCEPT ![r] = {k}]
    /\ UNCHANGED booking

Book(r, class) ==
    /\ \/ phase[r] = "delivering" /\ class \in {"ok", "NETWORK"}
       \/ phase[r] = "trying" /\ class \in Empty
    /\ phase' = [phase EXCEPT ![r] = "booked"]
    /\ booking' = [booking EXCEPT ![r] = class]
    /\ UNCHANGED source

Forget(r) ==
    /\ phase[r] = "booked"
    /\ phase' = [phase EXCEPT ![r] = "idle"]
    /\ source' = [source EXCEPT ![r] = {}]
    /\ booking' = [booking EXCEPT ![r] = None]

Next ==
    \E r \in Requests :
        \/ Accept(r)
        \/ Refuse(r)
        \/ \E k \in Keys : Deliver(r, k)
        \/ \E class \in Empty \cup {"ok", "NETWORK"} : Book(r, class)
        \/ Forget(r)

Spec == Init /\ [][Next]_dvars
=============================================================================
