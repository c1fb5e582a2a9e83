--------------------------- MODULE BookingContract ---------------------------
(***************************************************************************)
(* What a booking promises its customer and its barber, whatever requests, *)
(* webhook calls and expiry jobs race on its document:                     *)
(*   - it is live (requested, accepted, in progress or completed) only     *)
(*     when Stripe has charged its payment;                                *)
(*   - once it stopped waiting for payment it never waits again;           *)
(*   - it is removed at the earliest when its payment window has closed,   *)
(*     and what is removed does not come back.                             *)
(* The first two hold until a participant overrules the booking by writing *)
(* another status than cancelled or no show himself; the third holds then, *)
(* too.                                                                    *)
(* It does not promise that a closed booking (cancelled, payment failed,   *)
(* no show) stays closed, nor that a paid one is never removed: the code   *)
(* guarantees neither.                                                     *)
(***************************************************************************)
CONSTANT Bookings

VARIABLES
  phase,   \* phase[b] \in {"none", "awaiting", "live", "closed", "gone"}
  charged, \* charged[b]: Stripe has charged the payment of b
  due,     \* due[b]: the payment window of b has closed
  overruled \* the bookings whose status a participant has written

vars == <<phase, charged, due, overruled>>

Init ==
  /\ phase   = [b \in Bookings |-> "none"]
  /\ charged = [b \in Bookings |-> FALSE]
  /\ due     = [b \in Bookings |-> FALSE]
  /\ overruled = {}

Stored == {"awaiting", "live", "closed"}

Become(b, from, to) ==
  /\ phase[b] \in from
  /\ phase' = [phase EXCEPT ![b] = to]
  /\ UNCHANGED <<charged, due, overruled>>

Open(b)    == Become(b, {"none"}, "awaiting")
Confirm(b) == charged[b] /\ Become(b, {"awaiting", "closed"}, "live")
Close(b)   == Become(b, {"awaiting", "live"}, "closed")
Remove(b)  == due[b] /\ Become(b, Stored, "gone")

\* A participant writes the status; from then on the booking may take any.
Overrule(b) ==
  /\ phase[b] \in Stored
  /\ \E to \in Stored : phase' = [phase EXCEPT ![b] = to]
  /\ overruled' = overruled \cup {b}
  /\ UNCHANGED <<charged, due>>
Drift(b) == b \in overruled /\ \E to \in Stored : Become(b, Stored, to)

Pay(b) ==
  /\ phase[b] # "none" /\ ~ charged[b]
  /\ charged' = [charged EXCEPT ![b] = TRUE]
  /\ UNCHANGED <<phase, due, overruled>>

Lapse(b) ==
  /\ phase[b] \in Stored /\ ~ due[b]
  /\ due' = [due EXCEPT ![b] = TRUE]
  /\ UNCHANGED <<phase, charged, overruled>>

Next ==
  \E b \in Bookings :
    \/ Open(b) \/ Confirm(b) \/ Close(b) \/ Remove(b)
    \/ Overrule(b) \/ Drift(b)
    \/ Pay(b) \/ Lapse(b)

Spec == Init /\ [][Next]_vars
=============================================================================
