------------------------ MODULE MCBookingLifecycle ------------------------
(* Instances of BookingLifecycle for TLC. *)
EXTENDS BookingLifecycle, TLC

\* All bookings ask for the same barber at the same time.
SameSlot == {p \in Bookings \X Bookings : p[1] # p[2]}

Symmetry == Permutations(Requests) \cup Permutations(Deliveries)
=============================================================================
