-------------------------------- MODULE MCDay --------------------------------
(***************************************************************************)
(* BookingSlots and Presence for TLC: what the clients of one day see.     *)
(* They share no variable: focus chooses the one that runs.  A unit of     *)
(* time is 30 minutes.                                                     *)
(***************************************************************************)
EXTENDS BookingSlots, Presence, TLC

VARIABLE focus

Opening == {[isAvailable |-> TRUE, start |-> 0, end |-> 3],
            [isAvailable |-> FALSE, start |-> 0, end |-> 3]}

HalfHours == 0 .. 2

DayInit ==
  /\ focus \in {"slots", "presence"}
  /\ Init /\ PresInit
  /\ focus = "presence" => hours.isAvailable

DayNext ==
  \/ focus = "slots" /\ Next /\ UNCHANGED <<focus, presVars>>
  \/ focus = "presence" /\ PresNext /\ UNCHANGED <<focus, vars>>

\* In the initial state of the one that does not run its fair actions are disabled.
DaySpec == DayInit /\ [][DayNext]_<<focus, vars, presVars>> /\ Fairness /\ PresFairness

\* The two bookings are alike: the first id is used first.
DayScope == \A b \in Bookings : booking[b].life # "none" => \A a \in 1 .. b : booking[a].life # "none"

\* Type invariant: those of the two.
DayTypeOK == TypeOK /\ PresTypeOK
=============================================================================
