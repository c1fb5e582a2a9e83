------------------------- MODULE NotificationContract -------------------------
(***************************************************************************)
(* What a notification promises its owner, whatever workers, readers,      *)
(* administrators and failures race on its document:                       *)
(*   - it is one user's from when it is stored until that user deletes it, *)
(*     and what is deleted does not come back;                             *)
(*   - only its owner marks it as read, and that mark is never lost;       *)
(*   - it is sent only when it was handed to its channel or its channel    *)
(*     skipped it, and given up only when it was missed MaxRetries times;  *)
(*   - once it has stopped pending it never pends again.                   *)
(* It does not promise to be handed over once, nor that what is read or    *)
(* sent stays so: a late worker may mark it as sent, or give it up.        *)
(***************************************************************************)
EXTENDS Naturals

CONSTANTS Notes, Users, NoUser, MaxRetries

VARIABLES
  phase,   \* phase[n] \in {"none", "pending", "sent", "read", "failed", "gone"}
  owner,   \* owner[n]: the user of n
  seen,    \* seen[n]: the owner of n has marked it as read
  handed,  \* the notifications that were handed to their channel
  skipped, \* the notifications that could not be handed, and were left at that
  missed   \* missed[n]: how often the handling of n failed

vars == <<phase, owner, seen, handed, skipped, missed>>

Kept == {"pending", "sent", "read", "failed"}

Init ==
  /\ phase  = [n \in Notes |-> "none"]
  /\ owner  = [n \in Notes |-> NoUser]
  /\ seen   = [n \in Notes |-> FALSE]
  /\ handed = {}
  /\ skipped = {}
  /\ missed = [n \in Notes |-> 0]

\* f with the value v for all of ns.
Set(f, ns, v) == [n \in Notes |-> IF n \in ns THEN v ELSE f[n]]

Become(ns, from, to) ==
  /\ \A n \in ns : phase[n] \in from
  /\ phase' = Set(phase, ns, to)

Arrive(ns) ==
  /\ Become(ns, {"none"}, "pending")
  /\ owner' \in [Notes -> Users \cup {NoUser}]
  /\ \A n \in Notes : IF n \in ns THEN owner'[n] \in Users ELSE owner'[n] = owner[n]
  /\ UNCHANGED <<seen, handed, skipped, missed>>

Hand(n) ==
  /\ phase[n] # "none"
  /\ handed' = handed \cup {n}
  /\ UNCHANGED <<phase, owner, seen, skipped, missed>>

Skip(n) ==
  /\ phase[n] # "none"
  /\ skipped' = skipped \cup {n}
  /\ UNCHANGED <<phase, owner, seen, handed, missed>>

Miss(n) ==
  /\ phase[n] # "none"
  /\ missed' = [missed EXCEPT ![n] = @ + 1]
  /\ UNCHANGED <<phase, owner, seen, handed, skipped>>

Settle(n) ==
  /\ n \in handed \cup skipped
  /\ Become({n}, Kept, "sent")
  /\ UNCHANGED <<owner, seen, handed, skipped, missed>>

GiveUp(n) ==
  /\ missed[n] >= MaxRetries
  /\ Become({n}, Kept, "failed")
  /\ UNCHANGED <<owner, seen, handed, skipped, missed>>

Read(u, ns) ==
  /\ \A n \in ns : owner[n] = u
  /\ Become(ns, Kept, "read")
  /\ seen' = Set(seen, ns, TRUE)
  /\ UNCHANGED <<owner, handed, skipped, missed>>

Discard(u, ns) ==
  /\ \A n \in ns : owner[n] = u
  /\ Become(ns, Kept, "gone")
  /\ owner' = Set(owner, ns, NoUser)
  /\ seen' = Set(seen, ns, FALSE)
  /\ UNCHANGED <<handed, skipped, missed>>

Next ==
  \/ \E ns \in SUBSET Notes :
       Arrive(ns) \/ \E u \in Users : Read(u, ns) \/ Discard(u, ns)
  \/ \E n \in Notes : Hand(n) \/ Skip(n) \/ Miss(n) \/ Settle(n) \/ GiveUp(n)

Spec == Init /\ [][Next]_vars
=============================================================================
