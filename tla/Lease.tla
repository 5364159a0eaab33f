--------------------------------- MODULE Lease ---------------------------------
(***************************************************************************)
(* What a lock with a lease promises: whoever takes it finds it free or    *)
(* the lease of its owner at an end.                                       *)
(***************************************************************************)
CONSTANTS
  Owner,   \* who may hold the lock
  None     \* nobody: not an owner

VARIABLES
  owner,   \* who holds the lock, or None
  ended    \* the owner's lease is at an end

vars == <<owner, ended>>

Init == owner = None /\ ended = FALSE

Take(o) ==
  /\ owner = None \/ ended
  /\ owner' = o
  /\ ended' \in BOOLEAN

\* The owner takes it again, for longer.
Renew(o) ==
  /\ owner = o
  /\ ended' \in BOOLEAN
  /\ UNCHANGED owner

\* It becomes free, at any time: returned, or deleted with what it guards.
Free ==
  /\ owner # None
  /\ owner' = None
  /\ ended' = FALSE

Expire ==
  /\ owner # None
  /\ ended' = TRUE
  /\ UNCHANGED owner

Next == Free \/ Expire \/ \E o \in Owner : Take(o) \/ Renew(o)

Spec == Init /\ [][Next]_vars
===============================================================================
