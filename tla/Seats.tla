--------------------------------- MODULE Seats ---------------------------------
(***************************************************************************)
(* The seats of the mobile licence (LicenseService, SeatRank).  Seats are   *)
(* assigned under one lock, the licence is changed under another one, and   *)
(* a seat is taken away under none.                                        *)
(***************************************************************************)
EXTENDS Naturals, Sequences, FiniteSets, SequencesExt

CONSTANTS
  Admin,     \* requests
  User,
  None,
  MaxSeats   \* bound: the largest licence

VARIABLES
  limit,     \* the licence's mobileSeats; 0 without a licence
  seats,     \* dc_mobile_seats by rank: assigned_at, then id
  seatLock,  \* SEAT_LOCK
  admin,     \* what a request has read
  highest    \* history: the largest limit there was

vars == <<limit, seats, seatLock, admin, highest>>

Idle == [at |-> "idle"]

Init ==
  /\ limit = 0 /\ highest = 0
  /\ seats = <<>>
  /\ seatLock = None
  /\ admin = [a \in Admin |-> Idle]

Goto(a, state) == admin' = [admin EXCEPT ![a] = state]

-------------------------------------------------------------------------------
(* The licence.  Each change is one transaction, under LICENSE_LOCK.        *)

ApplyLicense ==
  /\ limit' \in 1..MaxSeats
  /\ highest' = IF limit' > highest THEN limit' ELSE highest
  /\ UNCHANGED <<seats, seatLock, admin>>

RemoveLicense ==
  /\ limit' = 0
  /\ seats' = <<>>
  /\ UNCHANGED <<seatLock, admin, highest>>

-------------------------------------------------------------------------------
(* assignSeat.                                                             *)

Lock_Bug(a) == seatLock' = a

\* A request waits for it a second, then it gives up.
Lock(a) == seatLock = None /\ seatLock' = a

Assign(a) ==
  /\ admin[a] = Idle
  /\ Lock(a)
  /\ \E u \in User \ ToSet(seats) : Goto(a, [at |-> "count", user |-> u])
  /\ UNCHANGED <<limit, seats, highest>>

\* The user, the limit and the seats are read one by one.
Count(a) ==
  /\ admin[a].at = "count"
  /\ Goto(a, IF admin[a].user \in ToSet(seats) \/ Len(seats) >= limit
             THEN [at |-> "unlock"]
             ELSE [admin[a] EXCEPT !.at = "insert"])
  /\ UNCHANGED <<limit, seats, seatLock, highest>>

\* One seat a user, by the table's index.
Insert(a) ==
  /\ admin[a].at = "insert"
  /\ seats' = IF admin[a].user \in ToSet(seats) THEN seats ELSE Append(seats, admin[a].user)
  /\ Goto(a, [at |-> "unlock"])
  /\ UNCHANGED <<limit, seatLock, highest>>

Unlock(a) ==
  /\ admin[a].at = "unlock"
  /\ seatLock' = IF seatLock = a THEN None ELSE seatLock
  /\ Goto(a, Idle)
  /\ UNCHANGED <<limit, seats, highest>>

\* A dead request keeps the lock until it expires.
Die(a) ==
  /\ admin[a] # Idle
  /\ Goto(a, Idle)
  /\ seatLock' = IF seatLock = a THEN "stale" ELSE seatLock
  /\ UNCHANGED <<limit, seats, highest>>

Expire ==
  /\ seatLock = "stale"
  /\ seatLock' = None
  /\ UNCHANGED <<limit, seats, admin, highest>>

-------------------------------------------------------------------------------
\* removeSeat.
RemoveSeat ==
  /\ \E i \in DOMAIN seats : seats' = RemoveAt(seats, i)
  /\ UNCHANGED <<limit, seatLock, admin, highest>>

Next ==
  \/ ApplyLicense \/ RemoveLicense \/ RemoveSeat \/ Expire
  \/ \E a \in Admin : Assign(a) \/ Count(a) \/ Insert(a) \/ Unlock(a) \/ Die(a)

Spec == Init /\ [][Next]_vars

-------------------------------------------------------------------------------
(* Properties.                                                             *)

\* However assignments interleave with each other and with changes of the
\* licence, there are never more seats than some licence allowed.
SeatsLicensed == Len(seats) <= highest

-------------------------------------------------------------------------------
(* What is known at any time, for the proof.                               *)

TypeOK ==
  /\ limit \in Nat /\ highest \in Nat
  /\ seats \in Seq(User)
  /\ admin \in [Admin -> {Idle, [at |-> "unlock"]} \cup [at : {"count", "insert"}, user : User]]

LockHeld == \A a \in Admin : admin[a] # Idle => seatLock = a

\* Who is about to insert has counted fewer seats than some licence allowed.
Room ==
  /\ limit <= highest
  /\ \A a \in Admin : admin[a].at = "insert" => Len(seats) < highest

IInv == TypeOK /\ LockHeld /\ Room /\ SeatsLicensed
===============================================================================
