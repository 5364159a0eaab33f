----------------------------- MODULE ServicesProofs -----------------------------
(***************************************************************************)
(* What each service owes, for any number of requests, employees, rows and *)
(* snapshots and any limit.  A service is one instance of its module on    *)
(* the registers, so that its invariant (IInv there) is shown here to hold *)
(* at first and to be kept by its steps; the steps of the others have      *)
(* another service.  What needs requests not to overlap is shown for one   *)
(* planner, and of swaps what SwapRequestsProofs shows of them.            *)
(***************************************************************************)
EXTENDS Services, TLAPS, SequenceTheorems, FiniteSetTheorems, WellFoundedInduction

-------------------------------------------------------------------------------
(* Finite sets and numbers.                                                  *)

\* A set with at most one element more is at most one larger.
LEMMA OneMore ==
  ASSUME NEW S, IsFiniteSet(S), NEW x, NEW T, T \subseteq S \cup {x}
  PROVE  /\ IsFiniteSet(T) /\ Cardinality(T) \in Nat /\ Cardinality(S) \in Nat
         /\ Cardinality(T) <= Cardinality(S) + 1
  <1>1. /\ Cardinality(S) \in Nat
        /\ IsFiniteSet(S \cup {x})
        /\ Cardinality(S \cup {x}) <= Cardinality(S) + 1
    <2>1. Cardinality(S) \in Nat
      BY FS_CardinalityType
    <2>2. /\ IsFiniteSet(S \cup {x})
          /\ Cardinality(S \cup {x}) = IF x \in S THEN Cardinality(S) ELSE Cardinality(S) + 1
      BY FS_AddElement
    <2> QED
      BY <2>1, <2>2
  <1> QED
    BY <1>1, FS_Subset, FS_CardinalityType

\* A set without one of its elements is smaller.
LEMMA OneLess ==
  ASSUME NEW S, IsFiniteSet(S), NEW x \in S, NEW T, T \subseteq S \ {x}
  PROVE  /\ IsFiniteSet(T) /\ Cardinality(T) \in Nat /\ Cardinality(S) \in Nat
         /\ Cardinality(T) + 1 <= Cardinality(S)
  <1>1. IsFiniteSet(S \ {x}) /\ Cardinality(S \ {x}) = Cardinality(S) - 1
    BY FS_RemoveElement
  <1>2. /\ IsFiniteSet(T) /\ Cardinality(T) \in Nat /\ Cardinality(S) \in Nat
        /\ Cardinality(T) <= Cardinality(S \ {x})
    BY <1>1, FS_Subset, FS_CardinalityType
  <1> QED
    BY <1>1, <1>2

\* A set of numbers has a least one, a bounded one a greatest.
LEMMA Least ==
  ASSUME NEW T, T \subseteq Nat, T # {}
  PROVE  \E x \in T : \A y \in T : x <= y
  <1> DEFINE R == OpToRel(<, Nat)
  <1>1. IsWellFoundedOn(R, Nat)
    BY NatLessThanWellFounded
  <1>2. \A x, y \in Nat : <<y, x>> \in R <=> y < x
    BY DEF OpToRel
  <1> HIDE DEF R
  <1>3. PICK x \in T : \A y \in T : ~(<<y, x>> \in R)
    BY <1>1, WFMin
  <1>4. \A y \in T : ~(y < x)
    BY <1>2, <1>3
  <1>5. x \in Nat /\ \A y \in T : y \in Nat
    OBVIOUS
  <1> QED
    BY <1>4, <1>5

LEMMA Greatest ==
  ASSUME NEW n \in Nat, NEW T, T \subseteq 0..n, T # {}
  PROVE  \E x \in T : \A y \in T : y <= x
  <1> DEFINE S == {n - x : x \in T}
  <1>1. S \subseteq Nat /\ S # {}
    <2>1. \A x \in T : x \in 0..n
      OBVIOUS
    <2>2. \A x \in 0..n : n - x \in Nat
      OBVIOUS
    <2> QED
      BY <2>1, <2>2
  <1>2. PICK z \in S : \A y \in S : z <= y
    BY <1>1, Least
  <1>3. PICK x \in T : z = n - x
    OBVIOUS
  <1>4. \A y \in T : n - x <= n - y
    BY <1>2, <1>3
  <1> QED
    BY <1>4

-------------------------------------------------------------------------------
(* The queue of notifications (PushQuietHoursService).                       *)

LEMMA QueueSets ==
  \A S : (Queue!IsFiniteSet(S) <=> IsFiniteSet(S)) /\ Queue!Cardinality(S) = Cardinality(S)
  BY DEF Queue!IsFiniteSet, IsFiniteSet, Queue!Cardinality, Cardinality

LEMMA QueueCounts ==
  ASSUME Queue!TypeOK
  PROVE  /\ IsFiniteSet(Queue!Pending) /\ IsFiniteSet(Queue!Inserting) /\ IsFiniteSet(Request)
         /\ {Cardinality(Queue!Pending), Cardinality(Queue!Inserting), Cardinality(Request)} \subseteq Nat
         /\ Cardinality(Queue!Inserting) <= Cardinality(Request)
  <1>1. IsFiniteSet(r2) /\ IsFiniteSet(Request)
    BY QueueSets, ServicesAssumption DEF Queue!TypeOK
  <1>2. Queue!Pending \subseteq r2 /\ Queue!Inserting \subseteq Request
    BY DEF Queue!Pending, Queue!Inserting
  <1> QED
    BY <1>1, <1>2, FS_Subset, FS_CardinalityType

LEMMA QueueStart == Queue!Init => Queue!IInv
  <1> SUFFICES ASSUME Queue!Init PROVE Queue!IInv
    OBVIOUS
  <1>1. Queue!Pending = {} /\ Queue!Inserting = {}
    BY DEF Queue!Init, Queue!Pending, Queue!Inserting, Queue!Idle
  <1>2. Queue!TypeOK
    BY FS_EmptySet, QueueSets, ServicesAssumption
       DEF Queue!Init, Queue!TypeOK, Queue!Idle, Queue!NoDrain
  <1>3. Queue!Counted
    BY <1>1, <1>2, QueueCounts, QueueSets, FS_EmptySet, ServicesAssumption
       DEF Queue!Counted
  <1> QED
    BY <1>1, <1>2, <1>3, ServicesAssumption
       DEF Queue!Init, Queue!IInv, Queue!IdsUnique, Queue!Attempted, Queue!Once,
       Queue!Sent, Queue!NoDrain

\* The count is kept by a step that lets it grow by nobody, or by one who
\* takes what another one leaves.
LEMMA CountKept ==
  ASSUME Queue!TypeOK, Queue!Counted, Queue!IsFiniteSet(r2'),
         \/ Queue!Pending' \subseteq Queue!Pending /\ Queue!Inserting' \subseteq Queue!Inserting
         \/ \E x : /\ Queue!Pending' \subseteq Queue!Pending
                   /\ Queue!Inserting' \subseteq Queue!Inserting \cup {x}
                   /\ Cardinality(Queue!Pending) < MaxPending
                   /\ x \in Request \ Queue!Inserting
         \/ \E x, y : /\ Queue!Pending' \subseteq Queue!Pending \ {y} /\ y \in Queue!Pending
                      /\ Queue!Inserting' \subseteq Queue!Inserting \cup {x}
         \/ \E x, y : /\ Queue!Pending' \subseteq Queue!Pending \cup {y}
                      /\ Queue!Inserting' \subseteq Queue!Inserting \ {x} /\ x \in Queue!Inserting
         \/ \E x, y : /\ Queue!Pending' \subseteq (Queue!Pending \ {y}) \cup {x} /\ y \in Queue!Pending
                      /\ Queue!Inserting' \subseteq Queue!Inserting
  PROVE  Queue!Counted'
  <1> DEFINE P == Queue!Pending
             I == Queue!Inserting
             P2 == Queue!Pending'
             I2 == Queue!Inserting'
             p == Cardinality(P)
             i == Cardinality(I)
             p2 == Cardinality(P2)
             i2 == Cardinality(I2)
             n == Cardinality(Request)
  <1>1. /\ IsFiniteSet(P) /\ IsFiniteSet(I) /\ IsFiniteSet(Request)
        /\ p \in Nat /\ i \in Nat /\ n \in Nat
        /\ p + i < MaxPending + n /\ MaxPending \in Nat \ {0}
    BY QueueCounts, QueueSets, ServicesAssumption DEF Queue!Counted
  <1>2. IsFiniteSet(P2) /\ IsFiniteSet(I2) /\ p2 \in Nat /\ i2 \in Nat
    <2>1. P2 \subseteq r2' /\ I2 \subseteq Request
      BY DEF Queue!Pending, Queue!Inserting
    <2> QED
      BY <1>1, <2>1, QueueSets, FS_Subset, FS_CardinalityType
  <1>3. I \subseteq Request
    BY DEF Queue!Inserting
  <1> HIDE DEF P, I, P2, I2
  <1>4. p2 + i2 < MaxPending + n
    <2>1. CASE P2 \subseteq P /\ I2 \subseteq I
      <3>1. p2 <= p /\ i2 <= i
        BY <1>1, <2>1, FS_Subset
      <3> QED
        BY <1>1, <1>2, <3>1
    <2>2. CASE \E x : P2 \subseteq P /\ I2 \subseteq I \cup {x} /\ p < MaxPending /\ x \in Request \ I
      <3>1. PICK x \in Request \ I : I2 \subseteq I \cup {x}
        BY <2>2
      <3>2. p2 <= p /\ p < MaxPending
        BY <1>1, <2>2, FS_Subset
      <3>3. I2 \subseteq Request
        BY <1>3, <3>1
      <3>4. i2 <= n
        BY <1>1, <3>3, FS_Subset
      <3> QED
        BY <1>1, <1>2, <3>2, <3>4
    <2>3. CASE \E x, y : P2 \subseteq P \ {y} /\ y \in P /\ I2 \subseteq I \cup {x}
      <3>1. PICK x, y : P2 \subseteq P \ {y} /\ y \in P /\ I2 \subseteq I \cup {x}
        BY <2>3
      <3>2. p2 + 1 <= p
        BY <1>1, <3>1, OneLess
      <3>3. i2 <= i + 1
        BY <1>1, <3>1, OneMore
      <3> QED
        BY <1>1, <1>2, <3>2, <3>3
    <2>4. CASE \E x, y : P2 \subseteq P \cup {y} /\ I2 \subseteq I \ {x} /\ x \in I
      <3>1. PICK x, y : P2 \subseteq P \cup {y} /\ I2 \subseteq I \ {x} /\ x \in I
        BY <2>4
      <3>2. i2 + 1 <= i
        BY <1>1, <3>1, OneLess
      <3>3. p2 <= p + 1
        BY <1>1, <3>1, OneMore
      <3> QED
        BY <1>1, <1>2, <3>2, <3>3
    <2>5. CASE \E x, y : P2 \subseteq (P \ {y}) \cup {x} /\ y \in P /\ I2 \subseteq I
      <3>1. PICK x, y : P2 \subseteq (P \ {y}) \cup {x} /\ y \in P
        BY <2>5
      <3>2. /\ IsFiniteSet(P \ {y}) /\ Cardinality(P \ {y}) \in Nat
            /\ Cardinality(P \ {y}) + 1 <= p
        BY <1>1, <3>1, OneLess
      <3>3. p2 <= Cardinality(P \ {y}) + 1
        BY <3>1, <3>2, OneMore
      <3>4. i2 <= i
        BY <1>1, <2>5, FS_Subset
      <3> QED
        BY <1>1, <1>2, <3>2, <3>3, <3>4
    <2> QED
      BY <2>1, <2>2, <2>3, <2>4, <2>5 DEF P, I, P2, I2
  <1> QED
    BY <1>4, QueueSets DEF Queue!Counted, P, I, P2, I2

\* Giving one row up leaves the others, and one pending less.
LEMMA GivenUp ==
  ASSUME Queue!TypeOK, Queue!IdsUnique, NEW i,
         r2' = {IF q.id = i THEN [q EXCEPT !.delivered = TRUE] ELSE q : q \in r2}
  PROVE  /\ r2' \subseteq Queue!QueueRow /\ Queue!IsFiniteSet(r2')
         /\ Queue!Pending' = {q \in Queue!Pending : q.id # i}
         /\ \A q \in r2' : \E p \in r2 : p.id = q.id /\ p.attempts = q.attempts
         /\ r3' = r3 => Queue!IdsUnique'
  <1> DEFINE Given(q) == [q EXCEPT !.delivered = TRUE]
  <1>1. /\ IsFiniteSet(r2) /\ r2 \subseteq Queue!QueueRow
        /\ \A p, q \in r2 : p.id = q.id => p = q
    BY QueueSets DEF Queue!TypeOK, Queue!IdsUnique
  <1>2. \A q \in r2 : /\ Given(q) \in Queue!QueueRow /\ Given(q).id = q.id
                      /\ Given(q).delivered /\ Given(q).attempts = q.attempts
    BY <1>1 DEF Queue!QueueRow
  <1>3. r2' = {IF q.id = i THEN Given(q) ELSE q : q \in r2}
    OBVIOUS
  <1> HIDE DEF Given
  <1>4. CASE \E q \in r2 : q.id = i
    <2>1. PICK q \in r2 : q.id = i
      BY <1>4
    <2>2. r2' \subseteq r2 \cup {Given(q)}
      BY <1>1, <1>3, <2>1
    <2>3. Queue!IsFiniteSet(r2')
      BY <1>1, <2>2, OneMore, QueueSets
    <2>4. r2' = (r2 \ {q}) \cup {Given(q)}
      BY <1>1, <1>3, <2>1
    <2>5. /\ Given(q) \in Queue!QueueRow /\ Given(q).id = i
          /\ Given(q).delivered /\ Given(q).attempts = q.attempts
      BY <1>2, <2>1
    <2>6. r2' \subseteq Queue!QueueRow /\ (r3' = r3 => Queue!IdsUnique')
      BY <1>1, <2>1, <2>4, <2>5 DEF Queue!IdsUnique
    <2>7. Queue!Pending' = {p \in Queue!Pending : p.id # i}
      BY <1>1, <2>1, <2>4, <2>5 DEF Queue!Pending
    <2>8. \A t \in r2' : \E p \in r2 : p.id = t.id /\ p.attempts = t.attempts
      BY <2>1, <2>4, <2>5
    <2> QED
      BY <2>3, <2>6, <2>7, <2>8
  <1>5. CASE ~\E q \in r2 : q.id = i
    <2>1. r2' = r2
      BY <1>3, <1>5
    <2> QED
      BY <1>1, <1>5, <2>1, QueueSets DEF Queue!Pending, Queue!IdsUnique
  <1> QED
    BY <1>4, <1>5

LEMMA QueueKept == Queue!IInv /\ [Queue!Next]_(Queue!vars) => Queue!IInv'
  <1> SUFFICES ASSUME Queue!IInv, [Queue!Next]_(Queue!vars) PROVE Queue!IInv'
    OBVIOUS
  <1>0. Queue!TypeOK /\ Queue!IdsUnique /\ Queue!Counted /\ Queue!Attempted /\ Queue!Once
    BY DEF Queue!IInv
  <1> USE ServicesAssumption DEF Queue!Idle, Queue!NoDrain, Queue!Goto
  <1>1. ASSUME NEW s \in Request, Queue!Enqueue(s) PROVE Queue!IInv'
    <2>1. PICK msg \in Message :
            r4' = [r4 EXCEPT ![s] =
                     IF Queue!Full
                     THEN [at |-> "shed", msg |-> msg, oldest |-> Queue!Min({q.id : q \in Queue!Pending})]
                     ELSE [at |-> "insert", msg |-> msg, oldest |-> None]]
      BY <1>1 DEF Queue!Enqueue
    <2>2. UNCHANGED <<r1, r2, r3, r5, r6, r7>> /\ r4[s].at = "idle"
      BY <1>1 DEF Queue!Enqueue
    <2>3. Queue!Full => Queue!Min({q.id : q \in Queue!Pending}) \in Nat
      <3> DEFINE ids == {q.id : q \in Queue!Pending}
      <3> SUFFICES ASSUME Queue!Full PROVE Queue!Min(ids) \in Nat
        OBVIOUS
      <3>1. ids \subseteq Nat
        BY <1>0 DEF Queue!TypeOK, Queue!QueueRow, Queue!Pending
      <3>2. Queue!Pending # {}
        BY QueueSets, FS_EmptySet DEF Queue!Full
      <3>3. ids # {}
        BY <3>2
      <3> HIDE DEF ids
      <3>4. PICK x \in ids : \A y \in ids : x <= y
        BY <3>1, <3>3, Least
      <3>5. Queue!Min(ids) \in ids
        BY <3>4 DEF Queue!Min
      <3> QED
        BY <3>1, <3>5
    <2>4. Queue!TypeOK'
      BY <1>0, <2>1, <2>2, <2>3 DEF Queue!TypeOK
    <2>5. Queue!Pending' = Queue!Pending /\ Queue!IsFiniteSet(r2')
      BY <1>0, <2>2 DEF Queue!Pending, Queue!TypeOK
    <2>6. Queue!Counted'
      <3>1. CASE Queue!Full
        <4>1. Queue!Inserting' \subseteq Queue!Inserting
          BY <2>1, <3>1 DEF Queue!Inserting
        <4> QED
          BY <1>0, <2>5, <4>1, CountKept
      <3>2. CASE ~Queue!Full
        <4>1. Queue!Inserting' \subseteq Queue!Inserting \cup {s} /\ s \in Request \ Queue!Inserting
          BY <2>1, <2>2 DEF Queue!Inserting
        <4>2. Cardinality(Queue!Pending) < MaxPending
          BY <1>0, <3>2, QueueSets, QueueCounts DEF Queue!Full
        <4> QED
          BY <1>0, <2>5, <4>1, <4>2, CountKept
      <3> QED
        BY <3>1, <3>2
    <2>7. Queue!IdsUnique' /\ Queue!Attempted' /\ Queue!Once'
      BY <1>0, <2>2, <2>5 DEF Queue!IdsUnique, Queue!Attempted, Queue!Once, Queue!Sent
    <2> QED
      BY <2>4, <2>6, <2>7 DEF Queue!IInv
  <1>2. ASSUME NEW s \in Request, Queue!ShedOldest(s) PROVE Queue!IInv'
    <2> DEFINE shed == {q \in Queue!Pending : q.id = r4[s].oldest}
    <2>1. /\ UNCHANGED <<r1, r3, r5, r6, r7>> /\ r4[s].at = "shed"
          /\ r2' = r2 \ shed
          /\ r4' = [r4 EXCEPT ![s] = IF shed = {} THEN Queue!Idle ELSE [r4[s] EXCEPT !.at = "insert"]]
      BY <1>2 DEF Queue!ShedOldest
    <2>2. IsFiniteSet(r2) /\ r2' \subseteq r2
      BY <1>0, <2>1, QueueSets DEF Queue!TypeOK
    <2>3. Queue!IsFiniteSet(r2')
      BY <2>2, FS_Subset, QueueSets
    <2>4. Queue!TypeOK'
      BY <1>0, <2>1, <2>3 DEF Queue!TypeOK
    <2>5. Queue!Counted'
      <3>1. CASE shed = {}
        <4>1. Queue!Pending' \subseteq Queue!Pending /\ Queue!Inserting' \subseteq Queue!Inserting
          BY <2>1, <3>1 DEF Queue!Pending, Queue!Inserting
        <4> QED
          BY <1>0, <2>3, <4>1, CountKept
      <3>2. CASE shed # {}
        <4>1. PICK y \in shed : TRUE
          BY <3>2
        <4>2. y \in Queue!Pending /\ Queue!Pending' \subseteq Queue!Pending \ {y}
          BY <2>1, <4>1 DEF Queue!Pending
        <4>3. Queue!Inserting' \subseteq Queue!Inserting \cup {s}
          BY <2>1 DEF Queue!Inserting
        <4> QED
          BY <1>0, <2>3, <4>2, <4>3, CountKept
      <3> QED
        BY <3>1, <3>2
    <2>6. Queue!IdsUnique' /\ Queue!Attempted' /\ Queue!Once'
      BY <1>0, <2>1, <2>2
         DEF Queue!IdsUnique, Queue!Attempted, Queue!Once, Queue!Sent, Queue!Pending
    <2> QED
      BY <2>4, <2>5, <2>6 DEF Queue!IInv
  <1>3. ASSUME NEW s \in Request, Queue!Insert(s) PROVE Queue!IInv'
    <2>1. /\ UNCHANGED <<r1, r5, r6, r7>> /\ r4[s].at = "insert"
          /\ r4' = [r4 EXCEPT ![s] = Queue!Idle]
      BY <1>3 DEF Queue!Insert
    <2>2. Queue!Inserting' \subseteq Queue!Inserting \ {s} /\ s \in Queue!Inserting
      BY <1>0, <2>1 DEF Queue!Inserting, Queue!TypeOK
    <2>3. CASE UNCHANGED <<r2, r3>>
      <3>1. Queue!TypeOK' /\ Queue!IdsUnique' /\ Queue!Attempted' /\ Queue!Once'
        BY <1>0, <2>1, <2>3
           DEF Queue!TypeOK, Queue!IdsUnique, Queue!Attempted, Queue!Once, Queue!Sent,
               Queue!Pending
      <3>2. Queue!Pending' \subseteq Queue!Pending /\ Queue!IsFiniteSet(r2')
        BY <1>0, <2>3 DEF Queue!Pending, Queue!TypeOK
      <3>3. Queue!Counted'
        BY <1>0, <2>2, <3>2, CountKept
      <3> QED
        BY <3>1, <3>3 DEF Queue!IInv
    <2>4. CASE ~UNCHANGED <<r2, r3>>
      <3>0. PICK new : new = [id |-> r3 + 1, msg |-> r4[s].msg, due |-> Queue!NextQuietEnd,
                              attempts |-> 0, delivered |-> FALSE]
        OBVIOUS
      <3>1. r3 < MaxRows /\ r3' = r3 + 1 /\ r2' = r2 \cup {new}
        BY <1>3, <2>4, <3>0 DEF Queue!Insert
      <3>2. new \in Queue!QueueRow /\ new.id = r3 + 1 /\ new.attempts = 0
        <4>1. Queue!NextQuietEnd \in Nat
          BY <1>0 DEF Queue!TypeOK, Queue!NextQuietEnd
        <4>2. r3 + 1 \in 1..MaxRows /\ r4[s].msg \in Message /\ MaxAttempts \in Nat
          BY <1>0, <2>1, <3>1 DEF Queue!TypeOK
        <4> QED
          BY <3>0, <4>1, <4>2 DEF Queue!QueueRow
      <3>3. Queue!IsFiniteSet(r2')
        BY <1>0, <3>1, FS_AddElement, QueueSets DEF Queue!TypeOK
      <3>4. Queue!TypeOK'
        BY <1>0, <2>1, <3>1, <3>2, <3>3 DEF Queue!TypeOK
      <3>5. Queue!IdsUnique'
        <4>1. r3 \in Nat /\ \A q \in r2 : q.id \in Nat /\ q.id <= r3
          BY <1>0 DEF Queue!TypeOK, Queue!QueueRow, Queue!IdsUnique
        <4>2. \A q \in r2' : q \in r2 \/ (q = new /\ new.id = r3 + 1)
          BY <3>1, <3>2
        <4>3. \A q \in r2' : q.id <= r3'
          BY <3>1, <4>1, <4>2
        <4>4. \A p, q \in r2' : p.id = q.id => p = q
          BY <1>0, <4>1, <4>2 DEF Queue!IdsUnique
        <4> QED
          BY <4>3, <4>4 DEF Queue!IdsUnique
      <3>6. Queue!Pending' \subseteq Queue!Pending \cup {new}
        BY <3>1 DEF Queue!Pending
      <3>7. Queue!Counted'
        BY <1>0, <2>2, <3>3, <3>6, CountKept
      <3>8. \A i \in 1..MaxRows : Queue!Sent(i)' = Queue!Sent(i)
        BY <2>1 DEF Queue!Sent
      <3>9. r3 \in Nat /\ r3 + 1 \in 1..MaxRows
        BY <1>0, <3>1 DEF Queue!TypeOK
      <3>10. Queue!Sent(r3 + 1) = 0
        BY <1>0, <3>9 DEF Queue!Attempted
      <3>11. Queue!Sent(new.id)' = 0
        BY <3>2, <3>8, <3>9, <3>10
      <3>12. Queue!Attempted'
        BY <1>0, <3>1, <3>2, <3>8, <3>9, <3>11
           DEF Queue!Attempted, Queue!TypeOK, Queue!QueueRow
      <3>13. Queue!Once'
        BY <1>0, <2>1, <3>6, <3>8, <3>11
           DEF Queue!Once, Queue!Pending, Queue!TypeOK, Queue!QueueRow
      <3> QED
        BY <3>4, <3>5, <3>7, <3>12, <3>13 DEF Queue!IInv
    <2> QED
      BY <2>3, <2>4
  <1>4. ASSUME Queue!Drain PROVE Queue!IInv'
    <2> DEFINE kept == {q \in r2 : q.due + 2 > r1}
    <2>1. /\ UNCHANGED <<r1, r3, r4, r6, r7>> /\ r5 = Queue!NoDrain
          /\ r2' = kept
          /\ r5' = [Queue!NoDrain EXCEPT !.at = "next", !.batch = {q \in kept : ~q.delivered /\ q.due <= r1}]
      BY <1>4 DEF Queue!Drain
    <2>2. IsFiniteSet(r2) /\ r2' \subseteq r2
      BY <1>0, <2>1, QueueSets DEF Queue!TypeOK
    <2>3. Queue!IsFiniteSet(r2')
      BY <2>2, FS_Subset, QueueSets
    <2>4. Queue!TypeOK'
      BY <1>0, <2>1, <2>2, <2>3 DEF Queue!TypeOK
    <2>5. Queue!Pending' \subseteq Queue!Pending /\ Queue!Inserting' \subseteq Queue!Inserting
      BY <2>1, <2>2 DEF Queue!Pending, Queue!Inserting
    <2>6. Queue!Counted'
      BY <1>0, <2>3, <2>5, CountKept
    <2>7. Queue!IdsUnique' /\ Queue!Attempted' /\ Queue!Once'
      BY <1>0, <2>1, <2>2
         DEF Queue!IdsUnique, Queue!Attempted, Queue!Once, Queue!Sent, Queue!Pending
    <2> QED
      BY <2>4, <2>6, <2>7 DEF Queue!IInv
  <1>5. ASSUME Queue!DeliverRow PROVE Queue!IInv'
    <2> DEFINE r == Queue!First(r5.batch)
               rest == [r5 EXCEPT !.batch = @ \ {r}]
    <2>0. PICK k : k = r.id
      OBVIOUS
    <2>1. /\ UNCHANGED <<r1, r3, r4, r6, r7>> /\ r5.at = "next"
          /\ r5 \in [at : {"idle", "next", "notify", "stamp"}, batch : SUBSET Queue!QueueRow,
                     row : Nat \cup {None}]
      BY <1>0, <1>5 DEF Queue!DeliverRow, Queue!TypeOK
    <2>2. Queue!Inserting' \subseteq Queue!Inserting
      BY <2>1 DEF Queue!Inserting
    <2>3. /\ rest \in [at : {"next"}, batch : SUBSET Queue!QueueRow, row : Nat \cup {None}]
          /\ rest.at = "next"
      BY <2>1
    <2>4. \/ r2' = {IF q.id = r.id THEN [q EXCEPT !.delivered = TRUE] ELSE q : q \in r2} /\ r5' = rest
          \/ r2' = r2 \ Queue!Row(r.id) /\ r5' = rest
          \/ r2' = r2 /\ r5' = rest
          \/ /\ r.attempts < MaxAttempts
             /\ \E q \in Queue!Claim(r) :
                  r2' = Queue!Attempt(q) /\ r5' = [rest EXCEPT !.at = "notify", !.row = q.id]
      BY <1>5 DEF Queue!DeliverRow, Queue!Claim, Queue!Row
    <2> HIDE DEF r, rest
    <2>5. ASSUME r5' = rest, Queue!IsFiniteSet(r2'), r2' \subseteq Queue!QueueRow, Queue!IdsUnique',
                 Queue!Pending' \subseteq Queue!Pending,
                 \A q \in r2' : \E p \in r2 : p.id = q.id /\ p.attempts = q.attempts
          PROVE  Queue!IInv'
      <3>1. Queue!TypeOK'
        BY <1>0, <2>1, <2>3, <2>5 DEF Queue!TypeOK
      <3>2. Queue!Counted'
        BY <1>0, <2>2, <2>5, CountKept
      <3>3. \A i : Queue!Sent(i)' = Queue!Sent(i)
        BY <2>1, <2>3, <2>5 DEF Queue!Sent
      <3>4. Queue!Attempted' /\ Queue!Once'
        BY <1>0, <2>1, <2>3, <2>5, <3>3 DEF Queue!Attempted, Queue!Once
      <3> QED
        BY <2>5, <3>1, <3>2, <3>4 DEF Queue!IInv
    <2>6. CASE r2' = {IF q.id = r.id THEN [q EXCEPT !.delivered = TRUE] ELSE q : q \in r2} /\ r5' = rest
      <3>1. r2' = {IF q.id = k THEN [q EXCEPT !.delivered = TRUE] ELSE q : q \in r2}
        BY <2>0, <2>6
      <3>2. /\ r2' \subseteq Queue!QueueRow /\ Queue!IsFiniteSet(r2')
            /\ Queue!Pending' = {q \in Queue!Pending : q.id # k}
            /\ \A q \in r2' : \E p \in r2 : p.id = q.id /\ p.attempts = q.attempts
            /\ Queue!IdsUnique'
        BY <1>0, <2>1, <3>1, GivenUp
      <3> QED
        BY <2>5, <2>6, <3>2
    <2>7. CASE r2' \subseteq r2 /\ r5' = rest
      <3>1. Queue!IsFiniteSet(r2')
        BY <1>0, <2>7, FS_Subset, QueueSets DEF Queue!TypeOK
      <3>2. /\ r2' \subseteq Queue!QueueRow /\ Queue!IdsUnique' /\ Queue!Pending' \subseteq Queue!Pending
            /\ \A q \in r2' : \E p \in r2 : p.id = q.id /\ p.attempts = q.attempts
        BY <1>0, <2>1, <2>7 DEF Queue!TypeOK, Queue!IdsUnique, Queue!Pending
      <3> QED
        BY <2>5, <2>7, <3>1, <3>2
    <2>8. CASE /\ r.attempts < MaxAttempts
               /\ \E q \in Queue!Claim(r) :
                    r2' = Queue!Attempt(q) /\ r5' = [rest EXCEPT !.at = "notify", !.row = q.id]
      <3>1. PICK q \in r2 : /\ ~q.delivered /\ q.attempts < MaxAttempts
                            /\ r2' = Queue!Attempt(q)
                            /\ r5' = [rest EXCEPT !.at = "notify", !.row = q.id]
        BY <2>8 DEF Queue!Claim, Queue!Row
      <3> DEFINE new == [q EXCEPT !.attempts = @ + 1]
      <3>2. q \in Queue!QueueRow /\ q \in Queue!Pending /\ q.id \in 1..r3 /\ r3 \in 0..MaxRows
        BY <1>0, <3>1 DEF Queue!TypeOK, Queue!IdsUnique, Queue!Pending, Queue!QueueRow
      <3>3. /\ new \in Queue!QueueRow /\ new.id = q.id /\ new.attempts = q.attempts + 1 /\ ~new.delivered
        BY <3>1, <3>2 DEF Queue!QueueRow
      <3>4. r2' = (r2 \ {q}) \cup {new}
        BY <3>1 DEF Queue!Attempt
      <3>5. r5'.at = "notify" /\ r5'.row = q.id /\ r5' \in [at : {"notify"}, batch : SUBSET Queue!QueueRow, row : Nat]
        <4>1. q.id \in Nat
          BY <3>2
        <4> QED
          BY <2>3, <3>1, <4>1
      <3> HIDE DEF new
      <3>6. Queue!IsFiniteSet(r2')
        <4>1. r2' \subseteq r2 \cup {new}
          BY <3>4
        <4> QED
          BY <1>0, <4>1, OneMore, QueueSets DEF Queue!TypeOK
      <3>7. Queue!TypeOK'
        BY <1>0, <2>1, <3>2, <3>3, <3>4, <3>5, <3>6 DEF Queue!TypeOK
      <3>8. Queue!IdsUnique'
        BY <1>0, <2>1, <3>1, <3>3, <3>4 DEF Queue!IdsUnique
      <3>9. Queue!Pending' = (Queue!Pending \ {q}) \cup {new}
        BY <3>3, <3>4 DEF Queue!Pending
      <3>10. Queue!Counted'
        BY <1>0, <2>2, <3>2, <3>6, <3>9, CountKept
      <3>11. \A i : Queue!Sent(i)' = r6[i] + IF i = q.id THEN 1 ELSE 0
        BY <2>1, <3>5 DEF Queue!Sent
      <3>12. \A i \in 1..MaxRows : Queue!Sent(i) = r6[i] /\ r6[i] \in Nat
        BY <1>0, <2>1 DEF Queue!Sent, Queue!TypeOK
      <3>13. \A p \in r2 : p.id \in 1..MaxRows /\ p.attempts \in 0..MaxAttempts /\ (p.id = q.id => p = q)
        BY <1>0 DEF Queue!TypeOK, Queue!QueueRow, Queue!IdsUnique
      <3>14. Queue!Attempted'
        BY <1>0, <2>1, <3>1, <3>2, <3>3, <3>4, <3>11, <3>12, <3>13 DEF Queue!Attempted
      <3>15. r7 \/ r6[q.id] = 0
        BY <1>0, <2>1, <3>2, <3>12, <3>13 DEF Queue!Once
      <3>16. Queue!Once'
        <4> SUFFICES ASSUME ~r7
                     PROVE  /\ \A i \in 1..MaxRows : Queue!Sent(i)' <= 1
                            /\ \A p \in Queue!Pending' : Queue!Sent(p.id)' = 0 \/ p.id = q.id
          BY <2>1, <3>5 DEF Queue!Once
        <4>1. \A i \in 1..MaxRows : r6[i] <= 1
          BY <1>0, <3>12 DEF Queue!Once
        <4>2. \A p \in Queue!Pending : p \in r2 /\ r6[p.id] = 0
          BY <1>0, <2>1, <3>12, <3>13 DEF Queue!Once, Queue!Pending
        <4> QED
          BY <3>3, <3>9, <3>11, <3>12, <3>13, <3>15, <4>1, <4>2
      <3> QED
        BY <3>7, <3>8, <3>10, <3>14, <3>16 DEF Queue!IInv
    <2> QED
      BY <2>4, <2>6, <2>7, <2>8
  <1>6. ASSUME Queue!Notify PROVE Queue!IInv'
    <2>0. PICK k : k = r5.row
      OBVIOUS
    <2>1. /\ UNCHANGED <<r1, r2, r3, r4, r7>> /\ r5.at = "notify" /\ k \in 1..MaxRows /\ k \in 1..r3
          /\ r5 \in [at : {"idle", "next", "notify", "stamp"}, batch : SUBSET Queue!QueueRow,
                     row : Nat \cup {None}]
          /\ r6 \in [1..MaxRows -> Nat]
      BY <1>0, <1>6, <2>0 DEF Queue!Notify, Queue!TypeOK
    <2>2. /\ \/ r6' = [r6 EXCEPT ![k] = @ + 1] /\ r5'.at = "stamp" /\ r5'.row = k
             \/ r6' = r6 /\ r5'.at = "next"
          /\ r5' \in [at : {"next", "stamp"}, batch : SUBSET Queue!QueueRow, row : Nat \cup {None}]
      BY <1>6, <2>0, <2>1 DEF Queue!Notify
    <2>3. Queue!TypeOK'
      <3>1. r6' \in [1..MaxRows -> Nat]
        BY <2>1, <2>2
      <3>2. /\ r5' \in [at : {"idle", "next", "notify", "stamp"}, batch : SUBSET Queue!QueueRow,
                        row : Nat \cup {None}]
            /\ r5'.at \in {"notify", "stamp"} => r5'.row \in 1..r3
        BY <2>1, <2>2
      <3> QED
        BY <1>0, <2>1, <3>1, <3>2 DEF Queue!TypeOK
    <2>4. Queue!Pending' = Queue!Pending /\ Queue!Inserting' = Queue!Inserting /\ Queue!IsFiniteSet(r2')
      BY <2>1, <2>3 DEF Queue!Pending, Queue!Inserting, Queue!TypeOK
    <2>5. Queue!Counted'
      BY <1>0, <2>4, CountKept
    <2>6. ASSUME NEW i \in 1..MaxRows
          PROVE  /\ Queue!Sent(i)' \in Nat /\ Queue!Sent(i) \in Nat
                 /\ Queue!Sent(i)' <= Queue!Sent(i)
                 /\ i # k => Queue!Sent(i)' = Queue!Sent(i)
                 /\ i = k /\ r5'.at = "next" => Queue!Sent(i)' = Queue!Sent(i) - 1
      <3>1. r6[i] \in Nat /\ Queue!Sent(i) = r6[i] + IF i = k THEN 1 ELSE 0
        BY <2>0, <2>1 DEF Queue!Sent
      <3>2. CASE r6' = [r6 EXCEPT ![k] = @ + 1] /\ r5'.at = "stamp"
        <4>1. Queue!Sent(i)' = r6'[i] + 0
          BY <3>2 DEF Queue!Sent
        <4> QED
          BY <2>1, <3>1, <3>2, <4>1
      <3>3. CASE r6' = r6 /\ r5'.at = "next"
        <4>1. Queue!Sent(i)' = r6[i] + 0
          BY <3>3 DEF Queue!Sent
        <4> QED
          BY <3>1, <3>3, <4>1
      <3> QED
        BY <2>2, <3>2, <3>3
    <2>7. (r5'.at = "stamp" /\ r5'.row = k) \/ r5'.at = "next"
      BY <2>2
    <2>8. \A q \in r2 : q.id \in 1..MaxRows /\ q.attempts \in Nat
      BY <1>0 DEF Queue!TypeOK, Queue!QueueRow
    <2>9. Queue!IdsUnique' /\ Queue!Attempted'
      <3>1. MaxAttempts \in Nat /\ r2' = r2 /\ r3' = r3
        BY <2>1
      <3>2. Queue!Attempted'
        <4> SUFFICES /\ \A i \in 1..MaxRows : Queue!Sent(i)' <= MaxAttempts /\ (i > r3 => Queue!Sent(i)' = 0)
                     /\ \A q \in r2 : Queue!Sent(q.id)' <= q.attempts
          BY <3>1 DEF Queue!Attempted
        <4> QED
          BY <1>0, <2>6, <2>8, <3>1 DEF Queue!Attempted
      <3> QED
        BY <1>0, <3>1, <3>2 DEF Queue!IdsUnique
    <2>10. Queue!Once'
      <3> SUFFICES ASSUME ~r7
                   PROVE  /\ \A i \in 1..MaxRows : Queue!Sent(i)' <= 1
                          /\ \A q \in Queue!Pending :
                               Queue!Sent(q.id)' = 0 \/ (r5'.at = "stamp" /\ r5'.row = q.id)
        BY <2>1, <2>4 DEF Queue!Once
      <3>1. \A i \in 1..MaxRows : Queue!Sent(i) <= 1
        BY <1>0 DEF Queue!Once
      <3>2. ASSUME NEW q \in Queue!Pending
            PROVE  Queue!Sent(q.id)' = 0 \/ (r5'.at = "stamp" /\ r5'.row = q.id)
        <4>1. q.id \in 1..MaxRows
          BY <2>8 DEF Queue!Pending
        <4>2. CASE q.id = k
          <5>1. Queue!Sent(k) \in Nat /\ Queue!Sent(k) <= 1
            BY <2>1, <2>6, <3>1
          <5>2. r5'.at = "next" => Queue!Sent(k)' = Queue!Sent(k) - 1 /\ Queue!Sent(k)' \in Nat
            BY <2>1, <2>6
          <5>3. r5'.at = "next" => Queue!Sent(k)' = 0
            BY <5>1, <5>2
          <5> QED
            BY <2>7, <4>2, <5>3
        <4>3. CASE q.id # k
          <5>1. Queue!Sent(q.id) = 0
            BY <1>0, <2>0, <4>3 DEF Queue!Once
          <5> QED
            BY <2>6, <4>1, <4>3, <5>1
        <4> QED
          BY <4>2, <4>3
      <3> QED
        BY <2>6, <3>1, <3>2
    <2> QED
      BY <2>3, <2>5, <2>9, <2>10 DEF Queue!IInv
  <1>7. ASSUME Queue!Stamp PROVE Queue!IInv'
    <2>1. /\ UNCHANGED <<r1, r3, r4, r6, r7>> /\ r5.at = "stamp"
          /\ r2' = {IF q.id = r5.row THEN [q EXCEPT !.delivered = TRUE] ELSE q : q \in r2}
          /\ r5' = [r5 EXCEPT !.at = "next", !.row = None]
      BY <1>7 DEF Queue!Stamp
    <2>2. /\ r2' \subseteq Queue!QueueRow /\ Queue!IsFiniteSet(r2')
          /\ Queue!Pending' = {q \in Queue!Pending : q.id # r5.row}
          /\ \A q \in r2' : \E p \in r2 : p.id = q.id /\ p.attempts = q.attempts
          /\ Queue!IdsUnique'
      BY <1>0, <2>1, GivenUp
    <2>3. Queue!TypeOK'
      BY <1>0, <2>1, <2>2 DEF Queue!TypeOK
    <2>4. Queue!Inserting' \subseteq Queue!Inserting
      BY <2>1 DEF Queue!Inserting
    <2>5. Queue!Counted'
      BY <1>0, <2>2, <2>4, CountKept
    <2>6. \A i : Queue!Sent(i)' = Queue!Sent(i)
      BY <1>0, <2>1 DEF Queue!Sent, Queue!TypeOK
    <2>7. Queue!Attempted' /\ Queue!Once'
      BY <1>0, <2>1, <2>2, <2>6 DEF Queue!Attempted, Queue!Once
    <2> QED
      BY <2>2, <2>3, <2>5, <2>7 DEF Queue!IInv
  <1>8. ASSUME UNCHANGED <<r2, r3, r4, r6>>, r5' \in {r5, Queue!NoDrain},
               (r7' = r7 /\ (r5' = r5 \/ r5.at = "next")) \/ r7' = TRUE, r1' \in Nat
        PROVE  Queue!IInv'
    <2>1. Queue!TypeOK'
      BY <1>0, <1>8 DEF Queue!TypeOK
    <2>2. Queue!Pending' = Queue!Pending /\ Queue!Inserting' = Queue!Inserting /\ Queue!IsFiniteSet(r2')
      BY <1>8, <2>1 DEF Queue!Pending, Queue!Inserting, Queue!TypeOK
    <2>3. Queue!Counted'
      BY <1>0, <2>2, CountKept
    <2>4. \A i \in 1..MaxRows : /\ Queue!Sent(i)' \in Nat /\ Queue!Sent(i) \in Nat
                                /\ Queue!Sent(i)' <= Queue!Sent(i)
      BY <1>0, <1>8 DEF Queue!Sent, Queue!TypeOK
    <2>5. \A q \in r2 : q.id \in 1..MaxRows /\ q.attempts \in Nat
      BY <1>0 DEF Queue!TypeOK, Queue!QueueRow
    <2>6. Queue!IdsUnique' /\ Queue!Attempted'
      <3>1. MaxAttempts \in Nat /\ r2' = r2 /\ r3' = r3
        BY <1>8
      <3>2. Queue!Attempted'
        <4> SUFFICES /\ \A i \in 1..MaxRows : Queue!Sent(i)' <= MaxAttempts /\ (i > r3 => Queue!Sent(i)' = 0)
                     /\ \A q \in r2 : Queue!Sent(q.id)' <= q.attempts
          BY <3>1 DEF Queue!Attempted
        <4> QED
          BY <1>0, <2>4, <2>5, <3>1 DEF Queue!Attempted
      <3> QED
        BY <1>0, <3>1, <3>2 DEF Queue!IdsUnique
    <2>7. Queue!Once'
      <3> SUFFICES ASSUME ~r7' PROVE Queue!Once'
        BY DEF Queue!Once
      <3>1. ~r7 /\ (r5' = r5 \/ r5.at = "next")
        BY <1>8
      <3>2. \A i : Queue!Sent(i)' = Queue!Sent(i)
        BY <1>8, <3>1 DEF Queue!Sent
      <3> QED
        BY <1>0, <1>8, <2>2, <3>1, <3>2 DEF Queue!Once
    <2> QED
      BY <2>1, <2>3, <2>6, <2>7 DEF Queue!IInv
  <1>9. r1 \in Nat /\ r1 + 1 \in Nat
    BY <1>0 DEF Queue!TypeOK
  <1>10. ASSUME Queue!Drained PROVE Queue!IInv'
    BY <1>8, <1>9, <1>10 DEF Queue!Drained
  <1>11. ASSUME Queue!DrainDies PROVE Queue!IInv'
    BY <1>8, <1>9, <1>11 DEF Queue!DrainDies
  <1>12. ASSUME Queue!Tick PROVE Queue!IInv'
    BY <1>8, <1>9, <1>12 DEF Queue!Tick
  <1>13. ASSUME UNCHANGED Queue!vars PROVE Queue!IInv'
    BY <1>8, <1>9, <1>13 DEF Queue!vars
  <1> QED
    BY <1>1, <1>2, <1>3, <1>4, <1>5, <1>6, <1>7, <1>10, <1>11, <1>12, <1>13
       DEF Queue!Next

-------------------------------------------------------------------------------
(* Seats (LicenseService).                                                   *)

LEMMA SeatStart == Seat!Init => Seat!IInv
  BY DEF Seat!Init, Seat!IInv, Seat!TypeOK, Seat!LockHeld, Seat!Room,
     Seat!SeatsLicensed, Seat!Idle

LEMMA OneSeatLess ==
  ASSUME NEW s \in Seq(User), NEW i \in DOMAIN s
  PROVE  Seat!RemoveAt(s, i) \in Seq(User) /\ Len(Seat!RemoveAt(s, i)) = Len(s) - 1
  <1>1. i \in 1 .. Len(s) /\ Len(s) \in Nat
    BY LenProperties
  <1> DEFINE before == SubSeq(s, 1, i - 1)
             after == SubSeq(s, i + 1, Len(s))
  <1>2. /\ before \in Seq(User) /\ Len(before) = i - 1
        /\ after \in Seq(User) /\ Len(after) = Len(s) - i
    BY <1>1, SMT
  <1>3. Seat!RemoveAt(s, i) = before \o after
    BY DEF Seat!RemoveAt
  <1> HIDE DEF before, after
  <1> QED
    BY <1>1, <1>2, <1>3, ConcatProperties

LEMMA SeatKept == Seat!IInv /\ [Seat!Next]_(Seat!vars) => Seat!IInv'
  <1> SUFFICES ASSUME Seat!IInv, [Seat!Next]_(Seat!vars) PROVE Seat!IInv'
    OBVIOUS
  <1> USE ServicesAssumption DEF Seat!IInv, Seat!TypeOK, Seat!LockHeld, Seat!Room,
        Seat!SeatsLicensed, Seat!Idle, Seat!Goto
  <1>1. ASSUME Seat!ApplyLicense PROVE Seat!IInv'
    BY <1>1 DEF Seat!ApplyLicense
  <1>2. ASSUME Seat!RemoveLicense PROVE Seat!IInv'
    BY <1>2 DEF Seat!RemoveLicense
  <1>3. ASSUME Seat!RemoveSeat PROVE Seat!IInv'
    BY <1>3, OneSeatLess DEF Seat!RemoveSeat
  <1>4. ASSUME Seat!Expire PROVE Seat!IInv'
    BY <1>4 DEF Seat!Expire
  <1>5. ASSUME NEW a \in Request, Seat!Assign(a) PROVE Seat!IInv'
    BY <1>5 DEF Seat!Assign, Seat!Lock
  <1>6. ASSUME NEW a \in Request, Seat!Count(a) PROVE Seat!IInv'
    BY <1>6 DEF Seat!Count
  <1>7. ASSUME NEW a \in Request, Seat!Insert(a) PROVE Seat!IInv'
    BY <1>7 DEF Seat!Insert
  <1>8. ASSUME NEW a \in Request, Seat!Unlock(a) PROVE Seat!IInv'
    BY <1>8 DEF Seat!Unlock
  <1>9. ASSUME NEW a \in Request, Seat!Die(a) PROVE Seat!IInv'
    BY <1>9 DEF Seat!Die
  <1>10. ASSUME UNCHANGED Seat!vars PROVE Seat!IInv'
    BY <1>10 DEF Seat!vars
  <1> QED
    BY <1>1, <1>2, <1>3, <1>4, <1>5, <1>6, <1>7, <1>8, <1>9, <1>10 DEF Seat!Next

-------------------------------------------------------------------------------
(* Rate limits (ApiRateLimitService).                                        *)

\* Finite sets are what they are in every module.
LEMMA RateSets ==
  \A S : (Rate!IsFiniteSet(S) <=> IsFiniteSet(S)) /\ Rate!Cardinality(S) = Cardinality(S)
  BY DEF Rate!IsFiniteSet, IsFiniteSet, Rate!Cardinality, Cardinality

LEMMA RateStart == Rate!Init => Rate!IInv
  <1> SUFFICES ASSUME Rate!Init PROVE Rate!IInv
    OBVIOUS
  <1>1. \A t : {r \in {} : t <= r.time /\ r.time <= t + Window} = {}
    OBVIOUS
  <1>2. Rate!WindowKept
    BY <1>1, FS_EmptySet, RateSets, ServicesAssumption DEF Rate!WindowKept, Rate!Init
  <1> QED
    BY <1>2, FS_EmptySet, RateSets
       DEF Rate!Init, Rate!IInv, Rate!TypeOK, Rate!LockHeld, Rate!NotDeleted,
       Rate!Since,
           Rate!Room, Rate!Idle

\* An insertion fills a window only as far as the request has counted.
LEMMA InsertFits ==
  ASSUME Rate!IInv, NEW c \in Request, Rate!Insert(c), NEW t \in 0..LastSecond
  PROVE  Cardinality({r \in r5' : t <= r.time /\ r.time <= t + Window}) <= Max
  <1> DEFINE row == [id |-> Cardinality(r5) + 1, time |-> r4[c].time]
             In(S) == {r \in S : t <= r.time /\ r.time <= t + Window}
  <1>1. r5' = r5 \cup {row}
    BY RateSets DEF Rate!Insert
  <1>2. /\ IsFiniteSet(r5) /\ r5 \subseteq [id : Nat, time : 0..r1] /\ r1 \in Nat
        /\ r4[c].time \in 0..r1
    BY RateSets DEF Rate!IInv, Rate!TypeOK, Rate!Insert, Rate!Idle
  <1>3. IsFiniteSet(In(r5)) /\ Cardinality(In(r5)) \in Nat
    BY <1>2, FS_Subset, FS_CardinalityType
  <1>4. CASE row \in In({row})
    <2>1. In(r5) \subseteq Rate!Since(r4[c].time)
      BY <1>2, <1>4, ServicesAssumption DEF Rate!Since
    <2>2. IsFiniteSet(Rate!Since(r4[c].time)) /\ Cardinality(Rate!Since(r4[c].time)) \in Nat
      BY <1>2, FS_Subset, FS_CardinalityType DEF Rate!Since
    <2>3. Cardinality(In(r5)) < Max
      BY <1>3, <2>1, <2>2, FS_Subset, RateSets, ServicesAssumption
         DEF Rate!IInv, Rate!Room, Rate!Insert
    <2>4. In(r5') \subseteq In(r5) \cup {row}
      BY <1>1
    <2>5. Cardinality(In(r5')) <= Cardinality(In(r5)) + 1 /\ Cardinality(In(r5')) \in Nat
      <3> HIDE DEF In, row
      <3> QED
        BY <1>3, <2>4, OneMore
    <2> QED
      BY <1>3, <2>3, <2>5, ServicesAssumption
  <1>5. CASE row \notin In({row})
    <2>1. In(r5') = In(r5)
      BY <1>1, <1>5
    <2> QED
      BY <2>1, RateSets DEF Rate!IInv, Rate!WindowKept
  <1> QED
    BY <1>4, <1>5

LEMMA RateKept == Rate!IInv /\ [Rate!Next]_(Rate!vars) => Rate!IInv'
  <1> SUFFICES ASSUME Rate!IInv, [Rate!Next]_(Rate!vars) PROVE Rate!IInv'
    OBVIOUS
  <1> USE ServicesAssumption DEF Rate!IInv, Rate!TypeOK, Rate!LockHeld, Rate!NotDeleted,
        Rate!Since, Rate!Room, Rate!WindowKept, Rate!Idle, Rate!Goto
  <1>1. ASSUME NEW c \in Request, Rate!Acquire(c) PROVE Rate!IInv'
    BY <1>1 DEF Rate!Acquire
  <1>2. ASSUME NEW c \in Request, Rate!Count(c) PROVE Rate!IInv'
    <2>1. r2' = Rate!Since(r1)
      BY <1>2 DEF Rate!Count
    <2>2. Rate!TypeOK' /\ Rate!LockHeld' /\ Rate!NotDeleted' /\ Rate!WindowKept'
      BY <1>2 DEF Rate!Count
    <2>3. Cardinality(r2') \in Nat
      BY <2>1, RateSets, FS_Subset, FS_CardinalityType
    <2>4. Rate!Cardinality(r2') = Cardinality(r2')
      BY RateSets
    <2>5. ASSUME NEW d \in Request, r4'[d].at = "insert"
          PROVE  Cardinality(r2') < Max /\ r4'[d].time = r1
      BY <1>2, <2>3, <2>4, <2>5 DEF Rate!Count
    <2>6. \A r \in r5' : r.time <= r1
      BY <1>2 DEF Rate!Count
    <2>7. r5' = r5
      BY <1>2 DEF Rate!Count
    <2>8. Rate!Room'
      <3> SUFFICES ASSUME NEW d \in Request, r4'[d].at = "insert"
                   PROVE  /\ Rate!Cardinality(Rate!Since(r4[d].time)') < Max
                          /\ \A r \in r5' : r.time <= r4'[d].time
        BY DEF Rate!Room
      <3>1. Rate!Since(r4[d].time)' = r2'
        BY <2>1, <2>5, <2>7 DEF Rate!Since
      <3> QED
        BY <2>4, <2>5, <2>6, <3>1
    <2> QED
      BY <2>2, <2>8
  <1>3. ASSUME NEW c \in Request, Rate!Insert(c) PROVE Rate!IInv'
    <2> DEFINE row == [id |-> Rate!Cardinality(r5) + 1, time |-> r4[c].time]
    <2>1. r2' = r2 \cup {row} /\ r5' = r5 \cup {row}
      BY <1>3 DEF Rate!Insert
    <2>2. IsFiniteSet(r5) /\ Rate!Cardinality(r5) \in Nat
      BY RateSets, FS_CardinalityType
    <2>3. Rate!IsFiniteSet(r5')
      BY <2>1, <2>2, RateSets, FS_AddElement
    <2>4. row \in [id : Nat, time : 0..r1]
      BY <1>3, <2>2 DEF Rate!Insert
    <2> HIDE DEF row
    <2>5. Rate!TypeOK'
      BY <1>3, <2>1, <2>3, <2>4 DEF Rate!Insert
    <2>6. Rate!LockHeld' /\ Rate!NotDeleted' /\ Rate!Room'
      BY <1>3, <2>1 DEF Rate!Insert
    <2>7. Rate!WindowKept'
      BY <1>3, InsertFits, RateSets
    <2> QED
      BY <2>5, <2>6, <2>7
  <1>4. ASSUME NEW c \in Request, Rate!Release(c) PROVE Rate!IInv'
    BY <1>4 DEF Rate!Release
  <1>5. ASSUME NEW c \in Request, Rate!Die(c) PROVE Rate!IInv'
    BY <1>5 DEF Rate!Die
  <1>6. ASSUME Rate!Expire PROVE Rate!IInv'
    BY <1>6 DEF Rate!Expire
  <1>7. ASSUME Rate!Tick PROVE Rate!IInv'
    <2>1. r1 \in Nat /\ r1' = r1 + 1 /\ UNCHANGED <<r2, r3, r4, r5>>
      BY <1>7 DEF Rate!Tick
    <2>2. 0 .. r1 \subseteq 0 .. r1' /\ r1' \in Nat
      BY <2>1
    <2>3. Rate!TypeOK'
      <3>1. \A r \in r5 : r \in [id : Nat, time : 0 .. r1']
        BY <2>2
      <3>2. \A c \in Request : r4[c] \in {Rate!Idle} \cup [at : {"count", "release"}]
                                           \cup [at : {"insert"}, time : 0 .. r1']
        BY <2>2
      <3> QED
        BY <2>1, <2>2, <3>1, <3>2
    <2>4. Rate!LockHeld' /\ Rate!Room' /\ Rate!WindowKept'
      BY <2>1
    <2>5. Rate!NotDeleted'
      <3>1. \A r \in r5 : r.time \in Nat
        BY <2>1
      <3>2. \A r \in r5 : r.time + Window >= r1 + 1 => r.time + Window >= r1
        BY <2>1, <3>1, ServicesAssumption
      <3> QED
        BY <2>1, <3>2
    <2> QED
      BY <2>3, <2>4, <2>5
  <1>8. ASSUME UNCHANGED Rate!vars PROVE Rate!IInv'
    BY <1>8 DEF Rate!vars
  <1> QED
    BY <1>1, <1>2, <1>3, <1>4, <1>5, <1>6, <1>7, <1>8 DEF Rate!Next

-------------------------------------------------------------------------------
(* Blackouts (AvailabilityBlackoutService).                                  *)

LEMMA BlackoutStart ==
  ASSUME NEW P
  PROVE  Blackout(P)!Init => Blackout(P)!IInv
  <1> SUFFICES ASSUME Blackout(P)!Init PROVE Blackout(P)!IInv
    OBVIOUS
  <1>1. r1 = {} /\ r2 = 0 /\ r3 = {} /\ r6 = {} /\ \A p \in P : r5[p].at = "idle"
    BY DEF Blackout!Init, Blackout!Idle
  <1>2. Blackout(P)!TypeOK
    BY <1>1 DEF Blackout!TypeOK, Blackout!Init
  <1> QED
    BY <1>1, <1>2 DEF Blackout!IInv, Blackout!LockHeld, Blackout!Mergeable,
                      Blackout!Disjoint, Blackout!NothingLost

LEMMA MinOf ==
  ASSUME NEW P, NEW T, T \subseteq 0 .. LastHour, T # {}
  PROVE  Blackout(P)!Min(T) \in T /\ \A y \in T : Blackout(P)!Min(T) <= y
  <1>1. T \subseteq Nat
    OBVIOUS
  <1>2. \E x \in T : \A y \in T : x <= y
    BY <1>1, Least
  <1> QED
    BY <1>2 DEF Blackout!Min

LEMMA MaxOf ==
  ASSUME NEW P, NEW T, T \subseteq 0 .. LastHour, T # {}
  PROVE  Blackout(P)!Max(T) \in T /\ \A y \in T : y <= Blackout(P)!Max(T)
  <1>1. \E x \in T : \A y \in T : y <= x
    BY Greatest, ServicesAssumption
  <1>2. \A x, y \in T : x >= y <=> y <= x
    OBVIOUS
  <1>3. \E x \in T : \A y \in T : x >= y
    BY <1>1, <1>2
  <1>4. Blackout(P)!Max(T) \in T /\ \A y \in T : Blackout(P)!Max(T) >= y
    BY <1>3 DEF Blackout!Max
  <1> QED
    BY <1>2, <1>4

\* A merge covers all it takes up and touches nothing else.
LEMMA UnionFits ==
  ASSUME NEW P, Blackout(P)!TypeOK, Blackout(P)!Disjoint, NEW b \in Blackout(P)!Wishes,
         NEW T, T = Blackout(P)!Touching(b),
         \A r \in T : Blackout(P)!Compatible(b.loc, r.loc),
         NEW u, u = Blackout(P)!Union(b, T)
  PROVE  /\ u \in Blackout(P)!Span /\ u.from < u.to
         /\ \A r \in r1 \ T : Blackout(P)!Apart(r, u)
         /\ \A r \in T \cup {b} : Blackout(P)!Hours(r) \subseteq Blackout(P)!Hours(u)
  <1> DEFINE all == T \cup {b}
             L == Location \cup {None}
  <1>1. /\ b \in [from : 0 .. LastHour, to : 0 .. LastHour, loc : L] /\ b.from < b.to
        /\ T \subseteq r1 /\ \A r \in r1 : r \in T <=> r.from <= b.to /\ r.to >= b.from
    BY DEF Blackout!Wishes, Blackout!Touching
  <1>2. \A r \in r1 : r.from \in 0 .. LastHour /\ r.to \in 0 .. LastHour /\ r.loc \in L /\ r.from < r.to
    BY DEF Blackout!TypeOK
  <1>3. \A r \in all : r.from \in 0 .. LastHour /\ r.to \in 0 .. LastHour /\ r.loc \in L /\ r.from < r.to
    BY <1>1, <1>2
  <1>4. u.from \in {r.from : r \in all} /\ \A y \in {r.from : r \in all} : u.from <= y
    <2>1. {r.from : r \in all} \subseteq 0 .. LastHour /\ {r.from : r \in all} # {}
      BY <1>3
    <2>2. u.from = Blackout(P)!Min({r.from : r \in all})
      BY DEF Blackout!Union
    <2> HIDE DEF all
    <2> QED
      BY <2>1, <2>2, MinOf
  <1>5. u.to \in {r.to : r \in all} /\ \A y \in {r.to : r \in all} : y <= u.to
    <2>1. {r.to : r \in all} \subseteq 0 .. LastHour /\ {r.to : r \in all} # {}
      BY <1>3
    <2>2. u.to = Blackout(P)!Max({r.to : r \in all})
      BY DEF Blackout!Union
    <2> HIDE DEF all
    <2> QED
      BY <2>1, <2>2, MaxOf
  <1>6. u.loc = IF \E r \in all : r.loc = None THEN None ELSE b.loc
    BY DEF Blackout!Union
  <1>7. DOMAIN u = {"from", "to", "loc"} /\ u = [from |-> u.from, to |-> u.to, loc |-> u.loc]
    BY DEF Blackout!Union
  <1>8. /\ \A r \in all : u.from <= r.from /\ r.to <= u.to
        /\ \E r \in all : r.from = u.from
        /\ \E r \in all : r.to = u.to
        /\ u.from \in 0 .. LastHour /\ u.to \in 0 .. LastHour
    BY <1>3, <1>4, <1>5
  <1> HIDE DEF all
  <1>9. u \in Blackout(P)!Span /\ u.from < u.to
    <2>1. u.loc \in L
      BY <1>1, <1>6
    <2>2. u.from < u.to
      <3>1. b \in all
        BY DEF all
      <3> QED
        BY <1>3, <1>8, <3>1
    <2> HIDE DEF L
    <2>3. [from |-> u.from, to |-> u.to, loc |-> u.loc] \in [from : 0 .. LastHour, to : 0 .. LastHour, loc : L]
      BY <1>8, <2>1
    <2> QED
      BY <1>7, <2>2, <2>3 DEF Blackout!Span, L
  <1>10. ASSUME NEW r \in r1 \ T PROVE Blackout(P)!Apart(r, u)
    <2>1. /\ r.from \in 0 .. LastHour /\ r.to \in 0 .. LastHour /\ r.from < r.to
          /\ ~(r.from <= b.to /\ r.to >= b.from)
      BY <1>1, <1>2
    <2>2. \A t \in T : r.to < t.from \/ t.to < r.from
      BY <1>1 DEF Blackout!Disjoint
    <2>3. PICK x \in all : x.from = u.from
      BY <1>8
    <2>4. PICK y \in all : y.to = u.to
      BY <1>8
    <2>5. \A t \in all : t = b \/ (t \in T /\ t.from <= b.to /\ t.to >= b.from)
      BY <1>1 DEF all
    <2>6. CASE b.to < r.from
      <3>1. y.to < r.from
        <4>1. CASE y = b
          BY <2>6, <4>1
        <4>2. CASE y # b
          BY <1>1, <1>3, <2>1, <2>2, <2>4, <2>5, <2>6, <4>2
        <4> QED
          BY <4>1, <4>2
      <3> QED
        BY <2>4, <3>1 DEF Blackout!Apart
    <2>7. CASE r.to < b.from
      <3>1. r.to < x.from
        <4>1. CASE x = b
          BY <2>7, <4>1
        <4>2. CASE x # b
          BY <1>1, <1>3, <2>1, <2>2, <2>3, <2>5, <2>7, <4>2
        <4> QED
          BY <4>1, <4>2
      <3> QED
        BY <2>3, <3>1 DEF Blackout!Apart
    <2> QED
      BY <1>1, <2>1, <2>6, <2>7
  <1>11. ASSUME NEW r \in all PROVE Blackout(P)!Hours(r) \subseteq Blackout(P)!Hours(u)
    <2>1. u.loc = None \/ (u.loc = b.loc /\ r.loc = b.loc)
      BY <1>6 DEF Blackout!Compatible, all
    <2>2. r.from .. r.to - 1 \subseteq u.from .. u.to - 1
      BY <1>3, <1>8
    <2> QED
      BY <2>1, <2>2 DEF Blackout!Hours
  <1> QED
    BY <1>9, <1>10, <1>11 DEF all

LEMMA BlackoutKept ==
  ASSUME NEW P, None \notin P, "stale" \notin P
  PROVE  Blackout(P)!IInv /\ [Blackout(P)!Next]_(Blackout(P)!vars) => Blackout(P)!IInv'
  <1> SUFFICES ASSUME Blackout(P)!IInv, [Blackout(P)!Next]_(Blackout(P)!vars)
               PROVE  Blackout(P)!IInv'
    OBVIOUS
  <1>0. /\ Blackout(P)!TypeOK /\ Blackout(P)!LockHeld /\ Blackout(P)!Mergeable
        /\ Blackout(P)!Disjoint /\ Blackout(P)!NothingLost
    BY DEF Blackout!IInv
  <1> DEFINE Req == {Blackout(P)!Idle, [at |-> "unlock"]}
                      \cup [at : {"merge"}, wish : Blackout(P)!Wishes]
                      \cup [at : {"write"}, wish : Blackout(P)!Wishes, merged : SUBSET Nat,
                            union : Blackout(P)!Span]
                      \cup [at : {"detach", "delete", "override"}, id : Nat]
  <1>1. r5 \in [P -> Req]
    BY <1>0 DEF Blackout!TypeOK
  <1>2. /\ r2 \in Nat /\ r3 \subseteq Nat /\ \A r \in r1 : r.id \in Nat
    BY <1>0 DEF Blackout!TypeOK
  <1> USE DEF Blackout!Goto
  \* A request moves and leaves the blackouts alone.
  <1>3. ASSUME UNCHANGED <<r1, r2, r6>>, r3' \subseteq Nat,
               NEW p \in P, NEW state \in Req, r5' = [r5 EXCEPT ![p] = state],
               \/ state.at \in {"merge", "write", "unlock"} /\ r4' = p /\ r4 \in {None, p}
               \/ state.at \notin {"merge", "write", "unlock"} /\ (r4' = r4 \/ r4 = p),
               state.at # "write"
        PROVE  Blackout(P)!IInv'
    <2>1. Blackout(P)!TypeOK'
      BY <1>0, <1>1, <1>3 DEF Blackout!TypeOK
    <2>2. Blackout(P)!LockHeld'
      BY <1>0, <1>1, <1>3 DEF Blackout!LockHeld
    <2>3. Blackout(P)!Mergeable'
      BY <1>0, <1>1, <1>3 DEF Blackout!Mergeable, Blackout!Kept
    <2>4. Blackout(P)!Disjoint' /\ Blackout(P)!NothingLost'
      BY <1>0, <1>3 DEF Blackout!Disjoint, Blackout!NothingLost
    <2> QED
      BY <2>1, <2>2, <2>3, <2>4 DEF Blackout!IInv
  <1>4. ASSUME NEW p \in P, Blackout(P)!Create(p) PROVE Blackout(P)!IInv'
    <2>1. PICK b \in Blackout(P)!Wishes : r5' = [r5 EXCEPT ![p] = [at |-> "merge", wish |-> b]]
      BY <1>4 DEF Blackout!Create
    <2>2. UNCHANGED <<r1, r2, r3, r6>> /\ r4 = None /\ r4' = p
      BY <1>4 DEF Blackout!Create, Blackout!Lock
    <2>3. [at |-> "merge", wish |-> b] \in Req
      OBVIOUS
    <2> HIDE DEF Req
    <2> QED
      BY <1>2, <1>3, <2>1, <2>2, <2>3
  <1>5. ASSUME NEW p \in P, Blackout(P)!ReadOverlapping(p) PROVE Blackout(P)!IInv'
    <2> DEFINE b == r5[p].wish
               T == Blackout(P)!Touching(b)
               u == Blackout(P)!Union(b, T)
               merge == [at |-> "write", wish |-> b, merged |-> {r.id : r \in T}, union |-> u]
    <2>1. r5[p].at = "merge" /\ b \in Blackout(P)!Wishes /\ UNCHANGED <<r1, r2, r3, r4, r6>> /\ r4 = p
      BY <1>0, <1>1, <1>5 DEF Blackout!ReadOverlapping, Blackout!LockHeld, Blackout!Idle
    <2>2. CASE r5' = [r5 EXCEPT ![p] = [at |-> "unlock"]]
      <3>1. [at |-> "unlock"] \in Req
        OBVIOUS
      <3> HIDE DEF Req
      <3> QED
        BY <1>2, <1>3, <2>1, <2>2, <3>1
    <2>3. CASE /\ r5' = [r5 EXCEPT ![p] = merge]
               /\ \A r \in T : Blackout(P)!Compatible(b.loc, r.loc)
      <3>1. PICK wish, t, v :
              wish \in Blackout(P)!Wishes /\ wish = b /\ t = T /\ v = u
        BY <2>1
      <3> wish \in Blackout(P)!Wishes
        BY <3>1
      <3>2. /\ v \in Blackout(P)!Span /\ v.from < v.to
            /\ \A r \in r1 \ t : Blackout(P)!Apart(r, v)
            /\ \A r \in t \cup {wish} : Blackout(P)!Hours(r) \subseteq Blackout(P)!Hours(v)
        <4>1. t = Blackout(P)!Touching(wish) /\ v = Blackout(P)!Union(wish, t)
              /\ \A r \in t : Blackout(P)!Compatible(wish.loc, r.loc)
          BY <2>3, <3>1
        <4> QED
          BY <1>0, <4>1, UnionFits
      <3>3. t \subseteq r1 /\ {r.id : r \in t} \in SUBSET Nat
        <4>1. t \subseteq r1
          BY <3>1 DEF Blackout!Touching
        <4> QED
          BY <1>2, <4>1
      <3> DEFINE m == [at |-> "write", wish |-> wish, merged |-> {r.id : r \in t}, union |-> v]
      <3>4. r5' = [r5 EXCEPT ![p] = m]
        BY <2>3, <3>1
      <3>5. m \in Req
        BY <3>2, <3>3
      <3>6. /\ m.at = "write" /\ m.wish = wish /\ m.merged = {r.id : r \in t} /\ m.union = v
        OBVIOUS
      <3>7. {r \in r1 : r.id \notin m.merged} = r1 \ t
        BY <1>0, <3>3, <3>6 DEF Blackout!TypeOK
      <3> HIDE DEF m, Req, b, T, u, merge
      <3>8. r5'[p] = m /\ \A q \in P : q # p => r5'[q] = r5[q]
        BY <1>1, <3>4
      <3>9. \A q \in P : q # p => r5'[q].at # "write"
        BY <1>0, <2>1, <3>8 DEF Blackout!LockHeld
      <3>10. Blackout(P)!TypeOK'
        <4>1. r5' \in [P -> Req]
          BY <1>1, <3>4, <3>5
        <4> QED
          BY <1>0, <2>1, <4>1 DEF Blackout!TypeOK, Req
      <3>11. Blackout(P)!LockHeld'
        BY <1>0, <2>1, <3>8 DEF Blackout!LockHeld
      <3>12. Blackout(P)!Mergeable'
        <4>1. Blackout(P)!Kept(p)' = r1 \ t
          BY <2>1, <3>7, <3>8 DEF Blackout!Kept
        <4>2. /\ v.from < v.to /\ \A r \in r1 \ t : Blackout(P)!Apart(r, v)
              /\ Blackout(P)!Hours(wish) \subseteq Blackout(P)!Hours(v)
          BY <3>2
        <4>3. r6 \subseteq Blackout(P)!Hours(v) \cup UNION {Blackout(P)!Hours(r) : r \in r1 \ t}
          <5>1. r6 \subseteq UNION {Blackout(P)!Hours(r) : r \in r1}
            BY <1>0 DEF Blackout!NothingLost
          <5>2. \A r \in r1 : r \in r1 \ t \/ Blackout(P)!Hours(r) \subseteq Blackout(P)!Hours(v)
            BY <3>2
          <5> QED
            BY <5>1, <5>2
        <4>4. r5'[p].union = v /\ r5'[p].wish = wish /\ r6' = r6
          BY <2>1, <3>6, <3>8
        <4> QED
          BY <3>9, <4>1, <4>2, <4>3, <4>4 DEF Blackout!Mergeable
      <3>13. Blackout(P)!Disjoint' /\ Blackout(P)!NothingLost'
        BY <1>0, <2>1 DEF Blackout!Disjoint, Blackout!NothingLost
      <3> QED
        BY <3>10, <3>11, <3>12, <3>13 DEF Blackout!IInv
    <2> QED
      BY <1>5, <2>2, <2>3 DEF Blackout!ReadOverlapping
  <1>6. ASSUME NEW p \in P, Blackout(P)!CommitMerge(p) PROVE Blackout(P)!IInv'
    <2> DEFINE u == r5[p].union
               new == [id |-> r2 + 1, from |-> u.from, to |-> u.to, loc |-> u.loc]
               kept == Blackout(P)!Kept(p)
    <2>1. /\ r5[p].at = "write" /\ r2' = r2 + 1 /\ r4' = r4
          /\ r1' = kept \cup {new}
          /\ r3' = Blackout(P)!Repointed(r5[p].merged, r2 + 1)
          /\ r6' = r6 \cup Blackout(P)!Hours(r5[p].wish)
          /\ r5' = [r5 EXCEPT ![p] = [at |-> "unlock"]]
      BY <1>6 DEF Blackout!CommitMerge, Blackout!Kept
    <2>2. /\ kept \subseteq r1 /\ u \in Blackout(P)!Span
      BY <1>1, <2>1 DEF Blackout!Kept, Blackout!Idle
    <2>3. /\ u.from < u.to /\ \A r \in kept : Blackout(P)!Apart(r, u)
          /\ Blackout(P)!Hours(r5[p].wish) \subseteq Blackout(P)!Hours(u)
          /\ r6 \subseteq Blackout(P)!Hours(u) \cup UNION {Blackout(P)!Hours(r) : r \in kept}
      BY <1>0, <2>1 DEF Blackout!Mergeable
    <2>4. /\ new.id = r2 + 1 /\ new.from = u.from /\ new.to = u.to /\ new.loc = u.loc
          /\ new \in [id : 1 .. r2 + 1, from : 0 .. LastHour, to : 0 .. LastHour, loc : Location \cup {None}]
      BY <1>2, <2>2 DEF Blackout!Span
    <2>5. \A r \in kept : /\ r \in [id : 1 .. r2 + 1, from : 0 .. LastHour, to : 0 .. LastHour,
                                    loc : Location \cup {None}]
                          /\ r.id # r2 + 1 /\ r.from < r.to
      BY <1>0, <1>2, <2>2 DEF Blackout!TypeOK
    <2>6. \A q \in P : r5'[q] = IF q = p THEN [at |-> "unlock"] ELSE r5[q]
      BY <1>1, <2>1
    <2> HIDE DEF new, kept, u
    <2>7. Blackout(P)!TypeOK'
      <3>1. r5' \in [P -> Req]
        BY <1>1, <2>1
      <3>2. r2' \in Nat /\ r3' \subseteq Nat
        <4>1. r2 + 1 \in Nat
          BY <1>2
        <4>2. r3' \subseteq r3 \cup {r2 + 1}
          BY <2>1 DEF Blackout!Repointed
        <4> QED
          BY <1>2, <2>1, <4>1, <4>2
      <3>3. r1' \subseteq [id : 1 .. r2', from : 0 .. LastHour, to : 0 .. LastHour, loc : Location \cup {None}]
        BY <2>1, <2>4, <2>5
      <3>4. \A r \in r1' : r.from < r.to
        BY <2>1, <2>3, <2>4, <2>5
      <3>5. \A r, s \in r1 : r.id = s.id => r = s
        BY <1>0 DEF Blackout!TypeOK
      <3>6. \A r, s \in r1' : r.id = s.id => r = s
        BY <2>1, <2>2, <2>4, <2>5, <3>5
      <3> QED
        BY <3>1, <3>2, <3>3, <3>4, <3>6 DEF Blackout!TypeOK
    <2>8. Blackout(P)!LockHeld'
      BY <1>0, <2>1, <2>6 DEF Blackout!LockHeld
    <2>9. Blackout(P)!Mergeable'
      BY <1>0, <2>1, <2>6 DEF Blackout!Mergeable, Blackout!LockHeld
    <2>10. Blackout(P)!Disjoint'
      BY <1>0, <2>1, <2>2, <2>3, <2>4 DEF Blackout!Disjoint, Blackout!Apart
    <2>11. Blackout(P)!NothingLost'
      <3>1. Blackout(P)!Hours(new) = Blackout(P)!Hours(u)
        BY <2>4 DEF Blackout!Hours
      <3>2. r6' \subseteq Blackout(P)!Hours(new) \cup UNION {Blackout(P)!Hours(r) : r \in kept}
        BY <2>1, <2>3, <3>1
      <3>3. UNION {Blackout(P)!Hours(r) : r \in r1'} =
              Blackout(P)!Hours(new) \cup UNION {Blackout(P)!Hours(r) : r \in kept}
        BY <2>1
      <3>4. Blackout(P)!NothingLost' <=> r6' \subseteq UNION {Blackout(P)!Hours(r) : r \in r1'}
        BY DEF Blackout!NothingLost, Blackout!Hours
      <3> QED
        BY <3>2, <3>3, <3>4
    <2> QED
      BY <2>7, <2>8, <2>9, <2>10, <2>11 DEF Blackout!IInv
  <1>7. ASSUME NEW p \in P, Blackout(P)!MergeFails(p) PROVE Blackout(P)!IInv'
    <2>1. UNCHANGED <<r1, r2, r3, r4, r6>> /\ r4 = p /\ r5' = [r5 EXCEPT ![p] = [at |-> "unlock"]]
      BY <1>0, <1>7 DEF Blackout!MergeFails, Blackout!LockHeld
    <2>2. [at |-> "unlock"] \in Req
      OBVIOUS
    <2> HIDE DEF Req
    <2> QED
      BY <1>2, <1>3, <2>1, <2>2
  <1>8. Blackout(P)!Idle \in Req /\ Blackout(P)!Idle.at = "idle"
    BY DEF Blackout!Idle
  <1>9. ASSUME NEW p \in P, Blackout(P)!Unlock(p) PROVE Blackout(P)!IInv'
    <2>1. UNCHANGED <<r1, r2, r3, r6>> /\ r4 = p /\ r5' = [r5 EXCEPT ![p] = Blackout(P)!Idle]
      BY <1>0, <1>9 DEF Blackout!Unlock, Blackout!LockHeld
    <2> HIDE DEF Req
    <2> QED
      BY <1>2, <1>3, <1>8, <2>1
  <1>10. ASSUME NEW p \in P, Blackout(P)!ReadRow(p) PROVE Blackout(P)!IInv'
    <2>1. PICK r \in r1 : r5' = [r5 EXCEPT ![p] = [at |-> "detach", id |-> r.id]]
      BY <1>10 DEF Blackout!ReadRow
    <2>2. UNCHANGED <<r1, r2, r3, r4, r6>>
      BY <1>10 DEF Blackout!ReadRow
    <2>3. [at |-> "detach", id |-> r.id] \in Req
      BY <1>2
    <2> HIDE DEF Req
    <2> QED
      BY <1>2, <1>3, <2>1, <2>2, <2>3
  <1>11. ASSUME NEW p \in P, Blackout(P)!Detach(p) PROVE Blackout(P)!IInv'
    <2>1. /\ UNCHANGED <<r1, r2, r4, r6>> /\ r3' = r3 \ {r5[p].id} /\ r5[p].at = "detach"
          /\ r5' = [r5 EXCEPT ![p] = [r5[p] EXCEPT !.at = "delete"]]
      BY <1>11 DEF Blackout!Detach
    <2>2. [r5[p] EXCEPT !.at = "delete"] \in Req /\ [r5[p] EXCEPT !.at = "delete"].at = "delete"
      BY <1>1, <2>1 DEF Blackout!Idle
    <2>3. r3' \subseteq Nat
      BY <1>2, <2>1
    <2> HIDE DEF Req
    <2> QED
      BY <1>3, <2>1, <2>2, <2>3
  <1>12. ASSUME NEW p \in P, Blackout(P)!Delete(p) PROVE Blackout(P)!IInv'
    <2> DEFINE gone == {r \in r1 : r.id = r5[p].id}
    <2>1. /\ r1' = r1 \ gone /\ r6' = r6 \ UNION {Blackout(P)!Hours(r) : r \in gone}
          /\ UNCHANGED <<r2, r3, r4>> /\ r5' = [r5 EXCEPT ![p] = Blackout(P)!Idle]
          /\ r5[p].at = "delete"
      BY <1>12 DEF Blackout!Delete
    <2>2. \A q \in P : r5'[q] = IF q = p THEN Blackout(P)!Idle ELSE r5[q]
      BY <1>1, <2>1
    <2> HIDE DEF gone
    <2>3. Blackout(P)!TypeOK'
      <3>1. r5' \in [P -> Req]
        BY <1>1, <1>8, <2>1
      <3> QED
        BY <1>0, <2>1, <3>1 DEF Blackout!TypeOK
    <2>4. Blackout(P)!LockHeld'
      BY <1>0, <1>8, <2>1, <2>2 DEF Blackout!LockHeld
    <2>5. Blackout(P)!Disjoint'
      BY <1>0, <2>1 DEF Blackout!Disjoint
    <2>6. Blackout(P)!NothingLost'
      <3>1. r6 \subseteq UNION {Blackout(P)!Hours(r) : r \in r1}
        BY <1>0 DEF Blackout!NothingLost
      <3>2. r6' \subseteq UNION {Blackout(P)!Hours(r) : r \in r1'}
        BY <2>1, <3>1
      <3> QED
        BY <3>2 DEF Blackout!NothingLost, Blackout!Hours
    <2>7. Blackout(P)!Mergeable'
      <3> SUFFICES ASSUME NEW q \in P, r5'[q].at = "write"
                   PROVE  /\ r5'[q].union.from < r5'[q].union.to
                          /\ \A r \in Blackout(P)!Kept(q)' : Blackout(P)!Apart(r, r5'[q].union)
                          /\ Blackout(P)!Hours(r5'[q].wish) \subseteq Blackout(P)!Hours(r5'[q].union)
                          /\ r6' \subseteq Blackout(P)!Hours(r5'[q].union)
                                 \cup UNION {Blackout(P)!Hours(r) : r \in Blackout(P)!Kept(q)'}
        BY DEF Blackout!Mergeable, Blackout!Hours, Blackout!Apart
      <3>1. q # p /\ r5'[q] = r5[q] /\ r5[q].at = "write"
        BY <1>8, <2>2
      <3>2. Blackout(P)!Kept(q)' = Blackout(P)!Kept(q) \ gone
        BY <2>1, <3>1 DEF Blackout!Kept
      <3>3. /\ r5[q].union.from < r5[q].union.to
            /\ \A r \in Blackout(P)!Kept(q) : Blackout(P)!Apart(r, r5[q].union)
            /\ Blackout(P)!Hours(r5[q].wish) \subseteq Blackout(P)!Hours(r5[q].union)
            /\ r6 \subseteq Blackout(P)!Hours(r5[q].union)
                   \cup UNION {Blackout(P)!Hours(r) : r \in Blackout(P)!Kept(q)}
        BY <1>0, <3>1 DEF Blackout!Mergeable
      <3> QED
        BY <2>1, <3>1, <3>2, <3>3
    <2> QED
      BY <2>3, <2>4, <2>5, <2>6, <2>7 DEF Blackout!IInv
  <1>13. ASSUME NEW p \in P, Blackout(P)!ReadOverridden(p) PROVE Blackout(P)!IInv'
    <2>1. PICK r \in r1 : r5' = [r5 EXCEPT ![p] = [at |-> "override", id |-> r.id]]
      BY <1>13 DEF Blackout!ReadOverridden
    <2>2. UNCHANGED <<r1, r2, r3, r4, r6>>
      BY <1>13 DEF Blackout!ReadOverridden
    <2>3. [at |-> "override", id |-> r.id] \in Req
      BY <1>2
    <2> HIDE DEF Req
    <2> QED
      BY <1>2, <1>3, <2>1, <2>2, <2>3
  <1>14. ASSUME NEW p \in P, Blackout(P)!RecordOverride(p) PROVE Blackout(P)!IInv'
    <2>1. /\ UNCHANGED <<r1, r2, r4, r6>> /\ r3' = r3 \cup {r5[p].id} /\ r5[p].at = "override"
          /\ r5' = [r5 EXCEPT ![p] = Blackout(P)!Idle]
      BY <1>14 DEF Blackout!RecordOverride
    <2>2. r5[p].id \in Nat
      BY <1>1, <2>1 DEF Blackout!Idle
    <2>3. r3' \subseteq Nat
      BY <1>2, <2>1, <2>2
    <2> HIDE DEF Req
    <2> QED
      BY <1>3, <1>8, <2>1, <2>3
  <1>15. ASSUME NEW p \in P, Blackout(P)!Die(p) PROVE Blackout(P)!IInv'
    <2>1. /\ UNCHANGED <<r1, r2, r3, r6>> /\ (r4' = r4 \/ r4 = p)
          /\ r5' = [r5 EXCEPT ![p] = Blackout(P)!Idle]
      BY <1>15 DEF Blackout!Die
    <2> HIDE DEF Req
    <2> QED
      BY <1>2, <1>3, <1>8, <2>1
  <1>16. CASE Blackout(P)!Expire
    <2>1. UNCHANGED <<r1, r2, r3, r5, r6>> /\ r4 = "stale"
      BY <1>16 DEF Blackout!Expire
    <2>2. \A p \in P : r5[p].at \notin {"merge", "write", "unlock"}
      BY <1>0, <2>1 DEF Blackout!LockHeld
    <2> QED
      BY <1>0, <2>1, <2>2
         DEF Blackout!IInv, Blackout!TypeOK, Blackout!LockHeld, Blackout!Mergeable,
                              Blackout!Disjoint, Blackout!NothingLost
  <1>17. CASE UNCHANGED Blackout(P)!vars
    <2>1. UNCHANGED <<r1, r2, r3, r4, r5, r6>>
      BY <1>17 DEF Blackout!vars
    <2> QED
      BY <1>0, <2>1
         DEF Blackout!IInv, Blackout!TypeOK, Blackout!LockHeld, Blackout!Mergeable,
                        Blackout!Kept, Blackout!Disjoint, Blackout!NothingLost
  <1> QED
    BY <1>4, <1>5, <1>6, <1>7, <1>9, <1>10, <1>11, <1>12, <1>13, <1>14, <1>15, <1>16,
       <1>17
       DEF Blackout!Next

LEMMA BlackoutAloneStart ==
  ASSUME NEW P
  PROVE  Blackout(P)!Init => Blackout(P)!AloneInv
  <1> SUFFICES ASSUME Blackout(P)!Init PROVE Blackout(P)!AloneInv
    OBVIOUS
  <1>1. Blackout(P)!IInv
    BY BlackoutStart
  <1>2. r3 = {} /\ \A p \in P : r5[p].at = "idle"
    BY DEF Blackout!Init, Blackout!Idle
  <1> QED
    BY <1>1, <1>2 DEF Blackout!AloneInv, Blackout!Working, Blackout!OverridesLive

LEMMA BlackoutAloneKept ==
  ASSUME NEW P, None \notin P, "stale" \notin P, \A p, q \in P : p = q
  PROVE  Blackout(P)!AloneInv /\ [Blackout(P)!Next]_(Blackout(P)!vars) => Blackout(P)!AloneInv'
  <1> SUFFICES ASSUME Blackout(P)!AloneInv, [Blackout(P)!Next]_(Blackout(P)!vars)
               PROVE  Blackout(P)!AloneInv'
    OBVIOUS
  <1>0. /\ Blackout(P)!IInv /\ Blackout(P)!TypeOK /\ Blackout(P)!Working
        /\ Blackout(P)!OverridesLive /\ DOMAIN r5 = P
    BY DEF Blackout!AloneInv, Blackout!IInv, Blackout!TypeOK
  <1>1. Blackout(P)!IInv'
    BY <1>0, BlackoutKept
  <1> USE DEF Blackout!Goto
  <1>2. SUFFICES Blackout(P)!Working' /\ Blackout(P)!OverridesLive'
    BY <1>1 DEF Blackout!AloneInv
  \* A step that leaves the rows and the overrides, to no state that needs a row.
  <1>3. ASSUME UNCHANGED <<r1, r3>>, NEW p \in P, NEW state, r5' = [r5 EXCEPT ![p] = state],
               state.at \notin {"override", "delete"}
        PROVE  Blackout(P)!Working' /\ Blackout(P)!OverridesLive'
    <2>1. \A q \in P : r5'[q].at \notin {"override", "delete"}
      BY <1>0, <1>3
    <2> QED
      BY <1>0, <1>3, <2>1 DEF Blackout!Working, Blackout!OverridesLive
  <1>4. ASSUME NEW p \in P, Blackout(P)!Create(p)
        PROVE  Blackout(P)!Working' /\ Blackout(P)!OverridesLive'
    BY <1>3, <1>4 DEF Blackout!Create
  <1>5. ASSUME NEW p \in P, Blackout(P)!ReadOverlapping(p)
        PROVE  Blackout(P)!Working' /\ Blackout(P)!OverridesLive'
    <2>1. UNCHANGED <<r1, r3>>
      BY <1>5 DEF Blackout!ReadOverlapping
    <2> DEFINE b == r5[p].wish
               T == Blackout(P)!Touching(b)
               merge == [at |-> "write", wish |-> b, merged |-> {r.id : r \in T},
                         union |-> Blackout(P)!Union(b, T)]
    <2>3. r5' = [r5 EXCEPT ![p] = merge] \/ r5' = [r5 EXCEPT ![p] = [at |-> "unlock"]]
      BY <1>5 DEF Blackout!ReadOverlapping
    <2>4. merge.at = "write"
      OBVIOUS
    <2> HIDE DEF merge
    <2>2. \E state : r5' = [r5 EXCEPT ![p] = state] /\ state.at \in {"write", "unlock"}
      BY <2>3, <2>4
    <2> QED
      BY <1>3, <2>1, <2>2
  <1>6. ASSUME NEW p \in P, Blackout(P)!CommitMerge(p)
        PROVE  Blackout(P)!Working' /\ Blackout(P)!OverridesLive'
    <2> DEFINE merged == r5[p].merged
    <2>1. /\ r5' = [r5 EXCEPT ![p] = [at |-> "unlock"]]
          /\ r3' = Blackout(P)!Repointed(merged, r2 + 1)
          /\ r1' = {r \in r1 : r.id \notin merged} \cup
                    {[id |-> r2 + 1, from |-> r5[p].union.from, to |-> r5[p].union.to,
                      loc |-> r5[p].union.loc]}
      BY <1>6 DEF Blackout!CommitMerge
    <2>4. /\ \A r \in r1 : r.id \notin merged => r \in r1'
          /\ \E r \in r1' : r.id = r2 + 1
      <3> DEFINE new == [id |-> r2 + 1, from |-> r5[p].union.from, to |-> r5[p].union.to,
                         loc |-> r5[p].union.loc]
      <3>1. new.id = r2 + 1
        OBVIOUS
      <3>2. r1' = {r \in r1 : r.id \notin merged} \cup {new}
        BY <2>1
      <3> HIDE DEF new, merged
      <3> QED
        BY <3>1, <3>2
    <2>2. \A q \in P : r5'[q].at = "unlock"
      BY <1>0, <2>1
    <2> HIDE DEF merged
    <2>3. \A id \in r3' : id = r2 + 1 \/ (id \in r3 /\ id \notin merged)
      BY <2>1 DEF Blackout!Repointed
    <2> QED
      BY <1>0, <2>2, <2>3, <2>4 DEF Blackout!Working, Blackout!OverridesLive
  <1>7. ASSUME NEW p \in P, Blackout(P)!MergeFails(p)
        PROVE  Blackout(P)!Working' /\ Blackout(P)!OverridesLive'
    BY <1>3, <1>7 DEF Blackout!MergeFails
  <1>8. ASSUME NEW p \in P, Blackout(P)!Unlock(p)
        PROVE  Blackout(P)!Working' /\ Blackout(P)!OverridesLive'
    BY <1>3, <1>8 DEF Blackout!Unlock, Blackout!Idle
  <1>9. ASSUME NEW p \in P, Blackout(P)!ReadRow(p)
        PROVE  Blackout(P)!Working' /\ Blackout(P)!OverridesLive'
    BY <1>3, <1>9 DEF Blackout!ReadRow
  <1>10. ASSUME NEW p \in P, Blackout(P)!Detach(p)
         PROVE  Blackout(P)!Working' /\ Blackout(P)!OverridesLive'
    <2>1. /\ r1' = r1 /\ r3' = r3 \ {r5[p].id} /\ r5[p].at = "detach"
          /\ r5' = [r5 EXCEPT ![p] = [r5[p] EXCEPT !.at = "delete"]]
      BY <1>10 DEF Blackout!Detach
    <2>2. r5[p] \in [at : {"detach", "delete", "override"}, id : Nat]
      BY <1>0, <2>1 DEF Blackout!TypeOK, Blackout!Idle
    <2>3. \A q \in P : r5'[q].at = "delete" /\ r5'[q].id = r5[p].id
      BY <1>0, <2>1, <2>2
    <2> QED
      BY <1>0, <2>1, <2>3 DEF Blackout!Working, Blackout!OverridesLive
  <1>11. ASSUME NEW p \in P, Blackout(P)!Delete(p)
         PROVE  Blackout(P)!Working' /\ Blackout(P)!OverridesLive'
    <2>1. /\ r1' = r1 \ {r \in r1 : r.id = r5[p].id} /\ r3' = r3 /\ r5[p].at = "delete"
          /\ r5' = [r5 EXCEPT ![p] = Blackout(P)!Idle]
      BY <1>11 DEF Blackout!Delete
    <2>2. \A q \in P : r5'[q].at = "idle"
      BY <1>0, <2>1 DEF Blackout!Idle
    <2>3. r5[p].id \notin r3
      BY <1>0, <2>1 DEF Blackout!Working
    <2> QED
      BY <1>0, <2>1, <2>2, <2>3 DEF Blackout!Working, Blackout!OverridesLive
  <1>12. ASSUME NEW p \in P, Blackout(P)!ReadOverridden(p)
         PROVE  Blackout(P)!Working' /\ Blackout(P)!OverridesLive'
    <2>1. PICK r \in r1 : r5' = [r5 EXCEPT ![p] = [at |-> "override", id |-> r.id]]
      BY <1>12 DEF Blackout!ReadOverridden
    <2>2. r1' = r1 /\ r3' = r3
      BY <1>12 DEF Blackout!ReadOverridden
    <2>3. \A q \in P : r5'[q].at = "override" /\ r5'[q].id = r.id
      BY <1>0, <2>1
    <2> QED
      BY <1>0, <2>2, <2>3 DEF Blackout!Working, Blackout!OverridesLive
  <1>13. ASSUME NEW p \in P, Blackout(P)!RecordOverride(p)
         PROVE  Blackout(P)!Working' /\ Blackout(P)!OverridesLive'
    <2>1. /\ r1' = r1 /\ r3' = r3 \cup {r5[p].id} /\ r5[p].at = "override"
          /\ r5' = [r5 EXCEPT ![p] = Blackout(P)!Idle]
      BY <1>13 DEF Blackout!RecordOverride
    <2>2. \A q \in P : r5'[q].at = "idle"
      BY <1>0, <2>1 DEF Blackout!Idle
    <2>3. \E r \in r1 : r.id = r5[p].id
      BY <1>0, <2>1 DEF Blackout!Working
    <2> QED
      BY <1>0, <2>1, <2>2, <2>3 DEF Blackout!Working, Blackout!OverridesLive
  <1>14. ASSUME NEW p \in P, Blackout(P)!Die(p)
         PROVE  Blackout(P)!Working' /\ Blackout(P)!OverridesLive'
    BY <1>3, <1>14 DEF Blackout!Die, Blackout!Idle
  <1>15. CASE UNCHANGED <<r1, r3, r5>>
    BY <1>0, <1>15 DEF Blackout!Working, Blackout!OverridesLive
  <1> QED
    BY <1>4, <1>5, <1>6, <1>7, <1>8, <1>9, <1>10, <1>11, <1>12, <1>13, <1>14, <1>15
       DEF Blackout!Next, Blackout!Expire, Blackout!vars

-------------------------------------------------------------------------------
(* Stored conflicts (RosterService).                                         *)

LEMMA RowsStart ==
  ASSUME NEW P, NEW M
  PROVE  Rows(P, M)!Init => Rows(P, M)!IInv
  <1> SUFFICES ASSUME Rows(P, M)!Init PROVE Rows(P, M)!IInv
    OBVIOUS
  <1>1. r2 \in [Conflict -> Seq(Rows(P, M)!Row)]
    BY EmptySeq DEF Rows!Init
  <1>2. r1 \in Rows(P, M)!Contexts(Conflict) /\ r3 \in BOOLEAN
    BY DEF Rows!Init, Rows!Contexts
  <1>3. r4 = [p \in P |-> Rows(P, M)!Idle] /\ r5 = {}
    BY DEF Rows!Init
  <1>4. Rows(P, M)!TypeOK
    BY <1>1, <1>2, <1>3 DEF Rows!TypeOK
  <1> QED
    BY <1>3, <1>4 DEF Rows!IInv, Rows!Present, Rows!OneAcknowledges, Rows!Idle

\* The row that a refresh keeps of each identity is there.
LEMMA ExistingThere ==
  ASSUME NEW P, NEW M, Rows(P, M)!TypeOK, NEW c \in Conflict
  PROVE  Rows(P, M)!Existing(c) \in 0 .. Len(r2[c])
  <1>1. r2[c] \in Seq(Rows(P, M)!Row)
    BY DEF Rows!TypeOK
  <1>2. Len(r2[c]) \in Nat /\ DOMAIN r2[c] = 1 .. Len(r2[c])
    BY <1>1, LenProperties
  <1> DEFINE T == Rows(P, M)!Unresolved(c)
  <1>3. T \subseteq 1 .. Len(r2[c])
    BY <1>2 DEF Rows!Unresolved
  <1> HIDE DEF T
  <1>4. CASE T = {}
    BY <1>2, <1>4 DEF Rows!Existing, T
  <1>5. CASE T # {}
    <2>1. \E x \in T : \A y \in T : y <= x
      <3>1. T \subseteq 0 .. Len(r2[c])
        BY <1>2, <1>3
      <3> QED
        BY <1>2, <1>5, <3>1, Greatest
    <2>2. Rows(P, M)!Existing(c) \in T
      BY <1>5, <2>1 DEF Rows!Existing, T
    <2>3. Rows(P, M)!Existing(c) \in 1 .. Len(r2[c])
      BY <1>3, <2>2
    <2> QED
      BY <1>2, <2>3
  <1> QED
    BY <1>4, <1>5

\* Writing a conflict leaves every row where it is, and its acknowledgement.
LEMMA MaterializedKeeps ==
  ASSUME NEW P, NEW M, Rows(P, M)!TypeOK, NEW c \in Conflict, NEW context \in Context \cup {None},
         NEW i \in 0 .. Len(r2[c])
  PROVE  LET m == Rows(P, M)!Materialized(c, context, i)
         IN /\ m \in Seq(Rows(P, M)!Row) /\ Len(m) \in Nat /\ Len(r2[c]) \in Nat
            /\ Len(r2[c]) <= Len(m)
            /\ \A j \in 1 .. Len(r2[c]) : m[j].ackBy = r2[c][j].ackBy
  <1> DEFINE s == r2[c]
             m == Rows(P, M)!Materialized(c, context, i)
  <1>1. s \in Seq(Rows(P, M)!Row) /\ Len(s) \in Nat /\ DOMAIN s = 1 .. Len(s)
    BY LenProperties DEF Rows!TypeOK
  <1>2. None \notin Context
    BY ServicesAssumption
  <1>3. CASE context # None /\ i = 0
    <2>1. Rows(P, M)!New(context) \in Rows(P, M)!Row
      BY <1>3 DEF Rows!New, Rows!Row
    <2>2. m = Append(s, Rows(P, M)!New(context))
      BY <1>3 DEF Rows!Materialized
    <2> HIDE DEF m, s
    <2> QED
      BY <1>1, <2>1, <2>2, AppendProperties DEF m, s
  <1>4. CASE i # 0
    <2>0. i \in 1 .. Len(s) /\ s[i] \in Rows(P, M)!Row
      BY <1>1, <1>4
    <2>1. \E r \in Rows(P, M)!Row : m = [s EXCEPT ![i] = r] /\ r.ackBy = s[i].ackBy
      <3>1. CASE context # None
        <4>1. m = [s EXCEPT ![i] = [s[i] EXCEPT !.context = context, !.resolved = FALSE]]
          BY <1>4, <3>1, <2>0 DEF Rows!Materialized
        <4>2. /\ [s[i] EXCEPT !.context = context, !.resolved = FALSE] \in Rows(P, M)!Row
              /\ [s[i] EXCEPT !.context = context, !.resolved = FALSE].ackBy = s[i].ackBy
          BY <2>0, <3>1 DEF Rows!Row
        <4> QED
          BY <4>1, <4>2
      <3>2. CASE context = None
        <4>1. m = [s EXCEPT ![i] = [s[i] EXCEPT !.resolved = TRUE]]
          BY <1>4, <3>2, <2>0 DEF Rows!Materialized
        <4>2. /\ [s[i] EXCEPT !.resolved = TRUE] \in Rows(P, M)!Row
              /\ [s[i] EXCEPT !.resolved = TRUE].ackBy = s[i].ackBy
          BY <2>0 DEF Rows!Row
        <4> QED
          BY <4>1, <4>2
      <3> QED
        BY <3>1, <3>2
    <2>2. PICK r \in Rows(P, M)!Row : m = [s EXCEPT ![i] = r] /\ r.ackBy = s[i].ackBy
      BY <2>1
    <2> HIDE DEF m, s
    <2> QED
      BY <1>1, <2>0, <2>2, ExceptSeq DEF m, s
  <1>5. CASE context = None /\ i = 0
    <2>1. m = s
      BY <1>5 DEF Rows!Materialized
    <2> QED
      BY <1>1, <2>1
  <1> QED
    BY <1>3, <1>4, <1>5

LEMMA RowsKept ==
  ASSUME NEW P, NEW M, None \notin P
  PROVE  Rows(P, M)!IInv /\ [Rows(P, M)!Next]_(Rows(P, M)!vars) => Rows(P, M)!IInv'
  <1> SUFFICES ASSUME Rows(P, M)!IInv, [Rows(P, M)!Next]_(Rows(P, M)!vars) PROVE Rows(P, M)!IInv'
    OBVIOUS
  <1>0. /\ Rows(P, M)!TypeOK /\ Rows(P, M)!Present /\ Rows(P, M)!OneAcknowledges
        /\ None \notin P
    BY ServicesAssumption DEF Rows!IInv
  <1> USE DEF Rows!Idle, Rows!Goto
  <1>14. ASSUME NEW c \in Conflict
         PROVE  /\ r2[c] \in Seq(Rows(P, M)!Row) /\ Len(r2[c]) \in Nat /\ DOMAIN r2[c] = 1 .. Len(r2[c])
                /\ \A i \in DOMAIN r2[c] : i \in Nat /\ r2[c][i] \in Rows(P, M)!Row
    <2>1. r2[c] \in Seq(Rows(P, M)!Row)
      BY <1>0 DEF Rows!TypeOK
    <2> QED
      BY <2>1, LenProperties, ElementOfSeq
  <1>1. ASSUME UNCHANGED <<r2, r5>>, r1' \in Rows(P, M)!Contexts(Conflict), r3' \in BOOLEAN,
               NEW p \in P, NEW state, r4' = [r4 EXCEPT ![p] = state],
               state \in {Rows(P, M)!Idle} \cup [at : {"many", "refresh"}]
        PROVE  Rows(P, M)!IInv'
    BY <1>0, <1>1 DEF Rows!IInv, Rows!TypeOK, Rows!Present, Rows!OneAcknowledges
  <1>2. ASSUME UNCHANGED <<r1, r2, r3, r5>>, NEW p \in P,
               NEW computed \in Rows(P, M)!Contexts(Conflict), NEW D \in SUBSET Conflict,
               NEW change \in Rows(P, M)!Contexts(D), r4' = [r4 EXCEPT ![p] = Rows(P, M)!Found(computed, change)]
        PROVE  Rows(P, M)!IInv'
    <2>1. \A c \in Conflict : Rows(P, M)!Existing(c) \in 0 .. Len(r2[c]) /\ Len(r2[c]) \in Nat
      BY <1>0, ExistingThere, LenProperties DEF Rows!TypeOK
    <2>2. [c \in Conflict |-> Rows(P, M)!Existing(c)] \in [Conflict -> Nat]
      BY <2>1
    <2>6. change \in Rows(P, M)!Change
      BY DEF Rows!Change
    <2>3. /\ Rows(P, M)!Found(computed, change) \in
               [at : {"write"}, computed : Rows(P, M)!Contexts(Conflict),
                change : Rows(P, M)!Change, existing : [Conflict -> Nat]]
          /\ Rows(P, M)!Found(computed, change).at = "write"
          /\ \A c \in Conflict : Rows(P, M)!Found(computed, change).existing[c] <= Len(r2[c])
      BY <2>1, <2>2, <2>6 DEF Rows!Found
    <2>4. Rows(P, M)!TypeOK'
      BY <1>0, <1>2, <2>3 DEF Rows!TypeOK
    <2>5. Rows(P, M)!Present'
      BY <1>0, <1>2, <2>3 DEF Rows!Present, Rows!TypeOK
    <2> QED
      BY <1>0, <1>2, <2>4, <2>5 DEF Rows!IInv, Rows!OneAcknowledges
  <1>7. r1 \in Rows(P, M)!Contexts(Conflict) /\ r3 \in BOOLEAN /\ TRUE \in BOOLEAN
    BY <1>0 DEF Rows!TypeOK
  <1>3. ASSUME NEW p \in P, Rows(P, M)!Refresh(p) PROVE Rows(P, M)!IInv'
    <2>1. r1 \in Rows(P, M)!Contexts(Conflict) /\ [c \in {} |-> None] \in Rows(P, M)!Contexts({})
      BY <1>0 DEF Rows!TypeOK, Rows!Contexts
    <2> QED
      BY <1>2, <1>3, <2>1 DEF Rows!Refresh
  <1>4. ASSUME NEW p \in P, Rows(P, M)!Write(p) PROVE Rows(P, M)!IInv'
    <2>1. /\ r4[p].at = "write"
          /\ r2' = [c \in Conflict |-> Rows(P, M)!Materialized(c, r4[p].computed[c], r4[p].existing[c])]
          /\ r3' = FALSE /\ r5' = r5
          /\ r4' = [r4 EXCEPT ![p] = Rows(P, M)!Idle]
          /\ r1' = [c \in Conflict |->
                      IF c \in DOMAIN r4[p].change THEN r4[p].change[c] ELSE r1[c]]
      BY <1>4 DEF Rows!Write
    <2>2. /\ r4[p].computed \in Rows(P, M)!Contexts(Conflict) /\ r4[p].existing \in [Conflict -> Nat]
          /\ r4[p].change \in Rows(P, M)!Change
      <3>1. r4[p] \in [at : {"write"}, computed : Rows(P, M)!Contexts(Conflict),
                      change : Rows(P, M)!Change, existing : [Conflict -> Nat]]
        <4>1. r4[p] \in {Rows(P, M)!Idle} \cup [at : {"many", "refresh"}]
                        \cup [at : {"write"}, computed : Rows(P, M)!Contexts(Conflict),
                              change : Rows(P, M)!Change, existing : [Conflict -> Nat]]
                        \cup [at : {"ack"}, conflict : Conflict, row : Nat, context : Context]
          BY <1>0 DEF Rows!TypeOK
        <4> QED
          BY <2>1, <4>1
      <3> QED
        BY <3>1
    <2>3. ASSUME NEW c \in Conflict
          PROVE  /\ r2'[c] \in Seq(Rows(P, M)!Row) /\ Len(r2'[c]) \in Nat /\ Len(r2[c]) \in Nat
                 /\ Len(r2[c]) <= Len(r2'[c])
                 /\ DOMAIN r2[c] = 1 .. Len(r2[c]) /\ DOMAIN r2'[c] = 1 .. Len(r2'[c])
                 /\ \A j \in 1 .. Len(r2[c]) : r2'[c][j].ackBy = r2[c][j].ackBy
      <3>1. /\ r4[p].computed[c] \in Context \cup {None} /\ r2[c] \in Seq(Rows(P, M)!Row)
            /\ r4[p].existing[c] \in Nat /\ r4[p].existing[c] <= Len(r2[c])
        BY <1>0, <2>1, <2>2 DEF Rows!Present, Rows!Contexts, Rows!TypeOK
      <3>2. r4[p].existing[c] \in 0 .. Len(r2[c])
        BY <1>14, <3>1
      <3>3. r2'[c] = Rows(P, M)!Materialized(c, r4[p].computed[c], r4[p].existing[c])
        BY <2>1
      <3>4. /\ r2'[c] \in Seq(Rows(P, M)!Row) /\ Len(r2'[c]) \in Nat /\ Len(r2[c]) \in Nat
            /\ Len(r2[c]) <= Len(r2'[c])
            /\ \A j \in 1 .. Len(r2[c]) : r2'[c][j].ackBy = r2[c][j].ackBy
        <4>1. PICK context \in Context \cup {None}, i \in 0 .. Len(r2[c]) :
                context = r4[p].computed[c] /\ i = r4[p].existing[c]
          BY <3>1, <3>2
        <4>2. r2'[c] = Rows(P, M)!Materialized(c, context, i)
          BY <3>3, <4>1
        <4> QED
          BY <1>0, <4>2, MaterializedKeeps
      <3>5. DOMAIN r2'[c] = 1 .. Len(r2'[c])
        BY <3>4, LenProperties
      <3> QED
        BY <1>14, <3>4, <3>5
    <2>4. r1' \in Rows(P, M)!Contexts(Conflict)
      <3>1. PICK D \in SUBSET Conflict : r4[p].change \in Rows(P, M)!Contexts(D)
        BY <2>2 DEF Rows!Change
      <3> QED
        BY <1>7, <2>1, <3>1 DEF Rows!Contexts
    <2>5. Rows(P, M)!TypeOK'
      BY <1>0, <2>1, <2>3, <2>4 DEF Rows!TypeOK
    <2>6. \A t \in r5 : t[2] \in Conflict
      BY <1>0 DEF Rows!TypeOK
    <2>7. Rows(P, M)!Present'
      <3>1. \A t \in r5' : t[3] \in DOMAIN r2'[t[2]]
        BY <1>0, <2>1, <2>3, <2>6 DEF Rows!Present
      <3>2. ASSUME NEW q \in P, r4'[q].at = "write", NEW c \in Conflict
            PROVE  r4'[q].existing[c] <= Len(r2'[c])
        <4>1. r4[q].at = "write" /\ r4'[q] = r4[q]
          BY <1>0, <2>1, <3>2 DEF Rows!TypeOK
        <4>2. r4[q].existing[c] <= Len(r2[c]) /\ r4[q].existing[c] \in Nat
          BY <1>0, <4>1 DEF Rows!Present, Rows!TypeOK
        <4> QED
          BY <2>3, <4>1, <4>2
      <3>3. ASSUME NEW q \in P, r4'[q].at = "ack"
            PROVE  r4'[q].row \in DOMAIN r2'[r4'[q].conflict]
        <4>1. r4[q].at = "ack" /\ r4'[q] = r4[q] /\ r4[q].conflict \in Conflict
          BY <1>0, <2>1, <3>3 DEF Rows!TypeOK
        <4>2. r4[q].row \in DOMAIN r2[r4[q].conflict]
          BY <1>0, <4>1 DEF Rows!Present
        <4> QED
          BY <2>3, <4>1, <4>2
      <3> QED
        BY <3>1, <3>2, <3>3 DEF Rows!Present
    <2>8. Rows(P, M)!OneAcknowledges'
      <3> SUFFICES ASSUME NEW t \in r5 PROVE r2'[t[2]][t[3]].ackBy = t[1]
        BY <2>1 DEF Rows!OneAcknowledges
      <3>1. t[2] \in Conflict /\ t[3] \in DOMAIN r2[t[2]] /\ r2[t[2]][t[3]].ackBy = t[1]
        BY <1>0, <2>6 DEF Rows!Present, Rows!OneAcknowledges
      <3> QED
        BY <2>3, <3>1
    <2> QED
      BY <2>5, <2>7, <2>8 DEF Rows!IInv
  <1>5. ASSUME NEW p \in P, Rows(P, M)!ChangeAssignment(p) PROVE Rows(P, M)!IInv'
    <2>1. PICK c \in Conflict, context \in Context \cup {None} :
            r4' = [r4 EXCEPT ![p] = Rows(P, M)!Found(Rows(P, M)!Changed(c, context), [d \in {c} |-> context])]
      BY <1>5 DEF Rows!ChangeAssignment
    <2>2. Rows(P, M)!Changed(c, context) \in Rows(P, M)!Contexts(Conflict)
      BY <1>0 DEF Rows!TypeOK, Rows!Contexts, Rows!Changed
    <2>3. [d \in {c} |-> context] \in Rows(P, M)!Contexts({c}) /\ {c} \in SUBSET Conflict
      BY DEF Rows!Contexts
    <2>4. UNCHANGED <<r1, r2, r3, r5>>
      BY <1>5 DEF Rows!ChangeAssignment
    <2> QED
      BY <1>2, <2>1, <2>2, <2>3, <2>4
  <1>6. ASSUME NEW p \in P, Rows(P, M)!ChangeMany(p) PROVE Rows(P, M)!IInv'
    <2>1. r1' \in Rows(P, M)!Contexts(Conflict) /\ r3' \in BOOLEAN
      BY <1>0, <1>6 DEF Rows!TypeOK, Rows!Contexts, Rows!Changed, Rows!ChangeMany
    <2> QED
      BY <1>1, <1>6, <2>1 DEF Rows!ChangeMany
  <1>8. ASSUME NEW p \in P, Rows(P, M)!WithinBudget(p) PROVE Rows(P, M)!IInv'
    BY <1>1, <1>7, <1>8 DEF Rows!WithinBudget
  <1>9. ASSUME NEW p \in P, Rows(P, M)!MarkDirty(p) PROVE Rows(P, M)!IInv'
    BY <1>1, <1>7, <1>9 DEF Rows!MarkDirty
  <1>10. ASSUME NEW p \in P, Rows(P, M)!DrainDirty(p) PROVE Rows(P, M)!IInv'
    BY <1>1, <1>7, <1>10 DEF Rows!DrainDirty
  <1>11. ASSUME NEW p \in P, Rows(P, M)!ReadConflict(p) PROVE Rows(P, M)!IInv'
    <2>1. PICK c, i :
            /\ c \in Conflict /\ i \in Rows(P, M)!Unresolved(c)
            /\ r4' = [r4 EXCEPT ![p] = [at |-> "ack", conflict |-> c, row |-> i, context |-> r2[c][i].context]]
      BY <1>11 DEF Rows!ReadConflict
    <2>2. UNCHANGED <<r1, r2, r3, r5>>
      BY <1>11 DEF Rows!ReadConflict
    <2>4. i \in DOMAIN r2[c] /\ i \in Nat /\ r2[c][i] \in Rows(P, M)!Row
      BY <1>14, <2>1 DEF Rows!Unresolved
    <2>5. r2[c][i].context \in Context
      BY <2>4 DEF Rows!Row
    <2> QED
      BY <1>0, <2>1, <2>2, <2>4, <2>5
         DEF Rows!IInv, Rows!TypeOK, Rows!Present, Rows!OneAcknowledges
  <1>12. ASSUME NEW p \in P, Rows(P, M)!Acknowledge(p) PROVE Rows(P, M)!IInv'
    <2> DEFINE c == r4[p].conflict
               i == r4[p].row
               cx == r4[p].context
    <2>0. /\ UNCHANGED <<r1, r3>> /\ r4[p].at = "ack"
          /\ r4[p] \in [at : {"ack"}, conflict : Conflict, row : Nat, context : Context]
      BY <1>0, <1>12 DEF Rows!Acknowledge, Rows!TypeOK
    <2>1. /\ UNCHANGED <<r1, r3>> /\ r4[p].at = "ack"
          /\ c \in Conflict /\ i \in Nat /\ cx \in Context /\ i \in DOMAIN r2[c]
          /\ r2[c] \in Seq(Rows(P, M)!Row)
      BY <1>0, <1>14, <2>0 DEF Rows!Present
    <2>2. PICK state \in {Rows(P, M)!Idle, [at |-> "refresh"]} : r4' = [r4 EXCEPT ![p] = state]
      BY <1>12 DEF Rows!Acknowledge
    <2>3. CASE r2' = r2
      <3>1. \A t \in r5' : t \in r5 \/ (t = <<p, c, i>> /\ r2[c][i].ackBy = p)
        <4>1. Rows(P, M)!Takes(p, r2[c][i], cx) => r2[c][i].ackBy = p
          <5> SUFFICES ASSUME Rows(P, M)!Takes(p, r2[c][i], cx) PROVE r2[c][i].ackBy = p
            OBVIOUS
          <5>1. r2' = [r2 EXCEPT ![c][i].ackBy = p, ![c][i].ackContext = cx]
            BY <1>12 DEF Rows!Acknowledge
          <5>2. r2[c][i] \in Rows(P, M)!Row
            BY <2>1, ElementOfSeq, LenProperties
          <5>3. r2'[c][i].ackBy = p
            BY <1>0, <2>1, <5>1, <5>2 DEF Rows!TypeOK, Rows!Row
          <5> QED
            BY <2>3, <5>3
        <4> QED
          BY <1>12, <4>1 DEF Rows!Acknowledge
      <3> QED
        BY <1>0, <2>1, <2>2, <2>3, <3>1
           DEF Rows!IInv, Rows!TypeOK, Rows!Present, Rows!OneAcknowledges
    <2>4. CASE r2' # r2
      <3>1. /\ r2[c][i].ackBy \in {None, p}
            /\ r2' = [r2 EXCEPT ![c][i].ackBy = p, ![c][i].ackContext = cx]
            /\ r5' = r5 \cup {<<p, c, i>>}
        BY <1>12, <2>4 DEF Rows!Acknowledge, Rows!Takes
      <3> DEFINE row == [r2[c][i] EXCEPT !.ackBy = p, !.ackContext = cx]
                 s == [r2[c] EXCEPT ![i] = row]
      <3>2. r2[c][i] \in Rows(P, M)!Row
        BY <2>1, ElementOfSeq, LenProperties
      <3>3. row \in Rows(P, M)!Row /\ row.ackBy = p
        BY <2>1, <3>2 DEF Rows!Row
      <3>4. r2' = [r2 EXCEPT ![c] = s]
        BY <1>0, <2>1, <3>1, <3>2 DEF Rows!TypeOK, Rows!Row
      <3> HIDE DEF row
      <3>5. s \in Seq(Rows(P, M)!Row) /\ Len(s) = Len(r2[c]) /\ DOMAIN s = DOMAIN r2[c]
            /\ \A j \in DOMAIN s : s[j] = IF j = i THEN row ELSE r2[c][j]
        BY <2>1, <3>3, ExceptSeq, LenProperties
      <3> HIDE DEF s
      <3>6. \A d \in Conflict : /\ Len(r2'[d]) = Len(r2[d]) /\ DOMAIN r2'[d] = DOMAIN r2[d]
                                /\ r2'[d] \in Seq(Rows(P, M)!Row)
                                /\ \A j \in DOMAIN r2[d] :
                                     r2'[d][j] = IF d = c /\ j = i THEN row ELSE r2[d][j]
        BY <1>0, <3>4, <3>5 DEF Rows!TypeOK
      <3>7. \A t \in r5 : t \in P \X Conflict \X Nat /\ t[1] # None
        BY <1>0 DEF Rows!TypeOK
      <3>8. Rows(P, M)!TypeOK'
        <4>1. r2' \in [Conflict -> Seq(Rows(P, M)!Row)]
          BY <1>0, <3>4, <3>5 DEF Rows!TypeOK
        <4>2. r5' \subseteq P \X Conflict \X Nat
          BY <1>0, <2>1, <3>1 DEF Rows!TypeOK
        <4> QED
          BY <1>0, <2>1, <2>2, <4>1, <4>2 DEF Rows!TypeOK
      <3>9. Rows(P, M)!Present'
        <4>1. \A t \in r5' : t[3] \in DOMAIN r2'[t[2]]
          <5> SUFFICES ASSUME NEW t \in r5' PROVE t[3] \in DOMAIN r2'[t[2]]
            OBVIOUS
          <5>1. t[2] \in Conflict /\ t[3] \in DOMAIN r2[t[2]]
            BY <1>0, <2>1, <3>1, <3>7 DEF Rows!Present
          <5> QED
            BY <3>6, <5>1
        <4>2. ASSUME NEW q \in P
              PROVE  /\ r4'[q].at = "write" => \A d \in Conflict : r4'[q].existing[d] <= Len(r2'[d])
                     /\ r4'[q].at = "ack" => r4'[q].row \in DOMAIN r2'[r4'[q].conflict]
          <5>1. CASE q = p
            BY <1>0, <2>2, <5>1 DEF Rows!TypeOK
          <5>2. CASE q # p
            <6>1. r4'[q] = r4[q] /\ (r4[q].at = "ack" => r4[q].conflict \in Conflict)
              BY <1>0, <2>2, <5>2 DEF Rows!TypeOK
            <6> QED
              BY <1>0, <3>6, <6>1 DEF Rows!Present
          <5> QED
            BY <5>1, <5>2
        <4> QED
          BY <4>1, <4>2 DEF Rows!Present
      <3>10. Rows(P, M)!OneAcknowledges'
        <4> SUFFICES ASSUME NEW t \in r5' PROVE r2'[t[2]][t[3]].ackBy = t[1]
          BY DEF Rows!OneAcknowledges
        <4>1. CASE t = <<p, c, i>>
          BY <2>1, <3>3, <3>6, <4>1
        <4>2. CASE t \in r5
          <5>1. /\ t[2] \in Conflict /\ t[3] \in DOMAIN r2[t[2]] /\ r2[t[2]][t[3]].ackBy = t[1]
                /\ t[1] \in P
            BY <1>0, <3>7, <4>2 DEF Rows!Present, Rows!OneAcknowledges
          <5>2. t[2] = c /\ t[3] = i => t[1] = p
            BY <1>0, <3>1, <5>1
          <5> QED
            BY <3>3, <3>6, <5>1, <5>2
        <4> QED
          BY <3>1, <4>1, <4>2
      <3> QED
        BY <3>8, <3>9, <3>10 DEF Rows!IInv
    <2> QED
      BY <2>3, <2>4
  <1>13. ASSUME UNCHANGED Rows(P, M)!vars PROVE Rows(P, M)!IInv'
    BY <1>0, <1>13
       DEF Rows!vars, Rows!IInv, Rows!TypeOK, Rows!Present, Rows!OneAcknowledges
  <1> QED
    BY <1>3, <1>4, <1>5, <1>6, <1>8, <1>9, <1>10, <1>11, <1>12, <1>13 DEF Rows!Next

-------------------------------------------------------------------------------
(* Stored conflicts, with one request at a time.                           *)

\* What is written of a conflict is then what the page shows of it.
LEMMA MaterializedShows ==
  ASSUME NEW P, NEW M, Rows(P, M)!TypeOK, Rows(P, M)!OneRow, NEW c \in Conflict,
         NEW context \in Context \cup {None},
         NEW m, m = Rows(P, M)!Materialized(c, context, Rows(P, M)!Existing(c)),
         NEW T, T = {j \in DOMAIN m : ~m[j].resolved}
  PROVE  /\ context = None => T = {}
         /\ context # None => \E j \in DOMAIN m : T = {j} /\ m[j].context = context
  <1> DEFINE s == r2[c]
             U == Rows(P, M)!Unresolved(c)
             i == Rows(P, M)!Existing(c)
  <1>1. /\ s \in Seq(Rows(P, M)!Row) /\ Len(s) \in Nat /\ DOMAIN s = 1 .. Len(s)
        /\ \A j \in DOMAIN s : s[j] \in Rows(P, M)!Row
    <2>1. s \in Seq(Rows(P, M)!Row)
      BY DEF Rows!TypeOK
    <2> QED
      BY <2>1, LenProperties, ElementOfSeq
  <1>2. U = {j \in DOMAIN s : ~s[j].resolved}
    BY DEF Rows!Unresolved
  <1>3. CASE U = {}
    <2>1. i = 0
      BY <1>3 DEF Rows!Existing
    <2>2. CASE context = None
      <3>1. m = s
        BY <2>1, <2>2 DEF Rows!Materialized
      <3> QED
        BY <1>2, <1>3, <2>2, <3>1
    <2>3. CASE context # None
      <3>1. m = Append(s, Rows(P, M)!New(context))
        BY <2>1, <2>3 DEF Rows!Materialized
      <3>2. /\ Rows(P, M)!New(context).context = context
            /\ Rows(P, M)!New(context).resolved = FALSE
            /\ Rows(P, M)!New(context) \in Rows(P, M)!Row
        BY <2>3 DEF Rows!New, Rows!Row
      <3> DEFINE new == Rows(P, M)!New(context)
      <3> HIDE DEF s, new, U
      <3>3. /\ DOMAIN m = 1 .. Len(s) + 1 /\ m[Len(s) + 1] = new
            /\ \A j \in 1 .. Len(s) : m[j] = s[j]
        <4>1. m = Append(s, new) /\ new \in Rows(P, M)!Row
          BY <3>1, <3>2 DEF new, s
        <4> QED
          BY <1>1, <4>1, AppendProperties
      <3>4. \A j \in 1 .. Len(s) : s[j].resolved
        BY <1>1, <1>2, <1>3
      <3>5. new.context = context /\ ~new.resolved
        BY <3>2 DEF new
      <3>6. T = {Len(s) + 1}
        BY <1>1, <3>3, <3>4, <3>5
      <3> QED
        BY <1>1, <2>3, <3>3, <3>5, <3>6
    <2> QED
      BY <2>2, <2>3
  <1>4. CASE U # {}
    <2>1. PICK k \in U : TRUE
      BY <1>4
    <2>2. U = {k} /\ k \in 1 .. Len(s)
      BY <1>1, <1>2, <2>1 DEF Rows!OneRow
    <2>3. i = k
      <3>1. \A x \in U : \A y \in U : y <= x
        BY <1>1, <2>2
      <3>2. i \in U
        BY <1>4, <2>2, <3>1 DEF Rows!Existing
      <3> QED
        BY <2>2, <3>2
    <2>4. /\ s[k] \in Rows(P, M)!Row /\ k # 0
          /\ \A j \in DOMAIN s : j # k => s[j].resolved
      BY <1>1, <1>2, <2>2
    <2>7. m = Rows(P, M)!Materialized(c, context, k)
      BY <2>3
    <2>5. CASE context = None
      <3>1. m = [s EXCEPT ![k] = [s[k] EXCEPT !.resolved = TRUE]]
        BY <2>2, <2>4, <2>5, <2>7 DEF Rows!Materialized
      <3> DEFINE row == [s[k] EXCEPT !.resolved = TRUE]
      <3>2. row.resolved
        BY <2>4 DEF Rows!Row
      <3>3. m = [s EXCEPT ![k] = row]
        BY <3>1
      <3> HIDE DEF row, s
      <3>4. DOMAIN m = DOMAIN s /\ \A j \in DOMAIN s : m[j] = IF j = k THEN row ELSE s[j]
        BY <3>3
      <3> QED
        BY <2>4, <2>5, <3>2, <3>4
    <2>6. CASE context # None
      <3>1. m = [s EXCEPT ![k] = [s[k] EXCEPT !.context = context, !.resolved = FALSE]]
        BY <2>2, <2>4, <2>6, <2>7 DEF Rows!Materialized
      <3> DEFINE row == [s[k] EXCEPT !.context = context, !.resolved = FALSE]
      <3>2. ~row.resolved /\ row.context = context
        BY <2>4 DEF Rows!Row
      <3>3. m = [s EXCEPT ![k] = row]
        BY <3>1
      <3> HIDE DEF row, s
      <3>4. DOMAIN m = DOMAIN s /\ \A j \in DOMAIN s : m[j] = IF j = k THEN row ELSE s[j]
        BY <3>3
      <3>5. T = {k} /\ k \in DOMAIN m
        BY <1>1, <2>2, <2>4, <3>2, <3>4
      <3> QED
        BY <2>6, <3>2, <3>4, <3>5
    <2> QED
      BY <2>5, <2>6
  <1> QED
    BY <1>3, <1>4

LEMMA RowsAloneStart ==
  ASSUME NEW P, NEW M
  PROVE  Rows(P, M)!Init => Rows(P, M)!AloneInv
  <1> SUFFICES ASSUME Rows(P, M)!Init PROVE Rows(P, M)!AloneInv
    OBVIOUS
  <1>1. Rows(P, M)!IInv
    BY RowsStart
  <1>2. \A c \in Conflict : r1[c] = None /\ Rows(P, M)!Unresolved(c) = {}
    BY DEF Rows!Init, Rows!Unresolved
  <1>3. \A p \in P : r4[p].at = "idle"
    BY DEF Rows!Init, Rows!Idle
  <1> QED
    BY <1>1, <1>2, <1>3 DEF Rows!AloneInv, Rows!UpToDate, Rows!OneRow, Rows!Truth

LEMMA RowsAloneKept ==
  ASSUME NEW P, NEW M, None \notin P, \A p, q \in P : p = q
  PROVE  Rows(P, M)!AloneInv /\ [Rows(P, M)!Next]_(Rows(P, M)!vars) => Rows(P, M)!AloneInv'
  <1> SUFFICES ASSUME Rows(P, M)!AloneInv, [Rows(P, M)!Next]_(Rows(P, M)!vars)
               PROVE  Rows(P, M)!AloneInv'
    OBVIOUS
  <1>0. /\ Rows(P, M)!IInv /\ Rows(P, M)!TypeOK /\ Rows(P, M)!UpToDate /\ Rows(P, M)!OneRow
        /\ Rows(P, M)!Truth /\ Rows(P, M)!Present
    BY DEF Rows!AloneInv, Rows!IInv
  <1>1. Rows(P, M)!IInv'
    BY <1>0, RowsKept
  \* A request that goes to a state in which the roster waits for a refresh.
  <1>2. ASSUME r2' = r2, NEW p \in P, NEW state, r4' = [r4 EXCEPT ![p] = state],
               state.at \in {"many", "refresh"}
        PROVE  Rows(P, M)!AloneInv'
    <2>1. \A q \in P : r4'[q].at \in {"many", "refresh"}
      BY <1>0, <1>2 DEF Rows!TypeOK
    <2>2. Rows(P, M)!OneRow'
      BY <1>0, <1>2 DEF Rows!OneRow, Rows!Unresolved
    <2>3. Rows(P, M)!UpToDate'
      BY <2>1 DEF Rows!UpToDate
    <2>4. Rows(P, M)!Truth'
      BY <2>1, <1>2 DEF Rows!Truth, Rows!Settled
    <2> QED
      BY <1>1, <2>2, <2>3, <2>4 DEF Rows!AloneInv
  \* One that has read what it is to write.
  <1>3. ASSUME UNCHANGED <<r1, r2>>, NEW p \in P,
               NEW computed, NEW change,
               \A c \in Conflict : computed[c] = IF c \in DOMAIN change THEN change[c] ELSE r1[c],
               r4' = [r4 EXCEPT ![p] = Rows(P, M)!Found(computed, change)]
        PROVE  Rows(P, M)!AloneInv'
    <2>7. \A q \in P : r4'[q] = Rows(P, M)!Found(computed, change)
      BY <1>0, <1>3 DEF Rows!TypeOK
    <2>1. \A q \in P : /\ r4'[q].at = "write"
                      /\ r4'[q].computed = computed /\ r4'[q].change = change
                      /\ \A c \in Conflict : r4'[q].existing[c] = Rows(P, M)!Existing(c)
      <3> DEFINE f == Rows(P, M)!Found(computed, change)
      <3>1. /\ f.at = "write" /\ f.computed = computed /\ f.change = change
            /\ f.existing = [c \in Conflict |-> Rows(P, M)!Existing(c)]
        BY DEF Rows!Found
      <3> HIDE DEF f
      <3>2. \A q \in P : r4'[q] = f
        BY <2>7 DEF f
      <3> QED
        BY <3>1, <3>2
    <2>2. \A c \in Conflict : Rows(P, M)!Unresolved(c)' = Rows(P, M)!Unresolved(c)
      BY <1>3 DEF Rows!Unresolved
    <2>3. \A c \in Conflict : Rows(P, M)!Existing(c)' = Rows(P, M)!Existing(c)
      BY <1>3 DEF Rows!Existing, Rows!Unresolved
    <2>4. Rows(P, M)!OneRow'
      BY <1>0, <2>2 DEF Rows!OneRow
    <2>5. Rows(P, M)!UpToDate'
      BY <1>3, <2>1, <2>3 DEF Rows!UpToDate
    <2>6. Rows(P, M)!Truth'
      BY <1>3, <2>1 DEF Rows!Truth, Rows!Settled
    <2> QED
      BY <1>1, <2>4, <2>5, <2>6 DEF Rows!AloneInv
  <1>4. ASSUME NEW p \in P, Rows(P, M)!Refresh(p) PROVE Rows(P, M)!AloneInv'
    <2>1. /\ UNCHANGED <<r1, r2>>
          /\ r4' = [r4 EXCEPT ![p] = Rows(P, M)!Found(r1, [c \in {} |-> None])]
      BY <1>4 DEF Rows!Refresh, Rows!Goto
    <2>2. DOMAIN [c \in {} |-> None] = {}
      OBVIOUS
    <2>3. PICK computed, change : computed = r1 /\ change = [c \in {} |-> None]
      OBVIOUS
    <2>4. r4' = [r4 EXCEPT ![p] = Rows(P, M)!Found(computed, change)]
      BY <2>1, <2>3
    <2>5. \A c \in Conflict : computed[c] = IF c \in DOMAIN change THEN change[c] ELSE r1[c]
      BY <2>2, <2>3
    <2>6. r1' = r1 /\ r2' = r2
      BY <2>1
    <2> QED
      BY <1>3, <2>4, <2>5, <2>6
  <1>5. ASSUME NEW p \in P, Rows(P, M)!ChangeAssignment(p) PROVE Rows(P, M)!AloneInv'
    <2>1. PICK c \in Conflict, context \in Context \cup {None} :
            r4' = [r4 EXCEPT ![p] = Rows(P, M)!Found(Rows(P, M)!Changed(c, context), [d \in {c} |-> context])]
      BY <1>5 DEF Rows!ChangeAssignment, Rows!Goto
    <2>2. UNCHANGED <<r1, r2>>
      BY <1>5 DEF Rows!ChangeAssignment
    <2>3. \A d \in Conflict : Rows(P, M)!Changed(c, context)[d] =
            IF d \in DOMAIN [e \in {c} |-> context] THEN [e \in {c} |-> context][d] ELSE r1[d]
      BY <1>0 DEF Rows!TypeOK, Rows!Contexts, Rows!Changed
    <2> QED
      BY <1>3, <2>1, <2>2, <2>3
  <1>6. ASSUME NEW p \in P, Rows(P, M)!ChangeMany(p) PROVE Rows(P, M)!AloneInv'
    BY <1>2, <1>6 DEF Rows!ChangeMany, Rows!Goto
  <1>7. ASSUME NEW p \in P, Rows(P, M)!WithinBudget(p) PROVE Rows(P, M)!AloneInv'
    BY <1>2, <1>7 DEF Rows!WithinBudget, Rows!Goto
  <1>8. ASSUME NEW p \in P, Rows(P, M)!DrainDirty(p) PROVE Rows(P, M)!AloneInv'
    BY <1>2, <1>8 DEF Rows!DrainDirty, Rows!Goto
  <1>9. ASSUME NEW p \in P, Rows(P, M)!MarkDirty(p) PROVE Rows(P, M)!AloneInv'
    <2>1. r2' = r2 /\ r3' = TRUE /\ r4' = [r4 EXCEPT ![p] = Rows(P, M)!Idle]
      BY <1>9 DEF Rows!MarkDirty, Rows!Goto
    <2>2. \A q \in P : r4'[q].at = "idle"
      BY <1>0, <2>1 DEF Rows!TypeOK, Rows!Idle
    <2> QED
      BY <1>0, <1>1, <2>1, <2>2
         DEF Rows!AloneInv, Rows!OneRow, Rows!Unresolved, Rows!UpToDate, Rows!Truth
  <1>10. ASSUME NEW p \in P, Rows(P, M)!Write(p) PROVE Rows(P, M)!AloneInv'
    <2>1. /\ r4[p].at = "write"
          /\ r2' = [c \in Conflict |-> Rows(P, M)!Materialized(c, r4[p].computed[c], r4[p].existing[c])]
          /\ r4' = [r4 EXCEPT ![p] = Rows(P, M)!Idle]
          /\ r1' = [c \in Conflict |->
                      IF c \in DOMAIN r4[p].change THEN r4[p].change[c] ELSE r1[c]]
      BY <1>10 DEF Rows!Write, Rows!Goto
    <2>2. \A q \in P : r4'[q].at = "idle"
      BY <1>0, <2>1 DEF Rows!TypeOK, Rows!Idle
    <2>3. ASSUME NEW c \in Conflict
          PROVE  /\ r1'[c] = None => Rows(P, M)!Unresolved(c)' = {}
                 /\ r1'[c] # None => \E j : /\ Rows(P, M)!Unresolved(c)' = {j}
                                            /\ r2'[c][j].context = r1'[c]
      <3>1. r4[p].existing[c] = Rows(P, M)!Existing(c) /\ r4[p].computed[c] = r1'[c]
        BY <1>0, <2>1 DEF Rows!UpToDate
      <3>2. r1'[c] \in Context \cup {None}
        BY <1>1 DEF Rows!IInv, Rows!TypeOK, Rows!Contexts
      <3>3. PICK context, m, T :
              /\ context \in Context \cup {None} /\ context = r1'[c] /\ m = r2'[c] /\ T = {j \in DOMAIN m : ~m[j].resolved}
        BY <3>2
      <3>4. m = Rows(P, M)!Materialized(c, context, Rows(P, M)!Existing(c))
        BY <2>1, <3>1, <3>3
      <3>5. Rows(P, M)!Unresolved(c)' = T
        BY <3>3 DEF Rows!Unresolved
      <3>6. /\ context = None => T = {}
            /\ context # None => \E j \in DOMAIN m : T = {j} /\ m[j].context = context
        BY <1>0, <3>3, <3>4, MaterializedShows
      <3> QED
        BY <3>3, <3>5, <3>6
    <2>4. Rows(P, M)!OneRow'
      BY <2>3 DEF Rows!OneRow
    <2>5. Rows(P, M)!UpToDate'
      BY <2>2 DEF Rows!UpToDate
    <2>6. Rows(P, M)!Truth'
      <3> SUFFICES ASSUME NEW c \in Conflict
                   PROVE  IF r1'[c] = None THEN Rows(P, M)!Unresolved(c)' = {}
                          ELSE Rows(P, M)!Shown(c)' = {r1'[c]}
        BY DEF Rows!Truth
      <3> QED
        BY <2>3 DEF Rows!Shown
    <2> QED
      BY <1>1, <2>4, <2>5, <2>6 DEF Rows!AloneInv
  <1>11. ASSUME NEW p \in P, Rows(P, M)!ReadConflict(p) PROVE Rows(P, M)!AloneInv'
    <2>1. PICK c, i : c \in Conflict /\ r4' = [r4 EXCEPT ![p] =
              [at |-> "ack", conflict |-> c, row |-> i, context |-> r2[c][i].context]]
      BY <1>11 DEF Rows!ReadConflict, Rows!Goto
    <2>2. UNCHANGED <<r1, r2, r3>> /\ r4[p] = Rows(P, M)!Idle
      BY <1>11 DEF Rows!ReadConflict
    <2>3. \A q \in P : r4'[q].at = "ack" /\ r4[q].at = "idle"
      BY <1>0, <2>1, <2>2 DEF Rows!TypeOK, Rows!Idle
    <2>4. \A d \in Conflict : Rows(P, M)!Unresolved(d)' = Rows(P, M)!Unresolved(d)
                              /\ Rows(P, M)!Shown(d)' = Rows(P, M)!Shown(d)
      BY <2>2 DEF Rows!Unresolved, Rows!Shown
    <2> QED
      BY <1>0, <1>1, <2>2, <2>3, <2>4
         DEF Rows!AloneInv, Rows!OneRow, Rows!UpToDate, Rows!Truth, Rows!Settled
  <1>12. ASSUME NEW p \in P, Rows(P, M)!Acknowledge(p) PROVE Rows(P, M)!AloneInv'
    <2>1. r4[p].at = "ack" /\ UNCHANGED <<r1, r3>>
      BY <1>12 DEF Rows!Acknowledge
    <2>2. \A q \in P : r4[q].at = "ack"
      BY <2>1
    <2> DEFINE c == r4[p].conflict
               i == r4[p].row
    <2>3. CASE r2' = r2
      <3>1. PICK state \in {Rows(P, M)!Idle, [at |-> "refresh"]} : r4' = [r4 EXCEPT ![p] = state]
        BY <1>12 DEF Rows!Acknowledge, Rows!Goto
      <3>2. \A q \in P : r4'[q].at \in {"idle", "refresh"}
        BY <1>0, <3>1 DEF Rows!TypeOK, Rows!Idle
      <3>3. \A d \in Conflict : Rows(P, M)!Unresolved(d)' = Rows(P, M)!Unresolved(d)
                                /\ Rows(P, M)!Shown(d)' = Rows(P, M)!Shown(d)
        BY <2>3 DEF Rows!Unresolved, Rows!Shown
      <3> QED
        BY <1>0, <1>1, <2>1, <2>2, <3>2, <3>3
           DEF Rows!AloneInv, Rows!OneRow, Rows!UpToDate, Rows!Truth, Rows!Settled
    <2>4. CASE r2' # r2
      <3>1. /\ r2' = [r2 EXCEPT ![c][i].ackBy = p, ![c][i].ackContext = r4[p].context]
            /\ r4' = [r4 EXCEPT ![p] = [at |-> "refresh"]]
        BY <1>12, <2>4 DEF Rows!Acknowledge, Rows!Goto
      <3>2. \A q \in P : r4'[q].at = "refresh"
        BY <1>0, <3>1 DEF Rows!TypeOK
      <3>3. r4[p] \in [at : {"ack"}, conflict : Conflict, row : Nat, context : Context]
        <4>1. r4[p] \in {Rows(P, M)!Idle} \cup [at : {"many", "refresh"}]
                        \cup [at : {"write"}, computed : Rows(P, M)!Contexts(Conflict),
                              change : Rows(P, M)!Change, existing : [Conflict -> Nat]]
                        \cup [at : {"ack"}, conflict : Conflict, row : Nat, context : Context]
          BY <1>0 DEF Rows!TypeOK
        <4> QED
          BY <2>1, <4>1 DEF Rows!Idle
      <3>4. c \in Conflict /\ i \in DOMAIN r2[c]
        BY <1>0, <2>1, <3>3 DEF Rows!Present
      <3>5. r2[c] \in Seq(Rows(P, M)!Row) /\ r2 \in [Conflict -> Seq(Rows(P, M)!Row)]
        BY <1>0, <3>4 DEF Rows!TypeOK
      <3>6. r2[c][i] \in Rows(P, M)!Row
        BY <3>4, <3>5, ElementOfSeq, LenProperties
      <3> DEFINE row == [r2[c][i] EXCEPT !.ackBy = p, !.ackContext = r4[p].context]
                 s == [r2[c] EXCEPT ![i] = row]
      <3>7. row.resolved = r2[c][i].resolved
        BY <3>6 DEF Rows!Row
      <3>8. r2' = [r2 EXCEPT ![c] = s]
        BY <3>1, <3>4, <3>5, <3>6 DEF Rows!Row
      <3> HIDE DEF row
      <3>9. DOMAIN s = DOMAIN r2[c] /\ \A j \in DOMAIN s : s[j] = IF j = i THEN row ELSE r2[c][j]
        BY <3>4
      <3> HIDE DEF s
      <3>10. \A d \in Conflict : /\ DOMAIN r2'[d] = DOMAIN r2[d]
                                 /\ \A j \in DOMAIN r2[d] : r2'[d][j].resolved = r2[d][j].resolved
        BY <3>5, <3>7, <3>8, <3>9
      <3>11. \A d \in Conflict : Rows(P, M)!Unresolved(d)' = Rows(P, M)!Unresolved(d)
        BY <3>10 DEF Rows!Unresolved
      <3>12. Rows(P, M)!OneRow'
        BY <1>0, <3>11 DEF Rows!OneRow
      <3>13. Rows(P, M)!UpToDate' /\ Rows(P, M)!Truth'
        BY <3>2 DEF Rows!UpToDate, Rows!Truth, Rows!Settled
      <3> QED
        BY <1>1, <3>12, <3>13 DEF Rows!AloneInv
    <2> QED
      BY <2>3, <2>4
  <1>13. ASSUME UNCHANGED Rows(P, M)!vars PROVE Rows(P, M)!AloneInv'
    <2>1. UNCHANGED <<r1, r2, r3, r4, r5>>
      BY <1>13 DEF Rows!vars
    <2>2. \A c \in Conflict : /\ Rows(P, M)!Unresolved(c)' = Rows(P, M)!Unresolved(c)
                              /\ Rows(P, M)!Shown(c)' = Rows(P, M)!Shown(c)
                              /\ Rows(P, M)!Existing(c)' = Rows(P, M)!Existing(c)
      BY <2>1 DEF Rows!Unresolved, Rows!Shown, Rows!Existing
    <2> QED
      BY <1>0, <1>1, <2>1, <2>2
         DEF Rows!AloneInv, Rows!OneRow, Rows!UpToDate, Rows!Truth, Rows!Settled
  <1> QED
    BY <1>4, <1>5, <1>6, <1>7, <1>8, <1>9, <1>10, <1>11, <1>12, <1>13 DEF Rows!Next

-------------------------------------------------------------------------------
(* Backups (UpgradeBackupService).                                           *)

LEMMA BackupStart == Backup!Init => Backup!IInv
  BY ServicesAssumption
     DEF Backup!Init, Backup!IInv, Backup!TypeOK, Backup!LockHeld, Backup!Wanted,
         Backup!Worked, Backup!RestoredAsAsked, Backup!UndoKept, Backup!Complete,
         Backup!Folder, Backup!Idle, Backup!Goto

LEMMA BackupKept == Backup!IInv /\ [Backup!Next]_(Backup!vars) => Backup!IInv'
  <1> SUFFICES ASSUME Backup!IInv, [Backup!Next]_(Backup!vars) PROVE Backup!IInv'
    OBVIOUS
  <1> USE ServicesAssumption DEF Backup!IInv, Backup!TypeOK, Backup!LockHeld,
       Backup!Wanted, Backup!Worked, Backup!RestoredAsAsked, Backup!UndoKept,
       Backup!Complete, Backup!Folder, Backup!Idle, Backup!Goto
  <1>1. ASSUME NEW p \in Request, Backup!Create(p) PROVE Backup!IInv'
    BY <1>1 DEF Backup!Create, Backup!Lock
  <1>2. ASSUME NEW p \in Request, Backup!ReadSnapshot(p) PROVE Backup!IInv'
    BY <1>2 DEF Backup!ReadSnapshot
  <1>3. ASSUME NEW p \in Request, Backup!Restore(p) PROVE Backup!IInv'
    BY <1>3 DEF Backup!Restore, Backup!Lock
  <1>4. ASSUME NEW p \in Request, Backup!Refused(p) PROVE Backup!IInv'
    BY <1>4 DEF Backup!Refused
  <1>5. ASSUME NEW p \in Request, Backup!Begin(p) PROVE Backup!IInv'
    <2> DEFINE new == [id |-> r4 + 1, complete |-> FALSE]
    <2>1. PICK left \in SUBSET (r3 \ Backup!Complete) : r3' = Backup!Complete \cup left \cup {new}
      BY <1>5 DEF Backup!Begin
    <2>2. /\ r6[p].at = "begin" /\ r4' = r4 + 1 /\ UNCHANGED <<r1, r2, r5, r7>>
          /\ r6' = [r6 EXCEPT ![p] = [r6[p] EXCEPT !.at = "export"]]
      BY <1>5 DEF Backup!Begin
    <2>3. new.id = r4 + 1 /\ new.complete = FALSE /\ r4 \in Nat
      OBVIOUS
    <2>4. r3' \subseteq r3 \cup {new} /\ new \in r3'
      BY <2>1
    <2>5. \A q \in Request \ {p} : r6'[q] = r6[q] /\ r6[q].at \in {"idle", "lock"}
      BY <2>2
    <2>6. r6'[p].at = "export" /\ r6'[p].want = r6[p].want /\ r6'[p].safe = r6[p].safe
      BY <2>2
    <2>7. Backup!Complete' = Backup!Complete
      BY <2>1, <2>3
    <2> HIDE DEF new
    <2>8. Backup!TypeOK' /\ Backup!LockHeld'
      <3>1. \A f \in r3' : f.id \in 1..r4'
        BY <2>2, <2>3, <2>4
      <3>2. \A f, g \in r3' : f.id = g.id => f = g
        BY <2>3, <2>4
      <3> QED
        BY <2>2, <3>1, <3>2
    <2>9. Backup!Wanted'
      BY <2>2, <2>3, <2>4, <2>5, <2>6
    <2>10. Backup!Worked'
      BY <2>2, <2>3, <2>4, <2>5, <2>6
    <2>11. Backup!RestoredAsAsked' /\ Backup!UndoKept'
      BY <2>2, <2>5, <2>6, <2>7
    <2> QED
      BY <2>8, <2>9, <2>10, <2>11
  <1>6. ASSUME NEW p \in Request, Backup!Export(p) PROVE Backup!IInv'
    <2> DEFINE new == [id |-> r4, complete |-> TRUE, tables |-> r1, config |-> r2]
    <2>1. r3' = (r3 \ Backup!Folder(r4)) \cup {new}
      BY <1>6 DEF Backup!Export
    <2>2. /\ r6[p].at = "export" /\ UNCHANGED <<r1, r2, r4, r5, r7>>
          /\ r6' = [r6 EXCEPT ![p] = [r6[p] EXCEPT !.at = IF r6[p].want = 0 THEN "rotate" ELSE "restore"]]
      BY <1>6 DEF Backup!Export
    <2>3. new.id = r4 /\ new.complete = TRUE /\ new.tables = r1 /\ new.config = r2 /\ r4 \in Nat
      OBVIOUS
    <2>4. \A q \in Request \ {p} : r6'[q] = r6[q] /\ r6[q].at \in {"idle", "lock"}
      BY <2>2
    <2>5. r6'[p].at \in {"rotate", "restore"} /\ r6'[p].want = r6[p].want /\ r6'[p].safe = r6[p].safe
      BY <2>2
    <2>6. \A f \in r3 : f.complete => f \in r3'
      BY <2>1, <2>2
    <2>7. \A q \in Request : r6[q].at = "lock" \/ q = p => r6[q].want <= r4
      BY <2>2
    <2> HIDE DEF new
    <2>9. Backup!TypeOK'
      <3>1. \A f \in r3' : f.id \in 1..r4
        BY <2>1, <2>2, <2>3
      <3>2. \A f, g \in r3' : f.id = g.id => f = g
        BY <2>1, <2>3
      <3> QED
        BY <2>2, <3>1, <3>2
    <2>10. Backup!LockHeld'
      BY <2>2
    <2>11. Backup!Wanted'
      BY <2>1, <2>2, <2>3, <2>4, <2>5
    <2>12. Backup!Worked'
      BY <2>1, <2>2, <2>3, <2>4, <2>5
    <2>13. Backup!RestoredAsAsked' /\ Backup!UndoKept'
      BY <2>2, <2>4, <2>5, <2>6
    <2> QED
      BY <2>9, <2>10, <2>11, <2>12, <2>13
  <1>7. ASSUME NEW p \in Request, Backup!ExportFails(p) PROVE Backup!IInv'
    BY <1>7 DEF Backup!ExportFails
  <1>8. ASSUME NEW p \in Request, Backup!Rotate(p) PROVE Backup!IInv'
    <2>1. /\ r3' \subseteq r3 /\ UNCHANGED <<r1, r2, r4, r5, r7>>
          /\ r6[p].at = "rotate" /\ r6' = [r6 EXCEPT ![p] = [at |-> "unlock"]]
      BY <1>8 DEF Backup!Rotate, Backup!Newest
    <2> QED
      BY <2>1
  <1>9. ASSUME NEW p \in Request, Backup!RestoreTables(p) PROVE Backup!IInv'
    BY <1>9 DEF Backup!RestoreTables
  <1>10. ASSUME NEW p \in Request, Backup!ClearConfig(p) PROVE Backup!IInv'
    BY <1>10 DEF Backup!ClearConfig
  <1>11. ASSUME NEW p \in Request, Backup!RestoreConfig(p) PROVE Backup!IInv'
    BY <1>11 DEF Backup!RestoreConfig
  <1>12. ASSUME NEW p \in Request, Backup!RestoreFails(p) PROVE Backup!IInv'
    BY <1>12 DEF Backup!RestoreFails
  <1>13. ASSUME NEW p \in Request, Backup!Unlock(p) PROVE Backup!IInv'
    BY <1>13 DEF Backup!Unlock
  <1>14. ASSUME NEW p \in Request, Backup!Die(p) PROVE Backup!IInv'
    BY <1>14 DEF Backup!Die
  <1>15. ASSUME Backup!Expire PROVE Backup!IInv'
    BY <1>15 DEF Backup!Expire
  <1>16. ASSUME Backup!Use PROVE Backup!IInv'
    BY <1>16 DEF Backup!Use
  <1>17. ASSUME UNCHANGED Backup!vars PROVE Backup!IInv'
    BY <1>17 DEF Backup!vars
  <1> QED
    BY <1>1, <1>2, <1>3, <1>4, <1>5, <1>6, <1>7, <1>8, <1>9, <1>10, <1>11, <1>12,
       <1>13, <1>14, <1>15, <1>16, <1>17 DEF Backup!Next

-------------------------------------------------------------------------------
(* The mirror of absences (ArbeitszeitCheckIntegrationService).              *)

LEMMA MirrorStart == Mirror!Init => Mirror!IInv
  BY ServicesAssumption
     DEF Mirror!Init, Mirror!IInv, Mirror!TypeOK, Mirror!Versions, Mirror!LockHeld,
         Mirror!Grown, Mirror!Dealt, Mirror!AsRecentAsSaid, Mirror!Idle,
         Mirror!Ending, Mirror!Goto

LEMMA MirrorKept == Mirror!IInv /\ [Mirror!Next]_(Mirror!vars) => Mirror!IInv'
  <1> SUFFICES ASSUME Mirror!IInv, [Mirror!Next]_(Mirror!vars) PROVE Mirror!IInv'
    OBVIOUS
  <1> USE ServicesAssumption DEF Mirror!IInv, Mirror!TypeOK, Mirror!Versions,
       Mirror!LockHeld, Mirror!Grown, Mirror!Dealt, Mirror!AsRecentAsSaid,
       Mirror!Idle, Mirror!Ending, Mirror!Goto
  <1>1. ASSUME NEW p \in Request, Mirror!Acquire(p) PROVE Mirror!IInv'
    BY <1>1 DEF Mirror!Acquire
  <1>2. ASSUME NEW p \in Request, Mirror!Release(p) PROVE Mirror!IInv'
    BY <1>2 DEF Mirror!Release
  <1>3. ASSUME NEW p \in Request, Mirror!Start(p) PROVE Mirror!IInv'
    BY <1>3 DEF Mirror!Start
  <1>4. ASSUME NEW p \in Request, Mirror!ReadUser(p) PROVE Mirror!IInv'
    BY <1>4 DEF Mirror!ReadUser
  <1>5. ASSUME NEW p \in Request, Mirror!Fails(p) PROVE Mirror!IInv'
    BY <1>5 DEF Mirror!Fails
  <1>6. ASSUME NEW p \in Request, Mirror!ReconcileUser(p) PROVE Mirror!IInv'
    BY <1>6 DEF Mirror!ReconcileUser
  <1>7. ASSUME NEW p \in Request, Mirror!Incomplete(p) PROVE Mirror!IInv'
    BY <1>7 DEF Mirror!Incomplete
  <1>8. ASSUME NEW p \in Request, Mirror!Completed(p) PROVE Mirror!IInv'
    BY <1>8 DEF Mirror!Completed
  <1>9. ASSUME NEW p \in Request, Mirror!Die(p) PROVE Mirror!IInv'
    BY <1>9 DEF Mirror!Die
  <1>10. ASSUME Mirror!ChangeAbsence PROVE Mirror!IInv'
    BY <1>10 DEF Mirror!ChangeAbsence
  <1>11. ASSUME Mirror!Switch PROVE Mirror!IInv'
    BY <1>11 DEF Mirror!Switch
  <1>12. ASSUME Mirror!Expire PROVE Mirror!IInv'
    BY <1>12 DEF Mirror!Expire
  <1>13. ASSUME UNCHANGED Mirror!vars PROVE Mirror!IInv'
    BY <1>13 DEF Mirror!vars
  <1> QED
    BY <1>1, <1>2, <1>3, <1>4, <1>5, <1>6, <1>7, <1>8, <1>9, <1>10, <1>11, <1>12,
       <1>13 DEF Mirror!Next

-------------------------------------------------------------------------------
(* Settings (SelfServiceSettingsService).                                    *)

LEMMA SettingsStart == Settings!Init => Settings!IInv
  BY ServicesAssumption
     DEF Settings!Init, Settings!IInv, Settings!TypeOK, Settings!Texts,
         Settings!PatchesKept, Settings!Idle, Settings!Goto

LEMMA SettingsKept == Settings!IInv /\ [Settings!Next]_(Settings!vars) => Settings!IInv'
  <1> SUFFICES ASSUME Settings!IInv, [Settings!Next]_(Settings!vars) PROVE Settings!IInv'
    OBVIOUS
  <1> USE ServicesAssumption DEF Settings!IInv, Settings!TypeOK, Settings!Texts,
       Settings!PatchesKept, Settings!Idle, Settings!Goto
  <1>1. ASSUME NEW p \in Request, Settings!OpenForm(p) PROVE Settings!IInv'
    BY <1>1 DEF Settings!OpenForm
  <1>2. ASSUME NEW p \in Request, Settings!Update(p) PROVE Settings!IInv'
    BY <1>2 DEF Settings!Update
  <1>3. ASSUME NEW p \in Request, Settings!Write(p) PROVE Settings!IInv'
    BY <1>3 DEF Settings!Write, Settings!Merged, Settings!Expected
  <1>4. ASSUME UNCHANGED Settings!vars PROVE Settings!IInv'
    BY <1>4 DEF Settings!vars
  <1> QED
    BY <1>1, <1>2, <1>3, <1>4 DEF Settings!Next

-------------------------------------------------------------------------------
(* Assignments of patterns (RotationPatternService).                         *)

\* The rows of T are rows of S that have been cut, or are known as loose.
CutFrom(T, S, loose) ==
  \A t \in T : \E s \in S :
    /\ s.id = t.id /\ s.pattern = t.pattern /\ s.from = t.from
    /\ t.to <= s.to \/ t.id \in loose

\* No two of S on active patterns meet, but for those known as loose.
ApartIn(S, active, loose) ==
  \A r, s \in S :
    r # s /\ {r.pattern, s.pattern} \subseteq active /\ Assigned!Meet(r, s)
    => {r.id, s.id} \cap loose # {}

\* Cutting assignments never makes two meet.
LEMMA CutApart ==
  ASSUME NEW S, NEW T, NEW active, NEW loose, NEW before \in SUBSET loose,
         \A r \in S \cup T : {r.from, r.to} \subseteq Nat,
         \A r, s \in T : r.id = s.id => r = s,
         CutFrom(T, S, loose), ApartIn(S, active, before)
  PROVE  ApartIn(T, active, loose)
  <1> SUFFICES ASSUME NEW r \in T, NEW s \in T, r # s, {r.pattern, s.pattern} \subseteq active,
                      Assigned!Meet(r, s), r.id \notin loose, s.id \notin loose
               PROVE  FALSE
    BY DEF ApartIn
  <1>1. PICK u \in S : u.id = r.id /\ u.pattern = r.pattern /\ u.from = r.from /\ r.to <= u.to
    BY DEF CutFrom
  <1>2. PICK v \in S : v.id = s.id /\ v.pattern = s.pattern /\ v.from = s.from /\ s.to <= v.to
    BY DEF CutFrom
  <1>3. Assigned!Meet(u, v)
    BY <1>1, <1>2 DEF Assigned!Meet
  <1>4. u # v
    BY <1>1, <1>2
  <1> QED
    BY <1>1, <1>2, <1>3, <1>4 DEF ApartIn

LEMMA AssignedStart == Assigned!Init => Assigned!IInv
  BY ServicesAssumption
     DEF Assigned!Init, Assigned!IInv, Assigned!TypeOK, Assigned!Wish, Assigned!Day,
         Assigned!NoEnd, Assigned!LockHeld, Assigned!Meet, Assigned!Checked,
         Assigned!OnePatternADay, Assigned!Idle, Assigned!Goto, Assigned!Superseded

\* Where rows and patterns are as they were, what was checked stays so.
LEMMA StillChecked ==
  ASSUME Assigned!Checked, Assigned!OnePatternADay, UNCHANGED <<r1, r2, r6>>,
         \A q \in Request : r5'[q].at = "write" => r5'[q] = r5[q]
  PROVE  Assigned!Checked' /\ Assigned!OnePatternADay'
  <1>2. Assigned!Checked'
    <2> SUFFICES ASSUME NEW q \in Request, r5'[q].at = "write"
                 PROVE  LET kept == Assigned!Superseded(r5[q].ids, r5[q].wish.from)'
                        IN /\ \A r \in kept : r.pattern \in r1' /\ Assigned!Meet(r, r5'[q].wish) => r.id \in r6'
                           /\ \A r, s \in kept :
                                r # s /\ {r.pattern, s.pattern} \subseteq r1' /\ Assigned!Meet(r, s)
                                => {r.id, s.id} \cap r6' # {}
      BY DEF Assigned!Checked
    <2>1. r5'[q] = r5[q]
      OBVIOUS
    <2>2. Assigned!Superseded(r5[q].ids, r5[q].wish.from)' = Assigned!Superseded(r5[q].ids, r5[q].wish.from)
      BY <2>1 DEF Assigned!Superseded
    <2> QED
      BY <2>1, <2>2 DEF Assigned!Checked
  <1> QED
    BY <1>2 DEF Assigned!OnePatternADay

LEMMA AssignedKept == Assigned!IInv /\ [Assigned!Next]_(Assigned!vars) => Assigned!IInv'
  <1> SUFFICES ASSUME Assigned!IInv, [Assigned!Next]_(Assigned!vars) PROVE Assigned!IInv'
    OBVIOUS
  <1> USE ServicesAssumption DEF Assigned!IInv, Assigned!TypeOK, Assigned!Wish,
       Assigned!Day, Assigned!NoEnd,
        Assigned!LockHeld, Assigned!Idle, Assigned!Goto
  <1>1. ASSUME NEW p \in Request, Assigned!Assign(p) PROVE Assigned!IInv'
    <2>1. PICK x \in r1, from \in Assigned!Day, to \in 1..Assigned!NoEnd, supersede \in BOOLEAN :
            r5' = [r5 EXCEPT ![p] = [at |-> "read", pattern |-> x, from |-> from, to |-> to,
                                   supersede |-> supersede]]
      BY <1>1 DEF Assigned!Assign
    <2>2. UNCHANGED <<r1, r2, r3, r6>> /\ r4 = None /\ r4' = p
      BY <1>1 DEF Assigned!Assign, Assigned!Lock
    <2>3. x \in Pattern
      BY DEF Assigned!IInv
    <2>4. /\ Assigned!TypeOK' /\ Assigned!LockHeld'
          /\ \A q \in Request : r5'[q].at = "write" => r5'[q] = r5[q]
      BY <2>1, <2>2, <2>3
    <2> QED
      BY <2>2, <2>4, StillChecked
  <1>2. ASSUME NEW p \in Request, Assigned!ReadOverlaps(p) PROVE Assigned!IInv'
    <2> USE DEF Assigned!Meet, Assigned!Checked, Assigned!OnePatternADay,
         Assigned!Superseded
    <2> DEFINE wish == r5[p]
               found == {r \in r2 : Assigned!Overlap(r, wish)}
               over == {r.id : r \in found}
               write(ids) == [at |-> "write", wish |-> wish, ids |-> ids]
    <2>1. /\ UNCHANGED <<r1, r2, r3, r4, r6>> /\ wish \in Assigned!Wish
          /\ over \subseteq Nat
      BY <1>2 DEF Assigned!ReadOverlaps
    <2>2. \/ r5' = [r5 EXCEPT ![p] = write(over)]
          \/ r5' = [r5 EXCEPT ![p] = write({})] /\ \A r \in found : r.pattern \notin r1
          \/ r5' = [r5 EXCEPT ![p] = [at |-> "unlock"]]
      BY <1>2 DEF Assigned!ReadOverlaps
    <2>3. ASSUME NEW r \in r2, Assigned!Meet(r, wish) PROVE r \in found
      BY <2>1, <2>3 DEF Assigned!Overlap
    <2>4. ApartIn(r2, r1, r6)
      BY DEF ApartIn
    <2>5. CASE r5' = [r5 EXCEPT ![p] = write(over)]
      <3> DEFINE kept == Assigned!Superseded(over, wish.from)
      <3>1. ASSUME NEW t \in kept
            PROVE  /\ {t.from, t.to} \subseteq Nat
                   /\ ~Assigned!Meet(t, wish)
                   /\ \E s \in r2 : /\ s.id = t.id /\ s.pattern = t.pattern /\ s.from = t.from
                                    /\ t.to <= s.to
        <4>1. PICK s \in r2 : /\ s.id \in over => s.from < wish.from
                              /\ t = IF s.id \in over THEN [s EXCEPT !.to = wish.from - 1] ELSE s
          OBVIOUS
        <4>2. CASE s.id \in over
          <5>1. s \in found
            BY <4>2
          <5>2. /\ t.id = s.id /\ t.pattern = s.pattern /\ t.from = s.from
                /\ t.to = wish.from - 1 /\ s.from < wish.from /\ s.to >= wish.from
                /\ {s.from, s.to, wish.from, wish.to} \subseteq Nat
            BY <2>1, <4>1, <4>2, <5>1 DEF Assigned!Overlap
          <5> HIDE DEF wish, over, found, kept
          <5> QED
            BY <5>2
        <4>3. CASE s.id \notin over
          <5>1. t = s /\ s \notin found
            BY <4>1, <4>3
          <5> QED
            BY <2>3, <5>1
        <4> QED
          BY <4>2, <4>3
      <3>2. \A r, s \in kept : r.id = s.id => r = s
        OBVIOUS
      <3>3. CutFrom(kept, r2, r6)
        BY <3>1 DEF CutFrom
      <3>4. \A r \in r2 \cup kept : {r.from, r.to} \subseteq Nat
        BY <3>1
      <3> HIDE DEF kept
      <3>5. ApartIn(kept, r1, r6)
        BY <2>4, <3>2, <3>3, <3>4, CutApart
      <3>6. Assigned!Checked'
        <4>1. r5'[p] = write(over) /\ \A q \in Request \ {p} : r5'[q] = r5[q]
          BY <2>5
        <4>2. \A q \in Request : r5'[q].at = "write" => q = p
          BY <1>2, <4>1 DEF Assigned!ReadOverlaps
        <4>3. r5'[p].ids = over /\ r5'[p].wish = wish
          BY <4>1
        <4> HIDE DEF wish, over, found
        <4>4. Assigned!Superseded(r5[p].ids, r5[p].wish.from)' = kept
          BY <2>1, <4>3 DEF kept
        <4> HIDE DEF Assigned!Superseded
        <4> QED
          BY <2>1, <3>1, <3>5, <4>2, <4>3, <4>4 DEF ApartIn
      <3> QED
        BY <2>1, <2>5, <3>6
    <2>6. CASE r5' = [r5 EXCEPT ![p] = write({})] /\ \A r \in found : r.pattern \notin r1
      BY <2>1, <2>3, <2>6
    <2>7. CASE r5' = [r5 EXCEPT ![p] = [at |-> "unlock"]]
      BY <2>1, <2>7
    <2> QED
      BY <2>2, <2>5, <2>6, <2>7
  <1>3. ASSUME NEW p \in Request, Assigned!CommitAssign(p) PROVE Assigned!IInv'
    <2> USE DEF Assigned!Meet, Assigned!Checked, Assigned!OnePatternADay,
         Assigned!Superseded
    <2> DEFINE wish == r5[p].wish
               kept == Assigned!Superseded(r5[p].ids, wish.from)
               new == [id |-> r3 + 1, pattern |-> wish.pattern, from |-> wish.from, to |-> wish.to]
    <2>1. /\ r5[p].at = "write" /\ wish \in Assigned!Wish
          /\ r2' = kept \cup {new} /\ r3' = r3 + 1
          /\ r5' = [r5 EXCEPT ![p] = [at |-> "unlock"]]
          /\ UNCHANGED <<r1, r4, r6>>
      BY <1>3 DEF Assigned!CommitAssign
    <2>2. ApartIn(kept, r1, r6) /\ \A r \in kept : r.pattern \in r1 /\ Assigned!Meet(r, wish) => r.id \in r6
      BY <2>1 DEF ApartIn
    <2>3. kept \subseteq [id : 1..r3, pattern : Pattern, from : Assigned!Day, to : 1..Assigned!NoEnd]
      BY <2>1
    <2>4. \A r, s \in kept : r.id = s.id => r = s
      OBVIOUS
    <2>5. /\ new \in [id : 1..r3', pattern : Pattern, from : Assigned!Day, to : 1..Assigned!NoEnd]
          /\ new.id = r3 + 1 /\ \A r : Assigned!Meet(r, new) <=> Assigned!Meet(r, wish)
      BY <2>1
    <2> HIDE DEF kept, new
    <2>6. Assigned!TypeOK'
      BY <2>1, <2>3, <2>4, <2>5
    <2>7. Assigned!LockHeld' /\ Assigned!Checked'
      BY <2>1
    <2>8. ASSUME NEW r \in kept, {r.pattern, new.pattern} \subseteq r1, Assigned!Meet(r, new)
          PROVE  {r.id, new.id} \cap r6 # {} /\ {new.id, r.id} \cap r6 # {}
      BY <2>2, <2>5, <2>8
    <2>9. Assigned!OnePatternADay'
      BY <2>1, <2>2, <2>8 DEF ApartIn
    <2> QED
      BY <2>6, <2>7, <2>9
  <1>4. ASSUME NEW p \in Request, Assigned!AssignFails(p) PROVE Assigned!IInv'
    <2>1. /\ UNCHANGED <<r1, r2, r6>> /\ Assigned!TypeOK' /\ Assigned!LockHeld'
          /\ \A q \in Request : r5'[q].at = "write" => r5'[q] = r5[q]
      BY <1>4 DEF Assigned!AssignFails
    <2> QED
      BY <2>1, StillChecked
  <1>5. ASSUME NEW p \in Request, Assigned!Unlock(p) PROVE Assigned!IInv'
    <2>1. /\ UNCHANGED <<r1, r2, r6>> /\ Assigned!TypeOK' /\ Assigned!LockHeld'
          /\ \A q \in Request : r5'[q].at = "write" => r5'[q] = r5[q]
      BY <1>5 DEF Assigned!Unlock
    <2> QED
      BY <2>1, StillChecked
  <1>6. ASSUME NEW p \in Request, Assigned!ReadRow(p) PROVE Assigned!IInv'
    <2>1. /\ UNCHANGED <<r1, r2, r6>> /\ Assigned!TypeOK' /\ Assigned!LockHeld'
          /\ \A q \in Request : r5'[q].at = "write" => r5'[q] = r5[q]
      BY <1>6 DEF Assigned!ReadRow
    <2> QED
      BY <2>1, StillChecked
  <1>7. ASSUME NEW p \in Request, Assigned!EndAssignment(p) PROVE Assigned!IInv'
    <2> USE DEF Assigned!Meet, Assigned!Checked, Assigned!OnePatternADay,
         Assigned!Superseded
    <2> DEFINE Cut(r) == IF r.id = r5[p].id THEN [r EXCEPT !.to = r5[p].to] ELSE r
    <2>1. /\ r5[p].at = "end" /\ r5[p].to \in Assigned!Day
          /\ r2' = {Cut(r) : r \in r2}
          /\ r6' = r6 \cup {r.id : r \in {s \in r2 : s.id = r5[p].id /\ s.to < r5[p].to}}
          /\ r5' = [r5 EXCEPT ![p] = Assigned!Idle]
          /\ UNCHANGED <<r1, r3, r4>>
      BY <1>7 DEF Assigned!EndAssignment
    <2>2. ASSUME NEW r \in r2
          PROVE  /\ Cut(r) \in [id : 1..r3, pattern : Pattern, from : Assigned!Day, to : 1..Assigned!NoEnd]
                 /\ Cut(r).id = r.id /\ Cut(r).pattern = r.pattern /\ Cut(r).from = r.from
                 /\ Cut(r).to <= r.to \/ r.id \in r6'
      BY <2>1
    <2> HIDE DEF Cut
    <2>3. Assigned!TypeOK'
      BY <2>1, <2>2
    <2>4. Assigned!LockHeld'
      BY <2>1
    <2>5. Assigned!OnePatternADay'
      <3>1. CutFrom(r2', r2, r6')
        BY <2>1, <2>2 DEF CutFrom
      <3>2. ApartIn(r2, r1, r6)
        BY DEF ApartIn
      <3>3. \A r \in r2 \cup r2' : {r.from, r.to} \subseteq Nat
        BY <2>3
      <3>4. ApartIn(r2', r1, r6')
        BY <2>1, <2>3, <3>1, <3>2, <3>3, CutApart
      <3> QED
        BY <2>1, <3>4 DEF ApartIn
    <2>6. Assigned!Checked'
      <3> SUFFICES ASSUME NEW q \in Request, r5'[q].at = "write"
                   PROVE  LET kept == Assigned!Superseded(r5[q].ids, r5[q].wish.from)'
                          IN /\ \A r \in kept : r.pattern \in r1' /\ Assigned!Meet(r, r5'[q].wish) => r.id \in r6'
                             /\ ApartIn(kept, r1', r6')
        BY DEF ApartIn
      <3>1. q # p /\ r5'[q] = r5[q] /\ r5[q].at = "write" /\ r5[q].wish \in Assigned!Wish
        BY <2>1
      <3> DEFINE ids == r5[q].ids
                 from == r5[q].wish.from
                 kept == Assigned!Superseded(ids, from)
                 later == Assigned!Superseded(ids, from)'
      <3>2. /\ \A r \in kept : r.pattern \in r1 /\ Assigned!Meet(r, r5[q].wish) => r.id \in r6
            /\ ApartIn(kept, r1, r6)
        BY <3>1 DEF ApartIn
      <3>3. ASSUME NEW t \in later
            PROVE  /\ {t.from, t.to} \subseteq Nat
                   /\ \E s \in kept : /\ s.id = t.id /\ s.pattern = t.pattern /\ s.from = t.from
                                      /\ t.to <= s.to \/ t.id \in r6'
        <4>1. PICK u \in r2' : /\ u.id \in ids => u.from < from
                               /\ t = IF u.id \in ids THEN [u EXCEPT !.to = from - 1] ELSE u
          BY <3>1
        <4>2. PICK r \in r2 : u = Cut(r)
          BY <2>1
        <4> DEFINE s == IF r.id \in ids THEN [r EXCEPT !.to = from - 1] ELSE r
        <4>3. s \in kept
          BY <2>2, <4>1, <4>2
        <4>4. /\ s.id = t.id /\ s.pattern = t.pattern /\ s.from = t.from
              /\ t.to <= s.to \/ t.id \in r6'
              /\ {t.from, t.to} \subseteq Nat
          BY <2>2, <3>1, <4>1, <4>2
        <4> QED
          BY <4>3, <4>4
      <3>4. \A r, s \in later : r.id = s.id => r = s
        BY <2>3, <3>1
      <3>5. \A r \in kept : {r.from, r.to} \subseteq Nat
        BY <3>1
      <3>6. later = Assigned!Superseded(r5[q].ids, r5[q].wish.from)'
        BY <3>1
      <3> HIDE DEF kept, later
      <3>7. ApartIn(later, r1, r6')
        <4>1. CutFrom(later, kept, r6')
          BY <3>3 DEF CutFrom
        <4>2. \A r \in kept \cup later : {r.from, r.to} \subseteq Nat
          BY <3>3, <3>5
        <4> QED
          BY <2>1, <3>2, <3>4, <4>1, <4>2, CutApart
      <3>8. ASSUME NEW t \in later, t.pattern \in r1, Assigned!Meet(t, r5[q].wish) PROVE t.id \in r6'
        <4>1. PICK s \in kept : /\ s.id = t.id /\ s.pattern = t.pattern /\ s.from = t.from
                                /\ t.to <= s.to \/ t.id \in r6'
          BY <3>3
        <4>2. CASE t.to <= s.to
          <5>1. Assigned!Meet(s, r5[q].wish)
            BY <3>1, <3>3, <3>5, <3>8, <4>1, <4>2
          <5> QED
            BY <2>1, <3>2, <3>8, <4>1, <5>1
        <4> QED
          BY <4>1, <4>2
      <3> QED
        BY <2>1, <3>1, <3>6, <3>7, <3>8
    <2> QED
      BY <2>3, <2>4, <2>5, <2>6
  <1>8. ASSUME NEW p \in Request, Assigned!Die(p) PROVE Assigned!IInv'
    <2>1. /\ UNCHANGED <<r1, r2, r6>> /\ Assigned!TypeOK' /\ Assigned!LockHeld'
          /\ \A q \in Request : r5'[q].at = "write" => r5'[q] = r5[q]
      BY <1>8 DEF Assigned!Die
    <2> QED
      BY <2>1, StillChecked
  <1>9. ASSUME Assigned!Expire PROVE Assigned!IInv'
    <2>1. /\ UNCHANGED <<r1, r2, r6>> /\ Assigned!TypeOK' /\ Assigned!LockHeld'
          /\ \A q \in Request : r5'[q].at = "write" => r5'[q] = r5[q]
      BY <1>9 DEF Assigned!Expire
    <2> QED
      BY <2>1, StillChecked
  <1>10. ASSUME Assigned!Deactivate PROVE Assigned!IInv'
    <2>1. PICK x \in r1 : r1' = r1 \ {x}
      BY <1>10 DEF Assigned!Deactivate
    <2>2. UNCHANGED <<r2, r3, r4, r5, r6>>
      BY <1>10 DEF Assigned!Deactivate
    <2>3. \A q \in Request : Assigned!Superseded(r5[q].ids, r5[q].wish.from)'
                            = Assigned!Superseded(r5[q].ids, r5[q].wish.from)
      BY <2>2 DEF Assigned!Superseded
    <2>4. Assigned!Checked' /\ Assigned!OnePatternADay'
      BY <2>1, <2>2, <2>3 DEF Assigned!Checked, Assigned!OnePatternADay, Assigned!Meet
    <2> QED
      BY <2>1, <2>2, <2>4
  <1>11. ASSUME Assigned!Activate PROVE Assigned!IInv'
    <2>1. PICK x \in Pattern : /\ r1' = r1 \cup {x}
                              /\ r6' = r6 \cup {r.id : r \in {s \in r2 : s.pattern = x}}
      BY <1>11 DEF Assigned!Activate
    <2>2. UNCHANGED <<r2, r3, r4, r5>>
      BY <1>11 DEF Assigned!Activate
    <2>3. ASSUME NEW q \in Request, r5[q].at = "write"
          PROVE  /\ Assigned!Superseded(r5[q].ids, r5[q].wish.from)'
                    = Assigned!Superseded(r5[q].ids, r5[q].wish.from)
                 /\ \A r \in Assigned!Superseded(r5[q].ids, r5[q].wish.from) :
                      r.pattern = x => r.id \in r6'
      BY <2>1, <2>2 DEF Assigned!Superseded
    <2>4. Assigned!Checked'
      <3> SUFFICES ASSUME NEW q \in Request, r5[q].at = "write"
                   PROVE  LET kept == Assigned!Superseded(r5[q].ids, r5[q].wish.from)
                          IN /\ \A r \in kept : r.pattern \in r1' /\ Assigned!Meet(r, r5[q].wish) => r.id \in r6'
                             /\ \A r, s \in kept :
                                  r # s /\ {r.pattern, s.pattern} \subseteq r1' /\ Assigned!Meet(r, s)
                                  => {r.id, s.id} \cap r6' # {}
        BY <2>2, <2>3 DEF Assigned!Checked
      <3> DEFINE kept == Assigned!Superseded(r5[q].ids, r5[q].wish.from)
      <3>1. /\ \A r \in kept : r.pattern \in r1 /\ Assigned!Meet(r, r5[q].wish) => r.id \in r6
            /\ \A r, s \in kept :
                 r # s /\ {r.pattern, s.pattern} \subseteq r1 /\ Assigned!Meet(r, s)
                 => {r.id, s.id} \cap r6 # {}
        BY DEF Assigned!Checked
      <3>2. \A r \in kept : r.pattern = x => r.id \in r6'
        BY <2>3
      <3> HIDE DEF kept, Assigned!TypeOK, Assigned!LockHeld, Assigned!IInv
      <3>3. /\ \A r \in kept : r.pattern \in r1' /\ Assigned!Meet(r, r5[q].wish) => r.id \in r6'
            /\ \A r, s \in kept :
                 r # s /\ {r.pattern, s.pattern} \subseteq r1' /\ Assigned!Meet(r, s)
                 => {r.id, s.id} \cap r6' # {}
        BY <2>1, <3>1, <3>2
      <3> QED
        BY <3>3 DEF kept
    <2>5. Assigned!OnePatternADay'
      BY <2>1, <2>2 DEF Assigned!OnePatternADay
    <2> QED
      BY <2>1, <2>2, <2>4, <2>5
  <1>12. ASSUME UNCHANGED Assigned!vars PROVE Assigned!IInv'
    <2>1. UNCHANGED <<r1, r2, r3, r4, r5, r6>>
      BY <1>12 DEF Assigned!vars
    <2> QED
      BY <2>1, StillChecked
  <1> QED
    BY <1>1, <1>2, <1>3, <1>4, <1>5, <1>6, <1>7, <1>8, <1>9, <1>10, <1>11,
       <1>12 DEF Assigned!Next

-------------------------------------------------------------------------------
(* Suggestions from patterns (RotationSuggestService).                       *)

\* Two assignments are in each other's way.
LEMMA ClashBoth == \A a, b : Suggest!Clash(a, b) <=> Suggest!Clash(b, a)
  BY DEF Suggest!Clash

LEMMA SuggestStart == Suggest!Init => Suggest!IInv
  BY ServicesAssumption
     DEF Suggest!Init, Suggest!Patterns, Suggest!IInv, Suggest!TypeOK, Suggest!Cells,
         Suggest!Day, Suggest!Shift, Suggest!LockHeld, Suggest!Suggested,
         Suggest!Fitting, Suggest!Unhindered, Suggest!FilledOnce, Suggest!PlanKept,
         Suggest!Idle, Suggest!Goto

LEMMA SuggestKept == Suggest!IInv /\ [Suggest!Next]_(Suggest!vars) => Suggest!IInv'
  <1> SUFFICES ASSUME Suggest!IInv, [Suggest!Next]_(Suggest!vars) PROVE Suggest!IInv'
    OBVIOUS
  <1> USE ServicesAssumption DEF Suggest!IInv, Suggest!TypeOK, Suggest!Cells,
       Suggest!Day, Suggest!Shift, Suggest!LockHeld, Suggest!Suggested,
       Suggest!Fitting, Suggest!Unhindered, Suggest!FilledOnce, Suggest!PlanKept,
       Suggest!Idle, Suggest!Goto
  <1>1. ASSUME NEW p \in Request, Suggest!Confirm(p) PROVE Suggest!IInv'
    BY <1>1 DEF Suggest!Confirm, Suggest!Acquire
  <1>2. ASSUME NEW p \in Request, Suggest!Plan(p) PROVE Suggest!IInv'
    <2>1. CASE r2
      <3>1. PICK days \in SUBSET Suggest!Day :
              /\ Suggest!Planned(days)
              /\ r6' = [r6 EXCEPT ![p] = [at |-> "write", todo |-> {Suggest!Cell(d) : d \in days},
                                         created |-> {}, missed |-> {}]]
        BY <1>2, <2>1 DEF Suggest!Plan
      <3> DEFINE todo == {Suggest!Cell(d) : d \in days}
      <3>2. UNCHANGED <<r1, r2, r3, r4, r5, r7>> /\ r8' = r8 \cup {p} /\ r6[p].at = "plan"
        BY <1>2, <2>1 DEF Suggest!Plan
      <3>3. ASSUME NEW d \in days
            PROVE  /\ Suggest!Cell(d) \in Suggest!Cells /\ Suggest!Cell(d).day = d
                   /\ d \notin r3
                   /\ \A r \in r1 \cup {Suggest!Cell(e) : e \in {e \in days : e < d}} :
                        ~Suggest!Clash(r, Suggest!Cell(d))
        BY <3>1 DEF Suggest!Planned, Suggest!Candidate, Suggest!Accepts, Suggest!Cell
      <3>4. todo \subseteq Suggest!Cells
        BY <3>3
      <3>5. ASSUME NEW x \in todo
            PROVE  x.day \notin r3 /\ \A y \in r1 \cup (todo \ {x}) : ~Suggest!Clash(y, x)
        <4>1. PICK d \in days : x = Suggest!Cell(d)
          OBVIOUS
        <4>2. ASSUME NEW y \in todo \ {x} PROVE ~Suggest!Clash(y, x)
          <5>1. PICK e \in days : y = Suggest!Cell(e)
            OBVIOUS
          <5>2. d < e \/ e < d
            BY <4>1, <5>1
          <5>3. CASE e < d
            BY <3>3, <4>1, <5>1, <5>3
          <5>4. CASE d < e
            BY <3>3, <4>1, <5>1, <5>4, ClashBoth
          <5> QED
            BY <5>2, <5>3, <5>4
        <4> QED
          BY <3>3, <4>1, <4>2
      <3> HIDE DEF todo
      <3>6. Suggest!TypeOK' /\ Suggest!LockHeld' /\ Suggest!PlanKept'
        BY <3>1, <3>2, <3>4 DEF todo
      <3>7. Suggest!Fitting' /\ Suggest!FilledOnce'
        BY <3>1, <3>2
      <3>8. Suggest!Unhindered'
        <4>1. r6'[p] = [at |-> "write", todo |-> todo, created |-> {}, missed |-> {}]
          BY <3>1 DEF todo
        <4>2. \A c \in Request \ {p} : r6'[c] = r6[c]
          BY <3>1
        <4> QED
          BY <3>2, <3>5, <4>1, <4>2
      <3> QED
        BY <3>6, <3>7, <3>8
    <2>2. CASE ~r2
      BY <1>2, <2>2 DEF Suggest!Plan
    <2> QED
      BY <2>1, <2>2
  <1>3. ASSUME NEW p \in Request, Suggest!WriteCell(p) PROVE Suggest!IInv'
    <2> DEFINE next(cell) == [r6[p] EXCEPT !.todo = @ \ {cell}]
    <2>1. PICK cell \in r6[p].todo :
            Suggest!Goto(p, IF Suggest!Refused(p, cell)
                            THEN [next(cell) EXCEPT !.missed = @ \cup {cell}]
                            ELSE [next(cell) EXCEPT !.created = @ \cup {cell}])
      BY <1>3 DEF Suggest!WriteCell
    <2>2. UNCHANGED <<r1, r2, r3, r4, r5, r7, r8>> /\ r6[p].at = "write"
      BY <1>3 DEF Suggest!WriteCell
    <2>3. /\ r6[p] \in [at : {"write"}, todo : SUBSET Suggest!Cells, created : SUBSET Suggest!Cells,
                        missed : SUBSET Suggest!Cells]
          /\ cell \in Suggest!Cells
      BY <2>2
    <2>7. /\ r6'[p].at = "write" /\ r6'[p].todo = r6[p].todo \ {cell}
          /\ IF Suggest!Refused(p, cell)
             THEN r6'[p].created = r6[p].created /\ r6'[p].missed = r6[p].missed \cup {cell}
             ELSE r6'[p].created = r6[p].created \cup {cell} /\ r6'[p].missed = r6[p].missed
          /\ r6'[p] \in [at : {"write"}, todo : SUBSET Suggest!Cells, created : SUBSET Suggest!Cells,
                         missed : SUBSET Suggest!Cells]
      BY <2>1, <2>3
    <2>8. r6' = [r6 EXCEPT ![p] = r6'[p]]
      BY <2>1
    <2> HIDE DEF next
    <2>4. Suggest!TypeOK' /\ Suggest!LockHeld' /\ Suggest!PlanKept' /\ Suggest!FilledOnce'
      BY <2>2, <2>7, <2>8
    <2>5. Suggest!Fitting'
      <3>1. CASE Suggest!Refused(p, cell)
        BY <2>2, <2>7, <2>8, <3>1
      <3>2. CASE ~Suggest!Refused(p, cell)
        <4> DEFINE old == Suggest!Suggested \cup r6[p].created
        <4>1. \A x \in old : ~Suggest!Clash(x, cell) /\ ~Suggest!Clash(cell, x)
          BY <3>2, ClashBoth DEF Suggest!Refused
        <4>2. \A x, y \in old : x # y => ~Suggest!Clash(x, y)
          BY <2>2
        <4>3. (Suggest!Suggested \cup r6[p].created)' = old \cup {cell}
          BY <2>2, <2>7, <3>2
        <4> HIDE DEF old
        <4>4. \A x, y \in (Suggest!Suggested \cup r6[p].created)' : x # y => ~Suggest!Clash(x, y)
          BY <4>1, <4>2, <4>3
        <4>5. \A c \in Request \ {p} : r6'[c] = r6[c]
          BY <2>8
        <4> QED
          BY <2>2, <4>4, <4>5
      <3> QED
        BY <3>1, <3>2
    <2>6. Suggest!Unhindered'
      <3>1. p \in r8 => ~Suggest!Refused(p, cell)
        BY <2>2 DEF Suggest!Refused
      <3> QED
        BY <2>2, <2>7, <2>8, <3>1
    <2> QED
      BY <2>4, <2>5, <2>6
  <1>4. ASSUME NEW p \in Request, Suggest!RollBack(p) PROVE Suggest!IInv'
    BY <1>4 DEF Suggest!RollBack
  <1>5. ASSUME NEW p \in Request, Suggest!Commit(p) PROVE Suggest!IInv'
    BY <1>5 DEF Suggest!Commit
  <1>6. ASSUME NEW p \in Request, Suggest!Release(p) PROVE Suggest!IInv'
    BY <1>6 DEF Suggest!Release
  <1>7. ASSUME NEW p \in Request, Suggest!Die(p) PROVE Suggest!IInv'
    BY <1>7 DEF Suggest!Die
  <1>8. ASSUME Suggest!Expire PROVE Suggest!IInv'
    BY <1>8 DEF Suggest!Expire
  <1>9. ASSUME Suggest!Create PROVE Suggest!IInv'
    BY <1>9 DEF Suggest!Create, Suggest!Change
  <1>10. ASSUME Suggest!Cancel PROVE Suggest!IInv'
    BY <1>10 DEF Suggest!Cancel, Suggest!Change
  <1>11. ASSUME Suggest!Approve PROVE Suggest!IInv'
    BY <1>11 DEF Suggest!Approve, Suggest!Change
  <1>12. ASSUME Suggest!Turn PROVE Suggest!IInv'
    BY <1>12 DEF Suggest!Turn, Suggest!Change
  <1>13. ASSUME Suggest!EditPattern PROVE Suggest!IInv'
    BY <1>13 DEF Suggest!EditPattern, Suggest!Change, Suggest!Patterns
  <1>14. ASSUME UNCHANGED Suggest!vars PROVE Suggest!IInv'
    BY <1>14 DEF Suggest!vars
  <1> QED
    BY <1>1, <1>2, <1>3, <1>4, <1>5, <1>6, <1>7, <1>8, <1>9, <1>10, <1>11, <1>12,
       <1>13, <1>14 DEF Suggest!Next

-------------------------------------------------------------------------------
(* Absences (RosterService).                                                 *)

LEMMA AbsenceStart == Absence!Init => Absence!IInv
  BY ServicesAssumption
     DEF Absence!Init, Absence!IInv, Absence!TypeOK, Absence!Absence, Absence!Status,
         Absence!Day, Absence!AsRead, Absence!FoundFree, Absence!DecidedOnce,
         Absence!ApprovedApart, Absence!Approving, Absence!Overlap, Absence!Idle,
         Absence!Goto

LEMMA AbsenceKept == Absence!IInv /\ [Absence!Next]_(Absence!vars) => Absence!IInv'
  <1> SUFFICES ASSUME Absence!IInv, [Absence!Next]_(Absence!vars) PROVE Absence!IInv'
    OBVIOUS
  <1> USE ServicesAssumption DEF Absence!IInv, Absence!TypeOK, Absence!Absence,
       Absence!Status, Absence!Day, Absence!AsRead, Absence!FoundFree,
       Absence!DecidedOnce, Absence!ApprovedApart, Absence!Approving, Absence!Overlap,
       Absence!Idle, Absence!Goto
  <1>1. ASSUME NEW p \in Request, Absence!CheckCreate(p) PROVE Absence!IInv'
    BY <1>1 DEF Absence!CheckCreate
  <1>2. ASSUME NEW p \in Request, Absence!InsertAbsence(p) PROVE Absence!IInv'
    BY <1>2 DEF Absence!InsertAbsence, Absence!Targets
  <1>3. ASSUME NEW p \in Request, Absence!ReadAbsence(p) PROVE Absence!IInv'
    <2>1. PICK r \in r1 : \E target \in Absence!Targets(r.status) :
            /\ r3 => target \in {"cancelled", "rejected"}
            /\ r4' = [r4 EXCEPT ![p] = [at |-> IF target = "approved" THEN "check" ELSE "decide",
                                       row |-> r, target |-> target]]
      BY <1>3 DEF Absence!ReadAbsence
    <2>2. PICK target \in Absence!Targets(r.status) :
            r4' = [r4 EXCEPT ![p] = [at |-> IF target = "approved" THEN "check" ELSE "decide",
                                       row |-> r, target |-> target]]
      BY <2>1
    <2>8. UNCHANGED <<r1, r2, r3, r5>>
      BY <1>3 DEF Absence!ReadAbsence
    <2>3. target \in Absence!Status
      BY DEF Absence!Targets
    <2>4. Absence!TypeOK'
      BY <2>2, <2>3, <2>8
    <2>5. Absence!AsRead'
      BY <2>2, <2>3, <2>8
    <2>6. Absence!FoundFree'
      BY <2>2, <2>8
    <2>7. Absence!DecidedOnce'
      BY <2>2, <2>8
    <2> QED
      BY <2>4, <2>5, <2>6, <2>7, <2>8
  <1>4. ASSUME NEW p \in Request, Absence!CheckOverlap(p) PROVE Absence!IInv'
    BY <1>4 DEF Absence!CheckOverlap, Absence!Free
  <1>5. ASSUME NEW p \in Request, Absence!Decide(p) PROVE Absence!IInv'
    <2>1. PICK r \in r1 :
            /\ r.id = r4[p].row.id /\ r.status = r4[p].row.status
            /\ r1' = (r1 \ {r}) \cup {[r EXCEPT !.status = r4[p].target]}
            /\ r4' = [r4 EXCEPT ![p] = [at |-> "answer", from |-> r.status, target |-> r4[p].target]]
      BY <1>5 DEF Absence!Decide
    <2>2. r2' = r2 /\ r4[p].at = "decide" /\ r5 \subseteq r5'
      BY <1>5 DEF Absence!Decide
    <2>3. ASSUME Absence!Approving(p), NEW q \in Request, Absence!Approving(q)
          PROVE  {r.id, r4[q].row.id} \in r5'
      BY <1>5, <2>1, <2>3 DEF Absence!Decide, Absence!Raced
    <2> DEFINE new == [r EXCEPT !.status = r4[p].target]
    <2>4. /\ new \in Absence!Absence /\ new.id = r.id /\ new.status = r4[p].target
          /\ new.from = r.from /\ new.to = r.to
          /\ r.from = r4[p].row.from /\ r.to = r4[p].row.to
      BY <2>1, <2>2
    <2>5. r1' = (r1 \ {r}) \cup {new}
      BY <2>1
    <2> HIDE DEF new
    <2>6. Absence!TypeOK'
      BY <2>1, <2>2, <2>4, <2>5
    <2>7. Absence!AsRead'
      BY <2>1, <2>2, <2>4, <2>5
    <2>8. Absence!FoundFree'
      <3> SUFFICES ASSUME NEW q \in Request, Absence!Approving(q)', NEW s \in r1',
                          s.status = "approved", s.id # r4'[q].row.id,
                          Absence!Overlap(s, r4[q].row)'
                   PROVE  {s.id, r4'[q].row.id} \in r5'
        OBVIOUS
      <3>1. q # p /\ r4'[q] = r4[q] /\ Absence!Approving(q)
        BY <2>1
      <3>2. CASE s \in r1
        BY <2>2, <3>1, <3>2
      <3>3. CASE s = new
        BY <2>2, <2>3, <2>4, <3>1, <3>3
      <3> QED
        BY <2>5, <3>2, <3>3
    <2>9. Absence!DecidedOnce'
      BY <2>1, <2>2
    <2>10. Absence!ApprovedApart'
      <3> SUFFICES ASSUME NEW s \in r1', NEW t \in r1', s # t,
                          s.status = "approved", t.status = "approved",
                          (s.from..s.to) \cap (t.from..t.to) # {}
                   PROVE  {s.id, t.id} \in r5'
        OBVIOUS
      <3>1. ASSUME NEW u \in r1 \ {r}, u.status = "approved", new.status = "approved",
                   (u.from..u.to) \cap (new.from..new.to) # {}
            PROVE  {u.id, new.id} \in r5'
        <4>1. Absence!Overlap(u, r4[p].row)
          BY <2>4, <3>1
        <4>2. Absence!Approving(p) /\ u.id # r4[p].row.id
          BY <2>1, <2>2, <2>4, <3>1
        <4> QED
          BY <2>1, <2>2, <2>4, <3>1, <4>1, <4>2
      <3>2. CASE s \in r1 \ {r} /\ t \in r1 \ {r}
        BY <2>2, <3>2
      <3>3. CASE s \in r1 \ {r} /\ t = new
        BY <3>1, <3>3
      <3>4. CASE s = new /\ t \in r1 \ {r}
        <4>1. {t.id, new.id} \in r5'
          BY <3>1, <3>4
        <4>2. {s.id, t.id} = {t.id, new.id}
          BY <3>4
        <4> QED
          BY <4>1, <4>2
      <3> QED
        BY <2>5, <3>2, <3>3, <3>4
    <2> QED
      BY <2>6, <2>7, <2>8, <2>9, <2>10
  <1>6. ASSUME NEW p \in Request, Absence!Answer(p) PROVE Absence!IInv'
    BY <1>6 DEF Absence!Answer
  <1>7. ASSUME NEW p \in Request, Absence!SelectLegacy(p) PROVE Absence!IInv'
    BY <1>7 DEF Absence!SelectLegacy
  <1>8. ASSUME NEW p \in Request, Absence!Purge(p) PROVE Absence!IInv'
    BY <1>8 DEF Absence!Purge
  <1>9. ASSUME NEW p \in Request, Absence!Abort(p) PROVE Absence!IInv'
    BY <1>9 DEF Absence!Abort
  <1>10. ASSUME Absence!Switch PROVE Absence!IInv'
    BY <1>10 DEF Absence!Switch
  <1>11. ASSUME UNCHANGED Absence!vars PROVE Absence!IInv'
    BY <1>11 DEF Absence!vars
  <1> QED
    BY <1>1, <1>2, <1>3, <1>4, <1>5, <1>6, <1>7, <1>8, <1>9, <1>10, <1>11
       DEF Absence!Next

-------------------------------------------------------------------------------
(* Swaps (SwapService), by what SwapRequestsProofs shows of SwapRequests.   *)

\* One planner reviews, acknowledges and overrides, one request at a time.
OnePlanner == \A p, q \in Planner : p = q

SwapProved == INSTANCE SwapRequestsProofs WITH
  Request <- Request \cup Planner, NULL <- None, Bilateral <- TRUE,
  Disturbance <- {}, swaps <- r1, asg <- r2, posted <- r3, lock <- r4,
  op <- r5, applied <- r6

DyingProved == INSTANCE SwapRequestsProofs WITH
  Request <- OneRequest \cup Planner, NULL <- None, Bilateral <- TRUE,
  Disturbance <- {"die"}, swaps <- r1, asg <- r2, posted <- r3, lock <- r4,
  op <- r5, applied <- r6

LEMMA SwapStart == OnePlanner /\ Swap!Init => SwapProved!IInv
  <1>1. OnePlanner => SwapProved!Usual
    BY ServicesAssumption DEF SwapProved!Usual, OnePlanner
  <1>2. Swap!Init => SwapProved!Init
    BY DEF Swap!Init, SwapProved!Init, Swap!Idle, SwapProved!Idle
  <1> QED
    BY <1>1, <1>2, SwapProved!InitIInv

LEMMA SwapKept ==
  OnePlanner /\ SwapProved!IInv /\ [Swap!Next]_(Swap!vars) => SwapProved!IInv'
  <1>1. OnePlanner => SwapProved!Usual
    BY ServicesAssumption DEF SwapProved!Usual, OnePlanner
  <1>2. Swap!Next => SwapProved!Next
    BY DEF Swap!Next, SwapProved!Next, Swap!Idle, SwapProved!Idle,
           Swap!IsOpen, SwapProved!IsOpen, Swap!OpenStatuses,
           SwapProved!OpenStatuses, Swap!NoneOpen, SwapProved!NoneOpen,
           Swap!Continue, SwapProved!Continue, Swap!ReadRequest,
           SwapProved!ReadRequest, Swap!TakeLock, SwapProved!TakeLock,
           Swap!LockBusy, SwapProved!LockBusy, Swap!Recheck,
           SwapProved!Recheck, Swap!Insert, SwapProved!Insert, Swap!Unlock,
           SwapProved!Unlock, Swap!SetStatus, SwapProved!SetStatus,
           Swap!ReadWithdraw, SwapProved!ReadWithdraw, Swap!ReadReject,
           SwapProved!ReadReject, Swap!Move, SwapProved!Move, Swap!Applying,
           SwapProved!Applying, Swap!ToPlanner, SwapProved!ToPlanner,
           Swap!Accept, SwapProved!Accept, Swap!ReadApprove,
           SwapProved!ReadApprove, Swap!ChangeRoster, SwapProved!ChangeRoster,
           Swap!Apply, SwapProved!Apply, Swap!ApplyFails,
           SwapProved!ApplyFails, Swap!Revert, SwapProved!Revert,
           Swap!EditAssignment, SwapProved!EditAssignment, Swap!Lapse,
           SwapProved!Lapse, Swap!Die, SwapProved!Die
  <1>3. UNCHANGED Swap!vars => UNCHANGED SwapProved!vars
    BY DEF Swap!vars, SwapProved!vars
  <1> QED
    BY <1>1, <1>2, <1>3, SwapProved!NextIInv

LEMMA SwapOnce == SwapProved!IInv => Swap!OneOpenSwap /\ Swap!AppliedOnce
  BY DEF SwapProved!IInv, SwapProved!OneOpenSwap, SwapProved!AppliedOnce,
         SwapProved!IsOpen, SwapProved!OpenStatuses, SwapProved!Done,
         Swap!OneOpenSwap, Swap!AppliedOnce, Swap!IsOpen, Swap!OpenStatuses,
         Swap!Done

LEMMA SwapDyingStart == OnePlanner /\ SwapDying!Init => DyingProved!IInv
  <1>1. OnePlanner => DyingProved!Usual
    BY ServicesAssumption DEF DyingProved!Usual, OnePlanner
  <1>2. SwapDying!Init => DyingProved!Init
    BY DEF SwapDying!Init, DyingProved!Init, SwapDying!Idle, DyingProved!Idle
  <1> QED
    BY <1>1, <1>2, DyingProved!InitIInv

LEMMA SwapDyingKept ==
  OnePlanner /\ DyingProved!IInv /\ [SwapDying!Next]_(SwapDying!vars) => DyingProved!IInv'
  <1>1. OnePlanner => DyingProved!Usual
    BY ServicesAssumption DEF DyingProved!Usual, OnePlanner
  <1>2. SwapDying!Next => DyingProved!Next
    BY DEF SwapDying!Next, DyingProved!Next, SwapDying!Idle, DyingProved!Idle,
           SwapDying!IsOpen, DyingProved!IsOpen, SwapDying!OpenStatuses,
           DyingProved!OpenStatuses, SwapDying!NoneOpen, DyingProved!NoneOpen,
           SwapDying!Continue, DyingProved!Continue, SwapDying!ReadRequest,
           DyingProved!ReadRequest, SwapDying!TakeLock, DyingProved!TakeLock,
           SwapDying!LockBusy, DyingProved!LockBusy, SwapDying!Recheck,
           DyingProved!Recheck, SwapDying!Insert, DyingProved!Insert,
           SwapDying!Unlock, DyingProved!Unlock, SwapDying!SetStatus,
           DyingProved!SetStatus, SwapDying!ReadWithdraw,
           DyingProved!ReadWithdraw, SwapDying!ReadReject,
           DyingProved!ReadReject, SwapDying!Move, DyingProved!Move,
           SwapDying!Applying, DyingProved!Applying, SwapDying!ToPlanner,
           DyingProved!ToPlanner, SwapDying!Accept, DyingProved!Accept,
           SwapDying!ReadApprove, DyingProved!ReadApprove,
           SwapDying!ChangeRoster, DyingProved!ChangeRoster, SwapDying!Apply,
           DyingProved!Apply, SwapDying!ApplyFails, DyingProved!ApplyFails,
           SwapDying!Revert, DyingProved!Revert, SwapDying!EditAssignment,
           DyingProved!EditAssignment, SwapDying!Lapse, DyingProved!Lapse,
           SwapDying!Die, DyingProved!Die
  <1>3. UNCHANGED SwapDying!vars => UNCHANGED DyingProved!vars
    BY DEF SwapDying!vars, DyingProved!vars
  <1> QED
    BY <1>1, <1>2, <1>3, DyingProved!NextIInv

LEMMA SwapDyingOnce == DyingProved!IInv => SwapDying!OneOpenSwap /\ SwapDying!AppliedOnce
  BY DEF DyingProved!IInv, DyingProved!OneOpenSwap, DyingProved!AppliedOnce,
         DyingProved!IsOpen, DyingProved!OpenStatuses, DyingProved!Done,
         SwapDying!OneOpenSwap, SwapDying!AppliedOnce, SwapDying!IsOpen,
         SwapDying!OpenStatuses, SwapDying!Done

-------------------------------------------------------------------------------
(* All of them.                                                            *)

\* What is known of the service that runs, however its requests interleave.
SInv ==
  /\ service = "queue" => Queue!IInv
  /\ service = "seats" => Seat!IInv
  /\ service = "rate" => Rate!IInv
  /\ service = "blackouts" => Blackout(Request)!IInv
  /\ service = "conflicts" => Rows(Request, FewRows)!IInv
  /\ service = "backup" => Backup!IInv
  /\ service = "mirror" => Mirror!IInv
  /\ service = "settings" => Settings!IInv
  /\ service = "patterns" => Assigned!IInv
  /\ service = "suggest" => Suggest!IInv
  /\ service = "absences" => Absence!IInv

\* What is known of those whose planner is the only one.
PInv ==
  /\ service = "swap" => SwapProved!IInv
  /\ service = "swap dying" => DyingProved!IInv
  /\ service = "blackouts alone" => Blackout(Planner)!AloneInv
  /\ service = "conflicts alone" => Rows(Planner, MaxRows)!AloneInv

LEMMA ServicesStart == Init => SInv
  <1> SUFFICES ASSUME Init PROVE SInv
    OBVIOUS
  <1>1. service = "queue" => Queue!IInv
    BY QueueStart DEF Init
  <1>2. service = "seats" => Seat!IInv
    BY SeatStart DEF Init
  <1>3. service = "rate" => Rate!IInv
    BY RateStart DEF Init
  <1>4. service = "blackouts" => Blackout(Request)!IInv
    BY BlackoutStart DEF Init
  <1>5. service = "conflicts" => Rows(Request, FewRows)!IInv
    BY RowsStart DEF Init
  <1>6. service = "backup" => Backup!IInv
    BY BackupStart DEF Init
  <1>7. service = "mirror" => Mirror!IInv
    BY MirrorStart DEF Init
  <1>8. service = "settings" => Settings!IInv
    BY SettingsStart DEF Init
  <1>9. service = "patterns" => Assigned!IInv
    BY AssignedStart DEF Init
  <1>10. service = "suggest" => Suggest!IInv
    BY SuggestStart DEF Init
  <1>11. service = "absences" => Absence!IInv
    BY AbsenceStart DEF Init
  <1> QED
    BY <1>1, <1>2, <1>3, <1>4, <1>5, <1>6, <1>7, <1>8, <1>9, <1>10, <1>11 DEF SInv

LEMMA ServicesKept == SInv /\ [Next]_vars => SInv'
  <1> SUFFICES ASSUME SInv, [Next]_vars PROVE SInv'
    OBVIOUS
  <1>0. /\ service' = service
        /\ None \notin Request /\ "stale" \notin Request
    BY ServicesAssumption
       DEF Next, vars, QueueStep, SeatStep, RateStep, BlackoutStep, RowsStep,
           BackupStep, MirrorStep, SettingsStep, AssignedStep, SuggestStep,
           AbsenceStep, SwapStep, SwapDyingStep, BlackoutAloneStep,
           RowsAloneStep
  <1>1. ASSUME service = "queue" PROVE Queue!IInv'
    <2>1. [Queue!Next]_(Queue!vars)
      BY <1>1 DEF Next, vars, Queue!vars, QueueStep, SeatStep, RateStep,
             BlackoutStep, RowsStep, BackupStep, MirrorStep, SettingsStep,
             AssignedStep, SuggestStep, AbsenceStep, SwapStep, SwapDyingStep,
             BlackoutAloneStep, RowsAloneStep
    <2> QED
      BY <1>0, <1>1, <2>1, QueueKept DEF SInv
  <1>2. ASSUME service = "seats" PROVE Seat!IInv'
    <2>1. [Seat!Next]_(Seat!vars)
      BY <1>2 DEF Next, vars, Seat!vars, QueueStep, SeatStep, RateStep,
             BlackoutStep, RowsStep, BackupStep, MirrorStep, SettingsStep,
             AssignedStep, SuggestStep, AbsenceStep, SwapStep, SwapDyingStep,
             BlackoutAloneStep, RowsAloneStep
    <2> QED
      BY <1>0, <1>2, <2>1, SeatKept DEF SInv
  <1>3. ASSUME service = "rate" PROVE Rate!IInv'
    <2>1. [Rate!Next]_(Rate!vars)
      BY <1>3 DEF Next, vars, Rate!vars, QueueStep, SeatStep, RateStep,
             BlackoutStep, RowsStep, BackupStep, MirrorStep, SettingsStep,
             AssignedStep, SuggestStep, AbsenceStep, SwapStep, SwapDyingStep,
             BlackoutAloneStep, RowsAloneStep
    <2> QED
      BY <1>0, <1>3, <2>1, RateKept DEF SInv
  <1>4. ASSUME service = "blackouts" PROVE Blackout(Request)!IInv'
    <2>1. [Blackout(Request)!Next]_(Blackout(Request)!vars)
      BY <1>4 DEF Next, vars, Blackout!vars, QueueStep, SeatStep, RateStep,
             BlackoutStep, RowsStep, BackupStep, MirrorStep, SettingsStep,
             AssignedStep, SuggestStep, AbsenceStep, SwapStep, SwapDyingStep,
             BlackoutAloneStep, RowsAloneStep
    <2> QED
      BY <1>0, <1>4, <2>1, BlackoutKept DEF SInv
  <1>5. ASSUME service = "conflicts" PROVE Rows(Request, FewRows)!IInv'
    <2>1. [Rows(Request, FewRows)!Next]_(Rows(Request, FewRows)!vars)
      BY <1>5 DEF Next, vars, Rows!vars, QueueStep, SeatStep, RateStep,
             BlackoutStep, RowsStep, BackupStep, MirrorStep, SettingsStep,
             AssignedStep, SuggestStep, AbsenceStep, SwapStep, SwapDyingStep,
             BlackoutAloneStep, RowsAloneStep
    <2> QED
      BY <1>0, <1>5, <2>1, RowsKept DEF SInv
  <1>6. ASSUME service = "backup" PROVE Backup!IInv'
    <2>1. [Backup!Next]_(Backup!vars)
      BY <1>6 DEF Next, vars, Backup!vars, QueueStep, SeatStep, RateStep,
             BlackoutStep, RowsStep, BackupStep, MirrorStep, SettingsStep,
             AssignedStep, SuggestStep, AbsenceStep, SwapStep, SwapDyingStep,
             BlackoutAloneStep, RowsAloneStep
    <2> QED
      BY <1>0, <1>6, <2>1, BackupKept DEF SInv
  <1>7. ASSUME service = "mirror" PROVE Mirror!IInv'
    <2>1. [Mirror!Next]_(Mirror!vars)
      BY <1>7 DEF Next, vars, Mirror!vars, QueueStep, SeatStep, RateStep,
             BlackoutStep, RowsStep, BackupStep, MirrorStep, SettingsStep,
             AssignedStep, SuggestStep, AbsenceStep, SwapStep, SwapDyingStep,
             BlackoutAloneStep, RowsAloneStep
    <2> QED
      BY <1>0, <1>7, <2>1, MirrorKept DEF SInv
  <1>8. ASSUME service = "settings" PROVE Settings!IInv'
    <2>1. [Settings!Next]_(Settings!vars)
      BY <1>8 DEF Next, vars, Settings!vars, QueueStep, SeatStep, RateStep,
             BlackoutStep, RowsStep, BackupStep, MirrorStep, SettingsStep,
             AssignedStep, SuggestStep, AbsenceStep, SwapStep, SwapDyingStep,
             BlackoutAloneStep, RowsAloneStep
    <2> QED
      BY <1>0, <1>8, <2>1, SettingsKept DEF SInv
  <1>9. ASSUME service = "patterns" PROVE Assigned!IInv'
    <2>1. [Assigned!Next]_(Assigned!vars)
      BY <1>9 DEF Next, vars, Assigned!vars, QueueStep, SeatStep, RateStep,
             BlackoutStep, RowsStep, BackupStep, MirrorStep, SettingsStep,
             AssignedStep, SuggestStep, AbsenceStep, SwapStep, SwapDyingStep,
             BlackoutAloneStep, RowsAloneStep
    <2> QED
      BY <1>0, <1>9, <2>1, AssignedKept DEF SInv
  <1>10. ASSUME service = "suggest" PROVE Suggest!IInv'
    <2>1. [Suggest!Next]_(Suggest!vars)
      BY <1>10 DEF Next, vars, Suggest!vars, QueueStep, SeatStep, RateStep,
             BlackoutStep, RowsStep, BackupStep, MirrorStep, SettingsStep,
             AssignedStep, SuggestStep, AbsenceStep, SwapStep, SwapDyingStep,
             BlackoutAloneStep, RowsAloneStep
    <2> QED
      BY <1>0, <1>10, <2>1, SuggestKept DEF SInv
  <1>11. ASSUME service = "absences" PROVE Absence!IInv'
    <2>1. [Absence!Next]_(Absence!vars)
      BY <1>11 DEF Next, vars, Absence!vars, QueueStep, SeatStep, RateStep,
             BlackoutStep, RowsStep, BackupStep, MirrorStep, SettingsStep,
             AssignedStep, SuggestStep, AbsenceStep, SwapStep, SwapDyingStep,
             BlackoutAloneStep, RowsAloneStep
    <2> QED
      BY <1>0, <1>11, <2>1, AbsenceKept DEF SInv
  <1> QED
    BY <1>0, <1>1, <1>2, <1>3, <1>4, <1>5, <1>6, <1>7, <1>8, <1>9, <1>10, <1>11 DEF SInv

LEMMA PlannerStart == OnePlanner /\ Init => PInv
  <1> SUFFICES ASSUME OnePlanner, Init PROVE PInv
    OBVIOUS
  <1>1. service = "swap" => SwapProved!IInv
    BY SwapStart DEF Init
  <1>2. service = "swap dying" => DyingProved!IInv
    BY SwapDyingStart DEF Init
  <1>3. service = "blackouts alone" => Blackout(Planner)!AloneInv
    BY BlackoutAloneStart DEF Init
  <1>4. service = "conflicts alone" => Rows(Planner, MaxRows)!AloneInv
    BY RowsAloneStart DEF Init
  <1> QED
    BY <1>1, <1>2, <1>3, <1>4 DEF PInv

LEMMA PlannerKept == OnePlanner /\ PInv /\ [Next]_vars => PInv'
  <1> SUFFICES ASSUME OnePlanner, PInv, [Next]_vars PROVE PInv'
    OBVIOUS
  <1>0. /\ service' = service
        /\ None \notin Planner /\ "stale" \notin Planner
        /\ \A p, q \in Planner : p = q
    BY ServicesAssumption
       DEF OnePlanner, Next, vars, QueueStep, SeatStep, RateStep,
           BlackoutStep, RowsStep, BackupStep, MirrorStep, SettingsStep,
           AssignedStep, SuggestStep, AbsenceStep, SwapStep, SwapDyingStep,
           BlackoutAloneStep, RowsAloneStep
  <1>1. ASSUME service = "swap" PROVE SwapProved!IInv'
    <2>1. [Swap!Next]_(Swap!vars)
      BY <1>1 DEF Next, vars, Swap!vars, QueueStep, SeatStep, RateStep,
             BlackoutStep, RowsStep, BackupStep, MirrorStep, SettingsStep,
             AssignedStep, SuggestStep, AbsenceStep, SwapStep, SwapDyingStep,
             BlackoutAloneStep, RowsAloneStep
    <2> QED
      BY <1>0, <1>1, <2>1, SwapKept DEF PInv
  <1>2. ASSUME service = "swap dying" PROVE DyingProved!IInv'
    <2>1. [SwapDying!Next]_(SwapDying!vars)
      BY <1>2 DEF Next, vars, SwapDying!vars, QueueStep, SeatStep, RateStep,
             BlackoutStep, RowsStep, BackupStep, MirrorStep, SettingsStep,
             AssignedStep, SuggestStep, AbsenceStep, SwapStep, SwapDyingStep,
             BlackoutAloneStep, RowsAloneStep
    <2> QED
      BY <1>0, <1>2, <2>1, SwapDyingKept DEF PInv
  <1>3. ASSUME service = "blackouts alone" PROVE Blackout(Planner)!AloneInv'
    <2>1. [Blackout(Planner)!Next]_(Blackout(Planner)!vars)
      BY <1>3 DEF Next, vars, Blackout!vars, QueueStep, SeatStep, RateStep,
             BlackoutStep, RowsStep, BackupStep, MirrorStep, SettingsStep,
             AssignedStep, SuggestStep, AbsenceStep, SwapStep, SwapDyingStep,
             BlackoutAloneStep, RowsAloneStep
    <2> QED
      BY <1>0, <1>3, <2>1, BlackoutAloneKept DEF PInv
  <1>4. ASSUME service = "conflicts alone" PROVE Rows(Planner, MaxRows)!AloneInv'
    <2>1. [Rows(Planner, MaxRows)!Next]_(Rows(Planner, MaxRows)!vars)
      BY <1>4 DEF Next, vars, Rows!vars, QueueStep, SeatStep, RateStep,
             BlackoutStep, RowsStep, BackupStep, MirrorStep, SettingsStep,
             AssignedStep, SuggestStep, AbsenceStep, SwapStep, SwapDyingStep,
             BlackoutAloneStep, RowsAloneStep
    <2> QED
      BY <1>0, <1>4, <2>1, RowsAloneKept DEF PInv
  <1> QED
    BY <1>0, <1>1, <1>2, <1>3, <1>4 DEF PInv

\* What was sent once was notified once.
LEMMA NotifiedByIInv == Queue!IInv => Queue!NotifiedOnce
  <1> SUFFICES ASSUME Queue!IInv PROVE Queue!NotifiedOnce
    OBVIOUS
  <1>1. Queue!TypeOK /\ Queue!Attempted /\ Queue!Once
    BY DEF Queue!IInv
  <1>2. MaxAttempts \in Nat
    BY ServicesAssumption
  <1>3. \A i \in 1 .. MaxRows : r6[i] \in Nat /\ Queue!Sent(i) \in {r6[i], r6[i] + 1}
    BY <1>1 DEF Queue!TypeOK, Queue!Sent
  <1> QED
    BY <1>1, <1>2, <1>3 DEF Queue!Attempted, Queue!Once, Queue!NotifiedOnce

LEMMA SpecSInv == Spec => []SInv
  BY ServicesStart, ServicesKept, PTL DEF Spec

LEMMA SpecPInv == OnePlanner => (Spec => []PInv)
  <1> SUFFICES ASSUME OnePlanner PROVE Spec => []PInv
    OBVIOUS
  <1>1. Init => PInv
    BY PlannerStart
  <1>2. PInv /\ [Next]_vars => PInv'
    BY PlannerKept
  <1> QED
    BY <1>1, <1>2, PTL DEF Spec

(***************************************************************************)
(* However requests, drains, expiries and deaths interleave, a user's queue *)
(* of notifications held back (PushQuietHoursService::enqueue, which counts *)
(* before it inserts) passes its limit by less than the requests there are, *)
(* no more users hold a seat than the licence ever allowed (LicenseService, *)
(* under the lock of the seats), and no window of a rate limit takes in     *)
(* more calls than it may (ApiRateLimitService::assertAllowed).             *)
(***************************************************************************)
THEOREM LimitsAreKept == Spec => []LimitsKept
  <1>1. SInv => LimitsKept
    <2> SUFFICES ASSUME SInv PROVE LimitsKept
      OBVIOUS
    <2>1. service = "queue" => Queue!QueueBounded
      <3> SUFFICES ASSUME service = "queue" PROVE Queue!QueueBounded
        OBVIOUS
      <3>1. Queue!TypeOK /\ Queue!Counted
        BY DEF SInv, Queue!IInv
      <3> QED
        BY <3>1, QueueCounts, QueueSets, ServicesAssumption
           DEF Queue!Counted, Queue!QueueBounded
    <2>2. service = "seats" => Seat!SeatsLicensed
      BY DEF SInv, Seat!IInv
    <2>3. service = "rate" => Rate!WindowKept
      BY DEF SInv, Rate!IInv
    <2> QED
      BY <2>1, <2>2, <2>3 DEF LimitsKept
  <1> QED
    BY <1>1, SpecSInv, PTL

(***************************************************************************)
(* What must happen once happens once. However requests interleave: a       *)
(* notification goes out once unless a drain died, then at most once an     *)
(* attempt (deliverRow of PushQuietHoursService, which counts the attempt   *)
(* before it notifies and stamps the row after); one planner's              *)
(* acknowledgement of a conflict stands (acknowledgeConflict's conditional  *)
(* UPDATE); an employee's day has one pattern and is filled from it once    *)
(* (the locks of RotationPatternService and RotationSuggestService); an     *)
(* absence is decided once and a day approved once. With one planner, an    *)
(* assignment has one open swap and a swap is applied once (SwapService).   *)
(***************************************************************************)
THEOREM EachIsDoneOnce == OnePlanner => (Spec => []DoneOnce)
  <1>1. SInv /\ PInv => DoneOnce
    <2> SUFFICES ASSUME SInv, PInv PROVE DoneOnce
      OBVIOUS
    <2>1. service = "swap" => Swap!OneOpenSwap /\ Swap!AppliedOnce
      BY SwapOnce DEF PInv
    <2>2. service = "swap dying" => SwapDying!OneOpenSwap /\ SwapDying!AppliedOnce
      BY SwapDyingOnce DEF PInv
    <2>3. service = "queue" => Queue!NotifiedOnce
      BY NotifiedByIInv DEF SInv
    <2>4. service = "conflicts" => Rows(Request, FewRows)!OneAcknowledges
      BY DEF SInv, Rows!IInv
    <2>5. service = "patterns" => Assigned!OnePatternADay
      BY DEF SInv, Assigned!IInv
    <2>6. service = "suggest" => Suggest!FilledOnce
      BY DEF SInv, Suggest!IInv
    <2>7. service = "absences" => Absence!DecidedOnce /\ Absence!ApprovedApart
      BY DEF SInv, Absence!IInv
    <2> QED
      BY <2>1, <2>2, <2>3, <2>4, <2>5, <2>6, <2>7 DEF DoneOnce
  <1> QED
    BY <1>1, SpecSInv, SpecPInv, PTL

(***************************************************************************)
(* Nothing accepted is lost. However requests interleave, fail or die: no   *)
(* hour of a blackout is dropped by a merge and no two blackouts touch      *)
(* (mergeOverlapping); settings keep what another's patch did not name      *)
(* (SelfServiceSettingsService); what a restoration overwrites is in a      *)
(* snapshot (UpgradeBackupService). With one planner, an override names a   *)
(* blackout that is there (recordOverride, nullOverrideBlackoutRefs).       *)
(***************************************************************************)
THEOREM NothingIsLost == OnePlanner => (Spec => []NothingLost)
  <1>1. SInv /\ PInv => NothingLost
    BY DEF SInv, PInv, NothingLost, Blackout!IInv, Blackout!AloneInv, Settings!IInv,
       Backup!IInv
  <1> QED
    BY <1>1, SpecSInv, SpecPInv, PTL

(***************************************************************************)
(* What is stored for something else is true to it. However requests        *)
(* interleave: the mirror of absences is as recent as it says               *)
(* (ArbeitszeitCheckIntegrationService), restored data is the snapshot that *)
(* was asked for (UpgradeBackupService), and a confirmed preview is what is *)
(* written (RotationSuggestService). With one planner, the stored conflicts *)
(* are those of the roster (materializeConflicts).                          *)
(***************************************************************************)
THEOREM CopiesAreTrue == OnePlanner => (Spec => []CopiesTrue)
  <1>1. SInv /\ PInv => CopiesTrue
    <2> SUFFICES ASSUME SInv, PInv PROVE CopiesTrue
      OBVIOUS
    <2>1. service = "conflicts alone" => Rows(Planner, MaxRows)!RowsAreTrue
      <3> SUFFICES ASSUME service = "conflicts alone" PROVE Rows(Planner, MaxRows)!RowsAreTrue
        OBVIOUS
      <3>1. Rows(Planner, MaxRows)!OneRow /\ Rows(Planner, MaxRows)!Truth
        BY DEF PInv, Rows!AloneInv
      <3> QED
        <4> SUFFICES ASSUME \A p \in Planner : r4[p] = Rows(Planner, MaxRows)!Idle, ~r3
                     PROVE  \A c \in Conflict :
                              IF r1[c] = None
                              THEN Rows(Planner, MaxRows)!Unresolved(c) = {}
                              ELSE /\ Rows(Planner, MaxRows)!Shown(c) = {r1[c]}
                                   /\ \A i, j \in Rows(Planner, MaxRows)!Unresolved(c) : i = j
          BY DEF Rows!RowsAreTrue
        <4>1. Rows(Planner, MaxRows)!Settled
          <5>1. Rows(Planner, MaxRows)!Idle.at = "idle"
            BY DEF Rows!Idle
          <5>2. \A p \in Planner : r4[p].at = "idle"
            BY <5>1
          <5> QED
            BY <5>2 DEF Rows!Settled
        <4>2. \A c \in Conflict : IF r1[c] = None
                                 THEN Rows(Planner, MaxRows)!Unresolved(c) = {}
                                 ELSE Rows(Planner, MaxRows)!Shown(c) = {r1[c]}
          BY <3>1, <4>1 DEF Rows!Truth
        <4>3. \A c \in Conflict : \A i, j \in Rows(Planner, MaxRows)!Unresolved(c) : i = j
          BY <3>1 DEF Rows!OneRow
        <4> QED
          BY <4>2, <4>3
    <2>2. service = "mirror" => Mirror!AsRecentAsSaid
      BY DEF SInv, Mirror!IInv
    <2>3. service = "backup" => Backup!RestoredAsAsked
      BY DEF SInv, Backup!IInv
    <2>4. service = "suggest" => Suggest!PlanKept
      BY DEF SInv, Suggest!IInv
    <2> QED
      BY <2>1, <2>2, <2>3, <2>4 DEF CopiesTrue
  <1> QED
    BY <1>1, SpecSInv, SpecPInv, PTL
===============================================================================
