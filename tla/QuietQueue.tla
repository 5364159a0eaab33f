------------------------------ MODULE QuietQueue ------------------------------
(***************************************************************************)
(* Notifications held back during a company's quiet hours                   *)
(* (PushQuietHoursService, PushQuietQueueDrainJob) for one user.  Requests  *)
(* queue them, the cron job delivers what is due.  Time counts half days:   *)
(* nights are quiet and odd.                                               *)
(***************************************************************************)
EXTENDS Naturals, FiniteSets, FiniteSetsExt

CONSTANTS
  Sender,
  Message,
  None,
  MaxPending,   \* MAX_PENDING_PER_USER
  MaxAttempts,  \* MAX_DELIVER_ATTEMPTS
  MaxRows,      \* bound: rows ever queued
  MaxTime       \* bound on the clock

VARIABLES
  now,
  queue,      \* dc_push_quiet_queue, for one user
  lastId,
  sender,     \* what a request has decided and read
  drain,      \* the job: the rows it read and has still to deliver
  notified,   \* history: how often each row was notified
  died        \* history: a drain has died

vars == <<now, queue, lastId, sender, drain, notified, died>>

Pending == {q \in queue : ~q.delivered}

\* Wherever a request fails or is done.
Idle == [at |-> "idle", msg |-> None, oldest |-> None]
NoDrain == [at |-> "idle", batch |-> {}, row |-> None]

Init ==
  /\ now = 1
  /\ queue = {} /\ lastId = 0
  /\ sender = [s \in Sender |-> Idle] /\ drain = NoDrain
  /\ notified = [i \in 1..MaxRows |-> 0]
  /\ died = FALSE

Goto(s, state) == sender' = [sender EXCEPT ![s] = state]

-------------------------------------------------------------------------------
(* enqueue.                                                                *)

\* Off by one.
Full_Bug == Cardinality(Pending) > MaxPending

Full == Cardinality(Pending) >= MaxPending

\* shouldDefer, at night; then the pending rows are counted.  At the limit the
\* oldest is looked for.
Enqueue(s) ==
  /\ sender[s] = Idle
  /\ now % 2 = 1
  /\ \E msg \in Message :
       Goto(s, IF Full
               THEN [at |-> "shed", msg |-> msg, oldest |-> Min({q.id : q \in Pending})]
               ELSE [at |-> "insert", msg |-> msg, oldest |-> None])
  /\ UNCHANGED <<now, queue, lastId, drain, notified, died>>

\* It may be gone or delivered by now: then the message is given up.
ShedOldest(s) ==
  /\ sender[s].at = "shed"
  /\ LET shed == {q \in Pending : q.id = sender[s].oldest}
     IN /\ queue' = queue \ shed
        /\ Goto(s, IF shed = {} THEN Idle ELSE [sender[s] EXCEPT !.at = "insert"])
  /\ UNCHANGED <<now, lastId, drain, notified, died>>

\* nextQuietEnd: of this night, or of the next one when the day has begun.
NextQuietEnd == IF now % 2 = 1 THEN now + 1 ELSE now + 2

\* The unique index on the message refuses a second row, and so do the rows
\* already delivered; the request takes either for queued.
Insert(s) ==
  /\ sender[s].at = "insert"
  /\ IF \E q \in queue : q.msg = sender[s].msg
     THEN UNCHANGED <<queue, lastId>>
     ELSE /\ lastId < MaxRows
          /\ lastId' = lastId + 1
          /\ queue' = queue \cup
               {[id |-> lastId + 1, msg |-> sender[s].msg, due |-> NextQuietEnd,
                 attempts |-> 0, delivered |-> FALSE]}
  /\ Goto(s, Idle)
  /\ UNCHANGED <<now, drain, notified, died>>

-------------------------------------------------------------------------------
(* drainDue.                                                               *)

\* expireStale, a day after a row was due, and the due rows, in their order.
Drain ==
  /\ drain = NoDrain
  /\ LET kept == {q \in queue : q.due + 2 > now}
     IN /\ queue' = kept
        /\ drain' = [NoDrain EXCEPT !.at = "next",
                       !.batch = {q \in kept : ~q.delivered /\ q.due <= now}]
  /\ UNCHANGED <<now, lastId, sender, notified, died>>

\* Rows are taken as they were read.
First(rows) ==
  CHOOSE q \in rows : \A p \in rows : q.due < p.due \/ (q.due = p.due /\ q.id <= p.id)

Drained ==
  /\ drain.at = "next" /\ drain.batch = {}
  /\ drain' = NoDrain
  /\ UNCHANGED <<now, queue, lastId, sender, notified, died>>

\* The row in the table, whatever it was when read.
Row(id) == {q \in queue : q.id = id}

Stamped(q) == (queue \ {q}) \cup {[q EXCEPT !.delivered = TRUE]}

Attempt(q) == (queue \ {q}) \cup {[q EXCEPT !.attempts = @ + 1]}

\* The UPDATE of the attempts, by compare-and-set.
Claim(r) == {q \in Row(r.id) : ~q.delivered /\ q.attempts = r.attempts}

\* deliverRow, up to the notification: a row tried too often is given up, one
\* for a user who is no active employee any more is deleted.
DeliverRow ==
  /\ drain.at = "next" /\ drain.batch # {}
  /\ LET r    == First(drain.batch)
         rest == [drain EXCEPT !.batch = @ \ {r}]
     IN \/ /\ r.attempts >= MaxAttempts
           /\ queue' = {IF q.id = r.id THEN [q EXCEPT !.delivered = TRUE] ELSE q : q \in queue}
           /\ drain' = rest
        \/ /\ r.attempts < MaxAttempts
           /\ queue' = queue \ Row(r.id)
           /\ drain' = rest
        \/ /\ r.attempts < MaxAttempts
           /\ IF Claim(r) = {} THEN queue' = queue /\ drain' = rest
              ELSE /\ \E q \in Claim(r) : queue' = Attempt(q)
                   /\ drain' = [rest EXCEPT !.at = "notify", !.row = r.id]
  /\ UNCHANGED <<now, lastId, sender, notified, died>>

\* The notification fails, or it goes out and is then stamped.
Notify ==
  /\ drain.at = "notify"
  /\ \/ /\ notified' = [notified EXCEPT ![drain.row] = @ + 1]
        /\ drain' = [drain EXCEPT !.at = "stamp"]
     \/ /\ drain' = [drain EXCEPT !.at = "next", !.row = None]
        /\ UNCHANGED notified
  /\ UNCHANGED <<now, queue, lastId, sender, died>>

\* Without the stamp.
Stamp_Bug ==
  /\ drain.at = "stamp"
  /\ drain' = [drain EXCEPT !.at = "next", !.row = None]
  /\ UNCHANGED <<now, queue, lastId, sender, notified, died>>

Stamp ==
  /\ drain.at = "stamp"
  /\ queue' = {IF q.id = drain.row THEN [q EXCEPT !.delivered = TRUE] ELSE q : q \in queue}
  /\ drain' = [drain EXCEPT !.at = "next", !.row = None]
  /\ UNCHANGED <<now, lastId, sender, notified, died>>

-------------------------------------------------------------------------------
(* The environment.                                                        *)

DrainDies ==
  /\ drain # NoDrain
  /\ drain' = NoDrain
  /\ died' = TRUE
  /\ UNCHANGED <<now, queue, lastId, sender, notified>>

Tick ==
  /\ now < MaxTime
  /\ now' = now + 1
  /\ UNCHANGED <<queue, lastId, sender, drain, notified, died>>

Next ==
  \/ \E s \in Sender : Enqueue(s) \/ ShedOldest(s) \/ Insert(s)
  \/ Drain \/ DeliverRow \/ Notify \/ Stamp \/ Drained
  \/ DrainDies \/ Tick

Spec == Init /\ [][Next]_vars

-------------------------------------------------------------------------------
(* Properties.                                                             *)

\* The queue of a user passes its limit only by requests that counted it
\* together: by one less than there are (MAX_PENDING_PER_USER).
QueueBounded == Cardinality(Pending) < MaxPending + Cardinality(Sender)

\* A row is notified once, or once per attempt when drains die on the way;
\* never after it was given up.
NotifiedOnce ==
  \A i \in 1..MaxRows :
    /\ notified[i] <= MaxAttempts
    /\ ~died => notified[i] <= 1

-------------------------------------------------------------------------------
(* What is known at any time, for the proof.                               *)

QueueRow ==
  [id : 1..MaxRows, msg : Message, due : Nat, attempts : 0..MaxAttempts, delivered : BOOLEAN]

TypeOK ==
  /\ now \in Nat /\ lastId \in 0..MaxRows
  /\ queue \subseteq QueueRow /\ IsFiniteSet(queue)
  /\ sender \in [Sender -> [at : {"idle", "shed", "insert"}, msg : Message \cup {None},
                            oldest : Nat \cup {None}]]
  /\ \A s \in Sender : sender[s].at # "idle" => sender[s].msg \in Message
  /\ drain \in [at : {"idle", "next", "notify", "stamp"}, batch : SUBSET QueueRow,
                row : Nat \cup {None}]
  /\ drain.at \in {"notify", "stamp"} => drain.row \in 1..lastId
  /\ notified \in [1..MaxRows -> Nat]

IdsUnique ==
  /\ \A q \in queue : q.id <= lastId
  /\ \A p, q \in queue : p.id = q.id => p = q

\* A request that has found room takes it up in advance.
Inserting == {s \in Sender : sender[s].at = "insert"}

Counted == Cardinality(Pending) + Cardinality(Inserting) < MaxPending + Cardinality(Sender)

\* Notifications that went out, or are about to.
Sent(i) == notified[i] + IF drain.at = "notify" /\ drain.row = i THEN 1 ELSE 0

Attempted ==
  /\ \A i \in 1..MaxRows : Sent(i) <= MaxAttempts /\ (i > lastId => Sent(i) = 0)
  /\ \A q \in queue : Sent(q.id) <= q.attempts

\* What is not stamped has not gone out, while no drain has died.
Once ==
  ~died =>
    /\ \A i \in 1..MaxRows : Sent(i) <= 1
    /\ \A q \in Pending :
         Sent(q.id) = 0 \/ (drain.at \in {"notify", "stamp"} /\ drain.row = q.id)

IInv == TypeOK /\ IdsUnique /\ Counted /\ Attempted /\ Once
===============================================================================
