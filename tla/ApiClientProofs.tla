--------------------------- MODULE ApiClientProofs ----------------------------
(***************************************************************************)
(* Proofs about ApiClient for any number of calls.  CallInv says, for each *)
(* place request() can be at, whether its write may have reached the       *)
(* server: until a fetch is made and after a refused token it has not, and *)
(* what is still on the wire has not been carried out.                     *)
(***************************************************************************)
EXTENDS ApiClient, TLAPS

Unsent == {"idle", "tokenless", "loop", "retoken"}
TurnedAway == {"CSRF_FAILED", "MISSING_CSRF", "SESSION_EXPIRED", "refused"}

CallInv(c) ==
  /\ pc[c] \in Unsent => /\ wire[c] = "none" /\ reply[c] = "none"
                         /\ applied[c] = 0 /\ attempt[c] <= 1
  /\ pc[c] \in {"idle", "tokenless"} => attempt[c] = 0
  /\ pc[c] = "body" => reply[c] # "none"
  /\ pc[c] = "done" => reply[c] = "none"
  /\ pc[c] # "done" => outcome[c] = "none"
  /\ reply[c] # "none" => wire[c] = "none"
  /\ wire[c] # "none" => applied[c] = 0
  /\ applied[c] <= 1
  /\ kind[c] = "read" => applied[c] = 0
  /\ kind[c] = "write" =>
       /\ reply[c] \in {"data", "garbled"} => applied[c] = 1
       /\ reply[c] \in {"refused", "csrf", "login", "html"} => applied[c] = 0
       /\ outcome[c] = "data" => applied[c] = 1
       /\ outcome[c] \in TurnedAway => applied[c] = 0 /\ wire[c] = "none"
  /\ outcome[c] = "NETWORK_ERROR" => ~cut[c]

IInv == TypeOK /\ \A c \in Call : CallInv(c)

-------------------------------------------------------------------------------
\* Nothing has been sent when the page opens.
LEMMA InitInv == Init => IInv
<1> SUFFICES ASSUME Init PROVE IInv
  OBVIOUS
<1>1. TypeOK
  <2>1. pageToken \in Token \cup {"none"} /\ leaving \in BOOLEAN
    BY DEF Init
  <2>2. kind \in [Call -> {"read", "write"}]
    BY DEF Init
  <2>3. cut \in [Call -> BOOLEAN]
    BY DEF Init
  <2>4. /\ pc \in [Call -> Waiting \cup {"idle", "done"}]
        /\ token \in [Call -> Token \cup {"none"}]
        /\ wire \in [Call -> Token \cup {"none"}]
        /\ reply \in [Call -> Reply \cup {"none"}]
        /\ outcome \in [Call -> Outcome \cup {"none"}]
    BY DEF Init
  <2>5. attempt \in [Call -> 0..2] /\ applied \in [Call -> Nat]
    BY DEF Init
  <2>6. QED
    BY <2>1, <2>2, <2>3, <2>4, <2>5 DEF TypeOK
<1>2. ASSUME NEW c \in Call PROVE CallInv(c)
  BY DEF Init, CallInv, Unsent, TurnedAway
<1>3. QED
  BY <1>1, <1>2 DEF IInv

\* What the page and the session do to the calls.
LEMMA PageStep ==
  ASSUME IInv,
         MarkPageUnloading \/ ResetPageLifecycle \/ Rotate
           \/ (\E c \in Call : CallerAborts(c))
  PROVE  IInv'
<1> USE DEF IInv, TypeOK, Token, Waiting, Reply, Outcome, callVars
<1>1. CASE MarkPageUnloading
  <2>1. TypeOK'
    BY <1>1 DEF MarkPageUnloading, Pending
  <2>2. ASSUME NEW c \in Call PROVE CallInv(c)'
    BY <1>1 DEF MarkPageUnloading, Pending, CallInv, Unsent, TurnedAway
  <2>3. QED
    BY <2>1, <2>2
<1>2. CASE ResetPageLifecycle
  BY <1>2 DEF ResetPageLifecycle, CallInv, Unsent, TurnedAway
<1>3. CASE Rotate
  <2>1. TypeOK'
    BY <1>3 DEF Rotate, Aged
  <2>2. ASSUME NEW c \in Call PROVE CallInv(c)'
    BY <1>3 DEF Rotate, Aged, CallInv, Unsent, TurnedAway
  <2>3. QED
    BY <2>1, <2>2
<1>4. ASSUME NEW c \in Call, CallerAborts(c) PROVE IInv'
  <2>1. TypeOK'
    BY <1>4 DEF CallerAborts, Pending
  <2>2. ASSUME NEW d \in Call PROVE CallInv(d)'
    BY <1>4 DEF CallerAborts, Pending, CallInv, Unsent, TurnedAway
  <2>3. QED
    BY <2>1, <2>2
<1>5. QED
  BY <1>1, <1>2, <1>3, <1>4

\* What request() does up to the fetch.
LEMMA SendStep ==
  ASSUME IInv, NEW c \in Call,
         Request(c) \/ Refreshed(c) \/ RefreshFails(c) \/ Send(c)
  PROVE  IInv'
<1> USE DEF IInv, TypeOK, Token, Waiting, Reply, Outcome
<1>1. CASE Request(c)
  <2>1. TypeOK'
    BY <1>1 DEF Request, Goto
  <2>2. ASSUME NEW d \in Call PROVE CallInv(d)'
    BY <1>1 DEF Request, Goto, CallInv, Unsent, TurnedAway
  <2>3. QED
    BY <2>1, <2>2
<1>2. CASE Refreshed(c)
  <2>1. TypeOK'
    BY <1>2 DEF Refreshed, Goto
  <2>2. ASSUME NEW d \in Call PROVE CallInv(d)'
    BY <1>2 DEF Refreshed, Goto, CallInv, Unsent, TurnedAway
  <2>3. QED
    BY <2>1, <2>2
<1>3. CASE RefreshFails(c)
  <2>1. TypeOK'
    BY <1>3 DEF RefreshFails, Settle
  <2>2. ASSUME NEW d \in Call PROVE CallInv(d)'
    BY <1>3 DEF RefreshFails, Settle, CallInv, Unsent, TurnedAway
  <2>3. QED
    BY <2>1, <2>2
<1>4. CASE Send(c)
  <2>1. TypeOK'
    BY <1>4 DEF Send, Settle, Goto, CallInv, Unsent
  <2>2. ASSUME NEW d \in Call PROVE CallInv(d)'
    BY <1>4 DEF Send, Settle, Goto, CallInv, Unsent, TurnedAway
  <2>3. QED
    BY <2>1, <2>2
<1>5. QED
  BY <1>1, <1>2, <1>3, <1>4

\* What request() does with the answer, and what it does without one.
LEMMA ReceiveStep ==
  ASSUME IInv, NEW c \in Call,
         FetchFails(c) \/ Responded(c) \/ BodyRead(c) \/ BodyFails(c)
  PROVE  IInv'
<1> USE DEF IInv, TypeOK, Token, Waiting, Reply, Outcome
<1>1. CASE FetchFails(c)
  <2>1. TypeOK'
    BY <1>1 DEF FetchFails, Settle, ClassifyFetchFailure
  <2>2. ASSUME NEW d \in Call PROVE CallInv(d)'
    BY <1>1 DEF FetchFails, Settle, ClassifyFetchFailure, CallInv, Unsent, TurnedAway
  <2>3. QED
    BY <2>1, <2>2
<1>2. CASE Responded(c)
  <2>1. TypeOK'
    BY <1>2 DEF Responded, Settle, Goto
  <2>2. ASSUME NEW d \in Call PROVE CallInv(d)'
    BY <1>2 DEF Responded, Settle, Goto, CallInv, Unsent, TurnedAway
  <2>3. QED
    BY <2>1, <2>2
<1>3. CASE BodyRead(c)
  <2>1. TypeOK'
    BY <1>3 DEF BodyRead, Settle, Goto, Verdict
  <2>2. ASSUME NEW d \in Call PROVE CallInv(d)'
    BY <1>3 DEF BodyRead, MaxAttempts, Settle, Goto, Verdict, CallInv, Unsent, TurnedAway
  <2>3. QED
    BY <2>1, <2>2
<1>4. CASE BodyFails(c)
  <2>1. TypeOK'
    BY <1>4 DEF BodyFails, Settle
  <2>2. ASSUME NEW d \in Call PROVE CallInv(d)'
    BY <1>4 DEF BodyFails, Settle, CallInv, Unsent, TurnedAway
  <2>3. QED
    BY <2>1, <2>2
<1>5. QED
  BY <1>1, <1>2, <1>3, <1>4

\* The server handles a request whether its caller waits or not.
LEMMA ServeStep ==
  ASSUME IInv, NEW c \in Call, Serve(c)
  PROVE  IInv'
<1> USE DEF IInv, TypeOK, Token, Waiting, Reply, Outcome, callVars
<1>1. PICK r \in Answers(c) :
         /\ reply' = [reply EXCEPT ![c] = IF pc[c] = "fetching" THEN r ELSE "none"]
         /\ applied' = IF kind[c] = "write" /\ r \in {"data", "garbled"}
                       THEN [applied EXCEPT ![c] = @ + 1] ELSE applied
  BY DEF Serve
<1>2. r \in Reply
  BY DEF Answers
<1>3. TypeOK'
  BY <1>1, <1>2 DEF Serve
<1>4. ASSUME NEW d \in Call PROVE CallInv(d)'
  BY <1>1, <1>2 DEF Serve, CallInv, Unsent, TurnedAway
<1>5. QED
  BY <1>3, <1>4

LEMMA NextInv == IInv /\ [Next]_vars => IInv'
<1> SUFFICES ASSUME IInv, [Next]_vars PROVE IInv'
  OBVIOUS
<1>1. CASE UNCHANGED vars
  BY <1>1 DEF IInv, TypeOK, CallInv, vars, callVars
<1>2. CASE Next
  BY <1>2, PageStep, SendStep, ReceiveStep, ServeStep DEF Next, Step
<1>3. QED
  BY <1>1, <1>2

THEOREM Inductive == Spec => []IInv
  BY InitInv, NextInv, PTL DEF Spec

-------------------------------------------------------------------------------
\* Every call is well typed, and none makes more than two fetches.
THEOREM TypeCorrect == Spec => []TypeOK
<1>1. IInv => TypeOK
  BY DEF IInv
<1>2. QED
  BY <1>1, Inductive, PTL

\* No write is carried out twice, for any number of calls, whatever is lost,
\* retried, cut or answered late.
THEOREM NeverAppliedTwice == Spec => []AppliedOnce
<1>1. IInv => AppliedOnce
  BY DEF IInv, CallInv, AppliedOnce
<1>2. QED
  BY <1>1, Inductive, PTL

\* What a caller is told of its write is what the server did.
THEOREM ToldTheTruth == Spec => []OutcomeIsTrue
<1>1. IInv => OutcomeIsTrue
  BY DEF IInv, CallInv, OutcomeIsTrue, TurnedAway
<1>2. QED
  BY <1>1, Inductive, PTL

\* A request cut by leaving the page never ends as a network error.
THEOREM LeavingIsQuiet == Spec => []LeavingIsNoNetworkError
<1>1. IInv => LeavingIsNoNetworkError
  BY DEF IInv, CallInv, LeavingIsNoNetworkError
<1>2. QED
  BY <1>1, Inductive, PTL
===============================================================================
