------------------------------ MODULE ApiClient -------------------------------
(***************************************************************************)
(* The JSON client every page goes through (common/api.js): tokens against *)
(* request forgery that expire under the page, one retry of a write that   *)
(* was refused for its token, and the requests that are cut when the user  *)
(* leaves the page, which the browser may bring back later.  The server is *)
(* what the client can see of it.                                          *)
(***************************************************************************)
EXTENDS Naturals

CONSTANTS
  Call  \* calls of request()

VARIABLES
  pageToken,  \* OC.requestToken: "none", "fresh" or "stale"
  leaving,    \* pageUnloading; the page's AbortController is aborted with it
  pc,         \* where request() of a call is
  kind,       \* "read" or "write"
  attempt,    \* fetches it has made
  cut,        \* the signal it was composed with has been aborted
  token,      \* the token it sends
  wire,       \* its request on the way to the server: "none" or the token in it
  reply,      \* the answer on the way back
  outcome,    \* what its caller got: data or the code of the error
  applied     \* how often the server carried its write out

callVars == <<pc, kind, attempt, cut, token, outcome>>
vars == <<pageToken, leaving, callVars, wire, reply, applied>>

Token   == {"fresh", "stale"}
Waiting == {"tokenless", "loop", "fetching", "body", "retoken"}
Reply   == {"data", "garbled", "refused", "csrf", "login", "html"}
Outcome == {"data", "INVALID_JSON", "refused", "CSRF_FAILED", "MISSING_CSRF",
            "SESSION_EXPIRED", "REQUEST_ABORTED", "NETWORK_ERROR"}

Init ==
  /\ pageToken \in Token \cup {"none"}
  /\ leaving = FALSE
  /\ pc = [c \in Call |-> "idle"]
  /\ kind \in [Call -> {"read", "write"}]
  /\ attempt = [c \in Call |-> 0]
  /\ cut = [c \in Call |-> FALSE]
  /\ token = [c \in Call |-> "none"]
  /\ wire = [c \in Call |-> "none"]
  /\ reply = [c \in Call |-> "none"]
  /\ outcome = [c \in Call |-> "none"]
  /\ applied = [c \in Call |-> 0]

-------------------------------------------------------------------------------
(* The page and the session.                                               *)

Pending(c) == pc[c] \in Waiting

\* pagehide or beforeunload; the user may still stay on the page after the
\* latter.  Requests composed their signal with the page's once they had a
\* token.
MarkPageUnloading ==
  /\ leaving' = TRUE
  /\ cut' = [c \in Call |-> cut[c] \/ (Pending(c) /\ pc[c] # "tokenless")]
  /\ UNCHANGED <<pageToken, pc, kind, attempt, token, outcome, wire, reply, applied>>

\* pageshow: the page is back and has a new AbortController.
ResetPageLifecycle ==
  /\ leaving' = FALSE
  /\ UNCHANGED <<pageToken, callVars, wire, reply, applied>>

\* The caller aborts through a signal of its own.
CallerAborts(c) ==
  /\ Pending(c)
  /\ cut' = [cut EXCEPT ![c] = TRUE]
  /\ UNCHANGED <<pageToken, leaving, pc, kind, attempt, token, outcome, wire, reply, applied>>

Aged(t) == IF t = "fresh" THEN "stale" ELSE t

\* Another tab signs in again: tokens handed out before are void.
Rotate ==
  /\ pageToken' = Aged(pageToken)
  /\ token' = [c \in Call |-> Aged(token[c])]
  /\ wire' = [c \in Call |-> Aged(wire[c])]
  /\ UNCHANGED <<leaving, pc, kind, attempt, cut, outcome, reply, applied>>

-------------------------------------------------------------------------------
(* request().                                                              *)

Settle(c, code) ==
  /\ pc' = [pc EXCEPT ![c] = "done"]
  /\ outcome' = [outcome EXCEPT ![c] = code]

Goto(c, where) ==
  /\ pc' = [pc EXCEPT ![c] = where]
  /\ UNCHANGED outcome

\* A write without a token asks for one before anything is sent, and before
\* the signal is composed.
Request(c) ==
  /\ pc[c] = "idle"
  /\ token' = [token EXCEPT ![c] = pageToken]
  /\ Goto(c, IF kind[c] = "write" /\ pageToken = "none" THEN "tokenless" ELSE "loop")
  /\ cut' = [cut EXCEPT ![c] = leaving /\ pc'[c] = "loop"]
  /\ UNCHANGED <<pageToken, leaving, kind, attempt, wire, reply, applied>>

\* refreshCsrfToken answers with a token, which may have aged on its way, or
\* fails; it is not cut with the page.
Refreshed(c) ==
  /\ pc[c] \in {"tokenless", "retoken"}
  /\ \E t \in Token : token' = [token EXCEPT ![c] = t] /\ pageToken' = t
  /\ cut' = [cut EXCEPT ![c] = @ \/ (leaving /\ pc[c] = "tokenless")]
  /\ Goto(c, "loop")
  /\ UNCHANGED <<leaving, kind, attempt, wire, reply, applied>>

RefreshFails(c) ==
  /\ pc[c] \in {"tokenless", "retoken"}
  /\ Settle(c, IF pc[c] = "tokenless" THEN "MISSING_CSRF" ELSE "CSRF_FAILED")
  /\ UNCHANGED <<pageToken, leaving, kind, attempt, cut, token, wire, reply, applied>>

\* Retries that are not counted.
Send_Bug(c) ==
  /\ pc[c] = "loop"
  /\ IF leaving \/ cut[c]
     THEN /\ Settle(c, "REQUEST_ABORTED")
          /\ UNCHANGED wire
     ELSE /\ Goto(c, "fetching")
          /\ wire' = [wire EXCEPT ![c] = IF token[c] = "none" THEN "stale" ELSE token[c]]
  /\ UNCHANGED <<pageToken, leaving, kind, attempt, cut, token, reply, applied>>

\* The head of the loop: nothing is sent for a page that is being left.
Send(c) ==
  /\ pc[c] = "loop"
  /\ IF leaving \/ cut[c]
     THEN /\ Settle(c, "REQUEST_ABORTED")
          /\ UNCHANGED <<attempt, wire>>
     ELSE /\ Goto(c, "fetching")
          /\ attempt' = [attempt EXCEPT ![c] = @ + 1]
          /\ wire' = [wire EXCEPT ![c] = IF token[c] = "none" THEN "stale" ELSE token[c]]
  /\ UNCHANGED <<pageToken, leaving, kind, cut, token, reply, applied>>

\* A browser that tears a page down may call its fetches failed, not aborted.
Cause(c) == IF leaving \/ cut[c] THEN {"AbortError", "TypeError"} ELSE {"TypeError"}

ClassifyFetchFailure_Bug(c, cause) ==
  IF leaving \/ cause = "AbortError" THEN "REQUEST_ABORTED" ELSE "NETWORK_ERROR"

ClassifyFetchFailure(c, cause) ==
  IF leaving \/ cut[c] \/ cause = "AbortError" THEN "REQUEST_ABORTED" ELSE "NETWORK_ERROR"

\* A failed write that is sent again.
FetchFails_Bug(c) ==
  /\ pc[c] = "fetching"
  /\ IF attempt[c] < 2 /\ ~cut[c] THEN Goto(c, "loop") ELSE Settle(c, "NETWORK_ERROR")
  /\ reply' = [reply EXCEPT ![c] = "none"]
  /\ UNCHANGED <<pageToken, leaving, kind, attempt, cut, token, wire, applied>>

\* The connection is lost, on the way there or back, or the fetch is aborted.
FetchFails(c) ==
  /\ pc[c] = "fetching"
  /\ \E cause \in Cause(c) : Settle(c, ClassifyFetchFailure(c, cause))
  /\ reply' = [reply EXCEPT ![c] = "none"]
  /\ UNCHANGED <<pageToken, leaving, kind, attempt, cut, token, wire, applied>>

\* The answer's head: a fetch that ended on the login page says so.
Responded(c) ==
  /\ pc[c] = "fetching"
  /\ ~cut[c]
  /\ reply[c] # "none"
  /\ IF reply[c] = "login"
     THEN Settle(c, "SESSION_EXPIRED") /\ reply' = [reply EXCEPT ![c] = "none"]
     ELSE Goto(c, "body") /\ UNCHANGED reply
  /\ UNCHANGED <<pageToken, leaving, kind, attempt, cut, token, wire, applied>>

\* Without the test of the content type a page of HTML passes for data.
Verdict_Bug(c) ==
  CASE reply[c] \in {"data", "html"} -> "data"
    [] reply[c] = "garbled" -> "INVALID_JSON"
    [] reply[c] = "csrf" -> "CSRF_FAILED"
    [] OTHER -> "refused"

\* What an answer that has been read comes to.
Verdict(c) ==
  CASE reply[c] = "data" -> "data"
    [] reply[c] = "html" -> IF kind[c] = "write" THEN "SESSION_EXPIRED" ELSE "data"
    [] reply[c] = "garbled" -> "INVALID_JSON"
    [] reply[c] = "csrf" -> "CSRF_FAILED"
    [] OTHER -> "refused"

MaxAttempts(c) == IF kind[c] = "write" THEN 2 ELSE 1

\* readBody and what follows it: only a refused token sends a write again.
BodyRead(c) ==
  /\ pc[c] = "body"
  /\ IF kind[c] = "write" /\ attempt[c] < MaxAttempts(c) /\ reply[c] = "csrf"
     THEN Goto(c, "retoken")
     ELSE Settle(c, Verdict(c))
  /\ reply' = [reply EXCEPT ![c] = "none"]
  /\ UNCHANGED <<pageToken, leaving, kind, attempt, cut, token, wire, applied>>

\* A body that cannot be read: cut, or not the JSON its head promised.
BodyFails(c) ==
  /\ pc[c] = "body"
  /\ IF leaving \/ cut[c] THEN Settle(c, "REQUEST_ABORTED")
     ELSE reply[c] \in {"data", "refused"} /\ Settle(c, "INVALID_JSON")
  /\ reply' = [reply EXCEPT ![c] = "none"]
  /\ UNCHANGED <<pageToken, leaving, kind, attempt, cut, token, wire, applied>>

-------------------------------------------------------------------------------
(* The server.  It handles what is on the wire even when nobody waits for  *)
(* the answer any more.                                                    *)

Answers(c) ==
  {"login", "html", "refused"} \cup
  (IF kind[c] = "write" /\ wire[c] = "stale" THEN {"csrf"} ELSE {"data", "garbled"})

Serve(c) ==
  /\ wire[c] # "none"
  /\ \E r \in Answers(c) :
       /\ reply' = [reply EXCEPT ![c] = IF pc[c] = "fetching" THEN r ELSE "none"]
       /\ applied' = IF kind[c] = "write" /\ r \in {"data", "garbled"}
                     THEN [applied EXCEPT ![c] = @ + 1] ELSE applied
  /\ wire' = [wire EXCEPT ![c] = "none"]
  /\ UNCHANGED <<pageToken, leaving, callVars>>

-------------------------------------------------------------------------------
Step(c) ==
  \/ Refreshed(c) \/ RefreshFails(c) \/ Send(c)
  \/ FetchFails(c) \/ Responded(c) \/ BodyRead(c) \/ BodyFails(c)

Next ==
  \/ MarkPageUnloading \/ ResetPageLifecycle \/ Rotate
  \/ \E c \in Call : CallerAborts(c) \/ Request(c) \/ Step(c) \/ Serve(c)

\* The browser settles every fetch in the end, with an answer or a failure,
\* and goes on with the code that waits for it.
Spec == Init /\ [][Next]_vars /\ \A c \in Call : WF_vars(Step(c))

-------------------------------------------------------------------------------
(* Properties.                                                             *)

TypeOK ==
  /\ pageToken \in Token \cup {"none"}
  /\ leaving \in BOOLEAN
  /\ pc \in [Call -> Waiting \cup {"idle", "done"}]
  /\ kind \in [Call -> {"read", "write"}]
  /\ attempt \in [Call -> 0..2]
  /\ cut \in [Call -> BOOLEAN]
  /\ token \in [Call -> Token \cup {"none"}]
  /\ wire \in [Call -> Token \cup {"none"}]
  /\ reply \in [Call -> Reply \cup {"none"}]
  /\ outcome \in [Call -> Outcome \cup {"none"}]
  /\ applied \in [Call -> Nat]

\* A write is carried out at most once, although request() sends it again
\* after a refused token and lost requests may still reach the server.
AppliedOnce == \A c \in Call : applied[c] <= 1

\* A write the caller is told succeeded was carried out, one it is told was
\* refused, or turned away with its token or its session, was not.
OutcomeIsTrue ==
  \A c \in Call : kind[c] = "write" =>
    /\ outcome[c] = "data" => applied[c] = 1
    /\ outcome[c] \in {"CSRF_FAILED", "MISSING_CSRF", "SESSION_EXPIRED", "refused"}
         => applied[c] = 0 /\ wire[c] = "none"

\* A request that was under way when the page was left never ends as a
\* network error, not even when it fails after the page was restored.
LeavingIsNoNetworkError ==
  \A c \in Call : outcome[c] = "NETWORK_ERROR" => ~cut[c]

\* Every call settles; in particular the retries end, however often the
\* token is rotated.
EveryCallSettles == \A c \in Call : Pending(c) ~> pc[c] = "done"
===============================================================================
