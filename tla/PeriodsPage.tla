------------------------------ MODULE PeriodsPage ------------------------------
(***************************************************************************)
(* The periods page (periods.js): a list of periods, the panes of the      *)
(* selected one, the publish ceremony, and the actions that change a       *)
(* period.  Answers arrive in any order.  The audit pane is painted as the *)
(* snapshots pane is and is left out.  Other planners change the periods at *)
(* any time, so the server may answer anything.                            *)
(***************************************************************************)
EXTENDS Naturals, FiniteSets

CONSTANTS
  Period,
  None,
  MaxClicks  \* bound: gestures of the user

VARIABLES
  aborts,      \* the browser has AbortController
  list,        \* the table: "loading", "failed" or "painted" ...
  rows,        \* ... and then the status each row shows, "none" without a row
  current,     \* currentPeriod (and currentPeriodId)
  url,         \* periodId in the address
  busy,        \* isBusy
  flows,       \* the actions under way, each at its dialog or its request
  lists,       \* loadPeriods calls in flight, by preferred period
  details,     \* requests of loadPeriodDetails in flight
  detailsSeq,
  readiness,   \* currentReadiness: of a period, whether it can be published
  line,        \* its line: "loading", "failed" or "shown"
  snapshots,   \* the pane: "loading", "failed", "empty" or the period shown
  ceremony,    \* the publish ceremony as painted: for a period, by a readiness
  clicks

listVars   == <<list, rows, lists, url>>
paneVars   == <<details, detailsSeq, readiness, line, snapshots, ceremony>>
vars == <<aborts, listVars, paneVars, current, busy, flows, clicks>>

Detail == {"snapshots", "readiness", "acks"}

\* STATUS_ACTIONS, and deletion: the status of the rows that offer it.
Needs == [delete |-> "open", publish |-> "open", close |-> "published", reopen |-> "closed"]
RowAction == DOMAIN Needs

NoReadiness == [of |-> None, can |-> FALSE]

Rows    == [Period -> {"none", "open", "published", "closed"}]
NoRows  == [p \in Period |-> "none"]

\* A modal dialog covers the page while one is open.
Modal == \E f \in flows : f.step = "dialog"

Click ==
  /\ clicks < MaxClicks
  /\ ~Modal
  /\ clicks' = clicks + 1

Init ==
  /\ aborts \in BOOLEAN
  /\ list = "loading" /\ rows = NoRows
  /\ current = None
  /\ url \in Period \cup {None}
  /\ busy = FALSE /\ flows = {}
  /\ lists = {None}
  /\ details = {} /\ detailsSeq = 0
  /\ readiness = NoReadiness /\ line = "loading"
  /\ snapshots = "loading" /\ ceremony = None
  /\ clicks = 0

-------------------------------------------------------------------------------
(* Painting.                                                               *)

\* renderPublishCeremony: for an open period, with a publish button that is
\* enabled by the readiness at hand.
Ceremony(period, r) ==
  IF period = None \/ period.status # "open" THEN None
  ELSE [id |-> period.id, of |-> r.of, can |-> r.can]

LoadDetails_Bug(period) ==
  /\ detailsSeq' = detailsSeq + 1
  /\ details' = details \cup [kind : Detail, of : {period}, seq : {detailsSeq + 1}]
  /\ snapshots' = snapshots /\ line' = "loading"
  /\ UNCHANGED <<readiness, ceremony>>

\* loadPeriodDetails: the calls before it are aborted where the browser can;
\* currentReadiness and the ceremony stay until an answer paints them.
LoadDetails(period) ==
  /\ detailsSeq' = detailsSeq + 1
  /\ details' = [kind : Detail, of : {period}, seq : {detailsSeq + 1}]
                  \cup (IF aborts THEN {} ELSE details)
  /\ snapshots' = "loading" /\ line' = "loading"
  /\ UNCHANGED <<readiness, ceremony>>

\* loadPeriods finds no period at all.
ClearDetails ==
  /\ readiness' = NoReadiness /\ line' = "shown"
  /\ ceremony' = None /\ snapshots' = "empty"
  /\ UNCHANGED <<details, detailsSeq>>

-------------------------------------------------------------------------------
(* loadPeriods.                                                            *)

ListArrives(pref) ==
  /\ lists' = lists \ {pref}
  /\ list' = "painted"
  /\ rows' \in Rows
  /\ LET wanted == IF pref = None THEN url ELSE pref
         known  == {p \in Period : rows'[p] # "none"}
     IN  \/ /\ known = {}
            /\ current' = None
            /\ UNCHANGED url
            /\ ClearDetails
         \/ \E p \in known :
              /\ wanted \in known => p = wanted
              /\ current' = [id |-> p, status |-> rows'[p]]
              /\ url' = p
              /\ LoadDetails(p)

\* The error takes the place of the rows and of the panes, not of the ceremony.
ListFails(pref) ==
  /\ lists' = lists \ {pref}
  /\ list' = "failed"
  /\ rows' = NoRows
  /\ snapshots' = "failed"
  /\ UNCHANGED <<current, url, details, detailsSeq, readiness, line, ceremony>>

\* The flow that waits for this call ends with it: setBusy(false).
ListAnswer ==
  \E pref \in lists :
    /\ \/ ListArrives(pref)
       \/ ListFails(pref)
    /\ LET waiting == {f \in flows : f.step = "reload"}
       IN  /\ flows' = flows \ waiting
           /\ busy' = IF waiting = {} THEN busy ELSE FALSE
    /\ UNCHANGED <<aborts, clicks>>

Reload(pref) ==
  /\ lists' = lists \cup {pref}
  /\ list' = "loading"
  /\ rows' = NoRows

Retry ==
  /\ Click
  /\ list = "failed"
  /\ Reload(None)
  /\ UNCHANGED <<aborts, paneVars, current, url, busy, flows>>

-------------------------------------------------------------------------------
(* Selecting a period, and the answers of its details.                     *)

SelectRow ==
  /\ Click
  /\ list = "painted"
  /\ ~busy
  /\ \E p \in Period :
       /\ rows[p] # "none"
       /\ current = None \/ current.id # p
       /\ current' = [id |-> p, status |-> rows[p]]
       /\ url' = p
       /\ LoadDetails(p)
  /\ UNCHANGED <<aborts, list, rows, lists, busy, flows>>

Answers(d) == [of : {d.of}, can : BOOLEAN]

\* Without the generation test an older answer paints.
DetailAnswer_Bug ==
  \E d \in details :
    /\ details' = details \ {d}
    /\ snapshots' = IF d.kind = "snapshots" THEN d.of ELSE snapshots
    /\ readiness' \in IF d.kind = "readiness" THEN Answers(d) ELSE {readiness}
    /\ line' = IF d.kind = "readiness" THEN "shown" ELSE line
    /\ ceremony' = IF d.kind = "snapshots" THEN ceremony ELSE Ceremony(current, readiness')
    /\ UNCHANGED <<aborts, listVars, current, busy, flows, clicks, detailsSeq>>

\* An answer of an older generation is dropped.
DetailAnswer ==
  \E d \in details :
    /\ details' = details \ {d}
    /\ IF d.seq # detailsSeq
       THEN UNCHANGED <<snapshots, readiness, line, ceremony>>
       ELSE CASE d.kind = "snapshots" ->
                   snapshots' = d.of /\ UNCHANGED <<readiness, line, ceremony>>
              [] d.kind = "readiness" ->
                   /\ readiness' \in Answers(d)
                   /\ line' = "shown"
                   /\ ceremony' = Ceremony(current, readiness')
                   /\ UNCHANGED snapshots
              [] d.kind = "acks" ->
                   /\ ceremony' = Ceremony(current, readiness)
                   /\ UNCHANGED <<snapshots, readiness, line>>
    /\ UNCHANGED <<aborts, listVars, current, busy, flows, clicks, detailsSeq>>

\* A failed one leaves its pane with an error; the statistics are cleared,
\* which paints the ceremony; a failed readiness is only written in its line,
\* and the one at hand may be of a period left behind.
\* (The code paints the errors once all requests have been answered.)
DetailFails ==
  \E d \in details :
    /\ details' = details \ {d}
    /\ snapshots' = IF d.seq = detailsSeq /\ d.kind = "snapshots" THEN "failed" ELSE snapshots
    /\ ceremony' = IF d.seq = detailsSeq /\ d.kind = "acks" THEN Ceremony(current, readiness)
                   ELSE ceremony
    /\ line' = IF d.seq = detailsSeq /\ d.kind = "readiness" THEN "failed" ELSE line
    /\ UNCHANGED <<aborts, listVars, current, busy, flows, clicks, detailsSeq, readiness>>

RetryDetails ==
  /\ Click
  /\ snapshots = "failed"
  /\ list = "painted"
  /\ current # None
  /\ LoadDetails(current.id)
  /\ UNCHANGED <<aborts, listVars, current, busy, flows>>

-------------------------------------------------------------------------------
(* Actions.  deletePeriod asks first and is busy afterwards; the           *)
(* transitions are busy while they ask.                                    *)

Flow(action, p, step) == [action |-> action, id |-> p, step |-> step]

Start_Bug(action, p) ==
  /\ flows' = flows \cup {Flow(action, p, "dialog")}
  /\ busy' = (busy \/ action # "delete")

Start(action, p) ==
  /\ ~busy
  /\ flows' = flows \cup {Flow(action, p, "dialog")}
  /\ busy' = (action # "delete")

RowButton ==
  /\ Click
  /\ list = "painted"
  /\ \E action \in RowAction, p \in Period :
       /\ rows[p] = Needs[action]
       /\ Start(action, p)
  /\ UNCHANGED <<aborts, listVars, paneVars, current>>

CeremonyButton ==
  /\ Click
  /\ ceremony # None
  /\ ceremony.can
  /\ Start("publish", ceremony.id)
  /\ UNCHANGED <<aborts, listVars, paneVars, current>>

\* The form is wired once the first list has been answered.
SubmitForm ==
  /\ Click
  /\ list # "loading"
  /\ ~busy
  /\ \E p \in Period : flows' = flows \cup {Flow("create", p, "post")}
  /\ busy' = TRUE
  /\ UNCHANGED <<aborts, listVars, paneVars, current>>

Verify ==
  /\ Click
  /\ ~busy
  /\ current # None
  /\ flows' = flows \cup {Flow("verify", current.id, "post")}
  /\ busy' = TRUE
  /\ UNCHANGED <<aborts, listVars, paneVars, current>>

CloseDialog ==
  \E f \in flows :
    /\ f.step = "dialog"
    /\ \/ /\ flows' = (flows \ {f}) \cup {Flow(f.action, f.id, "post")}
          /\ busy' = TRUE
       \/ /\ flows' = flows \ {f}
          /\ busy' = FALSE
    /\ UNCHANGED <<aborts, listVars, paneVars, current, clicks>>

\* The request succeeds: the list is loaded again, preferring a period that
\* moved; the selection of a deleted one is dropped first.
Accepted(f) ==
  /\ flows' = (flows \ {f}) \cup {Flow(f.action, f.id, "reload")}
  /\ Reload(IF f.action \in {"delete", "create"} THEN None ELSE f.id)
  /\ IF f.action = "delete" /\ current # None /\ current.id = f.id
     THEN current' = None /\ url' = None
     ELSE UNCHANGED <<current, url>>
  /\ UNCHANGED <<busy, paneVars>>

\* It is refused, or its answer is lost: an announcement, nothing is loaded.
Refused(f) ==
  /\ flows' = flows \ {f}
  /\ busy' = FALSE
  /\ UNCHANGED <<listVars, paneVars, current>>

AnswerAction ==
  \E f \in flows :
    /\ f.step = "post"
    /\ f.action # "verify"
    /\ Accepted(f) \/ Refused(f)
    /\ UNCHANGED <<aborts, clicks>>

\* An overlapping period is refused first; the user may insist.
AnswerOverlap ==
  \E f \in flows :
    /\ f.step = "post"
    /\ f.action = "create"
    /\ flows' = (flows \ {f}) \cup {Flow("create", f.id, "dialog")}
    /\ UNCHANGED <<aborts, listVars, paneVars, current, busy, clicks>>

AnswerVerify ==
  \E f \in flows :
    /\ f.step = "post"
    /\ f.action = "verify"
    /\ Refused(f)
    /\ UNCHANGED <<aborts, clicks>>

Next ==
  \/ ListAnswer \/ Retry
  \/ SelectRow \/ DetailAnswer \/ DetailFails \/ RetryDetails
  \/ RowButton \/ CeremonyButton \/ SubmitForm \/ Verify \/ CloseDialog
  \/ AnswerAction \/ AnswerOverlap \/ AnswerVerify

Spec == Init /\ [][Next]_vars

-------------------------------------------------------------------------------
(* Properties.                                                             *)

TypeOK ==
  /\ list \in {"loading", "failed", "painted"}
  /\ current = None \/ current \in [id : Period, status : {"open", "published", "closed"}]
  /\ details \subseteq [kind : Detail, of : Period, seq : 1..detailsSeq]
  /\ lists \subseteq Period \cup {None}
  /\ snapshots \in {"loading", "failed", "empty"} \cup Period

\* However clicks and answers interleave, the page never has two requests
\* that change a period on their way (isBusy, although deletePeriod asks
\* before it sets it).
OneMutation == Cardinality({f \in flows : f.step = "post"}) <= 1

\* Whatever is still in flight for a period left behind, the panes show the
\* period that is selected (detailsSeq).
PanesOfSelection ==
  snapshots \in Period /\ current # None => snapshots = current.id

\* Once the list and the details have been answered, the ceremony on the
\* page, if there is one, publishes the selected period and that is open; and
\* its button goes by the readiness of that period, whatever was asked for
\* others before, unless the line says that it could not be loaded.
CeremonyOfSelection ==
  (/\ list = "painted"
   /\ ~\E d \in details : d.seq = detailsSeq
   /\ ceremony # None)
  => /\ current # None /\ ceremony.id = current.id /\ current.status = "open"
     /\ ceremony.of = current.id \/ line = "failed"

-------------------------------------------------------------------------------
(* What is known at any time, for the proof.                               *)

\* One action at a time, and one that does not ask keeps the page busy.
OneFlow ==
  /\ \A f, g \in flows : f = g
  /\ busy \/ \A f \in flows : f.step = "dialog"

\* What the newest details are for.
Newest ==
  /\ detailsSeq \in Nat
  /\ details \subseteq [kind : Detail, of : Period, seq : 0..detailsSeq]
  /\ current # None =>
       /\ current.id \in Period
       /\ \A x \in details : x.seq = detailsSeq => x.of = current.id

\* The ceremony of a period left behind is painted anew by an answer that is
\* still to come.
CeremonyToCome ==
  list = "painted" =>
    \/ ceremony = None
    \/ current # None /\ ceremony.id = current.id /\ current.status = "open"
    \/ \E x \in details : x.seq = detailsSeq /\ x.kind = "acks"

\* The readiness is that of the selected period, or is still to come.
ReadinessToCome ==
  current # None =>
    /\ line \in {"loading", "failed", "shown"}
    /\ line = "loading" => \E x \in details : x.seq = detailsSeq /\ x.kind = "readiness"
    /\ line = "shown" => /\ readiness.of = current.id
                         /\ ceremony = None \/ ceremony.of = current.id

IInv == OneFlow /\ Newest /\ PanesOfSelection /\ CeremonyToCome /\ ReadinessToCome
===============================================================================
