---------------------------- MODULE CompanySettings ----------------------------
(***************************************************************************)
(* The settings of one company, a JSON text changed by patches              *)
(* (SelfServiceSettingsService).  The text that was read is compared when   *)
(* the new one is written, and the form's revision when it is read.         *)
(***************************************************************************)
EXTENDS Naturals

CONSTANTS
  Admin,  \* requests
  Field,
  Value,
  None,
  Fresh   \* the value of a field that was never set

VARIABLES
  stored,   \* settings_json
  admin,    \* what a form was filled from, or what a request has read
  accepted  \* history: the last value of each field that was taken

vars == <<stored, admin, accepted>>

Idle == [at |-> "idle"]

Init ==
  /\ stored = [f \in Field |-> Fresh]
  /\ admin = [a \in Admin |-> Idle]
  /\ accepted = stored

Goto(a, state) == admin' = [admin EXCEPT ![a] = state]

\* toApi, with the revision; a client may leave the revision out.
OpenForm(a) ==
  /\ admin[a] = Idle
  /\ \E revision \in {stored, None} : Goto(a, [at |-> "form", revision |-> revision])
  /\ UNCHANGED <<stored, accepted>>

\* updateForCompany up to the write: SETTINGS_CONFLICT for an outdated form.
Update(a) ==
  /\ admin[a].at = "form"
  /\ IF admin[a].revision \in {stored, None}
     THEN \E f \in Field, v \in Value :
            Goto(a, [at |-> "write", expected |-> stored, field |-> f, value |-> v])
     ELSE Goto(a, Idle)
  /\ UNCHANGED <<stored, accepted>>

Merged(a) == [admin[a].expected EXCEPT ![admin[a].field] = admin[a].value]

\* Without the condition on what was read.
Expected_Bug(a) == TRUE

\* The UPDATE's condition.
Expected(a) == stored = admin[a].expected

\* writeStoredCas: a row that did not match is a conflict, unless it says what
\* was to be written.
Write(a) ==
  /\ admin[a].at = "write"
  /\ IF Expected(a) \/ stored = Merged(a)
     THEN /\ stored' = Merged(a)
          /\ accepted' = [accepted EXCEPT ![admin[a].field] = admin[a].value]
     ELSE UNCHANGED <<stored, accepted>>
  /\ Goto(a, Idle)

Next == \E a \in Admin : OpenForm(a) \/ Update(a) \/ Write(a)

Spec == Init /\ [][Next]_vars

-------------------------------------------------------------------------------
(* Properties.                                                             *)

\* No accepted patch undoes another one: each setting has the last value that
\* was accepted for it, though every write replaces them all.
PatchesKept == stored = accepted

-------------------------------------------------------------------------------
(* What is known at any time, for the proof.                               *)

Texts == [Field -> Value \cup {Fresh}]

TypeOK ==
  /\ stored \in Texts
  /\ admin \in [Admin -> {Idle} \cup [at : {"form"}, revision : Texts \cup {None}]
                  \cup [at : {"write"}, expected : Texts, field : Field, value : Value]]

IInv == TypeOK /\ PatchesKept
===============================================================================
