----------------------------- MODULE FrontEndProofs -----------------------------
(***************************************************************************)
(* What each page owes its user, for any set of periods, rows and patterns, *)
(* any number of clicks and any size of a table.  A page is one instance of *)
(* its module on the registers, so that its invariant (IInv there) is shown *)
(* here to hold at first and to be kept by its steps; the steps of the      *)
(* others have another page.                                                *)
(***************************************************************************)
EXTENDS FrontEnd, Integers, TLAPS, SequenceTheorems, FiniteSetTheorems, WellFoundedInduction

-------------------------------------------------------------------------------
(* The roster of a team (roster.js).                                         *)

\* At first no roster is shown.
LEMMA RosterInit == Roster!Init => Roster!IInv
  <1> SUFFICES ASSUME Roster!Init PROVE Roster!IInv
    OBVIOUS
  <1>0. /\ r2 = None /\ r3 = None /\ r10 = "hidden" /\ r11 = {} /\ r8 = {} /\ r6 = FALSE /\ r14 = r4
        /\ \/ r4 \in Period /\ r5 = 1 /\ r7 = {[seq |-> 1, asked |-> r4, by |-> "boot"]} /\ r1 = "loading"
           \/ r4 = None /\ r5 = 0 /\ r7 = {} /\ r1 = None
    BY DEF Roster!Init
  <1>1. Roster!RowsOfNewestLoad /\ Roster!StripOfNewestLoad
    BY <1>0 DEF Roster!RowsOfNewestLoad, Roster!StripOfNewestLoad
  <1>2. CASE r5 = 1
    <2>1. PICK l : l = [seq |-> 1, asked |-> r4, by |-> "boot"]
      OBVIOUS
    <2>2. /\ l.seq = 1 /\ l.asked = r14 /\ r7 = {l}
          /\ l \in [seq : Nat, asked : Roster!Chosen, by : {"boot", "switch", "retry", "month", "write"}]
      BY <1>0, <1>2, <2>1 DEF Roster!Chosen
    <2>3. Roster!TypeOK
      BY <1>0, <1>2, <2>2 DEF Roster!TypeOK, Roster!Chosen
    <2> QED
      BY <1>0, <1>1, <1>2, <2>2, <2>3 DEF Roster!IInv, Roster!Newest, Roster!NotStuckLoading
  <1>3. CASE r5 = 0
    <2>1. Roster!NotStuckLoading
      BY <1>0, <1>3, FrontEndAssumption DEF Roster!NotStuckLoading
    <2>2. r7 = {} /\ r11 = {}
      BY <1>0, <1>3
    <2>3. Roster!Newest
      BY <2>2 DEF Roster!Newest
    <2>4. Roster!TypeOK
      BY <1>0, <1>3, <2>2 DEF Roster!TypeOK, Roster!Chosen
    <2> QED
      BY <1>1, <2>1, <2>3, <2>4 DEF Roster!IInv
  <1> QED
    BY <1>0, <1>2, <1>3

\* An answer is dropped unless it is of the newest load (rosterViewSeq).
LEMMA RosterNext == Roster!IInv /\ [Roster!Next]_Roster!vars => Roster!IInv'
  <1> SUFFICES ASSUME Roster!IInv, [Roster!Next]_Roster!vars PROVE Roster!IInv'
    OBVIOUS
  <1>t. Roster!TypeOK
    BY DEF Roster!IInv
  <1>n. Roster!Newest /\ Roster!RowsOfNewestLoad /\ Roster!StripOfNewestLoad /\ Roster!NotStuckLoading
    BY DEF Roster!IInv
  <1>0. /\ r5 \in Nat /\ r6 \in BOOLEAN
        /\ \A l \in r7 : l.seq \in Nat /\ l.seq <= r5
        /\ \A q \in r11 : q.seq \in Nat /\ q.seq <= r5
    BY <1>t, <1>n DEF Roster!TypeOK, Roster!Newest
  <1>w. \A w \in r8 : w.of \in Roster!Chosen
    BY <1>t DEF Roster!TypeOK
  <1>c. r2 \in Roster!Chosen /\ r3 \in Roster!Chosen /\ "loading" \notin Roster!Chosen
    BY <1>t, FrontEndAssumption DEF Roster!TypeOK, Roster!Chosen
  <1>i. Roster!TypeOK' /\ Roster!Newest' /\ Roster!RowsOfNewestLoad' /\ Roster!StripOfNewestLoad'
        /\ Roster!NotStuckLoading' => Roster!IInv'
    BY DEF Roster!IInv
\* A load that is started is the newest, and not painted yet.
  <1>1. ASSUME NEW p \in Roster!Chosen, NEW by \in {"switch", "retry", "month", "write"},
               Roster!LoadRoster(p, by), UNCHANGED <<r2, r4, r10, r11>>,
               r3' \in Roster!Chosen, r8' \subseteq r8
        PROVE  Roster!IInv'
    <2>1. PICK l : l = [seq |-> r5 + 1, asked |-> p, by |-> by]
      OBVIOUS
    <2>2. r5' = r5 + 1 /\ r6' = FALSE /\ r7' = r7 \cup {l} /\ r14' = p
      BY <1>1, <2>1 DEF Roster!LoadRoster
    <2>3. /\ l \in [seq : Nat, asked : Roster!Chosen, by : {"boot", "switch", "retry", "month", "write"}]
          /\ l.seq = r5 + 1 /\ l.asked = p
      BY <1>0, <1>1, <2>1
    <2>4. Roster!TypeOK'
      BY <1>t, <1>0, <1>1, <2>2, <2>3 DEF Roster!TypeOK, Roster!Chosen
    <2>5. Roster!Newest'
      BY <1>n, <1>0, <1>1, <2>2, <2>3 DEF Roster!Newest
    <2>6. Roster!RowsOfNewestLoad' /\ Roster!StripOfNewestLoad'
      BY <2>2 DEF Roster!RowsOfNewestLoad, Roster!StripOfNewestLoad
    <2>7. Roster!NotStuckLoading'
      BY <2>2, <2>3 DEF Roster!NotStuckLoading
    <2> QED
      BY <1>i, <2>4, <2>5, <2>6, <2>7
\* The newest load has been answered: no other is on its way, nor was a strip.
  <1>2. CASE Roster!LoadAnswer
    <2>1. PICK l \in r7, p \in Period :
            /\ l.asked # None => p = l.asked
            /\ r7' = r7 \ {l} /\ Roster!Painted(l, p) /\ UNCHANGED <<r5, r8, r10, r14>>
      BY <1>2 DEF Roster!LoadAnswer
    <2>2. CASE l.seq = r5
      <3>0. PICK q : q = [seq |-> r5, of |-> p]
        OBVIOUS
      <3>1. /\ r1' = p /\ r2' = p /\ r3' = p /\ r4' = p /\ r6' = TRUE /\ r11' = r11 \cup {q}
            /\ r13' = Roster!Cells(p, p)
        BY <2>1, <2>2, <3>0 DEF Roster!Painted, Roster!Render
      <3>q. q \in [seq : Nat, of : Period] /\ q.seq = r5 /\ q.of = p
        BY <1>0, <3>0
      <3>2. ~r6 /\ l.asked = r14 /\ (\A m \in r7' : m.seq # r5) /\ (\A s \in r11 : s.seq # r5)
        BY <1>n, <1>0, <2>1, <2>2 DEF Roster!Newest
      <3>3. Roster!TypeOK'
        BY <1>t, <1>0, <2>1, <3>1, <3>q DEF Roster!TypeOK, Roster!Chosen
      <3>4. Roster!Newest'
        BY <1>n, <1>0, <2>1, <3>1, <3>2, <3>q DEF Roster!Newest
      <3>5. Roster!RowsOfNewestLoad'
        BY <2>1, <3>1, <3>2 DEF Roster!RowsOfNewestLoad, Roster!Cells
      <3>6. Roster!StripOfNewestLoad'
        BY <2>1, <3>1, <3>q DEF Roster!StripOfNewestLoad
      <3>7. Roster!NotStuckLoading'
        BY <1>c, <2>1, <3>1 DEF Roster!NotStuckLoading, Roster!Chosen
      <3> QED
        BY <1>i, <3>3, <3>4, <3>5, <3>6, <3>7
    <2>3. CASE l.seq # r5
      <3>1. UNCHANGED <<r1, r2, r3, r4, r6, r11, r13>>
        BY <2>1, <2>3 DEF Roster!Painted, Roster!viewVars
      <3>2. Roster!TypeOK'
        BY <1>t, <2>1, <3>1 DEF Roster!TypeOK
      <3>3. Roster!Newest'
        BY <1>n, <2>1, <3>1 DEF Roster!Newest
      <3>4. Roster!RowsOfNewestLoad' /\ Roster!StripOfNewestLoad' /\ Roster!NotStuckLoading'
        BY <1>n, <2>1, <2>3, <3>1 DEF Roster!RowsOfNewestLoad, Roster!Cells, Roster!StripOfNewestLoad,
             Roster!NotStuckLoading
      <3> QED
        BY <1>i, <3>2, <3>3, <3>4
    <2> QED
      BY <2>2, <2>3
  <1>3. CASE Roster!LoadFallback
    <2>1. PICK l \in r7 : l.seq = r5 /\ r7' = (r7 \ {l}) \cup {[l EXCEPT !.asked = None]}
      BY <1>3 DEF Roster!LoadFallback
    <2>2. UNCHANGED <<r1, r2, r3, r4, r5, r6, r8, r10, r11, r13>> /\ r14' = None
      BY <1>3 DEF Roster!LoadFallback, Roster!viewVars, Roster!paneVars
    <2>3. PICK m : m = [l EXCEPT !.asked = None]
      OBVIOUS
    <2>4. /\ m \in [seq : Nat, asked : Roster!Chosen, by : {"boot", "switch", "retry", "month", "write"}]
          /\ m.seq = r5 /\ m.asked = None /\ r7' = (r7 \ {l}) \cup {m}
      BY <1>t, <2>1, <2>3 DEF Roster!TypeOK, Roster!Chosen
    <2>5. ~r6
      BY <1>n, <2>1 DEF Roster!Newest
    <2>6. Roster!TypeOK'
      BY <1>t, <2>2, <2>4 DEF Roster!TypeOK
    <2>7. Roster!Newest'
      BY <1>n, <1>0, <2>1, <2>2, <2>4, <2>5 DEF Roster!Newest
    <2>8. Roster!RowsOfNewestLoad' /\ Roster!StripOfNewestLoad' /\ Roster!NotStuckLoading'
      BY <2>2, <2>4, <2>5 DEF Roster!RowsOfNewestLoad, Roster!StripOfNewestLoad, Roster!NotStuckLoading
    <2> QED
      BY <1>i, <2>6, <2>7, <2>8
  <1>4. CASE Roster!LoadFails
    <2>1. PICK l \in r7 : r7' = r7 \ {l} /\ r1' = IF l.seq = r5 THEN "failed" ELSE r1
      BY <1>4 DEF Roster!LoadFails
    <2>2. UNCHANGED <<r2, r3, r4, r5, r6, r8, r10, r11, r13, r14>>
      BY <1>4 DEF Roster!LoadFails, Roster!paneVars
    <2>3. Roster!TypeOK'
      BY <1>t, <2>1, <2>2 DEF Roster!TypeOK
    <2>4. Roster!Newest'
      BY <1>n, <2>1, <2>2 DEF Roster!Newest
    <2>5. Roster!RowsOfNewestLoad' /\ Roster!StripOfNewestLoad' /\ Roster!NotStuckLoading'
      BY <1>n, <2>1, <2>2 DEF Roster!RowsOfNewestLoad, Roster!Cells, Roster!StripOfNewestLoad,
           Roster!NotStuckLoading
    <2> QED
      BY <1>i, <2>3, <2>4, <2>5
  <1>5. CASE Roster!StripAnswer
    <2>1. PICK q \in r11 : r11' = r11 \ {q} /\ r10' \in IF q.seq = r5 THEN {"hidden", q.of} ELSE {r10}
      BY <1>5 DEF Roster!StripAnswer
    <2>2. UNCHANGED <<r1, r2, r3, r4, r5, r6, r7, r8, r13, r14>>
      BY <1>5 DEF Roster!StripAnswer, Roster!viewVars, Roster!loadVars
    <2>3. Roster!TypeOK'
      BY <1>t, <2>1, <2>2 DEF Roster!TypeOK
    <2>4. Roster!Newest'
      BY <1>n, <2>1, <2>2 DEF Roster!Newest
    <2>5. Roster!RowsOfNewestLoad' /\ Roster!NotStuckLoading'
      BY <1>n, <2>1, <2>2 DEF Roster!RowsOfNewestLoad, Roster!Cells, Roster!NotStuckLoading
    <2>6. Roster!StripOfNewestLoad'
      BY <1>n, <1>0, <2>1, <2>2 DEF Roster!StripOfNewestLoad, Roster!Newest
    <2> QED
      BY <1>i, <2>3, <2>4, <2>5, <2>6
  <1>6. CASE Roster!Switch
    <2>1. PICK p \in Period : r3' = p /\ Roster!LoadRoster(p, "switch")
      BY <1>6 DEF Roster!Switch
    <2>2. p \in Roster!Chosen /\ UNCHANGED <<r2, r4, r8, r10, r11>>
      BY <1>6 DEF Roster!Switch, Roster!paneVars, Roster!Chosen
    <2> QED
      BY <1>1, <2>1, <2>2
  <1>7. CASE Roster!Retry
    <2>1. PICK p \in Roster!Chosen : Roster!LoadRoster(p, "retry")
      BY <1>7 DEF Roster!Retry
    <2>2. r3' \in Roster!Chosen /\ UNCHANGED <<r2, r4, r8, r10, r11>>
      BY <1>7, <1>c DEF Roster!Retry, Roster!paneVars
    <2> QED
      BY <1>1, <2>1, <2>2
\* What touches no load paints the roster at hand, if anything, or gives the
\* list an error or old rows.
  <1>8. ASSUME UNCHANGED <<r2, r3, r4, r5, r6, r7, r10, r11, r14>>,
               r1' \in {"failed", "old", r1, r2}, r13' \in {r13, Roster!Cells(r3, r2)},
               r8' \subseteq r8 \cup [kind : {"repaint", "fill", "approve"}, of : Roster!Chosen]
        PROVE  Roster!IInv'
    <2>1. Roster!TypeOK'
      BY <1>t, <1>8 DEF Roster!TypeOK
    <2>2. Roster!Newest'
      BY <1>n, <1>8 DEF Roster!Newest
    <2>3. Roster!RowsOfNewestLoad' /\ Roster!StripOfNewestLoad'
      BY <1>n, <1>8 DEF Roster!RowsOfNewestLoad, Roster!Cells, Roster!StripOfNewestLoad
    <2>4. Roster!NotStuckLoading'
      BY <1>n, <1>c, <1>8 DEF Roster!NotStuckLoading
    <2> QED
      BY <1>i, <2>1, <2>2, <2>3, <2>4
  <1>9. CASE Roster!AskMonth
    BY <1>8, <1>9 DEF Roster!AskMonth, Roster!viewVars, Roster!loadVars, Roster!paneVars
  <1>10. CASE Roster!MonthAnswer
    <2>1. UNCHANGED <<r2, r3, r4, r8, r10, r11>>
      BY <1>10 DEF Roster!MonthAnswer, Roster!paneVars
    <2>2. CASE \E p \in Roster!Chosen : Roster!LoadRoster(p, "month")
      BY <1>1, <1>c, <2>1, <2>2
    <2>3. CASE r1' \in {"failed", r1} /\ UNCHANGED <<r13, Roster!loadVars>>
      BY <1>8, <2>1, <2>3 DEF Roster!loadVars
    <2> QED
      BY <1>10, <2>2, <2>3 DEF Roster!MonthAnswer
  <1>11. CASE Roster!PaintAgain
    BY <1>8, <1>11 DEF Roster!PaintAgain, Roster!loadVars, Roster!paneVars
  <1>12. CASE Roster!Reveal
    BY <1>8, <1>12 DEF Roster!Reveal, Roster!viewVars, Roster!loadVars, Roster!paneVars
  <1>13. CASE Roster!RevealFrame
    BY <1>8, <1>13 DEF Roster!RevealFrame, Roster!loadVars, Roster!paneVars
  <1>14. CASE Roster!StartWrite
    <2>1. PICK kind \in {"repaint", "fill", "approve"}, p \in Period \cup {r2, r3} :
            r8' = r8 \cup {[kind |-> kind, of |-> p]}
      BY <1>14 DEF Roster!StartWrite, Roster!Acted
    <2>2. r8' \subseteq r8 \cup [kind : {"repaint", "fill", "approve"}, of : Roster!Chosen]
      BY <1>c, <2>1 DEF Roster!Chosen
    <2> QED
      BY <1>8, <1>14, <2>2 DEF Roster!StartWrite, Roster!viewVars, Roster!loadVars, Roster!paneVars
  <1>15. CASE Roster!WriteAnswer
    <2>1. PICK w \in r8 : r8' = r8 \ {w} /\ (Roster!Repainted(w) \/ Roster!Reloaded(w) \/ Roster!Refused)
      BY <1>15 DEF Roster!WriteAnswer
    <2>2. UNCHANGED <<r10, r11>> /\ w.of \in Roster!Chosen
      BY <1>15, <1>w DEF Roster!WriteAnswer, Roster!paneVars
    <2>3. CASE Roster!Repainted(w)
      <3>1. /\ UNCHANGED <<r4, r5, r6, r7, r10, r11>> /\ r8' \subseteq r8
            /\ r1' = w.of /\ r2' = w.of /\ r3' = w.of /\ r13' = Roster!Cells(w.of, w.of)
            /\ r14' = IF r6 THEN w.of ELSE r14
        BY <2>1, <2>2, <2>3 DEF Roster!Repainted, Roster!Render
      <3>2. Roster!TypeOK'
        BY <1>t, <2>2, <3>1 DEF Roster!TypeOK
      <3>3. Roster!Newest'
        BY <1>n, <3>1 DEF Roster!Newest
      <3>4. Roster!RowsOfNewestLoad' /\ Roster!StripOfNewestLoad'
        BY <1>n, <3>1 DEF Roster!RowsOfNewestLoad, Roster!Cells, Roster!StripOfNewestLoad
      <3>5. Roster!NotStuckLoading'
        BY <1>c, <2>2, <3>1 DEF Roster!NotStuckLoading
      <3> QED
        BY <1>i, <3>2, <3>3, <3>4, <3>5
    <2>4. CASE Roster!Reloaded(w)
      <3>1. PICK p \in Roster!Chosen : Roster!LoadRoster(p, "write")
        BY <1>c, <2>2, <2>4 DEF Roster!Reloaded
      <3>2. UNCHANGED <<r2, r3, r4>>
        BY <2>4 DEF Roster!Reloaded
      <3> QED
        BY <1>1, <1>c, <2>1, <2>2, <3>1, <3>2
    <2>5. CASE Roster!Refused
      BY <1>8, <2>1, <2>2, <2>5 DEF Roster!Refused, Roster!viewVars, Roster!loadVars
    <2> QED
      BY <2>1, <2>3, <2>4, <2>5
  <1>16. CASE UNCHANGED Roster!vars
    BY <1>8, <1>16 DEF Roster!vars, Roster!viewVars, Roster!loadVars, Roster!paneVars
  <1> QED
    BY <1>2, <1>3, <1>4, <1>5, <1>6, <1>7, <1>9, <1>10, <1>11, <1>12, <1>13, <1>14, <1>15, <1>16
       DEF Roster!Next

-------------------------------------------------------------------------------
(* The page of periods (periods.js).                                         *)

\* At first nothing is selected.
LEMMA PeriodsInit == Periods!Init => Periods!IInv
  <1> SUFFICES ASSUME Periods!Init PROVE Periods!IInv
    OBVIOUS
  <1>1. r7 = {} /\ r9 = {} /\ r10 = 0 /\ r12 = "loading" /\ r4 = None /\ r2 = "loading"
    BY DEF Periods!Init
  <1> QED
    BY <1>1 DEF Periods!IInv, Periods!OneFlow, Periods!Newest, Periods!PanesOfSelection,
         Periods!CeremonyToCome, Periods!ReadinessToCome

\* Whatever is clicked and answered keeps one action and one selection.
LEMMA PeriodsNext == Periods!IInv /\ [Periods!Next]_Periods!vars => Periods!IInv'
  <1> SUFFICES ASSUME Periods!IInv, [Periods!Next]_Periods!vars PROVE Periods!IInv'
    OBVIOUS
  <1>f. Periods!OneFlow
    BY DEF Periods!IInv
  <1>n. Periods!Newest
    BY DEF Periods!IInv
  <1>p. Periods!PanesOfSelection
    BY DEF Periods!IInv
  <1>c. Periods!CeremonyToCome
    BY DEF Periods!IInv
  <1>r. Periods!ReadinessToCome
    BY DEF Periods!IInv
  <1>i. Periods!OneFlow' /\ Periods!Newest' /\ Periods!PanesOfSelection' /\ Periods!CeremonyToCome'
        /\ Periods!ReadinessToCome' => Periods!IInv'
    BY DEF Periods!IInv
  <1>0. /\ r10 \in Nat
        /\ \A x \in r9 : x.kind \in Periods!Detail /\ x.seq \in Nat /\ x.seq <= r10
    BY <1>n DEF Periods!Newest
\* What only begins, goes on with or ends an action keeps the panes.
  <1>1. ASSUME UNCHANGED <<r2, r4, r9, r10, r11, r12, r13, r15>>
        PROVE  Periods!Newest' /\ Periods!PanesOfSelection' /\ Periods!CeremonyToCome'
               /\ Periods!ReadinessToCome'
    <2>1. Periods!Newest'
      BY <1>n, <1>1 DEF Periods!Newest
    <2>2. Periods!PanesOfSelection'
      BY <1>p, <1>1 DEF Periods!PanesOfSelection
    <2>3. Periods!CeremonyToCome'
      BY <1>c, <1>1 DEF Periods!CeremonyToCome
    <2>4. Periods!ReadinessToCome'
      BY <1>r, <1>1 DEF Periods!ReadinessToCome
    <2> QED
      BY <2>1, <2>2, <2>3, <2>4
\* The details of a period are asked for.
  <1>2. ASSUME NEW p \in Period, Periods!LoadDetails(p), r4' = None \/ r4'.id = p
        PROVE  Periods!Newest' /\ Periods!PanesOfSelection' /\ Periods!CeremonyToCome'
               /\ Periods!ReadinessToCome'
    <2>1. r10' = r10 + 1 /\ r12' = "loading" /\ r15' = "loading"
      BY <1>2 DEF Periods!LoadDetails
    <2>2. \A x \in r9' : \/ x \in r9
                         \/ x \in [kind : Periods!Detail, of : {p}, seq : {r10 + 1}]
      BY <1>2 DEF Periods!LoadDetails
    <2>3. Periods!Newest'
      <3>1. r9' \subseteq [kind : Periods!Detail, of : Period, seq : 0..r10']
        BY <1>n, <1>0, <2>1, <2>2 DEF Periods!Newest
      <3>2. \A x \in r9' : x.seq = r10' => x.of = p
        BY <1>0, <2>1, <2>2
      <3> QED
        BY <1>0, <1>2, <2>1, <3>1, <3>2 DEF Periods!Newest
    <2>4. Periods!PanesOfSelection'
      BY <2>1, FrontEndAssumption DEF Periods!PanesOfSelection
    <2>5. PICK x : x = [kind |-> "acks", of |-> p, seq |-> r10 + 1]
      OBVIOUS
    <2>6. x \in r9' /\ x.kind = "acks" /\ x.seq = r10'
      BY <1>2, <2>1, <2>5 DEF Periods!LoadDetails, Periods!Detail
    <2>7. PICK y : y = [kind |-> "readiness", of |-> p, seq |-> r10 + 1]
      OBVIOUS
    <2>8. y \in r9' /\ y.kind = "readiness" /\ y.seq = r10'
      BY <1>2, <2>1, <2>7 DEF Periods!LoadDetails, Periods!Detail
    <2>9. Periods!ReadinessToCome'
      BY <2>1, <2>8 DEF Periods!ReadinessToCome
    <2> QED
      BY <2>3, <2>4, <2>6, <2>9 DEF Periods!CeremonyToCome
\* An answer of the details is taken.
  <1>3. ASSUME NEW x \in r9, r9' = r9 \ {x}, UNCHANGED <<r2, r4, r10>>,
               r12' \in {r12, "failed"} \/ (x.seq = r10 /\ r12' = x.of),
               \/ r13' = r13 /\ (x.seq # r10 \/ x.kind # "acks")
               \/ \E r : r13' = Periods!Ceremony(r4, r)
        PROVE  Periods!Newest' /\ Periods!PanesOfSelection' /\ Periods!CeremonyToCome'
    <2>1. Periods!Newest'
      BY <1>n, <1>3 DEF Periods!Newest
    <2>2. Periods!PanesOfSelection'
      BY <1>n, <1>p, <1>3, FrontEndAssumption DEF Periods!PanesOfSelection, Periods!Newest
    <2>3. CASE r13' = r13 /\ (x.seq # r10 \/ x.kind # "acks")
      <3>1. \A y \in r9 : y.seq = r10 /\ y.kind = "acks" => y \in r9'
        BY <1>3, <2>3
      <3> QED
        BY <1>c, <1>3, <2>1, <2>2, <2>3, <3>1 DEF Periods!CeremonyToCome
    <2>4. CASE \E r : r13' = Periods!Ceremony(r4, r)
      <3>1. r13' = None \/ (r4 # None /\ r13'.id = r4.id /\ r4.status = "open")
        BY <2>4 DEF Periods!Ceremony
      <3> QED
        BY <1>3, <2>1, <2>2, <3>1 DEF Periods!CeremonyToCome
    <2> QED
      BY <1>3, <2>3, <2>4
\* One of a readiness is that of the selected period, or its line says so.
  <1>a. ASSUME NEW x \in r9, r9' = r9 \ {x}, UNCHANGED <<r4, r10>>,
               \/ /\ UNCHANGED <<r11, r15>> /\ (x.seq # r10 \/ x.kind # "readiness")
                  /\ r13' = r13 \/ r13' = Periods!Ceremony(r4, r11)
               \/ UNCHANGED <<r11, r13>> /\ r15' = "failed"
               \/ /\ x.seq = r10 /\ r11'.of = x.of /\ r15' = "shown"
                  /\ r13' = Periods!Ceremony(r4, r11')
        PROVE  Periods!ReadinessToCome'
    <2>0. /\ \A c : Periods!Ceremony(r4, c) = None \/ Periods!Ceremony(r4, c).of = c.of
      BY DEF Periods!Ceremony
    <2>1. CASE /\ UNCHANGED <<r11, r15>> /\ (x.seq # r10 \/ x.kind # "readiness")
               /\ r13' = r13 \/ r13' = Periods!Ceremony(r4, r11)
      <3>1. \A y \in r9 : y.seq = r10 /\ y.kind = "readiness" => y \in r9'
        BY <1>a, <2>1
      <3>2. r13' = r13 \/ r13' = None \/ r13'.of = r11.of
        BY <2>0, <2>1
      <3> QED
        BY <1>r, <1>a, <2>1, <3>1, <3>2 DEF Periods!ReadinessToCome
    <2>2. CASE r15' = "failed"
      BY <2>2 DEF Periods!ReadinessToCome
    <2>3. CASE /\ x.seq = r10 /\ r11'.of = x.of /\ r15' = "shown"
               /\ r13' = Periods!Ceremony(r4, r11')
      <3>1. r4 # None => r11'.of = r4.id
        BY <1>n, <2>3 DEF Periods!Newest
      <3>2. r13' = None \/ r13'.of = r11'.of
        BY <2>0, <2>3
      <3> QED
        BY <1>a, <2>3, <3>1, <3>2 DEF Periods!ReadinessToCome
    <2> QED
      BY <1>a, <2>1, <2>2, <2>3
  <1>4. CASE Periods!ListAnswer
    <2>1. PICK pref \in r8 : Periods!ListArrives(pref) \/ Periods!ListFails(pref)
      BY <1>4 DEF Periods!ListAnswer
    <2>2. Periods!OneFlow'
      <3>1. r7' \subseteq r7 /\ (r6' = r6 \/ r7' = {})
        <4>1. r7' = r7 \ {f \in r7 : f.step = "reload"}
          BY <1>4 DEF Periods!ListAnswer
        <4>2. CASE {f \in r7 : f.step = "reload"} = {}
          BY <1>4, <4>1, <4>2 DEF Periods!ListAnswer
        <4>3. CASE {f \in r7 : f.step = "reload"} # {}
          BY <1>f, <4>1, <4>3 DEF Periods!OneFlow
        <4> QED
          BY <4>2, <4>3
      <3> QED
        BY <1>f, <3>1 DEF Periods!OneFlow
    <2>3. CASE Periods!ListArrives(pref)
      <3> DEFINE known == {p \in Period : r3'[p] # "none"}
      <3>1. CASE r4' = None /\ Periods!ClearDetails
        <4>1. r13' = None /\ r12' = "empty" /\ r9' = r9 /\ r10' = r10
          BY <3>1 DEF Periods!ClearDetails
        <4>2. Periods!Newest' /\ Periods!PanesOfSelection' /\ Periods!CeremonyToCome'
              /\ Periods!ReadinessToCome'
          BY <1>n, <3>1, <4>1 DEF Periods!Newest, Periods!PanesOfSelection, Periods!CeremonyToCome,
               Periods!ReadinessToCome
        <4> QED
          BY <1>i, <2>2, <4>2
      <3>2. CASE \E p \in Period : r4' = [id |-> p, status |-> r3'[p]] /\ Periods!LoadDetails(p)
        <4>1. PICK p \in Period : r4' = [id |-> p, status |-> r3'[p]] /\ Periods!LoadDetails(p)
          BY <3>2
        <4>2. r4'.id = p
          BY <4>1
        <4> QED
          BY <1>i, <1>2, <2>2, <4>1, <4>2
      <3> QED
        BY <2>3, <3>1, <3>2 DEF Periods!ListArrives
    <2>4. CASE Periods!ListFails(pref)
      <3>1. Periods!Newest' /\ Periods!PanesOfSelection' /\ Periods!CeremonyToCome'
        BY <1>n, <2>4, FrontEndAssumption DEF Periods!ListFails, Periods!Newest,
             Periods!PanesOfSelection, Periods!CeremonyToCome
      <3>2. Periods!ReadinessToCome'
        BY <1>r, <2>4 DEF Periods!ListFails, Periods!ReadinessToCome
      <3> QED
        BY <1>i, <2>2, <3>1, <3>2
    <2> QED
      BY <2>1, <2>3, <2>4
  <1>5. CASE Periods!Retry
    <2>1. UNCHANGED <<r4, r6, r7, r9, r10, r11, r12, r13, r15>> /\ r2' = "loading"
      BY <1>5 DEF Periods!Retry, Periods!Reload, Periods!paneVars
    <2>2. Periods!OneFlow' /\ Periods!Newest' /\ Periods!PanesOfSelection' /\ Periods!CeremonyToCome'
      BY <1>f, <1>n, <1>p, <2>1 DEF Periods!OneFlow, Periods!Newest,
           Periods!PanesOfSelection, Periods!CeremonyToCome
    <2>3. Periods!ReadinessToCome'
      BY <1>r, <2>1 DEF Periods!ReadinessToCome
    <2> QED
      BY <1>i, <2>2, <2>3
  <1>o. UNCHANGED <<r6, r7>> => Periods!OneFlow'
    BY <1>f DEF Periods!OneFlow
  <1>6. CASE Periods!SelectRow
    <2>1. PICK p \in Period : r4' = [id |-> p, status |-> r3[p]] /\ Periods!LoadDetails(p)
      BY <1>6 DEF Periods!SelectRow
    <2>2. UNCHANGED <<r6, r7>> /\ r4'.id = p
      BY <1>6, <2>1 DEF Periods!SelectRow
    <2> QED
      BY <1>i, <1>o, <1>2, <2>1, <2>2
  <1>7. CASE Periods!DetailAnswer
    <2>1. PICK x \in r9 :
            /\ r9' = r9 \ {x}
            /\ IF x.seq # r10
               THEN UNCHANGED <<r12, r11, r15, r13>>
               ELSE CASE x.kind = "snapshots" -> r12' = x.of /\ UNCHANGED <<r11, r15, r13>>
                      [] x.kind = "readiness" ->
                           /\ r11' \in Periods!Answers(x)
                           /\ r15' = "shown"
                           /\ r13' = Periods!Ceremony(r4, r11')
                           /\ UNCHANGED r12
                      [] x.kind = "acks" ->
                           /\ r13' = Periods!Ceremony(r4, r11)
                           /\ UNCHANGED <<r12, r11, r15>>
      BY <1>7 DEF Periods!DetailAnswer
    <2>2. UNCHANGED <<r2, r4, r6, r7, r10>>
      BY <1>7 DEF Periods!DetailAnswer, Periods!listVars
    <2>3. r12' = r12 \/ (x.seq = r10 /\ r12' = x.of)
      BY <1>0, <2>1 DEF Periods!Detail
    <2>4. \/ r13' = r13 /\ (x.seq # r10 \/ x.kind # "acks")
          \/ \E r : r13' = Periods!Ceremony(r4, r)
      BY <1>0, <2>1 DEF Periods!Detail
    <2>5. x.seq = r10 /\ x.kind = "readiness" => r11'.of = x.of
      BY <2>1 DEF Periods!Answers
    <2>6. Periods!ReadinessToCome'
      <3>1. \/ /\ UNCHANGED <<r11, r15>> /\ (x.seq # r10 \/ x.kind # "readiness")
               /\ r13' = r13 \/ r13' = Periods!Ceremony(r4, r11)
            \/ /\ x.seq = r10 /\ r11'.of = x.of /\ r15' = "shown"
               /\ r13' = Periods!Ceremony(r4, r11')
        BY <1>0, <2>1, <2>5 DEF Periods!Detail
      <3> QED
        BY <1>a, <2>1, <2>2, <3>1
    <2> QED
      BY <1>i, <1>o, <1>3, <2>1, <2>2, <2>3, <2>4, <2>6
  <1>8. CASE Periods!DetailFails
    <2>1. PICK x \in r9 :
            /\ r9' = r9 \ {x}
            /\ r12' = IF x.seq = r10 /\ x.kind = "snapshots" THEN "failed" ELSE r12
            /\ r13' = IF x.seq = r10 /\ x.kind = "acks" THEN Periods!Ceremony(r4, r11) ELSE r13
            /\ r15' = IF x.seq = r10 /\ x.kind = "readiness" THEN "failed" ELSE r15
      BY <1>8 DEF Periods!DetailFails
    <2>2. UNCHANGED <<r2, r4, r6, r7, r10, r11>>
      BY <1>8 DEF Periods!DetailFails, Periods!listVars
    <2>4. \/ r13' = r13 /\ (x.seq # r10 \/ x.kind # "acks")
          \/ \E r : r13' = Periods!Ceremony(r4, r)
      BY <2>1
    <2>6. Periods!ReadinessToCome'
      <3>1. \/ /\ r15' = r15 /\ (x.seq # r10 \/ x.kind # "readiness")
               /\ r13' = r13 \/ r13' = Periods!Ceremony(r4, r11)
            \/ r13' = r13 /\ r15' = "failed"
        BY <2>1
      <3> QED
        BY <1>a, <2>1, <2>2, <3>1
    <2> QED
      BY <1>i, <1>o, <1>3, <2>1, <2>2, <2>4, <2>6
  <1>9. CASE Periods!RetryDetails
    <2>1. r4 # None /\ Periods!LoadDetails(r4.id) /\ UNCHANGED <<r2, r4, r6, r7>>
      BY <1>9 DEF Periods!RetryDetails, Periods!listVars
    <2>2. r4.id \in Period
      BY <1>n, <2>1 DEF Periods!Newest
    <2> QED
      BY <1>i, <1>o, <1>2, <2>1, <2>2
\* An action begins only when none is under way.
  <1>10. ASSUME NEW f, r7' = r7 \cup {f}, Periods!Click, r6 = FALSE, r6' = TRUE \/ f.step = "dialog"
         PROVE  Periods!OneFlow'
    <2>1. \A g \in r7 : g.step = "dialog"
      BY <1>f, <1>10 DEF Periods!OneFlow
    <2>2. r7 = {}
      BY <1>10, <2>1 DEF Periods!Click, Periods!Modal
    <2> QED
      BY <1>10, <2>2 DEF Periods!OneFlow
  <1>11. ASSUME NEW action, NEW p, Periods!Start(action, p), Periods!Click
         PROVE  Periods!OneFlow'
    <2>1. PICK f : f = Periods!Flow(action, p, "dialog")
      OBVIOUS
    <2>2. f.step = "dialog" /\ r7' = r7 \cup {f} /\ ~r6
      BY <1>11, <2>1 DEF Periods!Flow, Periods!Start
    <2>3. \A g \in r7 : g.step = "dialog"
      BY <1>f, <2>2 DEF Periods!OneFlow
    <2>4. r7 = {}
      BY <1>11, <2>3 DEF Periods!Click, Periods!Modal
    <2> QED
      BY <2>2, <2>4 DEF Periods!OneFlow
  <1>12. CASE Periods!RowButton
    BY <1>i, <1>1, <1>11, <1>12 DEF Periods!RowButton, Periods!listVars, Periods!paneVars
  <1>13. CASE Periods!CeremonyButton
    BY <1>i, <1>1, <1>11, <1>13 DEF Periods!CeremonyButton, Periods!listVars, Periods!paneVars
  <1>14. ASSUME NEW p, NEW action, Periods!Click, ~r6, r6' = TRUE,
                r7' = r7 \cup {Periods!Flow(action, p, "post")}
         PROVE  Periods!OneFlow'
    <2>3. \A g \in r7 : g.step = "dialog"
      BY <1>f, <1>14 DEF Periods!OneFlow
    <2>4. r7 = {}
      BY <1>14, <2>3 DEF Periods!Click, Periods!Modal
    <2> QED
      BY <1>14, <2>4 DEF Periods!OneFlow
  <1>15. CASE Periods!SubmitForm
    BY <1>i, <1>1, <1>14, <1>15 DEF Periods!SubmitForm, Periods!listVars, Periods!paneVars
  <1>16. CASE Periods!Verify
    BY <1>i, <1>1, <1>14, <1>16 DEF Periods!Verify, Periods!listVars, Periods!paneVars
\* The one action under way takes its next step, or ends.
  <1>17. ASSUME NEW f \in r7, NEW g, r7' = (r7 \ {f}) \cup {g},
                r6' \/ g.step = "dialog"
         PROVE  Periods!OneFlow'
    <2>1. r7' = {g}
      BY <1>f, <1>17 DEF Periods!OneFlow
    <2> QED
      BY <1>17, <2>1 DEF Periods!OneFlow
  <1>18. ASSUME NEW f \in r7, r7' = r7 \ {f}
         PROVE  Periods!OneFlow'
    <2>1. r7' = {}
      BY <1>f, <1>18 DEF Periods!OneFlow
    <2> QED
      BY <2>1 DEF Periods!OneFlow
  <1>19. CASE Periods!CloseDialog
    <2>1. Periods!OneFlow'
      <3>1. PICK f \in r7 : \/ r7' = (r7 \ {f}) \cup {Periods!Flow(f.action, f.id, "post")} /\ r6' = TRUE
                            \/ r7' = r7 \ {f}
        BY <1>19 DEF Periods!CloseDialog
      <3> QED
        BY <1>17, <1>18, <3>1
    <2> QED
      BY <1>i, <1>1, <1>19, <2>1 DEF Periods!CloseDialog, Periods!listVars, Periods!paneVars
  <1>20. ASSUME NEW f \in r7, Periods!Refused(f)
         PROVE  Periods!IInv'
    BY <1>i, <1>1, <1>18, <1>20 DEF Periods!Refused, Periods!listVars, Periods!paneVars
  <1>21. CASE Periods!AnswerAction
    <2>1. PICK f \in r7 : f.step = "post" /\ (Periods!Accepted(f) \/ Periods!Refused(f))
      BY <1>21 DEF Periods!AnswerAction
    <2>2. CASE Periods!Accepted(f)
      <3>1. r6' /\ r7' = (r7 \ {f}) \cup {Periods!Flow(f.action, f.id, "reload")}
        BY <1>f, <2>1, <2>2 DEF Periods!Accepted, Periods!OneFlow
      <3>2. r2' = "loading" /\ (r4' = None \/ r4' = r4) /\ UNCHANGED <<r9, r10, r11, r12, r13, r15>>
        BY <2>2 DEF Periods!Accepted, Periods!Reload, Periods!paneVars
      <3>3. Periods!Newest' /\ Periods!PanesOfSelection' /\ Periods!CeremonyToCome'
        BY <1>n, <1>p, <3>2 DEF Periods!Newest, Periods!PanesOfSelection, Periods!CeremonyToCome
      <3>4. Periods!ReadinessToCome'
        BY <1>r, <3>2 DEF Periods!ReadinessToCome
      <3> QED
        BY <1>i, <1>17, <3>1, <3>3, <3>4
    <2> QED
      BY <1>20, <2>1, <2>2
  <1>22. CASE Periods!AnswerOverlap
    <2>1. PICK f \in r7 : r7' = (r7 \ {f}) \cup {Periods!Flow("create", f.id, "dialog")}
      BY <1>22 DEF Periods!AnswerOverlap
    <2>2. PICK g : g = Periods!Flow("create", f.id, "dialog")
      OBVIOUS
    <2>3. g.step = "dialog"
      BY <2>2 DEF Periods!Flow
    <2>4. Periods!OneFlow'
      BY <1>17, <2>1, <2>2, <2>3
    <2> QED
      BY <1>i, <1>1, <1>22, <2>4 DEF Periods!AnswerOverlap, Periods!listVars, Periods!paneVars
  <1>23. CASE Periods!AnswerVerify
    BY <1>20, <1>23 DEF Periods!AnswerVerify
  <1>24. CASE UNCHANGED Periods!vars
    BY <1>i, <1>1, <1>o, <1>24 DEF Periods!vars, Periods!listVars, Periods!paneVars
  <1> QED
    BY <1>4, <1>5, <1>6, <1>7, <1>8, <1>9, <1>12, <1>13, <1>15, <1>16, <1>19, <1>21, <1>22,
       <1>23, <1>24 DEF Periods!Next

\* What the invariant says of the page.
LEMMA PeriodsOwes == Periods!IInv => Periods!PanesOfSelection /\ Periods!CeremonyOfSelection
                                     /\ Periods!OneMutation
  <1> SUFFICES ASSUME Periods!IInv
               PROVE  Periods!PanesOfSelection /\ Periods!CeremonyOfSelection /\ Periods!OneMutation
    OBVIOUS
  <1>1. Periods!PanesOfSelection
    BY DEF Periods!IInv
  <1>2. Periods!CeremonyOfSelection
    BY DEF Periods!IInv, Periods!CeremonyToCome, Periods!ReadinessToCome, Periods!CeremonyOfSelection
  <1>3. Periods!OneMutation
    <2> DEFINE P == {f \in r7 : f.step = "post"}
    <2>1. \A f, g \in P : f = g
      BY DEF Periods!IInv, Periods!OneFlow
    <2>2. P = {} \/ \E f : P = {f}
      BY <2>1
    <2> HIDE DEF P
    <2>3. Cardinality(P) = 0 \/ Cardinality(P) = 1
      BY <2>2, FS_EmptySet, FS_Singleton
    <2>4. Periods!Cardinality(P) = Cardinality(P)
      BY DEF Periods!Cardinality, Cardinality
    <2> USE DEF P
    <2> QED
      BY <2>3, <2>4 DEF Periods!OneMutation
  <1> QED
    BY <1>1, <1>2, <1>3

-------------------------------------------------------------------------------
(* The tools of the roster page (roster.js), and the licence page.           *)

\* At first nothing is listed or suggested.
LEMMA ToolsInit == Tools!Init => Tools!IInv
  BY DEF Tools!Init, Tools!IInv, Tools!Newest, Tools!SeenFirst, Tools!OpenShiftsOfNewestCall,
         Tools!FilledWasSeen

\* Answers of an earlier list are dropped (openShiftSeq), and the
\* suggestions that are applied are those of the preview.
LEMMA ToolsNext == Tools!IInv /\ [Tools!Next]_Tools!vars => Tools!IInv'
  <1> SUFFICES ASSUME Tools!IInv, [Tools!Next]_Tools!vars PROVE Tools!IInv'
    OBVIOUS
  <1>n. Tools!Newest /\ Tools!OpenShiftsOfNewestCall
    BY DEF Tools!IInv
  <1>s. Tools!SeenFirst /\ Tools!FilledWasSeen
    BY DEF Tools!IInv
  <1>i. Tools!Newest' /\ Tools!OpenShiftsOfNewestCall' /\ Tools!SeenFirst' /\ Tools!FilledWasSeen'
        => Tools!IInv'
    BY DEF Tools!IInv
  <1>1. UNCHANGED <<r8, r9, r10, r11>> => Tools!Newest' /\ Tools!OpenShiftsOfNewestCall'
    BY <1>n DEF Tools!Newest, Tools!OpenShiftsOfNewestCall
  <1>2. UNCHANGED <<r5, r6, r7>> => Tools!SeenFirst' /\ Tools!FilledWasSeen'
    BY <1>s DEF Tools!SeenFirst, Tools!FilledWasSeen
  <1> USE DEF Tools!copyVars, Tools!fillVars, Tools!openVars
  <1>3. CASE Tools!Switch \/ Tools!Rendered \/ Tools!ChooseSource
             \/ (\E dryRun \in BOOLEAN : Tools!RunCopyPeriod(dryRun)) \/ UNCHANGED Tools!vars
    BY <1>i, <1>1, <1>2, <1>3 DEF Tools!Switch, Tools!Rendered, Tools!ChooseSource,
         Tools!RunCopyPeriod, Tools!vars
  <1>4. CASE Tools!CopyAnswer
    BY <1>i, <1>1, <1>2, <1>4 DEF Tools!CopyAnswer
\* The suggestions.
  <1>f. ASSUME NEW step, NEW f, f = [r5 EXCEPT !.step = step], r5 # None
        PROVE  f = [of |-> r5.of, step |-> step] /\ f.of = r5.of /\ f.step = step
    <2>1. PICK of, was : r5 = [of |-> of, step |-> was]
      BY <1>f, <1>s DEF Tools!SeenFirst
    <2> QED
      BY <1>f, <2>1
  <1>5. CASE Tools!SuggestFill
    <2>1. r5' = [of |-> r1, step |-> "preview"] /\ UNCHANGED <<r6, r7, r8, r9, r10, r11>>
      BY <1>5 DEF Tools!SuggestFill
    <2> QED
      BY <1>i, <1>1, <1>s, <2>1 DEF Tools!SeenFirst, Tools!FilledWasSeen
  <1>6. CASE Tools!SuggestPreviewed
    <2>1. r5 # None /\ r6' = r6 /\ UNCHANGED <<r8, r9, r10, r11>>
      BY <1>6 DEF Tools!SuggestPreviewed
    <2>2. CASE r5' = [r5 EXCEPT !.step = "dialog"] /\ r7' = r7 \cup {r5.of}
      <3>1. r5' = [of |-> r5.of, step |-> "dialog"] /\ r5'.of = r5.of /\ r5'.step = "dialog"
        BY <1>f, <2>1, <2>2
      <3> QED
        BY <1>i, <1>1, <1>s, <2>1, <2>2, <3>1 DEF Tools!SeenFirst, Tools!FilledWasSeen
    <2>3. CASE r5' = None /\ r7' = r7
      BY <1>i, <1>1, <1>s, <2>1, <2>3 DEF Tools!SeenFirst, Tools!FilledWasSeen
    <2> QED
      BY <1>6, <2>2, <2>3 DEF Tools!SuggestPreviewed
  <1>7. CASE Tools!SuggestAnswered
    <2>1. /\ r5 # None /\ r5.step = "dialog" /\ UNCHANGED <<r6, r7, r8, r9, r10, r11>>
          /\ r5' = [r5 EXCEPT !.step = "confirm"] \/ r5' = None
      BY <1>7 DEF Tools!SuggestAnswered
    <2>2. r5.of \in r7
      BY <1>s, <2>1 DEF Tools!SeenFirst
    <2>3. r5' = None \/ (r5' = [of |-> r5.of, step |-> "confirm"] /\ r5'.of = r5.of /\ r5'.step = "confirm")
      BY <1>f, <2>1
    <2> QED
      BY <1>i, <1>1, <1>s, <2>1, <2>2, <2>3 DEF Tools!SeenFirst, Tools!FilledWasSeen
  <1>8. CASE Tools!SuggestConfirmed
    <2>1. r5' = None /\ r6' \in {r6, r6 \cup {r5.of}} /\ r7' = r7 /\ UNCHANGED <<r8, r9, r10, r11>>
      BY <1>8 DEF Tools!SuggestConfirmed
    <2>2. r5.of \in r7
      BY <1>8, <1>s DEF Tools!SuggestConfirmed, Tools!SeenFirst
    <2> QED
      BY <1>i, <1>1, <1>s, <2>1, <2>2 DEF Tools!SeenFirst, Tools!FilledWasSeen
\* The open shifts.
  <1>9. ASSUME Tools!LoadOpenShiftList, UNCHANGED <<r5, r6, r7>>
        PROVE  Tools!IInv'
    <2>1. PICK q : q = [seq |-> r8 + 1, of |-> r1]
      OBVIOUS
    <2>2. q.seq = r8 + 1 /\ q.of = r1 /\ r8' = r8 + 1 /\ r9' = {} /\ r10' = r1 /\ r11' = r11 \cup {q}
      BY <1>9, <2>1 DEF Tools!LoadOpenShiftList
    <2>3. r8 \in Nat /\ \A x \in r11 : x.seq \in 0..r8
      BY <1>n DEF Tools!Newest
    <2>4. Tools!Newest' /\ Tools!OpenShiftsOfNewestCall'
      BY <2>2, <2>3 DEF Tools!Newest, Tools!OpenShiftsOfNewestCall
    <2> QED
      BY <1>i, <1>2, <1>9, <2>4
  <1>10. CASE Tools!OpenShiftListDue \/ Tools!TouchOpenShift
    BY <1>9, <1>10 DEF Tools!OpenShiftListDue, Tools!TouchOpenShift
  <1>11. CASE Tools!OpenListAnswer
    <2>1. PICK q \in r11 :
            /\ r11' = r11 \ {q}
            /\ r9' \in IF q.seq = r8 THEN {r9, r9 \cup {q.of}} ELSE {r9}
            /\ UNCHANGED <<r5, r6, r7, r8, r10>>
      BY <1>11 DEF Tools!OpenListAnswer
    <2>2. q.seq = r8 => q.of = r10
      BY <1>n DEF Tools!Newest
    <2> QED
      BY <1>i, <1>2, <1>n, <2>1, <2>2 DEF Tools!Newest, Tools!OpenShiftsOfNewestCall
  <1> QED
    BY <1>3, <1>4, <1>5, <1>6, <1>7, <1>8, <1>10, <1>11 DEF Tools!Next

\* At first nothing is suggested.
LEMMA LicenceInit == Licence!Init => Licence!IInv
  BY DEF Licence!Init, Licence!Opened, Licence!IInv, Licence!SuggestionsOfNewest

\* Suggestions of an earlier text are dropped (searchGeneration).
LEMMA LicenceNext == Licence!IInv /\ [Licence!Next]_Licence!vars => Licence!IInv'
  <1> SUFFICES ASSUME Licence!IInv, [Licence!Next]_Licence!vars PROVE Licence!IInv'
    OBVIOUS
  <1> USE DEF Licence!IInv, Licence!SuggestionsOfNewest
  <1>1. UNCHANGED Licence!searchVars => Licence!IInv'
    BY DEF Licence!searchVars
  <1>2. CASE Licence!SeatsAnswer \/ Licence!RemoveSeat \/ Licence!RemoveSeatAnswer \/ Licence!AssignAnswer
             \/ Licence!Apply \/ Licence!OpenModal \/ Licence!CloseModal \/ Licence!ConfirmRemove
             \/ Licence!ChangeFails \/ UNCHANGED Licence!vars
    BY <1>1, <1>2 DEF Licence!SeatsAnswer, Licence!RemoveSeat, Licence!RemoveSeatAnswer,
         Licence!AssignAnswer, Licence!Apply, Licence!OpenModal, Licence!CloseModal,
         Licence!ConfirmRemove, Licence!ChangeFails, Licence!vars
  <1>3. CASE Licence!Type
    <2>1. CASE r5' \in Name
      <3>1. r7' = r7 + 1 /\ r6' = [q |-> r5', gen |-> r7 + 1] /\ r9' = r9
        BY <1>3, <2>1 DEF Licence!Type
      <3>2. r6'.gen = r7' /\ r6' # None
        <4>1. r6' \in [q : Name, gen : Nat]
          BY <2>1, <3>1
        <4> QED
          BY <3>1, <4>1, FrontEndAssumption
      <3> QED
        BY <3>1, <3>2
    <2>2. CASE r5' \notin Name
      BY <1>3, <2>2 DEF Licence!Type
    <2> QED
      BY <2>1, <2>2
  <1>4. CASE Licence!TimerFires
    BY <1>4 DEF Licence!TimerFires, Licence!Suggestions
  <1>5. CASE Licence!SearchAnswer
    <2>1. PICK s \in r8, hits \in SUBSET Name :
            r9' \in IF s.gen # r7 THEN {r9}
                    ELSE {Licence!Suggestions(s.gen, hits \ r2), Licence!Suggestions(s.gen, None)}
      BY <1>5 DEF Licence!SearchAnswer
    <2>2. r9' = r9 \/ r9'.gen = r7
      BY <2>1 DEF Licence!Suggestions
    <2> QED
      BY <1>5, <2>2 DEF Licence!SearchAnswer
  <1>6. CASE Licence!CloseSuggest
    BY <1>6 DEF Licence!CloseSuggest
  <1>7. CASE Licence!AssignSeat
    BY <1>7 DEF Licence!AssignSeat
  <1>8. CASE Licence!Reloaded
    BY <1>8 DEF Licence!Reloaded
  <1> QED
    BY <1>2, <1>3, <1>4, <1>5, <1>6, <1>7, <1>8 DEF Licence!Next

-------------------------------------------------------------------------------
(* The form of a policy.                                                     *)

\* At first the form shows what is saved.
LEMMA PolicyInit == Policy!Init => Policy!IInv
  <1> SUFFICES ASSUME Policy!Init PROVE Policy!IInv
    OBVIOUS
  <1>1. r3 = [list |-> r3.list, restricted |-> r3.restricted]
    BY DEF Policy!Init, Policy!Policies
  <1> QED
    BY <1>1 DEF Policy!Init, Policy!IInv, Policy!DirtyIsDifference, Policy!NeverLocksOut, Policy!Policy

\* Every change computes anew what is not saved, and a list of nobody is
\* refused.
LEMMA PolicyNext == Policy!IInv /\ [Policy!Next]_Policy!vars => Policy!IInv'
  <1> SUFFICES ASSUME Policy!IInv, [Policy!Next]_Policy!vars PROVE Policy!IInv'
    OBVIOUS
  <1> DEFINE B == r3 = Policy!Policy(r3.list, r3.restricted)
  <1>b. B /\ Policy!DirtyIsDifference /\ Policy!NeverLocksOut
    BY DEF Policy!IInv
  <1>i. B' /\ Policy!DirtyIsDifference' /\ Policy!NeverLocksOut' => Policy!IInv'
    BY DEF Policy!IInv
\* The form is as it was, or edited.
  <1> DEFINE Kept == B' /\ Policy!DirtyIsDifference'
  <1>1. UNCHANGED Policy!stateVars => Kept
    BY <1>b DEF Policy!stateVars, Policy!DirtyIsDifference, Policy!Policy
  <1>2. ASSUME NEW l, NEW r, Policy!Edit(l, r) PROVE Kept
    BY <1>b, <1>2 DEF Policy!Edit, Policy!RecomputeDirty, Policy!DirtyIsDifference, Policy!Policy
  <1>3. ASSUME NEW q, NEW found, NEW otherwise, Policy!PickBestMatch(q, found, otherwise) PROVE Kept
    BY <1>1, <1>2, <1>3 DEF Policy!PickBestMatch, Policy!NoPick, Policy!Pick
  <1>4. UNCHANGED r10 => Policy!NeverLocksOut'
    BY <1>b DEF Policy!NeverLocksOut
  <1>5. ASSUME NEW l, NEW r, Policy!Post(l, r) PROVE Policy!NeverLocksOut'
    <2>1. PICK p : p = Policy!Policy(l, r)
      OBVIOUS
    <2>2. p.list = l /\ p.restricted = r
      BY <2>1 DEF Policy!Policy
    <2>3. r10' = r10 \/ (r10' = r10 \cup {p} /\ ~(r /\ l = {}))
      BY <1>5, <2>1 DEF Policy!Post
    <2> QED
      BY <1>b, <2>2, <2>3 DEF Policy!NeverLocksOut
  <1> HIDE DEF Kept
  <1>k. Kept /\ Policy!NeverLocksOut' => Policy!IInv'
    BY <1>i DEF Kept
  <1>6. CASE Policy!RemoveChip \/ Policy!Restrict
    BY <1>k, <1>2, <1>4, <1>6 DEF Policy!RemoveChip, Policy!Restrict
  <1>7. CASE Policy!Discard
    <2>1. r3' = r3 /\ r1' = r3.list /\ r2' = r3.restricted /\ r4' = FALSE
      BY <1>7 DEF Policy!Discard
    <2>2. Kept
      BY <1>b, <2>1 DEF Kept, Policy!DirtyIsDifference, Policy!Policy
    <2> QED
      BY <1>k, <1>4, <1>7, <2>2 DEF Policy!Discard
  <1>8. CASE Policy!Type \/ Policy!TimerFires \/ Policy!SearchFails
    BY <1>k, <1>1, <1>4, <1>8 DEF Policy!Type, Policy!TimerFires, Policy!SearchFails
  <1>9. CASE Policy!PressEnter
    BY <1>k, <1>1, <1>2, <1>3, <1>4, <1>9 DEF Policy!PressEnter, Policy!NoPick, Policy!Pick
  <1>10. CASE Policy!Blur
    BY <1>k, <1>3, <1>4, <1>10 DEF Policy!Blur
  <1>11. CASE Policy!SearchAnswer
    BY <1>k, <1>1, <1>2, <1>4, <1>11 DEF Policy!SearchAnswer, Policy!NoPick, Policy!Pick
  <1>12. CASE Policy!Submit
    <2>1. CASE UNCHANGED <<Policy!stateVars, r10>>
      BY <1>k, <1>1, <1>4, <2>1
    <2>2. CASE Policy!PickBestMatch(r5, r8, r7) /\ Policy!Post(r1', r2')
      BY <1>k, <1>3, <1>5, <2>2
    <2> QED
      BY <1>12, <2>1, <2>2 DEF Policy!Submit
  <1>13. CASE Policy!Finalized
    <2>1. Policy!Post(r1', r2')
      BY <1>13 DEF Policy!Finalized
    <2>2. Kept
      BY <1>1, <1>3, <1>13 DEF Policy!Finalized, Policy!NoPick
    <2> QED
      BY <1>k, <1>5, <2>1, <2>2
  <1>14. CASE Policy!Saved
    <2>1. PICK p \in r10, kept \in SUBSET Name :
            /\ r10' = r10 \ {p}
            /\ r3' = Policy!Policy(kept, p.restricted)
            /\ r1' = kept /\ r2' = p.restricted
            /\ r4' = FALSE
      BY <1>14 DEF Policy!Saved
    <2>2. r3'.list = kept /\ r3'.restricted = p.restricted
      BY <2>1 DEF Policy!Policy
    <2>3. Kept
      BY <2>1, <2>2 DEF Kept, Policy!DirtyIsDifference
    <2>4. Policy!NeverLocksOut'
      BY <1>b, <2>1 DEF Policy!NeverLocksOut
    <2> QED
      BY <1>k, <2>3, <2>4
  <1>15. CASE Policy!Refused
    <2>1. Policy!NeverLocksOut'
      BY <1>b, <1>15 DEF Policy!Refused, Policy!NeverLocksOut
    <2> QED
      BY <1>k, <1>1, <1>15, <2>1 DEF Policy!Refused
  <1>16. CASE UNCHANGED Policy!vars
    BY <1>k, <1>1, <1>4, <1>16 DEF Policy!vars
  <1> QED
    BY <1>6, <1>7, <1>8, <1>9, <1>10, <1>11, <1>12, <1>13, <1>14, <1>15, <1>16 DEF Policy!Next

-------------------------------------------------------------------------------
(* The page of rotation patterns.                                            *)

\* At first no dialog is open.
LEMMA PatternsInit == Patterns!Init => Patterns!IInv
  BY DEF Patterns!Init, Patterns!IInv, Patterns!Newest, Patterns!TickedBeside,
         Patterns!DaysOfEdited, Patterns!In, Patterns!NoChoice

\* Answers of an earlier choice are dropped (loadSeq), and the days of the
\* editor are those of the pattern that is opened.
LEMMA PatternsNext == Patterns!IInv /\ [Patterns!Next]_Patterns!vars => Patterns!IInv'
  <1> SUFFICES ASSUME Patterns!IInv, [Patterns!Next]_Patterns!vars PROVE Patterns!IInv'
    OBVIOUS
  <1>n. Patterns!Newest /\ Patterns!TickedBeside
    BY DEF Patterns!IInv
  <1>d. Patterns!DaysOfEdited
    BY DEF Patterns!IInv
  <1>i. Patterns!Newest' /\ Patterns!TickedBeside' /\ Patterns!DaysOfEdited' => Patterns!IInv'
    BY DEF Patterns!IInv
  <1>1. UNCHANGED Patterns!dialogVars => Patterns!Newest' /\ Patterns!TickedBeside'
    BY <1>n DEF Patterns!dialogVars, Patterns!Newest, Patterns!TickedBeside
  <1>2. r7' \in {r7, None} /\ r4' \in {r4, None} => Patterns!DaysOfEdited'
    BY <1>d DEF Patterns!DaysOfEdited, Patterns!In
  <1>3. CASE Patterns!ListAnswer
    <2>1. r7' = r7 /\ UNCHANGED Patterns!dialogVars /\ r4' \in {r4, None}
      BY <1>3 DEF Patterns!ListAnswer, Patterns!Close
    <2> QED
      BY <1>i, <1>1, <1>2, <2>1
  <1>4. CASE Patterns!Open \/ Patterns!ChangeWeeks \/ Patterns!Cancel \/ Patterns!Assign
             \/ UNCHANGED Patterns!vars
    BY <1>i, <1>1, <1>2, <1>4 DEF Patterns!Open, Patterns!ChangeWeeks, Patterns!Cancel,
         Patterns!Assign, Patterns!vars
  <1>5. CASE Patterns!Opened
    <2>1. PICK o \in r3 :
            /\ r4' = [kind |-> o.kind, of |-> o.of, no |-> r6 + 1]
            /\ r7' = IF o.kind = "edit" THEN o.of ELSE r7
      BY <1>5 DEF Patterns!Opened
    <2>2. r9' = FALSE /\ r10' = FALSE /\ r11' = None /\ r12' = {} /\ r13' = 0
      BY <1>5 DEF Patterns!Opened
    <2>3. Patterns!DaysOfEdited'
      BY <2>1 DEF Patterns!DaysOfEdited, Patterns!In
    <2>4. Patterns!Newest' /\ Patterns!TickedBeside'
      BY <2>2 DEF Patterns!Newest, Patterns!TickedBeside
    <2> QED
      BY <1>i, <2>3, <2>4
  <1>6. CASE Patterns!Save
    <2>1. r7' = r7 /\ UNCHANGED Patterns!dialogVars /\ r4' \in {r4, None}
      BY <1>6 DEF Patterns!Save
    <2> QED
      BY <1>i, <1>1, <1>2, <2>1
  <1>7. CASE Patterns!Saved
    <2>1. r7' = r7 /\ UNCHANGED Patterns!dialogVars /\ r4' \in {r4, None}
      BY <1>7 DEF Patterns!Saved, Patterns!Close
    <2> QED
      BY <1>i, <1>1, <1>2, <2>1
  <1>8. CASE Patterns!Choose
    <2>1. r4' = r4 /\ r7' = r7
      BY <1>8 DEF Patterns!Choose
    <2>2. PICK c : Patterns!Refresh(c)
      BY <1>8 DEF Patterns!Choose
    <2>3. r8' = c /\ r13' = r13 + 1 /\ r11' = None
      BY <2>2 DEF Patterns!Refresh
    <2>4. r13 \in Nat /\ \A q \in r12 : q.seq \in 0..r13
      BY <1>n DEF Patterns!Newest
    <2>5. CASE c.emp = None
      <3>1. r9' = (r9 /\ ~r10) /\ r10' = FALSE /\ r12' = r12
        BY <2>2, <2>5 DEF Patterns!Refresh
      <3>2. Patterns!Newest'
        BY <2>3, <2>4, <3>1 DEF Patterns!Newest
      <3>3. Patterns!TickedBeside'
        BY <2>3, <3>1 DEF Patterns!TickedBeside
      <3> QED
        BY <1>i, <1>2, <2>1, <3>2, <3>3
    <2>6. CASE c.emp # None
      <3>0. PICK q : q = [choice |-> c, seq |-> r13 + 1]
        OBVIOUS
      <3>1. r9' = r9 /\ r10' = r10 /\ r12' = r12 \cup {q} /\ q.choice = c /\ q.seq = r13 + 1
        BY <2>2, <2>6, <3>0 DEF Patterns!Refresh
      <3>2. Patterns!Newest'
        BY <2>3, <2>4, <3>1 DEF Patterns!Newest
      <3>3. Patterns!TickedBeside'
        BY <1>n, <2>3, <3>1 DEF Patterns!TickedBeside
      <3> QED
        BY <1>i, <1>2, <2>1, <3>2, <3>3
    <2> QED
      BY <2>5, <2>6
  <1>9. CASE Patterns!Tick
    <2>1. UNCHANGED <<r4, r7, r8, r11, r12, r13>> /\ r10' = FALSE
      BY <1>9 DEF Patterns!Tick
    <2>2. Patterns!Newest' /\ Patterns!TickedBeside'
      BY <1>n, <2>1 DEF Patterns!Newest, Patterns!TickedBeside
    <2> QED
      BY <1>i, <1>2, <2>1, <2>2
  <1>10. CASE Patterns!RefreshAnswer
    <2>1. PICK q \in r12, overlap \in BOOLEAN :
            /\ r12' = r12 \ {q}
            /\ IF q.seq = r13 THEN Patterns!Show(overlap, q.choice) ELSE UNCHANGED <<r9, r10, r11>>
            /\ UNCHANGED <<r4, r7, r8, r13>>
      BY <1>10 DEF Patterns!RefreshAnswer
    <2>2. Patterns!Newest'
      BY <1>n, <2>1 DEF Patterns!Newest
    <2>3. Patterns!TickedBeside'
      <3>1. CASE q.seq = r13 /\ overlap
        <4>1. r9' = TRUE /\ r10' = TRUE /\ r11' = q.choice /\ q.choice = r8
          BY <1>n, <2>1, <3>1 DEF Patterns!Show, Patterns!Newest
        <4> QED
          BY <2>1, <4>1 DEF Patterns!TickedBeside
      <3>2. CASE q.seq = r13 /\ ~overlap
        <4>1. r10' = FALSE /\ r11' = r11
          BY <2>1, <3>2 DEF Patterns!Show
        <4> QED
          BY <1>n, <2>1, <4>1 DEF Patterns!TickedBeside
      <3>3. CASE q.seq # r13
        BY <1>n, <2>1, <3>3 DEF Patterns!TickedBeside
      <3> QED
        BY <3>1, <3>2, <3>3
    <2> QED
      BY <1>i, <1>2, <2>1, <2>2, <2>3
  <1> QED
    BY <1>3, <1>4, <1>5, <1>6, <1>7, <1>8, <1>9, <1>10 DEF Patterns!Next

\* What the invariant says of the page.
LEMMA PatternsOwes == Patterns!IInv => Patterns!OverlapShown /\ Patterns!DaysOfEdited
  BY DEF Patterns!IInv, Patterns!TickedBeside, Patterns!OverlapShown

-------------------------------------------------------------------------------
(* The roster of the user.                                                   *)

\* At first the table is loading for the range that is chosen.
LEMMA MyRosterInit == MyRoster!Init => MyRoster!IInv
  <1> SUFFICES ASSUME MyRoster!Init PROVE MyRoster!IInv
    OBVIOUS
  <1>1. PICK f : f = MyRoster!Fetch(1, r2)
    OBVIOUS
  <1>2. /\ f = [seq |-> f.seq, range |-> f.range, rows |-> f.rows, swaps |-> f.swaps, got |-> f.got]
        /\ f.seq = 1 /\ f.range = r2
    BY <1>1 DEF MyRoster!Fetch
  <1>3. r6 = 1 /\ r7 = {f} /\ r12 = 0 /\ r13 = {} /\ r15 = {} /\ r3 = "loading"
    BY <1>1 DEF MyRoster!Init
  <1> QED
    BY <1>2, <1>3, FrontEndAssumption DEF MyRoster!IInv, MyRoster!Newest, MyRoster!ShowsTheChosen

\* Answers of an earlier range are dropped (rosterFetchSeq, teamSeq).
LEMMA MyRosterNext == MyRoster!IInv /\ [MyRoster!Next]_MyRoster!vars => MyRoster!IInv'
  <1> SUFFICES ASSUME MyRoster!IInv, [MyRoster!Next]_MyRoster!vars PROVE MyRoster!IInv'
    OBVIOUS
  <1> DEFINE Whole(f) == f = [seq |-> f.seq, range |-> f.range, rows |-> f.rows,
                              swaps |-> f.swaps, got |-> f.got]
  <1> DEFINE Own == /\ r6 \in Nat
                    /\ \A f \in r7 : f.seq \in 0..r6 /\ (f.seq = r6 => f.range = r2)
                    /\ r3 \in Dates => r3 = r2
             Fetches == \A f \in r7 : Whole(f)
             Others == /\ r12 \in Nat
                       /\ \A q \in r15 : q.seq \in 0..r12 /\ (q.seq = r12 => q.of = r14)
                       /\ r13 \subseteq {r14}
  <1>0. Own /\ Fetches /\ Others
    BY DEF MyRoster!IInv, MyRoster!Newest, MyRoster!ShowsTheChosen
  <1>i. Own' /\ Fetches' /\ Others' => MyRoster!IInv'
    BY DEF MyRoster!IInv, MyRoster!Newest, MyRoster!ShowsTheChosen
  <1>1. UNCHANGED <<r2, r3, r6, r7>> => Own' /\ Fetches'
    BY <1>0
  <1>2. UNCHANGED MyRoster!teamVars => Others'
    BY <1>0 DEF MyRoster!teamVars
  <1>w. ASSUME NEW s, NEW r, NEW a, NEW b, NEW g, NEW f,
               f = [seq |-> s, range |-> r, rows |-> a, swaps |-> b, got |-> g]
        PROVE  Whole(f)
    BY <1>w
  <1> HIDE DEF Whole
\* A fetch that begins is the newest.
  <1>3. ASSUME NEW r, MyRoster!FetchAndRender(r) PROVE Own' /\ Fetches'
    <2>1. PICK f : f = MyRoster!Fetch(r6 + 1, r)
      OBVIOUS
    <2>2. Whole(f) /\ f.seq = r6 + 1 /\ f.range = r
      BY <1>w, <2>1 DEF MyRoster!Fetch
    <2>3. r2' = r /\ r6' = r6 + 1 /\ r7' = r7 \cup {f} /\ r3' = "loading"
      BY <1>3, <2>1 DEF MyRoster!FetchAndRender
    <2> QED
      BY <1>0, <2>2, <2>3, FrontEndAssumption
\* An answer is noted with its fetch.
  <1>4. ASSUME NEW f \in r7, NEW g, Whole(g), g.seq = f.seq, g.range = f.range,
               r7' = (r7 \ {f}) \cup {g}, UNCHANGED <<r2, r3, r6>>
        PROVE  Own' /\ Fetches'
    BY <1>0, <1>4
\* A fetch is over.
  <1>5. ASSUME NEW f \in r7, r7' = r7 \ {f}, UNCHANGED <<r2, r6>>,
               r3' \in {r3, "failed", "unlinked"} \/ (f.seq = r6 /\ r3' = f.range)
        PROVE  Own' /\ Fetches'
    BY <1>0, <1>5, FrontEndAssumption
\* What is known of a fetch that an answer was noted with.
  <1>n. ASSUME NEW f, Whole(f), NEW g,
               \/ \E x : g = [f EXCEPT !.got = x]
               \/ g = [f EXCEPT !.swaps = TRUE]
               \/ g = [f EXCEPT !.rows = TRUE]
        PROVE  Whole(g) /\ g.seq = f.seq /\ g.range = f.range
    <2>1. PICK s, r, a, b, t : f = [seq |-> s, range |-> r, rows |-> a, swaps |-> b, got |-> t]
      BY <1>n DEF Whole
    <2>2. \E a1, b1, t1 : g = [seq |-> s, range |-> r, rows |-> a1, swaps |-> b1, got |-> t1]
      BY <1>n, <2>1
    <2> QED
      BY <1>w, <2>1, <2>2
  <1> HIDE DEF Own, Fetches, Others
  <1>6. CASE MyRoster!Choose
    <2>1. \E r \in Dates : MyRoster!FetchAndRender(r)
      BY <1>6 DEF MyRoster!Choose
    <2>2. UNCHANGED MyRoster!teamVars
      BY <1>6 DEF MyRoster!Choose
    <2> QED
      BY <1>0, <1>i, <1>2, <1>3, <2>1, <2>2
  <1>7. CASE MyRoster!ReadSwaps
    <2>1. PICK f \in r7 : r7' = (r7 \ {f}) \cup {[f EXCEPT !.got = r1]}
      BY <1>7 DEF MyRoster!ReadSwaps
    <2>2. PICK g : g = [f EXCEPT !.got = r1]
      OBVIOUS
    <2>3. Whole(f)
      BY <1>0 DEF Fetches
    <2>4. Whole(g) /\ g.seq = f.seq /\ g.range = f.range
      BY <1>n, <2>2, <2>3
    <2>5. UNCHANGED <<r2, r3, r6, MyRoster!teamVars>>
      BY <1>7 DEF MyRoster!ReadSwaps
    <2> QED
      BY <1>0, <1>i, <1>2, <1>4, <2>1, <2>2, <2>4, <2>5
  <1>8. CASE MyRoster!SwapsAnswer
    <2>1. PICK f \in r7 : r7' = (r7 \ {f}) \cup {[f EXCEPT !.swaps = TRUE]}
      BY <1>8 DEF MyRoster!SwapsAnswer
    <2>2. PICK g : g = [f EXCEPT !.swaps = TRUE]
      OBVIOUS
    <2>3. Whole(f)
      BY <1>0 DEF Fetches
    <2>4. Whole(g) /\ g.seq = f.seq /\ g.range = f.range
      BY <1>n, <2>2, <2>3
    <2>5. UNCHANGED <<r2, r3, r6, MyRoster!teamVars>>
      BY <1>8 DEF MyRoster!SwapsAnswer
    <2> QED
      BY <1>0, <1>i, <1>2, <1>4, <2>1, <2>2, <2>4, <2>5
  <1>9. CASE MyRoster!RowsAnswer
    <2>1. PICK f \in r7 : r7' = (r7 \ {f}) \cup {[f EXCEPT !.rows = TRUE]}
      BY <1>9 DEF MyRoster!RowsAnswer
    <2>2. PICK g : g = [f EXCEPT !.rows = TRUE]
      OBVIOUS
    <2>3. Whole(f)
      BY <1>0 DEF Fetches
    <2>4. Whole(g) /\ g.seq = f.seq /\ g.range = f.range
      BY <1>n, <2>2, <2>3
    <2>5. UNCHANGED <<r2, r3, r6, MyRoster!teamVars>>
      BY <1>9 DEF MyRoster!RowsAnswer
    <2> QED
      BY <1>0, <1>i, <1>2, <1>4, <2>1, <2>2, <2>4, <2>5
  <1>10. CASE MyRoster!Rendered
    <2>1. PICK f \in r7 : r7' = r7 \ {f} /\ ((f.seq = r6 /\ r3' = f.range) \/ r3' = r3)
      BY <1>10 DEF MyRoster!Rendered
    <2>2. UNCHANGED <<r2, r6, MyRoster!teamVars>>
      BY <1>10 DEF MyRoster!Rendered
    <2> QED
      BY <1>0, <1>i, <1>2, <1>5, <2>1, <2>2
  <1>11. CASE MyRoster!FetchFails
    <2>1. PICK f \in r7 : r7' = r7 \ {f} /\ r3' \in {r3, "failed", "unlinked"}
      BY <1>11 DEF MyRoster!FetchFails
    <2>2. UNCHANGED <<r2, r6, MyRoster!teamVars>>
      BY <1>11 DEF MyRoster!FetchFails
    <2> QED
      BY <1>0, <1>i, <1>2, <1>5, <2>1, <2>2
  <1>12. CASE MyRoster!Withdrawn
    <2>1. UNCHANGED MyRoster!teamVars
      BY <1>12 DEF MyRoster!Withdrawn
    <2>2. MyRoster!FetchAndRender(r2) \/ UNCHANGED MyRoster!tableVars
      BY <1>12 DEF MyRoster!Withdrawn
    <2>3. Own' /\ Fetches'
      BY <1>1, <1>3, <2>2 DEF MyRoster!tableVars
    <2> QED
      BY <1>0, <1>i, <1>2, <2>1, <2>3
  <1>13. CASE MyRoster!Withdraw \/ MyRoster!OpenSwapDialog \/ MyRoster!SwapCandidates
              \/ MyRoster!SubmitSwap \/ MyRoster!CloseDialog \/ UNCHANGED MyRoster!vars
    BY <1>0, <1>i, <1>1, <1>2, <1>13 DEF MyRoster!Withdraw, MyRoster!OpenSwapDialog,
         MyRoster!SwapCandidates, MyRoster!SubmitSwap, MyRoster!CloseDialog, MyRoster!vars,
         MyRoster!tableVars
  <1>14. CASE MyRoster!SwapAnswer
    <2>1. UNCHANGED <<MyRoster!tableVars, MyRoster!teamVars>>
      BY <1>14 DEF MyRoster!SwapAnswer
    <2> QED
      BY <1>0, <1>i, <1>1, <1>2, <2>1 DEF MyRoster!tableVars
  <1>15. CASE MyRoster!Decided
    BY <1>0, <1>i, <1>1, <1>2, <1>15 DEF MyRoster!Decided, MyRoster!tableVars
  <1>16. CASE MyRoster!LoadTeam
    <2>1. PICK r \in Dates : r14' = r /\ r15' = r15 \cup {[seq |-> r12 + 1, of |-> r]}
      BY <1>16 DEF MyRoster!LoadTeam
    <2>2. PICK q : q = [seq |-> r12 + 1, of |-> r]
      OBVIOUS
    <2>3. q.seq = r12 + 1 /\ q.of = r /\ r12' = r12 + 1 /\ r13' = {}
      BY <1>16, <2>2 DEF MyRoster!LoadTeam
    <2>4. Others'
      BY <1>0, <2>1, <2>2, <2>3 DEF Others
    <2> QED
      BY <1>0, <1>i, <1>1, <1>16, <2>4 DEF MyRoster!LoadTeam, MyRoster!tableVars
  <1>17. CASE MyRoster!TeamAnswer
    <2>1. PICK q \in r15 :
            /\ r15' = r15 \ {q}
            /\ r13' \in IF q.seq = r12 THEN {{}, r13 \cup {q.of}} ELSE {r13}
            /\ UNCHANGED <<r12, r14>>
      BY <1>17 DEF MyRoster!TeamAnswer
    <2>2. Others'
      BY <1>0, <2>1 DEF Others
    <2> QED
      BY <1>0, <1>i, <1>1, <1>17, <2>2 DEF MyRoster!TeamAnswer, MyRoster!tableVars
  <1> QED
    BY <1>6, <1>7, <1>8, <1>9, <1>10, <1>11, <1>12, <1>13, <1>14, <1>15, <1>16, <1>17 DEF MyRoster!Next

-------------------------------------------------------------------------------
(* Long tables: only the rows in the viewport are painted.                   *)

\* Division by the height of a row.
LEMMA Rows ==
  ASSUME NEW s \in Nat
  PROVE  /\ s \div RowHeight \in Nat
         /\ (s \div RowHeight) * RowHeight <= s
         /\ s < (s \div RowHeight) * RowHeight + RowHeight
  <1>1. RowHeight \in Nat \ {0}
    BY FrontEndAssumption
  <1> QED
    BY <1>1, Z3

\* And rounded up.
LEMMA RowsUp ==
  ASSUME NEW h \in Nat
  PROVE  /\ Tables!Ceil(h, RowHeight) \in Nat
         /\ h <= Tables!Ceil(h, RowHeight) * RowHeight
  <1>1. h + RowHeight - 1 \in Nat
    BY FrontEndAssumption
  <1> DEFINE c == (h + RowHeight - 1) \div RowHeight
  <1>2. c \in Nat /\ h + RowHeight - 1 < c * RowHeight + RowHeight
    BY <1>1, Rows
  <1>3. c * RowHeight \in Nat
    BY <1>2, FrontEndAssumption
  <1> HIDE DEF c
  <1>4. h <= c * RowHeight
    BY <1>2, <1>3, FrontEndAssumption
  <1> QED
    BY <1>2, <1>4 DEF Tables!Ceil, c

\* Rows are compared where they begin.
LEMMA RowOrder ==
  ASSUME NEW a \in Int, NEW b \in Int, a * RowHeight < b * RowHeight
  PROVE  a < b
  <1>1. RowHeight \in Nat /\ RowHeight >= 1
    BY FrontEndAssumption
  <1>2. ASSUME b <= a PROVE FALSE
    <2>1. PICK k \in Nat : a = b + k
      <3>1. a - b \in Nat /\ a = b + (a - b)
        BY <1>2
      <3> QED
        BY <3>1
    <2>2. a * RowHeight = b * RowHeight + k * RowHeight
      BY <1>1, <2>1
    <2>3. k * RowHeight \in Nat /\ b * RowHeight \in Int
      BY <1>1
    <2> QED
      BY <2>2, <2>3
  <1> QED
    BY <1>2

\* A row that begins before the lower end of what is seen and ends after its
\* upper end is in the window.
LEMMA InWindow ==
  ASSUME NEW n \in Nat, NEW h \in Nat, NEW s \in Nat, NEW all, NEW i \in 0..(n - 1),
         (i + 1) * RowHeight > s,
         i * RowHeight <= s \/ i * RowHeight < s + h
  PROVE  /\ i >= Tables!VisibleRange(n, h, s, all).start
         /\ i < Tables!VisibleRange(n, h, s, all).end
  <1> DEFINE q == s \div RowHeight
             first == Tables!Least(n - 1, q)
             c == Tables!Ceil(h, RowHeight)
             visible == IF h <= 0 THEN Unsized ELSE Tables!Most(1, c)
  <1>0. /\ RowHeight \in Nat /\ RowHeight >= 1 /\ Overscan \in Nat /\ Overscan >= 1
        /\ Unsized \in Nat /\ Unsized >= 1
    BY FrontEndAssumption
  <1>1. q \in Nat /\ q * RowHeight <= s /\ s < q * RowHeight + RowHeight
    BY Rows
  <1>2. c \in Nat /\ h <= c * RowHeight
    BY RowsUp
  <1> HIDE DEF q, c
  <1>p. /\ q * RowHeight \in Nat /\ c * RowHeight \in Nat /\ i * RowHeight \in Nat
        /\ (i + 1) * RowHeight \in Nat
    BY <1>0, <1>1, <1>2
  <1>3. q <= i
    <2>1. q * RowHeight < (i + 1) * RowHeight
      BY <1>1, <1>p
    <2>2. q < i + 1
      BY <1>1, <2>1, RowOrder
    <2> QED
      BY <1>1, <2>2
  <1>4. first \in Nat /\ first <= i
    BY <1>1, <1>3 DEF Tables!Least
  <1>5. i < first + visible + Overscan
    <2>1. visible \in Nat /\ visible >= 1
      BY <1>0, <1>2 DEF Tables!Most
    <2>2. CASE first = n - 1
      BY <1>0, <2>1, <2>2
    <2>3. CASE first = q
      <3>1. CASE i * RowHeight <= s
        <4>1. i * RowHeight < (q + 1) * RowHeight
          <5>1. (q + 1) * RowHeight = q * RowHeight + RowHeight
            BY <1>0, <1>1
          <5> QED
            BY <1>0, <1>1, <1>p, <3>1, <5>1
        <4>2. i < q + 1
          BY <1>1, <4>1, RowOrder
        <4> QED
          BY <1>0, <1>1, <2>1, <2>3, <4>2
      <3>2. CASE i * RowHeight > s
        <4>1. h > 0 /\ i * RowHeight < s + h
          BY <1>p, <3>2
        <4>2. (q + 1 + c) * RowHeight = q * RowHeight + RowHeight + c * RowHeight
          BY <1>0, <1>1, <1>2
        <4>3. i * RowHeight < (q + 1 + c) * RowHeight
          BY <1>0, <1>1, <1>2, <1>p, <4>1, <4>2
        <4>4. i < q + 1 + c
          BY <1>1, <1>2, <4>3, RowOrder
        <4>5. visible >= c
          BY <1>2, <4>1 DEF Tables!Most
        <4> QED
          BY <1>0, <1>1, <1>2, <2>1, <2>3, <4>4, <4>5
      <3> QED
        BY <1>p, <3>1, <3>2
    <2> QED
      BY <2>2, <2>3 DEF Tables!Least
  <1>6. visible \in Nat
    BY <1>0, <1>2 DEF Tables!Most
  <1>7. CASE n = 0 \/ all
    BY <1>7 DEF Tables!VisibleRange
  <1>8. CASE ~(n = 0 \/ all)
    <2>1. Tables!VisibleRange(n, h, s, all)
          = [start |-> Tables!Most(0, first - Overscan),
             end |-> Tables!Least(n, first + visible + Overscan)]
      BY <1>8 DEF Tables!VisibleRange, q, c
    <2> HIDE DEF first, visible
    <2>2. /\ Tables!VisibleRange(n, h, s, all).start = Tables!Most(0, first - Overscan)
          /\ Tables!VisibleRange(n, h, s, all).end = Tables!Least(n, first + visible + Overscan)
      BY <2>1
    <2> QED
      BY <1>0, <1>4, <1>5, <1>6, <2>2 DEF Tables!Most, Tables!Least
  <1> QED
    BY <1>7, <1>8

\* Where a table is scrolled to for the sake of a row.
LEMMA Revealed ==
  ASSUME NEW n \in Nat, NEW h \in Nat, NEW s \in Nat, NEW i \in 0..(n - 1), NEW t,
         t = Tables!Least(Tables!ScrollTopToRevealIndex(i, n, Tables!Most(RowHeight, h), s),
                          Tables!MaxTop(n, h))
  PROVE  /\ t \in Nat
         /\ (i + 1) * RowHeight > t
         /\ i * RowHeight <= t \/ i * RowHeight < t + h
  <1> DEFINE H == Tables!Most(RowHeight, h)
             a == i * RowHeight
             b == n * RowHeight
             next == IF a < s THEN a ELSE IF a + RowHeight > s + H THEN a + RowHeight - H ELSE s
  <1>0. RowHeight \in Nat /\ RowHeight >= 1
    BY FrontEndAssumption
  <1>1. H \in Nat /\ H >= RowHeight /\ H >= h /\ (h < RowHeight => H = RowHeight)
        /\ (h >= RowHeight => H = h)
    BY <1>0 DEF Tables!Most
  <1>2. a \in Nat /\ b \in Nat /\ (i + 1) * RowHeight = a + RowHeight
    BY <1>0
  <1>3. a + RowHeight <= b
    <2>1. ~(b < a + RowHeight)
      <3>1. ASSUME n * RowHeight < (i + 1) * RowHeight PROVE FALSE
        BY <3>1, RowOrder
      <3> QED
        BY <1>2, <3>1
    <2> QED
      BY <1>0, <1>2, <2>1
  <1>4. t = Tables!Least(Tables!Least(Tables!Most(0, next), Tables!Most(0, b - H)),
                         Tables!Most(0, b - h))
    <2>1. Tables!Most(i + 1, n) = n
      BY DEF Tables!Most
    <2> QED
      BY <2>1 DEF Tables!ScrollTopToRevealIndex, Tables!MaxTop
  <1> HIDE DEF a, b, H
  <1>5. next \in Int /\ next <= a /\ next + H >= a + RowHeight
    BY <1>0, <1>1, <1>2
  <1> HIDE DEF next
  <1>6. t \in Nat /\ t <= a /\ t + H >= a + RowHeight
    BY <1>0, <1>1, <1>2, <1>3, <1>4, <1>5 DEF Tables!Least, Tables!Most
  <1> QED
    BY <1>0, <1>1, <1>2, <1>6 DEF a

\* A row is scrolled to, painted, and then looked for.
LEMMA FoundRow ==
  ASSUME NEW v \in {"grid", "list"}, NEW n \in Nat, NEW h \in Nat, NEW s \in Nat, NEW i \in 0..(n - 1),
         NEW t, NEW N, NEW S, NEW all, N[v] = n, S[v] = t,
         t = Tables!Least(Tables!ScrollTopToRevealIndex(i, n, Tables!Most(RowHeight, h), s),
                          Tables!MaxTop(n, h))
  PROVE  /\ t \in Nat
         /\ i >= Tables!Paint(v, N, h, S, v, all).start
         /\ i < Tables!Paint(v, N, h, S, v, all).end
  <1>1. /\ t \in Nat /\ (i + 1) * RowHeight > t
        /\ i * RowHeight <= t \/ i * RowHeight < t + h
    BY Revealed
  <1>2. PICK b : b = Tables!VisibleRange(n, h, t, all)
    OBVIOUS
  <1>3. i >= b.start /\ i < b.end
    BY <1>1, <1>2, InWindow
  <1>4. Tables!Range(v, N, h, S, v, all) = Tables!VisibleRange(n, h, t, all)
    BY DEF Tables!Range, Tables!VisibleRange
  <1>5. Tables!Paint(v, N, h, S, v, all) = [start |-> b.start, end |-> b.end, count |-> n]
    BY <1>2, <1>4 DEF Tables!Paint
  <1> QED
    BY <1>1, <1>3, <1>5

\* At first every table is empty.
LEMMA TablesInit == Tables!Init => Tables!IInv
  <1> SUFFICES ASSUME Tables!Init PROVE Tables!IInv
    OBVIOUS
  <1>1. r2 \in Nat
    BY FrontEndAssumption DEF Tables!Init
  <1>2. Tables!Painted
    <2>1. PICK v \in Tables!Table : v = r4
      BY DEF Tables!Init, Tables!Table
    <2>2. r1[v] = 0 /\ r5[v] = [start |-> 0, end |-> 0, count |-> 0]
      BY DEF Tables!Init
    <2> QED
      BY <2>1, <2>2 DEF Tables!Painted, Tables!Paint, Tables!Range, Tables!VisibleRange
  <1>3. Tables!Lengths /\ Tables!Captured
    BY DEF Tables!Init, Tables!Lengths, Tables!Captured
  <1> QED
    BY <1>1, <1>2, <1>3 DEF Tables!Init, Tables!IInv, Tables!Table

\* The table on the screen is painted as it is, or will be in a frame to come.
LEMMA TablesNext == Tables!IInv /\ [Tables!Next]_Tables!vars => Tables!IInv'
  <1> SUFFICES ASSUME Tables!IInv, [Tables!Next]_Tables!vars PROVE Tables!IInv'
    OBVIOUS
  <1> DEFINE Shape == /\ DOMAIN r5 = Tables!Table /\ \A t \in Tables!Table : r5[t].count \in Nat
                      /\ r9 \in [Tables!Table -> {"rows", "notice", "old"}]
                      /\ r9["grid"] = "rows"
             Typed == /\ r1 \in [Tables!Table -> Nat] /\ r2 \in Nat /\ r4 \in Tables!Table
                      /\ r10 \subseteq [row : Nat, of : Nat, overtaken : BOOLEAN]
             Drawn(ts, s) ==
               /\ Shape' /\ Tables!Lengths' /\ r3' \in [Tables!Table -> Nat]
               /\ \A t \in ts : /\ r9'[t] = "rows"
                                /\ r5'[t] = Tables!Paint(t, r1', r2', s, r4', r7')
                                /\ r3'[t] = Tables!Least(s[t], Tables!MaxTop(r1'[t], r2'))
               /\ \A t \in Tables!Table \ ts : r5'[t] = r5[t] /\ r9'[t] = r9[t]
               /\ \A t \in Tables!Table : r3'[t] <= s[t] /\ (t \notin Tables!Moved => r3'[t] = r3[t])
  <1> HIDE DEF Drawn
  <1>0. Typed /\ Shape /\ r3 \in [Tables!Table -> Nat]
    BY DEF Tables!IInv
  <1>p. Tables!Painted /\ Tables!Lengths /\ Tables!Captured /\ r8
    BY DEF Tables!IInv
  <1>i. Typed' /\ Shape' /\ r3' \in [Tables!Table -> Nat] /\ Tables!Painted' /\ Tables!Lengths'
        /\ Tables!Captured' /\ r8' => Tables!IInv'
    BY DEF Tables!IInv
  <1>s. Sizes \subseteq Nat /\ Heights \subseteq Nat /\ RowHeight \in Nat
    BY FrontEndAssumption
  <1>e. "grid" \in Tables!Table /\ "list" \in Tables!Table /\ Tables!Page \subseteq Tables!Table
        /\ r4 \in Tables!Page
    BY <1>0 DEF Tables!Table, Tables!Page
  <1>l. \A a, b \in Nat : Tables!Least(a, b) \in Nat /\ Tables!Least(a, b) <= a /\ Tables!Least(a, b) <= b
    BY DEF Tables!Least
  <1>m. \A n, h \in Nat : Tables!MaxTop(n, h) \in Nat
    BY <1>s DEF Tables!MaxTop, Tables!Most
  <1>n. \A t \in Tables!Table : Tables!Length(t) \in Nat /\ (r9[t] = "rows" => Tables!Length(t) = r1[t])
    BY <1>0, <1>p DEF Tables!Length, Tables!Lengths
\* A paint depends on the table's own rows and scroll position only.
  <1>q. ASSUME NEW t, NEW n, NEW h, NEW s, NEW v, NEW all, NEW m, NEW u, n[t] = m[t], s[t] = u[t]
        PROVE  Tables!Paint(t, n, h, s, v, all) = Tables!Paint(t, m, h, u, v, all)
    BY <1>q DEF Tables!Paint, Tables!Range
\* A table is never scrolled past its end.
  <1>1. ASSUME NEW s \in [Tables!Table -> Nat], Tables!ScrolledTo(s), Shape', r2' \in Nat
        PROVE  /\ r3' \in [Tables!Table -> Nat]
               /\ \A t \in Tables!Table : r3'[t] <= s[t] /\ (t \notin Tables!Moved => r3'[t] = r3[t])
    <2>1. \A t \in Tables!Table : Tables!Length(t)' \in Nat
      BY <1>1 DEF Tables!Length
    <2>2. \A t \in Tables!Table : Tables!MaxTop(Tables!Length(t)', r2') \in Nat
      BY <1>m, <1>1, <2>1
    <2>3. \A t \in Tables!Table : r3'[t] = Tables!Least(s[t], Tables!MaxTop(Tables!Length(t)', r2'))
      BY <1>1 DEF Tables!ScrolledTo
    <2>4. DOMAIN r3' = Tables!Table /\ r3' = [t \in Tables!Table |-> r3'[t]]
      BY <1>1 DEF Tables!ScrolledTo
    <2>5. \A t \in Tables!Table : s[t] \in Nat
      BY <1>1
    <2>6. \A t \in Tables!Table : r3'[t] \in Nat /\ r3'[t] <= s[t]
      BY <1>l, <2>2, <2>3, <2>5
    <2> QED
      BY <2>4, <2>6 DEF Tables!Moved
\* The tables that are painted have their rows.
  <1>2. ASSUME NEW ts \in SUBSET Tables!Table, NEW s \in [Tables!Table -> Nat],
               Tables!PaintTables(ts, s), Typed',
               \A t \in Tables!Table \ ts : r1'[t] = r1[t]
        PROVE  Drawn(ts, s)
    <2>1. /\ r5' = [t \in Tables!Table |-> IF t \in ts THEN Tables!Paint(t, r1', r2', s, r4', r7')
                                           ELSE r5[t]]
          /\ r9' = [t \in Tables!Table |-> IF t \in ts THEN "rows" ELSE r9[t]]
          /\ Tables!ScrolledTo(s)
      BY <1>2 DEF Tables!PaintTables
    <2>2. \A t \in ts : r9'[t] = "rows" /\ r5'[t] = Tables!Paint(t, r1', r2', s, r4', r7')
      BY <1>2, <2>1
    <2>3. \A t \in Tables!Table \ ts : r5'[t] = r5[t] /\ r9'[t] = r9[t]
      BY <2>1
    <2>4. \A t \in ts : r5'[t].count = r1'[t]
      <3>1. \A t, n, h, u, v, all : Tables!Paint(t, n, h, u, v, all).count = n[t]
        BY DEF Tables!Paint
      <3> QED
        BY <2>2, <3>1
    <2>5. \A t \in Tables!Table : r5'[t].count \in Nat
      BY <1>0, <1>2, <2>3, <2>4
    <2>6. r9' \in [Tables!Table -> {"rows", "notice", "old"}] /\ r9'["grid"] = "rows"
      BY <1>0, <1>e, <2>1
    <2>7. Shape'
      BY <2>1, <2>5, <2>6
    <2>8. Tables!Lengths'
      BY <1>2, <1>p, <2>3, <2>4 DEF Tables!Lengths
    <2>9. \A t \in ts : r3'[t] = Tables!Least(s[t], Tables!MaxTop(r1'[t], r2'))
      <3>1. \A t \in ts : Tables!Length(t)' = r1'[t]
        BY <2>2, <2>4 DEF Tables!Length
      <3> QED
        BY <1>2, <2>1, <3>1 DEF Tables!ScrolledTo
    <2>10. r2' \in Nat
      BY <1>2
    <2>11. /\ r3' \in [Tables!Table -> Nat]
           /\ \A t \in Tables!Table : r3'[t] <= s[t] /\ (t \notin Tables!Moved => r3'[t] = r3[t])
      BY <1>1, <2>1, <2>7, <2>10
    <2> QED
      BY <2>2, <2>3, <2>7, <2>8, <2>9, <2>11 DEF Drawn
\* A row that is to be revealed stays where it is.
  <1>3. ASSUME UNCHANGED <<r4, r10>>, r1'["list"] = r1["list"], r9["list"] = "rows" => r9'["list"] = "rows"
        PROVE  Tables!Captured'
    BY <1>p, <1>3 DEF Tables!Captured
  <1>4. ASSUME r10' = Tables!Overtaken(r10)
        PROVE  Tables!Captured' /\ r10' \subseteq [row : Nat, of : Nat, overtaken : BOOLEAN]
    <2>1. \A o \in r10' : \E r \in r10 : o = [r EXCEPT !.overtaken = TRUE]
      BY <1>4 DEF Tables!Overtaken
    <2>2. ASSUME NEW o \in r10'
          PROVE  /\ o \in [row : Nat, of : Nat, overtaken : BOOLEAN]
                 /\ o.row \in 0..(o.of - 1) /\ o.overtaken
      <3>1. PICK r \in r10 : o = [r EXCEPT !.overtaken = TRUE]
        BY <2>1
      <3>2. r \in [row : Nat, of : Nat, overtaken : BOOLEAN]
        BY <1>0
      <3>3. r.row \in 0..(r.of - 1)
        BY <1>p DEF Tables!Captured
      <3> QED
        BY <3>1, <3>2, <3>3
    <2> QED
      BY <2>2 DEF Tables!Captured
\* The table that is seen is painted, and scrolled where it was painted for.
  <1>5. ASSUME r5'[r4'] = Tables!Paint(r4', r1', r2', r3, r4', r7'),
               r4' \in Tables!Table, Tables!Moved \subseteq r6',
               \A t \in Tables!Table : t \notin Tables!Moved => r3'[t] = r3[t]
        PROVE  Tables!Painted'
    <2>1. SUFFICES ASSUME r4' \notin r6' PROVE r5'[r4'] = Tables!Paint(r4', r1', r2', r3', r4', r7')
      BY DEF Tables!Painted, Tables!Settled
    <2>2. r3'[r4'] = r3[r4']
      BY <1>5, <2>1
    <2> QED
      BY <1>q, <1>5, <2>2
\* What paints another table leaves the one that is seen.
  <1>6. ASSUME UNCHANGED <<r1, r2, r4, r7>>, r5'[r4] = r5[r4], r9'[r4] = r9[r4],
               Tables!Moved \subseteq r6', r6 \cap {r4, "view"} \subseteq r6',
               r4 = "list" => r10' = r10,
               \A t \in Tables!Table : t \notin Tables!Moved => r3'[t] = r3[t]
        PROVE  Tables!Painted'
    <2>1. SUFFICES ASSUME Tables!Settled' PROVE r5[r4] = Tables!Paint(r4, r1, r2, r3', r4, r7)
      BY <1>6 DEF Tables!Painted
    <2>2. r3'[r4] = r3[r4]
      BY <1>0, <1>6, <2>1 DEF Tables!Settled
    <2>3. Tables!Settled
      BY <1>6, <2>1 DEF Tables!Settled
    <2>4. r5[r4] = Tables!Paint(r4, r1, r2, r3, r4, r7)
      BY <1>p, <2>3 DEF Tables!Painted
    <2> QED
      BY <1>q, <2>2, <2>4
  <1>7. CASE Tables!Render
    <2>1. PICK n \in [Tables!Page -> Sizes] :
            r1' = [t \in Tables!Table |-> IF t \in Tables!Page THEN n[t] ELSE r1[t]]
      BY <1>7 DEF Tables!Render
    <2>2. r1' \in [Tables!Table -> Nat] /\ \A t \in Tables!Table \ Tables!Page : r1'[t] = r1[t]
      BY <1>0, <1>s, <2>1
    <2>3. /\ UNCHANGED <<r2, r4, r7, r8>> /\ Tables!PaintTables(Tables!Page, r3)
          /\ r6' = r6 \cup Tables!Moved /\ r10' = Tables!Overtaken(r10)
      BY <1>7 DEF Tables!Render
    <2>4. Typed'
      BY <1>0, <1>4, <2>2, <2>3
    <2>5. /\ Shape' /\ Tables!Lengths' /\ r3' \in [Tables!Table -> Nat]
          /\ r5'[r4] = Tables!Paint(r4, r1', r2', r3, r4', r7')
          /\ \A t \in Tables!Table : t \notin Tables!Moved => r3'[t] = r3[t]
      <3>1. PICK ts, s : ts = Tables!Page /\ s = r3
        OBVIOUS
      <3>2. Drawn(ts, s)
        BY <1>0, <1>2, <1>e, <2>2, <2>3, <2>4, <3>1
      <3> QED
        BY <1>e, <3>1, <3>2 DEF Drawn
    <2>6. Tables!Painted'
      BY <1>0, <1>5, <2>3, <2>5
    <2> QED
      BY <1>i, <1>p, <1>4, <2>3, <2>4, <2>5, <2>6
  <1>8. CASE Tables!Notice
    <2> DEFINE t == IF r4 = "catalog" THEN r4 ELSE "list"
    <2>1. /\ UNCHANGED <<r1, r2, r4, r5, r7, r8>> /\ Tables!ScrolledTo(r3)
          /\ r9' = [r9 EXCEPT ![t] = "notice"]
          /\ r6' = r6 \cup Tables!Moved /\ r10' = Tables!Overtaken(r10)
      BY <1>8 DEF Tables!Notice
    <2>2. t \in Tables!Table /\ t # "grid"
      BY <1>0, <1>e
    <2>3. Shape' /\ (\A u \in Tables!Table : u # t => r9'[u] = r9[u]) /\ r9'[t] = "notice"
      BY <1>0, <1>e, <2>1, <2>2
    <2>4. Typed'
      BY <1>0, <1>4, <2>1
    <2>5. /\ r3' \in [Tables!Table -> Nat]
          /\ \A u \in Tables!Table : u \notin Tables!Moved => r3'[u] = r3[u]
      BY <1>0, <1>1, <2>1, <2>3
    <2>6. Tables!Painted'
      <3>1. CASE r4 = t
        BY <2>1, <2>3, <3>1 DEF Tables!Painted, Tables!Settled
      <3>2. CASE r4 # t
        <4>1. r4 # "list" /\ r9'[r4] = r9[r4]
          BY <1>0, <2>3, <3>2
        <4> QED
          BY <1>6, <2>1, <2>5, <4>1
      <3> QED
        BY <3>1, <3>2
    <2>7. Tables!Lengths'
      <3>1. \A u \in Tables!Table : r9'[u] = "rows" => r9[u] = "rows"
        BY <2>3
      <3> QED
        BY <1>p, <2>1, <3>1 DEF Tables!Lengths
    <2> QED
      BY <1>i, <1>p, <1>4, <2>1, <2>3, <2>4, <2>5, <2>6, <2>7
  <1>9. CASE Tables!Scroll
    <2>1. PICK s \in 0..Tables!MaxTop(Tables!Length(r4), r2) : r3' = [r3 EXCEPT ![r4] = s]
      BY <1>9 DEF Tables!Scroll
    <2>2. s \in Nat
      BY <1>0, <1>m, <1>n, <2>1
    <2>3. r3' \in [Tables!Table -> Nat]
      BY <1>0, <2>1, <2>2
    <2>4. UNCHANGED <<r1, r2, r4, r5, r7, r8, r9, r10>> /\ r4 \in r6'
      BY <1>9 DEF Tables!Scroll
    <2>5. Tables!Painted' /\ Tables!Lengths' /\ Tables!Captured'
      BY <1>p, <1>3, <2>4 DEF Tables!Painted, Tables!Settled, Tables!Lengths
    <2> QED
      BY <1>0, <1>p, <1>i, <2>3, <2>4, <2>5
  <1>10. CASE Tables!Frame
    <2>1. PICK t \in r6 \cap Tables!Table :
            /\ IF r1[t] > 0 /\ r5[t] = Tables!Paint(t, r1, r2, r3, r4, r7)
               THEN UNCHANGED <<r5, r9, r3>>
               ELSE Tables!PaintTables({t}, r3)
            /\ r6' = (r6 \ {t}) \cup Tables!Moved
      BY <1>10 DEF Tables!Frame
    <2>2. UNCHANGED <<r1, r2, r4, r7, r8, r10>>
      BY <1>10 DEF Tables!Frame
    <2>3. Typed'
      BY <1>0, <2>2
    <2>v. t # r4 => r6 \cap {r4, "view"} \subseteq r6'
      BY <2>1 DEF Tables!Table
    <2>4. CASE UNCHANGED <<r5, r9, r3>> /\ r5[t] = Tables!Paint(t, r1, r2, r3, r4, r7)
      <3>1. Tables!Painted'
        <4>1. CASE t = r4
          BY <2>2, <2>4, <4>1 DEF Tables!Painted
        <4>2. CASE t # r4
          BY <1>6, <2>1, <2>2, <2>4, <2>v, <4>2
        <4> QED
          BY <4>1, <4>2
      <3>2. Tables!Lengths' /\ Tables!Captured'
        BY <1>p, <1>3, <2>2, <2>4 DEF Tables!Lengths
      <3> QED
        BY <1>0, <1>i, <1>p, <2>2, <2>3, <2>4, <3>1, <3>2
    <2>5. CASE Tables!PaintTables({t}, r3)
      <3>1. /\ Shape' /\ Tables!Lengths' /\ r3' \in [Tables!Table -> Nat]
            /\ r9'[t] = "rows" /\ r5'[t] = Tables!Paint(t, r1', r2', r3, r4', r7')
            /\ \A u \in Tables!Table : u # t => r5'[u] = r5[u] /\ r9'[u] = r9[u]
            /\ \A u \in Tables!Table : u \notin Tables!Moved => r3'[u] = r3[u]
        <4>1. PICK s : s = r3
          OBVIOUS
        <4>2. Drawn({t}, s)
          BY <1>0, <1>2, <2>1, <2>2, <2>3, <2>5, <4>1
        <4> QED
          BY <4>1, <4>2 DEF Drawn
      <3>2. Tables!Painted'
        <4>1. CASE t = r4
          BY <1>0, <1>5, <2>1, <2>2, <3>1, <4>1
        <4>2. CASE t # r4
          BY <1>0, <1>6, <2>1, <2>2, <2>v, <3>1, <4>2
        <4> QED
          BY <4>1, <4>2
      <3>3. Tables!Captured'
        BY <1>3, <1>e, <2>2, <3>1
      <3> QED
        BY <1>i, <1>p, <2>2, <2>3, <3>1, <3>2, <3>3
    <2> QED
      BY <2>1, <2>4, <2>5
  <1>11. CASE Tables!ViewFrame
    <2>1. /\ UNCHANGED <<r1, r2, r4, r7, r8, r10>> /\ Tables!PaintTables({r4}, r3)
          /\ r6' = (r6 \ {"view"}) \cup Tables!Moved
      BY <1>11 DEF Tables!ViewFrame
    <2>2. Typed'
      BY <1>0, <2>1
    <2>3. /\ Shape' /\ Tables!Lengths' /\ r3' \in [Tables!Table -> Nat]
          /\ r9'[r4] = "rows" /\ r5'[r4] = Tables!Paint(r4, r1', r2', r3, r4', r7')
          /\ \A u \in Tables!Table : u # r4 => r9'[u] = r9[u]
          /\ \A u \in Tables!Table : u \notin Tables!Moved => r3'[u] = r3[u]
      <3>1. PICK ts, s : ts = {r4} /\ s = r3
        OBVIOUS
      <3>2. Drawn(ts, s)
        BY <1>0, <1>2, <2>1, <2>2, <3>1
      <3> QED
        BY <3>1, <3>2 DEF Drawn
    <2>4. Tables!Painted'
      BY <1>0, <1>5, <2>1, <2>3
    <2>5. Tables!Captured'
      BY <1>3, <1>e, <2>1, <2>3
    <2> QED
      BY <1>i, <1>p, <2>1, <2>2, <2>3, <2>4, <2>5
  <1>12. CASE Tables!Resize
    <2>1. r2' \in Nat /\ UNCHANGED <<r1, r4, r7, r8, r10>>
      BY <1>s, <1>12 DEF Tables!Resize
    <2>2. Typed'
      BY <1>0, <2>1
    <2>3. CASE r4 = "catalog"
      <3>1. UNCHANGED <<r5, r9>> /\ Tables!ScrolledTo(r3) /\ r4 \in r6'
        BY <1>12, <2>3 DEF Tables!Resize
      <3>2. Shape' /\ r3' \in [Tables!Table -> Nat]
        BY <1>0, <1>1, <2>1, <3>1
      <3>3. Tables!Painted' /\ Tables!Lengths' /\ Tables!Captured'
        BY <1>p, <1>3, <2>1, <3>1 DEF Tables!Painted, Tables!Settled, Tables!Lengths
      <3> QED
        BY <1>i, <1>p, <2>1, <2>2, <3>2, <3>3
    <2>4. CASE r4 # "catalog"
      <3> DEFINE s == [t \in Tables!Table |-> Tables!Least(r3[t], Tables!MaxTop(Tables!Length(t), r2'))]
      <3>1. Tables!PaintTables({r4}, s) /\ r6' = r6 \cup Tables!Moved
        BY <1>12, <2>4 DEF Tables!Resize
      <3>2. \A t \in Tables!Table : r3[t] \in Nat /\ s[t] \in Nat /\ s[t] <= r3[t]
        <4>1. \A t \in Tables!Table : r3[t] \in Nat /\ Tables!MaxTop(Tables!Length(t), r2') \in Nat
          BY <1>0, <1>m, <1>n, <2>1
        <4> QED
          BY <1>l, <4>1
      <3>3. s \in [Tables!Table -> Nat]
        BY <3>2
      <3> HIDE DEF s
      <3>4. /\ Shape' /\ Tables!Lengths' /\ r3' \in [Tables!Table -> Nat]
            /\ r9'[r4] = "rows" /\ r5'[r4] = Tables!Paint(r4, r1', r2', s, r4', r7')
            /\ \A u \in Tables!Table : u # r4 => r9'[u] = r9[u]
            /\ \A u \in Tables!Table : r3'[u] <= s[u] /\ (u \notin Tables!Moved => r3'[u] = r3[u])
        <4>1. PICK ts, S : ts = {r4} /\ S = s
          OBVIOUS
        <4>2. Drawn(ts, S)
          BY <1>0, <1>2, <2>1, <2>2, <3>1, <3>3, <4>1
        <4> QED
          BY <4>1, <4>2 DEF Drawn
      <3>5. Tables!Painted'
        <4>1. SUFFICES ASSUME r4 \notin r6' PROVE r5'[r4] = Tables!Paint(r4, r1', r2', r3', r4', r7')
          BY <2>1 DEF Tables!Painted, Tables!Settled
        <4>2. r3'[r4] = r3[r4]
          BY <1>0, <3>1, <3>4, <4>1
        <4>3. r3'[r4] = s[r4]
          <5>1. r3'[r4] <= s[r4] /\ s[r4] <= r3[r4] /\ r3[r4] \in Nat /\ s[r4] \in Nat
            BY <1>0, <3>2, <3>4
          <5> QED
            BY <4>2, <5>1
        <4> QED
          BY <1>q, <3>4, <4>3
      <3>6. Tables!Captured'
        BY <1>3, <1>e, <2>1, <3>4
      <3> QED
        BY <1>i, <1>p, <2>1, <2>2, <3>4, <3>5, <3>6
    <2> QED
      BY <2>3, <2>4
\* Another table is shown: it is painted later.
  <1>13. ASSUME NEW v \in Tables!Table, Tables!Show(v), UNCHANGED <<r1, r2, r5, r7, r8, r9>>
         PROVE  Shape' /\ Tables!Lengths' /\ r3' \in [Tables!Table -> Nat] /\ r4' = v
    <2>1. PICK s \in (IF r4 = v THEN {r3[v]} ELSE {0, r3[v]}) : Tables!ScrolledTo([r3 EXCEPT ![v] = s])
      BY <1>13 DEF Tables!Show
    <2>2. s \in Nat
      BY <1>0, <2>1
    <2>3. PICK S : S = [r3 EXCEPT ![v] = s]
      OBVIOUS
    <2>4. S \in [Tables!Table -> Nat] /\ Tables!ScrolledTo(S)
      BY <1>0, <2>1, <2>2, <2>3
    <2>5. Shape' /\ r2' \in Nat
      BY <1>0, <1>13
    <2>6. r3' \in [Tables!Table -> Nat]
      BY <1>1, <2>4, <2>5
    <2>7. Tables!Lengths'
      BY <1>p, <1>13 DEF Tables!Lengths
    <2> QED
      BY <1>13, <2>5, <2>6, <2>7 DEF Tables!Show
  <1>14. CASE Tables!SetRosterView
    <2>1. PICK v \in {"grid", "list"} \ {r4} : Tables!Show(v)
      BY <1>14 DEF Tables!SetRosterView
    <2>2. /\ UNCHANGED <<r1, r2, r5, r7, r8, r9>> /\ "view" \in r6' /\ v \in Tables!Table
          /\ r10' = Tables!Overtaken(r10)
      BY <1>14, <1>e DEF Tables!SetRosterView
    <2>3. Shape' /\ Tables!Lengths' /\ r3' \in [Tables!Table -> Nat] /\ r4' = v
      BY <1>13, <2>1, <2>2
    <2>4. Tables!Painted'
      BY <2>2 DEF Tables!Painted, Tables!Settled
    <2>5. Typed' /\ Tables!Captured'
      BY <1>0, <1>4, <2>2, <2>3
    <2> QED
      BY <1>i, <1>p, <2>2, <2>3, <2>4, <2>5
  <1>15. CASE Tables!SetPaintAll
    <2>1. /\ UNCHANGED <<r1, r2, r4, r8, r10>> /\ Tables!PaintTables(Tables!Page, r3)
          /\ r6' = r6 \cup Tables!Moved
      BY <1>15 DEF Tables!SetPaintAll
    <2>2. Typed'
      BY <1>0, <2>1
    <2>3. /\ Shape' /\ Tables!Lengths' /\ r3' \in [Tables!Table -> Nat]
          /\ r5'[r4] = Tables!Paint(r4, r1', r2', r3, r4', r7')
          /\ r9["list"] = "rows" => r9'["list"] = "rows"
          /\ \A t \in Tables!Table : t \notin Tables!Moved => r3'[t] = r3[t]
      <3>1. PICK ts, s : ts = Tables!Page /\ s = r3
        OBVIOUS
      <3>2. Drawn(ts, s)
        BY <1>0, <1>2, <1>e, <2>1, <2>2, <3>1
      <3> QED
        BY <1>e, <3>1, <3>2 DEF Drawn
    <2>4. Tables!Painted'
      BY <1>0, <1>5, <2>1, <2>3
    <2>5. Tables!Captured'
      BY <1>3, <2>1, <2>3
    <2> QED
      BY <1>i, <1>p, <2>1, <2>2, <2>3, <2>4, <2>5
\* A row of the table that is seen is scrolled to: it is painted.
  <1>16. ASSUME NEW v \in {"grid", "list"}, r4 = v, r9[v] = "rows",
                NEW i \in 0..(r1[v] - 1), NEW N, N[v] = r1[v], NEW S, S = Tables!Revealing(v, i, r1[v])
         PROVE  /\ S \in [Tables!Table -> Nat]
                /\ Tables!Least(S[v], Tables!MaxTop(r1[v], r2)) = S[v]
                /\ Tables!InWindow(i, Tables!Paint(v, N, r2, S, r4, r7))
    <2>0. v \in Tables!Table
      BY <1>e
    <2>1. PICK n \in Nat : n = r1[v]
      BY <1>0, <2>0
    <2>2. PICK h \in Nat : h = r2
      BY <1>0
    <2>3. PICK s \in Nat : s = r3[v]
      BY <1>0, <2>0
    <2>4. PICK all : all = r7
      OBVIOUS
    <2>5. PICK t : t = Tables!Least(Tables!ScrollTopToRevealIndex(i, n, Tables!Most(RowHeight, h), s),
                                    Tables!MaxTop(n, h))
      OBVIOUS
    <2>6. S = [r3 EXCEPT ![v] = t] /\ S[v] = t
      <3>1. Tables!Length(v) = n
        BY <1>n, <1>16, <2>0, <2>1
      <3> QED
        BY <1>0, <1>16, <2>0, <2>1, <2>2, <2>3, <2>5, <3>1 DEF Tables!Revealing
    <2>7. i \in 0..(n - 1) /\ N[v] = n /\ S[v] = t
      BY <1>16, <2>1, <2>6
    <2>8. /\ t \in Nat
          /\ i >= Tables!Paint(v, N, h, S, v, all).start
          /\ i < Tables!Paint(v, N, h, S, v, all).end
      BY <2>5, <2>7, FoundRow
    <2>9. S \in [Tables!Table -> Nat]
      BY <1>0, <2>6, <2>8
    <2>10. t <= Tables!MaxTop(n, h)
      <3>1. \A a, b : Tables!Least(a, b) = a \/ Tables!Least(a, b) = b
        BY DEF Tables!Least
      <3>2. Tables!MaxTop(n, h) \in Nat
        BY <1>m
      <3> QED
        BY <2>5, <2>8, <3>1, <3>2 DEF Tables!Least
    <2>11. Tables!Least(t, Tables!MaxTop(n, h)) = t
      BY <2>10 DEF Tables!Least
    <2> QED
      BY <1>16, <2>1, <2>2, <2>4, <2>6, <2>8, <2>9, <2>11 DEF Tables!InWindow
  <1>17. CASE Tables!Key
    <2>1. /\ r4 = "grid" /\ UNCHANGED <<r1, r2, r4, r7, r10>> /\ r6' = r6 \cup Tables!Moved
      BY <1>17 DEF Tables!Key
    <2>2. PICK i \in 0..(r1["grid"] - 1) :
            /\ Tables!PaintTables({"grid"}, Tables!Revealing("grid", i, r1["grid"]))
            /\ r8' = Tables!InWindow(i, r5'["grid"])
      BY <1>17 DEF Tables!Key
    <2>3. PICK S : S = Tables!Revealing("grid", i, r1["grid"])
      OBVIOUS
    <2>4. /\ S \in [Tables!Table -> Nat]
          /\ Tables!Least(S["grid"], Tables!MaxTop(r1["grid"], r2)) = S["grid"]
          /\ Tables!InWindow(i, Tables!Paint("grid", r1, r2, S, r4, r7))
      BY <1>0, <1>16, <2>1, <2>3
    <2>5. Typed'
      BY <1>0, <2>1
    <2>6. /\ Shape' /\ Tables!Lengths' /\ r3' \in [Tables!Table -> Nat]
          /\ r5'["grid"] = Tables!Paint("grid", r1', r2', S, r4', r7')
          /\ r3'["grid"] = Tables!Least(S["grid"], Tables!MaxTop(r1'["grid"], r2'))
          /\ r9'["list"] = r9["list"]
      <3>1. Drawn({"grid"}, S)
        BY <1>0, <1>2, <1>e, <2>1, <2>2, <2>3, <2>4, <2>5
      <3> QED
        BY <1>e, <3>1 DEF Drawn
    <2>7. r3'["grid"] = S["grid"]
      BY <2>1, <2>4, <2>6
    <2>8. Tables!Painted'
      <3>1. r5'["grid"] = Tables!Paint("grid", r1', r2', r3', r4', r7')
        BY <1>q, <2>6, <2>7
      <3> QED
        BY <2>1, <3>1 DEF Tables!Painted
    <2>9. r8'
      BY <2>1, <2>2, <2>4, <2>6
    <2>10. Tables!Captured'
      BY <1>3, <2>1, <2>6
    <2> QED
      BY <1>i, <2>5, <2>6, <2>8, <2>9, <2>10
  <1>18. CASE Tables!RevealAssignmentRow
    <2>1. PICK i \in 0..(r1["list"] - 1) :
            r10' = {[row |-> i, of |-> r1["list"], overtaken |-> r9["list"] # "rows"]}
      BY <1>18 DEF Tables!RevealAssignmentRow
    <2>2. UNCHANGED <<r1, r2, r5, r7, r8, r9>> /\ Tables!Show("list")
      BY <1>18 DEF Tables!RevealAssignmentRow
    <2>3. Shape' /\ Tables!Lengths' /\ r3' \in [Tables!Table -> Nat] /\ r4' = "list"
      BY <1>13, <1>e, <2>2
    <2>4. PICK n \in Nat : n = r1["list"]
      BY <1>0, <1>e
    <2>5. PICK r : r = [row |-> i, of |-> n, overtaken |-> r9["list"] # "rows"]
      OBVIOUS
    <2>6. /\ r10' = {r} /\ r.row = i /\ r.of = n /\ r.overtaken = (r9["list"] # "rows")
          /\ r \in [row : Nat, of : Nat, overtaken : BOOLEAN] /\ i \in 0..(n - 1)
      BY <2>1, <2>4, <2>5
    <2>7. Typed'
      BY <1>0, <1>e, <2>2, <2>3, <2>6
    <2>8. Tables!Captured'
      BY <2>2, <2>3, <2>4, <2>6 DEF Tables!Captured
    <2>9. Tables!Painted'
      BY <2>3, <2>6 DEF Tables!Painted, Tables!Settled
    <2> QED
      BY <1>i, <1>p, <2>2, <2>3, <2>7, <2>8, <2>9
  <1>19. CASE Tables!RevealFrame
    <2>1. UNCHANGED <<r1, r2, r4, r7>> /\ r10' = {} /\ r6' = r6 \cup Tables!Moved
      BY <1>19 DEF Tables!RevealFrame
    <2>2. PICK r \in r10 :
            LET s == IF r4 = "list" THEN Tables!Revealing("list", r.row, r.of) ELSE r3
            IN  /\ r5' = [r5 EXCEPT !["list"] = Tables!Paint("list", [r1 EXCEPT !["list"] = r.of],
                                                             r2, s, r4, r7)]
                /\ r9' = [r9 EXCEPT !["list"] = IF r.overtaken THEN "old" ELSE "rows"]
                /\ Tables!ScrolledTo(s)
                /\ r8' = (Tables!InWindow(r.row, r5'["list"]) \/ r.overtaken)
      BY <1>19 DEF Tables!RevealFrame
    <2>3. PICK s : s = IF r4 = "list" THEN Tables!Revealing("list", r.row, r.of) ELSE r3
      OBVIOUS
    <2>4. PICK N : N = [r1 EXCEPT !["list"] = r.of]
      OBVIOUS
    <2>5. /\ r5' = [r5 EXCEPT !["list"] = Tables!Paint("list", N, r2, s, r4, r7)]
          /\ r9' = [r9 EXCEPT !["list"] = IF r.overtaken THEN "old" ELSE "rows"]
          /\ Tables!ScrolledTo(s)
          /\ r8' = (Tables!InWindow(r.row, r5'["list"]) \/ r.overtaken)
      BY <2>2, <2>3, <2>4
    <2>6. /\ r.row \in Nat /\ r.of \in Nat /\ r.overtaken \in BOOLEAN /\ r.row \in 0..(r.of - 1)
          /\ r.overtaken \/ (r4 = "list" /\ r9["list"] = "rows" /\ r.of = r1["list"])
      BY <1>0, <1>p DEF Tables!Captured
    <2>7. /\ N["list"] = r.of
          /\ r5'["list"] = Tables!Paint("list", N, r2, s, r4, r7)
          /\ r9'["list"] = IF r.overtaken THEN "old" ELSE "rows"
          /\ \A t \in Tables!Table : t # "list" => r5'[t] = r5[t] /\ r9'[t] = r9[t]
          /\ DOMAIN r5' = Tables!Table
          /\ r9' \in [Tables!Table -> {"rows", "notice", "old"}]
      BY <1>0, <1>e, <2>4, <2>5
    <2>8. r5'["list"].count = r.of
      BY <2>7 DEF Tables!Paint
    <2>9. Shape'
      BY <1>0, <1>e, <2>6, <2>7, <2>8
    <2>10. s \in [Tables!Table -> Nat]
      <3>1. CASE r4 # "list"
        BY <1>0, <2>3, <3>1
      <3>2. CASE r4 = "list"
        <4>1. s = [r3 EXCEPT !["list"] =
                    Tables!Least(Tables!ScrollTopToRevealIndex(r.row, r.of, Tables!Most(RowHeight, r2), @),
                                 Tables!MaxTop(Tables!Length("list"), r2))]
          BY <2>3, <3>2 DEF Tables!Revealing
        <4>2. Tables!Most(RowHeight, r2) \in Nat /\ r3["list"] \in Nat
              /\ Tables!MaxTop(Tables!Length("list"), r2) \in Nat
          BY <1>0, <1>e, <1>m, <1>n, <1>s DEF Tables!Most
        <4>3. PICK H \in Nat, s0 \in Nat : H = Tables!Most(RowHeight, r2) /\ s0 = r3["list"]
          BY <4>2
        <4>4. PICK j \in Nat, n \in Nat : j = r.row /\ n = r.of /\ j + 1 <= n
          BY <2>6
        <4>5. Tables!ScrollTopToRevealIndex(j, n, H, s0) \in Nat
          <5>0. j * RowHeight \in Nat /\ Tables!Most(j + 1, n) \in Nat
            BY <1>s DEF Tables!Most
          <5>1. j * RowHeight \in Nat /\ Tables!MaxTop(Tables!Most(j + 1, n), H) \in Nat
            BY <1>m, <5>0
          <5>2. PICK a \in Nat : a = j * RowHeight
            BY <5>1
          <5>3. Tables!ScrollTopToRevealIndex(j, n, H, s0)
                = Tables!Least(Tables!Most(0, IF a < s0 THEN a
                                              ELSE IF a + RowHeight > s0 + H THEN a + RowHeight - H ELSE s0),
                               Tables!MaxTop(Tables!Most(j + 1, n), H))
            BY <5>2 DEF Tables!ScrollTopToRevealIndex
          <5>4. Tables!Most(0, IF a < s0 THEN a
                               ELSE IF a + RowHeight > s0 + H THEN a + RowHeight - H ELSE s0) \in Nat
            BY <1>s DEF Tables!Most
          <5> QED
            BY <1>l, <5>1, <5>3, <5>4
        <4> QED
          BY <1>0, <1>l, <4>1, <4>2, <4>3, <4>4, <4>5
      <3> QED
        BY <3>1, <3>2
    <2>11. /\ r3' \in [Tables!Table -> Nat]
           /\ \A t \in Tables!Table : t \notin Tables!Moved => r3'[t] = r3[t]
      BY <1>0, <1>1, <2>1, <2>5, <2>9, <2>10
    <2>12. Typed' /\ Tables!Captured'
      BY <1>0, <2>1 DEF Tables!Captured
    <2>13. Tables!Lengths'
      <3>1. r9'["list"] = "rows" => r5'["list"].count = r1["list"]
        BY <2>6, <2>7, <2>8
      <3> QED
        BY <1>p, <2>1, <2>7, <3>1 DEF Tables!Lengths
    <2>14. CASE r.overtaken
      <3>1. r8'
        BY <2>5, <2>14
      <3>2. Tables!Painted'
        <4>1. CASE r4 = "list"
          BY <2>1, <2>7, <2>14, <4>1 DEF Tables!Painted, Tables!Settled
        <4>2. CASE r4 # "list"
          BY <1>0, <1>6, <2>1, <2>7, <2>11, <4>2
        <4> QED
          BY <4>1, <4>2
      <3> QED
        BY <1>i, <2>9, <2>11, <2>12, <2>13, <3>1, <3>2
    <2>15. CASE ~r.overtaken
      <3>1. r4 = "list" /\ r9["list"] = "rows" /\ N["list"] = r1["list"]
            /\ r.row \in 0..(r1["list"] - 1) /\ s = Tables!Revealing("list", r.row, r1["list"])
        BY <2>3, <2>6, <2>7, <2>15
      <3>2. /\ Tables!Least(s["list"], Tables!MaxTop(r1["list"], r2)) = s["list"]
            /\ Tables!InWindow(r.row, Tables!Paint("list", N, r2, s, r4, r7))
        BY <1>16, <3>1
      <3>3. r3'["list"] = s["list"]
        <4>1. Tables!Length("list")' = r1["list"]
          BY <2>6, <2>7, <2>8, <2>15 DEF Tables!Length
        <4> QED
          BY <1>e, <2>1, <2>5, <3>2, <4>1 DEF Tables!ScrolledTo
      <3>4. Tables!Painted'
        <4>1. r5'["list"] = Tables!Paint("list", r1, r2, r3', r4, r7)
          BY <1>q, <2>7, <3>1, <3>3
        <4> QED
          BY <2>1, <3>1, <4>1 DEF Tables!Painted
      <3>5. r8'
        BY <2>5, <2>7, <3>2
      <3> QED
        BY <1>i, <2>9, <2>11, <2>12, <2>13, <3>4, <3>5
    <2> QED
      BY <2>14, <2>15
  <1>20. CASE UNCHANGED Tables!vars
    <2>1. UNCHANGED <<r1, r2, r3, r4, r5, r6, r7, r8, r9, r10>>
      BY <1>20 DEF Tables!vars
    <2>2. Tables!Painted' /\ Tables!Lengths' /\ Tables!Captured'
      BY <1>p, <2>1 DEF Tables!Painted, Tables!Settled, Tables!Lengths, Tables!Captured
    <2> QED
      BY <1>0, <1>p, <1>i, <2>1, <2>2
  <1> QED
    BY <1>7, <1>8, <1>9, <1>10, <1>11, <1>12, <1>14, <1>15, <1>17, <1>18, <1>19, <1>20
       DEF Tables!Next

\* What the invariant says of the tables.
LEMMA TablesOwes == Tables!IInv => Tables!ViewportPainted /\ Tables!FocusFound
  <1> SUFFICES ASSUME Tables!IInv PROVE Tables!ViewportPainted /\ Tables!FocusFound
    OBVIOUS
  <1>1. Tables!FocusFound
    BY DEF Tables!IInv, Tables!FocusFound
  <1>2. ASSUME Tables!Settled
        PROVE  /\ r5[r4].count = r1[r4]
               /\ \A i \in 0..(r1[r4] - 1) :
                    (i + 1) * RowHeight > r3[r4] /\ i * RowHeight < r3[r4] + r2
                      => i >= r5[r4].start /\ i < r5[r4].end
    <2>v. PICK v : v = r4
      OBVIOUS
    <2>n. PICK n \in Nat, h \in Nat, s \in Nat : n = r1[r4] /\ h = r2 /\ s = r3[r4]
      BY DEF Tables!IInv
    <2>1. v = r4 /\ n = r1[r4] /\ h = r2 /\ s = r3[r4]
      BY <2>v, <2>n
    <2>2. PICK all : all = (r7 \/ (v = "catalog" /\ n <= Threshold))
      OBVIOUS
    <2>3. PICK b : b = Tables!VisibleRange(n, h, s, all)
      OBVIOUS
    <2>4. r5[r4] = [start |-> b.start, end |-> b.end, count |-> n]
      BY <1>2, <2>1, <2>2, <2>3 DEF Tables!IInv, Tables!Painted, Tables!Paint, Tables!Range
    <2>5. ASSUME NEW i \in 0..(n - 1), (i + 1) * RowHeight > s, i * RowHeight < s + h
          PROVE  i >= b.start /\ i < b.end
      BY <2>3, <2>5, InWindow
    <2> QED
      BY <2>1, <2>4, <2>5
  <1> QED
    BY <1>1, <1>2 DEF Tables!ViewportPainted, Tables!InWindow

-------------------------------------------------------------------------------
(* The dialog of an assignment (roster.js).                                  *)

\* A set of places of a sequence has a last one.
LEMMA LastOne ==
  ASSUME NEW n \in Nat, NEW T, T \subseteq 1..n, T # {}
  PROVE  \E x \in T : \A y \in T : y <= x
  <1> DEFINE S == {n - x : x \in T}
             R == OpToRel(<, Nat)
  <1>1. S \subseteq Nat /\ S # {}
    <2>1. \A x \in T : x \in 1..n
      OBVIOUS
    <2>2. \A x \in 1..n : n - x \in Nat
      OBVIOUS
    <2> QED
      BY <2>1, <2>2
  <1>2. IsWellFoundedOn(R, Nat)
    BY NatLessThanWellFounded
  <1>3. \A x, y \in Nat : <<y, x>> \in R <=> y < x
    BY DEF OpToRel
  <1> HIDE DEF R
  <1>4. PICK z \in S : \A y \in S : ~(<<y, z>> \in R)
    BY <1>1, <1>2, WFMin
  <1>5. z \in Nat /\ \A y \in S : ~(y < z)
    BY <1>1, <1>3, <1>4
  <1>6. PICK x \in T : z = n - x
    BY <1>4
  <1>7. \A y \in T : n - y \in S /\ y \in Nat
    OBVIOUS
  <1>8. x \in Nat
    BY <1>7
  <1> HIDE DEF S
  <1>9. \A y \in T : ~(n - y < n - x)
    BY <1>5, <1>6, <1>7
  <1> QED
    BY <1>7, <1>8, <1>9

\* The dialog, by its fields.
Fields(i, v, f, fr, m, o, n) ==
  [id |-> i, ver |-> v, formId |-> f, from |-> fr, modal |-> m, of |-> o, no |-> n]

\* Each field is what it was made of, and a dialog is made of its fields.
LEMMA FieldsOf ==
  ASSUME NEW i, NEW v, NEW f, NEW fr, NEW m, NEW o, NEW n, NEW dlg, dlg = Fields(i, v, f, fr, m, o, n)
  PROVE  dlg.id = i /\ dlg.ver = v /\ dlg.formId = f /\ dlg.from = fr /\ dlg.modal = m /\ dlg.of = o
         /\ dlg.no = n
  BY DEF Fields

\* A dialog is made of its fields.
LEMMA HasFields ==
  ASSUME NEW dlg \in Assignment!Dialog
  PROVE  dlg = Fields(dlg.id, dlg.ver, dlg.formId, dlg.from, dlg.modal, dlg.of, dlg.no)
  BY DEF Fields, Assignment!Dialog

\* What the operators on the dialog do to its fields.
LEMMA ForgetDlg ==
  ASSUME NEW i, NEW v, NEW f, NEW fr, NEW m, NEW o, NEW n
  PROVE  Assignment!Forget(Fields(i, v, f, fr, m, o, n)) = Fields(None, v, f, fr, m, o, n)
  BY DEF Fields, Assignment!Forget

\* A dialog that closes forgets what was edited.
LEMMA CloseDlg ==
  ASSUME NEW i, NEW v, NEW f, NEW fr, NEW m, NEW o, NEW n
  PROVE  Assignment!Close(Fields(i, v, f, fr, m, o, n))
         = Fields(IF m \in {"create", "edit"} THEN None ELSE i, v, f, fr, None, None, n)
  <1>1. PICK j : j = IF m \in {"create", "edit"} THEN None ELSE i
    OBVIOUS
  <1>2. PICK e : e = Fields(j, v, f, fr, m, o, n)
    OBVIOUS
  <1>3. PICK g : g = [e EXCEPT !.modal = None, !.of = None]
    OBVIOUS
  <1>4. g = Fields(j, v, f, fr, None, None, n)
    BY <1>2, <1>3 DEF Fields
  <1>5. Fields(i, v, f, fr, m, o, n).modal = m
    BY DEF Fields
  <1>6. Assignment!Close(Fields(i, v, f, fr, m, o, n)) = g
    <2>1. (IF m \in {"create", "edit"} THEN Assignment!Forget(Fields(i, v, f, fr, m, o, n))
           ELSE Fields(i, v, f, fr, m, o, n)) = e
      BY <1>1, <1>2, ForgetDlg
    <2> QED
      BY <1>3, <1>5, <2>1 DEF Assignment!Close
  <1> QED
    BY <1>1, <1>4, <1>6

\* A click on a row remembers the row, one on the button forgets it.
LEMMA RememberDlg ==
  ASSUME NEW i, NEW v, NEW f, NEW fr, NEW m, NEW o, NEW n, NEW p
  PROVE  Assignment!Remember(Fields(i, v, f, fr, m, o, n), p)
         = IF p.what = "create" THEN Fields(None, v, None, fr, m, o, n)
           ELSE Fields(p.row, p.ver, f, fr, m, o, n)
  <1>1. CASE p.what = "create"
    <2>1. PICK e : e = Fields(None, v, f, fr, m, o, n)
      OBVIOUS
    <2>2. PICK g : g = [e EXCEPT !.formId = None]
      OBVIOUS
    <2>3. g = Fields(None, v, None, fr, m, o, n)
      BY <2>1, <2>2 DEF Fields
    <2> QED
      BY <1>1, <2>1, <2>2, <2>3, ForgetDlg DEF Assignment!Remember
  <1>2. CASE p.what # "create"
    <2>1. PICK e : e = Fields(i, v, f, fr, m, o, n)
      OBVIOUS
    <2>2. PICK g : g = [e EXCEPT !.id = p.row, !.ver = p.ver]
      OBVIOUS
    <2>3. g = Fields(p.row, p.ver, f, fr, m, o, n)
      BY <2>1, <2>2 DEF Fields
    <2> QED
      BY <1>2, <2>1, <2>2, <2>3 DEF Assignment!Remember
  <1> QED
    BY <1>1, <1>2

\* A dialog that opens closes the one before.
LEMMA OpenDlg ==
  ASSUME NEW i, NEW v, NEW f, NEW fr, NEW m, NEW o, NEW n, NEW what, NEW p
  PROVE  Assignment!OpenModal(Fields(i, v, f, fr, m, o, n), what, p)
         = Fields(IF m \in {"create", "edit"} THEN None ELSE i, v, f, fr, what, p, n + 1)
  <1>1. PICK j : j = IF m \in {"create", "edit"} THEN None ELSE i
    OBVIOUS
  <1>2. PICK e : e = Fields(j, v, f, fr, None, None, n)
    OBVIOUS
  <1>3. PICK k : k = n + 1
    OBVIOUS
  <1>4. PICK g : g = [e EXCEPT !.modal = what, !.of = p, !.no = k]
    OBVIOUS
  <1>5. g = Fields(j, v, f, fr, what, p, k)
    BY <1>2, <1>4 DEF Fields
  <1>6. Fields(i, v, f, fr, m, o, n).no = n
    BY DEF Fields
  <1>7. Assignment!OpenModal(Fields(i, v, f, fr, m, o, n), what, p) = g
    <2>1. Assignment!Close(Fields(i, v, f, fr, m, o, n)) = e
      BY <1>1, <1>2, CloseDlg
    <2> QED
      BY <1>3, <1>4, <1>6, <2>1 DEF Assignment!OpenModal
  <1> QED
    BY <1>1, <1>3, <1>5, <1>7

\* The form is emptied after a save.
LEMMA ResetDlg ==
  ASSUME NEW i, NEW v, NEW f, NEW fr, NEW m, NEW o, NEW n
  PROVE  Assignment!ResetForm(Fields(i, v, f, fr, m, o, n)) = Fields(None, v, None, None, m, o, n)
  <1>1. PICK e : e = Fields(None, v, f, fr, m, o, n)
    OBVIOUS
  <1>2. PICK g : g = [e EXCEPT !.formId = None, !.from = None]
    OBVIOUS
  <1>3. g = Fields(None, v, None, None, m, o, n)
    BY <1>1, <1>2 DEF Fields
  <1>4. Assignment!Forget(Fields(i, v, f, fr, m, o, n)) = e
    BY <1>1, ForgetDlg
  <1> QED
    BY <1>2, <1>3, <1>4 DEF Assignment!ResetForm

\* A form that a row fills.
LEMMA FillDlg ==
  ASSUME NEW i, NEW v, NEW f, NEW fr, NEW m, NEW o, NEW n, NEW os, NEW rows, NEW x,
         rows = {y \in DOMAIN os : os[y].what # "create"}, x \in rows, \A y \in rows : y <= x,
         rows \subseteq Nat, \/ \A y \in rows : os[y].what # "again"
                             \/ rows = {x}
  PROVE  Assignment!Fill(Fields(i, v, f, fr, m, o, n), os) = Fields(i, v, os[x].row, os[x].from, m, o, n)
  <1>1. \A y \in rows : (\A z \in rows : z <= y) => y = x
    OBVIOUS
  <1>2. (CHOOSE y \in rows : \A z \in rows : z <= y) = x
    BY <1>1
  <1>3. Assignment!LastOf(os, rows) = os[x]
    BY <1>2 DEF Assignment!LastOf
  <1>4. {y \in rows : os[y].what = "again"} \in {{}, rows}
    OBVIOUS
  <1>5. PICK e : e = Fields(i, v, f, fr, m, o, n)
    OBVIOUS
  <1>6. PICK row, from : row = os[x].row /\ from = os[x].from
    OBVIOUS
  <1>7. PICK g : g = [e EXCEPT !.formId = row, !.from = from]
    OBVIOUS
  <1>8. g = Fields(i, v, row, from, m, o, n)
    BY <1>5, <1>7 DEF Fields
  <1>9. Assignment!Fill(Fields(i, v, f, fr, m, o, n), os) = g
    BY <1>3, <1>4, <1>5, <1>6, <1>7 DEF Assignment!Fill
  <1> QED
    BY <1>6, <1>8, <1>9

\* The last of several dialogs stays.
LEMMA ShowDlg ==
  ASSUME NEW i, NEW v, NEW f, NEW fr, NEW m, NEW o, NEW n \in Nat, NEW os, NEW k \in Nat \ {0}, Len(os) = k,
         NEW g, NEW gr, Assignment!Fill(Fields(i, v, f, fr, m, o, n), os) = Fields(i, v, g, gr, m, o, n)
  PROVE  \E j \in Nat :
           Assignment!Show(Fields(i, v, f, fr, m, o, n), os)
           = Fields(IF k = 1 /\ m \notin {"create", "edit"} THEN i ELSE None, v, g, gr,
                    IF os[k].what = "create" THEN "create" ELSE "edit", os[k], j)
  <1> DEFINE what == IF os[k].what = "create" THEN "create" ELSE "edit"
  <1>1. CASE k = 1
    <2>1. Assignment!Show(Fields(i, v, f, fr, m, o, n), os)
          = Assignment!OpenModal(Fields(i, v, g, gr, m, o, n), what, os[k])
      BY <1>1 DEF Assignment!Show
    <2> HIDE DEF what
    <2>2. Assignment!Show(Fields(i, v, f, fr, m, o, n), os)
          = Fields(IF m \in {"create", "edit"} THEN None ELSE i, v, g, gr, what, os[k], n + 1)
      BY <2>1, OpenDlg
    <2>3. n + 1 \in Nat
      OBVIOUS
    <2> QED
      BY <1>1, <2>2, <2>3 DEF what
  <1>2. CASE k # 1
    <2>1. PICK j : j = n + k - 1
      OBVIOUS
    <2>2. [Assignment!Forget(Fields(i, v, g, gr, m, o, n)) EXCEPT !.no = @ + k - 1]
          = Fields(None, v, g, gr, m, o, j)
      <3>1. Fields(None, v, g, gr, m, o, n).no = n
        BY DEF Fields
      <3>2. [Fields(None, v, g, gr, m, o, n) EXCEPT !.no = j] = Fields(None, v, g, gr, m, o, j)
        BY DEF Fields
      <3> QED
        BY <2>1, <3>1, <3>2, ForgetDlg
    <2>3. Assignment!Show(Fields(i, v, f, fr, m, o, n), os)
          = Assignment!OpenModal(Fields(None, v, g, gr, m, o, j), what, os[k])
      BY <1>2, <2>2 DEF Assignment!Show
    <2> HIDE DEF what
    <2>4. Assignment!Show(Fields(i, v, f, fr, m, o, n), os)
          = Fields(None, v, g, gr, what, os[k], j + 1)
      BY <2>3, OpenDlg
    <2>5. j + 1 \in Nat
      BY <2>1
    <2> QED
      BY <1>2, <2>4, <2>5 DEF what
  <1> QED
    BY <1>1, <1>2

\* A dialog that opens at once.
LEMMA ShowOne ==
  ASSUME NEW i, NEW v, NEW f, NEW fr, NEW m, NEW o, NEW n \in Nat, NEW p
  PROVE  \E j \in Nat :
           Assignment!Show(Fields(i, v, f, fr, m, o, n), <<p>>)
           = IF p.what = "create"
             THEN Fields(IF m \in {"create", "edit"} THEN None ELSE i, v, f, fr, "create", p, j)
             ELSE Fields(IF m \in {"create", "edit"} THEN None ELSE i, v, p.row, p.from, "edit", p, j)
  <1>1. PICK os : os = <<p>>
    OBVIOUS
  <1>2. Len(os) = 1 /\ os[1] = p /\ DOMAIN os = {1}
    BY <1>1
  <1>3. PICK g, gr : /\ g = IF p.what = "create" THEN f ELSE p.row
                     /\ gr = IF p.what = "create" THEN fr ELSE p.from
    OBVIOUS
  <1>4. Assignment!Fill(Fields(i, v, f, fr, m, o, n), os) = Fields(i, v, g, gr, m, o, n)
    <2>1. CASE p.what = "create"
      <3>1. {x \in DOMAIN os : os[x].what # "create"} = {}
        BY <1>2, <2>1
      <3> QED
        BY <1>3, <2>1, <3>1 DEF Assignment!Fill
    <2>2. CASE p.what # "create"
      <3>1. {x \in DOMAIN os : os[x].what # "create"} = {1}
        BY <1>2, <2>2
      <3>2. Assignment!Fill(Fields(i, v, f, fr, m, o, n), os)
            = Fields(i, v, os[1].row, os[1].from, m, o, n)
        <4>1. PICK rows : rows = {1}
          OBVIOUS
        <4>2. PICK x : x = 1
          OBVIOUS
        <4>3. /\ rows = {y \in DOMAIN os : os[y].what # "create"} /\ x \in rows
              /\ (\A y \in rows : y <= x) /\ rows \subseteq Nat /\ rows = {x}
          BY <3>1, <4>1, <4>2
        <4> QED
          BY <4>2, <4>3, FillDlg
      <3> QED
        BY <1>2, <1>3, <2>2, <3>2
    <2> QED
      BY <2>1, <2>2
  <1>5. PICK j \in Nat : Assignment!Show(Fields(i, v, f, fr, m, o, n), os)
           = Fields(IF m \notin {"create", "edit"} THEN i ELSE None, v, g, gr,
                    IF p.what = "create" THEN "create" ELSE "edit", p, j)
    <2>1. PICK k \in Nat \ {0} : k = 1
      OBVIOUS
    <2>2. Len(os) = k /\ os[k] = p
      BY <1>2, <2>1
    <2>3. \E j \in Nat : Assignment!Show(Fields(i, v, f, fr, m, o, n), os)
           = Fields(IF k = 1 /\ m \notin {"create", "edit"} THEN i ELSE None, v, g, gr,
                    IF os[k].what = "create" THEN "create" ELSE "edit", os[k], j)
      BY <1>4, <2>2, ShowDlg
    <2> QED
      BY <2>1, <2>2, <2>3
  <1> QED
    BY <1>1, <1>3, <1>5

\* A dialog whose parts belong together, and the same said of its fields.
Sound(dlg) == dlg \in Assignment!Dialog /\ Assignment!Together(dlg)

Fits(i, v, f, fr, m, o, n) ==
  /\ i \in Row \cup {None} /\ v \in Nat \cup {None} /\ f \in Row \cup {None}
  /\ fr \in [row : Row, ver : Nat] \cup {None}
  /\ m \in {"create", "edit", "prompt", "cancel", None} /\ o \in Assignment!Opening \cup {None} /\ n \in Nat
  /\ f # None => fr \in {None, [row |-> f, ver |-> v]}
  /\ f = None /\ m \in {"create", "edit"} => i = None
  /\ m = "edit" => /\ o \in Assignment!Opening /\ o.what # "create" /\ o.row \in Row /\ o.ver \in Nat
                   /\ fr \in {None, [row |-> o.row, ver |-> o.ver]}

\* An opening with other fields in its form.
LEMMA WithFrom ==
  ASSUME NEW o \in Assignment!Opening, NEW fr, NEW p, p = [o EXCEPT !.from = fr]
  PROVE  p.what = o.what /\ p.row = o.row /\ p.ver = o.ver /\ p.from = fr
  <1>1. o = [what |-> o.what, row |-> o.row, ver |-> o.ver, from |-> o.from]
    BY DEF Assignment!Opening
  <1>2. PICK a, b, c, e : o = [what |-> a, row |-> b, ver |-> c, from |-> e]
    BY <1>1
  <1>3. p = [what |-> a, row |-> b, ver |-> c, from |-> fr]
    BY <1>2
  <1> QED
    BY <1>2, <1>3

Again(o, fr) == [o EXCEPT !.what = "again", !.from = fr]

\* A dialog that is to be opened again.
LEMMA WithAgain ==
  ASSUME NEW o \in Assignment!Opening, NEW fr, fr \in [row : Row, ver : Nat] \cup {None},
         NEW p, p = Again(o, fr)
  PROVE  /\ p \in Assignment!Opening
         /\ p.what = "again" /\ p.row = o.row /\ p.ver = o.ver /\ p.from = fr
  <1>1. o = [what |-> o.what, row |-> o.row, ver |-> o.ver, from |-> o.from]
    BY DEF Assignment!Opening
  <1>2. PICK a, b, c, e : o = [what |-> a, row |-> b, ver |-> c, from |-> e]
    BY <1>1
  <1>3. p = [what |-> "again", row |-> b, ver |-> c, from |-> fr]
    BY <1>2 DEF Again
  <1>4. b \in Row \cup {None} /\ c \in Nat \cup {None}
    BY <1>2 DEF Assignment!Opening
  <1> QED
    BY <1>2, <1>3, <1>4 DEF Assignment!Opening

\* Fields that fit are a dialog whose parts belong together.
LEMMA SoundFields ==
  ASSUME NEW i, NEW v, NEW f, NEW fr, NEW m, NEW o, NEW n, Fits(i, v, f, fr, m, o, n),
         NEW dlg, dlg = Fields(i, v, f, fr, m, o, n)
  PROVE  Sound(dlg)
  <1>1. dlg \in Assignment!Dialog
    BY DEF Fits, Fields, Assignment!Dialog
  <1>2. dlg.id = i /\ dlg.ver = v /\ dlg.formId = f /\ dlg.from = fr /\ dlg.modal = m /\ dlg.of = o
    BY FieldsOf
  <1>3. ASSUME m = "edit" PROVE Assignment!Whole([o EXCEPT !.from = fr])
    <2>1. PICK p : p = [o EXCEPT !.from = fr]
      OBVIOUS
    <2>2. o \in Assignment!Opening
      BY <1>3 DEF Fits
    <2>3. p.what = o.what /\ p.row = o.row /\ p.ver = o.ver /\ p.from = fr
      BY <2>1, <2>2, WithFrom
    <2>4. Assignment!Whole(p)
      BY <1>3, <2>3 DEF Assignment!Whole, Fits
    <2> QED
      BY <2>1, <2>4
  <1>4. dlg.formId # None => dlg.from \in {None, [row |-> dlg.formId, ver |-> dlg.ver]}
    BY <1>2 DEF Fits
  <1>5. dlg.formId = None /\ dlg.modal \in {"create", "edit"} => dlg.id = None
    BY <1>2 DEF Fits
  <1>6. ASSUME dlg.modal = "edit"
        PROVE  /\ dlg.of \in Assignment!Opening /\ dlg.of.what # "create"
               /\ Assignment!Whole([dlg.of EXCEPT !.from = dlg.from])
    <2>1. o \in Assignment!Opening /\ o.what # "create"
      BY <1>2, <1>6 DEF Fits
    <2> QED
      BY <1>2, <1>3, <1>6, <2>1
  <1> QED
    BY <1>1, <1>4, <1>5, <1>6 DEF Sound, Assignment!Together

\* And such a dialog has fields that fit.
LEMMA SoundHas ==
  ASSUME NEW dlg, Sound(dlg)
  PROVE  \E i, v, f, fr, m, o, n : dlg = Fields(i, v, f, fr, m, o, n) /\ Fits(i, v, f, fr, m, o, n)
  <1>1. dlg = Fields(dlg.id, dlg.ver, dlg.formId, dlg.from, dlg.modal, dlg.of, dlg.no)
    BY HasFields DEF Sound
  <1>2. PICK i : i = dlg.id
    OBVIOUS
  <1>3. PICK v : v = dlg.ver
    OBVIOUS
  <1>4. PICK f : f = dlg.formId
    OBVIOUS
  <1>5. PICK fr : fr = dlg.from
    OBVIOUS
  <1>6. PICK m : m = dlg.modal
    OBVIOUS
  <1>7. PICK o : o = dlg.of
    OBVIOUS
  <1>8. PICK n : n = dlg.no
    OBVIOUS
  <1>9. dlg = Fields(i, v, f, fr, m, o, n)
    BY <1>1, <1>2, <1>3, <1>4, <1>5, <1>6, <1>7, <1>8
  <1>10. /\ i \in Row \cup {None} /\ v \in Nat \cup {None} /\ f \in Row \cup {None}
         /\ fr \in [row : Row, ver : Nat] \cup {None}
         /\ m \in {"create", "edit", "prompt", "cancel", None} /\ o \in Assignment!Opening \cup {None} /\ n \in Nat
    BY <1>2, <1>3, <1>4, <1>5, <1>6, <1>7, <1>8 DEF Sound, Assignment!Dialog
  <1>11. /\ f # None => fr \in {None, [row |-> f, ver |-> v]}
         /\ f = None /\ m \in {"create", "edit"} => i = None
    BY <1>2, <1>3, <1>4, <1>5, <1>6 DEF Sound, Assignment!Together
  <1>12. ASSUME m = "edit"
         PROVE  /\ o \in Assignment!Opening /\ o.what # "create" /\ o.row \in Row /\ o.ver \in Nat
                /\ fr \in {None, [row |-> o.row, ver |-> o.ver]}
    <2>1. PICK p : p = [o EXCEPT !.from = fr]
      OBVIOUS
    <2>2. o \in Assignment!Opening /\ o.what # "create" /\ Assignment!Whole([o EXCEPT !.from = fr])
      BY <1>5, <1>6, <1>7, <1>12 DEF Sound, Assignment!Together
    <2>3. p.what = o.what /\ p.row = o.row /\ p.ver = o.ver /\ p.from = fr
      BY <2>1, <2>2, WithFrom
    <2>4. Assignment!Whole(p)
      BY <2>1, <2>2
    <2> QED
      BY <2>2, <2>3, <2>4 DEF Assignment!Whole
  <1>13. Fits(i, v, f, fr, m, o, n)
    BY <1>10, <1>11, <1>12 DEF Fits
  <1> QED
    BY <1>9, <1>13

\* What happens to a dialog keeps its parts together.
LEMMA SoundClose ==
  ASSUME NEW dlg, Sound(dlg)
  PROVE  Sound(Assignment!Close(dlg))
  <1>1. PICK i, v, f, fr, m, o, n : dlg = Fields(i, v, f, fr, m, o, n) /\ Fits(i, v, f, fr, m, o, n)
    BY SoundHas
  <1>2. PICK j : j = IF m \in {"create", "edit"} THEN None ELSE i
    OBVIOUS
  <1>3. PICK e : e = Fields(j, v, f, fr, None, None, n)
    OBVIOUS
  <1>4. Assignment!Close(dlg) = e
    BY <1>1, <1>2, <1>3, CloseDlg
  <1>5. None \notin {"create", "edit"}
    BY FrontEndAssumption
  <1>6. Fits(j, v, f, fr, None, None, n)
    BY <1>1, <1>2, <1>5 DEF Fits
  <1>7. Sound(e)
    BY <1>3, <1>6, SoundFields
  <1> QED
    BY <1>4, <1>7

\* A prompt or a question takes its place.
LEMMA SoundModal ==
  ASSUME NEW dlg, Sound(dlg), NEW what \in {"prompt", "cancel"}
  PROVE  Sound(Assignment!OpenModal(dlg, what, None))
  <1>1. PICK i, v, f, fr, m, o, n : dlg = Fields(i, v, f, fr, m, o, n) /\ Fits(i, v, f, fr, m, o, n)
    BY SoundHas
  <1>2. PICK j : j = IF m \in {"create", "edit"} THEN None ELSE i
    OBVIOUS
  <1>3. PICK k : k = n + 1
    OBVIOUS
  <1>4. PICK e : e = Fields(j, v, f, fr, what, None, k)
    OBVIOUS
  <1>5. Assignment!OpenModal(dlg, what, None) = e
    BY <1>1, <1>2, <1>3, <1>4, OpenDlg
  <1>6. Fits(j, v, f, fr, what, None, k)
    BY <1>1, <1>2, <1>3 DEF Fits
  <1>7. Sound(e)
    BY <1>4, <1>6, SoundFields
  <1> QED
    BY <1>5, <1>7

\* The form is emptied.
LEMMA SoundReset ==
  ASSUME NEW dlg, Sound(dlg)
  PROVE  Sound(Assignment!ResetForm(dlg))
  <1>1. PICK i, v, f, fr, m, o, n : dlg = Fields(i, v, f, fr, m, o, n) /\ Fits(i, v, f, fr, m, o, n)
    BY SoundHas
  <1>2. PICK e : e = Fields(None, v, None, None, m, o, n)
    OBVIOUS
  <1>3. Assignment!ResetForm(dlg) = e
    BY <1>1, <1>2, ResetDlg
  <1>4. Fits(None, v, None, None, m, o, n)
    BY <1>1 DEF Fits
  <1>5. Sound(e)
    BY <1>2, <1>4, SoundFields
  <1> QED
    BY <1>3, <1>5

\* Another dialog opens at once.
LEMMA SoundShow ==
  ASSUME NEW dlg, Sound(dlg), NEW p \in Assignment!Opening, Assignment!Whole(p)
  PROVE  Sound(Assignment!Show(Assignment!Remember(dlg, p), <<p>>))
  <1>1. PICK i, v, f, fr, m, o, n : dlg = Fields(i, v, f, fr, m, o, n) /\ Fits(i, v, f, fr, m, o, n)
    BY SoundHas
  <1>2. CASE p.what = "create"
    <2>1. Assignment!Remember(dlg, p) = Fields(None, v, None, fr, m, o, n)
      BY <1>1, <1>2, RememberDlg
    <2>2. n \in Nat
      BY <1>1 DEF Fits
    <2>3. PICK k : k = IF m \in {"create", "edit"} THEN None ELSE None
      OBVIOUS
    <2>4. PICK j \in Nat : Assignment!Show(Fields(None, v, None, fr, m, o, n), <<p>>)
                           = Fields(k, v, None, fr, "create", p, j)
      BY <1>2, <2>2, <2>3, ShowOne
    <2>5. PICK e : e = Fields(k, v, None, fr, "create", p, j)
      OBVIOUS
    <2>6. Fits(k, v, None, fr, "create", p, j)
      BY <1>1, <2>3 DEF Fits
    <2>7. Sound(e)
      BY <2>5, <2>6, SoundFields
    <2> QED
      BY <2>1, <2>4, <2>5, <2>7
  <1>3. CASE p.what # "create"
    <2>1. PICK r, w, gr : r = p.row /\ w = p.ver /\ gr = p.from
      OBVIOUS
    <2>2. Assignment!Remember(dlg, p) = Fields(r, w, f, fr, m, o, n)
      BY <1>1, <1>3, <2>1, RememberDlg
    <2>3. n \in Nat
      BY <1>1 DEF Fits
    <2>4. PICK k : k = IF m \in {"create", "edit"} THEN None ELSE r
      OBVIOUS
    <2>5. PICK j \in Nat : Assignment!Show(Fields(r, w, f, fr, m, o, n), <<p>>)
                           = Fields(k, w, r, gr, "edit", p, j)
      BY <1>3, <2>1, <2>3, <2>4, ShowOne
    <2>6. /\ r \in Row /\ w \in Nat /\ gr \in {None, [row |-> r, ver |-> w]}
          /\ gr \in [row : Row, ver : Nat] \cup {None}
      BY <1>3, <2>1 DEF Assignment!Whole, Assignment!Opening
    <2>7. r # None
      BY <2>6, FrontEndAssumption
    <2>8. k \in {r, None}
      BY <2>4
    <2>9. Fits(k, w, r, gr, "edit", p, j)
      BY <1>3, <2>1, <2>6, <2>7, <2>8 DEF Fits
    <2>10. PICK e : e = Fields(k, w, r, gr, "edit", p, j)
      OBVIOUS
    <2>11. Sound(e)
      BY <2>9, <2>10, SoundFields
    <2> QED
      BY <2>2, <2>5, <2>10, <2>11
  <1> QED
    BY <1>2, <1>3

\* Requests that are faithful, and what is asked before a cancellation.
SavesFit(S) ==
  S \subseteq Assignment!Saving /\ \A s \in S : s.id # None => Assignment!Faithful(s)

CancelsFit(C) ==
  /\ C \subseteq [of : Assignment!Opening, step : {"asked", "wire"}, no : Nat]
  /\ \A c \in C : c.of.what # "create" /\ Assignment!Whole(c.of)

\* The invariant once the templates are there, and before.
Loaded ==
  /\ r1 \in [Row -> Nat] /\ r2 \in [Row -> Nat]
  /\ r3 = "loaded" /\ r4 = <<>>
  /\ Sound(r5)
  /\ SavesFit(r6)
  /\ CancelsFit(r7)
  /\ r8 # None => Assignment!Faithful(r8)
  /\ r10 \in Nat

Waits ==
  /\ r1 \in [Row -> Nat] /\ r2 \in [Row -> Nat]
  /\ r3 \in {"none", "loading"} /\ r4 \in Seq(Assignment!Opening)
  /\ r5 \in Assignment!Dialog
  /\ Assignment!Before
  /\ r8 # None => Assignment!Faithful(r8)
  /\ r10 \in Nat

\* The invariant says one of three things.
LEMMA TwoStages == Assignment!IInv <=> r9 \/ Loaded \/ Waits
  <1>1. Assignment!TypeOK /\ r3 = "loaded" /\ Assignment!After /\ (r8 # None => Assignment!Faithful(r8))
        => Loaded
    BY DEF Assignment!TypeOK, Assignment!After, Loaded, Sound, SavesFit, CancelsFit
  <1>2. Assignment!TypeOK /\ r3 # "loaded" /\ Assignment!Before /\ (r8 # None => Assignment!Faithful(r8))
        => Waits
    BY DEF Assignment!TypeOK, Waits
  <1>3. Loaded => /\ Assignment!TypeOK /\ r3 = "loaded" /\ Assignment!After
                  /\ r8 # None => Assignment!Faithful(r8)
    <2>1. Loaded => Assignment!TypeOK
      <3>1. <<>> \in Seq(Assignment!Opening)
        OBVIOUS
      <3> QED
        BY <3>1 DEF Assignment!TypeOK, Loaded, Sound, SavesFit, CancelsFit
    <2> QED
      BY <2>1 DEF Assignment!After, Loaded, Sound, SavesFit, CancelsFit
  <1>4. Waits => /\ Assignment!TypeOK /\ r3 # "loaded" /\ Assignment!Before
                 /\ r8 # None => Assignment!Faithful(r8)
    BY DEF Assignment!TypeOK, Waits, Assignment!Before
  <1> QED
    BY <1>1, <1>2, <1>3, <1>4 DEF Assignment!IInv

\* What a click opens is as it was painted.
LEMMA PaintedOpenings ==
  ASSUME r2 \in [Row -> Nat], NEW p \in Assignment!Openings
  PROVE  p \in Assignment!Opening /\ Assignment!Whole(p) /\ p.what # "again"
  <1>1. CASE p = [what |-> "create", row |-> None, ver |-> None, from |-> None]
    BY <1>1 DEF Assignment!Opening, Assignment!Whole
  <1>2. ASSUME NEW r \in Row,
               p = [what |-> "edit", row |-> r, ver |-> r2[r], from |-> [row |-> r, ver |-> r2[r]]]
        PROVE  p \in Assignment!Opening /\ Assignment!Whole(p) /\ p.what # "again"
    <2>1. PICK v \in Nat : v = r2[r]
      OBVIOUS
    <2>2. PICK g : g = [row |-> r, ver |-> v]
      OBVIOUS
    <2>3. p = [what |-> "edit", row |-> r, ver |-> v, from |-> g]
      BY <1>2, <2>1, <2>2
    <2>4. g \in [row : Row, ver : Nat]
      BY <2>2
    <2>5. p \in Assignment!Opening
      BY <2>3, <2>4 DEF Assignment!Opening
    <2>6. p.what = "edit" /\ p.row = r /\ p.ver = v /\ p.from = g
      BY <2>3
    <2> QED
      BY <2>2, <2>5, <2>6 DEF Assignment!Whole
  <1> QED
    BY <1>1, <1>2 DEF Assignment!Openings

\* A request in another state of its own is as faithful as before.
LEMMA SavesOther ==
  ASSUME NEW S, SavesFit(S), NEW s \in S, NEW t, t \in Assignment!Saving, t.id = s.id, t.ver = s.ver, t.from = s.from
  PROVE  SavesFit(S \ {s}) /\ SavesFit((S \ {s}) \cup {t})
  BY DEF SavesFit, Assignment!Faithful

\* Dialogs are counted.
LEMMA CountUp == ASSUME Sound(r5) PROVE r5.no + 1 \in Nat
  <1>1. PICK n : n = r5.no
    OBVIOUS
  <1>2. n \in Nat
    BY <1>1 DEF Sound, Assignment!Dialog
  <1> QED
    BY <1>1, <1>2

\* A click, once the templates are there.
LEMMA BeginLoaded ==
  ASSUME r3 = "loaded", NEW dlg, Sound(dlg), NEW p \in Assignment!Opening, Assignment!Whole(p), Assignment!Begin(dlg, p)
  PROVE  Sound(r5') /\ r3' = r3 /\ r4' = r4
  <1>1. Sound(Assignment!Show(Assignment!Remember(dlg, p), <<p>>))
    BY SoundShow
  <1> QED
    BY <1>1 DEF Assignment!Begin

\* Gestures and answers once the templates are there.
LEMMA LoadedSave ==
  ASSUME Loaded, Assignment!Save
  PROVE  Loaded'
  <1>1. PICK i, v, f, fr, m, o, n : r5 = Fields(i, v, f, fr, m, o, n) /\ Fits(i, v, f, fr, m, o, n)
    BY SoundHas DEF Loaded
  <1>2. PICK dlg : dlg = r5
    OBVIOUS
  <1>3. dlg.id = i /\ dlg.ver = v /\ dlg.formId = f /\ dlg.from = fr /\ dlg.modal = m /\ dlg.no = n
    BY <1>1, <1>2, FieldsOf
  <1>4. PICK id : id = IF f # None THEN f ELSE i
    OBVIOUS
  <1>5. PICK w : w = IF id = None THEN None ELSE v
    OBVIOUS
  <1>6. PICK s : s = [click |-> r10, no |-> n, id |-> id, from |-> fr, step |-> "wire",
                      asks |-> {"rule", "blackout"}, prompt |-> 0, ver |-> w]
    OBVIOUS
  <1>7. r6' = r6 \cup {s}
    BY <1>2, <1>3, <1>4, <1>5, <1>6 DEF Assignment!Save, Assignment!Version
  <1>8. m \in {"create", "edit"}
    BY <1>2, <1>3 DEF Assignment!Save
  <1>9. s \in Assignment!Saving
    <2>1. id \in Row \cup {None} /\ w \in Nat \cup {None} /\ n \in Nat /\ fr \in [row : Row, ver : Nat] \cup {None}
      BY <1>1, <1>4, <1>5 DEF Fits
    <2>2. {"rule", "blackout"} \in SUBSET {"rule", "blackout"} /\ r10 \in Nat
      BY DEF Loaded
    <2> QED
      BY <1>6, <2>1, <2>2 DEF Assignment!Saving
  <1>10. ASSUME s.id # None PROVE Assignment!Faithful(s)
    <2>1. s.id = id /\ s.ver = w /\ s.from = fr
      BY <1>6
    <2>2. id = f /\ w = v /\ f # None
      BY <1>1, <1>4, <1>5, <1>8, <1>10, <2>1 DEF Fits
    <2>3. fr \in {None, [row |-> f, ver |-> v]}
      BY <1>1, <2>2 DEF Fits
    <2> QED
      BY <2>1, <2>2, <2>3 DEF Assignment!Faithful
  <1>11. SavesFit(r6')
    BY <1>7, <1>9, <1>10 DEF Loaded, SavesFit
  <1> QED
    BY <1>11 DEF Loaded, Assignment!Save, Assignment!Click

\* The update the server accepted is one of the faithful requests.
LEMMA LoadedAccepted ==
  ASSUME Loaded, Assignment!SaveAccepted
  PROVE  Loaded'
  <1>1. PICK s \in r6 :
          /\ r6' = r6 \ {s}
          /\ r1' = IF s.id = None THEN r1 ELSE [r1 EXCEPT ![s.id] = @ + 1]
          /\ r2' = r1'
          /\ r8' = IF s.id = None THEN r8 ELSE s
          /\ r5' = IF r5.no = s.no /\ r5.modal # None THEN Assignment!Close(Assignment!ResetForm(r5))
                   ELSE Assignment!ResetForm(r5)
    BY DEF Assignment!SaveAccepted
  <1>2. Sound(Assignment!ResetForm(r5))
    BY SoundReset DEF Loaded
  <1>3. Sound(Assignment!Close(Assignment!ResetForm(r5)))
    BY <1>2, SoundClose
  <1>4. Sound(r5')
    BY <1>1, <1>2, <1>3
  <1>5. r1' \in [Row -> Nat]
    <2>1. s.id \in Row \cup {None}
      BY <1>1 DEF Loaded, SavesFit, Assignment!Saving
    <2>2. PICK x : x = s.id
      OBVIOUS
    <2> QED
      BY <1>1, <2>1, <2>2 DEF Loaded
  <1>6. SavesFit(r6')
    BY <1>1 DEF Loaded, SavesFit
  <1>7. r8' # None => Assignment!Faithful(r8')
    BY <1>1 DEF Loaded, SavesFit
  <1>8. (r8 # None => Assignment!Faithful(r8))'
    BY <1>7 DEF Assignment!Faithful
  <1>9. r3' = r3 /\ r4' = r4 /\ r7' = r7 /\ r10' = r10
    BY DEF Assignment!SaveAccepted
  <1> QED
    BY <1>1, <1>4, <1>5, <1>6, <1>8, <1>9 DEF Loaded

\* Prompts and their answers leave what is saved as it was.
LEMMA LoadedAsk ==
  ASSUME Loaded, Assignment!AskWhy \/ Assignment!AnswerWhy
  PROVE  Loaded'
  <1>1. Sound(Assignment!OpenModal(r5, "prompt", None)) /\ Sound(Assignment!Close(r5)) /\ Sound(r5)
    BY SoundModal, SoundClose DEF Loaded
  <1>2. CASE Assignment!AskWhy
    <2>1. PICK s \in r6, why \in {"rule", "blackout"} :
            /\ r6' = (r6 \ {s}) \cup
                 {[s EXCEPT !.step = "held", !.asks = IF why = "rule" THEN {} ELSE @ \ {why},
                            !.prompt = r5.no + 1]}
            /\ r5' = Assignment!OpenModal(r5, "prompt", None)
      BY <1>2 DEF Assignment!AskWhy
    <2>2. PICK pr \in Nat : pr = r5.no + 1
      BY CountUp DEF Loaded
    <2>3. s \in Assignment!Saving
      BY <2>1 DEF Loaded, SavesFit
    <2>4. s.asks \in SUBSET {"rule", "blackout"}
      BY <2>3 DEF Assignment!Saving
    <2>5. PICK ak : ak = IF why = "rule" THEN {} ELSE s.asks \ {why}
      OBVIOUS
    <2>6. PICK t, st : st = "held" /\ t = [s EXCEPT !.step = st, !.asks = ak, !.prompt = pr]
      OBVIOUS
    <2>7. r6' = (r6 \ {s}) \cup {t}
      BY <2>1, <2>2, <2>5, <2>6
    <2>8. t \in Assignment!Saving /\ t.id = s.id /\ t.ver = s.ver /\ t.from = s.from
      <3>1. PICK q, a, b, c, e, f, g, h :
              s = [click |-> q, no |-> a, id |-> b, from |-> c, step |-> e, asks |-> f, prompt |-> g, ver |-> h]
        BY <2>3 DEF Assignment!Saving
      <3>2. t = [click |-> q, no |-> a, id |-> b, from |-> c, step |-> st, asks |-> ak, prompt |-> pr, ver |-> h]
        BY <2>6, <3>1
      <3>3. s.click = q /\ s.no = a /\ s.id = b /\ s.from = c /\ s.ver = h
        BY <3>1
      <3>4. /\ q \in Nat /\ a \in Nat /\ b \in Row \cup {None} /\ c \in [row : Row, ver : Nat] \cup {None}
            /\ h \in Nat \cup {None}
        BY <2>3, <3>3 DEF Assignment!Saving
      <3>5. pr \in Nat /\ ak \in SUBSET {"rule", "blackout"} /\ st \in {"wire", "held"}
        BY <2>2, <2>4, <2>5, <2>6
      <3>6. t.id = b /\ t.ver = h /\ t.from = c
        BY <3>2
      <3>7. t \in Assignment!Saving
        BY <3>2, <3>4, <3>5 DEF Assignment!Saving
      <3> QED
        BY <3>3, <3>6, <3>7
    <2>9. SavesFit(r6')
      <3>1. PICK S : S = r6
        OBVIOUS
      <3>2. SavesFit(S) /\ s \in S
        BY <2>1, <3>1 DEF Loaded
      <3>3. SavesFit((S \ {s}) \cup {t})
        BY <2>8, <3>2, SavesOther
      <3> QED
        BY <2>7, <3>1, <3>3
    <2> QED
      BY <1>1, <1>2, <2>1, <2>9 DEF Loaded, Assignment!AskWhy
  <1>3. CASE Assignment!AnswerWhy
    <2>1. PICK s \in r6 :
            \/ r6' = (r6 \ {s}) \cup {[s EXCEPT !.step = "wire"]}
            \/ r6' = r6 \ {s}
      BY <1>3 DEF Assignment!AnswerWhy
    <2>2. r5' \in {r5, Assignment!Close(r5)}
      BY <1>3 DEF Assignment!AnswerWhy
    <2>3. s \in Assignment!Saving
      BY <2>1 DEF Loaded, SavesFit
    <2>4. PICK t : t = [s EXCEPT !.step = "wire"]
      OBVIOUS
    <2>5. t \in Assignment!Saving /\ t.id = s.id /\ t.ver = s.ver /\ t.from = s.from
      <3>1. PICK q, a, b, c, e, f, g, h :
              s = [click |-> q, no |-> a, id |-> b, from |-> c, step |-> e, asks |-> f, prompt |-> g, ver |-> h]
        BY <2>3 DEF Assignment!Saving
      <3>2. t = [click |-> q, no |-> a, id |-> b, from |-> c, step |-> "wire", asks |-> f, prompt |-> g, ver |-> h]
        BY <2>4, <3>1
      <3> QED
        BY <2>3, <3>1, <3>2 DEF Assignment!Saving
    <2>6. SavesFit(r6 \ {s}) /\ SavesFit((r6 \ {s}) \cup {t})
      BY <2>1, <2>5, SavesOther DEF Loaded
    <2>7. SavesFit(r6')
      BY <2>1, <2>4, <2>6
    <2>8. Sound(r5')
      BY <1>1, <2>2
    <2> QED
      BY <1>3, <2>7, <2>8 DEF Loaded, Assignment!AnswerWhy
  <1> QED
    BY <1>2, <1>3

\* The dialog that may be opened again is the one that was open.
LEMMA LoadedAskCancel ==
  ASSUME Loaded, Assignment!AskCancel
  PROVE  Loaded'
  <1>1. PICK dlg : dlg = r5
    OBVIOUS
  <1>2. Sound(dlg) /\ dlg.modal = "edit"
    BY <1>1 DEF Loaded, Assignment!AskCancel, Assignment!Click
  <1>3. PICK o, fr : o = dlg.of /\ fr = dlg.from
    OBVIOUS
  <1>4. /\ o \in Assignment!Opening /\ o.what # "create" /\ fr \in [row : Row, ver : Nat] \cup {None}
        /\ Assignment!Whole([o EXCEPT !.from = fr])
    BY <1>2, <1>3 DEF Sound, Assignment!Together, Assignment!Dialog
  <1>5. PICK p, q : p = [o EXCEPT !.what = "again", !.from = fr] /\ q = [o EXCEPT !.from = fr]
    OBVIOUS
  <1>6. p \in Assignment!Opening /\ p.what = "again" /\ p.row = o.row /\ p.ver = o.ver /\ p.from = fr
    <2>1. o \in Assignment!Opening /\ fr \in [row : Row, ver : Nat] \cup {None}
      BY <1>4
    <2>2. p = Again(o, fr)
      BY <1>5 DEF Again
    <2> QED
      BY <2>1, <2>2, WithAgain
  <1>7. q.what = o.what /\ q.row = o.row /\ q.ver = o.ver /\ q.from = fr
    BY <1>4, <1>5, WithFrom
  <1>8. Assignment!Whole(q)
    BY <1>4, <1>5
  <1>9. Assignment!Whole(p)
    BY <1>4, <1>6, <1>7, <1>8 DEF Assignment!Whole
  <1>10. PICK k \in Nat : k = dlg.no + 1
    BY <1>1, <1>2, CountUp
  <1>11. PICK c : c = [of |-> p, step |-> "asked", no |-> k]
    OBVIOUS
  <1>12. r7' = r7 \cup {c}
    BY <1>1, <1>3, <1>5, <1>10, <1>11 DEF Assignment!AskCancel
  <1>13. c \in [of : Assignment!Opening, step : {"asked", "wire"}, no : Nat] /\ c.of = p
    BY <1>6, <1>11
  <1>14. CancelsFit(r7')
    BY <1>6, <1>9, <1>12, <1>13 DEF Loaded, CancelsFit
  <1>15. Sound(Assignment!OpenModal(r5, "cancel", None))
    BY SoundModal DEF Loaded
  <1> QED
    BY <1>14, <1>15 DEF Loaded, Assignment!AskCancel, Assignment!Click

\* It is opened again, or the row is gone.
LEMMA LoadedCancels ==
  ASSUME Loaded, Assignment!AnswerCancel \/ Assignment!CancelSettles
  PROVE  Loaded'
  <1>1. Sound(Assignment!Close(r5)) /\ Sound(r5)
    BY SoundClose DEF Loaded
  <1>2. \A c \in r7 : /\ c.of \in Assignment!Opening /\ c.of.what # "create" /\ Assignment!Whole(c.of)
                      /\ c.of.row \in Row
    BY DEF Loaded, CancelsFit, Assignment!Whole
  <1>3. CASE Assignment!AnswerCancel
    <2>1. PICK c \in r7 :
            \/ r7' = (r7 \ {c}) \cup {[c EXCEPT !.step = "wire"]} /\ r5' = Assignment!Close(r5) /\ r3' = r3 /\ r4' = r4
            \/ /\ r7' = r7 \ {c}
               /\ Assignment!Begin(IF Assignment!Asks("cancel", c.no) THEN Assignment!Close(r5) ELSE r5, c.of)
      BY <1>3 DEF Assignment!AnswerCancel
    <2>2. PICK dlg : dlg = IF Assignment!Asks("cancel", c.no) THEN Assignment!Close(r5) ELSE r5
      OBVIOUS
    <2>3. Sound(dlg)
      BY <1>1, <2>2
    <2>4. PICK p \in Assignment!Opening : p = c.of
      BY <1>2, <2>1
    <2>5. Assignment!Whole(p)
      BY <1>2, <2>1, <2>4
    <2>6. Assignment!Begin(dlg, p) => Sound(r5') /\ r3' = r3 /\ r4' = r4
      BY <2>3, <2>4, <2>5, BeginLoaded DEF Loaded
    <2>7. Sound(r5') /\ r3' = r3 /\ r4' = r4
      BY <1>1, <2>1, <2>2, <2>4, <2>6
    <2>8. CancelsFit(r7')
      <3>1. c = [of |-> p, step |-> c.step, no |-> c.no] /\ c.no \in Nat
        BY <2>1, <2>4 DEF Loaded, CancelsFit
      <3>2. PICK a, b : c = [of |-> p, step |-> a, no |-> b] /\ b \in Nat
        BY <3>1
      <3>3. PICK e : e = [c EXCEPT !.step = "wire"]
        OBVIOUS
      <3>4. e = [of |-> p, step |-> "wire", no |-> b]
        BY <3>2, <3>3
      <3>5. e \in [of : Assignment!Opening, step : {"asked", "wire"}, no : Nat] /\ e.of = c.of
        BY <3>2, <3>4
      <3>6. r7' = r7 \ {c} \/ r7' = (r7 \ {c}) \cup {e}
        BY <2>1, <3>3
      <3> QED
        BY <2>1, <3>5, <3>6 DEF Loaded, CancelsFit
    <2>9. r1' = r1 /\ r2' = r2 /\ r6' = r6 /\ r8' = r8 /\ r10' = r10
      BY <1>3 DEF Assignment!AnswerCancel
    <2> QED
      BY <2>7, <2>8, <2>9 DEF Loaded
  <1>4. CASE Assignment!CancelSettles
    <2>1. PICK c \in r7 :
            /\ r7' = r7 \ {c}
            /\ \/ /\ r1' = [r1 EXCEPT ![c.of.row] = @ + 1] /\ r2' = r1' /\ r5' = r5 /\ r3' = r3 /\ r4' = r4
               \/ Assignment!Begin(r5, c.of) /\ r1' = r1 /\ r2' = r2
      BY <1>4 DEF Assignment!CancelSettles
    <2>2. PICK p \in Assignment!Opening : p = c.of
      BY <1>2, <2>1
    <2>3. Assignment!Whole(p)
      BY <1>2, <2>1, <2>2
    <2>4. Assignment!Begin(r5, p) => Sound(r5') /\ r3' = r3 /\ r4' = r4
      BY <1>1, <2>2, <2>3, BeginLoaded DEF Loaded
    <2>5. Sound(r5') /\ r3' = r3 /\ r4' = r4
      BY <1>1, <2>1, <2>2, <2>4
    <2>6. CancelsFit(r7')
      BY <2>1 DEF Loaded, CancelsFit
    <2>7. r1' \in [Row -> Nat] /\ r2' \in [Row -> Nat]
      <3>1. PICK x \in Row : x = c.of.row
        BY <1>2, <2>1
      <3> QED
        BY <2>1, <3>1 DEF Loaded
    <2>8. r6' = r6 /\ r8' = r8 /\ r10' = r10
      BY <1>4 DEF Assignment!CancelSettles
    <2> QED
      BY <2>5, <2>6, <2>7, <2>8 DEF Loaded
  <1> QED
    BY <1>3, <1>4

\* Any step, once the templates are there.
LEMMA LoadedNext ==
  ASSUME Loaded, Assignment!Next \/ UNCHANGED Assignment!vars
  PROVE  Loaded'
  <1>1. CASE Assignment!OpenDialog
    <2>1. PICK p \in Assignment!Openings : Assignment!Begin(r5, p)
      BY <1>1 DEF Assignment!OpenDialog
    <2>2. p \in Assignment!Opening /\ Assignment!Whole(p)
      BY <2>1, PaintedOpenings DEF Loaded
    <2>3. Sound(r5') /\ r3' = r3 /\ r4' = r4
      BY <2>1, <2>2, BeginLoaded DEF Loaded
    <2> QED
      BY <1>1, <2>3 DEF Loaded, Assignment!OpenDialog, Assignment!Click
  <1>2. ~Assignment!TemplatesArrive
    BY DEF Loaded, Assignment!TemplatesArrive
  <1>3. CASE Assignment!Dismiss
    <2>1. Sound(Assignment!Close(r5))
      BY SoundClose DEF Loaded
    <2> QED
      BY <1>3, <2>1 DEF Loaded, Assignment!Dismiss
  <1>4. CASE Assignment!SaveRefused
    <2>1. SavesFit(r6')
      BY <1>4 DEF Loaded, SavesFit, Assignment!SaveRefused
    <2> QED
      BY <1>4, <2>1 DEF Loaded, Assignment!SaveRefused
  <1>5. CASE Assignment!OthersEdit
    <2>1. r1' \in [Row -> Nat]
      BY <1>5 DEF Loaded, Assignment!OthersEdit
    <2> QED
      BY <1>5, <2>1 DEF Loaded, Assignment!OthersEdit
  <1>6. CASE Assignment!Repaint
    BY <1>6 DEF Loaded, Assignment!Repaint
  <1>7. CASE UNCHANGED Assignment!vars
    BY <1>7 DEF Loaded, Assignment!vars
  <1> QED
    BY <1>1, <1>2, <1>3, <1>4, <1>5, <1>6, <1>7, LoadedSave, LoadedAccepted, LoadedAsk, LoadedAskCancel,
       LoadedCancels DEF Assignment!Next

\* What is known of the clicks that wait, as of what is remembered.
Queued(ws, i, v) ==
  /\ \A x \in DOMAIN ws : Assignment!Whole(ws[x]) /\ ws[x].what # "again"
  /\ \A x \in DOMAIN ws :
       (ws[x].what # "create" /\ \A y \in DOMAIN ws : y > x => ws[y].what = "create") => v = ws[x].ver
  /\ Len(ws) = 1 /\ ws[1].what = "create" => i = None

\* While clicks wait the form is empty.
LEMMA WaitsDlg ==
  ASSUME Waits
  PROVE  \E i, v, o, n : /\ r5 = Fields(i, v, None, None, None, o, n)
                         /\ i \in Row \cup {None} /\ v \in Nat \cup {None}
                         /\ o \in Assignment!Opening \cup {None} /\ n \in Nat
                         /\ Queued(r4, i, v)
  <1>1. PICK dlg : dlg = r5
    OBVIOUS
  <1>2. dlg \in Assignment!Dialog /\ dlg.modal = None /\ dlg.formId = None /\ dlg.from = None
    BY <1>1 DEF Waits, Assignment!Before
  <1>3. PICK i : i = dlg.id
    OBVIOUS
  <1>4. PICK v : v = dlg.ver
    OBVIOUS
  <1>5. PICK o : o = dlg.of
    OBVIOUS
  <1>6. PICK n : n = dlg.no
    OBVIOUS
  <1>7. dlg = Fields(i, v, None, None, None, o, n)
    BY <1>2, <1>3, <1>4, <1>5, <1>6, HasFields
  <1>8. /\ i \in Row \cup {None} /\ v \in Nat \cup {None}
        /\ o \in Assignment!Opening \cup {None} /\ n \in Nat
    BY <1>2, <1>3, <1>4, <1>5, <1>6 DEF Assignment!Dialog
  <1>9. Queued(r4, i, v)
    BY <1>1, <1>3, <1>4 DEF Waits, Assignment!Before, Queued
  <1> QED
    BY <1>1, <1>7, <1>8, <1>9

\* Another click joins them.
LEMMA QueuedMore ==
  ASSUME NEW ws \in Seq(Assignment!Opening), NEW i, NEW v, Queued(ws, i, v), NEW p \in Assignment!Opening,
         Assignment!Whole(p), p.what # "again", NEW j, NEW w,
         IF p.what = "create" THEN j = None /\ w = v ELSE w = p.ver
  PROVE  Queued(Append(ws, p), j, w)
  <1>1. PICK k \in Nat : k = Len(ws)
    OBVIOUS
  <1>2. PICK us : us = Append(ws, p)
    OBVIOUS
  <1>3. /\ DOMAIN ws = 1..k /\ DOMAIN us = 1..(k + 1) /\ us[k + 1] = p /\ Len(us) = k + 1
        /\ \A x \in 1..k : us[x] = ws[x]
    BY <1>1, <1>2
  <1>4. \A x \in 1..(k + 1) : x \in 1..k \/ x = k + 1
    OBVIOUS
  <1>5. ASSUME NEW x \in DOMAIN us PROVE Assignment!Whole(us[x]) /\ us[x].what # "again"
    <2>1. CASE x = k + 1
      BY <1>3, <2>1
    <2>2. CASE x \in 1..k
      BY <1>3, <2>2 DEF Queued
    <2> QED
      BY <1>3, <1>4, <2>1, <2>2
  <1>6. ASSUME NEW x \in DOMAIN us, us[x].what # "create", \A y \in DOMAIN us : y > x => us[y].what = "create"
        PROVE  w = us[x].ver
    <2>1. CASE x = k + 1
      BY <1>3, <1>6, <2>1
    <2>2. CASE x \in 1..k
      <3>1. k + 1 \in DOMAIN us /\ k + 1 > x
        BY <1>3, <2>2
      <3>2. p.what = "create" /\ w = v
        BY <1>3, <1>6, <3>1
      <3>3. ws[x].what # "create" /\ us[x].ver = ws[x].ver
        BY <1>3, <1>6, <2>2
      <3>4. \A y \in DOMAIN ws : y > x => ws[y].what = "create"
        <4>1. \A y \in 1..k : y \in DOMAIN us /\ us[y] = ws[y]
          BY <1>3
        <4> QED
          BY <1>3, <1>6, <4>1
      <3> QED
        BY <1>3, <2>2, <3>2, <3>3, <3>4 DEF Queued
    <2> QED
      BY <1>3, <1>4, <2>1, <2>2
  <1>7. ASSUME Len(us) = 1, us[1].what = "create" PROVE j = None
    BY <1>3, <1>7
  <1> QED
    BY <1>2, <1>5, <1>6, <1>7 DEF Queued

\* A click while the templates are on their way.
LEMMA WaitsOpen ==
  ASSUME Waits, Assignment!OpenDialog
  PROVE  Waits'
  <1>1. PICK i, v, o, n : /\ r5 = Fields(i, v, None, None, None, o, n)
                          /\ i \in Row \cup {None} /\ v \in Nat \cup {None}
                          /\ o \in Assignment!Opening \cup {None} /\ n \in Nat
                          /\ Queued(r4, i, v)
    BY WaitsDlg
  <1>2. PICK p \in Assignment!Openings : Assignment!Begin(r5, p)
    BY DEF Assignment!OpenDialog
  <1>3. p \in Assignment!Opening /\ Assignment!Whole(p) /\ p.what # "again"
    BY PaintedOpenings DEF Waits
  <1>4. r5' = Assignment!Remember(r5, p) /\ r3' = "loading" /\ r4' = Append(r4, p)
    BY <1>2 DEF Waits, Assignment!Begin
  <1>5. PICK j : j = IF p.what = "create" THEN None ELSE p.row
    OBVIOUS
  <1>6. PICK w : w = IF p.what = "create" THEN v ELSE p.ver
    OBVIOUS
  <1>7. PICK e : e = Fields(j, w, None, None, None, o, n)
    OBVIOUS
  <1>8. r5' = e
    BY <1>1, <1>4, <1>5, <1>6, <1>7, RememberDlg
  <1>9. j \in Row \cup {None} /\ w \in Nat \cup {None}
    BY <1>1, <1>3, <1>5, <1>6 DEF Assignment!Opening
  <1>10. e \in Assignment!Dialog
    BY <1>1, <1>7, <1>9 DEF Fields, Assignment!Dialog
  <1>11. e.modal = None /\ e.formId = None /\ e.from = None /\ e.id = j /\ e.ver = w
    BY <1>7, FieldsOf
  <1>12. PICK ws \in Seq(Assignment!Opening) : ws = r4
    BY DEF Waits
  <1>13. PICK us : us = Append(ws, p)
    OBVIOUS
  <1>14. Queued(us, j, w)
    <2>1. Queued(ws, i, v)
      BY <1>1, <1>12
    <2>2. IF p.what = "create" THEN j = None /\ w = v ELSE w = p.ver
      BY <1>5, <1>6
    <2> QED
      BY <1>3, <1>13, <2>1, <2>2, QueuedMore
  <1>15. us \in Seq(Assignment!Opening) /\ us # <<>>
    BY <1>3, <1>12, <1>13
  <1>16. r4' = us
    BY <1>4, <1>12, <1>13
  <1>17. r6' = r6 /\ r7' = r7 /\ r1' = r1 /\ r2' = r2 /\ r8' = r8
    BY DEF Assignment!OpenDialog
  <1>18. Assignment!Before'
    BY <1>4, <1>8, <1>11, <1>14, <1>15, <1>16, <1>17 DEF Waits, Assignment!Before, Queued
  <1> QED
    BY <1>4, <1>8, <1>10, <1>15, <1>16, <1>17, <1>18
       DEF Waits, Assignment!OpenDialog, Assignment!Click

\* The dialogs of all who waited, one after the other.
LEMMA ShowQueued ==
  ASSUME NEW ws \in Seq(Assignment!Opening), ws # <<>>, NEW i \in Row \cup {None}, NEW v \in Nat \cup {None},
         NEW o \in Assignment!Opening \cup {None}, NEW n \in Nat, Queued(ws, i, v)
  PROVE  Sound(Assignment!Show(Fields(i, v, None, None, None, o, n), ws))
  <1>1. PICK k \in Nat \ {0} : k = Len(ws)
    BY EmptySeq, LenProperties
  <1>2. DOMAIN ws = 1..k /\ (\A x \in 1..k : ws[x] \in Assignment!Opening) /\ k \in 1..k
    BY <1>1
  <1>3. PICK rows : rows = {y \in DOMAIN ws : ws[y].what # "create"}
    OBVIOUS
  <1>4. rows \subseteq 1..k /\ rows \subseteq Nat
    BY <1>2, <1>3
  <1>5. CASE rows = {}
    <2>1. PICK none : none = None
      OBVIOUS
    <2>2. Assignment!Fill(Fields(i, v, none, none, none, o, n), ws) = Fields(i, v, none, none, none, o, n)
      BY <1>3, <1>5 DEF Assignment!Fill
    <2>3. ws[k].what = "create"
      BY <1>2, <1>3, <1>5
    <2>4. PICK j \in Nat : Assignment!Show(Fields(i, v, none, none, none, o, n), ws)
            = Fields(IF k = 1 /\ none \notin {"create", "edit"} THEN i ELSE None, v, none, none, "create", ws[k], j)
      BY <1>1, <2>2, <2>3, ShowDlg
    <2>5. (IF k = 1 /\ none \notin {"create", "edit"} THEN i ELSE None) = None
      BY <1>1, <2>3 DEF Queued
    <2>6. PICK e : e = Fields(None, v, None, None, "create", ws[k], j)
      OBVIOUS
    <2>7. Fits(None, v, None, None, "create", ws[k], j)
      BY <1>2 DEF Fits
    <2>8. Sound(e)
      BY <2>6, <2>7, SoundFields
    <2> QED
      BY <2>1, <2>4, <2>5, <2>6, <2>8
  <1>6. CASE rows # {}
    <2>1. PICK x \in rows : \A y \in rows : y <= x
      BY <1>4, <1>6, LastOne
    <2>2. x \in 1..k /\ ws[x].what # "create" /\ ws[x] \in Assignment!Opening
      BY <1>2, <1>3, <1>4
    <2>3. PICK row, from, w : row = ws[x].row /\ from = ws[x].from /\ w = ws[x].ver
      OBVIOUS
    <2>4. PICK none : none = None
      OBVIOUS
    <2>5. Assignment!Fill(Fields(i, v, none, none, none, o, n), ws) = Fields(i, v, row, from, none, o, n)
      <3>1. \A y \in rows : ws[y].what # "again"
        BY <1>2, <1>4 DEF Queued
      <3>2. Assignment!Fill(Fields(i, v, none, none, none, o, n), ws)
            = Fields(i, v, ws[x].row, ws[x].from, none, o, n)
        BY <1>3, <1>4, <2>1, <3>1, FillDlg
      <3> QED
        BY <2>3, <3>2
    <2>6. PICK what : what = IF ws[k].what = "create" THEN "create" ELSE "edit"
      OBVIOUS
    <2>7. PICK j \in Nat : Assignment!Show(Fields(i, v, none, none, none, o, n), ws)
            = Fields(IF k = 1 /\ none \notin {"create", "edit"} THEN i ELSE None, v, row, from, what, ws[k], j)
      BY <1>1, <2>5, <2>6, ShowDlg
    <2>8. PICK h : h = IF k = 1 /\ none \notin {"create", "edit"} THEN i ELSE None
      OBVIOUS
    <2>9. v = w
      <3>1. \A y \in DOMAIN ws : y > x => ws[y].what = "create"
        <4>1. ASSUME NEW y \in 1..k, y > x PROVE y \notin rows
          BY <1>4, <2>1, <2>2, <4>1
        <4> QED
          BY <1>2, <1>3, <4>1
      <3> QED
        BY <1>2, <2>2, <2>3, <3>1 DEF Queued
    <2>10. row \in Row /\ w \in Nat /\ from \in {None, [row |-> row, ver |-> w]} /\ from \in [row : Row, ver : Nat] \cup {None}
      <3>1. Assignment!Whole(ws[x])
        BY <1>2, <2>2 DEF Queued
      <3> QED
        BY <2>2, <2>3, <3>1 DEF Assignment!Whole, Assignment!Opening
    <2>11. row # None
      BY <2>10, FrontEndAssumption
    <2>12. PICK q : q = ws[k]
      OBVIOUS
    <2>13. q \in Assignment!Opening
      BY <1>2, <2>12
    <2>14. what = "edit" => q.what # "create" /\ q.row = row /\ q.ver = w
      <3>1. ASSUME what = "edit" PROVE x = k
        <4>1. k \in rows
          BY <1>2, <1>3, <2>6, <3>1
        <4> QED
          BY <1>1, <2>1, <2>2, <4>1
      <3> QED
        BY <2>2, <2>3, <2>6, <2>12, <3>1
    <2>15. what \in {"create", "edit"} /\ h \in Row \cup {None}
      BY <2>6, <2>8
    <2>16. Fits(h, w, row, from, what, q, j)
      BY <2>10, <2>11, <2>13, <2>14, <2>15 DEF Fits
    <2>17. PICK e : e = Fields(h, w, row, from, what, q, j)
      OBVIOUS
    <2>18. Sound(e)
      BY <2>16, <2>17, SoundFields
    <2> QED
      BY <2>4, <2>7, <2>8, <2>9, <2>12, <2>17, <2>18
  <1> QED
    BY <1>5, <1>6

\* The templates arrive, or could not be fetched.
LEMMA WaitsArrive ==
  ASSUME Waits, Assignment!TemplatesArrive
  PROVE  Assignment!IInv'
  <1>1. CASE r3' = "none"
    <2>1. r9'
      BY <1>1 DEF Assignment!TemplatesArrive
    <2> QED
      BY <2>1 DEF Assignment!IInv
  <1>2. CASE r3' = "loaded"
    <2>1. PICK i, v, o, n : /\ r5 = Fields(i, v, None, None, None, o, n)
                            /\ i \in Row \cup {None} /\ v \in Nat \cup {None}
                            /\ o \in Assignment!Opening \cup {None} /\ n \in Nat
                            /\ Queued(r4, i, v)
      BY WaitsDlg
    <2>2. PICK ws \in Seq(Assignment!Opening) : ws = r4
      BY DEF Waits
    <2>3. ws # <<>>
      BY <2>2 DEF Waits, Assignment!Before, Assignment!TemplatesArrive
    <2>4. Queued(ws, i, v)
      BY <2>1, <2>2
    <2>5. Sound(Assignment!Show(Fields(i, v, None, None, None, o, n), ws))
      BY <2>1, <2>3, <2>4, ShowQueued
    <2>6. Sound(r5')
      BY <2>1, <2>2, <2>5 DEF Assignment!TemplatesArrive
    <2>7. SavesFit(r6) /\ CancelsFit(r7)
      BY DEF Waits, Assignment!Before, SavesFit, CancelsFit
    <2>8. Loaded'
      BY <1>2, <2>6, <2>7 DEF Waits, Loaded, Assignment!TemplatesArrive
    <2>9. (r9 \/ Loaded \/ Waits => Assignment!IInv)'
      BY TwoStages, PTL
    <2> QED
      BY <2>8, <2>9
  <1> QED
    BY <1>1, <1>2 DEF Assignment!TemplatesArrive

\* Nothing else happens to a dialog that waits.
LEMMA WaitsNext ==
  ASSUME Waits, Assignment!Next \/ UNCHANGED Assignment!vars
  PROVE  Assignment!TemplatesArrive \/ Waits'
  <1>1. ~Assignment!Dismiss /\ ~Assignment!Save /\ ~Assignment!AskCancel
    <2>1. r5.modal = None
      BY DEF Waits, Assignment!Before
    <2>2. None \notin {"create", "edit"}
      BY FrontEndAssumption
    <2> QED
      BY <2>1, <2>2 DEF Assignment!Dismiss, Assignment!Save, Assignment!AskCancel
  <1>2. /\ ~Assignment!SaveAccepted /\ ~Assignment!SaveRefused /\ ~Assignment!AskWhy /\ ~Assignment!AnswerWhy
        /\ ~Assignment!AnswerCancel /\ ~Assignment!CancelSettles
    <2>1. r6 = {} /\ r7 = {}
      BY DEF Waits, Assignment!Before
    <2> QED
      BY <2>1 DEF Assignment!SaveAccepted, Assignment!SaveRefused, Assignment!AskWhy, Assignment!AnswerWhy,
                  Assignment!AnswerCancel, Assignment!CancelSettles
  <1>3. CASE Assignment!OthersEdit
    <2>1. r1' \in [Row -> Nat]
      BY <1>3 DEF Waits, Assignment!OthersEdit
    <2> QED
      BY <1>3, <2>1 DEF Waits, Assignment!Before, Assignment!OthersEdit
  <1>4. CASE Assignment!Repaint
    BY <1>4 DEF Waits, Assignment!Before, Assignment!Repaint
  <1>5. CASE UNCHANGED Assignment!vars
    BY <1>5 DEF Waits, Assignment!Before, Assignment!vars
  <1> QED
    BY <1>1, <1>2, <1>3, <1>4, <1>5, WaitsOpen DEF Assignment!Next

\* At first no dialog is open and none waits.
LEMMA AssignmentInit == Assignment!Init => Assignment!IInv
  <1> SUFFICES ASSUME Assignment!Init PROVE Assignment!IInv
    OBVIOUS
  <1>1. r1 \in [Row -> Nat] /\ r2 \in [Row -> Nat] /\ r3 = "none" /\ r8 = None
    BY DEF Assignment!Init
  <1>0. r10 \in Nat
    BY DEF Assignment!Init
  <1>2. r4 = <<>> /\ r4 \in Seq(Assignment!Opening) /\ DOMAIN r4 = {} /\ Len(r4) = 0
    BY DEF Assignment!Init
  <1>3. r5 = [id |-> None, ver |-> None, formId |-> None, from |-> None,
              modal |-> None, of |-> None, no |-> 0]
    BY DEF Assignment!Init
  <1>4. r5 \in Assignment!Dialog
    BY <1>3 DEF Assignment!Dialog
  <1>5. r5.modal = None /\ r5.formId = None /\ r5.from = None
    BY <1>3
  <1>6. r6 = {} /\ r7 = {}
    BY DEF Assignment!Init
  <1>7. Assignment!Before
    BY <1>1, <1>2, <1>5, <1>6 DEF Assignment!Before
  <1>8. Waits
    BY <1>0, <1>1, <1>2, <1>4, <1>7 DEF Waits
  <1> QED
    BY <1>8, TwoStages

\* Whatever happens keeps the parts of the dialog together.
LEMMA AssignmentNext == Assignment!IInv /\ [Assignment!Next]_Assignment!vars => Assignment!IInv'
  <1> SUFFICES ASSUME Assignment!IInv, Assignment!Next \/ UNCHANGED Assignment!vars PROVE Assignment!IInv'
    OBVIOUS
  <1>1. (r9 \/ Loaded \/ Waits => Assignment!IInv)'
    BY TwoStages, PTL
  <1>2. CASE r9
    <2>1. r9'
      BY <1>2 DEF Assignment!Next, Assignment!vars, Assignment!OpenDialog, Assignment!TemplatesArrive,
                  Assignment!Dismiss, Assignment!Save, Assignment!SaveAccepted, Assignment!SaveRefused,
                  Assignment!AskWhy, Assignment!AnswerWhy, Assignment!AskCancel, Assignment!AnswerCancel,
                  Assignment!CancelSettles, Assignment!OthersEdit, Assignment!Repaint
    <2> QED
      BY <1>1, <2>1
  <1>3. CASE Loaded
    BY <1>1, <1>3, LoadedNext
  <1>4. CASE Waits
    BY <1>1, <1>4, WaitsNext, WaitsArrive
  <1> QED
    BY <1>2, <1>3, <1>4, TwoStages

-------------------------------------------------------------------------------
(* All of them.                                                              *)

\* What is known of the page that is open.
FInv ==
  /\ page = "periods" => Periods!IInv
  /\ page = "roster" => Roster!IInv
  /\ page = "tools" => Tools!IInv
  /\ page = "assignment" => Assignment!IInv
  /\ page = "tables" => Tables!IInv
  /\ page = "myRoster" => MyRoster!IInv
  /\ page = "patterns" => Patterns!IInv
  /\ page = "policy" => Policy!IInv
  /\ page = "licence" => Licence!IInv

\* A page that is opened starts from its own initial state.
LEMMA PagesStart == Init => FInv
  <1> SUFFICES ASSUME Init PROVE FInv
    OBVIOUS
  <1>1. page = "periods" => Periods!IInv
    BY PeriodsInit DEF Init
  <1>2. page = "roster" => Roster!IInv
    BY RosterInit DEF Init
  <1>3. page = "tools" => Tools!IInv
    BY ToolsInit DEF Init
  <1>4. page = "assignment" => Assignment!IInv
    BY AssignmentInit DEF Init
  <1>5. page = "tables" => Tables!IInv
    BY TablesInit DEF Init
  <1>6. page = "myRoster" => MyRoster!IInv
    BY MyRosterInit DEF Init
  <1>7. page = "patterns" => Patterns!IInv
    BY PatternsInit DEF Init
  <1>8. page = "policy" => Policy!IInv
    BY PolicyInit DEF Init
  <1>9. page = "licence" => Licence!IInv
    BY LicenceInit DEF Init
  <1> QED
    BY <1>1, <1>2, <1>3, <1>4, <1>5, <1>6, <1>7, <1>8, <1>9 DEF FInv

\* And stays open: its steps are those of its own script.
LEMMA PagesKept == FInv /\ [Next]_vars => FInv'
  <1> SUFFICES ASSUME FInv, [Next]_vars PROVE FInv'
    OBVIOUS
  <1>0. page' = page
    BY DEF Next, vars, PeriodsStep, RosterStep, ToolsStep, AssignmentStep, TablesStep,
             MyRosterStep, PatternsStep, PolicyStep, LicenceStep
  <1>1. ASSUME page = "periods" PROVE Periods!IInv'
    <2>1. PeriodsStep \/ UNCHANGED vars
      BY <1>1 DEF Next, PeriodsStep, RosterStep, ToolsStep, AssignmentStep, TablesStep,
             MyRosterStep, PatternsStep, PolicyStep, LicenceStep
    <2>2. UNCHANGED vars => UNCHANGED Periods!vars
      BY DEF vars, Periods!vars, Periods!listVars, Periods!paneVars
    <2>3. [Periods!Next]_(Periods!vars)
      BY <2>1, <2>2 DEF PeriodsStep
    <2> QED
      BY <1>1, <2>3, PeriodsNext DEF FInv
  <1>2. ASSUME page = "roster" PROVE Roster!IInv'
    <2>1. RosterStep \/ UNCHANGED vars
      BY <1>2 DEF Next, PeriodsStep, RosterStep, ToolsStep, AssignmentStep, TablesStep,
             MyRosterStep, PatternsStep, PolicyStep, LicenceStep
    <2>2. UNCHANGED vars => UNCHANGED Roster!vars
      BY DEF vars, Roster!vars, Roster!viewVars, Roster!loadVars, Roster!paneVars
    <2>3. [Roster!Next]_(Roster!vars)
      BY <2>1, <2>2 DEF RosterStep
    <2> QED
      BY <1>2, <2>3, RosterNext DEF FInv
  <1>3. ASSUME page = "tools" PROVE Tools!IInv'
    <2>1. ToolsStep \/ UNCHANGED vars
      BY <1>3 DEF Next, PeriodsStep, RosterStep, ToolsStep, AssignmentStep, TablesStep,
             MyRosterStep, PatternsStep, PolicyStep, LicenceStep
    <2>2. UNCHANGED vars => UNCHANGED Tools!vars
      BY DEF vars, Tools!vars, Tools!copyVars, Tools!fillVars, Tools!openVars
    <2>3. [Tools!Next]_(Tools!vars)
      BY <2>1, <2>2 DEF ToolsStep
    <2> QED
      BY <1>3, <2>3, ToolsNext DEF FInv
  <1>4. ASSUME page = "assignment" PROVE Assignment!IInv'
    <2>1. AssignmentStep \/ UNCHANGED vars
      BY <1>4 DEF Next, PeriodsStep, RosterStep, ToolsStep, AssignmentStep, TablesStep,
             MyRosterStep, PatternsStep, PolicyStep, LicenceStep
    <2>2. UNCHANGED vars => UNCHANGED Assignment!vars
      BY DEF vars, Assignment!vars
    <2>3. [Assignment!Next]_(Assignment!vars)
      BY <2>1, <2>2 DEF AssignmentStep
    <2> QED
      BY <1>4, <2>3, AssignmentNext DEF FInv
  <1>5. ASSUME page = "tables" PROVE Tables!IInv'
    <2>1. TablesStep \/ UNCHANGED vars
      BY <1>5 DEF Next, PeriodsStep, RosterStep, ToolsStep, AssignmentStep, TablesStep,
             MyRosterStep, PatternsStep, PolicyStep, LicenceStep
    <2>2. UNCHANGED vars => UNCHANGED Tables!vars
      BY DEF vars, Tables!vars
    <2>3. [Tables!Next]_(Tables!vars)
      BY <2>1, <2>2 DEF TablesStep
    <2> QED
      BY <1>5, <2>3, TablesNext DEF FInv
  <1>6. ASSUME page = "myRoster" PROVE MyRoster!IInv'
    <2>1. MyRosterStep \/ UNCHANGED vars
      BY <1>6 DEF Next, PeriodsStep, RosterStep, ToolsStep, AssignmentStep, TablesStep,
             MyRosterStep, PatternsStep, PolicyStep, LicenceStep
    <2>2. UNCHANGED vars => UNCHANGED MyRoster!vars
      BY DEF vars, MyRoster!vars, MyRoster!tableVars, MyRoster!swapVars, MyRoster!teamVars
    <2>3. [MyRoster!Next]_(MyRoster!vars)
      BY <2>1, <2>2 DEF MyRosterStep
    <2> QED
      BY <1>6, <2>3, MyRosterNext DEF FInv
  <1>7. ASSUME page = "patterns" PROVE Patterns!IInv'
    <2>1. PatternsStep \/ UNCHANGED vars
      BY <1>7 DEF Next, PeriodsStep, RosterStep, ToolsStep, AssignmentStep, TablesStep,
             MyRosterStep, PatternsStep, PolicyStep, LicenceStep
    <2>2. UNCHANGED vars => UNCHANGED Patterns!vars
      BY DEF vars, Patterns!vars, Patterns!listVars, Patterns!dialogVars
    <2>3. [Patterns!Next]_(Patterns!vars)
      BY <2>1, <2>2 DEF PatternsStep
    <2> QED
      BY <1>7, <2>3, PatternsNext DEF FInv
  <1>8. ASSUME page = "policy" PROVE Policy!IInv'
    <2>1. PolicyStep \/ UNCHANGED vars
      BY <1>8 DEF Next, PeriodsStep, RosterStep, ToolsStep, AssignmentStep, TablesStep,
             MyRosterStep, PatternsStep, PolicyStep, LicenceStep
    <2>2. UNCHANGED vars => UNCHANGED Policy!vars
      BY DEF vars, Policy!vars, Policy!stateVars, Policy!searchVars
    <2>3. [Policy!Next]_(Policy!vars)
      BY <2>1, <2>2 DEF PolicyStep
    <2> QED
      BY <1>8, <2>3, PolicyNext DEF FInv
  <1>9. ASSUME page = "licence" PROVE Licence!IInv'
    <2>1. LicenceStep \/ UNCHANGED vars
      BY <1>9 DEF Next, PeriodsStep, RosterStep, ToolsStep, AssignmentStep, TablesStep,
             MyRosterStep, PatternsStep, PolicyStep, LicenceStep
    <2>2. UNCHANGED vars => UNCHANGED Licence!vars
      BY DEF vars, Licence!vars, Licence!seatVars, Licence!searchVars
    <2>3. [Licence!Next]_(Licence!vars)
      BY <2>1, <2>2 DEF LicenceStep
    <2> QED
      BY <1>9, <2>3, LicenceNext DEF FInv
  <1> QED
    BY <1>0, <1>1, <1>2, <1>3, <1>4, <1>5, <1>6, <1>7, <1>8, <1>9 DEF FInv

\* So it is known at any time.
LEMMA SpecFInv == Spec => []FInv
  BY PagesStart, PagesKept, PTL DEF Spec

(***************************************************************************)
(* Whatever is clicked, and in whichever order answers arrive, fail or are  *)
(* overtaken: once what was asked for last is in, what a page shows belongs *)
(* to what is chosen on it; on the roster page the switcher, the days and   *)
(* cells of the grid and the rows of the list agree, but for an error and   *)
(* the rows a reveal had captured                                           *)
(* (rosterViewSeq and openShiftSeq of roster.js, detailsSeq of periods.js,  *)
(* rosterFetchSeq and teamSeq of my-roster.js, loadSeq of patterns.js,      *)
(* searchGeneration of license-settings.js).                                *)
(***************************************************************************)
THEOREM ChosenIsShown == Spec => []ShowsTheChosen
  <1>1. FInv => ShowsTheChosen
    <2> SUFFICES ASSUME FInv PROVE ShowsTheChosen
      OBVIOUS
    <2>1. page = "periods" => Periods!PanesOfSelection
      BY PeriodsOwes DEF FInv
    <2>2. page = "roster" => Roster!RowsOfNewestLoad /\ Roster!StripOfNewestLoad
      BY DEF FInv, Roster!IInv
    <2>3. page = "tools" => Tools!OpenShiftsOfNewestCall
      BY DEF FInv, Tools!IInv
    <2>4. page = "myRoster" => MyRoster!ShowsTheChosen
      BY DEF FInv, MyRoster!IInv
    <2>5. page = "patterns" => Patterns!OverlapShown
      BY PatternsOwes DEF FInv
    <2>6. page = "licence" => Licence!SuggestionsOfNewest
      BY DEF FInv, Licence!IInv
    <2> QED
      BY <2>1, <2>2, <2>3, <2>4, <2>5, <2>6 DEF ShowsTheChosen
  <1> QED
    BY <1>1, SpecFInv, PTL

(***************************************************************************)
(* An action changes what the user was shown when starting it: the ceremony *)
(* publishes the period that is selected, by that period's readiness once   *)
(* it has arrived (periods.js), a period is filled                          *)
(* with suggestions that were seen for it (roster.js), a pattern is saved   *)
(* with the days of the pattern that is edited (patterns.js), and           *)
(* the policy form knows what is not saved and locks nobody out.            *)
(***************************************************************************)
THEOREM ShownIsActedOn == Spec => []ActsOnWhatIsShown
  <1>1. FInv => ActsOnWhatIsShown
    <2> SUFFICES ASSUME FInv PROVE ActsOnWhatIsShown
      OBVIOUS
    <2>1. page = "periods" => Periods!CeremonyOfSelection
      BY PeriodsOwes DEF FInv
    <2>2. page = "tools" => Tools!FilledWasSeen
      BY DEF FInv, Tools!IInv
    <2>3. page = "patterns" => Patterns!DaysOfEdited
      BY PatternsOwes DEF FInv
    <2>4. page = "policy" => Policy!DirtyIsDifference /\ Policy!NeverLocksOut
      BY DEF FInv, Policy!IInv
    <2> QED
      BY <2>1, <2>2, <2>3, <2>4 DEF ActsOnWhatIsShown
  <1> QED
    BY <1>1, SpecFInv, PTL

(***************************************************************************)
(* The page of periods never has two requests on their way that change a    *)
(* period, however its buttons, its ceremony and its lists are used: a      *)
(* dialog covers the page until isBusy is set (deletePeriod,                *)
(* transitionPeriod), and only the answer that is awaited clears it.        *)
(***************************************************************************)
THEOREM OneMutationAtATime == Spec => []OneMutation
  <1>1. FInv => OneMutation
    BY PeriodsOwes DEF FInv, OneMutation
  <1> QED
    BY <1>1, SpecFInv, PTL

(***************************************************************************)
(* However clicks, prompts, cancellations, repaints, answers and the        *)
(* changes of other planners interleave: an update the server accepts was   *)
(* made in a form filled from that assignment, as it was until then         *)
(* (openAssignmentEditModal, performAssignmentSave, readForm), as long      *)
(* as the templates the dialog waits for could be fetched.                  *)
(***************************************************************************)
THEOREM NoUpdateIsLost == Spec => []NoLostUpdate
  <1>1. FInv => NoLostUpdate
    <2> SUFFICES ASSUME FInv, page = "assignment" PROVE Assignment!NoLostUpdate
      BY DEF NoLostUpdate
    <2>1. Assignment!IInv
      BY DEF FInv
    <2> QED
      BY <2>1 DEF Assignment!IInv, Assignment!NoLostUpdate
  <1> QED
    BY <1>1, SpecFInv, PTL

(***************************************************************************)
(* Whatever the size of a table, of its rows and of its viewport, and       *)
(* however it is scrolled, resized, filled and switched: every row in the   *)
(* viewport is painted once the frames have run, and so is the row the      *)
(* keyboard leads to, and that of a conflict if nothing is rendered between *)
(* its click and its frame (visibleRange, scrollTopToRevealIndex,           *)
(* revealAssignmentRow).                                                    *)
(***************************************************************************)
THEOREM RowsAreInSight == Spec => []RowsInSight
  <1>1. FInv => RowsInSight
    BY TablesOwes DEF FInv, RowsInSight
  <1> QED
    BY <1>1, SpecFInv, PTL

(***************************************************************************)
(* The roster does not say that it is loading when nothing is on its way,   *)
(* however loads are overtaken, fail or are left (loadRoster).              *)
(***************************************************************************)
THEOREM NothingIsStuck == Spec => []NothingStuck
  <1>1. FInv => NothingStuck
    BY DEF FInv, Roster!IInv, NothingStuck
  <1> QED
    BY <1>1, SpecFInv, PTL
===============================================================================
