-------------------------- MODULE IncidentStoreProofs --------------------------
(***************************************************************************)
(* For any events, processes, settings and bounds: IncidentStore is type   *)
(* correct, moves its cursor past nothing unaccounted for, proposes only   *)
(* what is proven, keeps within the rate as long as no write fails, and    *)
(* counts each failed action once (FailureTally).                          *)
(***************************************************************************)
EXTENDS IncidentStore, FiniteSetTheorems, TLAPS

-----------------------------------------------------------------------------
(* The invariant. *)

InHand == {"observing", "ingesting", "advancing", "considering"}

Entry == [event : Event, hour : 0..MaxHours]

\* A process that works on a row has one; what it may do with it, it has found
\* out about that row.
RowInHand(p) ==
    /\ pc[p] \in InHand => row[p] \in 1..Len(log)
    /\ pc[p] = "ingesting" => IsEvidence(At(p)) /\ (p \in Drainers => Admission[p] # "disabled")
    /\ pc[p] = "considering" => IncidentOf(At(p)) \in Incident
    /\ p \in Requests /\ pc[p] \in InHand => ~IsFinding(At(p))

\* Everything before the row a drain works on is accounted for, and that row
\* too once the drain is about to save its position.
AccountedBefore(n) == \A r \in 1..Len(log) : r < n /\ IsOwed(log[r].event) => Accounted(r)

DrainedSoFar(p) ==
    p \in Drainers =>
        /\ pc[p] \in {"observing", "ingesting"} => AccountedBefore(row[p])
        /\ pc[p] = "advancing" => AccountedBefore(row[p] + 1)

Placed(p) == RowInHand(p) /\ DrainedSoFar(p)

\* Row r is what lets incident i be repaired.
Proves(r, i) ==
    LET e == log[r].event
    IN  /\ ~IsDerived(e) /\ IncidentOf(e) = i /\ IsProvable(e)
        /\ IsFinding(e) => \E p \in Drainers : Admission[p] = "enabled"

Proven(i) == \E r \in folded : Proves(r, i)

AdmittedIsProven ==
    /\ \A i \in Incident : incidents[i].admission = "eligible" => Proven(i)
    /\ \A i \in proposed : Proven(i)

IInv ==
    /\ TypeOK
    /\ \A p \in Process : Placed(p)
    /\ AccountedBefore(cursor + 1)
    /\ AdmittedIsProven

-----------------------------------------------------------------------------
(* Events and the incidents they are evidence of. *)

LEMMA ConstantsTyped ==
    /\ \A e \in Inputs : e \in Event /\ ~IsFinding(e)
    /\ \A entry \in Entries : entry.of \in Event /\ IsFinding(entry.of)
    /\ Parent \in Incident \union {NoIncident}
    /\ \A p \in Drainers : Admission[p] \in {"enabled", "dry_run", "disabled"}
    /\ Drainers \intersect Requests = {}
  BY InputsAreEvents, BoundsAreNumbers

LEMMA FindingTyped ==
    ASSUME NEW entry \in Entries
    PROVE  /\ [entry.of EXCEPT !.name = Classify(entry)] \in Event
           /\ IsFinding([entry.of EXCEPT !.name = Classify(entry)])
  <1>1. Classify(entry) \in {"qualified", "needs_attention", "ignored"}
    BY DEF Classify
  <1>2. Classify(entry) \in Name
    BY <1>1 DEF Name
  <1> QED BY <1>2, ConstantsTyped DEF Event, IsFinding

\* Evidence has a family: that of its assertion, or of the browser signature.
LEMMA EvidenceHasFamily ==
    ASSUME NEW e \in Event, IsEvidence(e)
    PROVE  FamilyOf(e) \in Family
  <1>1. CASE IsFinding(e)
    BY <1>1 DEF FamilyOf, Signature, Family
  <1>2. CASE ~IsFinding(e)
    <2>1. \E f \in Family : e.name \in Assertions[f]
      BY <1>2 DEF IsEvidence
    <2> QED BY <1>2, <2>1 DEF FamilyOf
  <1> QED BY <1>1, <1>2

LEMMA EvidenceHasIncident ==
    ASSUME NEW e \in Event, IsEvidence(e), IsStorable(e)
    PROVE  IncidentOf(e) \in Incident
  <1>1. CASE IsDerived(e)
    BY <1>1, ConstantsTyped DEF IncidentOf, IsStorable
  <1>2. CASE ~IsDerived(e)
    <2>1. FamilyOf(e) \in Family
      BY EvidenceHasFamily
    <2>2. e.sha \in Revisions \union {""} /\ e.actor \in Actors
      BY DEF Event, IsStorable
    <2> QED BY <1>2, <2>1, <2>2 DEF IncidentOf, Incident
  <1> QED BY <1>1, <1>2

-----------------------------------------------------------------------------
(* What every step leaves as it was. *)

\* Rows are only added, and so is what is known of them.
Grows ==
    /\ Len(log) <= Len(log')
    /\ \A r \in 1..Len(log) : log'[r] = log[r]
    /\ folded \subseteq folded'
    /\ noted \subseteq noted'

LEMMA LogTyped ==
    ASSUME TypeOK
    PROVE  /\ Len(log) \in Nat /\ DOMAIN log = 1..Len(log)
           /\ \A r \in 1..Len(log) : log[r] \in Entry /\ log[r].event \in Event
  <1>1. log \in Seq(Entry)
    BY DEF TypeOK, Entry
  <1>2. Len(log) \in Nat /\ DOMAIN log = 1..Len(log)
    BY <1>1
  <1>3. ASSUME NEW r \in 1..Len(log) PROVE log[r] \in Entry /\ log[r].event \in Event
    <2>1. log[r] \in Entry
      BY <1>1
    <2> QED BY <2>1 DEF Entry
  <1> QED BY <1>2, <1>3

LEMMA CommitGrows ==
    ASSUME TypeOK, NEW e \in Event, Commit(e)
    PROVE  /\ log' \in Seq(Entry)
           /\ Len(log') = Len(log) + 1
           /\ \A r \in 1..Len(log) : log'[r] = log[r]
           /\ log'[Len(log) + 1].event = e
  <1>1. PICK h \in Hours : log' = Append(log, [event |-> e, hour |-> h])
    BY DEF Commit
  <1>2. h \in 0..MaxHours
    BY BoundsAreNumbers DEF Hours
  <1>3. log \in Seq(Entry) /\ [event |-> e, hour |-> h] \in Entry
    BY <1>2 DEF TypeOK, Entry
  <1> QED BY <1>1, <1>3

LEMMA StandingStillGrows ==
    ASSUME TypeOK, UNCHANGED <<log, folded, noted>>
    PROVE  Grows
  BY LogTyped DEF Grows

LEMMA AccountedStays ==
    ASSUME TypeOK, Grows, NEW n \in Nat, n <= Len(log) + 1, AccountedBefore(n)
    PROVE  AccountedBefore(n)'
  <1> SUFFICES ASSUME NEW r \in 1..Len(log'), r < n, IsOwed(log'[r].event)
               PROVE  Accounted(r)'
    BY DEF AccountedBefore, IsOwed, IsEvidence, IsFinding
  <1>1. r \in 1..Len(log) /\ log'[r] = log[r]
    BY LogTyped DEF Grows
  <1>2. Accounted(r)
    BY <1>1 DEF AccountedBefore
  <1> QED BY <1>2 DEF Accounted, Grows

LEMMA ProvenStays ==
    ASSUME TypeOK, Grows, NEW i, Proven(i)
    PROVE  Proven(i)'
  <1>1. PICK r \in folded : Proves(r, i)
    BY DEF Proven
  <1>2. r \in 1..Len(log) /\ r \in folded' /\ log'[r] = log[r]
    BY LogTyped DEF TypeOK, Grows
  <1>3. Proves(r, i)'
    BY <1>1, <1>2 DEF Proves
  <1> QED BY <1>2, <1>3 DEF Proven

\* A process that does not move keeps its place.
LEMMA PlaceStays ==
    ASSUME TypeOK, Grows, NEW p \in Process, Placed(p), pc'[p] = pc[p], row'[p] = row[p]
    PROVE  Placed(p)'
  <1>1. RowInHand(p)'
    <2>1. CASE pc[p] \in InHand
      <3>1. row[p] \in 1..Len(log) /\ row[p] \in 1..Len(log') /\ log'[row[p]] = log[row[p]]
        BY <2>1, LogTyped DEF Placed, RowInHand, Grows
      <3>2. At(p)' = At(p)
        BY <3>1 DEF At
      <3> QED BY <3>1, <3>2 DEF Placed, RowInHand
    <2>2. CASE pc[p] \notin InHand
      BY <2>2 DEF RowInHand, InHand
    <2> QED BY <2>1, <2>2
  <1>2. DrainedSoFar(p)'
    <2>1. CASE p \in Drainers /\ pc[p] \in InHand
      <3>1. row[p] \in 1..Len(log)
        BY <2>1 DEF Placed, RowInHand
      <3>2. PICK n \in Nat : n = row[p]
        BY <3>1
      <3>3. n <= Len(log) + 1 /\ n + 1 \in Nat /\ n + 1 <= Len(log) + 1
        BY <3>1, <3>2, LogTyped
      <3>4. AccountedBefore(n) => AccountedBefore(n)'
        BY <3>3, AccountedStays
      <3>5. AccountedBefore(n + 1) => AccountedBefore(n + 1)'
        BY <3>3, AccountedStays
      <3>6. /\ pc[p] \in {"observing", "ingesting"} => AccountedBefore(n)
            /\ pc[p] = "advancing" => AccountedBefore(n + 1)
        BY <2>1, <3>2 DEF Placed, DrainedSoFar
      <3>7. row'[p] = n
        BY <3>2
      <3> QED BY <3>4, <3>5, <3>6, <3>7 DEF DrainedSoFar, AccountedBefore
    <2>2. CASE ~(p \in Drainers /\ pc[p] \in InHand)
      BY <2>2 DEF DrainedSoFar, InHand
    <2> QED BY <2>1, <2>2
  <1> QED BY <1>1, <1>2 DEF Placed

\* And one that has no row has none to answer for.
LEMMA NoRowNoPlace ==
    ASSUME NEW p \in Process, pc'[p] \notin InHand
    PROVE  Placed(p)'
  BY DEF Placed, RowInHand, DrainedSoFar, InHand

-----------------------------------------------------------------------------
(* Folding the row in hand. *)

Label == {"down", "drained", "observing", "ingesting", "advancing",
          "catching_up", "serving", "considering"}

\* Where a process goes when it is done with observing.
MovesOn(p) ==
    \/ /\ p \in Drainers
       /\ pc' = [pc EXCEPT ![p] = "advancing"] /\ row' = row
    \/ /\ p \notin Drainers /\ IncidentOf(At(p)) \in Incident
       /\ pc' = [pc EXCEPT ![p] = "considering"] /\ row' = row
    \/ /\ p \notin Drainers
       /\ pc' = [pc EXCEPT ![p] = "serving"] /\ row' = [row EXCEPT ![p] = 0]

\* Row r is accounted for after the step.
AccountsFor(r) == r \in folded' \/ \E why \in Reason : <<r, why>> \in noted'

LEMMA PassedMovesOn ==
    ASSUME NEW p \in Process, Passed(p)
    PROVE  MovesOn(p)
  BY DEF Passed, Answer, Goto, MovesOn

LEMMA LearntMovesOn ==
    ASSUME NEW p \in Process, IncidentOf(At(p)) \in Incident, Learnt(p)
    PROVE  MovesOn(p)
  BY DEF Learnt, Goto, MovesOn

LEMMA MovedOnPlaced ==
    ASSUME IInv, NEW p \in Process, pc[p] \in {"observing", "ingesting"},
           UNCHANGED log, Grows, MovesOn(p),
           p \in Drainers /\ IsOwed(At(p)) => AccountsFor(row[p])
    PROVE  /\ \A q \in Process : Placed(q)'
           /\ pc' \in [Process -> Label]
           /\ row' \in [Process -> Nat]
  <1>1. pc \in [Process -> Label] /\ row \in [Process -> Nat]
    BY DEF IInv, TypeOK, Label
  <1>2. PICK s \in {"advancing", "considering", "serving"} : pc' = [pc EXCEPT ![p] = s]
    BY DEF MovesOn
  <1>3. /\ pc' \in [Process -> Label] /\ pc'[p] = s
        /\ row' \in [Process -> Nat] /\ \A q \in Process \ {p} : row'[q] = row[q]
    BY <1>1, <1>2 DEF Label, MovesOn
  <1>4. ASSUME NEW q \in Process, q # p
        PROVE  Placed(q)'
    <2>1. pc'[q] = pc[q] /\ row'[q] = row[q]
      BY <1>1, <1>2, <1>3, <1>4
    <2> QED BY <2>1, PlaceStays DEF IInv
  <1>5. row[p] \in 1..Len(log) /\ (p \in Requests => ~IsFinding(At(p)))
    BY DEF IInv, Placed, RowInHand, InHand
  <1>6. Placed(p)'
    <2>1. CASE s = "serving"
      BY <1>3, <2>1, NoRowNoPlace DEF InHand
    <2>2. CASE s = "considering"
      <3>1. /\ row'[p] = row[p] /\ At(p)' = At(p)
            /\ p \notin Drainers /\ IncidentOf(At(p)) \in Incident
        BY <1>1, <1>3, <2>2 DEF At, MovesOn
      <3> QED BY <1>2, <1>3, <1>5, <2>2, <3>1 DEF Placed, RowInHand, DrainedSoFar
    <2>3. CASE s = "advancing"
      <3>1. row'[p] = row[p] /\ At(p)' = At(p) /\ p \in Drainers /\ row' = row
        BY <1>1, <1>3, <2>3 DEF At, MovesOn
      <3>2. RowInHand(p)'
        BY <1>3, <1>5, <2>3, <3>1 DEF RowInHand
      <3>3. PICK n \in Nat : n = row[p]
        BY <1>5
      <3>4. AccountedBefore(n)
        BY <3>1, <3>3 DEF IInv, Placed, DrainedSoFar
      <3>5. AccountedBefore(n)'
        BY <1>5, <3>3, <3>4, LogTyped, AccountedStays DEF IInv
      <3>6. IsOwed(log'[n].event) => Accounted(n)'
        BY <3>1, <3>3 DEF At, Accounted, AccountsFor
      <3>7. AccountedBefore(n + 1)'
        <4> SUFFICES ASSUME NEW r \in 1..Len(log'), r < n + 1, IsOwed(log'[r].event)
                     PROVE  Accounted(r)'
          BY DEF AccountedBefore, IsOwed, IsEvidence, IsFinding
        <4>1. CASE r = n
          BY <3>6, <4>1
        <4>2. CASE r < n
          BY <3>5, <4>2 DEF AccountedBefore
        <4> QED BY <4>1, <4>2, LogTyped DEF IInv
      <3> QED BY <1>3, <2>3, <3>1, <3>2, <3>3, <3>7 DEF Placed, DrainedSoFar,
                     AccountedBefore
    <2> QED BY <2>1, <2>2, <2>3
  <1> QED BY <1>3, <1>4, <1>6

Kept == [admission : {"none", "eligible", "blocked"}, count : Nat]

StoreTyped ==
    /\ folded \subseteq DOMAIN log
    /\ occurrences \subseteq Incident \X Actions
    /\ incidents \in [Incident -> Kept]
    /\ noted \subseteq (DOMAIN log) \X Reason

\* A first event of an incident sets its admission, and every new action
\* counts.
LEMMA CountedStores ==
    ASSUME NEW i \in Incident, NEW e \in Event, NEW a \in {"eligible", "blocked"},
           incidents \in [Incident -> Kept], occurrences \subseteq Incident \X Actions,
           Counted(i, e, a)
    PROVE  /\ incidents' \in [Incident -> Kept]
           /\ occurrences' \subseteq Incident \X Actions
           /\ \A j \in Incident :
                 incidents'[j].admission = "eligible" =>
                     incidents[j].admission = "eligible" \/ (j = i /\ a = "eligible")
  <1> DEFINE n == IF <<i, e.trace>> \notin occurrences THEN 1 ELSE 0
             new == [admission |-> IF Known(i) THEN incidents[i].admission ELSE a,
                     count     |-> incidents[i].count + n]
  <1>1. e.trace \in Actions /\ occurrences' = occurrences \union {<<i, e.trace>>}
    BY DEF Event, Counted
  <1>2. incidents' = [incidents EXCEPT ![i] = new]
    BY DEF Counted
  <1>3. incidents[i] \in Kept /\ n \in Nat
    OBVIOUS
  <1>4. new \in Kept /\ (new.admission = "eligible" =>
                            incidents[i].admission = "eligible" \/ a = "eligible")
    BY <1>3 DEF Kept
  <1> HIDE DEF new
  <1>5. incidents' \in [Incident -> Kept]
        /\ incidents'[i] = new /\ \A j \in Incident \ {i} : incidents'[j] = incidents[j]
    BY <1>2, <1>4
  <1> QED BY <1>1, <1>4, <1>5

LEMMA IngestStores ==
    ASSUME IInv, NEW p \in Process, pc[p] \in {"observing", "ingesting"},
           IsEvidence(At(p)), IsFinding(At(p)) /\ p \in Drainers => Admission[p] # "disabled",
           Ingest(p), UNCHANGED log
    PROVE  /\ StoreTyped' /\ Grows /\ MovesOn(p) /\ AccountsFor(row[p])
           /\ \A i \in Incident :
                 incidents'[i].admission = "eligible" =>
                     \/ incidents[i].admission = "eligible"
                     \/ row[p] \in folded' /\ Proves(row[p], i)
  <1> DEFINE e == At(p)
             i == IncidentOf(e)
             r == row[p]
  <1>1. /\ r \in DOMAIN log /\ e \in Event /\ e = log[r].event
        /\ p \in Requests => ~IsFinding(e)
    BY LogTyped DEF IInv, Placed, RowInHand, InHand, At
  <1>2. StoreTyped
    BY DEF IInv, TypeOK, StoreTyped, Kept
  <1>3. \A why \in Reason : Note(p, why) =>
            /\ StoreTyped' /\ Grows /\ MovesOn(p) /\ AccountsFor(r)
            /\ incidents' = incidents
    <2> SUFFICES ASSUME NEW why \in Reason, Note(p, why)
                 PROVE  /\ StoreTyped' /\ Grows /\ MovesOn(p) /\ AccountsFor(r)
                        /\ incidents' = incidents
      OBVIOUS
    <2>1. /\ noted' = noted \union {<<r, why>>} /\ Passed(p)
          /\ UNCHANGED <<folded, occurrences, incidents>>
      BY DEF Note, store
    <2>2. StoreTyped' /\ AccountsFor(r)
      BY <1>1, <1>2, <2>1 DEF StoreTyped, AccountsFor
    <2>3. Grows
      BY <2>1, LogTyped DEF Grows, IInv
    <2> QED BY <2>1, <2>2, <2>3, PassedMovesOn
  <1>4. CASE ~IsStorable(e)
    BY <1>3, <1>4 DEF Ingest, Reason
  <1>5. CASE IsStorable(e) /\ IsDerived(e) /\ ~Known(i)
    BY <1>3, <1>5 DEF Ingest, Reason
  <1>6. CASE IsStorable(e) /\ (IsDerived(e) => Known(i))
    <2>1. i \in Incident
      BY <1>1, <1>6, EvidenceHasIncident
    <2>2. Learnt(p) /\ UNCHANGED noted
      BY <1>6 DEF Ingest
    <2>3. MovesOn(p)
      BY <2>1, <2>2, LearntMovesOn
    <2>4. CASE r \in folded
      <3>1. UNCHANGED <<folded, occurrences, incidents>>
        BY <1>6, <2>4 DEF Ingest, store
      <3>2. StoreTyped' /\ AccountsFor(r)
        BY <1>2, <2>2, <2>4, <3>1 DEF StoreTyped, AccountsFor
      <3> QED BY <2>2, <2>3, <3>1, <3>2, StandingStillGrows DEF IInv
    <2>5. CASE r \notin folded
      <3>1. /\ folded' = folded \union {r}
            /\ IF IsDerived(e) THEN UNCHANGED <<occurrences, incidents>>
                               ELSE Counted(i, e, Admit(p, e))
        BY <1>6, <2>5 DEF Ingest
      <3>2. Grows /\ AccountsFor(r)
        BY <2>2, <3>1, LogTyped DEF Grows, AccountsFor, IInv
      <3>3. CASE IsDerived(e)
        <4>1. StoreTyped'
          BY <1>1, <1>2, <2>2, <3>1, <3>3 DEF StoreTyped
        <4> QED BY <2>3, <3>1, <3>2, <3>3, <4>1
      <3>4. CASE ~IsDerived(e)
        <4>1. Admit(p, e) \in {"eligible", "blocked"}
          BY DEF Admit
        <4>2. /\ incidents' \in [Incident -> Kept]
              /\ occurrences' \subseteq Incident \X Actions
              /\ \A j \in Incident :
                    incidents'[j].admission = "eligible" =>
                        incidents[j].admission = "eligible"
                        \/ (j = i /\ Admit(p, e) = "eligible")
          BY <1>1, <1>2, <2>1, <3>1, <3>4, <4>1, CountedStores DEF StoreTyped
        <4>3. StoreTyped'
          BY <1>1, <1>2, <2>2, <3>1, <4>2 DEF StoreTyped
        <4>4. ASSUME Admit(p, e) = "eligible"
              PROVE  Proves(r, i)
          <5>1. IsProvable(e) /\ ~(IsFinding(e) /\ Admission[p] = "dry_run")
            BY <4>4 DEF Admit
          <5>2. ASSUME IsFinding(e)
                PROVE  \E q \in Drainers : Admission[q] = "enabled"
            <6>1. p \in Drainers
              BY <1>1, <5>2 DEF Process
            <6> QED BY <5>1, <5>2, <6>1, ConstantsTyped
          <5> QED BY <1>1, <3>4, <5>1, <5>2 DEF Proves
        <4> QED BY <2>3, <3>1, <3>2, <4>2, <4>3, <4>4
      <3> QED BY <3>3, <3>4
    <2> QED BY <2>4, <2>5
  <1> QED BY <1>4, <1>5, <1>6

LEMMA CursorStays ==
    ASSUME IInv, Grows, UNCHANGED cursor
    PROVE  AccountedBefore(cursor + 1)'
  <1>1. cursor \in Nat /\ cursor <= Len(log)
    BY LogTyped DEF IInv, TypeOK
  <1>2. PICK n \in Nat : n = cursor + 1
    BY <1>1
  <1>3. AccountedBefore(n)'
    BY <1>1, <1>2, LogTyped, AccountedStays DEF IInv
  <1> QED BY <1>2, <1>3 DEF AccountedBefore

LEMMA FoldKeepsInv ==
    ASSUME IInv, NEW p \in Process, pc[p] \in {"observing", "ingesting"},
           UNCHANGED <<log, cursor, proposed, last, due, beyond, crashes>>,
           failures' \in 0..MaxFailures,
           StoreTyped', Grows, MovesOn(p),
           p \in Drainers /\ IsOwed(At(p)) => AccountsFor(row[p]),
           \A i \in Incident :
              incidents'[i].admission = "eligible" =>
                  \/ incidents[i].admission = "eligible"
                  \/ row[p] \in folded' /\ Proves(row[p], i)
    PROVE  IInv'
  <1>1. (\A q \in Process : Placed(q)') /\ pc' \in [Process -> Label] /\ row' \in [Process -> Nat]
    BY MovedOnPlaced
  <1>2. TypeOK'
    BY <1>1 DEF IInv, TypeOK, StoreTyped, Kept, Label
  <1>3. AccountedBefore(cursor + 1)'
    BY CursorStays
  <1>4. ASSUME NEW i \in Incident, incidents'[i].admission = "eligible"
        PROVE  Proven(i)'
    <2>1. CASE incidents[i].admission = "eligible"
      BY <2>1, ProvenStays DEF IInv, AdmittedIsProven
    <2>2. CASE row[p] \in folded' /\ Proves(row[p], i)
      <3>1. PICK r \in folded' : r = row[p]
        BY <2>2
      <3>2. Proves(r, i)'
        BY <2>2, <3>1 DEF Proves
      <3> QED BY <3>1, <3>2 DEF Proven
    <2> QED BY <1>4, <2>1, <2>2
  <1>5. \A i \in proposed' : Proven(i)'
    BY ProvenStays DEF IInv, AdmittedIsProven
  <1> QED BY <1>1, <1>2, <1>3, <1>4, <1>5 DEF IInv, AdmittedIsProven

\* A row that is stored or noted by the transaction, whatever it finds.
LEMMA IngestKeepsInv ==
    ASSUME IInv, NEW p \in Process, pc[p] \in {"observing", "ingesting"},
           IsEvidence(At(p)), IsFinding(At(p)) /\ p \in Drainers => Admission[p] # "disabled",
           Ingest(p), UNCHANGED <<log, cursor, proposed, last, due, history>>
    PROVE  IInv'
  <1>1. /\ UNCHANGED <<log, cursor, proposed, last, due, beyond, crashes>>
        /\ failures' \in 0..MaxFailures
    BY DEF history, IInv, TypeOK
  <1>2. /\ StoreTyped' /\ Grows /\ MovesOn(p) /\ AccountsFor(row[p])
        /\ \A i \in Incident :
              incidents'[i].admission = "eligible" =>
                  \/ incidents[i].admission = "eligible"
                  \/ row[p] \in folded' /\ Proves(row[p], i)
    BY <1>1, IngestStores
  <1> QED BY <1>1, <1>2, FoldKeepsInv

\* A row that is noted only.
LEMMA NoteKeepsInv ==
    ASSUME IInv, NEW p \in Process, pc[p] \in {"observing", "ingesting"},
           NEW why \in Reason, Note(p, why),
           UNCHANGED <<log, cursor, proposed, last, due, beyond, crashes>>,
           failures' \in 0..MaxFailures
    PROVE  IInv'
  <1>1. row[p] \in DOMAIN log
    BY LogTyped DEF IInv, Placed, RowInHand, InHand
  <1>2. /\ noted' = noted \union {<<row[p], why>>} /\ Passed(p)
        /\ UNCHANGED <<folded, occurrences, incidents>>
    BY DEF Note, store
  <1>3. StoreTyped' /\ AccountsFor(row[p])
    BY <1>1, <1>2 DEF IInv, TypeOK, StoreTyped, Kept, AccountsFor
  <1>4. Grows
    BY <1>2, LogTyped DEF Grows, IInv
  <1> QED BY <1>2, <1>3, <1>4, PassedMovesOn, FoldKeepsInv

LEMMA ObserveKeepsInv ==
    ASSUME IInv, NEW p \in Process, Observe(p)
    PROVE  IInv'
  <1>1. /\ pc[p] \in {"observing", "ingesting"} /\ pc[p] = "observing"
        /\ UNCHANGED <<log, cursor, proposed, last, due, history>>
    BY DEF Observe
  <1>2. /\ UNCHANGED <<log, cursor, proposed, last, due, beyond, crashes>>
        /\ failures' \in 0..MaxFailures
    BY <1>1 DEF history, IInv, TypeOK
  <1>3. CASE IsNothing(p, At(p)) /\ Suppress(p)
    <2>1. /\ Passed(p) /\ UNCHANGED <<folded, occurrences, incidents, noted>>
      BY <1>3 DEF Suppress, store
    <2>2. StoreTyped' /\ Grows
      BY <1>2, <2>1, StandingStillGrows DEF IInv, TypeOK, StoreTyped, Kept
    <2>3. ~(p \in Drainers /\ IsOwed(At(p)))
      BY <1>3 DEF IsNothing, IsOwed
    <2> QED BY <1>1, <1>2, <2>1, <2>2, <2>3, PassedMovesOn, FoldKeepsInv
  <1>4. CASE \E why \in {"remarkable", "rate_limit"} : Note(p, why)
    BY <1>1, <1>2, <1>4, NoteKeepsInv DEF Reason
  <1>5. CASE IsEvidence(At(p)) /\ ~IsFinding(At(p)) /\ Ingest(p)
    BY <1>1, <1>5, IngestKeepsInv
  <1>6. CASE /\ IsEvidence(At(p)) /\ IsFinding(At(p)) /\ ~IsNothing(p, At(p))
             /\ Goto(p, "ingesting") /\ UNCHANGED <<store, noted, row>>
    <2>1. /\ UNCHANGED <<folded, occurrences, incidents, noted, row>>
          /\ pc' = [pc EXCEPT ![p] = "ingesting"]
      BY <1>6 DEF store, Goto
    <2>2. Grows
      BY <1>2, <2>1, StandingStillGrows DEF IInv
    <2>3. TypeOK'
      BY <1>2, <2>1 DEF IInv, TypeOK
    <2>4. ASSUME NEW q \in Process, q # p
          PROVE  Placed(q)'
      <3>1. pc'[q] = pc[q] /\ row'[q] = row[q]
        BY <2>1, <2>4 DEF IInv, TypeOK
      <3> QED BY <2>2, <3>1, PlaceStays DEF IInv
    <2>5. Placed(p)'
      <3>1. pc'[p] = "ingesting" /\ row' = row /\ At(p)' = At(p)
        BY <1>2, <2>1 DEF IInv, TypeOK, At
      <3>2. RowInHand(p) /\ (p \in Drainers => AccountedBefore(row[p]))
        BY <1>1 DEF IInv, Placed, DrainedSoFar
      <3>3. p \in Drainers => Admission[p] # "disabled"
        BY <1>6 DEF IsNothing, IsRemarkable, IsEvidence, IsFinding
      <3>4. RowInHand(p)'
        BY <1>1, <1>2, <1>6, <3>1, <3>2, <3>3 DEF RowInHand, InHand
      <3>5. AccountedBefore(row[p])' <=> AccountedBefore(row[p])
        BY <1>2, <2>1 DEF AccountedBefore, Accounted
      <3> QED BY <3>1, <3>2, <3>4, <3>5 DEF Placed, DrainedSoFar
    <2>6. AccountedBefore(cursor + 1)'
      BY <1>2, <2>2, CursorStays
    <2>7. AdmittedIsProven'
      BY <1>2, <2>1, <2>2, ProvenStays DEF IInv, AdmittedIsProven
    <2> QED BY <2>3, <2>4, <2>5, <2>6, <2>7 DEF IInv
  <1> QED BY <1>3, <1>4, <1>5, <1>6 DEF Observe

LEMMA IngestFindingKeepsInv ==
    ASSUME IInv, NEW p \in Process, IngestFinding(p)
    PROVE  IInv'
  <1>1. /\ pc[p] = "ingesting" /\ Ingest(p)
        /\ UNCHANGED <<log, cursor, proposed, last, due, history>>
    BY DEF IngestFinding
  <1>2. IsEvidence(At(p)) /\ (p \in Drainers => Admission[p] # "disabled")
    BY <1>1 DEF IInv, Placed, RowInHand
  <1> QED BY <1>1, <1>2, IngestKeepsInv

LEMMA ObserveFailsKeepsInv ==
    ASSUME IInv, NEW p \in Process, ObserveFails(p)
    PROVE  IInv'
  <1>1. /\ pc[p] \in {"observing", "ingesting"} /\ Note(p, "exception")
        /\ UNCHANGED <<log, cursor, proposed, last, due, beyond, crashes>>
        /\ failures' \in 0..MaxFailures
    BY BoundsAreNumbers DEF ObserveFails, IInv, TypeOK
  <1> QED BY <1>1, NoteKeepsInv DEF Reason

-----------------------------------------------------------------------------
(* The other steps. *)

\* Processes that let go of their row, and what they propose on the way.
LEMMA LettingGoKeepsInv ==
    ASSUME IInv, UNCHANGED <<log, folded, occurrences, incidents, noted, cursor>>,
           pc' \in [Process -> Label], row' \in [Process -> Nat],
           last' \in [Drainers -> 0..Len(log)], due' \subseteq Incident,
           beyond' \subseteq Nat, crashes' \in 0..MaxCrashes, failures' \in 0..MaxFailures,
           proposed' \subseteq Incident, \A i \in proposed' : Proven(i),
           \A q \in Process : (pc'[q] = pc[q] /\ row'[q] = row[q]) \/ pc'[q] \notin InHand
    PROVE  IInv'
  <1>1. Grows
    BY StandingStillGrows DEF IInv
  <1>2. TypeOK'
    BY DEF IInv, TypeOK, Label
  <1>3. \A q \in Process : Placed(q)'
    BY <1>1, PlaceStays, NoRowNoPlace DEF IInv
  <1>4. AccountedBefore(cursor + 1)'
    BY <1>1, CursorStays
  <1>5. AdmittedIsProven'
    BY <1>1, ProvenStays DEF IInv, AdmittedIsProven
  <1> QED BY <1>2, <1>3, <1>4, <1>5 DEF IInv

LEMMA ObserveRaisesKeepsInv ==
    ASSUME IInv, NEW p \in Process, ObserveRaises(p)
    PROVE  IInv'
  <1>1. /\ UNCHANGED <<log, folded, occurrences, incidents, noted, cursor, proposed, last, due,
                       beyond, crashes>>
        /\ failures' \in 0..MaxFailures
    BY BoundsAreNumbers DEF ObserveRaises, IInv, TypeOK, store
  <1>2. PICK l \in {"down", "serving"} :
            pc' = [pc EXCEPT ![p] = l] /\ (row' = row \/ row' = [row EXCEPT ![p] = 0])
    BY DEF ObserveRaises, Answer, Goto
  <1>3. /\ pc' \in [Process -> Label] /\ row' \in [Process -> Nat]
        /\ \A q \in Process : (pc'[q] = pc[q] /\ row'[q] = row[q]) \/ pc'[q] \notin InHand
    BY <1>2 DEF IInv, TypeOK, Label, InHand
  <1> QED BY <1>1, <1>3, LettingGoKeepsInv DEF IInv, TypeOK, AdmittedIsProven

\* An incident is proposed only where it is admitted, hence proven.
LEMMA ProposedStaysProven ==
    ASSUME IInv, NEW i \in Incident, Propose(i)
    PROVE  proposed' \subseteq Incident /\ \A j \in proposed' : Proven(j)
  <1>1. CASE incidents[i].admission = "eligible"
    BY <1>1 DEF Propose, IInv, TypeOK, AdmittedIsProven
  <1>2. CASE incidents[i].admission # "eligible"
    BY <1>2 DEF Propose, IInv, TypeOK, AdmittedIsProven
  <1> QED BY <1>1, <1>2

LEMMA ConsiderKeepsInv ==
    ASSUME IInv, NEW q \in Requests, Consider(q) \/ ConsiderFails(q)
    PROVE  IInv'
  <1>1. q \in Process /\ pc[q] = "considering" /\ Answer(q)
    BY DEF Process, Consider, ConsiderFails
  <1>2. /\ pc' \in [Process -> Label] /\ row' \in [Process -> Nat]
        /\ \A p \in Process : (pc'[p] = pc[p] /\ row'[p] = row[p]) \/ pc'[p] \notin InHand
    BY <1>1 DEF Answer, Goto, IInv, TypeOK, Label, InHand
  <1>3. /\ UNCHANGED <<log, folded, occurrences, incidents, noted, cursor, last, due>>
        /\ beyond' \subseteq Nat /\ crashes' \in 0..MaxCrashes /\ failures' \in 0..MaxFailures
    <2>1. UNCHANGED <<log, folded, occurrences, incidents, noted, cursor, last, due>>
      BY DEF Consider, ConsiderFails, store
    <2>2. UNCHANGED <<beyond, crashes>>
      BY DEF Consider, ConsiderFails, history
    <2>3. failures' \in 0..MaxFailures
      BY BoundsAreNumbers DEF Consider, ConsiderFails, IInv, TypeOK, history
    <2> QED BY <2>1, <2>2, <2>3 DEF IInv, TypeOK
  <1>4. proposed' \subseteq Incident /\ \A i \in proposed' : Proven(i)
    <2>1. CASE Consider(q)
      <3>1. IncidentOf(At(q)) \in Incident
        BY <1>1 DEF IInv, Placed, RowInHand
      <3> QED BY <2>1, <3>1, ProposedStaysProven DEF Consider
    <2>2. CASE ConsiderFails(q)
      BY <2>2 DEF ConsiderFails, IInv, TypeOK, AdmittedIsProven
    <2> QED BY <2>1, <2>2
  <1> QED BY <1>2, <1>3, <1>4, LettingGoKeepsInv DEF IInv, TypeOK

LEMMA PortalKeepsInv ==
    ASSUME IInv, Serve \/ \E i \in Incident : CatchUp(i)
    PROVE  IInv'
  <1>1. /\ UNCHANGED <<log, folded, occurrences, incidents, noted, cursor, row, last, beyond, crashes,
                       failures>>
        /\ due' \subseteq due
    BY DEF Serve, CatchUp, store, history
  <1>2. /\ pc' \in [Process -> Label]
        /\ \A q \in Process : pc'[q] = pc[q] \/ pc'[q] \notin InHand
    BY DEF Serve, CatchUp, Goto, IInv, TypeOK, Label, InHand
  <1>3. proposed' \subseteq Incident /\ \A i \in proposed' : Proven(i)
    <2>1. CASE Serve
      BY <2>1 DEF Serve, IInv, TypeOK, AdmittedIsProven
    <2>2. CASE \E i \in Incident : CatchUp(i)
      BY <2>2, ProposedStaysProven DEF CatchUp
    <2> QED BY <2>1, <2>2
  <1> QED BY <1>1, <1>2, <1>3, LettingGoKeepsInv DEF IInv, TypeOK

LEMMA DrainedKeepsInv ==
    ASSUME IInv, NEW p \in Drainers, Drained(p)
    PROVE  IInv'
  <1>1. /\ UNCHANGED <<log, folded, occurrences, incidents, noted, cursor, row, last, proposed,
                       beyond, crashes, failures>>
        /\ due' = Eligible \/ due' = due
    BY DEF Drained, store, history
  <1>2. /\ pc' \in [Process -> Label]
        /\ \A q \in Process : pc'[q] = pc[q] \/ pc'[q] \notin InHand
    BY DEF Drained, Goto, IInv, TypeOK, Label, InHand
  <1> QED BY <1>1, <1>2, LettingGoKeepsInv DEF IInv, TypeOK, AdmittedIsProven, Eligible

LEMMA CrashKeepsInv ==
    ASSUME IInv, NEW p \in Drainers, Crash(p)
    PROVE  IInv'
  <1>1. /\ UNCHANGED <<log, folded, occurrences, incidents, noted, cursor, proposed, failures>>
        /\ beyond' \subseteq Nat /\ crashes' \in 0..MaxCrashes
        /\ due' = {} \/ due' = due
    BY BoundsAreNumbers DEF Crash, IInv, TypeOK, store
  <1>2. /\ pc' \in [Process -> Label] /\ row' \in [Process -> Nat]
        /\ last' \in [Drainers -> 0..Len(log)]
    BY LogTyped DEF Crash, IInv, TypeOK, Label
  <1>3. \A q \in Process : (pc'[q] = pc[q] /\ row'[q] = row[q]) \/ pc'[q] \notin InHand
    BY DEF Crash, InHand, IInv, TypeOK
  <1> QED BY <1>1, <1>2, <1>3, LettingGoKeepsInv DEF IInv, TypeOK, AdmittedIsProven

\* A committed row disturbs nothing known of the others.
LEMMA CommitKeepsInv ==
    ASSUME IInv, NEW e \in Event, Commit(e),
           UNCHANGED <<store, noted, cursor, proposed, last, due, history>>,
           pc' \in [Process -> Label], row' \in [Process -> Nat],
           \A q \in Process : (pc'[q] = pc[q] /\ row'[q] = row[q]) \/ Placed(q)'
    PROVE  IInv'
  <1>1. /\ UNCHANGED <<folded, occurrences, incidents, noted, cursor, proposed, last, due>>
        /\ UNCHANGED <<beyond, crashes, failures>>
    BY DEF store, history
  <1>2. /\ log' \in Seq(Entry) /\ Len(log') = Len(log) + 1
        /\ \A r \in 1..Len(log) : log'[r] = log[r]
    BY CommitGrows DEF IInv
  <1>3. Grows
    BY <1>1, <1>2, LogTyped DEF Grows, IInv
  <1>4. TypeOK'
    <2>1. DOMAIN log \subseteq DOMAIN log' /\ 0..Len(log) \subseteq 0..Len(log')
      BY <1>2, LogTyped DEF IInv
    <2>2. /\ folded' \subseteq DOMAIN log' /\ noted' \subseteq (DOMAIN log') \X Reason
          /\ cursor' \in 0..Len(log')
      BY <1>1, <2>1 DEF IInv, TypeOK
    <2>3. last' \in [Drainers -> 0..Len(log')]
      BY <1>1, <2>1 DEF IInv, TypeOK
    <2> QED BY <1>1, <1>2, <2>2, <2>3 DEF IInv, TypeOK, Entry, Label
  <1>5. \A q \in Process : Placed(q)'
    BY <1>3, PlaceStays DEF IInv
  <1>6. AccountedBefore(cursor + 1)'
    BY <1>1, <1>3, CursorStays
  <1>7. AdmittedIsProven'
    BY <1>1, <1>3, ProvenStays DEF IInv, AdmittedIsProven
  <1> QED BY <1>4, <1>5, <1>6, <1>7 DEF IInv

LEMMA EmitKeepsInv ==
    ASSUME IInv, NEW q \in Requests, NEW e \in Inputs, Emit(q, e)
    PROVE  IInv'
  <1>1. q \in Process /\ q \notin Drainers /\ e \in Event /\ ~IsFinding(e)
    BY ConstantsTyped DEF Process
  <1>2. /\ Commit(e) /\ pc' = [pc EXCEPT ![q] = "observing"]
        /\ row' = [row EXCEPT ![q] = Len(log) + 1]
        /\ UNCHANGED <<store, noted, cursor, proposed, last, due, history>>
    BY DEF Emit, Goto
  <1>3. Len(log') = Len(log) + 1 /\ Len(log) \in Nat /\ log'[Len(log) + 1].event = e
    BY <1>1, <1>2, CommitGrows, LogTyped DEF IInv
  <1>4. /\ pc' \in [Process -> Label] /\ pc'[q] = "observing"
        /\ row' \in [Process -> Nat] /\ row'[q] = Len(log) + 1
        /\ \A p \in Process \ {q} : pc'[p] = pc[p] /\ row'[p] = row[p]
    BY <1>1, <1>2, <1>3 DEF IInv, TypeOK, Label
  <1>5. Placed(q)'
    <2>1. At(q)' = e
      BY <1>3, <1>4 DEF At
    <2>2. RowInHand(q)'
      BY <1>1, <1>3, <1>4, <2>1 DEF RowInHand
    <2>3. DrainedSoFar(q)'
      BY <1>1 DEF DrainedSoFar
    <2> QED BY <2>2, <2>3 DEF Placed
  <1> QED BY <1>1, <1>2, <1>4, <1>5, CommitKeepsInv

LEMMA RecordKeepsInv ==
    ASSUME IInv, NEW entry \in Entries, Record(entry)
    PROVE  IInv'
  <1> DEFINE e == [entry.of EXCEPT !.name = Classify(entry)]
  <1>1. e \in Event
    BY FindingTyped
  <1>2. /\ Commit(e)
        /\ UNCHANGED <<store, noted, cursor, proposed, pc, row, last, due, history>>
    BY DEF Record, control
  <1>3. pc' \in [Process -> Label] /\ row' \in [Process -> Nat]
    BY <1>2 DEF IInv, TypeOK, Label
  <1> HIDE DEF e
  <1> QED BY <1>1, <1>2, <1>3, CommitKeepsInv

\* A drain takes up row r, all rows before which are accounted for.
LEMMA TurnKeepsInv ==
    ASSUME IInv, NEW p \in Drainers, NEW r \in Nat \ {0}, NEW end \in 0..Len(log),
           AccountedBefore(r), Turn(p, r, end),
           UNCHANGED <<log, store, noted, proposed, due, crashes, failures>>,
           last' \in [Drainers -> 0..Len(log)], beyond' \subseteq Nat,
           NEW n \in 0..Len(log), cursor' = n, AccountedBefore(n + 1)
    PROVE  IInv'
  <1>1. /\ UNCHANGED <<log, folded, occurrences, incidents, noted, proposed, due>>
        /\ UNCHANGED <<crashes, failures>>
    BY DEF store, history
  <1>2. Grows
    BY <1>1, StandingStillGrows DEF IInv
  <1>3. /\ p \in Process /\ p \notin Requests
        /\ pc' = [pc EXCEPT ![p] = IF r <= end THEN "observing" ELSE "drained"]
        /\ row' = [row EXCEPT ![p] = r]
    BY ConstantsTyped DEF Turn, Goto, Process
  <1>4. /\ pc' \in [Process -> Label] /\ row' \in [Process -> Nat] /\ row'[p] = r
        /\ pc'[p] = IF r <= end THEN "observing" ELSE "drained"
        /\ \A q \in Process \ {p} : pc'[q] = pc[q] /\ row'[q] = row[q]
    BY <1>3 DEF IInv, TypeOK, Label
  <1>5. TypeOK'
    BY <1>1, <1>4 DEF IInv, TypeOK, Label
  <1>6. Placed(p)'
    <2>1. CASE r <= end
      <3>1. r \in 1..Len(log')
        BY <1>1, <2>1, LogTyped DEF IInv
      <3>2. RowInHand(p)'
        BY <1>3, <1>4, <2>1, <3>1 DEF RowInHand
      <3>3. AccountedBefore(r)'
        BY <1>1 DEF AccountedBefore, Accounted
      <3>4. AccountedBefore(row[p])'
        BY <1>4, <3>3 DEF AccountedBefore
      <3> QED BY <1>4, <2>1, <3>2, <3>4 DEF Placed, DrainedSoFar
    <2>2. CASE ~(r <= end)
      BY <1>3, <1>4, <2>2, NoRowNoPlace DEF InHand
    <2> QED BY <2>1, <2>2
  <1>7. \A q \in Process : Placed(q)'
    BY <1>2, <1>4, <1>6, PlaceStays DEF IInv
  <1>8. AccountedBefore(cursor + 1)'
    BY <1>1 DEF AccountedBefore, Accounted
  <1>9. AdmittedIsProven'
    BY <1>1, <1>2, ProvenStays DEF IInv, AdmittedIsProven
  <1> QED BY <1>5, <1>7, <1>8, <1>9 DEF IInv

LEMMA StartKeepsInv ==
    ASSUME IInv, NEW p \in Drainers, Start(p)
    PROVE  IInv'
  <1>1. PICK limit \in Limits :
            LET end == Least(cursor + limit, Len(log))
            IN  /\ Turn(p, cursor + 1, end) /\ last' = [last EXCEPT ![p] = end]
                /\ LeftBehind(p, end)
                /\ UNCHANGED <<log, store, noted, cursor, proposed, due, crashes, failures>>
    BY DEF Start
  <1> DEFINE end == Least(cursor + limit, Len(log))
  <1>2. cursor \in 0..Len(log) /\ DOMAIN log = 1..Len(log) /\ Len(log) \in Nat
        /\ beyond \subseteq Nat /\ limit \in Nat
    BY BoundsAreNumbers, LogTyped DEF IInv, TypeOK
  <1>3. end \in 0..Len(log)
    BY <1>2 DEF Least
  <1>4. /\ Turn(p, cursor + 1, end) /\ last' = [last EXCEPT ![p] = end] /\ LeftBehind(p, end)
        /\ UNCHANGED <<log, store, noted, cursor, proposed, due, crashes, failures>>
    BY <1>1
  <1> HIDE DEF end
  <1>5. last' \in [Drainers -> 0..Len(log)]
    BY <1>3, <1>4 DEF IInv, TypeOK
  <1>6. beyond' \subseteq Nat
    <2>1. {r \in DOMAIN log : r > end} \subseteq Nat
      BY <1>2
    <2> QED BY <1>2, <1>4, <2>1 DEF LeftBehind
  <1>7. PICK n \in 0..Len(log) : n = cursor
    BY <1>2
  <1>8. AccountedBefore(n + 1) /\ n + 1 \in Nat \ {0} /\ cursor' = n /\ Turn(p, n + 1, end)
    BY <1>2, <1>4, <1>7 DEF IInv
  <1> QED BY <1>3, <1>4, <1>5, <1>6, <1>8, TurnKeepsInv

LEMMA AdvanceKeepsInv ==
    ASSUME IInv, NEW p \in Drainers, Advance(p)
    PROVE  IInv'
  <1>1. /\ pc[p] = "advancing" /\ Turn(p, row[p] + 1, last[p])
        /\ cursor' = IF row[p] > cursor THEN row[p] ELSE cursor
        /\ UNCHANGED <<log, store, noted, proposed, last, due, history>>
    BY DEF Advance
  <1>2. /\ row[p] \in 1..Len(log) /\ AccountedBefore(row[p] + 1)
        /\ cursor \in 0..Len(log) /\ AccountedBefore(cursor + 1) /\ Len(log) \in Nat
        /\ last[p] \in 0..Len(log)
    BY <1>1, LogTyped DEF IInv, TypeOK, Placed, RowInHand, DrainedSoFar, InHand, Process
  <1>3. PICK r \in Nat \ {0} : r = row[p] + 1
    BY <1>2
  <1>4. PICK n \in 0..Len(log) : n = (IF row[p] > cursor THEN row[p] ELSE cursor)
    BY <1>2
  <1>5. AccountedBefore(r) /\ AccountedBefore(n + 1) /\ cursor' = n /\ Turn(p, r, last[p])
    BY <1>1, <1>2, <1>3, <1>4
  <1>6. last' \in [Drainers -> 0..Len(log)] /\ beyond' \subseteq Nat
        /\ UNCHANGED <<log, store, noted, proposed, due, crashes, failures>>
    BY <1>1 DEF IInv, TypeOK, history
  <1> QED BY <1>2, <1>5, <1>6, TurnKeepsInv

-----------------------------------------------------------------------------
(* The invariant holds, and what it gives. *)

LEMMA InitKeepsInv ==
    ASSUME Init
    PROVE  IInv
  <1>1. Len(log) = 0 /\ DOMAIN log = {} /\ log \in Seq(Entry)
    BY DEF Init
  <1>2. /\ pc \in [Process -> Label] /\ row \in [Process -> Nat]
        /\ \A p \in Process : pc[p] \notin InHand
    BY DEF Init, Label, InHand
  <1>3. incidents \in [Incident -> Kept]
    BY DEF Init, Kept
  <1>4. last \in [Drainers -> 0..Len(log)] /\ cursor \in 0..Len(log)
    BY <1>1 DEF Init
  <1>5. TypeOK
    BY <1>1, <1>2, <1>3, <1>4, BoundsAreNumbers DEF Init, TypeOK, Label, Kept, Entry
  <1>6. \A p \in Process : Placed(p)
    BY <1>2 DEF Placed, RowInHand, DrainedSoFar, InHand
  <1>7. AccountedBefore(cursor + 1)
    BY <1>1 DEF AccountedBefore
  <1>8. AdmittedIsProven
    BY DEF Init, AdmittedIsProven
  <1> QED BY <1>5, <1>6, <1>7, <1>8 DEF IInv

LEMMA StandingStillKeepsInv ==
    ASSUME IInv, UNCHANGED vars
    PROVE  IInv'
  <1>1. /\ UNCHANGED <<log, folded, occurrences, incidents, noted, cursor, proposed, pc, row>>
        /\ UNCHANGED <<last, due, beyond, crashes, failures>>
    BY DEF vars, store, control, history
  <1>2. proposed' \subseteq Incident /\ \A i \in proposed' : Proven(i)
    BY <1>1 DEF IInv, TypeOK, AdmittedIsProven
  <1> QED BY <1>1, <1>2, LettingGoKeepsInv DEF IInv, TypeOK, Label

LEMMA NextKeepsInv ==
    ASSUME IInv, [Next]_vars
    PROVE  IInv'
  <1>1. ASSUME NEW q \in Requests, NEW e \in Inputs, Emit(q, e) PROVE IInv'
    BY <1>1, EmitKeepsInv
  <1>2. ASSUME NEW q \in Requests, Consider(q) \/ ConsiderFails(q) PROVE IInv'
    BY <1>2, ConsiderKeepsInv
  <1>3. ASSUME NEW entry \in Entries, Record(entry) PROVE IInv'
    BY <1>3, RecordKeepsInv
  <1>4. ASSUME NEW p \in Process, Fold(p) PROVE IInv'
    BY <1>4, ObserveKeepsInv, IngestFindingKeepsInv DEF Fold
  <1>5. ASSUME NEW p \in Process, Faults(p) PROVE IInv'
    BY <1>5, ObserveFailsKeepsInv, ObserveRaisesKeepsInv DEF Faults
  <1>6. ASSUME NEW p \in Drainers, Drain(p) PROVE IInv'
    BY <1>6, StartKeepsInv, AdvanceKeepsInv, DrainedKeepsInv DEF Drain
  <1>7. ASSUME NEW p \in Drainers, Crash(p) PROVE IInv'
    BY <1>7, CrashKeepsInv
  <1>8. ASSUME Serve \/ \E i \in Incident : CatchUp(i) PROVE IInv'
    BY <1>8, PortalKeepsInv
  <1>9. CASE UNCHANGED vars
    BY <1>9, StandingStillKeepsInv
  <1> QED BY <1>1, <1>2, <1>3, <1>4, <1>5, <1>6, <1>7, <1>8, <1>9 DEF Next

LEMMA Invariant == Spec => []IInv
  <1>1. Init => IInv
    BY InitKeepsInv
  <1>2. IInv /\ [Next]_vars => IInv'
    BY NextKeepsInv
  <1> QED BY <1>1, <1>2, PTL DEF Spec

\* Every variable of the store, the log and the processes keeps its type: no
\* process ever holds a row, a cursor or a position the log does not have
\* (events.py, IncidentStore._ingest, drain).
THEOREM TypeCorrect == Spec => []TypeOK
  <1>1. IInv => TypeOK
    BY DEF IInv
  <1> QED BY <1>1, Invariant, PTL

\* Whatever two drains, live observers, crashes and failing writes do, each row
\* behind the cursor that is evidence of a defect is stored, or noted for the
\* operator (IncidentStore.drain, _set_cursor, observe).
THEOREM NothingLost == Spec => []NothingLostSilently
  <1>1. IInv => NothingLostSilently
    <2> SUFFICES ASSUME IInv, NEW r \in 1..cursor, IsOwed(log[r].event)
                 PROVE  Accounted(r)
      BY DEF NothingLostSilently
    <2>1. r \in 1..Len(log) /\ r < cursor + 1
      BY LogTyped DEF IInv, TypeOK
    <2> QED BY <2>1 DEF IInv, AccountedBefore
  <1> QED BY <1>1, Invariant, PTL

\* A repair is only ever proposed for an incident a stored, provable event of
\* its own baseline is evidence of (admission in IncidentStore._ingest,
\* RepairController.consider).
THEOREM OnlyProvenProposed == Spec => []ProposedIsProven
  <1>1. IInv => ProposedIsProven
    BY DEF IInv, AdmittedIsProven, Proven, Proves, ProposedIsProven
  <1> QED BY <1>1, Invariant, PTL

-----------------------------------------------------------------------------
(* What the store counts: FailureTally, one step at a time. *)

\* An event that is evidence of a failed action of its own baseline.
IsFailure(e) == IsEvidence(e) /\ IsStorable(e) /\ ~IsDerived(e)

Happened == Failures(DOMAIN log)
Counts   == [i \in Incident |-> incidents[i].count]

LEMMA HappenedIs ==
    ASSUME NEW x
    PROVE  x \in Happened <=>
              \E r \in DOMAIN log : /\ IsFailure(log[r].event)
                                    /\ x = <<IncidentOf(log[r].event), log[r].event.trace>>
  BY DEF Happened, Failures, IsFailure

LEMMA HappenedIsThen ==
    ASSUME NEW x
    PROVE  x \in Happened' <=>
              \E r \in DOMAIN log' : /\ IsFailure(log'[r].event)
                                     /\ x = <<IncidentOf(log'[r].event), log'[r].event.trace>>
  BY DEF Happened, Failures, IsFailure

\* The abstract step, or none.
Tallies ==
    \/ Tally!Next
    \/ UNCHANGED <<Happened, occurrences, Counts>>

LEMMA CommitTallies ==
    ASSUME TypeOK, NEW e \in Event, Commit(e), UNCHANGED <<occurrences, incidents>>
    PROVE  Tallies
  <1> DEFINE f == <<IncidentOf(e), e.trace>>
             n == Len(log) + 1
  <1>1. /\ n \in Nat /\ DOMAIN log = 1..Len(log) /\ DOMAIN log' = 1..n /\ Len(log) \in Nat
        /\ \A r \in 1..Len(log) : log'[r] = log[r]
        /\ log'[n].event = e
    BY CommitGrows, LogTyped
  <1>2. ASSUME NEW x
        PROVE  x \in Happened' <=> x \in Happened \/ (IsFailure(e) /\ x = f)
    <2>1. ASSUME x \in Happened PROVE x \in Happened'
      <3>1. PICK r \in DOMAIN log : /\ IsFailure(log[r].event)
                                    /\ x = <<IncidentOf(log[r].event), log[r].event.trace>>
        BY <2>1, HappenedIs
      <3>2. r \in DOMAIN log' /\ log'[r] = log[r]
        BY <1>1
      <3> QED BY <3>1, <3>2, HappenedIsThen
    <2>2. ASSUME IsFailure(e), x = f PROVE x \in Happened'
      <3>1. n \in DOMAIN log'
        BY <1>1
      <3> QED BY <1>1, <2>2, <3>1, HappenedIsThen
    <2>3. ASSUME x \in Happened' PROVE x \in Happened \/ (IsFailure(e) /\ x = f)
      <3>1. PICK r \in DOMAIN log' : /\ IsFailure(log'[r].event)
                                     /\ x = <<IncidentOf(log'[r].event), log'[r].event.trace>>
        BY <2>3, HappenedIsThen
      <3>2. CASE r = n
        BY <1>1, <3>1, <3>2
      <3>3. CASE r # n
        <4>1. r \in DOMAIN log /\ log'[r] = log[r]
          BY <1>1, <3>3
        <4> QED BY <3>1, <4>1, HappenedIs
      <3> QED BY <3>2, <3>3
    <2> QED BY <2>1, <2>2, <2>3
  <1>3. UNCHANGED Counts
    BY DEF Counts
  <1>4. CASE IsFailure(e) /\ f \notin Happened
    <2>1. f \in Incident \X Actions
      BY <1>4, EvidenceHasIncident DEF IsFailure, Event
    <2>2. f \in Happened' \ Happened /\ Happened' = Happened \union {f}
      BY <1>2, <1>4
    <2> HIDE DEF f
    <2>3. Tally!Fail
      BY <1>3, <2>1, <2>2 DEF Tally!Fail, Happened, Counts
    <2> QED BY <2>3 DEF Tallies, Tally!Next
  <1>5. CASE ~(IsFailure(e) /\ f \notin Happened)
    <2>1. Happened' = Happened
      BY <1>2, <1>5
    <2> QED BY <1>3, <2>1 DEF Tallies
  <1> QED BY <1>4, <1>5

LEMMA StandingStillTallies ==
    ASSUME UNCHANGED <<log, occurrences, incidents>>
    PROVE  Tallies
  <1>1. UNCHANGED Counts
    BY DEF Counts
  <1>2. \A x : x \in Happened' <=> x \in Happened
    BY HappenedIs, HappenedIsThen
  <1>3. Happened' = Happened
    BY <1>2
  <1> QED BY <1>1, <1>3 DEF Tallies

LEMMA OneMore ==
    ASSUME NEW S, NEW c \in [S -> Nat], NEW d \in [S -> Nat], NEW k \in S,
           \A j \in S : d[j] = c[j] + (IF j = k THEN 1 ELSE 0)
    PROVE  d = [c EXCEPT ![k] = @ + 1]
  OBVIOUS

LEMMA IngestTallies ==
    ASSUME IInv, NEW p \in Process, pc[p] \in {"observing", "ingesting"},
           IsEvidence(At(p)), Ingest(p), UNCHANGED log
    PROVE  Tallies
  <1> DEFINE e == At(p)
             i == IncidentOf(e)
             f == <<i, e.trace>>
  <1>1. CASE UNCHANGED <<occurrences, incidents>>
    BY <1>1, StandingStillTallies
  <1>2. CASE IsStorable(e) /\ ~IsDerived(e) /\ \E a : Counted(i, e, a)
    <2>1. row[p] \in DOMAIN log /\ e = log[row[p]].event /\ e \in Event
      BY LogTyped DEF IInv, Placed, RowInHand, InHand, At
    <2>2. IsFailure(e) /\ f \in Happened
      BY <1>2, <2>1, HappenedIs DEF IsFailure
    <2>3. i \in Incident /\ incidents \in [Incident -> Kept]
      BY <1>2, <2>1, EvidenceHasIncident DEF IInv, TypeOK, Kept
    <2>4. Happened' = Happened
      <3>1. \A x : x \in Happened' <=> x \in Happened
        BY HappenedIs, HappenedIsThen
      <3> QED BY <3>1
    <2>5. CASE f \in occurrences
      <3>1. occurrences' = occurrences
        BY <1>2, <2>5 DEF Counted
      <3>2. \A j \in Incident : incidents'[j].count = incidents[j].count
        BY <1>2, <2>3, <2>5 DEF Counted, Kept
      <3>3. Counts' = Counts
        BY <3>2 DEF Counts
      <3> QED BY <2>4, <3>1, <3>3 DEF Tallies
    <2>6. CASE f \notin occurrences
      <3>1. occurrences' = occurrences \union {f} /\ f \in occurrences' \ occurrences
        BY <1>2, <2>6 DEF Counted
      <3>2. \A j \in Incident :
                incidents'[j].count = incidents[j].count + (IF j = i THEN 1 ELSE 0)
        BY <1>2, <2>3, <2>6 DEF Counted, Kept
      <3>3. Counts' = [Counts EXCEPT ![f[1]] = @ + 1]
        <4>1. f[1] = i
          OBVIOUS
        <4>2. \A j \in Incident :
                  /\ incidents[j].count \in Nat /\ incidents'[j].count \in Nat
                  /\ incidents'[j].count = incidents[j].count + (IF j = i THEN 1 ELSE 0)
          <5>1. \A j \in Incident : incidents[j].count \in Nat
            BY <2>3 DEF Kept
          <5> QED BY <3>2, <5>1
        <4>3. /\ Counts \in [Incident -> Nat] /\ Counts' \in [Incident -> Nat]
              /\ \A j \in Incident : Counts'[j] = Counts[j] + (IF j = i THEN 1 ELSE 0)
          BY <4>2 DEF Counts
        <4>4. Counts' = [Counts EXCEPT ![i] = @ + 1]
          BY <2>3, <4>3, OneMore
        <4> QED BY <4>1, <4>4
      <3>4. Tally!Count
        BY <2>2, <2>4, <3>1, <3>3 DEF Tally!Count, Happened, Counts
      <3> QED BY <3>4 DEF Tallies, Tally!Next
    <2> QED BY <2>5, <2>6
  <1>3. \/ UNCHANGED <<occurrences, incidents>>
        \/ IsStorable(e) /\ ~IsDerived(e) /\ \E a : Counted(i, e, a)
    BY DEF Ingest, Note, store
  <1> QED BY <1>1, <1>2, <1>3

LEMMA NextTallies ==
    ASSUME IInv, [Next]_vars
    PROVE  Tallies
  <1>1. ASSUME NEW q \in Requests, NEW e \in Inputs, Emit(q, e)
        PROVE  Tallies
    BY <1>1, CommitTallies, ConstantsTyped DEF IInv, Emit, store
  <1>2. ASSUME NEW entry \in Entries, Record(entry)
        PROVE  Tallies
    BY <1>2, CommitTallies, FindingTyped DEF IInv, Record, store
  <1>3. ASSUME NEW p \in Process, Fold(p)
        PROVE  Tallies
    <2>1. CASE Observe(p)
      <3>1. pc[p] \in {"observing", "ingesting"} /\ UNCHANGED log
        BY <2>1 DEF Observe
      <3>2. CASE IsEvidence(At(p)) /\ Ingest(p)
        BY <3>1, <3>2, IngestTallies
      <3>3. CASE UNCHANGED store
        BY <3>1, <3>3, StandingStillTallies DEF store
      <3> QED BY <2>1, <3>2, <3>3 DEF Observe, Suppress, Note
    <2>2. CASE IngestFinding(p)
      BY <2>2, IngestTallies DEF IngestFinding, IInv, Placed, RowInHand
    <2> QED BY <1>3, <2>1, <2>2 DEF Fold
  <1>4. CASE UNCHANGED <<log, store>>
    BY <1>4, StandingStillTallies DEF store
  <1>5. \/ \E q \in Requests, e \in Inputs : Emit(q, e)
        \/ \E entry \in Entries : Record(entry)
        \/ \E p \in Process : Fold(p)
        \/ UNCHANGED <<log, store>>
    BY DEF Next, Faults, ObserveFails, ObserveRaises, Note, Consider, ConsiderFails, Drain,
           Start, Advance, Drained, Crash, CatchUp, Serve, vars
  <1> QED BY <1>1, <1>2, <1>3, <1>4, <1>5

\* The store implements FailureTally: each action that failed is counted once,
\* under its own incident, whatever is delivered twice and whatever dies
\* (IncidentStore._ingest; README "one per failed user action").
THEOREM Implements == Spec => CountsFailedActions
  <1>1. Init => Tally!Init
    <2> SUFFICES ASSUME Init
                 PROVE  Tally!Init
      OBVIOUS
    <2>1. Failures(DOMAIN log) = {}
      BY DEF Init, Failures
    <2>2. Counts = [i \in Incident |-> 0]
      BY DEF Init, Counts
    <2> QED BY <2>1, <2>2 DEF Init, Tally!Init, Counts
  <1>2. IInv /\ [Next]_vars
          => [Tally!Next]_<<Failures(DOMAIN log), occurrences,
                            [i \in Incident |-> incidents[i].count]>>
    BY NextTallies DEF Tallies, Happened, Counts
  <1> QED BY <1>1, <1>2, Invariant, PTL DEF Spec, CountsFailedActions, Tally!Spec

-----------------------------------------------------------------------------
(* The rate of findings.  It is read before the transaction that stores    *)
(* the finding, and two drains may have read the same one.                 *)

IsRated(e) == IsFinding(e) /\ ~IsDerived(e)

Stored(h) == {s \in folded : IsRated(log[s].event) /\ log[s].hour = h}

NoException == \A r \in DOMAIN log : <<r, "exception">> \notin noted

\* What a note says of its row was so, and is so still.
NoteIsTrue(r, why) ==
    /\ why = "remarkable" => IsRemarkable(log[r].event)
    /\ why = "unstorable" => ~IsStorable(log[r].event)
    /\ why = "no_parent"  => IsDerived(log[r].event)
    /\ why = "rate_limit" => RateExceeded(r)

NotesTrue == \A n \in noted : NoteIsTrue(n[1], n[2])

ToBeStored(r) ==
    IsRated(log[r].event) /\ IsEvidence(log[r].event) /\ IsStorable(log[r].event)

\* Where both drains take findings, those of the hour before row r are in.
EarlierStored(r) ==
    (\A p \in Drainers : Admission[p] # "disabled") =>
        \A s \in 1..Len(log) :
            s < r /\ ToBeStored(s) /\ log[s].hour = log[r].hour => s \in folded

Room(h) == Cardinality(Stored(h)) < RateLimit

\* What a drain that is about to store a finding may rely on: as long as that
\* finding is not in the store, no other of its hour has been added.
Rated(p) ==
    pc[p] = "ingesting" =>
        /\ IsFinding(At(p))
        /\ NoException /\ RateLimit > 0 /\ ToBeStored(row[p]) /\ row[p] \notin folded =>
              Room(log[row[p]].hour) /\ EarlierStored(row[p])

Within ==
    NoException /\ RateLimit > 0 =>
        \A h \in 0..MaxHours : Cardinality(Stored(h)) <= RateLimit

RateInv == NotesTrue /\ (\A p \in Process : Rated(p)) /\ Within

LEMMA RowsFinite ==
    ASSUME NEW n \in Nat, NEW S \in SUBSET (1..n)
    PROVE  IsFiniteSet(S) /\ Cardinality(S) \in Nat
  <1>1. IsFiniteSet(1..n)
    BY FS_Interval
  <1>2. IsFiniteSet(S)
    BY <1>1, FS_Subset
  <1> QED BY <1>2, FS_CardinalityType

LEMMA FoldedFinite ==
    ASSUME TypeOK
    PROVE  \A S \in SUBSET folded : IsFiniteSet(S) /\ Cardinality(S) \in Nat
  <1>1. folded \subseteq 1..Len(log) /\ Len(log) \in Nat
    BY LogTyped DEF TypeOK
  <1> QED BY <1>1, RowsFinite

\* Two rows of one hour see the same findings before them.
LEMMA SameHourSameRate ==
    ASSUME NEW r, NEW s, log[r].hour = log[s].hour, RateExceeded(r)
    PROVE  RateExceeded(s)
  BY DEF RateExceeded, Recent

\* Where the rate is not exceeded, there is room in the hour.
LEMMA BelowRateRoom ==
    ASSUME TypeOK, NEW r \in DOMAIN log, RateLimit > 0, ~RateExceeded(r)
    PROVE  Room(log[r].hour)
  <1>1. log[r].hour \in 0..MaxHours
    BY LogTyped DEF Entry
  <1>2. Stored(log[r].hour) \subseteq Recent(r)
    BY <1>1 DEF Stored, Recent, IsRated
  <1>3. /\ Recent(r) \subseteq folded
        /\ IsFiniteSet(Recent(r)) /\ Cardinality(Recent(r)) \in Nat
    BY FoldedFinite DEF Recent
  <1>4. /\ Cardinality(Stored(log[r].hour)) <= Cardinality(Recent(r))
        /\ Cardinality(Stored(log[r].hour)) \in Nat
    BY <1>2, <1>3, FS_Subset, FS_CardinalityType
  <1>5. Cardinality(Recent(r)) < RateLimit
    BY <1>3, BoundsAreNumbers DEF RateExceeded
  <1> QED BY <1>3, <1>4, <1>5, BoundsAreNumbers DEF Room

LEMMA NoteStaysTrue ==
    ASSUME TypeOK, TypeOK', Grows, NEW r \in DOMAIN log, NEW why \in Reason, NoteIsTrue(r, why)
    PROVE  NoteIsTrue(r, why)'
  <1>1. log'[r] = log[r]
    BY LogTyped DEF Grows
  <1>2. ASSUME RateExceeded(r)
        PROVE  RateExceeded(r)'
    <2>1. ASSUME NEW s \in folded PROVE s \in folded' /\ log'[s] = log[s]
      BY LogTyped DEF Grows, TypeOK
    <2>2. Recent(r) \subseteq Recent(r)'
      BY <1>1, <2>1 DEF Recent
    <2>3. Recent(r) \subseteq folded /\ Cardinality(Recent(r)) \in Nat
      BY FoldedFinite DEF Recent
    <2>4. Recent(r)' \subseteq 1..Len(log') /\ Len(log') \in Nat
      BY DEF Recent, TypeOK
    <2>5. /\ IsFiniteSet(Recent(r)') /\ Cardinality(Recent(r)') \in Nat
          /\ Cardinality(Recent(r)) <= Cardinality(Recent(r)')
      <3>1. IsFiniteSet(Recent(r)') /\ Cardinality(Recent(r)') \in Nat
        BY <2>4, RowsFinite
      <3> QED BY <2>2, <3>1, FS_Subset
    <2>6. Cardinality(Recent(r)') >= RateLimit /\ RateLimit > 0
      BY <1>2, <2>3, <2>5, BoundsAreNumbers DEF RateExceeded
    <2> QED BY <2>6 DEF RateExceeded
  <1> QED BY <1>1, <1>2 DEF NoteIsTrue

LEMMA NotesStayTrue ==
    ASSUME TypeOK, TypeOK', Grows, NotesTrue,
           \A n \in noted' \ noted : NoteIsTrue(n[1], n[2])'
    PROVE  NotesTrue'
  <1> SUFFICES ASSUME NEW n \in noted'
               PROVE  NoteIsTrue(n[1], n[2])'
    BY DEF NotesTrue
  <1>1. CASE n \in noted
    <2>1. n[1] \in DOMAIN log /\ n[2] \in Reason
      BY <1>1 DEF TypeOK
    <2>2. NoteIsTrue(n[1], n[2])
      BY <1>1 DEF NotesTrue
    <2> QED BY <2>1, <2>2, NoteStaysTrue
  <1> QED BY <1>1

LEMMA NoExceptionBefore ==
    ASSUME TypeOK, TypeOK', Grows, NoException'
    PROVE  NoException
  <1>1. DOMAIN log \subseteq DOMAIN log' /\ noted \subseteq noted'
    <2>1. Len(log) \in Nat /\ Len(log') \in Nat /\ DOMAIN log = 1..Len(log)
          /\ DOMAIN log' = 1..Len(log') /\ Len(log) <= Len(log')
      BY LogTyped DEF Grows
    <2> QED BY <2>1 DEF Grows
  <1> QED BY <1>1 DEF NoException

\* A step that adds no finding to an hour, and no drain to those that are
\* about to store one.
LEMMA SameFindingsKeepRate ==
    ASSUME IInv, IInv', RateInv, Grows,
           \A n \in noted' \ noted : NoteIsTrue(n[1], n[2])',
           \A h \in 0..MaxHours : Stored(h)' = Stored(h),
           \A p \in Process : pc'[p] = "ingesting" => pc[p] = "ingesting" /\ row'[p] = row[p]
    PROVE  RateInv'
  <1>0. TypeOK /\ TypeOK'
    BY DEF IInv
  <1>1. NotesTrue'
    BY <1>0, NotesStayTrue DEF RateInv
  <1>2. Within'
    BY <1>0, NoExceptionBefore DEF RateInv, Within
  <1>3. ASSUME NEW p \in Process, pc'[p] = "ingesting"
        PROVE  Rated(p)'
    <2>1. /\ pc[p] = "ingesting" /\ row'[p] = row[p] /\ Rated(p)
          /\ row[p] \in 1..Len(log)
      BY <1>3 DEF RateInv, IInv, Placed, RowInHand, InHand
    <2>2. log'[row[p]] = log[row[p]] /\ log[row[p]].hour \in 0..MaxHours
      BY <1>0, <2>1, LogTyped DEF Grows, Entry
    <2>3. IsFinding(At(p))'
      BY <2>1, <2>2 DEF Rated, At
    <2>4. ASSUME NoException', RateLimit > 0, ToBeStored(row[p])', row[p] \notin folded'
          PROVE  Room(log[row[p]].hour)' /\ EarlierStored(row[p])'
      <3>1. NoException /\ ToBeStored(row[p]) /\ row[p] \notin folded
        BY <1>0, <2>1, <2>2, <2>4, NoExceptionBefore DEF ToBeStored, Grows
      <3>2. Room(log[row[p]].hour) /\ EarlierStored(row[p])
        BY <2>1, <2>4, <3>1 DEF Rated
      <3>3. Room(log[row[p]].hour)'
        BY <2>1, <2>2, <3>2 DEF Room
      <3>4. ASSUME \A q \in Drainers : Admission[q] # "disabled",
                   NEW s \in 1..Len(log'), s < row[p], ToBeStored(s)',
                   log'[s].hour = log'[row[p]].hour
            PROVE  s \in folded'
        <4>1. s \in 1..Len(log) /\ log'[s] = log[s]
          BY <1>0, <2>1, <3>4, LogTyped DEF Grows
        <4>2. ToBeStored(s)
          BY <3>4, <4>1 DEF ToBeStored
        <4>3. s \in folded
          BY <2>2, <3>2, <3>4, <4>1, <4>2 DEF EarlierStored
        <4> QED BY <4>3 DEF Grows
      <3> QED BY <2>1, <3>3, <3>4 DEF EarlierStored
    <2> QED BY <2>1, <2>3, <2>4 DEF Rated
  <1>4. \A p \in Process : Rated(p)'
    BY <1>3 DEF Rated
  <1> QED BY <1>1, <1>2, <1>4 DEF RateInv

\* The store as it was: the findings of an hour are those they were.
LEMMA SameFolded ==
    ASSUME TypeOK, Grows, UNCHANGED folded
    PROVE  \A h \in 0..MaxHours : Stored(h)' = Stored(h)
  <1>1. ASSUME NEW s \in folded PROVE log'[s] = log[s]
    BY LogTyped DEF Grows, TypeOK
  <1> QED BY <1>1 DEF Stored

LEMMA MovedOnIngestsNothing ==
    ASSUME IInv, NEW p \in Process, MovesOn(p)
    PROVE  \A q \in Process :
              pc'[q] = "ingesting" => q # p /\ pc[q] = "ingesting" /\ row'[q] = row[q]
  <1>1. pc \in [Process -> Label] /\ row \in [Process -> Nat]
    BY DEF IInv, TypeOK, Label
  <1>2. PICK l \in {"advancing", "considering", "serving"} :
            pc' = [pc EXCEPT ![p] = l] /\ (row' = row \/ row' = [row EXCEPT ![p] = 0])
    BY DEF MovesOn
  <1> QED BY <1>1, <1>2

\* A row is noted, and why is true of it.
LEMMA NotingKeepsRate ==
    ASSUME IInv, IInv', RateInv, NEW p \in Process, pc[p] \in {"observing", "ingesting"},
           NEW why \in Reason, Note(p, why), UNCHANGED log, NoteIsTrue(row[p], why)
    PROVE  RateInv'
  <1>1. /\ noted' = noted \union {<<row[p], why>>} /\ UNCHANGED folded /\ MovesOn(p)
    BY PassedMovesOn DEF Note, store
  <1>2. Grows
    BY <1>1, LogTyped DEF Grows, IInv
  <1>3. PICK r : r = row[p]
    OBVIOUS
  <1>4. NoteIsTrue(r, why)'
    BY <1>1, <1>3 DEF NoteIsTrue, RateExceeded, Recent
  <1>5. \A n \in noted' \ noted : NoteIsTrue(n[1], n[2])'
    <2> SUFFICES ASSUME NEW n \in noted' \ noted
                 PROVE  NoteIsTrue(n[1], n[2])'
      OBVIOUS
    <2>1. n = <<r, why>> /\ n[1] = r /\ n[2] = why
      BY <1>1, <1>3
    <2> QED BY <1>4, <2>1 DEF NoteIsTrue, RateExceeded, Recent
  <1>6. \A h \in 0..MaxHours : Stored(h)' = Stored(h)
    BY <1>1, <1>2, SameFolded DEF IInv
  <1> QED BY <1>1, <1>2, <1>5, <1>6, MovedOnIngestsNothing, SameFindingsKeepRate

\* The rate has been read and there is room: then nothing of the hour before
\* this row is missing, for whoever has noted one of them had none.
LEMMA CheckingKeepsRate ==
    ASSUME IInv, IInv', RateInv, NEW p \in Process, pc[p] = "observing",
           IsEvidence(At(p)), IsFinding(At(p)), ~RateExceeded(row[p]),
           Goto(p, "ingesting"), UNCHANGED <<log, folded, noted, row>>
    PROVE  RateInv'
  <1>1. /\ row[p] \in 1..Len(log) /\ DOMAIN log = 1..Len(log)
        /\ p \in Drainers /\ AccountedBefore(row[p])
    BY LogTyped DEF IInv, Placed, RowInHand, DrainedSoFar, InHand, Process
  <1>2. /\ pc' = [pc EXCEPT ![p] = "ingesting"] /\ pc \in [Process -> Label]
    BY DEF Goto, IInv, TypeOK, Label
  <1>3. Stored(log[row[p]].hour)' = Stored(log[row[p]].hour)
    BY DEF Stored
  <1>4. NotesTrue' /\ Within'
    <2>1. NoException' <=> NoException
      BY DEF NoException
    <2>2. \A h : Stored(h)' = Stored(h)
      BY DEF Stored
    <2>3. Within'
      BY <2>1, <2>2 DEF RateInv, Within
    <2>4. \A r, why : NoteIsTrue(r, why)' <=> NoteIsTrue(r, why)
      BY DEF NoteIsTrue, RateExceeded, Recent
    <2>5. NotesTrue'
      BY <2>4 DEF RateInv, NotesTrue
    <2> QED BY <2>3, <2>5
  <1>5. ASSUME NoException, RateLimit > 0, ToBeStored(row[p]), row[p] \notin folded
        PROVE  Room(log[row[p]].hour) /\ EarlierStored(row[p])
    <2>1. Room(log[row[p]].hour)
      BY <1>1, <1>5, BelowRateRoom DEF IInv
    <2>2. ASSUME \A q \in Drainers : Admission[q] # "disabled",
                 NEW r \in 1..Len(log), r < row[p], ToBeStored(r),
                 log[r].hour = log[row[p]].hour
          PROVE  r \in folded
      <3>1. Accounted(r)
        BY <1>1, <2>2 DEF AccountedBefore, IsOwed, ToBeStored
      <3>2. ASSUME NEW why \in Reason, <<r, why>> \in noted
            PROVE  FALSE
        <4>1. NoteIsTrue(r, why)
          <5>1. PICK n \in noted : n = <<r, why>>
            BY <3>2
          <5>2. NoteIsTrue(n[1], n[2]) /\ n[1] = r /\ n[2] = why
            BY <5>1 DEF RateInv, NotesTrue
          <5> QED BY <5>2
        <4>2. why # "exception"
          BY <1>1, <1>5, <3>2 DEF NoException
        <4>3. ~RateExceeded(r)
          BY <2>2, SameHourSameRate
        <4>4. ~IsRemarkable(log[r].event)
          BY <2>2 DEF ToBeStored, IsRated, IsRemarkable, IsEvidence, IsFinding
        <4> QED BY <2>2, <4>1, <4>2, <4>3, <4>4 DEF NoteIsTrue, ToBeStored, IsRated, Reason
      <3> QED BY <3>1, <3>2 DEF Accounted
    <2> QED BY <2>1, <2>2 DEF EarlierStored
  <1>6. Rated(p)'
    <2>1. /\ NoException' => NoException
          /\ ToBeStored(row[p])' => ToBeStored(row[p])
          /\ IsFinding(At(p))'
      BY DEF NoException, ToBeStored, At
    <2>2. Room(log[row[p]].hour) => Room(log[row[p]].hour)'
      BY <1>3 DEF Room
    <2>3. EarlierStored(row[p]) => EarlierStored(row[p])'
      BY DEF EarlierStored, ToBeStored
    <2> QED BY <1>5, <2>1, <2>2, <2>3 DEF Rated
  <1>7. ASSUME NEW q \in Process, q # p
        PROVE  Rated(q)'
    <2>1. pc'[q] = pc[q] /\ row'[q] = row[q] /\ Rated(q)
      BY <1>2, <1>7 DEF RateInv
    <2>2. /\ NoException' => NoException
          /\ ToBeStored(row[q])' => ToBeStored(row[q])
          /\ IsFinding(At(q)) => IsFinding(At(q))'
      BY <2>1 DEF NoException, ToBeStored, At
    <2>3. Stored(log[row[q]].hour)' = Stored(log[row[q]].hour)
      BY DEF Stored
    <2>4. Room(log[row[q]].hour) => Room(log[row[q]].hour)'
      BY <2>3 DEF Room
    <2>5. EarlierStored(row[q]) => EarlierStored(row[q])'
      BY DEF EarlierStored, ToBeStored
    <2> QED BY <2>1, <2>2, <2>4, <2>5 DEF Rated
  <1> QED BY <1>4, <1>6, <1>7 DEF RateInv

\* A row is stored.  Where it is a finding, there was room for it, and no other
\* drain can be about to store another of its hour.
LEMMA StoringKeepsRate ==
    ASSUME IInv, IInv', RateInv, NEW p \in Process, pc[p] \in {"observing", "ingesting"},
           IsEvidence(At(p)), IsStorable(At(p)), IsFinding(At(p)) => pc[p] = "ingesting",
           row[p] \notin folded, folded' = folded \union {row[p]},
           UNCHANGED <<log, noted>>, MovesOn(p)
    PROVE  RateInv'
  <1>1. /\ row[p] \in 1..Len(log) /\ DOMAIN log = 1..Len(log) /\ Len(log) \in Nat
        /\ log[row[p]].hour \in 0..MaxHours
    BY LogTyped DEF IInv, Placed, RowInHand, InHand, Entry
  <1>2. Grows
    BY LogTyped DEF Grows, IInv
  <1>3. PICK n \in 1..Len(log) : n = row[p]
    BY <1>1
  <1>4. PICK H \in 0..MaxHours : H = log[n].hour
    BY <1>1, <1>3
  <1>5. CASE ~IsRated(At(p))
    <2>1. \A h \in 0..MaxHours : Stored(h)' = Stored(h)
      BY <1>5 DEF Stored, At
    <2> QED BY <1>2, <2>1, MovedOnIngestsNothing, SameFindingsKeepRate
  <1>6. CASE IsRated(At(p))
    <2>1. /\ pc[p] = "ingesting" /\ ToBeStored(n) /\ p \in Drainers /\ Admission[p] # "disabled"
          /\ Rated(p) /\ IsRated(log[n].event)
      <3>1. pc[p] = "ingesting"
        BY <1>6 DEF IsRated
      <3>2. p \in Drainers
        BY <1>6 DEF IInv, Placed, RowInHand, InHand, IsRated, Process
      <3> QED BY <1>3, <1>6, <3>1, <3>2
           DEF IInv, Placed, RowInHand, ToBeStored, At, RateInv
    <2>2. NoException' <=> NoException
      BY DEF NoException
    <2>3. /\ \A h : h # H => Stored(h)' = Stored(h)
          /\ Stored(H)' = Stored(H) \union {n}
      BY <1>3, <1>4, <2>1 DEF Stored
    <2>4. NotesTrue'
      BY <1>2, NotesStayTrue DEF IInv, RateInv
    <2>5. ASSUME NoException, RateLimit > 0
          PROVE  Room(H) /\ EarlierStored(n)
      BY <1>3, <1>4, <2>1, <2>5 DEF Rated
    <2>6. Within'
      <3> SUFFICES ASSUME NoException, RateLimit > 0, NEW h \in 0..MaxHours
                   PROVE  Cardinality(Stored(h)') <= RateLimit
        BY <2>2 DEF Within
      <3>1. CASE h # H
        BY <2>3, <3>1 DEF RateInv, Within
      <3>2. CASE h = H
        <4>1. IsFiniteSet(Stored(H)) /\ Cardinality(Stored(H)) \in Nat
          BY FoldedFinite DEF IInv, Stored
        <4>2. n \notin Stored(H)
          BY <1>3 DEF Stored
        <4>3. Cardinality(Stored(H)') = Cardinality(Stored(H)) + 1
          BY <2>3, <4>1, <4>2, FS_AddElement
        <4>4. Cardinality(Stored(H)) < RateLimit
          BY <2>5 DEF Room
        <4> QED BY <3>2, <4>1, <4>3, <4>4, BoundsAreNumbers
      <3> QED BY <3>1, <3>2
    <2>7. ASSUME NEW q \in Process, pc'[q] = "ingesting"
          PROVE  Rated(q)'
      <3>1. /\ q # p /\ pc[q] = "ingesting" /\ row'[q] = row[q] /\ Rated(q)
            /\ row[q] \in 1..Len(log)
        BY <2>7, MovedOnIngestsNothing DEF RateInv, IInv, Placed, RowInHand, InHand
      <3>2. PICK m \in 1..Len(log) : m = row[q]
        BY <3>1
      <3>3. IsFinding(At(q))' /\ IsFinding(At(q))
        BY <3>1 DEF Rated, At
      <3>4. ASSUME NoException', RateLimit > 0, ToBeStored(m)', m \notin folded'
            PROVE  Room(log[m].hour)' /\ EarlierStored(m)'
        <4>1. /\ ToBeStored(m) /\ m \notin folded /\ m # n /\ NoException
          BY <1>3, <2>2, <3>4 DEF ToBeStored
        <4>2. Room(log[m].hour) /\ EarlierStored(m)
          BY <3>1, <3>2, <3>4, <4>1 DEF Rated
        <4>3. log[m].hour # H
          <5> SUFFICES ASSUME log[m].hour = H
                       PROVE  FALSE
            OBVIOUS
          <5>1. q \in Drainers /\ Admission[q] # "disabled"
            BY <3>1, <3>3 DEF IInv, Placed, RowInHand, InHand, Process
          <5>2. \A d \in Drainers : Admission[d] # "disabled"
            BY <2>1, <3>1, <5>1 DEF Drainers
          <5>3. CASE n < m
            BY <1>3, <1>4, <2>1, <4>2, <5>2, <5>3 DEF EarlierStored
          <5>4. CASE m < n
            BY <1>4, <2>5, <3>4, <4>1, <5>2, <5>4 DEF EarlierStored
          <5> QED BY <4>1, <5>3, <5>4
        <4>4. Room(log[m].hour)'
          BY <2>3, <4>2, <4>3 DEF Room
        <4>5. EarlierStored(m)'
          BY <4>2 DEF EarlierStored, ToBeStored
        <4> QED BY <4>4, <4>5
      <3> QED BY <3>1, <3>2, <3>3, <3>4 DEF Rated, ToBeStored, Room, Stored, EarlierStored
    <2>8. \A q \in Process : Rated(q)'
      BY <2>7 DEF Rated
    <2> QED BY <2>4, <2>6, <2>8 DEF RateInv
  <1> QED BY <1>5, <1>6

\* The transaction of _ingest, of a finding whose rate was read or of evidence
\* that has none.
LEMMA IngestKeepsRate ==
    ASSUME IInv, IInv', RateInv, NEW p \in Process, pc[p] \in {"observing", "ingesting"},
           IsEvidence(At(p)), IsFinding(At(p)) => pc[p] = "ingesting",
           Ingest(p), UNCHANGED log
    PROVE  RateInv'
  <1>1. /\ row[p] \in DOMAIN log /\ At(p) = log[row[p]].event /\ At(p) \in Event
    BY LogTyped DEF IInv, Placed, RowInHand, InHand, At
  <1>2. CASE ~IsStorable(At(p)) /\ Note(p, "unstorable")
    <2>1. NoteIsTrue(row[p], "unstorable")
      BY <1>1, <1>2 DEF NoteIsTrue
    <2> QED BY <1>2, <2>1, NotingKeepsRate DEF Reason
  <1>3. CASE IsDerived(At(p)) /\ Note(p, "no_parent")
    <2>1. NoteIsTrue(row[p], "no_parent")
      BY <1>1, <1>3 DEF NoteIsTrue
    <2> QED BY <1>3, <2>1, NotingKeepsRate DEF Reason
  <1>4. CASE IsStorable(At(p)) /\ Learnt(p) /\ UNCHANGED noted
    <2>1. MovesOn(p)
      BY <1>1, <1>4, EvidenceHasIncident, LearntMovesOn
    <2>2. CASE UNCHANGED folded
      <3>1. Grows /\ \A h \in 0..MaxHours : Stored(h)' = Stored(h)
        BY <1>4, <2>2, StandingStillGrows, SameFolded DEF IInv
      <3> QED BY <1>4, <2>1, <3>1, MovedOnIngestsNothing, SameFindingsKeepRate
    <2>3. CASE row[p] \notin folded /\ folded' = folded \union {row[p]}
      BY <1>4, <2>1, <2>3, StoringKeepsRate
    <2> QED BY <2>2, <2>3 DEF Ingest, store, Note
  <1> QED BY <1>2, <1>3, <1>4 DEF Ingest

LEMMA FoldKeepsRate ==
    ASSUME IInv, IInv', RateInv, NEW p \in Process, Fold(p)
    PROVE  RateInv'
  <1>1. CASE Observe(p)
    <2>1. pc[p] \in {"observing", "ingesting"} /\ pc[p] = "observing" /\ UNCHANGED log
      BY <1>1 DEF Observe
    <2>2. CASE Suppress(p)
      <3>1. MovesOn(p) /\ UNCHANGED <<log, folded, noted>>
        BY <2>1, <2>2, PassedMovesOn DEF Suppress, store
      <3>2. Grows /\ \A h \in 0..MaxHours : Stored(h)' = Stored(h)
        BY <3>1, StandingStillGrows, SameFolded DEF IInv
      <3> QED BY <3>1, <3>2, MovedOnIngestsNothing, SameFindingsKeepRate
    <2>3. CASE IsRemarkable(At(p)) /\ Note(p, "remarkable")
      <3>1. NoteIsTrue(row[p], "remarkable")
        BY <2>3 DEF NoteIsTrue, At
      <3> QED BY <2>1, <2>3, <3>1, NotingKeepsRate DEF Reason
    <2>4. CASE RateExceeded(row[p]) /\ Note(p, "rate_limit")
      <3>1. NoteIsTrue(row[p], "rate_limit")
        BY <2>4 DEF NoteIsTrue
      <3> QED BY <2>1, <2>4, <3>1, NotingKeepsRate DEF Reason
    <2>5. CASE IsEvidence(At(p)) /\ ~IsFinding(At(p)) /\ Ingest(p)
      BY <2>1, <2>5, IngestKeepsRate
    <2>6. CASE /\ IsEvidence(At(p)) /\ IsFinding(At(p)) /\ ~RateExceeded(row[p])
               /\ Goto(p, "ingesting") /\ UNCHANGED <<store, noted, row>>
      <3>1. UNCHANGED <<log, folded, noted, row>>
        BY <2>1, <2>6 DEF store
      <3> QED BY <2>1, <2>6, <3>1, CheckingKeepsRate
    <2> QED BY <1>1, <2>2, <2>3, <2>4, <2>5, <2>6 DEF Observe
  <1>2. CASE IngestFinding(p)
    <2>1. /\ pc[p] = "ingesting" /\ Ingest(p) /\ UNCHANGED log
      BY <1>2 DEF IngestFinding
    <2>2. IsEvidence(At(p))
      BY <2>1 DEF IInv, Placed, RowInHand
    <2> QED BY <2>1, <2>2, IngestKeepsRate
  <1> QED BY <1>1, <1>2 DEF Fold

LEMMA ObserveFailsKeepsRate ==
    ASSUME IInv, IInv', RateInv, NEW p \in Process, ObserveFails(p)
    PROVE  RateInv'
  <1>1. /\ pc[p] \in {"observing", "ingesting"} /\ Note(p, "exception") /\ UNCHANGED log
        /\ NoteIsTrue(row[p], "exception")
    BY DEF ObserveFails, NoteIsTrue
  <1> QED BY <1>1, NotingKeepsRate DEF Reason

\* The steps that touch neither the store nor the notes.
LEMMA StandingStillKeepsRate ==
    ASSUME IInv, IInv', RateInv, UNCHANGED <<log, folded, noted>>,
           \A p \in Process : pc'[p] = "ingesting" => pc[p] = "ingesting" /\ row'[p] = row[p]
    PROVE  RateInv'
  <1>1. Grows /\ \A h \in 0..MaxHours : Stored(h)' = Stored(h)
    BY StandingStillGrows, SameFolded DEF IInv
  <1> QED BY <1>1, SameFindingsKeepRate

LEMMA CommitKeepsRate ==
    ASSUME IInv, IInv', RateInv, NEW e \in Event, Commit(e), UNCHANGED <<folded, noted>>,
           \A p \in Process : pc'[p] = "ingesting" => pc[p] = "ingesting" /\ row'[p] = row[p]
    PROVE  RateInv'
  <1>1. Grows
    BY CommitGrows, LogTyped DEF Grows, IInv
  <1>2. \A h \in 0..MaxHours : Stored(h)' = Stored(h)
    BY <1>1, SameFolded DEF IInv
  <1> QED BY <1>1, <1>2, SameFindingsKeepRate

LEMMA NextKeepsRate ==
    ASSUME IInv, IInv', RateInv, [Next]_vars
    PROVE  RateInv'
  <1>0. pc \in [Process -> Label] /\ row \in [Process -> Nat]
    BY DEF IInv, TypeOK, Label
  <1>1. ASSUME NEW q \in Requests, NEW e \in Inputs, Emit(q, e) PROVE RateInv'
    <2>1. /\ e \in Event /\ Commit(e) /\ UNCHANGED <<folded, noted>>
          /\ q \in Process /\ pc' = [pc EXCEPT ![q] = "observing"]
          /\ row' = [row EXCEPT ![q] = Len(log) + 1]
      BY <1>1, ConstantsTyped DEF Emit, store, Goto, Process
    <2> QED BY <1>0, <2>1, CommitKeepsRate
  <1>2. ASSUME NEW entry \in Entries, Record(entry) PROVE RateInv'
    <2> DEFINE e == [entry.of EXCEPT !.name = Classify(entry)]
    <2>1. e \in Event /\ Commit(e) /\ UNCHANGED <<folded, noted, pc, row>>
      BY <1>2, FindingTyped DEF Record, store, control
    <2> HIDE DEF e
    <2> QED BY <2>1, CommitKeepsRate
  <1>3. ASSUME NEW p \in Process, Fold(p) PROVE RateInv'
    BY <1>3, FoldKeepsRate
  <1>4. ASSUME NEW p \in Process, ObserveFails(p) PROVE RateInv'
    BY <1>4, ObserveFailsKeepsRate
  <1>5. CASE UNCHANGED <<log, folded, noted>>
             /\ \E p \in Process, l \in Label \ {"ingesting"} :
                    /\ pc' = [pc EXCEPT ![p] = l]
                    /\ row' = row \/ \E r : row' = [row EXCEPT ![p] = r]
    BY <1>0, <1>5, StandingStillKeepsRate
  <1>6. ASSUME NEW p \in Drainers, Crash(p) PROVE RateInv'
    <2>1. /\ UNCHANGED <<log, folded, noted>>
          /\ \A q \in Process : pc'[q] = "ingesting" => pc[q] = "ingesting" /\ row'[q] = row[q]
      BY <1>6 DEF Crash, store
    <2> QED BY <2>1, StandingStillKeepsRate
  <1>7. CASE UNCHANGED <<log, folded, noted, pc, row>>
    BY <1>7, StandingStillKeepsRate
  <1>8. ASSUME NEW p \in Process, ObserveRaises(p) PROVE RateInv'
    <2>1. UNCHANGED <<log, folded, noted>>
          /\ \E l \in Label \ {"ingesting"} :
                 /\ pc' = [pc EXCEPT ![p] = l]
                 /\ row' = row \/ \E r : row' = [row EXCEPT ![p] = r]
      BY <1>8 DEF ObserveRaises, Answer, Goto, store, Label
    <2> QED BY <1>5, <2>1
  <1>9. ASSUME NEW q \in Requests, Consider(q) \/ ConsiderFails(q) PROVE RateInv'
    <2>1. UNCHANGED <<log, folded, noted>> /\ q \in Process
          /\ \E l \in Label \ {"ingesting"} :
                 /\ pc' = [pc EXCEPT ![q] = l]
                 /\ row' = row \/ \E r : row' = [row EXCEPT ![q] = r]
      BY <1>9 DEF Consider, ConsiderFails, Answer, Goto, store, Label, Process
    <2> QED BY <1>5, <2>1
  <1>10. ASSUME NEW p \in Drainers, Drain(p) PROVE RateInv'
    <2>1. UNCHANGED <<log, folded, noted>> /\ p \in Process
          /\ \E l \in Label \ {"ingesting"} :
                 /\ pc' = [pc EXCEPT ![p] = l]
                 /\ row' = row \/ \E r : row' = [row EXCEPT ![p] = r]
      BY <1>10 DEF Drain, Start, Advance, Drained, Turn, Goto, store, Label, Process
    <2> QED BY <1>5, <2>1
  <1>11. ASSUME Serve PROVE RateInv'
    <2>1. UNCHANGED <<log, folded, noted, row>> /\ "portal" \in Process
          /\ pc' = [pc EXCEPT !["portal"] = "serving"]
      BY <1>11 DEF Serve, Goto, store, Process, Drainers
    <2> QED BY <1>5, <2>1 DEF Label
  <1>12. ASSUME NEW i \in Incident, CatchUp(i) PROVE RateInv'
    BY <1>7, <1>12 DEF CatchUp, store
  <1>13. CASE UNCHANGED vars
    BY <1>7, <1>13 DEF vars, store, control
  <1> QED BY <1>1, <1>2, <1>3, <1>4, <1>6, <1>8, <1>9, <1>10, <1>11, <1>12, <1>13
       DEF Next, Faults

\* As long as no row was given up to a failing write, no hour holds more
\* findings than the limit, although a drain reads the rate before the
\* transaction in which it stores, and another may store in between
\* (IncidentStore._telemetry_rate_exceeded, and _ingest).
THEOREM RateKept == Spec => []RateHeld
  <1>1. Init => RateInv
    <2> SUFFICES ASSUME Init
                 PROVE  RateInv
      OBVIOUS
    <2>1. NotesTrue /\ \A p \in Process : Rated(p)
      BY DEF Init, NotesTrue, Rated
    <2>2. ASSUME NEW h \in 0..MaxHours
          PROVE  Cardinality(Stored(h)) = 0
      <3>1. Stored(h) = {}
        BY DEF Init, Stored
      <3> QED BY <3>1, FS_EmptySet
    <2> QED BY <2>1, <2>2, BoundsAreNumbers DEF RateInv, Within
  <1>2. IInv /\ IInv' /\ RateInv /\ [Next]_vars => RateInv'
    BY NextKeepsRate
  <1>3. IInv /\ RateInv => RateHeld
    <2> SUFFICES ASSUME IInv, RateInv, NoException, NEW r \in folded, RateLimit > 0
                 PROVE  Cardinality({s \in Recent(r) : log[s].hour <= log[r].hour}) <= RateLimit
      BY DEF RateHeld, NoException
    <2>1. /\ log[r].hour \in 0..MaxHours
          /\ \A s \in folded : log[s].hour \in 0..MaxHours
      BY LogTyped DEF IInv, TypeOK, Entry
    <2>2. {s \in Recent(r) : log[s].hour <= log[r].hour} = Stored(log[r].hour)
      BY <2>1, BoundsAreNumbers DEF Recent, Stored, IsRated
    <2> QED BY <2>1, <2>2 DEF RateInv, Within
  <1> QED BY <1>1, <1>2, <1>3, Invariant, PTL DEF Spec
=============================================================================
