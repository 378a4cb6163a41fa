----------------------------- MODULE IncidentStore -----------------------------
(***************************************************************************)
(* The event log (portal/events.py) and the incident store that folds it   *)
(* (portal/incidents.py), as the processes use them that share the state   *)
(* directory: the portal, whose request threads commit an event and fold   *)
(* it themselves; the monitor, which only commits; and the coordinator,    *)
(* which folds what it finds when it starts.  A step is one committed      *)
(* write, or the one read it is decided by; a process may die, and a write *)
(* may fail, between two of them.                                          *)
(***************************************************************************)
EXTENDS Integers, Sequences, FiniteSets

CONSTANTS
    Requests,          \* the portal's request threads
    Inputs, Entries,   \* the events and console entries the world can cause
    Actions,           \* customer actions and scans: the trace ids
    Actors, Revisions, \* the profiles, and the commits a checkout can be at
    Parent,            \* PORTAL_PARENT_INCIDENT, or none
    ExpectedBaseline,  \* PORTAL_BASELINE_SHA, or ""
    Admission,         \* per draining process: PORTAL_TELEMETRY_ADMISSION
    RateLimit,         \* PORTAL_TELEMETRY_RATE_LIMIT; 0 is no limit
    Limits,            \* how many rows a drain may be asked to read: its limit
    MaxLog,            \* bound: rows of the log
    MaxHours,          \* bound: hours the log spans
    MaxCrashes,        \* bound: how often a process dies
    MaxFailures        \* bound: how many writes fail

Drainers == {"portal", "coordinator"}
Process  == Drainers \union Requests

(***************************************************************************)
(* Families, and the assertion or browser signature each is observed by.   *)
(***************************************************************************)
Family == {"S2", "S1", "B1"}

Assertions == [S2 |-> {"key_is_reused", "link_came_back", "wrong_state_shown"},
               S1 |-> {"row_limit_was_reset"},
               B1 |-> {}]
Controls   == {"color_scheme_was_reset"}
Signature  == [severity |-> "warning", text |-> "formatter_failed", family |-> "B1"]

Baseline == {"baseline", "baseline-light"}
Derived  == {"preview", "reproduction", "verification"}

\* The assertions of the portal's actions, and the classes of a console entry.
Name == (UNION {Assertions[f] : f \in Family}) \union Controls
        \union {"qualified", "needs_attention", "ignored", ""}

Event == [outcome  : {"ok", "assertion_failed", "telemetry"},
          name     : Name,
          kind     : Baseline \union Derived \union {"unheard_of"},
          sha      : Revisions \union {""},        \* "": does not match the code
          fixture  : BOOLEAN,
          scenario : Family \union {""},
          actor    : Actors \union {""},
          trace    : Actions]

\* telemetry._classify, of one console entry.
Classify(entry) ==
    IF entry.severity = Signature.severity /\ entry.text = Signature.text
    THEN "qualified"
    ELSE IF entry.text # "known_noise" /\ entry.severity \in {"warning", "error"}
         THEN "needs_attention"
         ELSE "ignored"

IsFinding(e) == e.outcome = "telemetry"

FamilyOf(e) == IF IsFinding(e) THEN Signature.family
               ELSE CHOOSE f \in Family : e.name \in Assertions[f]

\* What may be stored as evidence of a defect, whoever reads it.
\* A failed assertion about the harness, and an entry that matches none of the
\* registered signatures, are dropped like any other outcome; no Input is one.
IsEvidence(e) ==
    \/ e.outcome = "assertion_failed" /\ \E f \in Family : e.name \in Assertions[f]
    \/ IsFinding(e) /\ e.name = "qualified"

\* What is written down for the operator, and is no defect.
IsRemarkable(e) ==
    \/ e.outcome = "assertion_failed" /\ e.name \in Controls
    \/ IsFinding(e) /\ e.name = "needs_attention"

IsDerived(e) == e.kind \in Derived

Incident == [sha : Revisions \union {"unverified"}, family : Family, actor : Actors]
NoIncident == [sha |-> "", family |-> "", actor |-> ""]

IncidentOf(e) ==
    IF IsDerived(e) THEN Parent
    ELSE [sha    |-> IF e.sha = "" THEN "unverified" ELSE e.sha,
          family |-> FamilyOf(e),
          actor  |-> e.actor]

\* The checks of _ingest before it opens its transaction.
IsStorable(e) ==
    /\ e.kind \in Baseline \union Derived
    /\ e.actor # ""
    /\ IncidentOf(e) # NoIncident

IsProvable(e) ==
    /\ e.sha # ""
    /\ ExpectedBaseline # "" => e.sha = ExpectedBaseline
    /\ e.fixture
    /\ e.scenario \in {"", FamilyOf(e)}

ASSUME InputsAreEvents ==
    /\ Inputs \subseteq {e \in Event : ~IsFinding(e)}
    /\ Entries \subseteq [severity : STRING, text : STRING, of : {e \in Event : IsFinding(e)}]
    /\ Parent \in Incident \union {NoIncident}
    /\ Admission \in [Drainers -> {"enabled", "dry_run", "disabled"}]

ASSUME BoundsAreNumbers ==
    /\ {RateLimit, MaxLog, MaxHours, MaxCrashes, MaxFailures} \subseteq Nat
    /\ Limits \subseteq Nat \ {0}
    /\ Drainers \intersect Requests = {}

VARIABLES
    log,         \* the events table, by row id; rows of one hour are within an
                 \* hour of each other
    folded,      \* incident_events: the rows stored as evidence
    occurrences, \* incident_occurrences: an incident and the action that failed
    incidents,   \* per incident: its admission and its occurrence_count
    noted,       \* incident_processing_errors: rows, and why
    cursor,      \* ingest_cursor
    proposed,    \* the incidents the controller has a repair of
    pc, row,     \* per process: where it is, and the row in its hands
    last,        \* per draining process: the last row its drain has read
    due,         \* the eligible incidents the portal has still to propose
    beyond,      \* history: the rows the portal's last drain left beyond its limit
    crashes, failures

store   == <<folded, occurrences, incidents>>
control == <<pc, row, last, due>>
history == <<crashes, failures, beyond>>
vars    == <<log, store, noted, cursor, proposed, control, history>>

At(p)   == log[row[p]].event
Known(i) == incidents[i].admission # "none"

Reason == {"remarkable", "rate_limit", "unstorable", "no_parent", "exception"}

TypeOK ==
    /\ log \in Seq([event : Event, hour : 0..MaxHours])
    /\ folded \subseteq DOMAIN log
    /\ occurrences \subseteq Incident \X Actions
    /\ incidents \in [Incident -> [admission : {"none", "eligible", "blocked"}, count : Nat]]
    /\ noted \subseteq (DOMAIN log) \X Reason
    /\ cursor \in 0..Len(log)
    /\ proposed \subseteq Incident
    /\ pc \in [Process -> {"down", "drained", "observing", "ingesting", "advancing",
                           "catching_up", "serving", "considering"}]
    /\ row \in [Process -> Nat]
    /\ last \in [Drainers -> 0..Len(log)]
    /\ due \subseteq Incident
    /\ beyond \subseteq Nat
    /\ crashes \in 0..MaxCrashes
    /\ failures \in 0..MaxFailures

Init ==
    /\ log = <<>>
    /\ folded = {}
    /\ occurrences = {}
    /\ incidents = [i \in Incident |-> [admission |-> "none", count |-> 0]]
    /\ noted = {}
    /\ cursor = 0
    /\ proposed = {}
    /\ pc = [p \in Process |-> IF p \in Drainers THEN "down" ELSE "serving"]
    /\ row = [p \in Process |-> 0]
    /\ last = [p \in Drainers |-> 0]
    /\ due = {}
    /\ beyond = {}
    /\ crashes = 0
    /\ failures = 0

Goto(p, label) == pc' = [pc EXCEPT ![p] = label]

(***************************************************************************)
(* Commits to the event log: EventStore.emit.                              *)
(***************************************************************************)
Hours == IF log = <<>> THEN {0}
         ELSE {log[Len(log)].hour, log[Len(log)].hour + 1} \intersect (0..MaxHours)

Commit(e) ==
    /\ Len(log) < MaxLog
    /\ \E h \in Hours : log' = Append(log, [event |-> e, hour |-> h])

\* A customer's request commits an event; its observer has still to run.
Emit(q, e) ==
    /\ pc["portal"] = "serving"
    /\ pc[q] = "serving"
    /\ Commit(e)
    /\ row' = [row EXCEPT ![q] = Len(log) + 1]
    /\ Goto(q, "observing")
    /\ UNCHANGED <<store, noted, cursor, proposed, last, due, history>>

\* The monitor commits a finding of a scan.  It has no observer.
Record(entry) ==
    /\ Classify(entry) # "ignored"
    /\ Commit([entry.of EXCEPT !.name = Classify(entry)])
    /\ UNCHANGED <<store, noted, cursor, proposed, control, history>>

(***************************************************************************)
(* IncidentStore.observe, of the row a process holds.  A request goes on   *)
(* to the controller when it learnt an incident; a drain moves the cursor. *)
(***************************************************************************)
\* A request is answered; a process that drains goes where it is told.
Answer(q) == Goto(q, "serving") /\ row' = [row EXCEPT ![q] = 0]

Learnt(p) ==
    /\ Goto(p, IF p \in Drainers THEN "advancing" ELSE "considering")
    /\ UNCHANGED row

Passed(p) ==
    IF p \in Drainers THEN Goto(p, "advancing") /\ UNCHANGED row
                      ELSE Answer(p)

Note(p, why) ==
    /\ noted' = noted \union {<<row[p], why>>}
    /\ Passed(p)
    /\ UNCHANGED store

Suppress(p) ==
    /\ Passed(p)
    /\ UNCHANGED <<store, noted>>

\* Findings of the rolling hour before row r that are already in the store.
Recent(r) == {s \in folded : /\ IsFinding(log[s].event)
                             /\ ~IsDerived(log[s].event)
                             /\ log[s].hour >= log[r].hour}

\* Mutant of RateExceeded: one more than the limit.
RateExceededLate(r) == RateLimit > 0 /\ Cardinality(Recent(r)) > RateLimit

RateExceeded(r) == RateLimit > 0 /\ Cardinality(Recent(r)) >= RateLimit

\* Mutant of Admit: what a store without admission checks would say.
AdmitAny(p, e) ==
    IF IsFinding(e) /\ Admission[p] = "dry_run" THEN "blocked" ELSE "eligible"

Admit(p, e) ==
    IF IsProvable(e) /\ ~(IsFinding(e) /\ Admission[p] = "dry_run")
    THEN "eligible" ELSE "blocked"

\* Mutant of Counted: every assertion that failed is counted.
CountedAgain(i, e, admission) ==
    /\ occurrences' = occurrences \union {<<i, e.trace>>}
    /\ incidents' = [incidents EXCEPT ![i] =
           [admission |-> IF Known(i) THEN @.admission ELSE admission,
            count     |-> @.count + 1]]

\* Counts the action unless one of its events was counted before.
Counted(i, e, admission) ==
    LET new == <<i, e.trace>> \notin occurrences
    IN  /\ occurrences' = occurrences \union {<<i, e.trace>>}
        /\ incidents' = [incidents EXCEPT ![i] =
               [admission |-> IF Known(i) THEN @.admission ELSE admission,
                count     |-> @.count + (IF new THEN 1 ELSE 0)]]

\* The transaction of _ingest.
Ingest(p) ==
    LET e == At(p)
        i == IncidentOf(e)
    IN  \/ /\ ~IsStorable(e)
           /\ Note(p, "unstorable")
        \/ /\ IsStorable(e) /\ IsDerived(e) /\ ~Known(i)
           /\ Note(p, "no_parent")
        \/ /\ IsStorable(e) /\ (IsDerived(e) => Known(i))
           /\ row[p] \in folded
           /\ Learnt(p)
           /\ UNCHANGED <<store, noted>>
        \/ /\ IsStorable(e) /\ (IsDerived(e) => Known(i))
           /\ row[p] \notin folded
           /\ folded' = folded \union {row[p]}
           /\ IF IsDerived(e) THEN UNCHANGED <<occurrences, incidents>>
                              ELSE Counted(i, e, Admit(p, e))
           /\ Learnt(p)
           /\ UNCHANGED noted

\* No evidence of anything, or of a kind this process has switched off.
IsNothing(p, e) ==
    /\ ~IsRemarkable(e)
    /\ IsEvidence(e) => IsFinding(e) /\ Admission[p] = "disabled"

Observe(p) ==
    /\ pc[p] = "observing"
    /\ LET e == At(p)
       IN  \/ /\ IsNothing(p, e)
              /\ Suppress(p)
           \/ /\ IsRemarkable(e)
              /\ Note(p, "remarkable")
           \/ /\ IsEvidence(e) /\ ~IsFinding(e)
              /\ Ingest(p)
           \/ /\ IsEvidence(e) /\ IsFinding(e) /\ ~IsNothing(p, e)
              /\ RateExceeded(row[p])
              /\ Note(p, "rate_limit")
           \/ /\ IsEvidence(e) /\ IsFinding(e) /\ ~IsNothing(p, e)
              /\ ~RateExceeded(row[p])
              /\ Goto(p, "ingesting")
              /\ UNCHANGED <<store, noted, row>>
    /\ UNCHANGED <<log, cursor, proposed, last, due, history>>

\* A finding is stored in a transaction of its own, after its rate was read.
IngestFinding(p) ==
    /\ pc[p] = "ingesting"
    /\ Ingest(p)
    /\ UNCHANGED <<log, cursor, proposed, last, due, history>>

\* The store refuses a write, and the exception is recorded.
ObserveFails(p) ==
    /\ pc[p] \in {"observing", "ingesting"}
    /\ failures < MaxFailures
    /\ failures' = failures + 1
    /\ Note(p, "exception")
    /\ UNCHANGED <<log, cursor, proposed, last, due, beyond, crashes>>

\* It refuses that record too: a request fails; a process that starts, ends.
ObserveRaises(p) ==
    /\ pc[p] \in {"observing", "ingesting"}
    /\ failures < MaxFailures
    /\ failures' = failures + 1
    /\ IF p \in Drainers THEN Goto(p, "down") /\ UNCHANGED row ELSE Answer(p)
    /\ UNCHANGED <<log, store, noted, cursor, proposed, last, due, beyond, crashes>>

(***************************************************************************)
(* The customer's request goes on: consider, of the incident it learnt.    *)
(***************************************************************************)
\* Where the incident is admitted, its proposal is committed.
Propose(i) ==
    proposed' = IF incidents[i].admission = "eligible" THEN proposed \union {i} ELSE proposed

Consider(q) ==
    /\ pc[q] = "considering"
    /\ Propose(IncidentOf(At(q)))
    /\ Answer(q)
    /\ UNCHANGED <<log, store, noted, cursor, last, due, history>>

ConsiderFails(q) ==
    /\ pc[q] = "considering"
    /\ failures < MaxFailures
    /\ failures' = failures + 1
    /\ Answer(q)
    /\ UNCHANGED <<log, store, noted, cursor, proposed, last, due, beyond, crashes>>

(***************************************************************************)
(* Start: drain the log from the cursor.  The portal then proposes every   *)
(* eligible incident, and serves.                                          *)
(***************************************************************************)
Least(a, b) == IF a < b THEN a ELSE b

\* With row r next, of those the drain has read.
Turn(p, r, end) ==
    /\ row' = [row EXCEPT ![p] = r]
    /\ Goto(p, IF r <= end THEN "observing" ELSE "drained")

\* What is in the log behind the last row the portal's drain has read.
LeftBehind(p, end) ==
    beyond' = IF p = "portal" THEN {r \in DOMAIN log : r > end} ELSE beyond

\* Mutant of Start: the position is saved when the rows are read.
StartSavesFirst(p) ==
    \E limit \in Limits :
        LET end == Least(cursor + limit, Len(log))
        IN  /\ pc[p] = "down"
            /\ last' = [last EXCEPT ![p] = end]
            /\ cursor' = end
            /\ Turn(p, cursor + 1, end)
            /\ LeftBehind(p, end)
            /\ UNCHANGED <<log, store, noted, proposed, due, crashes, failures>>

\* Mutant of Start: it takes up the log where it ends.
StartAtTheEnd(p) ==
    /\ pc[p] = "down"
    /\ last' = [last EXCEPT ![p] = Len(log)]
    /\ Turn(p, Len(log) + 1, Len(log))
    /\ LeftBehind(p, Len(log))
    /\ UNCHANGED <<log, store, noted, cursor, proposed, due, crashes, failures>>

\* Mutant of Start: it expects as many rows as it asks for.
StartReadsBeyond(p) ==
    \E limit \in Limits :
        /\ pc[p] = "down"
        /\ last' = [last EXCEPT ![p] = cursor + limit]
        /\ Turn(p, cursor + 1, cursor + limit)
        /\ LeftBehind(p, cursor + limit)
        /\ UNCHANGED <<log, store, noted, cursor, proposed, due, crashes, failures>>

Start(p) ==
    \E limit \in Limits :
        LET end == Least(cursor + limit, Len(log))
        IN  /\ pc[p] = "down"
            /\ last' = [last EXCEPT ![p] = end]
            /\ Turn(p, cursor + 1, end)
            /\ LeftBehind(p, end)
            /\ UNCHANGED <<log, store, noted, cursor, proposed, due, crashes, failures>>

\* _set_cursor: never back, whichever drain is ahead.
Advance(p) ==
    /\ pc[p] = "advancing"
    /\ cursor' = IF row[p] > cursor THEN row[p] ELSE cursor
    /\ Turn(p, row[p] + 1, last[p])
    /\ UNCHANGED <<log, store, noted, proposed, last, due, history>>

Eligible == {i \in Incident : incidents[i].admission = "eligible"}

\* Mutant of Drained: the controller is told of live failures only.
DrainedInSilence(p) ==
    /\ pc[p] = "drained"
    /\ due' = {}
    /\ Goto(p, IF p = "portal" THEN "catching_up" ELSE "serving")
    /\ UNCHANGED <<log, store, noted, cursor, proposed, row, last, history>>

Drained(p) ==
    /\ pc[p] = "drained"
    /\ due' = IF p = "portal" THEN Eligible ELSE due
    /\ Goto(p, IF p = "portal" THEN "catching_up" ELSE "serving")
    /\ UNCHANGED <<log, store, noted, cursor, proposed, row, last, history>>

CatchUp(i) ==
    /\ pc["portal"] = "catching_up"
    /\ i \in due
    /\ due' = due \ {i}
    /\ Propose(i)
    /\ UNCHANGED <<log, store, noted, cursor, pc, row, last, history>>

Serve ==
    /\ pc["portal"] = "catching_up"
    /\ due = {}
    /\ Goto("portal", "serving")
    /\ UNCHANGED <<log, store, noted, cursor, proposed, row, last, due, history>>

\* A process ends, and the portal's requests with it.
Crash(p) ==
    /\ pc[p] # "down"
    /\ crashes < MaxCrashes
    /\ crashes' = crashes + 1
    /\ pc' = [q \in Process |-> IF q = p THEN "down"
                                ELSE IF p = "portal" /\ q \in Requests THEN "serving"
                                ELSE pc[q]]
    /\ row' = [q \in Process |-> IF p = q \/ (p = "portal" /\ q \in Requests) THEN 0
                                 ELSE row[q]]
    /\ last' = [last EXCEPT ![p] = 0]
    /\ due' = IF p = "portal" THEN {} ELSE due
    /\ UNCHANGED <<log, store, noted, cursor, proposed, beyond, failures>>

-------------------------------------------------------------------------------
Drain(p) == Start(p) \/ Advance(p) \/ Drained(p)
Fold(p)  == Observe(p) \/ IngestFinding(p)
Faults(p) == ObserveFails(p) \/ ObserveRaises(p)

Next ==
    \/ \E q \in Requests : (\E e \in Inputs : Emit(q, e)) \/ Consider(q) \/ ConsiderFails(q)
    \/ \E entry \in Entries : Record(entry)
    \/ \E p \in Process : Fold(p) \/ Faults(p)
    \/ \E p \in Drainers : Drain(p) \/ Crash(p)
    \/ (\E i \in Incident : CatchUp(i)) \/ Serve

Spec == Init /\ [][Next]_vars

\* The portal is restarted when it ends (restart: unless-stopped), and some
\* thread of it that can run does.  No fairness for the coordinator: an
\* operator starts it, and may not; none for customers and the monitor.
PortalRuns ==
    \/ Drain("portal") \/ (\E i \in Incident : CatchUp(i)) \/ Serve
    \/ \E p \in {"portal"} \union Requests : Fold(p)
    \/ \E q \in Requests : Consider(q)

FairSpec == Spec /\ WF_vars(PortalRuns)

(***************************************************************************)
(* Properties.                                                             *)
(***************************************************************************)
\* Every row behind the cursor that is evidence of a defect is in the store
\* or in the errors an operator is shown: a drain that dies or meets a failing
\* write moves the cursor past nothing unaccounted for, and neither does one
\* that runs beside it.  (Findings are nobody's loss where a process that
\* drains has them switched off.)  Incidents.drain, _set_cursor.
IsOwed(e) ==
    /\ IsEvidence(e)
    /\ IsFinding(e) => \A p \in Drainers : Admission[p] # "disabled"

Accounted(r) == r \in folded \/ \E why \in Reason : <<r, why>> \in noted

NothingLostSilently ==
    \A r \in 1..cursor : IsOwed(log[r].event) => Accounted(r)

\* README "one per failed user action": an action that failed is counted once,
\* under its own incident, whatever the sibling assertions, the redeliveries by
\* two drains and a live observer, and the crashes between them.
Failures(rows) ==
    {<<IncidentOf(log[r].event), log[r].event.trace>> :
        r \in {s \in rows : /\ IsEvidence(log[s].event)
                            /\ IsStorable(log[s].event)
                            /\ ~IsDerived(log[s].event)}}

Tally == INSTANCE FailureTally WITH
    Incident <- Incident,
    Action   <- Actions,
    happened <- Failures(DOMAIN log),
    counted  <- occurrences,
    tally    <- [i \in Incident |-> incidents[i].count]

CountsFailedActions == Tally!Spec

\* README "derived environments never create an incident", "unverified never
\* merges with verified": a repair is only ever proposed for an incident some
\* stored, provable event of its own baseline is evidence of, and where that
\* was a finding, one a process that has findings enabled has stored.
ProposedIsProven ==
    \A i \in proposed : \E r \in folded :
        LET e == log[r].event
        IN  /\ ~IsDerived(e) /\ IncidentOf(e) = i /\ IsProvable(e)
            /\ IsFinding(e) => \E p \in Drainers : Admission[p] = "enabled"

\* The cap on browser evidence: no rolling hour holds more findings than the
\* limit, although the rate is read before the transaction that stores the
\* finding, and two drains may be doing so.  A row that a failing write made
\* one of them skip is the exception.
RateHeld ==
    (\A r \in DOMAIN log : <<r, "exception">> \notin noted) =>
        \A r \in folded :
            RateLimit > 0 /\ IsFinding(log[r].event) =>
                Cardinality({s \in Recent(r) : log[s].hour <= log[r].hour}) <= RateLimit

\* Time and again every failure a customer met is in the store, or in the
\* errors: the observer that died before it ran is made good by the next start
\* of the portal (app.py "a crash in that window would lose the incident, so
\* every start folds anything the callback never saw").  Exempt are the rows
\* behind the limit of that start's one drain: they wait for another start,
\* which nothing brings about.  (A log and bounds that are finite make this:
\* each one is in the end.)
EveryFailureArrives ==
    []<>(failures > 0 \/
         \A r \in DOMAIN log \ beyond :
            IsEvidence(log[r].event) /\ ~IsFinding(log[r].event) => Accounted(r))

\* Time and again every eligible incident of a customer's failure has its
\* repair proposed, whoever folded it and whatever died before it was
\* considered, as long as the databases take the writes.  Exempt is the
\* incident of a row behind the limit of the portal's drain: the coordinator
\* may fold that, and proposes nothing.
EligibleIsProposed ==
    []<>(failures > 0 \/
         \A i \in Eligible :
            \/ i.family = Signature.family \/ i \in proposed
            \/ \E r \in beyond \intersect folded : IncidentOf(log[r].event) = i)
===============================================================================
