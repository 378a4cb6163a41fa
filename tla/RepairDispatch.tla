--------------------------- MODULE RepairDispatch ---------------------------
(***************************************************************************)
(* How a queued proposal becomes one fork issue and one Devin session:     *)
(* portal/controller.py, Controller.consider, advance, dispatch, recover   *)
(* and _stop over RepairStore, run by several workers on one database.     *)
(*                                                                         *)
(* A step is one committed SQLite statement or one end of a remote call,   *)
(* so the interleavings are those of threads and processes that share the  *)
(* files.  A worker may crash between any two steps and starts again with  *)
(* nothing but the database.  What a dispatched repair does next is the    *)
(* module RepairLifecycle; here it only runs until its session is read as  *)
(* stopped, unreadable, past its deadline, or handed back with the result  *)
(* that no product defect is behind the incident.                          *)
(***************************************************************************)
EXTENDS Naturals, FiniteSets

CONSTANTS
    Repairs,           \* row ids of `repairs`: AUTOINCREMENT, so smaller is older
    Workers,           \* RepairWorker threads, in one process or in several
    Requests,          \* request handlers of the portal that call `consider`
    Lost,              \* repairs whose incident `incident_of` cannot read
    None

ASSUME RepairsAreIds == Repairs \subseteq Nat
ASSUME NoneIsNoRepair == None \notin Repairs
ASSUME LostAreRepairs == Lost \subseteq Repairs

VARIABLES
    row,      \* repairs.state
    url,      \* repairs whose issue_url column is set
    clock,    \* repairs.deadline_utc: unset, running or passed
    slot,     \* the repair_id of the one repair_slot row, or None
    slotOld,  \* the claim is older than stale_after_minutes
    intent,   \* repair_intents.state, per repair and kind
    old,      \* intents whose updated_at is older than the cutoff
    wire,     \* creation requests sent and not yet served
    made,     \* how many objects carry this marker at the provider
    live,     \* repairs whose session is open at Devin: running or waiting
    reported, \* repairs whose session reported that there is no product defect
    asks,     \* per request: the repair it found absent and will upsert
    pc, at, kind, seen, todo,  \* locals of a worker's pass, ...
    due       \* ... and the deadline_utc that dispatch() read at its start

db     == <<row, url, clock, slot, slotOld, intent, old>>
remote == <<wire, made, live, reported>>
locals == <<pc, at, kind, seen, todo, due>>
vars   == <<db, remote, locals, asks>>

Kinds == {"issue", "session"}

RowStates == {"absent", "proposed", "dispatched", "needs_attention", "terminal"}

IntentStates == {"absent", "intended", "confirmed", "ambiguous"}

Deadlines == {"unset", "running", "passed"}

Locations ==
    {"idle", "down", "recover", "takeover", "claim", "lost", "drop", "dispatch", "intend",
     "find", "reread", "create", "await", "unknown", "settle", "url", "park", "finish",
     "poll", "stop", "close", "release", "hold"}

TypeOK ==
    /\ row \in [Repairs -> RowStates]
    /\ url \subseteq Repairs
    /\ clock \in [Repairs -> Deadlines]
    /\ slot \in Repairs \cup {None}
    /\ slotOld \in BOOLEAN
    /\ intent \in [Repairs -> [Kinds -> IntentStates]]
    /\ old \subseteq Repairs \X Kinds
    /\ wire \subseteq Repairs \X Kinds
    /\ made \in [Repairs -> [Kinds -> Nat]]
    /\ live \subseteq Repairs
    /\ reported \subseteq Repairs
    /\ asks \in [Requests -> Repairs \cup {None}]
    /\ pc \in [Workers -> Locations]
    /\ at \in [Workers -> Repairs \cup {None}]
    /\ kind \in [Workers -> Kinds]
    /\ seen \in [Workers -> IntentStates]
    /\ todo \in [Workers -> SUBSET Repairs]
    /\ due \in [Workers -> Deadlines]

Init ==
    /\ row = [r \in Repairs |-> "absent"]
    /\ url = {}
    /\ clock = [r \in Repairs |-> "unset"]
    /\ slot = None
    /\ slotOld = FALSE
    /\ intent = [r \in Repairs |-> [k \in Kinds |-> "absent"]]
    /\ old = {}
    /\ wire = {}
    /\ made = [r \in Repairs |-> [k \in Kinds |-> 0]]
    /\ live = {}
    /\ reported = {}
    /\ asks = [q \in Requests |-> None]
    /\ pc = [w \in Workers |-> "idle"]
    /\ at = [w \in Workers |-> None]
    /\ kind = [w \in Workers |-> "issue"]
    /\ seen = [w \in Workers |-> "absent"]
    /\ todo = [w \in Workers |-> {}]
    /\ due = [w \in Workers |-> "unset"]

-----------------------------------------------------------------------------
(* Steps of a worker that only move its own program counter. *)

Goto(w, l) == pc' = [pc EXCEPT ![w] = l]

\* Every local of a pass is gone, with a return or with the process.
Forget(w, l) ==
    /\ Goto(w, l)
    /\ at' = [at EXCEPT ![w] = None]
    /\ kind' = [kind EXCEPT ![w] = "issue"]
    /\ seen' = [seen EXCEPT ![w] = "absent"]
    /\ todo' = [todo EXCEPT ![w] = {}]
    /\ due' = [due EXCEPT ![w] = "unset"]

Done(w) == Forget(w, "idle")

\* dispatch(): the issue is ensured first, then the session.
Enter(w, r) ==
    /\ Goto(w, "dispatch")
    /\ at' = [at EXCEPT ![w] = r]

\* Mutant of Release: the DELETE without its repair_id.
ReleaseAny(r) == slot' = None /\ slotOld' = FALSE

\* release_slot(): DELETE ... WHERE repair_id = r.
Release(r) ==
    /\ slot' = IF slot = r THEN None ELSE slot
    /\ slotOld' = (slotOld /\ slot # r)

-----------------------------------------------------------------------------
(* The portal's request path. *)

\* consider(): the read of by_fingerprint finds no row.
ConsiderLooks(q, r) ==
    /\ asks[q] = None
    /\ row[r] = "absent"
    /\ asks' = [asks EXCEPT ![q] = r]
    /\ UNCHANGED <<db, remote, locals>>

\* _propose(): upsert inserts the row, or overwrites one another request
\* inserted since the read; the id of an inserted row is the next one.
ConsiderUpserts(q) ==
    LET r == asks[q] IN
    /\ r # None
    /\ \A p \in Repairs : p < r => row[p] # "absent"
    /\ row' = [row EXCEPT ![r] = "proposed"]
    /\ clock' = [clock EXCEPT ![r] = "unset"]
    /\ asks' = [asks EXCEPT ![q] = None]
    /\ UNCHANGED <<url, slot, slotOld, intent, old, remote, locals>>

-----------------------------------------------------------------------------
(* advance(): recover first, then the slot, then the queue. *)

\* recover(): a claim nobody settled within the window.
RecoverBegins(w) ==
    \E r \in Repairs, k \in Kinds :
        /\ pc[w] = "idle"
        /\ <<r, k>> \in old
        /\ intent[r][k] = "intended"
        /\ Goto(w, "recover")
        /\ at' = [at EXCEPT ![w] = r]
        /\ kind' = [kind EXCEPT ![w] = k]
        /\ UNCHANGED <<db, remote, asks, seen, todo, due>>

\* Mutant of RecoverSettles: the repair's state written into the intent.
RecoverMixesUp(w) ==
    /\ pc[w] = "recover"
    /\ intent' = [intent EXCEPT ![at[w]][kind[w]] = "needs_attention"]
    /\ old' = old \ {<<at[w], kind[w]>>}
    /\ Goto(w, "park")
    /\ UNCHANGED <<row, url, clock, slot, slotOld, remote, asks, at, kind, seen, todo, due>>

\* settle(AMBIGUOUS) writes by id, whatever the intent has become since.
RecoverSettles(w) ==
    /\ pc[w] = "recover"
    /\ intent' = [intent EXCEPT ![at[w]][kind[w]] = "ambiguous"]
    /\ old' = old \ {<<at[w], kind[w]>>}
    /\ Goto(w, "park")
    /\ UNCHANGED <<row, url, clock, slot, slotOld, remote, asks, at, kind, seen, todo, due>>

\* recover() came first and left none (the reads that follow it are taken to
\* be near enough that no further intent ages in between).
NothingStale ==
    \A r \in Repairs, k \in Kinds : <<r, k>> \in old => intent[r][k] # "intended"

\* advance() with a free slot reads the queue, oldest first.
ReadQueue(w) ==
    LET queued == {r \in Repairs : row[r] = "proposed"} IN
    /\ pc[w] = "idle"
    /\ NothingStale
    /\ slot = None
    /\ queued # {}
    /\ todo' = [todo EXCEPT ![w] = queued]
    /\ Goto(w, "claim")
    /\ UNCHANGED <<db, remote, asks, at, kind, seen, due>>

\* _walk()/_step() over the row holding the slot.
ReadActive(w) ==
    /\ pc[w] = "idle"
    /\ NothingStale
    /\ slot # None
    /\ row[slot] \in {"proposed", "dispatched"}
    /\ at' = [at EXCEPT ![w] = slot]
    /\ Goto(w, IF row[slot] = "proposed" THEN "takeover" ELSE "poll")
    /\ UNCHANGED <<db, remote, asks, kind, seen, todo, due>>

\* claim_slot() for the oldest of them: INSERT OR IGNORE, then whoever the row
\* names.
Claim(w) ==
    /\ pc[w] = "claim"
    /\ \E r \in todo[w] :
        /\ \A q \in todo[w] : r <= q
        /\ slot' = IF slot = None THEN r ELSE slot
        /\ slotOld' = (slotOld /\ slot # None)
        /\ \/ /\ slot' # r
              /\ Done(w)
           \/ /\ slot' = r
              /\ r \in Lost
              /\ Goto(w, "lost")
              /\ at' = [at EXCEPT ![w] = r]
              /\ UNCHANGED <<kind, seen, todo, due>>
           \/ /\ slot' = r
              /\ r \notin Lost
              /\ Enter(w, r)
              /\ UNCHANGED <<kind, seen, todo, due>>
    /\ UNCHANGED <<row, url, clock, intent, old, remote, asks>>

\* The incident of a queued proposal is gone: parked, ...
LostParks(w) ==
    /\ pc[w] = "lost"
    /\ row' = [row EXCEPT ![at[w]] = "needs_attention"]
    /\ Goto(w, "drop")
    /\ UNCHANGED <<url, clock, slot, slotOld, intent, old, remote, asks, at, kind, seen, todo, due>>

\* ... and the slot given back before the next queued proposal is tried.
LostReleases(w) ==
    LET rest == todo[w] \ {at[w]} IN
    /\ pc[w] = "drop"
    /\ Release(at[w])
    /\ \/ rest = {} /\ Done(w)
       \/ /\ rest # {}
          /\ Goto(w, "claim")
          /\ todo' = [todo EXCEPT ![w] = rest]
          /\ UNCHANGED <<at, kind, seen, due>>
    /\ UNCHANGED <<row, url, clock, intent, old, remote, asks>>

\* _step() on a claimed proposal: left alone while the claim is fresh, taken
\* over once it is stale.  slot_claimed_at() reads whatever claim exists now.
Takeover(w) ==
    /\ pc[w] = "takeover"
    /\ \/ /\ (slot # None /\ ~slotOld) \/ at[w] \in Lost
          /\ Done(w)
       \/ /\ slot = None \/ slotOld
          /\ at[w] \notin Lost
          /\ Enter(w, at[w])
          /\ UNCHANGED <<kind, seen, todo, due>>
    /\ UNCHANGED <<db, remote, asks>>

-----------------------------------------------------------------------------
(* dispatch(): _ensure_issue, then _ensure_session. *)

\* store.get(): an issue_url already in the row skips _ensure_issue, and the
\* deadline in it is the one the last update goes by.
Dispatch(w) ==
    /\ pc[w] = "dispatch"
    /\ kind' = [kind EXCEPT ![w] = IF at[w] \in url THEN "session" ELSE "issue"]
    /\ due' = [due EXCEPT ![w] = clock[at[w]]]
    /\ Goto(w, "intend")
    /\ UNCHANGED <<db, remote, asks, at, seen, todo>>

\* intend(): INSERT OR IGNORE of the unique key.  `seen` keeps the state
\* before the insert, so "absent" is the caller that was told claimed=True.
\* A confirmed intent needs no lookup: its detail is the url, or the id of the
\* session to read again.
Intend(w) ==
    LET r == at[w]
        k == kind[w]
        named == intent[r][k] = "confirmed"
    IN  /\ pc[w] = "intend"
        /\ seen' = [seen EXCEPT ![w] = intent[r][k]]
        /\ intent' = IF intent[r][k] = "absent"
                     THEN [intent EXCEPT ![r][k] = "intended"] ELSE intent
        /\ Goto(w, IF ~named THEN "find" ELSE IF k = "issue" THEN "url" ELSE "reread")
        /\ UNCHANGED <<row, url, clock, slot, slotOld, old, remote, asks, at, kind, todo, due>>

\* find_issue()/find_tagged() reports an object carrying the marker.
Finds(w) ==
    /\ pc[w] = "find"
    /\ made[at[w]][kind[w]] > 0
    /\ Goto(w, "settle")
    /\ UNCHANGED <<db, remote, asks, at, kind, seen, todo, due>>

\* Mutant of Misses: an intent somebody else holds is as good as one's own.
MissesCreates(w) ==
    /\ pc[w] = "find"
    /\ Goto(w, IF seen[w] = "ambiguous" THEN "park" ELSE "create")
    /\ UNCHANGED <<db, remote, asks, at, kind, seen, todo, due>>

\* Mutant of Misses: Parked is handled like Claimed, and parks nothing.
MissesForgets(w) ==
    /\ pc[w] = "find"
    /\ \/ seen[w] \in {"intended", "ambiguous"} /\ Done(w)
       \/ seen[w] = "absent" /\ Goto(w, "create") /\ UNCHANGED <<at, kind, seen, todo, due>>
    /\ UNCHANGED <<db, remote, asks>>

\* It reports none: there is none, or the listing does not show it yet.
Misses(w) ==
    /\ pc[w] = "find"
    /\ \/ /\ seen[w] = "intended"      \* Claimed: another worker is creating it
          /\ Done(w)
       \/ /\ seen[w] = "ambiguous"     \* Parked: it may exist already
          /\ Goto(w, "park")
          /\ UNCHANGED <<at, kind, seen, todo, due>>
       \/ /\ seen[w] = "absent"        \* claimed=True
          /\ Goto(w, "create")
          /\ UNCHANGED <<at, kind, seen, todo, due>>
    /\ UNCHANGED <<db, remote, asks>>

\* get_session() of a confirmed intent is answered.
Rereads(w) ==
    /\ pc[w] = "reread"
    /\ Goto(w, "finish")
    /\ UNCHANGED <<db, remote, asks, at, kind, seen, todo, due>>

\* find_issue(), find_tagged() or get_session() raises; dispatch() catches
\* none of it, so the tick ends with the row as it is.
Raises(w) ==
    /\ pc[w] \in {"find", "reread"}
    /\ Done(w)
    /\ UNCHANGED <<db, remote, asks>>

\* create_issue()/create_session(): the request is written to the socket.
Create(w) ==
    /\ pc[w] = "create"
    /\ wire' = wire \cup {<<at[w], kind[w]>>}
    /\ Goto(w, "await")
    /\ UNCHANGED <<db, made, live, reported, asks, at, kind, seen, todo, due>>

\* The provider acts on a request, whether or not anyone still waits for it.
Serve(r, k) ==
    /\ <<r, k>> \in wire
    /\ wire' = wire \ {<<r, k>>}
    /\ made' = [made EXCEPT ![r][k] = @ + 1]
    /\ live' = IF k = "session" THEN live \cup {r} ELSE live
    /\ UNCHANGED <<db, reported, locals, asks>>

\* A 2xx reply: the object exists and is named.
Answered(w) ==
    /\ pc[w] = "await"
    /\ <<at[w], kind[w]>> \notin wire
    /\ Goto(w, "settle")
    /\ UNCHANGED <<db, remote, asks, at, kind, seen, todo, due>>

\* Ambiguous: a timeout or a dropped connection; the request may be served.
TimesOut(w) ==
    /\ pc[w] = "await"
    /\ Goto(w, "unknown")
    /\ UNCHANGED <<db, remote, asks, at, kind, seen, todo, due>>

\* Refused parks the repair; a status that is not 2xx raises RuntimeError,
\* which dispatch() does not catch.  Either way nothing was created and the
\* intent stays intended.
TurnedDown(w) ==
    /\ pc[w] = "await"
    /\ <<at[w], kind[w]>> \in wire
    /\ wire' = wire \ {<<at[w], kind[w]>>}
    /\ \/ Goto(w, "park") /\ UNCHANGED <<at, kind, seen, todo, due>>
       \/ Done(w)
    /\ UNCHANGED <<db, made, live, reported, asks>>

SettlesAmbiguous(w) ==
    /\ pc[w] = "unknown"
    /\ intent' = [intent EXCEPT ![at[w]][kind[w]] = "ambiguous"]
    /\ old' = old \ {<<at[w], kind[w]>>}
    /\ Goto(w, "park")
    /\ UNCHANGED <<row, url, clock, slot, slotOld, remote, asks, at, kind, seen, todo, due>>

\* settle(CONFIRMED) with the url or the session id as its detail.
SettlesConfirmed(w) ==
    /\ pc[w] = "settle"
    /\ intent' = [intent EXCEPT ![at[w]][kind[w]] = "confirmed"]
    /\ old' = old \ {<<at[w], kind[w]>>}
    /\ Goto(w, IF kind[w] = "issue" THEN "url" ELSE "finish")
    /\ UNCHANGED <<row, url, clock, slot, slotOld, remote, asks, at, kind, seen, todo, due>>

\* update(issue_url=...), and on to the session.
WritesUrl(w) ==
    /\ pc[w] = "url"
    /\ url' = url \cup {at[w]}
    /\ kind' = [kind EXCEPT ![w] = "session"]
    /\ Goto(w, "intend")
    /\ UNCHANGED <<row, clock, slot, slotOld, intent, old, remote, asks, at, seen, todo, due>>

\* update(state=NEEDS_ATTENTION): the slot is kept on purpose.
Parks(w) ==
    /\ pc[w] = "park"
    /\ row' = [row EXCEPT ![at[w]] = "needs_attention"]
    /\ Done(w)
    /\ UNCHANGED <<url, clock, slot, slotOld, intent, old, remote, asks>>

\* update(state=DISPATCHED, ...): the deadline read at the start is written
\* back, a new one where there was none then.
Finishes(w) ==
    LET r == at[w] IN
    /\ pc[w] = "finish"
    /\ row' = [row EXCEPT ![r] = "dispatched"]
    /\ clock' = [clock EXCEPT ![r] = IF due[w] = "unset" THEN "running" ELSE due[w]]
    /\ Done(w)
    /\ UNCHANGED <<url, slot, slotOld, intent, old, remote, asks>>

-----------------------------------------------------------------------------
(* A dispatched repair, as far as its claim is concerned. *)

\* poll(): the session is still running, inside its deadline.
PollRunning(w) ==
    /\ pc[w] = "poll"
    /\ at[w] \in live \ reported
    /\ clock[at[w]] # "passed"
    /\ Done(w)
    /\ UNCHANGED <<db, remote, asks>>

\* poll(): the session cannot be read, or reports that it stopped.
PollParks(w) ==
    /\ pc[w] = "poll"
    /\ Goto(w, "park")
    /\ UNCHANGED <<db, remote, asks, at, kind, seen, todo, due>>

\* poll(): _exceeded() says the deadline passed, so _stop() ends the session.
PollStops(w) ==
    /\ pc[w] = "poll"
    /\ at[w] \notin reported
    /\ clock[at[w]] = "passed"
    /\ Goto(w, "stop")
    /\ UNCHANGED <<db, remote, asks, at, kind, seen, todo, due>>

\* poll() and _candidate(): the session finished, or waits for its user, with a
\* classification other than product_defect: no code change, and the claim is
\* given back without ending the session.
PollClassifies(w) ==
    /\ pc[w] = "poll"
    /\ at[w] \in reported
    /\ Goto(w, "close")
    /\ UNCHANGED <<db, remote, asks, at, kind, seen, todo, due>>

\* _end_session(): Devin confirms the termination, ...
Terminates(w) ==
    /\ pc[w] = "stop"
    /\ live' = live \ {at[w]}
    /\ Goto(w, "close")
    /\ UNCHANGED <<db, wire, made, reported, asks, at, kind, seen, todo, due>>

\* ... or its outcome is refused or unknown, whatever Devin did.
TerminationUnclear(w) ==
    /\ pc[w] = "stop"
    /\ live' \in {live, live \ {at[w]}}
    /\ Goto(w, "hold")
    /\ UNCHANGED <<db, wire, made, reported, asks, at, kind, seen, todo, due>>

\* Mutant of Closes: the claim is released whatever became of the termination.
ClosesAnyway(w) ==
    /\ pc[w] \in {"close", "hold"}
    /\ row' = [row EXCEPT ![at[w]] = "terminal"]
    /\ Goto(w, "release")
    /\ UNCHANGED <<url, clock, slot, slotOld, intent, old, remote, asks, at, kind, seen, todo, due>>

\* update(state=TERMINAL); only a confirmed stop, or the result that there is
\* no product defect, goes on to release.
Closes(w) ==
    /\ pc[w] \in {"close", "hold"}
    /\ row' = [row EXCEPT ![at[w]] = "terminal"]
    /\ \/ /\ pc[w] = "close"
          /\ Goto(w, "release")
          /\ UNCHANGED <<at, kind, seen, todo, due>>
       \/ /\ pc[w] = "hold"
          /\ Done(w)
    /\ UNCHANGED <<url, clock, slot, slotOld, intent, old, remote, asks>>

Releases(w) ==
    /\ pc[w] = "release"
    /\ Release(at[w])
    /\ Done(w)
    /\ UNCHANGED <<row, url, clock, intent, old, remote, asks>>

-----------------------------------------------------------------------------
(* The environment: sessions, crashes, and the wall clock. *)

\* A session hands over the result that there is no product defect: it has
\* finished, or it stays open and waits for its user.
Reports(r) ==
    /\ r \in live \ reported
    /\ reported' = reported \cup {r}
    /\ live' \in {live, live \ {r}}
    /\ UNCHANGED <<db, wire, made, locals, asks>>

\* The process dies: every local of the pass is gone.
Dies(w) ==
    /\ pc[w] \notin {"idle", "down"}
    /\ Forget(w, "down")
    /\ UNCHANGED <<db, remote, asks>>

\* The coordinator is started again.
Starts(w) ==
    /\ pc[w] = "down"
    /\ Goto(w, "idle")
    /\ UNCHANGED <<db, remote, asks, at, kind, seen, todo, due>>

\* stale_after_minutes go by for the claim, or for an unsettled intent.
ClaimAges ==
    /\ slot # None
    /\ ~slotOld
    /\ slotOld' = TRUE
    /\ UNCHANGED <<row, url, clock, slot, intent, old, remote, locals, asks>>

IntentAges(r, k) ==
    /\ intent[r][k] = "intended"
    /\ <<r, k>> \notin old
    /\ old' = old \cup {<<r, k>>}
    /\ UNCHANGED <<row, url, clock, slot, slotOld, intent, remote, locals, asks>>

DeadlinePasses(r) ==
    /\ clock[r] = "running"
    /\ clock' = [clock EXCEPT ![r] = "passed"]
    /\ UNCHANGED <<row, url, slot, slotOld, intent, old, remote, locals, asks>>

-----------------------------------------------------------------------------
Consider ==
    \E q \in Requests : ConsiderUpserts(q) \/ \E r \in Repairs : ConsiderLooks(q, r)

Work(w) ==
    \/ Starts(w) \/ RecoverBegins(w) \/ RecoverSettles(w)
    \/ ReadQueue(w) \/ ReadActive(w) \/ Claim(w) \/ LostParks(w) \/ LostReleases(w)
    \/ Takeover(w) \/ Dispatch(w) \/ Intend(w) \/ Finds(w) \/ Misses(w) \/ Rereads(w) \/ Raises(w)
    \/ Create(w) \/ Answered(w) \/ TimesOut(w) \/ TurnedDown(w)
    \/ SettlesAmbiguous(w) \/ SettlesConfirmed(w) \/ WritesUrl(w)
    \/ Parks(w) \/ Finishes(w)
    \/ PollRunning(w) \/ PollParks(w) \/ PollStops(w) \/ PollClassifies(w)
    \/ Terminates(w) \/ TerminationUnclear(w) \/ Closes(w) \/ Releases(w)

Clock ==
    \/ ClaimAges
    \/ \E r \in Repairs : DeadlinePasses(r) \/ \E k \in Kinds : IntentAges(r, k)

Next ==
    \/ Consider
    \/ \E w \in Workers : Work(w) \/ Dies(w)
    \/ \E r \in Repairs : Reports(r) \/ \E k \in Kinds : Serve(r, k)
    \/ Clock

Spec == Init /\ [][Next]_vars

\* The provider answers what dispatch() asks before it may go on.
Answers(w) == Finds(w) \/ Misses(w) \/ Rereads(w)

\* RepairWorker._run ticks for ever and no exception ends it, so a pass goes on
\* unless something kills it, and something kills a worker only finitely often;
\* wall-clock time passes.  Of GitHub and Devin one thing is assumed: a lookup
\* that is asked again and again is answered at last, since dispatch() neither
\* counts nor bounds the ticks on which it raises.  Nothing is assumed of what
\* they answer, of creations, of the portal's requests, or of an operator.
Fairness ==
    /\ \A w \in Workers : WF_vars(Work(w)) /\ SF_vars(Answers(w)) /\ <>[][~Dies(w)]_vars
    /\ WF_vars(ClaimAges)
    /\ \A r \in Repairs : WF_vars(DeadlinePasses(r))
    /\ \A r \in Repairs, k \in Kinds : WF_vars(IntentAges(r, k))

FairSpec == Spec /\ Fairness

-----------------------------------------------------------------------------
(* Safety. *)

\* "Creates exactly one Devin API session per incident": no interleaving of
\* requests, workers, crashes, lost replies and late deliveries makes a second
\* issue or session with one marker (_ensure_issue, _ensure_session, intend).
AtMostOnce == \A r \in Repairs, k \in Kinds : made[r][k] <= 1

\* Every open session belongs to the repair that holds the slot, except one that
\* reported no product defect: its claim is given back although it may still be
\* open, waiting for its user.  So no two repairs have a session at work, however
\* their workers, requests, crashes and late deliveries interleave (claim_slot,
\* release_slot, _stop, _candidate).
RunningHoldsClaim == \A r \in live \ reported : slot = r

\* The abstract promise: the claim, the issue and the session of every repair
\* move as SingleFlight says.
Promise == INSTANCE SingleFlight WITH
    holder  <- slot,
    filed   <- {r \in Repairs : made[r]["issue"] > 0},
    opened  <- {r \in Repairs : made[r]["session"] > 0},
    running <- live,
    settled <- reported

SingleFlightKept == Promise!Spec

\* Budget: "Caps the controller enforces.  It may never raise them by itself":
\* a deadline, once set, is never unset to be set anew (upsert, dispatch).
CapsNeverRaised == [][\A r \in Repairs : clock[r] # "unset" => clock'[r] # "unset"]_clock

-----------------------------------------------------------------------------
(* Liveness. *)

\* The slot is kept for a person: by another repair that is parked or whose
\* stop was not confirmed, or that cannot be dispatched at all.
HeldForAPerson(r) ==
    /\ slot \notin {None, r}
    /\ row[slot] \in {"needs_attention", "terminal"} \/ slot \in Lost

\* "A second incident queued behind the first starts by itself when the slot
\* frees": whatever crashes and failed calls happen on the way, a proposal is
\* dispatched or parked unless somebody else's slot waits for a person, provided
\* that lookups are answered at last: while get_session of a confirmed session
\* raises, the row stays proposed and keeps the slot (advance, _step's takeover
\* of a stale claim, recover, _ensure_session).
QueueMoves ==
    \A r \in Repairs \ Lost :
        row[r] = "proposed" ~> row[r] # "proposed" \/ HeldForAPerson(r)

=============================================================================
