--------------------------------- MODULE Portal ---------------------------------
(***************************************************************************)
(* The portal's own actions (portal/domain.py, the routes of portal/app.py *)
(* and the explorations table of portal/events.py): save, open and discard *)
(* an exploration, look at and sort the demo chart, reset the fixture.     *)
(* Requests run in worker threads; each of their upstream calls and each   *)
(* of their reads and writes of the table is a step of its own.            *)
(***************************************************************************)
EXTENDS Validator

\* No two saves of a behaviour save the same state.
States == <<"a", "b", "c", "d">>

CONSTANTS
    Threads,
    Products,     \* the products the validator is tried on
    Deployed,     \* those the portal's requests are explored on
    Tabs,
    MaxListed,    \* how many records a save looks at: 50 in the code
    MaxRequests,
    MaxMishaps    \* bounds: crashes, lost calls and answers, errors, in all

ASSUME ProductsAreProducts == Deployed \subseteq Products /\ Products \subseteq Product
ASSUME BoundsAreNaturals   ==
    {MaxListed, MaxRequests, MaxMishaps} \subseteq Nat /\ MaxRequests \in DOMAIN States

VARIABLES
    product,      \* the Superset behind the portal
    page,         \* bound: the part of the portal this behaviour visits
    superset,     \* saved explorations, and each tab's key
    charts,       \* the charts that carry the demo chart's name
    records,      \* the explorations table, by key
    newer,        \* which of its rows were written after which: <<later, earlier>>
    pc, job,      \* where each thread is in its request
    alarms,       \* history: what an assertion failed about
    unfounded,    \* history: what one failed about that was made of no answer
    overlooked,   \* history: links that came back with their row out of sight
    muddled,      \* history: what overlapping or broken-off requests were about
    gone,         \* history: recorded keys whose discard was confirmed
    requests, mishaps

table    == <<records, newer>>
findings == <<alarms, unfounded, overlooked>>
told     == <<findings, muddled, gone>>
limits   == <<requests, mishaps>>
vars     == <<product, page, superset, charts, table, pc, job, told, limits>>

CHART_ROW_LIMIT == 137
Specs    == {States[n] : n \in DOMAIN States}
Keys     == 1..MaxRequests
NoRecord == [spec |-> "none", discarded |-> FALSE]

\* What a request is about: a link, a chart, or the demo chart by its name.
Link(key) == <<"key", key>>
Chart(n)  == <<"chart", n>>
TheChart  == Chart(0)

Request(does, profile, tab, item, spec, config) ==
    [does |-> does, profile |-> profile, tab |-> tab, item |-> item,
     spec |-> spec, config |-> config, seen |-> NoRecord]

Idle == Request("idle", "analyst", 0, <<>>, "none", Only(Omitted))

Profiles == {"analyst", "restricted_viewer"}

\* The configuration restore_fixture sends, and the one a sort sends.
Fixture == Config(CHART_ROW_LIMIT, "google", "desc")
Sorted(limit, direction) == Config(limit, "omitted", direction)

Requests ==
    {Request("reset", "analyst", 0, <<>>, "none", Fixture)} \union
    CASE page = "explorations" ->
           {Request("save", profile, tab, <<>>, States[requests + 1], Only(Omitted)) :
               profile \in Profiles, tab \in Tabs}
           \union {Request(does, profile, 0, Link(key), "none", Only(Omitted)) :
               does \in {"open", "discard"}, profile \in Profiles, key \in DOMAIN superset.saved}
      [] page = "settings" ->
           {Request("view", profile, 0, TheChart, "none", Only(Omitted)) :
               profile \in Profiles}
           \union {Request("sort", profile, 0, TheChart, "none", Sorted(limit, direction)) :
               profile \in Profiles, limit \in {Omitted, 275}, direction \in {"asc", "desc"}}

FirstStep == [save |-> "posting", open |-> "looking", discard |-> "deleting",
              view |-> "finding", sort |-> "finding", reset |-> "clearing"]

Calling == {"posting", "fetching", "deleting", "verifying",
            "finding", "generating", "noting", "updating", "reading", "misreading"}
Steps   == Calling \union {"idle", "judging", "keeping", "looking", "marking", "clearing"}

Init ==
    /\ product \in Products
    /\ page \in {"explorations", "settings"}
    /\ superset = Unsaved(Tabs)
    /\ charts = <<>>
    /\ records = [key \in Keys |-> NoRecord] /\ newer = {}
    /\ pc = [t \in Threads |-> "idle"]
    /\ job = [t \in Threads |-> Idle]
    /\ alarms = {} /\ unfounded = {} /\ overlooked = {} /\ muddled = {} /\ gone = {}
    /\ requests = 0 /\ mishaps = 0

-------------------------------------------------------------------------------
\* Threads.
Goes(t, step, j) == /\ pc'  = [pc EXCEPT ![t] = step]
                    /\ job' = [job EXCEPT ![t] = j]

Ends(t) == Goes(t, "idle", Idle)

Shared(t, item) == {item} \intersect {job[u].item : u \in Threads \ {t}}

\* The thread goes on with what it knows now; two requests about the same
\* thing overlap.
Continues(t, step, j) ==
    /\ Goes(t, step, j)
    /\ muddled' = muddled \union (Shared(t, j.item) \ {<<>>})
    /\ UNCHANGED mishaps

Mishap == mishaps < MaxMishaps /\ mishaps' = mishaps + 1

\* The call, or its answer, is lost: the request ends as blocked.
BreaksOff(t, item) ==
    /\ Mishap
    /\ muddled' = muddled \union ({item} \ {<<>>})
    /\ Ends(t)

\* A call that was served, its answer received or not.
Served(t, step, j) == Continues(t, step, j) \/ BreaksOff(t, j.item)

Begin(t) ==
    /\ pc[t] = "idle"
    /\ product \in Deployed
    /\ requests < MaxRequests
    /\ requests' = requests + 1
    /\ \E j \in Requests : Continues(t, FirstStep[j.does], j)
    /\ UNCHANGED <<product, page, superset, charts, table, findings, gone>>

\* The login, the dataset or the call itself is not served.
Unserved(t) ==
    /\ pc[t] \in Calling
    /\ BreaksOff(t, job[t].item)
    /\ UNCHANGED <<product, page, superset, charts, table, findings, gone, requests>>

\* assert_contract about what the thread has in hand: of an answer, and of a
\* status that answers nothing and is asserted on all the same.
Raised(t, holds, raised) == IF holds THEN raised ELSE raised \union {job[t].item}

Asserts(t, holds)     == alarms' = Raised(t, holds, alarms) /\ UNCHANGED <<unfounded, overlooked>>
AssertsAnyway(t, holds) ==
    unfounded' = Raised(t, holds, unfounded) /\ UNCHANGED <<alarms, overlooked>>

-------------------------------------------------------------------------------
\* save_exploration: POST, the reuse check against the table, the record.
\* What the restricted role is answered there it is answered about a link too.
Permitted(t) == job[t].profile = "restricted_viewer" => Answer(product.write, 201) = 201

Post(t) ==
    /\ pc[t] = "posting"
    /\ Permitted(t)
    /\ superset' = Save(product, superset, job[t].tab, job[t].spec)
    /\ Served(t, "judging",
              [job[t] EXCEPT !.item = Link(KeyOf(product, superset', job[t].tab))])
    /\ UNCHANGED <<product, page, charts, table, findings, gone, requests>>

\* Mutant of Refused: the request goes on without a key.
RefusedGoesOn(t) ==
    /\ pc[t] = "posting"
    /\ ~Permitted(t)
    /\ Goes(t, "judging", job[t])
    /\ UNCHANGED <<product, page, superset, charts, table, told, limits>>

\* 403 is the expected denial, any other answer is blocked: no key either way.
Refused(t) ==
    /\ pc[t] = "posting"
    /\ ~Permitted(t)
    /\ Ends(t)
    /\ UNCHANGED <<product, page, superset, charts, table, told, limits>>

Discarded(key) == records[key].discarded

\* explorations(): the newest rows, and no more than so many.
Listed(key) == Cardinality({later \in Keys : <<later, key>> \in newer}) < MaxListed

\* Mutant of Judge: every row counts as a discarded one.
JudgeAnyKnown(t) ==
    LET key    == job[t].item[2]
        reused == records[key] # NoRecord /\ Listed(key)
    IN  /\ pc[t] = "judging"
        /\ alarms' = Raised(t, ~reused, alarms)
        /\ overlooked' = Raised(t, Discarded(key) => reused, overlooked)
        /\ IF reused THEN Ends(t) ELSE Goes(t, "keeping", job[t])
        /\ UNCHANGED <<product, page, superset, charts, table, unfounded, muddled, gone, limits>>

Judge(t) ==
    LET key    == job[t].item[2]
        reused == Discarded(key) /\ Listed(key)
    IN  /\ pc[t] = "judging"
        /\ alarms' = Raised(t, ~reused, alarms)
        /\ overlooked' = Raised(t, Discarded(key) => reused, overlooked)
        /\ IF reused THEN Ends(t) ELSE Goes(t, "keeping", job[t])
        /\ UNCHANGED <<product, page, superset, charts, table, unfounded, muddled, gone, limits>>

Rows == {key \in Keys : records[key] # NoRecord}

\* Mutant of Keep: INSERT OR IGNORE, the row of an earlier save stays.
KeepFirst(t) ==
    LET key == job[t].item[2]
    IN  /\ pc[t] = "keeping"
        /\ records' = IF key \in Rows THEN records
                      ELSE [records EXCEPT ![key] = [spec |-> job[t].spec, discarded |-> FALSE]]
        /\ newer' = (newer \ (Keys \X {key})) \union ({key} \X (Rows \ {key}))
        /\ Ends(t)
        /\ UNCHANGED <<product, page, superset, charts, told, limits>>

\* INSERT OR REPLACE: a second save in a tab replaces that tab's row, with a
\* new date and no discard.
Keep(t) ==
    LET key == job[t].item[2]
    IN  /\ pc[t] = "keeping"
        /\ records' = [records EXCEPT ![key] = [spec |-> job[t].spec, discarded |-> FALSE]]
        /\ newer' = (newer \ (Keys \X {key})) \union ({key} \X (Rows \ {key}))
        /\ Ends(t)
        /\ UNCHANGED <<product, page, superset, charts, told, limits>>

-------------------------------------------------------------------------------
\* open_exploration: the record first, then the link.
Look(t) ==
    /\ pc[t] = "looking"
    /\ Goes(t, "fetching", [job[t] EXCEPT !.seen = records[job[t].item[2]]])
    /\ UNCHANGED <<product, page, superset, charts, table, told, limits>>

Trusted(t, state) ==
    CASE job[t].seen = NoRecord -> TRUE
      [] job[t].seen.discarded  -> state = "gone"
      [] OTHER                  -> state = job[t].seen.spec

\* What the link shows to this role; a dead one is dead to everyone.
Shown(t) == LET state == superset.saved[job[t].item[2]]
            IN  IF Permitted(t) \/ state = "gone" THEN state ELSE "refused"

Fetch(t) ==
    /\ pc[t] = "fetching"
    /\ Shown(t) # "refused"
    /\ Asserts(t, Trusted(t, Shown(t)))
    /\ Ends(t)
    /\ UNCHANGED <<product, page, superset, charts, table, muddled, gone, limits>>

\* Refused, or a server error: no branch of its own, the assertion is made of it.
FetchFails(t) ==
    /\ pc[t] = "fetching"
    /\ \/ Shown(t) = "refused" /\ UNCHANGED mishaps
       \/ Mishap
    /\ AssertsAnyway(t, Trusted(t, "refused"))
    /\ Ends(t)
    /\ UNCHANGED <<product, page, superset, charts, table, muddled, gone, requests>>

-------------------------------------------------------------------------------
\* discard_exploration: DELETE, the mark, and the link read back.
DeleteLink(t) ==
    LET key == job[t].item[2]
    IN  /\ pc[t] = "deleting"
        /\ superset.saved[key] # "gone" /\ Permitted(t)
        /\ superset' = Delete(product, superset, key)
        /\ Served(t, "marking", job[t])
        /\ UNCHANGED <<product, page, charts, table, findings, gone, requests>>

\* Deleted already, or refused: blocked.
DeleteMisses(t) ==
    /\ pc[t] = "deleting"
    /\ Shown(t) \in {"gone", "refused"}
    /\ Ends(t)
    /\ UNCHANGED <<product, page, superset, charts, table, told, limits>>

\* Mutant of Mark: the row is deleted, not kept as evidence.
MarkDeletes(t) ==
    LET key == job[t].item[2]
    IN  /\ pc[t] = "marking"
        /\ records' = [records EXCEPT ![key] = NoRecord]
        /\ gone' = IF records[key] # NoRecord THEN gone \union {key} ELSE gone
        /\ Goes(t, "verifying", job[t])
        /\ UNCHANGED <<product, page, superset, charts, newer, findings, muddled, limits>>

\* UPDATE ... WHERE key: no row, no effect.
Mark(t) ==
    LET key   == job[t].item[2]
        known == records[key] # NoRecord
    IN  /\ pc[t] = "marking"
        /\ records' = IF known THEN [records EXCEPT ![key].discarded = TRUE] ELSE records
        /\ gone' = IF known THEN gone \union {key} ELSE gone
        /\ Goes(t, "verifying", job[t])
        /\ UNCHANGED <<product, page, superset, charts, newer, findings, muddled, limits>>

Verify(t) ==
    /\ pc[t] = "verifying"
    /\ Asserts(t, superset.saved[job[t].item[2]] = "gone")
    /\ Ends(t)
    /\ UNCHANGED <<product, page, superset, charts, table, muddled, gone, limits>>

\* A server error: any status but 404 is a link that still resolves.
VerifyFails(t) ==
    /\ pc[t] = "verifying"
    /\ Mishap
    /\ AssertsAnyway(t, FALSE)
    /\ Ends(t)
    /\ UNCHANGED <<product, page, superset, charts, table, muddled, gone, requests>>

-------------------------------------------------------------------------------
\* ensure_chart: the chart by its name, or a new one, and its settings.
Editor(t) == job[t].profile # "restricted_viewer"

\* Mutant of Find: the filter on the name matches no chart.
FindNothing(t) ==
    /\ pc[t] = "finding"
    /\ Continues(t, "generating", job[t])
    /\ UNCHANGED <<product, page, superset, charts, table, findings, gone, requests>>

Find(t) ==
    /\ pc[t] = "finding"
    /\ IF charts = <<>>
       THEN Continues(t, "generating", job[t])
       ELSE \E n \in DOMAIN charts :
               Continues(t, "noting", [job[t] EXCEPT !.item = Chart(n)])
    /\ UNCHANGED <<product, page, superset, charts, table, findings, gone, requests>>

\* A list that is answered with an error reads like an empty one.
FindFails(t) ==
    /\ pc[t] = "finding"
    /\ Mishap
    /\ muddled' = muddled \union {TheChart}
    /\ Goes(t, "generating", job[t])
    /\ UNCHANGED <<product, page, superset, charts, table, findings, gone, requests>>

\* Mutant of Generated: the gate stands only before the change of a chart.
GeneratedForAnyone(t) ==
    /\ pc[t] = "generating"
    /\ charts' = Append(charts, Generate(product, Config(CHART_ROW_LIMIT, "google", "omitted")))
    /\ Served(t, "noting", [job[t] EXCEPT !.item = Chart(Len(charts'))])
    /\ UNCHANGED <<product, page, superset, table, findings, gone, requests>>

Generated(t) ==
    /\ pc[t] = "generating"
    /\ Editor(t)
    /\ charts' = Append(charts, Generate(product, Config(CHART_ROW_LIMIT, "google", "omitted")))
    /\ Served(t, "noting", [job[t] EXCEPT !.item = Chart(Len(charts'))])
    /\ UNCHANGED <<product, page, superset, table, findings, gone, requests>>

\* read_chart, and the gate before a change (_require_editor).
Note(t) ==
    /\ pc[t] = "noting"
    /\ IF job[t].does = "view" \/ ~Editor(t)
       THEN Ends(t)
       ELSE Goes(t, "updating", [job[t] EXCEPT !.seen = charts[job[t].item[2]]])
    /\ UNCHANGED <<product, page, superset, charts, table, told, limits>>

Denied(t) ==
    /\ pc[t] = "generating"
    /\ ~Editor(t)
    /\ Ends(t)
    /\ UNCHANGED <<product, page, superset, charts, table, told, limits>>

\* change_chart_sort and restore_fixture: the update, then what it left.
UpdateChart(t) ==
    /\ pc[t] = "updating"
    /\ charts' = [charts EXCEPT ![job[t].item[2]] = Update(product, @, job[t].config)]
    /\ Served(t, "reading", job[t])
    /\ UNCHANGED <<product, page, superset, table, findings, gone, requests>>

\* MCP reports a failure in its answer, which nothing looks at.
UpdateFails(t) ==
    /\ pc[t] = "updating"
    /\ Mishap
    /\ Goes(t, "misreading", job[t])
    /\ UNCHANGED <<product, page, superset, charts, table, told, requests>>

Kept(before, after, config) ==
    /\ after.sort = config.sort
    /\ after.limit = (IF config.limit = Omitted THEN before.limit ELSE config.limit)
    /\ after.palette = (IF config.palette = "omitted" THEN before.palette ELSE config.palette)

\* What the chart is after its change, or after the change that failed.
Read(t) ==
    LET holds == Kept(job[t].seen, charts[job[t].item[2]], job[t].config)
    IN  /\ \/ pc[t] = "reading" /\ Asserts(t, holds)
           \/ pc[t] = "misreading" /\ AssertsAnyway(t, holds)
        /\ Ends(t)
        /\ UNCHANGED <<product, page, superset, charts, table, muddled, gone, limits>>

-------------------------------------------------------------------------------
\* ops_reset: the table is emptied, then the chart is put back.
Clear(t) ==
    /\ pc[t] = "clearing"
    /\ records' = [key \in Keys |-> NoRecord] /\ newer' = {}
    /\ gone' = {}
    /\ Goes(t, "finding", [job[t] EXCEPT !.item = TheChart])
    /\ muddled' = muddled \union Shared(t, TheChart)
                          \union ({Link(key) : key \in Keys} \intersect {job[u].item : u \in Threads})
    /\ UNCHANGED <<product, page, superset, charts, findings, limits>>

\* The portal's process dies with every request in it.
Crash ==
    /\ Mishap
    /\ \E t \in Threads : pc[t] # "idle"
    /\ pc'  = [t \in Threads |-> "idle"]
    /\ job' = [t \in Threads |-> Idle]
    /\ muddled' = muddled \union ({job[t].item : t \in Threads} \ {<<>>})
    /\ UNCHANGED <<product, page, superset, charts, table, findings, gone, requests>>

Next ==
    \/ \E t \in Threads :
          \/ Begin(t) \/ Unserved(t)
          \/ Post(t) \/ Refused(t) \/ Judge(t) \/ Keep(t)
          \/ Look(t) \/ Fetch(t) \/ FetchFails(t)
          \/ DeleteLink(t) \/ DeleteMisses(t) \/ Mark(t) \/ Verify(t) \/ VerifyFails(t)
          \/ Find(t) \/ FindFails(t) \/ Generated(t) \/ Denied(t) \/ Note(t)
          \/ UpdateChart(t) \/ UpdateFails(t) \/ Read(t)
          \/ Clear(t)
    \/ Crash

Spec == Init /\ [][Next]_vars

-------------------------------------------------------------------------------
AtRest == \A t \in Threads : pc[t] = "idle"

\* Every variable has its type, and a request that judges, keeps, marks or
\* reads back has got the key or the chart it does so with: domain.py has no
\* path from a refused or missing answer to the steps that use it.
TypeOK ==
    /\ \A key \in DOMAIN superset.saved : superset.saved[key] \in Specs \union {"gone"}
    /\ \A key \in Keys : records[key] # NoRecord => key \in DOMAIN superset.saved
    /\ newer \subseteq Keys \X Keys
    /\ pc \in [Threads -> Steps]
    /\ \A t \in Threads :
          /\ pc[t] \in {"judging", "keeping", "looking", "fetching",
                        "deleting", "marking", "verifying"}
                => job[t].item \in {Link(key) : key \in DOMAIN superset.saved}
          /\ pc[t] \in {"noting", "updating", "reading", "misreading"}
                => job[t].item \in {Chart(n) : n \in DOMAIN charts}
    /\ alarms \union unfounded \union overlooked \union muddled
          \subseteq {TheChart} \union {Link(key) : key \in Keys} \union {Chart(n) : n \in DOMAIN charts}

\* The validator tells the products apart (validator.py:10-20, the cases, run).
\* Every call answered: a family's replay passes exactly when the product keeps
\* the family's contract and the restricted role is denied, is blocked when the
\* product keeps a case from its assertions, and fails otherwise.  A call without
\* an answer blocks it, wherever in the replay that is.  An error status where a
\* check is made without a look at the status does not let it pass, but neither
\* does it block it: it fails a product in order, too.  And B1 says what its pages
\* show: it is blocked without the first, fails without the control page, and
\* gives the product the benefit of the doubt about the rest.  The last two are
\* not what validator.py:18-20 and README.md:447 say.
VerdictIsExact ==
    requests = 0 =>
    /\ \A family \in DOMAIN CASES_BY_FAMILY :
          LET names == CASES_BY_FAMILY[family]
          IN  /\ Verdict(family, product) =
                    IF Unanswerable(product, family) THEN "blocked"
                    ELSE IF InContract(product, family) THEN "passed" ELSE "failed"
              /\ \A i \in DOMAIN names : \A n \in Cuts(names[i], product) :
                    Settled(runCutShort(names, product, i, n), names) = "blocked"
              /\ \A i \in DOMAIN names : \A n \in Unguarded(names[i], product) :
                    Settled(runErred(names, product, i, n), names) =
                       IF Unanswerable(product, family) THEN "blocked" ELSE "failed"
    /\ \A shown \in Showings :
          Settled(runPages(product, shown), <<"B1">>) =
             IF shown.fresh # "page" THEN "blocked"
             ELSE IF shown.control = "page" /\ InContract(Presumed(product, shown), "number_format")
             THEN "passed" ELSE "failed"

\* An alarm that an answer gave rise to is true: when an assertion of the portal
\* fails of what a link or a chart answered, and no two requests had that in hand
\* at once and none broke off about it, then the validator does not pass that
\* product either (domain.py's assert_contract against validator.py's checks).
\* The restricted role's refusal and an error status are asserted on as well, and
\* raise an alarm about a product in order: those are "unfounded", and not what
\* domain.py:3-6 says becomes of them.
AlarmIsTrue ==
    \A item \in alarms \ muddled :
       Verdict(IF item[1] = "key" THEN "discarded_key" ELSE "row_limit", product) # "passed"

\* Between requests the explorations table tells the truth about the links of
\* a product that keeps its contract, whatever requests came before and however
\* they were answered: a row marked discarded has a dead link, and any other
\* shows the recorded state.  A link that two requests had in hand at once, or
\* about which one broke off or died, is left out: of those the table may lie,
\* as after a crash between the deletion and the mark.
RecordsAgree ==
    AtRest /\ InContract(product, "discarded_key") =>
    \A key \in Keys :
       records[key] # NoRecord /\ Link(key) \notin muddled =>
       superset.saved[key] = IF Discarded(key) THEN "gone" ELSE records[key].spec

\* No missed defect: a link whose discard the portal recorded does not come
\* back to life without an assertion having failed about it
\* (save_exploration's reuse check, discard_exploration's read-back), unless its
\* row was no longer among the newest when the save looked (events.py:264-267),
\* or requests about it overlapped or broke off.
DefectIsReported ==
    AtRest =>
    \A key \in gone :
       superset.saved[key] # "gone" /\ Link(key) \notin muddled \union overlooked
          => Link(key) \in alarms \union unfounded

\* One request after the other finds the demo chart again and makes no second
\* one, whatever was refused, lost or left half-way in between: it takes two that
\* look for it at once, or a list that could not be read, which are left out here
\* because the code does make a second chart then (domain.py, ensure_chart).
OneChart == Len(charts) > 1 => TheChart \in muddled

\* No step of a request under the restricted profile makes or changes a
\* chart, although MCP would let the portal's own identity do so
\* (domain.py, _require_editor).
RestrictedChangesNothing ==
    [][\A t \in Threads :
          job[t].profile = "restricted_viewer" /\ pc'[t] # pc[t] => charts' = charts]_vars
===============================================================================
