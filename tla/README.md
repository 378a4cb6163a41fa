# Verification of the repair portal

The repository is a portal that watches a Superset deployment, turns a failing
user action into an incident, opens one fork issue and one Devin session for
it, verifies the session's pull request independently, waits for a human to
merge it, verifies the merged commit again, and reports to Slack. This
directory holds TLA+ models of the whole of that path, from the user action
that fails to the verdict on the merged commit, the configurations that check
them with TLC, and proofs checked by TLAPS.

## The system

| Component | State it keeps | Operations | Talks to |
|---|---|---|---|
| Repair store and controller (`portal/controller.py`) | SQLite: `repairs`, `repair_intents`, `repair_slot`, `repair_run` | `consider`, `advance`, `dispatch`, `recover`, `poll`, `verify`, `feedback`, `check_merge`, `check_media`, `_stop` | GitHub, Devin, verifier, incidents |
| Repair worker (`portal/worker.py`) | none of its own | `tick`, `_publish_capture`, `_announce`, `catch_up`, `start`, `stop` | controller, notifier |
| Coordinator (`portal/coordinator.py`) | an flock on the data directory | `run`, `single_instance`, `build_worker`, `open_state` | one worker on the host |
| Portal application (`portal/app.py`, `security.py`, `config.py`) | none | routes, `ops_reset`; `observe_and_consider`; a worker of its own | event store, incidents, controller |
| Event store (`portal/events.py`) | the event log, its observer; the explorations | `emit`, `since`; `save_exploration`, `mark_discarded` | the observer |
| Incident store (`portal/incidents.py`) | incidents, their events and occurrences, errors, the drain's cursor | `observe`, `_ingest`, `_admission`, `drain` | event store, controller |
| Telemetry and monitor (`portal/telemetry.py`, `monitor.py`) | none | classify a console entry; record a finding | event store |
| Domain and upstream (`portal/domain.py`, `upstream.py`) | the explorations table | save, open, discard; ensure, read, sort and restore the chart | Superset: HTTP and MCP |
| Verifier (`portal/verification.py`, `measure.py`) | `verifications`; a report per attempt | `verify`, `grade`, `check_scope`, `provenance_problem` | GitHub, the runner |
| Runner (`portal/isolation.py`) | per commit a checkout, containers, volumes | `prepare`, `serve_portal`, `teardown` | git, Docker |
| Validator (`portal/validator.py`) | none | the cases S1, S2, N1, B1; `run` | Superset |
| Notifications (`portal/notify.py`, `slack_bot.py`) | `notifications`, `notification_uploads`, `notification_threads` | `publish`, `deliver_due`, `attach`, `reconcile` | Slack |
| Media (`portal/media.py`) | files on disk | `capture_of`, `capture_problem`, `download` | Devin attachments |
| Providers and transport (`portal/providers.py`, `transport.py`) | none | one HTTP call: answered, `Refused`, or `Ambiguous` | GitHub, Devin |
| Briefs, handoff, summary, visual, simulation, clients, scripts | none, or files they write once | text, pages, scripted providers | |

Everything the controller decides is a row of one database shared by the
portal's worker thread, the coordinator on the host and the portal's request
handlers. Nothing but SQLite's statements orders them: the coordinator's flock
keeps out a second coordinator, not the worker the portal starts. The event log
and the incident store are shared likewise by the portal, the monitor and the
coordinator. The verifier's stacks are no rows at all: they are named after a
commit, and only the flock keeps two attempts apart.

What is hard here: several workers on one queue; a row that is read, followed
by remote calls of minutes, and then written; a process that dies between two
writes, or between a write and the remote call it announces; calls whose
outcome is unknown and which may be served after they were given up; two
recordings that share one set of columns; a budget that must end every wait; a
branch that moves while it is verified; containers that outlive whoever started
them; one log folded by several processes; and records of links that somebody
else's request is changing. The hazards are listed line by line in
`PROJECT.json`.

What makes each part correct, in short: the store and dispatch never make a
second issue or session for one attempt, never have two repairs' sessions at
work (one that has reported no defect may still be open), and keep the queue
moving; the lifecycle accepts only a merge of what was verified, sends no
message twice, closes every promise it wrote down, gives the claim back only
when the session ended, and always ends; the incident store counts every
failed action once, loses none, and lets only proven ones start a repair; the
notifier posts every outcome at most once and forgets none; the verifier
passes only what its assertions show on exactly the commit named, and leaves
nothing running; the validator tells a product that keeps its contract from
any that does not, as long as it is answered; and the portal reports a defect
when an answer shows one. Several of these have exceptions in the code, which
are listed below and named by the properties.

## Modules

| Module | What it is |
|---|---|
| `SingleFlight` | The abstract promise: take the claim, file one issue, open one session, and give the claim back when it has ended or has reported that there is no defect. |
| `RepairDispatch` | From a queued proposal to one issue and one session: `consider`, `advance`, `dispatch`, `recover`, `_stop` over the store, run by several workers and request handlers. Implements `SingleFlight`. |
| `RepairLifecycle` | A dispatched repair until its claim is given back or a person is asked: `poll`, `verify`, `feedback`, `check_merge`, `check_media`, `recover`, and `tick` with the upload ledger. Implements `RecordingPromise`. |
| `RecordingPromise` | The abstract promise of `check_media`: two recordings owed one after the other, each asked for, captured, stored and delivered, or failed, once. |
| `NotifyLedger` | What the channel is told of one repair: `_announce`, `publish`, `deliver_due`, `catch_up` with the watermark, threads, and an operator's command beside the worker. Implements `Outbox`. |
| `Outbox` | The abstract promise of the ledger: an event is recorded once, what counts as sent was posted, and nothing is posted again or reopened without an excuse. |
| `FailureTally` | The abstract promise of counting: a failed action once, under its own incident. |
| `IncidentStore` | The event log and its fold: `emit`, the observer, `observe` and `_ingest`, admission and the rate limit, `drain`, and the portal's start. Implements `FailureTally`. |
| `Reports` | Pure functions: what a case records, what `validator.run` folds, what `verification.grade` makes of it. |
| `Acceptance` | The abstract promise of the verifier and the merge gate: a verdict is put on record, says what its commit does, and is the one thing that moves the repair on; only the verdict on what was merged accepts it. |
| `Verification` | One pull request through the verifier: the reads of GitHub, the stack, the measurement, the replay, the verdict, under coordinators and a lock. Uses `Reports`, implements `Acceptance`. |
| `Superset` | External: a product, described by how it answers, and what it does to explorations and charts. |
| `Validator` | The four cases as functions of a product, the recorder, and the verdict, also where a call is lost. Uses `Superset` and `Reports`. |
| `Portal` | The portal's own requests against a product: explorations and the demo chart, each upstream call and table access a step. Uses `Validator` as the reference for what is a defect. |
| `RepairDispatchProofs`, `RepairLifecycleProofs`, `RecordingPromiseProofs`, `NotifyLedgerProofs`, `IncidentStoreProofs`, `VerificationProofs`, `ValidatorProofs`, `PortalProofs` | The TLAPS proofs. |
| `MC...` | Instances for TLC; each `.cfg` is one run. |

**RepairDispatch.** `row`, `url` and `clock` are the columns `state`,
`issue_url` and `deadline_utc`; `slot` is the row of `repair_slot`, `intent`
that of `repair_intents`; `slotOld` and `old` say what is older than
`stale_after_minutes`. At the providers, `wire` holds creation requests that
were sent and not yet served, `made` counts the objects that carry the marker,
and `live` says whose session runs. A step is one committed statement or one
end of a remote call. `pc`, `at`, `kind`, `seen` and `todo` are a worker's
locals. A creation request may be answered, refused, or time out, and be
served after that; a lookup may miss an object that exists only where the
listing lags, so `Misses` has no guard on `made`, and a lookup or the read of
a session that is known may raise (`Raises`), which ends the tick with the row
as it is. `due` is the deadline `dispatch()` read at its start and writes back
at its end. A worker may die anywhere. What a dispatched repair does next is
cut down to what ends its claim. One of these is `_candidate()`, which gives
the claim back when the session's result is that there is no product defect,
whether the session has finished or waits for its user (`reported`,
`PollClassifies`); the claim is then free while that session is open, so
`SingleFlight` has a step `Settle` and lets the claim go after it.

**RepairLifecycle.** One coordinator ticks over the one repair that holds the
slot. `st`, `head`, `ups`, `mstate`, `mstage`, `mfile` and `mpolls` are the
columns `state`, `pr_head_sha`, `follow_ups`, `media_state`, `media_stage`,
`media_path` and `media_polls`; `msg` is the state of the message intents, one
per failed commit and one per recording; `upload` is `notification_uploads`.
Outside are the session (`agent`, `output`, `told`, `shot`), the pull request
(`pushed`, `pr`) and the `budget`. Remote reads belong to the step that acts on
them; every committed write and every remote call that changes something is a
step of its own, with a crash possible in between. `budget` keeps apart the
wall clock, which is always known, and the ACUs, which are known only where
the session was just read: `feedback()` goes by the number stored at the last
poll. `size` is the instance: how many commits, follow-ups and passes for a
recording there are, and whether the merge gate is on. It is a variable chosen
at the start, so that one run explores several.

The lifecycle assumes one coordinator; that a second worker on the same
database may interfere with it is the subject of `RepairDispatch`, which has
several. A session adds a commit to its branch or forces an earlier one back
(`AgentPushes`, `forced`). With a forced push the recorded candidate can be
merged without having been graded: `verify()` grades the head of its day, and
`_merge_problem()` compares the merged one with the head recorded before that.
`MergedWasVerified` exempts those commits, and only those; the verifier still
compares the merged tree with that commit's and replays the merge itself
(`Verification`). `PollRaises`, `VerifyRaises` and `MergeRaises` are the ticks
on which a read of the pull request is refused or not answered: none of the
three callers catches that, nothing is written, and in `_candidate()` and
`verify()` no budget is looked at before the next tick tries again.

**NotifyLedger.** `ledger` is the table `notifications` in the order of its
ids: an event id, `state` and `attempts` per row, and as history whether the
message may be in the channel. `thread` is `notification_threads`, `marked`
and `fresh` are the watermark and whether the repair's `updated_at` is not
before it, `wired` is `Notifier.enabled`. `repair` is cut down to what
`message_for` reads: the state, the commit, and a reason from a small set.
`Decisions` lists what a pass of the controller may commit in each state and
under which action; `said` is the decision this process has still to announce,
and `due` the rows its retry pass read, each with the number of tries it read.
An attempt is up to three writes after the post (`Answered`, `Adopt`, `Sent`),
and either process may die between any two. A message by hand has an id of its
own and meets the worker's only in the retry pass, which takes up every
pending row. Slack posts nothing it answers with a rejection, and a process
killed while it posts may have posted. `owed` says that the state the repair
is in is to be in the ledger: `_announce` swallows what the store, the
incident or `publish` raises, and `reconcile` what it raises over one repair,
and either leaves an outcome without a row until the next start
(`AnnounceRaises`, `RecoverRaises`). An exception of `catch_up` itself ahead
of the rows, on the very first start, is left out, as are messages without a
repair, the webhook's variant of an attempt (the same outcomes, no thread) and
the refusal of simulated repairs are left out. The coordinator calls
`catch_up` itself and holds the flock, so there is one worker; the portal's
own worker would be a second, with the same ids.

**IncidentStore.** `log` is the `events` table with the hour each row was
written; `folded`, `occurrences`, `incidents` and `noted` are
`incident_events`, `incident_occurrences`, `incidents` (admission and count)
and `incident_processing_errors`; `cursor` is `ingest_cursor`; `proposed` is
what `Controller.consider` has a repair of. An event is cut down to what its
reader tells apart: the outcome, the assertion or class, the kind of
environment, whether its checkout matched the code, whether the fixture did,
the scenario, the actor, the trace. Families and assertions are those of the
source under short names. A request thread commits, folds, considers and
answers; the monitor commits and has no observer; the portal and the
coordinator drain what lies behind the cursor when they start. `last` is the
end of the rows a drain has read, since rows committed later are not in its
hands. The transaction of `_ingest` is one step, and the rate is read in an
earlier one. Two ways of failing are kept apart: the store refuses a write and
the exception is recorded, or it refuses that record too, which ends a process
that is starting and fails a request.

**Reports and Verification.** `job` is what an attempt holds in its hands:
the commit it read, what was measured, the report, the verdict, whether it
built an environment and whether it keeps it. `host` is what a commit's
Compose project consists of: the checkout, containers, volumes (`fresh`, or
`inherited` from an attempt that never took them down) and the retained
portal. A commit is a tree of files and how it came about: pushed, made by a
merge or squash, or the last of several a rebase replayed. `Diff` gives each
tree the commits that made it and their paths, so that the scope rules work on
paths and `compare_files` sees only the last commit of a rebase. The pull
request is pushed to, also with an older commit, retargeted, closed, or merged
with any content between any two calls. `Flawed` and `Damaged` are the ways a
stack and a report may be wrong, `Symptoms` the sets of checks a tree that does
not repair the failure may fail. `Misread` is a replay some of whose answers
were error statuses or lost page loads which the validator graded all the same
(`ErrorFails`, `ErrorHolds` in `Reports`): it may fail a tree that works, and in
a browser pass one that does not. `orphaned` records the stacks an attempt lost
hold of, `misread` the commits so graded, and `been` how often the branch stood
at a commit: the exemptions the properties need, below. A read of GitHub is
answered, answered with an error (`Unread`, a recorded block), or not answered
(`Unanswered`): that leaves `verify` with nothing recorded, as often as it
happens. The controller is cut down to what hands work to
the verifier and what it makes of the verdict.

**Superset, Validator, Portal.** A product is a record of answers: whether a
discarded tab's key is reused, whether a row limit that is not sent survives,
and so on, the two known defects being one value each. The validator's cases
are functions of it, and `Cuts`, `Unguarded` and `Showings` are the ways a
replay goes without an answer: a call is lost and leaves the case; an error
status is compared as if it were an answer; one of B1's three pages is not
shown, which leaves nothing but perhaps what it logged. The portal's threads
run one request each, under either profile, over a table of explorations and
the product's own state, with calls lost, unanswered or answered with an error
at most `MaxMishaps` times in all. `alarms` records what a failed assertion
was about that was made of an answer, `unfounded` that of one made of a
refusal or an error status; `muddled` records the links and charts that two
requests had in hand at once or whose request broke off; `gone` the links
whose discard the table records; `newer` the order of the table's rows, of
which a save sees the `MaxListed` newest, and `overlooked` the discarded links
that came back with their row out of sight. The restricted role is answered
about a link what it is answered about saving one. A 201 without a key, with
which `save_exploration` goes on, is left out. What the portal's assertions
ought to say is not written down a second time: the reference is `Verdict`,
what the validator says of the same product.

## Runs

| Run | Bounds | What it shows |
|---|---|---|
| `dispatch` | 2 repairs, 2 workers (symmetric), 1 request | `AtMostOnce`, `RunningHoldsClaim`; the steps are steps of `SingleFlight` |
| `dispatch_live` | 2 repairs, the older without its incident, 2 workers | `QueueMoves` while two workers race |
| `lifecycle` | commits, follow-ups, media passes, gate: (2, 2, 0, on), (1, 0, 3, on), (1, 1, 2, off) | `MergedWasVerified`, `EachToldOnce`, `HeldWhileOwed`, `DeliveredIsSlacksWord`, `ReleasedWhenEnded` |
| `lifecycle_live` | (1, 2, 0, on), (1, 0, 2, on) | `ComesToRest`; the steps are steps of `RecordingPromise` (`PromiseKept`) |
| `notify` | 1 commit, 2 attempts, 1 message by hand, 2 crashes or commands, 1 outcome | `OutcomeRecorded`, `DuplicatesExplained`, `SentThreaded`, `OutboxKept` (implements `Outbox`), `AllSettle` |
| `incidents` | 2 request threads, 2 rows, a drain of 1 row or 2, rate limit 1, rows up to two hours apart, 1 crash, 1 failing write | `NothingLostSilently`, `ProposedIsProven`, `RateHeld`, `CountsFailedActions` (implements `FailureTally`), `EveryFailureArrives`, `EligibleIsProposed` |
| `verification` | 2 coordinators, 3 trees, 2 moves of the pull request, 1 crash, 1 failure | `VerdictIsEarned`, `PassedIsInScope`, `NothingLeftRunning`, `LiveStackIsWhole`, `AcceptanceKept` (implements `Acceptance`), `CandidateIsJudged` |
| `portal` | 2 threads, 2 tabs, 4 requests, 1 row listed, 1 mishap; 3 products, and several hundred for the validator | `VerdictIsExact`, `AlarmIsTrue`, `RecordsAgree`, `DefectIsReported`, `OneChart`, `RestrictedChangesNothing` |
| `caps_never_raised`, `nothing_runs_unclaimed`, `at_most_twice`, `symptom_closes_nothing_else` | the smallest that show it | a sentence of the sources the code does not keep (below) |

Each module's `TypeOK` is checked in its run, too.

The bounds. Two workers are enough for every race on the slot and the intents,
since each is decided by one row; two repairs for one that waits behind the
other, be that one running, parked or unreadable. Two commits are enough for a
push, a push back and one more, between any two reads; with the real limit of
two follow-ups each of them is answered, and the sizes whose limit is none or
one go past it. For liveness one commit is enough: what might go on for ever
is a round of `poll`, `verify` and `feedback` on one. Recordings need a pass
to ask, one to find and offer, and one to offer again, hence three passes for
the code's 60. The recordings and the follow-ups are checked apart: with no
media passes every recording fails at its first look, and with no follow-ups
the first failure ends the repair, so that either size keeps the whole of the
other half's exits. The lifecycle's `mpolls` stops one above its limit, where
the code always closes the promise; nothing else is counted. In `notify` one
outcome is enough because the first state may be one that was announced before
or that predates the ledger; two attempts stand for the code's four, one that
is retried and one that is the last; and two troubles let a command meet a
crash, or one crash another.

In `incidents` two rows are two events of one action, or of two, or a finding
and a failure, or two findings for a limit of one; whatever a drain may do
wrong it does between one row and the next. Two processes drain and two
requests observe, so three may hold one row. The portal drains in dry run and
the coordinator with findings enabled, so that who comes first matters. A
drain reads at most one row or two, in the code 1000: one is fewer than the
log may hold, so that drains are cut short, and two are as many. In
`verification` the three trees are one that repairs the failure, in two
commits of which the last is its tests, one that repairs nothing, and one that
repairs it and reaches beyond its scope; two moves are a push and a push back,
or a push and a merge. `MAX_CHANGED_FILES` is 3 for the code's 40. In `portal`
a save looks at one row where the code looks at 50, so that a second row is
one too many; four requests are a save, its discard, the save that follows and
one beside them; a behaviour visits either the explorations or the chart
(`page`), which share nothing but the reset. The requests meet a sound product
and two defective ones; the validator is tried on those and on all that differ
from a sound one within one family's answers and those to the restricted role.

Deadlock checking is on for `notify` only, whose worker never stops. Elsewhere
the system may stop: with an empty queue, a parked repair, a claim given back,
an accepted merge; and in `incidents` and `portal` because customers do only
so much.

Fairness. `RepairWorker._run` and the coordinator's loop catch every exception
and tick for ever, so a worker's next step is weakly fair; a worker is killed
only finitely often; and time passes (claims and intents age, deadlines pass).
One thing is assumed of GitHub and Devin: that a question asked again and
again is answered at last, whatever the answer (strong fairness of `Answers`
in `RepairDispatch`, of `Answered` in `RepairLifecycle`). The code needs it:
`dispatch()` catches nothing that the lookup of an object or the read of a
known session raises, and `_candidate()` (`controller.py:976`) and `verify()`
(1072) let `Ambiguous` and `Refused` out of the read of a pull request, in
each case without a count and before any budget is looked at. If such a read
fails for ever, a proposal keeps the slot, or a candidate stays one, for ever.
Nothing is assumed of what is answered, nor of creations, messages and
terminations, nor of Slack, the session, people, or the request handlers. In
`NotifyLedger` the worker goes on likewise, and a row that was turned away is
past its wait at some retry pass if there are always more of them (strong
fairness of `Retry(TRUE)`): `BACKOFF_SECONDS` ends at ten minutes. The
operator's process owes nothing. `deliver_due` runs only at the end of a pass
that did not raise, so `AllSettle` also assumes that not every pass does:
`PassRaises` may happen, but is no step the worker's fairness counts. In
`IncidentStore` the portal's process goes on (`PortalRuns`): the compose files
restart it (`restart: unless-stopped`), and one of its threads that can run
does. Nothing is assumed of the coordinator, which an operator starts, nor of
customers and the monitor. In `Verification` some coordinator goes on where
one can, which includes that a dead one is started again by somebody; and
`CandidateIsJudged` says of itself that the ticks stop raising, for the reason
just given (`Unanswered`, `verification.py:782`). `Portal` has no liveness:
its requests run to an end or are cut short.

The exemptions, each a real state of the code. Those marked with an asterisk
are at odds with what the sources say of themselves, as told under
Observations. `RunningHoldsClaim` and `SingleFlight` exempt sessions that
reported no product defect (*); `MergedWasVerified` commits the branch was
forced back to. `OutcomeRecorded` exempts an outcome over whose announcement
or recovery something was raised. `VerdictIsEarned`, `NothingLeftRunning` and
`Acceptance` exempt commits of which an attempt lost hold (a crash in
mid-attempt, a teardown Docker refused, an exception `verify` does not catch):
their volumes are found again by the next attempt. `VerdictIsEarned` and
`Acceptance` exempt besides, as failures, commits of which a replay was graded
on an error status or a lost page load, and, as passes, those of a browser
family (*). `PassedIsInScope` exempts a commit the branch left and came back
to: the head is compared before and after, not in between. `AlarmIsTrue`,
`RecordsAgree`, `DefectIsReported` and `OneChart` exempt what two requests had
in hand at once or a request that broke off was about; `AlarmIsTrue` besides
alarms made of a refusal or an error status (*), and `DefectIsReported` links
whose row was not among the newest a save looks at. `VerdictIsExact` exempts
nothing: it states what becomes of a replay with an error status or a page
that is not shown (*). `EveryFailureArrives` and `EligibleIsProposed` exempt
behaviours in which the databases refused a write, and rows beyond the limit
of the last start's drain (*), `RateHeld` those in which such a refusal made a
drain skip a row. `ComesToRest` exempts the owed recording of a repair that
`recover()` parked.

## Where the code and its documentation part

Each of these runs fails, as it should; `PROJECT.json` quotes the lines.

- `CapsNeverRaised`: a second `consider` of one failure, between whose read and
  `upsert` the first was dispatched, puts the row back to `proposed` with an
  empty deadline.
- `NothingRunsUnclaimed`: a session that waits for its user, reporting no
  product defect with a pull request, loses its claim without being ended.
- `AtMostTwice`: a crash between sending a follow-up and counting it.
- `SymptomClosesNothingElse`: the symptom's capture is found and the merge is
  accepted in one tick; offering the capture afterwards closes the merged
  recording, ends the session, and gives the claim back.

## Observations

The models also contain these; no run is spent on them.

Dispatch and lifecycle:

- Two rows can say `dispatched` at once: `dispatch()` writes that state from
  what it read before two remote calls, and the claim may have moved on
  meanwhile. Issue, session and running work are still single: the intents see
  to that, as `AtMostOnce` and `RunningHoldsClaim` show.
- The claim of a session that waits for its user is given back if it reported no
  product defect (`NothingRunsUnclaimed`, above); the next repair's session may
  then be opened beside it. `SingleFlight` says so.
- After a forced push the repair may be merged at a head that was recorded and
  never graded (`forced`).
- A read that raises in every tick stops the queue or the repair without an end
  (Fairness, above): no exception of the providers is counted.
- `claim_slot` is true for everybody whose repair holds the slot, so two
  workers that read one queue both go on to dispatch its first repair.
- After a push between candidate and verification the repair awaits the merge
  of the commit recorded as candidate, though another one was graded. A merge
  of the graded one is then refused (`MergedWasVerified`; in `Verification`,
  `MergeProblem`).
- `recover()` parks a verified repair over an old unsettled request for its
  symptom's recording. The merged recording it owes is then carried no further,
  which `ComesToRest` has to exempt.

Notifications:

- A repair found to be no product defect becomes `terminal` under the decision
  `classified`, which is not among `NOTIFIED_ACTIONS`: no message before the
  next restart, whose `catch_up` then says it. `recover()`'s park is lost the
  same way when the rest of its pass raises. `OutcomeRecorded` leaves these two
  out until the restart, and only until then.
- `_announce` and `reconcile` swallow what is raised over a repair, although the
  repair has moved on: its outcome has no row until the next start recovers it.
- One outcome can have two rows: `blocked` and `merge_failed` leave the repair
  in `needs_attention`, and the next pass over the held claim says `parked`
  under an `attention:` id; a recovered message may carry another id than the
  one the live pass would have used.
- A retry pass attempts rows as it read them. If an operator's process has
  settled one meanwhile, it is posted again, and a late refusal turns a row
  that is `unknown` back to `pending`. `DuplicatesExplained` counts these as
  attempts unaware of another.
- A `followed_up` that a crash swallows is not recovered: the row says
  `dispatched`, which was announced before.

Incidents:

- Findings of the monitor have no observer and are folded only when the portal
  or the coordinator starts. Which of the two comes first decides the
  admission, where their settings differ, and it is kept.
- A start folds at most `limit` rows (1000), and only once. What a longer
  backlog has behind them waits for another start, which nothing brings about:
  `EveryFailureArrives` exempts the rows the portal's last drain left beyond
  its limit, although `app.py:58` says that every start folds anything the
  callback never saw. The coordinator may fold such a row, but it proposes
  nothing; its incident then has no repair until the portal starts again or
  meets the failure once more, and `EligibleIsProposed` exempts it too. The
  history variable `beyond` says which rows these are.
- A derived event that is folded before its parent incident is dropped into the
  errors and, its row being behind the cursor, not looked at again.
- A request whose `consider` fails is answered with an error; its incident is
  proposed by the next start or by the next event of the incident.

Verification:

- A rebase that lands several commits is compared only against the last one's
  parent: its list of files is shorter than what landed. What was previewed is
  in scope all the same, and the trees are compared, so `PassedIsInScope`
  holds; a list without product files blocks the verdict (`Files`).
- `retain_merged` sets `keep` before the record of the retained environment is
  written: if that fails, the attempt is blocked and its stack stays up
  (`RetainUnwritten`).
- A command that runs out of its time raises an exception `verify` does not
  catch and leaves the stack and its volumes. The next attempt's database is
  then not fresh.
- `_discard` takes a project down by its Compose file only; `teardown` falls
  back on the label.
- A read of GitHub that is refused or not answered leaves `verify` by an
  exception nobody catches. The candidate is tried again at each tick, with
  nothing recorded, counted or charged to a budget (`Unanswered`).
- An error status or a lost page load is graded as the product's answer in some
  places (below), so that a commit that works may fail, and is fed back as a
  failure, against `README.md:447`. A failure therefore does not show that the
  commit does not work (`misread`).

Portal and validator:

- The assertions on opening and on reading back a link are made of any status:
  `open_exploration` and `discard_exploration` have no branch for 401, 403 or
  5xx (`FetchFails`, `VerifyFails`). The restricted profile's 403 on opening a
  saved link, or a server error, is an `assertion_failed` about a product in
  order, where `domain.py:3-6` and `upstream.py:24-30` promise a denial or
  `blocked`.
- A save's reuse check reads the 50 newest rows of the table. A discarded key
  that comes back with its row behind them is not noticed, and the row loses
  its discard (`overlooked`).
- A reset forgets the records while the links stay alive; a later reuse of
  such a key is not noticed. Two saves in one tab around a discard may set the
  discarded mark back.
- `find_chart` takes a list that was answered with a server error for an empty
  one, and a second chart is generated.
- The MCP server reports a failed update in its answer, which is not looked
  at: the read-back then asserts on a chart that was not updated
  (`UpdateFails`).
- The validator does not block whatever it could not ask, although
  `validator.py:18-20` and `README.md:447` say so. Of B1's three page loads
  only the first is required: if the second is lost, its checks pass unseen,
  also for a product that formats the first load only, the one that load is
  there for; if the control page is lost, a product in order fails
  (`runPages`). N1's chart data and four reads of S2 are compared without a
  look at their status, so that a server error fails a product in order
  (`runErred`). A call that raises does block (`runCutShort`).

## Proofs

`RepairDispatchProofs` proves of `Spec`, for any sets of repairs, workers and
requests:

- `TypeCorrect`: `[]TypeOK`.
- `CreatedAtMostOnce`: `[]AtMostOnce`.
- `ClaimCoversRunning`: `[]RunningHoldsClaim`.
- `Implements`: `Spec => SingleFlightKept`, the refinement of `SingleFlight`.

They rest on the module's assumptions only: repair ids are numbers, `None` is
not one of them, and the lost repairs are repairs.

The invariant. `AtMostOnce` is not inductive: whether a second object can be
made depends on who is allowed to ask. `IInv` adds, per repair and kind, that
an intent is a licence to create which one worker uses once: while it is
absent nothing was made or sent, and while a worker holds it nothing is
(`Licensed`); that a request on the wire is the first of its kind and belongs
to the repair in the slot (`Sent`); and that rows say `dispatched` or carry a
url only for objects that exist (`Recorded`). Per worker it adds which repairs
may be where (`PlacedAt`: a lost one is never dispatched), what a location
says about the provider's objects (`KnownAt`: for one, that whoever reaches
`release` knows that the session no longer runs or has reported that there is
no defect), and that a repair being dispatched keeps the slot until its
session exists (`HeldAt`). The last carries the argument for
`RunningHoldsClaim`: the slot can only be given back by a repair that has had
its session, or that is lost, and a lost one never had any. What a session
reported is never taken back, so a repair that gave its slot back stays
exempt. TLC checked `IInv` on the instances first. The proof has one lemma for
the steps that create nothing (`QuietStep`), one that a step moves only its
own worker (`FrameStep`), and one each for `Intend`, `Create`, `TurnedDown`
and `Serve`, where the argument is.

`NotifyLedgerProofs` proves of `Spec`, for any bounds, any number of outcomes,
crashes and commands, and any messages by hand:

- `TypeCorrect`: `[]TypeOK`.
- `OutcomesRecorded`: `[]OutcomeRecorded`.
- `SentHaveThread`: `[]SentThreaded`.
- `AllExplained`: `[]DuplicatesExplained`.
- `OutboxImplemented`: `Spec => OutboxKept`, the refinement of `Outbox`.

They rest on the bounds being numbers. The invariant has four parts beyond the
types. `Recording`: what is owed a row (`owed`, which a swallowed exception
cancels unless the row is there) belongs to a repair the ledger answers
for (the watermark is set, and the row is not older), and past the recovery it
has the row, or the worker is about to announce a decision that tells of it. A
crash may drop that decision, but only into `recover`, where `StateTold` finds
a message for every state and the watermark, never moved, lets it pass.
`DecisionTold` is the other half: each decision that changes the repair is
announced by a message that tells of the new state. `Threading`: whoever is
about to settle a row as sent has seen the thread. Rows are only added and keep
their ids (`Grown`), so what was told stays told. `Explained` is a balance: the
excuses that are left are at least the pending messages that may be in the
channel with nobody at them (`Orphans`), and what the attempts in progress may
post a second time or reopen (`Owes`, and `Race` for two that are about to post
the same row). A crash and an unaware attempt add an excuse for the debt they
leave, a second post spends one, and an attempt that writes its outcome leaves
no orphan. `Orderly` says that whoever got an answer posted the message and so
was what counts as sent (`Aired`), that a row that is being disabled is nobody
else's (`Apart`), and that an event has one row (`Unique`).

The refinement maps the ids, the states and the posted marks of the rows to
`event`, `standing` and `posted`. `Outbox` asks for an excuse whenever a message
that was posted or settled is posted again, taken for one still to be sent, or
counted as failed. `DuplicatesExplained` alone does not give that: an attempt
with an old row in its hands may set a row that was given up, and never posted,
back to pending. For this a row that was settled counts in `Owes` like one that
was posted (`Spoken`), so an attempt about to post it has its excuse
(`SpokenExcused`); what an attempt writes after the post needs none, being
`sent` on a row that was posted.

`IncidentStoreProofs` proves of `Spec`, for any events, console entries,
settings, request threads and bounds:

- `TypeCorrect`: `[]TypeOK`.
- `NothingLost`: `[]NothingLostSilently`.
- `OnlyProvenProposed`: `[]ProposedIsProven`.
- `RateKept`: `[]RateHeld`.
- `Implements`: `Spec => CountsFailedActions`, the refinement of `FailureTally`.

They rest on the inputs being events that say nothing of the browser, the
entries being findings, the parent being an incident or none, the settings being
the three the code knows, and the bounds being numbers. `NothingLostSilently` is
not inductive: it speaks of the rows behind the cursor, and a drain moves the
cursor to the row in its hands. `IInv` adds, per process, that the row in hand
exists and what was found out about it (`RowInHand`), and that everything before
the row a drain works on is accounted for, that row too once the drain is about
to save its position (`DrainedSoFar`); so it does not matter which of two drains
moves the cursor. `AdmittedIsProven` says of admission what `ProposedIsProven`
says of proposals: an incident is eligible only where a stored row proves it,
and rows are only added (`Grows`). The proof has one lemma for a step that folds
a row (`FoldKeepsInv`), one for processes that let go of theirs
(`LettingGoKeepsInv`), one for a committed row and one for a drain that takes up
a row. The refinement goes one step at a time (`Tallies`): a commit is a `Fail`
or nothing, a transaction is a `Count` or nothing, and what it counts has
happened because its row is in the log.

`RateKept` has an invariant of its own, `RateInv`, since two drains that have
both read a rate below the limit might both store. It says why they do not do so
of two findings: while the finding in a drain's hands is not stored, the hour
has still room for it, and where both drains take findings, every earlier one
of that hour is in the store already (`Rated`, `EarlierStored`). Two drains
about to store in one hour are therefore about to store the same row, which
counts once; and a drain that takes no findings stores none. That a row behind
the cursor is stored and not merely noted needs what a note says of its row to
be so, and to stay so (`NotesTrue`): a row noted as over the limit was over it,
and the rate never falls. The rows of an hour are counted with the library's
theorems on cardinality.

`RepairLifecycleProofs` proves of `Spec`, for any number of commits, follow-ups
and polls, with and without the merge gate:

- `TypeCorrect`: `[]TypeOK`.
- `MergesVerified`: `[]MergedWasVerified`.
- `ToldOnce`: `[]EachToldOnce`.
- `ClaimHeld`: `[]HeldWhileOwed`.
- `SlacksWord`: `[]DeliveredIsSlacksWord`.
- `ReleasedAtEnd`: `[]ReleasedWhenEnded`.

They rest on `SizesAreBounds` only. `IInv` has a part for each: what has not
been intended has not been sent, and what is about to be sent is intended and
unsent (`Sending`, with `Marked`: there is a message where one is used, and a
follow-up is within the limit); the claim is held throughout the work, and the
end is only reached with the recording closed (`Claiming`); whoever is at the
release, or has given the claim back, has seen the session end or the repair
classified (`Ending`); `media_path` is footage of the stage the row names, an
upload in progress is reserved, and a verdict that it arrived stands on the
ledger's word (`Delivering`); and what awaits its merge names a commit that was
graded, or that the branch has left, which is why a pull request merged at
exactly that commit was merged at a graded one, or at one the branch was forced
back to (`Merging`). The next-state
relation is split by what its steps are about (`Recovering`, `Grading`,
`Following`, `Accepting`, `Recording`, `Offering`), and each part has a lemma
with one leaf per group.

`RecordingPromiseProofs` proves of the same `Spec`:

- `PromiseImplemented`: `Spec => PromiseKept`, the refinement of
  `RecordingPromise`.

`asked` and `stored` are mapped to what has reached the session and Slack, so a
message that is lost leaves a recording that was never asked for and is waited
for all the same, which is why `Await` does not require the request. The
invariant is added to `IInv`: which stage is owed follows from what has become
of the repair (`Staging`), so that the merge is accepted once; the session
records only what it was asked for (`Filming`); where the tick is says how far
the row it read has got (`Owing`); and a capture in the tick's hands is of the
stage the row names, unless the merge was accepted meanwhile, which resets the
row and the file together (`Offered`). `StepsKeepPromise` maps each step to one
of the promise's or to a stutter.

`VerificationProofs` proves of `Spec`, for any trees and commits, coordinators
and bounds:

- `TypeCorrect`: `[]TypeOK`.
- `LiveIsWhole`: `[]LiveStackIsWhole`.
- `NothingRuns`: `[]NothingLeftRunning`.
- `VerdictsEarned`: `[]VerdictIsEarned`.
- `AcceptedInScope`: `[]PassedIsInScope`.
- `AcceptanceImplemented`: `Spec => AcceptanceKept`, the refinement of
  `Acceptance`.
- `AcceptedWorks`: an accepted repair was merged as a commit that does what it
  should, unless an attempt on that commit was lost hold of or, in a browser,
  its replay was graded on a page that did not come up.

They rest on the bounds being numbers, on `"nobody"` being no coordinator, and
on every symptom showing in a required check. Every report a replay can hand
back, whole or damaged, is graded as the product behaved or as blocked: that
is a lemma (`Grades`), proved for each of the three families from the few
checks its report consists of. Of a misread one `Garbles` says what is left of
that: a failure may be none, and a pass is one unless a check of the family
holds unseen. `Alone` says that who is not off holds the lock, so in every
step the other coordinators are off with nothing in their hands (`OthersOff`),
and a step is shown to keep what holds of one attempt (`Sane`) and of what all
share (`OneWorks`). `Sane` relates the attempt to its stack (`Living`), to the
data it was seeded with (`Earning`), to what becomes of the stack when it is
let go (`Letting`, `Keeping`) and to the branch (`Scoping`, `Merging`).
`Stacks` is the strengthening for `NothingLeftRunning`: any *data* left of a
commit, not only a running container, has an attempt, was retained for an
accepted merge or was lost hold of. It is needed for `VerdictIsEarned` too,
since a second attempt on a commit is only earned on data the first one did
not leave. `Scoping` says that the files of the listed commit are in scope if
the head is still that commit and the branch was never elsewhere; `been`
counts how often the branch came to a commit, so a branch that leaves and
comes back falls under the exception of the property.

The refinement maps `said`, the verdict that is on record and not yet acted on,
to the row of whoever is between the write to the table and the write to the
repair (`Said`). `Acceptance` lets a verdict be reached only while there is no
such other, and lets the repair move on only by it; that there is at most one
is `OneSpeaks`, from the lock. A step that decides nothing keeps `Said`, since
the tearing down between the two writes leaves the row as it is (`Alike`,
`DoubtPromises`); a death empties it (`CrashPromises`), and the verdict stays on
record without effect. `RecordPromises` takes the truth of a verdict from
`Earning`, and `TellPromises` that it is on the commit that was merged from
`Merging`. `AcceptedWorks` is then read off the abstract steps
(`PromiseBelieved`) rather than off those of `Verification`.

`PortalProofs` proves of `Spec`, for any products, threads, tabs and upstream
failures, and as many requests as `States` has names for:

- `TypeCorrect`: `[]TypeOK`.
- `MadeOnce`: `[]OneChart`.
- `TableTells`: `[]RecordsAgree`.
- `Reported`: `[]DefectIsReported`.
- `NoFalseAlarm`: `[]AlarmIsTrue`.
- `VerdictsTell`: `[]VerdictIsExact`.
- `RestrictedHarmless`: `Spec => RestrictedChangesNothing`.

They rest on `ProductsAreProducts` and `BoundsAreNaturals`. The invariant says
of each request what it has in hand where it is (`PlacedAt`), and that two
requests about one thing have muddled it (`Sharing`), so that a request with
an unmuddled link has it alone (`Alone`). `Truth`, on a product that renews
its keys and deletes what it is asked to, says of each unmuddled link how the
record and the link stand to each other: they agree while nobody has it
(`Agrees`), and otherwise differ in exactly the way the step of the request
that has it allows (`Stage`). The crossing point is `PostStep`: the key a save
goes on with is alive (`Living`) and was nobody's, so its record, which
agrees, is not a discarded one. `Reporting` is the same for any product: a
recorded discard whose link lives is in `alarms` or `unfounded`, or in the
hands of the request whose next step asserts it, unless its row was
`overlooked`. From then on nothing is said of that link, so nothing has to be
known about the order of the rows. That the keys stay within the table needs a
count (`Counting`): each saved key was a request's, and those that are still
to save are among the rest. `Charting` says that whoever is about to make the
demo chart makes the first one, unless the chart is muddled.

`NoFalseAlarm` has a second invariant on top of the first, `Watching`. An
alarm is an assertion about what a request saw earlier and what it sees now,
so the invariant says that what it saw is still so unless the item is muddled:
the record it holds is the one in the table, and the chart is as it was before
the change, or, where the product takes changes as it should, as the change
has made it (`Seeing`); and that a request that changes a chart says how to
sort it (`Asking`), since the assertion compares the sort with what was asked.
A product that does as it should then has alarms only about muddled items
(`Alarmed`); any other breaks the contract the alarm is about, and
`FamilySays` gives the verdict on it.

`ValidatorProofs` has the lemmas about the validator that the last two, and
`TableTells`, are read off, for every product rather than the hundreds a run
goes through. The fold of `run` and the rebuilt verdict of `grade` both come
to the worst verdict of the cases, if each case recorded its required checks
once (`SettledIsWorst`). What a case says is worked through by hand, call by
call, as far as it depends on the product (`N1Says`, `S1Says`, `B1Says`,
`S2Says`; for S2 with what a save and a discard do to the table of keys,
`SaveDoes` and `DeleteDoes`). A replay that is cut short is blocked, wherever
that happens (`CutShort`); one with an error status at a check that does not
look at it fails, unless a precondition blocks it (`ErredVerdict`); and B1
without some of its pages says of a product what it says of one that is given
the benefit of the doubt about them (`PresumedTerms`, `PagesMissing`).

Model-checked only: the liveness properties (`QueueMoves`, `ComesToRest`,
`AllSettle`, `EveryFailureArrives`, `EligibleIsProposed`, `CandidateIsJudged`),
since fairness and `ENABLED` are beyond the prover. Every invariant and every
other action or refinement property of a passing run is a theorem.

## Not modelled

Text, pages and cards; HTTP clients and parsing; the demo gate, cookies and
configuration; how images are built and ports are chosen (a free port is taken
before it is bound); the browser scan behind a finding, and the normalising of
console text; simulations. Cards that are edited later (`amend`, `recaption`,
`restyle`) are idempotent rewrites of messages already sent. `capture_problem`
and the download limits of `portal/media.py` are checks of one file's bytes.
Subprocesses that outlive a coordinator and the
`baseline` command, which takes no lock, would be further actors of
`Verification`.

## What is left

The ledger with two workers on one database: the portal's own worker beside the
coordinator's, which publish the same ids.
