----------------------------- MODULE Verification -----------------------------
(***************************************************************************)
(* One repair's pull request from candidate to accepted merge, as the      *)
(* verifier (portal/verification.py) grades it on stacks that the runner   *)
(* (portal/isolation.py) builds, under coordinators of which a lock lets   *)
(* one work (coordinator.single_instance).  A step is one GitHub call, one *)
(* operation on the host or one write; the branch moves, a person merges,  *)
(* and a coordinator dies between any two.                                 *)
(***************************************************************************)
EXTENDS Integers, FiniteSets, Sequences, SequencesExt, Reports

CONSTANTS
    Coordinators,
    Trees,         \* what a commit's files can be
    Diff,          \* per tree: the commits that made it from its base, each the
                   \* set of paths it changes
    Family,        \* the failure the pull request is to repair
    Works,         \* the trees that repair it
    Symptoms,      \* of a tree that does not: sets of checks, one of which fails
    RetainMerged,  \* Verifier.retain_merged
    MaxMoves,      \* bound: how often the pull request changes
    MaxCrashes,    \* bound: how often a coordinator dies
    MaxErrors      \* bound: how many calls and commands fail

\* A path is the sequence of its directory names, a prefix likewise.
SCOPE_BY_FAMILY ==
    [discarded_key |-> {<<"superset", "explore">>, <<"superset", "key_value">>, <<"tests">>},
     row_limit     |-> {<<"superset", "charts">>, <<"superset", "mcp_service">>, <<"tests">>},
     number_format |-> {<<"superset-frontend", "number-format", "src">>,
                        <<"superset-frontend", "number-format", "test">>}]

FORBIDDEN_PREFIXES ==
    {<<".github">>, <<"superset", "config.py">>, <<"superset", "security">>,
     <<"superset", "migrations">>, <<"superset-frontend">>, <<"docker">>, <<"scripts">>}

PRODUCT_PREFIX_BY_FAMILY ==
    [discarded_key |-> <<"superset">>, row_limit |-> <<"superset">>,
     number_format |-> <<"superset-frontend", "number-format", "src">>]

MAX_CHANGED_FILES == 3   \* bound: 40 in the code

\* A candidate of these is replayed in a browser, on a bundle built from it.
ASSET_BUILT_FAMILIES == {"number_format"}

Under(path, prefixes) == \E dir \in prefixes : IsPrefix(dir, path)

\* A ban that one of the family's own directories lies in is dropped.
ForbiddenFor(family) ==
    {dir \in FORBIDDEN_PREFIXES : ~\E own \in SCOPE_BY_FAMILY[family] : IsPrefix(dir, own)}

check_scope(paths, family) ==
    /\ paths # {}
    /\ Cardinality(paths) <= MAX_CHANGED_FILES
    /\ family \in DOMAIN SCOPE_BY_FAMILY
    /\ \A path \in paths : /\ ~Under(path, ForbiddenFor(family))
                           /\ Under(path, SCOPE_BY_FAMILY[family])
    /\ \E path \in paths : IsPrefix(PRODUCT_PREFIX_BY_FAMILY[family], path)

(***************************************************************************)
(* Git and GitHub.                                                         *)
(***************************************************************************)
\* A commit of the branch, or the one a merge made: of everything at once (a
\* merge commit or a squash), or the last of the commits it replayed.
Commit == [tree : Trees, made : {"pushed", "merged", "rebased"}]
NoCommit == [tree |-> "none", made |-> "none"]

Pushed == {c \in Commit : c.made = "pushed"}
Landed == Commit \ Pushed

AllOf(tree) == UNION ToSet(Diff[tree])

\* compare_files(parents[0], sha): against the commit's first parent only.
compare_files(c) == IF c.made = "rebased" THEN Last(Diff[c.tree]) ELSE AllOf(c.tree)

(***************************************************************************)
(* The host: per commit one Compose project, named after it.               *)
(***************************************************************************)
\* What one service is measured to be: whether it runs, which project's
\* checkout it mounts, and what the source inside it hashes to.
Service == [running : BOOLEAN, mount : Commit, tree : Trees]

\* What measure() finds of a stack: its services, whether the checkout is
\* clean, whether the fixture could be read, and what the bundle was built from.
Measured == [web : Service, mcp : Service, clean : BOOLEAN, fixture : BOOLEAN,
             bundle : Trees \union {"none"}]

Unmeasured ==
    LET none == [running |-> FALSE, mount |-> NoCommit, tree |-> "none"]
    IN  [web |-> none, mcp |-> none, clean |-> FALSE, fixture |-> FALSE, bundle |-> "none"]

Sound(c) ==
    LET it == [running |-> TRUE, mount |-> c, tree |-> c.tree]
    IN  [web |-> it, mcp |-> it, clean |-> TRUE, fixture |-> TRUE,
         bundle |-> IF Family \in ASSET_BUILT_FAMILIES THEN c.tree ELSE "none"]

\* A stack with one thing wrong: a service is down, a mount did not apply, an
\* image holds other source, the tree was edited, the fixture is unreadable, the
\* bundle is another commit's.
Flawed(c) ==
    LET it == Sound(c).web
        wrong == {[it EXCEPT !.running = FALSE]}
                 \union {[it EXCEPT !.mount = other] : other \in Pushed \ {c}}
                 \union {[it EXCEPT !.tree = other] : other \in Trees \ {c.tree}}
    IN  {[Sound(c) EXCEPT !.web = s] : s \in wrong}
        \union {[Sound(c) EXCEPT !.mcp = s] : s \in wrong}
        \union {[Sound(c) EXCEPT !.clean = FALSE], [Sound(c) EXCEPT !.fixture = FALSE]}
        \union {[Sound(c) EXCEPT !.bundle = other] :
                   other \in IF Family \in ASSET_BUILT_FAMILIES THEN Trees \ {c.tree} ELSE {}}

ServiceProblem(s, c) == ~s.running \/ s.mount # c \/ s.tree # c.tree

\* Mutant of ProvenanceProblem: only the web service is looked at.
ProvenanceProblemOfWeb(m, c) ==
    \/ ~m.clean \/ ~m.fixture
    \/ ServiceProblem(m.web, c)
    \/ Family \in ASSET_BUILT_FAMILIES /\ m.bundle # c.tree

\* provenance_problem: why the measured stack cannot stand for the commit.
ProvenanceProblem(m, c) ==
    \/ ~m.clean \/ ~m.fixture
    \/ ServiceProblem(m.web, c)
    \/ ServiceProblem(m.mcp, c)
    \/ Family \in ASSET_BUILT_FAMILIES /\ m.bundle # c.tree

(***************************************************************************)
(* The reports a replay can hand back (validator.run).                     *)
(***************************************************************************)
cases == IF Family \in DOMAIN CASES_BY_FAMILY THEN CASES_BY_FAMILY[Family] ELSE <<>>

Ran(case, wrong) ==
    LET names == REQUIRED_CHECKS[case]
    IN  Result(case, [i \in DOMAIN names |-> Check(names[i], "target", names[i] \notin wrong)])

\* Every case ran to its end, and these checks did not hold.
ReportOf(wrong) == Folded([i \in DOMAIN cases |-> Ran(cases[i], wrong)])

ASSUME SymptomsShow ==
    \A wrong \in Symptoms :
        \E i \in DOMAIN cases : wrong \intersect ToSet(REQUIRED_CHECKS[cases[i]]) # {}

\* What the product makes fail.
Wrong(works) == IF works THEN {{}} ELSE Symptoms

\* Cut short, run in part, run twice, or summed up wrongly.
Damaged(wrong) ==
    LET whole == ReportOf(wrong).cases
        part  == [whole EXCEPT ![1].checks = Tail(@)]
    IN  {Folded([whole EXCEPT ![1] = BlockedResult(cases[1], Tail(whole[1].checks))]),
         Folded(part),
         Folded(Append(whole, whole[1]))}
        \union {[ReportOf(wrong) EXCEPT !.verdict = claim] : claim \in {"passed", "failed"}}

Hidden == UNION {ErrorHolds[cases[i]] : i \in DOMAIN cases}

\* Graded on an error status or a lost page load as if it were the product's
\* answer: a check fails that would hold, or those hold that show nothing.
Misread(wrong) ==
    {ReportOf(wrong \union {name}) : name \in UNION {ErrorFails[cases[i]] : i \in DOMAIN cases}}
    \union {ReportOf(wrong \ Hidden)}

Nobody == "nobody"

ASSUME NobodyIsNone == Nobody \notin Coordinators

ASSUME BoundsAreNumbers == {MaxMoves, MaxCrashes, MaxErrors} \subseteq Nat

-----------------------------------------------------------------------------
VARIABLES
    pull,      \* the pull request: state, head, what merging it made, and
               \* whether it is from our repository into the base branch
    repair,    \* the row's state, and its pr_head_sha
    host,      \* per commit: its checkout, containers, volumes and portal
    verdicts,  \* the verifications table
    lock,      \* who holds coordinator.lock
    pc, job,   \* per coordinator: where it is, and the attempt in its hands
    orphaned,  \* history: stacks an attempt lost hold of
    been,      \* history: how often the branch was put at a commit
    misread,   \* history: commits a replay of which was graded on an error
    moves, crashes, errors

control == <<pc, job>>
seen    == <<been, misread>>
history == <<orphaned, seen>>
bounds  == <<moves, crashes, errors>>
vars    == <<pull, repair, host, verdicts, lock, control, history, bounds>>

NoJob == [stage |-> "none", commit |-> NoCommit, wanted |-> NoCommit,
          measured |-> Unmeasured, report |-> Folded(<<>>), verdict |-> "blocked",
          built |-> FALSE, keep |-> FALSE]

Empty == [tree |-> "absent", up |-> FALSE, data |-> "none", portal |-> FALSE]

Working == {"reading", "listing", "checkout", "starting", "measured", "replaying",
            "rechecking", "retaining", "tearing", "recording", "recorded",
            "raising", "telling"}

TypeOK ==
    /\ pull \in [state : {"open", "closed", "merged"}, head : Pushed,
                 merge : Landed \union {NoCommit}, ours : BOOLEAN]
    /\ repair \in [state : {"working", "candidate", "awaiting_merge", "attention",
                            "refused", "merged"},
                   head : Pushed]
    /\ DOMAIN host = Commit
    /\ \A c \in Commit :
          /\ host[c].tree \in {"absent", "whole"}
          /\ host[c].up \in BOOLEAN /\ host[c].portal \in BOOLEAN
          /\ host[c].data \in {"none", "fresh", "inherited"}
          /\ host[c].up => host[c].data # "none"
          /\ host[c].portal => host[c].up
    /\ verdicts \subseteq [stage : {"preview", "post_merge"}, commit : Commit \union {NoCommit},
                           verdict : {"passed", "failed", "blocked"}]
    /\ lock \in Coordinators \union {Nobody}
    /\ pc \in [Coordinators -> {"off", "idle"} \union Working]
    /\ \A p \in Coordinators :
          /\ job[p].built => pc[p] \in Working /\ job[p].commit \in Commit
          /\ pc[p] \in {"measured", "replaying"} => job[p].measured \in Measured
    /\ orphaned \subseteq Commit /\ been \in [Pushed -> Nat] /\ misread \subseteq Commit
    /\ moves \in 0..MaxMoves /\ crashes \in 0..MaxCrashes /\ errors \in 0..MaxErrors

Init ==
    /\ \E c \in Pushed :
          /\ pull = [state |-> "open", head |-> c, merge |-> NoCommit, ours |-> TRUE]
          /\ repair = [state |-> "candidate", head |-> c]
          /\ been = [h \in Pushed |-> IF h = c THEN 1 ELSE 0]
    /\ host = [c \in Commit |-> Empty]
    /\ verdicts = {}
    /\ lock = Nobody
    /\ pc = [p \in Coordinators |-> "off"]
    /\ job = [p \in Coordinators |-> NoJob]
    /\ orphaned = {} /\ misread = {}
    /\ moves = 0 /\ crashes = 0 /\ errors = 0

Goto(p, label) == pc' = [pc EXCEPT ![p] = label]
Keeps(p)       == job' = job
Fails          == errors < MaxErrors /\ errors' = errors + 1

\* The verdict is in; the report and the measurement only go into its row.
Decide(p, verdict, keep, label) ==
    /\ job' = [job EXCEPT ![p] = [job[p] EXCEPT !.verdict = verdict,
                                                !.keep = job[p].keep \/ keep,
                                                !.measured = Unmeasured,
                                                !.report = Folded(<<>>)]]
    /\ Goto(p, label)

\* A return of blocked out of verify(), or its except clause: recorded first,
\* and torn down on the way out.
Block(p) == Decide(p, "blocked", FALSE, "recording")

-----------------------------------------------------------------------------
(***************************************************************************)
(* The pull request: the session pushes, somebody retargets, closes or     *)
(* merges it, by any method and with any content.                          *)
(***************************************************************************)
Moves == moves < MaxMoves /\ moves' = moves + 1 /\ pull.state = "open"

Push(c) ==
    /\ Moves
    /\ c # pull.head
    /\ pull' = [pull EXCEPT !.head = c]
    /\ been' = [been EXCEPT ![c] = @ + 1]
    /\ UNCHANGED <<repair, host, verdicts, lock, control, orphaned, misread, crashes, errors>>

Retarget ==
    /\ Moves
    /\ pull' = [pull EXCEPT !.ours = ~@]
    /\ UNCHANGED <<repair, host, verdicts, lock, control, history, crashes, errors>>

Leave(state, merge) ==
    /\ Moves
    /\ pull' = [pull EXCEPT !.state = state, !.merge = merge]
    /\ UNCHANGED <<repair, host, verdicts, lock, control, history, crashes, errors>>

GitHub ==
    \/ \E c \in Pushed : Push(c)
    \/ Retarget
    \/ Leave("closed", NoCommit)
    \/ \E m \in Landed : Leave("merged", m)

-----------------------------------------------------------------------------
(***************************************************************************)
(* Which coordinator works, and what it is asked (Controller.poll, verify  *)
(* and check_merge as far as they hand work to the verifier).              *)
(***************************************************************************)
\* Mutant of StartUp: nobody takes the lock.
StartUpUnlocked(p) ==
    /\ pc[p] = "off"
    /\ lock' = p
    /\ Goto(p, "idle")
    /\ UNCHANGED <<pull, repair, host, verdicts, job, history, bounds>>

\* single_instance: refused while another holds the lock.
StartUp(p) ==
    /\ pc[p] = "off"
    /\ lock = Nobody
    /\ lock' = p
    /\ Goto(p, "idle")
    /\ UNCHANGED <<pull, repair, host, verdicts, job, history, bounds>>

\* Mutant of Crash: the lock is a file that somebody has to remove.
CrashLocked(p) ==
    /\ pc[p] # "off"
    /\ crashes < MaxCrashes
    /\ crashes' = crashes + 1
    /\ Goto(p, "off")
    /\ orphaned' = orphaned \union {c \in Commit : c = job[p].commit}
    /\ job' = [job EXCEPT ![p] = NoJob]
    /\ UNCHANGED <<pull, repair, host, verdicts, lock, seen, moves, errors>>

\* The kernel releases the lock; the stack and its volumes stay.
Crash(p) ==
    /\ pc[p] # "off"
    /\ crashes < MaxCrashes
    /\ crashes' = crashes + 1
    /\ lock' = IF lock = p THEN Nobody ELSE lock
    /\ Goto(p, "off")
    /\ orphaned' = orphaned \union {c \in Commit : c = job[p].commit}
    /\ job' = [job EXCEPT ![p] = NoJob]
    /\ UNCHANGED <<pull, repair, host, verdicts, seen, moves, errors>>

\* poll(): the session delivered, and its pull request's head is written down.
Poll(p) ==
    /\ pc[p] = "idle"
    /\ repair.state = "working"
    /\ pull.state = "open" /\ pull.ours
    /\ repair' = [state |-> "candidate", head |-> pull.head]
    /\ UNCHANGED <<pull, host, verdicts, lock, control, history, bounds>>

Attempt(p, stage, wanted) ==
    /\ job' = [job EXCEPT ![p] = [NoJob EXCEPT !.stage = stage, !.wanted = wanted]]
    /\ Goto(p, "reading")

VerifyCandidate(p) ==
    /\ pc[p] = "idle"
    /\ repair.state = "candidate"
    /\ Attempt(p, "preview", NoCommit)
    /\ UNCHANGED <<pull, repair, host, verdicts, lock, history, bounds>>

\* check_merge(): a merge that is not of pr_head_sha into our base is refused.
MergeProblem == ~pull.ours \/ pull.head # repair.head

CheckMerge(p) ==
    /\ pc[p] = "idle"
    /\ repair.state = "awaiting_merge"
    /\ pull.state # "open"
    /\ IF pull.state = "merged" /\ ~MergeProblem
       THEN Attempt(p, "post_merge", pull.merge) /\ UNCHANGED repair
       ELSE /\ repair' = [repair EXCEPT !.state = IF pull.state = "merged" /\ pull.ours
                                                  THEN "refused" ELSE "attention"]
            /\ UNCHANGED control
    /\ UNCHANGED <<pull, host, verdicts, lock, history, bounds>>

-----------------------------------------------------------------------------
(***************************************************************************)
(* An attempt: Verifier.verify.                                            *)
(***************************************************************************)
HeadProblem == pull.state # "open" \/ ~pull.ours

MergedProblem(wanted) ==
    pull.state # "merged" \/ pull.merge # wanted \/ MergeProblem

\* The merged content is the previewed content (_content_problem).
ContentProblem(wanted) == wanted.tree # repair.head.tree

\* The first call: whose head it is and where it goes.
Read(p) ==
    /\ pc[p] = "reading"
    /\ LET problem == IF job[p].stage = "preview" THEN HeadProblem
                      ELSE MergedProblem(job[p].wanted) \/ ContentProblem(job[p].wanted)
       IN  IF problem THEN Block(p)
           ELSE /\ job' = [job EXCEPT ![p].commit = IF job[p].stage = "preview" THEN pull.head
                                                    ELSE job[p].wanted]
                /\ Goto(p, "listing")
    /\ UNCHANGED <<pull, repair, host, verdicts, lock, history, bounds>>

\* The second call asks for the files of the pull request, whose head may be
\* another one by now, or for those of the merged commit by its name.
Files(p) == IF job[p].stage = "preview" THEN AllOf(pull.head.tree)
            ELSE compare_files(job[p].commit)

List(p) ==
    /\ pc[p] = "listing"
    /\ IF check_scope(Files(p), Family) /\ cases # <<>>
       THEN Goto(p, "checkout") /\ Keeps(p)
       ELSE Block(p)
    /\ UNCHANGED <<pull, repair, host, verdicts, lock, history, bounds>>

\* GitHub answers one of the reads with an error status.
Unread(p) ==
    /\ pc[p] \in {"reading", "listing", "rechecking"}
    /\ Fails
    /\ Block(p)
    /\ UNCHANGED <<pull, repair, host, verdicts, lock, history, moves, crashes>>

\* It does not answer: Ambiguous or Refused, which leave verify() with nothing
\* recorded, as often as it happens.
Unanswered(p) ==
    /\ pc[p] \in {"reading", "listing", "rechecking"}
    /\ Goto(p, "raising") /\ Keeps(p)
    /\ UNCHANGED <<pull, repair, host, verdicts, lock, history, bounds>>

\* Mutant of Gone: without --remove-orphans, which is what removes the portal.
GoneWithoutOrphans(c) == host' = [host EXCEPT ![c] = [Empty EXCEPT !.portal = host[c].portal]]

\* compose down -v --remove-orphans, and _remove_tree.
Gone(c) == host' = [host EXCEPT ![c] = Empty]

\* The same when Docker does not do it.
Left(c) ==
    /\ \E up, portal \in BOOLEAN :
          host' = [host EXCEPT ![c] = [tree |-> "absent", up |-> up, data |-> "fresh",
                                       portal |-> up /\ portal /\ host[c].portal]]
    /\ orphaned' = orphaned \union {c}

\* prepare() from the tree's removal to its fetch and, for a browser family,
\* its build.
Checkout(p) ==
    /\ pc[p] = "checkout"
    /\ host' = [host EXCEPT ![job[p].commit].tree = "whole"]
    /\ Goto(p, "starting") /\ Keeps(p)
    /\ UNCHANGED <<pull, repair, verdicts, lock, history, bounds>>

\* _discard.  After a failed fetch there is no Compose file: compose down fails
\* too, and only the tree is removed.  After a failed build there is one.
CheckoutFails(p) ==
    /\ pc[p] = "checkout"
    /\ Fails
    /\ LET built == IF Family \in ASSET_BUILT_FAMILIES THEN {FALSE, TRUE} ELSE {FALSE}
       IN  \E discards \in built :
              host' = [host EXCEPT ![job[p].commit] = IF discards THEN Empty
                                                      ELSE [@ EXCEPT !.tree = "absent"]]
    /\ Block(p)
    /\ UNCHANGED <<pull, repair, verdicts, lock, history, moves, crashes>>

\* compose up, the seeds and the measurement.  Volumes that are there are used.
Up(c) == host' = [host EXCEPT ![c].up = TRUE,
                              ![c].data = IF @ = "none" THEN "fresh" ELSE "inherited"]

Prepare(p) ==
    /\ pc[p] = "starting"
    /\ Up(job[p].commit)
    /\ \/ /\ job' = [job EXCEPT ![p].built = TRUE, ![p].measured = Sound(job[p].commit)]
          /\ UNCHANGED errors
       \/ /\ Fails
          /\ \E m \in Flawed(job[p].commit) :
                job' = [job EXCEPT ![p].built = TRUE, ![p].measured = m]
    /\ Goto(p, "measured")
    /\ UNCHANGED <<pull, repair, verdicts, lock, history, moves, crashes>>

\* A RunnerError: _discard() takes the project down again, or what failed the
\* one command fails the other, and only the tree is removed.
PrepareFails(p) ==
    /\ pc[p] = "starting"
    /\ Fails
    /\ \/ Gone(job[p].commit) /\ UNCHANGED orphaned
       \/ Left(job[p].commit)
    /\ Block(p)
    /\ UNCHANGED <<pull, repair, verdicts, lock, seen, moves, crashes>>

\* Another error, an OSError or a command that ran out of its time: nothing is
\* discarded and verify() has no environment to tear down.  The first is
\* recorded as blocked, the second ends the tick.
PrepareRaises(p) ==
    /\ pc[p] = "starting"
    /\ Fails
    /\ Up(job[p].commit)
    /\ orphaned' = orphaned \union {job[p].commit}
    /\ \/ Block(p)
       \/ Goto(p, "raising") /\ Keeps(p)
    /\ UNCHANGED <<pull, repair, verdicts, lock, seen, moves, crashes>>

Inspect(p) ==
    /\ pc[p] = "measured"
    /\ IF ProvenanceProblem(job[p].measured, job[p].commit) THEN Block(p)
       ELSE Goto(p, "replaying") /\ Keeps(p)
    /\ UNCHANGED <<pull, repair, host, verdicts, lock, history, bounds>>

\* What the services that run do, or the bundle a browser is served; on a
\* database that a dead attempt seeded, anything may come out.
Served(m) == IF Family \in ASSET_BUILT_FAMILIES THEN {m.bundle} ELSE {m.web.tree, m.mcp.tree}

Shows(p) ==
    IF host[job[p].commit].data = "fresh" THEN {Served(job[p].measured) \subseteq Works}
    ELSE BOOLEAN

Replay(p) ==
    /\ pc[p] = "replaying"
    /\ \E works \in Shows(p) : \E wrong \in Wrong(works) :
          \/ /\ job' = [job EXCEPT ![p].report = ReportOf(wrong)]
             /\ UNCHANGED <<errors, misread>>
          \/ /\ Fails
             /\ \E r \in Damaged(wrong) : job' = [job EXCEPT ![p].report = r]
             /\ UNCHANGED misread
          \/ /\ Fails
             /\ \E r \in Misread(wrong) : job' = [job EXCEPT ![p].report = r]
             /\ misread' = misread \union {job[p].commit}
    /\ Goto(p, "rechecking")
    /\ UNCHANGED <<pull, repair, host, verdicts, lock, orphaned, been, moves, crashes>>

\* A RuntimeError out of the replay is recorded; any other leaves verify().
ReplayRaises(p) ==
    /\ pc[p] = "replaying"
    /\ Fails
    /\ \/ Block(p)
       \/ Goto(p, "raising") /\ Keeps(p)
    /\ UNCHANGED <<pull, repair, host, verdicts, lock, history, moves, crashes>>

Moved(p) == IF job[p].stage = "preview" THEN pull.head # job[p].commit \/ HeadProblem
            ELSE MergedProblem(job[p].wanted)

\* Mutant of Recheck: the head is not read again.
RecheckOnly(p) ==
    /\ pc[p] = "rechecking"
    /\ LET verdict == Settled(job[p].report, cases)
           keep    == RetainMerged /\ job[p].stage = "post_merge" /\ verdict = "passed"
       IN  Decide(p, verdict, keep, IF keep THEN "retaining" ELSE "tearing")
    /\ UNCHANGED <<pull, repair, host, verdicts, lock, history, bounds>>

Recheck(p) ==
    /\ pc[p] = "rechecking"
    /\ LET verdict == Settled(job[p].report, cases)
           keep    == RetainMerged /\ job[p].stage = "post_merge" /\ verdict = "passed"
       IN  IF Moved(p) THEN Block(p)
           ELSE Decide(p, verdict, keep, IF keep THEN "retaining" ELSE "tearing")
    /\ UNCHANGED <<pull, repair, host, verdicts, lock, history, bounds>>

\* _retain: a portal that does not come up is taken down again and said so.
Retain(p) ==
    /\ pc[p] = "retaining"
    /\ \/ host' = [host EXCEPT ![job[p].commit].portal = TRUE] /\ UNCHANGED errors
       \/ Fails /\ UNCHANGED host
    /\ Goto(p, "recording") /\ Keeps(p)
    /\ UNCHANGED <<pull, repair, verdicts, lock, history, moves, crashes>>

\* Its record cannot be written: blocked, while keep has already been set.
RetainUnwritten(p) ==
    /\ pc[p] = "retaining"
    /\ Fails
    /\ \E portal \in BOOLEAN : host' = [host EXCEPT ![job[p].commit].portal = portal]
    /\ orphaned' = orphaned \union {job[p].commit}
    /\ Block(p)
    /\ UNCHANGED <<pull, repair, verdicts, lock, seen, moves, crashes>>

\* teardown(): by file and then by label, and whatever fails is passed over.
TornDown(p) ==
    \/ Gone(job[p].commit) /\ UNCHANGED <<errors, orphaned>>
    \/ Fails /\ Left(job[p].commit)

\* On the way to a verdict the stack is torn down before it is recorded.
TearDown(p) ==
    /\ pc[p] = "tearing"
    /\ TornDown(p)
    /\ job' = [job EXCEPT ![p].built = FALSE]
    /\ Goto(p, "recording")
    /\ UNCHANGED <<pull, repair, verdicts, lock, seen, moves, crashes>>

\* _finish: one row of the verifications table.
Record(p) ==
    /\ pc[p] = "recording"
    /\ verdicts' = verdicts \union {[stage |-> job[p].stage, commit |-> job[p].commit,
                                     verdict |-> job[p].verdict]}
    /\ Goto(p, "recorded") /\ Keeps(p)
    /\ UNCHANGED <<pull, repair, host, lock, history, bounds>>

\* Mutant of RecordRaises: the failed write is passed over.
RecordRaisesOn(p) ==
    /\ pc[p] = "recording"
    /\ Fails
    /\ Goto(p, "recorded") /\ Keeps(p)
    /\ orphaned' = orphaned \union {c \in Commit : c = job[p].commit /\ job[p].keep}
    /\ UNCHANGED <<pull, repair, host, verdicts, lock, seen, moves, crashes>>

\* The report cannot be written beside it: no row, and the tick ends.
RecordRaises(p) ==
    /\ pc[p] = "recording"
    /\ Fails
    /\ Goto(p, "raising") /\ Keeps(p)
    /\ orphaned' = orphaned \union {c \in Commit : c = job[p].commit /\ job[p].keep}
    /\ UNCHANGED <<pull, repair, host, verdicts, lock, seen, moves, crashes>>

\* Mutant of Finally: only an attempt that was graded is torn down.
FinallyNothing(p) ==
    /\ pc[p] \in {"recorded", "raising"}
    /\ IF pc[p] = "recorded"
       THEN job' = [job EXCEPT ![p].built = FALSE] /\ Goto(p, "telling")
       ELSE job' = [job EXCEPT ![p] = NoJob] /\ Goto(p, "idle")
    /\ UNCHANGED <<pull, repair, host, verdicts, lock, history, bounds>>

\* The finally clause, after a return or an exception out of verify().
Finally(p) ==
    /\ pc[p] \in {"recorded", "raising"}
    /\ IF job[p].built /\ ~job[p].keep THEN TornDown(p)
       ELSE UNCHANGED <<host, errors, orphaned>>
    /\ IF pc[p] = "recorded"
       THEN job' = [job EXCEPT ![p].built = FALSE] /\ Goto(p, "telling")
       ELSE job' = [job EXCEPT ![p] = NoJob] /\ Goto(p, "idle")
    /\ UNCHANGED <<pull, repair, verdicts, lock, seen, moves, crashes>>

\* The controller writes down what the outcome means for the repair.
Meaning(stage, verdict) ==
    CASE verdict = "blocked"                          -> "attention"
      [] verdict = "failed" /\ stage = "preview"      -> "working"
      [] verdict = "failed" /\ stage = "post_merge"   -> "attention"
      [] verdict = "passed" /\ stage = "preview"      -> "awaiting_merge"
      [] verdict = "passed" /\ stage = "post_merge"   -> "merged"

Tell(p) ==
    /\ pc[p] = "telling"
    /\ repair' = [repair EXCEPT !.state = Meaning(job[p].stage, job[p].verdict)]
    /\ job' = [job EXCEPT ![p] = NoJob]
    /\ Goto(p, "idle")
    /\ UNCHANGED <<pull, host, verdicts, lock, history, bounds>>

-----------------------------------------------------------------------------
Coordinate(p) ==
    \/ StartUp(p) \/ Poll(p) \/ VerifyCandidate(p) \/ CheckMerge(p)
    \/ Read(p) \/ List(p) \/ Unread(p) \/ Unanswered(p)
    \/ Checkout(p) \/ CheckoutFails(p)
    \/ Prepare(p) \/ PrepareFails(p) \/ PrepareRaises(p)
    \/ Inspect(p) \/ Replay(p) \/ ReplayRaises(p) \/ Recheck(p)
    \/ Retain(p) \/ RetainUnwritten(p) \/ TearDown(p)
    \/ Record(p) \/ RecordRaises(p) \/ Finally(p) \/ Tell(p)

Next ==
    \/ GitHub
    \/ \E p \in Coordinators : Coordinate(p) \/ Crash(p)

Spec == Init /\ [][Next]_vars

\* The loop of coordinator.run goes on whatever a tick raises, and somebody
\* starts a coordinator again where none runs.
FairSpec == Spec /\ WF_vars(\E p \in Coordinators : Coordinate(p))
-----------------------------------------------------------------------------
\* Commits of which an attempt was lost hold of, and those that may have passed
\* because a page did not come up, where a case grades that as a pass.
Doubted == orphaned \union (IF Hidden = {} THEN {} ELSE misread)

\* grade, provenance_problem and the fresh database: what the table says of a
\* commit is what that commit does, however the stack or the report was
\* damaged.  Exempt is what the validator does to it, although src/README.md
\* says that transport errors block: a commit of which a replay was graded on
\* an error status or a lost page load may have failed for that (N1's list and
\* chart data, S2's reads, B1's control chart), and in a browser it may have
\* passed for it (B1's second load).  Exempt is also a commit an attempt was
\* lost hold of.
VerdictIsEarned ==
    \A v \in verdicts :
        /\ v.verdict = "passed" /\ v.commit \notin Doubted => v.commit.tree \in Works
        /\ v.verdict = "failed" /\ v.commit \notin Doubted \union misread
              => v.commit.tree \notin Works

\* verify() reads the head, its files and the head again in three calls: a
\* commit is called passed only if its own diff is in scope, and a merge is
\* accepted only of such content, however the branch moved in between, unless
\* it came back to a commit it had left.
PassedIsInScope ==
    /\ \A v \in verdicts :
          v.stage = "preview" /\ v.verdict = "passed" /\ been[v.commit] = 1
              => check_scope(AllOf(v.commit.tree), Family)
    /\ repair.state = "merged" /\ been[repair.head] = 1
          => /\ pull.merge.tree = pull.head.tree
             /\ check_scope(AllOf(pull.merge.tree), Family)

\* IsolatedStack and the finally clause: a stack that is up has an attempt that
\* will take it down or was retained for the merged commit that passed, unless
\* an attempt lost hold of it.
NothingLeftRunning ==
    \A c \in Commit :
        host[c].up =>
            \/ c \in orphaned
            \/ \E p \in Coordinators : pc[p] \in Working /\ job[p].commit = c
            \/ /\ RetainMerged
               /\ [stage |-> "post_merge", commit |-> c, verdict |-> "passed"] \in verdicts

\* single_instance: nobody removes a candidate's checkout, containers or data
\* while it is measured and replayed.
LiveStackIsWhole ==
    \A p \in Coordinators :
        pc[p] \in {"measured", "replaying", "rechecking", "retaining"} =>
            LET stack == host[job[p].commit]
            IN  stack.tree = "whole" /\ stack.up

\* The verdicts that are in the table and not yet acted on.
Said ==
    {[stage |-> job[p].stage, commit |-> job[p].commit, verdict |-> job[p].verdict] :
        p \in {q \in Coordinators : pc[q] \in {"recorded", "telling"}}}

\* The abstract promise: what becomes of the repair follows the verdicts, one at
\* a time, as Acceptance says.
Gate == INSTANCE Acceptance WITH
    Mended  <- {c \in Commit : c.tree \in Works},
    state   <- repair.state,
    merge   <- pull.merge,
    said    <- Said,
    doubted <- Doubted,
    misread <- misread

AcceptanceKept == Gate!Spec

\* A candidate is graded, or somebody is asked, under the fairness of the loop,
\* if its ticks stop raising: a read that GitHub leaves unanswered writes
\* nothing down, nothing counts it and no budget is looked at, so that one that
\* is never answered leaves the candidate as it is for ever.  (What the host
\* does wrong is bounded by MaxErrors.)
CandidateIsJudged ==
    <>[](\A p \in Coordinators : pc[p] # "raising") => []<>(repair.state # "candidate")
===============================================================================
